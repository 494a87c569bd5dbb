--------------------------- MODULE UsbEnforcement ---------------------------
(***************************************************************************)
(* USB storage on the Windows agent.  Two controls of the server decide    *)
(* about it: a monitoring policy of the bundle (ApplyPolicyBundle) and the *)
(* allowlist of approved serials (SyncUsbAllowlist).  The sync thread      *)
(* installs both while the window thread handles arrivals                  *)
(* (HandleUsbDeviceArrival).  A block is class-wide: it shuts the USBSTOR  *)
(* driver off in the registry, which outlives the agent; only an elevated  *)
(* process may write there, and the installation starts the agent without. *)
(***************************************************************************)
EXTENDS Integers

CONSTANTS Serials,
          OthersActive,         \* some file or clipboard policy is active
          MaxEdits, MaxArrivals, MaxFaults   \* bounds

VARIABLES classic, control, approved,  \* the server: monitoring policy, allowlist mode, serials
          bundle,      \* the monitoring policy the agent holds
          has,         \* hasUsbDevicePolicies
          cache,       \* the bundle on disk
          active,      \* usbBlockingActive
          allow,       \* usbAllowlistEnforced, usbAllowlistMode and sanctionedUsbSerials
          sync,        \* the policy sync thread
          listening,   \* the USB monitor has its window
          arrival,     \* the arrival the window thread handles
          elevated,    \* the agent's process may write the registry
          boot,        \* the boot task of the installation has still to run
          blocked,     \* the registry shuts USB storage off
          raced,       \* history: blocked with no reason by then, or one half replaced
          edits, arrivals, faults

vars == <<classic, control, approved, bundle, has, cache, active, allow, sync, listening, arrival,
          elevated, boot, blocked, raced, edits, arrivals, faults>>
server == <<classic, control, approved>>
machine == <<elevated, boot>>
window == <<listening, arrival, arrivals>>

Policies == {"none", "alert", "block"}
Unset == "unset"
List == [enforced : BOOLEAN, mode : {"off", "audit", "enforce"}, serials : SUBSET Serials]
NoList == [enforced |-> FALSE, mode |-> "off", serials |-> {}]
Idle == [at |-> "idle"]

TypeOK ==
  /\ classic \in Policies /\ control \in {"off", "audit", "enforce"} /\ approved \subseteq Serials
  /\ {bundle, cache} \subseteq Policies \cup {Unset}
  /\ has \in BOOLEAN /\ active \in BOOLEAN /\ allow \in List
  /\ sync \in {Idle} \cup [at : {"parse", "save"}, policy : Policies] \cup {[at |-> "ask"]}
           \cup [at : {"list", "store", "restore"}, list : List, was : BOOLEAN]
  /\ listening \in BOOLEAN /\ elevated \in BOOLEAN /\ boot \in BOOLEAN
  /\ blocked \in BOOLEAN /\ raced \in BOOLEAN
  /\ arrival \in {Idle} \cup
       [at : {"list", "policies", "block"}, serial : Serials, enforced : BOOLEAN,
        sanctioned : BOOLEAN, refused : BOOLEAN]
  /\ edits \in 0 .. MaxEdits /\ arrivals \in 0 .. MaxArrivals /\ faults \in 0 .. MaxFaults

\* A task of the installation blocks USB storage at boot until a policy says more.
Init ==
  /\ classic \in Policies /\ control \in {"off", "audit", "enforce"} /\ approved = {}
  /\ bundle = Unset /\ has = FALSE /\ cache = Unset /\ active = FALSE /\ allow = NoList
  /\ sync = Idle /\ listening = FALSE /\ arrival = Idle
  /\ elevated \in BOOLEAN /\ boot \in BOOLEAN /\ blocked \in BOOLEAN /\ raced = FALSE
  /\ edits = 0 /\ arrivals = 0 /\ faults = 0

AllowEvents == bundle # Unset /\ (OthersActive \/ bundle # "none")
ListBlocks == allow.enforced /\ allow.mode = "enforce"

Leave == UNCHANGED <<blocked, raced>>

\* BlockUSBStorageViaRegistry(false): denied unless elevated, and no caller asks.
Restore == IF elevated THEN blocked' = FALSE /\ raced' = FALSE ELSE Leave

\* Storage is shut off, with a reason or without.
Shut ==
  /\ blocked' = TRUE
  /\ raced' = (raced \/ (bundle # Unset /\ ~(active \/ ListBlocks)) \/ sync.at = "store")

-----------------------------------------------------------------------------
\* The server.  Without a policy its answer still says mode "enforce".
Served == [enforced |-> control # "off",
           mode |-> IF control = "audit" THEN "audit" ELSE "enforce", serials |-> approved]

Edit ==
  /\ edits < MaxEdits /\ edits' = edits + 1
  /\ \/ \E p \in Policies \ {classic} : classic' = p /\ UNCHANGED <<control, approved>>
     \/ \E m \in {"off", "audit", "enforce"} \ {control} : control' = m /\ UNCHANGED <<classic, approved>>
     \/ \E s \in Serials :
          /\ approved' = IF s \in approved THEN approved \ {s} ELSE approved \cup {s}
          /\ UNCHANGED <<classic, control>>
  /\ UNCHANGED <<bundle, has, cache, active, allow, sync, window, machine, blocked, raced, faults>>

-----------------------------------------------------------------------------
\* SyncPolicies: a new bundle clears the flags before it is parsed.
SyncPull ==
  /\ sync = Idle
  /\ \/ /\ classic # bundle
        /\ sync' = [at |-> "parse", policy |-> classic] /\ has' = FALSE
        /\ UNCHANGED faults
     \/ /\ classic = bundle
        /\ sync' = [at |-> "ask"]
        /\ UNCHANGED <<has, faults>>
     \/ /\ faults < MaxFaults /\ faults' = faults + 1
        /\ sync' = [at |-> "ask"]
        /\ UNCHANGED has
  /\ UNCHANGED <<server, bundle, cache, active, allow, window, machine, blocked, raced, edits>>

\* The first bundle asks the registry what was blocked before.
Apply(policy) ==
  LET previous == IF bundle = Unset THEN blocked ELSE active IN
  /\ bundle' = policy /\ has' = (policy # "none") /\ active' = (policy = "block")
  /\ IF previous /\ policy # "block" THEN Restore ELSE Leave

SyncParse ==
  /\ sync.at = "parse"
  /\ Apply(sync.policy)
  /\ sync' = [sync EXCEPT !.at = "save"]
  /\ UNCHANGED <<server, cache, allow, window, machine, edits, faults>>

SyncSave ==
  /\ sync.at = "save"
  /\ cache' = sync.policy /\ sync' = [at |-> "ask"]
  /\ UNCHANGED <<server, bundle, has, active, allow, window, machine, blocked, raced, edits, faults>>

\* SyncUsbAllowlist: an error keeps the last list.
SyncAsk ==
  /\ sync.at = "ask"
  /\ \/ sync' = [at |-> "list", list |-> Served, was |-> FALSE] /\ UNCHANGED faults
     \/ faults < MaxFaults /\ faults' = faults + 1 /\ sync' = Idle
  /\ UNCHANGED <<server, bundle, has, cache, active, allow, window, machine, blocked, raced, edits>>

\* Mutant: whether the list was blocking is asked once it has been replaced.
WasNever(list) == allow.enforced /\ list.mode = "enforce" /\ list.enforced

Was(list) == ListBlocks

\* Mode and serials change under the mutex, the flag after it.
SyncList ==
  /\ sync.at = "list"
  /\ sync' = [sync EXCEPT !.at = "store", !.was = Was(sync.list)]
  /\ allow' = [sync.list EXCEPT !.enforced = allow.enforced]
  /\ UNCHANGED <<server, bundle, has, cache, active, window, machine, blocked, raced, edits, faults>>

SyncStore ==
  /\ sync.at = "store"
  /\ sync' = [sync EXCEPT !.at = "restore"]
  /\ allow' = sync.list
  /\ UNCHANGED <<server, bundle, has, cache, active, window, machine, blocked, raced, edits, faults>>

SyncRestore ==
  /\ sync.at = "restore"
  /\ IF sync.was /\ ~ListBlocks /\ ~active THEN Restore ELSE Leave
  /\ sync' = Idle
  /\ UNCHANGED <<server, bundle, has, cache, active, allow, window, machine, edits, faults>>

Sync == SyncPull \/ SyncParse \/ SyncSave \/ SyncAsk \/ SyncList \/ SyncStore \/ SyncRestore

-----------------------------------------------------------------------------
\* UsbMonitor waits for a monitoring policy before it opens its window.
Listen ==
  /\ ~listening /\ has /\ AllowEvents
  /\ listening' = TRUE
  /\ UNCHANGED <<server, bundle, has, cache, active, allow, sync, arrival, arrivals, machine, blocked,
                 raced, edits, faults>>

\* HandleUsbDeviceArrival: the flag is read before the list it belongs to.
Arrive(s) ==
  /\ listening /\ arrival = Idle /\ arrivals < MaxArrivals
  /\ arrivals' = arrivals + 1
  /\ arrival' = IF AllowEvents /\ (has \/ allow.enforced)
                THEN [at |-> "list", serial |-> s, enforced |-> allow.enforced,
                      sanctioned |-> FALSE, refused |-> FALSE]
                ELSE Idle
  /\ UNCHANGED <<server, bundle, has, cache, active, allow, sync, listening, machine, blocked, raced,
                 edits, faults>>

ReadList ==
  /\ arrival.at = "list"
  /\ LET sanctioned == arrival.serial \in allow.serials IN
     arrival' = [arrival EXCEPT !.at = "policies", !.sanctioned = sanctioned,
                   !.refused = arrival.enforced /\ ~sanctioned /\ allow.mode = "enforce"]
  /\ UNCHANGED <<server, bundle, has, cache, active, allow, sync, listening, arrivals, machine,
                 blocked, raced, edits, faults>>

\* An approved device is let through a blocking policy, and with it every other.
\* The policies are copied under the mutex that a parse holds.
Decide ==
  /\ arrival.at = "policies" /\ sync.at # "parse"
  /\ LET exempt == arrival.enforced /\ arrival.sanctioned
         block == \/ arrival.refused
                  \/ bundle = "block" /\ ~exempt /\ active
     IN /\ arrival' = IF block THEN [arrival EXCEPT !.at = "block"] ELSE Idle
        /\ IF exempt /\ bundle = "block" THEN Restore ELSE Leave
  /\ UNCHANGED <<server, bundle, has, cache, active, allow, sync, listening, arrivals, machine, edits,
                 faults>>

Block ==
  /\ arrival.at = "block"
  /\ IF elevated THEN Shut ELSE Leave
  /\ arrival' = Idle
  /\ UNCHANGED <<server, bundle, has, cache, active, allow, sync, listening, arrivals, machine, edits,
                 faults>>

\* The boot task asks no policy, and runs some seconds after the start.
BootTask ==
  /\ boot /\ boot' = FALSE
  /\ Shut
  /\ UNCHANGED <<server, bundle, has, cache, active, allow, sync, window, elevated, edits, faults>>

\* The agent ends, cleanly or not, and starts again with the bundle on disk and
\* the rights of its new process; after a boot the task runs before it or later.
Restart(clean, rights, task) ==
  /\ faults < MaxFaults /\ faults' = faults + 1
  /\ LET opened == clean /\ has /\ elevated
         left == (blocked /\ ~opened) \/ task = "before"
         lifted == ~left \/ (rights /\ cache \in {"none", "alert"})
     IN /\ blocked' = ~lifted
        /\ raced' = (raced /\ ~lifted)
  /\ elevated' = rights /\ boot' = (task = "after")
  /\ bundle' = cache /\ has' = (cache \in {"alert", "block"}) /\ active' = (cache = "block")
  /\ allow' = NoList /\ sync' = Idle /\ listening' = FALSE /\ arrival' = Idle
  /\ UNCHANGED <<server, cache, arrivals, edits>>

Next ==
  \/ Edit \/ Sync \/ Listen \/ ReadList \/ Decide \/ Block \/ BootTask
  \/ \E s \in Serials : Arrive(s)
  \/ \E clean, rights \in BOOLEAN, task \in {"none", "before", "after"} : Restart(clean, rights, task)

Spec == Init /\ [][Next]_vars

\* The agent's threads go on.
Fairness == WF_vars(Sync) /\ WF_vars(Listen) /\ WF_vars(ReadList \/ Decide \/ Block)

FairSpec == Spec /\ Fairness

-----------------------------------------------------------------------------
\* An elevated agent leaves USB storage shut off only while one of the two
\* controls it holds says so, whatever order policies, lists, arrivals and
\* restarts come in, unless an arrival decided before the control was lifted or
\* while the list was half replaced, or the boot task ran late.  One that is not
\* elevated opens nothing and takes it for opened: what the boot task shut stays
\* shut ("would stay blocked forever with no code path to undo it", agent.cpp:6389).
BlockedForAReason ==
  (blocked /\ bundle # Unset /\ sync = Idle) => (active \/ ListBlocks \/ raced \/ ~elevated)

\* "an admin may have only the allowlist turned on with no usb_device_monitoring
\* policy at all" (agent.cpp:3158): an allowlist that stays enforced is watched.
AllowlistIsWatched == []<>~allow.enforced \/ <>listening
=============================================================================
