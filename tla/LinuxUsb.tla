------------------------------- MODULE LinuxUsb -------------------------------
(***************************************************************************)
(* USB disks on a Linux machine: the kernel announces a disk at a device    *)
(* node, the desktop mounts what is on it, and the agent's observer thread  *)
(* handles the announcements in order, unmounts what the allowlist it last  *)
(* fetched does not sanction and tells the server.  Disks are known by      *)
(* their serial numbers, disconnections only by the node.                   *)
(***************************************************************************)
EXTENDS Naturals, Sequences

CONSTANTS Devices, Nodes,
          MaxOps,    \* bound on what is plugged, pulled and edited
          MaxFaults  \* bound on fetches and commands that fail

VARIABLES
  allow,    \* the server's allowlist: enforced, serials
  known,    \* usb_enforced (and usb_mode) and usb_allowlist_serials
  at,       \* at[n]: the disk at node n and whether it is mounted
  phase,    \* the monitor: off, seeded, listening
  udev,     \* announcements not handled
  devices,  \* _known_devices
  reports,  \* what the server was told: event, device, action
  missed,   \* history: nodes where something happened between seeding and listening
  left,     \* history: disks whose unmounting failed
  ops, faults

vars == <<allow, known, at, phase, udev, devices, reports, missed, left, ops, faults>>

None == "none"
Empty == [disk |-> None, mounted |-> FALSE]
Allowlists == [enforced : BOOLEAN, serials : SUBSET Devices]

Announced(n, d, action) ==
  /\ udev' = IF phase = "listening"
             THEN Append(udev, [node |-> n, disk |-> d, action |-> action]) ELSE udev
  /\ missed' = IF phase = "seeded" THEN missed \cup {n} ELSE missed

PlugIn(n, d) ==
  /\ ops < MaxOps /\ ops' = ops + 1
  /\ at[n] = Empty /\ \A m \in Nodes : at[m].disk # d
  /\ at' = [at EXCEPT ![n].disk = d]
  /\ Announced(n, d, "add")
  /\ UNCHANGED <<allow, known, phase, devices, reports, left, faults>>

Pull(n) ==
  /\ ops < MaxOps /\ ops' = ops + 1
  /\ at[n] # Empty
  /\ at' = [at EXCEPT ![n] = Empty]
  /\ Announced(n, at[n].disk, "remove")
  /\ left' = left \ {at[n].disk}
  /\ UNCHANGED <<allow, known, phase, devices, reports, faults>>

Automount(n) ==
  /\ at[n] # Empty /\ at' = [at EXCEPT ![n].mounted = TRUE]
  /\ UNCHANGED <<allow, known, phase, udev, devices, reports, missed, left, ops, faults>>

EditAllowlist ==
  /\ ops < MaxOps /\ ops' = ops + 1
  /\ allow' \in Allowlists \ {allow}
  /\ UNCHANGED <<known, at, phase, udev, devices, reports, missed, left, faults>>

\* fetch_usb_allowlist, at the start and with every round of the sync loop.
FetchAllowlist ==
  /\ known' = allow
  /\ UNCHANGED <<allow, at, phase, udev, devices, reports, missed, left, ops, faults>>

\* The disks there are when the monitor starts are remembered, not handled.
Seed ==
  /\ phase = "off" /\ phase' = "seeded"
  /\ devices' = [n \in Nodes |-> at[n].disk]
  /\ UNCHANGED <<allow, known, at, udev, reports, missed, left, ops, faults>>

Listen ==
  /\ phase = "seeded" /\ phase' = "listening"
  /\ UNCHANGED <<allow, known, at, udev, devices, reports, missed, left, ops, faults>>

\* Mutant: an identity once remembered for a node is kept.
TrackedFirst(e) ==
  IF e.action = "add" /\ devices[e.node] = None THEN [devices EXCEPT ![e.node] = e.disk] ELSE devices

Tracked(e) == [devices EXCEPT ![e.node] = IF e.action = "add" THEN e.disk ELSE None]

Banned(d) == known.enforced /\ d \notin known.serials

\* unmount_device unmounts what is mounted at the node by now, if anything is, and
\* its umount can fail.
Unmount(n, unmounted) ==
  /\ unmounted => at[n].mounted
  /\ at' = [at EXCEPT ![n].mounted = @ /\ ~unmounted]
  /\ LET fails == at[n].mounted /\ ~unmounted
     IN /\ fails => faults < MaxFaults
        /\ faults' = faults + (IF fails THEN 1 ELSE 0)
        /\ left' = IF fails THEN left \cup {at[n].disk} ELSE left

HandleAdd(e, unmounted) ==
  LET n == e.node
  IN /\ IF Banned(e.disk) THEN Unmount(n, unmounted)
        ELSE ~unmounted /\ UNCHANGED <<at, faults, left>>
     /\ reports' = Append(reports, [event |-> "connect", disk |-> e.disk, node |-> n,
                                    action |-> IF unmounted THEN "block" ELSE "allow",
                                    banned |-> Banned(e.disk)])

\* Mutant: a removal is reported whether or not a disk is remembered.
RemoveAlways(e) ==
  /\ reports' = Append(reports, [event |-> "disconnect", disk |-> devices[e.node], node |-> e.node,
                                 action |-> "disconnect", gone |-> e.disk])
  /\ UNCHANGED <<at, left, faults>>

\* A removal is reported for the disk remembered at the node, if one is.
HandleRemove(e) ==
  /\ reports' = IF devices[e.node] = None THEN reports
                ELSE Append(reports, [event |-> "disconnect", disk |-> devices[e.node], node |-> e.node,
                                      action |-> "disconnect", gone |-> e.disk])
  /\ UNCHANGED <<at, left, faults>>

Handle ==
  /\ phase = "listening" /\ udev # <<>>
  /\ udev' = Tail(udev)
  /\ devices' = Tracked(Head(udev))
  /\ \/ Head(udev).action = "add" /\ \E unmounted \in BOOLEAN : HandleAdd(Head(udev), unmounted)
     \/ Head(udev).action = "remove" /\ HandleRemove(Head(udev))
  /\ UNCHANGED <<allow, known, phase, missed, ops>>

Init ==
  /\ allow \in Allowlists /\ known = [enforced |-> FALSE, serials |-> {}]
  /\ at \in [Nodes -> {Empty} \cup [disk : Devices, mounted : {TRUE}]]
  /\ \A n, m \in Nodes : (n # m /\ at[n] # Empty) => at[n].disk # at[m].disk
  /\ phase = "off" /\ udev = <<>> /\ devices = [n \in Nodes |-> None]
  /\ reports = <<>> /\ missed = {} /\ left = {} /\ ops = 0 /\ faults = 0

Next ==
  \/ \E n \in Nodes : Pull(n) \/ Automount(n) \/ \E d \in Devices : PlugIn(n, d)
  \/ EditAllowlist \/ FetchAllowlist \/ Seed \/ Listen \/ Handle

Spec == Init /\ [][Next]_vars

TypeOK ==
  /\ {allow, known} \subseteq Allowlists
  /\ at \in [Nodes -> [disk : Devices \cup {None}, mounted : BOOLEAN]]
  /\ phase \in {"off", "seeded", "listening"}
  /\ devices \in [Nodes -> Devices \cup {None}]
  /\ \A i \in DOMAIN udev : udev[i].disk \in Devices
  /\ \A i \in DOMAIN reports : reports[i].disk \in Devices
  /\ missed \subseteq Nodes /\ left \subseteq Devices
  /\ ops \in 0..MaxOps /\ faults \in 0..MaxFaults

\* The disk reported disconnected is the one that was pulled, though a removal
\* names only the node and several disks have been there, unless the node changed
\* while the monitor was starting.
DisconnectNamesDisk ==
  \A i \in DOMAIN reports :
    (reports[i].event = "disconnect" /\ reports[i].node \notin missed) => reports[i].disk = reports[i].gone
=============================================================================
