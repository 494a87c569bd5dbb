---------------------------- MODULE DeviceControl ----------------------------
(***************************************************************************)
(* The switch on the Printers and USB Devices pages (set_enforcement of    *)
(* api/v1/printers.py and api/v1/usb_devices.py).  It finds or creates a   *)
(* policy row under a reserved name, while the Policies tab creates, edits *)
(* and soft-deletes rows of the same table.  Agents are served by          *)
(* get_printer_policy and get_usb_allowlist of api/v1/agents.py.           *)
(*                                                                         *)
(* A row is kept for ever once inserted.  Names are unique among the rows  *)
(* that are not deleted (ix_policies_name_active).  made remembers that    *)
(* somebody made or edited the row on the Policies tab.                    *)
(***************************************************************************)
EXTENDS Integers, Sequences, FiniteSets

CONSTANTS Admins,         \* who may use the switch
          Priorities,     \* of the rows of the Policies tab; the switch uses the highest
          MaxRows, MaxEdits, MaxToggles   \* bounds

VARIABLES policies,       \* the table, in the order of insertion
          request,        \* the toggle each admin has under way
          edits, toggles  \* how often the tab and the switch were used

vars == <<policies, request, edits, toggles>>

Row == [reserved : BOOLEAN, control : BOOLEAN, active : BOOLEAN, deleted : BOOLEAN,
        priority : Priorities, made : BOOLEAN]

Highest == CHOOSE p \in Priorities : \A q \in Priorities : q <= p

Idle == [step |-> "idle", row |-> 0, on |-> FALSE, revive |-> FALSE]

TypeOK ==
  /\ policies \in Seq(Row) /\ Len(policies) <= MaxRows
  /\ request \in [Admins -> [step : {"idle", "byName", "commit"}, row : 0 .. MaxRows,
                             on : BOOLEAN, revive : BOOLEAN]]
  /\ edits \in 0 .. MaxEdits /\ toggles \in 0 .. MaxToggles

Init ==
  /\ policies = <<>>
  /\ request = [a \in Admins |-> Idle]
  /\ edits = 0 /\ toggles = 0

Live(r) == ~policies[r].deleted
Controls == {r \in DOMAIN policies : Live(r) /\ policies[r].control}
Named == {r \in DOMAIN policies : policies[r].reserved}

\* The rows an ORDER BY priority DESC may put first.
First(rows) == {r \in rows : \A s \in rows : policies[s].priority <= policies[r].priority}

\* Mutant: the table has no unique index.
TakenByNone(except) == FALSE

\* The unique index would be broken by one more live row of the reserved name.
Taken(except) == \E r \in Named \ {except} : Live(r)

-----------------------------------------------------------------------------
\* The switch: the control row, else a row of the reserved name, dead or alive.
ToggleLook(a, on) ==
  /\ request[a].step = "idle" /\ toggles < MaxToggles
  /\ toggles' = toggles + 1
  /\ \/ \E r \in First(Controls) :
          request' = [request EXCEPT ![a] = [step |-> "commit", row |-> r, on |-> on, revive |-> FALSE]]
     \/ /\ Controls = {}
        /\ request' = [request EXCEPT ![a] = [step |-> "byName", row |-> 0, on |-> on, revive |-> FALSE]]
  /\ UNCHANGED <<policies, edits>>

\* Two rows of the name, which a deleted one and a live one can be, are an error.
ToggleByName(a) ==
  /\ request[a].step = "byName"
  /\ request' = [request EXCEPT ![a] =
       CASE Named = {}            -> [@ EXCEPT !.step = "commit"]
         [] Cardinality(Named) = 1 ->
              [@ EXCEPT !.step = "commit", !.row = CHOOSE r \in Named : TRUE, !.revive = TRUE]
         [] OTHER                 -> Idle]
  /\ UNCHANGED <<policies, edits, toggles>>

\* The UPDATE sets what the request changed; a revived row is a control row again.
ToggleUpdate(a) ==
  LET r == request[a].row IN
  /\ request[a].step = "commit" /\ r # 0
  /\ policies' =
       IF request[a].revive
       THEN IF Taken(r) THEN policies
            ELSE [policies EXCEPT ![r].active = request[a].on, ![r].control = TRUE,
                                  ![r].deleted = FALSE]
       ELSE [policies EXCEPT ![r].active = request[a].on]
  /\ request' = [request EXCEPT ![a] = Idle]
  /\ UNCHANGED <<edits, toggles>>

\* A conflict with the index is answered 409 and leaves the table alone.
ToggleInsert(a) ==
  /\ request[a].step = "commit" /\ request[a].row = 0
  /\ policies' =
       IF Taken(0) THEN policies
       ELSE Append(policies, [reserved |-> TRUE, control |-> TRUE, active |-> request[a].on,
                              deleted |-> FALSE, priority |-> Highest, made |-> FALSE])
  /\ Len(policies) < MaxRows
  /\ request' = [request EXCEPT ![a] = Idle]
  /\ UNCHANGED <<edits, toggles>>

-----------------------------------------------------------------------------
\* The Policies tab.
TabCreate(row) ==
  /\ Len(policies) < MaxRows /\ edits < MaxEdits
  /\ row.reserved => ~Taken(0)
  /\ policies' = Append(policies, row)
  /\ edits' = edits + 1
  /\ UNCHANGED <<request, toggles>>

\* An edit may change the type, the status and the priority.
TabUpdate(r, row) ==
  /\ edits < MaxEdits /\ Live(r)
  /\ row.reserved = policies[r].reserved
  /\ policies' = [policies EXCEPT ![r] = row]
  /\ edits' = edits + 1
  /\ UNCHANGED <<request, toggles>>

TabDelete(r) ==
  /\ edits < MaxEdits /\ Live(r)
  /\ policies' = [policies EXCEPT ![r].deleted = TRUE, ![r].active = FALSE]
  /\ edits' = edits + 1
  /\ UNCHANGED <<request, toggles>>

TabRow == {row \in Row : row.made /\ ~row.deleted}

Next ==
  \/ \E a \in Admins : \/ \E on \in BOOLEAN : ToggleLook(a, on)
                       \/ ToggleByName(a) \/ ToggleUpdate(a) \/ ToggleInsert(a)
  \/ \E row \in TabRow : TabCreate(row)
  \/ \E r \in DOMAIN policies : TabDelete(r) \/ \E row \in TabRow : TabUpdate(r, row)

Spec == Init /\ [][Next]_vars

-----------------------------------------------------------------------------
\* What the page shows, and what an agent is told.
PageShows == {policies[r].active : r \in First(Controls)}
AgentsAreTold == {r \in Controls : policies[r].active} # {}

\* However two switches and the Policies tab interleave, the switch works on one
\* row: of the live control rows at most one is not the work of the Policies tab.
TogglesShareOneRow == Cardinality({r \in Controls : ~policies[r].made}) <= 1
=============================================================================
