------------------------------ MODULE UsbTriage ------------------------------
(***************************************************************************)
(* The USB Devices page (api/v1/usb_devices.py): serials seen in events    *)
(* wait in a triage queue until an administrator allows or denies them or  *)
(* an analyst dismisses them, and every serial is shown connected or not.  *)
(*                                                                         *)
(* Agents report a plug or an unplug from a thread of its own, once, and   *)
(* the server stamps the report when it arrives (log_device_authorization  *)
(* of api/v1/agents.py): reports of one stick may pass each other or be    *)
(* lost.  Only what the page reads back is kept of an event.               *)
(***************************************************************************)
EXTENDS Integers, FiniteSets

CONSTANTS Serials, Agents, Requests,    \* Requests: approvals under way at one time
          MaxOps, MaxMoves, MaxFaults   \* bounds on decisions, plugging and faults

VARIABLES rows,         \* the registry: per serial "none" or its decision and whether it is enabled
          dismissed,    \* serials somebody dismissed
          request,      \* approvals: between commit and the clearing of the dismissal
          latest,       \* per serial, the newest report stored
          sent,         \* reports under way
          plugged,      \* where each stick really is, and since which move
          online,       \* agents whose heartbeat is fresh
          astray,       \* history: serials whose last move nobody reported, or reported too early
          standing,     \* history: serials with a dismissal from before the last decision
          lapsed,       \* history: why such a dismissal was not taken back
          ops, moves, faults

vars == <<rows, dismissed, request, latest, sent, plugged, online, astray, standing, lapsed,
          ops, moves, faults>>

NoRow == [decision |-> "none", enabled |-> FALSE]
Decided == [decision : {"allow", "deny"}, enabled : BOOLEAN]
Report == [serial : Serials, agent : Agents, event : {"connect", "disconnect"}, at : 1 .. MaxMoves]
NoReport == [event |-> "none", at |-> 0]
Free == [step |-> "idle", decision |-> "none"]
Lapses == {"cut_short", "in_place"}

TypeOK ==
  /\ rows \in [Serials -> Decided \cup {NoRow}]
  /\ dismissed \subseteq Serials
  /\ request \in [Requests -> {Free} \cup [step : {"write", "clear"}, serial : Serials,
                                           decision : {"allow", "deny"}, found : BOOLEAN]]
  /\ latest \in [Serials -> Report \cup {NoReport}]
  /\ sent \subseteq Report
  /\ plugged \in [Serials -> [place : Agents \cup {"out"}, at : 0 .. MaxMoves]]
  /\ online \subseteq Agents
  /\ astray \subseteq Serials /\ standing \subseteq Serials
  /\ lapsed \in [Serials -> SUBSET Lapses]
  /\ ops \in 0 .. MaxOps /\ moves \in 0 .. MaxMoves /\ faults \in 0 .. MaxFaults

Init ==
  /\ rows = [s \in Serials |-> NoRow]
  /\ dismissed = {} /\ request = [q \in Requests |-> Free]
  /\ latest = [s \in Serials |-> NoReport]
  /\ sent = {} /\ plugged = [s \in Serials |-> [place |-> "out", at |-> 0]] /\ online = Agents
  /\ astray = {} /\ standing = {} /\ lapsed = [s \in Serials |-> {}]
  /\ ops = 0 /\ moves = 0 /\ faults = 0

Seen == {s \in Serials : latest[s] # NoReport}
Listed(s) == rows[s] # NoRow

-----------------------------------------------------------------------------
\* approve_device: find the row, write it, then drop the dismissal.
Approve(q, s, decision) ==
  /\ request[q] = Free /\ ops < MaxOps
  /\ request' = [request EXCEPT ![q] =
       [step |-> "write", serial |-> s, decision |-> decision, found |-> Listed(s)]]
  /\ ops' = ops + 1
  /\ UNCHANGED <<rows, dismissed, latest, sent, plugged, online, astray, standing, lapsed, moves, faults>>

\* An insert meets the unique serial, and an update a row that has gone: both
\* end the request.
Write(q) ==
  LET r == request[q] IN
  /\ r.step = "write"
  /\ IF r.found = Listed(r.serial)
     THEN /\ rows' = [rows EXCEPT ![r.serial] = [decision |-> r.decision, enabled |-> TRUE]]
          /\ standing' = IF r.serial \in dismissed THEN standing \cup {r.serial} ELSE standing
          /\ request' = [request EXCEPT ![q].step = "clear"]
     ELSE /\ request' = [request EXCEPT ![q] = Free]
          /\ UNCHANGED <<rows, standing>>
  /\ UNCHANGED <<dismissed, latest, sent, plugged, online, astray, lapsed, ops, moves, faults>>

\* The dismissal of s is gone, or is newer than every decision.
Settled(s) == standing' = standing \ {s} /\ lapsed' = [lapsed EXCEPT ![s] = {}]

\* Mutant: only an allowed device leaves the dismissed ones.
ClearAllowed(q) ==
  LET r == request[q] IN
  /\ r.step = "clear"
  /\ IF r.decision = "allow"
     THEN dismissed' = dismissed \ {r.serial} /\ Settled(r.serial)
     ELSE UNCHANGED <<dismissed, standing, lapsed>>
  /\ request' = [request EXCEPT ![q] = Free]
  /\ UNCHANGED <<rows, latest, sent, plugged, online, astray, ops, moves, faults>>

\* _clear_dismissal: "a real allow/deny decision always supersedes a not now".
Clear(q) ==
  LET r == request[q] IN
  /\ r.step = "clear"
  /\ dismissed' = dismissed \ {r.serial} /\ Settled(r.serial)
  /\ request' = [request EXCEPT ![q] = Free]
  /\ UNCHANGED <<rows, latest, sent, plugged, online, astray, ops, moves, faults>>

\* update_device: it flips a decision like approve_device, and clears nothing.
Update(s, row) ==
  /\ Listed(s) /\ ops < MaxOps
  /\ rows' = [rows EXCEPT ![s] = row]
  /\ IF s \in dismissed /\ row.decision # rows[s].decision
     THEN /\ standing' = standing \cup {s}
          /\ lapsed' = [lapsed EXCEPT ![s] = @ \cup {"in_place"}]
     ELSE UNCHANGED <<standing, lapsed>>
  /\ ops' = ops + 1
  /\ UNCHANGED <<dismissed, request, latest, sent, plugged, online, astray, moves, faults>>

Revoke(s) ==
  /\ Listed(s) /\ ops < MaxOps
  /\ rows' = [rows EXCEPT ![s] = NoRow]
  /\ ops' = ops + 1
  /\ UNCHANGED <<dismissed, request, latest, sent, plugged, online, astray, standing, lapsed, moves, faults>>

\* dismiss_seen_device asks nobody whether the serial was decided upon;
\* restore_seen_device.
Dismiss(s) ==
  /\ s \in Seen /\ ops < MaxOps
  /\ dismissed' = dismissed \cup {s} /\ Settled(s)
  /\ ops' = ops + 1
  /\ UNCHANGED <<rows, request, latest, sent, plugged, online, astray, moves, faults>>

Restore(s) ==
  /\ s \in dismissed /\ ops < MaxOps
  /\ dismissed' = dismissed \ {s} /\ Settled(s)
  /\ ops' = ops + 1
  /\ UNCHANGED <<rows, request, latest, sent, plugged, online, astray, moves, faults>>

-----------------------------------------------------------------------------
\* A stick is plugged or pulled; the agent, if it runs, sends a report.
Move(s, place) ==
  /\ moves < MaxMoves /\ plugged[s].place # place
  /\ plugged[s].place = "out" \/ place = "out"
  /\ moves' = moves + 1
  /\ plugged' = [plugged EXCEPT ![s] = [place |-> place, at |-> moves + 1]]
  /\ LET agent == IF place = "out" THEN plugged[s].place ELSE place
         event == IF place = "out" THEN "disconnect" ELSE "connect"
     IN IF agent \in online
        THEN /\ sent' = sent \cup {[serial |-> s, agent |-> agent, event |-> event, at |-> moves + 1]}
             /\ UNCHANGED astray
        ELSE /\ astray' = astray \cup {s}
             /\ UNCHANGED sent
  /\ UNCHANGED <<rows, dismissed, request, latest, online, standing, lapsed, ops, faults>>

\* The newest report is the one stored last.
Arrive(r) ==
  /\ r \in sent
  /\ sent' = sent \ {r}
  /\ latest' = [latest EXCEPT ![r.serial] = r]
  /\ astray' = IF r.at = plugged[r.serial].at THEN astray \ {r.serial}
               ELSE IF latest[r.serial].at > r.at THEN astray \cup {r.serial} ELSE astray
  /\ UNCHANGED <<rows, dismissed, request, plugged, online, standing, lapsed, ops, moves, faults>>

\* A report that fails is not sent again.
Vanish(r) ==
  /\ r \in sent /\ faults < MaxFaults
  /\ faults' = faults + 1
  /\ sent' = sent \ {r}
  /\ astray' = astray \cup {r.serial}
  /\ UNCHANGED <<rows, dismissed, request, latest, plugged, online, standing, lapsed, ops, moves>>

\* An agent goes quiet, with what it had not sent, or is heard from again.
Quiet(a) ==
  /\ a \in online /\ faults < MaxFaults
  /\ faults' = faults + 1
  /\ online' = online \ {a}
  /\ sent' = {r \in sent : r.agent # a}
  /\ astray' = astray \cup {r.serial : r \in {q \in sent : q.agent = a}}
  /\ UNCHANGED <<rows, dismissed, request, latest, plugged, standing, lapsed, ops, moves>>

Heard(a) ==
  /\ a \notin online
  /\ online' = online \cup {a}
  /\ UNCHANGED <<rows, dismissed, request, latest, sent, plugged, astray, standing, lapsed,
                 ops, moves, faults>>

\* An approval is cut short; past its commit, the dismissal it should have
\* dropped outlives the decision.
Abort(q) ==
  LET r == request[q] IN
  /\ r # Free /\ faults < MaxFaults
  /\ faults' = faults + 1
  /\ request' = [request EXCEPT ![q] = Free]
  /\ lapsed' = IF r.step = "clear" /\ r.serial \in standing
               THEN [lapsed EXCEPT ![r.serial] = @ \cup {"cut_short"}] ELSE lapsed
  /\ UNCHANGED <<rows, dismissed, latest, sent, plugged, online, astray, standing, ops, moves>>

Next ==
  \/ \E q \in Requests : \/ \E s \in Serials, d \in {"allow", "deny"} : Approve(q, s, d)
                         \/ Write(q) \/ Clear(q) \/ Abort(q)
  \/ \E s \in Serials : \/ Revoke(s) \/ Dismiss(s) \/ Restore(s)
                        \/ \E row \in Decided : Update(s, row)
                        \/ \E place \in Agents \cup {"out"} : Move(s, place)
  \/ \E r \in sent : Arrive(r) \/ Vanish(r)
  \/ \E a \in Agents : Quiet(a) \/ Heard(a)

Spec == Init /\ [][Next]_vars

-----------------------------------------------------------------------------
\* Mutant: a connect stands for ever.
ShownForEver(s) ==
  CASE latest[s].event = "none"       -> "nothing"
    [] latest[s].event = "disconnect" -> "disconnected"
    [] OTHER                          -> "connected"

\* _annotate_connection_state: a connect counts while its agent is heard from.
Shown(s) ==
  CASE latest[s].event = "none"       -> "nothing"
    [] latest[s].event = "disconnect" -> "disconnected"
    [] latest[s].event = "connect"    -> IF latest[s].agent \in online THEN "connected" ELSE "unknown"

\* A dismissal older than the last decision (it would hide the device once that
\* decision is revoked) outlives it only while the approval is under way, because
\* an approval died between its commit and _clear_dismissal, or because the
\* decision was changed in place: update_device clears nothing.  No interleaving
\* of approvals, revocations and dismissals leaves one behind otherwise.
DecisionEndsDismissal ==
  \A s \in standing :
    /\ s \in dismissed
    /\ \/ \E q \in Requests : request[q].step = "clear" /\ request[q].serial = s
       \/ lapsed[s] # {}

\* "a connect with no matching disconnect does NOT mean the device is still
\* plugged in": the page is wrong about a stick only when the report of its last
\* move is under way, was lost, was never sent, or was overtaken.
PageIsRightUnlessAstray ==
  \A s \in Serials \ astray :
    (\A r \in sent : r.serial # s) =>
      /\ Shown(s) = "connected" => plugged[s].place = latest[s].agent /\ plugged[s].place \in online
      /\ Shown(s) = "disconnected" => plugged[s].place = "out"
=============================================================================
