----------------------------- MODULE CloudPolling -----------------------------
(***************************************************************************)
(* The pollers of Google Drive and OneDrive.  Every few minutes, or when an *)
(* analyst asks, a worker goes through the connected accounts in turn: it   *)
(* fetches the changes of each protected folder since the folder's          *)
(* position, stores an event for each that has none, and commits the new    *)
(* positions when the account is done.  Any error ends the whole run.       *)
(* A change is of a file of its own and matches a policy; its number stands *)
(* for the id of its event, and Floor rounds a time to its second,          *)
(* of three ticks.                                                         *)
(* History: base, clobbered.                                                *)
(***************************************************************************)
EXTENDS Integers, Sequences, FiniteSets

CONSTANTS
  Runs,        \* runs that may overlap
  Kind,        \* by account, in the order they are read: drive or delta
  Folders,     \* folders of an account
  Protected,   \* those that are protected
  MaxChanges,  \* bound: files changed
  MaxTime,     \* bound: clock
  MaxFaults    \* bound: errors, revoked tokens and baseline resets

VARIABLES
  now, changes, events,
  folder,     \* position of a protected folder: last_seen_timestamp, delta_token
  account,    \* is it due, and is its refresh token accepted
  run, faults,
  base,       \* history: the baseline of a folder
  clobbered   \* history: folders whose reset a run has overwritten

vars == <<now, changes, events, folder, account, run, faults, base, clobbered>>

-----------------------------------------------------------------------------

Accounts == DOMAIN Kind
Places == Accounts \X Protected
None == -1
Idle == [at |-> "idle", a |-> 1, due |-> {}, read |-> << >>, left |-> {}, f |-> "", i |-> 0,
         batch |-> {}, new |-> << >>]

Positions == [seen : None .. MaxTime, token : None .. MaxChanges]
Reads == [Protected -> Positions] \cup {<< >>}
RunStates ==
  [at : {"idle", "account", "folder", "event", "insert"}, a : Accounts, due : SUBSET Accounts,
   read : Reads, left : SUBSET Protected, f : Protected \cup {""}, i : 0 .. MaxChanges,
   batch : SUBSET (1 .. MaxChanges), new : Reads]

\* The representation is right; an event names a change and a protected folder.
TypeOK ==
  /\ now \in 0 .. MaxTime /\ Len(changes) <= MaxChanges /\ faults \in 0 .. MaxFaults
  /\ changes \in Seq([account : Accounts, folder : Folders, time : 0 .. MaxTime])
  /\ events \subseteq (DOMAIN changes) \X Protected
  /\ folder \in [Places -> Positions] /\ \A x \in Places : folder[x].token <= Len(changes)
  /\ account \in [Accounts -> [due : BOOLEAN, valid : BOOLEAN]]
  /\ run \in [Runs -> RunStates]
  /\ base \in [Places -> None .. MaxTime] /\ clobbered \subseteq Places

Init ==
  /\ now = 0 /\ changes = << >> /\ events = {} /\ faults = 0
  /\ folder = [x \in Places |-> [seen |-> None, token |-> None]]
  /\ account = [a \in Accounts |-> [due |-> TRUE, valid |-> TRUE]]
  /\ run = [r \in Runs |-> Idle]
  /\ base = [x \in Places |-> None]
  /\ clobbered = {}

Stored(i) == \E e \in events : e[1] = i
CanFail == faults < MaxFaults

-----------------------------------------------------------------------------
(* The cloud, the clock and the analyst.                                   *)

\* No file changes at the very start of a second.
Change(a, f) ==
  /\ now # (now \div 3) * 3 /\ Len(changes) < MaxChanges
  /\ changes' = Append(changes, [account |-> a, folder |-> f, time |-> now])
  /\ UNCHANGED <<now, events, folder, account, run, faults, base, clobbered>>

Tick ==
  /\ now < MaxTime
  /\ now' = now + 1
  /\ UNCHANGED <<changes, events, folder, account, run, faults, base, clobbered>>

\* The shortest polling interval of the account's policies has passed.
BecomesDue(a) ==
  /\ ~account[a].due
  /\ account' = [account EXCEPT ![a].due = TRUE]
  /\ UNCHANGED <<now, changes, events, folder, run, faults, base, clobbered>>

Revoke(a) ==
  /\ CanFail /\ account[a].valid
  /\ account' = [account EXCEPT ![a].valid = FALSE]
  /\ faults' = faults + 1
  /\ UNCHANGED <<now, changes, events, folder, run, base, clobbered>>

\* The OAuth callback updates the account in place.
Reauthorize(a) ==
  /\ ~account[a].valid
  /\ account' = [account EXCEPT ![a].valid = TRUE]
  /\ UNCHANGED <<now, changes, events, folder, run, faults, base, clobbered>>

\* update_folder_baseline: from a time on, and for OneDrive from scratch.
ResetBaseline(x, t) ==
  /\ CanFail /\ folder[x].seen # None /\ t <= now
  /\ folder' = [folder EXCEPT ![x] = [seen |-> t, token |-> None]]
  /\ base' = [base EXCEPT ![x] = t]
  /\ clobbered' = clobbered \ {x}
  /\ faults' = faults + 1
  /\ UNCHANGED <<now, changes, events, account, run>>

-----------------------------------------------------------------------------
(* What the services answer.                                               *)

\* Mutant: the filter starts at the last activity itself.
NoFloor(t) == t

Floor(t) == t - (t % 3)

Within(a, f) == {i \in DOMAIN changes : changes[i].account = a /\ changes[i].folder = f}
Of(a) == {i \in DOMAIN changes : changes[i].account = a}

\* Drive Activity: the folder's activities after the second of the last one seen.
DriveActivity(a, f, pos) == {i \in Within(a, f) : changes[i].time > Floor(pos.seen)}

\* Mutant: the token is taken for the next change.
SkipsNext(a, f, pos) ==
  IF pos.token = None THEN Within(a, f) ELSE {i \in Of(a) : i > pos.token + 1}

\* Graph delta of the whole drive: the first answer is filtered by folder, those
\* that continue from a token are not.
Delta(a, f, pos) ==
  IF pos.token = None THEN Within(a, f) ELSE {i \in Of(a) : i > pos.token}

Fetched(a, f, pos) ==
  CASE Kind[a] = "drive" -> DriveActivity(a, f, pos)
    [] Kind[a] = "delta" -> Delta(a, f, pos)

\* Where the folder is afterwards: seen moves only when there was something.
Moved(a, pos, found) ==
  [seen |-> IF found = {} THEN pos.seen
            ELSE CHOOSE t \in {changes[i].time : i \in found} :
                   \A i \in found : changes[i].time <= t,
   token |-> IF Kind[a] = "delta" THEN Len(changes) ELSE None]

-----------------------------------------------------------------------------
(* A run.                                                                  *)

Set(r, new) == run' = [run EXCEPT ![r] = new]
NextAccount(r) ==
  IF run[r].a = Len(Kind) THEN Idle
  ELSE [Idle EXCEPT !.at = "account", !.a = run[r].a + 1, !.due = run[r].due]

\* All the accounts are read here, and with them when they were last polled.
Start(r) ==
  /\ run[r].at = "idle"
  /\ Set(r, [Idle EXCEPT !.at = "account", !.due = {a \in Accounts : account[a].due}])
  /\ UNCHANGED <<now, changes, events, folder, account, faults, base, clobbered>>

SkipAccount(r) ==
  /\ run[r].at = "account" /\ run[r].a \notin run[r].due
  /\ Set(r, NextAccount(r))
  /\ UNCHANGED <<now, changes, events, folder, account, faults, base, clobbered>>

\* The folders are read, and an expired access token is refreshed.
OpenAccount(r) ==
  /\ run[r].at = "account" /\ run[r].a \in run[r].due /\ account[run[r].a].valid
  /\ LET read == [f \in Protected |-> folder[<<run[r].a, f>>]]
     IN Set(r, [run[r] EXCEPT !.at = "folder", !.read = read, !.new = read, !.left = Protected])
  /\ UNCHANGED <<now, changes, events, folder, account, faults, base, clobbered>>

\* The refresh is refused, and the run is over: the accounts after it too.
RefreshFails(r) ==
  /\ run[r].at = "account" /\ run[r].a \in run[r].due /\ ~account[run[r].a].valid
  /\ Set(r, Idle)
  /\ UNCHANGED <<now, changes, events, folder, account, faults, base, clobbered>>

\* A folder that has no baseline gets one, and is not fetched.
Baseline(r, f) ==
  /\ run[r].at = "folder" /\ f \in run[r].left /\ run[r].read[f].seen = None
  /\ Set(r, [run[r] EXCEPT !.left = @ \ {f}, !.new[f].seen = now])
  /\ UNCHANGED <<now, changes, events, folder, account, faults, base, clobbered>>

Fetch(r, f) ==
  /\ run[r].at = "folder" /\ f \in run[r].left /\ run[r].read[f].seen # None
  /\ LET found == Fetched(run[r].a, f, run[r].read[f])
     IN Set(r, [run[r] EXCEPT !.at = "event", !.f = f, !.batch = found, !.left = @ \ {f},
                              !.new[f] = Moved(run[r].a, run[r].read[f], found)])
  /\ UNCHANGED <<now, changes, events, folder, account, faults, base, clobbered>>

\* find_one by id: a change that has its event is left out.
CheckEvent(r, i) ==
  /\ run[r].at = "event" /\ i \in run[r].batch
  /\ Set(r, IF Stored(i) THEN [run[r] EXCEPT !.batch = @ \ {i}]
                         ELSE [run[r] EXCEPT !.at = "insert", !.i = i])
  /\ UNCHANGED <<now, changes, events, folder, account, faults, base, clobbered>>

\* insert_one: the unique index refuses an event another run has stored since,
\* and ends this one.
InsertEvent(r) ==
  /\ run[r].at = "insert"
  /\ IF Stored(run[r].i)
     THEN Set(r, Idle) /\ UNCHANGED events
     ELSE /\ events' = events \cup {<<run[r].i, run[r].f>>}
          /\ Set(r, [run[r] EXCEPT !.at = "event", !.batch = @ \ {run[r].i}])
  /\ UNCHANGED <<now, changes, folder, account, faults, base, clobbered>>

FolderDone(r) ==
  /\ run[r].at = "event" /\ run[r].batch = {}
  /\ Set(r, [run[r] EXCEPT !.at = "folder"])
  /\ UNCHANGED <<now, changes, events, folder, account, faults, base, clobbered>>

\* The columns that changed are written, over whatever is there by now.
CommitAccount(r) ==
  /\ run[r].at = "folder" /\ run[r].left = {}
  /\ LET a == run[r].a
         written(f, c) == run[r].new[f][c] # run[r].read[f][c]
         stale(f) == folder[<<a, f>>] # run[r].read[f] /\ \E c \in {"seen", "token"} : written(f, c)
     IN /\ folder' = [x \in Places |->
             IF x[1] # a THEN folder[x]
             ELSE [c \in {"seen", "token"} |->
                     IF written(x[2], c) THEN run[r].new[x[2]][c] ELSE folder[x][c]]]
        /\ base' = [x \in Places |-> IF x[1] = a /\ base[x] = None
                                     THEN folder'[x].seen ELSE base[x]]
        /\ clobbered' = clobbered \cup {<<a, f>> : f \in {g \in Protected : stale(g)}}
        /\ account' = [account EXCEPT ![a].due = FALSE]
  /\ Set(r, NextAccount(r))
  /\ UNCHANGED <<now, changes, events, faults>>

\* The service, a database or the worker fails: nothing of the account is kept
\* but the events that were stored.
Abort(r) ==
  /\ run[r].at # "idle" /\ CanFail
  /\ Set(r, Idle)
  /\ faults' = faults + 1
  /\ UNCHANGED <<now, changes, events, folder, account, base, clobbered>>

Work(r) ==
  \/ SkipAccount(r) \/ OpenAccount(r) \/ RefreshFails(r) \/ InsertEvent(r)
  \/ FolderDone(r) \/ CommitAccount(r)
  \/ \E f \in Protected : Baseline(r, f) \/ Fetch(r, f)
  \/ \E i \in DOMAIN changes : CheckEvent(r, i)

Next ==
  \/ Tick
  \/ \E a \in Accounts : BecomesDue(a) \/ Revoke(a) \/ Reauthorize(a)
                         \/ \E f \in Folders : Change(a, f)
  \/ \E x \in Places, t \in 0..MaxTime : ResetBaseline(x, t)
  \/ \E r \in Runs : Start(r) \/ Abort(r) \/ Work(r)

Spec == Init /\ [][Next]_vars

Fairness ==
  /\ \A r \in Runs : WF_vars(Start(r)) /\ WF_vars(Work(r))
  /\ \A a \in Accounts : WF_vars(BecomesDue(a))

-----------------------------------------------------------------------------

\* Within reach of the next poll of its folder.
Ahead(i, x) == i \in Fetched(x[1], x[2], folder[x])

Wanted(x) == {i \in Within(x[1], x[2]) : base[x] # None /\ changes[i].time > base[x]}

\* No change of a protected folder after its baseline is skipped, whatever fails
\* and however runs overlap: it has its event or the next poll fetches it.  The
\* exception is a reset that a run in flight has overwritten.
NothingSkipped ==
  \A x \in Places : x \notin clobbered =>
    \A i \in Wanted(x) : Stored(i) \/ Ahead(i, x)

\* A change is reported in the end, unless the token of its account, or of one
\* read before it, is refused again and again, or its reset was overwritten.
ChangesReported ==
  \A x \in Places : \A i \in 1..MaxChanges :
    (i \in DOMAIN changes /\ i \in Wanted(x))
      ~> (Stored(i) \/ x \in clobbered \/ i \notin Wanted(x) \/ \E a \in 1..x[1] : ~account[a].valid)
=============================================================================
