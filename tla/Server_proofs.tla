--------------------------- MODULE Server_proofs ---------------------------
(*****************************************************************************)
(* Proofs about the polling of cloud drives and about the classification     *)
(* rules, for any number of runs, accounts, folders, workers, calls,         *)
(* changes and edits, and the theorem that every part of Server keeps its    *)
(* types.                                                                    *)
(*                                                                           *)
(* A run that overlaps another reads positions that are overwritten before   *)
(* it writes its own. The invariant of the polling says of a run under way   *)
(* that what lies behind the position it will write has its event            *)
(* (RunCovers), and of every place that its position is one of the           *)
(* service's (PlacesRight).                                                  *)
(*                                                                           *)
(* A copy of the rules is written long after it was read: by a query, or by  *)
(* a test that puts back what it found. CopiesSound says of every copy,      *)
(* also of those on their way, that it is current or expires within a        *)
(* lifetime of the last edit, and follows a test from the writing of its     *)
(* selection to its answer. CopiesWhole says that no copy is a selection     *)
(* unless a test runs.                                                       *)
(*****************************************************************************)
EXTENDS ServerParts_proofs, AgentRegistry_proofs, WellFoundedInduction

-----------------------------------------------------------------------------
(* Polling of cloud drives *)

LEMMA LessThan == \A x, y \in Nat : <<y, x>> \in OpToRel(<, Nat) <=> y < x
<1>1. TAKE x, y \in Nat
<1>2. <<y, x>> \in OpToRel(<, Nat) <=> <<y, x>> \in Nat \X Nat /\ <<y, x>>[1] < <<y, x>>[2]
  BY Zenon DEF OpToRel
<1> QED BY <1>2

\* Numbers up to a bound have a greatest one.
LEMMA MaxExists ==
  ASSUME NEW n \in Nat, NEW S \in SUBSET (0 .. n), S # {}
  PROVE  \E t \in S : \A s \in S : s <= t
<1> DEFINE R == OpToRel(<, Nat)
           T == {n - s : s \in S}
<1>1. T \subseteq Nat /\ T # {}
  <2>1. \A s \in S : n - s \in Nat
    OBVIOUS
  <2> QED BY <2>1
<1>2. IsWellFoundedOn(R, Nat)
  BY NatLessThanWellFounded
<1>3. \A x, y \in Nat : <<y, x>> \in R <=> y < x
  BY LessThan
<1> HIDE DEF R, T
<1>4. PICK x \in T : \A y \in T : ~(<<y, x>> \in R)
  BY <1>1, <1>2, WFMin
<1>5. \A y \in T : ~(y < x)
  BY <1>1, <1>3, <1>4
<1>6. PICK t \in S : x = n - t
  BY DEF T
<1>7. ASSUME NEW s \in S PROVE s <= t
  <2>1. n - s \in T
    BY DEF T
  <2> QED BY <1>5, <1>6, <2>1
<1> QED BY <1>7

\* A change is later than the start of the second of anything before it.
LEMMA FloorBelow ==
  ASSUME NEW t \in Nat, NEW s \in Int, s <= t, s >= -1, t # (t \div 3) * 3
  PROVE  t > Cloud!Floor(s)
BY DEF Cloud!Floor

LEMMA FloorDown == \A s \in Int : Cloud!Floor(s) \in Int /\ Cloud!Floor(s) <= s
BY DEF Cloud!Floor

-----------------------------------------------------------------------------
Reading(r) == run[r].at \in {"folder", "event", "insert"}
Pending(r, f) == IF run[r].at \in {"event", "insert"} /\ run[r].f = f THEN run[r].batch ELSE {}

\* What a run read of a folder, and what it will write, are positions there can be,
\* and every change beyond the one is beyond the other, stored or still to store.
FolderCovered(r, f) ==
  LET read == run[r].read[f]
      new == run[r].new[f]
  IN /\ new.seen <= now /\ read.seen <= now /\ new.token <= Len(changes) /\ read.token <= Len(changes)
     /\ f \in run[r].left => new = read
     /\ read.seen # Cloud!None => new.seen # Cloud!None /\ folder[<<run[r].a, f>>].seen # Cloud!None
     /\ read.seen = Cloud!None => new.token = read.token
     /\ (Kind[run[r].a] = "delta" /\ read.token # Cloud!None) => new.token # Cloud!None
     /\ f \notin run[r].left => new.seen # Cloud!None
     /\ read.seen # Cloud!None =>
          \A i \in Cloud!Fetched(run[r].a, f, read) :
            i \in Cloud!Fetched(run[r].a, f, new) \/ Cloud!Stored(i) \/ i \in Pending(r, f)

RunCovers(r) ==
  Reading(r) =>
    /\ run[r].read \in [Protected -> Cloud!Positions] /\ run[r].new \in [Protected -> Cloud!Positions]
    /\ run[r].at \in {"event", "insert"} => run[r].f \in Protected
         /\ run[r].batch \subseteq DOMAIN changes
    /\ run[r].at = "insert" => run[r].i \in DOMAIN changes
    /\ \A f \in Protected : FolderCovered(r, f)

PlacesRight ==
  /\ \A x \in Cloud!Places : (folder[x].seen = Cloud!None <=> base[x] = Cloud!None)
       /\ folder[x].seen <= now
  /\ \A x \in Cloud!Places : folder[x].seen = Cloud!None => folder[x].token = Cloud!None
  /\ \A i \in DOMAIN changes : changes[i].time <= now

CloudInv == Cloud!TypeOK /\ PlacesRight /\ Cloud!NothingSkipped /\ \A r \in Polls : RunCovers(r)

-----------------------------------------------------------------------------
LEMMA KindsAre ==
  /\ 1 \in Cloud!Accounts /\ Cloud!Accounts = 1 .. Len(Kind) /\ Len(Kind) \in Nat
  /\ \A a \in Cloud!Accounts : Kind[a] \in {"drive", "delta"}
BY CloudAssumption, LenProperties DEF Cloud!Accounts

LEMMA ChangesAre ==
  ASSUME Cloud!TypeOK
  PROVE  /\ Len(changes) \in Nat /\ DOMAIN changes = 1 .. Len(changes)
         /\ \A i \in DOMAIN changes : changes[i] \in [account : Cloud!Accounts, folder : Folders, time : 0 .. MaxTime]
<1>1. changes \in Seq([account : Cloud!Accounts, folder : Folders, time : 0 .. MaxTime])
  BY DEF Cloud!TypeOK
<1> QED BY <1>1, LenProperties, ElementOfSeq

LEMMA CloudBegins == Cloud!Init => CloudInv
<1> SUFFICES ASSUME Cloud!Init PROVE CloudInv
  OBVIOUS
<1>1. Cloud!TypeOK
  <2>1. Cloud!Idle \in Cloud!RunStates
    BY KindsAre, CloudAssumption DEF Cloud!Idle, Cloud!RunStates, Cloud!Reads
  <2> HIDE DEF Cloud!Idle
  <2>2. [seen |-> Cloud!None, token |-> Cloud!None] \in Cloud!Positions
    BY CloudAssumption DEF Cloud!Positions, Cloud!None
  <2>3. << >> \in Seq([account : Cloud!Accounts, folder : Folders, time : 0 .. MaxTime])
          /\ Len(<< >>) = 0
    OBVIOUS
  <2> QED BY <2>1, <2>2, <2>3, CloudAssumption DEF Cloud!Init, Cloud!TypeOK, Cloud!None
<1>2. PlacesRight
  BY DEF Cloud!Init, PlacesRight, Cloud!None
<1>3. Cloud!NothingSkipped
  BY DEF Cloud!Init, Cloud!NothingSkipped, Cloud!Wanted
<1>4. \A r \in Polls : RunCovers(r)
  BY DEF Cloud!Init, RunCovers, Reading, Cloud!Idle
<1> QED BY <1>1, <1>2, <1>3, <1>4 DEF CloudInv

\* What has happened stays: a run that stands still knows what it knew.
LEMMA RunStands ==
  ASSUME Cloud!TypeOK, NEW r \in Polls, RunCovers(r), run'[r] = run[r], changes' = changes,
         now' \in Nat, now' >= now, reported \subseteq reported',
         \A x \in Cloud!Places : folder'[x].seen = Cloud!None => folder[x].seen = Cloud!None
  PROVE  RunCovers(r)'
<1>1. CASE ~Reading(r)
  BY <1>1 DEF RunCovers, Reading
<1>2. CASE Reading(r)
  <2>1. ASSUME NEW f \in Protected PROVE FolderCovered(r, f)'
    <3>1. FolderCovered(r, f) /\ run[r].read[f] \in Cloud!Positions /\ run[r].new[f] \in Cloud!Positions
      BY <1>2 DEF RunCovers
    <3>2. run'[r].new[f].seen <= now' /\ run'[r].read[f].seen <= now'
      <4>1. run[r].new[f].seen <= now /\ run[r].read[f].seen <= now
        BY <3>1 DEF FolderCovered
      <4>2. run[r].new[f].seen \in Int /\ run[r].read[f].seen \in Int /\ now \in Int
        BY <3>1, CloudAssumption DEF Cloud!Positions, Cloud!None, Cloud!TypeOK
      <4> QED BY <4>1, <4>2
    <3>3. \A i : Cloud!Stored(i) => Cloud!Stored(i)'
      BY DEF Cloud!Stored
    <3>4. \A pos : Cloud!Fetched(run[r].a, f, pos)' = Cloud!Fetched(run[r].a, f, pos)
      BY DEF Cloud!Fetched, Cloud!DriveActivity, Cloud!Delta, Cloud!Within, Cloud!Of
    <3>5. run[r].read[f].seen # Cloud!None => folder'[<<run[r].a, f>>].seen # Cloud!None
      BY <3>1 DEF FolderCovered, Cloud!TypeOK, Cloud!RunStates, Cloud!Places
    <3> QED BY <3>1, <3>2, <3>3, <3>4, <3>5 DEF FolderCovered, Pending
  <2> QED BY <1>2, <2>1 DEF RunCovers, Reading
<1> QED BY <1>1, <1>2

LEMMA RunRests ==
  ASSUME NEW r \in Polls, run'[r].at \in {"idle", "account"}
  PROVE  RunCovers(r)'
BY DEF RunCovers, Reading

LEMMA PlacesStand ==
  ASSUME CloudInv, changes' = changes, now' \in Nat, now' >= now, reported \subseteq reported',
         UNCHANGED <<folder, base, clobbered>>
  PROVE  PlacesRight' /\ Cloud!NothingSkipped'
<1>1. PlacesRight'
  <2>1. \A x \in Cloud!Places : folder[x].seen \in Int
    BY CloudAssumption DEF CloudInv, Cloud!TypeOK, Cloud!Positions, Cloud!None
  <2>2. now \in Int /\ \A i \in DOMAIN changes : changes[i].time \in Int
    BY CloudAssumption, ChangesAre DEF CloudInv, Cloud!TypeOK
  <2>3. \A x \in Cloud!Places : folder[x].seen <= now'
    BY <2>1, <2>2 DEF CloudInv, PlacesRight
  <2>4. \A i \in DOMAIN changes : changes[i].time <= now'
    BY <2>2 DEF CloudInv, PlacesRight
  <2> QED BY <2>3, <2>4 DEF CloudInv, PlacesRight
<1>2. \A i : Cloud!Stored(i) => Cloud!Stored(i)'
  BY DEF Cloud!Stored
<1>3. \A i : \A x \in Cloud!Places : Cloud!Ahead(i, x) => Cloud!Ahead(i, x)'
  BY DEF Cloud!Ahead, Cloud!Fetched, Cloud!DriveActivity, Cloud!Delta, Cloud!Within, Cloud!Of
<1>4. \A x \in Cloud!Places : Cloud!Wanted(x)' = Cloud!Wanted(x)
  BY DEF Cloud!Wanted, Cloud!Within
<1>5. Cloud!NothingSkipped'
  BY <1>2, <1>3, <1>4 DEF CloudInv, Cloud!NothingSkipped
<1> QED BY <1>1, <1>5

\* One run takes a step, that neither moves a folder nor adds a change.
LEMMA OneRun ==
  ASSUME CloudInv, NEW r \in Polls, NEW new \in Cloud!RunStates, Cloud!Set(r, new), RunCovers(r)',
         reported' \subseteq (DOMAIN changes) \X Protected, reported \subseteq reported',
         pollFaults' \in 0 .. MaxPollFaults, UNCHANGED <<now, changes, folder, account, base, clobbered>>
  PROVE  CloudInv'
<1>1. run' \in [Polls -> Cloud!RunStates] /\ \A q \in Polls \ {r} : run'[q] = run[q]
  BY DEF CloudInv, Cloud!TypeOK, Cloud!Set
<1>2. now' \in Nat /\ now' >= now
  BY CloudAssumption DEF CloudInv, Cloud!TypeOK
<1>3. Cloud!TypeOK'
  BY <1>1 DEF CloudInv, Cloud!TypeOK
<1>4. \A q \in Polls : RunCovers(q)'
  BY <1>1, <1>2, RunStands DEF CloudInv
<1>5. PlacesRight' /\ Cloud!NothingSkipped'
  BY <1>2, PlacesStand
<1> QED BY <1>3, <1>4, <1>5 DEF CloudInv

-----------------------------------------------------------------------------
LEMMA ChangeKeeps ==
  ASSUME CloudInv, NEW a \in Cloud!Accounts, NEW f \in Folders, Cloud!Change(a, f)
  PROVE  CloudInv'
<1> DEFINE new == [account |-> a, folder |-> f, time |-> now]
           n == Len(changes) + 1
<1>0. Cloud!TypeOK
  BY DEF CloudInv
<1>1. /\ now \in 0 .. MaxTime /\ now \in Nat /\ now # (now \div 3) * 3 /\ Len(changes) < MaxChanges
      /\ changes' = Append(changes, new)
      /\ UNCHANGED <<now, reported, folder, account, run, pollFaults, base, clobbered>>
  BY <1>0, CloudAssumption DEF Cloud!Change, Cloud!TypeOK
<1>2. new \in [account : Cloud!Accounts, folder : Folders, time : 0 .. MaxTime] /\ new.time = now
  BY <1>1
<1>3. /\ changes' \in Seq([account : Cloud!Accounts, folder : Folders, time : 0 .. MaxTime])
      /\ Len(changes') = n /\ \A i \in DOMAIN changes : changes'[i] = changes[i]
      /\ changes'[n] = new /\ DOMAIN changes' = 1 .. n
  <2> HIDE DEF new
  <2>1. changes \in Seq([account : Cloud!Accounts, folder : Folders, time : 0 .. MaxTime])
    BY <1>0 DEF Cloud!TypeOK
  <2>2. changes' \in Seq([account : Cloud!Accounts, folder : Folders, time : 0 .. MaxTime])
          /\ Len(changes') = n
    BY <1>1, <1>2, <2>1, AppendProperties
  <2> QED BY <1>0, <1>1, <1>2, <2>1, <2>2, AppendProperties, LenProperties, ChangesAre
<1> HIDE DEF new
<1>4. Len(changes) \in Nat /\ DOMAIN changes = 1 .. Len(changes) /\ n \notin DOMAIN changes
  BY <1>0, ChangesAre
<1>5. Cloud!TypeOK'
  BY <1>0, <1>1, <1>3, <1>4, CloudAssumption DEF Cloud!TypeOK, Cloud!Positions, Cloud!None
\* The changes a position leads to are the same, and perhaps the new one.
<1>6. ASSUME NEW b \in Cloud!Accounts, NEW g \in Protected, NEW pos \in Cloud!Positions
      PROVE  /\ Cloud!Fetched(b, g, pos) \subseteq Cloud!Fetched(b, g, pos)'
             /\ Cloud!Fetched(b, g, pos)' \subseteq Cloud!Fetched(b, g, pos) \cup {n}
  <2>1. DOMAIN changes \subseteq DOMAIN changes' /\ DOMAIN changes' \subseteq DOMAIN changes \cup {n}
    BY <1>3, <1>4
  <2>2. CASE Kind[b] = "drive"
    BY <1>3, <2>1, <2>2 DEF Cloud!Fetched, Cloud!DriveActivity, Cloud!Within
  <2>3. CASE Kind[b] = "delta"
    BY <1>3, <2>1, <2>3 DEF Cloud!Fetched, Cloud!Delta, Cloud!Within, Cloud!Of
  <2> QED BY <2>2, <2>3, KindsAre
<1>7. ASSUME NEW b \in Cloud!Accounts, NEW g \in Protected, NEW old \in Cloud!Positions,
             NEW pos \in Cloud!Positions,
             n \in Cloud!Fetched(b, g, old)', pos.seen <= now, pos.token <= Len(changes),
             (Kind[b] = "delta" /\ old.token # Cloud!None) => pos.token # Cloud!None
      PROVE  n \in Cloud!Fetched(b, g, pos)'
  <2>1. CASE Kind[b] = "drive"
    <3>1. now > Cloud!Floor(pos.seen)
      BY <1>1, <1>7, FloorBelow DEF Cloud!Positions, Cloud!None
    <3> QED BY <1>2, <1>3, <1>7, <2>1, <3>1 DEF Cloud!Fetched, Cloud!DriveActivity, Cloud!Within
  <2>2. CASE Kind[b] = "delta"
    <3>1. n > pos.token
      BY <1>4, <1>7 DEF Cloud!Positions, Cloud!None
    <3> QED BY <1>2, <1>3, <1>4, <1>7, <2>2, <3>1 DEF Cloud!Fetched, Cloud!Delta, Cloud!Within,
               Cloud!Of
  <2> QED BY <2>1, <2>2, KindsAre
<1>8. now' \in Nat /\ now' >= now /\ \A i : Cloud!Stored(i)' <=> Cloud!Stored(i)
  BY <1>1 DEF Cloud!Stored
<1>9. \A i \in DOMAIN changes' : i \in DOMAIN changes \/ i = n
  BY <1>3, <1>4
<1>10. ASSUME NEW r \in Polls PROVE RunCovers(r)'
  <2>1. CASE ~Reading(r)
    BY <1>1, <2>1 DEF RunCovers, Reading
  <2>2. CASE Reading(r)
    <3>1. RunCovers(r) /\ run'[r] = run[r] /\ run[r].a \in Cloud!Accounts
      BY <1>0, <1>1 DEF CloudInv, Cloud!TypeOK, Cloud!RunStates
    <3>2. ASSUME NEW g \in Protected PROVE FolderCovered(r, g)'
      <4> DEFINE read == run[r].read[g]
                 next == run[r].new[g]
      <4>1. FolderCovered(r, g) /\ read \in Cloud!Positions /\ next \in Cloud!Positions
        BY <2>2, <3>1 DEF RunCovers
      <4>2. next.seen <= now /\ read.seen <= now /\ next.token <= Len(changes)
              /\ read.token <= Len(changes)
            /\ (Kind[run[r].a] = "delta" /\ read.token # Cloud!None => next.token # Cloud!None)
        BY <4>1 DEF FolderCovered
      <4>3. next.token <= Len(changes)' /\ read.token <= Len(changes)'
        <5>1. next.token \in Int /\ read.token \in Int /\ Len(changes)' = Len(changes) + 1
          BY <1>3, <4>1, CloudAssumption DEF Cloud!Positions, Cloud!None
        <5> QED BY <1>4, <4>2, <5>1
      <4>4. ASSUME read.seen # Cloud!None, NEW i \in Cloud!Fetched(run[r].a, g, read)'
            PROVE  i \in Cloud!Fetched(run[r].a, g, next)' \/ Cloud!Stored(i) \/ i \in Pending(r, g)
        <5>1. CASE i = n
          BY <1>7, <3>1, <4>1, <4>2, <4>4, <5>1
        <5>2. CASE i # n
          <6>1. i \in Cloud!Fetched(run[r].a, g, read)
            BY <1>6, <3>1, <4>1, <4>4, <5>2
          <6>2. i \in Cloud!Fetched(run[r].a, g, next) \/ Cloud!Stored(i) \/ i \in Pending(r, g)
            BY <4>1, <4>4, <6>1 DEF FolderCovered
          <6> QED BY <1>6, <3>1, <4>1, <6>2
        <5> QED BY <5>1, <5>2
      <4>5. /\ g \in run[r].left => next = read
            /\ read.seen # Cloud!None => next.seen # Cloud!None
                 /\ folder[<<run[r].a, g>>].seen # Cloud!None
            /\ read.seen = Cloud!None => next.token = read.token
            /\ g \notin run[r].left => next.seen # Cloud!None
        BY <4>1 DEF FolderCovered
      <4>6. Pending(r, g)' = Pending(r, g) /\ now' = now /\ folder' = folder
        BY <1>1 DEF Pending
      <4> HIDE DEF read, next
      <4> QED BY <1>8, <3>1, <4>2, <4>3, <4>4, <4>5, <4>6 DEF FolderCovered, read, next
    <3>3. DOMAIN changes \subseteq DOMAIN changes'
      BY <1>3, <1>4
    <3> QED BY <2>2, <3>1, <3>2, <3>3 DEF RunCovers, Reading
  <2> QED BY <2>1, <2>2
<1>11. PlacesRight'
  <2>1. \A i \in DOMAIN changes' : changes'[i].time <= now
    BY <1>1, <1>2, <1>3, <1>9 DEF CloudInv, PlacesRight
  <2> QED BY <1>1, <2>1 DEF CloudInv, PlacesRight
<1>12. Cloud!NothingSkipped'
  <2>1. ASSUME NEW x \in Cloud!Places, x \notin clobbered, NEW i \in Cloud!Wanted(x)'
        PROVE  Cloud!Stored(i) \/ Cloud!Ahead(i, x)'
    <3>1. x[1] \in Cloud!Accounts /\ x[2] \in Protected /\ folder[x] \in Cloud!Positions
          /\ folder[x].token <= Len(changes) /\ folder[x].seen <= now /\ base[x] # Cloud!None
               /\ folder[x].seen # Cloud!None
      BY <1>0, <1>1, <2>1 DEF Cloud!Places, Cloud!TypeOK, CloudInv, PlacesRight, Cloud!Wanted
    <3>2. CASE i \in DOMAIN changes
      <4>1. i \in Cloud!Wanted(x)
        BY <1>1, <1>3, <2>1, <3>2 DEF Cloud!Wanted, Cloud!Within
      <4>2. Cloud!Stored(i) \/ Cloud!Ahead(i, x)
        BY <2>1, <4>1 DEF CloudInv, Cloud!NothingSkipped
      <4> QED BY <1>1, <1>6, <3>1, <4>2 DEF Cloud!Ahead
    <3>3. CASE i \notin DOMAIN changes
      <4>1. i = n /\ changes'[n].account = x[1] /\ changes'[n].folder = x[2]
        BY <1>9, <2>1, <3>3 DEF Cloud!Wanted, Cloud!Within
      <4>2. CASE Kind[x[1]] = "drive"
        <5>1. now > Cloud!Floor(folder[x].seen)
          BY <1>1, <3>1, FloorBelow DEF Cloud!Positions, Cloud!None
        <5> QED BY <1>1, <1>2, <1>3, <1>4, <3>1, <4>1, <4>2, <5>1 DEF Cloud!Ahead, Cloud!Fetched,
                   Cloud!DriveActivity, Cloud!Within
      <4>3. CASE Kind[x[1]] = "delta"
        <5>1. n > folder[x].token
          BY <1>4, <3>1 DEF Cloud!Positions, Cloud!None
        <5> QED BY <1>1, <1>2, <1>3, <1>4, <3>1, <4>1, <4>3, <5>1 DEF Cloud!Ahead, Cloud!Fetched,
                   Cloud!Delta, Cloud!Within, Cloud!Of
      <4> QED BY <3>1, <4>2, <4>3, KindsAre
    <3> QED BY <3>2, <3>3
  <2> QED BY <1>1, <1>8, <2>1 DEF Cloud!NothingSkipped
<1> QED BY <1>5, <1>10, <1>11, <1>12 DEF CloudInv

\* The clock and the accounts' tokens: nothing a run or a folder knows is touched.
LEMMA WorldKeeps ==
  ASSUME CloudInv, \/ Cloud!Tick
                   \/ \E a \in Cloud!Accounts : Cloud!BecomesDue(a) \/ Cloud!Revoke(a)
                        \/ Cloud!Reauthorize(a)
  PROVE  CloudInv'
<1>0. Cloud!TypeOK /\ now \in Nat
  BY CloudAssumption DEF CloudInv, Cloud!TypeOK
<1>1. UNCHANGED <<changes, reported, folder, run, base, clobbered>>
  BY DEF Cloud!Tick, Cloud!BecomesDue, Cloud!Revoke, Cloud!Reauthorize
<1>2. now' \in 0 .. MaxTime /\ now' >= now
  BY <1>0, CloudAssumption DEF Cloud!Tick, Cloud!BecomesDue, Cloud!Revoke, Cloud!Reauthorize,
     Cloud!TypeOK
<1>3. pollFaults' \in 0 .. MaxPollFaults
        /\ account' \in [Cloud!Accounts -> [due : BOOLEAN, valid : BOOLEAN]]
  <2>1. CASE Cloud!Tick
    BY <1>0, <2>1 DEF Cloud!Tick, Cloud!TypeOK
  <2>2. CASE \E a \in Cloud!Accounts : Cloud!BecomesDue(a) \/ Cloud!Revoke(a) \/ Cloud!Reauthorize(a)
    <3>1. PICK a \in Cloud!Accounts : Cloud!BecomesDue(a) \/ Cloud!Revoke(a) \/ Cloud!Reauthorize(a)
      BY <2>2
    <3>2. pollFaults \in 0 .. MaxPollFaults /\ account[a] \in [due : BOOLEAN, valid : BOOLEAN]
      BY <1>0 DEF Cloud!TypeOK
    <3>3. pollFaults' \in 0 .. MaxPollFaults
      BY <3>1, <3>2, CloudAssumption DEF Cloud!BecomesDue, Cloud!Revoke, Cloud!Reauthorize,
         Cloud!CanFail
    <3>4. PICK b \in BOOLEAN : account' = [account EXCEPT ![a].due = b]
                                 \/ account' = [account EXCEPT ![a].valid = b]
      BY <3>1 DEF Cloud!BecomesDue, Cloud!Revoke, Cloud!Reauthorize
    <3>5. [account[a] EXCEPT !.due = b] \in [due : BOOLEAN, valid : BOOLEAN]
          /\ [account[a] EXCEPT !.valid = b] \in [due : BOOLEAN, valid : BOOLEAN]
      BY <3>2
    <3> QED BY <1>0, <3>3, <3>4, <3>5 DEF Cloud!TypeOK
  <2> QED BY <2>1, <2>2
<1>4. Cloud!TypeOK'
  BY <1>0, <1>1, <1>2, <1>3 DEF Cloud!TypeOK
<1>5. PlacesRight' /\ Cloud!NothingSkipped'
  BY <1>0, <1>1, <1>2, CloudAssumption, PlacesStand
<1>6. \A r \in Polls : RunCovers(r)'
  BY <1>0, <1>1, <1>2, CloudAssumption, RunStands DEF CloudInv
<1> QED BY <1>4, <1>5, <1>6 DEF CloudInv

LEMMA ResetKeeps ==
  ASSUME CloudInv, NEW x \in Cloud!Places, NEW t \in 0 .. MaxTime, Cloud!ResetBaseline(x, t)
  PROVE  CloudInv'
<1> DEFINE new == [seen |-> t, token |-> Cloud!None]
<1>0. Cloud!TypeOK /\ now \in Nat /\ t \in Nat /\ t <= now
  BY CloudAssumption DEF CloudInv, Cloud!TypeOK, Cloud!ResetBaseline
<1>1. /\ folder' = [folder EXCEPT ![x] = new] /\ base' = [base EXCEPT ![x] = t]
      /\ clobbered' = clobbered \ {x} /\ UNCHANGED <<now, changes, reported, account, run>>
  BY DEF Cloud!ResetBaseline
<1>2. new \in Cloud!Positions /\ t # Cloud!None /\ new.seen = t /\ new.token = Cloud!None
  BY <1>0, CloudAssumption DEF Cloud!Positions, Cloud!None
<1> HIDE DEF new
<1>3. /\ folder' \in [Cloud!Places -> Cloud!Positions] /\ folder'[x] = new /\ base'[x] = t
      /\ \A y \in Cloud!Places \ {x} : folder'[y] = folder[y] /\ base'[y] = base[y]
      /\ base' \in [Cloud!Places -> Cloud!None .. MaxTime]
  BY <1>0, <1>1, <1>2, CloudAssumption DEF Cloud!TypeOK, Cloud!None
<1>4. Cloud!TypeOK'
  <2>1. pollFaults' \in 0 .. MaxPollFaults
    BY <1>0, CloudAssumption DEF Cloud!ResetBaseline, Cloud!CanFail, Cloud!TypeOK
  <2>2. \A y \in Cloud!Places : folder'[y].token <= Len(changes)
    <3>1. ASSUME NEW y \in Cloud!Places PROVE folder'[y].token <= Len(changes)
      <4>1. folder[y].token <= Len(changes) /\ Len(changes) \in Nat
        BY <1>0, ChangesAre DEF Cloud!TypeOK
      <4> QED BY <1>2, <1>3, <4>1 DEF Cloud!None
    <3> QED BY <3>1
  <2> QED BY <1>0, <1>1, <1>3, <2>1, <2>2 DEF Cloud!TypeOK
<1>5. PlacesRight'
  BY <1>0, <1>1, <1>2, <1>3 DEF CloudInv, PlacesRight
<1>6. Cloud!NothingSkipped'
  <2>1. ASSUME NEW y \in Cloud!Places, y \notin clobbered', NEW i \in Cloud!Wanted(y)'
        PROVE  Cloud!Stored(i) \/ Cloud!Ahead(i, y)'
    <3>1. CASE y # x
      <4>1. y \notin clobbered /\ i \in Cloud!Wanted(y)
        BY <1>1, <1>3, <2>1, <3>1 DEF Cloud!Wanted, Cloud!Within
      <4>2. Cloud!Stored(i) \/ Cloud!Ahead(i, y)
        BY <2>1, <4>1 DEF CloudInv, Cloud!NothingSkipped
      <4> QED BY <1>1, <1>3, <3>1, <4>2 DEF Cloud!Ahead, Cloud!Fetched, Cloud!DriveActivity,
                 Cloud!Delta, Cloud!Within, Cloud!Of
    <3>2. CASE y = x
      <4>1. x[1] \in Cloud!Accounts
        BY DEF Cloud!Places
      <4>2. i \in Cloud!Within(x[1], x[2]) /\ changes[i].time > t /\ i \in DOMAIN changes
        BY <1>1, <1>3, <2>1, <3>2 DEF Cloud!Wanted, Cloud!Within
      <4>3. changes[i].time \in Int
        BY <1>0, <4>2, ChangesAre, CloudAssumption
      <4>4. changes[i].time > Cloud!Floor(t)
        BY <1>0, <4>2, <4>3, FloorDown
      <4>5. CASE Kind[x[1]] = "drive"
        BY <1>1, <1>2, <1>3, <3>2, <4>2, <4>4, <4>5 DEF Cloud!Ahead, Cloud!Fetched,
           Cloud!DriveActivity, Cloud!Within
      <4>6. CASE Kind[x[1]] = "delta"
        BY <1>1, <1>2, <1>3, <3>2, <4>2, <4>6 DEF Cloud!Ahead, Cloud!Fetched, Cloud!Delta,
           Cloud!Within
      <4> QED BY <4>1, <4>5, <4>6, KindsAre
    <3> QED BY <3>1, <3>2
  <2> QED BY <1>1, <2>1 DEF Cloud!NothingSkipped, Cloud!Stored
<1>7. \A r \in Polls : RunCovers(r)'
  <2>1. \A y \in Cloud!Places : folder'[y].seen = Cloud!None => folder[y].seen = Cloud!None
    BY <1>2, <1>3
  <2> QED BY <1>0, <1>1, <2>1, RunStands DEF CloudInv
<1> QED BY <1>4, <1>5, <1>6, <1>7 DEF CloudInv

-----------------------------------------------------------------------------
LEMMA IdleIsState == Cloud!Idle \in Cloud!RunStates /\ Cloud!Idle.at = "idle"
BY KindsAre, CloudAssumption DEF Cloud!Idle, Cloud!RunStates, Cloud!Reads

LEMMA NextAccountIsState ==
  ASSUME Cloud!TypeOK, NEW r \in Polls
  PROVE  Cloud!NextAccount(r) \in Cloud!RunStates /\ Cloud!NextAccount(r).at \in {"idle", "account"}
<1>1. run[r] \in Cloud!RunStates
  BY DEF Cloud!TypeOK
<1>2. CASE run[r].a = Len(Kind)
  BY <1>2, IdleIsState DEF Cloud!NextAccount
<1>3. CASE run[r].a # Len(Kind)
  <2> DEFINE new == [Cloud!Idle EXCEPT !.at = "account", !.a = run[r].a + 1, !.due = run[r].due]
  <2>1. run[r].a + 1 \in Cloud!Accounts
    <3>1. run[r].a \in 1 .. Len(Kind) /\ Len(Kind) \in Nat
      BY <1>1, KindsAre DEF Cloud!RunStates
    <3> QED BY <1>3, <3>1, KindsAre
  <2>2. new \in Cloud!RunStates /\ new.at = "account"
    BY <1>1, <2>1, IdleIsState DEF Cloud!RunStates
  <2> QED BY <1>3, <2>2 DEF Cloud!NextAccount
<1> QED BY <1>2, <1>3

\* A run begins, ends or goes on to the next account.
LEMMA RunStarts ==
  ASSUME CloudInv, NEW r \in Polls,
         Cloud!Start(r) \/ Cloud!SkipAccount(r) \/ Cloud!RefreshFails(r) \/ Cloud!Abort(r)
  PROVE  CloudInv'
<1>0. Cloud!TypeOK
  BY DEF CloudInv
<1>1. [Cloud!Idle EXCEPT !.at = "account", !.due = {a \in Cloud!Accounts : account[a].due}] \in Cloud!RunStates
      /\ [Cloud!Idle EXCEPT !.at = "account", !.due = {a \in Cloud!Accounts : account[a].due}].at = "account"
  BY IdleIsState DEF Cloud!RunStates
<1>2. PICK new \in Cloud!RunStates : Cloud!Set(r, new) /\ new.at \in {"idle", "account"}
  BY <1>0, <1>1, IdleIsState, NextAccountIsState DEF Cloud!Start, Cloud!SkipAccount,
     Cloud!RefreshFails, Cloud!Abort
<1>3. RunCovers(r)'
  BY <1>0, <1>2, RunRests DEF Cloud!Set, Cloud!TypeOK
<1>4. UNCHANGED <<now, changes, reported, folder, account, base, clobbered>>
        /\ pollFaults' \in 0 .. MaxPollFaults
  BY <1>0, CloudAssumption DEF Cloud!Start, Cloud!SkipAccount, Cloud!RefreshFails, Cloud!Abort,
     Cloud!CanFail, Cloud!TypeOK
<1>5. reported' \subseteq (DOMAIN changes) \X Protected /\ reported \subseteq reported'
  BY <1>0, <1>4 DEF Cloud!TypeOK
<1> QED BY <1>2, <1>3, <1>4, <1>5, OneRun

LEMMA RunOpens == ASSUME CloudInv, NEW r \in Polls, Cloud!OpenAccount(r) PROVE CloudInv'
<1> DEFINE read == [f \in Protected |-> folder[<<run[r].a, f>>]]
           new == [run[r] EXCEPT !.at = "folder", !.read = read, !.new = read, !.left = Protected]
<1>0. Cloud!TypeOK /\ run[r] \in Cloud!RunStates /\ run[r].a \in Cloud!Accounts
  BY DEF CloudInv, Cloud!TypeOK, Cloud!RunStates
<1>1. Cloud!Set(r, new)
        /\ UNCHANGED <<now, changes, reported, folder, account, pollFaults, base, clobbered>>
  BY DEF Cloud!OpenAccount
<1>2. read \in [Protected -> Cloud!Positions]
  BY <1>0 DEF Cloud!TypeOK, Cloud!Places
<1>3. \A f \in Protected : <<run[r].a, f>> \in Cloud!Places /\ read[f] = folder[<<run[r].a, f>>]
  BY <1>0 DEF Cloud!Places
<1> HIDE DEF read
<1>4. /\ new \in Cloud!RunStates /\ new.at = "folder" /\ new.read = read /\ new.new = read
           /\ new.left = Protected
      /\ new.a = run[r].a /\ new.batch = run[r].batch
  BY <1>0, <1>2 DEF Cloud!RunStates, Cloud!Reads
<1> HIDE DEF new
<1>5. run'[r] = new
  BY <1>0, <1>1 DEF Cloud!Set, Cloud!TypeOK
<1>6. ASSUME NEW f \in Protected PROVE FolderCovered(r, f)'
  <2>1. folder[<<run[r].a, f>>].seen <= now /\ folder[<<run[r].a, f>>].token <= Len(changes)
    BY <1>0, <1>3 DEF CloudInv, PlacesRight, Cloud!TypeOK
  <2> QED BY <1>1, <1>3, <1>4, <1>5, <2>1 DEF FolderCovered, Cloud!Fetched, Cloud!DriveActivity,
             Cloud!Delta, Cloud!Within, Cloud!Of
<1>7. RunCovers(r)'
  BY <1>2, <1>4, <1>5, <1>6 DEF RunCovers, Reading
<1>8. reported' \subseteq (DOMAIN changes) \X Protected /\ reported \subseteq reported'
        /\ pollFaults' \in 0 .. MaxPollFaults
  BY <1>0, <1>1 DEF Cloud!TypeOK
<1> QED BY <1>1, <1>4, <1>7, <1>8, OneRun

\* What a run knows of a folder it does not come to.
LEMMA FolderStands ==
  ASSUME NEW r \in Polls, NEW f \in Protected, FolderCovered(r, f), UNCHANGED <<now, changes, folder>>,
         reported \subseteq reported', run'[r].a = run[r].a, run'[r].read[f] = run[r].read[f],
         run'[r].new[f] = run[r].new[f], f \in run'[r].left <=> f \in run[r].left,
         \A i \in Pending(r, f) : i \in Pending(r, f)' \/ Cloud!Stored(i)'
  PROVE  FolderCovered(r, f)'
<1>1. \A i : Cloud!Stored(i) => Cloud!Stored(i)'
  BY DEF Cloud!Stored
<1>2. \A pos : Cloud!Fetched(run[r].a, f, pos)' = Cloud!Fetched(run[r].a, f, pos)
  BY DEF Cloud!Fetched, Cloud!DriveActivity, Cloud!Delta, Cloud!Within, Cloud!Of
<1> QED BY <1>1, <1>2 DEF FolderCovered

LEMMA RunBaselines ==
  ASSUME CloudInv, NEW r \in Polls, NEW f \in Protected, Cloud!Baseline(r, f)
  PROVE  CloudInv'
<1> DEFINE new == [run[r] EXCEPT !.left = @ \ {f}, !.new[f].seen = now]
<1>0. Cloud!TypeOK /\ run[r] \in Cloud!RunStates /\ run[r].at = "folder" /\ RunCovers(r)
        /\ now \in 0 .. MaxTime
      /\ run[r].read[f].seen = Cloud!None /\ f \in run[r].left
  BY DEF CloudInv, Cloud!TypeOK, Cloud!Baseline
<1>1. Cloud!Set(r, new)
        /\ UNCHANGED <<now, changes, reported, folder, account, pollFaults, base, clobbered>>
  BY DEF Cloud!Baseline
<1>2. run[r].read \in [Protected -> Cloud!Positions] /\ run[r].new \in [Protected -> Cloud!Positions]
      /\ \A g \in Protected : FolderCovered(r, g)
  BY <1>0 DEF RunCovers, Reading
<1>3. [run[r].new EXCEPT ![f].seen = now] \in [Protected -> Cloud!Positions]
  <2>1. [run[r].new[f] EXCEPT !.seen = now] \in Cloud!Positions
    <3>1. now \in Cloud!None .. MaxTime
      BY <1>0, CloudAssumption DEF Cloud!None
    <3> QED BY <1>2, <3>1 DEF Cloud!Positions
  <2> QED BY <1>2, <2>1
<1>4. /\ new \in Cloud!RunStates /\ new.at = "folder" /\ new.read = run[r].read
      /\ new.new = [run[r].new EXCEPT ![f].seen = now] /\ new.left = run[r].left \ {f}
           /\ new.a = run[r].a
  BY <1>0, <1>3 DEF Cloud!RunStates, Cloud!Reads
<1> HIDE DEF new
<1>5. run'[r] = new
  BY <1>0, <1>1 DEF Cloud!Set, Cloud!TypeOK
<1>6. ASSUME NEW g \in Protected PROVE FolderCovered(r, g)'
  <2>1. CASE g # f
    BY <1>0, <1>1, <1>2, <1>4, <1>5, <2>1, FolderStands DEF Pending
  <2>2. CASE g = f
    <3>1. run'[r].new[f].seen = now /\ run'[r].new[f].token = run[r].new[f].token /\ now # Cloud!None
      <4>1. now # Cloud!None
        BY <1>0, CloudAssumption DEF Cloud!None
      <4> QED BY <1>2, <1>4, <1>5, <4>1 DEF Cloud!Positions
    <3>2. FolderCovered(r, f) /\ now <= now
      BY <1>0, <1>2, CloudAssumption
    <3> QED BY <1>0, <1>1, <1>4, <1>5, <2>2, <3>1, <3>2 DEF FolderCovered
  <2> QED BY <2>1, <2>2
<1>7. RunCovers(r)'
  BY <1>2, <1>3, <1>4, <1>5, <1>6 DEF RunCovers, Reading
<1>8. reported' \subseteq (DOMAIN changes) \X Protected /\ reported \subseteq reported'
        /\ pollFaults' \in 0 .. MaxPollFaults
  BY <1>0, <1>1 DEF Cloud!TypeOK
<1> QED BY <1>1, <1>4, <1>7, <1>8, OneRun

\* Where a folder is after a fetch is a position: a fetch that found something
\* found a last one.
LEMMA MovedIsPosition ==
  ASSUME Cloud!TypeOK, NEW a \in Cloud!Accounts, NEW f \in Protected, NEW pos \in Cloud!Positions,
         pos.seen # Cloud!None, pos.seen <= now,
         \A i \in DOMAIN changes : changes[i].time <= now
  PROVE  LET found == Cloud!Fetched(a, f, pos) IN
           /\ found \subseteq DOMAIN changes /\ Cloud!Moved(a, pos, found) \in Cloud!Positions
           /\ Cloud!Moved(a, pos, found).seen # Cloud!None /\ Cloud!Moved(a, pos, found).seen <= now
           /\ Kind[a] = "delta" => Cloud!Moved(a, pos, found).token = Len(changes)
           /\ Cloud!Moved(a, pos, found).token <= Len(changes)
           /\ found = {} => Cloud!Moved(a, pos, found).seen = pos.seen
<1> DEFINE found == Cloud!Fetched(a, f, pos)
           times == {changes[i].time : i \in found}
           seen == IF found = {} THEN pos.seen ELSE CHOOSE t \in times : \A i \in found : changes[i].time <= t
<1>0. Len(changes) \in Nat /\ Len(changes) <= MaxChanges /\ now \in Nat
  BY ChangesAre, CloudAssumption DEF Cloud!TypeOK
<1>1. found \subseteq DOMAIN changes
  BY KindsAre DEF Cloud!Fetched, Cloud!DriveActivity, Cloud!Delta, Cloud!Within, Cloud!Of
<1>2. seen \in 0 .. MaxTime /\ seen <= now
  <2>1. CASE found = {}
    BY <2>1, CloudAssumption DEF Cloud!Positions, Cloud!None
  <2>2. CASE found # {}
    <3>1. times \subseteq 0 .. MaxTime /\ times # {}
      BY <1>1, <2>2, ChangesAre
    <3>2. PICK t \in times : \A s \in times : s <= t
      BY <3>1, MaxExists, CloudAssumption
    <3>3. \A i \in found : changes[i].time <= t
      BY <3>2
    <3>4. seen \in times
      BY <2>2, <3>2, <3>3
    <3> QED BY <1>1, <3>1, <3>4
  <2> QED BY <2>1, <2>2
<1>3. Cloud!Moved(a, pos, found).seen = seen
      /\ Cloud!Moved(a, pos, found).token = (IF Kind[a] = "delta" THEN Len(changes) ELSE Cloud!None)
  BY DEF Cloud!Moved
<1>4. Cloud!Moved(a, pos, found) \in Cloud!Positions
  <2>1. (IF Kind[a] = "delta" THEN Len(changes) ELSE Cloud!None) \in Cloud!None .. MaxChanges
    BY <1>0, CloudAssumption DEF Cloud!None
  <2>2. seen \in Cloud!None .. MaxTime
    BY <1>2, CloudAssumption DEF Cloud!None
  <2> QED BY <2>1, <2>2 DEF Cloud!Moved, Cloud!Positions
<1> HIDE DEF found
<1>5. seen # Cloud!None /\ (found = {} => seen = pos.seen)
  <2>1. \A n \in 0 .. MaxTime : n # Cloud!None
    BY CloudAssumption DEF Cloud!None
  <2> QED BY <1>2, <2>1
<1> HIDE DEF seen
<1>6. Cloud!Moved(a, pos, found).token <= Len(changes)
  BY <1>0, <1>3 DEF Cloud!None
<1> QED BY <1>1, <1>2, <1>3, <1>4, <1>5, <1>6 DEF found

LEMMA RunFetches == ASSUME CloudInv, NEW r \in Polls, NEW f \in Protected, Cloud!Fetch(r, f)
                    PROVE  CloudInv'
<1> DEFINE a == run[r].a
           read == run[r].read[f]
           found == Cloud!Fetched(a, f, read)
           moved == Cloud!Moved(a, read, found)
           new == [run[r] EXCEPT !.at = "event", !.f = f, !.batch = found, !.left = @ \ {f}, !.new[f] = moved]
<1>0. /\ Cloud!TypeOK /\ run[r] \in Cloud!RunStates /\ a \in Cloud!Accounts /\ run[r].at = "folder"
           /\ RunCovers(r)
      /\ read.seen # Cloud!None /\ f \in run[r].left
  BY DEF CloudInv, Cloud!TypeOK, Cloud!Fetch, Cloud!RunStates
<1>1. Cloud!Set(r, new)
        /\ UNCHANGED <<now, changes, reported, folder, account, pollFaults, base, clobbered>>
  BY DEF Cloud!Fetch
<1>2. /\ run[r].read \in [Protected -> Cloud!Positions] /\ run[r].new \in [Protected -> Cloud!Positions]
      /\ \A g \in Protected : FolderCovered(r, g)
  BY <1>0 DEF RunCovers, Reading
<1>3. read \in Cloud!Positions /\ read.seen <= now /\ read.token <= Len(changes)
  BY <1>2 DEF FolderCovered
<1>4. /\ found \subseteq DOMAIN changes /\ moved \in Cloud!Positions
      /\ moved.seen # Cloud!None /\ moved.seen <= now
      /\ Kind[a] = "delta" => moved.token = Len(changes)
      /\ moved.token <= Len(changes)
  BY <1>0, <1>3, MovedIsPosition DEF CloudInv, PlacesRight
<1>5. Len(changes) # Cloud!None /\ DOMAIN changes \subseteq 1 .. MaxChanges
  BY <1>0, ChangesAre, CloudAssumption DEF Cloud!TypeOK, Cloud!None
<1>6. \A b, pos : Cloud!Fetched(b, f, pos)' = Cloud!Fetched(b, f, pos)
  BY <1>1 DEF Cloud!Fetched, Cloud!DriveActivity, Cloud!Delta, Cloud!Within, Cloud!Of
<1> HIDE DEF moved, found
<1>7. [run[r].new EXCEPT ![f] = moved] \in [Protected -> Cloud!Positions]
  BY <1>2, <1>4
<1>8. /\ new \in Cloud!RunStates /\ new.at = "event" /\ new.f = f /\ new.batch = found
      /\ new.read = run[r].read /\ new.new = [run[r].new EXCEPT ![f] = moved]
      /\ new.left = run[r].left \ {f} /\ new.a = a
  BY <1>0, <1>4, <1>5, <1>7 DEF Cloud!RunStates, Cloud!Reads
<1> HIDE DEF new
<1>9. run'[r] = new
  BY <1>0, <1>1 DEF Cloud!Set, Cloud!TypeOK
<1>10. ASSUME NEW g \in Protected PROVE FolderCovered(r, g)'
  <2>1. CASE g # f
    BY <1>0, <1>1, <1>2, <1>8, <1>9, <2>1, FolderStands DEF Pending
  <2>2. CASE g = f
    <3>1. run'[r].new[f] = moved /\ run'[r].read[f] = read /\ run'[r].a = a /\ f \notin run'[r].left
          /\ Pending(r, f)' = found
      BY <1>2, <1>8, <1>9 DEF Pending
    <3>2. \A i \in Cloud!Fetched(run[r].a, f, run[r].read[f])' : i \in Pending(r, f)'
      BY <1>6, <3>1 DEF found
    <3>3. folder[<<a, f>>].seen # Cloud!None
      BY <1>0, <1>2 DEF FolderCovered
    <3> QED BY <1>0, <1>1, <1>3, <1>4, <1>5, <2>2, <3>1, <3>2, <3>3 DEF FolderCovered
  <2> QED BY <2>1, <2>2
<1>11. RunCovers(r)'
  BY <1>1, <1>2, <1>4, <1>7, <1>8, <1>9, <1>10 DEF RunCovers, Reading
<1>12. reported' \subseteq (DOMAIN changes) \X Protected /\ reported \subseteq reported'
         /\ pollFaults' \in 0 .. MaxPollFaults
  BY <1>0, <1>1 DEF Cloud!TypeOK
<1> QED BY <1>1, <1>8, <1>11, <1>12, OneRun

\* A run sees to a change of its batch: it knows the folders as before, and what
\* leaves the batch is stored.
LEMMA BatchStep ==
  ASSUME CloudInv, NEW r \in Polls, run[r].at \in {"event", "insert"}, NEW new \in Cloud!RunStates,
         Cloud!Set(r, new),
         new.at \in {"folder", "event", "insert"}, new.a = run[r].a, new.read = run[r].read, new.new = run[r].new,
         new.left = run[r].left, new.f = run[r].f, new.batch \subseteq run[r].batch,
         \A i \in run[r].batch : i \in new.batch \/ Cloud!Stored(i)',
         new.at = "folder" => new.batch = {}, new.at = "insert" => new.i \in DOMAIN changes,
         reported \subseteq reported', reported' \subseteq (DOMAIN changes) \X Protected,
         UNCHANGED <<now, changes, folder, account, pollFaults, base, clobbered>>
  PROVE  CloudInv'
<1>1. run'[r] = new /\ RunCovers(r) /\ pollFaults' \in 0 .. MaxPollFaults
  BY DEF CloudInv, Cloud!TypeOK, Cloud!Set
<1>2. /\ run[r].read \in [Protected -> Cloud!Positions] /\ run[r].new \in [Protected -> Cloud!Positions]
      /\ run[r].f \in Protected /\ run[r].batch \subseteq DOMAIN changes
      /\ \A g \in Protected : FolderCovered(r, g)
  BY <1>1 DEF RunCovers, Reading
<1>3. \A g \in Protected : \A i \in Pending(r, g) : i \in Pending(r, g)' \/ Cloud!Stored(i)'
  BY <1>1 DEF Pending
<1>4. \A g \in Protected : FolderCovered(r, g)'
  BY <1>1, <1>2, <1>3, FolderStands
<1>5. RunCovers(r)'
  BY <1>1, <1>2, <1>4 DEF RunCovers, Reading
<1> QED BY <1>1, <1>5, OneRun

LEMMA RunStores ==
  ASSUME CloudInv, NEW r \in Polls,
         Cloud!InsertEvent(r) \/ Cloud!FolderDone(r) \/ \E i \in DOMAIN changes : Cloud!CheckEvent(r, i)
  PROVE  CloudInv'
<1>0. Cloud!TypeOK /\ run[r] \in Cloud!RunStates /\ RunCovers(r)
  BY DEF CloudInv, Cloud!TypeOK
<1>1. ASSUME NEW i \in DOMAIN changes, Cloud!CheckEvent(r, i) PROVE CloudInv'
  <2>1. UNCHANGED <<now, changes, reported, folder, account, pollFaults, base, clobbered>>
          /\ run[r].at = "event"
        /\ reported' \subseteq (DOMAIN changes) \X Protected
    BY <1>0, <1>1 DEF Cloud!CheckEvent, Cloud!TypeOK
  <2>2. CASE Cloud!Stored(i)
    <3> DEFINE new == [run[r] EXCEPT !.batch = @ \ {i}]
    <3>1. Cloud!Set(r, new) /\ Cloud!Stored(i)'
      BY <1>1, <2>1, <2>2 DEF Cloud!CheckEvent, Cloud!Stored
    <3>2. /\ new \in Cloud!RunStates /\ new.at = "event" /\ new.a = run[r].a
               /\ new.read = run[r].read /\ new.new = run[r].new
          /\ new.left = run[r].left /\ new.f = run[r].f /\ new.batch = run[r].batch \ {i}
      BY <1>0, <2>1 DEF Cloud!RunStates
    <3> HIDE DEF new
    <3> QED BY <2>1, <3>1, <3>2, BatchStep
  <2>3. CASE ~Cloud!Stored(i)
    <3> DEFINE new == [run[r] EXCEPT !.at = "insert", !.i = i]
    <3>1. Cloud!Set(r, new)
      BY <1>1, <2>3 DEF Cloud!CheckEvent
    <3>2. i \in 0 .. MaxChanges
      BY <1>0, ChangesAre, CloudAssumption DEF Cloud!TypeOK
    <3>3. /\ new \in Cloud!RunStates /\ new.at = "insert" /\ new.a = run[r].a
               /\ new.read = run[r].read /\ new.new = run[r].new
          /\ new.left = run[r].left /\ new.f = run[r].f /\ new.batch = run[r].batch /\ new.i = i
      BY <1>0, <3>2 DEF Cloud!RunStates
    <3> HIDE DEF new
    <3> QED BY <2>1, <3>1, <3>3, BatchStep
  <2> QED BY <2>2, <2>3
<1>2. ASSUME Cloud!InsertEvent(r) PROVE CloudInv'
  <2>1. UNCHANGED <<now, changes, folder, account, pollFaults, base, clobbered>> /\ run[r].at = "insert"
    BY <1>2 DEF Cloud!InsertEvent
  <2>2. CASE Cloud!Stored(run[r].i)
    <3>1. Cloud!Set(r, Cloud!Idle) /\ UNCHANGED reported
      BY <1>2, <2>2 DEF Cloud!InsertEvent
    <3>2. run'[r].at = "idle"
      BY <1>0, <3>1, IdleIsState DEF Cloud!Set, Cloud!TypeOK
    <3>3. reported' \subseteq (DOMAIN changes) \X Protected /\ pollFaults' \in 0 .. MaxPollFaults
      BY <1>0, <2>1, <3>1 DEF Cloud!TypeOK
    <3> QED BY <2>1, <3>1, <3>2, <3>3, IdleIsState, RunRests, OneRun
  <2>3. CASE ~Cloud!Stored(run[r].i)
    <3> DEFINE new == [run[r] EXCEPT !.at = "event", !.batch = @ \ {run[r].i}]
    <3>1. Cloud!Set(r, new) /\ reported' = reported \cup {<<run[r].i, run[r].f>>}
      BY <1>2, <2>3 DEF Cloud!InsertEvent
    <3>2. reported \subseteq reported' /\ \A i \in run[r].batch : i = run[r].i => Cloud!Stored(i)'
      <4>1. <<run[r].i, run[r].f>> \in reported' /\ <<run[r].i, run[r].f>>[1] = run[r].i
        BY <3>1
      <4> QED BY <3>1, <4>1 DEF Cloud!Stored
    <3>3. run[r].i \in DOMAIN changes /\ run[r].f \in Protected
      BY <1>0, <2>1 DEF RunCovers, Reading
    <3>4. reported' \subseteq (DOMAIN changes) \X Protected
      BY <1>0, <3>1, <3>3 DEF Cloud!TypeOK
    <3>5. /\ new \in Cloud!RunStates /\ new.at = "event" /\ new.a = run[r].a
               /\ new.read = run[r].read /\ new.new = run[r].new
          /\ new.left = run[r].left /\ new.f = run[r].f /\ new.batch = run[r].batch \ {run[r].i}
      BY <1>0, <2>1 DEF Cloud!RunStates
    <3> HIDE DEF new
    <3> QED BY <2>1, <3>1, <3>2, <3>4, <3>5, BatchStep
  <2> QED BY <2>2, <2>3
<1>3. ASSUME Cloud!FolderDone(r) PROVE CloudInv'
  <2> DEFINE new == [run[r] EXCEPT !.at = "folder"]
  <2>1. /\ UNCHANGED <<now, changes, reported, folder, account, pollFaults, base, clobbered>>
        /\ run[r].at = "event" /\ run[r].batch = {} /\ Cloud!Set(r, new)
             /\ reported' \subseteq (DOMAIN changes) \X Protected
    BY <1>0, <1>3 DEF Cloud!FolderDone, Cloud!TypeOK
  <2>2. /\ new \in Cloud!RunStates /\ new.at = "folder" /\ new.a = run[r].a
             /\ new.read = run[r].read /\ new.new = run[r].new
        /\ new.left = run[r].left /\ new.f = run[r].f /\ new.batch = run[r].batch
    BY <1>0, <2>1 DEF Cloud!RunStates
  <2> HIDE DEF new
  <2> QED BY <2>1, <2>2, BatchStep
<1> QED BY <1>1, <1>2, <1>3

LEMMA RunCommits == ASSUME CloudInv, NEW r \in Polls, Cloud!CommitAccount(r) PROVE CloudInv'
<1> DEFINE a == run[r].a
           read(f) == run[r].read[f]
           new(f) == run[r].new[f]
           written(f, c) == run[r].new[f][c] # run[r].read[f][c]
           stale(f) == folder[<<a, f>>] # run[r].read[f] /\ \E c \in {"seen", "token"} : written(f, c)
<1>0. /\ Cloud!TypeOK /\ run[r] \in Cloud!RunStates /\ a \in Cloud!Accounts /\ run[r].at = "folder"
           /\ run[r].left = {} /\ RunCovers(r)
      /\ UNCHANGED <<now, changes, reported, pollFaults>> /\ Cloud!Set(r, Cloud!NextAccount(r))
      /\ account' = [account EXCEPT ![a].due = FALSE]
  BY DEF CloudInv, Cloud!TypeOK, Cloud!CommitAccount, Cloud!RunStates
<1>1. /\ run[r].read \in [Protected -> Cloud!Positions] /\ run[r].new \in [Protected -> Cloud!Positions]
      /\ \A f \in Protected : FolderCovered(r, f)
  BY <1>0 DEF RunCovers, Reading
<1>2. /\ folder' = [x \in Cloud!Places |->
             IF x[1] # a THEN folder[x]
             ELSE [c \in {"seen", "token"} |-> IF written(x[2], c) THEN run[r].new[x[2]][c] ELSE folder[x][c]]]
      /\ base' = [x \in Cloud!Places |-> IF x[1] = a
           /\ base[x] = Cloud!None THEN folder'[x].seen ELSE base[x]]
      /\ clobbered' = clobbered \cup {<<a, f>> : f \in {g \in Protected : stale(g)}}
  BY DEF Cloud!CommitAccount
<1>3. ASSUME NEW x \in Cloud!Places, x[1] = a
      PROVE  /\ x[2] \in Protected /\ x = <<a, x[2]>>
             /\ folder[x] \in Cloud!Positions /\ folder[x].seen <= now
                  /\ folder[x].token <= Len(changes)
             /\ folder'[x] \in Cloud!Positions
             /\ folder'[x].seen = IF new(x[2]).seen # read(x[2]).seen THEN new(x[2]).seen ELSE folder[x].seen
             /\ folder'[x].token = IF new(x[2]).token # read(x[2]).token THEN new(x[2]).token ELSE folder[x].token
             /\ base'[x] = IF base[x] = Cloud!None THEN folder'[x].seen ELSE base[x]
  <2>1. x[2] \in Protected /\ x = <<a, x[2]>>
    BY <1>3 DEF Cloud!Places
  <2>2. folder[x] \in Cloud!Positions /\ folder[x].seen <= now /\ folder[x].token <= Len(changes)
    BY <1>0 DEF Cloud!TypeOK, CloudInv, PlacesRight
  <2>3. new(x[2]) \in Cloud!Positions /\ read(x[2]) \in Cloud!Positions
    BY <1>1, <2>1
  <2>4. folder'[x] = [c \in {"seen", "token"} |-> IF written(x[2], c) THEN run[r].new[x[2]][c] ELSE folder[x][c]]
    BY <1>2, <1>3
  <2>5. /\ folder'[x].seen = IF new(x[2]).seen # read(x[2]).seen THEN new(x[2]).seen ELSE folder[x].seen
        /\ folder'[x].token = IF new(x[2]).token # read(x[2]).token THEN new(x[2]).token ELSE folder[x].token
    BY <2>4
  <2>6. folder'[x].seen \in Cloud!None .. MaxTime /\ folder'[x].token \in Cloud!None .. MaxChanges
    BY <2>2, <2>3, <2>5 DEF Cloud!Positions
  <2>7. folder'[x] = [seen |-> folder'[x].seen, token |-> folder'[x].token]
    BY <2>4
  <2>8. folder'[x] \in Cloud!Positions
    BY <2>6, <2>7 DEF Cloud!Positions
  <2> QED BY <1>2, <1>3, <2>1, <2>2, <2>5, <2>8
<1>4. ASSUME NEW x \in Cloud!Places, x[1] # a PROVE folder'[x] = folder[x] /\ base'[x] = base[x]
  BY <1>2, <1>4
<1>5. ASSUME NEW f \in Protected
      PROVE  /\ new(f) \in Cloud!Positions /\ read(f) \in Cloud!Positions
             /\ new(f).seen <= now /\ read(f).seen <= now /\ new(f).token <= Len(changes)
                  /\ read(f).token <= Len(changes)
             /\ new(f).seen # Cloud!None
                  /\ (read(f).seen # Cloud!None => folder[<<a, f>>].seen # Cloud!None)
             /\ read(f).seen = Cloud!None => new(f).token = read(f).token
             /\ read(f).seen # Cloud!None =>
                  \A i \in Cloud!Fetched(a, f, read(f)) : i \in Cloud!Fetched(a, f, new(f))
                    \/ Cloud!Stored(i)
  <2>1. FolderCovered(r, f) /\ Pending(r, f) = {}
    BY <1>0, <1>1 DEF Pending
  <2> QED BY <1>0, <1>1, <2>1 DEF FolderCovered
<1>6. ASSUME NEW x \in Cloud!Places, x \notin clobbered', x[1] = a
      PROVE  folder'[x] = folder[x] \/ (folder[x] = read(x[2]) /\ folder'[x] = new(x[2]))
  <2>1. x[2] \in Protected /\ x = <<a, x[2]>> /\ folder[x] \in Cloud!Positions
          /\ folder'[x] \in Cloud!Positions
        /\ new(x[2]) \in Cloud!Positions /\ read(x[2]) \in Cloud!Positions
    BY <1>3, <1>5, <1>6
  <2>2. ~stale(x[2])
    BY <1>2, <1>6, <2>1
  <2>3. CASE folder[x] = read(x[2])
    <3>1. folder'[x].seen = new(x[2]).seen /\ folder'[x].token = new(x[2]).token
      BY <1>3, <1>6, <2>3
    <3> QED BY <2>1, <2>3, <3>1 DEF Cloud!Positions
  <2>4. CASE \A c \in {"seen", "token"} : ~written(x[2], c)
    <3>1. folder'[x].seen = folder[x].seen /\ folder'[x].token = folder[x].token
      BY <1>3, <1>6, <2>4
    <3> QED BY <2>1, <3>1 DEF Cloud!Positions
  <2> QED BY <2>1, <2>2, <2>3, <2>4
<1> HIDE DEF read, new, written, stale
<1>7. ASSUME NEW x \in Cloud!Places
      PROVE  /\ folder'[x] \in Cloud!Positions /\ folder'[x].token <= Len(changes)
                  /\ folder'[x].seen <= now
             /\ base'[x] \in Cloud!None .. MaxTime
             /\ folder'[x].seen = Cloud!None <=> base'[x] = Cloud!None
             /\ folder'[x].seen = Cloud!None => folder[x].seen = Cloud!None
                  /\ folder'[x].token = Cloud!None
  <2>1. /\ folder[x] \in Cloud!Positions /\ folder[x].seen <= now /\ folder[x].token <= Len(changes)
        /\ base[x] \in Cloud!None .. MaxTime /\ (folder[x].seen = Cloud!None <=> base[x] = Cloud!None)
        /\ folder[x].seen = Cloud!None => folder[x].token = Cloud!None
    BY <1>0 DEF Cloud!TypeOK, CloudInv, PlacesRight
  <2>2. CASE x[1] # a
    BY <1>4, <2>1, <2>2
  <2>3. CASE x[1] = a
    <3>1. folder'[x].seen # Cloud!None
      BY <1>3, <1>5, <2>3
    <3>2. base'[x] = IF base[x] = Cloud!None THEN folder'[x].seen ELSE base[x]
      BY <1>3, <2>3
    <3>3. folder'[x].seen = Cloud!None <=> base'[x] = Cloud!None
      BY <2>1, <3>1, <3>2
    <3>4. folder'[x] \in Cloud!Positions /\ folder'[x].token <= Len(changes) /\ folder'[x].seen <= now
      BY <1>3, <1>5, <2>3
    <3>5. base'[x] \in Cloud!None .. MaxTime
      BY <2>1, <3>2, <3>4 DEF Cloud!Positions
    <3> QED BY <3>1, <3>3, <3>4, <3>5
  <2> QED BY <2>2, <2>3
<1>8. Cloud!TypeOK'
  <2>1. run' \in [Polls -> Cloud!RunStates]
    BY <1>0, NextAccountIsState DEF Cloud!Set, Cloud!TypeOK
  <2>2. account' \in [Cloud!Accounts -> [due : BOOLEAN, valid : BOOLEAN]]
    <3>1. [account[a] EXCEPT !.due = FALSE] \in [due : BOOLEAN, valid : BOOLEAN]
      BY <1>0 DEF Cloud!TypeOK
    <3> QED BY <1>0, <3>1 DEF Cloud!TypeOK
  <2>3. clobbered' \subseteq Cloud!Places
    BY <1>0, <1>2 DEF Cloud!TypeOK, Cloud!Places
  <2>4. folder' \in [Cloud!Places -> Cloud!Positions]
          /\ base' \in [Cloud!Places -> Cloud!None .. MaxTime]
    BY <1>2, <1>7
  <2> QED BY <1>0, <1>7, <2>1, <2>2, <2>3, <2>4 DEF Cloud!TypeOK
<1>9. PlacesRight'
  BY <1>0, <1>7 DEF CloudInv, PlacesRight
<1>10. \A b, f, pos : Cloud!Fetched(b, f, pos)' = Cloud!Fetched(b, f, pos)
  BY <1>0 DEF Cloud!Fetched, Cloud!DriveActivity, Cloud!Delta, Cloud!Within, Cloud!Of
<1>11. ASSUME NEW x \in Cloud!Places, x \notin clobbered', NEW i \in Cloud!Wanted(x)'
       PROVE  Cloud!Stored(i) \/ Cloud!Ahead(i, x)'
  <2>1. x \notin clobbered
    BY <1>2, <1>11
  <2>2. /\ i \in Cloud!Within(x[1], x[2]) /\ base'[x] # Cloud!None /\ changes[i].time > base'[x]
    BY <1>0, <1>11 DEF Cloud!Wanted, Cloud!Within
  <2>3. Cloud!Ahead(i, x)' <=> i \in Cloud!Fetched(x[1], x[2], folder'[x])
    BY <1>10 DEF Cloud!Ahead
  <2>4. CASE base'[x] = base[x]
    <3>1. i \in Cloud!Wanted(x)
      BY <2>2, <2>4 DEF Cloud!Wanted
    <3>2. Cloud!Stored(i) \/ i \in Cloud!Fetched(x[1], x[2], folder[x])
      BY <1>11, <2>1, <3>1 DEF CloudInv, Cloud!NothingSkipped, Cloud!Ahead
    <3>3. CASE folder'[x] = folder[x]
      BY <2>3, <3>2, <3>3
    <3>4. CASE folder'[x] # folder[x]
      <4>1. x[1] = a
        BY <1>4, <3>4
      <4>2. folder[x] = read(x[2]) /\ folder'[x] = new(x[2]) /\ x[2] \in Protected
        BY <1>3, <1>6, <1>11, <3>4, <4>1
      <4>3. folder[x].seen # Cloud!None
        BY <2>2, <2>4 DEF CloudInv, PlacesRight
      <4> QED BY <1>5, <2>3, <3>2, <4>1, <4>2, <4>3
    <3> QED BY <3>3, <3>4
  <2>5. CASE base'[x] # base[x]
    <3>1. x[1] = a
      BY <1>4, <2>5
    <3>2. base'[x] = folder'[x].seen /\ folder[x].seen = Cloud!None /\ x[2] \in Protected
      BY <1>3, <2>5, <3>1 DEF CloudInv, PlacesRight
    <3>3. folder'[x] # folder[x]
      BY <2>2, <3>2
    <3>4. folder[x] = read(x[2]) /\ folder'[x] = new(x[2])
      BY <1>6, <1>11, <3>1, <3>3
    <3>5. CASE Kind[a] = "drive"
      <4>1. changes[i].time \in Int /\ folder'[x].seen \in Int
        BY <1>0, <1>7, <2>2, ChangesAre, CloudAssumption DEF Cloud!Within, Cloud!Positions,
           Cloud!None
      <4>2. changes[i].time > Cloud!Floor(folder'[x].seen)
        BY <2>2, <3>2, <4>1, FloorDown
      <4> QED BY <2>2, <2>3, <3>1, <3>5, <4>2 DEF Cloud!Fetched, Cloud!DriveActivity
    <3>6. CASE Kind[a] = "delta"
      <4>1. folder'[x].token = Cloud!None
        BY <1>5, <3>2, <3>4 DEF CloudInv, PlacesRight
      <4> QED BY <2>2, <2>3, <3>1, <3>6, <4>1 DEF Cloud!Fetched, Cloud!Delta
    <3> QED BY <1>0, <3>5, <3>6, KindsAre
  <2> QED BY <2>4, <2>5
<1>12. Cloud!NothingSkipped'
  BY <1>0, <1>11 DEF Cloud!NothingSkipped, Cloud!Stored
<1>13. ASSUME NEW q \in Polls PROVE RunCovers(q)'
  <2>1. now' \in Nat /\ now' >= now /\ reported \subseteq reported'
    BY <1>0, CloudAssumption DEF Cloud!TypeOK
  <2>2. CASE q = r
    BY <1>0, <2>2, NextAccountIsState, RunRests DEF Cloud!Set, Cloud!TypeOK
  <2>3. CASE q # r
    BY <1>0, <1>7, <2>1, <2>3, RunStands DEF CloudInv, Cloud!Set, Cloud!TypeOK
  <2> QED BY <2>2, <2>3
<1> QED BY <1>8, <1>9, <1>12, <1>13 DEF CloudInv

LEMMA CloudSteps == CloudInv /\ [Cloud!Next]_(Cloud!vars) => CloudInv'
<1> SUFFICES ASSUME CloudInv, [Cloud!Next]_(Cloud!vars) PROVE CloudInv'
  OBVIOUS
<1>1. CASE Cloud!Tick \/ \E a \in Cloud!Accounts : Cloud!BecomesDue(a) \/ Cloud!Revoke(a)
             \/ Cloud!Reauthorize(a)
  BY <1>1, WorldKeeps
<1>2. ASSUME NEW a \in Cloud!Accounts, NEW f \in Folders, Cloud!Change(a, f) PROVE CloudInv'
  BY <1>2, ChangeKeeps
<1>3. ASSUME NEW x \in Cloud!Places, NEW t \in 0 .. MaxTime, Cloud!ResetBaseline(x, t) PROVE CloudInv'
  BY <1>3, ResetKeeps
<1>4. ASSUME NEW r \in Polls, Cloud!Start(r) \/ Cloud!Abort(r) \/ Cloud!Work(r) PROVE CloudInv'
  BY <1>4, RunStarts, RunOpens, RunBaselines, RunFetches, RunStores, RunCommits DEF Cloud!Work
<1>5. CASE UNCHANGED Cloud!vars
  <2>1. UNCHANGED <<now, changes, reported, folder, account, run, pollFaults, base, clobbered>>
          /\ now \in Nat
    BY <1>5, CloudAssumption DEF Cloud!vars, CloudInv, Cloud!TypeOK
  <2>2. Cloud!TypeOK'
    BY <2>1 DEF CloudInv, Cloud!TypeOK
  <2>3. PlacesRight' /\ Cloud!NothingSkipped'
    BY <2>1, PlacesStand
  <2>4. \A r \in Polls : RunCovers(r)'
    BY <2>1, RunStands DEF CloudInv
  <2> QED BY <2>2, <2>3, <2>4 DEF CloudInv
<1> QED BY <1>1, <1>2, <1>3, <1>4, <1>5 DEF Cloud!Next

\* A behaviour of the server is one of its polling's.
LEMMA CloudRuns == ServerSpec => Cloud!Spec
<1>1. ServerInit => Cloud!Init
  BY DEF ServerInit
<1>2. [ServerNext]_serverVars => [Cloud!Next]_(Cloud!vars)
  BY DEF ServerNext, Runs, Picked, serverVars, cloudVars, Cloud!vars
<1> QED BY <1>1, <1>2, PTL DEF ServerSpec, Cloud!Spec

LEMMA CloudHolds == ServerSpec => []CloudInv
<1>1. Cloud!Init => CloudInv
  BY CloudBegins
<1>2. CloudInv /\ [Cloud!Next]_(Cloud!vars) => CloudInv'
  BY CloudSteps
<1> QED BY <1>1, <1>2, CloudRuns, PTL DEF Cloud!Spec

\* However runs overlap, fail and are reset, a change of a protected folder
\* after its baseline has its event or lies ahead of the next poll, but for a
\* reset that a run in flight has overwritten (google_drive_polling,
\* onedrive_polling).
THEOREM ChangesAreNoticedHolds == ServerSpec => []ChangesAreNoticed
<1>1. CloudInv => ChangesAreNoticed
  BY DEF CloudInv, ChangesAreNoticed
<1> QED BY <1>1, CloudHolds, PTL

-----------------------------------------------------------------------------
(* Classification rules *)

\* Cardinality is the same operator in the instance as here.
LEMMA RulesCounts == \A S : Rules!Cardinality(S) = Cardinality(S)
BY DEF Rules!Cardinality, Cardinality

\* A copy is current, or expires within a lifetime of the last edit.
GoodCopy(copy) ==
  /\ copy.expires <= clock + Ttl
  /\ copy.expires > rewritten + Ttl => copy.rules \subseteq Rules!Enabled

\* What a call found, reads or has chosen is of its time; the selection of a
\* test stands until it is looked up, unless the test is disturbed.
GoodCall(c) ==
  /\ looking[c].since <= clock
  /\ looking[c].pc \in {"chosen", "querying"} => clock <= looking[c].since + 1
  /\ GoodCopy(looking[c].old)
  /\ looking[c].since > rewritten /\ looking[c].pc = "querying" => looking[c].rules = Rules!Enabled
  /\ looking[c].since > rewritten /\ looking[c].pc = "chosen"
       => looking[c].chosen \subseteq Rules!Enabled
  /\ looking[c].pc \in {"chosen", "judging"} => looking[c].test

SelectionStands(c) ==
  looking[c].test /\ ~looking[c].disturbed /\ looking[c].chosen # {} =>
    /\ looking[c].pc = "opened" =>
         /\ copies[looking[c].worker].rules = looking[c].chosen
         /\ copies[looking[c].worker].expires > clock
    /\ looking[c].pc # "querying"
    /\ looking[c].pc = "judging" => looking[c].rules = looking[c].chosen

CopiesSound ==
  /\ rewritten <= clock
  /\ \A w \in Workers : GoodCopy(copies[w])
  /\ \A c \in Calls : GoodCall(c) /\ SelectionStands(c) /\ (looking[c].chosen # {} => looking[c].test)

\* A copy that is current has all the rules, unless a test runs: then the copy
\* that the test found has.
WholeCopy(copy) == copy.expires > rewritten + Ttl => copy.rules = Rules!Enabled

CopiesWhole ==
  \A w \in Workers \ mixed :
    /\ Rules!Testing(w) = {} => WholeCopy(copies[w])
    /\ \A c \in Rules!Testing(w) : WholeCopy(looking[c].old)

RulesInv == Rules!TypeOK /\ CopiesSound /\ CopiesWhole

-----------------------------------------------------------------------------
(* Calls *)

LEMMA NothingTyped ==
  Rules!NoEntry \in Rules!Entry /\ Rules!Idle \in Rules!Call /\ Rules!Idle.old = Rules!NoEntry
    /\ Rules!Idle.chosen = {}
         /\ Rules!Idle.pc = "idle" /\ ~Rules!Idle.test /\ Rules!Idle.since = 0
BY RulesAssumption DEF Rules!NoEntry, Rules!Entry, Rules!Idle, Rules!Call

\* Of what a step of another call leaves of call d.
LeftAlone(d) ==
  /\ looking'[d].pc = looking[d].pc /\ looking'[d].worker = looking[d].worker
  /\ looking'[d].test = looking[d].test /\ looking'[d].since = looking[d].since
  /\ looking'[d].rules = looking[d].rules /\ looking'[d].old = looking[d].old
  /\ looking'[d].chosen = looking[d].chosen
  /\ looking[d].disturbed => looking'[d].disturbed
  /\ looking[d].test /\ looking[d].pc \in {"opened", "querying"}
       /\ copies'[looking[d].worker] # copies[looking[d].worker] => looking'[d].disturbed

\* Call c has moved to k, perhaps writing the copy of w.
CallMoved(c, w, k) ==
  /\ looking' \in [Calls -> Rules!Call] /\ looking'[c] = k
  /\ \A d \in Calls \ {c} : LeftAlone(d)
  /\ copies' \in [Workers -> Rules!Entry]
  /\ \A v \in Workers : v # w => copies'[v] = copies[v]

LEMMA DisturbedType ==
  ASSUME Rules!TypeOK, NEW w, NEW by, NEW c \in Calls
  PROVE  LET k == Rules!Disturbed(w, by)[c] IN
         /\ k \in Rules!Call
         /\ k.pc = looking[c].pc /\ k.worker = looking[c].worker /\ k.test = looking[c].test
         /\ k.since = looking[c].since /\ k.rules = looking[c].rules /\ k.old = looking[c].old
         /\ k.chosen = looking[c].chosen
         /\ looking[c].disturbed => k.disturbed
         /\ c # by /\ looking[c].test /\ looking[c].worker = w
              /\ looking[c].pc \in {"opened", "querying"} => k.disturbed
<1>1. looking[c] \in Rules!Call
  BY DEF Rules!TypeOK
<1>2. /\ [looking[c] EXCEPT !.disturbed = TRUE] \in Rules!Call
      /\ [looking[c] EXCEPT !.disturbed = TRUE].disturbed
  BY <1>1 DEF Rules!Call
<1> QED BY <1>1, <1>2 DEF Rules!Disturbed, Rules!Call

LEMMA StepsAlone ==
  ASSUME Rules!TypeOK, NEW c \in Calls, NEW k \in Rules!Call, NEW w,
         looking' = [looking EXCEPT ![c] = k], UNCHANGED copies
  PROVE  CallMoved(c, w, k)
BY DEF Rules!TypeOK, CallMoved, LeftAlone

LEMMA StepsDisturbing ==
  ASSUME Rules!TypeOK, NEW c \in Calls, NEW k \in Rules!Call, NEW w \in Workers,
         NEW copy \in Rules!Entry,
         looking' = [Rules!Disturbed(w, c) EXCEPT ![c] = k], copies' = [copies EXCEPT ![w] = copy]
  PROVE  CallMoved(c, w, k) /\ copies'[w] = copy
<1>1. copies' \in [Workers -> Rules!Entry] /\ \A v \in Workers : v # w => copies'[v] = copies[v]
  BY DEF Rules!TypeOK
<1>2. copies'[w] = copy
  BY DEF Rules!TypeOK
<1>3. DOMAIN Rules!Disturbed(w, c) = Calls
  BY DEF Rules!Disturbed
<1>4. looking'[c] = k /\ \A d \in Calls \ {c} : looking'[d] = Rules!Disturbed(w, c)[d]
  BY <1>3
<1>5. looking' \in [Calls -> Rules!Call]
  <2>1. \A d \in Calls : Rules!Disturbed(w, c)[d] \in Rules!Call
    BY DisturbedType
  <2>2. looking' = [d \in Calls |-> looking'[d]]
    BY <1>3
  <2> QED BY <1>4, <2>1, <2>2
<1>6. ASSUME NEW d \in Calls \ {c}
      PROVE  LeftAlone(d)
  <2>1. looking'[d] = Rules!Disturbed(w, c)[d]
    BY <1>4
  <2>2. looking[d].pc # "idle" => looking[d].worker \in Workers
    BY DEF Rules!TypeOK
  <2> QED BY <1>1, <2>1, <2>2, DisturbedType DEF LeftAlone
<1> QED BY <1>1, <1>2, <1>4, <1>5, <1>6 DEF CallMoved

\* What the calls of a behaviour do, action by action.
LEMMA ClassifyMoves ==
  ASSUME Rules!TypeOK, NEW c \in Calls, NEW w \in Workers, Rules!Classify(c, w)
  PROVE  /\ CallMoved(c, w, [Rules!Idle EXCEPT !.pc = "opened", !.worker = w])
         /\ looking[c].pc = "idle" /\ UNCHANGED <<clock, catalogue, rewritten, copies, mixed>>
<1>1. [Rules!Idle EXCEPT !.pc = "opened", !.worker = w] \in Rules!Call
  BY NothingTyped DEF Rules!Call
<1> QED BY <1>1, StepsAlone DEF Rules!Classify, Rules!Quiet

LEMMA TestRulesMoves ==
  ASSUME Rules!TypeOK, NEW c \in Calls, NEW w \in Workers, NEW ids, Rules!TestRules(c, w, ids)
  PROVE  /\ \E chosen \in SUBSET Rules!Enabled :
              CallMoved(c, w, [Rules!Idle EXCEPT !.pc = "chosen", !.worker = w, !.test = TRUE, !.since = clock,
                                       !.chosen = chosen])
         /\ looking[c].pc = "idle" /\ UNCHANGED <<clock, catalogue, rewritten, copies, mixed>>
<1> DEFINE chosen == {r \in Rules!Enabled : r.id \in ids}
           k == [Rules!Idle EXCEPT !.pc = "chosen", !.worker = w, !.test = TRUE, !.since = clock,
                             !.chosen = chosen]
<1>1. chosen \in SUBSET Rules!Enabled /\ Rules!Enabled \subseteq Rules!Row
  BY DEF Rules!Enabled, Rules!TypeOK
<1>2. k \in Rules!Call
  BY <1>1, NothingTyped DEF Rules!Call, Rules!TypeOK
<1>3. CallMoved(c, w, k)
  BY <1>2, StepsAlone DEF Rules!TestRules
<1> QED BY <1>1, <1>3 DEF Rules!TestRules, Rules!Quiet

LEMMA OverrideMoves ==
  ASSUME Rules!TypeOK, NEW c \in Calls, Rules!Override(c)
  PROVE  LET w == looking[c].worker IN
         /\ w \in Workers /\ looking[c].pc = "chosen"
         /\ CallMoved(c, w, [looking[c] EXCEPT !.pc = "opened", !.old = copies[w], !.since = 0])
         /\ copies'[w] = Rules!Chosen(w, looking[c].chosen)
              /\ Rules!Chosen(w, looking[c].chosen) \in Rules!Entry
         /\ mixed' = IF Rules!Testing(w) = {} THEN mixed ELSE mixed \cup {w}
         /\ UNCHANGED <<clock, catalogue, rewritten>>
<1> DEFINE w == looking[c].worker
           k == [looking[c] EXCEPT !.pc = "opened", !.old = copies[w], !.since = 0]
<1>1. w \in Workers /\ looking[c].pc = "chosen"
  BY DEF Rules!Override, Rules!TypeOK
<1>2. k \in Rules!Call
  <2>1. 0 \in 0 .. MaxClock /\ looking[c] \in Rules!Call /\ copies[w] \in Rules!Entry
    BY <1>1, RulesAssumption DEF Rules!TypeOK
  <2> HIDE DEF w
  <2> QED BY <2>1 DEF Rules!Call
<1>3. /\ looking' = [Rules!Disturbed(w, c) EXCEPT ![c] = k]
      /\ copies' = [copies EXCEPT ![w] = Rules!Chosen(w, looking[c].chosen)]
      /\ mixed' = IF Rules!Testing(w) = {} THEN mixed ELSE mixed \cup {w}
      /\ UNCHANGED <<clock, catalogue, rewritten>>
  BY DEF Rules!Override, Rules!Quiet
<1>4. Rules!Chosen(w, looking[c].chosen) \in Rules!Entry
  <2>1. looking[c].chosen \in SUBSET Rules!Row
    BY DEF Rules!TypeOK, Rules!Call
  <2>2. clock + TestTtl \in 0 .. MaxClock + Ttl
    BY RulesAssumption DEF Rules!TypeOK
  <2> QED BY <2>1, <2>2 DEF Rules!Chosen, Rules!Entry
<1>5. CallMoved(c, w, k) /\ copies'[w] = Rules!Chosen(w, looking[c].chosen)
  <2> HIDE DEF w, k
  <2> QED BY <1>1, <1>2, <1>3, <1>4, StepsDisturbing
<1> QED BY <1>1, <1>3, <1>4, <1>5

\* Rules at hand end a classification and are the answer of a test.
JudgedCall(c, rules) ==
  IF looking[c].test THEN [looking[c] EXCEPT !.pc = "judging", !.rules = rules, !.since = 0] ELSE Rules!Idle

LEMMA JudgedType ==
  ASSUME Rules!TypeOK, NEW c \in Calls, NEW rules \in SUBSET Rules!Row
  PROVE  JudgedCall(c, rules) \in Rules!Call
<1>1. looking[c] \in Rules!Call
  BY DEF Rules!TypeOK
<1>2. 0 \in 0 .. MaxClock
  BY RulesAssumption
<1>3. [looking[c] EXCEPT !.pc = "judging", !.rules = rules, !.since = 0] \in Rules!Call
  BY <1>1, <1>2 DEF Rules!Call
<1> QED BY <1>3, NothingTyped DEF JudgedCall

LEMMA LookUpMoves ==
  ASSUME Rules!TypeOK, NEW c \in Calls, Rules!LookUp(c)
  PROVE  LET w == looking[c].worker IN
         /\ w \in Workers /\ looking[c].pc = "opened"
         /\ \/ Rules!Live(w) /\ CallMoved(c, w, JudgedCall(c, copies[w].rules))
            \/ /\ ~Rules!Live(w)
               /\ CallMoved(c, w, [looking[c] EXCEPT !.pc = "querying", !.since = clock, !.rules = Rules!Enabled])
         /\ UNCHANGED <<clock, catalogue, rewritten, copies, mixed>>
<1> DEFINE w == looking[c].worker
           k == [looking[c] EXCEPT !.pc = "querying", !.since = clock, !.rules = Rules!Enabled]
<1>1. w \in Workers /\ looking[c].pc = "opened"
  BY DEF Rules!LookUp, Rules!TypeOK
<1>2. Rules!Enabled \in SUBSET Rules!Row /\ copies[w].rules \in SUBSET Rules!Row
  BY <1>1 DEF Rules!TypeOK, Rules!Enabled, Rules!Entry
<1>3. k \in Rules!Call
  BY <1>2 DEF Rules!Call, Rules!TypeOK
<1>4. UNCHANGED <<clock, catalogue, rewritten, copies, mixed>>
  BY DEF Rules!LookUp, Rules!Quiet
<1>5. CASE Rules!Live(w)
  <2>1. looking' = [looking EXCEPT ![c] = JudgedCall(c, copies[w].rules)]
    BY <1>5 DEF Rules!LookUp, Rules!Judged, JudgedCall, Rules!TypeOK
  <2> QED BY <1>1, <1>2, <1>4, <1>5, <2>1, JudgedType, StepsAlone
<1>6. CASE ~Rules!Live(w)
  <2>1. looking' = [looking EXCEPT ![c] = k]
    BY <1>6 DEF Rules!LookUp
  <2> QED BY <1>1, <1>3, <1>4, <1>6, <2>1, StepsAlone
<1> QED BY <1>5, <1>6

LEMMA LoadedMoves ==
  ASSUME Rules!TypeOK, NEW c \in Calls, Rules!Loaded(c)
  PROVE  LET w == looking[c].worker IN
         /\ w \in Workers /\ looking[c].pc = "querying"
         /\ CallMoved(c, w, JudgedCall(c, looking[c].rules))
         /\ copies'[w] = Rules!Copy(c) /\ Rules!Copy(c) \in Rules!Entry
         /\ UNCHANGED <<clock, catalogue, rewritten, mixed>>
<1> DEFINE w == looking[c].worker
<1>1. w \in Workers /\ looking[c].pc = "querying" /\ looking[c] \in Rules!Call
  BY DEF Rules!Loaded, Rules!TypeOK
<1>2. JudgedCall(c, looking[c].rules) \in Rules!Call
  BY <1>1, JudgedType DEF Rules!Call
<1>3. Rules!Copy(c) \in Rules!Entry
  <2>1. looking[c].since + Ttl \in 0 .. MaxClock + Ttl
    BY <1>1, RulesAssumption DEF Rules!Call
  <2> QED BY <1>1, <2>1 DEF Rules!Copy, Rules!Entry, Rules!Call
<1>4. /\ copies' = [copies EXCEPT ![w] = Rules!Copy(c)]
      /\ UNCHANGED <<clock, catalogue, rewritten, mixed>>
  BY DEF Rules!Loaded, Rules!Quiet
<1>5. looking' = [Rules!Disturbed(w, c) EXCEPT ![c] = JudgedCall(c, looking[c].rules)]
  <2>1. Rules!Disturbed(w, c)[c] = looking[c] /\ c \in DOMAIN Rules!Disturbed(w, c)
    BY DEF Rules!Disturbed
  <2> QED BY <2>1 DEF Rules!Loaded, Rules!Judged, JudgedCall
<1>6. CallMoved(c, w, JudgedCall(c, looking[c].rules)) /\ copies'[w] = Rules!Copy(c)
  <2> HIDE DEF w
  <2> QED BY <1>1, <1>2, <1>3, <1>4, <1>5, StepsDisturbing
<1> QED BY <1>1, <1>3, <1>4, <1>6

LEMMA EndTestMoves ==
  ASSUME Rules!TypeOK, NEW c \in Calls, looking[c].pc # "idle", Rules!EndTest(c)
  PROVE  LET w == looking[c].worker IN
         /\ w \in Workers
         /\ CallMoved(c, w, Rules!Idle) /\ copies'[w] = looking[c].old /\ looking[c].old \in Rules!Entry
<1> DEFINE w == looking[c].worker
<1>1. w \in Workers /\ looking[c].old \in Rules!Entry
  BY DEF Rules!TypeOK, Rules!Call
<1>2. copies' = [copies EXCEPT ![w] = looking[c].old]
        /\ looking' = [Rules!Disturbed(w, c) EXCEPT ![c] = Rules!Idle]
  BY DEF Rules!EndTest, Rules!PutBack
<1>3. CallMoved(c, w, Rules!Idle) /\ copies'[w] = looking[c].old
  <2> HIDE DEF w
  <2> QED BY <1>1, <1>2, NothingTyped, StepsDisturbing
<1> QED BY <1>1, <1>3

\* A test that ends puts its copy back; a classification leaves nothing.
LEMMA EndMoves ==
  ASSUME Rules!TypeOK, CopiesSound, NEW c \in Calls, Rules!Restore(c) \/ Rules!EndEarly(c)
  PROVE  LET w == looking[c].worker IN
         /\ w \in Workers /\ looking[c].pc \in {"opened", "querying", "judging"}
         /\ CallMoved(c, w, Rules!Idle)
         /\ \/ looking[c].test /\ copies'[w] = looking[c].old /\ looking[c].old \in Rules!Entry
            \/ ~looking[c].test /\ UNCHANGED copies
         /\ UNCHANGED <<clock, catalogue, rewritten, mixed>>
<1>1. looking[c].pc \in {"opened", "querying", "judging"}
        /\ UNCHANGED <<clock, catalogue, rewritten, mixed>>
  BY DEF Rules!Restore, Rules!EndEarly, Rules!Quiet
<1>2. looking[c].worker \in Workers
  BY <1>1 DEF Rules!TypeOK
<1>3. CASE Rules!EndTest(c) /\ looking[c].test
  BY <1>1, <1>3, EndTestMoves
<1>4. CASE ~looking[c].test /\ looking' = [looking EXCEPT ![c] = Rules!Idle] /\ UNCHANGED copies
  BY <1>1, <1>2, <1>4, StepsAlone, NothingTyped
<1>5. CASE Rules!Restore(c)
  BY <1>3, <1>5 DEF Rules!Restore, CopiesSound, GoodCall
<1>6. CASE Rules!EndEarly(c)
  BY <1>3, <1>4, <1>6 DEF Rules!EndEarly, Rules!Abandoned
<1> QED BY <1>5, <1>6

-----------------------------------------------------------------------------
(* Steps of calls *)

\* The counters of a step of a call.
CallStep(c) ==
  \/ \E w \in Workers : Rules!Classify(c, w) \/ \E ids \in Choices : Rules!TestRules(c, w, ids)
  \/ Rules!Override(c) \/ Rules!LookUp(c) \/ Rules!Loaded(c) \/ Rules!Restore(c) \/ Rules!EndEarly(c)

LEMMA CallCounts ==
  ASSUME Rules!TypeOK, NEW c \in Calls, CallStep(c)
  PROVE  UNCHANGED <<clock, catalogue, made, rewrites, clears, rewritten>> /\ begun' \in 0 .. MaxCalls
<1>1. UNCHANGED <<clock, catalogue, made, rewrites, clears, rewritten>>
  BY DEF CallStep, Rules!Classify, Rules!TestRules, Rules!Override, Rules!LookUp, Rules!Loaded,
     Rules!Restore, Rules!EndEarly, Rules!Quiet
<1>2. UNCHANGED begun \/ Rules!Opened
  BY DEF CallStep, Rules!Classify, Rules!TestRules, Rules!Override, Rules!LookUp, Rules!Loaded,
     Rules!Restore, Rules!EndEarly
<1> QED BY <1>1, <1>2, RulesAssumption DEF Rules!Opened, Rules!TypeOK

\* The calls that a step leaves alone.
LEMMA OthersKeep ==
  ASSUME CopiesSound, UNCHANGED <<clock, catalogue, rewritten>>, NEW d \in Calls, LeftAlone(d)
  PROVE  GoodCall(d)' /\ SelectionStands(d)' /\ (looking'[d].chosen # {} => looking'[d].test)
<1>1. GoodCall(d) /\ SelectionStands(d) /\ (looking[d].chosen # {} => looking[d].test)
  BY DEF CopiesSound
<1>2. GoodCopy(looking[d].old)'
  BY <1>1 DEF LeftAlone, GoodCall, GoodCopy, Rules!Enabled
<1>3. GoodCall(d)'
  BY <1>1, <1>2 DEF LeftAlone, GoodCall, Rules!Enabled
<1>4. SelectionStands(d)'
  BY <1>1 DEF LeftAlone, SelectionStands
<1> QED BY <1>1, <1>3, <1>4 DEF LeftAlone

\* It is enough to look at the call that moves and at the copy it writes.
LEMMA CallMovedKeeps ==
  ASSUME Rules!TypeOK, CopiesSound, NEW c \in Calls, CallStep(c),
         NEW w \in Workers, NEW k, CallMoved(c, w, k),
         k.pc # "idle" => k.worker \in Workers, mixed' \subseteq Workers,
         GoodCopy(copies'[w]), GoodCall(c)', SelectionStands(c)', k.chosen # {} => k.test
  PROVE  Rules!TypeOK' /\ CopiesSound'
<1>1. UNCHANGED <<clock, catalogue, made, rewrites, clears, rewritten>> /\ begun' \in 0 .. MaxCalls
  BY CallCounts
<1>2. Rules!TypeOK'
  <2>1. \A d \in Calls : looking'[d].pc # "idle" => looking'[d].worker \in Workers
    BY DEF CallMoved, LeftAlone, Rules!TypeOK
  <2> QED BY <1>1, <2>1 DEF CallMoved, Rules!TypeOK
<1>4. \A v \in Workers : GoodCopy(copies[v])'
  <2>1. \A v \in Workers : GoodCopy(copies'[v])
    BY DEF CallMoved, CopiesSound
  <2> QED BY <1>1, <2>1 DEF GoodCopy, Rules!Enabled
<1>5. ASSUME NEW d \in Calls \ {c}
      PROVE  GoodCall(d)' /\ SelectionStands(d)' /\ (looking'[d].chosen # {} => looking'[d].test)
  BY <1>1, OthersKeep DEF CallMoved
<1>6. rewritten' <= clock'
  BY <1>1 DEF CopiesSound
<1>7. looking'[c].chosen # {} => looking'[c].test
  BY DEF CallMoved
<1> QED BY <1>2, <1>4, <1>5, <1>6, <1>7 DEF CopiesSound

\* A worker's tests are those it had, but for the call that moves.
LEMMA CallMovedTests ==
  ASSUME NEW c \in Calls, NEW w \in Workers, NEW k, CallMoved(c, w, k), NEW v
  PROVE  /\ \A d \in Calls \ {c} : /\ d \in Rules!Testing(v)' <=> d \in Rules!Testing(v)
                                   /\ looking'[d].old = looking[d].old
         /\ c \in Rules!Testing(v)' <=> k.test /\ k.worker = v
              /\ k.pc \in {"opened", "querying", "judging"}
BY DEF CallMoved, LeftAlone, Rules!Testing

\* A step that neither begins nor ends a test, and writes no selection.
LEMMA StaysWhole ==
  ASSUME CopiesWhole, NEW c \in Calls, NEW w \in Workers, NEW k, CallMoved(c, w, k),
         UNCHANGED <<catalogue, rewritten, mixed>>,
         \A v \in Workers : c \in Rules!Testing(v)' <=> c \in Rules!Testing(v),
         (\E v \in Workers : c \in Rules!Testing(v)) => k.old = looking[c].old,
         copies' = copies \/ WholeCopy(copies'[w])
  PROVE  CopiesWhole'
<1> SUFFICES ASSUME NEW v \in Workers \ mixed
             PROVE  /\ Rules!Testing(v)' = {} => WholeCopy(copies[v])'
                    /\ \A d \in Rules!Testing(v)' : WholeCopy(looking[d].old)'
  BY DEF CopiesWhole
<1>1. \A copy : WholeCopy(copy) <=> (copy.expires > rewritten' + Ttl => copy.rules = Rules!Enabled')
  BY DEF WholeCopy, Rules!Enabled
<1>2. \A d \in Calls : d \in Rules!Testing(v)' <=> d \in Rules!Testing(v)
  BY CallMovedTests
<1>3. Rules!Testing(v)' = Rules!Testing(v)
  BY <1>2 DEF Rules!Testing
<1>4. Rules!Testing(v)' = {} => WholeCopy(copies[v])'
  <2>1. Rules!Testing(v) = {} => WholeCopy(copies[v])
    BY DEF CopiesWhole
  <2>2. copies'[v] = copies[v] \/ WholeCopy(copies'[v])
    BY DEF CallMoved
  <2>3. Rules!Testing(v) = {} => WholeCopy(copies'[v])
    BY <2>1, <2>2
  <2> QED BY <1>1, <1>3, <2>3 DEF WholeCopy
<1>5. ASSUME NEW d \in Rules!Testing(v)'
      PROVE  WholeCopy(looking[d].old)'
  <2>1. d \in Rules!Testing(v) /\ d \in Calls
    BY <1>3, <1>5 DEF Rules!Testing
  <2>2. WholeCopy(looking[d].old)
    BY <2>1 DEF CopiesWhole
  <2>3. looking'[d].old = looking[d].old
    BY <2>1, CallMovedTests DEF CallMoved
  <2>4. WholeCopy(looking'[d].old)
    BY <2>2, <2>3
  <2> QED BY <1>1, <2>4 DEF WholeCopy
<1> QED BY <1>4, <1>5

\* How a copy of the present lives on.
LEMMA RulesNumbers ==
  ASSUME Rules!TypeOK
  PROVE  /\ clock \in Nat /\ rewritten \in Nat /\ Ttl \in Nat /\ TestTtl \in Nat /\ TestTtl < Ttl
         /\ TestTtl > 0
         /\ \A w \in Workers : copies[w] \in Rules!Entry /\ copies[w].expires \in Nat
         /\ \A c \in Calls : looking[c] \in Rules!Call /\ looking[c].since \in Nat
                             /\ looking[c].old \in Rules!Entry /\ looking[c].old.expires \in Nat
<1>1. clock \in Nat /\ rewritten \in Nat /\ Ttl \in Nat /\ TestTtl \in Nat /\ TestTtl < Ttl
        /\ TestTtl > 0
  BY RulesAssumption DEF Rules!TypeOK
<1>2. \A e \in Rules!Entry : e.expires \in Nat
  BY RulesAssumption DEF Rules!Entry
<1>3. \A c \in Calls : looking[c] \in Rules!Call /\ looking[c].since \in Nat
        /\ looking[c].old \in Rules!Entry
  BY RulesAssumption DEF Rules!TypeOK, Rules!Call
<1> QED BY <1>1, <1>2, <1>3 DEF Rules!TypeOK

LEMMA NothingIsGood ==
  ASSUME Rules!TypeOK
  PROVE  GoodCopy(Rules!NoEntry) /\ WholeCopy(Rules!NoEntry)
<1>1. Rules!NoEntry.expires = 0
  BY DEF Rules!NoEntry
<1> QED BY <1>1, RulesNumbers DEF GoodCopy, WholeCopy

LEMMA ClassifyKeeps ==
  ASSUME RulesInv, NEW c \in Calls, NEW w \in Workers, Rules!Classify(c, w)
  PROVE  RulesInv'
<1> DEFINE k == [Rules!Idle EXCEPT !.pc = "opened", !.worker = w]
<1>1. CallMoved(c, w, k) /\ looking[c].pc = "idle"
        /\ UNCHANGED <<clock, catalogue, rewritten, copies, mixed>>
  BY ClassifyMoves DEF RulesInv
<1>2. /\ k.pc = "opened" /\ k.worker = w /\ ~k.test /\ k.since = 0 /\ k.old = Rules!NoEntry
      /\ k.chosen = {}
  BY DEF Rules!Idle
<1>3. looking'[c] = k
  BY <1>1 DEF CallMoved
<1> HIDE DEF k
<1>4. GoodCall(c)' /\ SelectionStands(c)'
  <2>1. GoodCopy(Rules!NoEntry)'
    BY <1>1, NothingIsGood DEF RulesInv, GoodCopy, Rules!Enabled
  <2> QED BY <1>1, <1>2, <1>3, <2>1, RulesNumbers DEF RulesInv, GoodCall, SelectionStands
<1>5. Rules!TypeOK' /\ CopiesSound'
  <2>1. GoodCopy(copies'[w]) /\ mixed' \subseteq Workers /\ CallStep(c)
    BY <1>1 DEF RulesInv, CopiesSound, Rules!TypeOK, CallStep
  <2> QED BY <1>1, <1>2, <1>4, <2>1, CallMovedKeeps DEF RulesInv
<1>6. CopiesWhole'
  <2>1. \A v \in Workers : c \notin Rules!Testing(v)' /\ c \notin Rules!Testing(v)
    BY <1>1, <1>2, CallMovedTests DEF Rules!Testing
  <2> QED BY <1>1, <2>1, StaysWhole DEF RulesInv
<1> QED BY <1>5, <1>6 DEF RulesInv

LEMMA TestRulesKeeps ==
  ASSUME RulesInv, NEW c \in Calls, NEW w \in Workers, NEW ids \in Choices, Rules!TestRules(c, w, ids)
  PROVE  RulesInv'
<1>1. PICK chosen \in SUBSET Rules!Enabled :
        CallMoved(c, w, [Rules!Idle EXCEPT !.pc = "chosen", !.worker = w, !.test = TRUE, !.since = clock,
                                 !.chosen = chosen])
  BY TestRulesMoves DEF RulesInv
<1> DEFINE k == [Rules!Idle EXCEPT !.pc = "chosen", !.worker = w, !.test = TRUE, !.since = clock,
                             !.chosen = chosen]
<1>2. CallMoved(c, w, k) /\ looking[c].pc = "idle"
        /\ UNCHANGED <<clock, catalogue, rewritten, copies, mixed>>
  BY <1>1, TestRulesMoves DEF RulesInv
<1>3. /\ k.pc = "chosen" /\ k.worker = w /\ k.test /\ k.since = clock /\ k.old = Rules!NoEntry
      /\ k.chosen = chosen
  BY DEF Rules!Idle
<1>4. looking'[c] = k
  BY <1>2 DEF CallMoved
<1> HIDE DEF k
<1>5. GoodCall(c)' /\ SelectionStands(c)'
  <2>1. GoodCopy(Rules!NoEntry)'
    BY <1>2, NothingIsGood DEF RulesInv, GoodCopy, Rules!Enabled
  <2>2. chosen \subseteq Rules!Enabled'
    BY <1>2 DEF Rules!Enabled
  <2> QED BY <1>2, <1>3, <1>4, <2>1, <2>2, RulesNumbers DEF RulesInv, GoodCall, SelectionStands
<1>6. Rules!TypeOK' /\ CopiesSound'
  <2>1. GoodCopy(copies'[w]) /\ mixed' \subseteq Workers /\ CallStep(c)
    BY <1>2 DEF RulesInv, CopiesSound, Rules!TypeOK, CallStep
  <2> QED BY <1>2, <1>3, <1>5, <2>1, CallMovedKeeps DEF RulesInv
<1>7. CopiesWhole'
  <2>1. \A v \in Workers : c \notin Rules!Testing(v)' /\ c \notin Rules!Testing(v)
    BY <1>2, <1>3, CallMovedTests DEF Rules!Testing
  <2> QED BY <1>2, <2>1, StaysWhole DEF RulesInv
<1> QED BY <1>6, <1>7 DEF RulesInv

LEMMA OverrideKeeps ==
  ASSUME RulesInv, NEW c \in Calls, Rules!Override(c)
  PROVE  RulesInv'
<1>0. PICK w \in Workers : w = looking[c].worker
  BY OverrideMoves DEF RulesInv
<1> DEFINE k == [looking[c] EXCEPT !.pc = "opened", !.old = copies[w], !.since = 0]
<1>1. /\ w \in Workers /\ looking[c].pc = "chosen"
      /\ CallMoved(c, w, k)
      /\ copies'[w] = Rules!Chosen(w, looking[c].chosen)
      /\ mixed' = IF Rules!Testing(w) = {} THEN mixed ELSE mixed \cup {w}
      /\ UNCHANGED <<clock, catalogue, rewritten>>
  BY <1>0, OverrideMoves DEF RulesInv
<1>2. /\ k.pc = "opened" /\ k.worker = w /\ k.test = looking[c].test /\ k.since = 0
      /\ k.old = copies[w] /\ k.chosen = looking[c].chosen
  BY <1>0, RulesNumbers DEF RulesInv, Rules!Call
<1>3. looking'[c] = k
  BY <1>1 DEF CallMoved
<1>4. looking[c].test
  BY <1>1 DEF RulesInv, CopiesSound, GoodCall
<1>5. copies'[w].rules = looking[c].chosen /\ copies'[w].expires = clock + TestTtl
  BY <1>1 DEF Rules!Chosen
<1> HIDE DEF k
<1>6. GoodCopy(copies'[w])
  <2>1. clock + TestTtl <= clock + Ttl
    BY RulesNumbers DEF RulesInv
  <2>2. clock + TestTtl > rewritten + Ttl => looking[c].since > rewritten
    BY <1>1, RulesNumbers DEF RulesInv, CopiesSound, GoodCall
  <2>3. looking[c].since > rewritten => looking[c].chosen \subseteq Rules!Enabled
    BY <1>1 DEF RulesInv, CopiesSound, GoodCall
  <2> QED BY <1>5, <2>1, <2>2, <2>3 DEF GoodCopy
<1>7. GoodCall(c)' /\ SelectionStands(c)'
  <2>1. GoodCopy(copies[w])'
    <3>1. GoodCopy(copies'[w])
      BY <1>6
    <3> QED BY <1>1, <3>1 DEF GoodCopy, Rules!Enabled
  <2>2. GoodCopy(looking'[c].old)
    BY <1>1, <1>2, <1>3 DEF RulesInv, CopiesSound
  <2>3. GoodCall(c)'
    BY <1>1, <1>2, <1>3, <2>2, RulesNumbers DEF RulesInv, GoodCall, GoodCopy, Rules!Enabled
  <2>4. SelectionStands(c)'
    BY <1>1, <1>2, <1>3, <1>5, RulesNumbers DEF RulesInv, SelectionStands
  <2> QED BY <2>3, <2>4
<1>8. Rules!TypeOK' /\ CopiesSound'
  <2>1. mixed' \subseteq Workers /\ CallStep(c)
    BY <1>1 DEF RulesInv, Rules!TypeOK, CallStep
  <2> QED BY <1>1, <1>2, <1>4, <1>6, <1>7, <2>1, CallMovedKeeps DEF RulesInv
<1>9. CopiesWhole'
  <2> SUFFICES ASSUME NEW v \in Workers \ mixed'
               PROVE  /\ Rules!Testing(v)' = {} => WholeCopy(copies[v])'
                      /\ \A d \in Rules!Testing(v)' : WholeCopy(looking[d].old)'
    BY DEF CopiesWhole
  <2>1. \A copy : WholeCopy(copy) <=> (copy.expires > rewritten' + Ttl => copy.rules = Rules!Enabled')
    BY <1>1 DEF WholeCopy, Rules!Enabled
  <2>2. v \notin mixed /\ (v = w => Rules!Testing(w) = {})
    BY <1>1
  <2>3. /\ Rules!Testing(v) = {} => WholeCopy(copies[v])
        /\ \A d \in Rules!Testing(v) : WholeCopy(looking[d].old)
    BY <2>2 DEF RulesInv, CopiesWhole
  <2>4. c \in Rules!Testing(w)' /\ (v # w => c \notin Rules!Testing(v)')
    BY <1>1, <1>2, <1>4, CallMovedTests
  <2>5. c \notin Rules!Testing(v)
    BY <1>1 DEF Rules!Testing
  <2>6. Rules!Testing(v)' = {} => WholeCopy(copies[v])'
    <3> SUFFICES ASSUME Rules!Testing(v)' = {} PROVE WholeCopy(copies[v])'
      OBVIOUS
    <3>1. v # w
      BY <2>4
    <3>2. Rules!Testing(v) = {}
      BY <1>1, <2>5, CallMovedTests DEF Rules!Testing
    <3>3. copies'[v] = copies[v]
      BY <1>1, <3>1 DEF CallMoved
    <3>4. WholeCopy(copies'[v])
      BY <2>3, <3>2, <3>3
    <3> QED BY <2>1, <3>4 DEF WholeCopy
  <2>7. ASSUME NEW d \in Rules!Testing(v)'
        PROVE  WholeCopy(looking[d].old)'
    <3>1. CASE d = c
      <4>1. v = w
        BY <2>4, <2>7, <3>1
      <4>2. WholeCopy(looking'[d].old)
        BY <1>2, <1>3, <2>2, <2>3, <3>1, <4>1
      <4> QED BY <2>1, <4>2 DEF WholeCopy
    <3>2. CASE d # c
      <4>1. d \in Rules!Testing(v) /\ looking'[d].old = looking[d].old
        BY <1>1, <2>7, <3>2, CallMovedTests DEF Rules!Testing
      <4>2. WholeCopy(looking'[d].old)
        BY <2>3, <4>1
      <4> QED BY <2>1, <4>2 DEF WholeCopy
    <3> QED BY <3>1, <3>2
  <2> QED BY <2>6, <2>7
<1> QED BY <1>8, <1>9 DEF RulesInv

LEMMA LookUpKeeps ==
  ASSUME RulesInv, NEW c \in Calls, Rules!LookUp(c)
  PROVE  RulesInv'
<1>0. PICK w \in Workers : w = looking[c].worker
  BY LookUpMoves DEF RulesInv
<1>1. /\ looking[c].pc = "opened" /\ UNCHANGED <<clock, catalogue, rewritten, copies, mixed>>
      /\ looking[c] \in Rules!Call /\ GoodCall(c) /\ SelectionStands(c)
           /\ (looking[c].chosen # {} => looking[c].test)
      /\ GoodCopy(looking[c].old) /\ CallStep(c) /\ mixed' \subseteq Workers /\ GoodCopy(copies'[w])
  BY <1>0, LookUpMoves DEF RulesInv, Rules!TypeOK, CopiesSound, GoodCall, CallStep
<1>2. ASSUME NEW k, CallMoved(c, w, k), GoodCall(c)', SelectionStands(c)', k.chosen # {} => k.test,
             k.pc # "idle" => k.worker = w,
             k.test => looking[c].test /\ k.pc # "idle" /\ k.pc # "chosen" /\ k.old = looking[c].old,
             looking[c].test => k.test /\ k.worker = w /\ k.pc \in {"querying", "judging"}
      PROVE  RulesInv'
  <2>1. Rules!TypeOK' /\ CopiesSound'
    BY <1>1, <1>2, CallMovedKeeps DEF RulesInv
  <2>2. \A v \in Workers : c \in Rules!Testing(v)' <=> c \in Rules!Testing(v)
    BY <1>0, <1>1, <1>2, CallMovedTests DEF Rules!Testing
  <2>3. (\E v \in Workers : c \in Rules!Testing(v)) => k.old = looking[c].old
    BY <1>2 DEF Rules!Testing
  <2>4. CopiesWhole'
    BY <1>1, <1>2, <2>2, <2>3, StaysWhole DEF RulesInv
  <2> QED BY <2>1, <2>4 DEF RulesInv
<1>3. CASE Rules!Live(w) /\ looking[c].test
  <2> DEFINE k == [looking[c] EXCEPT !.pc = "judging", !.rules = copies[w].rules, !.since = 0]
  <2>1. CallMoved(c, w, k)
    BY <1>0, <1>3, LookUpMoves DEF RulesInv, JudgedCall
  <2>2. /\ k.pc = "judging" /\ k.worker = w /\ k.test /\ k.since = 0 /\ k.rules = copies[w].rules
        /\ k.old = looking[c].old /\ k.chosen = looking[c].chosen /\ k.disturbed = looking[c].disturbed
    BY <1>0, <1>1, <1>3 DEF Rules!Call
  <2>3. looking'[c] = k
    BY <2>1 DEF CallMoved
  <2> HIDE DEF k
  <2>4. GoodCopy(looking[c].old)'
    BY <1>1, <2>2, <2>3 DEF GoodCopy, Rules!Enabled
  <2>5. GoodCall(c)' /\ SelectionStands(c)'
    BY <1>0, <1>1, <2>2, <2>3, <2>4, RulesNumbers DEF RulesInv, GoodCall, SelectionStands
  <2> QED BY <1>2, <1>3, <2>1, <2>2, <2>5
<1>4. CASE Rules!Live(w) /\ ~looking[c].test
  <2>1. CallMoved(c, w, Rules!Idle)
    BY <1>0, <1>4, LookUpMoves DEF RulesInv, JudgedCall
  <2>2. looking'[c] = Rules!Idle
    BY <2>1 DEF CallMoved
  <2>3. GoodCopy(Rules!NoEntry)'
    BY <1>1, NothingIsGood DEF RulesInv, GoodCopy, Rules!Enabled
  <2>4. GoodCall(c)' /\ SelectionStands(c)'
    BY <1>1, <2>2, <2>3, NothingTyped, RulesNumbers DEF RulesInv, GoodCall, SelectionStands
  <2> QED BY <1>2, <1>4, <2>1, <2>4, NothingTyped
<1>5. CASE ~Rules!Live(w)
  <2> DEFINE k == [looking[c] EXCEPT !.pc = "querying", !.since = clock, !.rules = Rules!Enabled]
  <2>1. CallMoved(c, w, k)
    BY <1>0, <1>5, LookUpMoves DEF RulesInv
  <2>2. /\ k.pc = "querying" /\ k.worker = w /\ k.test = looking[c].test /\ k.since = clock
        /\ k.rules = Rules!Enabled /\ k.old = looking[c].old /\ k.chosen = looking[c].chosen
        /\ k.disturbed = looking[c].disturbed
    BY <1>0, <1>1 DEF Rules!Call
  <2>3. looking'[c] = k
    BY <2>1 DEF CallMoved
  <2> HIDE DEF k
  <2>4. GoodCopy(looking[c].old)'
    BY <1>1, <2>2, <2>3 DEF GoodCopy, Rules!Enabled
  <2>5. GoodCall(c)'
    BY <1>1, <2>2, <2>3, <2>4, RulesNumbers DEF RulesInv, GoodCall, Rules!Enabled
  <2>6. SelectionStands(c)'
    BY <1>0, <1>1, <1>5, <2>2, <2>3 DEF SelectionStands, Rules!Live
  <2> QED BY <1>1, <1>2, <2>1, <2>2, <2>5, <2>6
<1> QED BY <1>3, <1>4, <1>5

LEMMA LoadedKeeps ==
  ASSUME RulesInv, NEW c \in Calls, Rules!Loaded(c)
  PROVE  RulesInv'
<1>0. PICK w \in Workers : w = looking[c].worker
  BY LoadedMoves DEF RulesInv
<1> DEFINE k == JudgedCall(c, looking[c].rules)
<1>1. /\ looking[c].pc = "querying" /\ UNCHANGED <<clock, catalogue, rewritten, mixed>>
      /\ CallMoved(c, w, k) /\ copies'[w] = Rules!Copy(c)
      /\ looking[c] \in Rules!Call /\ GoodCall(c) /\ SelectionStands(c)
           /\ (looking[c].chosen # {} => looking[c].test)
      /\ GoodCopy(looking[c].old) /\ CallStep(c) /\ mixed' \subseteq Workers
  BY <1>0, LoadedMoves DEF RulesInv, Rules!TypeOK, CopiesSound, GoodCall, CallStep
<1>2. /\ looking[c].test => /\ k.pc = "judging" /\ k.worker = w /\ k.test /\ k.old = looking[c].old
                         /\ k.chosen = looking[c].chosen /\ k.disturbed = looking[c].disturbed
      /\ ~looking[c].test => k = Rules!Idle
      /\ k.since = 0
  BY <1>0, <1>1, NothingTyped DEF JudgedCall, Rules!Call
<1>3. looking'[c] = k
  BY <1>1 DEF CallMoved
<1> HIDE DEF k
<1>4. GoodCopy(Rules!Copy(c)) /\ WholeCopy(Rules!Copy(c))
  <2>1. Rules!Copy(c).rules = looking[c].rules /\ Rules!Copy(c).expires = looking[c].since + Ttl
    BY DEF Rules!Copy
  <2>2. looking[c].since > rewritten => looking[c].rules = Rules!Enabled
    BY <1>1 DEF GoodCall
  <2>3. looking[c].since <= clock
    BY <1>1 DEF GoodCall
  <2> QED BY <2>1, <2>2, <2>3, RulesNumbers DEF RulesInv, GoodCopy, WholeCopy
<1>5. GoodCopy(looking[c].old)'
  <2>1. GoodCopy(k.old)
    BY <1>1, <1>2, NothingIsGood, NothingTyped DEF RulesInv
  <2> QED BY <1>1, <1>3, <2>1 DEF GoodCopy, Rules!Enabled
<1>6. GoodCall(c)'
  BY <1>1, <1>2, <1>3, <1>5, NothingTyped, RulesNumbers DEF RulesInv, GoodCall
<1>7. SelectionStands(c)'
  BY <1>1, <1>2, <1>3, NothingTyped DEF SelectionStands
<1>8. Rules!TypeOK' /\ CopiesSound'
  <2>1. k.pc # "idle" => k.worker \in Workers
    BY <1>2, NothingTyped
  <2>2. k.chosen # {} => k.test
    BY <1>2, NothingTyped
  <2> QED BY <1>1, <1>4, <1>6, <1>7, <2>1, <2>2, CallMovedKeeps DEF RulesInv
<1>9. CopiesWhole'
  <2>1. \A v \in Workers : c \in Rules!Testing(v)' <=> c \in Rules!Testing(v)
    BY <1>0, <1>1, <1>2, NothingTyped, CallMovedTests DEF Rules!Testing
  <2>2. (\E v \in Workers : c \in Rules!Testing(v)) => k.old = looking[c].old
    BY <1>2 DEF Rules!Testing
  <2> QED BY <1>1, <1>4, <2>1, <2>2, StaysWhole DEF RulesInv
<1> QED BY <1>8, <1>9 DEF RulesInv

LEMMA EndKeeps ==
  ASSUME RulesInv, NEW c \in Calls, Rules!Restore(c) \/ Rules!EndEarly(c)
  PROVE  RulesInv'
<1>0. PICK w \in Workers : w = looking[c].worker
  BY EndMoves DEF RulesInv
<1>1. /\ looking[c].pc \in {"opened", "querying", "judging"}
           /\ UNCHANGED <<clock, catalogue, rewritten, mixed>>
      /\ CallMoved(c, w, Rules!Idle)
      /\ \/ looking[c].test /\ copies'[w] = looking[c].old
         \/ ~looking[c].test /\ UNCHANGED copies
      /\ GoodCopy(looking[c].old) /\ GoodCopy(copies[w]) /\ CallStep(c) /\ mixed' \subseteq Workers
  BY <1>0, EndMoves DEF RulesInv, Rules!TypeOK, CopiesSound, GoodCall, CallStep
<1>2. looking'[c] = Rules!Idle
  BY <1>1 DEF CallMoved
<1>3. GoodCall(c)' /\ SelectionStands(c)'
  <2>1. GoodCopy(Rules!NoEntry)'
    BY <1>1, NothingIsGood DEF RulesInv, GoodCopy, Rules!Enabled
  <2> QED BY <1>1, <1>2, <2>1, NothingTyped, RulesNumbers DEF RulesInv, GoodCall, SelectionStands
<1>4. Rules!TypeOK' /\ CopiesSound'
  <2>1. GoodCopy(copies'[w])
    BY <1>1
  <2> QED BY <1>1, <1>3, <2>1, NothingTyped, CallMovedKeeps DEF RulesInv
<1>5. CopiesWhole'
  <2> SUFFICES ASSUME NEW v \in Workers \ mixed
               PROVE  /\ Rules!Testing(v)' = {} => WholeCopy(copies[v])'
                      /\ \A d \in Rules!Testing(v)' : WholeCopy(looking[d].old)'
    BY <1>1 DEF CopiesWhole
  <2>1. \A copy : WholeCopy(copy) <=> (copy.expires > rewritten' + Ttl => copy.rules = Rules!Enabled')
    BY <1>1 DEF WholeCopy, Rules!Enabled
  <2>2. /\ Rules!Testing(v) = {} => WholeCopy(copies[v])
        /\ \A d \in Rules!Testing(v) : WholeCopy(looking[d].old)
    BY DEF RulesInv, CopiesWhole
  <2>3. c \notin Rules!Testing(v)' /\ (c \in Rules!Testing(v) <=> v = w /\ looking[c].test)
    BY <1>0, <1>1, NothingTyped, CallMovedTests DEF Rules!Testing
  <2>4. Rules!Testing(v)' = {} => WholeCopy(copies[v])'
    <3> SUFFICES ASSUME Rules!Testing(v)' = {} PROVE WholeCopy(copies[v])'
      OBVIOUS
    <3>1. c \notin Rules!Testing(v) => Rules!Testing(v) = {}
      BY <1>1, CallMovedTests DEF Rules!Testing
    <3>2. c \notin Rules!Testing(v) => copies'[v] = copies[v]
      BY <1>1, <2>3 DEF CallMoved
    <3>3. c \in Rules!Testing(v) => copies'[v] = looking[c].old
      BY <1>1, <2>3
    <3>4. WholeCopy(copies'[v])
      BY <2>2, <3>1, <3>2, <3>3
    <3> QED BY <2>1, <3>4 DEF WholeCopy
  <2>5. ASSUME NEW d \in Rules!Testing(v)'
        PROVE  WholeCopy(looking[d].old)'
    <3>1. d \in Rules!Testing(v) /\ looking'[d].old = looking[d].old
      BY <1>1, <2>3, <2>5, CallMovedTests DEF Rules!Testing
    <3>2. WholeCopy(looking'[d].old)
      BY <2>2, <3>1
    <3> QED BY <2>1, <3>2 DEF WholeCopy
  <2> QED BY <2>4, <2>5
<1> QED BY <1>4, <1>5 DEF RulesInv

-----------------------------------------------------------------------------
(* The other steps *)

LEMMA InvalidateKeeps ==
  ASSUME RulesInv, NEW w \in Workers, Rules!Invalidate(w)
  PROVE  RulesInv'
<1>1. /\ UNCHANGED <<clock, catalogue, made, rewrites, begun, rewritten, mixed>>
           /\ clears' \in 0 .. MaxClears
      /\ copies' = [copies EXCEPT ![w] = Rules!NoEntry] /\ looking' = Rules!Disturbed(w, 0)
  BY RulesAssumption DEF Rules!Invalidate, RulesInv, Rules!TypeOK
<1>2. /\ copies' \in [Workers -> Rules!Entry]
      /\ \A v \in Workers : copies'[v] = IF v = w THEN Rules!NoEntry ELSE copies[v]
  BY <1>1, NothingTyped DEF RulesInv, Rules!TypeOK
<1>3. \A d \in Calls : looking'[d] \in Rules!Call /\ LeftAlone(d)
  <2> SUFFICES ASSUME NEW d \in Calls PROVE looking'[d] \in Rules!Call /\ LeftAlone(d)
    OBVIOUS
  <2>1. looking'[d] = Rules!Disturbed(w, 0)[d]
    BY <1>1
  <2>2. d # 0 /\ (looking[d].pc # "idle" => looking[d].worker \in Workers)
    BY RulesAssumption DEF RulesInv, Rules!TypeOK
  <2> QED BY <1>2, <2>1, <2>2, DisturbedType DEF RulesInv, LeftAlone
<1>4. looking' \in [Calls -> Rules!Call]
  BY <1>1, <1>3 DEF Rules!Disturbed
<1>5. Rules!TypeOK'
  BY <1>1, <1>2, <1>3, <1>4 DEF RulesInv, Rules!TypeOK, LeftAlone
<1>6. CopiesSound'
  <2>1. \A d \in Calls : GoodCall(d)' /\ SelectionStands(d)'
          /\ (looking'[d].chosen # {} => looking'[d].test)
    BY <1>1, <1>3, OthersKeep DEF RulesInv
  <2>2. \A v \in Workers : GoodCopy(copies'[v])
    BY <1>2, NothingIsGood DEF RulesInv, CopiesSound
  <2>3. \A v \in Workers : GoodCopy(copies[v])'
    BY <1>1, <2>2 DEF GoodCopy, Rules!Enabled
  <2>4. rewritten' <= clock'
    BY <1>1 DEF RulesInv, CopiesSound
  <2> QED BY <2>1, <2>3, <2>4 DEF CopiesSound
<1>7. CopiesWhole'
  <2>1. \A v : Rules!Testing(v)' = Rules!Testing(v)
    BY <1>3 DEF Rules!Testing, LeftAlone
  <2>2. \A v \in Workers \ mixed : Rules!Testing(v) = {} => WholeCopy(copies'[v])
    BY <1>2, NothingIsGood DEF RulesInv, CopiesWhole
  <2>3. \A v \in Workers \ mixed : \A d \in Rules!Testing(v) : WholeCopy(looking'[d].old)
    BY <1>3 DEF RulesInv, CopiesWhole, Rules!Testing, LeftAlone
  <2>4. \A v \in Workers \ mixed : Rules!Testing(v)' = {} => WholeCopy(copies[v])'
    BY <1>1, <2>1, <2>2 DEF WholeCopy, Rules!Enabled
  <2>5. \A v \in Workers \ mixed : \A d \in Rules!Testing(v)' : WholeCopy(looking[d].old)'
    BY <1>1, <2>1, <2>3 DEF WholeCopy, Rules!Enabled
  <2> QED BY <1>1, <2>4, <2>5 DEF CopiesWhole
<1> QED BY <1>5, <1>6, <1>7 DEF RulesInv

\* After an edit every copy is an old one.
LEMMA EditKeeps ==
  ASSUME RulesInv, Rules!Edit, catalogue' \subseteq Rules!Row, made' \in 0 .. MaxRules
  PROVE  RulesInv'
<1>1. /\ UNCHANGED <<clock, copies, looking, clears, begun, mixed>>
      /\ rewrites' \in 0 .. MaxRewrites /\ rewritten' = clock
  BY RulesAssumption DEF Rules!Edit, RulesInv, Rules!TypeOK
<1>2. Rules!TypeOK'
  <2>1. rewritten' \in 0 .. MaxClock
    BY <1>1 DEF RulesInv, Rules!TypeOK
  <2> QED BY <1>1, <2>1 DEF RulesInv, Rules!TypeOK
<1>3. \A n \in Nat : ~(n <= clock /\ n > rewritten') /\ ~(n <= clock + Ttl /\ n > rewritten' + Ttl)
  BY <1>1, RulesNumbers DEF RulesInv
<1>4. \A w \in Workers : copies[w].expires <= clock + Ttl /\ copies[w].expires \in Nat
  BY RulesNumbers DEF RulesInv, CopiesSound, GoodCopy
<1>5. \A c \in Calls : /\ looking[c].old.expires <= clock + Ttl /\ looking[c].old.expires \in Nat
                       /\ looking[c].since <= clock /\ looking[c].since \in Nat
  BY RulesNumbers DEF RulesInv, CopiesSound, GoodCall, GoodCopy
<1>6. \A w \in Workers : GoodCopy(copies[w])' /\ WholeCopy(copies[w])'
  BY <1>1, <1>3, <1>4 DEF GoodCopy, WholeCopy
<1>7. \A c \in Calls : GoodCopy(looking[c].old)' /\ WholeCopy(looking[c].old)'
  BY <1>1, <1>3, <1>5 DEF GoodCopy, WholeCopy
<1>8. CopiesSound'
  <2>1. \A c \in Calls : GoodCall(c)'
    BY <1>1, <1>3, <1>5, <1>7 DEF RulesInv, CopiesSound, GoodCall
  <2>2. \A c \in Calls : SelectionStands(c)' /\ (looking'[c].chosen # {} => looking'[c].test)
    BY <1>1 DEF RulesInv, CopiesSound, SelectionStands
  <2>3. rewritten' <= clock'
    BY <1>1, RulesNumbers DEF RulesInv
  <2> QED BY <1>6, <2>1, <2>2, <2>3 DEF CopiesSound
<1>9. CopiesWhole'
  <2>1. \A w : Rules!Testing(w)' \subseteq Calls
    BY DEF Rules!Testing
  <2> QED BY <1>6, <1>7, <2>1 DEF CopiesWhole
<1> QED BY <1>2, <1>8, <1>9 DEF RulesInv

LEMMA AdminKeeps ==
  ASSUME RulesInv,
         \/ \E n \in RuleNames : Rules!CreateRule(n)
         \/ \E r \in catalogue : Rules!ToggleRule(r) \/ Rules!DeleteRule(r)
         \/ \E r \in catalogue : \E n \in RuleNames \ {r.name} : Rules!UpdateRule(r, [r EXCEPT !.name = n])
  PROVE  RulesInv'
<1>1. catalogue \subseteq Rules!Row /\ made \in 0 .. MaxRules /\ MaxRules \in Nat
  BY RulesAssumption DEF RulesInv, Rules!TypeOK
<1>2. ASSUME NEW n \in RuleNames, Rules!CreateRule(n)
      PROVE  RulesInv'
  <2>1. made' \in 0 .. MaxRules /\ made + 1 \in 1 .. MaxRules
    BY <1>1, <1>2 DEF Rules!CreateRule
  <2>2. [id |-> made + 1, name |-> n, enabled |-> TRUE] \in Rules!Row
    BY <2>1 DEF Rules!Row
  <2>3. catalogue' \subseteq Rules!Row
    BY <1>1, <1>2, <2>2 DEF Rules!CreateRule
  <2> QED BY <1>2, <2>1, <2>3, EditKeeps DEF Rules!CreateRule
<1>3. ASSUME NEW r \in catalogue, NEW fields, fields \in Rules!Row, Rules!UpdateRule(r, fields)
      PROVE  RulesInv'
  <2>1. [r EXCEPT !.name = fields.name, !.enabled = fields.enabled] \in Rules!Row
    BY <1>1, <1>3 DEF Rules!Row
  <2>2. catalogue' \subseteq Rules!Row /\ made' \in 0 .. MaxRules
    BY <1>1, <1>3, <2>1 DEF Rules!UpdateRule
  <2> QED BY <1>3, <2>2, EditKeeps DEF Rules!UpdateRule
<1>4. ASSUME NEW r \in catalogue, Rules!ToggleRule(r)
      PROVE  RulesInv'
  <2>1. [r EXCEPT !.enabled = ~r.enabled] \in Rules!Row
    BY <1>1 DEF Rules!Row
  <2> QED BY <1>3, <1>4, <2>1 DEF Rules!ToggleRule
<1>5. ASSUME NEW r \in catalogue, NEW n \in RuleNames, Rules!UpdateRule(r, [r EXCEPT !.name = n])
      PROVE  RulesInv'
  <2>1. [r EXCEPT !.name = n] \in Rules!Row
    BY <1>1 DEF Rules!Row
  <2> QED BY <1>3, <1>5, <2>1
<1>6. ASSUME NEW r \in catalogue, Rules!DeleteRule(r)
      PROVE  RulesInv'
  BY <1>1, <1>6, EditKeeps DEF Rules!DeleteRule
<1> QED BY <1>2, <1>4, <1>5, <1>6

LEMMA TickKeeps ==
  ASSUME RulesInv, Rules!Tick
  PROVE  RulesInv'
<1>1. /\ clock' = clock + 1 /\ clock' \in 0 .. MaxClock
      /\ \A c \in Calls : looking[c].pc \in {"chosen", "querying"} => looking[c].since = clock
      /\ UNCHANGED <<catalogue, made, copies, rewrites, clears, begun, rewritten, mixed>>
  BY RulesAssumption DEF Rules!Tick, RulesInv, Rules!TypeOK
<1>2. \A c \in Calls :
        /\ looking'[c] \in Rules!Call
        /\ looking'[c].pc = looking[c].pc /\ looking'[c].worker = looking[c].worker
        /\ looking'[c].test = looking[c].test /\ looking'[c].since = looking[c].since
        /\ looking'[c].rules = looking[c].rules /\ looking'[c].old = looking[c].old
        /\ looking'[c].chosen = looking[c].chosen
        /\ looking[c].disturbed => looking'[c].disturbed
        /\ looking[c].test /\ looking[c].pc = "opened" => looking'[c].disturbed
  <2> SUFFICES ASSUME NEW c \in Calls
               PROVE  /\ looking'[c] \in Rules!Call
                      /\ looking'[c].pc = looking[c].pc /\ looking'[c].worker = looking[c].worker
                      /\ looking'[c].test = looking[c].test /\ looking'[c].since = looking[c].since
                      /\ looking'[c].rules = looking[c].rules /\ looking'[c].old = looking[c].old
                      /\ looking'[c].chosen = looking[c].chosen
                      /\ looking[c].disturbed => looking'[c].disturbed
                      /\ looking[c].test /\ looking[c].pc = "opened" => looking'[c].disturbed
    OBVIOUS
  <2>1. looking[c] \in Rules!Call
    BY DEF RulesInv, Rules!TypeOK
  <2>2. looking'[c] = IF looking[c].test /\ looking[c].pc = "opened"
                   THEN [looking[c] EXCEPT !.disturbed = TRUE] ELSE looking[c]
    BY DEF Rules!Tick
  <2> QED BY <2>1, <2>2 DEF Rules!Call
<1>3. Rules!TypeOK'
  <2>1. looking' = [c \in Calls |-> looking'[c]]
    BY DEF Rules!Tick
  <2>2. looking' \in [Calls -> Rules!Call]
    BY <1>2, <2>1
  <2> QED BY <1>1, <1>2, <2>2 DEF RulesInv, Rules!TypeOK
<1>4. \A n \in Nat : n <= clock + Ttl => n <= clock' + Ttl
  BY <1>1, RulesNumbers DEF RulesInv
<1>5. CopiesSound'
  <2>1. \A w \in Workers : GoodCopy(copies[w])'
    BY <1>1, <1>4, RulesNumbers DEF RulesInv, CopiesSound, GoodCopy, Rules!Enabled
  <2>2. \A c \in Calls : GoodCopy(looking[c].old)'
    BY <1>1, <1>2, <1>4, RulesNumbers DEF RulesInv, CopiesSound, GoodCall, GoodCopy, Rules!Enabled
  <2>3. \A c \in Calls : GoodCall(c)'
    BY <1>1, <1>2, <2>2, RulesNumbers DEF RulesInv, CopiesSound, GoodCall, Rules!Enabled
  <2>4. \A c \in Calls : SelectionStands(c)' /\ (looking'[c].chosen # {} => looking'[c].test)
    BY <1>1, <1>2 DEF RulesInv, CopiesSound, SelectionStands
  <2>5. rewritten' <= clock'
    BY <1>1, RulesNumbers DEF RulesInv, CopiesSound
  <2> QED BY <2>1, <2>3, <2>4, <2>5 DEF CopiesSound
<1>6. CopiesWhole'
  <2>1. \A w : Rules!Testing(w)' = Rules!Testing(w)
    BY <1>2 DEF Rules!Testing
  <2>2. \A c \in Calls : WholeCopy(looking[c].old) => WholeCopy(looking[c].old)'
    BY <1>1, <1>2 DEF WholeCopy, Rules!Enabled
  <2>3. \A w \in Workers : WholeCopy(copies[w]) => WholeCopy(copies[w])'
    BY <1>1 DEF WholeCopy, Rules!Enabled
  <2>4. \A w : Rules!Testing(w) \subseteq Calls
    BY DEF Rules!Testing
  <2> QED BY <1>1, <2>1, <2>2, <2>3, <2>4 DEF RulesInv, CopiesWhole
<1> QED BY <1>3, <1>5, <1>6 DEF RulesInv

LEMMA RulesBegin ==
  ASSUME Rules!Init
  PROVE  RulesInv
<1>1. /\ clock = 0 /\ rewritten = 0 /\ catalogue = Seeded /\ made = Cardinality(Seeded) /\ mixed = {}
      /\ rewrites = 0 /\ clears = 0 /\ begun = 0
      /\ \A c \in Calls : looking[c] = Rules!Idle
      /\ \A w \in Workers : copies[w] \in {Rules!NoEntry, [rules |-> Seeded, expires |-> Ttl]}
  BY RulesCounts DEF Rules!Init
<1>2. [rules |-> Seeded, expires |-> Ttl] \in Rules!Entry
  <2>1. Ttl \in 0 .. MaxClock + Ttl
    BY RulesAssumption
  <2> QED BY <2>1, RulesAssumption DEF Rules!Entry
<1>3. Rules!TypeOK
  <2>1. looking \in [Calls -> Rules!Call] /\ copies \in [Workers -> Rules!Entry]
    BY <1>2, NothingTyped DEF Rules!Init
  <2> QED BY <1>1, <2>1, NothingTyped, RulesAssumption DEF Rules!TypeOK
<1>4. \A w \in Workers : copies[w].expires \in {0, Ttl}
  BY <1>1 DEF Rules!NoEntry
<1>5. \A w \in Workers : GoodCopy(copies[w]) /\ WholeCopy(copies[w])
  BY <1>1, <1>4, RulesAssumption DEF GoodCopy, WholeCopy
<1>6. GoodCopy(Rules!NoEntry) /\ WholeCopy(Rules!NoEntry)
  BY <1>3, NothingIsGood
<1>7. CopiesSound
  <2>1. \A c \in Calls : GoodCall(c) /\ SelectionStands(c)
          /\ (looking[c].chosen # {} => looking[c].test)
    BY <1>1, <1>6, NothingTyped DEF GoodCall, SelectionStands
  <2> QED BY <1>1, <1>5, <2>1 DEF CopiesSound
<1>8. CopiesWhole
  BY <1>1, <1>5, NothingTyped DEF CopiesWhole, Rules!Testing
<1> QED BY <1>3, <1>7, <1>8 DEF RulesInv

LEMMA RulesSteps ==
  ASSUME RulesInv, [Rules!Next]_(Rules!vars)
  PROVE  RulesInv'
<1>1. CASE UNCHANGED Rules!vars
  <2>1. Rules!TypeOK'
    BY <1>1 DEF RulesInv, Rules!TypeOK, Rules!vars
  <2>2. \A c \in Calls : GoodCall(c)' /\ SelectionStands(c)'
    BY <1>1 DEF RulesInv, CopiesSound, GoodCall, SelectionStands, GoodCopy, Rules!Enabled,
       Rules!vars
  <2>3. CopiesSound'
    BY <1>1, <2>2 DEF RulesInv, CopiesSound, GoodCopy, Rules!Enabled, Rules!vars
  <2>4. CopiesWhole'
    BY <1>1 DEF RulesInv, CopiesWhole, WholeCopy, Rules!Testing, Rules!Enabled, Rules!vars
  <2> QED BY <2>1, <2>3, <2>4 DEF RulesInv
<1>2. ASSUME NEW c \in Calls, NEW w \in Workers,
             Rules!Classify(c, w) \/ \E ids \in Choices : Rules!TestRules(c, w, ids)
      PROVE  RulesInv'
  BY <1>2, ClassifyKeeps, TestRulesKeeps
<1>3. ASSUME NEW c \in Calls,
             Rules!Override(c) \/ Rules!LookUp(c) \/ Rules!Loaded(c) \/ Rules!Restore(c)
               \/ Rules!EndEarly(c)
      PROVE  RulesInv'
  BY <1>3, OverrideKeeps, LookUpKeeps, LoadedKeeps, EndKeeps
<1>4. CASE Rules!Next
  BY <1>2, <1>3, <1>4, AdminKeeps, InvalidateKeeps, TickKeeps DEF Rules!Next
<1> QED BY <1>1, <1>4

LEMMA RulesKept ==
  ASSUME RulesInv
  PROVE  Rules!TypeOK /\ Rules!EditsTakeEffect /\ Rules!NothingLeftOut /\ Rules!TestJudgesWhatItChose
<1>1. Rules!EditsTakeEffect
  BY RulesNumbers DEF RulesInv, CopiesSound, GoodCopy, Rules!EditsTakeEffect, Rules!Live
<1>2. Rules!NothingLeftOut
  BY RulesNumbers DEF RulesInv, CopiesWhole, WholeCopy, Rules!NothingLeftOut, Rules!Live
<1>3. Rules!TestJudgesWhatItChose
  BY DEF RulesInv, CopiesSound, SelectionStands, Rules!TestJudgesWhatItChose
<1> QED BY <1>1, <1>2, <1>3 DEF RulesInv

\* A behaviour of the server is one of its rules'.
LEMMA RulesRuns == ServerSpec => Rules!Spec
<1>1. ServerInit => Rules!Init
  BY DEF ServerInit
<1>2. [ServerNext]_serverVars => [Rules!Next]_(Rules!vars)
  BY DEF ServerNext, Runs, Picked, serverVars, rulesVars, Rules!vars
<1> QED BY <1>1, <1>2, PTL DEF ServerSpec, Rules!Spec

LEMMA RulesHolds == ServerSpec => []RulesInv
<1>1. Rules!Init => RulesInv
  BY RulesBegin
<1>2. RulesInv /\ [Rules!Next]_(Rules!vars) => RulesInv'
  BY RulesSteps
<1> QED BY <1>1, <1>2, RulesRuns, PTL DEF Rules!Spec

\* Whatever loads, tests, clearings and edits overlap, an edit of a rule is in
\* force on every worker within the lifetime of a copy, no rule is left out but
\* while a test runs, and an undisturbed test is judged by the rules it chose
\* (_get_cached_rules, test_rules).
THEOREM RulesAreInForceHolds == ServerSpec => []RulesAreInForce
<1>1. RulesInv => RulesAreInForce
  BY RulesKept DEF RulesAreInForce
<1> QED BY <1>1, RulesHolds, PTL

-----------------------------------------------------------------------------
(* Every part *)

LEMMA RegistryRuns == ServerSpec => Spec
<1>1. ServerInit => Init
  BY DEF ServerInit
<1>2. [ServerNext]_serverVars => [Next]_vars
  BY DEF ServerNext, Runs, Picked, serverVars, vars
<1> QED BY <1>1, <1>2, PTL DEF ServerSpec, Spec

LEMMA RegistryTypes == ServerSpec => []TypeOK
BY RegistryRuns, TypeCorrect, PTL

\* A part is picked once.
LEMMA OnePart == ServerSpec => [](part \in Parts)
<1>1. ServerInit => part \in Parts
  BY DEF ServerInit
<1>2. part \in Parts /\ [ServerNext]_serverVars => (part \in Parts)'
  BY DEF ServerNext, Runs, serverVars
<1> QED BY <1>1, <1>2, PTL DEF ServerSpec

\* The variables of every part keep to what the code can hold.
THEOREM TypesHold == ServerSpec => []TypesOK
<1>1. ASSUME part \in Parts, TypeOK, VaultInv, CloudInv, AccountsInv, SignInInv, RulesInv,
             ControlInv, TriageInv
      PROVE  TypesOK
  BY <1>1 DEF TypesOK, VaultInv, CloudInv, AccountsInv, SignInInv, RulesInv, ControlInv, TriageInv
<1> QED BY <1>1, OnePart, RegistryTypes, VaultHolds, CloudHolds, AccountsHolds, SignInHolds,
           RulesHolds, ControlHolds, TriageHolds, PTL

=============================================================================
