------------------------------ MODULE SsoAccounts ------------------------------
(***************************************************************************)
(* Accounts of people who come through the SIEM.  An exchange looks for the *)
(* person's account by the SIEM's identity, then by e-mail address, brings  *)
(* the account's identity up to date, provisions one when there is none,    *)
(* and gives an account the sync owns the role the SIEM says.  Exchanges    *)
(* run side by side with each other and with an administrator who edits,    *)
(* seeds and removes accounts.  Each works on the row as its session loaded *)
(* it.  The SIEM does not give an address to another person.                *)
(***************************************************************************)
EXTENDS Naturals, FiniteSets

CONSTANTS People,    \* SIEM identities
          Addresses, \* Addresses[p]: the e-mail addresses p has in turn
          Provision, \* SSO_JIT_PROVISION
          Logins,    \* exchanges there can be
          MaxRows,   \* bound on accounts ever made
          MaxOps     \* bound on what the administrator and the SIEM do

VARIABLES
  rows,    \* rows[i]: an account: address, sub, role, managed, active; or None or Gone
  siem,    \* siem[p]: the address and the role of p at the SIEM
  login,   \* login[l]: an exchange
  pinned,  \* history: pinned[i], the role an administrator last gave by hand
  raced,   \* history: accounts edited while an exchange had them loaded
  got,     \* history: got[p], the accounts p was let into, lost races apart
  ops

vars == <<rows, siem, login, pinned, raced, got, ops>>

Roles == {"ADMIN", "VIEWER"}
Ids == 1..MaxRows
None == [none |-> TRUE]
Gone == [gone |-> TRUE]
NoRole == "none"
Emails == UNION {{Addresses[p][k] : k \in DOMAIN Addresses[p]} : p \in People}
NewLogin == [at |-> "new"]

Used == {i \in Ids : rows[i] \notin {None, Gone}}
Fresh == {i \in Ids : rows[i] = None /\ \A j \in 1..(i - 1) : rows[j] # None} \* ids are not reused
BySub(p) == {i \in Used : rows[i].sub = p}
ByEmail(e) == {i \in Used : rows[i].email = e}
Row(i, row) == rows' = [rows EXCEPT ![i] = row]

Step(l, at, from) == login[l].at = from /\ login' = [login EXCEPT ![l].at = at]
Fail(l) == login' = [login EXCEPT ![l] = [at |-> "failed", p |-> @.p]]

-----------------------------------------------------------------------------
\* The exchange

\* A token says what the SIEM knows of the person now.
Begin(l) ==
  /\ login[l] = NewLogin
  /\ \E p \in People :
       login' = [login EXCEPT ![l] = [at |-> "find", p |-> p, email |-> siem[p].email, role |-> siem[p].role]]
  /\ UNCHANGED <<rows, siem, pinned, raced, got, ops>>

\* By identity in preference to address; the session keeps the row it loads.
Find(l) ==
  /\ login[l].at = "find"
  /\ LET me == login[l]
         found == IF BySub(me.p) # {} THEN BySub(me.p) ELSE ByEmail(me.email)
     IN IF found = {}
        THEN IF Provision THEN Step(l, "check", "find") ELSE Fail(l)
        ELSE \E i \in found :
               login' = [login EXCEPT ![l] = [at |-> "reconcile", p |-> me.p, email |-> me.email,
                           role |-> me.role, id |-> i, row |-> rows[i], bySub |-> BySub(me.p) # {}, lost |-> FALSE]]
  /\ UNCHANGED <<rows, siem, pinned, raced, got, ops>>

\* Mutant: an account found by its address is not given the identity.
KeepSub(l) == login[l].row.sub

\* An account found by its address is claimed, one found by identity renamed
\* unless the address is another account's.
NewSub(l) == IF login[l].row.sub = NoRole THEN login[l].p ELSE login[l].row.sub
NewEmail(l) ==
  IF login[l].bySub /\ ByEmail(login[l].email) \subseteq {login[l].id}
  THEN login[l].email ELSE login[l].row.email

\* update_user writes the columns that change; the account can be gone, or another
\* can have taken the identity since, and then the exchange fails.
Reconcile(l) ==
  /\ login[l].at = "reconcile"
  /\ LET me == login[l]
         sub == NewSub(l)
         email == NewEmail(l)
     IN IF sub = me.row.sub /\ email = me.row.email
        THEN Step(l, "sync", "reconcile") /\ UNCHANGED rows
        ELSE IF rows[me.id] # Gone /\ BySub(sub) \subseteq {me.id}
        THEN /\ Row(me.id, [rows[me.id] EXCEPT !.sub = sub,
                                              !.email = IF email # me.row.email THEN email ELSE @])
             /\ login' = [login EXCEPT ![l].at = "sync", ![l].row = rows'[me.id]]
        ELSE Fail(l) /\ UNCHANGED rows
  /\ UNCHANGED <<siem, pinned, raced, got, ops>>

\* create_user finds the address taken: the race is lost, and the winner's account used.
CreateCheck(l) ==
  /\ login[l].at = "check"
  /\ LET me == login[l]
         winner == IF BySub(me.p) # {} THEN BySub(me.p) ELSE ByEmail(me.email)
     IN IF ByEmail(me.email) = {} THEN Step(l, "insert", "check")
        ELSE \E i \in winner :
               login' = [login EXCEPT ![l] = [at |-> "sync", p |-> me.p, email |-> me.email,
                           role |-> me.role, id |-> i, row |-> rows[i], bySub |-> FALSE, lost |-> TRUE]]
  /\ UNCHANGED <<rows, siem, pinned, raced, got, ops>>

Account(email, sub, role, managed) ==
  [email |-> email, sub |-> sub, role |-> role, managed |-> managed, active |-> TRUE]

\* The unique columns stop the later of two that both found the address free, and
\* that exchange fails.
CreateInsert(l) ==
  /\ login[l].at = "insert"
  /\ LET me == login[l]
         row == Account(me.email, me.p, me.role, TRUE)
     IN IF ByEmail(me.email) \cup BySub(me.p) # {}
        THEN Fail(l) /\ UNCHANGED rows
        ELSE \E i \in Fresh :
               /\ Row(i, row)
               /\ login' = [login EXCEPT ![l] = [at |-> "sync", p |-> me.p, email |-> me.email,
                              role |-> me.role, id |-> i, row |-> row, bySub |-> FALSE, lost |-> FALSE]]
  /\ UNCHANGED <<siem, pinned, raced, got, ops>>

\* The person is in; a row entered through a lost race was not claimed.
Enter(me) == got' = [got EXCEPT ![me.p] = IF me.lost \/ rows[me.id] = Gone THEN @ ELSE @ \cup {me.id}]

\* The role is synced to an account that was the sync's when it was loaded.
Sync(l) ==
  /\ login[l].at = "sync"
  /\ LET me == login[l]
     IN IF ~me.row.active
        THEN Fail(l) /\ UNCHANGED <<rows, got>>
        ELSE IF me.row.managed /\ me.row.role # me.role
        THEN IF rows[me.id] = Gone THEN Fail(l) /\ UNCHANGED <<rows, got>>
             ELSE /\ Row(me.id, [rows[me.id] EXCEPT !.role = me.role])
                  /\ Step(l, "in", "sync")
                  /\ Enter(me)
        ELSE /\ Step(l, "in", "sync")
             /\ Enter(me)
             /\ UNCHANGED rows
  /\ UNCHANGED <<siem, pinned, raced, ops>>

\* A browser comes again.
Again(l) ==
  /\ login[l].at \in {"in", "failed"}
  /\ login' = [login EXCEPT ![l] = NewLogin]
  /\ UNCHANGED <<rows, siem, pinned, raced, got, ops>>

Exchange(l) ==
  Begin(l) \/ Find(l) \/ Reconcile(l) \/ CreateCheck(l) \/ CreateInsert(l) \/ Sync(l) \/ Again(l)

-----------------------------------------------------------------------------
\* The administrator and the SIEM

Op == ops < MaxOps /\ ops' = ops + 1

\* Mutant: an edited account stays the sync's.
StaysManaged(row, role) == [row EXCEPT !.role = role]

\* A role given by hand detaches the account from the sync.
Edited(row, role) == [row EXCEPT !.role = role, !.managed = FALSE]

Loaded(i) == \E l \in Logins : login[l].at \in {"reconcile", "sync"} /\ login[l].id = i

EditRole ==
  /\ Op
  /\ \E i \in Used, role \in Roles :
       /\ Row(i, Edited(rows[i], role))
       /\ pinned' = [pinned EXCEPT ![i] = role]
       /\ raced' = IF Loaded(i) THEN raced \cup {i} ELSE raced \ {i}
  /\ UNCHANGED <<siem, login, got>>

\* siem_role makes the account, or keeps it, the sync's.
Reseed ==
  /\ Op
  /\ \E i \in Used, role \in Roles :
       /\ Row(i, [rows[i] EXCEPT !.role = role, !.managed = TRUE])
       /\ pinned' = [pinned EXCEPT ![i] = NoRole]
  /\ UNCHANGED <<siem, login, raced, got>>

\* POST /users, with a role or with siem_role; no identity is known yet.
CreateUser ==
  /\ Op
  /\ \E e \in Emails, managed \in BOOLEAN, i \in Fresh :
       /\ ByEmail(e) = {}
       /\ Row(i, Account(e, NoRole, "VIEWER", managed))
  /\ UNCHANGED <<siem, login, pinned, raced, got>>

Deactivate ==
  /\ Op
  /\ \E i \in Used : Row(i, [rows[i] EXCEPT !.active = FALSE])
  /\ UNCHANGED <<siem, login, pinned, raced, got>>

HardDelete ==
  /\ Op
  /\ \E i \in Used :
       /\ Row(i, Gone)
       /\ pinned' = [pinned EXCEPT ![i] = NoRole]
       /\ got' = [p \in People |-> got[p] \ {i}]
  /\ UNCHANGED <<siem, login, raced>>

\* A person's address or role changes at the SIEM.
Rename ==
  /\ Op
  /\ \E p \in People : \E k \in DOMAIN Addresses[p] :
       /\ k > 1 /\ siem[p].email = Addresses[p][k - 1]
       /\ siem' = [siem EXCEPT ![p].email = Addresses[p][k]]
  /\ UNCHANGED <<rows, login, pinned, raced, got>>

ChangeRole ==
  /\ Op
  /\ \E p \in People, role \in Roles : siem' = [siem EXCEPT ![p].role = role]
  /\ UNCHANGED <<rows, login, pinned, raced, got>>

Init ==
  /\ rows = [i \in Ids |-> None]
  /\ siem = [p \in People |-> [email |-> Addresses[p][1], role |-> "VIEWER"]]
  /\ login = [l \in Logins |-> NewLogin]
  /\ pinned = [i \in Ids |-> NoRole] /\ raced = {} /\ got = [p \in People |-> {}] /\ ops = 0

Next ==
  \/ \E l \in Logins : Exchange(l)
  \/ EditRole \/ Reseed \/ CreateUser \/ Deactivate \/ HardDelete \/ Rename \/ ChangeRole

Spec == Init /\ [][Next]_vars

Identities == People \cup {NoRole}
Rows == [email : Emails, sub : Identities, role : Roles, managed : BOOLEAN, active : BOOLEAN]
LoginStates ==
  [at : {"new"}] \cup [at : {"failed"}, p : People]
  \cup [at : {"find", "check", "insert"}, p : People, email : Emails, role : Roles]
  \cup [at : {"reconcile", "sync", "in"}, p : People, email : Emails, role : Roles, id : Ids,
        row : Rows, bySub : BOOLEAN, lost : BOOLEAN]

TypeOK ==
  /\ rows \in [Ids -> Rows \cup {None, Gone}]
  /\ siem \in [People -> [email : Emails, role : Roles]]
  /\ login \in [Logins -> LoginStates]
  /\ pinned \in [Ids -> Roles \cup {NoRole}] /\ raced \subseteq Ids
  /\ got \in [People -> SUBSET Ids] /\ ops \in 0 .. MaxOps

\* A person whose address changes is let into the account they had, and never
\* into a second one, however logins, renames and edits interleave.  An account
\* entered through a lost race is left out: the code does not claim it.
OneAccountPerPerson == \A p \in People : Cardinality(got[p]) <= 1

\* A role given by hand does not revert at a later login, unless an exchange had
\* loaded the account when it was given.
ManualRoleStays == \A i \in Used : (pinned[i] # NoRole /\ i \notin raced) => rows[i].role = pinned[i]
=============================================================================
