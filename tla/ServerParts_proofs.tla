------------------------- MODULE ServerParts_proofs --------------------------
(*****************************************************************************)
(* Proofs about the vault, the switches of the device page, the page of seen *)
(* devices, single sign-on, and second factors, tokens and failed logins,    *)
(* for any number of events, uploads, admins, sticks, agents, people,        *)
(* addresses, logins and faults, as parts of Server.                         *)
(*                                                                           *)
(* An upload and a post are each of two steps, and the cleaner of three, so  *)
(* what the pages promise does not say enough of the states in between. The  *)
(* vault's invariant counts an event as missed or has it linked when its     *)
(* file is in place (LinkedOrMissed); the switch's gives the reserved name   *)
(* to one live row (NameIsUnique); the page's follows a stick's last move    *)
(* to its report, on its way or arrived (LastMoveIsReported).                *)
(*                                                                           *)
(* An exchange reads an account, decides, and writes what it decided over    *)
(* whatever the row has become. The invariant of the accounts says what the  *)
(* reading is still good for: that the row is its person's or may be         *)
(* claimed (LoginKnows), at an address of the person (IdentitiesApart), and  *)
(* that a role an admin has set stays in the login's hands (LoginHolds,      *)
(* Detached). A request about a second factor begins only from what it read  *)
(* (RequestsWereAllowed).                                                    *)
(*****************************************************************************)
EXTENDS Server, FiniteSetTheorems, SequenceTheorems, TLAPS

-----------------------------------------------------------------------------
(* The quarantine vault *)

\* A file is there only after its upload stored it, and a lookup that found one
\* says so too.
StoredByUpload ==
  \A e \in Events :
    /\ upload[e] \in {"idle", "store", "storeAndLink"} => files[e] = "none"
    /\ \A p \in Posts : post[<<e, p>>] = "linked" => upload[e] \notin {"idle", "store", "storeAndLink"}
    /\ \A p \in Posts : upload[e] = "idle" => post[<<e, p>>] = "idle"

\* The cleanup works on old files.
CleansOldFiles ==
  /\ cleaner \in [at : {"idle", "delete"} \cup Events, todo : SUBSET Events]
  /\ \A e \in Events : cleaner.at = e => files[e] \in {"old", "gone"}

\* An event that came before its file was stored has been counted as missed,
\* when nobody will link the two.
LinkedOrMissed ==
  \A e \in Events :
    (events[e].there /\ e \notin missed) =>
      /\ upload[e] # "store"
      /\ (upload[e] = "done" /\ files[e] = "new") => events[e].link

VaultInv == Vault!TypeOK /\ StoredByUpload /\ CleansOldFiles /\ LinkedOrMissed /\ Vault!NoDanglingLink

LEMMA VaultBegins == Vault!Init => VaultInv
<1> SUFFICES ASSUME Vault!Init PROVE VaultInv
  OBVIOUS
<1>1. Vault!TypeOK /\ CleansOldFiles
  BY VaultAssumption DEF Vault!Init, Vault!NoCleaning, Vault!TypeOK, CleansOldFiles
<1>2. StoredByUpload
  BY DEF Vault!Init, StoredByUpload
<1>3. LinkedOrMissed /\ Vault!NoDanglingLink
  BY DEF Vault!Init, LinkedOrMissed, Vault!NoDanglingLink
<1> QED BY <1>1, <1>2, <1>3 DEF VaultInv

LEMMA LinkTyped ==
  ASSUME Vault!TypeOK, NEW e \in Events, NEW x \in BOOLEAN
  PROVE  LET new == [events EXCEPT ![e].link = x] IN
         /\ new \in [Events -> [there : BOOLEAN, old : BOOLEAN, link : BOOLEAN]]
         /\ \A d \in Events \ {e} : new[d] = events[d]
         /\ new[e].there = events[e].there /\ new[e].old = events[e].old /\ new[e].link = x
<1>1. events[e] \in [there : BOOLEAN, old : BOOLEAN, link : BOOLEAN]
  BY DEF Vault!TypeOK
<1>2. [events[e] EXCEPT !.link = x] \in [there : BOOLEAN, old : BOOLEAN, link : BOOLEAN]
  BY <1>1
<1> QED BY <1>1, <1>2 DEF Vault!TypeOK

LEMMA VaultSteps == VaultInv /\ [Vault!Next]_(Vault!vars) => VaultInv'
<1> SUFFICES ASSUME VaultInv, [Vault!Next]_(Vault!vars) PROVE VaultInv'
  OBVIOUS
<1> USE DEF VaultInv
<1>1. ASSUME NEW e \in Events, Vault!UploadFind(e) PROVE VaultInv'
  BY <1>1 DEF Vault!UploadFind, Vault!TypeOK, StoredByUpload, CleansOldFiles, LinkedOrMissed,
     Vault!NoDanglingLink
<1>2. ASSUME NEW e \in Events, Vault!UploadStore(e) PROVE VaultInv'
  BY <1>2 DEF Vault!UploadStore, Vault!TypeOK, StoredByUpload, CleansOldFiles, LinkedOrMissed,
     Vault!NoDanglingLink
<1>3. ASSUME NEW e \in Events, Vault!UploadLink(e) PROVE VaultInv'
  <2>1. Vault!TypeOK'
    BY <1>3 DEF Vault!UploadLink, Vault!TypeOK
  <2>2. StoredByUpload'
    BY <1>3 DEF Vault!UploadLink, Vault!TypeOK, StoredByUpload
  <2>3. CleansOldFiles'
    BY <1>3 DEF Vault!UploadLink, Vault!TypeOK, CleansOldFiles
  <2>4. LinkedOrMissed'
    BY <1>3 DEF Vault!UploadLink, Vault!TypeOK, LinkedOrMissed, StoredByUpload
  <2>5. Vault!NoDanglingLink'
    BY <1>3 DEF Vault!UploadLink, Vault!TypeOK, Vault!NoDanglingLink, CleansOldFiles
  <2> QED BY <2>1, <2>2, <2>3, <2>4, <2>5
<1>4. ASSUME NEW e \in Events, Vault!UploadFail(e) PROVE VaultInv'
  BY <1>4 DEF Vault!UploadFail, Vault!TypeOK, StoredByUpload, CleansOldFiles, LinkedOrMissed,
     Vault!NoDanglingLink
<1>5. ASSUME NEW e \in Events, NEW p \in Posts, Vault!PostFind(e, p) PROVE VaultInv'
  <2>1. /\ upload[e] # "idle" /\ UNCHANGED <<files, events, upload, cleaner, missed, rushed, orphaned>>
        /\ \A x \in Events \X Posts : x # <<e, p>> => post'[x] = post[x]
        /\ post'[<<e, p>>] = "bare" \/ (post'[<<e, p>>] = "linked" /\ files[e] # "none")
        /\ post' \in [Events \X Posts -> {"idle", "bare", "linked", "done"}]
    BY <1>5 DEF Vault!PostFind, Vault!Stored, Vault!TypeOK
  <2>2. Vault!TypeOK' /\ CleansOldFiles' /\ LinkedOrMissed' /\ Vault!NoDanglingLink'
    BY <2>1 DEF Vault!TypeOK, CleansOldFiles, LinkedOrMissed, Vault!NoDanglingLink
  <2>3. ASSUME NEW d \in Events, NEW q \in Posts
        PROVE  /\ post'[<<d, q>>] = "linked" => upload[d] \notin {"idle", "store", "storeAndLink"}
               /\ upload[d] = "idle" => post'[<<d, q>>] = "idle"
    BY <2>1 DEF StoredByUpload
  <2> QED BY <2>1, <2>2, <2>3 DEF StoredByUpload
<1>6. ASSUME NEW e \in Events, NEW p \in Posts, Vault!PostInsert(e, p) PROVE VaultInv'
  <2>1. /\ post[<<e, p>>] \in {"bare", "linked"} /\ post' = [post EXCEPT ![<<e, p>>] = "done"]
        /\ UNCHANGED <<files, upload, cleaner, vaultFaults, orphaned>>
    BY <1>6 DEF Vault!PostInsert
  <2>2. \A x \in Events \X Posts : post'[x] \in {post[x], "done"}
    BY <2>1 DEF Vault!TypeOK
  <2>3. StoredByUpload' /\ CleansOldFiles'
    <3>1. upload[e] # "idle"
      BY <2>1 DEF StoredByUpload
    <3> QED BY <2>1, <2>2, <3>1 DEF Vault!TypeOK, StoredByUpload, CleansOldFiles
  <2>4. CASE events[e].there
    BY <1>6, <2>1, <2>3, <2>4 DEF Vault!PostInsert, Vault!TypeOK, LinkedOrMissed,
       Vault!NoDanglingLink
  <2>5. CASE ~events[e].there
    <3> DEFINE linked == post[<<e, p>>] = "linked"
               row == [there |-> TRUE, old |-> FALSE, link |-> linked]
    <3>1. /\ events' = [events EXCEPT ![e] = row]
          /\ missed' = IF ~linked
               /\ upload[e] \in {"store", "done"} THEN missed \cup {e} ELSE missed \ {e}
          /\ rushed' = IF linked /\ files[e] = "gone" THEN rushed \cup {e} ELSE rushed \ {e}
      BY <1>6, <2>5 DEF Vault!PostInsert
    <3>2. row \in [there : BOOLEAN, old : BOOLEAN, link : BOOLEAN]
      BY Zenon
    <3>3. row.there /\ row.link = linked
      OBVIOUS
    <3>4. linked => upload[e] \notin {"idle", "store", "storeAndLink"}
      BY DEF StoredByUpload
    <3>5. /\ \A d \in Events \ {e} : events'[d] = events[d]
          /\ events'[e] = row
      BY <3>1 DEF Vault!TypeOK
    <3> HIDE DEF row
    <3>6. Vault!TypeOK'
      BY <2>1, <3>1, <3>2 DEF Vault!TypeOK
    <3>7. LinkedOrMissed'
      BY <2>1, <3>1, <3>3, <3>4, <3>5 DEF LinkedOrMissed
    <3>8. Vault!NoDanglingLink'
      BY <2>1, <3>1, <3>3, <3>5 DEF Vault!NoDanglingLink
    <3> QED BY <2>3, <3>6, <3>7, <3>8
  <2> QED BY <2>4, <2>5
<1>7. ASSUME NEW e \in Events, Vault!FileAges(e) PROVE VaultInv'
  BY <1>7 DEF Vault!FileAges, Vault!TypeOK, StoredByUpload, CleansOldFiles, LinkedOrMissed,
     Vault!NoDanglingLink
<1>8. ASSUME NEW e \in Events, Vault!EventAges(e) PROVE VaultInv'
  <2> DEFINE row == [events[e] EXCEPT !.old = TRUE]
  <2>1. /\ row \in [there : BOOLEAN, old : BOOLEAN, link : BOOLEAN]
        /\ row.there = events[e].there /\ row.link = events[e].link
    BY DEF Vault!TypeOK
  <2>2. /\ events' = [events EXCEPT ![e] = row]
        /\ UNCHANGED <<files, upload, post, cleaner, vaultFaults, missed, rushed, orphaned>>
    BY <1>8 DEF Vault!EventAges
  <2> HIDE DEF row
  <2>3. Vault!TypeOK' /\ \A d \in Events : /\ events'[d].there = events[d].there
                                     /\ events'[d].link = events[d].link
    BY <2>1, <2>2 DEF Vault!TypeOK
  <2> QED
    BY <2>2, <2>3 DEF StoredByUpload, CleansOldFiles, LinkedOrMissed, Vault!NoDanglingLink
<1>9. CASE Vault!DeleteOldEvents
  <2>1. Vault!TypeOK'
    BY <1>9 DEF Vault!DeleteOldEvents, Vault!Gone, Vault!TypeOK
  <2>2. StoredByUpload'
    BY <1>9 DEF Vault!DeleteOldEvents, Vault!Gone, Vault!TypeOK, StoredByUpload
  <2>3. CleansOldFiles'
    BY <1>9 DEF Vault!DeleteOldEvents, Vault!Gone, Vault!TypeOK, CleansOldFiles
  <2>4. LinkedOrMissed'
    BY <1>9 DEF Vault!DeleteOldEvents, Vault!Gone, Vault!TypeOK, LinkedOrMissed, StoredByUpload
  <2>5. Vault!NoDanglingLink'
    BY <1>9 DEF Vault!DeleteOldEvents, Vault!Gone, Vault!TypeOK, Vault!NoDanglingLink,
       CleansOldFiles
  <2> QED BY <2>1, <2>2, <2>3, <2>4, <2>5
<1>10. CASE Vault!ClearAllEvents
  <2>1. Vault!TypeOK'
    BY <1>10 DEF Vault!ClearAllEvents, Vault!Gone, Vault!TypeOK
  <2>2. StoredByUpload'
    BY <1>10 DEF Vault!ClearAllEvents, Vault!Gone, Vault!TypeOK, StoredByUpload
  <2>3. CleansOldFiles'
    BY <1>10 DEF Vault!ClearAllEvents, Vault!Gone, Vault!TypeOK, CleansOldFiles
  <2>4. LinkedOrMissed'
    BY <1>10 DEF Vault!ClearAllEvents, Vault!Gone, Vault!TypeOK, LinkedOrMissed, StoredByUpload
  <2>5. Vault!NoDanglingLink'
    BY <1>10 DEF Vault!ClearAllEvents, Vault!Gone, Vault!TypeOK, Vault!NoDanglingLink,
       CleansOldFiles
  <2> QED BY <2>1, <2>2, <2>3, <2>4, <2>5
<1>11. CASE Vault!CleanupFind
  <2>1. Vault!TypeOK'
    BY <1>11, VaultAssumption DEF Vault!CleanupFind, Vault!TypeOK
  <2>2. StoredByUpload'
    BY <1>11, VaultAssumption DEF Vault!CleanupFind, Vault!TypeOK, StoredByUpload
  <2>3. CleansOldFiles'
    BY <1>11, VaultAssumption DEF Vault!CleanupFind, Vault!TypeOK, CleansOldFiles
  <2>4. LinkedOrMissed'
    BY <1>11, VaultAssumption DEF Vault!CleanupFind, Vault!TypeOK, LinkedOrMissed, StoredByUpload
  <2>5. Vault!NoDanglingLink'
    BY <1>11, VaultAssumption DEF Vault!CleanupFind, Vault!TypeOK, Vault!NoDanglingLink,
       CleansOldFiles
  <2> QED BY <2>1, <2>2, <2>3, <2>4, <2>5
<1>12. ASSUME NEW e \in Events, Vault!CleanupDelete(e) PROVE VaultInv'
  <2>1. Vault!TypeOK'
    BY <1>12, VaultAssumption DEF Vault!CleanupDelete, Vault!TypeOK, CleansOldFiles
  <2>2. StoredByUpload'
    BY <1>12, VaultAssumption DEF Vault!CleanupDelete, Vault!TypeOK, StoredByUpload
  <2>3. CleansOldFiles'
    BY <1>12, VaultAssumption DEF Vault!CleanupDelete, Vault!TypeOK, CleansOldFiles
  <2>4. LinkedOrMissed'
    BY <1>12, VaultAssumption DEF Vault!CleanupDelete, Vault!TypeOK, LinkedOrMissed,
       StoredByUpload
  <2>5. Vault!NoDanglingLink'
    BY <1>12, VaultAssumption DEF Vault!CleanupDelete, Vault!TypeOK, Vault!NoDanglingLink,
       CleansOldFiles
  <2> QED BY <2>1, <2>2, <2>3, <2>4, <2>5
<1>13. ASSUME NEW e \in Events, Vault!CleanupUnlink(e) PROVE VaultInv'
  <2>1. Vault!TypeOK'
    BY <1>13, VaultAssumption, LinkTyped DEF Vault!CleanupUnlink, Vault!TypeOK, CleansOldFiles
  <2>2. StoredByUpload'
    BY <1>13, VaultAssumption DEF Vault!CleanupUnlink, Vault!TypeOK, StoredByUpload
  <2>3. CleansOldFiles'
    BY <1>13, VaultAssumption DEF Vault!CleanupUnlink, Vault!TypeOK, CleansOldFiles
  <2>4. LinkedOrMissed'
    BY <1>13, VaultAssumption, LinkTyped DEF Vault!CleanupUnlink, Vault!TypeOK, LinkedOrMissed,
       CleansOldFiles
  <2>5. Vault!NoDanglingLink'
    BY <1>13, VaultAssumption DEF Vault!CleanupUnlink, Vault!TypeOK, Vault!NoDanglingLink,
       CleansOldFiles
  <2> QED BY <2>1, <2>2, <2>3, <2>4, <2>5
<1>14. CASE Vault!CleanupDies
  <2>1. Vault!TypeOK'
    BY <1>14, VaultAssumption DEF Vault!CleanupDies, Vault!NoCleaning, Vault!TypeOK
  <2>2. StoredByUpload'
    BY <1>14, VaultAssumption DEF Vault!CleanupDies, Vault!NoCleaning, Vault!TypeOK,
       StoredByUpload
  <2>3. CleansOldFiles'
    BY <1>14, VaultAssumption DEF Vault!CleanupDies, Vault!NoCleaning, Vault!TypeOK,
       CleansOldFiles
  <2>4. LinkedOrMissed'
    BY <1>14, VaultAssumption DEF Vault!CleanupDies, Vault!NoCleaning, Vault!TypeOK,
       LinkedOrMissed, StoredByUpload
  <2>5. Vault!NoDanglingLink'
    BY <1>14, VaultAssumption DEF Vault!CleanupDies, Vault!NoCleaning, Vault!TypeOK,
       Vault!NoDanglingLink, CleansOldFiles
  <2> QED BY <2>1, <2>2, <2>3, <2>4, <2>5
<1>15. CASE UNCHANGED Vault!vars
  BY <1>15 DEF Vault!vars, Vault!TypeOK, StoredByUpload, CleansOldFiles, LinkedOrMissed,
     Vault!NoDanglingLink
<1> QED
  BY <1>1, <1>2, <1>3, <1>4, <1>5, <1>6, <1>7, <1>8, <1>9, <1>10, <1>11, <1>12, <1>13, <1>14,
     <1>15 DEF Vault!Next

LEMMA VaultKept == VaultInv => Vault!FileIsLinked /\ Vault!NoDanglingLink
<1> SUFFICES ASSUME VaultInv PROVE Vault!FileIsLinked
  BY DEF VaultInv
<1>1. \A e \in Events : events[e].there /\ upload[e] = "done" /\ files[e] = "new" /\ e \notin missed
                          => events[e].link
  BY DEF VaultInv, LinkedOrMissed
<1> QED BY <1>1 DEF VaultInv, Vault!FileIsLinked, Vault!Downloadable, Vault!Stored

\* A behaviour of the server is one of its vault's.
LEMMA VaultRuns == ServerSpec => Vault!Spec
<1>1. ServerInit => Vault!Init
  BY DEF ServerInit
<1>2. [ServerNext]_serverVars => [Vault!Next]_(Vault!vars)
  BY DEF ServerNext, Runs, Picked, serverVars, vaultVars, Vault!vars
<1> QED BY <1>1, <1>2, PTL DEF ServerSpec, Vault!Spec

LEMMA VaultHolds == ServerSpec => []VaultInv
<1>1. Vault!Init => VaultInv
  BY VaultBegins
<1>2. VaultInv /\ [Vault!Next]_(Vault!vars) => VaultInv'
  BY VaultSteps
<1> QED BY <1>1, <1>2, VaultRuns, PTL DEF Vault!Spec

\* Whatever the order of an upload, its event's posts and the steps of the
\* cleanup, a stored file is linked to its event and no link is dead, but for
\* those the vault's own properties name (upload_file, post_event, cleanup).
THEOREM LinksMatchFilesHolds == ServerSpec => []LinksMatchFiles
<1>1. VaultInv => LinksMatchFiles
  BY VaultKept DEF LinksMatchFiles
<1> QED BY <1>1, VaultHolds, PTL

-----------------------------------------------------------------------------
(* The switches of the device page *)

\* Cardinality is the same operator in the instance as here.
LEMMA ControlCounts == \A S : Control!Cardinality(S) = Cardinality(S)
BY DEF Control!Cardinality, Cardinality

\* The unique index: one live row of the reserved name.  A row that nobody made
\* or edited on the Policies tab has that name.  A toggle works on a row there is.
NameIsUnique ==
  /\ \A r, s \in DOMAIN policies :
       policies[r].reserved /\ policies[s].reserved /\ Control!Live(r) /\ Control!Live(s) => r = s
  /\ \A r \in DOMAIN policies : policies[r].made \/ policies[r].reserved
  /\ \A a \in Admins : toggle[a].row \in 0 .. Len(policies)

ControlInv == Control!TypeOK /\ NameIsUnique

LEMMA HighestTyped == Control!Highest \in Priorities
BY ControlAssumption DEF Control!Highest

LEMMA ControlBegins == Control!Init => ControlInv
<1> SUFFICES ASSUME Control!Init PROVE ControlInv
  OBVIOUS
<1>1. policies \in Seq(Control!Row) /\ Len(policies) = 0 /\ DOMAIN policies = {}
  BY EmptySeq DEF Control!Init
<1> QED
  BY <1>1, ControlAssumption DEF Control!Init, ControlInv, Control!TypeOK, NameIsUnique,
     Control!Idle

\* The table keeps the invariant when one row of it is written over by a row of
\* the same name that is dead, or was alive, or is alone of its name, ...
LEMMA RowWritten ==
  ASSUME ControlInv, NEW r \in DOMAIN policies, NEW row \in Control!Row,
         policies' = [policies EXCEPT ![r] = row],
         row.reserved = policies[r].reserved, row.made \/ row.made = policies[r].made,
         ~row.deleted => Control!Live(r) \/ ~Control!Taken(r)
  PROVE  /\ policies' \in Seq(Control!Row) /\ Len(policies') = Len(policies)
         /\ \A p, s \in DOMAIN policies' :
              policies'[p].reserved /\ policies'[s].reserved
                /\ ~policies'[p].deleted /\ ~policies'[s].deleted => p = s
         /\ \A p \in DOMAIN policies' : policies'[p].made \/ policies'[p].reserved
<1>1. policies \in Seq(Control!Row) /\ DOMAIN policies = 1 .. Len(policies)
  BY LenProperties DEF ControlInv, Control!TypeOK
<1>2. /\ policies' \in Seq(Control!Row) /\ Len(policies') = Len(policies)
      /\ \A p \in DOMAIN policies : policies'[p] = IF p = r THEN row ELSE policies[p]
  BY <1>1, ExceptSeq
<1>3. DOMAIN policies' = DOMAIN policies
  BY <1>1, <1>2, LenProperties
<1>4. ASSUME NEW p \in DOMAIN policies', NEW s \in DOMAIN policies',
             policies'[p].reserved, policies'[s].reserved,
             ~policies'[p].deleted, ~policies'[s].deleted
      PROVE  p = s
  BY <1>2, <1>3, <1>4 DEF ControlInv, NameIsUnique, Control!Live, Control!Taken, Control!Named
<1>5. ASSUME NEW p \in DOMAIN policies'
      PROVE  policies'[p].made \/ policies'[p].reserved
  BY <1>2, <1>3 DEF ControlInv, NameIsUnique
<1> QED BY <1>2, <1>4, <1>5

\* ... and when a row is appended that is not of the reserved name, or alone.
LEMMA RowAppended ==
  ASSUME ControlInv, NEW row \in Control!Row, policies' = Append(policies, row),
         row.made \/ row.reserved, row.reserved => ~Control!Taken(0)
  PROVE  /\ policies' \in Seq(Control!Row) /\ Len(policies') = Len(policies) + 1
         /\ \A p, s \in DOMAIN policies' :
              policies'[p].reserved /\ policies'[s].reserved
                /\ ~policies'[p].deleted /\ ~policies'[s].deleted => p = s
         /\ \A p \in DOMAIN policies' : policies'[p].made \/ policies'[p].reserved
<1>1. policies \in Seq(Control!Row) /\ Len(policies) \in Nat /\ DOMAIN policies = 1 .. Len(policies)
  BY LenProperties DEF ControlInv, Control!TypeOK
<1>2. /\ policies' \in Seq(Control!Row) /\ Len(policies') = Len(policies) + 1
      /\ \A p \in DOMAIN policies : policies'[p] = policies[p]
      /\ policies'[Len(policies) + 1] = row
  BY <1>1, AppendProperties
<1>3. DOMAIN policies' = DOMAIN policies \cup {Len(policies) + 1}
  BY <1>1, <1>2, LenProperties
<1>4. ASSUME NEW p \in DOMAIN policies', NEW s \in DOMAIN policies',
             policies'[p].reserved, policies'[s].reserved,
             ~policies'[p].deleted, ~policies'[s].deleted
      PROVE  p = s
  <2>1. row.reserved => \A t \in DOMAIN policies : ~(policies[t].reserved /\ Control!Live(t))
    BY <1>1 DEF Control!Taken, Control!Named
  <2> QED BY <1>2, <1>3, <1>4, <2>1 DEF ControlInv, NameIsUnique, Control!Live
<1>5. ASSUME NEW p \in DOMAIN policies'
      PROVE  policies'[p].made \/ policies'[p].reserved
  BY <1>2, <1>3 DEF ControlInv, NameIsUnique
<1> QED BY <1>2, <1>4, <1>5

LEMMA ControlSteps == ControlInv /\ [Control!Next]_(Control!vars) => ControlInv'
<1> SUFFICES ASSUME ControlInv, [Control!Next]_(Control!vars) PROVE ControlInv'
  OBVIOUS
<1>r. ASSUME NEW row \in 0 .. Len(policies) PROVE row \in 0 .. MaxPolicies
  BY ControlAssumption, LenProperties DEF ControlInv, Control!TypeOK
<1>i. Control!Idle \in [step : {"idle", "byName", "commit"}, row : 0 .. MaxPolicies,
                 on : BOOLEAN, revive : BOOLEAN] /\ Control!Idle.row = 0
  BY ControlAssumption DEF Control!Idle
<1>t. /\ policies \in Seq(Control!Row) /\ Len(policies) \in Nat /\ DOMAIN policies = 1 .. Len(policies)
      /\ \A r \in DOMAIN policies : policies[r] \in Control!Row
      /\ \A a \in Admins : toggle[a].row \in 0 .. Len(policies)
  BY LenProperties, ElementOfSeq DEF ControlInv, Control!TypeOK, NameIsUnique
<1>1. ASSUME NEW a \in Admins, NEW on \in BOOLEAN, Control!ToggleLook(a, on) PROVE ControlInv'
  <2> DEFINE Asked(r, step) == [step |-> step, row |-> r, on |-> on, revive |-> FALSE]
  <2>1. PICK r \in 0 .. Len(policies), step \in {"commit", "byName"} :
          toggle' = [toggle EXCEPT ![a] = Asked(r, step)]
    BY <1>1, <1>t DEF Control!ToggleLook, Control!First, Control!Controls
  <2>2. Asked(r, step).row = r /\ Asked(r, step) \in
          [step : {"idle", "byName", "commit"}, row : 0 .. MaxPolicies, on : BOOLEAN, revive : BOOLEAN]
    BY <1>r
  <2>3. toggles < MaxToggles /\ toggles' = toggles + 1 /\ UNCHANGED <<policies, edits>>
    BY <1>1 DEF Control!ToggleLook
  <2> HIDE DEF Asked
  <2> QED BY <1>t, <2>1, <2>2, <2>3, ControlAssumption DEF ControlInv, Control!TypeOK,
             NameIsUnique, Control!Live
<1>2. ASSUME NEW a \in Admins, Control!ToggleByName(a) PROVE ControlInv'
  <2>1. Control!Cardinality(Control!Named) = 1
          => (CHOOSE r \in Control!Named : TRUE) \in 1 .. Len(policies)
    <3>1. Control!Cardinality(Control!Named) = 1 => Control!Named # {}
      BY FS_EmptySet, ControlCounts
    <3>2. Control!Named # {} => (CHOOSE r \in Control!Named : TRUE) \in Control!Named
      OBVIOUS
    <3> QED BY <1>t, <3>1, <3>2 DEF Control!Named
  <2> DEFINE found == CHOOSE r \in Control!Named : TRUE
             new == [toggle[a] EXCEPT !.step = "commit"]
             old == [toggle[a] EXCEPT !.step = "commit", !.row = found, !.revive = TRUE]
  <2>a. toggle[a] \in [step : {"idle", "byName", "commit"}, row : 0 .. MaxPolicies,
                        on : BOOLEAN, revive : BOOLEAN]
    BY DEF ControlInv, Control!TypeOK
  <2>b. new.row = toggle[a].row /\ new \in
          [step : {"idle", "byName", "commit"}, row : 0 .. MaxPolicies, on : BOOLEAN, revive : BOOLEAN]
    BY <2>a
  <2>c. ASSUME Control!Cardinality(Control!Named) = 1
        PROVE  old.row = found /\ found \in 0 .. Len(policies) /\ old \in
          [step : {"idle", "byName", "commit"}, row : 0 .. MaxPolicies, on : BOOLEAN, revive : BOOLEAN]
    <3>1. found \in 0 .. Len(policies)
      BY <1>t, <2>1, <2>c
    <3>2. found \in 0 .. MaxPolicies
      BY <3>1, <1>r
    <3> HIDE DEF found
    <3> QED BY <2>a, <3>1, <3>2
  <2>d. \/ toggle' = [toggle EXCEPT ![a] = new]
        \/ toggle' = [toggle EXCEPT ![a] = old] /\ Control!Cardinality(Control!Named) = 1
        \/ toggle' = [toggle EXCEPT ![a] = Control!Idle]
    <3>1. CASE Control!Named = {}
      <4>1. Control!Cardinality(Control!Named) # 1
        BY <3>1, FS_EmptySet, ControlCounts
      <4> QED BY <1>2, <3>1, <4>1 DEF Control!ToggleByName
    <3>2. CASE Control!Cardinality(Control!Named) = 1
      <4>1. Control!Named # {}
        BY <3>2, FS_EmptySet, ControlCounts
      <4> QED BY <1>2, <3>2, <4>1 DEF Control!ToggleByName
    <3>3. CASE Control!Named # {} /\ Control!Cardinality(Control!Named) # 1
      BY <1>2, <3>3 DEF Control!ToggleByName
    <3> QED BY <3>1, <3>2, <3>3
  <2> HIDE DEF new, old, found
  <2>2. toggle'[a].row \in 0 .. Len(policies) /\ toggle' \in
          [Admins -> [step : {"idle", "byName", "commit"}, row : 0 .. MaxPolicies,
                      on : BOOLEAN, revive : BOOLEAN]]
    BY <1>t, <1>i, <2>1, <2>b, <2>c, <2>d DEF ControlInv, Control!TypeOK
  <2>3. \A b \in Admins : toggle'[b].row \in 0 .. Len(policies)
    BY <1>t, <1>i, <2>2, <2>d DEF ControlInv, Control!TypeOK
  <2> QED BY <1>2, <1>t, <2>2, <2>3 DEF Control!ToggleByName, ControlInv, Control!TypeOK,
             NameIsUnique, Control!Live
<1>3. ASSUME NEW a \in Admins, Control!ToggleUpdate(a) PROVE ControlInv'
  <2> DEFINE r == toggle[a].row
             on == toggle[a].on
             set == [policies[r] EXCEPT !.active = on]
             revived == [policies[r] EXCEPT !.active = on, !.control = TRUE, !.deleted = FALSE]
  <2>1. r \in DOMAIN policies /\ on \in BOOLEAN /\ policies[r] \in Control!Row
    BY <1>3, <1>t DEF Control!ToggleUpdate, ControlInv, Control!TypeOK
  <2>2. /\ set \in Control!Row /\ set.reserved = policies[r].reserved /\ set.made = policies[r].made
        /\ set.deleted = policies[r].deleted
        /\ revived \in Control!Row /\ revived.reserved = policies[r].reserved
        /\ revived.made = policies[r].made
    BY <2>1 DEF Control!Row
  <2>3. \/ policies' = policies
        \/ policies' = [policies EXCEPT ![r] = set]
        \/ policies' = [policies EXCEPT ![r] = revived] /\ ~Control!Taken(r)
    BY <1>3 DEF Control!ToggleUpdate
  <2>4. /\ toggle' = [toggle EXCEPT ![a] = Control!Idle] /\ UNCHANGED <<edits, toggles>>
    BY <1>3 DEF Control!ToggleUpdate
  <2> HIDE DEF r, on, set, revived
  <2>5. ASSUME policies' = policies PROVE ControlInv'
    BY <1>t, <1>i, <2>4, <2>5 DEF ControlInv, Control!TypeOK, NameIsUnique, Control!Live
  <2>6. ASSUME policies' # policies PROVE ControlInv'
    <3>1. PICK row \in Control!Row :
            /\ policies' = [policies EXCEPT ![r] = row]
            /\ row.reserved = policies[r].reserved /\ row.made = policies[r].made
            /\ ~row.deleted => Control!Live(r) \/ ~Control!Taken(r)
      BY <2>2, <2>3, <2>6 DEF Control!Live
    <3>2. /\ policies' \in Seq(Control!Row) /\ Len(policies') = Len(policies)
          /\ \A p, s \in DOMAIN policies' :
               policies'[p].reserved /\ policies'[s].reserved
                 /\ ~policies'[p].deleted /\ ~policies'[s].deleted => p = s
          /\ \A p \in DOMAIN policies' : policies'[p].made \/ policies'[p].reserved
      BY <2>1, <3>1, RowWritten
    <3> QED BY <1>t, <1>i, <2>4, <3>2 DEF ControlInv, Control!TypeOK, NameIsUnique, Control!Live
  <2> QED BY <2>5, <2>6
<1>4. ASSUME NEW a \in Admins, Control!ToggleInsert(a) PROVE ControlInv'
  <2> DEFINE row == [reserved |-> TRUE, control |-> TRUE, active |-> toggle[a].on,
                     deleted |-> FALSE, priority |-> Control!Highest, made |-> FALSE]
  <2>1. row \in Control!Row /\ row.reserved
    BY HighestTyped DEF ControlInv, Control!TypeOK, Control!Row
  <2>2. /\ policies' = policies \/ (policies' = Append(policies, row) /\ ~Control!Taken(0))
        /\ Len(policies) < MaxPolicies
        /\ toggle' = [toggle EXCEPT ![a] = Control!Idle] /\ UNCHANGED <<edits, toggles>>
    BY <1>4 DEF Control!ToggleInsert
  <2> HIDE DEF row
  <2>3. ASSUME policies' = policies PROVE ControlInv'
    BY <1>t, <1>i, <2>2, <2>3 DEF ControlInv, Control!TypeOK, NameIsUnique, Control!Live
  <2>4. ASSUME policies' # policies PROVE ControlInv'
    BY <1>t, <1>i, <2>1, <2>2, <2>4, RowAppended, ControlAssumption DEF ControlInv,
       Control!TypeOK, NameIsUnique, Control!Live
  <2> QED BY <2>3, <2>4
<1>5. ASSUME NEW row \in Control!TabRow, Control!TabCreate(row) PROVE ControlInv'
  BY <1>5, <1>t, RowAppended, ControlAssumption DEF Control!TabRow, Control!TabCreate,
     ControlInv, Control!TypeOK, NameIsUnique, Control!Live
<1>6. ASSUME NEW r \in DOMAIN policies, NEW row \in Control!TabRow, Control!TabUpdate(r, row)
      PROVE  ControlInv'
  BY <1>6, <1>t, RowWritten, ControlAssumption DEF Control!TabRow, Control!TabUpdate, ControlInv,
     Control!TypeOK, NameIsUnique, Control!Live
<1>7. ASSUME NEW r \in DOMAIN policies, Control!TabDelete(r) PROVE ControlInv'
  <2> DEFINE row == [policies[r] EXCEPT !.deleted = TRUE, !.active = FALSE]
  <2>1. row \in Control!Row /\ row.reserved = policies[r].reserved /\ row.made = policies[r].made
        /\ row.deleted
    BY <1>t DEF Control!Row
  <2>2. policies' = [policies EXCEPT ![r] = row] /\ edits < MaxEdits /\ edits' = edits + 1
        /\ UNCHANGED <<toggle, toggles>>
    BY <1>7 DEF Control!TabDelete
  <2> HIDE DEF row
  <2> QED
    BY <1>t, <2>1, <2>2, RowWritten, ControlAssumption DEF ControlInv, Control!TypeOK,
       NameIsUnique, Control!Live
<1>8. CASE UNCHANGED Control!vars
  BY <1>8 DEF Control!vars, ControlInv, Control!TypeOK, NameIsUnique, Control!Live
<1> QED BY <1>1, <1>2, <1>3, <1>4, <1>5, <1>6, <1>7, <1>8 DEF Control!Next

LEMMA OneSwitchRow == ControlInv => Control!TogglesShareOneRow
<1> SUFFICES ASSUME ControlInv PROVE Control!TogglesShareOneRow
  OBVIOUS
<1> DEFINE named == {r \in Control!Controls : ~policies[r].made}
<1>1. \A r, s \in named : r = s
  BY DEF Control!Controls, ControlInv, NameIsUnique
<1>2. named = {} \/ \E r : named = {r}
  BY <1>1
<1> HIDE DEF named
<1>3. Control!Cardinality(named) <= 1
  <2>1. CASE named = {}
    BY <2>1, FS_EmptySet, ControlCounts
  <2>2. ASSUME NEW r, named = {r} PROVE Control!Cardinality(named) <= 1
    BY <2>2, FS_Singleton, ControlCounts
  <2> QED BY <1>2, <2>1, <2>2
<1> QED BY <1>3 DEF named, Control!TogglesShareOneRow

\* A behaviour of the server is one of its switches'.
LEMMA ControlRuns == ServerSpec => Control!Spec
<1>1. ServerInit => Control!Init
  BY DEF ServerInit
<1>2. [ServerNext]_serverVars => [Control!Next]_(Control!vars)
  BY DEF ServerNext, Runs, Picked, serverVars, controlVars, Control!vars
<1> QED BY <1>1, <1>2, PTL DEF ServerSpec, Control!Spec

LEMMA ControlHolds == ServerSpec => []ControlInv
<1>1. Control!Init => ControlInv
  BY ControlBegins
<1>2. ControlInv /\ [Control!Next]_(Control!vars) => ControlInv'
  BY ControlSteps
<1> QED BY <1>1, <1>2, ControlRuns, PTL DEF Control!Spec

-----------------------------------------------------------------------------
(* The page of seen devices *)

\* A report is of a move that was made, and the report of the last one is so.
Fits(s, r) ==
  /\ r.at <= plugged[s].at
  /\ r.at = plugged[s].at =>
       /\ r.event = "connect" => plugged[s].place = r.agent
       /\ r.event = "disconnect" => plugged[s].place = "out"

\* The last move of a stick was reported, or its report is under way, or the
\* stick is astray.
LastMoveIsReported ==
  /\ \A s \in Serials : plugged[s].at <= moves /\ Fits(s, latest[s])
  /\ \A r \in sent : Fits(r.serial, r)
  /\ \A s \in Serials \ astray :
       latest[s].at = plugged[s].at \/ \E r \in sent : r.serial = s /\ r.at = plugged[s].at

TriageInv == Triage!TypeOK /\ Triage!DecisionEndsDismissal /\ LastMoveIsReported

LEMMA TriageBegins == Triage!Init => TriageInv
<1> SUFFICES ASSUME Triage!Init PROVE TriageInv
  OBVIOUS
<1>1. Triage!TypeOK
  BY TriageAssumption DEF Triage!Init, Triage!TypeOK, Triage!NoRow, Triage!Free, Triage!NoReport
<1>2. Triage!DecisionEndsDismissal
  BY DEF Triage!Init, Triage!DecisionEndsDismissal
<1>3. LastMoveIsReported
  BY DEF Triage!Init, LastMoveIsReported, Fits, Triage!NoReport
<1> QED BY <1>1, <1>2, <1>3 DEF TriageInv

\* What the reports and the moves do not touch.
LEMMA SeenStands ==
  ASSUME LastMoveIsReported, UNCHANGED <<plugged, latest, sent, astray, moves>>
  PROVE  LastMoveIsReported'
BY DEF LastMoveIsReported, Fits

LEMMA ApprovalStands ==
  ASSUME Triage!TypeOK, NEW q \in Approvals, approval[q].step \in {"write", "clear"}
  PROVE  /\ approval[q] \in [step : {"write", "clear"}, serial : Serials,
                            decision : {"allow", "deny"}, found : BOOLEAN]
         /\ approval[q].serial \in Serials
BY DEF Triage!TypeOK, Triage!Free

LEMMA OneMoreLapse ==
  ASSUME Triage!TypeOK, NEW s \in Serials, NEW why \in Triage!Lapses,
         lapsed' = [lapsed EXCEPT ![s] = @ \cup {why}]
  PROVE  /\ lapsed' \in [Serials -> SUBSET Triage!Lapses]
         /\ lapsed'[s] # {} /\ \A t \in Serials \ {s} : lapsed'[t] = lapsed[t]
<1>1. lapsed \in [Serials -> SUBSET Triage!Lapses]
  BY DEF Triage!TypeOK
<1>2. lapsed[s] \cup {why} \in SUBSET Triage!Lapses /\ why \in lapsed[s] \cup {why}
  BY <1>1
<1>3. lapsed'[s] = lapsed[s] \cup {why}
  BY <1>1
<1> QED BY <1>1, <1>2, <1>3

LEMMA TriageSteps == TriageInv /\ [Triage!Next]_(Triage!vars) => TriageInv'
<1> SUFFICES ASSUME TriageInv, [Triage!Next]_(Triage!vars) PROVE TriageInv'
  OBVIOUS
<1> USE TriageAssumption DEF TriageInv
<1>1. ASSUME NEW q \in Approvals, NEW s \in Serials, NEW d \in {"allow", "deny"},
             Triage!Approve(q, s, d)
      PROVE  TriageInv'
  <2>1. Triage!TypeOK'
    BY <1>1 DEF Triage!Approve, Triage!Listed, Triage!TypeOK
  <2>2. Triage!DecisionEndsDismissal'
    BY <1>1 DEF Triage!Approve, Triage!DecisionEndsDismissal, Triage!TypeOK, Triage!Free
  <2> QED BY <1>1, <2>1, <2>2, SeenStands DEF Triage!Approve
<1>2. ASSUME NEW q \in Approvals, Triage!Write(q) PROVE TriageInv'
  <2> DEFINE r == approval[q]
             new == [r EXCEPT !.step = "clear"]
             row == [decision |-> r.decision, enabled |-> TRUE]
  <2>1. r.step = "write" /\ r.serial \in Serials /\ row \in Triage!Decided /\ new.serial = r.serial
        /\ new.step = "clear"
        /\ new \in [step : {"write", "clear"}, serial : Serials,
                    decision : {"allow", "deny"}, found : BOOLEAN]
    BY <1>2, ApprovalStands DEF Triage!Write, Triage!Decided
  <2>2. \/ /\ devices' = [devices EXCEPT ![r.serial] = row]
           /\ standing' = IF r.serial \in dismissed THEN standing \cup {r.serial} ELSE standing
           /\ approval' = [approval EXCEPT ![q] = new]
        \/ approval' = [approval EXCEPT ![q] = Triage!Free] /\ UNCHANGED <<devices, standing>>
    BY <1>2 DEF Triage!Write
  <2>3. UNCHANGED <<dismissed, latest, sent, plugged, online, astray, lapsed, ops, moves, faults>>
    BY <1>2 DEF Triage!Write
  <2> HIDE DEF r, new, row
  <2>4. Triage!TypeOK'
    <3>1. devices' \in [Serials -> Triage!Decided \cup {Triage!NoRow}] /\ standing' \subseteq Serials
      BY <2>1, <2>2 DEF Triage!TypeOK
    <3>2. approval' \in [Approvals -> {Triage!Free} \cup
             [step : {"write", "clear"}, serial : Serials, decision : {"allow", "deny"}, found : BOOLEAN]]
      BY <2>1, <2>2 DEF Triage!TypeOK
    <3> QED BY <3>1, <3>2, <2>3 DEF Triage!TypeOK
  <2>5. Triage!DecisionEndsDismissal'
    BY <2>1, <2>2, <2>3 DEF Triage!DecisionEndsDismissal, Triage!TypeOK, r
  <2> QED BY <2>3, <2>4, <2>5, SeenStands
<1>3. ASSUME NEW q \in Approvals, Triage!Clear(q) PROVE TriageInv'
  <2>1. approval[q].step = "clear" /\ approval[q].serial \in Serials
    BY <1>3, ApprovalStands DEF Triage!Clear
  <2>2. Triage!TypeOK'
    BY <1>3, <2>1 DEF Triage!Clear, Triage!Settled, Triage!TypeOK
  <2>3. Triage!DecisionEndsDismissal'
    BY <1>3, <2>1 DEF Triage!Clear, Triage!Settled, Triage!DecisionEndsDismissal, Triage!TypeOK
  <2> QED BY <1>3, <2>2, <2>3, SeenStands DEF Triage!Clear
<1>4. ASSUME NEW q \in Approvals, Triage!Abort(q) PROVE TriageInv'
  <2>1. approval[q] \in [step : {"write", "clear"}, serial : Serials,
                         decision : {"allow", "deny"}, found : BOOLEAN]
    BY <1>4 DEF Triage!Abort, Triage!TypeOK
  <2>2. /\ approval' = [approval EXCEPT ![q] = Triage!Free]
        /\ UNCHANGED <<devices, dismissed, latest, sent, plugged, online, astray, standing, ops, moves>>
        /\ faults < MaxFaults /\ faults' = faults + 1
    BY <1>4 DEF Triage!Abort
  <2>3. /\ lapsed' \in [Serials -> SUBSET Triage!Lapses]
        /\ \A t \in Serials : lapsed[t] # {} => lapsed'[t] # {}
        /\ \A t \in standing : approval[q].step = "clear" /\ approval[q].serial = t => lapsed'[t] # {}
    <3>1. CASE approval[q].step = "clear" /\ approval[q].serial \in standing
      <4>1. lapsed' = [lapsed EXCEPT ![approval[q].serial] = @ \cup {"cut_short"}]
        BY <1>4, <3>1 DEF Triage!Abort
      <4> QED BY <2>1, <4>1, OneMoreLapse DEF Triage!Lapses
    <3>2. CASE ~(approval[q].step = "clear" /\ approval[q].serial \in standing)
      <4>1. lapsed' = lapsed
        BY <1>4, <3>2 DEF Triage!Abort
      <4> QED BY <3>2, <4>1 DEF Triage!TypeOK
    <3> QED BY <3>1, <3>2
  <2>4. Triage!TypeOK'
    BY <2>1, <2>2, <2>3 DEF Triage!TypeOK
  <2>5. Triage!DecisionEndsDismissal'
    BY <2>1, <2>2, <2>3 DEF Triage!DecisionEndsDismissal, Triage!TypeOK
  <2> QED BY <2>2, <2>4, <2>5, SeenStands
<1>5. ASSUME NEW s \in Serials,
             Triage!Revoke(s) \/ Triage!Dismiss(s) \/ Triage!Restore(s)
               \/ \E row \in Triage!Decided : Triage!Update(s, row)
      PROVE  TriageInv'
  <2>1. CASE Triage!Revoke(s)
    BY <2>1, SeenStands DEF Triage!Revoke, Triage!TypeOK, Triage!DecisionEndsDismissal
  <2>2. CASE Triage!Dismiss(s) \/ Triage!Restore(s)
    <3>1. Triage!TypeOK'
      BY <2>2 DEF Triage!Dismiss, Triage!Restore, Triage!Settled, Triage!TypeOK
    <3>2. Triage!DecisionEndsDismissal'
      BY <2>2 DEF Triage!Dismiss, Triage!Restore, Triage!Settled, Triage!DecisionEndsDismissal,
         Triage!TypeOK
    <3> QED BY <2>2, <3>1, <3>2, SeenStands DEF Triage!Dismiss, Triage!Restore
  <2>3. ASSUME NEW row \in Triage!Decided, Triage!Update(s, row) PROVE TriageInv'
    <3>1. /\ devices' = [devices EXCEPT ![s] = row] /\ ops < MaxDecisions /\ ops' = ops + 1
          /\ \/ /\ s \in dismissed /\ standing' = standing \cup {s}
                /\ lapsed' = [lapsed EXCEPT ![s] = @ \cup {"in_place"}]
             \/ UNCHANGED <<standing, lapsed>>
          /\ UNCHANGED <<dismissed, approval, latest, sent, plugged, online, astray, moves, faults>>
      BY <2>3 DEF Triage!Update
    <3>2. /\ lapsed' \in [Serials -> SUBSET Triage!Lapses]
          /\ \A t \in standing' : t \in dismissed /\ ((t \in standing /\ lapsed'[t] = lapsed[t]) \/ lapsed'[t] # {})
          /\ standing' \subseteq Serials
      <4>1. CASE /\ s \in dismissed /\ standing' = standing \cup {s}
                 /\ lapsed' = [lapsed EXCEPT ![s] = @ \cup {"in_place"}]
        BY <4>1, OneMoreLapse DEF Triage!Lapses, Triage!TypeOK, Triage!DecisionEndsDismissal
      <4>2. CASE UNCHANGED <<standing, lapsed>>
        BY <4>2 DEF Triage!TypeOK, Triage!DecisionEndsDismissal
      <4> QED BY <3>1, <4>1, <4>2
    <3>3. Triage!TypeOK'
      <4>1. /\ devices' \in [Serials -> Triage!Decided \cup {Triage!NoRow}] /\ ops' \in 0 .. MaxDecisions
            /\ UNCHANGED <<dismissed, approval, latest, sent, plugged, online, astray, moves, faults>>
        BY <3>1 DEF Triage!TypeOK
      <4> QED BY <3>2, <4>1 DEF Triage!TypeOK
    <3>4. Triage!DecisionEndsDismissal'
      BY <3>1, <3>2 DEF Triage!DecisionEndsDismissal
    <3> QED BY <3>1, <3>3, <3>4, SeenStands
  <2> QED BY <1>5, <2>1, <2>2, <2>3
<1>6. ASSUME NEW s \in Serials, NEW place \in Agents \cup {"out"}, Triage!Move(s, place)
      PROVE  TriageInv'
  <2> DEFINE agent == IF place = "out" THEN plugged[s].place ELSE place
             event == IF place = "out" THEN "disconnect" ELSE "connect"
             new == [serial |-> s, agent |-> agent, event |-> event, at |-> moves + 1]
             where == [place |-> place, at |-> moves + 1]
  <2>1. /\ moves \in 0 .. MaxMoves - 1 /\ moves' = moves + 1
        /\ plugged' = [plugged EXCEPT ![s] = where]
        /\ \/ agent \in online /\ sent' = sent \cup {new} /\ astray' = astray
           \/ astray' = astray \cup {s} /\ sent' = sent
        /\ UNCHANGED <<devices, dismissed, approval, latest, online, standing, lapsed, ops, faults>>
    BY <1>6 DEF Triage!Move, Triage!TypeOK
  <2>2. agent \in online => new \in Triage!Report
    BY <2>1 DEF Triage!TypeOK, Triage!Report
  <2>3. where \in [place : Agents \cup {"out"}, at : 0 .. MaxMoves]
    BY <2>1
  <2>4. /\ new.serial = s /\ new.at = moves + 1 /\ new.agent = agent /\ new.event = event
        /\ where.at = moves + 1 /\ where.place = place
    OBVIOUS
  <2> HIDE DEF new, where
  <2>5. Triage!TypeOK'
    BY <2>1, <2>2, <2>3 DEF Triage!TypeOK
  <2>6. Triage!DecisionEndsDismissal'
    BY <2>1 DEF Triage!DecisionEndsDismissal
  <2>7. plugged'[s] = where /\ \A t \in Serials \ {s} : plugged'[t] = plugged[t]
    BY <2>1 DEF Triage!TypeOK
  <2>8. /\ \A t \in Serials : latest[t].at \in Nat /\ plugged[t].at \in Nat
        /\ \A r \in sent : r.at \in Nat /\ r.serial \in Serials
    BY DEF Triage!TypeOK, Triage!Report, Triage!NoReport
  <2>9. LastMoveIsReported'
    <3>1. ASSUME NEW t \in Serials PROVE (plugged[t].at <= moves /\ Fits(t, latest[t]))'
      BY <2>1, <2>4, <2>7, <2>8 DEF LastMoveIsReported, Fits, Triage!TypeOK
    <3>2. ASSUME NEW r \in sent' PROVE Fits(r.serial, r)'
      BY <2>1, <2>4, <2>7, <2>8 DEF LastMoveIsReported, Fits, Triage!TypeOK
    <3>3. ASSUME NEW t \in Serials \ astray'
          PROVE  (latest[t].at = plugged[t].at \/ \E r \in sent : r.serial = t /\ r.at = plugged[t].at)'
      BY <2>1, <2>4, <2>7 DEF LastMoveIsReported
    <3> QED BY <3>1, <3>2, <3>3 DEF LastMoveIsReported
  <2> QED BY <2>5, <2>6, <2>9
<1>7. ASSUME NEW r \in sent, Triage!Arrive(r) PROVE TriageInv'
  <2>1. r \in Triage!Report /\ r.serial \in Serials /\ r.at \in Nat
    BY DEF Triage!TypeOK, Triage!Report
  <2>2. Triage!TypeOK' /\ Triage!DecisionEndsDismissal'
    BY <1>7, <2>1 DEF Triage!Arrive, Triage!TypeOK, Triage!DecisionEndsDismissal
  <2>3. /\ \A t \in Serials : latest[t].at \in Nat /\ plugged[t].at \in Nat
        /\ latest'[r.serial] = r /\ \A t \in Serials \ {r.serial} : latest'[t] = latest[t]
    BY <1>7, <2>1 DEF Triage!Arrive, Triage!TypeOK, Triage!Report, Triage!NoReport
  <2>4. ASSUME NEW t \in Serials PROVE (plugged[t].at <= moves /\ Fits(t, latest[t]))'
    BY <1>7, <2>1, <2>3 DEF Triage!Arrive, LastMoveIsReported, Fits
  <2>5. ASSUME NEW p \in sent' PROVE Fits(p.serial, p)'
    BY <1>7 DEF Triage!Arrive, LastMoveIsReported, Fits
  <2>6. ASSUME NEW t \in Serials \ astray'
        PROVE  (latest[t].at = plugged[t].at \/ \E p \in sent : p.serial = t /\ p.at = plugged[t].at)'
    <3>1. CASE t = r.serial /\ r.at # plugged[t].at
      <4>1. t \notin astray /\ latest[t].at <= r.at /\ r.at <= plugged[t].at
        BY <1>7, <2>1, <2>3, <2>6, <3>1 DEF Triage!Arrive, LastMoveIsReported, Fits
      <4>2. PICK p \in sent : p.serial = t /\ p.at = plugged[t].at
        BY <2>1, <2>3, <3>1, <4>1 DEF LastMoveIsReported
      <4> QED BY <1>7, <3>1, <4>2 DEF Triage!Arrive
    <3>2. CASE t = r.serial /\ r.at = plugged[t].at
      BY <1>7, <2>3, <3>2 DEF Triage!Arrive
    <3>3. CASE t # r.serial
      BY <1>7, <2>3, <2>6, <3>3 DEF Triage!Arrive, LastMoveIsReported
    <3> QED BY <3>1, <3>2, <3>3
  <2> QED BY <2>2, <2>4, <2>5, <2>6 DEF LastMoveIsReported
<1>8. ASSUME NEW r \in sent, Triage!Vanish(r) PROVE TriageInv'
  <2>1. Triage!TypeOK' /\ Triage!DecisionEndsDismissal'
    BY <1>8 DEF Triage!Vanish, Triage!TypeOK, Triage!DecisionEndsDismissal, Triage!Report
  <2> QED BY <1>8, <2>1 DEF Triage!Vanish, LastMoveIsReported, Fits
<1>9. ASSUME NEW a \in Agents, Triage!Quiet(a) PROVE TriageInv'
  <2>1. Triage!TypeOK' /\ Triage!DecisionEndsDismissal'
    BY <1>9 DEF Triage!Quiet, Triage!TypeOK, Triage!DecisionEndsDismissal, Triage!Report
  <2> QED BY <1>9, <2>1 DEF Triage!Quiet, LastMoveIsReported, Fits
<1>10. ASSUME NEW a \in Agents, Triage!Heard(a) PROVE TriageInv'
  <2>1. Triage!TypeOK' /\ Triage!DecisionEndsDismissal'
    BY <1>10 DEF Triage!Heard, Triage!TypeOK, Triage!DecisionEndsDismissal
  <2> QED BY <1>10, <2>1, SeenStands DEF Triage!Heard
<1>11. CASE UNCHANGED Triage!vars
  BY <1>11, SeenStands DEF Triage!vars, Triage!TypeOK, Triage!DecisionEndsDismissal
<1> QED
  BY <1>1, <1>2, <1>3, <1>4, <1>5, <1>6, <1>7, <1>8, <1>9, <1>10, <1>11 DEF Triage!Next

LEMMA PageShowsPlaces == TriageInv => Triage!PageIsRightUnlessAstray
<1> SUFFICES ASSUME TriageInv, NEW s \in Serials \ astray, \A r \in sent : r.serial # s
             PROVE  /\ Triage!Shown(s) = "connected" => plugged[s].place = latest[s].agent
                                                 /\ plugged[s].place \in online
                    /\ Triage!Shown(s) = "disconnected" => plugged[s].place = "out"
  BY DEF Triage!PageIsRightUnlessAstray
<1>1. Fits(s, latest[s]) /\ latest[s].at = plugged[s].at
  BY DEF TriageInv, LastMoveIsReported
<1>2. /\ Triage!Shown(s) = "connected" => latest[s].event = "connect" /\ latest[s].agent \in online
      /\ Triage!Shown(s) = "disconnected" => latest[s].event = "disconnect"
  <2>1. latest[s].event \in {"none", "connect", "disconnect"}
    BY DEF TriageInv, Triage!TypeOK, Triage!Report, Triage!NoReport
  <2>2. CASE latest[s].event = "none"
    BY <2>2 DEF Triage!Shown
  <2>3. CASE latest[s].event = "disconnect"
    BY <2>3 DEF Triage!Shown
  <2>4. CASE latest[s].event = "connect" /\ latest[s].agent \in online
    BY <2>4 DEF Triage!Shown
  <2>5. CASE latest[s].event = "connect" /\ latest[s].agent \notin online
    BY <2>5 DEF Triage!Shown
  <2> QED BY <2>1, <2>2, <2>3, <2>4, <2>5
<1> QED BY <1>1, <1>2 DEF Fits

\* A behaviour of the server is one of its page's.
LEMMA TriageRuns == ServerSpec => Triage!Spec
<1>1. ServerInit => Triage!Init
  BY DEF ServerInit
<1>2. [ServerNext]_serverVars => [Triage!Next]_(Triage!vars)
  BY DEF ServerNext, Runs, Picked, serverVars, triageVars, Triage!vars
<1> QED BY <1>1, <1>2, PTL DEF ServerSpec, Triage!Spec

LEMMA TriageHolds == ServerSpec => []TriageInv
<1>1. Triage!Init => TriageInv
  BY TriageBegins
<1>2. TriageInv /\ [Triage!Next]_(Triage!vars) => TriageInv'
  BY TriageSteps
<1> QED BY <1>1, <1>2, TriageRuns, PTL DEF Triage!Spec

\* However switches, edits of policies, moves of sticks, reports and decisions
\* interleave, the device page's switch has one row, the page of seen devices
\* says where a stick is unless a report of it was lost or overtaken, and a
\* dismissal outlives a decision only if its approval was cut short or it was
\* changed in place (usb_device_control, usb_devices).
THEOREM DevicePagesAreRightHolds == ServerSpec => []DevicePagesAreRight
<1>1. ControlInv /\ TriageInv => DevicePagesAreRight
  BY OneSwitchRow, PageShowsPlaces DEF DevicePagesAreRight, TriageInv
<1> QED BY <1>1, ControlHolds, TriageHolds, PTL

-----------------------------------------------------------------------------
(* Accounts of the identity provider *)

\* Cardinality is the same operator in the instance as here.
LEMMA AccountsCounts == \A S : Accounts!Cardinality(S) = Cardinality(S)
BY DEF Accounts!Cardinality, Cardinality

HasRow(i) == rows[i] \in Accounts!Rows

\* One account per identity, at an address of its person.
IdentitiesApart ==
  \A i, j \in Accounts!Ids : (HasRow(i) /\ rows[i].sub # Accounts!NoRole) =>
    /\ rows[i].email \in Own(rows[i].sub)
    /\ (HasRow(j) /\ rows[j].sub = rows[i].sub) => i = j

\* An account that is p's or that p may claim.
Mine(i, p) == HasRow(i)
  /\ (rows[i].sub = p \/ (rows[i].sub = Accounts!NoRole /\ rows[i].email \in Own(p)))

\* What an exchange has of its account, however old, is true of the account's owner.
LoginKnows(l) ==
  LET me == login[l] IN
    /\ me.at \in {"find", "check", "insert", "reconcile"} => me.email \in Own(me.p)
    /\ me.at \in {"reconcile", "sync", "in"} => rows[me.id] # Accounts!None
    /\ me.at = "reconcile" =>
         /\ rows[me.id] = Accounts!Gone \/ Mine(me.id, me.p)
         /\ me.row.sub = me.p \/ (me.row.sub = Accounts!NoRole /\ ~me.bySub)
         /\ me.row.sub = me.p => (rows[me.id] = Accounts!Gone \/ rows[me.id].sub = me.p)
         /\ ~me.lost
    /\ (me.at = "sync" /\ ~me.lost) => (rows[me.id] = Accounts!Gone \/ rows[me.id].sub = me.p)

LetIn == \A p \in People : \A i \in got[p] : HasRow(i) /\ rows[i].sub = p
SiemKnows == \A p \in People : siem[p].email \in Own(p)

\* An account whose role was given by hand is the sync's no more, and neither is
\* what an exchange has of it.
Detached ==
  /\ \A i \in Accounts!Ids : pinned[i] # Accounts!NoRole => HasRow(i)
  /\ \A i \in Accounts!Ids : (pinned[i] # Accounts!NoRole /\ i \notin passed) => ~rows[i].managed
       /\ rows[i].role = pinned[i]
LoginHolds(l) ==
  LET me == login[l] IN
    (me.at \in {"reconcile", "sync"} /\ pinned[me.id] # Accounts!NoRole /\ me.id \notin passed)
      => ~me.row.managed

AccountsInv ==
  Accounts!TypeOK /\ IdentitiesApart /\ LetIn /\ SiemKnows /\ Detached
    /\ \A l \in Logins : LoginKnows(l) /\ LoginHolds(l)

-----------------------------------------------------------------------------
LEMMA NotRows == Accounts!None # Accounts!Gone /\ Accounts!None \notin Accounts!Rows
    /\ Accounts!Gone \notin Accounts!Rows
BY DEF Accounts!None, Accounts!Gone, Accounts!Rows

NamedTheirs == [at : {"find", "check", "insert"}, p : People, email : Accounts!Emails, role : Accounts!Roles]
Loading == [at : {"reconcile", "sync", "in"}, p : People, email : Accounts!Emails, role : Accounts!Roles, id : Accounts!Ids,
            row : Accounts!Rows, bySub : BOOLEAN, lost : BOOLEAN]

LEMMA LoginTypes ==
  ASSUME Accounts!TypeOK, NEW l \in Logins
  PROVE  /\ login[l].at \in {"find", "check", "insert"} => login[l] \in NamedTheirs
         /\ login[l].at \in {"reconcile", "sync", "in"} => login[l] \in Loading
         /\ login[l].at \notin {"new"} => login[l].p \in People
         /\ login[l].at \in {"new", "failed", "find", "check", "insert", "reconcile", "sync", "in"}
         /\ NamedTheirs \subseteq Accounts!LoginStates /\ Loading \subseteq Accounts!LoginStates
<1>1. login[l] \in Accounts!LoginStates
  BY DEF Accounts!TypeOK
<1> QED BY <1>1 DEF Accounts!LoginStates, NamedTheirs, Loading

\* An exchange that ends, or steps on with what it has.
LEMMA LoginFails ==
  ASSUME Accounts!TypeOK, NEW l \in Logins, login[l].at # "new", Accounts!Fail(l)
  PROVE  /\ login' \in [Logins -> Accounts!LoginStates] /\ login'[l].at = "failed"
         /\ \A m \in Logins \ {l} : login'[m] = login[m]
<1>1. login[l].p \in People
  BY LoginTypes
<1>2. [at |-> "failed", p |-> login[l].p] \in Accounts!LoginStates
  BY <1>1 DEF Accounts!LoginStates
<1> QED BY <1>1, <1>2 DEF Accounts!Fail, Accounts!TypeOK

LEMMA LoginSteps ==
  ASSUME Accounts!TypeOK, NEW l \in Logins, NEW at, NEW from, Accounts!Step(l, at, from)
  PROVE  /\ \A m \in Logins \ {l} : login'[m] = login[m]
         /\ (from \in {"find", "check"} /\ at \in {"check", "insert"}) =>
              /\ login' \in [Logins -> Accounts!LoginStates] /\ login'[l].at = at
              /\ login'[l].p = login[l].p /\ login'[l].email = login[l].email
         /\ (from \in {"reconcile", "sync"} /\ at \in {"sync", "in"}) =>
              /\ login' \in [Logins -> Accounts!LoginStates] /\ login'[l].at = at
              /\ login'[l].p = login[l].p /\ login'[l].id = login[l].id
              /\ login'[l].row = login[l].row /\ login'[l].lost = login[l].lost
<1> DEFINE new == [login[l] EXCEPT !.at = at]
<1>1. login' = [login EXCEPT ![l] = new] /\ login[l].at = from
  BY DEF Accounts!Step
<1>2. ASSUME from \in {"find", "check"}, at \in {"check", "insert"}
      PROVE  new \in NamedTheirs /\ new.at = at /\ new.p = login[l].p /\ new.email = login[l].email
  BY <1>1, <1>2, LoginTypes DEF NamedTheirs
<1>3. ASSUME from \in {"reconcile", "sync"}, at \in {"sync", "in"}
      PROVE  /\ new \in Loading /\ new.at = at /\ new.p = login[l].p /\ new.id = login[l].id
             /\ new.row = login[l].row /\ new.lost = login[l].lost
  BY <1>1, <1>3, LoginTypes DEF Loading
<1> HIDE DEF new
<1> QED BY <1>1, <1>2, <1>3, LoginTypes DEF Accounts!TypeOK

LEMMA LoginBecomes ==
  ASSUME Accounts!TypeOK, NEW l \in Logins, NEW new \in Accounts!LoginStates,
         login' = [login EXCEPT ![l] = new]
  PROVE  /\ login' \in [Logins -> Accounts!LoginStates] /\ login'[l] = new
         /\ \A m \in Logins \ {l} : login'[m] = login[m]
BY DEF Accounts!TypeOK

LEMMA RowBecomes ==
  ASSUME Accounts!TypeOK, NEW i \in Accounts!Ids,
         NEW row \in Accounts!Rows \cup {Accounts!None, Accounts!Gone}, Accounts!Row(i, row)
  PROVE  /\ rows' \in [Accounts!Ids -> Accounts!Rows \cup {Accounts!None, Accounts!Gone}]
              /\ rows'[i] = row
         /\ \A j \in Accounts!Ids \ {i} : rows'[j] = rows[j]
BY DEF Accounts!TypeOK, Accounts!Row

LEMMA UsedIsTaken == Accounts!TypeOK => \A i : i \in Accounts!Used <=> i \in Accounts!Ids /\ HasRow(i)
BY NotRows DEF Accounts!Used, HasRow, Accounts!TypeOK

-----------------------------------------------------------------------------
\* A row keeps its identity and its address, or is removed.
RowStands(i) ==
  \/ rows'[i] = rows[i]
  \/ HasRow(i) /\ rows'[i] \in Accounts!Rows /\ rows'[i].sub = rows[i].sub
       /\ rows'[i].email = rows[i].email
  \/ HasRow(i) /\ rows'[i] = Accounts!Gone

LEMMA IdentitiesStand ==
  ASSUME IdentitiesApart, \A i \in Accounts!Ids : RowStands(i)
  PROVE  IdentitiesApart'
BY NotRows DEF IdentitiesApart, RowStands, HasRow

LEMMA LoginStands ==
  ASSUME Accounts!TypeOK, NEW l \in Logins, LoginKnows(l), \A i \in Accounts!Ids : RowStands(i),
         login'[l] = login[l]
  PROVE  LoginKnows(l)'
<1>1. CASE login[l].at \in {"reconcile", "sync", "in"}
  <2>1. login[l].id \in Accounts!Ids
    BY <1>1, LoginTypes DEF Loading
  <2> QED BY <1>1, <2>1, NotRows DEF LoginKnows, RowStands, Mine, HasRow
<1>2. CASE login[l].at \notin {"reconcile", "sync", "in"}
  BY <1>2 DEF LoginKnows
<1> QED BY <1>1, <1>2

LEMMA LetInStands ==
  ASSUME Accounts!TypeOK, LetIn, \A i \in Accounts!Ids : RowStands(i),
         \A p \in People : \A i \in got'[p] : i \in got[p] /\ rows'[i] # Accounts!Gone
  PROVE  LetIn'
BY NotRows DEF LetIn, RowStands, HasRow, Accounts!TypeOK

LEMMA LoginHoldsOn ==
  ASSUME NEW l \in Logins, LoginHolds(l), login'[l] = login[l], UNCHANGED <<pinned, passed>>
  PROVE  LoginHolds(l)'
BY DEF LoginHolds

LEMMA AccountsBegin == Accounts!Init => AccountsInv
<1> SUFFICES ASSUME Accounts!Init PROVE AccountsInv
  OBVIOUS
<1>1. Accounts!TypeOK
  <2>1. \A p \in People : Addresses[p][1] \in Accounts!Emails
    BY AccountsAssumption DEF Accounts!Emails, Own
  <2>2. Accounts!NewLogin \in Accounts!LoginStates
    BY DEF Accounts!NewLogin, Accounts!LoginStates
  <2> HIDE DEF Accounts!NewLogin
  <2> QED BY <2>1, <2>2, AccountsAssumption DEF Accounts!Init, Accounts!TypeOK, Accounts!Roles
<1>2. IdentitiesApart /\ LetIn /\ Detached
  BY NotRows DEF Accounts!Init, IdentitiesApart, LetIn, Detached, HasRow
<1>3. SiemKnows
  BY AccountsAssumption DEF Accounts!Init, SiemKnows
<1>4. \A l \in Logins : LoginKnows(l) /\ LoginHolds(l)
  BY DEF Accounts!Init, Accounts!NewLogin, LoginKnows, LoginHolds
<1> QED BY <1>1, <1>2, <1>3, <1>4 DEF AccountsInv

\* The rows as they were: what is left to see to is the exchange.
LEMMA OnlyLogin ==
  ASSUME AccountsInv, NEW l \in Logins, login' \in [Logins -> Accounts!LoginStates],
         \A m \in Logins \ {l} : login'[m] = login[m],
         LoginKnows(l)', LoginHolds(l)', UNCHANGED <<rows, siem, pinned, passed, got, ssoOps>>
  PROVE  AccountsInv'
<1>1. Accounts!TypeOK'
  BY DEF AccountsInv, Accounts!TypeOK, Accounts!Used, Accounts!Emails, Accounts!Ids,
     Accounts!Identities, Accounts!Rows
<1>2. \A i \in Accounts!Ids : RowStands(i)
  BY DEF RowStands
<1>3. IdentitiesApart' /\ LetIn' /\ SiemKnows' /\ Detached'
  BY DEF AccountsInv, IdentitiesApart, LetIn, SiemKnows, Detached, HasRow
<1>4. ASSUME NEW m \in Logins PROVE LoginKnows(m)' /\ LoginHolds(m)'
  <2>1. CASE m = l
    BY <2>1
  <2>2. CASE m # l
    BY <1>2, <2>2, LoginStands, LoginHoldsOn DEF AccountsInv
  <2> QED BY <2>1, <2>2
<1> QED BY <1>1, <1>3, <1>4 DEF AccountsInv

\* An exchange that has ended or begins anew has nothing to know.
LEMMA LoginForgets ==
  ASSUME NEW l \in Logins, login'[l].at \in {"new", "failed"}
  PROVE  LoginKnows(l)' /\ LoginHolds(l)'
BY DEF LoginKnows, LoginHolds

LEMMA ExchangeBegin == ASSUME AccountsInv, NEW l \in Logins, Accounts!Begin(l) PROVE AccountsInv'
<1>1. PICK p \in People : login' = [login EXCEPT ![l] = [at |-> "find", p |-> p, email |-> siem[p].email, role |-> siem[p].role]]
  BY DEF Accounts!Begin
<1> DEFINE new == [at |-> "find", p |-> p, email |-> siem[p].email, role |-> siem[p].role]
<1>2. new \in NamedTheirs /\ new.at = "find" /\ new.email \in Own(p) /\ new.p = p
  BY DEF AccountsInv, Accounts!TypeOK, SiemKnows, NamedTheirs
<1> HIDE DEF new
<1>3. new \in Accounts!LoginStates
  BY <1>2 DEF Accounts!LoginStates, NamedTheirs
<1>4. /\ login' \in [Logins -> Accounts!LoginStates] /\ login'[l] = new
      /\ \A m \in Logins \ {l} : login'[m] = login[m]
  BY <1>1, <1>3, LoginBecomes DEF AccountsInv, new
<1>5. LoginKnows(l)' /\ LoginHolds(l)'
  BY <1>2, <1>4 DEF LoginKnows, LoginHolds
<1> QED BY <1>4, <1>5, OnlyLogin DEF Accounts!Begin

LEMMA ExchangeAgain == ASSUME AccountsInv, NEW l \in Logins, Accounts!Again(l) PROVE AccountsInv'
<1>1. Accounts!NewLogin \in Accounts!LoginStates /\ Accounts!NewLogin.at = "new"
  BY DEF Accounts!NewLogin, Accounts!LoginStates
<1> HIDE DEF Accounts!NewLogin
<1>2. /\ login' \in [Logins -> Accounts!LoginStates] /\ login'[l] = Accounts!NewLogin
      /\ \A m \in Logins \ {l} : login'[m] = login[m]
  BY <1>1, LoginBecomes DEF Accounts!Again, AccountsInv
<1> QED BY <1>1, <1>2, LoginForgets, OnlyLogin DEF Accounts!Again

\* An address is one person's.
LEMMA OwnApart == \A p, q \in People : Own(p) \cap Own(q) # {} => p = q
BY AccountsAssumption

LEMMA ExchangeFind == ASSUME AccountsInv, NEW l \in Logins, Accounts!Find(l) PROVE AccountsInv'
<1> DEFINE me == login[l]
           found == IF Accounts!BySub(me.p) # {} THEN Accounts!BySub(me.p) ELSE Accounts!ByEmail(me.email)
<1>1. Accounts!TypeOK /\ me \in NamedTheirs /\ me.email \in Own(me.p) /\ me.at = "find"
        /\ me.p # Accounts!NoRole
  BY LoginTypes, AccountsAssumption DEF AccountsInv, LoginKnows, Accounts!Find, NamedTheirs
<1>2. CASE found = {}
  <2>1. CASE Provision
    <3>1. Accounts!Step(l, "check", "find")
      BY <1>2, <2>1 DEF Accounts!Find
    <3>2. /\ login' \in [Logins -> Accounts!LoginStates] /\ login'[l].at = "check"
          /\ login'[l].p = me.p /\ login'[l].email = me.email
          /\ \A m \in Logins \ {l} : login'[m] = login[m]
      BY <1>1, <3>1, LoginSteps
    <3>3. LoginKnows(l)' /\ LoginHolds(l)'
      BY <1>1, <3>2 DEF LoginKnows, LoginHolds
    <3> QED BY <3>2, <3>3, OnlyLogin DEF Accounts!Find
  <2>2. CASE ~Provision
    BY <1>1, <1>2, <2>2, LoginFails, LoginForgets, OnlyLogin DEF Accounts!Find
  <2> QED BY <2>1, <2>2
<1>3. CASE found # {}
  <2>1. PICK i \in found :
          login' = [login EXCEPT ![l] = [at |-> "reconcile", p |-> me.p, email |-> me.email,
                      role |-> me.role, id |-> i, row |-> rows[i], bySub |-> Accounts!BySub(me.p) # {}, lost |-> FALSE]]
    BY <1>3 DEF Accounts!Find
  <2> DEFINE new == [at |-> "reconcile", p |-> me.p, email |-> me.email,
                      role |-> me.role, id |-> i, row |-> rows[i], bySub |-> Accounts!BySub(me.p) # {}, lost |-> FALSE]
  <2>2. i \in Accounts!Ids /\ HasRow(i)
    BY <1>1, UsedIsTaken DEF Accounts!BySub, Accounts!ByEmail
  <2>3. rows[i] \in Accounts!Rows /\ (Accounts!BySub(me.p) # {}) \in BOOLEAN
    BY <2>2 DEF HasRow
  <2>4. new \in Loading
    BY <1>1, <2>2, <2>3 DEF NamedTheirs, Loading
  <2>5. /\ new.at = "reconcile" /\ new.p = me.p /\ new.email = me.email /\ new.id = i
             /\ new.row = rows[i]
        /\ new.lost = FALSE /\ (new.bySub => Accounts!BySub(me.p) # {})
    OBVIOUS
  <2> HIDE DEF new
  <2>6. new \in Accounts!LoginStates
    BY <1>1, <2>4, LoginTypes
  <2>7. /\ login' \in [Logins -> Accounts!LoginStates] /\ login'[l] = new
        /\ \A m \in Logins \ {l} : login'[m] = login[m]
    BY <1>1, <2>1, <2>6, LoginBecomes DEF new
  <2>8. rows[i].sub = me.p
          \/ (rows[i].sub = Accounts!NoRole /\ rows[i].email \in Own(me.p) /\ Accounts!BySub(me.p) = {})
    <3>1. CASE Accounts!BySub(me.p) # {}
      BY <3>1 DEF Accounts!BySub
    <3>2. CASE Accounts!BySub(me.p) = {}
      <4>1. rows[i].email = me.email
        BY <3>2 DEF Accounts!ByEmail
      <4>2. ASSUME rows[i].sub # Accounts!NoRole PROVE rows[i].sub = me.p
        <5>1. rows[i].sub \in People /\ rows[i].email \in Own(rows[i].sub)
          BY <2>2, <2>3, <4>2 DEF AccountsInv, IdentitiesApart, Accounts!Rows, Accounts!Identities
        <5>2. me.p \in People
          BY <1>1 DEF NamedTheirs
        <5> QED BY <1>1, <4>1, <5>1, <5>2, OwnApart
      <4> QED BY <1>1, <3>2, <4>1, <4>2
    <3> QED BY <3>1, <3>2
  <2>9. UNCHANGED <<rows, pinned, passed>>
    BY DEF Accounts!Find
  <2>10. LoginKnows(l)'
    BY <1>1, <2>2, <2>5, <2>7, <2>8, <2>9, NotRows DEF LoginKnows, Mine, HasRow
  <2>11. LoginHolds(l)'
    BY <2>2, <2>5, <2>7, <2>9 DEF LoginHolds, AccountsInv, Detached
  <2> QED BY <2>7, <2>10, <2>11, OnlyLogin DEF Accounts!Find
<1> QED BY <1>2, <1>3

LEMMA ExchangeCheck == ASSUME AccountsInv, NEW l \in Logins, Accounts!CreateCheck(l) PROVE AccountsInv'
<1> DEFINE me == login[l]
           winner == IF Accounts!BySub(me.p) # {} THEN Accounts!BySub(me.p) ELSE Accounts!ByEmail(me.email)
<1>1. Accounts!TypeOK /\ me \in NamedTheirs /\ me.email \in Own(me.p) /\ me.at = "check"
  BY LoginTypes DEF AccountsInv, LoginKnows, Accounts!CreateCheck, NamedTheirs
<1>2. CASE Accounts!ByEmail(me.email) = {}
  <2>1. Accounts!Step(l, "insert", "check")
    BY <1>2 DEF Accounts!CreateCheck
  <2>2. /\ login' \in [Logins -> Accounts!LoginStates] /\ login'[l].at = "insert"
        /\ login'[l].p = me.p /\ login'[l].email = me.email
        /\ \A m \in Logins \ {l} : login'[m] = login[m]
    BY <1>1, <2>1, LoginSteps
  <2>3. LoginKnows(l)' /\ LoginHolds(l)'
    BY <1>1, <2>2 DEF LoginKnows, LoginHolds
  <2> QED BY <2>2, <2>3, OnlyLogin DEF Accounts!CreateCheck
<1>3. CASE Accounts!ByEmail(me.email) # {}
  <2>1. PICK i \in winner :
          login' = [login EXCEPT ![l] = [at |-> "sync", p |-> me.p, email |-> me.email,
                      role |-> me.role, id |-> i, row |-> rows[i], bySub |-> FALSE, lost |-> TRUE]]
    BY <1>3 DEF Accounts!CreateCheck
  <2> DEFINE new == [at |-> "sync", p |-> me.p, email |-> me.email,
                      role |-> me.role, id |-> i, row |-> rows[i], bySub |-> FALSE, lost |-> TRUE]
  <2>2. i \in Accounts!Ids /\ rows[i] \in Accounts!Rows
    BY <1>1, UsedIsTaken DEF Accounts!BySub, Accounts!ByEmail, HasRow
  <2>4. new \in Loading
    BY <1>1, <2>2 DEF NamedTheirs, Loading
  <2>5. new.at = "sync" /\ new.id = i /\ new.row = rows[i] /\ new.lost = TRUE
    OBVIOUS
  <2> HIDE DEF new
  <2>6. new \in Accounts!LoginStates
    BY <1>1, <2>4, LoginTypes
  <2>7. /\ login' \in [Logins -> Accounts!LoginStates] /\ login'[l] = new
        /\ \A m \in Logins \ {l} : login'[m] = login[m]
    BY <1>1, <2>1, <2>6, LoginBecomes DEF new
  <2>9. UNCHANGED <<rows, pinned, passed>>
    BY DEF Accounts!CreateCheck
  <2>10. LoginKnows(l)'
    BY <2>2, <2>5, <2>7, <2>9, NotRows DEF LoginKnows
  <2>11. LoginHolds(l)'
    BY <2>2, <2>5, <2>7, <2>9 DEF LoginHolds, AccountsInv, Detached
  <2> QED BY <2>7, <2>10, <2>11, OnlyLogin DEF Accounts!CreateCheck
<1> QED BY <1>2, <1>3

LEMMA ExchangeReconcile ==
  ASSUME AccountsInv, NEW l \in Logins, Accounts!Reconcile(l)
  PROVE  AccountsInv'
<1> DEFINE me == login[l]
           sub == Accounts!NewSub(l)
           email == Accounts!NewEmail(l)
<1>1. Accounts!TypeOK /\ me \in Loading /\ me.at = "reconcile" /\ me.p \in People
        /\ me.id \in Accounts!Ids /\ me.row \in Accounts!Rows
  BY LoginTypes DEF AccountsInv, Accounts!Reconcile, Loading
<1>2. /\ rows[me.id] = Accounts!Gone \/ Mine(me.id, me.p)
      /\ me.row.sub = me.p \/ (me.row.sub = Accounts!NoRole /\ ~me.bySub)
      /\ me.row.sub = me.p => (rows[me.id] = Accounts!Gone \/ rows[me.id].sub = me.p)
      /\ ~me.lost /\ rows[me.id] # Accounts!None /\ me.email \in Own(me.p)
  BY <1>1 DEF AccountsInv, LoginKnows
<1>3. sub = me.p
  BY <1>1, <1>2, AccountsAssumption DEF Accounts!NewSub
<1>4. email # me.row.email => me.bySub /\ email = me.email
  BY DEF Accounts!NewEmail
<1>5. UNCHANGED <<siem, pinned, passed, got, ssoOps>>
  BY DEF Accounts!Reconcile
<1> HIDE DEF sub, email
<1>6. CASE sub = me.row.sub /\ email = me.row.email
  <2>1. Accounts!Step(l, "sync", "reconcile") /\ UNCHANGED rows
    BY <1>6 DEF Accounts!Reconcile, sub, email
  <2>2. /\ login' \in [Logins -> Accounts!LoginStates] /\ login'[l].at = "sync"
        /\ login'[l].p = me.p /\ login'[l].id = me.id
        /\ login'[l].row = me.row /\ login'[l].lost = me.lost
        /\ \A m \in Logins \ {l} : login'[m] = login[m]
    BY <1>1, <2>1, LoginSteps
  <2>3. LoginKnows(l)'
    BY <1>1, <1>2, <1>3, <1>6, <2>1, <2>2 DEF LoginKnows
  <2>4. LoginHolds(l)'
    BY <1>1, <1>5, <2>2 DEF LoginHolds, AccountsInv
  <2> QED BY <1>5, <2>1, <2>2, <2>3, <2>4, OnlyLogin
<1>7. CASE /\ ~(sub = me.row.sub /\ email = me.row.email)
           /\ ~(rows[me.id] # Accounts!Gone /\ Accounts!BySub(sub) \subseteq {me.id})
  BY <1>1, <1>7, LoginFails, LoginForgets, OnlyLogin DEF Accounts!Reconcile, sub, email
<1>8. CASE /\ ~(sub = me.row.sub /\ email = me.row.email)
           /\ rows[me.id] # Accounts!Gone /\ Accounts!BySub(sub) \subseteq {me.id}
  <2> DEFINE old == rows[me.id]
             row == [old EXCEPT !.sub = sub, !.email = IF email # me.row.email THEN email ELSE @]
             new == [me EXCEPT !.at = "sync", !.row = rows'[me.id]]
  <2>1. Accounts!Row(me.id, row) /\ login' = [login EXCEPT ![l].at = "sync", ![l].row = rows'[me.id]]
    BY <1>8 DEF Accounts!Reconcile, sub, email
  <2>2. old \in Accounts!Rows
          /\ (old.sub = me.p \/ (old.sub = Accounts!NoRole /\ old.email \in Own(me.p)))
    BY <1>2, <1>8 DEF Mine, HasRow
  <2>3. /\ row \in Accounts!Rows /\ row.sub = me.p /\ row.role = old.role /\ row.managed = old.managed
        /\ row.email = old.email \/ (me.bySub /\ row.email = me.email)
    <3>1. sub \in Accounts!Identities /\ me.email \in Accounts!Emails
      BY <1>1, <1>3 DEF Accounts!Identities, Loading
    <3> QED BY <1>3, <1>4, <2>2, <3>1 DEF Accounts!Rows
  <2> HIDE DEF row
  <2>4. /\ rows' \in [Accounts!Ids -> Accounts!Rows \cup {Accounts!None, Accounts!Gone}]
             /\ rows'[me.id] = row
        /\ \A j \in Accounts!Ids \ {me.id} : rows'[j] = rows[j]
    BY <1>1, <2>1, <2>3, RowBecomes
  <2>5. /\ new \in Loading /\ new.at = "sync" /\ new.p = me.p /\ new.id = me.id /\ new.row = row
        /\ new.lost = me.lost
    BY <1>1, <2>3, <2>4 DEF Loading
  <2>6. login' = [login EXCEPT ![l] = new]
    BY <1>1, <2>1 DEF Accounts!TypeOK
  <2> HIDE DEF new
  <2>7. /\ login' \in [Logins -> Accounts!LoginStates] /\ login'[l] = new
        /\ \A m \in Logins \ {l} : login'[m] = login[m]
    BY <1>1, <2>5, <2>6, LoginBecomes, LoginTypes
  <2>8. row.email \in Own(me.p)
    <3>1. old.sub = me.p => old.email \in Own(me.p)
      BY <1>1, <2>2, AccountsAssumption DEF AccountsInv, IdentitiesApart, HasRow
    <3> QED BY <1>2, <2>2, <2>3, <3>1
  <2>9. Accounts!TypeOK'
    BY <1>1, <1>5, <2>4, <2>7 DEF Accounts!TypeOK
  <2>10. IdentitiesApart'
    <3>1. \A j \in Accounts!Ids \ {me.id} : HasRow(j) => rows[j].sub # me.p
      BY <1>1, <1>3, <1>8, UsedIsTaken DEF Accounts!BySub
    <3> QED BY <1>1, <2>3, <2>4, <2>8, <3>1 DEF AccountsInv, IdentitiesApart, HasRow
  <2>11. LetIn'
    <3>1. ASSUME NEW p \in People, NEW i \in got[p] PROVE rows'[i] \in Accounts!Rows /\ rows'[i].sub = p
      <4>1. i \in Accounts!Ids /\ rows[i] \in Accounts!Rows /\ rows[i].sub = p
        BY <3>1 DEF AccountsInv, Accounts!TypeOK, LetIn, HasRow
      <4> QED BY <2>2, <2>3, <2>4, <4>1, AccountsAssumption
    <3> QED BY <1>5, <3>1 DEF LetIn, HasRow
  <2>12. SiemKnows'
    BY <1>5 DEF AccountsInv, SiemKnows
  <2>13. Detached'
    BY <1>1, <1>5, <2>2, <2>3, <2>4 DEF AccountsInv, Detached, HasRow, Accounts!TypeOK
  <2>14. ASSUME NEW m \in Logins PROVE LoginKnows(m)' /\ LoginHolds(m)'
    <3>1. CASE m = l
      <4>1. LoginKnows(m)'
        BY <1>1, <2>3, <2>4, <2>5, <2>7, <3>1, NotRows DEF LoginKnows
      <4>2. LoginHolds(m)'
        BY <1>1, <1>5, <2>3, <2>5, <2>7, <3>1 DEF LoginHolds, AccountsInv, Detached
      <4> QED BY <4>1, <4>2
    <3>2. CASE m # l
      <4>1. LoginHolds(m)'
        BY <1>5, <2>7, <3>2, LoginHoldsOn DEF AccountsInv
      <4>2. CASE login[m].at \notin {"reconcile", "sync", "in"} \/ login[m].id # me.id
        <5>1. login[m].at \in {"reconcile", "sync", "in"} => login[m].id \in Accounts!Ids
          BY <1>1, LoginTypes DEF Loading
        <5>2. login[m].at \in {"reconcile", "sync", "in"} => rows'[login[m].id] = rows[login[m].id]
          BY <2>4, <4>2, <5>1
        <5>3. login'[m] = login[m] /\ LoginKnows(m)
          BY <2>7, <3>2 DEF AccountsInv
        <5>4. LoginKnows(m)'
          BY <5>2, <5>3 DEF LoginKnows, Mine, HasRow
        <5> QED BY <4>1, <5>4
      <4>3. CASE login[m].at \in {"reconcile", "sync", "in"} /\ login[m].id = me.id
        <5>1. login[m].p \in People
          BY <1>1, <4>3, LoginTypes
        <5>2. LoginKnows(m)
          BY DEF AccountsInv
        <5>3. (login[m].at = "reconcile" \/ (login[m].at = "sync" /\ ~login[m].lost))
                => login[m].p = me.p
          <6>1. ASSUME old.sub = Accounts!NoRole, login[m].at = "reconcile" PROVE login[m].p = me.p
            <7>1. old.email \in Own(login[m].p)
              BY <2>2, <4>3, <5>1, <5>2, <6>1, <1>8, AccountsAssumption DEF LoginKnows, Mine
            <7>2. old.email \in Own(me.p)
              BY <1>1, <2>2, <6>1, AccountsAssumption
            <7> QED BY <1>1, <5>1, <7>1, <7>2, OwnApart
          <6>2. ASSUME old.sub = Accounts!NoRole, login[m].at = "sync", ~login[m].lost PROVE FALSE
            BY <4>3, <5>1, <5>2, <6>2, <1>8, AccountsAssumption DEF LoginKnows
          <6>3. ASSUME old.sub = me.p, login[m].at = "reconcile" PROVE login[m].p = me.p
            BY <1>1, <1>8, <4>3, <5>1, <5>2, <6>3, AccountsAssumption DEF LoginKnows, Mine
          <6>4. ASSUME old.sub = me.p, login[m].at = "sync", ~login[m].lost PROVE login[m].p = me.p
            BY <1>8, <4>3, <5>2, <6>4 DEF LoginKnows
          <6> QED BY <2>2, <6>1, <6>2, <6>3, <6>4
        <5>4. rows'[me.id] # Accounts!None /\ rows'[me.id] # Accounts!Gone
                /\ rows'[me.id].sub = me.p /\ rows'[me.id] \in Accounts!Rows
          BY <2>3, <2>4, <1>1, NotRows
        <5> QED BY <2>7, <3>2, <4>1, <4>3, <5>2, <5>3, <5>4 DEF LoginKnows, Mine, HasRow
      <4> QED BY <4>1, <4>2, <4>3
    <3> QED BY <3>1, <3>2
  <2> QED BY <2>9, <2>10, <2>11, <2>12, <2>13, <2>14 DEF AccountsInv
<1> QED BY <1>6, <1>7, <1>8

LEMMA ExchangeInsert ==
  ASSUME AccountsInv, NEW l \in Logins, Accounts!CreateInsert(l)
  PROVE  AccountsInv'
<1> DEFINE me == login[l]
           row == Accounts!Account(me.email, me.p, me.role, TRUE)
<1>1. Accounts!TypeOK /\ me \in NamedTheirs /\ me.email \in Own(me.p) /\ me.at = "insert"
        /\ me.p \in People
  BY LoginTypes DEF AccountsInv, LoginKnows, Accounts!CreateInsert, NamedTheirs
<1>2. UNCHANGED <<siem, pinned, passed, got, ssoOps>>
  BY DEF Accounts!CreateInsert
<1>3. row \in Accounts!Rows /\ row.sub = me.p /\ row.email = me.email /\ row.managed = TRUE
        /\ row.role = me.role
  BY <1>1 DEF Accounts!Account, Accounts!Rows, Accounts!Identities, NamedTheirs
<1> HIDE DEF row
<1>4. CASE Accounts!ByEmail(me.email) \cup Accounts!BySub(me.p) # {}
  BY <1>1, <1>4, LoginFails, LoginForgets, OnlyLogin DEF Accounts!CreateInsert
<1>5. CASE Accounts!ByEmail(me.email) \cup Accounts!BySub(me.p) = {}
  <2>1. PICK i \in Accounts!Fresh :
          /\ Accounts!Row(i, row)
          /\ login' = [login EXCEPT ![l] = [at |-> "sync", p |-> me.p, email |-> me.email,
                         role |-> me.role, id |-> i, row |-> row, bySub |-> FALSE, lost |-> FALSE]]
    BY <1>5 DEF Accounts!CreateInsert, row
  <2> DEFINE new == [at |-> "sync", p |-> me.p, email |-> me.email,
                     role |-> me.role, id |-> i, row |-> row, bySub |-> FALSE, lost |-> FALSE]
  <2>2. i \in Accounts!Ids /\ rows[i] = Accounts!None
    BY DEF Accounts!Fresh
  <2>3. new \in Loading /\ new.at = "sync" /\ new.p = me.p /\ new.id = i /\ new.row = row
          /\ new.lost = FALSE
    BY <1>1, <1>3, <2>2 DEF NamedTheirs, Loading
  <2> HIDE DEF new
  <2>4. /\ login' \in [Logins -> Accounts!LoginStates] /\ login'[l] = new
        /\ \A m \in Logins \ {l} : login'[m] = login[m]
    BY <1>1, <2>1, <2>3, LoginBecomes, LoginTypes DEF new
  <2>5. /\ rows' \in [Accounts!Ids -> Accounts!Rows \cup {Accounts!None, Accounts!Gone}]
             /\ rows'[i] = row
        /\ \A j \in Accounts!Ids \ {i} : rows'[j] = rows[j]
    BY <1>1, <1>3, <2>1, <2>2, RowBecomes
  <2>6. Accounts!TypeOK'
    BY <1>1, <1>2, <2>4, <2>5 DEF Accounts!TypeOK
  <2>7. IdentitiesApart'
    <3>1. \A j \in Accounts!Ids \ {i} : HasRow(j) => rows[j].sub # me.p
      BY <1>1, <1>5, UsedIsTaken DEF Accounts!BySub
    <3> QED BY <1>1, <1>3, <2>2, <2>5, <3>1 DEF AccountsInv, IdentitiesApart, HasRow
  <2>8. LetIn' /\ Detached'
    BY <1>1, <1>2, <2>2, <2>5, NotRows DEF AccountsInv, Accounts!TypeOK, LetIn, Detached, HasRow
  <2>9. SiemKnows'
    BY <1>2 DEF AccountsInv, SiemKnows
  <2>10. ASSUME NEW m \in Logins PROVE LoginKnows(m)' /\ LoginHolds(m)'
    <3>1. CASE m = l
      <4>1. pinned[i] = Accounts!NoRole
        BY <1>1, <2>2, NotRows DEF AccountsInv, Detached, HasRow
      <4> QED BY <1>2, <1>3, <2>3, <2>4, <2>5, <2>2, <3>1, <4>1, NotRows DEF LoginKnows,
                 LoginHolds
    <3>2. CASE m # l
      <4>1. LoginHolds(m)'
        BY <1>2, <2>4, <3>2, LoginHoldsOn DEF AccountsInv
      <4>2. LoginKnows(m) /\ login'[m] = login[m]
        BY <2>4, <3>2 DEF AccountsInv
      <4>3. login[m].at \in {"reconcile", "sync", "in"} => login[m].id \in Accounts!Ids \ {i}
        BY <1>1, <2>2, <4>2, LoginTypes DEF Loading, LoginKnows
      <4>4. login[m].at \in {"reconcile", "sync", "in"} => rows'[login[m].id] = rows[login[m].id]
        BY <2>5, <4>3
      <4>5. LoginKnows(m)'
        BY <4>2, <4>4 DEF LoginKnows, Mine, HasRow
      <4> QED BY <4>1, <4>5
    <3> QED BY <3>1, <3>2
  <2> QED BY <2>6, <2>7, <2>8, <2>9, <2>10 DEF AccountsInv
<1> QED BY <1>4, <1>5

LEMMA ExchangeSync == ASSUME AccountsInv, NEW l \in Logins, Accounts!Sync(l) PROVE AccountsInv'
<1> DEFINE me == login[l]
<1>1. Accounts!TypeOK /\ me \in Loading /\ me.at = "sync" /\ me.p \in People
        /\ me.id \in Accounts!Ids /\ me.row \in Accounts!Rows
  BY LoginTypes DEF AccountsInv, Accounts!Sync, Loading
<1>2. UNCHANGED <<siem, pinned, passed, ssoOps>>
  BY DEF Accounts!Sync
<1>3. rows[me.id] # Accounts!None
        /\ (~me.lost => (rows[me.id] = Accounts!Gone \/ rows[me.id].sub = me.p))
  BY <1>1 DEF AccountsInv, LoginKnows
<1>4. CASE Accounts!Fail(l) /\ UNCHANGED <<rows, got>>
  BY <1>1, <1>2, <1>4, LoginFails, LoginForgets, OnlyLogin
<1>5. CASE /\ Accounts!Step(l, "in", "sync") /\ Accounts!Enter(me)
           /\ \/ UNCHANGED rows
              \/ /\ me.row.managed /\ rows[me.id] # Accounts!Gone
                 /\ Accounts!Row(me.id, [rows[me.id] EXCEPT !.role = me.role])
  <2>1. /\ login' \in [Logins -> Accounts!LoginStates] /\ login'[l].at = "in"
        /\ login'[l].p = me.p /\ login'[l].id = me.id
        /\ \A m \in Logins \ {l} : login'[m] = login[m]
    BY <1>1, <1>5, LoginSteps
  <2>2. /\ rows' \in [Accounts!Ids -> Accounts!Rows \cup {Accounts!None, Accounts!Gone}]
        /\ \A j \in Accounts!Ids : rows'[j] = rows[j] \/
             (/\ j = me.id /\ me.row.managed /\ rows[j] \in Accounts!Rows
               /\ rows'[j] \in Accounts!Rows /\ rows'[j].sub = rows[j].sub
              /\ rows'[j].email = rows[j].email)
    <3>1. CASE UNCHANGED rows
      BY <1>1, <3>1 DEF Accounts!TypeOK
    <3>2. CASE me.row.managed /\ rows[me.id] # Accounts!Gone
                 /\ Accounts!Row(me.id, [rows[me.id] EXCEPT !.role = me.role])
      <4>1. rows[me.id] \in Accounts!Rows
        BY <1>1, <1>3, <3>2 DEF Accounts!TypeOK
      <4>2. me.role \in Accounts!Roles
        BY <1>1 DEF Loading
      <4> DEFINE row == [rows[me.id] EXCEPT !.role = me.role]
      <4>3. row \in Accounts!Rows /\ row.sub = rows[me.id].sub /\ row.email = rows[me.id].email
        BY <4>1, <4>2 DEF Accounts!Rows
      <4>4. Accounts!Row(me.id, row)
        BY <3>2
      <4> HIDE DEF row
      <4>5. /\ rows' \in [Accounts!Ids -> Accounts!Rows \cup {Accounts!None, Accounts!Gone}]
                 /\ rows'[me.id] = row
            /\ \A j \in Accounts!Ids \ {me.id} : rows'[j] = rows[j]
        BY <1>1, <4>3, <4>4, RowBecomes
      <4> QED BY <3>2, <4>1, <4>3, <4>5
    <3> QED BY <1>5, <3>1, <3>2
  <2>3. \A j \in Accounts!Ids : RowStands(j) /\ (rows'[j] = Accounts!Gone => rows[j] = Accounts!Gone)
    BY <2>2, NotRows DEF RowStands, HasRow
  <2>4. got' = [got EXCEPT ![me.p] = IF me.lost
          \/ rows[me.id] = Accounts!Gone THEN @ ELSE @ \cup {me.id}]
    BY <1>5 DEF Accounts!Enter
  <2>5. got' \in [People -> SUBSET Accounts!Ids]
    BY <1>1, <2>4 DEF Accounts!TypeOK
  <2>6. Accounts!TypeOK'
    BY <1>1, <1>2, <2>1, <2>2, <2>5 DEF Accounts!TypeOK
  <2>7. IdentitiesApart'
    BY <2>3, IdentitiesStand DEF AccountsInv
  <2>8. LetIn'
    <3>1. ASSUME NEW p \in People, NEW i \in got'[p]
          PROVE  i \in Accounts!Ids /\ HasRow(i) /\ rows[i].sub = p
      <4>1. CASE i \in got[p]
        BY <1>1, <4>1 DEF AccountsInv, LetIn, Accounts!TypeOK
      <4>2. CASE i \notin got[p]
        <5>1. p = me.p /\ i = me.id /\ ~me.lost /\ rows[me.id] # Accounts!Gone
          BY <1>1, <2>4, <3>1, <4>2 DEF Accounts!TypeOK
        <5> QED BY <1>1, <1>3, <5>1 DEF Accounts!TypeOK, HasRow
      <4> QED BY <4>1, <4>2
    <3> QED BY <2>2, <2>5, <3>1 DEF LetIn, HasRow
  <2>9. SiemKnows'
    BY <1>2 DEF AccountsInv, SiemKnows
  <2>10. Detached'
    <3>1. \A i \in Accounts!Ids : rows'[i] # rows[i] => pinned[i] = Accounts!NoRole \/ i \in passed
      BY <1>1, <2>2 DEF AccountsInv, LoginHolds
    <3>2. \A i \in Accounts!Ids : HasRow(i) => HasRow(i)'
      BY <2>2 DEF HasRow
    <3> QED BY <1>2, <3>1, <3>2 DEF AccountsInv, Detached
  <2>11. ASSUME NEW m \in Logins PROVE LoginKnows(m)' /\ LoginHolds(m)'
    <3>1. CASE m = l
      BY <1>1, <1>3, <2>1, <2>2, <3>1, NotRows DEF LoginKnows, LoginHolds
    <3>2. CASE m # l
      BY <1>1, <1>2, <2>1, <2>3, <3>2, LoginStands, LoginHoldsOn DEF AccountsInv
    <3> QED BY <3>1, <3>2
  <2> QED BY <2>6, <2>7, <2>8, <2>9, <2>10, <2>11 DEF AccountsInv
<1> QED BY <1>4, <1>5 DEF Accounts!Sync

-----------------------------------------------------------------------------
\* The administrator changes a row, or the SIEM an entry: what is left to see to
\* is who the account belongs to.
LEMMA EditsStand ==
  ASSUME AccountsInv, Accounts!TypeOK', \A i \in Accounts!Ids : RowStands(i), UNCHANGED login,
         \A p \in People : \A i \in got'[p] : i \in got[p] /\ rows'[i] # Accounts!Gone,
         SiemKnows', Detached', \A l \in Logins : LoginHolds(l)'
  PROVE  AccountsInv'
<1>1. IdentitiesApart' /\ LetIn'
  BY IdentitiesStand, LetInStands DEF AccountsInv
<1>2. \A l \in Logins : LoginKnows(l)'
  BY LoginStands DEF AccountsInv
<1> QED BY <1>1, <1>2 DEF AccountsInv

\* A row that is changed in place.
LEMMA RowEdited ==
  ASSUME Accounts!TypeOK, NEW i \in Accounts!Used, NEW row \in Accounts!Rows, row.sub = rows[i].sub,
         row.email = rows[i].email, Accounts!Row(i, row)
  PROVE  /\ rows' \in [Accounts!Ids -> Accounts!Rows \cup {Accounts!None, Accounts!Gone}]
              /\ i \in Accounts!Ids /\ HasRow(i) /\ rows'[i] = row
         /\ \A j \in Accounts!Ids \ {i} : rows'[j] = rows[j]
         /\ \A j \in Accounts!Ids : RowStands(j)
              /\ (rows'[j] = Accounts!Gone => rows[j] = Accounts!Gone)
<1>1. i \in Accounts!Ids /\ HasRow(i)
  BY UsedIsTaken
<1>2. /\ rows' \in [Accounts!Ids -> Accounts!Rows \cup {Accounts!None, Accounts!Gone}] /\ rows'[i] = row
      /\ \A j \in Accounts!Ids \ {i} : rows'[j] = rows[j]
  BY <1>1, RowBecomes
<1> QED BY <1>1, <1>2, NotRows DEF RowStands, HasRow

LEMMA EditsAreSafe ==
  ASSUME AccountsInv,
         Accounts!EditRole \/ Accounts!Reseed \/ Accounts!Deactivate \/ Accounts!HardDelete
           \/ Accounts!CreateUser \/ Accounts!Rename \/ Accounts!ChangeRole
  PROVE  AccountsInv'
<1>0. Accounts!TypeOK
  BY DEF AccountsInv
<1>o. Accounts!Op => ssoOps' \in 0 .. MaxAccountOps
  BY <1>0, AccountsAssumption DEF Accounts!Op, Accounts!TypeOK
<1>1. CASE Accounts!EditRole
  <2>1. PICK i \in Accounts!Used, role \in Accounts!Roles :
          /\ Accounts!Row(i, Accounts!Edited(rows[i], role))
          /\ pinned' = [pinned EXCEPT ![i] = role]
          /\ passed' = IF Accounts!Loaded(i) THEN passed \cup {i} ELSE passed \ {i}
    BY <1>1 DEF Accounts!EditRole
  <2> DEFINE row == Accounts!Edited(rows[i], role)
  <2>2. rows[i] \in Accounts!Rows /\ i \in Accounts!Ids
    BY <1>0, UsedIsTaken DEF HasRow
  <2>3. row \in Accounts!Rows /\ row.sub = rows[i].sub /\ row.email = rows[i].email
          /\ row.role = role /\ row.managed = FALSE
    BY <2>2 DEF Accounts!Edited, Accounts!Rows
  <2> HIDE DEF row
  <2>4. /\ rows' \in [Accounts!Ids -> Accounts!Rows \cup {Accounts!None, Accounts!Gone}]
             /\ HasRow(i) /\ rows'[i] = row
        /\ \A j \in Accounts!Ids \ {i} : rows'[j] = rows[j]
        /\ \A j \in Accounts!Ids : RowStands(j) /\ (rows'[j] = Accounts!Gone => rows[j] = Accounts!Gone)
    BY <1>0, <2>1, <2>3, RowEdited DEF row
  <2>5. UNCHANGED <<siem, login, got>> /\ ssoOps' \in 0 .. MaxAccountOps
    BY <1>1, <1>o DEF Accounts!EditRole
  <2>6. Accounts!TypeOK'
    BY <1>0, <2>1, <2>2, <2>4, <2>5 DEF Accounts!TypeOK
  <2>7. Detached'
    BY <1>0, <2>1, <2>2, <2>3, <2>4 DEF AccountsInv, Detached, HasRow, Accounts!TypeOK
  <2>8. ASSUME NEW l \in Logins PROVE LoginHolds(l)'
    BY <1>0, <2>1, <2>2, <2>5 DEF AccountsInv, LoginHolds, Accounts!Loaded, Accounts!TypeOK
  <2>9. \A p \in People : \A j \in got'[p] : j \in got[p] /\ rows'[j] # Accounts!Gone
    BY <1>0, <2>4, <2>5, NotRows DEF AccountsInv, LetIn, HasRow, Accounts!TypeOK
  <2>10. SiemKnows'
    BY <2>5 DEF AccountsInv, SiemKnows
  <2> QED BY <2>4, <2>5, <2>6, <2>7, <2>8, <2>9, <2>10, EditsStand
<1>2. CASE Accounts!Reseed
  <2>1. PICK i \in Accounts!Used, role \in Accounts!Roles :
          /\ Accounts!Row(i, [rows[i] EXCEPT !.role = role, !.managed = TRUE])
          /\ pinned' = [pinned EXCEPT ![i] = Accounts!NoRole]
    BY <1>2 DEF Accounts!Reseed
  <2> DEFINE row == [rows[i] EXCEPT !.role = role, !.managed = TRUE]
  <2>2. rows[i] \in Accounts!Rows /\ i \in Accounts!Ids
    BY <1>0, UsedIsTaken DEF HasRow
  <2>3. row \in Accounts!Rows /\ row.sub = rows[i].sub /\ row.email = rows[i].email
    BY <2>2 DEF Accounts!Rows
  <2> HIDE DEF row
  <2>4. /\ rows' \in [Accounts!Ids -> Accounts!Rows \cup {Accounts!None, Accounts!Gone}]
             /\ HasRow(i) /\ rows'[i] = row
        /\ \A j \in Accounts!Ids \ {i} : rows'[j] = rows[j]
        /\ \A j \in Accounts!Ids : RowStands(j) /\ (rows'[j] = Accounts!Gone => rows[j] = Accounts!Gone)
    BY <1>0, <2>1, <2>3, RowEdited DEF row
  <2>5. UNCHANGED <<siem, login, got, passed>> /\ ssoOps' \in 0 .. MaxAccountOps
    BY <1>2, <1>o DEF Accounts!Reseed
  <2>6. Accounts!TypeOK'
    BY <1>0, <2>1, <2>2, <2>4, <2>5 DEF Accounts!TypeOK
  <2>7. Detached'
    BY <1>0, <2>1, <2>2, <2>4, <2>5 DEF AccountsInv, Detached, HasRow, Accounts!TypeOK
  <2>8. ASSUME NEW l \in Logins PROVE LoginHolds(l)'
    <3>1. login[l].at \in {"reconcile", "sync"} => login[l].id \in Accounts!Ids
      BY <1>0, LoginTypes DEF Loading
    <3> QED BY <1>0, <2>1, <2>2, <2>5, <3>1 DEF AccountsInv, LoginHolds, Accounts!TypeOK
  <2>9. \A p \in People : \A j \in got'[p] : j \in got[p] /\ rows'[j] # Accounts!Gone
    BY <1>0, <2>4, <2>5, NotRows DEF AccountsInv, LetIn, HasRow, Accounts!TypeOK
  <2>10. SiemKnows'
    BY <2>5 DEF AccountsInv, SiemKnows
  <2> QED BY <2>4, <2>5, <2>6, <2>7, <2>8, <2>9, <2>10, EditsStand
<1>3. CASE Accounts!Deactivate
  <2>1. PICK i \in Accounts!Used : Accounts!Row(i, [rows[i] EXCEPT !.active = FALSE])
    BY <1>3 DEF Accounts!Deactivate
  <2> DEFINE row == [rows[i] EXCEPT !.active = FALSE]
  <2>2. rows[i] \in Accounts!Rows /\ i \in Accounts!Ids
    BY <1>0, UsedIsTaken DEF HasRow
  <2>3. /\ row \in Accounts!Rows /\ row.sub = rows[i].sub /\ row.email = rows[i].email
        /\ row.role = rows[i].role /\ row.managed = rows[i].managed
    BY <2>2 DEF Accounts!Rows
  <2> HIDE DEF row
  <2>4. /\ rows' \in [Accounts!Ids -> Accounts!Rows \cup {Accounts!None, Accounts!Gone}]
             /\ HasRow(i) /\ rows'[i] = row
        /\ \A j \in Accounts!Ids \ {i} : rows'[j] = rows[j]
        /\ \A j \in Accounts!Ids : RowStands(j) /\ (rows'[j] = Accounts!Gone => rows[j] = Accounts!Gone)
    BY <1>0, <2>1, <2>3, RowEdited DEF row
  <2>5. UNCHANGED <<siem, login, pinned, passed, got>> /\ ssoOps' \in 0 .. MaxAccountOps
    BY <1>3, <1>o DEF Accounts!Deactivate
  <2>6. Accounts!TypeOK'
    BY <1>0, <2>4, <2>5 DEF Accounts!TypeOK
  <2>7. Detached'
    BY <1>0, <2>2, <2>3, <2>4, <2>5 DEF AccountsInv, Detached, HasRow
  <2>8. ASSUME NEW l \in Logins PROVE LoginHolds(l)'
    BY <2>5, LoginHoldsOn DEF AccountsInv
  <2>9. \A p \in People : \A j \in got'[p] : j \in got[p] /\ rows'[j] # Accounts!Gone
    BY <1>0, <2>4, <2>5, NotRows DEF AccountsInv, LetIn, HasRow, Accounts!TypeOK
  <2>10. SiemKnows'
    BY <2>5 DEF AccountsInv, SiemKnows
  <2> QED BY <2>4, <2>5, <2>6, <2>7, <2>8, <2>9, <2>10, EditsStand
<1>4. CASE Accounts!HardDelete
  <2>1. PICK i \in Accounts!Used :
          /\ Accounts!Row(i, Accounts!Gone)
          /\ pinned' = [pinned EXCEPT ![i] = Accounts!NoRole]
          /\ got' = [p \in People |-> got[p] \ {i}]
    BY <1>4 DEF Accounts!HardDelete
  <2>2. rows[i] \in Accounts!Rows /\ i \in Accounts!Ids
    BY <1>0, UsedIsTaken DEF HasRow
  <2>4. /\ rows' \in [Accounts!Ids -> Accounts!Rows \cup {Accounts!None, Accounts!Gone}]
             /\ rows'[i] = Accounts!Gone
        /\ \A j \in Accounts!Ids \ {i} : rows'[j] = rows[j]
    BY <1>0, <2>1, <2>2, RowBecomes
  <2>5. UNCHANGED <<siem, login, passed>> /\ ssoOps' \in 0 .. MaxAccountOps
    BY <1>4, <1>o DEF Accounts!HardDelete
  <2>6. Accounts!TypeOK'
    BY <1>0, <2>1, <2>2, <2>4, <2>5 DEF Accounts!TypeOK
  <2>7. Detached'
    BY <1>0, <2>1, <2>2, <2>4, <2>5 DEF AccountsInv, Detached, HasRow, Accounts!TypeOK
  <2>8. ASSUME NEW l \in Logins PROVE LoginHolds(l)'
    <3>1. login[l].at \in {"reconcile", "sync"} => login[l].id \in Accounts!Ids
      BY <1>0, LoginTypes DEF Loading
    <3> QED BY <1>0, <2>1, <2>2, <2>5, <3>1 DEF AccountsInv, LoginHolds, Accounts!TypeOK
  <2>9. \A p \in People : \A j \in got'[p] : j \in got[p] /\ rows'[j] # Accounts!Gone
    BY <1>0, <2>1, <2>4, NotRows DEF AccountsInv, LetIn, HasRow, Accounts!TypeOK
  <2>10. SiemKnows'
    BY <2>5 DEF AccountsInv, SiemKnows
  <2>11. \A j \in Accounts!Ids : RowStands(j)
    BY <2>2, <2>4 DEF RowStands, HasRow
  <2> QED BY <2>5, <2>6, <2>7, <2>8, <2>9, <2>10, <2>11, EditsStand
<1>5. CASE Accounts!CreateUser
  <2>1. PICK e \in Accounts!Emails, managed \in BOOLEAN, i \in Accounts!Fresh : Accounts!Row(i, Accounts!Account(e, Accounts!NoRole, "VIEWER", managed))
    BY <1>5 DEF Accounts!CreateUser
  <2> DEFINE row == Accounts!Account(e, Accounts!NoRole, "VIEWER", managed)
  <2>2. row \in Accounts!Rows /\ row.sub = Accounts!NoRole
    BY DEF Accounts!Account, Accounts!Rows, Accounts!Roles, Accounts!Identities
  <2> HIDE DEF row
  <2>3. i \in Accounts!Ids /\ rows[i] = Accounts!None
    BY DEF Accounts!Fresh
  <2>4. /\ rows' \in [Accounts!Ids -> Accounts!Rows \cup {Accounts!None, Accounts!Gone}]
             /\ rows'[i] = row
        /\ \A j \in Accounts!Ids \ {i} : rows'[j] = rows[j]
    BY <1>0, <2>1, <2>2, <2>3, RowBecomes DEF row
  <2>5. UNCHANGED <<siem, login, pinned, passed, got>> /\ ssoOps' \in 0 .. MaxAccountOps
    BY <1>5, <1>o DEF Accounts!CreateUser
  <2>6. Accounts!TypeOK'
    BY <1>0, <2>4, <2>5 DEF Accounts!TypeOK
  <2>7. IdentitiesApart'
    BY <2>2, <2>3, <2>4 DEF AccountsInv, IdentitiesApart, HasRow
  <2>8. LetIn' /\ Detached'
    BY <1>0, <2>3, <2>4, <2>5, NotRows DEF AccountsInv, Accounts!TypeOK, LetIn, Detached, HasRow
  <2>9. SiemKnows'
    BY <2>5 DEF AccountsInv, SiemKnows
  <2>10. ASSUME NEW m \in Logins PROVE LoginKnows(m)' /\ LoginHolds(m)'
    <3>1. LoginHolds(m)'
      BY <2>5, LoginHoldsOn DEF AccountsInv
    <3>2. LoginKnows(m) /\ login'[m] = login[m]
      BY <2>5 DEF AccountsInv
    <3>3. login[m].at \in {"reconcile", "sync", "in"} => login[m].id \in Accounts!Ids \ {i}
      BY <1>0, <2>3, <3>2, LoginTypes DEF Loading, LoginKnows
    <3>4. login[m].at \in {"reconcile", "sync", "in"} => rows'[login[m].id] = rows[login[m].id]
      BY <2>4, <3>3
    <3>5. LoginKnows(m)'
      BY <3>2, <3>4 DEF LoginKnows, Mine, HasRow
    <3> QED BY <3>1, <3>5
  <2> QED BY <2>6, <2>7, <2>8, <2>9, <2>10 DEF AccountsInv
<1>6. CASE Accounts!Rename \/ Accounts!ChangeRole
  <2>1. UNCHANGED <<rows, login, pinned, passed, got>> /\ ssoOps' \in 0 .. MaxAccountOps
    BY <1>6, <1>o DEF Accounts!Rename, Accounts!ChangeRole
  <2>2. siem' \in [People -> [email : Accounts!Emails, role : Accounts!Roles]] /\ SiemKnows'
    <3>1. CASE Accounts!Rename
      <4>1. PICK p \in People : \E k \in DOMAIN Addresses[p] : siem' = [siem EXCEPT ![p].email = Addresses[p][k]]
        BY <3>1 DEF Accounts!Rename
      <4>2. PICK k \in DOMAIN Addresses[p] : siem' = [siem EXCEPT ![p].email = Addresses[p][k]]
        BY <4>1
      <4>3. Addresses[p][k] \in Own(p) /\ Addresses[p][k] \in Accounts!Emails
        BY DEF Own, Accounts!Emails
      <4> QED BY <1>0, <4>2, <4>3 DEF AccountsInv, SiemKnows, Accounts!TypeOK
    <3>2. CASE Accounts!ChangeRole
      <4>1. PICK p \in People, role \in Accounts!Roles : siem' = [siem EXCEPT ![p].role = role]
        BY <3>2 DEF Accounts!ChangeRole
      <4> QED BY <1>0, <4>1 DEF AccountsInv, SiemKnows, Accounts!TypeOK
    <3> QED BY <1>6, <3>1, <3>2
  <2>3. Accounts!TypeOK'
    BY <1>0, <2>1, <2>2 DEF Accounts!TypeOK
  <2>4. \A i \in Accounts!Ids : RowStands(i)
    BY <2>1 DEF RowStands
  <2>5. Detached' /\ \A l \in Logins : LoginHolds(l)'
    BY <2>1, LoginHoldsOn DEF AccountsInv, Detached, HasRow
  <2>6. \A p \in People : \A j \in got'[p] : j \in got[p] /\ rows'[j] # Accounts!Gone
    BY <2>1, NotRows DEF AccountsInv, LetIn, HasRow
  <2> QED BY <2>1, <2>2, <2>3, <2>4, <2>5, <2>6, EditsStand
<1> QED BY <1>1, <1>2, <1>3, <1>4, <1>5, <1>6

LEMMA AccountsSteps == AccountsInv /\ [Accounts!Next]_(Accounts!vars) => AccountsInv'
<1> SUFFICES ASSUME AccountsInv, [Accounts!Next]_(Accounts!vars) PROVE AccountsInv'
  OBVIOUS
<1>1. ASSUME NEW l \in Logins, Accounts!Exchange(l) PROVE AccountsInv'
  BY <1>1, ExchangeBegin, ExchangeFind, ExchangeReconcile, ExchangeCheck, ExchangeInsert,
     ExchangeSync, ExchangeAgain DEF Accounts!Exchange
<1>2. CASE UNCHANGED Accounts!vars
  BY <1>2 DEF Accounts!vars, AccountsInv, Accounts!TypeOK, IdentitiesApart, LetIn, SiemKnows,
     Detached, LoginKnows, LoginHolds, Mine, HasRow
<1> QED BY <1>1, <1>2, EditsAreSafe DEF Accounts!Next

\* What the invariant says of the people.
LEMMA AccountsKept == AccountsInv => Accounts!OneAccountPerPerson /\ Accounts!ManualRoleStays
<1> SUFFICES ASSUME AccountsInv PROVE Accounts!OneAccountPerPerson /\ Accounts!ManualRoleStays
  OBVIOUS
<1>1. ASSUME NEW p \in People PROVE Accounts!Cardinality(got[p]) <= 1
  <2>1. \A i, j \in got[p] : i = j
    BY <1>1, AccountsAssumption DEF AccountsInv, Accounts!TypeOK, LetIn, IdentitiesApart
  <2>2. CASE got[p] = {}
    BY <2>2, FS_EmptySet, AccountsCounts
  <2>3. CASE got[p] # {}
    <3>1. PICK i : i \in got[p]
      BY <2>3
    <3>2. got[p] = {i}
      BY <2>1, <3>1
    <3>3. Accounts!Cardinality(got[p]) = 1
      BY <3>2, FS_Singleton, AccountsCounts
    <3> QED BY <3>3
  <2> QED BY <2>2, <2>3
<1>2. Accounts!ManualRoleStays
  BY UsedIsTaken DEF AccountsInv, Detached, Accounts!ManualRoleStays
<1> QED BY <1>1, <1>2 DEF Accounts!OneAccountPerPerson

\* A behaviour of the server is one of its accounts'.
LEMMA AccountsRuns == ServerSpec => Accounts!Spec
<1>1. ServerInit => Accounts!Init
  BY DEF ServerInit
<1>2. [ServerNext]_serverVars => [Accounts!Next]_(Accounts!vars)
  BY DEF ServerNext, Runs, Picked, serverVars, accountsVars, Accounts!vars
<1> QED BY <1>1, <1>2, PTL DEF ServerSpec, Accounts!Spec

LEMMA AccountsHolds == ServerSpec => []AccountsInv
<1>1. Accounts!Init => AccountsInv
  BY AccountsBegin
<1>2. AccountsInv /\ [Accounts!Next]_(Accounts!vars) => AccountsInv'
  BY AccountsSteps
<1> QED BY <1>1, <1>2, AccountsRuns, PTL DEF Accounts!Spec

-----------------------------------------------------------------------------
(* Second factors, tokens and failed logins *)

\* Cardinality is the same operator in the instance as here.
LEMMA SignInCounts == \A S : SignIn!Cardinality(S) = Cardinality(S)
BY DEF SignIn!Cardinality, Cardinality

\* What a request about the second factor read let it begin.
RequestsWereAllowed ==
  \A t \in Tabs : /\ SignIn!At(t, "setup") => ~tabs[t].read.enabled
                  /\ SignIn!At(t, "verify") => tabs[t].read.secret # 0

SignInInv == SignIn!TypeOK /\ RequestsWereAllowed /\ SignIn!FactorIsOwn /\ SignIn!LimitRunsOut

LEMMA CounterBound == Limit + SignIn!Cardinality(Tabs) \in Nat
BY SignInAssumption, FS_CardinalityType, SignInCounts

TabStages == {"idle", "password", "expire", "renew", "half", "setup", "verify", "reset"}
Person == [enabled : BOOLEAN, secret : 0 .. MaxSecrets]

\* TypeOK in parts, each one about the variables that change together.
TypedPerson ==
  person \in Person /\ drawn \in 0 .. MaxSecrets /\ proved \subseteq 1 .. MaxSecrets
TypedCounters == failures \in 0 .. Limit + SignIn!Cardinality(Tabs)
  /\ redisFaults \in 0 .. MaxRedisFaults
TypedFlags == windowed \in BOOLEAN /\ spoilt \in BOOLEAN /\ crossed \in BOOLEAN
  /\ bridge \in [Tabs -> BOOLEAN]
TypedTokens == tokens \in [Tabs -> [access : SignIn!States, refresh : SignIn!States]]
TypedTabs == tabs \in [Tabs -> [pc : TabStages, read : Person]]

LEMMA SignInParts ==
  /\ SignIn!TypeOK <=> TypedPerson /\ TypedCounters /\ TypedFlags /\ TypedTokens /\ TypedTabs
  /\ SignIn!TypeOK' <=> TypedPerson' /\ TypedCounters' /\ TypedFlags' /\ TypedTokens' /\ TypedTabs'
BY DEF SignIn!TypeOK, TypedPerson, TypedCounters, TypedFlags, TypedTokens, TypedTabs, TabStages,
   Person

LEMMA SignInBegins == SignIn!Init => SignInInv
<1> SUFFICES ASSUME SignIn!Init PROVE SignInInv
  OBVIOUS
<1>1. SignIn!TypeOK
  <2>1. SignIn!Idle \in [pc : TabStages, read : Person]
          /\ SignIn!Signed("none") \in [access : SignIn!States, refresh : SignIn!States]
    BY SignInAssumption DEF SignIn!Idle, TabStages, Person, SignIn!Signed, SignIn!States
  <2>2. TypedPerson /\ TypedCounters
    BY SignInAssumption, CounterBound DEF SignIn!Init, TypedPerson, TypedCounters, Person
  <2>3. TypedFlags
    BY DEF SignIn!Init, TypedFlags
  <2>4. TypedTokens /\ TypedTabs
    BY <2>1 DEF SignIn!Init, TypedTokens, TypedTabs
  <2> QED BY <2>2, <2>3, <2>4, SignInParts
<1>2. RequestsWereAllowed /\ SignIn!FactorIsOwn /\ SignIn!LimitRunsOut
  BY DEF SignIn!Init, RequestsWereAllowed, SignIn!FactorIsOwn, SignIn!LimitRunsOut, SignIn!At,
     SignIn!Idle
<1> QED BY <1>1, <1>2 DEF SignInInv

\* A request goes on to another point, with what it read.
LEMMA TabMoves ==
  ASSUME SignIn!TypeOK, NEW t \in Tabs, NEW pc \in TabStages,
         SignIn!Go(t, pc) \/ SignIn!Wait(t, pc) \/ (SignIn!Answer(t) /\ pc = "idle")
  PROVE  /\ tabs' \in [Tabs -> [pc : TabStages, read : Person]]
         /\ SignIn!At(t, pc)' /\ \A u \in Tabs \ {t} : tabs'[u] = tabs[u]
         /\ tabs'[t].read = person \/ ~SignIn!Go(t, pc)
<1>1. person \in Person /\ SignIn!Idle \in [pc : TabStages, read : Person]
  BY SignInAssumption DEF SignIn!TypeOK, Person, SignIn!Idle, TabStages
<1>2. [pc |-> pc, read |-> person] \in [pc : TabStages, read : Person]
  BY <1>1
<1>3. [SignIn!Idle EXCEPT !.pc = pc] \in [pc : TabStages, read : Person]
        /\ [SignIn!Idle EXCEPT !.pc = pc].pc = pc
  BY <1>1
<1>4. tabs \in [Tabs -> [pc : TabStages, read : Person]]
  BY DEF SignIn!TypeOK, TabStages, Person
<1>5. SignIn!Idle.pc = "idle"
  BY DEF SignIn!Idle
<1> HIDE DEF SignIn!Idle
<1> QED BY <1>1, <1>2, <1>3, <1>4, <1>5 DEF SignIn!Go, SignIn!Wait, SignIn!Answer, SignIn!At

\* Most requests leave the account alone: what is left to see to is the counter.
LEMMA PersonStands ==
  ASSUME SignInInv, NEW t \in Tabs, NEW pc \in TabStages, SignIn!At(t, pc)',
         \A u \in Tabs \ {t} : tabs'[u] = tabs[u],
         pc = "setup" => ~tabs'[t].read.enabled, pc = "verify" => tabs'[t].read.secret # 0,
         UNCHANGED SignIn!accountVars
  PROVE  RequestsWereAllowed' /\ SignIn!FactorIsOwn'
BY DEF SignInInv, RequestsWereAllowed, SignIn!FactorIsOwn, SignIn!accountVars, SignIn!At

LEMMA CountersStand ==
  ASSUME SignInInv, NEW t \in Tabs, ~SignIn!At(t, "expire"), \A u \in Tabs \ {t} : tabs'[u] = tabs[u],
         UNCHANGED SignIn!counterVars
  PROVE  SignIn!LimitRunsOut'
BY DEF SignInInv, SignIn!LimitRunsOut, SignIn!counterVars, SignIn!At

LEMMA TokensTyped ==
  ASSUME SignIn!TypeOK, NEW t \in Tabs, NEW s \in SignIn!States
  PROVE  /\ [tokens EXCEPT ![t].access = s] \in [Tabs -> [access : SignIn!States, refresh : SignIn!States]]
         /\ [tokens EXCEPT ![t].refresh = s] \in [Tabs -> [access : SignIn!States, refresh : SignIn!States]]
         /\ [tokens EXCEPT ![t] = SignIn!Signed("good")] \in [Tabs -> [access : SignIn!States, refresh : SignIn!States]]
<1>1. tokens[t] \in [access : SignIn!States, refresh : SignIn!States]
  BY DEF SignIn!TypeOK
<1>2. /\ [tokens[t] EXCEPT !.access = s] \in [access : SignIn!States, refresh : SignIn!States]
      /\ [tokens[t] EXCEPT !.refresh = s] \in [access : SignIn!States, refresh : SignIn!States]
  BY <1>1
<1>3. SignIn!Signed("good") \in [access : SignIn!States, refresh : SignIn!States]
  BY DEF SignIn!Signed, SignIn!States
<1> QED BY <1>2, <1>3 DEF SignIn!TypeOK

\* What a request writes of the account is an account.
LEMMA StoreIsTyped ==
  ASSUME NEW t \in Tabs, NEW new \in Person, person \in Person, SignIn!Store(t, new)
  PROVE  person' \in Person
BY DEF SignIn!Store, Person

\* The types are kept, part by part.
LEMMA SignInTypes ==
  ASSUME SignIn!TypeOK, RequestsWereAllowed, NEW t \in Tabs, SignIn!TabNext(t)
  PROVE  TypedPerson' /\ TypedCounters' /\ TypedFlags' /\ TypedTokens'
<1> USE SignInAssumption, CounterBound
<1>1. TypedPerson /\ TypedCounters /\ TypedFlags /\ TypedTokens /\ TypedTabs
  BY SignInParts
<1>2. TypedPerson'
  <2>1. \/ UNCHANGED <<person, drawn, proved>> \/ \E right \in BOOLEAN : SignIn!Validate(t, right)
        \/ SignIn!Setup(t) \/ SignIn!Verify(t) \/ SignIn!Reset(t)
    BY DEF SignIn!TabNext, SignIn!Login, SignIn!Uncounted, SignIn!LoginWrong, SignIn!LoginExpire,
       SignIn!LoginRight, SignIn!RefreshBegin, SignIn!RefreshEnd, SignIn!LogoutAccess,
       SignIn!LogoutRefresh, SignIn!SetupBegin, SignIn!SetupDenied, SignIn!VerifyBegin,
       SignIn!ResetBegin, SignIn!Begin, SignIn!accountVars
  <2>2. tabs[t].read \in Person /\ (SignIn!At(t, "verify") => tabs[t].read.secret # 0)
    BY <1>1 DEF TypedTabs, RequestsWereAllowed
  <2>3. CASE UNCHANGED <<person, drawn, proved>>
    BY <1>1, <2>3 DEF TypedPerson
  <2>4. CASE \E right \in BOOLEAN : SignIn!Validate(t, right)
    <3>1. person.secret # 0 => person.secret \in 1 .. MaxSecrets
      BY <1>1 DEF TypedPerson, Person
    <3>2. proved' \subseteq 1 .. MaxSecrets
      BY <1>1, <2>4, <3>1 DEF SignIn!Validate, TypedPerson
    <3> QED BY <1>1, <2>4, <3>2 DEF SignIn!Validate, TypedPerson
  <2>5. CASE SignIn!Setup(t)
    <3>1. [tabs[t].read EXCEPT !.secret = drawn + 1] \in Person
      BY <1>1, <2>2, <2>5 DEF SignIn!Setup, TypedPerson, Person
    <3>2. person' \in Person
      BY <1>1, <2>5, <3>1, StoreIsTyped DEF SignIn!Setup, TypedPerson
    <3> QED BY <1>1, <2>5, <3>2 DEF SignIn!Setup, TypedPerson
  <2>6. CASE SignIn!Verify(t)
    <3>1. [tabs[t].read EXCEPT !.enabled = TRUE] \in Person
      BY <2>2 DEF Person
    <3>2. person' \in Person
      BY <1>1, <2>6, <3>1, StoreIsTyped DEF SignIn!Verify, TypedPerson
    <3>3. tabs[t].read.secret \in 1 .. MaxSecrets
      BY <2>2, <2>6 DEF SignIn!Verify, Person
    <3>4. proved' \subseteq 1 .. MaxSecrets
      BY <1>1, <2>6, <3>3 DEF SignIn!Verify, TypedPerson
    <3> QED BY <1>1, <2>6, <3>2, <3>4 DEF SignIn!Verify, TypedPerson
  <2>7. CASE SignIn!Reset(t)
    <3>1. [enabled |-> FALSE, secret |-> 0] \in Person
      BY DEF Person
    <3>2. person' \in Person
      BY <1>1, <2>7, <3>1, StoreIsTyped DEF SignIn!Reset, TypedPerson
    <3> QED BY <1>1, <2>7, <3>2 DEF SignIn!Reset, TypedPerson
  <2> QED BY <2>1, <2>3, <2>4, <2>5, <2>6, <2>7
<1>3. TypedCounters'
  BY <1>1 DEF SignIn!TabNext, SignIn!Login, SignIn!Uncounted, SignIn!LoginWrong,
     SignIn!LoginExpire, SignIn!LoginRight, SignIn!Validate, SignIn!RefreshBegin,
     SignIn!RefreshEnd, SignIn!LogoutAccess, SignIn!LogoutRefresh, SignIn!SetupBegin,
     SignIn!Setup, SignIn!SetupDenied, SignIn!VerifyBegin, SignIn!Verify, SignIn!ResetBegin,
     SignIn!Reset, SignIn!Begin, SignIn!Admitted, SignIn!counterVars, SignIn!Fault,
     SignIn!Steady, TypedCounters
<1>4. TypedFlags'
  <2>1. bridge' = bridge \/ \E b \in BOOLEAN : bridge' = [bridge EXCEPT ![t] = b]
    BY DEF SignIn!TabNext, SignIn!Login, SignIn!Uncounted, SignIn!LoginWrong, SignIn!LoginExpire,
       SignIn!LoginRight, SignIn!Validate, SignIn!RefreshBegin, SignIn!RefreshEnd,
       SignIn!LogoutAccess, SignIn!LogoutRefresh, SignIn!SetupBegin, SignIn!Setup,
       SignIn!SetupDenied, SignIn!VerifyBegin, SignIn!Verify, SignIn!ResetBegin, SignIn!Reset,
       SignIn!Begin
  <2>2. crossed' = crossed \/ crossed' = (crossed \/ person # tabs[t].read)
    BY DEF SignIn!TabNext, SignIn!Login, SignIn!Uncounted, SignIn!LoginWrong, SignIn!LoginExpire,
       SignIn!LoginRight, SignIn!Validate, SignIn!RefreshBegin, SignIn!RefreshEnd,
       SignIn!LogoutAccess, SignIn!LogoutRefresh, SignIn!SetupBegin, SignIn!Setup,
       SignIn!SetupDenied, SignIn!VerifyBegin, SignIn!Verify, SignIn!ResetBegin, SignIn!Reset,
       SignIn!Begin, SignIn!accountVars, SignIn!Store
  <2>3. \/ UNCHANGED <<windowed, spoilt>> \/ (windowed' = FALSE /\ UNCHANGED spoilt)
        \/ (windowed' = (failures > 0) /\ UNCHANGED spoilt) \/ (spoilt' = TRUE /\ UNCHANGED windowed)
    BY DEF SignIn!TabNext, SignIn!Login, SignIn!Uncounted, SignIn!LoginWrong, SignIn!LoginExpire,
       SignIn!LoginRight, SignIn!Validate, SignIn!RefreshBegin, SignIn!RefreshEnd,
       SignIn!LogoutAccess, SignIn!LogoutRefresh, SignIn!SetupBegin, SignIn!Setup,
       SignIn!SetupDenied, SignIn!VerifyBegin, SignIn!Verify, SignIn!ResetBegin, SignIn!Reset,
       SignIn!Begin, SignIn!counterVars
  <2>4. bridge' \in [Tabs -> BOOLEAN]
    BY <1>1, <2>1 DEF TypedFlags
  <2>5. crossed' \in BOOLEAN
    BY <1>1, <2>2, Zenon DEF TypedFlags
  <2>6. windowed' \in BOOLEAN /\ spoilt' \in BOOLEAN
    <3>1. (failures > 0) \in BOOLEAN
      OBVIOUS
    <3> HIDE DEF TypedFlags
    <3>2. windowed \in BOOLEAN /\ spoilt \in BOOLEAN
      BY <1>1 DEF TypedFlags
    <3> QED BY <2>3, <3>1, <3>2, Zenon
  <2> QED BY <2>4, <2>5, <2>6 DEF TypedFlags
<1>5. TypedTokens'
  <2>1. \/ UNCHANGED tokens \/ tokens' = [tokens EXCEPT ![t] = SignIn!Signed("good")]
        \/ tokens' = [tokens EXCEPT ![t].access = "revoked"]
             \/ tokens' = [tokens EXCEPT ![t].refresh = "revoked"]
    BY DEF SignIn!TabNext, SignIn!Login, SignIn!Uncounted, SignIn!LoginWrong, SignIn!LoginExpire,
       SignIn!LoginRight, SignIn!Validate, SignIn!RefreshBegin, SignIn!RefreshEnd,
       SignIn!LogoutAccess, SignIn!LogoutRefresh, SignIn!SetupBegin, SignIn!Setup,
       SignIn!SetupDenied, SignIn!VerifyBegin, SignIn!Verify, SignIn!ResetBegin, SignIn!Reset,
       SignIn!Begin, SignIn!Enter
  <2>2. tokens \in [Tabs -> [access : SignIn!States, refresh : SignIn!States]]
          /\ "revoked" \in SignIn!States
    BY <1>1 DEF TypedTokens, SignIn!States
  <2>3. /\ [tokens EXCEPT ![t] = SignIn!Signed("good")] \in [Tabs -> [access : SignIn!States, refresh : SignIn!States]]
        /\ [tokens EXCEPT ![t].access = "revoked"] \in [Tabs -> [access : SignIn!States, refresh : SignIn!States]]
        /\ [tokens EXCEPT ![t].refresh = "revoked"] \in [Tabs -> [access : SignIn!States, refresh : SignIn!States]]
    BY <2>2, TokensTyped
  <2> QED BY <2>1, <2>2, <2>3 DEF TypedTokens
<1> QED BY <1>2, <1>3, <1>4, <1>5

LEMMA SignInSteps == SignInInv /\ [SignIn!Next]_(SignIn!vars) => SignInInv'
<1> SUFFICES ASSUME SignInInv, [SignIn!Next]_(SignIn!vars) PROVE SignInInv'
  OBVIOUS
<1> USE SignInAssumption, CounterBound
<1>t. SignIn!TypeOK
  BY DEF SignInInv
<1>k. ASSUME NEW t \in Tabs, SignIn!TabNext(t)
      PROVE  TypedPerson' /\ TypedCounters' /\ TypedFlags' /\ TypedTokens'
  BY <1>k, SignInTypes DEF SignInInv
<1>1. ASSUME NEW t \in Tabs, SignIn!Login(t) PROVE SignInInv'
  <2>1. /\ tabs' \in [Tabs -> [pc : TabStages, read : Person]]
        /\ SignIn!At(t, "password")' /\ \A u \in Tabs \ {t} : tabs'[u] = tabs[u]
    BY <1>1, <1>t, TabMoves DEF SignIn!Login, TabStages
  <2>2. RequestsWereAllowed' /\ SignIn!FactorIsOwn'
    BY <1>1, <2>1, PersonStands DEF SignIn!Login, TabStages
  <2>3. SignIn!LimitRunsOut'
    BY <1>1, <2>1, CountersStand DEF SignIn!Login, SignIn!At
  <2>4. SignIn!TypeOK'
    BY <1>1, <1>t, <1>k, <2>1, SignInParts DEF SignIn!TabNext, TypedTabs
  <2> QED BY <2>2, <2>3, <2>4 DEF SignInInv
<1>2. ASSUME NEW t \in Tabs, SignIn!Uncounted(t) PROVE SignInInv'
  <2>1. /\ tabs' \in [Tabs -> [pc : TabStages, read : Person]]
        /\ SignIn!At(t, "idle")' /\ \A u \in Tabs \ {t} : tabs'[u] = tabs[u]
    BY <1>2, <1>t, TabMoves DEF SignIn!Uncounted, TabStages
  <2>2. RequestsWereAllowed' /\ SignIn!FactorIsOwn'
    BY <1>2, <2>1, PersonStands DEF SignIn!Uncounted, TabStages
  <2>3. SignIn!LimitRunsOut'
    BY <1>2, <2>1, CountersStand DEF SignIn!Uncounted, SignIn!At
  <2>4. SignIn!TypeOK'
    BY <1>2, <1>t, <1>k, <2>1, SignInParts DEF SignIn!TabNext, TypedTabs
  <2> QED BY <2>2, <2>3, <2>4 DEF SignInInv
<1>3. ASSUME NEW t \in Tabs, SignIn!LoginExpire(t) PROVE SignInInv'
  <2>1. /\ tabs' \in [Tabs -> [pc : TabStages, read : Person]]
        /\ SignIn!At(t, "idle")' /\ \A u \in Tabs \ {t} : tabs'[u] = tabs[u]
    BY <1>3, <1>t, TabMoves DEF SignIn!LoginExpire, TabStages
  <2>2. RequestsWereAllowed' /\ SignIn!FactorIsOwn'
    BY <1>3, <2>1, PersonStands DEF SignIn!LoginExpire, TabStages
  <2>3. SignIn!LimitRunsOut'
    BY <1>3, <2>1 DEF SignIn!LoginExpire, SignInInv, SignIn!LimitRunsOut, SignIn!At, SignIn!TypeOK
  <2>4. SignIn!TypeOK'
    BY <1>3, <1>t, <1>k, <2>1, SignInParts DEF SignIn!TabNext, TypedTabs
  <2> QED BY <2>2, <2>3, <2>4 DEF SignInInv
<1>4. ASSUME NEW t \in Tabs, SignIn!LoginRight(t) PROVE SignInInv'
  <2>1. /\ tabs' \in [Tabs -> [pc : TabStages, read : Person]]
        /\ SignIn!At(t, "idle")' /\ \A u \in Tabs \ {t} : tabs'[u] = tabs[u]
    BY <1>4, <1>t, TabMoves DEF SignIn!LoginRight, TabStages
  <2>2. RequestsWereAllowed' /\ SignIn!FactorIsOwn'
    BY <1>4, <2>1, PersonStands DEF SignIn!LoginRight, TabStages
  <2>3. SignIn!LimitRunsOut'
    BY <1>4, <2>1 DEF SignIn!LoginRight, SignInInv, SignIn!LimitRunsOut, SignIn!At, SignIn!TypeOK
  <2>4. SignIn!TypeOK'
    BY <1>4, <1>t, <1>k, <2>1, SignInParts DEF SignIn!TabNext, TypedTabs
  <2> QED BY <2>2, <2>3, <2>4 DEF SignInInv
<1>5. ASSUME NEW t \in Tabs, SignIn!RefreshBegin(t) PROVE SignInInv'
  <2>1. /\ tabs' \in [Tabs -> [pc : TabStages, read : Person]]
        /\ SignIn!At(t, "renew")' /\ \A u \in Tabs \ {t} : tabs'[u] = tabs[u]
    BY <1>5, <1>t, TabMoves DEF SignIn!RefreshBegin, TabStages
  <2>2. RequestsWereAllowed' /\ SignIn!FactorIsOwn'
    BY <1>5, <2>1, PersonStands DEF SignIn!RefreshBegin, TabStages
  <2>3. SignIn!LimitRunsOut'
    BY <1>5, <2>1, CountersStand DEF SignIn!RefreshBegin, SignIn!At
  <2>4. SignIn!TypeOK'
    BY <1>5, <1>t, <1>k, <2>1, SignInParts DEF SignIn!TabNext, TypedTabs
  <2> QED BY <2>2, <2>3, <2>4 DEF SignInInv
<1>6. ASSUME NEW t \in Tabs, SignIn!RefreshEnd(t) PROVE SignInInv'
  <2>1. /\ tabs' \in [Tabs -> [pc : TabStages, read : Person]]
        /\ SignIn!At(t, "idle")' /\ \A u \in Tabs \ {t} : tabs'[u] = tabs[u]
    BY <1>6, <1>t, TabMoves DEF SignIn!RefreshEnd, TabStages
  <2>2. RequestsWereAllowed' /\ SignIn!FactorIsOwn'
    BY <1>6, <2>1, PersonStands DEF SignIn!RefreshEnd, TabStages
  <2>3. SignIn!LimitRunsOut'
    BY <1>6, <2>1, CountersStand DEF SignIn!RefreshEnd, SignIn!At
  <2>4. SignIn!TypeOK'
    BY <1>6, <1>t, <1>k, <2>1, SignInParts DEF SignIn!TabNext, TypedTabs
  <2> QED BY <2>2, <2>3, <2>4 DEF SignInInv
<1>7. ASSUME NEW t \in Tabs, SignIn!LogoutAccess(t) PROVE SignInInv'
  <2>1. /\ tabs' \in [Tabs -> [pc : TabStages, read : Person]]
        /\ SignIn!At(t, "half")' /\ \A u \in Tabs \ {t} : tabs'[u] = tabs[u]
    BY <1>7, <1>t, TabMoves DEF SignIn!LogoutAccess, SignIn!Usable, TabStages
  <2>2. RequestsWereAllowed' /\ SignIn!FactorIsOwn'
    BY <1>7, <2>1, PersonStands DEF SignIn!LogoutAccess, SignIn!Usable, TabStages
  <2>3. SignIn!LimitRunsOut'
    BY <1>7, <2>1, CountersStand DEF SignIn!LogoutAccess, SignIn!Usable, SignIn!At
  <2>4. SignIn!TypeOK'
    BY <1>7, <1>t, <1>k, <2>1, SignInParts DEF SignIn!TabNext, TypedTabs
  <2> QED BY <2>2, <2>3, <2>4 DEF SignInInv
<1>8. ASSUME NEW t \in Tabs, SignIn!LogoutRefresh(t) PROVE SignInInv'
  <2>1. /\ tabs' \in [Tabs -> [pc : TabStages, read : Person]]
        /\ SignIn!At(t, "idle")' /\ \A u \in Tabs \ {t} : tabs'[u] = tabs[u]
    BY <1>8, <1>t, TabMoves DEF SignIn!LogoutRefresh, TabStages
  <2>2. RequestsWereAllowed' /\ SignIn!FactorIsOwn'
    BY <1>8, <2>1, PersonStands DEF SignIn!LogoutRefresh, TabStages
  <2>3. SignIn!LimitRunsOut'
    BY <1>8, <2>1, CountersStand DEF SignIn!LogoutRefresh, SignIn!At
  <2>4. SignIn!TypeOK'
    BY <1>8, <1>t, <1>k, <2>1, SignInParts DEF SignIn!TabNext, TypedTabs
  <2> QED BY <2>2, <2>3, <2>4 DEF SignInInv
<1>9. ASSUME NEW t \in Tabs, SignIn!SetupBegin(t) PROVE SignInInv'
  <2>1. /\ tabs' \in [Tabs -> [pc : TabStages, read : Person]]
        /\ SignIn!At(t, "setup")' /\ \A u \in Tabs \ {t} : tabs'[u] = tabs[u]
    BY <1>9, <1>t, TabMoves DEF SignIn!SetupBegin, SignIn!Begin, SignIn!Admitted, SignIn!Usable,
       TabStages
  <2>a. tabs'[t].read = person
    BY <1>9, <1>t DEF SignIn!SetupBegin, SignIn!Begin, SignIn!Admitted, SignIn!Usable, SignIn!Go,
       SignIn!TypeOK
  <2>2. RequestsWereAllowed' /\ SignIn!FactorIsOwn'
    BY <1>9, <2>1, <2>a, PersonStands DEF SignIn!SetupBegin, SignIn!Begin, SignIn!Admitted,
       SignIn!Usable, TabStages
  <2>3. SignIn!LimitRunsOut'
    BY <1>9, <2>1, CountersStand DEF SignIn!SetupBegin, SignIn!Begin, SignIn!Admitted,
       SignIn!Usable, SignIn!At
  <2>4. SignIn!TypeOK'
    BY <1>9, <1>t, <1>k, <2>1, SignInParts DEF SignIn!TabNext, TypedTabs
  <2> QED BY <2>2, <2>3, <2>4 DEF SignInInv
<1>10. ASSUME NEW t \in Tabs, SignIn!SetupDenied(t) PROVE SignInInv'
  <2>1. /\ tabs' \in [Tabs -> [pc : TabStages, read : Person]]
        /\ SignIn!At(t, "idle")' /\ \A u \in Tabs \ {t} : tabs'[u] = tabs[u]
    BY <1>10, <1>t, TabMoves DEF SignIn!SetupDenied, TabStages
  <2>2. RequestsWereAllowed' /\ SignIn!FactorIsOwn'
    BY <1>10, <2>1, PersonStands DEF SignIn!SetupDenied, TabStages
  <2>3. SignIn!LimitRunsOut'
    BY <1>10, <2>1, CountersStand DEF SignIn!SetupDenied, SignIn!At
  <2>4. SignIn!TypeOK'
    BY <1>10, <1>t, <1>k, <2>1, SignInParts DEF SignIn!TabNext, TypedTabs
  <2> QED BY <2>2, <2>3, <2>4 DEF SignInInv
<1>11. ASSUME NEW t \in Tabs, SignIn!VerifyBegin(t) PROVE SignInInv'
  <2>1. /\ tabs' \in [Tabs -> [pc : TabStages, read : Person]]
        /\ SignIn!At(t, "verify")' /\ \A u \in Tabs \ {t} : tabs'[u] = tabs[u]
    BY <1>11, <1>t, TabMoves DEF SignIn!VerifyBegin, SignIn!Begin, SignIn!Admitted,
       SignIn!Usable, TabStages
  <2>a. tabs'[t].read = person
    BY <1>11, <1>t DEF SignIn!VerifyBegin, SignIn!Begin, SignIn!Admitted, SignIn!Usable,
       SignIn!Go, SignIn!TypeOK
  <2>2. RequestsWereAllowed' /\ SignIn!FactorIsOwn'
    BY <1>11, <2>1, <2>a, PersonStands DEF SignIn!VerifyBegin, SignIn!Begin, SignIn!Admitted,
       SignIn!Usable, TabStages
  <2>3. SignIn!LimitRunsOut'
    BY <1>11, <2>1, CountersStand DEF SignIn!VerifyBegin, SignIn!Begin, SignIn!Admitted,
       SignIn!Usable, SignIn!At
  <2>4. SignIn!TypeOK'
    BY <1>11, <1>t, <1>k, <2>1, SignInParts DEF SignIn!TabNext, TypedTabs
  <2> QED BY <2>2, <2>3, <2>4 DEF SignInInv
<1>12. ASSUME NEW t \in Tabs, SignIn!ResetBegin(t) PROVE SignInInv'
  <2>1. /\ tabs' \in [Tabs -> [pc : TabStages, read : Person]]
        /\ SignIn!At(t, "reset")' /\ \A u \in Tabs \ {t} : tabs'[u] = tabs[u]
    BY <1>12, <1>t, TabMoves DEF SignIn!ResetBegin, TabStages
  <2>2. RequestsWereAllowed' /\ SignIn!FactorIsOwn'
    BY <1>12, <2>1, PersonStands DEF SignIn!ResetBegin, TabStages
  <2>3. SignIn!LimitRunsOut'
    BY <1>12, <2>1, CountersStand DEF SignIn!ResetBegin, SignIn!At
  <2>4. SignIn!TypeOK'
    BY <1>12, <1>t, <1>k, <2>1, SignInParts DEF SignIn!TabNext, TypedTabs
  <2> QED BY <2>2, <2>3, <2>4 DEF SignInInv
<1>13. ASSUME NEW t \in Tabs, SignIn!LoginWrong(t) PROVE SignInInv'
  <2>1. PICK pc \in {"idle", "expire"} :
          /\ tabs' \in [Tabs -> [pc : TabStages, read : Person]]
          /\ SignIn!At(t, pc)' /\ \A u \in Tabs \ {t} : tabs'[u] = tabs[u]
          /\ failures = 0 => pc = "expire"
    BY <1>13, <1>t, TabMoves DEF SignIn!LoginWrong, TabStages
  <2>2. RequestsWereAllowed' /\ SignIn!FactorIsOwn'
    BY <1>13, <2>1, PersonStands DEF SignIn!LoginWrong, TabStages
  <2>3. SignIn!LimitRunsOut'
    BY <1>13, <2>1 DEF SignIn!LoginWrong, SignInInv, SignIn!LimitRunsOut, SignIn!At, SignIn!TypeOK
  <2>4. SignIn!TypeOK'
    BY <1>13, <1>t, <1>k, <2>1, SignInParts DEF SignIn!TabNext, TypedTabs
  <2> QED BY <2>2, <2>3, <2>4 DEF SignInInv
<1>14. ASSUME NEW t \in Tabs, NEW right \in BOOLEAN, SignIn!Validate(t, right) PROVE SignInInv'
  <2>1. SignIn!TypeOK'
    BY <1>14, <1>t, <1>k, SignInParts DEF SignIn!TabNext, SignIn!Validate, TypedTabs
  <2>2. RequestsWereAllowed' /\ SignIn!FactorIsOwn' /\ SignIn!LimitRunsOut'
    BY <1>14 DEF SignIn!Validate, SignInInv, RequestsWereAllowed, SignIn!FactorIsOwn,
       SignIn!LimitRunsOut, SignIn!At, SignIn!counterVars
  <2> QED BY <2>1, <2>2 DEF SignInInv
<1>15. ASSUME NEW t \in Tabs, SignIn!Setup(t) PROVE SignInInv'
  <2>1. /\ tabs' \in [Tabs -> [pc : TabStages, read : Person]]
        /\ SignIn!At(t, "idle")' /\ \A u \in Tabs \ {t} : tabs'[u] = tabs[u]
    BY <1>15, <1>t, TabMoves DEF SignIn!Setup, TabStages
  <2>2. tabs[t].read \in Person /\ person \in Person
    BY <1>t DEF SignIn!TypeOK, Person
  <2>3. SignIn!LimitRunsOut'
    BY <1>15, <2>1, CountersStand DEF SignIn!Setup, SignIn!At
  <2>4. RequestsWereAllowed'
    BY <2>1 DEF SignInInv, RequestsWereAllowed, SignIn!At
  <2>5. SignIn!FactorIsOwn'
    BY <1>15, <2>2 DEF SignIn!Setup, SignIn!Store, SignInInv, RequestsWereAllowed,
       SignIn!FactorIsOwn, SignIn!At, Person
  <2>6. SignIn!TypeOK'
    BY <1>15, <1>t, <1>k, <2>1, SignInParts DEF SignIn!TabNext, TypedTabs
  <2> QED BY <2>3, <2>4, <2>5, <2>6 DEF SignInInv
<1>16. ASSUME NEW t \in Tabs, SignIn!Verify(t) PROVE SignInInv'
  <2>1. /\ tabs' \in [Tabs -> [pc : TabStages, read : Person]]
        /\ SignIn!At(t, "idle")' /\ \A u \in Tabs \ {t} : tabs'[u] = tabs[u]
    BY <1>16, <1>t, TabMoves DEF SignIn!Verify, TabStages
  <2>2. tabs[t].read \in Person /\ person \in Person
    BY <1>t DEF SignIn!TypeOK, Person
  <2>3. SignIn!LimitRunsOut'
    BY <1>16, <2>1, CountersStand DEF SignIn!Verify, SignIn!At
  <2>4. RequestsWereAllowed'
    BY <2>1 DEF SignInInv, RequestsWereAllowed, SignIn!At
  <2>5. SignIn!FactorIsOwn'
    BY <1>16, <2>2 DEF SignIn!Verify, SignIn!Store, SignInInv, RequestsWereAllowed,
       SignIn!FactorIsOwn, SignIn!At, Person
  <2>6. SignIn!TypeOK'
    BY <1>16, <1>t, <1>k, <2>1, SignInParts DEF SignIn!TabNext, TypedTabs
  <2> QED BY <2>3, <2>4, <2>5, <2>6 DEF SignInInv
<1>17. ASSUME NEW t \in Tabs, SignIn!Reset(t) PROVE SignInInv'
  <2>1. /\ tabs' \in [Tabs -> [pc : TabStages, read : Person]]
        /\ SignIn!At(t, "idle")' /\ \A u \in Tabs \ {t} : tabs'[u] = tabs[u]
    BY <1>17, <1>t, TabMoves DEF SignIn!Reset, TabStages
  <2>2. tabs[t].read \in Person /\ person \in Person
    BY <1>t DEF SignIn!TypeOK, Person
  <2>3. SignIn!LimitRunsOut'
    BY <1>17, <2>1, CountersStand DEF SignIn!Reset, SignIn!At
  <2>4. RequestsWereAllowed'
    BY <2>1 DEF SignInInv, RequestsWereAllowed, SignIn!At
  <2>5. SignIn!FactorIsOwn'
    BY <1>17, <2>2 DEF SignIn!Reset, SignIn!Store, SignInInv, RequestsWereAllowed,
       SignIn!FactorIsOwn, SignIn!At, Person
  <2>6. SignIn!TypeOK'
    BY <1>17, <1>t, <1>k, <2>1, SignInParts DEF SignIn!TabNext, TypedTabs
  <2> QED BY <2>3, <2>4, <2>5, <2>6 DEF SignInInv
<1>18. CASE SignIn!WindowEnds
  <2>1. TypedPerson /\ TypedCounters /\ TypedFlags /\ TypedTokens /\ TypedTabs
    BY <1>t, SignInParts
  <2>2. TypedPerson' /\ TypedTokens' /\ TypedTabs'
    BY <1>18, <2>1 DEF SignIn!WindowEnds, SignIn!accountVars, TypedPerson, TypedTokens, TypedTabs
  <2>3. TypedCounters'
    BY <1>18, <2>1 DEF SignIn!WindowEnds, TypedCounters
  <2>4. TypedFlags'
    BY <1>18, <2>1 DEF SignIn!WindowEnds, SignIn!accountVars, TypedFlags
  <2> QED
    <3>1. SignIn!TypeOK'
      BY <2>2, <2>3, <2>4, SignInParts
    <3> QED BY <1>18, <3>1 DEF SignIn!WindowEnds, SignInInv, RequestsWereAllowed,
               SignIn!FactorIsOwn, SignIn!LimitRunsOut, SignIn!At, SignIn!accountVars
<1>19. CASE UNCHANGED SignIn!vars
  BY <1>19 DEF SignIn!vars, SignInInv, SignIn!TypeOK, RequestsWereAllowed, SignIn!FactorIsOwn,
     SignIn!LimitRunsOut, SignIn!At
<1> QED
  BY <1>1, <1>2, <1>3, <1>4, <1>5, <1>6, <1>7, <1>8, <1>9, <1>10, <1>11, <1>12, <1>13, <1>14,
     <1>15, <1>16, <1>17, <1>18, <1>19 DEF SignIn!Next, SignIn!TabNext

\* A behaviour of the server is one of its sign-in's.
LEMMA SignInRuns == ServerSpec => SignIn!Spec
<1>1. ServerInit => SignIn!Init
  BY DEF ServerInit
<1>2. [ServerNext]_serverVars => [SignIn!Next]_(SignIn!vars)
  BY DEF ServerNext, Runs, Picked, serverVars, peopleVars, SignIn!vars
<1> QED BY <1>1, <1>2, PTL DEF ServerSpec, SignIn!Spec

LEMMA SignInHolds == ServerSpec => []SignInInv
<1>1. SignIn!Init => SignInInv
  BY SignInBegins
<1>2. SignInInv /\ [SignIn!Next]_(SignIn!vars) => SignInInv'
  BY SignInSteps
<1> QED BY <1>1, <1>2, SignInRuns, PTL DEF SignIn!Spec

\* However two exchanges, the admins' edits and the provider's changes
\* interleave, a person ends on one account and keeps a role that an admin set;
\* a second factor is asked of who has shown it once, and failed logins are
\* forgotten, but for requests that overlapped (sso_exchange, auth).
THEOREM PeopleKeepTheirAccountsHolds == ServerSpec => []PeopleKeepTheirAccounts
<1>1. AccountsInv /\ SignInInv => PeopleKeepTheirAccounts
  BY AccountsKept DEF PeopleKeepTheirAccounts, SignInInv
<1> QED BY <1>1, AccountsHolds, SignInHolds, PTL

=============================================================================
