---------------------------- MODULE RealtimeAnswer ----------------------------
(***************************************************************************)
(* POST /agents/{id}/policy/evaluate: a channel asks before it lets a      *)
(* transfer happen (evaluate_policy_realtime in api/v1/agents.py), and     *)
(* what each channel makes of the answer.                                  *)
(*                                                                         *)
(* A request says what the caller could not inspect (skipped), what the    *)
(* extraction of the bytes it sent gave (file: none, "bad" base64, or the  *)
(* status of the extraction), whether the caller had read the content      *)
(* (inspected), and the fields a policy may ask for.  The classification   *)
(* is a level and the levels of the Data Matching sources that were hit.   *)
(***************************************************************************)
EXTENDS Integers, PolicyRules

Ranks == [none |-> 0, low |-> 1, medium |-> 2, high |-> 3, critical |-> 4]
Severities == DOMAIN Ranks

\* The gravest of a set of severities.
Gravest(severities) ==
  CHOOSE s \in severities \cup {"none"} :
    \A t \in severities \cup {"none"} : Ranks[t] <= Ranks[s]

\* Mutant: what the caller says of its own reading is not looked at.
StatusOfFile(r) ==
  IF r.skipped # "none" THEN r.skipped ELSE IF r.file = "none" THEN "readable" ELSE r.file

\* Why, if at all, the content was not wholly read.
ExtractionStatus(r) ==
  LET status == IF r.skipped # "none"
                THEN IF r.skipped = "too_large" THEN "too_large" ELSE "unreadable"
                ELSE IF r.file = "none" THEN "readable" ELSE r.file
  IN IF r.inspected = "no" /\ status = "readable" THEN "unreadable" ELSE status

\* The text that is classified: none when the caller skipped the inspection.
Classified(r, level) == IF r.skipped # "none" THEN "Public" ELSE level

\* Only what the request carries becomes a field.
Field(name, values) == [n \in {m \in {name} : values # {}} |-> values]
Joined(a, b) == [n \in DOMAIN a \cup DOMAIN b |-> IF n \in DOMAIN a THEN a[n] ELSE b[n]]

EventData(r, level) ==
  Joined([classification_level |-> {Classified(r, level)},
          event_type           |-> {r.event_type},
          event_subtype        |-> {r.event_type},
          extraction_status    |-> {ExtractionStatus(r)}],
    Joined(Field("destination_type", r.destination_type),
      Joined(Field("source_path", r.source_path),
        Joined(Field("file_hash", r.file_hash), Field("file_extension", r.file_extension)))))

\* The policies, forms with a severity of their own, that match the request.
Triggered(policies, r, level) ==
  {p \in policies : Matches(Conditions(p.form), EventData(r, level))}

\* What the policies and the hits ask for, each with the severity of its alert.
\* The evaluator puts an action's parameters beside its type, so that the
\* severity found is the policy's.
Asked(triggered, hits) ==
  (UNION {{Action(a.type, IF a.type = "alert" THEN p.severity ELSE "none") :
             a \in Prepared(Actions(p.form))} : p \in triggered})
  \cup {CASE h = "Restricted"   -> Action("quarantine", "none")
          [] h = "Confidential" -> Action("alert", "critical")
          [] OTHER              -> Action("alert", "medium") : h \in hits}

\* Mutant: quarantine goes before block.
QuarantineFirst(types) ==
  IF "quarantine" \in types THEN "quarantine" ELSE IF "block" \in types THEN "block" ELSE "allow"

Strictest(types) ==
  IF "block" \in types THEN "block"
  ELSE IF "quarantine" \in types THEN "quarantine" ELSE "allow"

Response(action, severity, status) == [action |-> action, severity |-> severity, status |-> status]

Answer(policies, r, level, hits) ==
  LET asked == Asked(Triggered(policies, r, level), IF r.skipped = "none" THEN hits ELSE {})
  IN Response(Strictest({a.type : a \in asked}),
              Gravest({a.severity : a \in {b \in asked : b.type = "alert"}}),
              ExtractionStatus(r))

\* Any exception ends here, that of undecodable bytes too.
OnError(failClosed) ==
  IF failClosed THEN Response("block", "critical", "readable")
  ELSE Response("allow", "none", "readable")

Evaluated(policies, r, level, hits, failClosed) ==
  IF r.skipped = "none" /\ r.file = "bad" THEN OnError(failClosed)
  ELSE Answer(policies, r, level, hits)

-----------------------------------------------------------------------------
\* What a channel does with the answer: the mail relay and the browser's host
\* look for a block, then for a severity.
BlockElseAlert(answer) ==
  IF answer.action = "block" THEN "block" ELSE IF answer.severity # "none" THEN "alert" ELSE "allow"
MailAction(answer)    == BlockElseAlert(answer)
BrowserAction(answer) == BlockElseAlert(answer)
\* The Windows agent quarantines a file, and cancels a print job only on a block.
UsbAction(answer)   == IF answer.action = "allow" THEN BlockElseAlert(answer) ELSE answer.action
PrintAction(answer) == IF answer.action = "block" THEN "block" ELSE "allow"

\* What any of them may do.
ChannelActions(answer) ==
  {MailAction(answer), BrowserAction(answer), UsbAction(answer), PrintAction(answer)}

-----------------------------------------------------------------------------
Strength == [allow |-> 0, quarantine |-> 1, block |-> 2]
Milder(a, b) == Strength[a.action] < Strength[b.action] \/ Ranks[a.severity] < Ranks[b.severity]

\* "Purely additive - only ever turns ... further ON": one more policy or one
\* more hit never makes the answer to the same request milder.
MoreNeverMilder(policies, r, level, hits) ==
  /\ \A p \in policies : ~Milder(Answer(policies, r, level, hits),
                                 Answer(policies \ {p}, r, level, hits))
  /\ \A h \in hits : ~Milder(Answer(policies, r, level, hits),
                             Answer(policies, r, level, hits \ {h}))

\* A policy that enforces on a level enforces on the request whose content has
\* it, whatever else is asked for and though the evaluation fails when failures
\* are closed; content nobody read never has the status of content that was.
PolicyDecides(policies, r, level, hits) ==
  LET answer == Answer(policies, r, level, hits) IN
  /\ \A p \in policies :
       (p.form.type = "email_send_prevention" /\ p.form.action = "block" /\ r.skipped = "none"
          /\ "email" \in r.destination_type /\ level \in p.form.levels)
         => Evaluated(policies, r, level, hits, TRUE).action = "block"
  /\ (r.skipped # "none" \/ r.inspected = "no" \/ r.file \in {"unreadable", "too_large"})
       => answer.status # "readable"
  /\ answer.action = "block" => ChannelActions(answer) = {"block"}
=============================================================================
