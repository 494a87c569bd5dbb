-------------------------- MODULE Decisions_proofs --------------------------
(***************************************************************************)
(* Theorems about the decisions: what the properties of Decisions say holds *)
(* of every form, event, request, page, text, change and batch, not only of *)
(* those the run asks about.                                                *)
(***************************************************************************)
EXTENDS Decisions, FiniteSetTheorems, WellFoundedInduction, TLAPS

\* Whether an event meets a member of a group: a rule, or a group of rules.
Met(r, event) == IF "rules" \in DOMAIN r THEN Answers!MatchesGroup(r, event) ELSE Answers!Holds(r, event)

\* What the groups the rules are built from match.
LEMMA AllMatch ==
  ASSUME NEW rules, NEW event
  PROVE  Answers!Matches(Answers!Group("all", rules), event) <=> (rules # {} /\ \A r \in rules : Met(r, event))
<1>1. \A r \in rules : Met(r, event) \in BOOLEAN
  BY DEF Met, Answers!MatchesGroup, Answers!Holds, Answers!Combined
<1>2. Answers!Matches(Answers!Group("all", rules), event) <=>
        (rules # {} /\ FALSE \notin {Met(r, event) : r \in rules})
  BY DEF Answers!Matches, Answers!Group, Answers!Combined, Met
<1> QED BY <1>1, <1>2

LEMMA AnyMatches ==
  ASSUME NEW rules, NEW event
  PROVE  Answers!Matches(Answers!Group("any", rules), event) <=> (\E r \in rules : Met(r, event))
<1>1. \A r \in rules : Met(r, event) \in BOOLEAN
  BY DEF Met, Answers!MatchesGroup, Answers!Holds, Answers!Combined
<1>2. Answers!Matches(Answers!Group("any", rules), event) <=>
        (rules # {} /\ TRUE \in {Met(r, event) : r \in rules})
  BY DEF Answers!Matches, Answers!Group, Answers!Combined, Met
<1> QED BY <1>1, <1>2

\* What the rules themselves match.
LEMMA RuleMet ==
  ASSUME NEW field, NEW values, NEW event
  PROVE  Met(Answers!Rule(field, values), event) <=> Answers!Carries(event, field, values)
BY DEF Met, Answers!Rule, Answers!Holds, Answers!Carries

LEMMA ExceptionMet ==
  ASSUME NEW field, NEW values, NEW event
  PROVE  Met(Answers!NotIn(field, values), event) <=>
           (field \in DOMAIN event /\ ~Answers!Carries(event, field, values))
BY DEF Met, Answers!NotIn, Answers!Rule, Answers!Holds, Answers!Carries

LEMMA NoneMet ==
  ASSUME NEW field, NEW values, NEW event
  PROVE  Met(Answers!Group("none", {Answers!Rule(field, values)}), event) <=> ~Answers!Carries(event, field, values)
<1>1. Answers!Holds(Answers!Rule(field, values), event) <=> Answers!Carries(event, field, values)
  BY DEF Answers!Rule, Answers!Holds, Answers!Carries
<1>2. Answers!Holds(Answers!Rule(field, values), event) \in BOOLEAN
  BY DEF Answers!Holds
<1>3. Answers!MatchesGroup(Answers!Group("none", {Answers!Rule(field, values)}), event) <=>
        TRUE \notin {Answers!Holds(r, event) : r \in {Answers!Rule(field, values)}}
  BY DEF Answers!MatchesGroup, Answers!Group, Answers!Combined
<1>4. {Answers!Holds(r, event) : r \in {Answers!Rule(field, values)}} = {Answers!Holds(Answers!Rule(field, values), event)}
  OBVIOUS
<1>5. "rules" \in DOMAIN Answers!Group("none", {Answers!Rule(field, values)})
  BY DEF Answers!Group
<1> QED BY <1>1, <1>2, <1>3, <1>4, <1>5 DEF Met

LEMMA PickedMet ==
  ASSUME NEW field, NEW values, NEW event
  PROVE  (\A r \in Answers!Picked(field, values) : Met(r, event)) <=> Answers!Within(event, field, values)
BY RuleMet DEF Answers!Picked, Answers!Within

LEMMA PickedNothing ==
  ASSUME NEW field, NEW values
  PROVE  (Answers!Picked(field, values) = {}) <=> (values = {})
BY DEF Answers!Picked

LEMMA NoSubtypes ==
  ASSUME NEW boxes
  PROVE  (Answers!Subtypes(boxes) = {}) <=> (boxes = {})
BY Zenon DEF Answers!Subtypes

-----------------------------------------------------------------------------
\* The rules the server derives from a policy's form match an event exactly where
\* the form's own words say they should, for every form and event; a form that
\* excepts file types is compared on events that have one (policy_transformer.py,
\* database_policy_evaluator.py).
THEOREM RulesMeanTheFormHolds ==
  ASSUME NEW f, NEW event
  PROVE  Answers!RulesMeanTheForm(f, event)
<1> SUFFICES ASSUME Answers!Typed(f, event)
             PROVE  Answers!Matches(Answers!Conditions(f), event) <=> Answers!FormSays(f, event)
  BY DEF Answers!RulesMeanTheForm
<1>1. CASE f.type = "email_send_prevention"
  <2>1. Answers!Conditions(f) = Answers!Email(f)
    BY <1>1 DEF Answers!Conditions
  <2>2. Answers!Matches(Answers!Email(f), event) <=>
          /\ Answers!Carries(event, "destination_type", {"email"})
          /\ Answers!Carries(event, "classification_level", f.levels)
    BY <1>1, AllMatch, RuleMet DEF Answers!Email, Answers!Is
  <2>3. Answers!FormSays(f, event) <=>
          /\ Answers!Carries(event, "destination_type", {"email"})
          /\ Answers!Carries(event, "classification_level", f.levels)
    BY <1>1 DEF Answers!FormSays, Answers!TypesWithRules, Answers!Kind, Answers!OfKind, Answers!InPlace, Answers!OfBoxes, Answers!NamesSomething, Answers!Within
  <2> QED BY <2>1, <2>2, <2>3
<1>2. CASE f.type = "print_content_prevention"
  <2>1. Answers!Conditions(f) = Answers!PrintContent(f)
    BY <1>2 DEF Answers!Conditions
  <2>2. Answers!Matches(Answers!PrintContent(f), event) <=>
          /\ Answers!Carries(event, "event_type", {"print"})
          /\ Answers!Sensitive(event)
    BY <1>2, AllMatch, RuleMet DEF Answers!PrintContent, Answers!Is, Answers!Sensitive
  <2>3. Answers!FormSays(f, event) <=> (Answers!Carries(event, "event_type", {"print"}) /\ Answers!Sensitive(event))
    BY <1>2 DEF Answers!FormSays, Answers!TypesWithRules, Answers!Kind, Answers!OfKind, Answers!InPlace, Answers!OfBoxes, Answers!NamesSomething, Answers!Within
  <2> QED BY <2>1, <2>2, <2>3
<1>3. CASE f.type = "printer_control"
  <2>1. Answers!Conditions(f) = Answers!PrinterControl(f)
    BY <1>3 DEF Answers!Conditions
  <2>2. Answers!Matches(Answers!PrinterControl(f), event) <=>
          /\ Answers!Carries(event, "event_subtype", {"print_job"})
          /\ Answers!Carries(event, "block_reason", {"printer_control"})
    BY <1>3, AllMatch, RuleMet DEF Answers!PrinterControl, Answers!Is
  <2>3. Answers!FormSays(f, event) <=>
          /\ Answers!Carries(event, "event_subtype", {"print_job"})
          /\ Answers!Carries(event, "block_reason", {"printer_control"})
    BY <1>3 DEF Answers!FormSays, Answers!TypesWithRules, Answers!Kind, Answers!OfKind, Answers!InPlace, Answers!OfBoxes, Answers!NamesSomething, Answers!Within
  <2> QED BY <2>1, <2>2, <2>3
<1>4. CASE f.type = "messaging_app_control"
  <2>1. Answers!Conditions(f) = Answers!Messaging(f)
    BY <1>4 DEF Answers!Conditions
  <2>2. Answers!Matches(Answers!Messaging(f), event) <=>
          Answers!Carries(event, "event_subtype", {"messaging_file_selection"})
    BY <1>4, AllMatch, RuleMet DEF Answers!Messaging, Answers!Is
  <2>3. Answers!FormSays(f, event) <=> Answers!Carries(event, "event_subtype", {"messaging_file_selection"})
    BY <1>4 DEF Answers!FormSays, Answers!TypesWithRules, Answers!Kind, Answers!OfKind, Answers!InPlace, Answers!OfBoxes, Answers!NamesSomething, Answers!Within
  <2> QED BY <2>1, <2>2, <2>3
<1>5. CASE f.type = "application_control"
  <2>1. Answers!Conditions(f) = Answers!ApplicationControl(f)
    BY <1>5 DEF Answers!Conditions
  <2>2. Answers!Matches(Answers!ApplicationControl(f), event) <=> Answers!Carries(event, "event_subtype", {"cli_upload"})
    BY <1>5, AllMatch, RuleMet DEF Answers!ApplicationControl, Answers!Is
  <2>3. Answers!FormSays(f, event) <=> Answers!Carries(event, "event_subtype", {"cli_upload"})
    BY <1>5 DEF Answers!FormSays, Answers!TypesWithRules, Answers!Kind, Answers!OfKind, Answers!InPlace, Answers!OfBoxes, Answers!NamesSomething, Answers!Within
  <2> QED BY <2>1, <2>2, <2>3
<1>6. CASE f.type = "wireless_transfer_control"
  <2>1. Answers!Conditions(f) = Answers!Wireless(f)
    BY <1>6 DEF Answers!Conditions
  <2>2. Answers!Matches(Answers!Wireless(f), event) <=>
          Answers!Carries(event, "event_subtype", {"bluetooth_file_transfer"})
    BY <1>6, AllMatch, RuleMet DEF Answers!Wireless, Answers!Is
  <2>3. Answers!FormSays(f, event) <=> Answers!Carries(event, "event_subtype", {"bluetooth_file_transfer"})
    BY <1>6 DEF Answers!FormSays, Answers!TypesWithRules, Answers!Kind, Answers!OfKind, Answers!InPlace, Answers!OfBoxes, Answers!NamesSomething, Answers!Within
  <2> QED BY <2>1, <2>2, <2>3
<1>7. CASE f.type = "web_activity_control"
  <2>1. Answers!Conditions(f) = Answers!WebActivityConditions(f)
    BY <1>7 DEF Answers!Conditions
  <2>2. Answers!Matches(Answers!WebActivityConditions(f), event) <=>
          Answers!Carries(event, "event_subtype", {"web_activity"})
    BY <1>7, AllMatch, RuleMet DEF Answers!WebActivityConditions, Answers!Is
  <2>3. Answers!FormSays(f, event) <=> Answers!Carries(event, "event_subtype", {"web_activity"})
    BY <1>7 DEF Answers!FormSays, Answers!TypesWithRules, Answers!Kind, Answers!OfKind, Answers!InPlace, Answers!OfBoxes, Answers!NamesSomething, Answers!Within
  <2> QED BY <2>1, <2>2, <2>3
<1>8. CASE f.type = "usb_file_transfer_monitoring"
  <2>1. Answers!Conditions(f) = Answers!UsbTransfer(f)
    BY <1>8 DEF Answers!Conditions
  <2>2. Answers!Matches(Answers!UsbTransfer(f), event) <=>
          /\ Answers!Carries(event, "event_subtype", {"usb_file_transfer"})
          /\ Answers!Within(event, "source_path", f.paths)
    BY <1>8, AllMatch, RuleMet, PickedMet DEF Answers!UsbTransfer, Answers!Is
  <2>3. Answers!FormSays(f, event) <=>
          /\ Answers!Carries(event, "event_subtype", {"usb_file_transfer"})
          /\ Answers!Within(event, "source_path", f.paths)
    BY <1>8 DEF Answers!FormSays, Answers!TypesWithRules, Answers!Kind, Answers!OfKind, Answers!InPlace, Answers!OfBoxes, Answers!NamesSomething, Answers!Within
  <2> QED BY <2>1, <2>2, <2>3
<1>9. CASE f.type = "google_drive_cloud_monitoring"
  <2>1. Answers!Conditions(f) = Answers!GoogleDriveCloud(f)
    BY <1>9 DEF Answers!Conditions
  <2>2. Answers!Matches(Answers!GoogleDriveCloud(f), event) <=>
          /\ Answers!Carries(event, "source", {"google_drive_cloud"})
          /\ Answers!Within(event, "connection_id", f.connection)
          /\ Answers!Within(event, "folder_id", f.paths)
    BY <1>9, AllMatch, RuleMet, PickedMet DEF Answers!GoogleDriveCloud, Answers!DriveCloud, Answers!Is
  <2>3. Answers!FormSays(f, event) <=>
          /\ Answers!Carries(event, "source", {"google_drive_cloud"})
          /\ Answers!Within(event, "connection_id", f.connection)
          /\ Answers!Within(event, "folder_id", f.paths)
    BY <1>9 DEF Answers!FormSays, Answers!TypesWithRules, Answers!Kind, Answers!OfKind, Answers!InPlace, Answers!OfBoxes, Answers!NamesSomething, Answers!Within
  <2> QED BY <2>1, <2>2, <2>3
<1>10. CASE f.type = "onedrive_cloud_monitoring"
  <2>1. Answers!Conditions(f) = Answers!OneDriveCloud(f)
    BY <1>10 DEF Answers!Conditions
  <2>2. Answers!Matches(Answers!OneDriveCloud(f), event) <=>
          /\ Answers!Carries(event, "source", {"onedrive_cloud"})
          /\ Answers!Within(event, "connection_id", f.connection)
          /\ Answers!Within(event, "folder_id", f.paths)
    BY <1>10, AllMatch, RuleMet, PickedMet DEF Answers!OneDriveCloud, Answers!DriveCloud, Answers!Is
  <2>3. Answers!FormSays(f, event) <=>
          /\ Answers!Carries(event, "source", {"onedrive_cloud"})
          /\ Answers!Within(event, "connection_id", f.connection)
          /\ Answers!Within(event, "folder_id", f.paths)
    BY <1>10 DEF Answers!FormSays, Answers!TypesWithRules, Answers!Kind, Answers!OfKind, Answers!InPlace, Answers!OfBoxes, Answers!NamesSomething, Answers!Within
  <2> QED BY <2>1, <2>2, <2>3
<1>11. CASE f.type = "file_identity_denylist"
  <2>1. Answers!Conditions(f) = Answers!Denylist(f)
    BY <1>11 DEF Answers!Conditions
  <2>2. Answers!Matches(Answers!Denylist(f), event) <=>
          \/ Answers!Carries(event, "file_extension", f.extensions)
          \/ Answers!Carries(event, "file_hash", f.hashes)
    BY <1>11, AnyMatches, RuleMet DEF Answers!Denylist, Answers!Picked, Answers!Carries
  <2>3. Answers!FormSays(f, event) <=>
          \/ Answers!Carries(event, "file_extension", f.extensions)
          \/ Answers!Carries(event, "file_hash", f.hashes)
    BY <1>11 DEF Answers!FormSays, Answers!TypesWithRules, Answers!Kind, Answers!OfKind, Answers!InPlace, Answers!OfBoxes, Answers!NamesSomething, Answers!Within
  <2> QED BY <2>1, <2>2, <2>3
<1>12. CASE f.type = "clipboard_monitoring"
  <2>1. Answers!Conditions(f) = Answers!Clipboard(f)
    BY <1>12 DEF Answers!Conditions
  <2>2. Answers!Matches(Answers!Clipboard(f), event) <=>
         (IF f.patterns \cap Answers!KnownPatterns = {} THEN Answers!Carries(event, "event_type", {"clipboard"})
          ELSE Answers!Carries(event, "clipboard_content", f.patterns \cap Answers!KnownPatterns))
    <3> DEFINE known == f.patterns \cap Answers!KnownPatterns
               rules == {Answers!Is("clipboard_content", p) : p \in known}
    <3>1. rules = {} <=> known = {}
      OBVIOUS
    <3>2. (\E r \in rules : Met(r, event)) <=> Answers!Carries(event, "clipboard_content", known)
      <4>1. \A p : Met(Answers!Is("clipboard_content", p), event) <=>
                     Answers!Carries(event, "clipboard_content", {p})
        BY RuleMet DEF Answers!Is
      <4>2. Answers!Carries(event, "clipboard_content", known) <=>
              \E p \in known : Answers!Carries(event, "clipboard_content", {p})
        BY DEF Answers!Carries
      <4> QED BY <4>1, <4>2
    <3>3. Answers!Clipboard(f) = IF rules = {} THEN Answers!Group("all", {Answers!Is("event_type", "clipboard")})
                         ELSE Answers!Group("any", rules)
      BY DEF Answers!Clipboard
    <3> HIDE DEF rules
    <3>4. CASE known = {}
      BY <3>1, <3>3, <3>4, AllMatch, RuleMet DEF Answers!Is
    <3>5. CASE known # {}
      <4>1. Answers!Matches(Answers!Clipboard(f), event) <=> \E r \in rules : Met(r, event)
        BY <3>1, <3>3, <3>5, AnyMatches
      <4> QED BY <3>2, <3>5, <4>1
    <3> QED BY <3>4, <3>5
  <2>3. Answers!FormSays(f, event) <=>
         (IF f.patterns \cap Answers!KnownPatterns = {} THEN Answers!Carries(event, "event_type", {"clipboard"})
          ELSE Answers!Carries(event, "clipboard_content", f.patterns \cap Answers!KnownPatterns))
    BY <1>12 DEF Answers!FormSays, Answers!TypesWithRules, Answers!Kind, Answers!OfKind, Answers!InPlace, Answers!OfBoxes, Answers!NamesSomething, Answers!Within
  <2> QED BY <2>1, <2>2, <2>3
<1>13. CASE f.type = "usb_device_monitoring"
  <2>1. Answers!Conditions(f) = Answers!UsbDevice(f)
    BY <1>13 DEF Answers!Conditions
  <2>2. Answers!Matches(Answers!UsbDevice(f), event) <=>
          Answers!Carries(event, "usb_event_type", f.boxes \cap {"connect", "disconnect"})
    BY <1>13, AllMatch, AnyMatches, RuleMet DEF Answers!UsbDevice, Answers!Picked, Answers!Carries
  <2>3. Answers!FormSays(f, event) <=>
          Answers!Carries(event, "usb_event_type", f.boxes \cap {"connect", "disconnect"})
    BY <1>13 DEF Answers!FormSays, Answers!TypesWithRules, Answers!Kind, Answers!OfKind, Answers!InPlace, Answers!OfBoxes, Answers!NamesSomething, Answers!Within
  <2> QED BY <2>1, <2>2, <2>3
<1>14. CASE f.type = "google_drive_local_monitoring"
  <2>1. Answers!Conditions(f) = Answers!DriveLocal(f)
    BY <1>14 DEF Answers!Conditions
  <2>2. Answers!Matches(Answers!DriveLocal(f), event) <=>
          /\ Answers!Carries(event, "source", {"google_drive_local"})
          /\ Answers!InPlace(f, event)
          /\ Answers!Within(event, "event_subtype", Answers!Subtypes(f.boxes))
          /\ Answers!Within(event, "file_extension", f.extensions)
    BY <1>14, AllMatch, RuleMet, PickedMet DEF Answers!DriveLocal, Answers!Is, Answers!InPlace
  <2>3. Answers!FormSays(f, event) <=>
          /\ Answers!Carries(event, "source", {"google_drive_local"})
          /\ Answers!InPlace(f, event)
          /\ Answers!Within(event, "event_subtype", Answers!Subtypes(f.boxes))
          /\ Answers!Within(event, "file_extension", f.extensions)
    BY <1>14 DEF Answers!FormSays, Answers!TypesWithRules, Answers!Kind, Answers!OfKind, Answers!InPlace, Answers!OfBoxes, Answers!NamesSomething, Answers!Within
  <2> QED BY <2>1, <2>2, <2>3
<1>15. CASE f.type = "file_system_monitoring"
  <2>1. Answers!Conditions(f) = Answers!FileSystem(f)
    BY <1>15 DEF Answers!Conditions
  <2>2. Answers!Matches(Answers!FileSystem(f), event) <=>
          /\ Answers!NamesSomething(f)
          /\ Answers!Within(event, "file_path", f.paths)
          /\ Answers!Within(event, "event_subtype", Answers!Subtypes(f.boxes))
          /\ Answers!Within(event, "file_extension", f.extensions)
    <3> DEFINE rules == Answers!Picked("file_path", f.paths)
                         \cup Answers!Picked("event_subtype", Answers!Subtypes(f.boxes))
                         \cup Answers!Picked("file_extension", f.extensions)
    <3>1. rules # {} <=> Answers!NamesSomething(f)
      BY <1>15, PickedNothing, NoSubtypes DEF Answers!NamesSomething
    <3>2. Answers!FileSystem(f) = Answers!Group("all", rules)
      BY DEF Answers!FileSystem
    <3>3. (\A r \in rules : Met(r, event)) <=>
             /\ Answers!Within(event, "file_path", f.paths)
             /\ Answers!Within(event, "event_subtype", Answers!Subtypes(f.boxes))
             /\ Answers!Within(event, "file_extension", f.extensions)
      BY PickedMet
    <3> QED BY <3>1, <3>2, <3>3, AllMatch
  <2>3. Answers!FormSays(f, event) <=>
          /\ Answers!NamesSomething(f)
          /\ Answers!Within(event, "file_path", f.paths)
          /\ Answers!Within(event, "event_subtype", Answers!Subtypes(f.boxes))
          /\ Answers!Within(event, "file_extension", f.extensions)
    BY <1>15 DEF Answers!FormSays, Answers!TypesWithRules, Answers!Kind, Answers!OfKind, Answers!InPlace, Answers!OfBoxes, Answers!NamesSomething, Answers!Within
  <2> QED BY <2>1, <2>2, <2>3
<1>16. CASE f.type = "file_transfer_monitoring"
  <2>1. Answers!Conditions(f) = Answers!FileTransfer(f)
    BY <1>16 DEF Answers!Conditions
  <2>2. Answers!Matches(Answers!FileTransfer(f), event) <=>
          /\ Answers!NamesSomething(f)
          /\ Answers!Within(event, "source_path", f.paths)
          /\ Answers!Within(event, "destination_path", f.destinations)
          /\ Answers!Within(event, "event_subtype", Answers!Subtypes(f.boxes))
          /\ Answers!Within(event, "file_extension", f.extensions)
    <3> DEFINE rules == Answers!Picked("source_path", f.paths)
                         \cup Answers!Picked("destination_path", f.destinations)
                         \cup Answers!Picked("event_subtype", Answers!Subtypes(f.boxes))
                         \cup Answers!Picked("file_extension", f.extensions)
    <3>1. rules # {} <=> Answers!NamesSomething(f)
      BY <1>16, PickedNothing, NoSubtypes DEF Answers!NamesSomething
    <3>2. Answers!FileTransfer(f) = Answers!Group("all", rules)
      BY DEF Answers!FileTransfer
    <3>3. (\A r \in rules : Met(r, event)) <=>
             /\ Answers!Within(event, "source_path", f.paths)
             /\ Answers!Within(event, "destination_path", f.destinations)
             /\ Answers!Within(event, "event_subtype", Answers!Subtypes(f.boxes))
             /\ Answers!Within(event, "file_extension", f.extensions)
      BY PickedMet
    <3> QED BY <3>1, <3>2, <3>3, AllMatch
  <2>3. Answers!FormSays(f, event) <=>
          /\ Answers!NamesSomething(f)
          /\ Answers!Within(event, "source_path", f.paths)
          /\ Answers!Within(event, "destination_path", f.destinations)
          /\ Answers!Within(event, "event_subtype", Answers!Subtypes(f.boxes))
          /\ Answers!Within(event, "file_extension", f.extensions)
    BY <1>16 DEF Answers!FormSays, Answers!TypesWithRules, Answers!Kind, Answers!OfKind, Answers!InPlace, Answers!OfBoxes, Answers!NamesSomething, Answers!Within
  <2> QED BY <2>1, <2>2, <2>3
<1>17. CASE f.type = "network_share_transfer_control"
  <2>1. Answers!Conditions(f) = Answers!NetworkShare(f)
    BY <1>17 DEF Answers!Conditions
  <2>2. Answers!Matches(Answers!NetworkShare(f), event) <=>
         /\ Answers!Carries(event, "event_subtype", {"network_share_transfer"})
         /\ f.mode = "content_aware" => /\ Answers!Sensitive(event)
                                        /\ ~Answers!Carries(event, "source_path", f.exceptPaths)
                                        /\ ~Answers!Carries(event, "file_extension", f.exceptTypes)
    <3> DEFINE subtype == Answers!Is("event_subtype", "network_share_transfer")
               level   == Answers!Rule("classification_level", {"Confidential", "Restricted"})
               paths   == {Answers!Group("none", {Answers!Rule("source_path", p)}) : p \in {f.exceptPaths} \ {{}}}
               types   == {Answers!NotIn("file_extension", x) : x \in {f.exceptTypes} \ {{}}}
    <3>1. CASE f.mode # "content_aware"
      BY <3>1, AllMatch, RuleMet DEF Answers!NetworkShare, Answers!Is
    <3>2. CASE f.mode = "content_aware"
      <4>1. Answers!NetworkShare(f) = Answers!Group("all", {subtype} \cup ({level} \cup paths \cup types))
        BY <3>2 DEF Answers!NetworkShare
      <4>2. (\A r \in paths : Met(r, event)) <=> ~Answers!Carries(event, "source_path", f.exceptPaths)
        <5>1. \A p : Met(Answers!Group("none", {Answers!Rule("source_path", p)}), event) <=>
                       ~Answers!Carries(event, "source_path", p)
          BY NoneMet
        <5>2. ~Answers!Carries(event, "source_path", {})
          BY DEF Answers!Carries
        <5> QED BY <5>1, <5>2
      <4>3. (\A r \in types : Met(r, event)) <=> ~Answers!Carries(event, "file_extension", f.exceptTypes)
        BY ExceptionMet DEF Answers!Carries, Answers!Typed
      <4>4. Met(subtype, event) <=> Answers!Carries(event, "event_subtype", {"network_share_transfer"})
        BY RuleMet DEF Answers!Is
      <4>5. Met(level, event) <=> Answers!Sensitive(event)
        BY RuleMet DEF Answers!Sensitive
      <4> HIDE DEF subtype, level, paths, types
      <4> QED BY <3>2, <4>1, <4>2, <4>3, <4>4, <4>5, AllMatch
    <3> QED BY <3>1, <3>2
  <2>3. Answers!FormSays(f, event) <=>
         /\ Answers!Carries(event, "event_subtype", {"network_share_transfer"})
         /\ f.mode = "content_aware" => /\ Answers!Sensitive(event)
                                        /\ ~Answers!Carries(event, "source_path", f.exceptPaths)
                                        /\ ~Answers!Carries(event, "file_extension", f.exceptTypes)
    BY <1>17 DEF Answers!FormSays, Answers!TypesWithRules, Answers!Kind, Answers!OfKind, Answers!InPlace, Answers!OfBoxes, Answers!NamesSomething, Answers!Within
  <2> QED BY <2>1, <2>2, <2>3
<1>18. CASE f.type \notin Answers!TypesWithRules
  <2>1. Answers!Conditions(f) = Answers!Group("all", {})
    BY <1>18 DEF Answers!Conditions, Answers!TypesWithRules, Answers!Kind
  <2>2. ~Answers!Matches(Answers!Conditions(f), event)
    BY <2>1, AllMatch
  <2> QED BY <1>18, <2>2 DEF Answers!FormSays
<1> QED BY <1>1, <1>2, <1>3, <1>4, <1>5, <1>6, <1>7, <1>8, <1>9, <1>10, <1>11, <1>12, <1>13,
           <1>14, <1>15, <1>16, <1>17, <1>18
        DEF Answers!TypesWithRules, Answers!Kind
-----------------------------------------------------------------------------
\* The policies whose endpoint enforces by itself only alert or log on the server:
\* no event they match is blocked or quarantined there a second time.
THEOREM ReportersOnlyAlertHolds ==
  ASSUME NEW f, NEW event
  PROVE  Answers!ReportersOnlyAlert(f, event)
<1> SUFFICES ASSUME \/ f.type \in {"messaging_app_control", "application_control",
                                   "wireless_transfer_control", "printer_control",
                                   "web_activity_control"}
                    \/ f.type = "network_share_transfer_control" /\ f.mode # "content_aware"
             PROVE  Answers!Verdict(f, event) \subseteq Answers!Plain("alert")
  BY DEF Answers!ReportersOnlyAlert
<1>1. Answers!Actions(f) \in {Answers!Plain("alert"), Answers!Plain("log")}
  BY DEF Answers!Actions
<1>2. Answers!Prepared(Answers!Plain("log")) = {} /\ Answers!Prepared(Answers!Plain("alert")) \subseteq Answers!Plain("alert")
  BY DEF Answers!Prepared, Answers!Plain, Answers!Action
<1> QED BY <1>1, <1>2 DEF Answers!Verdict

-----------------------------------------------------------------------------
\* The gravest of some severities is one of them, or none, and no other is graver.
LEMMA GravestIs ==
  ASSUME NEW severities, severities \subseteq Answers!Severities
  PROVE  /\ Answers!Gravest(severities) \in severities \cup {"none"}
         /\ \A t \in severities \cup {"none"} : Answers!Ranks[t] <= Answers!Ranks[Answers!Gravest(severities)]
<1> DEFINE all == severities \cup {"none"}
           Top(s) == \A t \in all : Answers!Ranks[t] <= Answers!Ranks[s]
<1>1. \E s \in all : Top(s)
  <2>1. CASE "critical" \in all
    BY <2>1 DEF Answers!Ranks, Answers!Severities
  <2>2. CASE "critical" \notin all /\ "high" \in all
    BY <2>2 DEF Answers!Ranks, Answers!Severities
  <2>3. CASE {"critical", "high"} \cap all = {} /\ "medium" \in all
    BY <2>3 DEF Answers!Ranks, Answers!Severities
  <2>4. CASE {"critical", "high", "medium"} \cap all = {} /\ "low" \in all
    BY <2>4 DEF Answers!Ranks, Answers!Severities
  <2>5. CASE {"critical", "high", "medium", "low"} \cap all = {}
    BY <2>5 DEF Answers!Ranks, Answers!Severities
  <2> QED BY <2>1, <2>2, <2>3, <2>4, <2>5
<1>2. Answers!Gravest(severities) = CHOOSE s \in all : Top(s)
  BY DEF Answers!Gravest
<1> HIDE DEF all, Top
<1>3. Answers!Gravest(severities) \in all /\ Top(Answers!Gravest(severities))
  BY <1>1, <1>2
<1> QED BY <1>3 DEF all, Top

\* What more is asked for, with a severity where it is an alert, is no milder.
LEMMA MoreAskedNeverMilder ==
  ASSUME NEW few, NEW many, few \subseteq many, NEW status, NEW other,
         {a.severity : a \in {b \in many : b.type = "alert"}} \subseteq Answers!Severities
  PROVE  ~Answers!Milder(Answers!Response(Answers!Strictest({a.type : a \in many}),
                          Answers!Gravest({a.severity : a \in {b \in many : b.type = "alert"}}), status),
                 Answers!Response(Answers!Strictest({a.type : a \in few}),
                          Answers!Gravest({a.severity : a \in {b \in few : b.type = "alert"}}), other))
<1> DEFINE types(asked) == {a.type : a \in asked}
           grave(asked) == Answers!Gravest({a.severity : a \in {b \in asked : b.type = "alert"}})
<1>1. types(few) \subseteq types(many)
  OBVIOUS
<1>2. Answers!Strength[Answers!Strictest(types(few))] <= Answers!Strength[Answers!Strictest(types(many))]
  <2> HIDE DEF types
  <2> QED BY <1>1 DEF Answers!Strength, Answers!Strictest
<1>3. Answers!Ranks[grave(few)] <= Answers!Ranks[grave(many)]
  <2> DEFINE F == {a.severity : a \in {b \in few : b.type = "alert"}}
             M == {a.severity : a \in {b \in many : b.type = "alert"}}
  <2>1. F \subseteq M /\ M \subseteq Answers!Severities
    OBVIOUS
  <2> HIDE DEF F, M
  <2>2. Answers!Gravest(F) \in M \cup {"none"}
    BY <2>1, GravestIs
  <2>3. Answers!Ranks[Answers!Gravest(F)] <= Answers!Ranks[Answers!Gravest(M)]
    BY <2>1, <2>2, GravestIs
  <2> QED BY <2>3 DEF F, M
<1>4. Answers!Strictest(types(few)) \in {"block", "quarantine", "allow"}
  BY DEF Answers!Strictest
<1>5. Answers!Strictest(types(many)) \in {"block", "quarantine", "allow"}
  BY DEF Answers!Strictest
<1>6. Answers!Strength[Answers!Strictest(types(few))] \in Int /\ Answers!Strength[Answers!Strictest(types(many))] \in Int
  <2> HIDE DEF types
  <2> QED BY <1>4, <1>5 DEF Answers!Strength
<1>7. Answers!Ranks[grave(few)] \in Int /\ Answers!Ranks[grave(many)] \in Int
  <2>1. {a.severity : a \in {b \in few : b.type = "alert"}} \subseteq Answers!Severities
    OBVIOUS
  <2>2. grave(few) \in Answers!Severities /\ grave(many) \in Answers!Severities
    BY <2>1, GravestIs DEF Answers!Severities, Answers!Ranks
  <2> HIDE DEF grave
  <2> QED BY <2>2 DEF Answers!Severities, Answers!Ranks
<1> HIDE DEF types, grave
<1>8. ~Answers!Milder(Answers!Response(Answers!Strictest(types(many)), grave(many), status),
              Answers!Response(Answers!Strictest(types(few)), grave(few), other))
  BY <1>2, <1>3, <1>6, <1>7 DEF Answers!Milder, Answers!Response
<1> QED BY <1>8 DEF types, grave

LEMMA AskedGrows ==
  ASSUME NEW few, NEW many, few \subseteq many,
         NEW fewHits, NEW manyHits, fewHits \subseteq manyHits
  PROVE  Answers!Asked(few, fewHits) \subseteq Answers!Asked(many, manyHits)
BY DEF Answers!Asked

LEMMA AlertsHaveSeverity ==
  ASSUME NEW triggered, \A p \in triggered : p.severity \in Answers!Severities, NEW hits
  PROVE  {a.severity : a \in {b \in Answers!Asked(triggered, hits) : b.type = "alert"}} \subseteq Answers!Severities
<1>1. ASSUME NEW a \in Answers!Asked(triggered, hits), a.type = "alert"
      PROVE  a.severity \in Answers!Severities
  <2>1. CASE \E p \in triggered : \E b \in Answers!Prepared(Answers!Actions(p.form)) :
               a = Answers!Action(b.type, IF b.type = "alert" THEN p.severity ELSE "none")
    <3>1. PICK p \in triggered : \E b \in Answers!Prepared(Answers!Actions(p.form)) :
                 a = Answers!Action(b.type, IF b.type = "alert" THEN p.severity ELSE "none")
      BY <2>1
    <3>2. a.severity \in {p.severity, "none"}
      BY <3>1 DEF Answers!Action
    <3> QED BY <3>2 DEF Answers!Severities, Answers!Ranks
  <2>2. CASE \E h \in hits : a = CASE h = "Restricted"   -> Answers!Action("quarantine", "none")
                                   [] h = "Confidential" -> Answers!Action("alert", "critical")
                                   [] OTHER              -> Answers!Action("alert", "medium")
    <3>1. a \in {Answers!Action("quarantine", "none"), Answers!Action("alert", "critical"),
                 Answers!Action("alert", "medium")}
      BY <2>2
    <3>2. a.severity \in {"none", "critical", "medium"}
      BY <3>1 DEF Answers!Action
    <3> QED BY <3>2 DEF Answers!Severities, Answers!Ranks
  <2>3. a \in UNION {{Answers!Action(b.type, IF b.type = "alert" THEN p.severity ELSE "none") :
                        b \in Answers!Prepared(Answers!Actions(p.form))} : p \in triggered}
        \/ a \in {CASE h = "Restricted"   -> Answers!Action("quarantine", "none")
                    [] h = "Confidential" -> Answers!Action("alert", "critical")
                    [] OTHER              -> Answers!Action("alert", "medium") : h \in hits}
    BY <1>1 DEF Answers!Asked
  <2> QED BY <2>1, <2>2, <2>3
<1> QED BY <1>1

LEMMA AnswerGrows ==
  ASSUME NEW policies, \A p \in policies : p.severity \in Answers!Severities,
         NEW few, few \subseteq policies,
         NEW hits, NEW fewHits, fewHits \subseteq hits, NEW r, NEW level
  PROVE  ~Answers!Milder(Answers!Answer(policies, r, level, hits), Answers!Answer(few, r, level, fewHits))
<1> DEFINE heard(found) == IF r.skipped = "none" THEN found ELSE {}
           all  == Answers!Asked(Answers!Triggered(policies, r, level), heard(hits))
           some == Answers!Asked(Answers!Triggered(few, r, level), heard(fewHits))
<1>1. Answers!Triggered(few, r, level) \subseteq Answers!Triggered(policies, r, level)
  BY DEF Answers!Triggered
<1>2. \A p \in Answers!Triggered(policies, r, level) : p.severity \in Answers!Severities
  BY DEF Answers!Triggered
<1>3. some \subseteq all
  BY <1>1, AskedGrows
<1>4. {a.severity : a \in {b \in all : b.type = "alert"}} \subseteq Answers!Severities
  BY <1>2, AlertsHaveSeverity
<1>5. /\ Answers!Answer(policies, r, level, hits) =
           Answers!Response(Answers!Strictest({a.type : a \in all}),
                    Answers!Gravest({a.severity : a \in {b \in all : b.type = "alert"}}),
                    Answers!ExtractionStatus(r))
      /\ Answers!Answer(few, r, level, fewHits) =
           Answers!Response(Answers!Strictest({a.type : a \in some}),
                    Answers!Gravest({a.severity : a \in {b \in some : b.type = "alert"}}),
                    Answers!ExtractionStatus(r))
  BY DEF Answers!Answer
<1> HIDE DEF all, some
<1>6. ~Answers!Milder(Answers!Response(Answers!Strictest({a.type : a \in all}),
                       Answers!Gravest({a.severity : a \in {b \in all : b.type = "alert"}}),
                       Answers!ExtractionStatus(r)),
              Answers!Response(Answers!Strictest({a.type : a \in some}),
                       Answers!Gravest({a.severity : a \in {b \in some : b.type = "alert"}}),
                       Answers!ExtractionStatus(r)))
  BY <1>3, <1>4, MoreAskedNeverMilder
<1> QED BY <1>5, <1>6

\* The answer to a channel's question grows with what is known: with one policy
\* more, or one Data Matching hit more, the action is no weaker and the severity
\* no lower (evaluate_policy_realtime).  The severities of the policies are those
\* that _severity_rank knows.
THEOREM AnswersNeverMilder ==
  ASSUME NEW policies, \A p \in policies : p.severity \in Answers!Severities, NEW r, NEW level, NEW hits
  PROVE  Answers!MoreNeverMilder(policies, r, level, hits)
<1>1. \A p \in policies : policies \ {p} \subseteq policies
  OBVIOUS
<1>2. \A h \in hits : hits \ {h} \subseteq hits
  OBVIOUS
<1> QED BY <1>1, <1>2, AnswerGrows DEF Answers!MoreNeverMilder

-----------------------------------------------------------------------------
\* A policy that blocks e-mail of a level blocks the e-mail it is asked about,
\* content that was not read never counts as read, and every channel carries out a
\* block (evaluate_policy_realtime and the channels' handlers).
THEOREM PolicyDecidesHolds ==
  ASSUME NEW policies, NEW r, NEW level, NEW hits
  PROVE  Answers!PolicyDecides(policies, r, level, hits)
<1> DEFINE answer == Answers!Answer(policies, r, level, hits)
<1>1. answer.status = Answers!ExtractionStatus(r)
  BY DEF Answers!Answer, Answers!Response
<1>2. (r.skipped # "none" \/ r.inspected = "no" \/ r.file \in {"unreadable", "too_large"})
        => Answers!ExtractionStatus(r) # "readable"
  BY DEF Answers!ExtractionStatus
<1>3. answer.action = "block" => Answers!ChannelActions(answer) = {"block"}
  BY DEF Answers!ChannelActions, Answers!MailAction, Answers!BrowserAction, Answers!UsbAction, Answers!PrintAction, Answers!BlockElseAlert
<1>4. ASSUME NEW p \in policies, p.form.type = "email_send_prevention", p.form.action = "block",
             r.skipped = "none", "email" \in r.destination_type, level \in p.form.levels
      PROVE  Answers!Evaluated(policies, r, level, hits, TRUE).action = "block"
  <2>1. /\ Answers!Carries(Answers!EventData(r, level), "destination_type", {"email"})
        /\ Answers!Carries(Answers!EventData(r, level), "classification_level", p.form.levels)
    <3>1. Answers!Classified(r, level) = level
      BY <1>4 DEF Answers!Classified
    <3>2. Answers!Field("destination_type", r.destination_type) =
            [n \in {"destination_type"} |-> r.destination_type]
      BY <1>4 DEF Answers!Field
    <3> QED BY <1>4, <3>1, <3>2 DEF Answers!EventData, Answers!Joined, Answers!Field, Answers!Carries
  <2>2. Answers!Matches(Answers!Conditions(p.form), Answers!EventData(r, level))
    <3>1. Answers!Conditions(p.form) = Answers!Email(p.form)
      BY <1>4 DEF Answers!Conditions
    <3> QED BY <2>1, <3>1, AllMatch, RuleMet DEF Answers!Email, Answers!Is
  <2>3. p \in Answers!Triggered(policies, r, level)
    BY <2>2 DEF Answers!Triggered
  <2>4. Answers!Action("block", "none") \in Answers!Prepared(Answers!Actions(p.form))
    BY <1>4 DEF Answers!Actions, Answers!OneOf, Answers!Plain, Answers!Prepared, Answers!Action
  <2>5. \E a \in Answers!Asked(Answers!Triggered(policies, r, level), IF r.skipped = "none" THEN hits ELSE {}) :
          a.type = "block"
    <3>1. Answers!Action("block", "none").type = "block"
      BY DEF Answers!Action
    <3> QED BY <2>3, <2>4, <3>1 DEF Answers!Asked, Answers!Action
  <2>6. answer.action = "block"
    BY <2>5 DEF Answers!Answer, Answers!Response, Answers!Strictest
  <2>7. Answers!OnError(TRUE).action = "block"
    BY DEF Answers!OnError, Answers!Response
  <2> QED BY <2>6, <2>7 DEF Answers!Evaluated
<1> HIDE DEF answer
<1> QED BY <1>1, <1>2, <1>3, <1>4 DEF Answers!PolicyDecides, answer
-----------------------------------------------------------------------------
\* A file on a share is removed only where the policy, or the denylist, asks for it
\* in so many words, and never an excepted one (HandleNetworkShareNewFile).
THEOREM ShareActsOnRequestHolds ==
  ASSUME NEW config, NEW denylist, NEW file, NEW verdict
  PROVE  Views!ShareActsOnRequest(config, denylist, file, verdict)
BY DEF Views!ShareActsOnRequest, Views!ShareAct, Views!ShareView, Views!Known

\* The allowlist and the blocklist decide oppositely for an action that is covered
\* and not exempt, and alike for any other (IsAppActionAllowed).
THEOREM ModesAreOppositeHolds ==
  ASSUME NEW config, "mode" \in DOMAIN config, NEW act
  PROVE  Views!ModesAreOpposite(config, act)
BY DEF Views!ModesAreOpposite, Views!ApplicationAllowed, Views!ApplicationView, Views!Known

\* A denied printer is blocked in every scope, and any other is blocked by the scope
\* of approvals unless it has one (get_printer_policy, ShouldBlockPrinter).
THEOREM DenialIsFinalHolds ==
  ASSUME NEW config, NEW rows, NEW printer
  PROVE  Views!DenialIsFinal(config, rows, printer)
BY DEF Views!DenialIsFinal, Views!PrinterBlocked, Views!PrinterView, Views!Known

\* One more content policy never lets a print job through that was blocked
\* (get_print_content_policy, EvaluatePrintContent).
THEOREM PoliciesComposeHolds ==
  ASSUME NEW policies, NEW more, NEW job
  PROVE  Views!PoliciesCompose(policies, more, job)
BY DEF Views!PoliciesCompose, Views!JobBlocked, Views!ContentView, Views!Live

\* A channel is shut only for a live policy that none outranks and that enforces it
\* (get_wireless_policy, FetchWirelessPolicy).
THEOREM ShutOnRequestHolds ==
  ASSUME NEW policies
  PROVE  Views!ShutOnRequest(policies)
BY DEF Views!ShutOnRequest, Views!ChannelsShut, Views!Told, Views!WirelessView,
       Views!Known, Views!First

\* Typed messages are inspected only for types someone chose, the default counts
\* where the form left the field out, and unticking every box ends the inspection
\* (get_messaging_app_policy).  The default is among the types the server knows.
THEOREM UntickedMeansOffHolds ==
  ASSUME NEW config, NEW types, NEW default, default \subseteq types, NEW apps, NEW act
  PROVE  Views!UntickedMeansOff(config, types, default, apps, act)
<1> DEFINE view == Views!MessagingView(config, types, default, apps)
<1>1. /\ view.action \in {"block", "alert"}
      /\ view.types = IF config.types = {} THEN default ELSE (UNION config.types) \cap types
      /\ view.inspect <=> (config.inspect /\ view.types # {})
  BY DEF Views!MessagingView, Views!Known
<1>2. Views!MessageAct(view, act) # "pass" <=>
        (Views!Managed(view, act) /\ view.inspect /\ act.type \in view.types)
  BY <1>1 DEF Views!MessageAct
<1>3. config.types = {{}} => view.types = {}
  BY <1>1
<1>4. view.types \subseteq types
  <2>1. (UNION config.types) \cap types \subseteq types
    OBVIOUS
  <2> QED BY <1>1, <2>1
<1> HIDE DEF view
<1>5. Views!UntickedMeansOff(config, types, default, apps, act) <=>
      /\ view.inspect => (config.inspect /\ view.types # {})
      /\ (config.types = {{}}) => Views!MessageAct(view, act) = "pass"
      /\ (config.types = {} /\ config.inspect /\ Views!Managed(view, act) /\ act.type \in default)
           => Views!MessageAct(view, act) # "pass"
      /\ (act.type \notin types) => Views!MessageAct(view, act) = "pass"
  BY DEF Views!UntickedMeansOff, view
<1> QED BY <1>1, <1>2, <1>3, <1>4, <1>5
-----------------------------------------------------------------------------
\* Every cell of the web policy's matrix is reached by an activity, a custom
\* pattern never makes a decision weaker, something is reported of every decision
\* but "allow", and "blocked" is said only of what was stopped (extension and
\* native host).
THEOREM MatrixDecidesHolds ==
  ASSUME NEW category, NEW activity, NEW matrix, NEW found
  PROVE  Web!MatrixDecides(category, activity, matrix, found)
<1>1. ASSUME NEW cell \in DOMAIN matrix \cap Web!Cells, matrix[cell] \in Web!Decisions
      PROVE  \E sent \in {"post", "ai_response", "download"} :
               /\ Web!Cell(matrix, cell[1], sent) = matrix[cell]
               /\ Web!Activity(cell[1], sent) = cell[2]
  <2> DEFINE sent == IF cell[2] = "send" THEN "post" ELSE cell[2]
  <2>1. sent \in {"post", "ai_response", "download"} /\ Web!Activity(cell[1], sent) = cell[2]
    BY <1>1 DEF Web!Cells, Web!Activity
  <2>2. cell = <<cell[1], cell[2]>>
    BY <1>1 DEF Web!Cells
  <2> HIDE DEF sent
  <2>3. Web!Cell(matrix, cell[1], sent) = matrix[cell]
    BY <1>1, <2>1, <2>2 DEF Web!Cell
  <2> QED BY <2>1, <2>3
<1> DEFINE cell == Web!Cell(matrix, category, activity)
<1>2. cell \in {"allow", "alert", "block", "redact"}
  BY DEF Web!Cell, Web!Decisions
<1>3. ASSUME NEW custom \in BOOLEAN
      PROVE  Web!Decision(category, activity, TRUE, matrix, found, custom) \in {"allow", cell}
  BY <1>2 DEF Web!Decision
<1>4. Web!Decision(category, activity, TRUE, matrix, found, FALSE) # "allow" =>
        Web!Decision(category, activity, TRUE, matrix, found, TRUE) = cell
  <2> HIDE DEF cell
  <2> QED BY <1>2 DEF Web!Decision, Web!Blockable, Web!Alertable, Web!Redactable, cell
<1> DEFINE plain  == Web!Decision(category, activity, TRUE, matrix, found, FALSE)
           custom == Web!Decision(category, activity, TRUE, matrix, found, TRUE)
<1> HIDE DEF cell
<1>5. Web!Strictness[custom] >= Web!Strictness[plain]
  <2>1. plain \in {"allow", cell} /\ custom \in {"allow", cell} /\ (plain # "allow" =>
          custom = cell)
    BY <1>3, <1>4
  <2> HIDE DEF plain, custom
  <2> QED BY <1>2, <2>1 DEF Web!Strictness
<1>6. plain \in {"allow", "alert", "block", "redact"}
  BY <1>2, <1>3
<1> HIDE DEF plain
<1>7. ASSUME NEW level, NEW confidence
      PROVE  /\ (Web!HostEvents(plain, activity, level, confidence) = {}) <=> (plain = "allow")
             /\ \A e \in Web!HostEvents(plain, activity, level, confidence) :
                  e.blocked => plain = "block" /\ activity # "download"
  <2>1. CASE plain = "allow"
    BY <2>1 DEF Web!HostEvents
  <2>2. CASE plain = "block" /\ activity = "download"
    <3>1. \E s : Web!HostEvents(plain, activity, level, confidence) =
            {Web!HostEvent("alerted", s, FALSE)}
      BY <2>2 DEF Web!HostEvents
    <3>2. \A s : ~Web!HostEvent("alerted", s, FALSE).blocked
      BY DEF Web!HostEvent
    <3> QED BY <2>2, <3>1, <3>2
  <2>3. CASE plain = "block" /\ activity # "download"
    <3>1. Web!HostEvents(plain, activity, level, confidence) # {}
      BY <2>3 DEF Web!HostEvents
    <3> QED BY <2>3, <3>1
  <2>4. CASE plain \in {"alert", "redact"}
    <3>1. \E a, s : Web!HostEvents(plain, activity, level, confidence) =
            {Web!HostEvent(a, s, FALSE)}
      BY <2>4 DEF Web!HostEvents
    <3>2. \A a, s : ~Web!HostEvent(a, s, FALSE).blocked
      BY DEF Web!HostEvent
    <3> QED BY <2>4, <3>1, <3>2
  <2> QED BY <1>6, <2>1, <2>2, <2>3, <2>4
<1> QED BY <1>1, <1>5, <1>7 DEF Web!MatrixDecides, plain
-----------------------------------------------------------------------------
\* A set of subsets of a finite set that is not empty has a member no part of
\* which is in it.
LEMMA Smallest ==
  ASSUME NEW S, IsFiniteSet(S), NEW T \in SUBSET (SUBSET S), T # {}
  PROVE  \E t \in T : \A s \in T : ~(s \subseteq t /\ s # t)
<1>1. SUBSET S = FiniteSubsetsOf(S)
  BY FS_FiniteSubsetsOfFinite
<1>2. IsWellFoundedOn(StrictSubsetOrdering(S), FiniteSubsetsOf(S))
  BY FS_StrictSubsetOrderingWellFounded
<1> DEFINE R == StrictSubsetOrdering(S)
<1> HIDE DEF R
<1>3. PICK t \in T : \A s \in T : ~(<<s, t>> \in R)
  BY <1>1, <1>2, WFMin DEF R
<1>4. \A s \in T : (s \subseteq t /\ s # t) => <<s, t>> \in R
  BY DEF R, StrictSubsetOrdering
<1>5. \A s \in T : ~(s \subseteq t /\ s # t)
  BY <1>3, <1>4
<1> QED BY <1>5

\* What folds a set one member after another: the value of the empty set, and a
\* step from the value of a set without one of its members to that of the set.
Folded(h, S, C, base, F) ==
  h = [s \in SUBSET S |-> IF s = {} THEN base ELSE F[<<s, h[s \ {C[s]}]>>]]

LEMMA FoldedIsOne ==
  ASSUME NEW S, IsFiniteSet(S), NEW C, \A s \in SUBSET S : s # {} => C[s] \in s,
         NEW base, NEW F, NEW g, Folded(g, S, C, base, F), NEW h, Folded(h, S, C, base, F)
  PROVE  g = h
<1>1. ASSUME NEW s \in SUBSET S
      PROVE  /\ g[s] = IF s = {} THEN base ELSE F[<<s, g[s \ {C[s]}]>>]
             /\ h[s] = IF s = {} THEN base ELSE F[<<s, h[s \ {C[s]}]>>]
  BY DEF Folded
<1>2. g = [s \in SUBSET S |-> g[s]] /\ h = [s \in SUBSET S |-> h[s]]
  BY DEF Folded
<1>3. \A s \in SUBSET S : g[s] = h[s]
  <2> DEFINE T == {s \in SUBSET S : g[s] # h[s]}
  <2>1. SUFFICES ASSUME T # {} PROVE FALSE
    OBVIOUS
  <2>a. T \in SUBSET (SUBSET S) /\ \A t \in T : g[t] # h[t]
    OBVIOUS
  <2>b. \A t \in SUBSET S : t \notin T => g[t] = h[t]
    OBVIOUS
  <2> HIDE DEF T
  <2>2. PICK t \in T : \A s \in T : ~(s \subseteq t /\ s # t)
    BY <2>1, <2>a, Smallest
  <2>3. t \in SUBSET S /\ g[t] # h[t]
    BY <2>2, <2>a
  <2>4. t # {}
    BY <1>1, <2>3
  <2>5. t \ {C[t]} \in SUBSET S /\ t \ {C[t]} \notin T
    BY <2>2, <2>3, <2>4
  <2>6. g[t \ {C[t]}] = h[t \ {C[t]}]
    BY <2>5, <2>b
  <2> QED BY <1>1, <2>3, <2>4, <2>6
<1> QED BY <1>2, <1>3

LEMMA FoldExists ==
  ASSUME NEW S, IsFiniteSet(S), NEW C, \A s \in SUBSET S : s # {} => C[s] \in s,
         NEW V, NEW base \in V, NEW F \in [(SUBSET S) \X V -> V]
  PROVE  \E h \in [SUBSET S -> V] : Folded(h, S, C, base, F)
<1> DEFINE Pairs == (SUBSET S) \X V
           Closed(R) == /\ <<{}, base>> \in R
                        /\ \A s \in SUBSET S, v \in V :
                             (s # {} /\ <<s \ {C[s]}, v>> \in R) => <<s, F[<<s, v>>]>> \in R
           G == {p \in Pairs : \A R \in SUBSET Pairs : Closed(R) => p \in R}
<1>1. G \in SUBSET Pairs
  OBVIOUS
<1>2. Closed(G)
  <2>1. <<{}, base>> \in G
    OBVIOUS
  <2>2. ASSUME NEW s \in SUBSET S, NEW v \in V, s # {}, <<s \ {C[s]}, v>> \in G
        PROVE  <<s, F[<<s, v>>]>> \in G
    <3>1. <<s, F[<<s, v>>]>> \in Pairs
      OBVIOUS
    <3>2. ASSUME NEW R \in SUBSET Pairs, Closed(R)
          PROVE  <<s, F[<<s, v>>]>> \in R
      BY <2>2, <3>2
    <3> QED BY <3>1, <3>2
  <2> QED BY <2>1, <2>2
<1>3. \A R \in SUBSET Pairs : Closed(R) => G \subseteq R
  OBVIOUS
<1> HIDE DEF G
<1> DEFINE One(s) == \E v \in V : <<s, v>> \in G /\ \A w \in V : <<s, w>> \in G => w = v
<1>4. \A s \in SUBSET S : One(s)
  <2> DEFINE T == {s \in SUBSET S : ~One(s)}
  <2>1. SUFFICES ASSUME T # {} PROVE FALSE
    OBVIOUS
  <2>a. T \in SUBSET (SUBSET S) /\ \A t \in T : ~One(t)
    OBVIOUS
  <2>b. \A t \in SUBSET S : t \notin T => One(t)
    OBVIOUS
  <2> HIDE DEF T
  <2>2. PICK t \in T : \A s \in T : ~(s \subseteq t /\ s # t)
    BY <2>1, <2>a, Smallest
  <2>3. t \in SUBSET S /\ ~One(t)
    BY <2>2, <2>a
  <2>4. CASE t = {}
    <3>1. PICK w \in V : <<t, w>> \in G /\ w # base
      BY <1>2, <2>3, <2>4
    <3> DEFINE R == G \ {<<t, w>>}
    <3>2. Closed(R)
      <4>1. <<{}, base>> \in R
        BY <1>2, <3>1
      <4>2. ASSUME NEW s \in SUBSET S, NEW v \in V, s # {}, <<s \ {C[s]}, v>> \in R
            PROVE  <<s, F[<<s, v>>]>> \in R
        BY <1>2, <2>4, <4>2
      <4> QED BY <4>1, <4>2
    <3>3. R \in SUBSET Pairs
      BY <1>1
    <3> HIDE DEF Closed
    <3>4. G \subseteq R
      BY <1>3, <3>2, <3>3
    <3> QED BY <3>1, <3>4
  <2>5. CASE t # {}
    <3> DEFINE less == t \ {C[t]}
    <3>1. less \in SUBSET S /\ less \notin T
      BY <2>2, <2>3, <2>5
    <3>2. PICK u \in V : <<less, u>> \in G /\ \A w \in V : <<less, w>> \in G => w = u
      BY <3>1, <2>b
    <3>3. <<t, F[<<t, u>>]>> \in G /\ F[<<t, u>>] \in V
      BY <1>2, <2>3, <2>5, <3>2
    <3>4. PICK w \in V : <<t, w>> \in G /\ w # F[<<t, u>>]
      BY <2>3, <3>3
    <3> DEFINE R == G \ {<<t, w>>}
    <3>5. Closed(R)
      <4>1. <<{}, base>> \in R
        BY <1>2, <2>5
      <4>2. ASSUME NEW s \in SUBSET S, NEW v \in V, s # {}, <<s \ {C[s]}, v>> \in R
            PROVE  <<s, F[<<s, v>>]>> \in R
        <5>1. <<s, F[<<s, v>>]>> \in G
          BY <1>2, <4>2
        <5>2. s = t => v = u
          BY <3>2, <4>2
        <5> QED BY <3>4, <5>1, <5>2
      <4> QED BY <4>1, <4>2
    <3>6. R \in SUBSET Pairs
      BY <1>1
    <3> HIDE DEF Closed
    <3>7. G \subseteq R
      BY <1>3, <3>5, <3>6
    <3> QED BY <3>4, <3>7
  <2> QED BY <2>4, <2>5
<1> DEFINE h == [s \in SUBSET S |-> CHOOSE v \in V : <<s, v>> \in G]
<1>5. \A s \in SUBSET S : h[s] \in V /\ <<s, h[s]>> \in G
  BY <1>4
<1>6. h \in [SUBSET S -> V]
  BY <1>5
<1>7. DOMAIN h = SUBSET S
  OBVIOUS
<1> HIDE DEF h
<1>8. ASSUME NEW s \in SUBSET S
      PROVE  h[s] = IF s = {} THEN base ELSE F[<<s, h[s \ {C[s]}]>>]
  <2>1. CASE s = {}
    BY <1>2, <1>4, <1>5, <2>1
  <2>2. CASE s # {}
    <3>1. <<s, F[<<s, h[s \ {C[s]}]>>]>> \in G /\ F[<<s, h[s \ {C[s]}]>>] \in V
      <4>1. s \ {C[s]} \in SUBSET S
        OBVIOUS
      <4> QED BY <1>2, <1>5, <2>2, <4>1
    <3> QED BY <1>4, <1>5, <2>2, <3>1
  <2> QED BY <2>1, <2>2
<1>9. Folded(h, S, C, base, F)
  BY <1>6, <1>8 DEF Folded
<1> QED BY <1>6, <1>9
-----------------------------------------------------------------------------
\* What adds up the values of the members of a set, of each of its parts.
Chosen(s) == CHOOSE x \in s : TRUE
Sums(h, S, f) == h = [s \in SUBSET S |-> IF s = {} THEN 0 ELSE f[Chosen(s)] + h[s \ {Chosen(s)}]]
SumOver(S, f) == (CHOOSE h : Sums(h, S, f))[S]

LEMMA SumsExist ==
  ASSUME NEW T, NEW f \in [T -> Nat], NEW S \in SUBSET T, IsFiniteSet(S)
  PROVE  \E h \in [SUBSET S -> Nat] : Sums(h, S, f)
<1> DEFINE C == [s \in SUBSET S |-> Chosen(s)]
           F == [p \in (SUBSET S) \X Nat |-> IF p[1] = {} THEN 0 ELSE f[C[p[1]]] + p[2]]
<1>1. \A s \in SUBSET S : s # {} => C[s] \in s /\ C[s] = Chosen(s) /\ f[C[s]] \in Nat
  BY DEF Chosen
<1>2. F \in [(SUBSET S) \X Nat -> Nat]
  <2> HIDE DEF C
  <2> QED BY <1>1
<1>3. \A s \in SUBSET S, v \in Nat : s # {} => F[<<s, v>>] = f[C[s]] + v
  OBVIOUS
<1> HIDE DEF C, F
<1>4. PICK h \in [SUBSET S -> Nat] : Folded(h, S, C, 0, F)
  BY <1>1, <1>2, FoldExists
<1>5. ASSUME NEW s \in SUBSET S
      PROVE  h[s] = IF s = {} THEN 0 ELSE f[Chosen(s)] + h[s \ {Chosen(s)}]
  <2>1. h[s] = IF s = {} THEN 0 ELSE F[<<s, h[s \ {C[s]}]>>]
    BY <1>4 DEF Folded
  <2>2. h[s \ {C[s]}] \in Nat
    OBVIOUS
  <2> QED BY <1>1, <1>3, <2>1, <2>2
<1>6. h = [s \in SUBSET S |-> IF s = {} THEN 0 ELSE f[Chosen(s)] + h[s \ {Chosen(s)}]]
  BY <1>4, <1>5
<1> QED BY <1>4, <1>6 DEF Sums

LEMMA SumsAreOne ==
  ASSUME NEW S, IsFiniteSet(S), NEW R \in SUBSET S, NEW f,
         NEW g, Sums(g, S, f), NEW h, Sums(h, R, f)
  PROVE  \A s \in SUBSET R : g[s] = h[s]
<1>1. ASSUME NEW s \in SUBSET R
      PROVE  /\ g[s] = IF s = {} THEN 0 ELSE f[Chosen(s)] + g[s \ {Chosen(s)}]
             /\ h[s] = IF s = {} THEN 0 ELSE f[Chosen(s)] + h[s \ {Chosen(s)}]
             /\ s # {} => Chosen(s) \in s
  BY DEF Sums, Chosen
<1> DEFINE T == {s \in SUBSET R : g[s] # h[s]}
<1>2. SUFFICES ASSUME T # {} PROVE FALSE
  OBVIOUS
<1>3. /\ T \in SUBSET (SUBSET S) /\ \A s \in T : s \in SUBSET R /\ g[s] # h[s]
      /\ \A s \in SUBSET R : s \notin T => g[s] = h[s]
  OBVIOUS
<1> HIDE DEF T
<1>4. PICK t \in T : \A s \in T : ~(s \subseteq t /\ s # t)
  BY <1>2, <1>3, Smallest
<1>5. t \in SUBSET R /\ g[t] # h[t]
  BY <1>3
<1>6. t # {}
  BY <1>1, <1>5
<1>7. t \ {Chosen(t)} \in SUBSET R /\ t \ {Chosen(t)} \notin T
  BY <1>1, <1>4, <1>5, <1>6
<1>8. g[t \ {Chosen(t)}] = h[t \ {Chosen(t)}]
  BY <1>3, <1>7
<1> QED BY <1>1, <1>5, <1>6, <1>8

Splits(h, S, f) == \A s \in SUBSET S : \A m \in s : h[s] = f[m] + h[s \ {m}]

\* Whichever member is taken out first, the sum is that member's value and the
\* sum of the others.
LEMMA SumsSplit ==
  ASSUME NEW T, NEW f \in [T -> Nat], NEW S \in SUBSET T, IsFiniteSet(S),
         NEW h \in [SUBSET S -> Nat], Sums(h, S, f)
  PROVE  Splits(h, S, f)
<1>1. ASSUME NEW s \in SUBSET S, s # {}
      PROVE  /\ h[s] = f[Chosen(s)] + h[s \ {Chosen(s)}]
             /\ Chosen(s) \in s /\ Chosen(s) \in S
  BY <1>1 DEF Sums, Chosen
<1> DEFINE Bad(s) == \E m \in s : h[s] # f[m] + h[s \ {m}]
           Some == {s \in SUBSET S : Bad(s)}
<1>2. SUFFICES ASSUME Some # {} PROVE FALSE
  BY DEF Splits
<1>3. /\ Some \in SUBSET (SUBSET S) /\ \A s \in Some : s \in SUBSET S /\ Bad(s)
      /\ \A s \in SUBSET S : s \notin Some => \A m \in s : h[s] = f[m] + h[s \ {m}]
  OBVIOUS
<1> HIDE DEF Some
<1>4. PICK t \in Some : \A s \in Some : ~(s \subseteq t /\ s # t)
  BY <1>2, <1>3, Smallest
<1>5. PICK m \in t : h[t] # f[m] + h[t \ {m}]
  BY <1>3
<1> DEFINE c == Chosen(t)
<1>6. t \in SUBSET S /\ m \in S /\ c \in t /\ c \in S /\ h[t] = f[c] + h[t \ {c}]
  BY <1>1, <1>3, <1>5
<1> HIDE DEF c
<1>7. m # c
  BY <1>5, <1>6
<1>8. /\ t \ {c} \in SUBSET S /\ t \ {c} \notin Some /\ m \in t \ {c}
      /\ t \ {m} \in SUBSET S /\ t \ {m} \notin Some /\ c \in t \ {m}
  BY <1>4, <1>5, <1>6, <1>7
<1>9. /\ h[t \ {c}] = f[m] + h[(t \ {c}) \ {m}]
      /\ h[t \ {m}] = f[c] + h[(t \ {m}) \ {c}]
  BY <1>3, <1>8
<1>10. (t \ {c}) \ {m} = (t \ {m}) \ {c} /\ (t \ {c}) \ {m} \in SUBSET S
  BY <1>6
<1>11. f[m] \in Nat /\ f[c] \in Nat /\ h[(t \ {c}) \ {m}] \in Nat
  BY <1>6, <1>10
<1> DEFINE rest == h[(t \ {c}) \ {m}]
<1>12. h[t] = f[c] + (f[m] + rest) /\ f[m] + h[t \ {m}] = f[m] + (f[c] + rest)
  BY <1>6, <1>9, <1>10
<1> HIDE DEF rest
<1>13. rest \in Nat
  BY <1>11 DEF rest
<1>14. f[c] + (f[m] + rest) = f[m] + (f[c] + rest)
  BY <1>11, <1>13
<1> QED BY <1>5, <1>12, <1>14

LEMMA SumOverLaws ==
  ASSUME NEW T, NEW f \in [T -> Nat], NEW S \in SUBSET T, IsFiniteSet(S)
  PROVE  /\ SumOver(S, f) \in Nat
         /\ \A m \in S : SumOver(S, f) = f[m] + SumOver(S \ {m}, f)
<1>1. PICK h \in [SUBSET S -> Nat] : Sums(h, S, f)
  BY SumsExist
<1>2. ASSUME NEW R \in SUBSET S
      PROVE  SumOver(R, f) = h[R]
  <2>1. IsFiniteSet(R)
    BY FS_Subset
  <2>2. \E g : Sums(g, R, f)
    BY <2>1, SumsExist
  <2>3. Sums(CHOOSE g : Sums(g, R, f), R, f)
    BY <2>2
  <2>4. \A s \in SUBSET R : h[s] = (CHOOSE g : Sums(g, R, f))[s]
    BY <1>1, <2>3, SumsAreOne
  <2> QED BY <2>4 DEF SumOver
<1>3. \A m \in S : h[S] = f[m] + h[S \ {m}]
  <2>1. Splits(h, S, f)
    BY <1>1, SumsSplit
  <2> QED BY <2>1 DEF Splits
<1> QED BY <1>1, <1>2, <1>3

-----------------------------------------------------------------------------
\* The severest of some levels is one of them, and no other is severer.
LEMMA SeverestIs ==
  ASSUME NEW levels, levels \subseteq Levels!Levels, levels # {}
  PROVE  /\ Levels!Severest(levels) \in levels
         /\ \A l \in levels : Levels!Rank(l) <= Levels!Rank(Levels!Severest(levels))
<1> DEFINE Top(s) == \A l \in levels : Levels!Rank(l) <= Levels!Rank(s)
<1>1. /\ Levels!Rank("Public") = 0 /\ Levels!Rank("Internal") = 1
      /\ Levels!Rank("Confidential") = 2 /\ Levels!Rank("Restricted") = 3
  BY DEF Levels!Rank
<1>2. \E s \in levels : Top(s)
  <2>1. CASE "Restricted" \in levels
    BY <1>1, <2>1 DEF Levels!Levels
  <2>2. CASE "Restricted" \notin levels /\ "Confidential" \in levels
    BY <1>1, <2>2 DEF Levels!Levels
  <2>3. CASE {"Restricted", "Confidential"} \cap levels = {} /\ "Internal" \in levels
    BY <1>1, <2>3 DEF Levels!Levels
  <2>4. CASE levels = {"Public"}
    BY <1>1, <2>4
  <2> QED BY <2>1, <2>2, <2>3, <2>4 DEF Levels!Levels
<1>3. Levels!Severest(levels) = CHOOSE s \in levels : Top(s)
  BY DEF Levels!Severest
<1> HIDE DEF Top
<1>4. Levels!Severest(levels) \in levels /\ Top(Levels!Severest(levels))
  BY <1>2, <1>3
<1> QED BY <1>4 DEF Top

\* What is known of a text, a fingerprint or a record of a source, is a floor: no
\* rule, model or context gives it a lower level (classification_engine.py).
THEOREM KnownIsFloorHolds ==
  ASSUME NEW text, text.known \subseteq Levels!Levels
  PROVE  Levels!KnownIsFloor(text)
<1> SUFFICES ASSUME ~text.empty
             PROVE  /\ text.fingerprint => Levels!Classified(text) = "Restricted"
                    /\ \A level \in text.known :
                         Levels!Rank(Levels!Classified(text)) >= Levels!Rank(level)
  BY DEF Levels!KnownIsFloor
<1>1. \A level \in Levels!Levels : Levels!Rank("Restricted") >= Levels!Rank(level)
  BY DEF Levels!Rank, Levels!Levels
<1>2. CASE text.fingerprint \/ "Restricted" \in text.known
  <2>1. Levels!Classified(text) = "Restricted"
    BY <1>2 DEF Levels!Classified
  <2> QED BY <1>1, <2>1
<1>3. CASE ~(text.fingerprint \/ "Restricted" \in text.known)
  <2> DEFINE found == Levels!LevelOf(Levels!Confidence(text, Levels!Hits(text)))
             all   == IF text.rules THEN text.known \cup {found} ELSE text.known
  <2>1. found \in Levels!Levels
    BY DEF Levels!LevelOf, Levels!Levels
  <2>2. Levels!Classified(text) = IF all = {} THEN "Public" ELSE Levels!Severest(all)
    BY <1>3 DEF Levels!Classified, Levels!WithoutRules
  <2>3. all \subseteq Levels!Levels /\ text.known \subseteq all
    BY <2>1
  <2> HIDE DEF all
  <2>4. \A level \in text.known : Levels!Rank(level) <= Levels!Rank(Levels!Classified(text))
    BY <2>2, <2>3, SeverestIs
  <2>5. all # {} => Levels!Classified(text) \in Levels!Levels
    BY <2>2, <2>3, SeverestIs
  <2>6. \A level \in Levels!Levels : Levels!Rank(level) \in Int
    BY DEF Levels!Rank, Levels!Levels
  <2>7. text.known # {} => all # {}
    BY <2>3
  <2> QED BY <1>3, <2>3, <2>4, <2>5, <2>6, <2>7
<1> QED BY <1>2, <1>3

LEMMA LeastMost ==
  ASSUME NEW a \in Int, NEW b \in Int
  PROVE  /\ Levels!Least(a, b) \in Int /\ Levels!Most(a, b) \in Int
         /\ Levels!Least(a, b) <= a /\ Levels!Least(a, b) <= b
         /\ Levels!Most(a, b) >= a /\ Levels!Most(a, b) >= b
         /\ Levels!Least(a, b) \in {a, b} /\ Levels!Most(a, b) \in {a, b}
BY DEF Levels!Least, Levels!Most

LEMMA MultiplierIs ==
  ASSUME NEW text
  PROVE  Levels!Multiplier(text) \in {10000, 11000, 11500, 12000, 12650, 13800}
BY DEF Levels!Multiplier

\* The channel and the file type raise a confidence by at most 38 in a hundred.
LEMMA FactorRaises ==
  ASSUME NEW base \in Nat, NEW m \in {10000, 11000, 11500, 12000, 12650, 13800}
  PROVE  /\ (base * m) \div 10000 \in Nat
         /\ base <= (base * m) \div 10000
         /\ base <= 2500 => (base * m) \div 10000 <= 3450
BY SMTT(30)

-----------------------------------------------------------------------------
\* So many times a weight, divided again: no less than the weight where it is
\* taken as often as it is divided by.
LEMMA ScaledIs ==
  ASSUME NEW w \in Nat, NEW t \in Nat \ {0}, NEW k \in Nat
  PROVE  (w * k) \div t \in Nat /\ (k >= t => (w * k) \div t >= w)
<1> DEFINE q == (w * k) \div t
<1>1. w * k \in Nat
  OBVIOUS
<1>2. q \in Nat /\ t * q <= w * k /\ w * k < t * (q + 1)
  BY <1>1, SMTT(30)
<1> HIDE DEF q
<1>3. ASSUME k >= t, q < w
      PROVE  FALSE
  <2>1. PICK d \in Nat : w = q + 1 + d
    <3>1. w - (q + 1) \in Nat /\ w = q + 1 + (w - (q + 1))
      BY <1>2, <1>3
    <3> QED BY <3>1
  <2>2. PICK e \in Nat : k = t + e
    <3>1. k - t \in Nat /\ k = t + (k - t)
      BY <1>3
    <3> QED BY <3>1
  <2>3. t * (q + 1) <= w * k
    <3>1. w * k = t * (q + 1) + t * d + (q + 1) * e + d * e
      BY <1>2, <2>1, <2>2, SMTT(30)
    <3>2. t * d \in Nat /\ (q + 1) * e \in Nat /\ d * e \in Nat /\ t * (q + 1) \in Nat
      BY <1>2
    <3> QED BY <3>1, <3>2
  <2>4. t * (q + 1) \in Int /\ w * k \in Int
    BY <1>2, <1>1
  <2> QED BY <1>2, <2>3, <2>4
<1> QED BY <1>2, <1>3 DEF q

\* What a match adds is a number, and no less than the weight of its rule where
\* there are matches enough and a telephone number is spoken of.
CountedFind(m) ==
  /\ m.rule.weight \in Nat /\ m.rule.threshold \in Nat
  /\ m.raw \in Nat /\ m.valid \in Nat /\ m.outside \in Nat

LEMMA ContributionIs ==
  ASSUME NEW m, CountedFind(m)
  PROVE  /\ Levels!Validated(m.rule, m) \in Nat
         /\ Levels!Contribution(m) \in Nat
         /\ (("PHONE" \in m.rule.labels => m.near) /\ Levels!Validated(m.rule, m) >= m.rule.threshold)
              => Levels!Contribution(m) >= m.rule.weight
<1> DEFINE v == Levels!Validated(m.rule, m)
           w == m.rule.weight
           t == m.rule.threshold
           k == Levels!Least(2 * t, v)
           scaled == IF t = 0 THEN w ELSE (w * k) \div t
           weak == "PHONE" \in m.rule.labels /\ ~m.near
<1>1. v \in Nat
  BY DEF CountedFind, Levels!Validated
<1>2. w \in Nat /\ t \in Nat
  BY DEF CountedFind
<1>3. Levels!Contribution(m) = IF weak THEN (scaled * 4) \div 10 ELSE scaled
  BY DEF Levels!Contribution
<1> HIDE DEF v, w, t, weak
<1>4. k \in Nat /\ (v >= t => k >= t)
  BY <1>1, <1>2 DEF Levels!Least
<1> HIDE DEF k
<1>5. scaled \in Nat /\ (v >= t => scaled >= w)
  <2>1. CASE t = 0
    BY <1>2, <2>1
  <2>2. CASE t # 0
    BY <1>2, <1>4, <2>2, ScaledIs
  <2> QED BY <2>1, <2>2
<1> HIDE DEF scaled
<1>6. (scaled * 4) \div 10 \in Nat
  BY <1>5
<1>7. Levels!Contribution(m) \in Nat /\ ((~weak /\ v >= t) => Levels!Contribution(m) >= w)
  BY <1>3, <1>5, <1>6
<1> QED BY <1>1, <1>7 DEF v, w, t, weak

\* The two sums over what is found, as sums over the values of a function.
LEMMA TotalIs ==
  ASSUME NEW T, NEW S \in SUBSET T
  PROVE  Levels!Total(S) = SumOver(S, [m \in T |-> Levels!Contribution(m)])
<1> DEFINE f == [m \in T |-> Levels!Contribution(m)]
           Step(h, s) == IF s = {} THEN 0
                         ELSE Levels!Contribution(Chosen(s)) + h[s \ {Chosen(s)}]
<1>1. Levels!Total(S) = (CHOOSE h : h = [s \in SUBSET S |-> Step(h, s)])[S]
  BY DEF Levels!Total, Levels!MapThenSumSet, Levels!MapThenFoldSet, Chosen
<1>2. \A s \in SUBSET S : s # {} => Levels!Contribution(Chosen(s)) = f[Chosen(s)]
  BY DEF Chosen
<1> HIDE DEF f
<1>3. ASSUME NEW h
      PROVE  [s \in SUBSET S |-> Step(h, s)] =
               [s \in SUBSET S |-> IF s = {} THEN 0 ELSE f[Chosen(s)] + h[s \ {Chosen(s)}]]
  BY <1>2
<1>4. ASSUME NEW h
      PROVE  (h = [s \in SUBSET S |-> Step(h, s)]) <=> Sums(h, S, f)
  BY <1>3 DEF Sums
<1> HIDE DEF Step
<1>5. (CHOOSE h : h = [s \in SUBSET S |-> Step(h, s)]) = (CHOOSE h : Sums(h, S, f))
  BY <1>4
<1> QED BY <1>1, <1>5 DEF SumOver, f

LEMMA WeightsAre ==
  ASSUME NEW T, NEW S \in SUBSET T
  PROVE  Levels!MapThenSumSet(Levels!Weigh, S) = SumOver(S, [m \in T |-> Levels!Weigh(m)])
<1> DEFINE f == [m \in T |-> Levels!Weigh(m)]
           Step(h, s) == IF s = {} THEN 0
                         ELSE Levels!Weigh(Chosen(s)) + h[s \ {Chosen(s)}]
<1>1. Levels!MapThenSumSet(Levels!Weigh, S) = (CHOOSE h : h = [s \in SUBSET S |-> Step(h, s)])[S]
  BY DEF Levels!MapThenSumSet, Levels!MapThenFoldSet, Chosen
<1>2. \A s \in SUBSET S : s # {} => Levels!Weigh(Chosen(s)) = f[Chosen(s)]
  BY DEF Chosen
<1> HIDE DEF f
<1>3. ASSUME NEW h
      PROVE  [s \in SUBSET S |-> Step(h, s)] =
               [s \in SUBSET S |-> IF s = {} THEN 0 ELSE f[Chosen(s)] + h[s \ {Chosen(s)}]]
  BY <1>2
<1>4. ASSUME NEW h
      PROVE  (h = [s \in SUBSET S |-> Step(h, s)]) <=> Sums(h, S, f)
  BY <1>3 DEF Sums
<1> HIDE DEF Step
<1>5. (CHOOSE h : h = [s \in SUBSET S |-> Step(h, s)]) = (CHOOSE h : Sums(h, S, f))
  BY <1>4
<1> QED BY <1>1, <1>5 DEF SumOver, f

Weights(S) == Levels!MapThenSumSet(Levels!Weigh, S)

\* Both sums are numbers, and lose what a member adds when it is taken out.
LEMMA TotalsSplit ==
  ASSUME NEW S, IsFiniteSet(S), \A m \in S : CountedFind(m)
  PROVE  /\ Levels!Total(S) \in Nat /\ Weights(S) \in Nat
         /\ \A m \in S : /\ Levels!Total(S) = Levels!Contribution(m) + Levels!Total(S \ {m})
                         /\ Weights(S) = m.rule.weight + Weights(S \ {m})
<1> DEFINE f == [m \in S |-> Levels!Contribution(m)]
           g == [m \in S |-> Levels!Weigh(m)]
<1>1. f \in [S -> Nat] /\ g \in [S -> Nat] /\ S \in SUBSET S
  BY ContributionIs DEF CountedFind, Levels!Weigh
<1>2. \A m \in S : f[m] = Levels!Contribution(m) /\ g[m] = m.rule.weight
  BY DEF Levels!Weigh
<1>3. \A R \in SUBSET S : Levels!Total(R) = SumOver(R, f) /\ Weights(R) = SumOver(R, g)
  BY TotalIs, WeightsAre DEF Weights
<1> HIDE DEF f, g
<1>4. /\ SumOver(S, f) \in Nat
      /\ \A m \in S : SumOver(S, f) = f[m] + SumOver(S \ {m}, f)
  BY <1>1, SumOverLaws
<1>5. /\ SumOver(S, g) \in Nat
      /\ \A m \in S : SumOver(S, g) = g[m] + SumOver(S \ {m}, g)
  BY <1>1, SumOverLaws
<1> QED BY <1>2, <1>3, <1>4, <1>5

LEMMA BonusIs ==
  ASSUME NEW score
  PROVE  Levels!BonusOf(score) \in {0, 1000, 4000, 7000, 9500}
BY DEF Levels!BonusOf

\* What the rules add up to is a number.
LEMMA SumsAreNumbers ==
  ASSUME NEW text, Counted(text), NEW hits \in SUBSET text.found
  PROVE  /\ IsFiniteSet(hits) /\ \A m \in hits : CountedFind(m)
         /\ Levels!Total(hits) \in Nat /\ Weights(hits) \in Nat
         /\ Levels!Bonus(text, hits) \in Nat
<1>1. IsFiniteSet(hits) /\ \A m \in hits : CountedFind(m)
  BY FS_Subset DEF Counted, CountedFind
<1>2. Levels!Total(hits) \in Nat /\ Weights(hits) \in Nat
  BY <1>1, TotalsSplit
<1> DEFINE bonus == Levels!BonusOf(Levels!Score(text, Levels!LabelsOf(hits)))
<1>3. bonus \in {0, 1000, 4000, 7000, 9500}
  BY BonusIs
<1>4. Levels!Bonus(text, hits) =
        IF Weights(hits) >= 8000 THEN Levels!Most(0, bonus - Weights(hits)) ELSE bonus
  BY DEF Levels!Bonus, Weights
<1> HIDE DEF bonus
<1>5. Levels!Bonus(text, hits) \in Nat
  BY <1>2, <1>3, <1>4 DEF Levels!Most
<1> QED BY <1>1, <1>2, <1>5

LEMMA OpinionIsNumber ==
  ASSUME NEW text, Counted(text)
  PROVE  Levels!Opinion(text.model) \in Int /\ Levels!Adjustment(text) \in Int
<1>1. Levels!Class(text.model) \in Int
  BY DEF Levels!Class
<1>2. Levels!Entities(text.model) \in Int
  <2>1. Levels!Least(2 * text.model.entities, 9) \in Int
    <3>1. 2 * text.model.entities \in Int
      BY DEF Counted
    <3> QED BY <3>1 DEF Levels!Least
  <2>2. (text.model.weight * Levels!Least(2 * text.model.entities, 9)) \div 6 \in Int
    BY <2>1 DEF Counted
  <2> QED BY <2>2, LeastMost DEF Levels!Entities, Levels!One
<1>3. Levels!Opinion(text.model) \in Int
  <2>1. (Levels!Entities(text.model) * 6 + Levels!Class(text.model) * 4) \div 10 \in Int
    BY <1>1, <1>2
  <2>2. Levels!Least(Levels!One,
          (Levels!Entities(text.model) * 6 + Levels!Class(text.model) * 4) \div 10) \in Int
    BY <2>1, LeastMost DEF Levels!One
  <2> QED BY <1>1, <2>2 DEF Levels!Opinion
<1>4. Levels!Adjustment(text) \in Int
  <2> DEFINE signs == Levels!Signs(text)
  <2>1. signs \in Nat
    BY DEF Levels!Signs, Counted
  <2> HIDE DEF signs
  <2>2. signs > text.real => (3000 * signs) \div (signs + text.real) \in Int
    BY <2>1 DEF Counted
  <2>3. Levels!Least(2000, text.real * 500) \in Int
    <3>1. text.real * 500 \in Int
      BY DEF Counted
    <3> QED BY <3>1 DEF Levels!Least
  <2> QED BY <2>1, <2>2, <2>3 DEF Levels!Adjustment, signs
<1> QED BY <1>3, <1>4

LEMMA SureIs ==
  ASSUME NEW n \in Int
  PROVE  Levels!Sure(n) \in Nat /\ (n >= 8000 => Levels!Sure(n) >= 8000)
BY DEF Levels!Sure, Levels!Most, Levels!Least, Levels!One

\* The level of a confidence, at the thresholds the theorems need.
LEMMA LevelOfIs ==
  ASSUME NEW confidence \in Int
  PROVE  /\ Levels!LevelOf(confidence) \in Levels!Levels
         /\ confidence >= 8000 => Levels!LevelOf(confidence) = "Restricted"
         /\ confidence < 6000 => Levels!LevelOf(confidence) \in {"Public", "Internal"}
<1> DEFINE high == confidence >= 8000
           mid  == confidence \in 6000 .. 7999
           low  == confidence \in 3000 .. 5999
<1>1. /\ high => ~mid /\ ~low
      /\ mid => ~high /\ ~low
      /\ low => ~high /\ ~mid
      /\ confidence < 6000 => ~high /\ ~mid
  OBVIOUS
<1>2. Levels!LevelOf(confidence) =
        CASE high -> "Restricted" [] mid -> "Confidential" [] low -> "Internal" [] OTHER -> "Public"
  BY DEF Levels!LevelOf
<1>3. high \in BOOLEAN /\ mid \in BOOLEAN /\ low \in BOOLEAN
  OBVIOUS
<1> HIDE DEF high, mid, low
<1>4. /\ high => Levels!LevelOf(confidence) = "Restricted"
      /\ mid => Levels!LevelOf(confidence) = "Confidential"
      /\ low => Levels!LevelOf(confidence) = "Internal"
      /\ ~high /\ ~mid /\ ~low => Levels!LevelOf(confidence) = "Public"
  <2>1. CASE high  BY <1>1, <1>2, <2>1
  <2>2. CASE mid  BY <1>1, <1>2, <2>2
  <2>3. CASE low  BY <1>1, <1>2, <2>3
  <2>4. CASE ~high /\ ~mid /\ ~low  BY <1>2, <2>4
  <2> QED BY <1>1, <2>1, <2>2, <2>3, <2>4
<1>5. Levels!LevelOf(confidence) \in Levels!Levels
  BY <1>4 DEF Levels!Levels
<1> QED BY <1>1, <1>4, <1>5 DEF high

\* Where the rules alone are sure, model, context and channel keep them so; and
\* where the context shows a false alarm nothing adds up to much.
LEMMA ConfidenceIs ==
  ASSUME NEW text, Counted(text)
  PROVE  LET total == Levels!Total(Levels!Hits(text)) + Levels!Bonus(text, Levels!Hits(text))
             confidence == Levels!Confidence(text, Levels!Hits(text))
         IN  /\ confidence \in Int
             /\ (total >= 8000 /\ (Levels!IsFalseAlarm(text) => text.model.state = "off")) => confidence >= 8000
             /\ (Levels!IsFalseAlarm(text) /\ text.model.state # "off") => confidence < 6000
<1> DEFINE total == Levels!Total(Levels!Hits(text)) + Levels!Bonus(text, Levels!Hits(text))
           rules == Levels!Least(Levels!One, total)
           blend == (rules * 50 + Levels!Opinion(text.model) * 30
                       + Levels!Sure(rules + Levels!Adjustment(text)) * 20) \div 100
           base  == IF text.model.state = "off" THEN total ELSE Levels!Combined(rules, text)
           extra == IF text.random /\ (Levels!Hits(text) # {} \/ text.numbers) THEN 500 ELSE 0
           m     == Levels!Multiplier(text)
<1>1. total \in Nat
  <2>1. Levels!Hits(text) \in SUBSET text.found
    BY DEF Levels!Hits
  <2> QED BY <2>1, SumsAreNumbers
<1>2. Levels!Confidence(text, Levels!Hits(text)) =
        Levels!Least(Levels!One, (base * m) \div 10000 + extra)
  BY DEF Levels!Confidence
<1>3. m \in {10000, 11000, 11500, 12000, 12650, 13800} /\ extra \in {0, 500}
  BY MultiplierIs
<1> HIDE DEF total, m, extra
<1>4. rules \in 0 .. 10000 /\ (total >= 8000 => rules >= 8000)
  BY <1>1 DEF Levels!Least, Levels!One
<1> HIDE DEF rules
<1>5. blend \in Int
  <2>1. Levels!Sure(rules + Levels!Adjustment(text)) \in Int
    <3> DEFINE shifted == rules + Levels!Adjustment(text)
    <3>1. shifted \in Int
      BY <1>4, OpinionIsNumber
    <3> HIDE DEF shifted
    <3>2. Levels!Sure(shifted) \in Int
      BY <3>1, SureIs
    <3> QED BY <3>2 DEF shifted
  <2> QED BY <1>4, <2>1, OpinionIsNumber
<1>6. Levels!Combined(rules, text) =
        IF Levels!IsFalseAlarm(text) THEN Levels!Least(2500, (rules * 3) \div 10)
        ELSE Levels!Sure(IF rules >= 8000 THEN Levels!Most(blend, rules) ELSE blend)
  BY DEF Levels!Combined
<1> HIDE DEF blend
<1> DEFINE kept == IF rules >= 8000 THEN Levels!Most(blend, rules) ELSE blend
<1>7. kept \in Int /\ (rules >= 8000 => kept >= 8000)
  BY <1>4, <1>5 DEF Levels!Most
<1>8. ~Levels!IsFalseAlarm(text) =>
        /\ Levels!Combined(rules, text) \in Nat
        /\ rules >= 8000 => Levels!Combined(rules, text) >= 8000
  <2>1. ~Levels!IsFalseAlarm(text) => Levels!Combined(rules, text) = Levels!Sure(kept)
    BY <1>6
  <2> HIDE DEF kept
  <2>2. Levels!Sure(kept) \in Nat /\ (kept >= 8000 => Levels!Sure(kept) >= 8000)
    BY <1>7, SureIs
  <2>3. rules >= 8000 => kept >= 8000
    BY <1>7
  <2> QED BY <2>1, <2>2, <2>3
<1> HIDE DEF kept
<1>9. Levels!IsFalseAlarm(text) =>
        Levels!Combined(rules, text) \in Nat /\ Levels!Combined(rules, text) <= 2500
  BY <1>4, <1>6 DEF Levels!Least
<1>10. /\ base \in Nat
       /\ (total >= 8000 /\ (Levels!IsFalseAlarm(text) => text.model.state = "off")) => base >= 8000
       /\ (Levels!IsFalseAlarm(text) /\ text.model.state # "off") => base <= 2500
  BY <1>1, <1>4, <1>8, <1>9
<1> HIDE DEF base
<1>11. /\ (base * m) \div 10000 \in Nat
       /\ base <= (base * m) \div 10000
       /\ base <= 2500 => (base * m) \div 10000 <= 3450
  BY <1>3, <1>10, FactorRaises
<1> DEFINE raised == (base * m) \div 10000
<1> HIDE DEF raised
<1>12. /\ Levels!Least(Levels!One, raised + extra) \in Int
       /\ (total >= 8000 /\ (Levels!IsFalseAlarm(text) => text.model.state = "off")) =>
            Levels!Least(Levels!One, raised + extra) >= 8000
       /\ (Levels!IsFalseAlarm(text) /\ text.model.state # "off") =>
            Levels!Least(Levels!One, raised + extra) < 6000
  BY <1>3, <1>10, <1>11 DEF raised, Levels!Least, Levels!One
<1> QED BY <1>2, <1>12 DEF raised, total

\* What the rules alone call restricted stays restricted whatever the model, the
\* context and the channel add, unless the context shows a false alarm.
THEOREM StrongRulesStandHolds ==
  ASSUME NEW text, Counted(text)
  PROVE  Levels!StrongRulesStand(text)
<1> SUFFICES ASSUME ~text.empty, text.rules, ~Levels!IsFalseAlarm(text),
                    Levels!Total(Levels!Hits(text)) + Levels!Bonus(text, Levels!Hits(text)) >= 8000
             PROVE  Levels!Classified(text) = "Restricted"
  BY DEF Levels!StrongRulesStand
<1>1. Levels!LevelOf(Levels!Confidence(text, Levels!Hits(text))) = "Restricted"
  <2>1. /\ Levels!Confidence(text, Levels!Hits(text)) \in Int
        /\ Levels!Confidence(text, Levels!Hits(text)) >= 8000
    BY ConfidenceIs
  <2> QED BY <2>1, LevelOfIs
<1>2. CASE text.fingerprint \/ "Restricted" \in text.known
  BY <1>2 DEF Levels!Classified
<1>3. CASE ~(text.fingerprint \/ "Restricted" \in text.known)
  <2> DEFINE all == text.known \cup {"Restricted"}
  <2>1. Levels!Classified(text) = Levels!Severest(all)
    BY <1>1, <1>3 DEF Levels!Classified
  <2>2. all \subseteq Levels!Levels /\ "Restricted" \in all
    BY DEF Counted, Levels!Levels
  <2> HIDE DEF all
  <2>3. /\ Levels!Severest(all) \in Levels!Levels
        /\ Levels!Rank("Restricted") <= Levels!Rank(Levels!Severest(all))
    BY <2>2, SeverestIs
  <2> QED BY <2>1, <2>3 DEF Levels!Rank, Levels!Levels
<1> QED BY <1>2, <1>3

\* A text that the context shows to be a false alarm, and that is not known, is
\* public or internal whatever its channel and file type multiply.
THEOREM FalseAlarmIsHarmlessHolds ==
  ASSUME NEW text, Counted(text)
  PROVE  Levels!FalseAlarmIsHarmless(text)
<1> SUFFICES ASSUME Levels!IsFalseAlarm(text), text.model.state # "off",
                    ~text.fingerprint, text.known = {}
             PROVE  Levels!Classified(text) \in {"Public", "Internal"}
  BY DEF Levels!FalseAlarmIsHarmless
<1> DEFINE found == Levels!LevelOf(Levels!Confidence(text, Levels!Hits(text)))
<1>1. found \in {"Public", "Internal"}
  <2>1. /\ Levels!Confidence(text, Levels!Hits(text)) \in Int
        /\ Levels!Confidence(text, Levels!Hits(text)) < 6000
    BY ConfidenceIs
  <2> QED BY <2>1, LevelOfIs
<1>2. Levels!Severest({found}) = found
  <2>1. found \in Levels!Levels
    BY <1>1 DEF Levels!Levels
  <2> HIDE DEF found
  <2> QED BY <2>1, SeverestIs
<1>3. text.known \cup {found} = {found}
  OBVIOUS
<1> HIDE DEF found
<1>4. Levels!Classified(text) = IF text.empty \/ ~text.rules THEN "Public" ELSE found
  BY <1>2, <1>3 DEF Levels!Classified, Levels!WithoutRules, found
<1> QED BY <1>1, <1>4

\* Where every telephone number is spoken of, the rules add up to no less than
\* their weights.
LEMMA WeightsAreFloor ==
  ASSUME NEW S, IsFiniteSet(S), \A m \in S : CountedFind(m),
         \A m \in S : ("PHONE" \in m.rule.labels => m.near)
                        /\ Levels!Validated(m.rule, m) >= m.rule.threshold
  PROVE  Weights(S) <= Levels!Total(S)
<1> DEFINE Some == {s \in SUBSET S : ~(Weights(s) <= Levels!Total(s))}
<1>1. /\ Some \in SUBSET (SUBSET S) /\ \A s \in Some : ~(Weights(s) <= Levels!Total(s))
      /\ \A s \in SUBSET S : s \notin Some => Weights(s) <= Levels!Total(s)
  OBVIOUS
<1> HIDE DEF Some
<1>2. SUFFICES ASSUME Some # {} PROVE FALSE
  BY <1>1
<1>3. PICK s \in Some : \A r \in Some : ~(r \subseteq s /\ r # s)
  BY <1>1, <1>2, Smallest
<1>4. s \in SUBSET S /\ IsFiniteSet(s) /\ \A m \in s : CountedFind(m)
  BY <1>1, FS_Subset
<1>5. CASE s = {}
  <2>1. Levels!Total({}) = SumOver({}, [m \in {} |-> Levels!Contribution(m)])
    BY TotalIs
  <2>2. Weights({}) = SumOver({}, [m \in {} |-> Levels!Weigh(m)])
    BY WeightsAre DEF Weights
  <2>3. [m \in {} |-> Levels!Contribution(m)] = [m \in {} |-> Levels!Weigh(m)]
    OBVIOUS
  <2>4. Weights(s) \in Nat /\ Levels!Total(s) \in Nat
    BY <1>4, TotalsSplit
  <2> QED BY <1>1, <1>5, <2>1, <2>2, <2>3, <2>4
<1>6. CASE s # {}
  <2>1. PICK m \in s : TRUE
    BY <1>6
  <2> DEFINE r == s \ {m}
  <2>2. r \in SUBSET S /\ r \notin Some /\ IsFiniteSet(r) /\ \A k \in r : CountedFind(k)
    BY <1>3, <1>4, <2>1, FS_Subset
  <2>3. Weights(r) <= Levels!Total(r) /\ Weights(r) \in Nat /\ Levels!Total(r) \in Nat
    BY <1>1, <2>2, TotalsSplit
  <2>4. /\ Levels!Total(s) = Levels!Contribution(m) + Levels!Total(r)
        /\ Weights(s) = m.rule.weight + Weights(r)
    BY <1>4, TotalsSplit
  <2>5. /\ Levels!Contribution(m) \in Nat /\ m.rule.weight \in Nat
        /\ Levels!Contribution(m) >= m.rule.weight
    BY <1>4, ContributionIs DEF CountedFind
  <2> HIDE DEF r
  <2>6. Weights(s) <= Levels!Total(s)
    BY <2>3, <2>4, <2>5
  <2> QED BY <1>1, <2>6
<1> QED BY <1>5, <1>6

LEMMA PointsGrow ==
  ASSUME NEW labels, NEW less \in SUBSET labels, NEW groups, NEW n \in Nat
  PROVE  /\ Levels!Points(labels, groups, n) \in Nat /\ Levels!Points(less, groups, n) \in Nat
         /\ Levels!Points(less, groups, n) <= Levels!Points(labels, groups, n)
BY DEF Levels!Points

LEMMA LevelsCardinality ==
  ASSUME NEW some
  PROVE  Levels!Cardinality(some) = Cardinality(some)
BY Zenon DEF Levels!Cardinality, Cardinality, Levels!IsFiniteSet, IsFiniteSet

\* More labels never make a lower score, nor a lower score a higher bonus.
LEMMA ScoreGrows ==
  ASSUME NEW text, NEW labels, NEW less \in SUBSET labels
  PROVE  /\ Levels!Score(text, labels) \in Nat /\ Levels!Score(text, less) \in Nat
         /\ Levels!Score(text, less) <= Levels!Score(text, labels)
<1> DEFINE Of(l) == Levels!Most(0, Levels!Cardinality(l \cap Levels!Strong) - 1)
<1>1. Of(labels) \in Nat /\ Of(less) \in Nat /\ Of(less) <= Of(labels)
  <2>1. IsFiniteSet(Levels!Strong)
    <3> DEFINE a == {"IFSC", "PAN", "PAN_CARD", "TAX"}
               b == {"AADHAAR", "CREDIT_CARD", "SSN", "BANK_ACCOUNT"}
    <3>1. /\ IsFiniteSet({"IFSC"}) /\ IsFiniteSet({"PAN"}) /\ IsFiniteSet({"PAN_CARD"})
          /\ IsFiniteSet({"TAX"}) /\ IsFiniteSet({"AADHAAR"}) /\ IsFiniteSet({"CREDIT_CARD"})
          /\ IsFiniteSet({"SSN"}) /\ IsFiniteSet({"BANK_ACCOUNT"})
      BY FS_Singleton
    <3>2. IsFiniteSet({"IFSC"} \cup {"PAN"}) /\ IsFiniteSet({"PAN_CARD"} \cup {"TAX"})
          /\ IsFiniteSet({"AADHAAR"} \cup {"CREDIT_CARD"})
          /\ IsFiniteSet({"SSN"} \cup {"BANK_ACCOUNT"})
      BY <3>1, FS_Union
    <3>3. /\ IsFiniteSet(({"IFSC"} \cup {"PAN"}) \cup ({"PAN_CARD"} \cup {"TAX"}))
          /\ IsFiniteSet(({"AADHAAR"} \cup {"CREDIT_CARD"}) \cup ({"SSN"} \cup {"BANK_ACCOUNT"}))
      BY <3>2, FS_Union
    <3>4. a = ({"IFSC"} \cup {"PAN"}) \cup ({"PAN_CARD"} \cup {"TAX"})
          /\ b = ({"AADHAAR"} \cup {"CREDIT_CARD"}) \cup ({"SSN"} \cup {"BANK_ACCOUNT"})
      OBVIOUS
    <3>5. IsFiniteSet(a \cup b)
      BY <3>3, <3>4, FS_Union
    <3>6. Levels!Strong = a \cup b
      BY DEF Levels!Strong
    <3> QED BY <3>5, <3>6
  <2>2. /\ IsFiniteSet(labels \cap Levels!Strong)
        /\ less \cap Levels!Strong \subseteq labels \cap Levels!Strong
    BY <2>1, FS_Subset
  <2>3. /\ Cardinality(labels \cap Levels!Strong) \in Nat
        /\ Cardinality(less \cap Levels!Strong) \in Nat
        /\ Cardinality(less \cap Levels!Strong) <= Cardinality(labels \cap Levels!Strong)
    BY <2>2, FS_Subset, FS_CardinalityType
  <2> QED BY <2>3, LevelsCardinality DEF Levels!Most
<1> DEFINE P(l) == Levels!Points(l, {"IFSC", "IFSC_CODE"}, 50)
           Q(l) == Levels!Points(l, {"PAN", "PAN_CARD", "TAX"}, 40)
           R(l) == Levels!Points(l, {"AADHAAR"}, 30)
           S(l) == Levels!Points(l, {"CREDIT_CARD", "PCI"}, 40)
           T(l) == Levels!Points(l, {"SSN"}, 40)
           U(l) == Levels!Points(l, {"BANK_ACCOUNT"}, 40)
           a == IF text.numbers THEN 10 ELSE 0
           b == IF text.banking THEN 20 ELSE 0
           c == IF text.numbers /\ text.banking THEN 20 ELSE 0
           d == IF text.personal THEN 15 ELSE 0
<1>2. /\ P(labels) \in Nat /\ P(less) \in Nat /\ P(less) <= P(labels)
      /\ Q(labels) \in Nat /\ Q(less) \in Nat /\ Q(less) <= Q(labels)
      /\ R(labels) \in Nat /\ R(less) \in Nat /\ R(less) <= R(labels)
  BY PointsGrow
<1>3. /\ S(labels) \in Nat /\ S(less) \in Nat /\ S(less) <= S(labels)
      /\ T(labels) \in Nat /\ T(less) \in Nat /\ T(less) <= T(labels)
      /\ U(labels) \in Nat /\ U(less) \in Nat /\ U(less) <= U(labels)
  BY PointsGrow
<1>4. a \in Nat /\ b \in Nat /\ c \in Nat /\ d \in Nat
  OBVIOUS
<1>5. \A l : Levels!Score(text, l) =
               P(l) + Q(l) + R(l) + S(l) + T(l) + U(l) + a + b + c + d + 10 * Of(l)
  BY DEF Levels!Score
<1> HIDE DEF P, Q, R, S, T, U, Of, a, b, c, d
<1> QED BY <1>1, <1>2, <1>3, <1>4, <1>5

LEMMA BonusGrows ==
  ASSUME NEW low \in Nat, NEW high \in Nat, low <= high
  PROVE  Levels!BonusOf(low) <= Levels!BonusOf(high)
<1>1. ASSUME NEW n \in Nat
      PROVE  Levels!BonusOf(n) = IF n >= 70 THEN 9500 ELSE IF n >= 50 THEN 7000
                                 ELSE IF n >= 30 THEN 4000 ELSE IF n >= 1 THEN 1000 ELSE 0
  BY DEF Levels!BonusOf
<1> QED BY <1>1

LEMMA LevelGrows ==
  ASSUME NEW low \in Int, NEW high \in Int, low <= high
  PROVE  Levels!Rank(Levels!LevelOf(low)) <= Levels!Rank(Levels!LevelOf(high))
<1>1. ASSUME NEW n \in Int
      PROVE  Levels!LevelOf(n) = IF n >= 8000 THEN "Restricted" ELSE IF n >= 6000 THEN "Confidential"
                                 ELSE IF n >= 3000 THEN "Internal" ELSE "Public"
  <2> DEFINE strong == n >= 8000
             mid  == n \in 6000 .. 7999
             weak  == n \in 3000 .. 5999
  <2>1. Levels!LevelOf(n) =
          CASE strong -> "Restricted" [] mid -> "Confidential" [] weak -> "Internal" [] OTHER -> "Public"
    BY DEF Levels!LevelOf
  <2>2. /\ mid <=> (n >= 6000 /\ ~strong)
        /\ weak <=> (n >= 3000 /\ ~(n >= 6000))
        /\ strong => n >= 6000
        /\ n >= 6000 => n >= 3000
    OBVIOUS
  <2> DEFINE six == n >= 6000
             three == n >= 3000
  <2> HIDE DEF strong, mid, weak, six, three
  <2>3. Levels!LevelOf(n) = IF strong THEN "Restricted" ELSE IF six THEN "Confidential"
                            ELSE IF three THEN "Internal" ELSE "Public"
    <3>1. (mid <=> (six /\ ~strong)) /\ (weak <=> (three /\ ~six)) /\ (strong => six) /\ (six => three)
      BY <2>2 DEF six, three
    <3>2. CASE strong  BY <2>1, <3>1, <3>2
    <3>3. CASE mid  BY <2>1, <3>1, <3>3
    <3>4. CASE weak  BY <2>1, <3>1, <3>4
    <3>5. CASE ~strong /\ ~mid /\ ~weak  BY <2>1, <3>1, <3>5
    <3> QED BY <3>2, <3>3, <3>4, <3>5
  <2> QED BY <2>3 DEF strong, six, three
<1> QED BY <1>1 DEF Levels!Rank

LEMMA SureGrows ==
  ASSUME NEW low \in Int, NEW high \in Int, low <= high
  PROVE  /\ Levels!Sure(low) \in Nat /\ Levels!Sure(high) \in Nat
         /\ Levels!Sure(low) <= Levels!Sure(high)
BY DEF Levels!Sure, Levels!Most, Levels!Least, Levels!One

LEMMA QuotientGrows ==
  ASSUME NEW low \in Int, NEW high \in Int, low <= high, NEW d \in {100, 10000}
  PROVE  /\ low \div d \in Int /\ high \div d \in Int /\ low \div d <= high \div d
BY SMTT(30)

\* What the rules find is no less with one find more, unless it is enough for the
\* highest level as it is.
LEMMA RulesGrow ==
  ASSUME NEW text, Counted(text), NEW less, NEW hits \in SUBSET text.found, NEW m \in hits,
         \A k \in hits : ("PHONE" \in k.rule.labels => k.near)
                           /\ Levels!Validated(k.rule, k) >= k.rule.threshold,
         \A f \in {"numbers", "banking", "personal"} : less[f] = text[f]
  PROVE  LET total == Levels!Total(hits) + Levels!Bonus(text, hits)
             without == Levels!Total(hits \ {m}) + Levels!Bonus(less, hits \ {m})
         IN  total >= 8000 \/ without <= total
<1> DEFINE rest == hits \ {m}
           bonus == Levels!BonusOf(Levels!Score(text, Levels!LabelsOf(hits)))
           lower == Levels!BonusOf(Levels!Score(text, Levels!LabelsOf(rest)))
<1>1. /\ IsFiniteSet(hits) /\ \A k \in hits : CountedFind(k)
      /\ Levels!Total(hits) \in Nat /\ Weights(hits) \in Nat /\ Levels!Bonus(text, hits) \in Nat
  BY SumsAreNumbers
<1>2. Levels!Total(rest) \in Nat /\ Weights(rest) \in Nat
  <2>1. rest \in SUBSET text.found
    OBVIOUS
  <2> QED BY <2>1, SumsAreNumbers
<1>3. /\ Levels!Total(hits) = Levels!Contribution(m) + Levels!Total(rest)
      /\ Weights(hits) = m.rule.weight + Weights(rest)
  BY <1>1, TotalsSplit
<1>4. Levels!Contribution(m) \in Nat /\ m.rule.weight \in Nat
  BY <1>1, ContributionIs DEF CountedFind
<1>5. Weights(hits) <= Levels!Total(hits)
  BY <1>1, WeightsAreFloor
<1>6. bonus \in Nat /\ lower \in Nat /\ lower <= bonus
  <2>1. Levels!LabelsOf(rest) \in SUBSET Levels!LabelsOf(hits)
    BY DEF Levels!LabelsOf
  <2> DEFINE high == Levels!Score(text, Levels!LabelsOf(hits))
             low  == Levels!Score(text, Levels!LabelsOf(rest))
  <2>2. high \in Nat /\ low \in Nat /\ low <= high
    BY <2>1, ScoreGrows
  <2> HIDE DEF high, low
  <2>3. Levels!BonusOf(low) <= Levels!BonusOf(high)
    BY <2>2, BonusGrows
  <2>4. Levels!BonusOf(low) \in Nat /\ Levels!BonusOf(high) \in Nat
    BY BonusIs
  <2> QED BY <2>3, <2>4 DEF high, low
<1>7. Levels!Score(less, Levels!LabelsOf(rest)) = Levels!Score(text, Levels!LabelsOf(rest))
  BY DEF Levels!Score
<1>8. /\ Levels!Bonus(text, hits) =
            IF Weights(hits) >= 8000 THEN Levels!Most(0, bonus - Weights(hits)) ELSE bonus
      /\ Levels!Bonus(less, rest) =
            IF Weights(rest) >= 8000 THEN Levels!Most(0, lower - Weights(rest)) ELSE lower
  BY <1>7 DEF Levels!Bonus, Weights
<1> HIDE DEF bonus, lower, rest
<1>9. CASE Weights(hits) >= 8000
  BY <1>1, <1>5, <1>9
<1>10. CASE ~(Weights(hits) >= 8000)
  BY <1>1, <1>2, <1>3, <1>4, <1>6, <1>8, <1>10 DEF rest
<1> QED BY <1>9, <1>10

\* Nor is the confidence less.
LEMMA ConfidenceGrows ==
  ASSUME NEW text, Counted(text), NEW less, NEW hits \in SUBSET text.found, NEW m \in hits,
         \A k \in hits : ("PHONE" \in k.rule.labels => k.near)
                           /\ Levels!Validated(k.rule, k) >= k.rule.threshold,
         hits = Levels!Hits(text),
         \A f \in TextFields \ {"found"} : less[f] = text[f],
         Levels!IsFalseAlarm(text) => text.model.state = "off"
  PROVE  LET high == Levels!Confidence(text, hits)
             low  == Levels!Confidence(less, hits \ {m})
         IN  high >= 8000 \/ (low \in Int /\ high \in Int /\ low <= high)
<1> DEFINE total   == Levels!Total(hits) + Levels!Bonus(text, hits)
           without == Levels!Total(hits \ {m}) + Levels!Bonus(less, hits \ {m})
<1>1. /\ less.numbers = text.numbers /\ less.banking = text.banking
      /\ less.personal = text.personal /\ less.model = text.model
      /\ less.testValue = text.testValue /\ less.testFile = text.testFile
      /\ less.examples = text.examples /\ less.real = text.real
      /\ less.fileType = text.fileType /\ less.channel = text.channel
      /\ less.random = text.random
  BY DEF TextFields
<1>2. total >= 8000 \/ without <= total
  <2>1. \A f \in {"numbers", "banking", "personal"} : less[f] = text[f]
    BY DEF TextFields
  <2> QED BY <2>1, RulesGrow
<1>3. total >= 8000 => Levels!Confidence(text, hits) >= 8000
  BY ConfidenceIs
<1>4. total \in Nat /\ without \in Nat
  <2>1. hits \ {m} \in SUBSET text.found
    OBVIOUS
  <2>2. Levels!Total(hits \ {m}) \in Nat
    BY <2>1, SumsAreNumbers
  <2>3. Levels!Bonus(less, hits \ {m}) = Levels!Bonus(text, hits \ {m})
    BY <1>1 DEF Levels!Bonus, Levels!Score
  <2>4. Levels!Bonus(text, hits \ {m}) \in Nat
    BY <2>1, SumsAreNumbers
  <2>5. Levels!Total(hits) \in Nat /\ Levels!Bonus(text, hits) \in Nat
    BY SumsAreNumbers
  <2> QED BY <2>2, <2>3, <2>4, <2>5
<1> DEFINE Rules(n) == Levels!Least(Levels!One, n)
           Blend(n) == (Rules(n) * 50 + Levels!Opinion(text.model) * 30
                          + Levels!Sure(Rules(n) + Levels!Adjustment(text)) * 20) \div 100
           Base(n) == IF text.model.state = "off" THEN n ELSE Levels!Combined(Rules(n), text)
           M == Levels!Multiplier(text)
           extra == IF text.random /\ (hits # {} \/ text.numbers) THEN 500 ELSE 0
           fewer == IF text.random /\ (hits \ {m} # {} \/ text.numbers) THEN 500 ELSE 0
<1>5. /\ Levels!Confidence(text, hits) =
            Levels!Least(Levels!One, (Base(total) * M) \div 10000 + extra)
      /\ Levels!Confidence(less, hits \ {m}) =
            Levels!Least(Levels!One, (Base(without) * M) \div 10000 + fewer)
  <2>1. /\ Levels!IsFalseAlarm(less) = Levels!IsFalseAlarm(text)
        /\ Levels!Adjustment(less) = Levels!Adjustment(text)
    BY <1>1 DEF Levels!IsFalseAlarm, Levels!Adjustment, Levels!Signs
  <2>2. \A n : Levels!Combined(n, less) = Levels!Combined(n, text)
    BY <1>1, <2>1 DEF Levels!Combined
  <2>3. Levels!Multiplier(less) = Levels!Multiplier(text)
    BY <1>1 DEF Levels!Multiplier
  <2> QED BY <1>1, <2>2, <2>3 DEF Levels!Confidence
<1>6. M \in {10000, 11000, 11500, 12000, 12650, 13800}
  BY MultiplierIs
<1>7. extra \in Nat /\ fewer \in Nat /\ fewer <= extra
  OBVIOUS
<1> HIDE DEF total, without, M, extra, fewer
<1>8. ASSUME without <= total, ~(total >= 8000)
      PROVE  Base(without) \in Nat /\ Base(total) \in Nat /\ Base(without) <= Base(total)
  <2>1. CASE text.model.state = "off"
    BY <1>4, <1>8, <2>1
  <2>2. CASE text.model.state # "off"
    <3> DEFINE r == Rules(total)
               s == Rules(without)
    <3>1. r \in Nat /\ s \in Nat /\ s <= r /\ ~(r >= 8000) /\ ~(s >= 8000)
      BY <1>4, <1>8 DEF Levels!Least, Levels!One
    <3> DEFINE a == Levels!Sure(r + Levels!Adjustment(text))
               b == Levels!Sure(s + Levels!Adjustment(text))
               o == Levels!Opinion(text.model)
    <3>2. a \in Nat /\ b \in Nat /\ b <= a /\ o \in Int
      <4> DEFINE d == Levels!Adjustment(text)
      <4>1. d \in Int /\ o \in Int
        BY OpinionIsNumber
      <4> HIDE DEF d, r, s
      <4>2. r + d \in Int /\ s + d \in Int /\ s + d <= r + d
        BY <3>1, <4>1
      <4> HIDE DEF o
      <4>3. Levels!Sure(r + d) \in Nat /\ Levels!Sure(s + d) \in Nat
            /\ Levels!Sure(s + d) <= Levels!Sure(r + d)
        BY <4>2, SureGrows
      <4> QED BY <4>1, <4>3 DEF d
    <3>3. Blend(total) = (r * 50 + o * 30 + a * 20) \div 100
          /\ Blend(without) = (s * 50 + o * 30 + b * 20) \div 100
      OBVIOUS
    <3>4. /\ Levels!Combined(r, text) = Levels!Sure(Blend(total))
          /\ Levels!Combined(s, text) = Levels!Sure(Blend(without))
      <4>1. ~Levels!IsFalseAlarm(text)
        BY <2>2
      <4> QED BY <3>1, <4>1 DEF Levels!Combined
    <3> HIDE DEF r, s, a, b, o, Blend
    <3>5. (s * 50 + o * 30 + b * 20) \in Int /\ (r * 50 + o * 30 + a * 20) \in Int
          /\ (s * 50 + o * 30 + b * 20) <= (r * 50 + o * 30 + a * 20)
      BY <3>1, <3>2
    <3>6. Blend(without) \in Int /\ Blend(total) \in Int /\ Blend(without) <= Blend(total)
      BY <3>3, <3>5, QuotientGrows
    <3>7. /\ Levels!Sure(Blend(without)) \in Nat /\ Levels!Sure(Blend(total)) \in Nat
          /\ Levels!Sure(Blend(without)) <= Levels!Sure(Blend(total))
      BY <3>6, SureGrows
    <3> QED BY <2>2, <3>4, <3>7 DEF r, s
  <2> QED BY <2>1, <2>2
<1>9. ASSUME without <= total, ~(total >= 8000)
      PROVE  /\ Levels!Confidence(less, hits \ {m}) \in Int /\ Levels!Confidence(text, hits) \in Int
             /\ Levels!Confidence(less, hits \ {m}) <= Levels!Confidence(text, hits)
  <2> DEFINE x == Base(without)
             y == Base(total)
  <2>1. x \in Nat /\ y \in Nat /\ x <= y
    BY <1>8, <1>9
  <2> HIDE DEF x, y, Base
  <2>2. x * M \in Int /\ y * M \in Int /\ x * M <= y * M
    BY <1>6, <2>1
  <2>3. /\ (x * M) \div 10000 \in Int /\ (y * M) \div 10000 \in Int
        /\ (x * M) \div 10000 <= (y * M) \div 10000
    BY <2>2, QuotientGrows
  <2> DEFINE p == (x * M) \div 10000
             q == (y * M) \div 10000
  <2> HIDE DEF p, q
  <2>4. /\ Levels!Least(Levels!One, p + fewer) \in Int
        /\ Levels!Least(Levels!One, q + extra) \in Int
        /\ Levels!Least(Levels!One, p + fewer) <= Levels!Least(Levels!One, q + extra)
    BY <1>7, <2>3 DEF p, q, Levels!Least, Levels!One
  <2> QED BY <1>5, <2>4 DEF p, q, x, y
<1> QED BY <1>2, <1>3, <1>9

\* One more find never lowers the level of a text in which every telephone number
\* is spoken of and that is not scaled down as a false alarm: for any number of
\* finds of any rules (classification_engine.py).
THEOREM MoreFindsNeverMilderHolds ==
  ASSUME NEW text, Counted(text)
  PROVE  Levels!MoreFindsNeverMilder(text)
<1> SUFFICES ASSUME \A k \in text.found : "PHONE" \in k.rule.labels => k.near,
                    Levels!IsFalseAlarm(text) => text.model.state = "off",
                    NEW m \in text.found
             PROVE  Levels!Rank(Levels!Classified([text EXCEPT !.found = @ \ {m}]))
                      <= Levels!Rank(Levels!Classified(text))
  BY DEF Levels!MoreFindsNeverMilder
<1> DEFINE less == [text EXCEPT !.found = @ \ {m}]
           hits == Levels!Hits(text)
<1>1. /\ \A f \in TextFields \ {"found"} : less[f] = text[f]
      /\ less.found = text.found \ {m}
  BY DEF Counted, TextFields
<1> HIDE DEF less
<1>2. /\ less.empty = text.empty /\ less.rules = text.rules /\ less.known = text.known
      /\ less.fingerprint = text.fingerprint /\ less.fileType = text.fileType
  BY <1>1 DEF TextFields
<1>3. Levels!Hits(less) = hits \ {m}
  BY <1>1, <1>2 DEF Levels!Hits, Levels!Applies
<1>4. /\ hits \in SUBSET text.found
      /\ \A k \in hits : Levels!Validated(k.rule, k) >= k.rule.threshold
  BY DEF Levels!Hits
<1> HIDE DEF hits
<1> DEFINE low  == Levels!LevelOf(Levels!Confidence(less, hits \ {m}))
           high == Levels!LevelOf(Levels!Confidence(text, hits))
<1>5. /\ low \in Levels!Levels /\ high \in Levels!Levels
      /\ Levels!Rank(low) <= Levels!Rank(high)
  <2>1. low \in Levels!Levels /\ high \in Levels!Levels
    BY DEF Levels!LevelOf, Levels!Levels
  <2>2. CASE m \in hits
    <3>1. \/ Levels!Confidence(text, hits) >= 8000
          \/ /\ Levels!Confidence(less, hits \ {m}) \in Int /\ Levels!Confidence(text, hits) \in Int
             /\ Levels!Confidence(less, hits \ {m}) <= Levels!Confidence(text, hits)
      BY <1>1, <1>4, <2>2, ConfidenceGrows DEF hits
    <3>2. Levels!Confidence(text, hits) \in Int
      BY ConfidenceIs DEF hits
    <3>3. CASE Levels!Confidence(text, hits) >= 8000
      <4>1. high = "Restricted"
        BY <3>2, <3>3, LevelOfIs
      <4> HIDE DEF low, high
      <4> QED BY <2>1, <4>1 DEF Levels!Rank, Levels!Levels
    <3>4. CASE ~(Levels!Confidence(text, hits) >= 8000)
      <4> DEFINE c == Levels!Confidence(less, hits \ {m})
                 d == Levels!Confidence(text, hits)
      <4>1. c \in Int /\ d \in Int /\ c <= d
        BY <3>1, <3>4
      <4> HIDE DEF c, d
      <4>2. Levels!Rank(Levels!LevelOf(c)) <= Levels!Rank(Levels!LevelOf(d))
        BY <4>1, LevelGrows
      <4> QED BY <2>1, <4>2 DEF c, d
    <3> QED BY <2>1, <3>3, <3>4
  <2>3. CASE m \notin hits
    <3>1. hits \ {m} = hits
      BY <2>3
    <3>2. Levels!Confidence(less, hits) = Levels!Confidence(text, hits)
      <4>1. /\ less.numbers = text.numbers /\ less.banking = text.banking
            /\ less.personal = text.personal /\ less.model = text.model
            /\ less.testValue = text.testValue /\ less.testFile = text.testFile
            /\ less.examples = text.examples /\ less.real = text.real
            /\ less.fileType = text.fileType /\ less.channel = text.channel
            /\ less.random = text.random
        BY <1>1 DEF TextFields
      <4>2. /\ Levels!IsFalseAlarm(less) = Levels!IsFalseAlarm(text)
            /\ Levels!Adjustment(less) = Levels!Adjustment(text)
        BY <4>1 DEF Levels!IsFalseAlarm, Levels!Adjustment, Levels!Signs
      <4>3. \A n : Levels!Combined(n, less) = Levels!Combined(n, text)
        BY <4>1, <4>2 DEF Levels!Combined
      <4>4. Levels!Multiplier(less) = Levels!Multiplier(text)
        BY <4>1 DEF Levels!Multiplier
      <4>5. Levels!Bonus(less, hits) = Levels!Bonus(text, hits)
        BY <4>1 DEF Levels!Bonus, Levels!Score
      <4> QED BY <4>1, <4>3, <4>4, <4>5 DEF Levels!Confidence
    <3>3. low = high
      BY <3>1, <3>2
    <3> HIDE DEF low, high
    <3> QED BY <2>1, <3>3 DEF Levels!Rank, Levels!Levels
  <2> QED BY <2>2, <2>3
<1> HIDE DEF low, high
<1>6. CASE text.empty \/ text.fingerprint \/ "Restricted" \in text.known \/ ~text.rules
  <2>1. Levels!Classified(less) = Levels!Classified(text)
    BY <1>2, <1>6 DEF Levels!Classified, Levels!WithoutRules
  <2>2. Levels!Rank(Levels!Classified(text)) \in Int
    BY DEF Levels!Rank
  <2> QED BY <2>1, <2>2 DEF less
<1>7. CASE ~(text.empty \/ text.fingerprint \/ "Restricted" \in text.known \/ ~text.rules)
  <2> DEFINE a == text.known \cup {low}
             b == text.known \cup {high}
  <2>1. Levels!Classified(less) = Levels!Severest(a) /\ Levels!Classified(text) = Levels!Severest(b)
    BY <1>2, <1>3, <1>7 DEF Levels!Classified, low, high, hits
  <2>2. a \subseteq Levels!Levels /\ a # {} /\ b \subseteq Levels!Levels /\ b # {}
    BY <1>5 DEF Counted
  <2>3. \A l \in a : l \in b \/ l = low
    OBVIOUS
  <2>4. high \in b
    OBVIOUS
  <2> HIDE DEF a, b
  <2>5. /\ Levels!Severest(a) \in a /\ Levels!Severest(b) \in b
        /\ \A l \in b : Levels!Rank(l) <= Levels!Rank(Levels!Severest(b))
    BY <2>2, SeverestIs
  <2>6. \A level \in Levels!Levels : Levels!Rank(level) \in Int
    BY DEF Levels!Rank, Levels!Levels
  <2>7. Levels!Rank(Levels!Severest(a)) <= Levels!Rank(Levels!Severest(b))
    BY <1>5, <2>2, <2>3, <2>4, <2>5, <2>6
  <2> QED BY <2>1, <2>7 DEF less
<1> QED BY <1>6, <1>7

-----------------------------------------------------------------------------
(* What is reported of a batch that a SIEM is sent *)

LEMMA OneCardinality ==
  ASSUME NEW some
  PROVE  Siems!Cardinality(some) = Cardinality(some)
BY Zenon DEF Siems!Cardinality, Cardinality, Siems!IsFiniteSet, IsFiniteSet

\* So many of a batch of n are a number no greater than n.
LEMMA PartOfBatch ==
  ASSUME NEW n \in Nat, NEW some \in SUBSET (1 .. n)
  PROVE  Cardinality(some) \in Nat /\ Cardinality(some) <= n
<1>1. IsFiniteSet(1 .. n) /\ Cardinality(1 .. n) = n
  BY FS_Interval
<1> QED BY <1>1, FS_Subset, FS_CardinalityType

LEMMA ResultIs ==
  ASSUME NEW success, NEW taken, NEW lost, NEW there
  PROVE  LET result == Siems!Result(success, taken, lost, there)
         IN  /\ result.success = success /\ result.sent = taken
             /\ result.failed = lost /\ result.stored = there
BY DEF Siems!Result

\* What a connector reports of a batch adds up and is never more than the SIEM
\* holds, and with no failure reported the SIEM holds all of it: for batches of any
\* length, broken off anywhere, by syslog, ELK in its chunks of Chunk and Splunk
\* (send_batch of the three connectors).
THEOREM BatchTellsTruthHolds ==
  ASSUME NEW Some, NEW events \in Seq(Some), NEW type, NEW cut \in Nat
  PROVE  Siems!BatchTellsTruth(type, events, cut)
<1> DEFINE n    == Len(events)
           good == {i \in DOMAIN events : Siems!Sendable(type, events[i])}
           Truth(result) == /\ result.sent + result.failed = n
                            /\ result.sent <= result.stored
                            /\ result.failed = 0 => result.success /\ result.stored = n
<1>1. n \in Nat /\ good \in SUBSET (1 .. n)
  OBVIOUS
<1> HIDE DEF n, good
<1>2. Truth(Siems!SyslogBatch(n, good, cut))
  <2>1. Siems!First(n, good, cut) \in SUBSET (1 .. n)
    BY <1>1 DEF Siems!First
  <2> DEFINE taken == Siems!Cardinality(Siems!First(n, good, cut))
  <2>2. taken \in Nat /\ taken <= n
    BY <1>1, <2>1, PartOfBatch, OneCardinality
  <2>3. Siems!SyslogBatch(n, good, cut) = Siems!Result(taken = n, taken, n - taken, taken)
    BY DEF Siems!SyslogBatch
  <2> HIDE DEF taken
  <2> DEFINE result == Siems!SyslogBatch(n, good, cut)
  <2>4. /\ result.sent = taken /\ result.failed = n - taken /\ result.stored = taken
    BY <2>3 DEF Siems!Result
  <2>5. taken = n => result.success
    <3>1. result.success = (taken = n)
      BY <2>3, ResultIs
    <3> QED BY <3>1
  <2> HIDE DEF result
  <2>6. Truth(result)
    BY <1>1, <2>2, <2>4, <2>5
  <2> QED BY <2>6 DEF result
<1>3. Truth(Siems!ElkBatch(n, good, cut))
  <2>1. Siems!Cardinality(good) \in Nat /\ Siems!Cardinality(good) <= n
    BY <1>1, PartOfBatch, OneCardinality
  <2>2. CASE cut >= n
    BY <1>1, <2>1, <2>2 DEF Siems!ElkBatch, Siems!Result
  <2>3. CASE cut < n
    <3> DEFINE there == Siems!Cardinality({i \in good : i <= (cut \div Chunk) * Chunk})
    <3>1. there \in Nat
      BY <1>1, PartOfBatch, OneCardinality
    <3>2. Siems!ElkBatch(n, good, cut) = Siems!Result(FALSE, 0, n, there)
      <4>1. ~(cut >= n)
        BY <1>1, <2>3
      <4> QED BY <4>1 DEF Siems!ElkBatch
    <3> HIDE DEF there
    <3> QED BY <1>1, <2>3, <3>1, <3>2 DEF Siems!Result
  <2> QED BY <1>1, <2>2, <2>3
<1>4. Truth(Siems!SplunkBatch(n, good, cut))
  <2>1. n = 0 => good = 1 .. n /\ cut >= n
    BY <1>1
  <2> QED BY <1>1, <2>1 DEF Siems!SplunkBatch, Siems!Result
<1>5. Siems!Batch(type, events, cut) \in
        {Siems!SyslogBatch(n, good, cut), Siems!ElkBatch(n, good, cut),
         Siems!SplunkBatch(n, good, cut)}
  BY DEF Siems!Batch, n, good
<1>6. Truth(Siems!Batch(type, events, cut))
  BY <1>2, <1>3, <1>4, <1>5
<1> QED BY <1>6 DEF Siems!BatchTellsTruth, n

-----------------------------------------------------------------------------
(* The records of an event that a SIEM is sent *)

\* The value of a field where it has one.
Value(form, field) == IF Siems!Get(form, field) \in {"null", ""} THEN "null" ELSE form[field]

LEMMA PairsAre ==
  ASSUME NEW keys, NEW form
  PROVE  LET pairs == Siems!Pairs(keys, form) IN
         /\ DOMAIN pairs \subseteq DOMAIN keys
         /\ \A k \in DOMAIN keys : Siems!Default(pairs, k, "null") = Value(form, keys[k])
BY DEF Siems!Pairs, Siems!Default, Value

LEMMA ToldIs ==
  ASSUME NEW key, NEW value
  PROVE  LET told == Siems!Told(key, value) IN
         /\ DOMAIN told = IF value = "null" THEN {} ELSE {key}
         /\ Siems!Default(told, key, "null") = value
         /\ \A k : k # key => k \notin DOMAIN told
BY DEF Siems!Told, Siems!Default

\* What a record says under a key is what the first of its parts to have the key
\* says.
LEMMA DefaultOver ==
  ASSUME NEW f, NEW g, NEW k, NEW none
  PROVE  /\ k \in DOMAIN f => Siems!Default(Siems!Over(f, g), k, none) = Siems!Default(f, k, none)
         /\ k \notin DOMAIN f => Siems!Default(Siems!Over(f, g), k, none) = Siems!Default(g, k, none)
         /\ k \notin DOMAIN g => Siems!Default(Siems!Over(f, g), k, none) = Siems!Default(f, k, none)
BY DEF Siems!Over, Siems!Default

\* What the CEF record says under each of its keys.
LEMMA CefHas ==
  ASSUME NEW form
  PROVE LET cef == Siems!ToCef(form) IN
    /\ \A k \in DOMAIN Siems!CefKeys : Siems!Default(cef, k, "null") = Value(form, Siems!CefKeys[k])
    /\ Siems!Default(cef, "act", "null") = Siems!Action(form)
    /\ ("act" \in DOMAIN cef) <=> Siems!Action(form) # "null"
    /\ "outcome" \in DOMAIN cef
    /\ cef.outcome = IF Siems!Blocked(form) THEN "blocked" ELSE "allowed"
    /\ "severity" \in DOMAIN cef /\ cef.severity = Siems!CefSeverity(form)
<1> DEFINE pairs == Siems!Pairs(Siems!CefKeys, form)
           rt == Siems!Told("rt", IF Siems!Get(form, "timestamp") = "iso" THEN "iso" ELSE "null")
           act == Siems!Told("act", Siems!Action(form))
           last == [outcome |-> IF Siems!Blocked(form) THEN "blocked" ELSE "allowed",
                    severity |-> Siems!CefSeverity(form)]
           b == Siems!Over(act, last)
           a == Siems!Over(rt, b)
           cef == Siems!ToCef(form)
<1>1. cef = Siems!Over(pairs, a)
  BY DEF Siems!ToCef
<1>2. /\ DOMAIN pairs \subseteq DOMAIN Siems!CefKeys
      /\ \A k \in DOMAIN Siems!CefKeys : Siems!Default(pairs, k, "null") = Value(form, Siems!CefKeys[k])
  BY PairsAre
<1>3. /\ DOMAIN act = IF Siems!Action(form) = "null" THEN {} ELSE {"act"}
      /\ Siems!Default(act, "act", "null") = Siems!Action(form)
  BY ToldIs
<1>4. DOMAIN rt \subseteq {"rt"}
  BY ToldIs
<1>5. /\ DOMAIN last = {"outcome", "severity"}
      /\ last.outcome = (IF Siems!Blocked(form) THEN "blocked" ELSE "allowed")
      /\ last.severity = Siems!CefSeverity(form)
  OBVIOUS
<1>6. DOMAIN Siems!CefKeys \cap {"rt", "act", "outcome", "severity"} = {}
  BY DEF Siems!CefKeys
<1> HIDE DEF cef, pairs, rt, act, last
<1>7. DOMAIN b = DOMAIN act \cup {"outcome", "severity"} /\ DOMAIN a = DOMAIN rt \cup DOMAIN b
      /\ DOMAIN cef = DOMAIN pairs \cup DOMAIN a
  BY <1>1, <1>5 DEF Siems!Over
<1>8. \A k \in DOMAIN Siems!CefKeys : Siems!Default(cef, k, "null") = Value(form, Siems!CefKeys[k])
  <2>1. \A k \in DOMAIN Siems!CefKeys : k \notin DOMAIN a
    BY <1>3, <1>4, <1>6, <1>7
  <2> HIDE DEF a
  <2>2. \A k \in DOMAIN Siems!CefKeys : Siems!Default(cef, k, "null") = Siems!Default(pairs, k, "null")
    BY <1>1, <2>1, DefaultOver
  <2> QED BY <1>2, <2>2
<1>9. \A k \in {"act", "outcome", "severity"} : k \notin DOMAIN pairs /\ k \notin DOMAIN rt
  BY <1>2, <1>4, <1>6
<1>10. Siems!Default(cef, "act", "null") = Siems!Action(form)
  <2>1. Siems!Default(cef, "act", "null") = Siems!Default(a, "act", "null")
    BY <1>1, <1>9, DefaultOver
  <2>2. Siems!Default(a, "act", "null") = Siems!Default(b, "act", "null")
    BY <1>9, DefaultOver
  <2>3. Siems!Default(b, "act", "null") = Siems!Default(act, "act", "null")
    <3>1. "act" \notin DOMAIN last
      BY <1>5
    <3> QED BY <3>1, DefaultOver
  <2> QED BY <1>3, <2>1, <2>2, <2>3
<1>11. "act" \in DOMAIN cef <=> Siems!Action(form) # "null"
  BY <1>3, <1>7, <1>9
<1>12. ASSUME NEW k \in {"outcome", "severity"}
       PROVE  k \in DOMAIN cef /\ cef[k] = last[k]
  <2>1. k \notin DOMAIN pairs /\ k \notin DOMAIN rt /\ k \notin DOMAIN act /\ k \in DOMAIN last
    BY <1>3, <1>5, <1>9
  <2>2. b[k] = last[k] /\ k \in DOMAIN b
    BY <2>1 DEF Siems!Over
  <2>3. a[k] = b[k] /\ k \in DOMAIN a
    BY <2>1, <2>2 DEF Siems!Over
  <2>4. cef[k] = a[k] /\ k \in DOMAIN cef
    BY <1>1, <2>1, <2>3 DEF Siems!Over
  <2> QED BY <2>2, <2>3, <2>4
<1> QED BY <1>5, <1>8, <1>10, <1>11, <1>12 DEF cef

\* What the LEEF record says under each of its keys.
LEMMA LeefHas ==
  ASSUME NEW form
  PROVE LET leef == Siems!ToLeef(form) IN
    /\ \A k \in DOMAIN Siems!LeefKeys : Siems!Default(leef, k, "null") = Value(form, Siems!LeefKeys[k])
    /\ Siems!Default(leef, "action", "null") = Siems!Action(form)
    /\ Siems!Blocked(form) => Siems!Default(leef, "blocked", "no") = "yes"
    /\ Siems!Default(leef, "sev", "null") = Siems!CefSeverity(form)
<1> DEFINE pairs == Siems!Pairs(Siems!LeefKeys, form)
           act == Siems!Told("action", Siems!Action(form))
           was == Siems!Told("blocked", Siems!Default(form, "blocked", "null"))
           last == [sev |-> Siems!CefSeverity(form)]
           b == Siems!Over(was, last)
           a == Siems!Over(act, b)
           leef == Siems!ToLeef(form)
<1>1. leef = Siems!Over(pairs, a)
  BY DEF Siems!ToLeef
<1>2. /\ DOMAIN pairs \subseteq DOMAIN Siems!LeefKeys
      /\ \A k \in DOMAIN Siems!LeefKeys : Siems!Default(pairs, k, "null") = Value(form, Siems!LeefKeys[k])
  BY PairsAre
<1>3. /\ DOMAIN act \subseteq {"action"}
      /\ Siems!Default(act, "action", "null") = Siems!Action(form)
  BY ToldIs
<1>4. /\ DOMAIN was \subseteq {"blocked"}
      /\ Siems!Blocked(form) => "blocked" \in DOMAIN was /\ was["blocked"] = "yes"
  BY DEF Siems!Told, Siems!Blocked, Siems!Default
<1>5. DOMAIN last = {"sev"} /\ last.sev = Siems!CefSeverity(form)
  OBVIOUS
<1>6. DOMAIN Siems!LeefKeys \cap {"action", "blocked", "sev"} = {}
  BY DEF Siems!LeefKeys
<1> HIDE DEF leef, pairs, act, was, last
<1>7. DOMAIN b = DOMAIN was \cup {"sev"} /\ DOMAIN a = DOMAIN act \cup DOMAIN b
  BY <1>5 DEF Siems!Over
<1>8. \A k \in DOMAIN Siems!LeefKeys : Siems!Default(leef, k, "null") = Value(form, Siems!LeefKeys[k])
  <2>1. \A k \in DOMAIN Siems!LeefKeys : k \notin DOMAIN a
    BY <1>3, <1>4, <1>6, <1>7
  <2> HIDE DEF a
  <2>2. \A k \in DOMAIN Siems!LeefKeys : Siems!Default(leef, k, "null") = Siems!Default(pairs, k, "null")
    BY <1>1, <2>1, DefaultOver
  <2> QED BY <1>2, <2>2
<1>9. \A k \in {"action", "blocked", "sev"} : k \notin DOMAIN pairs
  BY <1>2, <1>6
<1>10. Siems!Default(leef, "action", "null") = Siems!Action(form)
  <2>1. Siems!Default(leef, "action", "null") = Siems!Default(a, "action", "null")
    BY <1>1, <1>9, DefaultOver
  <2>2. Siems!Default(a, "action", "null") = Siems!Default(act, "action", "null")
    <3>1. "action" \notin DOMAIN b
      BY <1>4, <1>7
    <3> QED BY <3>1, DefaultOver
  <2> QED BY <1>3, <2>1, <2>2
<1>11. ASSUME Siems!Blocked(form)
       PROVE  Siems!Default(leef, "blocked", "no") = "yes"
  <2>1. Siems!Default(leef, "blocked", "no") = Siems!Default(a, "blocked", "no")
    BY <1>1, <1>9, DefaultOver
  <2>2. Siems!Default(a, "blocked", "no") = Siems!Default(b, "blocked", "no")
    BY <1>3, DefaultOver
  <2>3. Siems!Default(b, "blocked", "no") = Siems!Default(was, "blocked", "no")
    BY <1>4, <1>11, DefaultOver
  <2>4. Siems!Default(was, "blocked", "no") = "yes"
    BY <1>4, <1>11 DEF Siems!Default
  <2> QED BY <2>1, <2>2, <2>3, <2>4
<1>12. Siems!Default(leef, "sev", "null") = Siems!CefSeverity(form)
  <2>1. Siems!Default(leef, "sev", "null") = Siems!Default(a, "sev", "null")
    BY <1>1, <1>9, DefaultOver
  <2>2. Siems!Default(a, "sev", "null") = Siems!Default(b, "sev", "null")
    BY <1>3, DefaultOver
  <2>3. Siems!Default(b, "sev", "null") = Siems!Default(last, "sev", "null")
    BY <1>4, DefaultOver
  <2>4. Siems!Default(last, "sev", "null") = Siems!CefSeverity(form)
    BY <1>5 DEF Siems!Default
  <2> QED BY <2>1, <2>2, <2>3, <2>4
<1> QED BY <1>8, <1>10, <1>11, <1>12 DEF leef

\* A severity as a grade, and its place among them.
LEMMA WordIs ==
  ASSUME NEW severity
  PROVE  /\ Siems!Word(severity) \in {"info", "low", "medium", "high", "critical"}
         /\ severity \in {"null", "medium"} => Siems!Word(severity) = "medium"
BY DEF Siems!Word, Siems!Known, Siems!Grades

LEMMA RankIs ==
  /\ Siems!Rank("info") = 1 /\ Siems!Rank("low") = 2 /\ Siems!Rank("medium") = 3
  /\ Siems!Rank("high") = 4 /\ Siems!Rank("critical") = 5
BY DEF Siems!Rank, Siems!Grades

\* What every connector makes of an event's severity, blocking and actions.
LEMMA FormIs ==
  ASSUME NEW event
  PROVE  LET form == Siems!Formatted(event) IN
         /\ \A f \in DOMAIN form : form[f] # "null"
         /\ Siems!Word(Siems!Default(form, "severity", "medium")) =
              Siems!Word(Siems!Default(event, "severity", "medium"))
<1> DEFINE severity == Siems!Default(event, "severity", "medium")
           plain == [f \in Siems!Plain |-> Siems!Get(event, f)]
           others == [severity  |-> severity,
                      blocked   |-> Siems!Default(event, "blocked", "no"),
                      actions   |-> Siems!Default(event, "actions", ""),
                      metadata  |-> Siems!Default(event, "metadata", "null"),
                      timestamp |-> Siems!Default(event, "timestamp", "iso")]
           all == Siems!Over(plain, others)
           form == Siems!Formatted(event)
<1>1. form = [f \in {g \in DOMAIN all : all[g] # "null"} |-> all[f]]
  BY DEF Siems!Formatted
<1>2. "severity" \in DOMAIN others /\ others["severity"] = severity /\ "severity" \notin DOMAIN plain
  BY DEF Siems!Plain
<1> HIDE DEF plain, others, severity
<1>3. "severity" \in DOMAIN all /\ all["severity"] = severity
  BY <1>2 DEF Siems!Over
<1> HIDE DEF all, form
<1>4. /\ severity # "null" => "severity" \in DOMAIN form /\ form["severity"] = severity
      /\ severity = "null" => "severity" \notin DOMAIN form
  BY <1>1, <1>3
<1>5. \A f \in DOMAIN form : form[f] # "null"
  BY <1>1
<1>6. Siems!Word(Siems!Default(form, "severity", "medium")) = Siems!Word(severity)
  BY <1>4, WordIs DEF Siems!Default
<1> QED BY <1>5, <1>6 DEF form, severity

\* The records that a SIEM is sent of an event agree in every field they share,
\* both tell that it was blocked, and graver events are graver in the frame and in
\* the record: for events with any fields and values (syslog_connector.py).
THEOREM RecordsAgreeHolds ==
  ASSUME NEW event, NEW other
  PROVE  Siems!RecordsAgree(event, other)
<1> DEFINE form == Siems!Formatted(event)
           cef == Siems!ToCef(form)
           leef == Siems!ToLeef(form)
           Same == Siems!Same
<1>1. /\ \A k \in DOMAIN Siems!CefKeys : Siems!Default(cef, k, "null") = Value(form, Siems!CefKeys[k])
      /\ Siems!Default(cef, "act", "null") = Siems!Action(form)
      /\ ("act" \in DOMAIN cef) <=> Siems!Action(form) # "null"
      /\ cef.outcome = IF Siems!Blocked(form) THEN "blocked" ELSE "allowed"
      /\ "severity" \in DOMAIN cef /\ cef.severity = Siems!CefSeverity(form)
  BY CefHas
<1>2. /\ \A k \in DOMAIN Siems!LeefKeys : Siems!Default(leef, k, "null") = Value(form, Siems!LeefKeys[k])
      /\ Siems!Default(leef, "action", "null") = Siems!Action(form)
      /\ Siems!Blocked(form) => Siems!Default(leef, "blocked", "no") = "yes"
      /\ Siems!Default(leef, "sev", "null") = Siems!CefSeverity(form)
  BY LeefHas
<1>3. \A f \in DOMAIN form : form[f] # "null"
  BY FormIs
<1> HIDE DEF form, cef, leef
<1>4. \A k \in DOMAIN Same : Siems!Default(cef, k, "null") = Siems!Default(leef, Same[k], "null")
  <2>1. Siems!Default(cef, "severity", "null") = Siems!Default(leef, "sev", "null")
    BY <1>1, <1>2 DEF Siems!Default
  <2>2. \A k \in DOMAIN Same : k \notin {"act", "severity"} =>
          /\ k \in DOMAIN Siems!CefKeys /\ Same[k] \in DOMAIN Siems!LeefKeys
          /\ Siems!LeefKeys[Same[k]] = Siems!CefKeys[k]
    BY DEF Siems!Same, Siems!CefKeys, Siems!LeefKeys
  <2>3. Same["act"] = "action" /\ Same["severity"] = "sev"
    BY DEF Siems!Same
  <2> HIDE DEF Same
  <2>4. \A k \in DOMAIN Same : k \notin {"act", "severity"} =>
          Siems!Default(cef, k, "null") = Siems!Default(leef, Same[k], "null")
    BY <1>1, <1>2, <2>2
  <2> QED BY <1>1, <1>2, <2>1, <2>3, <2>4
<1>5. cef.outcome = "blocked" => Siems!Default(leef, "blocked", "no") = "yes" /\ "act" \in DOMAIN cef
  <2> SUFFICES ASSUME cef.outcome = "blocked"
               PROVE  Siems!Default(leef, "blocked", "no") = "yes" /\ "act" \in DOMAIN cef
    OBVIOUS
  <2>1. Siems!Blocked(form)
    BY <1>1
  <2>2. Siems!Action(form) # "null"
    <3>1. CASE Siems!Default(form, "actions", "") # ""
      <4>1. Siems!Action(form) = form.actions /\ "actions" \in DOMAIN form
        BY <3>1 DEF Siems!Action, Siems!Default
      <4> QED BY <1>3, <4>1
    <3>2. CASE Siems!Default(form, "actions", "") = ""
      BY <2>1, <3>2 DEF Siems!Action
    <3> QED BY <3>1, <3>2
  <2> QED BY <1>1, <1>2, <2>1, <2>2
<1>6. Siems!Priority(event, 16) < Siems!Priority(other, 16) <=>
        cef.severity > Siems!ToCef(Siems!Formatted(other)).severity
  <2> DEFINE w == Siems!Word(Siems!Default(event, "severity", "medium"))
             v == Siems!Word(Siems!Default(other, "severity", "medium"))
  <2>1. cef.severity = <<1, 3, 5, 8, 10>>[Siems!Rank(w)]
    BY <1>1, FormIs DEF Siems!CefSeverity, form
  <2>2. Siems!ToCef(Siems!Formatted(other)).severity = <<1, 3, 5, 8, 10>>[Siems!Rank(v)]
    BY CefHas, FormIs DEF Siems!CefSeverity
  <2>3. Siems!Priority(event, 16) = 135 - Siems!Rank(w) /\ Siems!Priority(other, 16) = 135 - Siems!Rank(v)
    BY WordIs, RankIs DEF Siems!Priority
  <2>4. /\ w \in {"info", "low", "medium", "high", "critical"}
        /\ v \in {"info", "low", "medium", "high", "critical"}
    BY WordIs
  <2> HIDE DEF w, v
  <2>5. Siems!Rank(w) \in 1 .. 5 /\ Siems!Rank(v) \in 1 .. 5
    BY <2>4, RankIs
  <2> DEFINE i == Siems!Rank(w)
             j == Siems!Rank(v)
  <2> HIDE DEF i, j
  <2>6. 135 - i < 135 - j <=> <<1, 3, 5, 8, 10>>[i] > <<1, 3, 5, 8, 10>>[j]
    <3>1. i \in {1, 2, 3, 4, 5} /\ j \in {1, 2, 3, 4, 5}
      BY <2>5 DEF i, j
    <3> QED BY <3>1
  <2> QED BY <2>1, <2>2, <2>3, <2>6 DEF i, j
<1> QED BY <1>4, <1>5, <1>6 DEF Siems!RecordsAgree, form, cef, leef, Same

-----------------------------------------------------------------------------
\* Of some natural numbers one is the least.
LEMMA LeastIs ==
  ASSUME NEW S \in SUBSET Nat, S # {}
  PROVE  \E n \in S : \A m \in S : n <= m
<1> DEFINE R == OpToRel(<, Nat)
<1>1. IsWellFoundedOn(R, Nat)
  BY NatLessThanWellFounded
<1>2. \A m, n \in Nat : m < n => <<m, n>> \in R
  BY DEF OpToRel
<1> HIDE DEF R
<1>3. PICK n \in S : \A m \in S : ~(<<m, n>> \in R)
  BY ONLY <1>1, S # {}, S \in SUBSET Nat, WFMin
<1>4. \A m \in S : n <= m
  <2> SUFFICES ASSUME NEW m \in S PROVE n <= m
    OBVIOUS
  <2>1. m \in Nat /\ n \in Nat /\ ~(m < n)
    BY <1>2, <1>3
  <2> QED BY <2>1
<1> QED BY <1>4

\* What holds of 0 and of each number whose predecessor it holds of holds of all
\* the numbers up to N.
LEMMA UpTo ==
  ASSUME NEW N \in Nat, NEW B, 0 \in B, \A n \in 1 .. N : n - 1 \in B => n \in B
  PROVE  \A n \in 0 .. N : n \in B
<1> SUFFICES ASSUME NEW z \in 0 .. N, z \notin B PROVE FALSE
  OBVIOUS
<1> DEFINE Bad == {n \in 0 .. N : n \notin B}
<1>1. Bad \in SUBSET Nat /\ Bad # {}
  OBVIOUS
<1>2. PICK n \in Bad : \A m \in Bad : n <= m
  <2> HIDE DEF Bad
  <2> QED BY <1>1, LeastIs
<1>3. n \in 1 .. N /\ n - 1 \in Bad
  BY <1>2
<1> QED BY <1>2, <1>3

\* The largest of some of the first numbers is one of them, and the last of all.
LEMMA MaxIs ==
  ASSUME NEW N \in Nat, NEW s \in SUBSET (1 .. N), s # {}
  PROVE  Acts!Max(s) \in s /\ \A x \in s : x <= Acts!Max(s)
<1> DEFINE Gaps == {N - n : n \in s}
<1>1. Gaps \in SUBSET Nat /\ Gaps # {}
  <2>1. \A n \in s : n \in 1 .. N /\ N - n \in Nat
    OBVIOUS
  <2>2. Gaps \in SUBSET Nat
    BY <2>1
  <2>3. PICK n \in s : TRUE
    OBVIOUS
  <2>4. N - n \in Gaps
    OBVIOUS
  <2> QED BY <2>2, <2>4
<1>2. PICK g \in Gaps : \A h \in Gaps : g <= h
  <2> HIDE DEF Gaps
  <2> QED BY <1>1, LeastIs
<1>3. PICK n \in s : g = N - n
  OBVIOUS
<1>4. \A x \in s : n >= x
  <2> SUFFICES ASSUME NEW x \in s PROVE n >= x
    OBVIOUS
  <2>1. N - x \in Gaps
    OBVIOUS
  <2>2. N - n <= N - x /\ n \in 1 .. N /\ x \in 1 .. N
    BY <1>2, <1>3, <2>1
  <2> QED BY <2>2
<1>5. Acts!Max(s) = CHOOSE x \in s : \A y \in s : x >= y
  BY DEF Acts!Max
<1>6. Acts!Max(s) \in s /\ \A y \in s : Acts!Max(s) >= y
  BY <1>4, <1>5
<1>7. \A x \in s : x \in Int
  BY ONLY s \in SUBSET (1 .. N)
<1> QED BY <1>6, <1>7

LEMMA MaxOfFirst ==
  ASSUME NEW N \in Nat, NEW n \in 1 .. N
  PROVE  Acts!Max(1 .. n) = n
<1>1. /\ 1 .. n \in SUBSET (1 .. N) /\ 1 .. n # {} /\ n \in 1 .. n
  OBVIOUS
<1> DEFINE m == Acts!Max(1 .. n)
<1>2. m \in 1 .. n /\ \A x \in 1 .. n : x <= m
  BY <1>1, MaxIs
<1>3. n <= m
  BY <1>1, <1>2
<1> QED BY <1>2, <1>3

LEMMA FirstButLast ==
  ASSUME NEW N \in Nat, NEW n \in 1 .. N
  PROVE  (1 .. n) \ {n} = 1 .. n - 1
<1>1. \A i : i \in (1 .. n) \ {n} <=> i \in 1 .. n - 1
  OBVIOUS
<1> QED BY <1>1

-----------------------------------------------------------------------------
\* What an action does to an event, or that it is refused.
Stepped(x, match, action, down) ==
  IF Acts!Refused(x, action) THEN x ELSE Acts!Done(x, match, action, down)

Texts == {"none", "clear", "taken", "redacted", "encrypted"}

\* An alert's severity is its action's, the match's, or as the action says.
Gravity(severity, match, action) ==
  CASE action.severity # "none" -> action.severity
    [] action.severity = "none" /\ match.severity # "none" -> match.severity
    [] OTHER -> IF action.implicit THEN severity ELSE "medium"

LEMMA AlertIs ==
  ASSUME NEW x \in Acts!Events, NEW match \in Acts!PolicyMatches, NEW action \in Acts!Actions, NEW down
  PROVE  LET alert == Acts!AlertOf(x, match, action, down)
         IN  /\ alert \in Acts!Alerts
             /\ alert.policy = match.name /\ alert.severity = Gravity(x.severity, match, action)
             /\ {"postgres", "mongo"} \ down \subseteq alert.stored
<1> DEFINE severity == Gravity(x.severity, match, action)
<1>1. severity \in Acts!Severities
  BY DEF Acts!Events, Acts!PolicyMatches, Acts!Actions, Acts!Severities, Acts!Ranks, Gravity
<1>2. Acts!AlertOf(x, match, action, down) =
        [policy |-> match.name, severity |-> severity, stored |-> {"postgres", "mongo"} \ down,
         mailed |-> Acts!Ranks[severity] >= Acts!Ranks["high"] /\ Acts!Mails(down), blocked |-> x.blocked]
  BY DEF Acts!AlertOf, Gravity
<1>3. match.name \in STRING /\ x.blocked \in BOOLEAN
  BY DEF Acts!Events, Acts!PolicyMatches
<1>4. (Acts!Ranks[severity] >= Acts!Ranks["high"] /\ Acts!Mails(down)) \in BOOLEAN
  BY DEF Acts!Mails
<1> HIDE DEF severity
<1>5. Acts!AlertOf(x, match, action, down) \in Acts!Alerts
  BY <1>1, <1>2, <1>3, <1>4 DEF Acts!Alerts
<1> QED BY <1>2, <1>5 DEF severity

\* Each action changes the fields it is about and no others.
LEMMA StepIs ==
  ASSUME NEW x \in Acts!Events, NEW match \in Acts!PolicyMatches, NEW action \in Acts!Actions, NEW down
  PROVE  LET y == Stepped(x, match, action, down)
         IN  /\ y \in Acts!Events
             /\ y.severity = x.severity /\ y.path = x.path /\ y.clipboard = x.clipboard
             /\ y.blocked <=> x.blocked \/ action.type = "block"
             /\ y.quarantined <=> x.quarantined \/ (action.type = "quarantine" /\ x.path)
             /\ y.incident = IF action.type = "create_incident" THEN Acts!IncidentOf(down) ELSE x.incident
             /\ y.alerts = IF action.type = "alert"
                           THEN x.alerts \cup {Acts!AlertOf(x, match, action, down)} ELSE x.alerts
             /\ x.content # "clear" => y.content # "clear"
             /\ (action.type \in {"redact", "encrypt"} /\ action.apt) => y.content # "clear"
<1> DEFINE y == Stepped(x, match, action, down)
<1>1. CASE action.type = "alert"
  <2>1. y = [x EXCEPT !.alerts = @ \cup {Acts!AlertOf(x, match, action, down)}]
    BY <1>1 DEF Stepped, Acts!Refused, Acts!Done
  <2>2. Acts!AlertOf(x, match, action, down) \in Acts!Alerts
    BY AlertIs
  <2> QED BY <1>1, <2>1, <2>2 DEF Acts!Events
<1>2. CASE action.type = "create_incident"
  <2>1. y = [x EXCEPT !.incident = Acts!IncidentOf(down)]
    BY <1>2 DEF Stepped, Acts!Refused, Acts!Done
  <2> QED BY <1>2, <2>1 DEF Acts!Events, Acts!IncidentOf
<1>3. CASE action.type \in {"webhook", "notify"}
  <2>1. y = x \/ y = [x EXCEPT !.told = @ \cup {match.name}] \/ y = Acts!Marked(x, action)
    BY <1>3 DEF Stepped, Acts!Refused, Acts!Done, Acts!Own
  <2>2. match.name \in STRING /\ action.type \in STRING
    BY DEF Acts!PolicyMatches, Acts!Actions
  <2>3. CASE y = x
    BY <1>3, <2>3
  <2>4. CASE y = [x EXCEPT !.told = @ \cup {match.name}]
    BY <1>3, <2>2, <2>4 DEF Acts!Events
  <2>5. CASE y = Acts!Marked(x, action)
    BY <1>3, <2>2, <2>5 DEF Acts!Events, Acts!Marked
  <2> QED BY <2>1, <2>3, <2>4, <2>5
<1>4. CASE action.type = "block"
  <2>1. y = [x EXCEPT !.blocked = TRUE, !.quarantined = @]
    BY <1>4 DEF Stepped, Acts!Refused, Acts!Done, Acts!Own, Acts!Held, Acts!Events
  <2> QED BY <1>4, <2>1 DEF Acts!Events
<1>5. CASE action.type = "quarantine"
  <2>1. CASE x.quarantined \/ x.path
    <3>1. y = [x EXCEPT !.blocked = @, !.quarantined = TRUE]
      BY <1>5, <2>1 DEF Stepped, Acts!Refused, Acts!Done, Acts!Own, Acts!Held, Acts!Events
    <3> QED BY <1>5, <2>1, <3>1 DEF Acts!Events
  <2>2. CASE ~(x.quarantined \/ x.path)
    <3>1. y = x
      BY <1>5, <2>2 DEF Stepped, Acts!Refused
    <3> QED BY <1>5, <2>2, <3>1 DEF Acts!Events
  <2> QED BY <2>1, <2>2
<1>6. CASE action.type \in {"redact", "encrypt"}
  <2>1. y = x \/ y = Acts!Rewritten(x, action)
    BY <1>6 DEF Stepped, Acts!Refused, Acts!Done, Acts!Own
  <2>2. action.apt /\ x.content = "clear" => y = Acts!Rewritten(x, action)
    BY <1>6 DEF Stepped, Acts!Refused, Acts!Done, Acts!Own
  <2>3. action.type \in STRING
    BY DEF Acts!Actions
  <2>4. CASE y = x
    BY <1>6, <2>2, <2>4 DEF Acts!Events, Acts!Rewritten
  <2>5. CASE y = Acts!Rewritten(x, action)
    <3> DEFINE text  == IF x.content \in {"none", "taken"} THEN x.content
                        ELSE IF action.type = "redact" THEN "redacted" ELSE "encrypted"
               marks == x.marks \cup {action.type}
    <3>1. y = [x EXCEPT !.content = text, !.marks = marks]
      BY <2>5 DEF Acts!Rewritten, Acts!Events
    <3>2. text \in Texts \ {"clear"} /\ marks \in SUBSET STRING
      BY <2>3 DEF Acts!Events, Texts
    <3> HIDE DEF text, marks, y
    <3>3. /\ y \in Acts!Events /\ y.content = text /\ y.severity = x.severity /\ y.path = x.path
          /\ y.blocked = x.blocked /\ y.quarantined = x.quarantined /\ y.incident = x.incident
          /\ y.alerts = x.alerts
          /\ y.clipboard = x.clipboard
      BY <3>1, <3>2 DEF Acts!Events, Texts
    <3> QED BY <1>6, <3>2, <3>3 DEF y
  <2> QED BY <2>1, <2>4, <2>5
<1>7. CASE action.type \notin {"alert", "create_incident", "webhook", "notify", "block", "quarantine",
                               "redact", "encrypt"}
  <2>1. y = Acts!Marked(x, action)
    BY <1>7 DEF Stepped, Acts!Refused, Acts!Done, Acts!Own
  <2>2. action.type \in STRING
    BY DEF Acts!Actions
  <2> QED BY <1>7, <2>1, <2>2 DEF Acts!Events, Acts!Marked
<1> QED BY <1>1, <1>2, <1>3, <1>4, <1>5, <1>6, <1>7

-----------------------------------------------------------------------------
\* How an event comes out of some actions of some matches, each an action with its
\* match.
Tasks == Acts!PolicyMatches \X Acts!Actions
AsksFor(T, type) == \E t \in T : t[2].type = type
Hides(T) == \E t \in T : t[2].type \in {"redact", "encrypt"} /\ t[2].apt

Pairs(alerts) == {<<a.policy, a.severity>> : a \in alerts}
Named(severity, T) ==
  {<<t[1].name, Gravity(severity, t[1], t[2])>> : t \in {u \in T : u[2].type = "alert"}}
Kept(alerts, name, down) == \E a \in alerts : a.policy = name /\ {"postgres", "mongo"} \ down \subseteq a.stored

Same(x, y)         == /\ y \in Acts!Events
                      /\ y.severity = x.severity /\ y.path = x.path /\ y.clipboard = x.clipboard
Holds(x, y, T)     == /\ y.blocked <=> x.blocked \/ AsksFor(T, "block")
                      /\ y.quarantined <=> x.quarantined \/ (AsksFor(T, "quarantine") /\ x.path)
Opens(x, y, T, down) ==
  y.incident = IF AsksFor(T, "create_incident") THEN Acts!IncidentOf(down) ELSE x.incident
Names(x, y, T)     == Pairs(y.alerts) = Pairs(x.alerts) \cup Named(x.severity, T)
Keeps(x, y, T, down) ==
  /\ x.alerts \subseteq y.alerts
  /\ \A t \in T : t[2].type = "alert" => Kept(y.alerts, t[1].name, down)
Covers(x, y, T)    == (x.content # "clear" \/ Hides(T)) => y.content # "clear"

Does(x, y, T, down) ==
  Same(x, y) /\ Holds(x, y, T) /\ Opens(x, y, T, down) /\ Names(x, y, T) /\ Keeps(x, y, T, down)
    /\ Covers(x, y, T)

\* No action leaves the event as it is.
LEMMA NothingDone ==
  ASSUME NEW x \in Acts!Events, NEW down
  PROVE  Does(x, x, {}, down)
<1>1. Named(x.severity, {}) = {}
  BY DEF Named
<1>2. Same(x, x) /\ Holds(x, x, {}) /\ Opens(x, x, {}, down) /\ Keeps(x, x, {}, down) /\ Covers(x, x, {})
  BY DEF Same, Holds, Opens, Keeps, Covers, AsksFor, Hides, Acts!Events
<1>3. Names(x, x, {})
  BY <1>1 DEF Names
<1> QED BY <1>2, <1>3 DEF Does

LEMMA OneIsDone ==
  ASSUME NEW x \in Acts!Events, NEW match \in Acts!PolicyMatches, NEW action \in Acts!Actions, NEW down
  PROVE  Does(x, Stepped(x, match, action, down), {<<match, action>>}, down)
<1> DEFINE y == Stepped(x, match, action, down)
           T == {<<match, action>>}
           alert == Acts!AlertOf(x, match, action, down)
<1>1. /\ y \in Acts!Events
      /\ y.severity = x.severity /\ y.path = x.path /\ y.clipboard = x.clipboard
      /\ y.blocked <=> x.blocked \/ action.type = "block"
      /\ y.quarantined <=> x.quarantined \/ (action.type = "quarantine" /\ x.path)
      /\ y.incident = IF action.type = "create_incident" THEN Acts!IncidentOf(down) ELSE x.incident
      /\ y.alerts = IF action.type = "alert" THEN x.alerts \cup {alert} ELSE x.alerts
      /\ x.content # "clear" => y.content # "clear"
      /\ (action.type \in {"redact", "encrypt"} /\ action.apt) => y.content # "clear"
  BY StepIs
<1>2. /\ alert.policy = match.name /\ alert.severity = Gravity(x.severity, match, action)
      /\ {"postgres", "mongo"} \ down \subseteq alert.stored
  BY AlertIs
<1> HIDE DEF y, alert
<1>3. \A type : AsksFor(T, type) <=> action.type = type
  BY DEF AsksFor
<1>4. Hides(T) <=> action.type \in {"redact", "encrypt"} /\ action.apt
  BY DEF Hides
<1>5. Named(x.severity, T) = IF action.type = "alert"
                             THEN {<<match.name, Gravity(x.severity, match, action)>>} ELSE {}
  <2> DEFINE t == <<match, action>>
  <2>1. t[1] = match /\ t[2] = action /\ T = {t}
    OBVIOUS
  <2> HIDE DEF t, T
  <2>2. {u \in T : u[2].type = "alert"} = IF action.type = "alert" THEN {t} ELSE {}
    BY <2>1
  <2>3. Named(x.severity, T) =
          {<<u[1].name, Gravity(x.severity, u[1], u[2])>> : u \in IF action.type = "alert" THEN {t} ELSE {}}
    BY <2>2 DEF Named
  <2> QED BY <2>1, <2>3
<1> HIDE DEF T
<1>6. Same(x, y) /\ Holds(x, y, T) /\ Opens(x, y, T, down) /\ Covers(x, y, T)
  <2>1. Same(x, y)
    BY <1>1 DEF Same
  <2>2. Holds(x, y, T)
    BY <1>1, <1>3 DEF Holds
  <2>3. Opens(x, y, T, down)
    BY <1>1, <1>3 DEF Opens
  <2>4. Covers(x, y, T)
    BY <1>1, <1>4 DEF Covers
  <2> QED BY <2>1, <2>2, <2>3, <2>4
<1>7. Names(x, y, T)
  <2>1. CASE action.type = "alert"
    <3>1. Pairs(x.alerts \cup {alert}) = Pairs(x.alerts) \cup {<<alert.policy, alert.severity>>}
      BY DEF Pairs
    <3> QED BY <1>1, <1>2, <1>5, <2>1, <3>1 DEF Names
  <2>2. CASE action.type # "alert"
    BY <1>1, <1>5, <2>2 DEF Names
  <2> QED BY <2>1, <2>2
<1>8. Keeps(x, y, T, down)
  BY <1>1, <1>2 DEF Keeps, Kept, T
<1> QED BY <1>6, <1>7, <1>8 DEF Does, y, T

\* Of actions in two parts both are done.
LEMMA BothAreDone ==
  ASSUME NEW x \in Acts!Events, NEW y, NEW z, NEW T, NEW U, NEW down,
         Does(x, y, T, down), Does(y, z, U, down)
  PROVE  Does(x, z, T \cup U, down)
<1> USE DEF Does
<1>1. \A type : AsksFor(T \cup U, type) <=> AsksFor(T, type) \/ AsksFor(U, type)
  BY DEF AsksFor
<1>2. Hides(T \cup U) <=> Hides(T) \/ Hides(U)
  BY DEF Hides
<1>3. Same(x, z) /\ y \in Acts!Events
  BY DEF Same
<1>4. Holds(x, z, T \cup U)
  BY <1>1 DEF Holds, Same
<1>5. Opens(x, z, T \cup U, down)
  BY <1>1 DEF Opens
<1>6. Names(x, z, T \cup U)
  <2>1. Named(x.severity, T \cup U) = Named(x.severity, T) \cup Named(x.severity, U)
    BY DEF Named
  <2>2. y.severity = x.severity
    BY DEF Same
  <2> QED BY <2>1, <2>2 DEF Names
<1>7. Keeps(x, z, T \cup U, down)
  BY DEF Keeps, Kept
<1>8. Covers(x, z, T \cup U)
  BY <1>2 DEF Covers
<1> QED BY <1>3, <1>4, <1>5, <1>6, <1>7, <1>8

-----------------------------------------------------------------------------
\* The actions of a match, one after the other: a fold over their positions, which
\* the greatest of the first n leaves for the n-1 before it.
LEMMA PerformedInSteps ==
  ASSUME NEW e \in Acts!Events, NEW match \in Acts!PolicyMatches, NEW actions \in Seq(Acts!Actions), NEW down
  PROVE  \E g : /\ g[0] = e
                /\ \A n \in 1 .. Len(actions) : g[n] = Stepped(g[n - 1], match, actions[n], down)
                /\ Acts!Performed(e, match, actions, down) = g[Len(actions)]
<1> DEFINE N == Len(actions)
           S == 1 .. N
           C == [s \in SUBSET S |-> Acts!Max(s)]
           F == [p \in (SUBSET S) \X Acts!Events |->
                   IF p[1] = {} THEN e ELSE Stepped(p[2], match, actions[C[p[1]]], down)]
           Folds(h) == h = [s \in SUBSET S |-> IF s = {} THEN e
                              ELSE Stepped(h[s \ {Acts!Max(s)}], match, actions[Acts!Max(s)], down)]
<1>1. N \in Nat /\ S = DOMAIN actions /\ IsFiniteSet(S) /\ \A i \in S : actions[i] \in Acts!Actions
  BY FS_Interval
<1>2. \A s \in SUBSET S : s # {} => C[s] \in s /\ C[s] = Acts!Max(s)
  BY <1>1, MaxIs
<1>3. F \in [(SUBSET S) \X Acts!Events -> Acts!Events]
  <2> SUFFICES ASSUME NEW s \in SUBSET S, NEW x \in Acts!Events, s # {}
               PROVE  Stepped(x, match, actions[C[s]], down) \in Acts!Events
    OBVIOUS
  <2>1. actions[C[s]] \in Acts!Actions
    BY <1>1, <1>2
  <2> QED BY <2>1, StepIs
<1>4. \A s \in SUBSET S, x \in Acts!Events : s # {} =>
        F[<<s, x>>] = Stepped(x, match, actions[Acts!Max(s)], down)
  BY <1>2
<1>5. \E h : Folds(h)
  <2> HIDE DEF F, C, S
  <2>1. PICK h \in [SUBSET S -> Acts!Events] : Folded(h, S, C, e, F)
    BY <1>1, <1>2, <1>3, FoldExists
  <2>2. \A s \in SUBSET S : s # {} =>
          h[s] = Stepped(h[s \ {Acts!Max(s)}], match, actions[Acts!Max(s)], down)
    <3> SUFFICES ASSUME NEW s \in SUBSET S, s # {}
                 PROVE  h[s] = Stepped(h[s \ {Acts!Max(s)}], match, actions[Acts!Max(s)], down)
      OBVIOUS
    <3>1. h[s] = F[<<s, h[s \ {C[s]}]>>]
      BY <2>1 DEF Folded
    <3>2. h[s \ {C[s]}] \in Acts!Events
      OBVIOUS
    <3> QED BY <1>2, <1>4, <3>1, <3>2
  <2>3. h[{}] = e
    BY <2>1 DEF Folded
  <2>4. h = [s \in SUBSET S |-> h[s]]
    OBVIOUS
  <2> QED BY <2>2, <2>3, <2>4
<1> DEFINE h == CHOOSE h : Folds(h)
<1>6. Acts!Performed(e, match, actions, down) = h[S]
  <2>1. Acts!Performed(e, match, actions, down) =
          (CHOOSE k : k = [s \in SUBSET DOMAIN actions |-> IF s = {} THEN e
             ELSE Stepped(k[s \ {Acts!Max(s)}], match, actions[Acts!Max(s)], down)])[DOMAIN actions]
    BY DEF Acts!Performed, Acts!FoldLeft, Acts!MapThenFoldSet, Stepped
  <2> QED BY <1>1, <2>1
<1>7. Folds(h)
  BY <1>5
<1> HIDE DEF h, F, C
<1> DEFINE g == [n \in 0 .. N |-> h[1 .. n]]
<1>8. g[0] = e
  <2>1. 1 .. 0 = {} /\ {} \in SUBSET S /\ 0 \in 0 .. N
    BY <1>1
  <2> QED BY <1>7, <2>1
<1>9. ASSUME NEW n \in 1 .. N
      PROVE  g[n] = Stepped(g[n - 1], match, actions[n], down)
  <2>1. 1 .. n \in SUBSET S /\ 1 .. n # {} /\ n \in 0 .. N /\ n - 1 \in 0 .. N
    <3>1. N \in Nat /\ S = 1 .. N
      BY <1>1
    <3> HIDE DEF N, S
    <3>2. n \in 1 .. n /\ \A i \in 1 .. n : i \in 1 .. N
      BY <3>1
    <3>3. 1 .. n \in SUBSET S /\ 1 .. n # {}
      BY <3>1, <3>2
    <3>4. n \in 0 .. N /\ n - 1 \in 0 .. N
      BY ONLY <3>1, n \in 1 .. N
    <3> QED BY <3>3, <3>4
  <2>2. (1 .. n) \ {n} = 1 .. n - 1
    BY ONLY <1>1, n \in 1 .. N, FirstButLast
  <2>3. Acts!Max(1 .. n) = n
    BY <1>1, MaxOfFirst
  <2> QED BY <1>7, <2>1, <2>2, <2>3
<1>10. g[N] = h[S]
  BY <1>1
<1> QED BY <1>6, <1>8, <1>9, <1>10

\* What is performed is done.
LEMMA PerformedIsDone ==
  ASSUME NEW e \in Acts!Events, NEW match \in Acts!PolicyMatches, NEW actions \in Seq(Acts!Actions), NEW down
  PROVE  Does(e, Acts!Performed(e, match, actions, down),
              {<<match, actions[i]>> : i \in DOMAIN actions}, down)
<1> DEFINE N == Len(actions)
           T(n) == {<<match, actions[i]>> : i \in 1 .. n}
<1>1. PICK g : /\ g[0] = e
               /\ \A n \in 1 .. N : g[n] = Stepped(g[n - 1], match, actions[n], down)
               /\ Acts!Performed(e, match, actions, down) = g[N]
  BY PerformedInSteps
<1> DEFINE B == {n \in 0 .. N : Does(e, g[n], T(n), down)}
<1>2. 0 \in B
  <2>1. T(0) = {} /\ 0 \in 0 .. N
    OBVIOUS
  <2> HIDE DEF T
  <2> QED BY <1>1, <2>1, NothingDone
<1>3. ASSUME NEW n \in 1 .. N, n - 1 \in B
      PROVE  n \in B
  <2>1. Does(e, g[n - 1], T(n - 1), down)
    BY <1>3
  <2>2. g[n - 1] \in Acts!Events /\ actions[n] \in Acts!Actions /\ g[n] = Stepped(g[n - 1], match, actions[n], down)
    BY <1>1, <2>1 DEF Does, Same
  <2>3. Does(g[n - 1], g[n], {<<match, actions[n]>>}, down)
    BY <2>2, OneIsDone
  <2>4. T(n) = T(n - 1) \cup {<<match, actions[n]>>}
    <3>1. \A i : i \in 1 .. n <=> i \in 1 .. n - 1 \/ i = n
      OBVIOUS
    <3> QED BY <3>1
  <2> HIDE DEF T
  <2>5. Does(e, g[n], T(n), down)
    BY <2>1, <2>3, <2>4, BothAreDone
  <2> QED BY <2>5
<1>4. N \in Nat /\ DOMAIN actions = 1 .. N
  OBVIOUS
<1>5. N \in B
  <2> HIDE DEF B, N
  <2>1. \A n \in 1 .. N : n - 1 \in B => n \in B
    BY <1>3
  <2>2. \A n \in 0 .. N : n \in B
    BY <1>2, <1>4, <2>1, UpTo
  <2> QED BY <1>4, <2>2
<1> QED BY <1>1, <1>4, <1>5

\* The actions that a match comes to, with the match.
TasksOf(severity, match) ==
  LET weight  == IF match.severity # "none" THEN match.severity ELSE severity
      own     == {<<match, match.actions[i]>> : i \in DOMAIN match.actions}
  IN  IF AsksFor(own, "alert") \/ weight \in {"low", "info"} THEN own
      ELSE own \cup {<<match, Acts!ImplicitAlert>>}

LEMMA EffectiveIs ==
  ASSUME NEW x \in Acts!Events, NEW match \in Acts!PolicyMatches
  PROVE  /\ Acts!Effective(x, match) \in Seq(Acts!Actions)
         /\ TasksOf(x.severity, match) =
              {<<match, Acts!Effective(x, match)[i]>> : i \in DOMAIN Acts!Effective(x, match)}
<1> DEFINE own == {<<match, match.actions[i]>> : i \in DOMAIN match.actions}
           weight == IF match.severity # "none" THEN match.severity ELSE x.severity
<1>1. match.actions \in Seq(Acts!Actions) /\ Acts!ImplicitAlert \in Acts!Actions
  <2>1. "none" \in Acts!Severities
    BY DEF Acts!Severities, Acts!Ranks
  <2>2. match.actions \in Seq(Acts!Actions)
    BY DEF Acts!PolicyMatches
  <2>3. Acts!ImplicitAlert \in Acts!Actions
    BY <2>1, WordsAssumption DEF Acts!ImplicitAlert, Acts!Actions
  <2> QED BY <2>2, <2>3
<1>2. AsksFor(own, "alert") <=> \E i \in DOMAIN match.actions : match.actions[i].type = "alert"
  <2>1. \A t \in own : \E i \in DOMAIN match.actions : t[2] = match.actions[i]
    OBVIOUS
  <2>2. \A i \in DOMAIN match.actions : \E t \in own : t[2] = match.actions[i]
    <3> SUFFICES ASSUME NEW i \in DOMAIN match.actions PROVE \E t \in own : t[2] = match.actions[i]
      OBVIOUS
    <3>1. <<match, match.actions[i]>> \in own /\ <<match, match.actions[i]>>[2] = match.actions[i]
      OBVIOUS
    <3> HIDE DEF own
    <3> QED BY <3>1
  <2> HIDE DEF own
  <2> QED BY <2>1, <2>2 DEF AsksFor
<1>3. CASE AsksFor(own, "alert") \/ weight \in {"low", "info"}
  <2>1. Acts!Effective(x, match) = match.actions
    BY <1>2, <1>3 DEF Acts!Effective
  <2> QED BY <1>1, <1>3, <2>1 DEF TasksOf
<1>4. CASE ~(AsksFor(own, "alert") \/ weight \in {"low", "info"})
  <2> DEFINE all == <<Acts!ImplicitAlert>> \o match.actions
  <2>1. Acts!Effective(x, match) = all
    BY <1>2, <1>4 DEF Acts!Effective
  <2>2. /\ all \in Seq(Acts!Actions) /\ DOMAIN all = 1 .. Len(match.actions) + 1
        /\ all[1] = Acts!ImplicitAlert /\ \A i \in DOMAIN match.actions : all[i + 1] = match.actions[i]
    BY <1>1
  <2>3. \A i : i \in DOMAIN all <=> i = 1 \/ \E j \in DOMAIN match.actions : i = j + 1
    <3> DEFINE n == Len(match.actions)
    <3>1. n \in Nat /\ DOMAIN match.actions = 1 .. n /\ DOMAIN all = 1 .. n + 1
      BY <1>1, <2>2
    <3> HIDE DEF n, all
    <3>2. \A i \in 1 .. n + 1 : i = 1 \/ (i - 1 \in 1 .. n /\ i = (i - 1) + 1)
      BY <3>1
    <3>3. \A j \in 1 .. n : j + 1 \in 1 .. n + 1
      BY <3>1
    <3>4. 1 \in 1 .. n + 1
      BY <3>1
    <3> QED BY <3>1, <3>2, <3>3, <3>4
  <2> HIDE DEF all
  <2>4. {<<match, all[i]>> : i \in DOMAIN all} = own \cup {<<match, Acts!ImplicitAlert>>}
    BY <2>2, <2>3
  <2>5. TasksOf(x.severity, match) = own \cup {<<match, Acts!ImplicitAlert>>}
    BY <1>4 DEF TasksOf
  <2> QED BY <2>1, <2>2, <2>4, <2>5
<1> QED BY <1>3, <1>4

\* A match is applied as its actions are.
LEMMA AppliedIsDone ==
  ASSUME NEW x \in Acts!Events, NEW match \in Acts!PolicyMatches, NEW down
  PROVE  Does(x, Acts!Applied(x, match, down), TasksOf(x.severity, match), down)
<1> DEFINE actions == Acts!Effective(x, match)
           T == TasksOf(x.severity, match)
<1>1. actions \in Seq(Acts!Actions) /\ T = {<<match, actions[i]>> : i \in DOMAIN actions}
  BY EffectiveIs
<1>2. CASE actions = <<>>
  <2>1. Acts!Applied(x, match, down) = x
    BY <1>2 DEF Acts!Applied
  <2>2. T = {}
    BY <1>1, <1>2
  <2> HIDE DEF T
  <2>3. Does(x, Acts!Applied(x, match, down), T, down)
    BY <2>1, <2>2, NothingDone
  <2> QED BY <2>3 DEF T
<1>3. CASE actions # <<>>
  <2> DEFINE y == Acts!Performed(x, match, actions, down)
             z == [y EXCEPT !.summarised = TRUE]
  <2>1. Acts!Applied(x, match, down) = z
    BY <1>3 DEF Acts!Applied
  <2> HIDE DEF actions
  <2>2. Does(x, y, T, down)
    BY <1>1, PerformedIsDone
  <2> HIDE DEF y, T
  <2>3. /\ z \in Acts!Events /\ z.severity = y.severity /\ z.path = y.path /\ z.blocked = y.blocked
        /\ z.quarantined = y.quarantined /\ z.incident = y.incident /\ z.alerts = y.alerts
        /\ z.content = y.content
    BY <2>2 DEF Does, Same, Acts!Events
  <2>4. Does(x, z, T, down)
    BY <2>2, <2>3 DEF Does, Same, Holds, Opens, Names, Keeps, Covers
  <2> QED BY <2>1, <2>4 DEF T
<1> QED BY <1>2, <1>3

-----------------------------------------------------------------------------
\* The matches, one after the other, in the same way.
AllApplied(e, all, down) == Acts!FoldLeft(LAMBDA x, match : Acts!Applied(x, match, down), e, all)

LEMMA EvaluatedInSteps ==
  ASSUME NEW e \in Acts!Events, NEW all \in Seq(Acts!PolicyMatches), NEW down
  PROVE  \E g : /\ g[0] = e
                /\ \A n \in 1 .. Len(all) : g[n] = Acts!Applied(g[n - 1], all[n], down)
                /\ AllApplied(e, all, down) = g[Len(all)]
<1> DEFINE N == Len(all)
           S == 1 .. N
           C == [s \in SUBSET S |-> Acts!Max(s)]
           F == [p \in (SUBSET S) \X Acts!Events |->
                   IF p[1] = {} THEN e ELSE Acts!Applied(p[2], all[C[p[1]]], down)]
           Folds(h) == h = [s \in SUBSET S |-> IF s = {} THEN e
                              ELSE Acts!Applied(h[s \ {Acts!Max(s)}], all[Acts!Max(s)], down)]
<1>1. N \in Nat /\ S = DOMAIN all /\ IsFiniteSet(S) /\ \A i \in S : all[i] \in Acts!PolicyMatches
  BY FS_Interval
<1>2. \A s \in SUBSET S : s # {} => C[s] \in s /\ C[s] = Acts!Max(s)
  BY <1>1, MaxIs
<1>3. F \in [(SUBSET S) \X Acts!Events -> Acts!Events]
  <2> SUFFICES ASSUME NEW s \in SUBSET S, NEW x \in Acts!Events, s # {}
               PROVE  Acts!Applied(x, all[C[s]], down) \in Acts!Events
    OBVIOUS
  <2>1. all[C[s]] \in Acts!PolicyMatches
    BY <1>1, <1>2
  <2> QED BY <2>1, AppliedIsDone DEF Does, Same
<1>4. \A s \in SUBSET S, x \in Acts!Events : s # {} =>
        F[<<s, x>>] = Acts!Applied(x, all[Acts!Max(s)], down)
  BY <1>2
<1>5. \E h : Folds(h)
  <2> HIDE DEF F, C, S
  <2>1. PICK h \in [SUBSET S -> Acts!Events] : Folded(h, S, C, e, F)
    BY <1>1, <1>2, <1>3, FoldExists
  <2>2. \A s \in SUBSET S : s # {} =>
          h[s] = Acts!Applied(h[s \ {Acts!Max(s)}], all[Acts!Max(s)], down)
    <3> SUFFICES ASSUME NEW s \in SUBSET S, s # {}
                 PROVE  h[s] = Acts!Applied(h[s \ {Acts!Max(s)}], all[Acts!Max(s)], down)
      OBVIOUS
    <3>1. h[s] = F[<<s, h[s \ {C[s]}]>>]
      BY <2>1 DEF Folded
    <3>2. h[s \ {C[s]}] \in Acts!Events
      OBVIOUS
    <3> QED BY <1>2, <1>4, <3>1, <3>2
  <2>3. h[{}] = e
    BY <2>1 DEF Folded
  <2>4. h = [s \in SUBSET S |-> h[s]]
    OBVIOUS
  <2> QED BY <2>2, <2>3, <2>4
<1> DEFINE h == CHOOSE h : Folds(h)
           folded == AllApplied(e, all, down)
<1>6. folded = h[S]
  <2>1. folded =
          (CHOOSE k : k = [s \in SUBSET DOMAIN all |-> IF s = {} THEN e
             ELSE Acts!Applied(k[s \ {Acts!Max(s)}], all[Acts!Max(s)], down)])[DOMAIN all]
    BY DEF AllApplied, Acts!FoldLeft, Acts!MapThenFoldSet
  <2> QED BY <1>1, <2>1
<1>7. Folds(h)
  BY <1>5
<1> HIDE DEF h, F, C
<1> DEFINE g == [n \in 0 .. N |-> h[1 .. n]]
<1>8. g[0] = e
  <2>1. 1 .. 0 = {} /\ {} \in SUBSET S /\ 0 \in 0 .. N
    BY <1>1
  <2> QED BY <1>7, <2>1
<1>9. ASSUME NEW n \in 1 .. N
      PROVE  g[n] = Acts!Applied(g[n - 1], all[n], down)
  <2>1. 1 .. n \in SUBSET S /\ 1 .. n # {} /\ n \in 0 .. N /\ n - 1 \in 0 .. N
    <3>1. N \in Nat /\ S = 1 .. N
      BY <1>1
    <3> HIDE DEF N, S
    <3>2. n \in 1 .. n /\ \A i \in 1 .. n : i \in 1 .. N
      BY <3>1
    <3>3. 1 .. n \in SUBSET S /\ 1 .. n # {}
      BY <3>1, <3>2
    <3>4. n \in 0 .. N /\ n - 1 \in 0 .. N
      BY ONLY <3>1, n \in 1 .. N
    <3> QED BY <3>3, <3>4
  <2>2. (1 .. n) \ {n} = 1 .. n - 1
    BY ONLY <1>1, n \in 1 .. N, FirstButLast
  <2>3. Acts!Max(1 .. n) = n
    BY <1>1, MaxOfFirst
  <2> QED BY <1>7, <2>1, <2>2, <2>3
<1>10. g[N] = h[S]
  BY <1>1
<1> QED BY <1>6, <1>8, <1>9, <1>10

\* What there is in a sequence, in any order.
Members(s) == {s[i] : i \in DOMAIN s}

\* The actions that all the matches come to.
AllTasks(severity, M) == UNION {TasksOf(severity, match) : match \in M}

LEMMA AllAreDone ==
  ASSUME NEW e \in Acts!Events, NEW all \in Seq(Acts!PolicyMatches), NEW down
  PROVE  Does(e, AllApplied(e, all, down), AllTasks(e.severity, Members(all)), down)
<1> DEFINE N == Len(all)
           T(n) == UNION {TasksOf(e.severity, all[i]) : i \in 1 .. n}
           folded == AllApplied(e, all, down)
<1>1. PICK g : /\ g[0] = e
               /\ \A n \in 1 .. N : g[n] = Acts!Applied(g[n - 1], all[n], down)
               /\ folded = g[N]
  BY EvaluatedInSteps
<1> HIDE DEF folded
<1> DEFINE B == {n \in 0 .. N : Does(e, g[n], T(n), down)}
<1>2. 0 \in B
  <2>1. T(0) = {} /\ 0 \in 0 .. N
    OBVIOUS
  <2> HIDE DEF T
  <2>2. Does(e, g[0], T(0), down)
    BY <1>1, <2>1, NothingDone
  <2> QED BY <2>1, <2>2
<1>3. ASSUME NEW n \in 1 .. N, n - 1 \in B
      PROVE  n \in B
  <2>1. Does(e, g[n - 1], T(n - 1), down)
    BY <1>3
  <2>2. g[n - 1] \in Acts!Events /\ g[n - 1].severity = e.severity
    BY <2>1 DEF Does, Same
  <2>3. all[n] \in Acts!PolicyMatches /\ g[n] = Acts!Applied(g[n - 1], all[n], down)
    BY <1>1
  <2>4. Does(g[n - 1], g[n], TasksOf(e.severity, all[n]), down)
    BY <2>2, <2>3, AppliedIsDone
  <2>5. T(n) = T(n - 1) \cup TasksOf(e.severity, all[n])
    <3>1. \A i : i \in 1 .. n <=> i \in 1 .. n - 1 \/ i = n
      OBVIOUS
    <3> QED BY <3>1
  <2> HIDE DEF T
  <2>6. Does(e, g[n], T(n), down)
    BY <2>1, <2>4, <2>5, BothAreDone
  <2> QED BY <2>6
<1>4. N \in Nat /\ DOMAIN all = 1 .. N
  OBVIOUS
<1>5. N \in B
  <2> HIDE DEF B, N
  <2>1. \A n \in 1 .. N : n - 1 \in B => n \in B
    BY <1>3
  <2>2. \A n \in 0 .. N : n \in B
    BY <1>2, <1>4, <2>1, UpTo
  <2> QED BY <1>4, <2>2
<1>6. T(N) = AllTasks(e.severity, Members(all))
  BY <1>4 DEF AllTasks, Members
<1>7. Does(e, folded, T(N), down)
  BY <1>1, <1>5
<1> QED BY <1>6, <1>7 DEF folded

-----------------------------------------------------------------------------
\* The event as the matches meet it, and all of them.
ReadOf(e, found) == Acts!Prepared(e, found)

LEMMA ReadIs ==
  ASSUME NEW e \in Acts!Events, NEW found \in Acts!Findings
  PROVE  LET r == ReadOf(e, found)
         IN  /\ r \in Acts!Events
             /\ r.type = e.type /\ r.resolved = e.resolved /\ r.reported = e.reported
             /\ e.content # "none" => r.clipboard
             /\ (found.engine = "works" /\ found.hit /\ found.level \in {"Confidential", "Restricted"})
                  => r.content # "clear"
<1> DEFINE p == Acts!Payload(e)
           v == Acts!Validated(p)
           n == Acts!Enriched(Acts!Normalised(v))
           r == Acts!Classified(n, found)
           Alike(x) == x \in Acts!Events /\ x.type = e.type /\ x.resolved = e.resolved
                         /\ x.reported = e.reported /\ (e.content # "none" => x.clipboard)
<1>0. Alike(p)
  <2> DEFINE c == e.clipboard \/ e.content # "none"
  <2>1. c \in BOOLEAN
    BY DEF Acts!Events
  <2>2. p = [e EXCEPT !.clipboard = c]
    BY DEF Acts!Payload, Acts!Events
  <2>3. e.content # "none" => c
    OBVIOUS
  <2> HIDE DEF c, p
  <2> QED BY <2>1, <2>2, <2>3 DEF Acts!Events
<1> HIDE DEF p
<1>1. Alike(v)
  <2> DEFINE s == IF p.severity \in {"low", "medium", "high", "critical"} THEN p.severity ELSE "medium"
  <2>1. s \in Acts!Severities
    BY DEF Acts!Severities, Acts!Ranks
  <2>2. v = [p EXCEPT !.severity = s]
    BY <1>0 DEF Acts!Validated, Acts!Events
  <2> HIDE DEF s, v
  <2> QED BY <1>0, <2>1, <2>2 DEF Acts!Events
<1>2. Alike(n)
  <2> HIDE DEF v
  <2> DEFINE c == IF v.type = "clipboard" THEN v.clipboard \/ v.content # "none" ELSE v.clipboard
             w == Acts!Normalised(v)
  <2>1. c \in BOOLEAN
    BY <1>1 DEF Acts!Events
  <2>2. w = [v EXCEPT !.clipboard = c]
    BY <1>1 DEF Acts!Normalised, Acts!Events
  <2>5. v.clipboard => c
    BY <1>1
  <2> HIDE DEF c, w
  <2>3. Alike(w)
    BY <1>1, <2>1, <2>2, <2>5 DEF Acts!Events
  <2>4. n = [w EXCEPT !.marks = w.marks \cup {w.type}] /\ w.marks \cup {w.type} \in SUBSET STRING
    BY <2>3 DEF Acts!Enriched, Acts!Events, w
  <2> QED BY <2>3, <2>4 DEF Acts!Events
<1> HIDE DEF v, n
<1>3. n.marks \cup {"contains"} \in SUBSET STRING
  BY <1>2, WordsAssumption DEF Acts!Events
<1>4. CASE n.content # "none" /\ found.hit /\ found.engine = "works"
  <2> DEFINE s == CASE found.level = "Restricted" -> "critical"
                    [] found.level = "Confidential" /\ Acts!Ranks[n.severity] < Acts!Ranks["critical"] -> "high"
                    [] found.level = "Internal" /\ Acts!Ranks[n.severity] < Acts!Ranks["high"] -> "medium"
                    [] OTHER -> n.severity
             c == IF found.level \in {"Confidential", "Restricted"} THEN "taken" ELSE n.content
             b == n.clipboard \/ (n.type = "clipboard" /\ found.level \in {"Confidential", "Restricted"})
  <2>1. r = [n EXCEPT !.level = found.level, !.marks = n.marks \cup {"contains"}, !.severity = s, !.content = c,
                      !.clipboard = b]
    BY <1>2, <1>4 DEF Acts!Classified, Acts!ByEngine, Acts!Events
  <2>2. s \in Acts!Severities
    <3>1. s \in {"critical", "high", "medium", n.severity}
      OBVIOUS
    <3> HIDE DEF s
    <3> QED BY <1>2, <3>1 DEF Acts!Severities, Acts!Ranks, Acts!Events
  <2>3. c \in Texts /\ (found.level \in {"Confidential", "Restricted"} => c # "clear")
    BY <1>2 DEF Acts!Events, Texts
  <2>4. found.level \in Acts!Levels
    BY DEF Acts!Findings
  <2>6. b \in BOOLEAN /\ (n.clipboard => b)
    BY <1>2 DEF Acts!Events
  <2> HIDE DEF s, c, b, r
  <2>5. Alike(r) /\ r.content = c
    BY <1>2, <1>3, <2>1, <2>2, <2>3, <2>4, <2>6 DEF Acts!Events, Texts
  <2> QED BY <2>3, <2>5 DEF r, ReadOf, Acts!Prepared, n, v, p
<1>5. CASE n.content # "none" /\ found.hit /\ found.engine = "fails"
  <2> DEFINE s == IF found.grave THEN "critical" ELSE n.severity
             b == n.clipboard \/ n.type = "clipboard"
  <2>1. r = [n EXCEPT !.marks = n.marks \cup {"contains"}, !.severity = s, !.content = "taken", !.clipboard = b]
    BY <1>2, <1>5 DEF Acts!Classified, Acts!ByPatterns, Acts!Events
  <2>2. s \in Acts!Severities
    BY <1>2 DEF Acts!Severities, Acts!Ranks, Acts!Events
  <2>4. b \in BOOLEAN /\ (n.clipboard => b)
    BY <1>2 DEF Acts!Events
  <2> HIDE DEF s, b, r
  <2>3. Alike(r)
    BY <1>2, <1>3, <2>1, <2>2, <2>4 DEF Acts!Events
  <2> QED BY <1>5, <2>3 DEF r, ReadOf, Acts!Prepared, n, v, p
<1>6. CASE n.content = "none" \/ found.engine = "absent" \/ ~found.hit
  <2>1. r = n
    BY <1>6 DEF Acts!Classified
  <2> HIDE DEF r
  <2> QED BY <1>2, <1>6, <2>1 DEF r, ReadOf, Acts!Prepared, n, v, p
<1>7. found.engine \in {"absent", "works", "fails"}
  BY DEF Acts!Findings
<1> QED BY <1>4, <1>5, <1>6, <1>7

\* A sequence the other way round has the same members.
LEMMA ReversedHasSame ==
  ASSUME NEW S, NEW s \in Seq(S)
  PROVE  /\ Acts!Reverse(s) \in Seq(S) /\ Len(Acts!Reverse(s)) = Len(s)
         /\ Members(Acts!Reverse(s)) = Members(s)
<1> DEFINE N == Len(s)
           r == Acts!Reverse(s)
<1>1. N \in Nat /\ DOMAIN s = 1 .. N
  OBVIOUS
<1>2. r = [i \in 1 .. N |-> s[(N - i) + 1]]
  BY DEF Acts!Reverse
<1>3. \A i \in 1 .. N : (N - i) + 1 \in 1 .. N /\ (N - ((N - i) + 1)) + 1 = i
  BY <1>1
<1>4. r \in Seq(S) /\ Len(r) = N /\ DOMAIN r = 1 .. N
  <2>1. r \in [1 .. N -> S]
    BY <1>1, <1>2, <1>3
  <2> HIDE DEF r, N
  <2> QED BY <1>1, <2>1
<1> HIDE DEF r, N
<1>5. \A i \in 1 .. N : s[i] = r[(N - i) + 1] /\ r[i] = s[(N - i) + 1]
  BY <1>2, <1>3
<1>6. Members(r) = Members(s)
  <2>1. \A i \in 1 .. N : \E j \in 1 .. N : r[j] = s[i]
    BY <1>3, <1>5
  <2>2. \A i \in 1 .. N : \E j \in 1 .. N : s[j] = r[i]
    BY <1>3, <1>5
  <2> HIDE DEF r
  <2>3. Members(s) = {s[i] : i \in 1 .. N} /\ Members(r) = {r[i] : i \in 1 .. N}
    BY <1>1, <1>4 DEF Members
  <2>4. Members(s) \subseteq Members(r)
    BY <2>1, <2>3
  <2>5. Members(r) \subseteq Members(s)
    BY <2>2, <2>3
  <2> QED BY <2>4, <2>5
<1> QED BY <1>4, <1>6 DEF r, N

LEMMA MatchesAre ==
  ASSUME NEW e \in Acts!Events, NEW matches \in Seq(Acts!PolicyMatches)
  PROVE  /\ Acts!Matches(e, matches) \in Seq(Acts!PolicyMatches)
         /\ Acts!Matches(e, Acts!Reverse(matches)) \in Seq(Acts!PolicyMatches)
         /\ Members(Acts!Matches(e, Acts!Reverse(matches))) = Members(Acts!Matches(e, matches))
<1>1. Acts!Reverse(matches) \in Seq(Acts!PolicyMatches) /\ Members(Acts!Reverse(matches)) = Members(matches)
  BY ReversedHasSame
<1>2. CASE e.resolved # "none"
  <2> DEFINE a == [Acts!ImplicitAlert EXCEPT !.type = e.resolved, !.implicit = FALSE]
             m == [name |-> "resolved", severity |-> e.reported, priority |-> 0, actions |-> <<a>>]
  <2>1. "none" \in Acts!Severities
    BY DEF Acts!Severities, Acts!Ranks
  <2>2. e.resolved \in STRING /\ e.reported \in Acts!Severities
    BY DEF Acts!Events
  <2>3. Acts!ImplicitAlert \in Acts!Actions
    BY <2>1, WordsAssumption DEF Acts!ImplicitAlert, Acts!Actions
  <2>4. a \in Acts!Actions
    BY <2>2, <2>3 DEF Acts!Actions
  <2> HIDE DEF a
  <2>5. m \in Acts!PolicyMatches
    BY <2>2, <2>4, WordsAssumption DEF Acts!PolicyMatches
  <2>6. \A s : Acts!Matches(e, s) = <<m>>
    BY <1>2 DEF Acts!Matches, a
  <2> HIDE DEF m
  <2>7. <<m>> \in Seq(Acts!PolicyMatches)
    BY <2>5
  <2> QED BY <2>6, <2>7
<1>3. CASE e.resolved = "none" /\ e.type = "web_activity"
  <2>1. \A s : Acts!Matches(e, s) = <<>>
    BY <1>3 DEF Acts!Matches
  <2>2. <<>> \in Seq(Acts!PolicyMatches)
    OBVIOUS
  <2> QED BY <2>1, <2>2
<1>4. CASE e.resolved = "none" /\ e.type # "web_activity"
  <2>1. \A s : Acts!Matches(e, s) = s
    BY <1>4 DEF Acts!Matches
  <2> QED BY <1>1, <2>1
<1> QED BY <1>2, <1>3, <1>4

-----------------------------------------------------------------------------
\* The severity that the matches leave an event with.
Given(M) == {match.severity : match \in M} \ {"none"}
Gravest(severity, given) ==
  IF given = {} THEN severity
  ELSE CHOOSE s \in given : \A t \in given : Acts!Ranks[t] <= Acts!Ranks[s]

\* An event that lacks nothing is read, and what its matches ask for is done.
LEMMA ProcessedIs ==
  ASSUME NEW e \in Acts!Events, NEW found \in Acts!Findings, NEW matches \in Seq(Acts!PolicyMatches),
         NEW down, e.lacks \cap Acts!Required = {}
  PROVE  LET r == ReadOf(e, found)
             M == Members(Acts!Matches(e, matches))
             T == AllTasks(r.severity, M)
             z == Acts!Processed(e, found, matches, down)
         IN  /\ Holds(r, z, T) /\ Opens(r, z, T, down) /\ Names(r, z, T) /\ Keeps(r, z, T, down)
             /\ Covers(r, z, T) /\ z.clipboard = r.clipboard
             /\ z.severity = Gravest(r.severity, Given(M))
             /\ z.blocked \in BOOLEAN /\ z.quarantined \in BOOLEAN
<1> DEFINE r == ReadOf(e, found)
           all == Acts!Matches(e, matches)
           M == Members(all)
           T == AllTasks(r.severity, M)
           z == Acts!Processed(e, found, matches, down)
           y == AllApplied(r, all, down)
           given == {all[i].severity : i \in DOMAIN all} \ {"none"}
<1>1. r \in Acts!Events /\ r.type = e.type /\ r.resolved = e.resolved /\ r.reported = e.reported
  BY ReadIs
<1>2. Acts!Matches(r, matches) = all
  <2> HIDE DEF r
  <2> QED BY <1>1 DEF Acts!Matches
<1>3. z = Acts!Evaluated(r, matches, down)
  BY DEF Acts!Processed, ReadOf
<1>4. z = Acts!Settled(y, all)
  <2> HIDE DEF r, all, z
  <2> QED BY <1>2, <1>3 DEF Acts!Evaluated, AllApplied
<1>5. all \in Seq(Acts!PolicyMatches)
  BY MatchesAre
<1> HIDE DEF r, all
<1>6. Does(r, y, T, down)
  BY <1>1, <1>5, AllAreDone
<1>7. given = Given(M)
  BY DEF Members, Given
<1> HIDE DEF z, y, T
<1> DEFINE s == CHOOSE s \in given : \A t \in given : Acts!Ranks[t] <= Acts!Ranks[s]
<1>8. z = IF given = {} THEN y ELSE [y EXCEPT !.severity = s]
  BY <1>4, Zenon DEF Acts!Settled
<1>9. Gravest(r.severity, given) = IF given = {} THEN r.severity ELSE s
  BY Zenon DEF Gravest
<1> HIDE DEF given, M, s
<1>10. y \in Acts!Events /\ y.severity = r.severity /\ y.clipboard = r.clipboard
  BY <1>6 DEF Does, Same
<1>11. /\ z.blocked = y.blocked /\ z.quarantined = y.quarantined /\ z.incident = y.incident
       /\ z.alerts = y.alerts /\ z.content = y.content /\ z.clipboard = y.clipboard
       /\ z.severity = Gravest(r.severity, Given(M))
       /\ y.blocked \in BOOLEAN /\ y.quarantined \in BOOLEAN
  <2>1. Gravest(r.severity, Given(M)) = IF given = {} THEN r.severity ELSE s
    BY <1>7, <1>9
  <2> QED BY <1>8, <1>10, <2>1 DEF Acts!Events
<1>12. /\ Holds(r, z, T) /\ Opens(r, z, T, down) /\ Names(r, z, T) /\ Keeps(r, z, T, down)
       /\ Covers(r, z, T) /\ z.clipboard = r.clipboard
  BY <1>6, <1>10, <1>11 DEF Does, Holds, Opens, Names, Keeps, Covers
<1> QED BY <1>11, <1>12 DEF r, all, M, T, z

\* Every match of some weight leaves an alert.
LEMMA EveryMatchIsAlertedHolds ==
  ASSUME NEW e \in Acts!Events, NEW found \in Acts!Findings, NEW matches \in Seq(Acts!PolicyMatches), NEW down
  PROVE  Acts!EveryMatchIsAlerted(e, found, matches, down)
<1> DEFINE r == ReadOf(e, found)
           all == Acts!Matches(e, matches)
           M == Members(all)
           T == AllTasks(r.severity, M)
           z == Acts!Processed(e, found, matches, down)
           Weight(i) == IF all[i].severity # "none" THEN all[i].severity ELSE r.severity
<1>1. r \in Acts!Events /\ Acts!Matches(r, matches) = all
  <2>1. r \in Acts!Events /\ r.type = e.type /\ r.resolved = e.resolved /\ r.reported = e.reported
    BY ReadIs
  <2> HIDE DEF r
  <2> QED BY <2>1 DEF Acts!Matches
<1>2. SUFFICES ASSUME e.lacks = {}, NEW i \in DOMAIN all, Acts!Ranks[Weight(i)] >= Acts!Ranks["medium"]
               PROVE  Kept(z.alerts, all[i].name, down)
  <2> HIDE DEF all, z
  <2> QED BY <1>1 DEF Acts!EveryMatchIsAlerted, ReadOf, Kept, z
<1>3. Keeps(r, z, T, down)
  BY <1>2, ProcessedIs
<1>4. all \in Seq(Acts!PolicyMatches)
  BY MatchesAre
<1> HIDE DEF r, all, z
<1>5. all[i] \in Acts!PolicyMatches /\ all[i] \in M
  BY <1>2, <1>4 DEF Members
<1>6. Weight(i) \notin {"low", "info"}
  BY <1>1, <1>2, <1>5 DEF Acts!Ranks
<1>7. PICK t \in TasksOf(r.severity, all[i]) : t[2].type = "alert"
  <2>1. <<all[i], Acts!ImplicitAlert>>[2].type = "alert"
    BY DEF Acts!ImplicitAlert
  <2> QED BY <1>6, <2>1 DEF TasksOf, AsksFor
<1>8. t[1] = all[i] /\ t \in T
  <2>1. t \in {<<all[i], a>> : a \in {all[i].actions[j] : j \in DOMAIN all[i].actions} \cup {Acts!ImplicitAlert}}
    BY <1>7 DEF TasksOf
  <2>2. t[1] = all[i]
    BY <2>1
  <2> QED BY <1>5, <1>7, <2>2 DEF AllTasks
<1> QED BY <1>3, <1>7, <1>8 DEF Keeps

\* The order of the matches makes no difference to what is done.
LEMMA OrderDoesNotMatterHolds ==
  ASSUME NEW e \in Acts!Events, NEW found \in Acts!Findings, NEW matches \in Seq(Acts!PolicyMatches), NEW down
  PROVE  Acts!OrderDoesNotMatter(e, found, matches, down)
<1> DEFINE r == ReadOf(e, found)
           back == Acts!Reverse(matches)
           all == Acts!Matches(e, matches)
           M == Members(all)
           T == AllTasks(r.severity, M)
           one == Acts!Processed(e, found, matches, down)
           other == Acts!Processed(e, found, back, down)
<1>1. back \in Seq(Acts!PolicyMatches) /\ Members(Acts!Matches(e, back)) = M /\ all \in Seq(Acts!PolicyMatches)
  BY ReversedHasSame, MatchesAre
<1>2. CASE e.lacks \cap Acts!Required # {}
  <2>1. one = e /\ other = e
    BY <1>2 DEF Acts!Processed
  <2>2. e.lacks # {}
    BY <1>2
  <2> QED BY <2>1, <2>2 DEF Acts!OrderDoesNotMatter
<1>3. CASE e.lacks \cap Acts!Required = {}
  <2>1. /\ Holds(r, one, T) /\ Opens(r, one, T, down) /\ Names(r, one, T) 
        /\ one.severity = Gravest(r.severity, Given(M))
        /\ one.blocked \in BOOLEAN /\ one.quarantined \in BOOLEAN
    BY <1>3, ProcessedIs
  <2>2. /\ Holds(r, other, T) /\ Opens(r, other, T, down) /\ Names(r, other, T)
        /\ other.severity = Gravest(r.severity, Given(M))
        /\ other.blocked \in BOOLEAN /\ other.quarantined \in BOOLEAN
    <3> HIDE DEF back, r, M
    <3>1. M = Members(Acts!Matches(e, back))
      BY <1>1
    <3> QED BY <1>1, <1>3, <3>1, ProcessedIs DEF r
  <2>3. (\E i \in DOMAIN all : "block" \in Acts!TypesOf(all[i])) => one.blocked
    <3> SUFFICES ASSUME NEW i \in DOMAIN all, "block" \in Acts!TypesOf(all[i]) PROVE one.blocked
      OBVIOUS
    <3> HIDE DEF all, one, r
    <3>1. PICK j \in DOMAIN all[i].actions : all[i].actions[j].type = "block"
      BY DEF Acts!TypesOf
    <3> DEFINE t == <<all[i], all[i].actions[j]>>
    <3>2. t[2].type = "block" /\ t \in TasksOf(r.severity, all[i])
      BY <3>1 DEF TasksOf
    <3> HIDE DEF t
    <3>3. t \in T
      BY <3>2 DEF AllTasks, Members
    <3> QED BY <2>1, <3>2, <3>3 DEF Holds, AsksFor
  <2> HIDE DEF one, other, r, T, M
  <2>4. /\ one.blocked = other.blocked /\ one.quarantined = other.quarantined
        /\ one.severity = other.severity /\ one.incident = other.incident
        /\ Pairs(one.alerts) = Pairs(other.alerts)
    BY <2>1, <2>2 DEF Holds, Opens, Names
  <2> QED BY <2>3, <2>4 DEF Acts!OrderDoesNotMatter, Pairs, one, other
<1> QED BY <1>2, <1>3

\* A content that is found grave or is to be redacted or encrypted cannot be read
\* any more, but its copy can.
LEMMA OnlyTheCopyIsLeftHolds ==
  ASSUME NEW e \in Acts!Events, NEW found \in Acts!Findings, NEW matches \in Seq(Acts!PolicyMatches), NEW down
  PROVE  Acts!OnlyTheCopyIsLeft(e, found, matches, down)
<1> DEFINE r == ReadOf(e, found)
           all == Acts!Matches(e, matches)
           T == AllTasks(r.severity, Members(all))
           z == Acts!Processed(e, found, matches, down)
<1>1. SUFFICES ASSUME e.lacks = {},
                      \/ found.engine = "works" /\ found.hit /\ found.level \in {"Confidential", "Restricted"}
                      \/ \E i \in DOMAIN all : \E j \in DOMAIN all[i].actions :
                           all[i].actions[j].type \in {"redact", "encrypt"} /\ all[i].actions[j].apt
               PROVE  z.content # "clear" /\ (e.content # "none" => z.clipboard)
  BY DEF Acts!OnlyTheCopyIsLeft
<1>2. Covers(r, z, T) /\ z.clipboard = r.clipboard
  BY <1>1, ProcessedIs
<1>5. e.content # "none" => z.clipboard
  BY <1>2, ReadIs
<1>3. CASE found.engine = "works" /\ found.hit /\ found.level \in {"Confidential", "Restricted"}
  <2>1. r.content # "clear"
    BY <1>3, ReadIs
  <2> QED BY <1>2, <1>5, <2>1 DEF Covers
<1>4. ASSUME NEW i \in DOMAIN all, NEW j \in DOMAIN all[i].actions,
             all[i].actions[j].type \in {"redact", "encrypt"} /\ all[i].actions[j].apt
      PROVE  z.content # "clear"
  <2> HIDE DEF all, z, r
  <2> DEFINE t == <<all[i], all[i].actions[j]>>
  <2>1. t[2].type \in {"redact", "encrypt"} /\ t[2].apt /\ t \in TasksOf(r.severity, all[i])
    BY <1>4 DEF TasksOf
  <2> HIDE DEF t
  <2>2. t \in T
    BY <2>1 DEF AllTasks, Members
  <2> QED BY <1>2, <2>1, <2>2 DEF Covers, Hides
<1> QED BY <1>1, <1>3, <1>4, <1>5

-----------------------------------------------------------------------------
\* The decision engine: the types of action of the matches of the highest
\* priority, and the heaviest of those it knows.
Top(M) == {match \in M : \A other \in M : other.priority <= match.priority}
TopTypes(M) == UNION {Acts!TypesOf(match) : match \in Top(M)}
Weighed(types) == {t \in types : Acts!Weight(t) > 0}
DecisionOf(types) == IF types = {} THEN "allow" ELSE Acts!Heaviest(types)
Decide(s) == Acts!Decision(s, FALSE, TRUE).action

LEMMA DecideIs ==
  ASSUME NEW s
  PROVE  Decide(s) = DecisionOf(Weighed(TopTypes(Members(s))))
<1> DEFINE tier == Acts!TopTier(s)
           M == Members(s)
<1>1. TopTypes(M) = UNION {Acts!TypesOf(s[i]) : i \in tier}
  <2>1. \A i \in tier : s[i] \in Top(M)
    BY DEF Acts!TopTier, Top, Members
  <2>2. \A match \in Top(M) : \E i \in tier : match = s[i]
    BY DEF Acts!TopTier, Top, Members
  <2> HIDE DEF tier, M
  <2>3. TopTypes(M) \subseteq UNION {Acts!TypesOf(s[i]) : i \in tier}
    BY <2>2 DEF TopTypes
  <2>4. UNION {Acts!TypesOf(s[i]) : i \in tier} \subseteq TopTypes(M)
    BY <2>1 DEF TopTypes
  <2> QED BY <2>3, <2>4
<1>2. Acts!Best(s, tier) = DecisionOf(Weighed(TopTypes(M)))
  <2>1. Acts!Best(s, tier) = DecisionOf(Weighed(UNION {Acts!TypesOf(s[i]) : i \in tier}))
    BY DEF Acts!Best, DecisionOf, Weighed
  <2> HIDE DEF tier, M
  <2> QED BY <1>1, <2>1
<1>3. CASE s = <<>>
  <2>1. M = {}
    BY <1>3 DEF Members
  <2>2. Weighed(TopTypes(M)) = {}
    BY <2>1 DEF Top, TopTypes, Weighed
  <2>3. Decide(s) = "allow"
    BY <1>3 DEF Decide, Acts!Decision
  <2> QED BY <2>2, <2>3 DEF DecisionOf
<1>4. CASE s # <<>>
  <2>1. Decide(s) = Acts!Best(s, tier)
    BY <1>4 DEF Decide, Acts!Decision
  <2> QED BY <1>2, <2>1
<1> QED BY <1>3, <1>4

\* Weights are numbers, so that some type is the heaviest.
LEMMA HeaviestIs ==
  ASSUME NEW types, types # {}
  PROVE  /\ \A t \in types : Acts!Weight(t) \in 0 .. 100
         /\ Acts!Heaviest(types) \in types
         /\ \A t \in types : Acts!Weight(t) <= Acts!Weight(Acts!Heaviest(types))
<1>1. \A t : Acts!Weight(t) \in 0 .. 100
  <2> SUFFICES ASSUME NEW t PROVE Acts!Weight(t) \in 0 .. 100
    OBVIOUS
  <2>1. CASE t \in {"block", "quarantine", "encrypt", "alert", "warn", "allow", "log"}
    BY <2>1 DEF Acts!Weight, Acts!Precedence
  <2>2. CASE t \notin {"block", "quarantine", "encrypt", "alert", "warn", "allow", "log"}
    BY <2>2 DEF Acts!Weight, Acts!Precedence
  <2> QED BY <2>1, <2>2
<1> DEFINE Gaps == {100 - Acts!Weight(t) : t \in types}
<1>2. Gaps \in SUBSET Nat /\ Gaps # {}
  BY <1>1
<1>3. PICK n \in Gaps : \A m \in Gaps : n <= m
  <2> HIDE DEF Gaps
  <2> QED BY <1>2, LeastIs
<1>4. PICK t \in types : \A u \in types : 100 - Acts!Weight(t) <= 100 - Acts!Weight(u)
  BY <1>3
<1>5. \A u \in types : Acts!Weight(u) <= Acts!Weight(t)
  BY <1>1, <1>4
<1>6. /\ Acts!Heaviest(types) \in types
      /\ \A u \in types : Acts!Weight(u) <= Acts!Weight(Acts!Heaviest(types))
  BY <1>5 DEF Acts!Heaviest
<1> QED BY <1>1, <1>6

LEMMA RemovedIs ==
  ASSUME NEW S, NEW s \in Seq(S), NEW i \in DOMAIN s
  PROVE  /\ Members(Acts!RemoveAt(s, i)) \subseteq Members(s)
         /\ Members(s) \subseteq Members(Acts!RemoveAt(s, i)) \cup {s[i]}
<1> DEFINE N == Len(s)
           a == SubSeq(s, 1, i - 1)
           b == SubSeq(s, i + 1, N)
           r == a \o b
<1>1. N \in Nat /\ DOMAIN s = 1 .. N /\ i \in 1 .. N
  OBVIOUS
<1>2. /\ a \in Seq(S) /\ Len(a) = i - 1 /\ \A j \in 1 .. i - 1 : a[j] = s[j]
      /\ b \in Seq(S) /\ Len(b) = N - i /\ \A j \in 1 .. N - i : b[j] = s[i + j]
  OBVIOUS
<1>3. /\ r \in Seq(S) /\ Len(r) = N - 1
      /\ \A j \in 1 .. N - 1 : r[j] = IF j < i THEN s[j] ELSE s[j + 1]
  <2> HIDE DEF N, a, b
  <2>1. r \in Seq(S) /\ Len(r) = N - 1
    <3>1. \A c, d \in Seq(S) : c \o d \in Seq(S) /\ Len(c \o d) = Len(c) + Len(d)
      OBVIOUS
    <3>2. Len(a) + Len(b) = N - 1
      BY <1>1, <1>2
    <3> HIDE DEF r
    <3>3. r \in Seq(S) /\ Len(r) = Len(a) + Len(b)
      BY ONLY <1>2, <3>1 DEF r
    <3> QED BY <3>2, <3>3
  <2>2. ASSUME NEW j \in 1 .. N - 1, j < i PROVE r[j] = s[j]
    <3>1. j \in 1 .. i - 1 /\ r[j] = a[j]
      BY <1>1, <1>2, <2>2
    <3> QED BY <1>2, <3>1
  <2>3. ASSUME NEW j \in 1 .. N - 1, ~(j < i) PROVE r[j] = s[j + 1]
    <3>1. j - (i - 1) \in 1 .. N - i /\ i + (j - (i - 1)) = j + 1
      BY <1>1, <2>3
    <3>2. r[j] = b[j - (i - 1)]
      BY <1>1, <1>2, <2>3
    <3> QED BY <1>2, <3>1, <3>2
  <2> QED BY <2>1, <2>2, <2>3
<1>4. r = Acts!RemoveAt(s, i)
  BY DEF Acts!RemoveAt
<1> HIDE DEF N, r
<1>5. DOMAIN r = 1 .. N - 1
  BY <1>1, <1>3
<1>6. ASSUME NEW j \in 1 .. N - 1 PROVE r[j] \in Members(s)
  <2>1. j \in 1 .. N /\ j + 1 \in 1 .. N
    BY <1>1
  <2> QED BY <1>1, <1>3, <2>1 DEF Members
<1>7. ASSUME NEW j \in 1 .. N PROVE s[j] \in Members(r) \cup {s[i]}
  <2>1. CASE j < i
    <3>1. j \in 1 .. N - 1 /\ r[j] = s[j]
      BY <1>1, <1>3, <2>1
    <3> QED BY <1>5, <3>1 DEF Members
  <2>2. CASE j > i
    <3>1. j - 1 \in 1 .. N - 1 /\ r[j - 1] = s[j]
      BY <1>1, <1>3, <2>2
    <3> QED BY <1>5, <3>1 DEF Members
  <2>3. CASE j = i
    BY <2>3
  <2> QED BY <1>1, <2>1, <2>2, <2>3
<1>8. Members(r) \subseteq Members(s)
  BY <1>5, <1>6 DEF Members
<1>9. Members(s) \subseteq Members(r) \cup {s[i]}
  BY <1>1, <1>7 DEF Members
<1> QED BY <1>4, <1>8, <1>9

\* A match of a lower priority has no say.
LEMMA LowerHasNoSay ==
  ASSUME NEW M \in SUBSET Acts!PolicyMatches, NEW R \in SUBSET M, NEW low \in M, M \subseteq R \cup {low},
         low \notin Top(M)
  PROVE  TopTypes(R) = TopTypes(M)
<1>1. \A match \in M : match.priority \in Int
  BY DEF Acts!PolicyMatches
<1>2. PICK high \in M : high.priority > low.priority
  BY <1>1 DEF Top
<1>3. high \in R
  BY <1>1, <1>2
<1>4. \A match \in Top(M) : match \in Top(R)
  BY DEF Top
<1>5. ASSUME NEW match \in Top(R) PROVE match \in Top(M)
  <2>1. match \in M /\ high.priority <= match.priority /\ \A other \in R : other.priority <= match.priority
    BY <1>3, <1>5 DEF Top
  <2>2. low.priority <= match.priority
    BY <1>1, <1>2, <2>1
  <2> QED BY <2>1, <2>2 DEF Top
<1>6. Top(R) = Top(M)
  BY <1>4, <1>5
<1> QED BY <1>6 DEF TopTypes

\* The decision is one of what the matches ask for, whatever their order.
LEMMA DecisionIsSettledHolds ==
  ASSUME NEW e \in Acts!Events, NEW found \in Acts!Findings, NEW matches \in Seq(Acts!PolicyMatches), NEW down
  PROVE  Acts!DecisionIsSettled(e, found, matches, down)
<1> DEFINE M == Members(matches)
           types == Weighed(TopTypes(M))
<1>1. M \in SUBSET Acts!PolicyMatches /\ Decide(matches) = DecisionOf(types)
  BY DecideIs DEF Members
<1>2. Decide(matches) = Decide(Acts!Reverse(matches))
  <2>1. Members(Acts!Reverse(matches)) = M
    BY ReversedHasSame
  <2> HIDE DEF M
  <2> QED BY <1>1, <2>1, DecideIs
<1>3. ASSUME NEW i \in DOMAIN matches, \A j \in DOMAIN matches : matches[i].priority = matches[j].priority
      PROVE  Acts!Weight(Decide(matches)) >= Acts!Weight(Decide(<<matches[i]>>))
               \/ Decide(<<matches[i]>>) = "allow"
  <2> DEFINE match == matches[i]
             own == Weighed(Acts!TypesOf(match))
  <2>1. Decide(<<match>>) = DecisionOf(own)
    <3>1. Members(<<match>>) = {match}
      BY DEF Members
    <3>2. match.priority \in Int
      <4>1. match \in Acts!PolicyMatches
        OBVIOUS
      <4> HIDE DEF match
      <4> QED BY <4>1 DEF Acts!PolicyMatches
    <3> HIDE DEF match
    <3>3. Top({match}) = {match}
      BY <3>2 DEF Top
    <3>4. TopTypes({match}) = Acts!TypesOf(match)
      BY <3>3 DEF TopTypes
    <3>5. Decide(<<match>>) = DecisionOf(Weighed(TopTypes(Members(<<match>>))))
      BY DecideIs
    <3> QED BY <3>1, <3>4, <3>5
  <2>2. match \in Top(M)
    <3>1. \A other \in M : other.priority = match.priority /\ other.priority \in Int
      BY <1>1, <1>3 DEF Members, Acts!PolicyMatches
    <3>2. match \in M
      BY <1>3 DEF Members
    <3> HIDE DEF match, M
    <3> QED BY <3>1, <3>2 DEF Top
  <2>3. own \subseteq types
    <3> HIDE DEF match, M
    <3> QED BY <2>2 DEF TopTypes, Weighed
  <2> HIDE DEF own, types, match
  <2>4. CASE own = {}
    BY <2>1, <2>4 DEF DecisionOf, match
  <2>5. CASE own # {}
    <3>1. types # {}
      BY <2>3, <2>5
    <3>2. Acts!Heaviest(own) \in types
      BY <2>3, <2>5, HeaviestIs
    <3>3. /\ Acts!Weight(Acts!Heaviest(own)) <= Acts!Weight(Acts!Heaviest(types))
          /\ Acts!Weight(Acts!Heaviest(own)) \in 0 .. 100 /\ Acts!Weight(Acts!Heaviest(types)) \in 0 .. 100
      BY <3>1, <3>2, HeaviestIs
    <3>4. Decide(matches) = Acts!Heaviest(types) /\ Decide(<<match>>) = Acts!Heaviest(own)
      BY <1>1, <2>1, <2>5, <3>1 DEF DecisionOf
    <3> QED BY <3>3, <3>4 DEF match
  <2> QED BY <2>4, <2>5
<1>4. ASSUME NEW i \in DOMAIN matches \ Acts!TopTier(matches)
      PROVE  Decide(Acts!RemoveAt(matches, i)) = Decide(matches)
  <2> DEFINE R == Members(Acts!RemoveAt(matches, i))
  <2>1. R \in SUBSET M /\ M \subseteq R \cup {matches[i]}
    BY RemovedIs
  <2>2. matches[i] \in M /\ matches[i] \notin Top(M)
    BY DEF Acts!TopTier, Top, Members
  <2> HIDE DEF R, M
  <2>3. TopTypes(R) = TopTypes(M)
    BY <1>1, <2>1, <2>2, LowerHasNoSay
  <2>4. Decide(Acts!RemoveAt(matches, i)) = DecisionOf(Weighed(TopTypes(R)))
    BY DecideIs DEF R
  <2> QED BY <1>1, <2>3, <2>4
<1>5. ASSUME Decide(matches) = "block", e.lacks = {}, e.resolved = "none", e.type # "web_activity"
      PROVE  Acts!Processed(e, found, matches, down).blocked
  <2>1. types # {} /\ "block" \in types
    <3> HIDE DEF types
    <3>1. types # {}
      BY <1>1, <1>5 DEF DecisionOf
    <3> QED BY <1>1, <1>5, <3>1, HeaviestIs DEF DecisionOf
  <2>2. PICK i \in DOMAIN matches : "block" \in Acts!TypesOf(matches[i])
    BY <2>1 DEF Weighed, TopTypes, Top, Members
  <2>3. Acts!Matches(e, matches) = matches
    BY <1>5 DEF Acts!Matches
  <2>4. Acts!OrderDoesNotMatter(e, found, matches, down)
    BY OrderDoesNotMatterHolds
  <2> QED BY <1>5, <2>2, <2>3, <2>4 DEF Acts!OrderDoesNotMatter
<1> QED BY <1>2, <1>3, <1>4, <1>5 DEF Acts!DecisionIsSettled, Decide

-----------------------------------------------------------------------------
\* A file that OneDrive says has changed is reported as what happened to it, and
\* what is reported as created or modified is remembered (onedrive_polling.py).
THEOREM ChangesAreReported ==
  ASSUME NEW item \in Changes!Items
  PROVE  /\ Changes!EditIsModification(item) /\ Changes!DeletionIsReported(item)
         /\ Changes!ReportedIsRemembered(item)
<1>1. /\ item.type \in Changes!Types /\ item.deleted \in BOOLEAN /\ item.close \in BOOLEAN
      /\ item.memory \in {"none", "same", "etag", "time"}
      /\ item.found \in BOOLEAN /\ item.redis \in BOOLEAN
  BY DEF Changes!Items
<1>2. Changes!EditIsModification(item)
  BY <1>1 DEF Changes!EditIsModification, Changes!Reported, Changes!Modified
<1>3. Changes!DeletionIsReported(item)
  BY <1>1 DEF Changes!DeletionIsReported, Changes!Reported, Changes!Modified, Changes!Normalized,
              Changes!Improved, Changes!Subtype
<1>4. Changes!ReportedIsRemembered(item)
  BY <1>1 DEF Changes!ReportedIsRemembered, Changes!Remembers, Changes!Reported, Changes!Modified,
              Changes!Normalized, Changes!Improved, Changes!Subtype, Changes!Known, Changes!Types
<1> QED BY <1>2, <1>3, <1>4

-----------------------------------------------------------------------------
\* What was asked is one of the questions of its kind.
Asked == answered => ask \in Questions(kind)

LEMMA QuestionIsAsked == DecisionsSpec => []Asked
<1>1. DecisionsInit => Asked
  BY DEF DecisionsInit, Asked
<1>2. Asked /\ [Answer]_<<kind, ask, answered>> => Asked'
  BY DEF Asked, Answer
<1> QED BY <1>1, <1>2, PTL DEF DecisionsSpec

\* Whatever forms, events, controls, policies and pages there are, what is stored
\* of a policy and what the endpoint does by it is what the policy's form says, and
\* every cell of the web matrix decides (policy_transformer.py, agents.py,
\* agent.cpp, evaluate_web_activity).
THEOREM PoliciesMeanTheFormHolds == DecisionsSpec => []PoliciesMeanTheForm
<1>1. Asked => PoliciesMeanTheForm
  <2> SUFFICES ASSUME Asked PROVE PoliciesMeanTheForm
    OBVIOUS
  <2>1. On("form") => \A event \in EventsFor(ask.form.type) :
          Answers!RulesMeanTheForm(ask.form, event) /\ Answers!ReportersOnlyAlert(ask.form, event)
    BY RulesMeanTheFormHolds, ReportersOnlyAlertHolds
  <2>2. On("share") => Views!ShareActsOnRequest(ask.case.config, ask.case.denylist, ask.case.file,
                                                ask.case.verdict)
    BY ShareActsOnRequestHolds
  <2>3. On("program") => Views!ModesAreOpposite(ask.case.config, ask.case.act)
    <3>1. On("program") => "mode" \in DOMAIN ask.case.config
      BY ControlsAssumption DEF On, Asked
    <3> QED BY <3>1, ModesAreOppositeHolds
  <2>4. On("printer") => Views!DenialIsFinal(ask.case.config, ask.case.rows, ask.case.printer)
    BY DenialIsFinalHolds
  <2>5. On("radio") => Views!ShutOnRequest(ask.policies)
    BY ShutOnRequestHolds
  <2>6. On("chat") => Views!UntickedMeansOff(ask.case.config, TypedTypes, TypedByDefault, ChatPrograms,
                                             ask.case.act)
    BY ControlsAssumption, UntickedMeansOffHolds
  <2>7. On("page") => \A category \in Web!ClassifyHost(ask.host, Catalogue), found \in PageFinds :
          Web!MatrixDecides(category, ask.activity, ask.matrix, found)
    BY MatrixDecidesHolds
  <2> QED BY <2>1, <2>2, <2>3, <2>4, <2>5, <2>6, <2>7 DEF PoliciesMeanTheForm
<1> QED BY <1>1, QuestionIsAsked, PTL

\* Whatever policies are in force and whatever is found, more policies and more
\* finds never make an answer, a print job or the level of a text milder
\* (evaluate_policy_realtime, get_print_content_policy, classification_engine.py).
THEOREM MoreNeverMilderHolds == DecisionsSpec => []MoreNeverMilder
<1>1. Asked => MoreNeverMilder
  <2> SUFFICES ASSUME Asked PROVE MoreNeverMilder
    OBVIOUS
  <2>1. On("request") => \A policies \in InForce :
          /\ Answers!MoreNeverMilder(policies, ask.request, ask.level, ask.hits)
          /\ Answers!PolicyDecides(policies, ask.request, ask.level, ask.hits)
    BY InForceAssumption, AnswersNeverMilder, PolicyDecidesHolds
  <2>2. On("content") => Views!PoliciesCompose(ask.case.policies, ask.case.more, ask.case.job)
    BY PoliciesComposeHolds
  <2>3. On("text") => /\ Levels!KnownIsFloor(ask.text) /\ Levels!StrongRulesStand(ask.text)
                      /\ Levels!FalseAlarmIsHarmless(ask.text) /\ Levels!MoreFindsNeverMilder(ask.text)
    <3>1. On("text") => Counted(ask.text)
      BY TextsAssumption DEF On, Asked
    <3>2. On("text") => ask.text.known \subseteq Levels!Levels
      BY <3>1 DEF Counted
    <3> QED BY <3>1, <3>2, KnownIsFloorHolds, StrongRulesStandHolds, FalseAlarmIsHarmlessHolds,
               MoreFindsNeverMilderHolds
  <2> QED BY <2>1, <2>2, <2>3 DEF MoreNeverMilder
<1> QED BY <1>1, QuestionIsAsked, PTL

\* Whatever changed in the drive, whatever an event holds and however long a batch
\* is, what is reported of it is true (onedrive_polling.py, the SIEM connectors).
THEOREM ReportsAreTrueHolds == DecisionsSpec => []ReportsAreTrue
<1>1. Asked => ReportsAreTrue
  <2> SUFFICES ASSUME Asked PROVE ReportsAreTrue
    OBVIOUS
  <2>1. On("change") => /\ Changes!EditIsModification(ask.item) /\ Changes!DeletionIsReported(ask.item)
                        /\ Changes!ReportedIsRemembered(ask.item)
    <3>1. On("change") => ask.item \in Changes!Items
      BY ChangesAssumption DEF On, Asked
    <3> QED BY <3>1, ChangesAreReported
  <2>2. On("report") => \A other \in Others : Siems!RecordsAgree(ask.event, other)
    BY RecordsAgreeHolds
  <2>3. On("batch") => Siems!BatchTellsTruth(ask.type, ask.events, ask.cut)
    <3>1. On("batch") => ask.events \in Seq({ask.events[i] : i \in DOMAIN ask.events}) /\ ask.cut \in Nat
      BY BatchesAssumption DEF On, Asked
    <3> QED BY <3>1, BatchTellsTruthHolds
  <2> QED BY <2>1, <2>2, <2>3 DEF ReportsAreTrue
<1> QED BY <1>1, QuestionIsAsked, PTL

-----------------------------------------------------------------------------
\* Whatever matches an event, whichever service is out of reach and whatever order
\* the matches are in, those of some weight are alerted in every database there is,
\* no block is lost, a content to be hidden is, but for its copy, and the single
\* decision agrees (event_processor.py, action_executor.py, decision_engine.py).
THEOREM MatchesAreAlertedHolds == DecisionsSpec => []MatchesAreAlerted
<1>1. Asked => MatchesAreAlerted
  <2> SUFFICES ASSUME Asked, On("matches")
               PROVE  /\ Acts!EveryMatchIsAlerted(ask.event, ask.found, ask.matches, ask.down)
                      /\ Acts!OrderDoesNotMatter(ask.event, ask.found, ask.matches, ask.down)
                      /\ Acts!OnlyTheCopyIsLeft(ask.event, ask.found, ask.matches, ask.down)
                      /\ Acts!DecisionIsSettled(ask.event, ask.found, ask.matches, ask.down)
    BY DEF MatchesAreAlerted
  <2>1. /\ ask.event \in Acts!Events /\ ask.found \in Acts!Findings
        /\ ask.matches \in Seq(Acts!PolicyMatches)
    BY MatchesAssumption DEF On, Asked
  <2> QED BY <2>1, EveryMatchIsAlertedHolds, OrderDoesNotMatterHolds, OnlyTheCopyIsLeftHolds,
             DecisionIsSettledHolds
<1> QED BY <1>1, QuestionIsAsked, PTL

=============================================================================
