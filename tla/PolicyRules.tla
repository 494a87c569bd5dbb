----------------------------- MODULE PolicyRules -----------------------------
(***************************************************************************)
(* How the form of a policy becomes the conditions and actions that are    *)
(* stored with it (utils/policy_transformer.py), and how the evaluator     *)
(* decides whether an event meets stored conditions                        *)
(* (policies/database_policy_evaluator.py).                                *)
(*                                                                         *)
(* A form is a record of the sets the administrator picked; what a policy  *)
(* type does not read is ignored.  An event is a function from the fields  *)
(* it carries to the set of values that hold of the field: the prefixes a  *)
(* path has, the patterns a text contains, the one value of a scalar.      *)
(***************************************************************************)

Rule(field, values) == [field |-> field, op |-> "in", values |-> values]
NotIn(field, values) == [Rule(field, values) EXCEPT !.op = "not_in"]
Is(field, value) == Rule(field, {value})
Group(match, rules) == [match |-> match, rules |-> rules]

\* A rule is added only when something was picked.
Picked(field, values) == IF values = {} THEN {} ELSE {Rule(field, values)}

Action(type, severity) == [type |-> type, severity |-> severity]
Plain(type) == {Action(type, "none")}
OneOf(action, known, default) == Plain(IF action \in known THEN action ELSE default)

\* The event subtypes of the boxes ticked under "events".
Subtypes(boxes) ==
  {CASE b = "create" -> "file_created" [] b = "modify" -> "file_modified"
     [] b = "delete" -> "file_deleted" [] b = "move" -> "file_moved" : b \in boxes}

KnownPatterns == {"ssn", "pan", "custom"}   \* with an entry in the table, or a regex of its own

-----------------------------------------------------------------------------
\* One operator per policy type: the conditions.

Clipboard(f) ==
  LET rules == {Is("clipboard_content", p) : p \in f.patterns \cap KnownPatterns}
  IN IF rules = {} THEN Group("all", {Is("event_type", "clipboard")}) ELSE Group("any", rules)

DriveCloud(f, source) ==
  Group("all", {Is("source", source)} \cup Picked("connection_id", f.connection)
                 \cup Picked("folder_id", f.paths))
GoogleDriveCloud(f) == DriveCloud(f, "google_drive_cloud")
OneDriveCloud(f)    == DriveCloud(f, "onedrive_cloud")

FileSystem(f) ==
  Group("all", Picked("file_path", f.paths) \cup Picked("event_subtype", Subtypes(f.boxes))
                 \cup Picked("file_extension", f.extensions))

\* Mutant: no level chosen, no rule about it.
EmailPicked(f) ==
  Group("all", {Is("destination_type", "email")} \cup Picked("classification_level", f.levels))

\* The rule about the level is there even when no level was chosen.
Email(f) == Group("all", {Is("destination_type", "email"), Rule("classification_level", f.levels)})

Messaging(f) == Group("all", {Is("event_subtype", "messaging_file_selection")})
ApplicationControl(f) == Group("all", {Is("event_subtype", "cli_upload")})

NetworkShare(f) ==
  Group("all",
    {Is("event_subtype", "network_share_transfer")} \cup
    (IF f.mode # "content_aware" THEN {}
     ELSE {Rule("classification_level", {"Confidential", "Restricted"})}
          \cup {Group("none", {Rule("source_path", p)}) : p \in {f.exceptPaths} \ {{}}}
          \cup {NotIn("file_extension", x) : x \in {f.exceptTypes} \ {{}}}))

Wireless(f) == Group("all", {Is("event_subtype", "bluetooth_file_transfer")})

PrintContent(f) ==
  Group("all", {Is("event_type", "print"), Rule("classification_level", {"Confidential", "Restricted"})})

PrinterControl(f) ==
  Group("all", {Is("event_subtype", "print_job"), Is("block_reason", "printer_control")})

WebActivityConditions(f) == Group("all", {Is("event_subtype", "web_activity")})

Denylist(f) == Group("any", Picked("file_extension", f.extensions) \cup Picked("file_hash", f.hashes))

\* "fileTransfer" is not read here: the transfers have a policy type of their own.
UsbDevice(f) ==
  LET events == f.boxes \cap {"connect", "disconnect"}
  IN Group(IF events = {"connect", "disconnect"} THEN "any" ELSE "all",
           Picked("usb_event_type", events))

UsbTransfer(f) ==
  Group("all", Picked("source_path", f.paths) \cup {Is("event_subtype", "usb_file_transfer")})

FileTransfer(f) ==
  Group("all", Picked("source_path", f.paths) \cup Picked("destination_path", f.destinations)
                 \cup Picked("event_subtype", Subtypes(f.boxes))
                 \cup Picked("file_extension", f.extensions))

\* Without folders the whole drive, named by its base path, is meant; folders
\* whose names are blank leave no rule about the path.
DriveLocal(f) ==
  Group("all", Picked("file_path", IF f.paths = {} THEN {"base"} ELSE f.paths \ {"blank"})
                 \cup {Is("source", "google_drive_local")}
                 \cup Picked("event_subtype", Subtypes(f.boxes))
                 \cup Picked("file_extension", f.extensions))

Conditions(f) ==
  CASE f.type = "clipboard_monitoring"          -> Clipboard(f)
    [] f.type = "file_system_monitoring"        -> FileSystem(f)
    [] f.type = "file_transfer_monitoring"      -> FileTransfer(f)
    [] f.type = "usb_device_monitoring"         -> UsbDevice(f)
    [] f.type = "usb_file_transfer_monitoring"  -> UsbTransfer(f)
    [] f.type = "google_drive_local_monitoring" -> DriveLocal(f)
    [] f.type = "google_drive_cloud_monitoring" -> GoogleDriveCloud(f)
    [] f.type = "onedrive_cloud_monitoring"     -> OneDriveCloud(f)
    [] f.type = "file_identity_denylist"        -> Denylist(f)
    [] f.type = "email_send_prevention"         -> Email(f)
    [] f.type = "messaging_app_control"         -> Messaging(f)
    [] f.type = "application_control"           -> ApplicationControl(f)
    [] f.type = "network_share_transfer_control" -> NetworkShare(f)
    [] f.type = "wireless_transfer_control"     -> Wireless(f)
    [] f.type = "print_content_prevention"      -> PrintContent(f)
    [] f.type = "printer_control"               -> PrinterControl(f)
    [] f.type = "web_activity_control"          -> WebActivityConditions(f)
    [] OTHER                                    -> Group("all", {})

\* The actions stored beside them.  A quarantine without a path stays a
\* quarantine, except that of a file transfer.
Actions(f) ==
  CASE f.type \in {"clipboard_monitoring", "usb_device_monitoring", "usb_file_transfer_monitoring",
                   "google_drive_local_monitoring"} -> Plain(f.action)
    [] f.type = "file_system_monitoring" ->
         OneOf(f.action, {"alert", "log", "quarantine", "block"}, "log")
    [] f.type = "file_transfer_monitoring" ->
         OneOf(f.action, {"alert"} \cup (IF f.quarantinePath THEN {"quarantine"} ELSE {}), "block")
    [] f.type = "file_identity_denylist" ->
         OneOf(f.action, {"alert", "log", "quarantine", "block"}, "block")
    [] f.type = "email_send_prevention" -> OneOf(f.action, {"block", "alert", "log"}, "block")
    [] f.type = "network_share_transfer_control" /\ f.mode = "content_aware" ->
         IF f.action = "block" THEN {Action("block", "none"), Action("alert", "high")}
         ELSE {Action("alert", "medium")}
    [] f.type = "print_content_prevention" -> Plain(IF f.mode = "enforce" THEN "block" ELSE "alert")
    [] \/ f.type = "network_share_transfer_control" /\ f.mode # "content_aware"
       \/ f.type \in {"messaging_app_control", "application_control",
                      "wireless_transfer_control", "printer_control"} -> Plain("alert")
    [] OTHER -> Plain("log")

-----------------------------------------------------------------------------
\* The evaluator.

\* A field the event does not carry fails every operator, not_in with the rest.
Holds(rule, event) ==
  /\ rule.field \in DOMAIN event
  /\ (event[rule.field] \cap rule.values # {}) = (rule.op = "in")

Combined(match, results) ==
  CASE match = "all"  -> FALSE \notin results
    [] match = "any"  -> TRUE \in results
    [] match = "none" -> TRUE \notin results

MatchesGroup(group, event) ==
  group.rules # {} /\ Combined(group.match, {Holds(r, event) : r \in group.rules})

Matches(conditions, event) ==
  /\ conditions.rules # {}
  /\ Combined(conditions.match,
       {IF "rules" \in DOMAIN r THEN MatchesGroup(r, event) ELSE Holds(r, event) :
          r \in conditions.rules})

\* Logging is not an action to be carried out.
Prepared(actions) == {a \in actions : a.type # "log"}

\* What the policy of form f does about an event.
Verdict(f, event) == IF Matches(Conditions(f), event) THEN Prepared(Actions(f)) ELSE {}

-----------------------------------------------------------------------------
\* The reference: what the form says in its own words.

\* The event is of the kind the policy is about.
Kind ==
  [usb_file_transfer_monitoring   |-> <<"event_subtype", "usb_file_transfer">>,
   google_drive_local_monitoring  |-> <<"source", "google_drive_local">>,
   google_drive_cloud_monitoring  |-> <<"source", "google_drive_cloud">>,
   onedrive_cloud_monitoring      |-> <<"source", "onedrive_cloud">>,
   email_send_prevention          |-> <<"destination_type", "email">>,
   messaging_app_control          |-> <<"event_subtype", "messaging_file_selection">>,
   application_control            |-> <<"event_subtype", "cli_upload">>,
   network_share_transfer_control |-> <<"event_subtype", "network_share_transfer">>,
   wireless_transfer_control      |-> <<"event_subtype", "bluetooth_file_transfer">>,
   print_content_prevention       |-> <<"event_type", "print">>,
   printer_control                |-> <<"event_subtype", "print_job">>,
   web_activity_control           |-> <<"event_subtype", "web_activity">>]

Carries(event, field, values) == field \in DOMAIN event /\ event[field] \cap values # {}
OfKind(f, event) ==
  f.type \in DOMAIN Kind => Carries(event, Kind[f.type][1], {Kind[f.type][2]})

\* Nothing picked is no restriction.
Within(event, field, values) == values # {} => Carries(event, field, values)

\* The places the policy watches.
InPlace(f, event) ==
  CASE f.type = "file_system_monitoring" -> Within(event, "file_path", f.paths)
    [] f.type = "google_drive_local_monitoring" ->
         Within(event, "file_path", IF f.paths = {} THEN {"base"} ELSE f.paths \ {"blank"})
    [] f.type = "usb_file_transfer_monitoring" -> Within(event, "source_path", f.paths)
    [] f.type = "file_transfer_monitoring" ->
         /\ Within(event, "source_path", f.paths)
         /\ Within(event, "destination_path", f.destinations)
    [] f.type \in {"google_drive_cloud_monitoring", "onedrive_cloud_monitoring"} ->
         Within(event, "connection_id", f.connection) /\ Within(event, "folder_id", f.paths)
    [] OTHER -> TRUE

OfBoxes(f, event) ==
  f.type \in {"file_system_monitoring", "file_transfer_monitoring", "google_drive_local_monitoring"}
    => /\ Within(event, "event_subtype", Subtypes(f.boxes))
       /\ Within(event, "file_extension", f.extensions)

Sensitive(event) == Carries(event, "classification_level", {"Confidential", "Restricted"})

\* A policy of a kind that watches files must name something to watch.
NamesSomething(f) ==
  /\ f.type = "file_system_monitoring" => f.paths \cup f.boxes \cup f.extensions # {}
  /\ f.type = "file_transfer_monitoring" =>
       f.paths \cup f.destinations \cup f.boxes \cup f.extensions # {}

\* The types that have conditions; a policy of any other type matches nothing.
TypesWithRules ==
  DOMAIN Kind \cup {"clipboard_monitoring", "file_system_monitoring", "file_transfer_monitoring",
                    "usb_device_monitoring", "file_identity_denylist"}

FormSays(f, event) ==
  /\ f.type \in TypesWithRules
  /\ OfKind(f, event) /\ InPlace(f, event) /\ OfBoxes(f, event) /\ NamesSomething(f)
  /\ CASE f.type = "clipboard_monitoring" ->
            IF f.patterns \cap KnownPatterns = {} THEN Carries(event, "event_type", {"clipboard"})
            ELSE Carries(event, "clipboard_content", f.patterns \cap KnownPatterns)
       [] f.type = "email_send_prevention" -> Carries(event, "classification_level", f.levels)
       [] f.type = "print_content_prevention" -> Sensitive(event)
       [] f.type = "printer_control" -> Carries(event, "block_reason", {"printer_control"})
       [] f.type = "file_identity_denylist" ->
            Carries(event, "file_extension", f.extensions) \/ Carries(event, "file_hash", f.hashes)
       [] f.type = "usb_device_monitoring" ->
            Carries(event, "usb_event_type", f.boxes \cap {"connect", "disconnect"})
       [] f.type = "network_share_transfer_control" /\ f.mode = "content_aware" ->
            /\ Sensitive(event)
            /\ ~Carries(event, "source_path", f.exceptPaths)
            /\ ~Carries(event, "file_extension", f.exceptTypes)
       [] OTHER -> TRUE

\* Every file the shared folder receives has an extension, or no type is excepted.
Typed(f, event) == "file_extension" \in DOMAIN event \/ f.exceptTypes = {}

\* The stored rules match exactly the events the form describes
\* (policy_transformer.py and database_policy_evaluator.py), except that a share
\* policy with excepted types does not match a file without an extension.
RulesMeanTheForm(f, event) ==
  Typed(f, event) => (Matches(Conditions(f), event) <=> FormSays(f, event))

\* A policy whose endpoint has decided before the event exists only reports: it
\* never stores an enforcing action that would overwrite what the event says.
ReportersOnlyAlert(f, event) ==
  (\/ f.type \in {"messaging_app_control", "application_control", "wireless_transfer_control",
                  "printer_control", "web_activity_control"}
   \/ f.type = "network_share_transfer_control" /\ f.mode # "content_aware")
    => Verdict(f, event) \subseteq Plain("alert")
=============================================================================
