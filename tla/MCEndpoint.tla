------------------------------ MODULE MCEndpoint ------------------------------
(***************************************************************************)
(* A small instance of every part of Endpoint, and of the questions that   *)
(* Decisions answers: each is asked once, for every form, file, request,   *)
(* page or change of a small domain.  The questions whose answers are      *)
(* computed by recursion over the data are asked here alone.               *)
(***************************************************************************)
EXTENDS Endpoint, Decisions, TLC

\* A part of a message: what its extraction gives and what the server says.
Sections == {s \in [kind : {"file", "body", "bare"}, seen : {"whole", "partial", "unread", "empty"},
                    text : {"allow", "alert", "block"}, unread : {"allow", "alert", "block"}] :
  /\ s.seen = "empty" => s.text = "allow" /\ s.unread = "allow"
  /\ s.seen = "unread" => s.text = "allow" /\ s.unread # "block"
  /\ (s.seen = "whole" \/ s.kind # "file") => s.unread = "allow"
  /\ s.kind = "body" => s.text # "alert"
  /\ s.kind = "bare" => s.seen = "whole" /\ s.text = "block"}

MCMails == {[kind |-> "huge", parts |-> <<>>]} \cup
           {[kind |-> "garbled", parts |-> <<a>>] : a \in {s \in Sections : s.text = "block"}} \cup
           {[kind |-> "plain", parts |-> <<a, b>>] : a, b \in Sections}

-----------------------------------------------------------------------------
Docs  == INSTANCE Extraction WITH
  MaxBytes <- 5, MaxDepth <- 2, MaxEntries <- 3, MaxTotal <- 6, MaxText <- 2, MaxPages <- 1, Ocr <- TRUE
Desk  == INSTANCE Desk
Known == INSTANCE DataMatching WITH Groups <- {"1", "2"}, MaxGram <- 4, K <- 2, W <- 2

-----------------------------------------------------------------------------
\* The forms of each policy type: the fields the type reads vary, the others
\* are as on an empty form.
Blank ==
  [type |-> "", action |-> "block", mode |-> "", paths |-> {}, destinations |-> {}, boxes |-> {},
   extensions |-> {}, levels |-> {}, hashes |-> {}, patterns |-> {}, connection |-> {},
   exceptPaths |-> {}, exceptTypes |-> {}, quarantinePath |-> FALSE]

Places == SUBSET {"p", "q"}
Exts == SUBSET {"x", "y"}
Boxes == SUBSET {"create", "move"}

FormsOf(type) ==
  LET base == [Blank EXCEPT !.type = type] IN
  CASE type = "file_system_monitoring" ->
         {[base EXCEPT !.paths = p, !.boxes = b, !.extensions = x, !.action = a] :
            p \in Places, b \in Boxes, x \in Exts, a \in {"alert", "delete"}}
    [] type = "file_transfer_monitoring" ->
         {[base EXCEPT !.paths = p, !.destinations = d, !.boxes = b, !.action = "quarantine",
                       !.quarantinePath = q] :
            p \in Places, d \in Places, b \in Boxes, q \in BOOLEAN}
    [] type = "google_drive_local_monitoring" ->
         {[base EXCEPT !.paths = p, !.extensions = x] : p \in SUBSET {"p", "blank"}, x \in Exts}
    [] type \in {"google_drive_cloud_monitoring", "onedrive_cloud_monitoring"} ->
         {[base EXCEPT !.connection = c, !.paths = p] : c \in {{}, {"c"}}, p \in Places}
    [] type = "usb_file_transfer_monitoring" -> {[base EXCEPT !.paths = p] : p \in Places}
    [] type = "usb_device_monitoring" ->
         {[base EXCEPT !.boxes = b] : b \in SUBSET {"connect", "disconnect", "fileTransfer"}}
    [] type = "clipboard_monitoring" ->
         {[base EXCEPT !.patterns = s] : s \in SUBSET {"ssn", "custom", "unknown"}}
    [] type = "email_send_prevention" ->
         {[base EXCEPT !.levels = l, !.action = a] :
            l \in SUBSET {"Internal", "Restricted"}, a \in {"block", "log"}}
    [] type = "file_identity_denylist" ->
         {[base EXCEPT !.extensions = x, !.hashes = h] : x \in Exts, h \in {{}, {"h"}}}
    [] type = "network_share_transfer_control" ->
         {[base EXCEPT !.mode = m, !.exceptPaths = p, !.exceptTypes = x, !.action = a] :
            m \in {"off", "content_aware"}, p \in Places, x \in Exts, a \in {"block", "audit"}}
    [] type = "print_content_prevention" ->
         {[base EXCEPT !.mode = m] : m \in {"enforce", "audit"}}
    [] OTHER -> {base}

PolicyTypes ==
  {"clipboard_monitoring", "file_system_monitoring", "file_transfer_monitoring",
   "usb_device_monitoring", "usb_file_transfer_monitoring", "google_drive_local_monitoring",
   "google_drive_cloud_monitoring", "onedrive_cloud_monitoring", "file_identity_denylist",
   "email_send_prevention", "messaging_app_control", "application_control",
   "network_share_transfer_control", "wireless_transfer_control", "print_content_prevention",
   "printer_control", "web_activity_control", "network_control", ""}

\* Events that carry some of the fields, each with one of its values.
Opt(fields, values) == UNION {[d -> values] : d \in SUBSET fields}
With(events, more) == {a @@ b : a \in events, b \in more}

Subtypes == {{"file_created"}, {"file_moved"}, {"file_deleted"}}
MCEventsFor(type) ==
  CASE type = "file_system_monitoring" ->
         With(Opt({"file_path"}, {{}, {"p"}, {"q"}, {"p", "q"}}),
           With(Opt({"event_subtype"}, Subtypes), Opt({"file_extension"}, {{"x"}, {"z"}})))
    [] type = "file_transfer_monitoring" ->
         With(Opt({"source_path", "destination_path"}, {{}, {"p"}, {"p", "q"}}),
              Opt({"event_subtype"}, Subtypes))
    [] type = "google_drive_local_monitoring" ->
         With(Opt({"source"}, {{"google_drive_local"}, {"agent"}}),
           With(Opt({"file_path"}, {{}, {"base"}, {"base", "p"}, {"q"}}),
                Opt({"file_extension"}, {{"x"}, {"z"}})))
    [] type \in {"google_drive_cloud_monitoring", "onedrive_cloud_monitoring"} ->
         With(Opt({"source"}, {{"google_drive_cloud"}, {"onedrive_cloud"}}),
           With(Opt({"connection_id"}, {{"c"}, {"d"}}), Opt({"folder_id"}, {{"p"}, {"r"}})))
    [] type = "usb_file_transfer_monitoring" ->
         With(Opt({"event_subtype"}, {{"usb_file_transfer"}, {"file_created"}}),
              Opt({"source_path"}, {{}, {"p"}, {"q"}}))
    [] type = "usb_device_monitoring" ->
         Opt({"usb_event_type"}, {{"connect"}, {"disconnect"}, {"other"}})
    [] type = "clipboard_monitoring" ->
         With(Opt({"event_type"}, {{"clipboard"}, {"file"}}),
              Opt({"clipboard_content"}, SUBSET {"ssn", "custom"}))
    [] type = "email_send_prevention" ->
         With(Opt({"destination_type"}, {{"email"}, {"removable_drive"}}),
              Opt({"classification_level"}, {{"Public"}, {"Internal"}, {"Restricted"}}))
    [] type = "file_identity_denylist" ->
         With(Opt({"file_extension"}, {{"x"}, {"z"}}), Opt({"file_hash"}, {{"h"}, {"i"}}))
    [] type = "network_share_transfer_control" ->
         With(Opt({"event_subtype"}, {{"network_share_transfer"}, {"print_job"}}),
           With(Opt({"classification_level"}, {{"Internal"}, {"Confidential"}}),
             With(Opt({"source_path"}, {{}, {"p"}, {"q"}}), Opt({"file_extension"}, {{"x"}, {"z"}}))))
    [] OTHER ->
         With(Opt({"event_type"}, {{"print"}, {"file"}}),
           With(Opt({"event_subtype"},
                    {{"messaging_file_selection"}, {"cli_upload"}, {"bluetooth_file_transfer"},
                     {"print_job"}, {"web_activity"}}),
             With(Opt({"classification_level"}, {{"Internal"}, {"Restricted"}}),
                  Opt({"block_reason"}, {{"printer_control"}, {"other"}}))))

-----------------------------------------------------------------------------
\* Documents by themselves, in an archive, and in archives of archives.
Doc(format, body, textual, pages, size) ==
  [format |-> format, body |-> body, textual |-> textual, pages |-> pages, size |-> size]
Single == {Doc(f, b, t, p, 1) : f \in {"pdf", "office", "image", "text", "legacy", "unknown"},
             b \in {"some", "long", "none", "broken"}, t \in BOOLEAN, p \in 0 .. 2}
Inside == {Doc("text", "some", TRUE, 0, 1), Doc("text", "long", TRUE, 0, 2),
           Doc("legacy", "some", FALSE, 0, 1), Doc("locked", "some", FALSE, 0, 1),
           Doc("pdf", "none", FALSE, 1, 6), Doc("pdf", "none", FALSE, 2, 1)}
Unlocked == {d \in Inside : d.format # "locked"}
Archive(format, members) == [format |-> format, members |-> members, size |-> 1]
UpToThree(S) == UNION {[1 .. n -> S] : n \in 0 .. 3}
UpToTwo(S) == {<<>>} \cup {<<a>> : a \in S} \cup {<<a, b>> : a, b \in S}
Flat == {Archive("zip", m) : m \in UpToTwo(Inside)} \cup {Archive("gz", <<d>>) : d \in Unlocked}
Nested == {Archive("tar", m) : m \in UpToTwo(Flat \cup Unlocked)}
Deep == {Archive("zip", <<a, b>>) : a \in {n \in Nested : Len(n.members) <= 1}, b \in Inside}

-----------------------------------------------------------------------------
\* Seven policies, two at a time at most.
Policies ==
  {[form |-> [Blank EXCEPT !.type = "email_send_prevention", !.levels = {"Confidential", "Restricted"}],
    severity |-> "high"],
   [form |-> [Blank EXCEPT !.type = "email_send_prevention", !.levels = {"Internal"},
                           !.action = "alert"], severity |-> "low"],
   [form |-> [Blank EXCEPT !.type = "usb_file_transfer_monitoring", !.action = "quarantine"],
    severity |-> "critical"],
   [form |-> [Blank EXCEPT !.type = "usb_file_transfer_monitoring", !.paths = {"p"}],
    severity |-> "medium"],
   [form |-> [Blank EXCEPT !.type = "network_share_transfer_control", !.mode = "content_aware",
                           !.action = "audit"], severity |-> "medium"],
   [form |-> [Blank EXCEPT !.type = "print_content_prevention", !.mode = "enforce"],
    severity |-> "medium"],
   [form |-> [Blank EXCEPT !.type = "file_identity_denylist", !.hashes = {"h"}], severity |-> "high"]}
MCInForce == {{p, q} : p, q \in Policies}

Mailed == [skipped : {"none", "too_large", "unreadable"},
           file : {"none", "bad", "readable", "unreadable", "too_large"},
           inspected : {"yes", "no", "unsaid"}, event_type : {"email_send"},
           destination_type : {{"email"}}, source_path : {{}}, file_hash : {{}}, file_extension : {{}}]
Moved == [skipped : {"none"}, file : {"readable"}, inspected : {"unsaid"},
          event_type : {"usb_file_transfer", "network_share_transfer", "print"},
          destination_type : {{}, {"removable_drive"}}, source_path : {{}, {"p"}},
          file_hash : {{}, {"h"}}, file_extension : {{}}]

-----------------------------------------------------------------------------
\* Pages, the cells of a matrix, and the spans found in a text of five letters.
MCCatalogue == {[domain |-> <<"com", "mail">>, category |-> "webmail"],
                [domain |-> <<"com", "mail", "chat">>, category |-> "genai"],
                [domain |-> <<"com", "box">>, category |-> "file_sharing"],
                [domain |-> <<"io", "team">>, category |-> "collaboration"]}
Hosts == {<<"com", "mail">>, <<"com", "mail", "www">>, <<"com", "mail", "chat", "eu">>,
          <<"com", "box">>, <<"io", "team", "a">>, <<"com">>, <<"org", "x">>}
Matrices == UNION {[c -> {"alert", "block", "redact", "off"}] : c \in {{x, y} : x, y \in Web!Cells}}
MCPageFinds == [level : {"Public", "Internal", "Restricted"}, unsure : BOOLEAN,
                labels : {{}, {"JWT"}, {"JWT", "SSN"}}, matched : {TRUE},
                spans : {{}, {[from |-> 0, to |-> 1, label |-> "x"]}}]
Span == {s \in [from : 0 .. 4, to : 1 .. 5, label : {"x"}] : s.from < s.to}

-----------------------------------------------------------------------------
\* Configs of the controls of an endpoint, what they decide about, and up to
\* three policies of one type.
Shares == {[config |-> [mode |-> m, action |-> a, exceptions |-> x], denylist |-> d,
            file |-> [marks |-> k, listed |-> l], verdict |-> v] :
  m \in {"block_all", "content_aware", "off", ""}, a \in {"block", "audit", ""}, x \in {{}, {"u"}},
  d \in {"block", "alert", "log"}, k \in SUBSET {"u", "p"}, l \in BOOLEAN,
  v \in {"allow", "block", "failed"}}
Programs == {[config |-> [mode |-> "", applications |-> n, channels |-> c, exceptions |-> x],
              act |-> [program |-> "a", channel |-> "network", marks |-> k]] :
  n \in SUBSET {"a", "b"}, c \in SUBSET {"network", "mail"}, x \in {{}, {"u"}}, k \in SUBSET {"u", "p"}}
Printers == {[config |-> [mode |-> m, scope |-> s], rows |-> r, printer |-> [name |-> "p", network |-> n]] :
  m \in {"enforce", "audit", ""}, s \in {"block_all", "block_network", "block_local", "allowlist", "none", ""},
  r \in SUBSET [name : {"p", "q"}, decision : {"allow", "deny"}, enabled : BOOLEAN], n \in BOOLEAN}
Row(status, deleted, priority, config) ==
  [status |-> status, deleted |-> deleted, priority |-> priority, config |-> config]
ContentRows == {Row("active", FALSE, p, [mode |-> m, unknown |-> u]) :
  p \in {1, 2}, m \in {"enforce", "audit", ""}, u \in {"allow", "block", ""}}
  \cup {Row("draft", FALSE, 2, [mode |-> "enforce", unknown |-> "block"])}
Contents == {[policies |-> {a, b}, more |-> {c}, job |-> [read |-> r, verdict |-> v]] :
  a \in ContentRows, b \in ContentRows, c \in ContentRows, r \in BOOLEAN, v \in {"allow", "block", "failed"}}
RadioRows == {Row("active", d, p, [mode |-> m, boxes |-> [bluetooth |-> b, nearby |-> n]]) :
  d \in BOOLEAN, p \in {1, 2}, m \in {"enforce", "audit", "off", ""}, b \in {"on", "off", ""}, n \in {"off", ""}}
Chats == {[config |-> [action |-> a, apps |-> n, exceptions |-> x, inspect |-> i, types |-> t],
           act |-> [program |-> "a", marks |-> k, type |-> y]] :
  a \in {"block", "alert", ""}, n \in {{}, {"b"}}, x \in {{}, {"u"}}, i \in BOOLEAN,
  t \in {{}} \cup {{s} : s \in SUBSET {"card", "phone", "typo"}}, k \in {{}, {"u"}},
  y \in {"card", "phone", "typo"}}

-----------------------------------------------------------------------------
\* Events, what is found in them, and up to two of eight matches.
Plain == [lacks |-> {}, clipboard |-> FALSE, level |-> "none", blocked |-> FALSE, quarantined |-> FALSE,
          marks |-> {}, alerts |-> {}, incident |-> "none", told |-> {}, summarised |-> FALSE]
Seen == {Plain @@ [type |-> t, severity |-> s, reported |-> s, content |-> c, path |-> p, resolved |-> r] :
  t \in {"file", "clipboard", "web_activity"}, s \in {"info", "medium"}, c \in {"none", "clear"},
  p \in BOOLEAN, r \in {"none", "block"}}
Findings == [engine : {"works"}, level : {"Internal", "Restricted"}, hit : {TRUE}, grave : {FALSE}]
  \cup [engine : {"absent", "works", "fails"}, level : {"Public"}, hit : {FALSE, TRUE}, grave : {TRUE}]
Act(type, apt) == [Acts!ImplicitAlert EXCEPT !.type = type, !.apt = apt, !.implicit = FALSE, !.channel = "email"]
AMatch(name, severity, priority, actions) ==
  [name |-> name, severity |-> severity, priority |-> priority, actions |-> actions]
SomeMatches ==
  {AMatch("a", "high", 1, <<Act("webhook", FALSE), Act("block", TRUE)>>),
   AMatch("b", "low", 1, <<Act("block", TRUE), Act("notify", TRUE)>>),
   AMatch("c", "none", 1, <<Act("encrypt", TRUE), Act("redact", TRUE)>>),
   AMatch("d", "critical", 2, <<Act("quarantine", TRUE), Act("alert", TRUE)>>),
   AMatch("e", "medium", 2, <<Act("encrypt", FALSE), Act("create_incident", TRUE), Act("tag", TRUE)>>),
   AMatch("f", "info", 2, <<>>), AMatch("g", "medium", 1, <<Act("webhook", TRUE)>>),
   AMatch("h", "none", 1, <<Act("quarantine", TRUE), Act("block", TRUE)>>)}
\* The events that the matches of the database are asked for.
Matched == {e \in Seen : e.resolved = "none" /\ e.type # "web_activity"}
Pipelines(events, matches) ==
  [event : events, found : Findings, matches : matches, down : {{"postgres"}, {"mongo", "web"}}]

-----------------------------------------------------------------------------
\* Texts: what up to two rules find, the weak signals, what is known of them, the
\* model, the context and the channel.
AFind(name, labels, weight, threshold, raw, valid, outside, near) ==
  [rule |-> [name |-> name, labels |-> labels, weight |-> weight, threshold |-> threshold,
             fileTypes |-> IF name = "sheet" THEN {"csv"} ELSE {}],
   raw |-> raw, valid |-> valid, outside |-> outside, near |-> near]
Finds == {AFind("ssn", {"SSN", "PII"}, 9000, 1, 1, 1, 1, TRUE), AFind("card", {"PCI"}, 9500, 1, 2, 0, 2, TRUE),
          AFind("us", {"PHONE"}, 4000, 1, 2, 2, 2, FALSE), AFind("mobile", {"PHONE"}, 4000, 1, 2, 2, 2, FALSE),
          AFind("phone", {"PHONE"}, 4000, 1, 1, 1, 1, TRUE), AFind("mail", {"EMAIL"}, 3000, 1, 1, 1, 1, TRUE),
          AFind("ifsc", {"IFSC"}, 7000, 1, 1, 1, 1, TRUE), AFind("legal", {"LEGAL"}, 6000, 2, 3, 3, 3, TRUE),
          AFind("key", {"API"}, 7500, 1, 2, 2, 0, TRUE), AFind("sheet", {"PCI", "API"}, 5000, 0, 1, 1, 1, TRUE)}
Model(state, entities, weight, class) ==
  [state |-> state, entities |-> entities, weight |-> weight, class |-> class]
Texts ==
  With([empty : {FALSE}, rules : BOOLEAN, fingerprint : {FALSE}, found : {{a, b} : a, b \in Finds} \cup {{}},
        known : {{}, {"Internal", "Confidential"}},
        model : {Model("off", 0, 0, ""), Model("slow", 0, 0, ""), Model("on", 0, 0, "public"),
                 Model("on", 4, 9000, "restricted")}],
    With({[numbers |-> FALSE, banking |-> FALSE, personal |-> FALSE], [numbers |-> TRUE, banking |-> TRUE,
          personal |-> FALSE], [numbers |-> TRUE, banking |-> FALSE, personal |-> TRUE]},
      With({[testValue |-> FALSE, testFile |-> FALSE, examples |-> 0, real |-> 0],
            [testValue |-> FALSE, testFile |-> FALSE, examples |-> 2, real |-> 1],
            [testValue |-> FALSE, testFile |-> FALSE, examples |-> 0, real |-> 5],
            [testValue |-> FALSE, testFile |-> FALSE, examples |-> 3, real |-> 0],
            [testValue |-> TRUE, testFile |-> TRUE, examples |-> 0, real |-> 0]},
           {[fileType |-> "none", channel |-> "screen", random |-> FALSE],
            [fileType |-> "csv", channel |-> "usb", random |-> TRUE]})))
AllTexts ==
  Texts \cup {[(CHOOSE t \in Texts : t.rules) EXCEPT !.known = k, !.fingerprint = f, !.empty = e] :
                k \in SUBSET {"Internal", "Restricted"}, f \in BOOLEAN, e \in BOOLEAN}

-----------------------------------------------------------------------------
\* Tables of two records, what may be around them, and documents of three words
\* with three digests.
T(parts, by) == Known!Token(parts, by)
Split == [T(<<"doe">>, "") EXCEPT !.split = TRUE]
Tables == {<<[name |-> a, id |-> b], [name |-> c, id |-> d]>> :
  a \in {<<T(<<"jane">>, "")>>, <<T(<<"jane">>, ""), T(<<"doe">>, "")>>, <<Split, T(<<"jane">>, "")>>, <<>>},
  b \in {<<T(<<"1", "2">>, "-")>>, <<T(<<"1">>, ""), T(<<"2">>, "")>>, <<T(<<"1">>, "")>>},
  c \in {<<T(<<"jane">>, "")>>, <<T(<<"doe">>, "")>>}, d \in {<<T(<<"2", "2">>, ".")>>, <<>>}}
Around == {<<>>, <<T(<<"x">>, "")>>, <<T(<<"1">>, "")>>}
Talk == UpToThree({T(<<"jane">>, ""), T(<<"doe">>, ""), T(<<"1", "2">>, ""), T(<<"2">>, "")})
Writes == UNION {[1 .. n -> {1, 2, 3}] : n \in 3 .. 5}
Shingle == UNION {[1 .. n -> {1, 2, 3}] : n \in {1, 2}}
Digest(seed) ==
  [words \in Shingle |-> ((IF Len(words) = 1 THEN words[1] ELSE 4 * words[1] + words[2]) * seed) % 17]
Brief == {<<>>, <<1>>}

-----------------------------------------------------------------------------
\* Events as a SIEM is told of them: all the fields, or few of them and odd ones.
MCOthers == Opt({"severity"}, {"info", "medium", "HIGH", "critical", "odd", "null"})
Reported ==
  With(MCOthers, With(Opt({"blocked"}, {"yes", "no", "null"}), With(Opt({"actions"}, {"", "listed"}),
    Opt({"source_ip", "hostname"}, {"v", "", "null"}) \cup {[f \in Siems!Plain |-> f]})))
Batched == {[timestamp |-> t, metadata |-> m] : t \in {"iso", "garbage"}, m \in {"message", "text"}}

-----------------------------------------------------------------------------
\* Viewers, up to two alerts, two events, and incidents of both kinds.
Viewers ==
  {v \in [role : {"ADMIN", "VIEWER", "THREAT_ADMIN"}, active : BOOLEAN, granted : {{}, {"view_events"}},
          direct : {{}, {"view_all_departments"}}, department : {"null", "d"}, clearance : {-1, 1}] :
     v.active \/ (v.role # "THREAT_ADMIN" /\ v.granted # {})}
AnAlert(n, severity, status) ==
  [id |-> n, event_id |-> n, severity |-> severity, status |-> status, timestamp |-> IF n = "a" THEN 1 ELSE 2]
AnAlerts(n) == {AnAlert(n, s, t) : s \in {"low", "medium", "high"}, t \in Desk!Statuses}
Alerts == {{}} \cup {{a} : a \in AnAlerts("a")} \cup {{a, b} : a \in AnAlerts("a"), b \in AnAlerts("b")}
AnEvent(n, severity, department) ==
  [event_id |-> n, severity |-> severity, department |-> department, timestamp |-> IF n = "e" THEN 1 ELSE 2]
AnEvents(n) == With({AnEvent(n, s, d) : s \in {"medium", "high"}, d \in {"d", "x"}},
                    Opt({"required_clearance"}, {0, 2}))
Events == {{a, b} : a \in AnEvents("e"), b \in With({AnEvent("f", "critical", "d")}, Opt({"id"}, {"f"}))}
Opened == [id : {"i"}, event_id : {"i"}, status : {"open", "closed"}, event_type : {"usb", "file"},
           department : {"d", "x"}, required_clearance : {0, 2}, timestamp : {1}]
\* Incidents of the present, with the events folded into them, and of the past.
Incidents == {{i} : i \in With(With(Opened, Opt({"policy_domain"}, {"threat"})),
                             {[f \in {"related"} |-> {"e"}], [f \in {"user_email"} |-> "u"]})}
Folded == {e @@ [id |-> "e", user_email |-> "u"] :
             e \in {e \in AnEvents("e") : "required_clearance" \in DOMAIN e /\ e.severity = "high"}}
Rows == {{[id |-> "r", event_id |-> e, status |-> s, timestamp |-> 1],
          [id |-> "s", event_id |-> "null", status |-> "open", timestamp |-> 2]} :
            e \in {"null", "e"}, s \in {"open", "resolved"}}

-----------------------------------------------------------------------------
\* The questions of each kind.
MCKinds == {"form", "change", "file", "request", "page", "share", "program", "printer", "content",
            "radio", "chat", "matches", "spans", "text",
            "record", "talk", "passage", "report", "batch", "alerts", "incidents", "none"}
MCQuestions(k) ==
  CASE k = "form"    -> UNION {[form : FormsOf(t)] : t \in PolicyTypes}
    [] k = "change"  -> [item : Changes!Items]
    [] k = "file"    -> [file : Single \cup Flat \cup Nested \cup Deep]
    [] k = "request" ->
         [request : Mailed \cup Moved, level : {"Public", "Confidential", "Restricted"},
          hits : SUBSET {"Internal", "Confidential", "Restricted"}]
    [] k = "page"    ->
         [host : Hosts, activity : {"post", "ai_response", "download", "upload"}, matrix : Matrices]
    [] k = "share"   -> [case : Shares]
    [] k = "program" -> [case : Programs]
    [] k = "printer" -> [case : Printers]
    [] k = "content" -> [case : Contents]
    [] k = "radio"   -> [policies : {{a, b} : a, b \in RadioRows}]
    [] k = "chat"    -> [case : Chats]
    [] k = "matches" -> Pipelines(Matched, UpToTwo(SomeMatches))
         \cup Pipelines(Seen \ Matched, {<<>>} \cup {<<m>> : m \in SomeMatches})
         \cup Pipelines({[(CHOOSE e \in Matched : TRUE) EXCEPT !.lacks = {"agent"}]}, UpToTwo(SomeMatches))
    [] k = "text"    -> [text : AllTexts]
    [] k = "record"  -> [rows : Tables, min : {1, 2}, before : {<<>>, <<T(<<"x">>, "")>>}, between : Around,
                         after : Around]
    [] k = "talk"    -> [rows : Tables, min : {1, 2}, text : Talk]
    [] k = "passage" -> [document : Writes, seed : {1, 3, 6}]
    [] k = "report"  -> [event : Reported]
    [] k = "batch"   -> [type : {"cef", "leef", "elk", "splunk"}, cut : 0 .. 3,
                         events : UNION {[1 .. n -> Batched] : n \in 1 .. 3}]
    [] k = "alerts"  -> [user : Viewers, alerts : Alerts, events : {CHOOSE e \in Events : TRUE}]
                        \cup [user : Viewers, alerts : {{}}, events : Events]
    [] k = "incidents" -> [user : Viewers, rows : Rows, incidents : Incidents,
                           events : {{a} : a \in Folded}]
    [] k = "spans"   -> [spans : {{a, b, c} : a, b, c \in Span}]
    [] k = "none"    -> {}

\* A question is asked, or none is and a part of the endpoint runs.
Init ==
  /\ DecisionsInit /\ EndpointInit
  /\ IF kind = "none" THEN TRUE ELSE part = "print"

Next ==
  \/ kind = "none" /\ EndpointNext /\ UNCHANGED <<kind, ask, answered>>
  \/ Answer /\ UNCHANGED endpointVars

Spec == Init /\ [][Next]_<<kind, ask, answered, endpointVars>>

-----------------------------------------------------------------------------
\* A text that is not marked as partial accounts for every document but those that
\* are left out by name, however the archives are nested, within one budget for the
\* whole tree (document_extract.py).  Registered data is found however it is written, whole
\* rows and passages, and nothing else is taken for it
\* (data_matching_service.py).  The placeholders of a redacted text are apart, and
\* only the end of a span that overlaps one stays readable (masking.py).
ContentIsJudged ==
  /\ On("file") => Docs!UnmarkedIsAccounted(ask.file) /\ Docs!OneBudgetForAll(ask.file)
  /\ On("record") => \A r \in DOMAIN ask.rows :
       Known!RecordIsFound(ask.rows, r, ask.min, ask.before, ask.between, ask.after)
  /\ On("talk") => Known!RowsAreNotMixed(ask.rows, ask.text, ask.min)
  /\ On("passage") =>
       \A from, to \in DOMAIN ask.document : \A before, after \in Brief :
         Known!PassageIsFound(ask.document, from, to, before, after, Digest(ask.seed))
  /\ On("spans") => Web!SpansAreRedacted(ask.spans)

\* What a viewer is shown of alerts and incidents adds up, and is what the
\* viewer's department, clearance and domains allow, but for the events that come
\* with an incident when it is opened (alerts.py, incidents.py).
ViewersAreShownTheirs ==
  /\ On("alerts") => /\ Desk!AlertsTally(ask.user, ask.alerts, ask.events)
                     /\ Desk!StatusIsSet(ask.user, ask.alerts, ask.events)
                     /\ Desk!ScopeIsKept(ask.user, ask.events, {})
  /\ On("incidents") => /\ Desk!IncidentsTally(ask.user, ask.rows, ask.events, ask.incidents)
                        /\ Desk!ScopeIsKept(ask.user, ask.events, ask.incidents)
=============================================================================
