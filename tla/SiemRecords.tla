----------------------------- MODULE SiemRecords -----------------------------
(***************************************************************************)
(* What a SIEM is told of an event: one form that every connector starts   *)
(* from, the CEF and LEEF records of syslog, the payload of Splunk, and    *)
(* what is reported of a batch.  An event is a function from the fields it *)
(* has to values; a field may also be there without a value ("null") or    *)
(* with an empty one ("").                                                 *)
(***************************************************************************)
EXTENDS Naturals, Sequences, FiniteSets

CONSTANT Chunk   \* events of one bulk request to ELK (500 in the code)

Grades == <<"info", "low", "medium", "high", "critical">>
Rank(severity) == CHOOSE i \in DOMAIN Grades : Grades[i] = severity
Known(severity) == \E i \in DOMAIN Grades : Grades[i] = severity

Get(event, field) == IF field \in DOMAIN event THEN event[field] ELSE "null"
Default(event, field, value) == IF field \in DOMAIN event THEN event[field] ELSE value

\* Some fields and, where they have none of its name, others.
Over(f, g) == [k \in DOMAIN f \cup DOMAIN g |-> IF k \in DOMAIN f THEN f[k] ELSE g[k]]

\* The form of an event that every connector starts from: fields without a value
\* are left out of it, and a mapping that holds nothing (format_dlp_event).
Plain == {"event_id", "hostname", "agent_id", "agent_ip", "classification_type", "confidence",
          "policy_name", "username", "user_email", "source_ip", "destination_ip",
          "destination_host", "destination_country", "file_name", "file_path", "file_size",
          "file_hash"}
Formatted(event) ==
  LET all == Over([f \in Plain |-> Get(event, f)],
                  [severity  |-> Default(event, "severity", "medium"),
                   blocked   |-> Default(event, "blocked", "no"),
                   actions   |-> Default(event, "actions", ""),
                   metadata  |-> Default(event, "metadata", "null"),
                   timestamp |-> Default(event, "timestamp", "iso")])
  IN [f \in {g \in DOMAIN all : all[g] # "null"} |-> all[f]]

\* A severity in its lower case; one that is not known counts as medium.
Word(severity) == CASE severity = "HIGH" -> "high" [] Known(severity) -> severity [] OTHER -> "medium"

\* The priority of a frame: less is graver (_syslog_frame).
Priority(event, facility) ==
  facility * 8 + 7 - Rank(Word(Default(event, "severity", "medium")))

CefSeverity(form) ==
  LET word == Word(Default(form, "severity", "medium"))
  IN <<1, 3, 5, 8, 10>>[Rank(word)]

Blocked(form) == Default(form, "blocked", "no") = "yes"

\* The actions alone.
ActionListed(form) == IF Default(form, "actions", "") # "" THEN form.actions ELSE "null"

\* What was done: the actions, or that it was blocked (_action).
Action(form) ==
  CASE Default(form, "actions", "") # "" -> form.actions
    [] Default(form, "actions", "") = "" /\ Blocked(form) -> "block"
    [] OTHER -> "null"

\* The fields of a record under their keys, without those that are empty.
Pairs(keys, form) ==
  [k \in {j \in DOMAIN keys : Get(form, keys[j]) \notin {"null", ""}} |-> form[keys[k]]]

Told(key, value) == [k \in IF value = "null" THEN {} ELSE {key} |-> value]

CefKeys ==
  [externalId |-> "event_id", src |-> "source_ip", dst |-> "destination_ip",
   dhost |-> "destination_host", shost |-> "hostname", suser |-> "username", duser |-> "user_email",
   fname |-> "file_name", filePath |-> "file_path", fsize |-> "file_size", fileHash |-> "file_hash",
   cs1 |-> "policy_name", cs2 |-> "confidence", cs3 |-> "destination_country", cn1 |-> "agent_id"]
ToCef(form) ==
  Over(Pairs(CefKeys, form),
    Over(Told("rt", IF Get(form, "timestamp") = "iso" THEN "iso" ELSE "null"),
      Over(Told("act", Action(form)),
        [outcome |-> IF Blocked(form) THEN "blocked" ELSE "allowed", severity |-> CefSeverity(form)])))

LeefKeys ==
  [externalId |-> "event_id", src |-> "source_ip", dst |-> "destination_ip",
   dstHost |-> "destination_host", identSrc |-> "agent_ip", identHostName |-> "hostname",
   usrName |-> "username", fileName |-> "file_name", filePath |-> "file_path",
   fileHash |-> "file_hash", policyName |-> "policy_name", confidence |-> "confidence",
   agentId |-> "agent_id", devTime |-> "timestamp"]
ToLeef(form) ==
  Over(Pairs(LeefKeys, form),
    Over(Told("action", Action(form)),
      Over(Told("blocked", Default(form, "blocked", "null")), [sev |-> CefSeverity(form)])))

-----------------------------------------------------------------------------
\* The events of a batch that a connector makes a payload of and the SIEM takes:
\* CEF takes the metadata for a mapping, Splunk's payload needs a time that can
\* be read, and ELK refuses a time that is none.
Sendable(type, event) ==
  LET form == Formatted(event) IN
  CASE type = "cef"  -> Default(form, "metadata", "message") = "message"
    [] type = "leef" -> TRUE
    [] OTHER         -> Default(form, "timestamp", "iso") = "iso"

\* What is reported when the SIEM goes away after cut of the n events of a batch.
Result(success, sent, failed, stored) ==
  [success |-> success, sent |-> sent, failed |-> failed, stored |-> stored]

First(n, good, cut) == {i \in good : Cardinality({j \in good : j < i}) < cut}

\* One after the other, each with its own result.
SyslogBatch(n, good, cut) ==
  LET sent == Cardinality(First(n, good, cut)) IN Result(sent = n, sent, n - sent, sent)

\* A batch that breaks off reported as sent as far as it was counted, the chunk
\* that broke included.
ElkBatchCounted(n, good, cut) ==
  Result(cut >= n, Cardinality(good), n - Cardinality(good),
         Cardinality({i \in good : i <= IF cut >= n THEN n ELSE (cut \div Chunk) * Chunk}))

\* In chunks, each taken whole: the ones that were taken are in the SIEM though
\* the failure of a later one has the batch reported as failed; documents that
\* are refused are counted and the batch is still a success.
ElkBatch(n, good, cut) ==
  IF cut >= n THEN Result(TRUE, Cardinality(good), n - Cardinality(good), Cardinality(good))
  ELSE Result(FALSE, 0, n, Cardinality({i \in good : i <= (cut \div Chunk) * Chunk}))

\* In one request, which the time of one event can spoil.
SplunkBatch(n, good, cut) ==
  IF good = 1 .. n /\ cut >= n THEN Result(TRUE, n, 0, n) ELSE Result(FALSE, 0, n, 0)

Batch(type, events, cut) ==
  LET n    == Len(events)
      good == {i \in DOMAIN events : Sendable(type, events[i])}
  IN CASE type \in {"cef", "leef"} -> SyslogBatch(n, good, cut)
       [] type = "elk"              -> ElkBatch(n, good, cut)
       [] OTHER                     -> SplunkBatch(n, good, cut)

-----------------------------------------------------------------------------
\* Whatever an event lacks, both records of it tell the same of each field they
\* share, that it was blocked and what was done included, and an event that is
\* graver is graver in the frame and in both records (syslog_connector.py).
Same == [externalId |-> "externalId", src |-> "src", dst |-> "dst", dhost |-> "dstHost",
         shost |-> "identHostName", suser |-> "usrName", fname |-> "fileName",
         filePath |-> "filePath", fileHash |-> "fileHash", cs1 |-> "policyName",
         cs2 |-> "confidence", cn1 |-> "agentId", act |-> "action", severity |-> "sev"]
RecordsAgree(event, other) ==
  LET cef == ToCef(Formatted(event))
      leef == ToLeef(Formatted(event))
  IN /\ \A k \in DOMAIN Same : Default(cef, k, "null") = Default(leef, Same[k], "null")
     /\ cef.outcome = "blocked" => Default(leef, "blocked", "no") = "yes" /\ "act" \in DOMAIN cef
     /\ Priority(event, 16) < Priority(other, 16) <=> cef.severity > ToCef(Formatted(other)).severity

\* What is reported of a batch adds up and is never more than the SIEM holds;
\* with no failure reported it holds all of it (send_batch).
BatchTellsTruth(type, events, cut) ==
  LET result == Batch(type, events, cut)
      n      == Len(events)
  IN /\ result.sent + result.failed = n
     /\ result.sent <= result.stored
     /\ result.failed = 0 => result.success /\ result.stored = n
=============================================================================
