----------------------------- MODULE WebActivity -----------------------------
(***************************************************************************)
(* Web Activity Control: the browser's native host asks what to do with    *)
(* something a page sends or receives (evaluate_web_activity in            *)
(* api/v1/agents.py, the vocabulary of core/web_activity.py, the redaction *)
(* of core/masking.py) and records what it did (native-host/skdlp_host.py).*)
(*                                                                         *)
(* A host name is the sequence of its labels, the last one first.  What    *)
(* the classifier says of a content is a record of its level, of whether   *)
(* its confidence is under the floor, of the labels of the rules that      *)
(* matched, and of the spans of text that can be redacted.                 *)
(***************************************************************************)
EXTENDS Integers, Sequences, FiniteSets, SequencesExt

Categories == {"webmail", "file_sharing", "collaboration", "genai"}
Decisions == {"allow", "alert", "block", "redact"}
Cells == {<<"webmail", "send">>, <<"webmail", "download">>, <<"collaboration", "send">>,
          <<"collaboration", "download">>, <<"genai", "post">>, <<"genai", "ai_response">>,
          <<"file_sharing", "download">>}

\* The categories of the longest domains of the catalogue the host is under.
Under(host, domain) == IsPrefix(domain, host)
ClassifyHost(host, catalog) ==
  LET fitting == {e \in catalog : e.domain # <<>> /\ Under(host, e.domain)}
  IN {e.category : e \in {f \in fitting : \A g \in fitting : Len(g.domain) <= Len(f.domain)}}

\* Mutant: the extension's word for a composed message is looked up as it is.
AsSent(category, activity) == activity

\* The extension calls every request a post.
Activity(category, activity) ==
  IF activity = "post" /\ category \in {"webmail", "collaboration"} THEN "send" ELSE activity

\* normalize_matrix and lookup_action: cells and actions nobody knows are dropped.
Cell(matrix, category, activity) ==
  LET cell == <<category, Activity(category, activity)>> IN
  IF cell \in Cells /\ cell \in DOMAIN matrix /\ matrix[cell] \in Decisions
  THEN matrix[cell] ELSE "allow"

Structural == {"CREDENTIAL", "JWT", "API_KEY", "CONTACT", "EMAIL"}
StructuralOnly(category, found) ==
  /\ category \in {"webmail", "collaboration"}
  /\ found.labels # {} /\ found.labels \subseteq Structural

UnderFloor(category, found) == category = "genai" /\ found.unsure

\* What was found is worth blocking, alerting about, or redacting.  A custom
\* pattern of the policy counts whatever the floors say.
Blockable(category, found, custom) ==
  custom \/ (found.level \in {"Confidential", "Restricted"}
               /\ ~StructuralOnly(category, found) /\ ~UnderFloor(category, found))
Alertable(category, found, custom) ==
  custom \/ (found.level \in {"Internal", "Confidential", "Restricted"}
               /\ ~StructuralOnly(category, found) /\ ~UnderFloor(category, found))
Redactable(category, found, custom) ==
  custom \/ (found.matched /\ ~StructuralOnly(category, found))

-----------------------------------------------------------------------------
\* redact_content: the spans in the order of their starts, the longer first,
\* without those that start inside the span before them.
Before(a, b) == a.from < b.from \/ (a.from = b.from /\ a.to > b.to)
InOrder(spans) == SetToSortSeq(spans, Before)

\* Mutant: a span is dropped only when it starts where the one before does.
AfterStart(accepted, span) ==
  accepted = <<>> \/ span.from > accepted[Len(accepted)].from

AfterLast(accepted, span) ==
  accepted = <<>> \/ span.from >= accepted[Len(accepted)].to

Merged(spans) ==
  FoldLeft(LAMBDA accepted, s : IF AfterLast(accepted, s) THEN Append(accepted, s) ELSE accepted,
           <<>>, InOrder(spans))

Covered(spans) == UNION {s.from .. s.to - 1 : s \in spans}
Redacted(spans) == Covered(ToSet(Merged(spans)))

-----------------------------------------------------------------------------
\* The decision about a request: its category, what the extension calls the
\* activity, whether it has content, the policy (none, or its matrix), what was
\* found and whether a custom pattern of the policy matched.
Decision(category, activity, content, matrix, found, custom) ==
  LET cell == Cell(matrix, category, activity) IN
  CASE cell = "allow" \/ ~content -> "allow"
    [] cell = "block"  /\ Blockable(category, found, custom) -> "block"
    [] cell = "alert"  /\ Alertable(category, found, custom) -> "alert"
    [] cell = "redact" /\ Redactable(category, found, custom) /\ found.spans # {} -> "redact"
    [] OTHER -> "allow"

\* An event of the host: what it says was done, how grave, and that it was blocked.
HostEvent(action, severity, blocked) == [action |-> action, severity |-> severity, blocked |-> blocked]

AlertSeverity(level, confidence) ==
  CASE level = "Restricted"   -> IF confidence >= 80 THEN "high" ELSE "medium"
    [] level = "Internal"     -> IF confidence < 50 THEN "low" ELSE "medium"
    [] OTHER                  -> "medium"

\* handle_web_activity: a download is over before the answer comes.
HostEvents(decision, activity, level, confidence) ==
  CASE decision = "block" /\ activity = "download" -> {HostEvent("alerted", "critical", FALSE)}
    [] decision = "block" /\ activity # "download" ->
         {HostEvent("alerted", "high", FALSE), HostEvent("blocked", "critical", TRUE)}
    [] decision = "redact" -> {HostEvent("redacted", "medium", FALSE)}
    [] decision = "alert"  -> {HostEvent("alerted", AlertSeverity(level, confidence), FALSE)}
    [] OTHER               -> {}

-----------------------------------------------------------------------------
Strictness == [allow |-> 0, alert |-> 1, redact |-> 2, block |-> 3]

\* Every cell of the matrix an administrator can fill decides about something
\* the extension sends (it says post, ai_response or download), a match of a
\* custom pattern only ever makes the decision stricter, and the host records
\* every intervention, as blocked only what had not happened yet.
MatrixDecides(category, activity, matrix, found) ==
  /\ \A cell \in {c \in DOMAIN matrix \cap Cells : matrix[c] \in Decisions} :
       \E sent \in {"post", "ai_response", "download"} :
         /\ Cell(matrix, cell[1], sent) = matrix[cell]
         /\ Activity(cell[1], sent) = cell[2]
  /\ Strictness[Decision(category, activity, TRUE, matrix, found, TRUE)] >=
       Strictness[Decision(category, activity, TRUE, matrix, found, FALSE)]
  /\ LET decision == Decision(category, activity, TRUE, matrix, found, FALSE)
         events == HostEvents(decision, activity, found.level, IF found.unsure THEN 40 ELSE 90)
     IN /\ (events = {}) <=> (decision = "allow")
        /\ (\E e \in events : e.blocked) => decision = "block" /\ activity # "download"

\* "two overlapping ones that would corrupt the output": the placeholders are
\* apart.  "Redact every span matched" (masking.py:65): what stays readable of a
\* span is the end of one that begins inside a placeholder and reaches beyond it.
SpansAreRedacted(spans) ==
  LET merged == Merged(spans) IN
  /\ \A i \in 1 .. Len(merged) - 1 : merged[i].to <= merged[i + 1].from
  /\ \A s \in spans : \A letter \in Covered({s}) \ Redacted(spans) :
       \E m \in ToSet(merged) : m.from <= s.from /\ s.from < m.to /\ m.to <= letter
=============================================================================
