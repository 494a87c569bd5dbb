---------------------------- MODULE ActionPipeline ----------------------------
(***************************************************************************)
(* What is done to one event on the server: the stages of EventProcessor,  *)
(* the actions of ActionExecutor, and the single decision DecisionEngine   *)
(* makes of the same matches.                                              *)
(*                                                                         *)
(* An event says what it lacks, how grave it is, what may be read of its   *)
(* content, whether clipboard_content holds a copy of the text, and what   *)
(* was done to it (marks).  It is the event as the actions and webhooks see *)
(* it: the stored document keeps the content it came with.  A match is what *)
(* a policy asks of it: a severity ("none" if it has none), a priority and *)
(* a sequence of actions; an action that is not "apt" lacks what it needs  *)
(* (a recipient, a URL) or names an unknown method.  "down" are the services *)
(* out of reach.                                                           *)
(***************************************************************************)
EXTENDS Integers, Sequences, FiniteSets, SequencesExt

Ranks == [none |-> -1, info |-> 0, low |-> 1, medium |-> 2, high |-> 3, critical |-> 4]

Levels == {"Public", "Internal", "Confidential", "Restricted"}

\* What an event, a match and a finding may be.
Severities == DOMAIN Ranks
Alerts == [policy : STRING, severity : Severities, stored : SUBSET {"postgres", "mongo"},
           mailed : BOOLEAN, blocked : BOOLEAN]
Events ==
  [type : STRING, lacks : SUBSET STRING, severity : Severities, reported : Severities, path : BOOLEAN,
   content : {"none", "clear", "taken", "redacted", "encrypted"}, clipboard : BOOLEAN,
   level : Levels \cup {"none"}, blocked : BOOLEAN, quarantined : BOOLEAN, resolved : STRING,
   marks : SUBSET STRING, alerts : SUBSET Alerts, incident : {"none", "stored", "unstored"},
   told : SUBSET STRING, summarised : BOOLEAN]
Actions == [type : STRING, severity : Severities, apt : BOOLEAN, implicit : BOOLEAN, channel : STRING]
PolicyMatches == [name : STRING, severity : Severities, priority : Int, actions : Seq(Actions)]
Findings == [engine : {"absent", "works", "fails"}, level : Levels, hit : BOOLEAN, grave : BOOLEAN]

\* What is handed to the processor: a content is there twice, under its own name
\* and as clipboard_content, whatever the type of the event.
Payload(e) == [e EXCEPT !.clipboard = @ \/ e.content # "none"]

\* An event without these is refused before anything is done to it.
Required == {"event_id", "agent", "event"}

\* A severity outside the list, "info" among them, becomes "medium".
Validated(e) ==
  [e EXCEPT !.severity = IF @ \in {"low", "medium", "high", "critical"} THEN @ ELSE "medium"]

\* The text of a clipboard event is kept beside its content if it is not yet,
\* and the event is tagged with its type.
Normalised(e) ==
  [e EXCEPT !.clipboard = IF e.type = "clipboard" THEN @ \/ e.content # "none" ELSE @]
Enriched(e) == [e EXCEPT !.marks = @ \cup {e.type}]

\* The rule engine found something: the level raises the severity, and a text of
\* the upper two levels is taken out of the event, but for the copy: no step and
\* no action touches that.
ByEngine(e, found) ==
  [e EXCEPT
    !.level = found.level,
    !.marks = @ \cup {"contains"},
    !.severity = CASE found.level = "Restricted" -> "critical"
                   [] found.level = "Confidential" /\ Ranks[@] < Ranks["critical"] -> "high"
                   [] found.level = "Internal" /\ Ranks[@] < Ranks["high"] -> "medium"
                   [] OTHER -> @,
    !.content = IF found.level \in {"Confidential", "Restricted"} THEN "taken" ELSE @,
    !.clipboard = @ \/ (e.type = "clipboard" /\ found.level \in {"Confidential", "Restricted"})]

\* The patterns in the code, used when the engine fails, know no level.
ByPatterns(e, found) ==
  [e EXCEPT
    !.marks = @ \cup {"contains"},
    !.severity = IF found.grave THEN "critical" ELSE @,
    !.content = "taken",
    !.clipboard = @ \/ e.type = "clipboard"]

\* found: whether the engine is there and works, whether rules or patterns match.
Classified(e, found) ==
  CASE e.content = "none" \/ found.engine = "absent" \/ ~found.hit -> e
    [] e.content # "none" /\ found.hit /\ found.engine = "works" -> ByEngine(e, found)
    [] e.content # "none" /\ found.hit /\ found.engine = "fails" -> ByPatterns(e, found)

-----------------------------------------------------------------------------
\* What the actions that only change the event do to it: blocking and
\* quarantine say so, the agent having done it or not.
Held(e, action) ==
  [e EXCEPT !.blocked = @ \/ action.type = "block", !.quarantined = @ \/ action.type = "quarantine"]

\* A content that was taken out of the event is not rewritten.
Rewritten(e, action) ==
  [e EXCEPT !.content = IF @ \in {"none", "taken"} THEN @
                        ELSE IF action.type = "redact" THEN "redacted" ELSE "encrypted",
            !.marks = @ \cup {action.type}]

Marking == {"tag", "escalate", "delete", "preserve", "flag_for_review", "track"}
Marked(e, action) == [e EXCEPT !.marks = @ \cup ({action.type} \cap Marking)]

Own(e, action) ==
  CASE action.type \in {"block", "quarantine"} -> Held(e, action)
    [] action.type \in {"redact", "encrypt"} -> Rewritten(e, action)
    [] OTHER -> Marked(e, action)

\* The actions that can be refused, and why: a quarantine needs a path or an
\* agent that has already moved the file, encryption needs a content that was
\* not taken out of the event.
Refused(e, action) ==
  \/ action.type = "quarantine" /\ ~e.quarantined /\ ~e.path
  \/ action.type = "encrypt" /\ e.content \in {"none", "taken"}
  \/ action.type \in {"notify", "webhook", "redact", "encrypt"} /\ ~action.apt

\* A mail goes out if the mail server takes it, a post to a chat if the web is
\* there; what fails is logged and says so.
Mails(down) == "mail" \notin down
PostsToChat(down) == "web" \notin down

\* An alert goes to each of the two databases by itself, and by mail if it is
\* grave; what fails is logged and the action counts as done.
AlertOf(e, match, action, down) ==
  LET severity == CASE action.severity # "none" -> action.severity
                    [] action.severity = "none" /\ match.severity # "none" -> match.severity
                    [] OTHER -> IF action.implicit THEN e.severity ELSE "medium"
  IN  [policy |-> match.name, severity |-> severity, stored |-> {"postgres", "mongo"} \ down,
       mailed |-> Ranks[severity] >= Ranks["high"] /\ Mails(down), blocked |-> e.blocked]

\* An incident that cannot be stored gets an id all the same.
IncidentOf(down) == IF "postgres" \in down THEN "unstored" ELSE "stored"

\* The event is posted as JSON; after one policy's actions it holds their
\* summary, with a datetime in it, and cannot be written as JSON any more.
Called(e, down) == "web" \notin down /\ ~e.summarised

\* Whom a notification reaches: the pager and SMS channels only log.
Reached(e, action, down) ==
  CASE action.channel = "email" -> Mails(down)
    [] action.channel \in {"slack", "teams"} -> PostsToChat(down)
    [] action.channel \in {"pagerduty", "sms"} -> TRUE
    [] action.channel = "webhook" -> Called(e, down)
    [] OTHER -> FALSE

Done(e, match, action, down) ==
  CASE action.type = "alert" -> [e EXCEPT !.alerts = @ \cup {AlertOf(e, match, action, down)}]
    [] action.type = "create_incident" -> [e EXCEPT !.incident = IncidentOf(down)]
    [] action.type = "webhook" /\ Called(e, down) -> [e EXCEPT !.told = @ \cup {match.name}]
    [] action.type = "notify" /\ Reached(e, action, down) -> [e EXCEPT !.told = @ \cup {match.name}]
    [] OTHER -> Own(e, action)

\* Mutant: an action that fails is the last.
PerformedUntilFailure(e, match, actions, down) ==
  FoldLeft(LAMBDA x, i : IF \E j \in 1 .. i : Refused(e, actions[j]) THEN x
                         ELSE Done(x, match, actions[i], down),
           e, [i \in 1 .. Len(actions) |-> i])

\* The actions of a match, one after the other; one that fails stops no other.
Performed(e, match, actions, down) ==
  FoldLeft(LAMBDA x, action : IF Refused(x, action) THEN x ELSE Done(x, match, action, down), e, actions)

ImplicitAlert == [type |-> "alert", severity |-> "none", apt |-> TRUE, implicit |-> TRUE, channel |-> "none"]

\* Mutant: only a match that asks for nothing gets an alert.
EffectiveIfIdle(e, match) ==
  IF match.actions # <<>> THEN match.actions
  ELSE <<ImplicitAlert>>

\* A match without an alert of its own gets one, unless it is of little weight.
Effective(e, match) ==
  LET weight == IF match.severity # "none" THEN match.severity ELSE e.severity
  IN  IF (\E i \in DOMAIN match.actions : match.actions[i].type = "alert") \/ weight \in {"low", "info"}
      THEN match.actions
      ELSE <<ImplicitAlert>> \o match.actions

\* A match of an empty sequence of actions is passed over.
Applied(e, match, down) ==
  LET actions == Effective(e, match)
  IN  IF actions = <<>> THEN e
      ELSE [Performed(e, match, actions, down) EXCEPT !.summarised = TRUE]

\* The agent's own decision is one match; a web activity event without one is
\* left alone; every other event has the matches of the database.
Matches(e, matches) ==
  CASE e.resolved # "none" ->
         <<[name |-> "resolved", severity |-> e.reported, priority |-> 0,
            actions |-> <<[ImplicitAlert EXCEPT !.type = e.resolved, !.implicit = FALSE]>>]>>
    [] e.resolved = "none" /\ e.type = "web_activity" -> <<>>
    [] OTHER -> matches

\* The gravest of the severities of the matches replaces the event's own.
Settled(e, matches) ==
  LET given == {matches[i].severity : i \in DOMAIN matches} \ {"none"}
  IN  IF given = {} THEN e
      ELSE [e EXCEPT !.severity = CHOOSE s \in given : \A t \in given : Ranks[t] <= Ranks[s]]

Evaluated(e, matches, down) ==
  LET all == Matches(e, matches)
  IN  Settled(FoldLeft(LAMBDA x, match : Applied(x, match, down), e, all), all)

\* The whole pipeline; an event that lacks a field is refused.
Prepared(e, found) == Classified(Enriched(Normalised(Validated(Payload(e)))), found)
Processed(e, found, matches, down) ==
  IF e.lacks \cap Required # {} THEN e ELSE Evaluated(Prepared(e, found), matches, down)

-----------------------------------------------------------------------------
\* The decision engine: of the matches of the highest priority, the action of
\* the highest precedence, and the first match that has it.
Precedence ==
  [block |-> 100, quarantine |-> 90, encrypt |-> 80, alert |-> 50, warn |-> 40, allow |-> 10, log |-> 5]
Weight(type) == IF type \in DOMAIN Precedence THEN Precedence[type] ELSE 0

TypesOf(match) == {match.actions[i].type : i \in DOMAIN match.actions}
TopTier(matches) ==
  {i \in DOMAIN matches : \A j \in DOMAIN matches : matches[j].priority <= matches[i].priority}

Heaviest(types) == CHOOSE t \in types : \A u \in types : Weight(u) <= Weight(t)

\* Mutant: the first match of the tier decides.
BestOfFirst(matches, tier) ==
  LET types == {t \in TypesOf(matches[Min(tier)]) : Weight(t) > 0}
  IN  IF types = {} THEN "allow" ELSE Heaviest(types)

Best(matches, tier) ==
  LET types == {t \in UNION {TypesOf(matches[i]) : i \in tier} : Weight(t) > 0}
  IN  IF types = {} THEN "allow" ELSE Heaviest(types)

Winner(matches, tier, action) ==
  LET with == {i \in tier : action \in TypesOf(matches[i])}
  IN  matches[Min(IF with = {} THEN tier ELSE with)]

CacheTtl(action) == CASE action = "block" -> 60 [] action = "allow" -> 600 [] OTHER -> 300

\* A failure of the evaluator is a block with an incident, unless the server is
\* set to let pass what it cannot judge; a content that cannot be classified
\* counts as of the highest level then (LevelForDecision).
Decision(matches, failed, failClosed) ==
  CASE failed -> [action |-> IF failClosed THEN "block" ELSE "allow", incident |-> failClosed, ttl |-> 300]
    [] ~failed /\ matches = <<>> -> [action |-> "allow", incident |-> FALSE, ttl |-> 300]
    [] OTHER ->
         LET tier == TopTier(matches)
             action == Best(matches, tier)
         IN  [action |-> action, ttl |-> CacheTtl(action),
              incident |-> action \in {"block", "quarantine"}
                             \/ Winner(matches, tier, action).severity \in {"high", "critical"}]

LevelForDecision(content, found, failClosed) ==
  CASE content = "none" -> "Public"
    [] content # "none" /\ found.engine = "works" -> found.level
    [] OTHER -> IF failClosed THEN "Restricted" ELSE "Public"

-----------------------------------------------------------------------------
\* Every match of some weight leaves an alert in each database that is up,
\* whatever its policy asks for and whatever of that fails.
EveryMatchIsAlerted(e, found, matches, down) ==
  LET final == Processed(e, found, matches, down)
      read  == Prepared(e, found)
      all   == Matches(read, matches)
  IN  e.lacks = {} => \A i \in DOMAIN all :
        (Ranks[IF all[i].severity # "none" THEN all[i].severity ELSE read.severity] >= Ranks["medium"])
          => \E a \in final.alerts : a.policy = all[i].name /\ {"postgres", "mongo"} \ down \subseteq a.stored

\* However the others and their actions fail, the order of the matches changes
\* neither the verdict nor the severity nor whom the alerts are about, and a block
\* that is asked for is never lost.  Whom a webhook tells does depend on it: after
\* the summary of the first match nothing is posted any more (Called).
OrderDoesNotMatter(e, found, matches, down) ==
  LET one   == Processed(e, found, matches, down)
      other == Processed(e, found, Reverse(matches), down)
  IN  /\ one.blocked = other.blocked /\ one.quarantined = other.quarantined
      /\ one.severity = other.severity /\ one.incident = other.incident
      /\ {<<a.policy, a.severity>> : a \in one.alerts} = {<<a.policy, a.severity>> : a \in other.alerts}
      /\ e.lacks = {} /\ (\E i \in DOMAIN Matches(e, matches) : "block" \in TypesOf(Matches(e, matches)[i]))
           => one.blocked

\* A text found to be of the upper levels, or that a policy wants redacted or
\* encrypted, cannot be read in the content of the event any more; its copy under
\* clipboard_content is all that is left of it, and there whenever a content came.
OnlyTheCopyIsLeft(e, found, matches, down) ==
  LET final == Processed(e, found, matches, down)
      all   == Matches(e, matches)
  IN  e.lacks = {} /\
      (\/ found.engine = "works" /\ found.hit /\ found.level \in {"Confidential", "Restricted"}
       \/ \E i \in DOMAIN all : \E j \in DOMAIN all[i].actions :
            all[i].actions[j].type \in {"redact", "encrypt"} /\ all[i].actions[j].apt)
      => final.content # "clear" /\ (e.content # "none" => final.clipboard)

\* The decision does not depend on the order of the matches, one more match of
\* the same priority never makes it milder, matches of a lower priority have no
\* say, and what it blocks is what the pipeline marks as blocked.
DecisionIsSettled(e, found, matches, down) ==
  LET decide(s)   == Decision(s, FALSE, TRUE).action
      verdict     == decide(matches)
      alone(i)    == decide(<<matches[i]>>)
      alike(i, j) == matches[i].priority = matches[j].priority
  IN  /\ verdict = decide(Reverse(matches))
      /\ \A i \in DOMAIN matches :
           (\A j \in DOMAIN matches : alike(i, j)) =>
             Weight(verdict) >= Weight(alone(i)) \/ alone(i) = "allow"
      /\ \A i \in DOMAIN matches \ TopTier(matches) : decide(RemoveAt(matches, i)) = verdict
      /\ (verdict = "block" /\ e.lacks = {} /\ e.resolved = "none" /\ e.type # "web_activity")
           => Processed(e, found, matches, down).blocked
=============================================================================
