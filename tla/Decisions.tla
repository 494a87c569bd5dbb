------------------------------ MODULE Decisions ------------------------------
(***************************************************************************)
(* The decisions that keep no state: what is stored of a policy form, what *)
(* a request, a page, a print job or a message is answered, what is done   *)
(* of the policies that match an event, which level a text is given, and   *)
(* what is reported of a change, an event or a batch.  They share nothing: *)
(* a behaviour asks one question of one kind, whatever it is, and whatever *)
(* policies, events and findings there are when it is answered.            *)
(***************************************************************************)
EXTENDS Integers, Sequences, FiniteSets

CONSTANTS
  Kinds,                 \* what is asked about
  Questions(_),          \* the questions of a kind
  EventsFor(_),          \* the events of a policy type
  InForce,               \* the sets of policies a request may meet
  Catalogue, PageFinds,  \* the domains of the web catalogue, what the classifier may say
  TypedTypes, TypedByDefault, ChatPrograms,   \* of the inspection of typed messages
  Others,                \* events that another is compared with
  Chunk                  \* events of one bulk request to ELK

VARIABLES kind, ask, answered

Answers == INSTANCE RealtimeAnswer
Views   == INSTANCE EndpointPolicies
Web     == INSTANCE WebActivity
Levels  == INSTANCE Classification
Changes == INSTANCE CloudChanges
Siems   == INSTANCE SiemRecords
Acts    == INSTANCE ActionPipeline

-----------------------------------------------------------------------------
\* A policy's severity is one of the list.
ASSUME InForceAssumption ==
  \A policies \in InForce : \A p \in policies : p.severity \in Answers!Severities

\* A config of application control has a mode, and the types that are inspected
\* by default are types the server knows.
ASSUME ControlsAssumption ==
  /\ \A q \in Questions("program") : "mode" \in DOMAIN q.case.config
  /\ TypedByDefault \subseteq TypedTypes

\* What is counted in a text is a number, and what is known of it a level.
TextFields ==
  {"empty", "rules", "fingerprint", "found", "known", "model", "numbers", "banking", "personal",
   "testValue", "testFile", "examples", "real", "fileType", "channel", "random"}
Counted(text) ==
  /\ TextFields \subseteq DOMAIN text
  /\ text.known \subseteq Levels!Levels
  /\ text.examples \in Nat /\ text.real \in Nat
  /\ text.model.entities \in Nat /\ text.model.weight \in Nat
  /\ IsFiniteSet(text.found)
  /\ \A m \in text.found :
       /\ m.rule.weight \in Nat /\ m.rule.threshold \in Nat
       /\ m.raw \in Nat /\ m.valid \in Nat /\ m.outside \in Nat
ASSUME TextsAssumption == \A q \in Questions("text") : Counted(q.text)

\* What Graph says of a change is one of the types that the poller reports.
ASSUME ChangesAssumption == \A q \in Questions("change") : q.item \in Changes!Items

\* A batch is a sequence of events, which breaks off after some of them.
ASSUME BatchesAssumption ==
  /\ Chunk \in Nat \ {0}
  /\ \A q \in Questions("batch") :
       q.events \in Seq({q.events[i] : i \in DOMAIN q.events}) /\ q.cut \in Nat

\* What matches an event is a sequence of policies' actions.
ASSUME MatchesAssumption ==
  \A q \in Questions("matches") :
    q.event \in Acts!Events /\ q.found \in Acts!Findings /\ q.matches \in Seq(Acts!PolicyMatches)

\* The words of the pipeline are strings, which the provers do not know of a word.
ASSUME WordsAssumption == {"alert", "contains", "none", "resolved"} \subseteq STRING

-----------------------------------------------------------------------------
DecisionsInit ==
  kind \in Kinds /\ ask = [unasked |-> TRUE] /\ answered = FALSE

Answer ==
  /\ ~answered /\ answered' = TRUE
  /\ ask' \in Questions(kind)
  /\ UNCHANGED kind

DecisionsSpec == DecisionsInit /\ [][Answer]_<<kind, ask, answered>>

On(k) == answered /\ kind = k

-----------------------------------------------------------------------------
\* What is stored of a policy form matches exactly the events the form
\* describes, a policy whose endpoint decides only alerts, and an exception of a
\* share policy never lets anything else escape (policy_transformer.py,
\* database_policy_evaluator.py).  A control that the endpoint enforces by itself
\* does what its form says: nothing it does not ask for, nothing to what it
\* excepts, and what it asks for whatever else it says (agents.py, agent.cpp).
\* Every cell of the web activity matrix decides about something the extension
\* sends, and a match of the policy's own pattern never makes it milder
\* (evaluate_web_activity).
PoliciesMeanTheForm ==
  /\ On("form") => \A event \in EventsFor(ask.form.type) :
       Answers!RulesMeanTheForm(ask.form, event) /\ Answers!ReportersOnlyAlert(ask.form, event)
  /\ On("share") =>
       Views!ShareActsOnRequest(ask.case.config, ask.case.denylist, ask.case.file, ask.case.verdict)
  /\ On("program") => Views!ModesAreOpposite(ask.case.config, ask.case.act)
  /\ On("printer") => Views!DenialIsFinal(ask.case.config, ask.case.rows, ask.case.printer)
  /\ On("radio") => Views!ShutOnRequest(ask.policies)
  /\ On("chat") =>
       Views!UntickedMeansOff(ask.case.config, TypedTypes, TypedByDefault, ChatPrograms, ask.case.act)
  /\ On("page") => \A category \in Web!ClassifyHost(ask.host, Catalogue), found \in PageFinds :
       Web!MatrixDecides(category, ask.activity, ask.matrix, found)

\* One more policy or one more finding never makes the answer to the same
\* request milder, and a policy that enforces on what the content is enforces
\* (evaluate_policy_realtime); the same of the printing that several policies
\* inspect (get_printer_policy).  What is known of a text is a floor of its level,
\* so is what its rules are sure of, and one more find never lowers it; a false
\* alarm is harmless (classification_engine.py).
MoreNeverMilder ==
  /\ On("request") => \A policies \in InForce :
       /\ Answers!MoreNeverMilder(policies, ask.request, ask.level, ask.hits)
       /\ Answers!PolicyDecides(policies, ask.request, ask.level, ask.hits)
  /\ On("content") => Views!PoliciesCompose(ask.case.policies, ask.case.more, ask.case.job)
  /\ On("text") => /\ Levels!KnownIsFloor(ask.text) /\ Levels!StrongRulesStand(ask.text)
                   /\ Levels!FalseAlarmIsHarmless(ask.text) /\ Levels!MoreFindsNeverMilder(ask.text)

\* A OneDrive file that changed is reported as what happened to it, and what is
\* reported is remembered, so that the next change is told apart
\* (onedrive_polling.py).  The records that SIEMs are sent of an event agree, and
\* what is reported of a batch is in the SIEM (syslog_connector.py,
\* elk_connector.py, splunk_connector.py).
ReportsAreTrue ==
  /\ On("change") => /\ Changes!EditIsModification(ask.item) /\ Changes!DeletionIsReported(ask.item)
                     /\ Changes!ReportedIsRemembered(ask.item)
  /\ On("report") => \A other \in Others : Siems!RecordsAgree(ask.event, other)
  /\ On("batch") => Siems!BatchTellsTruth(ask.type, ask.events, ask.cut)

\* Every match of some weight is alerted, whatever the order of the matches and
\* whichever action or service fails; the order changes neither verdict nor
\* severity; the content is hidden on request, but for its copy
\* (event_processor.py, action_executor.py); and the single decision agrees
\* (decision_engine.py).  Webhooks are not promised: only the first match is told.
MatchesAreAlerted ==
  On("matches") =>
    /\ Acts!EveryMatchIsAlerted(ask.event, ask.found, ask.matches, ask.down)
    /\ Acts!OrderDoesNotMatter(ask.event, ask.found, ask.matches, ask.down)
    /\ Acts!OnlyTheCopyIsLeft(ask.event, ask.found, ask.matches, ask.down)
    /\ Acts!DecisionIsSettled(ask.event, ask.found, ask.matches, ask.down)
=============================================================================
