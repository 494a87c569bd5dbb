# Seceoknight DLP: a TLA+ model and its proofs

Seceoknight DLP is a data-loss-prevention product: agents on Windows and Linux
endpoints watch files, devices, printers and network uploads, a browser
extension and a mail relay ask before something leaves, a FastAPI server (four
uvicorn worker processes over PostgreSQL, MongoDB and Redis) holds the policies,
judges content and keeps the events, and Celery tasks poll cloud drives and
clean up. This directory models the paths on which that product stands or
falls. TLC checks small instances, TLAPS proves the safety properties of every
module with state for all of them.

Paths are relative to the root of the repository; `events.py` is
`server/app/api/v1/events.py`, and likewise for the other files of that
directory; `agent.cpp` is `agents/endpoint/windows/agent.cpp`. `PROJECT.json`
gives the source lines of every definition.

## 1. The modules

| Module | What it is |
|---|---|
| `PolicyDistribution` (+ `_proofs`) | policies table, worker generations, evaluator caches, Redis bundles, agent syncs |
| `PolicyRules` | the form of a policy, the conditions it is stored as, and their evaluation |
| `EventDelivery` | what the Windows agent promises of its events, abstractly |
| `EventSpool` (+ `_proofs`) | how it keeps the promise: threads, spool file, replay, crashes; refines `EventDelivery` |
| `EventProcessing` (+ `_proofs`) | create_event, background tasks, auto-incidents, mirror, triage |
| `ActionPipeline` | one event from validation to the last action of its matches |
| `AgentRegistry` (+ `_proofs`) | register, heartbeat, codes and keys, removal and stale cleanup |
| `QuarantineVault` | uploads, events, downloads, the nightly cleanup, deletion of events |
| `CloudPolling`, `CloudChanges` | runs of the cloud pollers; what a OneDrive change is taken for |
| `SsoAccounts`, `Sessions` | single sign-on and accounts; login limit, second factor, tokens |
| `DeviceControl`, `UsbTriage` | the enforcement switch; seen, approved and dismissed sticks |
| `RuleCatalogue` | classification rules and each worker's copy of them |
| `Forwarding`, `SiemRecords` | SIEM connectors over workers, rows and outages; what a SIEM is told |
| `Extraction`, `Classification`, `DataMatching` | what text a file yields, how it is judged, what registered data is found in it |
| `RealtimeAnswer`, `WebActivity`, `EndpointPolicies` | the answer to an agent that asks; the web activity matrix; the policies an endpoint enforces by itself |
| `Desk` | what a viewer is shown of alerts and incidents |
| `Decisions` (+ `_proofs`) | the questions that keep no state, one at a time: policies and forms, answers, levels, actions, reports |
| `LinuxAgent`, `LinuxFiles`, `LinuxUsb`, `LinuxPrint` | the Linux agent: bundle and observers, file events, disks, print jobs |
| `UsbEnforcement` | the Windows agent's hold on USB storage |
| `MailRelay` | one message in the SMTP relay |
| `Server` (+ `ServerParts_proofs`, `Server_proofs`) | registry, vault, cloud, accounts, sign-in, rules, switches and sticks side by side: one part per behaviour |
| `Endpoint` (+ `_proofs`) | the Linux agent, USB storage, the relay and the SIEMs side by side: one part per behaviour |

The instances:

| Module | Runs what |
|---|---|
| `MCDistribution` | two instances of `PolicyDistribution` in one |
| `MCEventProcessing` | its module |
| `MCServer` | `Server` |
| `MCEndpoint` | `Endpoint` and `Decisions`: each question of a small domain once |
| `MCProgress` | liveness and the refinement, one part per behaviour |

The runs `spool`, `spool_merge`, `spool_blocked`, `heartbeats` and `allowlist` run the
modules of the code as they are.

`Server`, `Endpoint` and `MCProgress` hold modules that share no variable
and no step. A behaviour picks one of them (`part`) and runs it while the others stay as
they begin, so that the states of the run are the sum of the parts and not their product.
Nothing is lost: the parts do not read one another. Where two components do
interact, they are in one module (upload, event and cleanup in
`QuarantineVault`; the two controls of USB storage in `UsbEnforcement`; page,
approvals and reports in `UsbTriage`).

The modules meet at values. What the spool puts into `stored` is what
`EventProcessing!Submit` takes (once per event id, because of the upsert). What
`Classification` calls a level and `DataMatching` a hit are fields of a request
in `RealtimeAnswer` and of an event in `ActionPipeline`. `MailRelay` takes the
results of `Extraction` and the answers of `RealtimeAnswer` as data.

Conventions: an action is what runs between two awaits (server) or between two
points at which another thread may act (agent). Variables called history are
read by no guard and exist for a property to name the past. A definition whose
comment says *mutant*, and one that stands before the definition it varies, is a
plausible bug; no specification uses it, and `PROJECT.json` says which property
it breaks when it stands in for that definition.

## 2. Policy distribution

**Code.** A mutation handler loads the policy, commits, calls
`bump_policy_cache()` (`server/app/policies/cache_control.py`) and has the
bundle keys deleted (`delete_prefix` in `server/app/core/cache.py`: SCAN, then
one DEL per key). `DatabasePolicyEvaluator` keeps the enabled policies of its
worker while they are young and the generation it captured is current. An
agent's sync (`agents.py:1012` ff.) is answered from a Redis key per agent,
platform and capabilities, or from a bundle built from a fresh read, which is
then cached for 30 seconds.

**State.** `table` (a row's content is `rev`, the stamp of its last UPDATE, as
the bundle version hashes `updated_at`), `generation` and `cached` per worker,
`bundles` per agent, the requests in flight (`admin`, `eval`, `sync`) and
`installed` per agent.

**Actions.** `AdminLoad, AdminCommit, AdminBump, FlushBegin, FlushKey,
FlushEnd` are one mutation (`AdminRefresh` the manual refresh); the ORM's
habit of writing only the changed columns is in `Written`, because it decides
what two concurrent mutations leave behind. `EvalHit/Miss/Load/Store/Fail` are
a call of `_get_cached_policies`, `SyncBegin/Hit/Miss/Load/Store/Reply` a
sync. Faults: `AdminAbort`, `SyncStoreFail`, `SyncGiveUp` (the agent's HTTP
timeout, the handler runs on), `WorkerRestart`. `Tick` ages the caches.

**Properties.**

- `EvalSeesOwnWrites`: no evaluation uses policies older than the last bump of
  its own worker before it began. A slow load that began before the bump and
  ends after it is the interesting case.
- `DeleteIsFinal`: a request that loaded a row before it was soft-deleted may
  write it, but no reader of the enabled policies sees it again.
- `StaleOnlyByOverlap`: a sync begun after a completed flush can be answered
  with an older bundle only if a sync that had read the table before that
  flush had not yet stored its bundle.
- `BundleIsForAgent`: an agent enforces nothing outside its scope or platform.
- `AgentsConverge` (liveness): when changes and faults are over, every agent
  comes to enforce the bundle of the final table.

**Disagreement with the text.** `PullsFreshBundle` (run `bundles_doc`): the
docstring of the refresh endpoint promises a *fresh bundle on their next sync*;
the race of `StaleOnlyByOverlap` breaks it for up to 30 seconds. The comment of
`bump_policy_cache` also promises that *evaluators refresh on next call*; those
of the other three workers do not, they wait for their TTL.

**Bounds.** The run `distribution` has two instances in one. Evaluations: two
workers, two admins, three commits (create, delete, and one request that raced
the deletion), and one evaluator slot beside the first two commits and after the
third; the theorems of section 9 are for any number of both. Synchronisations: two
agents, of which only one supports the policy, one sync each, one commit, one
fault, a key that lives one tick. Evaluators and bundles share only `table` and
`commits`, which is why separate instances lose nothing. For `AgentsConverge` (run `progress`): one
agent whose abandoned call and next call overlap, one commit, one fault.

**Fairness** (`FairSpec`). Time passes (`Tick`); a request that began runs on,
since the event loop resumes every coroutine; the agent's sync loop comes
round again. Nothing obliges an admin to act or a fault to happen, and
`MaxFaults` bounds only how many may.

## 3. The spool of the Windows agent

**Code.** `SendEvent` (`agent.cpp:10760` ff.) discards the event when no
policy asks for events, else POSTs it, and calls `SpoolEvent` when that fails.
`FlushSpooledEvents`, after a successful heartbeat, replays up to 100 lines
and removes or rewrites the file. `spoolMutex` covers an append and a whole
flush, not the POST of a monitor thread.

**State.** The threads, the file as a sequence of lines (`spool`, and `open`
when the last line lacks its line break), the flush, `late` (requests the
agent took for failed that may still arrive), `stored` (the server's
collection) and the history `fate`, which records the cause when the agent no
longer has an event.

**Actions.** `SendEvent, PostOk, PostFailed, SpoolEvent, SpoolFull,
SpoolUnwritable` for a thread; `FlushBegin, FlushPostOk, FlushPostFailed,
FlushStop, FlushEnd, FlushUnwritable, FlushShort` for the heartbeat thread;
`Down, Up, LateArrives, LateVanishes, ApplyPolicies, Crash, CrashInAppend,
CrashInRewrite` for the world. A POST is one step with all outcomes because
`requestMutex` serialises requests and the agent changes nothing while one is
under way.

**Properties.**

- `NothingVanishes`: an accepted event is stored, in a thread's hands, on a
  line of the file, or was given up for a cause the code names.
- `EventsDelivered`: the spool implements `EventDelivery` - a stored event
  stays stored, a lost one may still arrive, and every event is settled in the
  end - when a crash leaves whole lines.

**Disagreements with the text.** `CorruptLineNeverMerges`: a comment says a
*corrupt line can never merge with its neighbors*, but the append does not
look whether the file ends with a line break, so a line torn by a crash
swallows the event appended next. `FlushedAfterReconnect`: the replay stops at
the first line that is not answered 200 or 201, so a line the server will
always refuse blocks all that is behind it for as long as the file exists.

**Bounds.** `Spool`: two threads, five events, a file of three lines, batches
of two, three faults, torn writes - so that a flush meets a full file, a
partial batch, a torn line and a crash in one behaviour. In `progress`: two
events, one line, batches of one, two faults, `TornWrites` off, because with
torn lines the previous finding refutes the liveness. Symmetry over events
and threads is used for the safety runs only.

**Fairness.** Outages end (`Up`), threads and the heartbeat loop run on.
`SpoolEvent` and `SpoolFull` get strong fairness: a thread waits for
`spoolMutex`, which is free again and again because the heartbeat thread
sleeps between two flushes.

## 4. Events and incidents on the server

**Code.** `create_event` upserts the raw event and queues
`_process_event_background`, which tries up to `MAX_RETRIES` times to classify
and evaluate it (alerts included), to store the verdict, to fold it into an
incident (`_auto_create_incident`) and to mirror it to PostgreSQL. An analyst
may close or reopen an incident at any time.

**State.** `docs`, `incidents` (by the event each was created for), `alerts`,
`mirrored`; per task its place `pc`, its `attempt`, the policy entries it has
gathered (`matches`) and what it has read (`votes`, `since`, `found`). History:
`swallowed`, `overlap` (who wrote between a task's find and its write),
`touched`.

**Actions.** `Submit, Evaluate, Save, GiveUp, Dedupe, Count, FindOpen,
Coalesce, Create, AbandonFolding, Mirror` follow the handler's awaits, each
with the errors its `try` swallows or raises there; `Triage`, `Crash`, `Tick`
are the environment. Values `Coalesce` writes come from the document as
`FindOpen` read it, not as it is.

**Properties.**

- `OneIncidentPerEvent`: no retry or interleaving counts an event into two
  incidents, or into one of another user.
- `SplitOnlyByRace`: two incidents of one user within the hour are the work of
  two tasks that passed each other between find and insert, or of an analyst.
- `SlipsOnlyByRace`: severity and count of an incident go down only when an
  event is folded in from a snapshot another write has overtaken.
- `ReportedUnlessSwallowed`: a task that ended without crash or swallowed
  error did all it owes - verdict, alert, incident, mirror - or its event is
  marked failed.
- `EventsSettle` (liveness): no accepted event stays pending, unless its
  worker died or the very last write was lost.

The two `...OnlyByRace` properties bound real defects: the lookup at
`events.py:858` and the writes at 879 and 926 are separate calls, so a burst
can be split, and the values computed at 868 can undo what another task wrote.
The properties say that nothing else does. Another oddity the model keeps: the
retry works on the payload of the failed attempt, so a policy that matched is
listed once per attempt (`event_processor.py:677`), and whoever counts the list
counts it twice; `ReportedUnlessSwallowed` says between one and the number of
attempts for that reason.

**Disagreement with the text.** The docstring of `_auto_create_incident`
(`events.py:780`) lists *repeated violations from same user* among the triggers,
but the function returns before it counts when no other trigger selects the
event.

**Bounds.** `Incidents`: a burst of three events of one user, one of them a
failed block, two ticks with a window of one (so the hour runs out), one
patch by an analyst, no errors. `Processing`: two users, an event no rule
selects, two attempts, four errors and a crash. Errors and timing are in
separate runs because errors never touch the incident values and time never
touches the retries.

**Fairness.** Weak fairness of each task's `Run`: the event loop resumes it.
A crash needs no fairness, and none is assumed of errors.

## 5. What the server keeps

All of these run in `server`, as parts of `Server`; `FilesExpire` and
`ChangesReported` in `progress`.

**Agent registry** (`AgentRegistry`; `agents.py`). State: the documents of the
agents collection, the code sequence of PostgreSQL, the keys issued, what each
endpoint knows of itself. `Register` is the handler with its lookup, its
insertion or update, the backfill of a missing code and the answer; `Heartbeat`,
unregister, decommission, delete, listing and the two steps of the stale cleanup
are the others. `CodeIsForever`: a code is never changed nor shared, whoever
fills in missing ones meanwhile. `MachinesKeepOneDocument`: one document per
name, the key an agent holds opens it, and only an administrator hides an agent
that registers - but for registrations that pass each other between `find_one`
and `insert_one` (there is no unique index), which the property names. The stale
cleanup is a removal like the administrator's others (`removed`): an agent that comes
back with a heartbeat alone stays hidden, and is shown by its next registration. Bounds:
two machines of one name, a reinstallation, an outage, a document from before
codes and keys.

**Quarantine vault** (`QuarantineVault`; `events.py`,
`tasks/quarantine_cleanup_tasks.py`). The upload looks for the event before it
stores the blob, the event looks for the blob before it is inserted, the nightly
cleanup deletes a blob and then unlinks it, and events are deleted by age and by
an administrator. `LinksMatchFiles`: a kept file is linked to its event and no
link is dead, except for the two interleavings in which they look past each
other and a cleaner that dies, both named. The comments at `events.py:425-444`
and 1583-1594 say that both orders are reconciled: in sequence they are.
`FilesExpire` under fairness of the cleanup and of ageing.

**Cloud polling** (`CloudPolling`, `CloudChanges`). A run opens an account,
fetches the changes of each protected folder since its position, looks up,
inserts, and commits all positions at the end; any error ends the whole run.
`ChangesAreNoticed`: no change after the baseline is skipped however runs
overlap, except where a run in flight overwrites a reset. `ChangesReported`: it
is reported in the end unless its account's token, or one of an account read
before it, is refused for ever - an exception of one connection ends the loop
over all of them (`google_drive_polling.py:65`). Fairness: the scheduler starts
runs, a run goes on, accounts become due again. `CloudChanges` is the decision of the
OneDrive poller on one item.

**Accounts** (`SsoAccounts`, `Sessions`; `auth.py`, `users.py`). An exchange
reads an account once and works on that copy across awaits, beside other
exchanges and an administrator; a session's requests read the account when they
begin and write the columns they change. `PeopleKeepTheirAccounts`: a person is
let into one account whatever addresses they have had, a role given by hand
stays, the second factor that is asked for is one the person has shown, and the
counter of failed logins runs out. Each exception (a role given while an
exchange had the row, overlapping requests about the factor, an `expire` that Redis lost
after its `incr`) is a history variable. Bounds: one person of two addresses
with two logins at a time; one person in two tabs, with a limit of one failure
and two secrets.

**Classification rules** (`RuleCatalogue`; `rules.py`, `rule_service.py`,
`classification_engine.py`). Every worker keeps the enabled rules for a minute;
a test of chosen rules puts them in the place of that copy, with a life of 30
seconds, across the awaits of its own classification. `RulesAreInForce`: a
minute after an edit no live copy has a rule that is not enabled, nothing is
left out unless two tests overlapped on the worker, and a test that nothing
disturbed was judged by the rules it chose. `Tick` assumes that no query takes
longer than a tick. Bounds: one worker (workers share no memory, only rows), two
calls that overlap, two seeded rules and room for a third, one edit, one
clearing, a minute of two ticks.

**Device pages** (`DeviceControl`, `UsbTriage`; `usb_devices.py`,
`printers.py`). `DevicePagesAreRight`: however two switches and the Policies tab
interleave, the switch works on one row; the page is wrong about a stick only
while the report of its last move is under way, was lost or was overtaken; and an
approval or a denial takes back a dismissal that was there before it, with two exceptions
that the history `lapsed` names: a request that ends between the commit of the decision
and the removal of the dismissal (`cut_short`), and a PATCH, which changes the decision
and removes nothing (`in_place`). Section 11 quotes the texts that say otherwise.

**SIEM** (`Forwarding`; `siem.py`, `integrations/siem/`; run `endpoint`). The
registry of connectors is memory of one worker, the rows are shared, and a
request awaits the SIEM and the database. `SiemsAreFed`: what is stored is what
the last request asked for, a connector is passed over only if the SIEM was away
when it was registered or its worker started, a stream that broke is opened
again, and (`SiemRecords`, under `ReportsAreTrue`) both records of an event tell
the same and no batch is reported to hold more than the SIEM holds. "The last
request" has a meaning only for requests that came one after the other: `mixed`
is set when two overlap, when a worker dies under one, and when a row could not be written.
The run has a UDP, a TCP and an ELK connector; the theorem is of any set of types, Splunk's
(which connects without calling anybody) included.

## 6. What runs elsewhere

These run in `endpoint`, as parts of `Endpoint`; `BundlesArrive` and `MailIsSettled` in `progress`,
under fairness of the agent's loop, of the end of an outage, of the relay's
session and of the sending server, which tries again after a temporary refusal.

**Linux agent** (`agents/endpoint/linux/`). `LinuxAgent`: start, sync, the
observers of file policies and transfer destinations, and the bundle cache;
`BundleIsKept` says that the observers between two syncs are those of the bundle
and that a restart without the server keeps it. It speaks of directories that have
been there since the observers were started (`kept`): one that is removed and
made again keeps its place in the agent's set while its observer is gone, and
`_reconcile_monitors` (`agent.py:788`) starts a new one only when the set of paths changes. `LinuxFiles`: two observers see
one file, each with a thread, and share the table of recent events. The history
`fate` is what last became of an event of the content on the disk. Once the observers
are idle, the server knows the content, or the file is above the size limit, or the one
post was lost (`send_event` tries nothing again, and the table has the event already),
or the handler passed over the event or failed on it, or it repeated one of the last
seconds; nothing else loses it, and a creation is posted once. So the property is
about the races between two observers, the user and the agent's own action, not about
delivery. It is checked with an action that takes files away and with one that does not,
as the actions of a policy differ in nothing else here. Bounds: two observers, two
operations of the user, two ticks.
`LinuxUsb` and `LinuxPrint`: a removal names only a device node, which may have
been used again, and a poll of the print queue may fail; `PeripheralsToldApart`.

**Windows agent: USB storage** (`UsbEnforcement`; `agent.cpp`). The sync
installs a bundle and an allowlist one after the other while an arrival reads
both; a block is a registry value that outlives the agent.
The write of that value may be denied: `elevated` says whether the process has the
rights, `boot` that the boot task, which always has them, is still to run. An agent
that is not elevated opens nothing, and takes it for opened, because no caller looks at
the result. `BlockedForAReason` says of an elevated agent that storage is shut off only
while one of the two controls asks for it, unless an arrival decided before the change,
or while the list was half replaced, or the boot task ran after the start (`raced`). Of
one that is not elevated, which is how the installer starts it, it says
nothing: what the boot task shut stays shut (section 11). Bounds: one stick that arrives
once, two changes on the server, one fault or restart. Run `allowlist` shows
`AllowlistIsWatched` violated: the monitor does not open its window until a
monitoring policy exists, so an allowlist by itself is not watched.

**Heartbeats.** Run `heartbeats` shows `HeartbeatsRecover` violated: the client
that replaces the heartbeat's after three failures is not given the key.

**Mail relay** (`MailRelay`; `smtp-relay/app/handler.py`). A message, part by
part: whole, partial or unread, asked about once or twice, refused, forwarded and
recorded, with failures of the server and the next hop, under five
settings: the four of `BLOCK_ON_DLP_ERROR` and `BLOCK_UNEXTRACTABLE`, and `SCAN_BODY` off.
`DeliveredWasInspected` is about the parts that `_collect_parts` collects; the rest of a
message leaves without a question, and `Overlooked` names it: a part without a filename
that is neither plain text nor HTML, a body when bodies are not scanned, and everything
in a message that cannot be parsed. `MailIsSettled`. Bounds: two parts (every combination
of the sections the code tells apart), two faults.

## 7. Decisions

Modules of operators without state. `Decisions` asks their questions: a behaviour
asks one question of one kind (`Answer`), whatever it is, and the properties compare
the answer with a reference definition or with the answer to another question.
Which questions there are is a parameter; `MCEndpoint` gives the small domains
below. Two properties are stated in `MCEndpoint` itself, because the modules they
are about are computed by recursive operators.

| Module | Domain | Property |
|---|---|---|
| `PolicyRules` | every form of every policy type over two values per field, every event that has some of the fields | `PoliciesMeanTheForm`: the stored conditions match exactly what the form describes; who only reports only alerts |
| `EndpointPolicies` | shares, programs, printers, print contents, radios, chats | `PoliciesMeanTheForm`: nothing is done that was not asked for, nor to what is excepted; `MoreNeverMilder` for several print policies |
| `WebActivity` | hosts, activities, matrices of two cells | `PoliciesMeanTheForm`: a page is answered as its cell says, and a custom pattern never milder |
| | three spans in five letters | `ContentIsJudged`: the placeholders of a redacted text are apart, and what stays readable of a span is only the end of one that began inside a placeholder |
| `RealtimeAnswer` | requests with and without readable content, two of seven policies, findings | `MoreNeverMilder`: one more policy or finding never makes the answer milder; a policy on a level enforces on it |
| `Classification` | two of ten finds, the model, context, channel, known levels | `MoreNeverMilder`: what is known is a floor, strong rules stand, a false alarm is harmless, one more find never lowers a level |
| `Extraction` | documents, archives of two members, archives of archives, budgets of a few | `ContentIsJudged`: of a text not marked as partial every document was read to the end but for those that the code leaves out without a mark (locked or damaged members, unreadable or too large ones, archives below the depth limit, pages beyond the first), within one budget for the tree |
| `DataMatching` | tables of two records in every writing, documents of five words | `ContentIsJudged`: a record or passage is found however it is written, and rows are not mixed |
| `ActionPipeline` | events, findings, two of eight matches in either order, failing services | `MatchesAreAlerted`: every match of weight is alerted, the order does not matter to the verdict, redacted content is readable only in its copy `clipboard_content`, the single decision agrees; who is told by a webhook is not promised |
| `CloudChanges` | every item | `ReportsAreTrue`: a change is reported as what happened, and remembered |
| `SiemRecords` | events with few fields and odd ones, batches of three cut anywhere | `ReportsAreTrue`: the records of an event agree, a batch is not reported to hold more than the SIEM does |
| `Desk` | viewers of every role, grant, department and clearance, two alerts, two events, incidents of both stores | `ViewersAreShownTheirs`: lists, counts, tiles and single views agree, and show what the viewer's department, clearance and domains allow, but for the events shown with an incident, which nothing narrows; an incident without an event is shown and counted only for who sees all departments |

That one more find never lowers a level has an exception, which the proof brought to
light. The bonus of weak signals is taken off once the weights of the rules reach
8000 of 10000, so a second find can lower the sum: an IFSC code of weight 1500 has a
bonus of 7000, together 8500, and with a find of 6500 the sum is 8000. Both are
Restricted; but of a false alarm three tenths are left, in a CSV times 1.2, and the
text comes down from Internal to Public. `MoreFindsNeverMilder` therefore speaks of
false alarms only while model and context are off.

Weights and thresholds of `Classification` are the code's numbers in ten
thousandths. The domains are small because the code tells few values of a field
apart: a level, a path inside or outside, a value that is picked, another one,
or none.

## 8. The runs

| Run | Checks | Outcome |
|---|---|---|
| `distribution` | `TypeOK`, `EvalSeesOwnWrites`, `StaleOnlyByOverlap`, `BundleIsForAgent`, `DeleteIsFinal` | hold |
| `bundles_doc` | `PullsFreshBundle` | violated, section 2 |
| `spool` | `TypeOK`, `NothingVanishes` | hold |
| `spool_merge` | `CorruptLineNeverMerges` | violated, section 3 |
| `spool_blocked` | `FlushedAfterReconnect` | violated, section 3 |
| `incidents` | `OneIncidentPerEvent`, `SplitOnlyByRace`, `SlipsOnlyByRace` | hold |
| `processing` | `TypeOK`, `ReportedUnlessSwallowed`, `EventsSettle` | hold |
| `server` | `TypesOK` and the properties of section 5 | hold |
| `endpoint` | `TypesOK` and the properties of sections 6 and 7 | hold |
| `progress` | `AgentsConverge`, `EventsDelivered`, `FilesExpire`, `ChangesReported`, `BundlesArrive`, `MailIsSettled` | hold |
| `heartbeats` | `HeartbeatsRecover` | violated, section 6 |
| `allowlist` | `AllowlistIsWatched` | violated, section 6 |

Runs that check deadlock off do so because the program may really stop: every
event is handled and nobody submits another, every question is answered, every
bound on what administrators and users do is used up. A property of `progress`
has the fairness of its part as a premise, because the parts of one behaviour
cannot all be fair: only one of them runs.

## 9. The theorems

The theorems about states are of the specification a run checks (`Spec`,
`ServerSpec`, `EndpointSpec`, `DecisionsSpec`), for every value of the constants that
satisfies the named assumptions of the modules; those about single decisions (the last
table) are of every argument. These say no more than what the constants are: functions of
the right type, limits that are numbers, placeholders that are not data. Some say a little
more, and why:

- Finiteness is assumed of what the code counts: `EventProcessing`'s `Events`
  (tasks count documents), the registry's `Legacy` (the documents are listed),
  `Tabs` (`SignInAssumption`: the bound of the failure counter).
- `AccountsAssumption`: the provider gives no address to two people.
- `RulesAssumption`: a test's copy lives less long than a loaded one (30 seconds
  and 60 in the code), and the rules of the seed fit under the bound.
- `ControlAssumption`: some priority is the highest.
- `FilesAssumption`: somebody watches the file. `SiemAssumption`: 0 is no worker
  and "none" no type of connector, as they stand for nobody and nothing.
- `RelayAssumption` types the parts of a message, as many as there are.
- The assumptions of `Decisions` say of the questions what the code can be asked: a
  policy's severity is one of the list (`InForceAssumption`), what is counted in a text is
  a number and what is known of it a level (`TextsAssumption`), an item has one of the types
  Graph has (`ChangesAssumption`), a batch is a sequence (`BatchesAssumption`), and an
  event, a finding and matches have the fields the code gives them (`MatchesAssumption`).
  `WordsAssumption` says of four words of the pipeline that they are strings, which is so
  in TLA+ and which no prover knows.

The core:

| Theorem | Inductive argument |
|---|---|
| `PolicyDistribution_proofs!TypeCorrect` | `TypeOK` with: a request about to commit names the policy it loaded |
| `...!OwnWritesSeen` | `EvalInv`: whatever carries a worker's current generation, in the cache or in a load under way, was read after that worker's last bump |
| `...!StaleOnlyByOverlapHolds` | `FlushInv`: every bundle in Redis or in a request is at least as recent as the last complete flush, or is still on the list of keys of a flush under way, or is marked as raced |
| `...!BundleIsForAgentHolds` | `AllFit`: every bundle in Redis, on its way and installed is its own `BundleFor` the agent |
| `...!DeleteIsFinalHolds` | `LoadedAlive`: a deleted row was created, and who is about to commit has loaded a row that was not deleted, so its write keeps a deletion it did not see |
| `EventSpool_proofs!TypeCorrect`, `NothingVanishesHolds` | `IInv`: a busy thread holds an event, the lines a flush has passed are stored, and only a line can be unfinished |
| `...!SpoolImplementsDelivery` | the safety part of the refinement: each step maps to a step of `EventDelivery` or to a stutter, given that what is under way was once accepted |
| `EventProcessing_proofs!TypeCorrect`, `OneIncidentPerEventHolds` | `Placed`: a task that wrote an incident is past writing, so an event is placed once |
| `...!SplitOnlyByRaceHolds` | `Missed`: an incident a creating task did not find is closed, too old, or was written after its find; `Dated` keeps the clock behind it |
| `...!SlipsOnlyByRaceHolds` | `Snapped`: a snapshot is current unless an event was folded in since |
| `...!ReportedUnlessSwallowedHolds` | `Paid`: what a task has done by each place it can be at; a match is counted once per attempt, a verdict is stored before the folding, and an incident keeps what it holds |
| `AgentRegistry_proofs!TypeCorrect` | `TInv`: a registration carries a document, a code and a key that exist or are its own |
| `...!OneDocumentHolds` | `Alone`: whoever is about to insert found nothing, and without a race no namesake has looked since; `OneDocumentPerName`, `Named` and `Held` tie a name to its one document and a registration to the key of that document |
| `...!CodeIsForeverHolds` | `Drawn`: a code that is drawn and not yet written is nobody else's; `Shown`: a document that is hidden and was not removed is about to be shown by a registration that saw it hidden |

The parts of the server. Each has an invariant shown from its module's `Init` and
`Next` alone; `ServerSpec => X!Spec` (a step of another part leaves its variables
alone, so it is a stutter) carries it to the composition.

| Theorem | Inductive argument |
|---|---|
| `ServerParts_proofs!LinksMatchFilesHolds` | `VaultInv`. A file is there only after its upload stored it (`StoredByUpload`); an event whose file is in place is linked, or counted as missed (`LinkedOrMissed`); the cleaner works only on old files (`CleansOldFiles`) |
| `...!DevicePagesAreRightHolds` | `ControlInv`: of the live rows one has the reserved name (`NameIsUnique`). `TriageInv`: the last move of a stick that is not astray is known or its report is on its way (`LastMoveIsReported`); a dismissal that stands beside a later decision has its removal ahead or a reason in `lapsed` (`DecisionEndsDismissal` itself, which is inductive with the types) |
| `...!PeopleKeepTheirAccountsHolds` | `AccountsInv` says what a reading is still good for when it is acted on: the row is the person's or may be claimed (`LoginKnows`), addresses belong to one person (`IdentitiesApart`), a role an admin has set stays in the login's hands (`LoginHolds`, `Detached`). `SignInInv`: a request about a factor begins only from what it read (`RequestsWereAllowed`) |
| `Server_proofs!ChangesAreNoticedHolds` | `CloudInv`: what lies behind the position a run will write has its event (`RunCovers`), a position is one of the service's (`PlacesRight`). A change that a run skipped would be the earliest of those skipped, which the well-founded order of positions excludes |
| `...!RulesAreInForceHolds` | `RulesInv`: every copy, also one on its way, is current or expires within a lifetime of the last edit (`CopiesSound`, which follows a test from the writing of its selection to its answer), and none is a selection unless a test runs (`CopiesWhole`) |
| `...!TypesHold` | the conjunction of the types, the registry's from its own theorem |

The parts at the edges, in the same way:

| Theorem | Inductive argument |
|---|---|
| `Endpoint_proofs!BundleIsKeptHolds` | `LinuxInv`: the bundle being applied is a bundle (`LinuxAtWork`), the set of observers names the paths of the newest bundle but for those that have been away (`FollowsBundle`), who has been there since is watched (`SeenSince`), the cache has the bundle (`SavedBundle`) |
| `...!ContentReportedHolds` | `FilesInv`: the content on the disk has met its fate, is too large, or there is an event in a queue or in a thread's hands (`ContentIsKnown`); what the table suppresses repeats an event that was posted, or a creation that was taken (`TableIsTrue`); of two creations, posted or under way, one is old (`CreationsApart`), because the table knows the youngest |
| `...!PeripheralsToldApartHolds` | `DisksInv`: the announcements that wait lead from what is remembered of a node to what is there: a function gives the disk at the node after each of them (`NodesAreFollowed`), so the first removal finds its disk. `PrintInv`: a job that was handled and is still queued is in the list before, or in the one in hand (`HandledIsKnown`, `KnownIsHandled`), also when a poll fails |
| `...!BlockedForAReasonHolds` | `StorageInv`: a block has its reason in the bundle or list held, in the one that is being replaced (`sync.was`), or in an arrival that overtook the sync (`HasReason`); all of it for an agent that is elevated, as only that one lifts a block |
| `...!DeliveredWasInspectedHolds` | `RelayInv`: a session that has refused nothing has asked about every part behind it (`AskedSoFar`) that it collects, and, between the two questions of a part, about its text (`AskedInBetween`) |
| `...!SiemsAreFedHolds` | `SiemInv`: without overlap one request is under way at most; a worker it has left is accounted for, one it works on has a connector (`OneAtATime`). `StreamReopened`: a write that failed has closed its stream, so the next one opens it |
| `...!EndpointTypesHold` | the conjunction of the types |

None of the proved invariants but the type invariants is inductive by itself;
each proofs module opens with the reason. What a module's invariant needs beyond
the property is about the states between two steps of a request, a run or a
thread.

The decisions of section 7 (`Decisions_proofs`). A behaviour of `DecisionsSpec` asks one
of the questions there are (`Asked`, its invariant), so each property is the
conjunction of what holds of every form, event, policy, request, matrix, text, change,
record, batch and set of matches: the theorems of the second table. Those make no
hypothesis but the ones named, and but for the pipeline's not even that an argument is of
its type.

| Theorem | Argument |
|---|---|
| `PoliciesMeanTheFormHolds` | from the first, second and fifth to tenth line of the table below, whatever forms, events, pages and configs there are |
| `MoreNeverMilderHolds` | from `AnswersNeverMilder`, `PolicyDecidesHolds`, `PoliciesComposeHolds` and the four about levels |
| `ReportsAreTrueHolds` | from `ChangesAreReported`, `RecordsAgreeHolds` and `BatchTellsTruthHolds` |
| `MatchesAreAlertedHolds` | from the last two lines of the table below |

| Theorem | Argument |
|---|---|
| `RulesMeanTheFormHolds` | type by type: what a group of rules matches (`AllMatch`, `AnyMatches`), and that a rule built from a field of the form matches what the field names (`RuleMet`, `PickedMet`, `NoneMet`). As in the run, a form that excepts file types is compared on events that have a type (`Typed`, a conjunct of the property) |
| `ReportersOnlyAlertHolds` | the actions such a form can be stored with, after `Prepared` |
| `AnswersNeverMilder` | what is asked for grows with policies and hits (`AskedGrows`), and the strictest and the gravest of more is no milder (`MoreAskedNeverMilder`). The policies' severities are the ones `_severity_rank` knows (`Severities`) |
| `PolicyDecidesHolds` | the triggered policy's block is among what is asked for, and nothing outranks a block |
| `ShareActsOnRequestHolds`, `ModesAreOppositeHolds`, `DenialIsFinalHolds`, `PoliciesComposeHolds`, `ShutOnRequestHolds` | from the views alone; the config has a field `mode` for the second |
| `UntickedMeansOffHolds` | the default types are among the known ones |
| `MatrixDecidesHolds` | a decision is "allow" or its cell, and a custom pattern allows no less than none does |
| `KnownIsFloorHolds` | the severest of a set of levels is above each (`SeverestIs`); known levels are levels |
| `StrongRulesStandHolds`, `FalseAlarmIsHarmlessHolds` | `ConfidenceIs`: the blend is floored by the rules, a false alarm is capped at 2500 of 10000, and channel and file type multiply by 1 to 1.38 (`FactorRaises`), which is below Confidential |
| `MoreFindsNeverMilderHolds` | the sum of the rules is 8000 or more, or no less than without the find (`RulesGrow`): the bonus is given up only for weights that reach 8000 by themselves. At 8000 the confidence is 8000 or more, and Restricted; below it, model, context, factors and the level are monotone in the sum (`ConfidenceGrows`) |
| `ChangesAreReported` | case by case, over every item |
| `RecordsAgreeHolds` | key by key: what both records say under a key they share is the value of the formatted event, or its absence; a frame's priority and the CEF severity are strictly monotone in the rank of the severity, HIGH in capitals and unknown ones included |
| `BatchTellsTruthHolds` | the events that go out are some of the batch; any `Chunk` |
| `EveryMatchIsAlertedHolds`, `OrderDoesNotMatterHolds`, `OnlyTheCopyIsLeftHolds` | `Does(x, y, T, down)`: how an event comes out of a set of tasks (an action with its match), whatever failed. It holds of no task, of each action (`StepIs`, `OneIsDone`) and, if of two parts, of both (`BothAreDone`); so it holds of a match's actions (`PerformedIsDone`, `AppliedIsDone`), of all matches (`AllAreDone`), and of what becomes of an event (`ProcessedIs`). A sequence and its reverse have the same tasks and the same severities (`ReversedHasSame`) |
| `DecisionIsSettledHolds` | the decision is the heaviest of the types that the matches of the highest priority ask for (`DecideIs`, `HeaviestIs`), a function of the set of matches (`Members`); a match below them can be left out (`LowerHasNoSay`) |

The sums of weights are folds over finite sets (`MapThenSumSet`), whose induction the
provers cannot do by themselves. `Decisions_proofs` does it once, without an operator
as a parameter: a fold is the least relation closed under its step (`FoldExists`), two
of them differ nowhere, because a smallest set on which they differ would not be one
(`Smallest`, `FoldedIsOne`), and the order of the members does not matter
(`SumsSplit`, `SumOverLaws`). That totals are numbers, grow with each member and split
into parts (`TotalsSplit`) follows.

The actions of a match and the matches themselves are folds over sequences (`FoldLeft`),
which the library defines by a fold over the indices, the largest first.
`PerformedInSteps` and `EvaluatedInSteps` give for each the sequence of events in
between, with `FoldExists` and the order of the numbers (`LeastIs`, `MaxIs`, `UpTo`).

Only model-checked:

- The liveness properties, the settling part of `EventsDelivered` included:
  liveness under fairness is beyond the proof system.
- `ContentIsJudged`, `ViewersAreShownTheirs`: what is computed by recursion over the
  data. `Extraction` and `Desk` declare recursive operators (archives in archives,
  queries in queries), with which the proof system loses its arithmetic;
  `DataMatching` and the masks of `WebActivity` build sequences step by step.

## 10. Inventory

What the repository consists of and where it is hard. `PROJECT.json` lists the
same parts with their sources, and all hazards with their lines.

| Part | State | Hard | Modelled |
|---|---|---|---|
| Policy distribution | policies table, a generation and a cache per worker, Redis keys, bundles | caches filled while they are flushed, memory per process, requests that end half way | yes |
| Windows agent, delivery | spool file, events in threads | crashes between writes, a shared file, requests that time out after they succeeded | yes |
| Event pipeline | events, incidents, alerts, mirror rows | interleaved tasks, retries, errors swallowed at several places | but for the synchronous clipboard verdict and the read endpoints |
| Agent registry | agents collection, code sequence, keys | find-then-insert without a unique index, cleanup against heartbeats | yes |
| Quarantine vault, retention | blobs, links of events | upload, event and cleanup look for one another | yes; not the settings form of retention |
| Cloud polling | cursor or token per folder, file states | failure between insert and commit, overlapping runs, one failing account | yes |
| Authentication | accounts, sessions, counters and blacklist in Redis | rows read before awaits and written after them | single sign-on, login, factor, tokens; not hashing, signatures, password changes |
| Device, printer, application approval | policies the switch owns, seen and approved devices | reports that are lost or overtaken | switches and USB pages; the application catalogue is a plain list |
| Endpoint decisions | none: a function of policies and request | many policies, partial content, unknown levels | real-time answer, web matrix, views that decide something |
| Classification | rules, a copy per worker | copies replaced across awaits; text cut by budgets | what is judged and how; not the patterns, the model, the registry of fingerprints |
| Decision engine, actions | none | services that fail between two actions | one event, all matches; not the versioned bundles, which no agent asks for |
| Alerts, incidents, viewers | alert and incident documents | several stores, lists and counts computed apart | lists, counts, views and status; not comments and the editing of permissions |
| SIEM forwarding | rows, and connectors in a worker's memory | a registry per worker, batches that fail in part | yes |
| SMTP relay | one message | the next hop or the server fails half way | yes |
| Browser extension, native host | none | page and host disagree | events and answers; not DOM interception |
| Linux agent | bundle, observers, recent events | threads on one table, device nodes reused | start, sync, files, disks, printing; not clipboard, network, messaging |
| Windows agent, the rest | bundle, allowlist, registry values | a block that outlives its reason | USB storage, and the decisions on shares, programs, printers, radios, chats; the other monitors are calls of the Windows API |

Not modelled:

- `policy_cache.py` of the Linux agent and `policy_cache.h` of the Windows agent
  (decisions, an offline queue) are used by nothing in the repository.
- The kernel minifilter: one callback per file operation and a port whose rules
  are the filter manager's, which the repository does not contain.
- The user attribute cache: the cache-aside of section 2 with one key per user.
- Middleware (filters of one request), scans, labels and reports (records and
  rendering), risk scoring (statistics on demand), threat intelligence
  (downloads and lookups), dashboard, installation scripts: no protocol of several
  steps whose order could go wrong.

## 11. Disagreements with the text that no run shows

Met while modelling; the models follow the code. They are about one call or one
value, so that no behaviour of several steps is needed to see them.

Policies and decisions:

- `policies/cache_control.py:12` says that evaluators refresh on their next
  call; those of the other workers wait for their time to live.
- Of a decision that *always supersedes a "not now"* (`usb_devices.py:281`), *the
  moment a real allow/deny is made* (467-468), the dismissal is removed by a second
  commit (256, 276), which a request cut short after the first (253, 272) never makes,
  and a PATCH (314-317) does not remove it at all.
- `events.py:780-783` lists repeated violations among the triggers of an
  incident; the function returns before it counts when no other trigger selects the
  event.
- `decision_engine.py:9` orders BLOCK > ALERT > ENCRYPT, its table (25-34) does not.
- `agent.cpp:11574-11577` says that the denylist holds even when the share mode
  is off; the monitor (11675-11690) does not run then.
- `event_processor.py:119-127` turns every event of severity `info` into one of
  `medium`, before the evaluation that the comment at 621-630 holds responsible
  for that.
- An event with content keeps it a second time as `clipboard_content`, whatever its type
  (`events.py:991-993`), and no action that redacts or encrypts looks there. The
  document's own `content`, stored before the background task runs (355), is
  left as it came: `_merge_processed_event` (1136), which would update it, is called
  by nobody.
- The webhook of a second matching policy cannot be posted: the event then holds
  a summary with a `datetime` (`action_executor.py:143-149`, 771-778). The
  action that encrypts discards its key (503-510).

Agents and mail:

- Three callers of `BlockUSBStorageViaRegistry(false)` (`agent.cpp:3320`, 6395, 6489)
  ignore its result, though the write is denied unless the agent is elevated
  (3485-3499, and the comment at 3425-3428) and the installer starts it with run level
  Limited (`install-agent.ps1:615-622`): what the comment at 6386-6391 wants to
  exclude, *blocked forever with no code path to undo it*, is then so. The boot task is
  said to run *BEFORE this agent process even starts* (6443); it has a delay of ten
  seconds (`install-agent.ps1:768-800`).
- The Linux agent posts an event once and logs a failure (`agent.py:1353-1374`); the
  table of recent events has it by then (1046-1048), so a repetition within seconds is
  suppressed too. Files above the size limit have no event (971-973).
- *Turn every attachment and the body into text* (`handler.py:5-6`) leaves out what
  `_collect_parts` (133-144) does not collect: a part without a filename that is neither
  plain text nor HTML, and bodies when `SCAN_BODY` is off.

Classification:

- `document_extract.py:431-432` says that `budget.truncated` tells of a depth limit; an
  archive at that limit is unreadable (395-396) without setting it, as are a member too
  large (379-380) and the pages beyond `OCR_MAX_PAGES` (171-174).
- *Redact every span* (`masking.py:65`): of two overlapping ones the second is
  dropped (139-142), and what it has beyond the first stays readable.
- When the model times out, `classification_engine.py:515-560` says *using rules
  only*, but blends a score of 0.0 at 30 percent (0.7 becomes 0.49).
- The correlation of findings (1014-1024) compares a number with a count of
  matches; the comment filter names `API` and `CREDENTIALS` where the rules say
  `API_KEY` and `CREDENTIAL`.
- A phone number out of context can lower a level from Restricted to
  Confidential. At 0.7 + 0.1 the code's floats give 0.7999; the model is exact.
- A registered cell that contains a separator is never matched, though
  `data_matching_service.py:88` says *regardless of separators*.
- Clearing the cache *makes new rules active immediately*
  (`classification.py:217`) on one worker, and a load under way there puts the
  old ones back for up to a minute. A test of rules that are all disabled is
  judged by all enabled ones. The import skips the checks of a rule's pattern;
  a rename to a name that is taken is answered 500.

Accounts, SIEM, alerts:

- Changing a password that must be changed needs a token that the login does not
  give (`auth.py:245-250`, 377-383).
- `min_severity` of a SIEM is stored and shown (`siem.py:145`) and never read;
  the hook at 261 forwards nothing by itself; a connector that was away when it
  was registered stays inactive until a restart; a bulk to Elasticsearch is a
  success with failed records, or reported failed as a whole though earlier
  chunks are stored; one unreadable timestamp fails a batch to Splunk.
- Alert documents carry no department (`action_executor.py:228-247`), so a
  restricted viewer sees none once one alert exists, though the events shown
  before did. With a status filter the counts differ between viewers;
  acknowledging an alert that is only an event is answered `acknowledged` and
  changes nothing. *Incidents without an event are always included*
  (`incident_service.py:96-97`) and *still count* (247) is an inner join in the code
  (115-119, 262-266), which leaves them to who sees all departments. An automatic
  incident is opened *ABAC-scoped*, the related events in the answer are not
  (`incidents.py:477-497`). A comment on an incident reads `current_user.get` of a
  model that has no `get` (`incidents.py:280`). Taking the last permission of a role
  restores its defaults.

## 12. What is left

In this order: `ContentIsJudged` with extraction as a recursive function, so that it
can be proved about; the versioned bundles of `decision.py`; the clipboard verdict
of the event pipeline; the network and clipboard monitors of the agents, as far as they
keep state.
