------------------------------- MODULE Server -------------------------------
(***************************************************************************)
(* The parts of the server that share no state with one another: a         *)
(* behaviour picks one part and runs it, the others stay as they begin.    *)
(***************************************************************************)
EXTENDS AgentRegistry

CONSTANTS
  Events, Posts, MaxVaultFaults,                                      \* QuarantineVault
  Polls, Kind, Folders, Protected, MaxChanges, MaxTime, MaxPollFaults, \* CloudPolling
  People, Addresses, Provision, Logins, MaxAccounts, MaxAccountOps,   \* SsoAccounts
  Tabs, Limit, MaxSecrets, MaxRedisFaults,                            \* Sessions
  Workers, Calls, RuleNames, Seeded, Choices, Ttl, TestTtl, MaxRules, MaxRewrites,
  MaxClears, MaxCalls, MaxClock,                                      \* RuleCatalogue
  Admins, Priorities, MaxPolicies, MaxEdits, MaxToggles,              \* DeviceControl
  Serials, Agents, Approvals, MaxDecisions, MaxMoves, MaxFaults       \* UsbTriage

VARIABLES
  part,                                            \* the part that runs
  files, events, upload, post, cleaner, vaultFaults, missed, rushed, orphaned,
  now, changes, reported, folder, account, run, pollFaults, base, clobbered,
  rows, siem, login, pinned, passed, got, ssoOps,
  policies, toggle, edits, toggles,
  person, drawn, failures, windowed, tokens, bridge, tabs, redisFaults, proved, crossed, spoilt,
  clock, catalogue, made, copies, looking, rewrites, clears, begun, rewritten, mixed,
  devices, dismissed, approval, latest, sent, plugged, online, astray, standing, lapsed, ops, moves, faults

Vault == INSTANCE QuarantineVault WITH MaxFaults <- MaxVaultFaults, faults <- vaultFaults

Cloud == INSTANCE CloudPolling WITH
  Runs <- Polls, MaxFaults <- MaxPollFaults, events <- reported, faults <- pollFaults

Accounts == INSTANCE SsoAccounts WITH
  MaxRows <- MaxAccounts, MaxOps <- MaxAccountOps, raced <- passed, ops <- ssoOps

SignIn == INSTANCE Sessions WITH
  MaxFaults <- MaxRedisFaults,
  account <- person, fails <- failures, expires <- windowed, call <- tabs, faults <- redisFaults

Rules == INSTANCE RuleCatalogue WITH
  Names <- RuleNames, MaxRows <- MaxRules, MaxEdits <- MaxRewrites, MaxTime <- MaxClock,
  now <- clock, rows <- catalogue, cache <- copies, call <- looking, edits <- rewrites,
  edited <- rewritten

Control == INSTANCE DeviceControl WITH MaxRows <- MaxPolicies, request <- toggle

Triage == INSTANCE UsbTriage WITH
  Requests <- Approvals, MaxOps <- MaxDecisions, rows <- devices, request <- approval

\* The addresses that the identity provider knows a person by.
Own(p) == {Addresses[p][i] : i \in DOMAIN Addresses[p]}

\* A cleaner that is between two events is at none.
ASSUME VaultAssumption == {"idle", "delete"} \cap Events = {}

ASSUME CloudAssumption ==
  /\ Kind \in Seq({"drive", "delta"}) /\ Len(Kind) > 0
  /\ Protected \subseteq Folders
  /\ MaxChanges \in Nat /\ MaxTime \in Nat /\ MaxPollFaults \in Nat

\* The provider gives no address to two people.
ASSUME AccountsAssumption ==
  /\ MaxAccounts \in Nat /\ MaxAccountOps \in Nat /\ Accounts!NoRole \notin People
  /\ \A p \in People : Addresses[p][1] \in Own(p)
  /\ \A p, q \in People : p # q => Own(p) \cap Own(q) = {}

ASSUME SignInAssumption ==
  /\ Limit \in Nat /\ MaxSecrets \in Nat /\ MaxRedisFaults \in Nat
  /\ IsFiniteSet(Tabs)

\* The rules the server comes with fit, and the chosen rules of a test do not
\* live as long as a copy.
ASSUME RulesAssumption ==
  /\ Seeded \subseteq Rules!Row /\ Cardinality(Seeded) \in 0 .. MaxRules
  /\ Ttl \in Nat /\ TestTtl \in 1 .. Ttl - 1
  /\ MaxRules \in Nat /\ MaxRewrites \in Nat /\ MaxClears \in Nat /\ MaxCalls \in Nat
  /\ MaxClock \in Nat
  /\ 0 \notin Calls

ASSUME ControlAssumption ==
  /\ \E p \in Priorities : \A q \in Priorities : q <= p
  /\ MaxPolicies \in Nat /\ MaxEdits \in Nat /\ MaxToggles \in Nat

ASSUME TriageAssumption ==
  MaxDecisions \in Nat /\ MaxMoves \in Nat /\ MaxFaults \in Nat

Parts == {"registry", "vault", "cloud", "accounts", "people", "rules", "control", "triage"}

ServerInit ==
  /\ part \in Parts
  /\ IF part = "rules" THEN TRUE ELSE copies = [w \in Workers |-> Rules!NoEntry]
  /\ Init /\ (part # "registry" => docs = << >>)
  /\ Vault!Init /\ Cloud!Init /\ Accounts!Init /\ SignIn!Init /\ Rules!Init /\ Control!Init /\ Triage!Init

vaultVars    == <<files, events, upload, post, cleaner, vaultFaults, missed, rushed, orphaned>>
cloudVars    == <<now, changes, reported, folder, account, run, pollFaults, base, clobbered>>
accountsVars == <<rows, siem, login, pinned, passed, got, ssoOps>>
peopleVars   == <<person, drawn, failures, windowed, tokens, bridge, tabs, redisFaults, proved,
                  crossed, spoilt>>
rulesVars    == <<clock, catalogue, made, copies, looking, rewrites, clears, begun, rewritten, mixed>>
controlVars  == <<policies, toggle, edits, toggles>>
triageVars   == <<devices, dismissed, approval, latest, sent, plugged, online, astray, standing, lapsed,
                  ops, moves, faults>>
serverVars == <<part, vars, vaultVars, cloudVars, accountsVars, peopleVars, rulesVars,
                controlVars, triageVars>>

Picked(p) == part = p

\* Part p runs and the others stand still.
Runs(p) ==
  /\ Picked(p) /\ UNCHANGED part
  /\ p # "registry" => UNCHANGED vars
  /\ p # "vault"    => UNCHANGED vaultVars
  /\ p # "cloud"    => UNCHANGED cloudVars
  /\ p # "accounts" => UNCHANGED accountsVars
  /\ p # "people"   => UNCHANGED peopleVars
  /\ p # "rules"    => UNCHANGED rulesVars
  /\ p # "control"  => UNCHANGED controlVars
  /\ p # "triage"   => UNCHANGED triageVars

ServerNext ==
  \/ Runs("registry") /\ Next
  \/ Runs("vault") /\ Vault!Next
  \/ Runs("cloud") /\ Cloud!Next
  \/ Runs("accounts") /\ Accounts!Next
  \/ Runs("people") /\ SignIn!Next
  \/ Runs("rules") /\ Rules!Next
  \/ Runs("control") /\ Control!Next
  \/ Runs("triage") /\ Triage!Next

ServerSpec == ServerInit /\ [][ServerNext]_serverVars

-----------------------------------------------------------------------------
\* Every part's variables keep to what the code can hold (each module's TypeOK).
TypesOK ==
  /\ part \in Parts
  /\ Picked("registry") => TypeOK
  /\ Picked("vault") => Vault!TypeOK
  /\ Picked("cloud") => Cloud!TypeOK
  /\ Picked("accounts") => Accounts!TypeOK
  /\ Picked("people") => SignIn!TypeOK
  /\ Picked("rules") => Rules!TypeOK
  /\ Picked("control") => Control!TypeOK
  /\ Picked("triage") => Triage!TypeOK

\* Whatever the order of the upload and the event, and whenever the cleaner
\* comes, a file that is kept is linked to its event and no link is dead, but
\* for an upload and a post that look past each other and a cleaner that dies.
LinksMatchFiles ==
  Picked("vault") => Vault!FileIsLinked /\ Vault!NoDanglingLink

\* A change of a protected folder after the baseline has its event or lies ahead
\* of the next poll, whatever fails and however runs overlap, but for a reset
\* that a run in flight has overwritten.
ChangesAreNoticed == Picked("cloud") => Cloud!NothingSkipped

\* However two logins of a person interleave they end on one account, and a
\* role that an admin set is not taken back by the next login; a person is asked
\* for a second factor only after having shown it once, unless requests about it
\* overlapped, and failed logins are forgotten in the end.
PeopleKeepTheirAccounts ==
  /\ Picked("accounts") => Accounts!OneAccountPerPerson /\ Accounts!ManualRoleStays
  /\ Picked("people") => SignIn!FactorIsOwn /\ SignIn!LimitRunsOut

\* The classification rules in force are the admins' rules within a minute of an
\* edit, none left out but while a test runs, and a test is judged by the rules
\* it chose unless another call came between.
RulesAreInForce ==
  Picked("rules") => Rules!EditsTakeEffect /\ Rules!NothingLeftOut /\ Rules!TestJudgesWhatItChose

\* The switch of the device page keeps to one row, however its requests overlap
\* one another and the Policies tab; the page of seen devices says where a stick
\* is, unless a report was lost or overtaken, and an approval or denial takes back
\* an earlier dismissal, unless its request was cut short between two commits or the
\* decision was changed in place.
DevicePagesAreRight ==
  /\ Picked("control") => Control!TogglesShareOneRow
  /\ Picked("triage") => Triage!PageIsRightUnlessAstray /\ Triage!DecisionEndsDismissal
=============================================================================
