-------------------------- MODULE EndpointPolicies --------------------------
(***************************************************************************)
(* The controls an endpoint enforces by itself, so that they work without  *)
(* the server: for each the server turns its policies into a view that the *)
(* agent fetches (agents.py), and the agent decides by the view alone      *)
(* (agent.cpp).  A field of a config that the form left out, or that holds *)
(* nothing known, is "".  An exception is whatever names the share, user,  *)
(* path, type or program of an action, its marks.                          *)
(***************************************************************************)
EXTENDS Integers, FiniteSets

Live(policies) == {p \in policies : p.status = "active" /\ ~p.deleted}

\* Of several live policies the first by priority counts, any one of equals.
First(policies) == {p \in Live(policies) : \A q \in Live(policies) : q.priority <= p.priority}

Known(value, known, default) == IF value \in known THEN value ELSE default

Exempt(exceptions, marks) == exceptions \cap marks # {}

-----------------------------------------------------------------------------
\* get_network_share_policy, HandleNetworkShareNewFile.
ShareView(config) ==
  [mode |-> Known(config.mode, {"block_all", "content_aware", "off"}, "off"),
   action |-> Known(config.action, {"block"}, "audit"), exceptions |-> config.exceptions]

\* What happens to a file that appears on a share, given the denylist's view,
\* and the server's answer about it ("failed" when none came).
ShareAct(view, denylist, file, verdict) ==
  IF view.mode = "off" \/ Exempt(view.exceptions, file.marks) THEN "untouched"
  ELSE IF file.listed /\ denylist \in {"block", "quarantine"} THEN "quarantined"
  ELSE IF view.mode = "block_all" \/ verdict \in {"block", "quarantine", "failed"}
       THEN IF view.action = "block" THEN "quarantined" ELSE "audited"
  ELSE "allowed"

-----------------------------------------------------------------------------
\* get_application_control, IsAppActionAllowed.
ApplicationView(config) ==
  [mode |-> Known(config.mode, {"allowlist", "blocklist"}, "blocklist"),
   applications |-> config.applications, channels |-> config.channels,
   exceptions |-> config.exceptions]

ApplicationAllowed(view, act) ==
  \/ view.channels # {} /\ act.channel \notin view.channels
  \/ Exempt(view.exceptions, act.marks)
  \/ (act.program \in view.applications) = (view.mode = "allowlist")

-----------------------------------------------------------------------------
\* get_file_identity_denylist, IsFileDenylisted.
DenylistView(config) ==
  LET enforced == config.extensions # {} \/ config.hashes # {} IN
  [enforced |-> enforced, extensions |-> config.extensions, hashes |-> config.hashes,
   action |-> IF enforced THEN Known(config.action, {"block", "quarantine", "alert", "log"}, "block")
              ELSE "log"]

Denylisted(view, file) ==
  view.enforced /\ (file.extension \in view.extensions \/ file.hash \in view.hashes)

-----------------------------------------------------------------------------
\* get_wireless_policy, FetchWirelessPolicy: the channels shut off.  A box that
\* the form left out counts as ticked.
WirelessView(config) ==
  LET mode == Known(config.mode, {"enforce", "audit", "off"}, "enforce") IN
  [enforced |-> mode # "off", mode |-> mode, blocked |-> {c \in DOMAIN config.boxes : config.boxes[c] # "off"}]

\* The views an agent may be told, by which of several equals comes first.
Told(policies) ==
  IF Live(policies) = {} THEN {[enforced |-> FALSE, mode |-> "off", blocked |-> {}]}
  ELSE {WirelessView(p.config) : p \in First(policies)}

ChannelsShut(view) == IF view.enforced /\ view.mode = "enforce" THEN view.blocked ELSE {}

-----------------------------------------------------------------------------
\* Mutant: denied printers are sent in one scope only, as the allowed ones are.
ScopedDenials(config, rows) ==
  LET scope == Known(config.scope, {"block_all", "block_network", "block_local", "allowlist", "none"},
                     "block_network")
      Named(decision) == {r.name : r \in {x \in rows : x.enabled /\ x.decision = decision}}
  IN [mode |-> Known(config.mode, {"enforce", "audit"}, "enforce"), scope |-> scope,
      printers |-> IF scope = "allowlist" THEN Named("allow") ELSE {},
      denied |-> IF scope = "allowlist" THEN Named("deny") ELSE {}]

\* get_printer_policy, ShouldBlockPrinter: device control by the first policy.
\* Allowed printers are sent in the scope that asks for them, denied ones always.
PrinterView(config, rows) ==
  LET scope == Known(config.scope, {"block_all", "block_network", "block_local", "allowlist", "none"},
                     "block_network")
      Named(decision) == {r.name : r \in {x \in rows : x.enabled /\ x.decision = decision}}
  IN [mode |-> Known(config.mode, {"enforce", "audit"}, "enforce"), scope |-> scope,
      printers |-> IF scope = "allowlist" THEN Named("allow") ELSE {},
      denied |-> Named("deny")]

PrinterBlocked(view, printer) ==
  /\ view.mode = "enforce"
  /\ \/ printer.name \in view.denied
     \/ view.scope = "block_all"
     \/ view.scope = "block_network" /\ printer.network
     \/ view.scope = "block_local" /\ ~printer.network
     \/ view.scope = "allowlist" /\ printer.name \notin view.printers

\* Mutant: the first policy by priority alone counts.
FirstOnly(policies) ==
  LET asks(field, value) == \E p \in First(policies) : p.config[field] = value
  IN [inspection |-> Live(policies) # {},
      mode |-> CASE Live(policies) = {} -> "off"
                 [] asks("mode", "enforce") \/ asks("mode", "") -> "enforce"
                 [] OTHER -> "audit",
      unknown |-> IF asks("unknown", "block") THEN "block" ELSE "allow"]

\* Every live content policy counts: what one asks for, all get.
ContentView(policies) ==
  LET asks(field, value) == \E p \in Live(policies) : p.config[field] = value
  IN [inspection |-> Live(policies) # {},
      mode |-> CASE Live(policies) = {} -> "off"
                 [] asks("mode", "enforce") \/ asks("mode", "") -> "enforce"
                 [] OTHER -> "audit",
      unknown |-> IF asks("unknown", "block") THEN "block" ELSE "allow"]

\* EvaluatePrintContent: a job whose text could not be read is asked about by
\* its name, and one the server gave no answer to is let through.
JobBlocked(view, job) ==
  /\ view.inspection /\ job.verdict # "failed" /\ view.mode # "audit"
  /\ job.verdict = "block" \/ (~job.read /\ view.unknown = "block")

-----------------------------------------------------------------------------
\* get_messaging_app_policy, GetMessagingVerdict.  The types are a choice of
\* none (the form left the field out) or of one set.
MessagingView(config, types, default, apps) ==
  LET chosen == IF config.types = {} THEN default
                ELSE (UNION config.types) \cap types IN
  [action |-> Known(config.action, {"block"}, "alert"),
   apps |-> IF config.apps = {} THEN apps ELSE config.apps,
   exceptions |-> config.exceptions,
   inspect |-> config.inspect /\ chosen # {}, types |-> chosen]

Managed(view, act) == ~Exempt(view.exceptions, act.marks) /\ act.program \in view.apps

\* What happens to a message in which something of that type is typed.
MessageAct(view, act) ==
  IF Managed(view, act) /\ view.inspect /\ act.type \in view.types THEN view.action ELSE "pass"

\* get_agent_app_catalog: whether the extension intercepts what pages send.
Intercepts(policies) == Live(policies) # {}

-----------------------------------------------------------------------------
\* A file on a share is removed only where the policy asks for it in so many
\* words, or the denylist does, and never one that is excepted
\* ("default safe -- never delete without an explicit opt-in", agents.py:1272).
ShareActsOnRequest(config, denylist, file, verdict) ==
  LET act == ShareAct(ShareView(config), denylist, file, verdict) IN
  act = "quarantined" =>
    /\ ~Exempt(config.exceptions, file.marks)
    /\ \/ config.action = "block" /\ (config.mode = "block_all" \/ verdict # "allow")
       \/ file.listed /\ denylist \in {"block", "quarantine"}

\* The two modes of application control are each other's opposite for an action
\* that is covered and not exempt, and agree on any other (agents.py:1311-1318).
ModesAreOpposite(config, act) ==
  LET allowed(mode) == ApplicationAllowed(ApplicationView([config EXCEPT !.mode = mode]), act)
      covered == config.channels = {} \/ act.channel \in config.channels
  IN (allowed("allowlist") # allowed("blocklist")) <=> (covered /\ ~Exempt(config.exceptions, act.marks))

\* A printer that is denied is blocked in every scope, and one that is not is
\* blocked by the scope of approvals unless it has one
\* ("beats an allow row for the same name", agents.py:1557).
DenialIsFinal(config, rows, printer) ==
  LET view == PrinterView(config, rows)
      says(decision) == \E r \in rows : r.name = printer.name /\ r.enabled /\ r.decision = decision
  IN view.mode = "enforce" =>
       /\ says("deny") => PrinterBlocked(view, printer)
       /\ (view.scope = "allowlist" /\ ~says("deny")) => (PrinterBlocked(view, printer) <=> ~says("allow"))

\* One more content policy never lets a job through that was blocked
\* ("the strictest setting from any policy wins", agents.py:1642).
PoliciesCompose(policies, more, job) ==
  JobBlocked(ContentView(policies), job) => JobBlocked(ContentView(policies \cup more), job)

\* Typed messages are inspected only for types someone chose, a form without the
\* field gets the default, and unticking every box ends the inspection
\* (agents.py:1741-1747, 1834-1839).
UntickedMeansOff(config, types, default, apps, act) ==
  LET view == MessagingView(config, types, default, apps) IN
  /\ view.inspect => (config.inspect /\ view.types # {})
  /\ (config.types = {{}}) => MessageAct(view, act) = "pass"
  /\ (config.types = {} /\ config.inspect /\ Managed(view, act) /\ act.type \in default)
       => MessageAct(view, act) # "pass"
  /\ (act.type \notin types) => MessageAct(view, act) = "pass"

\* A channel is shut only for a live policy that no other outranks and that
\* neither turns the control off nor audits nor leaves the channel out
\* ("the opposite of what was selected", agents.py:1521).
ShutOnRequest(policies) ==
  \A view \in Told(policies), channel \in {"bluetooth", "nearby"} :
    channel \in ChannelsShut(view) =>
      \E p \in Live(policies) :
        /\ p.config.mode \notin {"audit", "off"} /\ p.config.boxes[channel] # "off"
        /\ \A q \in Live(policies) : q.priority <= p.priority
=============================================================================
