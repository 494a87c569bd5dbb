------------------------------ MODULE Forwarding ------------------------------
(***************************************************************************)
(* The forwarding of events to a SIEM.  Each worker process of the server  *)
(* keeps a registry of connectors of its own; a row of the database is all *)
(* that survives it.  A request is served by any one worker and awaits the *)
(* SIEM and the database, so requests about one connector overlap.         *)
(***************************************************************************)
EXTENDS Naturals

CONSTANTS Workers,    \* processes of the server
          Requests,   \* requests at a time
          Types,      \* types of connector that are registered
          MaxOps,     \* bound on requests
          MaxFlips,   \* bound on outages and returns of the SIEM
          MaxFaults   \* bound on rows that are not written

VARIABLES
  row,      \* the stored connector: its type, or "none"
  held,     \* held[w]: the connector in the registry of worker w
  active,   \* active[w]: its name is in active_connectors
  siem,     \* whether the SIEM is up
  request,  \* request[r]: pc, worker and the connector it works on
  ops, flips, faults,
  asked,    \* history: what the last request that was answered asked for
  refused,  \* history: the last connect of a worker to its connector failed
  mixed     \* history: requests overlapped, were cut off, or a row was not written

vars == <<row, held, active, siem, request, ops, flips, faults, asked, refused, mixed>>

\* The connector of no request.
NoConnector == [type |-> "none", connected |-> FALSE, link |-> "none", by |-> 0]
\* A connector as build_connector makes it.
Connector(type, r) == [NoConnector EXCEPT !.type = type, !.by = r]
Idle == [pc |-> "idle", worker |-> 0, connector |-> NoConnector]

Connectors == [type : Types \cup {"none"}, connected : BOOLEAN,
               link : {"none", "open", "dead", "closed"}, by : Requests \cup {0}]

TypeOK ==
  /\ row \in Types \cup {"none"} /\ asked \in Types \cup {"none"}
  /\ held \in [Workers -> Connectors]
  /\ active \in [Workers -> BOOLEAN] /\ refused \in [Workers -> BOOLEAN]
  /\ siem \in BOOLEAN /\ mixed \in BOOLEAN
  /\ request \in [Requests -> [pc : {"idle", "connect", "persist", "disconnect", "delete"},
                               worker : Workers \cup {0}, connector : Connectors]]
  /\ ops \in 0 .. MaxOps /\ flips \in 0 .. MaxFlips /\ faults \in 0 .. MaxFaults

Init ==
  /\ row = "none" /\ asked = "none"
  /\ held = [w \in Workers |-> NoConnector]
  /\ active = [w \in Workers |-> FALSE] /\ refused = [w \in Workers |-> FALSE]
  /\ siem = TRUE /\ mixed = FALSE
  /\ request = [r \in Requests |-> Idle]
  /\ ops = 0 /\ flips = 0 /\ faults = 0

-----------------------------------------------------------------------------
\* The connectors.  A datagram needs no SIEM and tells nothing of it; a stream
\* that the SIEM has left looks open until a write fails; the clients of ELK and
\* Splunk open a connection for each call, and Splunk's calls nobody when it
\* connects unless there is an account to log in with.

\* What is left of connecting, with the result: connect.
Connected(c, up) ==
  LET answered == up \/ c.type \in {"udp", "splunk"}
      opened   == IF c.type = "tcp" /\ ~up THEN "none" ELSE "open"
  IN [c EXCEPT !.connected = answered, !.link = opened]

Disconnected(c) ==
  [c EXCEPT !.connected = FALSE,
            !.link = IF c.type = "elk" /\ c.link # "none" THEN "closed" ELSE "none"]

\* A stream is written to, opened first if there is none: _send_raw.  A write to a
\* stream that is dead may still be taken for sent.
Written(c, up) ==
  IF c.type = "udp" THEN {[told |-> TRUE, arrived |-> up, link |-> "open"]}
  ELSE IF c.link = "none" THEN {[told |-> up, arrived |-> up, link |-> IF up THEN "open" ELSE "none"]}
  ELSE IF c.link = "open" THEN {[told |-> TRUE, arrived |-> TRUE, link |-> "open"]}
  ELSE {[told |-> t, arrived |-> FALSE, link |-> "dead"] : t \in BOOLEAN}

\* A stream that failed left as it is.
SentOnce(c, up) ==
  IF c.type \in {"udp", "tcp"}
  THEN {[told |-> o.told, arrived |-> o.arrived, connector |-> [c EXCEPT !.link = o.link]] : o \in Written(c, up)}
  ELSE LET ready == c.link # "none" /\ c.connected
       IN {[told |-> up, arrived |-> up, connector |-> IF ready THEN c ELSE Connected(c, up)]}

\* The possible results of sending an event: send_event.  A stream that failed is
\* closed; a client that is not connected connects first, and is used whatever
\* came of it.
Sent(c, up) ==
  IF c.type \in {"udp", "tcp"}
  THEN {[told |-> o.told, arrived |-> o.arrived,
         connector |-> [c EXCEPT !.link = IF o.told THEN o.link ELSE "none"]] : o \in Written(c, up)}
  ELSE LET ready == c.link # "none" /\ c.connected
       IN {[told |-> up, arrived |-> up, connector |-> IF ready THEN c ELSE Connected(c, up)]}

\* A connector after a test of it, which closes nothing: test_connection.
Tested(c, up) ==
  IF c.type \in {"udp", "tcp"}
  THEN {[c EXCEPT !.link = o.link] : o \in Written(c, up)}
  ELSE {IF c.link = "none" THEN Connected(c, up) ELSE c}

\* The streams of connectors when the SIEM goes away.
Left(c) == [c EXCEPT !.link = IF c.type = "tcp" /\ c.link = "open" THEN "dead" ELSE c.link]

-----------------------------------------------------------------------------
At(r, pc) == request[r].pc = pc
Of(r) == request[r].worker
Go(r, pc, w, c) == request' = [request EXCEPT ![r] = [pc |-> pc, worker |-> w, connector |-> c]]
Answered(r, what) == request' = [request EXCEPT ![r] = Idle] /\ asked' = what

\* The request finds the connector it works on in the registry still.
Own(r) == held[Of(r)].type # "none" /\ held[Of(r)].by = request[r].connector.by

\* Another request is under way.
Overlaps(r) == \E s \in Requests \ {r} : ~At(s, "idle")

New(r) ==
  /\ At(r, "idle") /\ ops < MaxOps /\ ops' = ops + 1
  /\ \A s \in Requests : s < r => ~At(s, "idle")
  /\ mixed' = (mixed \/ Overlaps(r))

Put(w, connector) == held' = [held EXCEPT ![w] = connector]

\* POST /connectors: the connector is in the registry at once, in the place of
\* the one of its name, before it has connected.
RegisterBegin(r, w, type) ==
  /\ New(r)
  /\ Put(w, Connector(type, r))
  /\ Go(r, "connect", w, Connector(type, r))
  /\ UNCHANGED <<row, active, siem, flips, faults, asked, refused>>

\* A connector that connects and is left to connect_all to activate.
RegisterConnectOnly(r) ==
  LET w == Of(r)
      c == Connected(request[r].connector, siem)
  IN /\ At(r, "connect")
     /\ held' = [held EXCEPT ![w] = IF Own(r) THEN c ELSE @]
     /\ refused' = [refused EXCEPT ![w] = ~c.connected]
     /\ Go(r, "persist", w, c)
     /\ UNCHANGED <<row, active, siem, ops, flips, faults, asked, mixed>>

\* It becomes active if it connected; a name that is active stays so.
RegisterConnect(r) ==
  LET w == Of(r)
      c == Connected(request[r].connector, siem)
  IN /\ At(r, "connect")
     /\ held' = [held EXCEPT ![w] = IF Own(r) THEN c ELSE @]
     /\ active' = [active EXCEPT ![w] = @ \/ c.connected]
     /\ refused' = [refused EXCEPT ![w] = ~c.connected]
     /\ Go(r, "persist", w, c)
     /\ UNCHANGED <<row, siem, ops, flips, faults, asked, mixed>>

\* The row is written or replaced; that it could not be is not told.
RegisterPersist(r) ==
  /\ At(r, "persist")
  /\ \/ row' = request[r].connector.type /\ UNCHANGED <<faults, mixed>>
     \/ faults < MaxFaults /\ faults' = faults + 1 /\ mixed' = TRUE /\ UNCHANGED row
  /\ Answered(r, request[r].connector.type)
  /\ UNCHANGED <<held, active, siem, ops, flips, refused>>

\* DELETE /connectors/{name}: the connector this worker knows is disconnected.
RemoveBegin(r, w) ==
  /\ New(r)
  /\ Go(r, IF held[w].type = "none" THEN "delete" ELSE "disconnect", w, held[w])
  /\ UNCHANGED <<row, held, active, siem, flips, faults, asked, refused>>

\* Then the one of its name is taken out of the registry, whichever that is now.
RemoveForget(r) ==
  /\ At(r, "disconnect")
  /\ held' = [held EXCEPT ![Of(r)] = NoConnector]
  /\ active' = [active EXCEPT ![Of(r)] = @ /\ held[Of(r)].type = "none"]
  /\ Go(r, "delete", Of(r), Disconnected(request[r].connector))
  /\ UNCHANGED <<row, siem, ops, flips, faults, asked, refused, mixed>>

\* A delete of a connector that this worker knows only.
RemoveDeleteKnown(r) ==
  /\ At(r, "delete")
  /\ row' = IF request[r].connector.type = "none" THEN row ELSE "none"
  /\ Answered(r, "none")
  /\ UNCHANGED <<held, active, siem, ops, flips, faults, refused, mixed>>

\* Its row is deleted, known to this worker or not.
RemoveDelete(r) ==
  /\ At(r, "delete")
  /\ row' = "none"
  /\ Answered(r, "none")
  /\ UNCHANGED <<held, active, siem, ops, flips, faults, refused, mixed>>

\* Events forwarded to all: every active connector of the worker is sent them.
Forward(w) ==
  /\ active[w] /\ held[w].type # "none"
  /\ \E o \in Sent(held[w], siem) : held' = [held EXCEPT ![w] = o.connector]
  /\ UNCHANGED <<row, active, siem, request, ops, flips, faults, asked, refused, mixed>>

\* Events forwarded to this connector by name: active or not.
ForwardTo(w) ==
  /\ held[w].type # "none"
  /\ \E o \in Sent(held[w], siem) : held' = [held EXCEPT ![w] = o.connector]
  /\ UNCHANGED <<row, active, siem, request, ops, flips, faults, asked, refused, mixed>>

\* The test of a connector and the health check of all.
Test(w) ==
  /\ held[w].type # "none"
  /\ \E c \in Tested(held[w], siem) : held' = [held EXCEPT ![w] = c]
  /\ UNCHANGED <<row, active, siem, request, ops, flips, faults, asked, refused, mixed>>

\* The registry of a worker is this connector alone, active if it connects.
ConnectAll(w, connector) ==
  LET c == Connected(connector, siem)
      known == connector.type # "none"
  IN /\ held' = [held EXCEPT ![w] = IF known THEN c ELSE NoConnector]
     /\ active' = [active EXCEPT ![w] = known /\ c.connected]
     /\ refused' = [refused EXCEPT ![w] = ~c.connected]

\* A worker starts again: its registry is the connectors that are stored, each
\* active if it connects, and the requests it served are cut off.
Restart(w) ==
  /\ ops < MaxOps /\ ops' = ops + 1
  /\ ConnectAll(w, Connector(row, 0))
  /\ request' = [r \in Requests |-> IF Of(r) = w THEN Idle ELSE request[r]]
  /\ mixed' = (mixed \/ \E r \in Requests : Of(r) = w)
  /\ UNCHANGED <<row, siem, flips, faults, asked>>

\* The SIEM goes away or returns.
Flip ==
  /\ flips < MaxFlips /\ flips' = flips + 1
  /\ siem' = ~siem
  /\ held' = [w \in Workers |-> Left(held[w])]
  /\ request' = [r \in Requests |-> [request[r] EXCEPT !.connector = Left(@)]]
  /\ UNCHANGED <<row, active, ops, faults, asked, refused, mixed>>

Next ==
  \/ \E r \in Requests, w \in Workers : (\E type \in Types : RegisterBegin(r, w, type)) \/ RemoveBegin(r, w)
  \/ \E r \in Requests : RegisterConnect(r) \/ RegisterPersist(r) \/ RemoveForget(r) \/ RemoveDelete(r)
  \/ \E w \in Workers : Forward(w) \/ ForwardTo(w) \/ Test(w) \/ Restart(w)
  \/ Flip

Spec == Init /\ [][Next]_vars

-----------------------------------------------------------------------------
Settled(w) == \A r \in Requests : Of(r) # w

\* What is stored, and comes back when a worker starts, is what the last request
\* asked for, whichever workers the requests came to: a connector that was
\* removed on a worker that never knew it stays removed (siem.py).
LastWordIsStored ==
  ~mixed /\ (\A r \in Requests : At(r, "idle")) => row = asked

\* A connector that is passed over when events are forwarded to all did not
\* connect when it was registered or its worker started, and no name is active
\* without a connector (siem.py, integration_service.py).
SilentWasRefused ==
  ~mixed => \A w \in Workers : Settled(w) =>
    IF held[w].type = "none" THEN ~active[w] ELSE active[w] \/ refused[w]

\* An event that is reported as not sent costs no second one: with the SIEM up,
\* what is sent after it arrives, whatever outages, tests and failures came
\* before (syslog_connector.py, elk_connector.py, splunk_connector.py).
FailureReconnects ==
  siem => \A w \in Workers : held[w].type # "none" =>
    \A first \in Sent(held[w], siem) : ~first.told =>
      \A second \in Sent(first.connector, siem) : second.told /\ second.arrived
=============================================================================
