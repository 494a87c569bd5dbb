-------------------------------- MODULE Desk --------------------------------
(***************************************************************************)
(* What a viewer is shown of alerts and incidents: the queries that list   *)
(* them, count them and open one, each under the viewer's department,      *)
(* clearance and domains.  A document is a function over the fields it     *)
(* has; a query of MongoDB is a function from fields to conditions, with   *)
(* "$and" and "$or" over sequences of queries.                             *)
(***************************************************************************)
EXTENDS Integers, Sequences, FiniteSets, TLC

Community == INSTANCE SequencesExt

-----------------------------------------------------------------------------
\* The queries of MongoDB.  A missing field is in no set and outside every set.
Is(v)     == [op |-> "in", values |-> {v}]
In(S)     == [op |-> "in", values |-> S]
NotIn(S)  == [op |-> "nin", values |-> S]
AtMost(n) == [op |-> "lte", bound |-> n]
Missing   == [op |-> "missing"]

Where(key, condition) == [k \in {key} |-> condition]
Everything == [k \in {} |-> Missing]
DenyAll == Where("denied", Is(TRUE))

Meets(doc, key, condition) ==
  LET has == key \in DOMAIN doc IN
  CASE condition.op = "in"  -> has /\ doc[key] \in condition.values
    [] condition.op = "nin" -> ~has \/ doc[key] \notin condition.values
    [] condition.op = "lte" -> has /\ doc[key] <= condition.bound
    [] OTHER                -> ~has

RECURSIVE Matches(_, _)
Matches(doc, query) ==
  \A key \in DOMAIN query :
    CASE key = "$and" -> \A i \in DOMAIN query[key] : Matches(doc, query[key][i])
      [] key = "$or"  -> \E i \in DOMAIN query[key] : Matches(doc, query[key][i])
      [] OTHER        -> Meets(doc, key, query[key])

Found(docs, query) == {d \in docs : Matches(d, query)}
Count(docs, query) == Cardinality(Found(docs, query))
\* The newest first.
Sorted(docs) == Community!SetToSortSeq(docs, LAMBDA a, b : a.timestamp > b.timestamp)
Page(docs, skip, limit) ==
  SubSeq(Sorted(docs), skip + 1, IF skip + limit < Cardinality(docs) THEN skip + limit ELSE Cardinality(docs))

-----------------------------------------------------------------------------
\* Who sees what.

Defaults(role) ==
  CASE role \in {"ANALYST", "MANAGER"} -> {"view_all_departments", "view_events"}
    [] role = "VIEWER"                 -> {"view_events"}
    [] OTHER                           -> {}
AllPermissions == {"view_all_departments", "view_events", "manage_users"}

\* The defaults of a role stand in for a row of it that grants nothing.
Permissions(user) ==
  IF ~user.active THEN {}
  ELSE IF user.role = "ADMIN" THEN AllPermissions
  ELSE user.granted \cup user.direct \cup (IF user.granted = {} THEN Defaults(user.role) ELSE {})

Unknown == -1
SeesAll(user) == "view_all_departments" \in Permissions(user)
Known(user) == user.department # "null" /\ user.clearance # Unknown

\* The scope of a user over documents: none, or one query.
MongoScope(user) ==
  IF SeesAll(user) THEN <<>>
  ELSE IF ~Known(user) THEN <<DenyAll>>
  ELSE <<Where("department", Is(user.department)) @@
         Where("$or", <<Where("required_clearance", AtMost(user.clearance)),
                        Where("required_clearance", Missing)>>)>>

\* The same over rows of PostgreSQL, whose events have every column.
SqlSees(user, event) ==
  \/ SeesAll(user)
  \/ Known(user) /\ event.department = user.department /\ event.required_clearance <= user.clearance

DomainOf(event_type) == IF event_type = "usb" THEN "threat" ELSE "data_protection"
DomainScope(user) ==
  LET domain == CASE user.role = "THREAT_ADMIN" -> {"threat"} [] user.role = "DATA_PROTECTION_ADMIN" -> {"data_protection"}
                  [] OTHER -> {}
  IN IF domain = {} THEN <<>>
     ELSE <<Where("$or", <<Where("policy_domain", In(domain)),
                           Where("event_type", In({t \in {"usb", "file"} : DomainOf(t) \in domain}))>>)>>

MergedByKey(query, scope) == IF scope = <<>> THEN query ELSE scope[1] @@ query
\* merge_mongo_filter joins two queries by "$and", so that neither loses a key
\* the other has too.
Merged(query, scope) ==
  IF scope = <<>> THEN query
  ELSE IF "denied" \in DOMAIN scope[1] \/ query = Everything THEN scope[1]
  ELSE Where("$and", <<query, scope[1]>>)

-----------------------------------------------------------------------------
\* Alerts.  While no alert was ever written the grave events are shown instead.

Quiet == {"low", "info"}
Grave == {"critical", "high"}
StatusIs(status) == IF status = "any" THEN Everything ELSE Where("status", Is(status))

\* The severities that are listed without being asked for.
Listed(alerts) == Where("severity", IF alerts # {} THEN NotIn(Quiet) ELSE In(Grave))
AlertQuery(user, alerts, severity, status) ==
  Merged((IF severity = "any" THEN Listed(alerts) ELSE Where("severity", Is(severity)))
           @@ (IF alerts # {} THEN StatusIs(status) ELSE Everything),
         MongoScope(user))

IdOf(event) == IF "id" \in DOMAIN event THEN event.id ELSE event.event_id
\* An event as an alert: it has no status of its own.
AsAlert(event, status) ==
  [id |-> IdOf(event), event_id |-> IdOf(event), severity |-> event.severity,
   status |-> IF status = "any" THEN "new" ELSE status, timestamp |-> event.timestamp]
Shown(alert) == [f \in {"id", "event_id", "severity", "status", "timestamp"} |-> alert[f]]

GetAlerts(user, alerts, events, severity, status, skip, limit) ==
  LET query == AlertQuery(user, alerts, severity, status)
      page  == Page(Found(IF alerts # {} THEN alerts ELSE events, query), skip, limit)
  IN [i \in DOMAIN page |-> IF alerts # {} THEN Shown(page[i]) ELSE AsAlert(page[i], status)]

\* The severities have tiles of their own, whichever of them is asked for.
TilesAsked(user, alerts, severity, status) == AlertQuery(user, alerts, severity, status)
TilesFrom(user, alerts, severity, status) ==
  Merged(Listed(alerts), MongoScope(user)) @@ (IF alerts # {} THEN StatusIs(status) ELSE Everything)
Counts(user, alerts, events, severity, status) ==
  LET query == AlertQuery(user, alerts, severity, status)
      docs  == IF alerts # {} THEN alerts ELSE events
      of(s) == IF alerts # {} THEN Count(alerts, Where("status", Is(s)) @@ query)
               ELSE IF s = "new" THEN Count(events, query) ELSE 0
      tile(s) == Count(docs, Where("severity", Is(s)) @@ TilesFrom(user, alerts, severity, status))
  IN [total |-> Count(docs, query), new |-> of("new"), acknowledged |-> of("acknowledged"),
      resolved |-> of("resolved"), high |-> tile("high"), critical |-> tile("critical")]

\* One alert, or the event of that number as one.
GetAlert(user, alerts, events, id) ==
  LET ofId   == Found(alerts, Merged(Where("id", Is(id)), MongoScope(user)))
      either == Where("$or", <<Where("id", Is(id)), Where("event_id", Is(id))>>)
      event  == Found(events, Merged(either, MongoScope(user)))
  IN IF ofId # {} THEN {Shown(a) : a \in ofId} ELSE {[AsAlert(e, "any") EXCEPT !.id = id, !.event_id = id] : e \in event}

\* Acknowledging and resolving set the status of whatever alert has the number;
\* an event has none to set.
SetStatus(alerts, id, status) ==
  {IF a.id = id THEN [a EXCEPT !.status = status] ELSE a : a \in alerts}

-----------------------------------------------------------------------------
\* Incidents that the server opened by itself, in MongoDB.

AutoScope(user, query) == Merged(Merged(query, MongoScope(user)), DomainScope(user))
AutoList(user, incidents, status) == Found(incidents, AutoScope(user, StatusIs(status)))
AutoStats(user, incidents) ==
  LET base  == AutoScope(user, Everything)
      of(s) == Count(incidents, Where("status", Is(s)) @@ base)
  IN [total |-> Count(incidents, base), open |-> of("open"), investigating |-> of("investigating"),
      resolved |-> of("resolved")]

\* The events of an incident are those that were folded into it or, if none were
\* recorded, the newest grave ones of its user: whoever may see the incident is
\* shown them all, without any scope.
RelatedEvents(incident, events) ==
  CASE "related" \in DOMAIN incident -> Found(events, Where("id", In(incident.related)))
    [] "related" \notin DOMAIN incident /\ "user_email" \in DOMAIN incident ->
         Community!ToSet(Page(Found(events, Where("user_email", Is(incident.user_email))
                                              @@ Where("severity", In(Grave))), 0, 20))
    [] OTHER -> {}

\* One incident with its events.
AutoGet(user, incidents, events, id) ==
  {[incident |-> i, related |-> RelatedEvents(i, events)] :
     i \in Found(incidents,
                 AutoScope(user, Where("$or", <<Where("id", Is(id)), Where("event_id", Is(id))>>)))}

\* An update looks for the number of an incident, then for that of its event.
AutoUpdate(user, incidents, id, status) ==
  LET of(key) == Found(incidents, AutoScope(user, Where(key, Is(id))))
      hit     == IF of("id") # {} THEN of("id") ELSE of("event_id")
  IN {IF i \in hit THEN [i EXCEPT !.status = status] ELSE i : i \in incidents}

-----------------------------------------------------------------------------
\* Incidents that analysts open, in PostgreSQL: whoever does not see everything
\* sees those whose event is one of the department's.

RowSeen(user, row, events) ==
  SeesAll(user) \/ \E e \in events : e.event_id = row.event_id /\ SqlSees(user, e)
Wanted(row, status) == status = "any" \/ row.status = status
ListIncidents(user, rows, events, status, skip, limit) ==
  Page({r \in rows : Wanted(r, status) /\ RowSeen(user, r, events)}, skip, limit)
CountWithManual(user, rows, events, status) ==
  Cardinality({r \in rows : Wanted(r, status) /\ (r.event_id = "null" \/ RowSeen(user, r, events))})
CountIncidents(user, rows, events, status) ==
  Cardinality({r \in rows : Wanted(r, status) /\ RowSeen(user, r, events)})
GetIncident(user, rows, events, id) == {r \in rows : r.id = id /\ RowSeen(user, r, events)}
Statistics(user, rows, events) ==
  [s \in {r.status : r \in {r \in rows : RowSeen(user, r, events)}} |->
     Cardinality({r \in rows : r.status = s /\ RowSeen(user, r, events)})]

-----------------------------------------------------------------------------
Statuses == {"new", "acknowledged", "resolved"}
\* The rule: the department's documents up to one's clearance.
Allowed(user, doc) ==
  \/ SeesAll(user)
  \/ /\ Known(user) /\ "department" \in DOMAIN doc /\ doc.department = user.department
     /\ "required_clearance" \in DOMAIN doc => doc.required_clearance <= user.clearance

\* The tiles, the counts and the pages of a viewer's alerts tell of the same
\* alerts, whichever severity is asked for, and each that is listed opens as
\* what is listed (alerts.py).
AlertsTally(user, alerts, events) ==
  \A severity \in {"any", "high", "critical"} :
    LET counts == Counts(user, alerts, events, severity, "any")
        page(i) == GetAlerts(user, alerts, events, severity, "any", i, 1)
    IN /\ counts.total = counts.new + counts.acknowledged + counts.resolved
       /\ \A i \in 0 .. 2 : page(i) # <<>> <=> i < counts.total
       /\ severity # "any" => counts[severity] = counts.total
       /\ counts.high = Counts(user, alerts, events, "any", "any").high
       /\ \A i \in 0 .. counts.total - 1 : {page(i)[1]} = GetAlert(user, alerts, events, page(i)[1].id)

\* An alert that is acknowledged is counted so, and no other changes.
StatusIsSet(user, alerts, events) ==
  \A a \in Found(alerts, AlertQuery(user, alerts, "any", "any")), s \in Statuses :
    LET after == SetStatus(alerts, a.id, s)
        count(docs) == Counts(user, docs, events, "any", "any")
    IN /\ count(after).total = count(alerts).total
       /\ count(after)[s] = count(alerts)[s] + (IF a.status = s THEN 0 ELSE 1)

\* Of events and incidents a viewer finds what the rule allows, no less and no
\* more, in both databases and however the query is narrowed; but whoever may open
\* an incident is shown its events, and that is the only way to one of another
\* department or clearance.  One direct grant more never hides anything
\* (abac_service.py, domain_service.py, incidents.py).
ScopeIsKept(user, events, incidents) ==
  LET inDomain(d) == DomainScope(user) = <<>> \/ Matches(d, DomainScope(user)[1])
      mayOpen(i)  == Allowed(user, i) /\ inDomain(i)
  IN
  /\ \A e \in events :
       /\ GetAlert(user, {}, events, e.event_id) # {} <=> Allowed(user, e)
       /\ "required_clearance" \in DOMAIN e => (SqlSees(user, e) <=> Allowed(user, e))
       /\ (\E i \in incidents : \E shown \in AutoGet(user, incidents, events, i.id) : e \in shown.related)
            <=> \E i \in incidents : mayOpen(i) /\ e \in RelatedEvents(i, events)
  /\ \A i \in incidents :
       /\ AutoGet(user, incidents, events, i.id) # {} <=> mayOpen(i)
       /\ \A s \in {"any", i.status} : i \in AutoList(user, incidents, s) <=> mayOpen(i)
       /\ AutoUpdate(user, incidents, i.id, "closed") # incidents => mayOpen(i)
  /\ \A p \in AllPermissions : Permissions(user) \subseteq Permissions([user EXCEPT !.direct = @ \cup {p}])

\* The list, the count, the statistics and the single view of incidents agree for
\* every viewer, and one that an analyst opened without an event is in them only
\* for who sees all departments (incident_service.py, incidents.py).
IncidentsTally(user, rows, events, incidents) ==
  LET stats == Statistics(user, rows, events)
      auto  == AutoStats(user, incidents)
  IN /\ \A s \in {"any", "open", "resolved"} :
          /\ CountIncidents(user, rows, events, s) = Len(ListIncidents(user, rows, events, s, 0, Cardinality(rows)))
          /\ s \in DOMAIN stats => stats[s] = CountIncidents(user, rows, events, s)
          /\ s # "any" /\ s \notin DOMAIN stats => CountIncidents(user, rows, events, s) = 0
     /\ \A r \in rows :
          GetIncident(user, rows, events, r.id) # {} <=>
            \E i \in 0 .. Cardinality(rows) : ListIncidents(user, rows, events, "any", i, 1) = <<r>>
     /\ \A r \in rows : r.event_id = "null" =>
          (GetIncident(user, rows, events, r.id) # {} <=> SeesAll(user))
     /\ auto.total = auto.open + auto.investigating + auto.resolved
                       + Cardinality(AutoList(user, incidents, "closed"))
     /\ auto.total = Cardinality(AutoList(user, incidents, "any"))
=============================================================================
