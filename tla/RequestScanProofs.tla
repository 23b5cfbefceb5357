------------------------- MODULE RequestScanProofs -------------------------
(***************************************************************************)
(* Theorems about the life of a request, for any threads, workers, users,  *)
(* tenants, texts and whatever the two detectors find in them.             *)
(***************************************************************************)
EXTENDS RequestScan, SequenceTheorems, BasicTheorems

RowOK(row) ==
  row \in [scan : Nat, run : Nat, by : {"regex", "presidio"}, spans : {row.spans},
           direction : Directions, tenant : Tenants, rid : Nat, service : Nat]

Stored(s) == PipelineReturns(s) \/ PipelineRaises(s) \/ PipelineRollsBack(s)
NoScan == UNCHANGED <<rows, queue, scans>>

-----------------------------------------------------------------------------
(***************************************************************************)
(* What is stored.                                                         *)
(***************************************************************************)
LEMMA GroupsWithin ==
  ASSUME NEW found
  PROVE  /\ \A group \in ByAsset(found) : group \subseteq found
         /\ \A group \in {{x} : x \in found} : group \subseteq found
BY DEF ByAsset

LEMMA RegexFields ==
  ASSUME TypeOK, NEW s \in Scans, NEW row \in RegexEvents(s)
  PROVE  /\ RowOK(row) /\ row.scan = Len(scans) + 1 /\ row.by = "regex"
         /\ row.spans \subseteq RegexScan(s.text)
         /\ row.direction = s.direction /\ row.tenant = s.tenant /\ row.rid = s.rid
         /\ row.service = s.service
<1> DEFINE found == RegexScan(s.text)
           groups == IF s.direction = "egress" THEN {{x} : x \in found} ELSE ByAsset(found)
<1>1. /\ Len(scans) + 1 \in Nat /\ s.direction \in Directions /\ s.tenant \in Tenants
      /\ s.rid \in Nat /\ s.service \in Nat
  BY DEF TypeOK, Scans
<1>2. row \in EventsOf(groups, Len(scans) + 1, 0, "regex", s)
  BY DEF RegexEvents
<1>3. \A group \in groups : group \subseteq found
  BY GroupsWithin
<1> HIDE DEF groups
<1>4. /\ RowOK(row) /\ row.scan = Len(scans) + 1 /\ row.by = "regex" /\ row.spans \in groups
      /\ row.direction = s.direction /\ row.tenant = s.tenant /\ row.rid = s.rid
      /\ row.service = s.service
  BY <1>1, <1>2 DEF EventsOf, RowOK
<1> QED  BY <1>3, <1>4

TaskOf(s) == [scan |-> Len(scans) + 1, run |-> 0, text |-> s.text, direction |-> s.direction,
              tenant |-> s.tenant, rid |-> s.rid, service |-> s.service]

\* A pipeline run adds one scan, and no task or row that is not of it.
LEMMA StoredOne ==
  ASSUME NEW s, Stored(s)
  PROVE  /\ scans' = Append(scans, s)
         /\ queue' \subseteq queue \cup {TaskOf(s)}
         /\ rows' \subseteq rows \cup RegexEvents(s)
BY DEF Stored, PipelineReturns, PipelineRaises, PipelineRollsBack, Enqueue, TaskOf

LEMMA StoredType ==
  ASSUME TypeOK, NEW s \in Scans, Stored(s)
  PROVE  /\ scans' \in Seq(Scans) /\ queue' \subseteq Tasks /\ failures' \in Nat
         /\ \A row \in rows' : RowOK(row)
<1>1. TaskOf(s) \in Tasks
  BY DEF TypeOK, TaskOf, Tasks, Scans
<1>2. failures' \in Nat
  BY DEF Stored, PipelineReturns, PipelineRaises, PipelineRollsBack, TypeOK
<1>3. \A row \in rows : RowOK(row)
  BY DEF TypeOK, RowOK
<1>4. \A row \in RegexEvents(s) : RowOK(row)
  BY RegexFields
<1>5. scans' \in Seq(Scans)
  <2>1. scans \in Seq(Scans)
    BY DEF TypeOK
  <2>2. scans' = Append(scans, s)
    BY StoredOne
  <2> QED  BY <2>1, <2>2
<1>6. queue' \subseteq Tasks
  <2>1. queue \subseteq Tasks
    BY DEF TypeOK
  <2> QED  BY <1>1, <2>1, StoredOne
<1>7. \A row \in rows' : RowOK(row)
  BY <1>3, <1>4, StoredOne, Zenon
<1> QED  BY <1>2, <1>5, <1>6, <1>7

LEMMA QuietType ==
  ASSUME TypeOK, Quiet
  PROVE  /\ scans' \in Seq(Scans) /\ queue' \subseteq Tasks /\ failures' \in Nat
         /\ \A row \in rows' : RowOK(row)
BY DEF Quiet, TypeOK, RowOK

LEMMA NoScanType ==
  ASSUME TypeOK, NoScan
  PROVE  /\ scans' \in Seq(Scans) /\ queue' \subseteq Tasks
         /\ \A row \in rows' : RowOK(row)
BY DEF NoScan, TypeOK, RowOK

LEMMA UnrecordedType ==
  ASSUME TypeOK, NEW t, NEW via \in {"view", "pool", "stream"},
         NEW why \in {"no tenant", "deleted tenant", "failure"}, Unrecorded(t, via, why)
  PROVE  missed' \subseteq Misses
<1>1. [via |-> via, why |-> why] \in Misses
  BY DEF Misses
<1> QED  BY <1>1 DEF TypeOK, Unrecorded

LEMMA ResolveType ==
  ASSUME TypeOK, NEW r \in Requests
  PROVE  /\ ResolveTenant(r) \in Tenants \cup {NoTenant}
         /\ r.cached # Unresolved => ResolveTenant(r) = r.cached
BY RequestAssumption DEF TypeOK, Requests, ResolveTenant, Default, Authenticated

LEMMA BodyScanType ==
  ASSUME TypeOK, NEW t \in Threads, NEW r \in Requests, NEW direction \in Directions,
         NEW text \in Texts, NEW tenant \in Tenants
  PROVE  BodyScan(t, r, direction, text, tenant) \in Scans
BY DEF BodyScan, Scans, Requests, NoService

LEMMA EntitledType ==
  ASSUME NEW user, NEW tenants PROVE Entitled(user, tenants) \in BOOLEAN
BY DEF Entitled

LEMMA FreeType == Free \in Requests /\ Fresh \in Contexts
BY DEF Free, Fresh, Requests, Contexts, NoRid

LEMMA Becomes ==
  ASSUME TypeOK, NEW t \in Threads, NEW r \in Requests, Become(t, r)
  PROVE  /\ req' \in [Threads -> Requests] /\ req'[t] = r
         /\ \A u \in Threads \ {t} : req'[u] = req[u]
BY DEF Become, TypeOK

LEMMA RequestTypeInit == Init => TypeOK
<1> SUFFICES ASSUME Init PROVE TypeOK
  OBVIOUS
<1>1. \A t \in Threads : req[t] = Free /\ ctx[t] = Fresh
  BY DEF Init
<1>2. req \in [Threads -> Requests] /\ ctx \in [Threads -> Contexts]
  BY <1>1, FreeType DEF Init
<1> QED  BY <1>2, RequestAssumption DEF Init, TypeOK, NoService

\* Every pk that was given is a tenant's service or was deleted.
Pks ==
  /\ \A tenant \in Tenants : service[tenant] \in 0..services
  /\ \A pk \in 1..services : pk \in deleted \/ \E tenant \in Tenants : service[tenant] = pk

TypeInv == TypeOK /\ Pks

\* A recording whose service is there: it scans nothing, or one text.
LEMMA CallStores ==
  ASSUME TypeInv, NEW t \in Threads, NEW c \in Contexts, NEW via \in {"view", "pool", "stream"},
         c.tenant \in alive, missed' \subseteq Misses, Pks',
         services' \in Nat, service' \in [Tenants -> Nat], deleted \subseteq 1..services',
         service'[c.tenant] \in 0..services',
         UNCHANGED <<member, alive, ctx, req, worker, requests, changes, redeliveries, leaked, deleted>>,
         \/ Quiet
         \/ \E text \in Texts :
              Stored([text |-> text, direction |-> "egress", tenant |-> c.tenant,
                      rid |-> c.rid, service |-> service'[c.tenant],
                      serving |-> req[t].rid, leaked |-> t \in leaked])
  PROVE  /\ TypeInv'
         /\ \/ NoScan
            \/ /\ c.tenant \in alive
               /\ \E s \in Scans : /\ Stored(s) /\ s.tenant = c.tenant /\ s.rid = c.rid
                                   /\ s.serving = req[t].rid /\ s.leaked = (t \in leaked)
                                   /\ s.service \in 0..services'
<1> USE DEF TypeInv
<1>1. c.tenant \in alive /\ c.tenant \in Tenants /\ c.rid \in Nat /\ req[t].rid \in Nat
  BY DEF TypeOK, Contexts, Requests
<1>2. UNCHANGED <<member, alive, ctx, req, worker, requests, changes, redeliveries, leaked, deleted>>
  OBVIOUS
<1>3. CASE Quiet
  BY <1>2, <1>3, QuietType DEF TypeOK, RowOK, Quiet, NoScan
<1>4. ASSUME NEW text \in Texts,
             Stored([text |-> text, direction |-> "egress", tenant |-> c.tenant,
                     rid |-> c.rid, service |-> service'[c.tenant],
                     serving |-> req[t].rid, leaked |-> t \in leaked])
      PROVE  /\ TypeInv'
             /\ \E s \in Scans : /\ Stored(s) /\ s.tenant = c.tenant /\ s.rid = c.rid
                                 /\ s.serving = req[t].rid /\ s.leaked = (t \in leaked)
                                 /\ s.service \in 0..services'
  <2> DEFINE s == [text |-> text, direction |-> "egress", tenant |-> c.tenant,
                   rid |-> c.rid, service |-> service'[c.tenant],
                   serving |-> req[t].rid, leaked |-> t \in leaked]
  <2>1. service'[c.tenant] \in Nat /\ (t \in leaked) \in BOOLEAN
    BY <1>1
  <2>2. /\ s \in Scans /\ s.tenant = c.tenant /\ s.rid = c.rid
        /\ s.serving = req[t].rid /\ s.leaked = (t \in leaked)
        /\ s.service \in 0..services'
    BY <1>1, <2>1 DEF Scans, Directions
  <2>3. Stored(s)
    BY <1>4
  <2> HIDE DEF s
  <2>4. TypeOK'
    BY <1>2, <2>2, <2>3, StoredType DEF TypeOK, RowOK
  <2> QED  BY <2>2, <2>3, <2>4
<1> QED  BY <1>1, <1>3, <1>4

\* The ways a call is made: nothing is recorded of it, or its service is there.
LEMMA CallKinds ==
  ASSUME TypeInv, NEW t \in Threads, NEW c \in Contexts, NEW via \in {"view", "pool", "stream"},
         CallIn(t, c, via)
  PROVE  /\ missed' \subseteq Misses
         /\ UNCHANGED <<member, alive, ctx, req, worker, requests, changes, redeliveries,
                        leaked, deleted>>
         /\ \/ NoScan /\ UNCHANGED <<service, services>> /\ failures' \in Nat
            \/ /\ c.tenant \in alive /\ UpsertService(c.tenant)
               /\ \/ Quiet
                  \/ \E text \in Texts :
                       Stored([text |-> text, direction |-> "egress", tenant |-> c.tenant,
                               rid |-> c.rid, service |-> service'[c.tenant],
                               serving |-> req[t].rid, leaked |-> t \in leaked])
<1>1. TypeOK /\ missed \subseteq Misses /\ failures \in Nat
  BY DEF TypeInv, TypeOK
<1>2. UNCHANGED <<member, alive, ctx, req, worker, requests, changes, redeliveries, leaked, deleted>>
  BY DEF CallIn
<1>3. CASE Quiet /\ UNCHANGED <<service, services>>
           /\ (Unrecorded(t, via, "no tenant") \/ Unrecorded(t, via, "deleted tenant"))
  <2>1. NoScan /\ failures' = failures
    BY <1>3 DEF Quiet, NoScan
  <2>2. missed' \subseteq Misses
    BY <1>1, <1>3, UnrecordedType
  <2>3. NoScan /\ UNCHANGED <<service, services>> /\ failures' \in Nat
    BY <1>1, <1>3, <2>1
  <2> QED  BY <1>2, <2>2, <2>3
<1>4. CASE failures' = failures + 1 /\ Unrecorded(t, via, "failure")
           /\ UNCHANGED <<rows, queue, scans, service, services>>
  <2>1. missed' \subseteq Misses
    BY <1>1, <1>4, UnrecordedType
  <2>2. NoScan /\ UNCHANGED <<service, services>> /\ failures' \in Nat
    BY <1>1, <1>4 DEF NoScan
  <2> QED  BY <1>2, <2>1, <2>2
<1>5. CASE /\ c.tenant \in alive /\ UpsertService(c.tenant)
           /\ Quiet /\ UNCHANGED missed
  BY <1>1, <1>2, <1>5
<1>6. ASSUME c.tenant \in alive, UpsertService(c.tenant), NEW text \in Texts,
             LET s == [text |-> text, direction |-> "egress", tenant |-> c.tenant,
                       rid |-> c.rid, service |-> service'[c.tenant],
                       serving |-> req[t].rid, leaked |-> t \in leaked]
             IN  \/ PipelineReturns(s) /\ UNCHANGED missed
                 \/ (PipelineRaises(s) \/ PipelineRollsBack(s)) /\ Unrecorded(t, via, "failure")
      PROVE  /\ missed' \subseteq Misses
             /\ Stored([text |-> text, direction |-> "egress", tenant |-> c.tenant,
                        rid |-> c.rid, service |-> service'[c.tenant],
                        serving |-> req[t].rid, leaked |-> t \in leaked])
  <2>1. missed' = missed \/ Unrecorded(t, via, "failure")
    BY <1>6
  <2>2. missed' \subseteq Misses
    BY <1>1, <2>1, UnrecordedType
  <2> QED  BY <1>6, <2>2 DEF Stored
<1> QED  BY <1>2, <1>3, <1>4, <1>5, <1>6 DEF CallIn

\* An outbound call in the context of the thread, or in another one.
LEMMA CallType ==
  ASSUME TypeInv, NEW t \in Threads, NEW c \in Contexts, NEW via \in {"view", "pool", "stream"},
         CallIn(t, c, via)
  PROVE  /\ TypeInv'
         /\ services <= services'
         /\ \/ NoScan
            \/ /\ c.tenant \in alive
               /\ \E s \in Scans : /\ Stored(s) /\ s.tenant = c.tenant /\ s.rid = c.rid
                                   /\ s.serving = req[t].rid /\ s.leaked = (t \in leaked)
                                   /\ s.service \in 0..services'
<1> USE DEF TypeInv
<1>0. services \in Nat
  BY DEF TypeOK
<1>1. CASE NoScan /\ UNCHANGED <<service, services>> /\ failures' \in Nat
  BY <1>0, <1>1, CallKinds, NoScanType DEF TypeOK, RowOK, Pks
<1>2. CASE /\ c.tenant \in alive /\ UpsertService(c.tenant)
           /\ \/ Quiet
              \/ \E text \in Texts :
                   Stored([text |-> text, direction |-> "egress", tenant |-> c.tenant,
                           rid |-> c.rid, service |-> service'[c.tenant],
                           serving |-> req[t].rid, leaked |-> t \in leaked])
  <2>1. c.tenant \in alive /\ c.tenant \in Tenants /\ service \in [Tenants -> Nat]
    BY <1>2 DEF TypeOK
  <2>2. /\ UNCHANGED <<member, alive, ctx, req, worker, requests, changes, redeliveries, leaked, deleted>>
        /\ missed' \subseteq Misses
    BY CallKinds
  <2>3. CASE service[c.tenant] = NoService
    <3>1. services' = services + 1 /\ service' = [service EXCEPT ![c.tenant] = services + 1]
      BY <1>2, <2>3 DEF UpsertService
    <3>2. services' \in Nat /\ service' \in [Tenants -> Nat] /\ deleted \subseteq 1..services'
      BY <1>0, <2>1, <3>1 DEF TypeOK
    <3>3. service'[c.tenant] \in 0..services'
      BY <1>0, <2>1, <3>1
    <3>4. Pks'
      <4>1. \A tenant \in Tenants : service'[tenant] \in 0..services'
        BY <1>0, <2>1, <3>1 DEF Pks
      <4>2. ASSUME NEW pk \in 1..services'
            PROVE  pk \in deleted \/ \E tenant \in Tenants : service'[tenant] = pk
        <5>1. CASE pk = services + 1
          BY <2>1, <3>1, <5>1
        <5>2. CASE pk # services + 1
          <6>1. pk \in 1..services
            BY <1>0, <3>1, <5>2
          <6>2. CASE pk \in deleted
            BY <6>2
          <6>3. ASSUME NEW tenant \in Tenants, service[tenant] = pk
                PROVE  \E other \in Tenants : service'[other] = pk
            BY <2>1, <2>3, <3>1, <6>1, <6>3 DEF NoService
          <6> QED  BY <6>1, <6>2, <6>3 DEF Pks
        <5> QED  BY <5>1, <5>2
      <4> QED  BY <2>2, <4>1, <4>2 DEF Pks
    <3>5. services <= services'
      BY <1>0, <3>1
    <3> QED  BY <1>2, <2>1, <2>2, <3>2, <3>3, <3>4, <3>5, CallStores
  <2>4. CASE service[c.tenant] # NoService
    <3>1. services' = services /\ service' = service
      BY <1>2, <2>4 DEF UpsertService
    <3>2. services' \in Nat /\ service' \in [Tenants -> Nat] /\ deleted \subseteq 1..services'
      BY <1>0, <2>1, <3>1 DEF TypeOK
    <3>3. service'[c.tenant] \in 0..services' /\ Pks' /\ services <= services'
      BY <1>0, <2>1, <2>2, <3>1 DEF Pks
    <3> QED  BY <1>2, <2>1, <2>2, <3>2, <3>3, CallStores
  <2> QED  BY <2>3, <2>4
<1> QED  BY <1>1, <1>2, CallKinds

\* What a scan of the middleware leaves well typed.
LEMMA BodyType ==
  ASSUME TypeInv, NEW t \in Threads, NEW r \in Requests, NEW direction \in Directions,
         NEW text \in Texts, NEW tenant \in Tenants, Stored(BodyScan(t, r, direction, text, tenant)),
         req' \in [Threads -> Requests], leaked' \subseteq Threads,
         UNCHANGED <<member, alive, ctx, service, worker, requests, changes, redeliveries,
                     missed, services, deleted>>
  PROVE  TypeInv'
<1> DEFINE s == BodyScan(t, r, direction, text, tenant)
<1>1. s \in Scans /\ Stored(s)
  BY BodyScanType DEF TypeInv
<1> HIDE DEF s
<1> QED  BY <1>1, StoredType DEF TypeInv, TypeOK, RowOK, Pks

LEMMA ThreadStep ==
  ASSUME TypeInv, NEW t \in Threads
  PROVE  /\ \A user \in Users \cup {Anonymous} : ArriveSkipped(t, user) \/ Arrive(t, user) => TypeInv'
         /\ ScanInbound(t) \/ FailsEarly(t) \/ SetTenant(t) => TypeInv'
         /\ OutboundCall(t) \/ PoolCall(t) \/ StreamCall(t) => TypeInv'
         /\ \A user \in Users : Login(t, user) => TypeInv'
         /\ Reset(t) \/ ScanOutbound(t) \/ Close(t) => TypeInv'
         /\ \A tenant \in Tenants : JobStart(t, tenant) => TypeInv'
<1> USE DEF TypeInv
<1>0. /\ req[t] \in Requests /\ ctx[t] \in Contexts /\ Free \in Requests
      /\ ResolveTenant(req[t]) \in Tenants \cup {NoTenant}
  BY FreeType, ResolveType DEF TypeOK
<1>1. ASSUME NEW user \in Users \cup {Anonymous}, ArriveSkipped(t, user) PROVE TypeInv'
  <2> DEFINE r == [Free EXCEPT !.at = "view", !.user = user, !.skip = TRUE, !.saved = ctx[t]]
  <2>1. r \in Requests
    BY <1>0 DEF Requests
  <2>2. Become(t, r)
    BY <1>1 DEF ArriveSkipped
  <2>3. req' \in [Threads -> Requests] /\ requests' \in Nat
    BY <1>1, <2>1, <2>2, Becomes DEF ArriveSkipped, TypeOK
  <2> QED  BY <1>1, <2>3 DEF ArriveSkipped, TypeOK, Pks, broker
<1>2. ASSUME NEW user \in Users \cup {Anonymous}, Arrive(t, user) PROVE TypeInv'
  <2> DEFINE e == Entitled(user, member)
             n == requests'
             r == [Free EXCEPT !.at = "inbound", !.rid = n, !.user = user, !.saved = ctx[t], !.entitled = e]
  <2>1. e \in BOOLEAN /\ n \in Nat
    BY <1>2, EntitledType DEF Arrive, TypeOK
  <2>2. Become(t, r)
    BY <1>2 DEF Arrive
  <2> HIDE DEF e, n
  <2>3. r \in Requests
    BY <1>0, <2>1 DEF Requests
  <2>4. req' \in [Threads -> Requests]
    BY <2>2, <2>3, Becomes
  <2>5. ctx' \in [Threads -> Contexts]
    BY <1>0, <1>2, <2>1 DEF Arrive, TypeOK, Contexts, n
  <2> QED  BY <1>2, <2>1, <2>4, <2>5 DEF Arrive, TypeOK, Pks, broker, n
<1>3. ASSUME ScanInbound(t) PROVE TypeInv'
  <2> DEFINE tenant == ResolveTenant(req[t])
             r1 == [req[t] EXCEPT !.at = "tenant"]
             r2 == [req[t] EXCEPT !.at = "tenant", !.cached = tenant]
  <2>1. r1 \in Requests /\ r2 \in Requests
    BY <1>0 DEF Requests
  <2>2. UNCHANGED <<member, alive, ctx, service, worker, requests, changes, redeliveries,
                    leaked, missed, services, deleted>>
    BY <1>3 DEF ScanInbound
  <2>3. CASE (Become(t, r1) /\ Quiet) \/ (Become(t, r2) /\ Quiet)
    <3>1. req' \in [Threads -> Requests]
      BY <2>1, <2>3, Becomes
    <3> QED  BY <2>2, <2>3, <3>1, QuietType DEF TypeOK, RowOK, Pks
  <2>4. ASSUME Become(t, r2), tenant # NoTenant, NEW text \in Texts,
               PipelineReturns(BodyScan(t, req[t], "inbound", text, tenant))
        PROVE  TypeInv'
    <3>1. req' \in [Threads -> Requests] /\ leaked' \subseteq Threads /\ "inbound" \in Directions
      BY <2>1, <2>2, <2>4, Becomes DEF TypeOK, Directions
    <3>2. tenant \in Tenants /\ Stored(BodyScan(t, req[t], "inbound", text, tenant))
      BY <1>0, <2>4 DEF Stored
    <3> HIDE DEF tenant
    <3> QED  BY <1>0, <2>2, <3>1, <3>2, BodyType
  <2> QED  BY <1>3, <2>3, <2>4 DEF ScanInbound
<1>4. ASSUME FailsEarly(t) PROVE TypeInv'
  <2> DEFINE tenant == ResolveTenant(req[t])
  <2>1. /\ UNCHANGED <<member, alive, ctx, service, worker, requests, changes, redeliveries,
                       missed, services, deleted>>
        /\ Become(t, Free) /\ leaked' \subseteq Threads
    BY <1>4 DEF FailsEarly, TypeOK
  <2>2. req' \in [Threads -> Requests]
    BY <1>0, <2>1, Becomes
  <2>3. CASE failures' = failures + 1 /\ UNCHANGED <<rows, queue, scans>>
    BY <2>1, <2>2, <2>3 DEF TypeOK, Pks
  <2>4. ASSUME tenant # NoTenant, NEW text \in Texts,
               PipelineRaises(BodyScan(t, req[t], "inbound", text, tenant))
        PROVE  TypeInv'
    <3>1. tenant \in Tenants /\ Stored(BodyScan(t, req[t], "inbound", text, tenant))
          /\ "inbound" \in Directions
      BY <1>0, <2>4 DEF Stored, Directions
    <3> HIDE DEF tenant
    <3> QED  BY <1>0, <2>1, <2>2, <3>1, BodyType
  <2> QED  BY <1>4, <2>3, <2>4 DEF FailsEarly
<1>5. ASSUME SetTenant(t) PROVE TypeInv'
  <2> DEFINE tenant == ResolveTenant(req[t])
             r == [req[t] EXCEPT !.at = "view", !.cached = tenant]
  <2>1. r \in Requests
    BY <1>0 DEF Requests
  <2>2. Become(t, r) /\ ctx' = [ctx EXCEPT ![t].tenant = tenant]
    BY <1>5 DEF SetTenant
  <2>3. req' \in [Threads -> Requests] /\ ctx' \in [Threads -> Contexts]
    BY <1>0, <2>1, <2>2, Becomes DEF TypeOK, Contexts
  <2> QED  BY <1>5, <2>3 DEF SetTenant, TypeOK, Pks, broker, bounds
<1>6. OutboundCall(t) => TypeInv'
  BY <1>0, CallType DEF OutboundCall
<1>7. PoolCall(t) => TypeInv'
  BY <1>0, CallType, FreeType DEF PoolCall
<1>8. StreamCall(t) => TypeInv'
  BY <1>0, CallType DEF StreamCall
<1>9. ASSUME NEW user \in Users, Login(t, user) PROVE TypeInv'
  <2>1. [req[t] EXCEPT !.user = user] \in Requests
    BY <1>0 DEF Requests
  <2>2. req' \in [Threads -> Requests]
    BY <1>9, <2>1, Becomes DEF Login
  <2> QED  BY <1>9, <2>2 DEF Login, TypeOK, Pks, broker, bounds
<1>10. ASSUME Reset(t) PROVE TypeInv'
  <2>1. [req[t] EXCEPT !.at = "outbound"] \in Requests /\ req[t].saved \in Contexts
    BY <1>0 DEF Requests
  <2>2. req' \in [Threads -> Requests]
    BY <1>0, <1>10, <2>1, Becomes DEF Reset
  <2>3. ctx' \in [Threads -> Contexts]
    BY <1>10, <2>1 DEF Reset, TypeOK
  <2> QED  BY <1>10, <2>2, <2>3 DEF Reset, TypeOK, Pks, broker, bounds
<1>11. ASSUME ScanOutbound(t) PROVE TypeInv'
  <2> DEFINE tenant == ResolveTenant(req[t])
  <2>1. [req[t] EXCEPT !.at = "stream"] \in Requests
    BY <1>0 DEF Requests
  <2>2. UNCHANGED <<member, alive, ctx, service, worker, requests, changes, redeliveries,
                    leaked, missed, services, deleted>>
    BY <1>11 DEF ScanOutbound
  <2>3. CASE Become(t, [req[t] EXCEPT !.at = "stream"]) /\ Quiet
    <3>1. req' \in [Threads -> Requests]
      BY <2>1, <2>3, Becomes
    <3> QED  BY <2>2, <2>3, <3>1, QuietType DEF TypeOK, RowOK, Pks
  <2>4. ASSUME Become(t, Free), tenant # NoTenant, NEW text \in Texts,
               Stored(BodyScan(t, req[t], "outbound", text, tenant))
        PROVE  TypeInv'
    <3>1. req' \in [Threads -> Requests] /\ leaked' \subseteq Threads /\ "outbound" \in Directions
      BY <1>0, <2>2, <2>4, Becomes DEF TypeOK, Directions
    <3>2. tenant \in Tenants
      BY <1>0, <2>4
    <3> HIDE DEF tenant
    <3> QED  BY <1>0, <2>2, <2>4, <3>1, <3>2, BodyType
  <2> QED  BY <1>11, <2>3, <2>4 DEF ScanOutbound, Stored
<1>12. ASSUME Close(t) PROVE TypeInv'
  <2>1. req' \in [Threads -> Requests]
    BY <1>0, <1>12, Becomes DEF Close
  <2>2. ctx' \in [Threads -> Contexts]
    <3>1. req[t].saved.tenant \in Tenants \cup {NoTenant}
      BY <1>0 DEF Requests, Contexts
    <3> QED  BY <1>0, <1>12, <3>1 DEF Close, TypeOK, Contexts
  <2> QED  BY <1>12, <2>1, <2>2 DEF Close, TypeOK, Pks, broker, bounds
<1>13. ASSUME NEW tenant \in Tenants, JobStart(t, tenant) PROVE TypeInv'
  <2>1. [Free EXCEPT !.at = "job", !.saved = ctx[t]] \in Requests
    BY <1>0 DEF Requests
  <2>2. req' \in [Threads -> Requests] /\ requests' \in Nat
    BY <1>13, <2>1, Becomes DEF JobStart, TypeOK
  <2>3. ctx' \in [Threads -> Contexts]
    BY <1>0, <1>13 DEF JobStart, TypeOK, Contexts
  <2> QED  BY <1>13, <2>2, <2>3 DEF JobStart, TypeOK, Pks, broker
<1> QED
  BY <1>1, <1>2, <1>3, <1>4, <1>5, <1>6, <1>7, <1>8, <1>9, <1>10, <1>11, <1>12, <1>13

\* What a task stores.
LEMMA TaskEvents ==
  ASSUME TypeOK, NEW task \in Tasks, NEW found,
         NEW row \in EventsOf(ByAsset(found), task.scan, task.run, "presidio", task)
  PROVE  /\ RowOK(row) /\ row.scan = task.scan /\ row.by = "presidio" /\ row.spans \subseteq found
         /\ row.direction = task.direction /\ row.tenant = task.tenant /\ row.rid = task.rid
         /\ row.service = task.service
<1>1. \A group \in ByAsset(found) : group \subseteq found
  BY GroupsWithin
<1>2. task.scan \in Nat /\ task.run \in Nat /\ task.direction \in Directions
      /\ task.tenant \in Tenants /\ task.rid \in Nat /\ task.service \in Nat
  BY DEF Tasks
<1>3. PICK spans \in ByAsset(found) :
        row = [scan |-> task.scan, run |-> task.run, by |-> "presidio", spans |-> spans,
               direction |-> task.direction, tenant |-> task.tenant, rid |-> task.rid,
               service |-> task.service]
  BY DEF EventsOf
<1>4. /\ row.scan = task.scan /\ row.by = "presidio" /\ row.spans = spans
      /\ row.direction = task.direction /\ row.tenant = task.tenant /\ row.rid = task.rid
      /\ row.service = task.service
  BY <1>3
<1>5. RowOK(row)
  BY <1>2, <1>3 DEF RowOK
<1> QED  BY <1>1, <1>4, <1>5

LEMMA Remembers ==
  ASSUME TypeOK, NEW m, Remember(m)
  PROVE  /\ req' \in [Threads -> Requests] /\ changes' \in Nat /\ member' = m
         /\ \A t \in Threads : \E e \in BOOLEAN : req'[t] = [req[t] EXCEPT !.entitled = e]
<1>1. ASSUME NEW t \in Threads
      PROVE  \E e \in BOOLEAN : req'[t] = [req[t] EXCEPT !.entitled = e]
  <2> DEFINE e == req[t].entitled /\ Entitled(req[t].user, m)
  <2>1. req'[t] = [req[t] EXCEPT !.entitled = e]
    BY DEF Remember
  <2>2. e \in BOOLEAN
    OBVIOUS
  <2> HIDE DEF e
  <2> QED  BY <2>1, <2>2
<1>2. ASSUME NEW t \in Threads PROVE req'[t] \in Requests
  <2>1. req[t] \in Requests
    BY DEF TypeOK
  <2> QED  BY <1>1, <2>1 DEF Requests
<1>3. req' = [t \in Threads |-> req'[t]]
  BY DEF Remember
<1>4. req' \in [Threads -> Requests]
  <2> DEFINE q == req'
  <2> HIDE DEF q
  <2>1. q = [t \in Threads |-> q[t]] /\ \A t \in Threads : q[t] \in Requests
    BY <1>2, <1>3 DEF q
  <2>2. q \in [Threads -> Requests]
    BY <2>1
  <2> QED  BY <2>2 DEF q
<1>5. changes' \in Nat /\ member' = m
  BY DEF Remember, TypeOK
<1> QED  BY <1>1, <1>4, <1>5

\* A service is deleted.
LEMMA UnlinkKeeps ==
  ASSUME TypeInv, NEW tenant \in Tenants, service' = [service EXCEPT ![tenant] = NoService],
         deleted' = deleted \cup ({service[tenant]} \ {NoService}), UNCHANGED services
  PROVE  service' \in [Tenants -> Nat] /\ deleted' \subseteq 1..services' /\ Pks'
<1>1. service \in [Tenants -> Nat] /\ services \in Nat /\ deleted \subseteq 1..services
  BY DEF TypeInv, TypeOK
<1>2. \A x \in Tenants : service[x] \in 0..services
  BY DEF TypeInv, Pks
<1>3. service' \in [Tenants -> Nat] /\ \A x \in Tenants : service'[x] \in 0..services'
  BY <1>1, <1>2 DEF NoService
<1>4. deleted' \subseteq 1..services'
  <2>1. service[tenant] # 0 => service[tenant] \in 1..services
    BY <1>1, <1>2
  <2> QED  BY <1>1, <2>1 DEF NoService
<1>5. ASSUME NEW pk \in 1..services' PROVE pk \in deleted' \/ \E x \in Tenants : service'[x] = pk
  <2>1. CASE pk \in deleted
    BY <2>1
  <2>2. ASSUME NEW x \in Tenants, service[x] = pk
        PROVE  pk \in deleted' \/ \E y \in Tenants : service'[y] = pk
    BY <1>1, <2>2 DEF NoService
  <2> QED  BY <2>1, <2>2 DEF TypeInv, Pks
<1> QED  BY <1>3, <1>4, <1>5 DEF Pks

LEMMA TypeStep == ASSUME TypeInv, [Next]_vars PROVE TypeInv'
<1> USE DEF TypeInv
<1>1. ASSUME NEW w \in Workers, NEW task \in queue, Take(w, task) PROVE TypeInv'
  <2>1. /\ task \in Tasks /\ [task EXCEPT !.run = @ + 1] \in Tasks
        /\ [task EXCEPT !.service = IF ServiceExists(@) THEN @ ELSE NoService] \in Tasks
    <3>1. task \in Tasks
      BY DEF TypeOK
    <3>2. (IF ServiceExists(task.service) THEN task.service ELSE NoService) \in Nat
      BY <3>1 DEF Tasks, NoService
    <3> QED  BY <3>1, <3>2 DEF Tasks
  <2>2. queue' \subseteq Tasks
    BY <1>1, <2>1 DEF Take, TypeOK
  <2>3. worker' \in [Workers -> Tasks \cup {NoTask}]
    BY <1>1, <2>1 DEF Take, TypeOK
  <2>4. redeliveries' \in Nat
    BY <1>1 DEF Take, TypeOK
  <2> QED  BY <1>1, <2>2, <2>3, <2>4 DEF Take, TypeOK, Pks
<1>2. ASSUME NEW w \in Workers, TaskPersist(w) PROVE TypeInv'
  <2>1. worker' \in [Workers -> Tasks \cup {NoTask}] /\ worker[w] \in Tasks
    BY <1>2 DEF TaskPersist, TypeOK
  <2>2. \A row \in rows' : RowOK(row)
    <3> DEFINE found == DedupeAgainst(PresidioScan(worker[w].text), RegexScan(worker[w].text))
               new == EventsOf(ByAsset(found), worker[w].scan, worker[w].run, "presidio", worker[w])
    <3>1. rows' \subseteq rows \cup new
      BY <1>2 DEF TaskPersist
    <3>2. \A row \in new : RowOK(row)
      BY <2>1, TaskEvents
    <3>3. \A row \in rows : RowOK(row)
      BY DEF TypeOK, RowOK
    <3> HIDE DEF new
    <3> QED  BY <3>1, <3>2, <3>3
  <2> QED  BY <1>2, <2>1, <2>2 DEF TaskPersist, TypeOK, RowOK, Pks, bounds
<1>3. ASSUME NEW w \in Workers, TaskLost(w) PROVE TypeInv'
  BY <1>3 DEF TaskLost, TypeOK, Pks
<1>4. ASSUME NEW user \in Users, NEW tenant \in Tenants \cup {NoTenant}, ChangeMembership(user, tenant)
      PROVE  TypeInv'
  <2>1. Remember([member EXCEPT ![user] = tenant])
    BY <1>4 DEF ChangeMembership
  <2>2. req' \in [Threads -> Requests] /\ changes' \in Nat /\ member' = [member EXCEPT ![user] = tenant]
    BY <2>1, Remembers
  <2> QED  BY <1>4, <2>2 DEF ChangeMembership, TypeOK, Pks, broker
<1>5. ASSUME NEW tenant \in Tenants, NEW other \in Tenants \cup {NoTenant}, DeleteTenant(tenant, other)
      PROVE  TypeInv'
  <2> DEFINE m == [u \in Users |-> IF member[u] = tenant THEN other ELSE member[u]]
  <2>1. Remember(m) /\ m \in [Users -> Tenants \cup {NoTenant}]
    BY <1>5 DEF DeleteTenant, TypeOK
  <2> HIDE DEF m
  <2>2. req' \in [Threads -> Requests] /\ changes' \in Nat /\ member' = m
    BY <2>1, Remembers
  <2>3. /\ alive' \subseteq Tenants /\ rows' \subseteq rows
        /\ service' = [service EXCEPT ![tenant] = NoService]
        /\ deleted' = deleted \cup ({service[tenant]} \ {NoService}) /\ UNCHANGED services
    BY <1>5 DEF DeleteTenant, TypeOK
  <2>4. service' \in [Tenants -> Nat] /\ deleted' \subseteq 1..services' /\ Pks'
    BY <2>3, UnlinkKeeps
  <2>5. \A row \in rows' : RowOK(row)
    BY <2>3 DEF TypeOK, RowOK
  <2> QED  BY <1>5, <2>1, <2>2, <2>3, <2>4, <2>5 DEF DeleteTenant, TypeOK, RowOK, broker
<1>6. ASSUME NEW tenant \in Tenants, DeleteService(tenant) PROVE TypeInv'
  <2>1. /\ service' = [service EXCEPT ![tenant] = NoService]
        /\ deleted' = deleted \cup ({service[tenant]} \ {NoService}) /\ UNCHANGED services
        /\ changes' \in Nat
    BY <1>6 DEF DeleteService, TypeOK
  <2>2. service' \in [Tenants -> Nat] /\ deleted' \subseteq 1..services' /\ Pks'
    BY <2>1, UnlinkKeeps
  <2>3. \A row \in rows' : RowOK(row)
    <3>1. ASSUME NEW row \in rows
          PROVE  RowOK([row EXCEPT !.service = IF @ = service[tenant] THEN NoService ELSE @])
      <4>1. RowOK(row)
        BY DEF TypeOK, RowOK
      <4>2. (IF row.service = service[tenant] THEN NoService ELSE row.service) \in Nat
        BY <4>1 DEF RowOK, NoService
      <4> QED  BY <4>1, <4>2 DEF RowOK
    <3> QED  BY <1>6, <3>1 DEF DeleteService
  <2> QED  BY <1>6, <2>1, <2>2, <2>3 DEF DeleteService, TypeOK, RowOK, broker
<1>7. ASSUME NEW t \in Threads,
             \/ \E user \in Users \cup {Anonymous} : ArriveSkipped(t, user) \/ Arrive(t, user)
             \/ ScanInbound(t) \/ FailsEarly(t) \/ SetTenant(t)
             \/ OutboundCall(t) \/ PoolCall(t) \/ StreamCall(t)
             \/ \E user \in Users : Login(t, user)
             \/ Reset(t) \/ ScanOutbound(t) \/ Close(t)
             \/ \E tenant \in Tenants : JobStart(t, tenant)
      PROVE  TypeInv'
  BY <1>7, ThreadStep
<1>8. ASSUME UNCHANGED vars PROVE TypeInv'
  BY <1>8 DEF vars, broker, bounds, TypeOK, Pks
<1> QED
  BY <1>1, <1>2, <1>3, <1>4, <1>5, <1>6, <1>7, <1>8 DEF Next

LEMMA TypeInvInit == Init => TypeInv
BY RequestTypeInit DEF Init, TypeInv, Pks, NoService

\* Whatever the threads, the workers and the operators do, the state stays well
\* typed, and no service's pk is lost.
THEOREM RequestTypes == Spec => []TypeOK
<1>1. TypeInv /\ [Next]_vars => TypeInv'
  BY TypeStep
<1>2. TypeInv => TypeOK
  BY DEF TypeInv
<1> QED  BY <1>1, <1>2, TypeInvInit, PTL DEF Spec

-----------------------------------------------------------------------------
(***************************************************************************)
(* One tenant per request.  A request that is not skipped has an id of its *)
(* own.  Once its tenant is looked up, the tenant is cached on it, and the *)
(* context its view runs in has the same one; a scan made for it keeps its *)
(* tenant.  Outside of a view and of a job, the context has no tenant; an  *)
(* id that is not a running request's is in the context of a thread that a *)
(* failed request left it on.                                              *)
(***************************************************************************)
Active(r) == r.at \in {"inbound", "tenant", "view", "outbound", "stream"} /\ ~r.skip

ThreadOK(t) ==
  LET r == req[t]
  IN  /\ r.rid <= requests /\ ctx[t].rid <= requests /\ r.saved.rid <= requests
      /\ r.rid # NoRid <=> Active(r)
      /\ r.skip => r.at = "view"
      /\ r.at # "idle" => r.saved.tenant = NoTenant /\ (r.saved.rid # NoRid => t \in leaked)
      /\ IF Active(r) /\ r.at = "view" THEN r.cached # Unresolved /\ ctx[t].tenant = r.cached
         ELSE r.at = "job" \/ ctx[t].tenant = NoTenant
      /\ IF Active(r) /\ r.at \in {"inbound", "tenant", "view"} THEN ctx[t].rid = r.rid
         ELSE ctx[t].rid # NoRid => t \in leaked

ThreadInv ==
  /\ \A t \in Threads : ThreadOK(t)
  /\ \A t, u \in Threads : t # u /\ req[t].rid = req[u].rid => req[t].rid = NoRid

ScanInv ==
  /\ \A i \in DOMAIN scans :
       /\ scans[i].serving <= requests /\ scans[i].service \in 0..services
       /\ scans[i].rid = scans[i].serving \/ (scans[i].leaked /\ scans[i].serving = NoRid)
       /\ \A t \in Threads :
            req[t].rid = scans[i].serving /\ req[t].rid # NoRid => req[t].cached = scans[i].tenant
  /\ OneTenantPerRequest

\* The thread of a step has the id it had, none, or a new one; the other threads do
\* not notice.
OnlyThread(t) ==
  /\ \A u \in Threads \ {t} : req'[u] = req[u] /\ ctx'[u] = ctx[u]
  /\ leaked \subseteq leaked' /\ requests <= requests'
  /\ \/ req'[t].rid \in {req[t].rid, NoRid}
     \/ req'[t].rid = requests + 1

LEMMA ThreadKeeps ==
  ASSUME TypeInv, TypeInv', ThreadInv, NEW t \in Threads, OnlyThread(t), ThreadOK(t)'
  PROVE  ThreadInv'
<1>0. requests \in Nat /\ requests' \in Nat
      /\ \A u \in Threads : /\ req[u].rid \in Nat /\ ctx[u].rid \in Nat /\ req[u].saved.rid \in Nat
                            /\ req'[u].rid \in Nat
  BY DEF TypeInv, TypeOK, Requests, Contexts
<1>1. ASSUME NEW u \in Threads PROVE ThreadOK(u)'
  <2>1. CASE u = t
    BY <2>1
  <2>2. CASE u # t
    <3>1. req'[u] = req[u] /\ ctx'[u] = ctx[u] /\ requests <= requests' /\ (u \in leaked => u \in leaked')
      BY <2>2 DEF OnlyThread
    <3>2. ThreadOK(u)
      BY DEF ThreadInv
    <3> QED  BY <1>0, <3>1, <3>2 DEF ThreadOK, Active
  <2> QED  BY <2>1, <2>2
<1>2. ASSUME NEW u \in Threads, NEW v \in Threads, u # v, req'[u].rid = req'[v].rid
      PROVE  req'[u].rid = NoRid
  <2>1. req[u].rid <= requests /\ req[v].rid <= requests
    BY DEF ThreadInv, ThreadOK
  <2>2. CASE u # t /\ v # t
    BY <1>2, <2>2 DEF OnlyThread, ThreadInv
  <2>3. CASE u = t
    BY <1>0, <1>2, <2>1, <2>3 DEF OnlyThread, ThreadInv
  <2>4. CASE v = t
    BY <1>0, <1>2, <2>1, <2>4 DEF OnlyThread, ThreadInv
  <2> QED  BY <2>2, <2>3, <2>4
<1> QED  BY <1>1, <1>2 DEF ThreadInv

LEMMA ScanType ==
  ASSUME TypeInv, NEW i \in DOMAIN scans
  PROVE  /\ scans[i] \in Scans /\ scans[i].tenant \in Tenants
         /\ scans[i].serving \in Nat /\ scans[i].service \in Nat /\ scans[i].rid \in Nat
<1>1. scans \in Seq(Scans)
  BY DEF TypeInv, TypeOK
<1>2. scans[i] \in Scans
  BY <1>1
<1> QED  BY <1>2 DEF Scans

CachedStays(t) ==
  req'[t].rid # NoRid /\ req'[t].rid = req[t].rid /\ req[t].cached # Unresolved
    => req'[t].cached = req[t].cached

\* A step that scans nothing: the request of t keeps what was cached on it.
LEMMA NoScanKeeps ==
  ASSUME TypeInv, TypeInv', ThreadInv, ScanInv, NEW t \in Threads, OnlyThread(t),
         scans' = scans, services <= services',
         CachedStays(t)
  PROVE  ScanInv'
<1>0. requests \in Nat /\ requests' \in Nat /\ services \in Nat /\ services' \in Nat
      /\ \A u \in Threads : req[u].rid \in Nat
      /\ scans \in Seq(Scans) /\ Unresolved \notin Tenants
  BY RequestAssumption DEF TypeInv, TypeOK, Requests
<1>1. ASSUME NEW i \in DOMAIN scans, NEW u \in Threads,
             req'[u].rid = scans[i].serving, req'[u].rid # NoRid
      PROVE  req'[u].cached = scans[i].tenant
  <2>0. scans[i] \in Scans /\ scans[i].tenant \in Tenants /\ scans[i].serving <= requests
        /\ scans[i].serving \in Nat
    BY ScanType DEF ScanInv
  <2>1. CASE u # t
    BY <1>1, <2>1 DEF OnlyThread, ScanInv
  <2>2. CASE u = t
    <3>1. req'[t].rid = req[t].rid
      BY <1>0, <1>1, <2>0, <2>2 DEF OnlyThread
    <3>2. req[t].cached = scans[i].tenant
      BY <1>1, <2>2, <3>1 DEF ScanInv
    <3> QED  BY <1>0, <1>1, <2>0, <2>2, <3>1, <3>2 DEF CachedStays
  <2> QED  BY <2>1, <2>2
<1>2. ASSUME NEW i \in DOMAIN scans
      PROVE  scans[i].serving <= requests' /\ scans[i].service \in 0..services'
  <2>1. scans[i] \in Scans /\ scans[i].serving \in Nat
    BY ScanType
  <2> QED  BY <1>0, <2>1 DEF ScanInv, OnlyThread
<1> QED  BY <1>1, <1>2 DEF ScanInv, OneTenantPerRequest

\* A step that scans a text for t.
LEMMA ScanKeeps ==
  ASSUME TypeInv, TypeInv', ThreadInv, ScanInv, NEW t \in Threads, OnlyThread(t),
         NEW s \in Scans, scans' = Append(scans, s), requests' = requests, services <= services',
         s.serving = req[t].rid, s.service \in 0..services',
         s.rid = s.serving \/ (s.leaked /\ s.serving = NoRid),
         s.serving # NoRid /\ req[t].cached # Unresolved => s.tenant = req[t].cached,
         req'[t].rid = NoRid \/ (req'[t].rid = req[t].rid /\ req'[t].cached = s.tenant)
  PROVE  ScanInv'
<1>0. requests \in Nat /\ services \in Nat /\ services' \in Nat /\ req[t].rid \in Nat
      /\ scans \in Seq(Scans) /\ Unresolved \notin Tenants
  BY RequestAssumption DEF TypeInv, TypeOK, Requests
<1>1. DOMAIN scans' = 1..(Len(scans) + 1) /\ scans'[Len(scans) + 1] = s
      /\ DOMAIN scans = 1..Len(scans) /\ Len(scans) \in Nat
      /\ \A i \in DOMAIN scans : scans'[i] = scans[i]
  BY <1>0
<1>2. \A i \in DOMAIN scans' : i \in DOMAIN scans \/ i = Len(scans) + 1
  BY <1>1
\* What was scanned for the same request has the tenant cached on it.
<1>3. ASSUME NEW i \in DOMAIN scans, scans[i].serving = s.serving, s.serving # NoRid
      PROVE  scans[i].tenant = s.tenant
  <2>1. scans[i].tenant \in Tenants
    BY ScanType
  <2>2. req[t].cached = scans[i].tenant
    BY <1>3 DEF ScanInv
  <2> QED  BY <1>0, <1>3, <2>1, <2>2
<1>4. ASSUME NEW i \in DOMAIN scans'
      PROVE  /\ scans'[i].serving <= requests' /\ scans'[i].service \in 0..services'
             /\ scans'[i].rid = scans'[i].serving \/ (scans'[i].leaked /\ scans'[i].serving = NoRid)
             /\ \A u \in Threads : req'[u].rid = scans'[i].serving /\ req'[u].rid # NoRid
                                     => req'[u].cached = scans'[i].tenant
  <2>1. CASE i \in DOMAIN scans
    <3>1. scans'[i].serving <= requests' /\ scans'[i].service \in 0..services'
      BY <1>0, <1>1, <2>1 DEF ScanInv
    <3>2. ASSUME NEW u \in Threads, req'[u].rid = scans[i].serving, req'[u].rid # NoRid
          PROVE  req'[u].cached = scans[i].tenant
      <4>1. CASE u # t
        BY <2>1, <3>2, <4>1 DEF OnlyThread, ScanInv
      <4>2. CASE u = t
        BY <1>3, <2>1, <3>2, <4>2
      <4> QED  BY <4>1, <4>2
    <3> QED  BY <1>1, <2>1, <3>1, <3>2 DEF ScanInv
  <2>2. CASE i = Len(scans) + 1
    <3>1. scans'[i] = s /\ s.serving <= requests
      BY <1>1, <2>2 DEF ThreadInv, ThreadOK
    <3>2. ASSUME NEW u \in Threads, req'[u].rid = s.serving, req'[u].rid # NoRid
          PROVE  req'[u].cached = s.tenant
      <4>1. CASE u # t
        BY <3>2, <4>1 DEF OnlyThread, ThreadInv
      <4>2. CASE u = t
        BY <3>2, <4>2
      <4> QED  BY <4>1, <4>2
    <3> QED  BY <3>1, <3>2
  <2> QED  BY <1>2, <2>1, <2>2
<1>5. OneTenantPerRequest'
  <2> SUFFICES ASSUME NEW i \in DOMAIN scans', NEW j \in DOMAIN scans',
                      scans'[i].serving = scans'[j].serving, scans'[i].serving # NoRid
               PROVE  scans'[i].tenant = scans'[j].tenant
    BY DEF OneTenantPerRequest
  <2>1. CASE i \in DOMAIN scans /\ j \in DOMAIN scans
    BY <1>1, <2>1 DEF ScanInv, OneTenantPerRequest
  <2>2. CASE i \notin DOMAIN scans \/ j \notin DOMAIN scans
    BY <1>1, <1>2, <1>3, <2>2
  <2> QED  BY <2>1, <2>2
<1> QED  BY <1>4, <1>5 DEF ScanInv

\* What is known of one thread.
Threading(t) ==
  /\ ThreadOK(t) /\ requests \in Nat
  /\ req[t] \in Requests /\ ctx[t] \in Contexts /\ req[t].saved \in Contexts
  /\ req[t].rid \in Nat /\ ctx[t].rid \in Nat /\ req[t].saved.rid \in Nat
  /\ ResolveTenant(req[t]) \in Tenants \cup {NoTenant}
  /\ req[t].cached # Unresolved => ResolveTenant(req[t]) = req[t].cached

LEMMA ThreadingHolds == ASSUME TypeInv, ThreadInv, NEW t \in Threads PROVE Threading(t)
<1>1. req[t] \in Requests /\ ctx[t] \in Contexts /\ requests \in Nat /\ ThreadOK(t)
  BY DEF TypeInv, TypeOK, ThreadInv
<1>2. req[t].saved \in Contexts /\ req[t].rid \in Nat
  BY <1>1 DEF Requests
<1>3. ctx[t].rid \in Nat /\ req[t].saved.rid \in Nat
  BY <1>1, <1>2 DEF Contexts
<1> QED  BY <1>1, <1>2, <1>3, ResolveType DEF Threading, TypeInv

\* A scan of the middleware, with the tenant it resolved.
LEMMA BodyScanKeeps ==
  ASSUME TypeInv, TypeInv', ThreadInv, ScanInv, NEW t \in Threads, OnlyThread(t), ThreadOK(t)',
         ResolveTenant(req[t]) # NoTenant, NEW text \in Texts, NEW direction \in Directions,
         Stored(BodyScan(t, req[t], direction, text, ResolveTenant(req[t]))),
         UNCHANGED <<requests, services>>,
         \/ req'[t].rid = NoRid
         \/ req'[t].rid = req[t].rid /\ req'[t].cached = ResolveTenant(req[t])
  PROVE  ThreadInv' /\ ScanInv'
<1> DEFINE tenant == ResolveTenant(req[t])
           s == BodyScan(t, req[t], direction, text, tenant)
<1>1. Threading(t) /\ tenant \in Tenants /\ (req[t].cached # Unresolved => tenant = req[t].cached)
  BY ThreadingHolds DEF Threading
<1> HIDE DEF tenant
<1>2. s \in Scans
  BY <1>1, BodyScanType DEF Threading, TypeInv
<1>3. /\ s.serving = req[t].rid /\ s.rid = s.serving /\ s.service = NoService /\ s.tenant = tenant
  BY DEF BodyScan
<1>4. scans' = Append(scans, s)
  BY StoredOne DEF tenant
<1> HIDE DEF s
<1>5. services <= services' /\ s.service \in 0..services'
  BY <1>3 DEF TypeInv, TypeOK, NoService
<1>6. req'[t].rid = NoRid \/ (req'[t].rid = req[t].rid /\ req'[t].cached = s.tenant)
  BY <1>3 DEF tenant
<1>7. ScanInv'
  BY <1>1, <1>2, <1>3, <1>4, <1>5, <1>6, ScanKeeps
<1> QED  BY <1>7, ThreadKeeps

LEMMA TenantStep ==
  ASSUME TypeInv, ThreadInv, ScanInv, [Next]_vars PROVE ThreadInv' /\ ScanInv'
<1>0. TypeInv'
  BY TypeStep
\* A thread goes from the request r to the request q and scans nothing.
<1>a. ASSUME NEW t \in Threads, OnlyThread(t), ThreadOK(t)', scans' = scans, services' = services,
             CachedStays(t)
      PROVE  ThreadInv' /\ ScanInv'
  <2>1. services <= services'
    BY <1>a DEF TypeInv, TypeOK
  <2> QED  BY <1>0, <1>a, <2>1, ThreadKeeps, NoScanKeeps
<1>1. ASSUME NEW t \in Threads, NEW user \in Users \cup {Anonymous}, ArriveSkipped(t, user)
      PROVE  ThreadInv' /\ ScanInv'
  <2>0. Threading(t)
    BY ThreadingHolds
  <2>1. /\ req'[t] = [Free EXCEPT !.at = "view", !.user = user, !.skip = TRUE, !.saved = ctx[t]]
        /\ \A u \in Threads \ {t} : req'[u] = req[u]
    BY <1>1 DEF ArriveSkipped, Become, TypeInv, TypeOK
  <2>2. /\ req'[t].at = "view" /\ req'[t].skip = TRUE /\ req'[t].rid = NoRid /\ req'[t].saved = ctx[t]
        /\ req'[t].cached = Unresolved
    BY <2>1 DEF Free
  <2>3. /\ UNCHANGED <<ctx, leaked, scans, services>> /\ requests' = requests + 1 /\ req[t].at = "idle"
    BY <1>1 DEF ArriveSkipped, At
  <2>4. OnlyThread(t) /\ ThreadOK(t)'
    BY <2>0, <2>1, <2>2, <2>3 DEF Threading, OnlyThread, ThreadOK, Active, NoRid
  <2>5. CachedStays(t)
    BY <2>2 DEF CachedStays
  <2> QED  BY <1>a, <2>3, <2>4, <2>5
<1>2. ASSUME NEW t \in Threads, NEW user \in Users \cup {Anonymous}, Arrive(t, user)
      PROVE  ThreadInv' /\ ScanInv'
  <2>0. Threading(t)
    BY ThreadingHolds
  <2>1. /\ req'[t].at = "inbound" /\ req'[t].rid = requests + 1 /\ req'[t].skip = FALSE
        /\ req'[t].saved = ctx[t] /\ \A u \in Threads \ {t} : req'[u] = req[u]
    <3> DEFINE e == Entitled(user, member)
               r == [Free EXCEPT !.at = "inbound", !.rid = requests', !.user = user, !.saved = ctx[t],
                                 !.entitled = e]
    <3>1. req'[t] = r /\ \A u \in Threads \ {t} : req'[u] = req[u]
      BY <1>2 DEF Arrive, Become, TypeInv, TypeOK
    <3> HIDE DEF e
    <3>2. r.at = "inbound" /\ r.rid = requests' /\ r.skip = FALSE /\ r.saved = ctx[t]
      BY DEF Free
    <3>3. requests' = requests + 1
      BY <1>2 DEF Arrive
    <3> QED  BY <3>1, <3>2, <3>3
  <2>2. /\ ctx'[t].rid = requests + 1 /\ ctx'[t].tenant = ctx[t].tenant
        /\ \A u \in Threads \ {t} : ctx'[u] = ctx[u]
        /\ requests' = requests + 1
        /\ UNCHANGED <<leaked, scans, services>> /\ req[t].at = "idle"
    BY <1>2, <2>0 DEF Arrive, At, Threading, Contexts, TypeInv, TypeOK
  <2>3. OnlyThread(t) /\ CachedStays(t)
    BY <2>0, <2>1, <2>2 DEF Threading, OnlyThread, CachedStays, ThreadOK
  <2>4. ThreadOK(t)'
    BY <2>0, <2>1, <2>2 DEF Threading, ThreadOK, Active, NoRid
  <2> QED  BY <1>a, <2>2, <2>3, <2>4
<1>3. ASSUME NEW t \in Threads, ScanInbound(t) PROVE ThreadInv' /\ ScanInv'
  <2> DEFINE tenant == ResolveTenant(req[t])
  <2>0. Threading(t)
    BY ThreadingHolds
  <2>1. /\ UNCHANGED <<ctx, requests, leaked, services>> /\ req[t].at = "inbound"
        /\ Become(t, [req[t] EXCEPT !.at = "tenant"]) \/ Become(t, [req[t] EXCEPT !.at = "tenant", !.cached = tenant])
    BY <1>3 DEF ScanInbound, At
  <2>2. /\ req'[t].at = "tenant" /\ req'[t].rid = req[t].rid /\ req'[t].skip = req[t].skip
        /\ req'[t].saved = req[t].saved /\ req'[t].cached \in {req[t].cached, tenant}
        /\ \A u \in Threads \ {t} : req'[u] = req[u]
    <3>1. CASE Become(t, [req[t] EXCEPT !.at = "tenant"])
      BY <2>0, <3>1 DEF Become, Threading, Requests, TypeInv, TypeOK
    <3>2. CASE Become(t, [req[t] EXCEPT !.at = "tenant", !.cached = tenant])
      <4> HIDE DEF tenant
      <4> QED  BY <2>0, <3>2 DEF Become, Threading, Requests, TypeInv, TypeOK
    <3> QED  BY <2>1, <3>1, <3>2
  <2>3. OnlyThread(t) /\ CachedStays(t)
    BY <2>0, <2>1, <2>2 DEF Threading, OnlyThread, CachedStays
  <2>4. ThreadOK(t)'
    BY <2>0, <2>1, <2>2 DEF Threading, ThreadOK, Active
  <2>5. CASE scans' = scans
    BY <1>a, <2>1, <2>3, <2>4, <2>5
  <2>6. ASSUME tenant # NoTenant, NEW text \in Texts, req'[t].cached = tenant,
               PipelineReturns(BodyScan(t, req[t], "inbound", text, tenant))
        PROVE  ThreadInv' /\ ScanInv'
    <3>1. Stored(BodyScan(t, req[t], "inbound", text, tenant)) /\ "inbound" \in Directions
      BY <2>6 DEF Stored, Directions
    <3> QED  BY <1>0, <2>0, <2>1, <2>2, <2>3, <2>4, <2>6, <3>1, BodyScanKeeps
  <2>7. \/ scans' = scans
        \/ /\ tenant # NoTenant /\ Become(t, [req[t] EXCEPT !.at = "tenant", !.cached = tenant])
           /\ \E text \in Texts : PipelineReturns(BodyScan(t, req[t], "inbound", text, tenant))
    BY <1>3 DEF ScanInbound, Quiet
  <2>8. Become(t, [req[t] EXCEPT !.at = "tenant", !.cached = tenant]) => req'[t].cached = tenant
    BY <2>0 DEF Become, Threading, Requests, TypeInv, TypeOK
  <2> QED  BY <2>5, <2>6, <2>7, <2>8
<1>4. ASSUME NEW t \in Threads, FailsEarly(t) PROVE ThreadInv' /\ ScanInv'
  <2> DEFINE tenant == ResolveTenant(req[t])
  <2>0. Threading(t)
    BY ThreadingHolds
  <2>1. /\ UNCHANGED <<ctx, requests, services>> /\ req[t].at \in {"inbound", "tenant"}
        /\ leaked' = leaked \cup {t} /\ Become(t, Free)
    BY <1>4 DEF FailsEarly, At
  <2>2. /\ req'[t].at = "idle" /\ req'[t].rid = NoRid /\ \A u \in Threads \ {t} : req'[u] = req[u]
        /\ req'[t].saved.rid = NoRid /\ req'[t].skip = FALSE
    BY <2>1 DEF Become, Free, Fresh, TypeInv, TypeOK
  <2>3. OnlyThread(t) /\ CachedStays(t)
    BY <2>0, <2>1, <2>2 DEF Threading, OnlyThread, CachedStays
  <2>4. ThreadOK(t)'
    BY <2>0, <2>1, <2>2 DEF Threading, ThreadOK, Active, NoRid
  <2>5. CASE scans' = scans
    BY <1>a, <2>1, <2>3, <2>4, <2>5
  <2>6. ASSUME tenant # NoTenant, NEW text \in Texts,
               PipelineRaises(BodyScan(t, req[t], "inbound", text, tenant))
        PROVE  ThreadInv' /\ ScanInv'
    <3>1. Stored(BodyScan(t, req[t], "inbound", text, tenant)) /\ "inbound" \in Directions
      BY <2>6 DEF Stored, Directions
    <3> QED  BY <1>0, <2>0, <2>1, <2>2, <2>3, <2>4, <2>6, <3>1, BodyScanKeeps
  <2> QED  BY <1>4, <2>5, <2>6 DEF FailsEarly
<1>5. ASSUME NEW t \in Threads, SetTenant(t) PROVE ThreadInv' /\ ScanInv'
  <2> DEFINE tenant == ResolveTenant(req[t])
  <2>0. Threading(t)
    BY ThreadingHolds
  <2>1. /\ UNCHANGED <<requests, leaked, services, scans>> /\ req[t].at = "tenant"
        /\ ctx' = [ctx EXCEPT ![t].tenant = tenant]
        /\ Become(t, [req[t] EXCEPT !.at = "view", !.cached = tenant])
    BY <1>5 DEF SetTenant, At, bounds
  <2> HIDE DEF tenant
  <2>2. /\ req'[t].at = "view" /\ req'[t].rid = req[t].rid /\ req'[t].skip = req[t].skip
        /\ req'[t].saved = req[t].saved /\ req'[t].cached = tenant
        /\ \A u \in Threads \ {t} : req'[u] = req[u]
    BY <2>0, <2>1 DEF Become, Threading, Requests, TypeInv, TypeOK
  <2>3. /\ ctx'[t].tenant = tenant /\ ctx'[t].rid = ctx[t].rid
        /\ \A u \in Threads \ {t} : ctx'[u] = ctx[u]
    BY <2>0, <2>1 DEF Threading, Contexts, TypeInv, TypeOK
  <2>4. OnlyThread(t) /\ CachedStays(t)
    BY <2>0, <2>1, <2>2, <2>3 DEF Threading, OnlyThread, CachedStays, tenant
  <2>5. tenant # Unresolved
    BY <2>0, RequestAssumption DEF Threading, tenant
  <2>6. ThreadOK(t)'
    BY <2>0, <2>1, <2>2, <2>3, <2>5 DEF Threading, ThreadOK, Active
  <2> QED  BY <1>a, <2>1, <2>4, <2>6
<1>6. ASSUME NEW t \in Threads, NEW c \in Contexts, NEW via \in {"view", "pool", "stream"}, CallIn(t, c, via),
             \/ c = ctx[t] /\ req[t].at \in {"view", "job", "stream"}
             \/ c.tenant = NoTenant
      PROVE  ThreadInv' /\ ScanInv'
  <2>0. Threading(t)
    BY ThreadingHolds
  <2>1. UNCHANGED <<req, ctx, leaked, requests>>
    BY <1>6 DEF CallIn
  <2>2. OnlyThread(t) /\ CachedStays(t) /\ ThreadOK(t)' /\ ThreadInv'
    BY <2>0, <2>1 DEF Threading, OnlyThread, CachedStays, ThreadOK, Active, ThreadInv
  <2>3. services <= services'
    BY <1>6, CallType
  <2>4. CASE NoScan
    BY <1>0, <2>2, <2>3, <2>4, NoScanKeeps DEF NoScan
  <2>5. ASSUME c.tenant \in alive, NEW s \in Scans, Stored(s), s.tenant = c.tenant, s.rid = c.rid,
               s.serving = req[t].rid, s.leaked = (t \in leaked), s.service \in 0..services'
        PROVE  ScanInv'
    <3>1. c = ctx[t] /\ req[t].at \in {"view", "job", "stream"} /\ c.tenant # NoTenant /\ c.tenant # Unresolved
      BY <1>6, <2>5, RequestAssumption DEF TypeInv, TypeOK
    <3>2. s.rid = s.serving \/ (s.leaked /\ s.serving = NoRid)
      BY <2>0, <2>5, <3>1 DEF Threading, ThreadOK, Active, NoRid
    <3>3. s.serving # NoRid => s.tenant = req[t].cached
      BY <2>0, <2>5, <3>1 DEF Threading, ThreadOK, Active
    <3>4. scans' = Append(scans, s)
      BY <2>5, StoredOne
    <3> QED  BY <1>0, <2>1, <2>2, <2>3, <2>5, <3>2, <3>3, <3>4, ScanKeeps
  <2> QED  BY <1>6, <2>2, <2>4, <2>5, CallType
<1>7. ASSUME NEW t \in Threads, OutboundCall(t) \/ PoolCall(t) \/ StreamCall(t)
      PROVE  ThreadInv' /\ ScanInv'
  <2>1. Threading(t) /\ Fresh \in Contexts /\ Fresh.tenant = NoTenant
    BY ThreadingHolds, FreeType DEF Fresh
  <2> QED  BY <1>6, <1>7, <2>1 DEF OutboundCall, PoolCall, StreamCall, At, Threading
<1>8. ASSUME NEW t \in Threads, NEW user \in Users, Login(t, user) PROVE ThreadInv' /\ ScanInv'
  <2>0. Threading(t)
    BY ThreadingHolds
  <2>1. /\ UNCHANGED <<ctx, requests, leaked, services, scans>>
        /\ Become(t, [req[t] EXCEPT !.user = user])
    BY <1>8 DEF Login, bounds
  <2>2. /\ req'[t].at = req[t].at /\ req'[t].rid = req[t].rid /\ req'[t].skip = req[t].skip
        /\ req'[t].saved = req[t].saved /\ req'[t].cached = req[t].cached
        /\ \A u \in Threads \ {t} : req'[u] = req[u]
    BY <2>0, <2>1 DEF Become, Threading, Requests, TypeInv, TypeOK
  <2>3. OnlyThread(t) /\ CachedStays(t)
    BY <2>0, <2>1, <2>2 DEF Threading, OnlyThread, CachedStays
  <2>4. ThreadOK(t)'
    BY <2>0, <2>1, <2>2 DEF Threading, ThreadOK, Active
  <2> QED  BY <1>a, <2>1, <2>3, <2>4
<1>9. ASSUME NEW t \in Threads, Reset(t) PROVE ThreadInv' /\ ScanInv'
  <2>0. Threading(t)
    BY ThreadingHolds
  <2>1. /\ UNCHANGED <<requests, leaked, services, scans>> /\ req[t].at = "view"
        /\ ctx' = IF req[t].skip THEN ctx ELSE [ctx EXCEPT ![t] = req[t].saved]
        /\ \/ Become(t, Free)
           \/ ~req[t].skip /\ Become(t, [req[t] EXCEPT !.at = "outbound"])
    BY <1>9 DEF Reset, At, bounds
  <2>2. /\ ctx'[t] = IF req[t].skip THEN ctx[t] ELSE req[t].saved
        /\ \A u \in Threads \ {t} : ctx'[u] = ctx[u]
    BY <2>0, <2>1 DEF Threading, TypeInv, TypeOK
  <2>3. CASE Become(t, Free)
    <3>1. /\ req'[t].at = "idle" /\ req'[t].rid = NoRid /\ req'[t].saved.rid = NoRid /\ req'[t].skip = FALSE
          /\ \A u \in Threads \ {t} : req'[u] = req[u]
      BY <2>3 DEF Become, Free, Fresh, TypeInv, TypeOK
    <3>2. OnlyThread(t) /\ CachedStays(t)
      BY <2>0, <2>1, <2>2, <3>1 DEF Threading, OnlyThread, CachedStays
    <3>3. ThreadOK(t)'
      BY <2>0, <2>1, <2>2, <3>1 DEF Threading, ThreadOK, Active, NoRid
    <3> QED  BY <1>a, <2>1, <3>2, <3>3
  <2>4. CASE ~req[t].skip /\ Become(t, [req[t] EXCEPT !.at = "outbound"])
    <3>1. /\ req'[t].at = "outbound" /\ req'[t].rid = req[t].rid /\ req'[t].skip = req[t].skip
          /\ req'[t].saved = req[t].saved /\ req'[t].cached = req[t].cached
          /\ \A u \in Threads \ {t} : req'[u] = req[u]
      BY <2>0, <2>4 DEF Become, Threading, Requests, TypeInv, TypeOK
    <3>2. OnlyThread(t) /\ CachedStays(t)
      BY <2>0, <2>1, <2>2, <3>1 DEF Threading, OnlyThread, CachedStays
    <3>3. ThreadOK(t)'
      BY <2>0, <2>1, <2>2, <2>4, <3>1 DEF Threading, ThreadOK, Active, NoRid
    <3> QED  BY <1>a, <2>1, <3>2, <3>3
  <2> QED  BY <2>1, <2>3, <2>4
<1>10. ASSUME NEW t \in Threads, ScanOutbound(t) PROVE ThreadInv' /\ ScanInv'
  <2> DEFINE tenant == ResolveTenant(req[t])
  <2>0. Threading(t)
    BY ThreadingHolds
  <2>1. /\ UNCHANGED <<ctx, requests, leaked, services>> /\ req[t].at = "outbound"
    BY <1>10 DEF ScanOutbound, At
  <2>2. CASE Become(t, [req[t] EXCEPT !.at = "stream"]) /\ Quiet
    <3>1. /\ req'[t].at = "stream" /\ req'[t].rid = req[t].rid /\ req'[t].skip = req[t].skip
          /\ req'[t].saved = req[t].saved /\ req'[t].cached = req[t].cached
          /\ \A u \in Threads \ {t} : req'[u] = req[u]
      BY <2>0, <2>2 DEF Become, Threading, Requests, TypeInv, TypeOK
    <3>2. OnlyThread(t) /\ CachedStays(t)
      BY <2>0, <2>1, <3>1 DEF Threading, OnlyThread, CachedStays
    <3>3. ThreadOK(t)'
      BY <2>0, <2>1, <3>1 DEF Threading, ThreadOK, Active, NoRid
    <3> QED  BY <1>a, <2>1, <2>2, <3>2, <3>3 DEF Quiet
  <2>3. ASSUME tenant # NoTenant, Become(t, Free), NEW text \in Texts,
               Stored(BodyScan(t, req[t], "outbound", text, tenant))
        PROVE  ThreadInv' /\ ScanInv'
    <3>1. /\ req'[t].at = "idle" /\ req'[t].rid = NoRid /\ req'[t].saved.rid = NoRid /\ req'[t].skip = FALSE
          /\ \A u \in Threads \ {t} : req'[u] = req[u]
      BY <2>3 DEF Become, Free, Fresh, TypeInv, TypeOK
    <3>2. OnlyThread(t)
      BY <2>0, <2>1, <3>1 DEF Threading, OnlyThread
    <3>3. ThreadOK(t)'
      BY <2>0, <2>1, <3>1 DEF Threading, ThreadOK, Active, NoRid
    <3>4. "outbound" \in Directions
      BY DEF Directions
    <3> QED  BY <1>0, <2>1, <2>3, <3>1, <3>2, <3>3, <3>4, BodyScanKeeps
  <2> QED  BY <1>10, <2>2, <2>3 DEF ScanOutbound, Stored
<1>11. ASSUME NEW t \in Threads, Close(t) PROVE ThreadInv' /\ ScanInv'
  <2>0. Threading(t)
    BY ThreadingHolds
  <2>1. /\ UNCHANGED <<requests, leaked, services, scans>> /\ req[t].at \in {"stream", "job"}
        /\ ctx' = IF req[t].at = "job" THEN [ctx EXCEPT ![t].tenant = req[t].saved.tenant] ELSE ctx
        /\ Become(t, Free)
    BY <1>11 DEF Close, At, bounds
  <2>2. /\ ctx'[t].rid = ctx[t].rid
        /\ ctx'[t].tenant = IF req[t].at = "job" THEN req[t].saved.tenant ELSE ctx[t].tenant
        /\ \A u \in Threads \ {t} : ctx'[u] = ctx[u]
    BY <2>0, <2>1 DEF Threading, Contexts, TypeInv, TypeOK
  <2>3. /\ req'[t].at = "idle" /\ req'[t].rid = NoRid /\ req'[t].saved.rid = NoRid /\ req'[t].skip = FALSE
        /\ \A u \in Threads \ {t} : req'[u] = req[u]
    BY <2>1 DEF Become, Free, Fresh, TypeInv, TypeOK
  <2>4. OnlyThread(t) /\ CachedStays(t)
    BY <2>0, <2>1, <2>2, <2>3 DEF Threading, OnlyThread, CachedStays
  <2>5. ThreadOK(t)'
    BY <2>0, <2>1, <2>2, <2>3 DEF Threading, ThreadOK, Active, NoRid
  <2> QED  BY <1>a, <2>1, <2>4, <2>5
<1>12. ASSUME NEW t \in Threads, NEW tenant \in Tenants, JobStart(t, tenant) PROVE ThreadInv' /\ ScanInv'
  <2>0. Threading(t)
    BY ThreadingHolds
  <2>1. /\ UNCHANGED <<leaked, services, scans>> /\ req[t].at = "idle" /\ requests' = requests + 1
        /\ ctx' = [ctx EXCEPT ![t].tenant = tenant]
        /\ Become(t, [Free EXCEPT !.at = "job", !.saved = ctx[t]])
    BY <1>12 DEF JobStart, At
  <2>2. /\ ctx'[t].rid = ctx[t].rid /\ \A u \in Threads \ {t} : ctx'[u] = ctx[u]
    BY <2>0, <2>1 DEF Threading, Contexts, TypeInv, TypeOK
  <2>3. /\ req'[t].at = "job" /\ req'[t].rid = NoRid /\ req'[t].saved = ctx[t] /\ req'[t].skip = FALSE
        /\ \A u \in Threads \ {t} : req'[u] = req[u]
    BY <2>1 DEF Become, Free, TypeInv, TypeOK
  <2>4. OnlyThread(t) /\ CachedStays(t)
    BY <2>0, <2>1, <2>2, <2>3 DEF Threading, OnlyThread, CachedStays
  <2>5. ThreadOK(t)'
    BY <2>0, <2>1, <2>2, <2>3 DEF Threading, ThreadOK, Active, NoRid
  <2> QED  BY <1>a, <2>1, <2>4, <2>5
\* The other steps leave the threads alone, but for what is remembered of them.
<1>13. ASSUME UNCHANGED <<ctx, requests, leaked, services, scans>>,
              \A t \in Threads : /\ req'[t].at = req[t].at /\ req'[t].rid = req[t].rid
                                 /\ req'[t].skip = req[t].skip /\ req'[t].saved = req[t].saved
                                 /\ req'[t].cached = req[t].cached
       PROVE  ThreadInv' /\ ScanInv'
  <2>1. ThreadInv'
    BY <1>13 DEF ThreadInv, ThreadOK, Active
  <2>2. ScanInv'
    BY <1>13 DEF ScanInv, OneTenantPerRequest
  <2> QED  BY <2>1, <2>2
<1>14. ASSUME NEW m, Remember(m), UNCHANGED <<ctx, requests, leaked, services, scans>>
       PROVE  ThreadInv' /\ ScanInv'
  <2>1. ASSUME NEW t \in Threads
        PROVE  /\ req'[t].at = req[t].at /\ req'[t].rid = req[t].rid
               /\ req'[t].skip = req[t].skip /\ req'[t].saved = req[t].saved
               /\ req'[t].cached = req[t].cached
    <3>1. req[t] \in Requests /\ \E e \in BOOLEAN : req'[t] = [req[t] EXCEPT !.entitled = e]
      BY <1>14, Remembers DEF TypeInv, TypeOK
    <3> QED  BY <3>1 DEF Requests
  <2> QED  BY <1>13, <1>14, <2>1
<1>15. ASSUME \/ \E user \in Users, tenant \in Tenants \cup {NoTenant} : ChangeMembership(user, tenant)
              \/ \E tenant \in Tenants, other \in Tenants \cup {NoTenant} : DeleteTenant(tenant, other)
       PROVE  ThreadInv' /\ ScanInv'
  BY <1>14, <1>15 DEF ChangeMembership, DeleteTenant
<1>16. ASSUME \/ \E w \in Workers : TaskPersist(w) \/ TaskLost(w) \/ \E task \in queue : Take(w, task)
              \/ \E tenant \in Tenants : DeleteService(tenant)
              \/ UNCHANGED vars
       PROVE  ThreadInv' /\ ScanInv'
  BY <1>13, <1>16 DEF TaskPersist, TaskLost, Take, DeleteService, vars, bounds
<1> QED
  BY <1>1, <1>2, <1>3, <1>4, <1>5, <1>7, <1>8, <1>9, <1>10, <1>11, <1>12, <1>15, <1>16 DEF Next

TenantInv == TypeInv /\ ThreadInv /\ ScanInv

LEMMA TenantInvInit == Init => TenantInv
<1> SUFFICES ASSUME Init PROVE ThreadInv /\ ScanInv
  BY TypeInvInit DEF TenantInv
<1>1. \A t \in Threads : req[t] = Free /\ ctx[t] = Fresh
  BY DEF Init
<1>2. requests = 0 /\ scans = <<>>
  BY DEF Init
<1>3. /\ Free.at = "idle" /\ Free.rid = 0 /\ Free.skip = FALSE /\ Free.saved.rid = 0
      /\ Fresh.rid = 0 /\ Fresh.tenant = NoTenant
  BY DEF Free, Fresh, NoRid
<1> QED  BY <1>1, <1>2, <1>3 DEF ThreadInv, ThreadOK, Active, ScanInv, OneTenantPerRequest, NoRid

LEMMA TenantInvStep == TenantInv /\ [Next]_vars => TenantInv'
BY TypeStep, TenantStep DEF TenantInv

\* tenancy.py:33-46, middleware.py:62-75: for any number of threads, and whatever is
\* changed meanwhile, what one request scans is stored for one tenant.
THEOREM OneTenantHolds == Spec => []OneTenantPerRequest
<1>1. TenantInv => OneTenantPerRequest
  BY DEF TenantInv, ScanInv
<1> QED  BY <1>1, TenantInvInit, TenantInvStep, PTL DEF Spec

-----------------------------------------------------------------------------
(***************************************************************************)
(* What a row says.  A task carries what its scan had; a task a worker is  *)
(* in has perhaps lost its service, which was then deleted.                *)
(***************************************************************************)
Of(x, s) == x.tenant = s.tenant /\ x.rid = s.rid /\ x.direction = s.direction

Serves(x, s) == x.service = s.service \/ (x.service = NoService /\ s.service \in deleted)

\* Task x of the queue, or one a worker is in.
Queued(x) ==
  /\ x.scan \in DOMAIN scans /\ Of(x, scans[x.scan])
  /\ x.text = scans[x.scan].text /\ x.service = scans[x.scan].service
InWorker(x) ==
  /\ x.scan \in DOMAIN scans /\ Of(x, scans[x.scan])
  /\ x.text = scans[x.scan].text /\ Serves(x, scans[x.scan])

FoundBy(row, text) ==
  row.spans \subseteq IF row.by = "regex" THEN RegexScan(text)
                      ELSE DedupeAgainst(PresidioScan(text), RegexScan(text))

Named(row) ==
  /\ row.scan \in DOMAIN scans
  /\ Of(row, scans[row.scan]) /\ Serves(row, scans[row.scan])
  /\ FoundBy(row, scans[row.scan].text)

RowInv ==
  /\ \A x \in queue : Queued(x)
  /\ \A w \in Workers : worker[w] # NoTask => InWorker(worker[w])
  /\ \A row \in rows : Named(row)

\* Scans are only added, and no deletion is undone.
LEMMA StillNamed ==
  ASSUME TypeInv, \A i \in DOMAIN scans : i \in DOMAIN scans' /\ scans'[i] = scans[i],
         deleted \subseteq deleted'
  PROVE  /\ \A x : Queued(x) => Queued(x)'
         /\ \A x : InWorker(x) => InWorker(x)'
         /\ \A x : Named(x) => Named(x)'
BY DEF Queued, InWorker, Named, Of, Serves, FoundBy

LEMMA StoredKeeps ==
  ASSUME TypeInv, RowInv, NEW s \in Scans, Stored(s), UNCHANGED <<worker, deleted>>
  PROVE  RowInv'
<1>0. scans \in Seq(Scans) /\ scans' = Append(scans, s)
  BY StoredOne DEF TypeInv, TypeOK
<1> DEFINE n == Len(scans) + 1
<1>1. /\ n \in DOMAIN scans' /\ scans'[n] = s
      /\ \A i \in DOMAIN scans : i \in DOMAIN scans' /\ scans'[i] = scans[i]
  BY <1>0
<1>2. ASSUME NEW x, x = TaskOf(s) PROVE Queued(x)'
  <2>1. x.scan = n /\ Of(x, s) /\ x.text = s.text /\ x.service = s.service
    BY <1>2 DEF TaskOf, Of
  <2> QED  BY <1>1, <2>1 DEF Queued, Of
<1>3. ASSUME NEW row \in RegexEvents(s) PROVE Named(row)'
  <2>1. /\ row.scan = n /\ Of(row, s) /\ row.service = s.service /\ row.by = "regex"
        /\ row.spans \subseteq RegexScan(s.text)
    BY RegexFields DEF Of, TypeInv
  <2> QED  BY <1>1, <2>1 DEF Named, Of, Serves, FoundBy
<1>4. \A x : (Queued(x) => Queued(x)') /\ (InWorker(x) => InWorker(x)') /\ (Named(x) => Named(x)')
  BY <1>1, StillNamed
<1>5. \A x \in queue' : Queued(x)'
  BY <1>2, <1>4, StoredOne DEF RowInv
<1>6. \A row \in rows' : Named(row)'
  BY <1>3, <1>4, StoredOne DEF RowInv
<1> QED  BY <1>4, <1>5, <1>6 DEF RowInv

LEMMA RowsKeep ==
  ASSUME TypeInv, RowInv, scans' = scans, deleted \subseteq deleted', queue' \subseteq queue,
         worker' = worker, rows' \subseteq rows
  PROVE  RowInv'
<1>1. \A x : (Queued(x) => Queued(x)') /\ (InWorker(x) => InWorker(x)') /\ (Named(x) => Named(x)')
  BY StillNamed
<1> QED  BY <1>1 DEF RowInv

LEMMA RowStep == ASSUME TenantInv, RowInv, [Next]_vars PROVE RowInv'
<1> USE DEF TenantInv
<1>0. ASSUME UNCHANGED <<worker, deleted>>, NEW t \in Threads, NEW text \in Texts,
             NEW direction \in Directions, ResolveTenant(req[t]) # NoTenant,
             Stored(BodyScan(t, req[t], direction, text, ResolveTenant(req[t])))
      PROVE  RowInv'
  <2>1. Threading(t)
    BY ThreadingHolds
  <2>2. BodyScan(t, req[t], direction, text, ResolveTenant(req[t])) \in Scans
    BY <1>0, <2>1, BodyScanType DEF Threading, TypeInv
  <2> QED  BY <1>0, <2>2, StoredKeeps
<1>1. ASSUME UNCHANGED <<scans, deleted, queue, worker, rows>> PROVE RowInv'
  BY <1>1, RowsKeep
<1>2. ASSUME NEW t \in Threads, ScanInbound(t) \/ FailsEarly(t) \/ ScanOutbound(t) PROVE RowInv'
  <2>1. "inbound" \in Directions /\ "outbound" \in Directions
    BY DEF Directions
  <2>2. UNCHANGED <<worker, deleted>>
    BY <1>2 DEF ScanInbound, FailsEarly, ScanOutbound
  <2>3. CASE ScanInbound(t)
    BY <1>0, <1>1, <2>1, <2>2, <2>3 DEF ScanInbound, Stored, Quiet
  <2>4. CASE FailsEarly(t)
    BY <1>0, <1>1, <2>1, <2>2, <2>4 DEF FailsEarly, Stored
  <2>5. CASE ScanOutbound(t)
    BY <1>0, <1>1, <2>1, <2>2, <2>5 DEF ScanOutbound, Stored, Quiet
  <2> QED  BY <1>2, <2>3, <2>4, <2>5
<1>3. ASSUME NEW t \in Threads, OutboundCall(t) \/ PoolCall(t) \/ StreamCall(t) PROVE RowInv'
  <2>1. PICK c \in Contexts, via \in {"view", "pool", "stream"} : CallIn(t, c, via)
    BY <1>3, ThreadingHolds, FreeType DEF OutboundCall, PoolCall, StreamCall, Threading
  <2>2. UNCHANGED <<worker, deleted>>
    BY <2>1 DEF CallIn
  <2>3. NoScan \/ \E s \in Scans : Stored(s)
    BY <2>1, CallType
  <2> QED  BY <1>1, <2>2, <2>3, StoredKeeps DEF NoScan
<1>4. ASSUME NEW w \in Workers, NEW task \in queue, Take(w, task) PROVE RowInv'
  <2>1. task \in Tasks /\ Queued(task)
    BY DEF RowInv, TypeInv, TypeOK
  <2>2. \A x : (Queued(x) <=> Queued(x)') /\ (InWorker(x) <=> InWorker(x)') /\ (Named(x) <=> Named(x)')
    BY <1>4 DEF Take, Queued, InWorker, Named, Of, Serves, FoundBy
  <2>3. Queued([task EXCEPT !.run = @ + 1])
    BY <2>1 DEF Queued, Of, Tasks
  <2>4. InWorker([task EXCEPT !.service = IF ServiceExists(@) THEN @ ELSE NoService])
    <3>1. task.scan \in DOMAIN scans /\ task.service = scans[task.scan].service
      BY <2>1 DEF Queued
    <3>2. task.service \in 0..services
      BY <3>1 DEF ScanInv
    <3>3. ServiceExists(task.service) \/ task.service \in deleted \/ task.service = NoService
      <4>1. CASE task.service = 0
        BY <4>1 DEF NoService
      <4>2. CASE task.service # 0
        <5>1. services \in Nat
          BY DEF TypeInv, TypeOK
        <5>2. task.service \in 1..services
          BY <3>2, <4>2, <5>1
        <5>3. task.service \in deleted \/ \E x \in Tenants : service[x] = task.service
          BY <5>2 DEF TypeInv, Pks
        <5> QED  BY <5>3 DEF ServiceExists
      <4> QED  BY <4>1, <4>2
    <3> DEFINE pk == IF ServiceExists(task.service) THEN task.service ELSE NoService
    <3>4. pk = task.service \/ (pk = NoService /\ task.service \in deleted)
      BY <3>3
    <3> HIDE DEF pk
    <3>5. InWorker([task EXCEPT !.service = pk])
      BY <2>1, <3>1, <3>4 DEF Queued, InWorker, Of, Serves, Tasks
    <3> QED  BY <3>5 DEF pk
  <2>5. \A x \in queue' : Queued(x)
    BY <1>4, <2>3 DEF Take, RowInv
  <2>6. \A v \in Workers : worker'[v] # NoTask => InWorker(worker'[v])
    BY <1>4, <2>4 DEF Take, RowInv, TypeInv, TypeOK
  <2>7. rows' = rows
    BY <1>4 DEF Take
  <2> QED  BY <2>2, <2>5, <2>6, <2>7 DEF RowInv
<1>5. ASSUME NEW w \in Workers, TaskPersist(w) PROVE RowInv'
  <2> DEFINE found == DedupeAgainst(PresidioScan(worker[w].text), RegexScan(worker[w].text))
             new == EventsOf(ByAsset(found), worker[w].scan, worker[w].run, "presidio", worker[w])
  <2>1. worker[w] \in Tasks /\ InWorker(worker[w])
    BY <1>5 DEF TaskPersist, RowInv, TypeInv, TypeOK
  <2>2. \A x : (Queued(x) <=> Queued(x)') /\ (InWorker(x) <=> InWorker(x)') /\ (Named(x) <=> Named(x)')
    BY <1>5 DEF TaskPersist, Queued, InWorker, Named, Of, Serves, FoundBy
  <2>3. ASSUME NEW row \in new PROVE Named(row)
    <3> HIDE DEF found
    <3>0. row \in EventsOf(ByAsset(found), worker[w].scan, worker[w].run, "presidio", worker[w])
      OBVIOUS
    <3> HIDE DEF new
    <3>1. PICK spans \in ByAsset(found) :
            row = [scan |-> worker[w].scan, run |-> worker[w].run, by |-> "presidio",
                   spans |-> spans, direction |-> worker[w].direction,
                   tenant |-> worker[w].tenant, rid |-> worker[w].rid,
                   service |-> worker[w].service]
      BY <3>0 DEF EventsOf
    <3>2. spans \subseteq found
      BY <3>1, GroupsWithin
    <3>3. /\ row.scan = worker[w].scan /\ row.by = "presidio" /\ row.spans \subseteq found
          /\ row.direction = worker[w].direction /\ row.tenant = worker[w].tenant
          /\ row.rid = worker[w].rid /\ row.service = worker[w].service
      BY <3>1, <3>2
    <3> USE DEF found
    <3> QED  BY <2>1, <3>3 DEF InWorker, Named, Of, Serves, FoundBy
  <2>4. rows' \subseteq rows \cup new
    BY <1>5 DEF TaskPersist
  <2> HIDE DEF new
  <2>5. \A row \in rows' : Named(row)
    BY <2>3, <2>4 DEF RowInv
  <2>6. queue' = queue /\ \A v \in Workers : worker'[v] = worker[v] \/ worker'[v] = NoTask
    BY <1>5 DEF TaskPersist, TypeInv, TypeOK
  <2> QED  BY <2>2, <2>5, <2>6 DEF RowInv
<1>6. ASSUME NEW w \in Workers, TaskLost(w) PROVE RowInv'
  <2>1. \A x : (Queued(x) <=> Queued(x)') /\ (InWorker(x) <=> InWorker(x)') /\ (Named(x) <=> Named(x)')
    BY <1>6 DEF TaskLost, Queued, InWorker, Named, Of, Serves, FoundBy
  <2>2. UNCHANGED <<queue, rows>> /\ \A v \in Workers : worker'[v] = worker[v] \/ worker'[v] = NoTask
    BY <1>6 DEF TaskLost, TypeInv, TypeOK
  <2> QED  BY <2>1, <2>2 DEF RowInv
<1>7. ASSUME NEW tenant \in Tenants, NEW other \in Tenants \cup {NoTenant}, DeleteTenant(tenant, other)
      PROVE  RowInv'
  BY <1>7, RowsKeep DEF DeleteTenant, broker
<1>8. ASSUME NEW tenant \in Tenants, DeleteService(tenant) PROVE RowInv'
  <2>1. \A x : (Queued(x) => Queued(x)') /\ (InWorker(x) => InWorker(x)') /\ (Named(x) => Named(x)')
    BY <1>8, StillNamed DEF DeleteService
  <2>2. ASSUME NEW row \in rows,
               NEW new, new = [row EXCEPT !.service = IF @ = service[tenant] THEN NoService ELSE @]
        PROVE  Named(new)'
    <3>1. RowOK(row) /\ Named(row)'
      BY <2>1 DEF RowInv, TypeInv, TypeOK, RowOK
    <3>2. /\ new.scan = row.scan /\ new.by = row.by /\ new.spans = row.spans /\ new.tenant = row.tenant
          /\ new.rid = row.rid /\ new.direction = row.direction
          /\ new.service = IF row.service = service[tenant] THEN NoService ELSE row.service
      BY <2>2, <3>1 DEF RowOK
    <3>3. service[tenant] \in deleted'
      BY <1>8 DEF DeleteService
    <3> QED  BY <3>1, <3>2, <3>3 DEF Named, Of, Serves, FoundBy
  <2>3. \A row \in rows' : Named(row)'
    BY <1>8, <2>2 DEF DeleteService
  <2>4. UNCHANGED <<queue, worker>>
    BY <1>8 DEF DeleteService, broker
  <2> QED  BY <2>1, <2>3, <2>4 DEF RowInv
<1>9. ASSUME NEW t \in Threads,
             \/ \E user \in Users \cup {Anonymous} : ArriveSkipped(t, user) \/ Arrive(t, user)
             \/ SetTenant(t) \/ Reset(t) \/ Close(t)
             \/ \E user \in Users : Login(t, user)
             \/ \E tenant \in Tenants : JobStart(t, tenant)
      PROVE  RowInv'
  BY <1>1, <1>9 DEF ArriveSkipped, Arrive, SetTenant, Reset, Close, Login, JobStart, broker
<1>10. ASSUME \/ \E user \in Users, tenant \in Tenants \cup {NoTenant} : ChangeMembership(user, tenant)
              \/ UNCHANGED vars
       PROVE  RowInv'
  BY <1>1, <1>10 DEF ChangeMembership, vars, broker
<1> QED
  BY <1>2, <1>3, <1>4, <1>5, <1>6, <1>7, <1>8, <1>9, <1>10 DEF Next

LEMMA RowInvInit == Init => RowInv
BY DEF Init, RowInv

LEMMA RowInvStep == TenantInv /\ RowInv /\ [Next]_vars => TenantInv' /\ RowInv'
BY TenantInvStep, RowStep

\* middleware.py:59-75, request_context.py, tasks.py:90-121: every scan, and every row
\* of either pass, names the request it was made for.
THEOREM RowsHold == Spec => []RowsNameTheirRequest
<1>1. TenantInv /\ RowInv => RowsNameTheirRequest
  BY DEF TenantInv, ScanInv, RowInv, Named, Of, Serves, RowsNameTheirRequest
<1> QED  BY <1>1, TenantInvInit, RowInvInit, RowInvStep, PTL DEF Spec

\* tasks.py:104-106, presidio.py:100-118: whatever the detectors find and however
\* often a task is run, the two passes do not store the same finding.
THEOREM SpansHold == Spec => []SameSpanOnce
<1>1. TenantInv /\ RowInv => SameSpanOnce
  <2> SUFFICES ASSUME RowInv, NEW x \in rows, NEW y \in rows, x.scan = y.scan, x.by = "regex",
                      y.by = "presidio", NEW a \in x.spans, NEW b \in y.spans, a.asset = b.asset
               PROVE  ~Overlap(a, b)
    BY DEF SameSpanOnce
  <2> DEFINE text == scans[x.scan].text
  <2>1. /\ x.spans \subseteq RegexScan(text)
        /\ y.spans \subseteq DedupeAgainst(PresidioScan(text), RegexScan(text))
    BY DEF RowInv, Named, FoundBy
  <2>2. ~(\E z \in RegexScan(text) : z.asset = b.asset /\ Overlap(b, z))
    BY <2>1 DEF DedupeAgainst
  <2>3. ~Overlap(b, a)
    BY <2>1, <2>2
  <2> QED  BY <2>3 DEF Overlap
<1> QED  BY <1>1, TenantInvInit, RowInvInit, RowInvStep, PTL DEF Spec
-----------------------------------------------------------------------------
(***************************************************************************)
(* Who is seen.  The list that setup returns has the detection middleware  *)
(* behind whatever authenticates the users of an entitled request.         *)
(***************************************************************************)
\* What Without computes: its recursion has a solution, and by its least
\* counterexample every entry that is none of the names is kept.
LEMMA WithoutKeeps ==
  ASSUME NEW S, NEW s \in Seq(S), NEW names
  PROVE  /\ Without(s, names) \in Seq(S)
         /\ \A i \in DOMAIN s : s[i] \notin names =>
              \E j \in DOMAIN Without(s, names) : Without(s, names)[j] = s[i]
<1> DEFINE L       == Len(s)
           Step(f, n) == IF n = 0 THEN <<>>
                         ELSE IF s[n] \in names THEN f[n - 1] ELSE Append(f[n - 1], s[n])
           Sol(f, n)  == f = [i \in 0..n |-> Step(f, i)]
           kept    == CHOOSE f : Sol(f, L)
           Good(n) == /\ kept[n] \in Seq(S)
                      /\ \A i \in 1..n : s[i] \notin names =>
                           \E j \in DOMAIN kept[n] : kept[n][j] = s[i]
<1>0. L \in Nat /\ DOMAIN s = 1..L /\ \A i \in 1..L : s[i] \in S
  BY LenProperties, ElementOfSeq
<1>1. Without(s, names) = kept[L]
  BY Zenon DEF Without
<1>2. \A n \in 0..L : \E f : Sol(f, n)
  <2> DEFINE Bad == {n \in 0..L : ~ \E f : Sol(f, n)}
  <2> SUFFICES ASSUME Bad # {} PROVE FALSE
    OBVIOUS
  <2>1. PICK n \in Bad : \A m \in Bad : n <= m
    <3>1. Bad \in SUBSET Nat
      BY <1>0
    <3> HIDE DEF Bad
    <3> QED  BY <3>1, LeastOf
  <2>2. n \in 0..L /\ ~ \E f : Sol(f, n)
    BY <2>1
  <2>3. CASE n = 0
    <3> DEFINE f == [i \in 0..0 |-> <<>>]
    <3>1. Sol(f, 0)
      OBVIOUS
    <3> QED  BY <2>2, <2>3, <3>1
  <2>4. CASE n # 0
    <3>1. n - 1 \in 0..L /\ n - 1 \in Nat /\ n - 1 < n
      BY <1>0, <2>2, <2>4
    <3>2. n - 1 \notin Bad
      <4>1. \A m \in Bad : n <= m
        BY <2>1
      <4> HIDE DEF Bad
      <4>2. ~ (n <= n - 1)
        BY <1>0, <2>2
      <4> QED  BY <4>1, <4>2
    <3>3. PICK f : Sol(f, n - 1)
      BY <3>1, <3>2
    <3> DEFINE g == [i \in 0..n |-> IF i = n THEN Step(f, n) ELSE f[i]]
    <3>4. \A i \in 0..(n - 1) : f[i] = Step(f, i)
      <4> HIDE DEF Step
      <4> QED  BY <3>3
    <3>5. \A i \in 0..(n - 1) : g[i] = f[i]
      <4> HIDE DEF Step
      <4> QED  BY <1>0, <2>2, <3>1
    <3>6. g[n] = Step(f, n)
      <4> HIDE DEF Step
      <4> QED  BY <1>0, <2>2
    <3>7. ASSUME NEW i \in 0..n PROVE Step(g, i) = Step(f, i)
      <4>1. CASE i = 0
        BY <4>1
      <4>2. CASE i # 0
        <5>1. g[i - 1] = f[i - 1]
          <6>1. i - 1 \in 0..(n - 1)
            BY <1>0, <2>2, <4>2
          <6> HIDE DEF g
          <6> QED  BY <3>5, <6>1
        <5> HIDE DEF g
        <5> QED  BY <5>1
      <4> QED  BY <4>1, <4>2
    <3>8. ASSUME NEW i \in 0..n PROVE g[i] = Step(g, i)
      <4>1. CASE i = n
        <5> HIDE DEF g, Step
        <5> QED  BY <3>6, <3>7, <4>1
      <4>2. CASE i # n
        <5>1. i \in 0..(n - 1)
          BY <1>0, <2>2, <4>2
        <5> HIDE DEF g, Step
        <5> QED  BY <3>4, <3>5, <3>7, <5>1
      <4> QED  BY <4>1, <4>2
    <3>9. g = [i \in 0..n |-> g[i]]
      OBVIOUS
    <3> HIDE DEF g, Step
    <3>10. Sol(g, n)
      BY <3>8, <3>9
    <3> QED  BY <2>2, <3>10
  <2> QED  BY <2>3, <2>4
<1>3. Sol(kept, L)
  <2> HIDE DEF Sol
  <2>1. L \in 0..L
    BY <1>0
  <2>2. \E f : Sol(f, L)
    BY <1>2, <2>1
  <2> QED  BY <2>2
<1> HIDE DEF kept
<1>4. \A n \in 0..L : kept[n] = Step(kept, n)
  <2> HIDE DEF Step
  <2> QED  BY <1>3
<1>5. \A n \in 0..L : Good(n)
  <2> DEFINE Bad == {n \in 0..L : ~ Good(n)}
  <2> SUFFICES ASSUME Bad # {} PROVE FALSE
    OBVIOUS
  <2>1. PICK n \in Bad : \A m \in Bad : n <= m
    <3>1. Bad \in SUBSET Nat
      BY <1>0
    <3> HIDE DEF Bad
    <3> QED  BY <3>1, LeastOf
  <2>2. n \in 0..L /\ ~ Good(n)
    BY <2>1
  <2>3. CASE n = 0
    <3>1. kept[n] = <<>>
      BY <1>4, <2>2, <2>3
    <3> QED  BY <2>2, <2>3, <3>1
  <2>4. CASE n # 0
    <3>1. n - 1 \in 0..L /\ n - 1 < n /\ n \in 1..L
      BY <1>0, <2>2, <2>4
    <3>2. Good(n - 1)
      <4>1. n - 1 \notin Bad
        <5>1. \A m \in Bad : n <= m
          BY <2>1
        <5> HIDE DEF Bad
        <5>2. ~ (n <= n - 1)
          BY <1>0, <2>2
        <5> QED  BY <5>1, <5>2
      <4> HIDE DEF Good
      <4> QED  BY <3>1, <4>1
    <3>3. s[n] \in S
      BY <1>0, <3>1
    <3>4. CASE s[n] \in names
      <4>1. kept[n] = kept[n - 1]
        BY <1>4, <2>2, <2>4, <3>4
      <4>2. \A i \in 1..n : s[i] \notin names => i \in 1..(n - 1)
        BY <2>2, <3>4
      <4>3. Good(n)
        BY <3>2, <4>1, <4>2
      <4> QED  BY <2>2, <4>3
    <3>5. CASE s[n] \notin names
      <4> DEFINE k == kept[n - 1]
      <4>1. kept[n] = Append(k, s[n])
        BY <1>4, <2>2, <2>4, <3>5
      <4>2. k \in Seq(S)
        BY <3>2
      <4>3. /\ Append(k, s[n]) \in Seq(S) /\ Len(k) \in Nat
            /\ DOMAIN Append(k, s[n]) = 1..(Len(k) + 1) /\ DOMAIN k = 1..Len(k)
            /\ Append(k, s[n])[Len(k) + 1] = s[n]
            /\ \A j \in 1..Len(k) : Append(k, s[n])[j] = k[j]
        <5> HIDE DEF k
        <5> QED  BY <3>3, <4>2, AppendProperties, LenProperties
      <4>4. ASSUME NEW i \in 1..n, s[i] \notin names
            PROVE  \E j \in DOMAIN kept[n] : kept[n][j] = s[i]
        <5>1. CASE i = n
          <6> HIDE DEF k
          <6>1. Len(k) + 1 \in DOMAIN kept[n] /\ kept[n][Len(k) + 1] = s[i]
            BY <4>1, <4>3, <5>1
          <6> QED  BY <6>1
        <5>2. CASE i # n
          <6>1. i \in 1..(n - 1)
            BY <2>2, <5>2
          <6>2. PICK j \in DOMAIN k : k[j] = s[i]
            BY <3>2, <4>4, <6>1
          <6> HIDE DEF k
          <6>3. j \in DOMAIN kept[n] /\ kept[n][j] = s[i]
            BY <4>1, <4>3, <6>2
          <6> QED  BY <6>3
        <5> QED  BY <5>1, <5>2
      <4>5. kept[n] \in Seq(S)
        <5> HIDE DEF k
        <5> QED  BY <4>1, <4>3
      <4> QED  BY <2>2, <4>4, <4>5
    <3> QED  BY <3>4, <3>5
  <2> QED  BY <2>3, <2>4
<1>6. Good(L)
  <2> HIDE DEF Good
  <2>1. L \in 0..L
    BY <1>0
  <2> QED  BY <1>5, <2>1
<1> QED  BY <1>0, <1>1, <1>6
\* Where setup puts the entries: directly behind the authentication, if there is one.
LEMMA SetupPlaces ==
  ASSUME NEW names, names = {"jwt", "pii"}
  PROVE  /\ IncludeJWT => Before("jwt", "pii", Setup(HostMiddleware, IncludeJWT))
         /\ (\E i \in DOMAIN HostMiddleware : HostMiddleware[i] = "auth")
              => Before("auth", "pii", Setup(HostMiddleware, IncludeJWT))
<1> DEFINE T       == STRING \cup {"jwt", "pii"}
           rest    == Without(HostMiddleware, names)
           anchors == {i \in DOMAIN rest : rest[i] = "auth"}
           at      == IF anchors = {} THEN Len(rest) ELSE Min(anchors)
           mine    == IF IncludeJWT THEN <<"jwt", "pii">> ELSE <<"pii">>
           head    == SubSeq(rest, 1, at)
           tail    == SubSeq(rest, at + 1, Len(rest))
           stack   == (head \o mine) \o tail
<1>1. Setup(HostMiddleware, IncludeJWT) = stack
  BY DEF Setup
<1>2. HostMiddleware \in Seq(T) /\ "jwt" \in T /\ "pii" \in T
  <2>1. HostMiddleware \in Seq(STRING)
    BY RequestAssumption
  <2>2. \A i \in 1..Len(HostMiddleware) : HostMiddleware[i] \in T
    BY <2>1, ElementOfSeq
  <2> QED  BY <2>1, <2>2
<1> HIDE DEF T
<1>3. /\ rest \in Seq(T)
      /\ (\E i \in DOMAIN HostMiddleware : HostMiddleware[i] = "auth") => anchors # {}
  <2>1. /\ rest \in Seq(T)
        /\ \A i \in DOMAIN HostMiddleware : HostMiddleware[i] \notin names =>
             \E j \in DOMAIN rest : rest[j] = HostMiddleware[i]
    BY <1>2, WithoutKeeps
  <2> HIDE DEF rest
  <2> QED  BY <2>1
<1> HIDE DEF rest
<1>4. Len(rest) \in Nat /\ DOMAIN rest = 1..Len(rest)
  BY <1>3, LenProperties
<1>5. at \in 0..Len(rest) /\ (anchors # {} => at \in anchors)
  <2>1. anchors \in SUBSET Nat
    BY <1>4
  <2>2. anchors # {} => Min(anchors) \in anchors
    <3> HIDE DEF anchors
    <3> QED  BY <2>1, LeastOf
  <2>3. anchors \subseteq 1..Len(rest)
    BY <1>4
  <2> HIDE DEF anchors
  <2>4. CASE anchors = {}
    <3>1. at = Len(rest)
      BY <2>4
    <3> HIDE DEF at
    <3> QED  BY <1>4, <2>4, <3>1
  <2>5. CASE anchors # {}
    <3>1. at = Min(anchors)
      BY <2>5
    <3> HIDE DEF at
    <3>2. at \in 1..Len(rest) /\ at \in anchors
      BY <2>2, <2>3, <2>5, <3>1
    <3> QED  BY <1>4, <3>2
  <2> QED  BY <2>4, <2>5
<1>6. anchors # {} => at \in 1..Len(rest) /\ rest[at] = "auth"
  BY <1>4, <1>5
<1> HIDE DEF anchors, at
<1>7. /\ head \in Seq(T) /\ Len(head) = at /\ tail \in Seq(T)
      /\ \A i \in 1..at : head[i] = rest[i]
  BY <1>3, <1>4, <1>5, SubSeqProperties
<1>8. mine \in Seq(T) /\ mine[Len(mine)] = "pii" /\ Len(mine) \in 1..2
      /\ (IncludeJWT => Len(mine) = 2 /\ mine[1] = "jwt")
  <2>1. CASE IncludeJWT
    <3>1. mine = <<"jwt", "pii">>
      BY <2>1
    <3> HIDE DEF mine
    <3>2. Len(mine) = 2 /\ mine[1] = "jwt" /\ mine[2] = "pii" /\ mine \in Seq(T)
      BY <1>2, <3>1
    <3> QED  BY <3>2
  <2>2. CASE ~IncludeJWT
    <3>1. mine = <<"pii">>
      BY <2>2
    <3> HIDE DEF mine
    <3>2. Len(mine) = 1 /\ mine[1] = "pii" /\ mine \in Seq(T)
      BY <1>2, <3>1
    <3> QED  BY <2>2, <3>2
  <2> QED  BY <2>1, <2>2
<1> HIDE DEF head, tail, mine
<1>9. /\ head \o mine \in Seq(T) /\ Len(head \o mine) = at + Len(mine)
      /\ \A i \in 1..at : (head \o mine)[i] = rest[i]
      /\ \A i \in 1..Len(mine) : (head \o mine)[at + i] = mine[i]
  BY <1>5, <1>7, <1>8, ConcatProperties
<1> DEFINE front == head \o mine
<1>10. stack = front \o tail
  OBVIOUS
<1> HIDE DEF front, stack
<1>11. /\ DOMAIN stack = 1..Len(stack) /\ Len(stack) \in Nat /\ Len(stack) >= at + Len(mine)
       /\ \A i \in 1..(at + Len(mine)) : stack[i] = front[i]
  <2>1. front \in Seq(T) /\ Len(front) = at + Len(mine)
    BY <1>9 DEF front
  <2>2. Len(tail) \in Nat
    BY <1>7, LenProperties
  <2> QED  BY <1>5, <1>7, <1>8, <1>10, <2>1, <2>2, ConcatProperties, LenProperties
<1>0. at \in Nat /\ Len(mine) \in Nat /\ Len(mine) > 0
  BY <1>4, <1>5, <1>8
<1> DEFINE last == at + Len(mine)
<1>12. last \in DOMAIN stack /\ stack[last] = "pii" /\ last \in Nat
  <2>1. front[last] = "pii"
    <3>1. Len(mine) \in 1..Len(mine)
      BY <1>0
    <3> QED  BY <1>8, <1>9, <3>1 DEF front
  <2>2. last \in 1..(at + Len(mine)) /\ last \in Nat
    BY <1>0
  <2>3. stack[last] = front[last]
    BY <1>11, <2>2
  <2>4. last \in DOMAIN stack
    BY <1>0, <1>11
  <2> QED  BY <2>1, <2>2, <2>3, <2>4
<1>13. IncludeJWT => Before("jwt", "pii", stack)
  <2> SUFFICES ASSUME IncludeJWT PROVE Before("jwt", "pii", stack)
    OBVIOUS
  <2>1. at + 1 \in DOMAIN stack /\ at + 1 < last /\ stack[at + 1] = "jwt"
    <3>1. 1 \in 1..Len(mine) /\ mine[1] = "jwt" /\ Len(mine) = 2
      BY <1>8
    <3>2. front[at + 1] = "jwt"
      BY <1>9, <3>1 DEF front
    <3>3. at \in Nat
      BY <1>4, <1>5
    <3> QED  BY <1>11, <3>1, <3>2, <3>3
  <2> HIDE DEF last
  <2> QED  BY <1>12, <2>1 DEF Before
<1>14. anchors # {} => Before("auth", "pii", stack)
  <2> SUFFICES ASSUME anchors # {} PROVE Before("auth", "pii", stack)
    OBVIOUS
  <2>1. at \in DOMAIN stack /\ at < last /\ stack[at] = "auth"
    <3>1. at \in 1..at /\ at \in 1..(at + Len(mine)) /\ rest[at] = "auth" /\ at < last
      BY <1>0, <1>4, <1>6
    <3>2. front[at] = "auth"
      BY <1>9, <3>1 DEF front
    <3>3. stack[at] = "auth"
      BY <1>11, <3>1, <3>2
    <3>4. at \in DOMAIN stack
      BY <1>0, <1>11, <3>1
    <3> QED  BY <3>1, <3>3, <3>4
  <2> HIDE DEF last
  <2> QED  BY <1>12, <2>1 DEF Before
<1> QED  BY <1>1, <1>3, <1>13, <1>14

\* Whoever is entitled is seen by the middleware, with the tenant of the membership.
LEMMA EntitledAreSeen ==
  ASSUME TypeOK, NEW user \in Users \cup {Anonymous}, Entitled(user, member)
  PROVE  user \in Users /\ Default(user) = member[user] /\ Default(user) \in Tenants
<1>1. user # Anonymous /\ user \in Users /\ member[user] \in Tenants
  BY DEF Entitled, TypeOK
<1>2. Authenticated(user)
  BY <1>1, SetupPlaces DEF Entitled, Authenticated
<1> QED  BY <1>1, <1>2 DEF Default

\* The request of an entitled user is under the middleware's watch, the membership
\* is still there, and the tenant that is cached, once it is, is a tenant.
SeenOK(t) ==
  req[t].entitled =>
    Active(req[t]) /\ Entitled(req[t].user, member) /\ req[t].cached # NoTenant

MissedInv == OnlyDetachedCallsMissed /\ \A t \in Threads : SeenOK(t)

\* Tenants are not created again, and failures are counted on.
LEMMA Counted == ASSUME TypeInv, [Next]_vars PROVE alive' \subseteq alive /\ failures <= failures'
<1>1. failures \in Nat
  BY DEF TypeInv, TypeOK
<1> USE DEF Quiet, PipelineReturns, PipelineRaises, PipelineRollsBack
<1>2. ASSUME NEW t \in Threads
      PROVE  /\ \A user \in Users \cup {Anonymous} :
                  ArriveSkipped(t, user) \/ Arrive(t, user) => UNCHANGED <<alive, failures>>
             /\ \A user \in Users : Login(t, user) => UNCHANGED <<alive, failures>>
             /\ \A tenant \in Tenants : JobStart(t, tenant) => UNCHANGED <<alive, failures>>
             /\ SetTenant(t) \/ Reset(t) \/ Close(t) => UNCHANGED <<alive, failures>>
  BY DEF ArriveSkipped, Arrive, Login, JobStart, SetTenant, Reset, Close, bounds
<1>3. ASSUME NEW t \in Threads, ScanInbound(t) \/ FailsEarly(t) \/ ScanOutbound(t)
      PROVE  alive' = alive /\ failures' \in {failures, failures + 1}
  <2>1. CASE ScanInbound(t)
    BY <2>1 DEF ScanInbound
  <2>2. CASE FailsEarly(t)
    BY <2>2 DEF FailsEarly
  <2>3. CASE ScanOutbound(t)
    BY <2>3 DEF ScanOutbound
  <2> QED  BY <1>3, <2>1, <2>2, <2>3
<1>4. ASSUME NEW t, NEW c, NEW via, CallIn(t, c, via)
      PROVE  alive' = alive /\ failures' \in {failures, failures + 1}
  BY <1>4 DEF CallIn
<1>5. ASSUME NEW t \in Threads, OutboundCall(t) \/ PoolCall(t) \/ StreamCall(t)
      PROVE  alive' = alive /\ failures' \in {failures, failures + 1}
  BY <1>4, <1>5 DEF OutboundCall, PoolCall, StreamCall
<1>6. ASSUME NEW w \in Workers, TaskPersist(w) \/ TaskLost(w) \/ \E task \in queue : Take(w, task)
      PROVE  alive' = alive /\ failures' \in {failures, failures + 1}
  BY <1>6 DEF TaskPersist, TaskLost, Take, bounds
<1>7. /\ \A user \in Users, tenant \in Tenants \cup {NoTenant} :
           ChangeMembership(user, tenant) => UNCHANGED <<alive, failures>>
      /\ \A tenant \in Tenants, other \in Tenants \cup {NoTenant} :
           DeleteTenant(tenant, other) => alive' \subseteq alive /\ failures' = failures
      /\ \A tenant \in Tenants : DeleteService(tenant) => UNCHANGED <<alive, failures>>
  BY DEF ChangeMembership, DeleteTenant, DeleteService
<1>8. UNCHANGED vars => UNCHANGED <<alive, failures>>
  BY DEF vars, bounds
<1> QED  BY <1>1, <1>2, <1>3, <1>5, <1>6, <1>7, <1>8 DEF Next

LEMMA MissedKeeps ==
  ASSUME TypeInv, OnlyDetachedCallsMissed, UNCHANGED missed,
         alive' \subseteq alive, failures <= failures', failures' \in Nat
  PROVE  OnlyDetachedCallsMissed'
<1>1. alive \subseteq Tenants /\ failures \in Nat
  BY DEF TypeInv, TypeOK
<1>2. alive # Tenants => alive' # Tenants
  BY <1>1
<1>3. failures > 0 => failures' > 0
  BY <1>1
<1> QED  BY <1>2, <1>3 DEF OnlyDetachedCallsMissed

\* A step of one thread, which leaves the memberships alone.
LEMMA SeenKeeps ==
  ASSUME TypeInv, MissedInv, NEW t \in Threads, UNCHANGED member,
         \A u \in Threads \ {t} : req'[u] = req[u],
         OnlyDetachedCallsMissed', SeenOK(t)'
  PROVE  MissedInv'
BY DEF MissedInv, SeenOK, Active, Entitled

\* A thread that is through with a request, or goes on with what it knows of it.
LEMMA SeenSteps ==
  ASSUME TypeInv, MissedInv, NEW t \in Threads, UNCHANGED member, OnlyDetachedCallsMissed'
  PROVE  /\ Become(t, Free) => MissedInv'
         /\ \A at \in {"tenant", "view", "outbound", "stream"} :
              Become(t, [req[t] EXCEPT !.at = at]) => MissedInv'
         /\ \A at \in {"tenant", "view"} :
              Become(t, [req[t] EXCEPT !.at = at, !.cached = ResolveTenant(req[t])]) => MissedInv'
<1>0. req[t] \in Requests /\ SeenOK(t)
  BY DEF TypeInv, TypeOK, MissedInv
<1>1. ASSUME Become(t, Free) PROVE MissedInv'
  <2>1. ~req'[t].entitled /\ \A u \in Threads \ {t} : req'[u] = req[u]
    BY <1>1 DEF Become, Free, TypeInv, TypeOK
  <2> QED  BY <2>1, SeenKeeps DEF SeenOK, MissedInv
<1>2. ASSUME NEW at \in {"tenant", "view", "outbound", "stream"}, Become(t, [req[t] EXCEPT !.at = at])
      PROVE  MissedInv'
  <2>1. /\ req'[t].at = at /\ req'[t].entitled = req[t].entitled /\ req'[t].skip = req[t].skip
        /\ req'[t].user = req[t].user /\ req'[t].cached = req[t].cached
        /\ \A u \in Threads \ {t} : req'[u] = req[u]
    BY <1>0, <1>2 DEF Become, Requests, TypeInv, TypeOK
  <2>2. SeenOK(t)'
    BY <1>0, <2>1 DEF SeenOK, Active, Entitled
  <2> QED  BY <2>1, <2>2, SeenKeeps DEF MissedInv
<1>3. ASSUME NEW at \in {"tenant", "view"},
             Become(t, [req[t] EXCEPT !.at = at, !.cached = ResolveTenant(req[t])])
      PROVE  MissedInv'
  <2> DEFINE tenant == ResolveTenant(req[t])
  <2>1. Become(t, [req[t] EXCEPT !.at = at, !.cached = tenant])
    BY <1>3
  <2>2. req[t].entitled => tenant # NoTenant
    <3> SUFFICES ASSUME req[t].entitled PROVE tenant # NoTenant
      OBVIOUS
    <3>1. req[t].user \in Users \cup {Anonymous} /\ Entitled(req[t].user, member)
          /\ req[t].cached # NoTenant
      BY <1>0 DEF Requests, SeenOK
    <3>2. Default(req[t].user) # NoTenant
      BY <3>1, EntitledAreSeen, RequestAssumption DEF TypeInv
    <3> QED  BY <3>1, <3>2 DEF ResolveTenant
  <2> HIDE DEF tenant
  <2>3. /\ req'[t].at = at /\ req'[t].entitled = req[t].entitled /\ req'[t].skip = req[t].skip
        /\ req'[t].user = req[t].user /\ req'[t].cached = tenant
        /\ \A u \in Threads \ {t} : req'[u] = req[u]
    BY <1>0, <2>1 DEF Become, Requests, TypeInv, TypeOK
  <2>4. SeenOK(t)'
    BY <1>0, <2>2, <2>3 DEF SeenOK, Active, Entitled
  <2> QED  BY <2>3, <2>4, SeenKeeps DEF MissedInv
<1> QED  BY <1>1, <1>2, <1>3

\* A call of the view's own thread has a tenant in its context.
LEMMA CallsSeen ==
  ASSUME TypeInv, ThreadInv, MissedInv, NEW t \in Threads, NEW c \in Contexts,
         NEW via \in {"view", "pool", "stream"}, CallIn(t, c, via),
         via = "view" => c = ctx[t] /\ req[t].at \in {"view", "job"},
         failures <= failures', failures' \in Nat
  PROVE  MissedInv'
<1>1. ThreadOK(t) /\ SeenOK(t)
  BY DEF ThreadInv, MissedInv
<1>2. UNCHANGED <<member, req, alive>>
  BY DEF CallIn
<1>3. failures \in Nat /\ alive \subseteq Tenants /\ c.tenant \in Tenants \cup {NoTenant}
  BY DEF TypeInv, TypeOK, Contexts
<1>4. CASE UNCHANGED missed
  BY <1>2, <1>4, MissedKeeps DEF MissedInv, SeenOK, Active, Entitled
<1>5. ASSUME NEW why, Unrecorded(t, via, why), missed' # missed,
             \/ why = "no tenant" /\ c.tenant = NoTenant
             \/ why = "deleted tenant" /\ c.tenant # NoTenant /\ c.tenant \notin alive
             \/ why = "failure" /\ failures' = failures + 1
      PROVE  MissedInv'
  <2>1. missed' = missed \cup {[via |-> via, why |-> why]} /\ req[t].entitled
    BY <1>5 DEF Unrecorded
  <2>2. ASSUME via = "view", why = "no tenant" PROVE FALSE
    <3>1. ctx[t].tenant = NoTenant
      BY <1>5, <2>2
    <3>2. Active(req[t]) /\ req[t].at = "view" /\ req[t].cached # NoTenant
      BY <1>1, <2>1, <2>2 DEF SeenOK, Active
    <3> QED  BY <1>1, <3>1, <3>2 DEF ThreadOK
  <2>3. why = "deleted tenant" => alive' # Tenants
    BY <1>2, <1>3, <1>5
  <2>4. why = "failure" => failures' > 0
    BY <1>3, <1>5
  <2>5. OnlyDetachedCallsMissed'
    <3> SUFFICES ASSUME NEW x \in missed'
                 PROVE  /\ x.via = "view" => x.why # "no tenant"
                        /\ x.why = "deleted tenant" => alive' # Tenants
                        /\ x.why = "failure" => failures' > 0
      BY DEF OnlyDetachedCallsMissed
    <3>1. CASE x \in missed
      <4>1. /\ x.via = "view" => x.why # "no tenant"
            /\ x.why = "deleted tenant" => alive # Tenants
            /\ x.why = "failure" => failures > 0
        BY <3>1 DEF MissedInv, OnlyDetachedCallsMissed
      <4>2. failures > 0 => failures' > 0
        BY <1>3
      <4> QED  BY <1>2, <4>1, <4>2
    <3>2. CASE x = [via |-> via, why |-> why]
      BY <2>2, <2>3, <2>4, <3>2
    <3> QED  BY <2>1, <3>1, <3>2
  <2> QED  BY <1>2, <2>5 DEF MissedInv, SeenOK, Active, Entitled
<1>6. ASSUME NEW s, PipelineRaises(s) \/ PipelineRollsBack(s), s.tenant \in alive
      PROVE  failures' = failures + 1
  BY <1>6 DEF PipelineRaises, PipelineRollsBack
<1>7. \/ missed' = missed
      \/ \E why : /\ Unrecorded(t, via, why)
                  /\ \/ why = "no tenant" /\ c.tenant = NoTenant
                     \/ why = "deleted tenant" /\ c.tenant # NoTenant /\ c.tenant \notin alive
                     \/ why = "failure" /\ failures' = failures + 1
  <2>1. ASSUME c.tenant \in alive, NEW text \in Texts,
               LET s == [text |-> text, direction |-> "egress", tenant |-> c.tenant,
                         rid |-> c.rid, service |-> service'[c.tenant],
                         serving |-> req[t].rid, leaked |-> t \in leaked]
               IN  (PipelineRaises(s) \/ PipelineRollsBack(s)) /\ Unrecorded(t, via, "failure")
        PROVE  failures' = failures + 1 /\ Unrecorded(t, via, "failure")
    <3> DEFINE s == [text |-> text, direction |-> "egress", tenant |-> c.tenant,
                     rid |-> c.rid, service |-> service'[c.tenant],
                     serving |-> req[t].rid, leaked |-> t \in leaked]
    <3>1. s.tenant \in alive /\ (PipelineRaises(s) \/ PipelineRollsBack(s)) /\ Unrecorded(t, via, "failure")
      BY <2>1
    <3> HIDE DEF s
    <3> QED  BY <1>6, <3>1
  <2>2. \/ missed' = missed
        \/ c.tenant = NoTenant /\ Unrecorded(t, via, "no tenant")
        \/ c.tenant # NoTenant /\ c.tenant \notin alive /\ Unrecorded(t, via, "deleted tenant")
        \/ failures' = failures + 1 /\ Unrecorded(t, via, "failure")
    BY <2>1 DEF CallIn
  <2> QED  BY <2>2
<1> QED  BY <1>4, <1>5, <1>7

LEMMA MissedStep == ASSUME TypeInv, TypeInv', ThreadInv, MissedInv, [Next]_vars PROVE MissedInv'
<1>a. UNCHANGED missed => OnlyDetachedCallsMissed'
  BY Counted, MissedKeeps DEF MissedInv, TypeInv, TypeOK
<1>b. failures <= failures' /\ failures' \in Nat
  BY Counted DEF TypeInv, TypeOK
<1>1. ASSUME NEW t \in Threads, NEW user \in Users \cup {Anonymous}, ArriveSkipped(t, user)
      PROVE  MissedInv'
  <2>1. /\ UNCHANGED <<member, missed>>
        /\ Become(t, [Free EXCEPT !.at = "view", !.user = user, !.skip = TRUE, !.saved = ctx[t]])
    BY <1>1 DEF ArriveSkipped
  <2>2. ~req'[t].entitled /\ \A u \in Threads \ {t} : req'[u] = req[u]
    BY <2>1 DEF Become, Free, TypeInv, TypeOK
  <2> QED  BY <1>a, <2>1, <2>2, SeenKeeps DEF SeenOK
<1>2. ASSUME NEW t \in Threads, NEW user \in Users \cup {Anonymous}, Arrive(t, user)
      PROVE  MissedInv'
  <2> DEFINE e == Entitled(user, member)
             n == requests'
  <2>1. /\ UNCHANGED <<member, missed>>
        /\ Become(t, [Free EXCEPT !.at = "inbound", !.rid = n, !.user = user,
                                  !.saved = ctx[t], !.entitled = e])
    BY <1>2 DEF Arrive
  <2> HIDE DEF e, n
  <2>2. /\ req'[t].at = "inbound" /\ req'[t].user = user /\ req'[t].entitled = e
        /\ req'[t].skip = FALSE /\ req'[t].cached = Unresolved
        /\ \A u \in Threads \ {t} : req'[u] = req[u]
    BY <2>1 DEF Become, Free, TypeInv, TypeOK
  <2>3. SeenOK(t)'
    BY <2>1, <2>2, RequestAssumption DEF SeenOK, Active, Entitled, e
  <2> QED  BY <1>a, <2>1, <2>2, <2>3, SeenKeeps
<1>3. ASSUME NEW t \in Threads, ScanInbound(t) \/ FailsEarly(t) \/ SetTenant(t)
      PROVE  MissedInv'
  <2>1. /\ UNCHANGED <<member, missed>>
        /\ \/ Become(t, Free)
           \/ Become(t, [req[t] EXCEPT !.at = "tenant"])
           \/ Become(t, [req[t] EXCEPT !.at = "tenant", !.cached = ResolveTenant(req[t])])
           \/ Become(t, [req[t] EXCEPT !.at = "view", !.cached = ResolveTenant(req[t])])
    BY <1>3 DEF ScanInbound, FailsEarly, SetTenant
  <2> QED  BY <1>a, <2>1, SeenSteps
<1>4. ASSUME NEW t \in Threads, OutboundCall(t) \/ PoolCall(t) \/ StreamCall(t)
      PROVE  MissedInv'
  <2>1. ctx[t] \in Contexts /\ Fresh \in Contexts
    BY FreeType DEF TypeInv, TypeOK
  <2> QED  BY <1>4, <1>b, <2>1, CallsSeen DEF OutboundCall, PoolCall, StreamCall
<1>5. ASSUME NEW t \in Threads, NEW user \in Users, Login(t, user) PROVE MissedInv'
  <2>1. /\ UNCHANGED <<member, missed>> /\ req[t].user = Anonymous /\ req[t] \in Requests
        /\ Become(t, [req[t] EXCEPT !.user = user])
    BY <1>5 DEF Login, TypeInv, TypeOK
  <2>2. req'[t].entitled = req[t].entitled /\ \A u \in Threads \ {t} : req'[u] = req[u]
    BY <2>1 DEF Become, Requests, TypeInv, TypeOK
  <2>3. ~req[t].entitled
    BY <2>1 DEF MissedInv, SeenOK, Entitled
  <2> QED  BY <1>a, <2>1, <2>2, <2>3, SeenKeeps DEF SeenOK
<1>6. ASSUME NEW t \in Threads, Reset(t) \/ ScanOutbound(t) \/ Close(t) PROVE MissedInv'
  <2>1. /\ UNCHANGED <<member, missed>>
        /\ \/ Become(t, Free)
           \/ Become(t, [req[t] EXCEPT !.at = "outbound"])
           \/ Become(t, [req[t] EXCEPT !.at = "stream"])
    BY <1>6 DEF Reset, ScanOutbound, Close
  <2> QED  BY <1>a, <2>1, SeenSteps
<1>7. ASSUME NEW t \in Threads, NEW tenant \in Tenants, JobStart(t, tenant) PROVE MissedInv'
  <2>1. /\ UNCHANGED <<member, missed>>
        /\ Become(t, [Free EXCEPT !.at = "job", !.saved = ctx[t]])
    BY <1>7 DEF JobStart
  <2>2. ~req'[t].entitled /\ \A u \in Threads \ {t} : req'[u] = req[u]
    BY <2>1 DEF Become, Free, TypeInv, TypeOK
  <2> QED  BY <1>a, <2>1, <2>2, SeenKeeps DEF SeenOK
\* A membership changes: who loses it is entitled no longer.
<1>8. ASSUME NEW m, Remember(m), UNCHANGED missed PROVE MissedInv'
  <2>1. ASSUME NEW t \in Threads PROVE SeenOK(t)'
    <3>1. req[t] \in Requests /\ member' = m /\ SeenOK(t)
      BY <1>8 DEF TypeInv, TypeOK, Remember, MissedInv
    <3> DEFINE e == req[t].entitled /\ Entitled(req[t].user, m)
    <3>2. req'[t] = [req[t] EXCEPT !.entitled = e]
      BY <1>8 DEF Remember
    <3>3. e => req[t].entitled /\ Entitled(req[t].user, m)
      OBVIOUS
    <3> HIDE DEF e
    <3>4. /\ req'[t].at = req[t].at /\ req'[t].skip = req[t].skip /\ req'[t].entitled = e
          /\ req'[t].user = req[t].user /\ req'[t].cached = req[t].cached
      BY <3>1, <3>2 DEF Requests
    <3> QED  BY <3>1, <3>3, <3>4 DEF SeenOK, Active, Entitled
  <2> QED  BY <1>8, <1>a, <2>1 DEF MissedInv
<1>9. ASSUME \/ \E user \in Users, tenant \in Tenants \cup {NoTenant} : ChangeMembership(user, tenant)
             \/ \E tenant \in Tenants, other \in Tenants \cup {NoTenant} : DeleteTenant(tenant, other)
      PROVE  MissedInv'
  BY <1>8, <1>9 DEF ChangeMembership, DeleteTenant
<1>10. ASSUME \/ \E w \in Workers : TaskPersist(w) \/ TaskLost(w) \/ \E task \in queue : Take(w, task)
              \/ \E tenant \in Tenants : DeleteService(tenant)
              \/ UNCHANGED vars
       PROVE  MissedInv'
  <2>1. UNCHANGED <<member, req, missed>>
    BY <1>10 DEF TaskPersist, TaskLost, Take, DeleteService, vars
  <2> QED  BY <1>a, <2>1 DEF MissedInv, SeenOK, Active, Entitled
<1> QED
  BY <1>1, <1>2, <1>3, <1>4, <1>5, <1>6, <1>7, <1>9, <1>10 DEF Next

\* setup.py:24-59, middleware.py:58-70: wherever the host's list has its entries, the
\* detection middleware sees an entitled user, and the view's own calls are recorded
\* unless the recording fails or the request's tenant is gone.
THEOREM MissedHold == Spec => []OnlyDetachedCallsMissed
<1>1. Init => MissedInv
  BY DEF Init, MissedInv, OnlyDetachedCallsMissed, SeenOK, Free
<1>2. TenantInv /\ MissedInv /\ [Next]_vars => MissedInv'
  BY MissedStep, TenantInvStep DEF TenantInv
<1>3. MissedInv => OnlyDetachedCallsMissed
  BY DEF MissedInv
<1> QED  BY <1>1, <1>2, <1>3, TenantInvInit, TenantInvStep, PTL DEF Spec
=============================================================================
