---------------------------- MODULE RequestScan ----------------------------
(***************************************************************************)
(* The life of a request under PIIDetectionMiddleware: the scans of its    *)
(* body and its response, the two context variables its outbound calls are *)
(* recorded by, the tenant cached on it, and the Presidio pass a Celery    *)
(* worker makes over each scanned text.                                    *)
(*                                                                         *)
(* The inside of a recorded call is module Egress, the inside of the       *)
(* persistence layer module Persistence: here a pipeline run stores its    *)
(* rows, is rolled back or raises.  A request id is a number, NoRid the    *)
(* empty string.                                                           *)
(***************************************************************************)
EXTENDS Scanners

CONSTANTS
  Threads,          \* of the web server
  Workers,          \* Celery workers
  Tenants, NoTenant,
  Users, Anonymous, \* who a request can come from
  TokenUsers,       \* those who send a bearer token and have no session
  HostMiddleware,   \* the host's MIDDLEWARE, as a sequence
  IncludeJWT,       \* include_jwt of setup
  NoTask, Unresolved,
  MaxRequests, MaxScans, MaxChanges, MaxFailures, MaxRedeliveries   \* bounds

ASSUME RequestAssumption ==
  /\ NoTenant \notin Tenants /\ Unresolved \notin Tenants \cup {NoTenant}
  /\ Anonymous \notin Users /\ TokenUsers \subseteq Users /\ IncludeJWT \in BOOLEAN
  /\ HostMiddleware \in Seq(STRING)
  /\ {MaxRequests, MaxScans, MaxChanges, MaxFailures, MaxRedeliveries} \subseteq Nat

VARIABLES
  member,      \* the tenant of a user's first membership
  alive,       \* tenants that exist
  ctx,         \* the context variables of each thread: tenant and rid
  req,         \* what each thread is doing
  service,     \* the pk of each tenant's ExternalService row, NoService without one
  queue,       \* Presidio tasks the broker holds
  worker,      \* the task each worker is in
  rows,        \* DataEvent rows
  requests, changes, failures, redeliveries,
  \* History.
  scans,       \* every text a pipeline was run on, and for which request
  leaked,      \* threads a failed request left its id on
  missed,      \* how calls of requests with a tenant were made that were not recorded,
               \* and why they were not
  services,    \* the pks given are 1..services
  deleted      \* pks of deleted services

broker == <<queue, worker>>
bounds == <<requests, changes, failures, redeliveries>>
vars == <<member, alive, ctx, req, service, broker, rows, bounds,
          scans, leaked, missed, services, deleted>>

-----------------------------------------------------------------------------
NoRid == 0
NoService == 0
Fresh == [tenant |-> NoTenant, rid |-> NoRid]

\* Mutant: an entry that is there is left where it is.
SetupNotMoved(middleware, includeJwt) ==
  middleware \o SelectSeq(<<"jwt", "pii">>, LAMBDA m : \A i \in DOMAIN middleware : middleware[i] # m)

\* The entries of a list that are none of the names, in their order.
Without(list, names) ==
  LET kept[n \in 0..Len(list)] ==
        IF n = 0 THEN <<>>
        ELSE IF list[n] \in names THEN kept[n - 1] ELSE Append(kept[n - 1], list[n])
  IN  kept[Len(list)]

\* wiregraph.setup: both entries directly after Django's authentication, or at
\* the end of a list without it.
Setup(middleware, includeJwt) ==
  LET rest == Without(middleware, {"jwt", "pii"})
      anchors == {i \in DOMAIN rest : rest[i] = "auth"}
      at == IF anchors = {} THEN Len(rest) ELSE Min(anchors)
  IN  SubSeq(rest, 1, at) \o (IF includeJwt THEN <<"jwt", "pii">> ELSE <<"pii">>)
        \o SubSeq(rest, at + 1, Len(rest))

Before(a, b, stack) == \E i, j \in DOMAIN stack : i < j /\ stack[i] = a /\ stack[j] = b

\* Whether the detection middleware sees the user: through the session, or
\* through the token that JWTAuthMiddleware decodes before it.
Authenticated(user) ==
  /\ user # Anonymous
  /\ Before(IF user \in TokenUsers THEN "jwt" ELSE "auth", "pii", Setup(HostMiddleware, IncludeJWT))

\* wiregraph.resolvers.default
Default(user) == IF Authenticated(user) THEN member[user] ELSE NoTenant

\* Mutant: the lookup is made each time.
ResolveAnew(r) == Default(r.user)

\* Mutant: the sentinel is taken for an answer.
ResolveSentinel(r) == r.cached

\* resolve_tenant: the answer is kept on the request.
ResolveTenant(r) == IF r.cached # Unresolved THEN r.cached ELSE Default(r.user)

Directions == {"inbound", "outbound", "egress"}
Contexts == [tenant : Tenants \cup {NoTenant}, rid : Nat]

Free == [at |-> "idle", rid |-> NoRid, user |-> Anonymous, cached |-> Unresolved,
         skip |-> FALSE, saved |-> Fresh, entitled |-> FALSE]
Requests ==
  [at : {"idle", "inbound", "tenant", "view", "outbound", "stream", "job"}, rid : Nat,
   user : Users \cup {Anonymous}, cached : Tenants \cup {NoTenant, Unresolved},
   skip : BOOLEAN, saved : Contexts,
   \* History: the user has had a tenant since the request came.
   entitled : BOOLEAN]

Scans == [text : Texts, direction : Directions, tenant : Tenants, rid : Nat, service : Nat,
          \* History: the request the thread was in, and whether it was a leaked one.
          serving : Nat, leaked : BOOLEAN]

Tasks == [scan : Nat, run : Nat, text : Texts, direction : Directions,
          tenant : Tenants, rid : Nat, service : Nat]

\* A call that was not recorded.
Misses == [via : {"view", "pool", "stream"}, why : {"no tenant", "deleted tenant", "failure"}]

TypeOK ==
  /\ member \in [Users -> Tenants \cup {NoTenant}]
  /\ alive \subseteq Tenants
  /\ ctx \in [Threads -> Contexts]
  /\ req \in [Threads -> Requests]
  /\ service \in [Tenants -> Nat]
  /\ queue \subseteq Tasks
  /\ worker \in [Workers -> Tasks \cup {NoTask}]
  /\ \A row \in rows :
       row \in [scan : Nat, run : Nat, by : {"regex", "presidio"}, spans : {row.spans},
                direction : Directions, tenant : Tenants, rid : Nat, service : Nat]
  /\ {requests, changes, failures, redeliveries, services} \subseteq Nat
  /\ scans \in Seq(Scans)
  /\ leaked \subseteq Threads
  /\ missed \subseteq Misses
  /\ deleted \subseteq 1..services

Init ==
  /\ member \in [Users -> Tenants]
  /\ alive = Tenants
  /\ ctx = [t \in Threads |-> Fresh]
  /\ req = [t \in Threads |-> Free]
  /\ service = [x \in Tenants |-> NoService]
  /\ queue = {}
  /\ worker = [w \in Workers |-> NoTask]
  /\ rows = {}
  /\ requests = 0 /\ changes = 0 /\ failures = 0 /\ redeliveries = 0 /\ services = 0
  /\ scans = <<>>
  /\ leaked = {} /\ missed = {} /\ deleted = {}

-----------------------------------------------------------------------------
\* What a pipeline or a task stores for a text: persist_matches makes one event of
\* the findings of an asset, persist_egress_matches one of every finding.
ByAsset(found) == {{x \in found : x.asset = y.asset} : y \in found}

EventsOf(groups, scan, run, by, s) ==
  {[scan |-> scan, run |-> run, by |-> by, spans |-> spans, direction |-> s.direction,
    tenant |-> s.tenant, rid |-> s.rid, service |-> s.service] : spans \in groups}

RegexEvents(s) ==
  LET found == RegexScan(s.text)
  IN  EventsOf(IF s.direction = "egress" THEN {{x} : x \in found} ELSE ByAsset(found),
               Len(scans) + 1, 0, "regex", s)

\* Mutant: the worker is left to find the id in its context.
EnqueueWithoutId(s) ==
  queue' \in {queue, queue \cup {[scan |-> Len(scans) + 1, run |-> 0, text |-> s.text,
                                 direction |-> s.direction, tenant |-> s.tenant,
                                 rid |-> NoRid, service |-> s.service]}}

\* enqueue_presidio_scan; a failure to reach the broker is swallowed, and with
\* ENABLE_PRESIDIO off nothing is sent.
Enqueue(s) ==
  \/ UNCHANGED queue
  \/ queue' = queue \cup {[scan |-> Len(scans) + 1, run |-> 0, text |-> s.text,
                           direction |-> s.direction, tenant |-> s.tenant,
                           rid |-> s.rid, service |-> s.service]}

\* run_pipeline returns ...
PipelineReturns(s) ==
  /\ Len(scans) < MaxScans
  /\ s.tenant \in alive \/ RegexScan(s.text) = {}
  /\ scans' = Append(scans, s)
  /\ rows' = rows \cup RegexEvents(s)
  /\ Enqueue(s)
  /\ UNCHANGED failures

\* ... but on the egress path perhaps without rows: an error of a statement that
\* persist_egress_matches catches rolls its transaction back in silence ...
PipelineRollsBack(s) ==
  /\ Len(scans) < MaxScans
  /\ s.direction = "egress" /\ s.tenant \in alive /\ RegexScan(s.text) # {}
  /\ failures < MaxFailures
  /\ failures' = failures + 1
  /\ scans' = Append(scans, s)
  /\ Enqueue(s)
  /\ UNCHANGED rows

\* ... or persistence raises, before it stored the rows or, in a receiver, after
\* that.  Without its tenant no row can be stored.
PipelineRaises(s) ==
  /\ Len(scans) < MaxScans
  /\ RegexScan(s.text) # {}
  /\ scans' = Append(scans, s)
  /\ IF s.tenant \in alive
     THEN /\ failures < MaxFailures
          /\ failures' = failures + 1
          /\ rows' \in {rows, rows \cup RegexEvents(s)}
     ELSE UNCHANGED <<failures, rows>>
  /\ UNCHANGED queue

Quiet == UNCHANGED <<rows, queue, scans, failures>>

\* The middleware scans a text of request r.
BodyScan(t, r, direction, text, tenant) ==
  [text |-> text, direction |-> direction, tenant |-> tenant, rid |-> r.rid,
   service |-> NoService, serving |-> r.rid, leaked |-> t \in leaked]

Become(t, r) == req' = [req EXCEPT ![t] = r]
At(t, step) == req[t].at = step

\* A request that came with a tenant, on a host whose middleware can see it.
Entitled(user, tenants) ==
  /\ user # Anonymous /\ tenants[user] # NoTenant
  /\ IF user \in TokenUsers THEN IncludeJWT ELSE \E i \in DOMAIN HostMiddleware : HostMiddleware[i] = "auth"

\* An excluded path, or sampled out: the request passes untouched.
ArriveSkipped(t, user) ==
  /\ At(t, "idle") /\ requests < MaxRequests
  /\ requests' = requests + 1
  /\ Become(t, [Free EXCEPT !.at = "view", !.user = user, !.skip = TRUE, !.saved = ctx[t]])
  /\ UNCHANGED <<member, alive, ctx, service, broker, rows, changes, failures, redeliveries,
                 scans, leaked, missed, services, deleted>>

\* The request is given its id.
Arrive(t, user) ==
  /\ At(t, "idle") /\ requests < MaxRequests
  /\ requests' = requests + 1
  /\ ctx' = [ctx EXCEPT ![t].rid = requests']
  /\ Become(t, [Free EXCEPT !.at = "inbound", !.rid = requests', !.user = user,
                            !.saved = ctx[t], !.entitled = Entitled(user, member)])
  /\ UNCHANGED <<member, alive, service, broker, rows, changes, failures, redeliveries,
                 scans, leaked, missed, services, deleted>>

\* _scan_inbound: only a body with a text makes it resolve the tenant.
ScanInbound(t) ==
  /\ At(t, "inbound")
  /\ \/ Become(t, [req[t] EXCEPT !.at = "tenant"]) /\ Quiet
     \/ LET tenant == ResolveTenant(req[t])
        IN  /\ Become(t, [req[t] EXCEPT !.at = "tenant", !.cached = tenant])
            /\ IF tenant = NoTenant THEN Quiet
               ELSE \E text \in Texts :
                      PipelineReturns(BodyScan(t, req[t], "inbound", text, tenant))
  /\ UNCHANGED <<member, alive, ctx, service, worker, requests, changes, redeliveries,
                 leaked, missed, services, deleted>>

\* An exception before the try: the request fails and the thread keeps its id.
FailsEarly(t) ==
  /\ \/ /\ At(t, "inbound") \/ (At(t, "tenant") /\ req[t].cached = Unresolved)
        /\ failures < MaxFailures
        /\ failures' = failures + 1
        /\ UNCHANGED <<rows, queue, scans>>
     \/ LET tenant == ResolveTenant(req[t])
        IN  /\ At(t, "inbound") /\ tenant # NoTenant
            /\ \E text \in Texts :
                 PipelineRaises(BodyScan(t, req[t], "inbound", text, tenant))
  /\ Become(t, Free)
  /\ leaked' = leaked \cup {t}
  /\ UNCHANGED <<member, alive, ctx, service, worker, requests, changes, redeliveries,
                 missed, services, deleted>>

SetTenant(t) ==
  LET tenant == ResolveTenant(req[t])
  IN  /\ At(t, "tenant")
      /\ ctx' = [ctx EXCEPT ![t].tenant = tenant]
      /\ Become(t, [req[t] EXCEPT !.at = "view", !.cached = tenant])
      /\ UNCHANGED <<member, alive, service, broker, rows, bounds,
                     scans, leaked, missed, services, deleted>>

-----------------------------------------------------------------------------
\* A call goes out and is not recorded.
Unrecorded(t, via, why) ==
  missed' = IF req[t].entitled /\ ~req[t].skip
            THEN missed \cup {[via |-> via, why |-> why]} ELSE missed

\* The row of the service a tenant calls is there, or inserted.
UpsertService(tenant) ==
  IF service[tenant] = NoService
  THEN /\ services' = services + 1
       /\ service' = [service EXCEPT ![tenant] = services']
  ELSE UNCHANGED <<service, services>>

\* record_egress in the context c: without a tenant the call passes unrecorded,
\* otherwise its service is upserted and its body, if any, scanned.  Whatever fails
\* is logged, the upsert for a tenant that was deleted included.
CallIn(t, c, via) ==
  /\ \/ /\ c.tenant = NoTenant
        /\ Unrecorded(t, via, "no tenant")
        /\ Quiet /\ UNCHANGED <<service, services>>
     \/ /\ c.tenant # NoTenant /\ c.tenant \notin alive
        /\ Unrecorded(t, via, "deleted tenant")
        /\ Quiet /\ UNCHANGED <<service, services>>
     \/ /\ c.tenant \in alive /\ failures < MaxFailures
        /\ failures' = failures + 1
        /\ Unrecorded(t, via, "failure")
        /\ UNCHANGED <<rows, queue, scans, service, services>>
     \/ /\ c.tenant \in alive
        /\ UpsertService(c.tenant)
        /\ \/ Quiet /\ UNCHANGED missed
           \/ \E text \in Texts :
                LET s == [text |-> text, direction |-> "egress", tenant |-> c.tenant,
                          rid |-> c.rid, service |-> service'[c.tenant],
                          serving |-> req[t].rid, leaked |-> t \in leaked]
                IN  \/ PipelineReturns(s) /\ UNCHANGED missed
                    \/ (PipelineRaises(s) \/ PipelineRollsBack(s)) /\ Unrecorded(t, via, "failure")
  /\ UNCHANGED <<member, alive, ctx, req, worker, requests, changes, redeliveries,
                 leaked, deleted>>

\* The view, or a job, makes an outbound call; so does a thread of a pool of the
\* view, whose context is its own; so does the generator of a streaming response,
\* when the middleware has returned.
OutboundCall(t) == req[t].at \in {"view", "job"} /\ CallIn(t, ctx[t], "view")
PoolCall(t)     == At(t, "view") /\ CallIn(t, Fresh, "pool")
StreamCall(t)   == At(t, "stream") /\ CallIn(t, ctx[t], "stream")

\* The view logs its user in.
Login(t, user) ==
  /\ At(t, "view") /\ req[t].user = Anonymous
  /\ Become(t, [req[t] EXCEPT !.user = user])
  /\ UNCHANGED <<member, alive, ctx, service, broker, rows, bounds,
                 scans, leaked, missed, services, deleted>>

\* The view returns, or raises what no handler catches: both variables are reset
\* to what they were.
Reset(t) ==
  /\ At(t, "view")
  /\ ctx' = IF req[t].skip THEN ctx ELSE [ctx EXCEPT ![t] = req[t].saved]
  /\ \/ Become(t, Free)
     \/ ~req[t].skip /\ Become(t, [req[t] EXCEPT !.at = "outbound"])
  /\ UNCHANGED <<member, alive, service, broker, rows, bounds,
                 scans, leaked, missed, services, deleted>>

\* _scan_outbound, and the response is sent; a streaming one has no text.
ScanOutbound(t) ==
  LET tenant == ResolveTenant(req[t])
  IN  /\ At(t, "outbound")
      /\ \/ Become(t, [req[t] EXCEPT !.at = "stream"]) /\ Quiet
         \/ /\ tenant # NoTenant
            /\ Become(t, Free)
            /\ \E text \in Texts :
                 LET s == BodyScan(t, req[t], "outbound", text, tenant)
                 IN  PipelineReturns(s) \/ PipelineRaises(s)
      /\ UNCHANGED <<member, alive, ctx, service, worker, requests, changes, redeliveries,
                     leaked, missed, services, deleted>>

\* Work outside of a request that sets its tenant itself, as the interceptor asks.
JobStart(t, tenant) ==
  /\ At(t, "idle") /\ tenant \in alive /\ requests < MaxRequests
  /\ requests' = requests + 1
  /\ ctx' = [ctx EXCEPT ![t].tenant = tenant]
  /\ Become(t, [Free EXCEPT !.at = "job", !.saved = ctx[t]])
  /\ UNCHANGED <<member, alive, service, broker, rows, changes, failures, redeliveries,
                 scans, leaked, missed, services, deleted>>

\* The response is closed, or the job done.
Close(t) ==
  /\ req[t].at \in {"stream", "job"}
  /\ ctx' = IF At(t, "job") THEN [ctx EXCEPT ![t].tenant = req[t].saved.tenant] ELSE ctx
  /\ Become(t, Free)
  /\ UNCHANGED <<member, alive, service, broker, rows, bounds,
                 scans, leaked, missed, services, deleted>>

-----------------------------------------------------------------------------
ServiceExists(pk) == \E tenant \in Tenants : service[tenant] = pk

\* A worker takes a task; under late acknowledgement the broker may deliver it
\* again.  A task without its tenant is skipped, one without its service goes on.
Take(w, task) ==
  /\ worker[w] = NoTask
  /\ \/ /\ queue' = queue \ {task}
        /\ UNCHANGED redeliveries
     \/ /\ redeliveries < MaxRedeliveries
        /\ redeliveries' = redeliveries + 1
        /\ queue' = (queue \ {task}) \cup {[task EXCEPT !.run = @ + 1]}
  /\ worker' = IF task.tenant \notin alive THEN worker
               ELSE [worker EXCEPT ![w] =
                       [task EXCEPT !.service = IF ServiceExists(@) THEN @ ELSE NoService]]
  /\ UNCHANGED <<member, alive, ctx, req, service, rows, requests, changes, failures,
                 scans, leaked, missed, services, deleted>>

\* _run: what the regex pass has not found is stored.  Nothing is when the tenant
\* or the service was deleted since the task began.
TaskPersist(w) ==
  LET task == worker[w]
      found == DedupeAgainst(PresidioScan(task.text), RegexScan(task.text))
  IN  /\ task # NoTask
      /\ worker' = [worker EXCEPT ![w] = NoTask]
      /\ rows' = IF task.tenant \in alive /\ (task.service = NoService \/ ServiceExists(task.service))
                 THEN rows \cup EventsOf(ByAsset(found), task.scan, task.run, "presidio", task)
                 ELSE rows
      /\ UNCHANGED <<member, alive, ctx, req, service, queue, bounds,
                     scans, leaked, missed, services, deleted>>

\* The worker is killed, or a statement of its transaction fails.
TaskLost(w) ==
  /\ worker[w] # NoTask /\ failures < MaxFailures
  /\ failures' = failures + 1
  /\ worker' = [worker EXCEPT ![w] = NoTask]
  /\ UNCHANGED <<member, alive, ctx, req, service, queue, rows, requests, changes, redeliveries,
                 scans, leaked, missed, services, deleted>>

-----------------------------------------------------------------------------
\* The first memberships become m.
Remember(m) ==
  /\ changes < MaxChanges
  /\ changes' = changes + 1
  /\ member' = m
  /\ req' = [t \in Threads |-> [req[t] EXCEPT !.entitled = @ /\ Entitled(req[t].user, m)]]

ChangeMembership(user, tenant) ==
  /\ tenant \in alive \cup {NoTenant}
  /\ Remember([member EXCEPT ![user] = tenant])
  /\ UNCHANGED <<alive, ctx, service, broker, rows, requests, failures, redeliveries,
                 scans, leaked, missed, services, deleted>>

\* The rows of a tenant go with it; its members have another one, or none.
DeleteTenant(tenant, other) ==
  /\ tenant \in alive /\ other \in (alive \ {tenant}) \cup {NoTenant}
  /\ Remember([u \in Users |-> IF member[u] = tenant THEN other ELSE member[u]])
  /\ alive' = alive \ {tenant}
  /\ rows' = {row \in rows : row.tenant # tenant}
  /\ service' = [service EXCEPT ![tenant] = NoService]
  /\ deleted' = deleted \cup ({service[tenant]} \ {NoService})
  /\ UNCHANGED <<ctx, broker, requests, failures, redeliveries, scans, leaked, missed, services>>

\* DataEvent.external_service is SET_NULL.
DeleteService(tenant) ==
  /\ service[tenant] # NoService /\ changes < MaxChanges
  /\ changes' = changes + 1
  /\ rows' = {[row EXCEPT !.service = IF @ = service[tenant] THEN NoService ELSE @] : row \in rows}
  /\ service' = [service EXCEPT ![tenant] = NoService]
  /\ deleted' = deleted \cup {service[tenant]}
  /\ UNCHANGED <<member, alive, ctx, req, broker, requests, failures, redeliveries,
                 scans, leaked, missed, services>>

Next ==
  \/ \E t \in Threads :
       \/ \E user \in Users \cup {Anonymous} : ArriveSkipped(t, user) \/ Arrive(t, user)
       \/ ScanInbound(t) \/ FailsEarly(t) \/ SetTenant(t)
       \/ OutboundCall(t) \/ PoolCall(t) \/ StreamCall(t)
       \/ \E user \in Users : Login(t, user)
       \/ Reset(t) \/ ScanOutbound(t) \/ Close(t)
       \/ \E tenant \in Tenants : JobStart(t, tenant)
  \/ \E w \in Workers :
       \/ \E task \in queue : Take(w, task)
       \/ TaskPersist(w) \/ TaskLost(w)
  \/ \E user \in Users, tenant \in Tenants \cup {NoTenant} : ChangeMembership(user, tenant)
  \/ \E tenant \in Tenants :
       \/ \E other \in Tenants \cup {NoTenant} : DeleteTenant(tenant, other)
       \/ DeleteService(tenant)

Spec == Init /\ [][Next]_vars

-----------------------------------------------------------------------------
\* middleware.py:59-75, request_context.py, tasks.py:90-121: what a request has
\* scanned carries its id, in whichever of three ways the id travels (on the
\* request, in the context, in the task), and so does every row stored for it by
\* either pass, with the scan's tenant, direction and, until it is deleted, service;
\* only a job on a thread that a failed request left its id on has a wrong one.
RowsNameTheirRequest ==
  /\ \A i \in DOMAIN scans :
       scans[i].rid = scans[i].serving \/ (scans[i].leaked /\ scans[i].serving = NoRid)
  /\ \A row \in rows :
       /\ row.scan \in DOMAIN scans
       /\ LET s == scans[row.scan]
          IN  /\ row.rid = s.rid /\ row.tenant = s.tenant /\ row.direction = s.direction
              /\ \/ row.service = s.service
                 \/ row.service = NoService /\ s.service \in deleted

\* tenancy.py:33-46, middleware.py:62-75: whatever becomes of the user and the
\* membership while it runs, all of a request (its body, its calls, its response) is
\* stored for one tenant.
OneTenantPerRequest ==
  \A i, j \in DOMAIN scans :
    scans[i].serving = scans[j].serving /\ scans[i].serving # NoRid
      => scans[i].tenant = scans[j].tenant

\* setup.py:24-59, middleware.py:58-70, interceptor.py:96-121: for a user who has a
\* tenant all the time, by session or by token, a call goes unrecorded for one of
\* three reasons: it had no tenant in its context, which befalls only calls detached
\* from the request (from a thread pool or from a streaming response); the tenant
\* the request began with has been deleted since; or the recording itself failed.
OnlyDetachedCallsMissed ==
  \A x \in missed :
    /\ x.via = "view" => x.why # "no tenant"
    /\ x.why = "deleted tenant" => alive # Tenants
    /\ x.why = "failure" => failures > 0

\* tasks.py:104-106, presidio.py:100-118: however often a task is run, the
\* Presidio pass does not store a finding the regex pass has stored.
SameSpanOnce ==
  \A x, y \in rows :
    x.scan = y.scan /\ x.by = "regex" /\ y.by = "presidio"
      => \A a \in x.spans, b \in y.spans : a.asset = b.asset => ~Overlap(a, b)

\* request_context.py:9-10: "ContextVars propagate to threads created via
\* ``concurrent.futures``": a call from a pool of the view is recorded.
PoolCallsRecorded == [via |-> "pool", why |-> "no tenant"] \notin missed
=============================================================================
