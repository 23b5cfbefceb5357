# Wiregraph: specification, model checking and proofs

Wiregraph is a Django plug-in that watches the traffic of a running
application for personal data: it scans requests, responses and outbound HTTP
calls, stores what it finds as `DataEvent` rows, decides for each data flow
whether it is expected, acceptable, suspicious or prohibited, and alerts on the
latter two. This directory holds TLA+ models of that system, the TLC
configurations that check them, and theorems about them that TLAPS proves.

Paths below are relative to `src/src/` of the repository unless they start with
`docs/`; `core/` stands for `wiregraph_core/`, `detection/`, `egress/`,
`reporting/` and `common/` for the Django apps under `wiregraph_apps/`.

How to run:

    tlc -config MCAlertRouting.cfg MCAlertRouting.tla      # any cfg with its module
    tlapm AlertRoutingProofs.tla                           # any *Proofs module

## 1. Inventory

### Components, their state and their operations

| component | code | state it keeps | operations that change it |
|---|---|---|---|
| Classifier | `core/classifier.py`, `detection/adapters/classifier.py` | none | pure decision: `classify`, `effective_alert_level` |
| Allowlist matching | `core/allowlist.py` | none | pure: `find_matching_rule`, `partition_matches` |
| Allowlist rule cache | `detection/adapters/allowlist.py`, `api/views.py`, `admin.py` | rule list per tenant in the shared cache (30 s); `AllowlistRule` rows | fill, expiry, invalidation; API and admin writes |
| Alert routing | `detection/receivers.py` | none of its own | route, POST to webhook and pager |
| Deduplication | `core/dedup.py`, `core/cache.py` | window keys in the shared cache | `should_emit` |
| Escalation | `core/escalation.py` | hit counters in the shared cache, daily rollup rows | `should_escalate`, `record_escalation` |
| Digest | `reporting/digest.py`, `reporting/models.py` | daily rollup rows | `record_digest_entry` |
| Persistence | `detection/persistence.py`, `flow_state.py`, `models.py` | `DataAsset`, `DataEvent`, `ShadowDecisionCounter` rows | `persist_matches`, `persist_egress_matches`, signals |
| Pipeline, middleware | `core/pipeline.py`, `detection/pipeline.py`, `detection/middleware.py`, `common/tenancy.py`, `common/request_context.py` | tenant and request id in context variables | one scan in, one out, per request |
| Egress interceptor | `egress/interceptor.py`, `egress/models.py` | `ExternalService` rows, installed patches, the re-entry context variable | install, uninstall, `record_egress` |
| Presidio task | `detection/tasks.py`, `core/scanner/presidio.py` | Celery messages | enqueue, scan, de-duplicate, persist |
| Regex scanner | `core/scanner/regex.py` | none | `scan`, `redact` |
| Sink resolver | `core/sinks.py`, `detection/adapters/sinks.py` | `SinkCatalogOverride` rows | `resolve_sink` |
| Retention purge | `reporting/purge.py` | deletes rows | two batched sweeps |
| Dashboard and reports | `detection/api/selectors.py`, `detection/api/views.py`, `reporting/api/views.py`, `common/admin_views.py` | none | read only, several statements per answer |
| Setup | `wiregraph/`, `common/conf.py` | module caches | once at start-up |
| Management commands, tenants | `common/management`, `tenants/` | one table | create a tenant |

### How they interact

    request --> middleware --> view --> (egress interceptor on outbound calls)
                   |                         |
                   v                         v
             detection pipeline        record_egress: sink resolver, upsert
              (regex, Presidio task)         |
                   |                         |
                   +--> persistence <--------+
                         |  allowlist split (rule cache)
                         |  one transaction: asset, event, classify, shadow counter
                         v
                    Django signals, after the transaction
                         |
                         v
                    alert routing --> dedup / escalation (shared cache)
                                  --> webhook, pager, digest rollup

Everything is called synchronously in a request thread or in a Celery worker.
Threads and processes share the database and the cache and nothing else;
signals are plain callbacks, sent in the caller's thread after its transaction.

### What is hard here

* **Shared cache without transactions.** Dedup, escalation and the rule cache
  are built from single atomic cache calls; anything may happen between two.
* **A database transaction with swallowed exceptions.** `persist_egress_matches`
  catches errors per match inside `transaction.atomic()`; in PostgreSQL the
  transaction is then aborted, though the code goes on.
* **Derived state.** First sight of a flow is read from committed rows while
  other calls insert; shadow counters must agree with rows that may roll back.
* **Effects after the commit.** Signals go out after the transaction, windows are
  opened before the POST: a kill or an error between the two loses an alert.
* **Caller-controlled order.** Matches are inserted in the order found; two calls
  can lock assets and counters in opposite orders.
* **Context variables** for tenant, request id and re-entry: set, read in other
  modules, and reset by hand on every path out of a request or a recording.
* **Monkey patches** taken off in another order than they were put on.
* **Reads of several statements** (pages, cards, counts before deletes) over a
  table that changes in between.

`PROJECT.json` lists every hazard at its line with the properties that cover it.
What makes each modelled component correct is stated by its properties below.

## 2. Modules

| module | models | state and actions |
|---|---|---|
| `Classifier` | `core/classifier.py`, category table of `core/sinks.py` | operators `Classify`, `EffectiveAccepts`, `EffectiveAlertLevel` |
| `AllowlistEngine` | `core/allowlist.py` | operators `RuleMatches`, `Specificity`, `FindMatchingRule`, `Partition`; string prefixes and suffixes are constant relations |
| `FlowPolicy` | `classify_for_event` over time | one flow and every piece of configuration its decision reads; an action per operator change |
| `SharedCache` | `core/cache.py` | `add`, `incr`, `delete`, expiry as functions of a cache value |
| `AlertWindow` | *abstract*: what dedup promises | per key, time left and admissions |
| `AlertRouting` | `receivers.py`, `dedup.py`, `escalation.py`, `digest.py` | workers stepping through the receiver, one cache call, POST or upsert per action, the last of which may fail; `Crash`, `Tick` |
| `RuleCache` | `adapters/allowlist.py` and the writers of rules | readers (`Get`, `Query`, `Fill`), API and admin writers, crash, time |
| `Persistence` | `persistence.py`, `flow_state.py`, shadow counters | workers stepping through a call, one statement group per action, with lock waits, statement failures, deadlock detection, kills, rollback, signals |
| `AuditLog` | *abstract*: what persistence promises | rows in the order added, assets, counters, calls that owe signals; `Add` and `Signal` |
| `SinkResolver` | `core/sinks.py`, layering of `adapters/sinks.py` | operators `MatchCatalog`, `ResolveSink`, `SensitivityFor`; hosts and catalog keys are sequences of labels |
| `Transports` | install and uninstall of the patches of `egress/interceptor.py` | per client the wrappers around its send method, the adapter's flag and saved method; another library patches too |
| `Egress` | patched send and `record_egress`, the `ExternalService` upsert, its admin page | threads with a call and a receiver's call inside it, one statement per action |
| `Scanners` | `core/scanner/` | operators `LuhnValid`, `RegexScan`, `PresidioScan`, `DedupeAgainst` |
| `RequestScan` | middleware, pipeline, tenancy, request context, Presidio task, `setup.py` | threads stepping through a request, workers through a task; members, tenants and services change |
| `Retention` | `reporting/purge.py` and the rows it deletes | log of all rows, the table, overlapping transactions of the persistence layer and purges, one statement per action |
| `Dashboard` | event list, endpoint cards, trace, admin graph | a walk through pages and a request for cards, one statement per action; trace and graph as operators |
| `MC*` | | constants for TLC and symmetry sets |
| `BasicTheorems` | | lemmas about minima and sums that several proofs cite |
| `*Proofs` | | theorems, see section 5 |

`AlertRouting` composes `Classifier` and `SharedCache`; `Persistence` and
`FlowPolicy` compose `Classifier` and `AllowlistEngine`; `Egress` composes
`Transports` and `SinkResolver` (which extends `Classifier`), `RequestScan`
composes `Scanners`, `Dashboard` composes `Retention`. `AlertRouting` implements
`AlertWindow` under the mapping *left = the ttl of the flow's prohibited key,
admitted = alerts let through*. `Persistence` implements `AuditLog` under the
mapping *entries = the committed rows without their rule and bookkeeping, owed =
the calls past their commit that have not sent their signals, alerted and
announced = the signals sent, those of calls rolled back without an exception
left out*: those signals, which stand for no row, are the one thing the code
does and the log does not (finding `phantom_alert`).

What an action stands for, where it is not obvious:

* `AlertRouting`: a worker's `at` is the call it is about to make. `CountSeed`,
  `CountIncr`, `CountReseed`, `CountReset` are the four cache calls of
  `should_escalate`; reaching `CountReset` means it will return True. `Crash` is a
  kill, or an exception of the cache backend, which leaves the receiver and is
  logged by persistence. `UpsertFails` is a rollup write whose database error
  `record_escalation` or `record_digest_entry` swallows: the worker goes on, and the
  count is lost (`swallowed`). A webhook that is not set is `skipped`. `attempted`,
  `granted`, `verdict`, `hits`, `overlaps` and the like are history variables; no
  guard reads them, except that `events` and `crashes` are bounded.
* `RuleCache`: an API write commits and then deletes the key, two steps with any
  other step in between. Django's admin runs a form in one transaction, so the
  key is deleted *before* the commit. The admin's delete-selected action calls
  neither `delete_model` nor the invalidation.
* `Persistence`: `Insert` is `get_or_create` of the asset and the insert of the
  event (it waits while another open transaction inserted that asset), `Decide`
  the classifier, `Record` the shadow counter and the update of the row (it waits
  on a counter another open transaction incremented). The split between the two
  paths is kept: `persist_matches` inserts every event, then decides them in
  order; the egress path decides each before the next insert. `broken` is a
  transaction PostgreSQL has aborted: every later statement raises, and only the
  place it is caught differs. `CountLost` is the one failure
  that leaves the transaction whole: the insert of a missing counter runs in the
  savepoint of `get_or_create`, so an error there, or a deadlock, is undone and
  swallowed, and the row is stored uncounted.
* `Transports`: a method is the sequence of wrappers around the library's own
  function. `InstallPatches` and `UninstallPatches` are the two functions of the
  interceptor over all adapters at once; `OtherPatch` and `OtherRestore` are a
  tracing library or a test double that does the same to one client. `crossed`
  remembers clients where one side restored across the other's wrapper.
* `Egress`: `Call` fixes which of our wrappers are around the method; each of
  them, after `Sent`, goes through `record`: `TurnDown` is an early return of
  `record_egress`, `Enter` takes the time, sets the flag and resolves the sink
  (from fewer rows than there are, if the query for the overrides fails and
  `adapters/sinks.py:48` swallows the error),
  `Lookup`, `Insert` and `Touch` are the statements of `get_or_create` and of the
  update, `Scan` hands the body over, and in `notify` receivers may call out
  themselves (level 2). `Fails` is an exception anywhere inside, which the wrapper
  logs. History: `finished` (what became of each call), `touched` (times
  recorded), `edited`, `basis` and `blinded` (where a class came from).
* `RequestScan`: `Arrive`, `ScanInbound`, `SetTenant`, the view's calls, `Reset` and
  `ScanOutbound` are the body of the middleware's `__call__` in order. `FailsEarly`
  is an exception before its `try`. `PoolCall` runs in an empty context,
  `StreamCall` after the reset. `JobStart` is work outside of a request that sets
  its tenant itself, as `interceptor.py:19` asks of it. A pipeline run stores its
  rows, raises, or, for an outbound call, rolls back without an exception
  (`PipelineRollsBack`); its inside is `Persistence`. `Take` may leave a copy of the
  task with the broker. History: `scans`, `leaked` (threads left with the id of a
  failed request), `missed` (how a call that went unrecorded was made, and why: no
  tenant in its context, a tenant that was deleted, or a recording that failed and
  was logged).
* `Retention`: `StartCall` takes the time of all rows of a persist call before its
  transaction, `ClassifyRow` looks at the committed rows and at the call's own,
  `CommitCall` makes them visible, `AbortCall` is a rollback. A service that is
  deleted takes down the open transactions that refer to it. The table may begin
  with rows of an older version. `StartPurge` counts the candidates, `ReadBatch`
  selects keys, `DeleteBatch` deletes what is still there of them. `log` keeps every
  row, so that the properties can speak of deleted ones; no guard reads a deleted
  row.
* `Dashboard`: `CountPage` and `SlicePage` are the two statements of a page,
  `ListCards` or `RetrieveCard` the grouped query, `ReadAssets`,
  `ReadOutcomes` and `ReadSparkline` the queries of `_build_node`.

## 3. Runs

| run | question | bounds |
|---|---|---|
| `flow_policy` | Does a decision respect precedence, first sight, monotonicity and the audit trail under every configuration change? | 2 assets, 4 categories with distinct rules of `classify` (llm, unknown, wildcard, list), 3 accept lists, a rule of every rank; every change in any order |
| `alert_routing` | Does the receiver always return, does each flow admit one prohibited alert per window of its own, and do promotions, counters and rollups stay in step when workers race, POSTs and upserts fail, keys expire and a worker dies? | 2 workers, 2 flows, 3 events of both escalating kinds, threshold 2, prohibited windows of 2 ticks, others of 1, 1 kill, 1 failed upsert |
| `rule_cache` | What can make a cached rule list stale, and for how long at most? | 2 rules, 2 readers, 2 writers, 3 writes, expiry 2, fill of at most 1 tick |
| `persistence` | Do rows, first sight, counters and signals agree when calls overlap, fail, deadlock or lose a rule, do calls return, and does it all come down to an audit log of whole calls? | 2 workers, 2 overlapping calls of 3 batches (the same asset twice, two assets in both orders) over 3 entry points, 1 failure (of a statement, a commit, a receiver or a counter's savepoint), 1 rule change |
| `egress` | Is each outbound call recorded once, whoever else patches, calls or edits? | 2 threads, 1 host that catalog, setting and tenant rows cover with keys of four lengths, a query for the rows that may fail, 4 clients of which one is importable, 2 calls, 3 re-patches, 1 edit, 2 points of time |
| `requests` | Does every row belong to the right request, tenant and service? | 1 thread, 1 worker, 2 tenants, 1 user with a bearer token, 2 requests or jobs, 2 scans, 1 change, 1 failure, 1 redelivery |
| `retention` | Is a row lost before its time, or a flow new that was seen, when purges and transactions overlap? | 2 writers with 2 calls of two rows of one flow, 2 purgers with 2 runs (a second one also after a kill), retentions of 0 days and of the setting, batches of two, 3 points of time, 1 deleted service |
| `dashboard` | What can a reader miss, and do the views agree? | 1 call of three kinds (request, response, two rows to a service) over a row of an older version in each direction it used, 1 purge in batches of one, 1 walk or request for cards, pages of one row, 1 deleted service, 3 points of time |
| `escalation_race` | *violated*: does a promotion reset the counter as the docstring says? | as `alert_routing`, no kill |
| `stale_rules` | *violated*: is invalidation automatic for API writes? | as `rule_cache` |
| `phantom_alert` | *violated*: does every signal carry a persisted row? | as `persistence` |
| `pool_calls` | *violated*: does the context reach the threads of a pool? | as `requests` |

Why the bounds are enough. Two workers reach every race of the cache calls: a
call reads one key and a step of one other worker falls in between; the third
hit, needed for a double promotion at a threshold of two, is within three events,
and so are two flows.
Windows of two ticks let a window be half over when another event comes, and
windows of one expire between two adjacent calls. Two rules let an add and a
delete overlap; three writes let a reader be overtaken, corrected and overtaken
again. Two overlapping calls are what a wait, a deadlock, a lost first sight
and a race for an asset take; batches in both orders give the cycle of waits.
Two threads are what a lost upsert and an older time written later take; a
receiver's call inside a recording needs the second call; a patch, another
library's patch and a restore out of order are three re-patches. Two requests on
one thread let one inherit what the other left; two scans put both directions,
or a scan and an outbound call, into one request; one redelivery repeats a task.
Three points of time let a row of each outcome expire under each retention
while another is kept, also between the time a call takes and its commit. Two
overlapping calls both see no row of a flow; a purge killed after its first sweep
is run again, or beside another with a longer retention. Pages of one row
with a call of two rows let the pages move between two of them. `pool_calls` is
checked with the constants of `requests`. Symmetry is used for threads, workers,
tenants, readers, purgers and rules, where
no definition tells them apart, and in no run with a liveness property. The runs
without one need no fairness. `egress`, `requests`, `pool_calls`, `retention` and
`dashboard` allow deadlock, because their behaviours end when the bounds are used up; the
other runs check that there is none.
The theorems of section 5 remove these bounds for what they cover.

What the properties say, beyond one type invariant per module:

* `PrecedenceRespected`: the rule that silences a match is never less specific
  than another that matches too. `FirstSightNeverQuiet`, `TighteningNeverMilder`:
  the decision's order and monotonicity.
  `CreatingRulesKeepsAudit`: a match kept for audit does not vanish because a
  rule is added.
* `AdmitsOnePerWindow` (refinement): one prohibited alert per flow and window,
  from whichever event or worker. `WindowsAreAnswered`: a window that silences a
  flow was opened by an alert that was answered, failed, died with its worker, or
  is being posted. The last three are real: **a failed POST consumes its
  window**, and nothing retries it. `AdmissionsAccounted`: each admission makes
  one try of both webhooks.
* `PromotionsNeedHits`, `FullCountPerPromotion`, `CounterBounded`: what escalation
  still promises although add, incr and delete are separate calls; the excess of
  promotions is exactly bounded by the overlaps. `RollupsExact`: rollups count
  nothing twice, and lose only what a killed worker had in hand and **what an upsert
  lost whose error was swallowed**.
* `StaleOnlyByKnownRoutes`: a stale list with no invalidation outstanding is due
  to a fill that a commit overtook, an admin form, a bulk delete, or a killed
  writer. `LoadsAreRecent`: whatever the cause, for no longer than the expiry and
  one fill.
* `FirstSightFlagged`: the first *committed* row of a flow was classified as first
  sight; no aborted call uses it up. `ConcurrentFirstSights`: twice only for calls
  that overlapped. `RowsAndAlertsAgree`, `DiscoveredOnce`, `ShadowCountersExact`:
  signals, assets and counters against committed rows; **a row is stored uncounted**
  only where it would have been the first of its counter. `KeepsAuditLog`
  (refinement): whatever overlaps and fails, a call's rows come together, with the
  assets they name and their counts, or not at all; nobody rewrites them; a count is
  missing only where there was none before; and of what a call added each signal is
  sent at most once, new assets first. It permits **signals cut short**, which the
  code does, and no others.
* `PatchesMatchFlags`: unless somebody restored across another's wrapper, a client
  carries one wrapper of ours exactly when its adapter says so. `SendsRecordedOnce`:
  a sent call of the application touches its service once and is scanned whichever
  client sent it; a receiver's call from inside a recording is not recorded, nor is
  **a call that raised, even if its data left**. `ClassHasOneSource`: a service
  keeps the class an operator saved, or that of its first sight, from the catalog
  entry nothing outranks; later overrides do not reach it. **If the query for the
  tenant's overrides failed at that sight, the class is for good that of settings or
  catalog.** `LastSeenLagsByOverlap`: `last_seen_at` goes back only by an older call
  still being recorded, or by an admin page that wrote back what it loaded.
* `RowsNameTheirRequest`: whichever way the request id travels, every row of both
  passes carries its scan's; the one exception is a job on a thread that **a
  request which failed in its inbound scan left its id on**.
  `OneTenantPerRequest`: body, calls and response are stored for one tenant
  whatever happens to the membership meanwhile. `OnlyDetachedCallsMissed`: with
  the middleware where `setup` puts it, only calls from pools and streaming
  responses go unrecorded for want of a tenant; a call of the view itself is lost
  only **if the tenant cached on the request was deleted meanwhile** or a recording
  failed. `SameSpanOnce`: no finding is stored by both passes.
* `PurgeKeepsRetention`: no interleaving of transactions, of purges with different
  retentions and of kills loses a row before its time. A row flagged as first sight
  had none of its flow before it, but one **committed after its look at the table**,
  one that was outlived, or one of a deleted service. A purge that returns has left
  no row it found expired, and deleted no more than it counted but for **rows that
  were committed later**, with a time from before. `WalkMissesForAReason`: a page walk
  misses a row only for an equal timestamp, a purge that moved the pages up, or an
  insert between count and slice. `CardsCoverStableRows`: a card never hides a row
  that keeps its place. `ViewsAgree`: cards, graph and trace agree on the rows, but
  for the calls that an older version stored as `outbound`, which the graph puts
  elsewhere (section 4).

### Fairness

`alert_routing` and `persistence` check liveness under weak fairness of each
worker's own steps and of nothing else: a thread inside the receiver or inside
persistence keeps running, cache calls return, a POST ends within
`_WEBHOOK_TIMEOUT` (`detection/receivers.py`), and the database ends a statement
that is not waiting; a cycle of waits is ended by its deadlock detector, which
is a step of the waiting call. Routing of new events, crashes, failed
upserts and other failures, rule changes and time are not fair: the system need not receive another request.

## 4. Findings

* **phantom_alert** (code). In `persist_egress_matches`, an error of the database
  swallowed on the last match leaves `atomic()` without an exception but with an
  aborted transaction: rows are rolled back silently and `event_classified` and
  the others are sent for rows that do not exist (`persistence.py:241-285`;
  `signals.py:56` says "The persisted `DataEvent` row"). The path of an outbound
  call is the only one: without it, `RequestSignalsCarryRows` proves the docstring.
* **escalation_race** (code). Two workers can reach the threshold before either
  deletes the counter: two promotions for three hits at a threshold of two
  (`core/escalation.py:36-37` says the caller "must accumulate another full
  window"). One worker cannot do it alone: `SoloPromotions` proves the docstring for
  a deployment with a single one.
* **stale_rules** (docs and code). A list queried before an API write can be
  cached after its invalidation and is then used for up to 30 s
  (`docs/SETUP_GUIDE.md:176` "Cache invalidation is automatic").

* **pool_calls** (docs and code). `common/request_context.py:9` says "ContextVars
  propagate to threads created via ``concurrent.futures``"; they do not, unless
  the caller copies its context, and `record_egress` skips a call without a
  tenant (`interceptor.py:96-99`).

Met while reading, and not checked by a run of their own:

* An outbound row of an older version that names a service (`selectors.py:24-27`;
  `tests/test_views.py` builds such rows) counts for a card of the service, but
  the admin graph draws no edge into the service for it (`admin_views.py:62-79`) and
  shows it beside the responses. `ViewsAgree` states that it is exactly these rows.
* The pager falls back to the alert URL (`receivers.py:63`): one alert is then
  posted there twice.
* `docs/settings.md:32` has rows purged at `DATA_RETENTION_DAYS`; rows with outcome
  `expected` go after 14 days (`RETENTION_DAYS_EXPECTED`).
* The shape that `docs/settings.md:51` gives for overrides has an explicit
  `accepts_assets: []`: the resolver keeps it as "accepts nothing", but the
  classifier takes a service's empty list for the category's defaults
  (`effective_accepts`).
* Presidio's `drivers_license` is not the `driver_license` of `ASSET_SENSITIVITY`,
  and its `phone` and `ip_address` are not the regex scanner's `phone_us` and
  `ipv4`, so that such a span is reported by both (`SameSpanOnce` is about equal
  names).
* `first_seen_at` may be later than `last_seen_at`, since they are written from
  times taken by different calls.
* A `bytearray` body is scanned when aiohttp sends it and by no other client.
* A batch size of 0 makes a purge return without deleting anything.
* The outbound event of a trace may be a row of the response body.

## 5. Proofs

Each theorem is of the specification the runs check, for every value of the
constants that satisfies the module's assumptions: any number of threads,
workers, calls, rows, rules, catalogs, and any bound.

| module | theorems | assumptions |
|---|---|---|
| `FlowPolicyProofs` | `TypeCorrect`, `PrecedenceHolds`, `FirstSightHolds`, `ConfidenceHolds`, `TighteningHolds`, `AuditHolds` | a service may have no accept list (`ConstantsAssumption`) |
| `RuleCacheProofs` | `CacheTypes`, `StalenessHolds`, `RecencyHolds` | `TTL` positive, `MaxFill` and `MaxWrites` natural, `NoRule` not a rule |
| `AlertRoutingProofs` | `RoutingTypes`, `WindowsHold`, `RoutingAdmitsOnePerWindow`, `AdmissionsHold`, `PromotionsHold`, `FullCountHolds`, `CounterHolds`, `RollupsHold`, `SoloPromotions` | windows and threshold natural, a positive escalation window, finitely many workers and flows, `NoFlow` not a flow |
| `PersistenceProofs` | `PersistenceTypes`, `FirstSightHolds`, `ConcurrentSightsHold`, `CountersHold`, `DiscoveryHolds`, `AlertsAgree`, `PersistenceKeepsAuditLog`, `RequestSignalsCarryRows` | `ConstantsAssumption`: among others, a batch has one or two matches and `SHADOW_MODE` is a boolean |
| `EgressProofs` | `PatchesHold`, `EgressTypes`, `LastSeenHolds`, `SendsHold`, `ClassHolds` | `ClientsAssumption`, `EgressAssumption`, `LabelsAssumption` (hosts and keys are sequences of labels) and `CatalogAssumption`: the resolver's answers are classes |
| `RequestScanProofs` | `RequestTypes`, `OneTenantHolds`, `RowsHold`, `SpansHold`, `MissedHold` | `RequestAssumption`: sentinels are not tenants, nor the anonymous user a user; the host's middleware is a list of names |
| `DashboardProofs` | `PurgeHolds`, `DashboardTypes`, `CardsHold`, `WalkHolds`, `ViewsHold` | `RetentionAssumption`, `RowsAssumption`, `DashboardAssumption`: numbers are natural, pages and buckets not empty, calls and older rows are sequences of rows, of any direction with any service |

`ConfidenceHolds` (a low confidence lowers a level by at most one) is proved and
not checked by a run: it is a statement about one operator.

The arguments:

* *FlowPolicy.* The state properties follow from the definitions once the state
  is typed: specificity scores order rules as the precedence list does
  (`ScoreFollowsPrecedence`), and `Classify` is monotone in what forbids a flow
  and in history and trust (`ClassifyMonotone`, `ForbiddenMonotone`).
* *RuleCache.* `StaleOnlyByKnownRoutes` is not inductive: it says nothing of the
  list a reader has in hand. `Inv` adds that a snapshot that differs from the
  table knows it was overtaken and misses no change older than its age, that what
  the cached list misses is no older than `MaxFill + TTL - ttl`, and that an open
  admin form holds a row. `CommitKeeps` does the three kinds of commit at once.
* *Refinement.* Every step of a worker but `ClaimPage` leaves the prohibited keys
  alone (`PagesUntouched`, from the keys being distinct); `ClaimPage` is an
  `Admit` when it admits and a stutter when not; `Tick` is `Tick`. With the window
  disabled, the mapping needs that its key is never present
  (`PagesWithinWindow`).
* *Counting.* A budget: `Worth` bounds, for a flow, what its promotions, the
  workers that reached the threshold, the hits that wait and the counter are
  worth together by the hits that were paid. Each kind of step is one lemma about
  seven numbers (`Paying`, `Taking`, `Reaching`, `Promoting`, `Dropping`), and
  `HeadCounts` says what a step does to the cardinalities.
* *Rollups.* `RollupInv` keeps two differences, of what was routed or promoted and
  what rollup rows and workers hold, at least zero and together at most the kills
  and the upserts whose error was swallowed. A rollup is a sum over a function,
  which the model takes with a fold: `BasicTheorems` proves of it what is needed
  (`SumIsNat`, `SumGrows`: raising one value raises the sum by as much;
  `SumOfClasses`: sizes of disjoint classes add up). There being no induction scheme
  to cite, a recursion is reasoned about by taking, of the sets on which a claim
  fails, a least one under the well-founded order of strict subsets that the library
  has.
* *Persistence.* Four invariants on top of each other. `CallsInv` says of each call
  how far it is (`Placed`), which rows it holds and in which order (`RowsPlaced`,
  `RowIds`), what it has counted (`CountedOK`) and what it may have seen of the
  ledger (`SawRight`). `StepKinds` reduces `Next` to eight kinds of steps, so that
  the others need not look at single actions: `IdsInv` (a call's rows are not in
  the ledger before its commit), `SightsInv` (what a row's first-sight flag was
  read from), `LocksInv` with `AnnouncedOnce` (a transaction that inserted an asset
  holds its unique key alone until it ends, then owes its announcement alone) and
  `SignalsInv` (a call past its transaction owes signals of its own rows, stored
  unless they are phantoms). The counters follow from a bijection between the rows
  a commit appends and the call's own (`ShiftedCount`, `CommitCounts`). What was not
  counted takes three steps: a row goes uncounted only if its counter was missing
  (`RowCounted`), a missing counter has counted no row of the ledger
  (`CountersSeen`), and a commit carries both into the ledger (`CountsInv`).
* *Audit log.* `StepKinds` again: a step inside a transaction, a rollback and a
  step of rules or caches are stutters (`InsideLog`, `LostLog`, `QuietLog`; that a
  deleted rule is cleared from its rows does not show, since an entry has none);
  a commit is an `Add` (`CommittedLog`), an end of signals a `Signal`
  (`SignalledLog`). `LogInv` adds what an `Add` demands of a transaction: its rows
  name assets that are there or that it made, it made no others, nothing was
  announced under its id, and it is no phantom. That its rows are new, numbered,
  flagged and counted comes from the invariants before; that its assets are new
  from the unique keys it holds (`LocksInv`). What `Owed` gains and loses in a
  step is said once (`StepOwed`).
* *Egress.* `PatchInv` lists the five shapes in which two sides can be wrapped
  around an uncrossed client. `SendsInv` ties the re-entry flag to the level-1 call:
  set exactly while that call is inside its recording, so that a level-2 call never
  is. `SeenInv` adds to the property that a recording's time is not in the future;
  the step that writes an older time is then its own witness (`WriteKeeps`).
  `ClassInv`: a recording carries the answer of the resolver to the overrides it
  read when it entered, to none of them if its query failed, and a service has an
  operator's class or the answer of its first sight. That the answer is the entry no
  other outranks is a fact about the resolver alone: in each layer the longest key
  that covers the host wins (`LongestWins`), and the layers are tried in order
  (`ResolvedIsBest`).
* *RequestScan.* `ThreadInv` says where in its request each thread can be and what
  it has resolved by then, and that running requests have ids of their own;
  `ScanInv` that a scan's id was given out and that the scans of a running request
  have the tenant cached on it; `RowInv` that tasks and rows
  repeat their scan. One lemma covers a step that scans nothing (`NoScanKeeps`) and
  one a step that does (`ScanKeeps`). `SpansHold` also uses that a task drops what
  overlaps the regex pass over the same text. `MissedHold` has two halves:
  wherever the host's list has its entries, `Setup` puts the detection middleware
  behind each that makes a user known (`SetupPlaces`, by positions in the
  list that `Without` leaves, `WithoutKeeps`); and `MissedInv` keeps the request of
  an entitled user under the middleware's watch with a tenant, so that a call of its
  view can only miss that tenant after it was deleted (`CallsSeen`).
* *Retention and dashboard.* `RetentionInv`: what is gone was outlived under a
  retention that was asked for, and stays so as time passes. Each transaction
  carries what its look at the table has shown (`Unseen`): every earlier row of the
  flow is unlinked or was outlived when it looked, which a commit then leaves behind
  as the flag of its rows. A purge's batch is expired under what it was asked
  (`Asked`); what a sweep has finished stays swept, because the rows it is about
  were there when it began and nothing adds to them (`Swept`, `DueShrinks`); and
  each deletion is paid for by a candidate that was counted or by a row committed
  later (`Paid`). `CardsInv` follows each row through the statements of its card: as
  long as it keeps its place, it is in the group, in the assets, in the outcomes, in
  its bucket. The least and greatest timestamps come from well-foundedness.
  `PassInv` is about the pages: a row of the start that was not shown has at least
  as many newer rows in the table as the pages before have places, unless a reason
  applies, and a reason stays one. A slice shows every row with fewer newer ones
  than it reaches down to (`InSlice`), and the rows counted bound those that are
  newer. `ViewsAgree` needs of the state only that it is typed; the totals are sums
  over classes of the same rows, of which the legacy rows of a service are one.

* *Where two findings end.* `SoloPromotions` and `RequestSignalsCarryRows` state the
  violated properties under a condition on the deployment, given as a hypothesis of
  the theorem: one worker, no interceptor. `NoOverlap` says that a worker alone finds
  no other between its count and its reset; `KindsInv` that a call keeps its kind,
  and that only an egress call ends as a phantom.

Only model-checked: liveness (`RoutingReturns`, `CallsReturn`), which the prover
does not reach. Every safety invariant, action property and refinement that a
run expects to hold is also a theorem.

## 6. Abstractions and limits

* One tenant in every module but `RequestScan`: every key, row and query is
  filtered by tenant.
* Time is in ticks; expiry is exact to the tick. The cache is one shared backend
  with atomic `add` and `incr` (Redis, Memcached, database); a per-process
  `LocMemCache` gives each process its own windows and is not modelled.
* An event is an outcome and whether its confidence is low; text, payload
  contents, redaction and the reason strings are left out. What a pattern or a
  recogniser finds in a text is a constant of `Scanners`.
* The database is PostgreSQL at READ COMMITTED, without `ATOMIC_REQUESTS`. With
  it, the host's transaction may roll back rows after the signals were sent.
* `get_or_create` followed by an `F()` update of a rollup row is one step: nothing
  in the code deletes a rollup row. A failure of either
  statement is `UpsertFails`.
* The shadow counters of `Persistence` are those of one day. Both webhooks of
  `AlertRouting` are set in the runs; the theorems also cover an alert that is
  skipped because none is.
* In `Persistence` a batch has one or two matches, and the cached rule list is any
  list current since its last refresh: how stale that may be is `RuleCache`.
* In `RequestScan` a pipeline run is one step: its inside is `Persistence` and
  `Egress`. In `Retention` a transaction is its time, one look per row and its
  commit; that a call may skip a failing row is left to `Persistence`. A job that
  runs on a thread of the web server stands for any code outside of a request that
  sets its tenant.
* In `Egress` a host is one service; threads do not share a call. A crossed client
  (a restore across the other's wrapper) is excused from its properties, because
  the interceptor cannot know.
* In `Dashboard` the filters of the event list are left out (their columns never
  change), and days are units of the clock. `qs.first()` (`selectors.py:190`) names
  the service of a card and is left out. Nobody edits a stored row.

Not modelled: `SummaryStatsView`, `ShadowReportView` and `DigestReportView` (one
query each, nothing to interleave); `redact` and the text of the patterns, and the
validation of `CUSTOM_PATTERNS` (regular expressions); `alert_on_new_asset` (one
POST, no state); the getters of the settings and the resolver's import cache; the
management commands `wiregraph_doctor` and `wiregraph_init`, the beat schedule,
the JSON path of a match, display names, templates and the admin's layout.

## 7. Plan

Done, in this order: `Classifier`, `AllowlistEngine`, `FlowPolicy`;
`SharedCache`, `AlertWindow`, `AlertRouting`; `RuleCache`; `Persistence`; their
proofs; `SinkResolver`, `Transports`, `Egress`; `Scanners`, `RequestScan`;
`Retention`, `Dashboard`; their proofs and those of `Persistence`; `AuditLog`, which
`Persistence` implements.

What is left, the most useful first:

1. A composition of middleware, egress, persistence and routing on a small
   instance: an outbound call with a prohibited asset ends in one alert.
2. An abstract *recorder* that `Egress` implements, as `Persistence` does
   `AuditLog`, and an abstract purge for `Retention`.
3. `ATOMIC_REQUESTS`: a host's transaction around the whole request.
4. The admin's edits of stored rows and of services against the views that read them.
