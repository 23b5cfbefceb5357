---------------------------- MODULE AlertRouting ----------------------------
(***************************************************************************)
(* What happens to a classified event (wiregraph_apps/detection/           *)
(* receivers.py): routing by alert level, deduplication, escalation of     *)
(* repeated suspicious events, webhook POSTs and the daily rollups.        *)
(*                                                                         *)
(* Every worker (a request thread or a Celery process) runs the receiver   *)
(* of one event at a time; the workers share the cache and nothing else,   *)
(* and each cache call is atomic, so one action is one cache call, one     *)
(* POST or one rollup upsert.  A worker may be killed between any two.     *)
(* Time is counted in ticks; a flow is the (tenant, asset, domain) that    *)
(* every key is built from.                                                *)
(***************************************************************************)
EXTENDS Classifier, SharedCache, FiniteSets, Functions

CONSTANTS
  Workers,
  Flows,
  NoFlow,                 \* the flow of an idle worker
  ProhibitedWindow,       \* DEDUP_WINDOW_PROHIBITED_SECONDS; 0 disables
  SuspiciousWindow,       \* DEDUP_WINDOW_SUSPICIOUS_SECONDS; 0 disables
  Threshold,              \* ESCALATION_SUSPICIOUS_COUNT; 0 disables
  EscalationWindow,       \* ESCALATION_WINDOW_SECONDS
  DisableBuiltinAlerts,   \* DISABLE_BUILTIN_ALERTS
  HasWebhook,             \* an ALERT_WEBHOOK_URL is set, and requests is installed
  EventKinds,             \* the <<outcome, below CONFIDENCE_LOW>> pairs that occur
  MaxEvents,              \* bound: events routed in a behaviour
  MaxCrashes,             \* bound: workers killed in a behaviour
  MaxFailures             \* bound: rollup upserts that fail in a behaviour

ASSUME ConstantsAssumption ==
  /\ IsFiniteSet(Workers)
  /\ IsFiniteSet(Flows)
  /\ NoFlow \notin Flows
  /\ ProhibitedWindow \in Nat
  /\ SuspiciousWindow \in Nat
  /\ Threshold \in Nat
  /\ EscalationWindow \in Nat \ {0}
  /\ DisableBuiltinAlerts \in BOOLEAN
  /\ HasWebhook \in BOOLEAN
  /\ EventKinds \subseteq Outcomes \X BOOLEAN
  /\ MaxEvents \in Nat
  /\ MaxCrashes \in Nat
  /\ MaxFailures \in Nat

VARIABLES
  task,        \* task[w]: where worker w is in the receiver, and its event
  cache,       \* dedup entries and escalation counters
  digest,      \* digest[f]: AlertDigestEntry.count of the day
  rollup,      \* EscalationCounter.count of the day
  \* History, read by the properties only.
  granted,     \* granted[f]: prohibited alerts the dedup layer let through
  attempted,   \* attempted[f]: of those, the ones whose worker tried both webhooks
  lost,        \* lost[f]: of those, the ones whose worker died first
  verdict,     \* verdict[k]: what became of the alert that opened window k
  hits,        \* hits[f]: calls of should_escalate
  promotions,  \* promotions[f]: calls that returned True
  overlaps,    \* overlaps[f]: threshold reached while another worker resets
  acceptables, \* acceptables[f]: events routed at level acceptable
  events,      \* events routed
  crashes,     \* workers killed
  swallowed    \* rollup upserts whose database error was logged and no more

history == <<granted, attempted, lost, verdict, hits, promotions, overlaps,
             acceptables, events, crashes, swallowed>>
vars == <<task, cache, digest, rollup, history>>

-----------------------------------------------------------------------------
\* _dedup_key: the prohibited key leaves the outcome out, the suspicious key
\* holds it.  The escalation counter has a prefix of its own.
PageKey(f)      == <<f, "prohibited", "">>
WarnKey(f, out) == <<f, "suspicious", out>>
CountKey(f)     == <<f, "hits", "">>

AlertOutcomes == {"suspicious", "prohibited"}
DedupKeys == {PageKey(f) : f \in Flows} \cup {WarnKey(f, o) : f \in Flows, o \in AlertOutcomes}
Keys      == DedupKeys \cup {CountKey(f) : f \in Flows}

Steps == {"idle", "claimPage", "postAlert", "postPager", "countSeed", "countIncr",
          "countReseed", "countReset", "recordEscalation", "claimWarn", "postWarn",
          "recordDigest"}
Idle  == [at |-> "idle", flow |-> NoFlow, outcome |-> "expected"]
Tasks == {Idle} \cup [at : Steps \ {"idle"}, flow : Flows, outcome : Outcomes]
Answers == IF HasWebhook THEN {"delivered", "failed"} ELSE {"skipped"}
Verdicts == {"none", "pending", "delivered", "failed", "skipped", "lost"}

TypeOK ==
  /\ task \in [Workers -> Tasks]
  /\ cache \in [Keys -> [val : Nat, ttl : Nat]]
  /\ digest \in [Flows -> Nat]
  /\ rollup \in Nat
  /\ granted \in [Flows -> Nat]
  /\ attempted \in [Flows -> Nat]
  /\ lost \in [Flows -> Nat]
  /\ verdict \in [DedupKeys -> Verdicts]
  /\ hits \in [Flows -> Nat]
  /\ promotions \in [Flows -> Nat]
  /\ overlaps \in [Flows -> Nat]
  /\ acceptables \in [Flows -> Nat]
  /\ events \in Nat
  /\ crashes \in Nat
  /\ swallowed \in Nat

Init ==
  /\ task = [w \in Workers |-> Idle]
  /\ cache = [k \in Keys |-> Absent]
  /\ digest = [f \in Flows |-> 0]
  /\ rollup = 0
  /\ granted = [f \in Flows |-> 0]
  /\ attempted = [f \in Flows |-> 0]
  /\ lost = [f \in Flows |-> 0]
  /\ verdict = [k \in DedupKeys |-> "none"]
  /\ hits = [f \in Flows |-> 0]
  /\ promotions = [f \in Flows |-> 0]
  /\ overlaps = [f \in Flows |-> 0]
  /\ acceptables = [f \in Flows |-> 0]
  /\ events = 0
  /\ crashes = 0
  /\ swallowed = 0

-----------------------------------------------------------------------------
At(w, step) == task[w].at = step
Goto(w, step) == task' = [task EXCEPT ![w].at = step]
Return(w) == task' = [task EXCEPT ![w] = Idle]
Count(counter, f) == [counter EXCEPT ![f] = @ + 1]

\* The first step of the receiver for an event of alert level level.
FirstStep(level) ==
  CASE level = "prohibited" -> "claimPage"
    [] level = "suspicious" -> IF Threshold = 0 THEN "claimWarn" ELSE "countSeed"
    [] level = "acceptable" -> "recordDigest"
    [] level = "expected"   -> "idle"

\* route_classified_event is called by persistence with the effective level.
Route(w, f, outcome, low) ==
  LET level == EffectiveAlertLevel(outcome, low)
      first == FirstStep(level)
  IN  /\ At(w, "idle")
      /\ events < MaxEvents
      /\ events' = events + 1
      /\ IF DisableBuiltinAlerts \/ first = "idle"
         THEN UNCHANGED <<task, acceptables>>
         ELSE /\ task' = [task EXCEPT ![w] = [at |-> first, flow |-> f, outcome |-> outcome]]
              /\ acceptables' = IF level = "acceptable" THEN Count(acceptables, f)
                                ELSE acceptables
      /\ UNCHANGED <<cache, digest, rollup, granted, attempted, lost, verdict, hits,
                     promotions, overlaps, crashes, swallowed>>

\* should_emit on the prohibited key: the worker whose add succeeds delivers,
\* every other one returns.
ClaimPage(w) ==
  LET f == task[w].flow
      k == PageKey(f)
  IN  /\ At(w, "claimPage")
      /\ IF ProhibitedWindow = 0 \/ ~Present(cache, k)
         THEN /\ Goto(w, "postAlert")
              /\ granted' = Count(granted, f)
              /\ verdict' = [verdict EXCEPT ![k] = "pending"]
         ELSE Return(w) /\ UNCHANGED <<granted, verdict>>
      /\ cache' = IF ProhibitedWindow = 0 THEN cache
                  ELSE CacheAdd(cache, k, 1, ProhibitedWindow)
      /\ UNCHANGED <<digest, rollup, attempted, lost, hits, promotions, overlaps,
                     acceptables, events, crashes, swallowed>>

\* Mutant: a failed alert POST propagates, so the pager is not tried.
PostAlertRaises(w) ==
  /\ At(w, "postAlert")
  /\ \/ /\ verdict' = [verdict EXCEPT ![PageKey(task[w].flow)] = "delivered"]
        /\ Goto(w, "postPager")
     \/ /\ verdict' = [verdict EXCEPT ![PageKey(task[w].flow)] = "failed"]
        /\ Return(w)
  /\ UNCHANGED <<cache, digest, rollup, granted, attempted, lost, hits, promotions,
                 overlaps, acceptables, events, crashes, swallowed>>

\* _post: the request is answered, or it raises and the exception is logged; it
\* is not made at all without a URL.
PostAlert(w) ==
  /\ At(w, "postAlert")
  /\ \E answer \in Answers :
       verdict' = [verdict EXCEPT ![PageKey(task[w].flow)] = answer]
  /\ Goto(w, "postPager")
  /\ UNCHANGED <<cache, digest, rollup, granted, attempted, lost, hits, promotions,
                 overlaps, acceptables, events, crashes, swallowed>>

\* _post_pager: its answer is never looked at.
PostPager(w) ==
  /\ At(w, "postPager")
  /\ attempted' = Count(attempted, task[w].flow)
  /\ Return(w)
  /\ UNCHANGED <<cache, digest, rollup, granted, lost, verdict, hits, promotions,
                 overlaps, acceptables, events, crashes, swallowed>>

-----------------------------------------------------------------------------
\* Mutant: one hit early.
AfterCountEarly(count) == IF count + 1 >= Threshold THEN "countReset" ELSE "claimWarn"

\* Mutant: only the hit that reaches the threshold exactly resets.
AfterCountExact(count) == IF count = Threshold THEN "countReset" ELSE "claimWarn"

\* Where should_escalate goes on after it has read its count.
AfterCount(count) == IF count >= Threshold THEN "countReset" ELSE "claimWarn"

\* Worker w's flow reaches the threshold while another worker is about to reset.
Overlap(w, count) ==
  /\ count >= Threshold
  /\ \E v \in Workers \ {w} : At(v, "countReset") /\ task[v].flow = task[w].flow

CountOverlap(w, count) ==
  overlaps' = IF Overlap(w, count) THEN Count(overlaps, task[w].flow) ELSE overlaps

\* cache.add(key, 1): the first hit of a window seeds the counter.
CountSeed(w) ==
  LET f == task[w].flow
  IN  /\ At(w, "countSeed")
      /\ hits' = Count(hits, f)
      /\ cache' = CacheAdd(cache, CountKey(f), 1, EscalationWindow)
      /\ IF Present(cache, CountKey(f))
         THEN Goto(w, "countIncr") /\ UNCHANGED overlaps
         ELSE Goto(w, AfterCount(1)) /\ CountOverlap(w, 1)
      /\ UNCHANGED <<digest, rollup, granted, attempted, lost, verdict, promotions,
                     acceptables, events, crashes, swallowed>>

\* cache.incr(key): ValueError when the counter expired or was reset meanwhile.
CountIncr(w) ==
  LET k == CountKey(task[w].flow)
      count == cache[k].val + 1
  IN  /\ At(w, "countIncr")
      /\ IF Present(cache, k)
         THEN /\ cache' = CacheIncr(cache, k)
              /\ Goto(w, AfterCount(count))
              /\ CountOverlap(w, count)
         ELSE Goto(w, "countReseed") /\ UNCHANGED <<cache, overlaps>>
      /\ UNCHANGED <<digest, rollup, granted, attempted, lost, verdict, hits, promotions,
                     acceptables, events, crashes, swallowed>>

\* Mutant: the except branch tries incr again.
CountReseedRetries(w) ==
  /\ At(w, "countReseed")
  /\ Goto(w, "countIncr")
  /\ UNCHANGED <<cache, digest, rollup, history>>

\* The except branch: the second add's result is ignored and the count is 1.
CountReseed(w) ==
  LET k == CountKey(task[w].flow)
  IN  /\ At(w, "countReseed")
      /\ cache' = CacheAdd(cache, k, 1, EscalationWindow)
      /\ Goto(w, AfterCount(1))
      /\ CountOverlap(w, 1)
      /\ UNCHANGED <<digest, rollup, granted, attempted, lost, verdict, hits, promotions,
                     acceptables, events, crashes, swallowed>>

\* Mutant: the counter is left in the cache on promotion.
CountResetForgotten(w) ==
  /\ At(w, "countReset")
  /\ promotions' = Count(promotions, task[w].flow)
  /\ Goto(w, "recordEscalation")
  /\ UNCHANGED <<cache, digest, rollup, granted, attempted, lost, verdict, hits, overlaps,
                 acceptables, events, crashes, swallowed>>

\* cache.delete(key) and return True: whatever count is there now is dropped.
CountReset(w) ==
  LET f == task[w].flow
  IN  /\ At(w, "countReset")
      /\ cache' = CacheDelete(cache, CountKey(f))
      /\ promotions' = Count(promotions, f)
      /\ Goto(w, "recordEscalation")
      /\ UNCHANGED <<digest, rollup, granted, attempted, lost, verdict, hits, overlaps,
                     acceptables, events, crashes, swallowed>>

\* Mutant: a promotion is rolled up only when its alert will be admitted.
RecordEscalationIfAdmitted(w) ==
  /\ At(w, "recordEscalation")
  /\ rollup' = IF Present(cache, PageKey(task[w].flow)) THEN rollup ELSE rollup + 1
  /\ Goto(w, "claimPage")
  /\ UNCHANGED <<cache, digest, history>>

\* record_escalation: get_or_create, then an F("count") + 1 update when the row
\* was there.  Rows are never deleted and both statements are atomic, so the
\* pair is one step.
RecordEscalation(w) ==
  /\ At(w, "recordEscalation")
  /\ rollup' = rollup + 1
  /\ Goto(w, "claimPage")
  /\ UNCHANGED <<cache, digest, granted, attempted, lost, verdict, hits, promotions,
                 overlaps, acceptables, events, crashes, swallowed>>

-----------------------------------------------------------------------------
\* Mutant: a noisy prohibited match is filtered out after its window was opened.
ClaimWarnThenFilter(w) ==
  LET k == WarnKey(task[w].flow, task[w].outcome)
  IN  /\ At(w, "claimWarn")
      /\ IF (SuspiciousWindow = 0 \/ ~Present(cache, k)) /\ task[w].outcome = "suspicious"
         THEN Goto(w, "postWarn") /\ verdict' = [verdict EXCEPT ![k] = "pending"]
         ELSE Return(w) /\ UNCHANGED verdict
      /\ cache' = CacheAdd(cache, k, 1, SuspiciousWindow)
      /\ UNCHANGED <<digest, rollup, granted, attempted, lost, hits, promotions, overlaps,
                     acceptables, events, crashes, swallowed>>

\* should_emit on the suspicious key.
ClaimWarn(w) ==
  LET k == WarnKey(task[w].flow, task[w].outcome)
  IN  /\ At(w, "claimWarn")
      /\ IF SuspiciousWindow = 0 \/ ~Present(cache, k)
         THEN /\ Goto(w, "postWarn")
              /\ verdict' = [verdict EXCEPT ![k] = "pending"]
         ELSE Return(w) /\ UNCHANGED verdict
      /\ cache' = IF SuspiciousWindow = 0 THEN cache
                  ELSE CacheAdd(cache, k, 1, SuspiciousWindow)
      /\ UNCHANGED <<digest, rollup, granted, attempted, lost, hits, promotions, overlaps,
                     acceptables, events, crashes, swallowed>>

PostWarn(w) ==
  /\ At(w, "postWarn")
  /\ \E answer \in Answers :
       verdict' = [verdict EXCEPT ![WarnKey(task[w].flow, task[w].outcome)] = answer]
  /\ Return(w)
  /\ UNCHANGED <<cache, digest, rollup, granted, attempted, lost, hits, promotions,
                 overlaps, acceptables, events, crashes, swallowed>>

\* record_digest_entry: an upsert like record_escalation's.
RecordDigest(w) ==
  /\ At(w, "recordDigest")
  /\ digest' = Count(digest, task[w].flow)
  /\ Return(w)
  /\ UNCHANGED <<cache, rollup, granted, attempted, lost, verdict, hits, promotions,
                 overlaps, acceptables, events, crashes, swallowed>>

\* Either upsert raises: the error is logged, the count is lost, and the receiver
\* goes on.
UpsertFails(w) ==
  /\ swallowed < MaxFailures
  /\ swallowed' = swallowed + 1
  /\ \/ At(w, "recordEscalation") /\ Goto(w, "claimPage")
     \/ At(w, "recordDigest") /\ Return(w)
  /\ UNCHANGED <<cache, digest, rollup, granted, attempted, lost, verdict, hits,
                 promotions, overlaps, acceptables, events, crashes>>

\* The worker process is killed between two steps, or its cache call raises and
\* persistence logs what left the receiver; the event is not retried.
Crash(w) ==
  LET f == task[w].flow
  IN  /\ ~At(w, "idle")
      /\ crashes < MaxCrashes
      /\ crashes' = crashes + 1
      /\ Return(w)
      /\ lost' = IF task[w].at \in {"postAlert", "postPager"} THEN Count(lost, f) ELSE lost
      /\ verdict' =
           CASE At(w, "postAlert") -> [verdict EXCEPT ![PageKey(f)] = "lost"]
             [] At(w, "postWarn")  -> [verdict EXCEPT ![WarnKey(f, task[w].outcome)] = "lost"]
             [] OTHER              -> verdict
      /\ UNCHANGED <<cache, digest, rollup, granted, attempted, hits, promotions, overlaps,
                     acceptables, events, swallowed>>

Tick ==
  /\ cache' = CacheAge(cache)
  /\ UNCHANGED <<task, digest, rollup, history>>

-----------------------------------------------------------------------------
WorkerStep(w) ==
  \/ ClaimPage(w) \/ PostAlert(w) \/ PostPager(w)
  \/ CountSeed(w) \/ CountIncr(w) \/ CountReseed(w) \/ CountReset(w)
  \/ RecordEscalation(w)
  \/ ClaimWarn(w) \/ PostWarn(w)
  \/ RecordDigest(w)

Next ==
  \/ \E w \in Workers :
       \/ \E f \in Flows, e \in EventKinds : Route(w, f, e[1], e[2])
       \/ WorkerStep(w)
       \/ UpsertFails(w) \/ Crash(w)
  \/ Tick

\* A thread inside the receiver keeps running: cache calls return, and a POST
\* ends within _WEBHOOK_TIMEOUT.
Fairness == \A w \in Workers : WF_vars(WorkerStep(w))

Spec     == Init /\ [][Next]_vars
FairSpec == Spec /\ Fairness

-----------------------------------------------------------------------------
\* Workers that hold an admitted prohibited alert for f.
Delivering(f) == {w \in Workers : task[w].flow = f /\ task[w].at \in {"postAlert", "postPager"}}

\* Workers about to delete f's counter.
Resetting(f) == {w \in Workers : task[w].flow = f /\ At(w, "countReset")}

\* Worker w is about to post the alert that opened window k.
Posting(w, k) ==
  \/ At(w, "postAlert") /\ k = PageKey(task[w].flow)
  \/ At(w, "postWarn")  /\ k = WarnKey(task[w].flow, task[w].outcome)

\* receivers.py:102-129: an admission is never dropped and never used twice,
\* whatever fails: it ends in exactly one try of both webhooks, unless the
\* worker that holds it is killed.
AdmissionsAccounted ==
  \A f \in Flows :
    granted[f] = attempted[f] + lost[f] + Cardinality(Delivering(f))

\* dedup.py:37-39 with receivers.py:104-111, 132-137: as long as a window
\* silences a flow, the alert that opened it was answered, failed, had no webhook
\* or died with its worker, or is being posted: no window is opened by nobody.
WindowsAreAnswered ==
  \A k \in DedupKeys :
    Present(cache, k) =>
      /\ verdict[k] # "none"
      /\ verdict[k] = "pending" => \E w \in Workers : Posting(w, k)

\* escalation.py:42-52: however add, incr, expiry and delete of several workers
\* interleave, no flow is promoted before Threshold hits, and every further
\* promotion costs at least one more.
PromotionsNeedHits ==
  \A f \in Flows :
    promotions[f] > 0 => promotions[f] + Threshold - 1 <= hits[f]

\* escalation.py:50-52: a full count of hits is paid for every promotion, but
\* for those that reached the threshold while another worker had not yet reset.
FullCountPerPromotion ==
  \A f \in Flows :
    Threshold * promotions[f] <= hits[f] + (Threshold - 1) * overlaps[f]

\* escalation.py:45-52: the counter cannot run away: it passes the threshold by
\* no more than the workers that are about to reset it or died before they did.
CounterBounded ==
  \A f \in Flows :
    Threshold > 0 =>
      cache[CountKey(f)].val < Threshold + Cardinality(Resetting(f)) + crashes

\* persistence.py:311-329, digest.py:25-40: the rollups count nothing twice, and
\* lose one count at most for every killed worker and every upsert whose error was
\* swallowed: nothing is lost between a promotion or an acceptable event and its
\* upsert, whatever the dedup layer does with the alert.
InHand(step) == Cardinality({w \in Workers : At(w, step)})

RollupsExact ==
  LET total(c) == FoldFunction(+, 0, c)
      digestGap == total(acceptables) - total(digest) - InHand("recordDigest")
      rollupGap == total(promotions) - rollup - InHand("recordEscalation")
  IN  /\ digestGap >= 0 /\ rollupGap >= 0
      /\ digestGap + rollupGap <= crashes + swallowed

\* receivers.py:36-51: no POST outcome and no cache state keeps a worker inside
\* the receiver forever; alerting gives the request its thread back.
RoutingReturns == \A w \in Workers : ~At(w, "idle") ~> At(w, "idle")

\* Deduplication as promised, per flow (dedup.py:29-39, cache.py:20-22): the
\* shared add admits one prohibited alert per window, whichever workers race
\* for it and whether it comes from a prohibited event or from an escalation.
Windows == INSTANCE AlertWindow WITH
  Keys <- Flows, Window <- ProhibitedWindow,
  left <- [f \in Flows |-> cache[PageKey(f)].ttl], admitted <- granted

AdmitsOnePerWindow == Windows!Spec

\* escalation.py:36-37 "the caller must accumulate another full window before
\* being notified again", as a count: each promotion takes Threshold hits.
PromotionResetsCounter ==
  \A f \in Flows : Threshold * promotions[f] <= hits[f]
=============================================================================
