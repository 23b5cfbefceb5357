-------------------------- MODULE AlertRoutingProofs --------------------------
(***************************************************************************)
(* Theorems about alert routing, for any workers, flows, windows and       *)
(* threshold: its types, that no deduplication window is opened by nobody, *)
(* that it implements AlertWindow, one admission per flow and window, that *)
(* every admission is accounted for, that a promotion costs its hits, and  *)
(* that the rollups lose only what a killed worker had in hand.            *)
(***************************************************************************)
EXTENDS AlertRouting, BasicTheorems

Inv == TypeOK /\ WindowsAreAnswered

-----------------------------------------------------------------------------
LEMMA ConstantsAreTyped ==
  /\ ProhibitedWindow \in Nat /\ SuspiciousWindow \in Nat /\ EscalationWindow \in Nat
  /\ Threshold \in Nat /\ NoFlow \notin Flows
  /\ EventKinds \subseteq Outcomes \X BOOLEAN
BY ConstantsAssumption

\* The keys of different flows, and of different purposes, are different.
LEMMA KeysAreDistinct ==
  /\ \A f \in Flows : PageKey(f) \in DedupKeys /\ CountKey(f) \in Keys \ DedupKeys
  /\ \A f, g \in Flows : PageKey(f) = PageKey(g) => f = g
  /\ \A f, g \in Flows, o \in Outcomes : PageKey(f) # WarnKey(g, o)
  /\ DedupKeys \subseteq Keys
<1>1. \A f \in Flows : PageKey(f) \in DedupKeys
  BY DEF DedupKeys
<1>2. DedupKeys \subseteq Keys
  BY DEF Keys
<1>3. \A f \in Flows : CountKey(f) \in Keys
  BY DEF Keys
<1>5. \A f \in Flows : CountKey(f) \notin DedupKeys
  BY DEF DedupKeys, CountKey, PageKey, WarnKey
<1>6. \A f, g \in Flows : PageKey(f) = PageKey(g) => f = g
  BY DEF PageKey
<1>7. \A f, g \in Flows, o \in Outcomes : PageKey(f) # WarnKey(g, o)
  BY DEF PageKey, WarnKey
<1> QED
  BY <1>1, <1>2, <1>3, <1>5, <1>6, <1>7

LEMMA InitInv == Init => Inv
<1> SUFFICES ASSUME Init PROVE Inv
  OBVIOUS
<1>1. TypeOK
  BY ConstantsAreTyped DEF Init, TypeOK, Tasks, Verdicts, Absent
<1>2. WindowsAreAnswered
  BY KeysAreDistinct DEF Init, WindowsAreAnswered, Present, Absent
<1> QED
  BY <1>1, <1>2 DEF Inv

-----------------------------------------------------------------------------
\* Every cache call leaves a typed cache, and touches the one key it names.
LEMMA CacheCalls ==
  ASSUME NEW c \in [Keys -> [val : Nat, ttl : Nat]], NEW k, NEW timeout \in Nat
  PROVE  /\ CacheAdd(c, k, 1, timeout) \in [Keys -> [val : Nat, ttl : Nat]]
         /\ CacheDelete(c, k) \in [Keys -> [val : Nat, ttl : Nat]]
         /\ CacheAge(c) \in [Keys -> [val : Nat, ttl : Nat]]
         /\ k \in Keys => CacheIncr(c, k) \in [Keys -> [val : Nat, ttl : Nat]]
         /\ \A q \in Keys \ {k} : /\ CacheAdd(c, k, 1, timeout)[q] = c[q]
                                  /\ CacheDelete(c, k)[q] = c[q]
                                  /\ CacheIncr(c, k)[q] = c[q]
         /\ \A q \in Keys : /\ Present(CacheAge(c), q) => Present(c, q)
                            /\ CacheAge(c)[q].ttl = IF c[q].ttl > 0 THEN c[q].ttl - 1 ELSE 0
<1>1. Absent \in [val : Nat, ttl : Nat]
  BY DEF Absent
<1>2. CacheAdd(c, k, 1, timeout) \in [Keys -> [val : Nat, ttl : Nat]]
  BY DEF CacheAdd
<1>3. CacheDelete(c, k) \in [Keys -> [val : Nat, ttl : Nat]]
  BY <1>1 DEF CacheDelete
<1>4. CacheAge(c) \in [Keys -> [val : Nat, ttl : Nat]]
  BY <1>1 DEF CacheAge
<1>5. k \in Keys => CacheIncr(c, k) \in [Keys -> [val : Nat, ttl : Nat]]
  BY DEF CacheIncr
<1>6. \A q \in Keys \ {k} : /\ CacheAdd(c, k, 1, timeout)[q] = c[q]
                            /\ CacheDelete(c, k)[q] = c[q]
                            /\ CacheIncr(c, k)[q] = c[q]
  BY DEF CacheAdd, CacheDelete, CacheIncr
<1>7. \A q \in Keys : /\ Present(CacheAge(c), q) => Present(c, q)
                      /\ CacheAge(c)[q].ttl = IF c[q].ttl > 0 THEN c[q].ttl - 1 ELSE 0
  BY DEF CacheAge, Present, Absent
<1> QED
  BY <1>2, <1>3, <1>4, <1>5, <1>6, <1>7

\* A busy worker's event is of a flow, and its keys are known.
LEMMA BusyTasks ==
  ASSUME TypeOK, NEW w \in Workers, task[w].at # "idle"
  PROVE  /\ task[w].flow \in Flows /\ task[w].outcome \in Outcomes
         /\ CountKey(task[w].flow) \in Keys \ DedupKeys
         /\ PageKey(task[w].flow) \in DedupKeys
<1>1. task[w] \in Tasks /\ task[w] # Idle
  BY DEF TypeOK, Idle
<1>2. task[w].flow \in Flows /\ task[w].outcome \in Outcomes
  BY <1>1 DEF Tasks
<1> QED
  BY <1>2, KeysAreDistinct

\* Going on and returning leave a typed task table.
LEMMA GoingOn ==
  ASSUME TypeOK, NEW w \in Workers, task[w].at # "idle"
  PROVE  /\ \A step \in Steps \ {"idle"} : Goto(w, step) => task' \in [Workers -> Tasks]
         /\ Return(w) => task' \in [Workers -> Tasks]
<1>1. task[w] \in [at : Steps \ {"idle"}, flow : Flows, outcome : Outcomes]
  BY DEF TypeOK, Tasks, Idle
<1>2. ASSUME NEW step \in Steps \ {"idle"}, Goto(w, step)
      PROVE  task' \in [Workers -> Tasks]
  <2>1. [task[w] EXCEPT !.at = step] \in Tasks
    BY <1>1 DEF Tasks
  <2> QED
    BY <1>2, <2>1 DEF Goto, TypeOK
<1>3. Return(w) => task' \in [Workers -> Tasks]
  BY DEF Return, TypeOK, Tasks
<1> QED
  BY <1>2, <1>3

\* Counting keeps a counter typed.
LEMMA Counting ==
  ASSUME NEW c \in [Flows -> Nat], NEW f \in Flows
  PROVE  Count(c, f) \in [Flows -> Nat]
BY DEF Count

\* The receiver's first step is a step, for every level there is.
LEMMA FirstSteps ==
  ASSUME NEW outcome \in Outcomes, NEW low \in BOOLEAN
  PROVE  FirstStep(EffectiveAlertLevel(outcome, low)) \in Steps
<1>1. EffectiveAlertLevel(outcome, low) \in Outcomes
  BY DEF EffectiveAlertLevel, Outcomes
<1> QED
  BY <1>1 DEF FirstStep, Outcomes, Steps

-----------------------------------------------------------------------------
LEMMA NextTypes == TypeOK /\ [Next]_vars => TypeOK'
<1> SUFFICES ASSUME TypeOK, [Next]_vars PROVE TypeOK'
  OBVIOUS
<1>1. ASSUME NEW w \in Workers, NEW f \in Flows, NEW e \in EventKinds, Route(w, f, e[1], e[2])
      PROVE  TypeOK'
  <2>1. e[1] \in Outcomes /\ e[2] \in BOOLEAN
    BY ConstantsAreTyped
  <2> DEFINE first == FirstStep(EffectiveAlertLevel(e[1], e[2]))
  <2>2. first \in Steps
    BY <2>1, FirstSteps
  <2>3. task' \in [Workers -> Tasks]
    <3>1. first # "idle" => [at |-> first, flow |-> f, outcome |-> e[1]] \in Tasks
      BY <2>1, <2>2 DEF Tasks
    <3> QED
      BY <1>1, <3>1 DEF Route, TypeOK
  <2>4. acceptables' \in [Flows -> Nat]
    <3>1. Count(acceptables, f) \in [Flows -> Nat]
      BY Counting DEF TypeOK
    <3> QED
      BY <1>1, <3>1 DEF Route, TypeOK
  <2> QED
    BY <1>1, <2>3, <2>4 DEF Route, TypeOK
<1>2. ASSUME NEW w \in Workers, WorkerStep(w) \/ UpsertFails(w) \/ Crash(w) PROVE TypeOK'
  <2> DEFINE f == task[w].flow
  <2>0. task[w].at # "idle"
    BY <1>2 DEF WorkerStep, UpsertFails, Crash, At, ClaimPage, PostAlert, PostPager, CountSeed, CountIncr,
                CountReseed, CountReset, RecordEscalation, ClaimWarn, PostWarn, RecordDigest
  <2>1. f \in Flows /\ task[w].outcome \in Outcomes
    BY <2>0, BusyTasks
  <2>2. /\ \A step \in Steps \ {"idle"} : Goto(w, step) => task' \in [Workers -> Tasks]
        /\ Return(w) => task' \in [Workers -> Tasks]
    BY <2>0, GoingOn
  <2>3. /\ Count(granted, f) \in [Flows -> Nat] /\ Count(attempted, f) \in [Flows -> Nat]
        /\ Count(lost, f) \in [Flows -> Nat] /\ Count(hits, f) \in [Flows -> Nat]
        /\ Count(promotions, f) \in [Flows -> Nat] /\ Count(overlaps, f) \in [Flows -> Nat]
        /\ Count(digest, f) \in [Flows -> Nat]
    BY <2>1, Counting DEF TypeOK
  <2>4. \A k, timeout :
          /\ timeout \in Nat => CacheAdd(cache, k, 1, timeout) \in [Keys -> [val : Nat, ttl : Nat]]
          /\ k \in Keys => CacheIncr(cache, k) \in [Keys -> [val : Nat, ttl : Nat]]
          /\ CacheDelete(cache, k) \in [Keys -> [val : Nat, ttl : Nat]]
    BY CacheCalls DEF TypeOK
  <2>5. \A k, v : v \in Verdicts => [verdict EXCEPT ![k] = v] \in [DedupKeys -> Verdicts]
    BY DEF TypeOK
  <2>6. ProhibitedWindow \in Nat /\ SuspiciousWindow \in Nat /\ EscalationWindow \in Nat
    BY ConstantsAreTyped
  <2>7. \A count : AfterCount(count) \in {"countReset", "claimWarn"}
    BY DEF AfterCount
  <2>8. \A count : CountOverlap(w, count) => overlaps' \in [Flows -> Nat]
    BY <2>3 DEF CountOverlap, TypeOK
  <2>9. CASE ClaimPage(w)
    BY <2>2, <2>3, <2>4, <2>5, <2>6, <2>9 DEF ClaimPage, TypeOK, Steps, Verdicts
  <2>10. CASE PostAlert(w)
    BY <2>2, <2>5, <2>10 DEF PostAlert, TypeOK, Steps, Verdicts, Answers
  <2>11. CASE PostPager(w)
    BY <2>2, <2>3, <2>11 DEF PostPager, TypeOK
  <2>12. CASE CountSeed(w)
    BY <2>2, <2>3, <2>4, <2>6, <2>7, <2>8, <2>12 DEF CountSeed, TypeOK, Steps
  <2>13. CASE CountIncr(w)
    <3>1. CountKey(f) \in Keys
      BY <2>0, BusyTasks
    <3> DEFINE count == cache[CountKey(f)].val + 1
    <3>2. CASE Present(cache, CountKey(f))
      <4>1. cache' = CacheIncr(cache, CountKey(f)) /\ Goto(w, AfterCount(count))
            /\ CountOverlap(w, count)
        BY <2>13, <3>2 DEF CountIncr
      <4>2. task' \in [Workers -> Tasks]
        BY <2>2, <2>7, <4>1 DEF Steps
      <4> QED
        BY <2>4, <2>8, <2>13, <3>1, <4>1, <4>2 DEF CountIncr, TypeOK
    <3>3. CASE ~Present(cache, CountKey(f))
      BY <2>2, <2>13, <3>3 DEF CountIncr, TypeOK, Steps
    <3> QED
      BY <3>2, <3>3
  <2>14. CASE CountReseed(w)
    BY <2>2, <2>4, <2>6, <2>7, <2>8, <2>14 DEF CountReseed, TypeOK, Steps
  <2>15. CASE CountReset(w)
    BY <2>2, <2>3, <2>4, <2>15 DEF CountReset, TypeOK, Steps
  <2>16. CASE RecordEscalation(w)
    BY <2>2, <2>16 DEF RecordEscalation, TypeOK, Steps
  <2>17. CASE ClaimWarn(w)
    BY <2>2, <2>4, <2>5, <2>6, <2>17 DEF ClaimWarn, TypeOK, Steps, Verdicts
  <2>18. CASE PostWarn(w)
    BY <2>2, <2>5, <2>18 DEF PostWarn, TypeOK, Verdicts, Answers
  <2>19. CASE RecordDigest(w)
    BY <2>2, <2>3, <2>19 DEF RecordDigest, TypeOK
  <2>20. CASE Crash(w)
    <3>1. verdict' \in [DedupKeys -> Verdicts]
      <4>1. "lost" \in Verdicts
        BY DEF Verdicts
      <4> QED
        BY <2>5, <2>20, <4>1 DEF Crash, TypeOK, At
    <3>2. lost' \in [Flows -> Nat]
      BY <2>3, <2>20 DEF Crash, TypeOK
    <3> QED
      BY <2>2, <2>20, <3>1, <3>2 DEF Crash, TypeOK
  <2>21. CASE UpsertFails(w)
    BY <2>2, <2>21 DEF UpsertFails, TypeOK, Steps
  <2> QED
    BY <1>2, <2>9, <2>10, <2>11, <2>12, <2>13, <2>14, <2>15, <2>16, <2>17, <2>18, <2>19,
       <2>20, <2>21 DEF WorkerStep
<1>3. ASSUME Tick PROVE TypeOK'
  <2>1. cache' \in [Keys -> [val : Nat, ttl : Nat]]
    BY <1>3, CacheCalls, ConstantsAreTyped DEF Tick, TypeOK
  <2> QED
    BY <1>3, <2>1 DEF Tick, TypeOK, history
<1>4. CASE UNCHANGED vars
  BY <1>4 DEF vars, history, TypeOK
<1> QED
  BY <1>1, <1>2, <1>3, <1>4 DEF Next

-----------------------------------------------------------------------------
\* While a worker goes on, the alerts the others are posting are still posted.
LEMMA OthersPost ==
  ASSUME TypeOK, NEW w \in Workers, NEW step \in Steps, Goto(w, step) \/ Return(w),
         NEW k, NEW v \in Workers \ {w}, Posting(v, k)
  PROVE  Posting(v, k)'
<1>1. task'[v] = task[v]
  BY DEF Goto, Return, TypeOK
<1> QED
  BY <1>1 DEF Posting, At, PageKey, WarnKey

\* A step that opens no window, answers none and ends no posting.
LEMMA QuietWindows ==
  ASSUME TypeOK, WindowsAreAnswered, UNCHANGED verdict,
         \A k \in DedupKeys : Present(cache', k) => Present(cache, k),
         \A k \in DedupKeys : (\E w \in Workers : Posting(w, k)) => (\E w \in Workers : Posting(w, k)')
  PROVE  WindowsAreAnswered'
BY DEF WindowsAreAnswered

\* A worker between two posts is posting nothing, and goes on quietly.
LEMMA QuietStep ==
  ASSUME TypeOK, WindowsAreAnswered, UNCHANGED verdict,
         \A k \in DedupKeys : Present(cache', k) => Present(cache, k),
         NEW w \in Workers, ~At(w, "postAlert"), ~At(w, "postWarn"),
         NEW step \in Steps, Goto(w, step) \/ Return(w)
  PROVE  WindowsAreAnswered'
<1>1. \A k : ~Posting(w, k)
  BY DEF Posting
<1>2. \A k, v : v \in Workers /\ Posting(v, k) => Posting(v, k)'
  BY <1>1, OthersPost
<1> QED
  BY <1>2, QuietWindows

\* A worker that opens window k and goes on to post its alert.
LEMMA WindowOpens ==
  ASSUME TypeOK, WindowsAreAnswered, NEW w \in Workers, ~At(w, "postAlert"), ~At(w, "postWarn"),
         NEW step \in Steps, Goto(w, step), NEW k, Posting(w, k)',
         verdict' = [verdict EXCEPT ![k] = "pending"],
         \A q \in DedupKeys \ {k} : Present(cache', q) => Present(cache, q)
  PROVE  WindowsAreAnswered'
<1> SUFFICES ASSUME NEW q \in DedupKeys, Present(cache', q)
             PROVE  /\ verdict'[q] # "none"
                    /\ verdict'[q] = "pending" => \E v \in Workers : Posting(v, q)'
  BY DEF WindowsAreAnswered
<1>1. CASE q = k
  BY <1>1 DEF TypeOK
<1>2. CASE q # k
  <2>1. verdict'[q] = verdict[q] /\ Present(cache, q)
    BY <1>2 DEF TypeOK
  <2>2. \A v \in Workers : Posting(v, q) => v # w
    BY DEF Posting
  <2> QED
    BY <2>1, <2>2, OthersPost DEF WindowsAreAnswered
<1> QED
  BY <1>1, <1>2

\* A worker that posted window k's alert, or died posting it, leaves a verdict.
LEMMA WindowAnswered ==
  ASSUME TypeOK, WindowsAreAnswered, NEW w \in Workers,
         NEW k, \A q \in DedupKeys : Posting(w, q) => q = k,
         NEW step \in Steps, Goto(w, step) \/ Return(w),
         NEW answer \in {"delivered", "failed", "skipped", "lost"},
         verdict' = [verdict EXCEPT ![k] = answer], UNCHANGED cache
  PROVE  WindowsAreAnswered'
<1> SUFFICES ASSUME NEW q \in DedupKeys, Present(cache, q)
             PROVE  /\ verdict'[q] # "none"
                    /\ verdict'[q] = "pending" => \E v \in Workers : Posting(v, q)'
  BY DEF WindowsAreAnswered
<1>1. CASE q = k
  BY <1>1 DEF TypeOK
<1>2. CASE q # k
  <2>1. verdict'[q] = verdict[q]
    BY <1>2 DEF TypeOK
  <2>2. \A v \in Workers : Posting(v, q) => v # w
    BY <1>2
  <2> QED
    BY <2>1, <2>2, OthersPost DEF WindowsAreAnswered
<1> QED
  BY <1>1, <1>2

LEMMA NextWindows == TypeOK /\ WindowsAreAnswered /\ [Next]_vars => WindowsAreAnswered'
<1> SUFFICES ASSUME TypeOK, WindowsAreAnswered, [Next]_vars PROVE WindowsAreAnswered'
  OBVIOUS
<1>1. ASSUME NEW w \in Workers, NEW f \in Flows, NEW e \in EventKinds, Route(w, f, e[1], e[2])
      PROVE  WindowsAreAnswered'
  <2>1. ASSUME NEW v \in Workers, NEW k, Posting(v, k) PROVE Posting(v, k)'
    <3>1. v # w
      BY <1>1, <2>1 DEF Posting, At, Route
    <3>2. task'[v] = task[v]
      BY <1>1, <3>1 DEF Route, TypeOK
    <3> QED
      BY <2>1, <3>2 DEF Posting, At, PageKey, WarnKey
  <2> QED
    BY <1>1, <2>1, QuietWindows DEF Route
<1>2. ASSUME NEW w \in Workers, WorkerStep(w) \/ UpsertFails(w) \/ Crash(w) PROVE WindowsAreAnswered'
  <2> DEFINE f == task[w].flow
             p == PageKey(f)
             c == CountKey(f)
             s == WarnKey(f, task[w].outcome)
  <2>0. task[w].at # "idle"
    BY <1>2 DEF WorkerStep, UpsertFails, Crash, At, ClaimPage, PostAlert, PostPager, CountSeed, CountIncr,
                CountReseed, CountReset, RecordEscalation, ClaimWarn, PostWarn, RecordDigest
  <2>1. p \in DedupKeys /\ c \in Keys \ DedupKeys
    BY <2>0, BusyTasks
  <2>2. ASSUME NEW k, NEW timeout \in Nat, NEW q \in DedupKeys \ {k}
        PROVE  /\ Present(CacheAdd(cache, k, 1, timeout), q) => Present(cache, q)
               /\ Present(CacheIncr(cache, k), q) => Present(cache, q)
               /\ Present(CacheDelete(cache, k), q) => Present(cache, q)
    <3>1. q \in Keys \ {k} /\ cache \in [Keys -> [val : Nat, ttl : Nat]]
      BY KeysAreDistinct DEF TypeOK
    <3>2. /\ CacheAdd(cache, k, 1, timeout)[q] = cache[q]
          /\ CacheDelete(cache, k)[q] = cache[q]
          /\ CacheIncr(cache, k)[q] = cache[q]
      BY <3>1, CacheCalls
    <3> QED
      BY <3>2 DEF Present
  <2>3. ProhibitedWindow \in Nat /\ SuspiciousWindow \in Nat /\ EscalationWindow \in Nat
    BY ConstantsAreTyped
  <2>4. CASE ClaimPage(w)
    <3>0. ~At(w, "postAlert") /\ ~At(w, "postWarn")
      BY <2>4 DEF ClaimPage, At
    <3>1. CASE ProhibitedWindow = 0 \/ ~Present(cache, p)
      <4>0. PICK k : k = p
        OBVIOUS
      <4>1. Goto(w, "postAlert") /\ verdict' = [verdict EXCEPT ![k] = "pending"]
        BY <2>4, <3>1, <4>0 DEF ClaimPage
      <4>2. Posting(w, k)'
        <5>1. task'[w].at = "postAlert" /\ task'[w].flow = f
          BY <4>1 DEF Goto, TypeOK
        <5> QED
          BY <4>0, <5>1 DEF Posting, At, PageKey
      <4>3. \A q \in DedupKeys \ {k} : Present(cache', q) => Present(cache, q)
        BY <2>2, <2>3, <4>0, <2>4 DEF ClaimPage
      <4> QED
        BY <3>0, <4>1, <4>2, <4>3, WindowOpens DEF Steps
    <3>2. CASE ~(ProhibitedWindow = 0 \/ ~Present(cache, p))
      <4>1. Return(w) /\ UNCHANGED <<verdict, cache>>
        BY <2>4, <3>2 DEF ClaimPage, CacheAdd
      <4> QED
        BY <3>0, <4>1, QuietStep DEF Steps
    <3> QED
      BY <3>1, <3>2
  <2>5. CASE PostAlert(w)
    <3>1. \A q \in DedupKeys : Posting(w, q) => q = p
      BY <2>5 DEF PostAlert, Posting, At
    <3> QED
      BY <2>5, <3>1, WindowAnswered DEF PostAlert, Answers, Steps
  <2>6. CASE ClaimWarn(w)
    <3>0. ~At(w, "postAlert") /\ ~At(w, "postWarn")
      BY <2>6 DEF ClaimWarn, At
    <3>1. CASE SuspiciousWindow = 0 \/ ~Present(cache, s)
      <4>0. PICK k : k = s
        OBVIOUS
      <4>1. Goto(w, "postWarn") /\ verdict' = [verdict EXCEPT ![k] = "pending"]
        BY <2>6, <3>1, <4>0 DEF ClaimWarn
      <4>2. Posting(w, k)'
        <5>1. task'[w].at = "postWarn" /\ task'[w].flow = f /\ task'[w].outcome = task[w].outcome
          BY <4>1 DEF Goto, TypeOK
        <5> QED
          BY <4>0, <5>1 DEF Posting, At, WarnKey
      <4>3. \A q \in DedupKeys \ {k} : Present(cache', q) => Present(cache, q)
        BY <2>2, <2>3, <4>0, <2>6 DEF ClaimWarn
      <4> QED
        BY <3>0, <4>1, <4>2, <4>3, WindowOpens DEF Steps
    <3>2. CASE ~(SuspiciousWindow = 0 \/ ~Present(cache, s))
      <4>1. Return(w) /\ UNCHANGED <<verdict, cache>>
        BY <2>6, <3>2 DEF ClaimWarn, CacheAdd
      <4> QED
        BY <3>0, <4>1, QuietStep DEF Steps
    <3> QED
      BY <3>1, <3>2
  <2>7. CASE PostWarn(w)
    <3>1. \A q \in DedupKeys : Posting(w, q) => q = s
      BY <2>7 DEF PostWarn, Posting, At
    <3> QED
      BY <2>7, <3>1, WindowAnswered DEF PostWarn, Answers, Steps
  <2>8. CASE Crash(w)
    <3>1. CASE At(w, "postAlert")
      <4>1. verdict' = [verdict EXCEPT ![p] = "lost"]
        BY <2>8, <3>1 DEF Crash, At
      <4>2. \A q \in DedupKeys : Posting(w, q) => q = p
        BY <3>1 DEF Posting, At
      <4> QED
        BY <2>8, <4>1, <4>2, WindowAnswered DEF Crash, Steps
    <3>2. CASE At(w, "postWarn")
      <4>1. verdict' = [verdict EXCEPT ![s] = "lost"]
        BY <2>8, <3>2 DEF Crash, At
      <4>2. \A q \in DedupKeys : Posting(w, q) => q = s
        BY <3>2 DEF Posting, At
      <4> QED
        BY <2>8, <4>1, <4>2, WindowAnswered DEF Crash, Steps
    <3>3. CASE ~At(w, "postAlert") /\ ~At(w, "postWarn")
      <4>1. UNCHANGED <<verdict, cache>> /\ Return(w)
        BY <2>8, <3>3 DEF Crash
      <4> QED
        BY <3>3, <4>1, QuietStep DEF Steps
    <3> QED
      BY <3>1, <3>2, <3>3
  <2>9. CASE \/ PostPager(w) \/ CountSeed(w) \/ CountIncr(w) \/ CountReseed(w)
             \/ CountReset(w) \/ RecordEscalation(w) \/ RecordDigest(w) \/ UpsertFails(w)
    <3>1. ~At(w, "postAlert") /\ ~At(w, "postWarn")
      BY <2>9 DEF At, PostPager, CountSeed, CountIncr, CountReseed, CountReset,
                  RecordEscalation, RecordDigest, UpsertFails
    <3>2. \A q \in DedupKeys : Present(cache', q) => Present(cache, q)
      BY <2>1, <2>2, <2>3, <2>9 DEF PostPager, CountSeed, CountIncr, CountReseed, CountReset,
                                    RecordEscalation, RecordDigest, UpsertFails
    <3>3. UNCHANGED verdict
      BY <2>9 DEF PostPager, CountSeed, CountIncr, CountReseed, CountReset,
                  RecordEscalation, RecordDigest, UpsertFails, history
    <3>4. \E step \in Steps : Goto(w, step) \/ Return(w)
      <4>1. \A count : AfterCount(count) \in Steps
        BY DEF AfterCount, Steps
      <4> QED
        BY <2>9, <4>1 DEF PostPager, CountSeed, CountIncr, CountReseed, CountReset,
                          RecordEscalation, RecordDigest, UpsertFails, Steps
    <3> QED
      BY <3>1, <3>2, <3>3, <3>4, QuietStep
  <2> QED
    BY <1>2, <2>4, <2>5, <2>6, <2>7, <2>8, <2>9 DEF WorkerStep
<1>3. ASSUME Tick PROVE WindowsAreAnswered'
  <2>1. \A k \in DedupKeys : Present(cache', k) => Present(cache, k)
    BY <1>3, CacheCalls, KeysAreDistinct, ConstantsAreTyped DEF Tick, TypeOK
  <2>2. \A k, v : Posting(v, k)' = Posting(v, k)
    BY <1>3 DEF Tick, Posting, At, PageKey, WarnKey
  <2> QED
    BY <1>3, <2>1, <2>2, QuietWindows DEF Tick, history
<1>4. CASE UNCHANGED vars
  BY <1>4 DEF vars, history, WindowsAreAnswered, Present, Posting, At
<1> QED
  BY <1>1, <1>2, <1>3, <1>4 DEF Next

\* The inductive invariant holds of every behaviour.
THEOREM InvHolds == Spec => []Inv
<1>1. Inv /\ [Next]_vars => Inv'
  BY NextTypes, NextWindows DEF Inv
<1> QED
  BY <1>1, InitInv, PTL DEF Spec

-----------------------------------------------------------------------------
\* Type correctness of the receiver, its caches and its counters.
THEOREM RoutingTypes == Spec => []TypeOK
BY InvHolds, PTL DEF Inv

\* No window silences a flow whose alert nobody answered, failed, lost or is posting.
THEOREM WindowsHold == Spec => []WindowsAreAnswered
BY InvHolds, PTL DEF Inv

-----------------------------------------------------------------------------
\* What AlertWindow's left stands for, and its bound.
Left == [f \in Flows |-> cache[PageKey(f)].ttl]
PagesWithinWindow == \A f \in Flows : Left[f] <= ProhibitedWindow

\* The steps of the receiver but the claim of a page leave pages alone.
LEMMA PagesUntouched ==
  ASSUME TypeOK, NEW w \in Workers, WorkerStep(w) \/ UpsertFails(w) \/ Crash(w), ~ClaimPage(w)
  PROVE  UNCHANGED <<Left, granted>>
<1>1. UNCHANGED granted
  BY DEF WorkerStep, UpsertFails, Crash, PostAlert, PostPager, CountSeed, CountIncr, CountReseed, CountReset,
         RecordEscalation, ClaimWarn, PostWarn, RecordDigest, history
<1>2. task[w].at # "idle"
  BY DEF WorkerStep, UpsertFails, Crash, At, ClaimPage, PostAlert, PostPager, CountSeed, CountIncr,
         CountReseed, CountReset, RecordEscalation, ClaimWarn, PostWarn, RecordDigest
<1>3. ASSUME NEW f \in Flows PROVE cache'[PageKey(f)] = cache[PageKey(f)]
  <2>1. PageKey(f) \in Keys /\ PageKey(f) # CountKey(task[w].flow)
    BY <1>2, BusyTasks, KeysAreDistinct
  <2>2. task[w].flow \in Flows /\ task[w].outcome \in Outcomes
    BY <1>2, BusyTasks
  <2>3. PageKey(f) # WarnKey(task[w].flow, task[w].outcome)
    BY <2>2, KeysAreDistinct
  <2>4. cache \in [Keys -> [val : Nat, ttl : Nat]]
    BY DEF TypeOK
  <2>5. ASSUME NEW k, k # PageKey(f), NEW timeout \in Nat
        PROVE  /\ CacheAdd(cache, k, 1, timeout)[PageKey(f)] = cache[PageKey(f)]
               /\ CacheDelete(cache, k)[PageKey(f)] = cache[PageKey(f)]
               /\ CacheIncr(cache, k)[PageKey(f)] = cache[PageKey(f)]
    BY <2>1, <2>4, <2>5, CacheCalls
  <2>6. SuspiciousWindow \in Nat /\ EscalationWindow \in Nat
    BY ConstantsAreTyped
  <2>7. CASE ClaimWarn(w)
    BY <2>3, <2>5, <2>6, <2>7 DEF ClaimWarn
  <2>8. CASE CountSeed(w) \/ CountIncr(w) \/ CountReseed(w) \/ CountReset(w)
    <3> DEFINE k == CountKey(task[w].flow)
    <3>1. \/ cache' = cache
          \/ cache' = CacheAdd(cache, k, 1, EscalationWindow)
          \/ cache' = CacheIncr(cache, k)
          \/ cache' = CacheDelete(cache, k)
      BY <2>8 DEF CountSeed, CountIncr, CountReseed, CountReset
    <3> QED
      BY <2>1, <2>5, <2>6, <3>1
  <2>9. CASE \/ PostAlert(w) \/ PostPager(w) \/ RecordEscalation(w) \/ PostWarn(w)
             \/ RecordDigest(w) \/ UpsertFails(w) \/ Crash(w)
    BY <2>9 DEF PostAlert, PostPager, RecordEscalation, PostWarn, RecordDigest, UpsertFails, Crash
  <2> QED
    BY <2>7, <2>8, <2>9 DEF WorkerStep
<1> QED
  BY <1>1, <1>3 DEF Left

\* Every step admits at most one page, in a window that is over.
LEMMA NextAdmits ==
  TypeOK /\ PagesWithinWindow /\ [Next]_vars =>
    PagesWithinWindow' /\ [Windows!Next]_<<Left, granted>>
<1> SUFFICES ASSUME TypeOK, PagesWithinWindow, [Next]_vars
             PROVE  PagesWithinWindow' /\ [Windows!Next]_<<Left, granted>>
  OBVIOUS
<1>1. CASE UNCHANGED <<Left, granted>>
  BY <1>1 DEF PagesWithinWindow
<1>2. ASSUME NEW w \in Workers, ClaimPage(w)
      PROVE  PagesWithinWindow' /\ [Windows!Next]_<<Left, granted>>
  <2> DEFINE f == task[w].flow
             k == PageKey(f)
  <2>1. f \in Flows /\ k \in Keys
    BY <1>2, BusyTasks, KeysAreDistinct DEF ClaimPage, At
  <2>2. cache \in [Keys -> [val : Nat, ttl : Nat]] /\ ProhibitedWindow \in Nat
    BY ConstantsAreTyped DEF TypeOK
  <2>3. CASE ProhibitedWindow = 0 \/ ~Present(cache, k)
    <3>1. cache[k].ttl = 0
      BY <2>1, <2>2, <2>3 DEF PagesWithinWindow, Left, Present
    <3>2. cache'[k].ttl = ProhibitedWindow
      BY <1>2, <2>1, <2>2, <3>1 DEF ClaimPage, CacheAdd, Present
    <3>3. ASSUME NEW g \in Flows \ {f} PROVE cache'[PageKey(g)] = cache[PageKey(g)]
      <4>1. PageKey(g) \in Keys \ {k}
        BY <2>1, KeysAreDistinct
      <4> QED
        BY <1>2, <2>2, <4>1, CacheCalls DEF ClaimPage
    <3>4. Left' = [Left EXCEPT ![f] = ProhibitedWindow]
      BY <2>1, <3>2, <3>3 DEF Left, PageKey
    <3>5. granted' = [granted EXCEPT ![f] = @ + 1]
      BY <1>2, <2>3 DEF ClaimPage, Count
    <3>6. Windows!Admit(f)
      BY <2>1, <3>1, <3>4, <3>5 DEF Windows!Admit, Left
    <3>7. PagesWithinWindow'
      <4>1. Left \in [Flows -> Nat]
        BY <2>2, KeysAreDistinct DEF Left
      <4> QED
        BY <2>1, <2>2, <3>4, <4>1 DEF PagesWithinWindow
    <3> QED
      BY <2>1, <3>6, <3>7 DEF Windows!Next
  <2>4. CASE ~(ProhibitedWindow = 0 \/ ~Present(cache, k))
    <3>1. UNCHANGED <<cache, granted>>
      BY <1>2, <2>4 DEF ClaimPage, CacheAdd
    <3> QED
      BY <1>1, <3>1 DEF Left, PageKey
  <2> QED
    BY <2>3, <2>4
<1>3. ASSUME NEW w \in Workers, WorkerStep(w) \/ UpsertFails(w) \/ Crash(w), ~ClaimPage(w)
      PROVE  UNCHANGED <<Left, granted>>
  BY <1>3, PagesUntouched
<1>4. ASSUME NEW w \in Workers, NEW f \in Flows, NEW e \in EventKinds, Route(w, f, e[1], e[2])
      PROVE  UNCHANGED <<Left, granted>>
  BY <1>4 DEF Route, Left, PageKey
<1>5. ASSUME Tick PROVE PagesWithinWindow' /\ [Windows!Next]_<<Left, granted>>
  <2>1. ASSUME NEW f \in Flows
        PROVE  /\ Left[f] \in Nat
               /\ Left'[f] = IF Left[f] > 0 THEN Left[f] - 1 ELSE 0
    <3>1. PageKey(f) \in Keys /\ cache \in [Keys -> [val : Nat, ttl : Nat]]
      BY KeysAreDistinct DEF TypeOK
    <3>2. cache'[PageKey(f)].ttl =
            IF cache[PageKey(f)].ttl > 0 THEN cache[PageKey(f)].ttl - 1 ELSE 0
      BY <1>5, <3>1, CacheCalls, ConstantsAreTyped DEF Tick
    <3> QED
      BY <3>1, <3>2 DEF Left, PageKey
  <2>2. Left' = [f \in Flows |-> IF Left[f] > 0 THEN Left[f] - 1 ELSE 0]
    BY <2>1 DEF Left
  <2>3. Windows!Tick
    BY <1>5, <2>2 DEF Windows!Tick, Left, Tick, history
  <2>4. PagesWithinWindow'
    BY <2>1, ConstantsAreTyped DEF PagesWithinWindow
  <2> QED
    BY <2>3, <2>4 DEF Windows!Next
<1>6. CASE UNCHANGED vars
  BY <1>1, <1>6 DEF vars, history, Left, PageKey
<1> QED
  BY <1>1, <1>2, <1>3, <1>4, <1>5, <1>6 DEF Next

\* Alert routing implements AlertWindow: whichever workers race and whatever they
\* route, one prohibited alert per flow and window is let through.
THEOREM RoutingAdmitsOnePerWindow == Spec => AdmitsOnePerWindow
<1>1. Init => Windows!Init /\ PagesWithinWindow
  <2> SUFFICES ASSUME Init PROVE Windows!Init /\ PagesWithinWindow
    OBVIOUS
  <2>1. \A f \in Flows : cache[PageKey(f)].ttl = 0
    BY KeysAreDistinct DEF Init, Absent
  <2> QED
    BY <2>1, ConstantsAreTyped DEF Init, Windows!Init, PagesWithinWindow, Left
<1>2. [Windows!Next]_<<Left, granted>> =>
        [Windows!Next]_<<[f \in Flows |-> cache[PageKey(f)].ttl], granted>>
  BY DEF Left
<1> QED
  BY <1>1, <1>2, NextAdmits, RoutingTypes, PTL DEF Spec, AdmitsOnePerWindow, Windows!Spec
-----------------------------------------------------------------------------
(***************************************************************************)
(* What the receiver counts.  The argument is one of budgets: what a       *)
(* flow's promotions and the hits in its counter are worth together never  *)
(* exceeds the hits that were paid, however add, incr, expiry and delete   *)
(* of several workers interleave.                                          *)
(***************************************************************************)

\* Workers that have paid a hit for flow f which the counter has not taken yet.
Hitting(f) == {w \in Workers : task[w].flow = f /\ task[w].at \in {"countIncr", "countReseed"}}

D(f) == Cardinality(Delivering(f))
R(f) == Cardinality(Resetting(f))
H(f) == Cardinality(Hitting(f))
Val(f) == cache[CountKey(f)].val

Accounted(f) == granted[f] = attempted[f] + lost[f] + D(f)
Bounded(f) == Threshold > 0 => Val(f) < Threshold + R(f) + crashes

\* What p promotions, r workers that reached the threshold, h hits that wait and a
\* counter of v are worth, when paid hits were paid and over workers reached the
\* threshold beside another: a hit counts once in the counter and, after the first
\* promotion, once as a promotion; a promotion is worth T hits, but for the over.
Worth(T, p, r, h, v, paid, over) ==
  /\ v + h <= paid
  /\ p + r > 0 => p + r + h + T - 1 <= paid
  /\ T * p + v + h <= paid + (T - 1) * over
  /\ r > 0 => T * (p + r) + h <= paid + (T - 1) * over

PaidFor(f) == Worth(Threshold, promotions[f], R(f), H(f), Val(f), hits[f], overlaps[f])

FlowInv(f) == Accounted(f) /\ Bounded(f) /\ PaidFor(f)

CountSteps == {"countSeed", "countIncr", "countReseed", "countReset"}

\* should_escalate is not called when it is switched off.
Enabled == \A w \in Workers : task[w].at \in CountSteps => Threshold > 0

CountInv == TypeOK /\ Enabled /\ \A f \in Flows : FlowInv(f)

-----------------------------------------------------------------------------
One(b) == IF b THEN 1 ELSE 0

\* A hit is paid and waits to be taken.
LEMMA Paying ==
  ASSUME NEW T \in Nat, NEW p \in Nat, NEW r \in Nat, NEW h \in Nat, NEW v \in Nat,
         NEW paid \in Nat, NEW over \in Nat, Worth(T, p, r, h, v, paid, over)
  PROVE  Worth(T, p, r, h + 1, v, paid + 1, over)
BY DEF Worth

\* A hit is taken: it raises the counter by one at most.
LEMMA Taking ==
  ASSUME NEW T \in Nat, NEW p \in Nat, NEW r \in Nat, NEW h \in Nat, NEW v \in Nat,
         NEW paid \in Nat, NEW over \in Nat, Worth(T, p, r, h + 1, v, paid, over),
         NEW v2 \in Nat, v2 <= v + 1
  PROVE  Worth(T, p, r, h, v2, paid, over)
BY DEF Worth

\* A hit is taken that makes the threshold.
LEMMA Reaching ==
  ASSUME NEW T \in Nat \ {0}, NEW p \in Nat, NEW r \in Nat, NEW h \in Nat, NEW v \in Nat,
         NEW paid \in Nat, NEW over \in Nat, Worth(T, p, r, h + 1, v, paid, over),
         NEW v2 \in Nat, v2 <= v + 1, T <= v + 1
  PROVE  Worth(T, p, r + 1, h, v2, paid, over + One(r > 0))
<1>1. /\ T * (p + (r + 1)) = T * (p + r) + T
      /\ (T - 1) * (over + 1) = (T - 1) * over + (T - 1)
      /\ (T - 1) * (over + 0) = (T - 1) * over
  OBVIOUS
<1>2. T * p \in Int /\ T * (p + r) \in Int /\ (T - 1) * over \in Int
  OBVIOUS
<1>3. CASE r = 0
  <2>1. T * (p + (r + 1)) = T * p + T
    BY <1>1, <1>3
  <2> QED
    BY <1>1, <1>2, <1>3, <2>1 DEF Worth, One
<1>4. CASE r > 0
  BY <1>1, <1>2, <1>4 DEF Worth, One
<1> QED
  BY <1>3, <1>4

\* A promotion: the counter is emptied.
LEMMA Promoting ==
  ASSUME NEW T \in Nat \ {0}, NEW p \in Nat, NEW r \in Nat, NEW h \in Nat, NEW v \in Nat,
         NEW paid \in Nat, NEW over \in Nat, Worth(T, p, r + 1, h, v, paid, over)
  PROVE  Worth(T, p + 1, r, h, 0, paid, over)
<1>1. T * (p + (r + 1)) = T * (p + 1) + T * r /\ T * ((p + 1) + r) = T * (p + (r + 1))
  OBVIOUS
<1>2. T * r >= 0 /\ T * (p + 1) \in Int /\ T * r \in Int /\ (T - 1) * over \in Int
  OBVIOUS
<1> QED
  BY <1>1, <1>2 DEF Worth

\* A reset that is not carried out costs nothing.
LEMMA Dropping ==
  ASSUME NEW T \in Nat \ {0}, NEW p \in Nat, NEW r \in Nat, NEW h \in Nat, NEW v \in Nat,
         NEW paid \in Nat, NEW over \in Nat, Worth(T, p, r + 1, h, v, paid, over)
  PROVE  Worth(T, p, r, h, v, paid, over)
<1>1. T * (p + (r + 1)) = T * (p + r) + T
  OBVIOUS
<1>2. T * (p + r) \in Int /\ T * p \in Int /\ (T - 1) * over \in Int
  OBVIOUS
<1> QED
  BY <1>1, <1>2 DEF Worth
-----------------------------------------------------------------------------
\* Two sets of workers that differ in one worker at most.
LEMMA OneMoves ==
  ASSUME NEW S \in SUBSET Workers, NEW T \in SUBSET Workers, NEW w \in Workers,
         S \ {w} = T \ {w}
  PROVE  /\ Cardinality(S) \in Nat /\ Cardinality(T) \in Nat
         /\ Cardinality(T) + One(w \in S) = Cardinality(S) + One(w \in T)
<1>1. IsFiniteSet(S) /\ IsFiniteSet(T)
  BY FS_Subset, ConstantsAssumption
<1>2. Cardinality(S) \in Nat /\ Cardinality(T) \in Nat
  BY <1>1, FS_CardinalityType
<1>3. Cardinality(S \ {w}) = IF w \in S THEN Cardinality(S) - 1 ELSE Cardinality(S)
  BY <1>1, FS_RemoveElement
<1>4. Cardinality(T \ {w}) = IF w \in T THEN Cardinality(T) - 1 ELSE Cardinality(T)
  BY <1>1, FS_RemoveElement
<1> QED
  BY <1>2, <1>3, <1>4 DEF One

LEMMA Cardinalities ==
  ASSUME NEW f
  PROVE  /\ D(f) \in Nat /\ R(f) \in Nat /\ H(f) \in Nat
         /\ (R(f) > 0) <=> Resetting(f) # {}
<1>1. /\ IsFiniteSet(Delivering(f)) /\ IsFiniteSet(Resetting(f)) /\ IsFiniteSet(Hitting(f))
  BY FS_Subset, ConstantsAssumption DEF Delivering, Resetting, Hitting
<1>2. D(f) \in Nat /\ R(f) \in Nat /\ H(f) \in Nat
  BY <1>1, FS_CardinalityType DEF D, R, H
<1>3. R(f) = 0 <=> Resetting(f) = {}
  BY <1>1, FS_EmptySet DEF R
<1> QED
  BY <1>2, <1>3

\* What one worker's going from here to there does to the three head counts.
LEMMA HeadCounts ==
  ASSUME TypeOK, NEW w \in Workers, NEW there \in Steps,
         Goto(w, there) \/ (Return(w) /\ there = "idle"),
         NEW f, task[w].flow = f, f \in Flows
  PROVE  /\ D(f)' \in Nat /\ R(f)' \in Nat /\ H(f)' \in Nat
         /\ D(f)' + One(task[w].at \in {"postAlert", "postPager"})
              = D(f) + One(there \in {"postAlert", "postPager"})
         /\ R(f)' + One(task[w].at = "countReset") = R(f) + One(there = "countReset")
         /\ H(f)' + One(task[w].at \in {"countIncr", "countReseed"})
              = H(f) + One(there \in {"countIncr", "countReseed"})
<1>1. \A v \in Workers \ {w} : task'[v] = task[v]
  BY DEF Goto, Return, TypeOK
<1>2. /\ task'[w].at = there
      /\ there # "idle" => task'[w].flow = f
  <2>1. CASE Goto(w, there)
    <3>1. task[w] \in [at : Steps, flow : Flows \cup {NoFlow}, outcome : Outcomes]
      BY DEF TypeOK, Tasks, Idle, Steps, Outcomes
    <3> QED
      BY <2>1, <3>1 DEF Goto, TypeOK
  <2>2. CASE Return(w) /\ there = "idle"
    BY <2>2 DEF Return, TypeOK, Idle
  <2> QED
    BY <2>1, <2>2
<1>3. /\ Delivering(f)' \ {w} = Delivering(f) \ {w}
      /\ w \in Delivering(f) <=> task[w].at \in {"postAlert", "postPager"}
      /\ w \in Delivering(f)' <=> there \in {"postAlert", "postPager"}
  BY <1>1, <1>2 DEF Delivering
<1>4. /\ Resetting(f)' \ {w} = Resetting(f) \ {w}
      /\ w \in Resetting(f) <=> task[w].at = "countReset"
      /\ w \in Resetting(f)' <=> there = "countReset"
  BY <1>1, <1>2 DEF Resetting, At
<1>5. /\ Hitting(f)' \ {w} = Hitting(f) \ {w}
      /\ w \in Hitting(f) <=> task[w].at \in {"countIncr", "countReseed"}
      /\ w \in Hitting(f)' <=> there \in {"countIncr", "countReseed"}
  BY <1>1, <1>2 DEF Hitting
<1>6. /\ Delivering(f) \subseteq Workers /\ Delivering(f)' \subseteq Workers
      /\ Resetting(f) \subseteq Workers /\ Resetting(f)' \subseteq Workers
      /\ Hitting(f) \subseteq Workers /\ Hitting(f)' \subseteq Workers
  BY DEF Delivering, Resetting, Hitting
<1>7. D(f)' \in Nat /\ D(f)' + One(w \in Delivering(f)) = D(f) + One(w \in Delivering(f)')
  BY <1>3, <1>6, OneMoves DEF D
<1>8. R(f)' \in Nat /\ R(f)' + One(w \in Resetting(f)) = R(f) + One(w \in Resetting(f)')
  BY <1>4, <1>6, OneMoves DEF R
<1>9. H(f)' \in Nat /\ H(f)' + One(w \in Hitting(f)) = H(f) + One(w \in Hitting(f)')
  BY <1>5, <1>6, OneMoves DEF H
<1> QED
  BY <1>3, <1>4, <1>5, <1>7, <1>8, <1>9

LEMMA CountInit == Init => CountInv
<1> SUFFICES ASSUME Init PROVE CountInv
  OBVIOUS
<1>1. TypeOK /\ Enabled
  BY InitInv DEF Inv, Init, Enabled, CountSteps, Idle
<1>2. ASSUME NEW f \in Flows PROVE FlowInv(f)
  <2>1. Delivering(f) = {} /\ Resetting(f) = {} /\ Hitting(f) = {}
    BY DEF Init, Delivering, Resetting, Hitting, Idle, At
  <2>2. D(f) = 0 /\ R(f) = 0 /\ H(f) = 0
    BY <2>1, FS_EmptySet DEF D, R, H
  <2>3. Val(f) = 0
    BY KeysAreDistinct DEF Init, Val, Absent
  <2> QED
    BY <2>2, <2>3, ConstantsAreTyped
       DEF Init, FlowInv, Accounted, Bounded, PaidFor, Worth
<1> QED
  BY <1>1, <1>2 DEF CountInv

-----------------------------------------------------------------------------
\* A step of another flow's worker, which may be killed, changes nothing here.
LEMMA OtherFlows ==
  ASSUME TypeOK, NEW w \in Workers, WorkerStep(w) \/ UpsertFails(w) \/ Crash(w),
         NEW f \in Flows, task[w].flow # f, FlowInv(f)
  PROVE  FlowInv(f)'
<1> DEFINE g == task[w].flow
<1>0. task[w].at # "idle"
  BY DEF WorkerStep, UpsertFails, Crash, At, ClaimPage, PostAlert, PostPager, CountSeed, CountIncr,
         CountReseed, CountReset, RecordEscalation, ClaimWarn, PostWarn, RecordDigest
<1>1. g \in Flows /\ task[w].outcome \in Outcomes
  BY <1>0, BusyTasks
<1>2. \E t : task' = [task EXCEPT ![w] = t] /\ (t.flow = g \/ t = Idle)
  <2>1. \A step : [task[w] EXCEPT !.at = step].flow = g
    BY DEF TypeOK, Tasks
  <2>2. \A step : Goto(w, step) => task' = [task EXCEPT ![w] = [task[w] EXCEPT !.at = step]]
    BY DEF Goto, TypeOK
  <2>3. (\E step : Goto(w, step)) \/ Return(w)
    BY DEF WorkerStep, UpsertFails, Crash, ClaimPage, PostAlert, PostPager, CountSeed, CountIncr,
           CountReseed, CountReset, RecordEscalation, ClaimWarn, PostWarn, RecordDigest
  <2> QED
    BY <2>1, <2>2, <2>3 DEF Return
<1>3. task'[w].flow # f /\ \A v \in Workers \ {w} : task'[v] = task[v]
  BY <1>1, <1>2, ConstantsAreTyped DEF TypeOK, Idle
<1>4. UNCHANGED <<Delivering(f), Resetting(f), Hitting(f)>>
  BY <1>3 DEF Delivering, Resetting, Hitting, At
<1>5. UNCHANGED <<D(f), R(f), H(f)>>
  BY <1>4 DEF D, R, H
<1>6. UNCHANGED <<granted[f], attempted[f], lost[f], hits[f], promotions[f], overlaps[f]>>
  <2>1. \A c \in [Flows -> Nat] : Count(c, g)[f] = c[f]
    BY DEF Count
  <2>2. \A count : CountOverlap(w, count) => overlaps'[f] = overlaps[f]
    BY <2>1 DEF CountOverlap, TypeOK
  <2> QED
    BY <2>1, <2>2
       DEF TypeOK, WorkerStep, UpsertFails, Crash, ClaimPage, PostAlert, PostPager, CountSeed, CountIncr,
           CountReseed, CountReset, RecordEscalation, ClaimWarn, PostWarn, RecordDigest, history
<1>7. UNCHANGED Val(f)
  <2>1. /\ CountKey(f) \in Keys /\ CountKey(f) # CountKey(g) /\ CountKey(f) # PageKey(g)
        /\ CountKey(f) # WarnKey(g, task[w].outcome)
    BY <1>1, KeysAreDistinct DEF CountKey, PageKey, WarnKey
  <2>2. cache \in [Keys -> [val : Nat, ttl : Nat]]
    BY DEF TypeOK
  <2>3. \E k : /\ k # CountKey(f)
               /\ \/ cache' = cache
                  \/ \E timeout \in Nat : cache' = CacheAdd(cache, k, 1, timeout)
                  \/ cache' = CacheIncr(cache, k)
                  \/ cache' = CacheDelete(cache, k)
    BY <2>1, ConstantsAreTyped
       DEF WorkerStep, UpsertFails, Crash, ClaimPage, PostAlert, PostPager, CountSeed, CountIncr,
           CountReseed, CountReset, RecordEscalation, ClaimWarn, PostWarn, RecordDigest
  <2>4. cache'[CountKey(f)] = cache[CountKey(f)]
    <3>1. PICK k : /\ k # CountKey(f)
                   /\ \/ cache' = cache
                      \/ \E timeout \in Nat : cache' = CacheAdd(cache, k, 1, timeout)
                      \/ cache' = CacheIncr(cache, k)
                      \/ cache' = CacheDelete(cache, k)
      BY <2>3
    <3>2. ASSUME NEW timeout \in Nat
          PROVE  /\ CacheAdd(cache, k, 1, timeout)[CountKey(f)] = cache[CountKey(f)]
                 /\ CacheDelete(cache, k)[CountKey(f)] = cache[CountKey(f)]
                 /\ CacheIncr(cache, k)[CountKey(f)] = cache[CountKey(f)]
      <4>1. CountKey(f) \in Keys \ {k}
        BY <2>1, <3>1
      <4> QED
        BY <2>2, <4>1 DEF CacheAdd, CacheDelete, CacheIncr
    <3> QED
      BY <3>1, <3>2
  <2> QED
    BY <2>4 DEF Val, CountKey
<1>8. crashes \in Nat /\ crashes' \in Nat /\ crashes' >= crashes
  BY DEF TypeOK, WorkerStep, UpsertFails, Crash, ClaimPage, PostAlert, PostPager, CountSeed, CountIncr,
         CountReseed, CountReset, RecordEscalation, ClaimWarn, PostWarn, RecordDigest, history
<1>9. Val(f) \in Nat /\ R(f) \in Nat /\ Threshold \in Nat
  BY Cardinalities, KeysAreDistinct, ConstantsAreTyped DEF Val, TypeOK
<1> QED
  BY <1>5, <1>6, <1>7, <1>8, <1>9 DEF FlowInv, Accounted, Bounded, PaidFor

-----------------------------------------------------------------------------
\* The effect of each kind of step on the worker's own flow, in numbers.  What it
\* is worth is the arithmetic of FlowInv.
LEMMA OwnFlow ==
  ASSUME CountInv, NEW w \in Workers, WorkerStep(w) \/ UpsertFails(w) \/ Crash(w),
         NEW f \in Flows, task[w].flow = f
  PROVE  FlowInv(f)'
<1> DEFINE k == CountKey(f)
           count == Val(f) + 1
<1> USE DEF CountInv
<1>0. task[w].at # "idle"
  BY DEF WorkerStep, UpsertFails, Crash, At, ClaimPage, PostAlert, PostPager, CountSeed, CountIncr,
         CountReseed, CountReset, RecordEscalation, ClaimWarn, PostWarn, RecordDigest
<1>1. /\ D(f) \in Nat /\ R(f) \in Nat /\ H(f) \in Nat
      /\ (R(f) > 0) <=> Resetting(f) # {}
  BY Cardinalities
<1>2. /\ granted[f] \in Nat /\ attempted[f] \in Nat /\ lost[f] \in Nat /\ hits[f] \in Nat
      /\ promotions[f] \in Nat /\ overlaps[f] \in Nat /\ crashes \in Nat
  BY DEF TypeOK
<1>3. k \in Keys \ DedupKeys /\ cache \in [Keys -> [val : Nat, ttl : Nat]] /\ Threshold \in Nat
  BY KeysAreDistinct, ConstantsAreTyped DEF TypeOK
<1>4. Val(f) \in Nat
  BY <1>3 DEF Val
<1>5. \A c \in [Flows -> Nat] : Count(c, f)[f] = c[f] + 1
  BY DEF Count
<1>6. FlowInv(f)
  OBVIOUS
<1>7. ASSUME NEW n, n >= Threshold, At(w, "countSeed") \/ At(w, "countIncr") \/ At(w, "countReseed")
      PROVE  Overlap(w, n) <=> R(f) > 0
  BY <1>1, <1>7 DEF Overlap, Resetting, At
<1>8. ASSUME NEW there \in Steps, Goto(w, there) \/ (Return(w) /\ there = "idle")
      PROVE  /\ D(f)' \in Nat /\ R(f)' \in Nat /\ H(f)' \in Nat
             /\ D(f)' + One(task[w].at \in {"postAlert", "postPager"})
                  = D(f) + One(there \in {"postAlert", "postPager"})
             /\ R(f)' + One(task[w].at = "countReset") = R(f) + One(there = "countReset")
             /\ H(f)' + One(task[w].at \in {"countIncr", "countReseed"})
                  = H(f) + One(there \in {"countIncr", "countReseed"})
  BY <1>8, HeadCounts
\* The steps of the alerts and rollups leave the counter and its hits alone.
<1>9. CASE ClaimPage(w) \/ ClaimWarn(w) \/ PostAlert(w) \/ PostPager(w) \/ PostWarn(w)
           \/ RecordEscalation(w) \/ RecordDigest(w) \/ UpsertFails(w)
  <2>1. Val(f)' = Val(f)
    <3>1. k \in Keys \ {PageKey(f)} /\ k \in Keys \ {WarnKey(f, task[w].outcome)}
      BY <1>3 DEF CountKey, PageKey, WarnKey
    <3>2. /\ CacheAdd(cache, PageKey(f), 1, ProhibitedWindow)[k] = cache[k]
          /\ CacheAdd(cache, WarnKey(f, task[w].outcome), 1, SuspiciousWindow)[k] = cache[k]
      BY <1>3, <3>1, CacheCalls, ConstantsAreTyped
    <3>3. \/ cache' = cache
          \/ cache' = CacheAdd(cache, PageKey(f), 1, ProhibitedWindow)
          \/ cache' = CacheAdd(cache, WarnKey(f, task[w].outcome), 1, SuspiciousWindow)
      BY <1>9 DEF ClaimPage, ClaimWarn, PostAlert, PostPager, PostWarn, RecordEscalation,
                  RecordDigest, UpsertFails
    <3> QED
      BY <3>2, <3>3 DEF Val, CountKey
  <2>2. UNCHANGED <<lost, hits, promotions, overlaps, crashes>>
    BY <1>9 DEF ClaimPage, ClaimWarn, PostAlert, PostPager, PostWarn, RecordEscalation,
                RecordDigest, UpsertFails, history
  <2>3. PICK there \in Steps : /\ Goto(w, there) \/ (Return(w) /\ there = "idle")
                               /\ there \notin CountSteps
    BY <1>9 DEF ClaimPage, ClaimWarn, PostAlert, PostPager, PostWarn, RecordEscalation,
                RecordDigest, UpsertFails, Steps, CountSteps
  <2>4. R(f)' = R(f) /\ H(f)' = H(f)
    <3>1. task[w].at \notin CountSteps
      BY <1>9 DEF ClaimPage, ClaimWarn, PostAlert, PostPager, PostWarn, RecordEscalation,
                  RecordDigest, UpsertFails, At, CountSteps
    <3> QED
      BY <1>1, <1>8, <2>3, <3>1 DEF One, CountSteps
  <2>5. Accounted(f)'
    <3>1. CASE ClaimPage(w)
      <4>1. CASE Goto(w, "postAlert") /\ granted' = Count(granted, f)
        <5>1. D(f)' = D(f) + 1
          BY <1>1, <1>8, <3>1, <4>1 DEF ClaimPage, At, One, Steps
        <5> QED
          BY <1>1, <1>2, <1>5, <1>6, <2>2, <3>1, <4>1, <5>1
             DEF ClaimPage, FlowInv, Accounted, TypeOK
      <4>2. CASE Return(w) /\ UNCHANGED granted
        <5>1. D(f)' = D(f)
          BY <1>1, <1>8, <3>1, <4>2 DEF ClaimPage, At, One, Steps
        <5> QED
          BY <1>6, <2>2, <3>1, <4>2, <5>1 DEF ClaimPage, FlowInv, Accounted
      <4> QED
        BY <3>1, <4>1, <4>2 DEF ClaimPage
    <3>2. CASE PostAlert(w)
      <4>1. D(f)' = D(f)
        BY <1>1, <1>8, <3>2 DEF PostAlert, At, One, Steps
      <4> QED
        BY <1>6, <2>2, <3>2, <4>1 DEF PostAlert, FlowInv, Accounted
    <3>3. CASE PostPager(w)
      <4>1. D(f)' = D(f) - 1
        BY <1>1, <1>8, <3>3 DEF PostPager, At, One, Steps
      <4>2. attempted'[f] = attempted[f] + 1
        BY <1>5, <3>3 DEF PostPager, TypeOK
      <4> QED
        BY <1>1, <1>2, <1>6, <2>2, <3>3, <4>1, <4>2 DEF PostPager, FlowInv, Accounted
    <3>4. CASE ClaimWarn(w) \/ PostWarn(w) \/ RecordEscalation(w) \/ RecordDigest(w) \/ UpsertFails(w)
      <4>1. /\ task[w].at \notin {"postAlert", "postPager"}
            /\ Goto(w, "postWarn") \/ Goto(w, "claimPage") \/ Return(w)
        BY <3>4 DEF ClaimWarn, PostWarn, RecordEscalation, RecordDigest, UpsertFails, At
      <4>2. D(f)' = D(f)
        BY <1>1, <1>8, <4>1 DEF One, Steps
      <4> QED
        BY <1>6, <2>2, <3>4, <4>2
           DEF ClaimWarn, PostWarn, RecordEscalation, RecordDigest, UpsertFails, FlowInv, Accounted, history
    <3> QED
      BY <1>9, <3>1, <3>2, <3>3, <3>4
  <2> QED
    BY <1>6, <2>1, <2>2, <2>4, <2>5 DEF FlowInv, Bounded, PaidFor
\* A call that has read count n: it goes on to reset, or to warn.
<1>10. ASSUME NEW n \in Nat, Goto(w, AfterCount(n)), CountOverlap(w, n),
              At(w, "countSeed") \/ At(w, "countIncr") \/ At(w, "countReseed")
       PROVE  /\ D(f)' = D(f) /\ H(f)' + One(~At(w, "countSeed")) = H(f) /\ H(f)' \in Nat
              /\ \/ /\ n >= Threshold /\ R(f)' = R(f) + 1
                    /\ overlaps'[f] = overlaps[f] + One(R(f) > 0)
                 \/ n < Threshold /\ R(f)' = R(f) /\ overlaps'[f] = overlaps[f]
  <2>1. AfterCount(n) = IF n >= Threshold THEN "countReset" ELSE "claimWarn"
    BY DEF AfterCount
  <2>2. D(f)' = D(f) /\ H(f)' + One(~At(w, "countSeed")) = H(f) /\ H(f)' \in Nat
    BY <1>1, <1>8, <1>10, <2>1 DEF One, At, Steps
  <2>3. CASE n >= Threshold
    <3>1. R(f)' = R(f) + 1
      BY <1>1, <1>8, <1>10, <2>1, <2>3 DEF One, At, Steps
    <3>2. overlaps'[f] = overlaps[f] + One(R(f) > 0)
      BY <1>2, <1>5, <1>7, <1>10, <2>3 DEF CountOverlap, One, TypeOK
    <3> QED
      BY <2>2, <2>3, <3>1, <3>2
  <2>4. CASE n < Threshold
    <3>1. R(f)' = R(f)
      BY <1>1, <1>3, <1>8, <1>10, <2>1, <2>4 DEF One, At, Steps
    <3>2. overlaps'[f] = overlaps[f]
      BY <1>3, <1>10, <2>4 DEF CountOverlap, Overlap
    <3> QED
      BY <2>2, <2>4, <3>1, <3>2
  <2> QED
    BY <1>3, <2>3, <2>4
\* What the call takes when it goes on: the hit that waited, or the one it paid.
<1>11. ASSUME NEW n \in Nat, Goto(w, AfterCount(n)), CountOverlap(w, n),
              At(w, "countSeed") \/ At(w, "countIncr") \/ At(w, "countReseed"),
              NEW h \in Nat, H(f)' = h, NEW paid \in Nat, hits'[f] = paid,
              Worth(Threshold, promotions[f], R(f), h + 1, Val(f), paid, overlaps[f]),
              NEW v \in Nat, Val(f)' = v, v <= Val(f) + 1, n <= Val(f) + 1,
              UNCHANGED promotions, n < Threshold => v < Threshold \/ v <= Val(f),
              UNCHANGED crashes
       PROVE  PaidFor(f)' /\ Bounded(f)'
  <2>0. Threshold \in Nat \ {0}
    BY <1>3, <1>11 DEF Enabled, CountSteps, At
  <2>1. CASE n >= Threshold
    <3>1. R(f)' = R(f) + 1 /\ overlaps'[f] = overlaps[f] + One(R(f) > 0)
      BY <1>10, <1>11, <2>0, <2>1
    <3>2. Threshold <= Val(f) + 1
      BY <1>4, <1>11, <2>0, <2>1
    <3>3. Worth(Threshold, promotions[f], R(f) + 1, h, v, paid, overlaps[f] + One(R(f) > 0))
      BY <1>1, <1>2, <1>4, <1>11, <2>0, <3>2, Reaching
    <3>4. v < Threshold + (R(f) + 1) + crashes
      BY <1>1, <1>2, <1>4, <1>6, <1>11, <2>0 DEF FlowInv, Bounded
    <3> QED
      BY <1>11, <3>1, <3>3, <3>4 DEF PaidFor, Bounded
  <2>2. CASE n < Threshold
    <3>1. R(f)' = R(f) /\ overlaps'[f] = overlaps[f]
      BY <1>10, <1>11, <2>0, <2>2
    <3>2. Worth(Threshold, promotions[f], R(f), h, v, paid, overlaps[f])
      BY <1>1, <1>2, <1>4, <1>11, <2>0, Taking
    <3>3. v < Threshold + R(f) + crashes
      BY <1>1, <1>2, <1>4, <1>6, <1>11, <2>0, <2>2 DEF FlowInv, Bounded
    <3> QED
      BY <1>11, <3>1, <3>2, <3>3 DEF PaidFor, Bounded
  <2> QED
    BY <1>11, <2>0, <2>1, <2>2
<1>12. CASE CountSeed(w)
  <2>1. /\ UNCHANGED <<granted, attempted, lost, promotions, crashes>> /\ At(w, "countSeed")
        /\ hits'[f] = hits[f] + 1
    BY <1>5, <1>12 DEF CountSeed, TypeOK
  <2>2. Worth(Threshold, promotions[f], R(f), H(f) + 1, Val(f), hits[f] + 1, overlaps[f])
    BY <1>1, <1>2, <1>3, <1>4, <1>6, Paying DEF FlowInv, PaidFor
  <2>3. CASE Present(cache, k)
    <3>1. /\ Val(f)' = Val(f) /\ overlaps' = overlaps /\ Goto(w, "countIncr")
      BY <1>12, <2>3 DEF CountSeed, CacheAdd, Val, CountKey
    <3>2. D(f)' = D(f) /\ R(f)' = R(f) /\ H(f)' = H(f) + 1
      BY <1>1, <1>8, <2>1, <3>1 DEF One, At, Steps
    <3> QED
      BY <1>6, <2>1, <2>2, <3>1, <3>2 DEF FlowInv, Accounted, Bounded, PaidFor
  <2>4. CASE ~Present(cache, k)
    <3>1. Val(f)' = 1
      BY <1>3, <1>12, <2>4 DEF CountSeed, CacheAdd, Val, CountKey
    <3>2. Goto(w, AfterCount(1)) /\ CountOverlap(w, 1)
      BY <1>12, <2>4 DEF CountSeed
    <3>3. D(f)' = D(f) /\ H(f)' = H(f)
      BY <1>1, <1>10, <2>1, <3>2 DEF One
    <3>4. PaidFor(f)' /\ Bounded(f)'
      BY <1>1, <1>2, <1>4, <1>11, <2>1, <2>2, <3>1, <3>2, <3>3
    <3> QED
      BY <1>6, <2>1, <3>3, <3>4 DEF FlowInv, Accounted
  <2> QED
    BY <2>3, <2>4
<1>13. CASE CountIncr(w) \/ CountReseed(w)
  <2>1. UNCHANGED <<granted, attempted, lost, promotions, hits, crashes>>
    BY <1>13 DEF CountIncr, CountReseed
  <2>2. At(w, "countIncr") \/ At(w, "countReseed")
    BY <1>13 DEF CountIncr, CountReseed
  <2>3. CASE CountIncr(w) /\ ~Present(cache, k)
    <3>1. Goto(w, "countReseed") /\ UNCHANGED <<cache, overlaps>>
      BY <2>3 DEF CountIncr
    <3>2. D(f)' = D(f) /\ R(f)' = R(f) /\ H(f)' = H(f)
      BY <1>1, <1>8, <2>2, <3>1 DEF One, At, Steps
    <3> QED
      BY <1>6, <2>1, <3>1, <3>2 DEF FlowInv, Accounted, Bounded, PaidFor, Val, CountKey
  <2>4. ASSUME NEW n \in Nat, n <= Val(f) + 1, Goto(w, AfterCount(n)), CountOverlap(w, n),
               NEW v \in Nat, Val(f)' = v, v <= Val(f) + 1,
               n < Threshold => v < Threshold \/ v <= Val(f)
        PROVE  FlowInv(f)'
    <3>1. D(f)' = D(f) /\ H(f)' \in Nat /\ H(f) = H(f)' + 1
      BY <1>1, <1>10, <2>2, <2>4 DEF One, At
    <3>2. PICK h \in Nat : h = H(f)'
      BY <3>1
    <3>3. Worth(Threshold, promotions[f], R(f), h + 1, Val(f), hits[f], overlaps[f])
      BY <1>6, <3>1, <3>2 DEF FlowInv, PaidFor
    <3>4. PaidFor(f)' /\ Bounded(f)'
      BY <1>2, <1>11, <2>1, <2>2, <2>4, <3>2, <3>3
    <3> QED
      BY <1>6, <2>1, <3>1, <3>4 DEF FlowInv, Accounted
  <2>5. CASE CountIncr(w) /\ Present(cache, k)
    <3>1. Val(f)' = count
      BY <1>3, <2>5 DEF CountIncr, CacheIncr, Val, CountKey
    <3>2. Goto(w, AfterCount(count)) /\ CountOverlap(w, count)
      BY <2>5 DEF CountIncr, Val
    <3> QED
      BY <1>4, <2>4, <3>1, <3>2
  <2>6. CASE CountReseed(w)
    <3>1. Val(f)' = (IF Present(cache, k) THEN Val(f) ELSE 1)
      BY <1>3, <2>6 DEF CountReseed, CacheAdd, Val, CountKey
    <3>2. Goto(w, AfterCount(1)) /\ CountOverlap(w, 1)
      BY <2>6 DEF CountReseed
    <3> QED
      BY <1>4, <2>4, <3>1, <3>2
  <2> QED
    BY <1>13, <2>3, <2>5, <2>6
<1>14. CASE CountReset(w)
  <2>1. /\ UNCHANGED <<granted, attempted, lost, hits, overlaps, crashes>>
        /\ At(w, "countReset") /\ Goto(w, "recordEscalation")
        /\ promotions'[f] = promotions[f] + 1
    BY <1>5, <1>14 DEF CountReset, TypeOK
  <2>2. Val(f)' = 0
    BY <1>3, <1>14 DEF CountReset, CacheDelete, Absent, Val, CountKey
  <2>3. Threshold \in Nat \ {0}
    BY <1>3, <2>1 DEF Enabled, CountSteps, At
  <2>4. D(f)' = D(f) /\ R(f)' \in Nat /\ R(f) = R(f)' + 1 /\ H(f)' = H(f)
    BY <1>1, <1>8, <2>1 DEF One, At, Steps
  <2>5. PICK r \in Nat : r = R(f)'
    BY <2>4
  <2>6. Worth(Threshold, promotions[f] + 1, r, H(f), 0, hits[f], overlaps[f])
    <3>1. Worth(Threshold, promotions[f], r + 1, H(f), Val(f), hits[f], overlaps[f])
      BY <1>6, <2>4, <2>5 DEF FlowInv, PaidFor
    <3> QED
      BY <1>1, <1>2, <1>4, <2>3, <3>1, Promoting
  <2>7. PaidFor(f)'
    BY <2>1, <2>2, <2>4, <2>5, <2>6 DEF PaidFor
  <2> QED
    BY <1>2, <1>6, <2>1, <2>2, <2>3, <2>4, <2>7 DEF FlowInv, Accounted, Bounded
<1>15. CASE Crash(w)
  <2>1. /\ UNCHANGED <<cache, granted, attempted, hits, promotions, overlaps>>
        /\ Return(w) /\ crashes' = crashes + 1
        /\ lost'[f] = lost[f] + One(task[w].at \in {"postAlert", "postPager"})
    BY <1>2, <1>5, <1>15 DEF Crash, TypeOK, One
  <2>2. /\ D(f)' + One(task[w].at \in {"postAlert", "postPager"}) = D(f) /\ D(f)' \in Nat
        /\ R(f)' + One(task[w].at = "countReset") = R(f) /\ R(f)' \in Nat
        /\ H(f)' + One(task[w].at \in {"countIncr", "countReseed"}) = H(f) /\ H(f)' \in Nat
    BY <1>1, <1>8, <2>1 DEF One, Steps
  <2>3. Val(f)' = Val(f)
    BY <2>1 DEF Val, CountKey
  <2>4. PaidFor(f)'
    <3>1. CASE task[w].at = "countReset"
      <4>1. PICK r \in Nat : r = R(f)' /\ R(f) = r + 1
        BY <2>2, <3>1 DEF One
      <4>2. H(f)' = H(f)
        BY <1>1, <2>2, <3>1 DEF One
      <4>3. Threshold \in Nat \ {0}
        BY <1>3, <3>1 DEF Enabled, CountSteps
      <4>4. Worth(Threshold, promotions[f], r + 1, H(f), Val(f), hits[f], overlaps[f])
        BY <1>6, <4>1 DEF FlowInv, PaidFor
      <4>5. Worth(Threshold, promotions[f], r, H(f), Val(f), hits[f], overlaps[f])
        BY <1>1, <1>2, <1>4, <4>3, <4>4, Dropping
      <4> QED
        BY <2>1, <2>3, <4>1, <4>2, <4>5 DEF PaidFor
    <3>2. CASE task[w].at \in {"countIncr", "countReseed"}
      <4>1. PICK h \in Nat : h = H(f)' /\ H(f) = h + 1
        BY <2>2, <3>2 DEF One
      <4>2. R(f)' = R(f)
        BY <1>1, <2>2, <3>2 DEF One
      <4>3. Worth(Threshold, promotions[f], R(f), h + 1, Val(f), hits[f], overlaps[f])
        BY <1>6, <4>1 DEF FlowInv, PaidFor
      <4>4. Worth(Threshold, promotions[f], R(f), h, Val(f), hits[f], overlaps[f])
        <5>1. Val(f) <= Val(f) + 1
          BY <1>4
        <5> QED
          BY <1>1, <1>2, <1>3, <1>4, <4>3, <5>1, Taking
      <4> QED
        BY <2>1, <2>3, <4>1, <4>2, <4>4 DEF PaidFor
    <3>3. CASE task[w].at \notin {"countReset", "countIncr", "countReseed"}
      <4>1. R(f)' = R(f) /\ H(f)' = H(f)
        BY <1>1, <2>2, <3>3 DEF One
      <4> QED
        BY <1>6, <2>1, <2>3, <4>1 DEF FlowInv, PaidFor
    <3> QED
      BY <3>1, <3>2, <3>3
  <2>5. Bounded(f)'
    BY <1>1, <1>2, <1>3, <1>4, <1>6, <2>1, <2>2, <2>3 DEF FlowInv, Bounded, One
  <2>6. Accounted(f)'
    BY <1>1, <1>2, <1>6, <2>1, <2>2 DEF FlowInv, Accounted, One
  <2> QED
    BY <2>4, <2>5, <2>6 DEF FlowInv
<1> QED
  BY <1>9, <1>12, <1>13, <1>14, <1>15 DEF WorkerStep

-----------------------------------------------------------------------------
LEMMA NextEnabled == TypeOK /\ Enabled /\ [Next]_vars => Enabled'
<1> SUFFICES ASSUME TypeOK, Enabled, [Next]_vars, NEW v \in Workers,
                    task'[v].at \in CountSteps
             PROVE  Threshold > 0
  BY DEF Enabled
<1>1. ASSUME NEW w \in Workers, NEW f \in Flows, NEW e \in EventKinds, Route(w, f, e[1], e[2])
      PROVE  Threshold > 0
  <2>1. e[1] \in Outcomes /\ e[2] \in BOOLEAN /\ Threshold \in Nat
    BY ConstantsAreTyped
  <2> DEFINE level == EffectiveAlertLevel(e[1], e[2])
  <2>2. level \in Outcomes
    BY <2>1 DEF EffectiveAlertLevel, Outcomes
  <2>3. FirstStep(level) \in CountSteps => Threshold # 0
    BY <2>2 DEF FirstStep, CountSteps, Outcomes
  <2>4. task'[v] = task[v] \/ task'[v].at = FirstStep(level)
    BY <1>1 DEF Route, TypeOK
  <2> QED
    BY <2>1, <2>3, <2>4 DEF Enabled
<1>2. ASSUME NEW w \in Workers, WorkerStep(w) \/ UpsertFails(w) \/ Crash(w)
      PROVE  Threshold > 0
  <2>1. CASE CountSeed(w) \/ CountIncr(w) \/ CountReseed(w)
    BY <2>1 DEF CountSeed, CountIncr, CountReseed, At, Enabled, CountSteps
  <2>2. CASE ~(CountSeed(w) \/ CountIncr(w) \/ CountReseed(w))
    <3>1. PICK there \in Steps \ CountSteps : Goto(w, there) \/ (Return(w) /\ there = "idle")
      BY <1>2, <2>2 DEF WorkerStep, UpsertFails, Crash, ClaimPage, PostAlert, PostPager, CountReset,
           RecordEscalation, ClaimWarn, PostWarn, RecordDigest, Steps, CountSteps
    <3>2. task'[v] = task[v] \/ task'[v].at = there
      BY <3>1 DEF Goto, Return, Idle, TypeOK, Tasks
    <3> QED
      BY <3>1, <3>2 DEF Enabled
  <2> QED
    BY <2>1, <2>2
<1>3. CASE Tick \/ UNCHANGED vars
  BY <1>3 DEF Tick, vars, Enabled
<1> QED
  BY <1>1, <1>2, <1>3 DEF Next

LEMMA CountNext == CountInv /\ [Next]_vars => CountInv'
<1> SUFFICES ASSUME CountInv, [Next]_vars PROVE CountInv'
  OBVIOUS
<1>0. TypeOK' /\ Enabled'
  BY NextTypes, NextEnabled DEF CountInv
<1> SUFFICES ASSUME NEW f \in Flows PROVE FlowInv(f)'
  BY <1>0 DEF CountInv
<1>1. ASSUME NEW w \in Workers, WorkerStep(w) \/ UpsertFails(w) \/ Crash(w) PROVE FlowInv(f)'
  <2>1. CASE task[w].flow = f
    BY <1>1, <2>1, OwnFlow
  <2>2. CASE task[w].flow # f
    BY <1>1, <2>2, OtherFlows DEF CountInv
  <2> QED
    BY <2>1, <2>2
<1>2. ASSUME NEW w \in Workers, NEW g \in Flows, NEW e \in EventKinds, Route(w, g, e[1], e[2])
      PROVE  FlowInv(f)'
  <2> DEFINE there == FirstStep(EffectiveAlertLevel(e[1], e[2]))
  <2>1. there \notin {"postAlert", "postPager", "countReset", "countIncr", "countReseed"}
    <3>1. EffectiveAlertLevel(e[1], e[2]) \in Outcomes
      BY ConstantsAreTyped DEF EffectiveAlertLevel, Outcomes
    <3> QED
      BY <3>1 DEF FirstStep, Outcomes
  <2>2. task[w].at = "idle" /\ (task'[w] = task[w] \/ task'[w].at = there)
    BY <1>2 DEF Route, At, CountInv, TypeOK
  <2>3. \A v \in Workers \ {w} : task'[v] = task[v]
    BY <1>2 DEF Route, CountInv, TypeOK
  <2>4. UNCHANGED <<Delivering(f), Resetting(f), Hitting(f)>>
    BY <2>1, <2>2, <2>3 DEF Delivering, Resetting, Hitting, At
  <2>5. UNCHANGED <<D(f), R(f), H(f)>>
    BY <2>4 DEF D, R, H
  <2> QED
    BY <1>2, <2>5 DEF Route, CountInv, FlowInv, Accounted, Bounded, PaidFor, Val, CountKey
<1>3. CASE Tick
  <2>1. UNCHANGED <<D(f), R(f), H(f), granted, attempted, lost, hits, promotions, overlaps, crashes>>
    BY <1>3 DEF Tick, history, D, R, H, Delivering, Resetting, Hitting, At
  <2>2. CountKey(f) \in Keys /\ cache \in [Keys -> [val : Nat, ttl : Nat]]
    BY KeysAreDistinct DEF CountInv, TypeOK
  <2>3. Val(f) \in Nat /\ (Val(f)' = Val(f) \/ Val(f)' = 0)
    BY <1>3, <2>2 DEF Tick, CacheAge, Absent, Val, CountKey
  <2>4. FlowInv(f) /\ Threshold \in Nat /\ R(f) \in Nat /\ H(f) \in Nat
    BY Cardinalities, ConstantsAreTyped DEF CountInv
  <2>5. crashes \in Nat /\ hits[f] \in Nat /\ promotions[f] \in Nat /\ overlaps[f] \in Nat
    BY DEF CountInv, TypeOK
  <2>6. Accounted(f)' /\ Bounded(f)'
    BY <2>1, <2>3, <2>4, <2>5 DEF FlowInv, Accounted, Bounded
  <2>7. ASSUME NEW v \in Nat, v <= Val(f)
        PROVE  Worth(Threshold, promotions[f], R(f), H(f), v, hits[f], overlaps[f])
    <3>1. Threshold * promotions[f] \in Int /\ (Threshold - 1) * overlaps[f] \in Int
      BY <2>4, <2>5
    <3> QED
      BY <2>3, <2>4, <2>5, <2>7, <3>1 DEF FlowInv, PaidFor, Worth
  <2>8. PaidFor(f)'
    BY <2>1, <2>3, <2>7 DEF PaidFor
  <2> QED
    BY <2>6, <2>8 DEF FlowInv
<1>4. CASE UNCHANGED vars
  <2>1. UNCHANGED <<D(f), R(f), H(f), Val(f)>>
    BY <1>4 DEF vars, D, R, H, Val, Delivering, Resetting, Hitting, At, CountKey
  <2> QED
    BY <1>4, <2>1 DEF vars, history, CountInv, FlowInv, Accounted, Bounded, PaidFor
<1> QED
  BY <1>1, <1>2, <1>3, <1>4 DEF Next

\* The budgets hold of every behaviour.
THEOREM CountHolds == Spec => []CountInv
BY CountInit, CountNext, PTL DEF Spec

-----------------------------------------------------------------------------
\* Every admitted page ends in one try of both webhooks, in its worker's death, or
\* is on its way.
THEOREM AdmissionsHold == Spec => []AdmissionsAccounted
<1>1. CountInv => AdmissionsAccounted
  BY DEF CountInv, FlowInv, Accounted, AdmissionsAccounted, D
<1> QED
  BY <1>1, CountHolds, PTL

\* The first promotion of a flow takes Threshold hits, and each further one a hit.
THEOREM PromotionsHold == Spec => []PromotionsNeedHits
<1>1. CountInv => PromotionsNeedHits
  <2> SUFFICES ASSUME CountInv, NEW f \in Flows, promotions[f] > 0
               PROVE  promotions[f] + Threshold - 1 <= hits[f]
    BY DEF PromotionsNeedHits
  <2>1. promotions[f] \in Nat /\ hits[f] \in Nat /\ R(f) \in Nat /\ H(f) \in Nat
        /\ Threshold \in Nat
    BY Cardinalities, ConstantsAreTyped DEF CountInv, TypeOK
  <2> QED
    BY <2>1 DEF CountInv, FlowInv, PaidFor, Worth
<1> QED
  BY <1>1, CountHolds, PTL

\* Every promotion takes Threshold hits, but for those in which the threshold was
\* reached while another worker had yet to reset.
THEOREM FullCountHolds == Spec => []FullCountPerPromotion
<1>1. CountInv => FullCountPerPromotion
  <2> SUFFICES ASSUME CountInv, NEW f \in Flows
               PROVE  Threshold * promotions[f] <= hits[f] + (Threshold - 1) * overlaps[f]
    BY DEF FullCountPerPromotion
  <2>1. H(f) \in Nat /\ Val(f) \in Nat
    BY Cardinalities, KeysAreDistinct DEF CountInv, TypeOK, Val
  <2>2. Threshold * promotions[f] \in Int /\ hits[f] + (Threshold - 1) * overlaps[f] \in Int
    BY ConstantsAreTyped DEF CountInv, TypeOK
  <2> QED
    BY <2>1, <2>2 DEF CountInv, FlowInv, PaidFor, Worth
<1> QED
  BY <1>1, CountHolds, PTL

\* No two workers overlap where there is one.
NoOverlap == \A f \in Flows : overlaps[f] = 0

LEMMA SoloSteps ==
  ASSUME \A v, w \in Workers : v = w, NoOverlap, [Next]_vars
  PROVE  NoOverlap'
<1>1. ASSUME NEW w \in Workers, NEW count, CountOverlap(w, count) PROVE overlaps' = overlaps
  BY <1>1 DEF CountOverlap, Overlap
<1>2. ASSUME NEW w \in Workers, WorkerStep(w) PROVE overlaps' = overlaps
  BY <1>1, <1>2
     DEF WorkerStep, ClaimPage, PostAlert, PostPager, CountSeed, CountIncr, CountReseed, CountReset,
         RecordEscalation, ClaimWarn, PostWarn, RecordDigest
<1>3. overlaps' = overlaps
  BY <1>2 DEF Next, Route, UpsertFails, Crash, Tick, history, vars
<1> QED  BY <1>3 DEF NoOverlap

\* escalation.py:36-37: where one worker routes all events, the docstring holds: every
\* promotion takes a full count of hits, whatever expires, fails or is killed.
THEOREM SoloPromotions ==
  ASSUME \A v, w \in Workers : v = w
  PROVE  Spec => []PromotionResetsCounter
<1>1. Init => NoOverlap
  BY DEF Init, NoOverlap
<1>2. NoOverlap /\ [Next]_vars => NoOverlap'
  BY SoloSteps
<1>3. TypeOK /\ NoOverlap /\ FullCountPerPromotion => PromotionResetsCounter
  <2> SUFFICES ASSUME TypeOK, NoOverlap, FullCountPerPromotion, NEW f \in Flows
               PROVE  Threshold * promotions[f] <= hits[f]
    BY DEF PromotionResetsCounter
  <2>1. Threshold * promotions[f] <= hits[f] + (Threshold - 1) * overlaps[f]
    BY DEF FullCountPerPromotion
  <2>2. overlaps[f] = 0 /\ hits[f] \in Nat /\ Threshold - 1 \in Int
    BY ConstantsAreTyped DEF NoOverlap, TypeOK
  <2>3. (Threshold - 1) * overlaps[f] = 0
    BY <2>2
  <2> QED  BY <2>1, <2>2, <2>3
<1> QED  BY <1>1, <1>2, <1>3, RoutingTypes, FullCountHolds, PTL DEF Spec

\* The counter does not run away.
THEOREM CounterHolds == Spec => []CounterBounded
<1>1. CountInv => CounterBounded
  BY DEF CountInv, FlowInv, Bounded, CounterBounded, R, Val
<1> QED
  BY <1>1, CountHolds, PTL
-----------------------------------------------------------------------------
(***************************************************************************)
(* The rollups.  What they lack is what the workers have in hand and what  *)
(* went down with killed ones; a step moves one unit between the three.    *)
(***************************************************************************)
Total(c)  == FoldFunction(+, 0, c)
DigestGap == Total(acceptables) - Total(digest) - InHand("recordDigest")
RollupGap == Total(promotions) - rollup - InHand("recordEscalation")
RollupInv == DigestGap >= 0 /\ RollupGap >= 0 /\ DigestGap + RollupGap <= crashes + swallowed

LEMMA CountingTotals ==
  ASSUME NEW c \in [Flows -> Nat]
  PROVE  /\ Total(c) \in Nat
         /\ \A f \in Flows : Total(Count(c, f)) = Total(c) + 1
<1>1. IsFiniteSet(Flows)
  BY ConstantsAssumption
<1> QED
  BY <1>1, SumIsNat, SumGrows DEF Total, Count

\* A worker that goes from one step to another takes what it has in hand along.
LEMMA Handing ==
  ASSUME NEW w \in Workers, NEW there, task'[w].at = there,
         \A v \in Workers \ {w} : task'[v] = task[v], NEW step
  PROVE  /\ InHand(step) \in Nat /\ InHand(step)' \in Nat
         /\ InHand(step)' + One(task[w].at = step) = InHand(step) + One(there = step)
<1> DEFINE S == {v \in Workers : task[v].at = step}
           T == {v \in Workers : task'[v].at = step}
<1>1. /\ Cardinality(S) \in Nat /\ Cardinality(T) \in Nat
      /\ Cardinality(T) + One(w \in S) = Cardinality(S) + One(w \in T)
  <2>1. S \in SUBSET Workers /\ T \in SUBSET Workers /\ S \ {w} = T \ {w}
    OBVIOUS
  <2> HIDE DEF S, T
  <2> QED
    BY <2>1, OneMoves
<1>2. InHand(step) = Cardinality(S) /\ InHand(step)' = Cardinality(T)
  BY DEF InHand, At
<1>3. (w \in S <=> task[w].at = step) /\ (w \in T <=> there = step)
  OBVIOUS
<1> HIDE DEF S, T
<1> QED
  BY <1>1, <1>2, <1>3 DEF One

LEMMA RollupInit == Init => RollupInv
<1> SUFFICES ASSUME Init PROVE RollupInv
  OBVIOUS
<1>1. Total(acceptables) = 0 /\ Total(digest) = 0 /\ Total(promotions) = 0
  BY SumOfZeros, ConstantsAssumption DEF Init, Total
<1>2. InHand("recordDigest") = 0 /\ InHand("recordEscalation") = 0
  <2>1. {w \in Workers : At(w, "recordDigest")} = {}
    BY DEF Init, Idle, At
  <2>2. {w \in Workers : At(w, "recordEscalation")} = {}
    BY DEF Init, Idle, At
  <2> QED
    BY <2>1, <2>2, FS_EmptySet DEF InHand
<1> QED
  BY <1>1, <1>2 DEF Init, RollupInv, DigestGap, RollupGap

LEMMA RollupNext == TypeOK /\ RollupInv /\ [Next]_vars => RollupInv'
<1> SUFFICES ASSUME TypeOK, RollupInv, [Next]_vars PROVE RollupInv'
  OBVIOUS
<1> DEFINE A == Total(acceptables)
           G == Total(digest)
           P == Total(promotions)
           X == InHand("recordDigest")
           Y == InHand("recordEscalation")
<1>1. /\ A \in Nat /\ G \in Nat /\ P \in Nat /\ rollup \in Nat /\ crashes \in Nat /\ swallowed \in Nat
      /\ \A f \in Flows : /\ Total(Count(acceptables, f)) = A + 1
                          /\ Total(Count(digest, f)) = G + 1
                          /\ Total(Count(promotions, f)) = P + 1
  BY CountingTotals DEF TypeOK
<1>2. /\ A - G - X >= 0 /\ P - rollup - Y >= 0
      /\ (A - G - X) + (P - rollup - Y) <= crashes + swallowed
  BY DEF RollupInv, DigestGap, RollupGap
<1>3. ASSUME NEW w \in Workers, NEW there, task'[w].at = there,
             \A v \in Workers \ {w} : task'[v] = task[v]
      PROVE  /\ X \in Nat /\ X' \in Nat /\ Y \in Nat /\ Y' \in Nat
             /\ X' + One(task[w].at = "recordDigest") = X + One(there = "recordDigest")
             /\ Y' + One(task[w].at = "recordEscalation") = Y + One(there = "recordEscalation")
  BY <1>3, Handing
<1>4. ASSUME NEW w \in Workers, NEW there \in Steps, Goto(w, there) \/ (Return(w) /\ there = "idle")
      PROVE  task'[w].at = there /\ \A v \in Workers \ {w} : task'[v] = task[v]
  <2>1. \A v \in Workers \ {w} : task'[v] = task[v]
    BY <1>4 DEF Goto, Return, TypeOK
  <2>2. CASE Goto(w, there)
    <3>1. task[w] \in [at : Steps, flow : Flows \cup {NoFlow}, outcome : Outcomes]
      BY DEF TypeOK, Tasks, Idle, Steps, Outcomes
    <3> QED
      BY <2>1, <2>2, <3>1 DEF Goto, TypeOK
  <2>3. CASE Return(w) /\ there = "idle"
    BY <2>1, <2>3 DEF Return, TypeOK, Idle
  <2> QED
    BY <1>4, <2>2, <2>3
<1>5. ASSUME A' - G' - X' = A - G - X, P' - rollup' - Y' = P - rollup - Y, UNCHANGED <<crashes, swallowed>>
      PROVE  RollupInv'
  BY <1>2, <1>5 DEF RollupInv, DigestGap, RollupGap
<1> HIDE DEF A, G, P, X, Y
<1>6. ASSUME NEW w \in Workers, NEW f \in Flows, NEW e \in EventKinds, Route(w, f, e[1], e[2])
      PROVE  RollupInv'
  <2> DEFINE level == EffectiveAlertLevel(e[1], e[2])
             first == FirstStep(level)
  <2>1. /\ UNCHANGED <<digest, rollup, promotions, crashes, swallowed>> /\ task[w].at = "idle"
        /\ \/ UNCHANGED <<task, acceptables>>
           \/ /\ task' = [task EXCEPT ![w] = [at |-> first, flow |-> f, outcome |-> e[1]]]
              /\ acceptables' = IF level = "acceptable" THEN Count(acceptables, f)
                                ELSE acceptables
    BY <1>6 DEF Route, At
  <2>2. G' = G /\ P' = P
    BY <2>1 DEF G, P
  <2>3. CASE UNCHANGED <<task, acceptables>>
    <3>1. A' = A /\ X' = X /\ Y' = Y
      BY <2>3 DEF A, X, Y, InHand, At
    <3> QED
      BY <1>5, <2>1, <2>2, <3>1
  <2>4. CASE /\ task' = [task EXCEPT ![w] = [at |-> first, flow |-> f, outcome |-> e[1]]]
             /\ acceptables' = IF level = "acceptable" THEN Count(acceptables, f)
                               ELSE acceptables
    <3>1. task'[w].at = first /\ \A v \in Workers \ {w} : task'[v] = task[v]
      BY <2>4 DEF TypeOK
    <3>2. /\ first = "recordDigest" <=> level = "acceptable"
          /\ first # "recordEscalation"
      <4>1. level \in Outcomes
        BY ConstantsAreTyped DEF EffectiveAlertLevel, Outcomes
      <4> QED
        BY <4>1 DEF FirstStep, Outcomes
    <3>3. A' = A + One(first = "recordDigest")
      BY <1>1, <2>4, <3>2 DEF A, One
    <3> HIDE DEF first
    <3>4. /\ X \in Nat /\ X' \in Nat /\ Y \in Nat /\ Y' \in Nat
          /\ X' + One(task[w].at = "recordDigest") = X + One(first = "recordDigest")
          /\ Y' + One(task[w].at = "recordEscalation") = Y + One(first = "recordEscalation")
      BY <1>3, <3>1
    <3>5. One(task[w].at = "recordDigest") = 0 /\ One(task[w].at = "recordEscalation") = 0
          /\ One(first = "recordEscalation") = 0 /\ One(first = "recordDigest") \in Nat
      BY <2>1, <3>2 DEF One
    <3>6. A \in Nat /\ G \in Nat /\ P \in Nat /\ rollup \in Nat
      BY <1>1
    <3>7. X' = X + One(first = "recordDigest") /\ Y' = Y
      BY <3>4, <3>5
    <3>8. A' - G' - X' = A - G - X
      BY <2>2, <3>3, <3>4, <3>5, <3>6, <3>7
    <3>9. P' - rollup' - Y' = P - rollup - Y
      BY <2>1, <2>2, <3>7
    <3> QED
      BY <1>5, <2>1, <3>8, <3>9
  <2> QED
    BY <2>1, <2>3, <2>4
<1>7. ASSUME NEW w \in Workers, WorkerStep(w) PROVE RollupInv'
  <2> DEFINE f == task[w].flow
  <2>1. f \in Flows
    <3>1. task[w].at # "idle"
      BY <1>7 DEF WorkerStep, At, ClaimPage, PostAlert, PostPager, CountSeed, CountIncr,
                  CountReseed, CountReset, RecordEscalation, ClaimWarn, PostWarn, RecordDigest
    <3> QED
      BY <3>1, BusyTasks
  <2>2. CASE CountReset(w)
    <3>1. task[w].at = "countReset" /\ Goto(w, "recordEscalation")
      BY <2>2 DEF CountReset, At
    <3>2. X' = X /\ Y' = Y + 1 /\ X \in Nat /\ Y \in Nat
      BY <1>3, <1>4, <3>1 DEF One, Steps
    <3>3. /\ A' = A /\ G' = G /\ P' = P + 1 /\ rollup' = rollup /\ crashes' = crashes
          /\ swallowed' = swallowed
      BY <1>1, <2>1, <2>2 DEF CountReset, A, G, P
    <3> QED
      BY <1>1, <1>5, <3>2, <3>3
  <2>3. CASE RecordEscalation(w)
    <3>1. task[w].at = "recordEscalation" /\ Goto(w, "claimPage")
      BY <2>3 DEF RecordEscalation, At
    <3>2. X' = X /\ Y' = Y - 1 /\ X \in Nat /\ Y \in Nat
      BY <1>3, <1>4, <3>1 DEF One, Steps
    <3>3. /\ A' = A /\ G' = G /\ P' = P /\ rollup' = rollup + 1 /\ crashes' = crashes
          /\ swallowed' = swallowed
      BY <2>3 DEF RecordEscalation, A, G, P
    <3> QED
      BY <1>1, <1>5, <3>2, <3>3
  <2>4. CASE RecordDigest(w)
    <3>1. task[w].at = "recordDigest" /\ Return(w)
      BY <2>4 DEF RecordDigest, At
    <3>2. X' = X - 1 /\ Y' = Y /\ X \in Nat /\ Y \in Nat
      BY <1>3, <1>4, <3>1 DEF One, Steps
    <3>3. /\ A' = A /\ G' = G + 1 /\ P' = P /\ rollup' = rollup /\ crashes' = crashes
          /\ swallowed' = swallowed
      BY <1>1, <2>1, <2>4 DEF RecordDigest, A, G, P
    <3> QED
      BY <1>1, <1>5, <3>2, <3>3
  <2>5. CASE ~CountReset(w) /\ ~RecordEscalation(w) /\ ~RecordDigest(w)
    <3>1. UNCHANGED <<acceptables, digest, promotions, rollup, crashes, swallowed>>
      BY <1>7, <2>5 DEF WorkerStep, ClaimPage, PostAlert, PostPager, CountSeed, CountIncr,
                        CountReseed, ClaimWarn, PostWarn
    <3>2. \E there \in Steps \ {"recordEscalation", "recordDigest"} :
            Goto(w, there) \/ (Return(w) /\ there = "idle")
      BY <1>7, <2>5 DEF WorkerStep, ClaimPage, PostAlert, PostPager, CountSeed, CountIncr,
                        CountReseed, ClaimWarn, PostWarn, AfterCount, Steps
    <3>3. task[w].at \notin {"recordEscalation", "recordDigest"}
      BY <1>7, <2>5 DEF WorkerStep, ClaimPage, PostAlert, PostPager, CountSeed, CountIncr,
                        CountReseed, ClaimWarn, PostWarn, At
    <3>4. X' = X /\ Y' = Y
      BY <1>3, <1>4, <3>2, <3>3 DEF One
    <3>5. A' = A /\ G' = G /\ P' = P
      BY <3>1 DEF A, G, P
    <3> QED
      BY <1>5, <3>1, <3>4, <3>5
  <2> QED
    BY <2>2, <2>3, <2>4, <2>5
\* A count in hand is dropped, and a kill or a failed upsert accounts for it.
<1>8. ASSUME NEW w \in Workers, NEW there \in Steps \ {"recordEscalation", "recordDigest"},
             Goto(w, there) \/ (Return(w) /\ there = "idle"),
             crashes' + swallowed' = crashes + swallowed + 1,
             UNCHANGED <<acceptables, digest, promotions, rollup>>
      PROVE  RollupInv'
  <2>2. A' = A /\ G' = G /\ P' = P
    BY <1>8 DEF A, G, P
  <2>3. /\ X \in Nat /\ X' \in Nat /\ Y \in Nat /\ Y' \in Nat
        /\ X' + One(task[w].at = "recordDigest") = X
        /\ Y' + One(task[w].at = "recordEscalation") = Y
    <3>1. One(there = "recordDigest") = 0 /\ One(there = "recordEscalation") = 0
      BY <1>8 DEF One
    <3>2. task'[w].at = there /\ \A v \in Workers \ {w} : task'[v] = task[v]
      BY <1>4, <1>8
    <3> QED
      BY <1>3, <3>1, <3>2
  <2>4. /\ One(task[w].at = "recordDigest") \in {0, 1}
        /\ One(task[w].at = "recordEscalation") \in {0, 1}
        /\ One(task[w].at = "recordDigest") + One(task[w].at = "recordEscalation") <= 1
    BY DEF One
  <2>5. /\ A' - G' - X' = (A - G - X) + One(task[w].at = "recordDigest")
        /\ P' - rollup' - Y' = (P - rollup - Y) + One(task[w].at = "recordEscalation")
    BY <1>1, <1>8, <2>2, <2>3, <2>4
  <2>6. /\ A' - G' - X' >= 0 /\ P' - rollup' - Y' >= 0
        /\ (A' - G' - X') + (P' - rollup' - Y') <= crashes' + swallowed'
    BY <1>1, <1>2, <1>8, <2>3, <2>4, <2>5 DEF A, G, P, X, Y
  <2> QED
    BY <2>6 DEF RollupInv, DigestGap, RollupGap, A, G, P, X, Y
<1>9. ASSUME NEW w \in Workers, UpsertFails(w) \/ Crash(w) PROVE RollupInv'
  <2>1. PICK there \in Steps \ {"recordEscalation", "recordDigest"} :
          Goto(w, there) \/ (Return(w) /\ there = "idle")
    BY <1>9 DEF UpsertFails, Crash, Steps
  <2>2. /\ crashes' + swallowed' = crashes + swallowed + 1
        /\ UNCHANGED <<acceptables, digest, promotions, rollup>>
    BY <1>1, <1>9 DEF UpsertFails, Crash
  <2> QED
    BY <1>8, <2>1, <2>2
<1>10. CASE Tick \/ UNCHANGED vars
  <2>1. UNCHANGED <<task, acceptables, digest, promotions, rollup, crashes, swallowed>>
    BY <1>10 DEF Tick, history, vars
  <2>2. A' = A /\ G' = G /\ P' = P /\ X' = X /\ Y' = Y
    BY <2>1 DEF A, G, P, X, Y, InHand, At
  <2> QED
    BY <1>5, <2>1, <2>2
<1> QED
  BY <1>6, <1>7, <1>9, <1>10 DEF Next

\* The daily rollups count nothing twice, and lack what workers have in hand and at
\* most one count for every killed worker and every upsert that failed.
THEOREM RollupsHold == Spec => []RollupsExact
<1>1. RollupInv => RollupsExact
  BY DEF RollupInv, RollupsExact, DigestGap, RollupGap, Total
<1> QED
  BY <1>1, RollupInit, RollupNext, RoutingTypes, PTL DEF Spec
=============================================================================
