---------------------------- MODULE Persistence ----------------------------
(***************************************************************************)
(* Concurrent calls of persist_matches and persist_egress_matches          *)
(* (wiregraph_apps/detection/persistence.py) of one tenant: the allowlist  *)
(* split, one database transaction that inserts, classifies and counts,    *)
(* and the signals sent after it.                                          *)
(*                                                                         *)
(* The database is PostgreSQL at READ COMMITTED: a statement sees          *)
(* committed rows and those of its own transaction; inserting a unique key *)
(* or updating a row another open transaction wrote waits for it; a cycle  *)
(* of waits is broken by failing one statement; a foreign key is checked   *)
(* at commit.  A statement that failed aborts its transaction: the next    *)
(* one raises, and leaving atomic() rolls back without an exception.       *)
(* The cached rule list is any one that was current since the last refresh *)
(* (module RuleCache is about how long that may be).                       *)
(***************************************************************************)
EXTENDS Classifier, AllowlistEngine, Sequences

CONSTANTS
  Workers,        \* request threads and Celery processes
  Assets,         \* asset names the detectors report
  Sensitivity,    \* their sensitivity levels
  Sink,           \* the ExternalService the calls are about, as a sink
  Endpoint, Host, \* where the matches were found, and that service's domain
  LLMMode,        \* LLM_POLICY
  ShadowMode,     \* SHADOW_MODE
  Rules,          \* AllowlistRule rows an operator may create
  NoRule,
  Kinds,          \* "request": inbound scan, no service; "task": the Presidio
                  \* task, with the service; "egress": an outbound call
  Batches,        \* the match lists of a call, as sequences of asset names
  MaxCalls,       \* bound: calls in a behaviour
  MaxRuleChanges, \* bound: rules created or deleted in a behaviour
  MaxFailures     \* bound: statements, receivers and workers that fail by themselves

ASSUME ConstantsAssumption ==
  /\ Sensitivity \in [Assets -> Sensitivities]
  /\ NoRule \notin Rules
  /\ ShadowMode \in BOOLEAN
  /\ Kinds \subseteq {"request", "task", "egress"}
  /\ Batches \subseteq Seq(Assets) /\ \A batch \in Batches : Len(batch) \in {1, 2}
  /\ MaxCalls \in Nat /\ MaxRuleChanges \in Nat /\ MaxFailures \in Nat

VARIABLES
  rules,        \* committed AllowlistRule rows
  cachedRules,  \* the rule list _load_rules returns
  assets,       \* names of the committed DataAsset rows
  ledger,       \* committed DataEvent rows in commit order
  counter,      \* ShadowDecisionCounter.count of the day, by outcome
  call,         \* call[w]: the call worker w is in
  calls, ruleChanges, failures,
  \* History.
  alerted,      \* <<call, n>>: event_classified was sent for its n-th row
  announced,    \* <<call, asset>>: new_data_asset_discovered was sent
  phantoms,     \* calls rolled back without an exception
  interrupted   \* calls whose signals stopped half-way

db == <<rules, assets, ledger, counter>>
bounds == <<calls, ruleChanges, failures>>
history == <<alerted, announced, phantoms, interrupted>>
vars == <<db, cachedRules, call, bounds, history>>

-----------------------------------------------------------------------------
\* A row: how it got its outcome, "default" being the field's default (not yet
\* decided, or its classifier raised); since: rows committed when its call
\* began; counted: its shadow counter was incremented.
Rows == [call : Nat, n : Nat, asset : Assets, service : BOOLEAN,
         rule : Rules \cup {NoRule}, outcome : Outcomes, new : BOOLEAN, since : Nat, counted : BOOLEAN,
         how : {"default", "allowlisted", "classified"}]

Items == [asset : Assets, rule : Rules \cup {NoRule}]

TransactionSteps == {"insert", "decide", "record", "commit"}

Idle == [at |-> "idle", id |-> 0, kind |-> "egress", todo |-> <<>>, rows |-> <<>>,
         next |-> 0, made |-> <<>>, broken |-> FALSE, since |-> 0]

Calls == [at : {"idle", "notify"} \cup TransactionSteps, id : Nat,
          kind : {"request", "task", "egress"}, todo : Seq(Items), rows : Seq(Rows),
          next : Nat, made : Seq(Assets), broken : BOOLEAN, since : Nat]

TypeOK ==
  /\ rules \subseteq Rules
  /\ cachedRules \subseteq Rules
  /\ assets \subseteq Assets
  /\ ledger \in Seq(Rows)
  /\ counter \in [Outcomes -> Nat]
  /\ call \in [Workers -> Calls]
  /\ calls \in Nat
  /\ ruleChanges \in Nat
  /\ failures \in Nat
  /\ alerted \subseteq Nat \X Nat
  /\ announced \subseteq Nat \X Assets
  /\ phantoms \subseteq Nat
  /\ interrupted \subseteq Nat

Init ==
  /\ rules \in SUBSET Rules
  /\ cachedRules = rules
  /\ assets = {}
  /\ ledger = <<>>
  /\ counter = [o \in Outcomes |-> 0]
  /\ call = [w \in Workers |-> Idle]
  /\ calls = 0
  /\ ruleChanges = 0
  /\ failures = 0
  /\ alerted = {}
  /\ announced = {}
  /\ phantoms = {}
  /\ interrupted = {}

-----------------------------------------------------------------------------
At(w, step) == call[w].at = step
InTransaction(w) == call[w].at \in TransactionSteps
SetCall(w, c) == call' = [call EXCEPT ![w] = c]
Row(w) == call[w].rows[call[w].next]
Members(seq) == {seq[i] : i \in DOMAIN seq}

\* Worker v's open transaction has inserted asset a, or counted outcome o.
HoldsAsset(v, a) == InTransaction(v) /\ a \in Members(call[v].made)
HoldsCounter(v, o) ==
  /\ InTransaction(v)
  /\ \E i \in DOMAIN call[v].rows : call[v].rows[i].counted /\ call[v].rows[i].outcome = o

\* Worker w's next statement waits for worker v's transaction to end.
Waits(w, v) ==
  /\ v # w /\ ~call[w].broken
  /\ \/ At(w, "insert") /\ HoldsAsset(v, Head(call[w].todo).asset)
     \/ At(w, "record") /\ HoldsCounter(v, Row(w).outcome)

Blocked(w) == \E v \in Workers : Waits(w, v)

Deadlocked(w) ==
  \E S \in SUBSET Workers : w \in S /\ \A v \in S : \E u \in S : Waits(v, u)

\* partition_matches for one match: the item to persist, none if it is dropped.
ItemsOf(asset, found) ==
  IF found = {} THEN {<<[asset |-> asset, rule |-> NoRule]>>}
  ELSE {IF IsBlank(r) THEN <<>> ELSE <<[asset |-> asset, rule |-> r]>> : r \in found}

FoundFor(asset, kind) ==
  FindMatchingRule(cachedRules, {}, asset, Endpoint,
                   IF kind = "request" THEN Blank ELSE Host)

\* The items of a batch, of which its two matches have at most one each: the
\* unmatched first, then the allowlisted ones.
Ordered(a, b) ==
  IF a # <<>> /\ b # <<>> /\ Head(a).rule # NoRule /\ Head(b).rule = NoRule
  THEN b \o a
  ELSE a \o b

\* persist_matches coalesces those of an asset.
Plans(batch, kind) ==
  LET of(n) == ItemsOf(batch[n], FoundFor(batch[n], kind))
  IN  IF Len(batch) = 1 \/ (kind # "egress" /\ batch[1] = batch[2])
      THEN of(1)
      ELSE {Ordered(a, b) : a \in of(1), b \in of(2)}

\* The split, then atomic() is entered; nothing happens if all was dropped.
Begin(w, kind, batch) ==
  /\ At(w, "idle")
  /\ calls < MaxCalls
  /\ calls' = calls + 1
  /\ \E todo \in Plans(batch, kind) :
       IF todo = <<>> THEN UNCHANGED call
       ELSE SetCall(w, [Idle EXCEPT !.at = "insert", !.id = calls', !.kind = kind,
                                    !.todo = todo, !.since = Len(ledger)])
  /\ UNCHANGED <<db, cachedRules, ruleChanges, failures, history>>

\* An exception leaves atomic(), or the worker is killed inside it.
Rollback(w) ==
  /\ SetCall(w, Idle)
  /\ UNCHANGED <<db, cachedRules, calls, ruleChanges, history>>

\* The row of item as the nth of call c, before it is decided.
NewRow(c, item) ==
  [call |-> c.id, n |-> Len(c.rows) + 1, asset |-> item.asset,
   service |-> c.kind # "request", rule |-> item.rule, outcome |-> "expected",
   new |-> FALSE, since |-> c.since, counted |-> FALSE, how |-> "default"]

\* Call c after the asset and the event of its next item are inserted.
\* persist_matches inserts all events and then decides them in order; the egress
\* path decides each one before it inserts the next.
Inserted(c) ==
  LET asset == Head(c.todo).asset
      each == c.kind = "egress"
  IN  [c EXCEPT !.todo = Tail(@),
                !.rows = Append(@, NewRow(c, Head(c.todo))),
                !.made = IF asset \in assets \cup Members(@) THEN @ ELSE Append(@, asset),
                !.next = IF each THEN @ + 1 ELSE 1,
                !.at = IF each \/ Len(c.todo) = 1 THEN "decide" ELSE "insert"]

\* Mutant: the asset's existence is checked first and then trusted.
InsertUnlocked(w) ==
  /\ At(w, "insert") /\ ~call[w].broken
  /\ SetCall(w, Inserted(call[w]))
  /\ UNCHANGED <<db, cachedRules, bounds, history>>

\* get_or_create of the asset, and the insert of its event.
Insert(w) ==
  /\ At(w, "insert") /\ ~call[w].broken /\ ~Blocked(w)
  /\ SetCall(w, Inserted(call[w]))
  /\ UNCHANGED <<db, cachedRules, bounds, history>>

\* Where a call goes on when row next is done.
NextRow(c) ==
  IF c.kind = "egress"
  THEN [c EXCEPT !.at = IF c.todo = <<>> THEN "commit" ELSE "insert"]
  ELSE IF c.next < Len(c.rows) THEN [c EXCEPT !.at = "decide", !.next = @ + 1]
  ELSE [c EXCEPT !.at = "commit"]

\* Mutant: the event's own row counts as history.
IsNewFlowOwnRow(w) ==
  LET history_of(row) == row.asset = Row(w).asset /\ row.service
  IN  /\ Row(w).service
      /\ ~\E i \in DOMAIN ledger : history_of(ledger[i])
      /\ ~\E i \in DOMAIN call[w].rows : history_of(call[w].rows[i])

\* Mutant: the row is excluded by position, and with it the latest one.
IsNewFlowSkipsLast(w) ==
  LET history_of(row) == row.asset = Row(w).asset /\ row.service
  IN  /\ Row(w).service
      /\ ~\E i \in DOMAIN ledger : i < Len(ledger) /\ history_of(ledger[i])
      /\ ~\E i \in DOMAIN call[w].rows : i # call[w].next /\ history_of(call[w].rows[i])

\* is_new_flow_for_event: no other visible row of the asset and the service.
IsNewFlow(w) ==
  LET history_of(row) == row.asset = Row(w).asset /\ row.service
  IN  /\ Row(w).service
      /\ ~\E i \in DOMAIN ledger : history_of(ledger[i])
      /\ ~\E i \in DOMAIN call[w].rows : i # call[w].next /\ history_of(call[w].rows[i])

\* classify_for_event, which loads the rules a second time.
Decision(w) ==
  IF ~Row(w).service THEN "expected"
  ELSE Classify([name |-> Row(w).asset, sensitivity |-> Sensitivity[Row(w).asset]],
                Sink, FoundFor(Row(w).asset, call[w].kind) # {}, LLMMode, IsNewFlow(w))

\* The outcome of the next row: "expected" for an allowlisted one.
Decide(w) ==
  LET c == call[w]
      decided == IF Row(w).rule # NoRule
                 THEN [Row(w) EXCEPT !.how = "allowlisted"]
                 ELSE [Row(w) EXCEPT !.how = "classified", !.outcome = Decision(w),
                                     !.new = IsNewFlow(w)]
  IN  /\ At(w, "decide")
      /\ c.broken => Row(w).rule # NoRule
      /\ SetCall(w, [c EXCEPT !.rows[c.next] = decided, !.at = "record"])
      /\ UNCHANGED <<db, cachedRules, bounds, history>>

\* Mutant: the outcome is cleared first.
DecideFailsBlank(w) ==
  LET c == call[w]
  IN  /\ At(w, "decide") /\ Row(w).rule = NoRule
      /\ SetCall(w, NextRow([c EXCEPT !.rows[c.next].outcome = ""]))
      /\ UNCHANGED <<db, cachedRules, calls, ruleChanges, history>>

\* The classifier raises (a failed cache or database call): the exception is
\* logged and the row is left as it was inserted, without a shadow count.  A
\* database error also aborts the transaction.
DecideFails(w) ==
  LET c == call[w]
  IN  /\ At(w, "decide") /\ Row(w).rule = NoRule
      /\ \E broken \in BOOLEAN : SetCall(w, NextRow([c EXCEPT !.broken = @ \/ broken]))
      /\ UNCHANGED <<db, cachedRules, calls, ruleChanges, history>>

\* apply_shadow_decision: update_shadow_counter in the same transaction; and the
\* UPDATE of the event (bulk_update stands with the commit).
Record(w) ==
  LET c == call[w]
  IN  /\ At(w, "record") /\ ~c.broken /\ ~Blocked(w)
      /\ SetCall(w, NextRow([c EXCEPT !.rows[c.next].counted = ShadowMode]))
      /\ UNCHANGED <<db, cachedRules, bounds, history>>

\* Either statement fails.  apply_shadow_decision logs the counter's failure, but
\* the UPDATE that follows it raises too: inside the egress path's try for a
\* classified row (logged again), outside of it for an allowlisted one.
RecordFails(w) ==
  LET c == call[w]
  IN  /\ At(w, "record")
      /\ ShadowMode \/ c.kind = "egress"
      /\ SetCall(w, IF c.kind = "egress" /\ Row(w).rule # NoRule THEN Idle
                    ELSE NextRow([c EXCEPT !.broken = TRUE]))
      /\ UNCHANGED <<db, cachedRules, calls, ruleChanges, history>>

\* The counter of the next row's outcome is yet to be created: neither a committed
\* transaction nor this one has counted it.
CounterMissing(w) == counter[Row(w).outcome] = 0 /\ ~HoldsCounter(w, Row(w).outcome)

\* Mutant: the update of a counter that is there has a savepoint too.
CountLostLater(w) ==
  LET c == call[w]
  IN  /\ At(w, "record") /\ ~c.broken /\ ShadowMode
      /\ SetCall(w, NextRow(c))
      /\ UNCHANGED <<db, cachedRules, calls, ruleChanges, history>>

\* get_or_create inserts the first counter of an outcome in a savepoint of its own:
\* if that insert fails, apply_shadow_decision logs it and the transaction goes on
\* without the count.
CountLost(w) ==
  LET c == call[w]
  IN  /\ At(w, "record") /\ ~c.broken /\ ShadowMode /\ CounterMissing(w)
      /\ SetCall(w, NextRow(c))
      /\ UNCHANGED <<db, cachedRules, calls, ruleChanges, history>>

\* Mutant: the insert is tried again in the same transaction.
InsertFailsRetries(w) == At(w, "insert") /\ UNCHANGED vars

\* A failed insert is not caught, nor is a kill of the worker.
InsertFails(w) == At(w, "insert") /\ Rollback(w)
Killed(w)      == InTransaction(w) /\ Rollback(w)

\* The deadlock detector fails one statement of a cycle of waits: of the counter,
\* the insert while it is missing.
DeadlockVictim(w) ==
  /\ Deadlocked(w)
  /\ \/ InsertFails(w)
     \/ At(w, "record") /\ IF CounterMissing(w) THEN CountLost(w) ELSE RecordFails(w)

Counted(rows, o) ==
  Cardinality({i \in DOMAIN rows : rows[i].counted /\ rows[i].outcome = o})

Storable(c) == \A i \in DOMAIN c.rows : c.rows[i].rule \in rules \cup {NoRule}

\* Mutant: a row that cannot be stored is skipped (ignore_conflicts).
CommitSkips(w) ==
  LET c == call[w]
      kept == SelectSeq(c.rows, LAMBDA row : row.rule \in rules \cup {NoRule})
  IN  /\ At(w, "commit") /\ ~c.broken
      /\ ledger' = ledger \o kept
      /\ assets' = assets \cup Members(c.made)
      /\ counter' = [o \in Outcomes |-> counter[o] + Counted(kept, o)]
      /\ SetCall(w, [c EXCEPT !.at = "notify"])
      /\ UNCHANGED <<rules, cachedRules, bounds, history>>

Commit(w) ==
  LET c == call[w]
  IN  /\ At(w, "commit") /\ ~c.broken /\ Storable(c)
      /\ ledger' = ledger \o c.rows
      /\ assets' = assets \cup Members(c.made)
      /\ counter' = [o \in Outcomes |-> counter[o] + Counted(c.rows, o)]
      /\ SetCall(w, [c EXCEPT !.at = "notify"])
      /\ UNCHANGED <<rules, cachedRules, bounds, history>>

\* The rule of a row was deleted since the list was cached (IntegrityError), or
\* bulk_update finds the transaction aborted: the exception goes to the caller.
CommitFails(w) ==
  /\ At(w, "commit")
  /\ IF call[w].broken THEN call[w].kind # "egress" ELSE ~Storable(call[w])
  /\ Rollback(w)

\* The egress path has swallowed every error: atomic() rolls back and returns.
SilentRollback(w) ==
  /\ At(w, "commit") /\ call[w].broken /\ call[w].kind = "egress"
  /\ phantoms' = phantoms \cup {call[w].id}
  /\ SetCall(w, [call[w] EXCEPT !.at = "notify"])
  /\ UNCHANGED <<db, cachedRules, bounds, alerted, announced, interrupted>>

\* Mutant: the signals are sent before atomic() is left.
NotifyInside(w) ==
  LET c == call[w]
  IN  /\ \/ At(w, "notify") /\ SetCall(w, Idle)
         \/ At(w, "commit") /\ UNCHANGED call
      /\ announced' = announced \cup {<<c.id, c.made[i]>> : i \in DOMAIN c.made}
      /\ alerted' = alerted \cup {<<c.id, i>> : i \in DOMAIN c.rows}
      /\ UNCHANGED <<db, cachedRules, bounds, phantoms, interrupted>>

\* The first n signals of a call: the new assets, then the rows in order.
Send(c, n) ==
  LET a == Len(c.made)
  IN  /\ announced' = announced \cup {<<c.id, c.made[i]>> : i \in {j \in 1..a : j <= n}}
      /\ alerted' = alerted \cup {<<c.id, i>> : i \in 1..(n - a)}

Notify(w) ==
  /\ At(w, "notify")
  /\ Send(call[w], Len(call[w].made) + Len(call[w].rows))
  /\ SetCall(w, Idle)
  /\ UNCHANGED <<db, cachedRules, bounds, phantoms, interrupted>>

\* A receiver of new_data_asset_discovered, pii_detected or egress_pii_leak
\* raises, or the worker is killed, after n of the signals.
NotifyFails(w) ==
  /\ At(w, "notify")
  /\ \E n \in 0..(Len(call[w].made) + Len(call[w].rows) - 1) : Send(call[w], n)
  /\ interrupted' = interrupted \cup {call[w].id}
  /\ SetCall(w, Idle)
  /\ UNCHANGED <<db, cachedRules, calls, ruleChanges, phantoms>>

-----------------------------------------------------------------------------
CreateRule(r) ==
  /\ r \notin rules /\ ruleChanges < MaxRuleChanges
  /\ rules' = rules \cup {r}
  /\ ruleChanges' = ruleChanges + 1
  /\ UNCHANGED <<assets, ledger, counter, cachedRules, call, calls, failures, history>>

\* DataEvent.allowlist_rule is SET_NULL.
DestroyRule(r) ==
  /\ r \in rules /\ ruleChanges < MaxRuleChanges
  /\ rules' = rules \ {r}
  /\ ledger' = [i \in DOMAIN ledger |->
                  IF ledger[i].rule = r THEN [ledger[i] EXCEPT !.rule = NoRule]
                  ELSE ledger[i]]
  /\ ruleChanges' = ruleChanges + 1
  /\ UNCHANGED <<assets, counter, cachedRules, call, calls, failures, history>>

\* The cached list expires or is invalidated, and is loaded again.
RefreshRules ==
  /\ cachedRules' = rules
  /\ UNCHANGED <<db, call, bounds, history>>

\* Failures that follow from the state, and those that come out of the blue.
Consequence(w) ==
  /\ \/ call[w].broken /\ (InsertFails(w) \/ DecideFails(w) \/ RecordFails(w))
     \/ DeadlockVictim(w)
     \/ CommitFails(w)
  /\ UNCHANGED failures

Failure(w) ==
  /\ failures < MaxFailures
  /\ \/ InsertFails(w) \/ DecideFails(w) \/ RecordFails(w) \/ CountLost(w)
     \/ Killed(w) \/ NotifyFails(w)
  /\ failures' = failures + 1

WorkerStep(w) ==
  \/ Insert(w) \/ Decide(w) \/ Record(w)
  \/ Commit(w) \/ SilentRollback(w) \/ Notify(w)
  \/ Consequence(w)

Next ==
  \/ \E w \in Workers :
       \/ \E kind \in Kinds, batch \in Batches : Begin(w, kind, batch)
       \/ WorkerStep(w)
       \/ Failure(w)
  \/ \E r \in Rules : CreateRule(r) \/ DestroyRule(r)
  \/ RefreshRules

\* A thread runs on, and the database ends every statement that does not wait.
Fairness == \A w \in Workers : WF_vars(WorkerStep(w))

Spec == Init /\ [][Next]_vars /\ Fairness

-----------------------------------------------------------------------------
Stored(id) == \E i \in DOMAIN ledger : <<ledger[i].call, ledger[i].n>> = id

\* flow_state.py:22-33 with persistence.py:130-152, 237-263: however calls overlap
\* and abort, the first row that is committed for an asset and a service was
\* classified as first sight, unless a rule silenced it or its classifier failed:
\* no other call's uncommitted row may use up the first sight.
FirstSightFlagged ==
  \A i \in DOMAIN ledger :
    (ledger[i].service /\ ~\E j \in 1..(i - 1) : /\ ledger[j].asset = ledger[i].asset
                                                /\ ledger[j].service)
      => ledger[i].new \/ ledger[i].how # "classified"

\* The same flow is first sight twice only for two calls that overlapped: the
\* earlier row was not yet committed when the later one's call began.
ConcurrentFirstSights ==
  \A j \in DOMAIN ledger : \A i \in 1..(j - 1) :
    (ledger[i].asset = ledger[j].asset /\ ledger[i].new /\ ledger[j].new)
      => ledger[j].since < i /\ ledger[i].call # ledger[j].call

\* persistence.py:141-159, 265-285: an alert stands for a stored row, but for the
\* calls rolled back without an exception, and a stored row is alerted on, but
\* for the calls whose signals a receiver or a kill cut short.
RowsAndAlertsAgree ==
  /\ \A id \in alerted : id[1] \in phantoms \/ Stored(id)
  /\ \A i \in DOMAIN ledger :
       \/ <<ledger[i].call, ledger[i].n>> \in alerted
       \/ ledger[i].call \in interrupted
       \/ \E w \in Workers : At(w, "notify") /\ call[w].id = ledger[i].call

\* persistence.py:88-97, 221-232: of the calls racing to create an asset one
\* announces it, and none announces an asset that is not there (phantoms aside).
DiscoveredOnce ==
  \A x \in announced :
    x[1] \notin phantoms =>
      /\ x[2] \in assets
      /\ \A y \in announced : (y[2] = x[2] /\ y[1] \notin phantoms) => y = x

\* persistence.py:289-308: the shadow rollup agrees with the audit trail row by
\* row: it lives in the same transaction, so no failure separates the two but that
\* of the insert that was to create the counter.  A decided row is left out only if
\* none of its outcome was counted by its own call before it, nor by any call that
\* had committed when its call began.
ShadowCountersExact ==
  ShadowMode =>
    /\ \A o \in Outcomes : counter[o] = Counted(ledger, o)
    /\ \A i \in DOMAIN ledger : ledger[i].how # "default" =>
         \/ ledger[i].counted
         \/ \A j \in 1..(i - 1) : (ledger[j].counted /\ ledger[j].outcome = ledger[i].outcome)
              => ledger[j].call # ledger[i].call /\ ledger[i].since < j

\* persistence.py:2-6, signals.py:55-58: the statements of overlapping calls, their
\* failures and rollbacks come down to whole calls added to an audit log that is
\* never rewritten, each with its assets, its counts and its signals; the calls
\* rolled back without an exception are no part of it.
Entry(row) ==
  [call |-> row.call, n |-> row.n, asset |-> row.asset, service |-> row.service,
   outcome |-> row.outcome, how |-> row.how, new |-> row.new,
   since |-> row.since, counted |-> row.counted]

Due(w) == [call |-> call[w].id, rows |-> Len(call[w].rows), made |-> Members(call[w].made)]

Log == INSTANCE AuditLog WITH
  Counting  <- ShadowMode,
  entries   <- [i \in DOMAIN ledger |-> Entry(ledger[i])],
  owed      <- {Due(w) : w \in {v \in Workers : At(v, "notify") /\ call[v].id \notin phantoms}},
  alerted   <- {x \in alerted : x[1] \notin phantoms},
  announced <- {x \in announced : x[1] \notin phantoms}

KeepsAuditLog == Log!Spec

\* Every call gives its worker back, though calls insert assets and increment
\* counters in the order of their matches and so may wait on each other in a
\* cycle.
CallsReturn == \A w \in Workers : ~At(w, "idle") ~> At(w, "idle")

\* signals.py:55-58, egress/signals.py:22-23: the event a signal carries is "the
\* persisted DataEvent row".
SignalsCarryRows == \A id \in alerted : Stored(id)
=============================================================================
