------------------------- MODULE PersistenceProofs -------------------------
(***************************************************************************)
(* Theorems about concurrent calls of the persistence layer, for any       *)
(* number of workers, any assets, rules and batches.  The argument follows *)
(* a call through its transaction (CallOK: which rows it has, which are    *)
(* decided and counted, what a decision saw), and then relates calls to    *)
(* each other and to what is committed: by their ids, by the assets they   *)
(* hold the unique keys of, and by the signals they owe.  From these the   *)
(* steps come down to those of AuditLog.                                   *)
(***************************************************************************)
EXTENDS Persistence, FiniteSetTheorems, FunctionTheorems, SequenceTheorems, TLAPS

\* A row that was inserted and not decided.
Fresh(row) == row.how = "default" /\ ~row.counted /\ ~row.new

\* Where a call stands.
Placed(c) ==
  /\ c.at = "insert" => c.todo # <<>>
  /\ c.at \in {"decide", "record"} => c.next \in 1..Len(c.rows)
  /\ c.kind = "egress" => c.next = Len(c.rows)
  /\ c.kind # "egress" /\ c.at \in {"decide", "record"} => c.todo = <<>>

\* Its rows bear its id, and what is not decided yet is fresh.
RowIds(c) ==
  \A k \in 1..Len(c.rows) :
    /\ c.rows[k].call = c.id /\ c.rows[k].n = k /\ c.rows[k].since = c.since
    /\ c.rows[k].service = (c.kind # "request")

RowsPlaced(c) ==
  /\ RowIds(c)
  /\ c.kind # "egress" /\ c.at = "insert" => \A k \in 1..Len(c.rows) : Fresh(c.rows[k])
  /\ c.at = "decide" => \A k \in c.next..Len(c.rows) : Fresh(c.rows[k])
  /\ c.at = "record" => /\ \A k \in (c.next + 1)..Len(c.rows) : Fresh(c.rows[k])
                        /\ ~c.rows[c.next].counted /\ c.rows[c.next].how # "default"

\* persist_matches has coalesced the matches of an asset.
Coalesced(c) ==
  c.kind # "egress" =>
    /\ \A j, k \in 1..Len(c.rows) : j # k => c.rows[j].asset # c.rows[k].asset
    /\ \A j, k \in 1..Len(c.todo) : j # k => c.todo[j].asset # c.todo[k].asset
    /\ \A j \in 1..Len(c.rows), k \in 1..Len(c.todo) : c.rows[j].asset # c.todo[k].asset

\* Outcome o was counted by a row up to a place in the ledger.
CountedIn(o, n) == \E i \in 1..n : ledger[i].counted /\ ledger[i].outcome = o

\* The shadow counter was incremented for the rows that are decided, unless there was
\* none: no row of the outcome was counted when the call began, nor in the call.
RowCounted(c, k) ==
  LET row == c.rows[k]
  IN  /\ row.counted => row.how # "default"
      /\ row.how # "default" /\ ~row.counted =>
           /\ ~CountedIn(row.outcome, c.since)
           /\ \A j \in 1..(k - 1) : c.rows[j].counted => c.rows[j].outcome # row.outcome

CountedOK(c) ==
  ShadowMode /\ ~c.broken =>
    \A k \in 1..Len(c.rows) : ~(c.at = "record" /\ k = c.next) => RowCounted(c, k)

\* The history of an asset up to a place in the ledger.
FlowIn(asset, n) == \E i \in 1..n : ledger[i].asset = asset /\ ledger[i].service

\* What a decision saw: a new flow had no row when its call began and none before it
\* in the call; another one had.
SawRight(c) ==
  \A k \in 1..Len(c.rows) :
    LET row == c.rows[k]
        before == \E j \in 1..(k - 1) : c.rows[j].asset = row.asset
    IN  /\ row.new => /\ row.service /\ row.how = "classified"
                      /\ ~FlowIn(row.asset, c.since) /\ ~before
        /\ row.how = "classified" /\ row.service /\ ~row.new =>
             FlowIn(row.asset, Len(ledger)) \/ before

CallOK(c) ==
  c.at # "idle" =>
    /\ c.id \in 1..calls /\ c.since <= Len(ledger)
    /\ RowsPlaced(c) /\ Coalesced(c) /\ CountedOK(c) /\ SawRight(c)
    /\ c.at # "notify" => Placed(c)

\* What was counted has a counter.
CountersSeen == \A o \in Outcomes : counter[o] = 0 => ~CountedIn(o, Len(ledger))

CallsInv == TypeOK /\ CountersSeen /\ \A w \in Workers : CallOK(call[w])

-----------------------------------------------------------------------------
LEMMA FoundRules ==
  ASSUME TypeOK, NEW asset, NEW kind
  PROVE  FoundFor(asset, kind) \subseteq Rules
BY DEF TypeOK, FoundFor, FindMatchingRule, MostSpecific

LEMMA ItemTypes ==
  ASSUME TypeOK, NEW asset \in Assets, NEW kind, NEW items \in ItemsOf(asset, FoundFor(asset, kind))
  PROVE  /\ items \in Seq(Items)
         /\ items = <<>> \/ (Len(items) = 1 /\ items[1].asset = asset)
<1>1. CASE items = <<>>
  BY <1>1
<1>2. CASE items # <<>>
  <2>1. PICK rule \in Rules \cup {NoRule} : items = <<[asset |-> asset, rule |-> rule]>>
    BY <1>2, FoundRules DEF ItemsOf
  <2>2. [asset |-> asset, rule |-> rule] \in Items
    BY DEF Items
  <2> QED  BY <2>1, <2>2
<1> QED  BY <1>1, <1>2

LEMMA PairOf ==
  ASSUME NEW S, NEW a \in Seq(S), NEW b \in Seq(S), Len(a) = 1, Len(b) = 1
  PROVE  Len(a \o b) = 2 /\ (a \o b)[1] = a[1] /\ (a \o b)[2] = b[1]
<1>1. /\ Len(a \o b) = Len(a) + Len(b)
      /\ \A i \in 1..Len(a) + Len(b) : (a \o b)[i] = IF i <= Len(a) THEN a[i] ELSE b[i - Len(a)]
  BY ConcatProperties, Zenon
<1>2. 1 \in 1..Len(a) + Len(b) /\ 2 \in 1..Len(a) + Len(b)
  OBVIOUS
<1>3. (a \o b)[1] = IF 1 <= Len(a) THEN a[1] ELSE b[1 - Len(a)]
  BY <1>1, <1>2
<1>4. (a \o b)[2] = IF 2 <= Len(a) THEN a[2] ELSE b[2 - Len(a)]
  BY <1>1, <1>2
<1> QED  BY <1>1, <1>3, <1>4

\* What a call has to do.
LEMMA PlanOK ==
  ASSUME TypeOK, NEW batch \in Batches, NEW kind \in Kinds, NEW todo \in Plans(batch, kind)
  PROVE  /\ todo \in Seq(Items)
         /\ kind # "egress" =>
              \A j, k \in 1..Len(todo) : j # k => todo[j].asset # todo[k].asset
<1>1. batch \in Seq(Assets) /\ Len(batch) \in {1, 2}
  BY ConstantsAssumption
<1>2. batch[1] \in Assets /\ (Len(batch) = 2 => batch[2] \in Assets)
  BY <1>1
<1>3. CASE Len(batch) = 1 \/ (kind # "egress" /\ batch[1] = batch[2])
  <2>1. todo \in ItemsOf(batch[1], FoundFor(batch[1], kind))
    BY <1>3 DEF Plans
  <2>2. todo \in Seq(Items) /\ (todo = <<>> \/ Len(todo) = 1)
    BY <1>2, <2>1, ItemTypes
  <2> QED  BY <2>2
<1>4. CASE ~(Len(batch) = 1 \/ (kind # "egress" /\ batch[1] = batch[2]))
  <2>1. PICK a \in ItemsOf(batch[1], FoundFor(batch[1], kind)),
             b \in ItemsOf(batch[2], FoundFor(batch[2], kind)) : todo = Ordered(a, b)
    BY <1>4 DEF Plans
  <2>2. /\ a \in Seq(Items) /\ (a = <<>> \/ (Len(a) = 1 /\ a[1].asset = batch[1]))
        /\ b \in Seq(Items) /\ (b = <<>> \/ (Len(b) = 1 /\ b[1].asset = batch[2]))
    BY <1>1, <1>2, <1>4, <2>1, ItemTypes
  <2>3. todo = a \o b \/ todo = b \o a
    BY <2>1 DEF Ordered
  <2>4. todo \in Seq(Items)
    BY <2>2, <2>3
  <2>5. kind # "egress" => batch[1] # batch[2]
    BY <1>4
  <2>6. ASSUME kind # "egress" PROVE \A j, k \in 1..Len(todo) : j # k => todo[j].asset # todo[k].asset
    <3>1. CASE a = <<>> \/ b = <<>>
      <4>1. todo = a \/ todo = b
        BY <2>2, <2>3, <3>1
      <4>2. Len(todo) \in {0, 1}
        BY <2>2, <4>1
      <4> QED  BY <4>2
    <3>2. CASE a # <<>> /\ b # <<>>
      <4>1. Len(todo) = 2 /\ \/ todo[1] = a[1] /\ todo[2] = b[1]
                             \/ todo[1] = b[1] /\ todo[2] = a[1]
        <5>1. Len(a) = 1 /\ Len(b) = 1
          BY <2>2, <3>2
        <5>2. CASE todo = a \o b
          BY <2>2, <5>1, <5>2, PairOf
        <5>3. CASE todo = b \o a
          BY <2>2, <5>1, <5>3, PairOf
        <5> QED  BY <2>3, <5>2, <5>3
      <4>2. todo[1].asset # todo[2].asset
        BY <2>2, <2>5, <2>6, <3>2, <4>1
      <4> QED  BY <4>1, <4>2
    <3> QED  BY <3>1, <3>2
  <2> QED  BY <2>4, <2>6
<1> QED  BY <1>3, <1>4

-----------------------------------------------------------------------------
\* The result of an insert.
LEMMA InsertedFields ==
  ASSUME TypeOK, NEW c \in Calls, c.todo # <<>>
  PROVE  LET d == Inserted(c)
             row == NewRow(c, Head(c.todo))
         IN  /\ d \in Calls /\ row \in Rows
             /\ d.id = c.id /\ d.kind = c.kind /\ d.broken = c.broken /\ d.since = c.since
             /\ d.todo = Tail(c.todo) /\ d.rows = Append(c.rows, row)
             /\ d.made = (IF Head(c.todo).asset \in assets \cup Members(c.made) THEN c.made
                          ELSE Append(c.made, Head(c.todo).asset))
             /\ d.next = (IF c.kind = "egress" THEN c.next + 1 ELSE 1)
             /\ d.at = (IF c.kind = "egress" \/ Len(c.todo) = 1 THEN "decide" ELSE "insert")
<1> DEFINE row == NewRow(c, Head(c.todo))
           todo == Tail(c.todo)
           rows == Append(c.rows, row)
           made == IF Head(c.todo).asset \in assets \cup Members(c.made) THEN c.made
                   ELSE Append(c.made, Head(c.todo).asset)
           next == IF c.kind = "egress" THEN c.next + 1 ELSE 1
           at == IF c.kind = "egress" \/ Len(c.todo) = 1 THEN "decide" ELSE "insert"
<1>1. /\ c.todo \in Seq(Items) /\ c.rows \in Seq(Rows) /\ c.made \in Seq(Assets) /\ c.next \in Nat
      /\ c.id \in Nat /\ c.since \in Nat /\ c.kind \in {"request", "task", "egress"}
  BY DEF Calls
<1>2. Head(c.todo) \in Items /\ todo \in Seq(Items)
  BY <1>1
<1>3. Head(c.todo).asset \in Assets /\ Head(c.todo).rule \in Rules \cup {NoRule}
  BY <1>2 DEF Items
<1>4. row \in Rows
  <2> DEFINE service == c.kind # "request"
             n == Len(c.rows) + 1
  <2>1. service \in BOOLEAN /\ n \in Nat
    BY <1>1
  <2>2. row = [call |-> c.id, n |-> n, asset |-> Head(c.todo).asset, service |-> service,
               rule |-> Head(c.todo).rule, outcome |-> "expected", new |-> FALSE,
               since |-> c.since, counted |-> FALSE, how |-> "default"]
    BY DEF NewRow
  <2> HIDE DEF service, n, row
  <2> QED  BY <1>1, <1>3, <2>1, <2>2 DEF Rows, Outcomes
<1>5. rows \in Seq(Rows) /\ made \in Seq(Assets) /\ next \in Nat /\ at \in {"decide", "insert"}
  <2> HIDE DEF row
  <2> QED  BY <1>1, <1>3, <1>4
<1>6. Inserted(c) = [c EXCEPT !.todo = todo, !.rows = rows, !.made = made, !.next = next, !.at = at]
  BY <1>1 DEF Inserted, Calls
<1> HIDE DEF row, todo, rows, made, next, at
<1>7. /\ Inserted(c) \in Calls
      /\ Inserted(c).id = c.id /\ Inserted(c).kind = c.kind /\ Inserted(c).broken = c.broken
      /\ Inserted(c).since = c.since /\ Inserted(c).todo = todo /\ Inserted(c).rows = rows
      /\ Inserted(c).made = made /\ Inserted(c).next = next /\ Inserted(c).at = at
  BY <1>2, <1>5, <1>6 DEF Calls, TransactionSteps
<1> QED  BY <1>4, <1>7 DEF row, todo, rows, made, next, at

LEMMA NextRowFields ==
  ASSUME NEW c \in Calls
  PROVE  LET d == NextRow(c)
         IN  /\ d \in Calls
             /\ d.id = c.id /\ d.kind = c.kind /\ d.broken = c.broken /\ d.since = c.since
             /\ d.todo = c.todo /\ d.rows = c.rows /\ d.made = c.made
             /\ \/ /\ c.kind = "egress" /\ d.next = c.next
                   /\ \/ d.at = "commit" /\ c.todo = <<>>
                      \/ d.at = "insert" /\ c.todo # <<>>
                \/ /\ c.kind # "egress" /\ c.next < Len(c.rows)
                   /\ d.at = "decide" /\ d.next = c.next + 1
                \/ /\ c.kind # "egress" /\ ~(c.next < Len(c.rows))
                   /\ d.at = "commit" /\ d.next = c.next
<1> USE DEF Calls, TransactionSteps
<1>1. c.next + 1 \in Nat
  OBVIOUS
<1>2. CASE c.kind = "egress"
  <2> DEFINE at == IF c.todo = <<>> THEN "commit" ELSE "insert"
  <2>1. at \in {"commit", "insert"}
    OBVIOUS
  <2>2. NextRow(c) = [c EXCEPT !.at = at]
    BY <1>2 DEF NextRow
  <2> HIDE DEF at
  <2>3. NextRow(c) \in Calls /\ NextRow(c).at = at
    BY <2>1, <2>2
  <2> QED  BY <1>2, <2>2, <2>3 DEF at
<1>3. CASE c.kind # "egress" /\ c.next < Len(c.rows)
  BY <1>1, <1>3 DEF NextRow
<1>4. CASE c.kind # "egress" /\ ~(c.next < Len(c.rows))
  BY <1>4 DEF NextRow
<1> QED  BY <1>2, <1>3, <1>4

LEMMA DecidedFields ==
  ASSUME NEW c \in Calls, c.next \in 1..Len(c.rows), NEW row \in Rows
  PROVE  LET d == [c EXCEPT !.rows[c.next] = row, !.at = "record"]
         IN  /\ d \in Calls /\ d.at = "record"
             /\ d.id = c.id /\ d.kind = c.kind /\ d.broken = c.broken /\ d.since = c.since
             /\ d.todo = c.todo /\ d.made = c.made /\ d.next = c.next
             /\ d.rows = [c.rows EXCEPT ![c.next] = row]
<1> DEFINE rows == [c.rows EXCEPT ![c.next] = row]
<1>1. c.rows \in Seq(Rows)
  BY DEF Calls
<1>2. rows \in Seq(Rows)
  BY <1>1
<1>3. [c EXCEPT !.rows[c.next] = row, !.at = "record"] = [c EXCEPT !.rows = rows, !.at = "record"]
  BY DEF Calls
<1> HIDE DEF rows
<1>4. LET d == [c EXCEPT !.rows = rows, !.at = "record"]
      IN  /\ d \in Calls /\ d.at = "record"
          /\ d.id = c.id /\ d.kind = c.kind /\ d.broken = c.broken /\ d.since = c.since
          /\ d.todo = c.todo /\ d.made = c.made /\ d.next = c.next
          /\ d.rows = rows
  BY <1>2 DEF Calls, TransactionSteps
<1> QED  BY <1>3, <1>4 DEF rows

\* A row of a call is replaced, or appended.
LEMMA Replaced ==
  ASSUME NEW rows \in Seq(Rows), NEW n \in 1..Len(rows), NEW row
  PROVE  LET after == [rows EXCEPT ![n] = row]
         IN  /\ Len(after) = Len(rows) /\ after[n] = row
             /\ \A k \in 1..Len(rows) : k # n => after[k] = rows[k]
OBVIOUS

LEMMA Appended ==
  ASSUME NEW rows \in Seq(Rows), NEW row \in Rows
  PROVE  LET after == Append(rows, row)
         IN  /\ Len(after) = Len(rows) + 1 /\ after[Len(rows) + 1] = row /\ Len(rows) \in Nat
             /\ \A k \in 1..Len(rows) : after[k] = rows[k]
OBVIOUS

-----------------------------------------------------------------------------
\* A call goes on.
LEMMA InsertedOK ==
  ASSUME TypeOK, NEW c \in Calls, CallOK(c), c.at = "insert", NEW d, d = Inserted(c)
  PROVE  d \in Calls /\ CallOK(d)
<1>1. c.todo # <<>> /\ Placed(c) /\ RowsPlaced(c) /\ Coalesced(c) /\ CountedOK(c) /\ SawRight(c)
  BY DEF CallOK, Placed
<1> DEFINE row == NewRow(c, Head(c.todo))
           n == Len(c.rows)
<1>2. /\ d \in Calls /\ row \in Rows
      /\ d.id = c.id /\ d.kind = c.kind /\ d.broken = c.broken /\ d.since = c.since
      /\ d.todo = Tail(c.todo) /\ d.rows = Append(c.rows, row)
      /\ d.next = (IF c.kind = "egress" THEN c.next + 1 ELSE 1)
      /\ d.at = (IF c.kind = "egress" \/ Len(c.todo) = 1 THEN "decide" ELSE "insert")
  BY <1>1, InsertedFields
<1>3. c.rows \in Seq(Rows) /\ c.todo \in Seq(Items) /\ n \in Nat
  BY DEF Calls
<1>4. /\ row.call = c.id /\ row.n = n + 1 /\ row.asset = Head(c.todo).asset
      /\ row.service = (c.kind # "request") /\ row.since = c.since /\ Fresh(row)
  BY DEF NewRow, Fresh
<1> HIDE DEF row
<1>5. /\ Len(d.rows) = n + 1 /\ d.rows[n + 1] = row
      /\ \A k \in 1..n : d.rows[k] = c.rows[k]
  BY <1>2, <1>3, Appended
<1>6. /\ Len(c.todo) \in Nat \ {0} /\ Len(d.todo) = Len(c.todo) - 1 /\ c.todo[1] = Head(c.todo)
      /\ \A k \in 1..Len(d.todo) : d.todo[k] = c.todo[k + 1] /\ k + 1 \in 1..Len(c.todo)
  BY <1>1, <1>2, <1>3
<1>7. \A k \in 1..(n + 1) : k \in 1..n \/ k = n + 1
  BY <1>3
<1>8. c.kind = "egress" => d.next = n + 1
  BY <1>1, <1>2 DEF Placed
<1>9. Placed(d)
  <2>1. d.at = "decide" => d.next \in 1..(n + 1)
    BY <1>2, <1>3, <1>8
  <2>2. d.at = "insert" => Len(d.todo) # 0
    BY <1>2, <1>6
  <2>3. c.kind # "egress" /\ d.at = "decide" => d.todo = <<>>
    BY <1>2, <1>3, <1>6
  <2>4. d.at \in {"decide", "insert"} /\ d.todo \in Seq(Items) /\ Len(d.rows) = n + 1
    <3>1. Tail(c.todo) \in Seq(Items)
      BY <1>1, <1>3
    <3> QED  BY <1>2, <1>5, <3>1
  <2>5. d.at = "insert" => d.todo # <<>>
    BY <2>2, <2>4
  <2>6. d.kind = c.kind
    BY <1>2
  <2> QED  BY <1>8, <2>1, <2>3, <2>4, <2>5, <2>6 DEF Placed
<1>10. RowsPlaced(d)
  <2>1. \A k \in 1..(n + 1) :
          /\ d.rows[k].call = d.id /\ d.rows[k].n = k /\ d.rows[k].since = d.since
          /\ d.rows[k].service = (d.kind # "request")
    BY <1>1, <1>2, <1>4, <1>5, <1>7 DEF RowsPlaced, RowIds
  <2>2. d.kind # "egress" => \A k \in 1..(n + 1) : Fresh(d.rows[k])
    <3>1. d.kind # "egress" => \A k \in 1..n : Fresh(c.rows[k])
      BY <1>1, <1>2 DEF RowsPlaced, RowIds
    <3> SUFFICES ASSUME d.kind # "egress", NEW k \in 1..(n + 1) PROVE Fresh(d.rows[k])
      OBVIOUS
    <3>2. CASE k \in 1..n
      BY <1>5, <3>1, <3>2
    <3>3. CASE k = n + 1
      BY <1>4, <1>5, <3>3
    <3> QED  BY <1>7, <3>2, <3>3
  <2>3. d.kind = "egress" => \A k \in d.next..(n + 1) : Fresh(d.rows[k])
    <3> SUFFICES ASSUME d.kind = "egress", NEW k \in d.next..(n + 1) PROVE Fresh(d.rows[k])
      OBVIOUS
    <3>1. k = n + 1
      BY <1>2, <1>3, <1>8
    <3> QED  BY <1>4, <1>5, <3>1
  <2>4. d.kind # "egress" => d.next = 1
    BY <1>2
  <2> QED  BY <1>2, <1>5, <2>1, <2>2, <2>3, <2>4 DEF RowsPlaced, RowIds
<1>11. Coalesced(d)
  <2>0. d.kind = c.kind /\ Len(d.rows) = n + 1
    BY <1>2, <1>5
  <2> SUFFICES ASSUME c.kind # "egress" PROVE
        /\ \A j, k \in 1..(n + 1) : j # k => d.rows[j].asset # d.rows[k].asset
        /\ \A j, k \in 1..Len(d.todo) : j # k => d.todo[j].asset # d.todo[k].asset
        /\ \A j \in 1..(n + 1), k \in 1..Len(d.todo) : d.rows[j].asset # d.todo[k].asset
    BY <2>0, Zenon DEF Coalesced
  <2>1. /\ \A j, k \in 1..n : j # k => c.rows[j].asset # c.rows[k].asset
        /\ \A j, k \in 1..Len(c.todo) : j # k => c.todo[j].asset # c.todo[k].asset
        /\ \A j \in 1..n, k \in 1..Len(c.todo) : c.rows[j].asset # c.todo[k].asset
    BY <1>1 DEF Coalesced
  <2>2. row.asset = c.todo[1].asset /\ 1 \in 1..Len(c.todo)
    BY <1>4, <1>6
  <2>3. \A j, k \in 1..(n + 1) : j # k => d.rows[j].asset # d.rows[k].asset
    <3> SUFFICES ASSUME NEW j \in 1..(n + 1), NEW k \in 1..(n + 1), j # k
                 PROVE  d.rows[j].asset # d.rows[k].asset
      OBVIOUS
    <3>1. CASE j \in 1..n /\ k \in 1..n
      BY <1>5, <2>1, <3>1
    <3>2. CASE j = n + 1 /\ k \in 1..n
      BY <1>5, <2>1, <2>2, <3>2
    <3>3. CASE j \in 1..n /\ k = n + 1
      BY <1>5, <2>1, <2>2, <3>3
    <3> QED  BY <1>7, <3>1, <3>2, <3>3
  <2>4. \A j, k \in 1..Len(d.todo) : j # k => d.todo[j].asset # d.todo[k].asset
    <3> SUFFICES ASSUME NEW j \in 1..Len(d.todo), NEW k \in 1..Len(d.todo), j # k
                 PROVE  d.todo[j].asset # d.todo[k].asset
      OBVIOUS
    <3>1. j + 1 # k + 1
      OBVIOUS
    <3> QED  BY <1>6, <2>1, <3>1
  <2>5. \A k \in 1..Len(d.todo) : k + 1 # 1
    OBVIOUS
  <2>6. \A j \in 1..(n + 1), k \in 1..Len(d.todo) : d.rows[j].asset # d.todo[k].asset
    <3> SUFFICES ASSUME NEW j \in 1..(n + 1), NEW k \in 1..Len(d.todo)
                 PROVE  d.rows[j].asset # d.todo[k].asset
      OBVIOUS
    <3>1. d.todo[k] = c.todo[k + 1] /\ k + 1 \in 1..Len(c.todo) /\ k + 1 # 1
      BY <1>6, <2>5
    <3>2. CASE j \in 1..n
      BY <1>5, <2>1, <3>1, <3>2
    <3>3. CASE j = n + 1
      BY <1>5, <2>1, <2>2, <3>1, <3>3
    <3> QED  BY <1>7, <3>2, <3>3
  <2> QED  BY <2>3, <2>4, <2>6
<1>12. CountedOK(d)
  <2> SUFFICES ASSUME ShadowMode, ~d.broken, NEW k \in 1..(n + 1) PROVE RowCounted(d, k)
    BY <1>5 DEF CountedOK
  <2>1. CASE k \in 1..n
    <3>1. RowCounted(c, k)
      BY <1>1, <1>2, <2>1 DEF CountedOK
    <3>2. \A j \in 1..(k - 1) : d.rows[j] = c.rows[j]
      BY <1>3, <1>5, <2>1
    <3> QED  BY <1>2, <1>5, <2>1, <3>1, <3>2 DEF RowCounted
  <2>2. CASE k = n + 1
    BY <1>4, <1>5, <2>2 DEF RowCounted, Fresh
  <2> QED  BY <1>7, <2>1, <2>2
<1>13. SawRight(d)
  <2> SUFFICES ASSUME NEW k \in 1..(n + 1)
               PROVE  LET r == d.rows[k]
                          before == \E j \in 1..(k - 1) : d.rows[j].asset = r.asset
                      IN  /\ r.new => /\ r.service /\ r.how = "classified"
                                        /\ ~FlowIn(r.asset, d.since) /\ ~before
                          /\ r.how = "classified" /\ r.service /\ ~r.new =>
                               FlowIn(r.asset, Len(ledger)) \/ before
    BY <1>5 DEF SawRight
  <2>1. CASE k \in 1..n
    <3>1. \A j \in 1..(k - 1) : d.rows[j] = c.rows[j]
      BY <1>3, <1>5, <2>1
    <3> QED  BY <1>1, <1>2, <1>5, <2>1, <3>1 DEF SawRight
  <2>2. CASE k = n + 1
    BY <1>4, <1>5, <2>2 DEF Fresh
  <2> QED  BY <1>7, <2>1, <2>2
<1> QED  BY <1>2, <1>9, <1>10, <1>11, <1>12, <1>13 DEF CallOK

LEMMA DecidedOK ==
  ASSUME TypeOK, NEW c \in Calls, CallOK(c), c.at = "decide", NEW row \in Rows,
         LET old == c.rows[c.next]
         IN  /\ row.call = old.call /\ row.n = old.n /\ row.asset = old.asset
             /\ row.service = old.service /\ row.since = old.since,
         row.how # "default", ~row.counted, row.new => row.how = "classified",
         row.how = "classified" =>
           (row.new <=> /\ row.service /\ ~FlowIn(row.asset, Len(ledger))
                        /\ ~\E j \in 1..Len(c.rows) : /\ j # c.next /\ c.rows[j].asset = row.asset
                                                      /\ c.rows[j].service),
         NEW d, d = [c EXCEPT !.rows[c.next] = row, !.at = "record"]
  PROVE  d \in Calls /\ CallOK(d)
<1>1. Placed(c) /\ RowsPlaced(c) /\ Coalesced(c) /\ CountedOK(c) /\ SawRight(c)
      /\ c.since <= Len(ledger)
  BY DEF CallOK
<1> DEFINE n == Len(c.rows)
           m == c.next
<1>2. c.rows \in Seq(Rows) /\ n \in Nat /\ m \in 1..n /\ m \in Nat /\ c.since \in Nat
  BY <1>1 DEF Calls, Placed
<1>3. /\ d \in Calls /\ d.at = "record"
      /\ d.id = c.id /\ d.kind = c.kind /\ d.broken = c.broken /\ d.since = c.since
      /\ d.todo = c.todo /\ d.next = m
      /\ d.rows = [c.rows EXCEPT ![m] = row]
  BY <1>2, DecidedFields
<1>4. Len(d.rows) = n /\ d.rows[m] = row /\ \A k \in 1..n : k # m => d.rows[k] = c.rows[k]
  BY <1>2, <1>3, Replaced
<1>5. \A k \in 1..n : /\ d.rows[k].call = c.rows[k].call /\ d.rows[k].n = c.rows[k].n
                      /\ d.rows[k].asset = c.rows[k].asset /\ d.rows[k].service = c.rows[k].service
                      /\ d.rows[k].since = c.rows[k].since
  BY <1>4
<1>6. Placed(d)
  BY <1>1, <1>2, <1>3, <1>4 DEF Placed
<1>7. RowsPlaced(d)
  <2>1. RowIds(d)
    BY <1>1, <1>3, <1>4, <1>5 DEF RowsPlaced, RowIds
  <2>2. \A k \in (m + 1)..n : Fresh(d.rows[k])
    <3> SUFFICES ASSUME NEW k \in (m + 1)..n PROVE Fresh(d.rows[k])
      OBVIOUS
    <3>1. k \in m..n /\ k # m /\ k \in 1..n
      BY <1>2
    <3> QED  BY <1>1, <1>4, <3>1 DEF RowsPlaced
  <2> QED  BY <1>3, <1>4, <2>1, <2>2 DEF RowsPlaced
<1>8. Coalesced(d)
  BY <1>1, <1>3, <1>4, <1>5 DEF Coalesced
<1>9. CountedOK(d)
  <2> SUFFICES ASSUME ShadowMode, ~d.broken, NEW k \in 1..n, k # m PROVE RowCounted(d, k)
    BY <1>3, <1>4 DEF CountedOK
  <2>1. RowCounted(c, k)
    BY <1>1, <1>3 DEF CountedOK
  <2>2. \A j \in 1..(k - 1) : d.rows[j].counted => d.rows[j] = c.rows[j]
    BY <1>2, <1>4
  <2> QED  BY <1>3, <1>4, <2>1, <2>2 DEF RowCounted
<1>10. SawRight(d)
  <2> SUFFICES ASSUME NEW k \in 1..n
               PROVE  LET r == d.rows[k]
                          before == \E j \in 1..(k - 1) : d.rows[j].asset = r.asset
                      IN  /\ r.new => /\ r.service /\ r.how = "classified"
                                        /\ ~FlowIn(r.asset, d.since) /\ ~before
                          /\ r.how = "classified" /\ r.service /\ ~r.new =>
                               FlowIn(r.asset, Len(ledger)) \/ before
    BY <1>4 DEF SawRight
  <2>1. \A j \in 1..(k - 1) : j \in 1..n /\ d.rows[j].asset = c.rows[j].asset
    BY <1>2, <1>5
  <2>2. CASE k # m
    <3>1. d.rows[k] = c.rows[k]
      BY <1>4, <2>2
    <3> QED  BY <1>1, <1>3, <2>1, <3>1 DEF SawRight
  <2>3. CASE k = m
    <3>1. d.rows[k] = row
      BY <1>4, <2>3
    <3>2. \A j \in 1..n : c.rows[j].service = row.service
      BY <1>1, <1>2 DEF RowsPlaced, RowIds
    <3>3. FlowIn(row.asset, c.since) => FlowIn(row.asset, Len(ledger))
      <4>1. Len(ledger) \in Nat
        BY DEF TypeOK
      <4> QED  BY <1>1, <1>2, <4>1 DEF FlowIn
    <3>4. ASSUME row.new PROVE /\ row.service /\ row.how = "classified" /\ ~FlowIn(row.asset, c.since)
                               /\ ~\E j \in 1..(k - 1) : d.rows[j].asset = row.asset
      <4>1. \A j \in 1..(k - 1) : j # m
        BY <1>2, <2>3
      <4> QED  BY <2>1, <3>2, <3>3, <3>4, <4>1
    <3>5. ASSUME row.how = "classified", row.service, ~row.new, ~FlowIn(row.asset, Len(ledger))
          PROVE  \E j \in 1..(k - 1) : d.rows[j].asset = row.asset
      <4>1. PICK j \in 1..n : j # m /\ c.rows[j].asset = row.asset
        BY <3>5
      <4>2. c.kind = "egress"
        BY <1>1, <1>2, <4>1 DEF Coalesced
      <4>3. j \in 1..(k - 1)
        BY <1>1, <1>2, <2>3, <4>1, <4>2 DEF Placed
      <4> QED  BY <2>1, <4>1, <4>3
    <3> QED  BY <1>3, <3>1, <3>4, <3>5
  <2> QED  BY <2>2, <2>3
<1> QED  BY <1>3, <1>6, <1>7, <1>8, <1>9, <1>10 DEF CallOK

\* A row is done, and the call goes on to the next.
LEMMA NextOK ==
  ASSUME TypeOK, NEW c \in Calls, c.at \in {"decide", "record"},
         c.id \in 1..calls, c.since <= Len(ledger),
         Placed(c), RowIds(c), Coalesced(c), SawRight(c),
         \A k \in (c.next + 1)..Len(c.rows) : Fresh(c.rows[k]),
         ShadowMode /\ ~c.broken =>
           \A k \in 1..Len(c.rows) : RowCounted(c, k),
         NEW d, d = NextRow(c)
  PROVE  d \in Calls /\ CallOK(d)
<1>1. /\ d \in Calls
      /\ d.id = c.id /\ d.kind = c.kind /\ d.broken = c.broken /\ d.since = c.since
      /\ d.todo = c.todo /\ d.rows = c.rows
      /\ \/ /\ c.kind = "egress" /\ d.next = c.next
            /\ \/ d.at = "commit" /\ c.todo = <<>>
               \/ d.at = "insert" /\ c.todo # <<>>
         \/ /\ c.kind # "egress" /\ c.next < Len(c.rows)
            /\ d.at = "decide" /\ d.next = c.next + 1
         \/ /\ c.kind # "egress" /\ ~(c.next < Len(c.rows))
            /\ d.at = "commit" /\ d.next = c.next
  BY NextRowFields
<1>2. c.next \in Nat /\ Len(c.rows) \in Nat
  BY DEF Calls
<1>3. Placed(d)
  BY <1>1, <1>2 DEF Placed
<1>4. RowsPlaced(d)
  BY <1>1, <1>2 DEF RowsPlaced, RowIds
<1>5. Coalesced(d) /\ SawRight(d)
  BY <1>1 DEF Coalesced, SawRight
<1>6. CountedOK(d)
  BY <1>1 DEF CountedOK, RowCounted
<1> QED  BY <1>1, <1>3, <1>4, <1>5, <1>6 DEF CallOK

-----------------------------------------------------------------------------
\* What stands for a call stands when others go on.
SameButRule(r, s) ==
  /\ r.call = s.call /\ r.n = s.n /\ r.asset = s.asset /\ r.service = s.service
  /\ r.outcome = s.outcome /\ r.new = s.new /\ r.since = s.since /\ r.counted = s.counted
  /\ r.how = s.how

LEMMA CallKeeps ==
  ASSUME NEW c \in Calls, CallOK(c), calls \in Nat, calls' \in Nat, calls <= calls',
         Len(ledger) \in Nat, Len(ledger') \in Nat, Len(ledger) <= Len(ledger'),
         \A i \in 1..Len(ledger) : /\ ledger'[i].asset = ledger[i].asset
                                   /\ ledger'[i].service = ledger[i].service
                                   /\ ledger'[i].counted = ledger[i].counted
                                   /\ ledger'[i].outcome = ledger[i].outcome
  PROVE  CallOK(c)'
<1> SUFFICES ASSUME c.at # "idle"
             PROVE  /\ c.id \in 1..calls' /\ c.since <= Len(ledger')
                    /\ RowsPlaced(c)' /\ Coalesced(c)' /\ CountedOK(c)' /\ SawRight(c)'
                    /\ c.at # "notify" => Placed(c)'
  BY DEF CallOK
<1>1. /\ c.id \in 1..calls /\ c.since <= Len(ledger)
      /\ RowsPlaced(c) /\ Coalesced(c) /\ CountedOK(c) /\ SawRight(c)
      /\ c.at # "notify" => Placed(c)
  BY DEF CallOK
<1>2. c.id \in Nat /\ c.since \in Nat
  BY DEF Calls
<1>3. RowsPlaced(c)' /\ Coalesced(c)' /\ (c.at # "notify" => Placed(c)')
  BY <1>1 DEF RowsPlaced, RowIds, Fresh, Coalesced, Placed
<1>7. CountedOK(c)'
  <2>1. \A o : CountedIn(o, c.since)' <=> CountedIn(o, c.since)
    BY <1>1, <1>2 DEF CountedIn
  <2> QED  BY <1>1, <2>1 DEF CountedOK, RowCounted
<1>4. \A a, n : n \in Nat /\ n <= Len(ledger) => (FlowIn(a, n)' <=> FlowIn(a, n))
  BY DEF FlowIn
<1>5. \A a : FlowIn(a, Len(ledger)) => FlowIn(a, Len(ledger))'
  BY DEF FlowIn
<1>6. SawRight(c)'
  <2> SUFFICES ASSUME NEW k \in 1..Len(c.rows)
               PROVE  LET row == c.rows[k]
                          before == \E j \in 1..(k - 1) : c.rows[j].asset = row.asset
                      IN  /\ row.new => /\ row.service /\ row.how = "classified"
                                        /\ ~FlowIn(row.asset, c.since)' /\ ~before
                          /\ row.how = "classified" /\ row.service /\ ~row.new =>
                               FlowIn(row.asset, Len(ledger))' \/ before
    BY DEF SawRight
  <2> QED  BY <1>1, <1>2, <1>4, <1>5 DEF SawRight
<1> QED  BY <1>1, <1>2, <1>3, <1>6, <1>7

-----------------------------------------------------------------------------
\* The kinds of steps.  Worker w's call becomes d.
Become(w, d) == call' = [call EXCEPT ![w] = d]
Fixed == UNCHANGED <<assets, ledger, counter, history>>

Quiet ==
  /\ UNCHANGED <<call, assets, counter, history>>
  /\ calls' \in Nat /\ calls <= calls'
  /\ ledger' \in Seq(Rows) /\ Len(ledger') = Len(ledger)
  /\ \A i \in 1..Len(ledger) : SameButRule(ledger'[i], ledger[i])

Opened(w, d) ==
  /\ At(w, "idle") /\ d.at = "insert" /\ d.id = calls + 1 /\ d.rows = <<>> /\ d.made = <<>>
  /\ d.kind \in Kinds
  /\ calls' = calls + 1 /\ Fixed

Extended(w, d) ==
  /\ At(w, "insert") /\ call[w].todo # <<>> /\ d = Inserted(call[w])
  /\ \A v \in Workers \ {w} : ~HoldsAsset(v, Head(call[w].todo).asset)
  /\ calls' = calls /\ Fixed

\* Rows that are decided or counted further.
Rewritten(rows, s) ==
  /\ Len(s) = Len(rows)
  /\ \A k \in 1..Len(rows) : /\ s[k].asset = rows[k].asset
                             /\ s[k].counted => rows[k].counted \/ ShadowMode

Moved(w, d) ==
  /\ InTransaction(w) /\ d.at \in TransactionSteps
  /\ call[w].at \in {"decide", "record"} /\ Rewritten(call[w].rows, d.rows)
  /\ d.id = call[w].id /\ d.kind = call[w].kind /\ d.made = call[w].made
  /\ calls' = calls /\ Fixed

Aborted(w, d) == InTransaction(w) /\ d = Idle /\ calls' = calls /\ Fixed

Committed(w, d) == Commit(w) /\ d = [call[w] EXCEPT !.at = "notify"]

Lost(w, d) ==
  /\ InTransaction(w) /\ call[w].kind = "egress" /\ d = [call[w] EXCEPT !.at = "notify"]
  /\ phantoms' = phantoms \cup {call[w].id}
  /\ calls' = calls
  /\ UNCHANGED <<assets, ledger, counter, alerted, announced, interrupted>>

Signalled(w, d) ==
  /\ At(w, "notify") /\ d = Idle
  /\ \E n \in 0..(Len(call[w].made) + Len(call[w].rows)) :
       /\ Send(call[w], n)
       /\ \/ n = Len(call[w].made) + Len(call[w].rows) /\ UNCHANGED interrupted
          \/ interrupted' = interrupted \cup {call[w].id}
  /\ calls' = calls
  /\ UNCHANGED <<assets, ledger, counter, phantoms>>

Stepped(w, d) ==
  /\ Become(w, d)
  /\ \/ Opened(w, d) \/ Extended(w, d) \/ Moved(w, d) \/ Aborted(w, d)
     \/ Committed(w, d) \/ Lost(w, d) \/ Signalled(w, d)

RestOK ==
  /\ rules \subseteq Rules /\ cachedRules \subseteq Rules
  /\ calls \in Nat /\ ruleChanges \in Nat /\ failures \in Nat

LEMMA IdleOK == Idle \in Calls /\ Idle.at = "idle"
<1>1. <<>> \in Seq(Items) /\ <<>> \in Seq(Rows) /\ <<>> \in Seq(Assets)
  OBVIOUS
<1> QED  BY <1>1 DEF Idle, Calls, TransactionSteps

LEMMA CommittedFields ==
  ASSUME NEW c \in Calls
  PROVE  LET d == [c EXCEPT !.at = "notify"]
         IN  /\ d \in Calls /\ d.at = "notify"
             /\ d.id = c.id /\ d.kind = c.kind /\ d.broken = c.broken /\ d.since = c.since
             /\ d.todo = c.todo /\ d.rows = c.rows /\ d.made = c.made /\ d.next = c.next
BY DEF Calls, TransactionSteps

LEMMA OneCall ==
  ASSUME CallsInv, NEW w \in Workers
  PROVE  /\ call[w] \in Calls /\ CallOK(call[w]) /\ TypeOK
         /\ call[w].rows \in Seq(Rows) /\ call[w].made \in Seq(Assets) /\ call[w].id \in Nat
         /\ call[w].since \in Nat /\ call[w].todo \in Seq(Items)
<1>1. call[w] \in Calls /\ CallOK(call[w]) /\ TypeOK
  BY DEF CallsInv, TypeOK
<1> QED  BY <1>1 DEF Calls

\* A call that nothing changes but time.
LEMMA StillOK ==
  ASSUME CallsInv, NEW d \in Calls, CallOK(d), calls' = calls, ledger' = ledger
  PROVE  CallOK(d)'
<1>1. calls \in Nat /\ ledger \in Seq(Rows) /\ Len(ledger) \in Nat
  BY DEF CallsInv, TypeOK
<1> QED  BY <1>1, CallKeeps

LEMMA QuietSame ==
  ASSUME CallsInv, calls' = calls \/ calls' = calls + 1, UNCHANGED <<call, ledger, assets, counter, history>>
  PROVE  Quiet
<1>1. calls \in Nat /\ ledger \in Seq(Rows)
  BY DEF CallsInv, TypeOK
<1> QED  BY <1>1 DEF Quiet, SameButRule

LEMMA BeginSteps ==
  ASSUME CallsInv, NEW w \in Workers, NEW kind \in Kinds, NEW batch \in Batches, Begin(w, kind, batch)
  PROVE  Quiet \/ \E d \in Calls : Stepped(w, d) /\ CallOK(d)'
<1>1. /\ At(w, "idle") /\ calls' = calls + 1 /\ calls \in Nat /\ TypeOK
      /\ UNCHANGED <<assets, ledger, counter, history>>
  BY DEF Begin, db, CallsInv, TypeOK
<1>2. PICK todo \in Plans(batch, kind) :
        IF todo = <<>> THEN UNCHANGED call
        ELSE SetCall(w, [Idle EXCEPT !.at = "insert", !.id = calls', !.kind = kind,
                                     !.todo = todo, !.since = Len(ledger)])
  BY DEF Begin
<1>3. CASE todo = <<>>
  BY <1>1, <1>2, <1>3, QuietSame
<1>4. CASE todo # <<>>
  <2> DEFINE n == Len(ledger)
             d == [Idle EXCEPT !.at = "insert", !.id = calls + 1, !.kind = kind,
                               !.todo = todo, !.since = n]
  <2>1. /\ todo \in Seq(Items)
        /\ kind # "egress" => \A j, k \in 1..Len(todo) : j # k => todo[j].asset # todo[k].asset
    BY <1>1, PlanOK
  <2>2. n \in Nat /\ kind \in {"request", "task", "egress"} /\ calls + 1 \in Nat
    BY <1>1, ConstantsAssumption DEF TypeOK
  <2>3. Become(w, d)
    BY <1>1, <1>2, <1>4 DEF SetCall, Become
  <2> HIDE DEF n
  <2>4. /\ d \in Calls /\ d.at = "insert" /\ d.id = calls + 1 /\ d.kind = kind /\ d.todo = todo
        /\ d.since = n /\ d.rows = <<>> /\ d.made = <<>> /\ d.next = 0 /\ ~d.broken
    BY <2>1, <2>2, IdleOK DEF Calls, TransactionSteps, Idle
  <2> HIDE DEF d
  <2>0. PICK e : e = d
    OBVIOUS
  <2>11. /\ e \in Calls /\ e.at = "insert" /\ e.id = calls + 1 /\ e.kind = kind /\ e.todo = todo
         /\ e.since = n /\ e.rows = <<>> /\ e.made = <<>> /\ e.next = 0 /\ ~e.broken
    BY <2>0, <2>4
  <2>5. Len(e.rows) = 0
    BY <2>11
  <2>6. RowsPlaced(e) /\ SawRight(e) /\ CountedOK(e)
    BY <2>11, <2>5 DEF RowsPlaced, RowIds, SawRight, CountedOK
  <2>7. Coalesced(e) /\ Placed(e)
    BY <1>4, <2>1, <2>11, <2>5 DEF Coalesced, Placed
  <2>8. calls' \in Nat /\ Len(ledger') = n /\ ledger' = ledger
    BY <1>1 DEF n
  <2>9. CallOK(e)'
    <3>1. (RowsPlaced(e) /\ Coalesced(e) /\ Placed(e))'
      BY <2>6, <2>7 DEF RowsPlaced, RowIds, Fresh, Coalesced, Placed
    <3>2. SawRight(e)' /\ CountedOK(e)'
      BY <2>5 DEF SawRight, CountedOK
    <3>3. e.id \in 1..calls' /\ e.since <= Len(ledger')
      BY <1>1, <2>2, <2>11, <2>8
    <3> QED  BY <3>1, <3>2, <3>3 DEF CallOK
  <2>10. Stepped(w, e)
    BY <1>1, <2>0, <2>3, <2>11 DEF Stepped, Opened, Fixed
  <2> QED  BY <2>11, <2>9, <2>10
<1> QED  BY <1>3, <1>4

LEMMA InsertSteps ==
  ASSUME CallsInv, NEW w \in Workers, Insert(w)
  PROVE  \E d \in Calls : Stepped(w, d) /\ CallOK(d)'
<1> DEFINE c == call[w]
           d == Inserted(c)
<1>1. /\ c.at = "insert" /\ ~c.broken /\ ~Blocked(w) /\ call' = [call EXCEPT ![w] = d]
      /\ calls' = calls /\ ledger' = ledger /\ Fixed
  BY DEF Insert, At, SetCall, db, bounds, Fixed
<1>2. c \in Calls /\ CallOK(c) /\ TypeOK
  BY OneCall
<1>3. PICK e : e = d
  OBVIOUS
<1>4. e \in Calls /\ CallOK(e)
  <2> HIDE DEF c
  <2> QED  BY <1>1, <1>2, <1>3, InsertedOK
<1>5. CallOK(e)'
  BY <1>1, <1>4, StillOK
<1>6. \A v \in Workers \ {w} : ~HoldsAsset(v, Head(call[w].todo).asset)
  BY <1>1 DEF Blocked, Waits, At
<1>7. call[w].todo # <<>>
  BY <1>1, <1>2 DEF CallOK, Placed
<1>8. Stepped(w, e)
  BY <1>1, <1>3, <1>6, <1>7 DEF Stepped, Become, Extended, At
<1> QED  BY <1>4, <1>5, <1>8

\* A call goes on in its transaction.
LEMMA MoveSteps ==
  ASSUME CallsInv, NEW w \in Workers, InTransaction(w), NEW d \in Calls, CallOK(d), Become(w, d),
         call[w].at \in {"decide", "record"}, Rewritten(call[w].rows, d.rows),
         d.at \in TransactionSteps, d.id = call[w].id, d.kind = call[w].kind, d.made = call[w].made,
         calls' = calls, Fixed
  PROVE  Stepped(w, d) /\ CallOK(d)'
<1>1. CallOK(d)'
  BY StillOK DEF Fixed
<1> QED  BY <1>1 DEF Stepped, Moved

LEMMA AbortSteps ==
  ASSUME CallsInv, NEW w \in Workers, InTransaction(w), Rollback(w)
  PROVE  \E d \in Calls : Stepped(w, d) /\ CallOK(d)'
<1>1. Become(w, Idle) /\ calls' = calls /\ Fixed
  BY DEF Rollback, SetCall, Become, Fixed, db
<1>2. PICK e : e = Idle
  OBVIOUS
<1>3. CallOK(e)'
  BY <1>2, IdleOK DEF CallOK
<1>4. Stepped(w, e)
  BY <1>1, <1>2 DEF Stepped, Aborted
<1> QED  BY <1>2, <1>3, <1>4, IdleOK

LEMMA DecisionTypes ==
  ASSUME NEW w
  PROVE  Decision(w) \in Outcomes /\ IsNewFlow(w) \in BOOLEAN
BY DEF Decision, Classify, Outcomes, IsNewFlow

LEMMA DecideSteps ==
  ASSUME CallsInv, NEW w \in Workers, Decide(w)
  PROVE  \E d \in Calls : Stepped(w, d) /\ CallOK(d)'
<1> DEFINE c == call[w]
           old == c.rows[c.next]
           decision == Decision(w)
           isnew == IsNewFlow(w)
           decided == IF old.rule # NoRule THEN [old EXCEPT !.how = "allowlisted"]
                      ELSE [old EXCEPT !.how = "classified", !.outcome = decision, !.new = isnew]
           d == [c EXCEPT !.rows[c.next] = decided, !.at = "record"]
<1>1. c.at = "decide" /\ Become(w, d) /\ calls' = calls /\ Fixed
  BY DEF Decide, At, SetCall, Become, Row, db, bounds, Fixed
<1>2. c \in Calls /\ CallOK(c) /\ TypeOK /\ c.rows \in Seq(Rows)
  BY OneCall
<1>3. c.next \in 1..Len(c.rows) /\ Fresh(old)
  BY <1>1, <1>2 DEF CallOK, Placed, RowsPlaced
<1>4. old \in Rows /\ decision \in Outcomes /\ isnew \in BOOLEAN
  BY <1>2, <1>3, DecisionTypes
<1>5. isnew <=> /\ old.service /\ ~FlowIn(old.asset, Len(ledger))
                /\ ~\E j \in 1..Len(c.rows) : /\ j # c.next /\ c.rows[j].asset = old.asset
                                              /\ c.rows[j].service
  <2>1. DOMAIN ledger = 1..Len(ledger) /\ DOMAIN c.rows = 1..Len(c.rows)
    BY <1>2 DEF TypeOK
  <2> QED  BY <2>1 DEF IsNewFlow, Row, FlowIn
<1>6. PICK row : row = decided
  OBVIOUS
<1>7. /\ row \in Rows
      /\ row.call = old.call /\ row.n = old.n /\ row.asset = old.asset
      /\ row.service = old.service /\ row.since = old.since /\ row.counted = old.counted
      /\ \/ row.how = "allowlisted" /\ row.new = old.new
         \/ row.how = "classified" /\ row.new = isnew
  <2> HIDE DEF c, old, decision, isnew
  <2> QED  BY <1>4, <1>6 DEF Rows
<1>8. row.how # "default" /\ ~row.counted /\ (row.new => row.how = "classified")
  BY <1>3, <1>7 DEF Fresh
<1>9. PICK e : e = [c EXCEPT !.rows[c.next] = row, !.at = "record"]
  OBVIOUS
<1>10. e \in Calls /\ CallOK(e)
  <2> HIDE DEF c, decided, decision, isnew
  <2>1. row.how = "classified" =>
           (row.new <=> /\ row.service /\ ~FlowIn(row.asset, Len(ledger))
                        /\ ~\E j \in 1..Len(c.rows) : /\ j # c.next /\ c.rows[j].asset = row.asset
                                                      /\ c.rows[j].service)
    BY <1>5, <1>7
  <2> QED  BY <1>1, <1>2, <1>7, <1>8, <1>9, <2>1, DecidedOK
<1>11. e.at = "record" /\ e.id = c.id /\ e.kind = c.kind /\ e.made = c.made
  <2> HIDE DEF c
  <2> QED  BY <1>2, <1>3, <1>7, <1>9, DecidedFields
<1>12. Become(w, e) /\ InTransaction(w)
  BY <1>1, <1>6, <1>9 DEF InTransaction, TransactionSteps
<1>13. Rewritten(c.rows, e.rows)
  <2>1. e.rows = [c.rows EXCEPT ![c.next] = row]
    <3> HIDE DEF c
    <3> QED  BY <1>2, <1>3, <1>7, <1>9, DecidedFields
  <2> HIDE DEF c
  <2> QED  BY <1>2, <1>3, <1>7, <2>1, Replaced DEF Rewritten
<1>14. Stepped(w, e) /\ CallOK(e)'
  BY <1>1, <1>10, <1>11, <1>12, <1>13, MoveSteps DEF TransactionSteps
<1> QED  BY <1>10, <1>14

\* A call of which row next is done or left undecided.
LEMMA NextSteps ==
  ASSUME CallsInv, NEW w \in Workers, call[w].at \in {"decide", "record"},
         NEW c \in Calls, c.at = call[w].at, c.id = call[w].id, c.kind = call[w].kind,
         c.made = call[w].made, c.since = call[w].since, c.next = call[w].next,
         Rewritten(call[w].rows, c.rows), Placed(c), RowIds(c), Coalesced(c), SawRight(c),
         \A k \in (c.next + 1)..Len(c.rows) : Fresh(c.rows[k]),
         ShadowMode /\ ~c.broken =>
           \A k \in 1..Len(c.rows) : RowCounted(c, k),
         Become(w, NextRow(c)), calls' = calls, Fixed
  PROVE  \E d \in Calls : Stepped(w, d) /\ CallOK(d)'
<1>1. TypeOK /\ call[w].id \in 1..calls /\ call[w].since <= Len(ledger)
  BY OneCall DEF CallOK
<1>2. PICK d : d = NextRow(c)
  OBVIOUS
<1>3. d \in Calls /\ CallOK(d)
  BY <1>1, <1>2, NextOK
<1>4. d.id = c.id /\ d.kind = c.kind /\ d.made = c.made /\ d.at \in TransactionSteps
      /\ d.rows = c.rows
  BY <1>2, NextRowFields DEF TransactionSteps
<1>5. InTransaction(w)
  BY DEF InTransaction, TransactionSteps
<1>6. Become(w, d)
  BY <1>2
<1> QED  BY <1>3, <1>4, <1>5, <1>6, MoveSteps

LEMMA BrokenFields ==
  ASSUME NEW c \in Calls, NEW broken \in BOOLEAN
  PROVE  LET d == [c EXCEPT !.broken = broken]
         IN  /\ d \in Calls /\ d.at = c.at /\ d.broken = broken
             /\ d.id = c.id /\ d.kind = c.kind /\ d.since = c.since
             /\ d.todo = c.todo /\ d.rows = c.rows /\ d.made = c.made /\ d.next = c.next
BY DEF Calls

\* The statement of row next failed: the row stays as it is.
LEMMA FailSteps ==
  ASSUME CallsInv, NEW w \in Workers, call[w].at \in {"decide", "record"},
         NEW broken \in BOOLEAN, call[w].broken => broken, call[w].at = "record" => broken,
         Become(w, NextRow([call[w] EXCEPT !.broken = broken])), calls' = calls, Fixed
  PROVE  \E d \in Calls : Stepped(w, d) /\ CallOK(d)'
<1> DEFINE c == call[w]
<1>1. c \in Calls /\ CallOK(c) /\ c.rows \in Seq(Rows)
  BY OneCall
<1>2. Placed(c) /\ RowsPlaced(c) /\ Coalesced(c) /\ CountedOK(c) /\ SawRight(c)
  BY <1>1 DEF CallOK
<1>3. PICK e : e = [c EXCEPT !.broken = broken]
  OBVIOUS
<1> HIDE DEF c
<1>4. /\ e \in Calls /\ e.at = c.at /\ e.broken = broken
      /\ e.id = c.id /\ e.kind = c.kind /\ e.since = c.since
      /\ e.todo = c.todo /\ e.rows = c.rows /\ e.made = c.made /\ e.next = c.next
  BY <1>1, <1>3, BrokenFields
<1>5. Placed(e) /\ RowIds(e) /\ Coalesced(e) /\ SawRight(e)
  BY <1>2, <1>4 DEF Placed, RowsPlaced, RowIds, Coalesced, SawRight
<1>6. c.at \in {"decide", "record"} /\ (c.broken => broken) /\ (c.at = "record" => broken)
  BY DEF c
<1>7. \A k \in (e.next + 1)..Len(e.rows) : Fresh(e.rows[k])
  <2>1. c.next \in Nat /\ Len(c.rows) \in Nat
    BY <1>1 DEF Calls
  <2> QED  BY <1>2, <1>4, <1>6, <2>1 DEF RowsPlaced
<1>8. ShadowMode /\ ~e.broken =>
        \A k \in 1..Len(e.rows) : RowCounted(e, k)
  BY <1>2, <1>4, <1>6 DEF CountedOK, RowCounted
<1>9. Become(w, NextRow(e)) /\ Rewritten(c.rows, e.rows)
  BY <1>3, <1>4 DEF c, Rewritten
<1> QED  BY <1>4, <1>5, <1>6, <1>7, <1>8, <1>9, NextSteps DEF c

LEMMA RecordFields ==
  ASSUME NEW c \in Calls, c.next \in 1..Len(c.rows), NEW counted \in BOOLEAN
  PROVE  LET d == [c EXCEPT !.rows[c.next].counted = counted]
             row == [c.rows[c.next] EXCEPT !.counted = counted]
         IN  /\ d \in Calls /\ d.at = c.at /\ d.broken = c.broken
             /\ d.id = c.id /\ d.kind = c.kind /\ d.since = c.since
             /\ d.todo = c.todo /\ d.made = c.made /\ d.next = c.next
             /\ d.rows = [c.rows EXCEPT ![c.next] = row]
<1> DEFINE row == [c.rows[c.next] EXCEPT !.counted = counted]
           rows == [c.rows EXCEPT ![c.next] = row]
<1>1. c.rows \in Seq(Rows)
  BY DEF Calls
<1>2. row \in Rows
  <2>1. c.rows[c.next] \in Rows
    BY <1>1
  <2> QED  BY <2>1 DEF Rows
<1>3. [c EXCEPT !.rows[c.next].counted = counted] = [c EXCEPT !.rows = rows]
  BY <1>1 DEF Calls
<1>4. rows \in Seq(Rows)
  <2> HIDE DEF row
  <2> QED  BY <1>1, <1>2
<1> HIDE DEF rows
<1>5. LET d == [c EXCEPT !.rows = rows]
      IN  /\ d \in Calls /\ d.at = c.at /\ d.broken = c.broken
          /\ d.id = c.id /\ d.kind = c.kind /\ d.since = c.since
          /\ d.todo = c.todo /\ d.made = c.made /\ d.next = c.next
          /\ d.rows = rows
  BY <1>4 DEF Calls
<1> QED  BY <1>3, <1>5 DEF rows

LEMMA RecordSteps ==
  ASSUME CallsInv, NEW w \in Workers, Record(w)
  PROVE  \E d \in Calls : Stepped(w, d) /\ CallOK(d)'
<1> DEFINE c == call[w]
           old == c.rows[c.next]
           counted == ShadowMode
<1>1. /\ c.at = "record" /\ ~c.broken /\ calls' = calls /\ Fixed
      /\ Become(w, NextRow([c EXCEPT !.rows[c.next].counted = ShadowMode]))
  BY DEF Record, At, SetCall, Become, db, bounds, Fixed
<1>2. c \in Calls /\ CallOK(c) /\ c.rows \in Seq(Rows)
  BY OneCall
<1>3. Placed(c) /\ RowsPlaced(c) /\ Coalesced(c) /\ CountedOK(c) /\ SawRight(c)
  BY <1>1, <1>2 DEF CallOK
<1>4. c.next \in 1..Len(c.rows) /\ c.next \in Nat /\ Len(c.rows) \in Nat
  BY <1>1, <1>2, <1>3 DEF Placed
<1>5. PICK e : e = [c EXCEPT !.rows[c.next].counted = ShadowMode]
  OBVIOUS
<1> HIDE DEF c
<1>6. PICK row : row = [old EXCEPT !.counted = ShadowMode]
  OBVIOUS
<1>7. /\ e \in Calls /\ e.at = c.at /\ e.broken = c.broken
      /\ e.id = c.id /\ e.kind = c.kind /\ e.since = c.since
      /\ e.todo = c.todo /\ e.made = c.made /\ e.next = c.next
      /\ e.rows = [c.rows EXCEPT ![c.next] = row]
  BY <1>2, <1>4, <1>5, <1>6, RecordFields, ConstantsAssumption
<1>8. Len(e.rows) = Len(c.rows) /\ e.rows[c.next] = row
      /\ \A k \in 1..Len(c.rows) : k # c.next => e.rows[k] = c.rows[k]
  BY <1>2, <1>4, <1>7, Replaced
<1>9. /\ row.call = old.call /\ row.n = old.n /\ row.asset = old.asset
      /\ row.service = old.service /\ row.new = old.new /\ row.since = old.since
      /\ row.how = old.how /\ row.counted = ShadowMode
  <2>1. old \in Rows
    BY <1>2, <1>4
  <2> HIDE DEF old
  <2> QED  BY <1>6, <2>1 DEF Rows
<1>10. \A k \in 1..Len(c.rows) :
         /\ e.rows[k].call = c.rows[k].call /\ e.rows[k].n = c.rows[k].n
         /\ e.rows[k].asset = c.rows[k].asset /\ e.rows[k].service = c.rows[k].service
         /\ e.rows[k].new = c.rows[k].new /\ e.rows[k].since = c.rows[k].since
         /\ e.rows[k].how = c.rows[k].how
         /\ k # c.next => e.rows[k].counted = c.rows[k].counted
  BY <1>8, <1>9
<1>11. Placed(e) /\ RowIds(e) /\ Coalesced(e)
  BY <1>3, <1>7, <1>8, <1>10 DEF Placed, RowsPlaced, RowIds, Coalesced
<1>12. SawRight(e)
  <2> SUFFICES ASSUME NEW k \in 1..Len(c.rows)
               PROVE  LET r == e.rows[k]
                          before == \E j \in 1..(k - 1) : e.rows[j].asset = r.asset
                      IN  /\ r.new => /\ r.service /\ r.how = "classified"
                                        /\ ~FlowIn(r.asset, e.since) /\ ~before
                          /\ r.how = "classified" /\ r.service /\ ~r.new =>
                               FlowIn(r.asset, Len(ledger)) \/ before
    BY <1>8 DEF SawRight
  <2>1. \A j \in 1..(k - 1) : j \in 1..Len(c.rows)
    BY <1>4
  <2> QED  BY <1>3, <1>7, <1>10, <2>1 DEF SawRight
<1>13. \A k \in (e.next + 1)..Len(e.rows) : Fresh(e.rows[k])
  <2> SUFFICES ASSUME NEW k \in (c.next + 1)..Len(c.rows) PROVE Fresh(e.rows[k])
    BY <1>7, <1>8
  <2>1. k \in 1..Len(c.rows) /\ k # c.next
    BY <1>4
  <2> QED  BY <1>1, <1>3, <1>8, <2>1 DEF RowsPlaced, c
<1>14. ShadowMode /\ ~e.broken =>
         \A k \in 1..Len(e.rows) : RowCounted(e, k)
  <2> SUFFICES ASSUME ShadowMode, NEW k \in 1..Len(c.rows) PROVE RowCounted(e, k)
    BY <1>8
  <2>1. CASE k = c.next
    BY <1>1, <1>3, <1>8, <1>9, <2>1 DEF RowsPlaced, RowCounted, c
  <2>2. CASE k # c.next
    <3>1. RowCounted(c, k)
      BY <1>1, <1>3, <2>2 DEF CountedOK, c
    <3>2. e.rows[k] = c.rows[k]
      BY <1>8, <2>2
    <3>3. e.rows[k].how # "default" /\ ~e.rows[k].counted =>
            \A j \in 1..(k - 1) : e.rows[j].counted => e.rows[j].outcome # e.rows[k].outcome
      <4> SUFFICES ASSUME e.rows[k].how # "default", NEW j \in 1..(k - 1), ~e.rows[k].counted, e.rows[j].counted
                   PROVE  e.rows[j].outcome # e.rows[k].outcome
        OBVIOUS
      <4>1. j # c.next
        <5> SUFFICES ASSUME j = c.next PROVE FALSE
          OBVIOUS
        <5>1. k \in (c.next + 1)..Len(c.rows)
          BY <1>4
        <5>2. Fresh(c.rows[k])
          BY <1>1, <1>3, <5>1 DEF RowsPlaced, c
        <5> QED  BY <3>2, <5>2 DEF Fresh
      <4>2. e.rows[j] = c.rows[j]
        BY <1>4, <1>8, <4>1
      <4> QED  BY <3>1, <3>2, <4>2 DEF RowCounted
    <3> QED  BY <1>7, <3>1, <3>2, <3>3 DEF RowCounted
  <2> QED  BY <2>1, <2>2
<1>15. Become(w, NextRow(e)) /\ c.at = "record" /\ Rewritten(c.rows, e.rows)
  BY <1>1, <1>5, <1>8, <1>10 DEF c, Rewritten
<1> QED  BY <1>1, <1>7, <1>11, <1>12, <1>13, <1>14, <1>15, NextSteps DEF c

LEMMA DecideFailsSteps ==
  ASSUME CallsInv, NEW w \in Workers, DecideFails(w)
  PROVE  \E d \in Calls : Stepped(w, d) /\ CallOK(d)'
<1>1. PICK broken \in BOOLEAN :
        SetCall(w, NextRow([call[w] EXCEPT !.broken = call[w].broken \/ broken]))
  BY DEF DecideFails
<1>2. PICK b \in BOOLEAN : b = (call[w].broken \/ broken)
  OBVIOUS
<1>3. Become(w, NextRow([call[w] EXCEPT !.broken = b]))
  BY <1>1, <1>2 DEF Become, SetCall
<1>4. call[w].at = "decide" /\ calls' = calls /\ Fixed
  BY DEF DecideFails, At, db, Fixed
<1> QED  BY <1>2, <1>3, <1>4, FailSteps

LEMMA RecordFailsSteps ==
  ASSUME CallsInv, NEW w \in Workers, RecordFails(w)
  PROVE  \E d \in Calls : Stepped(w, d) /\ CallOK(d)'
<1>1. call[w].at = "record" /\ calls' = calls /\ Fixed /\ UNCHANGED <<db, cachedRules, calls, ruleChanges, history>>
  BY DEF RecordFails, At, db, Fixed
<1>2. CASE SetCall(w, Idle)
  <2>1. InTransaction(w) /\ Rollback(w)
    BY <1>1, <1>2 DEF InTransaction, TransactionSteps, Rollback
  <2> QED  BY <2>1, AbortSteps
<1>3. CASE SetCall(w, NextRow([call[w] EXCEPT !.broken = TRUE]))
  <2>1. Become(w, NextRow([call[w] EXCEPT !.broken = TRUE]))
    BY <1>3 DEF SetCall, Become
  <2> QED  BY <1>1, <2>1, FailSteps
<1> QED  BY <1>2, <1>3 DEF RecordFails

\* The insert of a missing counter failed: neither a committed row nor one of the call
\* was counted under its outcome.
LEMMA CountLostSteps ==
  ASSUME CallsInv, NEW w \in Workers, CountLost(w)
  PROVE  \E d \in Calls : Stepped(w, d) /\ CallOK(d)'
<1> DEFINE c == call[w]
           row == c.rows[c.next]
<1>1. /\ c.at = "record" /\ ~c.broken /\ calls' = calls /\ Fixed /\ Become(w, NextRow(c))
      /\ counter[row.outcome] = 0 /\ ~HoldsCounter(w, row.outcome)
  BY DEF CountLost, CounterMissing, Row, At, SetCall, Become, db, Fixed
<1>2. c \in Calls /\ CallOK(c) /\ c.rows \in Seq(Rows) /\ c.since \in Nat
  BY OneCall
<1>3. Placed(c) /\ RowsPlaced(c) /\ Coalesced(c) /\ CountedOK(c) /\ SawRight(c) /\ c.since <= Len(ledger)
  BY <1>1, <1>2 DEF CallOK
<1>4. c.next \in 1..Len(c.rows) /\ row \in Rows
  BY <1>1, <1>2, <1>3 DEF Placed
<1>5. RowCounted(c, c.next)
  <2>1. ~CountedIn(row.outcome, c.since)
    <3>1. ~CountedIn(row.outcome, Len(ledger))
      BY <1>1, <1>4 DEF CallsInv, CountersSeen, Rows
    <3>2. \A i \in 1..c.since : i \in 1..Len(ledger)
      BY <1>2, <1>3 DEF CallsInv, TypeOK
    <3> QED  BY <3>1, <3>2 DEF CountedIn
  <2>2. \A j \in 1..Len(c.rows) : c.rows[j].counted => c.rows[j].outcome # row.outcome
    <3>1. DOMAIN c.rows = 1..Len(c.rows)
      BY <1>2
    <3> QED  BY <1>1, <3>1 DEF HoldsCounter, InTransaction, TransactionSteps
  <2>3. \A j \in 1..(c.next - 1) : j \in 1..Len(c.rows)
    BY <1>4
  <2>4. ~row.counted
    BY <1>1, <1>3 DEF RowsPlaced
  <2> QED  BY <2>1, <2>2, <2>3, <2>4 DEF RowCounted
<1>6. \A k \in 1..Len(c.rows) : RowCounted(c, k)
  <2>1. ShadowMode
    BY DEF CountLost
  <2> QED  BY <1>1, <1>3, <1>5, <2>1 DEF CountedOK
<1>7. Rewritten(c.rows, c.rows)
  BY DEF Rewritten
<1>8. \A k \in (c.next + 1)..Len(c.rows) : Fresh(c.rows[k])
  BY <1>1, <1>3 DEF RowsPlaced
<1>9. RowIds(c)
  BY <1>3 DEF RowsPlaced
<1> QED  BY <1>1, <1>2, <1>3, <1>6, <1>7, <1>8, <1>9, NextSteps

-----------------------------------------------------------------------------
\* A call leaves its transaction, and sends its signals.
LEMMA Doomed ==
  ASSUME CallsInv, NEW w \in Workers, InsertFails(w) \/ Killed(w) \/ CommitFails(w)
  PROVE  \E d \in Calls : Stepped(w, d) /\ CallOK(d)'
<1>1. InTransaction(w) /\ Rollback(w)
  BY DEF InsertFails, Killed, CommitFails, InTransaction, At, TransactionSteps
<1> QED  BY <1>1, AbortSteps

\* What a call that left its transaction keeps.
LEMMA EndedOK ==
  ASSUME CallsInv, NEW w \in Workers, InTransaction(w), call[w].at = "commit",
         NEW d, d = [call[w] EXCEPT !.at = "notify"]
  PROVE  d \in Calls /\ CallOK(d)
<1> DEFINE c == call[w]
<1>1. c \in Calls /\ CallOK(c)
  BY OneCall
<1>2. c.at = "commit"
  OBVIOUS
<1> HIDE DEF c
<1>3. /\ d \in Calls /\ d.at = "notify"
      /\ d.id = c.id /\ d.kind = c.kind /\ d.broken = c.broken /\ d.since = c.since
      /\ d.todo = c.todo /\ d.rows = c.rows /\ d.made = c.made /\ d.next = c.next
  BY <1>1, CommittedFields DEF c
<1>4. RowsPlaced(d) /\ Coalesced(d) /\ CountedOK(d) /\ SawRight(d)
  <2>1. RowsPlaced(c) /\ Coalesced(c) /\ CountedOK(c) /\ SawRight(c)
    BY <1>1, <1>2 DEF CallOK
  <2>2. RowsPlaced(d) /\ Coalesced(d)
    <3>1. RowsPlaced(d)
      BY <1>2, <1>3, <2>1 DEF RowsPlaced, RowIds
    <3>2. Coalesced(d)
      BY <1>3, <2>1 DEF Coalesced
    <3> QED  BY <3>1, <3>2
  <2>3. CountedOK(d)
    BY <1>2, <1>3, <2>1 DEF CountedOK, RowCounted
  <2>4. SawRight(d)
    BY <1>3, <2>1 DEF SawRight
  <2> QED  BY <2>2, <2>3, <2>4
<1>5. c.id \in 1..calls /\ c.since <= Len(ledger)
  BY <1>1, <1>2 DEF CallOK
<1> QED  BY <1>3, <1>4, <1>5 DEF CallOK

\* A commit appends the rows.
LEMMA LedgerGrows ==
  ASSUME CallsInv, NEW w \in Workers, Commit(w)
  PROVE  LET n == Len(ledger)
             rows == call[w].rows
         IN  /\ n \in Nat /\ Len(rows) \in Nat /\ ledger' \in Seq(Rows)
             /\ Len(ledger') = n + Len(rows)
             /\ \A i \in 1..n : ledger'[i] = ledger[i]
             /\ \A k \in 1..Len(rows) : ledger'[n + k] = rows[k]
             /\ \A i \in 1..Len(ledger') : i \in 1..n \/ \E k \in 1..Len(rows) : i = n + k
<1> DEFINE n == Len(ledger)
           rows == call[w].rows
<1>1. ledger \in Seq(Rows) /\ rows \in Seq(Rows) /\ ledger' = ledger \o rows
  BY OneCall DEF TypeOK, Commit
<1> HIDE DEF rows
<1>2. n \in Nat /\ Len(rows) \in Nat /\ ledger' \in Seq(Rows)
  BY <1>1
<1>3. /\ Len(ledger') = n + Len(rows)
      /\ \A i \in 1..n + Len(rows) : ledger'[i] = IF i <= n THEN ledger[i] ELSE rows[i - n]
  BY <1>1, ConcatProperties, Zenon
<1>4. \A i \in 1..n : ledger'[i] = ledger[i]
  <2> SUFFICES ASSUME NEW i \in 1..n PROVE ledger'[i] = ledger[i]
    OBVIOUS
  <2>1. i \in 1..n + Len(rows) /\ i <= n
    BY <1>2
  <2> QED  BY <1>3, <2>1
<1>5. \A k \in 1..Len(rows) : ledger'[n + k] = rows[k]
  <2> SUFFICES ASSUME NEW k \in 1..Len(rows) PROVE ledger'[n + k] = rows[k]
    OBVIOUS
  <2>1. n + k \in 1..n + Len(rows) /\ ~(n + k <= n) /\ (n + k) - n = k
    BY <1>2
  <2> QED  BY <1>3, <2>1
<1>6. \A i \in 1..Len(ledger') : i \in 1..n \/ \E k \in 1..Len(rows) : i = n + k
  <2> SUFFICES ASSUME NEW i \in 1..Len(ledger'), ~(i \in 1..n) PROVE \E k \in 1..Len(rows) : i = n + k
    OBVIOUS
  <2>1. i - n \in 1..Len(rows) /\ i = n + (i - n)
    BY <1>2, <1>3
  <2> QED  BY <2>1
<1> QED  BY <1>2, <1>3, <1>4, <1>5, <1>6 DEF rows

LEMMA CommitSteps ==
  ASSUME CallsInv, NEW w \in Workers, Commit(w)
  PROVE  \E d \in Calls : Stepped(w, d) /\ CallOK(d)'
<1>1. PICK d : d = [call[w] EXCEPT !.at = "notify"]
  OBVIOUS
<1>2. call[w].at = "commit" /\ InTransaction(w) /\ Become(w, d) /\ calls' = calls
  BY <1>1 DEF Commit, At, InTransaction, TransactionSteps, SetCall, Become, bounds
<1>3. d \in Calls /\ CallOK(d)
  BY <1>1, <1>2, EndedOK
<1>4. calls \in Nat
  BY DEF CallsInv, TypeOK
<1>5. CallOK(d)'
  <2>1. Len(ledger) \in Nat /\ Len(ledger') \in Nat /\ Len(ledger) <= Len(ledger')
        /\ \A i \in 1..Len(ledger) : ledger'[i] = ledger[i]
    BY LedgerGrows
  <2> QED  BY <1>2, <1>3, <1>4, <2>1, CallKeeps
<1> QED  BY <1>1, <1>2, <1>3, <1>5 DEF Stepped, Committed

LEMMA RollbackSteps ==
  ASSUME CallsInv, NEW w \in Workers, SilentRollback(w)
  PROVE  \E d \in Calls : Stepped(w, d) /\ CallOK(d)'
<1>1. PICK d : d = [call[w] EXCEPT !.at = "notify"]
  OBVIOUS
<1>2. /\ call[w].at = "commit" /\ call[w].kind = "egress" /\ InTransaction(w)
      /\ Become(w, d) /\ calls' = calls
      /\ UNCHANGED <<assets, ledger, counter, alerted, announced, interrupted>>
      /\ phantoms' = phantoms \cup {call[w].id}
  BY <1>1 DEF SilentRollback, At, InTransaction, TransactionSteps, SetCall, Become, bounds, db
<1>3. d \in Calls /\ CallOK(d)
  BY <1>1, <1>2, EndedOK
<1>4. CallOK(d)'
  BY <1>2, <1>3, StillOK
<1> QED  BY <1>1, <1>2, <1>3, <1>4 DEF Stepped, Lost

LEMMA NotifySteps ==
  ASSUME CallsInv, NEW w \in Workers, Notify(w) \/ NotifyFails(w)
  PROVE  \E d \in Calls : Stepped(w, d) /\ CallOK(d)'
<1>1. PICK d : d = Idle
  OBVIOUS
<1>2. d \in Calls /\ CallOK(d)'
  BY <1>1, IdleOK DEF CallOK
<1>3. call[w].made \in Seq(Assets) /\ call[w].rows \in Seq(Rows)
  BY OneCall
<1>4. PICK a \in Nat, b \in Nat : a = Len(call[w].made) /\ b = Len(call[w].rows)
  BY <1>3
<1>5. /\ At(w, "notify") /\ Become(w, d) /\ calls' = calls
      /\ UNCHANGED <<assets, ledger, counter, phantoms>>
  BY <1>1 DEF Notify, NotifyFails, SetCall, Become, db, bounds
<1>6. \E m \in 0..(a + b) : /\ Send(call[w], m)
                            /\ \/ m = a + b /\ UNCHANGED interrupted
                               \/ interrupted' = interrupted \cup {call[w].id}
  <2>1. CASE Notify(w)
    <3>1. a + b \in 0..(a + b)
      OBVIOUS
    <3>2. Send(call[w], a + b) /\ UNCHANGED interrupted
      BY <1>4, <2>1 DEF Notify
    <3> QED  BY <3>1, <3>2
  <2>2. CASE NotifyFails(w)
    <3>1. PICK m \in 0..(a + b - 1) : Send(call[w], m)
      BY <1>4, <2>2 DEF NotifyFails
    <3>2. m \in 0..(a + b)
      OBVIOUS
    <3> QED  BY <2>2, <3>1, <3>2 DEF NotifyFails
  <2> QED  BY <2>1, <2>2
<1>7. Signalled(w, d)
  BY <1>1, <1>4, <1>5, <1>6 DEF Signalled
<1> QED  BY <1>2, <1>5, <1>7 DEF Stepped

\* An operator, or the cache.
LEMMA RuleSteps ==
  ASSUME CallsInv, (\E r \in Rules : CreateRule(r) \/ DestroyRule(r)) \/ RefreshRules
  PROVE  Quiet
<1>1. calls \in Nat /\ ledger \in Seq(Rows)
  BY DEF CallsInv, TypeOK
<1>2. ASSUME NEW r \in Rules, DestroyRule(r) PROVE Quiet
  <2> DEFINE after(i) == IF ledger[i].rule = r THEN [ledger[i] EXCEPT !.rule = NoRule] ELSE ledger[i]
  <2>1. ledger' = [i \in 1..Len(ledger) |-> after(i)]
    BY <1>1, <1>2 DEF DestroyRule
  <2>2. ASSUME NEW i \in 1..Len(ledger) PROVE after(i) \in Rows /\ SameButRule(after(i), ledger[i])
    <3>1. PICK row \in Rows : row = ledger[i]
      BY <1>1
    <3>2. LET gone == [row EXCEPT !.rule = NoRule] IN gone \in Rows /\ SameButRule(gone, row)
      BY DEF Rows, SameButRule
    <3>3. SameButRule(row, row)
      BY DEF SameButRule
    <3> QED  BY <3>1, <3>2, <3>3
  <2> HIDE DEF after
  <2>3. Len(ledger) \in Nat
    BY <1>1
  <2>4. ledger' \in Seq(Rows) /\ Len(ledger') = Len(ledger)
    BY <2>1, <2>2, <2>3
  <2>5. \A i \in 1..Len(ledger) : SameButRule(ledger'[i], ledger[i])
    BY <2>1, <2>2
  <2>6. calls' = calls /\ UNCHANGED <<call, assets, counter, history>>
    BY <1>2 DEF DestroyRule
  <2> QED  BY <1>1, <2>4, <2>5, <2>6 DEF Quiet
<1>3. ASSUME NEW r \in Rules, CreateRule(r) PROVE Quiet
  BY <1>3, QuietSame DEF CreateRule
<1>4. ASSUME RefreshRules PROVE Quiet
  BY <1>4, QuietSame DEF RefreshRules, db, bounds
<1> QED  BY <1>2, <1>3, <1>4

LEMMA StepKinds ==
  ASSUME CallsInv, [Next]_vars
  PROVE  Quiet \/ \E w \in Workers, d \in Calls : Stepped(w, d) /\ CallOK(d)'
<1>1. CASE UNCHANGED vars
  BY <1>1, QuietSame DEF vars, db, bounds
<1>2. ASSUME NEW w \in Workers, WorkerStep(w)
      PROVE  \E d \in Calls : Stepped(w, d) /\ CallOK(d)'
  <2>1. CASE Insert(w)
    BY <2>1, InsertSteps
  <2>2. CASE Decide(w)
    BY <2>2, DecideSteps
  <2>3. CASE Record(w)
    BY <2>3, RecordSteps
  <2>4. CASE Commit(w)
    BY <2>4, CommitSteps
  <2>5. CASE SilentRollback(w)
    BY <2>5, RollbackSteps
  <2>6. CASE Notify(w)
    BY <2>6, NotifySteps
  <2>7. CASE Consequence(w)
    BY <2>7, Doomed, DecideFailsSteps, RecordFailsSteps, CountLostSteps DEF Consequence, DeadlockVictim
  <2> QED  BY <1>2, <2>1, <2>2, <2>3, <2>4, <2>5, <2>6, <2>7 DEF WorkerStep
<1>3. ASSUME NEW w \in Workers, Failure(w)
      PROVE  \E d \in Calls : Stepped(w, d) /\ CallOK(d)'
  BY <1>3, Doomed, DecideFailsSteps, RecordFailsSteps, CountLostSteps, NotifySteps DEF Failure
<1> QED  BY <1>1, <1>2, <1>3, BeginSteps, RuleSteps DEF Next

\* The failure and rule bounds, and the rules.
LEMMA RestKeeps ==
  ASSUME TypeOK, [Next]_vars
  PROVE  RestOK'
<1> USE DEF TypeOK, RestOK, db, bounds
<1>1. CASE UNCHANGED vars
  BY <1>1 DEF vars
<1>2. ASSUME NEW w \in Workers, WorkerStep(w) PROVE RestOK'
  BY <1>2 DEF WorkerStep, Insert, Decide, Record, Commit, SilentRollback, Notify, Consequence,
       InsertFails, DecideFails, RecordFails, CountLost, DeadlockVictim, CommitFails, Rollback
<1>3. ASSUME NEW w \in Workers, Failure(w) PROVE RestOK'
  <2>1. failures' = failures + 1
    BY <1>3 DEF Failure
  <2>2. CASE InsertFails(w) \/ Killed(w)
    BY <2>1, <2>2 DEF InsertFails, Killed, Rollback
  <2>3. CASE DecideFails(w)
    BY <2>1, <2>3 DEF DecideFails
  <2>4. CASE RecordFails(w)
    BY <2>1, <2>4 DEF RecordFails
  <2>5. CASE NotifyFails(w)
    BY <2>1, <2>5 DEF NotifyFails
  <2>6. CASE CountLost(w)
    BY <2>1, <2>6 DEF CountLost
  <2> QED  BY <1>3, <2>2, <2>3, <2>4, <2>5, <2>6 DEF Failure
<1>4. ASSUME NEW w \in Workers, NEW kind \in Kinds, NEW batch \in Batches, Begin(w, kind, batch)
      PROVE  RestOK'
  BY <1>4 DEF Begin
<1>5. ASSUME NEW r \in Rules, CreateRule(r) \/ DestroyRule(r) PROVE RestOK'
  BY <1>5 DEF CreateRule, DestroyRule
<1>6. ASSUME RefreshRules PROVE RestOK'
  BY <1>6 DEF RefreshRules
<1> QED  BY <1>1, <1>2, <1>3, <1>4, <1>5, <1>6 DEF Next

LEMMA CountedTypes ==
  ASSUME NEW rows \in Seq(Rows), NEW o
  PROVE  Counted(rows, o) \in Nat
<1>1. Len(rows) \in Nat /\ DOMAIN rows = 1..Len(rows)
  OBVIOUS
<1>2. IsFiniteSet(1..Len(rows))
  BY <1>1, FS_Interval
<1>3. IsFiniteSet({i \in DOMAIN rows : rows[i].counted /\ rows[i].outcome = o})
  BY <1>1, <1>2, FS_Subset
<1> QED  BY <1>3, FS_CardinalityType DEF Counted

\* Signals are typed.
LEMMA SentTypes ==
  ASSUME TypeOK, NEW c \in Calls, NEW n \in Int, Send(c, n)
  PROVE  alerted' \subseteq Nat \X Nat /\ announced' \subseteq Nat \X Assets
<1>1. c.id \in Nat /\ c.made \in Seq(Assets) /\ Len(c.made) \in Nat
  BY DEF Calls
<1>2. \A i \in 1..Len(c.made) : c.made[i] \in Assets
  BY <1>1
<1>3. \A i \in {j \in 1..Len(c.made) : j <= n} : <<c.id, c.made[i]>> \in Nat \X Assets
  BY <1>1, <1>2
<1>4. \A i \in 1..(n - Len(c.made)) : <<c.id, i>> \in Nat \X Nat
  BY <1>1
<1> QED  BY <1>3, <1>4 DEF Send, TypeOK

LEMMA TypesKeep ==
  ASSUME CallsInv, [Next]_vars
  PROVE  TypeOK'
<1>1. TypeOK /\ RestOK'
  BY RestKeeps DEF CallsInv
<1>2. CASE Quiet
  BY <1>1, <1>2 DEF Quiet, TypeOK, RestOK, history
<1>3. ASSUME NEW w \in Workers, NEW d \in Calls, Stepped(w, d)
      PROVE  TypeOK'
  <2>1. call' \in [Workers -> Calls]
    BY <1>1, <1>3 DEF Stepped, Become, TypeOK
  <2>2. CASE Opened(w, d) \/ Extended(w, d) \/ Moved(w, d) \/ Aborted(w, d)
    BY <1>1, <2>1, <2>2 DEF Opened, Extended, Moved, Aborted, Fixed, TypeOK, RestOK, history
  <2>3. CASE Committed(w, d)
    <3>1. Commit(w)
      BY <2>3 DEF Committed
    <3>2. ledger' \in Seq(Rows)
      BY <3>1, LedgerGrows
    <3>3. call[w].rows \in Seq(Rows) /\ call[w].made \in Seq(Assets)
      BY OneCall
    <3>4. counter' \in [Outcomes -> Nat]
      <4>1. \A o \in Outcomes : Counted(call[w].rows, o) \in Nat /\ counter[o] \in Nat
        BY <1>1, <3>3, CountedTypes DEF TypeOK
      <4>2. \A o \in Outcomes : counter[o] + Counted(call[w].rows, o) \in Nat
        BY <4>1
      <4>3. counter' = [o \in Outcomes |-> counter[o] + Counted(call[w].rows, o)]
        BY <3>1 DEF Commit
      <4> HIDE DEF Counted
      <4> QED  BY <4>2, <4>3
    <3>5. assets' \subseteq Assets
      <4>1. Members(call[w].made) \subseteq Assets
        BY <3>3 DEF Members
      <4> QED  BY <1>1, <3>1, <4>1 DEF Commit, TypeOK
    <3>6. UNCHANGED history
      BY <3>1 DEF Commit
    <3> QED  BY <1>1, <2>1, <3>2, <3>4, <3>5, <3>6 DEF TypeOK, RestOK, history
  <2>4. CASE Lost(w, d)
    <3>1. call[w].id \in Nat
      BY OneCall
    <3> QED  BY <1>1, <2>1, <2>4, <3>1 DEF Lost, TypeOK, RestOK
  <2>5. CASE Signalled(w, d)
    <3>1. call[w].id \in Nat /\ call[w] \in Calls /\ call[w].made \in Seq(Assets) /\ call[w].rows \in Seq(Rows)
      BY OneCall
    <3>2. alerted' \subseteq Nat \X Nat /\ announced' \subseteq Nat \X Assets
      BY <1>1, <2>5, <3>1, SentTypes DEF Signalled
    <3> QED  BY <1>1, <2>1, <2>5, <3>1, <3>2 DEF Signalled, TypeOK, RestOK
  <2> QED  BY <1>3, <2>2, <2>3, <2>4, <2>5 DEF Stepped
<1> QED  BY <1>2, <1>3, StepKinds

\* No step takes back a call or a row.
Grown ==
  /\ calls <= calls' /\ Len(ledger) <= Len(ledger')
  /\ \A i \in 1..Len(ledger) : /\ ledger'[i].asset = ledger[i].asset
                               /\ ledger'[i].service = ledger[i].service
                               /\ ledger'[i].counted = ledger[i].counted
                               /\ ledger'[i].outcome = ledger[i].outcome

\* The other calls.
LEMMA OthersKeep ==
  ASSUME CallsInv, [Next]_vars, NEW v \in Workers, call'[v] = call[v]
  PROVE  CallOK(call[v]) /\ \A c \in Calls : c = call[v] => CallOK(c)'
<1>1. TypeOK /\ TypeOK' /\ CallOK(call[v])
  BY TypesKeep, OneCall
<1>2. calls \in Nat /\ calls' \in Nat /\ Len(ledger) \in Nat /\ Len(ledger') \in Nat
  BY <1>1 DEF TypeOK
<1>3. Grown
  <2>1. CASE Quiet
    BY <1>2, <2>1 DEF Quiet, SameButRule, Grown
  <2>2. ASSUME NEW w \in Workers, NEW d \in Calls, Committed(w, d) PROVE Grown
    <3>1. Commit(w) /\ calls' = calls
      BY <2>2 DEF Committed, Commit, bounds
    <3> QED  BY <1>2, <3>1, LedgerGrows DEF Grown
  <2>3. ASSUME NEW w \in Workers, NEW d \in Calls,
               Opened(w, d) \/ Extended(w, d) \/ Moved(w, d) \/ Aborted(w, d) \/ Lost(w, d) \/ Signalled(w, d)
        PROVE  Grown
    <3>1. ledger' = ledger /\ (calls' = calls \/ calls' = calls + 1)
      BY <2>3 DEF Opened, Extended, Moved, Aborted, Lost, Signalled, Fixed
    <3>2. calls <= calls' /\ Len(ledger) <= Len(ledger')
      BY <1>2, <3>1
    <3> QED  BY <3>1, <3>2 DEF Grown
  <2>4. CASE \E w \in Workers, d \in Calls : Stepped(w, d)
    <3>1. PICK w \in Workers, d \in Calls : Stepped(w, d)
      BY <2>4
    <3> QED  BY <2>2, <2>3, <3>1 DEF Stepped
  <2>5. Quiet \/ \E w \in Workers, d \in Calls : Stepped(w, d)
    BY StepKinds
  <2> QED  BY <2>1, <2>4, <2>5
<1>4. ASSUME NEW c \in Calls, c = call[v] PROVE CallOK(c)'
  BY <1>1, <1>2, <1>3, <1>4, CallKeeps DEF Grown
<1> QED  BY <1>1, <1>4

-----------------------------------------------------------------------------
\* The rows that are counted.
LEMMA ShiftedCount ==
  ASSUME NEW K \in SUBSET Nat, NEW n \in Nat, IsFiniteSet(K)
  PROVE  LET shifted == {n + k : k \in K}
         IN  IsFiniteSet(shifted) /\ Cardinality(shifted) = Cardinality(K)
<1> DEFINE shifted == {n + k : k \in K}
           f == [k \in K |-> n + k]
<1>1. f \in [K -> shifted]
  OBVIOUS
<1>2. \A a, b \in K : f[a] = f[b] => a = b
  OBVIOUS
<1>3. \A t \in shifted : \E k \in K : f[k] = t
  OBVIOUS
<1> HIDE DEF f, shifted
<1>4. f \in Bijection(K, shifted)
  BY <1>1, <1>2, <1>3, Fun_IsBij
<1>5. ExistsBijection(K, shifted)
  BY <1>4 DEF ExistsBijection
<1> QED  BY <1>5, FS_Bijection DEF shifted

\* Rows that are counted, by outcome.
CountedRows(rows, o) == {i \in 1..Len(rows) : rows[i].counted /\ rows[i].outcome = o}

LEMMA CountedFinite ==
  ASSUME NEW rows \in Seq(Rows), NEW o
  PROVE  /\ IsFiniteSet(CountedRows(rows, o)) /\ Cardinality(CountedRows(rows, o)) \in Nat
         /\ CountedRows(rows, o) \in SUBSET Nat
<1>1. Len(rows) \in Nat
  OBVIOUS
<1>2. IsFiniteSet(1..Len(rows))
  BY <1>1, FS_Interval
<1>3. CountedRows(rows, o) \subseteq 1..Len(rows)
  BY DEF CountedRows
<1>4. IsFiniteSet(CountedRows(rows, o))
  BY <1>2, <1>3, FS_Subset
<1> QED  BY <1>1, <1>3, <1>4, FS_CardinalityType

LEMMA CountedIs ==
  ASSUME NEW rows \in Seq(Rows), NEW o
  PROVE  Counted(rows, o) = Cardinality(CountedRows(rows, o))
<1>1. {i \in DOMAIN rows : rows[i].counted /\ rows[i].outcome = o} = CountedRows(rows, o)
  BY DEF CountedRows
<1> QED  BY <1>1 DEF Counted

LEMMA CommitCounts ==
  ASSUME CallsInv, NEW w \in Workers, Commit(w), NEW o
  PROVE  Cardinality(CountedRows(ledger', o)) =
           Cardinality(CountedRows(ledger, o)) + Cardinality(CountedRows(call[w].rows, o))
<1> DEFINE n == Len(ledger)
           rows == call[w].rows
           old == CountedRows(ledger, o)
           added == CountedRows(rows, o)
           shifted == {n + k : k \in added}
<1>1. /\ n \in Nat /\ Len(rows) \in Nat /\ ledger' \in Seq(Rows)
      /\ Len(ledger') = n + Len(rows)
      /\ \A i \in 1..n : ledger'[i] = ledger[i]
      /\ \A k \in 1..Len(rows) : ledger'[n + k] = rows[k]
      /\ \A i \in 1..Len(ledger') : i \in 1..n \/ \E k \in 1..Len(rows) : i = n + k
  BY LedgerGrows
<1>2. ledger \in Seq(Rows) /\ rows \in Seq(Rows)
  BY OneCall DEF TypeOK
<1>3. /\ IsFiniteSet(old) /\ IsFiniteSet(added) /\ added \in SUBSET Nat
      /\ Cardinality(old) \in Nat /\ Cardinality(added) \in Nat
  BY <1>2, CountedFinite
<1>4. IsFiniteSet(shifted) /\ Cardinality(shifted) = Cardinality(added)
  <2> HIDE DEF added, n
  <2> QED  BY <1>1, <1>3, ShiftedCount
<1>5. CountedRows(ledger', o) = old \cup shifted
  <2>1. ASSUME NEW i \in CountedRows(ledger', o) PROVE i \in old \cup shifted
    <3>1. i \in 1..Len(ledger') /\ ledger'[i].counted /\ ledger'[i].outcome = o
      BY <2>1 DEF CountedRows
    <3>2. CASE i \in 1..n
      BY <1>1, <3>1, <3>2 DEF CountedRows
    <3>3. CASE ~(i \in 1..n)
      <4>1. PICK k \in 1..Len(rows) : i = n + k
        BY <1>1, <3>1, <3>3
      <4>2. k \in added
        BY <1>1, <3>1, <4>1 DEF CountedRows
      <4> QED  BY <4>1, <4>2
    <3> QED  BY <3>2, <3>3
  <2>2. ASSUME NEW i \in old PROVE i \in CountedRows(ledger', o)
    <3>1. i \in 1..n /\ i \in 1..Len(ledger') /\ ledger[i].counted /\ ledger[i].outcome = o
      BY <1>1, <2>2 DEF CountedRows
    <3> QED  BY <1>1, <3>1 DEF CountedRows
  <2>3. ASSUME NEW k \in added PROVE n + k \in CountedRows(ledger', o)
    <3>1. k \in 1..Len(rows) /\ rows[k].counted /\ rows[k].outcome = o
      BY <2>3 DEF CountedRows
    <3>2. n + k \in 1..Len(ledger') /\ ledger'[n + k] = rows[k]
      BY <1>1, <3>1
    <3> QED  BY <3>1, <3>2 DEF CountedRows
  <2> HIDE DEF old, added
  <2> QED  BY <2>1, <2>2, <2>3
<1>6. old \cap shifted = {}
  <2>1. \A i \in old : i \in 1..n
    BY DEF CountedRows
  <2>2. \A k \in added : n + k > n
    BY <1>1 DEF CountedRows
  <2> HIDE DEF old, added
  <2> QED  BY <1>1, <2>1, <2>2
<1> HIDE DEF old, added, shifted
<1>7. Cardinality(old \cup shifted) = Cardinality(old) + Cardinality(shifted) - Cardinality({})
  BY <1>3, <1>4, <1>6, FS_Union
<1>8. Cardinality({}) = 0
  BY FS_EmptySet
<1> QED  BY <1>3, <1>4, <1>5, <1>7, <1>8 DEF old, added

LEMMA SeenKeeps ==
  ASSUME CallsInv, [Next]_vars
  PROVE  CountersSeen'
<1>1. TypeOK /\ TypeOK' /\ CountersSeen
  BY TypesKeep DEF CallsInv
<1>2. ASSUME counter' = counter, Len(ledger') = Len(ledger),
             \A i \in 1..Len(ledger) : SameButRule(ledger'[i], ledger[i])
      PROVE  CountersSeen'
  BY <1>1, <1>2 DEF CountersSeen, CountedIn, SameButRule
<1>3. ASSUME NEW w \in Workers, Commit(w) PROVE CountersSeen'
  <2> SUFFICES ASSUME NEW o \in Outcomes, counter'[o] = 0, NEW i \in 1..Len(ledger'),
                      ledger'[i].counted, ledger'[i].outcome = o
               PROVE  FALSE
    BY DEF CountersSeen, CountedIn
  <2> DEFINE rows == call[w].rows
  <2>1. rows \in Seq(Rows)
    BY OneCall
  <2>2. Counted(rows, o) \in Nat /\ counter[o] \in Nat /\ counter'[o] = counter[o] + Counted(rows, o)
    BY <1>1, <1>3, <2>1, CountedTypes DEF TypeOK, Commit
  <2> HIDE DEF rows
  <2>3. counter[o] = 0 /\ Counted(rows, o) = 0
    BY <2>2
  <2>4. ~(i \in 1..Len(ledger))
    <3> SUFFICES ASSUME i \in 1..Len(ledger) PROVE FALSE
      OBVIOUS
    <3>1. ledger'[i] = ledger[i]
      BY <1>3, LedgerGrows
    <3> QED  BY <1>1, <2>3, <3>1 DEF CountersSeen, CountedIn
  <2>5. PICK k \in 1..Len(rows) : i = Len(ledger) + k
    BY <1>3, <2>4, LedgerGrows DEF rows
  <2>6. rows[k].counted /\ rows[k].outcome = o
    BY <1>3, <2>5, LedgerGrows DEF rows
  <2>7. k \in CountedRows(rows, o)
    BY <2>6 DEF CountedRows
  <2>8. Cardinality(CountedRows(rows, o)) = 0 /\ IsFiniteSet(CountedRows(rows, o))
    BY <2>1, <2>3, CountedFinite, CountedIs
  <2> QED  BY <2>7, <2>8, FS_EmptySet
<1>4. CASE Quiet
  BY <1>2, <1>4 DEF Quiet
<1>5. ASSUME NEW w \in Workers, NEW d \in Calls, Stepped(w, d) PROVE CountersSeen'
  <2>1. CASE Committed(w, d)
    BY <1>3, <2>1 DEF Committed
  <2>2. CASE ~Committed(w, d)
    <3>1. counter' = counter /\ ledger' = ledger
      BY <1>5, <2>2 DEF Stepped, Opened, Extended, Moved, Aborted, Lost, Signalled, Fixed
    <3> QED  BY <1>2, <3>1 DEF SameButRule
  <2> QED  BY <2>1, <2>2
<1> QED  BY <1>4, <1>5, StepKinds

LEMMA CallsKeep ==
  ASSUME CallsInv, [Next]_vars
  PROVE  CallsInv'
<1>1. TypeOK' /\ TypeOK
  BY TypesKeep DEF CallsInv
<1>2. ASSUME NEW v \in Workers PROVE CallOK(call[v])'
  <2>1. call[v] \in Calls
    BY <1>1 DEF TypeOK
  <2>2. ASSUME call'[v] = call[v] PROVE CallOK(call[v])'
    <3>1. PICK c \in Calls : c = call[v]
      BY <2>1
    <3>2. CallOK(c)'
      BY <2>2, <3>1, OthersKeep
    <3>3. PICK e : e = call'[v]
      OBVIOUS
    <3>4. e = c
      BY <2>2, <3>1, <3>3
    <3> QED  BY <3>2, <3>1, <2>2
  <2>3. ASSUME call'[v] # call[v] PROVE CallOK(call[v])'
    <3>1. PICK w \in Workers, d \in Calls : Stepped(w, d) /\ CallOK(d)'
      BY <2>3, StepKinds DEF Quiet
    <3>2. v = w /\ call'[v] = d
      BY <1>1, <2>3, <3>1 DEF Stepped, Become, TypeOK
    <3> QED  BY <3>1, <3>2
  <2> QED  BY <2>2, <2>3
<1> QED  BY <1>1, <1>2, SeenKeeps DEF CallsInv

LEMMA CallsStart ==
  ASSUME Init
  PROVE  CallsInv
<1>1. TypeOK
  <2>1. <<>> \in Seq(Rows)
    OBVIOUS
  <2> QED  BY <2>1, IdleOK DEF Init, TypeOK
<1>2. \A w \in Workers : CallOK(call[w])
  BY IdleOK DEF Init, CallOK
<1>3. CountersSeen
  BY DEF Init, CountersSeen, CountedIn
<1> QED  BY <1>1, <1>2, <1>3 DEF CallsInv

\* Every variable keeps its type: rows, items and calls stay records of the modelled
\* shape through every statement that fails (persistence.py:62-159, 190-285).
THEOREM PersistenceTypes == Spec => []TypeOK
<1>1. Init => CallsInv
  BY CallsStart
<1>2. CallsInv /\ [Next]_vars => CallsInv'
  BY CallsKeep
<1>3. CallsInv => TypeOK
  BY DEF CallsInv
<1> QED  BY <1>1, <1>2, <1>3, PTL DEF Spec

-----------------------------------------------------------------------------
\* Calls are told apart by their ids, and a call's rows are not in the ledger before
\* it commits.
IdsInv ==
  /\ \A v, w \in Workers : v # w /\ ~At(v, "idle") /\ ~At(w, "idle") => call[v].id # call[w].id
  /\ \A i \in 1..Len(ledger) : ledger[i].call \in 1..calls
  /\ \A w \in Workers : InTransaction(w) => \A i \in 1..Len(ledger) : ledger[i].call # call[w].id

LEMMA Becomes ==
  ASSUME CallsInv, NEW w \in Workers, NEW d, Stepped(w, d)
  PROVE  call'[w] = d /\ \A v \in Workers \ {w} : call'[v] = call[v]
BY DEF CallsInv, TypeOK, Stepped, Become

\* What a step does to the worker's id.
LEMMA StepIds ==
  ASSUME CallsInv, NEW w \in Workers, NEW d \in Calls, Stepped(w, d)
  PROVE  \/ /\ call[w].at = "idle" /\ d.at = "insert" /\ d.id = calls + 1 /\ calls' = calls + 1
            /\ ledger' = ledger
         \/ /\ call[w].at # "idle" /\ calls' = calls
            /\ d.at # "idle" => d.id = call[w].id
            /\ \/ ledger' = ledger /\ (d.at \in TransactionSteps => InTransaction(w))
               \/ Commit(w) /\ d.at = "notify"
<1>1. call[w] \in Calls
  BY OneCall
<1>2. CASE Opened(w, d)
  BY <1>2 DEF Opened, Fixed, At
<1>3. CASE Extended(w, d)
  <2>1. d.id = call[w].id
    BY <1>1, <1>3, InsertedFields DEF Extended, CallsInv
  <2> QED  BY <1>3, <2>1 DEF Extended, Fixed, At, InTransaction, TransactionSteps
<1>4. CASE Moved(w, d) \/ Aborted(w, d)
  BY <1>4, IdleOK DEF Moved, Aborted, Fixed, InTransaction, TransactionSteps
<1>5. CASE Committed(w, d)
  <2>1. d.id = call[w].id /\ d.at = "notify"
    BY <1>1, <1>5, CommittedFields DEF Committed
  <2>2. Commit(w) /\ call[w].at = "commit" /\ calls' = calls
    BY <1>5 DEF Committed, Commit, At, bounds
  <2> QED  BY <2>1, <2>2
<1>6. CASE Lost(w, d)
  <2>1. d.id = call[w].id /\ d.at = "notify"
    BY <1>1, <1>6, CommittedFields DEF Lost
  <2> QED  BY <1>6, <2>1 DEF Lost, InTransaction, TransactionSteps
<1>7. CASE Signalled(w, d)
  BY <1>7, IdleOK DEF Signalled, At, TransactionSteps
<1> QED  BY <1>2, <1>3, <1>4, <1>5, <1>6, <1>7 DEF Stepped

LEMMA IdsKeep ==
  ASSUME CallsInv, IdsInv, [Next]_vars
  PROVE  IdsInv'
<1>1. CallsInv' /\ TypeOK /\ calls \in Nat /\ Len(ledger) \in Nat
  <2>1. CallsInv'
    BY CallsKeep
  <2>2. TypeOK /\ calls \in Nat /\ Len(ledger) \in Nat
    BY DEF CallsInv, TypeOK
  <2> QED  BY <2>1, <2>2
<1>2. \A v \in Workers : ~At(v, "idle") => call[v].id \in 1..calls
  BY DEF CallsInv, CallOK, At
<1>3. CASE Quiet
  <2>1. \A i \in 1..Len(ledger') : i \in 1..Len(ledger) /\ ledger'[i].call = ledger[i].call
    BY <1>3 DEF Quiet, SameButRule
  <2>2. call' = call /\ \A n \in 1..calls : n \in 1..calls'
    BY <1>1, <1>3 DEF Quiet
  <2> QED  BY <2>1, <2>2 DEF IdsInv, At, InTransaction
<1>4. ASSUME NEW w \in Workers, NEW d \in Calls, Stepped(w, d) PROVE IdsInv'
  <2>1. call'[w] = d /\ \A v \in Workers \ {w} : call'[v] = call[v]
    BY <1>4, Becomes
  <2>2. CASE /\ call[w].at = "idle" /\ d.at = "insert" /\ d.id = calls + 1 /\ calls' = calls + 1
             /\ ledger' = ledger
    <3>1. \A n \in 1..calls : n # calls + 1 /\ n \in 1..calls'
      BY <1>1, <2>2
    <3>2. (\A u, v \in Workers : u # v /\ ~At(u, "idle") /\ ~At(v, "idle") => call[u].id # call[v].id)'
      <4> SUFFICES ASSUME NEW u \in Workers, NEW v \in Workers, u # v,
                          call'[u].at # "idle", call'[v].at # "idle"
                   PROVE  call'[u].id # call'[v].id
        BY DEF At
      <4>1. CASE u = w
        BY <1>2, <2>1, <2>2, <3>1, <4>1 DEF At
      <4>2. CASE v = w
        BY <1>2, <2>1, <2>2, <3>1, <4>2 DEF At
      <4>3. CASE u # w /\ v # w
        BY <2>1, <4>3 DEF IdsInv, At
      <4> QED  BY <4>1, <4>2, <4>3
    <3>3. \A i \in 1..Len(ledger') : ledger'[i].call \in 1..calls'
      BY <2>2, <3>1 DEF IdsInv
    <3>4. (\A v \in Workers : InTransaction(v) => \A i \in 1..Len(ledger) : ledger[i].call # call[v].id)'
      <4> SUFFICES ASSUME NEW v \in Workers, call'[v].at \in TransactionSteps, NEW i \in 1..Len(ledger')
                   PROVE  ledger'[i].call # call'[v].id
        BY DEF InTransaction
      <4>1. CASE v = w
        BY <2>1, <2>2, <3>1, <4>1 DEF IdsInv
      <4>2. CASE v # w
        BY <2>1, <2>2, <4>2 DEF IdsInv, InTransaction
      <4> QED  BY <4>1, <4>2
    <3> QED  BY <3>2, <3>3, <3>4 DEF IdsInv
  <2>3. CASE /\ call[w].at # "idle" /\ calls' = calls
             /\ d.at # "idle" => d.id = call[w].id
             /\ \/ ledger' = ledger /\ (d.at \in TransactionSteps => InTransaction(w))
                \/ Commit(w) /\ d.at = "notify"
    <3>1. \A v \in Workers : /\ call'[v].at # "idle" => call[v].at # "idle" /\ call'[v].id = call[v].id
                             /\ call'[v].at \in TransactionSteps => call[v].at \in TransactionSteps
      BY <2>1, <2>3 DEF InTransaction, TransactionSteps
    <3>2. (\A u, v \in Workers : u # v /\ ~At(u, "idle") /\ ~At(v, "idle") => call[u].id # call[v].id)'
      BY <3>1 DEF IdsInv, At
    <3>3. CASE ledger' = ledger
      BY <2>3, <3>1, <3>2, <3>3 DEF IdsInv, InTransaction, TransactionSteps
    <3>4. CASE Commit(w) /\ d.at = "notify"
      <4>1. call[w].id \in 1..calls /\ \A k \in 1..Len(call[w].rows) : call[w].rows[k].call = call[w].id
        BY <2>3, OneCall DEF CallOK, RowsPlaced, RowIds
      <4>2. \A i \in 1..Len(ledger') : \/ i \in 1..Len(ledger) /\ ledger'[i] = ledger[i]
                                       \/ ledger'[i].call = call[w].id
        <5> SUFFICES ASSUME NEW i \in 1..Len(ledger'), ~(i \in 1..Len(ledger))
                     PROVE  ledger'[i].call = call[w].id
          BY <3>4, LedgerGrows
        <5>1. PICK k \in 1..Len(call[w].rows) : i = Len(ledger) + k
          BY <3>4, LedgerGrows
        <5>2. ledger'[i] = call[w].rows[k]
          BY <3>4, <5>1, LedgerGrows
        <5> QED  BY <4>1, <5>2
      <4>3. \A i \in 1..Len(ledger') : ledger'[i].call \in 1..calls'
        BY <2>3, <4>1, <4>2 DEF IdsInv
      <4>4. \A v \in Workers : call'[v].at \in TransactionSteps => v # w /\ call[w].id # call'[v].id
        <5> SUFFICES ASSUME NEW v \in Workers, call'[v].at \in TransactionSteps
                     PROVE  v # w /\ call[w].id # call'[v].id
          OBVIOUS
        <5>1. v # w
          BY <2>1, <3>4 DEF TransactionSteps
        <5>2. call[v].at # "idle" /\ call'[v] = call[v]
          BY <2>1, <5>1 DEF TransactionSteps
        <5> QED  BY <2>3, <5>1, <5>2 DEF IdsInv, At
      <4>5. \A v \in Workers : call'[v].at \in TransactionSteps =>
              \A i \in 1..Len(ledger') : ledger'[i].call # call'[v].id
        BY <3>1, <4>2, <4>4 DEF IdsInv, InTransaction, TransactionSteps
      <4> QED  BY <3>2, <4>3, <4>5 DEF IdsInv, InTransaction
    <3> QED  BY <2>3, <3>3, <3>4
  <2> QED  BY <1>4, <2>2, <2>3, StepIds
<1> QED  BY <1>3, <1>4, StepKinds

-----------------------------------------------------------------------------
\* A row that was a first sight had no row of the flow before its call began, and none
\* of its own call; a row that was not one had a row of the flow before it.
Sight(j) ==
  LET row == ledger[j]
  IN  /\ row.new => /\ row.service /\ row.since < j /\ ~FlowIn(row.asset, row.since)
                    /\ \A i \in 1..(j - 1) : ledger[i].call = row.call => ledger[i].asset # row.asset
      /\ row.service /\ row.how = "classified" /\ ~row.new => FlowIn(row.asset, j - 1)

SightsInv == \A j \in 1..Len(ledger) : Sight(j)

\* What is known of a row does not change when the ledger grows or a rule is deleted.
LEMMA SightKeeps ==
  ASSUME TypeOK, NEW j \in 1..Len(ledger), Sight(j),
         \A i \in 1..j : SameButRule(ledger'[i], ledger[i])
  PROVE  Sight(j)'
<1> DEFINE row == ledger[j]
           next == ledger'[j]
<1>1. j \in 1..j /\ j \in Nat
  OBVIOUS
<1>2. /\ next.call = row.call /\ next.asset = row.asset /\ next.service = row.service
      /\ next.new = row.new /\ next.since = row.since /\ next.how = row.how
  BY <1>1 DEF SameButRule
<1>3. row.since \in Nat
  <2>1. row \in Rows
    BY DEF TypeOK
  <2> QED  BY <2>1 DEF Rows
<1>4. \A a : \A n \in Int : n < j => (FlowIn(a, n)' <=> FlowIn(a, n))
  <2> SUFFICES ASSUME NEW a, NEW n \in Int, n < j PROVE FlowIn(a, n)' <=> FlowIn(a, n)
    OBVIOUS
  <2>1. \A i \in 1..n : ledger'[i].asset = ledger[i].asset /\ ledger'[i].service = ledger[i].service
    BY <1>1 DEF SameButRule
  <2> QED  BY <2>1 DEF FlowIn
<1>5. \A i \in 1..(j - 1) : ledger'[i].call = ledger[i].call /\ ledger'[i].asset = ledger[i].asset
  BY <1>1 DEF SameButRule
<1>6. CASE row.new
  <2>1. /\ row.service /\ row.since < j /\ ~FlowIn(row.asset, row.since)
        /\ \A i \in 1..(j - 1) : ledger[i].call = row.call => ledger[i].asset # row.asset
    BY <1>6 DEF Sight
  <2>2. ~FlowIn(row.asset, row.since)'
    <3>1. PICK since, asset : since \in Nat /\ since = row.since /\ asset = row.asset
      BY <1>3
    <3>2. ~FlowIn(asset, since)'
      BY <1>4, <2>1, <3>1
    <3> QED  BY <1>2, <3>1, <3>2
  <2> QED  BY <1>2, <1>5, <1>6, <2>1, <2>2 DEF Sight
<1>7. CASE ~row.new
  <2> SUFFICES ASSUME row.service, row.how = "classified" PROVE FlowIn(row.asset, j - 1)'
    BY <1>2, <1>7 DEF Sight
  <2>1. PICK asset : asset = row.asset
    OBVIOUS
  <2>2. FlowIn(asset, j - 1)
    BY <1>7, <2>1 DEF Sight
  <2>3. FlowIn(asset, j - 1)'
    BY <1>1, <1>4, <2>2
  <2> QED  BY <1>2, <2>1, <2>3
<1> QED  BY <1>6, <1>7

\* A commit adds the rows as its transaction saw them.
LEMMA CommitSights ==
  ASSUME CallsInv, IdsInv, SightsInv, NEW w \in Workers, Commit(w)
  PROVE  SightsInv'
<1> DEFINE n == Len(ledger)
           c == call[w]
           rows == c.rows
<1>1. /\ n \in Nat /\ Len(rows) \in Nat /\ ledger' \in Seq(Rows)
      /\ \A i \in 1..n : ledger'[i] = ledger[i]
      /\ \A k \in 1..Len(rows) : ledger'[n + k] = rows[k]
      /\ \A i \in 1..Len(ledger') : i \in 1..n \/ \E k \in 1..Len(rows) : i = n + k
  BY LedgerGrows
<1>2. TypeOK /\ c.at = "commit" /\ InTransaction(w) /\ rows \in Seq(Rows) /\ c.since \in Nat
  BY OneCall DEF Commit, At, InTransaction, TransactionSteps
<1>3. c.since <= n /\ RowIds(c) /\ SawRight(c)
  BY <1>2, OneCall DEF CallOK, RowsPlaced
<1>4. ASSUME NEW j \in 1..n PROVE Sight(j)'
  <2>1. \A i \in 1..j : SameButRule(ledger'[i], ledger[i])
    BY <1>1 DEF SameButRule
  <2> QED  BY <1>2, <2>1, SightKeeps DEF SightsInv
<1>5. ASSUME NEW k \in 1..Len(rows), NEW j \in Nat, j = n + k PROVE Sight(j)'
  <2>1. PICK row : row = rows[k]
    OBVIOUS
  <2>2. j = n + k
    BY <1>5
  <2>3. /\ row.call = c.id /\ row.since = c.since /\ row.service = (c.kind # "request")
        /\ \A m \in 1..Len(rows) : rows[m].call = c.id /\ rows[m].service = (c.kind # "request")
    BY <1>3, <2>1 DEF RowIds
  <2>4. \A i \in 1..(j - 1) : i \in 1..n \/ \E m \in 1..(k - 1) : i = n + m
    <3> SUFFICES ASSUME NEW i \in 1..(j - 1), ~(i \in 1..n) PROVE \E m \in 1..(k - 1) : i = n + m
      OBVIOUS
    <3>1. i - n \in 1..(k - 1) /\ i = n + (i - n)
      BY <1>1, <2>2
    <3> QED  BY <3>1
  <2>5. \A m \in 1..(k - 1) : /\ n + m \in 1..(j - 1) /\ ledger'[n + m] = rows[m]
                              /\ m \in 1..Len(rows)
    BY <1>1, <2>2
  <2>6. \A i \in 1..n : ledger'[i] = ledger[i] /\ ledger'[i].call # c.id /\ i \in 1..(j - 1)
    BY <1>1, <1>2, <2>2 DEF IdsInv
  <2>7. ledger'[j] = row
    BY <1>1, <2>1, <2>2
  <2>8. ASSUME row.new
        PROVE  /\ row.service /\ row.since < j /\ ~FlowIn(row.asset, row.since)'
               /\ \A i \in 1..(j - 1) : ledger'[i].call = row.call => ledger'[i].asset # row.asset
    <3>1. /\ row.service /\ ~FlowIn(row.asset, c.since)
          /\ ~\E m \in 1..(k - 1) : rows[m].asset = row.asset
      BY <1>3, <2>1, <2>8 DEF SawRight
    <3>2. row.since < j
      BY <1>1, <1>2, <1>3, <2>2, <2>3
    <3>3. ~FlowIn(row.asset, row.since)'
      <4>1. \A i \in 1..c.since : i \in 1..n
        BY <1>1, <1>2, <1>3
      <4>2. \A i \in 1..c.since : ledger'[i] = ledger[i]
        BY <1>1, <4>1
      <4>3. PICK since \in Nat : since = c.since
        BY <1>2
      <4>4. ~\E i \in 1..since : ledger'[i].asset = row.asset /\ ledger'[i].service
        BY <3>1, <4>2, <4>3 DEF FlowIn
      <4> QED  BY <2>3, <4>3, <4>4 DEF FlowIn
    <3>4. \A i \in 1..(j - 1) : ledger'[i].call = row.call => ledger'[i].asset # row.asset
      <4> SUFFICES ASSUME NEW i \in 1..(j - 1), ledger'[i].call = row.call
                   PROVE  ledger'[i].asset # row.asset
        OBVIOUS
      <4>1. PICK m \in 1..(k - 1) : i = n + m
        BY <2>3, <2>4, <2>6
      <4>2. ledger'[i] = rows[m]
        BY <2>5, <4>1
      <4> QED  BY <3>1, <4>2
    <3> QED  BY <3>1, <3>2, <3>3, <3>4
  <2>9. ASSUME row.service, row.how = "classified", ~row.new PROVE FlowIn(row.asset, j - 1)'
    <3>1. FlowIn(row.asset, n) \/ \E m \in 1..(k - 1) : rows[m].asset = row.asset
      BY <1>3, <2>1, <2>9 DEF SawRight
    <3>2. \E i \in 1..(j - 1) : ledger'[i].asset = row.asset /\ ledger'[i].service
      <4>1. CASE FlowIn(row.asset, n)
        BY <2>6, <4>1 DEF FlowIn
      <4>2. CASE \E m \in 1..(k - 1) : rows[m].asset = row.asset
        BY <2>3, <2>5, <2>9, <4>2
      <4> QED  BY <3>1, <4>1, <4>2
    <3> QED  BY <3>2 DEF FlowIn
  <2> QED  BY <2>7, <2>8, <2>9 DEF Sight
<1>6. ASSUME NEW j \in 1..Len(ledger') PROVE Sight(j)'
  <2>1. CASE j \in 1..n
    BY <1>4, <2>1
  <2>2. CASE ~(j \in 1..n)
    <3>1. PICK k \in 1..Len(rows) : j = n + k
      BY <1>1, <2>2
    <3>2. j \in Nat
      OBVIOUS
    <3> QED  BY <1>5, <3>1, <3>2
  <2> QED  BY <2>1, <2>2
<1> QED  BY <1>6 DEF SightsInv

LEMMA SightsKeep ==
  ASSUME CallsInv, IdsInv, SightsInv, [Next]_vars
  PROVE  SightsInv'
<1>1. TypeOK /\ Len(ledger) \in Nat
  BY DEF CallsInv, TypeOK
<1>2. ASSUME NEW w \in Workers, Commit(w) PROVE SightsInv'
  BY <1>2, CommitSights
<1>3. ASSUME Len(ledger') = Len(ledger), \A i \in 1..Len(ledger) : SameButRule(ledger'[i], ledger[i])
      PROVE  SightsInv'
  <2> SUFFICES ASSUME NEW j \in 1..Len(ledger) PROVE Sight(j)'
    BY <1>3 DEF SightsInv
  <2>1. \A i \in 1..j : i \in 1..Len(ledger)
    BY <1>1
  <2> QED  BY <1>1, <1>3, <2>1, SightKeeps DEF SightsInv
<1>4. ASSUME ledger' = ledger PROVE SightsInv'
  BY <1>3, <1>4 DEF SameButRule
<1>5. ASSUME NEW w \in Workers, NEW d \in Calls, Stepped(w, d) PROVE SightsInv'
  BY <1>2, <1>4, <1>5, StepIds
<1> QED  BY <1>3, <1>5, StepKinds DEF Quiet

LEMMA SightsStart ==
  ASSUME Init
  PROVE  IdsInv /\ SightsInv
BY IdleOK DEF Init, IdsInv, SightsInv, At, InTransaction, TransactionSteps

LEMMA SightsGive ==
  ASSUME CallsInv, SightsInv
  PROVE  FirstSightFlagged /\ ConcurrentFirstSights
<1>1. ledger \in Seq(Rows) /\ Len(ledger) \in Nat /\ DOMAIN ledger = 1..Len(ledger)
  BY DEF CallsInv, TypeOK
<1>2. FirstSightFlagged
  BY <1>1 DEF SightsInv, Sight, FlowIn, FirstSightFlagged
<1>3. ConcurrentFirstSights
  <2> SUFFICES ASSUME NEW j \in 1..Len(ledger), NEW i \in 1..(j - 1),
                      ledger[i].asset = ledger[j].asset, ledger[i].new, ledger[j].new
               PROVE  ledger[j].since < i /\ ledger[i].call # ledger[j].call
    BY <1>1 DEF ConcurrentFirstSights
  <2>1. i \in 1..Len(ledger) /\ ledger[j].since \in Nat
    <3>1. ledger[j] \in Rows
      BY <1>1
    <3> QED  BY <1>1, <3>1 DEF Rows
  <2>2. ledger[i].service /\ ~FlowIn(ledger[j].asset, ledger[j].since)
    BY <2>1 DEF SightsInv, Sight
  <2>3. ~(i \in 1..ledger[j].since)
    BY <2>2 DEF FlowIn
  <2>4. ledger[i].call # ledger[j].call
    BY <2>1 DEF SightsInv, Sight
  <2> QED  BY <2>1, <2>3, <2>4
<1> QED  BY <1>2, <1>3

\* flow_state.py:22-33 with persistence.py:130-152, 237-263: however calls overlap
\* and abort, the first row that is committed for an asset and a service was
\* classified as first sight, unless a rule silenced it or its classifier failed.
THEOREM FirstSightHolds == Spec => []FirstSightFlagged
<1>1. Init => CallsInv /\ IdsInv /\ SightsInv
  BY CallsStart, SightsStart
<1>2. CallsInv /\ IdsInv /\ SightsInv /\ [Next]_vars => CallsInv' /\ IdsInv' /\ SightsInv'
  BY CallsKeep, IdsKeep, SightsKeep
<1>3. CallsInv /\ SightsInv => FirstSightFlagged
  BY SightsGive
<1> QED  BY <1>1, <1>2, <1>3, PTL DEF Spec

\* The same flow is first sight twice only for two calls that overlapped, whatever
\* aborts, deadlocks and deleted rules come between (flow_state.py:22-33).
THEOREM ConcurrentSightsHold == Spec => []ConcurrentFirstSights
<1>1. Init => CallsInv /\ IdsInv /\ SightsInv
  BY CallsStart, SightsStart
<1>2. CallsInv /\ IdsInv /\ SightsInv /\ [Next]_vars => CallsInv' /\ IdsInv' /\ SightsInv'
  BY CallsKeep, IdsKeep, SightsKeep
<1>3. CallsInv /\ SightsInv => ConcurrentFirstSights
  BY SightsGive
<1> QED  BY <1>1, <1>2, <1>3, PTL DEF Spec

-----------------------------------------------------------------------------
\* The shadow counters.
LEMMA SumsKeep ==
  ASSUME CallsInv, NEW o \in Outcomes, counter[o] = Counted(ledger, o), [Next]_vars
  PROVE  counter'[o] = Counted(ledger', o)
<1>1. ledger \in Seq(Rows) /\ ledger' \in Seq(Rows)
  BY TypesKeep DEF CallsInv, TypeOK
<1>2. ASSUME counter' = counter, Len(ledger') = Len(ledger),
             \A i \in 1..Len(ledger) : SameButRule(ledger'[i], ledger[i])
      PROVE  counter'[o] = Counted(ledger', o)
  <2>1. CountedRows(ledger', o) = CountedRows(ledger, o)
    BY <1>2 DEF CountedRows, SameButRule
  <2> QED  BY <1>1, <1>2, <2>1, CountedIs
<1>3. ASSUME NEW w \in Workers, Commit(w) PROVE counter'[o] = Counted(ledger', o)
  <2>1. call[w].rows \in Seq(Rows)
    BY OneCall
  <2>2. counter'[o] = counter[o] + Counted(call[w].rows, o)
    BY <1>3 DEF Commit
  <2> QED  BY <1>1, <1>3, <2>1, <2>2, CountedIs, CommitCounts
<1>4. CASE Quiet
  BY <1>2, <1>4 DEF Quiet
<1>5. ASSUME NEW w \in Workers, NEW d \in Calls, Stepped(w, d) PROVE counter'[o] = Counted(ledger', o)
  <2>1. CASE Committed(w, d)
    BY <1>3, <2>1 DEF Committed
  <2>2. CASE ~Committed(w, d)
    <3>1. counter' = counter /\ ledger' = ledger
      BY <1>5, <2>2 DEF Stepped, Opened, Extended, Moved, Aborted, Lost, Signalled, Fixed
    <3> QED  BY <1>2, <3>1 DEF SameButRule
  <2> QED  BY <2>1, <2>2
<1> QED  BY <1>4, <1>5, StepKinds

\* A row of the ledger is counted, or its outcome had no counter.
LedgerCounted(i) ==
  ledger[i].how # "default" =>
    \/ ledger[i].counted
    \/ \A j \in 1..(i - 1) : (ledger[j].counted /\ ledger[j].outcome = ledger[i].outcome)
         => ledger[j].call # ledger[i].call /\ ledger[i].since < j

CountsInv == ShadowMode => \A i \in 1..Len(ledger) : LedgerCounted(i)

\* The rows of a commit.
LEMMA CommitCounted ==
  ASSUME CallsInv, IdsInv, CountsInv, ShadowMode, NEW w \in Workers, Commit(w)
  PROVE  CountsInv'
<1> DEFINE n == Len(ledger)
           rows == call[w].rows
<1>1. /\ n \in Nat /\ Len(rows) \in Nat /\ Len(ledger') = n + Len(rows)
      /\ \A i \in 1..n : ledger'[i] = ledger[i]
      /\ \A k \in 1..Len(rows) : ledger'[n + k] = rows[k]
      /\ \A i \in 1..Len(ledger') : i \in 1..n \/ \E k \in 1..Len(rows) : i = n + k
  BY LedgerGrows
<1>2. call[w].at = "commit" /\ ~call[w].broken
  BY DEF Commit, At
<1>3. RowIds(call[w]) /\ CountedOK(call[w]) /\ call[w].since \in Nat /\ call[w].since <= n
  BY <1>2, OneCall DEF CallOK, RowsPlaced
<1>4. \A i \in 1..n : ledger[i].call # call[w].id
  BY <1>2 DEF IdsInv, InTransaction, TransactionSteps
<1>5. ASSUME NEW i \in 1..n PROVE LedgerCounted(i)'
  <2>1. \A j \in 1..(i - 1) : j \in 1..n
    BY <1>1
  <2> QED  BY <1>1, <2>1 DEF CountsInv, LedgerCounted
<1>6. ASSUME NEW k \in 1..Len(rows), rows[k].how # "default", ~rows[k].counted,
             NEW j \in 1..(n + k - 1), ledger'[j].counted, ledger'[j].outcome = rows[k].outcome
      PROVE  ledger'[j].call # rows[k].call /\ rows[k].since < j
  <2>1. RowCounted(call[w], k)
    BY <1>2, <1>3, <1>6 DEF CountedOK
  <2>2. rows[k].call = call[w].id /\ rows[k].since = call[w].since
    BY <1>3 DEF RowIds
  <2>3. ~CountedIn(rows[k].outcome, call[w].since)
    BY <1>6, <2>1 DEF RowCounted
  <2>4. \A m \in 1..(k - 1) : rows[m].counted => rows[m].outcome # rows[k].outcome
    BY <1>6, <2>1 DEF RowCounted
  <2> HIDE DEF n, rows
  <2>5. CASE j \in 1..n
    <3>1. ledger'[j] = ledger[j]
      BY <1>1, <2>5
    <3>2. ~(j \in 1..call[w].since)
      BY <1>6, <2>3, <3>1 DEF CountedIn
    <3> QED  BY <1>1, <1>3, <1>4, <2>2, <2>5, <3>1, <3>2
  <2>6. CASE ~(j \in 1..n)
    <3>1. j \in 1..Len(ledger')
      BY <1>1
    <3>2. PICK m \in 1..Len(rows) : j = n + m
      BY <1>1, <2>6, <3>1
    <3>3. m \in 1..(k - 1)
      BY <1>1, <3>2
    <3> QED  BY <1>1, <1>6, <2>4, <3>2, <3>3
  <2> QED  BY <2>5, <2>6
<1> HIDE DEF rows
<1>7. ASSUME NEW k \in 1..Len(rows), NEW i, i = n + k PROVE LedgerCounted(i)'
  <2>1. ledger'[i] = rows[k]
    BY <1>1, <1>7
  <2> SUFFICES ASSUME rows[k].how # "default", ~rows[k].counted, NEW j \in 1..(i - 1),
                      ledger'[j].counted, ledger'[j].outcome = rows[k].outcome
               PROVE  ledger'[j].call # rows[k].call /\ rows[k].since < j
    BY <2>1 DEF LedgerCounted
  <2>2. j \in 1..(n + k - 1)
    BY <1>7
  <2> QED  BY <1>6, <2>2
<1>8. ASSUME NEW i \in 1..Len(ledger') PROVE LedgerCounted(i)'
  <2>1. CASE i \in 1..n
    BY <1>5, <2>1
  <2>2. CASE ~(i \in 1..n)
    <3>1. PICK k \in 1..Len(rows) : i = n + k
      BY <1>1, <2>2
    <3> QED  BY <1>7, <3>1
  <2> QED  BY <2>1, <2>2
<1> QED  BY <1>8 DEF CountsInv

LEMMA CountsKeep ==
  ASSUME CallsInv, IdsInv, CountsInv, [Next]_vars
  PROVE  CountsInv'
<1> SUFFICES ASSUME ShadowMode PROVE CountsInv'
  BY DEF CountsInv
<1>1. Len(ledger) \in Nat
  BY DEF CallsInv, TypeOK
<1>2. ASSUME Len(ledger') = Len(ledger), \A i \in 1..Len(ledger) : SameButRule(ledger'[i], ledger[i])
      PROVE  CountsInv'
  <2> SUFFICES ASSUME NEW i \in 1..Len(ledger) PROVE LedgerCounted(i)'
    BY <1>2 DEF CountsInv
  <2>1. \A j \in 1..i : j \in 1..Len(ledger)
    BY <1>1
  <2> QED  BY <1>2, <2>1 DEF CountsInv, LedgerCounted, SameButRule
<1>3. CASE Quiet
  BY <1>2, <1>3 DEF Quiet
<1>4. ASSUME NEW w \in Workers, NEW d \in Calls, Stepped(w, d) PROVE CountsInv'
  <2>1. CASE Committed(w, d)
    BY <2>1, CommitCounted DEF Committed
  <2>2. CASE ~Committed(w, d)
    <3>1. ledger' = ledger
      BY <1>4, <2>2 DEF Stepped, Opened, Extended, Moved, Aborted, Lost, Signalled, Fixed
    <3> QED  BY <1>2, <3>1 DEF SameButRule
  <2> QED  BY <2>1, <2>2
<1> QED  BY <1>3, <1>4, StepKinds

\* persistence.py:289-308: the shadow rollup agrees with the audit trail row by row,
\* for any number of calls: of failed statements, kills and silent rollbacks only the
\* failed insert of a missing counter separates them.
THEOREM CountersHold == Spec => []ShadowCountersExact
<1> DEFINE Sums == \A o \in Outcomes : counter[o] = Counted(ledger, o)
<1>1. Init => CallsInv /\ IdsInv /\ CountsInv /\ Sums
  <2> SUFFICES ASSUME Init PROVE CountsInv /\ Sums
    BY CallsStart, SightsStart
  <2>1. CountsInv
    BY DEF Init, CountsInv
  <2>2. ASSUME NEW o \in Outcomes PROVE counter[o] = Counted(ledger, o)
    <3>1. {i \in DOMAIN ledger : ledger[i].counted /\ ledger[i].outcome = o} = {}
      BY DEF Init
    <3>2. counter[o] = 0 /\ Cardinality({}) = 0
      BY FS_EmptySet DEF Init
    <3> QED  BY <3>1, <3>2, Zenon DEF Counted
  <2> QED  BY <2>1, <2>2
<1>2. CallsInv /\ IdsInv /\ CountsInv /\ Sums /\ [Next]_vars =>
        CallsInv' /\ IdsInv' /\ CountsInv' /\ Sums'
  BY CallsKeep, IdsKeep, CountsKeep, SumsKeep
<1>3. CallsInv /\ CountsInv /\ Sums => ShadowCountersExact
  <2> HIDE DEF Sums
  <2> SUFFICES ASSUME CallsInv, CountsInv, Sums, ShadowMode
               PROVE  \A i \in DOMAIN ledger : LedgerCounted(i)
    BY DEF Sums, ShadowCountersExact, LedgerCounted
  <2>1. DOMAIN ledger = 1..Len(ledger)
    BY DEF CallsInv, TypeOK
  <2> QED  BY <2>1 DEF CountsInv
<1> HIDE DEF Sums
<1> QED  BY <1>1, <1>2, <1>3, PTL DEF Spec

-----------------------------------------------------------------------------
\* The unique key of an asset: a transaction that inserted it has it alone until the
\* asset is there, and then owes its announcement alone.
Owes(w, a) == At(w, "notify") /\ call[w].id \notin phantoms /\ a \in Members(call[w].made)
Announced(a) == \E x \in announced : x[2] = a /\ x[1] \notin phantoms

LocksInv ==
  /\ \A w \in Workers, a \in Assets : HoldsAsset(w, a) => a \notin assets
  /\ \A v, w \in Workers, a \in Assets : HoldsAsset(v, a) /\ HoldsAsset(w, a) => v = w
  /\ \A w \in Workers, a \in Assets : Owes(w, a) => a \in assets /\ ~Announced(a)
  /\ \A v, w \in Workers, a \in Assets : Owes(v, a) /\ Owes(w, a) => v = w
  /\ \A a \in Assets : Announced(a) => a \in assets

LEMMA MembersAppend ==
  ASSUME NEW s \in Seq(Assets), NEW a \in Assets
  PROVE  Members(Append(s, a)) = Members(s) \cup {a}
<1>1. Len(s) \in Nat /\ DOMAIN s = 1..Len(s) /\ DOMAIN Append(s, a) = 1..(Len(s) + 1)
  OBVIOUS
<1>2. /\ \A i \in 1..Len(s) : Append(s, a)[i] = s[i] /\ i \in 1..(Len(s) + 1)
      /\ Append(s, a)[Len(s) + 1] = a /\ Len(s) + 1 \in 1..(Len(s) + 1)
  BY <1>1
<1>3. \A i \in 1..(Len(s) + 1) : i \in 1..Len(s) \/ i = Len(s) + 1
  BY <1>1
<1>4. ASSUME NEW x \in Members(Append(s, a)) PROVE x \in Members(s) \cup {a}
  BY <1>1, <1>2, <1>3 DEF Members
<1>5. ASSUME NEW x \in Members(s) \cup {a} PROVE x \in Members(Append(s, a))
  BY <1>1, <1>2 DEF Members
<1> QED  BY <1>4, <1>5

\* What a step does to the keys and announcements of worker w.
LEMMA StepLocks ==
  ASSUME CallsInv, NEW w \in Workers, NEW d \in Calls, Stepped(w, d)
  PROVE  \/ /\ UNCHANGED <<assets, announced, phantoms>>
            /\ call[w].at # "notify" /\ d.at # "notify"
            /\ d.at \in TransactionSteps =>
                 \A a \in Members(d.made) :
                   \/ HoldsAsset(w, a)
                   \/ a \notin assets /\ \A v \in Workers \ {w} : ~HoldsAsset(v, a)
         \/ /\ UNCHANGED <<announced, phantoms>>
            /\ assets' = assets \cup Members(call[w].made)
            /\ InTransaction(w) /\ d.at = "notify" /\ d.made = call[w].made
         \/ /\ UNCHANGED <<assets, announced>>
            /\ phantoms' = phantoms \cup {d.id} /\ d.at = "notify"
         \/ /\ UNCHANGED <<assets, phantoms>>
            /\ call[w].at = "notify" /\ d.at = "idle"
            /\ announced \subseteq announced'
            /\ \A x \in announced' \ announced : x[1] = call[w].id /\ x[2] \in Members(call[w].made)
<1>1. call[w] \in Calls /\ call[w].made \in Seq(Assets) /\ call[w].todo \in Seq(Items) /\ TypeOK
  BY OneCall
<1>2. CASE Opened(w, d)
  BY <1>2 DEF Opened, Fixed, At, history, Members
<1>3. CASE Extended(w, d)
  <2> DEFINE asset == Head(call[w].todo).asset
  <2>1. /\ d.made = (IF asset \in assets \cup Members(call[w].made) THEN call[w].made
                     ELSE Append(call[w].made, asset))
        /\ d.at \in {"decide", "insert"}
    BY <1>1, <1>3, InsertedFields DEF Extended
  <2>2. asset \in Assets
    <3>1. Head(call[w].todo) \in Items
      BY <1>1, <1>3 DEF Extended
    <3> QED  BY <3>1 DEF Items
  <2> HIDE DEF asset
  <2>3. \A a \in Members(d.made) : a \in Members(call[w].made) \/ (a = asset /\ a \notin assets)
    BY <1>1, <2>1, <2>2, MembersAppend
  <2>4. call[w].at = "insert" /\ \A v \in Workers \ {w} : ~HoldsAsset(v, asset)
    BY <1>3 DEF Extended, At, asset
  <2>5. UNCHANGED <<assets, announced, phantoms>>
    BY <1>3 DEF Extended, Fixed, history
  <2> QED  BY <2>1, <2>3, <2>4, <2>5 DEF HoldsAsset, InTransaction, TransactionSteps
<1>4. CASE Moved(w, d)
  BY <1>4 DEF Moved, Fixed, history, HoldsAsset, InTransaction, TransactionSteps
<1>5. CASE Aborted(w, d)
  BY <1>5, IdleOK DEF Aborted, Fixed, history, InTransaction, TransactionSteps
<1>6. CASE Committed(w, d)
  <2>1. d.at = "notify" /\ d.made = call[w].made
    BY <1>1, <1>6, CommittedFields DEF Committed
  <2> QED  BY <1>6, <2>1 DEF Committed, Commit, At, InTransaction, TransactionSteps, history
<1>7. CASE Lost(w, d)
  <2>1. d.at = "notify" /\ d.id = call[w].id
    BY <1>1, <1>7, CommittedFields DEF Lost
  <2> QED  BY <1>7, <2>1 DEF Lost
<1>8. CASE Signalled(w, d)
  <2>1. PICK n \in Int : Send(call[w], n)
    <3>1. PICK a \in Nat, b \in Nat : a = Len(call[w].made) /\ b = Len(call[w].rows)
      BY <1>1, OneCall
    <3>2. \A n \in 0..(a + b) : n \in Int
      OBVIOUS
    <3> QED  BY <1>8, <3>1, <3>2 DEF Signalled
  <2>2. DOMAIN call[w].made = 1..Len(call[w].made)
    BY <1>1
  <2>3. /\ announced \subseteq announced'
        /\ \A x \in announced' \ announced : x[1] = call[w].id /\ x[2] \in Members(call[w].made)
    BY <2>1, <2>2 DEF Send, Members
  <2> QED  BY <1>8, <2>3, IdleOK DEF Signalled, At
<1> QED  BY <1>2, <1>3, <1>4, <1>5, <1>6, <1>7, <1>8 DEF Stepped

LEMMA LocksKeep ==
  ASSUME CallsInv, LocksInv, [Next]_vars
  PROVE  LocksInv'
<1>1. CASE Quiet
  BY <1>1 DEF Quiet, LocksInv, HoldsAsset, InTransaction, Owes, At, Announced, history
<1>2. ASSUME NEW w \in Workers, NEW d \in Calls, Stepped(w, d) PROVE LocksInv'
  <2>1. call'[w] = d /\ \A v \in Workers \ {w} : call'[v] = call[v]
    BY <1>2, Becomes
  <2>2. \A v \in Workers \ {w}, a \in Assets : HoldsAsset(v, a)' <=> HoldsAsset(v, a)
    BY <2>1 DEF HoldsAsset, InTransaction
  <2>3. \A a \in Assets : HoldsAsset(w, a)' <=> d.at \in TransactionSteps /\ a \in Members(d.made)
    BY <2>1 DEF HoldsAsset, InTransaction
  <2>4. \A a \in Assets : Owes(w, a)' <=> d.at = "notify" /\ d.id \notin phantoms' /\ a \in Members(d.made)
    BY <2>1 DEF Owes, At
  <2>5. phantoms \subseteq phantoms' =>
          \A v \in Workers \ {w}, a \in Assets : Owes(v, a)' => Owes(v, a)
    BY <2>1 DEF Owes, At
  <2>6. CASE /\ UNCHANGED <<assets, announced, phantoms>>
             /\ call[w].at # "notify" /\ d.at # "notify"
             /\ d.at \in TransactionSteps =>
                  \A a \in Members(d.made) :
                    \/ HoldsAsset(w, a)
                    \/ a \notin assets /\ \A v \in Workers \ {w} : ~HoldsAsset(v, a)
    <3>1. \A v \in Workers, a \in Assets : Owes(v, a)' => Owes(v, a)
      BY <2>4, <2>5, <2>6
    <3>2. \A a \in Assets : Announced(a)' <=> Announced(a)
      BY <2>6 DEF Announced
    <3>3. \A a \in Assets : HoldsAsset(w, a)' =>
            a \notin assets /\ \A v \in Workers \ {w} : ~HoldsAsset(v, a)
      BY <2>3, <2>6 DEF LocksInv
    <3>4. (\A v \in Workers, a \in Assets : HoldsAsset(v, a) => a \notin assets)'
      BY <2>2, <2>6, <3>3 DEF LocksInv
    <3>5. (\A u, v \in Workers, a \in Assets : HoldsAsset(u, a) /\ HoldsAsset(v, a) => u = v)'
      BY <2>2, <3>3 DEF LocksInv
    <3> QED  BY <2>6, <3>1, <3>2, <3>4, <3>5 DEF LocksInv
  <2>7. CASE /\ UNCHANGED <<announced, phantoms>>
             /\ assets' = assets \cup Members(call[w].made)
             /\ InTransaction(w) /\ d.at = "notify" /\ d.made = call[w].made
    <3>1. \A a \in Assets : ~HoldsAsset(w, a)' /\ (Announced(a)' <=> Announced(a))
      BY <2>3, <2>7 DEF Announced, TransactionSteps
    <3>2. \A a \in Assets : a \in Members(call[w].made) <=> HoldsAsset(w, a)
      BY <2>7 DEF HoldsAsset
    <3>3. \A a \in Assets : Owes(w, a)' => HoldsAsset(w, a)
      BY <2>4, <2>7, <3>2
    <3>4. \A a \in Assets : a \in assets' <=> a \in assets \/ HoldsAsset(w, a)
      BY <2>7, <3>2
    <3>5. (\A v \in Workers, a \in Assets : HoldsAsset(v, a) => a \notin assets)'
      BY <2>2, <3>1, <3>4 DEF LocksInv
    <3>6. (\A u, v \in Workers, a \in Assets : HoldsAsset(u, a) /\ HoldsAsset(v, a) => u = v)'
      BY <2>2, <3>1 DEF LocksInv
    <3>7. (\A v \in Workers, a \in Assets : Owes(v, a) => a \in assets /\ ~Announced(a))'
      <4> SUFFICES ASSUME NEW v \in Workers, NEW a \in Assets, Owes(v, a)'
                   PROVE  a \in assets' /\ ~Announced(a)'
        OBVIOUS
      <4>1. CASE v = w
        BY <3>1, <3>3, <3>4, <4>1 DEF LocksInv
      <4>2. CASE v # w
        BY <2>5, <2>7, <3>1, <3>4, <4>2 DEF LocksInv
      <4> QED  BY <4>1, <4>2
    <3>8. (\A u, v \in Workers, a \in Assets : Owes(u, a) /\ Owes(v, a) => u = v)'
      <4> SUFFICES ASSUME NEW u \in Workers, NEW v \in Workers, NEW a \in Assets,
                          Owes(u, a)', Owes(v, a)', u # v
                   PROVE  FALSE
        OBVIOUS
      <4>1. CASE u = w
        BY <2>5, <2>7, <3>3, <4>1 DEF LocksInv
      <4>2. CASE v = w
        BY <2>5, <2>7, <3>3, <4>2 DEF LocksInv
      <4>3. CASE u # w /\ v # w
        BY <2>5, <2>7, <4>3 DEF LocksInv
      <4> QED  BY <4>1, <4>2, <4>3
    <3>9. \A a \in Assets : Announced(a)' => a \in assets'
      BY <3>1, <3>4 DEF LocksInv
    <3> QED  BY <3>5, <3>6, <3>7, <3>8, <3>9 DEF LocksInv
  <2>8. CASE /\ UNCHANGED <<assets, announced>>
             /\ phantoms' = phantoms \cup {d.id} /\ d.at = "notify"
    <3>1. \A a \in Assets : ~HoldsAsset(w, a)' /\ ~Owes(w, a)' /\ (Announced(a)' => Announced(a))
      BY <2>3, <2>4, <2>8 DEF Announced, TransactionSteps
    <3>2. \A v \in Workers, a \in Assets : Owes(v, a)' => Owes(v, a)
      BY <2>5, <2>8, <3>1
    <3>3. \A v \in Workers, a \in Assets : HoldsAsset(v, a)' => HoldsAsset(v, a)
      BY <2>2, <3>1
    <3> QED  BY <2>8, <3>1, <3>2, <3>3 DEF LocksInv
  <2>9. CASE /\ UNCHANGED <<assets, phantoms>>
             /\ call[w].at = "notify" /\ d.at = "idle"
             /\ announced \subseteq announced'
             /\ \A x \in announced' \ announced : x[1] = call[w].id /\ x[2] \in Members(call[w].made)
    <3>1. \A a \in Assets : ~HoldsAsset(w, a)' /\ ~Owes(w, a)'
      BY <2>3, <2>4, <2>9 DEF TransactionSteps
    <3>2. \A v \in Workers, a \in Assets : (Owes(v, a)' => Owes(v, a) /\ v # w)
      BY <2>5, <2>9, <3>1
    <3>3. \A v \in Workers, a \in Assets : HoldsAsset(v, a)' => HoldsAsset(v, a)
      BY <2>2, <3>1
    <3>4. \A a \in Assets : Announced(a)' => Announced(a) \/ Owes(w, a)
      BY <2>9 DEF Announced, Owes, At
    <3>5. \A v \in Workers, a \in Assets : Owes(v, a)' => a \in assets' /\ ~Announced(a)'
      BY <2>9, <3>2, <3>4 DEF LocksInv
    <3> QED  BY <2>9, <3>2, <3>3, <3>4, <3>5 DEF LocksInv
  <2> QED  BY <1>2, <2>6, <2>7, <2>8, <2>9, StepLocks
<1> QED  BY <1>1, <1>2, StepKinds

\* Who announced an asset: once.
AnnouncedOnce ==
  \A x, y \in announced : (x[2] = y[2] /\ x[1] \notin phantoms /\ y[1] \notin phantoms) => x = y

LEMMA OnceKeeps ==
  ASSUME CallsInv, LocksInv, AnnouncedOnce, [Next]_vars
  PROVE  AnnouncedOnce'
<1>1. TypeOK /\ TypeOK'
  BY TypesKeep DEF CallsInv
<1>2. CASE announced' = announced /\ phantoms \subseteq phantoms'
  BY <1>2 DEF AnnouncedOnce
<1>3. ASSUME NEW w \in Workers, phantoms' = phantoms, call[w].at = "notify", announced \subseteq announced',
             \A x \in announced' \ announced : x[1] = call[w].id /\ x[2] \in Members(call[w].made)
      PROVE  AnnouncedOnce'
  <2> SUFFICES ASSUME NEW x \in announced', NEW y \in announced', x[2] = y[2],
                      x[1] \notin phantoms, y[1] \notin phantoms
               PROVE  x = y
    BY <1>3 DEF AnnouncedOnce
  <2>1. x \in Nat \X Assets /\ y \in Nat \X Assets
    BY <1>1 DEF TypeOK
  <2>2. \A z \in announced' \ announced : z[1] \notin phantoms /\ z[2] \in Assets =>
          ~Announced(z[2]) /\ z[1] = call[w].id
    <3> SUFFICES ASSUME NEW z \in announced' \ announced, z[1] \notin phantoms, z[2] \in Assets
                 PROVE  Owes(w, z[2]) /\ z[1] = call[w].id
      BY DEF LocksInv
    <3> QED  BY <1>3 DEF Owes, At
  <2>3. CASE x \in announced /\ y \in announced
    BY <2>3 DEF AnnouncedOnce
  <2>4. CASE x \notin announced /\ y \notin announced
    BY <2>1, <2>2, <2>4
  <2>5. CASE x \in announced /\ y \notin announced
    BY <2>1, <2>2, <2>5 DEF Announced
  <2>6. CASE x \notin announced /\ y \in announced
    BY <2>1, <2>2, <2>6 DEF Announced
  <2> QED  BY <2>3, <2>4, <2>5, <2>6
<1>4. ASSUME NEW w \in Workers, NEW d \in Calls, Stepped(w, d) PROVE AnnouncedOnce'
  BY <1>2, <1>3, <1>4, StepLocks
<1>5. CASE Quiet
  BY <1>2, <1>5 DEF Quiet, history
<1> QED  BY <1>4, <1>5, StepKinds

LEMMA LocksStart ==
  ASSUME Init
  PROVE  LocksInv /\ AnnouncedOnce
BY IdleOK DEF Init, LocksInv, AnnouncedOnce, HoldsAsset, InTransaction, Owes, At, Announced, TransactionSteps

\* persistence.py:88-97, 221-232: of the calls racing to create an asset one
\* announces it, and none announces an asset that is not there (phantoms aside).
THEOREM DiscoveryHolds == Spec => []DiscoveredOnce
<1>1. Init => CallsInv /\ LocksInv /\ AnnouncedOnce
  BY CallsStart, LocksStart
<1>2. CallsInv /\ LocksInv /\ AnnouncedOnce /\ [Next]_vars => CallsInv' /\ LocksInv' /\ AnnouncedOnce'
  BY CallsKeep, LocksKeep, OnceKeeps
<1>3. CallsInv /\ LocksInv /\ AnnouncedOnce => DiscoveredOnce
  <2> SUFFICES ASSUME CallsInv, LocksInv, AnnouncedOnce, NEW x \in announced, x[1] \notin phantoms
               PROVE  /\ x[2] \in assets
                      /\ \A y \in announced : (y[2] = x[2] /\ y[1] \notin phantoms) => y = x
    BY DEF DiscoveredOnce
  <2>1. x[2] \in Assets
    BY DEF CallsInv, TypeOK
  <2> QED  BY <2>1 DEF LocksInv, Announced, AnnouncedOnce
<1> QED  BY <1>1, <1>2, <1>3, PTL DEF Spec

-----------------------------------------------------------------------------
\* A call that left its transaction owes the signals of its rows, which are stored if it
\* is not a phantom.
SignalsInv ==
  /\ \A x \in alerted : x[1] \in phantoms \/ Stored(x)
  /\ \A i \in 1..Len(ledger) :
       \/ <<ledger[i].call, ledger[i].n>> \in alerted
       \/ ledger[i].call \in interrupted
       \/ \E w \in Workers : At(w, "notify") /\ call[w].id = ledger[i].call
  /\ \A w \in Workers : At(w, "notify") /\ call[w].id \notin phantoms =>
       \A k \in 1..Len(call[w].rows) : Stored(<<call[w].id, k>>)
  /\ \A w \in Workers : At(w, "notify") =>
       \A i \in 1..Len(ledger) : ledger[i].call = call[w].id => ledger[i].n \in 1..Len(call[w].rows)

\* What a step does to the rows and signals of worker w.
LEMMA StepSignals ==
  ASSUME CallsInv, NEW w \in Workers, NEW d \in Calls, Stepped(w, d)
  PROVE  \/ /\ UNCHANGED <<ledger, alerted, interrupted, phantoms>>
            /\ call[w].at # "notify" /\ d.at # "notify"
         \/ /\ UNCHANGED <<alerted, interrupted, phantoms>>
            /\ Commit(w) /\ InTransaction(w) /\ d.at = "notify"
            /\ d.id = call[w].id /\ d.rows = call[w].rows
         \/ /\ UNCHANGED <<ledger, alerted, interrupted>>
            /\ phantoms' = phantoms \cup {d.id}
            /\ InTransaction(w) /\ d.at = "notify" /\ d.id = call[w].id
         \/ /\ UNCHANGED <<ledger, phantoms>>
            /\ call[w].at = "notify" /\ d.at = "idle"
            /\ alerted \subseteq alerted' /\ interrupted \subseteq interrupted'
            /\ \A x \in alerted' \ alerted : \E k \in 1..Len(call[w].rows) : x = <<call[w].id, k>>
            /\ \/ call[w].id \in interrupted'
               \/ \A k \in 1..Len(call[w].rows) : <<call[w].id, k>> \in alerted'
<1>1. call[w] \in Calls /\ call[w].made \in Seq(Assets) /\ call[w].rows \in Seq(Rows)
      /\ call[w].todo \in Seq(Items) /\ TypeOK
  BY OneCall
<1>2. CASE Opened(w, d) \/ Moved(w, d)
  BY <1>2 DEF Opened, Moved, Fixed, At, history, InTransaction, TransactionSteps
<1>3. CASE Extended(w, d)
  <2>1. d.at \in {"decide", "insert"}
    BY <1>1, <1>3, InsertedFields DEF Extended
  <2> QED  BY <1>3, <2>1 DEF Extended, Fixed, history, At
<1>5. CASE Aborted(w, d)
  BY <1>5, IdleOK DEF Aborted, Fixed, history, InTransaction, TransactionSteps
<1>6. CASE Committed(w, d)
  <2>1. d.at = "notify" /\ d.id = call[w].id /\ d.rows = call[w].rows
    BY <1>1, <1>6, CommittedFields DEF Committed
  <2>2. Commit(w) /\ UNCHANGED <<alerted, interrupted, phantoms>>
    BY <1>6 DEF Committed, Commit, history
  <2>3. InTransaction(w)
    BY <2>2 DEF Commit, At, InTransaction, TransactionSteps
  <2> QED  BY <2>1, <2>2, <2>3
<1>7. CASE Lost(w, d)
  <2>1. d.at = "notify" /\ d.id = call[w].id
    BY <1>1, <1>7, CommittedFields DEF Lost
  <2> QED  BY <1>7, <2>1 DEF Lost
<1>8. CASE Signalled(w, d)
  <2>1. PICK a \in Nat, b \in Nat : a = Len(call[w].made) /\ b = Len(call[w].rows)
    BY <1>1
  <2>2. PICK n \in 0..(a + b) :
          /\ Send(call[w], n)
          /\ \/ n = a + b /\ UNCHANGED interrupted
             \/ interrupted' = interrupted \cup {call[w].id}
    BY <1>8, <2>1 DEF Signalled
  <2>3. alerted' = alerted \cup {<<call[w].id, i>> : i \in 1..(n - a)}
    BY <2>1, <2>2 DEF Send
  <2>4. \A i \in 1..(n - a) : i \in 1..b
    OBVIOUS
  <2>5. n = a + b => \A k \in 1..b : k \in 1..(n - a)
    OBVIOUS
  <2>6. \A x \in alerted' \ alerted : \E k \in 1..b : x = <<call[w].id, k>>
    BY <2>3, <2>4
  <2>7. call[w].id \in interrupted' \/ \A k \in 1..b : <<call[w].id, k>> \in alerted'
    BY <2>2, <2>3, <2>5
  <2>8. UNCHANGED <<ledger, phantoms>> /\ call[w].at = "notify" /\ d.at = "idle"
    BY <1>8, IdleOK DEF Signalled, At
  <2> QED  BY <2>1, <2>2, <2>3, <2>6, <2>7, <2>8
<1> QED  BY <1>2, <1>3, <1>5, <1>6, <1>7, <1>8 DEF Stepped

LEMMA StoredKeeps ==
  ASSUME NEW x, Stored(x), ledger \in Seq(Rows), ledger' \in Seq(Rows), Len(ledger) <= Len(ledger'),
         \A i \in 1..Len(ledger) : ledger'[i].call = ledger[i].call /\ ledger'[i].n = ledger[i].n
  PROVE  Stored(x)'
<1>1. Len(ledger) \in Nat /\ Len(ledger') \in Nat
      /\ DOMAIN ledger = 1..Len(ledger) /\ DOMAIN ledger' = 1..Len(ledger')
  OBVIOUS
<1>2. PICK i \in 1..Len(ledger) : <<ledger[i].call, ledger[i].n>> = x
  BY <1>1 DEF Stored
<1>3. i \in 1..Len(ledger')
  BY <1>1
<1> QED  BY <1>1, <1>2, <1>3 DEF Stored

LEMMA CommitSignals ==
  ASSUME CallsInv, IdsInv, SignalsInv, NEW w \in Workers, NEW d \in Calls, Stepped(w, d),
         UNCHANGED <<alerted, interrupted, phantoms>>, Commit(w), InTransaction(w),
         d.at = "notify", d.id = call[w].id, d.rows = call[w].rows
  PROVE  SignalsInv'
<1> DEFINE n == Len(ledger)
           rows == call[w].rows
           id == call[w].id
<1>1. /\ n \in Nat /\ Len(rows) \in Nat /\ ledger' \in Seq(Rows)
      /\ Len(ledger') = n + Len(rows)
      /\ \A i \in 1..n : ledger'[i] = ledger[i]
      /\ \A k \in 1..Len(rows) : ledger'[n + k] = rows[k]
      /\ \A i \in 1..Len(ledger') : i \in 1..n \/ \E k \in 1..Len(rows) : i = n + k
  BY LedgerGrows
<1>2. ledger \in Seq(Rows) /\ RowIds(call[w])
  BY OneCall DEF TypeOK, CallOK, InTransaction, TransactionSteps, RowsPlaced
<1>3. \A i \in 1..Len(ledger') :
        \/ i \in 1..n /\ ledger'[i] = ledger[i] /\ ledger[i].call # id
        \/ ledger'[i].call = id /\ ledger'[i].n \in 1..Len(rows)
  <2> SUFFICES ASSUME NEW i \in 1..Len(ledger'), ~(i \in 1..n)
               PROVE  ledger'[i].call = id /\ ledger'[i].n \in 1..Len(rows)
    BY <1>1 DEF IdsInv
  <2>1. PICK k \in 1..Len(rows) : i = n + k
    BY <1>1
  <2>2. ledger'[i] = rows[k]
    BY <1>1, <2>1
  <2> QED  BY <1>2, <2>2 DEF RowIds
<1>4. call'[w] = d /\ \A v \in Workers \ {w} : call'[v] = call[v]
  BY Becomes
<1>5. \A v \in Workers : At(v, "notify") => v # w /\ call[v].id # id
  BY DEF IdsInv, At, InTransaction, TransactionSteps
<1>6. \A x : Stored(x) => Stored(x)'
  <2>1. n <= Len(ledger')
    BY <1>1
  <2> QED  BY <1>1, <1>2, <2>1, StoredKeeps
<1>7. (\A x \in alerted : x[1] \in phantoms \/ Stored(x))'
  BY <1>6 DEF SignalsInv
<1>8. (\A i \in 1..Len(ledger) :
         \/ <<ledger[i].call, ledger[i].n>> \in alerted
         \/ ledger[i].call \in interrupted
         \/ \E v \in Workers : At(v, "notify") /\ call[v].id = ledger[i].call)'
  <2> SUFFICES ASSUME NEW i \in 1..Len(ledger')
               PROVE  \/ <<ledger'[i].call, ledger'[i].n>> \in alerted
                      \/ ledger'[i].call \in interrupted
                      \/ \E v \in Workers : At(v, "notify")' /\ call'[v].id = ledger'[i].call
    OBVIOUS
  <2>1. CASE ledger'[i].call = id
    BY <1>4, <2>1 DEF At
  <2>2. CASE i \in 1..n /\ ledger'[i] = ledger[i]
    <3>1. ASSUME NEW v \in Workers, At(v, "notify"), call[v].id = ledger[i].call
          PROVE  At(v, "notify")' /\ call'[v].id = ledger'[i].call
      BY <1>4, <1>5, <2>2, <3>1 DEF At
    <3> QED  BY <2>2, <3>1 DEF SignalsInv
  <2> QED  BY <1>3, <2>1, <2>2
<1>9. (\A v \in Workers : At(v, "notify") /\ call[v].id \notin phantoms =>
         \A k \in 1..Len(call[v].rows) : Stored(<<call[v].id, k>>))'
  <2> SUFFICES ASSUME NEW v \in Workers, call'[v].at = "notify", call'[v].id \notin phantoms,
                      NEW k \in 1..Len(call'[v].rows), NEW x, x = <<call'[v].id, k>>
               PROVE  Stored(x)'
    BY DEF At
  <2>1. CASE v = w
    <3>1. x = <<id, k>> /\ k \in 1..Len(rows)
      BY <1>4, <2>1
    <3>2. n + k \in 1..Len(ledger') /\ ledger'[n + k] = rows[k]
      BY <1>1, <3>1
    <3>3. rows[k].call = id /\ rows[k].n = k
      BY <1>2, <3>1 DEF RowIds
    <3>4. DOMAIN ledger' = 1..Len(ledger')
      BY <1>1
    <3>5. \E i \in DOMAIN ledger' : <<ledger'[i].call, ledger'[i].n>> = x
      BY <3>1, <3>2, <3>3, <3>4
    <3> QED  BY <3>5 DEF Stored
  <2>2. CASE v # w
    BY <1>4, <1>6, <2>2 DEF SignalsInv, At
  <2> QED  BY <2>1, <2>2
<1>10. (\A v \in Workers : At(v, "notify") =>
          \A i \in 1..Len(ledger) : ledger[i].call = call[v].id => ledger[i].n \in 1..Len(call[v].rows))'
  <2> SUFFICES ASSUME NEW v \in Workers, call'[v].at = "notify", NEW i \in 1..Len(ledger'),
                      ledger'[i].call = call'[v].id
               PROVE  ledger'[i].n \in 1..Len(call'[v].rows)
    BY DEF At
  <2>1. CASE v = w
    BY <1>3, <1>4, <2>1
  <2>2. CASE v # w
    <3>1. call'[v] = call[v] /\ At(v, "notify")
      BY <1>4, <2>2 DEF At
    <3>2. ledger'[i].call # id
      BY <1>5, <3>1
    <3> QED  BY <1>3, <3>1, <3>2 DEF SignalsInv
  <2> QED  BY <2>1, <2>2
<1> QED  BY <1>7, <1>8, <1>9, <1>10 DEF SignalsInv

LEMMA SignalsKeep ==
  ASSUME CallsInv, IdsInv, SignalsInv, [Next]_vars
  PROVE  SignalsInv'
<1>1. ledger \in Seq(Rows) /\ Len(ledger) \in Nat /\ DOMAIN ledger = 1..Len(ledger)
  BY DEF CallsInv, TypeOK
<1>2. CASE Quiet
  <2>1. /\ UNCHANGED <<call, alerted, interrupted, phantoms>>
        /\ ledger' \in Seq(Rows) /\ Len(ledger') = Len(ledger)
        /\ \A i \in 1..Len(ledger) : ledger'[i].call = ledger[i].call /\ ledger'[i].n = ledger[i].n
    BY <1>2 DEF Quiet, SameButRule, history
  <2>2. \A x : Stored(x) => Stored(x)'
    BY <1>1, <2>1, StoredKeeps
  <2>3. (\A x \in alerted : x[1] \in phantoms \/ Stored(x))'
    BY <2>1, <2>2 DEF SignalsInv
  <2>4. (\A w \in Workers : At(w, "notify") /\ call[w].id \notin phantoms =>
           \A k \in 1..Len(call[w].rows) : Stored(<<call[w].id, k>>))'
    <3> SUFFICES ASSUME NEW w \in Workers, call'[w].at = "notify", call'[w].id \notin phantoms',
                        NEW k \in 1..Len(call'[w].rows), NEW x, x = <<call'[w].id, k>>
                 PROVE  Stored(x)'
      BY DEF At
    <3> QED  BY <2>1, <2>2 DEF SignalsInv, At
  <2> QED  BY <2>1, <2>3, <2>4 DEF SignalsInv, At
<1>3. ASSUME NEW w \in Workers, NEW d \in Calls, Stepped(w, d) PROVE SignalsInv'
  <2>1. call'[w] = d /\ \A v \in Workers \ {w} : call'[v] = call[v]
    BY <1>3, Becomes
  <2>2. ASSUME ledger' = ledger, NEW x PROVE Stored(x)' <=> Stored(x)
    BY <2>2 DEF Stored
  <2>3. CASE /\ UNCHANGED <<ledger, alerted, interrupted, phantoms>>
             /\ call[w].at # "notify" /\ d.at # "notify"
    <3>1. \A v \in Workers : At(v, "notify")' <=> At(v, "notify")
      BY <2>1, <2>3 DEF At
    <3>2. \A v \in Workers : At(v, "notify") => call'[v] = call[v]
      BY <2>1, <2>3 DEF At
    <3>3. (\A x \in alerted : x[1] \in phantoms \/ Stored(x))'
      BY <2>2, <2>3 DEF SignalsInv
    <3>4. (\A v \in Workers : At(v, "notify") /\ call[v].id \notin phantoms =>
             \A k \in 1..Len(call[v].rows) : Stored(<<call[v].id, k>>))'
      <4> SUFFICES ASSUME NEW v \in Workers, At(v, "notify")', call'[v].id \notin phantoms',
                          NEW k \in 1..Len(call'[v].rows), NEW x, x = <<call'[v].id, k>>
                   PROVE  Stored(x)'
        OBVIOUS
      <4> QED  BY <2>2, <2>3, <3>1, <3>2 DEF SignalsInv
    <3> QED  BY <2>3, <3>1, <3>2, <3>3, <3>4 DEF SignalsInv
  <2>4. CASE /\ UNCHANGED <<alerted, interrupted, phantoms>>
             /\ Commit(w) /\ InTransaction(w) /\ d.at = "notify"
             /\ d.id = call[w].id /\ d.rows = call[w].rows
    BY <1>3, <2>4, CommitSignals
  <2>5. CASE /\ UNCHANGED <<ledger, alerted, interrupted>>
             /\ phantoms' = phantoms \cup {d.id}
             /\ InTransaction(w) /\ d.at = "notify" /\ d.id = call[w].id
    <3>1. \A v \in Workers : At(v, "notify") => v # w /\ call'[v] = call[v] /\ At(v, "notify")'
      BY <2>1, <2>5 DEF At, InTransaction, TransactionSteps
    <3>2. \A v \in Workers : At(v, "notify")' => v = w \/ (At(v, "notify") /\ call'[v] = call[v])
      BY <2>1 DEF At
    <3>3. (\A x \in alerted : x[1] \in phantoms \/ Stored(x))'
      BY <2>2, <2>5 DEF SignalsInv
    <3>4. (\A v \in Workers : At(v, "notify") /\ call[v].id \notin phantoms =>
             \A k \in 1..Len(call[v].rows) : Stored(<<call[v].id, k>>))'
      <4> SUFFICES ASSUME NEW v \in Workers, At(v, "notify")', call'[v].id \notin phantoms',
                          NEW k \in 1..Len(call'[v].rows), NEW x, x = <<call'[v].id, k>>
                   PROVE  Stored(x)'
        OBVIOUS
      <4>1. v # w
        BY <2>1, <2>5
      <4> QED  BY <2>2, <2>5, <3>2, <4>1 DEF SignalsInv
    <3>5. \A i \in 1..Len(ledger) : ledger[i].call # d.id
      BY <2>5 DEF IdsInv
    <3>6. \A v \in Workers : At(v, "notify")' =>
            \A i \in 1..Len(ledger) : ledger[i].call = call'[v].id => ledger[i].n \in 1..Len(call'[v].rows)
      BY <2>1, <3>2, <3>5 DEF SignalsInv
    <3>7. \A i \in 1..Len(ledger) :
            \/ <<ledger[i].call, ledger[i].n>> \in alerted
            \/ ledger[i].call \in interrupted
            \/ \E v \in Workers : At(v, "notify")' /\ call'[v].id = ledger[i].call
      BY <3>1 DEF SignalsInv
    <3> QED  BY <2>5, <3>3, <3>4, <3>6, <3>7 DEF SignalsInv
  <2>6. CASE /\ UNCHANGED <<ledger, phantoms>>
             /\ call[w].at = "notify" /\ d.at = "idle"
             /\ alerted \subseteq alerted' /\ interrupted \subseteq interrupted'
             /\ \A x \in alerted' \ alerted : \E k \in 1..Len(call[w].rows) : x = <<call[w].id, k>>
             /\ \/ call[w].id \in interrupted'
                \/ \A k \in 1..Len(call[w].rows) : <<call[w].id, k>> \in alerted'
    <3>1. \A v \in Workers : At(v, "notify")' => At(v, "notify") /\ call'[v] = call[v]
      BY <2>1, <2>6 DEF At
    <3>2. \A v \in Workers : At(v, "notify") => v = w \/ (At(v, "notify")' /\ call'[v] = call[v])
      BY <2>1 DEF At
    <3>3. \A x \in alerted' : x[1] \in phantoms \/ Stored(x)
      <4> SUFFICES ASSUME NEW x \in alerted' \ alerted, x[1] \notin phantoms PROVE Stored(x)
        BY DEF SignalsInv
      <4>1. PICK k \in 1..Len(call[w].rows) : x = <<call[w].id, k>>
        BY <2>6
      <4> QED  BY <2>6, <4>1 DEF SignalsInv, At
    <3>4. (\A x \in alerted : x[1] \in phantoms \/ Stored(x))'
      BY <2>2, <2>6, <3>3
    <3>5. (\A v \in Workers : At(v, "notify") /\ call[v].id \notin phantoms =>
             \A k \in 1..Len(call[v].rows) : Stored(<<call[v].id, k>>))'
      <4> SUFFICES ASSUME NEW v \in Workers, At(v, "notify")', call'[v].id \notin phantoms',
                          NEW k \in 1..Len(call'[v].rows), NEW x, x = <<call'[v].id, k>>
                   PROVE  Stored(x)'
        OBVIOUS
      <4> QED  BY <2>2, <2>6, <3>1 DEF SignalsInv
    <3>6. \A i \in 1..Len(ledger) :
            \/ <<ledger[i].call, ledger[i].n>> \in alerted'
            \/ ledger[i].call \in interrupted'
            \/ \E v \in Workers : At(v, "notify")' /\ call'[v].id = ledger[i].call
      <4> SUFFICES ASSUME NEW i \in 1..Len(ledger)
                   PROVE  \/ <<ledger[i].call, ledger[i].n>> \in alerted'
                          \/ ledger[i].call \in interrupted'
                          \/ \E v \in Workers : At(v, "notify")' /\ call'[v].id = ledger[i].call
        OBVIOUS
      <4>1. CASE ledger[i].call = call[w].id
        <5>1. ledger[i].n \in 1..Len(call[w].rows)
          BY <2>6, <4>1 DEF SignalsInv, At
        <5> QED  BY <2>6, <4>1, <5>1
      <4>2. CASE ledger[i].call # call[w].id
        BY <2>6, <3>2, <4>2 DEF SignalsInv
      <4> QED  BY <4>1, <4>2
    <3> QED  BY <2>6, <3>1, <3>4, <3>5, <3>6 DEF SignalsInv
  <2> QED  BY <1>3, <2>3, <2>4, <2>5, <2>6, StepSignals
<1> QED  BY <1>2, <1>3, StepKinds

LEMMA SignalsStart ==
  ASSUME Init
  PROVE  SignalsInv
BY IdleOK DEF Init, SignalsInv, At

\* persistence.py:141-159, 265-285: an alert stands for a stored row, but for the
\* calls rolled back without an exception, and a stored row is alerted on, but for the
\* calls whose signals a receiver or a kill cut short.
THEOREM AlertsAgree == Spec => []RowsAndAlertsAgree
<1>1. Init => CallsInv /\ IdsInv /\ SignalsInv
  BY CallsStart, SightsStart, SignalsStart
<1>2. CallsInv /\ IdsInv /\ SignalsInv /\ [Next]_vars => CallsInv' /\ IdsInv' /\ SignalsInv'
  BY CallsKeep, IdsKeep, SignalsKeep
<1>3. CallsInv /\ SignalsInv => RowsAndAlertsAgree
  <2>1. CallsInv => DOMAIN ledger = 1..Len(ledger)
    BY DEF CallsInv, TypeOK
  <2> QED  BY <2>1 DEF SignalsInv, RowsAndAlertsAgree
<1> QED  BY <1>1, <1>2, <1>3, PTL DEF Spec

\* A call that is running is of a kind there is; only the egress path loses its rows.
KindsInv ==
  /\ \A w \in Workers : ~At(w, "idle") => call[w].kind \in Kinds
  /\ "egress" \notin Kinds => phantoms = {}

LEMMA KindsKeep ==
  ASSUME CallsInv, KindsInv, [Next]_vars
  PROVE  KindsInv'
<1>1. CASE Quiet
  BY <1>1 DEF Quiet, KindsInv, At, history
<1>2. ASSUME NEW w \in Workers, NEW d \in Calls, Stepped(w, d) PROVE KindsInv'
  <2>1. d.at # "idle" => d.kind \in Kinds
    <3>1. CASE Opened(w, d)
      BY <3>1 DEF Opened
    <3>2. CASE Extended(w, d)
      <4>1. d.kind = call[w].kind
        BY <3>2, OneCall, InsertedFields DEF Extended
      <4> QED  BY <3>2, <4>1 DEF Extended, KindsInv, At
    <3>3. CASE Moved(w, d)
      BY <3>3 DEF Moved, KindsInv, At, InTransaction, TransactionSteps
    <3>4. CASE Aborted(w, d) \/ Signalled(w, d)
      BY <3>4, IdleOK DEF Aborted, Signalled
    <3>5. CASE Committed(w, d) \/ Lost(w, d)
      <4>1. d.kind = call[w].kind
        BY <3>5, OneCall, CommittedFields DEF Committed, Lost
      <4>2. ~At(w, "idle")
        BY <3>5 DEF Committed, Commit, Lost, At, InTransaction, TransactionSteps
      <4> QED  BY <4>1, <4>2 DEF KindsInv
    <3> QED  BY <1>2, <3>1, <3>2, <3>3, <3>4, <3>5 DEF Stepped
  <2>2. "egress" \notin Kinds => phantoms' = phantoms
    <3>1. CASE Lost(w, d)
      <4>1. ~At(w, "idle") /\ call[w].kind = "egress"
        BY <3>1 DEF Lost, At, InTransaction, TransactionSteps
      <4> QED  BY <4>1 DEF KindsInv
    <3>2. CASE ~Lost(w, d)
      BY <1>2, <3>2
         DEF Stepped, Opened, Extended, Moved, Aborted, Committed, Commit, Signalled, Fixed, history
    <3> QED  BY <3>1, <3>2
  <2>3. call' = [call EXCEPT ![w] = d] /\ call \in [Workers -> Calls]
    BY <1>2, OneCall DEF Stepped, Become, TypeOK
  <2>4. ASSUME NEW v \in Workers, call'[v].at # "idle" PROVE call'[v].kind \in Kinds
    <3>1. CASE v = w
      BY <2>1, <2>3, <2>4, <3>1
    <3>2. CASE v # w
      <4>1. call'[v] = call[v]
        BY <2>3, <3>2
      <4> QED  BY <2>4, <4>1 DEF KindsInv, At
    <3> QED  BY <3>1, <3>2
  <2> QED  BY <2>2, <2>4 DEF KindsInv, At
<1> QED  BY <1>1, <1>2, StepKinds

\* signals.py:55-58: where the interceptor is not installed, the middleware and the
\* Presidio task keep what the docstring says: persist_matches sends no signal of a row
\* that is not stored, however calls overlap and whatever fails.
THEOREM RequestSignalsCarryRows ==
  ASSUME "egress" \notin Kinds
  PROVE  Spec => []SignalsCarryRows
<1>1. Init => CallsInv /\ IdsInv /\ SignalsInv /\ KindsInv
  <2>1. Init => KindsInv
    BY IdleOK DEF Init, KindsInv, At
  <2> QED  BY <2>1, CallsStart, SightsStart, SignalsStart
<1>2. CallsInv /\ IdsInv /\ SignalsInv /\ KindsInv /\ [Next]_vars
        => CallsInv' /\ IdsInv' /\ SignalsInv' /\ KindsInv'
  BY CallsKeep, IdsKeep, SignalsKeep, KindsKeep
<1>3. SignalsInv /\ KindsInv => SignalsCarryRows
  BY DEF SignalsInv, KindsInv, SignalsCarryRows
<1> QED  BY <1>1, <1>2, <1>3, PTL DEF Spec

-----------------------------------------------------------------------------
\* The audit log.  A transaction's rows name assets that are there or that it made,
\* it made no others, and neither it nor its assets were heard of.
RowsMade(c) ==
  /\ \A k \in 1..Len(c.rows) : /\ c.rows[k].asset \in assets \cup Members(c.made)
                               /\ c.rows[k].counted => ShadowMode
  /\ \A a \in Members(c.made) : \E k \in 1..Len(c.rows) : c.rows[k].asset = a
  /\ c.at # "insert" => c.rows # <<>>

LogInv ==
  /\ \A p \in phantoms : p \in 1..calls
  /\ \A x \in announced : x[1] \in 1..calls
  /\ \A w \in Workers : InTransaction(w) =>
       /\ call[w].id \notin phantoms
       /\ \A x \in announced : x[1] # call[w].id
       /\ RowsMade(call[w])

LEMMA ExtendedMade ==
  ASSUME TypeOK, NEW c \in Calls, c.todo # <<>>, RowsMade(c)
  PROVE  RowsMade(Inserted(c))
<1>1. PICK row : row = NewRow(c, Head(c.todo))
  OBVIOUS
<1>2. PICK d : d = Inserted(c)
  OBVIOUS
<1>3. PICK asset : asset = Head(c.todo).asset
  OBVIOUS
<1>4. /\ row \in Rows /\ d.rows = Append(c.rows, row)
      /\ d.made = IF asset \in assets \cup Members(c.made) THEN c.made ELSE Append(c.made, asset)
  BY <1>1, <1>2, <1>3, InsertedFields
<1>5. row.asset = asset /\ ~row.counted
  BY <1>1, <1>3 DEF NewRow
<1>6. c.rows \in Seq(Rows) /\ c.made \in Seq(Assets) /\ asset \in Assets
  <2>1. c.todo \in Seq(Items)
    BY DEF Calls
  <2>2. Head(c.todo) \in Items
    BY <2>1
  <2> QED  BY <1>3, <2>2 DEF Calls, Items
<1>7. /\ Len(d.rows) = Len(c.rows) + 1 /\ d.rows[Len(c.rows) + 1] = row /\ Len(c.rows) \in Nat
      /\ \A k \in 1..Len(c.rows) : d.rows[k] = c.rows[k]
  BY <1>4, <1>6, Appended
<1>8. \/ asset \in assets \cup Members(c.made) /\ Members(d.made) = Members(c.made)
      \/ Members(d.made) = Members(c.made) \cup {asset}
  BY <1>4, <1>6, MembersAppend
<1>9. \A k \in 1..Len(d.rows) : k = Len(c.rows) + 1 \/ k \in 1..Len(c.rows)
  BY <1>7
<1>10. \A k \in 1..Len(d.rows) : /\ d.rows[k].asset \in assets \cup Members(d.made)
                                 /\ d.rows[k].counted => ShadowMode
  <2>1. asset \in assets \cup Members(d.made)
    BY <1>8
  <2>2. \A a \in assets \cup Members(c.made) : a \in assets \cup Members(d.made)
    BY <1>8
  <2>3. \A k \in 1..Len(c.rows) : /\ c.rows[k].asset \in assets \cup Members(c.made)
                                  /\ c.rows[k].counted => ShadowMode
    BY DEF RowsMade
  <2> QED  BY <1>5, <1>7, <1>9, <2>1, <2>2, <2>3
<1>11. \A a \in Members(d.made) : \E k \in 1..Len(d.rows) : d.rows[k].asset = a
  <2>1. Len(c.rows) + 1 \in 1..Len(d.rows) /\ \A k \in 1..Len(c.rows) : k \in 1..Len(d.rows)
    BY <1>7
  <2>2. \A a \in Members(d.made) : a = asset \/ a \in Members(c.made)
    BY <1>8
  <2> QED  BY <1>5, <1>7, <2>1, <2>2 DEF RowsMade
<1>12. d.rows # <<>>
  BY <1>7
<1> QED  BY <1>2, <1>10, <1>11, <1>12 DEF RowsMade

\* What a step leaves of a transaction.
LEMMA StepMade ==
  ASSUME CallsInv, LogInv, NEW w \in Workers, NEW d \in Calls, Stepped(w, d),
         d.at \in TransactionSteps
  PROVE  /\ RowsMade(d) /\ assets' = assets
         /\ \/ d.id = calls + 1 /\ calls' = calls + 1
            \/ InTransaction(w) /\ d.id = call[w].id
<1>1. call[w] \in Calls /\ TypeOK
  BY OneCall
<1>2. CASE Opened(w, d)
  <2>1. d.rows = <<>> /\ d.made = <<>> /\ d.at = "insert"
    BY <1>2 DEF Opened
  <2>2. Members(d.made) = {} /\ \A k \in 1..Len(d.rows) : FALSE
    BY <2>1 DEF Members
  <2>3. RowsMade(d)
    BY <2>1, <2>2 DEF RowsMade
  <2> QED  BY <1>2, <2>3 DEF Opened, Fixed
<1>3. CASE Extended(w, d)
  <2>1. InTransaction(w) /\ call[w].todo # <<>> /\ d = Inserted(call[w]) /\ assets' = assets
    BY <1>3 DEF Extended, InTransaction, At, TransactionSteps, Fixed
  <2>2. RowsMade(call[w])
    BY <2>1 DEF LogInv
  <2> QED  BY <1>1, <2>1, <2>2, ExtendedMade, InsertedFields
<1>4. CASE Moved(w, d)
  <2>1. InTransaction(w) /\ d.id = call[w].id /\ d.made = call[w].made /\ assets' = assets
    BY <1>4 DEF Moved, Fixed
  <2>2. Rewritten(call[w].rows, d.rows) /\ call[w].at # "insert"
    BY <1>4 DEF Moved
  <2>3. RowsMade(call[w])
    BY <2>1 DEF LogInv
  <2>4. call[w].rows \in Seq(Rows) /\ d.rows \in Seq(Rows)
    BY <1>1 DEF Calls
  <2>5. d.rows # <<>>
    BY <2>2, <2>3, <2>4 DEF RowsMade, Rewritten
  <2> QED  BY <2>1, <2>2, <2>3, <2>5 DEF RowsMade, Rewritten
<1>5. CASE Committed(w, d) \/ Lost(w, d)
  BY <1>1, <1>5, CommittedFields DEF Committed, Lost, TransactionSteps
<1>6. CASE Aborted(w, d) \/ Signalled(w, d)
  BY <1>6, IdleOK DEF Aborted, Signalled, TransactionSteps
<1> QED  BY <1>2, <1>3, <1>4, <1>5, <1>6 DEF Stepped

\* Whom a step makes a phantom, and whose assets it announces.
LEMMA StepHeard ==
  ASSUME CallsInv, NEW w \in Workers, NEW d \in Calls, Stepped(w, d)
  PROVE  /\ calls \in Nat /\ calls' \in Nat /\ calls <= calls' /\ assets \subseteq assets'
         /\ phantoms \subseteq phantoms'
         /\ \A p \in phantoms' \ phantoms : p = call[w].id /\ InTransaction(w) /\ d.at = "notify"
         /\ \A x \in announced' \ announced : x[1] = call[w].id /\ At(w, "notify")
<1>1. calls \in Nat /\ (calls' = calls \/ calls' = calls + 1)
  BY DEF CallsInv, TypeOK, Stepped, Opened, Extended, Moved, Aborted, Committed, Commit, Lost, Signalled, bounds
<1>2. /\ phantoms \subseteq phantoms'
      /\ \A p \in phantoms' \ phantoms : p = call[w].id /\ InTransaction(w) /\ d.at = "notify"
  BY StepSignals
<1>3. /\ assets \subseteq assets'
      /\ \A x \in announced' \ announced : x[1] = call[w].id /\ At(w, "notify")
  BY StepLocks DEF At
<1> QED  BY <1>1, <1>2, <1>3

LEMMA LogKeeps ==
  ASSUME CallsInv, IdsInv, LogInv, [Next]_vars
  PROVE  LogInv'
<1>1. CASE Quiet
  <2>1. UNCHANGED <<call, assets, announced, phantoms>> /\ calls \in Nat /\ calls' \in Nat /\ calls <= calls'
    BY <1>1 DEF Quiet, history, CallsInv, TypeOK
  <2>2. \A k \in 1..calls : k \in 1..calls'
    BY <2>1
  <2> QED  BY <2>1, <2>2 DEF LogInv, InTransaction, RowsMade
<1>2. ASSUME NEW w \in Workers, NEW d \in Calls, Stepped(w, d) PROVE LogInv'
  <2>1. call'[w] = d /\ \A v \in Workers \ {w} : call'[v] = call[v]
    BY <1>2, Becomes
  <2>2. /\ calls \in Nat /\ calls' \in Nat /\ calls <= calls' /\ assets \subseteq assets'
        /\ \A p \in phantoms' \ phantoms : p = call[w].id /\ InTransaction(w) /\ d.at = "notify"
        /\ \A x \in announced' \ announced : x[1] = call[w].id /\ At(w, "notify")
    BY <1>2, StepHeard
  <2>3. InTransaction(w) \/ At(w, "notify") => call[w].id \in 1..calls /\ call[w].at # "idle"
    <3>1. CallOK(call[w])
      BY OneCall
    <3> QED  BY <3>1 DEF CallOK, InTransaction, At, TransactionSteps
  <2>4. (\A p \in phantoms : p \in 1..calls)' /\ (\A x \in announced : x[1] \in 1..calls)'
    <3>1. \A k \in 1..calls : k \in 1..calls'
      BY <2>2
    <3> QED  BY <2>2, <2>3, <3>1 DEF LogInv
  <2>5. ASSUME NEW v \in Workers \ {w}, InTransaction(v)'
        PROVE  /\ call'[v].id \notin phantoms'
               /\ \A x \in announced' : x[1] # call'[v].id
               /\ RowsMade(call[v])'
    <3>1. InTransaction(v) /\ call'[v] = call[v] /\ call[v].at # "idle"
      BY <2>1, <2>5 DEF InTransaction, TransactionSteps
    <3>2. InTransaction(w) \/ At(w, "notify") => call[v].id # call[w].id
      BY <2>3, <3>1 DEF IdsInv, At
    <3>3. RowsMade(call[v]) /\ call[v].id \notin phantoms /\ \A x \in announced : x[1] # call[v].id
      BY <3>1 DEF LogInv
    <3>4. RowsMade(call[v])'
      BY <2>2, <3>1, <3>3 DEF RowsMade
    <3> QED  BY <2>2, <3>1, <3>2, <3>3, <3>4
  <2>6. ASSUME InTransaction(w)'
        PROVE  /\ d.id \notin phantoms'
               /\ \A x \in announced' : x[1] # d.id
               /\ RowsMade(call[w])'
    <3>1. d.at \in TransactionSteps /\ d.at # "notify"
      BY <2>1, <2>6 DEF InTransaction, TransactionSteps
    <3>2. /\ RowsMade(d) /\ assets' = assets
          /\ \/ d.id = calls + 1 /\ calls' = calls + 1
             \/ InTransaction(w) /\ d.id = call[w].id
      BY <1>2, <3>1, StepMade
    <3>3. phantoms' \subseteq phantoms
      BY <2>2, <3>1
    <3>4. RowsMade(call[w])'
      BY <2>1, <3>2 DEF RowsMade
    <3>5. CASE InTransaction(w) /\ d.id = call[w].id
      <4>1. ~At(w, "notify")
        BY <3>5 DEF InTransaction, At, TransactionSteps
      <4> QED  BY <2>2, <3>3, <3>4, <3>5, <4>1 DEF LogInv
    <3>6. CASE d.id = calls + 1
      <4>1. \A k \in 1..calls : k # d.id
        BY <2>2, <3>6
      <4> QED  BY <2>2, <2>3, <3>3, <3>4, <4>1 DEF LogInv
    <3> QED  BY <3>2, <3>5, <3>6
  <2> QED  BY <2>1, <2>4, <2>5, <2>6 DEF LogInv
<1> QED  BY <1>1, <1>2, StepKinds

LEMMA LogStarts ==
  ASSUME Init
  PROVE  LogInv
BY IdleOK DEF Init, LogInv, InTransaction, TransactionSteps

\* What the variables of AuditLog stand for.
Entries == [i \in DOMAIN ledger |-> Entry(ledger[i])]
Owed == {Due(w) : w \in {v \in Workers : At(v, "notify") /\ call[v].id \notin phantoms}}
Heard == {x \in alerted : x[1] \notin phantoms}
Told == {x \in announced : x[1] \notin phantoms}
LogVars == <<Entries, assets, counter, Owed, Heard, Told>>

EntryRows == [call : Nat, n : Nat, asset : Assets, service : BOOLEAN, outcome : Outcomes,
              how : {"default", "allowlisted", "classified"}, new : BOOLEAN,
              since : Nat, counted : BOOLEAN]

LEMMA EntryFields ==
  ASSUME NEW row \in Rows
  PROVE  /\ Entry(row) \in EntryRows
         /\ Entry(row).call = row.call /\ Entry(row).n = row.n /\ Entry(row).asset = row.asset
         /\ Entry(row).service = row.service /\ Entry(row).outcome = row.outcome
         /\ Entry(row).how = row.how /\ Entry(row).new = row.new
         /\ Entry(row).since = row.since /\ Entry(row).counted = row.counted
BY DEF Entry, Rows, EntryRows

LEMMA EntriesOf ==
  ASSUME NEW rows \in Seq(Rows)
  PROVE  LET entries == [i \in DOMAIN rows |-> Entry(rows[i])]
         IN  /\ entries \in Seq(EntryRows) /\ Len(entries) = Len(rows) /\ Len(rows) \in Nat
             /\ \A i \in 1..Len(rows) : entries[i] = Entry(rows[i])
<1>1. Len(rows) \in Nat /\ DOMAIN rows = 1..Len(rows)
  OBVIOUS
<1>2. \A i \in 1..Len(rows) : Entry(rows[i]) \in EntryRows
  BY EntryFields
<1> QED  BY <1>1, <1>2

\* Deleting a rule takes nothing from an entry.
LEMMA QuietLog ==
  ASSUME CallsInv, Quiet
  PROVE  UNCHANGED LogVars
<1>1. /\ ledger \in Seq(Rows) /\ ledger' \in Seq(Rows) /\ Len(ledger') = Len(ledger)
      /\ \A i \in 1..Len(ledger) : SameButRule(ledger'[i], ledger[i])
      /\ UNCHANGED <<call, assets, counter, alerted, announced, phantoms>>
  BY DEF CallsInv, TypeOK, Quiet, history
<1>2. DOMAIN ledger = 1..Len(ledger) /\ DOMAIN ledger' = DOMAIN ledger
  BY <1>1
<1>3. ASSUME NEW i \in 1..Len(ledger) PROVE Entry(ledger'[i]) = Entry(ledger[i])
  BY <1>1 DEF SameButRule, Entry
<1>4. Entries' = Entries
  BY <1>2, <1>3 DEF Entries
<1>5. Owed' = Owed /\ Heard' = Heard /\ Told' = Told
  BY <1>1 DEF Owed, Due, At, Heard, Told
<1> QED  BY <1>1, <1>4, <1>5 DEF LogVars

\* What a call owes once it is d, the others owing what they did.
LEMMA StepOwed ==
  ASSUME CallsInv, IdsInv, NEW w \in Workers, NEW d \in Calls, Stepped(w, d)
  PROVE  LET due == [call |-> d.id, rows |-> Len(d.rows), made |-> Members(d.made)]
             others == {Due(v) : v \in {u \in Workers \ {w} : At(u, "notify") /\ call[u].id \notin phantoms}}
         IN  /\ Owed' = others \cup (IF d.at = "notify" /\ d.id \notin phantoms' THEN {due} ELSE {})
             /\ Owed = others \cup (IF At(w, "notify") /\ call[w].id \notin phantoms THEN {Due(w)} ELSE {})
             /\ At(w, "notify") => Due(w) \notin others
<1> DEFINE due == [call |-> d.id, rows |-> Len(d.rows), made |-> Members(d.made)]
           others == {Due(v) : v \in {u \in Workers \ {w} : At(u, "notify") /\ call[u].id \notin phantoms}}
<1>1. call'[w] = d /\ \A v \in Workers \ {w} : call'[v] = call[v]
  BY Becomes
<1>2. /\ phantoms \subseteq phantoms'
      /\ \A p \in phantoms' \ phantoms : p = call[w].id /\ InTransaction(w)
  BY StepHeard
<1>3. ASSUME NEW v \in Workers \ {w}
      PROVE  /\ Due(v)' = Due(v) /\ (At(v, "notify")' <=> At(v, "notify"))
             /\ At(v, "notify") => (call'[v].id \notin phantoms' <=> call[v].id \notin phantoms)
  <2>1. At(v, "notify") /\ InTransaction(w) => call[v].id # call[w].id
    BY DEF IdsInv, At, InTransaction, TransactionSteps
  <2> QED  BY <1>1, <1>2, <2>1 DEF Due, At
<1>4. Due(w)' = due /\ (At(w, "notify")' <=> d.at = "notify") /\ call'[w].id = d.id
  BY <1>1 DEF Due, At
<1>5. Owed' = others \cup (IF d.at = "notify" /\ d.id \notin phantoms' THEN {due} ELSE {})
  <2>1. Owed' = {Due(v)' : v \in {u \in Workers : At(u, "notify")' /\ call'[u].id \notin phantoms'}}
    BY DEF Owed
  <2> HIDE DEF due
  <2>2. ASSUME NEW x \in Owed' PROVE x \in others \/ (x = due /\ d.at = "notify" /\ d.id \notin phantoms')
    <3>1. PICK v \in Workers : At(v, "notify")' /\ call'[v].id \notin phantoms' /\ x = Due(v)'
      BY <2>1, <2>2
    <3> QED  BY <1>3, <1>4, <3>1
  <2>3. ASSUME NEW x \in others PROVE x \in Owed'
    <3>1. PICK v \in Workers \ {w} : At(v, "notify") /\ call[v].id \notin phantoms /\ x = Due(v)
      BY <2>3
    <3> QED  BY <1>3, <2>1, <3>1
  <2>4. d.at = "notify" /\ d.id \notin phantoms' => due \in Owed'
    BY <1>4, <2>1
  <2> HIDE DEF others
  <2> QED  BY <2>2, <2>3, <2>4
<1>6. Owed = others \cup (IF At(w, "notify") /\ call[w].id \notin phantoms THEN {Due(w)} ELSE {})
  BY DEF Owed
<1>7. At(w, "notify") => Due(w) \notin others
  <2> SUFFICES ASSUME At(w, "notify"), NEW v \in Workers \ {w}, At(v, "notify") PROVE Due(v) # Due(w)
    OBVIOUS
  <2>1. call[v].id # call[w].id
    BY DEF IdsInv, At
  <2> QED  BY <2>1 DEF Due
<1> QED  BY <1>5, <1>6, <1>7

\* A call that owes nothing before and after leaves what is owed alone.
LEMMA OwedSame ==
  ASSUME CallsInv, IdsInv, NEW w \in Workers, NEW d \in Calls, Stepped(w, d),
         ~At(w, "notify") \/ call[w].id \in phantoms, d.at # "notify" \/ d.id \in phantoms'
  PROVE  Owed' = Owed
<1> DEFINE others == {Due(v) : v \in {u \in Workers \ {w} : At(u, "notify") /\ call[u].id \notin phantoms}}
<1>1. Owed' = others \cup {}
  BY StepOwed
<1>2. Owed = others \cup {}
  BY StepOwed
<1> HIDE DEF others
<1> QED  BY <1>1, <1>2

\* A rollback that nobody notices adds nothing and takes nothing back.
LEMMA LostLog ==
  ASSUME CallsInv, IdsInv, SignalsInv, LogInv, NEW w \in Workers, NEW d \in Calls, Stepped(w, d), Lost(w, d)
  PROVE  UNCHANGED LogVars
<1>1. /\ InTransaction(w) /\ phantoms' = phantoms \cup {call[w].id}
      /\ UNCHANGED <<ledger, assets, counter, alerted, announced>>
  BY DEF Lost
<1>2. d.id = call[w].id
  <2>1. call[w] \in Calls
    BY OneCall
  <2> QED  BY <2>1, CommittedFields DEF Lost
<1>3. Entries' = Entries
  BY <1>1 DEF Entries
<1>4. Owed' = Owed
  <2>1. ~At(w, "notify")
    BY <1>1 DEF At, InTransaction, TransactionSteps
  <2> QED  BY <1>1, <1>2, <2>1, OwedSame
<1>5. \A x \in announced : x[1] # call[w].id
  BY <1>1 DEF LogInv
<1>6. \A x \in alerted : x[1] \in phantoms \/ x[1] # call[w].id
  <2> SUFFICES ASSUME NEW x \in alerted, Stored(x) PROVE x[1] # call[w].id
    BY DEF SignalsInv
  <2>1. DOMAIN ledger = 1..Len(ledger)
    BY DEF CallsInv, TypeOK
  <2>2. PICK i \in 1..Len(ledger) : <<ledger[i].call, ledger[i].n>> = x
    BY <2>1 DEF Stored
  <2> QED  BY <1>1, <2>2 DEF IdsInv
<1>7. Heard' = Heard /\ Told' = Told
  BY <1>1, <1>5, <1>6 DEF Heard, Told
<1> QED  BY <1>1, <1>3, <1>4, <1>7 DEF LogVars

\* A step inside a transaction, or into one, is none of the log's.
LEMMA InsideLog ==
  ASSUME CallsInv, IdsInv, NEW w \in Workers, NEW d \in Calls, Stepped(w, d),
         Opened(w, d) \/ Extended(w, d) \/ Moved(w, d) \/ Aborted(w, d)
  PROVE  UNCHANGED LogVars
<1>1. UNCHANGED <<ledger, assets, counter, alerted, announced, phantoms>>
  BY DEF Opened, Extended, Moved, Aborted, Fixed, history
<1>2. d.at # "notify"
  <2>1. call[w] \in Calls /\ TypeOK
    BY OneCall
  <2>2. Extended(w, d) => d.at # "notify"
    BY <2>1, InsertedFields DEF Extended
  <2> QED  BY <2>2, IdleOK DEF Opened, Moved, Aborted, TransactionSteps
<1>3. ~At(w, "notify")
  BY DEF Opened, Extended, Moved, Aborted, InTransaction, TransactionSteps, At
<1>4. Owed' = Owed
  BY <1>2, <1>3, OwedSame
<1> QED  BY <1>1, <1>4 DEF LogVars, Entries, Heard, Told

\* What a call sends, in order, of what it owes.
LEMMA SignalledLog ==
  ASSUME CallsInv, IdsInv, NEW w \in Workers, NEW d \in Calls, Stepped(w, d), Signalled(w, d)
  PROVE  UNCHANGED LogVars \/ Log!Next
<1> DEFINE c == call[w]
           told(n) == {c.made[i] : i \in {j \in 1..Len(c.made) : j <= n}}
<1>1. c.made \in Seq(Assets) /\ c.rows \in Seq(Rows)
  BY OneCall
<1>2. PICK a \in Nat, b \in Nat : a = Len(c.made) /\ b = Len(c.rows)
  BY <1>1
<1>3. PICK n \in 0..(a + b) : Send(c, n)
  BY <1>2 DEF Signalled
<1>4. /\ announced' = announced \cup {<<c.id, c.made[i]>> : i \in {j \in 1..a : j <= n}}
      /\ alerted' = alerted \cup {<<c.id, i>> : i \in 1..(n - a)}
  BY <1>2, <1>3 DEF Send
<1>5. At(w, "notify") /\ d.at = "idle" /\ UNCHANGED <<ledger, assets, counter, phantoms>>
  BY IdleOK DEF Signalled
<1>6. announced' = announced \cup {<<c.id, x>> : x \in told(n)}
  BY <1>2, <1>4
<1>7. PICK k \in 0..b : 1..(n - a) = 1..k /\ (k > 0 => n > a)
  <2>1. CASE n > a
    <3>1. n - a \in 0..b
      BY <2>1
    <3> QED  BY <2>1, <3>1
  <2>2. CASE ~(n > a)
    <3>1. 0 \in 0..b /\ 1..(n - a) = 1..0 /\ (0 > 0 => n > a)
      BY <2>2
    <3> QED  BY <3>1, Zenon
  <2> QED  BY <2>1, <2>2
<1>8. alerted' = alerted \cup {<<c.id, i>> : i \in 1..k}
  BY <1>4, <1>7
<1>9. told(n) \subseteq Members(c.made) /\ (k > 0 => told(n) = Members(c.made))
  <2>1. DOMAIN c.made = 1..a
    BY <1>1, <1>2
  <2>2. k > 0 => \A j \in 1..a : j <= n
    BY <1>7
  <2> QED  BY <1>2, <2>1, <2>2 DEF Members
<1>10. CASE c.id \in phantoms
  <2>1. Owed' = Owed
    BY <1>5, <1>10, OwedSame
  <2>2. Heard' = Heard /\ Told' = Told
    BY <1>5, <1>6, <1>8, <1>10 DEF Heard, Told
  <2> QED  BY <1>5, <2>1, <2>2 DEF LogVars, Entries
<1>11. CASE c.id \notin phantoms
  <2>1. PICK due : due = Due(w)
    OBVIOUS
  <2>2. due.call = c.id /\ due.rows = b /\ due.made = Members(c.made)
    BY <1>2, <2>1 DEF Due
  <2>3. due \in Owed /\ Owed' = Owed \ {due}
    BY <1>5, <1>11, <2>1, StepOwed
  <2>4. PICK sent : sent = told(n)
    OBVIOUS
  <2> HIDE DEF c, told
  <2>5. Told' = Told \cup {<<due.call, x>> : x \in sent}
    BY <1>5, <1>6, <1>11, <2>2, <2>4 DEF Told
  <2>6. Heard' = Heard \cup {<<due.call, i>> : i \in 1..k}
    BY <1>5, <1>8, <1>11, <2>2 DEF Heard
  <2>7. sent \in SUBSET due.made /\ k \in 0..due.rows /\ (k > 0 => sent = due.made)
    BY <1>7, <1>9, <2>2, <2>4
  <2>8. Entries' = Entries
    BY <1>5 DEF Entries
  <2>9. Log!Signal(due, sent, k)
    BY <1>5, <2>3, <2>5, <2>6, <2>7, <2>8 DEF Log!Signal, Owed, Told, Heard, Entries
  <2> QED  BY <2>3, <2>7, <2>9 DEF Log!Next, Owed
<1> QED  BY <1>10, <1>11

\* What a sequence holds after its first n elements.
LEMMA LastOf ==
  ASSUME NEW S, NEW s \in Seq(S), NEW n \in Nat, NEW m \in Nat, Len(s) = n + m
  PROVE  LET last == SubSeq(s, n + 1, n + m)
         IN  last \in Seq(S) /\ Len(last) = m /\ \A k \in 1..m : last[k] = s[n + k]
<1>1. PICK lo \in Int : lo = n + 1
  OBVIOUS
<1>2. PICK hi \in Int : hi = n + m
  OBVIOUS
<1>3. \A i \in lo..hi : s[i] \in S
  BY <1>1, <1>2
<1>4. /\ SubSeq(s, lo, hi) \in Seq(S)
      /\ Len(SubSeq(s, lo, hi)) = IF lo <= hi THEN hi - lo + 1 ELSE 0
      /\ \A i \in 1..(hi - lo + 1) : SubSeq(s, lo, hi)[i] = s[lo + i - 1]
  BY ONLY <1>3, SubSeqProperties
<1>5. PICK last : last = SubSeq(s, lo, hi)
  OBVIOUS
<1>6. hi - lo + 1 = m /\ (IF lo <= hi THEN hi - lo + 1 ELSE 0) = m
  BY <1>1, <1>2
<1>7. Len(last) = m /\ last \in Seq(S)
  BY <1>4, <1>5, <1>6
<1>8. ASSUME NEW k \in 1..m PROVE last[k] = s[n + k]
  <2>1. k \in 1..(hi - lo + 1) /\ lo + k - 1 = n + k
    BY <1>1, <1>2
  <2> QED  BY <1>4, <1>5, <2>1
<1> QED  BY <1>1, <1>2, <1>5, <1>7, <1>8

\* The entries a commit adds are its call's rows.
LEMMA AddedEntries ==
  ASSUME CallsInv, NEW w \in Workers, Commit(w), NEW added,
         added = SubSeq(Entries', Len(Entries) + 1, Len(Entries'))
  PROVE  LET rows == call[w].rows
         IN  /\ Entries' = Entries \o added
             /\ added \in Seq(EntryRows) /\ Len(added) = Len(rows) /\ DOMAIN added = 1..Len(rows)
             /\ \A k \in 1..Len(rows) : added[k] = Entry(rows[k])
<1> DEFINE rows == call[w].rows
<1>1. ledger \in Seq(Rows) /\ rows \in Seq(Rows)
  BY OneCall DEF TypeOK
<1> HIDE DEF rows
<1>2. PICK n \in Nat, m \in Nat : n = Len(ledger) /\ m = Len(rows)
  BY <1>1
<1>3. /\ ledger' \in Seq(Rows) /\ Len(ledger') = n + m
      /\ \A i \in 1..n : ledger'[i] = ledger[i]
      /\ \A k \in 1..m : ledger'[n + k] = rows[k]
  BY <1>2, LedgerGrows DEF rows
<1>4. /\ Entries \in Seq(EntryRows) /\ Len(Entries) = n
      /\ \A i \in 1..n : Entries[i] = Entry(ledger[i])
  BY <1>1, <1>2, EntriesOf DEF Entries
<1>5. PICK after : after = Entries'
  OBVIOUS
<1>6. /\ after \in Seq(EntryRows) /\ Len(after) = n + m
      /\ \A i \in 1..(n + m) : after[i] = Entry(ledger'[i])
  BY <1>3, <1>5, EntriesOf DEF Entries
<1>7. PICK before : before = Entries
  OBVIOUS
<1> HIDE DEF Entries
<1>8. added = SubSeq(after, n + 1, n + m)
  <2>1. Len(Entries) = n /\ Len(Entries') = n + m
    BY <1>4, <1>5, <1>6
  <2> QED  BY <1>5, <2>1, Zenon
<1>9. /\ added \in Seq(EntryRows) /\ Len(added) = m
      /\ \A k \in 1..m : added[k] = after[n + k]
  <2>1. after \in Seq(EntryRows) /\ Len(after) = n + m
    BY <1>6
  <2>2. /\ SubSeq(after, n + 1, n + m) \in Seq(EntryRows)
        /\ Len(SubSeq(after, n + 1, n + m)) = m
        /\ \A k \in 1..m : SubSeq(after, n + 1, n + m)[k] = after[n + k]
    BY ONLY <2>1, n \in Nat, m \in Nat, LastOf
  <2> QED  BY <1>8, <2>2, Zenon
<1>10. ASSUME NEW k \in 1..m PROVE added[k] = Entry(rows[k])
  <2>1. n + k \in 1..(n + m)
    OBVIOUS
  <2> QED  BY <1>3, <1>6, <1>9, <2>1
<1>11. after = before \o added
  <2>1. PICK whole : whole = before \o added
    OBVIOUS
  <2>2. /\ whole \in Seq(EntryRows) /\ Len(whole) = n + m
        /\ \A i \in 1..(n + m) : whole[i] = IF i <= n THEN before[i] ELSE added[i - n]
    BY <1>4, <1>7, <1>9, <2>1, ConcatProperties
  <2>3. ASSUME NEW i \in 1..(n + m) PROVE whole[i] = after[i]
    <3>1. CASE i <= n
      <4>1. i \in 1..n
        BY <3>1
      <4> QED  BY <1>3, <1>4, <1>6, <1>7, <2>2, <3>1, <4>1
    <3>2. CASE ~(i <= n)
      <4>1. i - n \in 1..m /\ n + (i - n) = i
        BY <3>2
      <4> QED  BY <1>9, <2>2, <3>2, <4>1
    <3> QED  BY <3>1, <3>2
  <2>4. whole = after
    BY <1>6, <2>2, <2>3, SeqEqual
  <2> QED  BY <2>1, <2>4
<1>12. DOMAIN added = 1..m
  BY <1>9
<1> QED  BY <1>2, <1>5, <1>7, <1>9, <1>10, <1>11, <1>12 DEF rows

\* The counts of a commit are those of the entries it adds.
LEMMA AddedCounts ==
  ASSUME CallsInv, LogInv, NEW w \in Workers, Commit(w), NEW o, NEW added,
         DOMAIN added = 1..Len(call[w].rows),
         \A k \in 1..Len(call[w].rows) : added[k] = Entry(call[w].rows[k])
  PROVE  Counted(call[w].rows, o) = Cardinality(Log!Counts(added, o))
<1> DEFINE rows == call[w].rows
<1>1. rows \in Seq(Rows) /\ DOMAIN rows = 1..Len(rows)
  BY OneCall
<1>2. ASSUME NEW k \in 1..Len(rows)
      PROVE  added[k].counted = rows[k].counted /\ added[k].outcome = rows[k].outcome
  <2>1. rows[k] \in Rows
    BY <1>1
  <2> QED  BY <2>1, EntryFields
<1> HIDE DEF rows
<1>3. {i \in DOMAIN rows : rows[i].counted /\ rows[i].outcome = o} = Log!Counts(added, o)
  BY <1>1, <1>2 DEF Log!Counts, rows
<1> QED  BY <1>3 DEF Counted, rows

\* And they are due.
LEMMA AddedDuly ==
  ASSUME CallsInv, LogInv, NEW w \in Workers, Commit(w), NEW added,
         DOMAIN added = 1..Len(call[w].rows),
         \A k \in 1..Len(call[w].rows) : added[k] = Entry(call[w].rows[k]),
         NEW k \in 1..Len(call[w].rows)
  PROVE  Log!CountedDuly(added, k)
<1> DEFINE c == call[w]
           rows == c.rows
<1>1. rows \in Seq(Rows) /\ CallOK(c) /\ c.since \in Nat
  BY OneCall
<1>2. InTransaction(w) /\ c.at = "commit" /\ ~c.broken
  BY DEF Commit, At, InTransaction, TransactionSteps
<1>3. CountedOK(c) /\ RowIds(c) /\ c.since <= Len(ledger)
  BY <1>1, <1>2 DEF CallOK, RowsPlaced
<1>4. ShadowMode => RowCounted(c, k)
  BY <1>2, <1>3 DEF CountedOK
<1>5. ~ShadowMode => ~rows[k].counted
  BY <1>2 DEF LogInv, RowsMade
<1>6. ASSUME NEW i \in 1..Len(rows)
      PROVE  /\ added[i].counted = rows[i].counted /\ added[i].outcome = rows[i].outcome
             /\ added[i].how = rows[i].how /\ added[i].since = rows[i].since
  <2>1. rows[i] \in Rows
    BY <1>1
  <2> QED  BY <2>1, EntryFields
<1>7. CASE rows[k].counted
  BY <1>4, <1>5, <1>6, <1>7 DEF Log!CountedDuly, RowCounted
<1>8. CASE ~rows[k].counted
  <2> SUFFICES ASSUME ShadowMode, rows[k].how # "default"
               PROVE  /\ \A i \in Log!Counts(Entries, rows[k].outcome) : i > rows[k].since
                      /\ \A i \in Log!Counts(added, rows[k].outcome) : i > k
    BY <1>6, <1>8 DEF Log!CountedDuly, Entries
  <2>1. ~CountedIn(rows[k].outcome, c.since) /\ rows[k].since = c.since
    BY <1>3, <1>4, <1>8 DEF RowCounted, RowIds
  <2>2. \A j \in 1..(k - 1) : rows[j].counted => rows[j].outcome # rows[k].outcome
    BY <1>4, <1>8 DEF RowCounted
  <2> HIDE DEF rows
  <2>3. ledger \in Seq(Rows) /\ DOMAIN ledger = 1..Len(ledger) /\ Len(ledger) \in Nat
    BY DEF CallsInv, TypeOK
  <2>4. ASSUME NEW i \in 1..Len(ledger)
        PROVE  Entries[i].counted = ledger[i].counted /\ Entries[i].outcome = ledger[i].outcome
    <3>1. ledger[i] \in Rows
      BY <2>3
    <3> QED  BY <2>3, <3>1, EntryFields DEF Entries
  <2>5. DOMAIN Entries = 1..Len(ledger)
    BY <2>3 DEF Entries
  <2> HIDE DEF Entries
  <2>6. ASSUME NEW i \in Log!Counts(Entries, rows[k].outcome) PROVE i > rows[k].since
    <3>1. i \in 1..Len(ledger) /\ ledger[i].counted /\ ledger[i].outcome = rows[k].outcome
      BY <2>4, <2>5 DEF Log!Counts
    <3>2. ~(i \in 1..c.since)
      BY <2>1, <3>1 DEF CountedIn
    <3> QED  BY <1>1, <2>1, <2>3, <3>1, <3>2
  <2>7. ASSUME NEW i \in Log!Counts(added, rows[k].outcome) PROVE i > k
    <3>1. i \in 1..Len(rows) /\ rows[i].counted /\ rows[i].outcome = rows[k].outcome
      BY <1>6 DEF Log!Counts, rows
    <3>2. i # k /\ ~(i \in 1..(k - 1)) /\ k \in Nat
      BY <1>8, <2>2, <3>1 DEF rows
    <3> QED  BY <3>1, <3>2
  <2> QED  BY <2>6, <2>7
<1> QED  BY <1>7, <1>8

LEMMA LogCounts == \A S : Log!Cardinality(S) = Cardinality(S)
BY DEF Log!Cardinality, Cardinality

\* What the log has more after a step is a call, by its parts.
AddsCall(rows, made) ==
  /\ rows # <<>>
  /\ \A i \in DOMAIN Entries : Entries[i].call # rows[1].call
  /\ \A k \in DOMAIN rows : rows[k].call = rows[1].call /\ rows[k].n = k /\ Log!CountedDuly(rows, k)
  /\ made \cap assets = {} /\ made \subseteq {rows[k].asset : k \in DOMAIN rows}
  /\ {rows[k].asset : k \in DOMAIN rows} \subseteq assets \cup made
  /\ Entries' = Entries \o rows
  /\ \A i \in (Len(Entries) + 1)..Len(Entries') :
       Log!FirstOfFlow(Entries', i) => Entries'[i].new \/ Entries'[i].how # "classified"
  /\ assets' = assets \cup made
  /\ counter' = [o \in Outcomes |-> counter[o] + Log!Cardinality(Log!Counts(rows, o))]
  /\ Owed' = Owed \cup {[call |-> rows[1].call, rows |-> Len(rows), made |-> made]}
  /\ Heard' = Heard /\ Told' = Told

LEMMA AddOf ==
  AddsCall(SubSeq(Entries', Len(Entries) + 1, Len(Entries')), assets' \ assets) => Log!Next
BY Zenon DEF AddsCall, Log!Next, Log!Add, Log!CountedDuly, Entries, Owed, Heard, Told

\* A commit adds a whole call.
LEMMA CommittedLog ==
  ASSUME CallsInv, IdsInv, LocksInv, LogInv, TypeOK', FirstSightFlagged',
         NEW w \in Workers, NEW d \in Calls, Stepped(w, d), Committed(w, d)
  PROVE  Log!Next
<1> DEFINE c == call[w]
           rows == c.rows
           named(s) == {s[k].asset : k \in DOMAIN s}
<1>1. Commit(w) /\ InTransaction(w) /\ c.at = "commit"
  BY DEF Committed, Commit, At, InTransaction, TransactionSteps
<1>2. /\ c \in Calls /\ CallOK(c) /\ TypeOK
      /\ rows \in Seq(Rows) /\ c.made \in Seq(Assets) /\ c.id \in Nat
  BY OneCall
<1>3. /\ d.at = "notify" /\ d.id = c.id /\ d.rows = rows /\ d.made = c.made
  BY <1>2, CommittedFields DEF Committed
<1>4. /\ assets' = assets \cup Members(c.made)
      /\ counter' = [o \in Outcomes |-> counter[o] + Counted(rows, o)]
      /\ UNCHANGED <<alerted, announced, phantoms>>
  BY <1>1 DEF Commit, history
<1>5. RowsMade(c) /\ c.id \notin phantoms
  BY <1>1 DEF LogInv
<1> DEFINE added == SubSeq(Entries', Len(Entries) + 1, Len(Entries'))
           made == assets' \ assets
<1>8. made = Members(c.made) /\ made \cap assets = {}
  <2>1. \A a \in Members(c.made) : a \in Assets
    BY <1>2 DEF Members
  <2>2. \A a \in Members(c.made) : a \notin assets
    BY <1>1, <2>1 DEF LocksInv, HoldsAsset
  <2> QED  BY <1>4, <2>2
<1>6. added = SubSeq(Entries', Len(Entries) + 1, Len(Entries'))
  OBVIOUS
<1> HIDE DEF rows, added, made
<1>9. PICK m \in Nat : m = Len(rows)
  BY <1>2
<1>10. /\ Entries' = Entries \o added
       /\ added \in Seq(EntryRows) /\ Len(added) = m /\ DOMAIN added = 1..m
       /\ \A k \in 1..m : added[k] = Entry(rows[k])
  BY <1>1, <1>6, <1>9, AddedEntries DEF rows
<1>11. m > 0
  <2>1. rows # <<>>
    BY <1>1, <1>5 DEF RowsMade, rows
  <2> QED  BY <1>2, <1>9, <2>1
<1>12. ASSUME NEW k \in 1..m
       PROVE  added[k].call = c.id /\ added[k].n = k /\ added[k].asset = rows[k].asset
  <2>1. rows[k] \in Rows
    BY <1>2, <1>9
  <2>2. rows[k].call = c.id /\ rows[k].n = k
    BY <1>1, <1>2, <1>9 DEF CallOK, RowsPlaced, RowIds, rows
  <2> QED  BY <1>10, <2>1, <2>2, EntryFields
<1>13. added # <<>> /\ added[1].call = c.id
  <2>1. 1 \in 1..m
    BY <1>11
  <2> QED  BY <1>10, <1>11, <1>12, <2>1
<1>14. \A i \in DOMAIN Entries : Entries[i].call # c.id
  <2>1. ledger \in Seq(Rows) /\ DOMAIN ledger = 1..Len(ledger)
    BY <1>2 DEF TypeOK
  <2>2. ASSUME NEW i \in 1..Len(ledger) PROVE Entries[i].call = ledger[i].call
    <3>1. ledger[i] \in Rows
      BY <2>1
    <3> QED  BY <2>1, <3>1, EntryFields DEF Entries
  <2> QED  BY <1>1, <2>1, <2>2 DEF IdsInv, Entries
<1>15. made \subseteq named(added) /\ named(added) \subseteq assets \cup made
  <2>1. \A k \in 1..m : rows[k].asset \in assets \cup Members(c.made)
    BY <1>5, <1>9 DEF RowsMade, rows
  <2>2. \A a \in Members(c.made) : \E k \in 1..m : rows[k].asset = a
    BY <1>5, <1>9 DEF RowsMade, rows
  <2>3. \A k \in 1..m : added[k].asset = rows[k].asset
    BY <1>12
  <2>4. DOMAIN added = 1..m
    BY <1>10
  <2> HIDE DEF c
  <2>5. \A a \in made : a \in named(added)
    BY <1>8, <2>2, <2>3, <2>4
  <2>6. \A a \in named(added) : a \in assets \cup made
    BY <1>8, <2>1, <2>3, <2>4
  <2> QED  BY <2>5, <2>6
<1>16. \A i \in (Len(Entries) + 1)..Len(Entries') :
         Log!FirstOfFlow(Entries', i) => Entries'[i].new \/ Entries'[i].how # "classified"
  <2>1. ledger' \in Seq(Rows) /\ DOMAIN ledger' = 1..Len(ledger') /\ Len(ledger') \in Nat
    BY DEF TypeOK
  <2>2. Len(Entries') = Len(ledger') /\ Len(Entries) \in Nat
    <3>1. ledger \in Seq(Rows)
      BY <1>2 DEF TypeOK
    <3> QED  BY <2>1, <3>1, EntriesOf DEF Entries
  <2>3. ASSUME NEW i \in 1..Len(ledger')
        PROVE  /\ Entries'[i].asset = ledger'[i].asset /\ Entries'[i].service = ledger'[i].service
               /\ Entries'[i].new = ledger'[i].new /\ Entries'[i].how = ledger'[i].how
    <3>1. ledger'[i] \in Rows
      BY <2>1
    <3> QED  BY <2>1, <3>1, EntryFields DEF Entries
  <2>4. ASSUME NEW i \in 1..Len(ledger'), Log!FirstOfFlow(Entries', i)
        PROVE  Entries'[i].new \/ Entries'[i].how # "classified"
    <3>1. \A j \in 1..(i - 1) : j \in 1..Len(ledger')
      BY <2>1
    <3>2. ledger'[i].service /\ ~\E j \in 1..(i - 1) : /\ ledger'[j].asset = ledger'[i].asset
                                                      /\ ledger'[j].service
      BY <2>3, <2>4, <3>1 DEF Log!FirstOfFlow
    <3>3. ledger'[i].new \/ ledger'[i].how # "classified"
      BY <2>1, <3>2 DEF FirstSightFlagged
    <3> QED  BY <2>3, <3>3
  <2>5. \A i \in (Len(Entries) + 1)..Len(Entries') : i \in 1..Len(ledger')
    BY <2>1, <2>2
  <2> QED  BY <2>4, <2>5
<1>17. counter' = [o \in Outcomes |-> counter[o] + Log!Cardinality(Log!Counts(added, o))]
  <2>1. ASSUME NEW o \in Outcomes
        PROVE  Counted(rows, o) = Log!Cardinality(Log!Counts(added, o))
    BY <1>1, <1>9, <1>10, AddedCounts, LogCounts DEF rows
  <2> QED  BY <1>4, <2>1
<1>18. Owed' = Owed \cup {[call |-> c.id, rows |-> m, made |-> made]}
  <2>1. ~At(w, "notify") /\ d.id \notin phantoms'
    BY <1>1, <1>3, <1>4, <1>5 DEF At
  <2> DEFINE others == {Due(v) : v \in {u \in Workers \ {w} : At(u, "notify") /\ call[u].id \notin phantoms}}
  <2>2. Owed' = others \cup {[call |-> d.id, rows |-> Len(d.rows), made |-> Members(d.made)]}
    BY <1>3, <2>1, StepOwed
  <2>3. Owed = others \cup {}
    BY <2>1, StepOwed
  <2> HIDE DEF others
  <2> QED  BY <1>3, <1>8, <1>9, <2>2, <2>3
<1>19. Heard' = Heard /\ Told' = Told
  BY <1>4 DEF Heard, Told
<1>24. \A k \in 1..m : Log!CountedDuly(added, k)
  BY <1>1, <1>9, <1>10, AddedDuly DEF rows
<1>20. /\ \A k \in DOMAIN added : /\ added[k].call = added[1].call /\ added[k].n = k
                                  /\ Log!CountedDuly(added, k)
       /\ \A i \in DOMAIN Entries : Entries[i].call # added[1].call
       /\ Owed' = Owed \cup {[call |-> added[1].call, rows |-> Len(added), made |-> made]}
  BY <1>10, <1>12, <1>13, <1>14, <1>18, <1>24
<1>21. assets' = assets \cup made
  BY <1>4, <1>8
<1>22. AddsCall(added, made)
  <2>1. /\ made \cap assets = {} /\ made \subseteq {added[k].asset : k \in DOMAIN added}
        /\ {added[k].asset : k \in DOMAIN added} \subseteq assets \cup made
    BY <1>8, <1>15, Zenon DEF named
  <2>2. added # <<>> /\ Entries' = Entries \o added
    BY <1>10, <1>13, Zenon
  <2> QED  BY <1>16, <1>17, <1>19, <1>20, <1>21, <2>1, <2>2, Zenon DEF AddsCall
<1>23. AddsCall(SubSeq(Entries', Len(Entries) + 1, Len(Entries')), assets' \ assets)
  BY <1>22 DEF added, made
<1> QED  BY <1>23, AddOf

\* Every step adds a call, sends what one owes, or is none of the log's.
LEMMA NextLogs ==
  ASSUME CallsInv, IdsInv, LocksInv, SignalsInv, LogInv, TypeOK', FirstSightFlagged', [Next]_vars
  PROVE  [Log!Next]_LogVars
<1>1. CASE Quiet
  BY <1>1, QuietLog
<1>2. ASSUME NEW w \in Workers, NEW d \in Calls, Stepped(w, d) PROVE [Log!Next]_LogVars
  BY <1>2, InsideLog, LostLog, CommittedLog, SignalledLog DEF Stepped
<1> QED  BY <1>1, <1>2, StepKinds

\* persistence.py:2-8, signals.py:55-58: for any workers, rules and failures, and calls
\* of one or two matches, the persistence layer implements AuditLog: whole calls,
\* never rewritten, each with its assets, its counts and its signals.
THEOREM PersistenceKeepsAuditLog == Spec => KeepsAuditLog
<1>1. Init => CallsInv /\ IdsInv /\ LocksInv /\ SignalsInv /\ LogInv
  BY CallsStart, SightsStart, LocksStart, SignalsStart, LogStarts
<1>2. CallsInv /\ IdsInv /\ LocksInv /\ SignalsInv /\ LogInv /\ [Next]_vars
        => CallsInv' /\ IdsInv' /\ LocksInv' /\ SignalsInv' /\ LogInv'
  BY CallsKeep, IdsKeep, LocksKeep, SignalsKeep, LogKeeps
<1>3. Init => Log!Init
  <2> SUFFICES ASSUME Init PROVE Log!Init
    OBVIOUS
  <2>1. Owed = {} /\ Heard = {} /\ Told = {}
    BY IdleOK DEF Init, Owed, Heard, Told, At
  <2>2. Entries = <<>>
    BY DEF Init, Entries
  <2> QED  BY <2>1, <2>2 DEF Init, Log!Init, Owed, Heard, Told, Entries
<1>4. CallsInv /\ IdsInv /\ LocksInv /\ SignalsInv /\ LogInv /\ TypeOK' /\ FirstSightFlagged' /\ [Next]_vars
        => [Log!Next]_LogVars
  BY NextLogs
<1>5. [Log!Next]_LogVars => [Log!Next]_(Log!vars)
  BY DEF LogVars, Log!vars, Entries, Owed, Heard, Told
<1> QED
  BY <1>1, <1>2, <1>3, <1>4, <1>5, PersistenceTypes, FirstSightHolds, PTL
     DEF Spec, KeepsAuditLog, Log!Spec
=============================================================================
