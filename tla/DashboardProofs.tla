-------------------------- MODULE DashboardProofs --------------------------
(***************************************************************************)
(* Theorems about the purge of events, for any number of writers and       *)
(* purgers, any settings and any calls: no row goes before its time, no    *)
(* flow that is known is taken for first sight, and a purge that returns   *)
(* has left nothing that it found expired.  The argument follows each      *)
(* transaction, which carries what its look at the table has shown, and    *)
(* each run: what it holds in its batch is expired, what it has swept      *)
(* stays swept, but for rows committed since, and its deletions are paid   *)
(* from the rows it counted and those.                                     *)
(*                                                                         *)
(* Then, about the endpoint cards: whatever changes between the statements *)
(* of a request, a row that keeps its place is covered by a card, since    *)
(* what a card says of the row is read while the row is there; about the   *)
(* pages: a walk misses a row only for one of three reasons; and about     *)
(* the totals: the views are sums over the same rows.                      *)
(***************************************************************************)
EXTENDS Dashboard, BasicTheorems

TableInv ==
  /\ clock \in Nat
  /\ log \in Seq(StoredRows)
  /\ \A i \in DOMAIN log : log[i].timestamp <= clock
  /\ table \subseteq DOMAIN log /\ unlinked \subseteq DOMAIN log
  /\ calls \in Nat /\ purges \in Nat /\ unlinks \in Nat
  /\ asked \subseteq Nat

Gone == \A i \in DOMAIN log \ table : Outlived(i, clock)

FirstSight ==
  \A j \in DOMAIN log : log[j].new =>
    \A i \in 1..(j - 1) :
      log[i].asset = log[j].asset /\ log[i].service = log[j].service
        => \/ i \in unlinked
           \/ i \in (log[j].since + 1)..log[j].until
           \/ Outlived(i, log[j].decided)

\* What the look at the table has shown of row n of a call.
Unseen(call, n, read) ==
  /\ \A i \in 1..read.since :
       log[i].asset = call[n].asset /\ log[i].service = call[n].service
         => i \in unlinked \/ Outlived(i, read.decided)
  /\ \A m \in 1..(n - 1) : ~(call[m].asset = call[n].asset /\ call[m].service = call[n].service)

ReadOK(call, n, read) ==
  /\ read.since <= Len(log)
  /\ read.new => Unseen(call, n, read)

Transactions == [at : {"idle", "open"}, call : Seq(Rows), now : Nat, reads : Seq(Reads)]

WriterOK(c) ==
  /\ c \in Transactions /\ c.now <= clock
  /\ Len(c.reads) <= Len(c.call)
  /\ \A n \in 1..Len(c.reads) : ReadOK(c.call, n, c.reads[n])

WritersOK == writing \in [Writers -> Transactions] /\ \A w \in Writers : WriterOK(writing[w])

Expired(i, run) == log[i].timestamp < run.now - RetentionOf(log[i].outcome, run)

\* A run that has been asked for.
Asked(run) ==
  /\ run.now <= clock /\ run.begun <= Len(log)
  /\ run.days \in asked /\ run.expectedDays = Min({ExpectedDays, run.days})
  /\ \A i \in run.batch : i \in DOMAIN log /\ Expired(i, run)

\* The rows it has found expired and not deleted, and those of others that are gone.
Due(run) == ExpiredIn(run) \cap (1..run.begun)
Later(run) == {i \in DOMAIN log \ table : i > run.begun}

\* What its finished sweeps have left.
Swept(run) ==
  run.size > 0 =>
    /\ run.at \in {"main", "returned"} => \A i \in Due(run) : log[i].outcome # "expected"
    /\ run.at = "returned" => Due(run) = {}

Paid(run) == run.deleted + Cardinality(Due(run)) <= run.candidates + Cardinality(Later(run))

RunOK(run) ==
  /\ run \in Runs
  /\ run.at \in {"idle", "returned"} => run.batch = {}
  /\ run.at # "idle" => Asked(run) /\ Swept(run) /\ Paid(run)

RunsOK == purge \in [Purgers -> Runs] /\ \A p \in Purgers : RunOK(purge[p])

RetentionInv == TableInv /\ Gone /\ FirstSight /\ WritersOK /\ RunsOK

-----------------------------------------------------------------------------
LEMMA MinOfTwo ==
  ASSUME NEW a \in Nat, NEW b \in Nat
  PROVE  Min({a, b}) = (IF a <= b THEN a ELSE b)
<1>1. Min({a, b}) \in {a, b} /\ \A y \in {a, b} : Min({a, b}) <= y
  <2>1. \E x \in {a, b} : \A y \in {a, b} : x <= y
    <3>1. CASE a <= b
      BY <3>1
    <3>2. CASE b <= a
      BY <3>2
    <3> QED  BY <3>1, <3>2
  <2> QED  BY <2>1, Zenon DEF Min
<1> QED  BY <1>1

\* The retention of a row in a run.
LEMMA RetentionInRun ==
  ASSUME NEW run \in Runs, NEW outcome, run.expectedDays = Min({ExpectedDays, run.days})
  PROVE  /\ RetentionOf(outcome, run) \in Nat
         /\ RetentionOf(outcome, run)
              = IF outcome = "expected" THEN Min({ExpectedDays, run.days}) ELSE run.days
<1>1. run.days \in Nat /\ run.expectedDays \in Nat
  BY DEF Runs
<1> QED  BY <1>1 DEF RetentionOf

LEMMA FiniteTable ==
  ASSUME TableInv, NEW rows \in SUBSET table
  PROVE  IsFiniteSet(rows) /\ Cardinality(rows) \in Nat
<1>1. Len(log) \in Nat /\ DOMAIN log = 1..Len(log)
  BY DEF TableInv
<1>2. IsFiniteSet(1..Len(log)) /\ rows \in SUBSET (1..Len(log))
  BY <1>1, FS_Interval DEF TableInv
<1>3. IsFiniteSet(rows)
  BY <1>2, FS_Subset
<1> QED  BY <1>3, FS_CardinalityType

LEMMA LogRow ==
  ASSUME TableInv, NEW i \in DOMAIN log
  PROVE  log[i] \in StoredRows /\ log[i].timestamp \in Nat
<1>1. log \in Seq(StoredRows)
  BY DEF TableInv
<1>2. log[i] \in StoredRows
  BY <1>1
<1> QED  BY <1>2 DEF StoredRows

\* Rows are neither changed nor put back, time passes and retentions are asked for.
Grows ==
  /\ \A i \in DOMAIN log : i \in DOMAIN log' /\ log'[i] = log[i]
  /\ \A i \in table' : i \in table \/ i \notin DOMAIN log
  /\ clock' \in Nat /\ clock <= clock'
  /\ Len(log') \in Nat /\ Len(log) <= Len(log') /\ DOMAIN log' = 1..Len(log')
  /\ asked \subseteq asked' /\ unlinked \subseteq unlinked'

\* What a retention has outlived stays outlived.
LEMMA StillOutlived ==
  ASSUME TableInv, Grows, NEW i \in DOMAIN log, NEW now \in Nat, NEW later \in Nat, now <= later,
         Outlived(i, now)
  PROVE  Outlived(i, later)'
<1>1. PICK days \in asked :
        log[i].timestamp < now - (IF log[i].outcome = "expected" THEN Min({ExpectedDays, days}) ELSE days)
  BY DEF Outlived
<1> DEFINE kept == IF log[i].outcome = "expected" THEN Min({ExpectedDays, days}) ELSE days
<1>2. days \in Nat /\ days \in asked'
  BY DEF TableInv, Grows
<1>3. kept \in Nat
  BY <1>2, MinOfTwo, RetentionAssumption
<1>4. log[i].timestamp \in Nat /\ log'[i] = log[i]
  BY LogRow DEF Grows
<1>5. log[i].timestamp < now - kept
  BY <1>1
<1> HIDE DEF kept
<1>6. log[i].timestamp < later - kept
  BY <1>3, <1>4, <1>5
<1> QED  BY <1>2, <1>4, <1>6 DEF Outlived, kept

\* What a look at the table has shown stays so.
LEMMA StillUnseen ==
  ASSUME TableInv, Grows, NEW call, NEW n, NEW read \in Reads, read.since <= Len(log),
         Unseen(call, n, read)
  PROVE  Unseen(call, n, read)'
<1>1. ASSUME NEW i \in 1..read.since,
             log'[i].asset = call[n].asset, log'[i].service = call[n].service
      PROVE  i \in unlinked' \/ Outlived(i, read.decided)'
  <2>1. i \in DOMAIN log /\ log'[i] = log[i] /\ read.decided \in Nat
    BY DEF TableInv, Grows, Reads
  <2>2. i \in unlinked \/ Outlived(i, read.decided)
    BY <1>1, <2>1 DEF Unseen
  <2> QED  BY <2>1, <2>2, StillOutlived DEF Grows
<1> QED  BY <1>1 DEF Unseen

\* So a step that leaves a transaction alone keeps what is known of it.
LEMMA WriterKeeps ==
  ASSUME TableInv, Grows, NEW c, WriterOK(c) PROVE WriterOK(c)'
<1>1. c \in Transactions /\ c.now \in Nat /\ c.reads \in Seq(Reads) /\ c.now <= clock
  BY DEF WriterOK, Transactions
<1>2. c.now <= clock'
  BY <1>1 DEF TableInv, Grows
<1>3. ASSUME NEW n \in 1..Len(c.reads), NEW read, read = c.reads[n] PROVE ReadOK(c.call, n, read)'
  <2>1. read \in Reads /\ ReadOK(c.call, n, read)
    BY <1>1, <1>3 DEF WriterOK
  <2>2. read.since \in Nat /\ read.since <= Len(log) /\ Len(log) \in Nat
    BY <2>1 DEF ReadOK, Reads, TableInv
  <2>3. read.since <= Len(log')
    BY <2>2 DEF Grows
  <2>4. read.new => Unseen(c.call, n, read)'
    BY <2>1, <2>2, StillUnseen DEF ReadOK
  <2> QED  BY <2>3, <2>4 DEF ReadOK
<1> QED  BY <1>1, <1>2, <1>3 DEF WriterOK

\* No row that a run has found becomes expired in it again.
LEMMA DueShrinks ==
  ASSUME TableInv, Grows, NEW run \in Runs, Asked(run)
  PROVE  Due(run)' \subseteq Due(run) /\ Later(run) \subseteq Later(run)'
<1>1. ASSUME NEW i \in Due(run)' PROVE i \in Due(run)
  <2>1. i \in table' /\ i \in 1..run.begun /\ Len(log) \in Nat /\ run.begun \in Nat
    BY DEF Due, ExpiredIn, TableInv, Runs
  <2>2. i \in DOMAIN log
    BY <2>1 DEF Asked, TableInv
  <2>3. i \in table /\ log'[i] = log[i]
    BY <2>1, <2>2 DEF Grows
  <2> QED  BY <2>1, <2>3 DEF Due, ExpiredIn, RetentionOf
<1>2. \A i \in Later(run) : i \in Later(run)'
  BY DEF Later, Grows
<1> QED  BY <1>1, <1>2

LEMMA FiniteRows ==
  ASSUME NEW n \in Nat, NEW rows, rows \subseteq 1..n
  PROVE  IsFiniteSet(rows) /\ Cardinality(rows) \in Nat
<1>1. IsFiniteSet(1..n)
  BY FS_Interval
<1> QED  BY <1>1, FS_Subset, FS_CardinalityType

LEMMA RunRows ==
  ASSUME TableInv, NEW run
  PROVE  /\ Len(log) \in Nat /\ DOMAIN log = 1..Len(log)
         /\ ExpiredIn(run) \subseteq 1..Len(log)
         /\ Due(run) \subseteq 1..Len(log)
         /\ Later(run) \subseteq 1..Len(log)
         /\ IsFiniteSet(Due(run)) /\ Cardinality(Due(run)) \in Nat
         /\ IsFiniteSet(Later(run)) /\ Cardinality(Later(run)) \in Nat
<1>1. Len(log) \in Nat /\ DOMAIN log = 1..Len(log)
  BY DEF TableInv
<1>2. ExpiredIn(run) \subseteq 1..Len(log) /\ Due(run) \subseteq 1..Len(log) /\ Later(run) \subseteq 1..Len(log)
  BY <1>1 DEF ExpiredIn, Due, Later, TableInv
<1> QED  BY <1>1, <1>2, FiniteRows

\* So a step that leaves a run alone keeps what is known of it.
LEMMA RunKeeps ==
  ASSUME TableInv, TableInv', Grows, NEW run, RunOK(run)
  PROVE  RunOK(run)'
<1>1. CASE run.at = "idle"
  BY <1>1 DEF RunOK
<1>2. CASE run.at # "idle"
  <2>1. run \in Runs /\ Asked(run) /\ Swept(run) /\ Paid(run) /\ run.now \in Nat
        /\ run.begun \in Nat /\ run.deleted \in Nat /\ run.candidates \in Nat
    BY <1>2 DEF RunOK, Runs
  <2>2. Due(run)' \subseteq Due(run) /\ Later(run) \subseteq Later(run)'
    BY <2>1, DueShrinks
  <2>3. Asked(run)'
    <3>1. \A i \in run.batch : i \in DOMAIN log' /\ Expired(i, run)'
      BY <2>1 DEF Asked, Grows, Expired, RetentionOf
    <3>2. run.now <= clock' /\ run.begun <= Len(log') /\ run.days \in asked'
      <4>1. clock \in Nat /\ clock' \in Nat /\ clock <= clock'
            /\ Len(log) \in Nat /\ Len(log') \in Nat /\ Len(log) <= Len(log')
        BY DEF TableInv, Grows
      <4>2. run.now <= clock /\ run.begun <= Len(log)
        BY <2>1 DEF Asked
      <4> QED  BY <2>1, <4>1, <4>2 DEF Asked, Grows
    <3> QED  BY <2>1, <3>1, <3>2 DEF Asked
  <2>4. Swept(run)'
    <3>1. \A i \in Due(run) : log'[i] = log[i]
      BY DEF Due, ExpiredIn, TableInv, Grows
    <3> QED  BY <2>1, <2>2, <3>1 DEF Swept
  <2>5. Paid(run)'
    <3> DEFINE due == Cardinality(Due(run))
               due2 == Cardinality(Due(run)')
               later == Cardinality(Later(run))
               later2 == Cardinality(Later(run)')
    <3>1. /\ due \in Nat /\ later \in Nat /\ IsFiniteSet(Due(run))
          /\ Due(run)' \subseteq 1..Len(log') /\ Later(run)' \subseteq 1..Len(log')
      <4>1. due \in Nat /\ later \in Nat /\ IsFiniteSet(Due(run))
        BY RunRows
      <4>2. DOMAIN log' = 1..Len(log') /\ table' \subseteq DOMAIN log'
        BY DEF Grows, TableInv
      <4>3. Due(run)' \subseteq table' /\ Later(run)' \subseteq DOMAIN log'
        BY DEF Due, Later, ExpiredIn
      <4> QED  BY <4>1, <4>2, <4>3
    <3>5. due2 \in Nat /\ later2 \in Nat /\ IsFiniteSet(Later(run)')
      BY <3>1, FiniteRows DEF Grows
    <3>2. due2 <= due /\ later <= later2
      BY <2>2, <3>1, <3>5, FS_Subset
    <3>3. run.deleted + due <= run.candidates + later
      BY <2>1 DEF Paid
    <3> HIDE DEF due, due2, later, later2
    <3>4. run.deleted + due2 <= run.candidates + later2
      BY <2>1, <3>1, <3>2, <3>3, <3>5
    <3> QED  BY <3>4 DEF Paid, due2, later2
  <2> QED  BY <1>2, <2>1, <2>3, <2>4, <2>5 DEF RunOK
<1> QED  BY <1>1, <1>2

-----------------------------------------------------------------------------
LEMMA RetentionInvInit == Init => RetentionInv
<1> SUFFICES ASSUME Init PROVE RetentionInv
  OBVIOUS
<1> USE DEF Init, RetentionInit
<1>1. PICK old \in OldRows : log = [i \in DOMAIN old |-> Stored(old[i], 0, NotRead, 0)]
  OBVIOUS
<1>2. old \in Seq(Rows)
  BY RowsAssumption
<1>3. ASSUME NEW i \in DOMAIN old
      PROVE  /\ Stored(old[i], 0, NotRead, 0) \in StoredRows
             /\ Stored(old[i], 0, NotRead, 0).timestamp = 0 /\ ~Stored(old[i], 0, NotRead, 0).new
  <2>1. old[i] \in Rows
    BY <1>2
  <2> QED  BY <2>1 DEF Rows, StoredRows, Stored, NotRead
<1>4. log \in Seq(StoredRows) /\ DOMAIN log = DOMAIN old
  BY <1>1, <1>2, <1>3
<1>5. \A i \in DOMAIN log : log[i].timestamp = 0 /\ ~log[i].new
  BY <1>1, <1>3, <1>4
<1>6. TableInv
  BY <1>4, <1>5 DEF TableInv
<1>7. Resting \in Runs /\ RunOK(Resting)
  BY DEF Resting, Runs, RunOK
<1>8. RunsOK
  BY <1>7 DEF RunsOK
<1>9. NoCall \in Transactions /\ WriterOK(NoCall)
  BY DEF NoCall, Transactions, WriterOK
<1>10. WritersOK
  BY <1>9 DEF WritersOK
<1>11. Gone /\ FirstSight
  BY <1>5 DEF Gone, FirstSight
<1> QED  BY <1>6, <1>8, <1>10, <1>11 DEF RetentionInv

-----------------------------------------------------------------------------
\* A step that adds no row.
LEMMA NoRowStep ==
  ASSUME RetentionInv, UNCHANGED log,
         clock' \in Nat, clock <= clock', unlinked \subseteq unlinked', unlinked' \subseteq DOMAIN log,
         calls' \in Nat, purges' \in Nat, unlinks' \in Nat,
         asked \subseteq asked', asked' \subseteq Nat,
         table' \subseteq table, \A i \in table \ table' : Outlived(i, clock)
  PROVE  TableInv' /\ Gone' /\ FirstSight' /\ Grows
<1> USE DEF RetentionInv
<1>1. Grows
  BY DEF Grows, TableInv
<1>2. TableInv'
  <2>1. \A i \in DOMAIN log : log[i].timestamp \in Nat
    BY LogRow
  <2>2. \A i \in DOMAIN log : log[i].timestamp <= clock'
    BY <2>1 DEF TableInv
  <2> QED  BY <2>2 DEF TableInv
<1>3. Gone'
  <2>1. \A i \in DOMAIN log' \ table' : i \in DOMAIN log /\ Outlived(i, clock)
    BY DEF Gone
  <2> QED  BY <1>1, <2>1, StillOutlived DEF Gone, TableInv
<1>4. FirstSight'
  <2> SUFFICES ASSUME NEW j \in DOMAIN log, log[j].new, NEW i \in 1..(j - 1),
                      log[i].asset = log[j].asset, log[i].service = log[j].service,
                      i \notin unlinked', ~(i \in (log[j].since + 1)..log[j].until)
               PROVE  Outlived(i, log[j].decided)'
    BY DEF FirstSight
  <2>1. i \in DOMAIN log
    BY DEF TableInv
  <2>2. Outlived(i, log[j].decided) /\ log[j].decided \in Nat
    BY LogRow DEF FirstSight, StoredRows
  <2> QED  BY <1>1, <2>1, <2>2, StillOutlived
<1> QED  BY <1>1, <1>2, <1>3, <1>4

\* A step in which no purge moves.
LEMMA RunsWait ==
  ASSUME TableInv, TableInv', Grows, RunsOK, UNCHANGED purge PROVE RunsOK'
<1>1. ASSUME NEW p \in Purgers, NEW run, run = purge[p] PROVE RunOK(run)'
  BY <1>1, RunKeeps DEF RunsOK
<1> QED  BY <1>1 DEF RunsOK

\* A step in which no transaction moves, or some are rolled back.
LEMMA WritersWait ==
  ASSUME TableInv, Grows, WritersOK, DOMAIN writing' = Writers, writing' = [w \in Writers |-> writing'[w]],
         \A w \in Writers : writing'[w] = writing[w] \/ writing'[w] = NoCall
  PROVE  WritersOK'
<1>1. NoCall \in Transactions /\ WriterOK(NoCall)'
  <2>1. 0 <= clock'
    BY DEF Grows
  <2> QED  BY <2>1 DEF NoCall, Transactions, WriterOK
<1>2. ASSUME NEW w \in Writers, NEW c, c = writing[w] PROVE c \in Transactions /\ WriterOK(c)'
  BY <1>2, WriterKeeps DEF WritersOK
<1>3. ASSUME NEW w \in Writers, NEW c, c = writing'[w] PROVE c \in Transactions /\ WriterOK(c)'
  BY <1>1, <1>2, <1>3
<1> QED  BY <1>3 DEF WritersOK

\* One transaction moves to one of which this is known.
LEMMA WriterMoves ==
  ASSUME TableInv, Grows, WritersOK, NEW w \in Writers, NEW c, WriterOK(c)',
         writing' = [writing EXCEPT ![w] = c]
  PROVE  WritersOK'
<1>1. c \in Transactions
  BY DEF WriterOK
<1>2. /\ writing' \in [Writers -> Transactions]
      /\ \A v \in Writers : writing'[v] = IF v = w THEN c ELSE writing[v]
  BY <1>1 DEF WritersOK
<1>3. ASSUME NEW v \in Writers, NEW d, d = writing[v] PROVE WriterOK(d)'
  BY <1>3, WriterKeeps DEF WritersOK
<1>4. ASSUME NEW v \in Writers, NEW d, d = writing'[v] PROVE WriterOK(d)'
  BY <1>2, <1>3, <1>4
<1> QED  BY <1>2, <1>4 DEF WritersOK

-----------------------------------------------------------------------------
LEMMA StartCallStep ==
  ASSUME RetentionInv, NEW w \in Writers, NEW call \in Calls, StartCall(w, call) PROVE RetentionInv'
<1> USE DEF RetentionInv
<1>1. /\ UNCHANGED <<clock, log, table, unlinked, purge, purges, unlinks, asked>> /\ calls' = calls + 1
      /\ writing' = [writing EXCEPT ![w] = [NoCall EXCEPT !.at = "open", !.call = call, !.now = clock]]
  BY DEF StartCall, store
<1>2. TableInv' /\ Gone' /\ FirstSight' /\ Grows
  BY <1>1, NoRowStep DEF TableInv
<1>3. PICK c : c = [NoCall EXCEPT !.at = "open", !.call = call, !.now = clock]
  OBVIOUS
<1>4. c = [at |-> "open", call |-> call, now |-> clock, reads |-> <<>>]
  BY <1>3 DEF NoCall
<1>5. call \in Seq(Rows) /\ clock \in Nat
  BY RowsAssumption DEF TableInv
<1>6. c \in Transactions /\ c.now <= clock' /\ Len(c.reads) = 0 /\ Len(c.call) \in Nat
  BY <1>1, <1>4, <1>5 DEF Transactions
<1>7. WriterOK(c)'
  BY <1>6 DEF WriterOK
<1>8. WritersOK'
  BY <1>1, <1>2, <1>3, <1>7, WriterMoves
<1> QED  BY <1>1, <1>2, <1>8, RunsWait

\* What a row's classification sees of the table.
LEMMA ClassifyRowStep ==
  ASSUME RetentionInv, NEW w \in Writers, ClassifyRow(w) PROVE RetentionInv'
<1> USE DEF RetentionInv
<1>1. PICK c : c = writing[w]
  OBVIOUS
<1>2. c \in Transactions /\ WriterOK(c) /\ c.reads \in Seq(Reads) /\ c.call \in Seq(Rows)
      /\ Len(c.reads) \in Nat /\ Len(c.call) \in Nat
  BY <1>1 DEF WritersOK, WriterOK, Transactions
<1>3. PICK n \in Nat : n = Len(c.reads) + 1
  BY <1>2
<1>4. PICK read : read = [new |-> IsNewFlow(c.call, n), since |-> Len(log), decided |-> clock]
  OBVIOUS
<1>5. /\ UNCHANGED <<clock, log, table, unlinked, purge, calls, purges, unlinks, asked>>
      /\ n <= Len(c.call) /\ writing' = [writing EXCEPT ![w].reads = Append(@, read)]
  BY <1>1, <1>3, <1>4 DEF ClassifyRow, store
<1>6. TableInv' /\ Gone' /\ FirstSight' /\ Grows
  BY <1>5, NoRowStep DEF TableInv
<1>7. read \in Reads /\ read.since = Len(log) /\ read.decided = clock /\ read.new = IsNewFlow(c.call, n)
  <2>1. IsNewFlow(c.call, n) \in BOOLEAN
    BY DEF IsNewFlow
  <2>2. clock \in Nat /\ Len(log) \in Nat
    BY DEF TableInv
  <2> QED  BY <1>4, <2>1, <2>2 DEF Reads
<1>8. ASSUME IsNewFlow(c.call, n) PROVE Unseen(c.call, n, read)
  <2>1. ASSUME NEW i \in 1..Len(log), log[i].asset = c.call[n].asset, log[i].service = c.call[n].service
        PROVE  i \in unlinked \/ Outlived(i, clock)
    <3>1. CASE i \in table
      BY <1>8, <2>1, <3>1 DEF IsNewFlow, Link
    <3>2. CASE i \notin table
      BY <2>1, <3>2 DEF Gone, TableInv
    <3> QED  BY <3>1, <3>2
  <2> QED  BY <1>7, <1>8, <2>1 DEF Unseen, IsNewFlow
<1>9. ReadOK(c.call, n, read)
  <2>1. Len(log) \in Nat
    BY DEF TableInv
  <2> QED  BY <1>7, <1>8, <2>1 DEF ReadOK
<1>10. PICK d : d = [c EXCEPT !.reads = Append(c.reads, read)]
  OBVIOUS
<1>11. writing' = [writing EXCEPT ![w] = d]
  BY <1>1, <1>5, <1>10 DEF WritersOK
<1>12. d \in Transactions /\ d.call = c.call /\ d.now = c.now /\ d.reads = Append(c.reads, read)
  <2>1. Append(c.reads, read) \in Seq(Reads)
    BY <1>2, <1>7
  <2> QED  BY <1>2, <1>10, <2>1 DEF Transactions
<1>13. WriterOK(d)
  <2>1. Len(d.reads) = n /\ d.reads[n] = read /\ \A m \in 1..Len(c.reads) : d.reads[m] = c.reads[m]
    BY <1>2, <1>3, <1>12
  <2>2. ASSUME NEW m \in 1..n PROVE ReadOK(d.call, m, d.reads[m])
    <3>1. CASE m = n
      BY <1>9, <1>12, <2>1, <3>1
    <3>2. CASE m # n
      <4>1. m \in 1..Len(c.reads)
        BY <1>2, <1>3, <3>2
      <4> QED  BY <1>2, <1>12, <2>1, <4>1 DEF WriterOK
    <3> QED  BY <3>1, <3>2
  <2> QED  BY <1>2, <1>5, <1>12, <2>1, <2>2 DEF WriterOK
<1>14. WriterOK(d)'
  BY <1>6, <1>13, WriterKeeps
<1>15. WritersOK'
  BY <1>6, <1>11, <1>14, WriterMoves
<1> QED  BY <1>5, <1>6, <1>15, RunsWait

\* What a transaction appends to the log.
RowOf(c, n, until, row) ==
  /\ row.asset = c.call[n].asset /\ row.service = c.call[n].service
  /\ row.timestamp = c.now /\ row.new = c.reads[n].new /\ row.since = c.reads[n].since
  /\ row.decided = c.reads[n].decided /\ row.until = until

LEMMA CommitAppends ==
  ASSUME RetentionInv, NEW w \in Writers, CommitCall(w), NEW c, c = writing[w]
  PROVE  /\ log' \in Seq(StoredRows) /\ Len(log') = Len(log) + Len(c.call) /\ Len(c.call) \in Nat
         /\ \A i \in 1..Len(log) : log'[i] = log[i]
         /\ \A n \in 1..Len(c.call) : RowOf(c, n, Len(log), log'[Len(log) + n])
<1>1. c \in Transactions /\ c.call \in Seq(Rows) /\ c.reads \in Seq(Reads) /\ c.now \in Nat
      /\ DOMAIN c.call = 1..Len(c.call) /\ Len(c.call) \in Nat /\ Len(c.reads) = Len(c.call)
  BY DEF RetentionInv, WritersOK, Transactions, CommitCall
<1>2. PICK until \in Nat : until = Len(log)
  BY DEF RetentionInv, TableInv
<1> DEFINE made(n) == Stored(c.call[n], c.now, c.reads[n], until)
           rows == [n \in DOMAIN c.call |-> made(n)]
<1>3. log' = log \o rows
  BY <1>2 DEF CommitCall
<1>4. ASSUME NEW n \in 1..Len(c.call)
      PROVE  made(n) \in StoredRows /\ RowOf(c, n, until, made(n))
  <2>1. c.call[n] \in Rows /\ c.reads[n] \in Reads
    BY <1>1
  <2> QED  BY <1>1, <2>1 DEF Rows, Reads, Stored, StoredRows, RowOf
<1> HIDE DEF made
<1>5. rows \in Seq(StoredRows) /\ Len(rows) = Len(c.call) /\ \A n \in 1..Len(c.call) : rows[n] = made(n)
  BY <1>1, <1>4
<1> HIDE DEF rows
<1>6. log \in Seq(StoredRows) /\ Len(log) \in Nat
  BY DEF RetentionInv, TableInv
<1>7. /\ log \o rows \in Seq(StoredRows) /\ Len(log \o rows) = Len(log) + Len(c.call)
      /\ \A i \in 1..Len(log) : (log \o rows)[i] = log[i]
  <2>1. Len(log \o rows) = Len(log) + Len(rows) /\ log \o rows \in Seq(StoredRows)
    BY <1>5, <1>6
  <2>2. \A i \in 1..Len(log) : (log \o rows)[i] = log[i]
    BY <1>5, <1>6
  <2> QED  BY <1>5, <2>1, <2>2
<1>8. ASSUME NEW n \in 1..Len(c.call) PROVE RowOf(c, n, until, log'[Len(log) + n])
  <2>1. ASSUME NEW i, i = Len(log) + n PROVE (log \o rows)[i] = rows[n]
    BY <1>1, <1>5, <1>6, <2>1
  <2>2. log'[Len(log) + n] = made(n)
    BY <1>3, <1>5, <2>1
  <2> QED  BY <1>4, <2>2
<1> QED  BY <1>1, <1>2, <1>3, <1>4, <1>7, <1>8

LEMMA CommitCallStep ==
  ASSUME RetentionInv, NEW w \in Writers, CommitCall(w) PROVE RetentionInv' /\ Grows
<1> USE DEF RetentionInv
<1>0. PICK c : c = writing[w]
  OBVIOUS
<1>1. /\ log' \in Seq(StoredRows) /\ Len(log') = Len(log) + Len(c.call) /\ Len(c.call) \in Nat
      /\ \A i \in 1..Len(log) : log'[i] = log[i]
      /\ \A n \in 1..Len(c.call) : RowOf(c, n, Len(log), log'[Len(log) + n])
  BY <1>0, CommitAppends
<1>2. Len(log) \in Nat /\ DOMAIN log = 1..Len(log) /\ DOMAIN log' = 1..(Len(log) + Len(c.call))
  BY <1>1 DEF TableInv
<1>3. /\ UNCHANGED <<clock, unlinked, purge, calls, purges, unlinks, asked>>
      /\ writing' = [writing EXCEPT ![w] = NoCall]
  BY DEF CommitCall
<1>4. table' = table \cup (Len(log) + 1 .. Len(log) + Len(c.call))
  BY <1>1, <1>2 DEF CommitCall
<1>5. ASSUME NEW i \in DOMAIN log' \ DOMAIN log
      PROVE  \E n \in 1..Len(c.call) : i = Len(log) + n
  <2>1. i - Len(log) \in 1..Len(c.call) /\ i = Len(log) + (i - Len(log))
    BY <1>1, <1>2
  <2> QED  BY <2>1
<1>6. Grows
  BY <1>1, <1>2, <1>3, <1>4 DEF Grows, TableInv
<1>7. WriterOK(c) /\ c \in Transactions /\ Len(c.reads) = Len(c.call) /\ c.now <= clock /\ c.now \in Nat
  BY <1>0 DEF WritersOK, WriterOK, CommitCall, Transactions
<1>8. TableInv'
  <2>1. ASSUME NEW i \in DOMAIN log' PROVE log'[i].timestamp <= clock
    <3>1. CASE i \in DOMAIN log
      BY <1>1, <1>2, <3>1 DEF TableInv
    <3>2. CASE i \notin DOMAIN log
      BY <1>1, <1>5, <1>7, <3>2 DEF RowOf
    <3> QED  BY <3>1, <3>2
  <2> QED  BY <1>1, <1>2, <1>3, <1>4, <2>1 DEF TableInv
<1>9. Gone'
  <2>1. \A i \in DOMAIN log' \ table' : i \in DOMAIN log \ table
    BY <1>2, <1>4 DEF TableInv
  <2> QED  BY <1>3, <1>6, <2>1, StillOutlived DEF Gone, TableInv
<1>10. FirstSight'
  <2> SUFFICES ASSUME NEW j \in DOMAIN log', log'[j].new, NEW i \in 1..(j - 1),
                      log'[i].asset = log'[j].asset, log'[i].service = log'[j].service,
                      i \notin unlinked, ~(i \in (log'[j].since + 1)..log'[j].until)
               PROVE  Outlived(i, log[j].decided)'
    BY <1>3 DEF FirstSight
  <2>1. i \in DOMAIN log' /\ i \in Nat
    BY <1>1, <1>2
  <2>2. CASE j \in DOMAIN log
    <3>1. log'[j] = log[j] /\ i \in DOMAIN log /\ log'[i] = log[i]
      BY <1>1, <1>2, <2>2
    <3>2. log[j] \in StoredRows /\ log[j].decided \in Nat
      BY <2>2, LogRow DEF StoredRows
    <3>3. Outlived(i, log[j].decided)
      BY <2>2, <3>1 DEF FirstSight
    <3>4. PICK t \in Nat : t = log[j].decided
      BY <3>2
    <3>5. Outlived(i, t)'
      BY <1>6, <3>1, <3>3, <3>4, StillOutlived
    <3> QED  BY <3>1, <3>4, <3>5
  <2>3. CASE j \notin DOMAIN log
    <3>1. PICK n \in 1..Len(c.call) : j = Len(log) + n
      BY <1>5, <2>3
    <3>2. PICK read : read = c.reads[n]
      OBVIOUS
    <3>3. /\ log'[j].asset = c.call[n].asset /\ log'[j].service = c.call[n].service
          /\ read.new /\ log'[j].since = read.since /\ log'[j].decided = read.decided
          /\ log'[j].until = Len(log)
      BY <1>1, <3>1, <3>2 DEF RowOf
    <3>4. n \in 1..Len(c.reads) /\ read \in Reads
      BY <1>1, <1>7, <3>2 DEF Transactions
    <3>5. ReadOK(c.call, n, read) /\ read.since \in Nat /\ read.decided \in Nat
      BY <1>7, <3>2, <3>4 DEF WriterOK, Reads
    <3>6. CASE i \in DOMAIN log
      <4>1. i \in 1..read.since /\ log'[i] = log[i]
        BY <1>1, <1>2, <3>3, <3>5, <3>6
      <4>2. Outlived(i, read.decided)
        BY <3>3, <3>5, <4>1 DEF ReadOK, Unseen
      <4>3. PICK t \in Nat : t = read.decided
        BY <3>5
      <4>4. Outlived(i, t)'
        BY <1>6, <3>6, <4>2, <4>3, StillOutlived
      <4> QED  BY <3>3, <4>3, <4>4
    <3>7. CASE i \notin DOMAIN log
      <4>1. PICK m \in 1..Len(c.call) : i = Len(log) + m
        BY <1>5, <2>1, <3>7
      <4>2. m \in 1..(n - 1)
        BY <1>1, <1>2, <3>1, <4>1
      <4>3. c.call[m].asset = c.call[n].asset /\ c.call[m].service = c.call[n].service
        BY <1>1, <3>3, <4>1 DEF RowOf
      <4> QED  BY <3>3, <3>5, <4>2, <4>3 DEF ReadOK, Unseen
    <3> QED  BY <3>6, <3>7
  <2> QED  BY <2>2, <2>3
<1>11. WritersOK'
  <2>1. \A v \in Writers : writing'[v] = writing[v] \/ writing'[v] = NoCall
    BY <1>3 DEF WritersOK
  <2>2. DOMAIN writing' = Writers /\ writing' = [v \in Writers |-> writing'[v]]
    BY <1>3 DEF WritersOK
  <2> QED  BY <1>6, <2>1, <2>2, WritersWait
<1>12. RunsOK'
  BY <1>3, <1>6, <1>8, RunsWait
<1> QED  BY <1>6, <1>8, <1>9, <1>10, <1>11, <1>12

LEMMA AbortCallStep ==
  ASSUME RetentionInv, NEW w \in Writers, AbortCall(w) PROVE RetentionInv'
<1> USE DEF RetentionInv
<1>1. /\ UNCHANGED <<clock, log, table, unlinked, purge, calls, purges, unlinks, asked>>
      /\ writing' = [writing EXCEPT ![w] = NoCall]
  BY DEF AbortCall, store
<1>2. TableInv' /\ Gone' /\ FirstSight' /\ Grows
  BY <1>1, NoRowStep DEF TableInv
<1>3. /\ \A v \in Writers : writing'[v] = writing[v] \/ writing'[v] = NoCall
      /\ DOMAIN writing' = Writers /\ writing' = [v \in Writers |-> writing'[v]]
  BY <1>1 DEF WritersOK
<1> QED  BY <1>1, <1>2, <1>3, WritersWait, RunsWait

LEMMA DeleteServiceStep ==
  ASSUME RetentionInv, NEW service, DeleteService(service) PROVE RetentionInv'
<1> USE DEF RetentionInv
<1>1. table \subseteq DOMAIN log /\ unlinked \subseteq DOMAIN log
  BY DEF TableInv
<1>2. /\ UNCHANGED <<clock, log, table, purge, calls, purges, asked>> /\ unlinks' = unlinks + 1
      /\ unlinked \subseteq unlinked' /\ unlinked' \subseteq DOMAIN log
  BY <1>1 DEF DeleteService
<1>3. TableInv' /\ Gone' /\ FirstSight' /\ Grows
  BY <1>2, NoRowStep DEF TableInv
<1>4. /\ \A v \in Writers : writing'[v] = writing[v] \/ writing'[v] = NoCall
      /\ DOMAIN writing' = Writers /\ writing' = [v \in Writers |-> writing'[v]]
  BY DEF DeleteService
<1> QED  BY <1>2, <1>3, <1>4, WritersWait, RunsWait

LEMMA TickStep ==
  ASSUME RetentionInv, Tick \/ UNCHANGED retention PROVE RetentionInv'
<1> USE DEF RetentionInv
<1>1. /\ UNCHANGED <<log, table, unlinked, writing, purge, calls, purges, unlinks, asked>>
      /\ clock' \in Nat /\ clock <= clock'
  BY DEF Tick, retention, store, TableInv
<1>2. TableInv' /\ Gone' /\ FirstSight' /\ Grows
  BY <1>1, NoRowStep DEF TableInv
<1>3. /\ \A v \in Writers : writing'[v] = writing[v] \/ writing'[v] = NoCall
      /\ DOMAIN writing' = Writers /\ writing' = [v \in Writers |-> writing'[v]]
  BY <1>1 DEF WritersOK
<1> QED  BY <1>1, <1>2, <1>3, WritersWait, RunsWait

-----------------------------------------------------------------------------
\* A step that leaves the log alone but for rows that were outlived, and moves one run.
LEMMA PurgeStep ==
  ASSUME RetentionInv, NEW p \in Purgers, NEW run, purge' = [purge EXCEPT ![p] = run],
         UNCHANGED <<clock, log, unlinked, writing, calls, unlinks>>, purges' \in Nat,
         asked \subseteq asked', asked' \subseteq Nat,
         table' \subseteq table, \A i \in table \ table' : Outlived(i, clock),
         RunOK(run)'
  PROVE  RetentionInv'
<1> USE DEF RetentionInv
<1>1. TableInv' /\ Gone' /\ FirstSight' /\ Grows
  BY NoRowStep DEF TableInv
<1>2. WritersOK'
  <2>1. /\ \A v \in Writers : writing'[v] = writing[v] \/ writing'[v] = NoCall
        /\ DOMAIN writing' = Writers /\ writing' = [v \in Writers |-> writing'[v]]
    BY DEF WritersOK
  <2> QED  BY <1>1, <2>1, WritersWait
<1>3. RunsOK'
  <2>1. run \in Runs
    BY DEF RunOK
  <2>2. ASSUME NEW q \in Purgers, NEW old, old = purge[q] PROVE RunOK(old)'
    BY <1>1, <2>2, RunKeeps DEF RunsOK
  <2>3. purge \in [Purgers -> Runs]
    BY DEF RunsOK
  <2>4. purge' \in [Purgers -> Runs] /\ \A q \in Purgers : purge'[q] = IF q = p THEN run ELSE purge[q]
    BY <2>1, <2>3
  <2>5. ASSUME NEW q \in Purgers, NEW new, new = purge'[q] PROVE RunOK(new)'
    BY <2>2, <2>4, <2>5
  <2> QED  BY <2>4, <2>5 DEF RunsOK
<1> QED  BY <1>1, <1>2, <1>3

LEMMA StartStep ==
  ASSUME RetentionInv, NEW p \in Purgers, NEW arg \in RetentionArgs, NEW size \in BatchSizes,
         NEW dryRun \in BOOLEAN, StartPurge(p, arg, size, dryRun)
  PROVE  RetentionInv'
<1> USE DEF RetentionInv
<1> DEFINE days == IF arg = NotGiven THEN DataRetentionDays ELSE arg
           run == PurgeSettings(arg, size)
           counted == Cardinality(ExpiredIn(run))
           new == IF dryRun \/ counted = 0 THEN Resting
                  ELSE [run EXCEPT !.at = "expected", !.candidates = counted]
<1>1. days \in Nat /\ size \in Nat /\ clock \in Nat
  BY RetentionAssumption DEF TableInv
<1>2. Min({ExpectedDays, days}) \in Nat
  BY <1>1, MinOfTwo, RetentionAssumption
<1>0. Len(log) \in Nat
  BY DEF TableInv
<1>3. /\ run \in Runs /\ run.begun = Len(log) /\ run.now = clock /\ run.days = days /\ run.size = size
      /\ run.expectedDays = Min({ExpectedDays, days}) /\ run.batch = {} /\ run.deleted = 0
  BY <1>0, <1>1, <1>2 DEF PurgeSettings, Resting, Runs
<1>4. ExpiredIn(run) \subseteq 1..Len(log) /\ DOMAIN log = 1..Len(log)
  BY RunRows
<1>5. counted \in Nat
  BY <1>0, <1>4, FiniteRows
<1>6. /\ purge' = [purge EXCEPT ![p] = new] /\ asked' = asked \cup {days} /\ purges' = purges + 1
      /\ UNCHANGED <<clock, log, table, unlinked, writing, calls, unlinks>>
  BY <1>3 DEF StartPurge, store
<1> HIDE DEF days
<1>7. ASSUME NEW r, r = new PROVE RunOK(r)'
  <2>1. CASE dryRun \/ counted = 0
    <3>1. Resting \in Runs /\ Resting.at = "idle" /\ Resting.batch = {}
      BY DEF Resting, Runs
    <3>2. r = Resting
      BY <1>7, <2>1
    <3> QED  BY <3>1, <3>2 DEF RunOK
  <2>2. CASE ~(dryRun \/ counted = 0)
    <3>1. r = [run EXCEPT !.at = "expected", !.candidates = counted]
      BY <1>7, <2>2
    <3> HIDE DEF run, counted, new
    <3>2. /\ r \in Runs /\ r.at = "expected" /\ r.begun = Len(log) /\ r.now = clock /\ r.days = days
          /\ r.expectedDays = Min({ExpectedDays, days}) /\ r.batch = {}
          /\ r.deleted = 0 /\ r.candidates = counted
      BY <1>3, <1>5, <3>1 DEF Runs
    <3>3. Asked(r)'
      BY <1>0, <1>1, <1>6, <3>2 DEF Asked
    <3>4. Swept(r)'
      BY <3>2 DEF Swept
    <3>5. Due(r)' = ExpiredIn(run) /\ Later(r)' = {}
      <4>1. ExpiredIn(r)' = ExpiredIn(run)
        BY <1>3, <1>6, <3>2 DEF ExpiredIn, RetentionOf
      <4>2. Later(r)' = {}
        BY <1>0, <1>4, <1>6, <3>2 DEF Later
      <4> QED  BY <1>4, <3>2, <4>1, <4>2 DEF Due
    <3>6. Paid(r)'
      BY <1>5, <3>2, <3>5, FS_EmptySet DEF Paid, counted
    <3> QED  BY <3>2, <3>3, <3>4, <3>6 DEF RunOK
  <2> QED  BY <2>1, <2>2
<1> HIDE DEF new, counted, run
<1>8. purges' \in Nat
  BY <1>6 DEF TableInv
<1>9. asked \subseteq asked' /\ asked' \subseteq Nat
  BY <1>1, <1>6 DEF TableInv
<1>10. ASSUME NEW r, r = new PROVE RetentionInv'
  <2>1. RunOK(r)' /\ purge' = [purge EXCEPT ![p] = r]
    BY <1>6, <1>7, <1>10
  <2> QED  BY <1>6, <1>8, <1>9, <2>1, PurgeStep
<1> QED  BY <1>10

LEMMA ReadStep ==
  ASSUME RetentionInv, NEW p \in Purgers, ReadBatch(p) PROVE RetentionInv'
<1> USE DEF RetentionInv
<1> DEFINE run == purge[p]
           rows == SweepOf(run)
<1>1. /\ run \in Runs /\ run.at \in {"expected", "main"} /\ run.batch = {} /\ RunOK(run)
      /\ Asked(run) /\ Swept(run) /\ Paid(run)
  BY DEF ReadBatch, RunsOK, RunOK
<1>2. UNCHANGED <<clock, log, table, unlinked, writing, calls, purges, unlinks, asked>>
  BY DEF ReadBatch, store
<1>3. PICK batch \in SUBSET rows :
        /\ Cardinality(batch) = Min({run.size, Cardinality(rows)})
        /\ purge' = [purge EXCEPT ![p] = IF batch = {} THEN NextSweep(run)
                                         ELSE [run EXCEPT !.batch = batch]]
  BY DEF ReadBatch, RunsOK
<1>4. rows \subseteq ExpiredIn(run) /\ rows \in SUBSET table
  BY DEF SweepOf, ExpiredIn
<1>5. purges \in Nat /\ DOMAIN log \subseteq Nat /\ table \subseteq DOMAIN log
  BY DEF TableInv
<1> HIDE DEF run
<1>6. CASE batch = {}
  <2> DEFINE new == NextSweep(run)
  <2>1. run.size > 0 => rows = {}
    <3>1. IsFiniteSet(rows) /\ Cardinality(rows) \in Nat /\ run.size \in Nat
      BY <1>1, <1>4, FiniteTable DEF Runs
    <3> HIDE DEF rows
    <3>2. Min({run.size, Cardinality(rows)}) = 0
      BY <1>3, <1>6, FS_EmptySet
    <3>3. run.size > 0 => Cardinality(rows) = 0
      BY <3>1, <3>2, MinOfTwo
    <3> QED  BY <3>1, <3>3, FS_EmptySet
  <2>2. /\ new \in Runs /\ new.at = (IF run.at = "expected" THEN "main" ELSE "returned")
        /\ new.begun = run.begun /\ new.now = run.now /\ new.days = run.days /\ new.expectedDays = run.expectedDays
        /\ new.size = run.size /\ new.batch = {} /\ new.candidates = run.candidates
        /\ new.deleted = run.deleted
    BY <1>1 DEF NextSweep, Runs
  <2> HIDE DEF new
  <2>3. ASSUME NEW r, r = new PROVE RunOK(r)'
    <3>1. Due(r)' = Due(run) /\ Later(r)' = Later(run)
      BY <1>2, <2>2, <2>3 DEF Due, Later, ExpiredIn, RetentionOf
    <3>2. Asked(r)'
      BY <1>1, <1>2, <2>2, <2>3 DEF Asked
    <3>3. Paid(r)'
      BY <1>1, <2>2, <2>3, <3>1 DEF Paid
    <3>4. Swept(r)'
      <4>1. CASE run.at = "expected"
        BY <1>2, <2>1, <2>2, <2>3, <3>1, <4>1 DEF Swept, Due, SweepOf
      <4>2. CASE run.at = "main"
        BY <1>1, <1>2, <2>1, <2>2, <2>3, <3>1, <4>2 DEF Swept, Due, SweepOf
      <4> QED  BY <1>1, <4>1, <4>2
    <3> QED  BY <2>2, <2>3, <3>2, <3>3, <3>4 DEF RunOK
  <2>4. purge' = [purge EXCEPT ![p] = new]
    BY <1>3, <1>6 DEF new
  <2>5. ASSUME NEW r, r = new PROVE RetentionInv'
    <3>1. RunOK(r)' /\ purge' = [purge EXCEPT ![p] = r]
      BY <2>3, <2>4, <2>5
    <3> QED  BY <1>2, <1>5, <3>1, PurgeStep DEF TableInv
  <2> QED  BY <2>5
<1>7. CASE batch # {}
  <2> DEFINE new == [run EXCEPT !.batch = batch]
  <2>1. batch \in SUBSET Nat
    BY <1>4, <1>5
  <2>2. /\ new \in Runs /\ new.at = run.at
        /\ new.begun = run.begun /\ new.now = run.now /\ new.days = run.days /\ new.expectedDays = run.expectedDays
        /\ new.size = run.size /\ new.batch = batch /\ new.candidates = run.candidates
        /\ new.deleted = run.deleted
    BY <1>1, <2>1 DEF Runs
  <2> HIDE DEF new
  <2>3. ASSUME NEW r, r = new PROVE RunOK(r)'
    <3>1. Due(r)' = Due(run) /\ Later(r)' = Later(run)
      BY <1>2, <2>2, <2>3 DEF Due, Later, ExpiredIn, RetentionOf
    <3>2. \A i \in r.batch : i \in DOMAIN log' /\ Expired(i, r)'
      BY <1>2, <1>4, <1>5, <2>2, <2>3 DEF ExpiredIn, Expired, RetentionOf
    <3>3. Asked(r)'
      BY <1>1, <1>2, <2>2, <2>3, <3>2 DEF Asked
    <3>4. Paid(r)'
      BY <1>1, <2>2, <2>3, <3>1 DEF Paid
    <3>5. Swept(r)'
      BY <1>1, <1>2, <2>2, <2>3, <3>1 DEF Swept
    <3> QED  BY <1>1, <2>2, <2>3, <3>3, <3>4, <3>5 DEF RunOK
  <2>4. purge' = [purge EXCEPT ![p] = new]
    BY <1>3, <1>7 DEF new
  <2>5. ASSUME NEW r, r = new PROVE RetentionInv'
    <3>1. RunOK(r)' /\ purge' = [purge EXCEPT ![p] = r]
      BY <2>3, <2>4, <2>5
    <3> QED  BY <1>2, <1>5, <3>1, PurgeStep DEF TableInv
  <2> QED  BY <2>5
<1> QED  BY <1>6, <1>7

LEMMA DeleteStep ==
  ASSUME RetentionInv, NEW p \in Purgers, DeleteBatch(p) PROVE RetentionInv'
<1> USE DEF RetentionInv
<1> DEFINE run == purge[p]
           there == run.batch \cap table
           gone == Cardinality(there)
           new == [run EXCEPT !.batch = {}, !.deleted = run.deleted + gone]
<1>1. run \in Runs /\ run.batch # {} /\ RunOK(run)
  BY DEF DeleteBatch, RunsOK
<1>2. /\ run.at # "idle" /\ run.at # "returned" /\ Asked(run) /\ Swept(run) /\ Paid(run)
      /\ run.deleted \in Nat /\ run.candidates \in Nat /\ run.size \in Nat
  BY <1>1 DEF RunOK, Runs
<1>3. /\ UNCHANGED <<clock, log, unlinked, writing, calls, purges, unlinks, asked>>
      /\ table' = table \ run.batch /\ purge' = [purge EXCEPT ![p] = new]
  BY DEF DeleteBatch, RunsOK
<1> HIDE DEF run
<1>4. there \subseteq ExpiredIn(run) /\ there \subseteq table /\ table \subseteq DOMAIN log
  BY <1>2 DEF Asked, Expired, ExpiredIn, TableInv
<1>5. /\ Len(log) \in Nat /\ DOMAIN log = 1..Len(log)
      /\ IsFiniteSet(Due(run)) /\ Cardinality(Due(run)) \in Nat
      /\ IsFiniteSet(Later(run)) /\ Cardinality(Later(run)) \in Nat
  BY RunRows
<1> DEFINE counted == there \cap (1..run.begun)
           since == there \ counted
<1>12. /\ IsFiniteSet(there) /\ IsFiniteSet(counted) /\ IsFiniteSet(since)
       /\ gone \in Nat /\ Cardinality(counted) \in Nat /\ Cardinality(since) \in Nat
  <2>1. there \subseteq 1..Len(log) /\ counted \subseteq 1..Len(log) /\ since \subseteq 1..Len(log)
    BY <1>4, <1>5
  <2> HIDE DEF there, counted, since
  <2> QED  BY <1>5, <2>1, FiniteRows
<1>6. gone = Cardinality(counted) + Cardinality(since)
  <2>1. there = counted \cup since /\ counted \cap since = {}
    OBVIOUS
  <2> HIDE DEF there, counted, since
  <2>2. Cardinality(counted \cup since) = Cardinality(counted) + Cardinality(since) - Cardinality({})
    BY <1>12, <2>1, FS_Union
  <2> QED  BY <1>12, <2>1, <2>2, FS_EmptySet
<1>13. Cardinality(Due(run) \ there) = Cardinality(Due(run)) - Cardinality(counted)
  <2>1. Due(run) \cap there = counted
    BY <1>4 DEF Due
  <2> HIDE DEF there, counted
  <2>2. Cardinality(Due(run) \ there) = Cardinality(Due(run)) - Cardinality(Due(run) \cap there)
    BY <1>5, FS_Difference
  <2> QED  BY <2>1, <2>2
<1>14. Cardinality(Later(run) \cup since) = Cardinality(Later(run)) + Cardinality(since)
  <2>1. Later(run) \cap since = {}
    BY <1>4 DEF Later
  <2> HIDE DEF since
  <2>2. Cardinality(Later(run) \cup since) = Cardinality(Later(run)) + Cardinality(since) - Cardinality({})
    BY <1>5, <1>12, <2>1, FS_Union
  <2> QED  BY <1>5, <1>12, <2>2, FS_EmptySet
<1>7. /\ new \in Runs /\ new.at = run.at /\ new.begun = run.begun /\ new.now = run.now /\ new.days = run.days
      /\ new.expectedDays = run.expectedDays /\ new.size = run.size /\ new.batch = {}
      /\ new.candidates = run.candidates /\ new.deleted = run.deleted + gone
  <2> DEFINE total == run.deleted + gone
  <2>1. total \in Nat
    <3> HIDE DEF gone
    <3> QED  BY <1>2, <1>12
  <2>2. new = [run EXCEPT !.batch = {}, !.deleted = total]
    OBVIOUS
  <2> HIDE DEF total, new
  <2>3. /\ new \in Runs /\ new.at = run.at /\ new.begun = run.begun /\ new.now = run.now /\ new.days = run.days
        /\ new.expectedDays = run.expectedDays /\ new.size = run.size /\ new.batch = {}
        /\ new.candidates = run.candidates /\ new.deleted = total
    BY <1>1, <2>1, <2>2 DEF Runs
  <2> QED  BY <2>3 DEF total
<1> HIDE DEF new, gone
<1>8. ASSUME NEW r, r = new PROVE RunOK(r)'
  <2>1. Due(r)' = Due(run) \ there
    BY <1>3, <1>7, <1>8 DEF Due, ExpiredIn, RetentionOf
  <2>5. Later(r)' = Later(run) \cup since
    <3>1. run.begun \in Nat /\ r.begun = run.begun /\ log' = log /\ table' = table \ there
      BY <1>1, <1>3, <1>7, <1>8 DEF Runs
    <3>2. \A i \in there : i \in DOMAIN log /\ i \in Nat
      BY <1>4, <1>5
    <3> QED  BY <1>4, <1>5, <3>1, <3>2 DEF Later
  <2>2. Asked(r)'
    BY <1>2, <1>3, <1>7, <1>8 DEF Asked
  <2>3. Swept(r)'
    BY <1>2, <1>3, <1>7, <1>8, <2>1 DEF Swept
  <2>4. Paid(r)'
    <3> DEFINE due == Cardinality(Due(run))
               later == Cardinality(Later(run))
               c == Cardinality(counted)
               s == Cardinality(since)
    <3>1. Cardinality(Due(r)') = due - c /\ Cardinality(Later(r)') = later + s /\ gone = c + s
      BY <1>6, <1>13, <1>14, <2>1, <2>5
    <3>2. run.deleted + due <= run.candidates + later /\ due \in Nat /\ later \in Nat /\ c \in Nat /\ s \in Nat
      BY <1>2, <1>5, <1>12 DEF Paid
    <3>3. PICK due2, later2 : due2 = Cardinality(Due(r)') /\ later2 = Cardinality(Later(r)')
      OBVIOUS
    <3> HIDE DEF due, later, c, s, counted, since
    <3>4. r.deleted + due2 <= r.candidates + later2
      BY <1>2, <1>7, <1>8, <3>1, <3>2, <3>3
    <3> QED  BY <3>3, <3>4 DEF Paid
  <2> QED  BY <1>1, <1>7, <1>8, <2>2, <2>3, <2>4 DEF RunOK
<1>9. \A i \in table \ table' : Outlived(i, clock)
  <2> SUFFICES ASSUME NEW i \in run.batch PROVE Outlived(i, clock)
    BY <1>3
  <2>1. i \in DOMAIN log /\ Expired(i, run) /\ run.days \in asked /\ run.now <= clock
        /\ run.expectedDays = Min({ExpectedDays, run.days})
    BY <1>2 DEF Asked
  <2> DEFINE kept == IF log[i].outcome = "expected" THEN Min({ExpectedDays, run.days}) ELSE run.days
  <2>2. RetentionOf(log[i].outcome, run) = kept /\ kept \in Nat
    BY <1>1, <2>1, RetentionInRun
  <2>3. log[i].timestamp \in Nat /\ clock \in Nat /\ run.now \in Nat
    BY <1>1, <2>1, LogRow DEF TableInv, Runs
  <2>4. log[i].timestamp < run.now - kept
    BY <2>1, <2>2 DEF Expired
  <2> HIDE DEF kept
  <2>5. log[i].timestamp < clock - kept
    BY <2>1, <2>2, <2>3, <2>4
  <2> QED  BY <2>1, <2>5 DEF Outlived, kept
<1>10. ASSUME NEW r, r = new PROVE RetentionInv'
  <2>1. RunOK(r)' /\ purge' = [purge EXCEPT ![p] = r]
    BY <1>3, <1>8, <1>10
  <2> QED  BY <1>3, <1>9, <2>1, PurgeStep DEF TableInv
<1> QED  BY <1>10

LEMMA KillStep ==
  ASSUME RetentionInv, NEW p \in Purgers, KillPurge(p) PROVE RetentionInv'
<1>1. RunOK(Resting)'
  BY DEF Resting, Runs, RunOK
<1> QED  BY <1>1, PurgeStep DEF KillPurge, store, RetentionInv, TableInv

LEMMA RetentionInvStep == RetentionInv /\ [Next]_vars => RetentionInv'
<1> SUFFICES ASSUME RetentionInv, [Next]_vars PROVE RetentionInv'
  OBVIOUS
<1>1. ASSUME NEW w \in Writers, NEW call \in Calls,
             StartCall(w, call) \/ ClassifyRow(w) \/ CommitCall(w) \/ AbortCall(w)
      PROVE  RetentionInv'
  BY <1>1, StartCallStep, ClassifyRowStep, CommitCallStep, AbortCallStep
<1>2. ASSUME NEW w \in Writers, ClassifyRow(w) \/ CommitCall(w) \/ AbortCall(w) PROVE RetentionInv'
  BY <1>2, ClassifyRowStep, CommitCallStep, AbortCallStep
<1>3. ASSUME NEW p \in Purgers, NEW arg \in RetentionArgs, NEW size \in BatchSizes,
             NEW dryRun \in BOOLEAN, StartPurge(p, arg, size, dryRun)
      PROVE  RetentionInv'
  BY <1>3, StartStep
<1>4. ASSUME NEW p \in Purgers, ReadBatch(p) \/ DeleteBatch(p) \/ KillPurge(p) PROVE RetentionInv'
  BY <1>4, ReadStep, DeleteStep, KillStep
<1>5. ASSUME RetentionNext PROVE RetentionInv'
  BY <1>1, <1>2, <1>3, <1>4, <1>5, DeleteServiceStep, TickStep DEF RetentionNext
<1>6. Next \/ UNCHANGED vars => RetentionNext \/ UNCHANGED retention
  BY DEF Next, vars, ListCards, RetrieveCard, OpenCards, ReadAssets, ReadOutcomes, ReadSparkline,
         OpenList, CountPage, SlicePage
<1> QED  BY <1>5, <1>6, TickStep

-----------------------------------------------------------------------------
\* persistence.py:86-145, 188-250, purge.py:42-94, flow_state.py:22-33: with any number
\* of writers and of purgers of any retention and batch size, rolled back or killed at
\* any point, no row is lost before its time; a row taken for first sight comes after no
\* other of its flow but such as were committed after the look, lost their service or had
\* been outlived; and a purge that returns has left nothing that it found expired, and
\* deleted no more than it counted and rows committed since.
THEOREM PurgeHolds == Spec => []PurgeKeepsRetention
<1>1. ASSUME RetentionInv PROVE PurgeKeepsRetention
  <2>1. ASSUME NEW p \in Purgers, NEW run, run = purge[p], run.at = "returned"
        PROVE  /\ run.size > 0 => ExpiredIn(run) \cap (1..run.begun) = {}
               /\ run.deleted <= run.candidates + Cardinality({i \in DOMAIN log \ table : i > run.begun})
    <3>1. RunOK(run) /\ TableInv
      BY <1>1, <2>1 DEF RetentionInv, RunsOK
    <3>2. run \in Runs /\ run.deleted \in Nat /\ run.candidates \in Nat /\ Swept(run) /\ Paid(run)
      BY <2>1, <3>1 DEF RunOK, Runs
    <3>3. PICK due, later : due = Cardinality(Due(run)) /\ later = Cardinality(Later(run))
      OBVIOUS
    <3>4. due \in Nat /\ later \in Nat
      BY <3>1, <3>3, RunRows
    <3>5. run.deleted <= run.candidates + later
      BY <3>2, <3>3, <3>4 DEF Paid
    <3> QED  BY <2>1, <3>2, <3>3, <3>5 DEF Swept, Due, Later
  <2>2. \A p \in Purgers :
          LET run == purge[p]
              later == {i \in DOMAIN log \ table : i > run.begun}
          IN  run.at = "returned" =>
                /\ run.size > 0 => ExpiredIn(run) \cap (1..run.begun) = {}
                /\ run.deleted <= run.candidates + Cardinality(later)
    BY <2>1
  <2> QED  BY <1>1, <2>2 DEF RetentionInv, Gone, FirstSight, PurgeKeepsRetention
<1>2. RetentionInv => PurgeKeepsRetention
  BY <1>1
<1> QED  BY <1>2, RetentionInvInit, RetentionInvStep, PTL DEF Spec

-----------------------------------------------------------------------------
\* What a step of the table does to the rows that are there.
Settles ==
  /\ Grows
  /\ \A i \in DOMAIN log : i \in table' => i \in table
  /\ unlinked \subseteq unlinked'
  /\ \A i \in unlinked' : i \in unlinked \/ Link(i) # NoLink

LEMMA RetentionSettles ==
  ASSUME RetentionInv, RetentionNext \/ UNCHANGED retention
  PROVE  Settles
<1>1. clock \in Nat /\ table \subseteq DOMAIN log /\ Len(log) \in Nat /\ DOMAIN log = 1..Len(log)
  BY DEF RetentionInv, TableInv
<1>2. CASE UNCHANGED retention
  BY <1>1, <1>2 DEF retention, store, Settles, Grows
<1>3. ASSUME NEW w \in Writers, CommitCall(w) PROVE Settles
  <2>1. Grows /\ unlinked' = unlinked
    BY <1>3, CommitCallStep DEF CommitCall
  <2> QED  BY <2>1 DEF Settles, Grows
<1>4. ASSUME NEW w \in Writers, NEW call, StartCall(w, call) PROVE Settles
  BY <1>1, <1>4 DEF StartCall, store, Settles, Grows
<1>5. ASSUME NEW w \in Writers, ClassifyRow(w) \/ AbortCall(w) PROVE Settles
  BY <1>1, <1>5 DEF ClassifyRow, AbortCall, store, Settles, Grows
<1>6. ASSUME NEW i \in table, Link(i) # NoLink, DeleteService(Link(i)) PROVE Settles
  BY <1>1, <1>6 DEF DeleteService, Settles, Grows
<1>7. CASE Tick
  BY <1>1, <1>7 DEF Tick, store, Settles, Grows
<1>8. ASSUME NEW p \in Purgers, NEW arg, NEW size, NEW dryRun, StartPurge(p, arg, size, dryRun)
      PROVE  Settles
  BY <1>1, <1>8 DEF StartPurge, store, Settles, Grows
<1>9. ASSUME NEW p \in Purgers, ReadBatch(p) \/ DeleteBatch(p) \/ KillPurge(p) PROVE Settles
  BY <1>1, <1>9 DEF ReadBatch, DeleteBatch, KillPurge, store, Settles, Grows
<1> QED  BY <1>2, <1>3, <1>4, <1>5, <1>6, <1>7, <1>8, <1>9 DEF RetentionNext

-----------------------------------------------------------------------------
\* The buckets of the window are numbered from 0 to Buckets.
LEMMA BucketInWindow ==
  ASSUME NEW time \in Nat, NEW end \in Nat, time <= end, time >= WindowStart(end)
  PROVE  BucketOf(time, end) \in 0..Buckets
<1>1. BucketSize \in Nat /\ BucketSize > 0 /\ Buckets \in Nat
  BY DashboardAssumption
<1> DEFINE start == WindowStart(end)
           last == end \div BucketSize
           b == BucketOf(time, end)
<1>2. last \in Nat /\ end < (last + 1) * BucketSize
  BY <1>1
<1>3. start = last * BucketSize - Buckets * BucketSize /\ start \in Int
  BY <1>1, <1>2 DEF WindowStart
<1>4. time - start \in Nat /\ b = (time - start) \div BucketSize
  BY <1>3 DEF BucketOf
<1>5. time - start < BucketSize + Buckets * BucketSize
  BY <1>1, <1>2, <1>3
<1>6. b \in Nat /\ b * BucketSize <= time - start
  BY <1>1, <1>4
<1> HIDE DEF b, start
<1>7. ~(b >= Buckets + 1)
  BY <1>1, <1>3, <1>5, <1>6
<1> QED  BY <1>1, <1>6, <1>7 DEF b

-----------------------------------------------------------------------------
Complete(card) == card.sparkline # <<>>

Keys == [service : STRING \cup {NoLink}, endpoint : STRING]
CardSet == [key : Keys, count : Nat \ {0}, first : Nat, last : Nat, assets : SUBSET STRING,
            worst : Outcomes, sparkline : {<<>>} \cup [0..Buckets -> Nat]]

CardOK(card) == card \in CardSet /\ card.first <= card.last /\ card.last <= clock

\* Cards are built one at a time.
Building ==
  /\ \A card \in cards.todo : ~Complete(card)
  /\ cards.at = "reading" => \A card \in cards.done : Complete(card)
  /\ \A c, d \in cards.done : ~Complete(c) /\ ~Complete(d) => c = d

CardFor(card, i, key) == card.key = key /\ log[i].timestamp \in card.first..card.last

ShowsOutcome(card, i) == OutcomeRank[log[i].outcome] <= OutcomeRank[card.worst]

ShowsTime(card, i) ==
  log[i].timestamp >= WindowStart(card.last) =>
    card.sparkline[BucketOf(log[i].timestamp, card.last)] > 0

\* A card that is built shows the row; the one being built does so as far as it is.
CardShows(card, i, key) ==
  /\ CardFor(card, i, key) /\ log[i].asset \in card.assets
  /\ Complete(card) \/ cards.at = "sparkline" => ShowsOutcome(card, i)
  /\ Complete(card) => ShowsTime(card, i)

\* What is known of a row that had this key when the request began.
Shown(i, key) ==
  /\ log[i].direction \in OutboundDirections
  /\ ~(log[i].direction = "outbound" /\ key.service = NoLink)
  /\ key.service = NoLink => Link(i) = NoLink
  /\ i \in table /\ Key(i) = key =>
       \/ \E card \in cards.todo : CardFor(card, i, key)
       \/ \E card \in cards.done : CardShows(card, i, key)

CardsInv ==
  /\ cards = [at |-> cards.at, todo |-> cards.todo, done |-> cards.done, start |-> cards.start]
  /\ cards.at \in {"idle", "reading", "outcomes", "sparkline"}
  /\ \A card \in cards.todo \cup cards.done : CardOK(card)
  /\ Building
  /\ DOMAIN cards.start \subseteq DOMAIN log
  /\ \A i \in DOMAIN cards.start : Shown(i, cards.start[i])

ViewInv == RetentionInv /\ CardsInv

LEMMA KeyType ==
  ASSUME RetentionInv, NEW i \in DOMAIN log
  PROVE  Key(i) \in Keys
<1>1. log[i] \in StoredRows
  BY LogRow DEF RetentionInv
<1> QED  BY <1>1 DEF StoredRows, Key, Keys, Link

LEMMA ShownLater ==
  ASSUME RetentionInv, Settles, UNCHANGED cards, NEW i \in DOMAIN log, NEW key, Shown(i, key)
  PROVE  Shown(i, key)'
<1>1. log'[i] = log[i] /\ (i \in table' => i \in table)
  BY DEF Settles, Grows
<1>2. i \in unlinked => Link(i) = NoLink /\ Link(i)' = NoLink
  BY DEF Settles, Link
<1>3. i \notin unlinked' => Link(i)' = Link(i)
  BY <1>1 DEF Settles, Link
<1>4. i \in unlinked' => Link(i)' = NoLink
  BY DEF Link
<1>5. key.service = NoLink => Link(i)' = NoLink
  BY <1>3, <1>4 DEF Shown
<1>6. Key(i)' = key => Key(i) = key
  <2>1. SUFFICES ASSUME Key(i)' = key PROVE Link(i) = Link(i)'
    BY <1>1 DEF Key
  <2>2. key.service = Link(i)'
    BY <2>1 DEF Key
  <2> QED  BY <1>3, <1>4, <2>2 DEF Shown
<1>7. \A card : (CardFor(card, i, key) => CardFor(card, i, key)')
                /\ (CardShows(card, i, key) => CardShows(card, i, key)')
  BY <1>1 DEF CardFor, CardShows, ShowsOutcome, ShowsTime
<1> QED  BY <1>1, <1>5, <1>6, <1>7 DEF Shown

\* The table changes while a request is under way, or a list is walked.
LEMMA CardsWait ==
  ASSUME ViewInv, RetentionNext \/ UNCHANGED retention, UNCHANGED cards
  PROVE  CardsInv'
<1> USE DEF ViewInv
<1>1. Settles
  BY RetentionSettles
<1>2. \A card \in cards.todo \cup cards.done : CardOK(card)'
  <2> SUFFICES ASSUME NEW card \in cards.todo \cup cards.done PROVE CardOK(card)'
    OBVIOUS
  <2>1. card \in CardSet /\ card.first <= card.last /\ card.last <= clock /\ card.last \in Nat
    BY DEF CardsInv, CardOK, CardSet
  <2>2. clock \in Nat /\ clock' \in Nat /\ clock <= clock'
    BY <1>1 DEF Settles, Grows, RetentionInv, TableInv
  <2>3. card.last <= clock'
    BY <2>1, <2>2
  <2> QED  BY <2>1, <2>3 DEF CardOK
<1>3. \A i \in DOMAIN cards.start : i \in DOMAIN log' /\ Shown(i, cards.start[i])'
  <2> SUFFICES ASSUME NEW i \in DOMAIN cards.start, NEW key, key = cards.start[i]
               PROVE  i \in DOMAIN log' /\ Shown(i, key)'
    OBVIOUS
  <2>1. i \in DOMAIN log /\ Shown(i, key)
    BY DEF CardsInv
  <2> QED  BY <1>1, <2>1, ShownLater DEF Settles, Grows
<1>4. Building'
  BY DEF CardsInv, Building
<1> QED  BY <1>2, <1>3, <1>4 DEF CardsInv

-----------------------------------------------------------------------------
\* A row of a card's group.
LEMMA GroupOK ==
  ASSUME RetentionInv, NEW key \in Keys, EventsOf(key) # {}
  PROVE  /\ CardOK(Group(key)) /\ ~Complete(Group(key)) /\ Group(key).key = key
         /\ \A i \in EventsOf(key) : CardFor(Group(key), i, key)
<1> DEFINE rows == EventsOf(key)
           times == Timestamps(rows)
<1>1. rows \in SUBSET table /\ table \subseteq DOMAIN log /\ clock \in Nat /\ TableInv
  BY DEF EventsOf, OutboundEvents, RetentionInv, TableInv
<1>2. IsFiniteSet(rows) /\ Cardinality(rows) \in Nat /\ Cardinality(rows) # 0
  BY <1>1, FiniteTable, FS_EmptySet
<1>3. \A i \in rows : log[i].timestamp \in 0..clock /\ log[i].timestamp \in times
  BY <1>1, LogRow DEF TableInv, Timestamps
<1>4. times \in SUBSET (0..clock) /\ times # {} /\ times \in SUBSET Nat
  BY <1>1, <1>3 DEF Timestamps
<1> HIDE DEF rows, times
<1>5. Min(times) \in times /\ \A y \in times : Min(times) <= y
  BY <1>4, LeastOf
<1>6. Max(times) \in times /\ \A y \in times : Max(times) >= y
  BY <1>1, <1>4, GreatestOf
<1>7. Min(times) \in Nat /\ Max(times) \in Nat /\ Min(times) <= Max(times) /\ Max(times) <= clock
  <2>1. ASSUME NEW low \in times, NEW high \in times, \A y \in times : low <= y
        PROVE  low \in Nat /\ high \in Nat /\ low <= high /\ high <= clock
    BY <1>1, <1>4, <2>1
  <2> QED  BY <1>5, <1>6, <2>1
<1>8. Group(key) = [key |-> key, count |-> Cardinality(rows), first |-> Min(times),
                    last |-> Max(times), assets |-> {}, worst |-> "expected", sparkline |-> <<>>]
  BY DEF Group, rows, times
<1>9. CardOK(Group(key)) /\ ~Complete(Group(key)) /\ Group(key).key = key
  BY <1>2, <1>7, <1>8 DEF CardOK, CardSet, Complete, Outcomes
<1>10. \A i \in rows : CardFor(Group(key), i, key)
  BY <1>3, <1>4, <1>5, <1>6, <1>7, <1>8 DEF CardFor
<1> QED  BY <1>9, <1>10 DEF rows

LEMMA OpenStep ==
  ASSUME ViewInv, NEW keys, keys \subseteq {Key(i) : i \in OutboundEvents}, OpenCards(keys)
  PROVE  CardsInv'
<1> USE DEF ViewInv
<1> DEFINE opened == {j \in OutboundEvents : Key(j) \in keys}
           start == [i \in opened |-> Key(i)]
           groups == {Group(key) : key \in keys}
<1>1. /\ cards' = [at |-> "reading", todo |-> groups, done |-> {}, start |-> start]
      /\ UNCHANGED <<clock, log, table, unlinked>>
  BY DEF OpenCards, NoCards, retention, store
<1>2. opened \subseteq table /\ table \subseteq DOMAIN log
  BY DEF OutboundEvents, RetentionInv, TableInv
<1>3. ASSUME NEW key \in keys PROVE key \in Keys /\ EventsOf(key) # {}
  <2>1. PICK i \in OutboundEvents : key = Key(i)
    OBVIOUS
  <2>2. i \in DOMAIN log
    BY DEF OutboundEvents, RetentionInv, TableInv
  <2> QED  BY <2>1, <2>2, KeyType DEF EventsOf
<1>4. ASSUME NEW card \in groups PROVE CardOK(card)' /\ ~Complete(card)
  <2>1. PICK key \in keys : card = Group(key)
    OBVIOUS
  <2>2. CardOK(card) /\ ~Complete(card)
    BY <1>3, <2>1, GroupOK
  <2> QED  BY <1>1, <2>2 DEF CardOK
<1>5. ASSUME NEW i \in opened, NEW key, key = Key(i) PROVE Shown(i, key)'
  <2>1. i \in EventsOf(key) /\ key \in keys /\ Group(key) \in groups
    BY <1>5 DEF EventsOf
  <2>2. CardFor(Group(key), i, key)
    BY <1>3, <2>1, GroupOK
  <2> HIDE DEF groups, start
  <2>3. \E card \in cards'.todo : CardFor(card, i, key)'
    BY <1>1, <2>1, <2>2 DEF CardFor
  <2>4. log[i].direction \in OutboundDirections /\ ~(log[i].direction = "outbound" /\ key.service = NoLink)
    BY <1>5 DEF OutboundEvents, Key
  <2>5. key.service = Link(i) /\ Link(i)' = Link(i)
    BY <1>1, <1>5 DEF Key, Link
  <2> QED  BY <1>1, <2>3, <2>4, <2>5 DEF Shown
<1> HIDE DEF groups
<1>6. Building'
  BY <1>1, <1>4 DEF Building
<1>7. DOMAIN start = opened /\ \A i \in opened : start[i] = Key(i) /\ i \in DOMAIN log
  BY <1>2
<1> HIDE DEF start, opened
<1>8. \A i \in DOMAIN cards'.start : Shown(i, cards.start[i])'
  <2> SUFFICES ASSUME NEW i \in DOMAIN cards'.start, NEW key, key = cards'.start[i] PROVE Shown(i, key)'
    OBVIOUS
  <2>1. i \in opened /\ key = Key(i)
    BY <1>1, <1>7
  <2> QED  BY <1>5, <2>1
<1> QED  BY <1>1, <1>4, <1>6, <1>7, <1>8 DEF CardsInv

\* A row that keeps its place is read with its card.
LEMMA RowOfCard ==
  ASSUME ViewInv, NEW i \in DOMAIN cards.start, NEW key, key = cards.start[i],
         i \in table, Key(i) = key
  PROVE  i \in EventsOf(key)
<1>1. Shown(i, key)
  BY DEF ViewInv, CardsInv
<1> QED  BY <1>1 DEF Shown, EventsOf, OutboundEvents, Key

LEMMA AssetsStep ==
  ASSUME ViewInv, ReadAssets PROVE CardsInv'
<1> USE DEF ViewInv
<1>1. PICK card \in cards.todo :
        cards' = [cards EXCEPT !.at = "outcomes", !.todo = @ \ {card},
                    !.done = @ \cup {[card EXCEPT !.assets = {log[i].asset : i \in EventsOf(card.key)}]}]
  BY DEF ReadAssets
<1>2. UNCHANGED <<clock, log, table, unlinked>> /\ cards.at = "reading"
  BY DEF ReadAssets, retention, store
<1> DEFINE assets == {log[i].asset : i \in EventsOf(card.key)}
           new == [card EXCEPT !.assets = assets]
<1>3. assets \in SUBSET STRING
  <2>1. \A i \in EventsOf(card.key) : i \in DOMAIN log
    BY DEF EventsOf, OutboundEvents, RetentionInv, TableInv
  <2> QED  BY <2>1, LogRow DEF RetentionInv, StoredRows
<1>4. CardOK(card) /\ ~Complete(card)
  BY DEF CardsInv, Building
<1>5. cards' = [at |-> "outcomes", todo |-> cards.todo \ {card}, done |-> cards.done \cup {new},
                start |-> cards.start]
  BY <1>1 DEF CardsInv
<1>6. \A i \in EventsOf(card.key) : log[i].asset \in assets
  OBVIOUS
<1> HIDE DEF assets
<1>7. /\ new \in CardSet /\ new.key = card.key /\ new.first = card.first /\ new.last = card.last
      /\ new.assets = assets /\ new.sparkline = card.sparkline
  BY <1>3, <1>4 DEF CardOK, CardSet
<1>8. PICK made : made = new
  OBVIOUS
<1> HIDE DEF new
<1>9. /\ cards' = [at |-> "outcomes", todo |-> cards.todo \ {card},
                   done |-> cards.done \cup {made}, start |-> cards.start]
      /\ made \in CardSet /\ made.key = card.key /\ made.first = card.first /\ made.last = card.last
      /\ made.assets = assets /\ made.sparkline = card.sparkline
  BY <1>5, <1>7, <1>8
<1>10. CardOK(made)' /\ ~Complete(made)
  BY <1>2, <1>4, <1>9 DEF CardOK, Complete
<1>11. Building'
  BY <1>2, <1>9, <1>10 DEF CardsInv, Building
<1>12. \A c \in cards'.todo \cup cards'.done : CardOK(c)'
  <2> SUFFICES ASSUME NEW c \in cards'.todo \cup cards'.done PROVE CardOK(c)'
    OBVIOUS
  <2>1. c = made \/ c \in cards.todo \cup cards.done
    BY <1>9
  <2> QED  BY <1>2, <1>10, <2>1 DEF CardsInv, CardOK
<1>13. \A i \in DOMAIN cards'.start : Shown(i, cards.start[i])'
  <2> SUFFICES ASSUME NEW i \in DOMAIN cards'.start, NEW key, key = cards'.start[i] PROVE Shown(i, key)'
    OBVIOUS
  <2>1. i \in DOMAIN cards.start /\ key = cards.start[i] /\ Shown(i, key)
    BY <1>9 DEF CardsInv
  <2>2. Link(i)' = Link(i) /\ Key(i)' = Key(i)
    BY <1>2 DEF Link, Key
  <2>3. ASSUME i \in table, Key(i) = key
        PROVE  \/ \E c \in cards'.todo : CardFor(c, i, key)'
               \/ \E c \in cards'.done : CardShows(c, i, key)'
    <3>1. CASE \E c \in cards.done : CardShows(c, i, key)
      BY <1>2, <1>9, <3>1 DEF CardShows, CardFor, ShowsOutcome, ShowsTime
    <3>2. CASE \E c \in cards.todo \ {card} : CardFor(c, i, key)
      BY <1>2, <1>9, <3>2 DEF CardFor
    <3>3. CASE CardFor(card, i, key)
      <4>1. log[i].asset \in assets
        BY <1>6, <2>1, <2>3, <3>3, RowOfCard DEF CardFor
      <4>2. CardShows(made, i, key)'
        BY <1>2, <1>9, <1>10, <3>3, <4>1 DEF CardShows, CardFor
      <4> QED  BY <1>9, <4>2
    <3> QED  BY <2>1, <2>3, <3>1, <3>2, <3>3 DEF Shown
  <2> QED  BY <1>2, <2>1, <2>2, <2>3 DEF Shown
<1> QED  BY <1>2, <1>9, <1>11, <1>12, <1>13 DEF CardsInv

LEMMA WorstIsWorst ==
  ASSUME NEW outcomes \in SUBSET Outcomes
  PROVE  /\ WorstOutcome(outcomes) \in Outcomes
         /\ \A o \in outcomes : OutcomeRank[o] <= OutcomeRank[WorstOutcome(outcomes)]
<1>1. CASE outcomes = {}
  BY <1>1 DEF WorstOutcome, Outcomes
<1>2. CASE outcomes # {}
  <2>1. \E o \in outcomes : \A other \in outcomes : OutcomeRank[other] <= OutcomeRank[o]
    <3>0. /\ OutcomeRank["expected"] = 0 /\ OutcomeRank["acceptable"] = 1
          /\ OutcomeRank["suspicious"] = 2 /\ OutcomeRank["prohibited"] = 3
      BY DEF OutcomeRank
    <3>5. \A o \in outcomes : o \in {"expected", "acceptable", "suspicious", "prohibited"}
      BY DEF Outcomes
    <3>1. CASE "prohibited" \in outcomes
      BY <3>0, <3>1, <3>5
    <3>2. CASE "prohibited" \notin outcomes /\ "suspicious" \in outcomes
      BY <3>0, <3>2, <3>5
    <3>3. CASE "prohibited" \notin outcomes /\ "suspicious" \notin outcomes /\ "acceptable" \in outcomes
      BY <3>0, <3>3, <3>5
    <3>4. CASE "prohibited" \notin outcomes /\ "suspicious" \notin outcomes /\ "acceptable" \notin outcomes
      BY <1>2, <3>0, <3>4, <3>5
    <3> QED  BY <3>1, <3>2, <3>3, <3>4
  <2>2. WorstOutcome(outcomes)
          = CHOOSE o \in outcomes : \A other \in outcomes : OutcomeRank[other] <= OutcomeRank[o]
    BY <1>2 DEF WorstOutcome
  <2>3. /\ WorstOutcome(outcomes) \in outcomes
        /\ \A o \in outcomes : OutcomeRank[o] <= OutcomeRank[WorstOutcome(outcomes)]
    BY <2>1, <2>2, Zenon
  <2> QED  BY <2>3
<1> QED  BY <1>1, <1>2

\* The sparkline of a card counts each row of its window.
LEMMA SparklineCounts ==
  ASSUME RetentionInv, NEW rows \in SUBSET table, NEW end \in Nat
  PROVE  /\ HourlyBuckets(rows, end) \in [0..Buckets -> Nat] /\ HourlyBuckets(rows, end) # <<>>
         /\ \A i \in rows :
              log[i].timestamp <= end /\ log[i].timestamp >= WindowStart(end)
                => HourlyBuckets(rows, end)[BucketOf(log[i].timestamp, end)] > 0
<1> DEFINE in(b) == {i \in rows : /\ log[i].timestamp >= WindowStart(end)
                                  /\ BucketOf(log[i].timestamp, end) = b}
<1>1. HourlyBuckets(rows, end) = [b \in 0..Buckets |-> Cardinality(in(b))]
  BY DEF HourlyBuckets
<1>2. \A b : in(b) \in SUBSET table
  OBVIOUS
<1>3. \A i \in rows : log[i].timestamp >= WindowStart(end) => i \in in(BucketOf(log[i].timestamp, end))
  OBVIOUS
<1> HIDE DEF in
<1>4. \A b : IsFiniteSet(in(b)) /\ Cardinality(in(b)) \in Nat
  BY <1>2, FiniteTable DEF RetentionInv
<1>5. HourlyBuckets(rows, end) \in [0..Buckets -> Nat]
  BY <1>1, <1>4
<1>6. HourlyBuckets(rows, end) # <<>>
  <2>1. 0 \in DOMAIN HourlyBuckets(rows, end)
    BY <1>1, DashboardAssumption
  <2> QED  BY <2>1
<1>7. ASSUME NEW i \in rows, log[i].timestamp <= end, log[i].timestamp >= WindowStart(end)
      PROVE  HourlyBuckets(rows, end)[BucketOf(log[i].timestamp, end)] > 0
  <2> DEFINE b == BucketOf(log[i].timestamp, end)
  <2>1. log[i].timestamp \in Nat
    BY LogRow DEF RetentionInv, TableInv
  <2>2. b \in 0..Buckets /\ i \in in(b)
    BY <1>3, <1>7, <2>1, BucketInWindow
  <2> HIDE DEF b
  <2>3. Cardinality(in(b)) # 0 /\ Cardinality(in(b)) \in Nat
    BY <1>4, <2>2, FS_EmptySet
  <2>4. HourlyBuckets(rows, end)[b] > 0
    BY <1>1, <2>2, <2>3
  <2> QED  BY <2>4 DEF b
<1> QED  BY <1>5, <1>6, <1>7

\* A step that goes on with the card being built, and keeps what it says.
LEMMA BuildStep ==
  ASSUME ViewInv, UNCHANGED <<clock, log, table, unlinked>>, NEW card \in cards.done, ~Complete(card),
         NEW at \in {"reading", "sparkline"}, NEW made, CardOK(made),
         cards' = [at |-> at, todo |-> cards.todo, done |-> (cards.done \ {card}) \cup {made},
                   start |-> cards.start],
         at = "reading" => Complete(made),
         made.key = card.key, made.first = card.first, made.last = card.last, made.assets = card.assets,
         \A i \in EventsOf(card.key) : \A key :
           CardShows(card, i, key) =>
             /\ ShowsOutcome(made, i)
             /\ Complete(made) => ShowsTime(made, i)
  PROVE  CardsInv'
<1> USE DEF ViewInv
<1>1. CardOK(made)'
  BY DEF CardOK
<1>2. Building'
  <2>1. \A c \in cards.done : ~Complete(c) => c = card
    BY DEF CardsInv, Building
  <2> QED  BY <2>1 DEF CardsInv, Building, Complete
<1>3. \A c \in cards'.todo \cup cards'.done : CardOK(c)'
  <2> SUFFICES ASSUME NEW c \in cards'.todo \cup cards'.done PROVE CardOK(c)'
    OBVIOUS
  <2>1. c = made \/ c \in cards.todo \cup cards.done
    OBVIOUS
  <2> QED  BY <1>1, <2>1 DEF CardsInv, CardOK
<1>4. \A i \in DOMAIN cards'.start : Shown(i, cards.start[i])'
  <2> SUFFICES ASSUME NEW i \in DOMAIN cards'.start, NEW key, key = cards'.start[i] PROVE Shown(i, key)'
    OBVIOUS
  <2>1. i \in DOMAIN cards.start /\ key = cards.start[i] /\ Shown(i, key)
    BY DEF CardsInv
  <2>2. Link(i)' = Link(i) /\ Key(i)' = Key(i)
    BY DEF Link, Key
  <2>3. ASSUME i \in table, Key(i) = key
        PROVE  \/ \E c \in cards'.todo : CardFor(c, i, key)'
               \/ \E c \in cards'.done : CardShows(c, i, key)'
    <3>1. CASE \E c \in cards.done \ {card} : CardShows(c, i, key)
      <4>1. PICK c \in cards.done \ {card} : CardShows(c, i, key)
        BY <3>1
      <4>2. Complete(c)
        BY <4>1 DEF CardsInv, Building
      <4>3. CardShows(c, i, key)' /\ c \in cards'.done
        BY <4>1, <4>2 DEF CardShows, CardFor, ShowsOutcome, ShowsTime, Complete
      <4> QED  BY <4>3
    <3>2. CASE \E c \in cards.todo : CardFor(c, i, key)
      BY <3>2 DEF CardFor
    <3>3. CASE CardShows(card, i, key)
      <4>1. card.key = key /\ log[i].timestamp \in card.first..card.last /\ log[i].asset \in card.assets
        BY <3>3 DEF CardShows, CardFor
      <4>2. i \in EventsOf(card.key)
        BY <2>1, <2>3, <4>1, RowOfCard
      <4>3. ShowsOutcome(made, i) /\ (Complete(made) => ShowsTime(made, i))
        BY <3>3, <4>2
      <4>4. CardShows(made, i, key)'
        BY <4>1, <4>3 DEF CardShows, CardFor, ShowsOutcome, ShowsTime, Complete
      <4> QED  BY <4>4
    <3> QED  BY <2>1, <2>3, <3>1, <3>2, <3>3 DEF Shown
  <2> QED  BY <2>1, <2>2, <2>3 DEF Shown
<1> QED  BY <1>2, <1>3, <1>4 DEF CardsInv

LEMMA OutcomesStep ==
  ASSUME ViewInv, ReadOutcomes PROVE CardsInv'
<1> USE DEF ViewInv
<1>1. PICK card \in cards.done :
        LET worst == WorstOutcome({log[i].outcome : i \in EventsOf(card.key)})
        IN  /\ card.sparkline = <<>>
            /\ cards' = [cards EXCEPT !.at = "sparkline",
                           !.done = (@ \ {card}) \cup {[card EXCEPT !.worst = worst]}]
  BY DEF ReadOutcomes
<1>2. UNCHANGED <<clock, log, table, unlinked>>
  BY DEF ReadOutcomes, retention, store
<1> DEFINE rows == EventsOf(card.key)
           worst == WorstOutcome({log[i].outcome : i \in rows})
           new == [card EXCEPT !.worst = worst]
<1>3. CardOK(card) /\ ~Complete(card) /\ card.last \in Nat
  BY <1>1 DEF CardsInv, CardOK, CardSet, Complete
<1>4. \A i \in rows : i \in DOMAIN log
  BY DEF EventsOf, OutboundEvents, RetentionInv, TableInv
<1>5. cards' = [at |-> "sparkline", todo |-> cards.todo, done |-> (cards.done \ {card}) \cup {new},
                start |-> cards.start]
  BY <1>1 DEF CardsInv
<1>6. worst \in Outcomes /\ \A i \in rows : OutcomeRank[log[i].outcome] <= OutcomeRank[worst]
  <2> DEFINE outcomes == {log[i].outcome : i \in rows}
  <2>1. \A i \in rows : log[i].outcome \in Outcomes
    BY <1>4, LogRow DEF RetentionInv, StoredRows
  <2>2. outcomes \in SUBSET Outcomes /\ \A i \in rows : log[i].outcome \in outcomes
    BY <2>1
  <2> HIDE DEF rows, outcomes
  <2> QED  BY <2>2, WorstIsWorst DEF outcomes
<1> HIDE DEF worst
<1>7. PICK made : made = new
  OBVIOUS
<1>8. /\ made \in CardSet /\ made.key = card.key /\ made.first = card.first /\ made.last = card.last
      /\ made.assets = card.assets /\ made.worst = worst /\ made.sparkline = card.sparkline
  BY <1>3, <1>6, <1>7 DEF CardOK, CardSet
<1> HIDE DEF new
<1>9. CardOK(made) /\ ~Complete(made)
  BY <1>3, <1>8 DEF CardOK, Complete
<1>10. \A i \in rows : ShowsOutcome(made, i)
  BY <1>6, <1>8 DEF ShowsOutcome
<1> QED  BY <1>2, <1>3, <1>5, <1>7, <1>8, <1>9, <1>10, BuildStep

LEMMA SparklineStep ==
  ASSUME ViewInv, ReadSparkline PROVE CardsInv'
<1> USE DEF ViewInv
<1>1. PICK card \in cards.done :
        LET line == HourlyBuckets(EventsOf(card.key), card.last)
        IN  /\ card.sparkline = <<>>
            /\ cards' = [cards EXCEPT !.at = "reading",
                           !.done = (@ \ {card}) \cup {[card EXCEPT !.sparkline = line]}]
  BY DEF ReadSparkline
<1>2. UNCHANGED <<clock, log, table, unlinked>> /\ cards.at = "sparkline"
  BY DEF ReadSparkline, retention, store
<1> DEFINE rows == EventsOf(card.key)
           line == HourlyBuckets(rows, card.last)
           new == [card EXCEPT !.sparkline = line]
<1>3. CardOK(card) /\ ~Complete(card) /\ card.last \in Nat
  BY <1>1 DEF CardsInv, CardOK, CardSet, Complete
<1>4. rows \in SUBSET table
  BY DEF EventsOf, OutboundEvents
<1>5. cards' = [at |-> "reading", todo |-> cards.todo, done |-> (cards.done \ {card}) \cup {new},
                start |-> cards.start]
  BY <1>1 DEF CardsInv
<1>6. /\ line \in [0..Buckets -> Nat] /\ line # <<>>
      /\ \A i \in rows :
           log[i].timestamp <= card.last /\ log[i].timestamp >= WindowStart(card.last)
             => line[BucketOf(log[i].timestamp, card.last)] > 0
  <2> HIDE DEF rows
  <2> QED  BY <1>3, <1>4, SparklineCounts
<1> HIDE DEF line
<1>7. PICK made : made = new
  OBVIOUS
<1>8. /\ made \in CardSet /\ made.key = card.key /\ made.first = card.first /\ made.last = card.last
      /\ made.assets = card.assets /\ made.worst = card.worst /\ made.sparkline = line
  BY <1>3, <1>6, <1>7 DEF CardOK, CardSet
<1> HIDE DEF new
<1>9. CardOK(made) /\ Complete(made)
  BY <1>3, <1>6, <1>8 DEF CardOK, Complete
<1>10. ASSUME NEW i \in rows, NEW key, CardShows(card, i, key)
       PROVE  ShowsOutcome(made, i) /\ ShowsTime(made, i)
  <2>1. ShowsOutcome(made, i)
    BY <1>2, <1>8, <1>10 DEF CardShows, ShowsOutcome
  <2>2. log[i].timestamp \in card.first..card.last
    BY <1>10 DEF CardShows, CardFor
  <2>3. log[i].timestamp <= card.last
    BY <1>3, <2>2 DEF CardOK, CardSet
  <2>4. ShowsTime(made, i)
    BY <1>6, <1>8, <1>10, <2>3 DEF ShowsTime
  <2> QED  BY <2>1, <2>4
<1> QED  BY <1>2, <1>3, <1>5, <1>7, <1>8, <1>9, <1>10, BuildStep

-----------------------------------------------------------------------------
LEMMA ViewInvInit == Init => ViewInv
<1> SUFFICES ASSUME Init PROVE CardsInv
  BY RetentionInvInit DEF ViewInv
<1>1. cards = [at |-> "idle", todo |-> {}, done |-> {}, start |-> <<>>]
  BY DEF Init, NoCards
<1> QED  BY <1>1 DEF CardsInv, Building

LEMMA ViewInvStep == ViewInv /\ [Next]_vars => ViewInv'
<1> SUFFICES ASSUME ViewInv, [Next]_vars PROVE ViewInv'
  OBVIOUS
<1>1. RetentionInv'
  BY RetentionInvStep DEF ViewInv
<1>2. CASE RetentionNext /\ UNCHANGED <<walk, cards, reads>>
  BY <1>1, <1>2, CardsWait DEF ViewInv
<1>3. CASE ListCards
  BY <1>1, <1>3, OpenStep DEF ListCards, ViewInv
<1>4. ASSUME NEW i \in table, RetrieveCard(i) PROVE ViewInv'
  BY <1>1, <1>4, OpenStep DEF RetrieveCard, ViewInv
<1>5. CASE ReadAssets
  BY <1>1, <1>5, AssetsStep DEF ViewInv
<1>6. CASE ReadOutcomes
  BY <1>1, <1>6, OutcomesStep DEF ViewInv
<1>8. CASE ReadSparkline
  BY <1>1, <1>8, SparklineStep DEF ViewInv
<1>7. CASE OpenList \/ CountPage \/ SlicePage \/ UNCHANGED vars
  <2>1. UNCHANGED retention /\ UNCHANGED cards
    BY <1>7 DEF OpenList, CountPage, SlicePage, vars
  <2> QED  BY <1>1, <2>1, CardsWait DEF ViewInv
<1> QED  BY <1>2, <1>3, <1>4, <1>5, <1>6, <1>7, <1>8 DEF Next

\* A walk sees rows that have been there.
WalkInv ==
  /\ walk = [at |-> walk.at, page |-> walk.page, count |-> walk.count, seen |-> walk.seen,
             start |-> walk.start, begun |-> walk.begun, counted |-> walk.counted, late |-> walk.late]
  /\ walk.at \in {"idle", "count", "slice", "done"}
  /\ walk.page \in Nat /\ walk.count \in Nat
  /\ walk.seen \cup walk.start \subseteq DOMAIN log
  /\ reads \in Nat

LEMMA WalkInvInit == Init => WalkInv
BY DEF Init, NoWalk, WalkInv

LEMMA WalkInvStep == ViewInv /\ WalkInv /\ [Next]_vars => WalkInv'
<1> SUFFICES ASSUME ViewInv, WalkInv, [Next]_vars PROVE WalkInv'
  OBVIOUS
<1>1. table \subseteq DOMAIN log /\ TableInv
  BY DEF ViewInv, RetentionInv, TableInv
<1>2. CASE RetentionNext /\ UNCHANGED <<walk, cards, reads>>
  <2>1. DOMAIN log \subseteq DOMAIN log'
    BY <1>2, RetentionSettles DEF ViewInv, Settles, Grows
  <2> QED  BY <1>2, <2>1 DEF WalkInv
<1>3. ASSUME NEW keys, OpenCards(keys) PROVE WalkInv'
  BY <1>3 DEF OpenCards, retention, store, WalkInv
<1>4. CASE ReadAssets \/ ReadOutcomes \/ ReadSparkline \/ UNCHANGED vars
  BY <1>4 DEF ReadAssets, ReadOutcomes, ReadSparkline, vars, retention, store, WalkInv
<1>5. CASE OpenList
  <2>1. /\ walk' = [at |-> "count", page |-> 1, count |-> 0, seen |-> {}, start |-> table,
                    begun |-> Len(log), counted |-> 0, late |-> FALSE]
        /\ reads' = reads + 1 /\ UNCHANGED log
    BY <1>5 DEF OpenList, NoWalk, retention, store
  <2> QED  BY <1>1, <2>1 DEF WalkInv
<1>6. CASE CountPage
  <2> DEFINE count == Cardinality(table)
  <2>1. count \in Nat
    BY <1>1, FiniteTable
  <2>2. /\ \/ walk' = [walk EXCEPT !.at = "done"]
           \/ walk' = [walk EXCEPT !.at = "slice", !.count = count, !.counted = Len(log)]
        /\ UNCHANGED <<reads, log>>
    BY <1>6 DEF CountPage, retention, store
  <2> HIDE DEF count
  <2>3. CASE walk' = [walk EXCEPT !.at = "done"]
    BY <2>2, <2>3 DEF WalkInv
  <2>4. CASE walk' = [walk EXCEPT !.at = "slice", !.count = count, !.counted = Len(log)]
    BY <2>1, <2>2, <2>4 DEF WalkInv
  <2> QED  BY <2>2, <2>3, <2>4
<1>7. CASE SlicePage
  <2> DEFINE low == (walk.page - 1) * PageSize
             top == Min({walk.page * PageSize, walk.count})
             late == walk.late \/ (top = walk.count /\ Len(log) > walk.counted)
             at == IF top = walk.count THEN "done" ELSE "count"
  <2>1. PICK page \in Slices(table, low, top) :
          walk' = [walk EXCEPT !.seen = @ \cup page, !.late = late, !.at = at, !.page = @ + 1]
    BY <1>7 DEF SlicePage
  <2>2. UNCHANGED <<reads, log>>
    BY <1>7 DEF SlicePage, retention, store
  <2>3. page \subseteq table
    BY <2>1 DEF Slices
  <2>4. at \in {"done", "count"}
    OBVIOUS
  <2> HIDE DEF low, top, late, at
  <2>5. walk' = [at |-> at, page |-> walk.page + 1, count |-> walk.count, seen |-> walk.seen \cup page,
                 start |-> walk.start, begun |-> walk.begun, counted |-> walk.counted, late |-> late]
    BY <2>1 DEF WalkInv
  <2> QED  BY <1>1, <2>2, <2>3, <2>4, <2>5 DEF WalkInv
<1> QED  BY <1>2, <1>3, <1>4, <1>5, <1>6, <1>7 DEF Next, ListCards, RetrieveCard

\* Retention.tla, Dashboard.tla: the types.
THEOREM DashboardTypes == Spec => []TypeOK
<1>1. ASSUME ViewInv, WalkInv PROVE TypeOK
  <2>1. RetentionTypeOK
    <3>1. writing \in [Writers -> [at : {"idle", "open"}, call : Seq(Rows), now : 0..clock,
                                   reads : Seq(Reads)]]
      <4>1. clock \in Nat
        BY <1>1 DEF ViewInv, RetentionInv, TableInv
      <4>2. ASSUME NEW w \in Writers, NEW c, c = writing[w]
            PROVE  c \in [at : {"idle", "open"}, call : Seq(Rows), now : 0..clock, reads : Seq(Reads)]
        <5>1. c \in Transactions /\ c.now <= clock
          BY <1>1, <4>2 DEF ViewInv, RetentionInv, WritersOK, WriterOK
        <5> QED  BY <4>1, <5>1 DEF Transactions
      <4> QED  BY <1>1, <4>2 DEF ViewInv, RetentionInv, WritersOK
    <3> QED  BY <1>1, <3>1 DEF RetentionTypeOK, ViewInv, RetentionInv, TableInv, RunsOK
  <2>2. \A card \in cards.todo \cup cards.done :
          /\ card.count \in Nat \ {0} /\ card.first \in 0..card.last /\ card.last \in 0..clock
          /\ card.worst \in Outcomes
    BY <1>1 DEF ViewInv, CardsInv, CardOK, CardSet, RetentionInv, TableInv
  <2> QED  BY <1>1, <2>1, <2>2 DEF TypeOK, ViewInv, CardsInv, WalkInv
<1>2. Init => ViewInv /\ WalkInv
  BY ViewInvInit, WalkInvInit
<1>3. ViewInv /\ WalkInv /\ [Next]_vars => ViewInv' /\ WalkInv'
  BY ViewInvStep, WalkInvStep
<1>4. ViewInv /\ WalkInv => TypeOK
  BY <1>1
<1> QED  BY <1>2, <1>3, <1>4, PTL DEF Spec

(***************************************************************************)
(* A walk of the list.  A row that a page has passed over has at least as  *)
(* many newer rows in the table as the pages before have places, until it  *)
(* is shown or one of the reasons applies, and a reason stays one.         *)
(***************************************************************************)
Newer(i) == {j \in table : log[j].timestamp > log[i].timestamp}
Others(i) == {j \in DOMAIN log \ {i} : j \in walk.start \/ j > walk.begun}

Reason(i) ==
  \/ walk.late
  \/ \E j \in Others(i) : log[j].timestamp = log[i].timestamp
  \/ \E j \in Others(i) \ table : log[j].timestamp >= log[i].timestamp

Ahead(i) == walk.at # "done" /\ Cardinality(Newer(i)) >= (walk.page - 1) * PageSize

PassInv ==
  /\ walk.page >= 1 /\ walk.begun \in 0..Len(log) /\ walk.counted \in 0..Len(log)
  /\ walk.late \in BOOLEAN
  /\ walk.at # "idle" => \A j \in table : j \in walk.start \/ j > walk.begun
  /\ walk.at = "slice" => Cardinality(table \cap 1..walk.counted) <= walk.count
  /\ walk.at # "idle" => \A i \in walk.start \cap table : i \in walk.seen \/ Reason(i) \/ Ahead(i)

\* A row has fewer newer ones than the table has rows.
LEMMA NewerFewer ==
  ASSUME TableInv, NEW i \in table
  PROVE  Cardinality(Newer(i)) \in Nat /\ Cardinality(Newer(i)) < Cardinality(table)
<1> DEFINE newer == Newer(i)
<1>1. newer \in SUBSET table /\ i \notin newer
  <2>1. log[i].timestamp \in Nat
    BY LogRow DEF TableInv
  <2> QED  BY <2>1 DEF Newer
<1>2. IsFiniteSet(newer) /\ Cardinality(newer) \in Nat /\ IsFiniteSet(table) /\ Cardinality(table) \in Nat
  BY <1>1, FiniteTable
<1> HIDE DEF newer
<1>3. newer \cup {i} \in SUBSET table
  BY <1>1
<1>4. Cardinality(newer \cup {i}) = Cardinality(newer) + 1
  BY <1>1, <1>2, FS_AddElement
<1>5. Cardinality(newer \cup {i}) <= Cardinality(table)
  BY <1>2, <1>3, FS_Subset
<1> QED  BY <1>2, <1>4, <1>5 DEF newer

\* The table changes between the statements of a walk.
LEMMA PassWaits ==
  ASSUME RetentionInv, RetentionInv', WalkInv, PassInv, Settles, UNCHANGED walk
  PROVE  PassInv'
<1>1. /\ DOMAIN log = 1..Len(log) /\ Len(log) \in Nat /\ DOMAIN log' = 1..Len(log') /\ Len(log') \in Nat
      /\ table \subseteq DOMAIN log /\ table' \subseteq DOMAIN log' /\ TableInv /\ TableInv'
  BY DEF RetentionInv, TableInv
<1>2. DOMAIN log \subseteq DOMAIN log' /\ Len(log) <= Len(log')
  <2>1. DOMAIN log \subseteq DOMAIN log'
    BY DEF Settles, Grows
  <2>2. CASE Len(log) = 0
    BY <1>1, <2>1, <2>2
  <2>3. CASE Len(log) > 0
    <3>1. Len(log) \in 1..Len(log')
      BY <1>1, <2>1, <2>3
    <3> QED  BY <1>1, <2>1, <3>1
  <2> QED  BY <1>1, <2>2, <2>3
<1>3. \A j \in table' : j \in table \/ j > Len(log)
  BY <1>1 DEF Settles
<1>4. walk.begun \in 0..Len(log') /\ walk.counted \in 0..Len(log')
  BY <1>1, <1>2 DEF PassInv
<1>5. ASSUME walk.at # "idle", NEW j \in table' PROVE j \in walk.start \/ j > walk.begun
  BY <1>1, <1>3, <1>5 DEF PassInv
<1>6. ASSUME walk.at = "slice" PROVE Cardinality(table' \cap 1..walk.counted) <= walk.count
  <2> DEFINE before == table \cap 1..walk.counted
             after == table' \cap 1..walk.counted
  <2>1. after \subseteq before
    BY <1>1, <1>3 DEF PassInv
  <2>2. IsFiniteSet(before) /\ Cardinality(before) \in Nat
    BY <1>1, FiniteTable
  <2>3. Cardinality(before) <= walk.count /\ walk.count \in Nat
    BY <1>6 DEF PassInv, WalkInv
  <2> HIDE DEF before, after
  <2>4. Cardinality(after) <= Cardinality(before) /\ Cardinality(after) \in Nat
    BY <2>1, <2>2, FS_Subset, FS_CardinalityType
  <2> QED  BY <2>2, <2>3, <2>4 DEF after
<1>7. ASSUME walk.at # "idle", NEW i \in walk.start \cap table'
      PROVE  (i \in walk.seen \/ Reason(i) \/ Ahead(i))'
  <2>1. i \in DOMAIN log /\ i \in table /\ log'[i] = log[i]
    BY <1>1 DEF WalkInv, Settles, Grows
  <2>2. Others(i) \subseteq Others(i)'
    BY <1>2 DEF Others
  <2>3. \A j \in Others(i) : j \in DOMAIN log /\ log'[j] = log[j] /\ (j \notin table => j \notin table')
    BY DEF Others, Settles, Grows
  <2>4. Reason(i) => Reason(i)'
    BY <2>1, <2>2, <2>3 DEF Reason
  <2>5. ASSUME Ahead(i), ~Reason(i)' PROVE Ahead(i)'
    <3>1. ASSUME NEW j \in Newer(i) PROVE j \in Newer(i)'
      <4>1. j \in table /\ j \in DOMAIN log /\ log'[j] = log[j] /\ log[j].timestamp > log[i].timestamp
        BY <1>1 DEF Newer, Settles, Grows
      <4>2. log[i].timestamp \in Nat /\ log[j].timestamp \in Nat
        BY <1>1, <2>1, <4>1, LogRow
      <4>3. j \in Others(i)
        BY <1>7, <4>1, <4>2 DEF Others, PassInv
      <4>4. j \in table'
        BY <2>1, <2>2, <2>5, <4>1, <4>2, <4>3 DEF Reason
      <4> QED  BY <2>1, <4>1, <4>4 DEF Newer
    <3> DEFINE before == Newer(i)
               after == Newer(i)'
    <3>2. before \subseteq after /\ before \in SUBSET table /\ after \in SUBSET table'
      BY <3>1 DEF Newer
    <3>3. IsFiniteSet(after) /\ Cardinality(after) \in Nat
      <4>1. after \in SUBSET (1..Len(log'))
        BY <1>1, <3>2
      <4>2. IsFiniteSet(1..Len(log'))
        BY <1>1, FS_Interval
      <4> HIDE DEF after, before
      <4> QED  BY <4>1, <4>2, FS_Subset, FS_CardinalityType
    <3>4. Cardinality(before) >= (walk.page - 1) * PageSize /\ walk.at # "done"
      BY <2>5 DEF Ahead
    <3> DEFINE passed == (walk.page - 1) * PageSize
    <3>5. passed \in Int
      BY DashboardAssumption DEF WalkInv
    <3> HIDE DEF before, after, passed
    <3>6. Cardinality(before) <= Cardinality(after) /\ Cardinality(before) \in Nat
      BY <3>2, <3>3, FS_Subset, FS_CardinalityType
    <3>7. Cardinality(after) >= passed
      BY <3>3, <3>4, <3>5, <3>6 DEF passed
    <3> QED  BY <3>4, <3>7 DEF Ahead, after, passed
  <2> QED  BY <1>7, <2>1, <2>4, <2>5 DEF PassInv
<1> QED  BY <1>4, <1>5, <1>6, <1>7 DEF PassInv

LEMMA OpenListPasses ==
  ASSUME RetentionInv, OpenList PROVE PassInv'
<1>1. /\ walk' = [at |-> "count", page |-> 1, count |-> 0, seen |-> {}, start |-> table,
                  begun |-> Len(log), counted |-> 0, late |-> FALSE]
      /\ UNCHANGED <<log, table>> /\ Len(log) \in Nat
  <2>1. Len(log) \in Nat
    BY DEF RetentionInv, TableInv
  <2> QED  BY <2>1 DEF OpenList, NoWalk, retention, store
<1>2. ASSUME NEW i \in table PROVE Ahead(i)'
  <2>1. Cardinality(Newer(i)) \in Nat /\ Newer(i)' = Newer(i)
    BY <1>1, NewerFewer DEF RetentionInv, Newer
  <2>2. (1 - 1) * PageSize = 0
    BY DashboardAssumption
  <2> QED  BY <1>1, <2>1, <2>2 DEF Ahead
<1> QED  BY <1>1, <1>2 DEF PassInv

LEMMA CountPagePasses ==
  ASSUME RetentionInv, WalkInv, PassInv, CountPage PROVE PassInv'
<1> DEFINE count == Cardinality(table)
           passed == (walk.page - 1) * PageSize
<1>1. /\ TableInv /\ table \subseteq DOMAIN log /\ DOMAIN log = 1..Len(log) /\ Len(log) \in Nat
      /\ count \in Nat /\ passed \in Int
  BY FiniteTable, DashboardAssumption DEF RetentionInv, TableInv, WalkInv
<1>2. UNCHANGED <<log, table>> /\ walk.at = "count"
  BY DEF CountPage, retention, store
<1>3. \A i : Newer(i)' = Newer(i)
  BY <1>2 DEF Newer
<1>4. CASE walk' = [walk EXCEPT !.at = "done"] /\ passed >= count
  <2>1. /\ walk'.at = "done" /\ walk'.page = walk.page /\ walk'.begun = walk.begun
        /\ walk'.counted = walk.counted /\ walk'.late = walk.late /\ walk'.seen = walk.seen
        /\ walk'.start = walk.start
    BY <1>4 DEF WalkInv
  <2>2. ASSUME NEW i \in walk.start \cap table PROVE (i \in walk.seen \/ Reason(i))'
    <3>1. ~Ahead(i)
      <4>1. Cardinality(Newer(i)) \in Nat /\ Cardinality(Newer(i)) < count
        BY <1>1, NewerFewer
      <4>2. ~(Cardinality(Newer(i)) >= passed)
        <5> HIDE DEF passed, count
        <5> QED  BY <1>1, <1>4, <4>1
      <4> QED  BY <4>2 DEF Ahead
    <3>2. i \in walk.seen \/ Reason(i)
      BY <1>2, <3>1 DEF PassInv
    <3>3. Reason(i)' = Reason(i)
      BY <1>2, <2>1 DEF Reason, Others
    <3> QED  BY <2>1, <3>2, <3>3
  <2> QED  BY <1>2, <2>1, <2>2 DEF PassInv
<1>5. CASE walk' = [walk EXCEPT !.at = "slice", !.count = count, !.counted = Len(log)]
  <2>0. PICK n : n = count
    OBVIOUS
  <2>1. /\ walk'.at = "slice" /\ walk'.page = walk.page /\ walk'.begun = walk.begun
        /\ walk'.counted = Len(log) /\ walk'.late = walk.late /\ walk'.seen = walk.seen
        /\ walk'.start = walk.start /\ walk'.count = n
    <3> HIDE DEF count
    <3> QED  BY <1>5, <2>0 DEF WalkInv
  <2>2. table \cap 1..Len(log) = table
    BY <1>1
  <2>3. Cardinality(table \cap 1..Len(log)) <= n
    <3>1. Cardinality(table \cap 1..Len(log)) = n
      BY <2>0, <2>2
    <3>2. n \in Nat
      BY <1>1, <2>0
    <3> QED  BY <3>1, <3>2
  <2>4. ASSUME NEW i \in walk.start \cap table PROVE (i \in walk.seen \/ Reason(i) \/ Ahead(i))'
    <3>1. i \in walk.seen \/ Reason(i) \/ Ahead(i)
      BY <1>2 DEF PassInv
    <3>2. Reason(i)' = Reason(i)
      BY <1>2, <2>1 DEF Reason, Others
    <3>3. Ahead(i) => Ahead(i)'
      BY <1>3, <2>1 DEF Ahead
    <3> QED  BY <2>1, <3>1, <3>2, <3>3
  <2> QED  BY <1>1, <1>2, <2>1, <2>3, <2>4 DEF PassInv
<1> QED  BY <1>4, <1>5 DEF CountPage

\* A row that no other shares its time with is in a slice exactly if the number of
\* newer ones is.
LEMMA InSlice ==
  ASSUME TableInv, NEW low \in Nat, NEW top \in Nat, NEW page \in Slices(table, low, top),
         NEW i \in table, \A j \in table : log[j].timestamp = log[i].timestamp => j = i,
         Cardinality(Newer(i)) >= low, Cardinality(Newer(i)) < top
  PROVE  i \in page
<1> DEFINE newer == Cardinality(Newer(i))
           same(S) == {j \in S : log[j].timestamp = log[i].timestamp}
<1>1. newer \in Nat
  BY NewerFewer
<1>2. same(table) = {i} /\ page \subseteq table
  BY DEF Slices
<1>3. Cardinality(same(table)) = 1
  BY <1>2, FS_Singleton
<1>4. Cardinality(same(page)) = Cardinality(((newer + 1)..(newer + Cardinality(same(table)))) \cap ((low + 1)..top))
  BY Zenon DEF Slices, Newer
<1> HIDE DEF newer
<1>5. ((newer + 1)..(newer + 1)) \cap ((low + 1)..top) = {newer + 1}
  BY <1>1 DEF newer
<1>6. Cardinality(same(page)) = 1
  BY <1>3, <1>4, <1>5, FS_Singleton
<1>7. same(page) # {}
  <2> DEFINE shown == same(page)
  <2>1. Cardinality(shown) = 1
    BY <1>6
  <2> HIDE DEF shown
  <2>2. Cardinality({}) # 1
    BY FS_EmptySet
  <2>3. shown # {}
    BY <2>1, <2>2, Zenon
  <2> QED  BY <2>3 DEF shown
<1> QED  BY <1>2, <1>7

LEMMA SlicePagePasses ==
  ASSUME RetentionInv, WalkInv, PassInv, SlicePage PROVE PassInv'
<1> DEFINE low == (walk.page - 1) * PageSize
           high == walk.page * PageSize
           top == Min({high, walk.count})
           late == walk.late \/ (top = walk.count /\ Len(log) > walk.counted)
           at == IF top = walk.count THEN "done" ELSE "count"
<1>1. PICK page \in Slices(table, low, top) :
        walk' = [walk EXCEPT !.seen = @ \cup page, !.late = late, !.at = at, !.page = @ + 1]
  BY DEF SlicePage
<1>2. UNCHANGED <<log, table>> /\ walk.at = "slice"
  BY DEF SlicePage, retention, store
<1>3. /\ TableInv /\ table \subseteq DOMAIN log /\ DOMAIN log = 1..Len(log) /\ Len(log) \in Nat
      /\ walk.page \in Nat /\ walk.page >= 1 /\ walk.count \in Nat /\ walk.counted \in Nat
      /\ walk.late \in BOOLEAN
  BY DEF RetentionInv, TableInv, WalkInv, PassInv
<1>4. low \in Nat /\ high \in Nat
  <2>1. walk.page - 1 \in Nat /\ PageSize \in Nat
    BY <1>3, DashboardAssumption
  <2> QED  BY <1>3, <2>1
<1>5. top \in Nat /\ top <= walk.count /\ top <= high /\ (top # walk.count => top = high)
  <2> HIDE DEF high
  <2> QED  BY <1>3, <1>4, MinOfTwo
<1>6. late \in BOOLEAN /\ at \in {"done", "count"} /\ (at = "done" <=> top = walk.count)
  BY <1>3
<1>7. (walk.page + 1 - 1) * PageSize = high
  BY <1>3
<1> HIDE DEF high, low, top, at
<1>8. walk' = [at |-> at, page |-> walk.page + 1, count |-> walk.count, seen |-> walk.seen \cup page,
               start |-> walk.start, begun |-> walk.begun, counted |-> walk.counted, late |-> late]
  BY <1>1 DEF WalkInv
<1> HIDE DEF late
<1>9. /\ walk'.at = at /\ walk'.page = walk.page + 1 /\ walk'.begun = walk.begun
      /\ walk'.counted = walk.counted /\ walk'.late = late /\ walk'.seen = walk.seen \cup page
      /\ walk'.start = walk.start /\ walk'.count = walk.count
  BY <1>8
<1>10. ASSUME NEW i \in walk.start \cap table, ~Reason(i)'
       PROVE  (i \in walk.seen \/ Ahead(i))'
  <2> DEFINE newer == Cardinality(Newer(i))
  <2>1. newer \in Nat /\ newer < Cardinality(table) /\ Newer(i)' = Newer(i)
    BY <1>2, <1>3, NewerFewer DEF Newer
  <2>2. ~late /\ ~Reason(i)
    BY <1>2, <1>9, <1>10 DEF Reason, Others, late
  <2>3. i \in walk.seen \/ newer >= low
    BY <1>2, <2>2 DEF PassInv, Ahead, low
  <2> HIDE DEF newer
  <2>4. CASE newer < top /\ newer >= low
    <3>1. ASSUME NEW j \in table, log[j].timestamp = log[i].timestamp PROVE j = i
      <4>1. j \in walk.start \/ j > walk.begun
        BY <1>2 DEF PassInv
      <4> QED  BY <1>3, <2>2, <3>1, <4>1 DEF Reason, Others
    <3>2. i \in page
      BY <1>1, <1>3, <1>4, <1>5, <2>4, <3>1, InSlice DEF newer
    <3> QED  BY <1>9, <3>2
  <2>5. CASE newer >= top
    <3>1. CASE top = walk.count
      <4>1. Len(log) <= walk.counted
        BY <1>3, <2>2, <3>1 DEF late
      <4>2. table \cap 1..walk.counted = table
        BY <1>3, <4>1
      <4>3. Cardinality(table) <= walk.count
        BY <1>2, <4>2 DEF PassInv
      <4>4. Cardinality(table) \in Nat
        BY <1>3, FiniteTable
      <4> QED  BY <1>3, <2>1, <2>5, <3>1, <4>3, <4>4
    <3>2. CASE top # walk.count
      <4>1. newer >= (walk'.page - 1) * PageSize
        <5>1. (walk'.page - 1) * PageSize = high
          BY <1>3, <1>7, <1>9
        <5>2. newer >= high
          BY <1>5, <2>5, <3>2
        <5> QED  BY <5>1, <5>2
      <4>2. Cardinality(Newer(i)') >= (walk'.page - 1) * PageSize
        BY <2>1, <4>1 DEF newer
      <4> QED  BY <1>6, <1>9, <3>2, <4>2 DEF Ahead
    <3> QED  BY <3>1, <3>2
  <2> QED  BY <1>4, <1>5, <1>9, <2>1, <2>3, <2>4, <2>5
<1> QED  BY <1>2, <1>3, <1>6, <1>9, <1>10 DEF PassInv

LEMMA PassStep == ViewInv /\ WalkInv /\ PassInv /\ [Next]_vars => PassInv'
<1> SUFFICES ASSUME ViewInv, WalkInv, PassInv, [Next]_vars PROVE PassInv'
  OBVIOUS
<1>1. RetentionInv /\ RetentionInv'
  BY ViewInvStep DEF ViewInv
<1>2. ASSUME RetentionNext \/ UNCHANGED retention, UNCHANGED walk PROVE PassInv'
  BY <1>1, <1>2, RetentionSettles, PassWaits
<1>3. ASSUME NEW keys, OpenCards(keys) PROVE PassInv'
  BY <1>2, <1>3 DEF OpenCards
<1>4. CASE ReadAssets \/ ReadOutcomes \/ ReadSparkline \/ UNCHANGED vars
  BY <1>2, <1>4 DEF ReadAssets, ReadOutcomes, ReadSparkline, vars
<1> QED
  BY <1>1, <1>2, <1>3, <1>4, OpenListPasses, CountPagePasses, SlicePagePasses
     DEF Next, ListCards, RetrieveCard

\* api/views.py:45: for any page size, calls, purgers and deletions of services, a walk
\* misses a row that is there all the time only for one of the three reasons.
THEOREM WalkHolds == Spec => []WalkMissesForAReason
<1>1. Init => PassInv
  BY DEF Init, NoWalk, RetentionInit, PassInv
<1>2. ViewInv /\ WalkInv /\ PassInv => WalkMissesForAReason
  BY DEF PassInv, Reason, Ahead, Others, WalkMissesForAReason
<1> QED
  BY <1>1, <1>2, ViewInvInit, ViewInvStep, WalkInvInit, WalkInvStep, PassStep, PTL DEF Spec

\* selectors.py:86-109, 189-265: whatever any number of calls, purges and deletions of
\* services change between the statements of a request for the cards, each outbound
\* row that keeps its place is covered by a card.
THEOREM CardsHold == Spec => []CardsCoverStableRows
<1>1. ASSUME ViewInv PROVE CardsCoverStableRows
  <2> SUFFICES ASSUME CardsDone, NEW i \in DOMAIN cards.start, NEW key, key = cards.start[i],
                      i \in table, Key(i) = key
               PROVE  \E card \in cards.done :
                        /\ card.key = Key(i)
                        /\ log[i].asset \in card.assets
                        /\ log[i].timestamp \in card.first..card.last
                        /\ OutcomeRank[log[i].outcome] <= OutcomeRank[card.worst]
                        /\ log[i].timestamp >= WindowStart(card.last) =>
                             card.sparkline[BucketOf(log[i].timestamp, card.last)] > 0
    BY DEF CardsCoverStableRows
  <2>1. Shown(i, key)
    BY <1>1 DEF ViewInv, CardsInv
  <2>2. PICK card \in cards.done : CardShows(card, i, key)
    BY <2>1 DEF Shown, CardsDone
  <2>3. Complete(card)
    BY <1>1 DEF ViewInv, CardsInv, Building, CardsDone
  <2> QED  BY <2>2, <2>3 DEF CardShows, CardFor, ShowsTime, ShowsOutcome
<1>2. ViewInv => CardsCoverStableRows
  BY <1>1
<1> QED  BY <1>2, ViewInvInit, ViewInvStep, PTL DEF Spec

-----------------------------------------------------------------------------
(***************************************************************************)
(* The cards, the graph and the traces of one table.  Each sum over keys   *)
(* or edges counts the rows of its classes, so that sums are equal where   *)
(* they count the same rows.                                               *)
(***************************************************************************)
\* The sizes of the classes of some rows, by a function of the rows.
LEMMA ClassSizes ==
  ASSUME TableInv, NEW rows \in SUBSET table, NEW K, NEW S \in SUBSET {K[i] : i \in rows}
  PROVE  SumFunction([x \in S |-> Cardinality({i \in rows : K[i] = x})])
           = Cardinality({i \in rows : K[i] \in S})
<1>1. IsFiniteSet(rows)
  BY FiniteTable
<1>2. IsFiniteSet({K[i] : i \in rows})
  <2> DEFINE values == {K[i] : i \in rows}
             f == [i \in rows |-> K[i]]
  <2>1. f \in Surjection(rows, values)
    <3>1. f \in [rows -> values] /\ \A v \in values : \E i \in rows : f[i] = v
      OBVIOUS
    <3> HIDE DEF f, values
    <3> QED  BY <3>1 DEF Surjection
  <2> QED  BY <1>1, <2>1, FS_Surjection
<1>3. IsFiniteSet(S)
  BY <1>2, FS_Subset
<1> QED  BY <1>1, <1>3, SumOfClasses

LEMMA CardTotals ==
  ASSUME TableInv, NEW keys \in SUBSET {Key(i) : i \in OutboundEvents}
  PROVE  SumFunction([key \in keys |-> Group(key).count])
           = Cardinality({i \in OutboundEvents : Key(i) \in keys})
<1> DEFINE rows == OutboundEvents
           K == [i \in rows |-> Key(i)]
<1>1. rows \in SUBSET table
  BY DEF OutboundEvents
<1>2. \A i \in rows : K[i] = Key(i)
  OBVIOUS
<1>3. \A key : Group(key).count = Cardinality({i \in rows : K[i] = key})
  <2>1. \A key : Group(key).count = Cardinality(EventsOf(key))
    BY DEF Group
  <2>2. \A key : EventsOf(key) = {i \in rows : K[i] = key}
    BY <1>2 DEF EventsOf
  <2> QED  BY <2>1, <2>2
<1>4. keys \in SUBSET {K[i] : i \in rows}
  BY <1>2
<1>5. {i \in rows : K[i] \in keys} = {i \in rows : Key(i) \in keys}
  BY <1>2
<1> HIDE DEF rows, K
<1>6. [key \in keys |-> Group(key).count] = [key \in keys |-> Cardinality({i \in rows : K[i] = key})]
  BY <1>3
<1>7. SumFunction([key \in keys |-> Cardinality({i \in rows : K[i] = key})])
        = Cardinality({i \in rows : K[i] \in keys})
  BY <1>1, <1>4, ClassSizes
<1> QED  BY <1>5, <1>6, <1>7 DEF rows

LEMMA EdgeTotals ==
  ASSUME TableInv, NEW edges \in SUBSET Edges(0, clock)
  PROVE  SumFunction([edge \in edges |-> Weight(edge, 0, clock)])
           = Cardinality({i \in GraphEvents(0, clock) : Edge(i) \in edges})
<1> DEFINE rows == GraphEvents(0, clock)
           K == [i \in rows |-> Edge(i)]
<1>1. rows \in SUBSET table
  BY DEF GraphEvents
<1>2. \A i \in rows : K[i] = Edge(i)
  OBVIOUS
<1>3. \A edge : Weight(edge, 0, clock) = Cardinality({i \in rows : K[i] = edge})
  <2>1. \A edge : {i \in rows : Edge(i) = edge} = {i \in rows : K[i] = edge}
    BY <1>2
  <2> QED  BY <2>1 DEF Weight
<1>4. edges \in SUBSET {K[i] : i \in rows}
  BY <1>2 DEF Edges
<1>5. {i \in rows : K[i] \in edges} = {i \in rows : Edge(i) \in edges}
  BY <1>2
<1> HIDE DEF rows, K
<1>6. [edge \in edges |-> Weight(edge, 0, clock)] = [edge \in edges |-> Cardinality({i \in rows : K[i] = edge})]
  BY <1>3
<1>7. SumFunction([edge \in edges |-> Cardinality({i \in rows : K[i] = edge})])
        = Cardinality({i \in rows : K[i] \in edges})
  BY <1>1, <1>4, ClassSizes
<1> QED  BY <1>5, <1>6, <1>7 DEF rows

\* The rows behind the sums.
LEMMA SumsAgree ==
  ASSUME RetentionInv
  PROVE  LET events(cardKeys) == SumFunction([key \in cardKeys |-> Group(key).count])
             weights(edges) == SumFunction([edge \in edges |-> Weight(edge, 0, clock)])
             keys == {Key(i) : i \in OutboundEvents}
             orphans == {i \in {j \in table : IsEgress(j)} : Link(i) = NoLink}
             legacy(service) == {i \in table : log[i].direction = "outbound" /\ Link(i) = service}
         IN  /\ \A service \in {Link(i) : i \in OutboundEvents} \ {NoLink} :
                  events({key \in keys : key.service = service})
                    = weights({edge \in Edges(0, clock) : edge.kind = "egress" /\ edge.to = service})
                      + Cardinality(legacy(service))
             /\ events({key \in keys : key.service = NoLink}) = Cardinality(orphans)
             /\ weights(Edges(0, clock)) = Cardinality(table \ orphans)
<1> DEFINE events(cardKeys) == SumFunction([key \in cardKeys |-> Group(key).count])
           weights(edges) == SumFunction([edge \in edges |-> Weight(edge, 0, clock)])
           keys == {Key(i) : i \in OutboundEvents}
           orphans == {i \in {j \in table : IsEgress(j)} : Link(i) = NoLink}
           legacy(service) == {i \in table : log[i].direction = "outbound" /\ Link(i) = service}
           of(service) == {key \in keys : key.service = service}
           into(service) == {edge \in Edges(0, clock) : edge.kind = "egress" /\ edge.to = service}
<1>1. TableInv /\ table \subseteq DOMAIN log
  BY DEF RetentionInv, TableInv
<1>2. ASSUME NEW i \in table PROVE log[i].timestamp \in 0..clock /\ i \in DOMAIN log
  BY <1>1, LogRow DEF TableInv
<1>3. GraphEvents(0, clock) = table \ orphans
  BY <1>2 DEF GraphEvents
<1>4. \A i : Key(i).service = Link(i)
  BY DEF Key
<1>5. \A i \in GraphEvents(0, clock) :
        /\ Edge(i) \in Edges(0, clock)
        /\ Edge(i).kind = "egress" <=> IsEgress(i)
        /\ IsEgress(i) => Edge(i).to = Link(i)
  <2> SUFFICES ASSUME NEW i \in GraphEvents(0, clock)
               PROVE  /\ Edge(i) \in Edges(0, clock)
                      /\ Edge(i).kind = "egress" <=> IsEgress(i)
                      /\ IsEgress(i) => Edge(i).to = Link(i)
    OBVIOUS
  <2>1. Edge(i) \in Edges(0, clock)
    BY DEF Edges
  <2>2. CASE IsEgress(i)
    BY <2>1, <2>2 DEF Edge
  <2>3. CASE ~IsEgress(i)
    BY <2>1, <2>3 DEF Edge, IsEgress
  <2> QED  BY <2>2, <2>3
<1>6. ASSUME NEW service PROVE events(of(service)) = Cardinality({i \in OutboundEvents : Link(i) = service})
  <2>1. of(service) \in SUBSET keys
    OBVIOUS
  <2>2. {i \in OutboundEvents : Key(i) \in of(service)} = {i \in OutboundEvents : Link(i) = service}
    BY <1>4
  <2> HIDE DEF of
  <2> QED  BY <1>1, <2>1, <2>2, CardTotals
<1>7. ASSUME NEW service, service # NoLink
      PROVE  weights(into(service))
               = Cardinality({i \in table : IsEgress(i) /\ Link(i) = service})
  <2>1. into(service) \in SUBSET Edges(0, clock)
    OBVIOUS
  <2>2. {i \in GraphEvents(0, clock) : Edge(i) \in into(service)}
          = {i \in table : IsEgress(i) /\ Link(i) = service}
    <3>1. ASSUME NEW i \in GraphEvents(0, clock)
          PROVE  Edge(i) \in into(service) <=> IsEgress(i) /\ Link(i) = service
      BY <1>5
    <3>2. ASSUME NEW i \in table, IsEgress(i), Link(i) = service
          PROVE  i \in GraphEvents(0, clock)
      BY <1>3, <1>7, <3>2
    <3>3. GraphEvents(0, clock) \subseteq table
      BY DEF GraphEvents
    <3> HIDE DEF into
    <3> QED  BY <3>1, <3>2, <3>3
  <2> HIDE DEF into
  <2> QED  BY <1>1, <2>1, <2>2, EdgeTotals
<1>8. ASSUME NEW service \in {Link(i) : i \in OutboundEvents} \ {NoLink}
      PROVE  events(of(service)) = weights(into(service)) + Cardinality(legacy(service))
  <2> DEFINE sent == {i \in table : IsEgress(i) /\ Link(i) = service}
             old == legacy(service)
             n == events(of(service))
             m == weights(into(service))
  <2>1. {i \in OutboundEvents : Link(i) = service} = sent \cup old /\ sent \cap old = {}
    BY <1>8 DEF OutboundEvents, OutboundDirections, IsEgress
  <2>2. n = Cardinality(sent \cup old)
    BY <1>6, <2>1
  <2>3. m = Cardinality(sent)
    BY <1>7, <1>8
  <2>4. IsFiniteSet(sent) /\ IsFiniteSet(old) /\ Cardinality(sent) \in Nat /\ Cardinality(old) \in Nat
    BY <1>1, FiniteTable
  <2> HIDE DEF sent, old, n, m
  <2>5. Cardinality(sent \cup old) = Cardinality(sent) + Cardinality(old) - Cardinality({})
    BY <2>1, <2>4, FS_Union
  <2>6. n = m + Cardinality(old)
    BY <2>2, <2>3, <2>4, <2>5, FS_EmptySet
  <2> QED  BY <2>6 DEF n, m, old
<1>9. events(of(NoLink)) = Cardinality(orphans)
  <2>1. {i \in OutboundEvents : Link(i) = NoLink} = orphans
    BY DEF OutboundEvents, OutboundDirections, IsEgress
  <2>2. events(of(NoLink)) = Cardinality({i \in OutboundEvents : Link(i) = NoLink})
    BY <1>6
  <2> QED  BY <2>1, <2>2
<1>10. weights(Edges(0, clock)) = Cardinality(table \ orphans)
  <2>1. {i \in GraphEvents(0, clock) : Edge(i) \in Edges(0, clock)} = GraphEvents(0, clock)
    BY <1>5
  <2>2. weights(Edges(0, clock)) = Cardinality({i \in GraphEvents(0, clock) : Edge(i) \in Edges(0, clock)})
    BY <1>1, EdgeTotals
  <2> QED  BY <1>3, <2>1, <2>2
<1> QED  BY <1>8, <1>9, <1>10

\* The endpoints a flow is said to come from, and where the traces of its calls begin.
LEMMA OriginsAgree ==
  ASSUME TableInv, NEW asset, NEW service
  PROVE  LET flow == {j \in {k \in table : IsEgress(k)} :
                        log[j].asset = asset /\ Link(j) = service}
             begins == {log[k].endpoint : k \in UNION {TraceInbound(j) : j \in flow}}
             origins == Origins(asset, service, 0, clock)
         IN  service # NoLink => origins \subseteq begins /\ (begins # {} => origins # {})
<1> SUFFICES ASSUME service # NoLink
             PROVE  LET flow == {j \in {k \in table : IsEgress(k)} :
                                   log[j].asset = asset /\ Link(j) = service}
                        begins == {log[k].endpoint : k \in UNION {TraceInbound(j) : j \in flow}}
                        origins == Origins(asset, service, 0, clock)
                    IN  origins \subseteq begins /\ (begins # {} => origins # {})
  BY Zenon
<1> DEFINE flow == {j \in {k \in table : IsEgress(k)} :
                      log[j].asset = asset /\ Link(j) = service}
           begins == {log[k].endpoint : k \in UNION {TraceInbound(j) : j \in flow}}
           origins == Origins(asset, service, 0, clock)
           graph == GraphEvents(0, clock)
           sent == {j \in graph : IsEgress(j) /\ log[j].asset = asset /\ Link(j) = service}
           rids == {log[i].rid : i \in sent} \ {0}
           from(endpoint) == {rid \in rids : \E i \in graph : /\ log[i].direction = "inbound"
                                                              /\ log[i].rid = rid
                                                              /\ log[i].endpoint = endpoint}
           endpoints == {log[i].endpoint : i \in graph}
           Most(e) == from(e) # {} /\ \A f \in endpoints : Cardinality(from(f)) <= Cardinality(from(e))
<1>1. origins = {e \in endpoints : Most(e)}
  BY Zenon DEF Origins
<1>2. graph \subseteq table /\ sent = flow
  <2>1. \A i \in table : log[i].timestamp \in 0..clock
    BY LogRow DEF TableInv
  <2> QED  BY <2>1 DEF GraphEvents
<1>3. \A i \in table : log[i].direction = "inbound" => i \in graph
  <2>1. \A i \in table : log[i].timestamp \in 0..clock
    BY LogRow DEF TableInv
  <2> QED  BY <2>1 DEF GraphEvents, IsEgress
<1> HIDE DEF graph, origins
<1>4. ASSUME NEW e, from(e) # {} PROVE e \in begins
  <2>1. PICK rid \in rids, k \in graph : log[k].direction = "inbound" /\ log[k].rid = rid /\ log[k].endpoint = e
    BY <1>4
  <2>2. PICK j \in sent : log[j].rid = rid /\ rid # 0
    BY <2>1
  <2>3. j \in flow /\ k \in table /\ j # k
    BY <1>2, <2>1, <2>2 DEF IsEgress
  <2>4. k \in TraceInbound(j)
    BY <2>1, <2>2, <2>3 DEF TraceInbound, Correlated
  <2> QED  BY <2>1, <2>3, <2>4
<1>5. origins \subseteq begins
  BY <1>1, <1>4
<1>6. ASSUME NEW j \in flow, NEW k \in TraceInbound(j)
      PROVE  log[k].endpoint \in endpoints /\ log[j].rid \in from(log[k].endpoint)
  <2>1. log[k].direction = "inbound" /\ k # j
    BY DEF TraceInbound, IsEgress
  <2>2. k \in table /\ log[j].rid # 0 /\ log[k].rid = log[j].rid
    BY <2>1 DEF TraceInbound, Correlated
  <2>3. k \in graph /\ j \in sent
    BY <1>2, <1>3, <2>1, <2>2
  <2> QED  BY <2>1, <2>2, <2>3
<1>7. IsFiniteSet(rids) /\ \A e : IsFiniteSet(from(e)) /\ Cardinality(from(e)) \in 0..Cardinality(rids)
  <2>1. sent \in SUBSET table
    BY <1>2
  <2>2. IsFiniteSet(rids)
    <3> DEFINE all == {log[i].rid : i \in sent}
               f == [i \in sent |-> log[i].rid]
    <3>1. f \in Surjection(sent, all)
      <4>1. f \in [sent -> all] /\ \A v \in all : \E i \in sent : f[i] = v
        OBVIOUS
      <4> HIDE DEF f, all
      <4> QED  BY <4>1 DEF Surjection
    <3>2. IsFiniteSet(all)
      BY <2>1, <3>1, FiniteTable, FS_Surjection
    <3> HIDE DEF all
    <3>3. rids \in SUBSET all
      BY DEF all
    <3> QED  BY <3>2, <3>3, FS_Subset
  <2>3. \A e : from(e) \in SUBSET rids
    OBVIOUS
  <2> HIDE DEF rids, from
  <2> QED  BY <2>2, <2>3, FS_Subset, FS_CardinalityType
<1>8. ASSUME NEW j \in flow, NEW k \in TraceInbound(j) PROVE origins # {}
  <2> DEFINE sizes == {Cardinality(from(e)) : e \in endpoints}
             first == log[k].endpoint
  <2>1. first \in endpoints /\ from(first) # {}
    BY <1>6
  <2>2. Cardinality(rids) \in Nat
    BY <1>7, FS_CardinalityType
  <2> HIDE DEF rids, from, endpoints, first
  <2>3. sizes \in SUBSET (0..Cardinality(rids)) /\ sizes # {}
    BY <1>7, <2>1
  <2>4. Max(sizes) \in sizes /\ \A y \in sizes : Max(sizes) >= y
    BY <2>2, <2>3, GreatestOf
  <2>5. PICK e \in endpoints : Max(sizes) = Cardinality(from(e))
    BY <2>4
  <2>6. ASSUME NEW f \in endpoints PROVE Cardinality(from(f)) <= Cardinality(from(e))
    <3>1. Cardinality(from(f)) \in sizes
      OBVIOUS
    <3> QED  BY <1>7, <2>4, <2>5, <3>1
  <2>7. from(e) # {}
    <3>1. Cardinality(from(first)) # 0 /\ Cardinality(from(first)) \in Nat
      BY <1>7, <2>1, FS_EmptySet
    <3>2. Cardinality(from(first)) <= Cardinality(from(e)) /\ Cardinality(from(e)) \in Nat
      BY <1>7, <2>1, <2>6
    <3>3. Cardinality(from(e)) # 0
      BY <3>1, <3>2
    <3> QED  BY <3>3, FS_EmptySet, Zenon
  <2>8. Most(e)
    BY <2>6, <2>7
  <2> HIDE DEF Most
  <2> QED  BY <1>1, <2>5, <2>8
<1>9. ASSUME begins # {} PROVE origins # {}
  <2>1. PICK k \in UNION {TraceInbound(j) : j \in flow} : TRUE
    BY <1>9
  <2>2. PICK j \in flow : k \in TraceInbound(j)
    BY <2>1
  <2> QED  BY <1>8, <2>2
<1>10. origins \subseteq begins /\ (begins # {} => origins # {})
  BY <1>5, <1>9
<1> HIDE DEF begins
<1> QED  BY <1>10, Zenon DEF origins, begins, flow

\* selectors.py:77-109, 139-176, admin_views.py:66-172: whatever is stored, unlinked
\* and purged, the cards, the graph and the traces agree on the same table.
THEOREM ViewsHold == Spec => []ViewsAgree
<1>1. ASSUME RetentionInv PROVE ViewsAgree
  <2>1. TableInv
    BY <1>1 DEF RetentionInv
  <2>2. \A i \in table : \A j \in TraceOutbound(i) :
          log[i].direction = "inbound" => i \in TraceInbound(j)
    BY DEF TraceOutbound, TraceInbound, Correlated
  <2>3. \A i \in {j \in table : IsEgress(j)} :
          Link(i) # NoLink =>
            LET flow == {j \in {k \in table : IsEgress(k)} :
                           log[j].asset = log[i].asset /\ Link(j) = Link(i)}
                begins == {log[k].endpoint : k \in UNION {TraceInbound(j) : j \in flow}}
                origins == Origins(log[i].asset, Link(i), 0, clock)
            IN  origins \subseteq begins /\ (begins # {} => origins # {})
    BY <2>1, OriginsAgree
  <2> QED  BY <1>1, <2>2, <2>3, SumsAgree, Zenon DEF ViewsAgree
<1>2. RetentionInv => ViewsAgree
  BY <1>1
<1> QED  BY <1>2, RetentionInvInit, RetentionInvStep, PTL DEF Spec
=============================================================================
