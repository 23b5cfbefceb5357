------------------------------ MODULE AuditLog ------------------------------
(***************************************************************************)
(* What the persistence layer promises (detection/persistence.py:2-8,      *)
(* flow_state.py:22-33): one call at a time adds all its rows, the assets  *)
(* they name and their shadow counts, or nothing, where a row may miss its *)
(* count only while its outcome has no counter; a row that is there stays  *)
(* as it was classified; the first row of a flow was first sight; and a    *)
(* call sends signals of what it added and of nothing else, once.          *)
(* It says nothing of transactions, locks, statements that fail, or the    *)
(* order in which a call works.                                            *)
(***************************************************************************)
EXTENDS Integers, Sequences, FiniteSets

CONSTANTS
  Outcomes,
  Counting    \* whether shadow decisions are counted

VARIABLES
  entries,    \* the rows in the order they were added
  assets,     \* the assets that are there
  counter,    \* counter[o]: counted rows with outcome o
  owed,       \* calls whose signals are due: their id, number of rows, new assets
  alerted,    \* <<call, n>>: the signal of its n-th row was sent
  announced   \* <<call, asset>>: the signal of its new asset was sent

vars == <<entries, assets, counter, owed, alerted, announced>>

Init ==
  /\ entries = <<>>
  /\ assets = {}
  /\ counter = [o \in Outcomes |-> 0]
  /\ owed = {}
  /\ alerted = {}
  /\ announced = {}

\* Row i is the first of its flow.
FirstOfFlow(rows, i) ==
  rows[i].service /\ ~\E j \in 1..(i - 1) : rows[j].service /\ rows[j].asset = rows[i].asset

Counts(rows, o) == {i \in DOMAIN rows : rows[i].counted /\ rows[i].outcome = o}

\* Row k is counted if it was decided, unless no row of its outcome was counted
\* among the first since entries and the call's rows before it.
CountedDuly(rows, k) ==
  IF rows[k].counted THEN Counting /\ rows[k].how # "default"
  ELSE (Counting /\ rows[k].how # "default") =>
         /\ \A i \in Counts(entries, rows[k].outcome) : i > rows[k].since
         /\ \A i \in Counts(rows, rows[k].outcome) : i > k

\* A call adds its rows, of which made are the assets it created.
Add(rows, made) ==
  LET id == rows[1].call
      named == {rows[k].asset : k \in DOMAIN rows}
  IN  /\ rows # <<>>
      /\ \A i \in DOMAIN entries : entries[i].call # id
      /\ \A k \in DOMAIN rows : rows[k].call = id /\ rows[k].n = k /\ CountedDuly(rows, k)
      /\ made \cap assets = {} /\ made \subseteq named /\ named \subseteq assets \cup made
      /\ entries' = entries \o rows
      /\ \A i \in (Len(entries) + 1)..Len(entries') :
           FirstOfFlow(entries', i) => entries'[i].new \/ entries'[i].how # "classified"
      /\ assets' = assets \cup made
      /\ counter' = [o \in Outcomes |-> counter[o] + Cardinality(Counts(rows, o))]
      /\ owed' = owed \cup {[call |-> id, rows |-> Len(rows), made |-> made]}
      /\ UNCHANGED <<alerted, announced>>

\* A call sends its signals, new assets first; a receiver that raises or a kill
\* cuts them short.
Signal(due, told, n) ==
  /\ due \in owed
  /\ told \subseteq due.made /\ n \in 0..due.rows
  /\ n > 0 => told = due.made
  /\ owed' = owed \ {due}
  /\ announced' = announced \cup {<<due.call, a>> : a \in told}
  /\ alerted' = alerted \cup {<<due.call, i>> : i \in 1..n}
  /\ UNCHANGED <<entries, assets, counter>>

\* What is added is what the log has more afterwards.
Next ==
  \/ Add(SubSeq(entries', Len(entries) + 1, Len(entries')), assets' \ assets)
  \/ \E due \in owed : \E told \in SUBSET due.made, n \in 0..due.rows : Signal(due, told, n)

Spec == Init /\ [][Next]_vars
=============================================================================
