----------------------------- MODULE Retention -----------------------------
(***************************************************************************)
(* The table of events over time: transactions of the persistence layer    *)
(* insert rows, services are deleted, and purges (reporting/purge.py, run  *)
(* by the management command or by Celery beat) delete what has expired.   *)
(*                                                                         *)
(* log holds every row ever committed, in order; a row's primary key is    *)
(* its position.  The table is the set of keys still there.  A retention   *)
(* of n days is n units of the clock.                                      *)
(***************************************************************************)
EXTENDS Integers, SequencesExt

CONSTANTS
  Calls,              \* what a persist call stores, as sequences of rows
  OldRows,            \* what older versions or seed data may have left, likewise
  NoLink,             \* external_service is NULL
  DataRetentionDays, ExpectedDays,   \* the two settings
  RetentionArgs,      \* retention_days of a run
  NotGiven,           \* the argument is None
  BatchSizes,
  Writers,            \* workers that persist
  Purgers,
  MaxCalls, MaxTime, MaxPurges, MaxUnlinks   \* bounds

ASSUME RetentionAssumption ==
  /\ DataRetentionDays \in Nat /\ ExpectedDays \in Nat
  /\ RetentionArgs \subseteq Nat \cup {NotGiven} /\ NotGiven \notin Nat
  /\ BatchSizes \subseteq Nat
  /\ {MaxCalls, MaxTime, MaxPurges, MaxUnlinks} \subseteq Nat

Outcomes == {"expected", "acceptable", "suspicious", "prohibited"}
Directions == {"inbound", "outbound", "egress", "wiregraph_egress"}

Rows == [asset : STRING, outcome : Outcomes, service : STRING \cup {NoLink},
         endpoint : STRING, direction : Directions, rid : Nat]

ASSUME RowsAssumption == Calls \subseteq Seq(Rows) /\ OldRows \subseteq Seq(Rows)

VARIABLES
  clock,
  log, table,
  unlinked,    \* keys of rows whose service was deleted (SET_NULL)
  writing,     \* the transaction of each writer
  purge,       \* the run of each purger
  calls, purges, unlinks,
  asked        \* History: the retention days some purge was to apply

store == <<log, table, unlinked>>
retention == <<clock, store, writing, purge, calls, purges, unlinks, asked>>

-----------------------------------------------------------------------------
NoCall == [at |-> "idle", call |-> <<>>, now |-> 0, reads |-> <<>>]

\* History: how far the log was when a row was classified, when that was, and how
\* far the log was when it was committed.
NotRead == [new |-> FALSE, since |-> 0, decided |-> 0]
Reads == [new : BOOLEAN, since : Nat, decided : Nat]
Stored(row, now, read, until) ==
  [asset |-> row.asset, outcome |-> row.outcome, service |-> row.service,
   endpoint |-> row.endpoint, direction |-> row.direction, rid |-> row.rid, timestamp |-> now,
   new |-> read.new, since |-> read.since, decided |-> read.decided, until |-> until]
StoredRows ==
  [asset : STRING, outcome : Outcomes, service : STRING \cup {NoLink},
   endpoint : STRING, direction : Directions, rid : Nat, timestamp : Nat,
   new : BOOLEAN, since : Nat, decided : Nat, until : Nat]

Resting == [at |-> "idle", begun |-> 0, now |-> 0, days |-> 0, expectedDays |-> 0, size |-> 0,
            batch |-> {}, candidates |-> 0, deleted |-> 0]
Runs == [at : {"idle", "expected", "main", "returned"}, begun : Nat, now : Nat, days : Nat,
         expectedDays : Nat, size : Nat, batch : SUBSET Nat, candidates : Nat, deleted : Nat]

RetentionTypeOK ==
  /\ clock \in Nat
  /\ log \in Seq(StoredRows) /\ \A i \in DOMAIN log : log[i].timestamp <= clock
  /\ table \subseteq DOMAIN log
  /\ unlinked \subseteq DOMAIN log
  /\ writing \in [Writers -> [at : {"idle", "open"}, call : Seq(Rows), now : 0..clock,
                              reads : Seq(Reads)]]
  /\ purge \in [Purgers -> Runs]
  /\ calls \in Nat /\ purges \in Nat /\ unlinks \in Nat
  /\ asked \subseteq Nat

RetentionInit ==
  /\ clock = 0
  /\ log \in {[i \in DOMAIN old |-> Stored(old[i], 0, NotRead, 0)] : old \in OldRows}
  /\ table = DOMAIN log /\ unlinked = {}
  /\ writing = [w \in Writers |-> NoCall]
  /\ purge = [p \in Purgers |-> Resting]
  /\ calls = 0 /\ purges = 0 /\ unlinks = 0
  /\ asked = {}

-----------------------------------------------------------------------------
Link(i) == IF i \in unlinked THEN NoLink ELSE log[i].service

\* is_new_flow_for_event, for row n of a call: the table has no committed row of
\* the asset and the service, nor has the call inserted one.
IsNewFlow(call, n) ==
  /\ call[n].service # NoLink
  /\ ~\E i \in table : log[i].asset = call[n].asset /\ Link(i) = call[n].service
  /\ ~\E i \in 1..(n - 1) : call[i].asset = call[n].asset /\ call[i].service = call[n].service

\* persist_matches, persist_egress_matches: the time of all rows of a call is taken
\* before its transaction,
StartCall(w, call) ==
  /\ writing[w].at = "idle" /\ calls < MaxCalls
  /\ calls' = calls + 1
  /\ writing' = [writing EXCEPT ![w] = [NoCall EXCEPT !.at = "open", !.call = call, !.now = clock]]
  /\ UNCHANGED <<clock, store, purge, purges, unlinks, asked>>

\* in which its rows are classified one by one,
ClassifyRow(w) ==
  LET n == Len(writing[w].reads) + 1
      read == [new |-> IsNewFlow(writing[w].call, n), since |-> Len(log), decided |-> clock]
  IN  /\ writing[w].at = "open" /\ n <= Len(writing[w].call)
      /\ writing' = [writing EXCEPT ![w].reads = Append(@, read)]
      /\ UNCHANGED <<clock, store, purge, calls, purges, unlinks, asked>>

\* and they are there for others once it is committed,
CommitCall(w) ==
  LET call == writing[w].call
      rows == [n \in DOMAIN call |->
                 Stored(call[n], writing[w].now, writing[w].reads[n], Len(log))]
  IN  /\ writing[w].at = "open" /\ Len(writing[w].reads) = Len(call)
      /\ log' = log \o rows
      /\ table' = table \cup (DOMAIN log' \ DOMAIN log)
      /\ writing' = [writing EXCEPT ![w] = NoCall]
      /\ UNCHANGED <<clock, unlinked, purge, calls, purges, unlinks, asked>>

\* if it is not rolled back.
AbortCall(w) ==
  /\ writing[w].at = "open"
  /\ writing' = [writing EXCEPT ![w] = NoCall]
  /\ UNCHANGED <<clock, store, purge, calls, purges, unlinks, asked>>

\* Of a service that has rows.  A transaction that refers to it cannot commit.
DeleteService(service) ==
  LET linked == {i \in table : Link(i) = service}
      refers(call) == \E n \in DOMAIN call : call[n].service = service
  IN  /\ linked # {} /\ unlinks < MaxUnlinks
      /\ unlinks' = unlinks + 1
      /\ unlinked' = unlinked \cup linked
      /\ writing' = [w \in Writers |-> IF refers(writing[w].call) THEN NoCall ELSE writing[w]]
      /\ UNCHANGED <<clock, log, table, purge, calls, purges, asked>>

Tick ==
  /\ clock < MaxTime
  /\ clock' = clock + 1
  /\ UNCHANGED <<store, writing, purge, calls, purges, unlinks, asked>>

-----------------------------------------------------------------------------
\* The retention of a row under an outcome.
RetentionOf(outcome, run) == IF outcome = "expected" THEN run.expectedDays ELSE run.days

ExpiredIn(run) ==
  {i \in table : log[i].timestamp < run.now - RetentionOf(log[i].outcome, run)}

\* The cutoffs: expected rows expire first, unless all rows do earlier.
PurgeSettings(arg, size) ==
  LET days == IF arg = NotGiven THEN DataRetentionDays ELSE arg
  IN  [Resting EXCEPT !.begun = Len(log), !.now = clock, !.size = size,
                      !.days = days, !.expectedDays = Min({ExpectedDays, days})]

\* purge_expired_events: the candidates are counted; a dry run, or one without
\* candidates, ends here.
StartPurge(p, arg, size, dryRun) ==
  LET run == PurgeSettings(arg, size)
      candidates == Cardinality(ExpiredIn(run))
  IN  /\ purge[p].at \in {"idle", "returned"} /\ purges < MaxPurges
      /\ purges' = purges + 1
      /\ asked' = asked \cup {run.days}
      /\ purge' = [purge EXCEPT ![p] =
                     IF dryRun \/ candidates = 0 THEN Resting
                     ELSE [run EXCEPT !.at = "expected", !.candidates = candidates]]
      /\ UNCHANGED <<clock, store, writing, calls, unlinks>>

\* The rows of a sweep.
SweepOf(run) ==
  {i \in ExpiredIn(run) : (log[i].outcome = "expected") = (run.at = "expected")}

NextSweep(run) ==
  [run EXCEPT !.at = IF run.at = "expected" THEN "main" ELSE "returned"]

\* Mutant: the two sweeps share a cutoff.
ReadBatchOfAll(p) ==
  LET rows == {i \in table : log[i].timestamp < purge[p].now - purge[p].expectedDays}
  IN  /\ purge[p].at \in {"expected", "main"} /\ purge[p].batch = {}
      /\ \E batch \in SUBSET rows :
           /\ Cardinality(batch) = Min({purge[p].size, Cardinality(rows)})
           /\ purge' = [purge EXCEPT ![p] = IF batch = {} THEN NextSweep(purge[p])
                                            ELSE [@ EXCEPT !.batch = batch]]
      /\ UNCHANGED <<clock, store, writing, calls, purges, unlinks, asked>>

\* The keys of a batch are read, in no order; a sweep ends with an empty one.
ReadBatch(p) ==
  LET rows == SweepOf(purge[p])
  IN  /\ purge[p].at \in {"expected", "main"} /\ purge[p].batch = {}
      /\ \E batch \in SUBSET rows :
           /\ Cardinality(batch) = Min({purge[p].size, Cardinality(rows)})
           /\ purge' = [purge EXCEPT ![p] = IF batch = {} THEN NextSweep(purge[p])
                                            ELSE [@ EXCEPT !.batch = batch]]
      /\ UNCHANGED <<clock, store, writing, calls, purges, unlinks, asked>>

\* They are deleted, as far as they are still there.
DeleteBatch(p) ==
  /\ purge[p].batch # {}
  /\ table' = table \ purge[p].batch
  /\ purge' = [purge EXCEPT ![p].batch = {},
                            ![p].deleted = @ + Cardinality(purge[p].batch \cap table)]
  /\ UNCHANGED <<clock, log, unlinked, writing, calls, purges, unlinks, asked>>

\* The process is killed; what it has deleted is gone.
KillPurge(p) ==
  /\ purge[p].at \in {"expected", "main"}
  /\ purge' = [purge EXCEPT ![p] = Resting]
  /\ UNCHANGED <<clock, store, writing, calls, purges, unlinks, asked>>

RetentionNext ==
  \/ \E w \in Writers : \/ \E call \in Calls : StartCall(w, call)
                        \/ ClassifyRow(w) \/ CommitCall(w) \/ AbortCall(w)
  \/ \E i \in table : Link(i) # NoLink /\ DeleteService(Link(i))
  \/ Tick
  \/ \E p \in Purgers :
       \/ \E arg \in RetentionArgs, size \in BatchSizes, dryRun \in BOOLEAN :
            StartPurge(p, arg, size, dryRun)
       \/ ReadBatch(p) \/ DeleteBatch(p) \/ KillPurge(p)

RetentionSpec == RetentionInit /\ [][RetentionNext]_retention

-----------------------------------------------------------------------------
\* Older than an outcome may be kept under some retention that was asked for.
Outlived(i, now) ==
  \E days \in asked :
    log[i].timestamp < now - (IF log[i].outcome = "expected" THEN Min({ExpectedDays, days}) ELSE days)

\* persistence.py:86-145, 188-250, purge.py:42-94, flow_state.py:22-33: no interleaving
\* of transactions, purges with different retentions and kills loses a row before its
\* time, so that a flow that was seen within the retention is never taken for first
\* sight, but for a row that another transaction commits after the look and a service
\* that was deleted; and a purge that returns has left no row that it found
\* expired, and has deleted no more than it had counted but for rows committed since.
PurgeKeepsRetention ==
  /\ \A i \in DOMAIN log \ table : Outlived(i, clock)
  /\ \A j \in DOMAIN log : log[j].new =>
       \A i \in 1..(j - 1) :
         log[i].asset = log[j].asset /\ log[i].service = log[j].service
           => \/ i \in unlinked
              \/ i \in (log[j].since + 1)..log[j].until
              \/ Outlived(i, log[j].decided)
  /\ \A p \in Purgers :
       LET run == purge[p]
           later == {i \in DOMAIN log \ table : i > run.begun}
       IN  run.at = "returned" =>
             /\ run.size > 0 => ExpiredIn(run) \cap (1..run.begun) = {}
             /\ run.deleted <= run.candidates + Cardinality(later)
=============================================================================
