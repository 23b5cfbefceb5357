--------------------------- MODULE RuleCacheProofs ---------------------------
(***************************************************************************)
(* Theorems about the rule cache, for any set of rules, readers, writers   *)
(* and any expiry.  Inv says of every list that may be served, cached or   *)
(* in a reader's hands, what it lacks and for how long at most:            *)
(* StaleOnlyByKnownRoutes and LoadsAreRecent follow from it.               *)
(***************************************************************************)
EXTENDS RuleCache, TLAPS

\* Rule r is in one of the two sets only.
Differs(r, S, T) == (r \in S) # (r \in T)

\* A list queried from a table that has changed since knows that it was overtaken,
\* and of each change it misses that the change is no older than the query.
SnapshotsAreRecent ==
  \A r \in Readers : reader[r].at = "fill" =>
    /\ reader[r].snap # db => overlapped[r] # {}
    /\ \A rule \in Rules :
         Differs(rule, reader[r].snap, db) => changedFor[rule] <= reader[r].age

\* What the cached list misses is no older than its age and one fill.
CacheIsRecent ==
  ttl > 0 => \A rule \in Rules :
               Differs(rule, cached, db) => changedFor[rule] <= MaxFill + TTL - ttl

\* An admin form that is open holds a row.
FormsHoldRows == \A w \in Writers : writer[w].at = "commit" => writer[w].rule \in Rules

Inv ==
  TypeOK /\ SnapshotsAreRecent /\ CacheIsRecent /\ FormsHoldRows /\ StaleOnlyByKnownRoutes

-----------------------------------------------------------------------------
LEMMA BoundIsNatural == Bound \in Nat /\ TTL \in Nat /\ TTL > 0 /\ MaxFill \in Nat
BY ConstantsAssumption DEF Bound

LEMMA InitInv == Init => Inv
<1> SUFFICES ASSUME Init PROVE Inv
  OBVIOUS
<1>1. TypeOK
  BY BoundIsNatural DEF Init, TypeOK, IdleReader, IdleWriter, Excuses
<1> QED
  BY <1>1 DEF Init, Inv, SnapshotsAreRecent, CacheIsRecent, StaleOnlyByKnownRoutes,
              Stale, IdleReader,
              FormsHoldRows, IdleWriter

\* What a commit of rows keeps: the changed rules are new, every snapshot in
\* hand knows that it was overtaken, and nothing else moves.
LEMMA CommitKeeps ==
  ASSUME Inv, NEW rows \in SUBSET Rules, NEW why \in Excuses, Commit(rows, why),
         UNCHANGED <<cached, ttl, reader>>
  PROVE  /\ db' \subseteq Rules /\ writes' \in Nat /\ excuse' \subseteq Excuses
         /\ changedFor' \in [Rules -> 0..(Bound + 1)]
         /\ overlapped' \in [Readers -> SUBSET Excuses]
         /\ SnapshotsAreRecent' /\ CacheIsRecent'
         /\ why # "race" /\ ttl > 0 => excuse' # {}
<1> USE DEF Inv
<1>1. /\ db' \subseteq Rules /\ writes' \in Nat /\ excuse' \subseteq Excuses
      /\ changedFor' \in [Rules -> 0..(Bound + 1)]
  BY BoundIsNatural DEF Commit, TypeOK
<1>2. overlapped' \in [Readers -> SUBSET Excuses]
  BY DEF Commit, TypeOK
<1>3. ASSUME NEW rule \in Rules, NEW S, Differs(rule, S, db'), ~Differs(rule, S, db)
      PROVE  changedFor'[rule] = 0
  BY <1>3 DEF Commit, Differs
<1>4. ASSUME NEW rule \in Rules
      PROVE  changedFor'[rule] = 0 \/ changedFor'[rule] = changedFor[rule]
  BY DEF Commit
<1>5. SnapshotsAreRecent'
  <2> SUFFICES ASSUME NEW r \in Readers, reader[r].at = "fill"
               PROVE  /\ overlapped'[r] # {}
                      /\ \A rule \in Rules : Differs(rule, reader[r].snap, db') =>
                           changedFor'[rule] <= reader[r].age
    BY DEF SnapshotsAreRecent
  <2>1. why \in overlapped'[r]
    BY DEF Commit, TypeOK
  <2>2. reader[r].age \in Nat
    BY BoundIsNatural DEF TypeOK
  <2>3. ASSUME NEW rule \in Rules, Differs(rule, reader[r].snap, db')
        PROVE  changedFor'[rule] <= reader[r].age
    BY <1>3, <1>4, <2>2, <2>3 DEF SnapshotsAreRecent
  <2> QED
    BY <2>1, <2>3
<1>6. CacheIsRecent'
  <2> SUFFICES ASSUME ttl > 0, NEW rule \in Rules, Differs(rule, cached, db')
               PROVE  changedFor'[rule] <= MaxFill + TTL - ttl
    BY DEF CacheIsRecent
  <2>1. MaxFill + TTL - ttl >= 0
    BY BoundIsNatural DEF TypeOK
  <2> QED
    BY <1>3, <1>4, <2>1 DEF CacheIsRecent
<1> QED
  BY <1>1, <1>2, <1>5, <1>6 DEF Commit

\* A step that leaves the rules, the cached list and its excuse alone and starts
\* no fill keeps all but the types and the writers' part.
LEMMA QuietKeeps ==
  ASSUME Inv, UNCHANGED <<db, cached, ttl, changedFor>>,
         \A r \in Readers : reader'[r].at = "fill" =>
           reader'[r] = reader[r] /\ overlapped'[r] = overlapped[r]
  PROVE  SnapshotsAreRecent' /\ CacheIsRecent'
BY DEF Inv, SnapshotsAreRecent, CacheIsRecent, Differs

-----------------------------------------------------------------------------
LEMMA NextInv == Inv /\ [Next]_vars => Inv'
<1> SUFFICES ASSUME Inv, [Next]_vars PROVE Inv'
  OBVIOUS
<1> USE DEF Inv
<1>1. ASSUME NEW r \in Readers, Get(r) PROVE Inv'
  <2>1. TypeOK'
    BY <1>1, BoundIsNatural DEF Get, TypeOK, history
  <2>2. SnapshotsAreRecent' /\ CacheIsRecent'
    <3>1. \A q \in Readers : reader'[q].at = "fill" => reader'[q] = reader[q]
      BY <1>1 DEF Get, TypeOK
    <3> QED
      BY <1>1, <3>1, QuietKeeps DEF Get, history
  <2>3. StaleOnlyByKnownRoutes'
    BY <1>1 DEF Get, history, StaleOnlyByKnownRoutes, Stale, Invalidating
  <2> QED
    BY <1>1, <2>1, <2>2, <2>3 DEF Get, FormsHoldRows, history
<1>2. ASSUME NEW r \in Readers, Query(r) PROVE Inv'
  <2>1. TypeOK'
    BY <1>2, BoundIsNatural DEF Query, TypeOK
  <2>2. SnapshotsAreRecent'
    BY <1>2 DEF Query, TypeOK, SnapshotsAreRecent, Differs
  <2>3. CacheIsRecent'
    BY <1>2 DEF Query, CacheIsRecent
  <2>4. StaleOnlyByKnownRoutes'
    BY <1>2 DEF Query, StaleOnlyByKnownRoutes, Stale, Invalidating
  <2> QED
    BY <1>2, <2>1, <2>2, <2>3, <2>4 DEF Query, FormsHoldRows
<1>3. ASSUME NEW r \in Readers, Fill(r) PROVE Inv'
  <2>1. TypeOK'
    BY <1>3, BoundIsNatural DEF Fill, TypeOK
  <2>2. SnapshotsAreRecent'
    BY <1>3 DEF Fill, TypeOK, SnapshotsAreRecent, Differs
  <2>3. CacheIsRecent'
    <3>1. reader[r].age \in 0..MaxFill
      BY DEF TypeOK
    <3> QED
      BY <1>3, <3>1, BoundIsNatural DEF Fill, TypeOK, CacheIsRecent, SnapshotsAreRecent, Differs
  <2>4. StaleOnlyByKnownRoutes'
    BY <1>3 DEF Fill, StaleOnlyByKnownRoutes, Stale, SnapshotsAreRecent
  <2> QED
    BY <1>3, <2>1, <2>2, <2>3, <2>4 DEF Fill, FormsHoldRows
<1>4. ASSUME NEW r \in Readers, Finish(r) PROVE Inv'
  <2>1. TypeOK'
    BY <1>4, BoundIsNatural DEF Finish, TypeOK, IdleReader
  <2>2. SnapshotsAreRecent' /\ CacheIsRecent'
    <3>1. \A q \in Readers : reader'[q].at = "fill" =>
            reader'[q] = reader[q] /\ overlapped'[q] = overlapped[q]
      BY <1>4 DEF Finish, TypeOK, IdleReader
    <3> QED
      BY <1>4, <3>1, QuietKeeps DEF Finish
  <2>3. StaleOnlyByKnownRoutes'
    BY <1>4 DEF Finish, StaleOnlyByKnownRoutes, Stale, Invalidating
  <2> QED
    BY <1>4, <2>1, <2>2, <2>3 DEF Finish, FormsHoldRows
<1>5. ASSUME NEW w \in Writers, ApiWrite(w) PROVE Inv'
  <2>1. PICK rows \in Edits(db) : Commit(rows, "race")
    BY <1>5 DEF ApiWrite
  <2>2. rows \subseteq Rules
    BY <2>1 DEF Edits, TypeOK
  <2>3. /\ db' \subseteq Rules /\ writes' \in Nat /\ excuse' \subseteq Excuses
        /\ changedFor' \in [Rules -> 0..(Bound + 1)]
        /\ overlapped' \in [Readers -> SUBSET Excuses]
        /\ SnapshotsAreRecent' /\ CacheIsRecent'
    BY <1>5, <2>1, <2>2, CommitKeeps DEF ApiWrite, Excuses
  <2>4. TypeOK'
    BY <1>5, <2>3 DEF ApiWrite, TypeOK
  <2>5. Invalidating'
    BY <1>5 DEF ApiWrite, Invalidating, TypeOK
  <2> QED
    BY <1>5, <2>3, <2>4, <2>5 DEF ApiWrite, FormsHoldRows, StaleOnlyByKnownRoutes, TypeOK
<1>6. ASSUME NEW w \in Writers, ApiInvalidate(w) PROVE Inv'
  <2>1. TypeOK'
    BY <1>6, BoundIsNatural DEF ApiInvalidate, TypeOK, IdleWriter
  <2> QED
    BY <1>6, <2>1 DEF ApiInvalidate, SnapshotsAreRecent, CacheIsRecent,
                      StaleOnlyByKnownRoutes, Stale, FormsHoldRows, IdleWriter, TypeOK
<1>7. ASSUME NEW w \in Writers, AdminWrite(w) PROVE Inv'
  <2>1. TypeOK'
    BY <1>7, BoundIsNatural DEF AdminWrite, TypeOK
  <2> QED
    BY <1>7, <2>1 DEF AdminWrite, SnapshotsAreRecent, CacheIsRecent,
                      StaleOnlyByKnownRoutes, Stale, FormsHoldRows, TypeOK
<1>8. ASSUME NEW w \in Writers, AdminCommit(w) PROVE Inv'
  <2> DEFINE r == writer[w].rule
             rows == IF writer[w].adds THEN db \cup {r} ELSE db \ {r}
  <2>1. CASE rows = db
    <3>1. TypeOK'
      BY <1>8, <2>1 DEF AdminCommit, TypeOK, IdleWriter
    <3>2. SnapshotsAreRecent' /\ CacheIsRecent'
      BY <1>8, <2>1, QuietKeeps DEF AdminCommit
    <3>3. Invalidating' => Invalidating
      BY <1>8 DEF AdminCommit, Invalidating, IdleWriter, TypeOK
    <3>4. Invalidating => Invalidating'
      BY <1>8 DEF AdminCommit, Invalidating, IdleWriter, TypeOK
    <3> QED
      BY <1>8, <2>1, <3>1, <3>2, <3>3, <3>4
         DEF AdminCommit, StaleOnlyByKnownRoutes, Stale, FormsHoldRows, IdleWriter, TypeOK
  <2>2. CASE rows # db
    <3>1. Commit(rows, "admin")
      BY <1>8, <2>2 DEF AdminCommit
    <3>2. rows \subseteq Rules
      BY <1>8 DEF AdminCommit, FormsHoldRows, TypeOK
    <3>3. /\ db' \subseteq Rules /\ writes' \in Nat /\ excuse' \subseteq Excuses
          /\ changedFor' \in [Rules -> 0..(Bound + 1)]
          /\ overlapped' \in [Readers -> SUBSET Excuses]
          /\ SnapshotsAreRecent' /\ CacheIsRecent'
          /\ ttl > 0 => excuse' # {}
      BY <1>8, <3>1, <3>2, CommitKeeps DEF AdminCommit, Excuses
    <3>4. TypeOK'
      BY <1>8, <3>3 DEF AdminCommit, TypeOK, IdleWriter
    <3> QED
      BY <1>8, <3>3, <3>4
         DEF AdminCommit, StaleOnlyByKnownRoutes, Stale, FormsHoldRows, IdleWriter, TypeOK
  <2> QED
    BY <2>1, <2>2
<1>9. ASSUME AdminBulkDelete PROVE Inv'
  <2>1. PICK rows \in SUBSET db : Commit(rows, "bulk")
    BY <1>9 DEF AdminBulkDelete
  <2>2. rows \subseteq Rules
    BY <2>1 DEF TypeOK
  <2>3. /\ db' \subseteq Rules /\ writes' \in Nat /\ excuse' \subseteq Excuses
        /\ changedFor' \in [Rules -> 0..(Bound + 1)]
        /\ overlapped' \in [Readers -> SUBSET Excuses]
        /\ SnapshotsAreRecent' /\ CacheIsRecent'
        /\ ttl > 0 => excuse' # {}
    BY <1>9, <2>1, <2>2, CommitKeeps DEF AdminBulkDelete, Excuses
  <2>4. TypeOK'
    BY <1>9, <2>3 DEF AdminBulkDelete, TypeOK
  <2> QED
    BY <1>9, <2>3, <2>4
       DEF AdminBulkDelete, StaleOnlyByKnownRoutes, Stale, FormsHoldRows
<1>10. ASSUME NEW w \in Writers, WriterCrash(w) PROVE Inv'
  <2>1. TypeOK'
    BY <1>10 DEF WriterCrash, TypeOK, IdleWriter, Excuses
  <2>2. SnapshotsAreRecent' /\ CacheIsRecent'
    BY <1>10, QuietKeeps DEF WriterCrash
  <2>3. Invalidating => Invalidating' \/ writer[w].at = "invalidate"
    BY <1>10 DEF WriterCrash, Invalidating, IdleWriter, TypeOK
  <2> QED
    BY <1>10, <2>1, <2>2, <2>3
       DEF WriterCrash, StaleOnlyByKnownRoutes, Stale, FormsHoldRows, IdleWriter, TypeOK
<1>11. ASSUME Tick PROVE Inv'
  <2>1. TypeOK'
    <3>1. ttl' \in 0..TTL /\ cached' \subseteq Rules /\ excuse' \subseteq Excuses
      BY <1>11, BoundIsNatural DEF Tick, TypeOK
    <3>2. changedFor' \in [Rules -> 0..(Bound + 1)]
      BY <1>11, BoundIsNatural DEF Tick, TypeOK
    <3>3. reader' \in [Readers -> [at : {"idle", "query", "fill", "use"}, snap : SUBSET Rules,
                                  age : 0..MaxFill]]
      <4> SUFFICES ASSUME NEW r \in Readers
                   PROVE  reader'[r] \in [at : {"idle", "query", "fill", "use"},
                                          snap : SUBSET Rules, age : 0..MaxFill]
        BY <1>11 DEF Tick
      <4>1. CASE reader[r].at = "fill"
        <5>1. reader[r].age + 1 \in 0..MaxFill
          BY <1>11, <4>1, BoundIsNatural DEF Tick, TypeOK
        <5> QED
          BY <1>11, <4>1, <5>1 DEF Tick, TypeOK
      <4>2. CASE reader[r].at # "fill"
        BY <1>11, <4>2 DEF Tick, TypeOK
      <4> QED
        BY <4>1, <4>2
    <3> QED
      BY <1>11, <3>1, <3>2, <3>3 DEF Tick, TypeOK
  <2>2. \A rule \in Rules : changedFor[rule] \in Nat /\ changedFor'[rule] <= changedFor[rule] + 1
    BY <1>11, BoundIsNatural DEF Tick, TypeOK
  <2>3. SnapshotsAreRecent'
    <3> SUFFICES ASSUME NEW r \in Readers, reader'[r].at = "fill"
                 PROVE  /\ reader'[r].snap # db' => overlapped'[r] # {}
                        /\ \A rule \in Rules : Differs(rule, reader'[r].snap, db') =>
                             changedFor'[rule] <= reader'[r].age
      BY DEF SnapshotsAreRecent
    <3>1. reader[r].at = "fill" /\ reader'[r] = [reader[r] EXCEPT !.age = @ + 1]
      BY <1>11 DEF Tick, TypeOK
    <3>2. reader'[r].snap = reader[r].snap /\ reader'[r].age = reader[r].age + 1
      BY <3>1 DEF TypeOK
    <3>3. reader[r].age \in Nat /\ changedFor' \in [Rules -> Nat]
      BY <2>1, BoundIsNatural DEF TypeOK
    <3> QED
      BY <1>11, <2>2, <3>1, <3>2, <3>3 DEF Tick, SnapshotsAreRecent
  <2>4. CacheIsRecent'
    <3> SUFFICES ASSUME ttl' > 0, NEW rule \in Rules, Differs(rule, cached', db')
                 PROVE  changedFor'[rule] <= MaxFill + TTL - ttl'
      BY DEF CacheIsRecent
    <3>1. ttl \in Nat /\ ttl > 1 /\ ttl' = ttl - 1 /\ cached' = cached /\ db' = db
      BY <1>11, BoundIsNatural DEF Tick, TypeOK
    <3>2. changedFor[rule] <= MaxFill + TTL - ttl
      BY <3>1 DEF CacheIsRecent
    <3>3. changedFor'[rule] \in Nat
      BY <2>1, BoundIsNatural DEF TypeOK
    <3> QED
      BY <2>2, <3>1, <3>2, <3>3, BoundIsNatural
  <2>5. StaleOnlyByKnownRoutes'
    <3>1. ttl \in Nat
      BY BoundIsNatural DEF TypeOK
    <3> QED
      BY <1>11, <3>1 DEF Tick, StaleOnlyByKnownRoutes, Stale, Invalidating
  <2> QED
    BY <1>11, <2>1, <2>3, <2>4, <2>5 DEF Tick, FormsHoldRows
<1>12. CASE UNCHANGED vars
  <2>1. Inv' = Inv
    BY <1>12 DEF vars, history, TypeOK, SnapshotsAreRecent, CacheIsRecent,
                 FormsHoldRows, StaleOnlyByKnownRoutes, Stale, Invalidating
  <2> QED
    BY <2>1
<1> QED
  BY <1>1, <1>2, <1>3, <1>4, <1>5, <1>6, <1>7, <1>8, <1>9, <1>10, <1>11, <1>12 DEF Next

\* The inductive invariant holds of every behaviour.
THEOREM InvHolds == Spec => []Inv
BY InitInv, NextInv, PTL DEF Spec

-----------------------------------------------------------------------------
\* Type correctness of the rule cache.
THEOREM CacheTypes == Spec => []TypeOK
BY InvHolds, PTL DEF Inv

\* However many readers and writers race, a stale list that no invalidation will
\* remove has one of the four known causes.
THEOREM StalenessHolds == Spec => []StaleOnlyByKnownRoutes
BY InvHolds, PTL DEF Inv

\* A detection is never matched against a rule set that is out of date for
\* longer than the expiry and one fill.
THEOREM RecencyHolds == Spec => LoadsAreRecent
<1>1. Inv /\ [Next]_vars =>
        [ \A r \in Readers :
            (reader[r].at # "use" /\ reader'[r].at = "use") =>
              \A rule \in Rules :
                (rule \in reader'[r].snap) # (rule \in db) => changedFor[rule] < Bound ]_vars
  <2> SUFFICES ASSUME Inv, Next, NEW r \in Readers, reader[r].at # "use", reader'[r].at = "use",
                      NEW rule \in Rules, Differs(rule, reader'[r].snap, db)
               PROVE  changedFor[rule] < Bound
    BY DEF Differs
  <2>1. Get(r) \/ Fill(r)
    <3>1. CASE \E q \in Readers : Get(q) \/ Query(q) \/ Fill(q) \/ Finish(q)
      BY <3>1 DEF Inv, TypeOK, Get, Query, Fill, Finish, IdleReader
    <3>2. CASE Tick
      BY <3>2 DEF Inv, TypeOK, Tick
    <3> QED
      BY <3>1, <3>2 DEF Next, ApiWrite, ApiInvalidate, AdminWrite, AdminCommit, WriterCrash,
                        AdminBulkDelete
  <2>2. CASE Get(r)
    <3>1. ttl \in Nat /\ ttl > 0 /\ reader'[r].snap = cached
      BY <2>2, BoundIsNatural DEF Get, Inv, TypeOK
    <3>2. changedFor[rule] <= MaxFill + TTL - ttl
      BY <3>1 DEF Inv, CacheIsRecent
    <3> QED
      BY <3>1, <3>2, BoundIsNatural DEF Bound, Inv, TypeOK
  <2>3. CASE Fill(r)
    <3>1. reader[r].at = "fill" /\ reader'[r].snap = reader[r].snap
      BY <2>3 DEF Fill, Inv, TypeOK
    <3>2. changedFor[rule] <= reader[r].age /\ reader[r].age \in 0..MaxFill
      BY <3>1 DEF Inv, SnapshotsAreRecent, TypeOK
    <3> QED
      BY <3>2, BoundIsNatural DEF Bound, Inv, TypeOK
  <2> QED
    BY <2>1, <2>2, <2>3
<1> QED
  BY <1>1, InvHolds, PTL DEF Spec, LoadsAreRecent
=============================================================================
