------------------------------ MODULE RuleCache ------------------------------
(***************************************************************************)
(* The per-tenant cache of allowlist rules                                 *)
(* (wiregraph_apps/detection/adapters/allowlist.py:28-52): readers fill it *)
(* from the database with a 30 s expiry, writers delete it.  Readers are   *)
(* detections, each get, query and set a step of its own; writers are the  *)
(* REST API, which writes and then deletes the key, and the Django admin,  *)
(* whose forms run in one transaction around save_model and delete_model,  *)
(* so that the key is deleted before the write is committed.               *)
(***************************************************************************)
EXTENDS Integers, FiniteSets

CONSTANTS
  Rules,      \* AllowlistRule rows of the tenant that may exist
  NoRule,
  Readers,    \* detections running at once
  Writers,    \* API and admin requests running at once
  TTL,        \* _RULES_CACHE_TTL
  MaxFill,    \* the longest a reader may take from its query to its set
  MaxWrites   \* bound: committed writes in a behaviour

ASSUME ConstantsAssumption ==
  NoRule \notin Rules /\ TTL \in Nat \ {0} /\ MaxFill \in Nat /\ MaxWrites \in Nat

VARIABLES
  db,         \* the committed rows
  cached,     \* the cached rule list, as a set
  ttl,        \* ticks until it expires; 0 = absent
  reader,     \* reader[r]: [at, snap, age]: step, rows in hand, ticks held
  writer,     \* writer[w]: [at, rule, adds]: step, and an admin form not committed
  \* History.
  changedFor, \* changedFor[r]: ticks since r was last created or deleted
  overlapped, \* overlapped[r]: kinds of writes committed since reader r's query
  excuse,     \* why the cached list may differ from db
  writes      \* committed writes

history == <<changedFor, overlapped, excuse, writes>>
vars == <<db, cached, ttl, reader, writer, history>>

\* The longest time a rule change may stay unseen.
Bound == TTL + MaxFill

Excuses == {"race", "admin", "bulk", "crash"}

TypeOK ==
  /\ db \subseteq Rules
  /\ cached \subseteq Rules
  /\ ttl \in 0..TTL
  /\ reader \in [Readers -> [at : {"idle", "query", "fill", "use"}, snap : SUBSET Rules,
                             age : 0..MaxFill]]
  /\ writer \in [Writers -> [at : {"idle", "invalidate", "commit"},
                             rule : Rules \cup {NoRule}, adds : BOOLEAN]]
  /\ changedFor \in [Rules -> 0..(Bound + 1)]
  /\ overlapped \in [Readers -> SUBSET Excuses]
  /\ excuse \subseteq Excuses
  /\ writes \in Nat

IdleReader == [at |-> "idle", snap |-> {}, age |-> 0]
IdleWriter == [at |-> "idle", rule |-> NoRule, adds |-> FALSE]

Init ==
  /\ db \in SUBSET Rules
  /\ cached = {}
  /\ ttl = 0
  /\ reader = [r \in Readers |-> IdleReader]
  /\ writer = [w \in Writers |-> IdleWriter]
  /\ changedFor = [r \in Rules |-> Bound + 1]
  /\ overlapped = [r \in Readers |-> {}]
  /\ excuse = {}
  /\ writes = 0

-----------------------------------------------------------------------------
\* Mutant: every hit renews the entry.
GetRenewing(r) ==
  /\ reader[r].at = "idle"
  /\ IF ttl > 0
     THEN reader' = [reader EXCEPT ![r] = [at |-> "use", snap |-> cached, age |-> 0]]
     ELSE reader' = [reader EXCEPT ![r].at = "query"]
  /\ ttl' = IF ttl > 0 THEN TTL ELSE ttl
  /\ UNCHANGED <<db, cached, writer, history>>

\* _load_rules.  A cached empty list is a hit: it is not None.
Get(r) ==
  /\ reader[r].at = "idle"
  /\ IF ttl > 0
     THEN reader' = [reader EXCEPT ![r] = [at |-> "use", snap |-> cached, age |-> 0]]
     ELSE reader' = [reader EXCEPT ![r].at = "query"]
  /\ UNCHANGED <<db, cached, ttl, writer, history>>

Query(r) ==
  /\ reader[r].at = "query"
  /\ reader' = [reader EXCEPT ![r] = [at |-> "fill", snap |-> db, age |-> 0]]
  /\ overlapped' = [overlapped EXCEPT ![r] = {}]
  /\ UNCHANGED <<db, cached, ttl, writer, changedFor, excuse, writes>>

\* Mutant: the time since the query is added to the expiry.
FillPadded(r) ==
  /\ reader[r].at = "fill"
  /\ cached' = reader[r].snap
  /\ ttl' = TTL + reader[r].age
  /\ excuse' = overlapped[r]
  /\ reader' = [reader EXCEPT ![r] = [at |-> "use", snap |-> @.snap, age |-> 0]]
  /\ overlapped' = [overlapped EXCEPT ![r] = {}]
  /\ UNCHANGED <<db, writer, changedFor, writes>>

\* cache.set overwrites whatever is there and restarts the expiry.
Fill(r) ==
  /\ reader[r].at = "fill"
  /\ cached' = reader[r].snap
  /\ ttl' = TTL
  /\ excuse' = overlapped[r]
  /\ reader' = [reader EXCEPT ![r] = [at |-> "use", snap |-> @.snap, age |-> 0]]
  /\ overlapped' = [overlapped EXCEPT ![r] = {}]
  /\ UNCHANGED <<db, writer, changedFor, writes>>

\* The rules are matched against and dropped; a detection that failed between
\* its query and its set ends the same way.
Finish(r) ==
  /\ reader[r].at \in {"use", "fill"}
  /\ reader' = [reader EXCEPT ![r] = IdleReader]
  /\ overlapped' = [overlapped EXCEPT ![r] = {}]
  /\ UNCHANGED <<db, cached, ttl, writer, changedFor, excuse, writes>>

-----------------------------------------------------------------------------
\* A commit of rows as the new rule set; why: what lets a cached list outlive it.
\* An API write, whose invalidation is still to come, is outlived only by a race.
Commit(rows, why) ==
  /\ writes < MaxWrites
  /\ writes' = writes + 1
  /\ rows # db
  /\ db' = rows
  /\ changedFor' = [r \in Rules |-> IF (r \in rows) # (r \in db) THEN 0 ELSE changedFor[r]]
  /\ overlapped' = [r \in Readers |-> IF reader[r].at = "fill" THEN overlapped[r] \cup {why}
                                      ELSE overlapped[r]]
  /\ excuse' = IF ttl > 0 /\ why # "race" THEN excuse \cup {why} ELSE excuse

\* A create adds a row, a delete removes one.
Edits(rows) == {rows \cup {r} : r \in Rules} \cup {rows \ {r} : r \in Rules}

\* Mutant: perform_create and perform_destroy do not touch the cache.
ApiWriteOnly(w) ==
  /\ writer[w].at = "idle"
  /\ \E rows \in Edits(db) : Commit(rows, "race")
  /\ UNCHANGED <<cached, ttl, reader, writer>>

\* perform_create, perform_destroy: serializer.save or instance.delete commits
\* (no transaction around it) ...
ApiWrite(w) ==
  /\ writer[w].at = "idle"
  /\ \E rows \in Edits(db) : Commit(rows, "race")
  /\ writer' = [writer EXCEPT ![w].at = "invalidate"]
  /\ UNCHANGED <<cached, ttl, reader>>

\* ... and then invalidate_tenant_rules deletes the key.
ApiInvalidate(w) ==
  /\ writer[w].at = "invalidate"
  /\ cached' = {}
  /\ ttl' = 0
  /\ excuse' = {}
  /\ writer' = [writer EXCEPT ![w] = IdleWriter]
  /\ UNCHANGED <<db, reader, changedFor, overlapped, writes>>

\* save_model, delete_model: the key is deleted inside the form's transaction.
AdminWrite(w) ==
  /\ writer[w].at = "idle"
  /\ \E r \in Rules :
       writer' = [writer EXCEPT ![w] = [at |-> "commit", rule |-> r, adds |-> r \notin db]]
  /\ cached' = {}
  /\ ttl' = 0
  /\ excuse' = {}
  /\ UNCHANGED <<db, reader, changedFor, overlapped, writes>>

\* The transaction commits its own row on top of what others committed since;
\* what another form did already leaves nothing to do, or a unique key violated.
AdminCommit(w) ==
  LET r == writer[w].rule
      rows == IF writer[w].adds THEN db \cup {r} ELSE db \ {r}
  IN  /\ writer[w].at = "commit"
      /\ IF rows = db THEN UNCHANGED <<db, changedFor, overlapped, excuse, writes>>
         ELSE Commit(rows, "admin")
      /\ writer' = [writer EXCEPT ![w] = IdleWriter]
      /\ UNCHANGED <<cached, ttl, reader>>

\* The admin's delete-selected action deletes the rows by one query: neither
\* delete_model nor the invalidation runs.
AdminBulkDelete ==
  /\ \E rows \in SUBSET db : Commit(rows, "bulk")
  /\ UNCHANGED <<cached, ttl, reader, writer>>

\* The worker of a write is killed: a commit stays, an open transaction does not.
WriterCrash(w) ==
  /\ writer[w].at # "idle"
  /\ excuse' = IF writer[w].at = "invalidate" /\ ttl > 0 THEN excuse \cup {"crash"} ELSE excuse
  /\ writer' = [writer EXCEPT ![w] = IdleWriter]
  /\ UNCHANGED <<db, cached, ttl, reader, changedFor, overlapped, writes>>

\* Mutant: the list is cached without an expiry.
TickNoExpiry ==
  /\ \A r \in Readers : reader[r].at = "fill" => reader[r].age < MaxFill
  /\ reader' = [r \in Readers |->
                  IF reader[r].at = "fill" THEN [reader[r] EXCEPT !.age = @ + 1] ELSE reader[r]]
  /\ changedFor' = [r \in Rules |-> IF changedFor[r] > Bound THEN changedFor[r]
                                    ELSE changedFor[r] + 1]
  /\ UNCHANGED <<db, cached, ttl, writer, overlapped, excuse, writes>>

\* Time passes; a reader holds the rows it has queried for at most MaxFill.
Tick ==
  /\ \A r \in Readers : reader[r].at = "fill" => reader[r].age < MaxFill
  /\ reader' = [r \in Readers |->
                  IF reader[r].at = "fill" THEN [reader[r] EXCEPT !.age = @ + 1] ELSE reader[r]]
  /\ ttl' = IF ttl > 0 THEN ttl - 1 ELSE 0
  /\ cached' = IF ttl > 1 THEN cached ELSE {}
  /\ excuse' = IF ttl > 1 THEN excuse ELSE {}
  /\ changedFor' = [r \in Rules |-> IF changedFor[r] > Bound THEN changedFor[r]
                                    ELSE changedFor[r] + 1]
  /\ UNCHANGED <<db, writer, overlapped, writes>>

Next ==
  \/ \E r \in Readers : Get(r) \/ Query(r) \/ Fill(r) \/ Finish(r)
  \/ \E w \in Writers : \/ ApiWrite(w) \/ ApiInvalidate(w)
                        \/ AdminWrite(w) \/ AdminCommit(w)
                        \/ WriterCrash(w)
  \/ AdminBulkDelete
  \/ Tick

Spec == Init /\ [][Next]_vars

-----------------------------------------------------------------------------
Stale == ttl > 0 /\ cached # db

Invalidating == \E w \in Writers : writer[w].at = "invalidate"

\* views.py:92-100 with allowlist.py:51-52: with no invalidation outstanding, a
\* stale list has one of four causes only: a fill that a commit overtook, an
\* admin form, a bulk delete, or a writer killed before its invalidation.
StaleOnlyByKnownRoutes == Stale /\ ~Invalidating => excuse # {}

\* allowlist.py:44, 78: the expiry is the backstop of all four.  A detection that
\* gets a rule set finds no rule in it, and misses none, whose creation or
\* deletion is older than the expiry and one fill.
LoadsAreRecent ==
  [][ \A r \in Readers :
        (reader[r].at # "use" /\ reader'[r].at = "use") =>
          \A rule \in Rules :
            (rule \in reader'[r].snap) # (rule \in db) => changedFor[rule] < Bound ]_vars

\* docs/SETUP_GUIDE.md "Cache invalidation is automatic when rules change via
\* the API": once every API write has returned, and the API is all that wrote,
\* no stale list is served.
ApiWritesAreSeen ==
  Stale /\ ~Invalidating => excuse \cap {"admin", "bulk", "crash"} # {}
=============================================================================
