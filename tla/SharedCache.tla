----------------------------- MODULE SharedCache -----------------------------
(***************************************************************************)
(* The cross-process cache of wiregraph_core/cache.py as a value: a        *)
(* function from keys to entries [val, ttl], an entry with ttl 0 being     *)
(* absent.  Each operator is one atomic cache call; time passes in whole   *)
(* ticks and an entry disappears when its ttl runs out.                    *)
(***************************************************************************)
EXTENDS Integers

Absent == [val |-> 0, ttl |-> 0]

Present(c, k) == c[k].ttl > 0

\* Mutant: get followed by set, as by two calls, always stores.
CacheAddAlways(c, k, v, timeout) == [c EXCEPT ![k] = [val |-> v, ttl |-> timeout]]

\* add: stores only when the key is absent; returns ~Present(c, k).
CacheAdd(c, k, v, timeout) ==
  IF Present(c, k) THEN c ELSE [c EXCEPT ![k] = [val |-> v, ttl |-> timeout]]

\* incr of a present key: the value changes, the expiry does not.
CacheIncr(c, k) == [c EXCEPT ![k].val = @ + 1]

CacheDelete(c, k) == [c EXCEPT ![k] = Absent]

\* Mutant: expired entries are not collected.
CacheAgeNoExpiry(c) == [k \in DOMAIN c |-> [c[k] EXCEPT !.ttl = @ - 1]]

CacheAge(c) ==
  [k \in DOMAIN c |-> IF c[k].ttl > 1 THEN [c[k] EXCEPT !.ttl = @ - 1] ELSE Absent]
=============================================================================
