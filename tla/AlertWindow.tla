----------------------------- MODULE AlertWindow -----------------------------
(***************************************************************************)
(* What alert deduplication promises (wiregraph_core/dedup.py:29-39): for  *)
(* each key an alert is admitted at once when none was admitted in the     *)
(* last Window ticks, and none is admitted before that.  It says nothing   *)
(* of caches, of keys shared by workers, or of what is done with the       *)
(* admission.                                                              *)
(***************************************************************************)
EXTENDS Integers

CONSTANTS
  Keys,
  Window     \* a natural number

VARIABLES
  left,      \* left[k]: ticks until an alert for k may be admitted again
  admitted   \* admitted[k]: alerts admitted for k so far

Init ==
  /\ left = [k \in Keys |-> 0]
  /\ admitted = [k \in Keys |-> 0]

Admit(k) ==
  /\ left[k] = 0
  /\ left' = [left EXCEPT ![k] = Window]
  /\ admitted' = [admitted EXCEPT ![k] = @ + 1]

Tick ==
  /\ left' = [k \in Keys |-> IF left[k] > 0 THEN left[k] - 1 ELSE 0]
  /\ UNCHANGED admitted

Next == Tick \/ \E k \in Keys : Admit(k)

Spec == Init /\ [][Next]_<<left, admitted>>
=============================================================================
