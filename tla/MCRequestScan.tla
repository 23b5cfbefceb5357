--------------------------- MODULE MCRequestScan ---------------------------
(* RequestScan for TLC: a text with an e-mail address that both detectors    *)
(* find, with different ends, a card number, a number with a wrong check     *)
(* digit that only the recogniser reports, and a name.                       *)
EXTENDS RequestScan, TLC

Digits(last) == <<4, 2, 2, 2, 2, 2, 2, 2, 2, 2, 2, 2, last>>
Found(asset, start, end) == [asset |-> asset, start |-> start, end |-> end, digits |-> <<>>]
Entity(entity, start, end) == [entity |-> entity, start |-> start, end |-> end, weak |-> FALSE]

MCRegexCandidates ==
  [x \in Texts |->
     {Found("email", 0, 5),
      [Found("credit_card", 10, 23) EXCEPT !.digits = Digits(2)],
      [Found("credit_card", 30, 43) EXCEPT !.digits = Digits(3)]}]
MCPresidioCandidates ==
  [x \in Texts |->
     {Entity("EMAIL_ADDRESS", 0, 6), Entity("URL", 2, 6), Entity("CREDIT_CARD", 30, 43),
      Entity("PERSON", 50, 55), [Entity("LOCATION", 60, 64) EXCEPT !.weak = TRUE]}]
MCHostMiddleware == <<"session", "pii", "auth", "csrf">>

TenantSymmetry == Permutations(Tenants)
=============================================================================
