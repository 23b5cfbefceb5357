------------------------------ MODULE Scanners ------------------------------
(***************************************************************************)
(* The two detectors (wiregraph_core/scanner/regex.py and presidio.py) and *)
(* how their findings are combined.  What a pattern or a recogniser finds  *)
(* in a text is given; what the code makes of it is defined here.          *)
(*                                                                         *)
(* A candidate of a pattern is [asset, start, end, digits], digits being   *)
(* the number in a card candidate; a recogniser's is [entity, start, end,  *)
(* weak], weak standing for score < min_score.  A match is                 *)
(* [asset, start, end].                                                    *)
(***************************************************************************)
EXTENDS Integers, Sequences, FiniteSetsExt

CONSTANTS
  Texts,
  RegexCandidates,     \* of the built-in and the custom patterns, by text
  PresidioCandidates   \* what the analyzer returns, by text

Match(asset, x) == [asset |-> asset, start |-> x.start, end |-> x.end]

\* _luhn_valid.  (The code counts digits from 0: position i there is i + 1 here.)
LuhnValid(digits) ==
  LET parity == Len(digits) % 2
      value(i) == LET d == digits[i]
                  IN  IF (i - 1) % 2 # parity THEN d
                      ELSE IF 2 * d > 9 THEN 2 * d - 9 ELSE 2 * d
  IN  MapThenSumSet(value, DOMAIN digits) % 10 = 0

\* RegexScanner.scan: a card number is reported only if its check digit is right.
RegexScan(text) ==
  {Match(x.asset, x) : x \in {y \in RegexCandidates[text] :
     y.asset = "credit_card" => Len(y.digits) \in 13..19 /\ LuhnValid(y.digits)}}

\* _ENTITY_MAP.  Entities it does not list are passed through.
AssetName(entity) ==
  CASE entity = "PERSON"            -> "person_name"
    [] entity = "LOCATION"          -> "address"
    [] entity = "PHONE_NUMBER"      -> "phone"
    [] entity = "EMAIL_ADDRESS"     -> "email"
    [] entity = "CREDIT_CARD"       -> "credit_card"
    [] entity = "IBAN_CODE"         -> "iban"
    [] entity = "US_SSN"            -> "ssn"
    [] entity = "US_PASSPORT"       -> "passport"
    [] entity = "US_DRIVER_LICENSE" -> "drivers_license"
    [] entity = "IP_ADDRESS"        -> "ip_address"
    [] entity = "MEDICAL_LICENSE"   -> "medical_license"
    [] entity = "NRP"               -> "nationality"
    [] entity = "CRYPTO"            -> "crypto_wallet"
    [] OTHER                        -> entity

DroppedEntities == {"URL", "DATE_TIME"}

PresidioScan(text) ==
  {Match(AssetName(x.entity), x) : x \in {y \in PresidioCandidates[text] :
     ~y.weak /\ y.entity \notin DroppedEntities}}

Overlap(x, y) == x.start < y.end /\ y.start < x.end

\* Mutant: only the very same span is a duplicate.
DedupeExact(presidio, regex) ==
  {x \in presidio : ~\E y \in regex : y.asset = x.asset /\ y.start = x.start /\ y.end = x.end}

\* dedupe_against: a finding that overlaps one of the regex pass under the same
\* asset name is dropped.
DedupeAgainst(presidio, regex) ==
  {x \in presidio : ~\E y \in regex : y.asset = x.asset /\ Overlap(x, y)}
=============================================================================
