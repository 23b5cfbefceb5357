SPECIFICATION Spec
CONSTANTS
  Rules = {a1, a2}
  NoRule = NoRule
  Readers = {r1, r2}
  Writers = {w1, w2}
  TTL = 2
  MaxFill = 1
  MaxWrites = 3
SYMMETRY Interchangeable
INVARIANT
  ApiWritesAreSeen
