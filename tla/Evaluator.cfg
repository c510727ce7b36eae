CONSTANTS
  w1 = w1
  w2 = w2
  sc = sc
  sp = sp
  Workers = {w1, w2}
  Subs = {sc, sp}
  Language <- MCLanguage
  MaxTests = 2
  Exclusive = TRUE
SPECIFICATION Spec
INVARIANTS TypeOK OwnBinary NoLeftovers ResultIsFinal RightIsAccepted
