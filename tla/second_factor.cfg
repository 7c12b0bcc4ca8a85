SPECIFICATION Spec
CONSTANTS
  Secrets = {s1, s2}
  Codes = {k1, k2}
  SheetSize = 1
  Sessions = {a, b}
  Callers = {c1, c2}
  MaxAttempts = 2
  Window = 2
  MaxStep = 2
  NoSecret = NoSecret
  NoCode = NoCode
  NoCall = NoCall
SYMMETRY Symmetry
INVARIANTS CodesAreTheSecrets GuessesBounded
PROPERTY CodeCountsOnce
