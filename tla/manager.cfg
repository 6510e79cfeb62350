SPECIFICATION Spec
CONSTANTS
  Tasks = {t1, t2}
  Values <- MCValues
  NoValue = NoValue
  Accepted <- MCAccepted
  Exceptions <- MCExceptions
  Matched <- MCMatched
INVARIANTS TypeOK LeaksAreReported
PROPERTIES BlockStartsVerified ExitVerified OnlyDeclaredOrOwn
