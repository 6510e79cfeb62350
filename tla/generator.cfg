SPECIFICATION Spec
CONSTANTS
  Consumers = {t1, t2}
  Operations <- AllOperations
  Values <- MCValues
  Accepted <- MCAccepted
  NoValue = NoValue
  Exceptions <- MCExceptions
  Matched <- MCMatched
  Misuse = "misuse"
INVARIANTS TypeOK ClosedMeansFinished
PROPERTIES YieldHonoursContract EndVerified AdvanceOnlyDeclared AheadIsTold
