SPECIFICATION Spec
CONSTANTS
  Consumers = {t1}
  Operations = {"anext"}
  Values <- MCValues
  Accepted <- MCAccepted
  NoValue = NoValue
  Exceptions <- MCExceptions
  Matched <- MCMatched
  Misuse = "misuse"
INVARIANTS OnlyDeclaredThrough
