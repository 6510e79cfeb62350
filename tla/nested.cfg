SPECIFICATION Spec
CONSTANTS
  Tasks = {t1}
  Fns = {"init", "debit", "get"}
  Clauses <- MCClauses
  Invs <- MCInvs
  Contract <- MCContract
  Policy <- MCPolicy
  Cost <- MCCost
  AllowNone <- MCAllowNone
  States <- MCStates
  Args <- MCArgs
  Results <- MCResults
  Exceptions <- MCExceptions
  Managers <- MCManagers
  NoTask = NoTask
  NoValue = NoValue
  Predicate <- MCPredicate
  Environments <- OnAndOff
  SettingsUsed <- OnlyFull
  MaxDepth = 3
  Preemptive = FALSE
INVARIANTS TypeOK
PROPERTIES ViolationKeepsBlame OrderlyEndLeavesNothing OnlyDeclaredEscapes
