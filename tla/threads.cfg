SPECIFICATION Spec
CONSTANTS
  Tasks = {t1, t2}
  Fns = {"init", "debit", "audit"}
  Clauses <- MCClauses
  Invs <- MCInvs
  Contract <- MCContract
  Policy <- MCPolicy
  Cost <- MCCost
  AllowNone <- MCAllowNone
  States <- MCStates
  Args <- MCArgs
  Results = {"ok", "bad"}
  Exceptions <- MCExceptions
  Managers <- NoManagers
  NoTask = NoTask
  NoValue = NoValue
  Predicate <- MCPredicate
  Environments <- AlwaysOn
  SettingsUsed <- BothSettings
  MaxDepth = 1
  Preemptive = TRUE
INVARIANTS BrokenIsSuspect
PROPERTIES ImplementsLedger
SYMMETRY TaskSymmetry
