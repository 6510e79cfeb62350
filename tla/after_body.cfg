SPECIFICATION FairSpec
CONSTANTS
  Tasks = {t1}
  Fns = {"debit"}
  Clauses <- MCClauses
  Invs <- MCInvs
  Contract <- MCContract
  Policy <- MCPolicy
  Cost <- MCCost
  AllowNone <- MCAllowNone
  States <- MCStates
  Args <- MCArgs
  Results <- MCResults
  Exceptions <- MCExceptions
  Managers <- NoManagers
  NoTask = NoTask
  NoValue = NoValue
  Predicate <- MCPredicate
  Environments <- AlwaysOn
  SettingsUsed <- OnlyFull
  MaxDepth = 1
  Preemptive = FALSE
PROPERTIES EvaluatedAfterTheBody
