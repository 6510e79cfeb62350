SPECIFICATION FairSpec
CONSTANTS
  Tasks = {t1, t2}
  Fns = {"sync"}
  Clauses <- MCClauses
  Invs <- MCInvs
  Contract <- MCContract
  Policy <- MCPolicy
  Cost <- MCCost
  AllowNone <- MCAllowNone
  States <- MCStates
  Args <- MCArgs
  Results <- MCResults
  Exceptions <- MCExceptions
  Managers <- MCManagers
  NoTask = NoTask
  NoValue = NoValue
  Predicate <- MCPredicate
  Environments <- AlwaysOn
  SettingsUsed <- OnlyFull
  MaxDepth = 2
  Preemptive = FALSE
INVARIANTS ChecksStand
PROPERTIES ReturnHonoursContract ChecksSettle
