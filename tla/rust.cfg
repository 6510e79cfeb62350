SPECIFICATION Spec
CONSTANTS
  Fns = {"debit", "settle", "total"}
  Clauses <- MCClauses
  Contract <- MCContract
  States <- MCStates
  Args <- MCArgs
  Results <- MCResults
  Errs <- MCErrs
  Eval <- MCEval
  Environments <- EveryBuild
  MaxDepth = 3
INVARIANTS TypeOK ChecksStand OffOnlyConverts
PROPERTIES ReturnHonoursContract ViolationKeepsBlame
