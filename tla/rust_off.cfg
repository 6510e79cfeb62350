SPECIFICATION FairSpec
CONSTANTS
  Fns = {"settle"}
  Clauses <- MCClauses
  Contract <- MCContract
  States <- MCStates
  Args <- MCArgs
  Results <- MCResults
  Errs <- MCErrs
  Eval <- MCEval
  Environments <- OnlyOff
  MaxDepth = 1
PROPERTIES OffStopsChecks
