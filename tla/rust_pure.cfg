SPECIFICATION FairSpec
CONSTANTS
  Fns = {"total"}
  Clauses <- MCClauses
  Contract <- MCContract
  States <- MCStates
  Args <- MCArgs
  Results <- MCResults
  Errs <- MCErrs
  Eval <- MCEval
  Environments <- OnlyOn
  MaxDepth = 1
PROPERTIES ListedPanicFree
