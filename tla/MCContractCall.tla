--------------------------- MODULE MCContractCall ---------------------------
(***************************************************************************)
(* Small instances of ContractCall: a wallet whose balance must not be     *)
(* negative (invariant 2) and whose snapshot must match (invariant 3).     *)
(***************************************************************************)
EXTENDS ContractCall, TLC

MCStates == {"good", "negative", "stale"}
MCInvs == {2, 3}
MCClauses == 1 .. 6
MCArgs == {"small", "large"}
MCResults == {"ok", "bad", "manager"}
MCManagers == {"manager"}
NoManagers == {}
MCExceptions == {"declared", "stray"}
MCPolicy == [i \in MCInvs |-> IF i = 2 THEN "always" ELSE "mutating_only"]
MCCost == [i \in MCInvs |-> IF i = 2 THEN "cheap" ELSE "expensive"]
MCAllowNone == {1}

\* 1: pre on the argument and the state, 4: post, 5 and 6: error contracts.
MCPredicate(c, s, v) ==
  CASE c = 1 -> IF v = "large" THEN "detail" ELSE "none"
    [] c = 2 -> IF s = "negative" THEN "falsy" ELSE "truthy"
    [] c = 3 -> IF s = "stale" THEN "raises" ELSE "truthy"
    [] c = 4 -> IF v = "bad" THEN "causes" ELSE IF s = "negative" THEN "violates" ELSE "truthy"
    [] c = 5 -> IF v = "declared" THEN "truthy" ELSE "falsy"
    [] c = 6 -> IF s = "stale" THEN "violates" ELSE "none"

Plain == [pre |-> {}, post |-> {}, err |-> {}, inv |-> MCInvs, panic |-> FALSE,
          wrapper |-> "class", name |-> "other", mark |-> "none", async |-> FALSE]

AllContracts ==
  [init    |-> [Plain EXCEPT !.name = "init"],
   debit   |-> [Plain EXCEPT !.wrapper = "contract", !.name = "mutating",
                             !.pre = {1}, !.post = {4}, !.err = {5, 6}, !.panic = TRUE],
   sync    |-> [Plain EXCEPT !.wrapper = "contract", !.mark = "mutating",
                             !.pre = {1}, !.post = {4}, !.err = {5, 6}, !.async = TRUE],
   audit   |-> [Plain EXCEPT !.wrapper = "contract", !.inv = {2}, !.panic = TRUE],
   get     |-> [Plain EXCEPT !.name = "reading"]]

MCContract == [f \in Fns |-> AllContracts[f]]

On == [primary |-> "on", legacy |-> "off"]
Off == [primary |-> "unset", legacy |-> "off"]
TaskSymmetry == Permutations(Tasks)

AlwaysOn == {On}
OnAndOff == {On, Off}
FullSettings == [debug |-> FALSE, expensive |-> TRUE]
CheapSettings == [debug |-> FALSE, expensive |-> FALSE]
OnlyFull == {FullSettings}
BothSettings == {FullSettings, CheapSettings}

============================================================================
