--------------------------- MODULE MCRustContract ---------------------------
(* Small instances of RustContract: a method that returns a Result, a       *)
(* panic_free one, and a pure one, of an object with one invariant.          *)
EXTENDS RustContract

MCClauses == 1 .. 6
MCStates == {"good", "broken", "torn"}
MCArgs == {"small", "large"}
MCResults == {"ok", "bad", "declared", "stray"}
MCErrs == {"declared", "stray"}

\* 1: pre, 2: invariant, 3 and 4: post, 5 and 6: error.
MCEval(c, s, v) ==
  CASE c = 1 -> IF v = "large" THEN "false" ELSE "true"
    [] c = 2 -> IF s = "broken" THEN "false" ELSE IF s = "torn" THEN "panics" ELSE "true"
    [] c = 3 -> IF v = "bad" THEN "false" ELSE "true"
    [] c = 4 -> IF s = "torn" THEN "violates" ELSE "true"
    [] c = 5 -> IF v = "declared" THEN "true" ELSE "false"
    [] c = 6 -> IF s # "torn" THEN "false" ELSE IF v = "stray" THEN "violates" ELSE "panics"

Plain == [pre |-> {}, post |-> {}, err |-> {}, inv |-> {2}, pure |-> FALSE,
          panicFree |-> FALSE, result |-> FALSE, mutable |-> TRUE]

AllContracts ==
  [debit  |-> [Plain EXCEPT !.pre = {1}, !.post = {3}, !.err = {5, 6}, !.result = TRUE],
   settle |-> [Plain EXCEPT !.post = {4}, !.result = TRUE, !.panicFree = TRUE],
   total  |-> [Plain EXCEPT !.pure = TRUE, !.mutable = FALSE]]

MCContract == [f \in Fns |-> AllContracts[f]]

On == [compiledIn |-> TRUE, primary |-> "unset", legacy |-> "unset"]
SwitchedOff == [compiledIn |-> TRUE, primary |-> "off", legacy |-> "on"]
Release == [compiledIn |-> FALSE, primary |-> "unset", legacy |-> "unset"]
OnlyOff == {SwitchedOff}
OnlyOn == {On}
EveryBuild == {On, SwitchedOff, Release}
=============================================================================
