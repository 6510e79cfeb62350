--------------------------- MODULE WrapperChecks ---------------------------
(***************************************************************************)
(* What the objects a contracted call hands out, a wrapped async generator *)
(* or async context manager, do when the object they wrap has answered.    *)
(* They give up the event loop only inside that object, so all the checks  *)
(* of an answer are one step; how a clause is evaluated is the subject of  *)
(* ContractCall.                                                           *)
(***************************************************************************)
CONSTANTS
  Values,      \* what the wrapped object answers
  NoValue,     \* None
  Accepted,    \* the answers the postconditions accept
  Exceptions,  \* what the wrapped object raises
  Matched      \* the exceptions an error clause matches, where there is one

ASSUME ChecksAssumption ==
  /\ NoValue \notin Values /\ Accepted \subseteq Values \cup {NoValue}
  /\ Matched \subseteq Exceptions

\* What the function declares about exceptions: error clauses (raises, error),
\* panic_free.
Declarations == [errors : BOOLEAN, panicFree : BOOLEAN]

Nothing == [kind |-> "none"]
Value(v) == [kind |-> "value", value |-> v]
Raised(e) == [kind |-> "exception", value |-> e]
\* "nested": of a contracted call in the wrapped object.
Violation(k) == [kind |-> "violation", clause |-> k]
\* CancelledError and whatever else is not an Exception.
Aborted == [kind |-> "base"]

CheckedOutcomes ==
  {Aborted} \cup {Value(v) : v \in Values \cup {NoValue}} \cup {Raised(e) : e \in Exceptions}
    \cup {Violation(k) : k \in {"precondition", "postcondition", "invariant",
                                "error", "panic", "nested"}}

\* broken: an active invariant of the receiver does not hold.

\* _check_success_contracts
Success(broken, v) ==
  IF v \notin Accepted THEN Violation("postcondition")
  ELSE IF broken THEN Violation("invariant") ELSE Value(v)

\* _check_boolean_clauses on the invariants, before handing out x
Verified(broken, x) == IF broken THEN Violation("invariant") ELSE x

\* _handle_invocation_exception of a function that declares d
Handle(d, broken, e) ==
  IF broken THEN Violation("invariant")
  ELSE IF d.errors THEN IF e \in Matched THEN Raised(e) ELSE Violation("error")
  ELSE IF d.panicFree THEN Violation("panic") ELSE Raised(e)

\* No exception gets through but those that d allows.
Declared(d, e) == IF d.errors THEN e \in Matched ELSE ~d.panicFree
============================================================================
