------------------------ MODULE AsyncContextManager ------------------------
(***************************************************************************)
(* Tasks that run async with on managers a contracted call returned:       *)
(* _ContractAsyncContextManager (contracts.py).  Each task has a manager   *)
(* of its own; the receiver whose invariants they check is shared.         *)
(*                                                                         *)
(* The manager inside the wrapper acquires something when it is entered    *)
(* and releases it when it is left.  The async with statement leaves a     *)
(* manager only if entering it raised nothing.                             *)
(***************************************************************************)
EXTENDS WrapperChecks

CONSTANT Tasks

VARIABLES
  declares, \* what the function of the managers declares
  pc,       \* pc[t]: where t is in its async with statement
  held,     \* held[t]: the manager of t is entered and not left
  pending,  \* pending[t]: what ended the block of t
  got,      \* got[t]: how the statement of t ended
  broken    \* an active invariant of the receiver does not hold

vars == <<declares, pc, held, pending, got, broken>>

\* The statement ends without an exception.
Passed == [kind |-> "passed"]
BlockEnds == {Passed, Aborted, Violation("nested")} \cup {Raised(e) : e \in Exceptions}

TypeOK ==
  /\ declares \in Declarations
  /\ pc \in [Tasks -> {"out", "entering", "inside", "exiting"}]
  /\ held \in [Tasks -> BOOLEAN]
  /\ pending \in [Tasks -> BlockEnds \cup {Nothing}]
  /\ got \in [Tasks -> CheckedOutcomes \cup {Nothing, Passed}]
  /\ broken \in BOOLEAN
  /\ \A t \in Tasks : /\ pc[t] \in {"inside", "exiting"} => held[t]
                      /\ pc[t] = "entering" => ~held[t]
                      /\ pc[t] = "exiting" <=> pending[t] # Nothing

Init ==
  /\ declares \in Declarations
  /\ pc = [t \in Tasks |-> "out"]
  /\ held = [t \in Tasks |-> FALSE]
  /\ pending = [t \in Tasks |-> Nothing]
  /\ got = [t \in Tasks |-> Nothing]
  /\ broken \in BOOLEAN
----------------------------------------------------------------------------
Moves(t, at, to) == pc[t] = at /\ pc' = [pc EXCEPT ![t] = to]
Gets(t, x) == got' = [got EXCEPT ![t] = x]
Holds(t, b) == held' = [held EXCEPT ![t] = b]

\* A new manager, and __aenter__ of its wrapper as far as the await.
Enter(t) ==
  /\ Moves(t, "out", "entering")
  /\ Gets(t, Nothing) /\ Holds(t, FALSE)
  /\ UNCHANGED <<declares, pending, broken>>

Entered_NoPost(t, v) ==  \* slip: only the invariants are checked on entry
  /\ Gets(t, Verified(broken, Value(v))) /\ Holds(t, TRUE)
  /\ Moves(t, "entering", IF broken THEN "out" ELSE "inside")
  /\ UNCHANGED <<declares, pending, broken>>

\* A failed check raises out of __aenter__ of an entered manager: the
\* statement is over and nobody leaves the manager.
Entered(t, v) ==
  /\ Gets(t, Success(broken, v)) /\ Holds(t, TRUE)
  /\ Moves(t, "entering", IF Success(broken, v) = Value(v) THEN "inside" ELSE "out")
  /\ UNCHANGED <<declares, pending, broken>>

EnterFails_Late(t, x) ==  \* slip: an await between entering and the checks
  /\ Moves(t, "entering", "out")
  /\ Gets(t, IF x.kind = "exception" THEN Handle(declares, broken, x.value) ELSE x)
  /\ Holds(t, x = Aborted)
  /\ UNCHANGED <<declares, pending, broken>>

EnterFails_Swallows(t, x) ==  \* slip: a declared exception is not raised again
  /\ Moves(t, "entering", IF x.kind = "exception" /\ Handle(declares, broken, x.value) = x THEN "inside" ELSE "out")
  /\ Gets(t, IF x.kind = "exception" THEN Handle(declares, broken, x.value) ELSE x)
  /\ UNCHANGED <<declares, held, pending, broken>>

EnterFails(t, x) ==
  /\ Moves(t, "entering", "out")
  /\ Gets(t, IF x.kind = "exception" THEN Handle(declares, broken, x.value) ELSE x)
  /\ UNCHANGED <<declares, held, pending, broken>>

\* The block ends: by itself, or with what comes out of it.
BlockEnd(t, x) ==
  /\ Moves(t, "inside", "exiting")
  /\ pending' = [pending EXCEPT ![t] = x]
  /\ Gets(t, Nothing)
  /\ UNCHANGED <<declares, held, broken>>

Exited_CleanOnly(t, suppress) ==  \* slip: no check after an exception
  /\ Moves(t, "exiting", "out")
  /\ LET x == IF suppress THEN Passed ELSE pending[t]
     IN Gets(t, IF pending[t] = Passed THEN Verified(broken, x) ELSE x)
  /\ Holds(t, FALSE)
  /\ pending' = [pending EXCEPT ![t] = Nothing]
  /\ UNCHANGED <<declares, broken>>

\* The manager is left.  The invariants are checked whatever ended the block,
\* and a broken one replaces it, a cancellation too.
Exited(t, suppress) ==
  /\ Moves(t, "exiting", "out")
  /\ Gets(t, Verified(broken, IF suppress THEN Passed ELSE pending[t]))
  /\ Holds(t, FALSE)
  /\ pending' = [pending EXCEPT ![t] = Nothing]
  /\ UNCHANGED <<declares, broken>>

ExitFails_Raw(t, x) ==  \* slip: __aexit__ without the except clauses
  /\ Moves(t, "exiting", "out")
  /\ Gets(t, x) /\ Holds(t, FALSE)
  /\ pending' = [pending EXCEPT ![t] = Nothing]
  /\ UNCHANGED <<declares, broken>>

\* __aexit__ of the manager raises, after it has released what it held.
ExitFails(t, x) ==
  /\ Moves(t, "exiting", "out")
  /\ Gets(t, IF x.kind = "exception" THEN Handle(declares, broken, x.value) ELSE x)
  /\ Holds(t, FALSE)
  /\ pending' = [pending EXCEPT ![t] = Nothing]
  /\ UNCHANGED <<declares, broken>>

\* Some code writes the receiver between two steps of the loop.
Write ==
  /\ broken' = ~broken
  /\ UNCHANGED <<declares, pc, held, pending, got>>
----------------------------------------------------------------------------
Next ==
  \/ Write
  \/ \E t \in Tasks :
       \/ Enter(t)
       \/ \E v \in Values : Entered(t, v)
       \/ \E x \in BlockEnds : BlockEnd(t, x)
       \/ \E x \in BlockEnds \ {Passed} : EnterFails(t, x) \/ ExitFails(t, x)
       \/ \E suppress \in BOOLEAN : Exited(t, suppress)

Spec == Init /\ [][Next]_vars
----------------------------------------------------------------------------
(* Properties *)

\* A block starts with an accepted value and true invariants, whatever other
\* tasks did while the manager was being entered (docs/contracts.md: the
\* result of __aenter__ is validated).
BlockStartsVerified ==
  [][\A t \in Tasks : pc[t] = "entering" /\ pc'[t] = "inside" =>
       got'[t].value \in Accepted /\ ~broken']_vars

\* A statement that ends normally or with an exception leaves the invariants
\* true, also when the manager suppressed what the block raised.
ExitVerified ==
  [][\A t \in Tasks : pc[t] = "exiting" /\ pc'[t] = "out"
       /\ got'[t].kind \in {"passed", "exception"} => ~broken']_vars

\* What a manager acquired stays acquired after the statement only if a
\* violation on entry says so: never silently, and never by a cancellation.
LeaksAreReported ==
  \A t \in Tasks : pc[t] = "out" /\ held[t] =>
    got[t].kind = "violation" /\ got[t].clause \in {"postcondition", "invariant"}

\* An exception the manager itself raises, entering or leaving, is declared;
\* any other that ends the statement is the block's own.
OnlyDeclaredOrOwn ==
  [][\A t \in Tasks : pc[t] # "out" /\ pc'[t] = "out" /\ got'[t].kind = "exception" =>
       got'[t] = pending[t] \/ Declared(declares, got'[t].value)]_vars
============================================================================
