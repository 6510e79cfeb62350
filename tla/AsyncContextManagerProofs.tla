---------------------- MODULE AsyncContextManagerProofs ----------------------
(***************************************************************************)
(* Proofs about AsyncContextManager, for any number of tasks and any       *)
(* values, exceptions and clauses.                                         *)
(***************************************************************************)
EXTENDS AsyncContextManager, TLAPS

(* Outcomes *)

LEMMA Kinds ==
  /\ Nothing.kind = "none" /\ Passed.kind = "passed" /\ Aborted.kind = "base"
  /\ \A k : Violation(k).kind = "violation" /\ Violation(k).clause = k
  /\ \A e : Raised(e).kind = "exception" /\ Raised(e).value = e
  /\ \A v : Value(v).kind = "value" /\ Value(v).value = v
  BY DEF Nothing, Passed, Aborted, Violation, Raised, Value

\* How a statement can end.
Ends == CheckedOutcomes \cup {Nothing, Passed}

LEMMA OutcomesTyped ==
  /\ Nothing \in Ends /\ Passed \in BlockEnds /\ BlockEnds \subseteq Ends /\ Nothing \notin BlockEnds
  /\ \A x \in BlockEnds : x.kind = "exception" => \E e \in Exceptions : x = Raised(e)
  /\ \A b \in BOOLEAN, v \in Values : Success(b, v) \in Ends
  /\ \A b \in BOOLEAN, x \in Ends : Verified(b, x) \in Ends
  /\ \A b \in BOOLEAN, d \in Declarations, e \in Exceptions : Handle(d, b, e) \in Ends
<1>1. /\ {Nothing, Passed, Aborted} \subseteq Ends
      /\ \A k \in {"precondition", "postcondition", "invariant", "error", "panic", "nested"} :
           Violation(k) \in Ends
      /\ \A e \in Exceptions : Raised(e) \in Ends
      /\ \A v \in Values : Value(v) \in Ends
  BY DEF Ends, CheckedOutcomes
<1>2. Passed \in BlockEnds /\ BlockEnds \subseteq Ends
  BY <1>1 DEF BlockEnds
<1>3. /\ Nothing \notin BlockEnds
      /\ \A x \in BlockEnds : x.kind = "exception" => \E e \in Exceptions : x = Raised(e)
  BY Kinds DEF BlockEnds
<1>4. \A b \in BOOLEAN, v \in Values : Success(b, v) \in Ends
  BY <1>1 DEF Success
<1>5. \A b \in BOOLEAN, x \in Ends : Verified(b, x) \in Ends
  BY <1>1 DEF Verified
<1>6. \A b \in BOOLEAN, d \in Declarations, e \in Exceptions : Handle(d, b, e) \in Ends
  BY <1>1 DEF Handle
<1> QED
  BY <1>1, <1>2, <1>3, <1>4, <1>5, <1>6

\* The value is handed out exactly if the clauses accept it.
LEMMA SuccessChecked ==
  ASSUME NEW b, NEW v
  PROVE  \/ Success(b, v) = Value(v) /\ v \in Accepted /\ ~b
         \/ /\ Success(b, v) # Value(v) /\ Success(b, v).kind = "violation"
            /\ Success(b, v).clause \in {"postcondition", "invariant"}
  BY Kinds DEF Success

\* What __aenter__ and __aexit__ of the manager raise: their except clauses.
Handed(x) == IF x.kind = "exception" THEN Handle(declares, broken, x.value) ELSE x

LEMMA HandedChecked ==
  ASSUME TypeOK, NEW x \in BlockEnds \ {Passed}
  PROVE  /\ Handed(x) \in Ends /\ Handed(x).kind # "passed"
         /\ Handed(x).kind = "exception" => ~broken /\ Declared(declares, Handed(x).value)
<1>1. CASE x.kind = "exception"
  <2>1. PICK e \in Exceptions : x = Raised(e)
    BY <1>1, OutcomesTyped
  <2>2. Handed(x) = Handle(declares, broken, e)
    BY <1>1, <2>1, Kinds DEF Handed
  <2>3. Handle(declares, broken, e) \in Ends
    BY OutcomesTyped DEF TypeOK
  <2> QED
    BY <2>2, <2>3, Kinds DEF Handle, Declared
<1>2. CASE x.kind # "exception"
  <2>1. Handed(x) = x
    BY <1>2 DEF Handed
  <2>2. x.kind # "passed"
    BY Kinds DEF BlockEnds
  <2> QED
    BY <1>2, <2>1, <2>2, OutcomesTyped
<1> QED
  BY <1>1, <1>2
----------------------------------------------------------------------------
(* Types *)

\* What a step of task t does.
Step(t) ==
  \/ Enter(t)
  \/ \E v \in Values : Entered(t, v)
  \/ \E x \in BlockEnds : BlockEnd(t, x)
  \/ \E x \in BlockEnds \ {Passed} : EnterFails(t, x) \/ ExitFails(t, x)
  \/ \E suppress \in BOOLEAN : Exited(t, suppress)

\* Where t is agrees with what it holds and with how its block ended.
Agrees(p, h, e) ==
  /\ p \in {"out", "entering", "inside", "exiting"} /\ h \in BOOLEAN /\ e \in BlockEnds \cup {Nothing}
  /\ p \in {"inside", "exiting"} => h
  /\ p = "entering" => ~h
  /\ p = "exiting" <=> e # Nothing

LEMMA TypeOKIff ==
  TypeOK <=> /\ declares \in Declarations /\ broken \in BOOLEAN
             /\ pc \in [Tasks -> {"out", "entering", "inside", "exiting"}]
             /\ held \in [Tasks -> BOOLEAN]
             /\ pending \in [Tasks -> BlockEnds \cup {Nothing}]
             /\ got \in [Tasks -> Ends]
             /\ \A t \in Tasks : Agrees(pc[t], held[t], pending[t])
  BY DEF TypeOK, Agrees, Ends

LEMMA TypeOKNextIff ==
  TypeOK' <=> /\ declares' \in Declarations /\ broken' \in BOOLEAN
              /\ pc' \in [Tasks -> {"out", "entering", "inside", "exiting"}]
              /\ held' \in [Tasks -> BOOLEAN]
              /\ pending' \in [Tasks -> BlockEnds \cup {Nothing}]
              /\ got' \in [Tasks -> Ends]
              /\ \A t \in Tasks : Agrees(pc'[t], held'[t], pending'[t])
  BY DEF TypeOK, Agrees, Ends

OthersKeep(t) ==
  \A u \in Tasks : u # t => /\ pc'[u] = pc[u] /\ held'[u] = held[u]
                            /\ pending'[u] = pending[u] /\ got'[u] = got[u]

\* What a step of t writes.
Writes(t, p, h, e, x) ==
  /\ pc' = [pc EXCEPT ![t] = p] /\ held' = [held EXCEPT ![t] = h]
  /\ pending' = [pending EXCEPT ![t] = e] /\ got' = [got EXCEPT ![t] = x]

\* A step of a task is its own affair.
LEMMA Own ==
  ASSUME TypeOK, NEW t \in Tasks, NEW p, NEW h, NEW e, NEW x, Writes(t, p, h, e, x)
  PROVE  /\ pc'[t] = p /\ held'[t] = h /\ pending'[t] = e /\ got'[t] = x /\ OthersKeep(t)
  BY DEF TypeOK, Writes, OthersKeep

LEMMA OwnTyped ==
  ASSUME TypeOK, NEW t \in Tasks, NEW p, NEW h, NEW e, NEW x, Writes(t, p, h, e, x),
         Agrees(p, h, e), x \in Ends, UNCHANGED <<declares, broken>>
  PROVE  TypeOK'
<1>1. \A u \in Tasks : Agrees(pc'[u], held'[u], pending'[u])
  BY Own, TypeOKIff DEF OthersKeep
<1>2. /\ pc' \in [Tasks -> {"out", "entering", "inside", "exiting"}] /\ held' \in [Tasks -> BOOLEAN]
      /\ pending' \in [Tasks -> BlockEnds \cup {Nothing}] /\ got' \in [Tasks -> Ends]
  BY TypeOKIff DEF Agrees, Writes
<1> QED
  BY <1>1, <1>2, TypeOKIff, TypeOKNextIff
----------------------------------------------------------------------------
(* Steps *)

\* What a step of t comes to: it starts to enter, its block starts, it finds
\* its entry rejected, its manager fails to enter, its block ends, or its
\* manager is left.
Effect(t) ==
  \/ pc[t] = "out" /\ pc'[t] = "entering"
  \/ pc[t] = "entering" /\ pc'[t] = "inside" /\ got'[t].value \in Accepted /\ ~broken
  \/ /\ pc[t] = "entering" /\ pc'[t] = "out"
     /\ got'[t].kind = "violation" /\ got'[t].clause \in {"postcondition", "invariant"}
  \/ /\ pc[t] = "entering" /\ pc'[t] = "out" /\ ~held'[t]
     /\ got'[t].kind = "exception" => Declared(declares, got'[t].value)
  \/ pc[t] = "inside" /\ pc'[t] = "exiting"
  \/ /\ pc[t] = "exiting" /\ pc'[t] = "out" /\ ~held'[t]
     /\ got'[t].kind \in {"passed", "exception"} => ~broken
     /\ got'[t].kind = "exception" => got'[t] = pending[t] \/ Declared(declares, got'[t].value)

LEMMA Stepped ==
  ASSUME TypeOK, NEW t \in Tasks, Step(t)
  PROVE  /\ TypeOK' /\ Effect(t) /\ UNCHANGED <<declares, broken>> /\ OthersKeep(t)
<1> DEFINE Result == /\ TypeOK' /\ Effect(t) /\ UNCHANGED <<declares, broken>> /\ OthersKeep(t)
<1>1. held = [held EXCEPT ![t] = held[t]] /\ pending = [pending EXCEPT ![t] = pending[t]]
  BY DEF TypeOK
<1>2. Agrees(pc[t], held[t], pending[t])
  BY TypeOKIff
<1>3. CASE Enter(t)
  <2>1. Agrees("entering", FALSE, pending[t])
    BY <1>2, <1>3 DEF Agrees, Enter, Moves
  <2>2. Writes(t, "entering", FALSE, pending[t], Nothing) /\ UNCHANGED <<declares, broken>> /\ pc[t] = "out"
    BY <1>1, <1>3 DEF Enter, Moves, Gets, Holds, Writes
  <2>3. Nothing \in Ends
    BY OutcomesTyped
  <2>4. TypeOK'
    BY <2>1, <2>2, <2>3, OwnTyped
  <2>5. pc'[t] = "entering" /\ OthersKeep(t)
    BY <2>2, Own
  <2> QED
    BY <2>2, <2>4, <2>5 DEF Effect
<1>4. ASSUME NEW v \in Values, Entered(t, v)
      PROVE  Result
  <2> PICK x, p : x = Success(broken, v) /\ p = IF x = Value(v) THEN "inside" ELSE "out"
    OBVIOUS
  <2>1. Agrees(p, TRUE, pending[t])
    BY <1>2, <1>4 DEF Agrees, Entered, Moves
  <2>2. Writes(t, p, TRUE, pending[t], x) /\ UNCHANGED <<declares, broken>> /\ pc[t] = "entering"
    BY <1>1, <1>4 DEF Entered, Moves, Gets, Holds, Writes
  <2>3. x \in Ends
    BY OutcomesTyped DEF TypeOK
  <2>4. \/ p = "inside" /\ x.value \in Accepted /\ ~broken
        \/ p = "out" /\ x.kind = "violation" /\ x.clause \in {"postcondition", "invariant"}
    BY SuccessChecked, Kinds
  <2>5. TypeOK'
    BY <2>1, <2>2, <2>3, OwnTyped
  <2>6. pc'[t] = p /\ got'[t] = x /\ OthersKeep(t)
    BY <2>2, Own
  <2> QED
    BY <2>2, <2>4, <2>5, <2>6 DEF Effect
<1>5. ASSUME NEW x \in BlockEnds, BlockEnd(t, x)
      PROVE  Result
  <2>1. Agrees("exiting", held[t], x)
    BY <1>2, <1>5, OutcomesTyped DEF Agrees, BlockEnd, Moves
  <2>2. Writes(t, "exiting", held[t], x, Nothing) /\ UNCHANGED <<declares, broken>> /\ pc[t] = "inside"
    BY <1>1, <1>5 DEF BlockEnd, Moves, Gets, Writes
  <2>3. Nothing \in Ends
    BY OutcomesTyped
  <2>4. TypeOK'
    BY <2>1, <2>2, <2>3, OwnTyped
  <2>5. pc'[t] = "exiting" /\ OthersKeep(t)
    BY <2>2, Own
  <2> QED
    BY <2>2, <2>4, <2>5 DEF Effect
<1>6. ASSUME NEW x \in BlockEnds \ {Passed}, EnterFails(t, x)
      PROVE  Result
  <2>1. Agrees("out", held[t], pending[t]) /\ ~held[t]
    BY <1>2, <1>6 DEF Agrees, EnterFails, Moves
  <2>2. Writes(t, "out", held[t], pending[t], Handed(x)) /\ UNCHANGED <<declares, broken>> /\ pc[t] = "entering"
    BY <1>1, <1>6 DEF EnterFails, Moves, Gets, Handed, Writes
  <2>3. Handed(x) \in Ends
    BY HandedChecked
  <2>4. TypeOK'
    BY <2>1, <2>2, <2>3, OwnTyped
  <2>5. pc'[t] = "out" /\ ~held'[t] /\ got'[t] = Handed(x) /\ OthersKeep(t)
    BY <2>1, <2>2, Own
  <2> QED
    BY <2>2, <2>4, <2>5, HandedChecked DEF Effect
<1>7. ASSUME NEW x \in BlockEnds \ {Passed}, ExitFails(t, x)
      PROVE  Result
  <2>1. Agrees("out", FALSE, Nothing)
    BY DEF Agrees
  <2>2. Writes(t, "out", FALSE, Nothing, Handed(x)) /\ UNCHANGED <<declares, broken>> /\ pc[t] = "exiting"
    BY <1>7 DEF ExitFails, Moves, Gets, Holds, Handed, Writes
  <2>3. Handed(x) \in Ends
    BY HandedChecked
  <2>4. TypeOK'
    BY <2>1, <2>2, <2>3, OwnTyped
  <2>5. pc'[t] = "out" /\ ~held'[t] /\ got'[t] = Handed(x) /\ OthersKeep(t)
    BY <2>2, Own
  <2> QED
    BY <2>2, <2>4, <2>5, HandedChecked DEF Effect
<1>8. ASSUME NEW suppress \in BOOLEAN, Exited(t, suppress)
      PROVE  Result
  <2> DEFINE x == Verified(broken, IF suppress THEN Passed ELSE pending[t])
  <2>1. Agrees("out", FALSE, Nothing)
    BY DEF Agrees
  <2>2. Writes(t, "out", FALSE, Nothing, x) /\ UNCHANGED <<declares, broken>> /\ pc[t] = "exiting"
    BY <1>8 DEF Exited, Moves, Gets, Holds, Writes
  <2>3. pending[t] \in Ends /\ Passed \in Ends
    BY OutcomesTyped DEF TypeOK
  <2>4. x \in Ends
    BY <2>3, OutcomesTyped DEF TypeOK
  <2>5. /\ x.kind \in {"passed", "exception"} => ~broken
        /\ x.kind = "exception" => x = pending[t]
    BY Kinds DEF Verified
  <2> HIDE DEF x
  <2>6. TypeOK'
    BY <2>1, <2>2, <2>4, OwnTyped
  <2>7. pc'[t] = "out" /\ ~held'[t] /\ got'[t] = x /\ OthersKeep(t)
    BY <2>2, Own
  <2> QED
    BY <2>2, <2>5, <2>6, <2>7 DEF Effect
<1> QED
  BY <1>3, <1>4, <1>5, <1>6, <1>7, <1>8 DEF Step

LEMMA Steps == [Next]_vars => Write \/ UNCHANGED vars \/ \E t \in Tasks : Step(t)
  BY DEF Next, Step
----------------------------------------------------------------------------
(* Theorems *)

\* A manager is held inside the block and while it is left, and not yet while
\* it is entered; what ended a block is kept until the statement is over.
THEOREM TypeCorrect == Spec => []TypeOK
<1>1. Init => TypeOK
  BY OutcomesTyped DEF Init, TypeOK
<1>2. TypeOK /\ [Next]_vars => TypeOK'
  <2> SUFFICES ASSUME TypeOK, [Next]_vars PROVE TypeOK'
    OBVIOUS
  <2>1. CASE Write \/ UNCHANGED vars
    BY <2>1, TypeOKIff, TypeOKNextIff DEF Write, vars
  <2> QED
    BY <2>1, Steps, Stepped
<1> QED
  BY <1>1, <1>2, PTL DEF Spec

\* A manager that was acquired and not released is always announced: the task
\* got a violation of a postcondition or an invariant from the checks of
\* __aenter__.
THEOREM LeaksReported == Spec => []LeaksAreReported
<1>1. Init => LeaksAreReported
  BY DEF Init, LeaksAreReported
<1>2. TypeOK /\ LeaksAreReported /\ [Next]_vars => LeaksAreReported'
  <2> SUFFICES ASSUME TypeOK, LeaksAreReported, [Next]_vars,
                      NEW u \in Tasks, pc'[u] = "out", held'[u]
               PROVE  got'[u].kind = "violation" /\ got'[u].clause \in {"postcondition", "invariant"}
    BY DEF LeaksAreReported
  <2>1. CASE Write \/ UNCHANGED vars
    BY <2>1 DEF Write, vars, LeaksAreReported
  <2>2. ASSUME NEW t \in Tasks, Step(t), t # u
        PROVE  pc'[u] = pc[u] /\ held'[u] = held[u] /\ got'[u] = got[u]
    BY <2>2, Stepped DEF OthersKeep
  <2>3. CASE Step(u)
    BY <2>3, Stepped DEF Effect
  <2> QED
    BY <2>1, <2>2, <2>3, Steps DEF LeaksAreReported
<1> QED
  BY <1>1, <1>2, TypeCorrect, PTL DEF Spec

\* A task that moves is the one that takes the step.
LEMMA Mover ==
  ASSUME TypeOK, [Next]_vars, NEW t \in Tasks, pc'[t] # pc[t]
  PROVE  Effect(t) /\ UNCHANGED <<declares, broken>>
<1>1. ~(Write \/ UNCHANGED vars)
  BY DEF Write, vars
<1>2. PICK u \in Tasks : Step(u)
  BY <1>1, Steps
<1>3. u = t
  BY <1>2, Stepped DEF OthersKeep
<1> QED
  BY <1>2, <1>3, Stepped

\* The block of an async with statement starts only after the value of
\* __aenter__ has passed the postconditions, with the invariants true at that
\* moment, whatever other tasks did in the meantime.
THEOREM BlocksVerified == Spec => BlockStartsVerified
<1>1. TypeOK /\ [Next]_vars =>
        [\A t \in Tasks : pc[t] = "entering" /\ pc'[t] = "inside" =>
           got'[t].value \in Accepted /\ ~broken']_vars
  BY Mover DEF Effect
<1> QED
  BY <1>1, TypeCorrect, PTL DEF Spec, BlockStartsVerified

\* A statement that ends in any way but with a violation or an abort leaves
\* true invariants, whether the manager suppressed an exception, raised one or
\* passed on the block's (the finally block of __aexit__).
THEOREM ExitsVerified == Spec => ExitVerified
<1>1. TypeOK /\ [Next]_vars =>
        [\A t \in Tasks : pc[t] = "exiting" /\ pc'[t] = "out"
           /\ got'[t].kind \in {"passed", "exception"} => ~broken']_vars
  BY Mover DEF Effect
<1> QED
  BY <1>1, TypeCorrect, PTL DEF Spec, ExitVerified

\* An exception that ends a statement is the block's own or one the function
\* declares (_handle_invocation_exception in __aenter__ and __aexit__).
THEOREM DeclaredOrOwn == Spec => OnlyDeclaredOrOwn
<1>1. TypeOK /\ [Next]_vars =>
        [\A t \in Tasks : pc[t] # "out" /\ pc'[t] = "out" /\ got'[t].kind = "exception" =>
           got'[t] = pending[t] \/ Declared(declares, got'[t].value)]_vars
  BY Mover, Kinds DEF Effect
<1> QED
  BY <1>1, TypeCorrect, PTL DEF Spec, OnlyDeclaredOrOwn
============================================================================
