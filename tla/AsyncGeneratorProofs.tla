------------------------ MODULE AsyncGeneratorProofs ------------------------
(***************************************************************************)
(* Proofs about AsyncGenerator, for any number of consumers and any        *)
(* values, exceptions and clauses.                                         *)
(***************************************************************************)
EXTENDS AsyncGenerator, TLAPS

(* Outcomes *)

LEMMA OutcomesTyped ==
  /\ {Nothing, Stop, Closed, Aborted} \subseteq Endings
  /\ \A k \in {"precondition", "postcondition", "invariant", "error", "panic", "nested"} :
       Violation(k) \in Endings
  /\ \A e \in Exceptions : Raised(e) \in Endings
  /\ \A v \in Values \cup {NoValue} : Value(v) \in Endings
  /\ \A b \in BOOLEAN, v \in Values \cup {NoValue} : Success(b, v) \in Endings
  /\ \A b \in BOOLEAN, x \in Endings : Verified(b, x) \in Endings
  /\ \A d \in Declarations, b \in BOOLEAN, e \in Exceptions : Handle(d, b, e) \in Endings
<1>1. /\ {Nothing, Stop, Closed, Aborted} \subseteq Endings
      /\ \A k \in {"precondition", "postcondition", "invariant", "error", "panic", "nested"} :
           Violation(k) \in Endings
      /\ \A e \in Exceptions : Raised(e) \in Endings
      /\ \A v \in Values \cup {NoValue} : Value(v) \in Endings
  BY DEF Endings, CheckedOutcomes
<1>2. \A b \in BOOLEAN, v \in Values \cup {NoValue} : Success(b, v) \in Endings
  BY <1>1 DEF Success
<1>3. \A b \in BOOLEAN, x \in Endings : Verified(b, x) \in Endings
  BY <1>1 DEF Verified
<1>4. \A d \in Declarations, b \in BOOLEAN, e \in Exceptions : Handle(d, b, e) \in Endings
  BY <1>1 DEF Handle
<1> QED
  BY <1>1, <1>2, <1>3, <1>4

LEMMA Kinds ==
  /\ Nothing.kind = "none" /\ Stop.kind = "stop" /\ Closed.kind = "closed"
  /\ Aborted.kind = "base"
  /\ \A k : Violation(k).kind = "violation"
  /\ \A e : Raised(e).kind = "exception" /\ Raised(e).value = e
  /\ \A v : Value(v).kind = "value" /\ Value(v).value = v
  BY DEF Nothing, Stop, Closed, Aborted, Violation, Raised, Value

\* Nothing but a success hands out a value, and only one the clauses accept.
LEMMA SuccessChecked ==
  ASSUME NEW b, NEW v
  PROVE  /\ Success(b, v).kind \in {"value", "violation"}
         /\ Success(b, v).kind = "value" => Success(b, v).value \in Accepted /\ ~b
  BY Kinds DEF Success

\* An exception that gets through is one that is declared.
LEMMA HandleChecked ==
  ASSUME NEW d, NEW b, NEW e
  PROVE  /\ Handle(d, b, e).kind \in {"exception", "violation"}
         /\ Handle(d, b, e).kind = "exception" => ~b /\ Declared(d, Handle(d, b, e).value)
  BY Kinds DEF Handle, Declared

LEMMA VerifiedChecked ==
  ASSUME NEW b, NEW x
  PROVE  (Verified(b, x) = x /\ ~b) \/ Verified(b, x).kind = "violation"
  BY Kinds DEF Verified
----------------------------------------------------------------------------
(* Types *)

\* The generator runs for one consumer at most, and is busy for nobody else.
OneInside(g, p) ==
  /\ g = "running" <=> \E t \in Consumers : p[t] = "advance"
  /\ g = "closing" <=> \E t \in Consumers : p[t] = "close"
  /\ \A t, u \in Consumers : p[t] # "idle" /\ p[u] # "idle" => t = u

LEMMA TypeOKIff ==
  TypeOK <=> /\ declares \in Declarations /\ orderly \in BOOLEAN
             /\ gen \in Generators
             /\ closed \in BOOLEAN /\ exited \in BOOLEAN /\ broken \in BOOLEAN
             /\ pc \in [Consumers -> {"idle", "advance", "close"}]
             /\ got \in [Consumers -> Endings]
             /\ OneInside(gen, pc)
  BY DEF TypeOK, OneInside

\* What an answer changes for the consumer that gets it, and for no other.
LEMMA Finished ==
  ASSUME TypeOK, NEW t \in Consumers, NEW x \in Endings, Finish(t, x)
  PROVE  /\ pc' \in [Consumers -> {"idle", "advance", "close"}] /\ got' \in [Consumers -> Endings]
         /\ pc'[t] = "idle" /\ got'[t] = x
         /\ \A u \in Consumers : u # t => pc'[u] = pc[u] /\ got'[u] = got[u]
         /\ pc[t] = "idle" => pc' = pc
  BY DEF Finish, TypeOK

\* A refusal leaves the one that is inside there.
LEMMA RefusedInside ==
  ASSUME TypeOK, NEW t \in Consumers, pc[t] = "idle", NEW x \in Endings, Finish(t, x), gen' = gen
  PROVE  OneInside(gen', pc')
<1>1. pc' = pc
  BY Finished
<1> QED
  BY <1>1, TypeOKIff

\* An answer to the one inside, or to anybody when nobody is, leaves nobody
\* there.
LEMMA LeavesNobody ==
  ASSUME TypeOK, NEW t \in Consumers, pc[t] # "idle" \/ ~Busy, NEW x \in Endings, Finish(t, x),
         gen' \notin {"running", "closing"}
  PROVE  OneInside(gen', pc')
<1>1. \A u \in Consumers : pc'[u] = "idle"
  BY Finished, TypeOKIff DEF OneInside, Busy, TypeOK
<1> QED
  BY <1>1 DEF OneInside

LEMMA EntersAlone ==
  ASSUME TypeOK, NEW t \in Consumers, ~Busy, NEW p \in {"advance", "close"},
         pc' = [pc EXCEPT ![t] = p], gen' = IF p = "advance" THEN "running" ELSE "closing"
  PROVE  OneInside(gen', pc')
<1>1. \A u \in Consumers : pc[u] = "idle"
  BY TypeOKIff DEF OneInside, Busy, TypeOK
<1>2. pc'[t] = p /\ \A u \in Consumers : u # t => pc'[u] = "idle"
  BY <1>1 DEF TypeOK
<1> QED
  BY <1>2 DEF OneInside
----------------------------------------------------------------------------
\* The next step, as the kinds of what it does: what a consumer asks of the
\* generator, what the generator answers, and a write of the receiver.
LEMMA ConsumeTyped ==
  ASSUME TypeOK, NEW t \in Consumers, Consume(t)
  PROVE  TypeOK'
<1>1. ASSUME NEW x \in Endings, Finish(t, x), UNCHANGED <<fixed, exited, broken>>, closed' \in BOOLEAN,
             \/ gen' = gen /\ pc[t] = "idle"
             \/ gen' \in Generators \ {"running", "closing"} /\ ~Busy
      PROVE  TypeOK'
  <2>1. OneInside(gen', pc')
    BY <1>1, RefusedInside, LeavesNobody
  <2>2. gen' \in Generators
    BY <1>1 DEF TypeOK
  <2> QED
    BY <1>1, <2>1, <2>2, Finished, TypeOKIff DEF fixed, TypeOK, OneInside
<1>2. ASSUME NEW p \in {"advance", "close"}, ~Busy, pc' = [pc EXCEPT ![t] = p],
             got' = [got EXCEPT ![t] = Nothing], exited' \in BOOLEAN,
             gen' = IF p = "advance" THEN "running" ELSE "closing",
             UNCHANGED <<fixed, closed, broken>>
      PROVE  TypeOK'
  <2>1. OneInside(gen', pc')
    BY <1>2, EntersAlone
  <2> QED
    BY <1>2, <2>1, OutcomesTyped DEF fixed, TypeOK, OneInside, Generators
<1>3. ASSUME NEW accepted \in BOOLEAN, Open(t, accepted)
      PROVE  TypeOK'
  <2>1. PICK x \in {Nothing, Violation("invariant"), Violation("precondition")} : Finish(t, x)
    BY <1>3 DEF Open
  <2>2. x \in Endings
    BY OutcomesTyped
  <2> QED
    BY <1>1, <1>3, <2>1, <2>2 DEF Open, Free, Busy, Generators, TypeOK
<1>4. ASSUME NEW op \in Used, Advance(t, op)
      PROVE  TypeOK'
  BY <1>2, <1>4 DEF Advance, Busy, TypeOK
<1>5. ASSUME NEW op \in Used, AdvanceRefused(t, op)
      PROVE  TypeOK'
  <2>1. Handle(declares, broken, Misuse) \in Endings
    BY OutcomesTyped, GeneratorAssumption DEF TypeOK
  <2> QED
    BY <1>1, <1>5, <2>1 DEF AdvanceRefused, Free
<1>6. ASSUME NEW op \in Used, AdvanceFinished(t, op)
      PROVE  TypeOK'
  <2>1. Success(broken, NoValue) \in Endings /\ Verified(broken, Stop) \in Endings
    BY OutcomesTyped DEF TypeOK
  <2> QED
    BY <1>1, <1>6, <2>1 DEF AdvanceFinished, Free, TypeOK
<1>7. CASE ThrowAfterExit(t)
  <2>1. Verified(broken, Stop) \in Endings
    BY OutcomesTyped DEF TypeOK
  <2> QED
    BY <1>1, <1>7, <2>1 DEF ThrowAfterExit, Free
<1>8. ASSUME NEW e \in Exceptions, ThrowAtStart(t, e)
      PROVE  TypeOK'
  <2>1. Handle(declares, broken, e) \in Endings
    BY OutcomesTyped DEF TypeOK
  <2> QED
    BY <1>1, <1>8, <2>1 DEF ThrowAtStart, Busy, Generators
<1>9. CASE CloseAgain(t)
  BY <1>1, <1>9, OutcomesTyped DEF CloseAgain, Free, TypeOK
<1>10. CASE CloseAtOnce(t)
  <2>1. Verified(broken, Closed) \in Endings
    BY OutcomesTyped DEF TypeOK
  <2> QED
    BY <1>1, <1>10, <2>1 DEF CloseAtOnce, Busy, Generators
<1>11. CASE CloseRefused(t)
  <2>1. Verified(broken, Raised(Misuse)) \in Endings
    BY OutcomesTyped, GeneratorAssumption DEF TypeOK
  <2> QED
    BY <1>1, <1>11, <2>1 DEF CloseRefused, Free
<1>12. CASE CloseStarts(t)
  BY <1>2, <1>12 DEF CloseStarts, Busy
<1> QED
  BY <1>3, <1>4, <1>5, <1>6, <1>7, <1>8, <1>9, <1>10, <1>11, <1>12 DEF Consume

LEMMA BodyTyped ==
  ASSUME TypeOK, NEW t \in Consumers, Body(t) \/ CloseIgnored(t)
  PROVE  TypeOK'
<1>1. ASSUME NEW x \in Endings, Finish(t, x), UNCHANGED <<fixed, exited, broken>>, closed' \in BOOLEAN,
             pc[t] # "idle", gen' \in {"suspended", "finished"}
      PROVE  TypeOK'
  <2>1. OneInside(gen', pc')
    BY <1>1, LeavesNobody
  <2> QED
    BY <1>1, <2>1, Finished DEF fixed, TypeOK, OneInside, Generators
<1>2. ASSUME NEW v \in Values, Yields(t, v)
      PROVE  TypeOK'
  <2>1. Success(broken, v) \in Endings
    BY OutcomesTyped DEF TypeOK
  <2> QED
    BY <1>1, <1>2, <2>1 DEF Yields, TypeOK
<1>3. ASSUME NEW e \in Exceptions, Raises(t, e)
      PROVE  TypeOK'
  <2>1. Handle(declares, broken, e) \in Endings
    BY OutcomesTyped DEF TypeOK
  <2> QED
    BY <1>1, <1>3, <2>1 DEF Raises
<1>4. CASE Returns(t)
  <2>1. Verified(broken, Stop) \in Endings
    BY OutcomesTyped DEF TypeOK
  <2> QED
    BY <1>1, <1>4, <2>1 DEF Returns
<1>5. CASE RaisesViolation(t)
  BY <1>1, <1>5, OutcomesTyped DEF RaisesViolation
<1>6. CASE Cancelled(t)
  BY <1>1, <1>6, OutcomesTyped DEF Cancelled, TypeOK
<1>7. CASE CloseEnds(t)
  <2>1. PICK x \in {Closed, Aborted, Violation("nested")} \cup {Raised(e) : e \in Exceptions} :
          Finish(t, Verified(broken, x))
    BY <1>7 DEF CloseEnds
  <2>2. Verified(broken, x) \in Endings
    BY OutcomesTyped DEF TypeOK
  <2> QED
    BY <1>1, <1>7, <2>1, <2>2 DEF CloseEnds
<1>8. CASE CloseIgnored(t)
  <2>1. Verified(broken, Raised(Misuse)) \in Endings
    BY OutcomesTyped, GeneratorAssumption DEF TypeOK
  <2> QED
    BY <1>1, <1>8, <2>1 DEF CloseIgnored
<1> QED
  BY <1>2, <1>3, <1>4, <1>5, <1>6, <1>7, <1>8 DEF Body

\* The state of the wrapper and of the generator it wraps stays what the code
\* can make it, and only one consumer is ever inside the generator.
THEOREM TypeCorrect == Spec => []TypeOK
<1>1. Init => TypeOK
  BY OutcomesTyped DEF Init, TypeOK, Generators
<1>2. TypeOK /\ [Next]_vars => TypeOK'
  <2> SUFFICES ASSUME TypeOK, [Next]_vars PROVE TypeOK'
    OBVIOUS
  <2>1. CASE Write
    BY <2>1 DEF Write, TypeOK, fixed
  <2>2. CASE UNCHANGED vars
    BY <2>2 DEF vars, TypeOK, fixed
  <2> QED
    BY <2>1, <2>2, ConsumeTyped, BodyTyped DEF Next
<1> QED
  BY <1>1, <1>2, PTL DEF Spec
----------------------------------------------------------------------------
(* _closed *)

\* What the function and its consumers are stays as it was.
LEMMA Fixed == [Next]_vars => UNCHANGED fixed
<1>1. ASSUME NEW t, Consume(t)
      PROVE  UNCHANGED fixed
  BY <1>1 DEF Consume, Open, Advance, AdvanceRefused, AdvanceFinished, ThrowAfterExit,
     ThrowAtStart, CloseAgain, CloseAtOnce, CloseRefused, CloseStarts
<1>2. ASSUME NEW t, Body(t) \/ CloseIgnored(t)
      PROVE  UNCHANGED fixed
  BY <1>2 DEF Body, Yields, Raises, Returns, RaisesViolation, Cancelled, CloseEnds, CloseIgnored
<1> QED
  BY <1>1, <1>2 DEF Next, Write, vars

\* The flag is never ahead of the generator when consumers take turns and no
\* cleanup yields: an aclose that does nothing comes after the last code of the
\* body.  With a consumer that comes in between, the wrapper closes itself on
\* the refusal and the theorem fails, as with a cleanup that yields.
THEOREM ClosedAfterBody == Spec => []ClosedMeansFinished
<1>1. Init => ClosedMeansFinished
  BY DEF Init, ClosedMeansFinished
<1>2. TypeOK /\ ClosedMeansFinished /\ [Next]_vars => ClosedMeansFinished'
  <2> SUFFICES ASSUME TypeOK, ClosedMeansFinished, [Next]_vars, orderly', closed'
               PROVE  gen' = "finished"
    BY DEF ClosedMeansFinished
  <2> orderly
    BY Fixed DEF fixed
  <2>1. closed => gen = "finished"
    BY DEF ClosedMeansFinished
  <2>2. CASE Write \/ UNCHANGED vars
    BY <2>1, <2>2 DEF Write, vars
  <2>3. ASSUME NEW t \in Consumers, Consume(t)
        PROVE  gen' = "finished"
    <3>1. Free(t) => ~Busy
      BY DEF Free
    <3>2. CASE \E accepted \in BOOLEAN : Open(t, accepted)
      BY <2>1, <3>2 DEF Open
    <3>3. CASE \E op \in Used : Advance(t, op)
      BY <2>1, <3>3 DEF Advance
    <3>4. CASE \E op \in Used : AdvanceRefused(t, op)
      BY <3>1, <3>4 DEF AdvanceRefused, Used
    <3>5. CASE \E op \in Used : AdvanceFinished(t, op)
      BY <3>5 DEF AdvanceFinished
    <3>6. CASE CloseAgain(t)
      BY <2>1, <3>6 DEF CloseAgain
    <3>7. CASE CloseAtOnce(t)
      BY <3>7 DEF CloseAtOnce
    <3>8. CASE CloseRefused(t)
      BY <3>1, <3>8 DEF CloseRefused
    <3>9. CASE CloseStarts(t)
      BY <2>1, <3>9 DEF CloseStarts
    <3>10. "athrow" \notin Used
      BY DEF Used
    <3> QED
      BY <2>3, <3>2, <3>3, <3>4, <3>5, <3>6, <3>7, <3>8, <3>9, <3>10 DEF Consume
  <2>4. ASSUME NEW t \in Consumers, Body(t) \/ CloseIgnored(t)
        PROVE  gen' = "finished"
    <3>1. ASSUME NEW v \in Values, Yields(t, v)
          PROVE  FALSE
      BY <2>1, <3>1 DEF Yields, TypeOK
    <3>2. CASE \E e \in Exceptions : Raises(t, e)
      BY <3>2 DEF Raises
    <3>3. CASE Returns(t) \/ RaisesViolation(t) \/ Cancelled(t) \/ CloseEnds(t)
      BY <3>3 DEF Returns, RaisesViolation, Cancelled, CloseEnds
    <3>4. ~CloseIgnored(t)
      BY DEF CloseIgnored
    <3> QED
      BY <2>4, <3>1, <3>2, <3>3, <3>4 DEF Body
  <2> QED
    BY <2>2, <2>3, <2>4 DEF Next
<1> QED
  BY <1>1, <1>2, TypeCorrect, PTL DEF Spec
----------------------------------------------------------------------------
(* What consumers get *)

\* Whoever is inside the generator has no answer yet.
Pending == \A t \in Consumers : pc[t] # "idle" => got[t] = Nothing

\* A step of one consumer gives no other an answer.
LEMMA OthersWait ==
  ASSUME TypeOK, NEW t \in Consumers, Consume(t) \/ Body(t) \/ CloseIgnored(t)
  PROVE  \A u \in Consumers : u # t => pc'[u] = pc[u] /\ got'[u] = got[u]
BY DEF TypeOK, Finish, Consume, Body, Open, Advance, AdvanceRefused, AdvanceFinished,
   ThrowAfterExit, ThrowAtStart, CloseAgain, CloseAtOnce, CloseRefused, CloseStarts, Yields,
   Raises, Returns, RaisesViolation, Cancelled, CloseEnds, CloseIgnored

\* After it the consumer has an answer, or is inside the generator and has
\* none.
LEMMA AnswerOrNone ==
  ASSUME TypeOK, NEW t \in Consumers, Consume(t) \/ Body(t) \/ CloseIgnored(t)
  PROVE  pc'[t] = "idle" \/ got'[t] = Nothing
BY DEF TypeOK, Finish, Consume, Body, Open, Advance, AdvanceRefused, AdvanceFinished,
   ThrowAfterExit, ThrowAtStart, CloseAgain, CloseAtOnce, CloseRefused, CloseStarts, Yields,
   Raises, Returns, RaisesViolation, Cancelled, CloseEnds, CloseIgnored

LEMMA AlwaysPending == Spec => []Pending
<1>1. Init => Pending
  BY DEF Init, Pending
<1>2. TypeOK /\ Pending /\ [Next]_vars => Pending'
  <2> SUFFICES ASSUME TypeOK, Pending, [Next]_vars, NEW u \in Consumers, pc'[u] # "idle"
               PROVE  got'[u] = Nothing
    BY DEF Pending
  <2>1. CASE Write \/ UNCHANGED vars
    BY <2>1 DEF Write, vars, Pending
  <2>2. ASSUME NEW t \in Consumers, Consume(t) \/ Body(t) \/ CloseIgnored(t)
        PROVE  got'[u] = Nothing
    BY <2>2, OthersWait, AnswerOrNone DEF Pending
  <2> QED
    BY <2>1, <2>2 DEF Next
<1> QED
  BY <1>1, <1>2, TypeCorrect, PTL DEF Spec

\* What an advance of t ends with: a checked value, an exception that is
\* declared, or none of both.
Honest(t) ==
  /\ got'[t].kind = "value" => got'[t].value \in Accepted /\ ~broken'
  /\ got'[t].kind = "exception" => Declared(declares, got'[t].value)

\* Only what the body does answers the one who advances it.
LEMMA AdvanceAnswered ==
  ASSUME TypeOK, Pending, NEW t \in Consumers, pc[t] = "advance", [Next]_vars
  PROVE  Honest(t)
<1>1. CASE got'[t] = got[t]
  BY <1>1, Kinds DEF Pending, Honest
<1>2. ASSUME NEW x, Finish(t, x), broken' = broken,
             x.kind = "value" => x.value \in Accepted /\ ~broken,
             x.kind = "exception" => Declared(declares, x.value)
      PROVE  Honest(t)
  <2>1. got'[t] = x
    BY <1>2 DEF Finish, TypeOK
  <2> QED
    BY <1>2, <2>1 DEF Honest
<1>3. CASE Write \/ UNCHANGED vars
  BY <1>1, <1>3 DEF Write, vars
<1>4. ASSUME NEW u \in Consumers, u # t, Consume(u) \/ Body(u) \/ CloseIgnored(u)
      PROVE  Honest(t)
  BY <1>1, <1>4, OthersWait
<1>5. CASE Consume(t) \/ CloseIgnored(t)
  BY <1>5 DEF Consume, Open, Advance, AdvanceRefused, AdvanceFinished, ThrowAfterExit,
     ThrowAtStart, CloseAgain, CloseAtOnce, CloseRefused, CloseStarts, CloseIgnored, Free
<1>6. ASSUME NEW v \in Values, Yields(t, v)
      PROVE  Honest(t)
  BY <1>2, <1>6, SuccessChecked DEF Yields
<1>7. ASSUME NEW e \in Exceptions, Raises(t, e)
      PROVE  Honest(t)
  BY <1>2, <1>7, HandleChecked DEF Raises
<1>8. CASE Returns(t)
  BY <1>2, <1>8, VerifiedChecked, Kinds DEF Returns
<1>9. CASE RaisesViolation(t)
  BY <1>2, <1>9, Kinds DEF RaisesViolation
<1>10. CASE Cancelled(t)
  BY <1>2, <1>10, Kinds DEF Cancelled
<1>11. ~CloseEnds(t)
  BY DEF CloseEnds
<1> QED
  BY <1>3, <1>4, <1>5, <1>6, <1>7, <1>8, <1>9, <1>10, <1>11 DEF Next, Body

\* Each value a consumer gets has passed the postconditions, in a state of the
\* receiver that has passed the invariants, whatever other consumers do with
\* the generator in between (_advance).
THEOREM ValuesHonour == Spec => YieldHonoursContract
<1>1. TypeOK /\ Pending /\ [Next]_vars =>
        [\A t \in Consumers : pc[t] = "advance" /\ got'[t].kind = "value" =>
           got'[t].value \in Accepted /\ ~broken']_vars
  BY AdvanceAnswered DEF Honest
<1> QED
  BY <1>1, TypeCorrect, AlwaysPending, PTL DEF Spec, YieldHonoursContract

\* No exception reaches a consumer that advances the generator but those the
\* function declares (_handle_invocation_exception in _advance).
THEOREM OnlyDeclaredReach == Spec => AdvanceOnlyDeclared
<1>1. TypeOK /\ Pending /\ [Next]_vars =>
        [\A t \in Consumers : pc[t] = "advance" /\ got'[t].kind = "exception" =>
           Declared(declares, got'[t].value)]_vars
  BY AdvanceAnswered DEF Honest
<1> QED
  BY <1>1, TypeCorrect, AlwaysPending, PTL DEF Spec, AdvanceOnlyDeclared

\* What a consumer that ends the generator is told has been checked against
\* the invariants after the last code of the body.
LEMMA EndChecked ==
  ASSUME TypeOK, NEW t \in Consumers, gen # "finished", gen' = "finished", Next,
         got'[t] # got[t], got'[t].kind \in {"stop", "closed", "exception"}
  PROVE  ~broken'
<1>1. ASSUME NEW x, Finish(t, x), broken' = broken,
             x.kind \in {"stop", "closed", "exception"} => ~broken
      PROVE  ~broken'
  <2>1. got'[t] = x
    BY <1>1 DEF Finish, TypeOK
  <2> QED
    BY <1>1, <2>1
<1>2. ~Write
  BY DEF Write
<1>3. ASSUME NEW u \in Consumers, Consume(u) \/ Body(u) \/ CloseIgnored(u)
      PROVE  u = t
  BY <1>3, OthersWait
<1>4. CASE Consume(t)
  <2>1. PICK e \in Exceptions : ThrowAtStart(t, e) \/ CloseAtOnce(t)
    BY <1>4, GeneratorAssumption DEF Consume, Open, Advance, AdvanceRefused, AdvanceFinished,
       ThrowAfterExit, CloseAgain, CloseRefused, CloseStarts
  <2>2. CASE ThrowAtStart(t, e)
    BY <1>1, <2>2, HandleChecked DEF ThrowAtStart
  <2>3. CASE CloseAtOnce(t)
    BY <1>1, <2>3, VerifiedChecked DEF CloseAtOnce
  <2> QED
    BY <2>1, <2>2, <2>3
<1>5. ASSUME NEW e \in Exceptions, Raises(t, e)
      PROVE  ~broken'
  BY <1>1, <1>5, HandleChecked DEF Raises
<1>6. CASE Returns(t)
  BY <1>1, <1>6, VerifiedChecked DEF Returns
<1>7. CASE RaisesViolation(t)
  BY <1>1, <1>7, Kinds DEF RaisesViolation
<1>8. CASE Cancelled(t)
  BY <1>1, <1>8, Kinds DEF Cancelled
<1>9. CASE CloseEnds(t)
  <2>1. PICK x : Finish(t, Verified(broken, x))
    BY <1>9 DEF CloseEnds
  <2> QED
    BY <1>1, <1>9, <2>1, VerifiedChecked DEF CloseEnds
<1>10. ~CloseIgnored(t) /\ \A v \in Values : ~Yields(t, v)
  BY DEF CloseIgnored, Yields
<1> QED
  BY <1>2, <1>3, <1>4, <1>5, <1>6, <1>7, <1>8, <1>9, <1>10 DEF Next, Body

\* A consumer that sees the generator end otherwise than by a violation or an
\* abort leaves the receiver with its invariants true (the finally block of
\* aclose, the except clauses of _advance).
THEOREM EndsVerified == Spec => EndVerified
<1>1. TypeOK /\ [Next]_vars =>
        [\A t \in Consumers :
           gen # "finished" /\ gen' = "finished" /\ got'[t] # got[t]
           /\ got'[t].kind \in {"stop", "closed", "exception"} => ~broken']_vars
  BY EndChecked
<1> QED
  BY <1>1, TypeCorrect, PTL DEF Spec, EndVerified
----------------------------------------------------------------------------
(* Whoever closes the wrapper *)

\* A generator that outlives its aclose has a wrapper that is closed.
Outlived == exited => closed \/ gen \in {"closing", "finished"}

LEMMA AlwaysOutlived == Spec => []Outlived
<1>1. Init => Outlived
  BY DEF Init, Outlived
<1>2. TypeOK /\ Outlived /\ [Next]_vars => Outlived'
  <2> SUFFICES ASSUME TypeOK, Outlived, [Next]_vars PROVE Outlived'
    OBVIOUS
  <2>1. CASE Write \/ UNCHANGED vars
    BY <2>1 DEF Write, vars, Outlived
  <2>2. ASSUME NEW t \in Consumers, Consume(t)
        PROVE  Outlived'
    BY <2>2 DEF Outlived, Consume, Open, Advance, AdvanceRefused, AdvanceFinished,
       ThrowAfterExit, ThrowAtStart, CloseAgain, CloseAtOnce, CloseRefused, CloseStarts
  <2>3. ASSUME NEW t \in Consumers, Body(t) \/ CloseIgnored(t)
        PROVE  Outlived'
    <3>1. pc[t] = "advance" => gen = "running"
      BY DEF TypeOK
    <3> QED
      BY <2>3, <3>1 DEF Outlived, Body, Yields, Raises, Returns, RaisesViolation, Cancelled,
         CloseEnds, CloseIgnored
  <2> QED
    BY <2>1, <2>2, <2>3 DEF Next
<1> QED
  BY <1>1, <1>2, TypeCorrect, PTL DEF Spec

\* The consumer t is told of an error, and nobody else of anything.
Told(t) ==
  /\ pc'[t] = "idle" /\ got'[t].kind \in {"exception", "violation"}
  /\ \A u \in Consumers : u # t => pc'[u] = pc[u] /\ got'[u] = got[u]

LEMMA ClosingTold ==
  ASSUME TypeOK, Outlived, Next, ~closed, closed', gen' # "finished"
  PROVE  \E t \in Consumers : Told(t)
<1>1. ASSUME NEW t \in Consumers, Consume(t) \/ Body(t) \/ CloseIgnored(t),
             NEW x, Finish(t, x), x.kind \in {"exception", "violation"}
      PROVE  Told(t)
  <2>1. pc'[t] = "idle" /\ got'[t] = x
    BY <1>1 DEF Finish, TypeOK
  <2> QED
    BY <1>1, <2>1, OthersWait DEF Told
<1>2. ~Write
  BY DEF Write
<1>3. ASSUME NEW t \in Consumers, Consume(t)
      PROVE  Told(t)
  <2>1. (\E op \in Used : AdvanceRefused(t, op)) \/ CloseRefused(t)
    BY <1>3 DEF Outlived, Consume, Open, Advance, AdvanceFinished, ThrowAfterExit, ThrowAtStart,
       CloseAgain, CloseAtOnce, CloseStarts
  <2>2. CASE \E op \in Used : AdvanceRefused(t, op)
    BY <1>1, <1>3, <2>2, HandleChecked DEF AdvanceRefused
  <2>3. CASE CloseRefused(t)
    BY <1>1, <1>3, <2>3, VerifiedChecked, Kinds DEF CloseRefused
  <2> QED
    BY <2>1, <2>2, <2>3
<1>4. ASSUME NEW t \in Consumers, Body(t) \/ CloseIgnored(t)
      PROVE  Told(t)
  <2>1. CloseIgnored(t)
    BY <1>4 DEF Body, Yields, Raises, Returns, RaisesViolation, Cancelled, CloseEnds
  <2> QED
    BY <1>1, <1>4, <2>1, VerifiedChecked, Kinds DEF CloseIgnored
<1> QED
  BY <1>2, <1>3, <1>4 DEF Next

\* Consumers that share the generator or misuse it can close the wrapper of a
\* generator that lives on, but never without being told: an aclose that does
\* nothing comes after the last code of the body or after an error that the
\* one who closed the wrapper was given.
THEOREM AheadAlwaysTold == Spec => AheadIsTold
<1>1. TypeOK /\ Outlived /\ [Next]_vars =>
        [~closed /\ closed' /\ gen' # "finished" =>
           \E t \in Consumers :
             /\ pc'[t] = "idle" /\ got'[t].kind \in {"exception", "violation"}
             /\ \A u \in Consumers : u # t => pc'[u] = pc[u] /\ got'[u] = got[u]]_vars
  BY ClosingTold DEF Told
<1> QED
  BY <1>1, TypeCorrect, AlwaysOutlived, PTL DEF Spec, AheadIsTold
============================================================================
