------------------------- MODULE RustContractProofs -------------------------
(***************************************************************************)
(* Proofs about RustContract, for any functions, clauses, expressions,      *)
(* environments and nesting depth.                                          *)
(***************************************************************************)
EXTENDS RustContract, SequenceTheorems, TLAPS

\* The stack is a sequence of frames whose head is the innermost call.
LEMMA TopTyped ==
  ASSUME TypeOK, stack # <<>>
  PROVE  /\ Top \in FrameType /\ Top = stack[1]
         /\ Len(stack) \in 1 .. MaxDepth
         /\ Tail(stack) \in Seq(FrameType) /\ Len(Tail(stack)) = Len(stack) - 1
         /\ \A d \in 1 .. Len(Tail(stack)) : Tail(stack)[d] = stack[d + 1]
<1>1. stack \in Seq(FrameType) /\ Len(stack) <= MaxDepth /\ Len(stack) \in Nat
  BY LenProperties DEF TypeOK
<1>2. Len(stack) # 0
  BY <1>1, EmptySeq
<1>3. MaxDepth \in Nat
  BY RustBoundsAssumption
<1> QED
  BY <1>1, <1>2, <1>3, HeadTailProperties DEF Top

\* Pushing a frame on calls that are all in their bodies.
LEMMA PushTyped ==
  ASSUME NEW f \in FrameType, NEW s \in Seq(FrameType),
         \A d \in 1 .. Len(s) : s[d].phase = "body"
  PROVE  LET p == <<f>> \o s
         IN /\ p \in Seq(FrameType) /\ p # <<>> /\ Len(p) = Len(s) + 1
            /\ Head(p) = f /\ Tail(p) = s
            /\ \A d \in 2 .. Len(p) : p[d].phase = "body"
<1> DEFINE p == <<f>> \o s
<1>1. <<f>> \in Seq(FrameType) /\ Len(<<f>>) = 1 /\ <<f>>[1] = f
  OBVIOUS
<1>2. /\ p \in Seq(FrameType) /\ Len(p) = 1 + Len(s)
      /\ \A d \in 1 .. Len(p) : p[d] = IF d <= 1 THEN <<f>>[d] ELSE s[d - 1]
  BY <1>1, ConcatProperties
<1>3. Len(s) \in Nat
  BY LenProperties
<1>4. p # <<>>
  BY <1>2, <1>3, EmptySeq
<1>5. Head(p) = f /\ Tail(p) = s
  <2>1. Head(p) = p[1] /\ Tail(p) \in Seq(FrameType) /\ Len(Tail(p)) = Len(p) - 1
        /\ \A d \in 1 .. Len(Tail(p)) : Tail(p)[d] = p[d + 1]
    BY <1>2, <1>4, HeadTailProperties
  <2>2. \A d \in 1 .. Len(s) : Tail(p)[d] = s[d]
    BY <2>1, <1>2, <1>3
  <2> QED
    BY <2>1, <2>2, <1>1, <1>2, <1>3, SeqEqual
<1>6. ASSUME NEW d \in 2 .. Len(p)
      PROVE  p[d].phase = "body"
  <2>1. d - 1 \in 1 .. Len(s) /\ p[d] = s[d - 1]
    BY <1>2, <1>3
  <2> QED
    BY <2>1
<1> QED
  BY <1>2, <1>3, <1>4, <1>5, <1>6

\* Below the innermost call every call is in its body.
LEMMA TailInBodies ==
  ASSUME TypeOK, stack # <<>>
  PROVE  \A d \in 1 .. Len(Tail(stack)) : Tail(stack)[d].phase = "body"
<1> SUFFICES ASSUME NEW d \in 1 .. Len(Tail(stack))
             PROVE  Tail(stack)[d].phase = "body"
  OBVIOUS
<1>1. d + 1 \in 2 .. Len(stack) /\ Tail(stack)[d] = stack[d + 1]
  BY TopTyped
<1> QED
  BY <1>1 DEF TypeOK

\* Replacing the innermost frame.
LEMMA SetTopTyped ==
  ASSUME TypeOK, stack # <<>>, NEW f \in FrameType, SetTop(f)
  PROVE  /\ stack' \in Seq(FrameType) /\ stack' # <<>> /\ Len(stack') = Len(stack)
         /\ Head(stack') = f
         /\ \A d \in 2 .. Len(stack') : stack'[d].phase = "body"
<1> DEFINE s == Tail(stack)
<1>1. s \in Seq(FrameType) /\ Len(s) + 1 = Len(stack)
  BY TopTyped
<1>2. \A d \in 1 .. Len(s) : s[d].phase = "body"
  BY TailInBodies
<1>3. stack' = <<f>> \o s
  BY DEF SetTop
<1> HIDE DEF s
<1> QED
  BY <1>1, <1>2, <1>3, PushTyped

\* Ending the innermost call leaves the stack to a caller that is in its body.
LEMMA LeaveTyped ==
  ASSUME TypeOK, stack # <<>>, NEW x \in Outcomes, Leave(x)
  PROVE  TypeOK' /\ (stack' # <<>> => Head(stack').phase = "body")
<1>1. stack' \in Seq(FrameType) /\ Len(stack') = Len(stack) - 1 /\ Len(stack) \in 1 .. MaxDepth
  BY TopTyped DEF Leave
<1>2. \A d \in 1 .. Len(stack') : stack'[d].phase = "body"
  BY TailInBodies DEF Leave
<1>3. stack' # <<>> => Head(stack').phase = "body"
  <2>1. SUFFICES ASSUME stack' # <<>> PROVE Head(stack').phase = "body"
    OBVIOUS
  <2>2. Len(stack') # 0 /\ Head(stack') = stack'[1]
    BY <2>1, <1>1, EmptySeq, HeadTailProperties
  <2> QED
    BY <2>2, <1>1, <1>2
<1>4. Len(stack') <= MaxDepth
  BY <1>1, RustBoundsAssumption
<1>5. \A d \in 2 .. Len(stack') : stack'[d].phase = "body"
  BY <1>1, <1>2
<1>6. env' \in Environments /\ obj' \in States /\ outcome' \in Outcomes
  BY DEF TypeOK, Leave
<1> QED
  BY <1>1, <1>3, <1>4, <1>5, <1>6 DEF TypeOK

\* Replacing the innermost frame while nothing unwinds keeps the types.
LEMMA ReplaceTyped ==
  ASSUME TypeOK, stack # <<>>, NEW f \in FrameType, SetTop(f), ~Unwinding,
         env' = env, obj' = obj, outcome' \in {outcome, Nothing}
  PROVE  TypeOK'
<1>1. ~(outcome'.kind \in {"panic", "violation"})
  BY DEF Unwinding, Nothing
<1>2. outcome' \in Outcomes
  BY DEF TypeOK, Outcomes
<1> QED
  BY <1>1, <1>2, SetTopTyped DEF TypeOK
----------------------------------------------------------------------------

\* What a step hands out is an outcome, and a frame keeps to its fields.
LEMMA OutcomesTyped ==
  /\ Nothing \in Outcomes /\ Panic \in Outcomes
  /\ \A r \in Results : Returned(r) \in Outcomes
  /\ \A k \in ClauseKinds, f \in Fns : Violation(k, f) \in Outcomes
  BY DEF Outcomes

LEMMA FrameFields ==
  ASSUME NEW f \in FrameType
  PROVE  /\ f \in Frames /\ WellFormed(f)
         /\ f.fn \in Fns /\ f.phase \in Phases /\ f.todo \subseteq Clauses
         /\ f.val \in Args \cup Results /\ f.matched \in BOOLEAN
         /\ Contract[f.fn] \in ContractType
  BY RustContractAssumption DEF FrameType, Frames

LEMMA ClausesTyped ==
  ASSUME NEW f \in Fns
  PROVE  /\ Contract[f].pre \subseteq Clauses /\ Contract[f].post \subseteq Clauses
         /\ Contract[f].err \subseteq Clauses /\ Contract[f].inv \subseteq Clauses
  BY RustContractAssumption DEF ContractType

\* A call whose body is done has its postconditions to check, or nothing.
LEMMA ResultFrame ==
  ASSUME NEW f \in FrameType, ~f.matched, NEW r \in Results
  PROVE  LET g == [f EXCEPT !.phase = "post", !.val = r,
                            !.todo = IF r \in Errs THEN {} ELSE Contract[f.fn].post]
         IN /\ g \in FrameType /\ g.phase = "post" /\ g.val = r /\ g.fn = f.fn
            /\ g.todo = IF r \in Errs THEN {} ELSE Contract[f.fn].post
<1> DEFINE todo == IF r \in Errs THEN {} ELSE Contract[f.fn].post
           g == [f EXCEPT !.phase = "post", !.val = r, !.todo = todo]
<1>1. todo \subseteq Contract[f.fn].post /\ todo \subseteq Clauses
  BY FrameFields, ClausesTyped
<1> HIDE DEF todo
<1>2. /\ g \in Frames /\ g.phase = "post" /\ g.val = r /\ g.fn = f.fn
      /\ g.todo = todo /\ ~g.matched
  BY <1>1, FrameFields DEF Frames, Phases
<1> HIDE DEF g
<1>3. WellFormed(g)
  BY <1>1, <1>2 DEF WellFormed
<1> QED
  BY <1>2, <1>3 DEF FrameType, g, todo

\* A call with something to check, or with all of it checked, runs: no panic
\* is on its way through it.
LEMMA CheckingRuns ==
  ASSUME TypeOK, stack # <<>>, Top.phase # "body"
  PROVE  ~Unwinding
  BY DEF TypeOK, Unwinding, Top

\* Moving the innermost call to another phase, with clauses of that phase.
LEMMA GotoTyped ==
  ASSUME TypeOK, stack # <<>>, ~Unwinding, NEW phase \in Phases, NEW todo \in SUBSET Clauses,
         WellFormed([Top EXCEPT !.phase = phase, !.todo = todo]), Goto(phase, todo)
  PROVE  TypeOK' /\ Head(stack') = [Top EXCEPT !.phase = phase, !.todo = todo] /\ stack' # <<>>
<1> DEFINE f == [Top EXCEPT !.phase = phase, !.todo = todo]
<1>1. f \in FrameType
  BY TopTyped, FrameFields DEF FrameType, Frames
<1>2. SetTop(f) /\ UNCHANGED <<env, obj, outcome>>
  BY DEF Goto
<1> HIDE DEF f
<1>3. TypeOK'
  BY <1>1, <1>2, ReplaceTyped
<1> QED
  BY <1>1, <1>2, <1>3, SetTopTyped DEF f
----------------------------------------------------------------------------
(* Type correctness *)

LEMMA StepTyped ==
  TypeOK /\ [Next]_vars => TypeOK'
<1> SUFFICES ASSUME TypeOK, [Next]_vars PROVE TypeOK'
  OBVIOUS
<1>1. ASSUME NEW c \in Clauses, CheckPasses(c) PROVE TypeOK'
  <2>1. stack # <<>> /\ c \in Top.todo /\ Top.phase # "error" /\ Top.phase # "body"
    BY <1>1, TopTyped, FrameFields DEF CheckPasses, Evaluates, In, WellFormed
  <2>2. WellFormed([Top EXCEPT !.phase = Top.phase, !.todo = Top.todo \ {c}])
    BY <2>1, TopTyped, FrameFields DEF WellFormed, Frames
  <2>3. Top.phase \in Phases /\ Top.todo \ {c} \in SUBSET Clauses
    BY <2>1, TopTyped, FrameFields
  <2> QED
    BY <1>1, <2>1, <2>2, <2>3, CheckingRuns, GotoTyped DEF CheckPasses
<1>2. ASSUME NEW c \in Clauses, CheckFails(c) PROVE TypeOK'
  <2>1. stack # <<>> /\ Top \in FrameType /\ Top.fn \in Fns
    BY <1>2, TopTyped, FrameFields DEF CheckFails, Evaluates
  <2>2. Top.phase \in {"pre", "entry", "post", "exit"}
    BY <1>2, <2>1, FrameFields DEF CheckFails, Evaluates, In, WellFormed, Phases
  <2>3. KindOf(Top.phase) \in ClauseKinds
    BY <2>2 DEF KindOf, ClauseKinds
  <2>4. \E x \in Outcomes : Leave(x)
    BY <1>2, <2>1, <2>3, OutcomesTyped DEF CheckFails, ClauseKinds
  <2> QED
    BY <2>1, <2>4, LeaveTyped
<1>3. ASSUME NEW c \in Clauses, MatchError(c) PROVE TypeOK'
  <2>1. stack # <<>> /\ c \in Top.todo /\ Top.phase = "error" /\ Top \in FrameType
    BY <1>3, TopTyped DEF MatchError, Evaluates, In
  <2>2. ASSUME NEW b \in BOOLEAN,
               SetTop([Top EXCEPT !.todo = Top.todo \ {c}, !.matched = b]),
               UNCHANGED <<env, obj, outcome>>
        PROVE  TypeOK'
    <3> DEFINE f == [Top EXCEPT !.todo = Top.todo \ {c}, !.matched = b]
    <3>1. f \in FrameType
      BY <2>1, FrameFields DEF FrameType, Frames, WellFormed
    <3> HIDE DEF f
    <3> QED
      BY <2>1, <2>2, <3>1, CheckingRuns, ReplaceTyped DEF f
  <2>3. CASE \E x \in {Panic, Violation("nested", Top.fn)} : Leave(x)
    BY <2>1, <2>3, FrameFields, OutcomesTyped, LeaveTyped DEF ClauseKinds
  <2>4. CASE SetTop([Top EXCEPT !.todo = @ \ {c},
                                !.matched = @ \/ Eval(c, obj, Top.val) = "true"])
             /\ UNCHANGED <<env, obj, outcome>>
    <3>1. (Top.matched \/ Eval(c, obj, Top.val) = "true") \in BOOLEAN
      OBVIOUS
    <3> QED
      BY <2>2, <2>4, <3>1
  <2> QED
    BY <1>3, <2>3, <2>4 DEF MatchError
<1>4. ASSUME StartEntry PROVE TypeOK'
  <2>1. stack # <<>> /\ Top.phase = "pre" /\ Top \in FrameType
    BY <1>4, TopTyped DEF StartEntry, Done, In
  <2>2. WellFormed([Top EXCEPT !.phase = "entry", !.todo = Contract[Top.fn].inv])
    BY <2>1, FrameFields DEF WellFormed, Frames
  <2> QED
    BY <1>4, <2>1, <2>2, FrameFields, ClausesTyped, CheckingRuns, GotoTyped DEF StartEntry, Phases
<1>5. ASSUME StartBody PROVE TypeOK'
  <2>1. stack # <<>> /\ Top.phase = "entry" /\ Top \in FrameType
    BY <1>5, TopTyped DEF StartBody, Done, In
  <2>2. WellFormed([Top EXCEPT !.phase = "body", !.todo = {}])
    BY <2>1, FrameFields DEF WellFormed, Frames
  <2> QED
    BY <1>5, <2>1, <2>2, CheckingRuns, GotoTyped DEF StartBody, Phases
<1>6. ASSUME StartError PROVE TypeOK'
  <2>1. stack # <<>> /\ Top.phase = "post" /\ Top \in FrameType /\ Top.val \in Errs
    BY <1>6, TopTyped DEF StartError, Done, In
  <2>2. WellFormed([Top EXCEPT !.phase = "error", !.todo = Contract[Top.fn].err])
    BY <2>1, FrameFields DEF WellFormed, Frames
  <2> QED
    BY <1>6, <2>1, <2>2, FrameFields, ClausesTyped, CheckingRuns, GotoTyped DEF StartError, Phases
<1>7. ASSUME StartExit PROVE TypeOK'
  <2>1. stack # <<>> /\ Top.phase \in {"post", "error"} /\ Top \in FrameType
    BY <1>7, TopTyped DEF StartExit, Done, In
  <2>2. WellFormed([Top EXCEPT !.phase = "exit", !.todo = Contract[Top.fn].inv])
    BY <2>1, FrameFields DEF WellFormed, Frames
  <2> QED
    BY <1>7, <2>1, <2>2, FrameFields, ClausesTyped, CheckingRuns, GotoTyped DEF StartExit, Phases
<1>8. ASSUME NoMatch PROVE TypeOK'
  BY <1>8, TopTyped, FrameFields, OutcomesTyped, LeaveTyped DEF NoMatch, Done, In, ClauseKinds
<1>9. ASSUME Return PROVE TypeOK'
  <2>1. stack # <<>> /\ Top.val \in Results
    BY <1>9, TopTyped, FrameFields DEF Return, Done, In, WellFormed
  <2> QED
    BY <1>9, <2>1, OutcomesTyped, LeaveTyped DEF Return
<1>10. ASSUME Unwind PROVE TypeOK'
  <2>1. stack # <<>> /\ Top.fn \in Fns /\ outcome \in Outcomes
    BY <1>10, TopTyped, FrameFields DEF Unwind, In, TypeOK
  <2> QED
    BY <1>10, <2>1, OutcomesTyped, LeaveTyped DEF Unwind, ClauseKinds
<1>11. ASSUME NEW f \in Fns, NEW a \in Args, Call(f, a) PROVE TypeOK'
  <2> DEFINE g == [fn |-> f, val |-> a, matched |-> FALSE,
                   phase |-> IF Enabled THEN "pre" ELSE "body",
                   todo |-> IF Enabled THEN Contract[f].pre ELSE {}]
  <2>1. g \in FrameType
    BY ClausesTyped DEF FrameType, Frames, WellFormed, Phases
  <2>2. \A d \in 1 .. Len(stack) : stack[d].phase = "body"
    <3>1. CASE stack = <<>>
      BY <3>1
    <3>2. CASE stack # <<>>
      <4>1. stack[1].phase = "body" /\ Len(stack) \in Nat
        BY <1>11, <3>2, TopTyped DEF Call, UserCode, InBody
      <4> QED
        BY <4>1 DEF TypeOK
    <3> QED
      BY <3>1, <3>2
  <2>3. stack' = <<g>> \o stack /\ stack \in Seq(FrameType) /\ Len(stack) < MaxDepth
    BY <1>11 DEF Call, TypeOK
  <2> HIDE DEF g
  <2>4. stack' \in Seq(FrameType) /\ Len(stack') = Len(stack) + 1
        /\ \A d \in 2 .. Len(stack') : stack'[d].phase = "body"
    BY <2>1, <2>2, <2>3, PushTyped
  <2>5. Len(stack) \in Nat /\ MaxDepth \in Nat
    BY <2>3, LenProperties, RustBoundsAssumption
  <2>6. outcome' = Nothing /\ env' = env /\ obj' = obj
    BY <1>11 DEF Call
  <2> QED
    BY <2>3, <2>4, <2>5, <2>6, OutcomesTyped DEF TypeOK, Nothing
<1>12. ASSUME NEW s \in States, BodyWrite(s) PROVE TypeOK'
  BY <1>12 DEF BodyWrite, TypeOK
<1>13. ASSUME NEW r \in Results, BodyReturn(r) PROVE TypeOK'
  <2>1. stack # <<>> /\ Top \in FrameType /\ ~Unwinding /\ ~Top.matched
    BY <1>13, TopTyped, FrameFields DEF BodyReturn, In, UserCode, WellFormed
  <2>2. CASE Enabled
    <3> DEFINE g == [Top EXCEPT !.phase = "post", !.val = r,
                                !.todo = IF r \in Errs THEN {} ELSE Contract[Top.fn].post]
    <3>1. g \in FrameType
      BY <2>1, ResultFrame
    <3>2. SetTop(g) /\ outcome' = Nothing /\ UNCHANGED <<env, obj>>
      BY <1>13, <2>2 DEF BodyReturn
    <3> HIDE DEF g
    <3> QED
      BY <2>1, <3>1, <3>2, ReplaceTyped
  <2>3. CASE ~Enabled
    BY <1>13, <2>1, <2>3, OutcomesTyped, LeaveTyped DEF BodyReturn
  <2> QED
    BY <2>2, <2>3
<1>14. ASSUME BodyPanics PROVE TypeOK'
  BY <1>14, OutcomesTyped DEF BodyPanics, TypeOK, UserCode, InBody, Top
<1>15. ASSUME Catch PROVE TypeOK'
  BY <1>15, OutcomesTyped DEF Catch, TypeOK, Nothing
<1>16. ASSUME NEW e \in Environments, SetEnv(e) PROVE TypeOK'
  BY <1>16 DEF SetEnv, TypeOK
<1>17. ASSUME UNCHANGED vars PROVE TypeOK'
  BY <1>17 DEF vars, TypeOK
<1> QED
  BY <1>1, <1>2, <1>3, <1>4, <1>5, <1>6, <1>7, <1>8, <1>9, <1>10, <1>11, <1>12, <1>13,
     <1>14, <1>15, <1>16, <1>17 DEF Next, Expansion, User

\* Reachable states are well typed; every call below the innermost one is in
\* its body, and so is the innermost one while a panic unwinds.
THEOREM TypeCorrect == Spec => []TypeOK
<1>1. Init => TypeOK
  <2> SUFFICES ASSUME Init PROVE TypeOK
    OBVIOUS
  <2>1. stack \in Seq(FrameType) /\ Len(stack) = 0
    BY DEF Init
  <2>2. MaxDepth \in Nat
    BY RustBoundsAssumption
  <2> QED
    BY <2>1, <2>2, OutcomesTyped DEF Init, TypeOK, Nothing
<1> QED
  BY <1>1, StepTyped, PTL DEF Spec
----------------------------------------------------------------------------
(* Violations keep their blame *)

\* A violation that unwinds leaves each caller as it was raised, panic_free
\* callers included, until user code catches it.
THEOREM BlameKept == Spec => ViolationKeepsBlame
<1> DEFINE Kept == outcome.kind = "violation" /\ outcome' # outcome
                     => stack' = stack /\ outcome' = Nothing
<1>1. TypeOK /\ [Next]_vars => Kept
  <2> SUFFICES ASSUME TypeOK, Next, outcome.kind = "violation", outcome' # outcome
               PROVE  stack' = stack /\ outcome' = Nothing
    BY DEF vars
  <2>1. Unwinding /\ outcome # Panic
    BY DEF Unwinding, Panic
  <2>2. stack # <<>> => Top.phase = "body" /\ Top.todo = {}
    BY TopTyped, FrameFields DEF TypeOK, WellFormed, Top
  <2>3. \A c \in Clauses : ~CheckPasses(c) /\ ~CheckFails(c) /\ ~MatchError(c)
    BY <2>2 DEF CheckPasses, CheckFails, MatchError, Evaluates
  <2>4. ~StartEntry /\ ~StartBody /\ ~StartError /\ ~StartExit /\ ~NoMatch /\ ~Return
    BY <2>2 DEF StartEntry, StartBody, StartError, StartExit, NoMatch, Return, Done, In
  <2>5. ~Unwind
    BY <2>1 DEF Unwind, Leave
  <2>6. \A f \in Fns, a \in Args : ~Call(f, a)
    BY <2>1 DEF Call, UserCode
  <2>7. (\A r \in Results : ~BodyReturn(r)) /\ ~BodyPanics
    BY <2>1 DEF BodyReturn, BodyPanics, UserCode
  <2>8. (\A s \in States : ~BodyWrite(s)) /\ (\A e \in Environments : ~SetEnv(e))
    BY DEF BodyWrite, SetEnv
  <2>9. Catch
    BY <2>3, <2>4, <2>5, <2>6, <2>7, <2>8 DEF Next, Expansion, User
  <2> QED
    BY <2>9 DEF Catch
<1> QED
  BY <1>1, TypeCorrect, PTL DEF Spec, ViolationKeepsBlame
----------------------------------------------------------------------------
(* What was checked stands *)

\* The caller that a call leaves to is in its body: nothing is checked yet.
LEMMA LeaveStands ==
  ASSUME TypeOK, stack # <<>>, NEW x \in Outcomes, Leave(x)
  PROVE  ChecksStand'
<1>1. stack' # <<>> => Head(stack').phase = "body"
  BY LeaveTyped
<1> QED
  BY <1>1 DEF ChecksStand, Standing, Top

LEMMA StepStands ==
  TypeOK /\ ChecksStand /\ [Next]_vars => ChecksStand'
<1> SUFFICES ASSUME TypeOK, ChecksStand, [Next]_vars PROVE ChecksStand'
  OBVIOUS
<1>1. ASSUME NEW c \in Clauses, CheckPasses(c) PROVE ChecksStand'
  <2>1. /\ stack # <<>> /\ c \in Top.todo /\ Top.phase # "error" /\ Top.phase # "body"
        /\ Top \in FrameType /\ Eval(c, obj, Top.val) = "true"
    BY <1>1, TopTyped, FrameFields DEF CheckPasses, Evaluates, In, WellFormed
  <2>2. WellFormed([Top EXCEPT !.phase = Top.phase, !.todo = Top.todo \ {c}])
    BY <2>1, FrameFields DEF WellFormed, Frames
  <2>3. Top.phase \in Phases /\ Top.todo \ {c} \in SUBSET Clauses
    BY <2>1, FrameFields
  <2>4. Head(stack') = [Top EXCEPT !.phase = Top.phase, !.todo = Top.todo \ {c}]
    BY <1>1, <2>1, <2>2, <2>3, CheckingRuns, GotoTyped DEF CheckPasses
  <2>5. obj' = obj
    BY <1>1 DEF CheckPasses, Goto
  <2>6. Standing(Top)
    BY <2>1 DEF ChecksStand
  <2>7. /\ Top'.fn = Top.fn /\ Top'.phase = Top.phase /\ Top'.todo = Top.todo \ {c}
        /\ Top'.val = Top.val /\ Top'.matched = Top.matched
    BY <2>1, <2>4, FrameFields DEF Top, Frames
  <2> QED
    BY <2>1, <2>5, <2>6, <2>7 DEF ChecksStand, Standing
<1>2. ASSUME NEW c \in Clauses, CheckFails(c) PROVE ChecksStand'
  <2>1. stack # <<>> /\ Top \in FrameType /\ Top.fn \in Fns
    BY <1>2, TopTyped, FrameFields DEF CheckFails, Evaluates
  <2>2. Top.phase \in {"pre", "entry", "post", "exit"}
    BY <1>2, <2>1, FrameFields DEF CheckFails, Evaluates, In, WellFormed, Phases
  <2>3. KindOf(Top.phase) \in ClauseKinds
    BY <2>2 DEF KindOf, ClauseKinds
  <2>4. \E x \in Outcomes : Leave(x)
    BY <1>2, <2>1, <2>3, OutcomesTyped DEF CheckFails, ClauseKinds
  <2> QED
    BY <2>1, <2>4, LeaveStands
<1>3. ASSUME NEW c \in Clauses, MatchError(c) PROVE ChecksStand'
  <2>1. stack # <<>> /\ c \in Top.todo /\ Top.phase = "error" /\ Top \in FrameType
    BY <1>3, TopTyped DEF MatchError, Evaluates, In
  <2>2. CASE \E x \in {Panic, Violation("nested", Top.fn)} : Leave(x)
    BY <2>1, <2>2, FrameFields, OutcomesTyped, LeaveStands DEF ClauseKinds
  <2>3. CASE SetTop([Top EXCEPT !.todo = @ \ {c},
                                !.matched = @ \/ Eval(c, obj, Top.val) = "true"])
             /\ UNCHANGED <<env, obj, outcome>>
    <3> DEFINE f == [Top EXCEPT !.todo = Top.todo \ {c},
                                !.matched = Top.matched \/ Eval(c, obj, Top.val) = "true"]
    <3>1. f \in FrameType
      BY <2>1, FrameFields DEF FrameType, Frames, WellFormed
    <3>2. SetTop(f)
      BY <2>3
    <3>3. /\ f.fn = Top.fn /\ f.phase = "error" /\ f.val = Top.val
          /\ f.matched <=> Top.matched \/ Eval(c, obj, Top.val) = "true"
      BY <2>1, FrameFields DEF Frames
    <3> HIDE DEF f
    <3>4. Head(stack') = f
      BY <2>1, <3>1, <3>2, SetTopTyped
    <3>5. c \in Contract[Top.fn].err
      BY <2>1, FrameFields DEF WellFormed
    <3>6. Standing(Top)
      BY <2>1 DEF ChecksStand
    <3> QED
      BY <2>1, <2>3, <3>3, <3>4, <3>5, <3>6 DEF ChecksStand, Standing, Top
  <2> QED
    BY <1>3, <2>2, <2>3 DEF MatchError
<1>4. ASSUME StartEntry PROVE ChecksStand'
  <2>1. stack # <<>> /\ Top.phase = "pre" /\ Top \in FrameType
    BY <1>4, TopTyped DEF StartEntry, Done, In
  <2>2. WellFormed([Top EXCEPT !.phase = "entry", !.todo = Contract[Top.fn].inv])
    BY <2>1, FrameFields DEF WellFormed, Frames
  <2>3. Head(stack') = [Top EXCEPT !.phase = "entry", !.todo = Contract[Top.fn].inv]
    BY <1>4, <2>1, <2>2, FrameFields, ClausesTyped, CheckingRuns, GotoTyped DEF StartEntry, Phases
  <2>4. Top'.phase = "entry"
    BY <2>1, <2>3, FrameFields DEF Top, Frames
  <2> QED
    BY <2>4 DEF ChecksStand, Standing
<1>5. ASSUME StartBody PROVE ChecksStand'
  <2>1. stack # <<>> /\ Top.phase = "entry" /\ Top \in FrameType
    BY <1>5, TopTyped DEF StartBody, Done, In
  <2>2. WellFormed([Top EXCEPT !.phase = "body", !.todo = {}])
    BY <2>1, FrameFields DEF WellFormed, Frames
  <2>3. Head(stack') = [Top EXCEPT !.phase = "body", !.todo = {}]
    BY <1>5, <2>1, <2>2, CheckingRuns, GotoTyped DEF StartBody, Phases
  <2>4. Top'.phase = "body"
    BY <2>1, <2>3, FrameFields DEF Top, Frames
  <2> QED
    BY <2>4 DEF ChecksStand, Standing
<1>6. ASSUME StartError PROVE ChecksStand'
  <2>1. stack # <<>> /\ Top.phase = "post" /\ Top \in FrameType /\ Top.val \in Errs
    BY <1>6, TopTyped DEF StartError, Done, In
  <2>2. WellFormed([Top EXCEPT !.phase = "error", !.todo = Contract[Top.fn].err])
    BY <2>1, FrameFields DEF WellFormed, Frames
  <2>3. Head(stack') = [Top EXCEPT !.phase = "error", !.todo = Contract[Top.fn].err]
    BY <1>6, <2>1, <2>2, FrameFields, ClausesTyped, CheckingRuns, GotoTyped DEF StartError, Phases
  <2>4. Top'.phase = "error" /\ ~Top'.matched
    BY <2>1, <2>3, FrameFields DEF Top, Frames, WellFormed
  <2> QED
    BY <2>4 DEF ChecksStand, Standing
<1>7. ASSUME StartExit PROVE ChecksStand'
  <2>1. stack # <<>> /\ Top.phase \in {"post", "error"} /\ Top \in FrameType /\ Top.todo = {}
    BY <1>7, TopTyped DEF StartExit, Done, In
  <2>2. WellFormed([Top EXCEPT !.phase = "exit", !.todo = Contract[Top.fn].inv])
    BY <2>1, FrameFields DEF WellFormed, Frames
  <2>3. Head(stack') = [Top EXCEPT !.phase = "exit", !.todo = Contract[Top.fn].inv]
    BY <1>7, <2>1, <2>2, FrameFields, ClausesTyped, CheckingRuns, GotoTyped DEF StartExit, Phases
  <2>4. /\ Top'.phase = "exit" /\ Top'.todo = Contract[Top.fn].inv
        /\ Top'.fn = Top.fn /\ Top'.val = Top.val
    BY <2>1, <2>3, FrameFields DEF Top, Frames
  <2>5. obj' = obj
    BY <1>7 DEF StartExit, Goto
  <2>6. Standing(Top)
    BY <2>1 DEF ChecksStand
  <2>7. CASE Top.phase = "post" /\ (Top.val \notin Errs \/ Contract[Top.fn].err = {})
    BY <2>1, <2>4, <2>5, <2>6, <2>7 DEF ChecksStand, Standing
  <2>8. CASE Top.phase = "error" /\ Top.matched
    <3>1. Top.val \in Errs
      BY <2>1, <2>8, FrameFields DEF WellFormed
    <3> QED
      BY <3>1, <2>4, <2>5, <2>6, <2>8 DEF ChecksStand, Standing
  <2> QED
    BY <1>7, <2>7, <2>8 DEF StartExit, Done, In
<1>8. ASSUME NoMatch PROVE ChecksStand'
  BY <1>8, TopTyped, FrameFields, OutcomesTyped, LeaveStands DEF NoMatch, Done, In, ClauseKinds
<1>9. ASSUME Return PROVE ChecksStand'
  <2>1. stack # <<>> /\ Top.val \in Results
    BY <1>9, TopTyped, FrameFields DEF Return, Done, In, WellFormed
  <2> QED
    BY <1>9, <2>1, OutcomesTyped, LeaveStands DEF Return
<1>10. ASSUME Unwind PROVE ChecksStand'
  <2>1. stack # <<>> /\ Top.fn \in Fns /\ outcome \in Outcomes
    BY <1>10, TopTyped, FrameFields DEF Unwind, In, TypeOK
  <2> QED
    BY <1>10, <2>1, OutcomesTyped, LeaveStands DEF Unwind, ClauseKinds
<1>11. ASSUME NEW f \in Fns, NEW a \in Args, Call(f, a) PROVE ChecksStand'
  <2> DEFINE g == [fn |-> f, val |-> a, matched |-> FALSE,
                   phase |-> IF Enabled THEN "pre" ELSE "body",
                   todo |-> IF Enabled THEN Contract[f].pre ELSE {}]
  <2>1. g \in FrameType /\ g.phase \in {"pre", "body"}
    BY ClausesTyped DEF FrameType, Frames, WellFormed, Phases
  <2>2. stack' = <<g>> \o stack
    BY <1>11 DEF Call
  <2>3. stack \in Seq(FrameType) /\ \A d \in 1 .. Len(stack) : stack[d].phase = "body"
    <3>1. CASE stack = <<>>
      BY <3>1 DEF TypeOK
    <3>2. CASE stack # <<>>
      <4>1. stack[1].phase = "body" /\ Len(stack) \in Nat
        BY <1>11, <3>2, TopTyped DEF Call, UserCode, InBody
      <4> QED
        BY <4>1 DEF TypeOK
    <3> QED
      BY <3>1, <3>2
  <2> HIDE DEF g
  <2>4. Head(stack') = g
    BY <2>1, <2>2, <2>3, PushTyped
  <2> QED
    BY <2>1, <2>4 DEF ChecksStand, Standing, Top
<1>12. ASSUME NEW s \in States, BodyWrite(s) PROVE ChecksStand'
  <2>1. stack' = stack /\ (stack # <<>> => Top.phase = "body")
    BY <1>12 DEF BodyWrite, InBody
  <2> QED
    BY <2>1 DEF ChecksStand, Standing, Top
<1>13. ASSUME NEW r \in Results, BodyReturn(r) PROVE ChecksStand'
  <2>1. stack # <<>> /\ Top \in FrameType /\ ~Unwinding /\ ~Top.matched
    BY <1>13, TopTyped, FrameFields DEF BodyReturn, In, UserCode, WellFormed
  <2>2. CASE Enabled
    <3> DEFINE g == [Top EXCEPT !.phase = "post", !.val = r,
                                !.todo = IF r \in Errs THEN {} ELSE Contract[Top.fn].post]
    <3>1. g \in FrameType /\ g.phase = "post" /\ g.val = r /\ g.fn = Top.fn
          /\ g.todo = IF r \in Errs THEN {} ELSE Contract[Top.fn].post
      BY <2>1, ResultFrame
    <3>2. SetTop(g)
      BY <1>13, <2>2 DEF BodyReturn
    <3>3. r \notin Errs => g.todo = Contract[Top.fn].post
      BY <3>1
    <3> HIDE DEF g
    <3>4. Head(stack') = g
      BY <2>1, <3>1, <3>2, SetTopTyped
    <3> QED
      BY <3>1, <3>3, <3>4 DEF ChecksStand, Standing, Top
  <2>3. CASE ~Enabled
    BY <1>13, <2>1, <2>3, OutcomesTyped, LeaveStands DEF BodyReturn
  <2> QED
    BY <2>2, <2>3
<1>14. ASSUME UNCHANGED <<obj, stack>> PROVE ChecksStand'
  BY <1>14 DEF ChecksStand, Standing, Top
<1> QED
  BY <1>1, <1>2, <1>3, <1>4, <1>5, <1>6, <1>7, <1>8, <1>9, <1>10, <1>11, <1>12, <1>13, <1>14
  DEF Next, Expansion, User, BodyPanics, Catch, SetEnv, vars

\* From the end of a body to the return, what was checked stays so.
THEOREM ChecksAlwaysStand == Spec => []ChecksStand
<1>1. Init => ChecksStand
  BY DEF Init, ChecksStand
<1> QED
  BY <1>1, StepStands, TypeCorrect, PTL DEF Spec

\* The steps that end a call.
LEMMA EndsBy ==
  ASSUME TypeOK, [Next]_vars, Ends
  PROVE  /\ stack # <<>> /\ Top \in FrameType
         /\ \/ \E c \in Clauses : CheckFails(c) \/ MatchError(c)
            \/ NoMatch \/ Return \/ Unwind
            \/ \E r \in Results : BodyReturn(r) /\ ~Enabled
<1>1. Len(stack) \in Nat /\ Len(stack') \in Nat /\ Len(stack') < Len(stack)
  BY StepTyped, LenProperties DEF TypeOK, Ends
<1>2. stack # <<>>
  BY <1>1
<1>3. ASSUME NEW g, SetTop(g) PROVE FALSE
  BY <1>1, <1>2, <1>3, TopTyped DEF SetTop
<1>4. stack' # stack
  BY <1>1
<1>5. \A c \in Clauses : ~CheckPasses(c)
  BY <1>3 DEF CheckPasses, Goto
<1>6. ~StartEntry /\ ~StartBody /\ ~StartError /\ ~StartExit
  BY <1>3 DEF StartEntry, StartBody, StartError, StartExit, Goto
<1>7. ~BodyPanics /\ ~Catch
  BY <1>4 DEF BodyPanics, Catch
<1>8. (\A s \in States : ~BodyWrite(s)) /\ (\A e \in Environments : ~SetEnv(e))
  BY <1>4 DEF BodyWrite, SetEnv
<1>9. ASSUME NEW f \in Fns, NEW a \in Args, Call(f, a) PROVE FALSE
  BY <1>1, <1>9 DEF Call, TypeOK
<1>10. \A r \in Results : BodyReturn(r) => ~Enabled
  BY <1>3 DEF BodyReturn
<1>11. ~UNCHANGED vars
  BY <1>4 DEF vars
<1> QED
  BY <1>2, <1>5, <1>6, <1>7, <1>8, <1>9, <1>10, <1>11, TopTyped DEF Next, Expansion, User

\* A result that comes back after checks honours the whole contract, Err as
\* well as Ok.
THEOREM ReturnsHonour == Spec => ReturnHonoursContract
<1> DEFINE Honours ==
      Ends /\ outcome'.kind = "return" /\ Top.phase # "body" =>
        LET C == Contract[Top.fn]
            True(c) == Eval(c, obj', outcome'.value) = "true"
        IN /\ outcome'.value \notin Errs => \A c \in C.post : True(c)
           /\ outcome'.value \in Errs /\ C.err # {} => \E c \in C.err : True(c)
           /\ \A c \in C.inv : True(c)
<1>1. TypeOK /\ ChecksStand /\ [Next]_vars => Honours
  <2> SUFFICES ASSUME TypeOK, ChecksStand, Next, Ends,
                      outcome'.kind = "return", Top.phase # "body"
               PROVE  Honours
    BY DEF vars, Ends
  <2>1. Return
    <3>1. \A c \in Clauses : ~CheckFails(c)
      BY DEF CheckFails, Leave, Panic, Violation
    <3>2. \A c \in Clauses : ~MatchError(c)
      <4>1. ASSUME NEW g, SetTop(g) PROVE FALSE
        BY <4>1, EndsBy, TopTyped DEF SetTop, Ends
      <4> QED
        BY <4>1 DEF MatchError, Leave, Panic, Violation
    <3>3. ~NoMatch /\ ~Unwind
      BY DEF NoMatch, Leave, Violation, Unwind, In
    <3>4. \A r \in Results : ~BodyReturn(r)
      BY DEF BodyReturn, In
    <3> QED
      BY <3>1, <3>2, <3>3, <3>4, EndsBy
  <2>2. /\ stack # <<>> /\ Top.phase = "exit" /\ Top.todo = {}
        /\ outcome' = Returned(Top.val) /\ obj' = obj
    BY <2>1 DEF Return, Done, In, Leave
  <2>3. Standing(Top) /\ outcome'.value = Top.val
    BY <2>2 DEF ChecksStand, Returned
  <2> QED
    BY <2>2, <2>3 DEF Standing
<1> QED
  BY <1>1, TypeCorrect, ChecksAlwaysStand, PTL DEF Spec, ReturnHonoursContract
----------------------------------------------------------------------------
(* Nothing is checked where checking is off *)

LEMMA BuildStays ==
  ASSUME TypeOK, [Next]_vars
  PROVE  env'.compiledIn = env.compiledIn
<1>1. CASE UNCHANGED env
  BY <1>1
<1>2. CASE \E e \in Environments : SetEnv(e)
  BY <1>2 DEF SetEnv
<1> QED
  BY <1>1, <1>2 DEF Next, Expansion, User, CheckPasses, CheckFails, MatchError, StartEntry, StartBody,
     StartError, StartExit, NoMatch, Return, Unwind, Call, BodyWrite, BodyReturn, BodyPanics, Catch,
     Leave, Goto, vars

\* It is enough to look at the innermost call.
LEMMA OffIff ==
  ASSUME TypeOK, NeverOn
  PROVE  OffOnlyConverts <=>
           /\ stack # <<>> => Top.phase = "body"
           /\ outcome.kind = "violation" =>
                outcome.clause = "panic" /\ Contract[outcome.by].panicFree
<1>1. Len(stack) \in Nat /\ (stack # <<>> => Top = stack[1] /\ Len(stack) >= 1)
  BY TopTyped DEF TypeOK
<1>2. (stack # <<>> => Top.phase = "body") <=> \A d \in 1 .. Len(stack) : stack[d].phase = "body"
  BY <1>1 DEF TypeOK
<1> QED
  BY <1>2 DEF OffOnlyConverts

LEMMA StepOff ==
  ASSUME TypeOK, OffOnlyConverts, [Next]_vars
  PROVE  OffOnlyConverts'
<1> SUFFICES ASSUME NeverOn'
             PROVE  OffOnlyConverts'
  BY DEF OffOnlyConverts
<1>0. NeverOn
  <2>1. env'.compiledIn = env.compiledIn
    BY BuildStays
  <2> QED
    BY <2>1 DEF NeverOn
<1>1. TypeOK'
  BY StepTyped
<1>2. /\ stack # <<>> => Top.phase = "body" /\ Top.todo = {} /\ Top.fn \in Fns
      /\ outcome.kind = "violation" => outcome.clause = "panic" /\ Contract[outcome.by].panicFree
  BY <1>0, OffIff, TopTyped, FrameFields DEF WellFormed
<1>3. ~Enabled
  BY <1>0 DEF NeverOn, Enabled, TypeOK
<1>4. ASSUME /\ stack' # <<>> => Head(stack').phase = "body"
             /\ outcome'.kind = "violation" =>
                  outcome'.clause = "panic" /\ Contract[outcome'.by].panicFree
      PROVE  OffOnlyConverts'
  <2>1. Len(stack') \in Nat /\ \A d \in 2 .. Len(stack') : stack'[d].phase = "body"
    BY <1>1, LenProperties DEF TypeOK
  <2>2. ASSUME NEW d \in 1 .. Len(stack')
        PROVE  stack'[d].phase = "body"
    <3>1. stack' # <<>>
      BY <2>1, <2>2
    <3>2. Head(stack') = stack'[1]
      BY <1>1, <3>1 DEF TypeOK
    <3> QED
      BY <1>4, <2>1, <3>1, <3>2
  <2> QED
    BY <1>4, <2>2 DEF OffOnlyConverts
<1>5. ASSUME NEW x \in Outcomes, stack # <<>>, Leave(x),
             x.kind = "violation" => x.clause = "panic" /\ Contract[x.by].panicFree
      PROVE  OffOnlyConverts'
  BY <1>4, <1>5, LeaveTyped DEF Leave
<1>6. CASE Unwind
  <2>1. stack # <<>> /\ outcome \in Outcomes /\ Top.fn \in Fns
    BY <1>2, <1>6 DEF Unwind, In, TypeOK
  <2> QED
    BY <1>2, <1>5, <1>6, <2>1, OutcomesTyped DEF Unwind, Violation, ClauseKinds
<1>7. ASSUME NEW r \in Results, BodyReturn(r)
      PROVE  OffOnlyConverts'
  BY <1>3, <1>5, <1>7, OutcomesTyped DEF BodyReturn, In, Returned
<1>8. ASSUME NEW f \in Fns, NEW a \in Args, Call(f, a)
      PROVE  OffOnlyConverts'
  <2>1. Head(stack').phase = "body" /\ outcome' = Nothing
    BY <1>3, <1>8 DEF Call, TypeOK
  <2> QED
    BY <1>4, <2>1 DEF Nothing
<1>9. ASSUME UNCHANGED stack, outcome' \in {outcome, Panic, Nothing}
      PROVE  OffOnlyConverts'
  BY <1>2, <1>4, <1>9 DEF Top, Panic, Nothing
<1>10. \A c \in Clauses : ~CheckPasses(c) /\ ~CheckFails(c) /\ ~MatchError(c)
  BY <1>2 DEF CheckPasses, CheckFails, MatchError, Evaluates
<1>11. ~StartEntry /\ ~StartBody /\ ~StartError /\ ~StartExit /\ ~NoMatch /\ ~Return
  BY <1>2 DEF StartEntry, StartBody, StartError, StartExit, NoMatch, Return, Done, In
<1> QED
  BY <1>6, <1>7, <1>8, <1>9, <1>10, <1>11
  DEF Next, Expansion, User, BodyWrite, BodyPanics, Catch, SetEnv, vars

\* Where the build leaves checking out, or every environment it is run in
\* switches it off, no call gets to a check and handle_panic is the one place
\* that makes a violation: finding 3 is the whole of what outlives the switch.
THEOREM OffChecksNothing == Spec => []OffOnlyConverts
<1>1. Init => OffOnlyConverts
  BY DEF Init, OffOnlyConverts, Nothing
<1>2. TypeOK /\ OffOnlyConverts /\ [Next]_vars => OffOnlyConverts'
  BY StepOff
<1> QED
  BY <1>1, <1>2, TypeCorrect, PTL DEF Spec
=============================================================================
