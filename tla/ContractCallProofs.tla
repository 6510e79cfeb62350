------------------------- MODULE ContractCallProofs -------------------------
(***************************************************************************)
(* Proofs about ContractCall, for any tasks, functions, clauses, predicates *)
(* and nesting depth.                                                      *)
(***************************************************************************)
EXTENDS ContractCall, TLAPS

LEMMA IdleIsNoFrame == Idle \notin FrameType
  BY DEF Idle, FrameType, Fields, Phases

LEMMA ContractTyped ==
  ASSUME NEW f \in Fns
  PROVE  /\ Contract[f] \in ContractType
         /\ Contract[f].pre \subseteq Clauses /\ Contract[f].post \subseteq Clauses
         /\ Contract[f].err \subseteq Clauses /\ Contract[f].inv \subseteq Invs
  BY ContractAssumption DEF ContractType

LEMMA ActiveTyped ==
  ASSUME NEW f \in Fns, NEW s
  PROVE  ActiveInvariants(f, s) \subseteq Invs
  BY ContractTyped DEF ActiveInvariants

\* A task inside a call has a frame.
LEMMA TopTyped ==
  ASSUME TypeOK, NEW t \in Tasks, depth[t] > 0
  PROVE  /\ depth[t] \in 1 .. MaxDepth
         /\ Top(t) \in FrameType
         /\ Top(t) = frame[t][depth[t]]
<1>1. depth[t] \in 1 .. MaxDepth
  BY BoundsAssumption DEF TypeOK
<1>2. frame[t][depth[t]] # Idle
  BY <1>1 DEF TypeOK
<1>3. frame[t][depth[t]] \in FrameType \cup {Idle}
  BY <1>1 DEF TypeOK
<1> QED
  BY <1>1, <1>2, <1>3 DEF Top

\* Replacing the innermost frame keeps the stack well formed.
LEMMA SetTopTyped ==
  ASSUME TypeOK, NEW t \in Tasks, depth[t] > 0, NEW f \in FrameType,
         SetTop(t, f), depth' = depth
  PROVE  /\ frame' \in [Tasks -> [1 .. MaxDepth -> FrameType \cup {Idle}]]
         /\ \A u \in Tasks : \A d \in 1 .. MaxDepth : frame'[u][d] = Idle <=> d > depth'[u]
<1>1. depth[t] \in 1 .. MaxDepth
  BY TopTyped
<1>2. frame' \in [Tasks -> [1 .. MaxDepth -> FrameType \cup {Idle}]]
  BY <1>1 DEF TypeOK, SetTop
<1>3. ASSUME NEW u \in Tasks, NEW d \in 1 .. MaxDepth
      PROVE  frame'[u][d] = Idle <=> d > depth'[u]
  <2>1. CASE u = t /\ d = depth[t]
    <3>1. frame'[u][d] = f
      BY <2>1, <1>1 DEF TypeOK, SetTop
    <3> QED
      BY <3>1, <2>1, <1>1, IdleIsNoFrame
  <2>2. CASE ~(u = t /\ d = depth[t])
    <3>1. frame'[u][d] = frame[u][d]
      BY <2>2, <1>1 DEF TypeOK, SetTop
    <3> QED
      BY <3>1 DEF TypeOK
  <2> QED
    BY <2>1, <2>2
<1> QED
  BY <1>2, <1>3

\* The fields of a frame, and what its phase says of them.
LEMMA FrameFields ==
  ASSUME NEW f \in FrameType
  PROVE  /\ f \in Fields /\ WellFormed(f)
         /\ f.fn \in Fns /\ f.phase \in Phases /\ f.on \in BOOLEAN
         /\ f.active \subseteq Invs /\ f.active \subseteq Clauses /\ f.todo \subseteq Clauses
         /\ f.wrote \in BOOLEAN /\ f.val \in Values
  BY ClausesAssumption DEF FrameType, Fields

\* What a frame owes is among the invariants it runs.
LEMMA OwedTyped ==
  ASSUME NEW f \in FrameType
  PROVE  Owed(f) \subseteq f.active /\ Owed(f) \subseteq Invs
  BY FrameFields DEF Owed, WellFormed

\* Ending a call keeps every variable well typed.
LEMMA LeaveTyped ==
  ASSUME TypeOK, NEW t \in Tasks, depth[t] > 0, NEW out \in Outcomes, Leave(t, out)
  PROVE  TypeOK'
<1>1. depth[t] \in 1 .. MaxDepth /\ Top(t) \in FrameType
  BY TopTyped
<1>2. depth' \in [Tasks -> 0 .. MaxDepth]
  BY <1>1, BoundsAssumption DEF TypeOK, Leave
<1>3. frame' \in [Tasks -> [1 .. MaxDepth -> FrameType \cup {Idle}]]
  BY <1>1 DEF TypeOK, Leave
<1>4. ASSUME NEW u \in Tasks, NEW d \in 1 .. MaxDepth
      PROVE  frame'[u][d] = Idle <=> d > depth'[u]
  <2>1. CASE u = t /\ d = depth[t]
    <3>1. frame'[u][d] = Idle /\ depth'[u] = depth[t] - 1
      BY <2>1, <1>1 DEF TypeOK, Leave
    <3> QED
      BY <3>1, <2>1, <1>1
  <2>2. CASE u = t /\ d # depth[t]
    <3>1. frame'[u][d] = frame[t][d] /\ depth'[u] = depth[t] - 1
      BY <2>2, <1>1 DEF TypeOK, Leave
    <3>2. frame[t][d] = Idle <=> d > depth[t]
      BY DEF TypeOK
    <3> QED
      BY <3>1, <3>2, <2>2, <1>1
  <2>3. CASE u # t
    <3>1. frame'[u][d] = frame[u][d] /\ depth'[u] = depth[u]
      BY <2>3, <1>1 DEF TypeOK, Leave
    <3> QED
      BY <3>1 DEF TypeOK
  <2> QED
    BY <2>1, <2>2, <2>3
<1>5. outcome' \in [Tasks -> Outcomes] /\ loop' \in Tasks \cup {NoTask}
  BY DEF TypeOK, Leave
<1>6. unverified' \subseteq Invs
  BY <1>1, OwedTyped DEF TypeOK, Leave
<1>7. env' \in Environments /\ settings' \in [Tasks -> SettingsUsed] /\ obj' \in States
  BY DEF TypeOK, Leave
<1> QED
  BY <1>2, <1>3, <1>4, <1>5, <1>6, <1>7 DEF TypeOK

\* The values a step hands out are outcomes, and an outcome that carries a
\* value carries one of its kind.
LEMMA OutcomesTyped ==
  /\ Nothing \in Outcomes /\ Aborted \in Outcomes
  /\ \A r \in Results : Returned(r) \in Outcomes
  /\ \A e \in Exceptions : Raised(e) \in Outcomes
  /\ \A k \in ClauseKinds, f \in Fns : Violation(k, f) \in Outcomes
  /\ \A o \in Outcomes : o.kind = "exception" => o.value \in Exceptions
<1>1. Nothing \in Outcomes /\ Aborted \in Outcomes
  BY DEF Outcomes
<1>2. \A r \in Results : Returned(r) \in Outcomes
  BY DEF Outcomes
<1>3. \A e \in Exceptions : Raised(e) \in Outcomes
  BY DEF Outcomes
<1>4. \A k \in ClauseKinds, f \in Fns : Violation(k, f) \in Outcomes
  BY DEF Outcomes
<1>5. ASSUME NEW o \in Outcomes, o.kind = "exception"
      PROVE  o.value \in Exceptions
  BY <1>5 DEF Outcomes, Nothing, Aborted, Returned, Raised, Violation
<1> QED
  BY <1>1, <1>2, <1>3, <1>4, <1>5

LEMMA SetTopKeepsType ==
  ASSUME TypeOK, NEW t \in Tasks, depth[t] > 0, NEW f \in FrameType, SetTop(t, f),
         UNCHANGED <<env, settings, depth, loop>>,
         obj' \in States, outcome' \in [Tasks -> Outcomes], unverified' \subseteq Invs
  PROVE  TypeOK'
<1>1. /\ frame' \in [Tasks -> [1 .. MaxDepth -> FrameType \cup {Idle}]]
      /\ \A u \in Tasks : \A d \in 1 .. MaxDepth : frame'[u][d] = Idle <=> d > depth'[u]
  BY SetTopTyped
<1> QED
  BY <1>1 DEF TypeOK

LEMMA WrapperKeepsType ==
  ASSUME TypeOK, NEW t \in Tasks, Wrapper(t)
  PROVE  TypeOK'
<1> DEFINE F == Top(t)
           C == Contract[F.fn]
<1>1. depth[t] > 0
  BY DEF Wrapper, CheckPasses, CheckFails, MatchError, Checking, StartEntry, StartBody,
         StartExit, Return, HandleException, PassThrough, StartMatch, NoMatch, Done, Escapes, In
<1>2. F \in FrameType
  BY <1>1, TopTyped
<1>3. /\ F.fn \in Fns /\ F.active \subseteq Invs /\ F.active \subseteq Clauses
      /\ F.todo \subseteq Clauses /\ F.val \in Values /\ F.wrote \in BOOLEAN
      /\ F.phase \in Phases /\ F.on \in BOOLEAN
      /\ F \in Fields /\ WellFormed(F)
  BY <1>2, FrameFields
<1>4. /\ C.pre \subseteq Clauses /\ C.post \subseteq Clauses /\ C.err \subseteq Clauses
  BY <1>3, ContractTyped
<1>6. outcome \in [Tasks -> Outcomes] /\ unverified \subseteq Invs /\ obj \in States
  BY DEF TypeOK
<1>7. ASSUME NEW p \in Phases, NEW s \in SUBSET Clauses, Goto(t, p, s),
             WellFormed([F EXCEPT !.phase = p, !.todo = s]),
             UNCHANGED <<env, settings, obj, depth, outcome, loop, unverified>>
      PROVE  TypeOK'
  <2>1. [F EXCEPT !.phase = p, !.todo = s] \in Fields
    BY <1>3 DEF Fields
  <2>2. [F EXCEPT !.phase = p, !.todo = s] \in FrameType
    BY <1>7, <2>1 DEF FrameType
  <2> QED
    BY <1>1, <1>6, <1>7, <2>2, SetTopKeepsType DEF Goto
<1>8. ASSUME NEW c, SetTop(t, [F EXCEPT !.todo = @ \ {c}]),
             UNCHANGED <<env, settings, obj, depth, outcome, loop>>, unverified' \subseteq Invs
      PROVE  TypeOK'
  <2>1. [F EXCEPT !.todo = @ \ {c}] \in Fields
    BY <1>3 DEF Fields
  <2>2. WellFormed([F EXCEPT !.todo = @ \ {c}])
    BY <1>3, <2>1 DEF WellFormed, Fields
  <2>3. [F EXCEPT !.todo = @ \ {c}] \in FrameType
    BY <2>1, <2>2 DEF FrameType
  <2> QED
    BY <1>1, <1>6, <1>8, <2>3, SetTopKeepsType
<1>9. ASSUME NEW out \in Outcomes, Leave(t, out)
      PROVE  TypeOK'
  BY <1>1, <1>9, LeaveTyped
<1>10. ASSUME NEW c \in Clauses, CheckPasses(t, c)
       PROVE  TypeOK'
  BY <1>6, <1>8, <1>10 DEF CheckPasses
<1>11. ASSUME NEW c \in Clauses, CheckFails(t, c)
       PROVE  TypeOK'
  <2>1. KindOf(F.phase) \in ClauseKinds /\ "nested" \in ClauseKinds
    BY DEF KindOf, ClauseKinds
  <2> QED
    BY <1>3, <1>9, <1>11, <2>1, OutcomesTyped DEF CheckFails
<1>12. ASSUME NEW c \in Clauses, MatchError(t, c)
       PROVE  TypeOK'
  <2>1. F.val \in Exceptions
    BY <1>3, <1>12 DEF MatchError, In, WellFormed
  <2>2. "error" \in ClauseKinds
    BY DEF ClauseKinds
  <2> QED
    BY <1>3, <1>6, <1>8, <1>9, <1>12, <2>1, <2>2, OutcomesTyped DEF MatchError
<1>13. CASE StartEntry(t)
  <2> DEFINE S == IF SkipPre(F.fn) THEN {} ELSE F.active
  <2>1. S \in SUBSET Clauses /\ S \subseteq F.active /\ "entry" \in Phases
    BY <1>3 DEF Phases
  <2>2. Goto(t, "entry", S) /\ UNCHANGED <<env, settings, obj, depth, outcome, loop, unverified>>
    BY <1>13 DEF StartEntry
  <2> HIDE DEF S
  <2>3. WellFormed([F EXCEPT !.phase = "entry", !.todo = S])
    BY <1>3, <1>13, <2>1 DEF StartEntry, Done, In, WellFormed, Fields
  <2> QED
    BY <1>7, <2>1, <2>2, <2>3
<1>14. CASE StartBody(t)
  <2>1. WellFormed([F EXCEPT !.phase = "body", !.todo = {}])
    BY <1>3, <1>14 DEF StartBody, Done, In, WellFormed, Fields
  <2>2. Goto(t, "body", {}) /\ UNCHANGED <<env, settings, obj, depth, outcome, loop, unverified>>
    BY <1>14 DEF StartBody
  <2>3. "body" \in Phases /\ {} \in SUBSET Clauses
    BY DEF Phases
  <2> QED
    BY <1>7, <2>1, <2>2, <2>3
<1>15. CASE StartExit(t)
  <2>1. WellFormed([F EXCEPT !.phase = "exit", !.todo = F.active])
    BY <1>3, <1>15 DEF StartExit, Done, In, WellFormed, Fields
  <2> QED
    BY <1>3, <1>7, <1>15, <2>1 DEF StartExit, Phases
<1>16. CASE Return(t)
  BY <1>3, <1>9, <1>16, OutcomesTyped DEF Return, Done, In, WellFormed
<1>17. CASE HandleException(t)
  <2> DEFINE G == [F EXCEPT !.phase = "excinv", !.todo = F.active, !.val = outcome[t].value]
  <2>1. outcome[t].value \in Exceptions
    BY <1>6, <1>17, OutcomesTyped DEF HandleException, Handled
  <2>2. G \in Fields
    BY <1>3, <2>1 DEF Fields, Phases, Values
  <2>3. WellFormed(G)
    BY <1>3, <1>17, <2>1 DEF HandleException, Handled, WellFormed, Fields
  <2>4. G \in FrameType
    BY <2>2, <2>3 DEF FrameType
  <2> QED
    BY <1>1, <1>6, <1>17, <2>4, OutcomesTyped, SetTopKeepsType DEF HandleException
<1>18. CASE PassThrough(t)
  BY <1>6, <1>9, <1>18 DEF PassThrough
<1>19. CASE StartMatch(t)
  <2>1. WellFormed([F EXCEPT !.phase = "match", !.todo = C.err])
    BY <1>3, <1>19 DEF StartMatch, Done, In, WellFormed, Fields
  <2> QED
    BY <1>4, <1>7, <1>19, <2>1 DEF StartMatch, Phases
<1>20. CASE NoMatch(t)
  <2>1. F.val \in Exceptions
    BY <1>3, <1>20 DEF NoMatch, Done, In, WellFormed
  <2>2. {"error", "panic"} \subseteq ClauseKinds
    BY DEF ClauseKinds
  <2> QED
    BY <1>3, <1>9, <1>20, <2>1, <2>2, OutcomesTyped DEF NoMatch
<1> QED
  BY <1>10, <1>11, <1>12, <1>13, <1>14, <1>15, <1>16, <1>17, <1>18, <1>19, <1>20 DEF Wrapper

\* A call pushes a frame in its first phase.
LEMMA EnteredTyped ==
  ASSUME TypeOK, NEW t \in Tasks, NEW f \in Fns, NEW a \in Args
  PROVE  Entered(t, f, a) \in FrameType /\ ~Entered(t, f, a).wrote
<1> DEFINE G == Entered(t, f, a)
<1>1. /\ ActiveInvariants(f, settings[t]) \subseteq Contract[f].inv
      /\ ActiveInvariants(f, settings[t]) \subseteq Invs
      /\ Contract[f].pre \subseteq Clauses
  BY ActiveTyped, ContractTyped DEF ActiveInvariants
<1>2. ContractsEnabled(env) \in BOOLEAN
  BY DEF ContractsEnabled
<1>3. CASE ContractsEnabled(env)
  <2>1. G = [fn |-> f, on |-> TRUE, wrote |-> FALSE, val |-> a, phase |-> "pre",
             active |-> ActiveInvariants(f, settings[t]), todo |-> Contract[f].pre]
    BY <1>2, <1>3 DEF Entered
  <2> QED
    BY <1>1, <2>1 DEF FrameType, Fields, WellFormed, Phases, Values
<1>4. CASE ~ContractsEnabled(env)
  <2>1. G = [fn |-> f, on |-> FALSE, wrote |-> FALSE, val |-> a, phase |-> "body",
             active |-> {}, todo |-> {}]
    BY <1>2, <1>4 DEF Entered
  <2>2. G \in Fields
    BY <2>1 DEF Fields, Phases, Values
  <2>3. WellFormed(G)
    BY <2>1 DEF WellFormed
  <2> QED
    BY <2>1, <2>2, <2>3 DEF FrameType
<1> QED
  BY <1>3, <1>4

LEMMA UserKeepsType ==
  ASSUME TypeOK, NEW t \in Tasks, User(t)
  PROVE  TypeOK'
<1> DEFINE F == Top(t)
<1>1. ASSUME NEW f \in Fns, NEW a \in Args, Call(t, f, a)
      PROVE  TypeOK'
  <2> DEFINE G == Entered(t, f, a)
  <2>1. G \in FrameType /\ G # Idle
    BY EnteredTyped, IdleIsNoFrame
  <2> HIDE DEF G
  <2>2. depth[t] \in 0 .. MaxDepth /\ depth[t] + 1 \in 1 .. MaxDepth
    <3>1. depth[t] \in 0 .. MaxDepth /\ depth[t] < MaxDepth
      BY <1>1 DEF Call, TypeOK
    <3> QED
      BY <3>1, BoundsAssumption
  <2>3. depth' \in [Tasks -> 0 .. MaxDepth] /\ depth' = [depth EXCEPT ![t] = depth[t] + 1]
    <3>1. depth' = [depth EXCEPT ![t] = depth[t] + 1]
      BY <1>1 DEF Call
    <3>2. depth[t] + 1 \in 0 .. MaxDepth
      BY <2>2, BoundsAssumption
    <3> QED
      BY <3>1, <3>2 DEF TypeOK
  <2>4. frame' = [frame EXCEPT ![t][depth[t] + 1] = G]
    BY <1>1 DEF Call, G
  <2>5. frame' \in [Tasks -> [1 .. MaxDepth -> FrameType \cup {Idle}]]
    BY <2>1, <2>2, <2>4 DEF TypeOK
  <2>6. ASSUME NEW u \in Tasks, NEW d \in 1 .. MaxDepth
        PROVE  frame'[u][d] = Idle <=> d > depth'[u]
    <3>1. frame[u][d] = Idle <=> d > depth[u]
      BY DEF TypeOK
    <3>2. CASE u = t /\ d = depth[t] + 1
      <4>1. frame'[u][d] = G /\ depth'[u] = depth[t] + 1
        BY <2>2, <2>3, <2>4, <3>2 DEF TypeOK
      <4> QED
        BY <2>1, <2>2, <3>2, <4>1
    <3>3. CASE u = t /\ d # depth[t] + 1
      <4>1. frame'[u][d] = frame[t][d] /\ depth'[u] = depth[t] + 1
        BY <2>2, <2>3, <2>4, <3>3 DEF TypeOK
      <4> QED
        BY <2>2, <3>1, <3>3, <4>1
    <3>4. CASE u # t
      <4>1. frame'[u][d] = frame[u][d] /\ depth'[u] = depth[u]
        BY <2>2, <2>3, <2>4, <3>4 DEF TypeOK
      <4> QED
        BY <3>1, <4>1
    <3> QED
      BY <3>2, <3>3, <3>4
  <2>7. outcome' \in [Tasks -> Outcomes] /\ loop' \in Tasks \cup {NoTask}
    BY <1>1, OutcomesTyped DEF Call, TypeOK
  <2>8. /\ env' \in Environments /\ settings' \in [Tasks -> SettingsUsed]
        /\ obj' \in States /\ unverified' \subseteq Invs
    BY <1>1 DEF Call, TypeOK
  <2> QED
    BY <2>3, <2>5, <2>6, <2>7, <2>8 DEF TypeOK
<1>2. ASSUME NEW out \in Outcomes, outcome' = [outcome EXCEPT ![t] = out],
             loop' \in Tasks \cup {NoTask},
             UNCHANGED <<env, settings, obj, depth, frame, unverified>>
      PROVE  TypeOK'
  BY <1>2 DEF TypeOK
<1>3. ASSUME NEW e \in Exceptions, CallRejected(t, e) \/ BodyRaise(t, e)
      PROVE  TypeOK'
  BY <1>2, <1>3, OutcomesTyped DEF CallRejected, BodyRaise, TypeOK
<1>4. ASSUME NEW s \in States, BodyWrite(t, s)
      PROVE  TypeOK'
  <2>1. depth[t] > 0
    BY <1>4 DEF BodyWrite, In
  <2>2. F \in FrameType /\ F \in Fields /\ WellFormed(F)
    BY <2>1, TopTyped, FrameFields
  <2>3. [F EXCEPT !.wrote = TRUE] \in FrameType
    BY <1>4, <2>2 DEF BodyWrite, In, FrameType, Fields, WellFormed
  <2>4. obj' \in States /\ outcome' \in [Tasks -> Outcomes] /\ unverified' \subseteq Invs
    BY <1>4 DEF BodyWrite, TypeOK
  <2> QED
    BY <1>4, <2>1, <2>3, <2>4, SetTopKeepsType DEF BodyWrite
<1>5. ASSUME NEW r \in Results, BodyReturn(t, r)
      PROVE  TypeOK'
  <2> DEFINE G == [F EXCEPT !.phase = "post", !.todo = Contract[F.fn].post, !.val = r]
  <2>1. depth[t] > 0
    BY <1>5 DEF BodyReturn, BodyRuns, In
  <2>2. F \in Fields /\ WellFormed(F) /\ F.fn \in Fns
    BY <2>1, TopTyped, FrameFields
  <2>3. F.on /\ Contract[F.fn].post \subseteq Clauses
    BY <1>5, <2>2, ContractTyped DEF BodyReturn, Unchecked
  <2>4. G \in Fields
    BY <2>2, <2>3 DEF Fields, Phases, Values
  <2>5. WellFormed(G)
    BY <2>2, <2>3 DEF WellFormed, Fields
  <2>6. G \in FrameType
    BY <2>4, <2>5 DEF FrameType
  <2>7. obj' \in States /\ outcome' \in [Tasks -> Outcomes] /\ unverified' \subseteq Invs
    BY <1>5, OutcomesTyped DEF BodyReturn, TypeOK
  <2> QED
    BY <1>5, <2>1, <2>6, <2>7, SetTopKeepsType DEF BodyReturn
<1>6. ASSUME NEW r \in Results, BodyReturnUnchecked(t, r)
      PROVE  TypeOK'
  BY <1>6, LeaveTyped, OutcomesTyped DEF BodyReturnUnchecked, BodyRuns, In
<1>7. CASE BodyAbort(t) \/ Catch(t) \/ ResumeCancelled(t)
  BY <1>2, <1>7, OutcomesTyped DEF BodyAbort, Catch, ResumeCancelled, TypeOK
<1>8. ASSUME NEW e \in Environments, SetEnv(t, e)
      PROVE  TypeOK'
  BY <1>8 DEF SetEnv, TypeOK
<1>9. ASSUME NEW s \in SettingsUsed, SetSettings(t, s)
      PROVE  TypeOK'
  BY <1>9 DEF SetSettings, TypeOK
<1>10. CASE Await(t) \/ Resume(t)
  BY <1>10 DEF Await, Resume, TypeOK
<1> QED
  BY <1>1, <1>3, <1>4, <1>5, <1>6, <1>7, <1>8, <1>9, <1>10 DEF User

LEMMA InitTyped == Init => TypeOK
<1> SUFFICES ASSUME Init PROVE TypeOK
  OBVIOUS
<1>1. depth \in [Tasks -> 0 .. MaxDepth]
  BY BoundsAssumption DEF Init
<1> QED
  BY <1>1, OutcomesTyped, BoundsAssumption DEF Init, TypeOK

LEMMA StepKeepsType == TypeOK /\ [Next]_vars => TypeOK'
<1> SUFFICES ASSUME TypeOK, [Next]_vars PROVE TypeOK'
  OBVIOUS
<1>1. ASSUME NEW t \in Tasks, Wrapper(t) PROVE TypeOK'
  BY <1>1, WrapperKeepsType
<1>2. ASSUME NEW t \in Tasks, User(t) PROVE TypeOK'
  BY <1>2, UserKeepsType
<1>3. CASE UNCHANGED vars
  BY <1>3 DEF vars, TypeOK
<1> QED
  BY <1>1, <1>2, <1>3 DEF Next

\* Every reachable state is well typed, and in every frame the clauses still
\* to check and the value they are checked on are those of its phase: no
\* wrapper evaluates a clause of one kind in the place of another.
THEOREM TypeCorrect == Spec => []TypeOK
  BY InitTyped, StepKeepsType, PTL DEF Spec
----------------------------------------------------------------------------
(* The ledger *)

LEMMA IdleOwesNothing == Owed(Idle) = {}
  BY DEF Owed, Idle

LEMMA SuspectIff ==
  \A x : x \in Suspect <=>
    x \in unverified \/ \E t \in Tasks : \E d \in 1 .. MaxDepth : x \in Owed(frame[t][d])
  BY DEF Suspect

LEMMA SuspectNextIff ==
  \A x : x \in Suspect' <=>
    x \in unverified' \/ \E t \in Tasks : \E d \in 1 .. MaxDepth : x \in Owed(frame'[t][d])
  BY DEF Suspect, Owed

\* The next four lemmas follow what is suspect through the four ways a step
\* changes frames: none, the innermost one, its removal, a new one.
LEMMA SameFramesSuspect ==
  ASSUME UNCHANGED <<frame, unverified>>
  PROVE  Suspect' = Suspect
  BY SuspectIff, SuspectNextIff

LEMMA SetTopSuspect ==
  ASSUME TypeOK, NEW t \in Tasks, depth[t] > 0, NEW f, SetTop(t, f),
         Owed(f) = Owed(Top(t)), unverified' = unverified
  PROVE  Suspect' = Suspect
<1>1. depth[t] \in 1 .. MaxDepth /\ Top(t) = frame[t][depth[t]]
  BY TopTyped
<1>2. ASSUME NEW u \in Tasks, NEW d \in 1 .. MaxDepth
      PROVE  Owed(frame'[u][d]) = Owed(frame[u][d])
  <2>1. CASE u = t /\ d = depth[t]
    <3>1. frame'[u][d] = f
      BY <1>1, <2>1 DEF SetTop, TypeOK
    <3> QED
      BY <1>1, <2>1, <3>1
  <2>2. CASE ~(u = t /\ d = depth[t])
    <3>1. frame'[u][d] = frame[u][d]
      BY <1>1, <2>2 DEF SetTop, TypeOK
    <3> QED
      BY <3>1
  <2> QED
    BY <2>1, <2>2
<1> QED
  BY <1>2, SuspectIff, SuspectNextIff

LEMMA LeaveSuspect ==
  ASSUME TypeOK, NEW t \in Tasks, depth[t] > 0, NEW out, Leave(t, out)
  PROVE  Suspect' = Suspect /\ obj' = obj
<1>1. depth[t] \in 1 .. MaxDepth /\ Top(t) = frame[t][depth[t]]
  BY TopTyped
<1>2. Owed(frame'[t][depth[t]]) = {}
  <2>1. frame'[t][depth[t]] = Idle
    BY <1>1 DEF Leave, TypeOK
  <2> QED
    BY <2>1, IdleOwesNothing
<1>3. ASSUME NEW u \in Tasks, NEW d \in 1 .. MaxDepth, ~(u = t /\ d = depth[t])
      PROVE  Owed(frame'[u][d]) = Owed(frame[u][d])
  <2>1. frame'[u][d] = frame[u][d]
    BY <1>1, <1>3 DEF Leave, TypeOK
  <2> QED
    BY <2>1
<1>4. unverified' = unverified \cup Owed(frame[t][depth[t]]) /\ obj' = obj
  BY <1>1 DEF Leave
<1>5. ASSUME NEW x
      PROVE  x \in Suspect' <=> x \in Suspect
  BY <1>1, <1>2, <1>3, <1>4, SuspectIff, SuspectNextIff
<1> QED
  BY <1>4, <1>5

LEMMA CallSuspect ==
  ASSUME TypeOK, NEW t \in Tasks, NEW f \in Fns, NEW a \in Args, Call(t, f, a)
  PROVE  Suspect' = Suspect
<1>1. depth[t] \in 0 .. MaxDepth /\ depth[t] < MaxDepth
  BY DEF Call, TypeOK
<1>2. depth[t] + 1 \in 1 .. MaxDepth
  BY <1>1, BoundsAssumption
<1>3. Owed(frame'[t][depth[t] + 1]) = {} /\ Owed(frame[t][depth[t] + 1]) = {}
  <2>1. frame'[t][depth[t] + 1] = Entered(t, f, a)
    BY <1>2 DEF Call, TypeOK
  <2>2. frame[t][depth[t] + 1] = Idle
    <3>1. depth[t] + 1 > depth[t]
      BY <1>1
    <3> QED
      BY <1>2, <3>1 DEF TypeOK
  <2>3. ~Entered(t, f, a).wrote
    BY EnteredTyped
  <2>4. Owed(Entered(t, f, a)) = {}
    BY <2>3 DEF Owed
  <2> QED
    BY <2>1, <2>2, <2>4, IdleOwesNothing
<1>4. ASSUME NEW u \in Tasks, NEW d \in 1 .. MaxDepth, ~(u = t /\ d = depth[t] + 1)
      PROVE  Owed(frame'[u][d]) = Owed(frame[u][d])
  <2>1. frame'[u][d] = frame[u][d]
    BY <1>2, <1>4 DEF Call, TypeOK
  <2> QED
    BY <2>1
<1>5. unverified' = unverified
  BY DEF Call
<1>6. ASSUME NEW x
      PROVE  x \in Suspect' <=> x \in Suspect
  BY <1>3, <1>4, <1>5, SuspectIff, SuspectNextIff
<1> QED
  BY <1>6

LEMMA SuspectTyped == TypeOK' => Suspect' \subseteq Invs
<1> SUFFICES ASSUME TypeOK', NEW t \in Tasks, NEW d \in 1 .. MaxDepth
             PROVE  Owed(frame'[t][d]) \subseteq Invs
  BY SuspectNextIff DEF TypeOK
<1>1. frame'[t][d] \in FrameType \cup {Idle}
  BY DEF TypeOK
<1> QED
  BY <1>1, OwedTyped, IdleOwesNothing

\* Evaluating a clause clears at most that clause, and only if it is an
\* invariant that holds.
LEMMA CheckPassesSuspect ==
  ASSUME TypeOK, NEW t \in Tasks, NEW c \in Clauses, CheckPasses(t, c)
  PROVE  /\ obj' = obj
         /\ Suspect' \subseteq Suspect
         /\ \A x \in Suspect \ Suspect' : x = c /\ x \in Invs /\ Holds(x, obj)
<1> DEFINE F == Top(t)
           G == [F EXCEPT !.todo = @ \ {c}]
<1>1. depth[t] > 0 /\ depth[t] \in 1 .. MaxDepth /\ F = frame[t][depth[t]]
  BY TopTyped DEF CheckPasses, Checking
<1>2. F \in FrameType /\ F \in Fields /\ WellFormed(F) /\ F.active \subseteq Invs
  BY <1>1, TopTyped, FrameFields
<1>3. /\ G.phase = F.phase /\ G.wrote = F.wrote /\ G.active = F.active
      /\ G.todo = F.todo \ {c}
  BY <1>2 DEF Fields
<1>4. SetTop(t, G) /\ obj' = obj
  BY DEF CheckPasses
<1> HIDE DEF G
<1>5. CASE F.phase \in {"pre", "post"}
  <2>1. Owed(G) = Owed(F)
    BY <1>2, <1>3, <1>5 DEF Owed, WellFormed
  <2>2. unverified' = unverified
    BY <1>5 DEF CheckPasses
  <2>3. Suspect' = Suspect
    BY <1>1, <1>4, <2>1, <2>2, SetTopSuspect
  <2> QED
    BY <1>4, <2>3
<1>6. CASE F.phase \in {"entry", "exit", "excinv"}
  <2>1. c \in Invs /\ Holds(c, obj)
    BY <1>2, <1>6 DEF CheckPasses, Checking, IsNext, WellFormed, Checked, Holds
  <2>2. Owed(G) \subseteq Owed(F) /\ Owed(F) \subseteq Owed(G) \cup {c}
    BY <1>3 DEF Owed
  <2>3. unverified' = unverified \ {c}
    BY <1>6 DEF CheckPasses
  <2>4. frame'[t][depth[t]] = G
    BY <1>1, <1>4 DEF SetTop, TypeOK
  <2>5. ASSUME NEW u \in Tasks, NEW d \in 1 .. MaxDepth, ~(u = t /\ d = depth[t])
        PROVE  Owed(frame'[u][d]) = Owed(frame[u][d])
    <3>1. frame'[u][d] = frame[u][d]
      BY <1>1, <1>4, <2>5 DEF SetTop, TypeOK
    <3> QED
      BY <3>1
  <2>6. \A u \in Tasks, d \in 1 .. MaxDepth :
          /\ Owed(frame'[u][d]) \subseteq Owed(frame[u][d])
          /\ Owed(frame[u][d]) \subseteq Owed(frame'[u][d]) \cup {c}
    BY <1>1, <2>2, <2>4, <2>5
  <2>7. Suspect' \subseteq Suspect
    BY <2>3, <2>6, SuspectIff, SuspectNextIff
  <2>8. \A x \in Suspect \ Suspect' : x = c
    BY <2>3, <2>6, SuspectIff, SuspectNextIff
  <2> QED
    BY <1>4, <2>1, <2>7, <2>8
<1> QED
  BY <1>5, <1>6 DEF CheckPasses, Checking

\* Every other step of a wrapper moves what is suspect about, or leaves it.
LEMMA WrapperSuspect ==
  ASSUME TypeOK, NEW t \in Tasks, Wrapper(t), ~ \E c \in Clauses : CheckPasses(t, c)
  PROVE  Suspect' = Suspect /\ obj' = obj
<1> DEFINE F == Top(t)
<1>1. depth[t] > 0
  BY DEF Wrapper, CheckPasses, CheckFails, MatchError, Checking, StartEntry, StartBody,
         StartExit, Return, HandleException, PassThrough, StartMatch, NoMatch, Done, Escapes, In
<1>2. F \in Fields /\ WellFormed(F)
  BY <1>1, TopTyped, FrameFields
<1>3. ASSUME NEW out, Leave(t, out)
      PROVE  Suspect' = Suspect /\ obj' = obj
  BY <1>1, <1>3, LeaveSuspect
<1>4. ASSUME NEW f, SetTop(t, f), Owed(f) = Owed(F), UNCHANGED <<obj, unverified>>
      PROVE  Suspect' = Suspect /\ obj' = obj
  BY <1>1, <1>4, SetTopSuspect
<1>5. ASSUME NEW c \in Clauses, CheckFails(t, c)
      PROVE  Suspect' = Suspect /\ obj' = obj
  BY <1>3, <1>5 DEF CheckFails
<1>6. ASSUME NEW c \in Clauses, MatchError(t, c)
      PROVE  Suspect' = Suspect /\ obj' = obj
  <2>1. Owed([F EXCEPT !.todo = @ \ {c}]) = Owed(F)
    BY <1>2, <1>6 DEF MatchError, In, Owed, Fields
  <2> QED
    BY <1>3, <1>4, <1>6, <2>1 DEF MatchError
<1>7. CASE StartEntry(t)
  <2> DEFINE S == IF SkipPre(F.fn) THEN {} ELSE F.active
  <2>1. Owed([F EXCEPT !.phase = "entry", !.todo = S]) = Owed(F)
    BY <1>2, <1>7 DEF StartEntry, Done, In, WellFormed, Owed, Fields
  <2> QED
    BY <1>4, <1>7, <2>1 DEF StartEntry, Goto
<1>8. CASE StartBody(t)
  <2>1. Owed([F EXCEPT !.phase = "body", !.todo = {}]) = Owed(F)
    BY <1>2, <1>8 DEF StartBody, Done, In, WellFormed, Owed, Fields
  <2> QED
    BY <1>4, <1>8, <2>1 DEF StartBody, Goto
<1>9. CASE StartExit(t)
  <2>1. Owed([F EXCEPT !.phase = "exit", !.todo = F.active]) = Owed(F)
    BY <1>2, <1>9 DEF StartExit, Done, In, Owed, Fields
  <2> QED
    BY <1>4, <1>9, <2>1 DEF StartExit, Goto
<1>10. CASE HandleException(t)
  <2>1. Owed([F EXCEPT !.phase = "excinv", !.todo = F.active, !.val = outcome[t].value]) = Owed(F)
    BY <1>2, <1>10 DEF HandleException, Escapes, In, Owed, Fields
  <2> QED
    BY <1>4, <1>10, <2>1 DEF HandleException
<1>11. CASE StartMatch(t)
  <2>1. Owed([F EXCEPT !.phase = "match", !.todo = Contract[F.fn].err]) = Owed(F)
    BY <1>2, <1>11 DEF StartMatch, Done, In, Owed, Fields
  <2> QED
    BY <1>4, <1>11, <2>1 DEF StartMatch, Goto
<1>12. CASE Return(t) \/ PassThrough(t) \/ NoMatch(t)
  BY <1>3, <1>12 DEF Return, PassThrough, NoMatch
<1> QED
  BY <1>5, <1>6, <1>7, <1>8, <1>9, <1>10, <1>11, <1>12 DEF Wrapper

\* A write makes every invariant suspect: those the writing call runs it still
\* owes, the others are counted at once.
LEMMA WriteSuspect ==
  ASSUME TypeOK, NEW t \in Tasks, NEW s \in States, BodyWrite(t, s)
  PROVE  Invs \subseteq Suspect'
<1> DEFINE F == Top(t)
           G == [F EXCEPT !.wrote = TRUE]
<1>1. depth[t] > 0 /\ F.phase = "body" /\ SetTop(t, G)
  BY DEF BodyWrite, In
<1>2. depth[t] \in 1 .. MaxDepth /\ F \in Fields
  BY <1>1, TopTyped, FrameFields
<1>3. Owed(G) = F.active
  BY <1>1, <1>2 DEF Owed, Fields
<1>4. frame'[t][depth[t]] = G
  BY <1>1, <1>2 DEF SetTop, TypeOK
<1>5. unverified' = unverified \cup (Invs \ F.active)
  BY DEF BodyWrite
<1> HIDE DEF F, G
<1>6. ASSUME NEW i \in Invs
      PROVE  i \in Suspect'
  <2>1. CASE i \in F.active
    <3>1. i \in Owed(frame'[t][depth[t]])
      BY <1>3, <1>4, <2>1
    <3> QED
      BY <1>2, <3>1, SuspectNextIff
  <2>2. CASE i \notin F.active
    BY <1>5, <2>2, SuspectNextIff
  <2> QED
    BY <2>1, <2>2
<1> QED
  BY <1>6

LEMMA UserSuspect ==
  ASSUME TypeOK, NEW t \in Tasks, User(t), ~ \E s \in States : BodyWrite(t, s)
  PROVE  Suspect' = Suspect /\ obj' = obj
<1> DEFINE F == Top(t)
<1>1. ASSUME NEW f \in Fns, NEW a \in Args, Call(t, f, a)
      PROVE  Suspect' = Suspect /\ obj' = obj
  BY <1>1, CallSuspect DEF Call
<1>2. CASE UNCHANGED <<obj, frame, unverified>>
  BY <1>2, SameFramesSuspect
<1>3. ASSUME NEW r \in Results, BodyReturn(t, r)
      PROVE  Suspect' = Suspect /\ obj' = obj
  <2> DEFINE G == [F EXCEPT !.phase = "post", !.todo = Contract[F.fn].post, !.val = r]
  <2>1. depth[t] > 0 /\ F.phase = "body"
    BY <1>3 DEF BodyReturn, BodyRuns, In
  <2>2. F \in Fields
    BY <2>1, TopTyped, FrameFields
  <2>3. Owed(G) = Owed(F)
    BY <2>1, <2>2 DEF Owed, Fields
  <2>4. SetTop(t, G) /\ UNCHANGED <<obj, unverified>>
    BY <1>3 DEF BodyReturn
  <2> HIDE DEF G
  <2> QED
    BY <2>1, <2>3, <2>4, SetTopSuspect
<1>4. ASSUME NEW r \in Results, BodyReturnUnchecked(t, r)
      PROVE  Suspect' = Suspect /\ obj' = obj
  BY <1>4, LeaveSuspect DEF BodyReturnUnchecked, BodyRuns, In
<1>5. ASSUME ~ \E f \in Fns, a \in Args : Call(t, f, a),
             ~ \E r \in Results : BodyReturn(t, r) \/ BodyReturnUnchecked(t, r)
      PROVE  UNCHANGED <<obj, frame, unverified>>
  BY <1>5 DEF User, CallRejected, BodyRaise, BodyAbort, Catch, SetEnv, SetSettings, Await,
              Resume, ResumeCancelled
<1> QED
  BY <1>1, <1>2, <1>3, <1>4, <1>5

\* Every step of the wrappers and of the code they wrap is a step of the
\* ledger, or leaves it alone.
LEMMA StepOfLedger ==
  ASSUME TypeOK, TypeOK', [Next]_vars
  PROVE  [Ledger!Next]_(Ledger!lvars)
<1>1. CASE Suspect' = Suspect /\ obj' = obj
  BY <1>1 DEF Ledger!lvars
<1>2. ASSUME NEW t \in Tasks, NEW s \in States, BodyWrite(t, s)
      PROVE  Ledger!Next
  <2>1. Suspect' = Invs
    <3>1. Suspect' \subseteq Invs
      BY SuspectTyped
    <3> QED
      BY <1>2, <3>1, WriteSuspect
  <2>2. obj' \in States
    BY DEF TypeOK
  <2> QED
    BY <2>1, <2>2 DEF Ledger!Next, Ledger!Write
<1>3. ASSUME NEW t \in Tasks, NEW c \in Clauses, CheckPasses(t, c)
      PROVE  Ledger!Next
  <2>1. /\ obj' = obj /\ Suspect' \subseteq Suspect
        /\ \A x \in Suspect \ Suspect' : x \in Invs /\ Holds(x, obj)
    BY <1>3, CheckPassesSuspect
  <2> DEFINE verified == Suspect \ Suspect'
             Sat == [i \in Invs |-> {s \in States : Holds(i, s)}]
  <2>2. verified \in SUBSET Suspect /\ Suspect' = Suspect \ verified
    BY <2>1
  <2>3. obj \in States
    BY DEF TypeOK
  <2>4. \A i \in verified : obj \in Sat[i]
    BY <2>1, <2>3
  <2> QED
    BY <2>1, <2>2, <2>4 DEF Ledger!Next, Ledger!Verify
<1>4. CASE UNCHANGED vars
  BY <1>1, <1>4, SameFramesSuspect DEF vars
<1> QED
  BY <1>1, <1>2, <1>3, <1>4, WrapperSuspect, UserSuspect DEF Next

LEMMA InitOfLedger == Init => Ledger!Init
<1> SUFFICES ASSUME Init PROVE Ledger!Init
  OBVIOUS
<1>1. \A t \in Tasks, d \in 1 .. MaxDepth : Owed(frame[t][d]) = {}
  BY IdleOwesNothing DEF Init
<1>2. Suspect = Invs
  BY <1>1, SuspectIff DEF Init
<1> QED
  BY <1>2 DEF Init, Ledger!Init

\* The wrappers implement the ledger: with any contracts, any nesting, any
\* interleaving of tasks or threads, and any way a call can end, an invariant
\* leaves suspicion only by being evaluated to true on the object as it is.
THEOREM LedgerImplemented == Spec => ImplementsLedger
<1>1. TypeOK /\ TypeOK' /\ [Next]_vars => [Ledger!Next]_(Ledger!lvars)
  BY StepOfLedger
<1> QED
  BY <1>1, TypeCorrect, InitOfLedger, PTL DEF Spec, ImplementsLedger, Ledger!Spec

\* A step of the ledger keeps every broken invariant suspect.
LEMMA LedgerStepIsSound ==
  ASSUME TypeOK, TypeOK', BrokenIsSuspect, [Ledger!Next]_(Ledger!lvars)
  PROVE  BrokenIsSuspect'
<1> SUFFICES ASSUME NEW i \in Invs, ~Holds(i, obj') PROVE i \in Suspect'
  BY DEF BrokenIsSuspect
<1>1. CASE Ledger!Write
  BY <1>1 DEF Ledger!Write
<1>2. CASE Ledger!Verify
  <2>1. obj' = obj /\ i \in Suspect
    BY <1>2 DEF Ledger!Verify, BrokenIsSuspect
  <2>2. PICK verified \in SUBSET Suspect :
          /\ \A j \in verified : obj \in [k \in Invs |-> {s \in States : Holds(k, s)}][j]
          /\ Suspect' = Suspect \ verified
    BY <1>2 DEF Ledger!Verify
  <2>3. i \notin verified
    BY <2>1, <2>2
  <2> QED
    BY <2>1, <2>2, <2>3
<1>3. CASE UNCHANGED Ledger!lvars
  BY <1>3 DEF Ledger!lvars, BrokenIsSuspect
<1> QED
  BY <1>1, <1>2, <1>3 DEF Ledger!Next

\* The object is never broken behind everybody's back: an invariant that does
\* not hold is one a wrapper in progress has yet to check, or one a call that
\* ended left unverified.
THEOREM BrokenAlwaysSuspect == Spec => []BrokenIsSuspect
<1>1. Init => BrokenIsSuspect
  BY SuspectIff DEF Init, BrokenIsSuspect
<1>2. TypeOK /\ TypeOK' /\ BrokenIsSuspect /\ [Next]_vars => BrokenIsSuspect'
  BY StepOfLedger, LedgerStepIsSound
<1> QED
  BY <1>1, <1>2, TypeCorrect, PTL DEF Spec
----------------------------------------------------------------------------
(* How calls end *)

\* A call ends by one of six actions of its own task.
LEMMA EndsBy ==
  ASSUME TypeOK, [Next]_vars, NEW t \in Tasks, Ends(t)
  PROVE  \/ \E c \in Clauses : CheckFails(t, c)
         \/ \E c \in Clauses : MatchError(t, c) /\ depth' # depth
         \/ \E r \in Results : BodyReturnUnchecked(t, r)
         \/ Return(t) \/ PassThrough(t) \/ NoMatch(t)
<1>1. depth[t] \in Nat
  BY BoundsAssumption DEF TypeOK
<1>2. depth'[t] # depth[t] /\ depth' # depth
  BY <1>1 DEF Ends
<1>3. PICK u \in Tasks : Wrapper(u) \/ User(u)
  BY <1>2 DEF Next, vars
<1>4. ASSUME NEW out, Leave(u, out)
      PROVE  u = t
  BY <1>2, <1>4 DEF Leave, TypeOK
<1>5. ~ \E f \in Fns, a \in Args : Call(u, f, a)
  <2> SUFFICES ASSUME NEW f \in Fns, NEW a \in Args, Call(u, f, a) PROVE FALSE
    OBVIOUS
  <2>1. depth'[t] = IF t = u THEN depth[t] + 1 ELSE depth[t]
    BY DEF Call, TypeOK
  <2> QED
    BY <1>1, <2>1 DEF Ends
<1>6. CASE Wrapper(u)
  <2>1. \/ \E c \in Clauses : CheckFails(u, c) \/ (MatchError(u, c) /\ depth' # depth)
        \/ Return(u) \/ PassThrough(u) \/ NoMatch(u)
    BY <1>2, <1>6 DEF Wrapper, CheckPasses, StartEntry, StartBody, StartExit, HandleException,
                     StartMatch
  <2>2. CASE \E c \in Clauses : CheckFails(u, c)
    BY <1>4, <2>2 DEF CheckFails
  <2>3. CASE \E c \in Clauses : MatchError(u, c) /\ depth' # depth
    BY <1>4, <2>3 DEF MatchError
  <2>4. CASE Return(u) \/ PassThrough(u) \/ NoMatch(u)
    BY <1>4, <2>4 DEF Return, PassThrough, NoMatch
  <2> QED
    BY <2>1, <2>2, <2>3, <2>4
<1>7. CASE User(u)
  <2>1. \E r \in Results : BodyReturnUnchecked(u, r)
    BY <1>2, <1>5, <1>7 DEF User, CallRejected, BodyRaise, BodyWrite, BodyReturn, BodyAbort,
                     Catch, SetEnv, SetSettings, Await, Resume, ResumeCancelled
  <2> QED
    BY <1>4, <2>1 DEF BodyReturnUnchecked
<1> QED
  BY <1>3, <1>6, <1>7

\* What the caller is handed when a call ends.
LEMMA Delivered ==
  ASSUME TypeOK, NEW t \in Tasks, NEW out, Leave(t, out)
  PROVE  outcome'[t] = out /\ obj' = obj /\ unverified' = unverified \cup Owed(Top(t))
  BY DEF Leave, TypeOK

LEMMA OutcomeFields ==
  /\ \A r : Returned(r).kind = "return" /\ Returned(r).value = r
  /\ \A e : Raised(e).kind = "exception" /\ Raised(e).value = e
  /\ \A k, f : Violation(k, f).kind = "violation" /\ Violation(k, f).clause = k
  BY DEF Returned, Raised, Violation

LEMMA OnlyDeclaredStep ==
  ASSUME TypeOK, [Next]_vars, NEW t \in Tasks, EndsWith(t, "exception"), Top(t).on
  PROVE  LET C == Contract[Top(t).fn]
         IN /\ C.err # {} => \E c \in C.err : Passes(c, obj', outcome'[t].value)
            /\ C.err = {} => ~C.panic
<1> DEFINE F == Top(t)
           C == Contract[F.fn]
<1>0. Ends(t) /\ outcome'[t].kind = "exception"
  BY DEF EndsWith
<1>1. ~ \E c \in Clauses : CheckFails(t, c)
  BY <1>0, Delivered, OutcomeFields DEF CheckFails
<1>2. ~ Return(t) /\ ~ \E r \in Results : BodyReturnUnchecked(t, r)
  BY <1>0, Delivered, OutcomeFields DEF Return, BodyReturnUnchecked
<1>3. ASSUME NEW c \in Clauses, MatchError(t, c), depth' # depth
      PROVE  c \in C.err /\ Passes(c, obj', outcome'[t].value)
  <2>1. depth[t] > 0 /\ F.phase = "match" /\ c \in F.todo
    BY <1>3 DEF MatchError, In, IsNext
  <2>2. WellFormed(F)
    BY <2>1, TopTyped, FrameFields
  <2>3. Passes(c, obj, F.val) /\ Leave(t, Raised(F.val))
    BY <1>0, <1>3, Delivered, OutcomeFields DEF MatchError, Passes
  <2> QED
    BY <2>1, <2>2, <2>3, Delivered, OutcomeFields DEF WellFormed
<1>4. CASE PassThrough(t)
  <2>1. depth[t] > 0 /\ Leave(t, outcome[t]) /\ ~Handled(t)
    BY <1>4 DEF PassThrough, Escapes, In
  <2>2. SkipPre(F.fn)
    BY <1>0, <2>1, Delivered DEF Handled
  <2>3. F.fn \in Fns
    BY <2>1, TopTyped, FrameFields
  <2> QED
    BY <2>2, <2>3, ContractAssumption DEF SkipPre
<1>5. CASE NoMatch(t)
  <2>1. C.err = {} /\ ~C.panic
    BY <1>0, <1>5, Delivered, OutcomeFields DEF NoMatch
  <2> QED
    BY <2>1
<1> QED
  BY <1>0, <1>1, <1>2, <1>3, <1>4, <1>5, EndsBy

\* For any contract, an exception gets out of a checked call only if an error
\* clause matches it, and not at all where panic_free alone is declared.
THEOREM DeclaredOnly == Spec => OnlyDeclaredEscapes
<1> DEFINE Step ==
      \A t \in Tasks : EndsWith(t, "exception") /\ Top(t).on =>
        LET C == Contract[Top(t).fn]
        IN /\ C.err # {} => \E c \in C.err : Passes(c, obj', outcome'[t].value)
           /\ C.err = {} => ~C.panic
<1>1. TypeOK /\ [Next]_vars => [Step]_vars
  BY OnlyDeclaredStep
<1> QED
  BY <1>1, TypeCorrect, PTL DEF Spec, OnlyDeclaredEscapes

LEMMA OrderlyStep ==
  ASSUME TypeOK, [Next]_vars, NEW t \in Tasks, Orderly(t)
  PROVE  unverified' \subseteq unverified
<1> DEFINE F == Top(t)
<1>1. Ends(t)
  BY DEF Orderly, EndsWith
<1>2. ASSUME NEW out, Leave(t, out), Owed(F) = {}
      PROVE  unverified' \subseteq unverified
  BY <1>2 DEF Leave
<1>3. ~ \E c \in Clauses : CheckFails(t, c)
  <2> SUFFICES ASSUME NEW c \in Clauses, CheckFails(t, c) PROVE FALSE
    OBVIOUS
  <2>1. PICK k \in {"precondition", "postcondition", "invariant", "nested"} :
          Leave(t, Violation(k, F.fn))
    BY DEF CheckFails, KindOf
  <2>2. outcome'[t].kind = "violation" /\ outcome'[t].clause = k
    BY <2>1, Delivered, OutcomeFields
  <2> QED
    BY <2>2 DEF Orderly, EndsWith
<1>4. ASSUME NEW c \in Clauses, MatchError(t, c), depth' # depth
      PROVE  unverified' \subseteq unverified
  <2>1. Owed(F) = {}
    BY <1>4 DEF MatchError, In, Owed
  <2> QED
    BY <1>2, <1>4, <2>1 DEF MatchError
<1>5. CASE NoMatch(t)
  <2>1. Owed(F) = {}
    BY <1>5 DEF NoMatch, Done, In, Owed
  <2> QED
    BY <1>2, <1>5, <2>1 DEF NoMatch
<1>6. CASE Return(t)
  <2>1. Owed(F) = {}
    BY <1>6 DEF Return, Done, In, Owed
  <2> QED
    BY <1>2, <1>6, <2>1 DEF Return
<1>7. ~ \E r \in Results : BodyReturnUnchecked(t, r)
  BY Delivered, OutcomeFields DEF BodyReturnUnchecked, Orderly, EndsWith
<1>8. ~ PassThrough(t)
  <2> SUFFICES ASSUME PassThrough(t) PROVE FALSE
    OBVIOUS
  <2>1. /\ In(t, "body") /\ Pending(t) /\ ~Handled(t) /\ outcome'[t] = outcome[t]
    BY Delivered DEF PassThrough, Escapes
  <2>2. outcome'[t].kind = "exception" /\ F.on
        /\ (Contract[F.fn].name = "init" => Contract[F.fn].wrapper = "contract")
    BY <2>1 DEF Orderly, EndsWith, Pending
  <2> QED
    BY <2>1, <2>2 DEF Handled, SkipPre
<1> QED
  BY <1>1, <1>3, <1>4, <1>5, <1>6, <1>7, <1>8, EndsBy

\* For any contract and any interleaving, a call that ends in order leaves no
\* invariant unverified that was verified before.
THEOREM OrderlyEnds == Spec => OrderlyEndLeavesNothing
<1> DEFINE Step == \A t \in Tasks : Orderly(t) => unverified' \subseteq unverified
<1>1. TypeOK /\ [Next]_vars => [Step]_vars
  BY OrderlyStep
<1> QED
  BY <1>1, TypeCorrect, PTL DEF Spec, OrderlyEndLeavesNothing
----------------------------------------------------------------------------
(* Who checks *)

\* Only the innermost call of a task can be in its checks: the calls around it
\* are in their bodies, a violation on its way is in a body, and on one event
\* loop the task that is in its checks keeps the loop.
Inward ==
  \A t \in Tasks :
    /\ \A d \in 1 .. MaxDepth : d < depth[t] => frame[t][d].phase = "body"
    /\ depth[t] > 0 /\ outcome[t].kind = "violation" => Top(t).phase = "body"
    /\ ~Preemptive /\ depth[t] > 0 /\ Top(t).phase # "body" => loop = t

\* A step of one task leaves the calls of the others alone.
LEMMA OthersKept ==
  ASSUME TypeOK, NEW t \in Tasks, Wrapper(t) \/ User(t), NEW u \in Tasks, u # t
  PROVE  /\ frame'[u] = frame[u] /\ depth'[u] = depth[u] /\ outcome'[u] = outcome[u]
         /\ Top(u)' = Top(u)
<1> SUFFICES frame'[u] = frame[u] /\ depth'[u] = depth[u] /\ outcome'[u] = outcome[u]
  BY DEF Top
<1>1. CASE Wrapper(t)
  <2>1. ASSUME NEW f, SetTop(t, f)
        PROVE  frame'[u] = frame[u]
    BY <2>1 DEF SetTop, TypeOK
  <2>2. ASSUME NEW out, Leave(t, out)
        PROVE  frame'[u] = frame[u] /\ depth'[u] = depth[u] /\ outcome'[u] = outcome[u]
    BY <2>2 DEF Leave, TypeOK
  <2>3. ASSUME NEW c \in Clauses, CheckPasses(t, c) \/ CheckFails(t, c) \/ MatchError(t, c)
        PROVE  frame'[u] = frame[u] /\ depth'[u] = depth[u] /\ outcome'[u] = outcome[u]
    BY <2>1, <2>2, <2>3 DEF CheckPasses, CheckFails, MatchError
  <2>4. CASE StartEntry(t) \/ StartBody(t) \/ StartExit(t) \/ StartMatch(t)
    BY <2>1, <2>4 DEF StartEntry, StartBody, StartExit, StartMatch, Goto
  <2>5. CASE Return(t) \/ PassThrough(t) \/ NoMatch(t)
    BY <2>2, <2>5 DEF Return, PassThrough, NoMatch
  <2>6. CASE HandleException(t)
    BY <2>1, <2>6 DEF HandleException, TypeOK
  <2> QED
    BY <1>1, <2>3, <2>4, <2>5, <2>6 DEF Wrapper, StartEntry, StartBody, StartExit, StartMatch,
       HandleException
<1>2. CASE User(t)
  <2>1. ASSUME NEW f, SetTop(t, f)
        PROVE  frame'[u] = frame[u]
    BY <2>1 DEF SetTop, TypeOK
  <2>2. ASSUME NEW out, Leave(t, out)
        PROVE  frame'[u] = frame[u] /\ depth'[u] = depth[u] /\ outcome'[u] = outcome[u]
    BY <2>2 DEF Leave, TypeOK
  <2>3. ASSUME NEW out, outcome' = [outcome EXCEPT ![t] = out]
        PROVE  outcome'[u] = outcome[u]
    BY <2>3 DEF TypeOK
  <2>4. ASSUME NEW f \in Fns, NEW a \in Args, Call(t, f, a)
        PROVE  frame'[u] = frame[u] /\ depth'[u] = depth[u] /\ outcome'[u] = outcome[u]
    BY <2>4 DEF Call, TypeOK
  <2>5. ASSUME NEW r \in Results, BodyReturn(t, r) \/ BodyReturnUnchecked(t, r)
        PROVE  frame'[u] = frame[u] /\ depth'[u] = depth[u] /\ outcome'[u] = outcome[u]
    BY <2>1, <2>2, <2>3, <2>5 DEF BodyReturn, BodyReturnUnchecked
  <2>6. ASSUME NEW s \in States, BodyWrite(t, s)
        PROVE  frame'[u] = frame[u] /\ depth'[u] = depth[u] /\ outcome'[u] = outcome[u]
    BY <2>1, <2>6 DEF BodyWrite
  <2>7. CASE \/ \E e \in Exceptions : CallRejected(t, e) \/ BodyRaise(t, e)
             \/ BodyAbort(t) \/ Catch(t) \/ ResumeCancelled(t)
    BY <2>3, <2>7 DEF CallRejected, BodyRaise, BodyAbort, Catch, ResumeCancelled
  <2>8. CASE \/ \E e \in Environments : SetEnv(t, e)
             \/ \E s \in SettingsUsed : SetSettings(t, s)
             \/ Await(t) \/ Resume(t)
    BY <2>8 DEF SetEnv, SetSettings, Await, Resume
  <2> QED
    BY <1>2, <2>4, <2>5, <2>6, <2>7, <2>8 DEF User
<1> QED
  BY <1>1, <1>2

\* What a step leaves of the acting task's frames.
LEMMA SetTopFrames ==
  ASSUME TypeOK, NEW t \in Tasks, depth[t] > 0, NEW f, SetTop(t, f), depth' = depth
  PROVE  /\ Top(t)' = f
         /\ \A d \in 1 .. MaxDepth : d < depth[t] => frame'[t][d] = frame[t][d]
<1>1. depth[t] \in 1 .. MaxDepth
  BY TopTyped
<1>2. frame'[t][depth[t]] = f
  BY <1>1 DEF SetTop, TypeOK
<1>3. \A d \in 1 .. MaxDepth : d < depth[t] => frame'[t][d] = frame[t][d]
  BY <1>1 DEF SetTop, TypeOK
<1> QED
  BY <1>2, <1>3 DEF Top

LEMMA LeaveFrames ==
  ASSUME TypeOK, Inward, NEW t \in Tasks, depth[t] > 0, NEW out, Leave(t, out)
  PROVE  /\ depth'[t] = depth[t] - 1
         /\ \A d \in 1 .. MaxDepth : d <= depth'[t] => frame'[t][d].phase = "body"
         /\ depth'[t] > 0 => Top(t)'.phase = "body"
<1>1. depth[t] \in 1 .. MaxDepth /\ depth'[t] = depth[t] - 1
  BY TopTyped DEF Leave, TypeOK
<1>2. ASSUME NEW d \in 1 .. MaxDepth, d <= depth[t] - 1
      PROVE  frame'[t][d].phase = "body"
  <2>1. d < depth[t] /\ d # depth[t]
    BY <1>1, <1>2
  <2>2. frame'[t][d] = frame[t][d]
    BY <1>1, <2>1 DEF Leave, TypeOK
  <2> QED
    BY <2>1, <2>2 DEF Inward
<1>3. depth[t] - 1 > 0 => depth[t] - 1 \in 1 .. MaxDepth
  BY <1>1, BoundsAssumption
<1> QED
  BY <1>1, <1>2, <1>3 DEF Top

LEMMA CallFrames ==
  ASSUME TypeOK, Inward, NEW t \in Tasks, NEW f \in Fns, NEW a \in Args, Call(t, f, a)
  PROVE  /\ depth'[t] = depth[t] + 1 /\ depth'[t] \in 1 .. MaxDepth
         /\ \A d \in 1 .. MaxDepth : d < depth'[t] => frame'[t][d].phase = "body"
         /\ Top(t)' = Entered(t, f, a)
<1>1. depth[t] \in 0 .. MaxDepth /\ depth[t] < MaxDepth /\ depth'[t] = depth[t] + 1
  BY DEF Call, TypeOK
<1>2. depth[t] + 1 \in 1 .. MaxDepth
  BY <1>1, BoundsAssumption
<1>3. frame'[t][depth[t] + 1] = Entered(t, f, a)
  BY <1>2 DEF Call, TypeOK
<1>4. ASSUME NEW d \in 1 .. MaxDepth, d < depth[t] + 1
      PROVE  frame'[t][d].phase = "body"
  <2>1. d # depth[t] + 1 /\ (d < depth[t] \/ d = depth[t])
    BY <1>1, <1>4
  <2>2. frame'[t][d] = frame[t][d]
    BY <1>2, <2>1 DEF Call, TypeOK
  <2>3. CASE d < depth[t]
    BY <2>2, <2>3 DEF Inward
  <2>4. CASE d = depth[t]
    <3>1. depth[t] # 0
      BY <1>1, <2>4
    <3>2. Top(t).phase = "body"
      BY <3>1 DEF Call, UserCode
    <3> QED
      BY <2>2, <2>4, <3>2 DEF Top
  <2> QED
    BY <2>1, <2>3, <2>4
<1> QED
  BY <1>1, <1>2, <1>3, <1>4 DEF Top

LEMMA InitInward == Init => Inward
  BY BoundsAssumption DEF Init, Inward

\* The three ways a step can change the calls of its task: not at all, the
\* innermost one, and its end.
LEMMA StillInward ==
  ASSUME TypeOK, Inward, NEW t \in Tasks, UNCHANGED <<frame, depth>>,
         \A u \in Tasks : u # t => outcome'[u] = outcome[u],
         outcome'[t].kind = "violation" => outcome[t].kind = "violation",
         \/ loop' = loop
         \/ loop = NoTask
         \/ loop = t /\ In(t, "body")
  PROVE  Inward'
<1>1. \A u \in Tasks : /\ Top(u)' = Top(u) /\ depth'[u] = depth[u] /\ frame'[u] = frame[u]
                       /\ outcome'[u].kind = "violation" => outcome[u].kind = "violation"
  BY DEF Top
<1>2. ASSUME NEW u \in Tasks, ~Preemptive, depth[u] > 0, Top(u).phase # "body"
      PROVE  loop' = u
  <2>1. loop = u
    BY <1>2 DEF Inward
  <2>2. loop # NoTask
    BY <2>1, TasksAssumption
  <2> QED
    BY <1>2, <2>1, <2>2 DEF In
<1> QED
  BY <1>1, <1>2 DEF Inward

LEMMA TopInward ==
  ASSUME TypeOK, Inward, NEW t \in Tasks, Wrapper(t) \/ User(t), depth[t] > 0,
         NEW f, SetTop(t, f), Runs(t), UNCHANGED <<depth, loop>>,
         outcome'[t].kind = "violation" => f.phase = "body"
  PROVE  Inward'
<1>1. /\ Top(t)' = f
      /\ \A d \in 1 .. MaxDepth : d < depth[t] => frame'[t][d] = frame[t][d]
  BY SetTopFrames
<1> SUFFICES ASSUME NEW u \in Tasks
             PROVE  /\ \A d \in 1 .. MaxDepth : d < depth'[u] => frame'[u][d].phase = "body"
                    /\ depth'[u] > 0 /\ outcome'[u].kind = "violation" => Top(u)'.phase = "body"
                    /\ ~Preemptive /\ depth'[u] > 0 /\ Top(u)'.phase # "body" => loop' = u
  BY DEF Inward
<1>2. CASE u = t
  BY <1>1, <1>2 DEF Inward, Runs
<1>3. CASE u # t
  BY <1>3, OthersKept DEF Inward
<1> QED
  BY <1>2, <1>3

LEMMA LeaveInward ==
  ASSUME TypeOK, Inward, NEW t \in Tasks, Wrapper(t) \/ User(t), depth[t] > 0, Runs(t),
         NEW out, Leave(t, out)
  PROVE  Inward'
<1>1. /\ depth'[t] = depth[t] - 1 /\ depth[t] \in Nat
      /\ \A d \in 1 .. MaxDepth : d <= depth'[t] => frame'[t][d].phase = "body"
      /\ depth'[t] > 0 => Top(t)'.phase = "body"
  BY LeaveFrames, TopTyped
<1> SUFFICES ASSUME NEW u \in Tasks
             PROVE  /\ \A d \in 1 .. MaxDepth : d < depth'[u] => frame'[u][d].phase = "body"
                    /\ depth'[u] > 0 /\ outcome'[u].kind = "violation" => Top(u)'.phase = "body"
                    /\ ~Preemptive /\ depth'[u] > 0 /\ Top(u)'.phase # "body" => loop' = u
  BY DEF Inward
<1>2. CASE u = t
  BY <1>1, <1>2
<1>3. CASE u # t
  <2>1. frame'[u] = frame[u] /\ depth'[u] = depth[u] /\ outcome'[u] = outcome[u] /\ Top(u)' = Top(u)
    BY <1>3, OthersKept
  <2>2. ~Preemptive => loop = t
    BY DEF Runs
  <2> QED
    BY <1>3, <2>1, <2>2 DEF Inward
<1> QED
  BY <1>2, <1>3

LEMMA WrapperInward ==
  ASSUME TypeOK, Inward, NEW t \in Tasks, Wrapper(t)
  PROVE  Inward'
<1> DEFINE F == Top(t)
<1>1. depth[t] > 0 /\ Runs(t)
  BY DEF Wrapper, CheckPasses, CheckFails, MatchError, Checking, StartEntry, StartBody,
         StartExit, Return, HandleException, PassThrough, StartMatch, NoMatch, Done, Escapes, In
<1>2. F \in Fields /\ depth[t] \in 1 .. MaxDepth
  BY <1>1, TopTyped, FrameFields
<1>3. ASSUME NEW out, Leave(t, out)
      PROVE  Inward'
  BY <1>1, <1>3, LeaveInward
<1>4. ASSUME NEW f, SetTop(t, f), UNCHANGED <<depth, loop>>, outcome' = outcome, F.phase # "body"
      PROVE  Inward'
  <2>1. outcome'[t].kind # "violation"
    BY <1>1, <1>4 DEF Inward
  <2> QED
    BY <1>1, <1>4, <2>1, TopInward
<1>5. ASSUME NEW c \in Clauses, CheckPasses(t, c) \/ CheckFails(t, c) \/ MatchError(t, c)
      PROVE  Inward'
  BY <1>3, <1>4, <1>5 DEF CheckPasses, CheckFails, MatchError, Checking, In
<1>6. CASE StartEntry(t) \/ StartBody(t) \/ StartExit(t) \/ StartMatch(t)
  BY <1>4, <1>6 DEF StartEntry, StartBody, StartExit, StartMatch, Goto, Done, In
<1>7. CASE Return(t) \/ PassThrough(t) \/ NoMatch(t)
  BY <1>3, <1>7 DEF Return, PassThrough, NoMatch
<1>8. CASE HandleException(t)
  <2>1. outcome'[t] = Nothing
    BY <1>8 DEF HandleException, TypeOK
  <2>2. outcome'[t].kind # "violation"
    BY <2>1 DEF Nothing
  <2> QED
    BY <1>1, <1>8, <2>2, TopInward DEF HandleException
<1> QED
  BY <1>5, <1>6, <1>7, <1>8 DEF Wrapper

LEMMA UserInward ==
  ASSUME TypeOK, Inward, NEW t \in Tasks, User(t)
  PROVE  Inward'
<1>1. ASSUME NEW f \in Fns, NEW a \in Args, Call(t, f, a)
      PROVE  Inward'
  <2>1. /\ depth'[t] = depth[t] + 1
        /\ \A d \in 1 .. MaxDepth : d < depth'[t] => frame'[t][d].phase = "body"
    BY <1>1, CallFrames
  <2>2. outcome'[t] = Nothing /\ Nothing.kind # "violation"
    BY <1>1 DEF Call, TypeOK, Nothing
  <2>3. ~Preemptive => loop' = t /\ (loop = t \/ loop = NoTask)
    BY <1>1 DEF Call, UserCode, Runs
  <2> SUFFICES ASSUME NEW u \in Tasks
               PROVE  /\ \A d \in 1 .. MaxDepth : d < depth'[u] => frame'[u][d].phase = "body"
                      /\ depth'[u] > 0 /\ outcome'[u].kind = "violation" => Top(u)'.phase = "body"
                      /\ ~Preemptive /\ depth'[u] > 0 /\ Top(u)'.phase # "body" => loop' = u
    BY DEF Inward
  <2>4. CASE u = t
    BY <2>1, <2>2, <2>3, <2>4
  <2>5. CASE u # t
    <3>1. /\ frame'[u] = frame[u] /\ depth'[u] = depth[u] /\ outcome'[u] = outcome[u]
          /\ Top(u)' = Top(u)
      BY <2>5, OthersKept
    <3> QED
      BY <2>3, <2>5, <3>1, TasksAssumption DEF Inward
  <2> QED
    BY <2>4, <2>5
<1>2. ASSUME NEW r \in Results, BodyReturnUnchecked(t, r)
      PROVE  Inward'
  BY <1>2, LeaveInward DEF BodyReturnUnchecked, BodyRuns, UserCode, In
<1>3. ASSUME NEW r \in Results, BodyReturn(t, r)
      PROVE  Inward'
  <2>1. depth[t] > 0 /\ Runs(t) /\ UNCHANGED <<depth, loop>>
    <3>1. depth[t] \in Nat
      BY BoundsAssumption DEF TypeOK
    <3> QED
      BY <1>3, <3>1 DEF BodyReturn, BodyRuns, UserCode, In
  <2>2. outcome'[t] = Nothing /\ Nothing.kind # "violation"
    BY <1>3 DEF BodyReturn, TypeOK, Nothing
  <2> QED
    BY <1>3, <2>1, <2>2, TopInward DEF BodyReturn
<1>4. ASSUME NEW s \in States, BodyWrite(t, s)
      PROVE  Inward'
  <2>1. Top(t) \in Fields
    BY <1>4, TopTyped, FrameFields DEF BodyWrite, In
  <2>2. [Top(t) EXCEPT !.wrote = TRUE].phase = "body"
    BY <1>4, <2>1 DEF BodyWrite, In, Fields
  <2> QED
    BY <1>4, <2>2, TopInward DEF BodyWrite, In
<1>5. ASSUME NEW out, outcome' = [outcome EXCEPT ![t] = out], out.kind # "violation",
             UNCHANGED <<frame, depth>>, loop' = loop \/ loop = NoTask
      PROVE  Inward'
  BY <1>5, StillInward DEF TypeOK
<1>6. /\ Nothing.kind # "violation" /\ Aborted.kind # "violation"
      /\ \A e : Raised(e).kind # "violation"
  BY DEF Nothing, Aborted, Raised
<1>7. ASSUME NEW e \in Exceptions, CallRejected(t, e) \/ BodyRaise(t, e)
      PROVE  Inward'
  BY <1>5, <1>6, <1>7 DEF CallRejected, BodyRaise
<1>8. CASE BodyAbort(t) \/ Catch(t) \/ ResumeCancelled(t)
  BY <1>5, <1>6, <1>8 DEF BodyAbort, Catch, ResumeCancelled
<1>9. CASE \/ \E e \in Environments : SetEnv(t, e)
           \/ \E s \in SettingsUsed : SetSettings(t, s)
           \/ Await(t) \/ Resume(t)
  BY <1>9, StillInward DEF SetEnv, SetSettings, Await, Resume, Runs
<1> QED
  BY <1>1, <1>2, <1>3, <1>4, <1>7, <1>8, <1>9 DEF User

LEMMA StepKeepsInward == TypeOK /\ Inward /\ [Next]_vars => Inward'
<1> SUFFICES ASSUME TypeOK, Inward, [Next]_vars PROVE Inward'
  OBVIOUS
<1>1. CASE UNCHANGED vars
  BY <1>1 DEF vars, Inward, Top
<1> QED
  BY <1>1, WrapperInward, UserInward DEF Next

LEMMA AlwaysInward == Spec => []Inward
  BY InitInward, StepKeepsInward, TypeCorrect, PTL DEF Spec

LEMMA BlameStep ==
  ASSUME TypeOK, Inward, [Next]_vars, NEW t \in Tasks, depth[t] > 0,
         outcome[t].kind = "violation", outcome'[t] # outcome[t]
  PROVE  frame'[t] = frame[t] /\ depth'[t] = depth[t]
<1>1. Top(t).phase = "body" /\ Pending(t) /\ depth[t] # 0
  BY BoundsAssumption DEF Inward, Pending, TypeOK
<1>2. ~UserCode(t)
  BY <1>1 DEF UserCode
<1>3. PICK u \in Tasks : Wrapper(u) \/ User(u)
  BY DEF Next, vars
<1>4. u = t
  BY <1>3, OthersKept
<1>5. CASE Wrapper(t)
  <2>1. ~ \E c \in Clauses : CheckPasses(t, c) \/ CheckFails(t, c) \/ MatchError(t, c)
    BY <1>1 DEF CheckPasses, CheckFails, MatchError, Checking, In
  <2>2. ~(StartEntry(t) \/ StartBody(t) \/ StartExit(t) \/ Return(t) \/ StartMatch(t) \/ NoMatch(t))
    BY <1>1 DEF StartEntry, StartBody, StartExit, Return, StartMatch, NoMatch, Done, In
  <2>3. ~HandleException(t)
    BY DEF HandleException, Handled
  <2>4. ~PassThrough(t)
    BY Delivered DEF PassThrough
  <2> QED
    BY <1>5, <2>1, <2>2, <2>3, <2>4 DEF Wrapper
<1>6. CASE User(t)
  <2>1. ~ \E s \in States : BodyWrite(t, s)
    BY DEF BodyWrite
  <2> QED
    BY <1>2, <1>6, <2>1 DEF User, Call, CallRejected, BodyRaise, BodyReturn, BodyReturnUnchecked,
       BodyRuns, BodyAbort, Catch, SetEnv, SetSettings, Await, Resume, ResumeCancelled
<1> QED
  BY <1>3, <1>4, <1>5, <1>6

\* A violation is handed from call to call untouched, however many wrappers it
\* meets and whatever their functions declare: what changes it is user code
\* that catches it, or a cancellation, and these change no call.
THEOREM BlameKept == Spec => ViolationKeepsBlame
<1> DEFINE Step ==
      \A t \in Tasks :
        /\ depth[t] > 0 /\ outcome[t].kind = "violation"
        /\ outcome'[t] # outcome[t]
        => frame'[t] = frame[t] /\ depth'[t] = depth[t]
<1>1. TypeOK /\ Inward /\ [Next]_vars => [Step]_vars
  BY BlameStep
<1> QED
  BY <1>1, TypeCorrect, AlwaysInward, PTL DEF Spec, ViolationKeepsBlame
----------------------------------------------------------------------------
(* What was checked stands *)

\* What ChecksStand says of one frame, on an object in state s, as far as the
\* clauses in S go.
Stands(f, s, S) ==
  f.on =>
    /\ f.phase = "pre"    => \A c \in S \cap (Contract[f.fn].pre \ f.todo) : Passes(c, s, f.val)
    /\ f.phase = "entry"  => /\ \A c \in S \cap Contract[f.fn].pre : Passes(c, s, f.val)
                             /\ ~SkipPre(f.fn) => \A i \in S \cap (f.active \ f.todo) : Holds(i, s)
    /\ f.phase = "post"   => \A c \in S \cap (Contract[f.fn].post \ f.todo) : Passes(c, s, f.val)
    /\ f.phase = "exit"   => /\ \A c \in S \cap Contract[f.fn].post : Passes(c, s, f.val)
                             /\ \A i \in S \cap (f.active \ f.todo) : Holds(i, s)
    /\ f.phase = "excinv" => \A i \in S \cap (f.active \ f.todo) : Holds(i, s)
    /\ f.phase = "match"  => \A i \in S \cap f.active : Holds(i, s)

Standing(S) == \A t \in Tasks : depth[t] > 0 => Stands(Top(t), obj, S)

\* ChecksStand is about all clauses.
LEMMA ChecksStandIff == TypeOK => (ChecksStand <=> Standing(Clauses))
<1> SUFFICES ASSUME TypeOK, NEW t \in Tasks, depth[t] > 0
             PROVE  LET f == Top(t)
                        C == Contract[f.fn]
                    IN /\ Clauses \cap C.pre = C.pre
                       /\ Clauses \cap (C.pre \ f.todo) = C.pre \ f.todo
                       /\ Clauses \cap C.post = C.post
                       /\ Clauses \cap (C.post \ f.todo) = C.post \ f.todo
                       /\ Clauses \cap f.active = f.active
                       /\ Clauses \cap (f.active \ f.todo) = f.active \ f.todo
  BY DEF ChecksStand, Standing, Stands
<1>1. Top(t).fn \in Fns /\ Top(t).active \subseteq Clauses
  BY TopTyped, FrameFields
<1>2. /\ Contract[Top(t).fn].pre \subseteq Clauses
      /\ Contract[Top(t).fn].post \subseteq Clauses
  BY <1>1, ContractTyped
<1> QED
  BY <1>1, <1>2

LEMMA StandingNextIff ==
  ASSUME NEW S
  PROVE  Standing(S)' <=> \A t \in Tasks : depth'[t] > 0 => Stands(Top(t)', obj', S)
  BY DEF Standing, Stands, Holds, Passes, Verdict

LEMMA BodyStands == \A f, s, S : f.phase = "body" => Stands(f, s, S)
  BY DEF Stands

\* While a task is in the checks of a wrapper no other does anything.
LEMMA ActsOnLoop ==
  ASSUME ~Preemptive, NEW t \in Tasks, Wrapper(t) \/ User(t)
  PROVE  loop = t \/ loop = NoTask
<1>1. CASE Wrapper(t)
  BY <1>1 DEF Wrapper, CheckPasses, CheckFails, MatchError, Checking, StartEntry, StartBody,
     StartExit, Return, HandleException, PassThrough, StartMatch, NoMatch, Done, Escapes, Runs
<1>2. CASE User(t)
  BY <1>2 DEF User, Call, CallRejected, BodyRaise, BodyWrite, BodyReturn, BodyReturnUnchecked,
     BodyRuns, BodyAbort, Catch, Escapes, SetEnv, SetSettings, Await, Resume, ResumeCancelled,
     UserCode, Runs
<1> QED
  BY <1>1, <1>2

\* One event loop, or an object that one thread uses and no other.
Undisturbed == ~Preemptive \/ \A t, u \in Tasks : t = u

\* The clauses that look at the arguments, the result or the exception and
\* not at the object.
Detached ==
  {c \in Clauses : \A s, u \in States, v \in Values : Passes(c, s, v) => Passes(c, u, v)}

\* Others do not disturb the checks of a task where they cannot act, and
\* cannot disturb what does not depend on the object.
LEMMA OthersStand ==
  ASSUME NEW S, Undisturbed \/ S \subseteq Detached, TypeOK, TypeOK', Inward, Standing(S),
         NEW t \in Tasks, Wrapper(t) \/ User(t), NEW u \in Tasks, u # t, depth'[u] > 0
  PROVE  Stands(Top(u)', obj', S)
<1>1. Top(u)' = Top(u) /\ depth[u] > 0
  BY OthersKept
<1>2. CASE Undisturbed
  <2>1. ~Preemptive
    BY <1>2 DEF Undisturbed
  <2>2. loop # u
    BY <2>1, ActsOnLoop, TasksAssumption
  <2>3. Top(u).phase = "body"
    BY <1>1, <2>1, <2>2 DEF Inward
  <2> QED
    BY <1>1, <2>3, BodyStands
<1>3. CASE S \subseteq Detached
  <2> DEFINE F == Top(u)
  <2>1. F \in FrameType /\ F.val \in Values /\ NoValue \in Values
    BY <1>1, TopTyped, FrameFields DEF Values
  <2>2. obj \in States /\ obj' \in States
    BY DEF TypeOK
  <2>3. \A c \in S, v \in Values : Passes(c, obj, v) => Passes(c, obj', v)
    BY <1>3, <2>2 DEF Detached
  <2>4. \A c \in S : Holds(c, obj) => Holds(c, obj')
    BY <2>1, <2>3 DEF Holds
  <2>5. Stands(F, obj, S)
    BY <1>1 DEF Standing
  <2> HIDE DEF F
  <2>6. Stands(F, obj', S)
    BY <2>1, <2>3, <2>4, <2>5 DEF Stands
  <2> QED
    BY <1>1, <2>6 DEF F
<1> QED
  BY <1>2, <1>3

\* Evaluating a clause adds it to those that stand.
LEMMA PassingStands ==
  ASSUME NEW S, NEW f \in FrameType, Stands(f, obj, S), NEW c,
         f.phase \in {"pre", "entry", "post", "exit", "excinv"}, Passes(c, obj, Checked(f))
  PROVE  Stands([f EXCEPT !.todo = @ \ {c}], obj, S)
<1> DEFINE g == [f EXCEPT !.todo = @ \ {c}]
<1>1. /\ g.phase = f.phase /\ g.on = f.on /\ g.fn = f.fn /\ g.active = f.active
      /\ g.val = f.val /\ g.todo = f.todo \ {c}
  BY FrameFields DEF Fields
<1>2. \A R : R \ g.todo \subseteq (R \ f.todo) \cup {c}
  BY <1>1
<1> HIDE DEF g
<1>3. CASE f.phase \in {"pre", "post"}
  <2>1. Checked(f) = f.val
    BY <1>3 DEF Checked
  <2> QED
    BY <1>1, <1>2, <1>3, <2>1 DEF Stands
<1>4. CASE f.phase \in {"entry", "exit", "excinv"}
  <2>1. Holds(c, obj)
    BY <1>4 DEF Checked, Holds
  <2> QED
    BY <1>1, <1>2, <1>4, <2>1 DEF Stands
<1> QED
  BY <1>3, <1>4

LEMMA WrapperStands ==
  ASSUME NEW S, TypeOK, Inward, Standing(S), NEW t \in Tasks, Wrapper(t), depth'[t] > 0
  PROVE  Stands(Top(t)', obj', S)
<1> DEFINE F == Top(t)
           C == Contract[F.fn]
<1>1. depth[t] > 0
  BY DEF Wrapper, CheckPasses, CheckFails, MatchError, Checking, StartEntry, StartBody,
         StartExit, Return, HandleException, PassThrough, StartMatch, NoMatch, Done, Escapes, In
<1>2. F \in FrameType /\ F \in Fields /\ WellFormed(F) /\ Stands(F, obj, S)
  BY <1>1, TopTyped, FrameFields DEF Standing
<1>3. ASSUME NEW out, Leave(t, out)
      PROVE  Stands(Top(t)', obj', S)
  BY <1>1, <1>3, LeaveFrames, BodyStands
<1>4. ASSUME NEW f, SetTop(t, f), UNCHANGED <<obj, depth>>, Stands(f, obj, S)
      PROVE  Stands(Top(t)', obj', S)
  BY <1>1, <1>4, SetTopFrames
<1>5. ASSUME NEW c \in Clauses, CheckPasses(t, c)
      PROVE  Stands(Top(t)', obj', S)
  BY <1>2, <1>4, <1>5, PassingStands DEF CheckPasses, Checking
<1>6. ASSUME NEW c \in Clauses, CheckFails(t, c)
      PROVE  Stands(Top(t)', obj', S)
  BY <1>3, <1>6 DEF CheckFails
<1>7. ASSUME NEW c \in Clauses, MatchError(t, c)
      PROVE  Stands(Top(t)', obj', S)
  <2> DEFINE g == [F EXCEPT !.todo = @ \ {c}]
  <2>1. g.phase = "match" /\ g.on = F.on /\ g.active = F.active /\ F.phase = "match"
    BY <1>2, <1>7 DEF MatchError, In, Fields
  <2>2. Stands(g, obj, S)
    BY <1>2, <2>1 DEF Stands
  <2> QED
    BY <1>3, <1>4, <1>7, <2>2 DEF MatchError
<1>8. CASE StartEntry(t)
  <2> DEFINE todo == IF SkipPre(F.fn) THEN {} ELSE F.active
             g == [F EXCEPT !.phase = "entry", !.todo = todo]
  <2>1. /\ g.phase = "entry" /\ g.on = F.on /\ g.active = F.active /\ g.fn = F.fn
        /\ g.val = F.val /\ g.todo = todo
    BY <1>2 DEF Fields
  <2>2. F.phase = "pre" /\ F.todo = {}
    BY <1>8 DEF StartEntry, Done, In
  <2>3. ~SkipPre(F.fn) => F.active \ todo = {}
    OBVIOUS
  <2> HIDE DEF todo
  <2>4. SetTop(t, g) /\ UNCHANGED <<obj, depth>>
    BY <1>8 DEF StartEntry, Goto, todo
  <2> HIDE DEF g
  <2>5. Stands(g, obj, S)
    BY <1>2, <2>1, <2>2, <2>3 DEF Stands
  <2> QED
    BY <1>4, <2>4, <2>5
<1>9. CASE StartBody(t)
  <2>1. [F EXCEPT !.phase = "body", !.todo = {}].phase = "body"
    BY <1>2 DEF Fields
  <2> QED
    BY <1>4, <1>9, <2>1, BodyStands DEF StartBody, Goto
<1>10. CASE StartExit(t)
  <2> DEFINE g == [F EXCEPT !.phase = "exit", !.todo = F.active]
  <2>1. /\ g.phase = "exit" /\ g.on = F.on /\ g.active = F.active /\ g.fn = F.fn
        /\ g.val = F.val /\ g.todo = F.active
    BY <1>2 DEF Fields
  <2>2. F.phase = "post" /\ F.todo = {}
    BY <1>10 DEF StartExit, Done, In
  <2>3. SetTop(t, g) /\ UNCHANGED <<obj, depth>>
    BY <1>10 DEF StartExit, Goto
  <2> HIDE DEF g
  <2>4. Stands(g, obj, S)
    BY <1>2, <2>1, <2>2 DEF Stands
  <2> QED
    BY <1>4, <2>3, <2>4
<1>11. CASE Return(t) \/ PassThrough(t) \/ NoMatch(t)
  BY <1>3, <1>11 DEF Return, PassThrough, NoMatch
<1>12. CASE HandleException(t)
  <2> DEFINE g == [F EXCEPT !.phase = "excinv", !.todo = F.active, !.val = outcome[t].value]
  <2>1. g.phase = "excinv" /\ g.active = F.active /\ g.todo = F.active
    BY <1>2 DEF Fields
  <2>2. SetTop(t, g) /\ UNCHANGED <<obj, depth>>
    BY <1>12 DEF HandleException
  <2> HIDE DEF g
  <2>3. Stands(g, obj, S)
    BY <2>1 DEF Stands
  <2> QED
    BY <1>4, <2>2, <2>3
<1>13. CASE StartMatch(t)
  <2> DEFINE g == [F EXCEPT !.phase = "match", !.todo = C.err]
  <2>1. g.phase = "match" /\ g.active = F.active /\ g.on = F.on
    BY <1>2 DEF Fields
  <2>2. F.phase = "excinv" /\ F.todo = {}
    BY <1>13 DEF StartMatch, Done, In
  <2>3. SetTop(t, g) /\ UNCHANGED <<obj, depth>>
    BY <1>13 DEF StartMatch, Goto
  <2> HIDE DEF g
  <2>4. Stands(g, obj, S)
    BY <1>2, <2>1, <2>2 DEF Stands
  <2> QED
    BY <1>4, <2>3, <2>4
<1> QED
  BY <1>5, <1>6, <1>7, <1>8, <1>9, <1>10, <1>11, <1>12, <1>13 DEF Wrapper

LEMMA UserStands ==
  ASSUME NEW S, TypeOK, Inward, Standing(S), NEW t \in Tasks, User(t), depth'[t] > 0
  PROVE  Stands(Top(t)', obj', S)
<1> DEFINE F == Top(t)
<1>1. ASSUME NEW f \in Fns, NEW a \in Args, Call(t, f, a)
      PROVE  Stands(Top(t)', obj', S)
  <2>1. Top(t)' = Entered(t, f, a)
    BY <1>1, CallFrames
  <2>2. Stands(Entered(t, f, a), obj', S)
    BY DEF Entered, Stands
  <2> QED
    BY <2>1, <2>2
<1>2. ASSUME NEW r \in Results, BodyReturnUnchecked(t, r)
      PROVE  Stands(Top(t)', obj', S)
  BY <1>2, LeaveFrames, BodyStands DEF BodyReturnUnchecked, BodyRuns, In
<1>3. ASSUME NEW r \in Results, BodyReturn(t, r)
      PROVE  Stands(Top(t)', obj', S)
  <2> DEFINE g == [F EXCEPT !.phase = "post", !.todo = Contract[F.fn].post, !.val = r]
  <2>1. depth[t] > 0 /\ SetTop(t, g) /\ depth' = depth
    BY <1>3 DEF BodyReturn, BodyRuns, In
  <2>2. F \in Fields
    BY <2>1, TopTyped, FrameFields
  <2>3. g.phase = "post" /\ g.todo = Contract[g.fn].post
    BY <2>2 DEF Fields
  <2> HIDE DEF g
  <2>4. Stands(g, obj', S)
    BY <2>3 DEF Stands
  <2> QED
    BY <2>1, <2>4, SetTopFrames
<1>4. ASSUME NEW s \in States, BodyWrite(t, s)
      PROVE  Stands(Top(t)', obj', S)
  <2> DEFINE g == [F EXCEPT !.wrote = TRUE]
  <2>1. depth[t] > 0 /\ SetTop(t, g) /\ depth' = depth /\ F.phase = "body"
    BY <1>4 DEF BodyWrite, In
  <2>2. g.phase = "body"
    BY <2>1, TopTyped, FrameFields DEF Fields
  <2> HIDE DEF g
  <2> QED
    BY <2>1, <2>2, SetTopFrames, BodyStands
<1>5. CASE UNCHANGED <<frame, depth, obj>>
  <2>1. Top(t)' = Top(t) /\ depth[t] > 0
    BY <1>5 DEF Top
  <2> QED
    BY <1>5, <2>1 DEF Standing
<1> QED
  BY <1>1, <1>2, <1>3, <1>4, <1>5 DEF User, CallRejected, BodyRaise, BodyAbort, Catch, SetEnv,
     SetSettings, Await, Resume, ResumeCancelled

LEMMA StepKeepsStanding ==
  ASSUME NEW S, Undisturbed \/ S \subseteq Detached
  PROVE  TypeOK /\ TypeOK' /\ Inward /\ Standing(S) /\ [Next]_vars => Standing(S)'
<1> SUFFICES ASSUME TypeOK, TypeOK', Inward, Standing(S), [Next]_vars
             PROVE  Standing(S)'
  OBVIOUS
<1>1. ASSUME NEW t \in Tasks, Wrapper(t) \/ User(t)
      PROVE  Standing(S)'
  <2> SUFFICES ASSUME NEW u \in Tasks, depth'[u] > 0 PROVE Stands(Top(u)', obj', S)
    BY StandingNextIff
  <2>1. CASE u = t
    BY <1>1, <2>1, WrapperStands, UserStands
  <2>2. CASE u # t
    BY <1>1, <2>2, OthersStand
  <2> QED
    BY <2>1, <2>2
<1>2. CASE UNCHANGED vars
  <2>1. obj' = obj /\ depth' = depth /\ \A t \in Tasks : Top(t)' = Top(t)
    BY <1>2 DEF vars, Top
  <2>2. \A t \in Tasks : depth[t] > 0 => Stands(Top(t), obj, S)
    BY DEF Standing
  <2> QED
    BY <2>1, <2>2, StandingNextIff
<1> QED
  BY <1>1, <1>2 DEF Next

LEMMA InitStanding == \A S : Init => Standing(S)
  BY DEF Init, Standing

\* On one event loop no clause goes stale in the middle of a wrapper's checks:
\* what was found true before the body, or after it, is so until the wrapper is
\* done.  Nor does one with threads, if the object belongs to one of them.
\* With threads that share it it is false, hence the assumption.
THEOREM ChecksAlwaysStand ==
  ASSUME Undisturbed
  PROVE  Spec => []ChecksStand
<1>1. Init => Standing(Clauses)
  BY InitStanding
<1>2. TypeOK /\ TypeOK' /\ Inward /\ Standing(Clauses) /\ [Next]_vars => Standing(Clauses)'
  BY StepKeepsStanding
<1>3. TypeOK /\ Standing(Clauses) => ChecksStand
  BY ChecksStandIff
<1> QED
  BY <1>1, <1>2, <1>3, TypeCorrect, AlwaysInward, PTL DEF Spec

\* A result that is checked is returned from a frame that has nothing left to
\* check.
LEMMA ReturnStep ==
  ASSUME NEW S, TypeOK, Standing(S), [Next]_vars, NEW t \in Tasks,
         EndsWith(t, "return"), ~Unchecked(t, outcome'[t].value)
  PROVE  /\ depth[t] > 0
         /\ \A c \in S \cap Contract[Top(t).fn].post : Passes(c, obj', outcome'[t].value)
         /\ \A i \in S \cap Top(t).active : Holds(i, obj')
<1> DEFINE F == Top(t)
<1>1. Ends(t) /\ outcome'[t].kind = "return"
  BY DEF EndsWith
<1>2. \A e : Raised(e).kind # "return"
  BY DEF Raised
<1>3. \A k, f : Violation(k, f).kind # "return"
  BY DEF Violation
<1>4. ~ \E c \in Clauses : CheckFails(t, c)
  BY <1>1, <1>3, Delivered DEF CheckFails
<1>5. ~ \E c \in Clauses : MatchError(t, c) /\ depth' # depth
  BY <1>1, <1>2, <1>3, Delivered DEF MatchError
<1>6. ~NoMatch(t)
  BY <1>1, <1>2, <1>3, Delivered DEF NoMatch
<1>7. ~PassThrough(t)
  BY <1>1, Delivered DEF PassThrough, Escapes, Pending
<1>8. ~ \E r \in Results : BodyReturnUnchecked(t, r)
  BY Delivered, OutcomeFields DEF BodyReturnUnchecked
<1>9. Return(t)
  BY <1>1, <1>4, <1>5, <1>6, <1>7, <1>8, EndsBy
<1>10. /\ depth[t] > 0 /\ F.phase = "exit" /\ F.todo = {}
       /\ outcome'[t].value = F.val /\ obj' = obj
  BY <1>9, Delivered, OutcomeFields DEF Return, Done, In
<1>11. WellFormed(F) /\ F.on
  BY <1>10, TopTyped, FrameFields DEF WellFormed
<1>12. Stands(F, obj, S)
  BY <1>10 DEF Standing
<1> QED
  BY <1>10, <1>11, <1>12 DEF Stands

\* On one event loop, or where one thread has the object for itself, a caller
\* that gets a checked result gets it with every postcondition and every
\* active invariant true at that moment.
THEOREM ReturnsHonour ==
  ASSUME Undisturbed
  PROVE  Spec => ReturnHonoursContract
<1> DEFINE Step ==
      \A t \in Tasks :
        EndsWith(t, "return") /\ ~Unchecked(t, outcome'[t].value) =>
          /\ \A c \in Contract[Top(t).fn].post : Passes(c, obj', outcome'[t].value)
          /\ \A i \in Top(t).active : Holds(i, obj')
<1>1. TypeOK /\ ChecksStand /\ [Next]_vars => [Step]_vars
  <2> SUFFICES ASSUME TypeOK, Standing(Clauses), [Next]_vars, NEW t \in Tasks,
                      EndsWith(t, "return"), ~Unchecked(t, outcome'[t].value)
               PROVE  /\ \A c \in Contract[Top(t).fn].post : Passes(c, obj', outcome'[t].value)
                      /\ \A i \in Top(t).active : Holds(i, obj')
    BY ChecksStandIff
  <2>1. Top(t).active \subseteq Clauses /\ Contract[Top(t).fn].post \subseteq Clauses
    <3>1. depth[t] > 0
      BY ReturnStep
    <3> QED
      BY <3>1, TopTyped, FrameFields, ContractTyped
  <2> QED
    BY <2>1, ReturnStep
<1> QED
  BY <1>1, TypeCorrect, ChecksAlwaysStand, PTL DEF Spec, ReturnHonoursContract

\* What threads keep that share an object: a checked result satisfies every
\* postcondition that looks at the result and not at the object, whatever
\* the other threads do to the object while it is checked.
DetachedHonoured ==
  [][\A t \in Tasks :
       EndsWith(t, "return") /\ ~Unchecked(t, outcome'[t].value) =>
         \A c \in Detached \cap Contract[Top(t).fn].post : Passes(c, obj', outcome'[t].value)]_vars

\* Threads may share the object: no hypothesis on who else runs.
THEOREM ThreadsHonour == Spec => DetachedHonoured
<1> DEFINE Step ==
      \A t \in Tasks :
        EndsWith(t, "return") /\ ~Unchecked(t, outcome'[t].value) =>
          \A c \in Detached \cap Contract[Top(t).fn].post : Passes(c, obj', outcome'[t].value)
<1>1. TypeOK /\ Standing(Detached) /\ [Next]_vars => [Step]_vars
  BY ReturnStep
<1>2. Init => Standing(Detached)
  BY InitStanding
<1>3. TypeOK /\ TypeOK' /\ Inward /\ Standing(Detached) /\ [Next]_vars => Standing(Detached)'
  BY StepKeepsStanding
<1> QED
  BY <1>1, <1>2, <1>3, TypeCorrect, AlwaysInward, PTL DEF Spec, DetachedHonoured
----------------------------------------------------------------------------
(* How checks go on *)

\* The order of the checks.  Those after the body and those after an exception
\* in it exclude each other: neither is inside of the other's try.
Follows == {<<"pre", "entry">>, <<"entry", "body">>, <<"post", "exit">>, <<"excinv", "match">>}

\* A frame in its checks gets on: it is done with a clause, or with all of its
\* phase, and still checks the same call, about the same value.
GetsOn(f, g) ==
  /\ g = [f EXCEPT !.phase = g.phase, !.todo = g.todo]
  /\ \/ g.phase = f.phase /\ g.todo \subseteq f.todo /\ g.todo # f.todo
     \/ f.todo = {} /\ <<f.phase, g.phase>> \in Follows

\* A wrapper in its checks gets on or hands out and ends; it tries no clause
\* twice, starts no check again because a later one failed, and nothing else
\* happens to it, whatever the other tasks do.  With finitely many clauses it
\* is therefore done after a bounded number of its own steps, which is what
\* ChecksSettle needs besides a scheduler.
ChecksGetOn ==
  [][\A t \in Tasks :
       /\ depth[t] > 0 /\ Top(t).phase # "body"
       /\ frame'[t] # frame[t] \/ depth'[t] # depth[t]
       => \/ Ends(t)
          \/ depth'[t] = depth[t] /\ GetsOn(Top(t), Top(t)')]_vars

LEMMA GetOnStep ==
  ASSUME TypeOK, [Next]_vars, NEW t \in Tasks, depth[t] > 0, Top(t).phase # "body",
         frame'[t] # frame[t] \/ depth'[t] # depth[t]
  PROVE  Ends(t) \/ (depth'[t] = depth[t] /\ GetsOn(Top(t), Top(t)'))
<1> DEFINE F == Top(t)
           Good == Ends(t) \/ (depth'[t] = depth[t] /\ GetsOn(F, Top(t)'))
<1>1. PICK u \in Tasks : Wrapper(u) \/ User(u)
  BY DEF Next, vars
<1>2. u = t
  BY <1>1, OthersKept
<1>3. F \in Fields /\ depth[t] # 0 /\ ~In(t, "body")
  BY TopTyped, FrameFields, BoundsAssumption DEF In, TypeOK
<1>4. ASSUME NEW out, Leave(t, out)
      PROVE  Ends(t)
  BY <1>4 DEF Leave, Ends, TypeOK
<1>5. ASSUME NEW p, NEW s, Goto(t, p, s), depth' = depth, F.todo = {}, <<F.phase, p>> \in Follows
      PROVE  depth'[t] = depth[t] /\ GetsOn(F, Top(t)')
  <2> DEFINE G == [F EXCEPT !.phase = p, !.todo = s]
  <2>1. Top(t)' = G
    BY <1>5, SetTopFrames DEF Goto
  <2>2. G.phase = p /\ G = [F EXCEPT !.phase = G.phase, !.todo = G.todo]
    BY <1>3 DEF Fields
  <2> QED
    BY <1>5, <2>1, <2>2 DEF GetsOn
<1>6. ASSUME NEW c \in F.todo, SetTop(t, [F EXCEPT !.todo = @ \ {c}]), depth' = depth
      PROVE  depth'[t] = depth[t] /\ GetsOn(F, Top(t)')
  <2> DEFINE G == [F EXCEPT !.todo = @ \ {c}]
  <2>1. Top(t)' = G
    BY <1>6, SetTopFrames
  <2>2. /\ G.phase = F.phase /\ G.todo = F.todo \ {c}
        /\ G = [F EXCEPT !.phase = G.phase, !.todo = G.todo]
    BY <1>3 DEF Fields
  <2> QED
    BY <1>6, <2>1, <2>2 DEF GetsOn
<1>7. CASE User(t)
  <2>1. ~UserCode(t)
    BY <1>3 DEF UserCode
  <2>2. ~ \E s \in States : BodyWrite(t, s)
    BY <1>3 DEF BodyWrite
  <2>3. UNCHANGED <<frame, depth>>
    BY <1>7, <2>1, <2>2 DEF User, Call, CallRejected, BodyRaise, BodyReturn, BodyReturnUnchecked,
       BodyRuns, BodyAbort, Catch, SetEnv, SetSettings, Await, Resume, ResumeCancelled
  <2> QED
    BY <2>3
<1>8. CASE Wrapper(t)
  <2>1. ASSUME NEW c \in Clauses, CheckPasses(t, c)
        PROVE  Good
    BY <1>6, <2>1 DEF CheckPasses, Checking, IsNext
  <2>2. ASSUME NEW c \in Clauses, CheckFails(t, c)
        PROVE  Good
    BY <1>4, <2>2 DEF CheckFails
  <2>3. ASSUME NEW c \in Clauses, MatchError(t, c)
        PROVE  Good
    BY <1>4, <1>6, <2>3 DEF MatchError, IsNext
  <2>4. CASE StartEntry(t)
    BY <1>5, <2>4 DEF StartEntry, Done, In, Follows
  <2>5. CASE StartBody(t)
    BY <1>5, <2>5 DEF StartBody, Done, In, Follows
  <2>6. CASE StartExit(t)
    BY <1>5, <2>6 DEF StartExit, Done, In, Follows
  <2>7. CASE StartMatch(t)
    BY <1>5, <2>7 DEF StartMatch, Done, In, Follows
  <2>8. CASE Return(t) \/ PassThrough(t) \/ NoMatch(t)
    BY <1>4, <2>8 DEF Return, PassThrough, NoMatch
  <2>9. ~HandleException(t)
    BY <1>3 DEF HandleException, Escapes
  <2> QED
    BY <1>8, <2>1, <2>2, <2>3, <2>4, <2>5, <2>6, <2>7, <2>8, <2>9 DEF Wrapper
<1> QED
  BY <1>1, <1>2, <1>7, <1>8

\* Between two checks a wrapper can only get on: true of any number of tasks
\* and of threads as well.
THEOREM ChecksOnlyGetOn == Spec => ChecksGetOn
<1> DEFINE Step ==
      \A t \in Tasks :
        /\ depth[t] > 0 /\ Top(t).phase # "body"
        /\ frame'[t] # frame[t] \/ depth'[t] # depth[t]
        => \/ Ends(t)
           \/ depth'[t] = depth[t] /\ GetsOn(Top(t), Top(t)')
<1>1. TypeOK /\ [Next]_vars => [Step]_vars
  BY GetOnStep
<1> QED
  BY <1>1, TypeCorrect, PTL DEF Spec, ChecksGetOn

\* On one event loop the checks of a wrapper, from the first to the last before
\* the body and again after it, are one piece: no await sits between them
\* (_check_entry_contracts, _check_success_contracts and
\* _handle_invocation_exception are plain functions), so no other task runs,
\* and neither the object nor what is switched on changes.
ChecksInOnePiece ==
  [][\A t, u \in Tasks :
       depth[t] > 0 /\ Top(t).phase # "body" =>
         /\ UNCHANGED <<obj, env, settings>>
         /\ u # t => frame'[u] = frame[u] /\ depth'[u] = depth[u] /\ outcome'[u] = outcome[u]]_vars

LEMMA OnePieceStep ==
  ASSUME ~Preemptive, TypeOK, Inward, [Next]_vars,
         NEW t \in Tasks, NEW u \in Tasks, depth[t] > 0, Top(t).phase # "body"
  PROVE  /\ UNCHANGED <<obj, env, settings>>
         /\ u # t => frame'[u] = frame[u] /\ depth'[u] = depth[u] /\ outcome'[u] = outcome[u]
<1>1. loop = t /\ ~UserCode(t) /\ ~In(t, "body")
  BY BoundsAssumption DEF Inward, UserCode, In, TypeOK
<1>2. ASSUME NEW w \in Tasks, Wrapper(w) \/ User(w)
      PROVE  w = t
  BY <1>1, <1>2, ActsOnLoop, TasksAssumption
<1>3. ASSUME Wrapper(t)
      PROVE  UNCHANGED <<obj, env, settings>>
  BY <1>3 DEF Wrapper, CheckPasses, CheckFails, MatchError, StartEntry, StartBody, StartExit,
     Return, HandleException, PassThrough, StartMatch, NoMatch, Leave, vars
<1>4. ASSUME User(t)
      PROVE  UNCHANGED <<obj, env, settings>>
  BY <1>1, <1>4 DEF User, Call, CallRejected, BodyRaise, BodyWrite, BodyReturn,
     BodyReturnUnchecked, BodyRuns, BodyAbort, Catch, SetEnv, SetSettings, Await, Resume,
     ResumeCancelled
<1>5. CASE UNCHANGED vars
  BY <1>5 DEF vars
<1>6. CASE Next
  <2>1. Wrapper(t) \/ User(t)
    BY <1>2, <1>6 DEF Next
  <2> QED
    BY <1>3, <1>4, <2>1, OthersKept
<1> QED
  BY <1>5, <1>6

\* Tasks of one event loop cannot get in between two checks.  It is why
\* ChecksStand holds there; with threads it is false.
THEOREM ChecksUninterrupted ==
  ASSUME ~Preemptive
  PROVE  Spec => ChecksInOnePiece
<1> DEFINE Step ==
      \A t, u \in Tasks :
        depth[t] > 0 /\ Top(t).phase # "body" =>
          /\ UNCHANGED <<obj, env, settings>>
          /\ u # t => frame'[u] = frame[u] /\ depth'[u] = depth[u] /\ outcome'[u] = outcome[u]
<1>1. TypeOK /\ Inward /\ [Next]_vars => [Step]_vars
  BY OnePieceStep
<1> QED
  BY <1>1, TypeCorrect, AlwaysInward, PTL DEF Spec, ChecksInOnePiece
============================================================================
