----------------------- MODULE DecoratorLayersProofs -----------------------
(***************************************************************************)
(* Proofs about DecoratorLayers, for any number of layers and any policies *)
(* of their invariants.                                                    *)
(***************************************************************************)
EXTENDS DecoratorLayers, SequenceTheorems, TLAPS

(* Types *)

LEMMA InitTyped == Init => TypeOK
<1> SUFFICES ASSUME Init PROVE TypeOK
  OBVIOUS
<1>1. /\ layers \in Seq(Layer) /\ Top = 0
      /\ mark \in Seq(Marks) /\ Len(mark) = 1 /\ put \in Seq(Marks) /\ Len(put) = 1
      /\ lists \in Seq(SUBSET (1 .. 0)) /\ Len(lists) = 1
  BY DEF Init, Top, Marks
<1> QED
  BY <1>1, BoundsAssumption DEF Init, TypeOK, Phases

LEMMA Elements ==
  ASSUME TypeOK
  PROVE  /\ Top \in Nat /\ \A j \in 1 .. Top : layers[j] \in Layer
         /\ \A j \in 1 .. Top + 1 : mark[j] \in Marks /\ put[j] \in Marks /\ lists[j] \in SUBSET (1 .. Top)
<1>1. Top \in Nat /\ Len(mark) = Top + 1 /\ Len(put) = Top + 1 /\ Len(lists) = Top + 1
  BY LenProperties DEF TypeOK, Top
<1> QED
  BY <1>1, ElementOfSeq DEF TypeOK, Top

\* A new layer leaves everything below it as it was, and begins with the mark
\* of what it wraps.
LEMMA Grown ==
  ASSUME TypeOK, NEW by \in Wrappers, NEW policy \in PoliciesUsed, Wrap(by, policy)
  PROVE  /\ Top' = Top + 1 /\ Top' <= MaxLayers
         /\ layers' \in Seq(Layer) /\ \A j \in 1 .. Top : layers'[j] = layers[j]
         /\ layers'[Top + 1].by = by /\ layers'[Top + 1].seen = SeenBy(Top + 1)
         /\ mark' \in Seq(Marks) /\ Len(mark') = Top + 2
         /\ \A j \in 1 .. Top + 1 : mark'[j] = mark[j]
         /\ mark'[Top + 2] = mark[Top + 1]
         /\ put' \in Seq(Marks) /\ Len(put') = Top + 2
         /\ \A j \in 1 .. Top + 1 : put'[j] = put[j]
         /\ put'[Top + 2] = "none"
         /\ lists' \in Seq(SUBSET (1 .. Top + 1)) /\ Len(lists') = Top + 2
         /\ lists'[Top + 2] = Merged(by)
<1> DEFINE new == [by |-> by, seen |-> SeenBy(Top + 1), policy |-> policy]
<1>1. /\ Top \in Nat /\ Top < MaxLayers /\ MaxLayers \in Nat
      /\ mark[Top + 1] \in Marks /\ lists[Top + 1] \in SUBSET (1 .. Top)
  BY Elements, BoundsAssumption DEF Wrap
<1>2. new \in Layer
  BY NamesAssumption DEF Layer, SeenBy, Flavours, TypeOK
<1>3. "none" \in Marks
  BY DEF Marks
<1>4. Merged(by) \in SUBSET (1 .. Top + 1)
  BY <1>1 DEF Merged
<1>5. /\ layers' \in Seq(Layer) /\ Len(layers') = Top + 1
      /\ \A j \in 1 .. Top : layers'[j] = layers[j]
      /\ layers'[Top + 1] = new
  BY <1>2, AppendProperties DEF Wrap, TypeOK, Top
<1>6. /\ mark' \in Seq(Marks) /\ Len(mark') = Top + 2
      /\ \A j \in 1 .. Top + 1 : mark'[j] = mark[j]
      /\ mark'[Top + 2] = mark[Top + 1]
  <2>1. Len(mark) = Top + 1 /\ mark \in Seq(Marks) /\ mark' = Append(mark, mark[Top + 1])
    BY DEF Wrap, TypeOK
  <2> QED
    BY <1>1, <2>1, AppendProperties
<1>7. /\ put' \in Seq(Marks) /\ Len(put') = Top + 2
      /\ \A j \in 1 .. Top + 1 : put'[j] = put[j]
      /\ put'[Top + 2] = "none"
  <2>1. Len(put) = Top + 1 /\ put \in Seq(Marks) /\ put' = Append(put, "none")
    BY DEF Wrap, TypeOK
  <2> QED
    BY <1>1, <1>3, <2>1, AppendProperties
<1>8. /\ lists' \in Seq(SUBSET (1 .. Top + 1)) /\ Len(lists') = Top + 2
      /\ lists'[Top + 2] = Merged(by)
  <2>1. Len(lists) = Top + 1 /\ lists' = Append(lists, Merged(by))
    BY DEF Wrap, TypeOK
  <2>2. lists \in Seq(SUBSET (1 .. Top + 1))
    <3>1. SUBSET (1 .. Top) \subseteq SUBSET (1 .. Top + 1) /\ lists \in Seq(SUBSET (1 .. Top))
      BY <1>1 DEF TypeOK
    <3> QED
      BY <3>1, SeqMonotonic
  <2> QED
    BY <1>1, <1>4, <2>1, <2>2, AppendProperties
<1> QED
  BY <1>1, <1>5, <1>6, <1>7, <1>8 DEF Top
----------------------------------------------------------------------------
\* What a mark changes.
LEMMA Marked ==
  ASSUME TypeOK, NEW m \in Marks \ {"none"}, Mark(m)
  PROVE  /\ mark' \in Seq(Marks) /\ Len(mark') = Top + 1
         /\ put' \in Seq(Marks) /\ Len(put') = Top + 1
         /\ \A j \in 1 .. Top : mark'[j] = mark[j] /\ put'[j] = put[j]
         /\ mark'[Top + 1] = m /\ put'[Top + 1] = m
<1>1. Top \in Nat
  BY Elements
<1>2. /\ mark \in Seq(Marks) /\ Len(mark) = Top + 1 /\ mark' = [mark EXCEPT ![Top + 1] = m]
      /\ put \in Seq(Marks) /\ Len(put) = Top + 1 /\ put' = [put EXCEPT ![Top + 1] = m]
  BY DEF TypeOK, Mark
<1>3. m \in Marks /\ Top + 1 \in 1 .. Len(mark) /\ Top + 1 \in 1 .. Len(put)
  BY <1>1, <1>2
<1>4. /\ mark' \in Seq(Marks) /\ Len(mark') = Top + 1
      /\ \A j \in 1 .. Top + 1 : mark'[j] = IF j = Top + 1 THEN m ELSE mark[j]
  BY <1>2, <1>3, ExceptSeq
<1>5. /\ put' \in Seq(Marks) /\ Len(put') = Top + 1
      /\ \A j \in 1 .. Top + 1 : put'[j] = IF j = Top + 1 THEN m ELSE put[j]
  BY <1>2, <1>3, ExceptSeq
<1> QED
  BY <1>1, <1>4, <1>5

\* A call, the way in, the body, and the way out.
CallStep ==
  \/ Call \/ EnterLayer \/ LayerFails
  \/ BodyReturns \/ BodyRaises \/ Open \/ LeaveLayer \/ RaiseLayer
  \/ Advance \/ Yield

LEMMA CallStepKeeps == CallStep => UNCHANGED decorators
  BY DEF CallStep, Call, EnterLayer, LayerFails, BodyReturns, BodyRaises, Open, LeaveLayer,
     RaiseLayer, Advance, Yield

LEMMA EvaluatedTyped ==
  ASSUME TypeOK, NEW j \in 1 .. Top
  PROVE  Evaluated(j) \subseteq 1 .. Top /\ After(j) \subseteq 1 .. Top
  BY DEF Evaluated, After, TypeOK

LEMMA OutwardTyped ==
  ASSUME TypeOK, NEW next \in Nat \ {0}, NEW going \in {"returning", "raising"},
         NEW there \in {"returned", "raised", "opened"}, Outward(going, there, next)
  PROVE  /\ phase' \in Phases /\ at' \in 0 .. Top /\ phase' # "advanced"
         /\ phase' \in {"returning", "raising"} => at' > 0
  BY Elements DEF Outward, Phases

LEMMA CallStepTyped ==
  ASSUME TypeOK, CallStep
  PROVE  /\ phase' \in Phases /\ at' \in 0 .. Top /\ fresh' \subseteq 1 .. Top
         /\ phase' \in {"returning", "raising"} => at' > 0
         /\ phase' = "advanced" => Top > 0
<1> DEFINE Result == /\ phase' \in Phases /\ at' \in 0 .. Top /\ fresh' \subseteq 1 .. Top
                     /\ phase' \in {"returning", "raising"} => at' > 0
                     /\ phase' = "advanced" => Top > 0
<1>1. Top \in Nat /\ at \in 0 .. Top /\ fresh \subseteq 1 .. Top
  BY Elements DEF TypeOK
<1>2. CASE Call
  BY <1>1, <1>2 DEF Call, Phases
<1>3. CASE EnterLayer
  <2>1. at \in 1 .. Top
    BY <1>1, <1>3 DEF EnterLayer
  <2> QED
    BY <1>1, <1>3, <2>1, EvaluatedTyped DEF EnterLayer, Phases
<1>4. CASE LayerFails
  <2>1. at \in 1 .. Top
    BY <1>1, <1>4 DEF LayerFails
  <2> QED
    BY <1>1, <1>4, <2>1, EvaluatedTyped DEF LayerFails, Phases
<1>5. CASE BodyReturns
  <2>1. Outward("returning", "returned", 1) /\ fresh' = {}
    BY <1>5 DEF BodyReturns
  <2> QED
    BY <2>1, OutwardTyped
<1>6. CASE BodyRaises
  <2>1. Outward("raising", "raised", 1) /\ fresh' = {}
    BY <1>6 DEF BodyRaises
  <2> QED
    BY <2>1, OutwardTyped
<1>7. CASE Open
  <2>1. Outward("returning", "opened", 1) /\ fresh' = fresh
    BY <1>7 DEF Open
  <2> QED
    BY <1>1, <2>1, OutwardTyped
<1>8. CASE LeaveLayer
  <2>1. at \in 1 .. Top
    BY <1>1, <1>8 DEF LeaveLayer, TypeOK
  <2>2. PICK there \in {"returned", "opened"} : Outward("returning", there, at + 1)
    BY <1>8 DEF LeaveLayer
  <2>3. at + 1 \in Nat \ {0} /\ fresh' = After(at)
    BY <1>8, <2>1 DEF LeaveLayer
  <2> QED
    BY <2>1, <2>2, <2>3, EvaluatedTyped, OutwardTyped
<1>9. CASE RaiseLayer
  <2>1. at \in 1 .. Top
    BY <1>1, <1>9 DEF RaiseLayer, TypeOK
  <2>2. Outward("raising", "raised", at + 1) /\ at + 1 \in Nat \ {0} /\ fresh' = After(at)
    BY <1>9, <2>1 DEF RaiseLayer
  <2> QED
    BY <2>1, <2>2, EvaluatedTyped, OutwardTyped
<1>10. CASE Advance
  BY <1>1, <1>10 DEF Advance, Phases
<1>11. CASE Yield
  <2>1. 1 \in 1 .. Top
    BY <1>1, <1>11 DEF Yield, TypeOK
  <2> QED
    BY <1>1, <1>11, <2>1, EvaluatedTyped DEF Yield, Phases
<1> QED
  BY <1>2, <1>3, <1>4, <1>5, <1>6, <1>7, <1>8, <1>9, <1>10, <1>11 DEF CallStep

LEMMA NextTyped ==
  ASSUME TypeOK, [Next]_vars
  PROVE  TypeOK'
<1>1. ASSUME NEW m \in Marks \ {"none"}, Mark(m)
      PROVE  TypeOK'
  BY <1>1, Marked DEF Mark, TypeOK, Top
<1>2. ASSUME NEW by \in Wrappers, NEW policy \in PoliciesUsed, Wrap(by, policy)
      PROVE  TypeOK'
  <2>1. Top \in Nat
    BY Elements
  <2>2. at' \in 0 .. Top + 1 /\ fresh' \subseteq 1 .. Top + 1
    BY <1>2, <2>1 DEF Wrap, TypeOK
  <2>3. phase' = "decorating" /\ phase' \in Phases /\ flavour' \in Flavours /\ name' \in NamesUsed
    BY <1>2 DEF Wrap, TypeOK
  <2>4. /\ Top' = Top + 1 /\ Top' <= MaxLayers /\ layers' \in Seq(Layer)
        /\ mark' \in Seq(Marks) /\ Len(mark') = Top + 2
        /\ put' \in Seq(Marks) /\ Len(put') = Top + 2
        /\ lists' \in Seq(SUBSET (1 .. Top + 1)) /\ Len(lists') = Top + 2
    BY <1>2, Grown
  <2>5. Top + 2 = Top' + 1
    BY <2>1, <2>4
  <2> QED
    BY <2>2, <2>3, <2>4, <2>5 DEF TypeOK
<1>3. CASE CallStep
  <2>1. UNCHANGED decorators /\ Top' = Top
    BY <1>3, CallStepKeeps DEF decorators, Top
  <2> QED
    BY <1>3, <2>1, CallStepTyped DEF decorators, TypeOK
<1>4. CASE UNCHANGED vars
  BY <1>4 DEF vars, TypeOK, Top
<1> QED
  BY <1>1, <1>2, <1>3, <1>4 DEF Next, CallStep

\* Marks, layers and lists of clauses keep step with the function objects, and
\* a call is never at a layer that does not exist.
THEOREM TypeCorrect == Spec => []TypeOK
<1> QED
  BY InitTyped, NextTyped, PTL DEF Spec
----------------------------------------------------------------------------
(* Marks *)

\* Object j has the mark m[j] of the nearest object below it that was given
\* one, if any was.
Reaches(m, p, j) ==
  \/ m[j] = "none" /\ \A k \in 1 .. j : p[k] = "none"
  \/ \E k \in 1 .. j : p[k] = m[j] /\ p[k] # "none" /\ \A l \in k + 1 .. j : p[l] = "none"

LEMMA ReachesIff ==
  /\ MarksReachOutward <=> \A j \in 1 .. Top + 1 : Reaches(mark, put, j)
  /\ MarksReachOutward' <=> \A j \in 1 .. Top' + 1 : Reaches(mark', put', j)
  BY DEF MarksReachOutward, Reaches

LEMMA ReachesKept ==
  ASSUME NEW m, NEW p, NEW n, NEW q, NEW j \in Nat \ {0}, Reaches(m, p, j),
         \A k \in 1 .. j : n[k] = m[k] /\ q[k] = p[k]
  PROVE  Reaches(n, q, j)
<1>1. j \in 1 .. j
  OBVIOUS
<1>2. CASE m[j] = "none" /\ \A k \in 1 .. j : p[k] = "none"
  BY <1>1, <1>2 DEF Reaches
<1>3. ASSUME NEW k \in 1 .. j, p[k] = m[j], p[k] # "none", \A l \in k + 1 .. j : p[l] = "none"
      PROVE  Reaches(n, q, j)
  <2>1. \A l \in k + 1 .. j : q[l] = "none"
    BY <1>3
  <2> QED
    BY <1>1, <1>3, <2>1 DEF Reaches
<1> QED
  BY <1>2, <1>3 DEF Reaches

\* A mark that is passed on reaches as far.
LEMMA ReachesOn ==
  ASSUME NEW m, NEW p, NEW j \in Nat \ {0}, Reaches(m, p, j), m[j + 1] = m[j], p[j + 1] = "none"
  PROVE  Reaches(m, p, j + 1)
<1>1. CASE m[j] = "none" /\ \A k \in 1 .. j : p[k] = "none"
  <2>1. \A k \in 1 .. j + 1 : p[k] = "none"
    BY <1>1
  <2> QED
    BY <1>1, <2>1 DEF Reaches
<1>2. ASSUME NEW k \in 1 .. j, p[k] = m[j], p[k] # "none", \A l \in k + 1 .. j : p[l] = "none"
      PROVE  Reaches(m, p, j + 1)
  <2>1. k \in 1 .. j + 1 /\ \A l \in k + 1 .. j + 1 : p[l] = "none"
    BY <1>2
  <2> QED
    BY <1>2, <2>1 DEF Reaches
<1> QED
  BY <1>1, <1>2 DEF Reaches

LEMMA MarksStillReach ==
  ASSUME TypeOK, MarksReachOutward, [Next]_vars
  PROVE  MarksReachOutward'
<1>1. Top \in Nat /\ \A j \in 1 .. Top + 1 : Reaches(mark, put, j)
  BY Elements, ReachesIff
<1>2. ASSUME NEW m \in Marks \ {"none"}, Mark(m)
      PROVE  MarksReachOutward'
  <2>1. Top' = Top
    BY <1>2 DEF Mark, Top
  <2>2. \A j \in 1 .. Top : mark'[j] = mark[j] /\ put'[j] = put[j]
    BY <1>2, Marked
  <2>3. \A j \in 1 .. Top : Reaches(mark', put', j)
    BY <1>1, <2>2, ReachesKept
  <2>4. mark'[Top + 1] = m /\ put'[Top + 1] = m /\ m # "none"
    BY <1>2, Marked
  <2>5. Reaches(mark', put', Top + 1)
    <3>1. Top + 1 \in 1 .. Top + 1 /\ \A l \in (Top + 1) + 1 .. Top + 1 : put'[l] = "none"
      BY <1>1
    <3> QED
      BY <2>4, <3>1 DEF Reaches
  <2> QED
    BY <1>1, <2>1, <2>3, <2>5, ReachesIff
<1>3. ASSUME NEW by \in Wrappers, NEW policy \in PoliciesUsed, Wrap(by, policy)
      PROVE  MarksReachOutward'
  <2>1. /\ Top' = Top + 1 /\ \A j \in 1 .. Top + 1 : mark'[j] = mark[j] /\ put'[j] = put[j]
        /\ mark'[Top + 2] = mark[Top + 1] /\ put'[Top + 2] = "none"
    BY <1>3, Grown
  <2>2. \A j \in 1 .. Top + 1 : Reaches(mark', put', j)
    BY <1>1, <2>1, ReachesKept
  <2>3. Reaches(mark', put', (Top + 1) + 1)
    <3>1. /\ Top + 1 \in Nat \ {0} /\ Reaches(mark', put', Top + 1) /\ (Top + 1) + 1 = Top + 2
          /\ mark'[Top + 1] = mark[Top + 1]
      BY <1>1, <2>1, <2>2
    <3> QED
      BY <2>1, <3>1, ReachesOn
  <2> QED
    BY <1>1, <2>1, <2>2, <2>3, ReachesIff
<1>4. CASE UNCHANGED decorators
  BY <1>4 DEF decorators, MarksReachOutward, Top
<1> QED
  BY <1>2, <1>3, <1>4, CallStepKeeps DEF Next, CallStep, vars, decorators

\* A role mark put on a method anywhere in a stack of decorators is read by
\* every layer above it, up to the next mark, because functools.wraps hands it
\* on from wrapper to wrapper.
THEOREM MarksReach == Spec => []MarksReachOutward
<1>1. Init => MarksReachOutward
  BY DEF Init, MarksReachOutward, Top
<1> QED
  BY <1>1, MarksStillReach, TypeCorrect, PTL DEF Spec
----------------------------------------------------------------------------
(* Metadata *)

LEMMA MetadataStillComplete ==
  ASSUME TypeOK, MetadataComplete, [Next]_vars
  PROVE  MetadataComplete'
<1>1. Top \in Nat
  BY Elements
<1>2. ASSUME NEW by \in Wrappers, NEW policy \in PoliciesUsed, Wrap(by, policy),
             \A j \in 2 .. Top + 1 : layers'[j].by = "class"
      PROVE  lists'[Top + 2] = 1 .. Top + 1
  <2>1. /\ \A j \in 1 .. Top : layers'[j] = layers[j]
        /\ layers'[Top + 1].by = by /\ lists'[Top + 2] = Merged(by)
    BY <1>2, Grown
  <2>2. lists[Top + 1] = 1 .. Top
    <3>1. \A j \in 2 .. Top : layers[j].by = "class"
      BY <1>1, <1>2, <2>1
    <3> QED
      BY <3>1 DEF MetadataComplete
  <2>3. by = "class" \/ Top = 0
    BY <1>1, <1>2, <2>1
  <2>4. Merged(by) = (1 .. Top) \cup {Top + 1}
    BY <1>1, <2>2, <2>3 DEF Merged
  <2> QED
    BY <1>1, <2>1, <2>4
<1>3. ASSUME NEW by \in Wrappers, NEW policy \in PoliciesUsed, Wrap(by, policy)
      PROVE  MetadataComplete'
  <2>1. Top' = Top + 1 /\ Top' + 1 = Top + 2
    BY <1>1, <1>3, Grown
  <2> QED
    BY <1>2, <1>3, <2>1 DEF MetadataComplete
<1>4. CASE UNCHANGED <<layers, lists>>
  BY <1>4 DEF MetadataComplete, Top
<1> QED
  BY <1>3, <1>4, CallStepKeeps DEF Next, CallStep, Mark, vars, decorators

\* The metadata of a method lists the clauses of all its decorators when
\* @contract is innermost and @invariant_class alone adds to it
\* (_merge_metadata); a later @contract starts the list again.
THEOREM MetadataLists == Spec => []MetadataComplete
<1>1. Init => MetadataComplete
  BY DEF Init, MetadataComplete, Top
<1> QED
  BY <1>1, MetadataStillComplete, TypeCorrect, PTL DEF Spec
----------------------------------------------------------------------------
(* Checks after the body *)

\* Each layer knows the flavour it was put on.
SeenRight == \A j \in 1 .. Top : layers[j].seen = SeenBy(j)

\* A generator is opened and advanced, anything else returns or raises.
PhasesRight ==
  /\ phase \in {"opened", "advanced", "yielded"} => flavour = "generator"
  /\ phase \in {"returned", "raised", "raising"} => flavour # "generator"

\* How far the answer has come, so far have the invariants been evaluated.
Behind ==
  /\ phase = "returning" /\ flavour # "generator" => \A j \in 1 .. at - 1 : Active(j) => j \in fresh
  /\ phase = "raising" => \A j \in 1 .. at - 1 : Active(j) => j \in fresh \/ Skips(j)
  /\ phase = "returned" => \A j \in 1 .. Top : Active(j) => j \in fresh
  /\ phase = "raised" => \A j \in 1 .. Top : Active(j) => j \in fresh \/ Skips(j)
  /\ phase = "yielded" /\ Top = 1 => \A j \in 1 .. Top : Active(j) => j \in fresh

ChecksFollow == SeenRight /\ PhasesRight /\ Behind

LEMMA FollowImplies == TypeOK /\ ChecksFollow => EveryLayerVerifies
  BY Elements DEF ChecksFollow, PhasesRight, Behind, EveryLayerVerifies, Answered, Verified

LEMMA DecoratingFollows ==
  ASSUME TypeOK, ChecksFollow, phase = "decorating", phase' = phase, SeenRight'
  PROVE  ChecksFollow'
  BY DEF ChecksFollow, PhasesRight, Behind

LEMMA SameLayers ==
  ASSUME UNCHANGED decorators
  PROVE  /\ Top' = Top /\ SeenRight' = SeenRight
         /\ \A j : Active(j)' = Active(j) /\ Skips(j)' = Skips(j)
  BY DEF decorators, Top, SeenRight, SeenBy, Active, Skips

\* A layer that is not skipped on the way out evaluates what is active.
LEMMA AfterEvaluates ==
  ASSUME TypeOK, SeenRight, flavour # "generator", NEW i \in 1 .. Top
  PROVE  /\ fresh \subseteq After(i)
         /\ phase = "returning" /\ Active(i) => i \in After(i)
         /\ phase = "raising" /\ Active(i) => i \in After(i) \/ Skips(i)
<1>1. layers[i].seen # "generator"
  BY DEF SeenRight, SeenBy
<1> QED
  BY <1>1 DEF After, Checks, Evaluated

LEMMA StillFollow ==
  ASSUME TypeOK, ChecksFollow, [Next]_vars
  PROVE  ChecksFollow'
<1> USE DEF ChecksFollow
<1>1. Top \in Nat
  BY Elements
<1>2. ASSUME NEW m \in Marks \ {"none"}, Mark(m)
      PROVE  ChecksFollow'
  <2>1. SeenRight'
    BY <1>2 DEF Mark, SeenRight, SeenBy, Top
  <2> QED
    BY <1>2, <2>1, DecoratingFollows DEF Mark
<1>3. ASSUME NEW by \in Wrappers, NEW policy \in PoliciesUsed, Wrap(by, policy)
      PROVE  ChecksFollow'
  <2>1. /\ Top' = Top + 1 /\ \A j \in 1 .. Top : layers'[j] = layers[j]
        /\ layers'[Top + 1].seen = SeenBy(Top + 1) /\ flavour' = flavour
    BY <1>3, Grown DEF Wrap
  <2>2. SeenRight'
    BY <1>1, <2>1 DEF SeenRight, SeenBy
  <2> QED
    BY <1>3, <2>2, DecoratingFollows DEF Wrap
<1>4. ASSUME UNCHANGED decorators, PhasesRight', Behind'
      PROVE  ChecksFollow'
  BY <1>4, SameLayers
<1>5. CASE Call \/ EnterLayer \/ LayerFails
  <2>1. phase' \in {"entering", "violated"}
    BY <1>5 DEF Call, EnterLayer, LayerFails
  <2> QED
    BY <1>4, <1>5, <2>1, CallStepKeeps DEF CallStep, PhasesRight, Behind
<1>6. CASE BodyReturns \/ BodyRaises
  <2>1. flavour # "generator" /\ UNCHANGED decorators
    BY <1>6 DEF BodyReturns, BodyRaises
  <2>2. \/ phase' \in {"returned", "raised"} /\ Top = 0
        \/ phase' \in {"returning", "raising"} /\ at' = 1
    BY <1>1, <1>6 DEF BodyReturns, BodyRaises, Outward
  <2>3. 1 .. 1 - 1 = {} /\ (Top = 0 => 1 .. Top = {})
    OBVIOUS
  <2> QED
    BY <1>4, <2>1, <2>2, <2>3, SameLayers DEF PhasesRight, Behind, decorators
<1>7. CASE Open
  <2>1. flavour = "generator" /\ UNCHANGED decorators /\ phase' \in {"opened", "returning"}
    BY <1>7 DEF Open, Outward
  <2> QED
    BY <1>4, <2>1 DEF PhasesRight, Behind, decorators
<1>8. CASE LeaveLayer /\ flavour = "generator"
  <2>1. UNCHANGED decorators /\ phase' \in {"opened", "returning"}
    BY <1>8 DEF LeaveLayer, Outward
  <2> QED
    BY <1>4, <1>8, <2>1 DEF PhasesRight, Behind, decorators
<1>9. CASE LeaveLayer /\ flavour # "generator"
  <2>1. /\ UNCHANGED decorators /\ phase = "returning" /\ fresh' = After(at) /\ at \in 1 .. Top
        /\ Outward("returning", "returned", at + 1)
    BY <1>9 DEF LeaveLayer, TypeOK
  <2>2. \A j \in 1 .. at : Active(j) => j \in fresh'
    BY <1>9, <2>1, AfterEvaluates DEF Behind
  <2>3. \/ phase' = "returned" /\ at = Top
        \/ phase' = "returning" /\ at' - 1 = at
    BY <1>1, <2>1 DEF Outward
  <2> QED
    BY <1>4, <1>9, <2>1, <2>2, <2>3, SameLayers DEF PhasesRight, Behind, decorators
<1>10. CASE RaiseLayer
  <2>1. /\ UNCHANGED decorators /\ phase = "raising" /\ fresh' = After(at) /\ at \in 1 .. Top
        /\ Outward("raising", "raised", at + 1) /\ flavour # "generator"
    BY <1>10 DEF RaiseLayer, TypeOK, PhasesRight
  <2>2. \A j \in 1 .. at : Active(j) => j \in fresh' \/ Skips(j)
    BY <2>1, AfterEvaluates DEF Behind
  <2>3. \/ phase' = "raised" /\ at = Top
        \/ phase' = "raising" /\ at' - 1 = at
    BY <1>1, <2>1 DEF Outward
  <2> QED
    BY <1>4, <2>1, <2>2, <2>3, SameLayers DEF PhasesRight, Behind, decorators
<1>11. CASE Advance
  <2>1. /\ flavour = "generator" /\ UNCHANGED decorators
        /\ \/ phase' = "advanced"
           \/ phase' = "yielded" /\ Top = 0
    BY <1>1, <1>11 DEF Advance, PhasesRight
  <2> QED
    BY <1>4, <2>1, SameLayers DEF PhasesRight, Behind, decorators
<1>12. CASE Yield
  <2>1. /\ flavour = "generator" /\ UNCHANGED decorators /\ fresh' = Evaluated(1)
        /\ phase' \in {"yielded", "violated"}
    BY <1>12 DEF Yield, PhasesRight
  <2>2. Top = 1 => \A j \in 1 .. Top : Active(j) => j \in fresh'
    BY <2>1 DEF Evaluated
  <2> QED
    BY <1>4, <2>1, <2>2, SameLayers DEF PhasesRight, Behind, decorators
<1>13. CASE UNCHANGED vars
  <2>1. UNCHANGED decorators /\ UNCHANGED <<phase, at, fresh>>
    BY <1>13 DEF vars, decorators
  <2> QED
    BY <1>4, <2>1, SameLayers DEF PhasesRight, Behind, decorators
<1> QED
  BY <1>2, <1>3, <1>5, <1>6, <1>7, <1>8, <1>9, <1>10, <1>11, <1>12, <1>13 DEF Next

\* In any stack of decorators around a function or a coroutine every layer has
\* evaluated the invariants its policy asks for, after the body, when the
\* caller gets the result or the exception; the class wrapper of a constructor
\* alone lets an exception pass.  The only decorator of a generator does so at
\* each yield.
THEOREM LayersVerify == Spec => []EveryLayerVerifies
<1>1. Init => ChecksFollow
  BY DEF Init, ChecksFollow, SeenRight, PhasesRight, Behind, Top
<1> QED
  BY <1>1, StillFollow, FollowImplies, TypeCorrect, PTL DEF Spec
============================================================================
