-------------------------- MODULE DecoratorLayers --------------------------
(***************************************************************************)
(* One method under several decorators (contracts.py): marks, @contract    *)
(* and @invariant_class, in any order, and then calls that walk the        *)
(* wrappers inward and their answers that walk them outward.               *)
(*                                                                         *)
(* Function object 1 is the function itself, object j + 1 the wrapper that *)
(* layer j put around object j.  functools.wraps copies the attributes of  *)
(* an object to its wrapper.  Each layer has one invariant; settings are   *)
(* the default ones and contracts are on (ContractCall varies both).       *)
(***************************************************************************)
EXTENDS Naturals, Sequences, ClauseRules

CONSTANTS
  MaxLayers,     \* bound on the layers of decorators
  NamesUsed,     \* the classes of names methods have
  PoliciesUsed   \* the policies their invariants have

Flavours == {"sync", "async", "generator"}
Wrappers == {"contract", "class"}
Defaults == [debug |-> FALSE, expensive |-> TRUE]

ASSUME NamesAssumption == NamesUsed \subseteq NameClasses /\ PoliciesUsed \subseteq Policies
ASSUME BoundsAssumption == MaxLayers \in Nat

VARIABLES
  flavour,  \* what the method itself is
  name,     \* the class of its name
  layers,   \* layers[j]: its decorator, the flavour it saw, the policy of its invariant
  mark,     \* mark[j]: the role attribute of object j
  put,      \* history: the mark a programmer put on object j
  lists,    \* lists[j]: the layers in the metadata of object j
  phase,
  at,       \* the layer a call is about to enter, or an answer about to leave
  fresh     \* the layers whose invariant was evaluated in this call, since its body last ran

vars == <<flavour, name, layers, mark, put, lists, phase, at, fresh>>
decorators == <<flavour, name, layers, mark, put, lists>>

Phases == {"decorating", "entering", "returning", "raising",
           "returned", "raised", "violated", "opened", "advanced", "yielded"}
Layer == [by : Wrappers, seen : Flavours, policy : Policies]
Top == Len(layers)

TypeOK ==
  /\ flavour \in Flavours /\ name \in NamesUsed
  /\ layers \in Seq(Layer) /\ Top <= MaxLayers
  /\ mark \in Seq(Marks) /\ put \in Seq(Marks) /\ lists \in Seq(SUBSET (1 .. Top))
  /\ Len(mark) = Top + 1 /\ Len(put) = Top + 1 /\ Len(lists) = Top + 1
  /\ phase \in Phases
  /\ at \in 0 .. Top
  /\ phase \in {"returning", "raising"} => at > 0
  /\ phase = "advanced" => Top > 0
  /\ fresh \subseteq 1 .. Top
----------------------------------------------------------------------------
(* Decorating *)

\* The wrapper of an async generator function is a plain function that calls
\* it; the wrapper of a coroutine function is one itself.
SeenBy(j) == IF j > 1 /\ flavour = "generator" THEN "sync" ELSE flavour

Init ==
  /\ flavour \in Flavours /\ name \in NamesUsed
  /\ layers = <<>> /\ mark = <<"none">> /\ put = <<"none">> /\ lists = <<{}>>
  /\ phase = "decorating" /\ at = 0 /\ fresh = {}

\* @mutating and @read_only set an attribute of the object they are given.
Mark(m) ==
  /\ phase = "decorating"
  /\ mark' = [mark EXCEPT ![Top + 1] = m]
  /\ put' = [put EXCEPT ![Top + 1] = m]
  /\ UNCHANGED <<flavour, name, layers, lists, phase, at, fresh>>

\* @invariant_class adds its clauses to the metadata of what it wraps,
\* @contract replaces them.
Merged(by) == IF by = "class" THEN lists[Top + 1] \cup {Top + 1} ELSE {Top + 1}

Wrap_Bare(by, policy) ==  \* slip: no functools.wraps
  /\ phase = "decorating" /\ Top < MaxLayers
  /\ layers' = Append(layers, [by |-> by, seen |-> SeenBy(Top + 1), policy |-> policy])
  /\ mark' = Append(mark, "none")
  /\ put' = Append(put, "none")
  /\ lists' = Append(lists, Merged(by))
  /\ UNCHANGED <<flavour, name, phase, at, fresh>>

Wrap_Overwrites(by, policy) ==  \* slip: _merge_metadata forgets the existing clauses
  /\ phase = "decorating" /\ Top < MaxLayers
  /\ layers' = Append(layers, [by |-> by, seen |-> SeenBy(Top + 1), policy |-> policy])
  /\ mark' = Append(mark, mark[Top + 1])
  /\ put' = Append(put, "none")
  /\ lists' = Append(lists, {Top + 1})
  /\ UNCHANGED <<flavour, name, phase, at, fresh>>

Wrap(by, policy) ==
  /\ phase = "decorating" /\ Top < MaxLayers
  /\ layers' = Append(layers, [by |-> by, seen |-> SeenBy(Top + 1), policy |-> policy])
  /\ mark' = Append(mark, mark[Top + 1])
  /\ put' = Append(put, "none")
  /\ lists' = Append(lists, Merged(by))
  /\ UNCHANGED <<flavour, name, phase, at, fresh>>
----------------------------------------------------------------------------
(* Calls *)

\* The role is read off the object the layer wraps, not off its wrapper.
Active(j) ==
  InvariantShouldRun(layers[j].policy, "cheap", MethodRole(mark[j], name), Defaults)

Evaluated(j) == IF Active(j) THEN fresh \cup {j} ELSE fresh

\* The class wrapper of a constructor checks neither at entry nor after an
\* exception; a layer that saw the generator function hands its own object
\* out unchecked, a layer around it checks the object as if it were a result.
Skips(j) == layers[j].by = "class" /\ name = "init"
Checks(j) == IF phase = "returning" THEN layers[j].seen # "generator" ELSE ~Skips(j)

After(j) == IF Checks(j) THEN Evaluated(j) ELSE fresh

Call ==
  /\ phase \in {"decorating", "returned", "raised", "violated", "opened", "yielded"}
  /\ phase' = "entering" /\ at' = Top /\ fresh' = {}
  /\ UNCHANGED decorators

EnterLayer ==
  /\ phase = "entering" /\ at > 0
  /\ at' = at - 1
  /\ fresh' = After(at)
  /\ UNCHANGED <<decorators, phase>>

\* The check of a layer fails: the outer layers pass the violation on.
LayerFails ==
  /\ phase \in {"entering", "returning", "raising"} /\ at > 0
  /\ Active(at) /\ Checks(at)
  /\ phase' = "violated" /\ at' = 0 /\ fresh' = Evaluated(at)
  /\ UNCHANGED decorators

\* The answer of the method itself, or of its innermost layers, goes outward;
\* at the outermost layer it reaches the caller.
Outward(going, there, next) ==
  IF next > Top THEN phase' = there /\ at' = 0 ELSE phase' = going /\ at' = next

BodyReturns ==
  /\ phase = "entering" /\ at = 0 /\ flavour # "generator"
  /\ fresh' = {}
  /\ Outward("returning", "returned", 1)
  /\ UNCHANGED decorators

BodyRaises ==
  /\ phase = "entering" /\ at = 0 /\ flavour # "generator"
  /\ fresh' = {}
  /\ Outward("raising", "raised", 1)
  /\ UNCHANGED decorators

\* Calling an async generator function runs nothing of its body.
Open ==
  /\ phase = "entering" /\ at = 0 /\ flavour = "generator"
  /\ Outward("returning", "opened", 1)
  /\ UNCHANGED <<decorators, fresh>>

LeaveLayer ==
  /\ phase = "returning"
  /\ fresh' = After(at)
  /\ Outward("returning", IF flavour = "generator" THEN "opened" ELSE "returned", at + 1)
  /\ UNCHANGED decorators

RaiseLayer_ClassPasses ==  \* slip: class wrappers have no except Exception clause
  /\ phase = "raising"
  /\ fresh' = IF layers[at].by = "class" THEN fresh ELSE After(at)
  /\ Outward("raising", "raised", at + 1)
  /\ UNCHANGED decorators

RaiseLayer ==
  /\ phase = "raising"
  /\ fresh' = After(at)
  /\ Outward("raising", "raised", at + 1)
  /\ UNCHANGED decorators

\* The consumer advances the generator: the body runs up to a yield, and what
\* checks it is the object the innermost layer put around it, if any.
Advance ==
  /\ phase \in {"opened", "yielded"}
  /\ fresh' = {}
  /\ phase' = IF Top > 0 THEN "advanced" ELSE "yielded"
  /\ UNCHANGED <<decorators, at>>

Yield ==
  /\ phase = "advanced"
  /\ fresh' = Evaluated(1)
  /\ phase' \in IF Active(1) THEN {"yielded", "violated"} ELSE {"yielded"}
  /\ UNCHANGED <<decorators, at>>

Next ==
  \/ \E m \in Marks \ {"none"} : Mark(m)
  \/ \E by \in Wrappers, policy \in PoliciesUsed : Wrap(by, policy)
  \/ Call \/ EnterLayer \/ LayerFails
  \/ BodyReturns \/ BodyRaises \/ Open \/ LeaveLayer \/ RaiseLayer
  \/ Advance \/ Yield

Spec == Init /\ [][Next]_vars
----------------------------------------------------------------------------
(* Properties *)

\* A mark counts for every layer above the object it was put on, up to the
\* next mark: a layer reads it through any number of wrappers.
MarksReachOutward ==
  \A j \in 1 .. Top + 1 :
    \/ mark[j] = "none" /\ \A k \in 1 .. j : put[k] = "none"
    \/ \E k \in 1 .. j : /\ put[k] = mark[j] /\ put[k] # "none"
                         /\ \A l \in k + 1 .. j : put[l] = "none"

\* With @contract innermost, get_contract_metadata of the method lists the
\* clauses of all its layers (_merge_metadata).
MetadataComplete ==
  (\A j \in 2 .. Top : layers[j].by = "class") => lists[Top + 1] = 1 .. Top

\* What reaches the caller after a body has run.
Answered == phase \in {"returned", "raised", "yielded"}
Verified(j) == Active(j) => j \in fresh \/ (phase = "raised" /\ Skips(j))

\* However the decorators of a function or coroutine are stacked, each of
\* them has evaluated its invariants after the body when the caller gets the
\* result or the exception; so has the only decorator of a generator at a
\* yield.
EveryLayerVerifies ==
  Answered /\ (flavour = "generator" => Top = 1) => \A j \in 1 .. Top : Verified(j)

\* docs/contracts.md:91: invariants are evaluated before and after the
\* function, whatever else decorates it.
EveryLayerAfterBody == Answered => \A j \in 1 .. Top : Verified(j)

\* docs/invariant-policies.md:10: a read_only_opt_out invariant is not
\* evaluated in a method that carries @read_only.
ReadOnlyOptsOut ==
  mark[Top + 1] = "read_only" =>
    \A j \in fresh : layers[j].policy # "read_only_opt_out"
============================================================================
