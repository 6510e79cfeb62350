--------------------------- MODULE PredicateCall ---------------------------
(***************************************************************************)
(* How a predicate is called (contracts.py, testing.py).  A wrapper offers *)
(* what it knows at the moment of the check by name; _invoke picks what    *)
(* the signature of the predicate asks for and Python binds it.  The       *)
(* helpers of testing.py bind what a test gives them to the signature of   *)
(* the predicate first and hand the result to the same _invoke.            *)
(*                                                                         *)
(* One predicate is checked once by a wrapper and once by a helper, in     *)
(* either order.  A value is a pair that tells where it came from.         *)
(***************************************************************************)
EXTENDS Naturals, FiniteSets, Sequences, SequencesExt, ClauseRules

CONSTANTS
  ParameterNames,  \* the names parameters of predicates have
  ParameterKinds,  \* a subset of Kinds
  ArgumentSets,    \* the argument names of the functions under contract
  MaxParameters,   \* bound on the parameters of a predicate
  Notes            \* the return annotations of predicates

Kinds == {"positional", "any", "varpos", "keyword", "varkw"}
Meanings == {"absent", "none", "optional", "other"}
\* What a return annotation means; whether Python holds it as text (quoted, or
\* under from __future__ import annotations) or as an object; whether the text
\* spells a None out; and whether get_type_hints returns, with every annotation
\* of the predicate resolved.  NoneType written out counts as "optional".
NoteType == [means : Meanings, text : BOOLEAN, spelled : BOOLEAN, resolves : BOOLEAN]

ASSUME KindsAssumption == ParameterKinds \subseteq Kinds
ASSUME NotesAssumption ==
  /\ Notes \subseteq NoteType
  /\ \A n \in Notes : (n.means = "absent" => ~n.text) /\ (n.spelled => n.text)
ASSUME BoundsAssumption == MaxParameters \in Nat

VARIABLES
  sig,     \* the parameters of the predicate
  note,    \* its return annotation
  args,    \* the argument names of the function
  moment,  \* what the predicate is checked at: "pre" stands for invariants too
  raw,     \* what it answers
  passed,  \* the names a test passes to the helper
  taken,   \* taken[who]: what each parameter was bound to
  answer   \* answer[who]

vars == <<sig, note, args, moment, raw, passed, taken, answer>>

Callers == {"wrapper", "helper"}
Answers == {"pending", "pass", "violation", "rejected"}
None == [n \in {} |-> <<>>]
Parameter == [name : ParameterNames, kind : ParameterKinds, optional : BOOLEAN]
Named(p) == p.kind \in {"positional", "any", "keyword"}
Variable(p) == ~Named(p)

\* What Python takes for a parameter list.
Rank(p) == CHOOSE k \in 1 .. 5 : <<"positional", "any", "varpos", "keyword", "varkw">>[k] = p.kind
Signature(s) ==
  \A j, k \in 1 .. Len(s) : j < k =>
    /\ s[j].name # s[k].name
    /\ Rank(s[j]) <= Rank(s[k])
    /\ Variable(s[j]) => s[j].kind # s[k].kind
    /\ s[j].optional /\ Rank(s[k]) <= 2 => s[k].optional
Signatures ==
  {s \in UNION {[1 .. k -> Parameter] : k \in 0 .. MaxParameters} :
     /\ \A k \in 1 .. Len(s) : Variable(s[k]) => s[k].optional
     /\ Signature(s)}

TypeOK ==
  /\ sig \in Signatures /\ note \in Notes /\ args \in ArgumentSets
  /\ moment \in {"pre", "post", "error"} /\ raw \in {"truthy", "none", "raises"}
  /\ answer \in [Callers -> Answers]
  /\ \A who \in Callers : taken[who] # None =>
       /\ DOMAIN taken[who] = {p.name : p \in ToSet(sig)}
       /\ \A p \in ToSet(sig) : taken[who][p.name] = <<"default", p.name>> => p.optional
----------------------------------------------------------------------------
(* What a wrapper offers *)

Context == [n \in args |-> <<"argument", n>>]
Result == <<"outcome", "result">>
Exception == <<"outcome", "exception">>

PostContext ==
  [n \in args \cup {"ret", "result"} |-> IF n = "ret" \/ n \notin args THEN Result ELSE Context[n]]
ErrorContext ==
  [n \in args \cup {"exc", "error"} |-> IF n \in {"exc", "error"} THEN Exception ELSE Context[n]]
Offered == [pre |-> Context, post |-> PostContext, error |-> ErrorContext][moment]
----------------------------------------------------------------------------
(* _invoke *)

Fails_Lenient(available) ==  \* slip: a parameter nobody offers is passed over
  \E p \in ToSet(sig) : p.kind = "varpos"

\* A TypeError for *args and for what nobody offers.
Fails(available) ==
  \E p \in ToSet(sig) :
    \/ p.kind = "varpos"
    \/ Named(p) /\ p.name \notin DOMAIN available /\ ~p.optional

Positionals(available) ==
  LET chosen == {k \in 1 .. Len(sig) :
                   sig[k].kind = "positional" /\ sig[k].name \in DOMAIN available}
      At(n) == CHOOSE k \in chosen : Cardinality(chosen \cap (1 .. k)) = n
  IN [n \in 1 .. Cardinality(chosen) |-> available[sig[At(n)].name]]

ByName == {p.name : p \in {q \in ToSet(sig) : q.kind \in {"any", "keyword"}}}

Keywords_NoSpread(available) ==  \* slip: **kwargs is left empty
  [n \in ByName \cap DOMAIN available |-> available[n]]

\* A predicate with **kwargs gets everything it was not given yet by name.
Keywords(available) ==
  [n \in IF \E p \in ToSet(sig) : p.kind = "varkw" THEN DOMAIN available
         ELSE ByName \cap DOMAIN available |-> available[n]]

\* Python: values fill positional-only parameters from the left, keywords go
\* by name, and the ones no parameter takes are the rest.
Bound(values, keywords) ==
  LET To(k) ==
        CASE sig[k].kind = "varkw" ->
               <<"rest", [n \in DOMAIN keywords \ ByName |-> keywords[n]]>>
          [] sig[k].kind = "varpos" -> <<"rest", None>>
          [] sig[k].kind = "positional" /\ k <= Len(values) -> values[k]
          [] sig[k].name \in ByName \cap DOMAIN keywords -> keywords[sig[k].name]
          [] OTHER -> <<"default", sig[k].name>>
  IN [n \in {p.name : p \in ToSet(sig)} |-> To(CHOOSE k \in 1 .. Len(sig) : sig[k].name = n)]

AllowsNone_Raw(n) ==  \* slip: annotations are taken as they are written
  IF n.text THEN n.spelled ELSE n.means = "optional"

\* Some annotations are only resolved when type checking, and those of a
\* functools.partial never: then the raw annotation counts, its text if it is
\* one.  As an object None is no type, and allows nothing.
AllowsNone(n) ==
  IF n.resolves THEN n.means # "other"
  ELSE IF n.text THEN n.spelled
  ELSE n.means = "optional"

Verdict == IF Resolve(raw, AllowsNone(note)) = "pass" THEN "pass" ELSE "violation"

Invoke(who, available) ==
  /\ answer' = [answer EXCEPT ![who] = IF Fails(available) THEN "violation" ELSE Verdict]
  /\ taken' = [taken EXCEPT ![who] =
                 IF Fails(available) THEN None
                 ELSE Bound(Positionals(available), Keywords(available))]
----------------------------------------------------------------------------
(* The callers *)

Init ==
  /\ sig \in Signatures /\ note \in Notes /\ args \in ArgumentSets
  /\ moment \in {"pre", "post", "error"} /\ raw \in {"truthy", "none", "raises"}
  /\ passed = {}
  /\ taken = [who \in Callers |-> None]
  /\ answer = [who \in Callers |-> "pending"]

Check ==
  /\ answer["wrapper"] = "pending"
  /\ Invoke("wrapper", Offered)
  /\ UNCHANGED <<sig, note, args, moment, raw, passed>>

\* _prepare_call with the signature of the predicate.  A test gives values of
\* positional-only parameters by position; some names are the helper's own.
HelperNames == {"kind", "function_name"}
Values(names) == [n \in names |-> Offered[n]]
Prepared(names) ==
  LET byPosition == {p.name : p \in {q \in ToSet(sig) : q.kind = "positional"}}
  IN Bound(Positionals(Values(names)), Values((names \ byPosition) \ HelperNames))
Binds(names) ==
  /\ \A p \in ToSet(sig) : Prepared(names)[p.name] = <<"default", p.name>> => p.optional
  /\ \A n \in names \ HelperNames :
       \E p \in ToSet(sig) : (p.name = n /\ p.kind # "varpos") \/ p.kind = "varkw"

CollectViolations_Swallows(names) ==  \* slip: what the predicate raises is no violation
  /\ answer["helper"] = "pending"
  /\ passed' = names
  /\ \/ /\ Binds(names) /\ raw = "raises"
        /\ answer' = [answer EXCEPT !["helper"] = "pass"]
        /\ taken' = [taken EXCEPT !["helper"] = Prepared(names)]
     \/ Binds(names) /\ raw # "raises" /\ Invoke("helper", Prepared(names))
     \/ /\ ~Binds(names)
        /\ answer' = [answer EXCEPT !["helper"] = "rejected"] /\ UNCHANGED taken
  /\ UNCHANGED <<sig, note, args, moment, raw>>

\* collect_violations; assert_valid raises the violation that it returns.
CollectViolations(names) ==
  /\ answer["helper"] = "pending"
  /\ passed' = names
  /\ \/ Binds(names) /\ Invoke("helper", Prepared(names))
     \/ /\ ~Binds(names)
        /\ answer' = [answer EXCEPT !["helper"] = "rejected"] /\ UNCHANGED taken
  /\ UNCHANGED <<sig, note, args, moment, raw>>

\* validate_payload: one value, under a name, never by position.
ValidatePayload(n) ==
  /\ \A p \in ToSet(sig) : p.name = n => p.kind # "positional"
  /\ CollectViolations({n})

Next ==
  \/ Check
  \/ \E names \in SUBSET DOMAIN Offered : CollectViolations(names)
  \/ \E n \in DOMAIN Offered : ValidatePayload(n)

Spec == Init /\ [][Next]_vars
----------------------------------------------------------------------------
(* Properties *)

\* What a parameter of this name stands for: arguments under their own names,
\* result as well, but ret is the return value of the call whatever the
\* arguments are called, and exc and error are its exception.
Stands(n) ==
  IF moment = "post" /\ (n = "ret" \/ (n = "result" /\ "result" \notin args)) THEN Result
  ELSE IF moment = "error" /\ n \in {"exc", "error"} THEN Exception
  ELSE IF n \in args THEN <<"argument", n>>
  ELSE <<"default", n>>

\* A positional-only parameter that nobody offers stands before one that is
\* offered: values would slide.
Gap ==
  \E j, k \in 1 .. Len(sig) :
    /\ j < k /\ sig[k].kind = "positional"
    /\ sig[j].name \notin DOMAIN Offered /\ sig[k].name \in DOMAIN Offered

\* A predicate that a wrapper calls gets, in each parameter, what the name of
\* the parameter stands for, and in its **kwargs all the rest.
BoundByName ==
  taken["wrapper"] # None /\ ~Gap =>
    \A p \in ToSet(sig) :
      LET value == taken["wrapper"][p.name] IN
        /\ Named(p) => value = Stands(p.name)
        /\ p.kind = "varkw" =>
             \A n \in DOMAIN Offered \ ByName : n \in DOMAIN value[2] /\ value[2][n] = Stands(n)

\* A test that gives a helper what the predicate asks for by name, and not by
\* the helper's own names, is told what a wrapper would find, about the same
\* values; **kwargs aside, which the helper hands over as one keyword.
GivenInFull ==
  /\ \A p \in ToSet(sig) : p.name \in passed \/ p.name \notin DOMAIN Offered
  /\ passed \cap HelperNames = {}
BothAnswered == answer["wrapper"] # "pending" /\ answer["helper"] \notin {"pending", "rejected"}
HelperAgrees ==
  BothAnswered /\ GivenInFull /\ ~Gap /\ (\A p \in ToSet(sig) : p.kind # "varkw") =>
    answer["helper"] = answer["wrapper"] /\ taken["helper"] = taken["wrapper"]

\* A predicate says by its annotation whether None means that all is well.  It
\* is believed either way, so that a validator may answer nothing and a test
\* that forgets to answer fails, unless the annotation is a text that does not
\* resolve and spells something else than it means (an alias of a type with
\* None, or a None inside of another type).
NoneAsAnnotated ==
  LET legible == note.resolves \/ ~note.text \/ (note.spelled <=> note.means = "optional")
  IN raw = "none" /\ answer["wrapper"] # "pending" /\ ~Fails(Offered) /\ legible =>
       /\ note.means = "optional" => answer["wrapper"] = "pass"
       /\ note.means = "other" => answer["wrapper"] = "violation"
----------------------------------------------------------------------------
(* What the documents say and the code does not always do *)

\* docs/testing.md:4: the helpers evaluate a predicate directly, so given all
\* that the wrapper offers they hand it the same values.
HelperAlwaysAgrees ==
  BothAnswered /\ passed = DOMAIN Offered => taken["helper"] = taken["wrapper"]

\* README.md:134, docs/contracts.md:86: a postcondition refers to the return
\* value as result or as ret.
ResultIsReturn ==
  moment = "post" /\ taken["wrapper"] # None =>
    \A p \in ToSet(sig) :
      Named(p) /\ p.name \in {"ret", "result"} => taken["wrapper"][p.name] = Result

\* docs/contracts.md:81: a predicate may answer ViolationDetail | None, None
\* when all is well.
NoneMeansValid ==
  raw = "none" /\ note.means = "optional" /\ taken["wrapper"] # None
    => answer["wrapper"] = "pass"

\* docs/typed-predicates.md:28: a one-parameter predicate on an object checks
\* the argument of the function that is such an object.
TypedPredicateRuns ==
  Len(sig) = 1 /\ answer["wrapper"] # "pending" => taken["wrapper"] # None
============================================================================
