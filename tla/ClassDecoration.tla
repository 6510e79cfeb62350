-------------------------- MODULE ClassDecoration --------------------------
(***************************************************************************)
(* What @invariant_class makes of a class (contracts.py): it replaces, in  *)
(* the dictionary of the class it is given, the functions whose names the  *)
(* options select.  Two classes are made here, Base and its subclass Sub,  *)
(* each with any of the decorators, then an object of Sub is constructed   *)
(* and its methods are called by the code outside.                         *)
(*                                                                         *)
(* An attribute is a function with a receiver, a function whose first      *)
(* parameter is no receiver (def f( *args)), or a static method, class     *)
(* method or property; layers counts the wrappers around it.               *)
(***************************************************************************)
EXTENDS Naturals

CONSTANTS
  Names,         \* the attribute names classes have
  Dunder,        \* those that begin and end with two underscores, the generated ones among them
  Private,       \* those that begin with an underscore otherwise
  Bodies,        \* the class bodies: what each name is before any decorator
  Options,       \* the options @invariant_class is used with
  LateDataclass  \* @dataclass may be put above @invariant_class

Kinds == {"absent", "method", "variadic", "static"}
Everything == [all |-> TRUE, names |-> {}]  \* include=None
OptionType ==
  [private : BOOLEAN, dunder : BOOLEAN, include : [all : BOOLEAN, names : SUBSET Names],
   exclude : SUBSET Names]

\* What @dataclass writes where a class has none.
Generated == {"__init__", "__repr__"}

ASSUME NamesAssumption ==
  /\ Generated \subseteq Dunder
  /\ Dunder \subseteq Names /\ Private \subseteq Names \ Dunder
ASSUME BodiesAssumption == Bodies \subseteq [Names -> Kinds] /\ Options \subseteq OptionType

VARIABLES
  making,    \* the class whose decorators are applied, or "done"
  own,       \* own[c]: the attributes of class c itself
  options,   \* history: the options c was decorated with
  object,    \* the object of class Sub
  last       \* what the last call from outside was of, and how it ended

vars == <<making, own, options, object, last>>

Classes == {"Base", "Sub"}
Attribute == [kind : Kinds, layers : Nat]
Ends == {"none", "return", "violation", "error"}

TypeOK ==
  /\ making \in Classes \cup {"done"}
  /\ own \in [Classes -> [Names -> Attribute]]
  /\ \A c \in Classes, n \in Names : own[c][n].layers > 0 => own[c][n].kind = "method"
  /\ options \in [Classes -> SUBSET Options]
  /\ object \in {"none", "good", "broken"}
  /\ last \in [name : Names, ended : Ends]
----------------------------------------------------------------------------
(* Making the classes *)

ShouldWrap_IncludeFirst(n, o) ==  \* slip: include decides about constructors too
  /\ n \notin o.exclude
  /\ o.include.all \/ n \in o.include.names
  /\ \/ n = "__init__"
     \/ (n \in Dunder => o.dunder) /\ (n \in Private => o.private)

\* _should_wrap_method_name.
ShouldWrap(n, o) ==
  /\ n \notin o.exclude
  /\ \/ n = "__init__"
     \/ /\ o.include.all \/ n \in o.include.names
        /\ n \in Dunder => o.dunder
        /\ n \in Private => o.private

Wrapped_AnyKind(attribute) ==  \* slip: no test of what the attribute is
  [attribute EXCEPT !.layers = @ + 1]

\* _wrap_class_attribute on an attribute the options select.
Wrapped(attribute) ==
  IF attribute.kind = "method" THEN [attribute EXCEPT !.layers = @ + 1] ELSE attribute

Init ==
  /\ making = "Base"
  /\ own \in [Classes -> {[n \in Names |-> [kind |-> b[n], layers |-> 0]] : b \in Bodies}]
  /\ options = [c \in Classes |-> {}]
  /\ object = "none"
  /\ last = [name |-> "__init__", ended |-> "none"]

InvariantClass(o) ==
  /\ making \in Classes
  /\ options[making] = {}
  /\ own' = [own EXCEPT ![making] =
               [n \in Names |-> IF ShouldWrap(n, o) THEN Wrapped(@[n]) ELSE @[n]]]
  /\ options' = [options EXCEPT ![making] = {o}]
  /\ UNCHANGED <<making, object, last>>

Dataclass ==
  /\ making \in Classes
  /\ LateDataclass \/ options[making] = {}
  /\ own' = [own EXCEPT ![making] =
               [n \in Names |-> IF n \in Generated /\ @[n].kind = "absent"
                                 THEN [kind |-> "method", layers |-> 0] ELSE @[n]]]
  /\ UNCHANGED <<making, options, object, last>>

Made ==
  /\ making \in Classes
  /\ making' = [Base |-> "Sub", Sub |-> "done"][making]
  /\ UNCHANGED <<own, options, object, last>>
----------------------------------------------------------------------------
(* Calls from outside, on an object of class Sub *)

Owner(n) == IF own["Sub"][n].kind # "absent" THEN "Sub" ELSE "Base"
Found(n) == own[Owner(n)][n]
Checked(n) == Found(n).layers > 0

EndsAs(n, how) == last' = [name |-> n, ended |-> how]

\* A wrapper takes the repr of self before anything else, in _prepare_call.  If
\* a class defines __repr__ it may read what the constructor has not set yet;
\* if __repr__ is wrapped itself, its wrapper takes the repr again, without end.
MayBeUnset == Found("__repr__").kind # "absent"
Recurses == Checked("__repr__")

Construct(s) ==
  /\ making = "done" /\ object = "none"
  /\ \/ /\ Checked("__init__") /\ MayBeUnset
        /\ EndsAs("__init__", "error") /\ object' = "none"
     \/ /\ Checked("__init__") /\ ~Recurses
        /\ s = "good" => EndsAs("__init__", "return") /\ object' = "good"
        /\ s = "broken" => EndsAs("__init__", "violation") /\ object' = "none"
     \/ /\ ~Checked("__init__")
        /\ EndsAs("__init__", "return") /\ object' = s
  /\ UNCHANGED <<making, own, options>>

Callable(n) ==
  /\ making = "done" /\ object # "none" /\ n # "__init__"
  /\ Found(n).kind \in {"method", "variadic"}

\* The wrapper fails before it looks at the object.
CallFails(n) ==
  /\ Callable(n)
  /\ Checked(n) /\ Recurses
  /\ EndsAs(n, "error")
  /\ UNCHANGED <<making, own, options, object>>

Call_EntryOnly(n, s) ==  \* slip: the check after the body is missing
  /\ Callable(n)
  /\ Checked(n) => ~Recurses
  /\ IF Checked(n) /\ object = "broken"
       THEN EndsAs(n, "violation") /\ object' = object
       ELSE EndsAs(n, "return") /\ object' = s
  /\ UNCHANGED <<making, own, options>>

\* The body of a method leaves the object in state s.
Call(n, s) ==
  /\ Callable(n)
  /\ Checked(n) => ~Recurses
  /\ IF Checked(n) /\ object = "broken"
       THEN EndsAs(n, "violation") /\ object' = object
       ELSE /\ object' = s
            /\ EndsAs(n, IF Checked(n) /\ s = "broken" THEN "violation" ELSE "return")
  /\ UNCHANGED <<making, own, options>>

Drop ==
  /\ object # "none"
  /\ object' = "none"
  /\ EndsAs("__init__", "none")
  /\ UNCHANGED <<making, own, options>>

Next ==
  \/ \E o \in Options : InvariantClass(o)
  \/ Dataclass \/ Made \/ Drop
  \/ \E s \in {"good", "broken"} : Construct(s) \/ \E n \in Names : Call(n, s)
  \/ \E n \in Names : CallFails(n)

Spec == Init /\ [][Next]_vars
----------------------------------------------------------------------------
(* Properties *)

\* What the options say they select in class c: the constructor and public
\* methods, or the included ones, private and dunder ones on demand, less the
\* excluded ones.
Hidden(o) == (IF o.dunder THEN {} ELSE Dunder) \cup (IF o.private THEN {} ELSE Private)
Listed(o) == IF o.include.all THEN Names ELSE o.include.names
Selected(c) == UNION {({"__init__"} \cup (Listed(o) \ Hidden(o))) \ o.exclude : o \in options[c]}

\* The last call from outside was of method n, and it returned.
Answered(n) == last = [name |-> n, ended |-> "return"] /\ Found(n).kind = "method"

\* A caller that gets an answer of a method holds an intact object, whatever
\* unwrapped methods of either class did to it before, if the class the
\* method is found in was decorated so as to select it.
SelectedCallsVerify ==
  \A n \in Names : Answered(n) /\ n \in Selected(Owner(n)) => object = "good"

\* docs/contracts.md:98: the decorator wraps the constructor and the public
\* instance methods of the class it is put on.
PublicCallsVerify ==
  \A n \in Names : Answered(n) /\ n \in Selected("Sub") => object = "good"

\* docs/contracts.md:97: the decorator adds invariants to the class: no call
\* of a decorated class fails for another reason than a broken invariant.
OnlyViolationsAdded == last.ended # "error"
============================================================================
