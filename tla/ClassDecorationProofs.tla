----------------------- MODULE ClassDecorationProofs -----------------------
(***************************************************************************)
(* Proofs about ClassDecoration, for any class bodies and options.         *)
(***************************************************************************)
EXTENDS ClassDecoration, TLAPS

(* Operators *)

\* The options decide by name as they say they do.
LEMMA SelectionAgrees ==
  ASSUME NEW o \in OptionType, NEW n \in Names
  PROVE  ShouldWrap(n, o) <=> n \in ({"__init__"} \cup (Listed(o) \ Hidden(o))) \ o.exclude
<1>1. n \in Listed(o) <=> o.include.all \/ n \in o.include.names
  BY DEF Listed
<1>2. n \in Hidden(o) <=> (n \in Dunder /\ ~o.dunder) \/ (n \in Private /\ ~o.private)
  BY DEF Hidden
<1> QED
  BY <1>1, <1>2 DEF ShouldWrap

LEMMA WrappedTyped ==
  ASSUME NEW a \in Attribute, a.layers > 0 => a.kind = "method"
  PROVE  /\ Wrapped(a) \in Attribute
         /\ Wrapped(a).kind = a.kind
         /\ Wrapped(a).layers > 0 => a.kind = "method"
         /\ a.kind = "method" => Wrapped(a).layers > 0
<1>1. a.layers \in Nat /\ a.kind \in Kinds
  BY DEF Attribute
<1> QED
  BY <1>1 DEF Wrapped, Attribute
----------------------------------------------------------------------------
(* Types *)

LEMMA InitTyped == Init => TypeOK
<1> SUFFICES ASSUME Init PROVE TypeOK
  OBVIOUS
<1>1. \A c \in Classes : \E b \in Bodies : own[c] = [n \in Names |-> [kind |-> b[n], layers |-> 0]]
  BY DEF Init
<1>2. ASSUME NEW c \in Classes, NEW n \in Names
      PROVE  own[c][n].layers = 0
  <2>1. PICK b \in Bodies : own[c] = [m \in Names |-> [kind |-> b[m], layers |-> 0]]
    BY <1>1
  <2>2. own[c][n] = [kind |-> b[n], layers |-> 0]
    BY <2>1
  <2> QED
    BY <2>2
<1>3. own \in [Classes -> [Names -> Attribute]]
  BY <1>1, BodiesAssumption DEF Init, Attribute
<1>4. "__init__" \in Names
  BY NamesAssumption DEF Generated
<1> QED
  BY <1>2, <1>3, <1>4 DEF Init, TypeOK, Classes, Ends

\* What applying a decorator to a class does to its attributes.
LEMMA InvariantClassOwn ==
  ASSUME TypeOK, NEW o \in Options, InvariantClass(o)
  PROVE  /\ own' \in [Classes -> [Names -> Attribute]]
         /\ \A n \in Names : own'[making][n] = IF ShouldWrap(n, o) THEN Wrapped(own[making][n])
                                               ELSE own[making][n]
         /\ \A c \in Classes : c # making => own'[c] = own[c]
<1> DEFINE f == [n \in Names |-> IF ShouldWrap(n, o) THEN Wrapped(own[making][n]) ELSE own[making][n]]
<1>1. making \in Classes /\ own' = [own EXCEPT ![making] = f]
  BY DEF InvariantClass
<1>2. \A n \in Names : own[making][n] \in Attribute /\ Wrapped(own[making][n]) \in Attribute
  BY <1>1, WrappedTyped DEF TypeOK
<1>3. f \in [Names -> Attribute]
  BY <1>2
<1> QED
  BY <1>1, <1>3 DEF TypeOK

LEMMA DataclassOwn ==
  ASSUME TypeOK, Dataclass
  PROVE  /\ own' \in [Classes -> [Names -> Attribute]]
         /\ \A c \in Classes, n \in Names :
              \/ own'[c][n] = own[c][n]
              \/ c = making /\ n \in Generated /\ own'[c][n] = [kind |-> "method", layers |-> 0]
<1> DEFINE written == [kind |-> "method", layers |-> 0]
           f == [n \in Names |-> IF n \in Generated /\ own[making][n].kind = "absent"
                                  THEN written ELSE own[making][n]]
<1>1. making \in Classes /\ own' = [own EXCEPT ![making] = f]
  BY DEF Dataclass
<1>2. \A n \in Names : own[making][n] \in Attribute /\ written \in Attribute
  BY <1>1 DEF TypeOK, Attribute, Kinds
<1>3. f \in [Names -> Attribute]
  BY <1>2
<1> QED
  BY <1>1, <1>3 DEF TypeOK

\* What is made of a class, and what a call does to the object, stays typed.
LEMMA NextTyped ==
  ASSUME TypeOK, [Next]_vars
  PROVE  TypeOK'
<1>1. ASSUME NEW o \in Options, InvariantClass(o)
      PROVE  TypeOK'
  <2>1. ASSUME NEW c \in Classes, NEW n \in Names, own'[c][n].layers > 0
        PROVE  own'[c][n].kind = "method"
    <3>1. own[c][n] \in Attribute /\ (own[c][n].layers > 0 => own[c][n].kind = "method")
      BY DEF TypeOK
    <3>2. own'[c][n] = Wrapped(own[c][n]) \/ own'[c][n] = own[c][n]
      BY <1>1, InvariantClassOwn
    <3> QED
      BY <2>1, <3>1, <3>2, WrappedTyped
  <2>2. options' \in [Classes -> SUBSET Options]
    BY <1>1 DEF InvariantClass, TypeOK
  <2> QED
    BY <1>1, <2>1, <2>2, InvariantClassOwn DEF InvariantClass, TypeOK
<1>2. CASE Dataclass
  <2>1. \A c \in Classes, n \in Names : own'[c][n].layers > 0 => own'[c][n].kind = "method"
    BY <1>2, DataclassOwn DEF TypeOK
  <2> QED
    BY <1>2, <2>1, DataclassOwn DEF Dataclass, TypeOK
<1>3. CASE Made
  BY <1>3 DEF Made, TypeOK, Classes
<1>4. CASE Drop
  BY <1>4, NamesAssumption DEF Drop, EndsAs, TypeOK, Ends, Generated
<1>5. ASSUME NEW s \in {"good", "broken"}, Construct(s)
      PROVE  TypeOK'
  <2>1. /\ object' \in {"none", "good", "broken"} /\ "__init__" \in Names
        /\ \E how \in Ends : EndsAs("__init__", how)
    BY <1>5, NamesAssumption DEF Construct, Ends, Generated
  <2> QED
    BY <1>5, <2>1 DEF Construct, EndsAs, TypeOK
<1>6. ASSUME NEW s \in {"good", "broken"}, NEW n \in Names, Call(n, s)
      PROVE  TypeOK'
  <2>1. object' \in {"none", "good", "broken"} /\ \E how \in Ends : EndsAs(n, how)
    BY <1>6 DEF Call, Ends, TypeOK
  <2> QED
    BY <1>6, <2>1 DEF Call, EndsAs, TypeOK
<1>7. ASSUME NEW n \in Names, CallFails(n)
      PROVE  TypeOK'
  BY <1>7 DEF CallFails, EndsAs, TypeOK, Ends
<1>8. CASE UNCHANGED vars
  BY <1>8 DEF vars, TypeOK
<1> QED
  BY <1>1, <1>2, <1>3, <1>4, <1>5, <1>6, <1>7, <1>8 DEF Next

\* Only functions with a receiver are ever wrapped, however often and in
\* whatever order decorators are applied to a class and its subclass
\* (_wrap_class_attribute).
THEOREM TypeCorrect == Spec => []TypeOK
<1> QED
  BY InitTyped, NextTyped, PTL DEF Spec
----------------------------------------------------------------------------
(* Selected calls *)

\* What the options of a class select and is a method has a wrapper.
SelectedWrapped ==
  \A c \in Classes, n \in Names :
    n \in Selected(c) /\ own[c][n].kind = "method" => own[c][n].layers > 0

\* No method is called before the classes are made.
NoCallYet == making # "done" => last.ended = "none"

LEMMA SelectedWrappedNextIff ==
  SelectedWrapped' <=>
    \A c \in Classes, n \in Names :
      (\E o \in options'[c] : n \in ({"__init__"} \cup (Listed(o) \ Hidden(o))) \ o.exclude)
      /\ own'[c][n].kind = "method" => own'[c][n].layers > 0
  BY DEF SelectedWrapped, Selected

LEMMA SelectedIff ==
  \A c, n : n \in Selected(c) <=>
    \E o \in options[c] : n \in ({"__init__"} \cup (Listed(o) \ Hidden(o))) \ o.exclude
  BY DEF Selected

LEMMA StillWrapped ==
  ASSUME ~LateDataclass, TypeOK, SelectedWrapped, [Next]_vars
  PROVE  SelectedWrapped'
<1>1. ASSUME NEW o \in Options, InvariantClass(o), NEW c \in Classes, NEW n \in Names,
             NEW p \in options'[c], n \in ({"__init__"} \cup (Listed(p) \ Hidden(p))) \ p.exclude,
             own'[c][n].kind = "method"
      PROVE  own'[c][n].layers > 0
  <2>1. CASE c = making
    <3>1. p = o
      BY <1>1, <2>1 DEF InvariantClass, TypeOK
    <3>2. ShouldWrap(n, o)
      BY <1>1, <3>1, SelectionAgrees, BodiesAssumption
    <3>3. own'[c][n] = Wrapped(own[c][n])
      BY <1>1, <2>1, <3>2, InvariantClassOwn
    <3>4. own[c][n] \in Attribute /\ (own[c][n].layers > 0 => own[c][n].kind = "method")
      BY DEF TypeOK
    <3> QED
      BY <1>1, <3>3, <3>4, WrappedTyped
  <2>2. CASE c # making
    <3>1. own'[c] = own[c]
      BY <1>1, <2>2, InvariantClassOwn
    <3>2. options'[c] = options[c]
      BY <1>1, <2>2 DEF InvariantClass, TypeOK
    <3> QED
      BY <1>1, <3>1, <3>2, SelectedIff DEF SelectedWrapped
  <2> QED
    BY <2>1, <2>2
<1>2. ASSUME Dataclass, NEW c \in Classes, NEW n \in Names,
             NEW p \in options'[c], n \in ({"__init__"} \cup (Listed(p) \ Hidden(p))) \ p.exclude,
             own'[c][n].kind = "method"
      PROVE  own'[c][n].layers > 0
  <2>1. options' = options /\ options[making] = {}
    BY <1>2 DEF Dataclass
  <2>2. own'[c][n] = own[c][n]
    BY <1>2, <2>1, DataclassOwn
  <2> QED
    BY <1>2, <2>1, <2>2, SelectedIff DEF SelectedWrapped
<1>3. CASE UNCHANGED <<own, options>>
  BY <1>3, SelectedWrappedNextIff, SelectedIff DEF SelectedWrapped
<1>4. CASE Made \/ Drop \/ UNCHANGED vars \/ (\E s : Construct(s) \/ \E n : Call(n, s))
                \/ \E n : CallFails(n)
  BY <1>3, <1>4 DEF Made, Drop, Construct, Call, CallFails, vars
<1>5. CASE \E o \in Options : InvariantClass(o)
  BY <1>1, <1>5, SelectedWrappedNextIff
<1>6. CASE Dataclass
  BY <1>2, <1>6, SelectedWrappedNextIff
<1> QED
  BY <1>4, <1>5, <1>6 DEF Next

LEMMA StillNoCall ==
  ASSUME TypeOK, NoCallYet, [Next]_vars
  PROVE  NoCallYet'
<1>1. CASE making \in Classes /\ last' = last
  BY <1>1 DEF NoCallYet, Classes
<1>2. CASE making' = "done"
  BY <1>2 DEF NoCallYet
<1>3. CASE Drop
  BY <1>3 DEF Drop, EndsAs, NoCallYet
<1>4. ASSUME NEW s, Construct(s)
      PROVE  making' = "done"
  BY <1>4 DEF Construct
<1>5. ASSUME NEW n, NEW s, Call(n, s) \/ CallFails(n)
      PROVE  making' = "done"
  BY <1>5 DEF Call, CallFails, Callable
<1>6. CASE Dataclass \/ Made \/ \E o \in Options : InvariantClass(o)
  BY <1>1, <1>6 DEF Dataclass, Made, InvariantClass
<1>7. CASE UNCHANGED vars
  BY <1>7 DEF vars, NoCallYet
<1> QED
  BY <1>2, <1>3, <1>4, <1>5, <1>6, <1>7 DEF Next

\* A selected method that is found in a class is checked.
LEMMA SelectedChecked ==
  ASSUME TypeOK, SelectedWrapped, NEW n \in Names, n \in Selected(Owner(n)),
         Found(n).kind = "method"
  PROVE  Checked(n)
<1>1. Owner(n) \in Classes
  BY DEF Owner, Classes
<1> QED
  BY <1>1 DEF SelectedWrapped, Found, Checked

LEMMA Lookup ==
  ASSUME UNCHANGED <<own, options>>
  PROVE  \A n : Owner(n)' = Owner(n) /\ Found(n)' = Found(n) /\ Selected(Owner(n))' = Selected(Owner(n))
  BY DEF Owner, Found, Selected

LEMMA CallsVerify ==
  ASSUME TypeOK, SelectedWrapped, NoCallYet, SelectedCallsVerify, [Next]_vars
  PROVE  SelectedCallsVerify'
<1> SUFFICES ASSUME NEW n \in Names, Answered(n)', (n \in Selected(Owner(n)))'
             PROVE  object' = "good"
  BY DEF SelectedCallsVerify
<1>1. last' = [name |-> n, ended |-> "return"]
  BY DEF Answered
<1>2. ASSUME UNCHANGED <<own, options>>
      PROVE  n \in Selected(Owner(n)) /\ Found(n).kind = "method"
  BY <1>2, Lookup DEF Answered
<1>3. ASSUME UNCHANGED <<own, options, last, object>>
      PROVE  object' = "good"
  BY <1>1, <1>2, <1>3 DEF SelectedCallsVerify, Answered
<1>4. ASSUME making \in Classes, last' = last
      PROVE  FALSE
  BY <1>1, <1>4 DEF NoCallYet, Classes
<1>5. CASE Made \/ UNCHANGED vars
  BY <1>3, <1>5 DEF Made, vars
<1>6. CASE Dataclass \/ \E o \in Options : InvariantClass(o)
  BY <1>4, <1>6 DEF Dataclass, InvariantClass
<1>7. CASE Drop
  BY <1>1, <1>7 DEF Drop, EndsAs
<1>8. ASSUME NEW s \in {"good", "broken"}, Construct(s)
      PROVE  object' = "good"
  <2>1. n = "__init__"
    BY <1>1, <1>8 DEF Construct, EndsAs
  <2>2. Checked("__init__")
    BY <1>2, <1>8, <2>1, SelectedChecked DEF Construct
  <2> QED
    BY <1>1, <1>8, <2>2 DEF Construct, EndsAs
<1>9. ASSUME NEW s \in {"good", "broken"}, NEW m \in Names, Call(m, s)
      PROVE  object' = "good"
  <2>1. n = m
    BY <1>1, <1>9 DEF Call, EndsAs
  <2>2. Checked(m)
    BY <1>2, <1>9, <2>1, SelectedChecked DEF Call
  <2> QED
    BY <1>1, <1>9, <2>2 DEF Call, EndsAs
<1>10. ASSUME NEW m, CallFails(m)
       PROVE  FALSE
  BY <1>1, <1>10 DEF CallFails, EndsAs
<1> QED
  BY <1>5, <1>6, <1>7, <1>8, <1>9, <1>10 DEF Next

\* A caller that gets an answer of a method the options select, in the class
\* the method is found in, holds an object whose invariants are true, whatever
\* the unwrapped methods of either class have done to it.  @dataclass above
\* the decorator is excluded: the constructor and the __repr__ it adds
\* had no option to select them at the time.
THEOREM SelectedVerified ==
  ASSUME ~LateDataclass
  PROVE  Spec => []SelectedCallsVerify
<1>1. Init => SelectedWrapped /\ NoCallYet /\ SelectedCallsVerify
  BY SelectedIff DEF Init, SelectedWrapped, NoCallYet, SelectedCallsVerify, Answered
<1>2. TypeOK /\ SelectedWrapped /\ NoCallYet /\ SelectedCallsVerify /\ [Next]_vars
        => SelectedWrapped' /\ NoCallYet' /\ SelectedCallsVerify'
  BY StillWrapped, StillNoCall, CallsVerify
<1> QED
  BY <1>1, <1>2, TypeCorrect, PTL DEF Spec
============================================================================
