-------------------------- MODULE MCPredicateCall --------------------------
(***************************************************************************)
(* Small instances of PredicateCall.                                       *)
(***************************************************************************)
EXTENDS PredicateCall

AllNames == {"amount", "result", "ret", "error", "kind"}
TwoNames == {"amount", "kind"}
ThreeNames == {"amount", "result", "error"}
SelfOnly == {"self"}
AllKinds == {"positional", "any", "varpos", "keyword", "varkw"}
AllArguments == {{}, {"amount"}, {"amount", "error"}, {"ret", "kind"}, {"amount", "result"}}
NoResult == {{}, {"amount"}}
AnyArguments == {{}, {"amount"}, {"amount", "result"}}
Wallet == {{"value", "wallet"}}
WithKind == {{"amount", "kind"}}

Spelled(m) == [means |-> m, text |-> TRUE, spelled |-> m # "other", resolves |-> TRUE]
Unresolved(n) == [n EXCEPT !.resolves = FALSE]
FourNotes ==
  {Spelled("other"),
   [Spelled("optional") EXCEPT !.spelled = FALSE],
   Unresolved(Spelled("optional")),
   Unresolved([Spelled("other") EXCEPT !.text = FALSE])}
OneNote == {Spelled("other")}
Alias == {[means |-> "optional", text |-> TRUE, spelled |-> FALSE, resolves |-> r] : r \in BOOLEAN}
============================================================================
