------------------------- MODULE MCClassDecoration -------------------------
(***************************************************************************)
(* Small instances of ClassDecoration: a wallet, a class that only adds to *)
(* it, an empty class and a class with fields alone, and five ways to use  *)
(* the options.                                                            *)
(***************************************************************************)
EXTENDS ClassDecoration, TLC

MCNames == {"__init__", "__repr__", "_load", "debit", "history"}
MCDunder == {"__init__", "__repr__"}
MCPrivate == {"_load"}

Empty == [n \in MCNames |-> "absent"]
Wallet == [[n \in MCNames |-> "method"] EXCEPT !["history"] = "static"]
Added == [Empty EXCEPT !["debit"] = "variadic", !["history"] = "method", !["__repr__"] = "method"]
MCBodies == {Empty, Wallet, Added}
OnlyFields == {[Empty EXCEPT !["debit"] = "method"]}

OnlyRepr == {[Empty EXCEPT !["debit"] = "method", !["__repr__"] = "method"]}

Default == [private |-> FALSE, dunder |-> FALSE, include |-> Everything, exclude |-> {}]
OnlyDefault == {Default}
OnlyDunder == {[Default EXCEPT !.dunder = TRUE, !.exclude = {"__init__"}]}
MCOptions ==
  {Default,
   [Default EXCEPT !.include = [all |-> FALSE, names |-> {"debit", "_load"}]],
   [Default EXCEPT !.private = TRUE, !.exclude = {"debit"}],
   [Default EXCEPT !.dunder = TRUE, !.private = TRUE],
   [Default EXCEPT !.exclude = {"__init__", "history"}]}
============================================================================
