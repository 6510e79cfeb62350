-------------------------- MODULE InvariantLedger --------------------------
(***************************************************************************)
(* What a contract checker promises about one object, whatever calls are   *)
(* made on it and in whatever order they interleave: an invariant is out   *)
(* of suspicion only when it was evaluated, and held, after the last write *)
(* to the object.                                                          *)
(*                                                                         *)
(* The ledger is the set of invariants under suspicion.  A write puts      *)
(* every invariant in it; only evaluating an invariant to true on the      *)
(* object as it is now takes it out.                                       *)
(***************************************************************************)
CONSTANTS Invs,    \* the invariants declared on the object
          States,  \* the states the object can be in
          Sat      \* Sat[i]: the states in which i holds

VARIABLES obj, suspect

lvars == <<obj, suspect>>

Init ==
  /\ obj \in States
  /\ suspect = Invs

Write ==
  /\ obj' \in States
  /\ suspect' = Invs

\* Evaluating some invariants clears those of them that hold.
Verify ==
  /\ obj' = obj
  /\ \E verified \in SUBSET suspect :
       /\ \A i \in verified : obj \in Sat[i]
       /\ suspect' = suspect \ verified

Next == Write \/ Verify

Spec == Init /\ [][Next]_lvars

\* Nothing that is out of suspicion is broken.
Sound == \A i \in Invs \ suspect : obj \in Sat[i]
============================================================================
