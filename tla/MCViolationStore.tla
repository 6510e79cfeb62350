-------------------------- MODULE MCViolationStore --------------------------
(***************************************************************************)
(* Small instances of ViolationStore.                                      *)
(***************************************************************************)
EXTENDS ViolationStore, TLC

CONSTANTS i1, i2, e1, e2

TwoIds == {i1, i2}
TwoSlots == {e1, e2}
TwoKinds == {"precondition", "invariant"}
OneSubject == {"balance"}
NoneOrAll == {{}, {"code", "message", "predicate"}}
Symmetry == Permutations(TwoIds) \cup Permutations(TwoSlots)
============================================================================
