-------------------------- MODULE MCTurnLifecycle --------------------------
(* Model values and symmetry for checking TurnLifecycle with TLC. *)
EXTENDS TurnLifecycle, TLC

\* Turns differ only in their names.
TurnSymmetry == Permutations(Turn)

FreshLog == {[next |-> 0, cancelled |-> {}]}
=============================================================================
