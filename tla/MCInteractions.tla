-------------------------- MODULE MCInteractions --------------------------
(* The requests of the TLC instances of Interactions and their kinds. *)
EXTENDS Interactions

CONSTANTS r1, r2

KindsOfEach == [r \in Request |-> IF r = r1 THEN {"approval", "question"}
                                           ELSE {"background"}]
===========================================================================
