------------------------- MODULE MCAppendLogStore -------------------------
(***************************************************************************)
(* The append log for TLC: the configurations name its records and its      *)
(* replacements.  One of them checks liveness, so neither uses their        *)
(* symmetry.                                                                *)
(***************************************************************************)
EXTENDS AppendLogStore
=============================================================================
