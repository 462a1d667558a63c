----------------------------- MODULE MCMiniDb -----------------------------
(***************************************************************************)
(* The calls of the TLC instances of MiniDb: a set and a delete of one key,  *)
(* and a batch that sets both keys.                                         *)
(***************************************************************************)
EXTENDS MiniDb

CONSTANTS k1, k2, set1, del1, batch12

PutsOf ==
  [w \in Write |-> CASE w = set1 -> {k1} [] w = batch12 -> {k1, k2} [] OTHER -> {}]
DelsOf == [w \in Write |-> IF w = del1 THEN {k1} ELSE {}]

\* Values in memory with a storage that fails once, or on disk with one that
\* does not.
TwoWorlds == {[disk |-> FALSE, errors |-> 1], [disk |-> TRUE, errors |-> 0]}
DiskWithError == {[disk |-> TRUE, errors |-> 1]}
===========================================================================
