----------------------------- MODULE ToolAccesses -----------------------------
(***************************************************************************)
(* The resources a tool call touches (tool/toolContract.ts): everything,   *)
(* or operations on files, some of them on whole trees.  Two calls that    *)
(* conflict are never run at the same time.  A path is a sequence of       *)
(* names; normalizePath has already folded case and separators.            *)
(***************************************************************************)
EXTENDS Sequences, SequencesExt

CONSTANT Paths      \* the paths of the file system, sequences of names

Operations == {"read", "search", "write", "readwrite"}

\* ToolAccesses.all() and ToolAccesses.file(): one access of a call.
All == [kind |-> "all"]
File(operation, path, recursive) ==
    [kind |-> "file", operation |-> operation, path |-> path, recursive |-> recursive]

AccessType == {All} \cup [kind : {"file"}, operation : Operations, path : Paths,
                          recursive : BOOLEAN]

fileOperationWrites(operation) == operation \in {"write", "readwrite"}

fileAccessesOverlap(left, right) ==
    \/ left.path = right.path
    \/ left.recursive /\ IsPrefix(left.path, right.path)
    \/ right.recursive /\ IsPrefix(right.path, left.path)

resourceAccessesConflict(left, right) ==
    \/ left.kind = "all" \/ right.kind = "all"
    \/ /\ fileOperationWrites(left.operation) \/ fileOperationWrites(right.operation)
       /\ fileAccessesOverlap(left, right)

\* conflict: some access of the one call conflicts with some access of the other.
conflict(left, right) ==
    \E l \in left, r \in right : resourceAccessesConflict(l, r)

-----------------------------------------------------------------------------
(* The reference: what an access may really touch. *)

Touches(access) ==
    IF access.kind = "all" THEN Paths
    ELSE {p \in Paths : \/ p = access.path
                        \/ access.recursive /\ IsPrefix(access.path, p)}

MayWrite(access) == access.kind = "all" \/ fileOperationWrites(access.operation)

\* Two calls that may run side by side: neither writes what the other touches.
Independent(left, right) ==
    \A l \in left, r \in right :
        MayWrite(l) \/ MayWrite(r) => Touches(l) \cap Touches(r) = {}
=============================================================================
