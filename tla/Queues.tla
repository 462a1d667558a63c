------------------------------- MODULE Queues -------------------------------
(***************************************************************************)
(* The queues of the services are JavaScript arrays, which they filter to    *)
(* drop what was aborted, cancelled or taken.  SelectSeq of the library says *)
(* the same, but takes an operator, of which nothing can be proved; here the *)
(* elements that stay are a set.  QueueTheorems has the facts about it.      *)
(***************************************************************************)
EXTENDS Integers, Sequences, SequencesExt

\* The elements of s that are in keep, in their order: Array.prototype.filter.
SelectIn(s, keep) ==
  LET kept[n \in 0 .. Len(s)] ==
        IF n = 0 THEN << >>
        ELSE IF s[n] \in keep THEN Append(kept[n - 1], s[n])
        ELSE kept[n - 1]
  IN  kept[Len(s)]
=============================================================================
