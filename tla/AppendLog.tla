----------------------------- MODULE AppendLog -----------------------------
(***************************************************************************)
(* What the append log promises its callers, as interface/appendLogStore.ts *)
(* states it: appends become durable in their order, and a rewrite replaces *)
(* the history that was durable when it was called, never an append that    *)
(* was still outstanding then.                                              *)
(***************************************************************************)
EXTENDS Integers, Sequences

CONSTANTS
  Rec,      \* the records that may be appended
  Snapshot  \* the contents a rewrite may put in the place of the history

VARIABLES
  history,   \* what the log durably holds, oldest first
  tail,      \* the appends that are not durable yet
  cutovers,  \* the rewrites that have been called and have not settled
  failed     \* a storage failure that no rewrite has repaired

logVars == <<history, tail, cutovers, failed>>

\* An opened log holds at least the record that the opening wrote.
Init ==
  /\ \E s \in Snapshot : history = <<s>>
  /\ tail = << >> /\ cutovers = << >> /\ failed = FALSE

Append_(r) ==
  /\ tail' = Append(tail, r)
  /\ UNCHANGED <<history, cutovers, failed>>

\* Some of the tail becomes durable; not while a rewrite is outstanding, which
\* would replace it, nor after a failure, which leaves open what has been written.
Persist ==
  /\ cutovers = << >> /\ ~failed
  /\ \E n \in 1 .. Len(tail) :
       /\ history' = history \o SubSeq(tail, 1, n)
       /\ tail' = SubSeq(tail, n + 1, Len(tail))
  /\ UNCHANGED <<cutovers, failed>>

PersistFails ==
  /\ tail # << >>
  /\ failed' = TRUE
  /\ UNCHANGED <<history, tail, cutovers>>

Rewrite(s) ==
  /\ cutovers' = Append(cutovers, s)
  /\ UNCHANGED <<history, tail, failed>>

\* The recovery from a failure, too.
Replace ==
  /\ cutovers # << >>
  /\ history' = <<Head(cutovers)>>
  /\ cutovers' = Tail(cutovers)
  /\ failed' = FALSE
  /\ UNCHANGED tail

\* A rewrite is rejected: storage failed, with or without its effect.
RewriteFails ==
  /\ cutovers # << >>
  /\ history' \in {history, <<Head(cutovers)>>}
  /\ cutovers' = Tail(cutovers)
  /\ failed' = TRUE
  /\ UNCHANGED tail

\* After a failure the last owner gives up the oldest appends; some of them may
\* have reached the file.
Abandon ==
  /\ failed /\ cutovers = << >>
  /\ \E m \in 0 .. Len(tail) : \E n \in 0 .. m :
       /\ history' = history \o SubSeq(tail, 1, n)
       /\ tail' = SubSeq(tail, m + 1, Len(tail))
  /\ failed' = FALSE
  /\ UNCHANGED cutovers

\* The process dies.
Crash ==
  /\ \/ \E n \in 0 .. Len(tail) : history' = history \o SubSeq(tail, 1, n)
     \/ cutovers # << >> /\ history' = <<Head(cutovers)>>
  /\ tail' = << >> /\ cutovers' = << >> /\ failed' = FALSE

Next ==
  \/ \E r \in Rec : Append_(r)
  \/ \E s \in Snapshot : Rewrite(s)
  \/ Persist \/ PersistFails \/ Replace \/ RewriteFails \/ Abandon \/ Crash

Spec == Init /\ [][Next]_logVars
=============================================================================
