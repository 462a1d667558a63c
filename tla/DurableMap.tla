---------------------------- MODULE DurableMap ----------------------------
(***************************************************************************)
(* What minidb promises: a map from keys to values that is explained by the *)
(* log of the writes it was asked for.  A write is in the map from the      *)
(* moment it is logged; a crash takes away a suffix of the writes that were *)
(* not answered, never one that was acknowledged.  A crash keeps a batch    *)
(* whole or not at all.  The outcome of a write the caller was told has     *)
(* failed is open: it may or may not be in the map, key by key, until a     *)
(* later write replaces it; a batch that was rejected may stay in part.     *)
(***************************************************************************)
EXTENDS Integers, Sequences, Queues

CONSTANTS Key,
          Write,
          Puts, Dels,  \* [Write -> SUBSET Key]: the keys a write sets and deletes
          Absent

VARIABLES map,     \* [Key -> Write \union {Absent}]: the write that gave the key its value
          log,     \* the writes in the order they took effect
          outcome  \* [Write -> {"none", "pending", "acked", "rejected", "lost"}]

vars == <<map, log, outcome>>

Touches(w) == Puts[w] \union Dels[w]
Effect(w, k) == IF k \in Puts[w] THEN w ELSE Absent
Rejected(w) == outcome[w] = "rejected"

\* After a delete that failed, nothing is promised of its key any more: minidb may
\* put back a value that a later delete removed.
Disputed(k) == \E w \in Write : Rejected(w) /\ k \in Dels[w]

\* The value v of k is that of a logged write after which only rejected ones
\* touched k, or none at all did.
Explained(k, v) ==
  \/ \E i \in DOMAIN log :
       /\ k \in Touches(log[i]) /\ v = Effect(log[i], k)
       /\ \A j \in DOMAIN log : j > i /\ k \in Touches(log[j]) => Rejected(log[j])
  \/ /\ v = Absent
     /\ \A i \in DOMAIN log : k \in Touches(log[i]) => Rejected(log[i])

MapIsExplained == \A k \in Key : Disputed(k) \/ Explained(k, map[k])

Init ==
  /\ map = [k \in Key |-> Absent]
  /\ log = << >>
  /\ outcome = [w \in Write |-> "none"]

\* A write takes effect.
Log(w) ==
  /\ outcome[w] = "none"
  /\ outcome' = [outcome EXCEPT ![w] = "pending"]
  /\ log' = Append(log, w)
  /\ map' = [k \in Key |-> IF k \in Touches(w) THEN Effect(w, k) ELSE map[k]]

\* A delete that finds nothing to delete is not logged.
Nothing(w) ==
  /\ outcome[w] = "none" /\ \A k \in Dels[w] : map[k] = Absent
  /\ outcome' = [outcome EXCEPT ![w] = "acked"]
  /\ UNCHANGED <<map, log>>

\* Writes are answered: together, if they were written together.
Acknowledge ==
  /\ \E ws \in SUBSET {w \in Write : outcome[w] = "pending"} :
       outcome' = [w \in Write |-> IF w \in ws THEN "acked" ELSE outcome[w]]
  /\ UNCHANGED <<map, log>>

\* The writes that failed are undone, or not, each key for itself.
Reject ==
  /\ \E ws \in SUBSET {w \in Write : outcome[w] = "pending"} :
       /\ outcome' = [w \in Write |-> IF w \in ws THEN "rejected" ELSE outcome[w]]
       /\ map' \in [Key -> Write \union {Absent}]
       /\ \A k \in Key : (\A w \in ws : k \notin Touches(w)) => map'[k] = map[k]
  /\ UNCHANGED log
  /\ MapIsExplained'

\* The process dies and the database is opened again: of the writes that were
\* pending, a prefix has been kept.
Crash ==
  \E kept \in SUBSET {w \in Write : outcome[w] = "pending"} :
    /\ \A i, j \in DOMAIN log :
         i < j /\ log[j] \in kept /\ outcome[log[i]] = "pending" => log[i] \in kept
    /\ \E lost \in SUBSET {w \in Write : outcome[w] \in {"none", "pending"}} :
         /\ \A w \in Write : outcome[w] = "pending" => (w \in lost <=> w \notin kept)
         /\ outcome' = [w \in Write |-> IF w \in lost THEN "lost" ELSE
                                        IF w \in kept THEN "acked" ELSE outcome[w]]
         /\ log' = SelectIn(log, Write \ lost)
    /\ map' \in [Key -> Write \union {Absent}]
    /\ MapIsExplained'

Next == (\E w \in Write : Log(w) \/ Nothing(w)) \/ Acknowledge \/ Reject \/ Crash
Spec == Init /\ [][Next]_vars
===========================================================================
