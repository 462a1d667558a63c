----------------------------- MODULE ToolScheduler -----------------------------
(***************************************************************************)
(* The scheduler of the tool calls of one step                             *)
(* (agent/toolExecutor/toolScheduler.ts).  executeBatch adds every call in *)
(* provider order, synchronously; a call that conflicts with a running one *)
(* or with one that is queued before it waits in the queue, and every end  *)
(* of a call scans the queue again.  A call is its index in the batch, so  *)
(* the order of the queue is the order of the indices.                     *)
(***************************************************************************)
EXTENDS Naturals

CONSTANTS N,                \* the number of calls of the step
          Accesses,         \* what a call may declare to touch
          Conflict(_, _)    \* ToolAccesses.conflict

ASSUME CallsAssumption == N \in Nat

ASSUME ConflictSymmetric ==
    \A a, b \in Accesses : Conflict(a, b) \in BOOLEAN /\ Conflict(a, b) = Conflict(b, a)

Calls == 1..N

VARIABLES accesses,   \* the accesses each call was added with
          status      \* "new", then queuedTasks or activeTasks, then "done"

schedulerVars == <<accesses, status>>

Statuses == {"new", "queued", "active", "done"}

Conflicts(c, d) == Conflict(accesses[c], accesses[d])

-----------------------------------------------------------------------------

SchedulerInit ==
    /\ accesses \in [Calls -> Accesses]
    /\ status = [c \in Calls |-> "new"]

\* The executor resolves what a call will touch before it adds the batch.
Declare(c) ==
    /\ status[c] = "new"
    /\ \E a \in Accesses : accesses' = [accesses EXCEPT ![c] = a]
    /\ UNCHANGED status

\* isBlocked for a call that is added: every call before it runs or is queued.
BlockedWhenAdded(c) == \E d \in Calls : d < c /\ Conflicts(c, d)

\* add, for the whole batch.
AddAll ==
    /\ \A c \in Calls : status[c] = "new"
    /\ status' = [c \in Calls |-> IF BlockedWhenAdded(c) THEN "queued" ELSE "active"]
    /\ UNCHANGED accesses

\* Mutant: the queue before a call is not looked at.
BlockedAfter_bug(f, c) == \E d \in Calls \ {f} : status[d] = "active" /\ Conflicts(c, d)

\* isBlocked for a queued call once f is no longer active: by a running call, or
\* by one queued before it that starts in the same scan or stays in the queue.
BlockedAfter(f, c) ==
    \E d \in Calls \ {f} :
        /\ status[d] = "active" \/ (status[d] = "queued" /\ d < c)
        /\ Conflicts(c, d)

\* Mutant: the queue is not scanned.
Finish_bug(f) ==
    /\ status[f] = "active"
    /\ status' = [status EXCEPT ![f] = "done"]
    /\ UNCHANGED accesses

\* finish, with the scan of startQueuedTasks.
Finish(f) ==
    /\ status[f] = "active"
    /\ status' = [c \in Calls |->
                    IF c = f THEN "done"
                    ELSE IF status[c] = "queued" /\ ~BlockedAfter(f, c) THEN "active"
                    ELSE status[c]]
    /\ UNCHANGED accesses

SchedulerNext == AddAll \/ \E c \in Calls : Declare(c) \/ Finish(c)

SchedulerSpec == SchedulerInit /\ [][SchedulerNext]_schedulerVars

-----------------------------------------------------------------------------
(* What the scheduler promises. *)

SchedulerTypeOK ==
    /\ accesses \in [Calls -> Accesses]
    /\ status \in [Calls -> Statuses]

\* Of two conflicting calls the earlier one is over before the later one starts:
\* they never overlap, and their effects are in provider order whatever order the
\* calls end in (finish and startQueuedTasks scan the queue on every end).
ConflictsInOrder ==
    \A c, d \in Calls :
        c < d /\ Conflicts(c, d) /\ status[d] \in {"active", "done"} => status[c] = "done"

\* A queued call waits for something: a conflicting call before it still runs or
\* waits.  The scan on finish misses no call that could start.
NoMissedStart ==
    \A d \in Calls : status[d] = "queued" =>
        \E c \in Calls : c < d /\ Conflicts(c, d) /\ status[c] \in {"active", "queued"}

\* All calls are added together.
AddedTogether ==
    (\E c \in Calls : status[c] = "new") => \A c \in Calls : status[c] = "new"
=============================================================================
