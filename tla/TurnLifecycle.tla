--------------------------- MODULE TurnLifecycle ---------------------------
(***************************************************************************)
(* The turns of one agent: the part of the loop service that creates,      *)
(* queues, starts, cancels and ends turns, together with the durable turn  *)
(* clock (`TurnModel`) that gives every turn its identity, and the         *)
(* quiescence lease under which no turn may run.                           *)
(*                                                                         *)
(* What runs inside a turn (the step queue, the model request, the tools)  *)
(* is the business of AgentLoop, which instantiates this module and joins  *)
(* each of its actions to what that action does to requests and steps.     *)
(*                                                                         *)
(* A turn is named by the request that opens it.  Its number, turn.id, is  *)
(* data kept in turnId: the questions are whether two turns can share a    *)
(* number and whether the number a client sees is the one a later replay   *)
(* of the wire log computes.                                               *)
(*                                                                         *)
(* An operator whose name ends in _bug is a faulty variant of the one that *)
(* follows it.  No action uses it: it stands in for its original to show   *)
(* that a property of this module can fail.                                *)
(***************************************************************************)
EXTENDS Integers, Sequences, FiniteSets

CONSTANTS
  Turn,            \* the turns that may be opened
  NoTurn,          \* "no active turn"
  PersistedClocks, \* the TurnModel states a wire log may replay to at start-up
  MaxLeases,       \* bound on simultaneous quiescence leases
  MaxRestarts,     \* bound on restarts of the process
  AbruptCrash      \* may a restart come without dispose() having drained the loop?

ASSUME TurnAssumption == NoTurn \notin Turn
\* advanceTurnClock leaves only cancelled numbers above the clock.
ASSUME ClockAssumption ==
  PersistedClocks \subseteq {c \in [next : Nat, cancelled : SUBSET Nat] :
                               /\ IsFiniteSet(c.cancelled)
                               /\ \A id \in c.cancelled : id > c.next}
ASSUME BoundAssumption == MaxLeases \in Nat /\ MaxRestarts \in Nat
ASSUME CrashAssumption == AbruptCrash \in BOOLEAN

VARIABLES
  turnState,         \* turn.state of every turn
  turnId,            \* turn.id of every turn
  pendingTurns,      \* the queued turns, oldest first
  active,            \* activeTurnJob
  abortedTurns,      \* the turns whose controller has been aborted
  leases,            \* quiescenceDepth
  disposing,         \* dispose() has been called
  nextReserved,      \* nextReservedTurnId; 0 stands for undefined
  nextTurnId,        \* TurnModel.nextTurnId, durable
  cancelledTurnIds,  \* TurnModel.cancelledTurnIds, durable
  prompted,          \* the turns with a turn.prompt record in the wire log
  restarts           \* number of restarts so far

queueVars == <<turnState, turnId, pendingTurns, active, abortedTurns>>
clockVars == <<nextReserved, nextTurnId, cancelledTurnIds, prompted>>
vars == <<queueVars, clockVars, leases, disposing, restarts>>

Live == {"queued", "running"}
Outcome == {"completed", "failed", "cancelled"}

TypeOK ==
  /\ turnState \in [Turn -> {"none", "lost"} \union Live \union Outcome]
  /\ turnId \in [Turn -> Nat]
  /\ pendingTurns \in Seq(Turn)
  /\ active \in Turn \union {NoTurn}
  /\ abortedTurns \subseteq Turn
  /\ leases \in Nat
  /\ disposing \in BOOLEAN
  /\ nextReserved \in Nat
  /\ nextTurnId \in Nat
  /\ cancelledTurnIds \subseteq Nat /\ IsFiniteSet(cancelledTurnIds)
  /\ prompted \subseteq Turn
  /\ restarts \in Nat

Init ==
  /\ turnState = [t \in Turn |-> "none"]
  /\ turnId = [t \in Turn |-> 0]
  /\ pendingTurns = << >>
  /\ active = NoTurn
  /\ abortedTurns = {}
  /\ leases = 0
  /\ disposing = FALSE
  /\ nextReserved = 0
  /\ \E clock \in PersistedClocks :
       nextTurnId = clock.next /\ cancelledTurnIds = clock.cancelled
  /\ prompted = {}
  /\ restarts = 0

----------------------------------------------------------------------------
(* The turn clock *)

advanceTurnClock_bug(n, cancelled) ==  \* rests on a cancelled number
  nextTurnId' = n /\ cancelledTurnIds' = {c \in cancelled : c >= n}

\* Move the clock to the first number from n on that is not in cancelled, and
\* forget the cancelled numbers it has passed.
advanceTurnClock(n, cancelled) ==
  \E m \in n .. (n + Cardinality(cancelled)) :
    /\ n .. (m - 1) \subseteq cancelled
    /\ m \notin cancelled
    /\ nextTurnId' = m
    /\ cancelledTurnIds' = {c \in cancelled : c > m}

cancelTurn_bug(ids) == UNCHANGED <<nextTurnId, cancelledTurnIds>>  \* forgets them

\* The turn.cancel records of the turns numbered ids, in the order of the
\* numbers: a number the clock has passed changes nothing.
cancelTurn(ids) ==
  LET ahead == {id \in ids : id >= nextTurnId} IN
  IF ahead = {} THEN UNCHANGED <<nextTurnId, cancelledTurnIds>>
                ELSE advanceTurnClock(nextTurnId, cancelledTurnIds \union ahead)

reserveTurnId_bug == nextTurnId  \* looks at the durable clock only

reserveTurnId == IF nextReserved > nextTurnId THEN nextReserved ELSE nextTurnId

----------------------------------------------------------------------------
(* Creating, starting and ending turns *)

\* The turn.prompt record carries no number: it moves the clock by one.
startTurn(t) ==
  /\ active' = t
  /\ prompted' = prompted \union {t}
  /\ advanceTurnClock(nextTurnId + 1, cancelledTurnIds)

\* The condition under which pumpTurns starts the head of the queue.
MayStart == ~disposing /\ leases = 0 /\ active = NoTurn

\* createAndQueueTurn: reserve a number, join the queue, and pump it.  The pump
\* starts the head of the queue, which is t itself unless the call comes from a
\* subscriber of the previous turn's turn.ended.
CreateTurn(t) ==
  LET queued == Append(pendingTurns, t) IN
  /\ turnState[t] = "none"
  /\ turnId' = [turnId EXCEPT ![t] = reserveTurnId]
  /\ nextReserved' = reserveTurnId + 1
  /\ \/ /\ MayStart
        /\ pendingTurns' = Tail(queued)
        /\ turnState' = [turnState EXCEPT ![t] = "queued", ![Head(queued)] = "running"]
        /\ startTurn(Head(queued))
     \/ /\ ~MayStart
        /\ pendingTurns' = queued
        /\ turnState' = [turnState EXCEPT ![t] = "queued"]
        /\ UNCHANGED <<active, prompted, nextTurnId, cancelledTurnIds>>
  /\ UNCHANGED <<abortedTurns, leases, disposing, restarts>>

\* enqueue: refused once disposing; under a lease the request is held instead,
\* and its turn is created when the lease is released.
AdmitTurn(t) == ~disposing /\ leases = 0 /\ CreateTurn(t)

\* pumpTurns, when there is a turn to start.
PumpTurns ==
  /\ MayStart
  /\ pendingTurns # << >>
  /\ pendingTurns' = Tail(pendingTurns)
  /\ turnState' = [turnState EXCEPT ![Head(pendingTurns)] = "running"]
  /\ startTurn(Head(pendingTurns))
  /\ UNCHANGED <<turnId, abortedTurns, nextReserved, leases, disposing, restarts>>

\* releaseActiveTurn, with the outcome runTurn returned.
ReleaseActiveTurn(outcome) ==
  /\ active # NoTurn
  /\ turnState' = [turnState EXCEPT ![active] = outcome]
  /\ active' = NoTurn
  /\ UNCHANGED <<turnId, pendingTurns, abortedTurns, clockVars, leases, disposing, restarts>>

----------------------------------------------------------------------------
(* Cancellation *)

\* cancelActiveTurn returns early for a turn that is already aborted.
CancelActiveTurn ==
  /\ active # NoTurn
  /\ active \notin abortedTurns
  /\ abortedTurns' = abortedTurns \union {active}
  /\ cancelTurn({turnId[active]})
  /\ UNCHANGED <<turnState, turnId, pendingTurns, active, nextReserved, prompted,
                 leases, disposing, restarts>>

CancelQueuedTurn(t) ==
  \E i \in DOMAIN pendingTurns :
    /\ pendingTurns[i] = t
    /\ pendingTurns' = SubSeq(pendingTurns, 1, i - 1)
                         \o SubSeq(pendingTurns, i + 1, Len(pendingTurns))
    /\ turnState' = [turnState EXCEPT ![t] = "cancelled"]
    /\ abortedTurns' = abortedTurns \union {t}
    /\ cancelTurn({turnId[t]})
    /\ UNCHANGED <<turnId, active, nextReserved, prompted, leases, disposing, restarts>>

----------------------------------------------------------------------------
(* Quiescence, disposal and restart *)

TryAcquireQuiescence_bug(requestsWait) ==  \* asks for the active turn only
  /\ ~disposing
  /\ active = NoTurn
  /\ leases < MaxLeases
  /\ leases' = leases + 1
  /\ UNCHANGED <<queueVars, clockVars, disposing, restarts>>

\* requestsWait: a request waits outside the turns (see AgentLoop).
TryAcquireQuiescence(requestsWait) ==
  /\ ~disposing
  /\ active = NoTurn
  /\ pendingTurns = << >>
  /\ ~requestsWait
  /\ leases < MaxLeases
  /\ leases' = leases + 1
  /\ UNCHANGED <<queueVars, clockVars, disposing, restarts>>

ReleaseQuiescence_bug ==  \* releases more often than it was acquired
  /\ leases' = leases - 1
  /\ UNCHANGED <<queueVars, clockVars, disposing, restarts>>

ReleaseQuiescence ==
  /\ leases > 0
  /\ leases' = leases - 1
  /\ UNCHANGED <<queueVars, clockVars, disposing, restarts>>

\* dispose(): every queued turn is cancelled, oldest first, and the active one
\* is aborted; it ends later, by ReleaseActiveTurn.
Dispose ==
  LET queued == {pendingTurns[i] : i \in DOMAIN pendingTurns} IN
  /\ ~disposing
  /\ disposing' = TRUE
  /\ pendingTurns' = << >>
  /\ turnState' = [t \in Turn |-> IF t \in queued THEN "cancelled" ELSE turnState[t]]
  /\ abortedTurns' = abortedTurns \union queued \union ({active} \ {NoTurn})
  /\ cancelTurn({turnId[t] : t \in queued \union ({active} \ (abortedTurns \union {NoTurn}))})
  /\ UNCHANGED <<turnId, active, nextReserved, prompted, leases, restarts>>

\* The session is opened again over the same wire log: a new loop service, the
\* replayed TurnModel, and none of the turns that were queued or running.
Restart ==
  /\ restarts < MaxRestarts
  /\ AbruptCrash \/ (disposing /\ active = NoTurn)
  /\ turnState' = [t \in Turn |-> IF turnState[t] \in Live THEN "lost" ELSE turnState[t]]
  /\ pendingTurns' = << >>
  /\ active' = NoTurn
  /\ leases' = 0
  /\ disposing' = FALSE
  /\ nextReserved' = 0
  /\ restarts' = restarts + 1
  /\ UNCHANGED <<turnId, abortedTurns, nextTurnId, cancelledTurnIds, prompted>>

Next ==
  \/ \E t \in Turn : AdmitTurn(t) \/ CancelQueuedTurn(t)
  \/ \E outcome \in Outcome : ReleaseActiveTurn(outcome)
  \/ PumpTurns
  \/ CancelActiveTurn
  \/ TryAcquireQuiescence(FALSE)
  \/ ReleaseQuiescence
  \/ Dispose
  \/ Restart

Spec == Init /\ [][Next]_vars

----------------------------------------------------------------------------
(* Properties *)

\* Every number between the clock and the next reservation is that of a queued
\* turn or of a cancelled reservation, the queue is in the order of the numbers,
\* and the clock never rests on a cancelled number.  This is why startTurn may
\* move the clock by one without naming a number (turnOps.ts, reserveTurnId).  A
\* queued turn may still be numbered below the clock: see ReplayAssignsSameId.
ClockAccountsForReservations ==
  /\ \A n \in nextTurnId .. (nextReserved - 1) :
       n \in cancelledTurnIds \/ \E i \in DOMAIN pendingTurns : turnId[pendingTurns[i]] = n
  /\ \A i \in DOMAIN pendingTurns : turnId[pendingTurns[i]] < nextReserved
  /\ \A i, j \in DOMAIN pendingTurns :
       i < j => turnId[pendingTurns[i]] < turnId[pendingTurns[j]]
  /\ nextTurnId \notin cancelledTurnIds

\* No two turns that ever started share a number, in one life of the process or
\* across restarts, whatever was cancelled in between.
TurnIdsNeverReused ==
  \A t, u \in prompted : t # u => turnId[t] # turnId[u]

\* A turn starts with a number above every earlier turn's and below every turn
\* still queued: queued turns run first come, first served (pumpTurns).
TurnsStartInOrder ==
  [][\A t \in prompted' \ prompted :
       /\ \A u \in prompted : turnId[u] < turnId'[t]
       /\ \A i \in DOMAIN pendingTurns' : turnId'[t] < turnId'[pendingTurns'[i]]]_vars

\* While a quiescence lease is out no turn runs or waits to run, so the holder
\* (undo) may rewrite the conversation (tryAcquireQuiescence, enqueue).
NoTurnUnderLease == leases > 0 => active = NoTurn /\ pendingTurns = << >>

\* A turn starts under the number the durable clock gives to its turn.prompt
\* record, which is the number the history fold assigns to it when it replays
\* the log (foldFacts.ts, turn-clock replay), as long as no crash has lost a
\* queued or running turn: reserveTurnId does not look at cancelledTurnIds, so
\* after a crash a turn may be numbered like a cancelled one.
ReplayAssignsSameId ==
  [][(\A t \in Turn : turnState[t] # "lost") =>
       \A t \in prompted' \ prompted : turnId'[t] = nextTurnId]_vars
=============================================================================
