----------------------------- MODULE AgentLoop -----------------------------
(***************************************************************************)
(* The agent loop: step requests are enqueued from anywhere, open or join  *)
(* turns, and one runner drains the queue of the active turn, one batch of *)
(* requests per step.  Models loopService.ts with stepRequest.ts,          *)
(* stepRequestQueue.ts, and the aspects that hook into it: loopContinuation *)
(* and externalHooks enqueue follow-ups, stepRetry and fullCompaction       *)
(* recover a failed step.                                                   *)
(*                                                                         *)
(* JavaScript runs one task at a time, so code between two awaits is one   *)
(* action, with two exceptions where the loop calls out in the middle: the *)
(* subscribers of turn.started and turn.ended may call back into the loop  *)
(* before the publisher goes on.  Those sections are split into actions    *)
(* that nothing but such a callback may separate (see Callable and Free).  *)
(*                                                                         *)
(* One life of the service is modelled; restarts are TurnLifecycle's.      *)
(* Operators named _bug are faulty variants, as in TurnLifecycle.          *)
(***************************************************************************)
EXTENDS Integers, Sequences, FiniteSets, SequencesExt, Queues

CONSTANTS
  Req,          \* the step requests that may be enqueued
  NoReq,        \* "no request", and so "no turn"
  Kind,         \* the kind of every request
  MaxSteps,     \* effective maxStepsPerTurn
  MaxAttempts,  \* maxAttemptsPerStep: model calls one driver may fail
  MaxOverflows, \* maxOverflowCompactionAttempts, by default 3
  MaxLeases     \* bound on simultaneous quiescence leases

Kinds == {"prompt", "steer", "inject", "message", "stop_hook", "continuation", "landing"}

ASSUME RequestAssumption == NoReq \notin Req /\ Kind \in [Req -> Kinds]
ASSUME LimitAssumption == MaxSteps \in Nat \ {0} /\ MaxAttempts \in Nat \ {0}
                          /\ MaxOverflows \in Nat

\* What the constructors of the senders pass to StepRequest: a prompt (also a
\* prompt retry or a goal continuation) opens a turn of its own, an injected
\* task notification opens one only if none is active, a steer needs an active
\* turn, and everything else joins the active turn or waits for the next one.
Opening == {r \in Req : Kind[r] \in {"prompt", "inject"}}
Mergeable(r) == Kind[r] \in {"steer", "inject", "stop_hook"}
TurnScoped(r) == Kind[r] \notin {"steer", "inject"}
isMaxStepsLandingRequest(r) == Kind[r] = "landing"

VARIABLES
  turnState, turnId, pendingTurns, active, abortedTurns, leases, disposing,
  nextReserved, nextTurnId, cancelledTurnIds, prompted,  \* see TurnLifecycle
  reqState,       \* request.state of every request; "new" before enqueue
  receipt,        \* the enqueue receipt: assigned, rejected or still waiting
  stepTurn,       \* the turn whose job.steps holds the request's step
  stepState,      \* step.state
  queue,          \* job.queue of every turn
  standalone,     \* standaloneStepQueue
  held,           \* heldAdmissions
  draining,       \* the held admissions releaseQuiescence has still to admit
  inDrain,        \* releaseQuiescence is in its loop
  pumpDue,        \* runTurn has published turn.ended and has still to pump
  phase,          \* where the runner of the active turn is
  current,        \* the driver of the step it executes
  steps,          \* runtime.steps
  finish,         \* how the step or the run ended, while that is remembered
  failedDriver,   \* stepRetry: lastFailedDriverId
  failedAttempts, \* stepRetry: failedAttempts
  overflows,      \* fullCompaction: consecutiveOverflowCompactions
  waiting         \* settleWaiters is not empty

turnVars == <<turnState, turnId, pendingTurns, active, abortedTurns, leases, disposing,
              nextReserved, nextTurnId, cancelledTurnIds, prompted>>
reqVars == <<reqState, receipt, stepTurn, stepState>>
queueVars == <<queue, standalone>>
drainVars == <<held, draining, inDrain>>
retryVars == <<failedDriver, failedAttempts, overflows>>
runVars == <<phase, current, steps, finish, retryVars>>
vars == <<turnVars, reqVars, queueVars, drainVars, pumpDue, runVars, waiting>>

Turns == INSTANCE TurnLifecycle
           WITH Turn <- Req, NoTurn <- NoReq,
                PersistedClocks <- {[next |-> 0, cancelled |-> {}]},
                MaxRestarts <- 0, AbruptCrash <- FALSE, restarts <- 0

TypeOK ==
  /\ Turns!TypeOK
  /\ reqState \in [Req -> {"new", "pending", "materialized", "aborted"}]
  /\ receipt \in [Req -> {"none", "waiting", "assigned", "rejected"}]
  /\ stepTurn \in [Req -> Req \union {NoReq}]
  /\ stepState \in [Req -> {"none", "queued", "running", "completed", "cancelled"}]
  /\ queue \in [Req -> Seq(Req)]
  /\ standalone \in Seq(Req)
  /\ held \in Seq(Req)
  /\ draining \in Seq(Req)
  /\ inDrain \in BOOLEAN
  /\ pumpDue \in BOOLEAN
  /\ phase \in {"idle", "begin", "resume", "hooks", "model", "tools", "after", "stop_hook",
                "complete", "backoff", "compacting", "ending"}
  /\ current \in Req \union {NoReq}
  /\ steps \in Nat
  /\ finish \in {"none", "stop", "tool_calls", "filtered", "hook_stop"} \union Turns!Outcome
  /\ failedDriver \in Req \union {NoReq}
  /\ failedAttempts \in Nat
  /\ overflows \in Nat
  /\ waiting \in BOOLEAN

Init ==
  /\ Turns!Init
  /\ reqState = [r \in Req |-> "new"]
  /\ receipt = [r \in Req |-> "none"]
  /\ stepTurn = [r \in Req |-> NoReq]
  /\ stepState = [r \in Req |-> "none"]
  /\ queue = [t \in Req |-> << >>]
  /\ standalone = << >> /\ held = << >> /\ draining = << >>
  /\ inDrain = FALSE /\ pumpDue = FALSE
  /\ phase = "idle" /\ current = NoReq /\ steps = 0 /\ finish = "none"
  /\ failedDriver = NoReq /\ failedAttempts = 0 /\ overflows = 0
  /\ waiting = FALSE

----------------------------------------------------------------------------
(* Who may act when *)

\* The event loop is between two tasks.
Free == ~inDrain /\ ~pumpDue /\ phase # "begin"

\* A caller may enter the loop service: between two tasks, or from a subscriber
\* of turn.started (a turn at its first begin) or of turn.ended (a pump due).
Callable == Free \/ (pumpDue /\ phase # "begin") \/ (phase = "begin" /\ steps = 0)

NotAborted_bug(s) == s  \* keeps the aborted requests

NotAborted(s) == SelectIn(s, {r \in Req : reqState[r] # "aborted"})
hasPending(s) == NotAborted(s) # << >>

Settled == active = NoReq /\ pendingTurns = << >> /\ held = << >>

maybeSettle_bug == waiting' = (waiting /\ (active = NoReq \/ ~Settled'))  \* only by a turn's end

\* Resolve the promises of settled() once nothing is active, queued or held.
maybeSettle == waiting' = (waiting /\ ~Settled')

\* The step of r is cancelled and its request aborted if not yet materialized.
abortPending(rs) ==
  reqState' = [r \in Req |-> IF r \in rs /\ reqState[r] = "pending" THEN "aborted" ELSE reqState[r]]
reject(rs) ==
  receipt' = [r \in Req |-> IF r \in rs /\ receipt[r] = "waiting" THEN "rejected" ELSE receipt[r]]

Cancellable_bug(rs) == {r \in rs : stepState[r] = "running"}  \* not the queued ones

\* The steps in rs that Step.cancel would cancel: cancelStep leaves a finished
\* step alone.
Cancellable(rs) == {r \in rs : stepState[r] \in {"queued", "running"}}
cancelSteps(rs) ==
  /\ stepState' = [r \in Req |-> IF r \in Cancellable(rs) THEN "cancelled" ELSE stepState[r]]
  /\ abortPending(Cancellable(rs))

StepsOf(t) == {r \in Req : stepTurn[r] = t}

\* Is the signal of the running step aborted (AbortSignal.any of turn and step)?
SignalAborted == active \in abortedTurns \/ stepState[current] = "cancelled"

----------------------------------------------------------------------------
(* Admission *)

\* The runner of a turn that has just been started by CreateTurn or PumpTurns;
\* stepRetry and fullCompaction forget their attempts on turn.started.
runTurn ==
  IF active' = active
    THEN UNCHANGED runVars
    ELSE /\ phase' = "begin" /\ current' = NoReq /\ steps' = 0 /\ finish' = "none"
         /\ failedDriver' = NoReq /\ failedAttempts' = 0 /\ overflows' = 0

\* assignStep for each request of rs: a step in turn t, and its receipt resolved.
assignSteps(t, rs) ==
  /\ stepTurn' = [r \in Req |-> IF r \in rs THEN t ELSE stepTurn[r]]
  /\ stepState' = [r \in Req |-> IF r \in rs THEN "queued" ELSE stepState[r]]
  /\ receipt' = [r \in Req |-> IF r \in rs THEN "assigned" ELSE receipt[r]]

moveStandaloneSteps_bug == << >>  \* drains the queue without moving anything

\* moveStandaloneStepsTo: what was waiting for a turn, without the aborted.
moveStandaloneSteps == NotAborted(standalone)

\* createAndQueueTurn and createPendingTurn: the new turn takes over every
\* request that was waiting for a turn.
createAndQueueTurn(r) ==
  LET moved == moveStandaloneSteps IN
  /\ Turns!CreateTurn(r)
  /\ queue' = [queue EXCEPT ![r] = <<r>> \o moved]
  /\ standalone' = << >>
  /\ assignSteps(r, {r} \union ToSet(moved))
  /\ runTurn

joinActiveTurn(r) ==
  /\ queue' = [queue EXCEPT ![active] = Append(@, r)]
  /\ assignSteps(active, {r})
  /\ UNCHANGED <<turnVars, standalone>>

waitForNextTurn(r) ==
  /\ standalone' = Append(standalone, r)
  /\ receipt' = [receipt EXCEPT ![r] = "waiting"]
  /\ UNCHANGED <<turnVars, queue, stepTurn, stepState, runVars>>

admit(r) ==
  \/ /\ Kind[r] = "prompt" \/ (Kind[r] = "inject" /\ active = NoReq)
     /\ createAndQueueTurn(r)
  \/ /\ Kind[r] # "prompt" /\ active # NoReq
     /\ joinActiveTurn(r)
     /\ UNCHANGED runVars
  \/ /\ r \notin Opening /\ Kind[r] # "steer" /\ active = NoReq
     /\ waitForNextTurn(r)

\* admit throws for a steer without an active turn, after rejecting the receipt.
requiresActiveTurn(r) ==
  /\ Kind[r] = "steer" /\ active = NoReq
  /\ receipt' = [receipt EXCEPT ![r] = "rejected"]
  /\ UNCHANGED <<turnVars, queueVars, stepTurn, stepState, runVars>>

mustHold_bug == FALSE  \* admits under a lease

mustHold == leases > 0

\* A call of enqueue by a client of the loop (the prompt, goal and task
\* services); enqueue throws once disposing.
Enqueue(r) ==
  /\ Callable
  /\ ~disposing
  /\ reqState[r] = "new"
  /\ Kind[r] \in {"prompt", "steer", "inject", "message"}
  /\ reqState' = [reqState EXCEPT ![r] = "pending"]
  /\ \/ /\ mustHold
        /\ held' = Append(held, r)
        /\ receipt' = [receipt EXCEPT ![r] = "waiting"]
        /\ UNCHANGED <<turnVars, queueVars, stepTurn, stepState, runVars>>
     \/ /\ ~mustHold
        /\ admit(r) \/ requiresActiveTurn(r)
        /\ UNCHANGED held
  /\ UNCHANGED <<draining, inDrain, pumpDue, waiting>>

----------------------------------------------------------------------------
(* Cancellation by clients *)

\* receipt.abort() of a request that is held, or still waiting for a turn.  In
\* the standalone queue or in the loop of releaseQuiescence it stays in place,
\* to be discarded when it is reached.
AbortUnassigned(r) ==
  /\ Callable
  /\ reqState[r] = "pending" /\ receipt[r] = "waiting"
  /\ abortPending({r})
  /\ reject({r})
  /\ UNCHANGED <<turnVars, queueVars, stepTurn, stepState, draining, inDrain, pumpDue, runVars>>
  /\ \/ /\ \E i \in DOMAIN held : held[i] = r /\ held' = RemoveAt(held, i)
        /\ maybeSettle
     \/ /\ r \notin ToSet(held)
        /\ UNCHANGED <<held, waiting>>

\* step.cancel(), or receipt.abort() of an assigned request other than the
\* opener of a queued turn (for which abortRequest cancels the turn).
CancelStep(r) ==
  /\ Callable
  /\ r \in Cancellable(Req)
  /\ cancelSteps({r})
  /\ UNCHANGED <<turnVars, receipt, stepTurn, queueVars, drainVars, pumpDue, runVars, waiting>>

\* cancel(turnId), turn.cancel(), or receipt.abort() of a queued turn's opener.
CancelActiveTurn ==
  /\ Callable
  /\ Turns!CancelActiveTurn
  /\ UNCHANGED <<reqVars, queueVars, drainVars, pumpDue, runVars, waiting>>

CancelQueuedTurn(t) ==
  /\ Callable
  /\ Turns!CancelQueuedTurn(t)
  /\ cancelSteps(StepsOf(t))
  /\ queue' = [queue EXCEPT ![t] = << >>]
  /\ UNCHANGED <<receipt, stepTurn, standalone, drainVars, pumpDue, runVars>>
  /\ maybeSettle

\* settled(), when there is something to wait for.
AwaitSettled ==
  /\ Free
  /\ ~Settled
  /\ waiting' = TRUE
  /\ UNCHANGED <<turnVars, reqVars, queueVars, drainVars, pumpDue, runVars>>

Dispose ==
  LET unassigned == ToSet(standalone) \union ToSet(held) IN
  /\ Free
  /\ Turns!Dispose
  /\ LET steps_ == UNION {StepsOf(t) : t \in ToSet(pendingTurns)} IN
     /\ stepState' = [r \in Req |-> IF r \in Cancellable(steps_) THEN "cancelled" ELSE stepState[r]]
     /\ abortPending(Cancellable(steps_) \union unassigned)
  /\ reject(unassigned)
  /\ queue' = [t \in Req |-> IF t \in ToSet(pendingTurns) THEN << >> ELSE queue[t]]
  /\ standalone' = << >>
  /\ held' = << >>
  /\ UNCHANGED <<stepTurn, draining, inDrain, pumpDue, runVars>>
  /\ maybeSettle

----------------------------------------------------------------------------
(* Quiescence *)

TryAcquireQuiescence ==
  /\ Free
  /\ Turns!TryAcquireQuiescence(hasPending(standalone) \/ held # << >>)
  /\ UNCHANGED <<reqVars, queueVars, drainVars, pumpDue, runVars, waiting>>

lastReleaseOffByOne_bug == leases = 0 /\ ~disposing  \* tests the old depth

lastRelease == leases = 1 /\ ~disposing

\* Under the last lease no turn is queued, so the pumpTurns before the loop
\* starts none, and it settles nobody as long as something is held.
ReleaseQuiescence ==
  /\ Free
  /\ Turns!ReleaseQuiescence
  /\ IF lastRelease
       THEN held' = << >> /\ draining' = held /\ inDrain' = TRUE
       ELSE UNCHANGED drainVars
  /\ UNCHANGED <<reqVars, queueVars, pumpDue, runVars, waiting>>

\* One iteration of the loop.  A turn that it starts runs up to its first await
\* before the next one.  A request that cannot be admitted is aborted.
AdmitHeld ==
  LET r == Head(draining) IN
  /\ inDrain /\ ~pumpDue /\ phase # "begin" /\ draining # << >>
  /\ draining' = Tail(draining)
  /\ \/ /\ reqState[r] = "aborted"
        /\ UNCHANGED <<turnVars, reqVars, queueVars, runVars>>
     \/ /\ reqState[r] # "aborted"
        /\ admit(r)
        /\ UNCHANGED reqState
     \/ /\ reqState[r] # "aborted"
        /\ requiresActiveTurn(r)
        /\ abortPending({r})
  /\ UNCHANGED <<held, inDrain, pumpDue, waiting>>

pumpTurns_bug == UNCHANGED <<turnVars, runVars, waiting>>  \* does not pump

\* pumpTurns: start the head of the queue, or settle when there is none.
pumpTurns ==
  \/ /\ Turns!PumpTurns
     /\ runTurn
     /\ UNCHANGED waiting
  \/ /\ ~Turns!MayStart
     /\ UNCHANGED <<turnVars, runVars, waiting>>
  \/ /\ Turns!MayStart /\ pendingTurns = << >>
     /\ UNCHANGED <<turnVars, runVars>>
     /\ maybeSettle

FinishRelease ==
  /\ inDrain /\ ~pumpDue /\ phase # "begin" /\ draining = << >>
  /\ inDrain' = FALSE
  /\ UNCHANGED <<reqVars, queueVars, held, draining, pumpDue>>
  /\ pumpTurns

----------------------------------------------------------------------------
(* The runner of the active turn: one step *)

\* The run returns outcome; abortTurnScoped drops the turn-scoped requests that
\* are still queued.  The steps of the turn are settled by ReleaseActiveTurn.
\* What becomes of the current step and of the retry count is the caller's.
endRun(outcome) ==
  LET dropped == {r \in ToSet(queue[active]) : TurnScoped(r)} IN
  /\ phase' = "ending"
  /\ finish' = outcome
  /\ current' = NoReq
  /\ abortPending(dropped)
  /\ queue' = [queue EXCEPT ![active] =
                 SelectIn(@, {r \in Req : /\ reqState[r] # "aborted"
                                          /\ TurnScoped(r) => reqState[r] = "materialized"})]
  /\ UNCHANGED <<turnVars, receipt, stepTurn, standalone, drainVars, pumpDue, steps, waiting>>

\* peekNextDriver and takeNextBatch over a queue without aborted requests: the
\* first request that cannot be merged drives the step, or the first of all.
NextDriver(q) ==
  LET own == SelectIn(q, {r \in Req : ~Mergeable(r)}) IN
  IF own # << >> THEN Head(own) ELSE Head(q)
Merged(q) == {r \in ToSet(q) : Mergeable(r)} \ {NextDriver(q)}
Rest(q) == SelectIn(q, {r \in Req : r # NextDriver(q) /\ ~Mergeable(r)})

OverCeiling(q) == steps >= MaxSteps /\ ~isMaxStepsLandingRequest(NextDriver(q))

\* beginLoopStep when it takes a batch, and materializeBatch.
BeginStep ==
  LET q == NotAborted(queue[active])
      driver == NextDriver(q)
      batch == {driver} \union Merged(q) IN
  /\ phase = "begin"
  /\ active \notin abortedTurns
  /\ q # << >>
  /\ ~OverCeiling(q)
  /\ phase' = "hooks"
  /\ current' = driver
  /\ steps' = steps + 1
  /\ queue' = [queue EXCEPT ![active] = Rest(q)]
  /\ stepState' = [stepState EXCEPT ![driver] = "running"]
  /\ reqState' = [r \in Req |-> IF r \in batch THEN "materialized" ELSE reqState[r]]
  /\ UNCHANGED <<turnVars, receipt, stepTurn, standalone, drainVars, pumpDue, finish,
                 retryVars, waiting>>

\* beginLoopStep when it does not: an aborted turn, nothing left to do, or the
\* step ceiling, for which no error handler matches.
BeginEndsRun ==
  LET q == NotAborted(queue[active]) IN
  /\ phase = "begin"
  /\ \/ active \in abortedTurns /\ endRun("cancelled")
     \/ active \notin abortedTurns /\ q = << >> /\ endRun("completed")
     \/ active \notin abortedTurns /\ q # << >> /\ OverCeiling(q) /\ endRun("failed")
  /\ UNCHANGED <<stepState, retryVars>>

\* onWillBeginStep has run; beginStep then checks the signal.
HooksDone ==
  /\ Free /\ phase = "hooks"
  /\ ~SignalAborted
  /\ phase' = "model"
  /\ UNCHANGED <<turnVars, reqVars, queueVars, drainVars, pumpDue, current, steps, finish,
                 retryVars, waiting>>

\* The model has answered.  With tool calls the step goes on to run them; without,
\* finishStep checks the signal and the onDidFinishStep hooks run.
ModelAnswers ==
  /\ Free /\ phase = "model"
  /\ \/ phase' = "tools" /\ UNCHANGED finish
     \/ ~SignalAborted /\ phase' = "after" /\ finish' \in {"stop", "filtered"}
  /\ UNCHANGED <<turnVars, reqVars, queueVars, drainVars, pumpDue, current, steps,
                 retryVars, waiting>>

\* The tools have run; a stopTurn result turns the finish reason into a stop.
ToolsDone ==
  /\ Free /\ phase = "tools"
  /\ ~SignalAborted
  /\ phase' = "after"
  /\ finish' \in {"tool_calls", "stop"}
  /\ UNCHANGED <<turnVars, reqVars, queueVars, drainVars, pumpDue, current, steps,
                 retryVars, waiting>>

\* After a plain stop with nothing else pending, externalHooks runs its Stop
\* command.
StopHookRuns ==
  /\ Free /\ phase = "after"
  /\ finish = "stop"
  /\ ~hasPending(queue[active]) /\ ~hasPending(standalone)
  /\ pendingTurns = << >> /\ held = << >>
  /\ phase' = "stop_hook"
  /\ UNCHANGED <<turnVars, reqVars, queueVars, drainVars, pumpDue, current, steps, finish,
                 retryVars, waiting>>

\* What the onDidFinishStep hooks enqueue: loopContinuation a continuation, or
\* the landing prompt at the ceiling, after tool calls; the stop hook a mergeable
\* continuation, without looking again at what is pending.
HookRequests ==
  {r \in Req :
     /\ reqState[r] = "new"
     /\ \/ finish = "tool_calls" /\ steps < MaxSteps /\ Kind[r] = "continuation"
        \/ finish = "tool_calls" /\ steps = MaxSteps /\ Kind[r] = "landing"
        \/ phase = "stop_hook" /\ Kind[r] = "stop_hook"}

\* The hooks have run; stepRetry and fullCompaction forget their attempts.  A hook
\* (the goal budget) may stop the turn: loopContinuation heeds that, the stop hook
\* does not.  Once disposing the enqueue throws an abort error, which ends the run
\* like any other cancellation (see StepAborted).
AfterStep ==
  /\ Free /\ phase \in {"after", "stop_hook"}
  /\ \/ /\ finish # "filtered"
        /\ finish' = "hook_stop"
        /\ UNCHANGED <<turnVars, reqVars, queueVars>>
     \/ /\ finish = "tool_calls" => steps > MaxSteps
        /\ UNCHANGED <<turnVars, reqVars, queueVars, finish>>
     \/ /\ ~disposing
        /\ \E r \in HookRequests :
             /\ joinActiveTurn(r)
             /\ reqState' = [reqState EXCEPT ![r] = "pending"]
        /\ finish' \in {finish} \union (IF phase = "stop_hook" THEN {"hook_stop"} ELSE {})
  /\ phase' = "complete"
  /\ failedDriver' = NoReq /\ failedAttempts' = 0 /\ overflows' = 0
  /\ UNCHANGED <<drainVars, pumpDue, current, steps, waiting>>

\* completeLoopStep, after executeLoopStep has returned.  It does not look at the
\* signals: a step cancelled during the hooks counts as completed.
CompleteStep ==
  /\ Free /\ phase = "complete"
  /\ stepState' = [stepState EXCEPT ![current] = "completed"]
  /\ \/ /\ finish = "filtered"
        /\ endRun(IF active \in abortedTurns THEN "cancelled" ELSE "failed")
     \/ /\ finish = "hook_stop"
        /\ endRun("completed")
     \/ /\ finish \in {"stop", "tool_calls"}
        /\ phase' = "begin" /\ current' = NoReq /\ finish' = "none"
        /\ UNCHANGED <<turnVars, reqState, receipt, stepTurn, queueVars, drainVars, pumpDue,
                       steps, waiting>>
  /\ UNCHANGED retryVars

----------------------------------------------------------------------------
(* The runner: errors *)

\* The run goes on with the next batch, after the awaits of handleLoopStepError.
continueRun ==
  /\ phase' = "resume" /\ current' = NoReq /\ finish' = "none"
  /\ UNCHANGED <<turnVars, receipt, stepTurn, standalone, drainVars, pumpDue, steps, waiting>>

Resume ==
  /\ Free /\ phase = "resume"
  /\ phase' = "begin"
  /\ UNCHANGED <<turnVars, reqVars, queueVars, drainVars, pumpDue, current, steps, finish,
                 retryVars, waiting>>

\* The step ends with an abort error, or with any error once its signal is
\* aborted (handleLoopCancellation): a cancelled step is skipped, and anything
\* else ends the turn as cancelled, also the abort of somebody else's signal: that
\* of the compaction onWillBeginStep may be waiting for.
abortStep ==
  \/ /\ active \notin abortedTurns /\ stepState[current] = "cancelled"
     /\ continueRun
     /\ UNCHANGED <<reqState, queue>>
  \/ /\ active \in abortedTurns \/ stepState[current] # "cancelled"
     /\ endRun("cancelled")

StepAborted ==
  /\ Free /\ phase \in {"hooks", "model", "tools", "after", "stop_hook"}
  /\ SignalAborted \/ phase = "hooks"
  /\ abortStep
  /\ UNCHANGED <<stepState, retryVars>>

\* An error no handler recovers from (failLoopStep).
StepFails ==
  /\ Free /\ phase \in {"hooks", "model", "tools"}
  /\ ~SignalAborted
  /\ endRun("failed")
  /\ UNCHANGED <<stepState, retryVars>>

\* A handler starts to recover the step, with an await ahead of it.
recoverStep(await) ==
  /\ phase' = await
  /\ UNCHANGED <<turnVars, reqState, receipt, stepTurn, queueVars, drainVars, pumpDue,
                 current, steps, finish, waiting>>

\* A retryable provider error: stepRetry counts the failures of this driver, and
\* either gives up or sleeps.
RetryableError ==
  LET attempts == IF failedDriver = current THEN failedAttempts + 1 ELSE 1 IN
  /\ Free /\ phase = "model"
  /\ ~SignalAborted
  /\ \/ /\ attempts >= MaxAttempts
        /\ failedDriver' = NoReq /\ failedAttempts' = 0
        /\ endRun("failed")
     \/ /\ attempts < MaxAttempts
        /\ failedDriver' = current /\ failedAttempts' = attempts
        /\ recoverStep("backoff")
  /\ UNCHANGED <<stepState, overflows>>

\* The context overflows the model's window: fullCompaction compacts it, unless it
\* has done so too often without a step in between.
ContextOverflow ==
  /\ Free /\ phase = "model"
  /\ ~SignalAborted
  /\ overflows' = overflows + 1
  /\ IF overflows < MaxOverflows THEN recoverStep("compacting") ELSE endRun("failed")
  /\ UNCHANGED <<stepState, failedDriver, failedAttempts>>

requeue_bug(q, r) == Append(q, r)  \* at the tail

\* retry(driver, { at: 'head' })
requeue(q, r) == <<r>> \o q

\* The driver goes back to the head of the queue, under the same step, unless the
\* step was cancelled meanwhile: then the handler gives up, which fails the turn.
retryDriver ==
  \/ /\ stepState[current] = "cancelled"
     /\ endRun("failed")
     /\ UNCHANGED stepState
  \/ /\ stepState[current] # "cancelled"
     /\ queue' = [queue EXCEPT ![active] = requeue(@, current)]
     /\ stepState' = [stepState EXCEPT ![current] = "queued"]
     /\ continueRun
     /\ UNCHANGED reqState

BackoffElapsed ==
  /\ Free /\ phase = "backoff"
  /\ active \notin abortedTurns
  /\ retryDriver
  /\ UNCHANGED retryVars

\* The turn's signal interrupts the sleep.
BackoffAborted ==
  /\ Free /\ phase = "backoff"
  /\ active \in abortedTurns
  /\ endRun("cancelled")
  /\ UNCHANGED <<stepState, retryVars>>

\* The compaction has ended, or the turn's signal has: the wait hides the abort,
\* and the retry is for beginLoopStep to refuse.
Compacted ==
  /\ Free /\ phase = "compacting"
  /\ retryDriver
  /\ UNCHANGED retryVars

\* The compaction failed, or was cancelled by itself.
CompactionFails ==
  /\ Free /\ phase = "compacting"
  /\ active \notin abortedTurns
  /\ abortStep \/ (stepState[current] # "cancelled" /\ endRun("failed"))
  /\ UNCHANGED <<stepState, retryVars>>

----------------------------------------------------------------------------
(* The runner: end of the turn *)

\* The finally block of runTurn up to the subscribers of turn.ended: every step
\* that is not finished is cancelled, the turn is released, settled() resolves.
releaseActiveTurn(outcome) ==
  /\ Turns!ReleaseActiveTurn(outcome)
  /\ cancelSteps(StepsOf(active))
  /\ queue' = [queue EXCEPT ![active] = << >>]
  /\ phase' = "idle" /\ current' = NoReq /\ steps' = 0 /\ finish' = "none"
  /\ pumpDue' = TRUE
  /\ UNCHANGED <<receipt, stepTurn, standalone, drainVars, retryVars>>
  /\ maybeSettle

ReleaseActiveTurn == Free /\ phase = "ending" /\ releaseActiveTurn(finish)

\* prepareTurnConfig throws before the run begins (resultFromTurnError).
PrepareFails ==
  /\ phase = "begin" /\ steps = 0
  /\ releaseActiveTurn(IF active \in abortedTurns THEN "cancelled" ELSE "failed")

\* The last statement of runTurn.
PumpAfterTurn ==
  /\ pumpDue /\ phase # "begin"
  /\ pumpDue' = FALSE
  /\ UNCHANGED <<reqVars, queueVars, drainVars>>
  /\ pumpTurns

----------------------------------------------------------------------------
Client ==
  \/ \E r \in Req : Enqueue(r) \/ AbortUnassigned(r) \/ CancelStep(r) \/ CancelQueuedTurn(r)
  \/ CancelActiveTurn \/ AwaitSettled \/ TryAcquireQuiescence \/ Dispose

Step == BeginStep \/ HooksDone \/ ModelAnswers \/ ToolsDone \/ StopHookRuns \/ AfterStep
          \/ CompleteStep
Failure == StepAborted \/ StepFails \/ RetryableError \/ BackoffElapsed \/ BackoffAborted
             \/ ContextOverflow \/ Compacted \/ CompactionFails
Runner == Step \/ Failure \/ Resume \/ BeginEndsRun \/ ReleaseActiveTurn \/ PrepareFails
            \/ PumpAfterTurn
Release == ReleaseQuiescence \/ AdmitHeld \/ FinishRelease

Next == Client \/ Runner \/ Release

Spec == Init /\ [][Next]_vars

\* The runner never stops on its own: its awaits (model, tools, hooks, backoff)
\* end in a value, an error or the abort of their signal.  Whoever holds a lease
\* disposes it (undo does, in a finally block).  Clients owe nothing.
Fairness == WF_vars(Runner) /\ WF_vars(Release)
FairSpec == Spec /\ Fairness

----------------------------------------------------------------------------
(* Properties *)

\* The loop implements TurnLifecycle: whatever happens to requests and steps, the
\* turns and their numbers obey that module, and inherit its theorems.
RefinesTurnLifecycle == Turns!Spec

\* A request that is still pending is where somebody will find it: held, about
\* to be admitted, waiting for a turn, or queued in a turn that has not ended
\* (enqueue, createPendingTurn, releaseActiveTurn).  The steer that was refused
\* is the caller's.
NoRequestLost ==
  \A r \in Req : reqState[r] = "pending" =>
    \/ receipt[r] = "rejected"
    \/ receipt[r] = "waiting" /\ \E s \in {held, draining, standalone} : r \in ToSet(s)
    \/ /\ receipt[r] = "assigned"
       /\ stepState[r] = "queued"
       /\ turnState[stepTurn[r]] \in Turns!Live
       /\ r \in ToSet(queue[stepTurn[r]])

\* Every promise the loop has handed out is settled in time: a step's result by
\* the end of its turn (releaseActiveTurn, cancelQueuedTurn), a receipt by the
\* disposal of the loop (dispose).
PromisesSettle ==
  /\ \A r \in Req : stepState[r] \in {"queued", "running"} => turnState[stepTurn[r]] \in Turns!Live
  /\ disposing => \A r \in Req : receipt[r] # "waiting"

\* settled() never misses its wake-up: whoever waits waits for something that is
\* still active, queued or held (maybeSettle and all the places that call it).
NoMissedWakeup == waiting => ~Settled \/ inDrain

\* Under a quiescence lease no turn runs or is queued and no request waits to be
\* swept into one: undo may rewrite the context (tryAcquireQuiescence).
LeaseExcludesWork ==
  leases > 0 => active = NoReq /\ pendingTurns = << >> /\ ~hasPending(standalone)

\* A turn makes at most MaxSteps model calls, plus the landing call and what the
\* two recoveries may repeat of it, however they alternate (beginLoopStep,
\* loopContinuationService, stepRetry, fullCompaction).
StepsBounded == steps <= MaxSteps + MaxAttempts + MaxOverflows

\* What the loop's bookkeeping owes at every moment: no caller of settled() is
\* forgotten when the loop empties, a lease excludes every turn and every held or
\* standalone request from running, and recoveries never take a turn past its
\* ceiling for good.
LoopInvariant == TypeOK /\ NoMissedWakeup /\ LeaseExcludesWork /\ StepsBounded

\* A request aborted before its step began never drives a model call
\* (takeNextBatch).
AbortedNeverDrives ==
  [][current' \notin {current, NoReq} => reqState[current'] # "aborted"]_vars

\* After a retryable error the next step is the retry of the same driver,
\* whatever was enqueued during the backoff, unless the step was cancelled
\* (stepRetry's retry at the head of the queue).  A mergeable driver gives way.
RetryComesFirst ==
  [][/\ current = NoReq /\ current' # NoReq
     /\ failedDriver # NoReq /\ ~Mergeable(failedDriver)
     => current' = failedDriver \/ stepState[failedDriver] = "cancelled"]_vars

\* Every turn that is created ends (runTurn, pumpTurns).  Turns are finitely many and
\* stay ended, so it is enough that again and again none is open.
EveryTurnEnds ==
  []<>(\A t \in Req : turnState[t] \in {"none"} \union Turns!Outcome)

\* A call of settled() returns: agentLifecycle.remove waits for it.
SettledReturns == waiting ~> ~waiting

\* A request held under a lease is admitted or aborted (releaseQuiescence).
HeldIsAdmitted ==
  \A r \in Req : r \in ToSet(held) ~> receipt[r] # "waiting" \/ r \in ToSet(standalone)
=============================================================================
