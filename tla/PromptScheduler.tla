-------------------------- MODULE PromptScheduler --------------------------
(***************************************************************************)
(* The prompt scheduler of one agent: user prompts queue up behind one     *)
(* active prompt, the next one is launched when a turn ends, when a hook   *)
(* has blocked or failed one, or when a compaction finishes, and pending    *)
(* prompts can be steered into the turn that runs.  Models promptService.ts *)
(* with what it uses of the loop (AgentLoop describes it in full) and of    *)
(* fullCompactionService.ts, whose compactions are those of FullCompaction.  *)
(*                                                                         *)
(* Between the end of the active prompt's turn and settle() the loop has    *)
(* moved on and this.active has not: settle is two microtasks away, and     *)
(* anything may look at the service meanwhile.  The continuation of steer    *)
(* is one microtask away from its call, before or behind that settle.  The   *)
(* steps between the admission of a prompt's request and the end of          *)
(* startNext(), which nobody observes, are part of one action.  Operators     *)
(* named _bug are faulty variants of the operator that follows.              *)
(***************************************************************************)
EXTENDS FullCompaction, FiniteSets, Queues

CONSTANTS
  Prompt,         \* the prompts that may be submitted
  Other,          \* turns that other services open: goals, notifications, retries
  None,           \* no prompt, no turn
  MaxLeases       \* bound on the quiescence leases taken by undo

ASSUME SchedulerAssumption ==
  Prompt \intersect Other = {} /\ None \notin Prompt \union Other

Turn == Prompt \union Other  \* a prompt's turn bears its name

VARIABLES
  pending,     \* this.pending
  launching,   \* the item of the startNext() that is under way, or None
  launchPc,    \* where it waits: for the hook, or held by the loop
  active,      \* this.active
  steered,     \* this.steered
  result,      \* how the active prompt's turn ended, until settle sees it
  resolved,    \* that result is resolved: settle is in the microtask queue
  steering,    \* the prompts of the steer whose request was assigned just now
  steerTurn,   \* the turn it was assigned to
  ahead,       \* its continuation is ahead of settle in the microtask queue
  heldSteer,   \* the prompts of steers whose request the loop holds
  state,       \* record.state of every prompt
  joined,      \* the turn with which launchedDeferred was resolved
  settledBy,   \* the turn whose result completed the prompt
  loopActive,  \* the loop's active turn
  loopQueue,   \* its pendingTurns
  opened,      \* the turns of Other that were opened
  lease,       \* undo holds a quiescence lease
  leases,      \* leases taken
  overflowed,  \* a startNext() has recursed until the stack was exhausted
  dropped,     \* history: the prompts that a steer took and then failed on
  submitted,   \* history: the order in which prompts were submitted
  started      \* history: the order in which prompts got their turns

queueVars == <<pending, launching, launchPc, active, steered>>
endVars == <<result, resolved>>
steerVars == <<steering, steerTurn, ahead, heldSteer, dropped>>
handleVars == <<state, joined, settledBy>>
loopVars == <<loopActive, loopQueue, opened, lease, leases>>
history == <<submitted, started>>
vars == <<queueVars, endVars, steerVars, handleVars, loopVars, compactionVars, overflowed, history>>

Outcome == {"completed", "failed", "cancelled"}  \* of a turn

Settled == Outcome \union {"blocked"}

TypeOK ==
  /\ pending \in Seq(Prompt)
  /\ launching \in Prompt \union {None}
  /\ launchPc \in {"none", "hook", "held"}
  /\ active \in Prompt \union {None}
  /\ steered \in [Prompt -> SUBSET Prompt]
  /\ result \in Outcome \union {"none"} /\ resolved \in BOOLEAN
  /\ steering \in SUBSET Prompt /\ steerTurn \in Turn \union {None} /\ ahead \in BOOLEAN
  /\ heldSteer \in SUBSET Prompt /\ dropped \in SUBSET Prompt
  /\ state \in [Prompt -> {"new", "pending", "running", "steered"} \union Settled]
  /\ joined \in [Prompt -> Turn \union {None}]
  /\ settledBy \in [Prompt -> Turn \union {None}]
  /\ loopActive \in Turn \union {None}
  /\ loopQueue \in Seq(Turn)
  /\ opened \in SUBSET Other
  /\ lease \in BOOLEAN
  /\ CompactionTypeOK
  /\ leases \in Nat
  /\ overflowed \in BOOLEAN
  /\ submitted \in Seq(Prompt)
  /\ started \in Seq(Prompt)

Init ==
  /\ pending = << >> /\ launching = None /\ launchPc = "none" /\ active = None
  /\ steered = [p \in Prompt |-> {}]
  /\ result = "none" /\ resolved = FALSE
  /\ steering = {} /\ steerTurn = None /\ ahead = FALSE
  /\ heldSteer = {} /\ dropped = {}
  /\ state = [p \in Prompt |-> "new"]
  /\ joined = [p \in Prompt |-> None]
  /\ settledBy = [p \in Prompt |-> None]
  /\ loopActive = None /\ loopQueue = << >> /\ opened = {}
  /\ lease = FALSE /\ leases = 0
  /\ CompactionInit
  /\ overflowed = FALSE
  /\ submitted = << >> /\ started = << >>

----------------------------------------------------------------------------
(* startNext *)

launch(item, rest) ==
  /\ launching' = item /\ launchPc' = "hook"
  /\ pending' = rest

putBack_bug(q) == Append(Tail(q), Head(q))

\* pending.unshift of the item that pending.shift took.
putBack(q) == q

\* While a compaction runs over an idle loop, startNext puts the item back and
\* its finally block calls startNext again, in the same tick and for ever: the
\* stack overflows.  The RangeError either leaves the item where it is or
\* reaches the catch block, which fails it; then the calls unwind.
recurse(q, st) ==
  /\ overflowed' = TRUE
  /\ launching' = None /\ launchPc' = "none"
  /\ \/ pending' = putBack(q) /\ state' = st
     \/ pending' = Tail(q) /\ state' = [st EXCEPT ![Head(q)] = "failed"]

\* A prompt waits while a compaction runs over an idle loop.
waits == compacting # NoCompaction /\ loopActive = None

\* startNext with no active prompt and none under way, over the queue q and the
\* states st that the caller leaves behind.
startNext(q, st) ==
  \/ /\ q = << >>
     /\ launching' = None /\ launchPc' = "none" /\ pending' = q
     /\ state' = st
     /\ UNCHANGED overflowed
  \/ /\ q # << >> /\ waits'
     /\ recurse(q, st)
  \/ /\ q # << >> /\ ~waits'
     /\ launch(Head(q), Tail(q))
     /\ state' = st
     /\ UNCHANGED overflowed

busy_bug == active # None

busy == active # None \/ launching # None

\* startNext from outside: nothing happens while a prompt is active or launching.
startNextIfIdle ==
  \/ /\ busy
     /\ UNCHANGED <<pending, launching, launchPc, state, overflowed>>
  \/ /\ ~busy
     /\ startNext(pending, state)

----------------------------------------------------------------------------
(* The service's operations *)

\* The id of a new prompt: which of those not yet used it is makes no difference.
newMessageId == CHOOSE p \in Prompt : state[p] = "new"

\* enqueue: launched at once unless something is active, under way, or a
\* compaction runs over an idle loop.
Enqueue(p) ==
  LET q == Append(pending, p)
      st == [state EXCEPT ![p] = "pending"]
  IN
  /\ state[p] = "new" /\ p = newMessageId
  /\ submitted' = Append(submitted, p)
  /\ UNCHANGED <<active, steered, endVars, steerVars, joined, settledBy, loopVars, compactionVars,
                 started>>
  /\ \/ /\ busy \/ waits
        /\ pending' = q /\ state' = st
        /\ UNCHANGED <<launching, launchPc, overflowed>>
     \/ /\ ~busy /\ ~waits
        /\ startNext(q, st)

\* The hook is over: never before a steer that settle has overtaken goes on, which
\* takes one microtask where the hook takes several.
hookReturns == launchPc = "hook" /\ steering = {}

\* onBeforeSubmitPrompt blocks the prompt, or the hook or the loop throws.
LaunchEnds(outcome) ==
  /\ hookReturns
  /\ UNCHANGED <<active, steered, endVars, steerVars, joined, settledBy, loopVars, compactionVars,
                 history>>
  /\ startNext(pending, [state EXCEPT ![launching] = outcome])

\* The loop queues the new turn and starts it if none is active.
afterAdmission(t) ==
  \/ /\ loopActive = None
     /\ loopActive' = t
     /\ UNCHANGED loopQueue
  \/ /\ loopActive # None
     /\ loopQueue' = Append(loopQueue, t)
     /\ UNCHANGED loopActive

\* The prompt request is assigned to its new turn and startNext returns.
becomesActive(p) ==
  /\ afterAdmission(p)
  /\ active' = p
  /\ launching' = None /\ launchPc' = "none"
  /\ state' = [state EXCEPT ![p] = "running"]
  /\ joined' = [joined EXCEPT ![p] = p]
  /\ started' = Append(started, p)

\* The hook lets the prompt pass; under a lease the loop holds the request.
HookAllows ==
  /\ hookReturns
  /\ \/ /\ lease
        /\ launchPc' = "held"
        /\ UNCHANGED <<launching, active, state, joined, loopActive, loopQueue, started>>
     \/ /\ ~lease
        /\ becomesActive(launching)
  /\ UNCHANGED <<pending, steered, endVars, steerVars, settledBy, opened, lease, leases,
                 compactionVars, overflowed, submitted>>

toSettle_bug(p) == {p}  \* forgets the steered prompts

\* The prompts that settle(p) completes.
toSettle(p) == {p} \union steered[p]

\* The prompt state for the type of a turn's result.
stateOf(type) == IF type \in {"cancelled", "failed"} THEN type ELSE "completed"

\* The result of a turn is resolved, runTurn's promise first.
ResultResolves ==
  /\ result # "none" /\ ~resolved
  /\ resolved' = TRUE
  /\ UNCHANGED <<queueVars, result, steerVars, handleVars, loopVars, compactionVars, overflowed,
                 history>>

settleRuns_bug == resolved  \* as if steer awaited once more before it files

\* The microtask queue is first in, first out.
settleRuns == resolved /\ ~ahead

\* settle, and the startNext it ends with.
Settle ==
  /\ settleRuns
  /\ active' = None
  /\ steered' = [steered EXCEPT ![active] = {}]
  /\ result' = "none" /\ resolved' = FALSE
  /\ settledBy' = [s \in Prompt |-> IF s \in toSettle(active) THEN active ELSE settledBy[s]]
  /\ UNCHANGED <<steerVars, joined, loopVars, compactionVars, history>>
  /\ startNext(pending, [s \in Prompt |->
                          IF s \in toSettle(active) THEN stateOf(result) ELSE state[s]])

\* Did the turn that ends belong to the active prompt?
isActivePrompts == loopActive = active

\* The loop's active turn ends and the next one is pumped; settle comes later, if
\* it was the active prompt's turn.  Aborting an active prompt whose turn runs is a
\* cancelled outcome here.
TurnEnds(type) ==
  /\ loopActive # None
  /\ \/ /\ loopQueue # << >>
        /\ loopActive' = Head(loopQueue) /\ loopQueue' = Tail(loopQueue)
     \/ /\ loopQueue = << >>
        /\ loopActive' = None /\ loopQueue' = << >>
  /\ result' = IF isActivePrompts THEN type ELSE result
  /\ UNCHANGED <<queueVars, resolved, steerVars, handleVars, opened, lease, leases, compactionVars,
                 overflowed, history>>

\* The loop drops the active prompt's turn, still queued behind another, and
\* resolves its result at once.
cancelQueued ==
  /\ active \in ToSet(loopQueue)
  /\ loopQueue' = SelectIn(loopQueue, Turn \ {active})
  /\ result' = "cancelled" /\ resolved' = TRUE

\* abort of the active prompt while its turn is queued.
AbortQueuedTurn ==
  /\ cancelQueued
  /\ UNCHANGED <<queueVars, steerVars, handleVars, loopActive, opened, lease, leases, compactionVars,
                 overflowed, history>>

\* abort of a pending prompt.
AbortPending(p) ==
  /\ p \in ToSet(pending)
  /\ pending' = SelectIn(pending, Prompt \ {p})
  /\ state' = [state EXCEPT ![p] = "cancelled"]
  /\ UNCHANGED <<launching, launchPc, active, steered, endVars, steerVars, joined, settledBy,
                 loopVars, compactionVars, overflowed, history>>

\* clear: every pending prompt is aborted, then the active one: its turn ends later
\* if it runs and is dropped if it is queued.
Clear ==
  /\ pending # << >> \/ active \in ToSet(loopQueue)
  /\ pending' = << >>
  /\ state' = [s \in Prompt |-> IF s \in ToSet(pending) THEN "cancelled" ELSE state[s]]
  /\ \/ cancelQueued
     \/ active \notin ToSet(loopQueue) /\ UNCHANGED <<loopQueue, endVars>>
  /\ UNCHANGED <<launching, launchPc, active, steered, steerVars, joined, settledBy, loopActive,
                 opened, lease, leases, compactionVars, overflowed, history>>

\* steer up to its await: the chosen prompts leave the queue before the loop has
\* answered.  It assigns the request to the turn it runs, whichever that is; under a
\* lease it holds it; with no turn it throws, and nobody puts the prompts back.
SteerBegins(chosen) ==
  /\ active # None /\ steering = {}
  /\ chosen # {} /\ chosen \subseteq ToSet(pending)
  /\ pending' = SelectIn(pending, Prompt \ chosen)
  /\ \/ /\ lease
        /\ heldSteer' = heldSteer \union chosen
        /\ UNCHANGED <<steering, steerTurn, ahead, dropped>>
     \/ /\ ~lease /\ loopActive = None
        /\ dropped' = dropped \union chosen
        /\ UNCHANGED <<steering, steerTurn, ahead, heldSteer>>
     \/ /\ ~lease /\ loopActive # None
        /\ steering' = chosen /\ steerTurn' = loopActive /\ ahead' = ~resolved
        /\ UNCHANGED <<heldSteer, dropped>>
  /\ UNCHANGED <<launching, launchPc, active, steered, endVars, handleVars, loopVars, compactionVars,
                 overflowed, history>>

\* steer after its await: the prompts are filed under the prompt that is active
\* now; with none, reading its id throws, and nothing will ever settle them.
SteerResumes ==
  /\ steering # {} /\ (ahead \/ ~resolved)
  /\ state' = [s \in Prompt |-> IF s \in steering THEN "steered" ELSE state[s]]
  /\ joined' = [s \in Prompt |-> IF s \in steering THEN steerTurn ELSE joined[s]]
  /\ steering' = {} /\ steerTurn' = None /\ ahead' = FALSE
  /\ \/ /\ active # None
        /\ steered' = [steered EXCEPT ![active] = @ \union steering]
        /\ UNCHANGED dropped
     \/ /\ active = None
        /\ dropped' = dropped \union steering
        /\ UNCHANGED steered
  /\ UNCHANGED <<pending, launching, launchPc, active, endVars, heldSteer, settledBy, loopVars,
                 compactionVars, overflowed, history>>

----------------------------------------------------------------------------
(* The loop, undo and compactions *)

\* inject, retry, a goal: a turn that is no prompt's.
OpenOther(t) ==
  /\ t \notin opened /\ ~lease
  /\ opened' = opened \union {t}
  /\ afterAdmission(t)
  /\ UNCHANGED <<queueVars, endVars, steerVars, handleVars, lease, leases, compactionVars, overflowed,
                 history>>

\* undo: a lease over an idle loop while nothing compacts.
AcquireLease ==
  /\ ~lease /\ loopActive = None /\ launchPc # "held" /\ compacting = NoCompaction
  /\ leases < MaxLeases
  /\ lease' = TRUE /\ leases' = leases + 1
  /\ UNCHANGED <<queueVars, endVars, steerVars, handleVars, loopActive, loopQueue, opened,
                 compactionVars, overflowed, history>>

\* The held requests are admitted: a prompt's opens its turn, a steer's is rejected
\* for want of one.
ReleaseLease ==
  /\ lease
  /\ lease' = FALSE
  /\ heldSteer' = {} /\ dropped' = dropped \union heldSteer
  /\ \/ /\ launchPc = "held"
        /\ becomesActive(launching)
     \/ /\ launchPc # "held"
        /\ UNCHANGED <<launching, launchPc, active, state, joined, loopActive, loopQueue, started>>
  /\ UNCHANGED <<pending, steered, endVars, steering, steerTurn, ahead, settledBy, opened, leases,
                 compactionVars, overflowed, submitted>>

\* begin: by hand over an idle loop, or automatically around a step.
BeginCompaction ==
  /\ \E c \in Compaction : Begin(c)
  /\ UNCHANGED <<queueVars, endVars, steerVars, handleVars, loopVars, overflowed, history>>

\* The steps of a compaction that the scheduler does not see.
CompactionGoesOn ==
  /\ Abort \/ \E c \in Compaction : Summarized(c) \/ Folded(c)
  /\ UNCHANGED <<queueVars, endVars, steerVars, handleVars, loopVars, overflowed, history>>

finishedFires_bug == UNCHANGED <<pending, launching, launchPc, state, overflowed>>

\* onDidFinishCompaction: the scheduler tries to launch what waits.
finishedFires == startNextIfIdle

\* A worker is over, of the running compaction or of a cancelled one: the event fires.
CompactionFinishes(c) ==
  /\ WorkerEnds(c)
  /\ UNCHANGED <<active, steered, endVars, steerVars, joined, settledBy, loopVars, history>>
  /\ finishedFires

Next ==
  \/ \E p \in Prompt : Enqueue(p) \/ AbortPending(p)
  \/ \E outcome \in {"blocked", "failed"} : LaunchEnds(outcome)
  \/ HookAllows
  \/ \E type \in Outcome : TurnEnds(type)
  \/ ResultResolves \/ Settle
  \/ AbortQueuedTurn
  \/ Clear
  \/ \E chosen \in SUBSET Prompt : SteerBegins(chosen)
  \/ SteerResumes
  \/ \E t \in Other : OpenOther(t)
  \/ AcquireLease \/ ReleaseLease
  \/ BeginCompaction \/ CompactionGoesOn
  \/ \E c \in Compaction : CompactionFinishes(c)

Spec == Init /\ [][Next]_vars

\* Hooks return, turns end, what is in the microtask queue runs, undo releases its
\* lease, compactions finish.
Fairness ==
  /\ WF_vars(HookAllows)
  /\ WF_vars(\E type \in Outcome : TurnEnds(type))
  /\ WF_vars(ResultResolves \/ Settle \/ SteerResumes)
  /\ WF_vars(ReleaseLease)
  /\ \A c \in Compaction : WF_vars(CompactionFinishes(c))

FairSpec == Spec /\ Fairness

----------------------------------------------------------------------------
(* Properties *)

\* Where a pending prompt can be.  In the last place nobody knows it any more: the
\* steer that took it failed before it had a turn.
pendingPlaces ==
  <<ToSet(pending), {launching} \ {None}, steering, heldSteer, {p \in dropped : joined[p] = None}>>

\* Every prompt that is not settled is in exactly one place, and its place says
\* its state: in the queue, under way, in the hands of a steer, active, or steered
\* under the active one; otherwise its completion would never resolve, or resolve
\* twice.  Only those that a failed steer dropped are nowhere.
NothingLost ==
  /\ IsInjective(pending)
  /\ {p \in Prompt : state[p] = "pending"} = UNION ToSet(pendingPlaces)
  /\ \A i, j \in DOMAIN pendingPlaces :
       i # j => pendingPlaces[i] \intersect pendingPlaces[j] = {}
  /\ \A p \in Prompt :
       /\ state[p] = "running" <=> p = active
       /\ state[p] = "steered" <=>
            (active # None /\ p \in steered[active]) \/ (p \in dropped /\ joined[p] # None)
  /\ \A p \in Prompt \ {active} : steered[p] = {}

\* Nobody waits in vain: while nothing is active or under way, prompts wait only
\* for a compaction whose end will launch them.
NoPromptStranded ==
  pending # << >> /\ ~busy => Working # {}

\* Prompts are serialized: only the active prompt has a turn in the loop, and
\* it has one until that ends and settle is to come.
OnePromptAtATime ==
  {t \in Prompt : t = loopActive \/ t \in ToSet(loopQueue)} =
    IF result = "none" THEN {active} \ {None} ELSE {}

\* The queue is served: whatever waits has something that will start it, and never
\* two prompts hold turns of the loop.
QueueInvariant == TypeOK /\ NoPromptStranded /\ OnePromptAtATime

\* A prompt overtakes an earlier one only if that one is already settled, has been
\* steered or was dropped by a failed steer: turns start in the order of submission.
StartedInOrder ==
  \A i, j \in DOMAIN submitted :
    /\ i < j
    /\ submitted[j] \in ToSet(started)
    => \/ state[submitted[i]] \in Settled \union {"steered"}
       \/ submitted[i] \in dropped
       \/ /\ submitted[i] \in ToSet(started)
          /\ \E k, l \in DOMAIN started : k < l /\ started[k] = submitted[i]
                                               /\ started[l] = submitted[j]

\* Every submitted prompt settles in the end, but for those a failed steer dropped:
\* promptService.ts "settles lifecycle handles".  Prompts are finitely many and stay
\* settled, so it is enough that again and again none is open.
EveryPromptSettles ==
  []<>(\A p \in Prompt \ dropped : state[p] \in {"new"} \union Settled)

\* A prompt that waits for a compaction is launched when it ends, "the message
\* stays queued and launches once compaction finishes" (rpcService.ts:138); it
\* is not tried again and again until the stack is exhausted.
WaitsForCompaction == ~overflowed

\* A prompt that was steered into a prompt's turn is filed under that prompt before
\* it settles, and completes with it, even if the turn ends while steer awaits the
\* loop.  Only a steer into the turn of another service is filed under the prompt
\* that waits behind it, or lost when that prompt has just settled
\* (promptService.ts:147-150).
SteeredSettlesWithItsTurn ==
  \A p \in Prompt :
    joined[p] \notin Other =>
      /\ state[p] = "steered" => p \in steered[joined[p]]
      /\ settledBy[p] # None => settledBy[p] = joined[p]
=============================================================================
