-------------------------- MODULE AgentLoopProofs --------------------------
(***************************************************************************)
(* What the loop keeps, for any requests, kinds and limits.                *)
(*                                                                         *)
(* First, it implements TurnLifecycle: whatever it does to requests and    *)
(* steps, its turns start, queue, end and take their numbers as that one   *)
(* says, and inherit its theorems.  For this, LInv: while                  *)
(* releaseQuiescence admits what was held nobody takes a new lease or      *)
(* disposes the loop, so a turn may be created, and a run that ends has an *)
(* outcome.                                                                *)
(*                                                                         *)
(* Then an inductive invariant, LoopHolds, whose parts rest on the parts   *)
(* before them: TurnsHold, RunHolds, WakeHolds (the callers of settled()), *)
(* RequestsHold (where each request is, and what is said of it there),     *)
(* CeilingHolds (how often the landing step is made) and RetryHolds (where *)
(* a driver waits for its repeat).  Each part has a lemma for each kind of *)
(* step; the theorems at the end follow from the whole.                    *)
(***************************************************************************)
EXTENDS AgentLoop, QueueTheorems, FiniteSetTheorems, TLAPS

DrainIsOpen == inDrain => leases = 0 /\ ~disposing
EndHasOutcome == phase = "ending" => finish \in Turns!Outcome
HeldAreRequests == held \in Seq(Req) /\ draining \in Seq(Req) /\ leases \in Nat
LInv == DrainIsOpen /\ EndHasOutcome /\ HeldAreRequests

TurnStep == Turns!Next \/ UNCHANGED Turns!vars

\* A step that leaves the variables of the turns alone.
TurnsStay == UNCHANGED turnVars

LEMMA StayIsStutter == TurnsStay => TurnStep
  BY DEF TurnsStay, TurnStep, turnVars, Turns!vars, Turns!queueVars, Turns!clockVars

LEMMA InitRefines == Init => LInv /\ Turns!Init
  BY DEF Init, Turns!Init, LInv, DrainIsOpen, EndHasOutcome, HeldAreRequests

----------------------------------------------------------------------------
(* The steps that move turns. *)

LEMMA CreateRefines ==
  ASSUME NEW r \in Req, ~disposing, leases = 0, createAndQueueTurn(r)
  PROVE  Turns!Next
  BY DEF createAndQueueTurn, Turns!Next, Turns!AdmitTurn

LEMMA AdmitRefines ==
  ASSUME NEW r \in Req, ~disposing, leases = 0, admit(r)
  PROVE  TurnStep /\ leases' = leases /\ disposing' = disposing
<1>1. CASE createAndQueueTurn(r)
  <2>1. leases' = leases /\ disposing' = disposing
    BY <1>1 DEF createAndQueueTurn, Turns!CreateTurn
  <2>. QED BY <1>1, <2>1, CreateRefines DEF TurnStep
<1>2. CASE joinActiveTurn(r) \/ waitForNextTurn(r)
  <2>1. TurnsStay
    BY <1>2 DEF joinActiveTurn, waitForNextTurn, TurnsStay
  <2>. QED BY <2>1, StayIsStutter DEF TurnsStay, turnVars
<1>. QED BY <1>1, <1>2 DEF admit

LEMMA PumpRefines ==
  ASSUME pumpTurns
  PROVE  TurnStep /\ leases' = leases /\ disposing' = disposing
<1>1. CASE Turns!PumpTurns
  BY <1>1 DEF TurnStep, Turns!Next, Turns!PumpTurns
<1>2. CASE TurnsStay
  BY <1>2, StayIsStutter DEF TurnsStay, turnVars
<1>. QED BY <1>1, <1>2 DEF pumpTurns, TurnsStay

LEMMA ReleaseRefines ==
  ASSUME NEW outcome \in Turns!Outcome, releaseActiveTurn(outcome)
  PROVE  TurnStep /\ leases' = leases /\ disposing' = disposing
  BY DEF releaseActiveTurn, TurnStep, Turns!Next, Turns!ReleaseActiveTurn

\* A run that is not touched has its outcome still; a new run has not ended.
LEMMA RunHasOutcome ==
  ASSUME EndHasOutcome, UNCHANGED runVars \/ runTurn
  PROVE  EndHasOutcome'
  BY DEF EndHasOutcome, runVars, runTurn

LEMMA AdmitRuns ==
  ASSUME EndHasOutcome, NEW r \in Req, admit(r)
  PROVE  EndHasOutcome'
<1>1. UNCHANGED runVars \/ runTurn
  BY DEF admit, createAndQueueTurn, waitForNextTurn
<1>. QED BY <1>1, RunHasOutcome

\* The refinement, and what it needs, by groups of actions.
Refined == LInv' /\ TurnStep

LEMMA ClientRefines ==
  ASSUME LInv, Client
  PROVE  Refined
<1> USE DEF LInv, Refined
<1>1. ASSUME NEW r \in Req, Enqueue(r) PROVE Refined
  <2>1. ~disposing /\ inDrain' = inDrain /\ draining' = draining
    BY <1>1 DEF Enqueue
  <2>2. CASE mustHold \/ requiresActiveTurn(r)
    <3>1. CASE TurnsStay /\ UNCHANGED runVars /\ held' \in {held, Append(held, r)}
      <4>1. held' \in Seq(Req)
        BY <3>1, AppendProperties DEF HeldAreRequests
      <4>. QED BY <2>1, <3>1, <4>1, StayIsStutter, RunHasOutcome
               DEF TurnsStay, turnVars, DrainIsOpen, HeldAreRequests
    <3>2. CASE ~mustHold /\ admit(r) /\ held' = held
      <4>1. leases = 0
        BY <3>2 DEF mustHold, HeldAreRequests
      <4>. QED BY <2>1, <3>2, <4>1, AdmitRefines, AdmitRuns DEF DrainIsOpen, HeldAreRequests
    <3>. QED BY <1>1, <2>2, <3>1, <3>2 DEF Enqueue, requiresActiveTurn, TurnsStay
  <2>3. CASE ~mustHold /\ admit(r) /\ held' = held
    <3>1. leases = 0
      BY <2>3 DEF mustHold, HeldAreRequests
    <3>. QED BY <2>1, <2>3, <3>1, AdmitRefines, AdmitRuns DEF DrainIsOpen, HeldAreRequests
  <2>. QED BY <1>1, <2>2, <2>3 DEF Enqueue
<1>2. ASSUME NEW r \in Req, AbortUnassigned(r) PROVE Refined
  <2>1. TurnsStay /\ UNCHANGED runVars /\ inDrain' = inDrain /\ draining' = draining
    BY <1>2 DEF AbortUnassigned, TurnsStay
  <2>2. held' \in Seq(Req)
    <3>1. CASE \E i \in DOMAIN held : held' = RemoveAt(held, i)
      <4>1. PICK i \in 1 .. Len(held) : held' = RemoveAt(held, i)
        BY <3>1 DEF HeldAreRequests
      <4>2. SubSeq(held, 1, i - 1) \in Seq(Req) /\ SubSeq(held, i + 1, Len(held)) \in Seq(Req)
        <5>1. \A j \in 1 .. i - 1 : held[j] \in Req
          BY DEF HeldAreRequests
        <5>2. \A j \in i + 1 .. Len(held) : held[j] \in Req
          BY DEF HeldAreRequests
        <5>3. Len(held) \in Int
          BY DEF HeldAreRequests
        <5>. QED BY <5>1, <5>2, <5>3, SubSeqProperties
      <4>. QED BY <4>1, <4>2, ConcatProperties DEF RemoveAt
    <3>2. CASE held' = held
      BY <3>2 DEF HeldAreRequests
    <3>. QED BY <1>2, <3>1, <3>2 DEF AbortUnassigned
  <2>. QED BY <2>1, <2>2, StayIsStutter, RunHasOutcome
           DEF TurnsStay, turnVars, DrainIsOpen, HeldAreRequests
<1>3. CASE AwaitSettled \/ \E r \in Req : CancelStep(r)
  <2>1. TurnsStay /\ UNCHANGED runVars /\ UNCHANGED drainVars
    BY <1>3 DEF AwaitSettled, CancelStep, TurnsStay
  <2>. QED BY <2>1, StayIsStutter, RunHasOutcome
           DEF TurnsStay, turnVars, drainVars, DrainIsOpen, HeldAreRequests
<1>4. CASE CancelActiveTurn \/ \E t \in Req : CancelQueuedTurn(t)
  <2>1. Turns!Next /\ leases' = leases /\ disposing' = disposing
    BY <1>4 DEF CancelActiveTurn, CancelQueuedTurn, Turns!Next, Turns!CancelActiveTurn,
                Turns!CancelQueuedTurn
  <2>2. UNCHANGED runVars /\ UNCHANGED drainVars
    BY <1>4 DEF CancelActiveTurn, CancelQueuedTurn
  <2>. QED BY <2>1, <2>2, RunHasOutcome DEF TurnStep, drainVars, DrainIsOpen, HeldAreRequests
<1>5. CASE TryAcquireQuiescence
  <2>1. Turns!Next /\ leases' = leases + 1
    BY <1>5 DEF TryAcquireQuiescence, Turns!Next, Turns!TryAcquireQuiescence
  <2>2. UNCHANGED runVars /\ ~inDrain /\ UNCHANGED drainVars
    BY <1>5 DEF TryAcquireQuiescence, Free
  <2>. QED BY <2>1, <2>2, RunHasOutcome DEF TurnStep, drainVars, DrainIsOpen, HeldAreRequests
<1>6. CASE Dispose
  <2>1. Turns!Next /\ leases' = leases
    BY <1>6 DEF Dispose, Turns!Next, Turns!Dispose
  <2>2. UNCHANGED runVars /\ ~inDrain /\ inDrain' = inDrain /\ draining' = draining /\ held' = << >>
    BY <1>6 DEF Dispose, Free
  <2>. QED BY <2>1, <2>2, RunHasOutcome DEF TurnStep, DrainIsOpen, HeldAreRequests
<1>. QED BY <1>1, <1>2, <1>3, <1>4, <1>5, <1>6 DEF Client

LEMMA ReleasingRefines ==
  ASSUME LInv, Release
  PROVE  Refined
<1> USE DEF LInv, Refined
<1>1. CASE ReleaseQuiescence
  <2>1. Turns!Next
    BY <1>1 DEF ReleaseQuiescence, Turns!Next
  <2>2. UNCHANGED runVars /\ leases > 0 /\ leases' = leases - 1 /\ disposing' = disposing
    BY <1>1 DEF ReleaseQuiescence, Turns!ReleaseQuiescence
  <2>3. ~inDrain /\ (inDrain' => leases = 1 /\ ~disposing)
    BY <1>1 DEF ReleaseQuiescence, Free, lastRelease, drainVars
  <2>4. HeldAreRequests'
    <3>1. held' = << >> \/ held' = held
      BY <1>1 DEF ReleaseQuiescence, drainVars
    <3>2. draining' = held \/ draining' = draining
      BY <1>1 DEF ReleaseQuiescence, drainVars
    <3>3. held' \in Seq(Req)
      BY <3>1, EmptySeq DEF HeldAreRequests
    <3>4. draining' \in Seq(Req)
      BY <3>2 DEF HeldAreRequests
    <3>5. leases' \in Nat
      BY <2>2 DEF HeldAreRequests
    <3>. QED BY <3>3, <3>4, <3>5 DEF HeldAreRequests
  <2>. QED BY <2>1, <2>2, <2>3, <2>4, RunHasOutcome DEF TurnStep, DrainIsOpen
<1>2. CASE AdmitHeld
  <2> DEFINE r == Head(draining)
  <2>1. inDrain /\ inDrain' = inDrain /\ leases = 0 /\ ~disposing
    BY <1>2 DEF AdmitHeld, DrainIsOpen
  <2>2. r \in Req /\ draining' \in Seq(Req) /\ held' = held
    <3>1. draining \in Seq(Req) /\ draining # << >> /\ draining' = Tail(draining) /\ held' = held
      BY <1>2 DEF AdmitHeld, HeldAreRequests
    <3>. QED BY <3>1, HeadTailProperties
  <2>3. CASE admit(r)
    BY <2>1, <2>2, <2>3, AdmitRefines, AdmitRuns DEF DrainIsOpen, HeldAreRequests
  <2>4. CASE TurnsStay /\ UNCHANGED runVars
    BY <2>1, <2>2, <2>4, StayIsStutter, RunHasOutcome
       DEF TurnsStay, turnVars, DrainIsOpen, HeldAreRequests
  <2>. QED BY <1>2, <2>3, <2>4 DEF AdmitHeld, requiresActiveTurn, TurnsStay
<1>3. CASE FinishRelease
  <2>1. pumpTurns /\ ~inDrain' /\ held' = held /\ draining' = draining
    BY <1>3 DEF FinishRelease
  <2>2. UNCHANGED runVars \/ runTurn
    BY <2>1 DEF pumpTurns
  <2>. QED BY <2>1, <2>2, PumpRefines, RunHasOutcome DEF DrainIsOpen, HeldAreRequests
<1>. QED BY <1>1, <1>2, <1>3 DEF Release

\* A run that ends has an outcome, and nothing else moves yet.
LEMMA EndingRuns ==
  ASSUME LInv, NEW outcome \in Turns!Outcome, endRun(outcome)
  PROVE  Refined
  BY StayIsStutter DEF LInv, Refined, endRun, TurnsStay, turnVars, drainVars, DrainIsOpen,
     EndHasOutcome, HeldAreRequests

\* A step of the run that does not end it, and moves no turn.
RunGoesOn == TurnsStay /\ UNCHANGED drainVars /\ phase' # "ending"

LEMMA GoingOnRefines ==
  ASSUME LInv, RunGoesOn
  PROVE  Refined
  BY StayIsStutter DEF LInv, Refined, RunGoesOn, TurnsStay, turnVars, drainVars, DrainIsOpen,
     EndHasOutcome, HeldAreRequests

RunEnds == \E outcome \in Turns!Outcome : endRun(outcome)

LEMMA AbortingStep ==
  ASSUME abortStep
  PROVE  RunGoesOn \/ RunEnds
  BY DEF abortStep, continueRun, RunGoesOn, RunEnds, TurnsStay, Turns!Outcome

LEMMA RetryingStep ==
  ASSUME retryDriver
  PROVE  RunGoesOn \/ RunEnds
  BY DEF retryDriver, continueRun, RunGoesOn, RunEnds, TurnsStay, Turns!Outcome

LEMMA StepGoesOn == Step => RunGoesOn \/ RunEnds
<1>1. BeginStep \/ HooksDone \/ ModelAnswers \/ ToolsDone \/ StopHookRuns => RunGoesOn
  BY DEF BeginStep, HooksDone, ModelAnswers, ToolsDone, StopHookRuns, RunGoesOn, TurnsStay
<1>2. AfterStep => RunGoesOn
  BY DEF AfterStep, joinActiveTurn, RunGoesOn, TurnsStay
<1>3. CompleteStep => RunGoesOn \/ RunEnds
  BY DEF CompleteStep, RunGoesOn, RunEnds, TurnsStay, Turns!Outcome
<1>. QED BY <1>1, <1>2, <1>3 DEF Step

LEMMA FailureGoesOn == Failure => RunGoesOn \/ RunEnds
<1>1. StepAborted \/ CompactionFails => RunGoesOn \/ RunEnds
  BY AbortingStep DEF StepAborted, CompactionFails, RunEnds, Turns!Outcome
<1>2. BackoffElapsed \/ Compacted => RunGoesOn \/ RunEnds
  BY RetryingStep DEF BackoffElapsed, Compacted
<1>3. StepFails \/ BackoffAborted => RunEnds
  BY DEF StepFails, BackoffAborted, RunEnds, Turns!Outcome
<1>4. RetryableError \/ ContextOverflow => RunGoesOn \/ RunEnds
  BY DEF RetryableError, ContextOverflow, recoverStep, RunGoesOn, RunEnds, TurnsStay, Turns!Outcome
<1>. QED BY <1>1, <1>2, <1>3, <1>4 DEF Failure

LEMMA RunnerRefines ==
  ASSUME LInv, Runner
  PROVE  Refined
<1>1. CASE Step \/ Failure \/ Resume \/ BeginEndsRun
  <2>1. Resume => RunGoesOn
    BY DEF Resume, RunGoesOn, TurnsStay
  <2>2. BeginEndsRun => RunEnds
    BY DEF BeginEndsRun, RunEnds, Turns!Outcome
  <2>. QED BY <1>1, <2>1, <2>2, StepGoesOn, FailureGoesOn, GoingOnRefines, EndingRuns DEF RunEnds
<1>2. CASE ReleaseActiveTurn \/ PrepareFails
  <2>1. PICK outcome \in Turns!Outcome : releaseActiveTurn(outcome)
    BY <1>2 DEF ReleaseActiveTurn, PrepareFails, LInv, EndHasOutcome, Turns!Outcome
  <2>2. TurnStep /\ leases' = leases /\ disposing' = disposing
    BY <2>1, ReleaseRefines
  <2>3. UNCHANGED drainVars /\ phase' = "idle"
    BY <2>1 DEF releaseActiveTurn
  <2>. QED BY <2>2, <2>3 DEF LInv, Refined, drainVars, DrainIsOpen, EndHasOutcome, HeldAreRequests
<1>3. CASE PumpAfterTurn
  <2>1. pumpTurns /\ UNCHANGED drainVars
    BY <1>3 DEF PumpAfterTurn
  <2>2. UNCHANGED runVars \/ runTurn
    BY <2>1 DEF pumpTurns
  <2>. QED BY <2>1, <2>2, PumpRefines, RunHasOutcome
           DEF LInv, Refined, drainVars, DrainIsOpen, HeldAreRequests
<1>. QED BY <1>1, <1>2, <1>3 DEF Runner

LEMMA NextRefines == LInv /\ [Next]_vars => Refined
<1>1. LInv /\ UNCHANGED vars => Refined
  BY StayIsStutter DEF vars, LInv, Refined, TurnsStay, turnVars, drainVars, runVars, DrainIsOpen,
     EndHasOutcome, HeldAreRequests
<1>. QED BY <1>1, ClientRefines, ReleasingRefines, RunnerRefines DEF Next

(* The loop implements TurnLifecycle: in every execution its turns are         *)
(* created, started, queued, ended and numbered as that module allows          *)
(* (createAndQueueTurn, pumpTurns, releaseActiveTurn and the cancellations).   *)
THEOREM LoopImplementsTurns == Spec => RefinesTurnLifecycle
<1>1. Init => LInv /\ Turns!Init
  BY InitRefines
<1>2. LInv /\ [Next]_vars => LInv' /\ [Turns!Next]_(Turns!vars)
  BY NextRefines DEF Refined, TurnStep
<1>. QED BY <1>1, <1>2, PTL DEF Spec, RefinesTurnLifecycle, Turns!Spec

----------------------------------------------------------------------------
(* What the loop keeps true of its turns, its run, its requests, the ceiling   *)
(* and the retries.  Each part is proved from the parts before it.             *)

\* The turns: typed, each in the queue once, and nobody works under a lease.
TurnsHold ==
  /\ Turns!TypeOK
  /\ IsInjective(pendingTurns)
  /\ \A t \in ToSet(pendingTurns) : turnState[t] = "queued"
  /\ active # NoReq => turnState[active] = "running"
  /\ leases > 0 => active = NoReq /\ pendingTurns = << >>

\* The phases in which the runner executes a step.
Working == {"hooks", "model", "tools", "after", "stop_hook"}
Recovering == {"backoff", "compacting"}
Phases == {"idle", "begin", "resume", "complete", "ending"} \union Working \union Recovering

\* The run: there is one exactly while a turn is active, and it has a driver
\* exactly while it executes a step.
RunHolds ==
  /\ phase \in Phases /\ current \in Req \union {NoReq} /\ steps \in Nat
  /\ finish \in {"none", "stop", "tool_calls", "filtered", "hook_stop"} \union Turns!Outcome
  /\ failedDriver \in Req \union {NoReq} /\ failedAttempts \in Nat /\ overflows \in Nat
  /\ active = NoReq <=> phase = "idle"
  /\ current # NoReq <=> phase \in {"complete"} \union Working \union Recovering

\* Nothing is left over from a release, and a caller of settled() waits for something.
WakeHolds ==
  /\ inDrain \in BOOLEAN /\ pumpDue \in BOOLEAN /\ waiting \in BOOLEAN
  /\ ~inDrain => draining = << >>
  /\ NoMissedWakeup

\* Where a request is, and what is said about it there.
Unassigned(r) ==
  /\ stepState[r] = "none" /\ stepTurn[r] = NoReq
  /\ \A t \in Req : r \notin ToSet(queue[t])

Elsewhere(r) == r \notin ToSet(held) /\ r \notin ToSet(draining) /\ r \notin ToSet(standalone)

RequestHolds(r) ==
  /\ receipt[r] = "none" <=> reqState[r] = "new"
  /\ receipt[r] = "none" => Unassigned(r) /\ Elsewhere(r)
  /\ receipt[r] = "waiting" => /\ reqState[r] = "pending" /\ Unassigned(r)
                               /\ ~Elsewhere(r)
  /\ receipt[r] = "rejected" => /\ Unassigned(r) /\ r \notin ToSet(held)
                                /\ reqState[r] \in {"pending", "aborted"}
                                /\ ~Elsewhere(r) => reqState[r] = "aborted"
  /\ receipt[r] = "assigned" =>
       /\ Elsewhere(r)
       /\ stepTurn[r] \in Req /\ stepState[r] # "none"
       /\ \A t \in Req : r \in ToSet(queue[t]) => t = stepTurn[r]
       /\ stepState[r] \in {"queued", "running"} => turnState[stepTurn[r]] \in Turns!Live
       /\ reqState[r] = "pending" => stepState[r] = "queued" /\ r \in ToSet(queue[stepTurn[r]])

RequestTypes ==
  /\ reqState \in [Req -> {"new", "pending", "materialized", "aborted"}]
  /\ receipt \in [Req -> {"none", "waiting", "assigned", "rejected"}]
  /\ stepTurn \in [Req -> Req \union {NoReq}]
  /\ stepState \in [Req -> {"none", "queued", "running", "completed", "cancelled"}]
  /\ queue \in [Req -> Seq(Req)]
  /\ standalone \in Seq(Req) /\ held \in Seq(Req) /\ draining \in Seq(Req)

\* The queues outside the turns have nothing in common.
Apart ==
  /\ IsInjective(held) /\ IsInjective(draining)
  /\ ToSet(held) \intersect ToSet(draining) = {}
  /\ ToSet(held) \intersect ToSet(standalone) = {}
  /\ ToSet(draining) \intersect ToSet(standalone) = {}

DriverHolds ==
  current # NoReq => /\ stepTurn[current] = active /\ reqState[current] = "materialized"
                     /\ receipt[current] = "assigned"
NothingToSweep == leases > 0 => \A r \in ToSet(standalone) : reqState[r] = "aborted"
NobodyWaits == disposing => \A r \in Req : receipt[r] # "waiting"

RequestsHold ==
  /\ RequestTypes /\ Apart
  /\ \A r \in Req : RequestHolds(r)
  /\ DriverHolds /\ NothingToSweep /\ NobodyWaits

\* A turn at its ceiling makes one more step, for the landing request, and repeats
\* it only as often as the recoveries count.
Landing == {r \in Req : isMaxStepsLandingRequest(r)}
Repeats == failedAttempts + overflows

CeilingHolds ==
  /\ failedAttempts < MaxAttempts
  /\ overflows <= MaxOverflows + 1
  /\ phase \notin {"idle", "ending"} => overflows <= MaxOverflows
  /\ failedDriver = NoReq => failedAttempts = 0
  /\ StepsBounded
  /\ \A r \in Landing : Elsewhere(r)
  /\ \A r \in Landing, t \in Req :
       r \in ToSet(queue[t]) => t = active /\ phase \in {"begin", "resume", "complete", "ending"}
  /\ phase \in {"begin", "resume", "complete"} =>
       \A r \in Landing : r \in ToSet(queue[active]) =>
         /\ steps = MaxSteps + Repeats
         /\ failedDriver \in {NoReq, r}
         /\ \A u \in Landing : u \in ToSet(queue[active]) => u = r
  /\ phase \in Working =>
       IF current \in Landing
         THEN steps = MaxSteps + 1 + Repeats /\ failedDriver \in {NoReq, current}
         ELSE steps <= MaxSteps
  /\ phase \in Recovering =>
       IF current \in Landing
         THEN steps = MaxSteps + Repeats /\ failedDriver \in {NoReq, current}
         ELSE steps <= MaxSteps

\* The driver that failed drives again, or waits at the head of the queue, unless
\* its step was cancelled.
RetryHolds ==
  /\ phase = "complete" => failedDriver = NoReq
  /\ failedDriver # NoReq /\ ~Mergeable(failedDriver) /\ phase \notin {"idle", "ending"} =>
       \/ stepState[failedDriver] = "cancelled"
       \/ failedDriver = current
       \/ /\ phase \in {"begin", "resume"}
          /\ queue[active] # << >> /\ Head(queue[active]) = failedDriver
          /\ reqState[failedDriver] = "materialized"

----------------------------------------------------------------------------
(* The turns *)

LEMMA SameFinite == \A S : Turns!IsFiniteSet(S) = IsFiniteSet(S)
  BY DEF Turns!IsFiniteSet, IsFiniteSet

LEMMA SameSize == ASSUME NEW S PROVE Turns!Cardinality(S) = Cardinality(S)
  BY DEF Turns!Cardinality, Cardinality, Turns!IsFiniteSet, IsFiniteSet

\* What is typed of the clock.
ClockTyped == nextTurnId \in Nat /\ cancelledTurnIds \subseteq Nat /\ IsFiniteSet(cancelledTurnIds)

LEMMA AdvanceTyped ==
  ASSUME NEW n \in Nat, NEW C, C \subseteq Nat, IsFiniteSet(C), Turns!advanceTurnClock(n, C)
  PROVE  ClockTyped'
<1>1. Cardinality(C) \in Nat
  BY FS_CardinalityType
<1>2. PICK m \in n .. (n + Cardinality(C)) : nextTurnId' = m /\ cancelledTurnIds' = {c \in C : c > m}
  BY SameSize DEF Turns!advanceTurnClock
<1>3. cancelledTurnIds' \in SUBSET C
  BY <1>2
<1>4. IsFiniteSet(cancelledTurnIds')
  BY <1>3, FS_Subset
<1>5. m \in Nat
  BY <1>1
<1>6. cancelledTurnIds' \subseteq Nat
  BY <1>3
<1> QED
  BY <1>2, <1>4, <1>5, <1>6 DEF ClockTyped

LEMMA CancelTyped ==
  ASSUME ClockTyped, NEW I, I \subseteq Nat, IsFiniteSet(I), Turns!cancelTurn(I)
  PROVE  ClockTyped'
<1> DEFINE ahead == {id \in I : id >= nextTurnId}
<1>1. CASE ahead = {}
  BY <1>1 DEF ClockTyped, Turns!cancelTurn
<1>2. CASE ahead # {}
  <2>1. IsFiniteSet(ahead) /\ ahead \subseteq Nat
    <3>1. ahead \in SUBSET I
      OBVIOUS
    <3> QED
      BY <3>1, FS_Subset
  <2> DEFINE C == cancelledTurnIds \union ahead
  <2>2. IsFiniteSet(C) /\ C \subseteq Nat /\ nextTurnId \in Nat
    BY <2>1, FS_Union DEF ClockTyped
  <2>3. Turns!advanceTurnClock(nextTurnId, C)
    BY <1>2 DEF Turns!cancelTurn
  <2> HIDE DEF C
  <2> QED
    BY <2>2, <2>3, AdvanceTyped
<1> QED
  BY <1>1, <1>2

LEMMA StartTyped ==
  ASSUME ClockTyped, NEW t, Turns!startTurn(t)
  PROVE  ClockTyped' /\ active' = t /\ prompted' = prompted \union {t}
<1>1. nextTurnId + 1 \in Nat /\ cancelledTurnIds \subseteq Nat /\ IsFiniteSet(cancelledTurnIds)
  BY DEF ClockTyped
<1>2. /\ Turns!advanceTurnClock(nextTurnId + 1, cancelledTurnIds)
      /\ active' = t /\ prompted' = prompted \union {t}
  BY DEF Turns!startTurn
<1> DEFINE n == nextTurnId + 1
<1>3. n \in Nat /\ Turns!advanceTurnClock(n, cancelledTurnIds)
  BY <1>1, <1>2
<1> HIDE DEF n
<1> QED
  BY <1>1, <1>2, <1>3, AdvanceTyped

\* The numbers of a queue's turns, and of one more turn or none.
LEMMA FewNumbers ==
  ASSUME NEW q \in Seq(Req), NEW id \in [Req -> Nat], NEW extra, extra \subseteq Req,
         IsFiniteSet(extra)
  PROVE  LET I == {id[t] : t \in ToSet(q) \union extra} IN I \subseteq Nat /\ IsFiniteSet(I)
<1>1. IsFiniteSet(ToSet(q)) /\ ToSet(q) \subseteq Req
  <2> DEFINE g == [i \in 1 .. Len(q) |-> q[i]]
  <2>0. Len(q) \in Nat /\ ToSet(q) = {q[i] : i \in 1 .. Len(q)}
    BY DEF ToSet
  <2>1. g \in Surjection(1 .. Len(q), ToSet(q))
    <3>1. g \in [1 .. Len(q) -> ToSet(q)]
      BY <2>0
    <3>2. \A t \in ToSet(q) : \E i \in 1 .. Len(q) : g[i] = t
      BY <2>0
    <3> HIDE DEF g
    <3> QED
      BY <3>1, <3>2 DEF Surjection
  <2>2. IsFiniteSet(1 .. Len(q))
    BY <2>0, FS_Interval
  <2> HIDE DEF g
  <2> QED
    BY <2>1, <2>2, FS_Surjection DEF ToSet
<1> DEFINE T == ToSet(q) \union extra
           I == {id[t] : t \in T}
           f == [t \in T |-> id[t]]
<1>2. IsFiniteSet(T) /\ T \subseteq Req
  BY <1>1, FS_Union
<1>3. f \in Surjection(T, I)
  BY DEF Surjection
<1>4. I \subseteq Nat
  BY <1>2
<1> HIDE DEF f, T
<1>5. IsFiniteSet(I)
  BY <1>2, <1>3, FS_Surjection
<1> QED
  BY <1>4, <1>5 DEF T

\* The types, with those of the clock apart.
LEMMA TurnTypes ==
  Turns!TypeOK <=> /\ turnState \in [Req -> {"none", "lost"} \union Turns!Live \union Turns!Outcome]
                   /\ turnId \in [Req -> Nat] /\ pendingTurns \in Seq(Req)
                   /\ active \in Req \union {NoReq} /\ abortedTurns \subseteq Req
                   /\ leases \in Nat /\ disposing \in BOOLEAN /\ nextReserved \in Nat
                   /\ prompted \subseteq Req /\ ClockTyped
  BY SameFinite DEF Turns!TypeOK, ClockTyped

LEMMA TurnTypesNext ==
  ASSUME /\ turnState' \in [Req -> {"none", "lost"} \union Turns!Live \union Turns!Outcome]
         /\ turnId' \in [Req -> Nat] /\ pendingTurns' \in Seq(Req)
         /\ active' \in Req \union {NoReq} /\ abortedTurns' \subseteq Req
         /\ leases' \in Nat /\ disposing' \in BOOLEAN /\ nextReserved' \in Nat
         /\ prompted' \subseteq Req /\ ClockTyped'
  PROVE  Turns!TypeOK'
  BY SameFinite DEF Turns!TypeOK, ClockTyped

LEMMA CreateKeepsTurns ==
  ASSUME TurnsHold, NEW t \in Req, Turns!AdmitTurn(t)
  PROVE  TurnsHold'
<1> DEFINE queued == Append(pendingTurns, t)
           h == Head(queued)
<1>1. /\ turnState[t] = "none"
      /\ turnId' = [turnId EXCEPT ![t] = Turns!reserveTurnId]
      /\ nextReserved' = Turns!reserveTurnId + 1
      /\ UNCHANGED <<abortedTurns, leases, disposing>>
      /\ leases = 0
  BY DEF Turns!AdmitTurn, Turns!CreateTurn
<1>2. /\ turnState \in [Req -> {"none", "lost"} \union Turns!Live \union Turns!Outcome]
      /\ turnId \in [Req -> Nat] /\ pendingTurns \in Seq(Req)
      /\ active \in Req \union {NoReq} /\ abortedTurns \subseteq Req
      /\ leases \in Nat /\ disposing \in BOOLEAN /\ nextReserved \in Nat
      /\ prompted \subseteq Req /\ ClockTyped
  BY TurnTypes DEF TurnsHold
<1>3. Turns!reserveTurnId \in Nat
  BY <1>2 DEF Turns!reserveTurnId, ClockTyped
<1>4. turnId' \in [Req -> Nat] /\ nextReserved' \in Nat
  BY <1>1, <1>2, <1>3
<1>5. /\ queued \in Seq(Req) /\ ToSet(queued) = ToSet(pendingTurns) \union {t}
      /\ IsInjective(queued) /\ queued # << >> /\ t \notin ToSet(pendingTurns)
  <2>1. t \notin ToSet(pendingTurns)
    BY <1>1 DEF TurnsHold
  <2> QED
    BY <1>2, <2>1, AppendSet, AppendProperties DEF TurnsHold
<1>6. /\ h \in Req /\ Tail(queued) \in Seq(Req) /\ ToSet(queued) = {h} \union ToSet(Tail(queued))
      /\ IsInjective(Tail(queued)) /\ h \notin ToSet(Tail(queued))
  <2> HIDE DEF queued
  <2> QED
    BY <1>5, TailSet
<1>7. \A u \in ToSet(pendingTurns) : turnState[u] = "queued"
  BY DEF TurnsHold
<1>8. CASE /\ Turns!MayStart
           /\ pendingTurns' = Tail(queued)
           /\ turnState' = [turnState EXCEPT ![t] = "queued", ![h] = "running"]
           /\ Turns!startTurn(h)
  <2>1. ClockTyped' /\ active' = h /\ prompted' = prompted \union {h}
    BY <1>2, <1>8, StartTyped
  <2> HIDE DEF h, queued
  <2>2. /\ turnState' \in [Req -> {"none", "lost"} \union Turns!Live \union Turns!Outcome]
        /\ turnState'[h] = "running"
        /\ \A u \in Req : u # h /\ u # t => turnState'[u] = turnState[u]
        /\ t # h => turnState'[t] = "queued"
    BY <1>2, <1>6, <1>8 DEF Turns!Live
  <2>3. \A u \in ToSet(Tail(queued)) : turnState'[u] = "queued"
    <3> HIDE DEF h, queued
    <3>0. ToSet(Tail(queued)) \subseteq Req
      BY <1>6 DEF ToSet
    <3>1. \A u \in ToSet(Tail(queued)) : u \in Req /\ u # h /\ u \in ToSet(pendingTurns) \union {t}
      BY <1>5, <1>6, <3>0, Zenon
    <3> QED
      BY <1>7, <2>2, <3>1
  <2>4. Turns!TypeOK'
    BY <1>1, <1>2, <1>4, <1>6, <1>8, <2>1, <2>2, TurnTypesNext
  <2>5. pendingTurns' = Tail(queued)
    BY <1>8
  <2>6. leases' = 0
    BY <1>1
  <2> QED
    BY <1>6, <2>1, <2>2, <2>3, <2>4, <2>5, <2>6 DEF TurnsHold
<1>9. CASE /\ pendingTurns' = queued
           /\ turnState' = [turnState EXCEPT ![t] = "queued"]
           /\ UNCHANGED <<active, prompted, nextTurnId, cancelledTurnIds>>
  <2>1. /\ turnState' \in [Req -> {"none", "lost"} \union Turns!Live \union Turns!Outcome]
        /\ turnState'[t] = "queued" /\ \A u \in Req : u # t => turnState'[u] = turnState[u]
    BY <1>2, <1>9 DEF Turns!Live
  <2>2. ToSet(pendingTurns) \subseteq Req
    BY <1>2 DEF ToSet
  <2>3. ClockTyped'
    BY <1>2, <1>9 DEF ClockTyped
  <2>4. Turns!TypeOK'
    BY <1>1, <1>2, <1>4, <1>5, <1>9, <2>1, <2>3, TurnTypesNext
  <2>5. active # NoReq => turnState'[active] = "running"
    BY <1>1, <1>2, <2>1 DEF TurnsHold
  <2> QED
    BY <1>1, <1>5, <1>7, <1>9, <2>1, <2>2, <2>4, <2>5 DEF TurnsHold
<1> QED
  BY <1>8, <1>9 DEF Turns!AdmitTurn, Turns!CreateTurn

LEMMA PumpKeepsTurns ==
  ASSUME TurnsHold, Turns!PumpTurns
  PROVE  TurnsHold'
<1> DEFINE h == Head(pendingTurns)
<1>1. /\ Turns!MayStart /\ pendingTurns # << >>
      /\ pendingTurns' = Tail(pendingTurns)
      /\ turnState' = [turnState EXCEPT ![h] = "running"]
      /\ Turns!startTurn(h)
      /\ UNCHANGED <<turnId, abortedTurns, nextReserved, leases, disposing>>
  BY DEF Turns!PumpTurns
<1>2. /\ turnState \in [Req -> {"none", "lost"} \union Turns!Live \union Turns!Outcome]
      /\ turnId \in [Req -> Nat] /\ pendingTurns \in Seq(Req)
      /\ active \in Req \union {NoReq} /\ abortedTurns \subseteq Req
      /\ leases \in Nat /\ disposing \in BOOLEAN /\ nextReserved \in Nat
      /\ prompted \subseteq Req /\ ClockTyped
  BY TurnTypes DEF TurnsHold
<1>3. /\ h \in Req /\ pendingTurns' \in Seq(Req)
      /\ ToSet(pendingTurns) = {h} \union ToSet(pendingTurns')
      /\ IsInjective(pendingTurns') /\ h \notin ToSet(pendingTurns')
  BY <1>1, <1>2, TailSet DEF TurnsHold
<1>4. ClockTyped' /\ active' = h /\ prompted' = prompted \union {h} /\ leases = 0
  BY <1>1, <1>2, StartTyped DEF Turns!MayStart
<1> HIDE DEF h
<1>5. /\ turnState' \in [Req -> {"none", "lost"} \union Turns!Live \union Turns!Outcome]
      /\ turnState'[h] = "running" /\ \A u \in Req : u # h => turnState'[u] = turnState[u]
  BY <1>1, <1>2, <1>3 DEF Turns!Live
<1>6. \A u \in ToSet(pendingTurns') : turnState'[u] = "queued"
  <2>1. \A u \in ToSet(pendingTurns') : u \in Req /\ u # h /\ turnState[u] = "queued"
    <3>1. ToSet(pendingTurns) \subseteq Req
      BY <1>2 DEF ToSet
    <3> QED
      BY <1>3, <3>1 DEF TurnsHold
  <2> QED
    BY <1>5, <2>1
<1>7. Turns!TypeOK'
  BY <1>1, <1>2, <1>3, <1>4, <1>5, TurnTypesNext
<1> QED
  BY <1>1, <1>3, <1>4, <1>5, <1>6, <1>7 DEF TurnsHold

LEMMA CancelKeepsTurns ==
  ASSUME TurnsHold, NEW t \in Req, Turns!CancelQueuedTurn(t)
  PROVE  TurnsHold' /\ ToSet(pendingTurns') = ToSet(pendingTurns) \ {t} /\ t \in ToSet(pendingTurns)
<1>1. PICK i \in DOMAIN pendingTurns :
        /\ pendingTurns[i] = t
        /\ pendingTurns' = SubSeq(pendingTurns, 1, i - 1)
                             \o SubSeq(pendingTurns, i + 1, Len(pendingTurns))
        /\ turnState' = [turnState EXCEPT ![t] = "cancelled"]
        /\ abortedTurns' = abortedTurns \union {t}
        /\ Turns!cancelTurn({turnId[t]})
        /\ UNCHANGED <<turnId, active, nextReserved, prompted, leases, disposing>>
  BY DEF Turns!CancelQueuedTurn
<1>2. /\ turnState \in [Req -> {"none", "lost"} \union Turns!Live \union Turns!Outcome]
      /\ turnId \in [Req -> Nat] /\ pendingTurns \in Seq(Req)
      /\ active \in Req \union {NoReq} /\ abortedTurns \subseteq Req
      /\ leases \in Nat /\ disposing \in BOOLEAN /\ nextReserved \in Nat
      /\ prompted \subseteq Req /\ ClockTyped
  BY TurnTypes DEF TurnsHold
<1>3. /\ pendingTurns' \in Seq(Req) /\ IsInjective(pendingTurns')
      /\ ToSet(pendingTurns') = ToSet(pendingTurns) \ {t}
  <2>1. i \in 1 .. Len(pendingTurns) /\ IsInjective(pendingTurns)
    BY <1>2 DEF TurnsHold
  <2> QED
    BY <1>1, <1>2, <2>1, RemoveSet
<1>4. ClockTyped'
  <2>1. {turnId[t]} \subseteq Nat /\ IsFiniteSet({turnId[t]})
    <3>1. {turnId[t]} \subseteq Nat
      BY <1>2
    <3>2. IsFiniteSet({turnId[t]})
      BY FS_Singleton, Zenon
    <3> QED
      BY <3>1, <3>2
  <2> QED
    BY <1>1, <1>2, <2>1, CancelTyped
<1>5. t \in ToSet(pendingTurns) /\ turnState[t] = "queued" /\ t # active
  BY <1>1, <1>2, RequestAssumption DEF TurnsHold, ToSet
<1>6. /\ turnState' \in [Req -> {"none", "lost"} \union Turns!Live \union Turns!Outcome]
      /\ \A u \in Req : u # t => turnState'[u] = turnState[u]
  BY <1>1, <1>2 DEF Turns!Outcome
<1>7. \A u \in ToSet(pendingTurns') : turnState'[u] = "queued"
  <2>1. \A u \in ToSet(pendingTurns') : u \in Req /\ u # t /\ turnState[u] = "queued"
    <3>1. ToSet(pendingTurns) \subseteq Req
      BY <1>2 DEF ToSet
    <3> QED
      BY <1>3, <3>1 DEF TurnsHold
  <2> QED
    BY <1>6, <2>1
<1>8. Turns!TypeOK'
  BY <1>1, <1>2, <1>3, <1>4, <1>6, TurnTypesNext
<1>9. leases' > 0 => FALSE
  <2>1. pendingTurns # << >>
    BY <1>5, EmptySet
  <2> QED
    BY <1>1, <2>1 DEF TurnsHold
<1>10. active # NoReq => turnState'[active] = "running"
  BY <1>2, <1>5, <1>6 DEF TurnsHold
<1> QED
  BY <1>1, <1>3, <1>5, <1>7, <1>8, <1>9, <1>10 DEF TurnsHold

LEMMA DisposeKeepsTurns ==
  ASSUME TurnsHold, Turns!Dispose
  PROVE  TurnsHold'
<1> DEFINE queued == {pendingTurns[i] : i \in DOMAIN pendingTurns}
           extra == {active} \ (abortedTurns \union {NoReq})
           I == {turnId[t] : t \in queued \union extra}
<1>1. /\ disposing' = TRUE /\ pendingTurns' = << >>
      /\ turnState' = [t \in Req |-> IF t \in queued THEN "cancelled" ELSE turnState[t]]
      /\ abortedTurns' = abortedTurns \union queued \union ({active} \ {NoReq})
      /\ Turns!cancelTurn(I)
      /\ UNCHANGED <<turnId, active, nextReserved, prompted, leases>>
  BY DEF Turns!Dispose
<1>2. /\ turnState \in [Req -> {"none", "lost"} \union Turns!Live \union Turns!Outcome]
      /\ turnId \in [Req -> Nat] /\ pendingTurns \in Seq(Req)
      /\ active \in Req \union {NoReq} /\ abortedTurns \subseteq Req
      /\ leases \in Nat /\ disposing \in BOOLEAN /\ nextReserved \in Nat
      /\ prompted \subseteq Req /\ ClockTyped
  BY TurnTypes DEF TurnsHold
<1>3. queued = ToSet(pendingTurns) /\ queued \subseteq Req
  BY <1>2 DEF ToSet
<1>4. extra \subseteq Req /\ IsFiniteSet(extra)
  <2>1. extra \in SUBSET {active} /\ IsFiniteSet({active})
    BY FS_Singleton
  <2>2. IsFiniteSet(extra)
    BY <2>1, FS_Subset
  <2> QED
    BY <1>2, <2>2
<1> HIDE DEF queued, extra
<1>5. I \subseteq Nat /\ IsFiniteSet(I)
  BY <1>2, <1>3, <1>4, FewNumbers
<1> HIDE DEF I
<1>6. ClockTyped'
  BY <1>1, <1>2, <1>5, CancelTyped
<1>7. /\ turnState' \in [Req -> {"none", "lost"} \union Turns!Live \union Turns!Outcome]
      /\ abortedTurns' \subseteq Req
  BY <1>1, <1>2, <1>3 DEF Turns!Outcome
<1>8. active # NoReq => turnState'[active] = "running"
  BY <1>1, <1>2, <1>3 DEF TurnsHold
<1>9. Turns!TypeOK'
  BY <1>1, <1>2, <1>6, <1>7, TurnTypesNext
<1>10. IsInjective(<< >>) /\ ToSet(<< >>) = {}
  BY EmptySet DEF IsInjective
<1> QED
  BY <1>1, <1>8, <1>9, <1>10 DEF TurnsHold

LEMMA TurnsGoOn ==
  ASSUME TurnsHold, TurnStep
  PROVE  TurnsHold'
<1>0. /\ turnState \in [Req -> {"none", "lost"} \union Turns!Live \union Turns!Outcome]
      /\ turnId \in [Req -> Nat] /\ pendingTurns \in Seq(Req)
      /\ active \in Req \union {NoReq} /\ abortedTurns \subseteq Req
      /\ leases \in Nat /\ disposing \in BOOLEAN /\ nextReserved \in Nat
      /\ prompted \subseteq Req /\ ClockTyped
  BY TurnTypes DEF TurnsHold
<1>1. ASSUME NEW t \in Req, Turns!AdmitTurn(t) PROVE TurnsHold'
  BY <1>1, CreateKeepsTurns
<1>2. ASSUME NEW t \in Req, Turns!CancelQueuedTurn(t) PROVE TurnsHold'
  BY <1>2, CancelKeepsTurns
<1>3. ASSUME NEW outcome \in Turns!Outcome, Turns!ReleaseActiveTurn(outcome) PROVE TurnsHold'
  <2>1. /\ active # NoReq /\ active' = NoReq
        /\ turnState' = [turnState EXCEPT ![active] = outcome]
        /\ UNCHANGED <<turnId, pendingTurns, abortedTurns, nextReserved, nextTurnId,
                       cancelledTurnIds, prompted, leases, disposing>>
    BY <1>3 DEF Turns!ReleaseActiveTurn, Turns!clockVars
  <2>2. turnState' \in [Req -> {"none", "lost"} \union Turns!Live \union Turns!Outcome]
    BY <1>0, <1>3, <2>1
  <2>3. ClockTyped'
    BY <1>0, <2>1 DEF ClockTyped
  <2>4. Turns!TypeOK'
    BY <1>0, <2>1, <2>2, <2>3, TurnTypesNext
  <2>5. \A t \in ToSet(pendingTurns) : t \in Req /\ t # active /\ turnState[t] = "queued"
    BY <1>0, <2>1 DEF TurnsHold, ToSet
  <2>6. \A t \in ToSet(pendingTurns') : turnState'[t] = "queued"
    BY <1>0, <2>1, <2>5
  <2> QED
    BY <2>1, <2>4, <2>6 DEF TurnsHold
<1>4. CASE Turns!PumpTurns
  BY <1>4, PumpKeepsTurns
<1>5. CASE Turns!CancelActiveTurn
  <2>1. /\ active # NoReq /\ abortedTurns' = abortedTurns \union {active}
        /\ Turns!cancelTurn({turnId[active]})
        /\ UNCHANGED <<turnState, turnId, pendingTurns, active, nextReserved, prompted,
                       leases, disposing>>
    BY <1>5 DEF Turns!CancelActiveTurn
  <2>2. {turnId[active]} \subseteq Nat /\ IsFiniteSet({turnId[active]})
    <3>1. {turnId[active]} \subseteq Nat
      BY <1>0, <2>1
    <3>2. IsFiniteSet({turnId[active]})
      BY FS_Singleton, Zenon
    <3> QED
      BY <3>1, <3>2
  <2>3. ClockTyped'
    BY <1>0, <2>1, <2>2, CancelTyped
  <2>4. Turns!TypeOK'
    BY <1>0, <2>1, <2>3, TurnTypesNext
  <2> QED
    BY <2>1, <2>4 DEF TurnsHold
<1>6. CASE Turns!TryAcquireQuiescence(FALSE) \/ Turns!ReleaseQuiescence
  <2>1. /\ UNCHANGED <<turnState, turnId, pendingTurns, active, abortedTurns, nextReserved,
                       nextTurnId, cancelledTurnIds, prompted, disposing>>
        /\ \/ leases' = leases + 1 /\ active = NoReq /\ pendingTurns = << >>
           \/ leases > 0 /\ leases' = leases - 1
    BY <1>6 DEF Turns!TryAcquireQuiescence, Turns!ReleaseQuiescence, Turns!queueVars, Turns!clockVars
  <2>2. leases' \in Nat
    BY <1>0, <2>1
  <2>3. ClockTyped'
    BY <1>0, <2>1 DEF ClockTyped
  <2>4. Turns!TypeOK'
    BY <1>0, <2>1, <2>2, <2>3, TurnTypesNext
  <2> QED
    BY <1>0, <2>1, <2>4 DEF TurnsHold
<1>7. CASE Turns!Dispose
  BY <1>7, DisposeKeepsTurns
<1>8. CASE Turns!Restart
  BY <1>8 DEF Turns!Restart
<1>9. CASE UNCHANGED Turns!vars
  <2>1. UNCHANGED <<turnState, turnId, pendingTurns, active, abortedTurns, nextReserved,
                    nextTurnId, cancelledTurnIds, prompted, disposing, leases>>
    BY <1>9 DEF Turns!vars, Turns!queueVars, Turns!clockVars
  <2>2. ClockTyped'
    BY <1>0, <2>1 DEF ClockTyped
  <2>3. Turns!TypeOK'
    BY <1>0, <2>1, <2>2, TurnTypesNext
  <2> QED
    BY <2>1, <2>3 DEF TurnsHold
<1> QED
  BY <1>1, <1>2, <1>3, <1>4, <1>5, <1>6, <1>7, <1>8, <1>9 DEF TurnStep, Turns!Next

LEMMA InitTurns == Init => TurnsHold
<1> SUFFICES ASSUME Init PROVE TurnsHold
  OBVIOUS
<1>1. /\ turnState = [t \in Req |-> "none"] /\ turnId = [t \in Req |-> 0]
      /\ pendingTurns = << >> /\ active = NoReq /\ abortedTurns = {} /\ leases = 0
      /\ disposing = FALSE /\ nextReserved = 0 /\ nextTurnId = 0 /\ cancelledTurnIds = {}
      /\ prompted = {}
  BY DEF Init, Turns!Init
<1>2. ClockTyped
  BY <1>1, FS_EmptySet DEF ClockTyped
<1>3. Turns!TypeOK
  <2>1. turnState \in [Req -> {"none", "lost"} \union Turns!Live \union Turns!Outcome]
    BY <1>1
  <2>2. turnId \in [Req -> Nat] /\ pendingTurns \in Seq(Req)
    BY <1>1
  <2> QED
    BY <1>1, <1>2, <2>1, <2>2, TurnTypes
<1>4. IsInjective(<< >>) /\ ToSet(<< >>) = {}
  BY EmptySet DEF IsInjective
<1> QED
  BY <1>1, <1>3, <1>4 DEF TurnsHold

----------------------------------------------------------------------------
(* What the actions are built from *)

\* How the loop's turns move, for what depends on them.
LivesOn == \A t \in Req : turnState[t] \in Turns!Live => turnState'[t] \in Turns!Live
TurnBegins == active = NoReq /\ active' \in Req

LEMMA CreateMoves ==
  ASSUME TurnsHold, NEW r \in Req, Turns!CreateTurn(r)
  PROVE  /\ turnState[r] = "none" /\ turnState'[r] \in Turns!Live /\ LivesOn
         /\ leases' = leases /\ disposing' = disposing
         /\ \/ TurnBegins /\ active' \in ToSet(pendingTurns) \union {r}
            \/ active' = active /\ pendingTurns' # << >>
<1> DEFINE queued == Append(pendingTurns, r)
<1>1. pendingTurns \in Seq(Req) /\ active \in Req \union {NoReq}
      /\ turnState \in [Req -> {"none", "lost"} \union Turns!Live \union Turns!Outcome]
  BY TurnTypes DEF TurnsHold
<1>2. /\ queued \in Seq(Req) /\ queued # << >> /\ Head(queued) \in Req
      /\ Head(queued) \in ToSet(pendingTurns) \union {r}
  <2>1. queued \in Seq(Req) /\ queued # << >> /\ ToSet(queued) = ToSet(pendingTurns) \union {r}
    BY <1>1, AppendSet, AppendProperties
  <2> HIDE DEF queued
  <2>2. Head(queued) \in Req /\ Head(queued) \in ToSet(queued)
    BY <2>1, TailSet
  <2> QED
    BY <2>1, <2>2
<1>3. /\ turnState[r] = "none" /\ leases' = leases /\ disposing' = disposing
      /\ turnState' \in {[turnState EXCEPT ![r] = "queued", ![Head(queued)] = "running"],
                         [turnState EXCEPT ![r] = "queued"]}
      /\ \/ active = NoReq /\ active' = Head(queued)
         \/ active' = active /\ pendingTurns' = queued
  BY DEF Turns!CreateTurn, Turns!MayStart, Turns!startTurn
<1> HIDE DEF queued
<1>4. turnState'[r] \in Turns!Live /\ LivesOn
  BY <1>1, <1>2, <1>3 DEF Turns!Live, LivesOn
<1> QED
  BY <1>2, <1>3, <1>4 DEF TurnBegins

LEMMA PumpMoves ==
  ASSUME TurnsHold, Turns!PumpTurns
  PROVE  LivesOn /\ TurnBegins /\ active' \in ToSet(pendingTurns) /\ UNCHANGED <<leases, disposing>>
<1>1. pendingTurns \in Seq(Req) /\ pendingTurns # << >>
      /\ turnState \in [Req -> {"none", "lost"} \union Turns!Live \union Turns!Outcome]
  BY TurnTypes DEF TurnsHold, Turns!PumpTurns
<1>2. Head(pendingTurns) \in Req /\ Head(pendingTurns) \in ToSet(pendingTurns)
  BY <1>1, TailSet
<1> QED
  BY <1>1, <1>2 DEF Turns!PumpTurns, Turns!MayStart, Turns!startTurn, Turns!Live, LivesOn, TurnBegins

\* What stays of a queue when the aborted are dropped.
LEMMA NotAbortedSet ==
  ASSUME NEW q \in Seq(Req)
  PROVE  NotAborted(q) \in Seq(Req) /\ ToSet(NotAborted(q)) = {r \in ToSet(q) : reqState[r] # "aborted"}
<1>1. /\ SelectIn(q, {r \in Req : reqState[r] # "aborted"}) \in Seq(Req)
      /\ ToSet(SelectIn(q, {r \in Req : reqState[r] # "aborted"}))
           = ToSet(q) \intersect {r \in Req : reqState[r] # "aborted"}
  BY SelectSet
<1>2. ToSet(q) \subseteq Req
  BY DEF ToSet
<1> QED
  BY <1>1, <1>2 DEF NotAborted

LEMMA NothingPending ==
  ASSUME NEW q \in Seq(Req)
  PROVE  ~hasPending(q) <=> \A r \in ToSet(q) : reqState[r] = "aborted"
<1>1. NotAborted(q) \in Seq(Req) /\ ToSet(NotAborted(q)) = {r \in ToSet(q) : reqState[r] # "aborted"}
  BY NotAbortedSet
<1>2. NotAborted(q) = << >> <=> ToSet(NotAborted(q)) = {}
  BY <1>1, EmptySet, TailSet
<1> QED
  BY <1>1, <1>2 DEF hasPending

\* The driver is in the queue, first among those that cannot be merged, and the
\* queue keeps the others that cannot be.
LEMMA DriverIsQueued ==
  ASSUME NEW q \in Seq(Req), q # << >>
  PROVE  /\ NextDriver(q) \in ToSet(q)
         /\ Rest(q) \in Seq(Req)
         /\ ToSet(Rest(q)) = {r \in ToSet(q) : r # NextDriver(q) /\ ~Mergeable(r)}
         /\ ~Mergeable(Head(q)) => NextDriver(q) = Head(q)
<1> DEFINE own == SelectIn(q, {r \in Req : ~Mergeable(r)})
<1>1. own \in Seq(Req) /\ ToSet(own) \subseteq ToSet(q)
  BY SelectSet
<1>2. Head(q) \in ToSet(q) /\ Head(q) \in Req /\ ToSet(q) \subseteq Req
  BY TailSet DEF ToSet
<1>3. own # << >> => Head(own) \in ToSet(own)
  BY <1>1, TailSet
<1>4. ~Mergeable(Head(q)) => own # << >> /\ Head(own) = Head(q)
  BY <1>2, SelectHead
<1>5. NextDriver(q) = IF own # << >> THEN Head(own) ELSE Head(q)
  BY DEF NextDriver
<1> HIDE DEF own
<1>6. /\ Rest(q) \in Seq(Req)
      /\ ToSet(Rest(q)) = ToSet(q) \intersect {r \in Req : r # NextDriver(q) /\ ~Mergeable(r)}
  BY SelectSet DEF Rest
<1> QED
  BY <1>1, <1>2, <1>3, <1>4, <1>5, <1>6

----------------------------------------------------------------------------
(* The run *)

LEMMA RunKept ==
  ASSUME RunHolds, UNCHANGED runVars, active' = active
  PROVE  RunHolds'
  BY DEF RunHolds, runVars, retryVars

LEMMA RunBegins ==
  ASSUME RunHolds, runTurn, TurnBegins \/ active' = active
  PROVE  RunHolds'
<1>1. CASE active' = active
  BY <1>1, RunKept DEF runTurn
<1>2. CASE TurnBegins /\ active' # active
  BY <1>2, RequestAssumption DEF runTurn, TurnBegins, RunHolds, Phases, Working, Recovering
<1> QED
  BY <1>1, <1>2

LEMMA AdmitRun ==
  ASSUME TurnsHold, RunHolds, NEW r \in Req, admit(r)
  PROVE  RunHolds'
<1>1. CASE createAndQueueTurn(r)
  BY <1>1, CreateMoves, RunBegins DEF createAndQueueTurn
<1>2. CASE joinActiveTurn(r) /\ UNCHANGED runVars
  BY <1>2, RunKept DEF joinActiveTurn, turnVars
<1>3. CASE waitForNextTurn(r)
  BY <1>3, RunKept DEF waitForNextTurn, turnVars
<1> QED
  BY <1>1, <1>2, <1>3 DEF admit

LEMMA PumpRun ==
  ASSUME TurnsHold, RunHolds, pumpTurns
  PROVE  RunHolds'
<1>1. CASE Turns!PumpTurns /\ runTurn
  BY <1>1, PumpMoves, RunBegins
<1>2. CASE UNCHANGED <<turnVars, runVars>>
  BY <1>2, RunKept DEF turnVars
<1> QED
  BY <1>1, <1>2 DEF pumpTurns

LEMMA EndRun ==
  ASSUME RunHolds, phase # "idle", NEW outcome \in Turns!Outcome, endRun(outcome),
         failedDriver' \in Req \union {NoReq}, failedAttempts' \in Nat, overflows' \in Nat
  PROVE  RunHolds'
  BY DEF RunHolds, endRun, turnVars, Phases, Working, Recovering

LEMMA ClientRun ==
  ASSUME TurnsHold, RunHolds, Client
  PROVE  RunHolds'
<1>1. ASSUME NEW r \in Req, Enqueue(r) PROVE RunHolds'
  <2>1. CASE admit(r)
    BY <2>1, AdmitRun
  <2>2. CASE UNCHANGED <<turnVars, runVars>>
    BY <2>2, RunKept DEF turnVars
  <2> QED
    BY <1>1, <2>1, <2>2 DEF Enqueue, requiresActiveTurn
<1>2. CASE \E r \in Req : AbortUnassigned(r) \/ CancelStep(r)
  BY <1>2, RunKept DEF AbortUnassigned, CancelStep, turnVars
<1>3. CASE AwaitSettled
  BY <1>3, RunKept DEF AwaitSettled, turnVars
<1>4. CASE CancelActiveTurn \/ Dispose \/ \E t \in Req : CancelQueuedTurn(t)
  BY <1>4, RunKept DEF CancelActiveTurn, Turns!CancelActiveTurn, Dispose, Turns!Dispose,
     CancelQueuedTurn, Turns!CancelQueuedTurn
<1>5. CASE TryAcquireQuiescence
  BY <1>5, RunKept DEF TryAcquireQuiescence, Turns!TryAcquireQuiescence, Turns!queueVars
<1> QED
  BY <1>1, <1>2, <1>3, <1>4, <1>5 DEF Client

LEMMA ReleasingRun ==
  ASSUME TurnsHold, RunHolds, HeldAreRequests, Release
  PROVE  RunHolds'
<1>1. CASE ReleaseQuiescence
  BY <1>1, RunKept DEF ReleaseQuiescence, Turns!ReleaseQuiescence, Turns!queueVars
<1>2. CASE AdmitHeld
  <2>1. Head(draining) \in Req
    BY <1>2 DEF AdmitHeld, HeldAreRequests
  <2>2. CASE admit(Head(draining))
    BY <2>1, <2>2, AdmitRun
  <2>3. CASE UNCHANGED <<turnVars, runVars>>
    BY <2>3, RunKept DEF turnVars
  <2> QED
    BY <1>2, <2>2, <2>3 DEF AdmitHeld, requiresActiveTurn
<1>3. CASE FinishRelease
  BY <1>3, PumpRun DEF FinishRelease
<1> QED
  BY <1>1, <1>2, <1>3 DEF Release

LEMMA StepRun ==
  ASSUME TurnsHold, RunHolds, RequestTypes, Step
  PROVE  RunHolds'
<1> USE DEF RunHolds, Phases, Working, Recovering
<1>1. CASE BeginStep
  <2> DEFINE q == NotAborted(queue[active])
  <2>1. queue[active] \in Seq(Req)
    BY <1>1, TurnTypes DEF BeginStep, RequestTypes, TurnsHold
  <2>2. q \in Seq(Req) /\ q # << >>
    BY <1>1, <2>1, NotAbortedSet DEF BeginStep
  <2>3. NextDriver(q) \in Req
    <3> HIDE DEF q
    <3>1. NextDriver(q) \in ToSet(q) /\ ToSet(q) \subseteq Req
      BY <2>2, DriverIsQueued DEF ToSet
    <3> QED
      BY <3>1
  <2>4. /\ current' = NextDriver(q) /\ phase' = "hooks" /\ steps' = steps + 1
        /\ phase = "begin" /\ active' = active /\ UNCHANGED <<finish, retryVars>>
    BY <1>1 DEF BeginStep, turnVars
  <2> HIDE DEF q
  <2> QED
    BY <2>3, <2>4, RequestAssumption DEF retryVars
<1>2. CASE HooksDone \/ ModelAnswers \/ ToolsDone \/ StopHookRuns
  BY <1>2 DEF HooksDone, ModelAnswers, ToolsDone, StopHookRuns, turnVars, retryVars
<1>3. CASE AfterStep
  <2>1. active' = active /\ phase \in {"after", "stop_hook"} /\ phase' = "complete"
        /\ failedDriver' = NoReq /\ failedAttempts' = 0 /\ overflows' = 0
        /\ current' = current /\ steps' = steps /\ finish' \in {finish, "hook_stop"}
    BY <1>3 DEF AfterStep, joinActiveTurn, turnVars
  <2> QED
    BY <2>1
<1>4. CASE CompleteStep
  <2>1. CASE \E outcome \in Turns!Outcome : endRun(outcome)
    BY <1>4, <2>1, EndRun DEF CompleteStep, retryVars
  <2>2. CASE phase' = "begin" /\ current' = NoReq /\ finish' = "none" /\ UNCHANGED <<turnVars, steps>>
    BY <1>4, <2>2 DEF CompleteStep, retryVars, turnVars
  <2> QED
    BY <1>4, <2>1, <2>2 DEF CompleteStep, Turns!Outcome
<1> QED
  BY <1>1, <1>2, <1>3, <1>4 DEF Step

LEMMA FailureRun ==
  ASSUME RunHolds, Failure
  PROVE  RunHolds'
<1>0. current \in Req /\ phase # "idle"
  BY DEF RunHolds, Phases, Working, Recovering, Failure, StepAborted, StepFails, RetryableError,
     BackoffElapsed, BackoffAborted, ContextOverflow, Compacted, CompactionFails
<1>1. CASE RunEnds
  <2>1. failedDriver' \in Req \union {NoReq} /\ failedAttempts' \in Nat /\ overflows' \in Nat
    BY <1>0 DEF Failure, StepAborted, StepFails, RetryableError, BackoffElapsed, BackoffAborted,
       ContextOverflow, Compacted, CompactionFails, retryVars, RunHolds
  <2> QED
    BY <1>0, <1>1, <2>1, EndRun DEF RunEnds
<1>2. CASE continueRun /\ UNCHANGED retryVars
  BY <1>0, <1>2 DEF RunHolds, continueRun, turnVars, retryVars, Phases, Working, Recovering
<1>3. CASE RetryableError /\ recoverStep("backoff")
  BY <1>3 DEF RunHolds, RetryableError, recoverStep, turnVars, Phases, Working, Recovering
<1>4. CASE ContextOverflow /\ recoverStep("compacting")
  BY <1>4 DEF RunHolds, ContextOverflow, recoverStep, turnVars, Phases, Working, Recovering
<1>5. Turns!Outcome = {"completed", "cancelled", "failed"}
  BY DEF Turns!Outcome
<1>6. StepAborted \/ CompactionFails => RunEnds \/ (continueRun /\ UNCHANGED retryVars)
  BY <1>5 DEF StepAborted, CompactionFails, abortStep, RunEnds
<1>7. BackoffElapsed \/ Compacted => RunEnds \/ (continueRun /\ UNCHANGED retryVars)
  BY <1>5 DEF BackoffElapsed, Compacted, retryDriver, RunEnds
<1>8. StepFails \/ BackoffAborted => RunEnds
  BY <1>5 DEF StepFails, BackoffAborted, RunEnds
<1>9. RetryableError => RunEnds \/ recoverStep("backoff")
  BY <1>5 DEF RetryableError, RunEnds
<1>10. ContextOverflow => RunEnds \/ recoverStep("compacting")
  BY <1>5 DEF ContextOverflow, RunEnds
<1> QED
  BY <1>1, <1>2, <1>3, <1>4, <1>6, <1>7, <1>8, <1>9, <1>10 DEF Failure

LEMMA RunGoesOnWell ==
  ASSUME TurnsHold, RunHolds, RequestTypes, HeldAreRequests, [Next]_vars
  PROVE  RunHolds'
<1>1. CASE Resume
  BY <1>1 DEF Resume, RunHolds, turnVars, retryVars, Phases, Working, Recovering
<1>2. CASE BeginEndsRun
  BY <1>2, EndRun DEF BeginEndsRun, retryVars, RunHolds, Turns!Outcome
<1>3. CASE ReleaseActiveTurn \/ PrepareFails
  <2>1. PICK outcome : releaseActiveTurn(outcome)
    BY <1>3 DEF ReleaseActiveTurn, PrepareFails
  <2>2. phase' = "idle" /\ current' = NoReq /\ steps' = 0 /\ finish' = "none" /\ active' = NoReq
        /\ UNCHANGED retryVars
    BY <2>1 DEF releaseActiveTurn, Turns!ReleaseActiveTurn
  <2> QED
    BY <2>2 DEF RunHolds, retryVars, Phases, Working, Recovering
<1>4. CASE PumpAfterTurn
  BY <1>4, PumpRun DEF PumpAfterTurn
<1>5. CASE UNCHANGED vars
  BY <1>5, RunKept DEF vars, turnVars
<1> QED
  BY <1>1, <1>2, <1>3, <1>4, <1>5, ClientRun, ReleasingRun, StepRun, FailureRun DEF Next, Runner
----------------------------------------------------------------------------
(* Who waits for settled() *)

LEMMA EmptyHeld == ASSUME NEW r \in Req, NEW q \in Seq(Req) PROVE Append(q, r) # << >>
  BY AppendProperties

LEMMA SettleTyped ==
  ASSUME waiting \in BOOLEAN, maybeSettle
  PROVE  waiting' \in BOOLEAN /\ (waiting' => waiting /\ ~Settled')
  BY DEF maybeSettle, Settled

LEMMA StillAwaited ==
  ASSUME waiting \in BOOLEAN, maybeSettle \/ (waiting' = waiting /\ (Settled' => ~waiting))
  PROVE  waiting' \in BOOLEAN /\ NoMissedWakeup'
<1>1. CASE maybeSettle
  BY <1>1, SettleTyped DEF NoMissedWakeup
<1>2. CASE waiting' = waiting /\ (Settled' => ~waiting)
  BY <1>2 DEF NoMissedWakeup
<1> QED
  BY <1>1, <1>2

\* Nobody is settled or woken, or there is nothing left to wait for.
LEMMA WakeKept ==
  ASSUME WakeHolds, UNCHANGED <<inDrain, draining, pumpDue>>,
         \/ maybeSettle
         \/ waiting' = waiting /\ (Settled' => Settled)
  PROVE  WakeHolds'
  BY SettleTyped DEF WakeHolds, NoMissedWakeup

LEMMA AdmitWakes ==
  ASSUME TurnsHold, NEW r \in Req, admit(r), held' = held
  PROVE  Settled' => Settled
<1>1. CASE createAndQueueTurn(r)
  BY <1>1, CreateMoves, RequestAssumption DEF createAndQueueTurn, TurnBegins, Settled
<1>2. CASE joinActiveTurn(r) \/ waitForNextTurn(r)
  BY <1>2 DEF joinActiveTurn, waitForNextTurn, Settled, turnVars
<1> QED
  BY <1>1, <1>2 DEF admit

\* pumpTurns finds something to start, may not start it, or settles.
LEMMA PumpWakes ==
  ASSUME TurnsHold, pumpTurns, held' = held, Settled => ~waiting \/ Turns!MayStart
  PROVE  maybeSettle \/ (waiting' = waiting /\ (Settled' => ~waiting))
<1>1. CASE Turns!PumpTurns
  BY <1>1, PumpMoves, RequestAssumption DEF pumpTurns, TurnBegins, Settled, Turns!PumpTurns
<1>2. CASE ~Turns!MayStart /\ UNCHANGED <<turnVars, waiting>>
  BY <1>2 DEF Settled, turnVars
<1>3. CASE maybeSettle
  BY <1>3
<1> QED
  BY <1>1, <1>2, <1>3 DEF pumpTurns

LEMMA ClientWakes ==
  ASSUME TurnsHold, HeldAreRequests, WakeHolds, Client
  PROVE  WakeHolds'
<1>1. ASSUME NEW r \in Req, Enqueue(r) PROVE WakeHolds'
  <2>1. CASE held' = Append(held, r)
    <3>1. held' # << >>
      BY <2>1, EmptyHeld DEF HeldAreRequests
    <3> QED
      BY <1>1, <3>1, WakeKept DEF Enqueue, Settled
  <2>2. CASE admit(r) /\ held' = held
    BY <1>1, <2>2, AdmitWakes, WakeKept DEF Enqueue
  <2>3. CASE UNCHANGED turnVars /\ held' = held
    BY <1>1, <2>3, WakeKept DEF Enqueue, Settled, turnVars
  <2> QED
    BY <1>1, <2>1, <2>2, <2>3 DEF Enqueue, requiresActiveTurn
<1>2. ASSUME NEW r \in Req, AbortUnassigned(r) PROVE WakeHolds'
  BY <1>2, WakeKept DEF AbortUnassigned, Settled, turnVars
<1>3. ASSUME NEW r \in Req, CancelStep(r) PROVE WakeHolds'
  BY <1>3, WakeKept DEF CancelStep, Settled, turnVars, drainVars
<1>4. ASSUME NEW t \in Req, CancelQueuedTurn(t) PROVE WakeHolds'
  BY <1>4, WakeKept DEF CancelQueuedTurn, drainVars
<1>5. CASE CancelActiveTurn
  BY <1>5, WakeKept DEF CancelActiveTurn, Turns!CancelActiveTurn, Settled, drainVars
<1>6. CASE AwaitSettled
  BY <1>6 DEF AwaitSettled, Settled, turnVars, drainVars, WakeHolds, NoMissedWakeup
<1>7. CASE TryAcquireQuiescence
  BY <1>7, WakeKept DEF TryAcquireQuiescence, Turns!TryAcquireQuiescence, Turns!queueVars, Settled,
     drainVars
<1>8. CASE Dispose
  BY <1>8, WakeKept DEF Dispose
<1> QED
  BY <1>1, <1>2, <1>3, <1>4, <1>5, <1>6, <1>7, <1>8 DEF Client

LEMMA ReleasingWakes ==
  ASSUME TurnsHold, LInv, WakeHolds, Release
  PROVE  WakeHolds'
<1>1. CASE ReleaseQuiescence
  <2>1. UNCHANGED <<active, pendingTurns, waiting, pumpDue>> /\ ~inDrain
    BY <1>1 DEF ReleaseQuiescence, Turns!ReleaseQuiescence, Turns!queueVars, Free
  <2>2. inDrain' = TRUE \/ UNCHANGED drainVars
    BY <1>1 DEF ReleaseQuiescence
  <2> QED
    BY <2>1, <2>2 DEF WakeHolds, NoMissedWakeup, Settled, drainVars
<1>2. CASE AdmitHeld
  BY <1>2 DEF AdmitHeld, WakeHolds, NoMissedWakeup
<1>3. CASE FinishRelease
  <2>1. /\ inDrain /\ inDrain' = FALSE /\ draining = << >> /\ pumpTurns
        /\ UNCHANGED <<held, draining, pumpDue>>
    BY <1>3 DEF FinishRelease
  <2>2. Settled => Turns!MayStart
    BY <2>1 DEF LInv, DrainIsOpen, Settled, Turns!MayStart
  <2>3. maybeSettle \/ (waiting' = waiting /\ (Settled' => ~waiting))
    BY <2>1, <2>2, PumpWakes
  <2> QED
    BY <2>1, <2>3, StillAwaited DEF WakeHolds
<1> QED
  BY <1>1, <1>2, <1>3 DEF Release

LEMMA RunnerWakes ==
  ASSUME TurnsHold, LInv, WakeHolds, Runner
  PROVE  WakeHolds'
<1>1. CASE RunGoesOn /\ UNCHANGED <<pumpDue, waiting>>
  BY <1>1, WakeKept DEF RunGoesOn, TurnsStay, turnVars, drainVars, Settled
<1>2. CASE RunEnds
  BY <1>2, WakeKept DEF RunEnds, endRun, turnVars, drainVars, Settled
<1>3. ASSUME NEW outcome \in Turns!Outcome, releaseActiveTurn(outcome) PROVE WakeHolds'
  BY <1>3 DEF releaseActiveTurn, drainVars, WakeHolds, NoMissedWakeup, maybeSettle
<1>4. CASE PumpAfterTurn
  <2>1. pumpTurns /\ pumpDue' = FALSE /\ UNCHANGED drainVars
    BY <1>4 DEF PumpAfterTurn
  <2>2. CASE inDrain
    <3>1. waiting' \in BOOLEAN
      BY <2>1 DEF pumpTurns, maybeSettle, WakeHolds
    <3> QED
      BY <2>1, <2>2, <3>1 DEF WakeHolds, NoMissedWakeup, drainVars
  <2>3. CASE ~inDrain
    <3>1. Settled => ~waiting
      BY <2>3 DEF WakeHolds, NoMissedWakeup
    <3>2. maybeSettle \/ (waiting' = waiting /\ (Settled' => ~waiting))
      BY <2>1, <3>1, PumpWakes DEF drainVars
    <3> QED
      BY <2>1, <2>3, <3>2, StillAwaited DEF WakeHolds, drainVars
  <2> QED
    BY <2>2, <2>3 DEF WakeHolds
<1>5. BeginStep \/ HooksDone \/ ModelAnswers \/ ToolsDone \/ StopHookRuns \/ AfterStep
        => UNCHANGED <<pumpDue, waiting>>
  BY DEF BeginStep, HooksDone, ModelAnswers, ToolsDone, StopHookRuns, AfterStep
<1>6. CompleteStep => RunEnds \/ UNCHANGED <<pumpDue, waiting>>
  BY DEF CompleteStep, RunEnds, Turns!Outcome
<1>7. Failure => RunEnds \/ UNCHANGED <<pumpDue, waiting>>
  BY DEF Failure, StepAborted, StepFails, RetryableError, BackoffElapsed, BackoffAborted,
     ContextOverflow, Compacted, CompactionFails, abortStep, retryDriver, continueRun, recoverStep,
     RunEnds, Turns!Outcome
<1>8. Resume => RunGoesOn /\ UNCHANGED <<pumpDue, waiting>>
  BY DEF Resume, RunGoesOn, TurnsStay
<1>9. BeginEndsRun => RunEnds
  BY DEF BeginEndsRun, RunEnds, Turns!Outcome
<1>10. CASE Step \/ Failure
  BY <1>1, <1>2, <1>5, <1>6, <1>7, <1>10, StepGoesOn, FailureGoesOn DEF Step
<1>11. CASE ReleaseActiveTurn \/ PrepareFails
  BY <1>3, <1>11 DEF ReleaseActiveTurn, PrepareFails, LInv, EndHasOutcome, Turns!Outcome
<1> QED
  BY <1>1, <1>2, <1>4, <1>8, <1>9, <1>10, <1>11 DEF Runner

LEMMA WakesGoOn ==
  ASSUME TurnsHold, LInv, WakeHolds, [Next]_vars
  PROVE  WakeHolds'
<1>1. CASE UNCHANGED vars
  BY <1>1, WakeKept DEF vars, turnVars, drainVars, Settled
<1> QED
  BY <1>1, ClientWakes, ReleasingWakes, RunnerWakes DEF Next, LInv
----------------------------------------------------------------------------
(* The requests: what a step may do to one of them *)

\* A step that leaves x as unassigned, or as assigned, as it was.
Stays(x) ==
  /\ stepTurn'[x] = stepTurn[x]
  /\ \A t \in Req : x \in ToSet(queue'[t]) =>
       x \in ToSet(queue[t]) \/ (stepTurn[x] = t /\ receipt[x] = "assigned")
  /\ reqState'[x] = "new" <=> reqState[x] = "new"
  /\ reqState[x] = "aborted" => reqState'[x] = "aborted"
  /\ Elsewhere(x) => Elsewhere(x)'
  /\ x \in ToSet(held') => x \in ToSet(held)
  /\ \/ receipt'[x] = receipt[x]
     \/ /\ receipt[x] = "waiting" /\ receipt'[x] = "rejected"
        /\ reqState'[x] = "aborted" /\ x \notin ToSet(held')
  /\ receipt'[x] = "waiting" => reqState'[x] = reqState[x] /\ ~Elsewhere(x)'
  /\ receipt[x] # "assigned" => stepState'[x] = stepState[x]
                                /\ reqState'[x] \in {reqState[x], "aborted"}
  /\ receipt[x] = "assigned" =>
       /\ stepState'[x] # "none"
       /\ stepState'[x] \in {"queued", "running"} => turnState'[stepTurn[x]] \in Turns!Live
       /\ reqState'[x] = "pending" =>
            stepState'[x] = "queued" /\ x \in ToSet(queue'[stepTurn[x]])

LEMMA StaysHolds ==
  ASSUME RequestTypes, RequestTypes', NEW x \in Req, RequestHolds(x), Stays(x)
  PROVE  RequestHolds(x)'
<1>1. receipt[x] \in {"none", "waiting", "assigned", "rejected"}
  BY DEF RequestTypes
<1>2. CASE receipt[x] = "none"
  BY <1>2 DEF RequestHolds, Stays, Unassigned
<1>3. CASE receipt[x] = "waiting"
  BY <1>3 DEF RequestHolds, Stays, Unassigned
<1>4. CASE receipt[x] = "assigned"
  BY <1>4 DEF RequestHolds, Stays
<1>5. CASE receipt[x] = "rejected"
  BY <1>5 DEF RequestHolds, Stays, Unassigned, Elsewhere
<1> QED
  BY <1>1, <1>2, <1>3, <1>4, <1>5

\* A step that gives the unassigned x a step in turn t.
Joins(x, t) ==
  /\ receipt[x] \in {"none", "waiting"}
  /\ receipt'[x] = "assigned" /\ stepTurn'[x] = t /\ stepState'[x] = "queued"
  /\ reqState'[x] = "pending"
  /\ turnState'[t] \in Turns!Live
  /\ x \in ToSet(queue'[t]) /\ \A u \in Req : u # t => queue'[u] = queue[u]
  /\ Elsewhere(x)'

LEMMA JoinsHolds ==
  ASSUME NEW x \in Req, NEW t \in Req, RequestHolds(x), Joins(x, t)
  PROVE  RequestHolds(x)'
  BY DEF RequestHolds, Joins, Unassigned

\* A step that takes in x, which has no turn, or refuses it.
Enters(x) ==
  /\ receipt[x] \in {"none", "waiting"}
  /\ UNCHANGED <<stepTurn, stepState, queue>>
  /\ \/ receipt'[x] = "waiting" /\ reqState'[x] = "pending" /\ ~Elsewhere(x)'
     \/ receipt'[x] = "rejected" /\ reqState'[x] \in {"pending", "aborted"} /\ Elsewhere(x)'

LEMMA EntersHolds ==
  ASSUME NEW x \in Req, RequestHolds(x), Enters(x)
  PROVE  RequestHolds(x)'
  BY DEF RequestHolds, Enters, Unassigned, Elsewhere

\* Nothing happens to the request, and no turn ends.
LEMMA SameStays ==
  ASSUME RequestTypes, NEW x \in Req, RequestHolds(x), LivesOn,
         UNCHANGED <<stepTurn, queue, standalone, held, draining>>,
         reqState'[x] = reqState[x], receipt'[x] = receipt[x], stepState'[x] = stepState[x]
  PROVE  Stays(x)
  BY DEF Stays, RequestHolds, Elsewhere, LivesOn, RequestTypes

\* A step of the active run, as far as the requests are concerned.
LEMMA RunStepHolds ==
  ASSUME RunHolds, RequestsHold, RequestTypes', TurnsStay,
         UNCHANGED <<drainVars, standalone, receipt, stepTurn>>,
         \A x \in Req : Stays(x),
         \A x \in Req : reqState[x] = "materialized" => reqState'[x] = reqState[x],
         \/ current' \in {current, NoReq}
         \/ stepTurn[current'] = active /\ reqState'[current'] = "materialized"
            /\ receipt[current'] = "assigned" /\ current' \in Req
  PROVE  RequestsHold'
<1>1. \A x \in Req : RequestHolds(x)'
  BY StaysHolds DEF RequestsHold
<1>2. Apart'
  BY DEF RequestsHold, Apart, drainVars
<1>3. DriverHolds'
  <2>1. current \in Req \union {NoReq} /\ active' = active
    BY DEF RunHolds, TurnsStay, turnVars
  <2>2. CASE current' \in {current, NoReq}
    BY <2>1, <2>2 DEF RequestsHold, DriverHolds
  <2>3. CASE stepTurn[current'] = active /\ reqState'[current'] = "materialized"
             /\ receipt[current'] = "assigned" /\ current' \in Req
    BY <2>1, <2>3 DEF DriverHolds
  <2> QED
    BY <2>2, <2>3
<1>4. NothingToSweep'
  <2>1. ToSet(standalone) \subseteq Req
    BY DEF RequestsHold, RequestTypes, ToSet
  <2>2. \A x \in Req : reqState[x] = "aborted" => reqState'[x] = "aborted"
    BY DEF Stays
  <2> QED
    BY <2>1, <2>2 DEF RequestsHold, NothingToSweep, TurnsStay, turnVars
<1>5. NobodyWaits'
  BY DEF RequestsHold, NobodyWaits, TurnsStay, turnVars
<1> QED
  BY <1>1, <1>2, <1>3, <1>4, <1>5 DEF RequestsHold
----------------------------------------------------------------------------
(* The requests and the runner *)

LEMMA ActiveRuns ==
  ASSUME TurnsHold, RunHolds, phase # "idle"
  PROVE  active \in Req /\ turnState[active] \in Turns!Live
  BY TurnTypes DEF TurnsHold, RunHolds, Turns!Live

\* The driver of the step is a request of the active turn.
LEMMA DriverIsAssigned ==
  ASSUME RunHolds, RequestsHold, phase \in {"complete"} \union Working \union Recovering
  PROVE  /\ current \in Req /\ stepTurn[current] = active
         /\ reqState[current] = "materialized" /\ receipt[current] = "assigned"
  BY DEF RunHolds, RequestsHold, DriverHolds

LEMMA QuietRun ==
  ASSUME RunHolds, RequestsHold, TurnsStay, UNCHANGED <<reqVars, queueVars, drainVars>>,
         current' \in {current, NoReq}
  PROVE  RequestsHold'
<1>1. RequestTypes'
  BY DEF RequestsHold, RequestTypes, reqVars, queueVars, drainVars
<1>2. LivesOn
  BY DEF LivesOn, TurnsStay, turnVars
<1>3. \A x \in Req : Stays(x)
  BY <1>2, SameStays DEF RequestsHold, reqVars, queueVars, drainVars
<1> QED
  BY <1>1, <1>3, RunStepHolds DEF reqVars, queueVars

\* What endRun leaves in the queue of the active turn, and what it aborts.
LEMMA EndRunMoves ==
  ASSUME RequestTypes, active \in Req, NEW outcome, endRun(outcome)
  PROVE  /\ queue' \in [Req -> Seq(Req)]
         /\ reqState' \in [Req -> {"new", "pending", "materialized", "aborted"}]
         /\ \A t \in Req : t # active => queue'[t] = queue[t]
         /\ \A x \in ToSet(queue'[active]) : x \in ToSet(queue[active])
         /\ \A x \in Req : x \in ToSet(queue[active]) /\ reqState[x] # "aborted" /\ ~TurnScoped(x)
                            => x \in ToSet(queue'[active])
         /\ \A x \in Req : reqState'[x] = IF /\ x \in ToSet(queue[active]) /\ TurnScoped(x)
                                             /\ reqState[x] = "pending"
                                            THEN "aborted" ELSE reqState[x]
<1> DEFINE keep == {r \in Req : reqState[r] # "aborted" /\ (TurnScoped(r) => reqState[r] = "materialized")}
           q == queue[active]
<1>1. q \in Seq(Req)
  BY DEF RequestTypes
<1>2. SelectIn(q, keep) \in Seq(Req) /\ ToSet(SelectIn(q, keep)) = ToSet(q) \intersect keep
  <2> HIDE DEF q, keep
  <2> QED
    BY <1>1, SelectSet
<1>3. queue' = [queue EXCEPT ![active] = SelectIn(q, keep)]
  BY DEF endRun
<1>4. queue' \in [Req -> Seq(Req)] /\ queue'[active] = SelectIn(q, keep)
      /\ \A t \in Req : t # active => queue'[t] = queue[t]
  <2> HIDE DEF q, keep
  <2> QED
    BY <1>2, <1>3 DEF RequestTypes
<1>5. \A x \in Req : reqState'[x] = IF /\ x \in ToSet(queue[active]) /\ TurnScoped(x)
                                       /\ reqState[x] = "pending"
                                      THEN "aborted" ELSE reqState[x]
  BY DEF endRun, abortPending
<1>6. reqState' \in [Req -> {"new", "pending", "materialized", "aborted"}]
  BY DEF endRun, abortPending, RequestTypes
<1>7. ToSet(queue'[active]) = ToSet(q) \intersect keep
  BY <1>2, <1>4
<1>8. \A x \in Req : x \in keep <=> reqState[x] # "aborted" /\ (TurnScoped(x) => reqState[x] = "materialized")
  OBVIOUS
<1>9. \A x \in ToSet(queue'[active]) : x \in ToSet(queue[active])
  BY <1>7
<1> HIDE DEF keep
<1>10. \A x \in Req : x \in ToSet(queue[active]) /\ reqState[x] # "aborted" /\ ~TurnScoped(x)
                        => x \in ToSet(queue'[active])
  BY <1>7, <1>8
<1> QED
  BY <1>4, <1>5, <1>6, <1>9, <1>10

LEMMA EndRunHolds ==
  ASSUME TurnsHold, RunHolds, RequestsHold, phase # "idle", NEW outcome, endRun(outcome),
         \/ stepState' = stepState
         \/ phase = "complete" /\ stepState' = [stepState EXCEPT ![current] = "completed"]
  PROVE  RequestsHold'
<1>1. active \in Req
  BY ActiveRuns
<1>2. RequestTypes
  BY DEF RequestsHold
<1>3. UNCHANGED <<standalone, receipt, stepTurn, held, draining>> /\ TurnsStay /\ current' = NoReq
      /\ UNCHANGED drainVars
  BY DEF endRun, TurnsStay, drainVars
<1>4. \A x \in Req : \/ stepState'[x] = stepState[x]
                     \/ /\ stepState'[x] = "completed" /\ receipt[x] = "assigned"
                        /\ reqState[x] = "materialized"
  BY <1>2, DriverIsAssigned DEF RequestTypes
<1>5. stepState' \in [Req -> {"none", "queued", "running", "completed", "cancelled"}]
  BY <1>2 DEF RequestTypes
<1>6. RequestTypes'
  BY <1>1, <1>2, <1>3, <1>5, EndRunMoves DEF RequestTypes
<1>7. ASSUME NEW x \in Req PROVE Stays(x)
  <2>1. RequestHolds(x)
    BY DEF RequestsHold
  <2>2. \A t \in Req : x \in ToSet(queue'[t]) => x \in ToSet(queue[t])
    BY <1>1, <1>2, EndRunMoves
  <2>3. reqState'[x] = reqState[x]
        \/ (reqState[x] = "pending" /\ reqState'[x] = "aborted" /\ x \in ToSet(queue[active]))
    BY <1>1, <1>2, EndRunMoves
  <2>4. reqState'[x] = "pending" => /\ reqState[x] = "pending"
                                    /\ \A t \in Req : x \in ToSet(queue[t]) => x \in ToSet(queue'[t])
    BY <1>1, <1>2, EndRunMoves
  <2>5. turnState' = turnState
    BY <1>3 DEF TurnsStay, turnVars
  <2>6. receipt[x] = "waiting" => \A t \in Req : x \notin ToSet(queue[t])
    BY <2>1 DEF RequestHolds, Unassigned
  <2> QED
    BY <1>1, <1>3, <1>4, <2>1, <2>2, <2>3, <2>4, <2>5, <2>6 DEF Stays, RequestHolds, Elsewhere
<1>8. \A x \in Req : reqState[x] = "materialized" => reqState'[x] = reqState[x]
  BY <1>1, <1>2, EndRunMoves
<1> QED
  BY <1>3, <1>6, <1>7, <1>8, RunStepHolds
\* What BeginStep takes from the queue of the active turn, and what stays there.
LEMMA BeginStepMoves ==
  ASSUME RequestTypes, active \in Req, BeginStep
  PROVE  /\ current' \in ToSet(queue[active]) /\ current' \in Req /\ reqState[current'] # "aborted"
         /\ queue' \in [Req -> Seq(Req)]
         /\ \A t \in Req : t # active => queue'[t] = queue[t]
         /\ ToSet(queue'[active]) \subseteq {x \in ToSet(queue[active]) :
                                             x # current' /\ reqState[x] # "aborted" /\ ~Mergeable(x)}
         /\ \A x \in Req : reqState'[x] = reqState[x]
                           \/ (/\ reqState'[x] = "materialized"
                               /\ x \in ToSet(queue[active]) /\ reqState[x] # "aborted")
         /\ reqState'[current'] = "materialized"
         /\ reqState' \in [Req -> {"new", "pending", "materialized", "aborted"}]
         /\ \A x \in ToSet(queue[active]) : reqState'[x] = "pending" => x \in ToSet(queue'[active])
<1> DEFINE q == NotAborted(queue[active])
           driver == NextDriver(q)
           batch == {driver} \union Merged(q)
<1>1. q \in Seq(Req) /\ q # << >> /\ ToSet(q) = {r \in ToSet(queue[active]) : reqState[r] # "aborted"}
  BY NotAbortedSet DEF BeginStep, RequestTypes
<1>2. ToSet(queue[active]) \subseteq Req
  BY DEF RequestTypes, ToSet
<1>3. /\ current' = driver
      /\ queue' = [queue EXCEPT ![active] = Rest(q)]
      /\ reqState' = [r \in Req |-> IF r \in batch THEN "materialized" ELSE reqState[r]]
  BY DEF BeginStep
<1> HIDE DEF q
<1>4. /\ driver \in ToSet(q) /\ Rest(q) \in Seq(Req)
      /\ ToSet(Rest(q)) = {r \in ToSet(q) : r # driver /\ ~Mergeable(r)}
  BY <1>1, DriverIsQueued
<1>5. \A x : x \in batch <=> x = driver \/ (x \in ToSet(q) /\ Mergeable(x))
  BY DEF Merged
<1> HIDE DEF driver, batch
<1>6. queue' \in [Req -> Seq(Req)] /\ queue'[active] = Rest(q)
      /\ \A t \in Req : t # active => queue'[t] = queue[t]
  BY <1>3, <1>4 DEF RequestTypes
<1>7. \A x \in Req : reqState'[x] = IF x \in batch THEN "materialized" ELSE reqState[x]
  BY <1>3
<1>8. reqState' \in [Req -> {"new", "pending", "materialized", "aborted"}]
  BY <1>3 DEF RequestTypes
<1>9. \A x \in ToSet(queue[active]) : reqState'[x] = "pending" => x \in ToSet(queue'[active])
  BY <1>1, <1>2, <1>4, <1>5, <1>6, <1>7
<1>10. \A x \in Req : reqState'[x] = reqState[x]
                      \/ (/\ reqState'[x] = "materialized"
                          /\ x \in ToSet(queue[active]) /\ reqState[x] # "aborted")
  BY <1>1, <1>4, <1>5, <1>7
<1>11. /\ current' \in ToSet(queue[active]) /\ current' \in Req /\ reqState[current'] # "aborted"
       /\ reqState'[current'] = "materialized"
  BY <1>1, <1>2, <1>3, <1>4, <1>5, <1>7
<1>12. ToSet(queue'[active]) \subseteq {x \in ToSet(queue[active]) :
                                        x # current' /\ reqState[x] # "aborted" /\ ~Mergeable(x)}
  BY <1>1, <1>3, <1>4, <1>6
<1> QED
  BY <1>6, <1>8, <1>9, <1>10, <1>11, <1>12

\* Who is in the queue of a turn has been assigned to it.
LEMMA QueuedIsAssigned ==
  ASSUME RequestsHold, NEW t \in Req, NEW x \in ToSet(queue[t])
  PROVE  x \in Req /\ receipt[x] = "assigned" /\ stepTurn[x] = t
<1>1. x \in Req
  BY DEF RequestsHold, RequestTypes, ToSet
<1>2. RequestHolds(x) /\ receipt[x] \in {"none", "waiting", "assigned", "rejected"}
  BY <1>1 DEF RequestsHold, RequestTypes
<1> QED
  BY <1>1, <1>2 DEF RequestHolds, Unassigned

LEMMA BeginStepHolds ==
  ASSUME TurnsHold, RunHolds, RequestsHold, BeginStep
  PROVE  RequestsHold'
<1>1. active \in Req /\ turnState[active] \in Turns!Live
  BY ActiveRuns DEF BeginStep
<1>2. RequestTypes
  BY DEF RequestsHold
<1>3. UNCHANGED <<standalone, receipt, stepTurn, held, draining>> /\ TurnsStay
      /\ UNCHANGED drainVars /\ stepState' = [stepState EXCEPT ![current'] = "running"]
  BY DEF BeginStep, TurnsStay, drainVars
<1>4. current' \in Req /\ receipt[current'] = "assigned" /\ stepTurn[current'] = active
      /\ reqState'[current'] = "materialized" /\ reqState[current'] # "aborted"
  BY <1>1, <1>2, BeginStepMoves, QueuedIsAssigned
<1>5. stepState' \in [Req -> {"none", "queued", "running", "completed", "cancelled"}]
  BY <1>2, <1>3, <1>4 DEF RequestTypes
<1>6. RequestTypes'
  BY <1>1, <1>2, <1>3, <1>5, BeginStepMoves DEF RequestTypes
<1>7. ASSUME NEW x \in Req PROVE Stays(x)
  <2>1. RequestHolds(x)
    BY DEF RequestsHold
  <2>2. \A t \in Req : x \in ToSet(queue'[t]) => x \in ToSet(queue[t])
    BY <1>1, <1>2, BeginStepMoves
  <2>3. reqState'[x] = reqState[x]
        \/ (/\ reqState'[x] = "materialized" /\ receipt[x] = "assigned"
            /\ reqState[x] # "aborted")
    BY <1>1, <1>2, BeginStepMoves, QueuedIsAssigned
  <2>4. reqState'[x] = "pending" => /\ reqState[x] = "pending" /\ x # current'
                                    /\ \A t \in Req : x \in ToSet(queue[t]) => x \in ToSet(queue'[t])
    BY <1>1, <1>2, <1>4, BeginStepMoves, <2>3
  <2>5. turnState' = turnState
    BY <1>3 DEF TurnsStay, turnVars
  <2>6. stepState'[x] = IF x = current' THEN "running" ELSE stepState[x]
    BY <1>2, <1>3 DEF RequestTypes
  <2>7. receipt[x] = "waiting" => \A t \in Req : x \notin ToSet(queue[t])
    BY <2>1 DEF RequestHolds, Unassigned
  <2>8. receipt[x] = "assigned" => receipt[x] # "none" /\ reqState[x] # "new"
    BY <2>1 DEF RequestHolds
  <2>9. Elsewhere(x)' <=> Elsewhere(x)
    BY <1>3 DEF Elsewhere
  <2> QED
    BY <1>1, <1>3, <1>4, <2>1, <2>2, <2>3, <2>4, <2>5, <2>6, <2>7, <2>8, <2>9 DEF Stays, RequestHolds
<1>8. \A x \in Req : reqState[x] = "materialized" => reqState'[x] = reqState[x]
  BY <1>1, <1>2, BeginStepMoves
<1> QED
  BY <1>3, <1>4, <1>6, <1>7, <1>8, RunStepHolds

LEMMA PrependSet ==
  ASSUME NEW q \in Seq(Req), NEW x \in Req
  PROVE  <<x>> \o q \in Seq(Req) /\ ToSet(<<x>> \o q) = {x} \union ToSet(q)
<1> DEFINE one == <<x>>
<1>1. one \in Seq(Req) /\ ToSet(one) = {x}
  BY DEF ToSet
<1> HIDE DEF one
<1>2. one \o q \in Seq(Req) /\ ToSet(one \o q) = {x} \union ToSet(q)
  BY <1>1, ConcatSet
<1> QED
  BY <1>2 DEF one

\* The current step ends, or is queued again at the head of the turn's queue.
LEMMA CurrentMoves ==
  ASSUME TurnsHold, RunHolds, RequestsHold, phase \in {"complete"} \union Recovering,
         TurnsStay, UNCHANGED <<drainVars, standalone, receipt, stepTurn, reqState>>,
         current' = NoReq,
         \/ stepState' = [stepState EXCEPT ![current] = "completed"] /\ queue' = queue
         \/ /\ stepState' = [stepState EXCEPT ![current] = "queued"]
            /\ queue' = [queue EXCEPT ![active] = <<current>> \o @]
  PROVE  RequestsHold'
<1>1. active \in Req /\ turnState[active] \in Turns!Live
  BY ActiveRuns DEF RunHolds, Recovering
<1>2. RequestTypes
  BY DEF RequestsHold
<1>3. current \in Req /\ receipt[current] = "assigned" /\ stepTurn[current] = active
      /\ reqState[current] = "materialized"
  BY DriverIsAssigned
<1>4. <<current>> \o queue[active] \in Seq(Req)
      /\ ToSet(<<current>> \o queue[active]) = {current} \union ToSet(queue[active])
  BY <1>1, <1>2, <1>3, PrependSet DEF RequestTypes
<1> DEFINE longer == <<current>> \o queue[active]
<1>5. queue' = queue \/ queue' = [queue EXCEPT ![active] = longer]
  OBVIOUS
<1> HIDE DEF longer
<1>6. /\ queue' \in [Req -> Seq(Req)]
      /\ \A t \in Req : ToSet(queue[t]) \subseteq ToSet(queue'[t])
      /\ \A t \in Req : \A x \in ToSet(queue'[t]) : x \in ToSet(queue[t]) \/ (x = current /\ t = active)
  <2>1. longer \in Seq(Req) /\ ToSet(longer) = {current} \union ToSet(queue[active])
    BY <1>4 DEF longer
  <2>2. queue \in [Req -> Seq(Req)] /\ active \in Req
    BY <1>1, <1>2, <1>3 DEF RequestTypes
  <2>3. CASE queue' = queue
    BY <2>2, <2>3
  <2>4. CASE queue' = [queue EXCEPT ![active] = longer]
    <3>1. queue' \in [Req -> Seq(Req)]
      BY <2>1, <2>2, <2>4
    <3>2. \A t \in Req : queue'[t] = IF t = active THEN longer ELSE queue[t]
      BY <2>2, <2>4
    <3> QED
      BY <2>1, <3>1, <3>2
  <2> QED
    BY <1>5, <2>3, <2>4
<1>7. stepState' \in [Req -> {"none", "queued", "running", "completed", "cancelled"}]
      /\ \A x \in Req : stepState'[x] = stepState[x]
                        \/ (x = current /\ stepState'[x] \in {"completed", "queued"})
  BY <1>2, <1>3 DEF RequestTypes
<1>8. RequestTypes'
  BY <1>2, <1>6, <1>7 DEF RequestTypes, drainVars
<1>9. ASSUME NEW x \in Req PROVE Stays(x)
  <2>1. RequestHolds(x)
    BY DEF RequestsHold
  <2>2. turnState' = turnState /\ (Elsewhere(x)' <=> Elsewhere(x)) /\ held' = held
    BY DEF TurnsStay, turnVars, Elsewhere, drainVars
  <2> QED
    BY <1>1, <1>3, <1>6, <1>7, <2>1, <2>2 DEF Stays, RequestHolds
<1> QED
  BY <1>8, <1>9, RunStepHolds
----------------------------------------------------------------------------
(* The requests and their admission *)

\* What is left to show of a step that takes in, assigns or settles requests.
LEMMA RequestsGoOn ==
  ASSUME RunHolds, RequestsHold, RequestTypes', Apart', NothingToSweep', NobodyWaits',
         \A x \in Req : Stays(x) \/ Enters(x) \/ \E t \in Req : Joins(x, t),
         \A x \in Req : receipt[x] = "assigned" /\ reqState[x] = "materialized"
                          => reqState'[x] = "materialized",
         current' = NoReq \/ (current' = current /\ active' = active)
  PROVE  RequestsHold'
<1>1. \A x \in Req : RequestHolds(x)'
  BY StaysHolds, EntersHolds, JoinsHolds DEF RequestsHold
<1>2. DriverHolds'
  <2>1. CASE current' = current /\ active' = active /\ current # NoReq
    <3>1. /\ current \in Req /\ stepTurn[current] = active /\ receipt[current] = "assigned"
          /\ reqState[current] = "materialized"
      BY <2>1 DEF RunHolds, RequestsHold, DriverHolds
    <3>2. Stays(current)
      BY <3>1 DEF Enters, Joins
    <3>3. stepTurn'[current] = active /\ receipt'[current] = "assigned"
      BY <3>1, <3>2 DEF Stays
    <3> QED
      BY <2>1, <3>1, <3>3 DEF DriverHolds
  <2> QED
    BY <2>1 DEF DriverHolds
<1> QED
  BY <1>1, <1>2 DEF RequestsHold

\* r is admitted now: out of the loop of releaseQuiescence, or just enqueued.
Admitting(r) ==
  /\ leases = 0 /\ ~disposing
  /\ receipt[r] \in {"none", "waiting"}
  /\ r \notin ToSet(held) /\ r \notin ToSet(standalone)
  /\ reqState' = [reqState EXCEPT ![r] = "pending"]
  /\ held' = held
  /\ draining' \in Seq(Req) /\ IsInjective(draining') /\ ToSet(draining') = ToSet(draining) \ {r}

LEMMA AdmittingTypes ==
  ASSUME RequestTypes, NEW r \in Req, Admitting(r)
  PROVE  /\ reqState' \in [Req -> {"new", "pending", "materialized", "aborted"}]
         /\ reqState'[r] = "pending" /\ \A x \in Req : x # r => reqState'[x] = reqState[x]
  BY DEF RequestTypes, Admitting

\* Who gets a step, and who does not.
LEMMA AssignMoves ==
  ASSUME RequestTypes, NEW t \in Req, NEW rs, rs \subseteq Req, assignSteps(t, rs)
  PROVE  /\ stepTurn' \in [Req -> Req \union {NoReq}]
         /\ receipt' \in [Req -> {"none", "waiting", "assigned", "rejected"}]
         /\ stepState' \in [Req -> {"none", "queued", "running", "completed", "cancelled"}]
         /\ \A x \in rs : stepTurn'[x] = t /\ stepState'[x] = "queued" /\ receipt'[x] = "assigned"
         /\ \A x \in Req \ rs : /\ stepTurn'[x] = stepTurn[x] /\ stepState'[x] = stepState[x]
                                /\ receipt'[x] = receipt[x]
  BY DEF RequestTypes, assignSteps

LEMMA JoinHolds ==
  ASSUME TurnsHold, RunHolds, RequestsHold, NEW r \in Req, Admitting(r), active \in Req,
         joinActiveTurn(r), current' = current
  PROVE  RequestsHold'
<1>1. RequestTypes /\ RequestHolds(r)
  BY DEF RequestsHold
<1>2. turnState[active] \in Turns!Live /\ active' = active /\ turnState' = turnState
      /\ leases' = leases /\ disposing' = disposing /\ standalone' = standalone
  BY RequestAssumption DEF TurnsHold, Turns!Live, joinActiveTurn, turnVars
<1>3. /\ queue' \in [Req -> Seq(Req)] /\ \A t \in Req : t # active => queue'[t] = queue[t]
      /\ ToSet(queue'[active]) = ToSet(queue[active]) \union {r}
  <2> DEFINE q == Append(queue[active], r)
  <2>1. q \in Seq(Req) /\ ToSet(q) = ToSet(queue[active]) \union {r}
    BY <1>1, AppendSet DEF RequestTypes
  <2>2. queue' = [queue EXCEPT ![active] = q]
    BY DEF joinActiveTurn
  <2> HIDE DEF q
  <2> QED
    BY <1>1, <2>1, <2>2 DEF RequestTypes
<1>4. /\ stepTurn' \in [Req -> Req \union {NoReq}]
      /\ receipt' \in [Req -> {"none", "waiting", "assigned", "rejected"}]
      /\ stepState' \in [Req -> {"none", "queued", "running", "completed", "cancelled"}]
      /\ stepTurn'[r] = active /\ stepState'[r] = "queued" /\ receipt'[r] = "assigned"
      /\ \A x \in Req : x # r => /\ stepTurn'[x] = stepTurn[x] /\ stepState'[x] = stepState[x]
                                 /\ receipt'[x] = receipt[x]
  <2>1. assignSteps(active, {r})
    BY DEF joinActiveTurn
  <2> QED
    BY <1>1, <2>1, AssignMoves
<1>5. /\ reqState' \in [Req -> {"new", "pending", "materialized", "aborted"}]
      /\ reqState'[r] = "pending" /\ \A x \in Req : x # r => reqState'[x] = reqState[x]
  BY <1>1, AdmittingTypes
<1>6. RequestTypes'
  BY <1>1, <1>2, <1>3, <1>4, <1>5 DEF RequestTypes, Admitting
<1>7. Apart'
  BY <1>2 DEF RequestsHold, Apart, Admitting
<1>8. Joins(r, active)
  BY <1>2, <1>3, <1>4, <1>5 DEF Joins, Admitting, Elsewhere
<1>9. ASSUME NEW x \in Req, x # r PROVE Stays(x)
  <2>1. RequestHolds(x)
    BY DEF RequestsHold
  <2>2. Elsewhere(x)' <=> Elsewhere(x)
    BY <1>2, <1>9 DEF Elsewhere, Admitting
  <2>3. \A t \in Req : x \in ToSet(queue'[t]) <=> x \in ToSet(queue[t])
    BY <1>3, <1>9
  <2> QED
    BY <1>1, <1>2, <1>4, <1>5, <1>9, <2>1, <2>2, <2>3 DEF Stays, RequestHolds, Admitting, RequestTypes
<1>10. \A x \in Req : receipt[x] = "assigned" => reqState'[x] = reqState[x]
  BY <1>5 DEF Admitting
<1> QED
  BY <1>2, <1>6, <1>7, <1>8, <1>9, <1>10, RequestsGoOn DEF Admitting, NothingToSweep, NobodyWaits

LEMMA WaitHolds ==
  ASSUME RunHolds, RequestsHold, NEW r \in Req, Admitting(r), waitForNextTurn(r)
  PROVE  RequestsHold'
<1>1. RequestTypes /\ RequestHolds(r)
  BY DEF RequestsHold
<1>2. UNCHANGED <<active, turnState, leases, disposing, queue, stepTurn, stepState, current>>
  BY DEF waitForNextTurn, turnVars, runVars
<1>3. standalone' \in Seq(Req) /\ ToSet(standalone') = ToSet(standalone) \union {r}
  BY <1>1, AppendSet DEF RequestTypes, waitForNextTurn
<1>4. /\ receipt' \in [Req -> {"none", "waiting", "assigned", "rejected"}]
      /\ receipt'[r] = "waiting" /\ \A x \in Req : x # r => receipt'[x] = receipt[x]
  BY <1>1 DEF RequestTypes, waitForNextTurn
<1>5. /\ reqState' \in [Req -> {"new", "pending", "materialized", "aborted"}]
      /\ reqState'[r] = "pending" /\ \A x \in Req : x # r => reqState'[x] = reqState[x]
  BY <1>1, AdmittingTypes
<1>6. RequestTypes'
  BY <1>1, <1>2, <1>3, <1>4, <1>5 DEF RequestTypes, Admitting
<1>7. Apart'
  BY <1>3 DEF RequestsHold, Apart, Admitting
<1>8. Enters(r)
  BY <1>2, <1>3, <1>4, <1>5 DEF Enters, Admitting, Elsewhere
<1>9. ASSUME NEW x \in Req, x # r PROVE Stays(x)
  <2>1. RequestHolds(x)
    BY DEF RequestsHold
  <2>2. Elsewhere(x)' <=> Elsewhere(x)
    BY <1>3, <1>9 DEF Elsewhere, Admitting
  <2> QED
    BY <1>1, <1>2, <1>4, <1>5, <1>9, <2>1, <2>2 DEF Stays, RequestHolds, Admitting, RequestTypes
<1>10. \A x \in Req : receipt[x] = "assigned" => reqState'[x] = reqState[x]
  BY <1>5 DEF Admitting
<1> QED
  BY <1>2, <1>6, <1>7, <1>8, <1>9, <1>10, RequestsGoOn DEF Admitting, NothingToSweep, NobodyWaits

LEMMA CreateHolds ==
  ASSUME TurnsHold, RunHolds, RequestsHold, NEW r \in Req, Admitting(r), createAndQueueTurn(r)
  PROVE  RequestsHold'
<1> DEFINE moved == NotAborted(standalone)
           rs == {r} \union ToSet(moved)
<1>1. RequestTypes /\ RequestHolds(r)
  BY DEF RequestsHold
<1>2. moved \in Seq(Req) /\ ToSet(moved) = {x \in ToSet(standalone) : reqState[x] # "aborted"}
      /\ ToSet(standalone) \subseteq Req
  <2>1. standalone \in Seq(Req)
    BY <1>1 DEF RequestTypes
  <2>2. ToSet(standalone) \subseteq Req
    BY <2>1 DEF ToSet
  <2> QED
    BY <2>1, <2>2, NotAbortedSet
<1> HIDE DEF moved
<1>3. /\ turnState[r] = "none" /\ turnState'[r] \in Turns!Live /\ LivesOn
      /\ leases' = leases /\ disposing' = disposing
  BY CreateMoves DEF createAndQueueTurn
<1>4. current' = NoReq \/ (current' = current /\ active' = active)
  BY DEF createAndQueueTurn, runTurn, runVars
<1>5. /\ queue' \in [Req -> Seq(Req)] /\ \A t \in Req : t # r => queue'[t] = queue[t]
      /\ ToSet(queue'[r]) = rs
  <2> DEFINE q == <<r>> \o moved
  <2>1. q \in Seq(Req) /\ ToSet(q) = rs
    BY <1>2, PrependSet
  <2>2. queue' = [queue EXCEPT ![r] = q]
    BY DEF createAndQueueTurn, moveStandaloneSteps, moved
  <2> HIDE DEF q, rs
  <2> QED
    BY <1>1, <2>1, <2>2 DEF RequestTypes
<1>6. rs \subseteq Req
  BY <1>2
<1>7. /\ stepTurn' \in [Req -> Req \union {NoReq}]
      /\ receipt' \in [Req -> {"none", "waiting", "assigned", "rejected"}]
      /\ stepState' \in [Req -> {"none", "queued", "running", "completed", "cancelled"}]
      /\ \A x \in rs : stepTurn'[x] = r /\ stepState'[x] = "queued" /\ receipt'[x] = "assigned"
      /\ \A x \in Req \ rs : /\ stepTurn'[x] = stepTurn[x] /\ stepState'[x] = stepState[x]
                             /\ receipt'[x] = receipt[x]
  <2>1. assignSteps(r, rs)
    BY DEF createAndQueueTurn, moveStandaloneSteps, moved
  <2> HIDE DEF rs
  <2> QED
    BY <1>1, <1>6, <2>1, AssignMoves
<1>8. \A x \in Req : x \in rs <=> x = r \/ (x \in ToSet(standalone) /\ reqState[x] # "aborted")
  BY <1>2
<1> HIDE DEF rs
<1>9. standalone' = << >> /\ ToSet(standalone') = {}
  BY EmptySet DEF createAndQueueTurn
<1>10. /\ reqState' \in [Req -> {"new", "pending", "materialized", "aborted"}]
       /\ reqState'[r] = "pending" /\ \A x \in Req : x # r => reqState'[x] = reqState[x]
  BY <1>1, AdmittingTypes
<1>11. RequestTypes'
  BY <1>1, <1>5, <1>7, <1>9, <1>10 DEF RequestTypes, Admitting
<1>12. Apart'
  BY <1>9 DEF RequestsHold, Apart, Admitting
<1>13. ASSUME NEW x \in rs PROVE Joins(x, r)
  <2>1. x \in Req /\ RequestHolds(x) /\ receipt[x] \in {"none", "waiting", "assigned", "rejected"}
    BY <1>1, <1>6 DEF RequestsHold, RequestTypes
  <2>2. receipt[x] \in {"none", "waiting"} /\ reqState'[x] = "pending"
    <3>1. CASE x = r
      BY <1>10, <3>1 DEF Admitting
    <3>2. CASE x # r
      BY <1>8, <1>10, <2>1, <3>2 DEF RequestHolds, Elsewhere
    <3> QED
      BY <3>1, <3>2
  <2>3. Elsewhere(x)'
    BY <1>8, <1>9, <2>1 DEF Elsewhere, Admitting, RequestsHold, Apart
  <2> QED
    BY <1>3, <1>5, <1>7, <2>1, <2>2, <2>3 DEF Joins
<1>14. ASSUME NEW x \in Req, x \notin rs PROVE Stays(x)
  <2>1. RequestHolds(x) /\ receipt[x] \in {"none", "waiting", "assigned", "rejected"}
    BY <1>1 DEF RequestsHold, RequestTypes
  <2>2. x # r /\ (x \in ToSet(standalone) => reqState[x] = "aborted")
    BY <1>8, <1>14
  <2>3. Elsewhere(x) => Elsewhere(x)'
    BY <1>9, <2>2 DEF Elsewhere, Admitting
  <2>4. receipt[x] = "waiting" => ~Elsewhere(x)'
    BY <1>9, <2>1, <2>2 DEF Elsewhere, Admitting, RequestHolds
  <2>5. \A t \in Req : x \in ToSet(queue'[t]) => x \in ToSet(queue[t])
    BY <1>5, <1>14
  <2>6. receipt[x] = "assigned" /\ stepState[x] \in {"queued", "running"} => stepTurn[x] # r
    BY <1>3, <2>1 DEF RequestHolds, Turns!Live
  <2>7. /\ stepTurn'[x] = stepTurn[x] /\ stepState'[x] = stepState[x]
        /\ receipt'[x] = receipt[x] /\ reqState'[x] = reqState[x] /\ held' = held
    BY <1>7, <1>10, <1>14, <2>2 DEF Admitting
  <2> QED
    BY <1>3, <1>5, <2>1, <2>3, <2>4, <2>5, <2>6, <2>7 DEF Stays, RequestHolds, LivesOn
<1>15. \A x \in Req : receipt[x] = "assigned" => reqState'[x] = reqState[x]
  BY <1>10 DEF Admitting
<1>16. \A x \in Req : Stays(x) \/ Enters(x) \/ \E t \in Req : Joins(x, t)
  BY <1>13, <1>14
<1> QED
  BY <1>3, <1>4, <1>11, <1>12, <1>15, <1>16, RequestsGoOn DEF Admitting, NothingToSweep, NobodyWaits

LEMMA AdmitHolds ==
  ASSUME TurnsHold, RunHolds, RequestsHold, NEW r \in Req, Admitting(r), admit(r)
  PROVE  RequestsHold'
<1>1. CASE createAndQueueTurn(r)
  BY <1>1, CreateHolds
<1>2. CASE joinActiveTurn(r) /\ active # NoReq /\ UNCHANGED runVars
  <2>1. active \in Req /\ current' = current
    BY <1>2, TurnTypes DEF TurnsHold, runVars
  <2> QED
    BY <1>2, <2>1, JoinHolds
<1>3. CASE waitForNextTurn(r)
  BY <1>3, WaitHolds
<1> QED
  BY <1>1, <1>2, <1>3 DEF admit
LEMMA EnqueueHolds ==
  ASSUME TurnsHold, RunHolds, RequestsHold, LInv, NEW r \in Req, Enqueue(r)
  PROVE  RequestsHold'
<1>1. /\ RequestTypes /\ Apart /\ RequestHolds(r) /\ NothingToSweep
      /\ reqState[r] = "new" /\ ~disposing /\ reqState' = [reqState EXCEPT ![r] = "pending"]
      /\ draining' = draining
  BY DEF Enqueue, RequestsHold
<1>2. receipt[r] = "none" /\ Elsewhere(r) /\ Unassigned(r)
  BY <1>1 DEF RequestHolds
<1>3. CASE ~mustHold /\ admit(r) /\ held' = held
  <2>1. leases = 0
    BY <1>3 DEF mustHold, LInv, HeldAreRequests
  <2>2. Admitting(r)
    BY <1>1, <1>2, <1>3, <2>1 DEF Admitting, RequestTypes, Apart, Elsewhere
  <2> QED
    BY <1>3, <2>2, AdmitHolds
<1>4. CASE /\ \/ held' = Append(held, r) /\ receipt' = [receipt EXCEPT ![r] = "waiting"]
              \/ held' = held /\ receipt' = [receipt EXCEPT ![r] = "rejected"]
           /\ UNCHANGED <<turnVars, queueVars, stepTurn, stepState, runVars>>
  <2>1. UNCHANGED <<active, leases, disposing, turnState, queue, standalone, current>>
    BY <1>4 DEF turnVars, queueVars, runVars
  <2>2. held' \in Seq(Req) /\ IsInjective(held')
        /\ (held' = held \/ ToSet(held') = ToSet(held) \union {r})
        /\ (receipt'[r] = "waiting" => ToSet(held') = ToSet(held) \union {r})
        /\ receipt'[r] \in {"waiting", "rejected"} /\ (receipt'[r] = "rejected" => held' = held)
    <3>1. held \in Seq(Req) /\ IsInjective(held) /\ r \notin ToSet(held)
      BY <1>1, <1>2 DEF RequestTypes, Apart, Elsewhere
    <3>2. /\ Append(held, r) \in Seq(Req) /\ IsInjective(Append(held, r))
          /\ ToSet(Append(held, r)) = ToSet(held) \union {r}
      BY <3>1, AppendSet
    <3> QED
      BY <1>1, <1>4, <3>1, <3>2 DEF RequestTypes
  <2>3. /\ receipt' \in [Req -> {"none", "waiting", "assigned", "rejected"}]
        /\ \A x \in Req : x # r => receipt'[x] = receipt[x] /\ reqState'[x] = reqState[x]
        /\ reqState' \in [Req -> {"new", "pending", "materialized", "aborted"}]
        /\ reqState'[r] = "pending"
    BY <1>1, <1>4 DEF RequestTypes
  <2>4. RequestTypes'
    BY <1>1, <1>4, <2>1, <2>2, <2>3 DEF RequestTypes
  <2>5. Apart'
    BY <1>1, <1>2, <2>1, <2>2 DEF Apart, Elsewhere
  <2>6. Enters(r)
    BY <1>1, <1>2, <1>4, <2>1, <2>2, <2>3 DEF Enters, Elsewhere
  <2>7. ASSUME NEW x \in Req, x # r PROVE Stays(x)
    <3>1. RequestHolds(x)
      BY DEF RequestsHold
    <3>2. (Elsewhere(x)' <=> Elsewhere(x)) /\ (x \in ToSet(held') <=> x \in ToSet(held))
      BY <1>1, <2>1, <2>2, <2>7 DEF Elsewhere
    <3> QED
      BY <1>1, <1>4, <2>1, <2>3, <2>7, <3>1, <3>2 DEF Stays, RequestHolds, RequestTypes
  <2>8. NothingToSweep' /\ NobodyWaits'
    <3>1. \A x \in ToSet(standalone) : x # r /\ x \in Req
      BY <1>1, <1>2 DEF Elsewhere, RequestTypes, ToSet
    <3> QED
      BY <1>1, <2>1, <2>3, <3>1 DEF NothingToSweep, NobodyWaits
  <2> QED
    BY <1>2, <2>1, <2>3, <2>4, <2>5, <2>6, <2>7, <2>8, RequestsGoOn
<1> QED
  BY <1>1, <1>3, <1>4 DEF Enqueue, requiresActiveTurn

LEMMA AbortUnassignedHolds ==
  ASSUME RunHolds, RequestsHold, NEW r \in Req, AbortUnassigned(r)
  PROVE  RequestsHold'
<1>1. /\ RequestTypes /\ Apart /\ RequestHolds(r) /\ NothingToSweep /\ NobodyWaits
      /\ reqState[r] = "pending" /\ receipt[r] = "waiting"
  BY DEF AbortUnassigned, RequestsHold
<1>2. UNCHANGED <<active, leases, disposing, turnState, queue, standalone, draining, current,
                  stepTurn, stepState>>
  BY DEF AbortUnassigned, turnVars, queueVars, runVars
<1>3. /\ reqState' \in [Req -> {"new", "pending", "materialized", "aborted"}]
      /\ receipt' \in [Req -> {"none", "waiting", "assigned", "rejected"}]
      /\ reqState'[r] = "aborted" /\ receipt'[r] = "rejected"
      /\ \A x \in Req : x # r => reqState'[x] = reqState[x] /\ receipt'[x] = receipt[x]
  BY <1>1 DEF AbortUnassigned, abortPending, reject, RequestTypes
<1>4. held' \in Seq(Req) /\ IsInjective(held') /\ ToSet(held') = ToSet(held) \ {r}
  <2>1. held \in Seq(Req) /\ IsInjective(held)
    BY <1>1 DEF RequestTypes, Apart
  <2>2. CASE \E i \in DOMAIN held : held[i] = r /\ held' = RemoveAt(held, i)
    <3>1. PICK i \in 1 .. Len(held) : held[i] = r /\ held' = RemoveAt(held, i)
      BY <2>1, <2>2
    <3>2. held' = SubSeq(held, 1, i - 1) \o SubSeq(held, i + 1, Len(held))
      BY <3>1 DEF RemoveAt
    <3> QED
      BY <2>1, <3>1, <3>2, RemoveSet
  <2>3. CASE r \notin ToSet(held) /\ held' = held
    BY <2>1, <2>3
  <2> QED
    BY <2>2, <2>3 DEF AbortUnassigned
<1>5. RequestTypes'
  BY <1>1, <1>2, <1>3, <1>4 DEF RequestTypes
<1>6. Apart'
  BY <1>1, <1>2, <1>4 DEF Apart
<1>7. ASSUME NEW x \in Req PROVE Stays(x)
  <2>1. RequestHolds(x)
    BY DEF RequestsHold
  <2>2. Elsewhere(x) => Elsewhere(x)'
    BY <1>2, <1>4 DEF Elsewhere
  <2>3. x # r => (Elsewhere(x)' => Elsewhere(x))
    BY <1>2, <1>4 DEF Elsewhere
  <2> QED
    BY <1>1, <1>2, <1>3, <1>4, <2>1, <2>2, <2>3 DEF Stays, RequestHolds
<1>8. NothingToSweep' /\ NobodyWaits'
  <2>1. ToSet(standalone) \subseteq Req
    BY <1>1 DEF RequestTypes, ToSet
  <2> QED
    BY <1>1, <1>2, <1>3, <2>1 DEF NothingToSweep, NobodyWaits
<1> QED
  BY <1>1, <1>2, <1>3, <1>5, <1>6, <1>7, <1>8, RequestsGoOn

LEMMA CancelStepHolds ==
  ASSUME RunHolds, RequestsHold, NEW r \in Req, CancelStep(r)
  PROVE  RequestsHold'
<1>1. RequestTypes /\ RequestHolds(r) /\ stepState[r] \in {"queued", "running"}
  BY DEF CancelStep, Cancellable, RequestsHold
<1>2. TurnsStay /\ UNCHANGED <<drainVars, receipt, stepTurn, queue, standalone, held, draining, current>>
  BY DEF CancelStep, TurnsStay, queueVars, drainVars, runVars
<1>3. receipt[r] = "assigned"
  BY <1>1 DEF RequestHolds, Unassigned, RequestTypes
<1>4. Cancellable({r}) = {r}
  BY <1>1 DEF Cancellable
<1>5. /\ reqState' \in [Req -> {"new", "pending", "materialized", "aborted"}]
      /\ stepState' \in [Req -> {"none", "queued", "running", "completed", "cancelled"}]
      /\ stepState'[r] = "cancelled"
      /\ reqState'[r] = IF reqState[r] = "pending" THEN "aborted" ELSE reqState[r]
      /\ \A x \in Req : x # r => reqState'[x] = reqState[x] /\ stepState'[x] = stepState[x]
  BY <1>1, <1>4 DEF CancelStep, cancelSteps, abortPending, RequestTypes
<1>6. RequestTypes'
  BY <1>1, <1>2, <1>5 DEF RequestTypes
<1>7. ASSUME NEW x \in Req PROVE Stays(x)
  <2>1. RequestHolds(x)
    BY DEF RequestsHold
  <2>2. Elsewhere(x)' <=> Elsewhere(x)
    BY <1>2 DEF Elsewhere
  <2> QED
    BY <1>2, <1>3, <1>5, <2>1, <2>2 DEF Stays, RequestHolds, TurnsStay, turnVars
<1>8. \A x \in Req : reqState[x] = "materialized" => reqState'[x] = reqState[x]
  BY <1>5
<1> QED
  BY <1>2, <1>6, <1>7, <1>8, RunStepHolds
----------------------------------------------------------------------------
(* The requests and the end of turns *)

\* The turns in T end, and so do the steps in them; x may be rejected.
LEMMA EndedStays ==
  ASSUME RequestTypes, NEW x \in Req, RequestHolds(x), NEW T,
         stepTurn' = stepTurn,
         stepState'[x] = IF stepTurn[x] \in T /\ stepState[x] \in {"queued", "running"}
                           THEN "cancelled" ELSE stepState[x],
         \A t \in Req : queue'[t] = IF t \in T THEN << >> ELSE queue[t],
         \A t \in Req \ T : turnState'[t] = turnState[t],
         Elsewhere(x) => Elsewhere(x)', x \in ToSet(held') => x \in ToSet(held),
         receipt[x] = "assigned" =>
           /\ receipt'[x] = "assigned"
           /\ reqState'[x] = IF /\ stepTurn[x] \in T /\ stepState[x] \in {"queued", "running"}
                                /\ reqState[x] = "pending"
                               THEN "aborted" ELSE reqState[x],
         receipt[x] # "assigned" =>
           \/ /\ receipt'[x] = receipt[x] /\ reqState'[x] = reqState[x]
              /\ receipt[x] = "waiting" => ~Elsewhere(x)'
           \/ /\ receipt[x] = "waiting" /\ receipt'[x] = "rejected"
              /\ reqState'[x] = "aborted" /\ x \notin ToSet(held')
  PROVE  Stays(x)
<1>1. \A t \in Req : x \in ToSet(queue'[t]) <=> x \in ToSet(queue[t]) /\ t \notin T
  BY EmptySet
<1>2. CASE receipt[x] = "assigned"
  BY <1>1, <1>2 DEF Stays, RequestHolds
<1>3. CASE receipt[x] # "assigned"
  <2>1. Unassigned(x)
    BY <1>3 DEF RequestHolds, RequestTypes
  <2>2. stepState'[x] = stepState[x]
    BY <2>1 DEF Unassigned
  <2> QED
    BY <1>1, <1>3, <2>1, <2>2 DEF Stays, RequestHolds
<1> QED
  BY <1>2, <1>3

\* What cancelSteps does, where the requests outside the turns stay as they are.
LEMMA EndTurnHolds ==
  ASSUME RunHolds, RequestsHold, NEW t \in Req,
         cancelSteps(StepsOf(t)), queue' = [queue EXCEPT ![t] = << >>],
         UNCHANGED <<receipt, stepTurn, standalone, held, draining, leases, disposing>>,
         \A u \in Req \ {t} : turnState'[u] = turnState[u],
         current' = NoReq \/ (current' = current /\ active' = active)
  PROVE  RequestsHold'
<1>1. RequestTypes /\ Apart /\ NothingToSweep /\ NobodyWaits
  BY DEF RequestsHold
<1>2. /\ reqState' \in [Req -> {"new", "pending", "materialized", "aborted"}]
      /\ stepState' \in [Req -> {"none", "queued", "running", "completed", "cancelled"}]
      /\ \A x \in Req :
           /\ stepState'[x] = IF stepTurn[x] = t /\ stepState[x] \in {"queued", "running"}
                                THEN "cancelled" ELSE stepState[x]
           /\ reqState'[x] = IF /\ stepTurn[x] = t /\ stepState[x] \in {"queued", "running"}
                                /\ reqState[x] = "pending"
                               THEN "aborted" ELSE reqState[x]
  BY <1>1 DEF cancelSteps, abortPending, Cancellable, StepsOf, RequestTypes
<1>3. queue' \in [Req -> Seq(Req)] /\ \A u \in Req : queue'[u] = IF u \in {t} THEN << >> ELSE queue[u]
  <2>1. << >> \in Seq(Req)
    OBVIOUS
  <2> QED
    BY <1>1, <2>1 DEF RequestTypes
<1>4. RequestTypes'
  BY <1>1, <1>2, <1>3 DEF RequestTypes
<1>5. Apart'
  BY <1>1 DEF Apart
<1>6. ASSUME NEW x \in Req PROVE Stays(x)
  <2>1. RequestHolds(x) /\ (Elsewhere(x)' <=> Elsewhere(x))
    BY DEF RequestsHold, Elsewhere
  <2>2. receipt[x] # "assigned" => stepTurn[x] # t /\ (receipt[x] = "waiting" => ~Elsewhere(x))
    BY <1>1, <2>1, RequestAssumption DEF RequestHolds, RequestTypes, Unassigned
  <2> DEFINE T == {t}
  <2>3. /\ stepState'[x] = IF stepTurn[x] \in T /\ stepState[x] \in {"queued", "running"}
                             THEN "cancelled" ELSE stepState[x]
        /\ \A u \in Req : queue'[u] = IF u \in T THEN << >> ELSE queue[u]
        /\ \A u \in Req \ T : turnState'[u] = turnState[u]
        /\ reqState'[x] = IF /\ stepTurn[x] \in T /\ stepState[x] \in {"queued", "running"}
                             /\ reqState[x] = "pending"
                            THEN "aborted" ELSE reqState[x]
        /\ receipt[x] # "assigned" => stepTurn[x] \notin T
    BY <1>2, <1>3, <2>2
  <2> HIDE DEF T
  <2> QED
    BY <1>1, <2>1, <2>2, <2>3, EndedStays
<1>7. NothingToSweep' /\ NobodyWaits'
  <2>1. ToSet(standalone) \subseteq Req
    BY <1>1 DEF RequestTypes, ToSet
  <2> QED
    BY <1>1, <1>2, <2>1 DEF NothingToSweep, NobodyWaits
<1> QED
  BY <1>2, <1>4, <1>5, <1>6, <1>7, RequestsGoOn

LEMMA CancelQueuedHolds ==
  ASSUME TurnsHold, RunHolds, RequestsHold, NEW t \in Req, CancelQueuedTurn(t)
  PROVE  RequestsHold'
<1>1. turnState' = [turnState EXCEPT ![t] = "cancelled"] /\ UNCHANGED <<active, leases, disposing>>
  BY DEF CancelQueuedTurn, Turns!CancelQueuedTurn
<1>2. \A u \in Req \ {t} : turnState'[u] = turnState[u]
  BY <1>1, TurnTypes DEF TurnsHold
<1>3. /\ cancelSteps(StepsOf(t)) /\ queue' = [queue EXCEPT ![t] = << >>]
      /\ UNCHANGED <<receipt, stepTurn, standalone, held, draining, current>>
  BY DEF CancelQueuedTurn, drainVars, runVars
<1> QED
  BY <1>1, <1>2, <1>3, EndTurnHolds

LEMMA ReleaseHolds ==
  ASSUME TurnsHold, RunHolds, RequestsHold, NEW outcome, releaseActiveTurn(outcome)
  PROVE  RequestsHold'
<1>1. turnState' = [turnState EXCEPT ![active] = outcome] /\ UNCHANGED <<leases, disposing>>
      /\ active # NoReq
  BY DEF releaseActiveTurn, Turns!ReleaseActiveTurn
<1>2. active \in Req /\ \A u \in Req \ {active} : turnState'[u] = turnState[u]
  BY <1>1, TurnTypes DEF TurnsHold
<1>3. /\ cancelSteps(StepsOf(active)) /\ queue' = [queue EXCEPT ![active] = << >>]
      /\ UNCHANGED <<receipt, stepTurn, standalone, held, draining>> /\ current' = NoReq
  BY DEF releaseActiveTurn, drainVars
<1> QED
  BY <1>1, <1>2, <1>3, EndTurnHolds

LEMMA DisposeHolds ==
  ASSUME TurnsHold, RunHolds, WakeHolds, RequestsHold, Dispose
  PROVE  RequestsHold'
<1> DEFINE T == ToSet(pendingTurns)
           waits == ToSet(standalone) \union ToSet(held)
           ended == UNION {StepsOf(t) : t \in T}
<1>1. RequestTypes /\ Apart /\ NothingToSweep /\ NobodyWaits
  BY DEF RequestsHold
<1>2. /\ stepState' = [r \in Req |-> IF r \in Cancellable(ended) THEN "cancelled" ELSE stepState[r]]
      /\ abortPending(Cancellable(ended) \union waits)
      /\ reject(waits)
      /\ queue' = [t \in Req |-> IF t \in T THEN << >> ELSE queue[t]]
      /\ standalone' = << >> /\ held' = << >>
      /\ UNCHANGED <<stepTurn, draining, current, active, leases>>
      /\ turnState' = [t \in Req |-> IF t \in T THEN "cancelled" ELSE turnState[t]]
  BY DEF Dispose, Turns!Dispose, runVars, ToSet
<1>3. draining = << >>
  BY DEF Dispose, Free, WakeHolds
<1>4. \A x \in Req : x \in Cancellable(ended) <=> stepTurn[x] \in T /\ stepState[x] \in {"queued", "running"}
  BY DEF Cancellable, StepsOf
<1> HIDE DEF T, waits, ended
<1>5. /\ reqState' \in [Req -> {"new", "pending", "materialized", "aborted"}]
      /\ stepState' \in [Req -> {"none", "queued", "running", "completed", "cancelled"}]
      /\ receipt' \in [Req -> {"none", "waiting", "assigned", "rejected"}]
      /\ \A x \in Req :
           /\ stepState'[x] = IF stepTurn[x] \in T /\ stepState[x] \in {"queued", "running"}
                                THEN "cancelled" ELSE stepState[x]
           /\ reqState'[x] = IF /\ reqState[x] = "pending"
                                /\ \/ stepTurn[x] \in T /\ stepState[x] \in {"queued", "running"}
                                   \/ x \in waits
                               THEN "aborted" ELSE reqState[x]
           /\ receipt'[x] = IF x \in waits /\ receipt[x] = "waiting" THEN "rejected" ELSE receipt[x]
  BY <1>1, <1>2, <1>4 DEF abortPending, reject, RequestTypes
<1>6. queue' \in [Req -> Seq(Req)] /\ \A u \in Req : queue'[u] = IF u \in T THEN << >> ELSE queue[u]
  <2>1. << >> \in Seq(Req)
    OBVIOUS
  <2> QED
    BY <1>1, <1>2, <2>1 DEF RequestTypes
<1>7. RequestTypes'
  BY <1>1, <1>2, <1>5, <1>6 DEF RequestTypes
<1>8. ToSet(held') = {} /\ ToSet(standalone') = {} /\ ToSet(draining) = {} /\ IsInjective(held')
  BY <1>2, <1>3, EmptySet DEF IsInjective
<1>9. Apart'
  BY <1>1, <1>2, <1>8 DEF Apart
<1>10. \A x \in Req : x \in waits <=> ~Elsewhere(x)
  BY <1>8 DEF waits, Elsewhere
<1>11. ASSUME NEW x \in Req PROVE Stays(x)
  <2>1. RequestHolds(x)
    BY DEF RequestsHold
  <2>2. receipt[x] \in {"none", "waiting", "assigned", "rejected"}
    BY <1>1 DEF RequestTypes
  <2>3. NoReq \notin T
    <3>1. pendingTurns \in Seq(Req)
      BY TurnTypes DEF TurnsHold
    <3>2. T \subseteq Req
      BY <3>1 DEF T, ToSet
    <3> QED
      BY <3>2, RequestAssumption
  <2>4. receipt[x] # "assigned" => stepTurn[x] \notin T
    BY <2>1, <2>2, <2>3 DEF RequestHolds, Unassigned
  <2>5. Elsewhere(x)' /\ x \notin ToSet(held')
    BY <1>2, <1>8 DEF Elsewhere
  <2>6. receipt[x] = "assigned" =>
           /\ receipt'[x] = "assigned"
           /\ reqState'[x] = IF /\ stepTurn[x] \in T /\ stepState[x] \in {"queued", "running"}
                                /\ reqState[x] = "pending"
                               THEN "aborted" ELSE reqState[x]
    BY <1>5, <1>10, <2>1 DEF RequestHolds
  <2>7. receipt[x] # "assigned" =>
           \/ /\ receipt'[x] = receipt[x] /\ reqState'[x] = reqState[x]
              /\ receipt[x] = "waiting" => ~Elsewhere(x)'
           \/ /\ receipt[x] = "waiting" /\ receipt'[x] = "rejected"
              /\ reqState'[x] = "aborted" /\ x \notin ToSet(held')
    BY <1>5, <1>10, <2>1, <2>2, <2>4, <2>5 DEF RequestHolds
  <2>8. \A t \in Req \ T : turnState'[t] = turnState[t]
    BY <1>2
  <2>9. stepTurn' = stepTurn
    BY <1>2
  <2>10. stepState'[x] = IF stepTurn[x] \in T /\ stepState[x] \in {"queued", "running"}
                           THEN "cancelled" ELSE stepState[x]
    BY <1>5
  <2> QED
    BY <1>1, <1>6, <2>1, <2>5, <2>6, <2>7, <2>8, <2>9, <2>10, EndedStays
<1>12. NothingToSweep' /\ NobodyWaits'
  <2>1. \A x \in Req : receipt'[x] # "waiting"
    BY <1>5, <1>10 DEF RequestsHold, RequestHolds
  <2> QED
    BY <1>8, <2>1 DEF NothingToSweep, NobodyWaits
<1>13. \A x \in Req : reqState[x] = "materialized" => reqState'[x] = "materialized"
  BY <1>5
<1> QED
  BY <1>2, <1>7, <1>9, <1>11, <1>12, <1>13, RequestsGoOn
----------------------------------------------------------------------------
(* The requests in all steps *)

\* The requests stay where they are, but for what moves from held to draining.
LEMMA QuietHolds ==
  ASSUME RunHolds, RequestsHold, UNCHANGED <<reqVars, queueVars>>, LivesOn,
         \/ UNCHANGED <<held, draining>>
         \/ draining = << >> /\ held' = << >> /\ draining' = held,
         NothingToSweep', disposing' = disposing,
         current' = NoReq \/ (current' = current /\ active' = active)
  PROVE  RequestsHold'
<1>1. RequestTypes /\ Apart /\ NobodyWaits
      /\ UNCHANGED <<reqState, receipt, stepTurn, stepState, queue, standalone>>
  BY DEF RequestsHold, reqVars, queueVars
<1>2. /\ RequestTypes' /\ Apart'
      /\ ToSet(held') \subseteq ToSet(held)
      /\ ToSet(held') \union ToSet(draining') = ToSet(held) \union ToSet(draining)
  <2>1. ToSet(<< >>) = {} /\ IsInjective(<< >>) /\ << >> \in Seq(Req)
    BY EmptySet DEF IsInjective
  <2> QED
    BY <1>1, <2>1 DEF RequestTypes, Apart
<1>3. ASSUME NEW x \in Req PROVE Stays(x)
  <2>1. RequestHolds(x)
    BY DEF RequestsHold
  <2>2. (Elsewhere(x)' <=> Elsewhere(x)) /\ (x \in ToSet(held') => x \in ToSet(held))
    BY <1>1, <1>2 DEF Elsewhere
  <2> QED
    BY <1>1, <2>1, <2>2 DEF Stays, RequestHolds, LivesOn, RequestTypes
<1>4. NobodyWaits'
  BY <1>1 DEF NobodyWaits
<1> QED
  BY <1>1, <1>2, <1>3, <1>4, RequestsGoOn

LEMMA SweptStays ==
  ASSUME RequestsHold, UNCHANGED <<reqVars, queueVars>>, leases' > 0 => leases > 0
  PROVE  NothingToSweep'
  BY DEF RequestsHold, NothingToSweep, reqVars, queueVars

LEMMA PumpHolds ==
  ASSUME TurnsHold, RunHolds, RequestsHold, pumpTurns, UNCHANGED <<reqVars, queueVars, held, draining>>
  PROVE  RequestsHold'
<1>1. CASE Turns!PumpTurns /\ runTurn
  <2>1. LivesOn /\ TurnBegins /\ UNCHANGED <<leases, disposing>>
    BY <1>1, PumpMoves
  <2>2. current' = NoReq
    BY <1>1, <2>1, RequestAssumption DEF runTurn, TurnBegins
  <2> QED
    BY <2>1, <2>2, QuietHolds, SweptStays
<1>2. CASE UNCHANGED <<turnVars, runVars>>
  BY <1>2, QuietHolds, SweptStays DEF turnVars, runVars, LivesOn
<1> QED
  BY <1>1, <1>2 DEF pumpTurns

LEMMA ClientHolds ==
  ASSUME TurnsHold, RunHolds, WakeHolds, LInv, RequestsHold, Client
  PROVE  RequestsHold'
<1>1. CASE CancelActiveTurn
  BY <1>1, QuietHolds, SweptStays DEF CancelActiveTurn, Turns!CancelActiveTurn, LivesOn, drainVars, runVars
<1>2. CASE AwaitSettled
  BY <1>2, QuietHolds, SweptStays DEF AwaitSettled, LivesOn, drainVars, runVars, turnVars
<1>3. CASE TryAcquireQuiescence
  <2>1. /\ UNCHANGED <<reqVars, queueVars, held, draining, turnState, disposing, current, active>>
        /\ ~hasPending(standalone)
    BY <1>3 DEF TryAcquireQuiescence, Turns!TryAcquireQuiescence, Turns!queueVars, drainVars, runVars
  <2>2. \A r \in ToSet(standalone) : reqState[r] = "aborted"
    BY <2>1, NothingPending DEF RequestsHold, RequestTypes
  <2>3. NothingToSweep'
    BY <2>1, <2>2 DEF NothingToSweep, reqVars, queueVars
  <2> QED
    BY <2>1, <2>3, QuietHolds DEF LivesOn
<1> QED
  BY <1>1, <1>2, <1>3, EnqueueHolds, AbortUnassignedHolds, CancelStepHolds, CancelQueuedHolds,
     DisposeHolds DEF Client

\* A held request that is still pending is admitted, or refused and aborted.
LEMMA AdmitHeldHolds ==
  ASSUME TurnsHold, RunHolds, LInv, RequestsHold, AdmitHeld
  PROVE  RequestsHold'
<1>1. RequestTypes /\ Apart /\ NothingToSweep /\ NobodyWaits
  BY DEF RequestsHold
<1>2. draining \in Seq(Req) /\ draining # << >> /\ draining' = Tail(draining) /\ held' = held
      /\ leases = 0 /\ ~disposing
  BY <1>1 DEF AdmitHeld, RequestTypes, LInv, DrainIsOpen
<1>0. PICK r \in Req : r = Head(draining)
  BY <1>2
<1>3. /\ r \in Req /\ r \in ToSet(draining) /\ r \notin ToSet(held) /\ r \notin ToSet(standalone)
      /\ draining' \in Seq(Req) /\ IsInjective(draining') /\ ToSet(draining') = ToSet(draining) \ {r}
  BY <1>0, <1>1, <1>2, TailSet DEF Apart
<1>4. CASE reqState[r] = "aborted" /\ UNCHANGED <<turnVars, reqVars, queueVars, runVars>>
  <2>1. RequestTypes' /\ Apart'
    BY <1>1, <1>2, <1>3, <1>4 DEF RequestTypes, Apart, reqVars, queueVars
  <2>2. ASSUME NEW x \in Req PROVE Stays(x)
    <3>1. RequestHolds(x)
      BY DEF RequestsHold
    <3>2. Elsewhere(x) => Elsewhere(x)'
      BY <1>2, <1>3, <1>4 DEF Elsewhere, queueVars
    <3>3. receipt[x] = "waiting" => ~Elsewhere(x)'
      <4>1. receipt[x] = "waiting" => x # r /\ ~Elsewhere(x)
        BY <1>4, <3>1 DEF RequestHolds
      <4> QED
        BY <1>2, <1>3, <1>4, <4>1 DEF Elsewhere, queueVars
    <3> QED
      BY <1>1, <1>2, <1>4, <3>1, <3>2, <3>3 DEF Stays, RequestHolds, reqVars, queueVars, turnVars
  <2>3. NothingToSweep' /\ NobodyWaits' /\ current' = current /\ active' = active
    BY <1>1, <1>4 DEF NothingToSweep, NobodyWaits, turnVars, reqVars, queueVars, runVars
  <2> QED
    BY <1>4, <2>1, <2>2, <2>3, RequestsGoOn DEF reqVars
<1>5. CASE reqState[r] # "aborted"
  <2>1. receipt[r] = "waiting" /\ reqState[r] = "pending"
    <3>1. RequestHolds(r) /\ ~Elsewhere(r) /\ receipt[r] \in {"none", "waiting", "assigned", "rejected"}
      BY <1>1, <1>3 DEF RequestsHold, RequestTypes, Elsewhere
    <3> QED
      BY <1>5, <3>1 DEF RequestHolds
  <2>2. CASE admit(r) /\ UNCHANGED reqState
    <3>1. reqState' = [reqState EXCEPT ![r] = "pending"]
      BY <1>1, <1>3, <2>1, <2>2 DEF RequestTypes
    <3>2. Admitting(r)
      BY <1>2, <1>3, <2>1, <3>1 DEF Admitting
    <3> QED
      BY <1>3, <2>2, <3>2, AdmitHolds
  <2>3. CASE requiresActiveTurn(r) /\ abortPending({r})
    <3>1. /\ UNCHANGED <<turnVars, queueVars, stepTurn, stepState, runVars, queue, standalone>>
          /\ receipt' = [receipt EXCEPT ![r] = "rejected"]
          /\ UNCHANGED <<current, active, leases, disposing, turnState>>
      BY <2>3 DEF requiresActiveTurn, queueVars, runVars, turnVars
    <3>2. /\ reqState' \in [Req -> {"new", "pending", "materialized", "aborted"}]
          /\ receipt' \in [Req -> {"none", "waiting", "assigned", "rejected"}]
          /\ reqState'[r] = "aborted" /\ receipt'[r] = "rejected"
          /\ \A x \in Req : x # r => reqState'[x] = reqState[x] /\ receipt'[x] = receipt[x]
      BY <1>1, <1>3, <2>1, <2>3, <3>1 DEF abortPending, RequestTypes
    <3>3. RequestTypes' /\ Apart'
      BY <1>1, <1>2, <1>3, <3>1, <3>2 DEF RequestTypes, Apart
    <3>4. Enters(r)
      BY <1>2, <1>3, <2>1, <3>1, <3>2 DEF Enters, Elsewhere
    <3>5. ASSUME NEW x \in Req, x # r PROVE Stays(x)
      <4>1. RequestHolds(x)
        BY DEF RequestsHold
      <4>2. Elsewhere(x)' <=> Elsewhere(x)
        BY <1>2, <1>3, <3>1, <3>5 DEF Elsewhere
      <4> QED
        BY <1>1, <1>2, <3>1, <3>2, <3>5, <4>1, <4>2 DEF Stays, RequestHolds, RequestTypes
    <3>6. NothingToSweep' /\ NobodyWaits'
      BY <1>2, <3>1 DEF NothingToSweep, NobodyWaits
    <3> QED
      BY <2>1, <3>1, <3>2, <3>3, <3>4, <3>5, <3>6, RequestsGoOn
  <2> QED
    BY <1>0, <1>5, <2>2, <2>3 DEF AdmitHeld
<1> QED
  BY <1>0, <1>4, <1>5 DEF AdmitHeld

LEMMA ReleasingHolds ==
  ASSUME TurnsHold, RunHolds, WakeHolds, LInv, RequestsHold, Release
  PROVE  RequestsHold'
<1>1. CASE ReleaseQuiescence
  <2>1. /\ UNCHANGED <<reqVars, queueVars, turnState, disposing, current, active>>
        /\ leases' > 0 => leases > 0
        /\ ~inDrain
    BY <1>1 DEF ReleaseQuiescence, Turns!ReleaseQuiescence, Turns!queueVars, runVars, Free
  <2>2. \/ UNCHANGED <<held, draining>>
        \/ draining = << >> /\ held' = << >> /\ draining' = held
    BY <1>1, <2>1 DEF ReleaseQuiescence, drainVars, WakeHolds
  <2> QED
    BY <2>1, <2>2, QuietHolds, SweptStays DEF LivesOn
<1>2. CASE FinishRelease
  BY <1>2, PumpHolds DEF FinishRelease
<1> QED
  BY <1>1, <1>2, AdmitHeldHolds DEF Release

LEMMA StepHolds ==
  ASSUME TurnsHold, RunHolds, LInv, RequestsHold, Step
  PROVE  RequestsHold'
<1>1. CASE HooksDone \/ ModelAnswers \/ ToolsDone \/ StopHookRuns
  BY <1>1, QuietRun DEF HooksDone, ModelAnswers, ToolsDone, StopHookRuns, TurnsStay
<1>2. CASE AfterStep
  <2>1. phase # "idle" /\ UNCHANGED <<drainVars, current>>
    BY <1>2 DEF AfterStep
  <2>2. CASE UNCHANGED <<turnVars, reqVars, queueVars>>
    BY <2>1, <2>2, QuietRun DEF TurnsStay
  <2>3. ASSUME ~disposing, NEW r \in HookRequests, joinActiveTurn(r),
               reqState' = [reqState EXCEPT ![r] = "pending"]
        PROVE  RequestsHold'
    <3>1. r \in Req /\ reqState[r] = "new"
      BY <2>3 DEF HookRequests
    <3>2. receipt[r] = "none" /\ Elsewhere(r) /\ RequestTypes /\ Apart
      BY <3>1 DEF RequestsHold, RequestHolds
    <3>3. active \in Req /\ leases = 0
      BY <2>1, ActiveRuns, RequestAssumption DEF TurnsHold, LInv, HeldAreRequests
    <3>4. Admitting(r)
      BY <2>1, <2>3, <3>2, <3>3 DEF Admitting, Elsewhere, RequestTypes, Apart, drainVars
    <3> QED
      BY <2>1, <2>3, <3>1, <3>3, <3>4, JoinHolds
  <2> QED
    BY <1>2, <2>2, <2>3 DEF AfterStep
<1>3. CASE CompleteStep
  <2>1. phase = "complete" /\ stepState' = [stepState EXCEPT ![current] = "completed"]
    BY <1>3 DEF CompleteStep
  <2>2. CASE \E outcome : endRun(outcome)
    BY <2>1, <2>2, EndRunHolds
  <2>3. CASE /\ UNCHANGED <<turnVars, reqState, receipt, stepTurn, queueVars, drainVars>>
             /\ current' = NoReq
    BY <2>1, <2>3, CurrentMoves DEF TurnsStay, queueVars
  <2> QED
    BY <1>3, <2>2, <2>3 DEF CompleteStep
<1> QED
  BY <1>1, <1>2, <1>3, BeginStepHolds DEF Step

LEMMA FailureHolds ==
  ASSUME TurnsHold, RunHolds, RequestsHold, Failure
  PROVE  RequestsHold'
<1>0. phase # "idle"
  BY DEF Failure, StepAborted, StepFails, RetryableError, BackoffElapsed, BackoffAborted,
     ContextOverflow, Compacted, CompactionFails
<1>1. CASE stepState' = stepState /\ \E outcome : endRun(outcome)
  BY <1>0, <1>1, EndRunHolds
<1>2. CASE stepState' = stepState /\ continueRun /\ UNCHANGED <<reqState, queue>>
  BY <1>2, QuietRun DEF continueRun, TurnsStay, reqVars, queueVars
<1>3. CASE \E await : stepState' = stepState /\ recoverStep(await)
  BY <1>3, QuietRun DEF recoverStep, TurnsStay, reqVars, queueVars
<1>4. ASSUME phase \in Recovering, retryDriver PROVE RequestsHold'
  <2>1. CASE endRun("failed") /\ UNCHANGED stepState
    BY <1>1, <2>1
  <2>2. CASE /\ queue' = [queue EXCEPT ![active] = requeue(@, current)]
             /\ stepState' = [stepState EXCEPT ![current] = "queued"]
             /\ continueRun /\ UNCHANGED reqState
    BY <1>4, <2>2, CurrentMoves DEF continueRun, requeue, TurnsStay
  <2> QED
    BY <1>4, <2>1, <2>2 DEF retryDriver
<1>5. CASE StepAborted \/ CompactionFails
  BY <1>1, <1>2, <1>5 DEF StepAborted, CompactionFails, abortStep
<1>6. CASE StepFails \/ BackoffAborted
  BY <1>1, <1>6 DEF StepFails, BackoffAborted
<1>7. CASE RetryableError
  BY <1>1, <1>3, <1>7 DEF RetryableError
<1>8. CASE ContextOverflow
  BY <1>1, <1>3, <1>8 DEF ContextOverflow
<1>9. CASE BackoffElapsed \/ Compacted
  BY <1>4, <1>9 DEF BackoffElapsed, Compacted, Recovering
<1> QED
  BY <1>5, <1>6, <1>7, <1>8, <1>9 DEF Failure

LEMMA RequestsKept ==
  ASSUME TurnsHold, RunHolds, WakeHolds, LInv, RequestsHold, [Next]_vars
  PROVE  RequestsHold'
<1>1. CASE Resume
  BY <1>1, QuietRun DEF Resume, TurnsStay
<1>2. CASE BeginEndsRun
  BY <1>2, EndRunHolds DEF BeginEndsRun
<1>3. CASE ReleaseActiveTurn \/ PrepareFails
  BY <1>3, ReleaseHolds DEF ReleaseActiveTurn, PrepareFails
<1>4. CASE PumpAfterTurn
  BY <1>4, PumpHolds DEF PumpAfterTurn, drainVars
<1>5. CASE UNCHANGED vars
  BY <1>5, QuietRun DEF vars, TurnsStay, runVars
<1> QED
  BY <1>1, <1>2, <1>3, <1>4, <1>5, ClientHolds, ReleasingHolds, StepHolds, FailureHolds
     DEF Next, Runner
----------------------------------------------------------------------------
(* What everybody else may do to the active run *)

\* No landing request is where none was.
NoNewLanding ==
  \A r \in Landing : Elsewhere(r)' /\ \A t \in Req : r \in ToSet(queue'[t]) => r \in ToSet(queue[t])

\* The run goes on, at most with one more request at the end of its queue.
RunLeftAlone ==
  /\ UNCHANGED runVars /\ active' = active
  /\ active \in Req => \/ queue'[active] = queue[active]
                       \/ \E r \in Req : queue'[active] = Append(queue[active], r)
  /\ \A x \in Req : /\ stepState[x] = "cancelled" => stepState'[x] = "cancelled"
                    /\ reqState[x] = "materialized" => reqState'[x] = "materialized"

Outside == NoNewLanding /\ ((runTurn /\ TurnBegins) \/ RunLeftAlone)

LandingsApart == \A r \in Landing : Elsewhere(r)

LEMMA SameLandings ==
  ASSUME LandingsApart, UNCHANGED <<queueVars, held, draining>>
  PROVE  NoNewLanding
  BY DEF LandingsApart, NoNewLanding, Elsewhere, queueVars

LEMMA QuietOutside ==
  ASSUME LandingsApart, UNCHANGED <<reqVars, queueVars, held, draining, runVars>>, active' = active
  PROVE  Outside
  BY SameLandings DEF Outside, RunLeftAlone, reqVars, queueVars

LEMMA AdmitOutside ==
  ASSUME TurnsHold, RunHolds, RequestsHold, LandingsApart, NEW r \in Req, r \notin Landing,
         Admitting(r), admit(r)
  PROVE  Outside
<1>1. RequestTypes /\ \A x \in Req : x # r => reqState'[x] = reqState[x]
  BY AdmittingTypes DEF RequestsHold
<1>2. stepState[r] = "none" /\ reqState[r] # "materialized"
  BY DEF RequestsHold, RequestHolds, Unassigned, Admitting
<1>3. \A x \in Landing : x \in Req /\ x # r /\ Elsewhere(x)
  BY DEF LandingsApart, Landing
<1>4. CASE createAndQueueTurn(r)
  <2> DEFINE moved == NotAborted(standalone)
             longer == <<r>> \o moved
  <2>1. /\ longer \in Seq(Req) /\ ToSet(longer) \subseteq {r} \union ToSet(standalone)
        /\ \A x \in ToSet(moved) : x \in ToSet(standalone) /\ reqState[x] # "aborted"
    <3>1. moved \in Seq(Req) /\ ToSet(moved) = {x \in ToSet(standalone) : reqState[x] # "aborted"}
      BY <1>1, NotAbortedSet DEF RequestTypes
    <3> HIDE DEF moved
    <3>2. longer \in Seq(Req) /\ ToSet(longer) = {r} \union ToSet(moved)
      BY <3>1, PrependSet
    <3> QED
      BY <3>1, <3>2
  <2>2. /\ queue' = [queue EXCEPT ![r] = longer] /\ assignSteps(r, {r} \union ToSet(moved))
        /\ standalone' = << >> /\ ToSet(standalone') = {} /\ runTurn
    BY <1>4, EmptySet DEF createAndQueueTurn, moveStandaloneSteps
  <2>3. \A x \in ToSet(standalone) : x \in Req /\ ~Elsewhere(x)
    BY <1>1 DEF RequestTypes, ToSet, Elsewhere
  <2> HIDE DEF longer, moved
  <2>4. NoNewLanding
    <3>1. \A x \in Landing : Elsewhere(x)'
      BY <1>3, <2>2 DEF Elsewhere, Admitting
    <3>2. \A t \in Req : queue'[t] = IF t = r THEN longer ELSE queue[t]
      BY <1>1, <2>2 DEF RequestTypes
    <3> QED
      BY <1>3, <2>1, <2>3, <3>1, <3>2 DEF NoNewLanding
  <2>5. turnState[r] = "none" /\ (TurnBegins \/ active' = active)
    BY <1>4, CreateMoves DEF createAndQueueTurn
  <2>6. active \in Req => queue'[active] = queue[active]
    BY <1>1, <2>2, <2>5, RequestAssumption DEF TurnsHold, RequestTypes
  <2>7. \A x \in ToSet(moved) : x \in Req /\ stepState[x] = "none"
    <3>1. ASSUME NEW x \in ToSet(moved) PROVE x \in Req /\ stepState[x] = "none"
      <4>1. x \in Req /\ ~Elsewhere(x) /\ reqState[x] # "aborted"
        BY <2>1, <2>3
      <4>2. RequestHolds(x) /\ receipt[x] \in {"none", "waiting", "assigned", "rejected"}
        BY <1>1, <4>1 DEF RequestsHold, RequestTypes
      <4> QED
        BY <4>1, <4>2 DEF RequestHolds, Unassigned
    <3> QED
      BY <3>1
  <2>8. \A x \in Req : stepState[x] = "cancelled" => stepState'[x] = "cancelled"
    BY <1>2, <2>2, <2>7 DEF assignSteps
  <2>9. CASE active' = active
    <3>1. UNCHANGED runVars
      BY <2>2, <2>9 DEF runTurn
    <3> QED
      BY <1>1, <1>2, <2>4, <2>6, <2>8, <2>9, <3>1 DEF Outside, RunLeftAlone
  <2>10. CASE TurnBegins
    BY <2>2, <2>4, <2>10 DEF Outside
  <2> QED
    BY <2>5, <2>9, <2>10
<1>5. CASE joinActiveTurn(r) /\ active # NoReq /\ UNCHANGED runVars
  <2> DEFINE longer == Append(queue[active], r)
  <2>1. active \in Req /\ active' = active /\ standalone' = standalone
    BY <1>5, TurnTypes DEF TurnsHold, joinActiveTurn, turnVars
  <2>2. longer \in Seq(Req) /\ ToSet(longer) = ToSet(queue[active]) \union {r}
    BY <1>1, <2>1, AppendSet DEF RequestTypes
  <2>3. queue' = [queue EXCEPT ![active] = longer] /\ assignSteps(active, {r})
    BY <1>5 DEF joinActiveTurn
  <2>4. queue'[active] = Append(queue[active], r)
    BY <1>1, <2>1, <2>3 DEF RequestTypes
  <2> HIDE DEF longer
  <2>5. NoNewLanding
    <3>1. \A x \in Landing : Elsewhere(x)'
      BY <1>3, <2>1 DEF Elsewhere, Admitting
    <3>2. \A t \in Req : queue'[t] = IF t = active THEN longer ELSE queue[t]
      BY <1>1, <2>3 DEF RequestTypes
    <3> QED
      BY <1>3, <2>2, <3>1, <3>2 DEF NoNewLanding
  <2>6. \A x \in Req : stepState[x] = "cancelled" => stepState'[x] = "cancelled"
    BY <1>2, <2>3 DEF assignSteps
  <2> QED
    BY <1>1, <1>2, <1>5, <2>1, <2>4, <2>5, <2>6 DEF Outside, RunLeftAlone
<1>6. CASE waitForNextTurn(r)
  <2>1. UNCHANGED <<active, queue, stepState, runVars>>
    BY <1>6 DEF waitForNextTurn, turnVars
  <2>2. ToSet(standalone') = ToSet(standalone) \union {r}
    BY <1>1, <1>6, AppendSet DEF RequestTypes, waitForNextTurn
  <2>3. NoNewLanding
    BY <1>3, <2>1, <2>2 DEF NoNewLanding, Elsewhere, Admitting
  <2> QED
    BY <1>1, <1>2, <2>1, <2>3 DEF Outside, RunLeftAlone
<1> QED
  BY <1>4, <1>5, <1>6 DEF admit

LEMMA PumpOutside ==
  ASSUME TurnsHold, LandingsApart, pumpTurns, UNCHANGED <<reqVars, queueVars, held, draining>>
  PROVE  Outside
<1>1. CASE Turns!PumpTurns /\ runTurn
  BY <1>1, PumpMoves, SameLandings DEF Outside
<1>2. CASE UNCHANGED <<turnVars, runVars>>
  BY <1>2, QuietOutside DEF turnVars
<1> QED
  BY <1>1, <1>2 DEF pumpTurns

LEMMA EnqueueOutside ==
  ASSUME TurnsHold, RunHolds, LInv, RequestsHold, LandingsApart, NEW r \in Req, Enqueue(r)
  PROVE  Outside
<1>1. /\ RequestTypes /\ Apart /\ reqState[r] = "new" /\ ~disposing
      /\ reqState' = [reqState EXCEPT ![r] = "pending"] /\ draining' = draining /\ r \notin Landing
  BY DEF Enqueue, RequestsHold, Landing, isMaxStepsLandingRequest
<1>2. receipt[r] = "none" /\ Elsewhere(r) /\ Unassigned(r)
  BY <1>1 DEF RequestsHold, RequestHolds
<1>3. CASE ~mustHold /\ admit(r) /\ held' = held
  <2>1. leases = 0
    BY <1>3 DEF mustHold, LInv, HeldAreRequests
  <2>2. Admitting(r)
    BY <1>1, <1>2, <1>3, <2>1 DEF Admitting, RequestTypes, Apart, Elsewhere
  <2> QED
    BY <1>1, <1>3, <2>2, AdmitOutside
<1>4. CASE /\ held' \in {held, Append(held, r)}
           /\ UNCHANGED <<turnVars, queueVars, stepTurn, stepState, runVars>>
  <2>1. ToSet(held') \subseteq ToSet(held) \union {r}
    <3>1. ToSet(Append(held, r)) = ToSet(held) \union {r}
      BY <1>1, AppendSet DEF RequestTypes
    <3> QED
      BY <1>4, <3>1
  <2>2. UNCHANGED <<active, queue, standalone>>
    BY <1>4 DEF turnVars, queueVars
  <2>3. NoNewLanding
    BY <1>1, <2>1, <2>2 DEF NoNewLanding, LandingsApart, Elsewhere
  <2>4. \A x \in Req : reqState[x] = "materialized" => reqState'[x] = "materialized"
    BY <1>1 DEF RequestTypes
  <2> QED
    BY <1>4, <2>2, <2>3, <2>4 DEF Outside, RunLeftAlone
<1> QED
  BY <1>1, <1>3, <1>4 DEF Enqueue, requiresActiveTurn

LEMMA ClientOutside ==
  ASSUME TurnsHold, RunHolds, LInv, RequestsHold, LandingsApart, Client
  PROVE  Outside
<1>0. RequestTypes /\ Apart
  BY DEF RequestsHold
<1>1. ASSUME NEW r \in Req, AbortUnassigned(r) PROVE Outside
  <2>1. /\ UNCHANGED <<active, queue, standalone, draining, stepState, runVars>>
        /\ abortPending({r})
    BY <1>1 DEF AbortUnassigned, turnVars, queueVars
  <2>2. ToSet(held') \subseteq ToSet(held)
    <3>1. CASE \E i \in DOMAIN held : held[i] = r /\ held' = RemoveAt(held, i)
      <4>1. PICK i \in 1 .. Len(held) : held' = RemoveAt(held, i)
        BY <1>0, <3>1 DEF RequestTypes
      <4>2. held' = SubSeq(held, 1, i - 1) \o SubSeq(held, i + 1, Len(held))
        BY <4>1 DEF RemoveAt
      <4>3. held \in Seq(Req) /\ IsInjective(held)
        BY <1>0 DEF RequestTypes, Apart
      <4>4. ToSet(held') = ToSet(held) \ {held[i]}
        BY <4>2, <4>3, RemoveSet
      <4> QED
        BY <4>4
    <3> QED
      BY <1>1, <3>1 DEF AbortUnassigned
  <2>3. NoNewLanding
    BY <2>1, <2>2 DEF NoNewLanding, LandingsApart, Elsewhere
  <2>4. \A x \in Req : reqState[x] = "materialized" => reqState'[x] = "materialized"
    BY <2>1 DEF abortPending
  <2> QED
    BY <2>1, <2>3, <2>4 DEF Outside, RunLeftAlone
<1>2. ASSUME NEW r \in Req, CancelStep(r) PROVE Outside
  <2>1. UNCHANGED <<active, queueVars, queue, held, draining, runVars>> /\ cancelSteps({r})
    BY <1>2 DEF CancelStep, turnVars, queueVars, drainVars
  <2>2. \A x \in Req : /\ stepState[x] = "cancelled" => stepState'[x] = "cancelled"
                       /\ reqState[x] = "materialized" => reqState'[x] = "materialized"
    BY <2>1 DEF cancelSteps, abortPending
  <2> QED
    BY <2>1, <2>2, SameLandings DEF Outside, RunLeftAlone
<1>3. ASSUME NEW t \in Req, CancelQueuedTurn(t) PROVE Outside
  <2>1. /\ UNCHANGED <<standalone, held, draining, runVars>> /\ cancelSteps(StepsOf(t))
        /\ queue' = [queue EXCEPT ![t] = << >>] /\ active' = active
    BY <1>3 DEF CancelQueuedTurn, drainVars, Turns!CancelQueuedTurn
  <2>2. t # active
    <3>1. t \in ToSet(pendingTurns)
      BY <1>3, CancelKeepsTurns DEF CancelQueuedTurn
    <3> QED
      BY <3>1, RequestAssumption DEF TurnsHold
  <2>3. \A u \in Req : queue'[u] = IF u = t THEN << >> ELSE queue[u]
    BY <1>0, <2>1 DEF RequestTypes
  <2>4. NoNewLanding
    BY <2>1, <2>3, EmptySet DEF NoNewLanding, LandingsApart, Elsewhere
  <2>5. \A x \in Req : /\ stepState[x] = "cancelled" => stepState'[x] = "cancelled"
                       /\ reqState[x] = "materialized" => reqState'[x] = "materialized"
    BY <2>1 DEF cancelSteps, abortPending
  <2> QED
    BY <2>1, <2>2, <2>3, <2>4, <2>5 DEF Outside, RunLeftAlone
<1>4. CASE Dispose
  <2> DEFINE T == ToSet(pendingTurns)
  <2>1. /\ queue' = [t \in Req |-> IF t \in T THEN << >> ELSE queue[t]]
        /\ standalone' = << >> /\ held' = << >> /\ UNCHANGED <<draining, runVars>> /\ active' = active
    BY <1>4 DEF Dispose, Turns!Dispose
  <2>2. active \notin T
    BY RequestAssumption, TurnTypes DEF TurnsHold, ToSet
  <2>3. \A x \in Req : /\ stepState[x] = "cancelled" => stepState'[x] = "cancelled"
                       /\ reqState[x] = "materialized" => reqState'[x] = "materialized"
    BY <1>4 DEF Dispose, abortPending
  <2> HIDE DEF T
  <2>4. \A u \in Req : queue'[u] = IF u \in T THEN << >> ELSE queue[u]
    BY <2>1
  <2>5. NoNewLanding
    BY <2>1, <2>4, EmptySet DEF NoNewLanding, LandingsApart, Elsewhere
  <2> QED
    BY <2>1, <2>2, <2>3, <2>4, <2>5 DEF Outside, RunLeftAlone
<1>5. CASE CancelActiveTurn \/ AwaitSettled \/ TryAcquireQuiescence
  BY <1>5, QuietOutside DEF CancelActiveTurn, AwaitSettled, TryAcquireQuiescence, turnVars,
     Turns!CancelActiveTurn, Turns!TryAcquireQuiescence, Turns!queueVars, drainVars
<1> QED
  BY <1>1, <1>2, <1>3, <1>4, <1>5, EnqueueOutside DEF Client

LEMMA ReleasingOutside ==
  ASSUME TurnsHold, RunHolds, LInv, RequestsHold, LandingsApart, Release
  PROVE  Outside
<1>0. RequestTypes /\ Apart
  BY DEF RequestsHold
<1>1. CASE ReleaseQuiescence
  <2>1. UNCHANGED <<active, reqVars, queueVars, queue, standalone, stepState, reqState, runVars>>
        /\ (UNCHANGED <<held, draining>> \/ (held' = << >> /\ draining' = held))
    BY <1>1 DEF ReleaseQuiescence, Turns!ReleaseQuiescence, Turns!queueVars, drainVars, reqVars, queueVars
  <2>2. NoNewLanding
    BY <2>1, EmptySet DEF NoNewLanding, LandingsApart, Elsewhere
  <2> QED
    BY <2>1, <2>2 DEF Outside, RunLeftAlone
<1>2. CASE AdmitHeld
  <2>1. draining \in Seq(Req) /\ draining # << >> /\ draining' = Tail(draining) /\ held' = held
        /\ leases = 0 /\ ~disposing
    BY <1>0, <1>2 DEF AdmitHeld, RequestTypes, LInv, DrainIsOpen
  <2>2. PICK r \in Req : r = Head(draining)
    BY <2>1
  <2>3. /\ r \in ToSet(draining) /\ r \notin ToSet(held) /\ r \notin ToSet(standalone)
        /\ draining' \in Seq(Req) /\ IsInjective(draining') /\ ToSet(draining') = ToSet(draining) \ {r}
    BY <1>0, <2>1, <2>2, TailSet DEF Apart
  <2>4. r \notin Landing
    BY <2>3 DEF LandingsApart, Elsewhere
  <2>5. CASE reqState[r] # "aborted" /\ admit(r) /\ UNCHANGED reqState
    <3>1. receipt[r] = "waiting" /\ reqState[r] = "pending"
      <4>1. RequestHolds(r) /\ ~Elsewhere(r) /\ receipt[r] \in {"none", "waiting", "assigned", "rejected"}
        BY <1>0, <2>3 DEF RequestsHold, RequestTypes, Elsewhere
      <4> QED
        BY <2>5, <4>1 DEF RequestHolds
    <3>2. Admitting(r)
      BY <1>0, <2>1, <2>3, <2>5, <3>1 DEF Admitting, RequestTypes
    <3> QED
      BY <2>4, <2>5, <3>2, AdmitOutside
  <2>6. CASE /\ UNCHANGED <<turnVars, queueVars, stepState, runVars>>
             /\ reqState' = reqState \/ abortPending({r})
    <3>1. NoNewLanding
      BY <2>1, <2>3, <2>6 DEF NoNewLanding, LandingsApart, Elsewhere, queueVars
    <3>2. \A x \in Req : reqState[x] = "materialized" => reqState'[x] = "materialized"
      BY <2>6 DEF abortPending
    <3> QED
      BY <2>6, <3>1, <3>2 DEF Outside, RunLeftAlone, turnVars, queueVars
  <2> QED
    BY <1>2, <2>2, <2>5, <2>6 DEF AdmitHeld, requiresActiveTurn, reqVars
<1>3. CASE FinishRelease
  BY <1>3, PumpOutside DEF FinishRelease
<1> QED
  BY <1>1, <1>2, <1>3 DEF Release
----------------------------------------------------------------------------
(* The ceiling *)

LEMMA CeilingTypes ==
  RunHolds => steps \in Nat /\ failedAttempts \in Nat /\ overflows \in Nat /\ MaxSteps \in Nat
              /\ MaxAttempts \in Nat /\ MaxOverflows \in Nat /\ 0 < MaxAttempts
  BY LimitAssumption DEF RunHolds

LEMMA CeilingApart == CeilingHolds => LandingsApart
  BY DEF CeilingHolds, LandingsApart

LEMMA CeilingOutside ==
  ASSUME TurnsHold, RunHolds, CeilingHolds, Outside
  PROVE  CeilingHolds'
<1>1. active \in Req \union {NoReq} /\ NoReq \notin Req
  BY TurnTypes, RequestAssumption DEF TurnsHold
<1>2. \A r \in Landing : Elsewhere(r)'
  BY DEF Outside, NoNewLanding
<1>3. \A r \in Landing, t \in Req : r \in ToSet(queue'[t]) => r \in ToSet(queue[t])
  BY DEF Outside, NoNewLanding
<1>4. CASE runTurn /\ TurnBegins
  <2>1. /\ active = NoReq /\ active' \in Req
        /\ phase' = "begin" /\ steps' = 0 /\ failedDriver' = NoReq
        /\ failedAttempts' = 0 /\ overflows' = 0
    BY <1>1, <1>4 DEF runTurn, TurnBegins
  <2>2. \A r \in Landing, t \in Req : r \notin ToSet(queue'[t])
    BY <1>1, <1>3, <2>1 DEF CeilingHolds
  <2> QED
    BY <1>2, <2>1, <2>2, LimitAssumption DEF CeilingHolds, StepsBounded, Working, Recovering
<1>5. CASE RunLeftAlone
  <2>1. UNCHANGED <<phase, current, steps, failedDriver, failedAttempts, overflows, active>>
    BY <1>5 DEF RunLeftAlone, runVars, retryVars
  <2>2. phase \in {"begin", "resume", "complete"} => active \in Req
    BY <1>1 DEF RunHolds
  <2> QED
    BY <1>2, <1>3, <2>1, <2>2 DEF CeilingHolds, StepsBounded, Repeats
<1> QED
  BY <1>4, <1>5 DEF Outside

\* The run ends, with what it remembers of the recoveries.
LEMMA CeilingEnds ==
  ASSUME TurnsHold, RunHolds, RequestTypes, CeilingHolds, phase # "idle", NEW outcome, endRun(outcome),
         failedAttempts' < MaxAttempts, overflows' <= MaxOverflows + 1,
         failedDriver' = NoReq => failedAttempts' = 0
  PROVE  CeilingHolds'
<1>1. active \in Req
  BY ActiveRuns
<1>2. \A t \in Req : \A x \in ToSet(queue'[t]) : x \in ToSet(queue[t])
  BY <1>1, EndRunMoves
<1>3. UNCHANGED <<active, standalone, held, draining, steps>> /\ phase' = "ending"
  BY DEF endRun, turnVars, drainVars
<1> QED
  BY <1>2, <1>3 DEF CeilingHolds, StepsBounded, Elsewhere, Working, Recovering

LEMMA CeilingBegins ==
  ASSUME TurnsHold, RunHolds, RequestsHold, CeilingHolds, BeginStep
  PROVE  CeilingHolds'
<1> DEFINE q == NotAborted(queue[active])
<1>1. active \in Req
  BY ActiveRuns DEF BeginStep
<1>2. /\ phase = "begin" /\ phase' = "hooks" /\ steps' = steps + 1 /\ current' = NextDriver(q)
      /\ ~OverCeiling(q)
      /\ UNCHANGED <<active, standalone, held, draining, failedDriver, failedAttempts, overflows>>
  BY DEF BeginStep, turnVars, drainVars, retryVars
<1>3. steps < MaxSteps \/ current' \in Landing
  <2>1. current' \in Req
    BY <1>1, BeginStepMoves DEF RequestsHold
  <2> QED
    BY <1>2, <2>1, CeilingTypes DEF OverCeiling, Landing
<1> HIDE DEF q
<1>4. /\ current' \in ToSet(queue[active]) /\ current' \in Req
      /\ \A t \in Req : t # active => queue'[t] = queue[t]
      /\ \A x \in ToSet(queue'[active]) : x \in ToSet(queue[active]) /\ x # current'
  BY <1>1, BeginStepMoves DEF RequestsHold
<1>5. steps \in Nat /\ failedAttempts \in Nat /\ overflows \in Nat /\ MaxSteps \in Nat
      /\ MaxAttempts \in Nat /\ MaxOverflows \in Nat
      /\ failedAttempts < MaxAttempts /\ overflows <= MaxOverflows
  BY <1>2, CeilingTypes DEF CeilingHolds
<1>6. \A r \in Landing : r \in ToSet(queue[active]) =>
        /\ steps = MaxSteps + failedAttempts + overflows /\ failedDriver \in {NoReq, r}
        /\ \A u \in Landing : u \in ToSet(queue[active]) => u = r
  BY <1>2, <1>5 DEF CeilingHolds, Repeats
<1>7. \A r \in Landing, t \in Req : r \notin ToSet(queue'[t])
  <2>1. ASSUME NEW r \in Landing, NEW t \in Req, r \in ToSet(queue'[t]) PROVE FALSE
    <3>1. t = active /\ r \in ToSet(queue[active]) /\ r # current'
      BY <1>4, <2>1 DEF CeilingHolds
    <3>2. steps >= MaxSteps /\ current' \notin Landing
      BY <1>4, <1>5, <1>6, <3>1
    <3> QED
      BY <1>3, <1>5, <3>2
  <2> QED
    BY <2>1
<1>8. IF current' \in Landing
        THEN steps' = MaxSteps + 1 + failedAttempts + overflows /\ failedDriver \in {NoReq, current'}
        ELSE steps' <= MaxSteps
  BY <1>2, <1>3, <1>4, <1>5, <1>6
<1>9. StepsBounded'
  BY <1>2, <1>5, <1>8 DEF StepsBounded
<1>10. \A r \in Landing : Elsewhere(r)'
  BY <1>2 DEF CeilingHolds, Elsewhere
<1>11. failedAttempts' < MaxAttempts /\ overflows' <= MaxOverflows + 1 /\ overflows' <= MaxOverflows
       /\ (failedDriver' = NoReq => failedAttempts' = 0)
  BY <1>2, <1>5 DEF CeilingHolds
<1>12. IF current' \in Landing
         THEN steps' = MaxSteps + 1 + Repeats' /\ failedDriver' \in {NoReq, current'}
         ELSE steps' <= MaxSteps
  BY <1>2, <1>5, <1>8 DEF Repeats
<1> QED
  BY <1>2, <1>7, <1>9, <1>10, <1>11, <1>12 DEF CeilingHolds, Working, Recovering

\* A step of the run that touches no queue but perhaps the ending of its driver.
LEMMA CeilingGoesOn ==
  ASSUME TurnsHold, RunHolds, CeilingHolds,
         UNCHANGED <<active, queue, standalone, held, draining, steps, retryVars>>,
         \/ phase \in Working /\ phase' \in Working /\ current' = current
         \/ phase \in Working \union Recovering /\ phase' = "resume"
         \/ phase \in {"resume", "complete"} /\ phase' = "begin"
  PROVE  CeilingHolds'
<1>1. UNCHANGED <<failedDriver, failedAttempts, overflows>>
  BY DEF retryVars
<1>2. phase \notin {"idle", "ending"}
  BY DEF Working, Recovering
<1>3. /\ failedAttempts' < MaxAttempts /\ overflows' <= MaxOverflows + 1
      /\ overflows' <= MaxOverflows /\ (failedDriver' = NoReq => failedAttempts' = 0)
      /\ StepsBounded' /\ (\A r \in Landing : Elsewhere(r)')
  BY <1>1, <1>2 DEF CeilingHolds, StepsBounded, Elsewhere
<1>4. CASE phase \in Working /\ phase' \in Working /\ current' = current
  <2>1. \A r \in Landing, t \in Req : r \notin ToSet(queue'[t])
    BY <1>4 DEF CeilingHolds, Working
  <2> QED
    BY <1>1, <1>3, <1>4, <2>1 DEF CeilingHolds, Working, Recovering, Repeats
<1>5. CASE phase \in Working \union Recovering /\ phase' = "resume"
  <2>1. \A r \in Landing, t \in Req : r \notin ToSet(queue'[t])
    BY <1>5 DEF CeilingHolds, Working, Recovering
  <2>2. active \in Req
    BY <1>2, ActiveRuns
  <2> QED
    BY <1>1, <1>3, <1>5, <2>1, <2>2 DEF CeilingHolds, Working, Recovering
<1>6. CASE phase \in {"resume", "complete"} /\ phase' = "begin"
  BY <1>1, <1>3, <1>6 DEF CeilingHolds, Working, Recovering, Repeats
<1> QED
  BY <1>4, <1>5, <1>6

\* The hooks enqueue a landing request at the ceiling only, and only one.
LEMMA CeilingAfter ==
  ASSUME TurnsHold, RunHolds, RequestsHold, CeilingHolds, AfterStep
  PROVE  CeilingHolds'
<1>1. /\ phase \in {"after", "stop_hook"} /\ phase' = "complete"
      /\ failedDriver' = NoReq /\ failedAttempts' = 0 /\ overflows' = 0
      /\ UNCHANGED <<held, draining, steps>>
  BY DEF AfterStep, drainVars
<1>2. active \in Req
  BY <1>1, ActiveRuns
<1>3. \A r \in Landing, t \in Req : r \notin ToSet(queue[t])
  BY <1>1 DEF CeilingHolds
<1>4. /\ failedAttempts' < MaxAttempts /\ overflows' <= MaxOverflows + 1 /\ overflows' <= MaxOverflows
      /\ StepsBounded' /\ Repeats' = 0
  BY <1>1, LimitAssumption DEF CeilingHolds, StepsBounded, Repeats
<1>5. CASE UNCHANGED <<turnVars, reqVars, queueVars>>
  <2>1. UNCHANGED <<active, queue, standalone>>
    BY <1>5 DEF turnVars, queueVars
  <2>2. \A r \in Landing : Elsewhere(r)'
    BY <1>1, <2>1 DEF CeilingHolds, Elsewhere
  <2>3. \A r \in Landing, t \in Req : r \notin ToSet(queue'[t])
    BY <1>3, <2>1
  <2>4. \A r \in Landing : r \notin ToSet(queue'[active'])
    BY <1>2, <2>1, <2>3
  <2> QED
    BY <1>1, <1>4, <2>2, <2>3, <2>4 DEF CeilingHolds, Working, Recovering
<1>6. ASSUME NEW r \in HookRequests, joinActiveTurn(r) PROVE CeilingHolds'
  <2> DEFINE longer == Append(queue[active], r)
  <2>1. r \in Req /\ (r \in Landing => steps = MaxSteps)
    BY <1>6 DEF HookRequests, Landing, isMaxStepsLandingRequest
  <2>2. longer \in Seq(Req) /\ ToSet(longer) = ToSet(queue[active]) \union {r}
    BY <1>2, <2>1, AppendSet DEF RequestsHold, RequestTypes
  <2>3. queue' = [queue EXCEPT ![active] = longer] /\ active' = active /\ standalone' = standalone
    BY <1>6 DEF joinActiveTurn, turnVars
  <2> HIDE DEF longer
  <2>4. \A t \in Req : queue'[t] = IF t = active THEN longer ELSE queue[t]
    BY <1>2, <2>3 DEF RequestsHold, RequestTypes
  <2>5. \A x \in Landing, t \in Req : x \in ToSet(queue'[t]) => x = r /\ t = active /\ steps = MaxSteps
    BY <1>3, <2>1, <2>2, <2>4
  <2>6. \A x \in Landing : Elsewhere(x)'
    BY <1>1, <2>3 DEF CeilingHolds, Elsewhere
  <2>7. steps' = steps /\ steps \in Nat /\ MaxSteps \in Nat
    BY <1>1, CeilingTypes
  <2>8. \A x \in Landing : x \in ToSet(queue'[active']) =>
          /\ steps' = MaxSteps + Repeats' /\ failedDriver' \in {NoReq, x}
          /\ \A u \in Landing : u \in ToSet(queue'[active']) => u = x
    BY <1>1, <1>2, <1>4, <2>3, <2>5, <2>7
  <2>9. \A x \in Landing, t \in Req : x \in ToSet(queue'[t]) => t = active' /\ phase' = "complete"
    BY <1>1, <2>3, <2>5
  <2> QED
    BY <1>1, <1>4, <2>6, <2>8, <2>9 DEF CeilingHolds, Working, Recovering
<1> QED
  BY <1>5, <1>6 DEF AfterStep

\* A recovery of the step counts one more repeat.
LEMMA CeilingRecovers ==
  ASSUME TurnsHold, RunHolds, CeilingHolds,
         \/ RetryableError /\ recoverStep("backoff")
              /\ failedAttempts' < MaxAttempts
         \/ ContextOverflow /\ recoverStep("compacting") /\ overflows < MaxOverflows
  PROVE  CeilingHolds'
<1>1. /\ phase = "model" /\ phase' \in Recovering
      /\ UNCHANGED <<active, queue, standalone, held, draining, current, steps>>
  BY DEF RetryableError, ContextOverflow, recoverStep, turnVars, queueVars, drainVars, Recovering
<1>2. current \in Req /\ NoReq \notin Req
  BY <1>1, RequestAssumption DEF RunHolds, Working
<1>3. steps \in Nat /\ failedAttempts \in Nat /\ overflows \in Nat /\ MaxSteps \in Nat
      /\ MaxAttempts \in Nat /\ MaxOverflows \in Nat
  BY CeilingTypes
<1>4. \A r \in Landing, t \in Req : r \notin ToSet(queue'[t])
  BY <1>1 DEF CeilingHolds
<1>5. \A r \in Landing : Elsewhere(r)'
  BY <1>1 DEF CeilingHolds, Elsewhere
<1>6. IF current \in Landing
        THEN steps = MaxSteps + 1 + failedAttempts + overflows /\ failedDriver \in {NoReq, current}
        ELSE steps <= MaxSteps
  BY <1>1, <1>3 DEF CeilingHolds, Working, Repeats
<1>7. failedAttempts < MaxAttempts /\ overflows <= MaxOverflows /\ (failedDriver = NoReq => failedAttempts = 0)
  BY <1>1 DEF CeilingHolds
<1>8. \/ /\ failedDriver' = current /\ overflows' = overflows /\ failedAttempts' < MaxAttempts
         /\ failedAttempts' = IF failedDriver = current THEN failedAttempts + 1 ELSE 1
      \/ /\ overflows' = overflows + 1 /\ overflows < MaxOverflows
         /\ UNCHANGED <<failedDriver, failedAttempts>>
  <2>1. CASE RetryableError /\ recoverStep("backoff") /\ failedAttempts' < MaxAttempts
    BY <2>1 DEF RetryableError, endRun, recoverStep
  <2>2. CASE ContextOverflow /\ recoverStep("compacting") /\ overflows < MaxOverflows
    BY <2>2 DEF ContextOverflow
  <2> QED
    BY <2>1, <2>2
<1>9. IF current \in Landing
        THEN steps = MaxSteps + failedAttempts' + overflows' /\ failedDriver' \in {NoReq, current}
        ELSE steps <= MaxSteps
  BY <1>2, <1>3, <1>6, <1>7, <1>8
<1>10. /\ failedAttempts' < MaxAttempts /\ overflows' <= MaxOverflows + 1 /\ overflows' <= MaxOverflows
       /\ (failedDriver' = NoReq => failedAttempts' = 0)
  BY <1>2, <1>3, <1>7, <1>8
<1>11. StepsBounded'
  BY <1>1, <1>3 DEF CeilingHolds, StepsBounded
<1>12. failedAttempts' \in Nat /\ overflows' \in Nat
  BY <1>3, <1>8
<1>13. IF current' \in Landing
         THEN steps' = MaxSteps + Repeats' /\ failedDriver' \in {NoReq, current'}
         ELSE steps' <= MaxSteps
  <2>1. Repeats' = failedAttempts' + overflows'
    BY DEF Repeats
  <2>2. current' = current /\ steps' = steps
    BY <1>1
  <2>3. MaxSteps + (failedAttempts' + overflows') = MaxSteps + failedAttempts' + overflows'
    BY <1>3, <1>12
  <2> QED
    BY <1>9, <2>1, <2>2, <2>3
<1> QED
  BY <1>1, <1>4, <1>5, <1>10, <1>11, <1>13 DEF CeilingHolds, Working, Recovering
\* The driver is queued again for its repeat.
LEMMA CeilingRetries ==
  ASSUME TurnsHold, RunHolds, RequestsHold, CeilingHolds, phase \in Recovering,
         queue' = [queue EXCEPT ![active] = <<current>> \o @], continueRun, UNCHANGED retryVars
  PROVE  CeilingHolds'
<1>1. active \in Req
  BY ActiveRuns DEF Recovering
<1>2. current \in Req
  BY DriverIsAssigned
<1>3. RequestTypes
  BY DEF RequestsHold
<1> DEFINE longer == <<current>> \o queue[active]
<1>4. longer \in Seq(Req) /\ ToSet(longer) = {current} \union ToSet(queue[active])
  BY <1>1, <1>2, <1>3, PrependSet DEF RequestTypes
<1>5. queue' = [queue EXCEPT ![active] = longer]
  OBVIOUS
<1> HIDE DEF longer
<1>6. \A t \in Req : queue'[t] = IF t = active THEN longer ELSE queue[t]
  BY <1>1, <1>3, <1>5 DEF RequestTypes
<1>7. /\ phase' = "resume" /\ current' = NoReq
      /\ UNCHANGED <<active, standalone, held, draining, steps, failedDriver, failedAttempts, overflows>>
  BY DEF continueRun, turnVars, drainVars, retryVars
<1>8. \A x \in Landing, t \in Req : x \notin ToSet(queue[t])
  BY DEF CeilingHolds, Recovering
<1>9. \A x \in Landing, t \in Req : x \in ToSet(queue'[t]) => x = current /\ t = active
  BY <1>4, <1>6, <1>8
<1>10. IF current \in Landing
         THEN steps = MaxSteps + Repeats /\ failedDriver \in {NoReq, current}
         ELSE steps <= MaxSteps
  BY DEF CeilingHolds
<1>11. Repeats' = Repeats
  BY <1>7 DEF Repeats
<1>12. \A x \in Landing : x \in ToSet(queue'[active']) =>
         /\ steps' = MaxSteps + Repeats' /\ failedDriver' \in {NoReq, x}
         /\ \A u \in Landing : u \in ToSet(queue'[active']) => u = x
  BY <1>1, <1>7, <1>9, <1>10, <1>11
<1>13. /\ failedAttempts' < MaxAttempts /\ overflows' <= MaxOverflows + 1 /\ overflows' <= MaxOverflows
       /\ (failedDriver' = NoReq => failedAttempts' = 0)
       /\ StepsBounded' /\ (\A x \in Landing : Elsewhere(x)')
  BY <1>7 DEF CeilingHolds, StepsBounded, Elsewhere, Recovering
<1>14. \A x \in Landing, t \in Req : x \in ToSet(queue'[t]) => t = active' /\ phase' = "resume"
  BY <1>7, <1>9
<1> QED
  BY <1>7, <1>12, <1>13, <1>14 DEF CeilingHolds, Working, Recovering

LEMMA CeilingReleases ==
  ASSUME TurnsHold, RequestTypes, CeilingHolds, NEW outcome, releaseActiveTurn(outcome)
  PROVE  CeilingHolds'
<1>1. /\ phase' = "idle" /\ steps' = 0 /\ queue' = [queue EXCEPT ![active] = << >>]
      /\ UNCHANGED <<standalone, held, draining, failedDriver, failedAttempts, overflows>>
  BY DEF releaseActiveTurn, drainVars, retryVars
<1>2. \A t \in Req : queue'[t] = IF t = active THEN << >> ELSE queue[t]
  BY <1>1 DEF RequestTypes
<1>3. \A r \in Landing, t \in Req : r \notin ToSet(queue'[t])
  BY <1>2, EmptySet DEF CeilingHolds
<1>4. /\ failedAttempts' < MaxAttempts /\ overflows' <= MaxOverflows + 1
      /\ (failedDriver' = NoReq => failedAttempts' = 0)
      /\ \A r \in Landing : Elsewhere(r)'
  BY <1>1 DEF CeilingHolds, Elsewhere
<1>5. StepsBounded'
  BY <1>1, LimitAssumption DEF StepsBounded
<1> QED
  BY <1>1, <1>3, <1>4, <1>5 DEF CeilingHolds, Working, Recovering

LEMMA CeilingStep ==
  ASSUME TurnsHold, RunHolds, RequestsHold, CeilingHolds, Step
  PROVE  CeilingHolds'
<1>1. CASE HooksDone \/ ModelAnswers \/ ToolsDone \/ StopHookRuns
  BY <1>1, CeilingGoesOn DEF HooksDone, ModelAnswers, ToolsDone, StopHookRuns, turnVars, queueVars,
     drainVars, Working
<1>2. CASE CompleteStep
  <2>1. phase = "complete" /\ UNCHANGED retryVars
    BY <1>2 DEF CompleteStep
  <2>2. ASSUME NEW outcome, endRun(outcome) PROVE CeilingHolds'
    BY <2>1, <2>2, CeilingEnds DEF RequestsHold, retryVars, CeilingHolds
  <2>3. CASE phase' = "begin" /\ UNCHANGED <<turnVars, queueVars, drainVars, steps>>
    BY <2>1, <2>3, CeilingGoesOn DEF turnVars, queueVars, drainVars
  <2> QED
    BY <1>2, <2>2, <2>3 DEF CompleteStep
<1> QED
  BY <1>1, <1>2, CeilingBegins, CeilingAfter DEF Step

LEMMA CeilingFailure ==
  ASSUME TurnsHold, RunHolds, RequestsHold, CeilingHolds, Failure
  PROVE  CeilingHolds'
<1>0. phase \in Working \union Recovering /\ phase # "idle"
  BY DEF Failure, StepAborted, StepFails, RetryableError, BackoffElapsed, BackoffAborted,
     ContextOverflow, Compacted, CompactionFails, Working, Recovering
<1>1. ASSUME UNCHANGED retryVars, NEW outcome, endRun(outcome) PROVE CeilingHolds'
  BY <1>0, <1>1, CeilingEnds DEF RequestsHold, retryVars, CeilingHolds
<1>2. CASE continueRun /\ UNCHANGED <<queue, retryVars>>
  BY <1>0, <1>2, CeilingGoesOn DEF continueRun, turnVars, drainVars
<1>3. CASE phase \in Recovering /\ retryDriver /\ UNCHANGED retryVars
  BY <1>1, <1>3, CeilingRetries DEF retryDriver, requeue
<1>4. CASE StepAborted \/ CompactionFails
  BY <1>1, <1>2, <1>4 DEF StepAborted, CompactionFails, abortStep
<1>5. CASE StepFails \/ BackoffAborted
  BY <1>1, <1>5 DEF StepFails, BackoffAborted
<1>6. CASE BackoffElapsed \/ Compacted
  BY <1>3, <1>6 DEF BackoffElapsed, Compacted, Recovering
<1>7. CASE RetryableError
  <2>1. CASE endRun("failed") /\ failedDriver' = NoReq /\ failedAttempts' = 0 /\ overflows' = overflows
    BY <1>0, <2>1, CeilingEnds, LimitAssumption DEF RequestsHold, CeilingHolds
  <2>2. CASE recoverStep("backoff") /\ failedAttempts' < MaxAttempts
    BY <1>7, <2>2, CeilingRecovers
  <2> QED
    BY <1>7, <2>1, <2>2 DEF RetryableError
<1>8. CASE ContextOverflow
  <2>1. overflows' = overflows + 1 /\ UNCHANGED <<failedDriver, failedAttempts>>
        /\ overflows <= MaxOverflows /\ overflows \in Nat /\ MaxOverflows \in Nat
    BY <1>8, CeilingTypes DEF ContextOverflow, CeilingHolds
  <2>2. CASE overflows < MaxOverflows /\ recoverStep("compacting")
    BY <1>8, <2>2, CeilingRecovers
  <2>3. CASE endRun("failed")
    BY <1>0, <2>1, <2>3, CeilingEnds DEF RequestsHold, CeilingHolds
  <2> QED
    BY <1>8, <2>2, <2>3 DEF ContextOverflow
<1> QED
  BY <1>4, <1>5, <1>6, <1>7, <1>8 DEF Failure

LEMMA CeilingKept ==
  ASSUME TurnsHold, RunHolds, LInv, RequestsHold, CeilingHolds, [Next]_vars
  PROVE  CeilingHolds'
<1>0. LandingsApart
  BY CeilingApart
<1>1. CASE Client \/ Release
  BY <1>0, <1>1, ClientOutside, ReleasingOutside, CeilingOutside
<1>2. CASE PumpAfterTurn
  BY <1>0, <1>2, PumpOutside, CeilingOutside DEF PumpAfterTurn, drainVars
<1>3. CASE UNCHANGED vars
  BY <1>0, <1>3, QuietOutside, CeilingOutside DEF vars, turnVars, drainVars
<1>4. CASE Resume
  BY <1>4, CeilingGoesOn DEF Resume, turnVars, queueVars, drainVars
<1>5. CASE BeginEndsRun
  <2>1. phase = "begin" /\ UNCHANGED <<failedDriver, failedAttempts, overflows>>
    BY <1>5 DEF BeginEndsRun, retryVars
  <2>2. PICK outcome : endRun(outcome)
    BY <1>5 DEF BeginEndsRun
  <2> QED
    BY <2>1, <2>2, CeilingEnds DEF RequestsHold, CeilingHolds
<1>6. CASE ReleaseActiveTurn \/ PrepareFails
  BY <1>6, CeilingReleases DEF ReleaseActiveTurn, PrepareFails, RequestsHold
<1> QED
  BY <1>1, <1>2, <1>3, <1>4, <1>5, <1>6, CeilingStep, CeilingFailure DEF Next, Runner----------------------------------------------------------------------------
(* The retry *)

\* The next step is the retry, unless its step was cancelled.
LEMMA RetryBegins ==
  ASSUME TurnsHold, RunHolds, RequestsHold, RetryHolds, BeginStep,
         failedDriver # NoReq, ~Mergeable(failedDriver)
  PROVE  current' = failedDriver \/ stepState[failedDriver] = "cancelled"
<1> DEFINE q == NotAborted(queue[active])
<1>1. phase = "begin" /\ current' = NextDriver(q) /\ q # << >> /\ failedDriver \in Req
  BY DEF BeginStep, RunHolds
<1>2. active \in Req /\ current = NoReq
  BY <1>1, ActiveRuns DEF RunHolds, Working, Recovering
<1>3. CASE /\ queue[active] # << >> /\ Head(queue[active]) = failedDriver
           /\ reqState[failedDriver] = "materialized"
  <2>1. queue[active] \in Seq(Req)
    BY <1>2 DEF RequestsHold, RequestTypes
  <2>2. Head(queue[active]) \in {r \in Req : reqState[r] # "aborted"}
    BY <1>1, <1>3
  <2>3. q \in Seq(Req) /\ q # << >> /\ Head(q) = failedDriver
    BY <1>1, <1>3, <2>1, <2>2, SelectHead, NotAbortedSet DEF NotAborted
  <2> HIDE DEF q
  <2> QED
    BY <1>1, <2>3, DriverIsQueued
<1> QED
  BY <1>1, <1>2, <1>3 DEF RetryHolds

LEMMA RetryOutside ==
  ASSUME TurnsHold, RunHolds, RequestsHold, RetryHolds, Outside
  PROVE  RetryHolds'
<1>1. CASE runTurn /\ TurnBegins
  <2>1. phase' = "begin" /\ failedDriver' = NoReq
    BY <1>1, RequestAssumption DEF runTurn, TurnBegins
  <2> QED
    BY <2>1 DEF RetryHolds
<1>2. CASE RunLeftAlone
  <2>1. UNCHANGED <<phase, current, failedDriver, active>>
    BY <1>2 DEF RunLeftAlone, runVars, retryVars
  <2>2. phase \in {"begin", "resume"} => active \in Req /\ queue[active] \in Seq(Req)
    BY ActiveRuns DEF RequestsHold, RequestTypes
  <2>3. ASSUME phase \in {"begin", "resume"}, queue[active] # << >>
        PROVE  queue'[active] # << >> /\ Head(queue'[active]) = Head(queue[active])
    <3>1. CASE queue'[active] = queue[active]
      BY <2>3, <3>1
    <3>2. ASSUME NEW r \in Req, queue'[active] = Append(queue[active], r)
          PROVE  queue'[active] # << >> /\ Head(queue'[active]) = Head(queue[active])
      <4> DEFINE q == queue[active]
      <4>1. q \in Seq(Req) /\ q # << >>
        BY <2>2, <2>3
      <4> HIDE DEF q
      <4>2. Append(q, r) # << >> /\ Head(Append(q, r)) = Head(q)
        BY <4>1
      <4> QED
        BY <3>2, <4>2 DEF q
    <3> QED
      BY <1>2, <2>2, <2>3, <3>1, <3>2 DEF RunLeftAlone
  <2>4. failedDriver \in Req \union {NoReq}
    BY DEF RunHolds
  <2> QED
    BY <1>2, <2>1, <2>3, <2>4 DEF RetryHolds, RunLeftAlone
<1> QED
  BY <1>1, <1>2 DEF Outside

\* A step of the run that leaves the failed driver where it was.
LEMMA RetryGoesOn ==
  ASSUME RunHolds, RetryHolds, UNCHANGED <<failedDriver, stepState>>,
         \/ /\ phase \in Working /\ current' = current
            /\ phase' \in Working \union Recovering
         \/ phase = "complete" /\ phase' = "begin"
         \/ /\ phase = "resume" /\ phase' = "begin"
            /\ UNCHANGED <<active, queue, reqState>>
         \/ /\ phase \in Working \union Recovering /\ phase' = "resume"
            /\ stepState[current] = "cancelled"
  PROVE  RetryHolds'
  BY DEF RetryHolds, RunHolds, Working, Recovering

LEMMA RetryRequeues ==
  ASSUME TurnsHold, RunHolds, RequestsHold, RetryHolds, phase \in Recovering,
         queue' = [queue EXCEPT ![active] = <<current>> \o @],
         stepState' = [stepState EXCEPT ![current] = "queued"],
         continueRun, UNCHANGED <<reqState, failedDriver>>
  PROVE  RetryHolds'
<1>1. active \in Req /\ current \in Req /\ reqState[current] = "materialized"
  BY ActiveRuns, DriverIsAssigned DEF Recovering
<1>2. failedDriver \in Req \union {NoReq} /\ queue \in [Req -> Seq(Req)]
      /\ stepState \in [Req -> {"none", "queued", "running", "completed", "cancelled"}]
  BY DEF RunHolds, RequestsHold, RequestTypes
<1>3. phase' = "resume" /\ active' = active
  BY DEF continueRun, turnVars
<1>4. queue'[active] # << >> /\ Head(queue'[active]) = current
  <2> DEFINE q == queue[active]
  <2>1. q \in Seq(Req) /\ queue'[active] = <<current>> \o q
    BY <1>1, <1>2
  <2> HIDE DEF q
  <2>2. <<current>> \o q # << >> /\ Head(<<current>> \o q) = current
    BY <1>1, <2>1
  <2> QED
    BY <2>1, <2>2
<1>5. failedDriver # NoReq /\ failedDriver # current => stepState'[failedDriver] = stepState[failedDriver]
  BY <1>2
<1> QED
  BY <1>1, <1>3, <1>4, <1>5 DEF RetryHolds, Recovering

LEMMA RetryStep ==
  ASSUME TurnsHold, RunHolds, RequestsHold, RetryHolds, Step
  PROVE  RetryHolds'
<1>1. CASE BeginStep
  <2>1. phase = "begin" /\ phase' = "hooks" /\ failedDriver' = failedDriver
        /\ stepState' = [stepState EXCEPT ![current'] = "running"]
    BY <1>1 DEF BeginStep, retryVars
  <2>2. failedDriver \in Req \union {NoReq}
        /\ stepState \in [Req -> {"none", "queued", "running", "completed", "cancelled"}]
    BY DEF RunHolds, RequestsHold, RequestTypes
  <2>3. failedDriver # NoReq /\ current' # failedDriver => stepState'[failedDriver] = stepState[failedDriver]
    BY <2>1, <2>2
  <2> QED
    BY <1>1, <2>1, <2>3, RetryBegins DEF RetryHolds
<1>2. CASE HooksDone \/ ModelAnswers \/ ToolsDone \/ StopHookRuns
  BY <1>2, RetryGoesOn DEF HooksDone, ModelAnswers, ToolsDone, StopHookRuns, Working, retryVars, reqVars
<1>3. CASE AfterStep
  BY <1>3 DEF AfterStep, RetryHolds
<1>4. CASE CompleteStep
  <2>1. phase = "complete" /\ failedDriver' = NoReq
    BY <1>4 DEF CompleteStep, retryVars, RetryHolds
  <2>2. phase' \in {"ending", "begin"}
    BY <1>4 DEF CompleteStep, endRun
  <2> QED
    BY <2>1, <2>2 DEF RetryHolds
<1> QED
  BY <1>1, <1>2, <1>3, <1>4 DEF Step

LEMMA RetryFailure ==
  ASSUME TurnsHold, RunHolds, RequestsHold, RetryHolds, Failure
  PROVE  RetryHolds'
<1>0. phase \in Working \union Recovering
  BY DEF Failure, StepAborted, StepFails, RetryableError, BackoffElapsed, BackoffAborted,
     ContextOverflow, Compacted, CompactionFails, Working, Recovering
<1>1. CASE RunEnds
  BY <1>1 DEF RunEnds, endRun, RetryHolds
<1>2. CASE continueRun /\ stepState[current] = "cancelled" /\ UNCHANGED <<stepState, retryVars>>
  BY <1>0, <1>2, RetryGoesOn DEF continueRun, retryVars
<1>3. CASE phase \in Recovering /\ retryDriver /\ UNCHANGED retryVars
  BY <1>1, <1>3, RetryRequeues DEF retryDriver, requeue, RunEnds, Turns!Outcome, retryVars
<1>4. CASE StepAborted \/ CompactionFails
  BY <1>1, <1>2, <1>4 DEF StepAborted, CompactionFails, abortStep, RunEnds, Turns!Outcome
<1>5. CASE StepFails \/ BackoffAborted
  BY <1>1, <1>5 DEF StepFails, BackoffAborted, RunEnds, Turns!Outcome
<1>6. CASE BackoffElapsed \/ Compacted
  BY <1>3, <1>6 DEF BackoffElapsed, Compacted, Recovering
<1>7. CASE RetryableError
  <2>1. CASE recoverStep("backoff") /\ failedDriver' = current
    BY <2>1 DEF recoverStep, RetryHolds
  <2> QED
    BY <1>1, <1>7, <2>1 DEF RetryableError, RunEnds, Turns!Outcome
<1>8. CASE ContextOverflow
  <2>1. CASE recoverStep("compacting")
    BY <1>8, <2>1, RetryGoesOn DEF ContextOverflow, recoverStep, Working, Recovering
  <2> QED
    BY <1>1, <1>8, <2>1 DEF ContextOverflow, RunEnds, Turns!Outcome
<1> QED
  BY <1>4, <1>5, <1>6, <1>7, <1>8 DEF Failure

LEMMA RetryKept ==
  ASSUME TurnsHold, RunHolds, LInv, RequestsHold, CeilingHolds, RetryHolds, [Next]_vars
  PROVE  RetryHolds'
<1>0. LandingsApart
  BY CeilingApart
<1>1. CASE Client \/ Release
  BY <1>0, <1>1, ClientOutside, ReleasingOutside, RetryOutside
<1>2. CASE PumpAfterTurn
  BY <1>0, <1>2, PumpOutside, RetryOutside DEF PumpAfterTurn, drainVars
<1>3. CASE UNCHANGED vars
  BY <1>0, <1>3, QuietOutside, RetryOutside DEF vars, turnVars, drainVars
<1>4. CASE Resume
  BY <1>4, RetryGoesOn DEF Resume, turnVars, queueVars, reqVars, retryVars
<1>5. CASE BeginEndsRun
  BY <1>5 DEF BeginEndsRun, endRun, RetryHolds
<1>6. CASE ReleaseActiveTurn \/ PrepareFails
  BY <1>6 DEF ReleaseActiveTurn, PrepareFails, releaseActiveTurn, RetryHolds
<1> QED
  BY <1>1, <1>2, <1>3, <1>4, <1>5, <1>6, RetryStep, RetryFailure DEF Next, Runner----------------------------------------------------------------------------
(* What the loop keeps true, in every state of every execution *)

LoopHolds ==
  /\ LInv /\ TurnsHold /\ RunHolds /\ WakeHolds /\ RequestsHold /\ CeilingHolds /\ RetryHolds

LEMMA InitHolds == Init => LoopHolds
<1> SUFFICES ASSUME Init PROVE LoopHolds
  OBVIOUS
<1>1. /\ reqState = [r \in Req |-> "new"] /\ receipt = [r \in Req |-> "none"]
      /\ stepTurn = [r \in Req |-> NoReq] /\ stepState = [r \in Req |-> "none"]
      /\ queue = [t \in Req |-> << >>] /\ standalone = << >> /\ held = << >> /\ draining = << >>
      /\ inDrain = FALSE /\ pumpDue = FALSE /\ waiting = FALSE
      /\ phase = "idle" /\ current = NoReq /\ steps = 0 /\ finish = "none"
      /\ failedDriver = NoReq /\ failedAttempts = 0 /\ overflows = 0
      /\ active = NoReq /\ leases = 0 /\ disposing = FALSE
  BY DEF Init, Turns!Init
<1>2. RunHolds
  BY <1>1 DEF RunHolds, Phases, Working, Recovering
<1>3. WakeHolds
  BY <1>1 DEF WakeHolds, NoMissedWakeup
<1>4. IsInjective(<< >>) /\ ToSet(<< >>) = {}
  BY EmptySet DEF IsInjective
<1>5. \A r \in Req : Unassigned(r) /\ Elsewhere(r)
  BY <1>1, <1>4 DEF Unassigned, Elsewhere
<1>6. RequestsHold
  <2>1. RequestTypes
    BY <1>1 DEF RequestTypes
  <2>2. Apart
    BY <1>1, <1>4 DEF Apart
  <2>3. \A r \in Req : RequestHolds(r)
    BY <1>1, <1>5 DEF RequestHolds
  <2> QED
    BY <1>1, <2>1, <2>2, <2>3 DEF RequestsHold, DriverHolds, NothingToSweep, NobodyWaits
<1>7. CeilingHolds
  <2>1. \A r \in Landing : Elsewhere(r) /\ \A t \in Req : r \notin ToSet(queue[t])
    BY <1>5 DEF Landing, Unassigned
  <2> QED
    BY <1>1, <2>1, LimitAssumption DEF CeilingHolds, StepsBounded, Working, Recovering
<1>8. RetryHolds
  BY <1>1 DEF RetryHolds
<1> QED
  BY <1>2, <1>3, <1>6, <1>7, <1>8, InitTurns, InitRefines DEF LoopHolds

LEMMA HoldsGoesOn == LoopHolds /\ [Next]_vars => LoopHolds'
<1> SUFFICES ASSUME LoopHolds, [Next]_vars PROVE LoopHolds'
  OBVIOUS
<1>1. LInv /\ TurnsHold /\ RunHolds /\ WakeHolds /\ RequestsHold /\ CeilingHolds /\ RetryHolds
  BY DEF LoopHolds
<1>2. RequestTypes /\ HeldAreRequests
  BY <1>1 DEF RequestsHold, LInv
<1>3. LInv' /\ TurnsHold'
  BY <1>1, NextRefines, TurnsGoOn DEF Refined
<1>4. RunHolds' /\ WakeHolds'
  BY <1>1, <1>2, RunGoesOnWell, WakesGoOn
<1>5. RequestsHold' /\ CeilingHolds' /\ RetryHolds'
  BY <1>1, RequestsKept, CeilingKept, RetryKept
<1> QED
  BY <1>3, <1>4, <1>5 DEF LoopHolds

LEMMA AlwaysHolds == Spec => []LoopHolds
  BY InitHolds, HoldsGoesOn, PTL DEF Spec

LEMMA HoldsSuffices == LoopHolds => LoopInvariant /\ NoRequestLost /\ PromisesSettle
<1> SUFFICES ASSUME LoopHolds PROVE LoopInvariant /\ NoRequestLost /\ PromisesSettle
  OBVIOUS
<1>1. TurnsHold /\ RunHolds /\ WakeHolds /\ RequestsHold /\ CeilingHolds /\ RequestTypes
  BY DEF LoopHolds, RequestsHold
<1>2. TypeOK
  BY <1>1 DEF TypeOK, TurnsHold, RunHolds, WakeHolds, RequestTypes, Phases, Working, Recovering
<1>3. LeaseExcludesWork
  BY <1>1, NothingPending DEF LeaseExcludesWork, TurnsHold, RequestsHold, RequestTypes, NothingToSweep
<1>4. LoopInvariant
  BY <1>1, <1>2, <1>3 DEF LoopInvariant, WakeHolds, CeilingHolds
<1>5. \A r \in Req : RequestHolds(r) /\ receipt[r] \in {"none", "waiting", "assigned", "rejected"}
  BY <1>1 DEF RequestsHold, RequestTypes
<1>6. NoRequestLost
  BY <1>5 DEF NoRequestLost, RequestHolds, Elsewhere
<1>7. \A r \in Req : stepState[r] \in {"queued", "running"} => turnState[stepTurn[r]] \in Turns!Live
  BY <1>5 DEF RequestHolds, Unassigned
<1>8. PromisesSettle
  BY <1>1, <1>7 DEF PromisesSettle, RequestsHold, NobodyWaits
<1> QED
  BY <1>4, <1>6, <1>8

\* The bookkeeping of the loop is right in every state: the types hold, nobody
\* who called settled() is forgotten when the loop empties (maybeSettle), a
\* quiescence lease excludes every turn and every request a turn would take over
\* (tryAcquireQuiescence), and no turn makes more than MaxSteps model calls, the
\* landing call and the repeats that stepRetry and fullCompaction count, however
\* the two alternate and whatever is enqueued meanwhile.
THEOREM LoopKeepsItsBooks == Spec => []LoopInvariant
  BY AlwaysHolds, HoldsSuffices, PTL

\* A request that was accepted and is still pending is where the loop will find it
\* (enqueue, moveStandaloneStepsTo, releaseQuiescence, abortTurnScoped): held, in
\* the loop of the release, waiting for a turn, or queued in a turn that lives.
THEOREM NoRequestIsLost == Spec => []NoRequestLost
  BY AlwaysHolds, HoldsSuffices, PTL

\* No promise outlives what would settle it: a step that has no result belongs to a
\* turn that has not ended (releaseActiveTurn, cancelQueuedTurn), and after
\* dispose no receipt is waiting.
THEOREM PromisesAreSettled == Spec => []PromisesSettle
  BY AlwaysHolds, HoldsSuffices, PTL

----------------------------------------------------------------------------
(* Who becomes the driver *)

\* Only takeNextBatch makes a request the driver.
LEMMA OnlyBatchesDrive ==
  ASSUME LoopHolds, [Next]_vars, current' \notin {current, NoReq}
  PROVE  BeginStep
<1>1. TurnsHold /\ RunHolds /\ LInv /\ RequestsHold /\ LandingsApart
  BY CeilingApart DEF LoopHolds
<1>2. Outside => current' \in {current, NoReq}
  BY RequestAssumption DEF Outside, RunLeftAlone, runTurn, TurnBegins, runVars
<1>3. ~Client /\ ~Release
  BY <1>1, <1>2, ClientOutside, ReleasingOutside
<1>4. ~PumpAfterTurn
  BY <1>1, <1>2, PumpOutside DEF PumpAfterTurn, drainVars
<1>5. ~UNCHANGED vars
  BY DEF vars, runVars
<1>6. ~ReleaseActiveTurn /\ ~PrepareFails /\ ~Resume /\ ~BeginEndsRun
  BY DEF ReleaseActiveTurn, PrepareFails, releaseActiveTurn, Resume, BeginEndsRun, endRun
<1>7. ~HooksDone /\ ~ModelAnswers /\ ~ToolsDone /\ ~StopHookRuns /\ ~AfterStep /\ ~CompleteStep
  BY DEF HooksDone, ModelAnswers, ToolsDone, StopHookRuns, AfterStep, CompleteStep, endRun
<1>8. ~Failure
  BY DEF Failure, StepAborted, StepFails, RetryableError, BackoffElapsed, BackoffAborted,
     ContextOverflow, Compacted, CompactionFails, abortStep, retryDriver, continueRun, recoverStep,
     endRun
<1> QED
  BY <1>3, <1>4, <1>5, <1>6, <1>7, <1>8 DEF Next, Runner, Step

\* A request that was aborted before its step began never drives a model call
\* (takeNextBatch drops the aborted), whatever turn it was moved to meanwhile.
THEOREM AbortedNeverDrive == Spec => AbortedNeverDrives
<1>1. LoopHolds /\ [Next]_vars => [current' \notin {current, NoReq} => reqState[current'] # "aborted"]_vars
  <2> SUFFICES ASSUME LoopHolds, [Next]_vars, current' \notin {current, NoReq}
               PROVE  reqState[current'] # "aborted"
    OBVIOUS
  <2>1. BeginStep
    BY OnlyBatchesDrive
  <2>2. active \in Req /\ RequestTypes
    BY <2>1, ActiveRuns DEF LoopHolds, RequestsHold, BeginStep
  <2> QED
    BY <2>1, <2>2, BeginStepMoves
<1> QED
  BY <1>1, AlwaysHolds, PTL DEF Spec, AbortedNeverDrives

\* After a retryable error the next step is the repeat of the driver that failed
\* (stepRetry's retry at the head of the queue), whatever was enqueued during the
\* backoff, unless its step was cancelled or it is one that gives way.
THEOREM RetriesComeFirst == Spec => RetryComesFirst
<1> DEFINE First == /\ current = NoReq /\ current' # NoReq
                    /\ failedDriver # NoReq /\ ~Mergeable(failedDriver)
                    => current' = failedDriver \/ stepState[failedDriver] = "cancelled"
<1>1. LoopHolds /\ [Next]_vars => [First]_vars
  <2> SUFFICES ASSUME LoopHolds, [Next]_vars, current = NoReq, current' # NoReq,
                      failedDriver # NoReq, ~Mergeable(failedDriver)
               PROVE  current' = failedDriver \/ stepState[failedDriver] = "cancelled"
    OBVIOUS
  <2>1. BeginStep
    BY OnlyBatchesDrive
  <2> QED
    BY <2>1, RetryBegins DEF LoopHolds
<1> QED
  BY <1>1, AlwaysHolds, PTL DEF Spec, RetryComesFirst
============================================================================
