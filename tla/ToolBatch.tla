------------------------------- MODULE ToolBatch -------------------------------
(***************************************************************************)
(* The tool calls of one step: AgentToolExecutorService.execute prepares   *)
(* them one by one (adjudication by the veto listeners, among them the     *)
(* dedupe service), hands them to the scheduler together, and finalizes    *)
(* each result through the onDidExecuteTool hooks as it arrives.  A tool   *)
(* that does not stop when the turn is aborted is left behind after a      *)
(* grace and goes on in the background.                                    *)
(*                                                                         *)
(* The hooks are run in the order of their registration: the delivery of   *)
(* the prompt service comes before the dedupe service.                     *)
(***************************************************************************)
EXTENDS ToolScheduler, ToolAccesses

CONSTANTS Keys, KeyOf,      \* tool name and arguments of a call (makeKey)
          NoAccess,         \* the accesses of a call that runs nothing
          Delivers,         \* calls whose result carries a steer to deliver
          PlanAllows,       \* calls plan mode allows outright when it is on (Edit of the plan)
          MayDispose        \* whether the agent may be disposed meanwhile

ASSUME BatchAssumption ==
    /\ KeyOf \in [Calls -> Keys] /\ NoAccess \in Accesses
    /\ Delivers \subseteq Calls /\ PlanAllows \subseteq Calls /\ MayDispose \in BOOLEAN

\* The scheduler is used with ToolAccesses.conflict.
ASSUME ConflictAssumption ==
    /\ Accesses \subseteq SUBSET AccessType
    /\ \A a, b \in Accesses : Conflict(a, b) = conflict(a, b)

VARIABLES phase,      \* "prepare", "run", or "thrown" when execute rejected
          prepared,   \* how many calls are prepared
          stopBatch,  \* a call asked to stop the batch: the rest is skipped
          asking,     \* the call being prepared waits for the user's approval
          plan,       \* "none", "resolved" (its result is known) or "run"
          check,      \* dedupe: "none", "original" or "synthetic"
          deferred,   \* keys of stepDeferreds
          shared,     \* the call whose result the deferred of a key was resolved with, or 0
          executing,  \* calls whose tool code runs
          begun,      \* calls whose tool code ever ran
          raw,        \* the result of the scheduler's task: "none", "error", "ok"
          answer,     \* 0, or the call whose result the yielded result is
          final,      \* "no", "waiting" on the deferred, "done"
          aborted,    \* the turn's signal
          disposed    \* the loop is disposed

batchVars == <<phase, prepared, stopBatch, asking, plan, check, deferred, shared, executing, begun,
               raw, answer, final, aborted, disposed>>
vars == <<schedulerVars, batchVars>>

TypeOK ==
    /\ SchedulerTypeOK
    /\ phase \in {"prepare", "run", "thrown"} /\ prepared \in 0..N
    /\ stopBatch \in BOOLEAN /\ asking \in BOOLEAN
    /\ plan \in [Calls -> {"none", "resolved", "run"}]
    /\ check \in [Calls -> {"none", "original", "synthetic"}]
    /\ deferred \subseteq Keys /\ shared \in [Keys -> 0..N]
    /\ executing \subseteq begun /\ begun \subseteq Calls
    /\ raw \in [Calls -> {"none", "error", "ok"}]
    /\ answer \in [Calls -> 0..N] /\ final \in [Calls -> {"no", "waiting", "done"}]
    /\ aborted \in BOOLEAN /\ disposed \in BOOLEAN

Init ==
    /\ accesses = [c \in Calls |-> NoAccess] /\ status = [c \in Calls |-> "new"]
    /\ phase = "prepare" /\ prepared = 0 /\ stopBatch = FALSE /\ asking = FALSE
    /\ plan = [c \in Calls |-> "none"] /\ check = [c \in Calls |-> "none"]
    /\ deferred = {} /\ shared = [k \in Keys |-> 0]
    /\ executing = {} /\ begun = {}
    /\ raw = [c \in Calls |-> "none"] /\ answer = [c \in Calls |-> 0]
    /\ final = [c \in Calls |-> "no"]
    /\ aborted = FALSE /\ disposed = FALSE

-----------------------------------------------------------------------------
(* Preparation: one call at a time, in provider order. *)

Preparing(c) == phase = "prepare" /\ prepared < N /\ c = prepared + 1

\* checkToolCall: the first call with a key is the original of the step, and the
\* deferred of the key exists from then on.
CheckToolCall(c) ==
    /\ check' = [check EXCEPT ![c] = IF KeyOf[c] \in deferred THEN "synthetic" ELSE "original"]
    /\ deferred' = deferred \cup {KeyOf[c]}
    /\ UNCHANGED shared

\* A call that will run nothing: settleError, settleSynthetic and skipped calls.
Resolved(c, stop) ==
    /\ plan' = [plan EXCEPT ![c] = "resolved"]
    /\ prepared' = c /\ asking' = FALSE
    /\ stopBatch' = (stopBatch \/ stop)
    /\ UNCHANGED accesses

\* A call that goes to the scheduler with what its tool declares to touch.
Runnable(c, stop) ==
    /\ plan' = [plan EXCEPT ![c] = "run"]
    /\ \E a \in Accesses : accesses' = [accesses EXCEPT ![c] = a]
    /\ prepared' = c /\ asking' = FALSE
    /\ stopBatch' = (stopBatch \/ stop)

PrepareFrame == UNCHANGED <<status, phase, executing, begun, raw, answer, final, aborted, disposed>>

\* After a call that stops the batch.
PrepareSkipped(c) ==
    /\ Preparing(c) /\ stopBatch
    /\ Resolved(c, FALSE) /\ UNCHANGED <<check, deferred, shared>> /\ PrepareFrame

\* Rejected before the listeners are asked (unknown tool, bad arguments, an aborted
\* turn), or vetoed by a listener registered before the dedupe service.
PrepareSettled(c) ==
    /\ Preparing(c) /\ ~stopBatch /\ ~asking
    /\ \E stop \in BOOLEAN : Resolved(c, stop /\ ~aborted)
    /\ UNCHANGED <<check, deferred, shared>> /\ PrepareFrame

\* Plan mode is on and allows the call outright: no later listener is asked, the
\* dedupe service neither.
PrepareAllowed(c) ==
    /\ Preparing(c) /\ ~stopBatch /\ ~asking /\ ~aborted /\ c \in PlanAllows
    /\ Runnable(c, FALSE) /\ UNCHANGED <<check, deferred, shared>> /\ PrepareFrame

\* Mutant: the placeholder does not stop the duplicate.
PrepareChecked_bug(c) ==
    /\ Preparing(c) /\ ~stopBatch /\ ~asking /\ ~aborted
    /\ CheckToolCall(c)
    /\ \E stop \in BOOLEAN : Resolved(c, stop) \/ Runnable(c, stop)
    /\ PrepareFrame

\* The dedupe listener is asked, and no listener waits for the user.
PrepareChecked(c) ==
    /\ Preparing(c) /\ ~stopBatch /\ ~asking /\ ~aborted
    /\ CheckToolCall(c)
    /\ \E stop \in BOOLEAN :
          \/ /\ check'[c] = "synthetic" /\ ~stop       \* vetoed with the placeholder
             /\ Resolved(c, stop)
          \/ check'[c] = "original" /\ Resolved(c, stop)       \* vetoed by a later listener
          \/ check'[c] = "original" /\ Runnable(c, stop)
    /\ PrepareFrame

\* requestToolApproval of an original: the user is asked.
Ask(c) ==
    /\ Preparing(c) /\ ~stopBatch /\ ~asking /\ ~aborted
    /\ KeyOf[c] \notin deferred
    /\ CheckToolCall(c) /\ asking' = TRUE
    /\ UNCHANGED <<accesses, plan, prepared, stopBatch>> /\ PrepareFrame

\* The user answers.
Answered(c) ==
    /\ Preparing(c) /\ asking /\ ~aborted
    /\ Runnable(c, FALSE) \/ Resolved(c, FALSE)
    /\ UNCHANGED <<check, deferred, shared>> /\ PrepareFrame

\* The turn is aborted while the user is asked: requestToolApproval rethrows, and
\* with it execute.  Calls prepared before are neither run nor finalized.
ApprovalAborted(c) ==
    /\ Preparing(c) /\ asking /\ aborted
    /\ phase' = "thrown" /\ asking' = FALSE
    /\ UNCHANGED <<schedulerVars, prepared, stopBatch, plan, check, deferred, shared,
                   executing, begun, raw, answer, final, aborted, disposed>>

-----------------------------------------------------------------------------
(* The scheduler's tasks. *)

\* Mutant: the signal is not looked at.
BeginsTools_bug == {c \in Calls : status'[c] = "active" /\ status[c] # "active" /\ plan[c] = "run"}

\* runSingleExecution of the calls the scheduler has just started: nothing is run
\* once the turn is aborted.
Started == {c \in Calls : status'[c] = "active" /\ status[c] # "active"}
BeginsTools == {c \in Started : plan[c] = "run" /\ ~aborted}

RunSingleExecution ==
    /\ executing' = (executing \ {c \in Calls : status[c] = "active" /\ status'[c] = "done"})
                       \cup BeginsTools
    /\ begun' = begun \cup BeginsTools

TaskFrame == UNCHANGED <<prepared, stopBatch, asking, plan, check, deferred, shared, answer, final,
                         aborted, disposed>>

\* executeBatch adds every task synchronously.
ExecuteBatch ==
    /\ phase = "prepare" /\ prepared = N
    /\ AddAll /\ phase' = "run"
    /\ executing' = executing \cup BeginsTools /\ begun' = begun \cup BeginsTools
    /\ UNCHANGED raw /\ TaskFrame

\* A tool the executor waits for returns or fails.
ToolReturns(c) ==
    /\ c \in executing /\ status[c] = "active"
    /\ Finish(c) /\ RunSingleExecution
    /\ \E r \in {"ok", "error"} : raw' = [raw EXCEPT ![c] = r]
    /\ UNCHANGED phase /\ TaskFrame

\* A task that runs nothing: a resolved call, or one started after the abort.
TaskResolves(c) ==
    /\ status[c] = "active" /\ c \notin executing
    /\ Finish(c) /\ RunSingleExecution
    /\ raw' = [raw EXCEPT ![c] = "error"]
    /\ UNCHANGED phase /\ TaskFrame

\* Mutant: the task is dropped without telling the scheduler's queue.
GraceExpires_bug(c) ==
    /\ aborted /\ c \in executing /\ status[c] = "active"
    /\ status' = [status EXCEPT ![c] = "done"]
    /\ raw' = [raw EXCEPT ![c] = "error"]
    /\ UNCHANGED <<accesses, executing, begun, phase>> /\ TaskFrame

\* Mutant: only a disposed agent gives tools up.
GraceExpires_late(c) ==
    /\ disposed /\ c \in executing /\ status[c] = "active"
    /\ Finish(c)
    /\ executing' = executing \cup BeginsTools /\ begun' = begun \cup BeginsTools
    /\ raw' = [raw EXCEPT ![c] = "error"]
    /\ UNCHANGED phase /\ TaskFrame

\* raceWithAbortGrace: the grace is over, the tool is no longer waited for.
GraceExpires(c) ==
    /\ aborted /\ c \in executing /\ status[c] = "active"
    /\ Finish(c)
    /\ executing' = executing \cup BeginsTools /\ begun' = begun \cup BeginsTools
    /\ raw' = [raw EXCEPT ![c] = "error"]
    /\ UNCHANGED phase /\ TaskFrame

\* A tool left behind ends at last.
LeftToolEnds(c) ==
    /\ c \in executing /\ status[c] = "done"
    /\ executing' = executing \ {c}
    /\ UNCHANGED <<schedulerVars, phase, prepared, stopBatch, asking, plan, check, deferred, shared,
                   begun, raw, answer, final, aborted, disposed>>

-----------------------------------------------------------------------------
(* Finalization: the onDidExecuteTool hooks of one result. *)

Settle(c, from) ==
    /\ answer' = [answer EXCEPT ![c] = from]
    /\ final' = [final EXCEPT ![c] = "done"]

\* finalizeResult of the original: its result settles the deferred of the key.
FinalizeOriginal(c) ==
    /\ check' = [check EXCEPT ![c] = "original"]
    /\ deferred' = deferred \cup {KeyOf[c]}
    /\ shared' = [shared EXCEPT ![KeyOf[c]] = c]
    /\ Settle(c, c)

\* Mutant: the placeholder is the result.
FinalizeSynthetic_bug(c) ==
    /\ check' = [check EXCEPT ![c] = "synthetic"]
    /\ Settle(c, c)
    /\ UNCHANGED <<deferred, shared>>

\* finalizeResult of a duplicate: it waits for the deferred of the key.
FinalizeSynthetic(c) ==
    /\ check' = [check EXCEPT ![c] = "synthetic"]
    /\ final' = [final EXCEPT ![c] = "waiting"]
    /\ UNCHANGED <<answer, deferred, shared>>

\* deliverToolResult runs first: loop.enqueue throws once the loop is disposed, and
\* then no later hook sees the result.  registerSkipped checks a call no listener
\* has checked.
Finalize(c) ==
    /\ status[c] = "done" /\ final[c] = "no" /\ phase = "run"
    /\ IF disposed /\ c \in Delivers /\ raw[c] = "ok"
       THEN Settle(c, c) /\ UNCHANGED <<check, deferred, shared>>
       ELSE \/ /\ \/ check[c] = "original"
                  \/ check[c] = "none" /\ KeyOf[c] \notin deferred
               /\ FinalizeOriginal(c)
            \/ /\ \/ check[c] = "synthetic"
                  \/ check[c] = "none" /\ KeyOf[c] \in deferred
               /\ FinalizeSynthetic(c)
    /\ UNCHANGED <<schedulerVars, phase, prepared, stopBatch, asking, plan, executing, begun,
                   raw, aborted, disposed>>

\* The deferred a duplicate waits for is resolved.
DuplicateResolves(c) ==
    /\ final[c] = "waiting" /\ shared[KeyOf[c]] # 0
    /\ Settle(c, shared[KeyOf[c]])
    /\ UNCHANGED <<schedulerVars, phase, prepared, stopBatch, asking, plan, check, deferred, shared,
                   executing, begun, raw, aborted, disposed>>

-----------------------------------------------------------------------------

AbortFrame ==
    UNCHANGED <<schedulerVars, phase, prepared, stopBatch, asking, plan, check, deferred, shared,
                executing, begun, raw, answer, final>>

\* The user cancels the turn.
Abort == ~aborted /\ aborted' = TRUE /\ UNCHANGED disposed /\ AbortFrame

\* agentLifecycle.remove disposes the loop, which aborts the turn.
Dispose == MayDispose /\ ~disposed /\ disposed' = TRUE /\ aborted' = TRUE /\ AbortFrame

\* The step is over and so are the tools it left behind.
Over ==
    /\ phase = "thrown" \/ \A c \in Calls : final[c] = "done"
    /\ executing = {}
    /\ UNCHANGED vars

Prepare(c) ==
    \/ PrepareSkipped(c) \/ PrepareSettled(c) \/ PrepareAllowed(c) \/ PrepareChecked(c)
    \/ Ask(c) \/ ApprovalAborted(c)

Task(c) == ToolReturns(c) \/ TaskResolves(c) \/ GraceExpires(c)

Next ==
    \/ \E c \in Calls :
          \/ PrepareSkipped(c) \/ PrepareSettled(c) \/ PrepareAllowed(c) \/ PrepareChecked(c)
          \/ Ask(c) \/ Answered(c) \/ ApprovalAborted(c)
          \/ ToolReturns(c) \/ TaskResolves(c) \/ GraceExpires(c) \/ LeftToolEnds(c)
          \/ Finalize(c) \/ DuplicateResolves(c)
    \/ ExecuteBatch
    \/ Abort \/ Dispose
    \/ Over

Spec == Init /\ [][Next]_vars

\* The executor's own steps are taken, the grace timer fires, the user answers.  A
\* tool need not return.  A batch has finitely many of these steps, so to be fair to
\* them together is to be fair to each.
OwnStep ==
    \/ ExecuteBatch
    \/ \E c \in Calls :
          Prepare(c) \/ Answered(c) \/ TaskResolves(c) \/ GraceExpires(c) \/ Finalize(c)
             \/ DuplicateResolves(c)

Fairness == WF_vars(OwnStep)

FairSpec == Spec /\ Fairness

-----------------------------------------------------------------------------
(* Properties *)

\* The batch uses the scheduler as its specification says, so what is proved of the
\* scheduler holds of the batch.
ImplementsScheduler == SchedulerSpec

\* No two tools run at the same time of which one may write what the other touches,
\* not even a tool left behind after the grace (raceWithAbortGrace) and one the
\* scheduler starts when that task is finished.
ConflictingToolsNeverOverlap ==
    \A c, d \in executing : c # d => Independent(accesses[c], accesses[d])

\* A duplicate is answered with the result of the original of its step, whatever
\* order they are prepared, run and finalized in (checkToolCall, finalizeResult).
DuplicatesShareTheResult ==
    \A c, d \in Calls :
        final[c] = "done" /\ check[c] = "synthetic" /\ check[d] = "original"
            /\ KeyOf[c] = KeyOf[d] => answer[c] = d

\* A call whose tool ran is answered with its own result; only for a call that ran
\* because plan mode allowed it, unchecked, registerSkipped may find out afterwards
\* that it is a duplicate, and then it is answered with the result of its original.
RanCallKeepsItsResult ==
    \A c \in begun : final[c] = "done" =>
        \/ answer[c] = c
        \/ c \in PlanAllows /\ answer[c] \in Calls /\ KeyOf[answer[c]] = KeyOf[c]

\* Same-step duplicates are vetoed with a placeholder (the veto listener of
\* toolDedupeService): of the calls with one key at most one runs, those aside
\* that plan mode allows before the listener is asked.
DuplicatesNeverRun ==
    \A c, d \in begun \ PlanAllows : KeyOf[c] = KeyOf[d] => c = d

\* Conflicting calls run in the order the model asked for them, and of several
\* calls with one key only the original reaches a tool.
BatchInvariant == TypeOK /\ ConflictsInOrder /\ DuplicatesNeverRun

\* Every call that was prepared (tool.call.started) is answered, or execute throws,
\* unless a tool hangs in a turn that nobody aborts; a tool that ignores the abort
\* does not hold up the answers.  An answered call stays so: it is enough that again
\* and again none is owed.
EveryCallIsAnswered ==
    \/ <>[](executing # {} /\ ~aborted) \/ <>disposed
    \/ []<>(phase = "thrown" \/ \A c \in Calls : plan[c] # "none" => final[c] = "done")
=============================================================================
