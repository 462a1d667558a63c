-------------------------- MODULE FullCompaction --------------------------
(***************************************************************************)
(* The compactions of one agent (fullCompactionService.ts): at most one is  *)
(* the running one, its worker asks a model for a summary, replaces the     *)
(* history by it and has the context rebuilt, and every wait of the worker  *)
(* may find that the compaction has been cancelled meanwhile.  The begins   *)
(* and ends go to the log, where a replay reads off whether one runs.       *)
(*                                                                         *)
(* A compaction is cancelled exactly when its signal is aborted (cancelActive *)
(* and the listener of begin call each other), so the signal is not a       *)
(* variable.  Counters and token estimates only decide whether a compaction *)
(* begins and whether a fold of the history would help.  The actions leave  *)
(* the variables of the module that extends this one open.                  *)
(***************************************************************************)
EXTENDS Naturals, Sequences, SequencesExt

CONSTANT MaxCompactions  \* bound on the compactions that begin

ASSUME CompactionsAreBounded == MaxCompactions \in Nat

\* Compactions are numbered as they begin.
Compaction == 1 .. MaxCompactions
NoCompaction == 0

VARIABLES
  compacting,  \* this._compacting
  worker,      \* where the worker of each compaction waits
  logged       \* the compaction that the records in the log leave running

compactionVars == <<compacting, worker, logged>>

CompactionTypeOK ==
  /\ {compacting, logged} \subseteq Compaction \union {NoCompaction}
  /\ worker \in [Compaction -> {"none", "round", "rebuild", "done"}]

CompactionInit ==
  /\ compacting = NoCompaction /\ logged = NoCompaction
  /\ worker = [c \in Compaction |-> "none"]

Begin(c) ==
  /\ compacting = NoCompaction
  /\ worker[c] = "none" /\ \A d \in 1 .. c - 1 : worker[d] # "none"
  /\ compacting' = c
  /\ worker' = [worker EXCEPT ![c] = "round"]
  /\ logged' = c

\* cancelActive: nothing happens for a compaction that is not the running one.
cancelActive(c) ==
  IF compacting = c
    THEN compacting' = NoCompaction /\ logged' = NoCompaction
    ELSE UNCHANGED <<compacting, logged>>

\* The user, or the abort of the turn that waits for it, aborts the running
\* compaction.  Its worker notices later.
Abort ==
  /\ compacting # NoCompaction
  /\ cancelActive(compacting)
  /\ UNCHANGED worker

\* The history is replaced by the summary, or folded; then the worker has the system
\* prompt rebuilt and the reminders appended, and looks at nothing in between.
rewrite(c) ==
  /\ worker' = [worker EXCEPT ![c] = "rebuild"]
  /\ UNCHANGED <<compacting, logged>>

\* The model answers.  A request whose signal is aborted answers no more.
Summarized(c) ==
  /\ worker[c] = "round" /\ compacting = c
  /\ rewrite(c)

mayFold_bug(c) == TRUE  \* a transport error does not look like an abort

\* The fallback looks at the compaction again before it touches the history.
mayFold(c) == compacting = c

\* The summarizer gives up, and the history is folded without it.
Folded(c) ==
  /\ worker[c] = "round" /\ mayFold(c)
  /\ rewrite(c)

\* markCompleted
completes == compacting' = NoCompaction /\ logged' = NoCompaction

\* The worker is over.  It completes what is still the running compaction when the
\* reminders are in the context, or it throws: the summary cannot be had, the
\* history has changed in the meantime (then it cancels whatever runs, which is
\* itself, as only the running compaction's request answers), a reminder fails, or
\* the compaction was cancelled.
WorkerEnds(c) ==
  /\ worker' = [worker EXCEPT ![c] = "done"]
  /\ \/ worker[c] = "rebuild" /\ compacting = c /\ completes
     \/ worker[c] \in {"round", "rebuild"} /\ cancelActive(c)

\* Workers whose end is still to come.
Working == {c \in Compaction : worker[c] \in {"round", "rebuild"}}

----------------------------------------------------------------------------

\* The log tells the service's own story, so that a replay finds a compaction running
\* exactly if one is; and nobody but the running one replaces the history, a
\* cancelled worker that is still busy least of all (cancelActive, markCompleted,
\* applyDeterministicFallback).
CompactionsAreSerial ==
  [][/\ logged' = compacting'
     /\ \A c \in Compaction :
          worker[c] = "round" /\ worker'[c] = "rebuild" => compacting = c]_compactionVars
===========================================================================
