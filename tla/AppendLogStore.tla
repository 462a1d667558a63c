--------------------------- MODULE AppendLogStore ---------------------------
(***************************************************************************)
(* The append log of the node-fs backend (appendLogStore.ts), for one key.  *)
(* Appends gather in a buffer that a microtask starts to drain; a rewrite   *)
(* cuts in between two batches; owners come and go, and the buffer is       *)
(* retired with the last of them, to be replaced by one of the next         *)
(* generation if the log is used again.                                     *)
(*                                                                          *)
(* The promises of one buffer form a chain: the operation in progress, then *)
(* the rewrites called since, each waiting for the one before it.           *)
(* state.flushPromise is the last of the chain, and cutoverEpoch has moved  *)
(* since a drain began exactly if a rewrite waits behind it.  Operators     *)
(* named _bug are faulty variants that no action uses.                      *)
(***************************************************************************)
EXTENDS Integers, Sequences, FiniteSets, SequencesExt, Queues

CONSTANTS
  Rec, Snapshot,     \* see AppendLog
  Torn,              \* a piece of a record at the end of the file
  Garbage,           \* a line made of a torn piece and what was written after it
  MaxGens,           \* bound on the generations of the buffer in one process
  MaxOwners,         \* bound on the owners of a buffer
  MaxRestarts,       \* bound on crashes of the process
  TornWrites         \* may a failing or interrupted append leave a torn piece?

ASSUME EntryAssumption ==
  /\ Rec \intersect Snapshot = {}
  /\ {Torn, Garbage} \intersect (Rec \union Snapshot) = {} /\ Torn # Garbage
ASSUME StoreBoundAssumption == MaxGens \in Nat \ {0} /\ {MaxOwners, MaxRestarts} \subseteq Nat
ASSUME SwitchAssumption == TornWrites \in BOOLEAN

Gens == 1 .. MaxGens
Line == Rec \union Snapshot \union {Torn, Garbage}

VARIABLES
  file,       \* the lines of the file
  current,    \* the generation of the buffer in the map `logs`
  pending,    \* state.pending of every generation
  failure,    \* state.storageFailure is set
  owners,     \* state.refCount
  retired,    \* state.retired
  scheduled,  \* state.flushScheduled
  op,         \* what the chain of the buffer is doing
  batch,      \* the number of records in the append in flight
  rewrites,   \* the replacements of the rewrites in the chain, in their order
  flushGen,   \* the buffer whose chain a call of flush() waits for; 0 if none does
  flushAhead, \* the number of promises of the chain before that call returns
  flushAsked, \* the records that were pending when flush() was called
  used,       \* the records and replacements handed to the log so far
  restarts

bufferVars == <<pending, failure, owners, retired, scheduled, op, batch, rewrites>>
flushVars == <<flushGen, flushAhead, flushAsked>>
vars == <<file, current, bufferVars, flushVars, used, restarts>>

Written == {"append", "write"}  \* the operations with a call of the storage in flight

TypeOK ==
  /\ file \in Seq(Line)
  /\ current \in Gens
  /\ pending \in [Gens -> Seq(Rec)]
  /\ failure \in [Gens -> BOOLEAN]
  /\ owners \in [Gens -> Nat]
  /\ retired \in [Gens -> BOOLEAN]
  /\ scheduled \in [Gens -> BOOLEAN]
  /\ op \in [Gens -> {"idle", "drain", "prior"} \union Written]
  /\ batch \in [Gens -> Nat]
  /\ rewrites \in [Gens -> Seq(Snapshot)]
  /\ flushGen \in 0 .. MaxGens
  /\ flushAhead \in Nat
  /\ flushAsked \subseteq Rec
  /\ used \subseteq Rec \union Snapshot
  /\ restarts \in Nat

everyBuffer(x) == [g \in Gens |-> x]

\* The log has been opened: WireService.restore wrote the first record of a new
\* log, and a fork the whole of it.
Init ==
  /\ \E s \in Snapshot : file = <<s>> /\ used = {s}
  /\ current = 1
  /\ pending = everyBuffer(<< >>)
  /\ failure = everyBuffer(FALSE)
  /\ owners = everyBuffer(0)
  /\ retired = everyBuffer(FALSE)
  /\ scheduled = everyBuffer(FALSE)
  /\ op = everyBuffer("idle")
  /\ batch = everyBuffer(0)
  /\ rewrites = everyBuffer(<< >>)
  /\ flushGen = 0 /\ flushAhead = 0 /\ flushAsked = {}
  /\ restarts = 0

----------------------------------------------------------------------------
(* The file *)

\* The lines of f after writing the lines of s: the first one completes a torn
\* line at the end of f.
onto(f, s) ==
  IF s # << >> /\ f # << >> /\ Last(f) = Torn
    THEN Front(f) \o <<IF Head(s) = Torn THEN Torn ELSE Garbage>> \o Tail(s)
    ELSE f \o s

\* The files an append of s to f may leave when it fails or is interrupted.
Interrupted(f, s) ==
  {onto(f, SubSeq(s, 1, n)) : n \in 0 .. Len(s)}
    \union IF TornWrites THEN {onto(f, SubSeq(s, 1, n) \o <<Torn>>) : n \in 0 .. Len(s) - 1}
                         ELSE {}

\* What a read of the file f yields: a torn line at its end is dropped.
read(f) == IF f # << >> /\ Last(f) = Torn THEN Front(f) ELSE f

----------------------------------------------------------------------------
(* The buffer *)

\* state(): the buffer of the key, a new one if the last has been retired.
Buffer == IF retired[current] THEN current + 1 ELSE current
useBuffer == Buffer \in Gens /\ current' = Buffer

ready_bug(g) == TRUE  \* does not wait for the buffer before it

\* state.ready: the retirement of the buffer before it has settled.
ready(g) == \A h \in 1 .. (g - 1) : retired[h] /\ op[h] = "idle" /\ ~failure[h]

\* A storage failure is remembered: nothing is drained until a rewrite succeeds.
sticky(g) == failure[g]

cutoverPassed_bug(g) == FALSE  \* no epoch

\* cutoverEpoch has moved since the drain in progress began.
cutoverPassed(g) == rewrites[g] # << >>

scheduleFlush_bug(g) == scheduled' = scheduled  \* waits for somebody to call flush()

scheduleFlush(g) == scheduled' = [scheduled EXCEPT ![g] = @ \/ op[g] = "idle"]

startDrain(g) == op' = [op EXCEPT ![g] = "drain"]

settleChain_bug(g) == op' = [op EXCEPT ![g] = "idle"]  \* forgets the rewrites

\* finishOwnedFlush, when the operation in progress and its drain are over: its
\* promise settles, and the next rewrite of the chain goes on.
settleChain(g) ==
  op' = [op EXCEPT ![g] = IF rewrites[g] # << >> THEN "prior" ELSE "idle"]

\* The same, for the call of flush() that may be waiting.
settleFlush(g) ==
  IF flushGen = g
    THEN /\ flushAhead' = flushAhead - 1
         /\ flushGen' = IF flushAhead = 1 THEN 0 ELSE g
         /\ flushAsked' = IF flushAhead = 1 THEN {} ELSE flushAsked
    ELSE UNCHANGED flushVars

settle(g) == settleChain(g) /\ settleFlush(g)

\* The next batch of a drain: all of the records rest.
appendBatch(g, rest) ==
  /\ op' = [op EXCEPT ![g] = "append"]
  /\ batch' = [batch EXCEPT ![g] = Len(rest)]
  /\ UNCHANGED flushVars

drainBehind_bug(g) == settleChain_bug(g) /\ settleFlush(g)  \* resolves with the write

\* What came in during a write is drained before its promise settles.
drainBehind(g) == startDrain(g) /\ UNCHANGED flushVars

held(g) == owners[g] > 0

----------------------------------------------------------------------------
(* Calls *)

Acquire ==
  /\ useBuffer
  /\ owners[Buffer] < MaxOwners
  /\ owners' = [owners EXCEPT ![Buffer] = @ + 1]
  /\ UNCHANGED <<file, pending, failure, retired, scheduled, op, batch, rewrites, flushVars,
                 used, restarts>>

\* The last owner lets go: the buffer is flushed and retired.
Release ==
  LET g == current IN
  /\ held(g)
  /\ owners' = [owners EXCEPT ![g] = @ - 1]
  /\ IF owners[g] = 1
       THEN /\ retired' = [retired EXCEPT ![g] = TRUE]
            /\ IF op[g] = "idle" /\ ~sticky(g) THEN startDrain(g) ELSE UNCHANGED op
       ELSE UNCHANGED <<retired, op>>
  /\ UNCHANGED <<file, current, pending, failure, scheduled, batch, rewrites, flushVars, used,
                 restarts>>

AppendRecord(r) ==
  /\ r \notin used
  /\ useBuffer
  /\ pending' = [pending EXCEPT ![Buffer] = Append(@, r)]
  /\ scheduleFlush(Buffer)
  /\ used' = used \union {r}
  /\ UNCHANGED <<file, failure, owners, retired, op, batch, rewrites, flushVars, restarts>>

\* rewrite(): at the end of the chain.  Its callers have read the log through the
\* same buffer, which waits for the one before it, or write a log nobody else has.
Rewrite(s) ==
  LET g == Buffer IN
  /\ s \notin used
  /\ useBuffer
  /\ ready(g)
  /\ rewrites' = [rewrites EXCEPT ![g] = Append(@, s)]
  /\ op' = [op EXCEPT ![g] = IF @ = "idle" THEN "prior" ELSE @]
  /\ used' = used \union {s}
  /\ UNCHANGED <<file, pending, failure, owners, retired, scheduled, batch, flushVars, restarts>>

\* The rewrites that wait behind the operation in progress.
Waiting(g) == Len(rewrites[g]) - (IF op[g] \in {"prior", "write"} THEN 1 ELSE 0)

\* flushState: the promise is that of the last of the chain, or of a new drain.
\* It is rejected at once after a failure.
flushState(g) ==
  /\ flushGen = 0
  /\ op[g] # "idle" \/ ~sticky(g)
  /\ flushGen' = g
  /\ flushAsked' = ToSet(pending[g])
  /\ IF op[g] = "idle"
       THEN startDrain(g) /\ flushAhead' = 1
       ELSE flushAhead' = 1 + Waiting(g) /\ UNCHANGED op
  /\ UNCHANGED <<file, pending, failure, owners, retired, scheduled, batch, rewrites, used,
                 restarts>>

\* flush(), of the buffer in the map, and the flush that read() begins with.
Flush ==
  \/ ~(retired[current] /\ op[current] = "idle") /\ flushState(current) /\ UNCHANGED current
  \/ useBuffer /\ flushState(Buffer)

----------------------------------------------------------------------------
(* The work of the buffer *)

\* The microtask of scheduleFlush.
ScheduledFlush(g) ==
  /\ scheduled[g]
  /\ scheduled' = [scheduled EXCEPT ![g] = FALSE]
  /\ IF op[g] = "idle" /\ ~sticky(g) /\ pending[g] # << >> THEN startDrain(g) ELSE UNCHANGED op
  /\ UNCHANGED <<file, current, pending, failure, owners, retired, batch, rewrites, flushVars,
                 used, restarts>>

\* drain() after its first await, and the end of finishOwnedFlush: a drain that a
\* rewrite has overtaken, or that finds nothing, is over.
Drain(g) ==
  /\ op[g] = "drain"
  /\ ready(g)
  /\ IF cutoverPassed(g) \/ pending[g] = << >>
       THEN settle(g) /\ UNCHANGED batch
       ELSE appendBatch(g, pending[g])
  /\ UNCHANGED <<file, current, pending, failure, owners, retired, scheduled, rewrites, used,
                 restarts>>

\* The append of the batch is durable.  If a rewrite was called meanwhile, it will
\* replace the batch, which therefore stays pending.
AppendDone(g) ==
  LET rest == SubSeq(pending[g], batch[g] + 1, Len(pending[g])) IN
  /\ op[g] = "append"
  /\ file' = onto(file, SubSeq(pending[g], 1, batch[g]))
  /\ IF cutoverPassed(g)
       THEN batch' = [batch EXCEPT ![g] = 0] /\ settle(g) /\ UNCHANGED pending
       ELSE /\ pending' = [pending EXCEPT ![g] = rest]
            /\ IF rest # << >>
                 THEN appendBatch(g, rest)
                 ELSE /\ batch' = [batch EXCEPT ![g] = 0]
                      /\ startDrain(g)
                      /\ UNCHANGED flushVars
  /\ UNCHANGED <<current, failure, owners, retired, scheduled, rewrites, used, restarts>>

AppendFails(g) ==
  /\ op[g] = "append"
  /\ file' \in Interrupted(file, SubSeq(pending[g], 1, batch[g]))
  /\ failure' = [failure EXCEPT ![g] = TRUE]
  /\ batch' = [batch EXCEPT ![g] = 0]
  /\ settle(g)
  /\ UNCHANGED <<current, pending, owners, retired, scheduled, rewrites, used, restarts>>

\* The rewrite's turn in the chain has come.
StartWrite(g) ==
  /\ op[g] = "prior"
  /\ ready(g)
  /\ op' = [op EXCEPT ![g] = "write"]
  /\ UNCHANGED <<file, current, pending, failure, owners, retired, scheduled, batch, rewrites,
                 flushVars, used, restarts>>

\* The file has been replaced; what is pending is drained behind it, unless there
\* is another rewrite.
WriteDone(g) ==
  /\ op[g] = "write"
  /\ file' = <<Head(rewrites[g])>>
  /\ failure' = [failure EXCEPT ![g] = FALSE]
  /\ rewrites' = [rewrites EXCEPT ![g] = Tail(@)]
  /\ IF Len(rewrites[g]) > 1
       THEN op' = [op EXCEPT ![g] = "prior"] /\ settleFlush(g)
       ELSE drainBehind(g)
  /\ UNCHANGED <<current, pending, owners, retired, scheduled, batch, used, restarts>>

\* The rewrite is rejected; the file may have been replaced all the same.
WriteFails(g) ==
  /\ op[g] = "write"
  /\ file' \in {file, <<Head(rewrites[g])>>}
  /\ failure' = [failure EXCEPT ![g] = TRUE]
  /\ rewrites' = [rewrites EXCEPT ![g] = Tail(@)]
  /\ op' = [op EXCEPT ![g] = IF Len(rewrites[g]) > 1 THEN "prior" ELSE "idle"]
  /\ settleFlush(g)
  /\ UNCHANGED <<current, pending, owners, retired, scheduled, batch, used, restarts>>

\* settleRetiredState, when the flush of a retired buffer has failed: the buffer
\* leaves the map, and what it holds is given up with it.
GiveUp(g) ==
  /\ retired[g] /\ op[g] = "idle" /\ failure[g]
  /\ pending' = [pending EXCEPT ![g] = << >>]
  /\ failure' = [failure EXCEPT ![g] = FALSE]
  /\ UNCHANGED <<file, current, owners, retired, scheduled, op, batch, rewrites, flushVars,
                 used, restarts>>

\* The process dies, perhaps in the middle of a call of the storage, and the log
\* is opened again.
Restart ==
  /\ restarts < MaxRestarts
  /\ restarts' = restarts + 1
  /\ \/ file' = file
     \/ \E g \in Gens :
          \/ op[g] = "append" /\ file' \in Interrupted(file, SubSeq(pending[g], 1, batch[g]))
          \/ op[g] = "write" /\ file' = <<Head(rewrites[g])>>
  /\ current' = 1
  /\ pending' = everyBuffer(<< >>)
  /\ failure' = everyBuffer(FALSE)
  /\ owners' = everyBuffer(0)
  /\ retired' = everyBuffer(FALSE)
  /\ scheduled' = everyBuffer(FALSE)
  /\ op' = everyBuffer("idle")
  /\ batch' = everyBuffer(0)
  /\ rewrites' = everyBuffer(<< >>)
  /\ flushGen' = 0 /\ flushAhead' = 0 /\ flushAsked' = {}
  /\ UNCHANGED used

Call ==
  \/ \E r \in Rec : AppendRecord(r)
  \/ \E s \in Snapshot : Rewrite(s)
  \/ Acquire \/ Release \/ Flush

Work(g) ==
  \/ ScheduledFlush(g) \/ Drain(g) \/ AppendDone(g) \/ AppendFails(g)
  \/ StartWrite(g) \/ WriteDone(g) \/ WriteFails(g) \/ GiveUp(g)

Next == Call \/ (\E g \in Gens : Work(g)) \/ Restart

Spec == Init /\ [][Next]_vars

\* Microtasks run, and a call of the storage returns or fails.
Fairness == \A g \in Gens : WF_vars(Work(g))
FairSpec == Spec /\ Fairness

----------------------------------------------------------------------------
(* Properties *)

outstanding == UNION {ToSet(pending[g]) : g \in Gens}

\* The log that the callers see: what has landed of the records still pending,
\* which a rewrite is about to replace, belongs to the tail.
history_ == SelectIn(read(file), Line \ outstanding)
tail_ == FlattenSeq(pending)
cutovers_ == FlattenSeq(rewrites)
failed_ == \E g \in Gens : failure[g]
Log == INSTANCE AppendLog
         WITH history <- history_, tail <- tail_, cutovers <- cutovers_, failed <- failed_

\* The store keeps the promises of its interface: nothing pending is lost,
\* reordered or written twice, whatever rewrites, failures and changes of owner
\* come in between (drain, rewrite, finishOwnedFlush).
RefinesAppendLog == Log!Spec

\* The storage is never asked to write the file from two places at once, not even
\* while one buffer retires and the next one starts (state.ready).
OneWriter == \A g, h \in Gens : op[g] \in Written /\ op[h] \in Written => g = h

\* The buffers are well formed and only one of them is at the file, across
\* retirement, reacquisition and restart.
BufferInvariant == TypeOK /\ OneWriter

\* A read of the log never throws: the file has no line that is torn in the middle
\* ("crash-tolerant decoding", read and parseLine).
Readable == Garbage \notin ToSet(file)

resolved == flushGen # 0 /\ flushGen' = 0 /\ restarts' = restarts /\ ~failure'[flushGen]

\* When flush() resolves, the records that were pending at the call are in the
\* file, or a rewrite was called meanwhile that will write them (finishOwnedFlush).
FlushIsDurableOrCutOver ==
  [][resolved => flushAsked \subseteq ToSet(file') \/ op'[flushGen] = "prior"]_vars

\* What is appended is written without anybody calling flush(), unless storage
\* fails (scheduleFlush).
AppendsAreWritten ==
  \A g \in Gens : pending[g] # << >> /\ ~failure[g] ~> pending[g] = << >> \/ failure[g]
=============================================================================
