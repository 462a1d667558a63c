------------------------------ MODULE MiniDb ------------------------------
(***************************************************************************)
(* minidb: an embedded key-value store of one process.  The map is in       *)
(* memory; every write is one frame of a write-ahead log, applied to the    *)
(* map in the tick in which it is appended and answered when the log has    *)
(* been written and synced (fsyncPolicy 'always').  A compaction writes the *)
(* map to a snapshot while writes go on, copies the frames that came behind *)
(* its fence and rotates both files; recovery replays the log on the        *)
(* snapshot.  In valueMode 'disk' a record holds the place of its value in  *)
(* one of the files instead of the value.                                   *)
(*                                                                         *)
(* The length of every frame is 1, so that an offset is an index.  What a   *)
(* failed write left of a frame is Torn; recovery skips it.                 *)
(***************************************************************************)
EXTENDS Integers, Sequences, FiniteSets, SequencesExt, FiniteSetsExt, Queues

CONSTANTS Key, Write, Puts, Dels, Absent,
          Torn,          \* what is left of a frame
          Worlds,        \* {[disk : BOOLEAN, errors : Nat]}: valueMode and failing calls of the storage
          MaxCompactions, MaxCrashes  \* bounds

ASSUME WritesTouchKeys ==
  /\ Puts \in [Write -> SUBSET Key] /\ Dels \in [Write -> SUBSET Key]
  /\ \A w \in Write : Puts[w] \intersect Dels[w] = {} /\ Puts[w] \union Dels[w] # {}
  /\ Write \intersect {Absent, Torn} = {} /\ Absent # Torn

ASSUME WorldsAreWorlds == Worlds \subseteq [disk : BOOLEAN, errors : Nat]

VARIABLES
  snapshot,    \* db.snapshot: [Key -> Write \union {Absent}]
  wal,         \* db.wal: the frames in the file
  synced,      \* how many of them a loss of power leaves
  openSnap,    \* the snapshot the value reader has open
  world,       \* valueMode, and the errors the storage has left
  store,       \* [Key -> record or NoRecord]
  queue,       \* the frames appended to the log, not yet being written
  batch,       \* the frames being written
  nextOffset,  \* the predicted end of the file
  sealed,      \* the log takes no more frames
  pc,          \* [Write -> state of the call]
  prev,        \* [Write -> [Key -> record]]: what the call replaced
  predicted,   \* [Write -> Nat]: the place appendLoc promised
  phase,       \* of the compaction
  rotateLock,  \* _rotateLock is set
  newSnap, visited,      \* db.snapshot.tmp and the keys the iteration is past
  base, copied, newWal,  \* the fence, the end of what has been copied, db.wal.tmp
  compactions, crashes,
  log, faults            \* history: the writes in order; errors that happened

fileVars == <<snapshot, wal, synced, openSnap>>
walVars == <<queue, batch, nextOffset, sealed>>
callVars == <<pc, prev, predicted>>
compactVars == <<phase, rotateLock, newSnap, base, copied, newWal, compactions>>
vars == <<fileVars, world, store, walVars, callVars, compactVars, visited, crashes, log, faults>>

NoRecord == [at |-> "nowhere", val |-> Absent, off |-> 0, by |-> Absent]
\* by: the call that made the record and may still roll it back; it stands for
\* the record's seq.
InMemory(w, call) == [at |-> "memory", val |-> w, off |-> 0, by |-> call]
InWal(i) == [at |-> "wal", val |-> Absent, off |-> i, by |-> Absent]
InSnapshot == [at |-> "snapshot", val |-> Absent, off |-> 0, by |-> Absent]

Touches(w) == Puts[w] \union Dels[w]
Settled == {"acked", "rejected", "lost"}
Quiet == queue = << >> /\ batch = << >>  \* flush() has returned

noSnapshot == [k \in Key |-> Absent]

\* The temporary files are gone, and what the compaction knew of them.
forgetTemporaries ==
  /\ newSnap' = noSnapshot /\ visited' = {}
  /\ base' = 0 /\ copied' = 0 /\ newWal' = << >>

Init ==
  /\ snapshot = noSnapshot /\ wal = << >> /\ synced = 0
  /\ openSnap = noSnapshot
  /\ world \in Worlds
  /\ store = [k \in Key |-> NoRecord]
  /\ queue = << >> /\ batch = << >> /\ nextOffset = 0 /\ sealed = FALSE
  /\ pc = [w \in Write |-> "new"]
  /\ prev = [w \in Write |-> [k \in Key |-> NoRecord]]
  /\ predicted = [w \in Write |-> 0]
  /\ phase = "idle" /\ rotateLock = FALSE
  /\ newSnap = noSnapshot /\ visited = {}
  /\ base = 0 /\ copied = 0 /\ newWal = << >>
  /\ compactions = 0 /\ crashes = 0
  /\ log = << >> /\ faults = 0

----------------------------------------------------------------------------
(* The store *)

\* The write whose value of k is at place i of the file f; Torn if none is.
frameAt(f, i, k) ==
  IF i \in DOMAIN f /\ f[i] \in Write /\ k \in Puts[f[i]] THEN f[i] ELSE Torn

\* materialize: a value in memory, or read from the file that has it.
valueOf(k) ==
  CASE store[k].at = "nowhere" -> Absent
    [] store[k].at = "memory" -> store[k].val
    [] store[k].at = "wal" -> frameAt(wal, store[k].off, k)
    [] store[k].at = "snapshot" -> openSnap[k]

present(st, k) == st[k] # NoRecord

\* The store becomes st.  A key that is deleted leaves the iteration of the
\* snapshot: inserted again, it is visited again.
setStore(st) ==
  /\ store' = st
  /\ visited' = {k \in visited : present(st, k)}

\* applyOp, for each of the keys: values are in memory at first.
applied(st, w) ==
  [k \in Key |-> IF k \in Puts[w] THEN InMemory(w, w) ELSE
                 IF k \in Dels[w] THEN NoRecord ELSE st[k]]

rolledBack_bug(st, w, k) == TRUE  \* without comparing seqs

\* restoreKey finds the record that w left: by its seq, or none after a delete.
rolledBack(st, w, k) ==
  IF k \in Puts[w] THEN st[k].by = w ELSE st[k] = NoRecord

restored(r) == [r EXCEPT !.by = Absent]

\* restoreKey for the keys of w.
restoreKeys(st, w) ==
  [k \in Key |-> IF k \in Touches(w) /\ rolledBack(st, w, k) THEN restored(prev[w][k]) ELSE st[k]]

\* The calls of the batch roll back one after the other.
rolledBackBatch ==
  LET after[n \in 0 .. Len(batch)] ==
        IF n = 0 THEN store ELSE restoreKeys(after[n - 1], batch[n])
  IN  after[Len(batch)]

\* publishWalRef for the keys that the calls of the batch have set, if they still
\* hold the record.
published ==
  [k \in Key |->
     IF store[k].by \in ToSet(batch)
       THEN IF world.disk THEN InWal(predicted[store[k].by]) ELSE restored(store[k])
       ELSE store[k]]

----------------------------------------------------------------------------
(* The write path: set, del, batch *)

\* The call passes the gate: it is parked while a rotation holds the lock.  A
\* del of one key that is not there is answered at once.
PassGate(w) ==
  /\ pc[w] = "new" /\ ~rotateLock
  /\ \/ /\ Puts[w] = {} /\ Cardinality(Dels[w]) = 1 /\ \A k \in Dels[w] : ~present(store, k)
        /\ pc' = [pc EXCEPT ![w] = "acked"]
     \/ /\ ~(Puts[w] = {} /\ Cardinality(Dels[w]) = 1 /\ \A k \in Dels[w] : ~present(store, k))
        /\ pc' = [pc EXCEPT ![w] = "ready"]
  /\ UNCHANGED <<fileVars, world, store, visited, walVars, prev, predicted, compactVars, crashes,
                 log, faults>>

\* appendLoc and applyOp in one tick.
Append1(w) ==
  /\ queue' = Append(queue, w)
  /\ predicted' = [predicted EXCEPT ![w] = nextOffset + 1]
  /\ nextOffset' = nextOffset + 1
  /\ pc' = [pc EXCEPT ![w] = "pending"]
  /\ prev' = [prev EXCEPT ![w] = store]
  /\ setStore(applied(store, w))
  /\ log' = Append(log, w)
  /\ UNCHANGED <<fileVars, world, batch, sealed, compactVars, crashes, faults>>

retryOnWalSeal_bug == "rejected"  \* no second attempt

\* The first attempt to append to a sealed log is made again.
retryOnWalSeal == "retry"

\* An append to a sealed log fails at once.  The op has been applied, and is
\* rolled back: the values are what they were, but the records are new ones.
AppendToSealed(w) ==
  /\ pc' = [pc EXCEPT ![w] = IF pc[w] = "ready" THEN retryOnWalSeal ELSE "rejected"]
  /\ setStore([k \in Key |-> IF k \in Touches(w) THEN restored(store[k]) ELSE store[k]])
  /\ UNCHANGED <<fileVars, world, walVars, prev, predicted, compactVars, crashes, log, faults>>

\* The commit body of set, del and batch, again after the rotation it raced.
Commit(w) ==
  /\ pc[w] = "ready" \/ (pc[w] = "retry" /\ ~rotateLock)
  /\ \/ ~sealed /\ Append1(w)
     \/ sealed /\ AppendToSealed(w)

----------------------------------------------------------------------------
(* The log *)

\* flushBatch takes the whole queue.
FlushBatch ==
  /\ batch = << >> /\ queue # << >>
  /\ batch' = queue /\ queue' = << >>
  /\ UNCHANGED <<fileVars, world, store, visited, nextOffset, sealed, callVars, compactVars,
                 crashes, log, faults>>

answer(outcome) == pc' = [w \in Write |-> IF w \in ToSet(batch) THEN outcome ELSE pc[w]]

\* The batch is written and synced; its calls publish their places and return.
BatchLands ==
  /\ batch # << >>
  /\ wal' = wal \o batch
  /\ synced' = Len(wal')
  /\ batch' = << >>
  /\ answer("acked")
  /\ setStore(published)
  /\ UNCHANGED <<snapshot, openSnap, world, queue, nextOffset, sealed, prev, predicted,
                 compactVars, crashes, log, faults>>

storageFails ==
  /\ world.errors > 0
  /\ world' = [world EXCEPT !.errors = @ - 1]
  /\ faults' = faults + 1

\* A write or the sync fails behind some of the frames: all are rejected, and
\* each call rolls itself back.  nextOffset stays where it was.
BatchFails ==
  /\ batch # << >>
  /\ storageFails
  /\ \E n \in 0 .. Len(batch) :
       \/ wal' = wal \o SubSeq(batch, 1, n)
       \/ n < Len(batch) /\ wal' = wal \o SubSeq(batch, 1, n) \o <<Torn>>
  /\ batch' = << >>
  /\ answer("rejected")
  /\ setStore(rolledBackBatch)
  /\ UNCHANGED <<snapshot, synced, openSnap, queue, nextOffset, sealed, prev, predicted,
                 compactVars, crashes, log>>

----------------------------------------------------------------------------
(* Compaction *)

\* Phase 1: the fence.
BeginCompaction ==
  /\ phase = "idle" /\ compactions < MaxCompactions
  /\ Quiet
  /\ phase' = "snapshot" /\ compactions' = compactions + 1
  /\ base' = Len(wal) /\ copied' = Len(wal) /\ newWal' = << >>
  /\ newSnap' = noSnapshot /\ visited' = {}
  /\ UNCHANGED <<fileVars, world, store, walVars, callVars, rotateLock, crashes, log, faults>>

\* Phase 2: the iteration of writeSnapshot comes to k; writes go on meanwhile.
SnapshotKey(k) ==
  /\ phase = "snapshot"
  /\ present(store, k) /\ k \notin visited
  /\ newSnap' = [newSnap EXCEPT ![k] = valueOf(k)]
  /\ visited' = visited \union {k}
  /\ UNCHANGED <<fileVars, world, store, walVars, callVars, phase, rotateLock, base, copied,
                 newWal, compactions, crashes, log, faults>>

SnapshotDone ==
  /\ phase = "snapshot"
  /\ \A k \in Key : present(store, k) => k \in visited
  /\ phase' = "precopy"
  /\ UNCHANGED <<fileVars, world, store, visited, walVars, callVars, rotateLock, newSnap, base,
                 copied, newWal, compactions, crashes, log, faults>>

\* The frames behind what has been copied go to the new log.
copyTail ==
  /\ newWal' = newWal \o SubSeq(wal, copied + 1, Len(wal))
  /\ copied' = Len(wal)

\* Phase 2.5: a pass of the pre-copy, after a flush.
PreCopy ==
  /\ phase = "precopy" /\ Quiet /\ copied < Len(wal)
  /\ copyTail
  /\ UNCHANGED <<fileVars, world, store, visited, walVars, callVars, phase, rotateLock, newSnap,
                 base, compactions, crashes, log, faults>>

\* Phase 3: the lock and the seal, in one tick.  A call that the last rotation
\* sent back has run by now: its continuation waits for no storage.
BeginRotation ==
  /\ phase = "precopy"
  /\ \A w \in Write : pc[w] # "retry"
  /\ phase' = "drain" /\ rotateLock' = TRUE /\ sealed' = TRUE
  /\ UNCHANGED <<fileVars, world, store, visited, queue, batch, nextOffset, callVars, newSnap,
                 base, copied, newWal, compactions, crashes, log, faults>>

\* The sealed log is flushed, copied to its end and closed.  A call that had
\* passed the gate has tried to append by now: it waits for no storage either.
Drain ==
  /\ phase = "drain" /\ Quiet
  /\ \A w \in Write : pc[w] # "ready"
  /\ copyTail
  /\ synced' = Len(wal)
  /\ phase' = "drained"
  /\ UNCHANGED <<snapshot, wal, openSnap, world, store, visited, walVars, callVars, rotateLock,
                 newSnap, base, compactions, crashes, log, faults>>

RenameSnapshot ==
  /\ phase = "drained"
  /\ snapshot' = newSnap
  /\ phase' = "renamed"
  /\ UNCHANGED <<wal, synced, openSnap, world, store, visited, walVars, callVars, rotateLock,
                 newSnap, base, copied, newWal, compactions, crashes, log, faults>>

releaseRotation_bug == UNCHANGED rotateLock  \* writers stay parked

\* The finally block lets the writers go on.
releaseRotation == rotateLock' = FALSE

\* A fresh WAL over the file that is at its path now.
freshWal ==
  /\ nextOffset' = Len(wal') /\ synced' = Len(wal')
  /\ sealed' = FALSE
  /\ UNCHANGED <<queue, batch>>

\* remap: a frame behind the fence has moved with it, and what was before it is
\* in the snapshot.
remapped(k) ==
  IF store[k].at \notin {"wal", "snapshot"} THEN store[k] ELSE
  IF store[k].at = "wal" /\ store[k].off > base THEN [store[k] EXCEPT !.off = @ - base] ELSE
  IF newSnap[k] # Absent THEN InSnapshot ELSE store[k]

\* The rename of the log commits the rotation: the store goes over to the new
\* files.
RenameWal ==
  /\ phase = "renamed"
  /\ wal' = newWal
  /\ freshWal
  /\ store' = [k \in Key |-> remapped(k)]
  /\ openSnap' = snapshot
  /\ phase' = "idle" /\ forgetTemporaries /\ releaseRotation
  /\ UNCHANGED <<snapshot, world, callVars, compactions, crashes, log, faults>>

\* A call of the storage fails.  Before the rotation nothing else happens;
\* within it the sealed log gives way to a fresh one over the same file.
CompactionFails ==
  /\ phase # "idle" /\ storageFails
  /\ UNCHANGED <<snapshot, wal, openSnap, store, callVars, compactions, crashes, log>>
  /\ phase' = "idle" /\ forgetTemporaries
  /\ \/ /\ phase \in {"snapshot", "precopy"}
        /\ UNCHANGED <<synced, walVars, rotateLock>>
     \/ /\ phase \in {"drain", "drained", "renamed"} /\ Quiet
        /\ \A w \in Write : pc[w] # "ready"
        /\ freshWal /\ releaseRotation

----------------------------------------------------------------------------
(* Crash and recovery *)

\* recover: the store that the snapshot s and the frames f give.
Recovered(s, f) ==
  [k \in Key |->
     LET at == {i \in DOMAIN f : f[i] \in Write /\ k \in Touches(f[i])} IN
     IF at = {}
       THEN IF s[k] = Absent THEN NoRecord ELSE
            IF world.disk THEN InSnapshot ELSE InMemory(s[k], Absent)
       ELSE IF k \in Dels[f[Max(at)]] THEN NoRecord ELSE
            IF world.disk THEN InWal(Max(at)) ELSE InMemory(f[Max(at)], Absent)]

\* A torn frame at the end is cut off.
truncated(f) == IF f # << >> /\ Last(f) = Torn THEN Front(f) ELSE f

\* The power fails: of what has not been synced a prefix is left, and the tail of
\* the batch may be torn.  The database is opened again; the calls are gone.
Crash ==
  /\ crashes < MaxCrashes /\ crashes' = crashes + 1
  /\ \E n \in synced .. Len(wal \o batch) : wal' = truncated(SubSeq(wal \o batch, 1, n))
  /\ synced' = Len(wal') /\ nextOffset' = Len(wal')
  /\ queue' = << >> /\ batch' = << >> /\ sealed' = FALSE
  /\ openSnap' = snapshot
  /\ store' = Recovered(snapshot, wal')
  /\ phase' = "idle" /\ forgetTemporaries /\ rotateLock' = FALSE
  /\ pc' = [w \in Write |->
              IF pc[w] = "pending" /\ w \in ToSet(wal') THEN "acked" ELSE
              IF pc[w] \in {"ready", "retry", "pending"} THEN "lost" ELSE pc[w]]
  /\ log' = SelectIn(log, {w \in Write : pc'[w] # "lost"})
  /\ UNCHANGED <<snapshot, world, prev, predicted, compactions, faults>>

Next ==
  \/ \E w \in Write : PassGate(w) \/ Commit(w)
  \/ FlushBatch \/ BatchLands \/ BatchFails
  \/ BeginCompaction \/ (\E k \in Key : SnapshotKey(k)) \/ SnapshotDone
  \/ PreCopy \/ BeginRotation \/ Drain \/ RenameSnapshot \/ RenameWal \/ CompactionFails
  \/ Crash

\* The storage returns or fails and the event loop runs what it has been given;
\* nobody has to begin a compaction.
Fairness ==
  /\ \A w \in Write : WF_vars(PassGate(w)) /\ WF_vars(Commit(w))
  /\ WF_vars(FlushBatch) /\ WF_vars(BatchLands \/ BatchFails)
  /\ WF_vars((\E k \in Key : SnapshotKey(k)) \/ SnapshotDone)
  /\ WF_vars(BeginRotation) /\ WF_vars(Drain) /\ WF_vars(RenameSnapshot) /\ WF_vars(RenameWal)

Spec == Init /\ [][Next]_vars
FairSpec == Spec /\ Fairness

----------------------------------------------------------------------------
(* Properties *)

TypeOK ==
  /\ \A k \in Key : store[k].at \in {"nowhere", "memory", "wal", "snapshot"}
  /\ synced \in 0 .. Len(wal)
  /\ pc \in [Write -> {"new", "ready", "pending", "retry"} \union Settled]
  /\ phase \in {"idle", "snapshot", "precopy", "drain", "drained", "renamed"}

\* The reference: a map explained by its log.  What the crash kept of the pending
\* calls counts as acknowledged from then on.
outcome ==
  [w \in Write |-> CASE pc[w] \in {"new", "ready", "retry"} -> "none" [] OTHER -> pc[w]]
Promise == INSTANCE DurableMap WITH map <- [k \in Key |-> valueOf(k)]

\* Reads, rollbacks, compactions and recoveries: what is read is always explained
\* by the writes, an acknowledged write survives a crash at any point, a crash
\* keeps what was not answered whole or not at all, and a compaction or a rotation
\* changes nothing (applyOp, restoreKey, runCompaction, recover).  Not part of it
\* is that a batch which fails is undone as a whole, "all-or-nothing"
\* (index.ts:793): its rollback passes over a key that a later write has
\* replaced, and when that write fails too, its own rollback brings the batch's
\* value back, while the other keys of the batch are undone.
RefinesDurableMap == Promise!Spec

\* A write that races a rotation never fails of it: as long as the storage works,
\* none is rejected (retryOnWalSeal).
RotationRejectsNothing == faults = 0 => \A w \in Write : pc[w] # "rejected"

\* The store is well formed, and only the storage makes a write fail.
StoreInvariant == TypeOK /\ RotationRejectsNothing

\* Every write is answered: a rotation, failed or not, leaves nobody parked and
\* the log writes what it was given (flushBatch, runCompaction's finally).
EveryWriteIsAnswered == <>(\A w \in Write : pc[w] \in Settled)

\* A disk pointer has the value of its key: it never leads behind the end of the
\* file or into another frame (publishWalRef, remap).
PointersReadTheirValue ==
  \A k \in Key : present(store, k) => valueOf(k) # Torn
===========================================================================
