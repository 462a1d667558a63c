---------------------------- MODULE MiniDbProofs ----------------------------
(***************************************************************************)
(* minidb keeps the promise of DurableMap, for any keys, writes, batches,    *)
(* compactions and crashes: the values in memory and any call of the storage *)
(* failing, or the values on disk and none failing.                          *)
(*                                                                           *)
(* First what is small: a write that races a rotation never fails of it, for *)
(* a sealed log and the rotation lock go together.  Then the types, and with *)
(* them what a batch that fails and a crash leave.  MapInv is the invariant  *)
(* of the refinement.  The frames on their way to the file are in the order  *)
(* of the log; the value of a key is that of a logged write after which only *)
(* rejected ones touched it; and so are the snapshot, the next snapshot and  *)
(* what a call will put back, each up to the writes whose frames are behind  *)
(* it.  A crash then finds the last frame of a key, or none and the snapshot. *)
(***************************************************************************)
EXTENDS MiniDb, QueueTheorems

\* The log is sealed only under the lock, and errors are counted.
SealedUnderLock == (sealed => rotateLock) /\ faults \in Nat

TypedCalls == pc \in [Write -> {"new", "ready", "pending", "retry", "acked", "rejected", "lost"}]

RInv == SealedUnderLock /\ TypedCalls /\ RotationRejectsNothing

LEMMA InitRotation == Init => RInv
  BY DEF Init, RInv, SealedUnderLock, TypedCalls, RotationRejectsNothing

\* A rejection of the write is that of a failing storage, or of a sealed log met
\* again, which the lock excludes.
LEMMA CommitRejectsNothing ==
  ASSUME RInv, NEW w \in Write, Commit(w)
  PROVE  RInv'
<1>1. CASE ~sealed /\ Append1(w)
  BY <1>1 DEF Append1, RInv, SealedUnderLock, TypedCalls, RotationRejectsNothing, compactVars
<1>2. CASE sealed /\ AppendToSealed(w)
  <2>1. pc[w] = "ready" /\ pc' = [pc EXCEPT ![w] = "retry"]
    BY <1>2 DEF Commit, AppendToSealed, retryOnWalSeal, RInv, SealedUnderLock, TypedCalls
  <2>. QED BY <1>2, <2>1 DEF AppendToSealed, RInv, SealedUnderLock, TypedCalls, RotationRejectsNothing,
                             compactVars, walVars
<1>. QED BY <1>1, <1>2 DEF Commit

LEMMA LogRejectsNothing ==
  ASSUME RInv, FlushBatch \/ BatchLands \/ BatchFails
  PROVE  RInv'
<1>1. CASE FlushBatch
  BY <1>1 DEF FlushBatch, RInv, SealedUnderLock, TypedCalls, RotationRejectsNothing, compactVars, callVars
<1>2. CASE BatchLands
  BY <1>2 DEF BatchLands, answer, RInv, SealedUnderLock, TypedCalls, RotationRejectsNothing, compactVars
<1>3. CASE BatchFails
  <2>1. faults \in Nat /\ faults' = faults + 1 /\ UNCHANGED <<sealed, rotateLock>>
    BY <1>3 DEF BatchFails, storageFails, RInv, SealedUnderLock, compactVars
  <2>2. TypedCalls'
    BY <1>3 DEF BatchFails, answer, RInv, TypedCalls
  <2>. QED BY <2>1, <2>2 DEF RInv, SealedUnderLock, RotationRejectsNothing
<1>. QED BY <1>1, <1>2, <1>3

LEMMA NextRejectsNothing == RInv /\ [Next]_vars => RInv'
<1> SUFFICES ASSUME RInv, [Next]_vars PROVE RInv'
  OBVIOUS
<1> USE DEF RInv, SealedUnderLock, TypedCalls, RotationRejectsNothing
<1>1. ASSUME NEW w \in Write, PassGate(w) PROVE RInv'
  BY <1>1 DEF PassGate, walVars, compactVars
<1>2. ASSUME NEW w \in Write, Commit(w) PROVE RInv'
  BY <1>2, CommitRejectsNothing
<1>3. CASE FlushBatch \/ BatchLands \/ BatchFails
  BY <1>3, LogRejectsNothing
<1>4. CASE BeginCompaction \/ (\E k \in Key : SnapshotKey(k)) \/ SnapshotDone \/ PreCopy
  BY <1>4 DEF BeginCompaction, SnapshotKey, SnapshotDone, PreCopy, walVars, callVars
<1>5. CASE BeginRotation \/ Drain \/ RenameSnapshot
  BY <1>5 DEF BeginRotation, Drain, RenameSnapshot, walVars, callVars
<1>6. CASE RenameWal
  BY <1>6 DEF RenameWal, freshWal, callVars
<1>7. CASE CompactionFails
  BY <1>7 DEF CompactionFails, storageFails, freshWal, walVars, callVars
<1>8. CASE Crash
  BY <1>8 DEF Crash
<1>9. CASE UNCHANGED vars
  BY <1>9 DEF vars, walVars, callVars, compactVars
<1>. QED BY <1>1, <1>2, <1>3, <1>4, <1>5, <1>6, <1>7, <1>8, <1>9 DEF Next

\* As long as the storage works no write is rejected: retryOnWalSeal makes the
\* attempt again that met a log sealed by a rotation, and once is enough.
THEOREM RotationsRejectNothing == Spec => []RotationRejectsNothing
<1>1. Spec => []RInv
  BY InitRotation, NextRejectsNothing, PTL DEF Spec
<1>. QED BY <1>1, PTL DEF RInv

----------------------------------------------------------------------------
(* The types *)

\* What a file or a record holds of a value.  Only in valueMode 'disk' can a place
\* turn out to be torn.
Kept == IF world.disk THEN Write \union {Absent, Torn} ELSE Write \union {Absent}
Frame == Write \union {Torn}

\* A record of the store: in valueMode 'memory' no other has a place.
Records ==
  {r \in [at : IF world.disk THEN {"nowhere", "memory", "wal", "snapshot"} ELSE {"nowhere", "memory"},
          val : Kept, off : Nat, by : Write \union {Absent}] :
     r.at = "nowhere" => r = NoRecord}

TypedFiles ==
  /\ snapshot \in [Key -> Kept] /\ openSnap \in [Key -> Kept] /\ newSnap \in [Key -> Kept]
  /\ wal \in Seq(Frame) /\ newWal \in Seq(Frame)
  /\ synced \in 0 .. Len(wal)

TypedLog ==
  /\ queue \in Seq(Write) /\ batch \in Seq(Write) /\ log \in Seq(Write)
  /\ nextOffset \in Nat /\ predicted \in [Write -> Nat]

TypedStore ==
  /\ world \in [disk : BOOLEAN, errors : Nat]
  /\ store \in [Key -> Records] /\ prev \in [Write -> [Key -> Records]]

TypedCompaction ==
  /\ phase \in {"idle", "snapshot", "precopy", "drain", "drained", "renamed"}
  /\ base \in Nat /\ copied \in Nat

Typed == TypedFiles /\ TypedLog /\ TypedStore /\ TypedCompaction /\ TypedCalls

LEMMA AbsentIsNoWrite == Absent \notin Write /\ Torn \notin Write
  BY WritesTouchKeys

LEMMA RecordOfNothing == NoRecord \in Records
  BY DEF NoRecord, Records, Kept

LEMMA RecordInMemory ==
  ASSUME NEW v \in Kept, NEW w \in Write \union {Absent}
  PROVE  InMemory(v, w) \in Records
  BY DEF InMemory, Records

LEMMA RecordOnDisk ==
  ASSUME world.disk
  PROVE  InSnapshot \in Records /\ \A i \in Nat : InWal(i) \in Records
  BY DEF InSnapshot, InWal, Records, Kept

\* A record keeps its type without the call that made it.
LEMMA RecordRestored ==
  ASSUME NEW r \in Records
  PROVE  /\ restored(r) \in Records
         /\ restored(r).at = r.at /\ restored(r).val = r.val /\ restored(r).off = r.off
         /\ restored(r).by = Absent
<1>1. /\ restored(r).at = r.at /\ restored(r).val = r.val /\ restored(r).off = r.off
      /\ restored(r).by = Absent
  BY DEF restored, Records
<1>2. r.at = "nowhere" => restored(r) = NoRecord
  BY DEF restored, Records, NoRecord
<1>. QED BY <1>1, <1>2 DEF restored, Records

LEMMA RecordMoved ==
  ASSUME NEW r \in Records, r.at # "nowhere", NEW i \in Nat
  PROVE  [r EXCEPT !.off = i] \in Records
  BY DEF Records

LEMMA WritesAreKept == Write \union {Absent} \subseteq Kept
  BY DEF Kept

\* What is read is what a file or a record can hold.
LEMMA ValueIsKept ==
  ASSUME Typed, NEW k \in Key
  PROVE  valueOf(k) \in Kept
<1>1. store[k] \in Records /\ openSnap[k] \in Kept
  BY DEF Typed, TypedStore, TypedFiles
<1>2. CASE store[k].at = "nowhere"
  BY <1>2 DEF valueOf, Kept
<1>3. CASE store[k].at = "memory"
  <2>1. valueOf(k) = store[k].val
    BY <1>3 DEF valueOf
  <2>. QED BY <1>1, <2>1 DEF Records
<1>4. CASE store[k].at = "wal"
  <2>1. world.disk
    BY <1>1, <1>4 DEF Records
  <2>2. valueOf(k) = frameAt(wal, store[k].off, k)
    BY <1>4 DEF valueOf
  <2>3. frameAt(wal, store[k].off, k) \in Write \union {Torn}
    BY DEF frameAt
  <2>. QED BY <2>1, <2>2, <2>3 DEF Kept
<1>5. CASE store[k].at = "snapshot"
  BY <1>1, <1>5 DEF valueOf
<1>. QED BY <1>1, <1>2, <1>3, <1>4, <1>5 DEF Records

\* The world changes only in the errors that are left.
LEMMA SameTypes ==
  ASSUME world'.disk = world.disk
  PROVE  Kept' = Kept /\ Records' = Records
<1>1. Kept' = Kept
  BY DEF Kept
<1>. QED BY <1>1 DEF Records, NoRecord

----------------------------------------------------------------------------
(* What a batch that fails leaves *)

\* f[n] is the store after the first n calls of the batch have rolled back.
RollsBack(f, m) ==
  f = [n \in 0 .. m |-> IF n = 0 THEN store ELSE restoreKeys(f[n - 1], batch[n])]

LEMMA RollsBackAt ==
  ASSUME NEW f, NEW m, RollsBack(f, m), NEW k \in 0 .. m
  PROVE  f[k] = IF k = 0 THEN store ELSE restoreKeys(f[k - 1], batch[k])
<1>. DEFINE g == [n \in 0 .. m |-> IF n = 0 THEN store ELSE restoreKeys(f[n - 1], batch[n])]
<1>1. f = g
  BY DEF RollsBack
<1>2. g[k] = IF k = 0 THEN store ELSE restoreKeys(f[k - 1], batch[k])
  OBVIOUS
<1>. HIDE DEF g
<1>. QED BY <1>1, <1>2

LEMMA CallsRollBack ==
  ASSUME NEW m \in Nat
  PROVE  \E f : RollsBack(f, m)
<1>. DEFINE N == {n \in Nat : \E f : RollsBack(f, n)}
<1>1. 0 \in N
  <2>. DEFINE f == [n \in 0 .. 0 |-> store]
  <2>1. RollsBack(f, 0)
    BY DEF RollsBack
  <2>. QED BY <2>1
<1>2. ASSUME NEW n \in 0 .. m - 1, n \in N PROVE n + 1 \in N
  <2>1. PICK f : RollsBack(f, n)
    BY <1>2
  <2>. DEFINE g == [k \in 0 .. n + 1 |-> IF k <= n THEN f[k] ELSE restoreKeys(f[n], batch[k])]
  <2>2. ASSUME NEW k \in 0 .. n + 1
        PROVE  g[k] = IF k = 0 THEN store ELSE restoreKeys(g[k - 1], batch[k])
    <3>1. CASE k = 0
      BY <2>1, <3>1 DEF RollsBack
    <3>2. CASE k \in 1 .. n
      <4>1. g[k] = f[k] /\ g[k - 1] = f[k - 1]
        BY <3>2
      <4>2. f[k] = IF k = 0 THEN store ELSE restoreKeys(f[k - 1], batch[k])
        <5>. k \in 0 .. n
          BY <3>2
        <5>. QED BY <2>1, RollsBackAt
      <4>. QED BY <4>1, <4>2
    <3>3. CASE k = n + 1
      BY <3>3
    <3>. QED BY <3>1, <3>2, <3>3
  <2>3. RollsBack(g, n + 1)
    <3>. HIDE DEF g
    <3>1. g = [k \in 0 .. n + 1 |-> g[k]]
      BY DEF g
    <3>. QED BY <2>2, <3>1 DEF RollsBack
  <2>. QED BY <2>3
<1>3. m \in N
  <2>. HIDE DEF N
  <2>. QED BY <1>1, <1>2, Upwards
<1>. QED BY <1>3

\* A call undoes its own record only: what it had set is still the record it made,
\* and what it had deleted is not there.
Undone(st, k) ==
  \/ st[k] = store[k]
  \/ \E b \in ToSet(batch) : /\ k \in Touches(b) /\ st[k] = restored(prev[b][k])
                             /\ k \in Puts[b] => store[k].by = b

Undo(st) == st \in [Key -> Records] /\ \A k \in Key : Undone(st, k)

LEMMA BatchIsUndone ==
  ASSUME Typed
  PROVE  Undo(rolledBackBatch)
<1>. DEFINE f == CHOOSE f : RollsBack(f, Len(batch))
<1>0. Len(batch) \in Nat /\ DOMAIN batch = 1 .. Len(batch) /\ \A n \in 1 .. Len(batch) : batch[n] \in Write
  BY DEF Typed, TypedLog
<1>1. RollsBack(f, Len(batch))
  BY <1>0, CallsRollBack
<1>2. rolledBackBatch = f[Len(batch)]
  BY DEF rolledBackBatch, RollsBack
<1>. HIDE DEF f
<1>. DEFINE N == {n \in Nat : Undo(f[n])}
<1>3. 0 \in N
  <2>1. 0 \in 0 .. Len(batch) /\ 0 \in Nat
    BY <1>0
  <2>2. f[0] = store
    BY <1>1, <2>1, RollsBackAt
  <2>. QED BY <2>2 DEF Undo, Undone, Typed, TypedStore
<1>4. ASSUME NEW n \in 0 .. Len(batch) - 1, n \in N PROVE n + 1 \in N
  <2>1. /\ n + 1 \in 0 .. Len(batch) /\ n + 1 # 0 /\ (n + 1) - 1 = n /\ n + 1 \in Nat
        /\ n + 1 \in DOMAIN batch
    BY <1>0
  <2>2. f[n + 1] = restoreKeys(f[n], batch[n + 1])
    BY <1>1, <2>1, RollsBackAt
  <2>. DEFINE b == batch[n + 1]
              st == f[n]
  <2>3. b \in Write /\ b \in ToSet(batch)
    BY <1>0, <2>1 DEF ToSet
  <2>4. Undo(st)
    BY <1>4
  <2>. HIDE DEF b, st
  <2>5. ASSUME NEW k \in Key
        PROVE  restoreKeys(st, b)[k] \in Records /\ Undone(restoreKeys(st, b), k)
    <3>1. restoreKeys(st, b)[k] = IF k \in Touches(b) /\ rolledBack(st, b, k)
                                  THEN restored(prev[b][k]) ELSE st[k]
      BY DEF restoreKeys
    <3>2. st[k] \in Records /\ Undone(st, k)
      BY <2>4 DEF Undo
    <3>3. \A c \in Write : prev[c][k] \in Records
      BY DEF Typed, TypedStore
    <3>4. CASE k \in Touches(b) /\ rolledBack(st, b, k)
      <4>1. k \in Puts[b] => store[k].by = b
        <5>1. SUFFICES ASSUME k \in Puts[b] PROVE store[k].by = b
          OBVIOUS
        <5>2. st[k].by = b
          BY <3>4, <5>1 DEF rolledBack
        <5>3. CASE st[k] = store[k]
          BY <5>2, <5>3
        <5>4. ASSUME NEW c \in ToSet(batch), st[k] = restored(prev[c][k]) PROVE FALSE
          <6>1. c \in Write
            BY <1>0 DEF ToSet
          <6>2. st[k].by = Absent
            BY <3>3, <5>4, <6>1, RecordRestored
          <6>. QED BY <2>3, <5>2, <6>2, AbsentIsNoWrite
        <5>. QED BY <3>2, <5>3, <5>4 DEF Undone
      <4>2. restored(prev[b][k]) \in Records
        BY <2>3, <3>3, RecordRestored
      <4>. QED BY <2>3, <3>1, <3>4, <4>1, <4>2 DEF Undone
    <3>5. CASE ~(k \in Touches(b) /\ rolledBack(st, b, k))
      BY <3>1, <3>2, <3>5 DEF Undone
    <3>. QED BY <3>4, <3>5
  <2>6. restoreKeys(st, b) \in [Key -> Records]
    <3>1. restoreKeys(st, b) = [k \in Key |-> restoreKeys(st, b)[k]]
      BY DEF restoreKeys
    <3>. QED BY <2>5, <3>1
  <2>7. Undo(restoreKeys(st, b))
    BY <2>5, <2>6 DEF Undo
  <2>. QED BY <2>1, <2>2, <2>7 DEF st, b
<1>5. 0 .. Len(batch) \subseteq N
  <2>. HIDE DEF N
  <2>. QED BY <1>0, <1>3, <1>4, Upwards
<1>. QED BY <1>0, <1>2, <1>5

----------------------------------------------------------------------------
(* What a crash leaves *)

\* The frames of the file and of the batch that is being written.
onDisk == wal \o batch

LEMMA FilesAndBatch ==
  ASSUME Typed
  PROVE  /\ onDisk \in Seq(Frame) /\ Len(onDisk) = Len(wal) + Len(batch)
         /\ Len(wal) \in Nat /\ Len(batch) \in Nat
         /\ \A i \in 1 .. Len(wal) : onDisk[i] = wal[i]
         /\ \A i \in 1 .. Len(batch) : onDisk[Len(wal) + i] = batch[i]
<1>1. wal \in Seq(Frame) /\ batch \in Seq(Frame)
  <2>1. batch \in Seq(Write) /\ Write \subseteq Frame
    BY DEF Typed, TypedLog, Frame
  <2>. QED BY <2>1, SeqMonotonic DEF Typed, TypedFiles
<1>2. Len(wal) \in Nat /\ Len(batch) \in Nat
  BY <1>1
<1>3. /\ wal \o batch \in Seq(Frame) /\ Len(wal \o batch) = Len(wal) + Len(batch)
      /\ \A i \in 1 .. Len(wal) + Len(batch) :
           (wal \o batch)[i] = IF i <= Len(wal) THEN wal[i] ELSE batch[i - Len(wal)]
  BY <1>1, ConcatProperties
<1>4. /\ onDisk \in Seq(Frame) /\ Len(onDisk) = Len(wal) + Len(batch)
      /\ \A i \in 1 .. Len(wal) + Len(batch) :
           onDisk[i] = IF i <= Len(wal) THEN wal[i] ELSE batch[i - Len(wal)]
  BY <1>3 DEF onDisk
<1>5. \A i \in 1 .. Len(wal) : onDisk[i] = wal[i]
  BY <1>2, <1>4
<1>6. ASSUME NEW i \in 1 .. Len(batch) PROVE onDisk[Len(wal) + i] = batch[i]
  <2>1. Len(wal) + i \in 1 .. Len(wal) + Len(batch) /\ ~(Len(wal) + i <= Len(wal)) /\ (Len(wal) + i) - Len(wal) = i
    BY <1>2
  <2>. QED BY <1>4, <2>1
<1>. QED BY <1>2, <1>4, <1>5, <1>6

\* A crash leaves the first m frames, and of what is synced all but a torn frame.
Leaves(f, m) ==
  /\ m \in 0 .. Len(onDisk)
  /\ f = SubSeq(onDisk, 1, m)
  /\ \A i \in 1 .. synced : i <= m \/ wal[i] = Torn

LEMMA CrashLeaves ==
  ASSUME Typed, Crash
  PROVE  \E m : Leaves(wal', m)
<1>1. PICK n \in synced .. Len(onDisk) : wal' = truncated(SubSeq(onDisk, 1, n))
  BY DEF Crash, onDisk
<1>2. synced \in Nat /\ Len(onDisk) \in Nat /\ synced <= Len(wal) /\ onDisk \in Seq(Frame) /\ Len(wal) \in Nat
      /\ \A i \in 1 .. Len(wal) : onDisk[i] = wal[i]
  BY FilesAndBatch DEF Typed, TypedFiles
<1>3. n \in 0 .. Len(onDisk) /\ synced <= n /\ n \in Nat
  BY <1>1, <1>2
<1>. DEFINE f == SubSeq(onDisk, 1, n)
<1>4. f \in Seq(Frame) /\ Len(f) = n /\ \A i \in 1 .. n : f[i] = onDisk[i]
  BY <1>2, <1>3, PrefixProperties
<1>5. CASE f # << >> /\ Last(f) = Torn
  <2>1. n # 0 /\ n - 1 \in 0 .. Len(onDisk) /\ n \in 1 .. n
    <3>. HIDE DEF f
    <3>1. n # 0
      BY <1>4, <1>5, EmptySeq
    <3>. QED BY <1>2, <1>3, <3>1
  <2>2. wal' = SubSeq(f, 1, n - 1)
    BY <1>1, <1>4, <1>5 DEF truncated, Front
  <2>3. SubSeq(f, 1, n - 1) = SubSeq(onDisk, 1, n - 1)
    <3>. HIDE DEF f
    <3>1. n - 1 \in 0 .. Len(f)
      BY <1>4, <2>1, <1>3
    <3>2. /\ SubSeq(f, 1, n - 1) \in Seq(Frame) /\ Len(SubSeq(f, 1, n - 1)) = n - 1
          /\ \A i \in 1 .. n - 1 : SubSeq(f, 1, n - 1)[i] = f[i]
      BY <1>4, <3>1, PrefixProperties
    <3>3. /\ SubSeq(onDisk, 1, n - 1) \in Seq(Frame) /\ Len(SubSeq(onDisk, 1, n - 1)) = n - 1
          /\ \A i \in 1 .. n - 1 : SubSeq(onDisk, 1, n - 1)[i] = onDisk[i]
      BY <1>2, <2>1, PrefixProperties
    <3>4. \A i \in 1 .. n - 1 : f[i] = onDisk[i]
      BY <1>3, <1>4
    <3>. DEFINE a == SubSeq(f, 1, n - 1)
                b == SubSeq(onDisk, 1, n - 1)
    <3>5. a \in Seq(Frame) /\ b \in Seq(Frame) /\ Len(a) = Len(b) /\ \A i \in 1 .. Len(a) : a[i] = b[i]
      BY <3>2, <3>3, <3>4
    <3>. HIDE DEF a, b
    <3>6. a = b
      BY <3>5, SeqEqual
    <3>. QED BY <3>6 DEF a, b
  <2>4. ASSUME NEW i \in 1 .. synced PROVE i <= n - 1 \/ wal[i] = Torn
    <3>1. CASE i = n
      <4>1. f[n] = Torn
        BY <1>4, <1>5 DEF Last
      <4>. QED BY <1>2, <1>3, <1>4, <2>1, <3>1, <4>1
    <3>2. CASE i # n
      BY <1>2, <1>3, <3>2
    <3>. QED BY <3>1, <3>2
  <2>. QED BY <2>1, <2>2, <2>3, <2>4 DEF Leaves
<1>6. CASE ~(f # << >> /\ Last(f) = Torn)
  <2>1. wal' = f
    BY <1>1, <1>6 DEF truncated
  <2>2. \A i \in 1 .. synced : i <= n
    BY <1>2, <1>3
  <2>. QED BY <1>3, <2>1, <2>2 DEF Leaves
<1>. QED BY <1>5, <1>6

\* The frames of f that have to do with k.
Of(f, k) == {i \in DOMAIN f : f[i] \in Write /\ k \in Touches(f[i])}

\* The store has of k what the last of these frames says, else what the snapshot has.
LEMMA RecoveredRecord ==
  ASSUME NEW s, NEW f \in Seq(Frame), NEW k \in Key
  PROVE  \/ /\ Of(f, k) = {}
            /\ Recovered(s, f)[k] = IF s[k] = Absent THEN NoRecord ELSE
                                    IF world.disk THEN InSnapshot ELSE InMemory(s[k], Absent)
         \/ \E m \in Of(f, k) :
              /\ \A i \in Of(f, k) : i <= m
              /\ Recovered(s, f)[k] = IF k \in Dels[f[m]] THEN NoRecord ELSE
                                      IF world.disk THEN InWal(m) ELSE InMemory(f[m], Absent)
<1>1. Recovered(s, f)[k] =
        IF Of(f, k) = {}
          THEN IF s[k] = Absent THEN NoRecord ELSE
               IF world.disk THEN InSnapshot ELSE InMemory(s[k], Absent)
          ELSE IF k \in Dels[f[Max(Of(f, k))]] THEN NoRecord ELSE
               IF world.disk THEN InWal(Max(Of(f, k))) ELSE InMemory(f[Max(Of(f, k))], Absent)
  BY DEF Recovered, Of
<1>2. ASSUME Of(f, k) # {}
      PROVE  Max(Of(f, k)) \in Of(f, k) /\ \A i \in Of(f, k) : i <= Max(Of(f, k))
  <2>. DEFINE at == Of(f, k)
  <2>1. at \subseteq 0 .. Len(f) /\ Len(f) \in Nat
    BY DEF Of
  <2>. HIDE DEF at
  <2>2. \E n \in at : \A m \in at : n >= m
    BY <1>2, <2>1, Greatest DEF at
  <2>3. Max(at) \in at /\ \A m \in at : Max(at) >= m
    BY <2>2 DEF Max
  <2>4. \A m \in at : m \in Nat
    BY <2>1
  <2>5. \A m \in at : m <= Max(at)
    BY <2>3, <2>4
  <2>. QED BY <2>3, <2>5 DEF at
<1>. DEFINE m == Max(Of(f, k))
<1>. HIDE DEF m
<1>3. CASE Of(f, k) = {}
  BY <1>1, <1>3
<1>4. CASE Of(f, k) # {}
  BY <1>1, <1>2, <1>4
<1>. QED BY <1>3, <1>4

LEMMA RecoveredTypes ==
  ASSUME NEW s \in [Key -> Kept], NEW f \in Seq(Frame)
  PROVE  Recovered(s, f) \in [Key -> Records]
<1>1. ASSUME NEW k \in Key PROVE Recovered(s, f)[k] \in Records
  <2>1. CASE Recovered(s, f)[k] = IF s[k] = Absent THEN NoRecord ELSE
                                  IF world.disk THEN InSnapshot ELSE InMemory(s[k], Absent)
    BY <2>1, RecordOfNothing, RecordOnDisk, RecordInMemory
  <2>2. ASSUME NEW m \in Of(f, k),
               Recovered(s, f)[k] = IF k \in Dels[f[m]] THEN NoRecord ELSE
                                    IF world.disk THEN InWal(m) ELSE InMemory(f[m], Absent)
        PROVE  Recovered(s, f)[k] \in Records
    <3>1. m \in Nat /\ f[m] \in Kept
      BY WritesAreKept DEF Of
    <3>2. CASE k \in Dels[f[m]]
      BY <2>2, <3>2, RecordOfNothing
    <3>3. CASE k \notin Dels[f[m]] /\ world.disk
      BY <2>2, <3>1, <3>3, RecordOnDisk
    <3>4. CASE k \notin Dels[f[m]] /\ ~world.disk
      BY <2>2, <3>1, <3>4, RecordInMemory
    <3>. QED BY <3>2, <3>3, <3>4
  <2>. QED BY <2>1, <2>2, RecoveredRecord
<1>2. Recovered(s, f) = [k \in Key |-> Recovered(s, f)[k]]
  BY DEF Recovered
<1>. HIDE DEF Recovered
<1>. QED BY <1>1, <1>2

----------------------------------------------------------------------------
(* Every step keeps the types *)

LEMMA InitTypes == Init => Typed
<1> SUFFICES ASSUME Init PROVE Typed
  OBVIOUS
<1>1. world \in [disk : BOOLEAN, errors : Nat]
  BY WorldsAreWorlds DEF Init
<1>2. noSnapshot \in [Key -> Kept]
  BY DEF noSnapshot, Kept
<1>3. \A S : << >> \in Seq(S)
  BY EmptySeq
<1>4. TypedFiles
  BY <1>2, <1>3 DEF Init, TypedFiles
<1>5. TypedLog
  BY <1>3 DEF Init, TypedLog
<1>6. TypedStore
  BY <1>1, RecordOfNothing DEF Init, TypedStore
<1>. QED BY <1>4, <1>5, <1>6 DEF Init, Typed, TypedCompaction, TypedCalls

LEMMA StoresHaveTypes ==
  ASSUME Typed
  PROVE  /\ \A w \in Write : applied(store, w) \in [Key -> Records]
         /\ \A w \in Write :
              [k \in Key |-> IF k \in Touches(w) THEN restored(store[k]) ELSE store[k]] \in [Key -> Records]
         /\ published \in [Key -> Records]
         /\ [k \in Key |-> remapped(k)] \in [Key -> Records]
<1>1. \A k \in Key : store[k] \in Records
  BY DEF Typed, TypedStore
<1>2. \A w \in Write, k \in Key : InMemory(w, w) \in Records /\ restored(store[k]) \in Records
  BY <1>1, WritesAreKept, RecordInMemory, RecordRestored
<1>3. ASSUME NEW w \in Write PROVE applied(store, w) \in [Key -> Records]
  BY <1>1, <1>2, RecordOfNothing DEF applied
<1>4. published \in [Key -> Records]
  <2>1. ASSUME NEW k \in Key, store[k].by \in ToSet(batch), world.disk
        PROVE  InWal(predicted[store[k].by]) \in Records
    <3>1. ToSet(batch) \subseteq Write
      BY DEF Typed, TypedLog, ToSet
    <3>2. predicted[store[k].by] \in Nat
      BY <2>1, <3>1 DEF Typed, TypedLog
    <3>. QED BY <2>1, <3>2, RecordOnDisk
  <2>2. ASSUME NEW k \in Key PROVE published[k] \in Records
    <3>1. published[k] = IF store[k].by \in ToSet(batch)
                         THEN IF world.disk THEN InWal(predicted[store[k].by]) ELSE restored(store[k])
                         ELSE store[k]
      BY DEF published
    <3>2. store[k] \in Records /\ restored(store[k]) \in Records
      BY <1>1, RecordRestored
    <3>. QED BY <2>1, <3>1, <3>2
  <2>3. published = [k \in Key |-> published[k]]
    BY DEF published
  <2>. QED BY <2>2, <2>3
<1>5. ASSUME NEW k \in Key PROVE remapped(k) \in Records
  <2>1. CASE store[k].at \notin {"wal", "snapshot"}
    BY <1>1, <2>1 DEF remapped
  <2>2. CASE store[k].at \in {"wal", "snapshot"}
    <3>1. world.disk /\ store[k].off \in Nat /\ store[k].at # "nowhere"
      BY <1>1, <2>2 DEF Records
    <3>2. ASSUME store[k].off > base PROVE [store[k] EXCEPT !.off = @ - base] \in Records
      <4>1. store[k].off - base \in Nat
        BY <3>1, <3>2 DEF Typed, TypedCompaction
      <4>. QED BY <1>1, <3>1, <4>1, RecordMoved
    <3>. QED BY <1>1, <3>1, <3>2, RecordOnDisk DEF remapped
  <2>. QED BY <2>1, <2>2
<1>. QED BY <1>1, <1>2, <1>3, <1>4, <1>5

\* The calls keep the types.
LEMMA CallsKeepTypes ==
  ASSUME Typed, NEW w \in Write, PassGate(w) \/ Commit(w)
  PROVE  Typed'
<1>1. CASE PassGate(w)
  <2>1. world' = world
    BY <1>1 DEF PassGate
  <2>2. Kept' = Kept /\ Records' = Records
    BY <2>1, SameTypes
  <2>. QED BY <1>1, <2>2 DEF PassGate, fileVars, walVars, compactVars, Typed, TypedFiles, TypedLog,
                             TypedStore, TypedCompaction, TypedCalls
<1>2. CASE Append1(w)
  <2>1. world' = world
    BY <1>2 DEF Append1
  <2>2. Kept' = Kept /\ Records' = Records
    BY <2>1, SameTypes
  <2>3. queue' \in Seq(Write) /\ log' \in Seq(Write)
    BY <1>2, AppendProperties DEF Append1, Typed, TypedLog
  <2>4. TypedLog'
    BY <1>2, <2>3 DEF Append1, Typed, TypedLog, compactVars
  <2>5. TypedStore'
    BY <1>2, <2>1, <2>2, StoresHaveTypes DEF Append1, setStore, Typed, TypedStore
  <2>6. TypedFiles'
    BY <1>2, <2>2 DEF Append1, Typed, TypedFiles, fileVars, compactVars
  <2>7. (TypedCompaction /\ TypedCalls)'
    BY <1>2 DEF Append1, Typed, TypedCompaction, TypedCalls, compactVars
  <2>. QED BY <2>4, <2>5, <2>6, <2>7 DEF Typed
<1>3. CASE AppendToSealed(w)
  <2>1. world' = world
    BY <1>3 DEF AppendToSealed
  <2>2. Kept' = Kept /\ Records' = Records
    BY <2>1, SameTypes
  <2>3. TypedStore'
    BY <1>3, <2>1, <2>2, StoresHaveTypes DEF AppendToSealed, setStore, Typed, TypedStore
  <2>4. TypedCalls'
    BY <1>3 DEF AppendToSealed, retryOnWalSeal, Typed, TypedCalls
  <2>. QED BY <1>3, <2>2, <2>3, <2>4 DEF AppendToSealed, fileVars, walVars, compactVars, Typed, TypedFiles,
                                         TypedLog, TypedCompaction
<1>. QED BY <1>1, <1>2, <1>3 DEF Commit

\* What is left in the file after a write is at least what was there.
LEMMA FailLeaves ==
  ASSUME Typed, BatchFails
  PROVE  \E t \in Seq(Frame) :
           /\ wal' = wal \o t
           /\ \E n \in 0 .. Len(batch) : /\ t = SubSeq(batch, 1, n)
                                            \/ t = SubSeq(batch, 1, n) \o <<Torn>>
<1>1. batch \in Seq(Frame) /\ <<Torn>> \in Seq(Frame)
  <2>1. batch \in Seq(Write) /\ Write \subseteq Frame /\ Torn \in Frame
    BY DEF Typed, TypedLog, Frame
  <2>2. batch \in Seq(Frame)
    BY <2>1, SeqMonotonic
  <2>. QED BY <2>1, <2>2
<1>2. wal \in Seq(Frame)
  BY DEF Typed, TypedFiles
<1>3. PICK n \in 0 .. Len(batch) : \/ wal' = wal \o SubSeq(batch, 1, n)
                                   \/ wal' = wal \o SubSeq(batch, 1, n) \o <<Torn>>
  BY DEF BatchFails
<1>4. SubSeq(batch, 1, n) \in Seq(Frame)
  BY <1>1, PrefixProperties
<1>5. /\ SubSeq(batch, 1, n) \o <<Torn>> \in Seq(Frame)
      /\ (wal \o SubSeq(batch, 1, n)) \o <<Torn>> = wal \o (SubSeq(batch, 1, n) \o <<Torn>>)
  <2>1. SubSeq(batch, 1, n) \o <<Torn>> \in Seq(Frame)
    BY <1>1, <1>4, ConcatProperties
  <2>2. (wal \o SubSeq(batch, 1, n)) \o <<Torn>> = wal \o (SubSeq(batch, 1, n) \o <<Torn>>)
    <3>. DEFINE a == SubSeq(batch, 1, n)
                u == <<Torn>>
    <3>1. a \in Seq(Frame) /\ u \in Seq(Frame)
      BY <1>1, <1>4
    <3>. HIDE DEF a, u
    <3>2. (wal \o a) \o u = wal \o (a \o u)
      BY <1>2, <3>1, ConcatAssociative
    <3>. QED BY <3>2 DEF a, u
  <2>. QED BY <2>1, <2>2
<1>. DEFINE a == SubSeq(batch, 1, n)
            b == SubSeq(batch, 1, n) \o <<Torn>>
<1>6. wal' = wal \o a \/ wal' = wal \o b
  BY <1>3, <1>5
<1>. QED BY <1>4, <1>5, <1>6

\* The log keeps the types.
LEMMA LogKeepsTypes ==
  ASSUME Typed, FlushBatch \/ BatchLands \/ BatchFails
  PROVE  Typed'
<1>1. CASE FlushBatch
  <2>1. world' = world /\ << >> \in Seq(Write)
    BY <1>1, EmptySeq DEF FlushBatch
  <2>2. Kept' = Kept /\ Records' = Records
    BY <2>1, SameTypes
  <2>. QED BY <1>1, <2>1, <2>2 DEF FlushBatch, fileVars, callVars, compactVars, Typed, TypedFiles, TypedLog,
                                   TypedStore, TypedCompaction, TypedCalls
<1>2. ASSUME BatchLands \/ BatchFails PROVE world'.disk = world.disk /\ world' \in [disk : BOOLEAN, errors : Nat]
  BY <1>2 DEF BatchLands, BatchFails, storageFails, Typed, TypedStore
<1>3. CASE BatchLands
  <2>1. Kept' = Kept /\ Records' = Records /\ << >> \in Seq(Write)
    BY <1>2, <1>3, SameTypes, EmptySeq
  <2>2. wal' \in Seq(Frame) /\ Len(wal') \in Nat /\ synced' = Len(wal')
    <3>1. wal' = onDisk
      BY <1>3 DEF BatchLands, onDisk
    <3>. QED BY <1>3, <3>1, FilesAndBatch DEF BatchLands
  <2>3. TypedFiles'
    BY <1>3, <2>1, <2>2 DEF BatchLands, Typed, TypedFiles, compactVars, Frame
  <2>4. TypedStore'
    BY <1>2, <1>3, <2>1, StoresHaveTypes DEF BatchLands, setStore, Typed, TypedStore
  <2>5. TypedCalls'
    BY <1>3 DEF BatchLands, answer, Typed, TypedCalls
  <2>. QED BY <1>3, <2>1, <2>3, <2>4, <2>5 DEF BatchLands, Typed, TypedLog, TypedCompaction, compactVars
<1>4. CASE BatchFails
  <2>1. Kept' = Kept /\ Records' = Records /\ << >> \in Seq(Write)
    BY <1>2, <1>4, SameTypes, EmptySeq
  <2>2. PICK t \in Seq(Frame) : wal' = wal \o t
    BY <1>4, FailLeaves
  <2>3. wal \in Seq(Frame) /\ synced \in 0 .. Len(wal)
    BY DEF Typed, TypedFiles
  <2>4. wal' \in Seq(Frame) /\ Len(wal') = Len(wal) + Len(t)
    BY <2>2, <2>3, ConcatProperties
  <2>5. synced' = synced /\ synced \in 0 .. Len(wal')
    BY <1>4, <2>3, <2>4 DEF BatchFails
  <2>6. TypedFiles'
    BY <1>4, <2>1, <2>4, <2>5 DEF BatchFails, Typed, TypedFiles, compactVars, Frame
  <2>7. TypedStore'
    BY <1>2, <1>4, <2>1, BatchIsUndone DEF BatchFails, setStore, Typed, TypedStore, Undo
  <2>8. TypedCalls'
    BY <1>4 DEF BatchFails, answer, Typed, TypedCalls
  <2>. QED BY <1>4, <2>1, <2>6, <2>7, <2>8 DEF BatchFails, Typed, TypedLog, TypedCompaction, compactVars
<1>. QED BY <1>1, <1>3, <1>4

LEMMA TailIsCopied ==
  ASSUME Typed, copyTail
  PROVE  newWal' \in Seq(Frame) /\ copied' \in Nat
<1>1. /\ wal \in Seq(Frame) /\ newWal \in Seq(Frame) /\ copied \in Nat /\ Len(wal) \in Nat
      /\ \A i \in copied + 1 .. Len(wal) : wal[i] \in Frame
  BY DEF Typed, TypedFiles, TypedCompaction
<1>2. SubSeq(wal, copied + 1, Len(wal)) \in Seq(Frame)
  BY <1>1, SubSeqProperties
<1>. QED BY <1>1, <1>2, ConcatProperties DEF copyTail

\* A compaction keeps the types, until it rotates the log.
LEMMA CompactionKeepsTypes ==
  ASSUME Typed, BeginCompaction \/ (\E k \in Key : SnapshotKey(k)) \/ SnapshotDone \/ PreCopy
  PROVE  Typed'
<1>1. world' = world /\ Kept' = Kept /\ Records' = Records
  BY SameTypes DEF BeginCompaction, SnapshotKey, SnapshotDone, PreCopy
<1>. USE DEF Typed, TypedFiles, TypedLog, TypedStore, TypedCompaction, TypedCalls
<1>2. CASE BeginCompaction
  <2>1. Len(wal) \in Nat /\ << >> \in Seq(Frame) /\ noSnapshot \in [Key -> Kept] /\ Frame' = Frame
    BY EmptySeq DEF noSnapshot, Kept, Frame
  <2>2. TypedFiles'
    BY <1>1, <1>2, <2>1 DEF BeginCompaction, fileVars
  <2>. QED BY <1>1, <1>2, <2>1, <2>2 DEF BeginCompaction, walVars, callVars
<1>3. ASSUME NEW k \in Key, SnapshotKey(k) PROVE Typed'
  <2>1. newSnap' \in [Key -> Kept]
    BY <1>3, ValueIsKept DEF SnapshotKey
  <2>2. TypedFiles'
    BY <1>1, <1>3, <2>1 DEF SnapshotKey, fileVars, Frame
  <2>. QED BY <1>1, <1>3, <2>2 DEF SnapshotKey, walVars, callVars
<1>4. CASE SnapshotDone
  BY <1>1, <1>4 DEF SnapshotDone, fileVars, walVars, callVars, Frame
<1>5. CASE PreCopy
  <2>1. newWal' \in Seq(Frame) /\ copied' \in Nat
    BY <1>5, TailIsCopied DEF PreCopy
  <2>2. TypedFiles'
    BY <1>1, <1>5, <2>1 DEF PreCopy, fileVars, Frame
  <2>. QED BY <1>1, <1>5, <2>1, <2>2 DEF PreCopy, walVars, callVars
<1>. QED BY <1>2, <1>3, <1>4, <1>5

\* A fresh log over the file that is there has the types.
LEMMA FreshLogHasTypes ==
  ASSUME Typed, freshWal, wal' \in Seq(Frame)
  PROVE  /\ synced' \in 0 .. Len(wal')
         /\ UNCHANGED <<log, predicted>> => TypedLog'
<1>1. Len(wal') \in Nat
  BY LenProperties
<1>. QED BY <1>1 DEF freshWal, Typed, TypedLog

\* A rotation keeps the types, also when it fails.
LEMMA RotationKeepsTypes ==
  ASSUME Typed, BeginRotation \/ Drain \/ RenameSnapshot \/ RenameWal \/ CompactionFails
  PROVE  Typed'
<1>1. world'.disk = world.disk /\ world' \in [disk : BOOLEAN, errors : Nat]
  BY DEF BeginRotation, Drain, RenameSnapshot, RenameWal, CompactionFails, storageFails, Typed, TypedStore
<1>2. Kept' = Kept /\ Records' = Records /\ Frame' = Frame
  BY <1>1, SameTypes DEF Frame
<1>3. << >> \in Seq(Frame) /\ noSnapshot \in [Key -> Kept]
  BY EmptySeq DEF noSnapshot, Kept
<1>4. CASE BeginRotation
  BY <1>1, <1>2, <1>4 DEF BeginRotation, fileVars, callVars, Typed, TypedFiles, TypedLog, TypedStore,
                          TypedCompaction, TypedCalls
<1>5. CASE Drain
  <2>1. newWal' \in Seq(Frame) /\ copied' \in Nat
    BY <1>5, TailIsCopied DEF Drain
  <2>2. synced' \in 0 .. Len(wal')
    BY <1>5 DEF Drain, Typed, TypedFiles
  <2>3. TypedFiles'
    BY <1>2, <1>5, <2>1, <2>2 DEF Drain, Typed, TypedFiles
  <2>. QED BY <1>1, <1>2, <1>5, <2>1, <2>3 DEF Drain, walVars, callVars, Typed, TypedLog, TypedStore,
                                              TypedCompaction, TypedCalls
<1>6. CASE RenameSnapshot
  BY <1>1, <1>2, <1>6 DEF RenameSnapshot, walVars, callVars, Typed, TypedFiles, TypedLog, TypedStore,
                          TypedCompaction, TypedCalls
<1>7. CASE RenameWal
  <2>1. wal' \in Seq(Frame) /\ UNCHANGED <<log, predicted>> /\ freshWal
    BY <1>7 DEF RenameWal, callVars, Typed, TypedFiles
  <2>2. synced' \in 0 .. Len(wal') /\ TypedLog'
    BY <2>1, FreshLogHasTypes
  <2>3. TypedFiles'
    BY <1>2, <1>3, <1>7, <2>1, <2>2 DEF RenameWal, forgetTemporaries, Typed, TypedFiles
  <2>4. TypedStore'
    BY <1>1, <1>2, <1>7, StoresHaveTypes DEF RenameWal, callVars, Typed, TypedStore
  <2>. QED BY <1>7, <2>2, <2>3, <2>4 DEF RenameWal, forgetTemporaries, callVars, Typed, TypedCompaction,
                                         TypedCalls
<1>8. CASE CompactionFails
  <2>1. wal' \in Seq(Frame) /\ UNCHANGED <<log, predicted, wal>>
    BY <1>8 DEF CompactionFails, callVars, Typed, TypedFiles
  <2>2. CASE UNCHANGED <<synced, walVars>>
    <3>1. TypedFiles'
      BY <1>2, <1>3, <1>8, <2>1, <2>2 DEF CompactionFails, forgetTemporaries, Typed, TypedFiles
    <3>. QED BY <1>1, <1>2, <1>8, <2>1, <2>2, <3>1 DEF CompactionFails, forgetTemporaries, walVars, callVars,
                                             Typed, TypedLog, TypedStore, TypedCompaction, TypedCalls
  <2>3. CASE freshWal
    <3>1. synced' \in 0 .. Len(wal') /\ TypedLog'
      BY <2>1, <2>3, FreshLogHasTypes
    <3>2. TypedFiles'
      BY <1>2, <1>3, <1>8, <2>1, <3>1 DEF CompactionFails, forgetTemporaries, Typed, TypedFiles
    <3>. QED BY <1>1, <1>2, <1>8, <3>1, <3>2 DEF CompactionFails, forgetTemporaries, callVars,
                                             Typed, TypedStore, TypedCompaction, TypedCalls
  <2>. QED BY <1>8, <2>2, <2>3 DEF CompactionFails
<1>. QED BY <1>4, <1>5, <1>6, <1>7, <1>8

LEMMA CrashKeepsTypes ==
  ASSUME Typed, Crash
  PROVE  Typed'
<1>1. world' = world /\ Kept' = Kept /\ Records' = Records /\ Frame' = Frame
  BY SameTypes DEF Crash, Frame
<1>2. << >> \in Seq(Frame) /\ << >> \in Seq(Write) /\ noSnapshot \in [Key -> Kept]
  BY EmptySeq DEF noSnapshot, Kept
<1>3. PICK m \in 0 .. Len(onDisk) : wal' = SubSeq(onDisk, 1, m)
  BY CrashLeaves DEF Leaves
<1>4. wal' \in Seq(Frame) /\ Len(wal') \in Nat
  BY <1>3, FilesAndBatch, PrefixProperties
<1>5. TypedFiles'
  BY <1>1, <1>2, <1>4 DEF Crash, forgetTemporaries, Typed, TypedFiles
<1>6. log' \in Seq(Write)
  BY SelectSet DEF Crash, Typed, TypedLog
<1>7. TypedLog'
  BY <1>2, <1>4, <1>6 DEF Crash, Typed, TypedLog
<1>8. store' \in [Key -> Records]
  BY <1>4, RecoveredTypes DEF Crash, Typed, TypedFiles
<1>9. TypedStore'
  BY <1>1, <1>8 DEF Crash, Typed, TypedStore
<1>10. TypedCalls'
  BY DEF Crash, Typed, TypedCalls
<1>. QED BY <1>5, <1>7, <1>9, <1>10 DEF Crash, forgetTemporaries, Typed, TypedCompaction

LEMMA NextKeepsTypes == Typed /\ [Next]_vars => Typed'
<1> SUFFICES ASSUME Typed, [Next]_vars PROVE Typed'
  OBVIOUS
<1>1. ASSUME NEW w \in Write, PassGate(w) \/ Commit(w) PROVE Typed'
  BY <1>1, CallsKeepTypes
<1>2. CASE FlushBatch \/ BatchLands \/ BatchFails
  BY <1>2, LogKeepsTypes
<1>3. CASE BeginCompaction \/ (\E k \in Key : SnapshotKey(k)) \/ SnapshotDone \/ PreCopy
  BY <1>3, CompactionKeepsTypes
<1>4. CASE BeginRotation \/ Drain \/ RenameSnapshot \/ RenameWal \/ CompactionFails
  BY <1>4, RotationKeepsTypes
<1>5. CASE Crash
  BY <1>5, CrashKeepsTypes
<1>6. CASE UNCHANGED vars
  <2>1. Kept' = Kept /\ Records' = Records /\ Frame' = Frame
    BY <1>6, SameTypes DEF vars, Frame
  <2>. QED BY <1>6, <2>1 DEF vars, fileVars, walVars, callVars, compactVars, Typed, TypedFiles, TypedLog,
                             TypedStore, TypedCompaction, TypedCalls
<1>. QED BY <1>1, <1>2, <1>3, <1>4, <1>5, <1>6 DEF Next

\* The store is well formed, whatever fails and wherever the process dies, and as
\* long as the storage works no write is rejected.
THEOREM StoreIsWellFormed == Spec => []StoreInvariant
<1>1. Typed /\ RInv => StoreInvariant
  <2>1. Records \subseteq [at : {"nowhere", "memory", "wal", "snapshot"}, val : Kept, off : Nat,
                           by : Write \union {Absent}]
    BY DEF Records
  <2>2. Typed => \A k \in Key : store[k].at \in {"nowhere", "memory", "wal", "snapshot"}
    <3>1. SUFFICES ASSUME Typed, NEW k \in Key
                   PROVE  store[k].at \in {"nowhere", "memory", "wal", "snapshot"}
      OBVIOUS
    <3>2. store[k] \in Records
      BY <3>1 DEF Typed, TypedStore
    <3>. QED BY <2>1, <3>2
  <2>. QED BY <2>2 DEF Typed, TypedFiles, TypedCalls, TypedCompaction, RInv, StoreInvariant, TypeOK, Settled
<1>2. Spec => []RInv
  BY InitRotation, NextRejectsNothing, PTL DEF Spec
<1>3. Spec => []Typed
  BY InitTypes, NextKeepsTypes, PTL DEF Spec
<1>. QED BY <1>1, <1>2, <1>3, PTL

----------------------------------------------------------------------------
(* What explains a value *)

EffectOn(w, k) == IF k \in Puts[w] THEN w ELSE Absent

\* In the log l, v is what a write of who made of k, after which only those of rest
\* touched k; or only those of rest touched it at all.
Explains(l, who, k, v, rest) ==
  \/ \E x \in ToSet(l) : /\ x \in who /\ k \in Touches(x) /\ v = EffectOn(x, k)
                         /\ \A y \in ToSet(l) : Before(l, x, y) /\ k \in Touches(y) => y \in rest
  \/ v = Absent /\ \A y \in ToSet(l) : k \in Touches(y) => y \in rest

LEMMA ExplainsMore ==
  ASSUME NEW l, NEW who, NEW k, NEW v, NEW rest, Explains(l, who, k, v, rest), NEW more, NEW others,
         \A x \in ToSet(l) : /\ x \in who => x \in more
                             /\ x \in rest /\ k \in Touches(x) => x \in others
  PROVE  Explains(l, more, k, v, others)
<1>1. CASE v = Absent /\ \A y \in ToSet(l) : k \in Touches(y) => y \in rest
  BY <1>1 DEF Explains
<1>2. ASSUME NEW x \in ToSet(l), x \in who, k \in Touches(x), v = EffectOn(x, k),
             \A y \in ToSet(l) : Before(l, x, y) /\ k \in Touches(y) => y \in rest
      PROVE  Explains(l, more, k, v, others)
  <2>1. \A y \in ToSet(l) : Before(l, x, y) /\ k \in Touches(y) => y \in others
    BY <1>2
  <2>. QED BY <1>2, <2>1 DEF Explains
<1>. QED BY <1>1, <1>2 DEF Explains

\* A write that is logged touches other keys, or is one of the rest.
LEMMA ExplainsAppended ==
  ASSUME NEW l \in Seq(Write), NEW w \in Write, w \notin ToSet(l),
         NEW who, NEW k, NEW v, NEW rest, Explains(l, who, k, v, rest), NEW more, NEW others,
         \A x \in ToSet(l) : (x \in who => x \in more) /\ (x \in rest => x \in others),
         k \in Touches(w) => w \in others
  PROVE  Explains(Append(l, w), more, k, v, others)
<1>1. ToSet(Append(l, w)) = ToSet(l) \union {w}
  BY AppendSet
<1>2. \A x, y : Before(Append(l, w), x, y) <=> Before(l, x, y) \/ (y = w /\ x \in ToSet(l))
  BY BeforeAppend
<1>3. CASE v = Absent /\ \A y \in ToSet(l) : k \in Touches(y) => y \in rest
  BY <1>1, <1>3 DEF Explains
<1>4. ASSUME NEW x \in ToSet(l), x \in who, k \in Touches(x), v = EffectOn(x, k),
             \A y \in ToSet(l) : Before(l, x, y) /\ k \in Touches(y) => y \in rest
      PROVE  Explains(Append(l, w), more, k, v, others)
  <2>1. ASSUME NEW y \in ToSet(Append(l, w)), Before(Append(l, w), x, y), k \in Touches(y)
        PROVE  y \in others
    <3>1. CASE y = w
      BY <2>1, <3>1
    <3>2. CASE y # w
      <4>1. y \in ToSet(l) /\ Before(l, x, y)
        BY <1>1, <1>2, <2>1, <3>2
      <4>. QED BY <1>4, <2>1, <4>1
    <3>. QED BY <3>1, <3>2
  <2>2. x \in ToSet(Append(l, w)) /\ x \in more
    BY <1>1, <1>4
  <2>. QED BY <1>4, <2>1, <2>2 DEF Explains
<1>. QED BY <1>3, <1>4 DEF Explains

\* The write that is logged last explains what it made of its keys.
LEMMA ExplainsItself ==
  ASSUME NEW l \in Seq(Write), NEW w \in Write, w \notin ToSet(l), NEW k, k \in Touches(w), NEW rest
  PROVE  Explains(Append(l, w), Write, k, EffectOn(w, k), rest)
<1>1. w \in ToSet(Append(l, w))
  BY AppendSet
<1>2. \A y : ~Before(Append(l, w), w, y)
  <2>1. SUFFICES ASSUME NEW y, Before(Append(l, w), w, y) PROVE FALSE
    OBVIOUS
  <2>2. Before(l, w, y) \/ w \in ToSet(l)
    BY <2>1, BeforeAppend
  <2>. QED BY <2>2, BeforeIsOfElements
<1>. QED BY <1>1, <1>2 DEF Explains

\* A crash takes away only writes that explain nothing.
LEMMA ExplainsKept ==
  ASSUME NEW l \in Seq(Write), NEW keep,
         NEW who, NEW k, NEW v, NEW rest, Explains(l, who, k, v, rest), NEW more, NEW others,
         \A x \in ToSet(l) : x \in who => x \in keep /\ x \in more,
         \A x \in ToSet(l) : x \in rest /\ x \in keep => x \in others
  PROVE  Explains(SelectIn(l, keep), more, k, v, others)
<1>. DEFINE q == SelectIn(l, keep)
<1>1. ToSet(q) = ToSet(l) \intersect keep
  BY SelectSet
<1>2. \A x, y : Before(q, x, y) => Before(l, x, y)
  BY SelectOrder
<1>. HIDE DEF q
<1>3. CASE v = Absent /\ \A y \in ToSet(l) : k \in Touches(y) => y \in rest
  <2>1. Explains(q, more, k, v, others)
    BY <1>1, <1>3 DEF Explains
  <2>. QED BY <2>1 DEF q
<1>4. ASSUME NEW x \in ToSet(l), x \in who, k \in Touches(x), v = EffectOn(x, k),
             \A y \in ToSet(l) : Before(l, x, y) /\ k \in Touches(y) => y \in rest
      PROVE  Explains(SelectIn(l, keep), more, k, v, others)
  <2>1. x \in ToSet(q) /\ x \in more
    BY <1>1, <1>4
  <2>2. \A y \in ToSet(q) : Before(q, x, y) /\ k \in Touches(y) => y \in others
    BY <1>1, <1>2, <1>4
  <2>3. Explains(q, more, k, v, others)
    BY <1>4, <2>1, <2>2 DEF Explains
  <2>. QED BY <2>3 DEF q
<1>. QED BY <1>3, <1>4 DEF Explains

----------------------------------------------------------------------------
(* One order of frames within another *)

\* The writes of p are in q, in the same order.
Within(p, q) ==
  /\ ToSet(p) \subseteq ToSet(q) \union {Torn}
  /\ \A x, y \in Write : Before(p, x, y) => Before(q, x, y)

LEMMA WithinTransitive ==
  ASSUME NEW p, NEW q, NEW r, Within(p, q), Within(q, r)
  PROVE  Within(p, r)
  BY DEF Within

LEMMA WithinPart ==
  ASSUME NEW S, NEW s \in Seq(S), NEW n \in 0 .. Len(s)
  PROVE  Within(SubSeq(s, 1, n), s) /\ Within(SubSeq(s, n + 1, Len(s)), s)
<1>. DEFINE a == SubSeq(s, 1, n)
            b == SubSeq(s, n + 1, Len(s))
<1>1. a \in Seq(S) /\ b \in Seq(S) /\ s = a \o b
  <2>1. a \in Seq(S) /\ b \in Seq(S)
    BY PrefixProperties, SuffixProperties
  <2>2. s = a \o b
    <3>1. Len(s) \in Nat /\ 1 \in 1 .. Len(s) + 1 /\ n \in 1 - 1 .. Len(s) /\ Len(s) \in n .. Len(s)
      OBVIOUS
    <3>2. SubSeq(s, 1, n) \o SubSeq(s, n + 1, Len(s)) = SubSeq(s, 1, Len(s))
      BY <3>1, ConcatAdjacentSubSeq
    <3>. QED BY <3>2, SubSeqFull
  <2>. QED BY <2>1, <2>2
<1>. HIDE DEF a, b
<1>2. ToSet(s) = ToSet(a) \union ToSet(b)
  BY <1>1, ConcatSet
<1>3. \A x, y : Before(s, x, y) <=> \/ Before(a, x, y) \/ Before(b, x, y)
                                    \/ x \in ToSet(a) /\ y \in ToSet(b)
  BY <1>1, BeforeConcat
<1>4. Within(a, s) /\ Within(b, s)
  BY <1>2, <1>3 DEF Within
<1>. QED BY <1>4 DEF a, b

LEMMA WithinConcat ==
  ASSUME NEW S, NEW p \in Seq(S), NEW q \in Seq(S), NEW s \in Seq(S), Within(p, q)
  PROVE  Within(s \o p, s \o q) /\ Within(p \o s, q \o s)
<1>1. /\ ToSet(s \o p) = ToSet(s) \union ToSet(p) /\ ToSet(s \o q) = ToSet(s) \union ToSet(q)
      /\ ToSet(p \o s) = ToSet(p) \union ToSet(s) /\ ToSet(q \o s) = ToSet(q) \union ToSet(s)
  BY ConcatSet
<1>2. \A x, y : Before(s \o p, x, y) <=> \/ Before(s, x, y) \/ Before(p, x, y)
                                         \/ x \in ToSet(s) /\ y \in ToSet(p)
  BY BeforeConcat
<1>3. \A x, y : Before(s \o q, x, y) <=> \/ Before(s, x, y) \/ Before(q, x, y)
                                         \/ x \in ToSet(s) /\ y \in ToSet(q)
  BY BeforeConcat
<1>4. \A x, y : Before(p \o s, x, y) <=> \/ Before(p, x, y) \/ Before(s, x, y)
                                         \/ x \in ToSet(p) /\ y \in ToSet(s)
  BY BeforeConcat
<1>5. \A x, y : Before(q \o s, x, y) <=> \/ Before(q, x, y) \/ Before(s, x, y)
                                         \/ x \in ToSet(q) /\ y \in ToSet(s)
  BY BeforeConcat
<1>6. \A x \in Write : x # Torn
  BY AbsentIsNoWrite
<1>. DEFINE sp == s \o p
            sq == s \o q
            ps == p \o s
            qs == q \o s
<1>. HIDE DEF sp, sq, ps, qs
<1>7. Within(sp, sq)
  BY <1>1, <1>2, <1>3, <1>6 DEF Within, sp, sq
<1>8. Within(ps, qs)
  BY <1>1, <1>4, <1>5, <1>6 DEF Within, ps, qs
<1>. QED BY <1>7, <1>8 DEF sp, sq, ps, qs

\* A write that fails leaves in the file some of the frames, and maybe a torn one.
LEMMA WithinTorn ==
  ASSUME NEW p \in Seq(Frame)
  PROVE  Within(p \o <<Torn>>, p)
<1>. DEFINE t == <<Torn>>
<1>1. t \in Seq(Frame) /\ ToSet(t) = {Torn} /\ \A x, y : ~Before(t, x, y)
  BY DEF Frame, ToSet, Before
<1>. HIDE DEF t
<1>2. ToSet(p \o t) = ToSet(p) \union {Torn}
  BY <1>1, ConcatSet
<1>3. \A x, y : Before(p \o t, x, y) <=> \/ Before(p, x, y) \/ Before(t, x, y)
                                         \/ x \in ToSet(p) /\ y \in ToSet(t)
  BY <1>1, BeforeConcat
<1>. DEFINE pt == p \o t
<1>. HIDE DEF pt
<1>4. Within(pt, p)
  BY <1>1, <1>2, <1>3, AbsentIsNoWrite DEF Within, pt
<1>. QED BY <1>4 DEF pt, t

LEMMA WithinAppended ==
  ASSUME NEW p \in Seq(Frame), NEW l \in Seq(Write), Within(p, l), NEW w \in Write
  PROVE  Within(Append(p, w), Append(l, w))
<1>1. w \in Frame
  BY DEF Frame
<1>2. ToSet(Append(p, w)) = ToSet(p) \union {w} /\ ToSet(Append(l, w)) = ToSet(l) \union {w}
  BY <1>1, AppendSet
<1>3. \A x, y : Before(Append(p, w), x, y) <=> Before(p, x, y) \/ (y = w /\ x \in ToSet(p))
  BY <1>1, BeforeAppend
<1>4. \A x, y : Before(Append(l, w), x, y) <=> Before(l, x, y) \/ (y = w /\ x \in ToSet(l))
  BY BeforeAppend
<1>5. \A x \in Write : x # Torn
  BY AbsentIsNoWrite
<1>. QED BY <1>2, <1>3, <1>4, <1>5 DEF Within

LEMMA WithinSelected ==
  ASSUME NEW p, NEW l \in Seq(Write), Within(p, l), NEW keep,
         \A x \in ToSet(p) : x \in keep \/ x = Torn
  PROVE  Within(p, SelectIn(l, keep))
<1>1. ToSet(SelectIn(l, keep)) = ToSet(l) \intersect keep
  BY SelectSet
<1>2. ASSUME NEW x \in Write, NEW y \in Write, Before(p, x, y) PROVE Before(SelectIn(l, keep), x, y)
  <2>1. x \in keep /\ y \in keep /\ Before(l, x, y)
    BY <1>2, BeforeIsOfElements, AbsentIsNoWrite DEF Within
  <2>. QED BY <2>1, SelectKeepsOrder
<1>3. ToSet(p) \subseteq ToSet(SelectIn(l, keep)) \union {Torn}
  BY <1>1 DEF Within
<1>. QED BY <1>2, <1>3 DEF Within

----------------------------------------------------------------------------
(* The invariant of the refinement *)

\* The frames in the order in which they come to the file.
pipe == onDisk \o queue

Rejects == {w \in Write : pc[w] = "rejected"}
Contested(k) == \E w \in Rejects : k \in Dels[w]
done == {w \in Write : pc[w] # "pending"}
from(w) == {y \in Write : y = w \/ Before(log, w, y)}
fenced == {wal[i] : i \in base + 1 .. Len(wal)} \union ToSet(batch) \union ToSet(queue)

\* The frames are those of the log, in its order.
Ordered == IsInjective(log) /\ Within(pipe, log)

\* A write is logged when it is applied, and pending while its frame is on its way.
Logged ==
  /\ \A w \in ToSet(log) : pc[w] \in {"pending", "acked", "rejected"}
  /\ \A w \in Write : pc[w] = "pending" <=> w \in ToSet(batch) \union ToSet(queue)

\* The frame of a write that has been acknowledged is on disk, or in the snapshot: then
\* all frames are of later writes.
Lasts(w) ==
  \/ \E i \in 1 .. synced : wal[i] = w
  \/ \A y \in ToSet(pipe) : y = Torn \/ Before(log, w, y)
AckedAreSynced == \A w \in ToSet(log) : pc[w] = "acked" => Lasts(w)

\* What is read is explained by the log.
ValuesAreExplained ==
  \A k \in Key : Contested(k) \/ Explains(log, Write, k, valueOf(k), Rejects)

\* The snapshot is, by writes that need no frame, up to what the frames say.
SnapshotIsExplained ==
  \A k \in Key : Contested(k) \/ Explains(log, done, k, snapshot[k], Rejects \union ToSet(pipe))

\* So is the next one, up to what the frames behind the fence say.
NewSnapshotIsExplained ==
  phase # "idle" =>
    \A k \in Key : phase # "snapshot" \/ k \in visited \/ newSnap[k] # Absent =>
      Contested(k) \/ Explains(log, Write, k, newSnap[k], Rejects \union fenced)

\* What is read at the place of a record.
readAt(r, k) ==
  CASE r.at = "nowhere" -> Absent
    [] r.at = "memory" -> r.val
    [] r.at = "wal" -> frameAt(wal, r.off, k)
    [] r.at = "snapshot" -> openSnap[k]

\* The keys of a call that may fail yet: what was there is put back.
MayUndo(w, k) == pc[w] = "pending" /\ k \in Touches(w)

\* What a call puts back if it fails is explained by the log before it.
PrevIsExplained ==
  \A w \in Write, k \in Key : MayUndo(w, k) =>
    Contested(k) \/ Explains(log, Write, k, readAt(prev[w][k], k), Rejects \union from(w))

\* The record that a call can roll back is of the last write of its key.
Owned(r, k) ==
  /\ r.at = "memory" /\ r.val = r.by
  /\ k \in Puts[r.by] /\ r.by \in ToSet(log)
  /\ \A y \in ToSet(log) : Before(log, r.by, y) => k \notin Touches(y)
OwnRecords == \A k \in Key : store[k].by # Absent => Owned(store[k], k)

\* The new log has what is behind the fence, and at the end all of it.
Copied ==
  /\ sealed <=> phase \in {"drain", "drained", "renamed"}
  /\ sealed => rotateLock
  /\ phase # "idle" =>
       base <= copied /\ copied <= Len(wal) /\ newWal = SubSeq(wal, base + 1, copied)
  /\ phase \in {"drained", "renamed"} => copied = Len(wal) /\ Quiet
  /\ phase = "renamed" => snapshot = newSnap

\* A record leads to a value of its key, and so does one that a call may put back.
Leads(r, k) ==
  /\ r.at = "wal" => /\ r.off \in 1 .. Len(wal) /\ wal[r.off] \in Write
                     /\ k \in Puts[wal[r.off]]
  /\ r.at = "snapshot" => openSnap[k] \in Write
  /\ r.at = "memory" => r.val \in Write
RecordsLead ==
  /\ \A k \in Key : Leads(store[k], k)
  /\ \A w \in Write, k \in Key : MayUndo(w, k) => Leads(prev[w][k], k)

\* A snapshot has whole values.
Untorn == \A k \in Key : snapshot[k] # Torn /\ newSnap[k] # Torn

\* The next snapshot has the values that the new log has not.
Moves(r) == r.at = "snapshot" \/ (r.at = "wal" /\ r.off <= base)
Copies ==
  world.disk /\ phase # "idle" =>
    \A k \in Key : Moves(store[k]) /\ (phase # "snapshot" \/ k \in visited) =>
      newSnap[k] = valueOf(k)

MapInv ==
  /\ Ordered /\ Logged /\ AckedAreSynced
  /\ ValuesAreExplained /\ SnapshotIsExplained /\ NewSnapshotIsExplained
  /\ PrevIsExplained /\ OwnRecords
  /\ Copied /\ RecordsLead /\ Untorn /\ Copies

LEMMA PipeIsTyped ==
  ASSUME Typed
  PROVE  /\ pipe \in Seq(Frame) /\ onDisk \in Seq(Frame)
         /\ wal \in Seq(Frame) /\ batch \in Seq(Frame) /\ queue \in Seq(Frame)
         /\ Len(wal) \in Nat /\ Len(batch) \in Nat /\ Len(onDisk) \in Nat
         /\ log \in Seq(Write)
<1>1. onDisk \in Seq(Frame) /\ wal \in Seq(Frame) /\ log \in Seq(Write)
  BY FilesAndBatch DEF Typed, TypedFiles, TypedLog
<1>2. queue \in Seq(Frame) /\ batch \in Seq(Frame)
  <2>1. Write \subseteq Frame /\ batch \in Seq(Write) /\ queue \in Seq(Write)
    BY DEF Typed, TypedLog, Frame
  <2>. QED BY <2>1, SeqMonotonic
<1>3. pipe \in Seq(Frame)
  BY <1>1, <1>2, ConcatProperties DEF pipe
<1>4. Len(wal) \in Nat /\ Len(batch) \in Nat /\ Len(onDisk) \in Nat
  BY <1>1, <1>2, LenProperties
<1>. QED BY <1>1, <1>2, <1>3, <1>4

LEMMA PipeParts ==
  ASSUME Typed
  PROVE  /\ ToSet(pipe) = ToSet(onDisk) \union ToSet(queue)
         /\ ToSet(onDisk) = ToSet(wal) \union ToSet(batch)
         /\ ToSet(batch) \subseteq Write /\ ToSet(queue) \subseteq Write
         /\ ToSet(wal) \subseteq Write \union {Torn} /\ ToSet(log) \subseteq Write
         /\ \A x, y : Before(pipe, x, y) <=> \/ Before(onDisk, x, y) \/ Before(queue, x, y)
                                             \/ x \in ToSet(onDisk) /\ y \in ToSet(queue)
         /\ \A x, y : Before(onDisk, x, y) <=> \/ Before(wal, x, y) \/ Before(batch, x, y)
                                               \/ x \in ToSet(wal) /\ y \in ToSet(batch)
<1>1. ToSet(pipe) = ToSet(onDisk) \union ToSet(queue)
  BY PipeIsTyped, ConcatSet DEF pipe
<1>2. ToSet(onDisk) = ToSet(wal) \union ToSet(batch)
  BY PipeIsTyped, ConcatSet DEF onDisk
<1>3. ToSet(batch) \subseteq Write /\ ToSet(queue) \subseteq Write /\ ToSet(log) \subseteq Write
  BY DEF Typed, TypedLog, ToSet
<1>4. ToSet(wal) \subseteq Write \union {Torn}
  BY DEF Typed, TypedFiles, ToSet, Frame
<1>5. \A x, y : Before(pipe, x, y) <=> \/ Before(onDisk, x, y) \/ Before(queue, x, y)
                                       \/ x \in ToSet(onDisk) /\ y \in ToSet(queue)
  BY PipeIsTyped, BeforeConcat DEF pipe
<1>6. \A x, y : Before(onDisk, x, y) <=> \/ Before(wal, x, y) \/ Before(batch, x, y)
                                         \/ x \in ToSet(wal) /\ y \in ToSet(batch)
  BY PipeIsTyped, BeforeConcat DEF onDisk
<1>. QED BY <1>1, <1>2, <1>3, <1>4, <1>5, <1>6

\* The log has no write twice; so no write comes after itself.
LEMMA LogIsStrict ==
  ASSUME Typed, Ordered
  PROVE  /\ \A x, y : ~(Before(log, x, y) /\ Before(log, y, x))
         /\ \A x : ~Before(log, x, x)
         /\ \A x, y \in ToSet(log) : x = y \/ Before(log, x, y) \/ Before(log, y, x)
<1>1. log \in Seq(Write) /\ IsInjective(log)
  BY PipeIsTyped DEF Ordered
<1>2. \A x, y : ~(Before(log, x, y) /\ Before(log, y, x))
  BY <1>1, BeforeIsAntisymmetric
<1>3. \A x, y \in ToSet(log) : x = y \/ Before(log, x, y) \/ Before(log, y, x)
  BY <1>1, BeforeIsTotal
<1>. QED BY <1>2, <1>3

\* Nor is its frame at two places on the way to the file.
LEMMA FramesAreApart ==
  ASSUME Typed, Ordered
  PROVE  /\ ToSet(batch) \intersect ToSet(queue) = {}
         /\ ToSet(wal) \intersect (ToSet(batch) \union ToSet(queue)) = {}
         /\ ToSet(batch) \union ToSet(queue) \subseteq ToSet(log)
         /\ \A w \in ToSet(wal) : w = Torn \/ w \in ToSet(log)
<1>1. \A x \in Write : ~Before(pipe, x, x)
  BY LogIsStrict DEF Ordered, Within
<1>2. Torn \notin Write
  BY AbsentIsNoWrite
<1>. QED BY <1>1, <1>2, PipeParts DEF Ordered, Within

\* A write that has not been logged has no frame.
LEMMA NewWritesAreNotLogged ==
  ASSUME Typed, Ordered, Logged, NEW w \in Write, pc[w] \in {"new", "ready", "retry", "lost"}
  PROVE  w \notin ToSet(log) /\ w \notin ToSet(pipe)
<1>1. w \notin ToSet(log)
  BY DEF Logged
<1>. QED BY <1>1, AbsentIsNoWrite DEF Ordered, Within

LEMMA ValueInMemory ==
  ASSUME Typed, ~world.disk, NEW k \in Key
  PROVE  valueOf(k) = store[k].val
<1>1. store[k] \in Records
  BY DEF Typed, TypedStore
<1>2. store[k].at = "memory" \/ store[k] = NoRecord
  BY <1>1 DEF Records
<1>. QED BY <1>2 DEF valueOf, NoRecord

\* A value stays what it was if its record and its place do.
LEMMA ValueStays ==
  ASSUME NEW k \in Key,
         store'[k].at = store[k].at, store'[k].val = store[k].val, store'[k].off = store[k].off,
         store[k].at = "wal" => frameAt(wal', store[k].off, k) = frameAt(wal, store[k].off, k),
         store[k].at = "snapshot" => openSnap'[k] = openSnap[k]
  PROVE  valueOf(k)' = valueOf(k)
<1>1. CASE store[k].at = "nowhere"
  BY <1>1 DEF valueOf
<1>2. CASE store[k].at = "memory"
  BY <1>2 DEF valueOf
<1>3. CASE store[k].at = "wal"
  BY <1>3 DEF valueOf
<1>4. CASE store[k].at = "snapshot"
  BY <1>4 DEF valueOf
<1>5. CASE store[k].at \notin {"nowhere", "memory", "wal", "snapshot"}
  BY <1>5 DEF valueOf
<1>. QED BY <1>1, <1>2, <1>3, <1>4, <1>5

\* What is read at a record stays if the file only grows and the reader keeps its
\* snapshot.
LEMMA PlacesStay ==
  ASSUME wal \in Seq(Frame), NEW g \in Seq(Frame), wal' = wal \o g, openSnap' = openSnap
  PROVE  \A r, k : Leads(r, k) => Leads(r, k)' /\ readAt(r, k)' = readAt(r, k)
<1>1. /\ Len(wal) \in Nat /\ Len(g) \in Nat /\ Len(wal \o g) = Len(wal) + Len(g)
      /\ \A i \in 1 .. Len(wal) : (wal \o g)[i] = wal[i]
  BY ConcatProperties, LenProperties
<1>2. DOMAIN wal = 1 .. Len(wal) /\ DOMAIN wal' = 1 .. Len(wal')
  <2>1. wal' \in Seq(Frame)
    BY ConcatProperties
  <2>. QED BY <2>1, LenProperties
<1>3. \A i \in 1 .. Len(wal) : i \in 1 .. Len(wal') /\ wal'[i] = wal[i]
  BY <1>1
<1>4. ASSUME NEW r, NEW k, Leads(r, k) PROVE Leads(r, k)' /\ readAt(r, k)' = readAt(r, k)
  <2>1. Leads(r, k)'
    BY <1>3, <1>4 DEF Leads
  <2>2. r.at = "wal" => frameAt(wal', r.off, k) = frameAt(wal, r.off, k)
    BY <1>2, <1>3, <1>4 DEF Leads, frameAt
  <2>3. CASE r.at = "nowhere"
    BY <2>1, <2>3 DEF readAt
  <2>4. CASE r.at = "memory"
    BY <2>1, <2>4 DEF readAt
  <2>5. CASE r.at = "wal"
    BY <2>1, <2>2, <2>5 DEF readAt
  <2>6. CASE r.at = "snapshot"
    BY <2>1, <2>6 DEF readAt
  <2>7. CASE r.at \notin {"nowhere", "memory", "wal", "snapshot"}
    BY <2>1, <2>7 DEF readAt
  <2>. QED BY <2>3, <2>4, <2>5, <2>6, <2>7
<1>. QED BY <1>4

LEMMA PlacesRest ==
  ASSUME wal' = wal, openSnap' = openSnap
  PROVE  \A r, k : Leads(r, k)' = Leads(r, k) /\ readAt(r, k)' = readAt(r, k)
<1>1. \A r, k : Leads(r, k)' = Leads(r, k)
  BY DEF Leads
<1>2. \A r, k : readAt(r, k)' = readAt(r, k)
  BY DEF readAt
<1>. QED BY <1>1, <1>2

LEMMA ValueIsRead ==
  \A k : valueOf(k) = readAt(store[k], k) /\ valueOf(k)' = readAt(store[k], k)'
  BY DEF valueOf, readAt

\* What is read at a record that leads to a value is a write.
LEMMA LedToWrite ==
  ASSUME Typed, NEW r \in Records, NEW k \in Key, Leads(r, k)
  PROVE  readAt(r, k) \in Write \union {Absent} /\ (readAt(r, k) = Absent <=> r = NoRecord)
<1>1. CASE r.at = "nowhere"
  BY <1>1 DEF readAt, Records
<1>2. CASE r.at = "memory"
  BY <1>2, AbsentIsNoWrite DEF readAt, Leads, NoRecord
<1>3. CASE r.at = "wal"
  <2>1. readAt(r, k) = wal[r.off] /\ wal[r.off] \in Write
    <3>1. DOMAIN wal = 1 .. Len(wal)
      BY DEF Typed, TypedFiles
    <3>. QED BY <1>3, <3>1 DEF readAt, Leads, frameAt
  <2>. QED BY <1>3, <2>1, AbsentIsNoWrite DEF NoRecord
<1>4. CASE r.at = "snapshot"
  BY <1>4, AbsentIsNoWrite DEF readAt, Leads, NoRecord
<1>. QED BY <1>1, <1>2, <1>3, <1>4 DEF Records

LEMMA ValuesAreWrites ==
  Typed /\ RecordsLead =>
    \A k \in Key : valueOf(k) \in Write \union {Absent} /\ (valueOf(k) = Absent <=> store[k] = NoRecord)
<1> SUFFICES ASSUME Typed, RecordsLead, NEW k \in Key
             PROVE  valueOf(k) \in Write \union {Absent} /\ (valueOf(k) = Absent <=> store[k] = NoRecord)
  OBVIOUS
<1>1. store[k] \in Records /\ Leads(store[k], k)
  BY DEF Typed, TypedStore, RecordsLead
<1>2. valueOf(k) = readAt(store[k], k)
  BY ValueIsRead
<1>. QED BY <1>1, <1>2, LedToWrite

LEMMA InitMap == Init => MapInv
<1> SUFFICES ASSUME Init PROVE MapInv
  OBVIOUS
<1>1. Typed
  BY InitTypes
<1>2. ToSet(<< >>) = {} /\ IsInjective(<< >>) /\ \A x, y : ~Before(<< >>, x, y)
  BY EmptySet, NothingBefore DEF IsInjective
<1>3. wal = << >> /\ batch = << >> /\ queue = << >> /\ log = << >> /\ Rejects = {} /\ synced = 0
  BY DEF Init, Rejects
<1>4. onDisk = << >> /\ pipe = << >> /\ Len(pipe) = 0 /\ Len(wal) = 0
  BY <1>3 DEF pipe, onDisk
<1>5. Ordered /\ Logged /\ AckedAreSynced
  BY <1>2, <1>3, <1>4 DEF Init, Ordered, Logged, AckedAreSynced, Within
<1>6. \A k, who, rest : Explains(log, who, k, Absent, rest)
  BY <1>2, <1>3 DEF Explains
<1>7. \A k \in Key : store[k] = NoRecord /\ valueOf(k) = Absent /\ snapshot[k] = Absent
  BY DEF Init, NoRecord, valueOf, noSnapshot
<1>8. ValuesAreExplained /\ SnapshotIsExplained
  BY <1>6, <1>7 DEF ValuesAreExplained, SnapshotIsExplained
<1>9. NewSnapshotIsExplained /\ PrevIsExplained /\ Copies
  BY DEF Init, NewSnapshotIsExplained, PrevIsExplained, MayUndo, Copies
<1>10. OwnRecords
  BY <1>7 DEF OwnRecords, NoRecord
<1>11. Copied
  BY DEF Init, Copied
<1>12. RecordsLead
  BY <1>7 DEF Init, RecordsLead, MayUndo, Leads, NoRecord
<1>13. Untorn
  BY WritesTouchKeys DEF Init, Untorn, noSnapshot
<1>. QED BY <1>5, <1>8, <1>9, <1>10, <1>11, <1>12, <1>13 DEF MapInv

----------------------------------------------------------------------------
(* Steps that neither log nor answer nor change a value *)

\* The log, the frames, the calls and the store stay as they are.
Rests ==
  /\ UNCHANGED <<wal, batch, queue, log, store, openSnap, pc, prev>>
  /\ world'.disk = world.disk
  /\ synced \in Int /\ synced' \in Int /\ synced <= synced'

LEMMA RestsKeepsTerms ==
  ASSUME Rests
  PROVE  /\ pipe' = pipe /\ onDisk' = onDisk /\ Rejects' = Rejects /\ done' = done
         /\ \A k : Contested(k)' = Contested(k)
         /\ \A k \in Key : valueOf(k)' = valueOf(k)
         /\ \A w : from(w)' = from(w)
<1>1. UNCHANGED <<wal, batch, queue, log, store, openSnap, pc>>
  BY DEF Rests
<1>2. onDisk' = onDisk
  BY <1>1 DEF onDisk
<1>3. pipe' = pipe
  BY <1>1, <1>2 DEF pipe
<1>4. Rejects' = Rejects /\ done' = done
  BY <1>1 DEF Rejects, done
<1>5. \A k : Contested(k)' = Contested(k)
  BY <1>4 DEF Contested
<1>6. \A k \in Key : valueOf(k)' = valueOf(k)
  BY <1>1, ValueStays
<1>7. \A w : from(w)' = from(w)
  BY <1>1 DEF from
<1>. QED BY <1>2, <1>3, <1>4, <1>5, <1>6, <1>7

LEMMA RestsKeepsMap ==
  ASSUME Rests, MapInv
  PROVE  /\ Ordered' /\ Logged' /\ AckedAreSynced' /\ ValuesAreExplained' /\ PrevIsExplained'
         /\ OwnRecords' /\ RecordsLead'
<1>1. /\ pipe' = pipe /\ Rejects' = Rejects
      /\ \A k : Contested(k)' = Contested(k)
      /\ \A k \in Key : valueOf(k)' = valueOf(k)
      /\ \A w : from(w)' = from(w)
  BY RestsKeepsTerms
<1>2. UNCHANGED <<wal, batch, queue, log, store, openSnap, pc, prev>>
  BY DEF Rests
<1>3. Ordered' /\ Logged'
  BY <1>1, <1>2 DEF MapInv, Ordered, Logged
<1>4. \A w : Lasts(w) => Lasts(w)'
  <2>1. 1 .. synced \subseteq 1 .. synced'
    BY DEF Rests
  <2>. QED BY <1>1, <1>2, <2>1 DEF Lasts
<1>5. AckedAreSynced'
  BY <1>2, <1>4 DEF MapInv, AckedAreSynced
<1>6. ValuesAreExplained'
  BY <1>1, <1>2 DEF MapInv, ValuesAreExplained
<1>7. PrevIsExplained' /\ RecordsLead'
  <2>1. \A r, k : Leads(r, k)' = Leads(r, k) /\ readAt(r, k)' = readAt(r, k)
    BY <1>2, PlacesRest
  <2>2. \A w, k : MayUndo(w, k)' = MayUndo(w, k)
    BY <1>2 DEF MayUndo
  <2>. QED BY <1>1, <1>2, <2>1, <2>2 DEF MapInv, PrevIsExplained, RecordsLead
<1>8. OwnRecords'
  <2>1. \A r, k : Owned(r, k)' = Owned(r, k)
    BY <1>2 DEF Owned
  <2>. QED BY <1>2, <2>1 DEF MapInv, OwnRecords
<1>. QED BY <1>3, <1>5, <1>6, <1>7, <1>8

\* The snapshot stays, and the next one too.
LEMMA RestsKeepsSnapshots ==
  ASSUME Rests, MapInv
  PROVE  /\ snapshot' = snapshot => SnapshotIsExplained'
         /\ UNCHANGED <<newSnap, base, visited>> /\ (phase' = "snapshot" <=> phase = "snapshot")
              /\ (phase' # "idle" => phase # "idle")
              => NewSnapshotIsExplained' /\ Copies'
<1>1. /\ pipe' = pipe /\ Rejects' = Rejects /\ done' = done
      /\ \A k : Contested(k)' = Contested(k)
      /\ \A k \in Key : valueOf(k)' = valueOf(k)
  BY RestsKeepsTerms
<1>2. UNCHANGED <<wal, batch, queue, log, store>> /\ world'.disk = world.disk
  BY DEF Rests
<1>3. ASSUME snapshot' = snapshot PROVE SnapshotIsExplained'
  BY <1>1, <1>2, <1>3 DEF MapInv, SnapshotIsExplained
<1>4. ASSUME UNCHANGED <<newSnap, base, visited>>, phase' = "snapshot" <=> phase = "snapshot",
             phase' # "idle" => phase # "idle"
      PROVE  NewSnapshotIsExplained' /\ Copies'
  <2>1. fenced' = fenced
    BY <1>2, <1>4 DEF fenced
  <2>2. \A r : Moves(r)' = Moves(r)
    BY <1>4 DEF Moves
  <2>3. NewSnapshotIsExplained'
    BY <1>1, <1>2, <1>4, <2>1 DEF MapInv, NewSnapshotIsExplained
  <2>4. Copies'
    BY <1>1, <1>2, <1>4, <2>2 DEF MapInv, Copies
  <2>. QED BY <2>3, <2>4
<1>. QED BY <1>3, <1>4

----------------------------------------------------------------------------
(* The compaction *)

LEMMA CompactionRests ==
  ASSUME Typed,
         BeginCompaction \/ (\E k \in Key : SnapshotKey(k)) \/ SnapshotDone \/ PreCopy \/ BeginRotation
           \/ Drain \/ RenameSnapshot \/ CompactionFails
  PROVE  Rests
<1>1. UNCHANGED <<wal, batch, queue, log, store, openSnap, pc, prev>>
  BY DEF BeginCompaction, SnapshotKey, SnapshotDone, PreCopy, BeginRotation, Drain, RenameSnapshot,
         CompactionFails, freshWal, fileVars, walVars, callVars
<1>2. world'.disk = world.disk
  BY DEF BeginCompaction, SnapshotKey, SnapshotDone, PreCopy, BeginRotation, Drain, RenameSnapshot,
         CompactionFails, storageFails, Typed, TypedStore
<1>3. synced \in 0 .. Len(wal) /\ Len(wal) \in Nat
  BY DEF Typed, TypedFiles
<1>4. synced' \in {synced, Len(wal)}
  <2>1. ASSUME CompactionFails PROVE synced' \in {synced, Len(wal)}
    BY <2>1, <1>1 DEF CompactionFails, freshWal
  <2>2. ASSUME Drain PROVE synced' \in {synced, Len(wal)}
    BY <2>2 DEF Drain
  <2>. QED BY <2>1, <2>2 DEF BeginCompaction, SnapshotKey, SnapshotDone, PreCopy, BeginRotation,
                             RenameSnapshot, fileVars
<1>. QED BY <1>1, <1>2, <1>3, <1>4 DEF Rests

\* Copied to its end, the new log has all frames behind the fence.
LEMMA TailIsBehindTheFence ==
  ASSUME Typed, Copied, phase # "idle", copyTail
  PROVE  newWal' = SubSeq(wal, base + 1, Len(wal)) /\ copied' = Len(wal) /\ base <= copied'
<1>1. /\ base \in Nat /\ copied \in Nat /\ base <= copied /\ copied <= Len(wal)
      /\ newWal = SubSeq(wal, base + 1, copied) /\ wal \in Seq(Frame) /\ Len(wal) \in Nat
  BY DEF Typed, TypedFiles, TypedCompaction, Copied
<1>2. base + 1 \in 1 .. Len(wal) + 1 /\ copied \in (base + 1) - 1 .. Len(wal) /\ Len(wal) \in copied .. Len(wal)
  BY <1>1
<1>3. SubSeq(wal, base + 1, copied) \o SubSeq(wal, copied + 1, Len(wal)) = SubSeq(wal, base + 1, Len(wal))
  BY <1>1, <1>2, ConcatAdjacentSubSeq
<1>4. newWal' = newWal \o SubSeq(wal, copied + 1, Len(wal)) /\ copied' = Len(wal)
  BY DEF copyTail
<1>5. newWal' = SubSeq(wal, base + 1, Len(wal))
  <2>. DEFINE t == SubSeq(wal, copied + 1, Len(wal))
  <2>1. newWal' = newWal \o t /\ newWal = SubSeq(wal, base + 1, copied)
    BY <1>1, <1>4
  <2>2. SubSeq(wal, base + 1, copied) \o t = SubSeq(wal, base + 1, Len(wal))
    BY <1>3
  <2>. HIDE DEF t
  <2>. QED BY ONLY <2>1, <2>2
<1>6. base <= Len(wal)
  BY <1>1
<1>. QED BY <1>4, <1>5, <1>6

LEMMA BeginCompactionKeepsMap ==
  ASSUME Typed, MapInv, BeginCompaction
  PROVE  MapInv'
<1>1. Rests
  BY CompactionRests
<1>2. SnapshotIsExplained' /\ snapshot' = snapshot
  BY <1>1, RestsKeepsSnapshots DEF BeginCompaction, fileVars
<1>3. phase' = "snapshot" /\ visited' = {} /\ \A k \in Key : newSnap'[k] = Absent
  BY DEF BeginCompaction, noSnapshot
<1>4. NewSnapshotIsExplained' /\ Copies' /\ Untorn'
  BY <1>2, <1>3, WritesTouchKeys DEF NewSnapshotIsExplained, Copies, MapInv, Untorn
<1>5. Copied'
  <2>1. SubSeq(wal, Len(wal) + 1, Len(wal)) = << >> /\ Len(wal) \in Nat
    <3>1. Len(wal) \in Nat
      BY PipeIsTyped
    <3>2. Len(wal) + 1 \in Int /\ Len(wal) \in Int /\ Len(wal) < Len(wal) + 1
      BY <3>1
    <3>. QED BY <3>1, <3>2, SubSeqEmpty
  <2>. QED BY <2>1 DEF BeginCompaction, MapInv, Copied, walVars, fileVars
<1>. QED BY <1>1, <1>2, <1>4, <1>5, RestsKeepsMap DEF MapInv

LEMMA SnapshotKeepsMap ==
  ASSUME Typed, MapInv, (\E k \in Key : SnapshotKey(k)) \/ SnapshotDone
  PROVE  MapInv'
<1>1. Rests
  BY CompactionRests
<1>2. SnapshotIsExplained' /\ snapshot' = snapshot
  BY <1>1, RestsKeepsSnapshots DEF SnapshotKey, SnapshotDone, fileVars
<1>3. Copied'
  BY DEF SnapshotKey, SnapshotDone, MapInv, Copied, walVars, fileVars, Quiet
<1>4. /\ Rejects' = Rejects /\ \A k : Contested(k)' = Contested(k)
      /\ \A k \in Key : valueOf(k)' = valueOf(k)
  BY <1>1, RestsKeepsTerms
<1>5. UNCHANGED <<wal, batch, queue, log, store, base, world>>
  BY DEF SnapshotKey, SnapshotDone, walVars, fileVars
<1>6. fenced' = fenced /\ \A r : Moves(r)' = Moves(r)
  BY <1>5 DEF fenced, Moves
<1>7. \A k \in Key : Contested(k) \/ Explains(log, Write, k, valueOf(k), Rejects \union fenced)
  <2>1. SUFFICES ASSUME NEW k \in Key, ~Contested(k)
                 PROVE  Explains(log, Write, k, valueOf(k), Rejects \union fenced)
    OBVIOUS
  <2>2. Explains(log, Write, k, valueOf(k), Rejects)
    BY <2>1 DEF MapInv, ValuesAreExplained
  <2>. QED BY <2>2, ExplainsMore
<1>8. CASE SnapshotDone
  <2>1. phase = "snapshot" /\ phase' = "precopy" /\ newSnap' = newSnap
        /\ \A k \in Key : present(store, k) => k \in visited
    BY <1>8 DEF SnapshotDone
  <2>2. ASSUME NEW k \in Key PROVE Contested(k) \/ Explains(log, Write, k, newSnap[k], Rejects \union fenced)
    <3>1. CASE k \in visited \/ newSnap[k] # Absent
      BY <2>1, <3>1 DEF MapInv, NewSnapshotIsExplained
    <3>2. CASE k \notin visited /\ newSnap[k] = Absent
      <4>1. store[k] = NoRecord
        BY <2>1, <3>2 DEF present
      <4>2. valueOf(k) = newSnap[k]
        BY <3>2, <4>1 DEF valueOf, NoRecord
      <4>. QED BY <1>7, <4>2
    <3>. QED BY <3>1, <3>2
  <2>3. NewSnapshotIsExplained'
    BY <1>4, <1>5, <1>6, <2>1, <2>2 DEF NewSnapshotIsExplained
  <2>4. \A k \in Key : Moves(store[k]) => k \in visited
    BY <2>1 DEF Moves, present, NoRecord
  <2>5. Copies'
    BY <1>4, <1>5, <1>6, <2>1, <2>4 DEF MapInv, Copies
  <2>6. Untorn'
    BY <1>2, <2>1 DEF MapInv, Untorn
  <2>. QED BY <1>1, <1>2, <1>3, <2>3, <2>5, <2>6, RestsKeepsMap DEF MapInv
<1>9. ASSUME NEW j \in Key, SnapshotKey(j) PROVE MapInv'
  <2>1. phase = "snapshot" /\ phase' = "snapshot" /\ newSnap' = [newSnap EXCEPT ![j] = valueOf(j)]
        /\ visited' = visited \union {j} /\ newSnap \in [Key -> Kept]
    BY <1>9 DEF SnapshotKey, Typed, TypedFiles
  <2>2. \A k \in Key : newSnap'[k] = IF k = j THEN valueOf(j) ELSE newSnap[k]
    BY <2>1
  <2>3. NewSnapshotIsExplained'
    BY <1>4, <1>5, <1>6, <1>7, <2>1, <2>2 DEF MapInv, NewSnapshotIsExplained
  <2>4. Copies'
    BY <1>4, <1>5, <1>6, <2>1, <2>2 DEF MapInv, Copies
  <2>5. valueOf(j) # Torn
    BY ValuesAreWrites, AbsentIsNoWrite, WritesTouchKeys DEF MapInv
  <2>6. Untorn'
    <3>1. \A k \in Key : snapshot'[k] # Torn
      BY <1>2 DEF MapInv, Untorn
    <3>2. \A k \in Key : newSnap'[k] # Torn
      BY <2>2, <2>5 DEF MapInv, Untorn
    <3>. QED BY <3>1, <3>2 DEF Untorn
  <2>. QED BY <1>1, <1>2, <1>3, <2>3, <2>4, <2>6, RestsKeepsMap DEF MapInv
<1>. QED BY <1>8, <1>9

LEMMA CopyingKeepsMap ==
  ASSUME Typed, MapInv, PreCopy \/ BeginRotation \/ Drain
  PROVE  MapInv'
<1>1. Rests
  BY CompactionRests
<1>2. UNCHANGED <<snapshot, newSnap, base, visited>>
  BY DEF PreCopy, BeginRotation, Drain, fileVars
<1>3. phase # "idle" /\ phase # "snapshot" /\ phase' # "snapshot"
  BY DEF PreCopy, BeginRotation, Drain
<1>4. SnapshotIsExplained' /\ NewSnapshotIsExplained' /\ Copies' /\ Untorn'
  BY <1>1, <1>2, <1>3, RestsKeepsSnapshots DEF MapInv, Untorn
<1>5. Copied'
  <2>1. CASE BeginRotation
    BY <2>1 DEF BeginRotation, MapInv, Copied, fileVars, Quiet
  <2>2. ASSUME copyTail PROVE newWal' = SubSeq(wal, base + 1, Len(wal)) /\ copied' = Len(wal) /\ base <= copied'
    BY <1>3, <2>2, TailIsBehindTheFence DEF MapInv
  <2>3. Len(wal) \in Nat
    BY PipeIsTyped
  <2>4. CASE PreCopy
    BY <2>2, <2>3, <2>4 DEF PreCopy, MapInv, Copied, walVars, fileVars, Quiet
  <2>5. CASE Drain
    BY <2>2, <2>3, <2>5 DEF Drain, MapInv, Copied, walVars, Quiet
  <2>. QED BY <2>1, <2>4, <2>5
<1>. QED BY <1>1, <1>4, <1>5, RestsKeepsMap DEF MapInv

\* Nothing is on its way when the snapshot is renamed: so all logged writes are done.
LEMMA RenameSnapshotKeepsMap ==
  ASSUME Typed, MapInv, RenameSnapshot
  PROVE  MapInv'
<1>1. Rests
  BY CompactionRests
<1>2. UNCHANGED <<newSnap, base, visited>>
  BY DEF RenameSnapshot
<1>3. phase = "drained" /\ phase' = "renamed" /\ snapshot' = newSnap
  BY DEF RenameSnapshot
<1>4. NewSnapshotIsExplained' /\ Copies' /\ Untorn'
  BY <1>1, <1>2, <1>3, RestsKeepsSnapshots DEF MapInv, Untorn
<1>5. Copied'
  BY <1>3 DEF RenameSnapshot, MapInv, Copied, walVars, Quiet
<1>6. batch = << >> /\ queue = << >> /\ base \in Nat
  BY <1>3 DEF MapInv, Copied, Quiet, Typed, TypedCompaction
<1>7. \A w \in ToSet(log) : w \in Write /\ w \in done
  BY <1>6, EmptySet, PipeParts DEF MapInv, Logged, done
<1>8. fenced \subseteq ToSet(pipe)
  <2>1. \A i \in base + 1 .. Len(wal) : i \in DOMAIN wal
    BY <1>6, PipeIsTyped
  <2>2. {wal[i] : i \in base + 1 .. Len(wal)} \subseteq ToSet(wal)
    BY <2>1 DEF ToSet
  <2>. QED BY <1>6, <2>2, PipeParts DEF fenced
<1>9. SnapshotIsExplained'
  <2>1. ASSUME NEW k \in Key, ~Contested(k)
        PROVE  Explains(log, done, k, newSnap[k], Rejects \union ToSet(pipe))
    <3>1. Explains(log, Write, k, newSnap[k], Rejects \union fenced)
      BY <1>3, <2>1 DEF MapInv, NewSnapshotIsExplained
    <3>. QED BY <1>7, <1>8, <3>1, ExplainsMore
  <2>2. log' = log /\ pipe' = pipe /\ done' = done /\ Rejects' = Rejects /\ \A k : Contested(k)' = Contested(k)
    BY <1>1, RestsKeepsTerms DEF Rests
  <2>. QED BY <1>3, <2>1, <2>2 DEF SnapshotIsExplained
<1>. QED BY <1>1, <1>4, <1>5, <1>9, RestsKeepsMap DEF MapInv

LEMMA CompactionFailsKeepsMap ==
  ASSUME Typed, MapInv, CompactionFails
  PROVE  MapInv'
<1>1. Rests
  BY CompactionRests
<1>2. phase' = "idle" /\ snapshot' = snapshot /\ \A k \in Key : newSnap'[k] = Absent
  BY DEF CompactionFails, forgetTemporaries, noSnapshot
<1>3. NewSnapshotIsExplained' /\ Copies' /\ Untorn'
  BY <1>2, WritesTouchKeys DEF NewSnapshotIsExplained, Copies, MapInv, Untorn
<1>4. SnapshotIsExplained'
  BY <1>1, <1>2, RestsKeepsSnapshots
<1>5. Copied'
  <2>1. ~sealed'
    <3>1. CASE phase \in {"snapshot", "precopy"} /\ UNCHANGED <<synced, walVars, rotateLock>>
      BY <3>1 DEF MapInv, Copied, walVars
    <3>2. CASE freshWal
      BY <3>2 DEF freshWal
    <3>. QED BY <3>1, <3>2 DEF CompactionFails
  <2>. QED BY <1>2, <2>1 DEF Copied
<1>. QED BY <1>1, <1>3, <1>4, <1>5, RestsKeepsMap DEF MapInv

----------------------------------------------------------------------------
(* The calls *)

LEMMA PassGateKeepsMap ==
  ASSUME Typed, MapInv, NEW w \in Write, PassGate(w)
  PROVE  MapInv'
<1>1. pc[w] = "new" /\ \E a \in {"acked", "ready"} : pc' = [pc EXCEPT ![w] = a]
  BY DEF PassGate
<1>2. UNCHANGED <<snapshot, wal, synced, openSnap, world, store, visited, queue, batch, nextOffset, sealed,
                  prev, predicted, phase, rotateLock, newSnap, base, copied, newWal, log>>
  BY DEF PassGate, fileVars, walVars, compactVars
<1>3. /\ pc \in [Write -> {"new", "ready", "pending", "retry", "acked", "rejected", "lost"}]
      /\ \A x \in Write : x # w => pc'[x] = pc[x]
      /\ pc'[w] \in {"acked", "ready"}
  BY <1>1 DEF Typed, TypedCalls
<1>4. w \notin ToSet(log) /\ w \notin ToSet(pipe)
  BY <1>1, NewWritesAreNotLogged DEF MapInv
<1>5. Rejects' = Rejects /\ done' = done /\ \A x \in Write : pc'[x] = "pending" <=> pc[x] = "pending"
  BY <1>1, <1>3 DEF Rejects, done
<1>6. \A k : Contested(k)' = Contested(k)
  BY <1>5 DEF Contested
<1>7. onDisk' = onDisk /\ pipe' = pipe /\ fenced' = fenced
  BY <1>2 DEF onDisk, pipe, fenced
<1>8. /\ \A k \in Key : valueOf(k)' = valueOf(k)
      /\ \A x : from(x)' = from(x) /\ Lasts(x)' = Lasts(x)
      /\ \A r, k : Owned(r, k)' = Owned(r, k) /\ Moves(r)' = Moves(r)
      /\ \A r, k : Leads(r, k)' = Leads(r, k) /\ readAt(r, k)' = readAt(r, k)
  <2>1. \A k \in Key : valueOf(k)' = valueOf(k)
    BY <1>2, ValueStays
  <2>2. \A x : from(x)' = from(x) /\ Lasts(x)' = Lasts(x)
    BY <1>2, <1>7 DEF from, Lasts
  <2>3. \A r, k : Owned(r, k)' = Owned(r, k) /\ Moves(r)' = Moves(r)
    BY <1>2 DEF Owned, Moves
  <2>. QED BY <1>2, <2>1, <2>2, <2>3, PlacesRest
<1>9. Ordered' /\ AckedAreSynced'
  <2>1. \A x \in ToSet(log) : x \in Write /\ pc'[x] = pc[x]
    BY <1>3, <1>4, PipeParts
  <2>. QED BY <1>2, <1>7, <1>8, <2>1 DEF MapInv, Ordered, AckedAreSynced
<1>10. Logged'
  <2>1. \A x \in ToSet(log) : x \in Write /\ pc'[x] = pc[x]
    BY <1>3, <1>4, PipeParts
  <2>. QED BY <1>2, <1>5, <2>1 DEF MapInv, Logged
<1>11. ValuesAreExplained' /\ SnapshotIsExplained' /\ NewSnapshotIsExplained'
  BY <1>2, <1>5, <1>6, <1>7, <1>8 DEF MapInv, ValuesAreExplained, SnapshotIsExplained,
                                      NewSnapshotIsExplained
<1>12. PrevIsExplained' /\ RecordsLead'
  <2>1. \A x \in Write, k \in Key : MayUndo(x, k)' <=> MayUndo(x, k)
    BY <1>5 DEF MayUndo
  <2>. QED BY <1>2, <1>5, <1>6, <1>8, <2>1 DEF MapInv, PrevIsExplained, RecordsLead
<1>13. OwnRecords'
  BY <1>2, <1>8 DEF MapInv, OwnRecords
<1>14. Copied'
  BY <1>2 DEF MapInv, Copied, Quiet
<1>15. Untorn' /\ Copies'
  BY <1>2, <1>8 DEF MapInv, Untorn, Copies
<1>. QED BY <1>9, <1>10, <1>11, <1>12, <1>13, <1>14, <1>15 DEF MapInv

\* A call that finds the log sealed leaves the values as they were; it cannot be the
\* second time, for the log is sealed only under the lock.
LEMMA SealedLeavesValues ==
  ASSUME Typed, MapInv, NEW w \in Write, Commit(w), sealed, AppendToSealed(w)
  PROVE  /\ pc[w] = "ready" /\ pc' = [pc EXCEPT ![w] = "retry"]
         /\ \A k \in Key : /\ store'[k].at = store[k].at /\ store'[k].val = store[k].val
                           /\ store'[k].off = store[k].off
                           /\ store'[k] = store[k] \/ store'[k].by = Absent
         /\ visited' \subseteq visited
         /\ UNCHANGED <<snapshot, wal, synced, openSnap, world, queue, batch, nextOffset, sealed,
                        prev, predicted, phase, rotateLock, newSnap, base, copied, newWal, log>>
<1>1. pc[w] = "ready"
  BY DEF Commit, MapInv, Copied
<1>2. pc' = [pc EXCEPT ![w] = "retry"]
  BY <1>1 DEF AppendToSealed, retryOnWalSeal
<1>3. ASSUME NEW k \in Key
      PROVE  /\ store'[k].at = store[k].at /\ store'[k].val = store[k].val
             /\ store'[k].off = store[k].off
             /\ store'[k] = store[k] \/ store'[k].by = Absent
  <2>1. store'[k] = IF k \in Touches(w) THEN restored(store[k]) ELSE store[k]
    BY DEF AppendToSealed, setStore
  <2>2. store[k] \in Records
    BY DEF Typed, TypedStore
  <2>. QED BY <2>1, <2>2, RecordRestored
<1>4. visited' \subseteq visited
  BY DEF AppendToSealed, setStore
<1>. QED BY <1>1, <1>2, <1>3, <1>4 DEF AppendToSealed, fileVars, walVars, compactVars

LEMMA SealedKeepsMap ==
  ASSUME Typed, MapInv, NEW w \in Write, Commit(w), sealed, AppendToSealed(w)
  PROVE  MapInv'
<1>1. pc[w] = "ready" /\ pc' = [pc EXCEPT ![w] = "retry"]
  BY SealedLeavesValues
<1>2. UNCHANGED <<snapshot, wal, synced, openSnap, world, queue, batch, nextOffset, sealed,
                  prev, predicted, phase, rotateLock, newSnap, base, copied, newWal, log>>
  BY SealedLeavesValues
<1>3. /\ pc \in [Write -> {"new", "ready", "pending", "retry", "acked", "rejected", "lost"}]
      /\ \A x \in Write : x # w => pc'[x] = pc[x]
      /\ pc'[w] = "retry"
  BY <1>1 DEF Typed, TypedCalls
<1>4. w \notin ToSet(log) /\ w \notin ToSet(pipe)
  BY <1>1, NewWritesAreNotLogged DEF MapInv
<1>5. Rejects' = Rejects /\ done' = done /\ \A x \in Write : pc'[x] = "pending" <=> pc[x] = "pending"
  BY <1>1, <1>3 DEF Rejects, done
<1>6. \A k : Contested(k)' = Contested(k)
  BY <1>5 DEF Contested
<1>7. onDisk' = onDisk /\ pipe' = pipe /\ fenced' = fenced
  BY <1>2 DEF onDisk, pipe, fenced
<1>8. /\ \A k \in Key : valueOf(k)' = valueOf(k)
      /\ \A x : from(x)' = from(x) /\ Lasts(x)' = Lasts(x)
      /\ \A r, k : Owned(r, k)' = Owned(r, k)
      /\ \A r, k : Leads(r, k)' = Leads(r, k) /\ readAt(r, k)' = readAt(r, k)
      /\ \A k \in Key : Leads(store[k], k) => Leads(store[k], k)'
      /\ \A k \in Key : Moves(store[k])' = Moves(store[k])
  <2>1. \A k \in Key : valueOf(k)' = valueOf(k)
    BY <1>2, SealedLeavesValues, ValueStays
  <2>2. \A x : from(x)' = from(x) /\ Lasts(x)' = Lasts(x)
    BY <1>2, <1>7 DEF from, Lasts
  <2>3. \A r, k : Owned(r, k)' = Owned(r, k)
    BY <1>2 DEF Owned
  <2>4. \A k \in Key : Leads(store[k], k) => Leads(store[k], k)'
    BY <1>2, SealedLeavesValues DEF Leads
  <2>5. \A k \in Key : Moves(store[k])' = Moves(store[k])
    BY <1>2, SealedLeavesValues DEF Moves
  <2>. QED BY <1>2, <2>1, <2>2, <2>3, <2>4, <2>5, PlacesRest
<1>9. Ordered' /\ AckedAreSynced'
  <2>1. \A x \in ToSet(log) : x \in Write /\ pc'[x] = pc[x]
    BY <1>3, <1>4, PipeParts
  <2>. QED BY <1>2, <1>7, <1>8, <2>1 DEF MapInv, Ordered, AckedAreSynced
<1>10. Logged'
  <2>1. \A x \in ToSet(log) : x \in Write /\ pc'[x] = pc[x]
    BY <1>3, <1>4, PipeParts
  <2>. QED BY <1>2, <1>5, <2>1 DEF MapInv, Logged
<1>11. ValuesAreExplained' /\ SnapshotIsExplained'
  BY <1>2, <1>5, <1>6, <1>7, <1>8 DEF MapInv, ValuesAreExplained, SnapshotIsExplained
<1>12. NewSnapshotIsExplained'
  BY <1>2, <1>5, <1>6, <1>7, SealedLeavesValues DEF MapInv, NewSnapshotIsExplained
<1>13. PrevIsExplained' /\ RecordsLead'
  <2>1. \A x \in Write, k \in Key : MayUndo(x, k)' <=> MayUndo(x, k)
    BY <1>5 DEF MayUndo
  <2>2. PrevIsExplained'
    BY <1>2, <1>5, <1>6, <1>8, <2>1 DEF MapInv, PrevIsExplained
  <2>3. RecordsLead'
    BY <1>2, <1>8, <2>1 DEF MapInv, RecordsLead
  <2>. QED BY <2>2, <2>3
<1>14. OwnRecords'
  <2>1. ASSUME NEW k \in Key, store'[k].by # Absent PROVE Owned(store[k], k)'
    <3>1. store'[k] = store[k]
      BY <2>1, SealedLeavesValues
    <3>. QED BY <1>2, <2>1, <3>1 DEF MapInv, OwnRecords, Owned
  <2>. QED BY <2>1 DEF OwnRecords
<1>15. Copied'
  BY <1>2 DEF MapInv, Copied, Quiet
<1>16. Untorn'
  BY <1>2 DEF MapInv, Untorn
<1>17. Copies'
  BY <1>2, <1>8, SealedLeavesValues DEF MapInv, Copies
<1>. QED BY <1>9, <1>10, <1>11, <1>12, <1>13, <1>14, <1>15, <1>16, <1>17 DEF MapInv

LEMMA FlushedFrames ==
  ASSUME Typed, FlushBatch
  PROVE  pipe' = pipe
<1>1. batch = << >> /\ batch' = queue /\ queue' = << >> /\ wal' = wal
  BY DEF FlushBatch, fileVars
<1>2. wal \in Seq(Frame) /\ queue \in Seq(Frame) /\ wal \o queue \in Seq(Frame)
  BY PipeIsTyped, ConcatProperties
<1>3. onDisk = wal /\ pipe = wal \o queue
  BY <1>1, <1>2, ConcatEmptySeq DEF onDisk, pipe
<1>4. onDisk' = wal \o queue
  BY <1>1 DEF onDisk
<1>5. pipe' = (wal \o queue) \o << >>
  BY <1>1, <1>4 DEF pipe
<1>. QED BY <1>2, <1>3, <1>5, ConcatEmptySeq

LEMMA FlushBatchKeepsMap ==
  ASSUME Typed, MapInv, FlushBatch
  PROVE  MapInv'
<1>1. batch = << >> /\ batch' = queue /\ queue' = << >> /\ queue # << >>
  BY DEF FlushBatch
<1>2. UNCHANGED <<snapshot, wal, synced, openSnap, world, store, visited, nextOffset, sealed, pc,
                  prev, predicted, phase, rotateLock, newSnap, base, copied, newWal, log>>
  BY DEF FlushBatch, fileVars, callVars, compactVars
<1>3. pipe' = pipe
  BY FlushedFrames
<1>4. ToSet(batch') \union ToSet(queue') = ToSet(batch) \union ToSet(queue)
  BY <1>1, EmptySet
<1>5. Rejects' = Rejects /\ done' = done /\ fenced' = fenced
  BY <1>2, <1>4 DEF Rejects, done, fenced
<1>6. \A k : Contested(k)' = Contested(k)
  BY <1>5 DEF Contested
<1>7. /\ \A k \in Key : valueOf(k)' = valueOf(k)
      /\ \A x : from(x)' = from(x) /\ Lasts(x)' = Lasts(x)
      /\ \A r, k : Owned(r, k)' = Owned(r, k) /\ Moves(r)' = Moves(r)
      /\ \A r, k : Leads(r, k)' = Leads(r, k) /\ readAt(r, k)' = readAt(r, k)
  <2>1. \A k \in Key : valueOf(k)' = valueOf(k)
    BY <1>2, ValueStays
  <2>2. \A x : from(x)' = from(x) /\ Lasts(x)' = Lasts(x)
    BY <1>2, <1>3 DEF from, Lasts
  <2>3. \A r, k : Owned(r, k)' = Owned(r, k) /\ Moves(r)' = Moves(r)
    BY <1>2 DEF Owned, Moves
  <2>. QED BY <1>2, <2>1, <2>2, <2>3, PlacesRest
<1>8. Ordered' /\ AckedAreSynced' /\ Logged'
  BY <1>2, <1>3, <1>4, <1>7 DEF MapInv, Ordered, AckedAreSynced, Logged
<1>9. ValuesAreExplained' /\ SnapshotIsExplained' /\ NewSnapshotIsExplained'
  BY <1>2, <1>3, <1>5, <1>6, <1>7 DEF MapInv, ValuesAreExplained, SnapshotIsExplained,
                                      NewSnapshotIsExplained
<1>10. PrevIsExplained' /\ OwnRecords'
  <2>1. \A x, k : MayUndo(x, k)' <=> MayUndo(x, k)
    BY <1>2 DEF MayUndo
  <2>. QED BY <1>2, <1>5, <1>6, <1>7, <2>1 DEF MapInv, PrevIsExplained, OwnRecords
<1>11. Copied'
  BY <1>1, <1>2 DEF MapInv, Copied, Quiet
<1>12. RecordsLead' /\ Untorn'
  BY <1>2, <1>7 DEF MapInv, RecordsLead, MayUndo, Untorn
<1>13. Copies'
  BY <1>2, <1>7 DEF MapInv, Copies
<1>. QED BY <1>8, <1>9, <1>10, <1>11, <1>12, <1>13 DEF MapInv

----------------------------------------------------------------------------
(* A write is logged *)

LEMMA ConcatAppend ==
  ASSUME NEW S, NEW s \in Seq(S), NEW t \in Seq(S), NEW x \in S
  PROVE  s \o Append(t, x) = Append(s \o t, x)
<1>. DEFINE u == <<x>>
<1>1. u \in Seq(S) /\ s \o t \in Seq(S)
  BY ConcatProperties
<1>2. Append(t, x) = t \o u /\ Append(s \o t, x) = (s \o t) \o u
  BY <1>1, AppendIsConcat
<1>. HIDE DEF u
<1>3. s \o (t \o u) = (s \o t) \o u
  BY <1>1, ConcatAssociative
<1>4. s \o Append(t, x) = s \o (t \o u)
  BY ONLY <1>2
<1>. QED BY ONLY <1>2, <1>3, <1>4

LEMMA AppendedFrames ==
  ASSUME Typed, MapInv, NEW w \in Write, Commit(w), ~sealed, Append1(w)
  PROVE  /\ w \notin ToSet(log) /\ w \notin ToSet(pipe) /\ pc[w] \in {"ready", "retry"}
         /\ log' = Append(log, w) /\ pipe' = Append(pipe, w) /\ onDisk' = onDisk
         /\ ToSet(log') = ToSet(log) \union {w} /\ ToSet(pipe') = ToSet(pipe) \union {w}
         /\ ToSet(queue') = ToSet(queue) \union {w}
         /\ \A x, y : Before(log', x, y) <=> Before(log, x, y) \/ (y = w /\ x \in ToSet(log))
         /\ Rejects' = Rejects /\ pc' = [pc EXCEPT ![w] = "pending"]
         /\ UNCHANGED <<snapshot, wal, synced, openSnap, world, batch, sealed,
                        phase, rotateLock, newSnap, base, copied, newWal>>
<1>1. pc[w] \in {"ready", "retry"}
  BY DEF Commit
<1>2. w \notin ToSet(log) /\ w \notin ToSet(pipe)
  BY <1>1, NewWritesAreNotLogged DEF MapInv
<1>3. /\ log' = Append(log, w) /\ queue' = Append(queue, w) /\ pc' = [pc EXCEPT ![w] = "pending"]
      /\ UNCHANGED <<snapshot, wal, synced, openSnap, world, batch, sealed,
                     phase, rotateLock, newSnap, base, copied, newWal>>
  BY DEF Append1, fileVars, compactVars
<1>4. onDisk' = onDisk
  BY <1>3 DEF onDisk
<1>5. w \in Frame
  BY DEF Frame
<1>6. pipe' = Append(pipe, w)
  <2>1. onDisk \o Append(queue, w) = Append(onDisk \o queue, w)
    BY <1>5, PipeIsTyped, ConcatAppend
  <2>2. pipe' = onDisk \o Append(queue, w)
    BY <1>3, <1>4 DEF pipe
  <2>. QED BY <2>1, <2>2 DEF pipe
<1>7. ToSet(log') = ToSet(log) \union {w}
  BY <1>3, PipeIsTyped, AppendSet
<1>8. ToSet(pipe') = ToSet(pipe) \union {w} /\ ToSet(queue') = ToSet(queue) \union {w}
  BY <1>3, <1>5, <1>6, PipeIsTyped, AppendSet
<1>9. \A x, y : Before(log', x, y) <=> Before(log, x, y) \/ (y = w /\ x \in ToSet(log))
  BY <1>3, PipeIsTyped, BeforeAppend
<1>10. Rejects' = Rejects
  <2>1. pc \in [Write -> {"new", "ready", "pending", "retry", "acked", "rejected", "lost"}]
    BY DEF Typed, TypedCalls
  <2>. QED BY <1>1, <1>3, <2>1 DEF Rejects
<1>. QED BY <1>1, <1>2, <1>3, <1>4, <1>6, <1>7, <1>8, <1>9, <1>10

\* What it explains stays explained: the write is later than all others, and has its
\* frame behind all others.
LEMMA LogExplains ==
  ASSUME Typed, MapInv, NEW w \in Write, Commit(w), ~sealed, Append1(w)
  PROVE  Ordered' /\ Logged' /\ AckedAreSynced' /\ SnapshotIsExplained' /\ NewSnapshotIsExplained'
<1>1. /\ w \notin ToSet(log) /\ w \notin ToSet(pipe) /\ pc[w] \in {"ready", "retry"}
      /\ log' = Append(log, w) /\ pipe' = Append(pipe, w)
      /\ ToSet(log') = ToSet(log) \union {w} /\ ToSet(pipe') = ToSet(pipe) \union {w}
      /\ ToSet(queue') = ToSet(queue) \union {w}
      /\ \A x, y : Before(log', x, y) <=> Before(log, x, y) \/ (y = w /\ x \in ToSet(log))
      /\ Rejects' = Rejects /\ pc' = [pc EXCEPT ![w] = "pending"]
  BY AppendedFrames
<1>2. UNCHANGED <<snapshot, wal, synced, openSnap, world, batch, sealed,
                  phase, rotateLock, newSnap, base, copied, newWal>>
  BY AppendedFrames
<1>3. /\ pc \in [Write -> {"new", "ready", "pending", "retry", "acked", "rejected", "lost"}]
      /\ \A x \in Write : x # w => pc'[x] = pc[x]
      /\ pc'[w] = "pending" /\ ToSet(log) \subseteq Write
  BY <1>1, PipeParts DEF Typed, TypedCalls
<1>4. Ordered'
  <2>1. IsInjective(log')
    BY <1>1, PipeIsTyped, AppendSet DEF MapInv, Ordered
  <2>2. Within(Append(pipe, w), Append(log, w))
    BY PipeIsTyped, WithinAppended DEF MapInv, Ordered
  <2>. QED BY <1>1, <2>1, <2>2 DEF Ordered
<1>5. Logged'
  BY <1>1, <1>2, <1>3 DEF MapInv, Logged
<1>6. AckedAreSynced'
  <2>1. ASSUME NEW x \in ToSet(log'), pc'[x] = "acked" PROVE Lasts(x)'
    <3>1. x \in ToSet(log) /\ pc[x] = "acked"
      BY <1>1, <1>3, <2>1
    <3>2. Lasts(x)
      BY <3>1 DEF MapInv, AckedAreSynced
    <3>3. CASE \E i \in 1 .. synced : wal[i] = x
      BY <1>2, <3>3 DEF Lasts
    <3>4. CASE \A y \in ToSet(pipe) : y = Torn \/ Before(log, x, y)
      BY <1>1, <3>1, <3>4 DEF Lasts
    <3>. QED BY <3>2, <3>3, <3>4 DEF Lasts
  <2>. QED BY <2>1 DEF AckedAreSynced
<1>7. \A x \in ToSet(log) : x \in done => x \in done'
  BY <1>1, <1>3 DEF done
<1>8. \A k : Contested(k)' = Contested(k)
  BY <1>1 DEF Contested
<1>9. SnapshotIsExplained'
  <2>1. ASSUME NEW k \in Key, ~Contested(k)
        PROVE  Explains(Append(log, w), done', k, snapshot[k], Rejects \union (ToSet(pipe) \union {w}))
    <3>1. Explains(log, done, k, snapshot[k], Rejects \union ToSet(pipe))
      BY <2>1 DEF MapInv, SnapshotIsExplained
    <3>. DEFINE rest == Rejects \union ToSet(pipe)
                others == Rejects \union (ToSet(pipe) \union {w})
    <3>2. /\ \A x \in ToSet(log) : (x \in done => x \in done') /\ (x \in rest => x \in others)
          /\ w \in others /\ w \notin ToSet(log) /\ log \in Seq(Write)
      BY <1>1, <1>7, PipeIsTyped
    <3>. HIDE DEF rest, others
    <3>3. Explains(log, done, k, snapshot[k], rest)
      BY <3>1 DEF rest
    <3>4. Explains(Append(log, w), done', k, snapshot[k], others)
      BY <3>2, <3>3, ExplainsAppended
    <3>. QED BY <3>4 DEF others
  <2>. QED BY <1>1, <1>2, <1>8, <2>1 DEF SnapshotIsExplained
<1>10. NewSnapshotIsExplained'
  <2>1. ASSUME phase # "idle", NEW k \in Key, ~Contested(k),
               phase # "snapshot" \/ k \in visited \/ newSnap[k] # Absent
        PROVE  Explains(Append(log, w), Write, k, newSnap[k], Rejects \union (fenced \union {w}))
    <3>1. Explains(log, Write, k, newSnap[k], Rejects \union fenced)
      BY <2>1 DEF MapInv, NewSnapshotIsExplained
    <3>. DEFINE rest == Rejects \union fenced
                others == Rejects \union (fenced \union {w})
    <3>2. /\ \A x \in ToSet(log) : x \in rest => x \in others
          /\ w \in others /\ w \notin ToSet(log) /\ log \in Seq(Write)
      BY <1>1, PipeIsTyped
    <3>. HIDE DEF rest, others
    <3>3. Explains(log, Write, k, newSnap[k], rest)
      BY <3>1 DEF rest
    <3>4. Explains(Append(log, w), Write, k, newSnap[k], others)
      BY <3>2, <3>3, ExplainsAppended
    <3>. QED BY <3>4 DEF others
  <2>2. fenced' = fenced \union {w}
    BY <1>1, <1>2 DEF fenced
  <2>3. visited' \subseteq visited
    BY DEF Append1, setStore
  <2>. QED BY <1>1, <1>2, <1>8, <2>1, <2>2, <2>3 DEF NewSnapshotIsExplained
<1>. QED BY <1>4, <1>5, <1>6, <1>9, <1>10

\* A write is read at once.
LEMMA WrittenValue ==
  ASSUME Typed, MapInv, NEW w \in Write, Commit(w), ~sealed, Append1(w), NEW k \in Key
  PROVE  valueOf(k)' = IF k \in Touches(w) THEN EffectOn(w, k) ELSE valueOf(k)
<1>1. store'[k] = IF k \in Puts[w] THEN InMemory(w, w) ELSE
                  IF k \in Dels[w] THEN NoRecord ELSE store[k]
  BY DEF Append1, setStore, applied
<1>2. UNCHANGED <<wal, openSnap>>
  BY AppendedFrames
<1>3. CASE k \in Puts[w]
  BY <1>1, <1>3 DEF valueOf, InMemory, EffectOn, Touches
<1>4. CASE k \notin Puts[w] /\ k \in Dels[w]
  BY <1>1, <1>4 DEF valueOf, NoRecord, EffectOn, Touches
<1>5. CASE k \notin Puts[w] /\ k \notin Dels[w]
  <2>1. store'[k] = store[k]
    BY <1>1, <1>5
  <2>2. valueOf(k)' = valueOf(k)
    BY <1>2, <2>1, ValueStays
  <2>. QED BY <1>5, <2>2 DEF Touches
<1>. QED BY <1>3, <1>4, <1>5

\* The write explains the values it has set, and remembers those that were there.
LEMMA WriteExplains ==
  ASSUME Typed, MapInv, NEW w \in Write, Commit(w), ~sealed, Append1(w)
  PROVE  ValuesAreExplained' /\ PrevIsExplained' /\ OwnRecords'
<1>1. /\ w \notin ToSet(log) /\ pc[w] \in {"ready", "retry"}
      /\ log' = Append(log, w)
      /\ ToSet(log') = ToSet(log) \union {w}
      /\ \A x, y : Before(log', x, y) <=> Before(log, x, y) \/ (y = w /\ x \in ToSet(log))
      /\ Rejects' = Rejects /\ pc' = [pc EXCEPT ![w] = "pending"]
  BY AppendedFrames
<1>2. UNCHANGED <<wal, openSnap, world>>
  BY AppendedFrames
<1>3. /\ \A x \in Write : x # w => pc'[x] = pc[x] /\ prev'[x] = prev[x]
      /\ prev'[w] = store /\ ToSet(log) \subseteq Write
  BY <1>1, PipeParts DEF Append1, Typed, TypedCalls, TypedStore
<1>4. \A k \in Key : store'[k] = IF k \in Puts[w] THEN InMemory(w, w) ELSE
                                 IF k \in Dels[w] THEN NoRecord ELSE store[k]
  BY DEF Append1, setStore, applied
<1>5. \A k : Contested(k)' = Contested(k)
  BY <1>1 DEF Contested
<1>6. \A k \in Key : valueOf(k)' = IF k \in Touches(w) THEN EffectOn(w, k) ELSE valueOf(k)
  BY WrittenValue
<1>7. ValuesAreExplained'
  <2>1. ASSUME NEW k \in Key, ~Contested(k)
        PROVE  Explains(Append(log, w), Write, k, valueOf(k)', Rejects)
    <3>1. CASE k \in Touches(w)
      BY <1>1, <1>6, <3>1, PipeIsTyped, ExplainsItself
    <3>2. CASE k \notin Touches(w)
      <4>1. Explains(log, Write, k, valueOf(k), Rejects)
        BY <2>1 DEF MapInv, ValuesAreExplained
      <4>2. Explains(Append(log, w), Write, k, valueOf(k), Rejects)
        BY <1>1, <3>2, <4>1, PipeIsTyped, ExplainsAppended
      <4>. QED BY <1>6, <3>2, <4>2
    <3>. QED BY <3>1, <3>2
  <2>. QED BY <1>1, <1>5, <2>1 DEF ValuesAreExplained
<1>8. PrevIsExplained'
  <2>1. ASSUME NEW x \in Write, NEW k \in Key, MayUndo(x, k)', ~Contested(k)
        PROVE  Explains(Append(log, w), Write, k, readAt(prev[x][k], k)', Rejects \union from(x)')
    <3>. pc'[x] = "pending" /\ k \in Touches(x)
      BY <2>1 DEF MayUndo
    <3>0. \A r : readAt(r, k)' = readAt(r, k)
      BY <1>2, PlacesRest
    <3>1. w \in from(x)'
      <4>1. CASE x = w
        BY <4>1 DEF from
      <4>2. CASE x # w
        <5>1. pc[x] = "pending"
          BY <1>3, <4>2
        <5>2. x \in ToSet(log)
          BY <5>1, FramesAreApart DEF MapInv, Logged
        <5>. QED BY <1>1, <5>2 DEF from
      <4>. QED BY <4>1, <4>2
    <3>2. CASE x = w
      <4>1. Explains(log, Write, k, valueOf(k), Rejects)
        BY <2>1 DEF MapInv, ValuesAreExplained
      <4>2. readAt(prev[x][k], k)' = valueOf(k)
        BY <1>3, <3>0, <3>2, ValueIsRead
      <4>. QED BY <1>1, <3>1, <4>1, <4>2, PipeIsTyped, ExplainsAppended
    <3>3. CASE x # w
      <4>1. pc[x] = "pending" /\ prev'[x] = prev[x]
        BY <1>3, <3>3
      <4>2. Explains(log, Write, k, readAt(prev[x][k], k), Rejects \union from(x))
        BY <2>1, <4>1 DEF MapInv, PrevIsExplained, MayUndo
      <4>3. from(x) \subseteq from(x)'
        BY <1>1 DEF from
      <4>. DEFINE rest == Rejects \union from(x)
                  others == Rejects \union from(x)'
      <4>4. /\ \A y \in ToSet(log) : y \in rest => y \in others
            /\ w \in others /\ w \notin ToSet(log) /\ log \in Seq(Write)
        BY <1>1, <3>1, <4>3, PipeIsTyped
      <4>. HIDE DEF rest, others
      <4>5. Explains(log, Write, k, readAt(prev[x][k], k), rest)
        BY <4>2 DEF rest
      <4>6. Explains(Append(log, w), Write, k, readAt(prev[x][k], k), others)
        BY <4>4, <4>5, ExplainsAppended
      <4>7. readAt(prev[x][k], k)' = readAt(prev[x][k], k)
        BY <3>0, <4>1
      <4>. QED BY <4>6, <4>7 DEF others
    <3>. QED BY <3>2, <3>3
  <2>. QED BY <1>1, <1>5, <2>1 DEF PrevIsExplained
<1>9. OwnRecords'
  <2>1. ASSUME NEW k \in Key, store'[k].by # Absent PROVE Owned(store[k], k)'
    <3>1. CASE k \in Puts[w]
      <4>1. store'[k] = InMemory(w, w)
        BY <1>4, <3>1
      <4>2. \A y : ~Before(log', w, y)
        <5>1. \A y : ~Before(log, w, y)
          BY <1>1, BeforeIsOfElements
        <5>. QED BY <1>1, <5>1
      <4>. QED BY <1>1, <3>1, <4>1, <4>2 DEF Owned, InMemory
    <3>2. CASE k \notin Puts[w]
      <4>1. store'[k] = store[k] /\ k \notin Dels[w]
        BY <1>4, <2>1, <3>2 DEF NoRecord
      <4>2. Owned(store[k], k)
        BY <2>1, <4>1 DEF MapInv, OwnRecords
      <4>3. \A y \in ToSet(log') : Before(log', store[k].by, y) => k \notin Touches(y)
        <5>1. k \notin Touches(w)
          BY <3>2, <4>1 DEF Touches
        <5>2. \A y \in ToSet(log) : Before(log, store[k].by, y) => k \notin Touches(y)
          BY <4>2 DEF Owned
        <5>. QED BY <1>1, <5>1, <5>2
      <4>. QED BY <1>1, <4>1, <4>2, <4>3 DEF Owned
    <3>. QED BY <3>1, <3>2
  <2>. QED BY <2>1 DEF OwnRecords
<1>. QED BY <1>7, <1>8, <1>9

LEMMA AppendKeepsMap ==
  ASSUME Typed, MapInv, NEW w \in Write, Commit(w), ~sealed, Append1(w)
  PROVE  MapInv'
<1>1. /\ w \notin ToSet(pipe) /\ pipe' = Append(pipe, w) /\ Rejects' = Rejects
  BY AppendedFrames
<1>2. UNCHANGED <<snapshot, wal, synced, openSnap, world, batch, sealed,
                  phase, rotateLock, newSnap, base, copied, newWal>>
  BY AppendedFrames
<1>3. Copied'
  BY <1>2 DEF MapInv, Copied, Quiet
<1>4. \A k \in Key : store'[k] = store[k] \/ store'[k].at \in {"memory", "nowhere"}
  BY DEF Append1, setStore, applied, InMemory, NoRecord
<1>5. RecordsLead' /\ Untorn'
  <2>1. \A r, k : Leads(r, k)' = Leads(r, k)
    BY <1>2, PlacesRest
  <2>2. \A k \in Key : Leads(store[k], k)'
    <3>1. \A k \in Key : Leads(store[k], k)
      BY DEF MapInv, RecordsLead
    <3>2. \A k \in Key : store'[k] = store[k] \/ store'[k] = InMemory(w, w) \/ store'[k] = NoRecord
      BY DEF Append1, setStore, applied
    <3>3. \A k : Leads(InMemory(w, w), k)' /\ Leads(NoRecord, k)'
      BY DEF Leads, InMemory, NoRecord
    <3>. QED BY <2>1, <3>1, <3>2, <3>3
  <2>3. ASSUME NEW x \in Write, NEW k \in Key, MayUndo(x, k)' PROVE Leads(prev[x][k], k)'
    <3>1. CASE x = w
      <4>1. prev'[x][k] = store[k]
        BY <3>1 DEF Append1, Typed, TypedStore
      <4>2. Leads(store[k], k)
        BY DEF MapInv, RecordsLead
      <4>. QED BY <2>1, <4>1, <4>2
    <3>2. CASE x # w
      <4>1. prev'[x] = prev[x] /\ pc'[x] = pc[x]
        BY <3>2 DEF Append1, Typed, TypedStore, TypedCalls
      <4>2. MayUndo(x, k)
        BY <2>3, <4>1 DEF MayUndo
      <4>3. Leads(prev[x][k], k)
        BY <4>2 DEF MapInv, RecordsLead
      <4>. QED BY <2>1, <4>1, <4>3
    <3>. QED BY <3>1, <3>2
  <2>4. Untorn'
    BY <1>2 DEF MapInv, Untorn
  <2>. QED BY <2>2, <2>3, <2>4 DEF RecordsLead
<1>6. Copies'
  <2>1. ASSUME NEW k \in Key, Moves(store[k])' PROVE Moves(store[k]) /\ valueOf(k)' = valueOf(k)
    <3>1. store'[k] = store[k]
      BY <1>4, <2>1 DEF Moves
    <3>. QED BY <1>2, <2>1, <3>1, ValueStays DEF Moves
  <2>2. visited' \subseteq visited
    BY DEF Append1, setStore
  <2>. QED BY <1>2, <2>1, <2>2 DEF MapInv, Copies
<1>. QED BY <1>3, <1>5, <1>6, LogExplains, WriteExplains DEF MapInv

----------------------------------------------------------------------------
(* The log is written *)

\* What has been copied of the log does not change when the log grows.
LEMMA CopiedStays ==
  ASSUME Typed, Copied, phase # "idle", NEW t \in Seq(Frame)
  PROVE  /\ SubSeq(wal \o t, base + 1, copied) = SubSeq(wal, base + 1, copied)
         /\ Len(wal \o t) \in Nat /\ copied <= Len(wal \o t) /\ base <= Len(wal)
<1>1. /\ base \in Nat /\ copied \in Nat /\ base <= copied /\ copied <= Len(wal) /\ wal \in Seq(Frame)
      /\ Len(wal) \in Nat /\ Len(t) \in Nat
  BY DEF Typed, TypedFiles, TypedCompaction, Copied
<1>2. Len(wal \o t) = Len(wal) + Len(t)
  BY <1>1, ConcatProperties
<1>3. CASE base = copied
  <2>1. base + 1 \in Int /\ copied \in Int /\ copied < base + 1
    BY <1>1, <1>3
  <2>2. SubSeq(wal \o t, base + 1, copied) = << >> /\ SubSeq(wal, base + 1, copied) = << >>
    BY <2>1, SubSeqEmpty
  <2>. QED BY <1>1, <1>2, <2>2
<1>4. CASE base # copied
  <2>1. base + 1 \in 1 .. Len(wal) /\ copied \in 1 .. Len(wal)
    BY <1>1, <1>4
  <2>2. SubSeq(wal \o t, base + 1, copied) = SubSeq(wal, base + 1, copied)
    BY <1>1, <2>1, SubSeqOfConcat1
  <2>. QED BY <1>1, <1>2, <2>2
<1>. QED BY <1>3, <1>4

LEMMA LandedFrames ==
  ASSUME Typed, MapInv, BatchLands
  PROVE  /\ wal' = onDisk /\ onDisk' = onDisk /\ pipe' = pipe /\ ToSet(batch') = {}
         /\ synced' = Len(onDisk)
         /\ Rejects' = Rejects /\ done \subseteq done'
         /\ \A w \in Write : pc'[w] = IF w \in ToSet(batch) THEN "acked" ELSE pc[w]
         /\ UNCHANGED <<snapshot, openSnap, world, queue, nextOffset, sealed, prev, predicted,
                        phase, rotateLock, newSnap, base, copied, newWal, log>>
<1>1. /\ wal' = onDisk /\ batch' = << >> /\ synced' = Len(wal')
      /\ \A w \in Write : pc'[w] = IF w \in ToSet(batch) THEN "acked" ELSE pc[w]
      /\ UNCHANGED <<snapshot, openSnap, world, queue, nextOffset, sealed, prev, predicted,
                     phase, rotateLock, newSnap, base, copied, newWal, log>>
  BY DEF BatchLands, onDisk, answer, compactVars
<1>2. onDisk' = onDisk \o << >>
  BY <1>1 DEF onDisk
<1>3. onDisk' = onDisk
  BY <1>2, PipeIsTyped, ConcatEmptySeq
<1>4. pipe' = pipe
  BY <1>1, <1>3 DEF pipe
<1>5. \A w \in ToSet(batch) : w \in Write /\ pc[w] = "pending"
  BY PipeParts DEF MapInv, Logged
<1>6. Rejects' = Rejects
  BY <1>1, <1>5 DEF Rejects
<1>7. done \subseteq done'
  BY <1>1 DEF done
<1>. QED BY <1>1, <1>3, <1>4, <1>6, <1>7, EmptySet

\* With the values on disk, the frames come to the places that appendLoc has promised.
LandsAsPredicted ==
  world.disk /\ BatchLands => \A i \in 1 .. Len(batch) : predicted[batch[i]] = Len(wal) + i

\* The frame that is written for the record of a key is where the record says.
LEMMA PublishedAtItsPlace ==
  ASSUME Typed, LandsAsPredicted, BatchLands, world.disk, NEW w \in ToSet(batch)
  PROVE  /\ predicted[w] \in Len(wal) + 1 .. Len(onDisk) /\ onDisk[predicted[w]] = w
<1>1. PICK j \in 1 .. Len(batch) : batch[j] = w
  BY PipeIsTyped DEF ToSet
<1>2. Len(wal) \in Nat /\ Len(batch) \in Nat /\ Len(onDisk) = Len(wal) + Len(batch) /\ onDisk[Len(wal) + j] = w
  BY <1>1, FilesAndBatch
<1>3. Len(wal) + j \in Len(wal) + 1 .. Len(onDisk)
  BY <1>2
<1>4. predicted[w] = Len(wal) + j
  BY <1>1 DEF LandsAsPredicted
<1>. QED BY <1>2, <1>3, <1>4

LEMMA LandedValues ==
  ASSUME Typed, MapInv, BatchLands, LandsAsPredicted, NEW k \in Key
  PROVE  /\ valueOf(k)' = valueOf(k)
         /\ store'[k].by # Absent => store'[k] = store[k]
         /\ Leads(store[k], k)'
         /\ world.disk /\ phase # "idle" /\ Moves(store[k])' => Moves(store[k])
<1>1. /\ wal' = onDisk /\ openSnap' = openSnap /\ base' = base /\ world' = world
  BY LandedFrames
<1>2. store'[k] = IF store[k].by \in ToSet(batch)
                  THEN IF world.disk THEN InWal(predicted[store[k].by]) ELSE restored(store[k])
                  ELSE store[k]
  BY DEF BatchLands, setStore, published
<1>3. /\ store[k] \in Records /\ Len(wal) \in Nat /\ Len(onDisk) \in Nat /\ Len(wal) <= Len(onDisk)
      /\ \A i \in 1 .. Len(wal) : onDisk[i] = wal[i]
      /\ Leads(store[k], k)
  BY FilesAndBatch DEF Typed, TypedStore, MapInv, RecordsLead
<1>4. store[k].by \in ToSet(batch) => store[k].by \in Write /\ store[k].by # Absent
  BY PipeParts, AbsentIsNoWrite
<1>5. CASE ~world.disk
  <2>1. /\ store'[k].at = store[k].at /\ store'[k].val = store[k].val /\ store'[k].off = store[k].off
        /\ store'[k] = store[k] \/ store'[k].by = Absent
    BY <1>2, <1>3, <1>5, RecordRestored
  <2>2. store[k].at # "wal" /\ store[k].at # "snapshot"
    BY <1>3, <1>5 DEF Records
  <2>3. valueOf(k)' = valueOf(k)
    BY <2>1, <2>2, ValueStays
  <2>4. Leads(store[k], k)'
    BY <1>3, <2>1, <2>2 DEF Leads
  <2>. QED BY <1>5, <2>1, <2>3, <2>4
<1>6. CASE world.disk /\ store[k].by \in ToSet(batch)
  <2>. DEFINE w == store[k].by
  <2>1. Owned(store[k], k) /\ w \in Write
    BY <1>4, <1>6 DEF MapInv, OwnRecords
  <2>2. predicted[w] \in Len(wal) + 1 .. Len(onDisk) /\ onDisk[predicted[w]] = w
    BY <1>6, PublishedAtItsPlace
  <2>3. store'[k] = InWal(predicted[w])
    BY <1>2, <1>6
  <2>4. valueOf(k) = w
    BY <2>1 DEF valueOf, Owned
  <2>5. predicted[w] \in 1 .. Len(onDisk) /\ predicted[w] \in DOMAIN onDisk /\ predicted[w] > Len(wal)
    BY <1>3, <2>2, FilesAndBatch
  <2>6. frameAt(onDisk, predicted[w], k) = w
    BY <2>1, <2>2, <2>5 DEF frameAt, Owned
  <2>7. valueOf(k)' = frameAt(wal', store'[k].off, k)
    BY <2>3 DEF valueOf, InWal
  <2>8. valueOf(k)' = w
    BY <1>1, <2>3, <2>6, <2>7 DEF InWal
  <2>9. store'[k].at = "wal" /\ store'[k].off = predicted[w] /\ store'[k].by = Absent
    BY <2>3 DEF InWal
  <2>10. Leads(store[k], k)'
    BY <1>1, <2>1, <2>2, <2>5, <2>9 DEF Leads, Owned
  <2>11. ASSUME phase # "idle" PROVE ~Moves(store[k])'
    <3>1. base <= Len(wal) /\ base \in Nat
      BY <1>3, <2>11 DEF MapInv, Copied, Typed, TypedCompaction
    <3>2. ~(predicted[w] <= base)
      BY <1>3, <2>2, <3>1
    <3>. QED BY <1>1, <2>9, <3>2 DEF Moves
  <2>. QED BY <2>4, <2>8, <2>9, <2>10, <2>11
<1>7. CASE world.disk /\ store[k].by \notin ToSet(batch)
  <2>1. store'[k] = store[k]
    BY <1>2, <1>7
  <2>2. wal' = wal \o batch /\ wal \in Seq(Frame) /\ batch \in Seq(Frame)
    BY <1>1, PipeIsTyped DEF onDisk
  <2>3. \A r : Leads(r, k) => Leads(r, k)' /\ readAt(r, k)' = readAt(r, k)
    BY <1>1, <2>2, PlacesStay
  <2>4. Leads(store[k], k)' /\ valueOf(k)' = valueOf(k)
    BY <1>3, <2>1, <2>3, ValueIsRead
  <2>. QED BY <1>1, <2>1, <2>4 DEF Moves
<1>. QED BY <1>5, <1>6, <1>7

LEMMA BatchLandsKeepsMap ==
  ASSUME Typed, MapInv, BatchLands, LandsAsPredicted
  PROVE  MapInv'
<1>1. /\ wal' = onDisk /\ pipe' = pipe /\ ToSet(batch') = {} /\ synced' = Len(onDisk)
      /\ Rejects' = Rejects /\ done \subseteq done'
      /\ \A w \in Write : pc'[w] = IF w \in ToSet(batch) THEN "acked" ELSE pc[w]
  BY LandedFrames
<1>2. UNCHANGED <<snapshot, openSnap, world, queue, nextOffset, sealed, prev, predicted,
                  phase, rotateLock, newSnap, base, copied, newWal, log>>
  BY LandedFrames
<1>3. \A k : Contested(k)' = Contested(k)
  BY <1>1 DEF Contested
<1>4. visited' \subseteq visited
  BY DEF BatchLands, setStore
<1>5. Ordered'
  BY <1>1, <1>2 DEF MapInv, Ordered
<1>6. Logged'
  <2>1. ToSet(batch) \intersect ToSet(queue) = {} /\ ToSet(log) \subseteq Write
    BY FramesAreApart, PipeParts DEF MapInv
  <2>. QED BY <1>1, <1>2, <2>1 DEF MapInv, Logged
<1>7. AckedAreSynced'
  <2>1. /\ Len(wal) \in Nat /\ Len(batch) \in Nat /\ Len(onDisk) = Len(wal) + Len(batch)
        /\ \A i \in 1 .. Len(wal) : onDisk[i] = wal[i]
        /\ \A i \in 1 .. Len(batch) : onDisk[Len(wal) + i] = batch[i]
    BY FilesAndBatch
  <2>2. ASSUME NEW w \in ToSet(log), pc'[w] = "acked" PROVE Lasts(w)'
    <3>1. CASE w \in ToSet(batch)
      <4>1. PICK j \in 1 .. Len(batch) : batch[j] = w
        BY <3>1, PipeIsTyped DEF ToSet
      <4>2. Len(wal) + j \in 1 .. Len(onDisk) /\ onDisk[Len(wal) + j] = w
        BY <2>1, <4>1
      <4>. QED BY <1>1, <4>2 DEF Lasts
    <3>2. CASE w \notin ToSet(batch)
      <4>1. w \in Write
        BY PipeParts
      <4>2. Lasts(w)
        BY <1>1, <2>2, <3>2, <4>1 DEF MapInv, AckedAreSynced
      <4>3. CASE \E i \in 1 .. synced : wal[i] = w
        <5>1. PICK i \in 1 .. synced : wal[i] = w
          BY <4>3
        <5>2. i \in 1 .. Len(wal) /\ i \in 1 .. Len(onDisk)
          BY <2>1, <5>1 DEF Typed, TypedFiles
        <5>. QED BY <1>1, <2>1, <5>1, <5>2 DEF Lasts
      <4>4. CASE \A y \in ToSet(pipe) : y = Torn \/ Before(log, w, y)
        BY <1>1, <1>2, <4>4 DEF Lasts
      <4>. QED BY <4>2, <4>3, <4>4 DEF Lasts
    <3>. QED BY <3>1, <3>2
  <2>. QED BY <1>2, <2>2 DEF AckedAreSynced
<1>8. ValuesAreExplained'
  BY <1>1, <1>2, <1>3, LandedValues DEF MapInv, ValuesAreExplained
<1>9. SnapshotIsExplained'
  <2>1. ASSUME NEW k \in Key, ~Contested(k)
        PROVE  Explains(log, done', k, snapshot[k], Rejects \union ToSet(pipe))
    <3>1. Explains(log, done, k, snapshot[k], Rejects \union ToSet(pipe))
      BY <2>1 DEF MapInv, SnapshotIsExplained
    <3>. QED BY <1>1, <3>1, ExplainsMore
  <2>. QED BY <1>1, <1>2, <1>3, <2>1 DEF SnapshotIsExplained
<1>10. NewSnapshotIsExplained'
  <2>1. ASSUME phase # "idle" PROVE fenced \subseteq fenced'
    <3>1. base \in Nat /\ base <= Len(wal)
      BY <2>1 DEF Typed, TypedCompaction, MapInv, Copied, TypedFiles
    <3>2. /\ Len(wal) \in Nat /\ Len(batch) \in Nat /\ Len(onDisk) = Len(wal) + Len(batch)
          /\ \A i \in 1 .. Len(wal) : onDisk[i] = wal[i]
          /\ \A i \in 1 .. Len(batch) : onDisk[Len(wal) + i] = batch[i]
      BY FilesAndBatch
    <3>3. ASSUME NEW i \in base + 1 .. Len(wal) PROVE wal[i] \in fenced'
      <4>1. i \in base + 1 .. Len(onDisk) /\ onDisk[i] = wal[i]
        BY <3>1, <3>2
      <4>. QED BY <1>1, <1>2, <4>1 DEF fenced
    <3>4. ASSUME NEW x \in ToSet(batch) PROVE x \in fenced'
      <4>1. PICK j \in 1 .. Len(batch) : batch[j] = x
        BY PipeIsTyped DEF ToSet
      <4>2. Len(wal) + j \in base + 1 .. Len(onDisk) /\ onDisk[Len(wal) + j] = x
        BY <3>1, <3>2, <4>1
      <4>. QED BY <1>1, <1>2, <4>2 DEF fenced
    <3>5. ToSet(queue) \subseteq fenced'
      BY <1>2 DEF fenced
    <3>. QED BY <3>3, <3>4, <3>5 DEF fenced
  <2>2. ASSUME phase # "idle", NEW k \in Key, ~Contested(k),
               phase # "snapshot" \/ k \in visited \/ newSnap[k] # Absent
        PROVE  Explains(log, Write, k, newSnap[k], Rejects \union fenced')
    <3>1. Explains(log, Write, k, newSnap[k], Rejects \union fenced)
      BY <2>2 DEF MapInv, NewSnapshotIsExplained
    <3>. QED BY <2>1, <2>2, <3>1, ExplainsMore
  <2>. QED BY <1>1, <1>2, <1>3, <1>4, <2>2 DEF NewSnapshotIsExplained
<1>11. PrevIsExplained' /\ RecordsLead'
  <2>1. \A x : from(x)' = from(x)
    BY <1>2 DEF from
  <2>2. \A w \in Write : pc'[w] = "pending" => pc[w] = "pending"
    BY <1>1
  <2>3. \A w, k : MayUndo(w, k)' /\ w \in Write => MayUndo(w, k)
    BY <2>2 DEF MayUndo
  <2>4. wal' = wal \o batch /\ wal \in Seq(Frame) /\ batch \in Seq(Frame)
    BY <1>1, PipeIsTyped DEF onDisk
  <2>5. \A r, k : Leads(r, k) => Leads(r, k)' /\ readAt(r, k)' = readAt(r, k)
    BY <1>2, <2>4, PlacesStay
  <2>6. ASSUME NEW w \in Write, NEW k \in Key, MayUndo(w, k)'
        PROVE  /\ Leads(prev[w][k], k)'
               /\ Contested(k) \/ Explains(log, Write, k, readAt(prev[w][k], k)', Rejects \union from(w))
    <3>1. MayUndo(w, k) /\ prev'[w][k] = prev[w][k]
      BY <1>2, <2>3, <2>6
    <3>2. Leads(prev[w][k], k)
      BY <3>1 DEF MapInv, RecordsLead
    <3>3. Contested(k) \/ Explains(log, Write, k, readAt(prev[w][k], k), Rejects \union from(w))
      BY <3>1 DEF MapInv, PrevIsExplained
    <3>. QED BY <2>5, <3>1, <3>2, <3>3
  <2>7. \A k \in Key : Leads(store[k], k)'
    BY LandedValues
  <2>. QED BY <1>1, <1>2, <1>3, <2>1, <2>6, <2>7 DEF PrevIsExplained, RecordsLead
<1>12. OwnRecords'
  <2>1. ASSUME NEW k \in Key, store'[k].by # Absent PROVE Owned(store[k], k)'
    <3>1. store'[k] = store[k]
      BY <2>1, LandedValues
    <3>. QED BY <1>2, <2>1, <3>1 DEF MapInv, OwnRecords, Owned
  <2>. QED BY <2>1 DEF OwnRecords
<1>13. Copied'
  <2>1. ~Quiet
    BY DEF BatchLands, Quiet
  <2>2. wal' = wal \o batch
    BY <1>1 DEF onDisk
  <2>. QED BY <1>2, <2>1, <2>2, PipeIsTyped, CopiedStays DEF MapInv, Copied
<1>14. Untorn'
  BY <1>2 DEF MapInv, Untorn
<1>15. Copies'
  BY <1>2, <1>4, LandedValues DEF MapInv, Copies
<1>. QED BY <1>5, <1>6, <1>7, <1>8, <1>9, <1>10, <1>11, <1>12, <1>13, <1>14, <1>15 DEF MapInv

----------------------------------------------------------------------------
(* A write to the log fails *)

LEMMA FailedFrames ==
  ASSUME Typed, MapInv, BatchFails
  PROVE  \E t \in Seq(Frame) :
           /\ wal' = wal \o t /\ ToSet(batch') = {}
           /\ Within(pipe', pipe) /\ ToSet(pipe) \subseteq ToSet(pipe') \union ToSet(batch)
           /\ Rejects' = Rejects \union ToSet(batch) /\ done \subseteq done'
           /\ world'.disk = world.disk
           /\ \A w \in Write : pc'[w] = IF w \in ToSet(batch) THEN "rejected" ELSE pc[w]
           /\ UNCHANGED <<snapshot, synced, openSnap, queue, nextOffset, sealed, prev, predicted,
                          phase, rotateLock, newSnap, base, copied, newWal, log>>
<1>1. /\ batch' = << >> /\ \A w \in Write : pc'[w] = IF w \in ToSet(batch) THEN "rejected" ELSE pc[w]
      /\ UNCHANGED <<snapshot, synced, openSnap, queue, nextOffset, sealed, prev, predicted,
                     phase, rotateLock, newSnap, base, copied, newWal, log>>
  BY DEF BatchFails, answer, compactVars
<1>2. world'.disk = world.disk
  BY DEF BatchFails, storageFails, Typed, TypedStore
<1>3. PICK t \in Seq(Frame) :
        /\ wal' = wal \o t
        /\ \E n \in 0 .. Len(batch) : t = SubSeq(batch, 1, n) \/ t = SubSeq(batch, 1, n) \o <<Torn>>
  BY FailLeaves
<1>4. Within(t, batch)
  <2>1. PICK n \in 0 .. Len(batch) : t = SubSeq(batch, 1, n) \/ t = SubSeq(batch, 1, n) \o <<Torn>>
    BY <1>3
  <2>2. SubSeq(batch, 1, n) \in Seq(Frame) /\ Within(SubSeq(batch, 1, n), batch)
    BY PipeIsTyped, PrefixProperties, WithinPart
  <2>3. Within(SubSeq(batch, 1, n) \o <<Torn>>, SubSeq(batch, 1, n))
    BY <2>2, WithinTorn
  <2>. DEFINE a == SubSeq(batch, 1, n)
              b == SubSeq(batch, 1, n) \o <<Torn>>
  <2>4. (t = a \/ t = b) /\ Within(a, batch) /\ Within(b, a)
    BY <2>1, <2>2, <2>3
  <2>. HIDE DEF a, b
  <2>. QED BY <2>4, WithinTransitive
<1>5. wal \o t \in Seq(Frame) /\ wal \o batch \in Seq(Frame) /\ Within(wal \o t, wal \o batch)
  BY <1>4, PipeIsTyped, ConcatProperties, WithinConcat
<1>6. onDisk' = wal \o t
  <2>1. onDisk' = (wal \o t) \o << >>
    BY <1>1, <1>3 DEF onDisk
  <2>. QED BY <1>5, <2>1, ConcatEmptySeq
<1>7. pipe' = (wal \o t) \o queue
  BY <1>1, <1>6 DEF pipe
<1>8. Within((wal \o t) \o queue, (wal \o batch) \o queue)
  BY <1>5, PipeIsTyped, WithinConcat
<1>9. Within(pipe', pipe)
  BY <1>7, <1>8 DEF pipe, onDisk
<1>10. ToSet(pipe') = (ToSet(wal) \union ToSet(t)) \union ToSet(queue)
  <2>1. ToSet((wal \o t) \o queue) = ToSet(wal \o t) \union ToSet(queue)
    <3>. DEFINE u == wal \o t
    <3>1. u \in Seq(Frame) /\ queue \in Seq(Frame)
      BY <1>5, PipeIsTyped
    <3>. HIDE DEF u
    <3>2. ToSet(u \o queue) = ToSet(u) \union ToSet(queue)
      BY <3>1, ConcatSet
    <3>. QED BY <3>2 DEF u
  <2>2. ToSet(wal \o t) = ToSet(wal) \union ToSet(t)
    BY PipeIsTyped, ConcatSet
  <2>. QED BY <1>7, <2>1, <2>2
<1>11. ToSet(pipe) \subseteq ToSet(pipe') \union ToSet(batch)
  BY <1>10, PipeParts
<1>12. \A w \in ToSet(batch) : w \in Write /\ pc[w] = "pending"
  BY PipeParts DEF MapInv, Logged
<1>13. Rejects' = Rejects \union ToSet(batch) /\ done \subseteq done'
  BY <1>1, <1>12 DEF Rejects, done
<1>14. ToSet(batch') = {}
  BY <1>1, EmptySet
<1>. QED BY <1>1, <1>2, <1>3, <1>9, <1>11, <1>13, <1>14

LEMMA RestoredReads ==
  ASSUME NEW r \in Records
  PROVE  \A k : readAt(restored(r), k) = readAt(r, k) /\ (Leads(r, k) => Leads(restored(r), k))
<1>1. restored(r).at = r.at /\ restored(r).val = r.val /\ restored(r).off = r.off
  BY RecordRestored
<1>2. ASSUME NEW k PROVE readAt(restored(r), k) = readAt(r, k)
  BY <1>1 DEF readAt
<1>3. ASSUME NEW k, Leads(r, k) PROVE Leads(restored(r), k)
  BY <1>1, <1>3 DEF Leads
<1>. QED BY <1>2, <1>3

\* The values that are put back are explained without the writes that failed.
LEMMA UndoneValues ==
  ASSUME Typed, MapInv, BatchFails, NEW k \in Key
  PROVE  /\ store'[k].by # Absent => store'[k] = store[k]
         /\ store'[k] = store[k] => valueOf(k)' = valueOf(k)
         /\ Leads(store[k], k)'
         /\ Contested(k)' \/ Explains(log, Write, k, valueOf(k)', Rejects')
<1>1. /\ Rejects' = Rejects \union ToSet(batch)
      /\ \A x : x \in Rejects => x \in Rejects'
  BY FailedFrames
<1>2. Undone(store', k)
  BY BatchIsUndone DEF BatchFails, setStore, Undo
<1>3. store[k] \in Records /\ \A w \in Write : prev[w][k] \in Records
  BY DEF Typed, TypedStore
<1>4. ToSet(batch) \subseteq Write /\ \A b \in ToSet(batch) : pc[b] = "pending"
  BY PipeParts DEF MapInv, Logged
<1>5. \A r : Leads(r, k) => Leads(r, k)' /\ readAt(r, k)' = readAt(r, k)
  <2>1. wal \in Seq(Frame)
    BY PipeIsTyped
  <2>2. PICK t \in Seq(Frame) : wal' = wal \o t /\ openSnap' = openSnap
    BY FailedFrames
  <2>. QED BY <2>1, <2>2, PlacesStay
<1>6. CASE store'[k] = store[k]
  <2>1. Leads(store[k], k)
    BY DEF MapInv, RecordsLead
  <2>2. valueOf(k)' = valueOf(k) /\ Leads(store[k], k)'
    BY <1>6, <1>5, <2>1, ValueIsRead
  <2>3. Contested(k) => Contested(k)'
    BY <1>1 DEF Contested
  <2>4. ASSUME ~Contested(k) PROVE Explains(log, Write, k, valueOf(k)', Rejects')
    <3>1. Explains(log, Write, k, valueOf(k), Rejects)
      BY <2>4 DEF MapInv, ValuesAreExplained
    <3>. QED BY <1>1, <2>2, <3>1, ExplainsMore
  <2>. QED BY <1>6, <2>2, <2>3, <2>4
<1>7. ASSUME NEW b \in ToSet(batch), k \in Touches(b), store'[k] = restored(prev[b][k]),
             k \in Puts[b] => store[k].by = b
      PROVE  /\ store'[k].by = Absent /\ Leads(store[k], k)'
             /\ store'[k] = store[k] => valueOf(k)' = valueOf(k)
             /\ Contested(k)' \/ Explains(log, Write, k, valueOf(k)', Rejects')
  <2>. DEFINE r == prev[b][k]
  <2>1. b \in Write /\ r \in Records /\ pc[b] = "pending"
    BY <1>3, <1>4
  <2>2. store'[k].by = Absent
    BY <1>7, <2>1, RecordRestored
  <2>3. MayUndo(b, k) /\ Leads(r, k)
    BY <1>7, <2>1 DEF MayUndo, MapInv, RecordsLead
  <2>4. valueOf(k)' = readAt(r, k) /\ Leads(store[k], k)'
    <3>1. readAt(restored(r), k) = readAt(r, k) /\ Leads(restored(r), k)
      BY <2>1, <2>3, RestoredReads
    <3>. HIDE DEF r
    <3>2. store'[k] = restored(r)
      BY <1>7 DEF r
    <3>3. Leads(store[k], k)' /\ readAt(store[k], k)' = readAt(r, k)
      BY <1>5, <3>1, <3>2
    <3>. QED BY <3>3, ValueIsRead
  <2>5. store'[k] = store[k] => valueOf(k)' = valueOf(k)
    BY <1>6
  <2>6. CASE k \in Dels[b]
    <3>1. Contested(k)'
      BY <1>1, <2>6 DEF Contested
    <3>. QED BY <2>2, <2>4, <2>5, <3>1
  <2>7. CASE k \notin Dels[b]
    <3>1. store[k].by = b
      BY <1>7, <2>7 DEF Touches
    <3>2. \A y \in ToSet(log) : Before(log, b, y) => k \notin Touches(y)
      BY <2>1, <3>1, AbsentIsNoWrite DEF MapInv, OwnRecords, Owned
    <3>3. Contested(k) => Contested(k)'
      BY <1>1 DEF Contested
    <3>4. ASSUME ~Contested(k) PROVE Explains(log, Write, k, readAt(r, k), Rejects')
      <4>. DEFINE v == readAt(r, k)
      <4>1. Explains(log, Write, k, v, Rejects \union from(b))
        BY <2>1, <2>3, <3>4 DEF MapInv, PrevIsExplained
      <4>. DEFINE rest == Rejects \union from(b)
      <4>2. \A x \in ToSet(log) : x \in rest /\ k \in Touches(x) => x \in Rejects'
        BY <1>1, <3>2 DEF from
      <4>. HIDE DEF rest, v
      <4>3. Explains(log, Write, k, v, rest)
        BY <4>1 DEF rest
      <4>4. Explains(log, Write, k, v, Rejects')
        BY <4>2, <4>3, ExplainsMore
      <4>. QED BY <4>4 DEF v
    <3>. QED BY <2>2, <2>4, <2>5, <3>3, <3>4
  <2>. QED BY <2>6, <2>7
<1>. QED BY <1>2, <1>6, <1>7 DEF Undone

\* With the values on disk, no write to the log fails while a compaction runs.
FailsBetweenCompactions == world.disk /\ BatchFails => phase = "idle"

LEMMA BatchFailsKeepsMap ==
  ASSUME Typed, MapInv, BatchFails, FailsBetweenCompactions
  PROVE  MapInv'
<1>1. PICK t \in Seq(Frame) :
        /\ wal' = wal \o t /\ ToSet(batch') = {}
        /\ Within(pipe', pipe) /\ ToSet(pipe) \subseteq ToSet(pipe') \union ToSet(batch)
        /\ Rejects' = Rejects \union ToSet(batch) /\ done \subseteq done'
        /\ world'.disk = world.disk
        /\ \A w \in Write : pc'[w] = IF w \in ToSet(batch) THEN "rejected" ELSE pc[w]
        /\ UNCHANGED <<snapshot, synced, openSnap, queue, nextOffset, sealed, prev, predicted,
                       phase, rotateLock, newSnap, base, copied, newWal, log>>
  BY FailedFrames
<1>2. \A k : Contested(k) => Contested(k)'
  BY <1>1 DEF Contested
<1>3. visited' \subseteq visited
  BY DEF BatchFails, setStore
<1>4. /\ Len(wal) \in Nat /\ Len(t) \in Nat /\ Len(wal') = Len(wal) + Len(t)
      /\ \A i \in 1 .. Len(wal) : wal'[i] = wal[i]
  <2>1. wal \in Seq(Frame) /\ Len(wal) \in Nat /\ Len(t) \in Nat
    BY PipeIsTyped
  <2>2. /\ Len(wal \o t) = Len(wal) + Len(t)
        /\ \A i \in 1 .. Len(wal) + Len(t) : (wal \o t)[i] = IF i <= Len(wal) THEN wal[i] ELSE t[i - Len(wal)]
    BY <2>1, ConcatProperties
  <2>3. \A i \in 1 .. Len(wal) : i \in 1 .. Len(wal) + Len(t) /\ i <= Len(wal)
    BY <2>1
  <2>. QED BY <1>1, <2>1, <2>2, <2>3
<1>5. Ordered'
  BY <1>1, WithinTransitive DEF MapInv, Ordered
<1>6. Logged'
  <2>1. ToSet(batch) \intersect ToSet(queue) = {} /\ ToSet(log) \subseteq Write
    BY FramesAreApart, PipeParts DEF MapInv
  <2>. QED BY <1>1, <2>1 DEF MapInv, Logged
<1>7. AckedAreSynced'
  <2>1. ASSUME NEW w \in ToSet(log), pc'[w] = "acked" PROVE Lasts(w)'
    <3>1. w \in Write
      BY PipeParts
    <3>2. Lasts(w)
      BY <1>1, <2>1, <3>1 DEF MapInv, AckedAreSynced
    <3>3. CASE \E i \in 1 .. synced : wal[i] = w
      <4>1. \A i \in 1 .. synced : i \in 1 .. Len(wal)
        BY <1>4 DEF Typed, TypedFiles
      <4>. QED BY <1>1, <1>4, <3>3, <4>1 DEF Lasts
    <3>4. CASE \A y \in ToSet(pipe) : y = Torn \/ Before(log, w, y)
      BY <1>1, <3>4 DEF Lasts, Within
    <3>. QED BY <3>2, <3>3, <3>4 DEF Lasts
  <2>. QED BY <1>1, <2>1 DEF AckedAreSynced
<1>8. ValuesAreExplained'
  BY <1>1, UndoneValues DEF ValuesAreExplained
<1>9. SnapshotIsExplained'
  <2>1. ASSUME NEW k \in Key, ~Contested(k)
        PROVE  Explains(log, done', k, snapshot[k], Rejects' \union ToSet(pipe'))
    <3>. DEFINE rest == Rejects \union ToSet(pipe)
                others == Rejects' \union ToSet(pipe')
    <3>1. Explains(log, done, k, snapshot[k], rest)
      BY <2>1 DEF MapInv, SnapshotIsExplained
    <3>2. \A x : x \in rest => x \in others
      BY <1>1
    <3>. HIDE DEF rest, others
    <3>3. Explains(log, done', k, snapshot[k], others)
      BY <1>1, <3>1, <3>2, ExplainsMore
    <3>. QED BY <3>3 DEF others
  <2>. QED BY <1>1, <1>2, <2>1 DEF SnapshotIsExplained
<1>10. NewSnapshotIsExplained'
  <2>1. ASSUME phase # "idle" PROVE fenced \subseteq fenced' \union ToSet(batch)
    <3>1. base \in Nat /\ base <= Len(wal)
      BY <2>1, <1>4 DEF Typed, TypedCompaction, MapInv, Copied
    <3>2. ASSUME NEW i \in base + 1 .. Len(wal) PROVE wal[i] \in fenced'
      <4>1. i \in base + 1 .. Len(wal') /\ wal'[i] = wal[i]
        BY <1>4, <3>1
      <4>. QED BY <1>1, <4>1 DEF fenced
    <3>3. ToSet(queue) \subseteq fenced'
      BY <1>1 DEF fenced
    <3>. QED BY <3>2, <3>3 DEF fenced
  <2>2. ASSUME phase # "idle", NEW k \in Key, ~Contested(k),
               phase # "snapshot" \/ k \in visited \/ newSnap[k] # Absent
        PROVE  Explains(log, Write, k, newSnap[k], Rejects' \union fenced')
    <3>. DEFINE rest == Rejects \union fenced
                others == Rejects' \union fenced'
    <3>1. Explains(log, Write, k, newSnap[k], rest)
      BY <2>2 DEF MapInv, NewSnapshotIsExplained
    <3>2. \A x : x \in rest => x \in others
      BY <1>1, <2>1, <2>2
    <3>. HIDE DEF rest, others
    <3>3. Explains(log, Write, k, newSnap[k], others)
      BY <3>1, <3>2, ExplainsMore
    <3>. QED BY <3>3 DEF others
  <2>. QED BY <1>1, <1>2, <1>3, <2>2 DEF NewSnapshotIsExplained
<1>11. PrevIsExplained' /\ RecordsLead'
  <2>1. \A r, k : Leads(r, k) => Leads(r, k)' /\ readAt(r, k)' = readAt(r, k)
    <3>1. wal \in Seq(Frame)
      BY PipeIsTyped
    <3>. QED BY <1>1, <3>1, PlacesStay
  <2>2. ASSUME NEW w \in Write, NEW k \in Key, MayUndo(w, k)'
        PROVE  /\ MayUndo(w, k) /\ Leads(prev[w][k], k)'
               /\ readAt(prev[w][k], k)' = readAt(prev[w][k], k)
    <3>1. MayUndo(w, k) /\ prev'[w][k] = prev[w][k]
      BY <1>1, <2>2 DEF MayUndo
    <3>2. Leads(prev[w][k], k)
      BY <3>1 DEF MapInv, RecordsLead
    <3>. QED BY <2>1, <3>1, <3>2
  <2>3. ASSUME NEW w \in Write, NEW k \in Key, MayUndo(w, k)', ~Contested(k)
        PROVE  Explains(log, Write, k, readAt(prev[w][k], k), Rejects' \union from(w))
    <3>. DEFINE v == readAt(prev[w][k], k)
    <3>. DEFINE rest == Rejects \union from(w)
                others == Rejects' \union from(w)
    <3>2. Explains(log, Write, k, v, rest)
      BY <2>3, <2>2 DEF MapInv, PrevIsExplained
    <3>3. \A x : x \in rest => x \in others
      BY <1>1
    <3>. HIDE DEF rest, others, v
    <3>4. Explains(log, Write, k, v, others)
      BY <3>2, <3>3, ExplainsMore
    <3>. QED BY <3>4 DEF others, v
  <2>4. \A x : from(x)' = from(x)
    BY <1>1 DEF from
  <2>5. PrevIsExplained'
    BY <1>1, <1>2, <2>3, <2>4, <2>2 DEF PrevIsExplained
  <2>6. RecordsLead'
    BY <2>2, UndoneValues DEF RecordsLead
  <2>. QED BY <2>5, <2>6
<1>12. OwnRecords'
  <2>1. ASSUME NEW k \in Key, store'[k].by # Absent PROVE Owned(store[k], k)'
    <3>1. store'[k] = store[k]
      BY <2>1, UndoneValues
    <3>. QED BY <1>1, <2>1, <3>1 DEF MapInv, OwnRecords, Owned
  <2>. QED BY <2>1 DEF OwnRecords
<1>13. Copied'
  <2>1. ~Quiet
    BY DEF BatchFails, Quiet
  <2>. QED BY <1>1, <2>1, PipeIsTyped, CopiedStays DEF MapInv, Copied
<1>14. Untorn' /\ Copies'
  <2>1. world'.disk => phase' = "idle"
    BY <1>1 DEF FailsBetweenCompactions
  <2>. QED BY <1>1, <2>1 DEF MapInv, Untorn, Copies
<1>. QED BY <1>5, <1>6, <1>7, <1>8, <1>9, <1>10, <1>11, <1>12, <1>13, <1>14 DEF MapInv

----------------------------------------------------------------------------
(* The new log takes the place of the old one *)

LEMMA RotatedFrames ==
  ASSUME Typed, MapInv, RenameWal
  PROVE  /\ base \in Nat /\ base <= Len(wal) /\ Len(wal) \in Nat /\ Len(wal') = Len(wal) - base
         /\ \A i \in 1 .. Len(wal) - base : wal'[i] = wal[base + i]
         /\ ToSet(batch) = {} /\ ToSet(queue) = {} /\ pipe = wal /\ pipe' = wal'
         /\ Within(pipe', pipe) /\ fenced \subseteq ToSet(pipe') /\ ToSet(pipe') \subseteq ToSet(pipe)
         /\ snapshot = newSnap /\ openSnap' = newSnap /\ synced' = Len(wal') /\ nextOffset' = Len(wal')
         /\ Rejects' = Rejects /\ done' = done /\ phase = "renamed" /\ phase' = "idle" /\ ~sealed'
         /\ UNCHANGED <<snapshot, world, pc, prev, predicted, log, batch, queue>>
<1>1. /\ wal' = newWal /\ phase = "renamed" /\ phase' = "idle" /\ ~sealed' /\ openSnap' = snapshot
      /\ synced' = Len(wal') /\ nextOffset' = Len(wal')
      /\ UNCHANGED <<snapshot, world, pc, prev, predicted, log, batch, queue>>
  BY DEF RenameWal, freshWal, callVars
<1>2. /\ batch = << >> /\ queue = << >> /\ snapshot = newSnap /\ copied = Len(wal)
      /\ newWal = SubSeq(wal, base + 1, copied) /\ base <= copied /\ base \in Nat
  BY <1>1 DEF MapInv, Copied, Quiet, Typed, TypedCompaction
<1>3. wal \in Seq(Frame) /\ Len(wal) \in Nat /\ base \in 0 .. Len(wal)
  BY <1>2, PipeIsTyped
<1>4. wal' = SubSeq(wal, base + 1, Len(wal))
  BY <1>1, <1>2
<1>5. /\ wal' \in Seq(Frame) /\ Len(wal') = Len(wal) - base
      /\ \A i \in 1 .. Len(wal) - base : wal'[i] = wal[base + i]
  BY <1>3, <1>4, SuffixProperties
<1>6. onDisk = wal /\ onDisk' = wal'
  BY <1>1, <1>2, <1>3, <1>5, ConcatEmptySeq DEF onDisk
<1>7. pipe = wal /\ pipe' = wal'
  BY <1>1, <1>2, <1>3, <1>5, <1>6, ConcatEmptySeq DEF pipe
<1>8. Within(pipe', pipe)
  BY <1>3, <1>4, <1>7, WithinPart
<1>9. fenced \subseteq ToSet(pipe')
  <2>1. ASSUME NEW i \in base + 1 .. Len(wal) PROVE wal[i] \in ToSet(wal')
    <3>1. i - base \in 1 .. Len(wal) - base /\ base + (i - base) = i
      BY <1>3
    <3>2. wal'[i - base] = wal[i] /\ i - base \in DOMAIN wal'
      BY <1>5, <3>1
    <3>. QED BY <3>2 DEF ToSet
  <2>. QED BY <1>2, <1>7, <2>1, EmptySet DEF fenced
<1>10. ToSet(pipe') \subseteq ToSet(pipe)
  <2>1. ASSUME NEW i \in DOMAIN wal' PROVE wal'[i] \in ToSet(wal)
    <3>1. i \in 1 .. Len(wal) - base
      BY <1>5, <2>1
    <3>2. base + i \in 1 .. Len(wal)
      BY <1>3, <3>1
    <3>3. base + i \in DOMAIN wal
      BY <1>3, <3>2
    <3>4. wal'[i] = wal[base + i]
      BY <1>5, <3>1
    <3>. QED BY <3>3, <3>4 DEF ToSet
  <2>. QED BY <1>7, <2>1 DEF ToSet
<1>11. Rejects' = Rejects /\ done' = done
  BY <1>1 DEF Rejects, done
<1>12. base \in Nat /\ base <= Len(wal) /\ Len(wal) \in Nat
  BY <1>3
<1>13. ToSet(batch) = {} /\ ToSet(queue) = {} /\ openSnap' = newSnap
  BY <1>1, <1>2, EmptySet
<1>. QED BY <1>1, <1>2, <1>5, <1>7, <1>8, <1>9, <1>10, <1>11, <1>12, <1>13

\* A record either moves with its frame, or leads to the new snapshot.
LEMMA RemappedValues ==
  ASSUME Typed, MapInv, RenameWal, NEW k \in Key
  PROVE  /\ valueOf(k)' = valueOf(k)
         /\ store'[k].by # Absent => store'[k] = store[k]
         /\ Leads(store[k], k)'
<1>1. /\ base \in Nat /\ base <= Len(wal) /\ Len(wal) \in Nat /\ Len(wal') = Len(wal) - base
      /\ \A i \in 1 .. Len(wal) - base : wal'[i] = wal[base + i]
      /\ snapshot = newSnap /\ openSnap' = newSnap /\ phase = "renamed"
  BY RotatedFrames
<1>2. store'[k] = remapped(k)
  BY DEF RenameWal
<1>3. store[k] \in Records /\ Leads(store[k], k)
  BY DEF Typed, TypedStore, MapInv, RecordsLead
<1>4. CASE store[k].at \notin {"wal", "snapshot"}
  <2>1. store'[k] = store[k]
    BY <1>2, <1>4 DEF remapped
  <2>2. valueOf(k)' = valueOf(k)
    BY <1>4, <2>1, ValueStays
  <2>. QED BY <1>3, <1>4, <2>1, <2>2 DEF Leads
<1>5. CASE store[k].at = "wal" /\ store[k].off > base
  <2>1. world.disk /\ store[k].off \in Nat
    BY <1>3, <1>5 DEF Records
  <2>2. /\ store[k].off \in 1 .. Len(wal) /\ wal[store[k].off] \in Write /\ k \in Puts[wal[store[k].off]]
    BY <1>3, <1>5 DEF Leads
  <2>3. store'[k] = [store[k] EXCEPT !.off = store[k].off - base]
    BY <1>2, <1>5 DEF remapped
  <2>4. store'[k].at = "wal" /\ store'[k].off = store[k].off - base /\ store'[k].by = store[k].by
    BY <1>3, <1>5, <2>3 DEF Records
  <2>5. /\ store[k].off - base \in 1 .. Len(wal) - base /\ base + (store[k].off - base) = store[k].off
    BY <1>1, <1>5, <2>2
  <2>6. wal'[store[k].off - base] = wal[store[k].off] /\ store[k].off - base \in 1 .. Len(wal')
    BY <1>1, <2>5
  <2>7. wal \in Seq(Frame) /\ wal' \in Seq(Frame)
    BY PipeIsTyped DEF RenameWal, Typed, TypedFiles
  <2>8. valueOf(k) = wal[store[k].off]
    BY <1>5, <2>2, <2>7 DEF valueOf, frameAt
  <2>9. valueOf(k)' = wal'[store[k].off - base]
    <3>1. valueOf(k)' = frameAt(wal', store'[k].off, k)
      BY <2>4 DEF valueOf
    <3>. QED BY <2>2, <2>4, <2>6, <2>7, <3>1 DEF frameAt
  <2>10. Leads(store[k], k)'
    BY <2>2, <2>4, <2>6 DEF Leads
  <2>11. store[k].by = Absent
    BY <1>5 DEF MapInv, OwnRecords, Owned
  <2>. QED BY <2>4, <2>6, <2>8, <2>9, <2>10, <2>11
<1>6. CASE store[k].at = "snapshot" \/ (store[k].at = "wal" /\ ~(store[k].off > base))
  <2>1. world.disk /\ store[k].off \in Nat
    BY <1>3, <1>6 DEF Records
  <2>2. Moves(store[k])
    BY <1>1, <1>6, <2>1 DEF Moves
  <2>3. newSnap[k] = valueOf(k)
    BY <1>1, <2>1, <2>2 DEF MapInv, Copies
  <2>4. valueOf(k) \in Write /\ valueOf(k) # Absent
    <3>1. store[k] # NoRecord
      BY <1>6 DEF NoRecord
    <3>. QED BY <3>1, ValuesAreWrites DEF MapInv
  <2>5. store'[k] = InSnapshot
    BY <1>2, <1>6, <2>3, <2>4 DEF remapped
  <2>6. valueOf(k)' = newSnap[k]
    BY <1>1, <2>5 DEF valueOf, InSnapshot
  <2>7. Leads(store[k], k)'
    BY <1>1, <2>3, <2>4, <2>5 DEF Leads, InSnapshot
  <2>. QED BY <2>3, <2>5, <2>6, <2>7 DEF InSnapshot
<1>. QED BY <1>4, <1>5, <1>6

LEMMA RenameWalKeepsMap ==
  ASSUME Typed, MapInv, RenameWal
  PROVE  MapInv'
<1>1. /\ base \in Nat /\ base <= Len(wal) /\ Len(wal) \in Nat /\ Len(wal') = Len(wal) - base
      /\ \A i \in 1 .. Len(wal) - base : wal'[i] = wal[base + i]
      /\ ToSet(batch) = {} /\ ToSet(queue) = {} /\ pipe = wal /\ pipe' = wal'
      /\ Within(pipe', pipe) /\ fenced \subseteq ToSet(pipe') /\ ToSet(pipe') \subseteq ToSet(pipe)
      /\ snapshot = newSnap /\ synced' = Len(wal') /\ nextOffset' = Len(wal')
      /\ Rejects' = Rejects /\ done' = done /\ phase = "renamed" /\ phase' = "idle" /\ ~sealed'
  BY RotatedFrames
<1>2. UNCHANGED <<snapshot, world, pc, prev, predicted, log, batch, queue>>
  BY RotatedFrames
<1>3. \A k : Contested(k)' = Contested(k)
  BY <1>1 DEF Contested
<1>4. Ordered' /\ Logged'
  BY <1>1, <1>2, WithinTransitive DEF MapInv, Ordered, Logged
<1>5. AckedAreSynced'
  <2>1. ASSUME NEW w \in ToSet(log), pc[w] = "acked" PROVE Lasts(w)'
    <3>1. w \in Write /\ w # Torn /\ Lasts(w)
      BY <2>1, PipeParts, AbsentIsNoWrite DEF MapInv, AckedAreSynced
    <3>2. ASSUME NEW i \in 1 .. synced, wal[i] = w, i <= base PROVE Lasts(w)'
      <4>1. i \in DOMAIN wal /\ i \in Nat
        BY <1>1, <3>2, PipeIsTyped DEF Typed, TypedFiles
      <4>2. ASSUME NEW y \in ToSet(wal'), y # Torn PROVE Before(log, w, y)
        <5>1. PICK j \in 1 .. Len(wal') : wal'[j] = y
          <6>1. wal' \in Seq(Frame)
            BY DEF RenameWal, Typed, TypedFiles
          <6>. QED BY <4>2, <6>1 DEF ToSet
        <5>2. j \in 1 .. Len(wal) - base /\ base + j \in DOMAIN wal /\ wal[base + j] = y /\ i < base + j
          BY <1>1, <3>2, <4>1, <5>1, PipeIsTyped
        <5>3. Before(wal, w, y)
          BY <3>2, <4>1, <5>2 DEF Before
        <5>4. y \in Write
          BY <1>1, <4>2, PipeParts
        <5>. QED BY <1>1, <3>1, <5>3, <5>4 DEF MapInv, Ordered, Within
      <4>. QED BY <1>1, <1>2, <4>2 DEF Lasts
    <3>3. ASSUME NEW i \in 1 .. synced, wal[i] = w, ~(i <= base) PROVE Lasts(w)'
      <4>1. i \in 1 .. Len(wal)
        BY <1>1, <3>3 DEF Typed, TypedFiles
      <4>2. i - base \in 1 .. Len(wal) - base /\ base + (i - base) = i
        BY <1>1, <3>3, <4>1
      <4>3. i - base \in 1 .. synced' /\ wal'[i - base] = w
        BY <1>1, <3>3, <4>2
      <4>. QED BY <4>3 DEF Lasts
    <3>4. CASE \A y \in ToSet(pipe) : y = Torn \/ Before(log, w, y)
      BY <1>1, <1>2, <3>4 DEF Lasts
    <3>. QED BY <3>1, <3>2, <3>3, <3>4 DEF Lasts
  <2>. QED BY <1>2, <2>1 DEF AckedAreSynced
<1>6. ValuesAreExplained'
  BY <1>1, <1>2, <1>3, RemappedValues DEF MapInv, ValuesAreExplained
<1>7. SnapshotIsExplained'
  <2>1. \A w \in ToSet(log) : w \in Write /\ w \in done
    BY <1>1, PipeParts DEF MapInv, Logged, done
  <2>2. ASSUME NEW k \in Key, ~Contested(k)
        PROVE  Explains(log, done, k, snapshot[k], Rejects \union ToSet(pipe'))
    <3>1. Explains(log, Write, k, snapshot[k], Rejects \union fenced)
      BY <1>1, <2>2 DEF MapInv, NewSnapshotIsExplained
    <3>. QED BY <1>1, <2>1, <3>1, ExplainsMore
  <2>. QED BY <1>1, <1>2, <1>3, <2>2 DEF SnapshotIsExplained
<1>8. PrevIsExplained' /\ RecordsLead'
  <2>1. \A w \in Write : \A k : ~MayUndo(w, k)'
    BY <1>1, <1>2 DEF MapInv, Logged, MayUndo
  <2>. QED BY <2>1, RemappedValues DEF PrevIsExplained, RecordsLead
<1>9. OwnRecords'
  <2>1. ASSUME NEW k \in Key, store'[k].by # Absent PROVE Owned(store[k], k)'
    <3>1. store'[k] = store[k]
      BY <2>1, RemappedValues
    <3>. QED BY <1>2, <2>1, <3>1 DEF MapInv, OwnRecords, Owned
  <2>. QED BY <2>1 DEF OwnRecords
<1>10. NewSnapshotIsExplained' /\ Copied' /\ Copies'
  BY <1>1 DEF NewSnapshotIsExplained, Copied, Copies
<1>11. Untorn'
  BY <1>2, WritesTouchKeys DEF RenameWal, forgetTemporaries, noSnapshot, MapInv, Untorn
<1>. QED BY <1>4, <1>5, <1>6, <1>7, <1>8, <1>9, <1>10, <1>11 DEF MapInv

----------------------------------------------------------------------------
(* The power fails and the database is opened again *)

\* What is left of the frames is a prefix, and has what was synced.
LEMMA CrashFrames ==
  ASSUME Typed, MapInv, Crash
  PROVE  /\ wal' \in Seq(Frame) /\ Len(wal') \in Nat /\ pipe' = wal'
         /\ Within(wal', pipe)
         /\ \A i \in 1 .. synced : wal[i] \in ToSet(wal') \/ wal[i] = Torn
         /\ \A x \in ToSet(pipe), y \in ToSet(wal') : x \in ToSet(wal') \/ Before(pipe, y, x)
<1>1. PICK m : Leaves(wal', m)
  BY CrashLeaves
<1>2. /\ m \in 0 .. Len(onDisk) /\ wal' = SubSeq(onDisk, 1, m)
      /\ \A i \in 1 .. synced : i <= m \/ wal[i] = Torn
  BY <1>1 DEF Leaves
<1>3. onDisk \in Seq(Frame) /\ Len(onDisk) \in Nat /\ m \in Nat /\ m <= Len(onDisk)
  BY <1>2, PipeIsTyped
<1>4. wal' \in Seq(Frame) /\ Len(wal') = m /\ \A i \in 1 .. m : wal'[i] = onDisk[i]
  BY <1>2, <1>3, PrefixProperties
<1>5. batch' = << >> /\ queue' = << >>
  BY DEF Crash
<1>6. onDisk' = wal'
  BY <1>4, <1>5, ConcatEmptySeq DEF onDisk
<1>7. pipe' = wal'
  BY <1>4, <1>5, <1>6, ConcatEmptySeq DEF pipe
<1>8. Within(wal', onDisk) /\ Within(onDisk, pipe)
  <2>1. Within(wal', onDisk)
    BY <1>2, <1>3, WithinPart
  <2>. QED BY <2>1, PipeParts DEF Within
<1>9. \A i \in 1 .. synced : wal[i] \in ToSet(wal') \/ wal[i] = Torn
  <2>1. SUFFICES ASSUME NEW i \in 1 .. synced, wal[i] # Torn PROVE wal[i] \in ToSet(wal')
    OBVIOUS
  <2>2. i <= m /\ synced \in Nat /\ synced <= Len(wal) /\ Len(wal) \in Nat
    BY <1>2, <2>1, PipeIsTyped DEF Typed, TypedFiles
  <2>3. i \in 1 .. m /\ i \in 1 .. Len(wal)
    BY <1>3, <2>2
  <2>4. onDisk[i] = wal[i]
    BY <2>3, FilesAndBatch
  <2>5. wal'[i] = wal[i] /\ i \in DOMAIN wal'
    BY <1>4, <2>3, <2>4
  <2>. QED BY <2>5 DEF ToSet
<1>10. \A x \in ToSet(pipe), y \in ToSet(wal') : x \in ToSet(wal') \/ Before(pipe, y, x)
  <2>. DEFINE r == SubSeq(onDisk, m + 1, Len(onDisk))
  <2>1. r \in Seq(Frame)
    BY <1>2, <1>3, SuffixProperties
  <2>2. onDisk = wal' \o r
    <3>1. Len(onDisk) \in Nat /\ 1 \in 1 .. Len(onDisk) + 1 /\ m \in 1 - 1 .. Len(onDisk)
          /\ Len(onDisk) \in m .. Len(onDisk)
      BY <1>2, <1>3
    <3>2. SubSeq(onDisk, 1, m) \o SubSeq(onDisk, m + 1, Len(onDisk)) = SubSeq(onDisk, 1, Len(onDisk))
      BY <1>3, <3>1, ConcatAdjacentSubSeq
    <3>. QED BY <1>2, <1>3, <3>2, SubSeqFull
  <2>. HIDE DEF r
  <2>3. ToSet(onDisk) = ToSet(wal') \union ToSet(r)
    BY <1>4, <2>1, <2>2, ConcatSet
  <2>4. \A x, y : Before(onDisk, x, y) <=> \/ Before(wal', x, y) \/ Before(r, x, y)
                                           \/ x \in ToSet(wal') /\ y \in ToSet(r)
    BY <1>4, <2>1, <2>2, BeforeConcat
  <2>. QED BY <2>3, <2>4, PipeParts
<1>11. Within(wal', pipe)
  BY <1>8, WithinTransitive
<1>. QED BY <1>3, <1>4, <1>7, <1>9, <1>10, <1>11

\* The log keeps what has been answered and what has a frame.
LEMMA CrashLog ==
  ASSUME Typed, MapInv, Crash
  PROVE  /\ \A w \in Write : /\ pc[w] \in {"acked", "rejected", "new", "lost"} => pc'[w] = pc[w]
                             /\ pc[w] \in {"ready", "retry"} => pc'[w] = "lost"
                             /\ pc[w] = "pending" => pc'[w] = IF w \in ToSet(wal') THEN "acked" ELSE "lost"
                             /\ pc'[w] # "pending"
         /\ Rejects' = Rejects /\ done' = Write
         /\ \A x \in ToSet(log') : x \in ToSet(log) /\ pc'[x] \in {"acked", "rejected"}
         /\ \A x \in ToSet(log) : x \in ToSet(log') <=> pc[x] # "pending" \/ x \in ToSet(wal')
         /\ \A x, y : Before(log', x, y) => Before(log, x, y)
         /\ \A x, y \in ToSet(log') : Before(log, x, y) => Before(log', x, y)
         /\ log' = SelectIn(log, {w \in Write : pc'[w] # "lost"}) /\ IsInjective(log')
<1>1. pc' = [w \in Write |->
               IF pc[w] = "pending" /\ w \in ToSet(wal') THEN "acked" ELSE
               IF pc[w] \in {"ready", "retry", "pending"} THEN "lost" ELSE pc[w]]
  BY DEF Crash
<1>2. \A w \in Write : /\ pc[w] \in {"acked", "rejected", "new", "lost"} => pc'[w] = pc[w]
                       /\ pc[w] \in {"ready", "retry"} => pc'[w] = "lost"
                       /\ pc[w] = "pending" => pc'[w] = IF w \in ToSet(wal') THEN "acked" ELSE "lost"
  BY <1>1
<1>3. \A w \in Write : pc[w] \in {"new", "ready", "pending", "retry", "acked", "rejected", "lost"}
  BY DEF Typed, TypedCalls
<1>4. \A w \in Write : pc'[w] # "pending"
  BY <1>2, <1>3
<1>5. Rejects' = Rejects /\ done' = Write
  <2>1. \A w \in Write : pc'[w] = "rejected" <=> pc[w] = "rejected"
    BY <1>2, <1>3
  <2>. QED BY <1>4, <2>1 DEF Rejects, done
<1>. DEFINE keep == {w \in Write : pc'[w] # "lost"}
<1>6. log' = SelectIn(log, keep)
  BY DEF Crash
<1>7. log \in Seq(Write) /\ ToSet(log) \subseteq Write /\ IsInjective(log)
  BY PipeIsTyped, PipeParts DEF MapInv, Ordered
<1>. HIDE DEF keep
<1>8. ToSet(log') = ToSet(log) \intersect keep /\ IsInjective(log')
  BY <1>6, <1>7, SelectSet, SelectInjective
<1>9. \A x, y : Before(log', x, y) => Before(log, x, y)
  BY <1>6, <1>7, SelectOrder
<1>10. \A x \in keep, y \in keep : Before(log, x, y) => Before(log', x, y)
  BY <1>6, <1>7, SelectKeepsOrder
<1>11. \A x \in ToSet(log) : pc[x] \in {"pending", "acked", "rejected"}
  BY DEF MapInv, Logged
<1>12. \A x \in ToSet(log) : x \in keep <=> pc[x] # "pending" \/ x \in ToSet(wal')
  BY <1>2, <1>7, <1>11 DEF keep
<1>13. \A x \in ToSet(log') : x \in ToSet(log) /\ pc'[x] \in {"acked", "rejected"}
  BY <1>2, <1>7, <1>8, <1>11 DEF keep
<1>. QED BY <1>2, <1>4, <1>5, <1>6, <1>8, <1>9, <1>10, <1>12, <1>13 DEF keep

\* An acknowledged write has its frame, or no frame was before it.
LEMMA CrashLasts ==
  ASSUME Typed, MapInv, Crash, NEW w \in ToSet(log), pc[w] = "acked"
  PROVE  \/ w \in ToSet(wal')
         \/ w \notin ToSet(pipe) /\ \A y \in ToSet(pipe) : y = Torn \/ Before(log, w, y)
<1>1. Lasts(w) /\ w # Torn
  BY AbsentIsNoWrite, PipeParts DEF MapInv, AckedAreSynced
<1>2. CASE \E i \in 1 .. synced : wal[i] = w
  BY <1>1, <1>2, CrashFrames
<1>3. CASE \A y \in ToSet(pipe) : y = Torn \/ Before(log, w, y)
  BY <1>1, <1>3, LogIsStrict DEF MapInv
<1>. QED BY <1>1, <1>2, <1>3 DEF Lasts

LEMMA CrashKeepsOrder ==
  ASSUME Typed, MapInv, Crash
  PROVE  Ordered' /\ Logged' /\ AckedAreSynced' /\ SnapshotIsExplained'
<1>1. /\ pipe' = wal' /\ Within(wal', pipe) /\ Len(wal') \in Nat
      /\ \A x \in ToSet(pipe), y \in ToSet(wal') : x \in ToSet(wal') \/ Before(pipe, y, x)
  BY CrashFrames
<1>2. /\ \A w \in Write : pc'[w] # "pending"
      /\ Rejects' = Rejects /\ done' = Write
      /\ \A x \in ToSet(log') : x \in ToSet(log) /\ pc'[x] \in {"acked", "rejected"}
      /\ \A x \in ToSet(log) : x \in ToSet(log') <=> pc[x] # "pending" \/ x \in ToSet(wal')
      /\ IsInjective(log')
      /\ \A x, y \in ToSet(log') : Before(log, x, y) => Before(log', x, y)
  BY CrashLog
<1>3. Within(wal', log)
  BY <1>1, WithinTransitive DEF MapInv, Ordered
<1>4. \A x \in ToSet(wal') : x = Torn \/ x \in ToSet(log')
  BY <1>2, <1>3 DEF Within
<1>5. Within(wal', log')
  <2>1. ASSUME NEW x \in Write, NEW y \in Write, Before(wal', x, y) PROVE Before(log', x, y)
    <3>1. x \in ToSet(wal') /\ y \in ToSet(wal') /\ Before(log, x, y)
      BY <1>3, <2>1, BeforeIsOfElements DEF Within
    <3>. QED BY <1>2, <1>4, <3>1, AbsentIsNoWrite
  <2>. QED BY <1>4, <2>1 DEF Within
<1>6. Ordered'
  BY <1>1, <1>2, <1>5 DEF Ordered
<1>7. Logged'
  <2>1. ToSet(batch') = {} /\ ToSet(queue') = {}
    BY EmptySet DEF Crash
  <2>. QED BY <1>2, <2>1 DEF Logged
<1>8. synced' = Len(wal')
  BY DEF Crash
<1>9. AckedAreSynced'
  <2>1. ASSUME NEW w \in ToSet(log'), pc'[w] = "acked" PROVE Lasts(w)'
    <3>1. CASE w \in ToSet(wal')
      <4>1. \E i \in 1 .. synced' : wal'[i] = w
        <5>1. PICK i \in DOMAIN wal' : wal'[i] = w
          BY <3>1 DEF ToSet
        <5>2. i \in 1 .. Len(wal')
          BY <5>1, CrashFrames
        <5>. QED BY <1>8, <5>1, <5>2
      <4>. QED BY <4>1 DEF Lasts
    <3>2. CASE w \notin ToSet(wal')
      <4>1. w \in ToSet(log) /\ pc[w] # "pending" /\ w \in Write
        BY <1>2, <2>1, <3>2, PipeParts
      <4>2. pc[w] = "acked"
        <5>1. pc[w] \in {"pending", "acked", "rejected"}
          BY <4>1 DEF MapInv, Logged
        <5>2. pc[w] = "rejected" => pc'[w] = pc[w]
          BY <4>1, CrashLog
        <5>. QED BY <2>1, <4>1, <5>1, <5>2
      <4>3. \A y \in ToSet(pipe) : y = Torn \/ Before(log, w, y)
        BY <3>2, <4>1, <4>2, CrashLasts
      <4>4. \A y \in ToSet(wal') : y = Torn \/ Before(log, w, y)
        BY <1>1, <4>3 DEF Within
      <4>5. \A y \in ToSet(wal') : y = Torn \/ Before(log', w, y)
        BY <1>2, <1>4, <2>1, <4>4
      <4>. QED BY <1>1, <4>5 DEF Lasts
    <3>. QED BY <3>1, <3>2
  <2>. QED BY <2>1 DEF AckedAreSynced
<1>10. SnapshotIsExplained'
  <2>. DEFINE keep == {w \in Write : pc'[w] # "lost"}
              rest == Rejects \union ToSet(pipe)
              others == Rejects' \union ToSet(wal')
  <2>1. log' = SelectIn(log, keep) /\ log \in Seq(Write) /\ ToSet(log) \subseteq Write
    BY CrashLog, PipeIsTyped, PipeParts
  <2>2. \A x \in ToSet(log) : x \in done => x \in keep /\ x \in done'
    <3>1. SUFFICES ASSUME NEW x \in ToSet(log), x \in done PROVE x \in keep /\ x \in done'
      OBVIOUS
    <3>2. x \in Write /\ pc[x] \in {"acked", "rejected"}
      BY <2>1, <3>1 DEF done, MapInv, Logged
    <3>3. pc'[x] = pc[x]
      BY <3>2, CrashLog
    <3>. QED BY <1>2, <3>2, <3>3
  <2>3. \A x \in ToSet(log) : x \in rest /\ x \in keep => x \in others
    <3>1. SUFFICES ASSUME NEW x \in ToSet(log), x \in ToSet(pipe), x \in keep, x \notin Rejects
                   PROVE  x \in ToSet(wal')
      BY <1>2
    <3>2. x \in Write /\ pc[x] \in {"pending", "acked"}
      BY <2>1, <3>1 DEF MapInv, Logged, Rejects
    <3>3. CASE pc[x] = "pending"
      BY <3>1, <3>2, <3>3, CrashLog
    <3>4. CASE pc[x] = "acked"
      BY <3>1, <3>4, CrashLasts
    <3>. QED BY <3>2, <3>3, <3>4
  <2>. HIDE DEF keep, rest, others
  <2>4. ASSUME NEW k \in Key, ~Contested(k)'
        PROVE  Explains(log', done', k, snapshot'[k], Rejects' \union ToSet(pipe'))
    <3>1. ~Contested(k) /\ snapshot' = snapshot
      BY <1>2, <2>4 DEF Contested, Crash
    <3>2. Explains(log, done, k, snapshot[k], rest)
      BY <3>1 DEF MapInv, SnapshotIsExplained, rest
    <3>3. Explains(SelectIn(log, keep), done', k, snapshot[k], others)
      BY <2>1, <2>2, <2>3, <3>2, ExplainsKept
    <3>. QED BY <1>1, <2>1, <3>1, <3>3 DEF others
  <2>. QED BY <2>4 DEF SnapshotIsExplained
<1>. QED BY <1>6, <1>7, <1>9, <1>10

\* The recovered store has the last write that is left, or what the snapshot has.
LEMMA RecoveredValues ==
  ASSUME Typed, MapInv, Crash, NEW k \in Key
  PROVE  /\ store'[k].by = Absent
         /\ Leads(store[k], k)'
         /\ ~Contested(k)' => Explains(log', Write, k, valueOf(k)', Rejects')
<1>1. /\ store'[k] = Recovered(snapshot, wal')[k] /\ openSnap' = snapshot /\ snapshot' = snapshot
      /\ world' = world /\ synced' = Len(wal')
  BY DEF Crash
<1>2. wal' \in Seq(Frame) /\ Len(wal') \in Nat /\ pipe' = wal'
  BY CrashFrames
<1>3. Ordered' /\ AckedAreSynced' /\ SnapshotIsExplained'
  BY CrashKeepsOrder
<1>4. Absent \notin Write /\ Torn \notin Write
  BY AbsentIsNoWrite
<1>5. CASE /\ Of(wal', k) = {}
           /\ store'[k] = IF snapshot[k] = Absent THEN NoRecord ELSE
                          IF world.disk THEN InSnapshot ELSE InMemory(snapshot[k], Absent)
  <2>1. valueOf(k)' = snapshot[k]
    BY <1>1, <1>5 DEF valueOf, NoRecord, InSnapshot, InMemory
  <2>2. ASSUME ~Contested(k)' PROVE Explains(log', Write, k, valueOf(k)', Rejects')
    <3>. DEFINE rest == Rejects' \union ToSet(wal')
                others == Rejects'
    <3>1. Explains(log', done', k, snapshot[k], rest)
      BY <1>1, <1>2, <1>3, <2>2 DEF SnapshotIsExplained
    <3>2. \A x \in ToSet(log') : x \in done' => x \in Write
      BY CrashLog
    <3>3. \A x \in ToSet(log') : x \in rest /\ k \in Touches(x) => x \in others
      <4>1. SUFFICES ASSUME NEW x \in ToSet(log'), x \in ToSet(wal'), k \in Touches(x) PROVE FALSE
        OBVIOUS
      <4>2. x \in Write
        BY <4>1, CrashLog, PipeParts
      <4>3. PICK i \in DOMAIN wal' : wal'[i] = x
        BY <4>1 DEF ToSet
      <4>4. i \in Of(wal', k)
        BY <4>1, <4>2, <4>3 DEF Of
      <4>. QED BY <1>5, <4>4
    <3>. HIDE DEF rest, others
    <3>4. Explains(log', Write, k, snapshot[k], others)
      BY <3>1, <3>2, <3>3, ExplainsMore
    <3>. QED BY <2>1, <3>4 DEF others
  <2>3. snapshot[k] \in Write \union {Absent}
    BY DEF Typed, TypedFiles, Kept, MapInv, Untorn
  <2>4. store'[k].by = Absent /\ Leads(store[k], k)'
    BY <1>1, <1>5, <2>3 DEF Leads, NoRecord, InSnapshot, InMemory
  <2>. QED BY <2>2, <2>4
<1>6. ASSUME NEW m \in Of(wal', k), \A i \in Of(wal', k) : i <= m,
             store'[k] = IF k \in Dels[wal'[m]] THEN NoRecord ELSE
                         IF world.disk THEN InWal(m) ELSE InMemory(wal'[m], Absent)
      PROVE  /\ store'[k].by = Absent
             /\ Leads(store[k], k)'
             /\ ~Contested(k)' => Explains(log', Write, k, valueOf(k)', Rejects')
  <2>. DEFINE x == wal'[m]
  <2>1. m \in 1 .. Len(wal') /\ m \in DOMAIN wal' /\ x \in Write /\ k \in Touches(x) /\ x \in ToSet(wal')
    BY <1>2, <1>6 DEF Of, ToSet
  <2>2. k \in Dels[x] <=> k \notin Puts[x]
    BY <2>1, WritesTouchKeys DEF Touches
  <2>3. valueOf(k)' = EffectOn(x, k)
    <3>1. CASE k \in Dels[x]
      BY <1>6, <2>2, <3>1 DEF valueOf, NoRecord, EffectOn
    <3>2. CASE k \notin Dels[x] /\ world.disk
      <4>1. store'[k] = InWal(m)
        BY <1>6, <3>2
      <4>2. frameAt(wal', m, k) = x
        BY <2>1, <2>2, <3>2 DEF frameAt
      <4>. QED BY <2>2, <3>2, <4>1, <4>2 DEF valueOf, InWal, EffectOn
    <3>3. CASE k \notin Dels[x] /\ ~world.disk
      BY <1>6, <2>2, <3>3 DEF valueOf, InMemory, EffectOn
    <3>. QED BY <3>1, <3>2, <3>3
  <2>4. store'[k].by = Absent
    BY <1>6 DEF NoRecord, InWal, InMemory
  <2>5. Leads(store[k], k)'
    <3>1. CASE k \in Dels[x]
      BY <1>6, <3>1 DEF Leads, NoRecord
    <3>2. CASE k \notin Dels[x] /\ world.disk
      <4>1. store'[k] = InWal(m)
        BY <1>6, <3>2
      <4>. QED BY <2>1, <2>2, <3>2, <4>1 DEF Leads, InWal
    <3>3. CASE k \notin Dels[x] /\ ~world.disk
      BY <1>6, <2>1, <3>3 DEF Leads, InMemory
    <3>. QED BY <3>1, <3>2, <3>3
  <2>6. x \in ToSet(log')
    BY <1>2, <1>3, <1>4, <2>1 DEF Ordered, Within
  <2>7. ASSUME NEW y \in ToSet(log'), Before(log', x, y), k \in Touches(y) PROVE y \in Rejects'
    <3>1. y \in Write /\ pc'[y] \in {"acked", "rejected"}
      BY <2>7, CrashLog, PipeParts
    <3>2. ~Before(log', y, x) /\ x # y
      BY <2>7, CrashLog, LogIsStrict DEF MapInv
    <3>3. ASSUME pc'[y] = "acked" PROVE FALSE
      <4>1. Lasts(y)'
        BY <1>3, <2>7, <3>3 DEF AckedAreSynced
      <4>2. ASSUME NEW i \in 1 .. synced', wal'[i] = y PROVE FALSE
        <5>1. i \in 1 .. Len(wal') /\ i \in DOMAIN wal'
          BY <1>1, <1>2, <4>2
        <5>2. i \in Of(wal', k)
          BY <2>7, <3>1, <4>2, <5>1 DEF Of
        <5>3. i <= m /\ i # m
          BY <1>6, <3>2, <4>2, <5>2
        <5>4. i < m
          BY <2>1, <5>1, <5>3
        <5>5. Before(wal', y, x)
          BY <2>1, <4>2, <5>1, <5>4 DEF Before
        <5>6. Before(log', y, x)
          BY <1>2, <1>3, <2>1, <3>1, <5>5 DEF Ordered, Within
        <5>. QED BY <3>2, <5>6
      <4>3. CASE \A z \in ToSet(pipe') : z = Torn \/ Before(log', y, z)
        BY <1>2, <1>4, <2>1, <3>2, <4>3
      <4>. QED BY <4>1, <4>2, <4>3 DEF Lasts
    <3>. QED BY <3>1, <3>3 DEF Rejects
  <2>. HIDE DEF x
  <2>8. Explains(log', Write, k, valueOf(k)', Rejects')
    BY <2>1, <2>3, <2>6, <2>7 DEF Explains
  <2>. QED BY <2>4, <2>5, <2>8
<1>. QED BY <1>1, <1>2, <1>5, <1>6, RecoveredRecord

LEMMA CrashKeepsMap ==
  ASSUME Typed, MapInv, Crash
  PROVE  MapInv'
<1>1. Ordered' /\ Logged' /\ AckedAreSynced' /\ SnapshotIsExplained'
  BY CrashKeepsOrder
<1>2. /\ pipe' = wal' /\ Len(wal') \in Nat /\ Rejects' = Rejects
      /\ \A w \in Write : pc'[w] # "pending"
  BY CrashFrames, CrashLog
<1>3. /\ phase' = "idle" /\ sealed' = FALSE /\ world' = world /\ nextOffset' = Len(wal')
  BY DEF Crash
<1>4. ValuesAreExplained'
  BY RecoveredValues DEF ValuesAreExplained
<1>5. NewSnapshotIsExplained' /\ Copied' /\ Copies'
  BY <1>3 DEF NewSnapshotIsExplained, Copied, Copies
<1>6. PrevIsExplained' /\ RecordsLead' /\ OwnRecords'
  <2>1. \A w \in Write : \A k : ~MayUndo(w, k)'
    BY <1>2 DEF MayUndo
  <2>. QED BY <2>1, RecoveredValues DEF PrevIsExplained, RecordsLead, OwnRecords
<1>7. Untorn'
  BY WritesTouchKeys DEF Crash, forgetTemporaries, noSnapshot, MapInv, Untorn
<1>. QED BY <1>1, <1>4, <1>5, <1>6, <1>7 DEF MapInv

----------------------------------------------------------------------------
(* The map is explained by the log *)

\* What is asked of the storage with the values on disk; nothing is asked of it with the
\* values in memory.
PlacesHold == LandsAsPredicted /\ FailsBetweenCompactions

LEMMA NextKeepsMap == Typed /\ MapInv /\ [Next]_vars /\ [PlacesHold]_vars => MapInv'
<1> SUFFICES ASSUME Typed, MapInv, [Next]_vars, [PlacesHold]_vars PROVE MapInv'
  OBVIOUS
<1>0. (BatchLands => LandsAsPredicted) /\ (BatchFails => FailsBetweenCompactions)
  <2>1. BatchLands \/ BatchFails => vars' # vars
    BY DEF BatchLands, BatchFails, vars, walVars
  <2>. QED BY <2>1 DEF PlacesHold, LandsAsPredicted, FailsBetweenCompactions
<1>1. ASSUME NEW w \in Write, PassGate(w) PROVE MapInv'
  BY <1>1, PassGateKeepsMap
<1>2. ASSUME NEW w \in Write, Commit(w) PROVE MapInv'
  <2>1. pc[w] \in {"ready", "retry"}
    BY <1>2 DEF Commit
  <2>2. CASE ~sealed /\ Append1(w)
    BY <1>2, <2>1, <2>2, AppendKeepsMap
  <2>3. CASE sealed /\ AppendToSealed(w)
    BY <1>2, <2>1, <2>3, SealedKeepsMap
  <2>. QED BY <1>2, <2>2, <2>3 DEF Commit
<1>3. CASE FlushBatch
  BY <1>3, FlushBatchKeepsMap
<1>4. CASE BatchLands
  BY <1>4, <1>0, BatchLandsKeepsMap
<1>5. CASE BatchFails
  BY <1>5, <1>0, BatchFailsKeepsMap
<1>6. CASE BeginCompaction
  BY <1>6, BeginCompactionKeepsMap
<1>7. CASE (\E k \in Key : SnapshotKey(k)) \/ SnapshotDone
  BY <1>7, SnapshotKeepsMap
<1>8. CASE PreCopy \/ BeginRotation \/ Drain
  BY <1>8, CopyingKeepsMap
<1>9. CASE RenameSnapshot
  BY <1>9, RenameSnapshotKeepsMap
<1>10. CASE RenameWal
  BY <1>10, RenameWalKeepsMap
<1>11. CASE CompactionFails
  BY <1>11, CompactionFailsKeepsMap
<1>12. CASE Crash
  BY <1>12, CrashKeepsMap
<1>13. CASE UNCHANGED vars
  <2>1. /\ UNCHANGED <<wal, batch, queue, log, store, openSnap, pc, prev, world, nextOffset, predicted>>
        /\ UNCHANGED <<snapshot, newSnap, base, visited, copied, newWal, phase, sealed, rotateLock, synced>>
    BY <1>13 DEF vars, fileVars, walVars, callVars, compactVars
  <2>2. Rests
    <3>1. synced \in 0 .. Len(wal) /\ Len(wal) \in Nat
      BY DEF Typed, TypedFiles
    <3>. QED BY <2>1, <3>1 DEF Rests
  <2>3. Copied'
    <3>1. Copied /\ Quiet' = Quiet
      BY <2>1 DEF MapInv, Quiet
    <3>. QED BY <2>1, <3>1 DEF Copied
  <2>4. Untorn'
    BY <2>1 DEF MapInv, Untorn
  <2>. QED BY <2>1, <2>2, <2>3, <2>4, RestsKeepsMap, RestsKeepsSnapshots DEF MapInv
<1>. QED BY <1>1, <1>2, <1>3, <1>4, <1>5, <1>6, <1>7, <1>8, <1>9, <1>10, <1>11, <1>12, <1>13 DEF Next

----------------------------------------------------------------------------
(* The promise: initial states, and steps that change nothing of it *)

LEMMA Outcomes ==
  ASSUME NEW w \in Write
  PROVE  /\ outcome[w] = IF pc[w] \in {"new", "ready", "retry"} THEN "none" ELSE pc[w]
         /\ outcome'[w] = IF pc'[w] \in {"new", "ready", "retry"} THEN "none" ELSE pc'[w]
  BY DEF outcome

LEMMA InitPromise == Init => Promise!Init
<1> SUFFICES ASSUME Init PROVE Promise!Init
  OBVIOUS
<1>1. \A k \in Key : valueOf(k) = Absent
  BY DEF Init, NoRecord, valueOf
<1>2. \A w \in Write : outcome[w] = "none"
  BY Outcomes DEF Init
<1>3. outcome = [w \in Write |-> outcome[w]]
  BY DEF outcome
<1>4. outcome = [w \in Write |-> "none"]
  BY <1>2, <1>3
<1>. QED BY <1>1, <1>4 DEF Init, Promise!Init

\* The values, the log and the outcomes stay.
LEMMA NothingPromised ==
  ASSUME \A k \in Key : valueOf(k)' = valueOf(k),
         log' = log, \A w \in Write : outcome'[w] = outcome[w]
  PROVE  UNCHANGED Promise!vars
<1>1. outcome = [w \in Write |-> outcome[w]] /\ outcome' = [w \in Write |-> outcome'[w]]
  BY DEF outcome
<1>2. outcome' = outcome
  BY <1>1
<1>. QED BY <1>2 DEF Promise!vars

LEMMA RestsPromises ==
  ASSUME Rests
  PROVE  UNCHANGED Promise!vars
<1>1. UNCHANGED <<log, pc>> /\ \A k \in Key : valueOf(k)' = valueOf(k)
  BY RestsKeepsTerms DEF Rests
<1>2. \A w \in Write : outcome'[w] = outcome[w]
  BY <1>1, Outcomes
<1>. QED BY <1>1, <1>2, NothingPromised

\* A record that leads somewhere has a value, and what is explained is no torn frame.
LEMMA ValuesAreWritesThen ==
  (Typed /\ MapInv)' => (\A k \in Key : valueOf(k) \in Write \union {Absent})'
<1>1. Typed /\ MapInv => \A k \in Key : valueOf(k) \in Write \union {Absent}
  BY ValuesAreWrites DEF MapInv
<1>. QED BY <1>1, PTL

\* By their places in the log.
LEMMA ExplainsByPlaces ==
  ASSUME NEW l \in Seq(Write), NEW k, NEW v, NEW rest, Explains(l, Write, k, v, rest)
  PROVE  \/ \E i \in DOMAIN l :
              /\ k \in Touches(l[i]) /\ v = EffectOn(l[i], k)
              /\ \A j \in DOMAIN l : j > i /\ k \in Touches(l[j]) => l[j] \in rest
         \/ v = Absent /\ \A i \in DOMAIN l : k \in Touches(l[i]) => l[i] \in rest
<1>1. CASE v = Absent /\ \A y \in ToSet(l) : k \in Touches(y) => y \in rest
  BY <1>1 DEF ToSet
<1>2. ASSUME NEW x \in ToSet(l), k \in Touches(x), v = EffectOn(x, k),
             \A y \in ToSet(l) : Before(l, x, y) /\ k \in Touches(y) => y \in rest
      PROVE  \E i \in DOMAIN l :
               /\ k \in Touches(l[i]) /\ v = EffectOn(l[i], k)
               /\ \A j \in DOMAIN l : j > i /\ k \in Touches(l[j]) => l[j] \in rest
  <2>1. PICK i \in DOMAIN l : l[i] = x
    BY DEF ToSet
  <2>2. ASSUME NEW j \in DOMAIN l, j > i, k \in Touches(l[j]) PROVE l[j] \in rest
    <3>1. l[j] \in ToSet(l) /\ i < j
      BY <2>2 DEF ToSet
    <3>2. Before(l, x, l[j])
      BY <2>1, <3>1 DEF Before
    <3>. QED BY <1>2, <2>2, <3>1, <3>2
  <2>. QED BY <1>2, <2>1, <2>2
<1>. QED BY <1>1, <1>2 DEF Explains

LEMMA MapIsExplainedThen ==
  ASSUME Typed', MapInv'
  PROVE  Promise!MapIsExplained'
<1>1. ASSUME NEW k \in Key PROVE Promise!Disputed(k)' \/ Promise!Explained(k, valueOf(k))'
  <2>1. \A w \in Write : w \in Rejects' => Promise!Rejected(w)'
    BY Outcomes DEF Rejects, Promise!Rejected
  <2>2. CASE Contested(k)'
    BY <2>1, <2>2 DEF Contested, Promise!Disputed, Rejects
  <2>3. CASE ~Contested(k)'
    <3>1. Explains(log', Write, k, valueOf(k)', Rejects') /\ log' \in Seq(Write)
      BY <2>3 DEF MapInv, ValuesAreExplained, Typed, TypedLog
    <3>2. \A i \in DOMAIN log' : log'[i] \in Write
      BY <3>1
    <3>3. CASE \E i \in DOMAIN log' :
                 /\ k \in Touches(log'[i]) /\ valueOf(k)' = EffectOn(log'[i], k)
                 /\ \A j \in DOMAIN log' : j > i /\ k \in Touches(log'[j]) => log'[j] \in Rejects'
      <4>1. PICK i \in DOMAIN log' :
                 /\ k \in Touches(log'[i]) /\ valueOf(k)' = EffectOn(log'[i], k)
                 /\ \A j \in DOMAIN log' : j > i /\ k \in Touches(log'[j]) => log'[j] \in Rejects'
        BY <3>3
      <4>2. \A j \in DOMAIN log' : j > i /\ k \in Touches(log'[j]) => Promise!Rejected(log[j])'
        BY <2>1, <3>2, <4>1
      <4>. QED BY <4>1, <4>2 DEF Promise!Explained, Promise!Touches, Promise!Effect, Touches, EffectOn
    <3>4. CASE valueOf(k)' = Absent /\ \A i \in DOMAIN log' : k \in Touches(log'[i]) => log'[i] \in Rejects'
      <4>1. \A i \in DOMAIN log' : k \in Touches(log'[i]) => Promise!Rejected(log[i])'
        BY <2>1, <3>2, <3>4
      <4>. QED BY <3>4, <4>1 DEF Promise!Explained, Promise!Touches, Touches
    <3>. QED BY <3>1, <3>3, <3>4, ExplainsByPlaces
  <2>. QED BY <2>2, <2>3
<1>. QED BY <1>1 DEF Promise!MapIsExplained

----------------------------------------------------------------------------
(* The promise: the steps that it knows of *)

\* A delete that finds nothing is answered; another call has not been logged yet.
LEMMA PassGatePromises ==
  ASSUME Typed, NEW w \in Write, PassGate(w)
  PROVE  Promise!Next \/ UNCHANGED Promise!vars
<1>1. pc[w] = "new" /\ UNCHANGED <<wal, openSnap, store, log>>
  BY DEF PassGate, fileVars
<1>2. \A k \in Key : valueOf(k)' = valueOf(k)
  BY <1>1, ValueStays
<1>3. pc \in [Write -> {"new", "ready", "pending", "retry", "acked", "rejected", "lost"}]
  BY DEF Typed, TypedCalls
<1>4. CASE pc' = [pc EXCEPT ![w] = "acked"] /\ \A k \in Dels[w] : ~present(store, k)
  <2>1. \A k \in Dels[w] : k \in Key /\ valueOf(k) = Absent
    BY <1>4, WritesTouchKeys DEF present, NoRecord, valueOf
  <2>2. outcome[w] = "none" /\ \A x \in Write : outcome'[x] = IF x = w THEN "acked" ELSE outcome[x]
    BY <1>1, <1>3, <1>4, Outcomes
  <2>3. outcome' = [outcome EXCEPT ![w] = "acked"]
    <3>1. outcome = [x \in Write |-> outcome[x]] /\ outcome' = [x \in Write |-> outcome'[x]]
      BY DEF outcome
    <3>. QED BY <2>2, <3>1
  <2>4. Promise!Nothing(w)
    BY <1>1, <1>2, <2>1, <2>2, <2>3 DEF Promise!Nothing
  <2>. QED BY <2>4 DEF Promise!Next
<1>5. CASE pc' = [pc EXCEPT ![w] = "ready"]
  <2>1. \A x \in Write : outcome'[x] = outcome[x]
    BY <1>1, <1>3, <1>5, Outcomes
  <2>. QED BY <1>1, <1>2, <2>1, NothingPromised
<1>. QED BY <1>4, <1>5 DEF PassGate

LEMMA AppendPromises ==
  ASSUME Typed, MapInv, NEW w \in Write, Commit(w), ~sealed, Append1(w)
  PROVE  Promise!Next
<1>1. pc[w] \in {"ready", "retry"} /\ log' = Append(log, w) /\ pc' = [pc EXCEPT ![w] = "pending"]
  BY AppendedFrames
<1>2. pc \in [Write -> {"new", "ready", "pending", "retry", "acked", "rejected", "lost"}]
  BY DEF Typed, TypedCalls
<1>3. outcome[w] = "none" /\ \A x \in Write : outcome'[x] = IF x = w THEN "pending" ELSE outcome[x]
  BY <1>1, <1>2, Outcomes
<1>4. outcome' = [outcome EXCEPT ![w] = "pending"]
  <2>1. outcome = [x \in Write |-> outcome[x]] /\ outcome' = [x \in Write |-> outcome'[x]]
    BY DEF outcome
  <2>. QED BY <1>3, <2>1
<1>5. \A k \in Key : valueOf(k)' = IF k \in Promise!Touches(w) THEN Promise!Effect(w, k) ELSE valueOf(k)
  BY WrittenValue DEF Touches, EffectOn, Promise!Touches, Promise!Effect
<1>6. Promise!Log(w)
  BY <1>1, <1>3, <1>4, <1>5 DEF Promise!Log
<1>. QED BY <1>6 DEF Promise!Next

LEMMA SealedPromises ==
  ASSUME Typed, MapInv, NEW w \in Write, Commit(w), sealed, AppendToSealed(w)
  PROVE  UNCHANGED Promise!vars
<1>1. /\ pc[w] = "ready" /\ pc' = [pc EXCEPT ![w] = "retry"]
      /\ UNCHANGED <<wal, openSnap, log>>
  BY SealedLeavesValues
<1>2. \A k \in Key : valueOf(k)' = valueOf(k)
  BY <1>1, SealedLeavesValues, ValueStays
<1>3. \A x \in Write : outcome'[x] = outcome[x]
  BY <1>1, Outcomes DEF Typed, TypedCalls
<1>. QED BY <1>1, <1>2, <1>3, NothingPromised

LEMMA FlushPromises ==
  ASSUME FlushBatch
  PROVE  UNCHANGED Promise!vars
<1>1. UNCHANGED <<wal, openSnap, store, log, pc>>
  BY DEF FlushBatch, fileVars, callVars
<1>2. \A k \in Key : valueOf(k)' = valueOf(k)
  BY <1>1, ValueStays
<1>3. \A x \in Write : outcome'[x] = outcome[x]
  BY <1>1, Outcomes
<1>. QED BY <1>1, <1>2, <1>3, NothingPromised

LEMMA RenameWalPromises ==
  ASSUME Typed, MapInv, RenameWal
  PROVE  UNCHANGED Promise!vars
<1>1. UNCHANGED <<log, pc>>
  BY RotatedFrames
<1>2. \A k \in Key : valueOf(k)' = valueOf(k)
  BY RemappedValues
<1>3. \A x \in Write : outcome'[x] = outcome[x]
  BY <1>1, Outcomes
<1>. QED BY <1>1, <1>2, <1>3, NothingPromised

\* The calls of a batch are answered together.
LEMMA BatchLandsPromises ==
  ASSUME Typed, MapInv, BatchLands, LandsAsPredicted
  PROVE  Promise!Next
<1>1. /\ \A w \in Write : pc'[w] = IF w \in ToSet(batch) THEN "acked" ELSE pc[w]
      /\ log' = log
  BY LandedFrames
<1>2. ToSet(batch) \subseteq Write /\ \A w \in ToSet(batch) : pc[w] = "pending"
  BY PipeParts DEF MapInv, Logged
<1>3. ToSet(batch) \in SUBSET {w \in Write : outcome[w] = "pending"}
  BY <1>2, Outcomes
<1>4. outcome' = [w \in Write |-> IF w \in ToSet(batch) THEN "acked" ELSE outcome[w]]
  <2>1. \A w \in Write : outcome'[w] = IF w \in ToSet(batch) THEN "acked" ELSE outcome[w]
    BY <1>1, Outcomes
  <2>2. outcome' = [w \in Write |-> outcome'[w]]
    BY DEF outcome
  <2>. QED BY <2>1, <2>2
<1>5. \A k \in Key : valueOf(k)' = valueOf(k)
  BY LandedValues
<1>6. Promise!Acknowledge
  BY <1>1, <1>3, <1>4, <1>5 DEF Promise!Acknowledge
<1>. QED BY <1>6 DEF Promise!Next

\* They are rejected together, and only their keys are rolled back.
LEMMA BatchFailsPromises ==
  ASSUME Typed, MapInv, BatchFails, Typed', MapInv'
  PROVE  Promise!Next
<1>. DEFINE ws == ToSet(batch)
<1>1. /\ \A w \in Write : pc'[w] = IF w \in ws THEN "rejected" ELSE pc[w]
      /\ log' = log
  BY FailedFrames
<1>2. ws \subseteq Write /\ \A w \in ws : pc[w] = "pending"
  BY PipeParts DEF MapInv, Logged
<1>3. ws \in SUBSET {w \in Write : outcome[w] = "pending"}
  BY <1>2, Outcomes
<1>4. outcome' = [w \in Write |-> IF w \in ws THEN "rejected" ELSE outcome[w]]
  <2>1. \A w \in Write : outcome'[w] = IF w \in ws THEN "rejected" ELSE outcome[w]
    BY <1>1, Outcomes
  <2>2. outcome' = [w \in Write |-> outcome'[w]]
    BY DEF outcome
  <2>. QED BY <2>1, <2>2
<1>5. [k \in Key |-> valueOf(k)'] \in [Key -> Write \union {Absent}]
  BY ValuesAreWritesThen
<1>6. ASSUME NEW k \in Key, \A w \in ws : k \notin Touches(w)
      PROVE  valueOf(k)' = valueOf(k)
  <2>1. store'[k] = store[k]
    BY <1>6, BatchIsUndone DEF BatchFails, setStore, Undo, Undone
  <2>. QED BY <2>1, UndoneValues
<1>7. Promise!MapIsExplained'
  BY MapIsExplainedThen
<1>. HIDE DEF ws
<1>8. Promise!Reject
  BY <1>1, <1>3, <1>4, <1>5, <1>6, <1>7 DEF Promise!Reject, Promise!Touches, Touches
<1>. QED BY <1>8 DEF Promise!Next

LEMMA SelectsAlike == \A s, keep : Promise!SelectIn(s, keep) = SelectIn(s, keep)
  BY DEF SelectIn, Promise!SelectIn

\* Of the writes that were pending a prefix is left.
LEMMA CrashPromises ==
  ASSUME Typed, MapInv, Crash, Typed', MapInv'
  PROVE  Promise!Next
<1>. DEFINE kept == {w \in Write : pc[w] = "pending" /\ w \in ToSet(wal')}
            lost == {w \in Write : \/ pc[w] \in {"ready", "retry"}
                                   \/ pc[w] = "pending" /\ w \notin ToSet(wal')}
<1>1. /\ \A w \in Write : /\ pc[w] \in {"acked", "rejected", "new", "lost"} => pc'[w] = pc[w]
                          /\ pc[w] \in {"ready", "retry"} => pc'[w] = "lost"
                          /\ pc[w] = "pending" => pc'[w] = IF w \in ToSet(wal') THEN "acked" ELSE "lost"
      /\ log' = SelectIn(log, {w \in Write : pc'[w] # "lost"})
  BY CrashLog
<1>2. \A w \in Write : pc[w] \in {"new", "ready", "pending", "retry", "acked", "rejected", "lost"}
  BY DEF Typed, TypedCalls
<1>3. log \in Seq(Write) /\ ToSet(log) \subseteq Write
  BY PipeIsTyped, PipeParts
<1>4. kept \in SUBSET {w \in Write : outcome[w] = "pending"}
  BY Outcomes
<1>5. lost \in SUBSET {w \in Write : outcome[w] \in {"none", "pending"}}
  BY Outcomes
<1>6. ASSUME NEW i \in DOMAIN log, NEW j \in DOMAIN log, i < j, log[j] \in kept, outcome[log[i]] = "pending"
      PROVE  log[i] \in kept
  <2>. DEFINE x == log[i]
              y == log[j]
  <2>1. x \in Write /\ y \in Write /\ Before(log, x, y)
    BY <1>3, <1>6 DEF Before
  <2>2. y \in ToSet(wal')
    BY <1>6
  <2>. HIDE DEF x, y
  <2>3. outcome[x] = "pending"
    BY <1>6 DEF x
  <2>4. pc[x] = "pending"
    BY <2>1, <2>3, Outcomes
  <2>5. x \in ToSet(pipe)
    BY <2>1, <2>4, PipeParts DEF MapInv, Logged
  <2>6. ~Before(pipe, y, x)
    BY <2>1, LogIsStrict DEF MapInv, Ordered, Within
  <2>7. x \in ToSet(wal')
    BY <2>2, <2>5, <2>6, CrashFrames
  <2>8. x \in kept
    BY <2>1, <2>4, <2>7
  <2>. QED BY <2>8 DEF x
<1>7. \A w \in Write : outcome[w] = "pending" => (w \in lost <=> w \notin kept)
  BY Outcomes
<1>8. outcome' = [w \in Write |-> IF w \in lost THEN "lost" ELSE IF w \in kept THEN "acked" ELSE outcome[w]]
  <2>1. ASSUME NEW w \in Write
        PROVE  outcome'[w] = IF w \in lost THEN "lost" ELSE IF w \in kept THEN "acked" ELSE outcome[w]
    <3>1. CASE pc[w] \in {"acked", "rejected", "new", "lost"}
      BY <1>1, <3>1, Outcomes
    <3>2. CASE pc[w] \in {"ready", "retry"}
      BY <1>1, <3>2, Outcomes
    <3>3. CASE pc[w] = "pending"
      BY <1>1, <3>3, Outcomes
    <3>. QED BY <1>2, <3>1, <3>2, <3>3
  <2>2. outcome' = [w \in Write |-> outcome'[w]]
    BY DEF outcome
  <2>. QED BY <2>1, <2>2
<1>9. log' = SelectIn(log, Write \ lost)
  <2>. DEFINE keep == {w \in Write : pc'[w] # "lost"}
              stay == Write \ lost
  <2>1. ASSUME NEW x \in ToSet(log) PROVE x \in keep <=> x \in stay
    <3>1. x \in Write /\ pc[x] \in {"pending", "acked", "rejected"}
      BY <1>3 DEF MapInv, Logged
    <3>. QED BY <1>1, <3>1
  <2>2. log' = SelectIn(log, keep)
    BY <1>1
  <2>. HIDE DEF keep, stay
  <2>3. SelectIn(log, keep) = SelectIn(log, stay)
    BY <1>3, <2>1, SelectSame
  <2>. QED BY <2>2, <2>3 DEF stay
<1>. HIDE DEF kept, lost
<1>10. [k \in Key |-> valueOf(k)'] \in [Key -> Write \union {Absent}]
  <2>1. \A k \in Key : valueOf(k)' \in Write \union {Absent}
    BY ValuesAreWritesThen
  <2>. QED BY <2>1
<1>11. Promise!MapIsExplained'
  BY MapIsExplainedThen
<1>12. log' = Promise!SelectIn(log, Write \ lost)
  BY <1>9, SelectsAlike
<1>13. Promise!Crash
  BY <1>4, <1>5, <1>6, <1>7, <1>8, <1>10, <1>11, <1>12 DEF Promise!Crash
<1>. QED BY <1>13 DEF Promise!Next

LEMMA NextPromises ==
  Typed /\ MapInv /\ [Next]_vars /\ [PlacesHold]_vars /\ Typed' /\ MapInv' => [Promise!Next]_(Promise!vars)
<1> SUFFICES ASSUME Typed, MapInv, [Next]_vars, [PlacesHold]_vars, Typed', MapInv'
             PROVE  Promise!Next \/ UNCHANGED Promise!vars
  OBVIOUS
<1>1. ASSUME NEW w \in Write, PassGate(w) PROVE Promise!Next \/ UNCHANGED Promise!vars
  BY <1>1, PassGatePromises
<1>2. ASSUME NEW w \in Write, Commit(w) PROVE Promise!Next \/ UNCHANGED Promise!vars
  <2>1. CASE ~sealed /\ Append1(w)
    BY <1>2, <2>1, AppendPromises
  <2>2. CASE sealed /\ AppendToSealed(w)
    BY <1>2, <2>2, SealedPromises
  <2>. QED BY <1>2, <2>1, <2>2 DEF Commit
<1>3. CASE FlushBatch
  BY <1>3, FlushPromises
<1>4. CASE BatchLands
  <2>1. vars' # vars
    BY <1>4 DEF BatchLands, vars, walVars
  <2>. QED BY <1>4, <2>1, BatchLandsPromises DEF PlacesHold
<1>5. CASE BatchFails
  BY <1>5, BatchFailsPromises
<1>6. CASE BeginCompaction \/ (\E k \in Key : SnapshotKey(k)) \/ SnapshotDone \/ PreCopy \/ BeginRotation
             \/ Drain \/ RenameSnapshot \/ CompactionFails
  BY <1>6, CompactionRests, RestsPromises
<1>7. CASE RenameWal
  BY <1>7, RenameWalPromises
<1>8. CASE Crash
  BY <1>8, CrashPromises
<1>9. CASE UNCHANGED vars
  <2>1. UNCHANGED <<wal, openSnap, store, log, pc>>
    BY <1>9 DEF vars, fileVars, callVars
  <2>2. \A k \in Key : valueOf(k)' = valueOf(k)
    BY <2>1, ValueStays
  <2>3. \A w \in Write : outcome'[w] = outcome[w]
    BY <2>1, Outcomes
  <2>. QED BY <2>1, <2>2, <2>3, NothingPromised
<1>. QED BY <1>1, <1>2, <1>3, <1>4, <1>5, <1>6, <1>7, <1>8, <1>9 DEF Next

\* What is read is explained by the writes, an acknowledged one survives a crash at any
\* point, and no compaction or rotation changes what is read (applyOp, restoreKey,
\* runCompaction, recover): with the values in memory whatever the storage does, and with
\* the values on disk as long as a frame comes to the place that appendLoc promised and
\* no write to the log fails while a compaction runs.
THEOREM MapIsDurable == Spec /\ [][PlacesHold]_vars => RefinesDurableMap
<1>1. Init => Typed /\ MapInv /\ Promise!Init
  BY InitTypes, InitMap, InitPromise
<1>2. Typed /\ MapInv /\ [Next]_vars /\ [PlacesHold]_vars
        => (Typed /\ MapInv)' /\ [Promise!Next]_(Promise!vars)
  BY NextKeepsTypes, NextKeepsMap, NextPromises
<1>. QED BY <1>1, <1>2, PTL DEF Spec, RefinesDurableMap, Promise!Spec

\* Under the same conditions every record leads to a value of its key: what publishWalRef
\* and remap place in the store, and what restoreKey puts back, is the place of a frame.
THEOREM PointersLeadToFrames == Spec /\ [][PlacesHold]_vars => []PointersReadTheirValue
<1>1. Init => Typed /\ MapInv
  BY InitTypes, InitMap
<1>2. Typed /\ MapInv /\ [Next]_vars /\ [PlacesHold]_vars => (Typed /\ MapInv)'
  BY NextKeepsTypes, NextKeepsMap
<1>3. Typed /\ MapInv => PointersReadTheirValue
  BY ValuesAreWrites, WritesTouchKeys DEF MapInv, PointersReadTheirValue
<1>. QED BY <1>1, <1>2, <1>3, PTL DEF Spec

\* What is read of a key is what the write w or a later one made of it.
FromOn(w, k) == \E x \in ToSet(log) : /\ x = w \/ Before(log, w, x)
                                      /\ k \in Touches(x) /\ valueOf(k) = EffectOn(x, k)

AnswersStand ==
  \A w \in Write : pc[w] = "acked" /\ Puts[w] # {} =>
    \A k \in Touches(w) : Contested(k) \/ FromOn(w, k)

\* A call that sets something is not answered unless its frame was appended.
AnsweredIsLogged ==
  \A w \in Write : pc[w] \in {"pending", "acked"} /\ Puts[w] # {} => w \in ToSet(log)

LEMMA NextKeepsAnswered ==
  Typed /\ MapInv /\ AnsweredIsLogged /\ [Next]_vars => AnsweredIsLogged'
<1> SUFFICES ASSUME Typed, MapInv, AnsweredIsLogged, [Next]_vars,
                    NEW w \in Write, pc'[w] \in {"pending", "acked"}, Puts[w] # {}
             PROVE  w \in ToSet(log')
  BY DEF AnsweredIsLogged
<1>1. pc \in [Write -> {"new", "ready", "pending", "retry", "acked", "rejected", "lost"}]
  BY DEF Typed, TypedCalls
<1>2. ASSUME pc[w] \in {"pending", "acked"}, log' = log PROVE w \in ToSet(log')
  BY <1>2 DEF AnsweredIsLogged
<1>3. ASSUME NEW x \in Write, PassGate(x) PROVE w \in ToSet(log')
  BY <1>1, <1>2, <1>3 DEF PassGate
<1>4. ASSUME NEW x \in Write, Commit(x) PROVE w \in ToSet(log')
  <2>1. CASE Append1(x)
    <3>1. log' = Append(log, x) /\ log \in Seq(Write) /\ pc' = [pc EXCEPT ![x] = "pending"]
      BY <2>1, PipeIsTyped DEF Append1
    <3>2. ToSet(log') = ToSet(log) \union {x}
      BY <3>1, AppendSet
    <3>. QED BY <1>1, <3>1, <3>2 DEF AnsweredIsLogged
  <2>2. CASE AppendToSealed(x)
    BY <1>1, <1>2, <2>2 DEF AppendToSealed, retryOnWalSeal
  <2>. QED BY <1>4, <2>1, <2>2 DEF Commit
<1>5. CASE BatchLands \/ BatchFails
  <2>1. log' = log /\ (pc'[w] = pc[w] \/ w \in ToSet(batch))
    BY <1>1, <1>5 DEF BatchLands, BatchFails, answer
  <2>2. w \in ToSet(batch) => pc[w] = "pending"
    BY DEF MapInv, Logged
  <2>. QED BY <1>2, <2>1, <2>2
<1>6. CASE Crash
  BY <1>1, <1>6, CrashLog DEF AnsweredIsLogged
<1>7. CASE UNCHANGED <<pc, log>>
  BY <1>2, <1>7
<1>8. [Next]_vars /\ ~(\E x \in Write : PassGate(x) \/ Commit(x))
        /\ ~BatchLands /\ ~BatchFails /\ ~Crash => UNCHANGED <<pc, log>>
  BY DEF Next, vars, callVars, FlushBatch, BeginCompaction, SnapshotKey, SnapshotDone, PreCopy,
         BeginRotation, Drain, RenameSnapshot, RenameWal, CompactionFails
<1>. QED BY <1>3, <1>4, <1>5, <1>6, <1>7, <1>8

LEMMA ExplainedByAnswers ==
  ASSUME Typed, MapInv, AnsweredIsLogged
  PROVE  AnswersStand
<1>1. SUFFICES ASSUME NEW w \in Write, pc[w] = "acked", Puts[w] # {},
                      NEW k \in Touches(w), ~Contested(k)
               PROVE  FromOn(w, k)
  BY DEF AnswersStand
<1>2. w \in ToSet(log) /\ w \notin Rejects
  BY <1>1 DEF AnsweredIsLogged, Rejects
<1>3. k \in Key
  BY <1>1, WritesTouchKeys DEF Touches
<1>4. Explains(log, Write, k, valueOf(k), Rejects)
  BY <1>1, <1>3 DEF MapInv, ValuesAreExplained
<1>5. PICK x \in ToSet(log) : /\ k \in Touches(x) /\ valueOf(k) = EffectOn(x, k)
                              /\ \A y \in ToSet(log) : Before(log, x, y) /\ k \in Touches(y) => y \in Rejects
  BY <1>1, <1>2, <1>4 DEF Explains
<1>6. ~Before(log, x, w)
  BY <1>1, <1>2, <1>5
<1>7. x = w \/ Before(log, w, x)
  BY <1>2, <1>5, <1>6, LogIsStrict DEF MapInv
<1>. QED BY <1>5, <1>7 DEF FromOn

\* What a set or a batch has been told it wrote is what is read of its keys, until a later
\* write changes them: through rollbacks, compactions and crashes.  Only a delete of the key
\* that was rejected puts it in question (restoreKey).
THEOREM AcknowledgedIsRead == Spec /\ [][PlacesHold]_vars => []AnswersStand
<1>1. Init => Typed /\ MapInv /\ AnsweredIsLogged
  BY InitTypes, InitMap DEF Init, AnsweredIsLogged
<1>2. Typed /\ MapInv /\ AnsweredIsLogged /\ [Next]_vars /\ [PlacesHold]_vars
        => (Typed /\ MapInv /\ AnsweredIsLogged)'
  BY NextKeepsTypes, NextKeepsMap, NextKeepsAnswered
<1>3. Typed /\ MapInv /\ AnsweredIsLogged => AnswersStand
  BY ExplainedByAnswers
<1>. QED BY <1>1, <1>2, <1>3, PTL DEF Spec

----------------------------------------------------------------------------
(* A storage that works keeps the places *)

\* Every frame on its way has the place that it will come to.
Predicted ==
  nextOffset = Len(pipe) /\ \A i \in Len(wal) + 1 .. Len(pipe) : predicted[pipe[i]] = i
NoFailures == world.disk => world.errors = 0 /\ Predicted

LEMMA AppendPredicts ==
  ASSUME Typed, MapInv, Predicted, NEW w \in Write, Commit(w), ~sealed, Append1(w)
  PROVE  Predicted'
<1>1. /\ w \notin ToSet(pipe) /\ pipe' = Append(pipe, w) /\ wal' = wal
  BY AppendedFrames
<1>2. /\ pipe \in Seq(Frame) /\ w \in Frame /\ Len(wal) \in Nat /\ Len(pipe) \in Nat
  BY PipeIsTyped, LenProperties DEF Frame
<1>3. /\ Len(pipe') = Len(pipe) + 1 /\ pipe'[Len(pipe) + 1] = w
      /\ \A i \in 1 .. Len(pipe) : pipe'[i] = pipe[i] /\ pipe[i] \in ToSet(pipe)
  <2>1. \A i \in 1 .. Len(pipe) : pipe[i] \in ToSet(pipe)
    BY <1>2 DEF ToSet
  <2>. QED BY <1>1, <1>2, <2>1, AppendProperties
<1>4. predicted' = [predicted EXCEPT ![w] = Len(pipe) + 1] /\ nextOffset' = Len(pipe) + 1
  BY DEF Append1, Predicted
<1>5. predicted'[w] = Len(pipe) + 1 /\ \A x : x # w => predicted'[x] = predicted[x]
  BY <1>4 DEF Typed, TypedLog
<1>6. ASSUME NEW i \in Len(wal) + 1 .. Len(pipe) + 1 PROVE predicted'[pipe'[i]] = i
  <2>1. CASE i = Len(pipe) + 1
    BY <1>3, <1>5, <2>1
  <2>2. CASE i # Len(pipe) + 1
    <3>1. i \in Len(wal) + 1 .. Len(pipe) /\ i \in 1 .. Len(pipe)
      BY <1>2, <2>2
    <3>2. pipe'[i] = pipe[i] /\ pipe[i] # w
      BY <1>1, <1>3, <3>1
    <3>. QED BY <1>5, <3>1, <3>2 DEF Predicted
  <2>. QED BY <2>1, <2>2
<1>. QED BY <1>1, <1>3, <1>4, <1>6 DEF Predicted

LEMMA LandingPredicts ==
  ASSUME Typed, MapInv, Predicted, BatchLands
  PROVE  Predicted'
<1>1. wal' = onDisk /\ pipe' = pipe /\ UNCHANGED <<nextOffset, predicted>>
  BY LandedFrames
<1>2. Len(wal) \in Nat /\ Len(wal) <= Len(onDisk) /\ Len(onDisk) \in Nat
  BY FilesAndBatch
<1>3. \A i \in Len(onDisk) + 1 .. Len(pipe) : i \in Len(wal) + 1 .. Len(pipe)
  BY <1>2
<1>. QED BY <1>1, <1>3 DEF Predicted

\* A fresh log has nothing on its way.
LEMMA FreshLogPredicts ==
  ASSUME Typed, MapInv, RenameWal \/ Crash
  PROVE  Predicted'
<1>1. pipe' = wal' /\ nextOffset' = Len(wal') /\ Len(wal') \in Nat
  <2>1. CASE RenameWal
    BY <2>1, RotatedFrames
  <2>2. CASE Crash
    BY <2>2, CrashFrames DEF Crash
  <2>. QED BY <2>1, <2>2
<1>. QED BY <1>1 DEF Predicted

LEMMA PipePredicts ==
  ASSUME Predicted, pipe' = pipe, UNCHANGED <<wal, nextOffset, predicted>>
  PROVE  Predicted'
  BY DEF Predicted

LEMMA NextKeepsPlaces == Typed /\ MapInv /\ NoFailures /\ [Next]_vars => NoFailures' /\ [PlacesHold]_vars
<1> SUFFICES ASSUME Typed, MapInv, NoFailures, [Next]_vars PROVE NoFailures' /\ PlacesHold
  OBVIOUS
<1>1. world'.disk = world.disk /\ (world' = world \/ storageFails)
  BY DEF Next, vars, PassGate, Commit, Append1, AppendToSealed, FlushBatch, BatchLands, BatchFails,
         BeginCompaction, SnapshotKey, SnapshotDone, PreCopy, BeginRotation, Drain, RenameSnapshot,
         RenameWal, CompactionFails, Crash, storageFails, Typed, TypedStore
<1>2. CASE ~world.disk
  BY <1>1, <1>2 DEF NoFailures, PlacesHold, LandsAsPredicted, FailsBetweenCompactions
<1>3. CASE world.disk
  <2>1. Predicted /\ ~storageFails /\ world' = world
    BY <1>1, <1>3 DEF NoFailures, storageFails
  <2>2. ASSUME BatchLands PROVE \A i \in 1 .. Len(batch) : predicted[batch[i]] = Len(wal) + i
    <3>1. SUFFICES ASSUME NEW i \in 1 .. Len(batch) PROVE predicted[batch[i]] = Len(wal) + i
      OBVIOUS
    <3>2. /\ onDisk \in Seq(Frame) /\ queue \in Seq(Frame) /\ Len(onDisk) \in Nat /\ Len(queue) \in Nat
          /\ Len(wal) \in Nat /\ Len(batch) \in Nat /\ Len(onDisk) = Len(wal) + Len(batch)
          /\ onDisk[Len(wal) + i] = batch[i]
      <4>1. onDisk \in Seq(Frame) /\ queue \in Seq(Frame)
        BY PipeIsTyped
      <4>2. Len(onDisk) \in Nat /\ Len(queue) \in Nat
        BY <4>1, LenProperties
      <4>. QED BY <4>1, <4>2, FilesAndBatch
    <3>3. /\ Len(pipe) = Len(onDisk) + Len(queue)
          /\ \A j \in 1 .. Len(onDisk) + Len(queue) :
               pipe[j] = IF j <= Len(onDisk) THEN onDisk[j] ELSE queue[j - Len(onDisk)]
      <4>1. ASSUME NEW s \in Seq(Frame), NEW t \in Seq(Frame)
            PROVE  /\ Len(s \o t) = Len(s) + Len(t)
                   /\ \A j \in 1 .. Len(s) + Len(t) :
                        (s \o t)[j] = IF j <= Len(s) THEN s[j] ELSE t[j - Len(s)]
        BY ConcatProperties
      <4>2. pipe = onDisk \o queue
        BY DEF pipe
      <4>. QED BY <3>2, <4>1, <4>2
    <3>4. Len(wal) + i \in 1 .. Len(onDisk) + Len(queue) /\ Len(wal) + i <= Len(onDisk)
          /\ Len(wal) + i \in Len(wal) + 1 .. Len(pipe)
      BY <3>2, <3>3
    <3>5. pipe[Len(wal) + i] = batch[i]
      BY <3>2, <3>3, <3>4
    <3>. QED BY <2>1, <3>4, <3>5 DEF Predicted
  <2>3. PlacesHold
    BY <2>1, <2>2 DEF PlacesHold, LandsAsPredicted, FailsBetweenCompactions, BatchFails
  <2>4. Predicted'
    <3>1. ASSUME NEW w \in Write, PassGate(w) PROVE Predicted'
      BY <2>1, <3>1, PipePredicts DEF PassGate, fileVars, walVars, pipe, onDisk
    <3>2. ASSUME NEW w \in Write, Commit(w) PROVE Predicted'
      <4>1. CASE ~sealed /\ Append1(w)
        BY <2>1, <3>2, <4>1, AppendPredicts
      <4>2. CASE sealed /\ AppendToSealed(w)
        BY <2>1, <4>2, PipePredicts DEF AppendToSealed, fileVars, walVars, pipe, onDisk
      <4>. QED BY <3>2, <4>1, <4>2 DEF Commit
    <3>3. CASE FlushBatch
      <4>1. pipe' = pipe
        BY <3>3, FlushedFrames
      <4>. QED BY <2>1, <3>3, <4>1, PipePredicts DEF FlushBatch, fileVars, callVars
    <3>4. CASE BatchLands
      BY <2>1, <3>4, LandingPredicts
    <3>5. CASE BatchFails \/ CompactionFails
      BY <2>1, <3>5 DEF BatchFails, CompactionFails
    <3>6. CASE BeginCompaction \/ (\E k \in Key : SnapshotKey(k)) \/ SnapshotDone \/ PreCopy
                 \/ BeginRotation \/ Drain \/ RenameSnapshot
      <4>1. pipe' = pipe
        BY <3>6, CompactionRests, RestsKeepsTerms
      <4>. QED BY <2>1, <3>6, <4>1, PipePredicts
               DEF BeginCompaction, SnapshotKey, SnapshotDone, PreCopy, BeginRotation, Drain,
                   RenameSnapshot, fileVars, walVars, callVars
    <3>7. CASE RenameWal \/ Crash
      BY <3>7, FreshLogPredicts
    <3>8. CASE UNCHANGED vars
      BY <2>1, <3>8, PipePredicts DEF vars, fileVars, walVars, callVars, pipe, onDisk
    <3>. QED BY <3>1, <3>2, <3>3, <3>4, <3>5, <3>6, <3>7, <3>8 DEF Next
  <2>. QED BY <1>3, <2>1, <2>3, <2>4 DEF NoFailures
<1>. QED BY <1>2, <1>3

\* As long as no call of the storage fails, with the values on disk, the places hold.
THEOREM WorkingStorageKeepsPlaces ==
  (\A w \in Worlds : w.disk => w.errors = 0) /\ Spec => [][PlacesHold]_vars
<1>1. ASSUME \A w \in Worlds : w.disk => w.errors = 0, Init
      PROVE  NoFailures
  <2>1. wal = << >> /\ pipe = << >> /\ nextOffset = 0
    <3>1. << >> \o << >> = << >>
      BY ConcatEmptySeq, EmptySeq
    <3>. QED BY <1>1, <3>1 DEF Init, pipe, onDisk
  <2>2. world.disk => world.errors = 0
    BY <1>1 DEF Init
  <2>. QED BY <2>1, <2>2 DEF NoFailures, Predicted
<1>2. (\A w \in Worlds : w.disk => w.errors = 0) /\ Init => Typed /\ MapInv /\ NoFailures
  BY <1>1, InitTypes, InitMap
<1>3. Typed /\ MapInv /\ NoFailures /\ [Next]_vars => (Typed /\ MapInv /\ NoFailures)' /\ [PlacesHold]_vars
  BY NextKeepsTypes, NextKeepsMap, NextKeepsPlaces
<1>. QED BY <1>2, <1>3, PTL DEF Spec

\* So the two theorems hold of every world in which storage calls fail only where the
\* values are in memory.
COROLLARY WorkingStorageIsDurable ==
  (\A w \in Worlds : w.disk => w.errors = 0) /\ Spec => RefinesDurableMap /\ []PointersReadTheirValue
  BY WorkingStorageKeepsPlaces, MapIsDurable, PointersLeadToFrames, PTL
=============================================================================
