------------------------ MODULE AppendLogStoreProofs ------------------------
(***************************************************************************)
(* The append log, for any number of generations, owners, records, rewrites  *)
(* and restarts.  Only one buffer is at the file, torn writes or not: a       *)
(* buffer works only when all before it are done for good; that they stay so  *)
(* rests on what a retired buffer has left when its chain is over: nothing,   *)
(* or a failure.                                                              *)
(*                                                                           *)
(* As long as no torn line is left behind by a buffer that is given up or by  *)
(* a process that dies: when flush() resolves, what was pending at the call   *)
(* is in the file or a rewrite will write it; every line can be read; and the *)
(* store implements the log of AppendLog.  There the lines of the file and    *)
(* the records of the buffers, oldest buffer first, are the log.              *)
(***************************************************************************)
EXTENDS AppendLogStore, QueueTheorems

\* A call of flush() waits for at least one promise.
FlushWaits == flushGen # 0 => flushAhead > 0

\* The rewrite whose turn has come is the first of the chain, and when the chain is
\* over none is left; nothing is drained after a failure; the append in flight is of
\* pending records.
ChainIsBacked ==
  \A g \in Gens :
    /\ op[g] \in {"prior", "write"} => rewrites[g] # << >>
    /\ op[g] = "idle" => rewrites[g] = << >>
    /\ op[g] \in {"drain", "append"} => ~failure[g]
    /\ op[g] = "append" => batch[g] > 0
    /\ op[g] # "append" => batch[g] = 0
    /\ batch[g] <= Len(pending[g])

Untouched(g) == op[g] = "idle" /\ ~retired[g] /\ ~failure[g] /\ pending[g] = << >>

\* The generations before the current one are retired, those after it untouched.
GenerationsInOrder ==
  \A g \in Gens :
    /\ g < current => retired[g]
    /\ g > current => Untouched(g)

\* A retired buffer whose chain is over has nothing left to drain.
RetiredIsDrained ==
  \A g \in Gens : retired[g] /\ op[g] = "idle" /\ ~failure[g] => pending[g] = << >>

\* A buffer that is at the file, or has a rewrite or a failure to deal with, waited
\* for all before it, and they are still over.
AtWork(g) == op[g] \in Written \/ failure[g] \/ rewrites[g] # << >>
WorkWaited == \A g \in Gens : AtWork(g) => ready(g)

IInv ==
  /\ TypeOK /\ FlushWaits /\ ChainIsBacked /\ GenerationsInOrder /\ RetiredIsDrained
  /\ WorkWaited

----------------------------------------------------------------------------
(* Lines and batches are of the right kind. *)

LEMMA OntoLines ==
  ASSUME NEW f \in Seq(Line), NEW s \in Seq(Line)
  PROVE  onto(f, s) \in Seq(Line)
<1>1. CASE s # << >> /\ f # << >> /\ Last(f) = Torn
  <2>1. Front(f) \in Seq(Line)
    BY SubSeqProperties DEF Front
  <2>2. Tail(s) \in Seq(Line)
    BY <1>1, HeadTailProperties
  <2>3. <<IF Head(s) = Torn THEN Torn ELSE Garbage>> \in Seq(Line)
    BY DEF Line
  <2>. QED BY <1>1, <2>1, <2>2, <2>3, ConcatProperties DEF onto
<1>2. CASE ~(s # << >> /\ f # << >> /\ Last(f) = Torn)
  BY <1>2, ConcatProperties DEF onto
<1>. QED BY <1>1, <1>2

LEMMA PrefixIsLines ==
  ASSUME NEW s \in Seq(Rec), NEW n \in 0 .. Len(s)
  PROVE  SubSeq(s, 1, n) \in Seq(Line)
<1>1. \A i \in 1 .. n : s[i] \in Line
  BY DEF Line
<1>. QED BY <1>1, SubSeqProperties

\* What is left of a batch when the first of its records have landed.
LEMMA RestOfBatch ==
  ASSUME NEW s \in Seq(Rec), NEW m \in Nat, m <= Len(s)
  PROVE  SubSeq(s, m + 1, Len(s)) \in Seq(Rec)
<1>1. \A i \in m + 1 .. Len(s) : s[i] \in Rec
  OBVIOUS
<1>. QED BY <1>1, SubSeqProperties

LEMMA InterruptedLines ==
  ASSUME NEW f \in Seq(Line), NEW s \in Seq(Rec), NEW n \in Nat, n <= Len(s),
         NEW x \in Interrupted(f, SubSeq(s, 1, n))
  PROVE  x \in Seq(Line)
<1> DEFINE b == SubSeq(s, 1, n)
<1>1. b \in Seq(Rec) /\ Len(b) = n
  <2>1. \A i \in 1 .. n : s[i] \in Rec
    OBVIOUS
  <2>. QED BY <2>1, SubSeqProperties
<1>2. CASE \E m \in 0 .. Len(b) : x = onto(f, SubSeq(b, 1, m))
  BY <1>1, <1>2, PrefixIsLines, OntoLines
<1>3. CASE \E m \in 0 .. Len(b) - 1 : x = onto(f, SubSeq(b, 1, m) \o <<Torn>>)
  <2>1. PICK m \in 0 .. Len(b) - 1 : x = onto(f, SubSeq(b, 1, m) \o <<Torn>>)
    BY <1>3
  <2>2. SubSeq(b, 1, m) \in Seq(Line)
    BY <1>1, <2>1, PrefixIsLines
  <2>3. <<Torn>> \in Seq(Line)
    BY DEF Line
  <2>4. SubSeq(b, 1, m) \o <<Torn>> \in Seq(Line)
    BY <2>2, <2>3, ConcatProperties
  <2>. QED BY <2>1, <2>4, OntoLines
<1>. QED BY <1>2, <1>3 DEF Interrupted

----------------------------------------------------------------------------
(* The initial state, and the process that starts again. *)

\* Every buffer is as a process finds it.
Fresh ==
  /\ current = 1 /\ pending = everyBuffer(<< >>) /\ failure = everyBuffer(FALSE)
  /\ owners = everyBuffer(0) /\ retired = everyBuffer(FALSE) /\ scheduled = everyBuffer(FALSE)
  /\ op = everyBuffer("idle") /\ batch = everyBuffer(0) /\ rewrites = everyBuffer(<< >>)
  /\ flushGen = 0 /\ flushAhead = 0 /\ flushAsked = {}

LEMMA FreshInv ==
  Fresh /\ file \in Seq(Line) /\ used \subseteq Rec \union Snapshot /\ restarts \in Nat => IInv
<1> SUFFICES ASSUME Fresh, file \in Seq(Line), used \subseteq Rec \union Snapshot, restarts \in Nat
             PROVE  IInv
  OBVIOUS
<1> USE StoreBoundAssumption DEF Fresh, everyBuffer, Gens
<1>1. << >> \in Seq(Rec) /\ << >> \in Seq(Snapshot) /\ Len(<< >>) = 0
  OBVIOUS
<1>2. TypeOK
  BY <1>1 DEF TypeOK, Line
<1>3. FlushWaits /\ ChainIsBacked
  BY <1>1 DEF FlushWaits, ChainIsBacked
<1>4. GenerationsInOrder /\ RetiredIsDrained /\ WorkWaited
  BY DEF GenerationsInOrder, Untouched, RetiredIsDrained, WorkWaited, AtWork, Written
<1>. QED BY <1>2, <1>3, <1>4 DEF IInv

LEMMA InitInv == Init => IInv
<1> SUFFICES ASSUME Init PROVE IInv
  OBVIOUS
<1>1. Fresh
  BY DEF Init, Fresh
<1>2. file \in Seq(Line) /\ used \subseteq Rec \union Snapshot /\ restarts \in Nat
  BY DEF Init, Line
<1>. QED BY <1>1, <1>2, FreshInv

LEMMA RestartInv ==
  ASSUME IInv, Restart
  PROVE  IInv'
<1>1. Fresh'
  BY DEF Restart, Fresh, everyBuffer
<1>2. file' \in Seq(Line)
  <2>1. CASE file' = file
    BY <2>1 DEF IInv, TypeOK, Line
  <2>2. ASSUME NEW g \in Gens, op[g] = "append",
               file' \in Interrupted(file, SubSeq(pending[g], 1, batch[g]))
        PROVE  file' \in Seq(Line)
    <3>1. file \in Seq(Line) /\ pending[g] \in Seq(Rec) /\ batch[g] \in Nat
          /\ batch[g] <= Len(pending[g])
      BY DEF IInv, TypeOK, ChainIsBacked, Line
    <3>. QED BY <2>2, <3>1, InterruptedLines
  <2>3. ASSUME NEW g \in Gens, op[g] = "write", file' = <<Head(rewrites[g])>>
        PROVE  file' \in Seq(Line)
    <3>1. rewrites[g] \in Seq(Snapshot) /\ rewrites[g] # << >>
      BY <2>3 DEF IInv, TypeOK, ChainIsBacked
    <3>2. Head(rewrites[g]) \in Line
      BY <3>1, HeadTailProperties DEF Line
    <3>. QED BY <2>3, <3>2
  <2>. QED BY <2>1, <2>2, <2>3 DEF Restart
<1>3. used' \subseteq Rec \union Snapshot /\ restarts' \in Nat
  BY DEF Restart, IInv, TypeOK
<1>4. (Fresh /\ file \in Seq(Line) /\ used \subseteq Rec \union Snapshot /\ restarts \in Nat)'
        => IInv'
  BY FreshInv, PTL
<1>. QED BY <1>1, <1>2, <1>3, <1>4

----------------------------------------------------------------------------
(* Calls.  The buffer that a call uses is not retired, and all before it are. *)

LEMMA BufferIsOpen ==
  ASSUME IInv, useBuffer
  PROVE  /\ Buffer \in Gens /\ ~retired[Buffer] /\ current' = Buffer /\ current \in Gens
         /\ Buffer \in {current, current + 1}
         /\ \A h \in Gens : h < Buffer => retired[h]
         /\ \A h \in Gens : h > Buffer => Untouched(h)
<1>1. Buffer \in Gens /\ current' = Buffer /\ current \in Gens /\ Gens \subseteq Nat
  BY StoreBoundAssumption DEF useBuffer, IInv, TypeOK, Gens
<1>2. CASE ~retired[current]
  BY <1>1, <1>2 DEF Buffer, IInv, GenerationsInOrder
<1>3. CASE retired[current]
  BY <1>1, <1>3 DEF Buffer, IInv, GenerationsInOrder, Untouched
<1>. QED BY <1>2, <1>3

\* A step that touches one open or working buffer, and the order of generations.
LEMMA AcquireInv == ASSUME IInv, Acquire PROVE IInv'
<1>1. useBuffer
  BY DEF Acquire
<1>2. /\ Buffer \in Gens /\ current' = Buffer
      /\ \A h \in Gens : h < Buffer => retired[h]
      /\ \A h \in Gens : h > Buffer => Untouched(h)
  BY <1>1, BufferIsOpen
<1> USE DEF Acquire, IInv, flushVars
<1>3. TypeOK'
  BY <1>2 DEF TypeOK
<1>4. FlushWaits' /\ ChainIsBacked' /\ RetiredIsDrained' /\ WorkWaited'
  BY DEF FlushWaits, ChainIsBacked, RetiredIsDrained, WorkWaited, AtWork, ready
<1>5. GenerationsInOrder'
  BY <1>2 DEF GenerationsInOrder, Untouched
<1>. QED BY <1>3, <1>4, <1>5

LEMMA AppendRecordInv ==
  ASSUME IInv, NEW r \in Rec, AppendRecord(r)
  PROVE  IInv'
<1>1. useBuffer
  BY DEF AppendRecord
<1>2. /\ Buffer \in Gens /\ ~retired[Buffer] /\ current' = Buffer
      /\ \A h \in Gens : h < Buffer => retired[h]
      /\ \A h \in Gens : h > Buffer => Untouched(h)
  BY <1>1, BufferIsOpen
<1> DEFINE b == Buffer
<1>3. /\ pending' = [pending EXCEPT ![b] = Append(@, r)]
      /\ scheduled' = [scheduled EXCEPT ![b] = @ \/ op[b] = "idle"]
      /\ used' = used \union {r}
      /\ UNCHANGED <<file, failure, owners, retired, op, batch, rewrites, restarts,
                     flushGen, flushAhead, flushAsked>>
  BY DEF AppendRecord, scheduleFlush, flushVars
<1>4. pending[b] \in Seq(Rec) /\ Append(pending[b], r) \in Seq(Rec)
      /\ Len(Append(pending[b], r)) = Len(pending[b]) + 1
  BY <1>2, AppendProperties DEF IInv, TypeOK
<1> HIDE DEF b
<1> USE <1>2, <1>3, <1>4 DEF IInv
<1>b. b = Buffer
  BY DEF b
<1>5. TypeOK'
  <2>1. scheduled' \in [Gens -> BOOLEAN] /\ pending' \in [Gens -> Seq(Rec)]
    BY <1>b DEF TypeOK
  <2>. QED BY <2>1, <1>b DEF TypeOK
<1>6. FlushWaits' /\ WorkWaited' /\ GenerationsInOrder' /\ RetiredIsDrained'
  BY <1>b DEF FlushWaits, WorkWaited, AtWork, ready, GenerationsInOrder, Untouched, RetiredIsDrained, TypeOK
<1>7. ChainIsBacked'
  BY <1>b DEF ChainIsBacked, TypeOK
<1>. QED BY <1>5, <1>6, <1>7

LEMMA RewriteInv ==
  ASSUME IInv, NEW s \in Snapshot, Rewrite(s)
  PROVE  IInv'
<1>1. useBuffer
  BY DEF Rewrite
<1>2. /\ Buffer \in Gens /\ ~retired[Buffer] /\ current' = Buffer
      /\ \A h \in Gens : h < Buffer => retired[h]
      /\ \A h \in Gens : h > Buffer => Untouched(h)
  BY <1>1, BufferIsOpen
<1> DEFINE b == Buffer
<1>3. /\ rewrites' = [rewrites EXCEPT ![b] = Append(@, s)]
      /\ op' = [op EXCEPT ![b] = IF @ = "idle" THEN "prior" ELSE @]
      /\ used' = used \union {s}
      /\ UNCHANGED <<file, pending, failure, owners, retired, scheduled, batch, restarts,
                     flushGen, flushAhead, flushAsked>>
  BY DEF Rewrite, flushVars
<1>4. rewrites[b] \in Seq(Snapshot) /\ Append(rewrites[b], s) \in Seq(Snapshot)
      /\ Append(rewrites[b], s) # << >>
  <2>1. rewrites[b] \in Seq(Snapshot)
    BY <1>2 DEF IInv, TypeOK
  <2>. QED BY <2>1, AppendProperties
<1>b. b = Buffer
  OBVIOUS
<1> HIDE DEF b
<1> USE <1>2, <1>3, <1>4, <1>b DEF IInv
<1>5. TypeOK'
  BY DEF TypeOK
<1>6. FlushWaits' /\ ChainIsBacked' /\ GenerationsInOrder' /\ RetiredIsDrained'
  BY DEF FlushWaits, ChainIsBacked, GenerationsInOrder, Untouched, RetiredIsDrained, TypeOK
<1>7. WorkWaited'
  <2> SUFFICES ASSUME NEW k \in Gens, AtWork(k)', NEW h \in 1 .. (k - 1)
               PROVE  retired'[h] /\ op'[h] = "idle" /\ ~failure'[h]
    BY DEF WorkWaited, ready
  <2>1. ready(b) /\ h \in Gens
    BY StoreBoundAssumption DEF Rewrite, Gens
  <2>2. CASE k = b
    BY <2>1, <2>2 DEF ready, TypeOK, Gens
  <2>3. CASE k # b
    <3>1. AtWork(k)
      BY <2>3 DEF AtWork, TypeOK
    <3>. QED BY <2>1, <3>1 DEF WorkWaited, ready, TypeOK
  <2>. QED BY <2>2, <2>3
<1>. QED BY <1>5, <1>6, <1>7

\* The current buffer begins to drain: nobody after it works.
LEMMA ReleaseInv == ASSUME IInv, Release PROVE IInv'
<1> DEFINE g == current
<1>1. g \in Gens /\ owners[g] > 0
  BY DEF Release, held, IInv, TypeOK
<1>2. /\ owners' = [owners EXCEPT ![g] = @ - 1]
      /\ UNCHANGED <<file, current, pending, failure, scheduled, batch, rewrites, used, restarts,
                     flushGen, flushAhead, flushAsked>>
  BY DEF Release, flushVars
<1>3. \/ retired' = retired /\ op' = op
      \/ /\ retired' = [retired EXCEPT ![g] = TRUE]
         /\ \/ op[g] = "idle" /\ ~failure[g] /\ op' = [op EXCEPT ![g] = "drain"]
            \/ (op[g] # "idle" \/ failure[g]) /\ op' = op
  BY DEF Release, startDrain, sticky
<1>c. g = current
  OBVIOUS
<1> HIDE DEF g
<1> USE <1>1, <1>2, <1>3, <1>c DEF IInv
<1>4. TypeOK'
  <2>1. owners' \in [Gens -> Nat]
    BY DEF TypeOK
  <2>2. retired' \in [Gens -> BOOLEAN]
    BY DEF TypeOK
  <2>3. op' \in [Gens -> {"idle", "drain", "prior"} \union Written]
    BY DEF TypeOK
  <2>. QED BY <2>1, <2>2, <2>3 DEF TypeOK
<1>5. FlushWaits' /\ ChainIsBacked' /\ GenerationsInOrder' /\ RetiredIsDrained'
  <2>1. FlushWaits' /\ ChainIsBacked'
    BY DEF FlushWaits, ChainIsBacked, TypeOK
  <2>2. GenerationsInOrder'
    BY DEF GenerationsInOrder, Untouched, TypeOK, Gens
  <2>3. RetiredIsDrained'
    BY DEF RetiredIsDrained, TypeOK
  <2>. QED BY <2>1, <2>2, <2>3
<1>6. WorkWaited'
  <2> SUFFICES ASSUME NEW k \in Gens, AtWork(k)', NEW h \in 1 .. (k - 1)
               PROVE  retired'[h] /\ op'[h] = "idle" /\ ~failure'[h]
    BY DEF WorkWaited, ready
  <2>1. AtWork(k) /\ k <= g /\ h \in Gens /\ h < k
    <3>1. AtWork(k)
      BY DEF TypeOK, AtWork, Written
    <3>2. ~(k > current)
      BY <3>1 DEF GenerationsInOrder, Untouched, ChainIsBacked, AtWork, Written
    <3>3. k \in Nat /\ g \in Nat /\ h \in Gens /\ h < k
      BY StoreBoundAssumption DEF Gens
    <3>. QED BY <3>1, <3>2, <3>3
  <2>2. retired[h] /\ op[h] = "idle" /\ ~failure[h] /\ h # g
    BY <2>1 DEF WorkWaited, ready, Gens
  <2>. QED BY <2>1, <2>2 DEF TypeOK
<1>. QED BY <1>4, <1>5, <1>6

LEMMA FlushInv == ASSUME IInv, Flush PROVE IInv'
<1>1. PICK g \in Gens :
        /\ flushState(g) /\ current' = g
        /\ ~(retired[g] /\ op[g] = "idle")
        /\ \A h \in Gens : h < g => retired[h]
        /\ \A h \in Gens : h > g => Untouched(h)
  <2>1. CASE useBuffer /\ flushState(Buffer)
    BY <2>1, BufferIsOpen
  <2>2. CASE ~(retired[current] /\ op[current] = "idle") /\ flushState(current) /\ UNCHANGED current
    <3>1. current \in Gens
      BY DEF IInv, TypeOK
    <3>. QED BY <2>2, <3>1 DEF IInv, GenerationsInOrder
  <2>. QED BY <2>1, <2>2 DEF Flush
<1>2. /\ flushGen' = g /\ flushAsked' = ToSet(pending[g])
      /\ UNCHANGED <<file, pending, failure, owners, retired, scheduled, batch, rewrites, used,
                     restarts>>
  BY <1>1 DEF flushState
<1>3. \/ op[g] = "idle" /\ ~failure[g] /\ op' = [op EXCEPT ![g] = "drain"] /\ flushAhead' = 1
      \/ op[g] # "idle" /\ op' = op /\ flushAhead' = 1 + Waiting(g)
  BY <1>1 DEF flushState, startDrain, sticky
<1> USE <1>2, <1>3 DEF IInv
<1>4. Waiting(g) \in Nat
  <2>1. rewrites[g] \in Seq(Snapshot) /\ Len(rewrites[g]) \in Nat
    BY DEF TypeOK
  <2>2. CASE op[g] \in {"prior", "write"}
    BY <2>1, <2>2 DEF ChainIsBacked, Waiting
  <2>3. CASE op[g] \notin {"prior", "write"}
    BY <2>1, <2>3 DEF Waiting
  <2>. QED BY <2>2, <2>3
<1>5. TypeOK'
  <2>1. flushAsked' \subseteq Rec
    BY DEF TypeOK, ToSet
  <2>2. op' \in [Gens -> {"idle", "drain", "prior"} \union Written]
    BY DEF TypeOK
  <2>3. flushGen' \in 0 .. MaxGens /\ flushAhead' \in Nat /\ current' \in Gens
    BY <1>1, <1>4 DEF Gens
  <2>. QED BY <2>1, <2>2, <2>3 DEF TypeOK
<1>6. FlushWaits' /\ ChainIsBacked' /\ RetiredIsDrained'
  <2>1. FlushWaits'
    BY <1>4 DEF FlushWaits
  <2>2. ChainIsBacked'
    BY DEF ChainIsBacked, TypeOK
  <2>3. RetiredIsDrained'
    BY <1>1 DEF RetiredIsDrained, TypeOK
  <2>. QED BY <2>1, <2>2, <2>3
<1>7. GenerationsInOrder'
  BY <1>1 DEF GenerationsInOrder, Untouched, TypeOK, Gens
<1>8. WorkWaited'
  <2> SUFFICES ASSUME NEW k \in Gens, AtWork(k)', NEW h \in 1 .. (k - 1)
               PROVE  retired'[h] /\ op'[h] = "idle" /\ ~failure'[h]
    BY DEF WorkWaited, ready
  <2>1. AtWork(k)
    BY DEF TypeOK, AtWork, Written
  <2>2. h \in Gens /\ ~(k > g)
    <3>1. ~(k > g)
      BY <1>1, <2>1 DEF Untouched, ChainIsBacked, AtWork, Written
    <3>. QED BY <3>1, StoreBoundAssumption DEF Gens
  <2>3. retired[h] /\ op[h] = "idle" /\ ~failure[h] /\ h # g
    <3>1. retired[h] /\ op[h] = "idle" /\ ~failure[h]
      BY <2>1 DEF WorkWaited, ready
    <3>2. k \in Nat /\ g \in Nat /\ h < k
      BY StoreBoundAssumption DEF Gens
    <3>3. CASE h = g
      BY <1>1, <3>1, <3>3
    <3>. QED BY <3>1, <3>3
  <2>4. op'[h] = op[h]
    BY <2>2, <2>3 DEF TypeOK
  <2>. QED BY <2>3, <2>4
<1>. QED BY <1>5, <1>6, <1>7, <1>8

----------------------------------------------------------------------------
(* The work of a buffer. *)

\* A step of the chain of g, which was not over: only g moves, it is at the file
\* only if it has waited, and when it is over nothing is pending or it has failed.
ChainStep(g) ==
  /\ op[g] # "idle"
  /\ UNCHANGED <<current, owners, retired, scheduled, used, restarts>>
  /\ file' \in Seq(Line)
  /\ op' \in [Gens -> {"idle", "drain", "prior"} \union Written]
  /\ pending' \in [Gens -> Seq(Rec)] /\ failure' \in [Gens -> BOOLEAN]
  /\ batch' \in [Gens -> Nat] /\ rewrites' \in [Gens -> Seq(Snapshot)]
  /\ \A h \in Gens \ {g} : /\ op'[h] = op[h] /\ pending'[h] = pending[h] /\ failure'[h] = failure[h]
                           /\ batch'[h] = batch[h] /\ rewrites'[h] = rewrites[h]
  /\ ready(g)
  /\ op'[g] = "idle" => rewrites'[g] = << >> /\ (failure'[g] \/ pending'[g] = << >>)
  /\ op'[g] \in {"prior", "write"} => rewrites'[g] # << >>
  /\ op'[g] \in {"drain", "append"} => ~failure'[g]
  /\ op'[g] = "append" => batch'[g] > 0
  /\ op'[g] # "append" => batch'[g] = 0
  /\ batch'[g] <= Len(pending'[g])
  /\ settleFlush(g) \/ UNCHANGED flushVars

LEMMA ChainStepInv ==
  ASSUME IInv, NEW g \in Gens, ChainStep(g)
  PROVE  IInv'
<1> USE DEF IInv
<1>1. /\ flushGen' \in 0 .. MaxGens /\ flushAhead' \in Nat /\ flushAsked' \subseteq Rec
      /\ FlushWaits'
  <2>1. CASE flushGen = g /\ settleFlush(g)
    <3>1. flushAhead \in Nat /\ flushAhead > 0 /\ g \in 1 .. MaxGens
      BY <2>1, StoreBoundAssumption DEF FlushWaits, TypeOK, Gens
    <3>2. /\ flushAhead' = flushAhead - 1
          /\ flushGen' = IF flushAhead = 1 THEN 0 ELSE g
          /\ flushAsked' = IF flushAhead = 1 THEN {} ELSE flushAsked
      BY <2>1 DEF settleFlush
    <3>3. flushAsked' \subseteq Rec
      BY <3>2 DEF TypeOK
    <3>4. flushGen' \in 0 .. MaxGens /\ flushAhead' \in Nat
      BY <3>1, <3>2, StoreBoundAssumption
    <3>5. FlushWaits'
      BY <3>1, <3>2 DEF FlushWaits
    <3>. QED BY <3>3, <3>4, <3>5
  <2>2. CASE UNCHANGED flushVars
    BY <2>2 DEF flushVars, FlushWaits, TypeOK
  <2>. QED BY <2>1, <2>2 DEF ChainStep, settleFlush
<1>2. TypeOK'
  BY <1>1 DEF ChainStep, TypeOK, Line
<1>3. ChainIsBacked'
  <2> SUFFICES ASSUME NEW h \in Gens
               PROVE  /\ op'[h] \in {"prior", "write"} => rewrites'[h] # << >>
                      /\ op'[h] = "idle" => rewrites'[h] = << >>
                      /\ op'[h] \in {"drain", "append"} => ~failure'[h]
                      /\ op'[h] = "append" => batch'[h] > 0
                      /\ op'[h] # "append" => batch'[h] = 0
                      /\ batch'[h] <= Len(pending'[h])
    BY DEF ChainIsBacked
  <2>1. CASE h = g
    BY <2>1 DEF ChainStep
  <2>2. CASE h # g
    BY <2>2 DEF ChainStep, ChainIsBacked
  <2>. QED BY <2>1, <2>2
<1>4. GenerationsInOrder'
  BY DEF ChainStep, GenerationsInOrder, Untouched
<1>5. RetiredIsDrained'
  BY DEF ChainStep, RetiredIsDrained
<1>6. WorkWaited'
  <2> SUFFICES ASSUME NEW k \in Gens, AtWork(k)', NEW h \in 1 .. (k - 1)
               PROVE  retired'[h] /\ op'[h] = "idle" /\ ~failure'[h]
    BY DEF WorkWaited, ready
  <2>1. ready(k) /\ h \in Gens
    <3>1. ready(k)
      BY DEF ChainStep, WorkWaited, AtWork
    <3>. QED BY <3>1, StoreBoundAssumption DEF Gens
  <2>2. retired[h] /\ op[h] = "idle" /\ ~failure[h] /\ h # g
    BY <2>1 DEF ready, ChainStep
  <2>. QED BY <2>1, <2>2 DEF ChainStep
<1>. QED BY <1>1, <1>2, <1>3, <1>4, <1>5, <1>6

\* What the invariant says of the buffer that works.
LEMMA BufferTypes ==
  ASSUME IInv, NEW g \in Gens
  PROVE  /\ file \in Seq(Line) /\ pending[g] \in Seq(Rec) /\ rewrites[g] \in Seq(Snapshot)
         /\ batch[g] \in Nat /\ batch[g] <= Len(pending[g])
         /\ op[g] \in {"prior", "write"} => rewrites[g] # << >>
         /\ op[g] = "idle" => rewrites[g] = << >>
         /\ op[g] \in {"drain", "append"} => ~failure[g]
         /\ op[g] = "append" => batch[g] > 0
         /\ op[g] # "append" => batch[g] = 0
         /\ op[g] \in Written \/ failure[g] \/ rewrites[g] # << >> => ready(g)
         /\ g \in Nat
         /\ op \in [Gens -> {"idle", "drain", "prior"} \union Written]
         /\ pending \in [Gens -> Seq(Rec)] /\ failure \in [Gens -> BOOLEAN]
         /\ batch \in [Gens -> Nat] /\ rewrites \in [Gens -> Seq(Snapshot)]
<1>1. g \in Nat /\ file \in Seq(Line)
  BY StoreBoundAssumption DEF IInv, TypeOK, Gens, Line
<1>. QED BY <1>1 DEF IInv, TypeOK, ChainIsBacked, WorkWaited, AtWork

LEMMA DrainIsStep ==
  ASSUME IInv, NEW g \in Gens, Drain(g)
  PROVE  ChainStep(g)
<1> USE BufferTypes
<1>1. /\ op[g] = "drain" /\ ready(g)
      /\ UNCHANGED <<file, current, pending, failure, owners, retired, scheduled, rewrites, used,
                     restarts>>
  BY DEF Drain
<1>2. CASE cutoverPassed(g) \/ pending[g] = << >>
  <2>1. /\ op' = [op EXCEPT ![g] = IF rewrites[g] # << >> THEN "prior" ELSE "idle"]
        /\ settleFlush(g) /\ batch' = batch
    BY <1>2 DEF Drain, settle, settleChain
  <2>2. ChainStep(g)
    BY <1>1, <1>2, <2>1 DEF ChainStep, cutoverPassed, Written
  <2>. QED BY <2>2
<1>3. CASE ~(cutoverPassed(g) \/ pending[g] = << >>)
  <2>1. /\ op' = [op EXCEPT ![g] = "append"] /\ UNCHANGED flushVars
        /\ batch' = [batch EXCEPT ![g] = Len(pending[g])]
    BY <1>3 DEF Drain, appendBatch
  <2>2. rewrites[g] = << >> /\ Len(pending[g]) > 0
    BY <1>3 DEF cutoverPassed
  <2>3. ChainStep(g)
    BY <1>1, <2>1, <2>2 DEF ChainStep, Written
  <2>. QED BY <2>3
<1>. QED BY <1>2, <1>3

LEMMA AppendDoneIsStep ==
  ASSUME IInv, NEW g \in Gens, AppendDone(g)
  PROVE  ChainStep(g)
<1> DEFINE rest == SubSeq(pending[g], batch[g] + 1, Len(pending[g]))
<1> USE BufferTypes
<1>1. /\ op[g] = "append" /\ ready(g)
      /\ UNCHANGED <<current, failure, owners, retired, scheduled, rewrites, used, restarts>>
  BY DEF AppendDone, Written
<1>2. file' \in Seq(Line)
  <2>1. SubSeq(pending[g], 1, batch[g]) \in Seq(Line)
    BY PrefixIsLines
  <2>. QED BY <2>1, OntoLines DEF AppendDone
<1>3. rest \in Seq(Rec) /\ Len(rest) \in Nat
  <2>1. rest \in Seq(Rec)
    BY RestOfBatch
  <2>. QED BY <2>1
<1>4. CASE cutoverPassed(g)
  <2>1. /\ op' = [op EXCEPT ![g] = IF rewrites[g] # << >> THEN "prior" ELSE "idle"]
        /\ settleFlush(g) /\ batch' = [batch EXCEPT ![g] = 0] /\ pending' = pending
    BY <1>4 DEF AppendDone, settle, settleChain
  <2>2. rewrites[g] # << >>
    BY <1>4 DEF cutoverPassed
  <2>3. ChainStep(g)
    BY <1>1, <1>2, <2>1, <2>2 DEF ChainStep, Written
  <2>. QED BY <2>3
<1>5. CASE ~cutoverPassed(g) /\ rest # << >>
  <2>1. /\ pending' = [pending EXCEPT ![g] = rest]
        /\ op' = [op EXCEPT ![g] = "append"] /\ UNCHANGED flushVars
        /\ batch' = [batch EXCEPT ![g] = Len(rest)]
    BY <1>5 DEF AppendDone, appendBatch
  <2>0. Len(rest) > 0
    <3> HIDE DEF rest
    <3>. QED BY <1>3, <1>5
  <2> HIDE DEF rest
  <2>2. ChainStep(g)
    BY <1>1, <1>2, <1>3, <2>0, <2>1 DEF ChainStep, Written
  <2>. QED BY <2>2
<1>6. CASE ~cutoverPassed(g) /\ rest = << >>
  <2>1. /\ pending' = [pending EXCEPT ![g] = rest]
        /\ op' = [op EXCEPT ![g] = "drain"] /\ UNCHANGED flushVars
        /\ batch' = [batch EXCEPT ![g] = 0]
    BY <1>6 DEF AppendDone, startDrain
  <2> HIDE DEF rest
  <2>2. ChainStep(g)
    BY <1>1, <1>2, <1>3, <2>1 DEF ChainStep, Written
  <2>. QED BY <2>2
<1>. QED BY <1>4, <1>5, <1>6

LEMMA AppendFailsIsStep ==
  ASSUME IInv, NEW g \in Gens, AppendFails(g)
  PROVE  ChainStep(g)
<1> USE BufferTypes
<1>1. /\ op[g] = "append" /\ failure' = [failure EXCEPT ![g] = TRUE]
      /\ batch' = [batch EXCEPT ![g] = 0]
      /\ op' = [op EXCEPT ![g] = IF rewrites[g] # << >> THEN "prior" ELSE "idle"]
      /\ settleFlush(g)
      /\ UNCHANGED <<current, pending, owners, retired, scheduled, rewrites, used, restarts>>
  BY DEF AppendFails, settle, settleChain
<1>2. file' \in Seq(Line)
  <2>1. file' \in Interrupted(file, SubSeq(pending[g], 1, batch[g]))
    BY DEF AppendFails
  <2>. QED BY <2>1, InterruptedLines
<1>3. ChainStep(g)
  BY <1>1, <1>2 DEF ChainStep, Written
<1>. QED BY <1>3

LEMMA StartWriteIsStep ==
  ASSUME IInv, NEW g \in Gens, StartWrite(g)
  PROVE  ChainStep(g)
<1> USE BufferTypes
<1>1. ChainStep(g)
  BY DEF StartWrite, ChainStep, Written
<1>. QED BY <1>1

LEMMA FirstRewrite ==
  ASSUME NEW s \in Seq(Snapshot), s # << >>
  PROVE  /\ Head(s) \in Line /\ Tail(s) \in Seq(Snapshot)
         /\ Len(s) > 1 => Tail(s) # << >>
<1>1. Head(s) \in Snapshot /\ Tail(s) \in Seq(Snapshot) /\ Len(Tail(s)) = Len(s) - 1
  BY HeadTailProperties
<1>2. ASSUME NEW t \in Seq(Snapshot), Len(t) > 0 PROVE t # << >>
  BY <1>2
<1>3. Len(s) > 1 => Len(Tail(s)) > 0
  BY <1>1
<1>. QED BY <1>1, <1>2, <1>3 DEF Line

LEMMA WriteDoneIsStep ==
  ASSUME IInv, NEW g \in Gens, WriteDone(g)
  PROVE  ChainStep(g)
<1> USE BufferTypes
<1>1. /\ op[g] = "write" /\ ready(g) /\ rewrites[g] # << >> /\ batch[g] = 0
      /\ file' = <<Head(rewrites[g])>>
      /\ failure' = [failure EXCEPT ![g] = FALSE]
      /\ rewrites' = [rewrites EXCEPT ![g] = Tail(@)]
      /\ UNCHANGED <<current, pending, owners, retired, scheduled, batch, used, restarts>>
  BY DEF WriteDone, Written
<1>2. /\ Head(rewrites[g]) \in Line /\ Tail(rewrites[g]) \in Seq(Snapshot)
      /\ Len(rewrites[g]) > 1 => Tail(rewrites[g]) # << >>
  BY <1>1, FirstRewrite
<1>3. \/ /\ Len(rewrites[g]) > 1 /\ settleFlush(g)
         /\ op' = [op EXCEPT ![g] = "prior"]
      \/ /\ op' = [op EXCEPT ![g] = "drain"] /\ UNCHANGED flushVars
  BY DEF WriteDone, drainBehind, startDrain
<1>4. file' \in Seq(Line)
  BY <1>1, <1>2
<1>5. CASE Len(rewrites[g]) > 1 /\ settleFlush(g) /\ op' = [op EXCEPT ![g] = "prior"]
  <2>1. ChainStep(g)
    BY <1>1, <1>2, <1>4, <1>5 DEF ChainStep, Written
  <2>. QED BY <2>1
<1>6. CASE op' = [op EXCEPT ![g] = "drain"] /\ UNCHANGED flushVars
  <2>1. ChainStep(g)
    BY <1>1, <1>2, <1>4, <1>6 DEF ChainStep, Written
  <2>. QED BY <2>1
<1>. QED BY <1>3, <1>5, <1>6

LEMMA WriteFailsIsStep ==
  ASSUME IInv, NEW g \in Gens, WriteFails(g)
  PROVE  ChainStep(g)
<1> USE BufferTypes
<1>1. /\ op[g] = "write" /\ rewrites[g] # << >> /\ batch[g] = 0
      /\ file' \in {file, <<Head(rewrites[g])>>}
      /\ failure' = [failure EXCEPT ![g] = TRUE]
      /\ rewrites' = [rewrites EXCEPT ![g] = Tail(@)]
      /\ op' = [op EXCEPT ![g] = IF Len(rewrites[g]) > 1 THEN "prior" ELSE "idle"]
      /\ settleFlush(g)
      /\ UNCHANGED <<current, pending, owners, retired, scheduled, batch, used, restarts>>
  BY DEF WriteFails
<1>2. /\ Head(rewrites[g]) \in Line /\ Tail(rewrites[g]) \in Seq(Snapshot)
      /\ Len(rewrites[g]) > 1 => Tail(rewrites[g]) # << >>
  BY <1>1, FirstRewrite
<1>3. file' \in Seq(Line)
  <2>1. file \in Seq(Line) /\ <<Head(rewrites[g])>> \in Seq(Line)
    BY <1>2
  <2>. QED BY <1>1, <2>1
<1>4. ChainStep(g)
  BY <1>1, <1>2, <1>3 DEF ChainStep, Written
<1>. QED BY <1>4

\* The microtask finds the buffer idle with something pending: then the buffer is
\* not one of those that a later one has waited for.
LEMMA ScheduledFlushInv ==
  ASSUME IInv, NEW g \in Gens, ScheduledFlush(g)
  PROVE  IInv'
<1> USE DEF IInv, flushVars
<1>1. /\ scheduled' = [scheduled EXCEPT ![g] = FALSE]
      /\ UNCHANGED <<file, current, pending, failure, owners, retired, batch, rewrites, flushGen,
                     flushAhead, flushAsked, used, restarts>>
  BY DEF ScheduledFlush
<1>2. CASE op' = op
  <2>1. TypeOK'
    BY <1>1, <1>2 DEF TypeOK
  <2>2. FlushWaits' /\ ChainIsBacked' /\ GenerationsInOrder' /\ RetiredIsDrained' /\ WorkWaited'
    BY <1>1, <1>2 DEF FlushWaits, ChainIsBacked, GenerationsInOrder, Untouched, RetiredIsDrained,
                      WorkWaited, AtWork, ready
  <2>. QED BY <2>1, <2>2
<1>3. CASE /\ op[g] = "idle" /\ ~failure[g] /\ pending[g] # << >>
           /\ op' = [op EXCEPT ![g] = "drain"]
  <2>1. TypeOK'
    BY <1>1, <1>3 DEF TypeOK
  <2>2. FlushWaits' /\ ChainIsBacked' /\ GenerationsInOrder' /\ RetiredIsDrained'
    BY <1>1, <1>3 DEF FlushWaits, ChainIsBacked, GenerationsInOrder, Untouched, RetiredIsDrained, TypeOK
  <2>3. WorkWaited'
    <3> SUFFICES ASSUME NEW k \in Gens, AtWork(k)', NEW h \in 1 .. (k - 1)
                 PROVE  retired'[h] /\ op'[h] = "idle" /\ ~failure'[h]
      BY DEF WorkWaited, ready
    <3>1. AtWork(k)
      BY <1>1, <1>3 DEF TypeOK, AtWork, Written
    <3>2. h \in Gens /\ retired[h] /\ op[h] = "idle" /\ ~failure[h]
      BY <3>1, StoreBoundAssumption DEF WorkWaited, ready, Gens
    <3>3. h # g
      BY <1>3, <3>2 DEF RetiredIsDrained
    <3>. QED BY <1>1, <1>3, <3>2, <3>3 DEF TypeOK
  <2>. QED BY <2>1, <2>2, <2>3
<1>. QED BY <1>2, <1>3 DEF ScheduledFlush, startDrain, sticky

\* A retired buffer that failed held the later ones up until now.
LEMMA GiveUpInv ==
  ASSUME IInv, NEW g \in Gens, GiveUp(g)
  PROVE  IInv'
<1> USE DEF IInv, flushVars, GiveUp
<1>1. batch[g] = 0 /\ Len(<< >>) = 0 /\ << >> \in Seq(Rec)
  BY DEF ChainIsBacked
<1>2. TypeOK'
  BY <1>1 DEF TypeOK
<1>3. FlushWaits' /\ ChainIsBacked' /\ GenerationsInOrder' /\ RetiredIsDrained'
  BY <1>1 DEF FlushWaits, ChainIsBacked, GenerationsInOrder, Untouched, RetiredIsDrained, TypeOK
<1>4. WorkWaited'
  BY DEF WorkWaited, AtWork, ready, TypeOK, ChainIsBacked, Written
<1>. QED BY <1>2, <1>3, <1>4

LEMMA NextInv == IInv /\ [Next]_vars => IInv'
<1> SUFFICES ASSUME IInv, [Next]_vars PROVE IInv'
  OBVIOUS
<1>1. CASE Call
  BY <1>1, AppendRecordInv, RewriteInv, AcquireInv, ReleaseInv, FlushInv DEF Call
<1>2. ASSUME NEW g \in Gens, Work(g) PROVE IInv'
  BY <1>2, ScheduledFlushInv, GiveUpInv, ChainStepInv, DrainIsStep, AppendDoneIsStep,
     AppendFailsIsStep, StartWriteIsStep, WriteDoneIsStep, WriteFailsIsStep DEF Work
<1>3. CASE Restart
  BY <1>3, RestartInv
<1>4. CASE UNCHANGED vars
  BY <1>4 DEF vars, bufferVars, flushVars, IInv, TypeOK, FlushWaits, ChainIsBacked,
              GenerationsInOrder, Untouched, RetiredIsDrained, WorkWaited, AtWork, ready
<1>. QED BY <1>1, <1>2, <1>3, <1>4 DEF Next

----------------------------------------------------------------------------
(* The file.  A torn line is its last one, and it is left by an append that   *)
(* failed: the buffer remembers that, and nobody appends before a rewrite has *)
(* replaced the file, unless the buffer is given up or the process dies.      *)

lines == read(file)

Whole ==
  /\ lines \in Seq(Rec \union Snapshot)
  /\ \/ file = lines
     \/ file = Append(lines, Torn) /\ \E g \in Gens : failure[g]

\* A buffer that is given up, and a process that dies, leave no torn line behind.
TornIsRepaired == Restart \/ (\E g \in Gens : GiveUp(g)) => Torn \notin ToSet(file')

\* A buffer at work is alone: nothing is left to do before it, and no rewrite and no
\* failure anywhere else.
LEMMA Alone ==
  ASSUME IInv, NEW g \in Gens, AtWork(g)
  PROVE  /\ \A h \in 1 .. g - 1 : pending[h] = << >>
         /\ \A h \in Gens : h # g => rewrites[h] = << >> /\ ~failure[h] /\ ~AtWork(h)
<1>1. ready(g) /\ \A h \in Gens : h < g => h \in 1 .. g - 1
  BY StoreBoundAssumption DEF IInv, WorkWaited, Gens
<1>2. ASSUME NEW h \in 1 .. g - 1 PROVE pending[h] = << >> /\ ~AtWork(h)
  <2>1. h \in Gens /\ retired[h] /\ op[h] = "idle" /\ ~failure[h]
    BY <1>1, StoreBoundAssumption DEF ready, Gens
  <2>2. rewrites[h] = << >>
    BY <2>1, BufferTypes
  <2>. QED BY <2>1, <2>2 DEF IInv, RetiredIsDrained, AtWork, Written
<1>3. ASSUME NEW h \in Gens, g < h PROVE ~AtWork(h)
  <2>1. SUFFICES ASSUME AtWork(h) PROVE FALSE
    OBVIOUS
  <2>2. ready(h) /\ g \in 1 .. h - 1
    BY <1>3, <2>1, StoreBoundAssumption DEF IInv, WorkWaited, Gens
  <2>3. op[g] = "idle" /\ ~failure[g]
    BY <2>2 DEF ready
  <2>4. rewrites[g] = << >>
    BY <2>3, BufferTypes
  <2>. QED BY <2>3, <2>4 DEF AtWork, Written
<1>4. ASSUME NEW h \in Gens, h # g PROVE ~AtWork(h)
  <2>1. h < g \/ g < h
    BY <1>4, StoreBoundAssumption DEF Gens
  <2>. QED BY <1>1, <1>2, <1>3, <2>1
<1>. QED BY <1>2, <1>4 DEF AtWork

\* What follows a whole line begins a line of its own.
LEMMA WholeLines ==
  ASSUME NEW f \in Seq(Rec \union Snapshot)
  PROVE  /\ read(f) = f /\ Torn \notin ToSet(f)
         /\ \A s : onto(f, s) = f \o s
         /\ Append(f, Torn) = f \o <<Torn>> /\ read(Append(f, Torn)) = f
         /\ ToSet(Append(f, Torn)) = ToSet(f) \union {Torn}
<1>1. Torn \notin Rec \union Snapshot /\ f \in Seq(Line) /\ Torn \in Line
  BY EntryAssumption DEF Line
<1>2. Torn \notin ToSet(f)
  BY <1>1 DEF ToSet
<1>3. f # << >> => Last(f) # Torn
  <2>1. CASE f # << >>
    <3>1. Len(f) \in 1 .. Len(f)
      BY <2>1
    <3>2. Last(f) \in Rec \union Snapshot
      BY <3>1 DEF Last
    <3>. QED BY <1>1, <3>2
  <2>. QED BY <2>1
<1>4. Append(f, Torn) = f \o <<Torn>> /\ ToSet(Append(f, Torn)) = ToSet(f) \union {Torn}
  BY <1>1, AppendIsConcat, AppendSet
<1>5. read(Append(f, Torn)) = f
  <2>. DEFINE q == Append(f, Torn)
  <2>1. /\ q \in Seq(Line) /\ Len(q) = Len(f) + 1 /\ q[Len(f) + 1] = Torn /\ Len(f) \in Nat
        /\ \A i \in 1 .. Len(f) : q[i] = f[i]
    BY <1>1, AppendProperties
  <2>. HIDE DEF q
  <2>2. q # << >> /\ Last(q) = Torn
    BY <2>1 DEF Last
  <2>3. Front(q) = SubSeq(q, 1, Len(f)) /\ Len(f) \in 0 .. Len(q)
    BY <2>1 DEF Front
  <2>4. /\ SubSeq(q, 1, Len(f)) \in Seq(Line) /\ Len(SubSeq(q, 1, Len(f))) = Len(f)
        /\ \A i \in 1 .. Len(f) : SubSeq(q, 1, Len(f))[i] = q[i]
    BY <2>1, <2>3, PrefixProperties
  <2>5. SubSeq(q, 1, Len(f)) = f
    BY <1>1, <2>1, <2>4, SeqEqual
  <2>. QED BY <2>2, <2>3, <2>5 DEF read, q
<1>. QED BY <1>2, <1>3, <1>4, <1>5 DEF read, onto

LEMMA InitWhole == Init => Whole /\ file = lines
<1>. SUFFICES ASSUME Init PROVE Whole /\ file = lines
  OBVIOUS
<1>1. file \in Seq(Rec \union Snapshot)
  BY DEF Init
<1>. QED BY <1>1, WholeLines DEF Whole, lines

\* A buffer that appends does so behind whole lines.
LEMMA AppendsToLines ==
  ASSUME IInv, Whole, NEW g \in Gens, op[g] = "append"
  PROVE  file = lines
<1>1. AtWork(g) /\ ~failure[g]
  BY BufferTypes DEF AtWork, Written
<1>2. \A h \in Gens : ~failure[h]
  BY <1>1, Alone
<1>. QED BY <1>2 DEF Whole

LEMMA LinesAreInFile ==
  ASSUME Whole
  PROVE  ToSet(lines) \subseteq ToSet(file)
  BY WholeLines DEF Whole

\* An append that fails leaves whole records, and may leave a piece behind them.
LEMMA Pieces ==
  ASSUME NEW f \in Seq(Rec \union Snapshot), NEW s \in Seq(Rec), NEW x \in Interrupted(f, s)
  PROVE  \E n \in 0 .. Len(s) :
           /\ f \o SubSeq(s, 1, n) \in Seq(Rec \union Snapshot)
           /\ \/ x = f \o SubSeq(s, 1, n)
              \/ TornWrites /\ x = Append(f \o SubSeq(s, 1, n), Torn)
<1>1. \A n \in 0 .. Len(s) : SubSeq(s, 1, n) \in Seq(Rec)
  BY PrefixProperties
<1>2. \A t \in Seq(Rec) : f \o t \in Seq(Rec \union Snapshot)
  <2>. TAKE t \in Seq(Rec)
  <2>1. t \in Seq(Rec \union Snapshot)
    OBVIOUS
  <2>. QED BY <2>1, ConcatProperties
<1>3. CASE \E n \in 0 .. Len(s) : x = onto(f, SubSeq(s, 1, n))
  BY <1>1, <1>2, <1>3, WholeLines
<1>4. CASE TornWrites /\ \E n \in 0 .. Len(s) - 1 : x = onto(f, SubSeq(s, 1, n) \o <<Torn>>)
  <2>1. PICK n \in 0 .. Len(s) - 1 : x = onto(f, SubSeq(s, 1, n) \o <<Torn>>)
    BY <1>4
  <2>2. n \in 0 .. Len(s)
    <3>. Len(s) \in Nat
      OBVIOUS
    <3>. QED BY <2>1
  <2>3. PICK t \in Seq(Rec) : t = SubSeq(s, 1, n)
    BY <1>1, <2>2
  <2>4. x = f \o (t \o <<Torn>>)
    BY <2>1, <2>3, WholeLines
  <2>5. f \o (t \o <<Torn>>) = (f \o t) \o <<Torn>>
    <3>1. f \in Seq(Line) /\ t \in Seq(Line) /\ <<Torn>> \in Seq(Line)
      BY DEF Line
    <3>. QED BY <3>1, ConcatAssociative
  <2>6. f \o t \in Seq(Rec \union Snapshot)
    BY <1>2
  <2>7. (f \o t) \o <<Torn>> = Append(f \o t, Torn)
    BY <2>6, WholeLines
  <2>. QED BY <1>4, <2>2, <2>3, <2>4, <2>5, <2>6, <2>7
<1>. QED BY <1>3, <1>4 DEF Interrupted

\* What the steps of a chain do to the lines of the file: nothing, append or replace.
FileStep(g) ==
  \/ lines' = lines
  \/ /\ op[g] = "append"
     /\ \E n \in 0 .. Len(pending[g]) : lines' = lines \o SubSeq(pending[g], 1, n)
  \/ op[g] = "write" /\ rewrites[g] # << >> /\ lines' = <<Head(rewrites[g])>>

LEMMA FileStepWhole ==
  ASSUME IInv, Whole, NEW g \in Gens, FileStep(g)
  PROVE  lines' \in Seq(Rec \union Snapshot)
<1>1. CASE lines' = lines
  BY <1>1 DEF Whole
<1>2. ASSUME NEW n \in 0 .. Len(pending[g]), lines' = lines \o SubSeq(pending[g], 1, n)
      PROVE  lines' \in Seq(Rec \union Snapshot)
  <2>1. SubSeq(pending[g], 1, n) \in Seq(Rec)
    BY PrefixProperties, BufferTypes
  <2>2. SubSeq(pending[g], 1, n) \in Seq(Rec \union Snapshot)
    BY <2>1
  <2>. QED BY <1>2, <2>2, ConcatProperties DEF Whole
<1>3. CASE rewrites[g] # << >> /\ lines' = <<Head(rewrites[g])>>
  <2>1. Head(rewrites[g]) \in Snapshot
    BY <1>3, BufferTypes, HeadTailProperties
  <2>. QED BY <1>3, <2>1
<1>. QED BY <1>1, <1>2, <1>3 DEF FileStep

\* A piece of a batch is a piece of what is pending.
LEMMA InterruptedStep ==
  ASSUME IInv, Whole, NEW g \in Gens, op[g] = "append",
         file' \in Interrupted(file, SubSeq(pending[g], 1, batch[g]))
  PROVE  /\ \E n \in 0 .. Len(pending[g]) : lines' = lines \o SubSeq(pending[g], 1, n)
         /\ file' = lines' \/ (TornWrites /\ file' = Append(lines', Torn))
<1>. DEFINE b == SubSeq(pending[g], 1, batch[g])
<1>1. /\ pending[g] \in Seq(Rec) /\ Len(pending[g]) \in Nat
      /\ batch[g] \in 0 .. Len(pending[g])
  BY BufferTypes
<1>2. b \in Seq(Rec) /\ Len(b) = batch[g] /\ \A i \in 1 .. batch[g] : b[i] = pending[g][i]
  BY <1>1, PrefixProperties
<1>3. PICK n \in 0 .. Len(b) :
        /\ lines' = lines \o SubSeq(b, 1, n)
        /\ file' = lines' \/ (TornWrites /\ file' = Append(lines', Torn))
  <2>. HIDE DEF b
  <2>1. lines \in Seq(Rec \union Snapshot) /\ file' \in Interrupted(lines, b)
    BY AppendsToLines DEF Whole, b
  <2>2. PICK n \in 0 .. Len(b) :
          /\ lines \o SubSeq(b, 1, n) \in Seq(Rec \union Snapshot)
          /\ \/ file' = lines \o SubSeq(b, 1, n)
             \/ TornWrites /\ file' = Append(lines \o SubSeq(b, 1, n), Torn)
    BY <1>2, <2>1, Pieces
  <2>3. read(file') = lines \o SubSeq(b, 1, n)
    BY <2>2, WholeLines
  <2>. QED BY <2>2, <2>3 DEF lines
<1>4. SubSeq(b, 1, n) = SubSeq(pending[g], 1, n)
  <2>1. n \in 0 .. Len(pending[g]) /\ n \in 0 .. Len(b)
    BY <1>1, <1>2
  <2>2. /\ SubSeq(pending[g], 1, n) \in Seq(Rec) /\ Len(SubSeq(pending[g], 1, n)) = n
        /\ \A i \in 1 .. n : SubSeq(pending[g], 1, n)[i] = pending[g][i]
    BY <1>1, <2>1, PrefixProperties
  <2>3. /\ SubSeq(b, 1, n) \in Seq(Rec) /\ Len(SubSeq(b, 1, n)) = n
        /\ \A i \in 1 .. n : SubSeq(b, 1, n)[i] = b[i]
    <3>. HIDE DEF b
    <3>. QED BY <1>2, <2>1, PrefixProperties
  <2>4. \A i \in 1 .. n : SubSeq(b, 1, n)[i] = SubSeq(pending[g], 1, n)[i]
    <3>. HIDE DEF b
    <3>. QED BY <1>2, <2>1, <2>2, <2>3
  <2>. HIDE DEF b
  <2>. QED BY <2>2, <2>3, <2>4, SeqEqual
<1>5. n \in 0 .. Len(pending[g])
  BY <1>1, <1>2
<1>. QED BY <1>3, <1>4, <1>5

\* A replacement is a whole line.
LEMMA ReplacedLines ==
  ASSUME IInv, NEW g \in Gens, op[g] = "write", file' = <<Head(rewrites[g])>>
  PROVE  lines' = <<Head(rewrites[g])>> /\ lines' = file' /\ FileStep(g)
<1>1. rewrites[g] # << >> /\ Head(rewrites[g]) \in Snapshot
  BY BufferTypes, HeadTailProperties
<1>2. <<Head(rewrites[g])>> \in Seq(Rec \union Snapshot)
  BY <1>1
<1>3. read(<<Head(rewrites[g])>>) = <<Head(rewrites[g])>>
  BY <1>2, WholeLines
<1>. QED BY <1>1, <1>3 DEF lines, FileStep

\* A whole batch lands behind whole lines.
LEMMA LandedLines ==
  ASSUME IInv, Whole, NEW g \in Gens, AppendDone(g)
  PROVE  /\ lines' = lines \o SubSeq(pending[g], 1, batch[g]) /\ lines' = file' /\ FileStep(g)
<1>1. op[g] = "append" /\ batch[g] \in 0 .. Len(pending[g]) /\ pending[g] \in Seq(Rec)
  BY BufferTypes DEF AppendDone
<1>2. PICK t \in Seq(Rec) : t = SubSeq(pending[g], 1, batch[g])
  BY <1>1, PrefixProperties
<1>3. file' = lines \o t /\ lines \o t \in Seq(Rec \union Snapshot)
  <2>1. t \in Seq(Rec \union Snapshot) /\ lines \in Seq(Rec \union Snapshot)
    BY DEF Whole
  <2>2. file' = onto(lines, t)
    BY <1>1, <1>2, AppendsToLines DEF AppendDone
  <2>. QED BY <2>1, <2>2, WholeLines, ConcatProperties
<1>4. read(file') = file'
  BY <1>3, WholeLines
<1>. QED BY <1>1, <1>2, <1>3, <1>4 DEF lines, FileStep

\* A torn line is left by an append that fails or is interrupted only.
LEMMA WorkOnLines ==
  ASSUME IInv, Whole, NEW g \in Gens, Work(g)
  PROVE  /\ FileStep(g)
         /\ \/ file' = lines'
            \/ file' = Append(lines', Torn) /\ failure'[g] /\ (TornWrites \/ file # lines)
            \/ file' = Append(lines', Torn) /\ file # lines /\ (failure' = failure \/ GiveUp(g))
<1>1. CASE AppendDone(g)
  BY <1>1, LandedLines
<1>2. CASE AppendFails(g)
  <2>1. failure'[g]
    BY <1>2, BufferTypes DEF AppendFails
  <2>. QED BY <1>2, <2>1, InterruptedStep DEF AppendFails, FileStep
<1>3. CASE WriteDone(g)
  BY <1>3, ReplacedLines DEF WriteDone
<1>4. CASE WriteFails(g)
  <2>1. op[g] = "write" /\ failure'[g] /\ (file' = file \/ file' = <<Head(rewrites[g])>>)
    BY <1>4, BufferTypes DEF WriteFails
  <2>2. CASE file' = <<Head(rewrites[g])>>
    BY <2>1, <2>2, ReplacedLines
  <2>3. CASE file' = file
    BY <2>1, <2>3 DEF lines, FileStep, Whole
  <2>. QED BY <2>1, <2>2, <2>3
<1>5. CASE ScheduledFlush(g) \/ Drain(g) \/ StartWrite(g) \/ GiveUp(g)
  <2>1. file' = file /\ (failure' = failure \/ GiveUp(g))
    BY <1>5 DEF ScheduledFlush, Drain, StartWrite, GiveUp
  <2>. QED BY <2>1 DEF lines, FileStep, Whole
<1>. QED BY <1>1, <1>2, <1>3, <1>4, <1>5 DEF Work

LEMMA RestartOnLines ==
  ASSUME IInv, Whole, Restart
  PROVE  /\ lines' \in Seq(Rec \union Snapshot)
         /\ \/ file' = lines'
            \/ file' = Append(lines', Torn) /\ (TornWrites \/ file # lines)
<1>1. CASE file' = file
  BY <1>1 DEF lines, Whole
<1>2. ASSUME NEW g \in Gens, op[g] = "append",
             file' \in Interrupted(file, SubSeq(pending[g], 1, batch[g]))
      PROVE  /\ FileStep(g)
             /\ file' = lines' \/ (TornWrites /\ file' = Append(lines', Torn))
  BY <1>2, InterruptedStep DEF FileStep
<1>3. ASSUME NEW g \in Gens, op[g] = "write", file' = <<Head(rewrites[g])>>
      PROVE  FileStep(g) /\ file' = lines'
  BY <1>3, ReplacedLines
<1>. QED BY <1>1, <1>2, <1>3, FileStepWhole DEF Restart

LEMMA NextWhole ==
  ASSUME IInv, Whole, [Next]_vars, [TornIsRepaired]_vars
  PROVE  Whole'
<1>1. CASE Call \/ UNCHANGED vars
  <2>1. file' = file /\ failure' = failure
    BY <1>1 DEF Call, AppendRecord, Rewrite, Acquire, Release, Flush, flushState, vars, bufferVars
  <2>. QED BY <2>1 DEF Whole, lines
<1>2. ASSUME NEW g \in Gens, Work(g) PROVE Whole'
  <2>1. lines' \in Seq(Rec \union Snapshot)
    BY <1>2, WorkOnLines, FileStepWhole
  <2>2. CASE file' = lines'
    BY <2>1, <2>2 DEF Whole
  <2>3. CASE file' = Append(lines', Torn) /\ failure'[g]
    BY <2>1, <2>3 DEF Whole
  <2>4. CASE file' = Append(lines', Torn) /\ file # lines /\ failure' = failure
    BY <2>1, <2>4 DEF Whole
  <2>5. CASE file' = Append(lines', Torn) /\ GiveUp(g)
    <3>1. failure' # failure
      BY <2>5, BufferTypes DEF GiveUp
    <3>2. Torn \notin ToSet(file')
      BY <2>5, <3>1 DEF TornIsRepaired, vars, bufferVars
    <3>. QED BY <2>1, <2>5, <3>2, WholeLines
  <2>. QED BY <1>2, <2>2, <2>3, <2>4, <2>5, WorkOnLines
<1>3. CASE Restart
  <2>1. restarts' # restarts
    BY <1>3 DEF Restart, IInv, TypeOK
  <2>2. Torn \notin ToSet(file')
    BY <1>3, <2>1 DEF TornIsRepaired, vars
  <2>3. file' = lines'
    BY <1>3, <2>2, RestartOnLines, WholeLines
  <2>. QED BY <1>3, <2>3, RestartOnLines DEF Whole
<1>. QED BY <1>1, <1>2, <1>3 DEF Next

\* If writes are not torn there is nothing to repair.
LEMMA NextUntorn ==
  ASSUME IInv, Whole, file = lines, ~TornWrites, [Next]_vars
  PROVE  file' = lines' /\ TornIsRepaired
<1>1. CASE Call \/ UNCHANGED vars
  <2>1. file' = file
    BY <1>1 DEF Call, AppendRecord, Rewrite, Acquire, Release, Flush, flushState, vars, bufferVars
  <2>. QED BY <2>1, WholeLines DEF Whole, lines, TornIsRepaired
<1>2. ASSUME NEW g \in Gens, Work(g) PROVE file' = lines' /\ lines' \in Seq(Rec \union Snapshot)
  BY <1>2, WorkOnLines, FileStepWhole
<1>3. CASE Restart
  BY <1>3, RestartOnLines, WholeLines DEF TornIsRepaired
<1>. QED BY <1>1, <1>2, <1>3, WholeLines DEF Next, TornIsRepaired

----------------------------------------------------------------------------
(* What a call of flush() waits for. *)

\* The call waits for as many promises as the chain had when it was made.  What it
\* asked for is pending; once it has landed, no rewrite was called before, so that
\* the next promise to settle is the last one the call waits for.
FlushFollows ==
  flushGen # 0 =>
    /\ op[flushGen] # "idle"
    /\ flushAhead <= 1 + Waiting(flushGen)
    /\ \A r \in flushAsked :
         \/ r \in ToSet(pending[flushGen])
         \/ /\ r \in ToSet(lines) /\ flushAhead = 1
            /\ op[flushGen] \in {"drain", "append"} /\ ready(flushGen)

LEMMA WaitingTypes ==
  ASSUME IInv, NEW g \in Gens
  PROVE  /\ Len(rewrites[g]) \in Nat /\ flushAhead \in Nat
         /\ Waiting(g) = Len(rewrites[g]) - (IF op[g] \in {"prior", "write"} THEN 1 ELSE 0)
         /\ Waiting(g) \in Int
         /\ flushGen = g => flushAhead > 0
         /\ rewrites[g] = << >> <=> Len(rewrites[g]) = 0
<1>1. rewrites[g] \in Seq(Snapshot) /\ flushAhead \in Nat /\ Len(rewrites[g]) \in Nat
  BY DEF IInv, TypeOK
<1>2. flushGen = g => flushAhead > 0
  BY StoreBoundAssumption DEF IInv, FlushWaits, Gens
<1>3. Waiting(g) = Len(rewrites[g]) - (IF op[g] \in {"prior", "write"} THEN 1 ELSE 0)
  BY DEF Waiting
<1>4. rewrites[g] = << >> <=> Len(rewrites[g]) = 0
  BY <1>1
<1>. QED BY <1>1, <1>2, <1>3, <1>4

\* While another buffer works the one a call waits for stands still, with
\* everything that was asked for still pending.
LEMMA OthersFollow ==
  ASSUME IInv, FlushFollows, NEW g \in Gens, ChainStep(g), flushGen # g
  PROVE  FlushFollows'
<1>1. UNCHANGED flushVars
  BY DEF ChainStep, settleFlush
<1>. SUFFICES ASSUME flushGen # 0 PROVE FlushFollows'
  BY <1>1 DEF FlushFollows, lines, flushVars
<1>2. PICK f \in Gens : f = flushGen /\ f # g
  BY StoreBoundAssumption DEF IInv, TypeOK, Gens
<1>3. UNCHANGED <<op[f], pending[f], rewrites[f]>>
  BY <1>2 DEF ChainStep
<1>4. ~ready(f)
  <2>0. ready(g) /\ op[g] # "idle"
    BY DEF ChainStep
  <2>1. CASE f < g
    <3>1. f \in 1 .. g - 1
      BY <2>1, StoreBoundAssumption DEF Gens
    <3>2. op[f] = "idle"
      BY <2>0, <3>1 DEF ready
    <3>. QED BY <1>2, <3>2 DEF FlushFollows, lines
  <2>2. CASE g < f
    <3>1. g \in 1 .. f - 1
      BY <2>2, StoreBoundAssumption DEF Gens
    <3>. QED BY <2>0, <3>1 DEF ready
  <2>. QED BY <1>2, <2>1, <2>2, StoreBoundAssumption DEF Gens
<1>5. op[f] # "idle" /\ flushAhead <= 1 + Waiting(f) /\ flushAsked \subseteq ToSet(pending[f])
  BY <1>2, <1>4 DEF FlushFollows, lines
<1>6. Waiting(f)' = Waiting(f)
  BY <1>3 DEF Waiting
<1>. QED BY <1>1, <1>2, <1>3, <1>5, <1>6 DEF FlushFollows, lines, flushVars

\* A promise of the chain settles: what the call asked for is still pending, or it
\* was the last one that the call waits for.
LEMMA SettlingFollows ==
  ASSUME IInv, FlushFollows, NEW g \in Gens, flushGen = g, settleFlush(g),
         pending'[g] = pending[g], rewrites'[g] \in Seq(Snapshot),
         Waiting(g) > 0 => /\ op'[g] # "idle"
                           /\ Waiting(g)' >= Waiting(g) - 1
  PROVE  FlushFollows'
<1>1. /\ g # 0 /\ flushAhead \in Nat /\ flushAhead > 0 /\ Waiting(g) \in Int
      /\ flushAhead <= 1 + Waiting(g)
  <2>1. g # 0
    BY StoreBoundAssumption DEF Gens
  <2>2. flushAhead \in Nat /\ flushAhead > 0 /\ Waiting(g) \in Int
    BY WaitingTypes
  <2>. QED BY <2>1, <2>2 DEF FlushFollows, lines
<1>2. CASE flushAhead = 1
  BY <1>2 DEF settleFlush, FlushFollows, lines
<1>3. CASE flushAhead # 1
  <2>1. flushAhead' = flushAhead - 1 /\ flushGen' = g /\ flushAsked' = flushAsked
    BY <1>3 DEF settleFlush
  <2>2. flushAsked \subseteq ToSet(pending[g])
    BY <1>1, <1>3 DEF FlushFollows, lines
  <2>3. Waiting(g)' \in Int
    BY DEF Waiting
  <2>4. flushAhead' <= 1 + Waiting(g)' /\ op'[g] # "idle"
    BY <1>1, <1>3, <2>1, <2>3
  <2>. QED BY <2>1, <2>2, <2>4 DEF FlushFollows, lines
<1>. QED BY <1>2, <1>3

\* What the property says of a step.
DurableOrCutOver == resolved => flushAsked \subseteq ToSet(file') \/ op'[flushGen] = "prior"

LEMMA DrainFollows ==
  ASSUME IInv, Whole, FlushFollows, NEW g \in Gens, flushGen = g, Drain(g)
  PROVE  FlushFollows' /\ DurableOrCutOver
<1>1. /\ op[g] = "drain" /\ ready(g) /\ g # 0 /\ op \in [Gens -> {"idle", "drain", "prior"} \union Written]
      /\ UNCHANGED <<file, current, pending, failure, owners, retired, scheduled, rewrites, used,
                     restarts>>
  BY BufferTypes, StoreBoundAssumption DEF Drain, Gens
<1>2. /\ Waiting(g) = Len(rewrites[g]) /\ Len(rewrites[g]) \in Nat
      /\ rewrites[g] = << >> <=> Len(rewrites[g]) = 0
  <2>1. Waiting(g) = Len(rewrites[g]) - (IF op[g] \in {"prior", "write"} THEN 1 ELSE 0)
    BY WaitingTypes
  <2>2. Len(rewrites[g]) \in Nat /\ (rewrites[g] = << >> <=> Len(rewrites[g]) = 0)
    BY WaitingTypes
  <2>. QED BY <1>1, <2>1, <2>2
<1>3. CASE cutoverPassed(g) \/ pending[g] = << >>
  <2>1. /\ op' = [op EXCEPT ![g] = IF rewrites[g] # << >> THEN "prior" ELSE "idle"]
        /\ settleFlush(g)
    BY <1>3 DEF Drain, settle, settleChain
  <2>2. Waiting(g) > 0 => op'[g] = "prior" /\ Waiting(g)' = Waiting(g) - 1
    <3>1. ASSUME Waiting(g) > 0 PROVE op'[g] = "prior"
      BY <1>1, <1>2, <2>1, <3>1
    <3>2. Waiting(g)' = Len(rewrites[g]) - (IF op'[g] \in {"prior", "write"} THEN 1 ELSE 0)
      BY <1>1 DEF Waiting
    <3>. QED BY <1>2, <3>1, <3>2
  <2>3. rewrites'[g] \in Seq(Snapshot)
    BY <1>1, BufferTypes
  <2>4. FlushFollows'
    BY <1>1, <1>2, <2>1, <2>2, <2>3, SettlingFollows
  <2>5. CASE rewrites[g] # << >>
    BY <1>1, <2>1, <2>4, <2>5 DEF DurableOrCutOver
  <2>6. CASE rewrites[g] = << >>
    <3>1. ToSet(pending[g]) = {}
      BY <1>3, <2>6 DEF cutoverPassed, ToSet
    <3>2. flushAsked \subseteq ToSet(lines)
      BY <1>1, <3>1 DEF FlushFollows
    <3>. QED BY <1>1, <2>4, <3>2, LinesAreInFile DEF DurableOrCutOver
  <2>. QED BY <2>4, <2>5, <2>6
<1>4. CASE ~(cutoverPassed(g) \/ pending[g] = << >>)
  <2>1. op' = [op EXCEPT ![g] = "append"] /\ UNCHANGED flushVars
    BY <1>4 DEF Drain, appendBatch
  <2>2. Waiting(g)' = Waiting(g) /\ op'[g] = "append"
    BY <1>1, <2>1 DEF Waiting
  <2>3. ready(g)'
    BY <1>1, <2>1, StoreBoundAssumption DEF ready, Gens
  <2>4. FlushFollows'
    BY <1>1, <2>1, <2>2, <2>3 DEF FlushFollows, lines, flushVars
  <2>. QED BY <1>1, <2>1, <2>4 DEF DurableOrCutOver, resolved, flushVars
<1>. QED BY <1>3, <1>4

LEMMA AppendDoneFollows ==
  ASSUME IInv, Whole, FlushFollows, NEW g \in Gens, flushGen = g, AppendDone(g)
  PROVE  FlushFollows' /\ DurableOrCutOver
<1>. DEFINE first == SubSeq(pending[g], 1, batch[g])
            rest == SubSeq(pending[g], batch[g] + 1, Len(pending[g]))
<1>1. /\ op[g] = "append" /\ ready(g) /\ g # 0
      /\ op \in [Gens -> {"idle", "drain", "prior"} \union Written]
      /\ pending \in [Gens -> Seq(Rec)] /\ batch[g] \in 0 .. Len(pending[g])
      /\ UNCHANGED <<current, failure, owners, retired, scheduled, rewrites, used, restarts>>
  BY BufferTypes, StoreBoundAssumption DEF AppendDone, Gens, Written
<1>2. Waiting(g) = Len(rewrites[g]) /\ Len(rewrites[g]) \in Nat
      /\ (rewrites[g] = << >> <=> Len(rewrites[g]) = 0)
  <2>1. Waiting(g) = Len(rewrites[g]) - (IF op[g] \in {"prior", "write"} THEN 1 ELSE 0)
    BY WaitingTypes
  <2>2. Len(rewrites[g]) \in Nat /\ (rewrites[g] = << >> <=> Len(rewrites[g]) = 0)
    BY WaitingTypes
  <2>. QED BY <1>1, <2>1, <2>2
<1>3. CASE cutoverPassed(g)
  <2>1. /\ op' = [op EXCEPT ![g] = IF rewrites[g] # << >> THEN "prior" ELSE "idle"]
        /\ settleFlush(g) /\ pending' = pending
    BY <1>3 DEF AppendDone, settle, settleChain
  <2>2. op'[g] = "prior"
    BY <1>1, <1>3, <2>1 DEF cutoverPassed
  <2>3. Waiting(g)' = Waiting(g) - 1
    <3>1. Waiting(g)' = Len(rewrites[g]) - 1
      BY <1>1, <2>2 DEF Waiting
    <3>. QED BY <1>2, <3>1
  <2>4. rewrites'[g] \in Seq(Snapshot) /\ pending'[g] = pending[g]
    BY <1>1, <2>1, BufferTypes
  <2>5. FlushFollows'
    BY <1>2, <2>1, <2>2, <2>3, <2>4, SettlingFollows
  <2>. QED BY <2>2, <2>5 DEF DurableOrCutOver
<1>4. CASE ~cutoverPassed(g)
  <2>1. /\ pending' = [pending EXCEPT ![g] = rest] /\ UNCHANGED flushVars
        /\ op' = [op EXCEPT ![g] = "append"] \/ op' = [op EXCEPT ![g] = "drain"]
    BY <1>4 DEF AppendDone, appendBatch, startDrain
  <2>2. rewrites[g] = << >> /\ Waiting(g) = 0 /\ Waiting(g)' = 0
    <3>1. rewrites[g] = << >> /\ Waiting(g) = 0
      BY <1>2, <1>4 DEF cutoverPassed
    <3>2. op'[g] \in {"append", "drain"}
      BY <1>1, <2>1
    <3>3. Waiting(g)' = Len(rewrites[g]) - 0
      BY <1>1, <3>2 DEF Waiting
    <3>. QED BY <1>2, <3>1, <3>3
  <2>3. flushAhead = 1
    <3>1. flushAhead \in Nat /\ flushAhead > 0
      BY WaitingTypes
    <3>. QED BY <1>1, <2>2, <3>1 DEF FlushFollows, lines
  <2>4. first \in Seq(Rec) /\ ToSet(pending[g]) = ToSet(first) \union ToSet(rest)
    BY <1>1, PrefixProperties, SplitSet
  <2>5. ToSet(lines') = ToSet(lines) \union ToSet(first)
    <3>. HIDE DEF first
    <3>1. lines' = lines \o first
      BY LandedLines DEF first
    <3>2. first \in Seq(Rec \union Snapshot)
      BY <2>4
    <3>. QED BY <3>1, <3>2, ConcatSet DEF Whole
  <2>6. ready(g)'
    BY <1>1, <2>1, StoreBoundAssumption DEF ready, Gens
  <2>7. pending'[g] = rest /\ op'[g] \in {"drain", "append"}
    BY <1>1, <2>1
  <2>. HIDE DEF first, rest
  <2>8. \A r \in flushAsked : r \in ToSet(pending'[g]) \/ r \in ToSet(lines')
    BY <1>1, <2>4, <2>5, <2>7 DEF FlushFollows, lines
  <2>9. FlushFollows'
    BY <2>1, <2>2, <2>3, <2>6, <2>7, <2>8 DEF FlushFollows, lines, flushVars
  <2>. QED BY <1>1, <2>1, <2>9 DEF DurableOrCutOver, resolved, flushVars
<1>. QED BY <1>3, <1>4

LEMMA AppendFailsFollows ==
  ASSUME IInv, FlushFollows, NEW g \in Gens, flushGen = g, AppendFails(g)
  PROVE  FlushFollows' /\ DurableOrCutOver
<1>1. /\ op[g] = "append" /\ op' = [op EXCEPT ![g] = IF rewrites[g] # << >> THEN "prior" ELSE "idle"]
      /\ settleFlush(g) /\ failure' = [failure EXCEPT ![g] = TRUE]
      /\ UNCHANGED <<pending, rewrites>>
      /\ op \in [Gens -> {"idle", "drain", "prior"} \union Written] /\ failure \in [Gens -> BOOLEAN]
      /\ rewrites[g] \in Seq(Snapshot)
  BY BufferTypes DEF AppendFails, settle, settleChain
<1>2. Waiting(g) = Len(rewrites[g]) /\ Len(rewrites[g]) \in Nat
      /\ (rewrites[g] = << >> <=> Len(rewrites[g]) = 0)
  <2>1. Waiting(g) = Len(rewrites[g]) - (IF op[g] \in {"prior", "write"} THEN 1 ELSE 0)
    BY WaitingTypes
  <2>2. Len(rewrites[g]) \in Nat /\ (rewrites[g] = << >> <=> Len(rewrites[g]) = 0)
    BY WaitingTypes
  <2>. QED BY <1>1, <2>1, <2>2
<1>3. ASSUME Waiting(g) > 0 PROVE op'[g] = "prior" /\ Waiting(g)' = Waiting(g) - 1
  <2>1. op'[g] = "prior"
    BY <1>1, <1>2, <1>3
  <2>2. Waiting(g)' = Len(rewrites[g]) - 1
    BY <1>1, <2>1 DEF Waiting
  <2>. QED BY <1>2, <2>1, <2>2
<1>4. FlushFollows'
  <2>1. Waiting(g) > 0 => op'[g] # "idle" /\ Waiting(g)' >= Waiting(g) - 1
    BY <1>2, <1>3
  <2>. QED BY <1>1, <2>1, SettlingFollows
<1>5. failure'[g]
  BY <1>1
<1>. QED BY <1>4, <1>5 DEF DurableOrCutOver, resolved

LEMMA StartWriteFollows ==
  ASSUME IInv, FlushFollows, NEW g \in Gens, flushGen = g, StartWrite(g)
  PROVE  FlushFollows' /\ DurableOrCutOver
<1>1. /\ op[g] = "prior" /\ op'[g] = "write" /\ g # 0
      /\ UNCHANGED <<pending, rewrites, flushGen, flushAhead, flushAsked>>
  BY BufferTypes, StoreBoundAssumption DEF StartWrite, flushVars, Gens
<1>2. Waiting(g)' = Waiting(g)
  BY <1>1 DEF Waiting
<1>3. FlushFollows'
  BY <1>1, <1>2 DEF FlushFollows, lines
<1>. QED BY <1>1, <1>3 DEF DurableOrCutOver, resolved

\* A rewrite ends.
LEMMA WriteFollows ==
  ASSUME IInv, FlushFollows, NEW g \in Gens, flushGen = g, WriteDone(g) \/ WriteFails(g)
  PROVE  FlushFollows' /\ DurableOrCutOver
<1>1. /\ op[g] = "write" /\ g # 0
      /\ rewrites' = [rewrites EXCEPT ![g] = Tail(@)] /\ pending' = pending
      /\ op \in [Gens -> {"idle", "drain", "prior"} \union Written] /\ failure \in [Gens -> BOOLEAN]
      /\ rewrites \in [Gens -> Seq(Snapshot)] /\ rewrites[g] # << >>
  <2>1. op[g] = "write" /\ rewrites' = [rewrites EXCEPT ![g] = Tail(@)] /\ pending' = pending
    BY DEF WriteDone, WriteFails
  <2>2. g # 0
    BY StoreBoundAssumption DEF Gens
  <2>. QED BY <2>1, <2>2, BufferTypes
<1>2. PICK n \in Nat : n = Len(rewrites[g])
  BY <1>1
<1>3. /\ n > 0 /\ Waiting(g) = n - 1
      /\ rewrites'[g] \in Seq(Snapshot) /\ Len(rewrites'[g]) = n - 1
  <2>1. Waiting(g) = n - (IF op[g] \in {"prior", "write"} THEN 1 ELSE 0)
    BY <1>2 DEF Waiting
  <2>2. n # 0
    BY <1>1, <1>2
  <2>3. rewrites'[g] \in Seq(Snapshot) /\ Len(rewrites'[g]) = Len(rewrites[g]) - 1
    BY <1>1, HeadTailProperties
  <2>. QED BY <1>1, <1>2, <2>1, <2>2, <2>3
<1>4. flushAsked \subseteq ToSet(pending[g]) /\ flushAhead <= 1 + Waiting(g)
  BY <1>1 DEF FlushFollows, lines
<1>5. CASE n > 1
  <2>1. op'[g] = "prior" /\ settleFlush(g)
    BY <1>1, <1>2, <1>5 DEF WriteDone, WriteFails
  <2>2. Waiting(g)' = Waiting(g) - 1
    <3>1. Waiting(g)' = Len(rewrites'[g]) - 1
      BY <2>1 DEF Waiting
    <3>. QED BY <1>3, <3>1
  <2>3. FlushFollows'
    <3>1. op'[g] # "idle" /\ Waiting(g)' >= Waiting(g) - 1
      BY <1>3, <2>1, <2>2
    <3>. QED BY <1>1, <1>3, <2>1, <3>1, SettlingFollows
  <2>. QED BY <2>1, <2>3 DEF DurableOrCutOver
<1>6. CASE ~(n > 1) /\ WriteDone(g)
  <2>1. op'[g] = "drain" /\ UNCHANGED flushVars
    BY <1>1, <1>2, <1>6 DEF WriteDone, drainBehind, startDrain
  <2>2. Waiting(g) = 0 /\ Waiting(g)' = 0
    <3>1. Waiting(g) = 0 /\ Len(rewrites'[g]) = 0
      BY <1>3, <1>6
    <3>2. Waiting(g)' = Len(rewrites'[g]) - 0
      BY <2>1 DEF Waiting
    <3>. QED BY <3>1, <3>2
  <2>3. FlushFollows'
    BY <1>1, <1>4, <2>1, <2>2 DEF FlushFollows, lines, flushVars
  <2>. QED BY <1>1, <2>1, <2>3 DEF DurableOrCutOver, resolved, flushVars
<1>7. CASE ~(n > 1) /\ WriteFails(g)
  <2>1. failure'[g] /\ settleFlush(g)
    BY <1>1, <1>2, <1>7 DEF WriteFails
  <2>2. FlushFollows'
    <3>1. ~(Waiting(g) > 0)
      BY <1>3, <1>7
    <3>. QED BY <1>1, <1>3, <2>1, <3>1, SettlingFollows
  <2>. QED BY <2>1, <2>2 DEF DurableOrCutOver, resolved
<1>. QED BY <1>5, <1>6, <1>7

\* The call waits as long as its buffer works as before, with all that was pending;
\* a buffer that begins to work is not one that the buffer of the call waited for.
LEMMA StillFollows ==
  ASSUME IInv, FlushFollows, UNCHANGED <<file, flushVars>>,
         \A g \in Gens : g = flushGen /\ op[g] # "idle" =>
           /\ op'[g] = op[g] /\ Waiting(g)' >= Waiting(g)
           /\ ToSet(pending[g]) \subseteq ToSet(pending'[g])
           /\ ready(g) => ready(g)'
  PROVE  FlushFollows' /\ DurableOrCutOver
<1>1. DurableOrCutOver
  BY DEF DurableOrCutOver, resolved, flushVars
<1>. SUFFICES ASSUME flushGen # 0 PROVE FlushFollows'
  BY <1>1 DEF FlushFollows, lines, flushVars
<1>2. PICK f \in Gens : f = flushGen
  BY StoreBoundAssumption DEF IInv, TypeOK, Gens
<1>3. /\ op[f] # "idle" /\ op'[f] = op[f] /\ Waiting(f)' >= Waiting(f)
      /\ ToSet(pending[f]) \subseteq ToSet(pending'[f])
      /\ ready(f) => ready(f)'
  BY <1>2 DEF FlushFollows, lines
<1>4. flushAhead' <= 1 + Waiting(f)'
  <2>1. Waiting(f) \in Int /\ Waiting(f)' \in Int /\ flushAhead \in Nat
    BY <1>2, WaitingTypes DEF Waiting
  <2>. QED BY <1>2, <1>3, <2>1 DEF FlushFollows, lines, flushVars
<1>. QED BY <1>2, <1>3, <1>4 DEF FlushFollows, lines, flushVars

\* The buffer of the call is not beyond the current one.
LEMMA FlushedIsOpen ==
  ASSUME IInv, FlushFollows, flushGen # 0
  PROVE  flushGen \in Gens /\ flushGen <= current /\ op[flushGen] # "idle"
<1>1. flushGen \in Gens /\ current \in Gens /\ op[flushGen] # "idle"
  BY StoreBoundAssumption DEF IInv, TypeOK, Gens, FlushFollows, lines
<1>. QED BY <1>1, StoreBoundAssumption DEF IInv, GenerationsInOrder, Untouched, Gens

LEMMA CallsFollow ==
  ASSUME IInv, FlushFollows, Acquire \/ Release \/ (\E r \in Rec : AppendRecord(r))
  PROVE  FlushFollows' /\ DurableOrCutOver
<1>1. CASE Acquire
  BY <1>1, StillFollows, WaitingTypes DEF Acquire, Waiting, ready
<1>2. ASSUME NEW r \in Rec, AppendRecord(r) PROVE FlushFollows' /\ DurableOrCutOver
  <2>1. /\ Buffer \in Gens /\ pending' = [pending EXCEPT ![Buffer] = Append(@, r)]
        /\ UNCHANGED <<file, flushVars, failure, retired, op, rewrites>>
    BY <1>2, BufferIsOpen DEF AppendRecord
  <2>2. ASSUME NEW g \in Gens PROVE ToSet(pending[g]) \subseteq ToSet(pending'[g])
    BY <2>1, AppendSet DEF IInv, TypeOK
  <2>3. ASSUME NEW g \in Gens PROVE Waiting(g)' = Waiting(g) /\ Waiting(g) \in Int /\ ready(g)' = ready(g)
    BY <2>1, WaitingTypes DEF Waiting, ready
  <2>. QED BY <2>1, <2>2, <2>3, StillFollows
<1>3. CASE Release
  <2>. DEFINE c == current
  <2>1. /\ c \in Gens /\ retired \in [Gens -> BOOLEAN]
        /\ op \in [Gens -> {"idle", "drain", "prior"} \union Written]
        /\ UNCHANGED <<file, flushVars, failure, pending, rewrites>>
        /\ retired' = [retired EXCEPT ![c] = TRUE] \/ UNCHANGED retired
        /\ \/ op[c] = "idle" /\ op' = [op EXCEPT ![c] = "drain"]
           \/ UNCHANGED op
    BY <1>3 DEF Release, startDrain, IInv, TypeOK
  <2>2. ASSUME NEW g \in Gens, g = flushGen, op[g] # "idle"
        PROVE  op'[g] = op[g] /\ (ready(g) => ready(g)') /\ Waiting(g)' >= Waiting(g)
    <3>1. op'[g] = op[g]
      BY <2>1, <2>2
    <3>2. g <= c
      BY <2>2, FlushedIsOpen, StoreBoundAssumption DEF Gens
    <3>3. ready(g) => ready(g)'
      BY <2>1, <3>2, StoreBoundAssumption DEF ready, Gens
    <3>4. Waiting(g)' = Waiting(g) /\ Waiting(g) \in Int
      BY <2>1, <3>1, WaitingTypes DEF Waiting
    <3>. QED BY <3>1, <3>3, <3>4
  <2>. QED BY <2>1, <2>2, StillFollows
<1>. QED BY <1>1, <1>2, <1>3

\* A rewrite that is called waits behind the promise that the call waits for.
LEMMA RewriteFollows ==
  ASSUME IInv, FlushFollows, NEW s \in Snapshot, Rewrite(s)
  PROVE  FlushFollows' /\ DurableOrCutOver
<1>. DEFINE b == Buffer
<1>1. /\ b \in Gens /\ b \in {current, current + 1} /\ current \in Gens
      /\ rewrites \in [Gens -> Seq(Snapshot)]
      /\ op \in [Gens -> {"idle", "drain", "prior"} \union Written]
      /\ rewrites' = [rewrites EXCEPT ![b] = Append(@, s)]
      /\ op' = [op EXCEPT ![b] = IF @ = "idle" THEN "prior" ELSE @]
      /\ UNCHANGED <<file, flushVars, failure, pending, retired>>
  BY BufferIsOpen DEF Rewrite, IInv, TypeOK
<1>. HIDE DEF b
<1>2. ASSUME NEW g \in Gens, g = flushGen, op[g] # "idle"
      PROVE  op'[g] = op[g] /\ (ready(g) => ready(g)') /\ Waiting(g)' >= Waiting(g)
  <2>1. op'[g] = op[g]
    BY <1>1, <1>2
  <2>2. g <= b
    BY <1>1, <1>2, FlushedIsOpen, StoreBoundAssumption DEF Gens
  <2>3. ready(g) => ready(g)'
    BY <1>1, <2>2, StoreBoundAssumption DEF ready, Gens
  <2>4. Len(rewrites'[g]) >= Len(rewrites[g]) /\ Len(rewrites[g]) \in Nat /\ Len(rewrites'[g]) \in Nat
    <3>1. rewrites[g] \in Seq(Snapshot) /\ Len(rewrites[g]) \in Nat
      BY <1>1
    <3>2. CASE g = b
      <4>1. rewrites'[g] = Append(rewrites[g], s)
        BY <1>1, <3>2
      <4>. QED BY <3>1, <4>1, AppendProperties
    <3>3. CASE g # b
      BY <1>1, <3>1, <3>3
    <3>. QED BY <3>2, <3>3
  <2>5. Waiting(g)' >= Waiting(g)
    <3>. DEFINE d == IF op[g] \in {"prior", "write"} THEN 1 ELSE 0
    <3>1. Waiting(g) = Len(rewrites[g]) - d /\ Waiting(g)' = Len(rewrites'[g]) - d /\ d \in Int
      BY <2>1 DEF Waiting
    <3>. HIDE DEF d
    <3>. QED BY <2>4, <3>1
  <2>. QED BY <2>1, <2>3, <2>5
<1>. QED BY <1>1, <1>2, StillFollows

\* The call of flush() itself.
LEMMA FlushBegins ==
  ASSUME IInv, FlushFollows, Flush
  PROVE  FlushFollows' /\ DurableOrCutOver
<1>1. PICK g \in Gens : flushState(g)
  BY BufferIsOpen DEF Flush, IInv, TypeOK
<1>2. /\ flushGen = 0 /\ flushGen' = g /\ flushAsked' = ToSet(pending[g])
      /\ UNCHANGED <<pending, rewrites>>
      /\ op \in [Gens -> {"idle", "drain", "prior"} \union Written]
  BY <1>1, BufferTypes DEF flushState
<1>3. op'[g] # "idle" /\ flushAhead' <= 1 + Waiting(g)'
  <2>1. CASE op[g] = "idle"
    <3>1. op'[g] = "drain" /\ flushAhead' = 1 /\ rewrites'[g] = << >>
      BY <1>1, <1>2, <2>1, BufferTypes DEF flushState, startDrain
    <3>2. Len(rewrites'[g]) = 0
      BY <3>1
    <3>3. Waiting(g)' = Len(rewrites'[g]) - 0
      BY <3>1 DEF Waiting
    <3>. QED BY <3>1, <3>2, <3>3
  <2>2. CASE op[g] # "idle"
    <3>1. op'[g] = op[g] /\ flushAhead' = 1 + Waiting(g) /\ Waiting(g) \in Int
      BY <1>1, <2>2, WaitingTypes DEF flushState
    <3>2. Waiting(g)' = Waiting(g)
      BY <1>2, <3>1 DEF Waiting
    <3>. QED BY <2>2, <3>1, <3>2
  <2>. QED BY <2>1, <2>2
<1>4. FlushFollows'
  BY <1>2, <1>3 DEF FlushFollows, lines
<1>. QED BY <1>2, <1>4 DEF DurableOrCutOver, resolved

LEMMA MicrotaskFollows ==
  ASSUME IInv, FlushFollows, NEW k \in Gens, ScheduledFlush(k) \/ GiveUp(k)
  PROVE  FlushFollows' /\ DurableOrCutOver
<1>1. CASE ScheduledFlush(k)
  <2>1. /\ UNCHANGED <<file, flushVars, failure, pending, retired, rewrites>>
        /\ op \in [Gens -> {"idle", "drain", "prior"} \union Written]
        /\ \/ UNCHANGED op
           \/ /\ op[k] = "idle" /\ ~failure[k] /\ pending[k] # << >>
              /\ op' = [op EXCEPT ![k] = "drain"]
    BY <1>1 DEF ScheduledFlush, startDrain, sticky, IInv, TypeOK
  <2>2. ASSUME NEW g \in Gens, g = flushGen, op[g] # "idle"
        PROVE  op'[g] = op[g] /\ (ready(g) => ready(g)') /\ Waiting(g)' >= Waiting(g)
    <3>1. op'[g] = op[g]
      BY <2>1, <2>2
    <3>2. ready(g) => ready(g)'
      BY <2>1, StoreBoundAssumption DEF ready, Gens, IInv, RetiredIsDrained
    <3>3. Waiting(g)' = Waiting(g) /\ Waiting(g) \in Int
      BY <2>1, <3>1, WaitingTypes DEF Waiting
    <3>. QED BY <3>1, <3>2, <3>3
  <2>. QED BY <2>1, <2>2, StillFollows
<1>2. CASE GiveUp(k)
  <2>1. /\ UNCHANGED <<file, flushVars, retired, rewrites, op>> /\ op[k] = "idle"
        /\ failure' = [failure EXCEPT ![k] = FALSE]
        /\ pending' = [pending EXCEPT ![k] = << >>]
        /\ failure \in [Gens -> BOOLEAN] /\ pending \in [Gens -> Seq(Rec)]
    BY <1>2 DEF GiveUp, IInv, TypeOK
  <2>2. ASSUME NEW g \in Gens, g = flushGen, op[g] # "idle"
        PROVE  /\ ready(g) => ready(g)'
               /\ Waiting(g)' >= Waiting(g) /\ pending'[g] = pending[g]
    <3>1. ready(g) => ready(g)'
      BY <2>1, StoreBoundAssumption DEF ready, Gens
    <3>2. Waiting(g)' = Waiting(g) /\ Waiting(g) \in Int
      BY <2>1, WaitingTypes DEF Waiting
    <3>3. pending'[g] = pending[g]
      BY <2>1, <2>2
    <3>. QED BY <3>1, <3>2, <3>3
  <2>. QED BY <2>1, <2>2, StillFollows
<1>. QED BY <1>1, <1>2

LEMMA WorkFollows ==
  ASSUME IInv, Whole, FlushFollows, NEW g \in Gens, Work(g)
  PROVE  FlushFollows' /\ DurableOrCutOver
<1>1. CASE ScheduledFlush(g) \/ GiveUp(g)
  BY <1>1, MicrotaskFollows
<1>2. CASE flushGen = g
  BY <1>1, <1>2, DrainFollows, AppendDoneFollows, AppendFailsFollows, StartWriteFollows,
     WriteFollows DEF Work
<1>3. CASE flushGen # g /\ ~(ScheduledFlush(g) \/ GiveUp(g))
  <2>1. ChainStep(g)
    BY <1>3, DrainIsStep, AppendDoneIsStep, AppendFailsIsStep, StartWriteIsStep, WriteDoneIsStep,
       WriteFailsIsStep DEF Work
  <2>2. UNCHANGED flushVars
    BY <1>3, <2>1 DEF ChainStep, settleFlush
  <2>. QED BY <1>3, <2>1, <2>2, OthersFollow DEF DurableOrCutOver, resolved, flushVars
<1>. QED BY <1>1, <1>2, <1>3

LEMMA NextFollows ==
  ASSUME IInv, Whole, FlushFollows, [Next]_vars
  PROVE  FlushFollows' /\ [DurableOrCutOver]_vars
<1>1. CASE Call
  BY <1>1, CallsFollow, RewriteFollows, FlushBegins DEF Call
<1>2. ASSUME NEW g \in Gens, Work(g) PROVE FlushFollows' /\ DurableOrCutOver
  BY <1>2, WorkFollows
<1>3. CASE Restart
  <2>1. flushGen' = 0 /\ restarts' # restarts
    BY <1>3 DEF Restart, IInv, TypeOK
  <2>. QED BY <2>1 DEF FlushFollows, lines, DurableOrCutOver, resolved
<1>4. CASE UNCHANGED vars
  BY <1>4 DEF vars, bufferVars, flushVars, FlushFollows, lines, ready, Waiting
<1>. QED BY <1>1, <1>2, <1>3, <1>4 DEF Next

----------------------------------------------------------------------------
(* What the interface promises.  The file holds the history, and behind it   *)
(* what has landed of the records of one buffer that are still pending: of   *)
(* the append that a rewrite is about to replace, or that has failed.        *)

Outstanding(p) == UNION {ToSet(p[g]) : g \in Gens}

\* The file f is the history h and n of the records that are pending in p for g.
Splits(f, p, h, g, n) ==
  /\ h \in Seq(Rec \union Snapshot) /\ ToSet(h) \intersect Outstanding(p) = {}
  /\ g \in Gens /\ n \in 0 .. Len(p[g])
  /\ f = h \o SubSeq(p[g], 1, n)

Holds(g) == failure[g] \/ op[g] \in {"prior", "write"}

FileHolds == \E h, g, n : Splits(lines, pending, h, g, n) /\ (n > 0 => Holds(g))

\* No record is handed to the log twice.
RecordsAreUsed == (ToSet(lines) \intersect Rec) \union Outstanding(pending) \subseteq used

\* No record is pending twice.
Distinct(p) ==
  /\ \A g \in Gens : IsInjective(p[g])
  /\ \A g, h \in Gens : g # h => ToSet(p[g]) \intersect ToSet(p[h]) = {}

LogInv == FileHolds /\ RecordsAreUsed /\ Distinct(pending)

LEMMA SplitHistory ==
  ASSUME NEW f, NEW p \in [Gens -> Seq(Rec)], NEW h, NEW g, NEW n, Splits(f, p, h, g, n)
  PROVE  SelectIn(f, Line \ Outstanding(p)) = h
<1>. DEFINE keep == Line \ Outstanding(p)
<1>1. /\ h \in Seq(Rec \union Snapshot) /\ ToSet(h) \intersect Outstanding(p) = {}
      /\ g \in Gens /\ n \in 0 .. Len(p[g]) /\ f = h \o SubSeq(p[g], 1, n)
  BY DEF Splits
<1>2. PICK w \in Seq(Rec) : w = SubSeq(p[g], 1, n) /\ ToSet(w) \subseteq ToSet(p[g])
  <2>1. p[g] \in Seq(Rec)
    BY <1>1
  <2>2. SubSeq(p[g], 1, n) \in Seq(Rec)
    BY <1>1, <2>1, PrefixProperties
  <2>3. ToSet(SubSeq(p[g], 1, n)) \subseteq ToSet(p[g])
    BY <1>1, <2>1, SplitSet
  <2>. QED BY <2>2, <2>3
<1>3. ToSet(w) \subseteq Outstanding(p)
  BY <1>1, <1>2 DEF Outstanding
<1>4. h \in Seq(Line) /\ w \in Seq(Line)
  BY <1>1 DEF Line
<1>5. /\ h \o w \in Seq(Line) /\ Len(h \o w) = Len(h) + Len(w) /\ Len(h) \in Nat /\ Len(w) \in Nat
      /\ \A i \in 1 .. Len(h) + Len(w) : (h \o w)[i] = IF i <= Len(h) THEN h[i] ELSE w[i - Len(h)]
  BY <1>4, ConcatProperties
<1>6. ASSUME NEW i \in 1 .. Len(h) PROVE (h \o w)[i] \in keep
  <2>1. (h \o w)[i] = h[i] /\ h[i] \in Line /\ i \in DOMAIN h
    BY <1>4, <1>5
  <2>2. h[i] \in ToSet(h)
    BY <2>1 DEF ToSet
  <2>. QED BY <1>1, <2>1, <2>2
<1>7. ASSUME NEW i \in Len(h) + 1 .. Len(h \o w) PROVE (h \o w)[i] \notin keep
  <2>1. i - Len(h) \in DOMAIN w /\ (h \o w)[i] = w[i - Len(h)]
    BY <1>4, <1>5
  <2>2. w[i - Len(h)] \in ToSet(w)
    BY <2>1 DEF ToSet
  <2>. QED BY <1>3, <2>1, <2>2
<1>8. SelectIn(h \o w, keep) = SubSeq(h \o w, 1, Len(h))
  <2>1. Len(h) \in 0 .. Len(h \o w)
    BY <1>5
  <2>. HIDE DEF keep
  <2>. QED BY <1>5, <1>6, <1>7, <2>1, SelectPrefix
<1>9. SubSeq(h \o w, 1, Len(h)) = h
  <2>1. Len(h) \in 0 .. Len(h)
    BY <1>5
  <2>2. SubSeq(h \o w, 1, Len(h)) = SubSeq(h, 1, Len(h))
    BY <1>4, <2>1, CutConcat
  <2>3. SubSeq(h, 1, Len(h)) = h
    BY <1>4, SubSeqFull
  <2>. QED BY <2>2, <2>3
<1>. QED BY <1>1, <1>2, <1>8, <1>9

\* A file without a record that is pending is all history.
LEMMA AllHistory ==
  ASSUME NEW f \in Seq(Rec \union Snapshot), NEW p \in [Gens -> Seq(Rec)], NEW g \in Gens,
         ToSet(f) \intersect Outstanding(p) = {}
  PROVE  Splits(f, p, f, g, 0)
<1>1. p[g] \in Seq(Rec) /\ Len(p[g]) \in Nat
  OBVIOUS
<1>2. SubSeq(p[g], 1, 0) = << >>
  BY SubSeqEmpty
<1>3. f \o << >> = f
  BY ConcatEmptySeq
<1>. QED BY <1>1, <1>2, <1>3 DEF Splits

\* Then what the interface sees is this buffer's: the first of the tail, the
\* rewrites and the failure.
LEMMA AloneSeen ==
  ASSUME IInv, NEW g \in Gens, AtWork(g)
  PROVE  /\ cutovers_ = rewrites[g] /\ (failed_ <=> failure[g])
         /\ \A n \in 0 .. Len(pending[g]) :
              Begins(tail_, pending[g], n,
                     FlattenSeq([pending EXCEPT ![g] = SubSeq(pending[g], n + 1, Len(pending[g]))]))
<1>1. /\ \A h \in 1 .. g - 1 : pending[h] = << >>
      /\ \A h \in Gens : h # g => rewrites[h] = << >> /\ ~failure[h]
  BY Alone
<1>2. /\ MaxGens \in Nat \ {0} /\ g \in 1 .. MaxGens
      /\ pending \in [1 .. MaxGens -> Seq(Rec)] /\ rewrites \in [1 .. MaxGens -> Seq(Snapshot)]
  BY BufferTypes, StoreBoundAssumption DEF Gens
<1>3. cutovers_ = rewrites[g]
  <2>1. PICK m \in Nat \ {0} : m = MaxGens
    BY <1>2
  <2>2. PICK q \in [1 .. m -> Seq(Snapshot)] : q = rewrites
    BY <1>2, <2>1
  <2>3. g \in 1 .. m /\ \A h \in 1 .. m : h # g => q[h] = << >>
    BY <1>1, <1>2, <2>1, <2>2 DEF Gens
  <2>4. FlattenSeq(q) = q[g]
    BY ONLY <2>3, FlattenOne
  <2>. QED BY <2>2, <2>4 DEF cutovers_
<1>4. failed_ <=> failure[g]
  BY <1>1 DEF failed_
<1>5. ASSUME NEW n \in 0 .. Len(pending[g])
      PROVE  Begins(tail_, pending[g], n,
                    FlattenSeq([pending EXCEPT ![g] = SubSeq(pending[g], n + 1, Len(pending[g]))]))
  <2>1. PICK m \in Nat \ {0} : m = MaxGens
    BY <1>2
  <2>2. PICK q \in [1 .. m -> Seq(Rec)] : q = pending
    BY <1>2, <2>1
  <2>3. g \in 1 .. m /\ \A h \in 1 .. g - 1 : q[h] = << >>
    BY <1>1, <1>2, <2>1, <2>2
  <2>4. n \in 0 .. Len(q[g])
    BY <1>5, <2>2
  <2>5. Begins(FlattenSeq(q), q[g], n, FlattenSeq([q EXCEPT ![g] = SubSeq(q[g], n + 1, Len(q[g]))]))
    BY ONLY <2>3, <2>4, FlattenDrop
  <2>. QED BY <2>2, <2>5 DEF tail_
<1>. QED BY <1>3, <1>4, <1>5

\* A step of the store that its callers may see as one of the interface, or not at all.
Maps == LogInv' /\ [Log!Next]_(Log!logVars)

LEMMA SeenHistory ==
  ASSUME IInv, NEW h, NEW g, NEW n, Splits(lines, pending, h, g, n)
  PROVE  history_ = h
<1>1. pending \in [Gens -> Seq(Rec)]
  BY DEF IInv, TypeOK
<1>. QED BY <1>1, SplitHistory DEF history_, outstanding, Outstanding, lines

LEMMA SeenHistoryNext ==
  ASSUME IInv', NEW h, NEW g, NEW n, Splits(lines', pending', h, g, n)
  PROVE  history_' = h
<1>1. pending' \in [Gens -> Seq(Rec)]
  BY DEF IInv, TypeOK
<1>2. SelectIn(lines', Line \ Outstanding(pending')) = h
  BY <1>1, SplitHistory
<1>. QED BY <1>2 DEF history_, outstanding, Outstanding, lines

LEMMA InitRefines == Init => LogInv /\ Log!Init
<1>. SUFFICES ASSUME Init PROVE LogInv /\ Log!Init
  OBVIOUS
<1>1. PICK s \in Snapshot : lines = <<s>> /\ used = {s}
  BY InitWhole DEF Init
<1>2. /\ pending \in [Gens -> Seq(Rec)] /\ rewrites \in [Gens -> Seq(Snapshot)]
      /\ \A g \in Gens : pending[g] = << >> /\ rewrites[g] = << >> /\ ~failure[g]
      /\ 1 \in Gens /\ IInv
  BY InitInv, StoreBoundAssumption DEF Init, everyBuffer, Gens
<1>3. ToSet(lines) = {s} /\ Outstanding(pending) = {} /\ s \notin Rec
  BY <1>1, <1>2, EntryAssumption, EmptySet DEF ToSet, Outstanding
<1>4. lines \in Seq(Rec \union Snapshot)
  BY <1>1
<1>5. Splits(lines, pending, lines, 1, 0)
  BY <1>2, <1>3, <1>4, AllHistory
<1>6. FileHolds
  BY <1>5 DEF FileHolds
<1>7. RecordsAreUsed /\ Distinct(pending)
  BY <1>2, <1>3, EmptySet DEF RecordsAreUsed, Distinct, IsInjective
<1>8. history_ = lines
  BY <1>2, <1>5, SeenHistory
<1>9. tail_ = << >> /\ cutovers_ = << >> /\ failed_ = FALSE
  BY <1>2, StoreBoundAssumption, FlattenEmpty DEF tail_, cutovers_, failed_, Gens
<1>. QED BY <1>1, <1>6, <1>7, <1>8, <1>9 DEF LogInv, Log!Init

\* What is in the file and what is pending stay, and so does the reason why some of
\* the pending records are in the file.
LEMMA StillTheSame ==
  ASSUME LogInv, UNCHANGED <<lines, pending>>, used \subseteq used',
         \A g \in Gens : Holds(g) => Holds(g)'
  PROVE  LogInv' /\ history_' = history_ /\ tail_' = tail_
<1>1. FileHolds'
  <2>1. PICK h, g, n : Splits(lines, pending, h, g, n) /\ (n > 0 => Holds(g))
    BY DEF LogInv, FileHolds
  <2>2. g \in Gens
    BY <2>1 DEF Splits
  <2>3. Splits(lines', pending', h, g, n) /\ (n > 0 => Holds(g)')
    BY <2>1, <2>2
  <2>. QED BY <2>3 DEF FileHolds
<1>2. RecordsAreUsed' /\ Distinct(pending)'
  BY DEF LogInv, RecordsAreUsed, Distinct
<1>3. history_' = history_ /\ tail_' = tail_
  BY DEF history_, tail_, outstanding, lines
<1>. QED BY <1>1, <1>2, <1>3 DEF LogInv

LEMMA Stutters ==
  ASSUME LogInv, UNCHANGED <<lines, pending, rewrites, failure, used>>,
         \A g \in Gens : Holds(g) => Holds(g)'
  PROVE  Maps
<1>1. LogInv' /\ history_' = history_ /\ tail_' = tail_
  BY StillTheSame
<1>2. cutovers_' = cutovers_ /\ failed_' = failed_
  BY DEF cutovers_, failed_
<1>. QED BY <1>1, <1>2 DEF Maps, Log!logVars

LEMMA QuietSteps ==
  ASSUME IInv, LogInv,
         \/ Acquire \/ Release \/ Flush \/ UNCHANGED vars
         \/ \E g \in Gens : ScheduledFlush(g) \/ StartWrite(g) \/ Drain(g)
  PROVE  Maps
<1>0. op \in [Gens -> {"idle", "drain", "prior"} \union Written]
  BY DEF IInv, TypeOK
<1>1. CASE Acquire \/ UNCHANGED vars
  <2>1. UNCHANGED <<lines, pending, rewrites, failure, used, op>>
    BY <1>1 DEF Acquire, vars, bufferVars, lines
  <2>2. \A g \in Gens : Holds(g) => Holds(g)'
    BY <2>1 DEF Holds
  <2>. QED BY <2>1, <2>2, Stutters
<1>2. CASE Release
  <2>1. UNCHANGED <<lines, pending, rewrites, failure, used>>
    BY <1>2 DEF Release, lines
  <2>2. op' = op \/ (op[current] = "idle" /\ op' = [op EXCEPT ![current] = "drain"])
    BY <1>2 DEF Release, startDrain
  <2>3. \A g \in Gens : Holds(g) => Holds(g)'
    BY <1>0, <2>1, <2>2 DEF Holds
  <2>. QED BY <2>1, <2>3, Stutters
<1>3. CASE Flush
  <2>1. UNCHANGED <<lines, pending, rewrites, failure, used>>
    BY <1>3 DEF Flush, flushState, lines
  <2>2. op' = op \/ \E g : op[g] = "idle" /\ op' = [op EXCEPT ![g] = "drain"]
    BY <1>3 DEF Flush, flushState, startDrain
  <2>3. \A g \in Gens : Holds(g) => Holds(g)'
    BY <1>0, <2>1, <2>2 DEF Holds
  <2>. QED BY <2>1, <2>3, Stutters
<1>4. ASSUME NEW g \in Gens, ScheduledFlush(g) \/ StartWrite(g) \/ Drain(g)
      PROVE  Maps
  <2>1. UNCHANGED <<lines, pending, rewrites, failure, used>>
    BY <1>4 DEF ScheduledFlush, StartWrite, Drain, lines
  <2>2. \/ op' = op
        \/ op[g] = "prior" /\ op' = [op EXCEPT ![g] = "write"]
        \/ op[g] \in {"idle", "drain"} /\ \E o : op' = [op EXCEPT ![g] = o]
    BY <1>4 DEF ScheduledFlush, StartWrite, Drain, startDrain, settle, settleChain, appendBatch
  <2>3. ASSUME NEW h \in Gens, Holds(h) PROVE Holds(h)'
    BY <1>0, <2>1, <2>2, <2>3 DEF Holds
  <2>. QED BY <2>1, <2>3, Stutters
<1>. QED BY <1>1, <1>2, <1>3, <1>4

\* The buffers behind the one that a call uses are as they were made.
LEMMA LastBuffer ==
  ASSUME IInv, useBuffer
  PROVE  /\ Buffer \in Gens /\ \A h \in Buffer + 1 .. MaxGens : pending[h] = << >> /\ rewrites[h] = << >>
<1>1. Buffer \in Gens /\ \A h \in Gens : h > Buffer => Untouched(h)
  BY BufferIsOpen
<1>2. ASSUME NEW h \in Buffer + 1 .. MaxGens PROVE pending[h] = << >> /\ rewrites[h] = << >>
  <2>1. h \in Gens /\ h > Buffer
    BY <1>1, StoreBoundAssumption DEF Gens
  <2>2. op[h] = "idle" /\ pending[h] = << >>
    BY <1>1, <2>1 DEF Untouched
  <2>. QED BY <2>1, <2>2, BufferTypes
<1>. QED BY <1>1, <1>2

\* What is outstanding when the queue of one buffer changes.
LEMMA OutstandingChange ==
  ASSUME NEW p \in [Gens -> Seq(Rec)], NEW g \in Gens, NEW s \in Seq(Rec)
  PROVE  LET q == [p EXCEPT ![g] = s]
         IN  /\ q \in [Gens -> Seq(Rec)] /\ q[g] = s /\ \A h \in Gens \ {g} : q[h] = p[h]
             /\ Outstanding(q) \subseteq Outstanding(p) \union ToSet(s)
             /\ ToSet(p[g]) \subseteq Outstanding(p)
  BY DEF Outstanding

LEMMA AppendRefines ==
  ASSUME IInv, IInv', LogInv, NEW r \in Rec, AppendRecord(r)
  PROVE  Maps
<1>. DEFINE b == Buffer
<1>1. b \in Gens /\ \A h \in b + 1 .. MaxGens : pending[h] = << >>
  BY LastBuffer DEF AppendRecord
<1>2. /\ pending' = [pending EXCEPT ![b] = Append(pending[b], r)]
      /\ used' = used \union {r} /\ r \notin used
      /\ UNCHANGED <<lines, failure, op, rewrites>>
  BY DEF AppendRecord, lines
<1>3. /\ pending \in [Gens -> Seq(Rec)] /\ pending' \in [Gens -> Seq(Rec)]
      /\ pending[b] \in Seq(Rec)
  BY <1>1, BufferTypes DEF IInv, TypeOK
<1>. HIDE DEF b
<1>4. /\ Append(pending[b], r) \in Seq(Rec)
      /\ ToSet(Append(pending[b], r)) = ToSet(pending[b]) \union {r}
      /\ IsInjective(pending[b]) /\ r \notin ToSet(pending[b]) => IsInjective(Append(pending[b], r))
  BY <1>3, AppendSet
<1>5. /\ pending'[b] = Append(pending[b], r) /\ \A h \in Gens \ {b} : pending'[h] = pending[h]
      /\ Outstanding(pending') \subseteq Outstanding(pending) \union {r}
      /\ ToSet(pending[b]) \subseteq Outstanding(pending)
  BY <1>1, <1>2, <1>3, <1>4, OutstandingChange
<1>6. r \notin Outstanding(pending) /\ r \notin ToSet(lines)
  BY <1>2 DEF LogInv, RecordsAreUsed
<1>7. RecordsAreUsed'
  BY <1>2, <1>5 DEF LogInv, RecordsAreUsed
<1>8. Distinct(pending)'
  <2>1. \A h \in Gens : r \notin ToSet(pending[h])
    BY <1>6 DEF Outstanding
  <2>2. \A h \in Gens : IsInjective(pending'[h])
    BY <1>4, <1>5, <2>1 DEF LogInv, Distinct
  <2>3. ASSUME NEW h \in Gens, NEW k \in Gens, h # k
        PROVE  ToSet(pending'[h]) \intersect ToSet(pending'[k]) = {}
    BY <1>4, <1>5, <2>1, <2>3 DEF LogInv, Distinct
  <2>. QED BY <2>2, <2>3 DEF Distinct
<1>9. PICK h, g, n : Splits(lines, pending, h, g, n) /\ (n > 0 => Holds(g))
  BY DEF LogInv, FileHolds
<1>10. /\ h \in Seq(Rec \union Snapshot) /\ ToSet(h) \intersect Outstanding(pending) = {}
       /\ g \in Gens /\ n \in 0 .. Len(pending[g]) /\ lines = h \o SubSeq(pending[g], 1, n)
  BY <1>9 DEF Splits
<1>11. n \in 0 .. Len(pending'[g]) /\ SubSeq(pending'[g], 1, n) = SubSeq(pending[g], 1, n)
  <2>1. CASE g # b
    BY <1>5, <1>10, <2>1
  <2>2. CASE g = b
    <3>1. Append(pending[b], r) = pending[b] \o <<r>> /\ <<r>> \in Seq(Rec)
      BY <1>3, AppendIsConcat
    <3>2. n \in 0 .. Len(pending[b])
      BY <1>10, <2>2
    <3>3. PICK w \in Seq(Rec) : w = pending[b]
      BY <1>3
    <3>4. n \in 0 .. Len(w \o <<r>>) /\ SubSeq(w \o <<r>>, 1, n) = SubSeq(w, 1, n)
      BY ONLY <3>1, <3>2, <3>3, CutConcat
    <3>. QED BY <1>5, <2>2, <3>1, <3>3, <3>4
  <2>. QED BY <2>1, <2>2
<1>12. r \notin ToSet(h)
  <2>1. SubSeq(pending[g], 1, n) \in Seq(Rec)
    BY <1>3, <1>10, PrefixProperties
  <2>2. PICK w \in Seq(Rec) : w = SubSeq(pending[g], 1, n)
    BY <2>1
  <2>3. ToSet(h \o w) = ToSet(h) \union ToSet(w)
    <3>1. w \in Seq(Rec \union Snapshot)
      OBVIOUS
    <3>. QED BY <1>10, <3>1, ConcatSet
  <2>. QED BY <1>6, <1>10, <2>2, <2>3
<1>13. Splits(lines', pending', h, g, n)
  BY <1>2, <1>5, <1>10, <1>11, <1>12 DEF Splits
<1>14. FileHolds'
  <2>1. n > 0 => Holds(g)'
    BY <1>2, <1>9 DEF Holds
  <2>. QED BY <1>13, <2>1 DEF FileHolds
<1>15. history_' = history_
  BY <1>9, <1>13, SeenHistory, SeenHistoryNext
<1>16. tail_' = Append(tail_, r)
  <2>1. PICK m \in Nat \ {0} : m = MaxGens
    BY StoreBoundAssumption
  <2>2. PICK q \in [1 .. m -> Seq(Rec)] : q = pending
    BY <1>3, <2>1 DEF Gens
  <2>3. r \in Rec /\ b \in 1 .. m /\ \A k \in b + 1 .. m : q[k] = << >>
    BY <1>1, <2>1, <2>2 DEF Gens
  <2>4. FlattenSeq(Longer(q, b, r)) = Append(FlattenSeq(q), r)
    BY ONLY <2>3, FlattenAppend, ZenonT(60)
  <2>. QED BY <1>2, <2>2, <2>4 DEF tail_, Longer
<1>17. cutovers_' = cutovers_ /\ failed_' = failed_
  BY <1>2 DEF cutovers_, failed_
<1>18. Log!Append_(r)
  BY <1>15, <1>16, <1>17 DEF Log!Append_
<1>. QED BY <1>7, <1>8, <1>14, <1>18 DEF Maps, LogInv, Log!Next

LEMMA RewriteRefines ==
  ASSUME IInv, LogInv, NEW s \in Snapshot, Rewrite(s)
  PROVE  Maps
<1>. DEFINE b == Buffer
<1>1. b \in Gens /\ \A h \in b + 1 .. MaxGens : rewrites[h] = << >>
  BY LastBuffer DEF Rewrite
<1>2. /\ rewrites' = [rewrites EXCEPT ![b] = Append(rewrites[b], s)]
      /\ op' = [op EXCEPT ![b] = IF @ = "idle" THEN "prior" ELSE @]
      /\ used' = used \union {s} /\ UNCHANGED <<lines, pending, failure>>
  BY DEF Rewrite, lines
<1>3. op \in [Gens -> {"idle", "drain", "prior"} \union Written] /\ rewrites \in [Gens -> Seq(Snapshot)]
  BY DEF IInv, TypeOK
<1>. HIDE DEF b
<1>4. LogInv' /\ history_' = history_ /\ tail_' = tail_
  <2>1. \A g \in Gens : Holds(g) => Holds(g)'
    BY <1>2, <1>3 DEF Holds
  <2>. QED BY <1>2, <2>1, StillTheSame
<1>5. cutovers_' = Append(cutovers_, s)
  <2>1. PICK m \in Nat \ {0} : m = MaxGens
    BY StoreBoundAssumption
  <2>2. PICK q \in [1 .. m -> Seq(Snapshot)] : q = rewrites
    BY <1>3, <2>1 DEF Gens
  <2>3. s \in Snapshot /\ b \in 1 .. m /\ \A k \in b + 1 .. m : q[k] = << >>
    BY <1>1, <2>1, <2>2 DEF Gens
  <2>4. FlattenSeq(Longer(q, b, s)) = Append(FlattenSeq(q), s)
    BY ONLY <2>3, FlattenAppend, ZenonT(60)
  <2>. QED BY <1>2, <2>2, <2>4 DEF cutovers_, Longer
<1>6. failed_' = failed_
  BY <1>2 DEF failed_
<1>7. Log!Rewrite(s)
  BY <1>4, <1>5, <1>6 DEF Log!Rewrite
<1>. QED BY <1>4, <1>7 DEF Maps, Log!Next

\* What is in the file of the records that are pending is of the buffer at work.
LEMMA HeldByOne ==
  ASSUME IInv, LogInv, NEW g \in Gens, AtWork(g)
  PROVE  \E h, n : /\ Splits(lines, pending, h, g, n) /\ (n > 0 => Holds(g))
                   /\ history_ = h /\ n \in 0 .. Len(pending[g]) /\ n \in Nat
<1>1. PICK h, k, n : Splits(lines, pending, h, k, n) /\ (n > 0 => Holds(k))
  BY DEF LogInv, FileHolds
<1>2. /\ h \in Seq(Rec \union Snapshot) /\ ToSet(h) \intersect Outstanding(pending) = {}
      /\ k \in Gens /\ n \in 0 .. Len(pending[k]) /\ lines = h \o SubSeq(pending[k], 1, n)
  BY <1>1 DEF Splits
<1>3. CASE k = g
  <2>1. n \in Nat /\ history_ = h
    BY <1>1, <1>2, BufferTypes, SeenHistory
  <2>. QED BY <1>1, <1>2, <1>3, <2>1
<1>4. CASE k # g
  <2>1. n = 0
    <3>1. ~AtWork(k)
      BY <1>2, <1>4, Alone
    <3>2. ~Holds(k)
      BY <1>2, <3>1, BufferTypes DEF AtWork, Holds, Written
    <3>. QED BY <1>1, <1>2, <3>2
  <2>2. SubSeq(pending[k], 1, 0) = SubSeq(pending[g], 1, 0) /\ 0 \in 0 .. Len(pending[g])
    BY SubSeqEmpty, BufferTypes
  <2>3. Splits(lines, pending, h, g, 0)
    BY <1>2, <2>1, <2>2 DEF Splits
  <2>. QED BY <2>2, <2>3, SeenHistory
<1>. QED BY <1>3, <1>4

\* A buffer about to append has left nothing in the file that is still pending.
LEMMA FileIsHistory ==
  ASSUME IInv, Whole, LogInv, NEW g \in Gens, op[g] = "append"
  PROVE  /\ AtWork(g) /\ ~failure[g] /\ history_ = lines
         /\ ToSet(lines) \intersect Outstanding(pending) = {}
<1>1. AtWork(g) /\ ~failure[g] /\ ~Holds(g)
  BY BufferTypes DEF AtWork, Written, Holds
<1>2. PICK h, n : /\ Splits(lines, pending, h, g, n) /\ (n > 0 => Holds(g))
                  /\ history_ = h /\ n \in 0 .. Len(pending[g]) /\ n \in Nat
  BY <1>1, HeldByOne
<1>3. n = 0
  BY <1>1, <1>2
<1>4. /\ h \in Seq(Rec \union Snapshot) /\ ToSet(h) \intersect Outstanding(pending) = {}
      /\ lines = h \o SubSeq(pending[g], 1, 0)
  BY <1>2, <1>3 DEF Splits
<1>5. SubSeq(pending[g], 1, 0) = << >> /\ h \o << >> = h
  BY <1>4, SubSeqEmpty, ConcatEmptySeq
<1>. QED BY <1>1, <1>2, <1>4, <1>5

\* The records that land in the file have been pending.
LEMMA UsedStays ==
  ASSUME LogInv, used \subseteq used', Outstanding(pending') \subseteq Outstanding(pending),
         ToSet(lines') \subseteq ToSet(lines) \union Outstanding(pending) \union Snapshot
  PROVE  RecordsAreUsed'
  BY EntryAssumption DEF LogInv, RecordsAreUsed

\* A batch or a part of it lands behind the file.
LEMMA Landing ==
  ASSUME IInv, Whole, NEW g \in Gens, NEW n \in 0 .. Len(pending[g])
  PROVE  LET w == SubSeq(pending[g], 1, n)
         IN  /\ w \in Seq(Rec) /\ ToSet(w) \subseteq ToSet(pending[g])
             /\ ToSet(pending[g]) \subseteq Outstanding(pending)
             /\ ToSet(lines \o w) = ToSet(lines) \union ToSet(w)
<1>1. pending[g] \in Seq(Rec)
  BY BufferTypes
<1>2. PICK w \in Seq(Rec) : w = SubSeq(pending[g], 1, n)
  BY <1>1, PrefixProperties
<1>3. ToSet(SubSeq(pending[g], 1, n)) \subseteq ToSet(pending[g])
  BY <1>1, SplitSet
<1>4. ToSet(lines \o w) = ToSet(lines) \union ToSet(w)
  <2>1. lines \in Seq(Rec \union Snapshot) /\ w \in Seq(Rec \union Snapshot)
    BY DEF Whole
  <2>. QED BY <2>1, ConcatSet
<1>5. ToSet(pending[g]) \subseteq Outstanding(pending)
  BY DEF Outstanding
<1>. QED BY <1>2, <1>3, <1>4, <1>5

\* A part of a batch is in the file, and the records stay pending.
LEMMA LandedPending ==
  ASSUME IInv, IInv', Whole, LogInv, NEW g \in Gens, op[g] = "append",
         NEW n \in 0 .. Len(pending[g]), lines' = lines \o SubSeq(pending[g], 1, n),
         UNCHANGED <<pending, used>>, Holds(g)'
  PROVE  LogInv' /\ history_' = history_ /\ tail_' = tail_
<1>1. history_ = lines /\ ToSet(lines) \intersect Outstanding(pending) = {}
  BY FileIsHistory
<1>2. Splits(lines', pending', lines, g, n)
  BY <1>1 DEF Splits, Whole
<1>3. history_' = lines
  BY <1>2, SeenHistoryNext
<1>4. FileHolds'
  BY <1>2 DEF FileHolds
<1>5. RecordsAreUsed'
  BY Landing, UsedStays
<1>6. Distinct(pending)' /\ tail_' = tail_
  BY DEF LogInv, Distinct, tail_
<1>. QED BY <1>1, <1>3, <1>4, <1>5, <1>6 DEF LogInv

LEMMA AppendFailsRefines ==
  ASSUME IInv, IInv', Whole, LogInv, NEW g \in Gens, AppendFails(g)
  PROVE  Maps
<1>1. /\ op[g] = "append" /\ failure' = [failure EXCEPT ![g] = TRUE]
      /\ file' \in Interrupted(file, SubSeq(pending[g], 1, batch[g]))
      /\ UNCHANGED <<pending, rewrites, used>>
  BY DEF AppendFails
<1>2. PICK n \in 0 .. Len(pending[g]) : lines' = lines \o SubSeq(pending[g], 1, n)
  BY <1>1, InterruptedStep
<1>3. failure'[g]
  BY <1>1, BufferTypes
<1>4. LogInv' /\ history_' = history_ /\ tail_' = tail_
  BY <1>1, <1>2, <1>3, LandedPending DEF Holds
<1>5. tail_ # << >>
  <2>1. AtWork(g)
    BY <1>1 DEF AtWork, Written
  <2>2. batch[g] \in 0 .. Len(pending[g]) /\ batch[g] > 0
    BY <1>1, BufferTypes
  <2>3. batch[g] \in 0 .. Len(tail_)
    BY <2>1, <2>2, AloneSeen DEF Begins
  <2>. QED BY <2>2, <2>3
<1>6. failed_' /\ cutovers_' = cutovers_
  BY <1>1, <1>3 DEF failed_, cutovers_
<1>7. Log!PersistFails
  BY <1>4, <1>5, <1>6 DEF Log!PersistFails
<1>. QED BY <1>4, <1>7 DEF Maps, Log!Next

\* The batch is durable, and no rewrite will replace it.
LEMMA PersistRefines ==
  ASSUME IInv, IInv', Whole, Whole', LogInv, NEW g \in Gens, op[g] = "append", rewrites[g] = << >>,
         lines' = lines \o SubSeq(pending[g], 1, batch[g]),
         pending' = [pending EXCEPT ![g] = SubSeq(pending[g], batch[g] + 1, Len(pending[g]))],
         UNCHANGED <<failure, rewrites, used>>
  PROVE  Maps
<1>. DEFINE w == SubSeq(pending[g], 1, batch[g])
            rest == SubSeq(pending[g], batch[g] + 1, Len(pending[g]))
<1>1. /\ AtWork(g) /\ ~failure[g] /\ history_ = lines
      /\ ToSet(lines) \intersect Outstanding(pending) = {}
  BY FileIsHistory
<1>2. /\ batch[g] \in 0 .. Len(pending[g]) /\ batch[g] > 0 /\ pending[g] \in Seq(Rec)
      /\ pending \in [Gens -> Seq(Rec)] /\ pending' \in [Gens -> Seq(Rec)]
  <2>1. pending' \in [Gens -> Seq(Rec)]
    BY DEF IInv, TypeOK
  <2>. QED BY <2>1, BufferTypes
<1>3. /\ w \in Seq(Rec) /\ ToSet(w) \subseteq ToSet(pending[g])
      /\ ToSet(pending[g]) \subseteq Outstanding(pending)
      /\ ToSet(lines \o w) = ToSet(lines) \union ToSet(w)
  BY <1>2, Landing
<1>4. rest \in Seq(Rec) /\ ToSet(rest) \subseteq ToSet(pending[g])
  BY <1>2, SuffixProperties, SplitSet
<1>5. IsInjective(rest) /\ ToSet(w) \intersect ToSet(rest) = {}
  <2>1. IsInjective(pending[g])
    BY DEF LogInv, Distinct
  <2>. QED BY <1>2, <2>1, SplitInjective
<1>6. lines' = lines \o w /\ pending' = [pending EXCEPT ![g] = rest]
  OBVIOUS
<1>. HIDE DEF w, rest
<1>7. pending'[g] = rest /\ \A h \in Gens \ {g} : pending'[h] = pending[h]
  BY <1>2, <1>6
<1>8. ToSet(w) \intersect Outstanding(pending') = {} /\ Outstanding(pending') \subseteq Outstanding(pending)
  <2>1. ASSUME NEW h \in Gens
        PROVE  /\ ToSet(w) \intersect ToSet(pending'[h]) = {}
               /\ ToSet(pending'[h]) \subseteq ToSet(pending[h])
    <3>1. CASE h = g
      BY <1>4, <1>5, <1>7, <3>1
    <3>2. CASE h # g
      BY <1>3, <1>7, <3>2 DEF LogInv, Distinct
    <3>. QED BY <3>1, <3>2
  <2>2. ToSet(w) \intersect Outstanding(pending') = {}
    BY <2>1 DEF Outstanding
  <2>3. Outstanding(pending') \subseteq Outstanding(pending)
    BY <2>1 DEF Outstanding
  <2>. QED BY <2>2, <2>3
<1>9. Splits(lines', pending', lines', g, 0)
  <2>1. ToSet(lines') \intersect Outstanding(pending') = {}
    BY <1>1, <1>3, <1>6, <1>8
  <2>. QED BY <1>2, <2>1, AllHistory DEF Whole
<1>10. FileHolds' /\ history_' = lines'
  <2>1. history_' = lines'
    BY <1>9, SeenHistoryNext
  <2>. QED BY <1>9, <2>1 DEF FileHolds
<1>11. RecordsAreUsed'
  BY <1>3, <1>6, <1>8, UsedStays
<1>12. Distinct(pending)'
  <2>1. \A h \in Gens : IsInjective(pending'[h])
    BY <1>5, <1>7 DEF LogInv, Distinct
  <2>2. ASSUME NEW h \in Gens, NEW k \in Gens, h # k
        PROVE  ToSet(pending'[h]) \intersect ToSet(pending'[k]) = {}
    BY <1>4, <1>7, <2>2 DEF LogInv, Distinct
  <2>. QED BY <2>1, <2>2 DEF Distinct
<1>13. Begins(tail_, pending[g], batch[g], tail_') /\ cutovers_ = << >> /\ ~failed_
  BY <1>1, <1>2, <1>6, AloneSeen DEF tail_, rest
<1>14. cutovers_' = cutovers_ /\ failed_' = failed_
  BY DEF cutovers_, failed_
<1>15. Log!Persist
  <2>1. /\ batch[g] \in 0 .. Len(tail_) /\ SubSeq(tail_, 1, batch[g]) = w
        /\ tail_' = SubSeq(tail_, batch[g] + 1, Len(tail_))
    BY <1>13 DEF Begins, w
  <2>2. batch[g] \in 1 .. Len(tail_)
    BY <1>2, <2>1
  <2>3. history_' = history_ \o SubSeq(tail_, 1, batch[g])
    BY <1>1, <1>6, <1>10, <2>1
  <2>. QED BY <1>13, <1>14, <2>1, <2>2, <2>3 DEF Log!Persist
<1>. QED BY <1>10, <1>11, <1>12, <1>15 DEF Maps, LogInv, Log!Next

LEMMA AppendDoneRefines ==
  ASSUME IInv, IInv', Whole, Whole', LogInv, NEW g \in Gens, AppendDone(g)
  PROVE  Maps
<1>1. op[g] = "append" /\ UNCHANGED <<failure, rewrites, used>>
  BY DEF AppendDone
<1>2. batch[g] \in 0 .. Len(pending[g])
  BY BufferTypes
<1>3. lines' = lines \o SubSeq(pending[g], 1, batch[g])
  BY LandedLines
<1>4. CASE cutoverPassed(g)
  <2>1. pending' = pending /\ op' = [op EXCEPT ![g] = "prior"]
    BY <1>4 DEF AppendDone, settle, settleChain, cutoverPassed
  <2>2. Holds(g)'
    BY <2>1, BufferTypes DEF Holds
  <2>3. LogInv' /\ history_' = history_ /\ tail_' = tail_
    BY <1>1, <1>2, <1>3, <2>1, <2>2, LandedPending
  <2>4. cutovers_' = cutovers_ /\ failed_' = failed_
    BY <1>1 DEF cutovers_, failed_
  <2>. QED BY <2>3, <2>4 DEF Maps, Log!logVars
<1>5. CASE ~cutoverPassed(g)
  <2>1. /\ rewrites[g] = << >>
        /\ pending' = [pending EXCEPT ![g] = SubSeq(pending[g], batch[g] + 1, Len(pending[g]))]
    BY <1>5 DEF AppendDone, cutoverPassed
  <2>. QED BY <1>1, <1>3, <2>1, PersistRefines
<1>. QED BY <1>4, <1>5

\* The rewrite at the file has taken the place of what was there.
LEMMA Replaced ==
  ASSUME IInv, IInv', LogInv, NEW g \in Gens, op[g] = "write", lines' = <<Head(rewrites[g])>>,
         UNCHANGED <<pending, used>>
  PROVE  LogInv' /\ history_' = <<Head(rewrites[g])>> /\ tail_' = tail_
<1>1. PICK s \in Snapshot : s = Head(rewrites[g]) /\ s \notin Rec
  BY BufferTypes, HeadTailProperties, EntryAssumption
<1>2. lines' = <<s>> /\ ToSet(<<s>>) = {s} /\ <<s>> \in Seq(Rec \union Snapshot)
  BY <1>1 DEF ToSet
<1>3. pending \in [Gens -> Seq(Rec)] /\ Outstanding(pending) \subseteq Rec
  <2>1. pending \in [Gens -> Seq(Rec)]
    BY DEF IInv, TypeOK
  <2>. QED BY <2>1 DEF Outstanding, ToSet
<1>4. Splits(lines', pending', lines', g, 0)
  BY <1>1, <1>2, <1>3, AllHistory
<1>5. FileHolds' /\ history_' = lines'
  BY <1>4, SeenHistoryNext DEF FileHolds
<1>6. RecordsAreUsed'
  BY <1>2, UsedStays
<1>7. Distinct(pending)' /\ tail_' = tail_
  BY DEF LogInv, Distinct, tail_
<1>. QED BY <1>1, <1>2, <1>5, <1>6, <1>7 DEF LogInv

\* The rewrite leaves the chain.
LEMMA CutoverLeaves ==
  ASSUME IInv, NEW g \in Gens, op[g] = "write", rewrites' = [rewrites EXCEPT ![g] = Tail(@)]
  PROVE  cutovers_ = rewrites[g] /\ cutovers_ # << >> /\ cutovers_' = Tail(cutovers_)
<1>1. AtWork(g) /\ rewrites[g] # << >> /\ rewrites \in [Gens -> Seq(Snapshot)]
  BY BufferTypes DEF AtWork, Written
<1>2. cutovers_ = rewrites[g]
  BY <1>1, AloneSeen
<1>3. Tail(rewrites[g]) \in Seq(Snapshot)
  BY <1>1, HeadTailProperties
<1>4. rewrites' \in [Gens -> Seq(Snapshot)] /\ rewrites'[g] = Tail(rewrites[g])
  BY <1>1, <1>3
<1>5. cutovers_' = rewrites'[g]
  <2>1. PICK m \in Nat \ {0} : m = MaxGens
    BY StoreBoundAssumption
  <2>2. PICK q \in [1 .. m -> Seq(Snapshot)] : q = rewrites'
    BY <1>4, <2>1 DEF Gens
  <2>3. g \in 1 .. m /\ \A h \in 1 .. m : h # g => q[h] = << >>
    <3>1. \A h \in Gens : h # g => rewrites[h] = << >>
      BY <1>1, Alone
    <3>. QED BY <1>1, <2>1, <2>2, <3>1 DEF Gens
  <2>4. FlattenSeq(q) = q[g]
    BY ONLY <2>3, FlattenOne
  <2>. QED BY <2>2, <2>4 DEF cutovers_
<1>. QED BY <1>1, <1>2, <1>4, <1>5

LEMMA WriteRefines ==
  ASSUME IInv, IInv', LogInv, NEW g \in Gens, WriteDone(g) \/ WriteFails(g)
  PROVE  Maps
<1>1. /\ op[g] = "write" /\ AtWork(g) /\ failure \in [Gens -> BOOLEAN]
      /\ rewrites' = [rewrites EXCEPT ![g] = Tail(@)] /\ UNCHANGED <<pending, used>>
  BY BufferTypes DEF WriteDone, WriteFails, AtWork, Written
<1>2. cutovers_ = rewrites[g] /\ cutovers_ # << >> /\ cutovers_' = Tail(cutovers_)
  BY <1>1, CutoverLeaves
<1>3. CASE WriteDone(g)
  <2>1. lines' = <<Head(rewrites[g])>> /\ failure' = [failure EXCEPT ![g] = FALSE]
    BY <1>3, ReplacedLines DEF WriteDone
  <2>2. LogInv' /\ history_' = <<Head(cutovers_)>> /\ tail_' = tail_
    BY <1>1, <1>2, <2>1, Replaced
  <2>3. failed_' = FALSE
    <3>1. \A h \in Gens : h # g => ~failure[h]
      BY <1>1, Alone
    <3>. QED BY <1>1, <2>1, <3>1 DEF failed_
  <2>4. Log!Replace
    BY <1>2, <2>2, <2>3 DEF Log!Replace
  <2>. QED BY <2>2, <2>4 DEF Maps, Log!Next
<1>4. CASE WriteFails(g)
  <2>1. lines' \in {lines, <<Head(rewrites[g])>>} /\ failure' = [failure EXCEPT ![g] = TRUE]
    BY <1>1, <1>4, ReplacedLines DEF WriteFails, lines
  <2>2. failed_' = TRUE /\ failure'[g]
    BY <1>1, <2>1 DEF failed_
  <2>3. LogInv' /\ history_' \in {history_, <<Head(cutovers_)>>} /\ tail_' = tail_
    <3>1. CASE lines' = <<Head(rewrites[g])>>
      BY <1>1, <1>2, <3>1, Replaced
    <3>2. CASE lines' = lines
      <4>1. PICK h, n : /\ Splits(lines, pending, h, g, n) /\ history_ = h
        BY <1>1, HeldByOne
      <4>2. Splits(lines', pending', h, g, n) /\ Holds(g)'
        BY <1>1, <2>2, <3>2, <4>1 DEF Holds
      <4>3. FileHolds' /\ history_' = h
        BY <4>2, SeenHistoryNext DEF FileHolds
      <4>4. RecordsAreUsed' /\ Distinct(pending)' /\ tail_' = tail_
        BY <1>1, <3>2 DEF LogInv, RecordsAreUsed, Distinct, tail_
      <4>. QED BY <4>1, <4>3, <4>4 DEF LogInv
    <3>. QED BY <2>1, <3>1, <3>2
  <2>4. Log!RewriteFails
    BY <1>2, <2>2, <2>3 DEF Log!RewriteFails
  <2>. QED BY <2>3, <2>4 DEF Maps, Log!Next
<1>. QED BY <1>3, <1>4

\* The last owner gives up what is pending: what has landed of it is history now.
LEMMA GiveUpRefines ==
  ASSUME IInv, IInv', Whole, LogInv, NEW g \in Gens, GiveUp(g)
  PROVE  Maps
<1>. DEFINE m == Len(pending[g])
<1>1. /\ failure[g] /\ AtWork(g) /\ op[g] = "idle" /\ rewrites[g] = << >>
      /\ failure \in [Gens -> BOOLEAN] /\ failure' = [failure EXCEPT ![g] = FALSE]
      /\ pending' = [pending EXCEPT ![g] = << >>] /\ UNCHANGED <<lines, rewrites, used>>
  BY BufferTypes DEF GiveUp, AtWork, lines
<1>2. PICK h, n : /\ Splits(lines, pending, h, g, n) /\ history_ = h
                  /\ n \in 0 .. m /\ n \in Nat
  BY <1>1, HeldByOne
<1>3. /\ h \in Seq(Rec \union Snapshot) /\ ToSet(h) \intersect Outstanding(pending) = {}
      /\ lines = h \o SubSeq(pending[g], 1, n)
  BY <1>2 DEF Splits
<1>4. /\ pending \in [Gens -> Seq(Rec)] /\ pending' \in [Gens -> Seq(Rec)] /\ pending[g] \in Seq(Rec)
  <2>1. pending' \in [Gens -> Seq(Rec)]
    BY DEF IInv, TypeOK
  <2>. QED BY <2>1, BufferTypes
<1>5. /\ pending'[g] = << >> /\ \A k \in Gens \ {g} : pending'[k] = pending[k]
      /\ Outstanding(pending') \subseteq Outstanding(pending)
  <2>1. pending'[g] = << >> /\ \A k \in Gens \ {g} : pending'[k] = pending[k]
    BY <1>1, <1>4
  <2>2. \A k \in Gens : ToSet(pending'[k]) \subseteq ToSet(pending[k])
    BY <2>1, EmptySet
  <2>. QED BY <2>1, <2>2 DEF Outstanding
<1>6. ToSet(lines) \intersect Outstanding(pending') = {}
  <2>1. PICK w \in Seq(Rec) : w = SubSeq(pending[g], 1, n) /\ ToSet(w) \subseteq ToSet(pending[g])
    BY <1>2, Landing
  <2>2. ToSet(h \o w) = ToSet(h) \union ToSet(w)
    <3>1. w \in Seq(Rec \union Snapshot)
      OBVIOUS
    <3>. QED BY <1>3, <3>1, ConcatSet
  <2>3. ASSUME NEW k \in Gens PROVE ToSet(w) \intersect ToSet(pending'[k]) = {}
    BY <1>5, <2>1, EmptySet DEF LogInv, Distinct
  <2>4. ToSet(w) \intersect Outstanding(pending') = {}
    BY <2>3 DEF Outstanding
  <2>. QED BY <1>3, <1>5, <2>1, <2>2, <2>4
<1>7. FileHolds' /\ history_' = lines
  <2>1. Splits(lines', pending', lines, g, 0)
    BY <1>1, <1>4, <1>6, AllHistory DEF Whole
  <2>2. history_' = lines
    BY <2>1, SeenHistoryNext
  <2>. QED BY <2>1, <2>2 DEF FileHolds
<1>8. RecordsAreUsed'
  BY <1>1, <1>5, UsedStays
<1>9. Distinct(pending)'
  <2>1. \A k \in Gens : ToSet(pending'[k]) \subseteq ToSet(pending[k])
    BY <1>5, EmptySet
  <2>2. \A k \in Gens : IsInjective(pending'[k])
    BY <1>5 DEF LogInv, Distinct, IsInjective
  <2>3. ASSUME NEW j \in Gens, NEW k \in Gens, j # k
        PROVE  ToSet(pending'[j]) \intersect ToSet(pending'[k]) = {}
    BY <2>1, <2>3 DEF LogInv, Distinct
  <2>. QED BY <2>2, <2>3 DEF Distinct
<1>10. cutovers_ = << >> /\ cutovers_' = cutovers_ /\ failed_ = TRUE
  BY <1>1, AloneSeen DEF cutovers_, failed_
<1>11. failed_' = FALSE
  <2>1. \A k \in Gens : k # g => ~failure[k]
    BY <1>1, Alone
  <2>. QED BY <1>1, <2>1 DEF failed_
<1>12. m \in Nat /\ m \in 0 .. m
  BY <1>4
<1>13. SubSeq(pending[g], m + 1, m) = << >>
  BY <1>12, SubSeqEmpty
<1>14. /\ Begins(tail_, pending[g], n, FlattenSeq([pending EXCEPT ![g] = SubSeq(pending[g], n + 1, m)]))
       /\ Begins(tail_, pending[g], m, FlattenSeq([pending EXCEPT ![g] = SubSeq(pending[g], m + 1, m)]))
  BY <1>1, <1>2, <1>12, AloneSeen
<1>15. Begins(tail_, pending[g], m, tail_')
  BY <1>1, <1>13, <1>14 DEF tail_
<1>. HIDE DEF m
<1>16. /\ m \in 0 .. Len(tail_) /\ n \in 0 .. m /\ tail_' = SubSeq(tail_, m + 1, Len(tail_))
       /\ history_' = history_ \o SubSeq(tail_, 1, n)
  BY <1>2, <1>3, <1>7, <1>14, <1>15 DEF Begins
<1>17. Log!Abandon
  BY <1>10, <1>11, <1>16 DEF Log!Abandon
<1>. QED BY <1>7, <1>8, <1>9, <1>17 DEF Maps, LogInv, Log!Next

\* What has landed of the records that are pending is the beginning of the tail.
LEMMA LandedTail ==
  ASSUME IInv, LogInv
  PROVE  \E n \in 0 .. Len(tail_) : lines = history_ \o SubSeq(tail_, 1, n)
<1>1. PICK h, g, n : Splits(lines, pending, h, g, n) /\ (n > 0 => Holds(g))
  BY DEF LogInv, FileHolds
<1>2. /\ h \in Seq(Rec \union Snapshot) /\ g \in Gens /\ n \in 0 .. Len(pending[g])
      /\ lines = h \o SubSeq(pending[g], 1, n) /\ history_ = h
  BY <1>1, SeenHistory DEF Splits
<1>3. CASE AtWork(g)
  <2>1. n \in 0 .. Len(tail_) /\ SubSeq(tail_, 1, n) = SubSeq(pending[g], 1, n)
    BY <1>2, <1>3, AloneSeen DEF Begins
  <2>. QED BY <1>2, <2>1
<1>4. CASE ~AtWork(g)
  <2>1. ~Holds(g)
    BY <1>2, <1>4, BufferTypes DEF AtWork, Holds, Written
  <2>2. n = 0 /\ SubSeq(pending[g], 1, 0) = SubSeq(tail_, 1, 0)
    BY <1>1, <1>2, <2>1, SubSeqEmpty
  <2>3. 0 \in 0 .. Len(tail_)
    <3>1. MaxGens \in Nat \ {0} /\ pending \in [1 .. MaxGens -> Seq(Rec)]
      BY StoreBoundAssumption DEF IInv, TypeOK, Gens
    <3>2. tail_ \in Seq(Rec)
      BY <3>1, FlattenQueues DEF tail_
    <3>. QED BY <3>2
  <2>. QED BY <1>2, <2>2, <2>3
<1>. QED BY <1>3, <1>4

LEMMA RestartRefines ==
  ASSUME IInv, IInv', Whole, Whole', LogInv, Restart
  PROVE  Maps
<1>1. /\ pending' = everyBuffer(<< >>) /\ failure' = everyBuffer(FALSE)
      /\ rewrites' = everyBuffer(<< >>) /\ used' = used
  BY DEF Restart
<1>2. /\ 1 \in Gens /\ pending' \in [Gens -> Seq(Rec)]
      /\ \A g \in Gens : pending'[g] = << >> /\ rewrites'[g] = << >> /\ ~failure'[g]
  BY <1>1, StoreBoundAssumption DEF everyBuffer, Gens
<1>3. Outstanding(pending') = {}
  BY <1>2, EmptySet DEF Outstanding
<1>4. FileHolds' /\ history_' = lines'
  <2>1. Splits(lines', pending', lines', 1, 0)
    BY <1>2, <1>3, AllHistory DEF Whole
  <2>2. history_' = lines'
    BY <2>1, SeenHistoryNext
  <2>. QED BY <2>1, <2>2 DEF FileHolds
<1>5. Distinct(pending)'
  BY <1>2, EmptySet DEF Distinct, IsInjective
<1>6. tail_' = << >> /\ cutovers_' = << >> /\ failed_' = FALSE
  BY <1>1, <1>2, StoreBoundAssumption, FlattenEmpty DEF tail_, cutovers_, failed_, Gens, everyBuffer
<1>7. CASE lines' = lines
  <2>1. RecordsAreUsed'
    BY <1>1, <1>3, <1>7, UsedStays
  <2>2. Log!Crash
    BY <1>4, <1>6, <1>7, LandedTail DEF Log!Crash
  <2>. QED BY <1>4, <1>5, <2>1, <2>2 DEF Maps, LogInv, Log!Next
<1>8. ASSUME NEW g \in Gens, op[g] = "append",
             file' \in Interrupted(file, SubSeq(pending[g], 1, batch[g]))
      PROVE  Maps
  <2>1. PICK n \in 0 .. Len(pending[g]) : lines' = lines \o SubSeq(pending[g], 1, n)
    BY <1>8, InterruptedStep
  <2>2. RecordsAreUsed'
    BY <1>1, <1>3, <2>1, Landing, UsedStays
  <2>3. AtWork(g) /\ history_ = lines
    BY <1>8, FileIsHistory
  <2>4. n \in 0 .. Len(tail_) /\ SubSeq(tail_, 1, n) = SubSeq(pending[g], 1, n)
    BY <2>3, AloneSeen DEF Begins
  <2>5. Log!Crash
    BY <1>4, <1>6, <2>1, <2>3, <2>4 DEF Log!Crash
  <2>. QED BY <1>4, <1>5, <2>2, <2>5 DEF Maps, LogInv, Log!Next
<1>9. ASSUME NEW g \in Gens, op[g] = "write", file' = <<Head(rewrites[g])>>
      PROVE  Maps
  <2>0. lines' = <<Head(rewrites[g])>>
    BY <1>9, ReplacedLines
  <2>1. AtWork(g) /\ rewrites[g] # << >> /\ Head(rewrites[g]) \in Snapshot
    BY <1>9, BufferTypes, HeadTailProperties DEF AtWork, Written
  <2>2. ToSet(lines') \subseteq Snapshot
    BY <2>0, <2>1 DEF ToSet
  <2>3. RecordsAreUsed'
    BY <1>1, <1>3, <2>2, UsedStays
  <2>4. cutovers_ = rewrites[g]
    BY <2>1, AloneSeen
  <2>5. Log!Crash
    BY <1>4, <1>6, <2>0, <2>1, <2>4 DEF Log!Crash
  <2>. QED BY <1>4, <1>5, <2>3, <2>5 DEF Maps, LogInv, Log!Next
<1>. QED BY <1>7, <1>8, <1>9 DEF Restart, lines

LEMMA NextRefines ==
  ASSUME IInv, IInv', Whole, Whole', LogInv, [Next]_vars
  PROVE  Maps
<1>1. ASSUME NEW r \in Rec, AppendRecord(r) PROVE Maps
  BY <1>1, AppendRefines
<1>2. ASSUME NEW s \in Snapshot, Rewrite(s) PROVE Maps
  BY <1>2, RewriteRefines
<1>3. ASSUME NEW g \in Gens, Work(g) PROVE Maps
  BY <1>3, QuietSteps, AppendDoneRefines, AppendFailsRefines, WriteRefines, GiveUpRefines DEF Work
<1>4. CASE Restart
  BY <1>4, RestartRefines
<1>5. CASE Acquire \/ Release \/ Flush \/ UNCHANGED vars
  BY <1>5, QuietSteps
<1>. QED BY <1>1, <1>2, <1>3, <1>4, <1>5 DEF Next, Call

----------------------------------------------------------------------------
(* Theorems *)

LEMMA WritersExcludeEachOther == IInv => OneWriter
<1> SUFFICES ASSUME IInv, NEW g \in Gens, NEW h \in Gens, op[g] \in Written, op[h] \in Written,
                    g < h
             PROVE  FALSE
  BY StoreBoundAssumption DEF OneWriter, Gens
<1>1. g \in 1 .. (h - 1)
  BY StoreBoundAssumption DEF Gens
<1>2. ready(h)
  BY DEF IInv, WorkWaited, AtWork
<1>. QED BY <1>1, <1>2 DEF ready, Written

\* The buffers are well formed, and the storage is asked to write the file from one
\* place at a time: while one buffer retires, the one that replaces it waits
\* (state.ready), and a retired buffer never begins again.
THEOREM OneBufferAtTheFile == Spec => []BufferInvariant
<1>1. Spec => []IInv
  BY InitInv, NextInv, PTL DEF Spec
<1>2. IInv => BufferInvariant
  BY WritersExcludeEachOther DEF IInv, BufferInvariant
<1>. QED BY <1>1, <1>2, PTL

\* If writes are not torn there is no torn line to repair.
THEOREM WholeWritesNeedNoRepair == ~TornWrites /\ Spec => [][TornIsRepaired]_vars
<1> SUFFICES ASSUME ~TornWrites PROVE Spec => [][TornIsRepaired]_vars
  OBVIOUS
<1>1. Init => IInv /\ Whole /\ file = lines
  BY InitInv, InitWhole
<1>2. IInv /\ Whole /\ file = lines /\ [Next]_vars
        => (IInv /\ Whole /\ file = lines)' /\ [TornIsRepaired]_vars
  BY NextInv, NextWhole, NextUntorn
<1>. QED BY <1>1, <1>2, PTL DEF Spec

\* When flush() resolves, what was pending at the call is in the file, or a rewrite
\* called meanwhile is about to write it, as long as no torn line is left where the
\* store will append: then the next record is written into the same line.
THEOREM FlushesAreDurable == Spec /\ [][TornIsRepaired]_vars => FlushIsDurableOrCutOver
<1>1. Init => IInv /\ Whole /\ FlushFollows
  BY InitInv, InitWhole DEF Init, FlushFollows
<1>2. IInv /\ Whole /\ FlushFollows /\ [Next]_vars /\ [TornIsRepaired]_vars
        => (IInv /\ Whole /\ FlushFollows)' /\ [DurableOrCutOver]_vars
  BY NextInv, NextWhole, NextFollows
<1>. QED BY <1>1, <1>2, PTL DEF Spec, FlushIsDurableOrCutOver, DurableOrCutOver

\* The store keeps the promises of its interface, as long as no torn line is left
\* where it will append: nothing pending is lost, reordered or written twice, and a
\* rewrite takes the place of what was durable, whatever storage fails and whenever
\* the process dies.
THEOREM StoreImplementsLog == Spec /\ [][TornIsRepaired]_vars => RefinesAppendLog
<1>1. Init => IInv /\ Whole /\ LogInv /\ Log!Init
  BY InitInv, InitWhole, InitRefines
<1>2. IInv /\ Whole /\ LogInv /\ [Next]_vars /\ [TornIsRepaired]_vars
        => (IInv /\ Whole /\ LogInv)' /\ [Log!Next]_(Log!logVars)
  BY NextInv, NextWhole, NextRefines DEF Maps
<1>. QED BY <1>1, <1>2, PTL DEF Spec, RefinesAppendLog, Log!Spec

\* A failing append may leave a torn line, but the buffer that left it appends nothing
\* behind it: only after a crash, or when the buffer is given up, can the log become
\* unreadable (read, parseLine, settleRetiredState).
THEOREM RepairedLogsAreReadable == Spec /\ [][TornIsRepaired]_vars => []Readable
<1>1. Init => IInv /\ Whole
  BY InitInv, InitWhole
<1>2. IInv /\ Whole /\ [Next]_vars /\ [TornIsRepaired]_vars => (IInv /\ Whole)'
  BY NextInv, NextWhole
<1>3. Whole => Readable
  <2>1. Whole => Garbage \notin ToSet(lines) /\ Garbage # Torn
    BY EntryAssumption DEF Whole, ToSet
  <2>. QED BY <2>1, WholeLines DEF Whole, Readable
<1>. QED BY <1>1, <1>2, <1>3, PTL DEF Spec

\* So a storage that writes whole records keeps every promise of the log.
COROLLARY WholeWritesKeepTheLog ==
  ~TornWrites /\ Spec => FlushIsDurableOrCutOver /\ RefinesAppendLog /\ []Readable
BY WholeWritesNeedNoRepair, FlushesAreDurable, StoreImplementsLog, RepairedLogsAreReadable, PTL
=============================================================================
