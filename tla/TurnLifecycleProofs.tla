------------------------ MODULE TurnLifecycleProofs ------------------------
(***************************************************************************)
(* What TurnLifecycle guarantees for every set of turns, every replayed    *)
(* clock and every number of restarts.  Agree relates the queue, the log,  *)
(* the reservations and the clock; it is stated of arbitrary values so     *)
(* that an action which first queues a turn and then starts one can be     *)
(* followed in two steps.                                                  *)
(***************************************************************************)
EXTENDS TurnLifecycle, QueueTheorems, FiniteSetTheorems, TLAPS

State == {"none", "lost"} \union Live \union Outcome

\* q: the queue; st and id: state and number of every turn; res: the next number
\* to reserve; next and canc: the clock; log: the turns with a turn.prompt.
Agree(q, st, id, res, next, canc, log) ==
  /\ q \in Seq(Turn)
  /\ st \in [Turn -> State]
  /\ id \in [Turn -> Nat]
  /\ res \in Nat
  /\ next \in Nat
  /\ canc \subseteq Nat /\ IsFiniteSet(canc)
  /\ log \subseteq Turn
  /\ \A n \in next .. (res - 1) : n \in canc \/ \E i \in 1 .. Len(q) : id[q[i]] = n
  /\ \A i \in 1 .. Len(q) : id[q[i]] < res
  /\ \A i, j \in 1 .. Len(q) : i < j => id[q[i]] < id[q[j]]
  /\ next \notin canc
  /\ \A i \in 1 .. Len(q) : st[q[i]] = "queued"
  /\ \A t \in log : st[t] \notin {"none", "queued"}
  /\ \A t \in log : id[t] < next
  /\ \A t \in log : \A i \in 1 .. Len(q) : id[t] < id[q[i]]
  /\ \A t, u \in log : t # u => id[t] # id[u]

\* The inductive invariant.
IInv ==
  /\ Agree(pendingTurns, turnState, turnId, nextReserved, nextTurnId,
           cancelledTurnIds, prompted)
  /\ active \in prompted \union {NoTurn}
  /\ abortedTurns \subseteq Turn
  /\ leases \in Nat
  /\ disposing \in BOOLEAN
  /\ restarts \in Nat
  /\ leases > 0 => active = NoTurn /\ pendingTurns = << >>

----------------------------------------------------------------------------
(* Lemmas on the clock and on the queue *)

\* What a move of the clock from n does: it never goes back, stops on a number
\* that is not cancelled, passes only cancelled numbers and forgets only those.
LEMMA AdvanceProperties ==
  ASSUME NEW n \in Nat, NEW C, C \subseteq Nat, IsFiniteSet(C),
         advanceTurnClock(n, C)
  PROVE  /\ nextTurnId' \in Nat
         /\ nextTurnId' >= n
         /\ nextTurnId' \notin C
         /\ n .. (nextTurnId' - 1) \subseteq C
         /\ cancelledTurnIds' = {c \in C : c > nextTurnId'}
         /\ cancelledTurnIds' \subseteq Nat
         /\ IsFiniteSet(cancelledTurnIds')
         /\ nextTurnId' \notin cancelledTurnIds'
<1>1. Cardinality(C) \in Nat
  BY FS_CardinalityType
<1>2. PICK m \in n .. (n + Cardinality(C)) :
        /\ n .. (m - 1) \subseteq C
        /\ m \notin C
        /\ nextTurnId' = m
        /\ cancelledTurnIds' = {c \in C : c > m}
  BY DEF advanceTurnClock
<1>3. cancelledTurnIds' \in SUBSET C
  BY <1>2
<1>4. IsFiniteSet(cancelledTurnIds')
  BY <1>3, FS_Subset
<1>5. m \in Nat /\ m >= n
  BY <1>1, <1>2
<1>6. cancelledTurnIds' \subseteq Nat /\ m \notin cancelledTurnIds'
  BY <1>2, <1>3
<1> QED
  BY <1>2, <1>4, <1>5, <1>6
\* What the turn.cancel records of the turns numbered I do to the clock, when
\* each of these turns has a reserved number or one behind the clock.
LEMMA CancelProperties ==
  ASSUME IInv, NEW I, I \subseteq Nat,
         \A id \in I : id < nextReserved \/ id < nextTurnId,
         cancelTurn(I)
  PROVE  /\ nextTurnId' \in Nat
         /\ nextTurnId' >= nextTurnId
         /\ nextTurnId' \notin cancelledTurnIds'
         /\ cancelledTurnIds' \subseteq Nat
         /\ IsFiniteSet(cancelledTurnIds')
         /\ \A n \in cancelledTurnIds \union I : n >= nextTurnId' => n \in cancelledTurnIds'
         /\ cancelledTurnIds' \subseteq cancelledTurnIds \union I
         /\ nextTurnId .. (nextTurnId' - 1) \subseteq cancelledTurnIds \union I
         /\ (\A c \in cancelledTurnIds : c > nextTurnId)
               => \A c \in cancelledTurnIds' : c > nextTurnId'
<1> DEFINE ahead == {id \in I : id >= nextTurnId}
<1>1. /\ nextTurnId \in Nat /\ nextReserved \in Nat
      /\ cancelledTurnIds \subseteq Nat /\ IsFiniteSet(cancelledTurnIds)
      /\ nextTurnId \notin cancelledTurnIds
  BY DEF IInv, Agree
<1>2. CASE ahead = {}
  <2>1. UNCHANGED <<nextTurnId, cancelledTurnIds>>
    BY <1>2 DEF cancelTurn
  <2>2. ASSUME NEW n \in I PROVE ~(n >= nextTurnId)
    BY <1>2
  <2>3. nextTurnId .. (nextTurnId' - 1) = {}
    BY <1>1, <2>1
  <2> QED
    BY <1>1, <2>1, <2>2, <2>3
<1>3. CASE ahead # {}
  <2>1. ahead \subseteq nextTurnId .. nextReserved
    <3>1. ASSUME NEW n \in ahead PROVE n \in nextTurnId .. nextReserved
      <4>1. n \in Nat /\ n >= nextTurnId /\ (n < nextReserved \/ n < nextTurnId)
        OBVIOUS
      <4> QED
        BY <1>1, <4>1
    <3> QED
      BY <3>1
  <2>2. IsFiniteSet(nextTurnId .. nextReserved)
    BY <1>1, FS_Interval
  <2>3. IsFiniteSet(cancelledTurnIds \union ahead)
    BY <1>1, <2>1, <2>2, FS_Subset, FS_Union
  <2>4. advanceTurnClock(nextTurnId, cancelledTurnIds \union ahead)
    BY <1>3 DEF cancelTurn
  <2>5. cancelledTurnIds \union ahead \subseteq Nat
    BY <1>1
  <2> DEFINE C == cancelledTurnIds \union ahead
  <2>6. /\ nextTurnId' \in Nat
        /\ nextTurnId' >= nextTurnId
        /\ nextTurnId' \notin C
        /\ nextTurnId .. (nextTurnId' - 1) \subseteq C
        /\ cancelledTurnIds' = {c \in C : c > nextTurnId'}
        /\ cancelledTurnIds' \subseteq Nat
        /\ IsFiniteSet(cancelledTurnIds')
        /\ nextTurnId' \notin cancelledTurnIds'
    <3> HIDE DEF ahead
    <3> HIDE DEF C
    <3> QED
      BY <1>1, <2>3, <2>4, <2>5, AdvanceProperties DEF C
  <2>7. ASSUME NEW n \in cancelledTurnIds \union I, n >= nextTurnId'
        PROVE  n \in cancelledTurnIds'
    <3>1. n \in C
      BY <1>1, <2>6, <2>7
    <3> QED
      BY <1>1, <2>5, <2>6, <2>7, <3>1
  <2> QED
    BY <2>6, <2>7
<1> QED
  BY <1>2, <1>3
----------------------------------------------------------------------------
(* Lemmas on Agree *)

\* The head of the queue is numbered at or below the clock, and below the rest.
LEMMA HeadIsNext ==
  ASSUME NEW q, NEW st, NEW id, NEW res, NEW next, NEW canc, NEW log,
         Agree(q, st, id, res, next, canc, log), q # << >>
  PROVE  /\ Len(q) \in Nat /\ Len(q) >= 1
         /\ q[1] \in Turn
         /\ id[q[1]] <= next
         /\ \A i \in 2 .. Len(q) : id[q[1]] < id[q[i]]
<1>1. /\ Len(q) \in Nat /\ Len(q) >= 1
      /\ \A i \in 1 .. Len(q) : q[i] \in Turn
  BY EmptySeq, LenProperties DEF Agree
<1>2. \A i \in 1 .. Len(q) : id[q[i]] \in Nat
  BY <1>1 DEF Agree
<1>3. \A i \in 2 .. Len(q) : id[q[1]] < id[q[i]]
  BY <1>1 DEF Agree
<1>4. next \in Nat /\ res \in Nat
  BY DEF Agree
<1>5. CASE next < res
  <2>1. next \in next .. (res - 1)
    BY <1>4, <1>5
  <2>2. PICK i \in 1 .. Len(q) : id[q[i]] = next
    BY <2>1 DEF Agree
  <2> QED
    BY <1>1, <1>2, <1>3, <2>2
<1>6. CASE ~(next < res)
  <2>1. id[q[1]] < res
    BY <1>1 DEF Agree
  <2> QED
    BY <1>1, <1>2, <1>3, <1>4, <1>6, <2>1
<1> QED
  BY <1>5, <1>6

\* Starting the head of the queue: startTurn moves the clock by one.
LEMMA StartKeepsAgree ==
  ASSUME NEW q, NEW st, NEW id, NEW res, NEW log,
         Agree(q, st, id, res, nextTurnId, cancelledTurnIds, log), q # << >>,
         advanceTurnClock(nextTurnId + 1, cancelledTurnIds)
  PROVE  Agree(Tail(q), [st EXCEPT ![Head(q)] = "running"], id, res,
               nextTurnId', cancelledTurnIds', log \union {Head(q)})
<1> DEFINE h == q[1]
           r == Tail(q)
           stp == [st EXCEPT ![h] = "running"]
<1>1. /\ Len(q) \in Nat /\ Len(q) >= 1
      /\ h \in Turn
      /\ id[h] <= nextTurnId
      /\ \A i \in 2 .. Len(q) : id[h] < id[q[i]]
  BY HeadIsNext
<1>2. /\ q \in Seq(Turn) /\ st \in [Turn -> State] /\ id \in [Turn -> Nat]
      /\ res \in Nat /\ nextTurnId \in Nat
      /\ cancelledTurnIds \subseteq Nat /\ IsFiniteSet(cancelledTurnIds)
      /\ log \subseteq Turn
  BY DEF Agree
<1>3. /\ Head(q) = h
      /\ r \in Seq(Turn)
      /\ Len(r) = Len(q) - 1
      /\ \A i \in 1 .. Len(r) : r[i] = q[i + 1] /\ i + 1 \in 2 .. Len(q)
  BY <1>1, <1>2, HeadTailProperties
<1>4. /\ nextTurnId' \in Nat
      /\ nextTurnId' >= nextTurnId + 1
      /\ nextTurnId' \notin cancelledTurnIds
      /\ cancelledTurnIds' = {c \in cancelledTurnIds : c > nextTurnId'}
      /\ cancelledTurnIds' \subseteq Nat
      /\ IsFiniteSet(cancelledTurnIds')
      /\ nextTurnId' \notin cancelledTurnIds'
  <2>1. nextTurnId + 1 \in Nat
    BY <1>2
  <2> QED
    BY <1>2, <2>1, AdvanceProperties
<1>5. \A i \in 1 .. Len(q) : q[i] \in Turn /\ id[q[i]] \in Nat
  BY <1>2, LenProperties
<1>6. stp \in [Turn -> State] /\ stp[h] = "running"
      /\ \A t \in Turn : t # h => stp[t] = st[t]
  BY <1>1, <1>2 DEF State, Live
<1>7. ASSUME NEW n \in nextTurnId' .. (res - 1)
      PROVE  n \in cancelledTurnIds' \/ \E i \in 1 .. Len(r) : id[r[i]] = n
  <2>1. n \in nextTurnId .. (res - 1) /\ n >= nextTurnId' /\ n \in Nat
    BY <1>2, <1>4
  <2>2. CASE n \in cancelledTurnIds
    <3>1. n > nextTurnId'
      BY <1>4, <2>1, <2>2
    <3> QED
      BY <1>4, <2>2, <3>1
  <2>3. CASE n \notin cancelledTurnIds
    <3>1. PICK i \in 1 .. Len(q) : id[q[i]] = n
      BY <2>1, <2>3 DEF Agree
    <3>2. i # 1
      BY <1>1, <1>2, <1>4, <1>5, <2>1, <3>1
    <3>3. i - 1 \in 1 .. Len(r) /\ (i - 1) + 1 = i
      BY <1>1, <1>3, <3>2
    <3>4. id[r[i - 1]] = n
      BY <1>3, <3>1, <3>3
    <3> QED
      BY <3>3, <3>4
  <2> QED
    BY <2>2, <2>3
<1>8. \A i \in 1 .. Len(r) : id[r[i]] < res /\ r[i] # h /\ stp[r[i]] = "queued"
  <2>1. \A i \in 2 .. Len(q) : i \in 1 .. Len(q)
    BY <1>1
  <2>2. \A i \in 2 .. Len(q) : id[q[i]] < res /\ st[q[i]] = "queued"
    BY <2>1 DEF Agree
  <2>3. \A i \in 2 .. Len(q) : q[i] # h
    BY <1>1, <1>2, <1>5, <2>1
  <2>4. \A i \in 2 .. Len(q) : stp[q[i]] = "queued"
    BY <1>5, <1>6, <2>1, <2>2, <2>3
  <2> HIDE DEF stp, h, r
  <2> QED
    BY <1>3, <2>2, <2>3, <2>4
<1>9. \A i, j \in 1 .. Len(r) : i < j => id[r[i]] < id[r[j]]
  <2>1. ASSUME NEW i \in 1 .. Len(r), NEW j \in 1 .. Len(r), i < j
        PROVE  id[r[i]] < id[r[j]]
    <3>1. i + 1 \in 1 .. Len(q) /\ j + 1 \in 1 .. Len(q) /\ i + 1 < j + 1
      BY <1>1, <1>3, <2>1
    <3>2. id[q[i + 1]] < id[q[j + 1]]
      BY <3>1 DEF Agree
    <3> QED
      BY <1>3, <3>2
  <2> QED
    BY <2>1
<1>10. ASSUME NEW t \in log
       PROVE  id[t] < id[h] /\ t # h /\ stp[t] \notin {"none", "queued"} /\ id[t] \in Nat
  <2>1. id[t] < id[h] /\ st[t] \notin {"none", "queued"}
    <3>1. 1 \in 1 .. Len(q)
      BY <1>1
    <3> QED
      BY <3>1 DEF Agree
  <2>2. t \in Turn /\ id[t] \in Nat /\ id[h] \in Nat
    BY <1>1, <1>2
  <2> QED
    BY <1>6, <2>1, <2>2
<1>11. \A t \in log \union {h} : stp[t] \notin {"none", "queued"}
  BY <1>6, <1>10
<1>12. id[h] < nextTurnId' /\ id[h] \in Nat
  BY <1>1, <1>2, <1>4
<1>13. \A t \in log \union {h} : id[t] < nextTurnId'
  BY <1>4, <1>10, <1>12
<1>14. \A t \in log \union {h} : \A i \in 1 .. Len(r) : id[t] < id[r[i]]
  <2>1. \A i \in 1 .. Len(r) : id[h] < id[r[i]] /\ id[r[i]] \in Nat
    <3>1. \A i \in 2 .. Len(q) : id[q[i]] \in Nat
      BY <1>5
    <3> QED
      BY <1>1, <1>3, <3>1
  <2>2. ASSUME NEW t \in log, NEW i \in 1 .. Len(r)
        PROVE  id[t] < id[r[i]]
    BY <1>10, <1>12, <2>1
  <2> QED
    BY <2>1, <2>2
<1>15. \A t, u \in log \union {h} : t # u => id[t] # id[u]
  <2>1. \A t, u \in log : t # u => id[t] # id[u]
    BY DEF Agree
  <2>2. \A t \in log : id[t] # id[h]
    BY <1>10, <1>12
  <2> QED
    BY <2>1, <2>2
<1>16. log \union {h} \subseteq Turn
  BY <1>1, <1>2
<1> HIDE DEF h, r, stp
<1>17. Agree(r, stp, id, res, nextTurnId', cancelledTurnIds', log \union {h})
  BY <1>2, <1>3, <1>4, <1>6, <1>7, <1>8, <1>9, <1>11, <1>13, <1>14, <1>15, <1>16 DEF Agree
<1> QED
  BY <1>3, <1>17 DEF h, r, stp
\* Queueing a turn under the next number to reserve.
LEMMA QueueKeepsAgree ==
  ASSUME NEW q, NEW st, NEW id, NEW log, NEW t \in Turn,
         Agree(q, st, id, nextReserved, nextTurnId, cancelledTurnIds, log),
         st[t] = "none"
  PROVE  Agree(Append(q, t), [st EXCEPT ![t] = "queued"],
               [id EXCEPT ![t] = reserveTurnId], reserveTurnId + 1,
               nextTurnId, cancelledTurnIds, log)
<1> DEFINE r == reserveTurnId
           qp == Append(q, t)
           stp == [st EXCEPT ![t] = "queued"]
           idp == [id EXCEPT ![t] = r]
<1>1. /\ q \in Seq(Turn) /\ st \in [Turn -> State] /\ id \in [Turn -> Nat]
      /\ nextReserved \in Nat /\ nextTurnId \in Nat
      /\ cancelledTurnIds \subseteq Nat /\ IsFiniteSet(cancelledTurnIds)
      /\ log \subseteq Turn
      /\ nextTurnId \notin cancelledTurnIds
  BY DEF Agree
<1>2. /\ r \in Nat /\ r >= nextReserved /\ r >= nextTurnId
      /\ r = nextReserved \/ r = nextTurnId
  BY <1>1 DEF reserveTurnId
<1>3. /\ Len(q) \in Nat
      /\ qp \in Seq(Turn)
      /\ Len(qp) = Len(q) + 1
      /\ \A i \in 1 .. Len(q) : qp[i] = q[i] /\ q[i] \in Turn
      /\ qp[Len(q) + 1] = t
  BY <1>1, AppendProperties, LenProperties
<1> HIDE DEF r
<1>4. /\ stp \in [Turn -> State] /\ stp[t] = "queued"
      /\ idp \in [Turn -> Nat] /\ idp[t] = r
      /\ \A u \in Turn : u # t => stp[u] = st[u] /\ idp[u] = id[u]
  BY <1>1, <1>2 DEF State, Live
<1>5. \A u \in log : u \in Turn /\ u # t /\ stp[u] = st[u] /\ idp[u] = id[u]
  <2>1. \A u \in log : u # t
    BY DEF Agree
  <2> QED
    BY <1>1, <1>4, <2>1
<1> HIDE DEF qp, stp, idp
<1>6. \A i \in 1 .. Len(q) :
         /\ stp[qp[i]] = "queued"
         /\ idp[qp[i]] = id[q[i]] /\ id[q[i]] \in Nat
         /\ idp[qp[i]] < nextReserved
  <2>1. SUFFICES ASSUME NEW i \in 1 .. Len(q)
                 PROVE  /\ stp[qp[i]] = "queued"
                        /\ idp[qp[i]] = id[q[i]] /\ id[q[i]] \in Nat
                        /\ idp[qp[i]] < nextReserved
    OBVIOUS
  <2>2. st[q[i]] = "queued" /\ id[q[i]] < nextReserved
    BY DEF Agree
  <2>3. qp[i] = q[i] /\ q[i] \in Turn /\ q[i] # t
    BY <1>3, <2>2
  <2>4. stp[q[i]] = st[q[i]] /\ idp[q[i]] = id[q[i]]
    BY <1>4, <2>3
  <2>5. id[q[i]] \in Nat
    BY <1>1, <2>3
  <2> QED
    BY <2>2, <2>3, <2>4, <2>5
<1>7. \A i \in 1 .. Len(qp) : i \in 1 .. Len(q) \/ (i = Len(q) + 1 /\ qp[i] = t)
  BY <1>3
<1>8. \A i \in 1 .. Len(qp) : idp[qp[i]] < r + 1 /\ stp[qp[i]] = "queued"
  <2>1. SUFFICES ASSUME NEW i \in 1 .. Len(qp)
                 PROVE  idp[qp[i]] < r + 1 /\ stp[qp[i]] = "queued"
    OBVIOUS
  <2>2. CASE i \in 1 .. Len(q)
    <3>1. idp[qp[i]] \in Nat /\ idp[qp[i]] < nextReserved /\ stp[qp[i]] = "queued"
      BY <1>6, <2>2
    <3> QED
      BY <1>1, <1>2, <3>1
  <2>3. CASE i = Len(q) + 1 /\ qp[i] = t
    BY <1>2, <1>4, <2>3
  <2> QED
    BY <1>7, <2>2, <2>3
<1>9. ASSUME NEW n \in nextTurnId .. ((r + 1) - 1)
      PROVE  n \in cancelledTurnIds \/ \E i \in 1 .. Len(qp) : idp[qp[i]] = n
  <2>1. n \in Nat /\ n >= nextTurnId /\ n <= r
    BY <1>1, <1>2
  <2>2. CASE n = r
    <3>1. Len(q) + 1 \in 1 .. Len(qp)
      BY <1>3
    <3> QED
      BY <1>3, <1>4, <2>2, <3>1
  <2>3. CASE n # r
    <3>1. n \in nextTurnId .. (nextReserved - 1)
      BY <1>1, <1>2, <2>1, <2>3
    <3>2. n \in cancelledTurnIds \/ \E i \in 1 .. Len(q) : id[q[i]] = n
      BY <3>1 DEF Agree
    <3>3. \A i \in 1 .. Len(q) : i \in 1 .. Len(qp)
      BY <1>3
    <3> QED
      BY <1>6, <3>2, <3>3
  <2> QED
    BY <2>2, <2>3
<1>10. \A i, j \in 1 .. Len(qp) : i < j => idp[qp[i]] < idp[qp[j]]
  <2>1. ASSUME NEW i \in 1 .. Len(qp), NEW j \in 1 .. Len(qp), i < j
        PROVE  idp[qp[i]] < idp[qp[j]]
    <3>1. i \in 1 .. Len(q)
      BY <1>3, <2>1
    <3>2. CASE j \in 1 .. Len(q)
      <4>1. id[q[i]] < id[q[j]]
        BY <2>1, <3>1, <3>2 DEF Agree
      <4> QED
        BY <1>6, <3>1, <3>2, <4>1
    <3>3. CASE j = Len(q) + 1 /\ qp[j] = t
      <4>1. id[q[i]] \in Nat /\ idp[qp[i]] = id[q[i]] /\ idp[qp[i]] < nextReserved
        BY <1>6, <3>1
      <4> QED
        BY <1>1, <1>2, <1>4, <3>3, <4>1
    <3> QED
      BY <1>7, <3>2, <3>3
  <2> QED
    BY <2>1
<1>11. ASSUME NEW u \in log
       PROVE  /\ stp[u] \notin {"none", "queued"}
              /\ idp[u] < nextTurnId
              /\ \A i \in 1 .. Len(qp) : idp[u] < idp[qp[i]]
  <2>1. /\ st[u] \notin {"none", "queued"}
        /\ id[u] < nextTurnId
        /\ \A i \in 1 .. Len(q) : id[u] < id[q[i]]
    BY DEF Agree
  <2>2. id[u] < r
    <3>1. id[u] \in Nat
      BY <1>1
    <3> QED
      BY <1>1, <1>2, <2>1, <3>1
  <2>3. \A i \in 1 .. Len(qp) : idp[u] < idp[qp[i]]
    BY <1>4, <1>5, <1>6, <1>7, <2>1, <2>2
  <2> QED
    BY <1>5, <2>1, <2>3
<1>12. \A u, w \in log : u # w => idp[u] # idp[w]
  <2>1. \A u, w \in log : u # w => id[u] # id[w]
    BY DEF Agree
  <2> QED
    BY <1>5, <2>1
<1>13. r + 1 \in Nat
  BY <1>2
<1>14. Agree(qp, stp, idp, r + 1, nextTurnId, cancelledTurnIds, log)
  BY <1>1, <1>3, <1>4, <1>8, <1>9, <1>10, <1>11, <1>12, <1>13 DEF Agree
<1> QED
  BY <1>14 DEF qp, stp, idp, r
----------------------------------------------------------------------------
(* Every action preserves the inductive invariant *)

\* A fresh service over any replayed clock: no queue, no reservation, no log.
LEMMA InitInv == Init => IInv
<1> SUFFICES ASSUME Init PROVE IInv
  OBVIOUS
<1>1. PICK clock \in PersistedClocks :
        nextTurnId = clock.next /\ cancelledTurnIds = clock.cancelled
  BY DEF Init
<1>2. /\ nextTurnId \in Nat
      /\ cancelledTurnIds \subseteq Nat /\ IsFiniteSet(cancelledTurnIds)
      /\ \A id \in cancelledTurnIds : id > nextTurnId
  BY <1>1, ClockAssumption
<1>3. nextTurnId \notin cancelledTurnIds
  BY <1>2
<1>4. /\ turnState \in [Turn -> State] /\ turnId \in [Turn -> Nat]
      /\ nextReserved = 0 /\ prompted = {}
  BY DEF Init, State
<1>5. pendingTurns \in Seq(Turn) /\ Len(pendingTurns) = 0
  BY DEF Init
<1>6. Agree(pendingTurns, turnState, turnId, nextReserved, nextTurnId,
            cancelledTurnIds, prompted)
  BY <1>2, <1>3, <1>4, <1>5 DEF Agree
<1> QED
  BY <1>6 DEF Init, IInv

\* What IInv says of the variables one by one, for the leaves below.
LEMMA Typing ==
  ASSUME IInv
  PROVE  /\ pendingTurns \in Seq(Turn) /\ Len(pendingTurns) \in Nat
         /\ \A i \in 1 .. Len(pendingTurns) : pendingTurns[i] \in Turn
         /\ turnState \in [Turn -> State] /\ turnId \in [Turn -> Nat]
         /\ nextReserved \in Nat /\ nextTurnId \in Nat
         /\ cancelledTurnIds \subseteq Nat /\ IsFiniteSet(cancelledTurnIds)
         /\ prompted \subseteq Turn
         /\ leases \in Nat /\ restarts \in Nat
  BY LenProperties DEF IInv, Agree

\* A turn that is created (createAndQueueTurn) and, where the pump may start it,
\* started at once: first queued, then the head of the longer queue started.
LEMMA AdmitTurnInv ==
  ASSUME IInv, NEW t \in Turn, AdmitTurn(t)
  PROVE  IInv'
<1> DEFINE queued == Append(pendingTurns, t)
           stq == [turnState EXCEPT ![t] = "queued"]
<1>1. /\ turnState[t] = "none"
      /\ turnId' = [turnId EXCEPT ![t] = reserveTurnId]
      /\ nextReserved' = reserveTurnId + 1
      /\ UNCHANGED <<abortedTurns, leases, disposing, restarts>>
      /\ leases = 0
  BY DEF AdmitTurn, CreateTurn
<1>2. Agree(queued, stq, turnId', nextReserved', nextTurnId, cancelledTurnIds, prompted)
  BY <1>1, QueueKeepsAgree DEF IInv
<1>3. queued # << >> /\ queued \in Seq(Turn) /\ Head(queued) \in Turn
  <2>1. Len(queued) = Len(pendingTurns) + 1
    BY Typing, AppendProperties
  <2>2. queued \in Seq(Turn) /\ queued # << >>
    BY <2>1, Typing, AppendProperties, EmptySeq
  <2> QED
    BY <2>2, HeadTailProperties
<1>4. CASE /\ MayStart
           /\ pendingTurns' = Tail(queued)
           /\ turnState' = [turnState EXCEPT ![t] = "queued", ![Head(queued)] = "running"]
           /\ startTurn(Head(queued))
  <2>1. /\ active' = Head(queued)
        /\ prompted' = prompted \union {Head(queued)}
        /\ advanceTurnClock(nextTurnId + 1, cancelledTurnIds)
    BY <1>4 DEF startTurn
  <2>2. turnState' = [stq EXCEPT ![Head(queued)] = "running"]
    BY <1>4
  <2> HIDE DEF queued, stq
  <2>3. Agree(Tail(queued), [stq EXCEPT ![Head(queued)] = "running"], turnId',
              nextReserved', nextTurnId', cancelledTurnIds', prompted \union {Head(queued)})
    BY <1>2, <1>3, <2>1, StartKeepsAgree
  <2>4. Agree(pendingTurns', turnState', turnId', nextReserved', nextTurnId',
              cancelledTurnIds', prompted')
    <3>1. pendingTurns' = Tail(queued)
      BY <1>4
    <3> QED
      BY <2>1, <2>2, <2>3, <3>1
  <2>5. leases' = 0
    BY <1>1
  <2> QED
    BY <1>1, <2>1, <2>4, <2>5 DEF IInv
<1>5. CASE /\ ~MayStart
           /\ pendingTurns' = queued
           /\ turnState' = stq
           /\ UNCHANGED <<active, prompted, nextTurnId, cancelledTurnIds>>
  <2>1. Agree(pendingTurns', turnState', turnId', nextReserved', nextTurnId',
              cancelledTurnIds', prompted')
    BY <1>2, <1>5
  <2>2. leases' = 0
    BY <1>1
  <2> QED
    BY <1>1, <1>5, <2>1, <2>2 DEF IInv
<1> QED
  BY <1>4, <1>5 DEF AdmitTurn, CreateTurn

\* The pump starts the head of the queue (pumpTurns).
LEMMA PumpTurnsInv ==
  ASSUME IInv, PumpTurns
  PROVE  IInv'
<1>1. /\ leases = 0
      /\ pendingTurns # << >>
      /\ pendingTurns' = Tail(pendingTurns)
      /\ turnState' = [turnState EXCEPT ![Head(pendingTurns)] = "running"]
      /\ active' = Head(pendingTurns)
      /\ prompted' = prompted \union {Head(pendingTurns)}
      /\ advanceTurnClock(nextTurnId + 1, cancelledTurnIds)
      /\ UNCHANGED <<turnId, abortedTurns, nextReserved, leases, disposing, restarts>>
  BY DEF PumpTurns, MayStart, startTurn
<1>2. Agree(Tail(pendingTurns), [turnState EXCEPT ![Head(pendingTurns)] = "running"],
            turnId, nextReserved, nextTurnId', cancelledTurnIds',
            prompted \union {Head(pendingTurns)})
  BY <1>1, StartKeepsAgree DEF IInv
<1> QED
  BY <1>1, <1>2 DEF IInv

\* The end of a turn touches neither the queue nor the clock (releaseActiveTurn).
LEMMA ReleaseActiveTurnInv ==
  ASSUME IInv, NEW outcome \in Outcome, ReleaseActiveTurn(outcome)
  PROVE  IInv'
<1>1. /\ active \in prompted
      /\ turnState' = [turnState EXCEPT ![active] = outcome]
      /\ active' = NoTurn
      /\ UNCHANGED <<turnId, pendingTurns, abortedTurns, nextReserved, nextTurnId,
                     cancelledTurnIds, prompted, leases, disposing, restarts>>
  BY DEF ReleaseActiveTurn, IInv, clockVars
<1>2. turnState' \in [Turn -> State]
  BY <1>1, Typing DEF State
<1>3. \A i \in 1 .. Len(pendingTurns) : turnState'[pendingTurns[i]] = "queued"
  <2>1. SUFFICES ASSUME NEW i \in 1 .. Len(pendingTurns)
                 PROVE  turnState'[pendingTurns[i]] = "queued"
    OBVIOUS
  <2>2. turnState[pendingTurns[i]] = "queued" /\ turnState[active] # "queued"
    BY <1>1 DEF IInv, Agree
  <2> QED
    BY <1>1, <2>2, Typing
<1>4. \A t \in prompted : turnState'[t] \notin {"none", "queued"}
  <2>1. \A t \in prompted : turnState[t] \notin {"none", "queued"} /\ t \in Turn
    BY DEF IInv, Agree
  <2> QED
    BY <1>1, <2>1, Typing DEF Outcome
<1>5. Agree(pendingTurns, turnState', turnId, nextReserved, nextTurnId,
            cancelledTurnIds, prompted)
  BY <1>2, <1>3, <1>4 DEF IInv, Agree
<1> QED
  BY <1>1, <1>5 DEF IInv

\* Cancelling the running turn: its number is behind the clock, so its turn.cancel
\* record changes nothing (cancelActiveTurn).
LEMMA CancelActiveTurnInv ==
  ASSUME IInv, CancelActiveTurn
  PROVE  IInv'
<1>1. /\ active \in prompted /\ active \in Turn
      /\ abortedTurns' = abortedTurns \union {active}
      /\ cancelTurn({turnId[active]})
      /\ UNCHANGED <<turnState, turnId, pendingTurns, active, nextReserved, prompted,
                     leases, disposing, restarts>>
  BY Typing DEF CancelActiveTurn, IInv
<1>2. turnId[active] < nextTurnId /\ turnId[active] \in Nat
  BY <1>1, Typing DEF IInv, Agree
<1>3. {id \in {turnId[active]} : id >= nextTurnId} = {}
  BY <1>2, Typing
<1>4. UNCHANGED <<nextTurnId, cancelledTurnIds>>
  BY <1>1, <1>3 DEF cancelTurn
<1>5. abortedTurns' \subseteq Turn
  BY <1>1 DEF IInv
<1> QED
  BY <1>1, <1>4, <1>5 DEF IInv

\* Cancelling a queued turn: its number stays accounted for, now as a cancelled
\* reservation or as one the clock has passed (cancelQueuedTurn).
LEMMA CancelQueuedTurnInv ==
  ASSUME IInv, NEW t \in Turn, CancelQueuedTurn(t)
  PROVE  IInv'
<1>0. DOMAIN pendingTurns = 1 .. Len(pendingTurns)
  BY Typing
<1>1. PICK i \in 1 .. Len(pendingTurns) :
        /\ pendingTurns[i] = t
        /\ pendingTurns' = SubSeq(pendingTurns, 1, i - 1)
                             \o SubSeq(pendingTurns, i + 1, Len(pendingTurns))
        /\ turnState' = [turnState EXCEPT ![t] = "cancelled"]
        /\ abortedTurns' = abortedTurns \union {t}
        /\ cancelTurn({turnId[t]})
        /\ UNCHANGED <<turnId, active, nextReserved, prompted, leases, disposing, restarts>>
  BY <1>0, Zenon DEF CancelQueuedTurn
<1> DEFINE q == pendingTurns
           r == pendingTurns'
           n == Len(pendingTurns)
<1>2. /\ r \in Seq(Turn)
      /\ Len(r) = n - 1
      /\ \A j \in 1 .. (n - 1) : r[j] = IF j < i THEN q[j] ELSE q[j + 1]
  BY <1>1, RemoveProperties, Typing
<1>3. /\ q \in Seq(Turn) /\ n \in Nat
      /\ \A k \in 1 .. n : q[k] \in Turn
      /\ turnState \in [Turn -> State] /\ turnId \in [Turn -> Nat]
      /\ nextReserved \in Nat /\ nextTurnId \in Nat
      /\ prompted \subseteq Turn
  BY Typing
\* The j-th entry of the new queue is the k-th of the old one, k # i.
<1> DEFINE old(j) == IF j < i THEN j ELSE j + 1
<1>4. \A j \in 1 .. Len(r) : old(j) \in 1 .. n /\ old(j) # i /\ r[j] = q[old(j)]
  <2> HIDE DEF q, r, n
  <2> TAKE j \in 1 .. Len(r)
  <2>1. i \in 1 .. n /\ j \in 1 .. (n - 1)
    BY <1>2 DEF n
  <2>2. old(j) \in 1 .. n /\ old(j) # i
    BY <1>3, <2>1
  <2> QED
    BY <1>2, <2>1, <2>2
<1>5. \A j, k \in 1 .. Len(r) : j < k => old(j) < old(k)
  <2>1. Len(r) \in Int /\ i \in Int
    BY <1>2, <1>3
  <2> HIDE DEF q, r, n
  <2> QED
    BY ONLY <2>1 DEF old
<1>6. \A k \in 1 .. n : k # i => \E j \in 1 .. Len(r) : r[j] = q[k]
  <2>1. SUFFICES ASSUME NEW k \in 1 .. n, k # i
                 PROVE  \E j \in 1 .. Len(r) : r[j] = q[k]
    OBVIOUS
  <2>2. CASE k < i
    <3>1. k \in 1 .. Len(r) /\ r[k] = q[k]
      BY <1>2, <1>3, <2>2
    <3> QED
      BY <3>1
  <2>3. CASE k > i
    <3>1. k - 1 \in 1 .. Len(r) /\ r[k - 1] = q[k]
      BY <1>2, <1>3, <2>3
    <3> QED
      BY <3>1
  <2> QED
    BY <2>1, <2>2, <2>3
<1>6a. i \in 1 .. n
  BY <1>1
<1> HIDE DEF q, r, n, old
<1>7. /\ \A k \in 1 .. n : turnState[q[k]] = "queued" /\ turnId[q[k]] < nextReserved
      /\ \A j, k \in 1 .. n : j < k => turnId[q[j]] < turnId[q[k]]
      /\ \A m \in nextTurnId .. (nextReserved - 1) :
           m \in cancelledTurnIds \/ \E k \in 1 .. n : turnId[q[k]] = m
  BY DEF IInv, Agree, q, n
<1>8. \A j, k \in 1 .. n : j # k => turnId[q[j]] # turnId[q[k]]
  <2>1. \A j \in 1 .. n : turnId[q[j]] \in Nat
    BY <1>3
  <2> QED
    BY <1>3, <1>7, <2>1
<1>9. t = q[i] /\ turnId[t] \in Nat /\ turnId[t] < nextReserved
  BY <1>1, <1>3, <1>7, <1>6a DEF q
<1>10. /\ nextTurnId' \in Nat
       /\ nextTurnId' >= nextTurnId
       /\ nextTurnId' \notin cancelledTurnIds'
       /\ cancelledTurnIds' \subseteq Nat
       /\ IsFiniteSet(cancelledTurnIds')
       /\ \A m \in cancelledTurnIds \union {turnId[t]} :
            m >= nextTurnId' => m \in cancelledTurnIds'
  <2> DEFINE I == {turnId[t]}
  <2>1. I \subseteq Nat /\ (\A id \in I : id < nextReserved \/ id < nextTurnId) /\ cancelTurn(I)
    BY <1>1, <1>9
  <2> HIDE DEF I
  <2>2. \A m \in cancelledTurnIds \union I : m >= nextTurnId' => m \in cancelledTurnIds'
    BY <2>1, CancelProperties
  <2> QED
    BY <2>1, <2>2, CancelProperties DEF I
<1>11. ASSUME NEW m \in nextTurnId' .. (nextReserved - 1)
       PROVE  m \in cancelledTurnIds' \/ \E j \in 1 .. Len(r) : turnId[r[j]] = m
  <2>1. m \in nextTurnId .. (nextReserved - 1) /\ m >= nextTurnId'
    BY <1>3, <1>10
  <2>2. CASE m \in cancelledTurnIds \union {turnId[t]}
    BY <1>10, <2>1, <2>2
  <2>3. CASE m \notin cancelledTurnIds \union {turnId[t]}
    <3>1. PICK k \in 1 .. n : turnId[q[k]] = m
      BY <1>7, <2>1, <2>3
    <3>2. k # i
      BY <1>9, <2>3, <3>1
    <3> QED
      BY <1>6, <3>1, <3>2
  <2> QED
    BY <2>2, <2>3
<1>12. \A j \in 1 .. Len(r) : turnId[r[j]] < nextReserved /\ turnState'[r[j]] = "queued"
  <2>1. \A k \in 1 .. n : k # i => q[k] # t
    BY <1>8, <1>9, <1>6a
  <2>2. \A k \in 1 .. n : k # i => turnState'[q[k]] = "queued"
    BY <1>1, <1>3, <1>7, <2>1
  <2> QED
    BY <1>4, <1>7, <2>2
<1>13. \A j, k \in 1 .. Len(r) : j < k => turnId[r[j]] < turnId[r[k]]
  BY <1>4, <1>5, <1>7
<1>14. /\ \A u \in prompted : turnState[u] \notin {"none", "queued"}
       /\ \A u \in prompted : turnId[u] < nextTurnId
       /\ \A u \in prompted : \A k \in 1 .. n : turnId[u] < turnId[q[k]]
       /\ \A u, w \in prompted : u # w => turnId[u] # turnId[w]
  BY DEF IInv, Agree, q, n
<1>15. \A u \in prompted : turnState'[u] \notin {"none", "queued"}
  BY <1>1, <1>3, <1>14
<1>16. \A u \in prompted : turnId[u] < nextTurnId'
  <2>1. SUFFICES ASSUME NEW u \in prompted PROVE turnId[u] < nextTurnId'
    OBVIOUS
  <2>2. turnId[u] \in Nat /\ turnId[u] < nextTurnId
    BY <1>3, <1>14
  <2> QED
    BY <1>3, <1>10, <2>2
<1>17. \A u \in prompted : \A j \in 1 .. Len(r) : turnId[u] < turnId[r[j]]
  BY <1>4, <1>14
<1>18. turnState' \in [Turn -> State]
  BY <1>1, <1>3 DEF State, Outcome
<1>19. Agree(r, turnState', turnId, nextReserved, nextTurnId', cancelledTurnIds', prompted)
  BY <1>2, <1>3, <1>10, <1>11, <1>12, <1>13, <1>14, <1>15, <1>16, <1>17, <1>18 DEF Agree
<1>20. Agree(pendingTurns', turnState', turnId', nextReserved', nextTurnId',
             cancelledTurnIds', prompted')
  BY <1>1, <1>19 DEF r
<1>21. leases' = 0
  <2>1. q # << >>
    BY <1>3, EmptySeq DEF n, q
  <2> QED
    BY <1>1, <2>1, Typing DEF IInv, q
<1> QED
  BY <1>1, <1>20, <1>21 DEF IInv

\* Draining the loop cancels every queued number at once (dispose).
LEMMA DisposeInv ==
  ASSUME IInv, Dispose
  PROVE  IInv'
<1> DEFINE queued == {pendingTurns[i] : i \in DOMAIN pendingTurns}
           I == {turnId[t] : t \in queued \union ({active} \ (abortedTurns \union {NoTurn}))}
<1>1. /\ disposing' = TRUE
      /\ pendingTurns' = << >>
      /\ turnState' = [t \in Turn |-> IF t \in queued THEN "cancelled" ELSE turnState[t]]
      /\ abortedTurns' = abortedTurns \union queued \union ({active} \ {NoTurn})
      /\ cancelTurn(I)
      /\ UNCHANGED <<turnId, active, nextReserved, prompted, leases, restarts>>
  BY DEF Dispose
<1>2. DOMAIN pendingTurns = 1 .. Len(pendingTurns)
  BY Typing
<1>3. queued \subseteq Turn
  BY <1>2, Typing
<1>4. active \in Turn \union {NoTurn}
  BY Typing DEF IInv
<1>5. I \subseteq Nat
  BY <1>3, <1>4, Typing
<1>6. \A id \in I : id < nextReserved \/ id < nextTurnId
  <2>1. \A t \in queued : turnId[t] < nextReserved
    BY <1>2 DEF IInv, Agree
  <2>2. active # NoTurn => turnId[active] < nextTurnId
    BY DEF IInv, Agree
  <2> QED
    BY <2>1, <2>2
<1>7. \A i \in 1 .. Len(pendingTurns) : turnId[pendingTurns[i]] \in I
  BY <1>2
<1>8. turnState' \in [Turn -> State]
  BY <1>1, Typing DEF State, Outcome
<1>9. \A t \in prompted : turnState'[t] \notin {"none", "queued"}
  <2>1. \A t \in prompted : turnState[t] \notin {"none", "queued"} /\ t \in Turn
    BY DEF IInv, Agree
  <2> QED
    BY <1>1, <2>1
<1>10. abortedTurns' \subseteq Turn
  BY <1>1, <1>3, <1>4 DEF IInv
<1> HIDE DEF I, queued
<1>11. /\ nextTurnId' \in Nat
       /\ nextTurnId' >= nextTurnId
       /\ nextTurnId' \notin cancelledTurnIds'
       /\ cancelledTurnIds' \subseteq Nat
       /\ IsFiniteSet(cancelledTurnIds')
  BY <1>1, <1>5, <1>6, CancelProperties
<1>12. \A n \in cancelledTurnIds \union I : n >= nextTurnId' => n \in cancelledTurnIds'
  BY <1>1, <1>5, <1>6, CancelProperties
<1>13. ASSUME NEW n \in nextTurnId' .. (nextReserved - 1)
       PROVE  n \in cancelledTurnIds'
  <2>1. n \in nextTurnId .. (nextReserved - 1) /\ n >= nextTurnId'
    BY <1>11, Typing
  <2>2. n \in cancelledTurnIds \/ \E i \in 1 .. Len(pendingTurns) : turnId[pendingTurns[i]] = n
    BY <2>1 DEF IInv, Agree
  <2> QED
    BY <1>7, <1>12, <2>1, <2>2
<1>14. \A t \in prompted : turnId[t] < nextTurnId'
  <2>1. SUFFICES ASSUME NEW t \in prompted PROVE turnId[t] < nextTurnId'
    OBVIOUS
  <2>2. turnId[t] \in Nat /\ turnId[t] < nextTurnId
    BY Typing DEF IInv, Agree
  <2> QED
    BY <1>11, <2>2, Typing
<1>15. pendingTurns' \in Seq(Turn) /\ Len(pendingTurns') = 0
  BY <1>1
<1>16. \A t, u \in prompted : t # u => turnId[t] # turnId[u]
  BY DEF IInv, Agree
<1>17. Agree(pendingTurns', turnState', turnId, nextReserved, nextTurnId',
             cancelledTurnIds', prompted)
  BY <1>8, <1>9, <1>11, <1>13, <1>14, <1>15, <1>16, Typing DEF Agree
<1>18. Agree(pendingTurns', turnState', turnId', nextReserved', nextTurnId',
             cancelledTurnIds', prompted')
  BY <1>1, <1>17
<1> QED
  BY <1>1, <1>10, <1>18 DEF IInv

\* A lease is granted only when no turn is active or queued (tryAcquireQuiescence).
LEMMA LeaseInv ==
  ASSUME IInv, TryAcquireQuiescence(FALSE) \/ ReleaseQuiescence
  PROVE  IInv'
<1>1. /\ UNCHANGED <<turnState, turnId, pendingTurns, active, abortedTurns,
                     nextReserved, nextTurnId, cancelledTurnIds, prompted,
                     disposing, restarts>>
      /\ leases' = leases + 1 \/ (leases > 0 /\ leases' = leases - 1)
      /\ leases' = leases + 1 => active = NoTurn /\ pendingTurns = << >>
  BY Typing DEF TryAcquireQuiescence, ReleaseQuiescence, queueVars, clockVars
<1>2. leases' \in Nat /\ (leases' > 0 => active = NoTurn /\ pendingTurns = << >>)
  BY <1>1, Typing DEF IInv
<1> QED
  BY <1>1, <1>2 DEF IInv

\* After a restart the clock alone vouches for what was logged, because every
\* logged number is behind it (a new loop service over the same log).
LEMMA RestartInv ==
  ASSUME IInv, Restart
  PROVE  IInv'
<1>1. /\ turnState' = [t \in Turn |-> IF turnState[t] \in Live THEN "lost" ELSE turnState[t]]
      /\ pendingTurns' = << >>
      /\ active' = NoTurn
      /\ leases' = 0
      /\ disposing' = FALSE
      /\ nextReserved' = 0
      /\ restarts' = restarts + 1
      /\ UNCHANGED <<turnId, abortedTurns, nextTurnId, cancelledTurnIds, prompted>>
  BY DEF Restart
<1>2. turnState' \in [Turn -> State]
  BY <1>1, Typing DEF State
<1>3. \A t \in prompted : turnState'[t] \notin {"none", "queued"}
  <2>1. \A t \in prompted : turnState[t] \notin {"none", "queued"} /\ t \in Turn
    BY DEF IInv, Agree
  <2> QED
    BY <1>1, <2>1
<1>4. pendingTurns' \in Seq(Turn) /\ Len(pendingTurns') = 0 /\ nextReserved' \in Nat
  BY <1>1
<1>5. nextTurnId .. (nextReserved' - 1) = {}
  BY <1>1, Typing
<1>6. /\ nextTurnId \notin cancelledTurnIds
      /\ \A t \in prompted : turnId[t] < nextTurnId
      /\ \A t, u \in prompted : t # u => turnId[t] # turnId[u]
  BY DEF IInv, Agree
<1>7. Agree(pendingTurns', turnState', turnId, nextReserved', nextTurnId,
            cancelledTurnIds, prompted)
  BY <1>2, <1>3, <1>4, <1>5, <1>6, Typing DEF Agree
<1>8. Agree(pendingTurns', turnState', turnId', nextReserved', nextTurnId',
            cancelledTurnIds', prompted')
  BY <1>1, <1>7
<1>9. restarts' \in Nat
  BY <1>1, Typing
<1> QED
  BY <1>1, <1>8, <1>9 DEF IInv

\* A step that changes no variable of the turns.
LEMMA StutterInv ==
  ASSUME IInv, UNCHANGED vars
  PROVE  IInv'
  BY DEF vars, queueVars, clockVars, IInv

\* Every step of the turns keeps the invariant: one case for each action.
LEMMA NextInv == IInv /\ [Next]_vars => IInv'
<1> SUFFICES ASSUME IInv, [Next]_vars PROVE IInv'
  OBVIOUS
<1>1. ASSUME NEW t \in Turn, AdmitTurn(t) PROVE IInv'
  BY <1>1, AdmitTurnInv
<1>2. ASSUME NEW t \in Turn, CancelQueuedTurn(t) PROVE IInv'
  BY <1>2, CancelQueuedTurnInv
<1>3. ASSUME NEW outcome \in Outcome, ReleaseActiveTurn(outcome) PROVE IInv'
  BY <1>3, ReleaseActiveTurnInv
<1>4. CASE PumpTurns
  BY <1>4, PumpTurnsInv
<1>5. CASE CancelActiveTurn
  BY <1>5, CancelActiveTurnInv
<1>6. CASE TryAcquireQuiescence(FALSE) \/ ReleaseQuiescence
  BY <1>6, LeaseInv
<1>7. CASE Dispose
  BY <1>7, DisposeInv
<1>8. CASE Restart
  BY <1>8, RestartInv
<1>9. CASE UNCHANGED vars
  BY <1>9, StutterInv
<1> QED
  BY <1>1, <1>2, <1>3, <1>4, <1>5, <1>6, <1>7, <1>8, <1>9 DEF Next

\* The inductive invariant holds in every reachable state.
LEMMA Invariance == Spec => []IInv
<1>1. Init => IInv
  BY InitInv
<1>2. IInv /\ [Next]_vars => IInv'
  BY NextInv
<1> QED
  BY <1>1, <1>2, PTL DEF Spec

----------------------------------------------------------------------------
(* Theorems *)

\* Every variable keeps its type: in particular the set of cancelled numbers
\* stays finite, so advanceTurnClock always finds a number to stop at.
THEOREM TypeCorrect == Spec => []TypeOK
<1>1. IInv => TypeOK
  BY DEF IInv, Agree, State, TypeOK
<1> QED
  BY <1>1, Invariance, PTL

\* Reservations, queue and clock agree, so startTurn may count turns instead of
\* naming them, whatever was cancelled or lost in a crash.
THEOREM ClockIsAccountedFor == Spec => []ClockAccountsForReservations
<1>1. IInv => ClockAccountsForReservations
  <2>1. SUFFICES ASSUME IInv PROVE ClockAccountsForReservations
    OBVIOUS
  <2>2. DOMAIN pendingTurns = 1 .. Len(pendingTurns)
    BY <2>1, Typing
  <2> QED
    BY <2>1, <2>2 DEF IInv, Agree, ClockAccountsForReservations
<1> QED
  BY <1>1, Invariance, PTL

\* No turn of the wire log takes the number of another, for any number of turns,
\* cancellations and restarts (reserveTurnId, TurnModel).
THEOREM NoReuse == Spec => []TurnIdsNeverReused
<1>1. IInv => TurnIdsNeverReused
  BY DEF IInv, Agree, TurnIdsNeverReused
<1> QED
  BY <1>1, Invariance, PTL

\* The holder of a quiescence lease never meets a turn (tryAcquireQuiescence).
THEOREM LeaseExcludesTurns == Spec => []NoTurnUnderLease
<1>1. IInv => NoTurnUnderLease
  BY DEF IInv, NoTurnUnderLease
<1> QED
  BY <1>1, Invariance, PTL

\* Only AdmitTurn and PumpTurns extend the log, and both with the turn whose
\* number the queue and the log prescribe (pumpTurns).
THEOREM StartOrder == Spec => TurnsStartInOrder
<1> DEFINE InOrder == \A t \in prompted' \ prompted :
                        /\ \A u \in prompted : turnId[u] < turnId'[t]
                        /\ \A i \in DOMAIN pendingTurns' :
                             turnId'[t] < turnId'[pendingTurns'[i]]
<1>1. IInv /\ IInv' /\ [Next]_vars => [InOrder]_vars
  <2> SUFFICES ASSUME IInv, IInv', Next,
                      NEW t \in prompted' \ prompted
               PROVE  /\ \A u \in prompted : turnId[u] < turnId'[t]
                      /\ \A i \in DOMAIN pendingTurns' :
                           turnId'[t] < turnId'[pendingTurns'[i]]
    OBVIOUS
  <2>1. DOMAIN pendingTurns' = 1 .. Len(pendingTurns')
    BY DEF IInv, Agree
  <2>2. \A i \in DOMAIN pendingTurns' : turnId'[t] < turnId'[pendingTurns'[i]]
    BY <2>1 DEF IInv, Agree
  <2>3. ASSUME NEW c \in Turn, AdmitTurn(c) PROVE \A u \in prompted : turnId[u] < turnId'[t]
    <3>1. ASSUME NEW u \in prompted PROVE turnId'[u] = turnId[u]
      <4>1. turnState[u] # "none" /\ turnState[c] = "none"
        BY <2>3 DEF IInv, Agree, AdmitTurn, CreateTurn
      <4> QED
        BY <2>3, <4>1, Typing DEF AdmitTurn, CreateTurn
    <3> DEFINE queued == Append(pendingTurns, c)
    <3>2. t = Head(queued)
      BY <2>3 DEF AdmitTurn, CreateTurn, startTurn
    <3>3. CASE pendingTurns = << >>
      <4>1. t = c /\ turnId'[t] = reserveTurnId
        BY <2>3, <3>2, <3>3, Typing DEF AdmitTurn, CreateTurn
      <4>2. \A u \in prompted : turnId[u] < nextTurnId /\ turnId[u] \in Nat
        BY Typing DEF IInv, Agree
      <4> QED
        BY <4>1, <4>2, Typing DEF reserveTurnId
    <3>4. CASE pendingTurns # << >>
      <4>1. 1 \in 1 .. Len(pendingTurns) /\ t = pendingTurns[1]
        <5>1. Len(pendingTurns) # 0
          BY <3>4, Typing, EmptySeq
        <5>2. queued[1] = pendingTurns[1] /\ Head(queued) = queued[1]
          BY <5>1, Typing, AppendProperties
        <5> QED
          BY <3>2, <5>1, <5>2, Typing
      <4>2. turnState[t] = "queued" /\ \A u \in prompted : turnId[u] < turnId[t]
        BY <4>1 DEF IInv, Agree
      <4>3. turnId'[t] = turnId[t]
        <5>1. t # c
          BY <2>3, <4>2 DEF AdmitTurn, CreateTurn
        <5>2. t \in Turn
          BY <4>1, Typing
        <5> QED
          BY <2>3, <5>1, <5>2, Typing DEF AdmitTurn, CreateTurn
      <4> QED
        BY <4>2, <4>3
    <3> QED
      BY <3>3, <3>4
  <2>4. CASE PumpTurns
    <3>1. t = Head(pendingTurns) /\ turnId' = turnId /\ pendingTurns # << >>
      BY <2>4 DEF PumpTurns, startTurn
    <3>2. 1 \in 1 .. Len(pendingTurns) /\ t = pendingTurns[1]
      BY <3>1, Typing, EmptySeq
    <3>3. \A u \in prompted : turnId[u] < turnId[t]
      BY <3>2 DEF IInv, Agree
    <3> QED
      BY <2>2, <3>1, <3>3
  <2>5. CASE \/ \E c \in Turn : CancelQueuedTurn(c)
             \/ \E outcome \in Outcome : ReleaseActiveTurn(outcome)
             \/ CancelActiveTurn \/ TryAcquireQuiescence(FALSE)
             \/ ReleaseQuiescence \/ Dispose \/ Restart
    <3>1. prompted' = prompted
      BY <2>5 DEF CancelQueuedTurn, ReleaseActiveTurn, CancelActiveTurn,
                  TryAcquireQuiescence, ReleaseQuiescence, Dispose, Restart, clockVars
    <3> QED
      BY <3>1
  <2> QED
    BY <2>2, <2>3, <2>4, <2>5 DEF Next
<1> QED
  BY <1>1, Invariance, PTL DEF Spec, TurnsStartInOrder

----------------------------------------------------------------------------
(* Replay *)

NoneLost == \A t \in Turn : turnState[t] # "lost"

\* The numbers of the queue q are those the clock will come to: none is behind it
\* or among the cancelled ones, and no number is cancelled that is still free.
Fresh(q, id, res, next, canc) ==
  /\ \A c \in canc : c < res
  /\ \A i \in 1 .. Len(q) : id[q[i]] >= next /\ id[q[i]] \notin canc

\* What holds until a crash loses a turn, and two facts that hold for ever.
RInv ==
  /\ active # NoTurn => turnState[active] = "running"
  /\ \A c \in cancelledTurnIds : c > nextTurnId
  /\ NoneLost => Fresh(pendingTurns, turnId, nextReserved, nextTurnId, cancelledTurnIds)

\* Queueing a turn under the next number to reserve.
LEMMA QueueKeepsFresh ==
  ASSUME IInv, Fresh(pendingTurns, turnId, nextReserved, nextTurnId, cancelledTurnIds),
         NEW t \in Turn, turnState[t] = "none"
  PROVE  Fresh(Append(pendingTurns, t), [turnId EXCEPT ![t] = reserveTurnId],
               reserveTurnId + 1, nextTurnId, cancelledTurnIds)
<1> DEFINE q == Append(pendingTurns, t)
           id == [turnId EXCEPT ![t] = reserveTurnId]
<1>1. /\ reserveTurnId \in Nat /\ reserveTurnId >= nextTurnId /\ reserveTurnId >= nextReserved
      /\ reserveTurnId = nextTurnId \/ reserveTurnId = nextReserved
  BY Typing DEF reserveTurnId
<1>2. nextTurnId \notin cancelledTurnIds /\ \A c \in cancelledTurnIds : c \in Nat /\ c < nextReserved
  BY Typing DEF IInv, Agree, Fresh
<1>3. \A i \in 1 .. Len(pendingTurns) : pendingTurns[i] # t /\ pendingTurns[i] \in Turn
  BY Typing DEF IInv, Agree
<1>4. /\ Len(q) = Len(pendingTurns) + 1 /\ q[Len(pendingTurns) + 1] = t
      /\ \A i \in 1 .. Len(pendingTurns) : q[i] = pendingTurns[i]
  BY Typing, AppendProperties
<1>5. /\ id[t] = reserveTurnId
      /\ \A i \in 1 .. Len(pendingTurns) : id[pendingTurns[i]] = turnId[pendingTurns[i]]
  BY <1>3, Typing
<1> HIDE DEF q, id
<1>6. ASSUME NEW i \in 1 .. Len(q) PROVE id[q[i]] >= nextTurnId /\ id[q[i]] \notin cancelledTurnIds
  <2>1. CASE i = Len(pendingTurns) + 1
    BY <1>1, <1>2, <1>4, <1>5, <2>1, Typing
  <2>2. CASE i \in 1 .. Len(pendingTurns)
    BY <1>4, <1>5, <2>2 DEF Fresh
  <2> QED
    BY <1>4, <2>1, <2>2, Typing
<1>7. \A c \in cancelledTurnIds : c < reserveTurnId + 1
  BY <1>1, <1>2, Typing
<1> QED
  BY <1>6, <1>7 DEF Fresh, q, id

\* The head of a queue of fresh numbers has the number the clock gives it, and the
\* rest stays fresh when the clock moves on.
LEMMA StartKeepsFresh ==
  ASSUME NEW q, NEW st, NEW id, NEW res, NEW log, q # << >>,
         Agree(q, st, id, res, nextTurnId, cancelledTurnIds, log),
         Fresh(q, id, res, nextTurnId, cancelledTurnIds),
         advanceTurnClock(nextTurnId + 1, cancelledTurnIds)
  PROVE  /\ id[Head(q)] = nextTurnId
         /\ Fresh(Tail(q), id, res, nextTurnId', cancelledTurnIds')
<1>1. /\ Len(q) \in Nat /\ Len(q) >= 1
      /\ q[1] \in Turn
      /\ id[q[1]] <= nextTurnId
      /\ \A i \in 2 .. Len(q) : id[q[1]] < id[q[i]]
  BY HeadIsNext
<1>2. /\ q \in Seq(Turn) /\ id \in [Turn -> Nat] /\ nextTurnId \in Nat /\ res \in Nat
      /\ cancelledTurnIds \subseteq Nat /\ IsFiniteSet(cancelledTurnIds)
  BY DEF Agree
<1>3. Head(q) = q[1] /\ id[q[1]] = nextTurnId
  <2>1. id[q[1]] >= nextTurnId /\ id[q[1]] \in Nat
    BY <1>1, <1>2 DEF Fresh
  <2> QED
    BY <1>1, <1>2, <2>1
<1>4. /\ nextTurnId' \in Nat
      /\ nextTurnId + 1 .. (nextTurnId' - 1) \subseteq cancelledTurnIds
      /\ cancelledTurnIds' = {c \in cancelledTurnIds : c > nextTurnId'}
  <2>1. nextTurnId + 1 \in Nat
    BY <1>2
  <2> QED
    BY <1>2, <2>1, AdvanceProperties
<1>5. ASSUME NEW i \in 1 .. Len(Tail(q))
      PROVE  id[Tail(q)[i]] >= nextTurnId' /\ id[Tail(q)[i]] \notin cancelledTurnIds'
  <2>1. i + 1 \in 2 .. Len(q) /\ Tail(q)[i] = q[i + 1]
    BY <1>1, <1>2, <1>5, HeadTailProperties
  <2>2. q[i + 1] \in Turn /\ id[q[i + 1]] \in Nat
    BY <1>2, <2>1
  <2>3. id[q[i + 1]] > nextTurnId /\ id[q[i + 1]] \notin cancelledTurnIds
    <3>1. i + 1 \in 1 .. Len(q)
      BY <2>1
    <3>2. id[q[i + 1]] \notin cancelledTurnIds
      BY <3>1 DEF Fresh
    <3> QED
      BY <1>1, <1>3, <2>1, <3>2
  <2>4. ~(id[q[i + 1]] < nextTurnId')
    <3>1. id[q[i + 1]] \notin nextTurnId + 1 .. (nextTurnId' - 1)
      BY <1>4, <2>3
    <3> QED
      BY <1>2, <1>4, <2>2, <2>3, <3>1
  <2> QED
    BY <1>4, <2>1, <2>2, <2>3, <2>4
<1>6. \A c \in cancelledTurnIds' : c < res
  BY <1>4 DEF Fresh
<1> QED
  BY <1>3, <1>5, <1>6 DEF Fresh

\* A step that starts a turn starts the one the clock is at.
StartsNext == \A t \in prompted' \ prompted : turnId'[t] = nextTurnId

LEMMA AdmitTurnReplays ==
  ASSUME IInv, RInv, NEW t \in Turn, AdmitTurn(t)
  PROVE  RInv' /\ (NoneLost => StartsNext)
<1> DEFINE queued == Append(pendingTurns, t)
           stq == [turnState EXCEPT ![t] = "queued"]
<1>1. /\ turnState[t] = "none"
      /\ turnId' = [turnId EXCEPT ![t] = reserveTurnId]
      /\ nextReserved' = reserveTurnId + 1
  BY DEF AdmitTurn, CreateTurn
<1>2. Agree(queued, stq, turnId', nextReserved', nextTurnId, cancelledTurnIds, prompted)
  BY <1>1, QueueKeepsAgree DEF IInv
<1>3. queued # << >> /\ queued \in Seq(Turn) /\ Head(queued) \in Turn
      /\ DOMAIN turnState = Turn
  <2>1. Len(queued) = Len(pendingTurns) + 1
    BY Typing, AppendProperties
  <2>2. queued \in Seq(Turn) /\ queued # << >>
    BY <2>1, Typing, AppendProperties, EmptySeq
  <2> QED
    BY <2>2, HeadTailProperties, Typing
<1>4. NoneLost => Fresh(queued, turnId', nextReserved', nextTurnId, cancelledTurnIds)
  BY <1>1, QueueKeepsFresh DEF RInv
<1>5. CASE /\ MayStart
           /\ pendingTurns' = Tail(queued)
           /\ turnState' = [turnState EXCEPT ![t] = "queued", ![Head(queued)] = "running"]
           /\ startTurn(Head(queued))
  <2>1. /\ active' = Head(queued)
        /\ prompted' = prompted \union {Head(queued)}
        /\ advanceTurnClock(nextTurnId + 1, cancelledTurnIds)
    BY <1>5 DEF startTurn
  <2>2. turnState'[active'] = "running"
    BY <1>3, <1>5, <2>1
  <2>3. NoneLost' => NoneLost
    <3>1. turnState[Head(queued)] # "lost"
      <4>1. stq[Head(queued)] = "queued"
        <5>1. 1 \in 1 .. Len(queued) /\ Head(queued) = queued[1]
          BY <1>3, EmptySeq
        <5> QED
          BY <1>2, <5>1 DEF Agree
      <4> QED
        BY <1>1, <1>3, <4>1
    <3> QED
      BY <1>1, <1>3, <1>5, <3>1 DEF NoneLost
  <2>4. \A c \in cancelledTurnIds' : c > nextTurnId'
    BY <2>1, Typing, AdvanceProperties
  <2> HIDE DEF queued, stq
  <2>5. NoneLost => /\ turnId'[Head(queued)] = nextTurnId
                    /\ Fresh(Tail(queued), turnId', nextReserved', nextTurnId', cancelledTurnIds')
    BY <1>2, <1>3, <1>4, <2>1, StartKeepsFresh
  <2> QED
    BY <1>5, <2>1, <2>2, <2>3, <2>4, <2>5 DEF RInv, StartsNext
<1>6. CASE /\ ~MayStart
           /\ pendingTurns' = queued
           /\ turnState' = stq
           /\ UNCHANGED <<active, prompted, nextTurnId, cancelledTurnIds>>
  <2>1. NoneLost' => NoneLost
    BY <1>1, <1>3, <1>6 DEF NoneLost
  <2>2. active # NoTurn => turnState'[active] = "running"
    <3>1. active # NoTurn => active # t /\ active \in Turn
      BY <1>1, Typing DEF RInv, IInv
    <3> QED
      BY <1>3, <1>6, <3>1 DEF RInv
  <2> QED
    BY <1>4, <1>6, <2>1, <2>2 DEF RInv, StartsNext
<1> QED
  BY <1>5, <1>6 DEF AdmitTurn, CreateTurn

LEMMA PumpTurnsReplays ==
  ASSUME IInv, RInv, PumpTurns
  PROVE  RInv' /\ (NoneLost => StartsNext)
<1> DEFINE h == Head(pendingTurns)
<1>1. /\ pendingTurns # << >>
      /\ pendingTurns' = Tail(pendingTurns)
      /\ turnState' = [turnState EXCEPT ![h] = "running"]
      /\ active' = h
      /\ prompted' = prompted \union {h}
      /\ advanceTurnClock(nextTurnId + 1, cancelledTurnIds)
      /\ turnId' = turnId /\ nextReserved' = nextReserved
  BY DEF PumpTurns, startTurn
<1>2. h \in Turn /\ turnState[h] = "queued" /\ DOMAIN turnState = Turn
  <2>1. 1 \in 1 .. Len(pendingTurns) /\ h = pendingTurns[1]
    BY <1>1, Typing, EmptySeq
  <2> QED
    BY <2>1, Typing DEF IInv, Agree
<1>3. (NoneLost' => NoneLost) /\ turnState'[active'] = "running"
  BY <1>1, <1>2 DEF NoneLost
<1>4. \A c \in cancelledTurnIds' : c > nextTurnId'
  BY <1>1, Typing, AdvanceProperties
<1>5. NoneLost => /\ turnId[h] = nextTurnId
                  /\ Fresh(Tail(pendingTurns), turnId, nextReserved, nextTurnId', cancelledTurnIds')
  BY <1>1, StartKeepsFresh DEF RInv, IInv
<1> HIDE DEF h
<1> QED
  BY <1>1, <1>3, <1>4, <1>5 DEF RInv, StartsNext

\* The number of a queued turn that is cancelled is nobody else's.
LEMMA CancelQueuedTurnReplays ==
  ASSUME IInv, RInv, NEW t \in Turn, CancelQueuedTurn(t)
  PROVE  RInv' /\ (NoneLost => StartsNext)
<1> DEFINE q == pendingTurns
           r == pendingTurns'
           n == Len(pendingTurns)
<1>0. DOMAIN pendingTurns = 1 .. Len(pendingTurns)
  BY Typing
<1>1. PICK i \in 1 .. Len(pendingTurns) :
        /\ pendingTurns[i] = t
        /\ pendingTurns' = SubSeq(pendingTurns, 1, i - 1)
                             \o SubSeq(pendingTurns, i + 1, Len(pendingTurns))
        /\ turnState' = [turnState EXCEPT ![t] = "cancelled"]
        /\ cancelTurn({turnId[t]})
        /\ UNCHANGED <<turnId, active, nextReserved, prompted>>
  <2>1. PICK i \in DOMAIN pendingTurns :
          /\ pendingTurns[i] = t
          /\ pendingTurns' = SubSeq(pendingTurns, 1, i - 1)
                               \o SubSeq(pendingTurns, i + 1, Len(pendingTurns))
          /\ turnState' = [turnState EXCEPT ![t] = "cancelled"]
          /\ cancelTurn({turnId[t]})
    BY Zenon DEF CancelQueuedTurn
  <2>2. UNCHANGED <<turnId, active, nextReserved, prompted>>
    BY DEF CancelQueuedTurn
  <2> QED
    BY <1>0, <2>1, <2>2, ZenonT(30)
<1>2. \A j \in 1 .. Len(r) : \E k \in 1 .. n : k # i /\ r[j] = q[k]
  <2>1. /\ Len(r) = n - 1
        /\ \A j \in 1 .. (n - 1) : r[j] = IF j < i THEN q[j] ELSE q[j + 1]
    BY <1>1, RemoveProperties, Typing
  <2> SUFFICES ASSUME NEW j \in 1 .. Len(r)
               PROVE  \E k \in 1 .. n : k # i /\ r[j] = q[k]
    OBVIOUS
  <2>0. n \in Nat /\ i \in 1 .. n
    BY Typing
  <2> HIDE DEF q, r, n
  <2>2. CASE j < i
    <3>1. j \in 1 .. n /\ j # i /\ r[j] = q[j]
      BY <2>0, <2>1, <2>2
    <3> QED
      BY <3>1
  <2>3. CASE ~(j < i)
    <3>1. j + 1 \in 1 .. n /\ j + 1 # i /\ r[j] = q[j + 1]
      BY <2>0, <2>1, <2>3
    <3> QED
      BY <3>1
  <2> QED
    BY <2>2, <2>3
<1>3. /\ \A k \in 1 .. n : q[k] \in Turn /\ turnId[q[k]] \in Nat /\ turnId[q[k]] < nextReserved
                           /\ turnState[q[k]] = "queued"
      /\ \A j, k \in 1 .. n : j < k => turnId[q[j]] < turnId[q[k]]
  BY Typing DEF IInv, Agree
<1>4. i \in 1 .. n /\ t = q[i] /\ n \in Nat
  BY <1>1, Typing
<1> HIDE DEF q, r, n
<1>5. \A k \in 1 .. n : k # i => turnId[q[k]] # turnId[t]
  <2> SUFFICES ASSUME NEW k \in 1 .. n, k # i PROVE turnId[q[k]] # turnId[t]
    OBVIOUS
  <2>1. k < i \/ i < k
    BY <1>4
  <2>2. turnId[q[k]] < turnId[q[i]] \/ turnId[q[i]] < turnId[q[k]]
    BY <1>3, <1>4, <2>1
  <2> QED
    BY <1>3, <1>4, <2>2
<1>6. /\ nextTurnId' \in Nat
      /\ cancelledTurnIds' \subseteq cancelledTurnIds \union {turnId[t]}
      /\ nextTurnId .. (nextTurnId' - 1) \subseteq cancelledTurnIds \union {turnId[t]}
      /\ \A c \in cancelledTurnIds' : c > nextTurnId'
  <2> DEFINE I == {turnId[t]}
  <2>1. I \subseteq Nat /\ (\A id \in I : id < nextReserved \/ id < nextTurnId) /\ cancelTurn(I)
    BY <1>1, <1>3, <1>4
  <2> HIDE DEF I
  <2>2. \A c \in cancelledTurnIds : c > nextTurnId
    BY DEF RInv
  <2> QED
    BY <2>1, <2>2, CancelProperties DEF I
<1>7. (NoneLost' => NoneLost) /\ (active # NoTurn => turnState'[active] = "running")
  <2>1. turnState[t] = "queued" /\ DOMAIN turnState = Turn /\ (active # NoTurn => active \in Turn)
    BY <1>3, <1>4, Typing DEF IInv
  <2> QED
    BY <1>1, <2>1 DEF NoneLost, RInv
<1>8. ASSUME NoneLost
      PROVE  Fresh(r, turnId, nextReserved, nextTurnId', cancelledTurnIds')
  <2>1. /\ \A c \in cancelledTurnIds : c < nextReserved
        /\ \A k \in 1 .. n : turnId[q[k]] >= nextTurnId /\ turnId[q[k]] \notin cancelledTurnIds
    BY <1>8 DEF RInv, Fresh, q, n
  <2>2. \A c \in cancelledTurnIds' : c < nextReserved
    BY <1>3, <1>4, <1>6, <2>1
  <2>3. ASSUME NEW k \in 1 .. n, k # i
        PROVE  turnId[q[k]] >= nextTurnId' /\ turnId[q[k]] \notin cancelledTurnIds'
    <3>1. turnId[q[k]] \notin cancelledTurnIds \union {turnId[t]}
      BY <1>5, <2>1, <2>3
    <3>2. turnId[q[k]] \in Nat /\ turnId[q[k]] >= nextTurnId
      BY <1>3, <2>1
    <3>3. turnId[q[k]] \notin nextTurnId .. (nextTurnId' - 1)
      BY <1>6, <3>1
    <3> QED
      BY <1>6, <3>1, <3>2, <3>3, Typing
  <2> QED
    BY <1>2, <2>2, <2>3 DEF Fresh
<1> QED
  BY <1>1, <1>6, <1>7, <1>8 DEF RInv, StartsNext, r

\* The drained loop has cancelled every number it had reserved, so the clock has
\* passed them all.
LEMMA DisposeReplays ==
  ASSUME IInv, RInv, Dispose
  PROVE  RInv' /\ (NoneLost => StartsNext)
<1> DEFINE queued == {pendingTurns[i] : i \in DOMAIN pendingTurns}
           I == {turnId[t] : t \in queued \union ({active} \ (abortedTurns \union {NoTurn}))}
<1>1. /\ pendingTurns' = << >>
      /\ turnState' = [t \in Turn |-> IF t \in queued THEN "cancelled" ELSE turnState[t]]
      /\ cancelTurn(I)
      /\ UNCHANGED <<turnId, active, nextReserved, prompted>>
  BY DEF Dispose
<1>2. DOMAIN pendingTurns = 1 .. Len(pendingTurns)
  BY Typing
<1>3. \A t \in queued : t \in Turn /\ turnState[t] = "queued" /\ turnId[t] < nextReserved
  BY <1>2, Typing DEF IInv, Agree
<1>4. active # NoTurn => active \in Turn /\ turnId[active] < nextTurnId
  BY Typing DEF IInv, Agree
<1>5. I \subseteq Nat /\ \A id \in I : id < nextReserved \/ id < nextTurnId
  BY <1>3, <1>4, Typing
<1>6. (NoneLost' => NoneLost) /\ (active # NoTurn => turnState'[active] = "running")
  BY <1>1, <1>3, <1>4 DEF NoneLost, RInv
<1> HIDE DEF I, queued
<1>7. /\ nextTurnId' \in Nat /\ nextTurnId' >= nextTurnId
      /\ cancelledTurnIds' \subseteq cancelledTurnIds \union I
      /\ \A c \in cancelledTurnIds' : c > nextTurnId'
  <2>1. \A c \in cancelledTurnIds : c > nextTurnId
    BY DEF RInv
  <2> QED
    BY <1>1, <1>5, <2>1, CancelProperties
<1>8. NoneLost => \A c \in cancelledTurnIds' : c < nextReserved
  <2> SUFFICES ASSUME NoneLost, NEW c \in cancelledTurnIds' PROVE c < nextReserved
    OBVIOUS
  <2>1. CASE c \in cancelledTurnIds
    BY <2>1 DEF RInv, Fresh
  <2>2. CASE c \in I
    <3>1. c \in Nat /\ c > nextTurnId'
      BY <1>5, <1>7, <2>2
    <3> QED
      BY <1>5, <1>7, <2>2, <3>1, Typing
  <2> QED
    BY <1>7, <2>1, <2>2
<1>9. 1 .. Len(pendingTurns') = {}
  BY <1>1
<1> QED
  BY <1>1, <1>6, <1>7, <1>8, <1>9 DEF RInv, Fresh, StartsNext

\* A restart that loses nobody finds a clock without cancelled numbers: the queue
\* was empty, and an empty queue with a number cancelled ahead of the clock would
\* leave the number at the clock unaccounted for.
LEMMA RestartReplays ==
  ASSUME IInv, RInv, Restart
  PROVE  RInv' /\ (NoneLost => StartsNext)
<1>1. /\ turnState' = [t \in Turn |-> IF turnState[t] \in Live THEN "lost" ELSE turnState[t]]
      /\ pendingTurns' = << >>
      /\ active' = NoTurn
      /\ nextReserved' = 0
      /\ UNCHANGED <<turnId, nextTurnId, cancelledTurnIds, prompted>>
  BY DEF Restart
<1>2. ASSUME NoneLost' PROVE cancelledTurnIds = {}
  <2>1. \A t \in Turn : turnState[t] \notin Live /\ turnState[t] # "lost"
    BY <1>1, <1>2 DEF NoneLost
  <2>2. pendingTurns = << >>
    <3>1. SUFFICES ASSUME pendingTurns # << >> PROVE FALSE
      OBVIOUS
    <3>2. 1 \in 1 .. Len(pendingTurns)
      BY <3>1, Typing, EmptySeq
    <3> QED
      BY <2>1, <3>2, Typing DEF IInv, Agree, Live
  <2>3. \A c \in cancelledTurnIds : c \in Nat /\ c < nextReserved /\ c > nextTurnId
    BY <2>1, Typing DEF RInv, Fresh, NoneLost
  <2>4. SUFFICES ASSUME NEW c \in cancelledTurnIds PROVE FALSE
    OBVIOUS
  <2>5. nextTurnId \in nextTurnId .. (nextReserved - 1)
    BY <2>3, <2>4, Typing
  <2>6. 1 .. Len(pendingTurns) = {}
    BY <2>2
  <2> QED
    BY <2>5, <2>6 DEF IInv, Agree
<1>3. 1 .. Len(pendingTurns') = {}
  BY <1>1
<1> QED
  BY <1>1, <1>2, <1>3 DEF RInv, Fresh, StartsNext

LEMMA ReleaseReplays ==
  ASSUME IInv, RInv, NEW outcome \in Outcome, ReleaseActiveTurn(outcome)
  PROVE  RInv' /\ (NoneLost => StartsNext)
<1>1. /\ active \in Turn /\ turnState[active] = "running" /\ DOMAIN turnState = Turn
      /\ turnState' = [turnState EXCEPT ![active] = outcome]
      /\ active' = NoTurn
      /\ UNCHANGED <<turnId, pendingTurns, nextReserved, nextTurnId, cancelledTurnIds, prompted>>
  BY Typing DEF ReleaseActiveTurn, RInv, IInv, clockVars
<1>2. NoneLost' => NoneLost
  BY <1>1 DEF NoneLost
<1> QED
  BY <1>1, <1>2 DEF RInv, Fresh, StartsNext

LEMMA QuietReplays ==
  ASSUME IInv, RInv,
         CancelActiveTurn \/ TryAcquireQuiescence(FALSE) \/ ReleaseQuiescence \/ UNCHANGED vars
  PROVE  RInv' /\ (NoneLost => StartsNext)
<1>1. UNCHANGED <<turnState, turnId, pendingTurns, active, nextReserved, prompted>>
  BY DEF CancelActiveTurn, TryAcquireQuiescence, ReleaseQuiescence, vars, queueVars, clockVars
<1>2. UNCHANGED <<nextTurnId, cancelledTurnIds>>
  <2>1. CASE CancelActiveTurn
    <3>1. turnId[active] < nextTurnId /\ turnId[active] \in Nat /\ cancelTurn({turnId[active]})
      BY <2>1, Typing DEF CancelActiveTurn, IInv, Agree
    <3>2. {id \in {turnId[active]} : id >= nextTurnId} = {}
      BY <3>1, Typing
    <3> QED
      BY <3>1, <3>2 DEF cancelTurn
  <2>2. CASE TryAcquireQuiescence(FALSE) \/ ReleaseQuiescence \/ UNCHANGED vars
    BY <2>2 DEF TryAcquireQuiescence, ReleaseQuiescence, vars, queueVars, clockVars
  <2> QED
    BY <2>1, <2>2
<1> QED
  BY <1>1, <1>2 DEF RInv, Fresh, NoneLost, StartsNext

\* A log that no crash has cut off holds no cancelled number ahead of its clock.
CleanLogs == \A clock \in PersistedClocks : clock.cancelled = {}

\* In every life after a clean one, and until a crash loses a turn, a turn starts
\* under the number the replay of the log will give it: the clock never skips the
\* number of a queued turn, whatever is cancelled around it (startTurn, turnOps,
\* foldFacts' turn clock).  After a crash this may fail: see the README.
THEOREM ReplayAgrees == CleanLogs => (Spec => ReplayAssignsSameId)
<1> SUFFICES ASSUME CleanLogs PROVE Spec => ReplayAssignsSameId
  OBVIOUS
<1>1. Init => RInv
  BY DEF Init, RInv, Fresh, CleanLogs
<1>2. IInv /\ RInv /\ [Next]_vars => RInv' /\ (NoneLost => StartsNext)
  BY AdmitTurnReplays, PumpTurnsReplays, CancelQueuedTurnReplays, DisposeReplays, RestartReplays,
     ReleaseReplays, QuietReplays DEF Next
<1>3. IInv /\ RInv /\ [Next]_vars => [NoneLost => StartsNext]_vars
  BY <1>2
<1>4. [NoneLost => StartsNext]_vars
        => [(\A t \in Turn : turnState[t] # "lost") =>
              \A t \in prompted' \ prompted : turnId'[t] = nextTurnId]_vars
  BY DEF NoneLost, StartsNext
<1> QED
  BY <1>1, <1>2, <1>3, <1>4, Invariance, PTL DEF Spec, ReplayAssignsSameId
=============================================================================
