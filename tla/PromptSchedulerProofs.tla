----------------------- MODULE PromptSchedulerProofs -----------------------
(***************************************************************************)
(* For any prompts, foreign turns and compactions.                         *)
(*                                                                         *)
(* First, compactions are serial, whatever the prompts and the turns do    *)
(* meanwhile.  The log must be known to agree with _compacting before a    *)
(* step, as cancelActive may leave both alone.                             *)
(*                                                                         *)
(* Then an inductive invariant, PInv: every prompt is in the place its     *)
(* state says and in no other, what the loop has of the prompts is what    *)
(* the service believes, the prompts that have started are in the order of *)
(* their submission, and what waits will be started.  Steers and Ending    *)
(* order the continuation of a steer and the settling of the prompt whose   *)
(* turn has ended.  Each action has a lemma; the theorems at the end        *)
(* follow from the whole.                                                   *)
(***************************************************************************)
EXTENDS PromptScheduler, QueueTheorems, TLAPS

\* The running compaction has a number, and the log knows it.
LogAgrees == logged = compacting

\* A step keeps the log in agreement, and replaces the history for nobody but the
\* running compaction.
SerialStep ==
  /\ logged' = compacting'
  /\ \A c \in Compaction : worker[c] = "round" /\ worker'[c] = "rebuild" => compacting = c

TypedWorkers == worker \in [Compaction -> {"none", "round", "rebuild", "done"}]

CInv == LogAgrees /\ TypedWorkers

LEMMA InitCompaction == Init => CInv
  BY DEF Init, CompactionInit, CInv, LogAgrees, TypedWorkers

LEMMA BeginIsSerial ==
  ASSUME CInv, NEW c \in Compaction, Begin(c)
  PROVE  CInv' /\ SerialStep
  BY DEF Begin, CInv, LogAgrees, TypedWorkers, SerialStep

LEMMA AbortIsSerial ==
  ASSUME CInv, Abort
  PROVE  CInv' /\ SerialStep
  BY DEF Abort, cancelActive, CInv, LogAgrees, TypedWorkers, SerialStep

\* Here the guards matter: the model answers the running compaction only, and the
\* fallback looks again.
LEMMA RewriteIsSerial ==
  ASSUME CInv, NEW c \in Compaction, Summarized(c) \/ Folded(c)
  PROVE  CInv' /\ SerialStep
<1>1. compacting = c /\ rewrite(c)
  BY DEF Summarized, Folded, mayFold
<1>. QED BY <1>1 DEF rewrite, CInv, LogAgrees, TypedWorkers, SerialStep

LEMMA EndIsSerial ==
  ASSUME CInv, NEW c \in Compaction, WorkerEnds(c)
  PROVE  CInv' /\ SerialStep
<1>1. worker' = [worker EXCEPT ![c] = "done"]
  BY DEF WorkerEnds
<1>2. logged' = compacting'
  BY DEF WorkerEnds, completes, cancelActive, CInv, LogAgrees
<1>. QED BY <1>1, <1>2 DEF CInv, LogAgrees, TypedWorkers, SerialStep

LEMMA NextIsSerial ==
  CInv /\ [Next]_vars => CInv' /\ (SerialStep \/ UNCHANGED compactionVars)
<1> SUFFICES ASSUME CInv, [Next]_vars
             PROVE  CInv' /\ (SerialStep \/ UNCHANGED compactionVars)
  OBVIOUS
<1>1. CASE BeginCompaction
  BY <1>1, BeginIsSerial DEF BeginCompaction
<1>2. CASE CompactionGoesOn
  BY <1>2, AbortIsSerial, RewriteIsSerial DEF CompactionGoesOn
<1>3. CASE \E c \in Compaction : CompactionFinishes(c)
  BY <1>3, EndIsSerial DEF CompactionFinishes
<1>4. CASE UNCHANGED compactionVars
  BY <1>4 DEF compactionVars, CInv, LogAgrees, TypedWorkers
<1>5. ASSUME ~BeginCompaction, ~CompactionGoesOn, ~(\E c \in Compaction : CompactionFinishes(c))
      PROVE  UNCHANGED compactionVars
  BY <1>5 DEF Next, vars, Enqueue, AbortPending, LaunchEnds, HookAllows, TurnEnds,
              AbortQueuedTurn, Clear, SteerBegins, SteerResumes, ResultResolves, Settle,
              OpenOther, AcquireLease, ReleaseLease
<1>. QED BY <1>1, <1>2, <1>3, <1>4, <1>5

\* The records in the log say whether a compaction runs, and a cancelled worker
\* never replaces the history (cancelActive, markCompleted,
\* applyDeterministicFallback).
THEOREM SerialCompactions == Spec => CompactionsAreSerial
<1>1. Spec => []CInv
  BY InitCompaction, NextIsSerial, PTL DEF Spec
<1>2. CInv /\ [Next]_vars => [SerialStep]_compactionVars
  BY NextIsSerial
<1>3. [SerialStep]_compactionVars
        => [/\ logged' = compacting'
            /\ \A c \in Compaction :
                 worker[c] = "round" /\ worker'[c] = "rebuild" => compacting = c]_compactionVars
  BY DEF SerialStep
<1>. QED BY <1>1, <1>2, <1>3, PTL DEF Spec, CompactionsAreSerial

----------------------------------------------------------------------------
(* The prompts: where each is, in what order, and in whose turn *)

State == {"new", "pending", "running", "steered"} \union Settled

\* Pending prompts that a steer has taken, and those that no place holds any more.
Elsewhere == steering \union heldSteer \union {p \in dropped : joined[p] = None}
Lost == {p \in dropped : joined[p] # None}

\* Where the prompts are, given the queue q, the one under way l, the active one a,
\* the steered ones sd, the states st, the pending ones elsewhere u and the lost w:
\* every prompt in the place its state says.
Places(q, l, a, sd, st, u, w) ==
  /\ q \in Seq(Prompt) /\ IsInjective(q)
  /\ l \in Prompt \union {None} /\ a \in Prompt \union {None}
  /\ sd \in [Prompt -> SUBSET Prompt] /\ st \in [Prompt -> State]
  /\ u \in SUBSET Prompt /\ w \in SUBSET Prompt
  /\ u \intersect ToSet(q) = {}
  /\ l # None => a = None /\ l \notin ToSet(q) /\ l \notin u
  /\ \A p \in Prompt :
       /\ st[p] = "pending" <=> p \in ToSet(q) \/ p = l \/ p \in u
       /\ st[p] = "running" <=> p = a
       /\ st[p] = "steered" <=> (a # None /\ p \in sd[a]) \/ p \in w
       /\ p # a => sd[p] = {}
       /\ p = a => sd[p] \intersect w = {}

\* The queue is in the order of submission, sub, behind the prompt under way, and
\* nobody started, sta, past an earlier prompt that still waits, unless that was
\* dropped, d.
Order(q, l, st, sub, sta, d) ==
  /\ sub \in Seq(Prompt) /\ sta \in Seq(Prompt) /\ IsInjective(sub)
  /\ \A p \in Prompt : p \in ToSet(sub) <=> st[p] # "new"
  /\ \A p \in ToSet(sta) : st[p] \in {"running"} \union Settled
  /\ \A x, y \in Prompt : Before(q, x, y) => Before(sub, x, y)
  /\ l # None => \A y \in ToSet(q) : Before(sub, l, y)
  /\ \A x, y \in Prompt :
       /\ Before(sub, x, y) /\ y \in ToSet(sta)
       => st[x] \in Settled \union {"steered"} \/ x \in d \/ Before(sta, x, y)

\* The turns of the loop, each there once, and of the prompts only that of a.
Loop(la, lq, a, op) ==
  /\ la \in Turn \union {None} /\ lq \in Seq(Turn) /\ op \in SUBSET Other
  /\ IsInjective(lq) /\ la \notin ToSet(lq)
  /\ la = None => lq = << >>
  /\ \A t \in Prompt : t = la \/ t \in ToSet(lq) <=> t = a
  /\ \A t \in Other : t = la \/ t \in ToSet(lq) => t \in op

\* The prompt that has a turn in the loop: the active one until its turn ends.
Owner == IF result = "none" THEN active ELSE None

\* A prompt is filed under the turn it joined.
Filed(a, sd, st, jn, sb) ==
  /\ jn \in [Prompt -> Turn \union {None}] /\ sb \in [Prompt -> Turn \union {None}]
  /\ a # None => jn[a] = a /\ \A s \in sd[a] : jn[s] \in {a} \union Other
  /\ \A p \in Prompt : sb[p] # None => st[p] \in Settled /\ jn[p] \in {sb[p]} \union Other
  /\ \A p \in Prompt : st[p] \in {"new", "pending"} => jn[p] = None

\* A result is awaited by settle.
Ending ==
  /\ result \in Outcome \union {"none"} /\ resolved \in BOOLEAN
  /\ result # "none" => active # None
  /\ resolved => result # "none"

\* A steer that joined a prompt's turn goes on before that prompt settles; another one
\* goes on before any hook returns.  What failed steers dropped had no turn, or a
\* foreign one.
Steers ==
  /\ steering \in SUBSET Prompt /\ heldSteer \in SUBSET Prompt /\ dropped \in SUBSET Prompt
  /\ steerTurn \in Turn \union {None} /\ ahead \in BOOLEAN
  /\ steering \intersect heldSteer = {}
  /\ (steering \union heldSteer) \intersect dropped = {}
  /\ steering # {} => steerTurn # None /\ launchPc # "held"
  /\ steering # {} /\ steerTurn \in Prompt => active = steerTurn /\ ahead
  /\ heldSteer # {} => lease
  /\ \A p \in dropped : joined[p] \in Other \union {None}

\* The running compaction has a worker, so its end is still to come.
RunningWorks == compacting # NoCompaction => compacting \in Working

Scalars ==
  /\ launchPc \in {"none", "hook", "held"}
  /\ launchPc = "none" <=> launching = None
  /\ lease \in BOOLEAN /\ overflowed \in BOOLEAN /\ leases \in Nat
  /\ CompactionTypeOK

PInv ==
  /\ Places(pending, launching, active, steered, state, Elsewhere, Lost)
  /\ Order(pending, launching, state, submitted, started, dropped)
  /\ Loop(loopActive, loopQueue, Owner, opened)
  /\ Filed(active, steered, state, joined, settledBy)
  /\ Ending
  /\ Steers
  /\ RunningWorks
  /\ Scalars
  /\ NoPromptStranded

----------------------------------------------------------------------------
(* Lemmas on what the actions are built from *)

\* A prompt that leaves the queue, or stops being under way, for a settled state.
LEMMA DropKeepsPlaces ==
  ASSUME NEW q, NEW sd, NEW st, NEW u, NEW w, NEW outcome \in Settled, q # << >>,
         Places(q, None, None, sd, st, u, w)
  PROVE  Places(Tail(q), None, None, sd, [st EXCEPT ![Head(q)] = outcome], u, w)
<1> DEFINE h == Head(q)
           r == Tail(q)
           st2 == [st EXCEPT ![h] = outcome]
<1>1. h \in Prompt /\ r \in Seq(Prompt) /\ ToSet(q) = {h} \union ToSet(r)
      /\ IsInjective(r) /\ h \notin ToSet(r)
  BY TailSet DEF Places
<1>2. st2 \in [Prompt -> State] /\ st2[h] = outcome
      /\ \A p \in Prompt : p # h => st2[p] = st[p]
  BY <1>1 DEF Places, State
<1>3. st[h] = "pending" /\ None \notin Prompt
  BY <1>1, SchedulerAssumption DEF Places
<1> HIDE DEF h, r, st2
<1>4. \A p \in Prompt :
        /\ st2[p] = "pending" <=> p \in ToSet(r) \/ p = None \/ p \in u
        /\ st2[p] = "running" <=> p = None
        /\ st2[p] = "steered" <=> (None # None /\ p \in sd[None]) \/ p \in w
  <2> TAKE p \in Prompt
  <2>1. CASE p = h
    BY <1>1, <1>2, <1>3, <2>1 DEF Places, Settled, Outcome
  <2>2. CASE p # h
    BY <1>1, <1>2, <1>3, <2>2 DEF Places
  <2> QED
    BY <2>1, <2>2
<1> QED
  BY <1>1, <1>2, <1>3, <1>4 DEF Places, h, r, st2

\* A state that changes from pending to settled for some prompts, whatever becomes
\* of the queue within its order, keeps the order.
LEMMA SettlingKeepsOrder ==
  ASSUME NEW q, NEW l, NEW st, NEW sub, NEW sta, NEW c, NEW d, c \subseteq d, Order(q, l, st, sub, sta, c),
         NEW r, \A x, y \in Prompt : Before(r, x, y) => Before(q, x, y),
         NEW k, k # None => \A y \in ToSet(r) : Before(sub, k, y),
         NEW st2 \in [Prompt -> State],
         \A p \in Prompt : \/ st2[p] = st[p]
                           \/ st2[p] \in Settled /\ st[p] # "new"
                           \/ st2[p] = "steered" /\ st[p] = "pending"
  PROVE  Order(r, k, st2, sub, sta, d)
<1>1. \A p \in Prompt : p \in ToSet(sub) <=> st2[p] # "new"
  BY DEF Order, Settled, Outcome
<1>2. ToSet(sta) \subseteq Prompt
  BY DEF Order, ToSet
<1>3. \A p \in ToSet(sta) : st2[p] \in {"running"} \union Settled
  BY <1>2 DEF Order, Settled, Outcome
<1>4. \A x, y \in Prompt :
       /\ Before(sub, x, y) /\ y \in ToSet(sta)
       => st2[x] \in Settled \union {"steered"} \/ x \in d \/ Before(sta, x, y)
  BY DEF Order
<1> QED
  BY <1>1, <1>3, <1>4 DEF Order

\* Launching the head of the queue moves it there.
LEMMA LaunchKeepsPlaces ==
  ASSUME NEW q, NEW sd, NEW st, NEW u, NEW w, q # << >>, Places(q, None, None, sd, st, u, w)
  PROVE  Places(Tail(q), Head(q), None, sd, st, u, w)
<1>1. Head(q) \in Prompt /\ Tail(q) \in Seq(Prompt) /\ ToSet(q) = {Head(q)} \union ToSet(Tail(q))
      /\ IsInjective(Tail(q)) /\ Head(q) \notin ToSet(Tail(q))
  BY TailSet DEF Places
<1>2. None \notin Prompt
  BY SchedulerAssumption
<1> QED
  BY <1>1, <1>2 DEF Places

LEMMA LaunchKeepsOrder ==
  ASSUME NEW q, NEW st, NEW sub, NEW sta, NEW d, q # << >>, q \in Seq(Prompt),
         Order(q, None, st, sub, sta, d)
  PROVE  Order(Tail(q), Head(q), st, sub, sta, d)
<1>1. /\ \A x, y : Before(Tail(q), x, y) => Before(q, x, y)
      /\ \A y \in ToSet(Tail(q)) : Before(q, Head(q), y)
  BY BeforeTail
<1>2. Head(q) \in Prompt /\ ToSet(Tail(q)) \subseteq Prompt
  BY TailSet DEF ToSet
<1> QED
  BY <1>1, <1>2 DEF Order

\* startNext over a queue q and states st, with no prompt active or under way.
LEMMA StartNextKeeps ==
  ASSUME NEW q, NEW st, startNext(q, st), NEW sd, NEW sub, NEW sta, NEW u, NEW w, NEW d,
         Places(q, None, None, sd, st, u, w), Order(q, None, st, sub, sta, d), overflowed \in BOOLEAN
  PROVE  /\ Places(pending', launching', None, sd, state', u, w)
         /\ Order(pending', launching', state', sub, sta, d)
         /\ launchPc' \in {"none", "hook"}
         /\ launchPc' = "none" <=> launching' = None
         /\ overflowed' \in BOOLEAN
         /\ pending' # << >> /\ launching' = None => compacting' # NoCompaction
         /\ \A p \in Prompt : state'[p] = st[p] \/ (st[p] = "pending" /\ state'[p] = "failed")
<1>1. CASE /\ q = << >>
           /\ launching' = None /\ launchPc' = "none" /\ pending' = q
           /\ state' = st
           /\ UNCHANGED overflowed
  BY <1>1
<1>2. CASE q # << >> /\ waits' /\ recurse(q, st)
  <2>1. overflowed' = TRUE /\ launching' = None /\ launchPc' = "none" /\ compacting' # NoCompaction
    BY <1>2 DEF recurse, waits
  <2>2. CASE pending' = q /\ state' = st
    BY <2>1, <2>2
  <2>3. CASE pending' = Tail(q) /\ state' = [st EXCEPT ![Head(q)] = "failed"]
    <3>1. Head(q) \in Prompt /\ st[Head(q)] = "pending"
      BY <1>2, TailSet DEF Places
    <3>2. \A p \in Prompt : state'[p] = st[p] \/ (st[p] = "pending" /\ state'[p] = "failed")
      BY <2>3, <3>1 DEF Places
    <3>3. Places(pending', None, None, sd, state', u, w)
      BY <1>2, <2>3, DropKeepsPlaces DEF Settled, Outcome
    <3>4. Order(pending', None, state', sub, sta, d)
      <4>1. \A x, y : Before(Tail(q), x, y) => Before(q, x, y)
        BY <1>2, BeforeTail DEF Places
      <4>2. state' \in [Prompt -> State]
        BY <3>3 DEF Places
      <4>3. \A p \in Prompt : \/ state'[p] = st[p]
                              \/ state'[p] \in Settled /\ st[p] # "new"
        BY <3>2 DEF Settled, Outcome
      <4>4. Order(Tail(q), None, state', sub, sta, d)
        BY <4>1, <4>2, <4>3, SettlingKeepsOrder
      <4> QED
        BY <2>3, <4>4
    <3> QED
      BY <2>1, <3>2, <3>3, <3>4
  <2> QED
    BY <1>2, <2>2, <2>3 DEF recurse, putBack
<1>3. CASE /\ q # << >> /\ ~waits'
           /\ launch(Head(q), Tail(q))
           /\ state' = st
           /\ UNCHANGED overflowed
  <2>1. launching' = Head(q) /\ launchPc' = "hook" /\ pending' = Tail(q)
    BY <1>3 DEF launch
  <2>2. Head(q) # None
    BY <1>3, TailSet, SchedulerAssumption DEF Places
  <2>3. Places(Tail(q), Head(q), None, sd, st, u, w)
    BY <1>3, LaunchKeepsPlaces
  <2>4. Order(Tail(q), Head(q), st, sub, sta, d)
    BY <1>3, LaunchKeepsOrder DEF Places
  <2> QED
    BY <1>3, <2>1, <2>2, <2>3, <2>4
<1> QED
  BY <1>1, <1>2, <1>3 DEF startNext

\* startNext from outside, where compactions and turns may have moved.
LEMMA StartNextIfIdleKeeps ==
  ASSUME PInv, startNextIfIdle
  PROVE  /\ Places(pending', launching', active, steered, state', Elsewhere, Lost)
         /\ Order(pending', launching', state', submitted, started, dropped)
         /\ launchPc' \in {"none", "hook", "held"}
         /\ launchPc' = launchPc \/ launchPc' # "held"
         /\ launchPc' = "none" <=> launching' = None
         /\ overflowed' \in BOOLEAN
         /\ pending' # << >> /\ launching' = None /\ active = None => compacting' # NoCompaction
         /\ \A p \in Prompt : \/ state'[p] = state[p]
                              \/ state[p] = "pending" /\ state'[p] = "failed"
<1>1. CASE busy /\ UNCHANGED <<pending, launching, launchPc, state, overflowed>>
  BY <1>1 DEF PInv, Scalars, busy
<1>2. CASE ~busy /\ startNext(pending, state)
  <2>1. active = None /\ launching = None
    BY <1>2 DEF busy
  <2>2. overflowed \in BOOLEAN
    BY DEF PInv, Scalars
  <2> QED
    BY <1>2, <2>1, <2>2, StartNextKeeps DEF PInv
<1> QED
  BY <1>1, <1>2 DEF startNextIfIdle

\* Nobody is left behind by a step that lets a prompt wait only for a compaction.
LEMMA Attended ==
  ASSUME RunningWorks',
         pending' # << >> /\ launching' = None /\ active' = None => compacting' # NoCompaction
  PROVE  NoPromptStranded'
  BY DEF RunningWorks, NoPromptStranded, busy

\* What a settled prompt's handle says is not taken back.
LEMMA StaysFiled ==
  ASSUME NEW a, NEW sd, NEW st, NEW st2, NEW jn, NEW sb, Filed(a, sd, st, jn, sb),
         \A p \in Prompt : st2[p] = st[p] \/ st2[p] \in Settled
  PROVE  Filed(a, sd, st2, jn, sb)
  BY DEF Filed, Settled, Outcome

\* Nothing but turns and leases moves.
LEMMA CompactionStays ==
  ASSUME RunningWorks, CompactionTypeOK, UNCHANGED compactionVars
  PROVE  RunningWorks' /\ CompactionTypeOK'
  BY DEF RunningWorks, CompactionTypeOK, compactionVars, Working

\* A turn that is not in the loop joins it at the end.
LEMMA AdmissionKeeps ==
  ASSUME NEW a, NEW op, Loop(loopActive, loopQueue, a, op), NEW t \in Turn, afterAdmission(t),
         t # loopActive, t \notin ToSet(loopQueue)
  PROVE  /\ loopActive' \in Turn \union {None} /\ loopQueue' \in Seq(Turn)
         /\ IsInjective(loopQueue') /\ loopActive' \notin ToSet(loopQueue')
         /\ loopActive' # None
         /\ \A u \in Turn : \/ u = loopActive'
                            \/ u \in ToSet(loopQueue')
                <=> u = t \/ u = loopActive \/ u \in ToSet(loopQueue)
<1>0. None \notin Turn
  BY SchedulerAssumption DEF Turn
<1>1. CASE loopActive = None /\ loopActive' = t /\ loopQueue' = loopQueue
  BY <1>0, <1>1 DEF Loop
<1>2. CASE loopActive # None /\ loopQueue' = Append(loopQueue, t) /\ loopActive' = loopActive
  <2>1. /\ loopQueue' \in Seq(Turn) /\ ToSet(loopQueue') = ToSet(loopQueue) \union {t}
        /\ IsInjective(loopQueue')
    BY <1>2, AppendSet DEF Loop
  <2> QED
    BY <1>2, <2>1 DEF Loop
<1> QED
  BY <1>1, <1>2 DEF afterAdmission

----------------------------------------------------------------------------
(* The service's operations *)

LEMMA InitPlaces == Init => PInv
<1> SUFFICES ASSUME Init PROVE PInv
  OBVIOUS
<1> USE SchedulerAssumption DEF Init
<1>1. None \notin Prompt /\ None \notin Other /\ None \notin Turn
  BY DEF Turn
<1>2. IsInjective(<< >>) /\ ToSet(<< >>) = {} /\ << >> \in Seq(Prompt) /\ << >> \in Seq(Turn)
  BY EmptySet DEF IsInjective
<1>3. Places(pending, launching, active, steered, state, Elsewhere, Lost)
  <2>1. Elsewhere = {} /\ Lost = {}
    BY DEF Elsewhere, Lost
  <2> QED
    BY <1>1, <1>2, <2>1 DEF Places, State
<1>4. Order(pending, launching, state, submitted, started, dropped)
  BY <1>1, <1>2, NothingBefore DEF Order
<1>5. Loop(loopActive, loopQueue, Owner, opened)
  BY <1>1, <1>2 DEF Loop, Turn, Owner
<1>6. Filed(active, steered, state, joined, settledBy)
  BY <1>1 DEF Filed
<1>6a. Ending /\ Steers
  BY <1>1 DEF Ending, Steers
<1>7. RunningWorks /\ Scalars
  BY DEF RunningWorks, Scalars, CompactionInit, CompactionTypeOK
<1>8. NoPromptStranded
  BY DEF NoPromptStranded
<1> QED
  BY <1>3, <1>4, <1>5, <1>6, <1>6a, <1>7, <1>8 DEF PInv

\* The steers are left alone.
LEMMA SteersStay ==
  ASSUME Steers, UNCHANGED <<steerVars, joined, active>>,
         heldSteer = {} \/ lease', steering = {} \/ launchPc' # "held"
  PROVE  Elsewhere' = Elsewhere /\ Lost' = Lost /\ dropped' = dropped /\ Steers'
  BY DEF Steers, steerVars, Elsewhere, Lost

LEMMA EndingStays ==
  ASSUME Ending, UNCHANGED <<endVars, active>>
  PROVE  Ending' /\ Owner' = Owner
  BY DEF Ending, Owner, endVars

\* A new prompt goes to the end of the queue and of the history.
LEMMA SubmitKeeps ==
  ASSUME PInv, NEW p \in Prompt, state[p] = "new"
  PROVE  LET q == Append(pending, p)
             st == [state EXCEPT ![p] = "pending"]
         IN  /\ Places(q, launching, active, steered, st, Elsewhere, Lost)
             /\ Order(q, launching, st, Append(submitted, p), started, dropped)
             /\ Filed(active, steered, st, joined, settledBy)
<1> DEFINE q == Append(pending, p)
           st == [state EXCEPT ![p] = "pending"]
           sub == Append(submitted, p)
<1>1. /\ pending \in Seq(Prompt) /\ submitted \in Seq(Prompt) /\ started \in Seq(Prompt)
      /\ state \in [Prompt -> State] /\ IsInjective(pending) /\ IsInjective(submitted)
  BY DEF PInv, Places, Order
<1>2. p \notin ToSet(pending) /\ p # launching /\ p # active /\ p \notin ToSet(submitted)
      /\ p \notin ToSet(started) /\ p \notin Elsewhere
  BY DEF PInv, Places, Order, Settled, Outcome
<1>3. /\ q \in Seq(Prompt) /\ ToSet(q) = ToSet(pending) \union {p} /\ IsInjective(q)
      /\ sub \in Seq(Prompt) /\ ToSet(sub) = ToSet(submitted) \union {p} /\ IsInjective(sub)
  BY <1>1, <1>2, AppendSet
<1>4. st \in [Prompt -> State] /\ st[p] = "pending" /\ \A r \in Prompt : r # p => st[r] = state[r]
  BY <1>1 DEF State
<1>5. /\ \A x, y : Before(q, x, y) <=> Before(pending, x, y) \/ (y = p /\ x \in ToSet(pending))
      /\ \A x, y : Before(sub, x, y) <=> Before(submitted, x, y) \/ (y = p /\ x \in ToSet(submitted))
  BY <1>1, BeforeAppend
<1> HIDE DEF q, st, sub
<1>6. Places(q, launching, active, steered, st, Elsewhere, Lost)
  <2>1. \A r \in Prompt :
          /\ st[r] = "pending" <=> r \in ToSet(q) \/ r = launching \/ r \in Elsewhere
          /\ st[r] = "running" <=> r = active
          /\ st[r] = "steered" <=> (active # None /\ r \in steered[active]) \/ r \in Lost
          /\ r # active => steered[r] = {}
          /\ r = active => steered[r] \intersect Lost = {}
    <3> TAKE r \in Prompt
    <3>1. CASE r = p
      BY <1>2, <1>3, <1>4, <3>1 DEF PInv, Places
    <3>2. CASE r # p
      BY <1>3, <1>4, <3>2 DEF PInv, Places
    <3> QED
      BY <3>1, <3>2
  <2> QED
    BY <1>2, <1>3, <1>4, <2>1 DEF PInv, Places
<1>7. Order(q, launching, st, sub, started, dropped)
  <2>1. \A r \in Prompt : r \in ToSet(sub) <=> st[r] # "new"
    BY <1>3, <1>4 DEF PInv, Order
  <2>2. \A r \in ToSet(started) : st[r] \in {"running"} \union Settled
    <3>1. ToSet(started) \subseteq Prompt
      BY <1>1 DEF ToSet
    <3> QED
      BY <1>2, <1>4, <3>1 DEF PInv, Order
  <2>3. \A x, y \in Prompt : Before(q, x, y) => Before(sub, x, y)
    <3>1. \A x \in Prompt : x \in ToSet(pending) => x \in ToSet(submitted)
      BY DEF PInv, Places, Order
    <3> QED
      BY <1>5, <3>1 DEF PInv, Order
  <2>4. launching # None => \A y \in ToSet(q) : Before(sub, launching, y)
    <3>1. launching # None => launching \in ToSet(submitted)
      BY DEF PInv, Places, Order
    <3> QED
      BY <1>3, <1>5, <3>1 DEF PInv, Order
  <2>5. \A x, y \in Prompt :
          Before(sub, x, y) /\ y \in ToSet(started)
          => st[x] \in Settled \union {"steered"} \/ x \in dropped \/ Before(started, x, y)
    <3>1. \A x \in Prompt : state[x] \in Settled \union {"steered"} => st[x] = state[x]
      BY <1>4 DEF Settled, Outcome
    <3> QED
      BY <1>2, <1>5, <3>1 DEF PInv, Order
  <2> QED
    BY <1>1, <1>3, <2>1, <2>2, <2>3, <2>4, <2>5 DEF Order
<1>8. Filed(active, steered, st, joined, settledBy)
  <2>1. \A r \in Prompt : settledBy[r] # None => r # p
    BY DEF PInv, Filed, Settled, Outcome
  <2> QED
    BY <1>4, <2>1 DEF PInv, Filed
<1> QED
  BY <1>6, <1>7, <1>8 DEF q, st, sub

LEMMA EnqueueKeeps ==
  ASSUME PInv, NEW p \in Prompt, Enqueue(p)
  PROVE  PInv'
<1> DEFINE q == Append(pending, p)
           st == [state EXCEPT ![p] = "pending"]
<1>1. /\ state[p] = "new"
      /\ submitted' = Append(submitted, p)
      /\ UNCHANGED <<active, steered, endVars, steerVars, joined, settledBy, loopVars, compactionVars,
                     started>>
  BY DEF Enqueue
<1>2. /\ Places(q, launching, active, steered, st, Elsewhere, Lost)
      /\ Order(q, launching, st, submitted', started, dropped)
      /\ Filed(active, steered, st, joined, settledBy)
  BY <1>1, SubmitKeeps
<1>2a. Ending' /\ Owner' = Owner
  BY <1>1, EndingStays DEF PInv
<1>2b. launchPc' = launchPc \/ launchPc' # "held"
                => Elsewhere' = Elsewhere /\ Lost' = Lost /\ dropped' = dropped /\ Steers'
  BY <1>1, SteersStay DEF PInv, Steers, loopVars
<1>3. Loop(loopActive, loopQueue, Owner, opened)' /\ RunningWorks' /\ CompactionTypeOK'
      /\ leases' \in Nat /\ lease' \in BOOLEAN
  BY <1>1, <1>2a, CompactionStays DEF PInv, loopVars, Scalars
<1>4. CASE /\ busy \/ waits
           /\ pending' = q /\ state' = st
           /\ UNCHANGED <<launching, launchPc, overflowed>>
  <2>1. Scalars'
    BY <1>3, <1>4 DEF PInv, Scalars
  <2>2. NoPromptStranded'
    BY <1>1, <1>3, <1>4, Attended DEF busy, waits, compactionVars
  <2> QED
    BY <1>1, <1>2, <1>2a, <1>2b, <1>3, <1>4, <2>1, <2>2 DEF PInv
<1>5. CASE ~busy /\ ~waits /\ startNext(q, st)
  <2>1. active = None /\ launching = None /\ overflowed \in BOOLEAN
    BY <1>5 DEF busy, PInv, Scalars
  <2> HIDE DEF q, st
  <2>2. /\ Places(pending', launching', None, steered, state', Elsewhere, Lost)
        /\ Order(pending', launching', state', submitted', started, dropped)
        /\ launchPc' \in {"none", "hook"}
        /\ launchPc' = "none" <=> launching' = None
        /\ overflowed' \in BOOLEAN
        /\ pending' # << >> /\ launching' = None => compacting' # NoCompaction
        /\ \A r \in Prompt : state'[r] = st[r] \/ (st[r] = "pending" /\ state'[r] = "failed")
    BY <1>2, <1>5, <2>1, StartNextKeeps
  <2>3. Filed(active, steered, state', joined, settledBy)
    BY <1>2, <2>2, StaysFiled DEF Settled, Outcome
  <2>4. Scalars' /\ NoPromptStranded'
    BY <1>3, <2>2, Attended DEF Scalars
  <2> QED
    BY <1>1, <1>2a, <1>2b, <1>3, <2>1, <2>2, <2>3, <2>4 DEF PInv
<1> QED
  BY <1>4, <1>5 DEF Enqueue

LEMMA LaunchEndsKeeps ==
  ASSUME PInv, NEW outcome \in {"blocked", "failed"}, LaunchEnds(outcome)
  PROVE  PInv'
<1> DEFINE st == [state EXCEPT ![launching] = outcome]
<1>1. /\ launchPc = "hook"
      /\ UNCHANGED <<active, steered, endVars, steerVars, joined, settledBy, loopVars, compactionVars,
                     history>>
      /\ startNext(pending, st)
  BY DEF LaunchEnds, hookReturns
<1>2. launching \in Prompt /\ active = None /\ None \notin Prompt
  BY <1>1, SchedulerAssumption DEF PInv, Places, Scalars
<1>3. /\ st \in [Prompt -> State] /\ st[launching] = outcome /\ state[launching] = "pending"
      /\ \A p \in Prompt : p # launching => st[p] = state[p]
  BY <1>2 DEF PInv, Places, State, Settled, Outcome
<1> HIDE DEF st
<1>4. Places(pending, None, None, steered, st, Elsewhere, Lost)
  <2>1. \A p \in Prompt :
          /\ st[p] = "pending" <=> p \in ToSet(pending) \/ p = None \/ p \in Elsewhere
          /\ st[p] = "running" <=> p = None
          /\ st[p] = "steered" <=> (None # None /\ p \in steered[None]) \/ p \in Lost
          /\ steered[p] = {}
    <3> TAKE p \in Prompt
    <3>1. CASE p = launching
      BY <1>2, <1>3, <3>1 DEF PInv, Places
    <3>2. CASE p # launching
      BY <1>2, <1>3, <3>2 DEF PInv, Places
    <3> QED
      BY <3>1, <3>2
  <2> QED
    BY <1>3, <2>1 DEF PInv, Places
<1>5. Order(pending, None, st, submitted, started, dropped)
  <2>1. \A p \in Prompt : st[p] = state[p] \/ (st[p] \in Settled /\ state[p] # "new")
    BY <1>3 DEF Settled, Outcome
  <2> QED
    BY <1>3, <2>1, SettlingKeepsOrder DEF PInv
<1>6. overflowed \in BOOLEAN
  BY DEF PInv, Scalars
<1>7. /\ Places(pending', launching', None, steered, state', Elsewhere, Lost)
      /\ Order(pending', launching', state', submitted, started, dropped)
      /\ launchPc' \in {"none", "hook"}
      /\ launchPc' = "none" <=> launching' = None
      /\ overflowed' \in BOOLEAN
      /\ pending' # << >> /\ launching' = None => compacting' # NoCompaction
      /\ \A p \in Prompt : state'[p] = st[p] \/ (st[p] = "pending" /\ state'[p] = "failed")
  BY <1>1, <1>4, <1>5, <1>6, StartNextKeeps
<1>8. Filed(active, steered, state', joined, settledBy)
  <2>1. \A p \in Prompt : state'[p] = state[p] \/ state'[p] \in Settled
    BY <1>3, <1>7 DEF Settled, Outcome
  <2> QED
    BY <2>1, StaysFiled DEF PInv
<1>8a. Ending' /\ Owner' = Owner
  BY <1>1, EndingStays DEF PInv
<1>8b. Elsewhere' = Elsewhere /\ Lost' = Lost /\ dropped' = dropped /\ Steers'
  BY <1>1, <1>7, SteersStay DEF PInv, Steers, loopVars
<1>9. /\ Loop(loopActive, loopQueue, Owner, opened)' /\ RunningWorks'
      /\ CompactionTypeOK' /\ leases' \in Nat /\ lease' \in BOOLEAN
  BY <1>1, <1>8a, CompactionStays DEF PInv, loopVars, Scalars
<1>10. Scalars' /\ NoPromptStranded'
  BY <1>7, <1>9, Attended DEF Scalars
<1> QED
  BY <1>1, <1>2, <1>7, <1>8, <1>8a, <1>8b, <1>9, <1>10 DEF PInv, history

\* The prompt under way gets its turn, which no earlier prompt still waits for.
LEMMA BecomesActiveKeeps ==
  ASSUME PInv, launching # None, becomesActive(launching), steering = {},
         UNCHANGED <<pending, steered, endVars, steering, steerTurn, ahead, settledBy, opened, leases,
                     compactionVars, overflowed, submitted>>,
         heldSteer' = {}, dropped' = dropped \union heldSteer,
         lease' \in BOOLEAN
  PROVE  PInv'
<1> DEFINE p == launching
<1>1. /\ afterAdmission(p) /\ active' = p /\ launching' = None /\ launchPc' = "none"
      /\ state' = [state EXCEPT ![p] = "running"]
      /\ joined' = [joined EXCEPT ![p] = p]
      /\ started' = Append(started, p)
  BY DEF becomesActive
<1>2. p \in Prompt /\ p \in Turn /\ active = None /\ None \notin Prompt /\ p \notin ToSet(pending)
      /\ state[p] = "pending"
  BY SchedulerAssumption DEF PInv, Places, Turn
<1> HIDE DEF p
<1>3. /\ state' \in [Prompt -> State] /\ state'[p] = "running"
      /\ \A r \in Prompt : r # p => state'[r] = state[r]
  BY <1>1, <1>2 DEF PInv, Places, State
\* A held steer is rejected here; what it took stays out of every place.
<1>3a. Elsewhere' = Elsewhere /\ Lost' = Lost /\ Steers' /\ Ending' /\ Owner' = p /\ Owner = None
  <2>1. joined \in [Prompt -> Turn \union {None}] /\ dropped \subseteq Prompt /\ heldSteer \subseteq Prompt
    BY DEF PInv, Filed, Steers
  <2>2. \A r \in heldSteer : state[r] = "pending" /\ joined[r] = None /\ r # p
    <3>1. heldSteer \subseteq Elsewhere
      BY DEF Elsewhere
    <3> QED
      BY <1>2, <2>1, <3>1 DEF PInv, Places, Filed, p
  <2>3. p \notin dropped
    <3>1. p \notin Elsewhere
      BY <1>2 DEF PInv, Places, p
    <3>2. p \notin Lost
      BY <1>2 DEF PInv, Places
    <3> QED
      BY <3>1, <3>2 DEF Elsewhere, Lost
  <2>4. \A r \in dropped \union heldSteer : joined'[r] = joined[r]
    BY <1>1, <2>1, <2>2, <2>3
  <2>5. Elsewhere' = Elsewhere /\ Lost' = Lost
    BY <2>2, <2>4 DEF Elsewhere, Lost
  <2>6. Steers'
    BY <1>1, <2>1, <2>2, <2>4 DEF PInv, Steers
  <2>7. result = "none" /\ resolved = FALSE
    BY <1>2 DEF PInv, Ending
  <2> QED
    BY <1>1, <1>2, <2>5, <2>6, <2>7 DEF Ending, Owner, endVars
<1>4. Places(pending, None, p, steered, state', Elsewhere, Lost)
  <2>1. \A r \in Prompt :
          /\ state'[r] = "pending" <=> r \in ToSet(pending) \/ r = None \/ r \in Elsewhere
          /\ state'[r] = "running" <=> r = p
          /\ state'[r] = "steered" <=> (p # None /\ r \in steered[p]) \/ r \in Lost
          /\ r # p => steered[r] = {}
          /\ r = p => steered[r] \intersect Lost = {}
    <3>1. steered[p] = {} /\ launching = p
      BY <1>2 DEF PInv, Places, p
    <3> TAKE r \in Prompt
    <3>2. CASE r = p
      BY <1>2, <1>3, <3>1, <3>2 DEF PInv, Places
    <3>3. CASE r # p
      BY <1>2, <1>3, <3>1, <3>3 DEF PInv, Places
    <3> QED
      BY <3>2, <3>3
  <2> QED
    BY <1>2, <1>3, <2>1 DEF PInv, Places
<1>5. Order(pending, None, state', submitted, started', dropped')
  <2>1. started \in Seq(Prompt) /\ submitted \in Seq(Prompt) /\ IsInjective(submitted)
    BY DEF PInv, Order
  <2>2. /\ started' \in Seq(Prompt) /\ ToSet(started') = ToSet(started) \union {p}
        /\ \A x, y : Before(started', x, y) <=> Before(started, x, y) \/ (y = p /\ x \in ToSet(started))
    BY <1>1, <1>2, <2>1, AppendSet, BeforeAppend
  <2>3. \A r \in ToSet(started') : state'[r] \in {"running"} \union Settled
    <3>1. ToSet(started) \subseteq Prompt
      BY <2>1 DEF ToSet
    <3> QED
      BY <1>3, <2>2, <3>1 DEF PInv, Order
  <2>4. \A r \in Prompt : r \in ToSet(submitted) <=> state'[r] # "new"
    BY <1>2, <1>3 DEF PInv, Order
  <2>5. ASSUME NEW x \in Prompt, Before(submitted, x, p)
        PROVE  state'[x] \in Settled \union {"steered"} \/ x \in dropped'
    <3>0. CASE x \in Elsewhere
      BY <3>0 DEF Elsewhere
    <3> SUFFICES ASSUME x \notin Elsewhere PROVE state'[x] \in Settled \union {"steered"}
      BY <3>0
    <3>1. x # p
      BY <2>1, <2>5, BeforeIsAntisymmetric
    <3>2. x \in ToSet(submitted)
      BY <2>5 DEF Before, ToSet
    <3>3. x \notin ToSet(pending)
      <4>1. x \in ToSet(pending) => Before(submitted, p, x)
        BY <1>2 DEF PInv, Order, p
      <4> QED
        BY <2>1, <2>5, <4>1, BeforeIsAntisymmetric
    <3>4. state[x] \notin {"new", "pending", "running"}
      BY <1>2, <3>1, <3>2, <3>3 DEF PInv, Places, Order, p
    <3>5. state[x] \in State
      BY DEF PInv, Places
    <3> QED
      BY <1>3, <3>1, <3>4, <3>5 DEF State
  <2>6. \A x, y \in Prompt :
          Before(submitted, x, y) /\ y \in ToSet(started')
          => state'[x] \in Settled \union {"steered"} \/ x \in dropped' \/ Before(started', x, y)
    <3> SUFFICES ASSUME NEW x \in Prompt, NEW y \in Prompt,
                        Before(submitted, x, y), y \in ToSet(started')
                 PROVE  \/ state'[x] \in Settled \union {"steered"}
                        \/ x \in dropped'
                        \/ Before(started', x, y)
      OBVIOUS
    <3>1. CASE y = p
      BY <2>5, <3>1
    <3>2. CASE y \in ToSet(started)
      <4>1. state[x] \in Settled \union {"steered"} \/ x \in dropped \/ Before(started, x, y)
        BY <3>2 DEF PInv, Order
      <4>2. state[x] \in Settled \union {"steered"} => x # p
        BY <1>2 DEF Settled, Outcome
      <4> QED
        BY <1>3, <2>2, <4>1, <4>2
    <3> QED
      BY <2>2, <3>1, <3>2
  <2> QED
    BY <2>1, <2>2, <2>3, <2>4, <2>6 DEF PInv, Order
<1>6. Loop(loopActive', loopQueue', p, opened)
  <2>1. Loop(loopActive, loopQueue, None, opened)
    BY <1>3a DEF PInv
  <2>2. p # loopActive /\ p \notin ToSet(loopQueue)
    BY <1>2, <2>1 DEF Loop
  <2>3. /\ loopActive' \in Turn \union {None} /\ loopQueue' \in Seq(Turn)
        /\ IsInjective(loopQueue') /\ loopActive' \notin ToSet(loopQueue')
        /\ loopActive' # None
        /\ \A u \in Turn : \/ u = loopActive'
                           \/ u \in ToSet(loopQueue')
               <=> u = p \/ u = loopActive \/ u \in ToSet(loopQueue)
    BY <1>1, <1>2, <2>1, <2>2, AdmissionKeeps
  <2>4. \A u \in Prompt : u = loopActive' \/ u \in ToSet(loopQueue') <=> u = p
    BY <1>2, <2>1, <2>3 DEF Loop, Turn
  <2>5. \A u \in Other : u = loopActive' \/ u \in ToSet(loopQueue') => u \in opened
    BY <1>2, <2>1, <2>3, SchedulerAssumption DEF Loop, Turn
  <2> QED
    BY <2>1, <2>3, <2>4, <2>5 DEF Loop
<1>7. Filed(p, steered, state', joined', settledBy)
  <2>1. steered[p] = {}
    BY <1>2 DEF PInv, Places
  <2>2. joined' \in [Prompt -> Turn \union {None}] /\ joined'[p] = p
        /\ \A r \in Prompt : r # p => joined'[r] = joined[r]
    BY <1>1, <1>2 DEF PInv, Filed
  <2>3. settledBy[p] = None
    BY <1>2 DEF PInv, Filed, Settled, Outcome
  <2> QED
    BY <1>2, <1>3, <2>1, <2>2, <2>3 DEF PInv, Filed
<1>8. RunningWorks' /\ CompactionTypeOK'
  BY CompactionStays DEF PInv, Scalars
<1>9. Scalars'
  BY <1>1, <1>8 DEF PInv, Scalars
<1>10. NoPromptStranded'
  BY <1>1, <1>2 DEF NoPromptStranded, busy
<1> QED
  BY <1>1, <1>3a, <1>4, <1>5, <1>6, <1>7, <1>8, <1>9, <1>10 DEF PInv

LEMMA HookAllowsKeeps ==
  ASSUME PInv, HookAllows
  PROVE  PInv'
<1>1. launchPc = "hook" /\ launching # None /\ lease \in BOOLEAN /\ steering = {}
  BY DEF HookAllows, hookReturns, PInv, Scalars
<1>2. /\ UNCHANGED <<pending, steered, endVars, steerVars, settledBy, opened, leases, compactionVars,
                     overflowed, submitted>>
      /\ lease' = lease
  BY DEF HookAllows
<1>3. CASE ~lease /\ becomesActive(launching)
  <2>1. heldSteer = {}
    BY <1>3 DEF PInv, Steers
  <2> QED
    BY <1>1, <1>2, <1>3, <2>1, BecomesActiveKeeps DEF steerVars
<1>4. CASE /\ launchPc' = "held"
           /\ UNCHANGED <<launching, active, state, joined, loopActive, loopQueue, started>>
  <2>1. RunningWorks' /\ CompactionTypeOK'
    BY <1>2, CompactionStays DEF PInv, Scalars
  <2>2. Scalars'
    BY <1>1, <1>2, <1>4, <2>1 DEF PInv, Scalars
  <2>3. NoPromptStranded'
    BY <1>1, <1>4 DEF NoPromptStranded, busy
  <2>4. Ending' /\ Owner' = Owner
    BY <1>2, <1>4, EndingStays DEF PInv
  <2>5. Elsewhere' = Elsewhere /\ Lost' = Lost /\ dropped' = dropped /\ Steers'
    BY <1>1, <1>2, <1>4, SteersStay DEF PInv, Steers
  <2> QED
    BY <1>2, <1>4, <2>1, <2>2, <2>3, <2>4, <2>5 DEF PInv
<1> QED
  BY <1>3, <1>4 DEF HookAllows

LEMMA ReleaseLeaseKeeps ==
  ASSUME PInv, ReleaseLease
  PROVE  PInv'
<1>1. /\ UNCHANGED <<pending, steered, endVars, steering, steerTurn, ahead, settledBy, opened, leases,
                     compactionVars, overflowed, submitted>>
      /\ lease' = FALSE
      /\ heldSteer' = {} /\ dropped' = dropped \union heldSteer
  BY DEF ReleaseLease
<1>2. CASE launchPc = "held" /\ becomesActive(launching)
  <2>1. launching # None /\ steering = {}
    BY <1>2 DEF PInv, Scalars, Steers
  <2> QED
    BY <1>1, <1>2, <2>1, BecomesActiveKeeps
<1>3. CASE UNCHANGED <<launching, launchPc, active, state, joined, loopActive, loopQueue, started>>
  <2>1. RunningWorks' /\ CompactionTypeOK'
    BY <1>1, CompactionStays DEF PInv, Scalars
  <2>2. Scalars'
    BY <1>1, <1>3, <2>1 DEF PInv, Scalars
  <2>3. NoPromptStranded'
    BY <1>1, <1>3 DEF PInv, NoPromptStranded, busy, compactionVars, Working
  <2>4. Ending' /\ Owner' = Owner
    BY <1>1, <1>3, EndingStays DEF PInv
  <2>5. \A p \in heldSteer : p \in Prompt /\ joined[p] = None
    <3>1. heldSteer \subseteq Elsewhere
      BY DEF Elsewhere
    <3> QED
      BY <3>1 DEF PInv, Places, Filed
  <2>6. Elsewhere' = Elsewhere /\ Lost' = Lost
    BY <1>1, <1>3, <2>5 DEF Elsewhere, Lost
  <2>7. Steers'
    BY <1>1, <1>3, <2>5 DEF PInv, Steers
  <2>8. Order(pending', launching', state', submitted', started', dropped')
    BY <1>1, <1>3 DEF PInv, Order
  <2> QED
    BY <1>1, <1>3, <2>1, <2>2, <2>3, <2>4, <2>6, <2>7, <2>8 DEF PInv
<1> QED
  BY <1>2, <1>3 DEF ReleaseLease

\* The active prompt and those steered under it settle.
LEMMA SettleKeeps ==
  ASSUME PInv, Settle
  PROVE  PInv'
<1> DEFINE p == active
           st == [s \in Prompt |-> IF s \in toSettle(p) THEN stateOf(result) ELSE state[s]]
<1>1. /\ resolved /\ ~ahead
      /\ active' = None
      /\ steered' = [steered EXCEPT ![p] = {}]
      /\ result' = "none" /\ resolved' = FALSE
      /\ settledBy' = [s \in Prompt |-> IF s \in toSettle(p) THEN p ELSE settledBy[s]]
      /\ startNext(pending, st)
      /\ UNCHANGED <<steerVars, joined, loopVars, compactionVars, history>>
  BY DEF Settle, settleRuns
<1>2. p \in Prompt /\ None \notin Prompt /\ launching = None /\ toSettle(p) = {p} \union steered[p]
      /\ result # "none"
  <2>1. active # None /\ result # "none"
    BY <1>1 DEF PInv, Ending
  <2> QED
    BY <2>1, SchedulerAssumption DEF PInv, Places, toSettle
<1>3. pending \in Seq(Prompt) /\ IsInjective(pending)
  BY DEF PInv, Places
<1>4. /\ stateOf(result) \in Settled
      /\ \A s \in toSettle(p) : st[s] = stateOf(result)
      /\ \A s \in Prompt \ toSettle(p) : st[s] = state[s]
      /\ toSettle(p) \subseteq Prompt /\ p \in toSettle(p)
  BY <1>2 DEF stateOf, Settled, Outcome, PInv, Places
<1>5. st \in [Prompt -> State]
  BY <1>4 DEF State, PInv, Places
<1> HIDE DEF st, p
<1>6. \A s \in Prompt : \/ st[s] = state[s]
                        \/ st[s] \in Settled /\ state[s] # "new"
  <2>1. \A s \in toSettle(p) : state[s] \in {"running", "steered"}
    BY <1>2 DEF PInv, Places, p
  <2> QED
    BY <1>4, <2>1
<1>7. /\ steered' \in [Prompt -> SUBSET Prompt]
      /\ \A s \in Prompt : steered'[s] = {}
  BY <1>1, <1>2 DEF PInv, Places, p
<1>8. Places(pending, None, None, steered', st, Elsewhere, Lost)
  <2> SUFFICES ASSUME NEW s \in Prompt
               PROVE  /\ st[s] = "pending" <=> s \in ToSet(pending) \/ s \in Elsewhere
                      /\ st[s] # "running"
                      /\ st[s] = "steered" <=> s \in Lost
    BY <1>2, <1>3, <1>5, <1>7 DEF PInv, Places
  <2>1. /\ state[s] = "pending" <=> s \in ToSet(pending) \/ s \in Elsewhere
        /\ state[s] = "running" <=> s = p
        /\ state[s] = "steered" <=> s \in steered[p] \/ s \in Lost
        /\ steered[p] \intersect Lost = {}
    BY <1>2 DEF PInv, Places, p
  <2>2. CASE s \in toSettle(p)
    <3>1. s \notin ToSet(pending) /\ s \notin Elsewhere /\ s \notin Lost
      BY <1>2, <2>1, <2>2
    <3> QED
      BY <1>4, <2>2, <3>1 DEF Settled, Outcome
  <2>3. CASE s \notin toSettle(p)
    BY <1>2, <1>4, <2>1, <2>3
  <2> QED
    BY <2>2, <2>3
<1>9. Order(pending, None, st, submitted, started, dropped)
  <2>1. Order(pending, launching, state, submitted, started, dropped)
    BY DEF PInv
  <2> QED
    BY <1>5, <1>6, <2>1, SettlingKeepsOrder
<1>10. overflowed \in BOOLEAN
  BY DEF PInv, Scalars
<1>11. /\ Places(pending', launching', None, steered', state', Elsewhere, Lost)
       /\ Order(pending', launching', state', submitted, started, dropped)
       /\ launchPc' \in {"none", "hook"}
       /\ launchPc' = "none" <=> launching' = None
       /\ overflowed' \in BOOLEAN
       /\ pending' # << >> /\ launching' = None => compacting' # NoCompaction
       /\ \A s \in Prompt : state'[s] = st[s] \/ (st[s] = "pending" /\ state'[s] = "failed")
  BY <1>1, <1>8, <1>9, <1>10, StartNextKeeps
<1>12. Filed(None, steered', state', joined, settledBy')
  <2>1. \A s \in Prompt : settledBy'[s] # None =>
          st[s] \in Settled /\ joined[s] \in {settledBy'[s]} \union Other
    <3> SUFFICES ASSUME NEW s \in Prompt, settledBy'[s] # None
                 PROVE  st[s] \in Settled /\ joined[s] \in {settledBy'[s]} \union Other
      OBVIOUS
    <3>1. CASE s \in toSettle(p)
      <4>1. settledBy'[s] = p /\ st[s] \in Settled
        BY <1>1, <1>4, <3>1
      <4>2. joined[s] \in {p} \union Other
        BY <1>2, <3>1 DEF PInv, Filed, p
      <4> QED
        BY <4>1, <4>2
    <3>2. CASE s \notin toSettle(p)
      <4>1. settledBy'[s] = settledBy[s]
        BY <1>1, <3>2
      <4>2. state[s] \in Settled /\ joined[s] \in {settledBy[s]} \union Other
        BY <4>1 DEF PInv, Filed
      <4>3. st[s] \in Settled
        BY <1>6, <4>2
      <4> QED
        BY <4>1, <4>2, <4>3
    <3> QED
      BY <3>1, <3>2
  <2>2. \A s \in Prompt : st[s] \in Settled => state'[s] \in Settled
    BY <1>11 DEF Settled, Outcome
  <2>3. settledBy' \in [Prompt -> Turn \union {None}]
    BY <1>1, <1>2, <1>4 DEF PInv, Filed, Turn
  <2>4. joined \in [Prompt -> Turn \union {None}]
    BY DEF PInv, Filed
  <2>5. \A s \in Prompt : state'[s] \in {"new", "pending"} => joined[s] = None
    <3>1. \A s \in Prompt : state'[s] \in {"new", "pending"} => state[s] = state'[s]
      BY <1>6, <1>11 DEF Settled, Outcome
    <3> QED
      BY <3>1 DEF PInv, Filed
  <2> QED
    BY <2>1, <2>2, <2>3, <2>4, <2>5 DEF Filed
<1>13. Ending' /\ Owner' = None /\ Owner = None
  BY <1>1, <1>2 DEF Ending, Owner
<1>14. Elsewhere' = Elsewhere /\ Lost' = Lost /\ dropped' = dropped
  BY <1>1 DEF steerVars, Elsewhere, Lost
\* No steer has joined the turn that has ended: it would be ahead.
<1>15. Steers'
  <2>1. steering # {} => steerTurn \notin Prompt
    BY <1>1 DEF PInv, Steers
  <2> QED
    BY <1>1, <1>11, <2>1 DEF PInv, Steers, steerVars, loopVars
<1>16. RunningWorks' /\ CompactionTypeOK'
  BY <1>1, CompactionStays DEF PInv, Scalars
<1>17. Scalars' /\ NoPromptStranded'
  BY <1>1, <1>11, <1>16, Attended DEF PInv, Scalars, loopVars
<1>18. Loop(loopActive', loopQueue', Owner', opened')
  BY <1>1, <1>13 DEF PInv, loopVars
<1> QED
  BY <1>1, <1>11, <1>12, <1>13, <1>14, <1>15, <1>16, <1>17, <1>18 DEF PInv, history


\* The loop's active turn ends and the next one is pumped.
LEMMA TurnLeaves ==
  ASSUME NEW a, NEW op, Loop(loopActive, loopQueue, a, op), loopActive # None,
         \/ loopQueue # << >> /\ loopActive' = Head(loopQueue) /\ loopQueue' = Tail(loopQueue)
         \/ loopQueue = << >> /\ loopActive' = None /\ loopQueue' = << >>
  PROVE  Loop(loopActive', loopQueue', IF a = loopActive THEN None ELSE a, op)
<1>0. None \notin Prompt /\ None \notin Other /\ None \notin Turn
  BY SchedulerAssumption DEF Turn
<1>1. CASE loopQueue # << >> /\ loopActive' = Head(loopQueue) /\ loopQueue' = Tail(loopQueue)
  <2>1. /\ loopActive' \in Turn /\ loopQueue' \in Seq(Turn) /\ IsInjective(loopQueue')
        /\ ToSet(loopQueue) = {loopActive'} \union ToSet(loopQueue') /\ loopActive' \notin ToSet(loopQueue')
    BY <1>1, TailSet DEF Loop
  <2> QED
    BY <1>0, <2>1 DEF Loop
<1>2. CASE loopQueue = << >> /\ loopActive' = None /\ loopQueue' = << >>
  BY <1>0, <1>2, EmptySet DEF Loop
<1> QED
  BY <1>1, <1>2

\* The active prompt's turn leaves the queue.
LEMMA QueuedTurnLeaves ==
  ASSUME PInv, cancelQueued, UNCHANGED <<loopActive, opened, active>>
  PROVE  Loop(loopActive', loopQueue', Owner', opened') /\ Ending' /\ active # None
<1>0. None \notin Prompt /\ None \notin Turn
  BY SchedulerAssumption DEF Turn
<1>1. /\ active \in ToSet(loopQueue) /\ loopQueue' = SelectIn(loopQueue, Turn \ {active})
      /\ result' = "cancelled" /\ resolved' = TRUE
  BY DEF cancelQueued
<1>2. /\ loopQueue' \in Seq(Turn) /\ IsInjective(loopQueue')
      /\ ToSet(loopQueue') = ToSet(loopQueue) \intersect (Turn \ {active})
  BY <1>1, SelectSet, SelectInjective DEF PInv, Loop
<1>3. active # None /\ active \in Prompt
  <2>1. ToSet(loopQueue) \subseteq Turn
    BY DEF PInv, Loop, ToSet
  <2> QED
    BY <1>0, <1>1, <2>1 DEF PInv, Places
\* It is the active prompt's turn that is in the loop, so it has not ended before.
<1>4. Owner = active
  BY <1>0, <1>1, <1>3 DEF PInv, Loop, Owner
<1>5. Owner' = None
  BY <1>1 DEF Owner
<1>6. loopActive # None
  BY <1>1, EmptySet DEF PInv, Loop
<1>7. Loop(loopActive, loopQueue, active, opened)
  BY <1>4 DEF PInv
<1>8. Loop(loopActive', loopQueue', None, opened')
  BY <1>0, <1>1, <1>2, <1>3, <1>6, <1>7 DEF Loop, Turn
<1> QED
  BY <1>1, <1>3, <1>5, <1>8 DEF Ending, Outcome

LEMMA TurnEndsKeeps ==
  ASSUME PInv, NEW type \in Outcome, TurnEnds(type)
  PROVE  PInv'
<1>1. /\ loopActive # None
      /\ \/ loopQueue # << >> /\ loopActive' = Head(loopQueue) /\ loopQueue' = Tail(loopQueue)
         \/ loopQueue = << >> /\ loopActive' = None /\ loopQueue' = << >>
      /\ result' = IF loopActive = active THEN type ELSE result
      /\ UNCHANGED <<queueVars, resolved, steerVars, handleVars, opened, lease, leases, compactionVars,
                     overflowed, history>>
  BY DEF TurnEnds, isActivePrompts
<1>2. active \in Prompt \union {None} /\ None \notin Prompt /\ None \notin Turn
  BY SchedulerAssumption DEF PInv, Places, Turn
<1>3. Loop(loopActive', loopQueue', IF Owner = loopActive THEN None ELSE Owner, opened)
  BY <1>1, TurnLeaves DEF PInv
<1>4. Owner' = IF Owner = loopActive THEN None ELSE Owner
  <2>1. CASE loopActive = active
    <3>1. Owner = active
      BY <1>1, <1>2, <2>1 DEF PInv, Loop, Owner
    <3>2. result' # "none"
      BY <1>1, <2>1 DEF Outcome
    <3> QED
      BY <2>1, <3>1, <3>2 DEF Owner
  <2>2. CASE loopActive # active
    BY <1>1, <2>2 DEF Owner, queueVars
  <2> QED
    BY <2>1, <2>2
<1>5. Ending'
  BY <1>1 DEF PInv, Ending, Outcome, queueVars
<1>6. Elsewhere' = Elsewhere /\ Lost' = Lost /\ dropped' = dropped /\ Steers'
  BY <1>1, SteersStay DEF PInv, Steers, queueVars, handleVars
<1>7. RunningWorks' /\ CompactionTypeOK'
  BY <1>1, CompactionStays DEF PInv, Scalars
<1>8. Scalars'
  BY <1>1, <1>7 DEF PInv, Scalars, queueVars
<1>9. NoPromptStranded'
  BY <1>1 DEF PInv, NoPromptStranded, busy, compactionVars, Working, queueVars
<1> QED
  BY <1>1, <1>3, <1>4, <1>5, <1>6, <1>7, <1>8, <1>9 DEF PInv, queueVars, handleVars, history

LEMMA ResultResolvesKeeps ==
  ASSUME PInv, ResultResolves
  PROVE  PInv'
<1>1. /\ result # "none" /\ resolved' = TRUE
      /\ UNCHANGED <<queueVars, result, steerVars, handleVars, loopVars, compactionVars, overflowed,
                     history>>
  BY DEF ResultResolves
<1>2. Ending' /\ Owner' = Owner
  BY <1>1 DEF PInv, Ending, Owner, queueVars
<1>3. Elsewhere' = Elsewhere /\ Lost' = Lost /\ dropped' = dropped /\ Steers'
  BY <1>1, SteersStay DEF PInv, Steers, queueVars, handleVars, loopVars
<1>4. RunningWorks' /\ CompactionTypeOK'
  BY <1>1, CompactionStays DEF PInv, Scalars
<1>5. Scalars'
  BY <1>1, <1>4 DEF PInv, Scalars, queueVars, loopVars
<1>6. NoPromptStranded'
  BY <1>1 DEF PInv, NoPromptStranded, busy, compactionVars, Working, queueVars
<1> QED
  BY <1>1, <1>2, <1>3, <1>4, <1>5, <1>6 DEF PInv, queueVars, handleVars, loopVars, history

LEMMA AbortQueuedTurnKeeps ==
  ASSUME PInv, AbortQueuedTurn
  PROVE  PInv'
<1>1. /\ cancelQueued
      /\ UNCHANGED <<queueVars, steerVars, handleVars, loopActive, opened, lease, leases,
                     compactionVars, overflowed, history>>
  BY DEF AbortQueuedTurn
<1>2. Loop(loopActive', loopQueue', Owner', opened') /\ Ending'
  BY <1>1, QueuedTurnLeaves DEF queueVars
<1>3. Elsewhere' = Elsewhere /\ Lost' = Lost /\ dropped' = dropped /\ Steers'
  BY <1>1, SteersStay DEF PInv, Steers, queueVars, handleVars
<1>4. RunningWorks' /\ CompactionTypeOK'
  BY <1>1, CompactionStays DEF PInv, Scalars
<1>5. Scalars'
  BY <1>1, <1>4 DEF PInv, Scalars, queueVars
<1>6. NoPromptStranded'
  BY <1>1 DEF PInv, NoPromptStranded, busy, compactionVars, Working, queueVars
<1> QED
  BY <1>1, <1>2, <1>3, <1>4, <1>5, <1>6 DEF PInv, queueVars, handleVars, history

\* Pending prompts that are cancelled.
LEMMA LeaveKeeps ==
  ASSUME PInv, NEW r, r \in Seq(Prompt), IsInjective(r),
         \A x, y \in Prompt : Before(r, x, y) => Before(pending, x, y),
         NEW gone, gone \subseteq ToSet(pending), ToSet(r) = ToSet(pending) \ gone,
         NEW st, st = [s \in Prompt |-> IF s \in gone THEN "cancelled" ELSE state[s]]
  PROVE  /\ Places(r, launching, active, steered, st, Elsewhere, Lost)
         /\ Order(r, launching, st, submitted, started, dropped)
         /\ Filed(active, steered, st, joined, settledBy)
<1>1. /\ gone \subseteq Prompt /\ None \notin Prompt
      /\ \A s \in gone : state[s] = "pending" /\ s # launching /\ s \notin Elsewhere
      /\ state \in [Prompt -> State]
  BY SchedulerAssumption DEF PInv, Places, ToSet
<1>2. st \in [Prompt -> State]
  BY <1>1 DEF State, Settled, Outcome
<1>3. \A s \in Prompt :
        /\ st[s] = "pending" <=> s \in ToSet(r) \/ s = launching \/ s \in Elsewhere
        /\ st[s] = "running" <=> s = active
        /\ st[s] = "steered" <=> (active # None /\ s \in steered[active]) \/ s \in Lost
  <2> TAKE s \in Prompt
  <2>1. /\ state[s] = "pending" <=> s \in ToSet(pending) \/ s = launching \/ s \in Elsewhere
        /\ state[s] = "running" <=> s = active
        /\ state[s] = "steered" <=> (active # None /\ s \in steered[active]) \/ s \in Lost
    BY DEF PInv, Places
  <2>2. CASE s \in gone
    BY <1>1, <2>1, <2>2
  <2>3. CASE s \notin gone
    BY <1>1, <2>1, <2>3
  <2> QED
    BY <2>2, <2>3
<1>4. Places(r, launching, active, steered, st, Elsewhere, Lost)
  BY <1>2, <1>3 DEF PInv, Places
<1>5. \A s \in Prompt : st[s] = state[s] \/ (st[s] \in Settled /\ state[s] # "new")
  BY <1>1 DEF Settled, Outcome
<1>6. Order(r, launching, st, submitted, started, dropped)
  <2>1. launching # None => \A y \in ToSet(r) : Before(submitted, launching, y)
    BY DEF PInv, Order
  <2>2. Order(pending, launching, state, submitted, started, dropped)
    BY DEF PInv
  <2> QED
    BY <1>2, <1>5, <2>1, <2>2, SettlingKeepsOrder
<1>7. Filed(active, steered, st, joined, settledBy)
  BY <1>5, StaysFiled DEF PInv
<1> QED
  BY <1>4, <1>6, <1>7

\* A queue that only gets shorter strands nobody.
LEMMA ShorterIsAttended ==
  ASSUME PInv, UNCHANGED <<launching, active, compactionVars>>, pending = << >> => pending' = << >>
  PROVE  NoPromptStranded'
  BY DEF PInv, NoPromptStranded, busy, compactionVars, Working

LEMMA AbortPendingKeeps ==
  ASSUME PInv, NEW p \in Prompt, AbortPending(p)
  PROVE  PInv'
<1>1. /\ p \in ToSet(pending)
      /\ pending' = SelectIn(pending, Prompt \ {p})
      /\ state' = [state EXCEPT ![p] = "cancelled"]
      /\ UNCHANGED <<launching, launchPc, active, steered, endVars, steerVars, joined, settledBy,
                     loopVars, compactionVars, overflowed, history>>
  BY DEF AbortPending
<1>2. pending \in Seq(Prompt) /\ IsInjective(pending) /\ ToSet(pending) \subseteq Prompt
  BY DEF PInv, Places, ToSet
<1>3. /\ pending' \in Seq(Prompt) /\ IsInjective(pending')
      /\ ToSet(pending') = ToSet(pending) \ {p}
      /\ \A x, y \in Prompt : Before(pending', x, y) => Before(pending, x, y)
  BY <1>1, <1>2, SelectSet, SelectInjective, SelectOrder
<1>4. state' = [s \in Prompt |-> IF s \in {p} THEN "cancelled" ELSE state[s]]
  BY <1>1 DEF PInv, Places
<1>5. /\ Places(pending', launching, active, steered, state', Elsewhere, Lost)
      /\ Order(pending', launching, state', submitted, started, dropped)
      /\ Filed(active, steered, state', joined, settledBy)
  <2> DEFINE gone == {p}
  <2>1. gone \subseteq ToSet(pending) /\ ToSet(pending') = ToSet(pending) \ gone
        /\ state' = [s \in Prompt |-> IF s \in gone THEN "cancelled" ELSE state[s]]
    BY <1>1, <1>3, <1>4
  <2> HIDE DEF gone
  <2> QED
    BY <1>3, <2>1, LeaveKeeps
<1>6. Ending' /\ Owner' = Owner
  BY <1>1, EndingStays DEF PInv
<1>6a. Elsewhere' = Elsewhere /\ Lost' = Lost /\ dropped' = dropped /\ Steers'
  BY <1>1, SteersStay DEF PInv, Steers, loopVars
<1>7. RunningWorks' /\ CompactionTypeOK'
  BY <1>1, CompactionStays DEF PInv, Scalars
<1>8. NoPromptStranded'
  <2>1. pending # << >>
    BY <1>1, EmptySet
  <2> QED
    BY <1>1, <2>1, ShorterIsAttended
<1> QED
  BY <1>1, <1>5, <1>6, <1>6a, <1>7, <1>8 DEF PInv, Scalars, loopVars, history

LEMMA ClearKeeps ==
  ASSUME PInv, Clear
  PROVE  PInv'
<1>1. /\ pending' = << >>
      /\ state' = [s \in Prompt |-> IF s \in ToSet(pending) THEN "cancelled" ELSE state[s]]
      /\ UNCHANGED <<launching, launchPc, active, steered, steerVars, joined, settledBy, loopActive,
                     opened, lease, leases, compactionVars, overflowed, history>>
  BY DEF Clear
<1>2. Loop(loopActive', loopQueue', Owner', opened') /\ Ending'
  <2>1. CASE cancelQueued
    BY <1>1, <2>1, QueuedTurnLeaves
  <2>2. CASE UNCHANGED <<loopQueue, endVars>>
    BY <1>1, <2>2, EndingStays DEF PInv
  <2> QED
    BY <2>1, <2>2 DEF Clear
<1>3. /\ Places(pending', launching, active, steered, state', Elsewhere, Lost)
      /\ Order(pending', launching, state', submitted, started, dropped)
      /\ Filed(active, steered, state', joined, settledBy)
  <2>1. /\ pending' \in Seq(Prompt) /\ IsInjective(pending')
        /\ ToSet(pending') = ToSet(pending) \ ToSet(pending)
        /\ \A x, y \in Prompt : Before(pending', x, y) => Before(pending, x, y)
    BY <1>1, NothingBefore, EmptySet DEF IsInjective
  <2> QED
    BY <1>1, <2>1, LeaveKeeps
<1>4. Elsewhere' = Elsewhere /\ Lost' = Lost /\ dropped' = dropped /\ Steers'
  BY <1>1, SteersStay DEF PInv, Steers
<1>5. RunningWorks' /\ CompactionTypeOK'
  BY <1>1, CompactionStays DEF PInv, Scalars
<1>6. NoPromptStranded'
  BY <1>1 DEF NoPromptStranded
<1> QED
  BY <1>1, <1>2, <1>3, <1>4, <1>5, <1>6 DEF PInv, Scalars, history

\* The chosen prompts leave the queue for the hands of the steer, or for no place.
LEMMA SteerBeginsKeeps ==
  ASSUME PInv, NEW chosen \in SUBSET Prompt, SteerBegins(chosen)
  PROVE  PInv'
<1>1. /\ active # None /\ steering = {}
      /\ chosen # {} /\ chosen \subseteq ToSet(pending)
      /\ pending' = SelectIn(pending, Prompt \ chosen)
      /\ UNCHANGED <<launching, launchPc, active, steered, endVars, handleVars, loopVars,
                     compactionVars, overflowed, history>>
  BY DEF SteerBegins
<1>2. pending \in Seq(Prompt) /\ IsInjective(pending) /\ ToSet(pending) \subseteq Prompt
  BY DEF PInv, Places, ToSet
<1>3. /\ pending' \in Seq(Prompt) /\ IsInjective(pending')
      /\ ToSet(pending') = ToSet(pending) \ chosen
      /\ \A x, y \in Prompt : Before(pending', x, y) => Before(pending, x, y)
  BY <1>1, <1>2, SelectSet, SelectInjective, SelectOrder
<1>4. /\ \A p \in chosen : state[p] = "pending" /\ joined[p] = None /\ p \notin Elsewhere /\ p \notin Lost
      /\ launching = None /\ launchPc = "none" /\ active \in Prompt /\ None \notin Turn /\ None \notin Prompt
  BY <1>1, <1>2, SchedulerAssumption DEF PInv, Places, Filed, Scalars, Turn
<1>5. Elsewhere' = Elsewhere \union chosen /\ Lost' = Lost /\ dropped \subseteq dropped' /\ Steers'
  <2>0. joined' = joined /\ active' = active /\ lease' = lease /\ launchPc' = launchPc
    BY <1>1 DEF handleVars, loopVars
  <2>1. \A p \in chosen : p \notin steering /\ p \notin heldSteer /\ p \notin dropped
    BY <1>4 DEF Elsewhere, Lost
  <2>2. CASE lease /\ heldSteer' = heldSteer \union chosen /\ UNCHANGED <<steering, steerTurn, ahead, dropped>>
    BY <1>1, <2>0, <2>1, <2>2 DEF PInv, Steers, Elsewhere, Lost
  <2>3. CASE dropped' = dropped \union chosen /\ UNCHANGED <<steering, steerTurn, ahead, heldSteer>>
    <3>1. Elsewhere' = Elsewhere \union chosen /\ Lost' = Lost
      BY <1>4, <2>0, <2>3 DEF Elsewhere, Lost
    <3> QED
      BY <1>1, <1>4, <2>0, <2>1, <2>3, <3>1 DEF PInv, Steers
  <2>4. CASE /\ loopActive # None
             /\ steering' = chosen /\ steerTurn' = loopActive /\ ahead' = ~resolved
             /\ UNCHANGED <<heldSteer, dropped>>
    <3>1. Elsewhere' = Elsewhere \union chosen /\ Lost' = Lost
      BY <1>1, <2>0, <2>4 DEF Elsewhere, Lost
    \* A prompt's turn runs: the active prompt's, which has not ended.
    <3>2. loopActive \in Prompt => loopActive = active /\ resolved = FALSE
      <4>1. loopActive \in Prompt => loopActive = Owner
        BY DEF PInv, Loop
      <4> QED
        BY <1>4, <4>1 DEF PInv, Owner, Ending
    <3>3. loopActive \in Turn /\ resolved \in BOOLEAN
      BY <2>4 DEF PInv, Loop, Ending
    <3> QED
      BY <1>1, <1>4, <2>0, <2>1, <2>4, <3>1, <3>2, <3>3 DEF PInv, Steers
  <2> QED
    BY <2>2, <2>3, <2>4 DEF SteerBegins
<1>6. Places(pending', launching', active', steered', state', Elsewhere', Lost')
  <2>1. /\ launching' = launching /\ active' = active /\ steered' = steered /\ state' = state
    BY <1>1 DEF handleVars
  <2>2. /\ (Elsewhere \union chosen) \intersect ToSet(pending') = {}
        /\ Elsewhere \union chosen \in SUBSET Prompt
        /\ \A p \in Prompt : state[p] = "pending" <=>
              p \in ToSet(pending') \/ p = launching \/ p \in Elsewhere \union chosen
    BY <1>1, <1>2, <1>3, <1>4 DEF PInv, Places
  <2> HIDE DEF Elsewhere, Lost
  <2> QED
    BY <1>3, <1>4, <1>5, <2>1, <2>2 DEF PInv, Places
<1>7. Order(pending', launching', state', submitted', started', dropped')
  BY <1>1, <1>3, <1>4, <1>5 DEF PInv, Order, handleVars, history
<1>8. Ending' /\ Owner' = Owner
  BY <1>1, EndingStays DEF PInv
<1>9. RunningWorks' /\ CompactionTypeOK'
  BY <1>1, CompactionStays DEF PInv, Scalars
<1>10. NoPromptStranded'
  <2>1. pending # << >>
    BY <1>1, EmptySet
  <2> QED
    BY <1>1, <2>1, ShorterIsAttended
<1> QED
  BY <1>1, <1>5, <1>6, <1>7, <1>8, <1>9, <1>10 DEF PInv, Scalars, loopVars, handleVars, history

\* They are filed under the active prompt, or lost, but then in a foreign turn.
LEMMA SteerResumesKeeps ==
  ASSUME PInv, SteerResumes
  PROVE  PInv'
<1>1. /\ steering # {}
      /\ state' = [s \in Prompt |-> IF s \in steering THEN "steered" ELSE state[s]]
      /\ joined' = [s \in Prompt |-> IF s \in steering THEN steerTurn ELSE joined[s]]
      /\ steering' = {} /\ steerTurn' = None /\ ahead' = FALSE
      /\ UNCHANGED <<pending, launching, launchPc, active, endVars, heldSteer, settledBy, loopVars,
                     compactionVars, overflowed, history>>
  BY DEF SteerResumes
<1>2. /\ steering \subseteq Prompt /\ steering \intersect heldSteer = {} /\ steering \intersect dropped = {}
      /\ steerTurn \in Turn /\ steerTurn # None
      /\ steerTurn \in Prompt => active = steerTurn
      /\ heldSteer \subseteq Prompt /\ dropped \subseteq Prompt
  BY <1>1 DEF PInv, Steers
<1>3. /\ \A p \in steering : state[p] = "pending" /\ p \notin ToSet(pending) /\ p # launching
      /\ \A p \in steering : p # active /\ p \notin Lost
      /\ \A p \in steering : active # None => p \notin steered[active]
      /\ state \in [Prompt -> State] /\ joined \in [Prompt -> Turn \union {None}]
      /\ None \notin Prompt /\ None \notin Other
  <2>1. steering \subseteq Elsewhere
    BY DEF Elsewhere
  <2> QED
    BY <1>2, <2>1, SchedulerAssumption DEF PInv, Places, Filed
<1>4. /\ state' \in [Prompt -> State] /\ joined' \in [Prompt -> Turn \union {None}]
      /\ \A p \in steering : state'[p] = "steered" /\ joined'[p] = steerTurn
      /\ \A p \in Prompt \ steering : state'[p] = state[p] /\ joined'[p] = joined[p]
  BY <1>1, <1>2, <1>3 DEF State
<1>5. Elsewhere' = Elsewhere \ steering
  <2>1. dropped' = dropped \/ dropped' = dropped \union steering
    BY DEF SteerResumes
  <2> QED
    BY <1>1, <1>2, <1>4, <2>1 DEF Elsewhere
<1>6. /\ steered' \in [Prompt -> SUBSET Prompt]
      /\ \A p \in Prompt : p # active => steered'[p] = {}
      /\ \/ active # None /\ dropped' = dropped /\ steered'[active] = steered[active] \union steering
         \/ active = None /\ dropped' = dropped \union steering /\ steered' = steered
  BY <1>2 DEF SteerResumes, PInv, Places
<1>7. Lost' = IF active = None THEN Lost \union steering ELSE Lost
  BY <1>2, <1>4, <1>6 DEF Lost
<1>8. Places(pending', launching', active', steered', state', Elsewhere', Lost')
  <2>1. \A p \in Prompt :
         /\ state'[p] = "pending" <=> p \in ToSet(pending) \/ p = launching \/ p \in Elsewhere'
         /\ state'[p] = "running" <=> p = active
         /\ state'[p] = "steered" <=> (active # None /\ p \in steered'[active]) \/ p \in Lost'
    <3> TAKE p \in Prompt
    <3>1. /\ state[p] = "pending" <=> p \in ToSet(pending) \/ p = launching \/ p \in Elsewhere
          /\ state[p] = "running" <=> p = active
          /\ state[p] = "steered" <=> (active # None /\ p \in steered[active]) \/ p \in Lost
      BY DEF PInv, Places
    <3> HIDE DEF Elsewhere, Lost
    <3>2. CASE p \in steering
      BY <1>3, <1>4, <1>5, <1>6, <1>7, <3>2
    <3>3. CASE p \notin steering
      BY <1>4, <1>5, <1>6, <1>7, <3>1, <3>3
    <3> QED
      BY <3>2, <3>3
  <2>2. active # None => steered'[active] \intersect Lost' = {}
    <3>1. active # None => active \in Prompt /\ steered[active] \intersect Lost = {}
      BY DEF PInv, Places
    <3> QED
      BY <1>3, <1>6, <1>7, <3>1
  <2>3. /\ pending \in Seq(Prompt) /\ IsInjective(pending)
        /\ launching \in Prompt \union {None} /\ active \in Prompt \union {None}
        /\ Elsewhere \subseteq Prompt /\ Lost \subseteq Prompt /\ Elsewhere \intersect ToSet(pending) = {}
        /\ launching # None => active = None /\ launching \notin ToSet(pending) /\ launching \notin Elsewhere
    BY DEF PInv, Places
  <2>4. Elsewhere' \subseteq Elsewhere /\ Lost' \subseteq Prompt
    BY <1>2, <1>5, <1>7, <2>3
  <2> HIDE DEF Elsewhere, Lost
  <2> QED
    BY <1>1, <1>3, <1>4, <1>6, <2>1, <2>2, <2>3, <2>4 DEF Places
<1>9. Order(pending', launching', state', submitted', started', dropped')
  <2>1. \A p \in Prompt : \/ state'[p] = state[p]
                          \/ state'[p] \in Settled /\ state[p] # "new"
                          \/ state'[p] = "steered" /\ state[p] = "pending"
    BY <1>3, <1>4
  <2>2. Order(pending, launching, state, submitted, started, dropped) /\ dropped \subseteq dropped'
    BY <1>6 DEF PInv
  <2>3. launching # None => \A y \in ToSet(pending) : Before(submitted, launching, y)
    BY <2>2 DEF Order
  <2>4. Order(pending, launching, state', submitted, started, dropped')
    BY <1>4, <2>1, <2>2, <2>3, SettlingKeepsOrder
  <2> QED
    BY <1>1, <2>4 DEF history
<1>10. Filed(active', steered', state', joined', settledBy')
  <2>1. \A p \in Prompt : settledBy[p] # None => p \notin steering /\ state'[p] \in Settled
    <3>1. \A p \in Prompt : settledBy[p] # None => state[p] \in Settled
      BY DEF PInv, Filed
    <3> QED
      BY <1>3, <1>4, <3>1 DEF Settled, Outcome
  <2>2. \A p \in Prompt : settledBy[p] # None => joined'[p] \in {settledBy[p]} \union Other
    BY <1>4, <2>1 DEF PInv, Filed
  <2>3. active # None => joined'[active] = active /\ \A s \in steered'[active] : joined'[s] \in {active} \union Other
    <3> SUFFICES ASSUME active # None
                 PROVE  joined'[active] = active /\ \A s \in steered'[active] : joined'[s] \in {active} \union Other
      OBVIOUS
    <3>1. active \in Prompt /\ active \notin steering /\ steered[active] \subseteq Prompt
      BY <1>3 DEF PInv, Places
    <3>2. steerTurn \in {active} \union Other
      BY <1>2 DEF Turn
    <3>3. joined[active] = active /\ \A s \in steered[active] : joined[s] \in {active} \union Other
      BY DEF PInv, Filed
    <3>4. steered'[active] = steered[active] \union steering
      BY <1>6
    <3> QED
      BY <1>4, <3>1, <3>2, <3>3, <3>4
  <2>4. \A p \in Prompt : state'[p] \in {"new", "pending"} => joined'[p] = None
    BY <1>4 DEF PInv, Filed
  <2>5. settledBy \in [Prompt -> Turn \union {None}]
    BY DEF PInv, Filed
  <2> QED
    BY <1>1, <1>4, <2>1, <2>2, <2>3, <2>4, <2>5 DEF Filed
<1>11. Ending' /\ Owner' = Owner
  BY <1>1, EndingStays DEF PInv
<1>12. Steers'
  <2>1. active = None => steerTurn \in Other
    BY <1>2, <1>3 DEF Turn
  <2>2. \A p \in dropped' : joined'[p] \in Other \union {None}
    BY <1>2, <1>4, <1>6, <2>1 DEF PInv, Steers
  <2> QED
    BY <1>1, <1>2, <1>6, <2>2 DEF PInv, Steers, loopVars
<1>13. RunningWorks' /\ CompactionTypeOK'
  BY <1>1, CompactionStays DEF PInv, Scalars
<1>14. NoPromptStranded'
  BY <1>1 DEF PInv, NoPromptStranded, busy, compactionVars, Working
<1> QED
  BY <1>1, <1>8, <1>9, <1>10, <1>11, <1>12, <1>13, <1>14 DEF PInv, Scalars, loopVars, history

----------------------------------------------------------------------------
(* The loop, undo and compactions *)

LEMMA OpenOtherKeeps ==
  ASSUME PInv, NEW t \in Other, OpenOther(t)
  PROVE  PInv'
<1>1. /\ t \notin opened /\ opened' = opened \union {t} /\ afterAdmission(t)
      /\ UNCHANGED <<queueVars, endVars, steerVars, handleVars, lease, leases, compactionVars,
                     overflowed, history>>
  BY DEF OpenOther
<1>1a. Ending' /\ Owner' = Owner
  BY <1>1, EndingStays DEF PInv, queueVars
<1>1b. Elsewhere' = Elsewhere /\ Lost' = Lost /\ dropped' = dropped /\ Steers'
  BY <1>1, SteersStay DEF PInv, Steers, queueVars, handleVars
<1>2. Loop(loopActive, loopQueue, Owner, opened) /\ t \in Turn
  BY DEF PInv, Turn
<1>3. t # loopActive /\ t \notin ToSet(loopQueue)
  BY <1>1, <1>2 DEF Loop
<1>4. /\ loopActive' \in Turn \union {None} /\ loopQueue' \in Seq(Turn)
      /\ IsInjective(loopQueue') /\ loopActive' \notin ToSet(loopQueue')
      /\ loopActive' # None
      /\ \A u \in Turn : \/ u = loopActive'
                         \/ u \in ToSet(loopQueue')
             <=> u = t \/ u = loopActive \/ u \in ToSet(loopQueue)
  BY <1>1, <1>2, <1>3, AdmissionKeeps
<1>5. Loop(loopActive', loopQueue', Owner', opened')
  <2>1. \A u \in Prompt : u = loopActive' \/ u \in ToSet(loopQueue') <=> u = Owner'
    BY <1>1a, <1>2, <1>4, SchedulerAssumption DEF Loop, Turn
  <2>2. \A u \in Other : u = loopActive' \/ u \in ToSet(loopQueue') => u \in opened'
    BY <1>1, <1>2, <1>4 DEF Loop, Turn
  <2>3. opened' \in SUBSET Other
    BY <1>1, <1>2 DEF Loop
  <2> QED
    BY <1>4, <2>1, <2>2, <2>3 DEF Loop
<1>6. RunningWorks' /\ CompactionTypeOK'
  BY <1>1, CompactionStays DEF PInv, Scalars
<1>7. NoPromptStranded'
  BY <1>1 DEF PInv, NoPromptStranded, busy, queueVars, compactionVars, Working
<1> QED
  BY <1>1, <1>1a, <1>1b, <1>5, <1>6, <1>7 DEF PInv, Scalars, queueVars, handleVars, history

LEMMA AcquireLeaseKeeps ==
  ASSUME PInv, AcquireLease
  PROVE  PInv'
<1>1. /\ lease' = TRUE /\ leases' = leases + 1
      /\ UNCHANGED <<queueVars, endVars, steerVars, handleVars, loopActive, loopQueue, opened,
                     compactionVars, overflowed, history>>
  BY DEF AcquireLease
<1>1a. Ending' /\ Owner' = Owner
  BY <1>1, EndingStays DEF PInv, queueVars
<1>1b. Elsewhere' = Elsewhere /\ Lost' = Lost /\ dropped' = dropped /\ Steers'
  BY <1>1, SteersStay DEF PInv, Steers, queueVars, handleVars
<1>2. RunningWorks' /\ CompactionTypeOK'
  BY <1>1, CompactionStays DEF PInv, Scalars
<1>3. leases' \in Nat
  BY <1>1 DEF PInv, Scalars
<1>4. NoPromptStranded'
  BY <1>1 DEF PInv, NoPromptStranded, busy, queueVars, compactionVars, Working
<1> QED
  BY <1>1, <1>1a, <1>1b, <1>2, <1>3, <1>4 DEF PInv, Scalars, queueVars, handleVars, history

\* What a step of a compaction does to the compactions, and what waits for them.
LEMMA CompactionSteps ==
  ASSUME RunningWorks, CompactionTypeOK, NEW c \in Compaction,
         Begin(c) \/ Abort \/ Summarized(c) \/ Folded(c)
  PROVE  RunningWorks' /\ CompactionTypeOK' /\ Working \subseteq Working'
<1>1. NoCompaction \notin Compaction
  BY DEF NoCompaction, Compaction
<1>2. CASE Begin(c)
  BY <1>2 DEF Begin, RunningWorks, CompactionTypeOK, Working
<1>3. CASE Abort
  BY <1>3 DEF Abort, cancelActive, RunningWorks, CompactionTypeOK, Working
<1>4. CASE Summarized(c) \/ Folded(c)
  BY <1>4 DEF Summarized, Folded, mayFold, rewrite, RunningWorks, CompactionTypeOK, Working
<1> QED
  BY <1>2, <1>3, <1>4

LEMMA WorkerEndsKeeps ==
  ASSUME RunningWorks, CompactionTypeOK, NEW c \in Compaction, WorkerEnds(c)
  PROVE  RunningWorks' /\ CompactionTypeOK'
<1>1. worker' = [worker EXCEPT ![c] = "done"]
  BY DEF WorkerEnds
<1>2. \/ compacting' = NoCompaction /\ logged' = NoCompaction
      \/ compacting' = compacting /\ logged' = logged /\ compacting # c
  BY DEF WorkerEnds, completes, cancelActive
<1> QED
  BY <1>1, <1>2 DEF RunningWorks, CompactionTypeOK, Working

LEMMA CompactionMovesKeep ==
  ASSUME PInv, BeginCompaction \/ CompactionGoesOn
  PROVE  PInv'
<1>1. UNCHANGED <<queueVars, endVars, steerVars, handleVars, loopVars, overflowed, history>>
  BY DEF BeginCompaction, CompactionGoesOn
<1>1a. Ending' /\ Owner' = Owner
  BY <1>1, EndingStays DEF PInv, queueVars
<1>1b. Elsewhere' = Elsewhere /\ Lost' = Lost /\ dropped' = dropped /\ Steers'
  BY <1>1, SteersStay DEF PInv, Steers, queueVars, handleVars, loopVars
<1>2. RunningWorks /\ CompactionTypeOK
  BY DEF PInv, Scalars
<1>3. RunningWorks' /\ CompactionTypeOK' /\ Working \subseteq Working'
  <2>1. PICK c \in Compaction \union {NoCompaction} :
          \/ Abort
          \/ c \in Compaction /\ (Begin(c) \/ Summarized(c) \/ Folded(c))
    BY DEF BeginCompaction, CompactionGoesOn
  <2>2. CASE Abort
    <3>1. compacting \in Compaction
      BY <1>2, <2>2 DEF Abort, CompactionTypeOK
    <3> QED
      BY <1>2, <2>2, <3>1, CompactionSteps
  <2>3. CASE c \in Compaction /\ (Begin(c) \/ Summarized(c) \/ Folded(c))
    BY <1>2, <2>3, CompactionSteps
  <2> QED
    BY <2>1, <2>2, <2>3
<1>4. NoPromptStranded'
  BY <1>1, <1>3 DEF PInv, NoPromptStranded, busy, queueVars
<1> QED
  BY <1>1, <1>1a, <1>1b, <1>3, <1>4 DEF PInv, Scalars, queueVars, handleVars, loopVars, history

LEMMA CompactionFinishesKeeps ==
  ASSUME PInv, NEW c \in Compaction, CompactionFinishes(c)
  PROVE  PInv'
<1>1. /\ WorkerEnds(c) /\ startNextIfIdle
      /\ UNCHANGED <<active, steered, endVars, steerVars, joined, settledBy, loopVars, history>>
  BY DEF CompactionFinishes, finishedFires
<1>2. RunningWorks' /\ CompactionTypeOK'
  BY <1>1, WorkerEndsKeeps DEF PInv, Scalars
<1>3. /\ Places(pending', launching', active, steered, state', Elsewhere, Lost)
      /\ Order(pending', launching', state', submitted, started, dropped)
      /\ launchPc' \in {"none", "hook", "held"}
      /\ launchPc' = launchPc \/ launchPc' # "held"
      /\ launchPc' = "none" <=> launching' = None
      /\ overflowed' \in BOOLEAN
      /\ pending' # << >> /\ launching' = None /\ active = None => compacting' # NoCompaction
      /\ \A p \in Prompt : state'[p] = state[p] \/ (state[p] = "pending" /\ state'[p] = "failed")
  BY <1>1, StartNextIfIdleKeeps
<1>4. NoPromptStranded'
  BY <1>1, <1>2, <1>3, Attended
<1>5. Filed(active, steered, state', joined, settledBy)
  BY <1>3, StaysFiled DEF PInv, Settled, Outcome
<1>6. Ending' /\ Owner' = Owner
  BY <1>1, EndingStays DEF PInv
<1>7. Elsewhere' = Elsewhere /\ Lost' = Lost /\ dropped' = dropped /\ Steers'
  BY <1>1, <1>3, SteersStay DEF PInv, Steers, loopVars
<1> QED
  BY <1>1, <1>2, <1>3, <1>4, <1>5, <1>6, <1>7 DEF PInv, Scalars, loopVars, history

LEMMA NextKeepsPlaces == PInv /\ [Next]_vars => PInv'
<1> SUFFICES ASSUME PInv, [Next]_vars PROVE PInv'
  OBVIOUS
<1>1. CASE \E p \in Prompt : Enqueue(p) \/ AbortPending(p)
  BY <1>1, EnqueueKeeps, AbortPendingKeeps
<1>2. CASE \E outcome \in {"blocked", "failed"} : LaunchEnds(outcome)
  BY <1>2, LaunchEndsKeeps
<1>3. CASE HookAllows
  BY <1>3, HookAllowsKeeps
<1>4. CASE \E type \in Outcome : TurnEnds(type)
  BY <1>4, TurnEndsKeeps
<1>5. CASE AbortQueuedTurn
  BY <1>5, AbortQueuedTurnKeeps
<1>6. CASE Clear
  BY <1>6, ClearKeeps
<1>7. CASE (\E chosen \in SUBSET Prompt : SteerBegins(chosen)) \/ SteerResumes
  BY <1>7, SteerBeginsKeeps, SteerResumesKeeps
<1>7a. CASE ResultResolves \/ Settle
  BY <1>7a, ResultResolvesKeeps, SettleKeeps
<1>8. CASE \E t \in Other : OpenOther(t)
  BY <1>8, OpenOtherKeeps
<1>9. CASE AcquireLease
  BY <1>9, AcquireLeaseKeeps
<1>10. CASE ReleaseLease
  BY <1>10, ReleaseLeaseKeeps
<1>11. CASE BeginCompaction \/ CompactionGoesOn
  BY <1>11, CompactionMovesKeep
<1>12. CASE \E c \in Compaction : CompactionFinishes(c)
  BY <1>12, CompactionFinishesKeeps
<1>13. CASE UNCHANGED vars
  <2>1. RunningWorks' /\ CompactionTypeOK'
    BY <1>13, CompactionStays DEF PInv, Scalars, vars
  <2>2. NoPromptStranded'
    BY <1>13 DEF PInv, NoPromptStranded, busy, vars, queueVars, compactionVars, Working
  <2>3. Ending' /\ Owner' = Owner
    BY <1>13, EndingStays DEF PInv, vars, queueVars
  <2>4. Elsewhere' = Elsewhere /\ Lost' = Lost /\ dropped' = dropped /\ Steers'
    BY <1>13, SteersStay DEF PInv, Steers, vars, queueVars, handleVars, loopVars
  <2> QED
    BY <1>13, <2>1, <2>2, <2>3, <2>4 DEF PInv, Scalars, vars, queueVars, handleVars, loopVars, history
<1> QED
  BY <1>1, <1>2, <1>3, <1>4, <1>5, <1>6, <1>7, <1>7a, <1>8, <1>9, <1>10, <1>11, <1>12,
     <1>13 DEF Next

\* Wherever a prompt may be (launching, pending, active, steered or settled), its
\* state and the loop's queue agree with it, after every handler of the service
\* and of the loop's events (enqueue, startNext, settle, steer, abort, clear).
THEOREM PromptsHaveTheirPlace == Spec => []PInv
  BY InitPlaces, NextKeepsPlaces, PTL DEF Spec

----------------------------------------------------------------------------
(* What follows *)

LEMMA PlacesAreTyped == PInv => TypeOK
<1> SUFFICES ASSUME PInv PROVE TypeOK
  OBVIOUS
<1>1. state \in [Prompt -> {"new", "pending", "running", "steered"} \union Settled]
  BY DEF PInv, Places, State
<1> QED
  BY <1>1 DEF PInv, Places, Order, Loop, Filed, Scalars, Ending, Steers, TypeOK

LEMMA OnlyTheActiveHasATurn == PInv => OnePromptAtATime
<1> SUFFICES ASSUME PInv PROVE OnePromptAtATime
  OBVIOUS
<1>1. active \in Prompt \union {None} /\ None \notin Prompt
  BY SchedulerAssumption DEF PInv, Places
<1>2. \A t \in Prompt : t = loopActive \/ t \in ToSet(loopQueue) <=> t = Owner
  BY DEF PInv, Loop
<1> QED
  BY <1>1, <1>2 DEF OnePromptAtATime, Owner

\* Whatever waits has something that will start it, and only the active prompt has
\* a turn in the loop (enqueue, startNext, settle, onDidFinishCompaction).
THEOREM QueueIsServed == Spec => []QueueInvariant
<1>1. PInv => QueueInvariant
  BY PlacesAreTyped, OnlyTheActiveHasATurn DEF QueueInvariant, PInv
<1> QED
  BY <1>1, PromptsHaveTheirPlace, PTL

\* A prompt that has not settled is in exactly one of the places from which its
\* completion will be resolved.
THEOREM NothingIsLost == Spec => []NothingLost
<1>1. PInv => NothingLost
  <2> SUFFICES ASSUME PInv PROVE NothingLost
    OBVIOUS
  <2>1. {p \in Prompt : state[p] = "pending"} =
          ToSet(pending) \union ({launching} \ {None}) \union Elsewhere
    BY SchedulerAssumption DEF PInv, Places, ToSet
  <2>2. DOMAIN pendingPlaces = 1..5
    BY DEF pendingPlaces
  <2>3. UNION ToSet(pendingPlaces) = ToSet(pending) \union ({launching} \ {None}) \union Elsewhere
    <3>1. ToSet(pendingPlaces) =
            {ToSet(pending), {launching} \ {None}, steering, heldSteer, {p \in dropped : joined[p] = None}}
      BY <2>2 DEF ToSet, pendingPlaces
    <3> QED
      BY <3>1 DEF Elsewhere
  <2>4. /\ ToSet(pending) \intersect ({launching} \ {None}) = {}
        /\ Elsewhere \intersect (ToSet(pending) \union ({launching} \ {None})) = {}
    BY DEF PInv, Places
  <2>5. \A i, j \in DOMAIN pendingPlaces :
          i # j => pendingPlaces[i] \intersect pendingPlaces[j] = {}
    BY <2>2, <2>4 DEF pendingPlaces, Elsewhere, PInv, Steers
  <2>6. \A p \in Prompt :
          /\ state[p] = "running" <=> p = active
          /\ state[p] = "steered" <=>
               (active # None /\ p \in steered[active]) \/ (p \in dropped /\ joined[p] # None)
    BY DEF PInv, Places, Lost
  <2> QED
    BY <2>1, <2>3, <2>5, <2>6 DEF PInv, Places, NothingLost
<1> QED
  BY <1>1, PromptsHaveTheirPlace, PTL

\* No prompt is started past an earlier one that still waits.
THEOREM PromptsStartInOrder == Spec => []StartedInOrder
<1>1. PInv => StartedInOrder
  <2> SUFFICES ASSUME PInv, NEW i \in DOMAIN submitted, NEW j \in DOMAIN submitted,
                      i < j, submitted[j] \in ToSet(started)
               PROVE  \/ state[submitted[i]] \in Settled \union {"steered"}
                      \/ submitted[i] \in dropped
                      \/ /\ submitted[i] \in ToSet(started)
                         /\ \E k, l \in DOMAIN started : k < l /\ started[k] = submitted[i]
                                                              /\ started[l] = submitted[j]
    BY DEF StartedInOrder
  <2>1. submitted[i] \in Prompt /\ submitted[j] \in Prompt
    BY DEF PInv, Order
  <2>2. Before(submitted, submitted[i], submitted[j])
    BY DEF Before
  <2>3. state[submitted[i]] \in Settled \union {"steered"} \/ submitted[i] \in dropped
          \/ Before(started, submitted[i], submitted[j])
    BY <2>1, <2>2 DEF PInv, Order
  <2> QED
    BY <2>3 DEF Before, ToSet
<1> QED
  BY <1>1, PromptsHaveTheirPlace, PTL

\* A prompt that was steered into a prompt's turn is filed under that prompt before it
\* settles, and settles with it, however the turn ends while steer awaits the loop
\* (steer, runTurn, settle).
THEOREM SteeredSettle == Spec => []SteeredSettlesWithItsTurn
<1>1. PInv => SteeredSettlesWithItsTurn
  <2> SUFFICES ASSUME PInv, NEW p \in Prompt, joined[p] \notin Other
               PROVE  /\ state[p] = "steered" => p \in steered[joined[p]]
                      /\ settledBy[p] # None => settledBy[p] = joined[p]
    BY DEF SteeredSettlesWithItsTurn
  <2>1. p \notin Lost
    BY DEF PInv, Steers, Lost
  <2>2. state[p] = "steered" => active # None /\ p \in steered[active] /\ joined[p] = active
    BY <2>1 DEF PInv, Places, Filed
  <2>3. settledBy[p] # None => settledBy[p] = joined[p]
    BY DEF PInv, Filed
  <2> QED
    BY <2>2, <2>3
<1> QED
  BY <1>1, PromptsHaveTheirPlace, PTL
=============================================================================
