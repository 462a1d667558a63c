------------------------ MODULE InteractionsProofs ------------------------
(***************************************************************************)
(* The kernel's map, the callers, the journals and the bridge agree, for    *)
(* any number of agents, requests and turns.  What binds them together is   *)
(* where a request stands: not asked, pending or answered; the journal of   *)
(* the agent that asked and the events of the bridge follow it step by step, *)
(* the journal until the agent is removed.                                  *)
(***************************************************************************)
EXTENDS Interactions, SequenceTheorems, TLAPS

\* The journal of an agent that is still live has a pending request exactly once.
JournalFollows ==
  \A r \in pending :
    /\ origin[r].agent \in Agent
    /\ wire[origin[r].agent][r] \in {<< >>, <<"request">>}
    /\ handle[origin[r].agent] = "live" => wire[origin[r].agent][r] = <<"request">>

\* What is pending is of a turn that runs: the end of a turn cancels background
\* questions too.
PendingInItsTurn ==
  \A r \in pending :
    running[origin[r].agent] /\ origin[r].turn = turnId(origin[r].agent)

\* The scope of an agent is disposed when its loop has settled, and then no turn
\* starts.
GoneAreIdle == \A a \in Agent : handle[a] = "gone" => ~running[a]

\* A turn that runs has a number.
TurnsAreNumbered == \A a \in Agent : running[a] => turns[a] > 0

\* Nobody has heard of a request before it is asked, nor a client of anything
\* before the bridge attaches.
DetachedIsSilent ==
  /\ \A r \in Request : ~asked(r) => answer[r] = "none" /\ events[r] = << >>
  /\ ~attached => known = {} /\ \A r \in Request : events[r] = << >>

IInv ==
  /\ KernelInvariant /\ PendingInItsTurn /\ BridgeFollowsKernel
  /\ JournalFollows /\ TurnsAreNumbered /\ DetachedIsSilent

----------------------------------------------------------------------------
(* A request's records are none, its request, or the request and its end. *)

LEMMA RecordsOfOne ==
  /\ Append(<< >>, "request") = <<"request">>
  /\ Append(<< >>, "resolved") = <<"resolved">>
  /\ \A s \in {<< >>, <<"request">>, <<"resolved">>, <<"request", "resolved">>} : s \in Records
  /\ << >> # <<"request">>
  BY DEF Records

LEMMA RequestThenResolved ==
  Append(<<"request">>, "resolved") = <<"request", "resolved">>
<1> DEFINE log == Append(<<"request">>, "resolved")
           both == <<"request", "resolved">>
<1>1. <<"request">> \in Seq({"request", "resolved"}) /\ Len(<<"request">>) = 1
      /\ <<"request">>[1] = "request"
  OBVIOUS
<1>2. both \in Seq({"request", "resolved"}) /\ Len(both) = 2
      /\ both[1] = "request" /\ both[2] = "resolved"
  OBVIOUS
<1>3. /\ log \in Seq({"request", "resolved"}) /\ Len(log) = 2
      /\ log[1] = "request" /\ log[2] = "resolved"
  BY <1>1, AppendProperties
<1>4. \A i \in 1 .. Len(log) : log[i] = both[i]
  BY <1>2, <1>3
<1>5. ASSUME NEW a, NEW b, a \in Seq({"request", "resolved"}), b \in Seq({"request", "resolved"}),
             Len(a) = Len(b), \A i \in 1 .. Len(a) : a[i] = b[i]
      PROVE  a = b
  BY <1>5, SeqEqual
<1>. QED BY <1>2, <1>3, <1>4, <1>5

LEMMA InitInv == Init => IInv
<1> SUFFICES ASSUME Init PROVE IInv
  OBVIOUS
<1>1. TypeOK
  BY RecordsOfOne, InteractionAssumption DEF Init, TypeOK, Kinds
<1>2. WaitersArePending /\ JournalIsWellFormed
  BY InteractionAssumption DEF Init, WaitersArePending, JournalIsWellFormed, asked
<1>3. PendingInItsTurn /\ BridgeFollowsKernel /\ JournalFollows
  BY DEF Init, PendingInItsTurn, BridgeFollowsKernel, JournalFollows
<1>4. TurnsAreNumbered /\ DetachedIsSilent
  BY DEF Init, TurnsAreNumbered, DetachedIsSilent
<1>. QED BY <1>1, <1>2, <1>3, <1>4 DEF IInv, KernelInvariant

----------------------------------------------------------------------------
(* What resolve does, and that it keeps the views together. *)

\* The agents after a step are well formed, and none that was removed is live again.
AgentsAdvance ==
  /\ handle' \in [Agent -> {"live", "removed", "stopping", "gone"}]
  /\ turns' \in [Agent -> Nat]
  /\ running' \in [Agent -> BOOLEAN]
  /\ aborted' \in [Agent -> BOOLEAN]
  /\ \A a \in Agent : handle'[a] = "live" => handle[a] = "live"

\* What the step changes, one conjunct per variable.
ResolveEffect(rs, response, leaving) ==
  /\ pending' = pending \ rs /\ kind' = kind /\ origin' = origin /\ attached' = attached
  /\ answer' \in [Request -> {"none", "user", "null", "turn_ended"}]
  /\ \A r \in Request :
       answer'[r] = IF r \in rs \intersect pending THEN response ELSE answer[r]
  /\ waiter' \in [Request -> {"none", "tool", "task"}]
  /\ \A r \in Request :
       waiter'[r] = IF r \in (rs \intersect pending) \union leaving THEN "none" ELSE waiter[r]
  /\ known' = known \ (rs \intersect pending)
  /\ DOMAIN wire' = Agent /\ wire' = [a \in Agent |-> wire'[a]]
  /\ \A a \in Agent : wire'[a] \in [Request -> Records]
  /\ \A a \in Agent, r \in Request :
       wire'[a][r] = IF r \in rs \intersect pending /\ origin[r].agent = a /\ handle[a] = "live"
                       THEN Append(wire[a][r], "resolved") ELSE wire[a][r]
  /\ events' \in [Request -> Records]
  /\ \A r \in Request :
       events'[r] = IF r \in rs \intersect pending /\ r \in known
                      THEN Append(events[r], "resolved") ELSE events[r]

LEMMA ResolveEffects ==
  ASSUME TypeOK, NEW rs \in SUBSET Request, NEW response \in {"user", "null", "turn_ended"},
         NEW leaving \in SUBSET Request, resolve(rs, response, leaving)
  PROVE  ResolveEffect(rs, response, leaving)
<1>1. \A l \in Records : Append(l, "resolved") \in Records
  BY AppendProperties DEF Records
<1>2. /\ pending' = pending \ rs /\ kind' = kind /\ origin' = origin /\ attached' = attached
      /\ known' = known \ (rs \intersect pending)
  BY DEF resolve, entries, announces
<1>3. /\ answer' \in [Request -> {"none", "user", "null", "turn_ended"}]
      /\ \A r \in Request :
           answer'[r] = IF r \in rs \intersect pending THEN response ELSE answer[r]
  BY DEF resolve, entries, TypeOK
<1>4. /\ waiter' \in [Request -> {"none", "tool", "task"}]
      /\ \A r \in Request :
           waiter'[r] = IF r \in (rs \intersect pending) \union leaving THEN "none" ELSE waiter[r]
  BY DEF resolve, entries, released, TypeOK
<1>5. /\ events' \in [Request -> Records]
      /\ \A r \in Request :
           events'[r] = IF r \in rs \intersect pending /\ r \in known
                          THEN Append(events[r], "resolved") ELSE events[r]
  BY <1>1 DEF resolve, entries, announces, appendEach, TypeOK
<1>6. wire' = [a \in Agent |->
                 IF handle[a] = "live"
                   THEN [r \in Request |->
                           IF r \in {q \in rs \intersect pending : origin[q].agent = a}
                             THEN Append(wire[a][r], "resolved") ELSE wire[a][r]]
                   ELSE wire[a]]
  BY <1>2 DEF resolve, entries, record, journals, journalOf, appendEach
<1>7. \A a \in Agent : wire[a] \in [Request -> Records]
  BY DEF TypeOK
<1>8. \A a \in Agent, r \in Request :
        wire'[a][r] = IF r \in rs \intersect pending /\ origin[r].agent = a /\ handle[a] = "live"
                        THEN Append(wire[a][r], "resolved") ELSE wire[a][r]
  BY <1>6
<1>9. \A a \in Agent : wire'[a] \in [Request -> Records]
  BY <1>1, <1>6, <1>7
<1>. QED BY <1>2, <1>3, <1>4, <1>5, <1>6, <1>8, <1>9 DEF ResolveEffect

LEMMA ResolveKeepsViews ==
  ASSUME IInv, NEW rs \in SUBSET Request, NEW response \in {"user", "null", "turn_ended"},
         NEW leaving \in SUBSET Request, resolve(rs, response, leaving),
         AgentsAdvance, PendingInItsTurn', TurnsAreNumbered'
  PROVE  IInv'
<1>0. TypeOK
  BY DEF IInv, KernelInvariant
<1>e. ResolveEffect(rs, response, leaving)
  BY <1>0, ResolveEffects
<1> USE DEF IInv, KernelInvariant, ResolveEffect
<1>1. TypeOK'
  <2>1. wire' \in [Agent -> [Request -> Records]]
    BY <1>e
  <2>. QED BY <1>0, <1>e, <2>1 DEF TypeOK, AgentsAdvance
<1>2. WaitersArePending'
  BY <1>0, <1>e DEF WaitersArePending, TypeOK, asked
<1>3. JournalIsWellFormed'
  <2> SUFFICES ASSUME NEW a \in Agent, NEW r \in Request
               PROVE  /\ wire'[a][r] \in {<< >>, <<"request">>, <<"request", "resolved">>}
                      /\ wire'[a][r] # << >> => origin'[r].agent = a
    BY DEF JournalIsWellFormed
  <2>1. CASE r \in rs \intersect pending /\ origin[r].agent = a /\ handle[a] = "live"
    <3>1. wire[a][r] = <<"request">>
      BY <2>1 DEF JournalFollows
    <3>2. wire'[a][r] = <<"request", "resolved">>
      BY <1>e, <2>1, <3>1, RequestThenResolved
    <3>. QED BY <1>e, <2>1, <3>2
  <2>2. CASE ~(r \in rs \intersect pending /\ origin[r].agent = a /\ handle[a] = "live")
    BY <1>e, <2>2 DEF JournalIsWellFormed
  <2>. QED BY <2>1, <2>2
<1>4. BridgeFollowsKernel'
  <2> SUFFICES ASSUME attached
               PROVE  /\ known' = pending'
                      /\ \A r \in Request :
                           events'[r] \in IF r \in pending' THEN {<< >>, <<"request">>}
                             ELSE {<< >>, <<"resolved">>, <<"request", "resolved">>}
    BY <1>e DEF BridgeFollowsKernel
  <2>1. known = pending
    BY DEF BridgeFollowsKernel
  <2>2. ASSUME NEW r \in Request
        PROVE  events'[r] \in IF r \in pending' THEN {<< >>, <<"request">>}
                                ELSE {<< >>, <<"resolved">>, <<"request", "resolved">>}
    <3>1. CASE r \in rs \intersect pending
      <4>1. events[r] \in {<< >>, <<"request">>} /\ events'[r] = Append(events[r], "resolved")
        BY <1>e, <2>1, <3>1 DEF BridgeFollowsKernel
      <4>2. events'[r] \in {<<"resolved">>, <<"request", "resolved">>}
        BY <4>1, RecordsOfOne, RequestThenResolved
      <4>. QED BY <1>e, <3>1, <4>2
    <3>2. CASE r \notin rs \intersect pending
      BY <1>e, <3>2 DEF BridgeFollowsKernel
    <3>. QED BY <3>1, <3>2
  <2>. QED BY <1>e, <2>1, <2>2
<1>5. JournalFollows'
  <2> SUFFICES ASSUME NEW r \in pending'
               PROVE  /\ origin'[r].agent \in Agent
                      /\ wire'[origin'[r].agent][r] \in {<< >>, <<"request">>}
                      /\ handle'[origin'[r].agent] = "live"
                           => wire'[origin'[r].agent][r] = <<"request">>
    BY DEF JournalFollows
  <2>1. r \in pending /\ r \in Request /\ r \notin rs
    BY <1>0, <1>e DEF TypeOK
  <2>2. origin[r].agent \in Agent /\ wire'[origin[r].agent][r] = wire[origin[r].agent][r]
    BY <1>e, <2>1 DEF JournalFollows
  <2>. QED BY <1>e, <2>1, <2>2 DEF JournalFollows, AgentsAdvance
<1>6. DetachedIsSilent'
  <2>1. \A r \in Request : ~asked(r) => r \notin pending
    BY DEF WaitersArePending
  <2>2. \A r \in Request : ~asked(r) => answer'[r] = "none" /\ events'[r] = << >>
    BY <1>e, <2>1 DEF DetachedIsSilent
  <2>3. ~attached => known' = {} /\ \A r \in Request : events'[r] = << >>
    BY <1>e DEF DetachedIsSilent
  <2>. QED BY <1>e, <2>2, <2>3 DEF DetachedIsSilent, asked
<1>. QED BY <1>1, <1>2, <1>3, <1>4, <1>5, <1>6

----------------------------------------------------------------------------
(* One lemma per action. *)

LEMMA AskInv ==
  ASSUME IInv, NEW a \in Agent, NEW r \in Request, NEW k \in KindsOf[r], Ask(a, r, k)
  PROVE  IInv'
<1> USE DEF IInv, KernelInvariant
<1>0. k \in Kinds /\ a # None /\ turnId(a) \in Nat
  <2>1. k \in Kinds /\ a # None
    BY InteractionAssumption
  <2>2. turns[a] \in Nat /\ turns[a] > 0
    BY DEF TypeOK, TurnsAreNumbered, Ask
  <2>. QED BY <2>1, <2>2 DEF turnId
<1>1. /\ UNCHANGED <<agentVars, answer, attached>> /\ running[a] /\ ~asked(r)
      /\ pending' = pending \union {r}
      /\ kind' = [kind EXCEPT ![r] = k]
      /\ origin' = [origin EXCEPT ![r] = [agent |-> a, turn |-> turnId(a)]]
      /\ waiter' \in [Request -> {"none", "tool", "task"}]
      /\ \A q \in Request \ {r} : waiter'[q] = waiter[q]
  BY DEF Ask, TypeOK
<1>2. /\ r \notin pending /\ answer[r] = "none" /\ events[r] = << >>
      /\ \A b \in Agent : wire[b][r] = << >>
  <2>1. r \notin pending /\ events[r] = << >>
    BY <1>1 DEF WaitersArePending, DetachedIsSilent
  <2>2. answer[r] = "none"
    BY <1>1 DEF DetachedIsSilent
  <2>3. \A b \in Agent : wire[b][r] = << >>
    BY <1>1, InteractionAssumption DEF JournalIsWellFormed, asked
  <2>. QED BY <2>1, <2>2, <2>3
<1>3. origin' \in [Request -> [agent : Agent \union {None}, turn : Nat]]
      /\ origin'[r].agent = a /\ origin'[r].turn = turnId(a)
      /\ \A q \in Request \ {r} : origin'[q] = origin[q]
  BY <1>0, <1>1 DEF TypeOK
<1>4. /\ wire' \in [Agent -> [Request -> Records]]
      /\ \A b \in Agent, q \in Request :
           wire'[b][q] = IF q = r /\ b = a /\ handle[a] = "live" THEN <<"request">> ELSE wire[b][q]
  <2>1. wire' = [b \in Agent |->
                   IF handle[b] = "live"
                     THEN [q \in Request |->
                             IF q \in {p \in {r} : origin'[p].agent = b}
                               THEN Append(wire[b][q], "request") ELSE wire[b][q]]
                     ELSE wire[b]]
    BY DEF Ask, record, journals, journalOf, appendEach
  <2>2. \A b \in Agent : wire[b] \in [Request -> Records]
    BY DEF TypeOK
  <2>3. \A b \in Agent, q \in Request :
          wire'[b][q] = IF q = r /\ b = a /\ handle[a] = "live" THEN <<"request">> ELSE wire[b][q]
    <3>1. ASSUME NEW b \in Agent, NEW q \in Request
          PROVE  wire'[b][q] = IF q = r /\ b = a /\ handle[a] = "live"
                                 THEN <<"request">> ELSE wire[b][q]
      <4>1. CASE handle[b] = "live" /\ q = r /\ b = a
        BY <1>2, <1>3, <2>1, <4>1, RecordsOfOne
      <4>2. CASE handle[b] = "live" /\ ~(q = r /\ b = a)
        BY <1>3, <2>1, <4>2
      <4>3. CASE handle[b] # "live"
        BY <2>1, <4>3
      <4>. QED BY <4>1, <4>2, <4>3
    <3>. QED BY <3>1
  <2>4. ASSUME NEW b \in Agent PROVE wire'[b] \in [Request -> Records]
    <3>1. \A q \in Request : wire'[b][q] \in Records
      BY <2>2, <2>3, RecordsOfOne
    <3>. QED BY <2>1, <2>2, <3>1
  <2>. QED BY <2>1, <2>3, <2>4
<1>5. /\ events' \in [Request -> Records]
      /\ \A q \in Request : events'[q] = IF q = r /\ attached THEN <<"request">> ELSE events[q]
      /\ known' = IF attached THEN known \union {r} ELSE known
  <2>1. CASE attached
    <3>1. events' = [q \in Request |-> IF q \in {r} THEN Append(events[q], "request") ELSE events[q]]
      BY <2>1 DEF Ask, appendEach
    <3>2. known' = known \union {r}
      BY <2>1 DEF Ask
    <3>3. \A q \in Request :
            events'[q] = IF q = r THEN <<"request">> ELSE events[q]
      BY <1>2, <3>1, RecordsOfOne
    <3>4. events' \in [Request -> Records]
      BY <3>1, <3>3, RecordsOfOne DEF TypeOK
    <3>. QED BY <2>1, <3>2, <3>3, <3>4
  <2>2. CASE ~attached
    BY <2>2 DEF Ask, TypeOK
  <2>. QED BY <2>1, <2>2
<1>6. TypeOK'
  BY <1>0, <1>1, <1>3, <1>4, <1>5 DEF TypeOK, agentVars
<1>7. WaitersArePending'
  BY <1>0, <1>1, <1>2, <1>3 DEF WaitersArePending, asked
<1>8. JournalIsWellFormed'
  <2>1. \A b \in Agent : wire'[b][r] # << >> => origin'[r].agent = b
    BY <1>2, <1>3, <1>4
  <2>2. \A b \in Agent, q \in Request \ {r} : wire'[b][q] = wire[b][q] /\ origin'[q] = origin[q]
    BY <1>3, <1>4
  <2>. QED BY <1>4, <2>1, <2>2 DEF JournalIsWellFormed
<1>9. PendingInItsTurn' /\ TurnsAreNumbered'
  <2>1. ASSUME NEW q \in pending'
        PROVE  running'[origin'[q].agent] /\ origin'[q].turn = turns'[origin'[q].agent] - 1
    <3>1. turns' = turns /\ running' = running
      BY <1>1 DEF agentVars
    <3>2. CASE q = r
      BY <1>1, <1>3, <3>1, <3>2 DEF turnId
    <3>3. CASE q # r
      <4>1. q \in pending /\ q \in Request /\ origin'[q] = origin[q]
        BY <1>1, <1>3, <3>3 DEF TypeOK
      <4>. QED BY <3>1, <4>1 DEF PendingInItsTurn, turnId
    <3>. QED BY <3>2, <3>3
  <2>. QED BY <1>1, <2>1 DEF PendingInItsTurn, TurnsAreNumbered, agentVars, turnId
<1>10. BridgeFollowsKernel'
  BY <1>1, <1>5 DEF BridgeFollowsKernel
<1>11. JournalFollows'
  <2>1. \A q \in pending : q \in Request /\ q # r
    BY <1>2 DEF TypeOK
  <2>2. \A q \in pending :
          /\ origin'[q] = origin[q] /\ origin[q].agent \in Agent
          /\ wire'[origin[q].agent][q] = wire[origin[q].agent][q]
    BY <1>3, <1>4, <2>1 DEF JournalFollows
  <2>3. \A q \in pending :
          /\ origin'[q].agent \in Agent
          /\ wire'[origin'[q].agent][q] \in {<< >>, <<"request">>}
          /\ handle'[origin'[q].agent] = "live" => wire'[origin'[q].agent][q] = <<"request">>
    BY <1>1, <2>2 DEF JournalFollows, agentVars
  <2>4. /\ wire'[a][r] \in {<< >>, <<"request">>}
        /\ handle'[a] = "live" => wire'[a][r] = <<"request">>
    BY <1>1, <1>2, <1>4 DEF agentVars
  <2>. QED BY <1>1, <1>3, <2>3, <2>4 DEF JournalFollows
<1>12. DetachedIsSilent'
  BY <1>0, <1>1, <1>3, <1>5 DEF DetachedIsSilent, asked
<1>. QED BY <1>6, <1>7, <1>8, <1>9, <1>10, <1>11, <1>12

\* The user, or TaskStop, answers: the agents do not move.
LEMMA AnswerInv ==
  ASSUME IInv, NEW r \in Request, NEW response \in {"user", "null"},
         resolve({r}, response, {}), UNCHANGED agentVars
  PROVE  IInv'
<1> USE DEF IInv, KernelInvariant
<1>0. TypeOK /\ {r} \in SUBSET Request /\ {} \in SUBSET Request
      /\ response \in {"user", "null", "turn_ended"}
  OBVIOUS
<1>1. pending' = pending \ {r} /\ origin' = origin
  <2>1. ResolveEffect({r}, response, {})
    BY <1>0, ResolveEffects
  <2>. QED BY <2>1 DEF ResolveEffect
<1>2. AgentsAdvance
  BY DEF AgentsAdvance, TypeOK, agentVars
<1>3. PendingInItsTurn' /\ TurnsAreNumbered'
  BY <1>1 DEF PendingInItsTurn, TurnsAreNumbered, turnId, agentVars
<1>. QED BY <1>0, <1>2, <1>3, ResolveKeepsViews

\* The signal of a turn is aborted: what it dismisses it had asked for.
LEMMA AbortInv ==
  ASSUME IInv, NEW a \in Agent, NEW andDismiss \in SUBSET Request, abortSignal(a, andDismiss),
         UNCHANGED <<turns, running>>,
         handle' \in [Agent -> {"live", "removed", "stopping", "gone"}],
         \A b \in Agent : handle'[b] = "live" => handle[b] = "live"
  PROVE  IInv'
<1> USE DEF IInv, KernelInvariant
<1> DEFINE rs == dismissedByAbort(a) \union andDismiss
<1>1. rs \in SUBSET Request /\ leftByAbort(a) \in SUBSET Request
  BY DEF dismissedByAbort, leftByAbort
<1>2. resolve(rs, "null", leftByAbort(a))
  BY DEF abortSignal
<1>3. pending' = pending \ rs /\ origin' = origin
  <2>1. ResolveEffect(rs, "null", leftByAbort(a))
    BY <1>1, <1>2, ResolveEffects
  <2>. QED BY <2>1 DEF ResolveEffect
<1>4. AgentsAdvance
  BY DEF AgentsAdvance, TypeOK, abortSignal
<1>5. PendingInItsTurn' /\ TurnsAreNumbered'
  BY <1>3 DEF PendingInItsTurn, TurnsAreNumbered, turnId
<1>. HIDE DEF rs
<1>. QED BY <1>1, <1>2, <1>4, <1>5, ResolveKeepsViews

\* The end of a turn cancels all that the turn has pending, and maybe more.
LEMMA EndTurnInv ==
  ASSUME IInv, NEW a \in Agent, EndTurn(a)
  PROVE  IInv'
<1> USE DEF IInv, KernelInvariant
<1> DEFINE rs == cancelPendingForTurn(turnId(a))
<1>1. /\ TypeOK /\ rs \in SUBSET Request /\ {} \in SUBSET Request
      /\ resolve(rs, "turn_ended", {})
  BY DEF EndTurn, cancelPendingForTurn
<1>2. pending' = pending \ rs /\ origin' = origin
  <2>1. ResolveEffect(rs, "turn_ended", {})
    BY <1>1, ResolveEffects
  <2>. QED BY <2>1 DEF ResolveEffect
<1>3. running' = [running EXCEPT ![a] = FALSE] /\ UNCHANGED <<handle, turns, aborted>>
  BY DEF EndTurn
<1>4. AgentsAdvance
  BY <1>3 DEF AgentsAdvance, TypeOK
<1>5. TurnsAreNumbered'
  BY <1>3 DEF TurnsAreNumbered, TypeOK
<1>6. PendingInItsTurn'
  <2> SUFFICES ASSUME NEW r \in pending'
               PROVE  running'[origin'[r].agent] /\ origin'[r].turn = turns'[origin'[r].agent] - 1
    BY DEF PendingInItsTurn, turnId
  <2>1. /\ r \in pending /\ r \in Request /\ r \notin rs /\ origin' = origin
        /\ origin[r].agent \in Agent
    BY <1>2 DEF TypeOK, JournalFollows
  <2>2. running[origin[r].agent] /\ origin[r].turn = turns[origin[r].agent] - 1
    BY <2>1 DEF PendingInItsTurn, turnId
  <2>3. origin[r].agent # a
    BY <2>1, <2>2 DEF cancelPendingForTurn, WaitersArePending, turnId
  <2>. QED BY <1>3, <2>1, <2>2, <2>3 DEF TypeOK
<1>. HIDE DEF rs
<1>. QED BY <1>1, <1>4, <1>5, <1>6, ResolveKeepsViews

LEMMA StartTurnInv ==
  ASSUME IInv, NEW a \in Agent, StartTurn(a)
  PROVE  IInv'
<1> USE DEF IInv, KernelInvariant
<1>1. /\ ~running[a] /\ turns' = [turns EXCEPT ![a] = @ + 1]
      /\ running' = [running EXCEPT ![a] = TRUE]
      /\ UNCHANGED <<handle, pending, kind, origin, waiter, answer, wire, attached, known, events>>
      /\ aborted' = [aborted EXCEPT ![a] = FALSE]
  BY DEF StartTurn, bridgeVars
<1>2. TypeOK'
  BY <1>1 DEF TypeOK
<1>3. WaitersArePending' /\ JournalIsWellFormed' /\ BridgeFollowsKernel'
      /\ JournalFollows' /\ DetachedIsSilent'
  BY <1>1 DEF WaitersArePending, JournalIsWellFormed, BridgeFollowsKernel, JournalFollows,
              DetachedIsSilent, asked
<1>4. TurnsAreNumbered'
  BY <1>1 DEF TurnsAreNumbered, TypeOK
<1>5. PendingInItsTurn'
  BY <1>1 DEF PendingInItsTurn, JournalFollows, TypeOK, turnId
<1>. QED BY <1>2, <1>3, <1>4, <1>5

\* The first and the last step of a removal only move the handle.
LEMMA HandleInv ==
  ASSUME IInv, handle' \in [Agent -> {"live", "removed", "stopping", "gone"}],
         \A b \in Agent : handle'[b] = "live" => handle[b] = "live",
         UNCHANGED <<turns, running, aborted, pending, kind, origin, waiter, answer, wire, bridgeVars>>
  PROVE  IInv'
<1> USE DEF IInv, KernelInvariant, bridgeVars
<1>1. TypeOK'
  BY DEF TypeOK
<1>2. WaitersArePending' /\ JournalIsWellFormed' /\ BridgeFollowsKernel'
      /\ PendingInItsTurn' /\ DetachedIsSilent' /\ TurnsAreNumbered'
  BY DEF WaitersArePending, JournalIsWellFormed, BridgeFollowsKernel, PendingInItsTurn,
         DetachedIsSilent, TurnsAreNumbered, asked, turnId
<1>3. JournalFollows'
  BY DEF JournalFollows
<1>. QED BY <1>1, <1>2, <1>3

LEMMA AttachInv == IInv /\ Attach => IInv'
<1> SUFFICES ASSUME IInv, Attach PROVE IInv'
  OBVIOUS
<1> USE DEF IInv, KernelInvariant, Attach, agentVars
<1>1. TypeOK'
  BY DEF TypeOK
<1>2. WaitersArePending' /\ JournalIsWellFormed' /\ PendingInItsTurn' /\ JournalFollows'
      /\ TurnsAreNumbered'
  BY DEF WaitersArePending, JournalIsWellFormed, PendingInItsTurn, JournalFollows,
         TurnsAreNumbered, asked, turnId
<1>3. BridgeFollowsKernel' /\ DetachedIsSilent'
  BY DEF BridgeFollowsKernel, DetachedIsSilent, asked
<1>. QED BY <1>1, <1>2, <1>3

LEMMA NextInv == IInv /\ [Next]_vars => IInv'
<1> SUFFICES ASSUME IInv, [Next]_vars PROVE IInv'
  OBVIOUS
<1>0. TypeOK
  BY DEF IInv, KernelInvariant
<1>1. ASSUME NEW r \in Request, NEW a \in Agent, NEW k \in KindsOf[r], Ask(a, r, k) PROVE IInv'
  BY <1>1, AskInv
<1>2. ASSUME NEW r \in Request, NEW response \in {"user", "null"}, Respond(r, response) PROVE IInv'
  BY <1>2, AnswerInv DEF Respond
<1>3. ASSUME NEW r \in Request, StopTask(r) PROVE IInv'
  BY <1>3, AnswerInv DEF StopTask
<1>4. ASSUME NEW a \in Agent, StartTurn(a) PROVE IInv'
  BY <1>4, StartTurnInv
<1>5. ASSUME NEW a \in Agent, AbortTurn(a) PROVE IInv'
  <2>1. /\ abortSignal(a, {}) /\ UNCHANGED <<turns, running>> /\ {} \in SUBSET Request
        /\ handle' \in [Agent -> {"live", "removed", "stopping", "gone"}] /\ handle' = handle
    BY <1>0, <1>5 DEF AbortTurn, TypeOK
  <2>. QED BY <2>1, AbortInv
<1>6. ASSUME NEW a \in Agent, EndTurn(a) PROVE IInv'
  BY <1>6, EndTurnInv
<1>7. ASSUME NEW a \in Agent, RemoveAgent(a) \/ DisposeScope(a) PROVE IInv'
  <2>1. /\ handle' \in [Agent -> {"live", "removed", "stopping", "gone"}]
        /\ \A b \in Agent : handle'[b] = "live" => handle[b] = "live"
        /\ UNCHANGED <<turns, running, aborted, pending, kind, origin, waiter, answer, wire, bridgeVars>>
    BY <1>0, <1>7 DEF RemoveAgent, DisposeScope, TypeOK
  <2>. QED BY <2>1, HandleInv
<1>8. ASSUME NEW a \in Agent, StopAllOnExit(a) PROVE IInv'
  <2> DEFINE tasks == {r \in Request : origin[r].agent = a /\ waiter[r] = "task"}
  <2>1. /\ abortSignal(a, tasks) /\ UNCHANGED <<turns, running>> /\ tasks \in SUBSET Request
        /\ handle' \in [Agent -> {"live", "removed", "stopping", "gone"}]
        /\ \A b \in Agent : handle'[b] = "live" => handle[b] = "live"
    BY <1>0, <1>8 DEF StopAllOnExit, TypeOK
  <2>. HIDE DEF tasks
  <2>. QED BY <2>1, AbortInv
<1>9. CASE Attach
  BY <1>9, AttachInv
<1>10. CASE UNCHANGED vars
  BY <1>10 DEF vars, agentVars, bridgeVars, IInv, KernelInvariant, TypeOK, WaitersArePending,
       JournalIsWellFormed, PendingInItsTurn, BridgeFollowsKernel, JournalFollows,
       TurnsAreNumbered, DetachedIsSilent, asked, turnId
<1>. QED BY <1>1, <1>2, <1>3, <1>4, <1>5, <1>6, <1>7, <1>8, <1>9, <1>10 DEF Next

----------------------------------------------------------------------------
(* Theorems *)

\* The map, the callers and the journals agree: whoever awaits an answer is in
\* the pending map of InteractionService, and the wire of the agent that asked
\* has the request once, before its resolution.
THEOREM KernelIsConsistent == Spec => []KernelInvariant
<1>1. Spec => []IInv
  BY InitInv, NextInv, PTL DEF Spec
<1>. QED BY <1>1, PTL DEF IInv

LEMMA NextGone == TypeOK /\ GoneAreIdle /\ [Next]_vars => GoneAreIdle'
<1> SUFFICES ASSUME TypeOK, GoneAreIdle, [Next]_vars PROVE GoneAreIdle'
  OBVIOUS
<1> USE DEF GoneAreIdle, TypeOK
<1>1. ASSUME NEW a \in Agent, StartTurn(a) PROVE GoneAreIdle'
  BY <1>1 DEF StartTurn
<1>2. ASSUME NEW a \in Agent, EndTurn(a) PROVE GoneAreIdle'
  BY <1>2 DEF EndTurn
<1>3. ASSUME NEW a \in Agent, RemoveAgent(a) \/ StopAllOnExit(a) \/ DisposeScope(a)
      PROVE  GoneAreIdle'
  BY <1>3 DEF RemoveAgent, StopAllOnExit, DisposeScope
<1>4. ASSUME ~(\E a \in Agent : StartTurn(a) \/ EndTurn(a) \/ RemoveAgent(a)
                                 \/ StopAllOnExit(a) \/ DisposeScope(a))
      PROVE  UNCHANGED <<handle, running>>
  BY <1>4 DEF Next, vars, agentVars, Ask, Respond, StopTask, AbortTurn, Attach
<1>. QED BY <1>1, <1>2, <1>3, <1>4

\* A turn leaves no approval or question of its tool calls pending, and an agent that
\* is removed leaves nothing: cancelPendingForTurn, on turn.ended, clears what the
\* turn had asked for, and remove disposes the scope only when the loop has settled.
THEOREM TurnsLeaveNothing == Spec => []NothingLeftBehind
<1>1. Spec => []IInv
  BY InitInv, NextInv, PTL DEF Spec
<1>2. Init => GoneAreIdle
  BY DEF Init, GoneAreIdle
<1>3. IInv => TypeOK
  BY DEF IInv, KernelInvariant
<1>4. IInv /\ GoneAreIdle => NothingLeftBehind
  BY DEF IInv, PendingInItsTurn, JournalFollows, GoneAreIdle, NothingLeftBehind
<1>. QED BY <1>1, <1>2, <1>3, <1>4, NextGone, PTL DEF Spec

\* The bridge of the broadcaster has announced each interaction at most once and
\* its end after it, and takes for open what the kernel has pending.
THEOREM BridgeIsFaithful == Spec => []BridgeFollowsKernel
<1>1. Spec => []IInv
  BY InitInv, NextInv, PTL DEF Spec
<1>. QED BY <1>1, PTL DEF IInv

\* respond and cancelPendingForTurn never replace a response that was given.
THEOREM ResponsesAreFinal == Spec => AnsweredOnce
<1>1. ASSUME IInv, NEW rs \in SUBSET Request, NEW response \in {"user", "null", "turn_ended"},
             NEW leaving \in SUBSET Request, resolve(rs, response, leaving)
      PROVE  \A r \in Request : answer[r] # "none" => answer'[r] = answer[r]
  <2>1. ResolveEffect(rs, response, leaving)
    BY <1>1, ResolveEffects DEF IInv, KernelInvariant
  <2>. QED BY <1>1, <2>1 DEF ResolveEffect, IInv, KernelInvariant, WaitersArePending
<1>2. IInv /\ [Next]_vars
        => [\A r \in Request : answer[r] # "none" => answer'[r] = answer[r]]_vars
  <2> SUFFICES ASSUME IInv, Next
               PROVE  \A r \in Request : answer[r] # "none" => answer'[r] = answer[r]
    OBVIOUS
  <2>1. CASE \E r \in Request, response \in {"user", "null"} : Respond(r, response) \/ StopTask(r)
    BY <1>1, <2>1 DEF Respond, StopTask
  <2>2. CASE \E a \in Agent : AbortTurn(a) \/ EndTurn(a) \/ StopAllOnExit(a)
    <3>1. PICK a \in Agent : AbortTurn(a) \/ EndTurn(a) \/ StopAllOnExit(a)
      BY <2>2
    <3>2. CASE EndTurn(a)
      <4>1. resolve(cancelPendingForTurn(turnId(a)), "turn_ended", {})
            /\ cancelPendingForTurn(turnId(a)) \in SUBSET Request /\ {} \in SUBSET Request
        BY <3>2 DEF EndTurn, cancelPendingForTurn
      <4>. QED BY <1>1, <4>1
    <3>3. ASSUME NEW andDismiss \in SUBSET Request, abortSignal(a, andDismiss)
          PROVE  \A r \in Request : answer[r] # "none" => answer'[r] = answer[r]
      <4>1. /\ dismissedByAbort(a) \union andDismiss \in SUBSET Request
            /\ leftByAbort(a) \in SUBSET Request
        BY DEF dismissedByAbort, leftByAbort
      <4>. QED BY <1>1, <3>3, <4>1 DEF abortSignal
    <3>4. CASE AbortTurn(a) \/ StopAllOnExit(a)
      <4>1. {} \in SUBSET Request
            /\ {r \in Request : origin[r].agent = a /\ waiter[r] = "task"} \in SUBSET Request
        OBVIOUS
      <4>. QED BY <3>3, <3>4, <4>1 DEF AbortTurn, StopAllOnExit
    <3>. QED BY <3>1, <3>2, <3>4
  <2>3. CASE ~(\E r \in Request, response \in {"user", "null"} :
                 Respond(r, response) \/ StopTask(r))
             /\ ~(\E a \in Agent : AbortTurn(a) \/ EndTurn(a) \/ StopAllOnExit(a))
    <3>1. answer' = answer
      BY <2>3 DEF Next, Ask, StartTurn, RemoveAgent, DisposeScope, Attach
    <3>. QED BY <3>1
  <2>. QED BY <2>1, <2>2, <2>3
<1>3. Spec => []IInv
  BY InitInv, NextInv, PTL DEF Spec
<1>. QED BY <1>2, <1>3, PTL DEF Spec, AnsweredOnce

----------------------------------------------------------------------------
(* Whose turn cancels a request. *)

\* Two turns that run at the same time have different numbers.
NumbersDiffer ==
  \A a, b \in Agent : running[a] /\ running[b] /\ a # b => turnId(a) # turnId(b)

\* A request is of a turn that its agent has started.
AskedInTurn ==
  \A r \in Request : asked(r) => origin[r].agent \in Agent /\ origin[r].turn < turns[origin[r].agent]

OwnInv ==
  /\ AskedInTurn
  /\ \A r \in Request : answer[r] = "turn_ended" => asked(r)
  /\ CancelledByItsOwnTurn

LEMMA InitOwn == Init => OwnInv
BY DEF Init, OwnInv, AskedInTurn, CancelledByItsOwnTurn, asked

\* A resolution with another response cancels nothing.
LEMMA ResolveOwn ==
  ASSUME IInv, OwnInv, NEW rs \in SUBSET Request, NEW response \in {"user", "null"},
         NEW leaving \in SUBSET Request, resolve(rs, response, leaving),
         UNCHANGED <<turns, running>>
  PROVE  OwnInv'
<1>1. ResolveEffect(rs, response, leaving)
  BY ResolveEffects DEF IInv, KernelInvariant
<1>2. origin' = origin /\ \A r \in Request : answer'[r] = "turn_ended" => answer[r] = "turn_ended"
  BY <1>1 DEF ResolveEffect
<1>. QED BY <1>2 DEF OwnInv, AskedInTurn, CancelledByItsOwnTurn, asked, turnId

LEMMA EndTurnOwn ==
  ASSUME IInv, OwnInv, NumbersDiffer, NEW a \in Agent, EndTurn(a)
  PROVE  OwnInv'
<1> DEFINE rs == cancelPendingForTurn(turnId(a))
<1>1. /\ TypeOK /\ WaitersArePending /\ rs \in SUBSET Request /\ {} \in SUBSET Request
      /\ resolve(rs, "turn_ended", {}) /\ running[a]
  BY DEF EndTurn, cancelPendingForTurn, IInv, KernelInvariant
<1>2. ResolveEffect(rs, "turn_ended", {})
  BY <1>1, ResolveEffects
<1>3. /\ origin' = origin /\ turns' = turns /\ running' = [running EXCEPT ![a] = FALSE]
      /\ \A r \in Request :
           answer'[r] = IF r \in rs \intersect pending THEN "turn_ended" ELSE answer[r]
  BY <1>2 DEF EndTurn, ResolveEffect
<1>4. \A b \in Agent : running'[b] => running[b] /\ b # a
  BY <1>1, <1>3 DEF TypeOK
\* What is cancelled now was asked for in a turn that runs, with the number of this one.
<1>5. \A r \in rs \intersect pending : asked(r) /\ origin[r].agent = a
  <2> SUFFICES ASSUME NEW r \in rs \intersect pending PROVE asked(r) /\ origin[r].agent = a
    OBVIOUS
  <2>1. r \in Request /\ asked(r) /\ origin[r].turn = turnId(a)
    BY <1>1 DEF cancelPendingForTurn
  <2>2. /\ origin[r].agent \in Agent /\ running[origin[r].agent]
        /\ origin[r].turn = turnId(origin[r].agent)
    BY <2>1 DEF IInv, PendingInItsTurn, OwnInv, AskedInTurn
  <2>. QED BY <1>1, <2>1, <2>2 DEF NumbersDiffer
<1>6. CancelledByItsOwnTurn'
  <2> SUFFICES ASSUME NEW r \in Request, answer'[r] = "turn_ended"
               PROVE  ~running'[origin[r].agent] \/ origin[r].turn < turnId(origin[r].agent)
    BY <1>3 DEF CancelledByItsOwnTurn, turnId
  <2>1. CASE r \in rs \intersect pending
    BY <1>4, <1>5, <2>1
  <2>2. CASE r \notin rs \intersect pending
    <3>1. answer[r] = "turn_ended" /\ origin[r].agent \in Agent
      BY <1>3, <2>2 DEF OwnInv, AskedInTurn
    <3>. QED BY <1>4, <3>1 DEF OwnInv, CancelledByItsOwnTurn
  <2>. QED BY <2>1, <2>2
<1>7. \A r \in Request : answer'[r] = "turn_ended" => asked(r)'
  BY <1>3, <1>5 DEF OwnInv, asked
<1>8. AskedInTurn'
  BY <1>3 DEF OwnInv, AskedInTurn, asked
<1>. QED BY <1>6, <1>7, <1>8 DEF OwnInv

LEMMA AskOwn ==
  ASSUME IInv, OwnInv, NEW a \in Agent, NEW r \in Request, NEW k, Ask(a, r, k)
  PROVE  OwnInv'
<1>1. /\ TypeOK /\ WaitersArePending /\ DetachedIsSilent
  BY DEF IInv, KernelInvariant
<1>2. /\ ~asked(r) /\ answer' = answer /\ turns' = turns /\ running' = running
      /\ origin' = [origin EXCEPT ![r] = [agent |-> a, turn |-> turnId(a)]]
  BY DEF Ask, agentVars
<1>3. /\ \A q \in Request : q # r => origin'[q] = origin[q]
      /\ origin'[r].agent = a /\ origin'[r].turn = turns[a] - 1
  BY <1>1, <1>2 DEF TypeOK, turnId
<1>4. answer[r] # "turn_ended"
  BY <1>1, <1>2 DEF DetachedIsSilent
<1>5. AskedInTurn'
  <2>1. turns[a] - 1 < turns[a]
    BY <1>1 DEF TypeOK
  <2>. QED BY <1>2, <1>3, <2>1 DEF OwnInv, AskedInTurn, asked
<1>6. CancelledByItsOwnTurn' /\ \A q \in Request : answer'[q] = "turn_ended" => asked(q)'
  BY <1>2, <1>3, <1>4 DEF OwnInv, CancelledByItsOwnTurn, asked, turnId
<1>. QED BY <1>5, <1>6 DEF OwnInv

\* The next turn of an agent has a higher number than those it has been asked in.
LEMMA StartTurnOwn ==
  ASSUME IInv, OwnInv, NEW a \in Agent, StartTurn(a)
  PROVE  OwnInv'
<1>1. /\ turns \in [Agent -> Nat] /\ \A r \in Request : origin[r].turn \in Nat
      /\ running \in [Agent -> BOOLEAN]
  BY DEF IInv, KernelInvariant, TypeOK
<1>2. /\ turns' = [turns EXCEPT ![a] = @ + 1] /\ running' = [running EXCEPT ![a] = TRUE]
      /\ answer' = answer /\ origin' = origin
  BY DEF StartTurn
<1>3. AskedInTurn'
  BY <1>1, <1>2 DEF OwnInv, AskedInTurn, asked
<1>4. CancelledByItsOwnTurn'
  <2> SUFFICES ASSUME NEW r \in Request, answer[r] = "turn_ended"
               PROVE  ~running'[origin[r].agent] \/ origin[r].turn < turns'[origin[r].agent] - 1
    BY <1>2 DEF CancelledByItsOwnTurn, turnId
  <2>1. origin[r].agent \in Agent /\ origin[r].turn < turns[origin[r].agent]
    BY DEF OwnInv, AskedInTurn
  <2>2. CASE origin[r].agent = a
    BY <1>1, <1>2, <2>1, <2>2
  <2>3. CASE origin[r].agent # a
    BY <1>1, <1>2, <2>1, <2>3 DEF OwnInv, CancelledByItsOwnTurn, turnId
  <2>. QED BY <2>2, <2>3
<1>. QED BY <1>2, <1>3, <1>4 DEF OwnInv, asked

LEMMA NextOwn == IInv /\ OwnInv /\ NumbersDiffer /\ [Next]_vars => OwnInv'
<1> SUFFICES ASSUME IInv, OwnInv, NumbersDiffer, [Next]_vars PROVE OwnInv'
  OBVIOUS
<1>1. ASSUME NEW r \in Request, NEW a \in Agent, NEW k \in KindsOf[r], Ask(a, r, k) PROVE OwnInv'
  BY <1>1, AskOwn
<1>2. ASSUME NEW r \in Request, NEW response \in {"user", "null"},
             Respond(r, response) \/ StopTask(r) PROVE OwnInv'
  BY <1>2, ResolveOwn DEF Respond, StopTask, agentVars
<1>3. ASSUME NEW a \in Agent, StartTurn(a) PROVE OwnInv'
  BY <1>3, StartTurnOwn
<1>4. ASSUME NEW a \in Agent, AbortTurn(a) \/ StopAllOnExit(a) PROVE OwnInv'
  <2>1. PICK more \in SUBSET Request : abortSignal(a, more)
    BY <1>4 DEF AbortTurn, StopAllOnExit
  <2>2. /\ resolve(dismissedByAbort(a) \union more, "null", leftByAbort(a))
        /\ dismissedByAbort(a) \in SUBSET Request /\ leftByAbort(a) \in SUBSET Request
    BY <2>1 DEF abortSignal, dismissedByAbort, leftByAbort
  <2>3. dismissedByAbort(a) \union more \in SUBSET Request /\ UNCHANGED <<turns, running>>
    BY <1>4, <2>2 DEF AbortTurn, StopAllOnExit
  <2>. QED BY <2>2, <2>3, ResolveOwn
<1>5. ASSUME NEW a \in Agent, EndTurn(a) PROVE OwnInv'
  BY <1>5, EndTurnOwn
<1>6. CASE (\E a \in Agent : RemoveAgent(a) \/ DisposeScope(a)) \/ Attach \/ UNCHANGED vars
  <2>1. UNCHANGED <<turns, running, origin, answer>>
    BY <1>6 DEF RemoveAgent, DisposeScope, Attach, vars, agentVars
  <2>. QED BY <2>1 DEF OwnInv, AskedInTurn, CancelledByItsOwnTurn, asked, turnId
<1>. QED BY <1>1, <1>2, <1>3, <1>4, <1>5, <1>6 DEF Next

\* As long as no two agents run turns of the same number, the end of a turn cancels
\* its own requests only: cancelPendingForTurn, which asks for the number alone.
THEOREM OwnTurnCancels == Spec /\ []NumbersDiffer => []CancelledByItsOwnTurn
<1>1. Spec => []IInv
  BY InitInv, NextInv, PTL DEF Spec
<1>2. OwnInv => CancelledByItsOwnTurn
  BY DEF OwnInv
<1>. QED BY <1>1, <1>2, InitOwn, NextOwn, PTL DEF Spec

\* So it is in a session with one agent.
THEOREM LoneAgentCancelsItsOwn ==
  ASSUME \A a, b \in Agent : a = b
  PROVE  Spec => []CancelledByItsOwnTurn
<1>1. NumbersDiffer
  BY DEF NumbersDiffer
<1>. QED BY <1>1, OwnTurnCancels, PTL
=============================================================================
