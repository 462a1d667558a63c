--------------------------- MODULE Interactions ---------------------------
(***************************************************************************)
(* Approvals and questions: the agents of one session park requests in one *)
(* kernel, the user answers them, and the end of a turn cancels what the    *)
(* turn left behind.  Models interactionService.ts with its callers: the    *)
(* approval and question services, AskUserQuestion with its background      *)
(* mode, the subscription and the removal in agentLifecycleService.ts, and  *)
(* the bridge of sessionEventBroadcaster.ts that announces interactions to   *)
(* clients.                                                                 *)
(*                                                                         *)
(* Every agent numbers its turns from 0.  A background question is asked by *)
(* a task that outlives the turn.  The window in which a resolved id is      *)
(* remembered is left out.  Operators named _bug are faulty variants.        *)
(***************************************************************************)
EXTENDS Naturals, Sequences

CONSTANTS
  Agent,    \* the agents of the session
  Request,  \* the interactions that may be requested
  KindsOf,  \* the kinds that each may have
  None,     \* no agent
  MaxTurns  \* bound on the turns of an agent

Kinds == {"approval", "question", "background"}

ASSUME InteractionAssumption ==
  /\ KindsOf \in [Request -> SUBSET Kinds]
  /\ None \notin Agent

VARIABLES
  handle,   \* live; or, in remove: removed from the handles, stopping, gone
  turns,    \* how many turns the agent has started
  running,  \* the last of them is running
  aborted,  \* and its signal is aborted
  pending,  \* the keys of the kernel's pending map
  kind,     \* the kind of each request
  origin,   \* origin of each request: agent and turn number
  waiter,   \* who awaits the answer: the tool call, its task, or nobody
  answer,   \* the response the request was resolved with
  wire,     \* the records on the wire of each agent, by interaction
  attached, \* the broadcaster follows the session
  known,    \* its knownInteractions
  events    \* the events it has announced, by interaction

agentVars == <<handle, turns, running, aborted>>
bridgeVars == <<attached, known, events>>
vars == <<agentVars, pending, kind, origin, waiter, answer, wire, bridgeVars>>

Records == Seq({"request", "resolved"})

TypeOK ==
  /\ handle \in [Agent -> {"live", "removed", "stopping", "gone"}]
  /\ turns \in [Agent -> Nat]
  /\ running \in [Agent -> BOOLEAN]
  /\ aborted \in [Agent -> BOOLEAN]
  /\ pending \in SUBSET Request
  /\ kind \in [Request -> Kinds \union {"none"}]
  /\ origin \in [Request -> [agent : Agent \union {None}, turn : Nat]]
  /\ waiter \in [Request -> {"none", "tool", "task"}]
  /\ answer \in [Request -> {"none", "user", "null", "turn_ended"}]
  /\ wire \in [Agent -> [Request -> Records]]
  /\ attached \in BOOLEAN
  /\ known \in SUBSET Request
  /\ events \in [Request -> Records]

Init ==
  /\ handle = [a \in Agent |-> "live"]
  /\ turns = [a \in Agent |-> 0]
  /\ running = [a \in Agent |-> FALSE]
  /\ aborted = [a \in Agent |-> FALSE]
  /\ pending = {}
  /\ kind = [r \in Request |-> "none"]
  /\ origin = [r \in Request |-> [agent |-> None, turn |-> 0]]
  /\ waiter = [r \in Request |-> "none"]
  /\ answer = [r \in Request |-> "none"]
  /\ wire = [a \in Agent |-> [r \in Request |-> << >>]]
  /\ attached = FALSE /\ known = {} /\ events = [r \in Request |-> << >>]

----------------------------------------------------------------------------
(* The kernel *)

turnId(a) == turns[a] - 1  \* of the turn that runs
asked(r) == origin[r].agent # None
ofTurn(r, a) == asked(r) /\ origin[r] = [agent |-> a, turn |-> turnId(a)]

appendEach(log, type, rs) ==
  [r \in Request |-> IF r \in rs THEN Append(log[r], type) ELSE log[r]]

journalOf(r) == origin'[r].agent

\* originWire: the wire of the origin agent, while the handles have it.
journals(a) == handle[a] = "live"

\* recordRequest or recordResolved for each of rs.
record(type, rs) ==
  wire' = [a \in Agent |->
             IF journals(a) THEN appendEach(wire[a], type, {r \in rs : journalOf(r) = a})
                            ELSE wire[a]]

announces_bug(rs) == {}  \* no onDidResolve

\* The resolutions that onDidResolve brings to the bridge.
announces(rs) == rs \intersect known

entries_bug(rs) == {r \in rs : asked(r)}  \* without asking the map

\* The entries that the pending map has for rs.
entries(rs) == rs \intersect pending

released_bug(rs) == {}  \* entry.resolve is forgotten

\* The callers whose promise is resolved.
released(rs) == rs

\* The requests of rs that are pending are resolved with a response: respond
\* for one, which does nothing for an id that is not pending, and
\* cancelPendingForTurn for several.  leaving are callers that give up waiting.
resolve(rs, response, leaving) ==
  LET hit == entries(rs) IN
  /\ pending' = pending \ hit
  /\ answer' = [r \in Request |-> IF r \in hit THEN response ELSE answer[r]]
  /\ waiter' = [r \in Request |-> IF r \in released(hit) \union leaving THEN "none" ELSE waiter[r]]
  /\ UNCHANGED <<kind, origin, attached>>
  /\ record("resolved", hit)
  /\ known' = known \ announces(hit)
  /\ events' = appendEach(events, "resolved", announces(hit))

\* park: the request of a tool call, or of its task, in the turn that runs.
\* A question whose signal is aborted would be dismissed at once, and no tool
\* asks after the abort.
Ask(a, r, k) ==
  /\ running[a] /\ ~aborted[a]
  /\ ~asked(r)
  /\ kind' = [kind EXCEPT ![r] = k]
  /\ pending' = pending \union {r}
  /\ origin' = [origin EXCEPT ![r] = [agent |-> a, turn |-> turnId(a)]]
  /\ waiter' = [waiter EXCEPT ![r] = IF k = "background" THEN "task" ELSE "tool"]
  /\ record("request", {r})
  /\ \/ /\ attached
        /\ known' = known \union {r}
        /\ events' = appendEach(events, "request", {r})
     \/ ~attached /\ UNCHANGED <<known, events>>
  /\ UNCHANGED <<agentVars, answer, attached>>

\* decide, answer or dismiss by the user, in time or late; dismiss resolves
\* with null.
Respond(r, response) ==
  /\ asked(r)
  /\ response = "null" => kind[r] # "approval"
  /\ resolve({r}, response, {})
  /\ UNCHANGED agentVars

\* TaskStop of a background question: its signal dismisses the question.
StopTask(r) ==
  /\ waiter[r] = "task"
  /\ resolve({r}, "null", {})
  /\ UNCHANGED agentVars

----------------------------------------------------------------------------
(* Turns *)

StartTurn(a) ==
  /\ handle[a] = "live" /\ ~running[a] /\ turns[a] < MaxTurns
  /\ turns' = [turns EXCEPT ![a] = @ + 1]
  /\ running' = [running EXCEPT ![a] = TRUE]
  /\ aborted' = [aborted EXCEPT ![a] = FALSE]
  /\ UNCHANGED <<handle, pending, kind, origin, waiter, answer, wire, bridgeVars>>

\* A foreground question follows the turn's signal.
dismissedByAbort(a) == {r \in Request : ofTurn(r, a) /\ kind[r] = "question"}

leftByAbort_bug(a) == {}  \* not raced against the signal

\* An approval is only raced against the signal: its caller leaves and the
\* kernel keeps the entry.
leftByAbort(a) == {r \in Request : ofTurn(r, a) /\ kind[r] = "approval"}

abortSignal(a, andDismiss) ==
  /\ aborted' = [aborted EXCEPT ![a] = TRUE]
  /\ resolve(dismissedByAbort(a) \union andDismiss, "null", leftByAbort(a))

AbortTurn(a) ==
  /\ running[a] /\ ~aborted[a]
  /\ abortSignal(a, {})
  /\ UNCHANGED <<handle, turns, running>>

cancelPendingForTurn_bug(turn) == {}  \* no subscription

\* The interactions that the end of a turn with this number cancels, whichever
\* agent asked for them.
cancelPendingForTurn(turn) == {r \in Request : asked(r) /\ origin[r].turn = turn}

\* A turn ends when no tool call of it waits any more; turn.ended reaches the
\* session through the subscription on the agent's bus.
EndTurn(a) ==
  /\ running[a]
  /\ \A r \in Request : ofTurn(r, a) => waiter[r] # "tool"
  /\ running' = [running EXCEPT ![a] = FALSE]
  /\ UNCHANGED <<handle, turns, aborted>>
  /\ resolve(cancelPendingForTurn(turnId(a)), "turn_ended", {})

----------------------------------------------------------------------------
(* Removal of an agent, and the bridge *)

\* remove: the handle goes first, then every task is asked to stop, the turn is
\* cancelled, and once the loop has settled the scope is disposed.
RemoveAgent(a) ==
  /\ handle[a] = "live"
  /\ handle' = [handle EXCEPT ![a] = "removed"]
  /\ UNCHANGED <<turns, running, aborted, pending, kind, origin, waiter, answer, wire, bridgeVars>>

StopAllOnExit(a) ==
  /\ handle[a] = "removed"
  /\ handle' = [handle EXCEPT ![a] = "stopping"]
  /\ abortSignal(a, {r \in Request : origin[r].agent = a /\ waiter[r] = "task"})
  /\ UNCHANGED <<turns, running>>

DisposeScope(a) ==
  /\ handle[a] = "stopping" /\ ~running[a]
  /\ handle' = [handle EXCEPT ![a] = "gone"]
  /\ UNCHANGED <<turns, running, aborted, pending, kind, origin, waiter, answer, wire, bridgeVars>>

\* attachInteractions: what is pending already is known without an event.
Attach ==
  /\ ~attached
  /\ attached' = TRUE
  /\ known' = pending
  /\ UNCHANGED <<agentVars, pending, kind, origin, waiter, answer, wire, events>>

Next ==
  \/ \E r \in Request :
       \/ \E a \in Agent, k \in KindsOf[r] : Ask(a, r, k)
       \/ \E response \in {"user", "null"} : Respond(r, response)
       \/ StopTask(r)
  \/ \E a \in Agent : StartTurn(a) \/ AbortTurn(a) \/ EndTurn(a)
                      \/ RemoveAgent(a) \/ StopAllOnExit(a) \/ DisposeScope(a)
  \/ Attach

Spec == Init /\ [][Next]_vars

\* A turn whose tools have returned ends, and remove goes through its awaits.
\* The user owes nobody an answer.
Fairness ==
  \A a \in Agent : WF_vars(EndTurn(a)) /\ WF_vars(StopAllOnExit(a)) /\ WF_vars(DisposeScope(a))

FairSpec == Spec /\ Fairness

----------------------------------------------------------------------------
(* Properties *)

\* Whoever waits, waits for something the user can still answer; what is not
\* pending any more has one response.
WaitersArePending ==
  \A r \in Request :
    /\ waiter[r] # "none" => r \in pending
    /\ r \in pending <=> asked(r) /\ answer[r] = "none"

\* Nothing is left for a user to answer in vain: an approval or a question that a
\* tool call awaits is pending only while its turn runs, though its caller may have
\* left after an abort; and nothing of an agent that is gone is pending.  Background
\* questions are free to outlive their turn: askUserQuestionTool.ts:76 says "The
\* answer arrives automatically in a later turn", though cancelPendingForTurn ends
\* them with their turn all the same.
NothingLeftBehind ==
  \A r \in pending :
    LET a == origin[r].agent IN
    /\ kind[r] # "background" => running[a] /\ origin[r].turn = turnId(a)
    /\ handle[a] # "gone"

\* Clients are told of every interaction once and of its end once, in this
\* order, and what the bridge takes for open is what is open.
BridgeFollowsKernel ==
  attached =>
    /\ known = pending
    /\ \A r \in Request :
         events[r] \in IF r \in pending THEN {<< >>, <<"request">>}
                      ELSE {<< >>, <<"resolved">>, <<"request", "resolved">>}

\* The journal of an agent has its own interactions only, each at most once,
\* and no resolution without its request before it.
JournalIsWellFormed ==
  \A a \in Agent, r \in Request :
    /\ wire[a][r] \in {<< >>, <<"request">>, <<"request", "resolved">>}
    /\ wire[a][r] # << >> => origin[r].agent = a

\* The three views of a request agree: whoever waits is in the map, and the journal
\* of the agent that asked has it once, requested before resolved.
KernelInvariant == TypeOK /\ WaitersArePending /\ JournalIsWellFormed

\* A late answer, a second client or the end of the turn never replaces a
\* response that was given.
AnsweredOnce ==
  [][\A r \in Request : answer[r] # "none" => answer'[r] = answer[r]]_vars

\* Removing an agent terminates, whatever it waits for.
RemoveReturns == \A a \in Agent : handle[a] = "removed" ~> handle[a] = "gone"

\* "cancelPendingForTurn clears pending interactions whose turn has ended"
\* (interaction.test.ts:169): an interaction is cancelled by the end of its
\* own turn, not by another agent's turn with the same number.
CancelledByItsOwnTurn ==
  \A r \in Request :
    answer[r] = "turn_ended" =>
      LET a == origin[r].agent IN ~running[a] \/ origin[r].turn < turnId(a)
=============================================================================
