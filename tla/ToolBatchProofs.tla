---------------------------- MODULE ToolBatchProofs ----------------------------
(***************************************************************************)
(* For every number of calls and every symmetric conflict relation: the    *)
(* scheduler runs conflicting calls one after the other in provider order, *)
(* and a queued call always waits for a call that is not over.  The batch  *)
(* uses it as its specification says.  Tools that may disturb each other   *)
(* never run at the same time, tools left behind after an abort included:  *)
(* the scheduler stops waiting for a call only after the abort, and then   *)
(* no tool begins any more.  And every call is answered with its own       *)
(* result, a duplicate with that of its original.                          *)
(***************************************************************************)
EXTENDS ToolBatch, QueueTheorems, TLAPS

(* The scheduler. *)

IInv == SchedulerTypeOK /\ AddedTogether /\ ConflictsInOrder /\ NoMissedStart

LEMMA InitEstablishes == SchedulerInit => IInv
BY DEF SchedulerInit, IInv, SchedulerTypeOK, AddedTogether, ConflictsInOrder, NoMissedStart,
       Statuses, Calls

\* Symmetry, for two calls.
LEMMA ConflictsSymmetric ==
    ASSUME SchedulerTypeOK, NEW c \in Calls, NEW d \in Calls
    PROVE  Conflicts(c, d) \in BOOLEAN /\ Conflicts(c, d) = Conflicts(d, c)
BY ConflictSymmetric DEF SchedulerTypeOK, Conflicts

LEMMA DeclarePreserves ==
    ASSUME IInv, NEW f \in Calls, Declare(f)
    PROVE  IInv'
<1>1. \A c \in Calls : status[c] = "new"
  BY DEF IInv, AddedTogether, Declare
<1>2. SchedulerTypeOK'
  BY DEF IInv, SchedulerTypeOK, Declare
<1>3. (AddedTogether /\ ConflictsInOrder /\ NoMissedStart)'
  BY <1>1 DEF Declare, AddedTogether, ConflictsInOrder, NoMissedStart
<1> QED BY <1>2, <1>3 DEF IInv

LEMMA AddAllPreserves ==
    ASSUME IInv, AddAll
    PROVE  IInv'
<1>1. SchedulerTypeOK'
  BY DEF IInv, AddAll, SchedulerTypeOK, Statuses
<1>2. \A c \in Calls : status'[c] = IF BlockedWhenAdded(c) THEN "queued" ELSE "active"
  BY DEF AddAll
<1>3. AddedTogether'
  BY <1>2 DEF AddedTogether
<1>4. ConflictsInOrder'
  <2> SUFFICES ASSUME NEW c \in Calls, NEW d \in Calls, c < d, Conflicts(c, d),
                      status'[d] \in {"active", "done"}
               PROVE  FALSE
    BY DEF ConflictsInOrder, AddAll, Conflicts
  <2>1. Conflicts(d, c)
    BY ConflictsSymmetric DEF IInv
  <2>2. BlockedWhenAdded(d)
    BY <2>1 DEF BlockedWhenAdded
  <2> QED BY <1>2, <2>2
<1>5. NoMissedStart'
  <2> SUFFICES ASSUME NEW d \in Calls, status'[d] = "queued"
               PROVE  \E c \in Calls : /\ c < d /\ Conflicts(c, d)
                                       /\ status'[c] \in {"active", "queued"}
    BY DEF NoMissedStart, AddAll, Conflicts
  <2>1. BlockedWhenAdded(d)
    BY <1>2
  <2>2. PICK c \in Calls : c < d /\ Conflicts(d, c)
    BY <2>1 DEF BlockedWhenAdded
  <2>3. Conflicts(c, d)
    BY <2>2, ConflictsSymmetric DEF IInv
  <2> QED BY <1>2, <2>2, <2>3
<1> QED BY <1>1, <1>3, <1>4, <1>5 DEF IInv

LEMMA FinishPreserves ==
    ASSUME IInv, NEW f \in Calls, Finish(f)
    PROVE  IInv'
<1> DEFINE Starts(c) == status[c] = "queued" /\ ~BlockedAfter(f, c)
<1>1. \A c \in Calls : status'[c] = IF c = f THEN "done"
                                    ELSE IF Starts(c) THEN "active" ELSE status[c]
  BY DEF Finish
<1>2. accesses' = accesses /\ status[f] = "active"
  BY DEF Finish
<1>3. SchedulerTypeOK'
  BY DEF IInv, Finish, SchedulerTypeOK, Statuses
<1>4. AddedTogether'
  BY <1>1, <1>2 DEF IInv, AddedTogether
<1>5. ConflictsInOrder'
  <2> SUFFICES ASSUME NEW c \in Calls, NEW d \in Calls, c < d, Conflicts(c, d),
                      status'[d] \in {"active", "done"}
               PROVE  status'[c] = "done"
    BY <1>2 DEF ConflictsInOrder, Conflicts
  <2>1. CASE status[d] \in {"active", "done"}
    <3>1. status[c] = "done"
      BY <2>1 DEF IInv, ConflictsInOrder
    <3> QED BY <1>1, <3>1
  <2>2. CASE status[d] \notin {"active", "done"}
    <3>1. Starts(d)
      BY <1>1, <1>2, <2>2
    <3>2. Conflicts(d, c)
      BY ConflictsSymmetric DEF IInv
    <3>3. CASE c = f
      BY <1>1, <3>3
    <3>4. CASE c # f
      <4>1. status[c] \notin {"active", "queued"}
        BY <3>1, <3>2, <3>4 DEF BlockedAfter
      <4>2. status[c] # "new"
        BY <1>2 DEF IInv, AddedTogether
      <4>3. status[c] = "done"
        BY <4>1, <4>2 DEF IInv, SchedulerTypeOK, Statuses
      <4> QED BY <1>1, <4>3
    <3> QED BY <3>3, <3>4
  <2> QED BY <2>1, <2>2
<1>6. NoMissedStart'
  <2> SUFFICES ASSUME NEW d \in Calls, status'[d] = "queued"
               PROVE  \E c \in Calls : /\ c < d /\ Conflicts(c, d)
                                       /\ status'[c] \in {"active", "queued"}
    BY <1>2 DEF NoMissedStart, Conflicts
  <2>1. status[d] = "queued" /\ BlockedAfter(f, d)
    BY <1>1
  <2>2. PICK c \in Calls \ {f} : /\ status[c] = "active" \/ (status[c] = "queued" /\ c < d)
                                 /\ Conflicts(d, c)
    BY <2>1 DEF BlockedAfter
  <2>3. Conflicts(c, d)
    BY <2>2, ConflictsSymmetric DEF IInv
  \* A running call that conflicts with a queued one comes before it.
  <2>4. c < d
    <3>1. c \in Nat /\ d \in Nat /\ c # d
      BY <2>1, <2>2 DEF Calls
    <3>2. CASE status[c] = "active"
      <4>1. ~(d < c)
        BY <2>1, <2>2, <3>2 DEF IInv, ConflictsInOrder
      <4> QED BY <3>1, <4>1
    <3> QED BY <2>2, <3>2
  <2>5. status'[c] \in {"active", "queued"}
    BY <1>1, <2>2
  <2> QED BY <2>3, <2>4, <2>5
<1> QED BY <1>3, <1>4, <1>5, <1>6 DEF IInv

LEMMA NextPreserves == IInv /\ [SchedulerNext]_schedulerVars => IInv'
<1> SUFFICES ASSUME IInv, [SchedulerNext]_schedulerVars PROVE IInv'
  OBVIOUS
<1>1. CASE AddAll
  BY <1>1, AddAllPreserves
<1>2. CASE \E c \in Calls : Declare(c)
  BY <1>2, DeclarePreserves
<1>3. CASE \E c \in Calls : Finish(c)
  BY <1>3, FinishPreserves
<1>4. CASE UNCHANGED schedulerVars
  BY <1>4 DEF IInv, SchedulerTypeOK, AddedTogether, ConflictsInOrder, NoMissedStart,
              Conflicts, schedulerVars
<1> QED BY <1>1, <1>2, <1>3, <1>4 DEF SchedulerNext

LEMMA SchedulerInvariant == SchedulerSpec => []IInv
BY InitEstablishes, NextPreserves, PTL DEF SchedulerSpec

\* Conflicting calls never overlap and take effect in provider order: add,
\* isBlocked, finish and startQueuedTasks.
THEOREM SchedulerKeepsOrder == SchedulerSpec => []ConflictsInOrder
<1>1. IInv => ConflictsInOrder
  BY DEF IInv
<1> QED BY <1>1, SchedulerInvariant, PTL

\* The scan on finish starts every call that can start.
THEOREM SchedulerMissesNoStart == SchedulerSpec => []NoMissedStart
<1>1. IInv => NoMissedStart
  BY DEF IInv
<1> QED BY <1>1, SchedulerInvariant, PTL

-----------------------------------------------------------------------------
(* The conflict relation the scheduler is used with. *)

\* Two paths above the same path are one above the other.
LEMMA PrefixesComparable ==
    ASSUME NEW Names, NEW p \in Seq(Names), NEW a \in Seq(Names), NEW b \in Seq(Names),
           IsPrefix(a, p), IsPrefix(b, p)
    PROVE  IsPrefix(a, b) \/ IsPrefix(b, a)
<1>1. \A i \in 1..Len(a) : a[i] = p[i]
  BY DEF IsPrefix
<1>2. \A i \in 1..Len(b) : b[i] = p[i]
  BY DEF IsPrefix
<1>3. CASE Len(a) <= Len(b)
  <2>1. SubSeq(a, 1, Len(a)) = SubSeq(b, 1, Len(a))
    BY <1>1, <1>2, <1>3
  <2> QED BY <1>3, <2>1 DEF IsPrefix
<1>4. CASE Len(b) <= Len(a)
  <2>1. SubSeq(b, 1, Len(b)) = SubSeq(a, 1, Len(b))
    BY <1>1, <1>2, <1>4
  <2> QED BY <1>4, <2>1 DEF IsPrefix
<1> QED BY <1>3, <1>4

\* Calls whose accesses do not conflict are independent: neither may write what the
\* other may touch (resourceAccessesConflict, fileAccessesOverlap).
THEOREM NoConflictMeansIndependent ==
    ASSUME NEW Names, Paths \subseteq Seq(Names),
           NEW left \in SUBSET AccessType, NEW right \in SUBSET AccessType,
           ~conflict(left, right)
    PROVE  Independent(left, right)
<1> SUFFICES ASSUME NEW l \in left, NEW r \in right, MayWrite(l) \/ MayWrite(r),
                    NEW p \in Touches(l) \cap Touches(r)
             PROVE  FALSE
  BY DEF Independent
<1>1. ~resourceAccessesConflict(l, r)
  BY DEF conflict
<1>2. l.kind # "all" /\ r.kind # "all"
  BY <1>1 DEF resourceAccessesConflict
<1>3. /\ l \in [kind : {"file"}, operation : Operations, path : Paths, recursive : BOOLEAN]
      /\ r \in [kind : {"file"}, operation : Operations, path : Paths, recursive : BOOLEAN]
  BY <1>2 DEF AccessType, All
<1>4. fileOperationWrites(l.operation) \/ fileOperationWrites(r.operation)
  BY <1>2 DEF MayWrite
<1>5. ~fileAccessesOverlap(l, r)
  BY <1>1, <1>4 DEF resourceAccessesConflict
<1>6. p \in Seq(Names) /\ l.path \in Seq(Names) /\ r.path \in Seq(Names)
  BY <1>3 DEF Touches
<1>7. p = l.path \/ (l.recursive /\ IsPrefix(l.path, p))
  BY <1>2 DEF Touches
<1>8. p = r.path \/ (r.recursive /\ IsPrefix(r.path, p))
  BY <1>2 DEF Touches
<1>9. CASE p = l.path \/ p = r.path
  BY <1>5, <1>7, <1>8, <1>9 DEF fileAccessesOverlap
<1>10. CASE p # l.path /\ p # r.path
  <2>1. IsPrefix(l.path, r.path) \/ IsPrefix(r.path, l.path)
    BY <1>6, <1>7, <1>8, <1>10, PrefixesComparable
  <2> QED BY <1>5, <1>7, <1>8, <1>10, <2>1 DEF fileAccessesOverlap
<1> QED BY <1>9, <1>10

\* The converse: calls that conflict really may disturb each other, so the scheduler
\* makes no call wait for one that it could run beside (resourceAccessesConflict,
\* fileAccessesOverlap).
THEOREM ConflictMeansDependent ==
    ASSUME NEW Names, Paths \subseteq Seq(Names), Paths # {},
           NEW left \in SUBSET AccessType, NEW right \in SUBSET AccessType,
           conflict(left, right)
    PROVE  ~Independent(left, right)
<1>1. PICK l \in left, r \in right : resourceAccessesConflict(l, r)
  BY DEF conflict
<1>2. MayWrite(l) \/ MayWrite(r)
  BY <1>1 DEF resourceAccessesConflict, MayWrite
<1>3. \A a \in AccessType : Touches(a) # {} /\ (a.kind = "all" => Touches(a) = Paths)
  <2> SUFFICES ASSUME NEW a \in AccessType
               PROVE  Touches(a) # {} /\ (a.kind = "all" => Touches(a) = Paths)
    OBVIOUS
  <2>1. CASE a = All
    BY <2>1 DEF All, Touches
  <2>2. CASE a # All
    <3>1. a.kind = "file" /\ a.path \in Paths
      BY <2>2 DEF AccessType
    <3> QED BY <3>1 DEF Touches
  <2> QED BY <2>1, <2>2
<1>4. Touches(l) \subseteq Paths /\ Touches(r) \subseteq Paths
  BY DEF Touches
<1>5. CASE l.kind = "all" \/ r.kind = "all"
  <2>1. l \in AccessType /\ r \in AccessType
    OBVIOUS
  <2>2. Touches(l) \cap Touches(r) # {}
    BY <1>3, <1>4, <1>5, <2>1
  <2> QED BY <1>2, <2>2 DEF Independent
<1>6. CASE l.kind # "all" /\ r.kind # "all"
  <2>1. l.path \in Paths /\ r.path \in Paths
    BY <1>6 DEF AccessType, All
  <2>2. fileAccessesOverlap(l, r)
    BY <1>1, <1>6 DEF resourceAccessesConflict
  <2>3. CASE l.path = r.path \/ (l.recursive /\ IsPrefix(l.path, r.path))
    <3>1. r.path \in Touches(l) \cap Touches(r)
      BY <1>6, <2>1, <2>3 DEF Touches
    <3> QED BY <1>2, <3>1 DEF Independent
  <2>4. CASE r.recursive /\ IsPrefix(r.path, l.path)
    <3>1. l.path \in Touches(l) \cap Touches(r)
      BY <1>6, <2>1, <2>4 DEF Touches
    <3> QED BY <1>2, <3>1 DEF Independent
  <2> QED BY <2>2, <2>3, <2>4 DEF fileAccessesOverlap
<1> QED BY <1>5, <1>6

-----------------------------------------------------------------------------
(* The batch: what runs. *)

\* Before the batch is handed over nothing runs.
PreparingRunsNothing ==
    phase = "prepare" => executing = {} /\ \A c \in Calls : status[c] = "new"

\* As long as the turn is not aborted, every running tool is waited for.
RunningIsActive ==
    /\ executing \subseteq Calls
    /\ \A c \in executing : status[c] \in {"active", "done"}
    /\ ~aborted => \A c \in executing : status[c] = "active"

NoConflictRuns == \A c, d \in executing : c # d => ~Conflicts(c, d)

BInv == IInv /\ PreparingRunsNothing /\ RunningIsActive /\ NoConflictRuns

LEMMA BatchInit == Init => BInv
<1> SUFFICES ASSUME Init PROVE BInv
  OBVIOUS
<1>1. SchedulerTypeOK
  BY BatchAssumption DEF Init, SchedulerTypeOK, Statuses
<1>2. AddedTogether /\ ConflictsInOrder /\ NoMissedStart
  BY DEF Init, AddedTogether, ConflictsInOrder, NoMissedStart
<1> QED BY <1>1, <1>2 DEF Init, BInv, IInv, PreparingRunsNothing, RunningIsActive,
                          NoConflictRuns

\* Steps of the preparation change what calls will touch, and run nothing.
LEMMA PreparingPreserves ==
    ASSUME BInv, phase = "prepare", accesses' \in [Calls -> Accesses],
           status' = status, executing' = executing, aborted' = aborted
    PROVE  BInv'
<1>1. executing = {} /\ \A c \in Calls : status[c] = "new"
  BY DEF BInv, PreparingRunsNothing
<1>2. SchedulerTypeOK'
  BY DEF BInv, IInv, SchedulerTypeOK
<1>3. (AddedTogether /\ ConflictsInOrder /\ NoMissedStart)'
  BY <1>1 DEF AddedTogether, ConflictsInOrder, NoMissedStart
<1> QED BY <1>1, <1>2, <1>3 DEF BInv, IInv, PreparingRunsNothing, RunningIsActive,
                                NoConflictRuns

\* Steps that concern neither the scheduler nor what runs.
LEMMA ElsewherePreserves ==
    ASSUME BInv, UNCHANGED <<schedulerVars, executing>>, phase' = phase,
           aborted' = aborted \/ aborted' = TRUE
    PROVE  BInv'
<1>1. IInv'
  BY DEF BInv, IInv, schedulerVars, SchedulerTypeOK, AddedTogether, ConflictsInOrder,
         NoMissedStart, Conflicts
<1> QED BY <1>1 DEF BInv, schedulerVars, PreparingRunsNothing, RunningIsActive,
                    NoConflictRuns, Conflicts

\* Two calls that are both active do not conflict.
LEMMA ActiveDoNotConflict ==
    ASSUME IInv', NEW c \in Calls, NEW d \in Calls, c # d,
           status'[c] = "active", status'[d] = "active"
    PROVE  ~Conflicts(c, d)'
<1>1. c < d \/ d < c
  BY DEF Calls
<1>2. Conflicts(c, d)' = Conflicts(d, c)'
  BY ConflictSymmetric DEF IInv, SchedulerTypeOK, Conflicts
<1> QED BY <1>1, <1>2 DEF IInv, ConflictsInOrder

\* executeBatch: what begins is active.
LEMMA ExecuteBatchPreserves == BInv /\ ExecuteBatch => BInv'
<1> SUFFICES ASSUME BInv, ExecuteBatch PROVE BInv'
  OBVIOUS
<1>1. IInv'
  BY AddAllPreserves DEF BInv, ExecuteBatch
<1>2. executing' = BeginsTools /\ phase' = "run" /\ aborted' = aborted
  BY DEF BInv, ExecuteBatch, PreparingRunsNothing, TaskFrame
<1>3. \A c \in executing' : c \in Calls /\ status'[c] = "active"
  BY <1>2 DEF BeginsTools, Started
<1>4. NoConflictRuns'
  <2>1. \A c, d \in Calls : c # d /\ status'[c] = "active" /\ status'[d] = "active"
                               => ~Conflicts(c, d)'
    BY <1>1, ActiveDoNotConflict
  <2> QED BY <1>3, <2>1 DEF NoConflictRuns
<1> QED BY <1>1, <1>2, <1>3, <1>4 DEF BInv, PreparingRunsNothing, RunningIsActive

\* A task ends and the scheduler starts others: what goes on running besides them is
\* what ran before, without the ended tool unless it is left behind after an abort.
LEMMA TaskEndPreserves ==
    ASSUME BInv, NEW f \in Calls, Finish(f), phase' = phase, aborted' = aborted,
           BeginsTools \subseteq executing', executing' \subseteq executing \cup BeginsTools,
           f \notin executing' \/ aborted
    PROVE  BInv'
<1>1. IInv'
  BY FinishPreserves DEF BInv
<1>2. \A c \in Calls : status'[c] = status[c] \/ status'[c] = "active" \/ c = f
  BY DEF Finish
<1>3. status'[f] = "done" /\ status[f] = "active" /\ accesses' = accesses
  BY DEF Finish
<1>4. phase # "prepare"
  BY <1>3 DEF BInv, PreparingRunsNothing
<1>5. \A c \in BeginsTools : c \in Calls /\ status'[c] = "active" /\ ~aborted
  BY DEF BeginsTools, Started
<1>6. RunningIsActive'
  <2>1. \A c \in executing' : c \in Calls /\ status'[c] \in {"active", "done"}
    BY <1>2, <1>3, <1>5 DEF BInv, RunningIsActive
  <2>2. ~aborted => \A c \in executing' : status'[c] = "active"
    BY <1>2, <1>3, <1>5 DEF BInv, RunningIsActive
  <2> QED BY <2>1, <2>2 DEF RunningIsActive
<1>7. NoConflictRuns'
  <2>1. CASE aborted
    <3>1. executing' \subseteq executing
      BY <2>1, <1>5
    <3> QED BY <3>1, <1>3 DEF BInv, NoConflictRuns, Conflicts
  <2>2. CASE ~aborted
    <3>1. \A c \in executing' : c \in Calls /\ status'[c] = "active"
      BY <2>2, <1>6 DEF RunningIsActive
    <3> QED BY <1>1, <3>1, ActiveDoNotConflict DEF NoConflictRuns
  <2> QED BY <2>1, <2>2
<1> QED BY <1>1, <1>4, <1>6, <1>7 DEF BInv, PreparingRunsNothing

LEMMA TaskPreserves ==
    ASSUME BInv, NEW c \in Calls, Task(c)
    PROVE  BInv'
<1>1. CASE ToolReturns(c) \/ TaskResolves(c)
  <2>1. Finish(c) /\ RunSingleExecution /\ phase' = phase /\ aborted' = aborted
    BY <1>1 DEF ToolReturns, TaskResolves, TaskFrame
  <2>2. c \notin executing'
    <3>1. status[c] = "active" /\ status'[c] = "done"
      BY <2>1 DEF Finish
    <3> QED BY <2>1, <3>1 DEF RunSingleExecution, BeginsTools, Started
  <2>3. /\ BeginsTools \subseteq executing'
        /\ executing' \subseteq executing \cup BeginsTools
    BY <2>1 DEF RunSingleExecution
  <2> QED BY <2>1, <2>2, <2>3, TaskEndPreserves
<1>2. CASE GraceExpires(c)
  <2>1. /\ Finish(c) /\ phase' = phase /\ aborted' = aborted /\ aborted
        /\ executing' = executing \cup BeginsTools
    BY <1>2 DEF GraceExpires, TaskFrame
  <2> QED BY <2>1, TaskEndPreserves
<1> QED BY <1>1, <1>2 DEF Task

LEMMA LeftToolPreserves ==
    ASSUME BInv, NEW c \in Calls, LeftToolEnds(c)
    PROVE  BInv'
<1>1. /\ accesses' = accesses /\ status' = status /\ phase' = phase /\ aborted' = aborted
      /\ executing' = executing \ {c}
  BY DEF LeftToolEnds, schedulerVars
<1>2. IInv'
  BY <1>1 DEF BInv, IInv, SchedulerTypeOK, AddedTogether, ConflictsInOrder, NoMissedStart,
              Conflicts
<1> QED BY <1>1, <1>2 DEF BInv, PreparingRunsNothing, RunningIsActive, NoConflictRuns, Conflicts

LEMMA PreparePreserves ==
    ASSUME BInv, NEW c \in Calls, Prepare(c) \/ Answered(c)
    PROVE  BInv'
<1>1. accesses \in [Calls -> Accesses]
  BY DEF BInv, IInv, SchedulerTypeOK
<1> DEFINE Same == phase = "prepare" /\ status' = status /\ executing' = executing
                     /\ aborted' = aborted
<1>2. CASE PrepareSkipped(c) \/ PrepareSettled(c)
  <2>1. Same /\ accesses' = accesses
    BY <1>2 DEF PrepareSkipped, PrepareSettled, Preparing, Resolved, PrepareFrame
  <2> QED BY <1>1, <2>1, PreparingPreserves
<1>3. CASE PrepareAllowed(c)
  <2>1. Same /\ accesses' \in [Calls -> Accesses]
    BY <1>1, <1>3 DEF PrepareAllowed, Preparing, Runnable, PrepareFrame
  <2> QED BY <2>1, PreparingPreserves
<1>4. CASE PrepareChecked(c)
  <2>1. Same
    BY <1>4 DEF PrepareChecked, Preparing, PrepareFrame
  <2>2. accesses' \in [Calls -> Accesses]
    BY <1>1, <1>4 DEF PrepareChecked, Resolved, Runnable
  <2> QED BY <2>1, <2>2, PreparingPreserves
<1>5. CASE Ask(c)
  <2>1. Same /\ accesses' = accesses
    BY <1>5 DEF Ask, Preparing, PrepareFrame
  <2> QED BY <1>1, <2>1, PreparingPreserves
<1>6. CASE Answered(c)
  <2>1. Same
    BY <1>6 DEF Answered, Preparing, PrepareFrame
  <2>2. accesses' \in [Calls -> Accesses]
    BY <1>1, <1>6 DEF Answered, Resolved, Runnable
  <2> QED BY <2>1, <2>2, PreparingPreserves
<1>7. CASE ApprovalAborted(c)
  <2>1. Same /\ accesses' = accesses
    BY <1>7 DEF ApprovalAborted, Preparing, schedulerVars
  <2> QED BY <1>1, <2>1, PreparingPreserves
<1> QED BY <1>2, <1>3, <1>4, <1>5, <1>6, <1>7 DEF Prepare

LEMMA BatchNext == BInv /\ [Next]_vars => BInv'
<1> SUFFICES ASSUME BInv, [Next]_vars PROVE BInv'
  OBVIOUS
<1>1. ASSUME NEW c \in Calls, Prepare(c) \/ Answered(c) PROVE BInv'
  BY <1>1, PreparePreserves
<1>2. ASSUME NEW c \in Calls, Task(c) PROVE BInv'
  BY <1>2, TaskPreserves
<1>3. ASSUME NEW c \in Calls, LeftToolEnds(c) PROVE BInv'
  BY <1>3, LeftToolPreserves
<1>4. ASSUME NEW c \in Calls, Finalize(c) \/ DuplicateResolves(c) PROVE BInv'
  BY <1>4, ElsewherePreserves DEF Finalize, DuplicateResolves
<1>5. CASE ExecuteBatch
  BY <1>5, ExecuteBatchPreserves
<1>6. CASE Abort \/ Dispose
  BY <1>6, ElsewherePreserves DEF Abort, Dispose, AbortFrame
<1>7. CASE Over \/ UNCHANGED vars
  BY <1>7, ElsewherePreserves DEF Over, vars, batchVars
<1> QED BY <1>1, <1>2, <1>3, <1>4, <1>5, <1>6, <1>7 DEF Next, Prepare, Task

\* raceWithAbortGrace, runSingleExecution and the scheduler together: no tool runs
\* beside one that may write what it touches.
THEOREM RunningToolsAreIndependent ==
    ASSUME NEW Names, Paths \subseteq Seq(Names)
    PROVE  Spec => []ConflictingToolsNeverOverlap
<1>1. BInv => ConflictingToolsNeverOverlap
  <2> SUFFICES ASSUME BInv, NEW c \in executing, NEW d \in executing, c # d
               PROVE  Independent(accesses[c], accesses[d])
    BY DEF ConflictingToolsNeverOverlap
  <2>1. accesses[c] \in Accesses /\ accesses[d] \in Accesses
    BY DEF BInv, IInv, SchedulerTypeOK, RunningIsActive
  <2>2. ~conflict(accesses[c], accesses[d])
    BY <2>1, ConflictAssumption DEF BInv, NoConflictRuns, Conflicts
  <2> QED BY <2>1, <2>2, ConflictAssumption, NoConflictMeansIndependent
<1> QED BY <1>1, BatchInit, BatchNext, PTL DEF Spec

-----------------------------------------------------------------------------
(* The batch: how calls are answered. *)

\* Until the batch is handed over nothing has run or been answered, and a call that
\* is still to be prepared has not been found to be a duplicate.
NothingYet ==
    /\ phase # "run" =>
         /\ begun = {}
         /\ \A c \in Calls : status[c] = "new" /\ final[c] = "no" /\ raw[c] = "none"
         /\ \A k \in Keys : shared[k] = 0
    /\ phase = "prepare" => \A c \in Calls : c > prepared => check[c] # "synthetic"
    /\ phase = "prepare" /\ asking =>
         \A c \in Calls : c = prepared + 1 => check[c] = "original"

\* What runs was looked at first, unless plan mode allowed it.
RunnableIsOriginal ==
    /\ \A c \in begun : plan[c] = "run"
    /\ \A c \in Calls :
         /\ raw[c] = "ok" => plan[c] = "run"
         /\ plan[c] = "run" => c \in PlanAllows \/ check[c] = "original"
         /\ check[c] = "synthetic" /\ final[c] = "no" => plan[c] # "run"

\* A key has at most one original, and its deferred is resolved by that one.
OneOriginal ==
    /\ \A c \in Calls : check[c] = "original" => KeyOf[c] \in deferred
    /\ \A c, d \in Calls :
         check[c] = "original" /\ check[d] = "original" /\ KeyOf[c] = KeyOf[d] => c = d
    /\ \A k \in Keys :
         shared[k] # 0 => shared[k] \in Calls /\ KeyOf[shared[k]] = k
                            /\ check[shared[k]] = "original"

\* An answer is the call's own, or that of its original.
AnswersFit ==
    \A c \in Calls :
        /\ final[c] = "waiting" => check[c] = "synthetic"
        /\ final[c] = "done" =>
             \/ answer[c] = c /\ check[c] # "synthetic"
             \/ /\ check[c] = "synthetic" /\ answer[c] \in Calls
                /\ KeyOf[answer[c]] = KeyOf[c] /\ check[answer[c]] = "original"

DInv == TypeOK /\ NothingYet /\ RunnableIsOriginal /\ OneOriginal /\ AnswersFit

LEMMA DedupeInit == Init => DInv
<1> SUFFICES ASSUME Init PROVE DInv
  OBVIOUS
<1>1. TypeOK
  <2>1. SchedulerTypeOK
    BY BatchAssumption DEF Init, SchedulerTypeOK, Statuses
  <2>2. 0 \in 0..N
    BY CallsAssumption
  <2> QED BY <2>1, <2>2 DEF Init, TypeOK
<1>2. NothingYet /\ RunnableIsOriginal /\ OneOriginal /\ AnswersFit
  BY DEF Init, NothingYet, RunnableIsOriginal, OneOriginal, AnswersFit
<1> QED BY <1>1, <1>2 DEF DInv

\* Preparing the call c: it alone gets a plan, and may be looked up among the keys.
PreparesOne(c) ==
    /\ \E p \in {plan[c], "resolved", "run"} : plan' = [plan EXCEPT ![c] = p]
    /\ CheckToolCall(c) \/ UNCHANGED <<check, deferred, shared>>
    /\ \/ prepared' = c /\ asking' = FALSE
       \/ prepared' = prepared /\ asking' \in BOOLEAN /\ check'[c] = "original"
    /\ plan'[c] = "run" =>
         (c \in PlanAllows /\ check'[c] # "synthetic") \/ check'[c] = "original"
    /\ stopBatch' \in BOOLEAN /\ accesses' \in [Calls -> Accesses]
    /\ PrepareFrame

LEMMA PreparingOne ==
    ASSUME DInv, NEW c \in Calls, Preparing(c), PreparesOne(c)
    PROVE  DInv'
<1>1. TypeOK'
  <2>1. SchedulerTypeOK'
    BY DEF DInv, TypeOK, SchedulerTypeOK, PreparesOne, PrepareFrame
  <2>2. prepared' \in 0..N
    BY CallsAssumption DEF DInv, TypeOK, PreparesOne, Calls
  <2>5. stopBatch' \in BOOLEAN /\ asking' \in BOOLEAN
    BY Zenon DEF PreparesOne
  <2>3. plan' \in [Calls -> {"none", "resolved", "run"}]
    BY DEF DInv, TypeOK, PreparesOne
  <2>4. /\ check' \in [Calls -> {"none", "original", "synthetic"}]
        /\ deferred' \subseteq Keys /\ shared' \in [Keys -> 0..N]
    <3>1. CheckToolCall(c) \/ UNCHANGED <<check, deferred, shared>>
      BY DEF PreparesOne
    <3> QED BY <3>1, BatchAssumption DEF DInv, TypeOK, CheckToolCall
  <2> QED BY <2>1, <2>2, <2>3, <2>4, <2>5 DEF DInv, TypeOK, PreparesOne, PrepareFrame
<1>2. \A d \in Calls : d # c => check'[d] = check[d] /\ plan'[d] = plan[d]
  BY DEF DInv, TypeOK, PreparesOne, CheckToolCall
<1>3. \A d \in Calls : final[d] = "no" /\ final'[d] = "no" /\ raw'[d] = "none"
  BY DEF DInv, NothingYet, Preparing, PreparesOne, PrepareFrame
<1>4. /\ phase = "prepare" /\ c = prepared + 1 /\ begun' = {} /\ shared' = shared
      /\ \A k \in Keys : shared[k] = 0
  BY DEF DInv, NothingYet, Preparing, PreparesOne, PrepareFrame, CheckToolCall
<1>5. NothingYet'
  <2>1. \A d \in Calls : d > prepared' => check'[d] # "synthetic"
    <3>1. prepared' = c \/ (prepared' = prepared /\ check'[c] = "original")
      BY DEF PreparesOne
    <3>2. prepared \in Nat /\ \A d \in Calls : d > prepared => check[d] # "synthetic"
      BY <1>4, CallsAssumption DEF DInv, TypeOK, NothingYet
    <3> QED BY <1>2, <1>4, <3>1, <3>2, CallsAssumption DEF Calls
  <2>2. asking' => \A d \in Calls : d = prepared' + 1 => check'[d] = "original"
    BY <1>4 DEF PreparesOne
  <2>3. \A d \in Calls : status'[d] = "new"
    BY <1>4 DEF DInv, NothingYet, PreparesOne, PrepareFrame
  <2> QED BY <1>3, <1>4, <2>1, <2>2, <2>3 DEF NothingYet
<1>6. RunnableIsOriginal'
  BY <1>2, <1>3, <1>4 DEF DInv, RunnableIsOriginal, PreparesOne
<1>7. OneOriginal'
  <2>1. CASE CheckToolCall(c)
    <3>1. deferred' = deferred \cup {KeyOf[c]}
      BY <2>1 DEF CheckToolCall
    <3>2. check'[c] = "original" => KeyOf[c] \notin deferred
      BY <2>1 DEF CheckToolCall, DInv, TypeOK
    <3>3. \A d \in Calls : check'[d] = "original" => KeyOf[d] \in deferred'
      BY <1>2, <3>1 DEF DInv, OneOriginal
    <3>4. \A d, e \in Calls :
            check'[d] = "original" /\ check'[e] = "original" /\ KeyOf[d] = KeyOf[e] => d = e
      BY <1>2, <3>2 DEF DInv, OneOriginal
    <3> QED BY <1>4, <3>3, <3>4 DEF OneOriginal
  <2>2. CASE UNCHANGED <<check, deferred, shared>>
    BY <2>2 DEF DInv, OneOriginal
  <2> QED BY <2>1, <2>2 DEF PreparesOne
<1>8. AnswersFit'
  BY <1>3 DEF AnswersFit
<1> QED BY <1>1, <1>5, <1>6, <1>7, <1>8 DEF DInv

LEMMA PrepareAnswers ==
    ASSUME DInv, NEW c \in Calls, Prepare(c) \/ Answered(c)
    PROVE  DInv'
<1>1. accesses \in [Calls -> Accesses] /\ plan \in [Calls -> {"none", "resolved", "run"}]
        /\ stopBatch \in BOOLEAN /\ check \in [Calls -> {"none", "original", "synthetic"}]
  BY DEF DInv, TypeOK, SchedulerTypeOK
<1>2. CASE PrepareSkipped(c) \/ PrepareSettled(c)
  <2>1. Preparing(c) /\ PrepareFrame /\ UNCHANGED <<check, deferred, shared, accesses>>
    BY <1>2 DEF PrepareSkipped, PrepareSettled, Resolved
  <2>2. PICK stop \in BOOLEAN : Resolved(c, stop)
    <3>1. CASE PrepareSkipped(c)
      BY <3>1 DEF PrepareSkipped
    <3>2. CASE PrepareSettled(c)
      <4>1. PICK stop \in BOOLEAN : Resolved(c, stop /\ ~aborted)
        BY <3>2 DEF PrepareSettled
      <4>2. (stop /\ ~aborted) \in BOOLEAN
        OBVIOUS
      <4> QED BY <4>1, <4>2
    <3> QED BY <1>2, <3>1, <3>2
  <2> QED BY <1>1, <2>1, <2>2, PreparingOne DEF Resolved, PreparesOne
<1>3. CASE PrepareAllowed(c)
  <2>1. Preparing(c) /\ ~asking /\ c \in PlanAllows /\ Runnable(c, FALSE) /\ PrepareFrame
          /\ UNCHANGED <<check, deferred, shared>>
    BY <1>3 DEF PrepareAllowed
  <2>2. check[c] # "synthetic"
    <3>1. phase = "prepare" /\ c = prepared + 1 /\ prepared \in Nat
      BY <2>1, CallsAssumption DEF DInv, TypeOK, Preparing
    <3>2. \A d \in Calls : d > prepared => check[d] # "synthetic"
      BY <3>1 DEF DInv, NothingYet
    <3> QED BY <3>1, <3>2
  <2>3. accesses' \in [Calls -> Accesses]
    BY <1>1, <2>1 DEF Runnable
  <2> QED BY <1>1, <2>1, <2>2, <2>3, PreparingOne DEF Runnable, PreparesOne
<1>4. CASE PrepareChecked(c)
  <2>1. Preparing(c) /\ CheckToolCall(c) /\ PrepareFrame
    BY <1>4 DEF PrepareChecked
  <2>2. PICK stop \in BOOLEAN :
          Resolved(c, stop) \/ (check'[c] = "original" /\ Runnable(c, stop))
    BY <1>4 DEF PrepareChecked
  <2>3. accesses' \in [Calls -> Accesses]
    BY <1>1, <2>2 DEF Resolved, Runnable
  <2>4. plan'[c] = "run" => check'[c] = "original"
    BY <1>1, <2>2 DEF Resolved, Runnable
  <2> QED BY <1>1, <2>1, <2>2, <2>3, <2>4, PreparingOne DEF Resolved, Runnable, PreparesOne
<1>5. CASE Ask(c)
  <2>1. /\ Preparing(c) /\ CheckToolCall(c) /\ PrepareFrame /\ KeyOf[c] \notin deferred
        /\ asking' = TRUE /\ UNCHANGED <<accesses, plan, prepared, stopBatch>>
    BY <1>5 DEF Ask
  <2>2. check'[c] = "original"
    BY <1>1, <2>1 DEF CheckToolCall
  <2>3. plan' = [plan EXCEPT ![c] = plan[c]]
    BY <1>1, <2>1
  <2> QED BY <1>1, <2>1, <2>2, <2>3, PreparingOne DEF PreparesOne
<1>6. CASE Answered(c)
  <2>1. Preparing(c) /\ asking /\ PrepareFrame /\ UNCHANGED <<check, deferred, shared>>
    BY <1>6 DEF Answered
  <2>2. check'[c] = "original"
    BY <2>1 DEF DInv, NothingYet, Preparing
  <2>3. Runnable(c, FALSE) \/ Resolved(c, FALSE)
    BY <1>6 DEF Answered
  <2>4. accesses' \in [Calls -> Accesses]
    BY <1>1, <2>3 DEF Resolved, Runnable
  <2> QED BY <1>1, <2>1, <2>2, <2>3, <2>4, PreparingOne DEF Resolved, Runnable, PreparesOne
<1>7. CASE ApprovalAborted(c)
  <2>1. TypeOK'
    BY <1>7 DEF DInv, TypeOK, SchedulerTypeOK, schedulerVars, ApprovalAborted
  <2>2. NothingYet'
    BY <1>7 DEF DInv, NothingYet, schedulerVars, ApprovalAborted, Preparing
  <2> QED BY <1>7, <2>1, <2>2 DEF DInv, RunnableIsOriginal, OneOriginal, AnswersFit, ApprovalAborted
<1> QED BY <1>2, <1>3, <1>4, <1>5, <1>6, <1>7 DEF Prepare

\* What has begun stays runnable, and results are only of what has begun.
RunsOnly(c) ==
    /\ status' \in [Calls -> Statuses] /\ phase' = "run"
    /\ executing' \subseteq begun' /\ begun' \subseteq Calls
    /\ \A d \in begun' : plan[d] = "run"
    /\ \/ raw' = raw
       \/ c \in Calls /\ raw' = [raw EXCEPT ![c] = "error"]
       \/ c \in begun /\ raw' = [raw EXCEPT ![c] = "ok"]
    /\ accesses' = accesses /\ TaskFrame

LEMMA RunningAnswers ==
    ASSUME DInv, NEW c, RunsOnly(c)
    PROVE  DInv'
<1>1. TypeOK'
  <2>1. raw' \in [Calls -> {"none", "error", "ok"}]
    BY DEF DInv, TypeOK, RunsOnly
  <2> QED BY <2>1 DEF DInv, TypeOK, SchedulerTypeOK, RunsOnly, TaskFrame
<1>2. RunnableIsOriginal'
  BY DEF DInv, TypeOK, RunnableIsOriginal, RunsOnly, TaskFrame
<1>3. NothingYet'
  BY DEF DInv, NothingYet, RunsOnly, TaskFrame, TypeOK
<1>4. OneOriginal' /\ AnswersFit'
  BY DEF DInv, OneOriginal, AnswersFit, RunsOnly, TaskFrame
<1> QED BY <1>1, <1>2, <1>3, <1>4 DEF DInv

LEMMA ExecutionAnswers ==
    ASSUME DInv, ExecuteBatch \/ (\E c \in Calls : Task(c)) \/ (\E c \in Calls : LeftToolEnds(c))
    PROVE  DInv'
<1>1. BeginsTools \subseteq Calls /\ \A c \in BeginsTools : plan[c] = "run"
  BY DEF BeginsTools, Started
<1>2. executing \subseteq begun /\ begun \subseteq Calls /\ \A d \in begun : plan[d] = "run"
  BY DEF DInv, TypeOK, RunnableIsOriginal
<1>3. status \in [Calls -> Statuses]
  BY DEF DInv, TypeOK, SchedulerTypeOK
<1>4. CASE ExecuteBatch
  <2>1. status' \in [Calls -> Statuses] /\ accesses' = accesses
    BY <1>4 DEF ExecuteBatch, AddAll, Statuses
  <2> QED BY <1>1, <1>2, <1>4, <2>1, RunningAnswers DEF ExecuteBatch, RunsOnly
<1>5. ASSUME NEW c \in Calls, Task(c) PROVE DInv'
  <2>1. status[c] = "active" /\ Finish(c) /\ phase' = phase /\ TaskFrame
    BY <1>5 DEF Task, ToolReturns, TaskResolves, GraceExpires
  <2>2. phase = "run"
    BY <2>1 DEF DInv, NothingYet
  <2>3. status' \in [Calls -> Statuses] /\ accesses' = accesses
    BY <1>3, <2>1 DEF Finish, Statuses
  <2>4. /\ executing' \subseteq executing \cup BeginsTools
        /\ begun' = begun \cup BeginsTools
    BY <1>5 DEF Task, ToolReturns, TaskResolves, GraceExpires, RunSingleExecution
  <2>5. \/ raw' = [raw EXCEPT ![c] = "error"]
        \/ c \in begun /\ raw' = [raw EXCEPT ![c] = "ok"]
    BY <1>2, <1>5 DEF Task, ToolReturns, TaskResolves, GraceExpires
  <2> QED BY <1>1, <1>2, <2>1, <2>2, <2>3, <2>4, <2>5, RunningAnswers DEF RunsOnly
<1>6. ASSUME NEW c \in Calls, LeftToolEnds(c) PROVE DInv'
  <2>1. phase = "run"
    BY <1>6 DEF LeftToolEnds, DInv, NothingYet
  <2>2. /\ UNCHANGED <<status, accesses, phase, begun, raw>> /\ TaskFrame
        /\ executing' \subseteq executing
    BY <1>6 DEF LeftToolEnds, schedulerVars, TaskFrame
  <2> QED BY <1>2, <1>3, <2>1, <2>2, RunningAnswers DEF RunsOnly
<1> QED BY <1>4, <1>5, <1>6

\* Steps that leave everything but the signals alone.
LEMMA SignalsAnswer ==
    ASSUME DInv, UNCHANGED <<schedulerVars, phase, prepared, stopBatch, asking, plan, check,
                             deferred, shared, executing, begun, raw, answer, final>>,
           aborted' \in BOOLEAN, disposed' \in BOOLEAN
    PROVE  DInv'
<1>1. TypeOK'
  BY DEF DInv, TypeOK, SchedulerTypeOK, schedulerVars
<1> QED BY <1>1 DEF DInv, NothingYet, RunnableIsOriginal, OneOriginal, AnswersFit, schedulerVars

FinalFrame == UNCHANGED <<schedulerVars, phase, prepared, stopBatch, asking, plan, executing, begun,
                          raw, aborted, disposed>>

\* A result is settled, or is found to be a duplicate's.
LEMMA FinalizeAnswers ==
    ASSUME DInv, NEW c \in Calls, Finalize(c)
    PROVE  DInv'
<1>1. final[c] = "no" /\ phase = "run" /\ FinalFrame
  BY DEF Finalize, FinalFrame
<1>2. /\ check \in [Calls -> {"none", "original", "synthetic"}] /\ shared \in [Keys -> 0..N]
      /\ answer \in [Calls -> 0..N] /\ final \in [Calls -> {"no", "waiting", "done"}]
      /\ deferred \subseteq Keys /\ KeyOf[c] \in Keys /\ c \in 0..N
  BY BatchAssumption, CallsAssumption DEF DInv, TypeOK, Calls
<1>3. NothingYet'
  BY <1>1 DEF DInv, NothingYet, FinalFrame, Finalize
<1>4. CASE /\ Settle(c, c) /\ UNCHANGED <<check, deferred, shared>>
           /\ disposed /\ raw[c] = "ok"
  <2>1. check[c] # "synthetic"
    BY <1>1, <1>4 DEF DInv, RunnableIsOriginal
  <2>2. /\ final' = [final EXCEPT ![c] = "done"] /\ answer' = [answer EXCEPT ![c] = c]
        /\ UNCHANGED <<check, deferred, shared>>
    BY <1>4 DEF Settle
  <2>3. TypeOK'
    BY <1>1, <1>2, <2>2 DEF DInv, TypeOK, SchedulerTypeOK, schedulerVars, FinalFrame
  <2>4. AnswersFit'
    BY <1>2, <2>1, <2>2 DEF DInv, AnswersFit
  <2>5. RunnableIsOriginal'
    BY <1>1, <1>2, <2>2 DEF DInv, RunnableIsOriginal, FinalFrame
  <2> QED BY <1>3, <2>2, <2>3, <2>4, <2>5 DEF DInv, OneOriginal
<1>5. CASE /\ check[c] = "original" \/ (check[c] = "none" /\ KeyOf[c] \notin deferred)
           /\ FinalizeOriginal(c)
  <2>1. /\ final' = [final EXCEPT ![c] = "done"] /\ answer' = [answer EXCEPT ![c] = c]
        /\ check' = [check EXCEPT ![c] = "original"] /\ deferred' = deferred \cup {KeyOf[c]}
        /\ shared' = [shared EXCEPT ![KeyOf[c]] = c]
    BY <1>5 DEF FinalizeOriginal, Settle
  <2>2. TypeOK'
    BY <1>1, <1>2, <2>1 DEF DInv, TypeOK, SchedulerTypeOK, schedulerVars, FinalFrame
  <2>3. RunnableIsOriginal'
    BY <1>1, <1>2, <2>1 DEF DInv, RunnableIsOriginal, FinalFrame
  <2>4. OneOriginal'
    <3>1. \A d \in Calls : check'[d] = "original" => KeyOf[d] \in deferred'
      BY <1>2, <2>1 DEF DInv, OneOriginal
    <3>2. \A d \in Calls : check[d] = "original" /\ KeyOf[d] = KeyOf[c] => d = c
      BY <1>5 DEF DInv, OneOriginal
    <3>3. \A d, e \in Calls :
            check'[d] = "original" /\ check'[e] = "original" /\ KeyOf[d] = KeyOf[e] => d = e
      BY <1>2, <2>1, <3>2 DEF DInv, OneOriginal
    <3>4. \A k \in Keys : shared'[k] # 0 => shared'[k] \in Calls /\ KeyOf[shared'[k]] = k
                            /\ check'[shared'[k]] = "original"
      BY <1>2, <2>1 DEF DInv, OneOriginal
    <3> QED BY <3>1, <3>3, <3>4 DEF OneOriginal
  <2>5. AnswersFit'
    BY <1>2, <2>1 DEF DInv, AnswersFit
  <2> QED BY <1>3, <2>2, <2>3, <2>4, <2>5 DEF DInv
<1>6. CASE /\ check[c] \in {"synthetic", "none"}
           /\ FinalizeSynthetic(c)
  <2>1. /\ final' = [final EXCEPT ![c] = "waiting"] /\ check' = [check EXCEPT ![c] = "synthetic"]
        /\ UNCHANGED <<answer, deferred, shared>>
    BY <1>6 DEF FinalizeSynthetic
  <2>2. TypeOK'
    BY <1>1, <1>2, <2>1 DEF DInv, TypeOK, SchedulerTypeOK, schedulerVars, FinalFrame
  <2>3. RunnableIsOriginal'
    BY <1>1, <1>2, <1>6, <2>1 DEF DInv, RunnableIsOriginal, FinalFrame
  <2>4. OneOriginal'
    BY <1>2, <1>6, <2>1 DEF DInv, OneOriginal
  <2>5. AnswersFit'
    BY <1>1, <1>2, <1>6, <2>1 DEF DInv, AnswersFit
  <2> QED BY <1>3, <2>2, <2>3, <2>4, <2>5 DEF DInv
<1> QED BY <1>4, <1>5, <1>6 DEF Finalize

LEMMA DuplicateAnswers ==
    ASSUME DInv, NEW c \in Calls, DuplicateResolves(c)
    PROVE  DInv'
<1> DEFINE o == shared[KeyOf[c]]
<1>1. /\ final[c] = "waiting" /\ o # 0 /\ FinalFrame /\ UNCHANGED <<check, deferred, shared>>
      /\ final' = [final EXCEPT ![c] = "done"] /\ answer' = [answer EXCEPT ![c] = o]
  BY DEF DuplicateResolves, Settle, FinalFrame
<1>2. o \in Calls /\ KeyOf[o] = KeyOf[c] /\ check[o] = "original"
  BY <1>1, BatchAssumption DEF DInv, OneOriginal
<1>3. /\ answer \in [Calls -> 0..N] /\ final \in [Calls -> {"no", "waiting", "done"}]
      /\ o \in 0..N
  BY <1>2 DEF DInv, TypeOK, Calls
<1>4. TypeOK'
  BY <1>1, <1>3 DEF DInv, TypeOK, SchedulerTypeOK, schedulerVars, FinalFrame
<1>5. NothingYet' /\ RunnableIsOriginal' /\ OneOriginal'
  BY <1>1, <1>3 DEF DInv, NothingYet, RunnableIsOriginal, OneOriginal, FinalFrame, schedulerVars
<1>6. AnswersFit'
  BY <1>1, <1>2, <1>3 DEF DInv, AnswersFit
<1> QED BY <1>4, <1>5, <1>6 DEF DInv

LEMMA DedupeNext == DInv /\ [Next]_vars => DInv'
<1> SUFFICES ASSUME DInv, [Next]_vars PROVE DInv'
  OBVIOUS
<1>1. ASSUME NEW c \in Calls, Prepare(c) \/ Answered(c) PROVE DInv'
  BY <1>1, PrepareAnswers
<1>2. CASE ExecuteBatch \/ (\E c \in Calls : Task(c)) \/ (\E c \in Calls : LeftToolEnds(c))
  BY <1>2, ExecutionAnswers
<1>3. ASSUME NEW c \in Calls, Finalize(c) \/ DuplicateResolves(c) PROVE DInv'
  BY <1>3, FinalizeAnswers, DuplicateAnswers
<1>4. CASE Abort \/ Dispose \/ Over \/ UNCHANGED vars
  <2>1. aborted \in BOOLEAN /\ disposed \in BOOLEAN
    BY DEF DInv, TypeOK
  <2> QED BY <1>4, <2>1, SignalsAnswer DEF Abort, Dispose, AbortFrame, Over, vars, batchVars
<1> QED BY <1>1, <1>2, <1>3, <1>4 DEF Next, Prepare, Task

LEMMA DedupeInvariant == Spec => []DInv
BY DedupeInit, DedupeNext, PTL DEF Spec

LEMMA BatchRuns == Spec => []BInv
BY BatchInit, BatchNext, PTL DEF Spec

\* The types of the batch, the order of the scheduler, and that the veto of a
\* duplicate keeps it from running (checkToolCall).
THEOREM BatchIsOrderly == Spec => []BatchInvariant
<1>1. BInv /\ DInv => BatchInvariant
  BY DEF BInv, IInv, DInv, RunnableIsOriginal, OneOriginal, TypeOK, BatchInvariant,
         DuplicatesNeverRun
<1> QED BY <1>1, DedupeInvariant, BatchRuns, PTL

\* A duplicate is answered with the result of its original (finalizeResult).
THEOREM DuplicatesAreAnswered == Spec => []DuplicatesShareTheResult
<1>1. DInv => DuplicatesShareTheResult
  BY DEF DInv, OneOriginal, AnswersFit, DuplicatesShareTheResult
<1> QED BY <1>1, DedupeInvariant, PTL

\* A call that ran is answered with what it did (finalizeResult, registerSkipped).
THEOREM RunsAreAnswered == Spec => []RanCallKeepsItsResult
<1>1. DInv => RanCallKeepsItsResult
  BY DEF DInv, TypeOK, RunnableIsOriginal, AnswersFit, RanCallKeepsItsResult
<1> QED BY <1>1, DedupeInvariant, PTL

\* The scheduler's calls are declared, added together and finished, one at a time.
LEMMA StepSchedules ==
    ASSUME BInv, DInv, [Next]_vars
    PROVE  [SchedulerNext]_schedulerVars
<1>1. ASSUME NEW c \in Calls, Prepare(c) \/ Answered(c) PROVE [SchedulerNext]_schedulerVars
  <2>1. status' = status
    BY <1>1 DEF Prepare, PrepareSkipped, PrepareSettled, PrepareAllowed, PrepareChecked, Ask,
                ApprovalAborted, Answered, PrepareFrame, schedulerVars
  <2>2. status[c] = "new"
    BY <1>1 DEF BInv, PreparingRunsNothing, Prepare, PrepareSkipped, PrepareSettled,
                PrepareAllowed, PrepareChecked, Ask, ApprovalAborted, Answered, Preparing
  <2>3. \/ accesses' = accesses
        \/ \E a \in Accesses : accesses' = [accesses EXCEPT ![c] = a]
    BY <1>1 DEF Prepare, PrepareSkipped, PrepareSettled, PrepareAllowed, PrepareChecked, Ask,
                ApprovalAborted, Answered, Resolved, Runnable, schedulerVars
  <2> QED BY <2>1, <2>2, <2>3 DEF SchedulerNext, Declare, schedulerVars
<1>2. CASE ExecuteBatch
  BY <1>2 DEF ExecuteBatch, SchedulerNext
<1>3. ASSUME NEW c \in Calls, Task(c) PROVE [SchedulerNext]_schedulerVars
  BY <1>3 DEF Task, ToolReturns, TaskResolves, GraceExpires, SchedulerNext
<1>4. ASSUME NEW c \in Calls, LeftToolEnds(c) \/ Finalize(c) \/ DuplicateResolves(c)
      PROVE  UNCHANGED schedulerVars
  BY <1>4 DEF LeftToolEnds, Finalize, DuplicateResolves
<1>5. CASE Abort \/ Dispose \/ Over \/ UNCHANGED vars
  BY <1>5 DEF Abort, Dispose, AbortFrame, Over, vars
<1> QED BY <1>1, <1>2, <1>3, <1>4, <1>5 DEF Next, Prepare, Task

\* The batch uses the scheduler as ToolScheduler says (executeBatch): the theorems
\* about the scheduler hold of the batch.
THEOREM BatchImplementsScheduler == Spec => ImplementsScheduler
<1>1. Init => SchedulerInit
  BY BatchAssumption DEF Init, SchedulerInit
<1> QED BY <1>1, DedupeInvariant, BatchRuns, StepSchedules, PTL
        DEF Spec, ImplementsScheduler, SchedulerSpec

-----------------------------------------------------------------------------
(* The batch: somebody can always go on. *)

\* A key that somebody may wait for has an original, which resolves its deferred when
\* it is answered unless the hooks before the dedupe service threw.
KeysHaveOriginals ==
    /\ \A k \in deferred : \E c \in Calls : check[c] = "original" /\ KeyOf[c] = k
    /\ \A c \in Calls : check[c] = "synthetic" => KeyOf[c] \in deferred
    /\ \A c \in Calls :
         check[c] = "original" /\ final[c] = "done" => shared[KeyOf[c]] # 0 \/ disposed

\* A call is looked up once, and the batch is added as a whole.
LookedUpOnce ==
    /\ phase = "prepare" => \A c \in Calls :
         c > prepared /\ (c > prepared + 1 \/ ~asking) => check[c] = "none"
    /\ phase = "run" => \A c \in Calls : status[c] # "new"

WInv == KeysHaveOriginals /\ LookedUpOnce

LEMMA WaitInit == Init => WInv
BY DEF Init, WInv, KeysHaveOriginals, LookedUpOnce

\* Preparing the next call.
LEMMA PreparingWaits ==
    ASSUME DInv, WInv, NEW c \in Calls, Preparing(c), PrepareFrame,
           \/ UNCHANGED <<check, deferred, shared>>
           \/ CheckToolCall(c) /\ ~asking,
           \/ prepared' = c
           \/ prepared' = prepared /\ asking' = TRUE
    PROVE  WInv'
<1>1. /\ phase = "prepare" /\ c = prepared + 1 /\ phase' = phase /\ prepared \in Nat
      /\ disposed' = disposed
  BY CallsAssumption DEF Preparing, PrepareFrame, DInv, TypeOK
<1>2. \A d \in Calls : final'[d] = "no"
  BY <1>1 DEF DInv, NothingYet, PrepareFrame
<1>3. /\ check \in [Calls -> {"none", "original", "synthetic"}]
      /\ KeyOf[c] \in Keys /\ deferred \subseteq Keys
  BY BatchAssumption DEF DInv, TypeOK
<1>4. CASE UNCHANGED <<check, deferred, shared>>
  <2>1. LookedUpOnce'
    BY <1>1, <1>4 DEF WInv, LookedUpOnce, Calls
  <2> QED BY <1>2, <1>4, <2>1 DEF WInv, KeysHaveOriginals
<1>5. CASE CheckToolCall(c) /\ ~asking
  <2>1. /\ check' = [check EXCEPT ![c] = IF KeyOf[c] \in deferred THEN "synthetic" ELSE "original"]
        /\ deferred' = deferred \cup {KeyOf[c]}
    BY <1>5 DEF CheckToolCall
  <2>2. check[c] = "none"
    BY <1>1, <1>5 DEF WInv, LookedUpOnce
  <2>3. \A d \in Calls : d # c => check'[d] = check[d]
    BY <1>3, <2>1
  <2>4. LookedUpOnce'
    BY <1>1, <2>3 DEF WInv, LookedUpOnce, Calls
  <2>5. \A k \in deferred' : \E d \in Calls : check'[d] = "original" /\ KeyOf[d] = k
    <3> SUFFICES ASSUME NEW k \in deferred'
                 PROVE  \E d \in Calls : check'[d] = "original" /\ KeyOf[d] = k
      OBVIOUS
    <3>1. CASE k \in deferred
      <4>1. PICK d \in Calls : check[d] = "original" /\ KeyOf[d] = k
        BY <3>1 DEF WInv, KeysHaveOriginals
      <4> QED BY <2>2, <2>3, <4>1
    <3>2. CASE k \notin deferred
      <4>1. k = KeyOf[c] /\ check'[c] = "original"
        BY <1>3, <2>1, <3>2
      <4> QED BY <4>1
    <3> QED BY <3>1, <3>2
  <2>6. \A d \in Calls : check'[d] = "synthetic" => KeyOf[d] \in deferred'
    BY <1>3, <2>1 DEF WInv, KeysHaveOriginals
  <2> QED BY <1>2, <2>4, <2>5, <2>6 DEF WInv, KeysHaveOriginals
<1> QED BY <1>4, <1>5

LEMMA PrepareWaits ==
    ASSUME DInv, WInv, NEW c \in Calls, Prepare(c) \/ Answered(c)
    PROVE  WInv'
<1>1. CASE PrepareSkipped(c) \/ PrepareSettled(c) \/ PrepareAllowed(c) \/ Answered(c)
  <2>1. /\ Preparing(c) /\ PrepareFrame /\ UNCHANGED <<check, deferred, shared>>
        /\ prepared' = c
    BY <1>1 DEF PrepareSkipped, PrepareSettled, PrepareAllowed, Answered, Resolved, Runnable
  <2> QED BY <2>1, PreparingWaits
<1>2. CASE PrepareChecked(c)
  <2>1. Preparing(c) /\ PrepareFrame /\ CheckToolCall(c) /\ ~asking /\ prepared' = c
    BY <1>2 DEF PrepareChecked, Resolved, Runnable
  <2> QED BY <2>1, PreparingWaits
<1>3. CASE Ask(c)
  <2>1. /\ Preparing(c) /\ PrepareFrame /\ CheckToolCall(c) /\ ~asking
        /\ prepared' = prepared /\ asking' = TRUE
    BY <1>3 DEF Ask
  <2> QED BY <2>1, PreparingWaits
<1>4. CASE ApprovalAborted(c)
  BY <1>4 DEF ApprovalAborted, WInv, KeysHaveOriginals, LookedUpOnce
<1> QED BY <1>1, <1>2, <1>3, <1>4 DEF Prepare

\* Tasks begin and end, and what calls wait for stays as it is.
LEMMA ExecutionWaits ==
    ASSUME DInv, WInv,
           ExecuteBatch \/ (\E c \in Calls : Task(c)) \/ (\E c \in Calls : LeftToolEnds(c))
    PROVE  WInv'
<1>1. UNCHANGED <<check, deferred, shared, final, disposed>>
  BY DEF ExecuteBatch, Task, ToolReturns, TaskResolves, GraceExpires, LeftToolEnds, TaskFrame
<1>2. phase' = "run" /\ \A c \in Calls : status'[c] # "new"
  <2>1. CASE ExecuteBatch
    BY <2>1 DEF ExecuteBatch, AddAll
  <2>2. ASSUME NEW f \in Calls, Task(f)
        PROVE  phase' = "run" /\ \A c \in Calls : status'[c] # "new"
    <3>1. Finish(f) /\ phase' = phase
      BY <2>2 DEF Task, ToolReturns, TaskResolves, GraceExpires
    <3>2. phase = "run"
      BY <3>1 DEF Finish, DInv, NothingYet
    <3> QED BY <3>1, <3>2 DEF Finish, WInv, LookedUpOnce
  <2>3. ASSUME NEW f \in Calls, LeftToolEnds(f)
        PROVE  phase' = "run" /\ \A c \in Calls : status'[c] # "new"
    <3>1. phase = "run" /\ phase' = phase /\ status' = status
      BY <2>3 DEF LeftToolEnds, schedulerVars, DInv, NothingYet
    <3> QED BY <3>1 DEF WInv, LookedUpOnce
  <2> QED BY <2>1, <2>2, <2>3
<1> QED BY <1>1, <1>2 DEF WInv, KeysHaveOriginals, LookedUpOnce

LEMMA FinalizeWaits ==
    ASSUME DInv, WInv, NEW c \in Calls, Finalize(c)
    PROVE  WInv'
<1>1. /\ final[c] = "no" /\ phase = "run" /\ phase' = phase /\ status' = status
      /\ disposed' = disposed
  BY DEF Finalize, schedulerVars
<1>2. /\ check \in [Calls -> {"none", "original", "synthetic"}] /\ shared \in [Keys -> 0..N]
      /\ final \in [Calls -> {"no", "waiting", "done"}] /\ KeyOf \in [Calls -> Keys]
  BY BatchAssumption DEF DInv, TypeOK
<1>3. LookedUpOnce'
  BY <1>1 DEF WInv, LookedUpOnce
<1>4. CASE Settle(c, c) /\ UNCHANGED <<check, deferred, shared>> /\ disposed
  <2>1. final' = [final EXCEPT ![c] = "done"]
    BY <1>4 DEF Settle
  <2> QED BY <1>1, <1>3, <1>4, <2>1 DEF WInv, KeysHaveOriginals
<1>5. CASE FinalizeOriginal(c)
  <2>1. /\ final' = [final EXCEPT ![c] = "done"] /\ check' = [check EXCEPT ![c] = "original"]
        /\ deferred' = deferred \cup {KeyOf[c]} /\ shared' = [shared EXCEPT ![KeyOf[c]] = c]
    BY <1>5 DEF FinalizeOriginal, Settle
  <2>2. \A k \in deferred' : \E d \in Calls : check'[d] = "original" /\ KeyOf[d] = k
    BY <1>2, <2>1 DEF WInv, KeysHaveOriginals
  <2>3. \A d \in Calls : check'[d] = "synthetic" => KeyOf[d] \in deferred'
    BY <1>2, <2>1 DEF WInv, KeysHaveOriginals
  <2>4. \A d \in Calls :
          check'[d] = "original" /\ final'[d] = "done" => shared'[KeyOf[d]] # 0 \/ disposed'
    <3>1. c # 0
      BY DEF Calls
    <3>2. \A d \in Calls : shared'[KeyOf[d]] = IF KeyOf[d] = KeyOf[c] THEN c ELSE shared[KeyOf[d]]
      BY <1>2, <2>1
    <3> QED BY <1>1, <1>2, <2>1, <3>1, <3>2 DEF WInv, KeysHaveOriginals
  <2> QED BY <1>3, <2>2, <2>3, <2>4 DEF WInv, KeysHaveOriginals
<1>6. CASE /\ check[c] = "synthetic" \/ (check[c] = "none" /\ KeyOf[c] \in deferred)
           /\ FinalizeSynthetic(c)
  <2>1. /\ final' = [final EXCEPT ![c] = "waiting"] /\ check' = [check EXCEPT ![c] = "synthetic"]
        /\ UNCHANGED <<deferred, shared>>
    BY <1>6 DEF FinalizeSynthetic
  <2>2. \A k \in deferred' : \E d \in Calls : check'[d] = "original" /\ KeyOf[d] = k
    <3> SUFFICES ASSUME NEW k \in deferred
                 PROVE  \E d \in Calls : check'[d] = "original" /\ KeyOf[d] = k
      BY <2>1
    <3>1. PICK d \in Calls : check[d] = "original" /\ KeyOf[d] = k
      BY DEF WInv, KeysHaveOriginals
    <3> QED BY <1>2, <1>6, <2>1, <3>1
  <2>3. \A d \in Calls : check'[d] = "synthetic" => KeyOf[d] \in deferred'
    BY <1>2, <1>6, <2>1 DEF WInv, KeysHaveOriginals
  <2>4. \A d \in Calls :
          check'[d] = "original" /\ final'[d] = "done" => shared'[KeyOf[d]] # 0 \/ disposed'
    BY <1>1, <1>2, <2>1 DEF WInv, KeysHaveOriginals
  <2> QED BY <1>3, <2>2, <2>3, <2>4 DEF WInv, KeysHaveOriginals
<1> QED BY <1>4, <1>5, <1>6 DEF Finalize

LEMMA DuplicateWaits ==
    ASSUME DInv, WInv, NEW c \in Calls, DuplicateResolves(c)
    PROVE  WInv'
<1>1. /\ final' = [final EXCEPT ![c] = "done"] /\ final[c] = "waiting"
      /\ UNCHANGED <<check, deferred, shared, phase, status, disposed>>
  BY DEF DuplicateResolves, Settle, schedulerVars
<1>2. check[c] = "synthetic" /\ final \in [Calls -> {"no", "waiting", "done"}]
  BY <1>1 DEF DInv, TypeOK, AnswersFit
<1>3. LookedUpOnce'
  BY <1>1 DEF WInv, LookedUpOnce, DInv, NothingYet
<1> QED BY <1>1, <1>2, <1>3 DEF WInv, KeysHaveOriginals

LEMMA WaitNext == DInv /\ WInv /\ [Next]_vars => WInv'
<1> SUFFICES ASSUME DInv, WInv, [Next]_vars PROVE WInv'
  OBVIOUS
<1>1. ASSUME NEW c \in Calls, Prepare(c) \/ Answered(c) PROVE WInv'
  BY <1>1, PrepareWaits
<1>2. CASE ExecuteBatch \/ (\E c \in Calls : Task(c)) \/ (\E c \in Calls : LeftToolEnds(c))
  BY <1>2, ExecutionWaits
<1>3. ASSUME NEW c \in Calls, Finalize(c) \/ DuplicateResolves(c) PROVE WInv'
  BY <1>3, FinalizeWaits, DuplicateWaits
<1>4. CASE Abort \/ Dispose
  BY <1>4 DEF Abort, Dispose, AbortFrame, schedulerVars, WInv, KeysHaveOriginals, LookedUpOnce
<1>5. CASE Over \/ UNCHANGED vars
  BY <1>5 DEF Over, vars, batchVars, schedulerVars, WInv, KeysHaveOriginals, LookedUpOnce
<1> QED BY <1>1, <1>2, <1>3, <1>4, <1>5 DEF Next, Prepare, Task

\* A batch that runs, in an agent that is not disposed, is over or has something to
\* do: a task that ends (of itself or when the grace is over), a result to finalize,
\* or a duplicate whose original has been answered.
SomebodyGoesOn ==
    phase = "run" /\ ~disposed =>
      \/ \A c \in Calls : final[c] = "done"
      \/ \E c \in Calls : \/ status[c] = "active"
                          \/ status[c] = "done" /\ final[c] = "no"
                          \/ final[c] = "waiting" /\ shared[KeyOf[c]] # 0

LEMMA NobodyWaitsForNothing == BInv /\ DInv /\ WInv => SomebodyGoesOn
<1> SUFFICES ASSUME BInv, DInv, WInv, phase = "run", ~disposed,
                    \A c \in Calls : /\ status[c] # "active"
                                     /\ status[c] = "done" => final[c] # "no"
                                     /\ final[c] = "waiting" => shared[KeyOf[c]] = 0
             PROVE  \A c \in Calls : final[c] = "done"
  BY DEF SomebodyGoesOn
<1>1. \A c \in Calls : status[c] \in {"queued", "done"}
  BY DEF DInv, TypeOK, SchedulerTypeOK, Statuses, WInv, LookedUpOnce
\* The first of the queued calls would have nothing to wait for.
<1>2. \A c \in Calls : status[c] = "done"
  <2> DEFINE queued == {c \in Calls : status[c] = "queued"}
  <2> SUFFICES queued = {}
    BY <1>1
  <2> SUFFICES ASSUME queued # {} PROVE FALSE
    OBVIOUS
  <2>1. queued \subseteq Nat
    BY DEF Calls
  <2>2. PICK d \in queued : \A c \in queued : d <= c
    <3> HIDE DEF queued
    <3> QED BY <2>1, Least
  <2>3. PICK c \in Calls : c < d /\ status[c] \in {"active", "queued"}
    BY <2>2 DEF BInv, IInv, NoMissedStart
  <2>4. c \in queued
    BY <2>3
  <2> QED BY <2>1, <2>2, <2>3, <2>4
<1>3. \A c \in Calls : final[c] \in {"waiting", "done"}
  BY <1>2 DEF DInv, TypeOK
\* The original of a call that waits is answered, and has resolved the deferred.
<1> SUFFICES ASSUME NEW c \in Calls, final[c] = "waiting" PROVE FALSE
  BY <1>3
<1>4. check[c] = "synthetic"
  BY DEF DInv, AnswersFit
<1>5. PICK d \in Calls : check[d] = "original" /\ KeyOf[d] = KeyOf[c]
  BY <1>4 DEF WInv, KeysHaveOriginals
<1>6. final[d] = "done"
  BY <1>3, <1>5 DEF DInv, AnswersFit
<1> QED BY <1>5, <1>6 DEF WInv, KeysHaveOriginals

\* The scheduler's queue and the dedupe service's deferreds never hold each other up:
\* as long as a call is owed its answer, some call can go on (startQueuedTasks,
\* finalizeResult).
THEOREM BatchNeverStuck == Spec => []SomebodyGoesOn
<1>1. DInv /\ DInv' /\ WInv /\ [Next]_vars => WInv'
  BY WaitNext
<1>2. Spec => []WInv
  BY <1>1, WaitInit, DedupeInvariant, PTL DEF Spec
<1> QED BY <1>2, NobodyWaitsForNothing, DedupeInvariant, BatchRuns, PTL
=============================================================================
