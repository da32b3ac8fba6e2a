---------------------- MODULE HttpRequestManagerProofs ----------------------
(***************************************************************************)
(* HttpRequestManager for every set of requests, groups, limits, calls and *)
(* waiters: every context has one owner and holds its tokens until it is   *)
(* released, its cancellations mean what they say, shutdown() leaves       *)
(* nothing behind, and it implements HttpRequestLifecycle.                 *)
(***************************************************************************)
EXTENDS HttpRequestManagerInvariants

-----------------------------------------------------------------------------
(* Steps that answer nothing                                               *)

\* Where a context is before its final callback is due.
Live == {"pending", "admitted", "running", "parked", "failed"}

\* What most steps do: contexts that are not finished yet go from list to list,
\* until they are closed or lost.
InternalMove ==
    /\ UNCHANGED <<m_group_request_counts, finals>>
    /\ \A r \in Requests :
         loc'[r] = loc[r] \/ (loc[r] \in Live /\ loc'[r] \in Live \cup {"closing", "lost"})

\* Calls that cancel and wait, and the callbacks that answer them.
Calls ==
    \/ \E c \in Cancels : CancelCheck(c) \/ CancelQueue(c)
    \/ \E w \in Waiters : WaitRequests(w) \/ CancelWait(w) \/ CallWaiter(w)

\* The steps other than a submission and the three of invoke_final_callback.
LEMMA InternalStep ==
    ASSUME PhaseInv, BatchInv, Process \/ Stop \/ Calls \/ UNCHANGED vars
    PROVE  InternalMove
<1> USE DEF InternalMove, Live, At, Move, userVars
<1>1. ASSUME NEW D \in SUBSET At("pending"), NEW A \in SUBSET At("pending"),
             ProcessPending(D, A)
      PROVE  InternalMove
  BY <1>1 DEF ProcessPending
<1>2. ASSUME NEW F \in SUBSET At("admitted"), OpenBatch(F)
      PROVE  InternalMove
  BY <1>2 DEF OpenBatch
<1>3. CASE OpenBatchThrows
  BY <1>3 DEF OpenBatchThrows
<1>4. CASE \/ \E M \in SUBSET At("running"), C \in SUBSET At("running") : Perform(M, C)
           \/ PerformFails \/ ActiveDone \/ RetryDone \/ CancelDone
           \/ \E c \in Cancels : InvokeCancelCallback(c)
           \/ NotifyGroupWaitersIfIdle \/ Shutdown \/ NotifyAllGroupWaiters \/ AfterShutdown
  BY <1>4 DEF Perform, PerformFails, ActiveDone, RetryDone, CancelDone, InvokeCancelCallback,
              NotifyGroupWaitersIfIdle, Shutdown, NotifyAllGroupWaiters, AfterShutdown, reqVars
<1>5. ASSUME NEW r \in Requests, NEW bad \in BOOLEAN, HandleCompletedRequest(r, bad)
      PROVE  InternalMove
  <2>1. loc[r] = "running"
    BY <1>5 DEF HandleCompletedRequest, BatchInv
  <2> QED
    BY <1>5, <2>1 DEF HandleCompletedRequest
<1>6. CASE EndVisit
  <2>1. cur \in 1 .. Len(m_active_request_batches)
    BY <1>6 DEF EndVisit, BatchInv
  <2>2. \A r \in Batch : loc[r] \in {"running", "parked"}
    BY <2>1 DEF Batch, BatchInv
  <2> QED
    BY <1>6, <2>2 DEF EndVisit
<1>7. CASE (\E r \in Requests : RetryFailed(r)) \/ CleanupPendingRequests
  BY <1>7 DEF RetryFailed, CleanupPendingRequests
<1>8. CASE TakeCancels
  BY <1>8 DEF TakeCancels, Cancelled
<1>9. CASE ClearBatches
  BY <1>9 DEF ClearBatches
<1>10. CASE Calls \/ UNCHANGED vars
  BY <1>10, Zenon DEF Calls, CancelCheck, CancelQueue, WaitRequests, CancelWait, CallWaiter, reqVars, vars
<1> QED
  BY <1>1, <1>2, <1>3, <1>4, <1>5, <1>6, <1>7, <1>8, <1>9, <1>10 DEF Process, Stop

\* Every step is one of those, a submission, or one of those three.
LEMMA StepKinds ==
    ASSUME [Next]_vars
    PROVE  \/ Process \/ Stop \/ Calls \/ UNCHANGED vars
           \/ \E r \in Requests : \/ SubmitRequest(r) \/ FinalCallback(r)
                                 \/ Release(r) \/ CompleteGroupRequest(r)
BY DEF Next, User, Deliver, Calls

-----------------------------------------------------------------------------
(* Counting                                                                *)

\* Every request gets one final callback, when it is closed.
FinalsInv ==
    finals = [r \in Requests |-> IF loc[r] \in {"answered", "released", "done"} THEN 1 ELSE 0]

\* group_request_count is the number of requests of the group that have been
\* accepted and have not left.
CountInv ==
    m_group_request_counts = [g \in Groups |-> Cardinality(Outstanding \cap Members(g))]

\* A group that counts nothing has nothing outstanding.
LEMMA IdleGroup ==
    ASSUME CountInv, NEW g \in Groups, m_group_request_counts[g] = 0
    PROVE  Outstanding \cap Members(g) = {}
<1>1. Cardinality(Outstanding \cap Members(g)) = 0
  BY DEF CountInv
<1>2. Outstanding \cap Members(g) \subseteq Requests
  BY DEF Members
<1>3. IsFiniteSet(Outstanding \cap Members(g))
  BY <1>2, FS_Subset, ManagerAssumption
<1> QED
  BY <1>1, <1>3, FS_EmptySet

\* Nor has one that counts nothing after a step.
LEMMA IdleGroupNext ==
    ASSUME CountInv', NEW g \in Groups, m_group_request_counts'[g] = 0
    PROVE  Outstanding' \cap Members(g) = {}
<1>1. Cardinality(Outstanding' \cap Members(g)) = 0
  BY DEF CountInv, Members
<1>2. Outstanding' \cap Members(g) \subseteq Requests
  BY DEF Members
<1>3. IsFiniteSet(Outstanding' \cap Members(g))
  BY <1>2, FS_Subset, ManagerAssumption
<1> QED
  BY <1>1, <1>3, FS_EmptySet

LEMMA FinalsStep ==
    ASSUME PhaseInv, BatchInv, FinalsInv, [Next]_vars
    PROVE  FinalsInv'
<1> USE DEF FinalsInv
<1>1. CASE Process \/ Stop \/ Calls \/ UNCHANGED vars
  BY <1>1, InternalStep DEF InternalMove, Live
<1>2. ASSUME NEW r \in Requests, SubmitRequest(r)
      PROVE  FinalsInv'
  BY <1>2 DEF SubmitRequest, Move
<1>3. ASSUME NEW r \in Requests, FinalCallback(r)
      PROVE  FinalsInv'
  BY <1>3 DEF FinalCallback, Move
<1>4. ASSUME NEW r \in Requests, Release(r) \/ CompleteGroupRequest(r)
      PROVE  FinalsInv'
  BY <1>4 DEF Release, CompleteGroupRequest, Move
<1> QED
  BY <1>1, <1>2, <1>3, <1>4, StepKinds

LEMMA CountStep ==
    ASSUME PhaseInv, BatchInv, CountInv, [Next]_vars
    PROVE  CountInv'
<1>1. CASE Outstanding' = Outstanding /\ UNCHANGED m_group_request_counts
  BY <1>1 DEF CountInv, Members
<1>2. CASE Process \/ Stop \/ Calls \/ UNCHANGED vars
  <2>1. Outstanding' = Outstanding
    BY <1>2, InternalStep DEF InternalMove, Live, Outstanding, Accepted, Locations
  <2> QED
    BY <1>1, <1>2, <2>1, InternalStep DEF InternalMove
<1>3. ASSUME NEW r \in Requests, FinalCallback(r) \/ Release(r)
      PROVE  CountInv'
  <2>1. Outstanding' = Outstanding
    BY <1>3 DEF FinalCallback, Release, Outstanding, Accepted, Locations, Move
  <2> QED
    BY <1>1, <1>3, <2>1 DEF FinalCallback, Release
<1>4. \A g \in Groups : IsFiniteSet(Outstanding \cap Members(g))
  <2>1. \A g \in Groups : Outstanding \cap Members(g) \subseteq Requests
    BY DEF Members
  <2> QED
    BY <2>1, FS_Subset, ManagerAssumption
<1>5. ASSUME NEW r \in Requests, SubmitRequest(r)
      PROVE  CountInv'
  <2>1. CASE Rejects
    <3>1. Outstanding' = Outstanding
      BY <1>5, <2>1 DEF SubmitRequest, Outstanding, Accepted, Locations, Move
    <3> QED
      BY <1>1, <1>5, <2>1, <3>1 DEF SubmitRequest
  <2>2. CASE ~Rejects
    <3>1. r \notin Outstanding /\ Outstanding' = Outstanding \cup {r}
      BY <1>5, <2>2 DEF SubmitRequest, Outstanding, Accepted, Locations, Move
    <3>2. m_group_request_counts' = JoinGroup(r)
      BY <1>5, <2>2 DEF SubmitRequest
    <3>3. ASSUME NEW g \in Groups
          PROVE  JoinGroup(r)[g] = Cardinality(Outstanding' \cap Members(g))
      <4>1. CASE GroupOf[r] = g
        <5>1. Outstanding' \cap Members(g) = (Outstanding \cap Members(g)) \cup {r}
          BY <3>1, <4>1 DEF Members
        <5>2. r \notin Outstanding \cap Members(g)
          BY <3>1
        <5>3. Cardinality((Outstanding \cap Members(g)) \cup {r})
                = Cardinality(Outstanding \cap Members(g)) + 1
          BY <1>4, <5>2, FS_AddElement, Zenon
        <5> QED
          BY <4>1, <5>1, <5>3 DEF JoinGroup, CountInv
      <4>2. CASE GroupOf[r] # g
        <5>1. Outstanding' \cap Members(g) = Outstanding \cap Members(g)
          BY <3>1, <4>2 DEF Members
        <5>2. Cardinality(Outstanding \cap Members(g)) \in Nat
          BY <1>4, FS_CardinalityType
        <5> QED
          BY <4>2, <5>1, <5>2 DEF JoinGroup, CountInv
      <4> QED
        BY <4>1, <4>2
    <3> QED
      BY <3>2, <3>3 DEF CountInv, JoinGroup, Members
  <2> QED
    BY <2>1, <2>2
<1>6. ASSUME NEW r \in Requests, CompleteGroupRequest(r)
      PROVE  CountInv'
  <2>1. r \in Outstanding /\ Outstanding' = Outstanding \ {r}
    BY <1>6 DEF CompleteGroupRequest, Outstanding, Accepted, Locations, Move
  <2>2. m_group_request_counts' = LeaveGroup(r)
    BY <1>6 DEF CompleteGroupRequest
  <2>3. ASSUME NEW g \in Groups
        PROVE  LeaveGroup(r)[g] = Cardinality(Outstanding' \cap Members(g))
    <3>1. CASE GroupOf[r] = g
      <4>1. Outstanding' \cap Members(g) = (Outstanding \cap Members(g)) \ {r}
        BY <2>1, <3>1 DEF Members
      <4>2. r \in Outstanding \cap Members(g)
        BY <2>1, <3>1 DEF Members
      <4>3. Cardinality((Outstanding \cap Members(g)) \ {r})
              = Cardinality(Outstanding \cap Members(g)) - 1
        BY <1>4, <4>2, FS_RemoveElement, Zenon
      <4> QED
        BY <3>1, <4>1, <4>3 DEF LeaveGroup, CountInv
    <3>2. CASE GroupOf[r] # g
      <4>1. Outstanding' \cap Members(g) = Outstanding \cap Members(g)
        BY <2>1, <3>2 DEF Members
      <4>2. Cardinality(Outstanding \cap Members(g)) \in Nat
        BY <1>4, FS_CardinalityType
      <4> QED
        BY <3>2, <4>1, <4>2 DEF LeaveGroup, CountInv
    <3> QED
      BY <3>1, <3>2
  <2> QED
    BY <2>2, <2>3 DEF CountInv, LeaveGroup, Members
<1> QED
  BY <1>2, <1>3, <1>5, <1>6, StepKinds


-----------------------------------------------------------------------------
(* Calls that cancel                                                       *)

Ending == {"closing", "answered", "released", "done"}

\* A request that has been accepted, closed or finished stays so.
LEMMA NoWayBack ==
    ASSUME PhaseInv, BatchInv, [Next]_vars, NEW r \in Requests
    PROVE  /\ loc[r] \in Accepted => loc'[r] \in Accepted
           /\ loc[r] \in Ending => loc'[r] \in Ending
           /\ loc[r] = "done" => loc'[r] = "done"
<1> USE DEF Accepted, Locations, Ending
<1>1. CASE Process \/ Stop \/ Calls \/ UNCHANGED vars
  BY <1>1, InternalStep DEF InternalMove, Live
<1>2. ASSUME NEW q \in Requests, \/ SubmitRequest(q) \/ FinalCallback(q)
                                 \/ Release(q) \/ CompleteGroupRequest(q)
      PROVE  /\ loc[q] \in {"new", "closing", "answered", "released"}
             /\ loc' \in {Move({q}, l) : l \in Locations}
             /\ loc[q] # "new" => loc'[q] \in Ending
  BY <1>2 DEF SubmitRequest, FinalCallback, Release, CompleteGroupRequest, Move
<1> QED
  BY <1>1, <1>2, StepKinds DEF Move

\* What a cancelling call has achieved at each of its stages.
CancelInv ==
    /\ cancel \in [Cancels -> {"none", "checked", "queued", "taken", "called"}]
    /\ cancelDue \in [Cancels -> SUBSET Requests]
    /\ \A c \in Cancels :
         /\ cancel[c] \in {"none", "checked"} => cancelDue[c] = {}
         /\ \A r \in cancelDue[c] :
              /\ cancel[c] = "queued" => loc[r] \in Accepted /\ MatchesCancel(r, c)
              /\ cancel[c] = "taken" => loc[r] \in Ending
              /\ cancel[c] = "called" => loc[r] = "done"

LEMMA CancelStep ==
    ASSUME NoRetries, PhaseInv, BatchInv, CountInv, CancelInv, [Next]_vars
    PROVE  CancelInv'
<1>1. CASE UNCHANGED <<cancel, cancelDue>>
  BY <1>1, NoWayBack DEF CancelInv, MatchesCancel
<1>2. ASSUME NEW c \in Cancels, CancelCheck(c)
      PROVE  CancelInv'
  BY <1>2 DEF CancelCheck, CancelInv, MatchesCancel, reqVars
<1>3. ASSUME NEW c \in Cancels, CancelQueue(c)
      PROVE  CancelInv'
  <2> DEFINE due == {r \in Outstanding : MatchesCancel(r, c)}
  <2>1. /\ loc' = loc
        /\ cancel' = [cancel EXCEPT ![c] = cancel'[c]]
        /\ cancel'[c] \in {"queued", "called"}
        /\ cancelDue' = [cancelDue EXCEPT ![c] = due]
    BY <1>3 DEF CancelQueue, reqVars, CancelInv
  <2>2. due \subseteq Requests /\ \A r \in due : loc[r] \in Accepted /\ MatchesCancel(r, c)
    BY DEF Outstanding
  <2>3. ASSUME cancel'[c] = "called"
        PROVE  due = {}
    <3>1. CancelTarget[c] \in Groups /\ m_group_request_counts[CancelTarget[c]] = 0
      BY <1>3, <2>3 DEF CancelQueue, CancelInv
    <3>2. \A r \in due : r \in Outstanding \cap Members(CancelTarget[c])
      BY <2>2, <3>1, ManagerAssumption DEF MatchesCancel, Members
    <3> QED
      BY <3>1, <3>2, IdleGroup
  <2> HIDE DEF due
  <2> QED
    BY <2>1, <2>2, <2>3 DEF CancelInv, MatchesCancel
<1>4. CASE TakeCancels
  <2> DEFINE taken == {c \in Cancels : cancel[c] = "queued"}
  <2>1. /\ cancel' = [c \in Cancels |-> IF c \in taken THEN "taken" ELSE cancel[c]]
        /\ loc' = Move(Cancelled(taken), "closing")
        /\ cancelDue' = cancelDue
        /\ pc = "cancel" /\ Quiet
    BY <1>4 DEF TakeCancels
  <2>2. ASSUME NEW c \in taken, NEW r \in cancelDue[c]
        PROVE  loc'[r] \in Ending
    <3>1. r \in Requests /\ loc[r] \in Accepted /\ MatchesCancel(r, c)
      BY <2>2 DEF CancelInv
    <3>2. loc[r] \in {"pending", "failed", "running", "done"}
      BY <2>1, <3>1 DEF Quiet, Completing, At, PhaseInv, NoneLost, Accepted, Locations
    <3>3. loc[r] # "done" => r \in Cancelled(taken)
      BY <3>1, <3>2 DEF Cancelled, At
    <3> QED
      BY <2>1, <3>1, <3>2, <3>3 DEF Move, Ending
  <2>3. \A r \in Requests : loc[r] \in Ending => loc'[r] = loc[r]
    BY <2>1 DEF Move, Cancelled, At, Ending
  <2> QED
    BY <2>1, <2>2, <2>3 DEF CancelInv, Ending
<1>5. ASSUME NEW c \in Cancels, InvokeCancelCallback(c)
      PROVE  CancelInv'
  <2>1. \A r \in cancelDue[c] : loc[r] = "done"
    BY <1>5 DEF InvokeCancelCallback, CancelInv, Ending, Quiet, Completing, At
  <2> QED
    BY <1>5, <2>1 DEF InvokeCancelCallback, CancelInv, MatchesCancel, reqVars
<1> QED
  <2>1. \/ UNCHANGED <<cancel, cancelDue>>
        \/ TakeCancels
        \/ \E c \in Cancels : CancelCheck(c) \/ CancelQueue(c) \/ InvokeCancelCallback(c)
    BY Zenon DEF Next, User, Deliver, Process, Stop, vars, userVars,
           SubmitRequest, WaitRequests, CancelWait, FinalCallback, Release,
           CompleteGroupRequest, CallWaiter, ProcessPending, OpenBatch, OpenBatchThrows,
           Perform, PerformFails, HandleCompletedRequest, EndVisit, ActiveDone, RetryFailed,
           RetryDone, CancelDone, NotifyGroupWaitersIfIdle, Shutdown,
           CleanupPendingRequests, ClearBatches, NotifyAllGroupWaiters, AfterShutdown
  <2> QED
    BY <1>1, <1>2, <1>3, <1>4, <1>5, <2>1

-----------------------------------------------------------------------------
(* Calls that wait                                                         *)

\* Whom a registered waiter waits for.
WaitInv ==
    /\ wait \in [Waiters -> {"none", "waiting", "ready", "called", "cancelled"}]
    /\ waitDue \in [Waiters -> SUBSET Requests]
    /\ \A w \in Waiters :
         /\ wait[w] = "none" => waitDue[w] = {}
         /\ wait[w] = "waiting" =>
              \A r \in waitDue[w] : loc[r] \in Accepted /\ GroupOf[r] = WaitsFor[w]
         /\ wait[w] = "waiting" => pc # "down"

\* The steps that do not concern waiters; shutdown() is over only after
\* notify_all_group_waiters.
LEMMA WaitSteps ==
    ASSUME [Next]_vars
    PROVE  \/ UNCHANGED <<wait, waitDue>> /\ (pc' = "down" => pc = "down")
           \/ NotifyGroupWaitersIfIdle \/ NotifyAllGroupWaiters
           \/ \E r \in Requests : CompleteGroupRequest(r)
           \/ \E w \in Waiters : WaitRequests(w) \/ CancelWait(w) \/ CallWaiter(w)
BY Zenon DEF Next, User, Deliver, Process, Stop, vars, userVars,
       SubmitRequest, CancelCheck, CancelQueue, FinalCallback, Release,
       ProcessPending, OpenBatch, OpenBatchThrows, TakeCancels, InvokeCancelCallback,
       Perform, PerformFails, HandleCompletedRequest, EndVisit, ActiveDone, RetryFailed,
       RetryDone, CancelDone, Shutdown, CleanupPendingRequests, ClearBatches, AfterShutdown

LEMMA WaitStep ==
    ASSUME PhaseInv, BatchInv, WaitInv, [Next]_vars
    PROVE  WaitInv'
<1>1. CASE UNCHANGED <<wait, waitDue>> /\ (pc' = "down" => pc = "down")
  BY <1>1, NoWayBack DEF WaitInv
<1>2. CASE NotifyGroupWaitersIfIdle \/ NotifyAllGroupWaiters
  BY <1>2 DEF NotifyGroupWaitersIfIdle, NotifyAllGroupWaiters, WaitInv, reqVars
<1>3. ASSUME NEW r \in Requests, CompleteGroupRequest(r)
      PROVE  WaitInv'
  BY <1>3, NoWayBack, Zenon DEF CompleteGroupRequest, WaitInv
<1>4. ASSUME NEW w \in Waiters, WaitRequests(w)
      PROVE  WaitInv'
  <2>1. UNCHANGED <<loc, pc>> /\ wait[w] = "none"
    BY <1>4, Zenon DEF WaitRequests, reqVars
  <2>2. CASE wait' = [wait EXCEPT ![w] = "called"] /\ waitDue' = [waitDue EXCEPT ![w] = {}]
    BY <2>1, <2>2 DEF WaitInv
  <2>3. CASE /\ wait' = [wait EXCEPT ![w] = "waiting"]
             /\ waitDue' = [waitDue EXCEPT ![w] = Outstanding \cap Members(WaitsFor[w])]
             /\ ~m_shutdown
    <3>1. \A r \in Outstanding \cap Members(WaitsFor[w]) :
             r \in Requests /\ loc[r] \in Accepted /\ GroupOf[r] = WaitsFor[w]
      BY DEF Outstanding, Members
    <3>2. pc # "down"
      BY <2>3 DEF PhaseInv
    <3> QED
      BY <2>1, <2>3, <3>1, <3>2 DEF WaitInv
  <2> QED
    BY <1>4, <2>2, <2>3, Zenon DEF WaitRequests
<1>5. ASSUME NEW w \in Waiters, CancelWait(w) \/ CallWaiter(w)
      PROVE  WaitInv'
  BY <1>5, Zenon DEF CancelWait, CallWaiter, WaitInv, reqVars
<1> QED
  BY <1>1, <1>2, <1>3, <1>4, <1>5, WaitSteps

-----------------------------------------------------------------------------
(* Safety                                                                  *)

\* The first state.
LEMMA InvInit ==
    ASSUME Init
    PROVE  PhaseInv /\ BatchInv /\ FinalsInv /\ CountInv /\ CancelInv /\ WaitInv
<1>1. PhaseInv
  BY Zenon DEF Init, PhaseInv, Locations, Pcs
<1>2. BatchInv
  BY DEF Init, BatchInv
<1>3. FinalsInv /\ CancelInv /\ WaitInv
  BY DEF Init, FinalsInv, CancelInv, WaitInv
<1>4. CountInv
  <2>1. \A g \in Groups : Outstanding \cap Members(g) = {}
    BY DEF Init, Outstanding, Accepted, Locations
  <2> QED
    BY <2>1, FS_EmptySet, Zenon DEF Init, CountInv
<1> QED
  BY <1>1, <1>2, <1>3, <1>4

\* cancel_request_by_id and cancel_requests_by_group_id: for every set of
\* requests, groups and calls, if nothing is retried, every request that was
\* outstanding when a call was queued has had its final callback when the call's
\* own callback runs.
THEOREM CancelAnswersLast ==
    ASSUME NoRetries
    PROVE  Spec => []CancelMeansFinished
<1> DEFINE Inv == PhaseInv /\ BatchInv /\ FinalsInv /\ CountInv /\ CancelInv
<1>1. Init => Inv
  BY InvInit
<1>2. Inv /\ [Next]_vars => Inv'
  BY PhaseStep, BatchStep, FinalsStep, CountStep, CancelStep
<1>3. Inv => CancelMeansFinished
  BY DEF FinalsInv, CancelInv, CancelMeansFinished
<1> QED
  BY <1>1, <1>2, <1>3, PTL DEF Spec

\* shutdown(): for every set of requests and waiters, when it has returned nothing
\* is outstanding and nobody waits, provided requests that may be retried are not
\* also stopped.
THEOREM NothingLeftBehind ==
    ASSUME NoneLost
    PROVE  Spec => []ShutdownFinishesAll
<1> DEFINE Inv == PhaseInv /\ BatchInv /\ WaitInv
<1>1. Init => Inv
  BY InvInit
<1>2. Inv /\ [Next]_vars => Inv'
  BY PhaseStep, BatchStep, WaitStep
<1>3. Inv => ShutdownFinishesAll
  BY DEF PhaseInv, WaitInv, ShutdownFinishesAll, Outstanding, Accepted, Locations
<1> QED
  BY <1>1, <1>2, <1>3, PTL DEF Spec

-----------------------------------------------------------------------------
(* Lists and tokens                                                        *)

\* The lists and the tokens in the first state, and after one step.
ListsInv == PhaseInv /\ BatchInv /\ QueueInv /\ OwnedInv /\ TokenInv /\ ChunkInv

LEMMA ListsHold == Spec => []ListsInv
<1>1. Init => ListsInv
  <2> SUFFICES ASSUME Init PROVE ListsInv
    OBVIOUS
  <2>1. QueueInv /\ OwnedInv /\ ChunkInv
    BY DEF Init, QueueInv, OwnedInv, ChunkInv
  <2>2. TokenInv
    BY DEF Init, TokenInv
  <2> QED
    BY <2>1, <2>2, InvInit DEF ListsInv
<1>2. ListsInv /\ [Next]_vars => ListsInv'
  BY PhaseStep, BatchStep, QueueStep, OwnedStep, TokenStep, ChunkStep DEF ListsInv
<1> QED
  BY <1>1, <1>2, PTL DEF Spec

\* The lists of contexts: for every set of requests, through admission, retries,
\* cancellation and shutdown, every context is owned by exactly one list.
THEOREM ContextsHaveOneOwner == Spec => []OneOwner
<1>1. ASSUME ListsInv
      PROVE  OneOwner
  <2> USE <1>1 DEF ListsInv
  <2> DEFINE q == m_pending_requests
             batches == m_active_request_batches
  <2>1. q \in [1 .. Len(q) -> At("pending")] /\ DOMAIN q = 1 .. Len(q) /\ Len(q) \in Nat
    BY DEF QueueInv, At
  <2>2. /\ \A i \in 1 .. Len(q) : q[i] \in At("pending")
        /\ \A r \in At("pending") : \E i \in 1 .. Len(q) : q[i] = r
        /\ \A i, j \in 1 .. Len(q) : q[i] = q[j] => i = j
    BY DEF QueueInv, At
  <2>3. At("pending") = Range(q)
    BY <2>1, <2>2 DEF Range
  <2>4. Len(q) = Cardinality(At("pending"))
    <3>1. q \in Bijection(1 .. Len(q), At("pending"))
      BY <2>1, <2>2 DEF Bijection, Injection, Surjection, IsInjective
    <3>2. ExistsBijection(1 .. Len(q), At("pending"))
      BY <3>1 DEF ExistsBijection
    <3>3. IsFiniteSet(1 .. Len(q)) /\ Cardinality(1 .. Len(q)) = Len(q)
      <4> DEFINE n == Len(q)
      <4>1. n \in Int /\ n >= 0 /\ 1 \in Int
        BY <2>1
      <4> HIDE DEF n
      <4>2. IsFiniteSet(1 .. n) /\ Cardinality(1 .. n) = IF 1 > n THEN 0 ELSE n - 1 + 1
        BY <4>1, FS_Interval
      <4>3. IsFiniteSet(1 .. n) /\ Cardinality(1 .. n) = n
        BY <4>1, <4>2
      <4> QED
        BY <4>3 DEF n
    <3> QED
      BY <3>2, <3>3, FS_Bijection
  <2>5. At("running") \cup At("parked") = UNION Range(batches)
    <3>1. DOMAIN batches = 1 .. Len(batches)
      BY DEF BatchInv
    <3>2. \A r : r \in UNION Range(batches) <=> \E i \in 1 .. Len(batches) : r \in batches[i]
      BY <3>1 DEF Range
    <3>3. \A r : r \in At("running") \cup At("parked") <=>
                   \E i \in 1 .. Len(batches) : r \in batches[i]
      <4>1. ASSUME NEW i \in 1 .. Len(batches), NEW r \in batches[i]
            PROVE  r \in Requests /\ loc[r] \in {"running", "parked"}
        BY DEF BatchInv
      <4>2. \A r \in Requests : loc[r] \in {"running", "parked"} =>
              \E i \in 1 .. Len(batches) : r \in batches[i]
        BY DEF OwnedInv
      <4> HIDE DEF batches
      <4> QED
        BY <4>1, <4>2 DEF At
    <3> HIDE DEF batches
    <3> QED
      BY <3>2, <3>3
  <2>6. \A i, j \in DOMAIN batches : i # j => batches[i] \cap batches[j] = {}
    BY DEF BatchInv
  <2> QED
    BY <2>3, <2>4, <2>5, <2>6 DEF OneOwner
<1> QED
  BY <1>1, ListsHold, PTL

\* on_complete and the sequential limits: for every set of requests and limits, a
\* request holds every slot it uses from its first admission until on_complete
\* runs, through parking, delays, denied retries, cancellation and shutdown.
THEOREM TokensHeldThroughRetries == Spec => []HoldsThroughRetries
<1>1. ListsInv => HoldsThroughRetries
  BY DEF ListsInv, TokenInv, HoldsThroughRetries
<1> QED
  BY <1>1, ListsHold, PTL

\* release_request: no request that has finished holds a slot; nor does one that
\* was destroyed, when none is.
THEOREM TokensReturned ==
    ASSUME NoneLost
    PROVE  Spec => []NoTokenAfterEnd
<1>1. ListsInv => NoTokenAfterEnd
  BY DEF ListsInv, TokenInv, PhaseInv, NoTokenAfterEnd
<1> QED
  BY <1>1, ListsHold, PTL

\* should_retry: for every set of requests and any numbers of attempts, a request
\* that has delivered a chunk is in no list that leads to another transfer.
THEOREM ChunksAreFinal == Spec => []NoRetryAfterChunk
<1>1. ListsInv => NoRetryAfterChunk
  BY DEF ListsInv, ChunkInv, NoRetryAfterChunk
<1> QED
  BY <1>1, ListsHold, PTL

-----------------------------------------------------------------------------
(* Refinement                                                              *)

\* What is open to the user is what is outstanding in the manager.
LEMMA OpenIsOutstanding ==
    ASSUME PhaseInv
    PROVE  \A g : Lifecycle!InGroup(RequestStatus, g) = Outstanding \cap Members(g)
<1>1. Lifecycle!Open(RequestStatus) = Outstanding
  BY DEF Lifecycle!Open, RequestStatus, Outstanding, Accepted, Locations, PhaseInv
<1> QED
  BY <1>1 DEF Lifecycle!InGroup, Members, Outstanding

\* A request moves to its next status.
LEMMA StatusGoes ==
    ASSUME PhaseInv', CountInv', NEW r \in Requests, NEW from, NEW to,
           RequestStatus[r] = from, RequestStatus' = [RequestStatus EXCEPT ![r] = to]
    PROVE  Lifecycle!Goes(r, from, to)
<1>1. Lifecycle!Open(RequestStatus') = Outstanding'
  BY DEF Lifecycle!Open, RequestStatus, Outstanding, Accepted, Locations, PhaseInv
<1>2. \A g : Lifecycle!InGroup(RequestStatus', g) = Outstanding' \cap Members(g)
  BY <1>1, Zenon DEF Lifecycle!InGroup, Members, Outstanding
<1>3. m_group_request_counts' =
        [g \in Groups |-> Cardinality(Lifecycle!InGroup(RequestStatus', g))]
  BY <1>2, Zenon DEF CountInv, Members
<1>4. \A S : Lifecycle!Cardinality(S) = Cardinality(S)
  BY DEF Lifecycle!Cardinality, Cardinality
<1> QED
  BY <1>3, <1>4 DEF Lifecycle!Goes


\* A waiter of a group that counts nothing has been served.
LEMMA IdleServes ==
    ASSUME PhaseInv, CountInv, WaitInv, NEW w \in Waiters, wait[w] = "waiting",
           m_group_request_counts[WaitsFor[w]] = 0
    PROVE  Lifecycle!Served(w)
<1>1. Outstanding \cap Members(WaitsFor[w]) = {}
  BY IdleGroup, ManagerAssumption
<1>2. \A r \in waitDue[w] : r \in Requests /\ loc[r] = "done"
  BY <1>1 DEF WaitInv, Outstanding, Members
<1> QED
  BY <1>2 DEF Lifecycle!Served, RequestStatus

\* Waiters that have been served may be answered.
LEMMA WaitersGo ==
    ASSUME WaitInv, NEW W \in SUBSET Waiters,
           \A w \in W : wait[w] = "waiting" /\ Lifecycle!Served(w),
           wait' = [w \in Waiters |-> IF w \in W THEN "ready" ELSE wait[w]]
    PROVE  \E V \in SUBSET {w \in Waiters : WaiterStatus[w] = "registered" /\ Lifecycle!Served(w)} :
             WaiterStatus' = [w \in Waiters |-> IF w \in V THEN "over" ELSE WaiterStatus[w]]
<1>1. W \in SUBSET {w \in Waiters : WaiterStatus[w] = "registered" /\ Lifecycle!Served(w)}
  BY DEF WaiterStatus
<1>2. WaiterStatus' = [w \in Waiters |-> IF w \in W THEN "over" ELSE WaiterStatus[w]]
  BY DEF WaiterStatus
<1> QED
  BY <1>1, <1>2

\* Every step of the manager is a step of the lifecycle, or none.
LEMMA LifecycleStep ==
    ASSUME NoneLost, PhaseInv, BatchInv, CountInv, WaitInv,
           PhaseInv', CountInv', [Next]_vars
    PROVE  [Lifecycle!Next]_(Lifecycle!vars)
<1> USE DEF Lifecycle!Next
<1>1. ASSUME NEW r \in Requests, SubmitRequest(r)
      PROVE  Lifecycle!Accept(r) \/ Lifecycle!Refuse(r)
  <2>1. RequestStatus[r] = "idle" /\ UNCHANGED <<WaiterStatus, waitDue>>
    BY <1>1 DEF SubmitRequest, RequestStatus, WaiterStatus, userVars
  <2>2. \/ RequestStatus' = [RequestStatus EXCEPT ![r] = "open"]
        \/ RequestStatus' = [RequestStatus EXCEPT ![r] = "refused"]
    BY <1>1, Zenon DEF SubmitRequest, RequestStatus, Move
  <2> QED
    BY <2>1, <2>2, StatusGoes DEF Lifecycle!Accept, Lifecycle!Refuse
<1>2. ASSUME NEW r \in Requests, FinalCallback(r)
      PROVE  Lifecycle!Answer(r)
  <2>1. RequestStatus[r] = "open" /\ UNCHANGED <<WaiterStatus, waitDue>>
    BY <1>2 DEF FinalCallback, RequestStatus, WaiterStatus, userVars
  <2>2. RequestStatus' = [RequestStatus EXCEPT ![r] = "answered"]
    BY <1>2, Zenon DEF FinalCallback, RequestStatus, Move
  <2> QED
    BY <2>1, <2>2, StatusGoes, Zenon DEF Lifecycle!Answer
<1>3. ASSUME NEW r \in Requests, Release(r)
      PROVE  UNCHANGED Lifecycle!vars
  <2>1. UNCHANGED <<m_group_request_counts, wait, waitDue>>
    BY <1>3 DEF Release, userVars
  <2>2. RequestStatus' = RequestStatus
    BY <1>3 DEF Release, RequestStatus, Move
  <2> QED
    BY <2>1, <2>2 DEF Lifecycle!vars, WaiterStatus
<1>4. ASSUME NEW r \in Requests, CompleteGroupRequest(r)
      PROVE  Lifecycle!Finish(r)
  <2> DEFINE W == ReadyWaiters(GroupOf[r], LeaveGroup(r))
  <2>1. /\ loc[r] = "released" /\ loc' = Move({r}, "done")
        /\ m_group_request_counts' = LeaveGroup(r)
        /\ wait' = [w \in Waiters |-> IF w \in W THEN "ready" ELSE wait[w]]
        /\ UNCHANGED waitDue
    BY <1>4 DEF CompleteGroupRequest
  <2>2. RequestStatus[r] = "answered" /\ RequestStatus' = [RequestStatus EXCEPT ![r] = "finished"]
    BY <2>1, Zenon DEF RequestStatus, Move
  <2>3. ASSUME NEW w \in W
        PROVE  w \in Waiters /\ wait[w] = "waiting" /\ Lifecycle!Served(w)
    <3>1. /\ w \in Waiters /\ wait[w] = "waiting" /\ WaitsFor[w] = GroupOf[r]
          /\ m_group_request_counts'[WaitsFor[w]] = 0 /\ WaitsFor[w] \in Groups
      BY <2>1, ManagerAssumption, Zenon DEF ReadyWaiters
    <3>2. Outstanding' \cap Members(WaitsFor[w]) = {}
      BY <3>1, IdleGroupNext
    <3>3. \A q \in waitDue[w] : q \in Requests /\ loc[q] \in {"released", "done"}
      BY <2>1, <3>1, <3>2, Zenon DEF WaitInv, Outstanding, Members, Move, Accepted, Locations
    <3> QED
      BY <3>1, <3>3 DEF Lifecycle!Served, RequestStatus
  <2> HIDE DEF W
  <2>4. W \in SUBSET Waiters
    BY <2>3
  <2> QED
    BY <2>1, <2>2, <2>3, <2>4, StatusGoes, WaitersGo, Zenon DEF Lifecycle!Finish
<1>5. CASE Process \/ Stop \/ Calls \/ UNCHANGED vars
  <2>1. RequestStatus' = RequestStatus /\ UNCHANGED m_group_request_counts
    BY <1>5, InternalStep DEF InternalMove, Live, RequestStatus
  <2>2. CASE UNCHANGED <<wait, waitDue>>
    BY <2>1, <2>2 DEF Lifecycle!vars, WaiterStatus
  <2>3. ASSUME NEW w \in Waiters, WaitRequests(w)
        PROVE  Lifecycle!Register(w)
    <3>1. WaiterStatus[w] = "none" /\ waitDue[w] = {}
      BY <2>3 DEF WaitRequests, WaiterStatus, WaitInv
    <3>2. CASE wait' = [wait EXCEPT ![w] = "called"] /\ waitDue' = [waitDue EXCEPT ![w] = {}]
      <4>1. WaiterStatus' = [WaiterStatus EXCEPT ![w] = "over"] /\ waitDue' = waitDue
        BY <3>1, <3>2, Zenon DEF WaiterStatus, WaitInv
      <4> QED
        BY <2>1, <3>1, <4>1 DEF Lifecycle!Register
    <3>3. CASE /\ wait' = [wait EXCEPT ![w] = "waiting"]
               /\ waitDue' = [waitDue EXCEPT ![w] = Outstanding \cap Members(WaitsFor[w])]
      <4>1. WaiterStatus' = [WaiterStatus EXCEPT ![w] = "registered"]
        BY <3>3, Zenon DEF WaiterStatus, WaitInv
      <4> QED
        BY <2>1, <3>1, <3>3, <4>1, OpenIsOutstanding, Zenon DEF Lifecycle!Register
    <3> QED
      BY <2>3, <3>2, <3>3, Zenon DEF WaitRequests
  <2>4. ASSUME NEW w \in Waiters, CancelWait(w)
        PROVE  Lifecycle!Withdraw(w)
    <3>1. WaiterStatus[w] = "registered" /\ WaiterStatus' = [WaiterStatus EXCEPT ![w] = "over"]
      BY <2>4, Zenon DEF CancelWait, WaiterStatus, WaitInv
    <3> QED
      BY <2>1, <2>4, <3>1 DEF CancelWait, Lifecycle!Withdraw
  <2>5. ASSUME NEW w \in Waiters, CallWaiter(w)
        PROVE  UNCHANGED Lifecycle!vars
    <3>1. WaiterStatus' = WaiterStatus
      BY <2>5 DEF CallWaiter, WaiterStatus, WaitInv
    <3> QED
      BY <2>1, <2>5, <3>1 DEF CallWaiter, Lifecycle!vars
  <2>6. CASE NotifyGroupWaitersIfIdle
    <3> DEFINE W == {w \in Waiters : wait[w] = "waiting" /\ m_group_request_counts[WaitsFor[w]] = 0}
    <3>1. wait' = [w \in Waiters |-> IF w \in W THEN "ready" ELSE wait[w]]
      BY <2>6 DEF NotifyGroupWaitersIfIdle
    <3>2. \A w \in W : wait[w] = "waiting" /\ Lifecycle!Served(w)
      BY IdleServes
    <3>3. W \in SUBSET Waiters /\ UNCHANGED waitDue
      BY <2>6 DEF NotifyGroupWaitersIfIdle
    <3> HIDE DEF W
    <3> QED
      BY <2>1, <3>1, <3>2, <3>3, WaitersGo DEF Lifecycle!Notify
  <2>7. CASE NotifyAllGroupWaiters
    <3> DEFINE W == {w \in Waiters : wait[w] = "waiting"}
    <3>1. wait' = [w \in Waiters |-> IF w \in W THEN "ready" ELSE wait[w]]
      BY <2>7 DEF NotifyAllGroupWaiters
    <3>2. ASSUME NEW w \in W
          PROVE  Lifecycle!Served(w)
      <4>1. \A r \in waitDue[w] : r \in Requests /\ loc[r] \in Accepted
        BY DEF WaitInv
      <4>2. pc = "notifyAll" /\ Quiet
        BY <2>7 DEF NotifyAllGroupWaiters
      <4>3. \A r \in waitDue[w] : r \in Requests /\ loc[r] = "done"
        BY <4>1, <4>2 DEF Quiet, Completing, At, PhaseInv, Accepted, Locations
      <4> QED
        BY <4>3 DEF Lifecycle!Served, RequestStatus
    <3>3. W \in SUBSET Waiters /\ UNCHANGED waitDue /\ \A w \in W : wait[w] = "waiting"
      BY <2>7 DEF NotifyAllGroupWaiters
    <3> HIDE DEF W
    <3> QED
      BY <2>1, <3>1, <3>2, <3>3, WaitersGo, Zenon DEF Lifecycle!Notify
  <2>8. ASSUME NEW r \in Requests, CompleteGroupRequest(r)
        PROVE  Lifecycle!Finish(r)
    BY <1>4, <2>8
  <2> QED
    BY <2>2, <2>3, <2>4, <2>5, <2>6, <2>7, <2>8, WaitSteps
<1> QED
  BY <1>1, <1>2, <1>3, <1>4, <1>5, StepKinds

\* HttpRequestManager implements HttpRequestLifecycle: for every set of requests,
\* groups, limits, calls and waiters, through queues, batches, retries,
\* cancellation and shutdown, every accepted request is answered once before it
\* leaves its group, group_request_count is exact at every moment, and a waiter
\* is answered only after the requests it registered for.
THEOREM ManagerImplementsLifecycle ==
    ASSUME NoneLost
    PROVE  Spec => ImplementsLifecycle
<1> DEFINE Inv == PhaseInv /\ BatchInv /\ CountInv /\ WaitInv
<1>1. Init => Inv
  BY InvInit
<1>2. Inv /\ [Next]_vars => Inv'
  BY PhaseStep, BatchStep, CountStep, WaitStep
<1>3. Init => Lifecycle!Init
  BY DEF Init, Lifecycle!Init, RequestStatus, WaiterStatus
<1>4. Inv /\ Inv' /\ [Next]_vars => [Lifecycle!Next]_(Lifecycle!vars)
  BY LifecycleStep
<1> QED
  BY <1>1, <1>2, <1>3, <1>4, PTL DEF Spec, ImplementsLifecycle, Lifecycle!Spec
=============================================================================
