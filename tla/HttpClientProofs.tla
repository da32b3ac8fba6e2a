-------------------------- MODULE HttpClientProofs --------------------------
(***************************************************************************)
(* HttpClient for every set of clients, requests, caps and waiting calls:  *)
(* its cap holds, its futures mean what they say, and so do the results of *)
(* wait_requests_for and the end of its destructor; and it implements      *)
(* HttpRequestLifecycle as the manager below it does.                      *)
(***************************************************************************)
EXTENDS HttpClient, HttpRequestManagerProofs

-----------------------------------------------------------------------------
(* The manager below the client                                            *)

\* A client over its cap refuses a request that the manager never sees.
ClientRefuses(r) ==
    /\ loc[r] = "new" /\ loc' = Move({r}, "rejected")
    /\ UNCHANGED <<m_shutdown, queueVars, m_group_request_counts, attempt, armed,
                   chunked, finals, holder, userVars, pc, visitVars>>

\* To the manager, a step of the client is one of its own, or a refusal.
LEMMA ManagerBelow ==
    ASSUME [ClientNext]_clientVars
    PROVE  [Next]_vars \/ \E r \in Requests : ClientRefuses(r)
<1>1. ASSUME NEW r \in Requests, CheckInFlight(r)
      PROVE  UNCHANGED vars \/ ClientRefuses(r)
  BY <1>1 DEF CheckInFlight, ClientRefuses, vars, reqVars
<1>2. CASE \E r \in Requests : Submit(r) \/ SubmitHttpRequest(r)
  BY <1>2 DEF Submit, SubmitHttpRequest, ManagerAnswers, Next, User
<1>3. CASE \E w \in Waiters : WaitRequestsFor(w) \/ WaitReturns(w) \/ WaitTimesOut(w)
                                \/ WithdrawWaiter(w)
  BY <1>3 DEF WaitRequestsFor, WaitReturns, WaitTimesOut, WithdrawWaiter, Next, User
<1>4. CASE \/ \E c \in Cancels : CancelRequests(c) \/ (CancelQueue(c) /\ UNCHANGED callVars)
           \/ \E g \in Groups : BeginDestroy(g) \/ Destroyed(g)
  BY <1>4 DEF CancelRequests, BeginDestroy, Destroyed, Next, User
<1>5. CASE ManagerDelivers \/ ManagerSteps \/ TakeCancelRequests
  BY <1>5 DEF ManagerDelivers, ManagerSteps, TakeCancelRequests, Next, Deliver, Process
<1>6. CASE \/ \E r \in Requests : FutureFinal(r)
           \/ \E r \in Requests, bad \in BOOLEAN : FutureRetry(r, bad)
  BY <1>6, Zenon DEF FutureFinal, FutureRetry, Next, Deliver, Process
<1>7. CASE UNCHANGED clientVars
  BY <1>7 DEF clientVars
<1> QED
  BY <1>1, <1>2, <1>3, <1>4, <1>5, <1>6, <1>7 DEF ClientNext, ClientCalls, WorkerSteps

\* What the manager keeps true by itself.
ManagerInv == PhaseInv /\ BatchInv /\ FinalsInv /\ CountInv /\ WaitInv

\* It stays true below the client.
LEMMA ManagerInvStep ==
    ASSUME ManagerInv, [ClientNext]_clientVars
    PROVE  ManagerInv'
<1> USE DEF ManagerInv
<1>1. CASE [Next]_vars
  BY <1>1, PhaseStep, BatchStep, FinalsStep, CountStep, WaitStep
<1>2. ASSUME NEW r \in Requests, ClientRefuses(r)
      PROVE  ManagerInv'
  <2>1. /\ loc[r] = "new" /\ loc' = Move({r}, "rejected")
        /\ UNCHANGED <<m_shutdown, m_active_request_batches, m_group_request_counts,
                       attempt, finals, wait, waitDue, pc, cur, msgs>>
    BY <1>2 DEF ClientRefuses, queueVars, userVars, visitVars
  <2>2. PhaseInv'
    BY <2>1 DEF PhaseInv, Move, Locations, Pcs
  <2>3. BatchInv'
    <3>1. \A q \in Requests : loc[q] \in {"running", "parked"} => loc'[q] = loc[q]
      BY <2>1 DEF Move
    <3> QED
      BY <2>1, <3>1, BatchFrame
  <2>4. FinalsInv'
    BY <2>1 DEF FinalsInv, Move
  <2>5. CountInv'
    <3>1. Outstanding' = Outstanding
      BY <2>1 DEF Outstanding, Move, Accepted, Locations
    <3> QED
      BY <2>1, <3>1 DEF CountInv, Members
  <2>6. WaitInv'
    BY <2>1 DEF WaitInv, Move, Accepted, Locations
  <2> QED
    BY <2>2, <2>3, <2>4, <2>5, <2>6
<1> QED
  BY <1>1, <1>2, ManagerBelow


-----------------------------------------------------------------------------
(* max_in_flight                                                           *)

\* Whoever is between the check and the submission holds the client's mutex, and
\* while it is held there is room for one more.
CapInv ==
    /\ m_submit_mutex \in [Groups -> Requests \cup {NoOne}]
    /\ m_group_request_counts \in [Groups -> Int]
    /\ future \in [Requests -> {"none", "open", "response", "error"}]
    /\ \A r \in Requests :
         GroupOf[r] \in Groups /\ loc[r] = "new" /\ future[r] = "open"
           => m_submit_mutex[GroupOf[r]] = r
    /\ \A g \in Groups : MaxInFlight[g] # 0 =>
         /\ m_group_request_counts[g] <= MaxInFlight[g]
         /\ m_submit_mutex[g] # NoOne => m_group_request_counts[g] < MaxInFlight[g]

\* Steps other than a submission: no request becomes new, none of the new ones
\* gets an open future, and no count rises.
LEMMA CapFrame ==
    ASSUME CapInv, UNCHANGED m_submit_mutex,
           future' \in [Requests -> {"none", "open", "response", "error"}],
           m_group_request_counts' \in [Groups -> Int],
           \A g \in Groups : m_group_request_counts'[g] <= m_group_request_counts[g],
           \A r \in Requests : loc'[r] = "new" => loc[r] = "new" /\ future'[r] = future[r]
    PROVE  CapInv'
<1>1. \A g \in Groups : MaxInFlight[g] \in Nat
  BY ClientAssumption
<1> QED
  BY <1>1 DEF CapInv

LEMMA CapStep ==
    ASSUME ManagerInv, CapInv, [ClientNext]_clientVars
    PROVE  CapInv'
<1>1. ASSUME NEW r \in Requests, CheckInFlight(r)
      PROVE  CapInv'
  <2>1. CASE InFlightCapReached(GroupOf[r])
    <3>1. /\ loc' = Move({r}, "rejected") /\ future' = [future EXCEPT ![r] = "error"]
          /\ UNCHANGED <<m_submit_mutex, m_group_request_counts>>
      BY <1>1, <2>1 DEF CheckInFlight
    <3>2. \A q \in Requests : loc'[q] = "new" => loc[q] = "new" /\ future'[q] = future[q]
      BY <3>1 DEF Move, CapInv
    <3> QED
      BY <3>1, <3>2, CapFrame, SMTT(30) DEF CapInv
  <2>2. CASE ~InFlightCapReached(GroupOf[r])
    <3> DEFINE g == GroupOf[r]
    <3>1. /\ g \in Groups /\ m_submit_mutex[g] = NoOne
          /\ m_submit_mutex' = [m_submit_mutex EXCEPT ![g] = r]
          /\ future' = [future EXCEPT ![r] = "open"]
          /\ UNCHANGED <<loc, m_group_request_counts>>
      BY <1>1, <2>2 DEF CheckInFlight, TakeSubmitMutex
    <3>2. MaxInFlight[g] # 0 => m_group_request_counts[g] < MaxInFlight[g]
      <4>1. MaxInFlight[g] \in Nat /\ m_group_request_counts[g] \in Int
        BY <3>1, ClientAssumption, Zenon DEF CapInv
      <4> QED
        BY <2>2, <4>1 DEF InFlightCapReached
    <3>3. ASSUME NEW q \in Requests, GroupOf[q] \in Groups, loc'[q] = "new", future'[q] = "open"
          PROVE  m_submit_mutex'[GroupOf[q]] = q
      <4>1. CASE q = r
        BY <3>1, <4>1 DEF CapInv
      <4>2. CASE q # r
        <5>1. m_submit_mutex[GroupOf[q]] = q
          BY <3>1, <3>3, <4>2 DEF CapInv
        <5>2. GroupOf[q] # g
          BY <3>1, <5>1, ManagerAssumption
        <5> QED
          BY <3>1, <3>3, <5>1, <5>2 DEF CapInv
      <4> QED
        BY <4>1, <4>2
    <3> HIDE DEF g
    <3> QED
      BY <3>1, <3>2, <3>3 DEF CapInv
  <2> QED
    BY <2>1, <2>2
<1>2. ASSUME NEW r \in Requests, Submit(r)
      PROVE  CapInv'
  <2>1. /\ loc[r] = "new" /\ GroupOf[r] \in Groups /\ future[r] = "open"
        /\ m_submit_mutex' = [g \in Groups |-> IF m_submit_mutex[g] = r THEN NoOne
                                               ELSE m_submit_mutex[g]]
        /\ m_group_request_counts' \in {m_group_request_counts, JoinGroup(r)}
        /\ loc' \in {Move({r}, "rejected"), Move({r}, "pending")}
        /\ future' \in {[future EXCEPT ![r] = "error"], [future EXCEPT ![r] = "open"]}
    BY <1>2, Zenon DEF Submit, ManagerAnswers, SubmitRequest
  <2>2. m_submit_mutex[GroupOf[r]] = r
    BY <2>1 DEF CapInv
  <2>3. m_submit_mutex' \in [Groups -> Requests \cup {NoOne}]
    BY <2>1 DEF CapInv
  <2>4. m_group_request_counts' \in [Groups -> Int]
    BY <2>1 DEF CapInv, JoinGroup
  <2>5. future' \in [Requests -> {"none", "open", "response", "error"}]
    BY <2>1 DEF CapInv
  <2>6. ASSUME NEW q \in Requests, GroupOf[q] \in Groups, loc'[q] = "new", future'[q] = "open"
        PROVE  m_submit_mutex'[GroupOf[q]] = q
    <3>1. q # r /\ loc[q] = "new" /\ future[q] = "open"
      BY <2>1, <2>6 DEF Move, CapInv
    <3> QED
      BY <2>1, <2>6, <3>1 DEF CapInv
  <2>7. ASSUME NEW g \in Groups, MaxInFlight[g] # 0
        PROVE  /\ m_group_request_counts'[g] <= MaxInFlight[g]
               /\ m_submit_mutex'[g] # NoOne => m_group_request_counts'[g] < MaxInFlight[g]
    <3>1. MaxInFlight[g] \in Nat /\ NoOne # r
      BY ClientAssumption, ManagerAssumption
    <3>2. CASE g = GroupOf[r]
      <4>1. m_group_request_counts[g] < MaxInFlight[g] /\ m_submit_mutex'[g] = NoOne
        BY <2>1, <2>2, <2>7, <3>1, <3>2 DEF CapInv
      <4>2. m_group_request_counts'[g] <= m_group_request_counts[g] + 1
        BY <2>1, <3>2 DEF JoinGroup, CapInv
      <4> QED
        BY <3>1, <4>1, <4>2, <2>4 DEF CapInv
    <3>3. CASE g # GroupOf[r]
      <4>1. m_group_request_counts'[g] = m_group_request_counts[g]
        BY <2>1, <3>3 DEF JoinGroup, CapInv
      <4>2. m_submit_mutex'[g] # NoOne => m_submit_mutex[g] # NoOne
        BY <2>1
      <4> QED
        BY <2>7, <4>1, <4>2 DEF CapInv
    <3> QED
      BY <3>2, <3>3
  <2> QED
    BY <2>3, <2>4, <2>5, <2>6, <2>7 DEF CapInv
<1>3. ASSUME NEW r \in Requests, SubmitHttpRequest(r)
      PROVE  CapInv'
  <2>1. /\ GroupOf[r] \notin Groups /\ UNCHANGED m_submit_mutex
        /\ m_group_request_counts' \in {m_group_request_counts, JoinGroup(r)}
        /\ loc' \in {Move({r}, "rejected"), Move({r}, "pending")}
        /\ future' \in {[future EXCEPT ![r] = "error"], [future EXCEPT ![r] = "open"]}
    BY <1>3, Zenon DEF SubmitHttpRequest, ManagerAnswers, SubmitRequest
  <2>2. m_group_request_counts' = m_group_request_counts
    BY <2>1 DEF JoinGroup, CapInv
  <2>3. \A q \in Requests : loc'[q] = "new" => loc[q] = "new" /\ future'[q] = future[q]
    BY <2>1 DEF Move, CapInv
  <2>4. future' \in [Requests -> {"none", "open", "response", "error"}]
    BY <2>1 DEF CapInv
  <2> QED
    BY <2>1, <2>2, <2>3, <2>4, CapFrame DEF CapInv
<1>4. ASSUME NEW r \in Requests, FutureFinal(r) \/ Release(r) \/ CompleteGroupRequest(r),
             UNCHANGED m_submit_mutex,
             future' \in {future, SetResponse(r, TRUE)}
      PROVE  CapInv'
  <2>1. /\ loc[r] # "new"
        /\ loc' \in {Move({r}, "answered"), Move({r}, "released"), Move({r}, "done")}
        /\ m_group_request_counts' \in {m_group_request_counts, LeaveGroup(r)}
    BY <1>4, Zenon DEF FutureFinal, FinalCallback, Release, CompleteGroupRequest
  <2>2. m_group_request_counts' \in [Groups -> Int]
    BY <2>1 DEF CapInv, LeaveGroup
  <2>3. \A g \in Groups : m_group_request_counts'[g] <= m_group_request_counts[g]
    BY <2>1 DEF CapInv, LeaveGroup
  <2>4. future' \in [Requests -> {"none", "open", "response", "error"}]
    BY <1>4 DEF CapInv, SetResponse
  <2>5. \A q \in Requests : loc'[q] = "new" => loc[q] = "new" /\ future'[q] = future[q]
    BY <1>4, <2>1 DEF Move, CapInv, SetResponse
  <2> QED
    BY <1>4, <2>2, <2>3, <2>4, <2>5, CapFrame
<1>5. ASSUME Process \/ Stop \/ Calls \/ UNCHANGED vars, UNCHANGED <<m_submit_mutex, future>>
      PROVE  CapInv'
  <2>1. InternalMove
    BY <1>5, InternalStep DEF ManagerInv
  <2> QED
    BY <1>5, <2>1, CapFrame DEF InternalMove, Live, CapInv
<1>6. CASE \/ \E w \in Waiters : WaitRequestsFor(w) \/ WaitReturns(w) \/ WaitTimesOut(w)
                                   \/ WithdrawWaiter(w)
           \/ \E c \in Cancels : CancelRequests(c) \/ (CancelQueue(c) /\ UNCHANGED callVars)
           \/ \E g \in Groups : BeginDestroy(g) \/ Destroyed(g)
           \/ UNCHANGED clientVars
  <2>1. (Calls \/ UNCHANGED vars) /\ UNCHANGED <<m_submit_mutex, future>>
    BY <1>6 DEF WaitRequestsFor, WaitReturns, WaitTimesOut, WithdrawWaiter, CancelRequests,
                BeginDestroy, Destroyed, clientVars, callVars, Calls
  <2> QED
    BY <1>5, <2>1
<1>7. CASE ((ManagerDelivers \/ ManagerSteps) /\ UNCHANGED callVars) \/ TakeCancelRequests
  <2>1. /\ \/ \E r \in Requests : Release(r) \/ CompleteGroupRequest(r)
           \/ Calls \/ Process
        /\ UNCHANGED <<m_submit_mutex, future>>
    BY <1>7, Zenon DEF ManagerDelivers, ManagerSteps, TakeCancelRequests, Calls, Process, callVars
  <2> QED
    BY <1>4, <1>5, <2>1
<1>8. ASSUME NEW r \in Requests, NEW bad \in BOOLEAN, FutureRetry(r, bad)
      PROVE  CapInv'
  <2>1. SetResponse(r, FALSE) = future
    BY DEF SetResponse, CapInv
  <2>2. UNCHANGED <<m_submit_mutex, future>> /\ Process
    BY <1>8, <2>1, Zenon DEF FutureRetry, Process
  <2> QED
    BY <1>5, <2>2
<1>9. ASSUME NEW r \in Requests, FutureFinal(r)
      PROVE  CapInv'
  BY <1>4, <1>9, Zenon DEF FutureFinal
<1> QED
  BY <1>1, <1>2, <1>3, <1>6, <1>7, <1>8, <1>9 DEF ClientNext, ClientCalls, WorkerSteps


-----------------------------------------------------------------------------
(* Futures                                                                 *)

\* What a future holds, by where the request's context is.
FutureInv ==
    /\ future \in [Requests -> {"none", "open", "response", "error"}]
    /\ \A r \in Requests :
         /\ future[r] = "none" => loc[r] = "new"
         /\ future[r] = "error" <=> loc[r] = "rejected"
         /\ future[r] = "response" <=> loc[r] \in {"answered", "released", "done"}

LEMMA FutureStep ==
    ASSUME ManagerInv, FutureInv, [ClientNext]_clientVars
    PROVE  FutureInv'
<1>1. ASSUME NEW r \in Requests, CheckInFlight(r)
      PROVE  FutureInv'
  <2>1. /\ loc[r] = "new" /\ future[r] = "none"
        /\ \/ loc' = Move({r}, "rejected") /\ future' = [future EXCEPT ![r] = "error"]
           \/ loc' = loc /\ future' = [future EXCEPT ![r] = "open"]
    BY <1>1 DEF CheckInFlight
  <2> QED
    BY <2>1 DEF FutureInv, Move
<1>2. ASSUME NEW r \in Requests, Submit(r) \/ SubmitHttpRequest(r)
      PROVE  FutureInv'
  <2>1. /\ loc[r] = "new"
        /\ \/ loc' = Move({r}, "rejected") /\ future' = [future EXCEPT ![r] = "error"]
           \/ loc' = Move({r}, "pending") /\ future' = [future EXCEPT ![r] = "open"]
    BY <1>2 DEF Submit, SubmitHttpRequest, ManagerAnswers, SubmitRequest, Move
  <2> QED
    BY <2>1 DEF FutureInv, Move
<1>3. ASSUME NEW r \in Requests, FutureFinal(r)
      PROVE  FutureInv'
  <2>1. loc[r] = "closing" /\ loc' = Move({r}, "answered") /\ future' = SetResponse(r, TRUE)
    BY <1>3 DEF FutureFinal, FinalCallback
  <2>2. future[r] = "open"
    BY <2>1 DEF FutureInv
  <2> QED
    BY <2>1, <2>2 DEF FutureInv, Move, SetResponse
<1>4. ASSUME NEW r \in Requests, Release(r) \/ CompleteGroupRequest(r), UNCHANGED future
      PROVE  FutureInv'
  BY <1>4 DEF Release, CompleteGroupRequest, FutureInv, Move
<1>5. ASSUME Process \/ Stop \/ Calls \/ UNCHANGED vars, UNCHANGED future
      PROVE  FutureInv'
  <2>1. InternalMove
    BY <1>5, InternalStep DEF ManagerInv
  <2> QED
    BY <1>5, <2>1 DEF InternalMove, Live, FutureInv
<1>6. CASE \/ \E w \in Waiters : WaitRequestsFor(w) \/ WaitReturns(w) \/ WaitTimesOut(w)
                                   \/ WithdrawWaiter(w)
           \/ \E c \in Cancels : CancelRequests(c) \/ (CancelQueue(c) /\ UNCHANGED callVars)
           \/ \E g \in Groups : BeginDestroy(g) \/ Destroyed(g)
           \/ UNCHANGED clientVars
  <2>1. (Calls \/ UNCHANGED vars) /\ UNCHANGED future
    BY <1>6 DEF WaitRequestsFor, WaitReturns, WaitTimesOut, WithdrawWaiter, CancelRequests,
                BeginDestroy, Destroyed, clientVars, callVars, Calls
  <2> QED
    BY <1>5, <2>1
<1>7. CASE ((ManagerDelivers \/ ManagerSteps) /\ UNCHANGED callVars) \/ TakeCancelRequests
  <2>1. /\ \/ \E r \in Requests : Release(r) \/ CompleteGroupRequest(r)
           \/ Calls \/ Process
        /\ UNCHANGED <<m_submit_mutex, future>>
    BY <1>7, Zenon DEF ManagerDelivers, ManagerSteps, TakeCancelRequests, Calls, Process, callVars
  <2> QED
    BY <1>4, <1>5, <2>1
<1>8. ASSUME NEW r \in Requests, NEW bad \in BOOLEAN, FutureRetry(r, bad)
      PROVE  FutureInv'
  <2>1. SetResponse(r, FALSE) = future
    BY DEF SetResponse, FutureInv
  <2>2. UNCHANGED future /\ Process
    BY <1>8, <2>1, Zenon DEF FutureRetry, Process
  <2> QED
    BY <1>5, <2>2
<1> QED
  BY <1>1, <1>2, <1>3, <1>6, <1>7, <1>8 DEF ClientNext, ClientCalls, WorkerSteps

-----------------------------------------------------------------------------
(* wait_requests_for                                                       *)

\* A waiter that has been taken waits for nothing any more, and what the waiting
\* thread knows of it is true.
TimedInv ==
    /\ timed \in [Waiters -> {"none", "pending", "timeout", "true", "false"}]
    /\ \A w \in Waiters :
         /\ wait[w] \in {"ready", "called"} => \A r \in waitDue[w] : loc[r] = "done"
         /\ timed[w] \in {"pending", "timeout"} => wait[w] # "none"
         /\ timed[w] = "true" => wait[w] = "called"
         /\ timed[w] = "false" => wait[w] \in {"ready", "called", "cancelled"}

\* Steps that do not touch the waiters.
LEMMA TimedFrame ==
    ASSUME WaitInv, TimedInv, UNCHANGED <<wait, waitDue, timed>>,
           \A r \in Requests : loc[r] = "done" => loc'[r] = "done"
    PROVE  TimedInv'
BY DEF WaitInv, TimedInv

\* The steps that do.
LEMMA TimedSteps ==
    ASSUME [ClientNext]_clientVars
    PROVE  \/ UNCHANGED <<wait, waitDue, timed>>
           \/ NotifyGroupWaitersIfIdle /\ UNCHANGED timed
           \/ \E r \in Requests : CompleteGroupRequest(r) /\ UNCHANGED timed
           \/ \E w \in Waiters : \/ CallWaiter(w) /\ UNCHANGED timed
                                 \/ WaitRequestsFor(w) \/ WaitReturns(w)
                                 \/ WaitTimesOut(w) \/ WithdrawWaiter(w)
<1>1. CASE ManagerSteps /\ UNCHANGED callVars
  BY <1>1, Zenon DEF ManagerSteps, callVars, userVars, ProcessPending, OpenBatch, Perform,
              PerformFails, EndVisit, ActiveDone, RetryFailed, RetryDone,
              InvokeCancelCallback, CancelDone
<1>2. CASE ManagerDelivers /\ UNCHANGED callVars
  BY <1>2, Zenon DEF ManagerDelivers, callVars, userVars, Release
<1>3. CASE ClientCalls
  BY <1>3, Zenon DEF ClientCalls, callVars, userVars, CheckInFlight, Submit, SubmitHttpRequest,
              ManagerAnswers, SubmitRequest, CancelRequests, CancelCheck, CancelQueue,
              BeginDestroy, Destroyed, vars
<1>4. CASE \/ \E r \in Requests : FutureFinal(r)
           \/ \E r \in Requests, bad \in BOOLEAN : FutureRetry(r, bad)
  BY <1>4, Zenon DEF FutureFinal, FinalCallback, FutureRetry, HandleCompletedRequest, userVars
<1>5. CASE UNCHANGED clientVars
  BY <1>5 DEF clientVars, callVars, vars, userVars
<1>6. CASE TakeCancelRequests
  BY <1>6 DEF TakeCancelRequests, TakeCancels
<1> QED
  BY <1>1, <1>2, <1>3, <1>4, <1>5, <1>6 DEF ClientNext, WorkerSteps

LEMMA TimedStep ==
    ASSUME ManagerInv, TimedInv, [ClientNext]_clientVars
    PROVE  TimedInv'
<1> USE DEF ManagerInv
<1>1. \A r \in Requests : loc[r] = "done" => loc'[r] = "done"
  BY ManagerBelow, NoWayBack DEF ClientRefuses, Move
<1>2. CASE UNCHANGED <<wait, waitDue, timed>>
  BY <1>1, <1>2, TimedFrame
<1>3. CASE NotifyGroupWaitersIfIdle /\ UNCHANGED timed
  <2>1. /\ wait' = [w \in Waiters |->
                      IF wait[w] = "waiting" /\ m_group_request_counts[WaitsFor[w]] = 0
                      THEN "ready" ELSE wait[w]]
        /\ UNCHANGED <<loc, waitDue, timed>>
    BY <1>3 DEF NotifyGroupWaitersIfIdle, reqVars
  <2>2. ASSUME NEW w \in Waiters, wait[w] = "waiting", m_group_request_counts[WaitsFor[w]] = 0
        PROVE  \A r \in waitDue[w] : loc[r] = "done"
    <3>1. Outstanding \cap Members(WaitsFor[w]) = {}
      BY <2>2, IdleGroup, ManagerAssumption
    <3> QED
      BY <2>2, <3>1 DEF WaitInv, Outstanding, Members
  <2> QED
    BY <2>1, <2>2 DEF WaitInv, TimedInv
<1>4. ASSUME NEW r \in Requests, CompleteGroupRequest(r), UNCHANGED timed
      PROVE  TimedInv'
  <2> DEFINE W == ReadyWaiters(GroupOf[r], LeaveGroup(r))
  <2>1. /\ wait' = [w \in Waiters |-> IF w \in W THEN "ready" ELSE wait[w]]
        /\ m_group_request_counts' = LeaveGroup(r)
        /\ UNCHANGED <<waitDue, timed>>
    BY <1>4 DEF CompleteGroupRequest
  <2>2. ASSUME NEW w \in W
        PROVE  w \in Waiters /\ wait[w] = "waiting" /\ \A q \in waitDue[w] : loc'[q] = "done"
    <3>1. /\ w \in Waiters /\ wait[w] = "waiting" /\ WaitsFor[w] \in Groups
          /\ m_group_request_counts'[WaitsFor[w]] = 0
      BY <2>1, ManagerAssumption DEF ReadyWaiters
    <3>2. CountInv'
      BY ManagerInvStep
    <3>3. Outstanding' \cap Members(WaitsFor[w]) = {}
      BY <3>1, <3>2, IdleGroupNext
    <3>4. \A q \in waitDue[w] : q \in Requests /\ loc[q] \in Accepted /\ GroupOf[q] = WaitsFor[w]
      BY <3>1 DEF WaitInv
    <3>5. \A q \in Requests : loc[q] \in Accepted => loc'[q] \in Accepted
      BY ManagerBelow, NoWayBack, Zenon DEF ClientRefuses, Move, Accepted, Locations
    <3> QED
      BY <3>1, <3>3, <3>4, <3>5 DEF Outstanding, Members
  <2> HIDE DEF W
  <2> QED
    BY <1>1, <2>1, <2>2 DEF WaitInv, TimedInv
<1>5. ASSUME NEW w \in Waiters, CallWaiter(w), UNCHANGED timed
      PROVE  TimedInv'
  <2>1. wait[w] = "ready" /\ wait' = [wait EXCEPT ![w] = "called"] /\ UNCHANGED <<loc, waitDue, timed>>
    BY <1>5 DEF CallWaiter, reqVars
  <2> QED
    BY <2>1 DEF WaitInv, TimedInv
<1>6. ASSUME NEW w \in Waiters, WaitRequestsFor(w)
      PROVE  TimedInv'
  <2>1. /\ wait[w] = "none" /\ timed' = [timed EXCEPT ![w] = "pending"] /\ UNCHANGED loc
        /\ \/ /\ wait' = [wait EXCEPT ![w] = "called"]
              /\ waitDue' = [waitDue EXCEPT ![w] = {}]
           \/ /\ wait' = [wait EXCEPT ![w] = "waiting"]
              /\ waitDue' = [waitDue EXCEPT ![w] = Outstanding \cap Members(WaitsFor[w])]
    BY <1>6, Zenon DEF WaitRequestsFor, WaitRequests, reqVars
  <2> QED
    BY <2>1 DEF WaitInv, TimedInv
<1>7. ASSUME NEW w \in Waiters, WaitReturns(w) \/ WaitTimesOut(w)
      PROVE  TimedInv'
  <2>1. /\ timed[w] = "pending" /\ UNCHANGED <<wait, waitDue, loc>>
        /\ \/ timed' = [timed EXCEPT ![w] = "true"] /\ wait[w] = "called"
           \/ timed' = [timed EXCEPT ![w] = "timeout"]
    BY <1>7 DEF WaitReturns, WaitTimesOut, vars, userVars, reqVars
  <2> QED
    BY <2>1 DEF WaitInv, TimedInv
<1>8. ASSUME NEW w \in Waiters, WithdrawWaiter(w)
      PROVE  TimedInv'
  <2>1. /\ timed[w] = "timeout" /\ timed' = [timed EXCEPT ![w] = "false"]
        /\ UNCHANGED <<waitDue, loc>>
        /\ \/ wait' = [wait EXCEPT ![w] = "cancelled"]
           \/ wait' = wait /\ wait[w] # "waiting"
    BY <1>8 DEF WithdrawWaiter, CancelWait, vars, userVars, reqVars
  <2> QED
    BY <2>1 DEF WaitInv, TimedInv
<1> QED
  BY <1>2, <1>3, <1>4, <1>5, <1>6, <1>7, <1>8, TimedSteps

-----------------------------------------------------------------------------
(* The destructor                                                          *)

\* What the destructor of a client has achieved at each of its stages.  No request
\* of the client is submitted any more, and nothing is lost while nobody stops the
\* manager.
DestroyInv ==
    /\ ~m_shutdown
    /\ cancel \in [Cancels -> {"none", "checked", "queued", "taken", "called"}]
    /\ life \in [Groups -> {"alive", "dying", "gone"}]
    /\ \A r \in Requests : loc[r] # "lost"
    /\ \A g \in Groups :
         /\ life[g] # "alive" => m_submit_mutex[g] = NoOne
         /\ life[g] = "alive" => cancel[Destructor[g]] = "none"
         /\ life[g] = "gone" => cancel[Destructor[g]] = "called"
         /\ \A r \in Outstanding \cap Members(g) :
              /\ cancel[Destructor[g]] = "taken" => r \in spared \/ loc[r] \in Ending
              /\ cancel[Destructor[g]] = "called" => r \in spared

\* Only the end of the worker's thread loses a request.
LEMMA NoneLostStep ==
    ASSUME PhaseInv, BatchInv, [ClientNext]_clientVars, ~m_shutdown, NEW r \in Requests
    PROVE  loc'[r] = "lost" => loc[r] = "lost"
<1>1. ASSUME NEW q \in Requests, ClientRefuses(q)
      PROVE  loc'[r] = "lost" => loc[r] = "lost"
  BY <1>1 DEF ClientRefuses, Move
<1>2. CASE \/ \E q \in Requests : \/ SubmitRequest(q) \/ RetryFailed(q) \/ FinalCallback(q)
                                  \/ Release(q) \/ CompleteGroupRequest(q)
                                  \/ \E bad \in BOOLEAN : HandleCompletedRequest(q, bad)
           \/ OpenBatchThrows \/ CleanupPendingRequests \/ TakeCancels
  BY <1>2, Zenon DEF SubmitRequest, RetryFailed, FinalCallback, Release, CompleteGroupRequest,
                    HandleCompletedRequest, OpenBatchThrows, CleanupPendingRequests, TakeCancels,
                    Move
<1>3. CASE \/ \E D \in SUBSET At("pending"), A \in SUBSET At("pending") : ProcessPending(D, A)
           \/ \E F \in SUBSET At("admitted") : OpenBatch(F)
           \/ \E M \in SUBSET At("running"), C \in SUBSET At("running") : Perform(M, C)
           \/ UNCHANGED <<queueVars, reqVars>>
  BY <1>3, Zenon DEF ProcessPending, OpenBatch, Perform, reqVars
<1>4. CASE EndVisit
  <2>1. loc' = loc \/ loc' = Move(Batch, "failed")
    BY <1>4 DEF EndVisit
  <2> QED
    BY <2>1 DEF Move
<1>5. ~ClearBatches
  BY DEF ClearBatches, PhaseInv
<1> QED
  BY <1>1, <1>2, <1>3, <1>4, <1>5, ManagerBelow, ContextSteps, Zenon

\* What was spared stays so.
LEMMA SparedStep ==
    ASSUME [ClientNext]_clientVars
    PROVE  spared \subseteq spared'
<1>1. CASE TakeCancelRequests
  BY <1>1 DEF TakeCancelRequests
<1>2. CASE ClientCalls
  BY <1>2, Zenon DEF ClientCalls, callVars, CheckInFlight, Submit, SubmitHttpRequest,
              ManagerAnswers, WaitRequestsFor, WaitReturns, WaitTimesOut, WithdrawWaiter,
              CancelRequests, BeginDestroy, Destroyed
<1>3. CASE WorkerSteps /\ ~TakeCancelRequests
  BY <1>3, Zenon DEF WorkerSteps, callVars, FutureFinal, FutureRetry
<1> QED
  BY <1>1, <1>2, <1>3 DEF ClientNext, clientVars, callVars

\* The steps that concern cancelling calls and the lives of clients.
LEMMA DestroySteps ==
    ASSUME [ClientNext]_clientVars
    PROVE  /\ m_shutdown' = m_shutdown
           /\ \/ UNCHANGED <<cancel, life>>
              \/ TakeCancelRequests
              \/ \E c \in Cancels : \/ CancelRequests(c)
                                    \/ CancelQueue(c) /\ UNCHANGED callVars
                                    \/ InvokeCancelCallback(c) /\ UNCHANGED callVars
              \/ \E g \in Groups : BeginDestroy(g) \/ Destroyed(g)
<1>1. CASE ManagerSteps /\ UNCHANGED callVars
  BY <1>1, Zenon DEF ManagerSteps, callVars, userVars, ProcessPending, OpenBatch, Perform,
              PerformFails, EndVisit, ActiveDone, RetryFailed, RetryDone,
              InvokeCancelCallback, CancelDone, NotifyGroupWaitersIfIdle
<1>2. CASE ManagerDelivers /\ UNCHANGED callVars
  BY <1>2, Zenon DEF ManagerDelivers, callVars, userVars, Release, CompleteGroupRequest, CallWaiter
<1>3. CASE \E r \in Requests : CheckInFlight(r) \/ Submit(r) \/ SubmitHttpRequest(r)
  BY <1>3 DEF userVars, CheckInFlight, Submit, SubmitHttpRequest, ManagerAnswers, SubmitRequest
<1>4. CASE \E w \in Waiters : \/ WaitRequestsFor(w) \/ WaitReturns(w) \/ WaitTimesOut(w)
                              \/ WithdrawWaiter(w)
  BY <1>4, Zenon DEF WaitRequestsFor, WaitRequests, WaitReturns, WaitTimesOut, WithdrawWaiter,
              CancelWait, vars, userVars
<1>5. CASE \/ \E c \in Cancels : CancelRequests(c) \/ (CancelQueue(c) /\ UNCHANGED callVars)
           \/ \E g \in Groups : BeginDestroy(g) \/ Destroyed(g)
  BY <1>5, Zenon DEF CancelRequests, CancelCheck, CancelQueue, BeginDestroy, Destroyed, vars
<1>6. CASE \/ \E r \in Requests : FutureFinal(r)
           \/ \E r \in Requests, bad \in BOOLEAN : FutureRetry(r, bad)
  BY <1>6, Zenon DEF FutureFinal, FinalCallback, FutureRetry, HandleCompletedRequest, userVars
<1>7. CASE UNCHANGED clientVars
  BY <1>7 DEF clientVars, callVars, vars, userVars
<1>8. CASE TakeCancelRequests
  BY <1>8 DEF TakeCancelRequests, TakeCancels
<1> QED
  BY <1>1, <1>2, <1>3, <1>4, <1>5, <1>6, <1>7, <1>8 DEF ClientNext, ClientCalls, WorkerSteps

\* A client whose destructor runs takes no more requests.
LEMMA NoMoreRequests ==
    ASSUME ManagerInv, CapInv, DestroyInv, [ClientNext]_clientVars,
           NEW g \in Groups, life[g] # "alive"
    PROVE  /\ m_submit_mutex'[g] = NoOne
           /\ Outstanding' \cap Members(g) \subseteq Outstanding
<1>1. m_submit_mutex[g] = NoOne
  BY Zenon DEF DestroyInv
<1>2. ASSUME NEW r \in Requests, CheckInFlight(r)
      PROVE  /\ m_submit_mutex'[g] = NoOne
             /\ Outstanding' \cap Members(g) \subseteq Outstanding
  <2>1. GroupOf[r] # g /\ (\/ UNCHANGED m_submit_mutex
                           \/ m_submit_mutex' = [m_submit_mutex EXCEPT ![GroupOf[r]] = r])
    BY <1>2, Zenon DEF CheckInFlight, TakeSubmitMutex
  <2>2. loc' = loc \/ loc' = Move({r}, "rejected")
    BY <1>2 DEF CheckInFlight
  <2> QED
    BY <1>1, <2>1, <2>2, Zenon DEF CapInv, Outstanding, Accepted, Move
<1>3. ASSUME NEW r \in Requests, Submit(r)
      PROVE  /\ m_submit_mutex'[g] = NoOne
             /\ Outstanding' \cap Members(g) \subseteq Outstanding
  <2>1. /\ GroupOf[r] \in Groups /\ future[r] = "open" /\ loc[r] = "new"
        /\ loc' = Move({r}, "pending") \/ loc' = Move({r}, "rejected")
        /\ m_submit_mutex' = [h \in Groups |-> IF m_submit_mutex[h] = r THEN NoOne
                                               ELSE m_submit_mutex[h]]
    BY <1>3 DEF Submit, ManagerAnswers, SubmitRequest
  <2>2. GroupOf[r] # g
    BY <1>1, <2>1, ManagerAssumption, Zenon DEF CapInv
  <2> QED
    BY <1>1, <2>1, <2>2 DEF Outstanding, Members, Move
<1>4. ASSUME NEW r \in Requests, SubmitHttpRequest(r)
      PROVE  /\ m_submit_mutex'[g] = NoOne
             /\ Outstanding' \cap Members(g) \subseteq Outstanding
  <2>1. /\ GroupOf[r] # g /\ UNCHANGED m_submit_mutex
        /\ loc' = Move({r}, "pending") \/ loc' = Move({r}, "rejected")
    BY <1>4 DEF SubmitHttpRequest, ManagerAnswers, SubmitRequest
  <2> QED
    BY <1>1, <2>1 DEF Outstanding, Members, Move
<1>5. ASSUME \/ Process \/ Stop \/ Calls \/ UNCHANGED vars
             \/ \E r \in Requests : FinalCallback(r) \/ Release(r) \/ CompleteGroupRequest(r),
             UNCHANGED m_submit_mutex
      PROVE  /\ m_submit_mutex'[g] = NoOne
             /\ Outstanding' \cap Members(g) \subseteq Outstanding
  <2>1. CASE Process \/ Stop \/ Calls \/ UNCHANGED vars
    <3>1. InternalMove
      BY <2>1, InternalStep DEF ManagerInv
    <3> QED
      BY <1>1, <1>5, <3>1 DEF InternalMove, Live, Outstanding, Accepted, Locations
  <2>2. ASSUME NEW r \in Requests, FinalCallback(r) \/ Release(r) \/ CompleteGroupRequest(r)
        PROVE  Outstanding' \subseteq Outstanding
    BY <2>2, Zenon DEF FinalCallback, Release, CompleteGroupRequest, Move, Outstanding, Accepted, Locations
  <2> QED
    BY <1>1, <1>5, <2>1, <2>2
<1>6. CASE \/ \E w \in Waiters : WaitRequestsFor(w) \/ WaitReturns(w) \/ WaitTimesOut(w)
                                   \/ WithdrawWaiter(w)
           \/ \E c \in Cancels : CancelRequests(c) \/ (CancelQueue(c) /\ UNCHANGED callVars)
           \/ \E h \in Groups : BeginDestroy(h) \/ Destroyed(h)
           \/ UNCHANGED clientVars
  <2>1. (Calls \/ UNCHANGED vars) /\ UNCHANGED m_submit_mutex
    BY <1>6, Zenon DEF WaitRequestsFor, WaitReturns, WaitTimesOut, WithdrawWaiter, CancelRequests,
                BeginDestroy, Destroyed, clientVars, callVars, Calls
  <2> QED
    BY <1>5, <2>1
<1>7. CASE WorkerSteps
  <2>1. /\ UNCHANGED m_submit_mutex
        /\ \/ \E r \in Requests : FinalCallback(r) \/ Release(r) \/ CompleteGroupRequest(r)
           \/ Calls \/ Process
    BY <1>7, Zenon DEF WorkerSteps, ManagerDelivers, ManagerSteps, TakeCancelRequests, Calls,
                Process, FutureFinal, FutureRetry, callVars
  <2> QED
    BY <1>5, <2>1, Zenon
<1> QED
  BY <1>2, <1>3, <1>4, <1>6, <1>7, Zenon DEF ClientNext, ClientCalls

LEMMA DestroyStep ==
    ASSUME ManagerInv, CapInv, DestroyInv, [ClientNext]_clientVars
    PROVE  DestroyInv'
<1> DEFINE Stage(g) == cancel[Destructor[g]]
           Settled(g, r) ==
               /\ Stage(g) = "taken" => r \in spared \/ loc[r] \in Ending
               /\ Stage(g) = "called" => r \in spared
<1>1. \A r \in Requests : /\ r \in spared => r \in spared'
                          /\ loc[r] \in Ending => loc'[r] \in Ending
  <2>1. \A r \in Requests : loc[r] \in Ending => loc'[r] \in Ending
    BY ManagerBelow, NoWayBack DEF ClientRefuses, Move, Ending, ManagerInv
  <2> QED
    BY <2>1, SparedStep, Zenon
<1>2. \A r \in Requests : loc'[r] # "lost"
  BY NoneLostStep, Zenon DEF ManagerInv, DestroyInv
<1>3. ~m_shutdown'
  BY DestroySteps, Zenon DEF DestroyInv
<1>4. \A g \in Groups : Destructor[g] \in Cancels /\ CancelTarget[Destructor[g]] = g
  BY ClientAssumption
<1>5. CASE UNCHANGED <<cancel, life>>
  <2>1. ASSUME NEW g \in Groups, NEW r \in Outstanding' \cap Members(g)
        PROVE  Settled(g, r)'
    <3>1. CASE life[g] = "alive"
      BY <1>5, <3>1, Zenon DEF DestroyInv
    <3>2. CASE life[g] # "alive"
      <4>1. r \in Outstanding \cap Members(g) /\ r \in Requests
        BY <2>1, <3>2, NoMoreRequests DEF Members
      <4> QED
        BY <1>1, <1>5, <4>1 DEF DestroyInv
    <3> QED
      BY <3>1, <3>2, Zenon
  <2>2. \A g \in Groups : life'[g] # "alive" => m_submit_mutex'[g] = NoOne
    BY <1>5, NoMoreRequests
  <2> QED
    BY <1>2, <1>3, <1>5, <2>1, <2>2, Zenon DEF DestroyInv, Members
<1>6. CASE TakeCancelRequests
  <2> DEFINE taken == {c \in Cancels : cancel[c] = "queued"}
  <2>1. /\ cancel' = [c \in Cancels |-> IF c \in taken THEN "taken" ELSE cancel[c]]
        /\ loc' = Move(Cancelled(taken), "closing")
        /\ pc = "cancel" /\ Quiet
        /\ UNCHANGED <<life, m_submit_mutex>>
    BY <1>6, Zenon DEF TakeCancelRequests, TakeCancels
  <2>2. ASSUME NEW g \in Groups, NEW r \in Outstanding' \cap Members(g)
        PROVE  Settled(g, r)'
    <3>0. r \in Requests /\ r \in Outstanding \cap Members(g)
      BY <2>1, Zenon DEF Outstanding, Members, Move, Cancelled, At, Accepted, Locations
    <3>1. CASE Stage(g) = "queued"
      <4>1. loc[r] \in {"pending", "failed", "running", "parked"}
        BY <2>1, <3>0 DEF Quiet, Completing, At, PhaseInv, ManagerInv, DestroyInv, Outstanding,
                          Accepted, Locations
      <4>2. r \notin NullRequests /\ GroupOf[r] = g
        BY <2>2, ManagerAssumption DEF Members
      <4>3. loc[r] \in {"pending", "failed", "running"} => r \in Cancelled(taken)
        BY <1>4, <3>0, <3>1, <4>2 DEF Cancelled, At, MatchesCancel
      <4>4. loc[r] \in {"pending", "failed", "running"} => loc'[r] \in Ending
        BY <2>1, <3>0, <4>3 DEF Move, Ending
      <4>6. loc[r] = "parked" => r \in spared'
        BY <1>6, <3>0, <3>1, <4>2 DEF TakeCancelRequests, At, Members
      <4>5. Stage(g)' = "taken"
        BY <1>4, <2>1, <3>1
      <4> QED
        BY <4>1, <4>4, <4>5, <4>6, Zenon
    <3>2. CASE Stage(g) # "queued"
      <4>1. Stage(g)' = Stage(g)
        BY <1>4, <2>1, <3>2, Zenon
      <4> QED
        BY <1>1, <2>1, <3>0, <4>1, Zenon DEF DestroyInv
    <3> QED
      BY <3>1, <3>2, Zenon
  <2>3. cancel' \in [Cancels -> {"none", "checked", "queued", "taken", "called"}]
    BY <2>1, Zenon DEF DestroyInv
  <2>4. \A g \in Groups : Stage(g) \in {"none", "called"} => Stage(g)' = Stage(g)
    BY <1>4, <2>1, Zenon
  <2> QED
    BY <1>2, <1>3, <2>1, <2>2, <2>3, <2>4, ZenonT(30) DEF DestroyInv, Members
<1>7. ASSUME NEW c \in Cancels, CancelRequests(c)
      PROVE  DestroyInv'
  <2>1. /\ cancel[c] = "none" /\ cancel' = [cancel EXCEPT ![c] = "checked"]
        /\ \A g \in Groups : c = Destructor[g] => life[g] = "dying"
        /\ UNCHANGED <<loc, spared, life, m_submit_mutex>>
    BY <1>7 DEF CancelRequests, CancelCheck, callVars, reqVars, DestroyInv
  <2>2. Outstanding' = Outstanding
    BY <2>1 DEF Outstanding
  <2> QED
    BY <1>2, <1>3, <1>4, <2>1, <2>2, Zenon DEF DestroyInv, Members
<1>8. ASSUME NEW c \in Cancels, CancelQueue(c), UNCHANGED callVars
      PROVE  DestroyInv'
  <2>1. /\ cancel[c] = "checked" /\ UNCHANGED <<loc, spared, life, m_submit_mutex>>
        /\ \/ cancel' = [cancel EXCEPT ![c] = "queued"]
           \/ /\ cancel' = [cancel EXCEPT ![c] = "called"]
              /\ CancelTarget[c] \in Groups /\ m_group_request_counts[CancelTarget[c]] = 0
    BY <1>8, Zenon DEF CancelQueue, callVars, reqVars
  <2>2. Outstanding' = Outstanding
    BY <2>1, Zenon DEF Outstanding
  <2>3. ASSUME NEW g \in Groups, c = Destructor[g], cancel'[c] = "called"
        PROVE  Outstanding \cap Members(g) = {}
    BY <1>4, <2>1, <2>3, IdleGroup DEF ManagerInv, DestroyInv
  <2>4. /\ cancel'[c] \in {"queued", "called"}
        /\ \A d \in Cancels : d # c => cancel'[d] = cancel[d]
        /\ cancel' \in [Cancels -> {"none", "checked", "queued", "taken", "called"}]
    BY <2>1, ZenonT(30) DEF DestroyInv
  <2>5. ASSUME NEW g \in Groups, NEW r \in Outstanding' \cap Members(g)
        PROVE  Settled(g, r)'
    <3>1. CASE c = Destructor[g]
      BY <2>2, <2>3, <2>4, <3>1, ZenonT(30)
    <3>2. CASE c # Destructor[g]
      <4>1. Stage(g)' = Stage(g)
        BY <1>4, <2>4, <3>2, Zenon
      <4> QED
        BY <2>1, <2>2, <4>1 DEF DestroyInv
    <3> QED
      BY <3>1, <3>2, Zenon
  <2>6. \A g \in Groups : Stage(g) \in {"none", "called"} => Stage(g)' = Stage(g)
    BY <1>4, <2>1, <2>4
  <2>7. UNCHANGED <<life, m_submit_mutex>>
    BY <2>1
  <2> QED
    BY <1>2, <1>3, <2>4, <2>5, <2>6, <2>7, ZenonT(30) DEF DestroyInv
<1>9. ASSUME NEW c \in Cancels, InvokeCancelCallback(c), UNCHANGED callVars
      PROVE  DestroyInv'
  <2>1. /\ cancel[c] = "taken" /\ cancel' = [cancel EXCEPT ![c] = "called"] /\ Quiet
        /\ UNCHANGED <<loc, spared, life, m_submit_mutex>>
    BY <1>9 DEF InvokeCancelCallback, callVars, reqVars
  <2>2. Outstanding' = Outstanding
    BY <2>1 DEF Outstanding
  <2>3. \A r \in Outstanding : loc[r] \notin Ending
    BY <2>1 DEF Quiet, Completing, At, Outstanding, Ending, Accepted
  <2> QED
    BY <1>2, <1>3, <1>4, <2>1, <2>2, <2>3 DEF DestroyInv, Members
<1>10. ASSUME NEW g \in Groups, BeginDestroy(g) \/ Destroyed(g)
       PROVE  DestroyInv'
  <2>1. /\ UNCHANGED <<loc, spared, cancel, m_submit_mutex>>
        /\ \/ /\ life[g] = "alive" /\ m_submit_mutex[g] = NoOne
              /\ life' = [life EXCEPT ![g] = "dying"]
           \/ /\ life[g] = "dying" /\ Stage(g) = "called"
              /\ life' = [life EXCEPT ![g] = "gone"]
    BY <1>10, Zenon DEF BeginDestroy, Destroyed, Idle, vars, reqVars, userVars
  <2>2. Outstanding' = Outstanding
    BY <2>1 DEF Outstanding
  <2> QED
    BY <1>2, <1>3, <2>1, <2>2, ZenonT(30) DEF DestroyInv, Members
<1> QED
  BY <1>5, <1>6, <1>7, <1>8, <1>9, <1>10, DestroySteps

-----------------------------------------------------------------------------
(* The client                                                              *)

LEMMA ClientInvInit ==
    ASSUME ClientInit
    PROVE  ManagerInv /\ CapInv /\ FutureInv /\ TimedInv /\ DestroyInv
<1>1. ManagerInv
  BY InvInit DEF ClientInit, ManagerInv
<1>2. CapInv
  <2>1. /\ m_submit_mutex = [g \in Groups |-> NoOne]
        /\ m_group_request_counts = [g \in Groups |-> 0]
        /\ future = [r \in Requests |-> "none"]
    BY Zenon DEF ClientInit, Init
  <2>2. \A g \in Groups : MaxInFlight[g] \in Nat
    BY ClientAssumption
  <2> QED
    BY <2>1, <2>2 DEF CapInv
<1>3. FutureInv /\ TimedInv
  BY DEF ClientInit, Init, FutureInv, TimedInv
<1>4. DestroyInv
  <2>1. Outstanding = {}
    BY DEF ClientInit, Init, Outstanding, Accepted
  <2> QED
    BY <2>1, ClientAssumption DEF ClientInit, Init, DestroyInv
<1> QED
  BY <1>1, <1>2, <1>3, <1>4

\* HttpClient::submit_request: for every number of clients, threads and requests
\* and every cap, a client never has more than max_in_flight requests
\* outstanding.
THEOREM CapHolds == ClientSpec => []InFlightBound
<1>1. ClientInit => ManagerInv /\ CapInv
  BY ClientInvInit
<1>2. ManagerInv /\ CapInv /\ [ClientNext]_clientVars => ManagerInv' /\ CapInv'
  BY ManagerInvStep, CapStep
<1>3. CapInv => InFlightBound
  BY DEF CapInv, InFlightBound
<1> QED
  BY <1>1, <1>2, <1>3, PTL DEF ClientSpec

\* The promises of http/utils.hpp and HttpClient: for every set of requests, a
\* future is ready exactly when its request has been refused or has had its one
\* final callback.
THEOREM FuturesAreFinal == ClientSpec => []FutureMeansFinal
<1>1. ClientInit => ManagerInv /\ FutureInv
  BY ClientInvInit
<1>2. ManagerInv /\ FutureInv /\ [ClientNext]_clientVars => ManagerInv' /\ FutureInv'
  BY ManagerInvStep, FutureStep
<1>3. ManagerInv /\ FutureInv => FutureMeansFinal
  BY DEF ManagerInv, FinalsInv, FutureInv, FutureMeansFinal
<1> QED
  BY <1>1, <1>2, <1>3, PTL DEF ClientSpec

\* HttpClient::wait_requests_for: for every set of requests and waiting calls,
\* true means that all that was outstanding has been answered, and false that
\* no waiter is left registered.
THEOREM WaitsAreRight == ClientSpec => []WaitResultIsRight
<1>1. ClientInit => ManagerInv /\ TimedInv
  BY ClientInvInit
<1>2. ManagerInv /\ TimedInv /\ [ClientNext]_clientVars => ManagerInv' /\ TimedInv'
  BY ManagerInvStep, TimedStep
<1>3. ManagerInv /\ TimedInv => WaitResultIsRight
  BY DEF ManagerInv, FinalsInv, WaitInv, TimedInv, WaitResultIsRight
<1> QED
  BY <1>1, <1>2, <1>3, PTL DEF ClientSpec

\* HttpClient::~HttpClient: for every set of clients and requests, when it has
\* returned all the client's requests have been answered, but for those that were
\* parked in a batch when its call was taken.
THEOREM DestructorIsQuiet == ClientSpec => []DestroyedMeansQuiet
<1> DEFINE Inv == ManagerInv /\ CapInv /\ DestroyInv
<1>1. ClientInit => Inv
  BY ClientInvInit
<1>2. Inv /\ [ClientNext]_clientVars => Inv'
  BY ManagerInvStep, CapStep, DestroyStep
<1>3. Inv => DestroyedMeansQuiet
  BY DEF DestroyInv, DestroyedMeansQuiet
<1> QED
  BY <1>1, <1>2, <1>3, PTL DEF ClientSpec

\* HttpClient over HttpRequestManager implements HttpRequestLifecycle too: for every
\* set of clients, caps, requests and waiting calls, a request over the cap is one
\* that is refused.
THEOREM ClientImplementsLifecycle ==
    ASSUME NoneLost
    PROVE  ClientSpec => ImplementsLifecycle
<1>1. ClientInit => ManagerInv /\ Lifecycle!Init
  <2>1. Init => Lifecycle!Init
    BY DEF Init, Lifecycle!Init, RequestStatus, WaiterStatus
  <2> QED
    BY <2>1, ClientInvInit DEF ClientInit
<1>2. ManagerInv /\ [ClientNext]_clientVars => ManagerInv'
  BY ManagerInvStep
<1>3. ASSUME ManagerInv, ManagerInv', [ClientNext]_clientVars
      PROVE  [Lifecycle!Next]_(Lifecycle!vars)
  <2>1. CASE [Next]_vars
    BY <1>3, <2>1, LifecycleStep DEF ManagerInv
  <2>2. ASSUME NEW r \in Requests, ClientRefuses(r)
        PROVE  Lifecycle!Refuse(r)
    <3>1. /\ RequestStatus[r] = "idle" /\ RequestStatus' = [RequestStatus EXCEPT ![r] = "refused"]
          /\ UNCHANGED <<WaiterStatus, waitDue>>
      BY <2>2, Zenon DEF ClientRefuses, RequestStatus, WaiterStatus, Move, userVars
    <3> QED
      BY <1>3, <3>1, StatusGoes, Zenon DEF ManagerInv, Lifecycle!Refuse
  <2> QED
    BY <1>3, <2>1, <2>2, ManagerBelow DEF Lifecycle!Next
<1> QED
  BY <1>1, <1>2, <1>3, PTL DEF ClientSpec, ImplementsLifecycle, Lifecycle!Spec
=============================================================================
