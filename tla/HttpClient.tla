----------------------------- MODULE HttpClient -----------------------------
(***************************************************************************)
(* HttpClient and the functions of http/utils.hpp over HttpRequestManager: *)
(* the admission cap of a client, the futures of requests, waits with a    *)
(* timeout and the destructor.  A client is a group of the manager; the    *)
(* functions of http/utils.hpp submit without one.                         *)
(*                                                                         *)
(* A request is made by one call of a user thread and answered through a   *)
(* promise; a call with a callback differs only in who is told.  The steps *)
(* of the manager are its own, with the promise following its callbacks.   *)
(***************************************************************************)
EXTENDS HttpRequestManager

CONSTANTS
    MaxInFlight,    \* m_max_in_flight of each client, 0 for none
    Destructor      \* the cancelling call each client's destructor makes

ASSUME ClientAssumption ==
    /\ MaxInFlight \in [Groups -> Nat]
    /\ Destructor \in [Groups -> Cancels]
    /\ \A g \in Groups : CancelTarget[Destructor[g]] = g
    /\ \A g \in Groups, h \in Groups : g # h => Destructor[g] # Destructor[h]

VARIABLES
    m_submit_mutex,     \* the request each client's mutex is held for
    future,             \* of each request
    timed,              \* result of each wait_requests_for
    life,               \* of each client
    spared              \* history: requests parked when their destructor's call was taken

callVars == <<m_submit_mutex, future, timed, life, spared>>
clientVars == <<vars, callVars>>

ClientInit ==
    /\ Init
    /\ m_submit_mutex = [g \in Groups |-> NoOne]
    /\ future = [r \in Requests |-> "none"]
    /\ timed = [w \in Waiters |-> "none"]
    /\ life = [g \in Groups |-> "alive"]
    /\ spared = {}

-----------------------------------------------------------------------------
(* submit_request                                                          *)

InFlightCapReached(g) ==
    MaxInFlight[g] # 0 /\ m_group_request_counts[g] >= MaxInFlight[g]

\* Mutant: the mutex is not held from the check to the submission.
TakeSubmitMutexNot(g, r) == UNCHANGED m_submit_mutex

TakeSubmitMutex(g, r) ==
    m_submit_mutex[g] = NoOne /\ m_submit_mutex' = [m_submit_mutex EXCEPT ![g] = r]

\* The cap is checked under m_submit_mutex.  A request it refuses never reaches
\* the manager: its promise gets the error.
CheckInFlight(r) ==
    LET g == GroupOf[r]
    IN  /\ g \in Groups /\ life[g] = "alive"
        /\ loc[r] = "new" /\ future[r] = "none"
        /\ IF InFlightCapReached(g)
           THEN /\ m_submit_mutex[g] = NoOne
                /\ loc' = Move({r}, "rejected")
                /\ future' = [future EXCEPT ![r] = "error"]
                /\ UNCHANGED m_submit_mutex
           ELSE /\ TakeSubmitMutex(g, r)
                /\ future' = [future EXCEPT ![r] = "open"]
                /\ UNCHANGED loc
        /\ UNCHANGED <<m_shutdown, queueVars, m_group_request_counts, attempt, armed,
                       chunked, finals, holder, userVars, pc, visitVars, timed, life, spared>>

\* The manager accepts the request or refuses it.
ManagerAnswers(r) ==
    /\ SubmitRequest(r)
    /\ future' = [future EXCEPT ![r] = IF loc'[r] = "rejected" THEN "error" ELSE "open"]
    /\ UNCHANGED <<timed, life, spared>>

\* submit_request goes on under the mutex, and releases it.
Submit(r) ==
    /\ GroupOf[r] \in Groups /\ future[r] = "open"
    /\ ManagerAnswers(r)
    /\ m_submit_mutex' = [g \in Groups |-> IF m_submit_mutex[g] = r THEN NoOne
                                           ELSE m_submit_mutex[g]]

\* http_request and its kin: a request without a client.
SubmitHttpRequest(r) ==
    /\ GroupOf[r] \notin Groups /\ future[r] = "none"
    /\ ManagerAnswers(r)
    /\ UNCHANGED m_submit_mutex

-----------------------------------------------------------------------------
(* The promise                                                             *)

\* Mutant: a response that is not ready fulfils the promise too.
SetAnyResponse(r, ready) ==
    [future EXCEPT ![r] = IF @ = "open" THEN "response" ELSE @]

\* safe_set_response: what the callback does.  Retries are reported with a
\* response that is not ready.
SetResponse(r, ready) ==
    [future EXCEPT ![r] = IF @ = "open" /\ ready THEN "response" ELSE @]

FutureFinal(r) ==
    /\ FinalCallback(r)
    /\ future' = SetResponse(r, TRUE)
    /\ UNCHANGED <<m_submit_mutex, timed, life, spared>>

FutureRetry(r, bad) ==
    /\ HandleCompletedRequest(r, bad)
    /\ future' = IF loc'[r] = "parked" THEN SetResponse(r, FALSE) ELSE future
    /\ UNCHANGED <<m_submit_mutex, timed, life, spared>>

-----------------------------------------------------------------------------
(* Waiting and destruction                                                 *)

\* wait_requests_for registers; the timeout and the notification race.
WaitRequestsFor(w) ==
    /\ life[WaitsFor[w]] = "alive" /\ WaitRequests(w)
    /\ timed' = [timed EXCEPT ![w] = "pending"]
    /\ UNCHANGED <<m_submit_mutex, future, life, spared>>

WaitReturns(w) ==
    /\ timed[w] = "pending" /\ wait[w] = "called"
    /\ timed' = [timed EXCEPT ![w] = "true"]
    /\ UNCHANGED <<vars, m_submit_mutex, future, life, spared>>

WaitTimesOut(w) ==
    /\ timed[w] = "pending" /\ wait[w] # "called"
    /\ timed' = [timed EXCEPT ![w] = "timeout"]
    /\ UNCHANGED <<vars, m_submit_mutex, future, life, spared>>

\* Mutant: the waiter of a wait that timed out stays registered.
LeaveWaiter(w) ==
    /\ timed[w] = "timeout"
    /\ timed' = [timed EXCEPT ![w] = "false"]
    /\ UNCHANGED <<vars, m_submit_mutex, future, life, spared>>

\* Then the waiter is withdrawn, unless it has been taken in the meantime.
WithdrawWaiter(w) ==
    /\ timed[w] = "timeout"
    /\ IF wait[w] = "waiting" THEN CancelWait(w) ELSE UNCHANGED vars
    /\ timed' = [timed EXCEPT ![w] = "false"]
    /\ UNCHANGED <<m_submit_mutex, future, life, spared>>

\* No other call of the client is in progress when it is destroyed.
Idle(g) ==
    /\ m_submit_mutex[g] = NoOne
    /\ \A w \in Waiters : WaitsFor[w] = g => timed[w] \notin {"pending", "timeout"}

BeginDestroy(g) ==
    /\ life[g] = "alive" /\ Idle(g)
    /\ life' = [life EXCEPT ![g] = "dying"]
    /\ UNCHANGED <<vars, m_submit_mutex, future, timed, spared>>

\* cancel_requests() called by the destructor, or by the user of a live client.
CancelRequests(c) ==
    /\ CancelCheck(c)
    /\ \A g \in Groups : c = Destructor[g] => life[g] = "dying"
    /\ UNCHANGED callVars

\* The pass over the manager's lists that answers it leaves alone what is parked.
TakeCancelRequests ==
    /\ TakeCancels
    /\ spared' = spared \cup
           {r \in At("parked") :
              \E g \in Groups : r \in Members(g) /\ cancel[Destructor[g]] = "queued"}
    /\ UNCHANGED <<m_submit_mutex, future, timed, life>>

\* The destructor returns once the callback has come.
Destroyed(g) ==
    /\ life[g] = "dying" /\ cancel[Destructor[g]] = "called"
    /\ life' = [life EXCEPT ![g] = "gone"]
    /\ UNCHANGED <<vars, m_submit_mutex, future, timed, spared>>

-----------------------------------------------------------------------------

ClientCalls ==
    \/ \E r \in Requests : CheckInFlight(r) \/ Submit(r) \/ SubmitHttpRequest(r)
    \/ \E w \in Waiters : WaitRequestsFor(w) \/ WaitReturns(w) \/ WaitTimesOut(w)
                            \/ WithdrawWaiter(w)
    \/ \E c \in Cancels : CancelRequests(c) \/ (CancelQueue(c) /\ UNCHANGED callVars)
    \/ \E g \in Groups : BeginDestroy(g) \/ Destroyed(g)

\* The manager's own steps.
ManagerDelivers ==
    \/ \E r \in Requests : Release(r) \/ CompleteGroupRequest(r)
    \/ \E w \in Waiters : CallWaiter(w)

ManagerSteps ==
    \/ \E D \in SUBSET At("pending"), A \in SUBSET At("pending") : ProcessPending(D, A)
    \/ \E F \in SUBSET At("admitted") : OpenBatch(F)
    \/ \E M \in SUBSET At("running"), C \in SUBSET At("running") : Perform(M, C)
    \/ PerformFails \/ EndVisit \/ ActiveDone
    \/ \E r \in Requests : RetryFailed(r)
    \/ RetryDone
    \/ \E c \in Cancels : InvokeCancelCallback(c)
    \/ CancelDone \/ NotifyGroupWaitersIfIdle

WorkerSteps ==
    \/ (ManagerDelivers \/ ManagerSteps) /\ UNCHANGED callVars
    \/ TakeCancelRequests
    \/ \E r \in Requests : FutureFinal(r)
    \/ \E r \in Requests, bad \in BOOLEAN : FutureRetry(r, bad)

ClientNext == ClientCalls \/ WorkerSteps

ClientSpec == ClientInit /\ [][ClientNext]_clientVars

\* The steps of the thread inside the destructor.
Destroying(g) ==
    \/ CancelRequests(Destructor[g])
    \/ CancelQueue(Destructor[g]) /\ UNCHANGED callVars
    \/ Destroyed(g)

\* As for the manager: the worker runs, transfers end and retry delays run out.
\* A thread inside a call goes on; a wait may, but need not, time out.
ClientFairness ==
    /\ WF_clientVars(WorkerSteps)
    /\ \A r \in Requests :
         /\ SF_clientVars((TransferEnds(r) \/ RetryFailed(r)) /\ UNCHANGED callVars)
         /\ WF_clientVars(Submit(r))
    /\ \A w \in Waiters : WF_clientVars(WaitReturns(w) \/ WithdrawWaiter(w))
    /\ \A g \in Groups : WF_clientVars(Destroying(g))

FairClient == ClientSpec /\ ClientFairness

-----------------------------------------------------------------------------
(* Properties                                                              *)

\* However many threads use a client at once, its outstanding requests never
\* exceed max_in_flight.
InFlightBound ==
    \A g \in Groups :
        MaxInFlight[g] # 0 => m_group_request_counts[g] <= MaxInFlight[g]

\* A future is ready exactly when its request has been refused or has got its
\* final callback: no retry report fulfils it early, and none stays open.
FutureMeansFinal ==
    \A r \in Requests :
        /\ future[r] = "error" <=> loc[r] = "rejected"
        /\ future[r] = "response" <=> finals[r] = 1

\* When wait_requests_for returns true, every request that was outstanding when
\* it was called has been answered; when it returns false, its waiter is gone.
WaitResultIsRight ==
    \A w \in Waiters :
        /\ timed[w] = "true" => \A r \in waitDue[w] : finals[r] = 1
        /\ timed[w] = "false" => wait[w] # "waiting"

\* Every future of a request that was submitted becomes ready.
EveryFutureReady ==
    \A r \in Requests : future[r] = "open" ~> future[r] \in {"response", "error"}

\* Every call that blocks comes back: wait_requests_for, and the destructor.
EveryCallReturns ==
    /\ \A w \in Waiters : timed[w] = "pending" ~> timed[w] \in {"true", "false"}
    /\ \A g \in Groups : life[g] = "dying" ~> life[g] = "gone"

\* When the destructor of a client has returned, its requests have been answered
\* and no callback runs after it.  The one exception is a request that was parked
\* in a batch, its transfer failed and its retry due, at the very moment the
\* destructor's call was taken: the lists that are searched do not hold it.  One
\* that had been retried before and runs, waits or is delayed again is answered.
DestroyedMeansQuiet ==
    \A g \in Groups :
        life[g] = "gone" => Outstanding \cap Members(g) \subseteq spared
=============================================================================
