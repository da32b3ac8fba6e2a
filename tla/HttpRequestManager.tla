------------------------- MODULE HttpRequestManager -------------------------
(***************************************************************************)
(* HttpRequestManager with the batches and handlers it drives: the life of *)
(* a request from submit_request to its final callback, through admission, *)
(* transfer, retries, cancellation and shutdown, while other threads       *)
(* submit, cancel and wait.                                                *)
(*                                                                         *)
(* The worker thread runs process() and shutdown().  What it does under    *)
(* m_mutex, or to state only it touches, is one step; every user callback  *)
(* it makes is a step of its own, so calls of other threads, and calls     *)
(* made from inside a callback, interleave there.  pc names the next step. *)
(*                                                                         *)
(* The rate limiter appears through its effect on admission: a sequential  *)
(* limit's key is a slot with at most one holder, and a counting limit may *)
(* deny any scan.  HttpRateLimiter models the limiter itself.              *)
(***************************************************************************)
EXTENDS Naturals, Sequences, FiniteSets, Functions

CONSTANTS
    Requests,       \* HttpRequestContexts
    NullRequests,   \* those submitted without an HttpRequest
    Groups,         \* group ids
    NoGroup,        \* group id 0
    GroupOf,        \* group of each request
    Slots,          \* keys of sequential limits
    SlotsOf,        \* slots each request must hold
    NoOne,          \* a free slot
    Counted,        \* requests a counting limit may deny
    RetryAttempts,  \* HttpRequest::retry_attempts
    Streaming,      \* requests that receive chunks
    CurlMayFail,    \* requests whose curl handle may fail to open
    QueueLimit,     \* m_max_pending_requests, 0 for none
    Cancels,        \* calls that cancel
    CancelTarget,   \* the request or group each cancels
    Waiters,        \* calls that wait for a group
    WaitsFor,       \* the group each waits for
    AllowShutdown   \* whether the worker may be stopped

ASSUME ManagerAssumption ==
    /\ NullRequests \subseteq Requests
    /\ GroupOf \in [Requests -> Groups \cup {NoGroup}] /\ NoGroup \notin Groups
    /\ SlotsOf \in [Requests -> SUBSET Slots] /\ NoOne \notin Requests
    /\ \A r \in NullRequests : GroupOf[r] = NoGroup /\ SlotsOf[r] = {}
    /\ RetryAttempts \in [Requests -> Nat]
    /\ QueueLimit \in Nat
    /\ Requests \cap Groups = {}
    /\ CancelTarget \in [Cancels -> Requests \cup Groups]
    /\ WaitsFor \in [Waiters -> Groups]
    /\ AllowShutdown \in BOOLEAN
    /\ IsFiniteSet(Requests)

VARIABLES
    m_shutdown,
    m_pending_requests,
    m_active_request_batches,   \* the contexts each batch owns
    m_group_request_counts,
    loc,            \* where each request's context is
    attempt,        \* retry_attempt
    armed,          \* requests whose on_complete is set
    chunked,        \* m_has_stream_chunk
    finals,         \* final callbacks delivered to each request
    holder,         \* the request whose token is in each slot
    cancel,         \* progress of each cancelling call
    cancelDue,      \* history: requests outstanding when the call was queued
    wait,           \* progress of each waiting call
    waitDue,        \* history: requests outstanding when the waiter registered
    pc,             \* next step of the worker
    cur,            \* batch process_active_requests is at
    msgs            \* completed transfers of that batch still to be read

reqVars == <<loc, attempt, armed, chunked, finals, holder>>
userVars == <<cancel, cancelDue, wait, waitDue>>
visitVars == <<cur, msgs>>
queueVars == <<m_pending_requests, m_active_request_batches>>
vars == <<m_shutdown, queueVars, m_group_request_counts, reqVars, userVars,
          pc, visitVars>>

Locations ==
    {"new", "rejected",
     "pending",     \* in m_pending_requests
     "admitted",    \* in process_pending_requests' local vector
     "running",     \* in a handler of a batch, its transfer under way
     "parked",      \* in a batch's own m_failed_requests
     "failed",      \* in the manager's m_failed_requests
     "closing",     \* about to get its final callback
     "answered",    \* final callback returned, on_complete to run
     "released",    \* on_complete returned, on_group_complete to run
     "done",
     "lost"}        \* destroyed without a final callback

Accepted == Locations \ {"new", "rejected"}

\* Accepted requests that have not left their group.
Outstanding == {r \in Requests : loc[r] \in Accepted \ {"done"}}
At(l) == {r \in Requests : loc[r] = l}
Move(S, l) == [r \in Requests |-> IF r \in S THEN l ELSE loc[r]]
Members(g) == {r \in Requests : GroupOf[r] = g}

\* The request is the target of the cancelling call.
MatchesCancel(r, c) ==
    /\ r \notin NullRequests
    /\ CancelTarget[c] \in {r, GroupOf[r]}

\* The worker is inside complete(), or calls waiters.
Completing == \/ At("answered") \cup At("released") # {}
              \/ \E w \in Waiters : wait[w] = "ready"

\* Every final callback the current step owes has been delivered.
Quiet == ~Completing /\ At("closing") = {}

-----------------------------------------------------------------------------

Init ==
    /\ m_shutdown = FALSE
    /\ m_pending_requests = <<>>
    /\ m_active_request_batches = <<>>
    /\ m_group_request_counts = [g \in Groups |-> 0]
    /\ loc = [r \in Requests |-> "new"]
    /\ attempt = [r \in Requests |-> 0]
    /\ armed = {}
    /\ chunked = {}
    /\ finals = [r \in Requests |-> 0]
    /\ holder = [s \in Slots |-> NoOne]
    /\ cancel = [c \in Cancels |-> "none"]
    /\ cancelDue = [c \in Cancels |-> {}]
    /\ wait = [w \in Waiters |-> "none"]
    /\ waitDue = [w \in Waiters |-> {}]
    /\ pc = "idle"
    /\ cur = 1
    /\ msgs = {}

-----------------------------------------------------------------------------
(* Calls of other threads, or of user callbacks                            *)

QueueFull == QueueLimit # 0 /\ Len(m_pending_requests) >= QueueLimit

\* Mutant: a manager that has shut down still accepts.
RejectsWhenFull == QueueFull

Rejects == m_shutdown \/ QueueFull

JoinGroup(r) ==
    [g \in Groups |-> m_group_request_counts[g] + (IF g = GroupOf[r] THEN 1 ELSE 0)]

SubmitRequest(r) ==
    /\ loc[r] = "new"
    /\ IF Rejects
       THEN /\ loc' = Move({r}, "rejected")
            /\ UNCHANGED <<m_pending_requests, m_group_request_counts>>
       ELSE /\ loc' = Move({r}, "pending")
            /\ m_pending_requests' = Append(m_pending_requests, r)
            /\ m_group_request_counts' = JoinGroup(r)
    /\ UNCHANGED <<m_shutdown, m_active_request_batches, attempt, armed, chunked,
                   finals, holder, userVars, pc, visitVars>>

\* The first lines of cancel_request_by_id and cancel_requests_by_group_id read
\* m_shutdown before they take the mutex.
CancelCheck(c) ==
    /\ cancel[c] = "none"
    /\ cancel' = [cancel EXCEPT ![c] = IF m_shutdown THEN "called" ELSE "checked"]
    /\ UNCHANGED <<m_shutdown, queueVars, m_group_request_counts, reqVars,
                   cancelDue, wait, waitDue, pc, visitVars>>

\* Their critical section.  A group without requests is answered at once.
CancelQueue(c) ==
    LET g == CancelTarget[c]
        idle == g \in Groups /\ m_group_request_counts[g] = 0
    IN  /\ cancel[c] = "checked"
        /\ cancel' = [cancel EXCEPT ![c] = IF idle THEN "called" ELSE "queued"]
        /\ cancelDue' = [cancelDue EXCEPT
                           ![c] = {r \in Outstanding : MatchesCancel(r, c)}]
        /\ UNCHANGED <<m_shutdown, queueVars, m_group_request_counts, reqVars,
                       wait, waitDue, pc, visitVars>>

WaitRequests(w) ==
    LET now == m_shutdown \/ m_group_request_counts[WaitsFor[w]] = 0
    IN  /\ wait[w] = "none"
        /\ wait' = [wait EXCEPT ![w] = IF now THEN "called" ELSE "waiting"]
        /\ waitDue' = [waitDue EXCEPT
                         ![w] = IF now THEN {}
                                ELSE Outstanding \cap Members(WaitsFor[w])]
        /\ UNCHANGED <<m_shutdown, queueVars, m_group_request_counts, reqVars,
                       cancel, cancelDue, pc, visitVars>>

CancelWait(w) ==
    /\ wait[w] = "waiting"
    /\ wait' = [wait EXCEPT ![w] = "cancelled"]
    /\ UNCHANGED <<m_shutdown, queueVars, m_group_request_counts, reqVars,
                   cancel, cancelDue, waitDue, pc, visitVars>>

-----------------------------------------------------------------------------
(* Delivery: HttpRequestContext::invoke_final_callback                     *)

\* The user callback returns.
FinalCallback(r) ==
    /\ loc[r] = "closing" /\ ~Completing
    /\ finals' = [finals EXCEPT ![r] = @ + 1]
    /\ loc' = Move({r}, "answered")
    /\ UNCHANGED <<m_shutdown, queueVars, m_group_request_counts, attempt, armed,
                   chunked, holder, userVars, pc, visitVars>>

\* Mutant: the tokens stay.
KeepTokens(r) == holder

\* What on_complete does, when it is set.
ReleaseTokens(r) ==
    [s \in Slots |-> IF r \in armed /\ holder[s] = r THEN NoOne ELSE holder[s]]

\* complete() runs on_complete ...
Release(r) ==
    /\ loc[r] = "answered"
    /\ loc' = Move({r}, "released")
    /\ holder' = ReleaseTokens(r)
    /\ UNCHANGED <<m_shutdown, queueVars, m_group_request_counts, attempt, armed,
                   chunked, finals, userVars, pc, visitVars>>

\* Mutant: the last request leaves the group's entry behind.
KeepGroup(r) ==
    [g \in Groups |-> IF g = GroupOf[r] /\ m_group_request_counts[g] > 1
                      THEN m_group_request_counts[g] - 1
                      ELSE m_group_request_counts[g]]

LeaveGroup(r) ==
    [g \in Groups |-> m_group_request_counts[g] - (IF g = GroupOf[r] THEN 1 ELSE 0)]

\* Mutant: the last but one request takes the waiters with it.
EarlyReadyWaiters(g, counts) ==
    {w \in Waiters : wait[w] = "waiting" /\ WaitsFor[w] = g /\ counts[g] <= 1}

ReadyWaiters(g, counts) ==
    {w \in Waiters : wait[w] = "waiting" /\ WaitsFor[w] = g /\ counts[g] = 0}

\* ... and on_group_complete leaves the group; the last one takes its waiters.
CompleteGroupRequest(r) ==
    /\ loc[r] = "released"
    /\ loc' = Move({r}, "done")
    /\ m_group_request_counts' = LeaveGroup(r)
    /\ wait' = [w \in Waiters |->
                  IF w \in ReadyWaiters(GroupOf[r], LeaveGroup(r))
                  THEN "ready" ELSE wait[w]]
    /\ UNCHANGED <<m_shutdown, queueVars, attempt, armed, chunked, finals,
                   holder, cancel, cancelDue, waitDue, pc, visitVars>>

CallWaiter(w) ==
    /\ wait[w] = "ready"
    /\ wait' = [wait EXCEPT ![w] = "called"]
    /\ UNCHANGED <<m_shutdown, queueVars, m_group_request_counts, reqVars,
                   cancel, cancelDue, waitDue, pc, visitVars>>

-----------------------------------------------------------------------------
(* process_pending_requests                                                *)

IsLoaded ==
    \/ m_pending_requests # <<>> \/ m_active_request_batches # <<>>
    \/ At("failed") # {}
    \/ \E g \in Groups : m_group_request_counts[g] # 0
    \/ \E c \in Cancels : cancel[c] = "queued"

\* Mutant: the holder of a slot is not looked at.
FreeForAll(s, r) == TRUE

\* can_pass, for a sequential limit.
FreeFor(s, r) == holder[s] \in {NoOne, r}

\* The scan of the queue admits exactly the requests of A when the counting
\* limits deny those of D: each slot a request uses is free, or its own, and not
\* taken by a request admitted before it.
IsScan(D, A) ==
    \A i \in DOMAIN m_pending_requests :
        LET r == m_pending_requests[i]
            before == A \cap {m_pending_requests[j] : j \in 1 .. i - 1}
        IN  r \in A <=> /\ r \notin NullRequests \cup D
                        /\ \A s \in SlotsOf[r] :
                              /\ FreeFor(s, r)
                              /\ \A q \in before : s \notin SlotsOf[q]

\* Mutant: erased requests stay in the queue.
WithoutNone(S) == m_pending_requests

\* The queue after the requests of S have been erased.
Without(S) ==
    LET kept[i \in 0 .. Len(m_pending_requests)] ==
          IF i = 0 THEN <<>>
          ELSE IF m_pending_requests[i] \in S THEN kept[i - 1]
          ELSE Append(kept[i - 1], m_pending_requests[i])
    IN  kept[Len(m_pending_requests)]

\* Mutant: a denied retry loses its on_complete.
ArmedOnly(A) == (armed \cup A) \ (At("pending") \ A)

\* on_complete is set before allow_request, and put back when it denies.
Armed(A) == armed \cup A

\* One pass under the mutex.
ProcessPending(D, A) ==
    /\ pc = "idle" /\ ~m_shutdown /\ Quiet /\ IsLoaded
    /\ D \subseteq Counted /\ A \subseteq At("pending")
    /\ IsScan(D, A)
    /\ loc' = [r \in Requests |->
                 CASE r \in A -> "admitted"
                   [] r \in At("pending") \cap NullRequests -> "closing"
                   [] OTHER -> loc[r]]
    /\ m_pending_requests' = Without(A \cup NullRequests)
    /\ armed' = Armed(A)
    /\ holder' = [s \in Slots |->
                    IF \E r \in A : s \in SlotsOf[r]
                    THEN CHOOSE r \in A : s \in SlotsOf[r] ELSE holder[s]]
    /\ pc' = "batch"
    /\ UNCHANGED <<m_shutdown, m_active_request_batches, m_group_request_counts,
                   attempt, chunked, finals, userVars, visitVars>>

\* HttpBatchRequestHandler's constructor; the requests of F get no curl handle
\* and are answered at once.
OpenBatch(F) ==
    LET admitted == At("admitted")
    IN  /\ pc = "batch" /\ Quiet
        /\ F \subseteq admitted \cap CurlMayFail
        /\ loc' = [r \in Requests |->
                     IF r \in F THEN "closing"
                     ELSE IF r \in admitted THEN "running" ELSE loc[r]]
        /\ m_active_request_batches' =
             IF admitted = {} THEN m_active_request_batches
             ELSE Append(m_active_request_batches, admitted \ F)
        /\ pc' = "active"
        /\ UNCHANGED <<m_shutdown, m_pending_requests, m_group_request_counts,
                       attempt, armed, chunked, finals, holder, userVars,
                       visitVars>>

\* The constructor throws: no batch, and every request is answered.
OpenBatchThrows ==
    /\ pc = "batch" /\ Quiet
    /\ At("admitted") \cap CurlMayFail # {}
    /\ loc' = Move(At("admitted"), "closing")
    /\ pc' = "active"
    /\ UNCHANGED <<m_shutdown, queueVars, m_group_request_counts, attempt, armed,
                   chunked, finals, holder, userVars, visitVars>>

-----------------------------------------------------------------------------
(* process_active_requests                                                 *)

Batch == m_active_request_batches[cur]
Transfers == Batch \cap At("running")

\* curl_multi_perform: the transfers of M have ended, those of C have received
\* a chunk.
Perform(M, C) ==
    /\ pc = "active" /\ Quiet /\ cur <= Len(m_active_request_batches)
    /\ M \subseteq Transfers /\ C \subseteq Transfers \cap Streaming
    /\ msgs' = M
    /\ chunked' = chunked \cup C
    /\ pc' = "visit"
    /\ UNCHANGED <<m_shutdown, queueVars, m_group_request_counts, loc, attempt,
                   armed, finals, holder, userVars, cur>>

\* curl_multi_perform reports an error: the batch is left for the next pass.
PerformFails ==
    /\ pc = "active" /\ Quiet /\ cur <= Len(m_active_request_batches)
    /\ cur' = cur + 1
    /\ UNCHANGED <<m_shutdown, queueVars, m_group_request_counts, reqVars,
                   userVars, pc, msgs>>

\* Mutant: chunks already delivered are ignored.
ShouldRetryAfterChunk(r, bad) ==
    /\ bad
    /\ RetryAttempts[r] # 0
    /\ attempt[r] + 1 < RetryAttempts[r]

ShouldRetry(r, bad) ==
    /\ bad
    /\ RetryAttempts[r] # 0
    /\ attempt[r] + 1 < RetryAttempts[r]
    /\ r \notin chunked

\* handle_completed_request: a request to be retried tells the user, and stays
\* with the batch until the whole batch is over.
HandleCompletedRequest(r, bad) ==
    /\ pc = "visit" /\ Quiet /\ r \in msgs
    /\ msgs' = msgs \ {r}
    /\ attempt' = [attempt EXCEPT ![r] = @ + 1]
    /\ IF ShouldRetry(r, bad)
       THEN /\ loc' = Move({r}, "parked")
            /\ UNCHANGED m_active_request_batches
       ELSE /\ loc' = Move({r}, "closing")
            /\ m_active_request_batches' =
                 [m_active_request_batches EXCEPT ![cur] = @ \ {r}]
    /\ UNCHANGED <<m_shutdown, m_pending_requests, m_group_request_counts, armed,
                   chunked, finals, holder, userVars, pc, cur>>

\* What vector::erase leaves of a list.
Erase(s, i) == SubSeq(s, 1, i - 1) \o SubSeq(s, i + 1, Len(s))

\* A batch without transfers is destroyed and hands over what it parked.
EndVisit ==
    /\ pc = "visit" /\ Quiet /\ msgs = {}
    /\ pc' = "active"
    /\ IF Transfers = {}
       THEN /\ loc' = Move(Batch, "failed")
            /\ m_active_request_batches' = Erase(m_active_request_batches, cur)
            /\ UNCHANGED cur
       ELSE /\ cur' = cur + 1
            /\ UNCHANGED <<loc, m_active_request_batches>>
    /\ UNCHANGED <<m_shutdown, m_pending_requests, m_group_request_counts,
                   attempt, armed, chunked, finals, holder, userVars, msgs>>

ActiveDone ==
    /\ pc = "active" /\ Quiet /\ cur > Len(m_active_request_batches)
    /\ cur' = 1
    /\ pc' = "retry"
    /\ UNCHANGED <<m_shutdown, queueVars, m_group_request_counts, reqVars,
                   userVars, msgs>>

-----------------------------------------------------------------------------
(* process_retry_failed_requests                                           *)

\* The delay of r is over.  Requests are taken one at a time, each under the
\* mutex, in any order: which delays are over is not modelled.
RetryFailed(r) ==
    /\ pc = "retry" /\ loc[r] = "failed"
    /\ loc' = Move({r}, "pending")
    /\ m_pending_requests' = Append(m_pending_requests, r)
    /\ UNCHANGED <<m_shutdown, m_active_request_batches, m_group_request_counts,
                   attempt, armed, chunked, finals, holder, userVars, pc,
                   visitVars>>

RetryDone ==
    /\ pc = "retry"
    /\ pc' = "cancel"
    /\ UNCHANGED <<m_shutdown, queueVars, m_group_request_counts, reqVars,
                   userVars, visitVars>>

-----------------------------------------------------------------------------
(* process_cancel_requests, from process() and from shutdown()             *)

\* Mutant: handlers that have answered are cancelled too.
CancelledTwice(C) ==
    {r \in At("pending") \cup At("failed") \cup At("running") \cup At("done") :
        \E c \in C : MatchesCancel(r, c)}

\* The requests one pass cancels: those pending, those waiting for a retry, and
\* those in a handler.  A parked request's handler no longer has its context.
Cancelled(C) ==
    {r \in At("pending") \cup At("failed") \cup At("running") :
        \E c \in C : MatchesCancel(r, c)}

\* Queued calls are taken under the mutex with the pending requests; the other
\* lists belong to the worker.
TakeCancels ==
    LET taken == {c \in Cancels : cancel[c] = "queued"}
        gone  == Cancelled(taken)
    IN  /\ pc = "cancel" /\ Quiet
        /\ cancel' = [c \in Cancels |-> IF c \in taken THEN "taken" ELSE cancel[c]]
        /\ loc' = Move(gone, "closing")
        /\ m_pending_requests' = Without(gone)
        /\ m_active_request_batches' =
             [i \in DOMAIN m_active_request_batches |->
                m_active_request_batches[i] \ gone]
        /\ pc' = "callbacks"
        /\ UNCHANGED <<m_shutdown, m_group_request_counts, attempt, armed, chunked,
                       finals, holder, cancelDue, wait, waitDue, visitVars>>

\* Mutant: cancel callbacks run before the final callbacks.
InvokeCancelCallbackFirst(c) ==
    /\ pc = "callbacks" /\ cancel[c] = "taken"
    /\ cancel' = [cancel EXCEPT ![c] = "called"]
    /\ UNCHANGED <<m_shutdown, queueVars, m_group_request_counts, reqVars,
                   cancelDue, wait, waitDue, pc, visitVars>>

InvokeCancelCallback(c) ==
    /\ pc = "callbacks" /\ Quiet /\ cancel[c] = "taken"
    /\ cancel' = [cancel EXCEPT ![c] = "called"]
    /\ UNCHANGED <<m_shutdown, queueVars, m_group_request_counts, reqVars,
                   cancelDue, wait, waitDue, pc, visitVars>>

CancelDone ==
    /\ pc = "callbacks" /\ Quiet
    /\ \A c \in Cancels : cancel[c] # "taken"
    /\ pc' = IF m_shutdown THEN "clear" ELSE "notify"
    /\ UNCHANGED <<m_shutdown, queueVars, m_group_request_counts, reqVars,
                   userVars, visitVars>>

NotifyGroupWaitersIfIdle ==
    /\ pc = "notify"
    /\ wait' = [w \in Waiters |->
                  IF wait[w] = "waiting" /\ m_group_request_counts[WaitsFor[w]] = 0
                  THEN "ready" ELSE wait[w]]
    /\ pc' = "idle"
    /\ UNCHANGED <<m_shutdown, queueVars, m_group_request_counts, reqVars,
                   cancel, cancelDue, waitDue, visitVars>>

-----------------------------------------------------------------------------
(* shutdown()                                                              *)

Shutdown ==
    /\ AllowShutdown
    /\ pc = "idle" /\ Quiet /\ ~m_shutdown
    /\ m_shutdown' = TRUE
    /\ pc' = "cleanup"
    /\ UNCHANGED <<queueVars, m_group_request_counts, reqVars, userVars, visitVars>>

CleanupPendingRequests ==
    /\ pc = "cleanup"
    /\ loc' = Move(At("pending") \cup At("failed"), "closing")
    /\ m_pending_requests' = <<>>
    /\ pc' = "cancel"
    /\ UNCHANGED <<m_shutdown, m_active_request_batches, m_group_request_counts,
                   attempt, armed, chunked, finals, holder, userVars, visitVars>>

\* m_active_request_batches.clear(): a handler's destructor answers the request
\* it still has; a parked context is just destroyed.
ClearBatches ==
    /\ pc = "clear" /\ Quiet
    /\ loc' = [r \in Requests |->
                 CASE loc[r] = "running" -> "closing"
                   [] loc[r] = "parked" -> "lost"
                   [] OTHER -> loc[r]]
    /\ m_active_request_batches' = <<>>
    /\ pc' = "notifyAll"
    /\ UNCHANGED <<m_shutdown, m_pending_requests, m_group_request_counts,
                   attempt, armed, chunked, finals, holder, userVars, visitVars>>

NotifyAllGroupWaiters ==
    /\ pc = "notifyAll" /\ Quiet
    /\ wait' = [w \in Waiters |-> IF wait[w] = "waiting" THEN "ready" ELSE wait[w]]
    /\ pc' = "down"
    /\ UNCHANGED <<m_shutdown, queueVars, m_group_request_counts, reqVars,
                   cancel, cancelDue, waitDue, visitVars>>

\* After shutdown, process() and shutdown() only notify the waiters.
AfterShutdown ==
    /\ pc = "down" /\ Quiet
    /\ pc' = "notifyAll"
    /\ UNCHANGED <<m_shutdown, queueVars, m_group_request_counts, reqVars,
                   userVars, visitVars>>

-----------------------------------------------------------------------------

User ==
    \/ \E r \in Requests : SubmitRequest(r)
    \/ \E c \in Cancels : CancelCheck(c) \/ CancelQueue(c)
    \/ \E w \in Waiters : WaitRequests(w) \/ CancelWait(w)

Deliver ==
    \/ \E r \in Requests : FinalCallback(r) \/ Release(r) \/ CompleteGroupRequest(r)
    \/ \E w \in Waiters : CallWaiter(w)

Process ==
    \/ \E D \in SUBSET At("pending"), A \in SUBSET At("pending") :
          ProcessPending(D, A)
    \/ \E F \in SUBSET At("admitted") : OpenBatch(F)
    \/ OpenBatchThrows
    \/ \E M \in SUBSET At("running"), C \in SUBSET At("running") : Perform(M, C)
    \/ PerformFails
    \/ \E r \in Requests, bad \in BOOLEAN : HandleCompletedRequest(r, bad)
    \/ EndVisit
    \/ ActiveDone
    \/ \E r \in Requests : RetryFailed(r)
    \/ RetryDone
    \/ TakeCancels
    \/ \E c \in Cancels : InvokeCancelCallback(c)
    \/ CancelDone
    \/ NotifyGroupWaitersIfIdle

Stop ==
    \/ Shutdown
    \/ CleanupPendingRequests
    \/ ClearBatches
    \/ NotifyAllGroupWaiters
    \/ AfterShutdown

Next == User \/ Deliver \/ Process \/ Stop

Spec == Init /\ [][Next]_vars

\* curl_multi_perform succeeds on the batch that owns r, and r's transfer, if it
\* still runs, has ended.
TransferEnds(r) ==
    \E M \in SUBSET At("running"), C \in SUBSET At("running") :
        Perform(M, C) /\ r \in Batch /\ (r \in Transfers => r \in M)

-----------------------------------------------------------------------------
(* Properties                                                              *)

\* Every context is owned by exactly one list: the queue holds the pending
\* requests once each, and every running or parked one is in exactly one batch.
OneOwner ==
    /\ At("pending") = Range(m_pending_requests)
    /\ Len(m_pending_requests) = Cardinality(At("pending"))
    /\ At("running") \cup At("parked") = UNION Range(m_active_request_batches)
    /\ \A i, j \in DOMAIN m_active_request_batches :
          i # j => m_active_request_batches[i] \cap m_active_request_batches[j] = {}

\* From its first admission until it finishes, through parking, delays and
\* denied retries, a request holds every sequential limit it uses.
HoldsThroughRetries ==
    \A r \in Requests :
        (r \in armed /\ loc[r] \notin {"released", "done"}) =>
            \A s \in SlotsOf[r] : holder[s] = r

\* release_request runs for every commit: a finished or destroyed request holds
\* no slot.
NoTokenAfterEnd ==
    \A s \in Slots :
        holder[s] # NoOne => loc[holder[s]] \notin {"released", "done", "lost"}

\* A request that has delivered a chunk is not sent again.
NoRetryAfterChunk ==
    \A r \in chunked : loc[r] \notin {"pending", "admitted", "parked", "failed"}

\* What a user sees of a request, as a function of where its context is, and of
\* a call that waits.
RequestStatus ==
    [r \in Requests |->
       CASE loc[r] = "new"      -> "idle"
         [] loc[r] = "rejected" -> "refused"
         [] loc[r] \in {"answered", "released"} -> "answered"
         [] loc[r] = "done"     -> "finished"
         [] OTHER               -> "open"]

WaiterStatus ==
    [w \in Waiters |->
       CASE wait[w] = "none"    -> "none"
         [] wait[w] = "waiting" -> "registered"
         [] OTHER               -> "over"]

Lifecycle ==
    INSTANCE HttpRequestLifecycle WITH
        status <- RequestStatus,
        inflight <- m_group_request_counts,
        waiting <- WaiterStatus,
        owed <- waitDue

\* The manager implements the lifecycle of HttpRequestLifecycle: through queues,
\* batches, retries, cancellation and shutdown every accepted request is answered
\* once before it leaves its group, group_request_count is exact at every moment,
\* and a waiter is answered only after the requests it registered for.
ImplementsLifecycle == Lifecycle!Spec

\* When the callback of a cancelling call runs, every request that was
\* outstanding when the call was queued has had its final callback.
CancelMeansFinished ==
    \A c \in Cancels :
        cancel[c] = "called" => \A r \in cancelDue[c] : finals[r] = 1

\* When shutdown() has returned, nothing is outstanding and nobody waits, even
\* if requests were submitted and waiters registered while it ran.
ShutdownFinishesAll ==
    pc = "down" =>
        /\ Outstanding = {}
        /\ \A w \in Waiters : wait[w] # "waiting"

=============================================================================
