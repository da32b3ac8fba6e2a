------------------------ MODULE HttpRequestLifecycle ------------------------
(***************************************************************************)
(* What the users of HttpRequestManager may rely on, whatever happens to a *)
(* request inside: an accepted request gets one final callback and then    *)
(* leaves its group; group_request_count is the number of accepted         *)
(* requests that have not left; a call that waits for a group is answered  *)
(* when everything outstanding at that moment has been answered.           *)
(***************************************************************************)
EXTENDS Naturals, FiniteSets

CONSTANTS Requests, Groups, GroupOf, Waiters, WaitsFor

VARIABLES
    status,     \* of each request
    inflight,   \* group_request_count of each group
    waiting,    \* of each call that waits
    owed        \* requests each registered waiter waits for

vars == <<status, inflight, waiting, owed>>

Open(st) == {r \in Requests : st[r] \in {"open", "answered"}}
InGroup(st, g) == {r \in Open(st) : GroupOf[r] = g}

Init ==
    /\ status = [r \in Requests |-> "idle"]
    /\ inflight = [g \in Groups |-> 0]
    /\ waiting = [w \in Waiters |-> "none"]
    /\ owed = [w \in Waiters |-> {}]

\* A request goes from one status to the next, and the counts follow.
Goes(r, from, to) ==
    /\ status[r] = from
    /\ status' = [status EXCEPT ![r] = to]
    /\ inflight' = [g \in Groups |-> Cardinality(InGroup(status', g))]

Accept(r) == Goes(r, "idle", "open") /\ UNCHANGED <<waiting, owed>>
Refuse(r) == Goes(r, "idle", "refused") /\ UNCHANGED <<waiting, owed>>
Answer(r) == Goes(r, "open", "answered") /\ UNCHANGED <<waiting, owed>>

\* All that a waiter was registered for has been answered.
Served(w) == \A r \in owed[w] : status[r] \in {"answered", "finished"}

\* The request leaves its group; waiters that have been served may go with it.
Finish(r) ==
    /\ Goes(r, "answered", "finished")
    /\ \E W \in SUBSET {w \in Waiters : waiting[w] = "registered" /\ Served(w)} :
          waiting' = [w \in Waiters |-> IF w \in W THEN "over" ELSE waiting[w]]
    /\ UNCHANGED owed

\* A call that waits registers, or is answered at once: its group is empty, or
\* the manager has been shut down.
Register(w) ==
    /\ waiting[w] = "none"
    /\ \/ /\ waiting' = [waiting EXCEPT ![w] = "registered"]
          /\ owed' = [owed EXCEPT ![w] = InGroup(status, WaitsFor[w])]
       \/ /\ waiting' = [waiting EXCEPT ![w] = "over"]
          /\ UNCHANGED owed
    /\ UNCHANGED <<status, inflight>>

\* Waiters are answered, or one is withdrawn by its owner.
Notify ==
    /\ \E W \in SUBSET {w \in Waiters : waiting[w] = "registered" /\ Served(w)} :
          waiting' = [w \in Waiters |-> IF w \in W THEN "over" ELSE waiting[w]]
    /\ UNCHANGED <<status, inflight, owed>>

Withdraw(w) ==
    /\ waiting[w] = "registered"
    /\ waiting' = [waiting EXCEPT ![w] = "over"]
    /\ UNCHANGED <<status, inflight, owed>>

Next ==
    \/ \E r \in Requests : Accept(r) \/ Refuse(r) \/ Answer(r) \/ Finish(r)
    \/ \E w \in Waiters : Register(w) \/ Withdraw(w)
    \/ Notify

Spec == Init /\ [][Next]_vars
=============================================================================
