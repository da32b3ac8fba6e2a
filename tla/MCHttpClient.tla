---------------------------- MODULE MCHttpClient ----------------------------
(* A small instance of HttpClient for TLC: one client, and one request without *)
(* a client.  The requests of the client share a sequential limit.           *)
EXTENDS HttpClient

CONSTANTS one, two, free, group, slot, destructor

InGroup == [r \in Requests |-> IF r = free THEN NoGroup ELSE group]
SlotUsed == [r \in Requests |-> IF r = free THEN {} ELSE {slot}]
Retried == [r \in Requests |-> IF r = one THEN 2 ELSE 0]
CancelsGroup == [c \in Cancels |-> group]
WaitsForGroup == [w \in Waiters |-> group]
Cap == [g \in Groups |-> 1]
Destructors == [g \in Groups |-> destructor]
=============================================================================
