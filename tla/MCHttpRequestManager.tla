------------------------ MODULE MCHttpRequestManager ------------------------
(***************************************************************************)
(* Small instances of HttpRequestManager for TLC: one group, one           *)
(* sequential limit.  Requests other than `free' use the limit, so a batch *)
(* can hold `free' together with one of them.                              *)
(***************************************************************************)
EXTENDS HttpRequestManager

CONSTANTS one, two, free, null, group, slot, byGroup, byId, waiter

InGroup == [r \in Requests |-> IF r \in NullRequests THEN NoGroup ELSE group]
SlotUsed == [r \in Requests |-> IF r \in {free, null} THEN {} ELSE {slot}]
Retried == [r \in Requests |-> IF r = two THEN 0 ELSE 2]
NotRetried == [r \in Requests |-> 0]
CancelsWhat == [x \in Cancels |-> IF x = byGroup THEN group ELSE one]
WaitsForGroup == [x \in Waiters |-> group]
=============================================================================
