------------------------ MODULE WebSocketRateLimiter ------------------------
(***************************************************************************)
(* WebSocketRateLimiter: a table of fixed windows indexed by limit id, the *)
(* general limit at id 0.  A limit is a record [rpp, period, count, age];  *)
(* age is the time since start_time, capped at the period, because the     *)
(* code only ever asks whether the period is over.                         *)
(***************************************************************************)
EXTENDS Integers, Sequences

\* Mutant: the counters start again with every configuration.
SetLimitForgetting(data, limits) ==
    [i \in 1 .. Len(limits) |->
        [rpp |-> limits[i].rpp, period |-> limits[i].period, count |-> 0, age |-> 0]]

\* set_limit: the table is resized; counters that stay keep their count, and
\* every window begins now.
SetLimit(data, limits) ==
    [i \in 1 .. Len(limits) |->
        [rpp |-> limits[i].rpp, period |-> limits[i].period,
         count |-> IF i <= Len(data) THEN data[i].count ELSE 0, age |-> 0]]

PeriodElapsed(l) == l.age >= l.period

\* Mutant: a full window stays full; only a request that passes begins a new one.
CheckLimitCountOnly(l) == l.count < l.rpp \/ l.rpp = 0

CheckLimit(l) == PeriodElapsed(l) \/ l.count < l.rpp \/ l.rpp = 0

UpdateLimit(l) ==
    IF PeriodElapsed(l) THEN [l EXCEPT !.age = 0, !.count = 1]
    ELSE [l EXCEPT !.count = @ + 1]

\* The indices of the limits that apply to an id: none to a negative id or one
\* past the table, where not even the general limit does.
Applicable(data, id) ==
    IF id < 0 \/ id >= Len(data) THEN {} ELSE {1, id + 1}

AllowRequest(data, id) == \A i \in Applicable(data, id) : CheckLimit(data[i])

\* The table after a request that was allowed.
CommitRequest(data, id) ==
    [i \in DOMAIN data |->
        IF i \in Applicable(data, id) THEN UpdateLimit(data[i]) ELSE data[i]]

Aged(data) ==
    [i \in DOMAIN data |->
        [data[i] EXCEPT !.age = IF @ < data[i].period THEN @ + 1 ELSE @]]
=============================================================================
