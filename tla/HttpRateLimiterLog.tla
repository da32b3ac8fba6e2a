------------------------- MODULE HttpRateLimiterLog -------------------------
(***************************************************************************)
(* HttpRateLimiter with a history of the attempts it granted, to compare   *)
(* its counters with what really happened.  log[i][k] lists the times of   *)
(* the attempts granted on key k of limit i, in the order of the grants.   *)
(***************************************************************************)
EXTENDS HttpRateLimiter, FiniteSets, Sequences

VARIABLE log

logVars == <<vars, log>>

LogInit ==
    /\ Init
    /\ log = [i \in Ids |-> [k \in Keys |-> << >>]]

LogNext ==
    \/ \E r \in Requests :
         /\ AllowRequest(r)
         /\ log' = [i \in Ids |-> [k \in Keys |->
                      IF <<i, k>> \in LiveSlots(req[r])
                      THEN Append(log[i][k], now)
                      ELSE log[i][k]]]
    \/ /\ Next
       /\ \A r \in Requests : req'[r].attempts <= req[r].attempts
       /\ UNCHANGED log

LogSpec == LogInit /\ [][LogNext]_logVars

\* Attempts granted on the key at the times in T.
GrantedIn(i, k, T) == Cardinality({n \in DOMAIN log[i][k] : log[i][k][n] \in T})

-----------------------------------------------------------------------------
\* The counter of a key that counts is the number of attempts granted since
\* its window began: no attempt is counted twice (same_limit), none is
\* forgotten by a sweep (gc_stale_keys), a release or a retry.  A limit of
\* period 0 has no window: update_key begins a new one with every attempt.
CountIsHistory ==
    \A i \in m_limits, k \in Keys :
        params[i].rpp > 0 /\ params[i].period > 0 /\ keys[i][k].present =>
            keys[i][k].count = GrantedIn(i, k, keys[i][k].start .. now)

\* The window is fixed, not sliding.  Whatever the interleaving of attempts,
\* resets and sweeps, any period_ms consecutive milliseconds see at most
\* 2 * requests_per_period - 1 attempts (check_key and update_key).  The
\* first window of a key starts at the clock's epoch when the machine has been
\* up for less than a period; only then are there 2 * requests_per_period.
SlidingWindowBound ==
    \A i \in m_limits, k \in Keys : \A t \in 0 .. now :
        LET rpp == params[i].rpp
            T   == t .. (t + params[i].period - 1)
            young == t < params[i].period
        IN  rpp > 0 =>
              GrantedIn(i, k, T) <= IF young THEN 2 * rpp ELSE 2 * rpp - 1
=============================================================================
