--------------------------- MODULE HttpRateLimiter ---------------------------
(***************************************************************************)
(* HttpRateLimiter and the RAII handles that keep its limits alive.        *)
(*                                                                         *)
(* Every public operation runs under m_mutex and is one action.  What runs *)
(* outside the mutex is an action of its own: the destructor of the last   *)
(* handle calls remove_limit_internal some time after the reference count  *)
(* reached zero, and other calls may come in between.                      *)
(*                                                                         *)
(* A request stands for an HttpRequestContext: it copies the handles of at *)
(* most two limits when it is built, asks allow_request for every attempt, *)
(* keeps its in-flight token between attempts, and calls release_request   *)
(* once, through on_complete, when it is finished.                         *)
(***************************************************************************)
EXTENDS LimitOps, FiniteSetsExt

CONSTANTS
    Requests,       \* callers; a request is its own in-flight token
    Untracked,      \* the requests that call the overloads with token 0
    Keys,           \* partition keys
    Rates,          \* requests_per_period a limit may be created with
    Periods,        \* period_ms a limit may be created with
    GcEvery,        \* successful calls between two sweeps (64 in the code)
    DurationUnit,   \* milliseconds in one tick of the Duration callers ask for
    Uptimes,        \* steady clock readings at start
    MaxLimits,      \* bound: limits created
    MaxTime,        \* bound: last clock reading
    MaxAttempts     \* bound: attempts of one request

ASSUME LimiterAssumption ==
    /\ NoToken \notin Requests
    /\ Untracked \subseteq Requests
    /\ Rates \subseteq Nat /\ Periods \subseteq Nat /\ Uptimes \subseteq Nat
    /\ GcEvery \in Nat \ {0} /\ DurationUnit \in Nat \ {0}
    /\ MaxLimits \in Nat /\ MaxTime \in Nat /\ MaxAttempts \in Nat
    /\ MaxDuration \in Nat \ {0}

VARIABLES
    now,        \* steady_clock::now()
    m_next_id,
    m_limits,   \* ids in the map m_limits
    params,     \* immutable part of LimitData, by id
    removed,    \* ids whose LimitData::removed is set
    keys,       \* LimitData::keys, by id
    m_owned_handles,
    user,       \* ids whose handle the application holds a copy of
    dying,      \* ids whose last handle is being destroyed
    m_gc_counter,
    req         \* the requests

vars == <<now, m_next_id, m_limits, params, removed, keys, m_owned_handles,
          user, dying, m_gc_counter, req>>

Ids == 1 .. MaxLimits
NoLimit == 0        \* an empty HttpRateLimitHandlePtr

Token(r) == IF r \in Untracked THEN NoToken ELSE r

Phases == {"none", "waiting", "inflight", "backoff", "finished", "gone"}

RequestStates ==
    [phase : Phases, general : Ids \cup {NoLimit}, specific : Ids \cup {NoLimit},
     gkey : Keys, skey : Keys, attempts : Nat]

-----------------------------------------------------------------------------
(* Handles                                                                 *)

Handles(q) ==
    IF q.phase \in {"none", "gone"} THEN {}
    ELSE {q.general, q.specific} \ {NoLimit}

\* Ids with at least one HttpRateLimitHandlePtr.
Referenced(owned, held, rs) ==
    owned \cup held \cup UNION {Handles(rs[r]) : r \in Requests}

\* The step drops references; handles left without one begin to die.
DropRefs(owned, held, rs) ==
    /\ m_owned_handles' = owned
    /\ user' = held
    /\ req' = rs
    /\ dying' = dying \cup (Referenced(m_owned_handles, user, req)
                              \ Referenced(owned, held, rs))

-----------------------------------------------------------------------------
(* Slots: the (limit, key) pairs a request uses.  A pair named as both the *)
(* general and the specific one is one slot: same_limit in the code.       *)

Slots(q) == {<<q.general, q.gkey>>, <<q.specific, q.skey>>}

\* Slots whose limit is found in m_limits and not marked removed.
LiveSlots(q) == {sl \in Slots(q) : sl[1] \in m_limits \ removed}

SequentialSlots(q) ==
    {sl \in Slots(q) : sl[1] # NoLimit /\ params[sl[1]].sequential}

FindsALimit(q) == q.general \in m_limits \/ q.specific \in m_limits

CanStart(r) ==
    \A sl \in LiveSlots(req[r]) :
        CanPass(params[sl[1]], keys[sl[1]][sl[2]], Token(r), now)

Committed(r) ==
    [i \in Ids |-> [k \in Keys |->
        IF <<i, k>> \in LiveSlots(req[r])
        THEN CommitLimit(params[i], keys[i][k], Token(r), now)
        ELSE keys[i][k]]]

Swept(ks) ==
    [i \in Ids |-> [k \in Keys |->
        IF StaleKey(params[i], ks[i][k], now) THEN NoKey ELSE ks[i][k]]]

\* Removed limits without any key left.
Empty(ks) == {i \in removed : \A k \in Keys : ~ks[i][k].present}

\* Mutant: the slot of the specific limit is forgotten.
ReleasedGeneralOnly(r) ==
    [i \in Ids |-> [k \in Keys |->
        IF /\ <<i, k>> = <<req[r].general, req[r].gkey>>
           /\ <<i, k>> \in SequentialSlots(req[r]) /\ i \in m_limits
        THEN ReleaseKey(keys[i][k], Token(r))
        ELSE keys[i][k]]]

Released(r) ==
    [i \in Ids |-> [k \in Keys |->
        IF <<i, k>> \in SequentialSlots(req[r]) /\ i \in m_limits
        THEN ReleaseKey(keys[i][k], Token(r))
        ELSE keys[i][k]]]

-----------------------------------------------------------------------------
Init ==
    /\ now \in Uptimes
    /\ m_next_id = 1
    /\ m_limits = {}
    /\ params = [i \in Ids |-> [rpp |-> 0, period |-> 0, sequential |-> FALSE]]
    /\ removed = {}
    /\ keys = [i \in Ids |-> [k \in Keys |-> NoKey]]
    /\ m_owned_handles = {}
    /\ user = {}
    /\ dying = {}
    /\ m_gc_counter = 0
    /\ \E k \in Keys :
         req = [r \in Requests |->
                  [phase |-> "none", general |-> NoLimit, specific |-> NoLimit,
                   gkey |-> k, skey |-> k, attempts |-> 0]]

Tick ==
    /\ now < MaxTime
    /\ now' = now + 1
    /\ UNCHANGED <<m_next_id, m_limits, params, removed, keys,
                   m_owned_handles, user, dying, m_gc_counter, req>>

\* create_limit_handle; the caller keeps the returned handle.
CreateLimit(rpp, period, sequential) ==
    /\ m_next_id <= MaxLimits
    /\ m_next_id' = m_next_id + 1
    /\ m_limits' = m_limits \cup {m_next_id}
    /\ params' = [params EXCEPT ![m_next_id] =
                    [rpp |-> rpp, period |-> period, sequential |-> sequential]]
    /\ m_owned_handles' = m_owned_handles \cup {m_next_id}
    /\ user' = user \cup {m_next_id}
    /\ UNCHANGED <<now, removed, keys, dying, m_gc_counter, req>>

\* get_limit: only the manager-owned handle can be looked up.
GetLimit(i) ==
    /\ i \in m_owned_handles
    /\ user' = user \cup {i}
    /\ UNCHANGED <<now, m_next_id, m_limits, params, removed, keys,
                   m_owned_handles, dying, m_gc_counter, req>>

\* remove_limit: releases the manager-owned handle, outside the mutex.
RemoveLimit(i) ==
    /\ i \in m_owned_handles
    /\ DropRefs(m_owned_handles \ {i}, user, req)
    /\ UNCHANGED <<now, m_next_id, m_limits, params, removed, keys,
                   m_gc_counter>>

\* The application destroys its copies of a handle.
DropHandle(i) ==
    /\ i \in user
    /\ DropRefs(m_owned_handles, user \ {i}, req)
    /\ UNCHANGED <<now, m_next_id, m_limits, params, removed, keys,
                   m_gc_counter>>

\* ~HttpRateLimitHandle: remove_limit_internal under the mutex.
RemoveLimitInternal(i) ==
    /\ i \in dying
    /\ dying' = dying \ {i}
    /\ IF \E k \in Keys : keys[i][k].present
       THEN /\ removed' = removed \cup {i}
            /\ m_limits' = m_limits
       ELSE /\ removed' = removed
            /\ m_limits' = m_limits \ {i}
    /\ UNCHANGED <<now, m_next_id, params, keys, m_owned_handles, user,
                   m_gc_counter, req>>

\* A request is built: it copies the handles of its limits.
Submit(r, general, specific, gkey, skey) ==
    /\ req[r].phase = "none"
    /\ {general, specific} \ {NoLimit} \subseteq user
    /\ req' = [req EXCEPT ![r] =
                 [phase |-> "waiting", general |-> general,
                  specific |-> specific, gkey |-> gkey, skey |-> skey,
                  attempts |-> 0]]
    /\ UNCHANGED <<now, m_next_id, m_limits, params, removed, keys,
                   m_owned_handles, user, dying, m_gc_counter>>

\* allow_request returns true: an attempt of r starts.  A denied call
\* changes nothing.
AllowRequest(r) ==
    /\ req[r].phase \in {"waiting", "backoff"}
    /\ req[r].attempts < MaxAttempts
    /\ CanStart(r)
    /\ req' = [req EXCEPT ![r].phase = "inflight", ![r].attempts = @ + 1]
    /\ m_gc_counter' = IF FindsALimit(req[r])
                       THEN (m_gc_counter + 1) % GcEvery ELSE m_gc_counter
    /\ IF FindsALimit(req[r]) /\ m_gc_counter' = 0
       THEN /\ keys' = Swept(Committed(r))
            /\ m_limits' = m_limits \ Empty(Swept(Committed(r)))
            /\ removed' = removed \ Empty(Swept(Committed(r)))
       ELSE /\ keys' = Committed(r)
            /\ UNCHANGED <<m_limits, removed>>
    /\ UNCHANGED <<now, m_next_id, params, m_owned_handles, user, dying>>

\* The attempt failed and will be retried: the token is kept.
BackOff(r) ==
    /\ req[r].phase = "inflight"
    /\ req' = [req EXCEPT ![r].phase = "backoff"]
    /\ UNCHANGED <<now, m_next_id, m_limits, params, removed, keys,
                   m_owned_handles, user, dying, m_gc_counter>>

\* HttpRequestContext::complete of a request that was granted an attempt:
\* on_complete is armed and calls release_request.
ReleaseRequest(r) ==
    /\ req[r].phase \in {"inflight", "backoff"}
    /\ req' = [req EXCEPT ![r].phase = "finished"]
    /\ keys' = IF Token(r) = NoToken THEN keys ELSE Released(r)
    /\ UNCHANGED <<now, m_next_id, m_limits, params, removed,
                   m_owned_handles, user, dying, m_gc_counter>>

\* complete of a request that never passed the limiter: no on_complete.
CompleteUnstarted(r) ==
    /\ req[r].phase = "waiting"
    /\ req' = [req EXCEPT ![r].phase = "finished"]
    /\ UNCHANGED <<now, m_next_id, m_limits, params, removed, keys,
                   m_owned_handles, user, dying, m_gc_counter>>

\* Mutant: a context waiting for its retry is destroyed without completing.
DestroyRequestUnfinished(r) ==
    /\ req[r].phase \in {"finished", "backoff"}
    /\ DropRefs(m_owned_handles, user, [req EXCEPT ![r].phase = "gone"])
    /\ UNCHANGED <<now, m_next_id, m_limits, params, removed, keys,
                   m_gc_counter>>

\* The context is destroyed with the handles it copied.
DestroyRequest(r) ==
    /\ req[r].phase = "finished"
    /\ DropRefs(m_owned_handles, user, [req EXCEPT ![r].phase = "gone"])
    /\ UNCHANGED <<now, m_next_id, m_limits, params, removed, keys,
                   m_gc_counter>>

Next ==
    \/ Tick
    \/ \E rpp \in Rates, period \in Periods, sequential \in BOOLEAN :
         CreateLimit(rpp, period, sequential)
    \/ \E i \in Ids : \/ GetLimit(i)
                      \/ RemoveLimit(i)
                      \/ DropHandle(i)
                      \/ RemoveLimitInternal(i)
    \/ \E r \in Requests :
         \/ \E g, s \in Ids \cup {NoLimit}, gk, sk \in Keys : Submit(r, g, s, gk, sk)
         \/ AllowRequest(r)
         \/ BackOff(r)
         \/ ReleaseRequest(r)
         \/ CompleteUnstarted(r)
         \/ DestroyRequest(r)

Spec == Init /\ [][Next]_vars

-----------------------------------------------------------------------------
(* What the limiter tells a caller who asks for the delay.                 *)

\* time_until_next_allowed: the larger of the delays of the limits found.
TimeUntilNextAllowed(q) ==
    Max({0} \cup {TimeUntilLimitAllows(params[sl[1]], keys[sl[1]][sl[2]],
                                      now, DurationUnit) :
                  sl \in {x \in Slots(q) : x[1] \in m_limits}})

\* time_until_any_limit_allows: the smallest positive delay of any key.
PositiveDelays ==
    {d \in {TimeUntilKeyAllows(params[sl[1]], keys[sl[1]][sl[2]], now, DurationUnit) :
              sl \in {x \in m_limits \X Keys : keys[x[1]][x[2]].present}} :
        d > 0}

\* Mutant: the largest delay instead of the smallest.
TimeUntilEveryLimitAllows ==
    IF PositiveDelays = {} THEN 0 ELSE Max(PositiveDelays)

TimeUntilAnyLimitAllows ==
    IF PositiveDelays = {} THEN 0 ELSE Min(PositiveDelays)

-----------------------------------------------------------------------------
(* Properties                                                              *)

\* Every variable has the shape of the data it models.
TypeOK ==
    /\ now \in Nat
    /\ m_next_id \in 1 .. (MaxLimits + 1)
    /\ m_limits \subseteq Ids
    /\ params \in [Ids -> LimitParams]
    /\ removed \subseteq m_limits
    /\ keys \in [Ids -> [Keys -> KeyStates(Requests)]]
    /\ m_owned_handles \subseteq Ids
    /\ user \subseteq Ids
    /\ dying \subseteq Ids
    /\ m_gc_counter \in 0 .. (GcEvery - 1)
    /\ req \in [Requests -> RequestStates]

\* The request was granted an attempt and has not completed.
Granted(r) == req[r].phase \in {"inflight", "backoff"}

\* create_limit_handle's promise for sequential = true: "no other request
\* sharing this limit may start until the current request (including all its
\* retries) has finished".  It has to survive sweeps, removal of the limit
\* and retries that come back through allow_request.
SequentialExclusion ==
    \A r, q \in Requests \ Untracked :
        r # q /\ Granted(r) /\ Granted(q)
            => SequentialSlots(req[r]) \cap SequentialSlots(req[q]) = {}

\* Every token stored in a key belongs to a request that was granted, uses
\* that key and will release it: a finished request blocks nobody
\* (release_request, gc_stale_keys and same_limit together).
NoLeakedToken ==
    \A i \in m_limits, k \in Keys : \A t \in keys[i][k].tokens :
        Granted(t) /\ <<i, k>> \in SequentialSlots(req[t])

\* "A record remains here while at least one HttpRateLimitHandlePtr exists":
\* a limit some handle refers to is in m_limits and not marked removed, so
\* no request can slip past it.
HandleKeepsLimit ==
    Referenced(m_owned_handles, user, req) \subseteq m_limits \ removed

\* A limit marked removed holds no token: no slot vanishes under a request
\* when gc_stale_keys erases the limit.
RemovedIsIdle ==
    \A i \in removed, k \in Keys : keys[i][k].tokens = {}

\* The counter of a key never exceeds requests_per_period, through window
\* resets, sweeps and retries.
CountWithinRate ==
    \A i \in m_limits, k \in Keys :
        params[i].rpp > 0 => keys[i][k].count <= params[i].rpp

\* A request that holds no token yet.
Fresh(r) == req[r].phase = "waiting" /\ r \notin Untracked

\* "duration is 0 only when all present dimensions allow immediately":
\* time_until_next_allowed tells a request that has not started 0 exactly
\* when allow_request would let it start.
DelayAgreesWithAllow ==
    \A r \in Requests :
        Fresh(r) => (TimeUntilNextAllowed(req[r]) = 0 <=> CanStart(r))

\* A finite delay is exact: waiting that long, and not one millisecond less,
\* is what a request needs if nobody else takes the slots.
DelayIsExact ==
    \A r \in Requests :
        LET d == TimeUntilNextAllowed(req[r])
            StartsAt(t) == \A sl \in LiveSlots(req[r]) :
                             CanPass(params[sl[1]], keys[sl[1]][sl[2]], Token(r), t)
        IN  Fresh(r) /\ 0 < d /\ d < MaxDuration
                => /\ StartsAt(now + d * DurationUnit)
                   /\ ~StartsAt(now + d * DurationUnit - 1)

\* Sleeping for time_until_any_limit_allows never oversleeps: a request that
\* is delayed now is delayed at least that long.
AnyDelayIsLowerBound ==
    \A r \in Requests :
        LET d == TimeUntilNextAllowed(req[r])
        IN  Fresh(r) /\ d > 0
                => 0 < TimeUntilAnyLimitAllows /\ TimeUntilAnyLimitAllows <= d
=============================================================================
