----------------------- MODULE HttpRateLimiterProofs -----------------------
(***************************************************************************)
(* The safety of HttpRateLimiter for every set of requests, keys, rates    *)
(* and periods, every number of limits and every sweep interval, and what  *)
(* its delay queries promise.                                              *)
(***************************************************************************)
EXTENDS HttpRateLimiter, WellFoundedInduction, TLAPS

-----------------------------------------------------------------------------
(* One key of one limit *)

\* update_key keeps the shape of a KeyState and touches only the counter and
\* the window.
LEMMA UpdateShape ==
    ASSUME NEW lim \in LimitParams, NEW ks \in KeyStates(Requests),
           now \in Nat
    PROVE  /\ UpdateKey(lim, ks, now) \in KeyStates(Requests)
           /\ UpdateKey(lim, ks, now).present = ks.present
           /\ UpdateKey(lim, ks, now).tokens = ks.tokens
<1>1. CASE lim.rpp = 0
  BY <1>1 DEF UpdateKey
<1>2. CASE lim.rpp # 0 /\ PeriodElapsed(lim, ks, now)
  BY <1>2, Zenon DEF UpdateKey, KeyStates
<1>3. CASE lim.rpp # 0 /\ ~PeriodElapsed(lim, ks, now)
  BY <1>3 DEF UpdateKey, KeyStates
<1> QED
  BY <1>1, <1>2, <1>3

\* commit_limit keeps the shape of a KeyState, marks the key present and adds
\* the token of a tracked caller to a sequential limit.
LEMMA CommitShape ==
    ASSUME NEW lim \in LimitParams, NEW ks \in KeyStates(Requests),
           NEW tok, tok \in Requests \/ tok = NoToken, now \in Nat
    PROVE  /\ CommitLimit(lim, ks, tok, now) \in KeyStates(Requests)
           /\ CommitLimit(lim, ks, tok, now).present = TRUE
           /\ CommitLimit(lim, ks, tok, now).tokens
                = ks.tokens \cup Entering(lim, tok)
<1> DEFINE ks1 == [ks EXCEPT !.present = TRUE,
                     !.tokens = @ \cup Entering(lim, tok)]
<1>1. ks1 \in KeyStates(Requests) /\ ks1.present = TRUE
      /\ ks1.tokens = ks.tokens \cup Entering(lim, tok)
  BY Zenon DEF KeyStates, Entering
<1>2. CommitLimit(lim, ks, tok, now) = UpdateKey(lim, ks1, now)
  BY DEF CommitLimit
<1> HIDE DEF ks1
<1> QED
  BY <1>1, <1>2, UpdateShape

\* A request that may pass leaves the counter within requests_per_period
\* (check_key before update_key).
LEMMA CommitCount ==
    ASSUME NEW lim \in LimitParams, NEW ks \in KeyStates(Requests),
           NEW tok, now \in Nat, lim.rpp > 0,
           ~ks.present => ks.count = 0,
           CanPass(lim, ks, tok, now)
    PROVE  CommitLimit(lim, ks, tok, now).count <= lim.rpp
<1> DEFINE ks1 == [ks EXCEPT !.present = TRUE,
                     !.tokens = @ \cup Entering(lim, tok)]
<1>1. /\ ks1.count = ks.count /\ ks1.start = ks.start
      /\ DOMAIN ks1 = {"present", "count", "start", "tokens"}
  BY DEF KeyStates
<1>2. CommitLimit(lim, ks, tok, now) = UpdateKey(lim, ks1, now)
  BY DEF CommitLimit
<1> HIDE DEF ks1
<1>3. PeriodElapsed(lim, ks1, now) <=> PeriodElapsed(lim, ks, now)
  BY <1>1 DEF PeriodElapsed
<1>4. PeriodElapsed(lim, ks, now) \/ ks.count < lim.rpp
  BY DEF CanPass, CheckKey, LimitParams, KeyStates
<1>5. lim.rpp # 0 /\ lim.rpp \in Nat /\ ks.count \in Nat
  BY DEF LimitParams, KeyStates
<1>6. CASE PeriodElapsed(lim, ks, now)
  <2>1. UpdateKey(lim, ks1, now) = [ks1 EXCEPT !.start = now, !.count = 1]
    BY <1>3, <1>5, <1>6 DEF UpdateKey
  <2>2. UpdateKey(lim, ks1, now).count = 1
    BY <1>1, <2>1
  <2> QED
    BY <1>2, <1>5, <2>2
<1>7. CASE ~PeriodElapsed(lim, ks, now)
  <2>1. UpdateKey(lim, ks1, now) = [ks1 EXCEPT !.count = @ + 1]
    BY <1>3, <1>5, <1>7 DEF UpdateKey
  <2>2. UpdateKey(lim, ks1, now).count = ks.count + 1
    BY <1>1, <2>1
  <2> QED
    BY <1>2, <1>4, <1>5, <1>7, <2>2
<1> QED
  BY <1>6, <1>7

\* release_key takes away the token and nothing else, or erases the key.
LEMMA ReleaseShape ==
    ASSUME NEW ks \in KeyStates(Requests), NEW tok,
           ~ks.present => ks = NoKey
    PROVE  /\ ReleaseKey(ks, tok) \in KeyStates(Requests)
           /\ ReleaseKey(ks, tok).tokens = ks.tokens \ {tok}
           /\ ReleaseKey(ks, tok).count = ks.count
           /\ ~ReleaseKey(ks, tok).present => ReleaseKey(ks, tok) = NoKey
<1>1. NoKey \in KeyStates(Requests) /\ NoKey.tokens = {} /\ NoKey.count = 0
  BY DEF NoKey, KeyStates
<1>2. CASE ~ks.present \/ (ks.tokens \ {tok} = {} /\ ks.count = 0)
  BY <1>1, <1>2 DEF ReleaseKey
<1>3. CASE ks.present /\ ~(ks.tokens \ {tok} = {} /\ ks.count = 0)
  BY <1>3 DEF ReleaseKey, KeyStates
<1> QED
  BY <1>2, <1>3 DEF KeyStates

-----------------------------------------------------------------------------
(* The inductive invariant *)

\* A granted request holds the token of every sequential slot it uses.
TokensHeld ==
    \A r \in Requests \ Untracked : Granted(r) =>
        \A i \in Ids, k \in Keys :
            <<i, k>> \in SequentialSlots(req[r]) => r \in keys[i][k].tokens

\* Every token belongs to a granted request that uses the slot.
TokensOwned ==
    \A i \in Ids, k \in Keys : \A t \in keys[i][k].tokens :
        /\ t \in Requests \ Untracked
        /\ Granted(t)
        /\ <<i, k>> \in SequentialSlots(req[t])

\* A key holds at most one token.
OneToken ==
    \A i \in Ids, k \in Keys : \A t, u \in keys[i][k].tokens : t = u

\* Key states exist only for created limits; a missing key is blank.
Blank ==
    \A i \in Ids, k \in Keys :
        /\ ~keys[i][k].present => keys[i][k] = NoKey
        /\ i >= m_next_id => keys[i][k] = NoKey

CountBound ==
    \A i \in Ids, k \in Keys :
        params[i].rpp > 0 => keys[i][k].count <= params[i].rpp

\* Handles refer to live limits, and no handle is alive and dying at once.
HandlesOK ==
    /\ HandleKeepsLimit
    /\ \A i \in m_limits : i < m_next_id
    /\ dying \subseteq m_limits \ removed
    /\ dying \cap Referenced(m_owned_handles, user, req) = {}

IInv ==
    /\ TypeOK
    /\ TokensHeld
    /\ TokensOwned
    /\ OneToken
    /\ Blank
    /\ CountBound
    /\ HandlesOK

\* A step that moves one request to another phase keeps the shape of req.
LEMMA PhaseStep ==
    ASSUME req \in [Requests -> RequestStates], NEW r \in Requests,
           NEW p \in Phases, NEW n \in Nat
    PROVE  /\ [req EXCEPT ![r].phase = p] \in [Requests -> RequestStates]
           /\ [req EXCEPT ![r].phase = p, ![r].attempts = n]
                \in [Requests -> RequestStates]
<1>1. req[r] \in RequestStates
  OBVIOUS
<1>2. [req[r] EXCEPT !.phase = p] \in RequestStates
  BY <1>1 DEF RequestStates
<1>3. [req[r] EXCEPT !.phase = p, !.attempts = n] \in RequestStates
  BY <1>1, Zenon DEF RequestStates
<1>4. [req EXCEPT ![r].phase = p] = [req EXCEPT ![r] = [req[r] EXCEPT !.phase = p]]
  OBVIOUS
<1>5. [req EXCEPT ![r].phase = p, ![r].attempts = n]
        = [req EXCEPT ![r] = [req[r] EXCEPT !.phase = p, !.attempts = n]]
  BY <1>1, Zenon DEF RequestStates
<1> QED
  BY <1>2, <1>3, <1>4, <1>5

\* The initial state, with no limit and no request, satisfies IInv.
LEMMA InitInv == Init => IInv
<1> SUFFICES ASSUME Init PROVE IInv
  OBVIOUS
<1> USE LimiterAssumption
<1>1. NoKey \in KeyStates(Requests)
      /\ NoKey.tokens = {} /\ NoKey.count = 0
  BY DEF NoKey, KeyStates
<1>2. TypeOK
  BY <1>1 DEF Init, TypeOK, LimitParams, RequestStates, Phases, Ids, NoLimit
<1>3. \A i \in Ids, k \in Keys : keys[i][k] = NoKey
  BY DEF Init
<1>4. \A r \in Requests : req[r].phase = "none"
  BY DEF Init
<1>5. TokensHeld /\ TokensOwned /\ OneToken /\ Blank
  BY <1>1, <1>3, <1>4 DEF TokensHeld, TokensOwned, OneToken, Blank, Granted
<1>6. CountBound
  BY <1>1, <1>2, <1>3 DEF CountBound, TypeOK, LimitParams
<1>7. HandlesOK
  BY <1>4 DEF Init, HandlesOK, HandleKeepsLimit, Referenced, Handles
<1> QED
  BY <1>2, <1>5, <1>6, <1>7 DEF IInv

\* A step that changes neither key states nor limits, and neither grants nor
\* completes a request, keeps the token discipline.
LEMMA TokensFrame ==
    ASSUME IInv, UNCHANGED <<keys, params, m_next_id>>,
           \A r \in Requests : Granted(r)' <=> Granted(r),
           \A r \in Requests : Granted(r) => Slots(req[r])' = Slots(req[r])
    PROVE  (TokensHeld /\ TokensOwned /\ OneToken /\ Blank /\ CountBound)'
<1>1. \A r \in Requests : Granted(r) =>
        SequentialSlots(req[r])' = SequentialSlots(req[r])
  BY DEF SequentialSlots
<1>2. TokensHeld'
  BY <1>1 DEF IInv, TokensHeld
<1>3. TokensOwned'
  BY <1>1, Zenon DEF IInv, TokensOwned
<1>4. (OneToken /\ Blank /\ CountBound)'
  BY DEF IInv, OneToken, Blank, CountBound
<1> QED
  BY <1>2, <1>3, <1>4

\* Dropping references keeps the handle discipline: what loses its last
\* handle is dying, and what has one is not.
LEMMA DropFrame ==
    ASSUME IInv, NEW owned, NEW held, NEW rs,
           DropRefs(owned, held, rs),
           UNCHANGED <<m_limits, removed, m_next_id>>,
           Referenced(owned, held, rs)
             \subseteq Referenced(m_owned_handles, user, req)
    PROVE  HandlesOK'
<1>1. Referenced(m_owned_handles, user, req)' = Referenced(owned, held, rs)
  BY DEF DropRefs, Referenced
<1>2. HandleKeepsLimit'
  BY <1>1 DEF IInv, HandlesOK, HandleKeepsLimit
<1>3. (dying \subseteq m_limits \ removed)'
  BY DEF DropRefs, IInv, HandlesOK, HandleKeepsLimit
<1>4. (dying \cap Referenced(m_owned_handles, user, req))' = {}
  BY <1>1 DEF DropRefs, IInv, HandlesOK
<1> QED
  BY <1>2, <1>3, <1>4 DEF HandlesOK, IInv

\* A step that touches neither handles nor limits.
LEMMA HandlesFrame ==
    ASSUME IInv,
           UNCHANGED <<m_limits, removed, m_next_id, m_owned_handles, user, dying>>,
           \A r \in Requests : Handles(req'[r]) \subseteq Handles(req[r]) \cup user
    PROVE  HandlesOK'
<1>1. Referenced(m_owned_handles, user, req)'
        \subseteq Referenced(m_owned_handles, user, req)
  BY DEF Referenced
<1> QED
  BY <1>1 DEF IInv, HandlesOK, HandleKeepsLimit

-----------------------------------------------------------------------------
(* Every action keeps the invariant *)

\* The steady clock advancing keeps IInv: no time stamp is bounded by now.
LEMMA TickInv == IInv /\ Tick => IInv'
<1> SUFFICES ASSUME IInv, Tick PROVE IInv'
  OBVIOUS
<1>1. TypeOK'
  BY DEF IInv, TypeOK, Tick
<1>2. (TokensHeld /\ TokensOwned /\ OneToken /\ Blank /\ CountBound)'
  BY TokensFrame DEF Tick, Granted, Slots
<1>3. HandlesOK'
  BY HandlesFrame DEF Tick
<1> QED
  BY <1>1, <1>2, <1>3 DEF IInv

\* create_limit_handle keeps IInv: the new id was never used, so its keys are
\* blank and nobody refers to it.
LEMMA CreateLimitInv ==
    ASSUME IInv, NEW rpp \in Rates, NEW period \in Periods,
           NEW sequential \in BOOLEAN, CreateLimit(rpp, period, sequential)
    PROVE  IInv'
<1> USE LimiterAssumption
<1> DEFINE n == m_next_id
<1>1. n \in Ids /\ n \notin m_limits /\ \A k \in Keys : keys[n][k] = NoKey
  BY DEF IInv, TypeOK, CreateLimit, Ids, HandlesOK, Blank
<1>2. TypeOK'
  BY <1>1, SMTT(30) DEF IInv, TypeOK, CreateLimit, Ids, LimitParams
<1>3. /\ NoKey.tokens = {} /\ NoKey.count = 0
      /\ \A i \in Ids : i # n => params'[i] = params[i]
      /\ params'[n].rpp \in Nat
  BY <1>1 DEF NoKey, CreateLimit, IInv, TypeOK
<1>4. \A r \in Requests : Granted(r) => \A i \in Ids, k \in Keys :
        <<i, k>> \in Slots(req[r]) => i # n
  BY <1>1 DEF IInv, HandlesOK, HandleKeepsLimit, Referenced, Handles, Granted,
              Slots, Ids, NoLimit
<1>5. \A r \in Requests : Granted(r) => \A i \in Ids, k \in Keys :
        <<i, k>> \in SequentialSlots(req[r])' <=> <<i, k>> \in SequentialSlots(req[r])
  BY <1>3, <1>4 DEF SequentialSlots, Slots, CreateLimit
<1>6. TokensHeld'
  BY <1>5 DEF IInv, TokensHeld, CreateLimit, Granted
<1>7. TokensOwned'
  BY <1>5, Zenon DEF IInv, TokensOwned, CreateLimit, Granted
<1>8. OneToken' /\ Blank'
  <2>1. OneToken'
    BY DEF IInv, OneToken, CreateLimit
  <2>2. \A i \in Ids : i >= m_next_id' => i >= m_next_id
    BY DEF IInv, TypeOK, CreateLimit, Ids
  <2>3. Blank'
    BY <2>2 DEF IInv, Blank, CreateLimit
  <2> QED
    BY <2>1, <2>3
<1>9. CountBound'
  BY <1>1, <1>3 DEF IInv, CountBound, CreateLimit
<1>10. HandlesOK'
  <2>1. Referenced(m_owned_handles, user, req)'
          = Referenced(m_owned_handles, user, req) \cup {n}
    BY DEF CreateLimit, Referenced
  <2>2. \A i \in m_limits' : i < m_next_id'
    BY <1>1 DEF CreateLimit, IInv, HandlesOK, TypeOK, Ids
  <2>3. n \notin removed /\ n \notin dying /\ removed' = removed /\ dying' = dying
    BY <1>1 DEF CreateLimit, IInv, HandlesOK, TypeOK
  <2>4. m_limits' = m_limits \cup {n}
    BY DEF CreateLimit
  <2> HIDE DEF n
  <2>5. HandleKeepsLimit'
    BY <2>1, <2>3, <2>4 DEF IInv, HandlesOK, HandleKeepsLimit
  <2>6. dying' \subseteq m_limits' \ removed'
    BY <2>3, <2>4 DEF IInv, HandlesOK
  <2>7. dying' \cap Referenced(m_owned_handles, user, req)' = {}
    BY <2>1, <2>3 DEF IInv, HandlesOK
  <2> QED
    BY <2>2, <2>5, <2>6, <2>7 DEF HandlesOK
<1> QED
  BY <1>2, <1>6, <1>7, <1>8, <1>9, <1>10 DEF IInv

\* get_limit keeps IInv: it copies a handle that is alive.
LEMMA GetLimitInv ==
    ASSUME IInv, NEW i \in Ids, GetLimit(i)
    PROVE  IInv'
<1>1. TypeOK'
  BY DEF IInv, TypeOK, GetLimit
<1>2. (TokensHeld /\ TokensOwned /\ OneToken /\ Blank /\ CountBound)'
  BY TokensFrame DEF GetLimit, Granted, Slots
<1>3. HandlesOK'
  <2>1. Referenced(m_owned_handles, user, req)'
          = Referenced(m_owned_handles, user, req)
    BY DEF GetLimit, Referenced
  <2> QED
    BY <2>1 DEF GetLimit, IInv, HandlesOK, HandleKeepsLimit
<1> QED
  BY <1>1, <1>2, <1>3 DEF IInv

\* remove_limit keeps IInv: the handle it gives up, if the last, is dying.
LEMMA RemoveLimitInv ==
    ASSUME IInv, NEW i \in Ids, RemoveLimit(i)
    PROVE  IInv'
<1>1. TypeOK'
  <2>1. Referenced(m_owned_handles, user, req) \subseteq Ids
    BY DEF IInv, HandlesOK, HandleKeepsLimit, TypeOK
  <2> QED
    BY <2>1 DEF IInv, TypeOK, RemoveLimit, DropRefs
<1>2. (TokensHeld /\ TokensOwned /\ OneToken /\ Blank /\ CountBound)'
  BY TokensFrame DEF RemoveLimit, DropRefs, Granted, Slots
<1>3. HandlesOK'
  BY DropFrame DEF RemoveLimit, Referenced
<1> QED
  BY <1>1, <1>2, <1>3 DEF IInv

\* A destroyed copy of a handle keeps IInv.
LEMMA DropHandleInv ==
    ASSUME IInv, NEW i \in Ids, DropHandle(i)
    PROVE  IInv'
<1>1. TypeOK'
  <2>1. Referenced(m_owned_handles, user, req) \subseteq Ids
    BY DEF IInv, HandlesOK, HandleKeepsLimit, TypeOK
  <2> QED
    BY <2>1 DEF IInv, TypeOK, DropHandle, DropRefs
<1>2. (TokensHeld /\ TokensOwned /\ OneToken /\ Blank /\ CountBound)'
  BY TokensFrame DEF DropHandle, DropRefs, Granted, Slots
<1>3. HandlesOK'
  BY DropFrame DEF DropHandle, Referenced
<1> QED
  BY <1>1, <1>2, <1>3 DEF IInv

\* remove_limit_internal keeps IInv: a dying limit has no handle, so no request
\* holds a token of it.
LEMMA RemoveLimitInternalInv ==
    ASSUME IInv, NEW i \in Ids, RemoveLimitInternal(i)
    PROVE  IInv'
<1>1. i \in m_limits /\ i \notin removed
      /\ i \notin Referenced(m_owned_handles, user, req)
  BY DEF RemoveLimitInternal, IInv, HandlesOK
<1>2. m_limits' \ removed' = (m_limits \ removed) \ {i} /\ m_limits' \subseteq m_limits
  BY <1>1 DEF RemoveLimitInternal
<1>3. TypeOK'
  BY <1>1 DEF IInv, TypeOK, RemoveLimitInternal
<1>4. (TokensHeld /\ TokensOwned /\ OneToken /\ Blank /\ CountBound)'
  BY TokensFrame DEF RemoveLimitInternal, Granted, Slots
<1>5. HandlesOK'
  <2>1. Referenced(m_owned_handles, user, req)'
          = Referenced(m_owned_handles, user, req)
    BY DEF RemoveLimitInternal, Referenced
  <2>2. dying' = dying \ {i} /\ m_next_id' = m_next_id
    BY DEF RemoveLimitInternal
  <2> QED
    BY <1>1, <1>2, <2>1, <2>2 DEF IInv, HandlesOK, HandleKeepsLimit
<1> QED
  BY <1>3, <1>4, <1>5 DEF IInv

\* A new request keeps IInv: it copies handles its caller holds.
LEMMA SubmitInv ==
    ASSUME IInv, NEW r \in Requests,
           NEW g \in Ids \cup {NoLimit}, NEW s \in Ids \cup {NoLimit},
           NEW gk \in Keys, NEW sk \in Keys, Submit(r, g, s, gk, sk)
    PROVE  IInv'
<1>1. TypeOK'
  BY DEF IInv, TypeOK, Submit, RequestStates, Phases
<1>2. \A q \in Requests : q # r => req'[q] = req[q]
  BY DEF IInv, TypeOK, Submit
<1>3. req'[r].phase = "waiting" /\ req'[r].general = g /\ req'[r].specific = s
  BY DEF IInv, TypeOK, Submit
<1>4. (TokensHeld /\ TokensOwned /\ OneToken /\ Blank /\ CountBound)'
  <2>1. \A q \in Requests : Granted(q)' <=> Granted(q)
    BY <1>2, <1>3 DEF Granted, Submit
  <2>2. \A q \in Requests : Granted(q) => Slots(req[q])' = Slots(req[q])
    BY <1>2 DEF Granted, Submit, Slots
  <2> QED
    BY <2>1, <2>2, TokensFrame DEF Submit
<1>5. HandlesOK'
  <2>1. \A q \in Requests : Handles(req'[q]) \subseteq Handles(req[q]) \cup user
    BY <1>2, <1>3 DEF Handles, Submit
  <2> QED
    BY <2>1, HandlesFrame DEF Submit
<1> QED
  BY <1>1, <1>4, <1>5 DEF IInv

\* A failed attempt keeps IInv: the token stays with the request.
LEMMA BackOffInv ==
    ASSUME IInv, NEW r \in Requests, BackOff(r)
    PROVE  IInv'
<1>1. TypeOK'
  <2>1. req' \in [Requests -> RequestStates]
    <3>1. "backoff" \in Phases /\ 0 \in Nat
      BY DEF Phases
    <3> QED
      BY <3>1, PhaseStep, Zenon DEF IInv, TypeOK, BackOff
  <2> QED
    BY <2>1 DEF IInv, TypeOK, BackOff
<1>2. \A q \in Requests : /\ req'[q].general = req[q].general
                          /\ req'[q].specific = req[q].specific
                          /\ req'[q].gkey = req[q].gkey
                          /\ req'[q].skey = req[q].skey
                          /\ q # r => req'[q] = req[q]
  BY DEF IInv, TypeOK, BackOff, RequestStates
<1>3. req'[r].phase = "backoff"
  BY DEF IInv, TypeOK, BackOff, RequestStates
<1>4. (TokensHeld /\ TokensOwned /\ OneToken /\ Blank /\ CountBound)'
  <2>1. \A q \in Requests : Granted(q)' <=> Granted(q)
    BY <1>2, <1>3 DEF Granted, BackOff
  <2>2. \A q \in Requests : Slots(req[q])' = Slots(req[q])
    BY <1>2 DEF Slots
  <2> QED
    BY <2>1, <2>2, TokensFrame DEF BackOff
<1>5. HandlesOK'
  <2>1. \A q \in Requests : Handles(req'[q]) \subseteq Handles(req[q]) \cup user
    BY <1>2, <1>3 DEF Handles, BackOff
  <2> QED
    BY <2>1, HandlesFrame DEF BackOff
<1> QED
  BY <1>1, <1>4, <1>5 DEF IInv

\* A request that never passed the limiter leaves without a token.
LEMMA CompleteUnstartedInv ==
    ASSUME IInv, NEW r \in Requests, CompleteUnstarted(r)
    PROVE  IInv'
<1>1. TypeOK'
  <2>1. req' \in [Requests -> RequestStates]
    <3>1. "finished" \in Phases /\ 0 \in Nat
      BY DEF Phases
    <3> QED
      BY <3>1, PhaseStep, Zenon DEF IInv, TypeOK, CompleteUnstarted
  <2> QED
    BY <2>1 DEF IInv, TypeOK, CompleteUnstarted
<1>2. \A q \in Requests : /\ req'[q].general = req[q].general
                          /\ req'[q].specific = req[q].specific
                          /\ req'[q].gkey = req[q].gkey
                          /\ req'[q].skey = req[q].skey
                          /\ q # r => req'[q] = req[q]
  BY DEF IInv, TypeOK, CompleteUnstarted, RequestStates
<1>3. req'[r].phase = "finished"
  BY DEF IInv, TypeOK, CompleteUnstarted, RequestStates
<1>4. (TokensHeld /\ TokensOwned /\ OneToken /\ Blank /\ CountBound)'
  <2>1. \A q \in Requests : Granted(q)' <=> Granted(q)
    BY <1>2, <1>3 DEF Granted, CompleteUnstarted
  <2>2. \A q \in Requests : Slots(req[q])' = Slots(req[q])
    BY <1>2 DEF Slots
  <2> QED
    BY <2>1, <2>2, TokensFrame DEF CompleteUnstarted
<1>5. HandlesOK'
  <2>1. \A q \in Requests : Handles(req'[q]) \subseteq Handles(req[q]) \cup user
    BY <1>2, <1>3 DEF Handles, CompleteUnstarted
  <2> QED
    BY <2>1, HandlesFrame DEF CompleteUnstarted
<1> QED
  BY <1>1, <1>4, <1>5 DEF IInv

\* Destroying a finished request keeps IInv: it has released its tokens.
LEMMA DestroyRequestInv ==
    ASSUME IInv, NEW r \in Requests, DestroyRequest(r)
    PROVE  IInv'
<1> DEFINE rs == [req EXCEPT ![r].phase = "gone"]
<1>1. TypeOK'
  <2>1. Referenced(m_owned_handles, user, req) \subseteq Ids
    BY DEF IInv, HandlesOK, HandleKeepsLimit, TypeOK
  <2>2. rs \in [Requests -> RequestStates]
    <3>1. "gone" \in Phases /\ 0 \in Nat
      BY DEF Phases
    <3> QED
      BY <3>1, PhaseStep, Zenon DEF IInv, TypeOK
  <2> QED
    BY <2>1, <2>2 DEF IInv, TypeOK, DestroyRequest, DropRefs
<1>2. \A q \in Requests : /\ rs[q].general = req[q].general
                          /\ rs[q].specific = req[q].specific
                          /\ rs[q].gkey = req[q].gkey
                          /\ rs[q].skey = req[q].skey
                          /\ q # r => rs[q] = req[q]
  BY DEF IInv, TypeOK, RequestStates
<1>3. rs[r].phase = "gone" /\ req' = rs
  BY DEF IInv, TypeOK, DestroyRequest, DropRefs, RequestStates
<1> HIDE DEF rs
<1>4. (TokensHeld /\ TokensOwned /\ OneToken /\ Blank /\ CountBound)'
  <2>1. \A q \in Requests : Granted(q)' <=> Granted(q)
    BY <1>2, <1>3 DEF Granted, DestroyRequest
  <2>2. \A q \in Requests : Slots(req[q])' = Slots(req[q])
    BY <1>2, <1>3 DEF Slots
  <2> QED
    BY <2>1, <2>2, TokensFrame DEF DestroyRequest
<1>5. HandlesOK'
  <2>1. \A q \in Requests : Handles(rs[q]) \subseteq Handles(req[q])
    BY <1>2, <1>3 DEF Handles
  <2>2. Referenced(m_owned_handles, user, rs)
          \subseteq Referenced(m_owned_handles, user, req)
    BY <2>1 DEF Referenced
  <2> QED
    BY <2>2, DropFrame, Zenon DEF DestroyRequest, rs
<1> QED
  BY <1>1, <1>4, <1>5 DEF IInv

\* r enters the slot when it is granted: it is tracked and the slot is a
\* sequential one of its own.
Enters(r, i, k) == r \notin Untracked /\ <<i, k>> \in SequentialSlots(req[r])

\* A state of the key that keeps IInv once r has been granted: the shape and the
\* bounds hold, and r has entered the slot if it has to.
GoodKey(r, i, k, ks) ==
    /\ ks \in KeyStates(Requests)
    /\ ~ks.present => ks = NoKey
    /\ i >= m_next_id => ks = NoKey
    /\ params[i].rpp > 0 => ks.count <= params[i].rpp
    /\ \A t : t \in ks.tokens <=>
                t \in keys[i][k].tokens \/ (t = r /\ Enters(r, i, k))
    /\ \A t, u \in ks.tokens : t = u

\* The key states allow_request leaves behind, before a sweep, are good.
LEMMA CommittedKeys ==
    ASSUME IInv, NEW r \in Requests, CanStart(r),
           req[r].phase \in {"waiting", "backoff"},
           NEW i \in Ids, NEW k \in Keys,
           NEW ks, ks = Committed(r)[i][k]
    PROVE  GoodKey(r, i, k, ks)
<1>1. keys[i][k] \in KeyStates(Requests) /\ params[i] \in LimitParams /\ now \in Nat
  BY DEF IInv, TypeOK
<1>2. Token(r) \in Requests \/ Token(r) = NoToken
  BY DEF Token
<1>3. IF r \in Untracked THEN Token(r) = NoToken
      ELSE Token(r) = r /\ Token(r) # NoToken
  BY LimiterAssumption DEF Token
<1>4. /\ ~keys[i][k].present => keys[i][k] = NoKey
      /\ i >= m_next_id => keys[i][k] = NoKey
      /\ params[i].rpp > 0 => keys[i][k].count <= params[i].rpp
      /\ \A t, u \in keys[i][k].tokens : t = u
  BY DEF IInv, Blank, CountBound, OneToken
<1>5. NoKey.count = 0 /\ NoKey.tokens = {}
  BY DEF NoKey
<1>6. CASE <<i, k>> \in LiveSlots(req[r])
  <2>1. ks = CommitLimit(params[i], keys[i][k], Token(r), now)
    BY <1>6 DEF Committed
  <2>2. CanPass(params[i], keys[i][k], Token(r), now)
    BY <1>6 DEF CanStart
  <2>3. i \in m_limits /\ i # NoLimit /\ ~(i >= m_next_id)
    BY <1>6, LimiterAssumption
       DEF LiveSlots, Ids, NoLimit, IInv, TypeOK, HandlesOK
  <2>4. Entering(params[i], Token(r)) = {t \in {r} : Enters(t, i, k)}
    BY <1>3, <1>6, <2>3 DEF Enters, Entering, SequentialSlots, LiveSlots
  <2>5. /\ ks \in KeyStates(Requests) /\ ks.present = TRUE
        /\ ks.tokens = keys[i][k].tokens \cup Entering(params[i], Token(r))
    <3> DEFINE kc == CommitLimit(params[i], keys[i][k], Token(r), now)
    <3>1. kc \in KeyStates(Requests) /\ kc.present = TRUE
      BY <1>1, <1>2, CommitShape, Zenon
    <3>2. kc.tokens = keys[i][k].tokens \cup Entering(params[i], Token(r))
      BY <1>1, <1>2, CommitShape, Zenon
    <3> QED
      BY <2>1, <3>1, <3>2, Zenon
  <2>6. params[i].rpp > 0 => ks.count <= params[i].rpp
    BY <1>1, <1>4, <1>5, <2>1, <2>2, CommitCount, Zenon
  <2>7. \A t : t \in ks.tokens <=>
                 t \in keys[i][k].tokens \/ (t = r /\ Enters(r, i, k))
    BY <2>4, <2>5
  <2>8. Enters(r, i, k) => keys[i][k].tokens \subseteq {r}
    BY <1>3, <1>4, <1>5, <2>2, Zenon DEF CanPass, HeldByAnother, Enters, SequentialSlots
  <2>9. \A t, u \in ks.tokens : t = u
    BY <1>4, <2>7, <2>8, SMTT(30)
  <2> QED
    BY <2>3, <2>5, <2>6, <2>7, <2>9, Zenon DEF GoodKey
<1>7. CASE <<i, k>> \notin LiveSlots(req[r])
  <2>1. ks = keys[i][k]
    BY <1>7, Zenon DEF Committed
  <2>2. ~Enters(r, i, k)
    BY <1>7, SMTT(30) DEF IInv, HandlesOK, HandleKeepsLimit, Referenced, Handles,
                LiveSlots, SequentialSlots, Slots, Enters
  <2> QED
    BY <1>1, <1>4, <2>1, <2>2, Zenon DEF GoodKey
<1> QED
  BY <1>6, <1>7

\* allow_request keeps IInv, whether or not gc_stale_keys runs in the same call:
\* the sweep erases no key with a token and no limit with a handle.
LEMMA AllowRequestInv ==
    ASSUME IInv, NEW r \in Requests, AllowRequest(r)
    PROVE  IInv'
<1> USE LimiterAssumption
<1> DEFINE kc == Committed(r)
<1>0. CanStart(r) /\ req[r].phase \in {"waiting", "backoff"}
  BY DEF AllowRequest
<1>1. NoKey \in KeyStates(Requests) /\ NoKey.tokens = {} /\ NoKey.count = 0
  BY DEF NoKey, KeyStates
<1>2. \A i \in Ids, k \in Keys :
        keys'[i][k] = kc[i][k] \/ (keys'[i][k] = NoKey /\ kc[i][k].tokens = {})
  BY DEF AllowRequest, Swept, StaleKey
<1>3. \A i \in Ids, k \in Keys : GoodKey(r, i, k, keys'[i][k])
  <2> SUFFICES ASSUME NEW i \in Ids, NEW k \in Keys
               PROVE  GoodKey(r, i, k, keys'[i][k])
    OBVIOUS
  <2>1. GoodKey(r, i, k, kc[i][k])
    BY <1>0, CommittedKeys
  <2> HIDE DEF kc
  <2>2. CASE keys'[i][k] = kc[i][k]
    BY <2>1, <2>2
  <2>3. CASE keys'[i][k] = NoKey /\ kc[i][k].tokens = {}
    <3>1. params[i].rpp \in Nat
      BY DEF IInv, TypeOK, LimitParams
    <3>2. GoodKey(r, i, k, NoKey)
      BY <1>1, <2>1, <2>3, <3>1 DEF GoodKey
    <3> QED
      BY <2>3, <3>2
  <2> QED
    BY <1>2, <2>2, <2>3
<1>4. /\ \A q \in Requests : /\ req'[q].general = req[q].general
                             /\ req'[q].specific = req[q].specific
                             /\ req'[q].gkey = req[q].gkey
                             /\ req'[q].skey = req[q].skey
                             /\ q # r => req'[q] = req[q]
      /\ req'[r].phase = "inflight"
  BY DEF IInv, TypeOK, AllowRequest, RequestStates
<1>5. \A q \in Requests : SequentialSlots(req[q])' = SequentialSlots(req[q])
  BY <1>4, Zenon DEF SequentialSlots, Slots, AllowRequest
<1>6. Granted(r)' /\ \A q \in Requests : q # r => (Granted(q)' <=> Granted(q))
  BY <1>4 DEF Granted
<1>7. TypeOK'
  <2>1. keys' \in [Ids -> [Keys -> KeyStates(Requests)]]
    <3>1. keys' = [i \in Ids |-> [k \in Keys |-> keys'[i][k]]]
      BY DEF AllowRequest, Swept, Committed
    <3>2. \A i \in Ids : [k \in Keys |-> keys'[i][k]] \in [Keys -> KeyStates(Requests)]
      BY <1>3 DEF GoodKey
    <3> QED
      BY <3>1, <3>2
  <2>2. req' \in [Requests -> RequestStates]
    BY DEF IInv, TypeOK, AllowRequest, RequestStates, Phases
  <2>3. m_gc_counter' \in 0 .. (GcEvery - 1)
    BY DEF IInv, TypeOK, AllowRequest
  <2>4. m_limits' \subseteq Ids /\ removed' \subseteq m_limits'
    BY DEF IInv, TypeOK, AllowRequest
  <2> QED
    BY <2>1, <2>2, <2>3, <2>4 DEF IInv, TypeOK, AllowRequest
<1>8. TokensHeld'
  <2> SUFFICES ASSUME NEW q \in Requests \ Untracked, Granted(q)',
                      NEW i \in Ids, NEW k \in Keys,
                      <<i, k>> \in SequentialSlots(req[q])'
               PROVE  q \in keys'[i][k].tokens
    BY DEF TokensHeld
  <2>1. <<i, k>> \in SequentialSlots(req[q])
    BY <1>5
  <2>2. CASE q = r
    BY <2>1, <2>2, <1>3, Zenon DEF Enters, GoodKey
  <2>3. CASE q # r
    <3>1. q \in keys[i][k].tokens
      BY <2>1, <2>3, <1>6 DEF IInv, TokensHeld
    <3> QED
      BY <3>1, <1>3, Zenon DEF GoodKey
  <2> QED
    BY <2>2, <2>3
<1>9. TokensOwned'
  <2> SUFFICES ASSUME NEW i \in Ids, NEW k \in Keys, NEW t \in keys'[i][k].tokens
               PROVE  /\ t \in Requests \ Untracked
                      /\ Granted(t)'
                      /\ <<i, k>> \in SequentialSlots(req[t])'
    BY Zenon DEF TokensOwned
  <2>1. CASE t \in keys[i][k].tokens
    BY <2>1, <1>5, <1>6 DEF IInv, TokensOwned
  <2>2. CASE t = r /\ Enters(r, i, k)
    BY <2>2, <1>5, <1>6 DEF Enters
  <2>3. t \in keys[i][k].tokens \/ (t = r /\ Enters(r, i, k))
    BY <1>3, Zenon DEF GoodKey
  <2> QED
    BY <2>1, <2>2, <2>3
<1>10. (OneToken /\ Blank /\ CountBound)'
  BY <1>3 DEF GoodKey, OneToken, Blank, CountBound, AllowRequest
<1>11. HandlesOK'
  <2>1. Referenced(m_owned_handles, user, req)'
          = Referenced(m_owned_handles, user, req)
    <3>1. \A q \in Requests : Handles(req'[q]) = Handles(req[q])
      BY <1>0, <1>4, Zenon DEF Handles
    <3> QED
      BY <3>1, Zenon DEF Referenced, AllowRequest
  <2>2. m_limits' \ removed' = m_limits \ removed /\ m_limits' \subseteq m_limits
    BY DEF AllowRequest, Empty
  <2>3. dying' = dying /\ m_next_id' = m_next_id
    BY DEF AllowRequest
  <2> QED
    BY <2>1, <2>2, <2>3 DEF IInv, HandlesOK, HandleKeepsLimit
<1> QED
  BY <1>7, <1>8, <1>9, <1>10, <1>11 DEF IInv

\* release_request keeps IInv: it takes exactly the tokens of the request out of
\* exactly the slots it entered.
LEMMA ReleaseRequestInv ==
    ASSUME IInv, NEW r \in Requests, ReleaseRequest(r)
    PROVE  IInv'
<1> USE LimiterAssumption
<1>1. \A i \in Ids, k \in Keys :
        /\ keys[i][k] \in KeyStates(Requests)
        /\ ~keys[i][k].present => keys[i][k] = NoKey
  BY DEF IInv, TypeOK, Blank
<1>2. \A i \in Ids, k \in Keys :
        <<i, k>> \in SequentialSlots(req[r]) => i \in m_limits
  BY DEF IInv, HandlesOK, HandleKeepsLimit, Referenced, Handles,
         ReleaseRequest, SequentialSlots, Slots
<1>3. ASSUME NEW i \in Ids, NEW k \in Keys
      PROVE  /\ Enters(r, i, k) => keys'[i][k] = ReleaseKey(keys[i][k], r)
             /\ ~Enters(r, i, k) => keys'[i][k] = keys[i][k]
  BY <1>2 DEF ReleaseRequest, Token, Released, Enters
<1>4. ASSUME NEW i \in Ids, NEW k \in Keys
      PROVE  /\ keys'[i][k] \in KeyStates(Requests)
             /\ ~keys'[i][k].present => keys'[i][k] = NoKey
             /\ keys'[i][k].count = keys[i][k].count
             /\ keys'[i][k].tokens \subseteq keys[i][k].tokens
             /\ \A t \in keys[i][k].tokens : t # r => t \in keys'[i][k].tokens
             /\ r \notin keys'[i][k].tokens
             /\ keys[i][k] = NoKey => keys'[i][k] = NoKey
  <2>1. CASE Enters(r, i, k)
    <3>1. keys'[i][k] = ReleaseKey(keys[i][k], r)
      BY <1>3, <2>1, Zenon
    <3>2. keys[i][k] = NoKey => keys'[i][k] = NoKey
      BY <3>1 DEF ReleaseKey, NoKey
    <3>3. /\ keys[i][k] \in KeyStates(Requests)
          /\ ~keys[i][k].present => keys[i][k] = NoKey
      BY <1>1
    <3>4. LET ks == ReleaseKey(keys[i][k], r)
          IN  /\ ks \in KeyStates(Requests)
              /\ ks.tokens = keys[i][k].tokens \ {r}
              /\ ks.count = keys[i][k].count
              /\ ~ks.present => ks = NoKey
      BY <3>3, ReleaseShape, Zenon
    <3> QED
      BY <3>1, <3>2, <3>4, Zenon
  <2>2. CASE ~Enters(r, i, k)
    <3>1. keys'[i][k] = keys[i][k]
      BY <1>3, <2>2
    <3>2. r \notin keys[i][k].tokens
      BY <2>2 DEF Enters, IInv, TokensOwned
    <3> QED
      BY <1>1, <3>1, <3>2
  <2> QED
    BY <2>1, <2>2, Zenon
<1>5. /\ \A q \in Requests : /\ req'[q].general = req[q].general
                             /\ req'[q].specific = req[q].specific
                             /\ req'[q].gkey = req[q].gkey
                             /\ req'[q].skey = req[q].skey
                             /\ q # r => req'[q] = req[q]
      /\ req'[r].phase = "finished"
  BY DEF IInv, TypeOK, ReleaseRequest, RequestStates
<1>6. \A q \in Requests : SequentialSlots(req[q])' = SequentialSlots(req[q])
  BY <1>5 DEF SequentialSlots, Slots, ReleaseRequest
<1>7. ~Granted(r)' /\ \A q \in Requests : q # r => (Granted(q)' <=> Granted(q))
  BY <1>5 DEF Granted
<1>8. TypeOK'
  <2>1. keys' \in [Ids -> [Keys -> KeyStates(Requests)]]
    <3>1. CASE Token(r) = NoToken
      BY <3>1 DEF IInv, TypeOK, ReleaseRequest
    <3>2. CASE Token(r) # NoToken
      <4>1. keys' = [i \in Ids |-> [k \in Keys |-> keys'[i][k]]]
        BY <3>2 DEF ReleaseRequest, Released
      <4>2. \A i \in Ids : [k \in Keys |-> keys'[i][k]] \in [Keys -> KeyStates(Requests)]
        BY <1>4
      <4> QED
        BY <4>1, <4>2
    <3> QED
      BY <3>1, <3>2
  <2>2. req' \in [Requests -> RequestStates]
    <3>1. "finished" \in Phases /\ 0 \in Nat
      BY DEF Phases
    <3> QED
      BY <3>1, PhaseStep, Zenon DEF IInv, TypeOK, ReleaseRequest
  <2> QED
    BY <2>1, <2>2 DEF IInv, TypeOK, ReleaseRequest
<1>9. TokensHeld'
  <2> SUFFICES ASSUME NEW q \in Requests \ Untracked, Granted(q)',
                      NEW i \in Ids, NEW k \in Keys,
                      <<i, k>> \in SequentialSlots(req[q])'
               PROVE  q \in keys'[i][k].tokens
    BY DEF TokensHeld
  <2>1. q # r /\ Granted(q) /\ <<i, k>> \in SequentialSlots(req[q])
    BY <1>6, <1>7
  <2>2. q \in keys[i][k].tokens
    BY <2>1 DEF IInv, TokensHeld
  <2> QED
    BY <2>1, <2>2, <1>4, Zenon
<1>10. TokensOwned'
  <2> SUFFICES ASSUME NEW i \in Ids, NEW k \in Keys, NEW t \in keys'[i][k].tokens
               PROVE  /\ t \in Requests \ Untracked
                      /\ Granted(t)'
                      /\ <<i, k>> \in SequentialSlots(req[t])'
    BY Zenon DEF TokensOwned
  <2>1. t \in keys[i][k].tokens /\ t # r
    BY <1>4
  <2> QED
    BY <2>1, <1>6, <1>7 DEF IInv, TokensOwned
<1>11. (OneToken /\ Blank /\ CountBound)'
  BY <1>4 DEF IInv, OneToken, Blank, CountBound, ReleaseRequest
<1>12. HandlesOK'
  <2>1. \A q \in Requests : Handles(req'[q]) \subseteq Handles(req[q]) \cup user
    BY <1>5 DEF Handles, ReleaseRequest
  <2> QED
    BY <2>1, HandlesFrame DEF ReleaseRequest
<1> QED
  BY <1>8, <1>9, <1>10, <1>11, <1>12 DEF IInv

-----------------------------------------------------------------------------
(* Theorems *)

\* Every step of the limiter keeps IInv.
LEMMA NextInv == IInv /\ [Next]_vars => IInv'
<1> SUFFICES ASSUME IInv, [Next]_vars PROVE IInv'
  OBVIOUS
<1>1. CASE Tick
  BY <1>1, TickInv
<1>2. CASE \E rpp \in Rates, period \in Periods, sequential \in BOOLEAN :
             CreateLimit(rpp, period, sequential)
  BY <1>2, CreateLimitInv
<1>3. CASE \E i \in Ids : \/ GetLimit(i) \/ RemoveLimit(i)
                          \/ DropHandle(i) \/ RemoveLimitInternal(i)
  BY <1>3, GetLimitInv, RemoveLimitInv, DropHandleInv, RemoveLimitInternalInv
<1>4. CASE \E r \in Requests, g, s \in Ids \cup {NoLimit}, gk, sk \in Keys :
             Submit(r, g, s, gk, sk)
  BY <1>4, SubmitInv, ZenonT(30)
<1>5. CASE \E r \in Requests : \/ AllowRequest(r) \/ BackOff(r)
                               \/ ReleaseRequest(r) \/ CompleteUnstarted(r)
                               \/ DestroyRequest(r)
  BY <1>5, AllowRequestInv, BackOffInv, ReleaseRequestInv, CompleteUnstartedInv,
     DestroyRequestInv
<1>6. CASE UNCHANGED vars
  <2>1. TypeOK'
    BY <1>6 DEF vars, IInv, TypeOK
  <2>2. (TokensHeld /\ TokensOwned /\ OneToken /\ Blank /\ CountBound)'
    BY <1>6, TokensFrame DEF vars, Granted, Slots
  <2>3. HandlesOK'
    BY <1>6, HandlesFrame DEF vars
  <2> QED
    BY <2>1, <2>2, <2>3 DEF IInv
<1> QED
  BY <1>1, <1>2, <1>3, <1>4, <1>5, <1>6 DEF Next

\* IInv holds in every reachable state of the limiter, for any number of
\* requests, limits and keys, any rates and periods and any sweep interval.
THEOREM Invariance == Spec => []IInv
  BY InitInv, NextInv, PTL DEF Spec

\* Every reachable state has the shape TypeOK gives it.
THEOREM TypeCorrect == Spec => []TypeOK
<1>1. IInv => TypeOK
  BY DEF IInv
<1> QED
  BY Invariance, <1>1, PTL

\* create_limit_handle's promise: two granted requests never share a slot of a
\* sequential limit.
THEOREM Exclusion == Spec => []SequentialExclusion
<1>1. IInv => SequentialExclusion
  <2> SUFFICES ASSUME IInv, NEW r \in Requests \ Untracked,
                      NEW q \in Requests \ Untracked, r # q,
                      Granted(r), Granted(q),
                      NEW sl \in SequentialSlots(req[r]) \cap SequentialSlots(req[q])
               PROVE  FALSE
    BY DEF SequentialExclusion
  <2>1. PICK i \in Ids, k \in Keys : sl = <<i, k>>
    BY DEF SequentialSlots, Slots, IInv, TypeOK, RequestStates
  <2>2. r \in keys[i][k].tokens /\ q \in keys[i][k].tokens
    BY <2>1 DEF IInv, TokensHeld
  <2> QED
    BY <2>2 DEF IInv, OneToken
<1> QED
  BY Invariance, <1>1, PTL

\* release_request leaves no token behind: each belongs to a granted request.
THEOREM NoLeak == Spec => []NoLeakedToken
<1>1. IInv => NoLeakedToken
  BY Zenon DEF IInv, NoLeakedToken, TokensOwned, TypeOK
<1> QED
  BY Invariance, <1>1, PTL

\* A limit with a handle is in m_limits and active.
THEOREM HandleSafety == Spec => []HandleKeepsLimit
<1>1. IInv => HandleKeepsLimit
  BY DEF IInv, HandlesOK
<1> QED
  BY Invariance, <1>1, PTL

\* A removed limit that waits for a sweep holds no token.
THEOREM RemovedSafety == Spec => []RemovedIsIdle
<1>1. IInv => RemovedIsIdle
  <2> SUFFICES ASSUME IInv, NEW i \in removed, NEW k \in Keys,
                      NEW t \in keys[i][k].tokens
               PROVE  FALSE
    BY DEF RemovedIsIdle
  <2>1. i \in Ids
    BY DEF IInv, TypeOK
  <2>2. t \in Requests /\ Granted(t) /\ <<i, k>> \in SequentialSlots(req[t])
    BY <2>1 DEF IInv, TokensOwned
  <2>3. i \in Handles(req[t])
    BY <2>2 DEF SequentialSlots, Slots, Handles, Granted
  <2> QED
    BY <2>2, <2>3 DEF IInv, HandlesOK, HandleKeepsLimit, Referenced
<1> QED
  BY Invariance, <1>1, PTL

\* A counter never exceeds requests_per_period.
THEOREM CountSafety == Spec => []CountWithinRate
<1>1. IInv => CountWithinRate
  BY DEF IInv, CountWithinRate, CountBound, TypeOK
<1> QED
  BY Invariance, <1>1, PTL

-----------------------------------------------------------------------------
(* Delays, for callers that ask in milliseconds.                           *)

\* A set of naturals that is not empty has a smallest element.
LEMMA Smallest ==
    ASSUME NEW S, S \subseteq Nat, S # {}
    PROVE  \E m \in S : \A n \in S : m <= n
<1>1. PICK m \in S : \A n \in S : ~ (<<n, m>> \in OpToRel(<, Nat))
  BY WFMin, NatLessThanWellFounded, Zenon
<1>2. \A n \in S : ~(n < m)
  BY <1>1, Zenon DEF OpToRel
<1> QED
  BY <1>2

\* The delay of one key is a number of milliseconds.  It is 0 when the key lets
\* a newcomer pass; a finite one is exactly what is left of the window.
LEMMA KeyDelay ==
    ASSUME DurationUnit = 1, NEW lim \in LimitParams,
           NEW ks \in KeyStates(Requests), NEW t \in Nat,
           NEW d, d = TimeUntilKeyAllows(lim, ks, t, DurationUnit)
    PROVE  /\ d \in Nat
           /\ lim.sequential /\ ks.tokens # {} => d = MaxDuration
           /\ ~(lim.sequential /\ ks.tokens # {}) =>
                 \A u \in Nat : u >= t => (CheckKey(lim, ks, u) <=> u >= t + d)
<1> USE LimiterAssumption
<1> DEFINE e == t - ks.start
           p == lim.period
<1>1. e \in Int /\ p \in Nat /\ lim.rpp \in Nat /\ ks.count \in Nat
      /\ ks.start \in Nat
  BY DEF LimitParams, KeyStates
<1>2. \A x \in Int : DurationCast(x, DurationUnit) = x
  BY DEF DurationCast
<1>3. DurationCast(e, DurationUnit) = e /\ DurationCast(p, DurationUnit) = p
  <2> HIDE DEF e, p
  <2> QED
    BY <1>1, <1>2
<1>4. CASE lim.sequential /\ ks.tokens # {}
  <2>1. d = MaxDuration
    BY <1>4, Zenon DEF TimeUntilKeyAllows
  <2> QED
    BY <1>4, <2>1
<1>5. CASE ~(lim.sequential /\ ks.tokens # {})
  <2>1. d = IF lim.rpp = 0 \/ e >= p \/ ks.count < lim.rpp THEN 0 ELSE p - e
    BY <1>3, <1>5, Zenon DEF TimeUntilKeyAllows
  <2>2. d \in Nat
    <3> HIDE DEF e, p
    <3> QED
      BY <1>1, <2>1
  <2>3. ASSUME NEW u \in Nat, u >= t
        PROVE  CheckKey(lim, ks, u) <=> u >= t + d
    <3>1. CheckKey(lim, ks, u)
            <=> lim.rpp = 0 \/ u - ks.start >= p \/ ks.count < lim.rpp
      BY DEF CheckKey, PeriodElapsed
    <3> QED
      BY <1>1, <2>1, <2>3, <3>1
  <2> QED
    BY <1>5, <2>2, <2>3
<1> QED
  BY <1>4, <1>5, Zenon

\* The delay of a slot, as time_until_limit_allows_locked reports it.
SlotDelay(sl) ==
    TimeUntilLimitAllows(params[sl[1]], keys[sl[1]][sl[2]], now, DurationUnit)

\* The slots of a request that has not started are the ones the query looks at,
\* and none of their tokens is its own.
LEMMA FreshSlots ==
    ASSUME IInv, NEW r \in Requests, Fresh(r)
    PROVE  /\ {x \in Slots(req[r]) : x[1] \in m_limits} = LiveSlots(req[r])
           /\ \A sl \in LiveSlots(req[r]) :
                 /\ sl = <<sl[1], sl[2]>> /\ sl[1] \in m_limits /\ sl[2] \in Keys
                 /\ r \notin keys[sl[1]][sl[2]].tokens
           /\ Token(r) = r /\ r # NoToken
<1> USE LimiterAssumption
<1>1. req[r] \in RequestStates /\ m_limits \subseteq Ids /\ 0 \notin Ids
  BY DEF IInv, TypeOK, Ids
<1>2. Handles(req[r]) \subseteq m_limits \ removed
  BY Zenon DEF IInv, HandlesOK, HandleKeepsLimit, Referenced
<1>3. Handles(req[r]) = {req[r].general, req[r].specific} \ {NoLimit}
  BY DEF Fresh, Handles
<1>4. ASSUME NEW x \in Slots(req[r])
      PROVE  /\ x = <<x[1], x[2]>> /\ x[2] \in Keys
             /\ x[1] \in m_limits <=> x[1] \in m_limits \ removed
  BY <1>1, <1>2, <1>3 DEF Slots, RequestStates, NoLimit
<1>5. {x \in Slots(req[r]) : x[1] \in m_limits} = LiveSlots(req[r])
  BY <1>4 DEF LiveSlots
<1>6. \A i \in Ids, k \in Keys : r \notin keys[i][k].tokens
  BY Zenon DEF IInv, TokensOwned, Granted, Fresh
<1>7. \A sl \in LiveSlots(req[r]) :
         /\ sl = <<sl[1], sl[2]>> /\ sl[1] \in m_limits /\ sl[2] \in Keys
         /\ r \notin keys[sl[1]][sl[2]].tokens
  BY <1>1, <1>4, <1>6 DEF LiveSlots
<1>8. Token(r) = r /\ r # NoToken
  BY DEF Token, Fresh
<1> QED
  BY <1>5, <1>7, <1>8

\* What the delay of a live slot means to a request that has not started.
LEMMA SlotDelayMeaning ==
    ASSUME IInv, DurationUnit = 1, NEW r \in Requests, Fresh(r),
           NEW sl \in LiveSlots(req[r])
    PROVE  /\ SlotDelay(sl) \in Nat
           /\ SlotDelay(sl) < MaxDuration =>
                 \A u \in Nat : u >= now =>
                    (CanPass(params[sl[1]], keys[sl[1]][sl[2]], Token(r), u)
                       <=> u >= now + SlotDelay(sl))
           /\ SlotDelay(sl) # 0 =>
                 ~CanPass(params[sl[1]], keys[sl[1]][sl[2]], Token(r), now)
           /\ SlotDelay(sl) # 0 => SlotDelay(sl) \in PositiveDelays
<1> USE LimiterAssumption
<1> DEFINE lim == params[sl[1]]
           ks == keys[sl[1]][sl[2]]
           d == TimeUntilKeyAllows(lim, ks, now, DurationUnit)
           sd == SlotDelay(sl)
<1>1. /\ sl = <<sl[1], sl[2]>> /\ sl[1] \in m_limits /\ sl[2] \in Keys
      /\ r \notin ks.tokens /\ Token(r) = r /\ r # NoToken
  BY FreshSlots
<1>2. sl[1] \in Ids /\ now \in Nat
  BY <1>1 DEF IInv, TypeOK
<1>3. lim \in LimitParams /\ ks \in KeyStates(Requests)
  BY <1>1, <1>2 DEF IInv, TypeOK
<1>4. /\ d \in Nat
      /\ lim.sequential /\ ks.tokens # {} => d = MaxDuration
      /\ ~(lim.sequential /\ ks.tokens # {}) =>
            \A u \in Nat : u >= now => (CheckKey(lim, ks, u) <=> u >= now + d)
  <2> HIDE DEF lim, ks
  <2> QED
    BY <1>2, <1>3, KeyDelay
<1>5. sd = IF ks.present THEN d ELSE 0
  BY Zenon DEF SlotDelay, TimeUntilLimitAllows
<1>6. HeldByAnother(lim, ks, Token(r)) <=> lim.sequential /\ ks.tokens # {}
  BY <1>1, Zenon DEF HeldByAnother
<1>7. \A u : CanPass(lim, ks, Token(r), u)
               <=> ~ks.present \/ ( /\ ~(lim.sequential /\ ks.tokens # {})
                                    /\ CheckKey(lim, ks, u))
  BY <1>6, Zenon DEF CanPass
<1>8. ks.present /\ d # 0 => d \in PositiveDelays
  <2> SUFFICES ASSUME ks.present, d # 0 PROVE d \in PositiveDelays
    OBVIOUS
  <2>1. d > 0
    <3> HIDE DEF d
    <3> QED
      BY <1>4, SMTT(30)
  <2>2. sl \in {x \in m_limits \X Keys : keys[x[1]][x[2]].present}
    BY <1>1
  <2> QED
    BY <2>1, <2>2, Zenon DEF PositiveDelays
<1> HIDE DEF lim, ks, d, sd
<1>9. /\ sd \in Nat
      /\ sd < MaxDuration =>
            \A u \in Nat : u >= now =>
               (CanPass(lim, ks, Token(r), u) <=> u >= now + sd)
      /\ sd # 0 => ~CanPass(lim, ks, Token(r), now)
      /\ sd # 0 => sd \in PositiveDelays
  BY <1>2, <1>4, <1>5, <1>7, <1>8, SMTT(30)
<1> QED
  BY <1>9, Zenon DEF lim, ks, sd

\* time_until_next_allowed is the largest delay of the request's slots.
LEMMA NextAllowedIsMax ==
    ASSUME IInv, DurationUnit = 1, NEW r \in Requests, Fresh(r),
           NEW m, m = TimeUntilNextAllowed(req[r])
    PROVE  /\ m \in Nat
           /\ \A sl \in LiveSlots(req[r]) : SlotDelay(sl) <= m
           /\ m = 0 \/ \E sl \in LiveSlots(req[r]) : m = SlotDelay(sl)
<1> DEFINE L == LiveSlots(req[r])
           D == {0} \cup {SlotDelay(sl) : sl \in L}
           a == <<req[r].general, req[r].gkey>>
           b == <<req[r].specific, req[r].skey>>
<1>1. m = Max(D)
  BY FreshSlots, Zenon DEF TimeUntilNextAllowed, SlotDelay
<1>2. L \subseteq {a, b}
  BY DEF LiveSlots, Slots
<1>3. \A sl \in L : SlotDelay(sl) \in Nat
  BY SlotDelayMeaning, Zenon
<1>4. D \subseteq Nat
  BY <1>3
<1>5. \E x \in D : \A y \in D : x >= y
  <2> HIDE DEF a, b, L
  <2>1. CASE a \in L /\ b \in L
    <3> DEFINE u == SlotDelay(a)
               v == SlotDelay(b)
    <3>1. u \in Nat /\ v \in Nat
      BY <1>3, <2>1
    <3>2. D = {0, u, v}
      BY <1>2, <2>1, Zenon
    <3> HIDE DEF u, v, D
    <3> QED
      BY <3>1, <3>2
  <2>2. CASE a \in L /\ b \notin L
    <3> DEFINE u == SlotDelay(a)
    <3>1. u \in Nat
      BY <1>3, <2>2
    <3>2. D = {0, u}
      BY <1>2, <2>2, Zenon
    <3> HIDE DEF u, D
    <3> QED
      BY <3>1, <3>2
  <2>3. CASE a \notin L /\ b \in L
    <3> DEFINE v == SlotDelay(b)
    <3>1. v \in Nat
      BY <1>3, <2>3
    <3>2. D = {0, v}
      BY <1>2, <2>3, Zenon
    <3> HIDE DEF v, D
    <3> QED
      BY <3>1, <3>2
  <2>4. CASE a \notin L /\ b \notin L
    <3>1. D = {0}
      BY <1>2, <2>4, Zenon
    <3> HIDE DEF D
    <3> QED
      BY <3>1
  <2> QED
    BY <2>1, <2>2, <2>3, <2>4
<1>6. m \in D /\ \A y \in D : m >= y
  <2> HIDE DEF D
  <2> QED
    BY <1>1, <1>5, Zenon DEF Max
<1>7. \A sl \in L : SlotDelay(sl) \in D
  BY Zenon
<1>8. m = 0 \/ \E sl \in L : m = SlotDelay(sl)
  BY <1>6, Zenon
<1>9. m \in Nat /\ \A sl \in L : SlotDelay(sl) <= m
  <2> HIDE DEF D, L
  <2> QED
    BY <1>3, <1>4, <1>6, <1>7
<1> QED
  BY <1>8, <1>9

\* time_until_next_allowed tells a request that has not started 0 exactly when
\* allow_request would let it start, for callers that ask in milliseconds.
THEOREM DelayAgrees ==
    ASSUME DurationUnit = 1
    PROVE  Spec => []DelayAgreesWithAllow
<1>1. IInv => DelayAgreesWithAllow
  <2> SUFFICES ASSUME IInv, NEW r \in Requests, Fresh(r)
               PROVE  TimeUntilNextAllowed(req[r]) = 0 <=> CanStart(r)
    BY DEF DelayAgreesWithAllow
  <2> DEFINE m == TimeUntilNextAllowed(req[r])
  <2>1. /\ m \in Nat
        /\ \A sl \in LiveSlots(req[r]) : SlotDelay(sl) <= m
        /\ m = 0 \/ \E sl \in LiveSlots(req[r]) : m = SlotDelay(sl)
    BY NextAllowedIsMax
  <2>2. now \in Nat /\ MaxDuration > 0
    BY LimiterAssumption DEF IInv, TypeOK
  <2> HIDE DEF m
  <2>3. ASSUME m = 0 PROVE CanStart(r)
    <3> SUFFICES ASSUME NEW sl \in LiveSlots(req[r])
                 PROVE  CanPass(params[sl[1]], keys[sl[1]][sl[2]], Token(r), now)
      BY Zenon DEF CanStart
    <3>1. SlotDelay(sl) = 0
      BY <2>1, <2>3, SlotDelayMeaning, SMTT(30)
    <3> QED
      BY <2>2, <3>1, SlotDelayMeaning, SMTT(30)
  <2>4. ASSUME m # 0 PROVE ~CanStart(r)
    <3>1. PICK sl \in LiveSlots(req[r]) : m = SlotDelay(sl)
      BY <2>1, <2>4
    <3>2. ~CanPass(params[sl[1]], keys[sl[1]][sl[2]], Token(r), now)
      BY <2>4, <3>1, SlotDelayMeaning, Zenon
    <3> QED
      BY <3>2 DEF CanStart
  <2> QED
    BY <2>3, <2>4 DEF m
<1> QED
  BY Invariance, <1>1, PTL

\* A finite delay is exact: after that many milliseconds, and not one earlier,
\* the slots let the request pass if nobody else takes them.
THEOREM DelayExact ==
    ASSUME DurationUnit = 1
    PROVE  Spec => []DelayIsExact
<1>1. IInv => DelayIsExact
  <2> SUFFICES ASSUME IInv, NEW r \in Requests, Fresh(r),
                      NEW d, d = TimeUntilNextAllowed(req[r]),
                      0 < d, d < MaxDuration
               PROVE  /\ \A sl \in LiveSlots(req[r]) :
                            CanPass(params[sl[1]], keys[sl[1]][sl[2]], Token(r),
                                    now + d * DurationUnit)
                      /\ ~\A sl \in LiveSlots(req[r]) :
                            CanPass(params[sl[1]], keys[sl[1]][sl[2]], Token(r),
                                    now + d * DurationUnit - 1)
    BY Zenon DEF DelayIsExact
  <2>1. /\ d \in Nat
        /\ \A sl \in LiveSlots(req[r]) : SlotDelay(sl) <= d
        /\ d = 0 \/ \E sl \in LiveSlots(req[r]) : d = SlotDelay(sl)
    BY NextAllowedIsMax
  <2>2. now \in Nat /\ MaxDuration \in Nat
    BY LimiterAssumption DEF IInv, TypeOK
  <2> DEFINE late == now + d * DurationUnit
             soon == now + d * DurationUnit - 1
  <2>3. /\ late \in Nat /\ late = now + d
        /\ soon \in Nat /\ soon >= now /\ soon < now + d
    BY <2>1, <2>2
  <2> HIDE DEF late, soon
  <2>4. ASSUME NEW sl \in LiveSlots(req[r])
        PROVE  CanPass(params[sl[1]], keys[sl[1]][sl[2]], Token(r), late)
    <3>1. SlotDelay(sl) \in Nat /\ SlotDelay(sl) <= d
      BY <2>1, SlotDelayMeaning, Zenon
    <3>2. SlotDelay(sl) < MaxDuration /\ late >= now /\ late >= now + SlotDelay(sl)
      BY <2>1, <2>2, <2>3, <3>1
    <3> QED
      BY <2>3, <3>2, SlotDelayMeaning, Zenon
  <2>5. PICK sl \in LiveSlots(req[r]) : d = SlotDelay(sl)
    BY <2>1
  <2>6. ~CanPass(params[sl[1]], keys[sl[1]][sl[2]], Token(r), soon)
    <3>1. ~(soon >= now + SlotDelay(sl))
      BY <2>1, <2>2, <2>3, <2>5
    <3> QED
      BY <2>3, <2>5, <3>1, SlotDelayMeaning, Zenon
  <2> QED
    BY <2>4, <2>6, Zenon DEF late, soon
<1> QED
  BY Invariance, <1>1, PTL

\* time_until_any_limit_allows never oversleeps: a request that is delayed now
\* is delayed at least that long.
THEOREM AnyDelayBound ==
    ASSUME DurationUnit = 1
    PROVE  Spec => []AnyDelayIsLowerBound
<1>1. IInv => AnyDelayIsLowerBound
  <2> SUFFICES ASSUME IInv, NEW r \in Requests, Fresh(r),
                      NEW d, d = TimeUntilNextAllowed(req[r]), d > 0
               PROVE  0 < TimeUntilAnyLimitAllows /\ TimeUntilAnyLimitAllows <= d
    BY Zenon DEF AnyDelayIsLowerBound
  <2>1. d \in Nat /\ \E sl \in LiveSlots(req[r]) : d = SlotDelay(sl)
    BY NextAllowedIsMax
  <2>2. d \in PositiveDelays
    BY <2>1, SlotDelayMeaning, SMTT(30)
  <2>3. PositiveDelays \subseteq Nat /\ \A x \in PositiveDelays : x > 0
    <3>1. ASSUME NEW x \in PositiveDelays PROVE x \in Nat /\ x > 0
      <4>1. PICK sl \in m_limits \X Keys :
               x = TimeUntilKeyAllows(params[sl[1]], keys[sl[1]][sl[2]], now,
                                      DurationUnit)
        BY Zenon DEF PositiveDelays
      <4>2. /\ params[sl[1]] \in LimitParams
            /\ keys[sl[1]][sl[2]] \in KeyStates(Requests) /\ now \in Nat
        BY DEF IInv, TypeOK
      <4>3. x \in Nat
        BY <4>1, <4>2, KeyDelay, Zenon
      <4>4. x > 0
        BY Zenon DEF PositiveDelays
      <4> QED
        BY <4>3, <4>4
    <3> QED
      BY <3>1
  <2>4. \E x \in PositiveDelays : \A y \in PositiveDelays : x =< y
    BY <2>2, <2>3, Smallest, Zenon
  <2> DEFINE m == Min(PositiveDelays)
  <2>5. m \in PositiveDelays /\ \A y \in PositiveDelays : m =< y
    BY <2>4, Zenon DEF Min
  <2>6. TimeUntilAnyLimitAllows = m
    BY <2>2, Zenon DEF TimeUntilAnyLimitAllows
  <2> QED
    BY <2>2, <2>3, <2>5, <2>6, Zenon
<1> QED
  BY Invariance, <1>1, PTL
=============================================================================
