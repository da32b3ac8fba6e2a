------------------------------ MODULE LimitOps ------------------------------
(***************************************************************************)
(* The arithmetic of one rate limit, as HttpRateLimiter applies it to one  *)
(* partition key: may a request pass, what does it consume, what does it   *)
(* give back, when will the key allow again.                               *)
(*                                                                         *)
(* lim is the immutable part of a LimitData, ks the KeyState of one        *)
(* partition key.  Times are milliseconds of the steady clock; 0 is its    *)
(* epoch, the value a default constructed time_point has.                  *)
(***************************************************************************)
EXTENDS Integers

CONSTANTS
    NoToken,        \* in_flight_token = 0: the caller is not tracked
    MaxDuration     \* (Duration::max)()

LimitParams == [rpp : Nat, period : Nat, sequential : BOOLEAN]

KeyStates(Tokens) ==
    [present : BOOLEAN, count : Nat, start : Nat, tokens : SUBSET Tokens]

\* A key missing from LimitData::keys.  Its fields are the values the map
\* default-constructs when get_key_state touches the key.
NoKey == [present |-> FALSE, count |-> 0, start |-> 0, tokens |-> {}]

\* Mutant: the window ends one millisecond early.
PeriodElapsedEarly(lim, ks, now) == now - ks.start >= lim.period - 1

PeriodElapsed(lim, ks, now) == now - ks.start >= lim.period

\* Mutant: off by one at the limit.
CheckKeyOffByOne(lim, ks, now) ==
    \/ lim.rpp = 0
    \/ PeriodElapsed(lim, ks, now)
    \/ ks.count <= lim.rpp

CheckKey(lim, ks, now) ==
    \/ lim.rpp = 0
    \/ PeriodElapsed(lim, ks, now)
    \/ ks.count < lim.rpp

\* Mutant: holders are not looked at.
HeldByNobody(lim, ks, token) == FALSE

\* Another request holds the key of a sequential limit.
HeldByAnother(lim, ks, token) ==
    /\ lim.sequential
    /\ token # NoToken
    /\ ks.tokens # {}
    /\ token \notin ks.tokens

CanPass(lim, ks, token, now) ==
    \/ ~ks.present
    \/ /\ ~HeldByAnother(lim, ks, token)
       /\ CheckKey(lim, ks, now)

UpdateKey(lim, ks, now) ==
    CASE lim.rpp = 0 -> ks
      [] lim.rpp # 0 /\ PeriodElapsed(lim, ks, now) ->
            [ks EXCEPT !.start = now, !.count = 1]
      [] lim.rpp # 0 /\ ~PeriodElapsed(lim, ks, now) ->
            [ks EXCEPT !.count = @ + 1]

\* The token a granted caller leaves in a key.
Entering(lim, token) ==
    IF lim.sequential /\ token # NoToken THEN {token} ELSE {}

CommitLimit(lim, ks, token, now) ==
    UpdateKey(lim,
              [ks EXCEPT !.present = TRUE, !.tokens = @ \cup Entering(lim, token)],
              now)

ReleaseKey(ks, token) ==
    LET left == ks.tokens \ {token}
    IN  IF ~ks.present \/ (left = {} /\ ks.count = 0)
        THEN NoKey
        ELSE [ks EXCEPT !.tokens = left]

\* Mutant: idle keys are swept before their period ends.
StaleKeyIgnoringPeriod(lim, ks, now) ==
    ks.tokens = {}

\* What gc_stale_keys erases.
StaleKey(lim, ks, now) ==
    /\ ks.tokens = {}
    /\ ks.count = 0 \/ PeriodElapsed(lim, ks, now)

\* duration_cast to a Duration of unit milliseconds truncates.
DurationCast(ms, unit) == ms \div unit

\* Mutant: a sequential limit in use is not reported.
TimeUntilKeyIgnoringTokens(lim, ks, now, unit) ==
    IF lim.rpp = 0 \/ PeriodElapsed(lim, ks, now) \/ ks.count < lim.rpp
    THEN 0
    ELSE DurationCast(lim.period, unit) - DurationCast(now - ks.start, unit)

\* Mutant: the whole period is reported instead of what is left of it.
TimeUntilKeyWholePeriod(lim, ks, now, unit) ==
    CASE lim.sequential /\ ks.tokens # {} -> MaxDuration
      [] OTHER ->
            IF lim.rpp = 0 \/ PeriodElapsed(lim, ks, now) \/ ks.count < lim.rpp
            THEN 0
            ELSE DurationCast(lim.period, unit)

TimeUntilKeyAllows(lim, ks, now, unit) ==
    LET elapsed == DurationCast(now - ks.start, unit)
        period  == DurationCast(lim.period, unit)
    IN  CASE lim.sequential /\ ks.tokens # {} -> MaxDuration
          [] OTHER ->
                IF lim.rpp = 0 \/ elapsed >= period \/ ks.count < lim.rpp
                THEN 0
                ELSE period - elapsed

TimeUntilLimitAllows(lim, ks, now, unit) ==
    IF ks.present THEN TimeUntilKeyAllows(lim, ks, now, unit) ELSE 0
=============================================================================
