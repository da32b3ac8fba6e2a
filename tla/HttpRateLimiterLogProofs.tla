---------------------- MODULE HttpRateLimiterLogProofs ----------------------
(***************************************************************************)
(* What the counters of HttpRateLimiter say about the attempts it granted, *)
(* for every rate, period, sweep interval and clock.                       *)
(***************************************************************************)
EXTENDS HttpRateLimiterLog, HttpRateLimiterProofs, FiniteSetTheorems

-----------------------------------------------------------------------------
(* One key and its history.  g is the history, t the time.                 *)

\* The attempts more than rpp before the first one of a window that starts at s
\* are a period older than s.  The attempt at distance rpp is too, unless it was
\* granted less than a period after the clock's epoch.
Trails(lim, g, first, s) ==
    \A n \in 1 .. Len(g) :
        /\ n <= first - lim.rpp => g[n] + lim.period <= s \/ g[n] < lim.period
        /\ n < first - lim.rpp => g[n] + lim.period <= s

\* The window of a present key: its counter covers the newest attempts, those
\* since start.  A key first touched less than a period after the clock's epoch
\* has a window that starts at 0, before its first attempt.
Window(lim, ks, g) ==
    LET first == Len(g) - ks.count + 1
    IN  /\ ks.count \in 1 .. Len(g)
        /\ \A n \in 1 .. Len(g) :
             /\ g[n] >= ks.start <=> n >= first
             /\ g[n] < ks.start + lim.period
        /\ \/ ks.start = g[first]
           \/ ks.start = 0 /\ first = 1 /\ g[first] < lim.period
        /\ Trails(lim, g, first, ks.start)

\* A missing key: the next attempt may begin a window at any time from t on.
NoWindow(lim, g, t) ==
    /\ Len(g) > 0 => t >= lim.period
    /\ \A n \in 1 .. Len(g) : g[n] < t
    /\ Trails(lim, g, Len(g) + 1, t)

\* Times never go back, and no time lies ahead.
Ordered(g, t) ==
    /\ \A n \in 1 .. Len(g) : g[n] <= t
    /\ \A m, n \in 1 .. Len(g) : m <= n => g[m] <= g[n]

\* Two attempts at distance 2 * rpp are a period apart; at distance
\* 2 * rpp - 1 they are too, unless the clock was young.
Spread(lim, g) ==
    \A m, n \in 1 .. Len(g) :
        /\ n = m + 2 * lim.rpp - 1 =>
             g[m] + lim.period <= g[n] \/ g[m] < lim.period
        /\ n = m + 2 * lim.rpp => g[m] + lim.period <= g[n]

KeyHistory(lim, ks, g, t) ==
    /\ Ordered(g, t)
    /\ Spread(lim, g)
    /\ ks.present => Window(lim, ks, g)
    /\ ~ks.present => NoWindow(lim, g, t)

\* A limit with a rate and a period.
Counts(lim) == lim.rpp > 0 /\ lim.period > 0

\* The passing of time keeps the history of a key.
LEMMA HistoryLater ==
    ASSUME NEW lim \in LimitParams, NEW ks \in KeyStates(Requests),
           NEW g \in Seq(Nat), NEW t \in Nat, NEW u \in Nat, t <= u,
           KeyHistory(lim, ks, g, t)
    PROVE  KeyHistory(lim, ks, g, u)
<1> USE DEF LimitParams
<1>1. Ordered(g, u)
  BY DEF KeyHistory, Ordered
<1>2. ~ks.present => NoWindow(lim, g, u)
  <2>1. Trails(lim, g, Len(g) + 1, t) => Trails(lim, g, Len(g) + 1, u)
    BY SMTT(30) DEF Trails
  <2> QED
    BY <2>1 DEF KeyHistory, NoWindow
<1> QED
  BY <1>1, <1>2 DEF KeyHistory

\* When the period of a window is over its attempts trail any later window.
LEMMA WindowOver ==
    ASSUME NEW lim \in LimitParams, NEW ks \in KeyStates(Requests),
           NEW g \in Seq(Nat), NEW t \in Nat, ks.count <= lim.rpp,
           Ordered(g, t), Window(lim, ks, g), PeriodElapsed(lim, ks, t)
    PROVE  NoWindow(lim, g, t)
<1> DEFINE len == Len(g)
           rpp == lim.rpp
           period == lim.period
           count == ks.count
           start == ks.start
           first == len - count + 1
<1>1. /\ len \in Nat /\ rpp \in Nat /\ period \in Nat /\ count \in Nat /\ start \in Nat
      /\ \A n \in 1 .. len : g[n] \in Nat
  BY DEF LimitParams, KeyStates
<1>2. /\ count \in 1 .. len
      /\ start = g[first] \/ (start = 0 /\ first = 1 /\ g[first] < period)
      /\ \A n \in 1 .. len : g[n] < start + period
      /\ \A m, n \in 1 .. len : m <= n => g[m] <= g[n]
  BY DEF Window, Ordered
<1>3. t - start >= period
  BY DEF PeriodElapsed
<1>4. count <= rpp
  OBVIOUS
<1>5. (/\ len > 0 => t >= period
       /\ \A n \in 1 .. len : g[n] < t
       /\ \A n \in 1 .. len :
            /\ n <= len + 1 - rpp => g[n] + period <= t \/ g[n] < period
            /\ n < len + 1 - rpp => g[n] + period <= t)
      => NoWindow(lim, g, t)
  BY <1>1 DEF NoWindow, Trails
<1> HIDE DEF len, rpp, period, count, start
<1>6. first \in 1 .. len /\ start + period <= t
  BY <1>1, <1>2, <1>3
<1>7. \A n \in 1 .. len : n <= len + 1 - rpp => n <= first /\ g[n] <= g[first]
  BY <1>1, <1>2, <1>4, <1>6
<1>8. \A n \in 1 .. len :
        /\ n <= len + 1 - rpp => g[n] + period <= t \/ g[n] < period
        /\ n < len + 1 - rpp => g[n] + period <= t
  <2>1. CASE start = g[first]
    <3>1. g[first] \in Nat /\ g[first] + period <= t
      BY <1>1, <1>6, <2>1
    <3>2. ASSUME NEW n \in 1 .. len, n <= len + 1 - rpp
          PROVE  g[n] + period <= t
      <4>1. g[n] \in Nat /\ g[n] <= g[first]
        BY <1>1, <1>7, <3>2
      <4> QED
        BY <1>1, <3>1, <4>1, SMTT(30)
    <3>3. \A n \in 1 .. len : n < len + 1 - rpp => n <= len + 1 - rpp
      BY <1>1
    <3> QED
      BY <3>2, <3>3, Zenon
  <2>2. CASE start = 0 /\ first = 1 /\ g[first] < period
    BY <1>1, <1>4, <1>6, <1>7, <2>2
  <2> QED
    BY <1>2, <2>1, <2>2
<1>9. \A n \in 1 .. len : g[n] < t
  BY <1>1, <1>2, <1>6
<1> QED
  BY <1>1, <1>5, <1>6, <1>8, <1>9

\* gc_stale_keys keeps the history: the key it erases has been idle for a
\* period, so the next window may begin at any time from now on.
LEMMA HistorySwept ==
    ASSUME NEW lim \in LimitParams, NEW ks \in KeyStates(Requests),
           NEW g \in Seq(Nat), NEW t \in Nat, ks.count <= lim.rpp,
           KeyHistory(lim, ks, g, t), ~ks.present => ks = NoKey,
           StaleKey(lim, ks, t)
    PROVE  KeyHistory(lim, NoKey, g, t)
<1>1. CASE ~ks.present
  BY <1>1
<1>2. CASE ks.present
  <2>1. ks.count \in 1 .. Len(g)
    BY <1>2 DEF KeyHistory, Window
  <2>2. PeriodElapsed(lim, ks, t)
    BY <2>1 DEF StaleKey
  <2>3. NoWindow(lim, g, t)
    BY <1>2, <2>2, WindowOver DEF KeyHistory
  <2> QED
    BY <2>3 DEF KeyHistory, NoKey
<1> QED
  BY <1>1, <1>2

\* release_key keeps the history: it never erases a key that has counted.
LEMMA HistoryReleased ==
    ASSUME NEW lim \in LimitParams, NEW ks \in KeyStates(Requests),
           NEW g \in Seq(Nat), NEW t \in Nat, NEW tok,
           KeyHistory(lim, ks, g, t), ~ks.present => ks = NoKey
    PROVE  KeyHistory(lim, ReleaseKey(ks, tok), g, t)
<1>1. CASE ~ks.present
  BY <1>1 DEF ReleaseKey
<1>2. CASE ks.present
  <2>1. ks.count \in 1 .. Len(g)
    BY <1>2 DEF KeyHistory, Window
  <2>2. ks.count # 0
    BY <2>1
  <2>3. ReleaseKey(ks, tok) = [ks EXCEPT !.tokens = ks.tokens \ {tok}]
    BY <1>2, <2>2 DEF ReleaseKey
  <2>4. /\ ReleaseKey(ks, tok).present = ks.present
        /\ ReleaseKey(ks, tok).count = ks.count
        /\ ReleaseKey(ks, tok).start = ks.start
    BY <2>3 DEF KeyStates
  <2> QED
    BY <1>2, <2>4 DEF KeyHistory, Window
<1> QED
  BY <1>1, <1>2

\* An attempt granted in a window that holds the newest rpp attempts or fewer
\* keeps the attempts spread.
LEMMA SpreadGrows ==
    ASSUME NEW lim \in LimitParams, NEW g \in Seq(Nat), NEW t \in Nat,
           NEW first \in Nat, NEW s \in Nat, s <= t,
           first >= Len(g) + 2 - lim.rpp, lim.rpp > 0,
           Spread(lim, g), Trails(lim, Append(g, t), first, s)
    PROVE  Spread(lim, Append(g, t))
<1> DEFINE h == Append(g, t)
           len == Len(g)
           rpp == lim.rpp
           period == lim.period
<1>1. /\ rpp \in Nat \ {0} /\ period \in Nat /\ len \in Nat
      /\ h \in Seq(Nat) /\ Len(h) = len + 1 /\ h[len + 1] = t
      /\ \A n \in 1 .. len : h[n] = g[n] /\ h[n] \in Nat
  BY SMTT(30) DEF LimitParams
<1>2. \A m, n \in 1 .. len :
        /\ n = m + 2 * rpp - 1 => g[m] + period <= g[n] \/ g[m] < period
        /\ n = m + 2 * rpp => g[m] + period <= g[n]
  BY DEF Spread
<1>3. \A n \in 1 .. len + 1 :
        /\ n <= first - rpp => h[n] + period <= s \/ h[n] < period
        /\ n < first - rpp => h[n] + period <= s
  BY <1>1, Zenon DEF Trails
<1>4. (\A m, n \in 1 .. len + 1 :
         /\ n = m + 2 * rpp - 1 => h[m] + period <= h[n] \/ h[m] < period
         /\ n = m + 2 * rpp => h[m] + period <= h[n]) => Spread(lim, h)
  BY <1>1, Zenon DEF Spread
<1>5. first >= len + 2 - rpp
  OBVIOUS
<1> HIDE DEF h, len, rpp, period
<1>6. ASSUME NEW m \in 1 .. len + 1, NEW n \in 1 .. len + 1
      PROVE  /\ n = m + 2 * rpp - 1 => h[m] + period <= h[n] \/ h[m] < period
             /\ n = m + 2 * rpp => h[m] + period <= h[n]
  <2>1. CASE n \in 1 .. len
    <3>1. n = m + 2 * rpp - 1 \/ n = m + 2 * rpp => m \in 1 .. len
      BY <1>1, <2>1
    <3> QED
      BY <1>1, <1>2, <2>1, <3>1, Zenon
  <2>2. CASE n = len + 1
    <3>1. /\ n = m + 2 * rpp - 1 => m <= first - rpp /\ m \in 1 .. len
          /\ n = m + 2 * rpp => m < first - rpp /\ m \in 1 .. len
      BY <1>1, <1>5, <2>2
    <3>2. h[n] = t
      BY <1>1, <2>2
    <3>3. CASE n = m + 2 * rpp - 1
      <4>1. /\ h[m] \in Nat
            /\ h[m] + period <= s \/ h[m] < period
        BY <1>1, <1>3, <3>1, <3>3
      <4>2. n # m + 2 * rpp
        BY <1>1, <3>3
      <4>3. h[m] + period <= t \/ h[m] < period
        BY <1>1, <4>1
      <4> QED
        BY <3>2, <4>2, <4>3, Zenon
    <3>4. CASE n = m + 2 * rpp
      <4>1. h[m] \in Nat /\ h[m] + period <= s
        BY <1>1, <1>3, <3>1, <3>4
      <4>2. h[m] + period <= t
        BY <1>1, <4>1
      <4> QED
        BY <3>2, <4>2, Zenon
    <3> QED
      BY <3>3, <3>4, Zenon
  <2> QED
    BY <1>1, <2>1, <2>2
<1> QED
  BY <1>4, <1>6, Zenon DEF h
\* The counter update_key leaves in the key of a limit that counts.
NextCount(lim, ks, t) == IF PeriodElapsed(lim, ks, t) THEN 1 ELSE ks.count + 1

\* What commit_limit writes into the key of a limit that counts.
LEMMA CommitValues ==
    ASSUME NEW lim \in LimitParams, NEW ks \in KeyStates(Requests),
           NEW tok, NEW t \in Nat, lim.rpp # 0
    PROVE  /\ CommitLimit(lim, ks, tok, t).present = TRUE
           /\ CommitLimit(lim, ks, tok, t).start
                = IF PeriodElapsed(lim, ks, t) THEN t ELSE ks.start
           /\ CommitLimit(lim, ks, tok, t).count = NextCount(lim, ks, t)
<1> DEFINE ks1 == [ks EXCEPT !.present = TRUE,
                     !.tokens = @ \cup Entering(lim, tok)]
<1>1. /\ ks1.present = TRUE /\ ks1.count = ks.count /\ ks1.start = ks.start
      /\ DOMAIN ks1 = {"present", "count", "start", "tokens"}
  BY DEF KeyStates
<1>2. CommitLimit(lim, ks, tok, t) = UpdateKey(lim, ks1, t)
  BY DEF CommitLimit
<1> HIDE DEF ks1
<1>3. PeriodElapsed(lim, ks1, t) <=> PeriodElapsed(lim, ks, t)
  BY <1>1 DEF PeriodElapsed
<1>5. CASE PeriodElapsed(lim, ks, t)
  <2>1. UpdateKey(lim, ks1, t) = [ks1 EXCEPT !.start = t, !.count = 1]
    BY <1>3, <1>5 DEF UpdateKey
  <2> QED
    BY <1>1, <1>2, <1>5, <2>1 DEF NextCount
<1>6. CASE ~PeriodElapsed(lim, ks, t)
  <2>1. UpdateKey(lim, ks1, t) = [ks1 EXCEPT !.count = @ + 1]
    BY <1>3, <1>6 DEF UpdateKey
  <2> QED
    BY <1>1, <1>2, <1>6, <2>1 DEF NextCount
<1> QED
  BY <1>5, <1>6, Zenon

\* commit_limit after check_key keeps the history, with the attempt it grants:
\* the attempt begins a window or enters the one that is open.
LEMMA HistoryCommitted ==
    ASSUME NEW lim \in LimitParams, NEW ks \in KeyStates(Requests),
           NEW g \in Seq(Nat), NEW t \in Nat, NEW tok, Counts(lim),
           ks.count <= lim.rpp, KeyHistory(lim, ks, g, t),
           ~ks.present => ks = NoKey, CanPass(lim, ks, tok, t)
    PROVE  KeyHistory(lim, CommitLimit(lim, ks, tok, t), Append(g, t), t)
<1> DEFINE h == Append(g, t)
           kc == CommitLimit(lim, ks, tok, t)
           len == Len(g)
           size == Len(h)
           rpp == lim.rpp
           period == lim.period
           count == kc.count
           start == kc.start
           first == size - count + 1
<1>1. /\ rpp \in Nat \ {0} /\ period \in Nat \ {0} /\ len \in Nat
      /\ h \in Seq(Nat) /\ size = len + 1 /\ h[len + 1] = t
      /\ \A n \in 1 .. len : h[n] = g[n] /\ h[n] \in Nat
      /\ ks.count \in Nat /\ ks.start \in Nat
  BY DEF LimitParams, KeyStates, Counts
<1>2. /\ kc.present = TRUE
      /\ PeriodElapsed(lim, ks, t) => start = t /\ count = 1
      /\ ~PeriodElapsed(lim, ks, t) => start = ks.start /\ count = ks.count + 1
  <2>1. lim.rpp # 0
    BY <1>1
  <2>2. kc.present = TRUE
    BY <2>1, CommitValues, Zenon
  <2>3. start = IF PeriodElapsed(lim, ks, t) THEN t ELSE ks.start
    BY <2>1, CommitValues, ZenonT(30)
  <2>4. count = NextCount(lim, ks, t)
    BY <2>1, CommitValues, Zenon
  <2> QED
    BY <2>2, <2>3, <2>4 DEF NextCount
<1>3. /\ \A n \in 1 .. len : h[n] <= t
      /\ \A m, n \in 1 .. len : m <= n => h[m] <= h[n]
  BY <1>1 DEF KeyHistory, Ordered
<1>4. Ordered(h, t)
  <2>1. (/\ \A n \in 1 .. size : h[n] <= t
         /\ \A m, n \in 1 .. size : m <= n => h[m] <= h[n]) => Ordered(h, t)
    BY <1>1 DEF Ordered
  <2> HIDE DEF h, len, size
  <2>2. \A n \in 1 .. size : n \in 1 .. len \/ n = len + 1
    BY <1>1
  <2>3. \A n \in 1 .. size : h[n] <= t
    BY <1>1, <1>3, <2>2
  <2>4. \A m, n \in 1 .. size : m <= n => h[m] <= h[n]
    <3> SUFFICES ASSUME NEW m \in 1 .. size, NEW n \in 1 .. size, m <= n
                 PROVE  h[m] <= h[n]
      OBVIOUS
    <3>1. CASE n = len + 1
      BY <1>1, <2>3, <3>1
    <3>2. CASE n # len + 1
      <4>1. m \in 1 .. len /\ n \in 1 .. len
        BY <1>1, <3>2
      <4> QED
        BY <1>3, <4>1
    <3> QED
      BY <3>1, <3>2
  <2> QED
    BY <2>1, <2>3, <2>4
<1>5. (/\ count \in 1 .. size
       /\ \A n \in 1 .. size :
            /\ h[n] >= start <=> n >= first
            /\ h[n] < start + period
       /\ start = h[first] \/ (start = 0 /\ first = 1 /\ h[first] < period)
       /\ Trails(lim, h, first, start)) <=> Window(lim, kc, h)
  BY Zenon DEF Window
<1>6. (\A n \in 1 .. size :
         /\ n <= first - rpp => h[n] + period <= start \/ h[n] < period
         /\ n < first - rpp => h[n] + period <= start)
      => Trails(lim, h, first, start)
  BY <1>1, Zenon DEF Trails
<1>7. Window(lim, kc, h) /\ first \in Nat /\ start \in Nat /\ start <= t
      /\ first >= len + 2 - rpp
  <2>1. CASE PeriodElapsed(lim, ks, t)
    <3>1. NoWindow(lim, g, t)
      BY <2>1, WindowOver DEF KeyHistory
    <3>2. \A n \in 1 .. len :
            /\ h[n] < t
            /\ n <= len + 1 - rpp => h[n] + period <= t \/ h[n] < period
            /\ n < len + 1 - rpp => h[n] + period <= t
      BY <1>1, <3>1 DEF NoWindow, Trails
    <3>3. start = t /\ count = 1
      BY <1>2, <2>1
    <3> HIDE DEF h, kc, len, size, rpp, period, count, start
    <3>4. first = len + 1
      BY <1>1, <3>3
    <3> HIDE DEF first
    <3>5. /\ count \in 1 .. size
          /\ \A n \in 1 .. size :
               /\ h[n] >= start <=> n >= first
               /\ h[n] < start + period
          /\ start = h[first]
      <4>1. \A n \in 1 .. size : n \in 1 .. len \/ n = size
        BY <1>1
      <4>2. \A n \in 1 .. len : (h[n] >= start <=> n >= first) /\ h[n] < start + period
        BY <1>1, <3>2, <3>3, <3>4
      <4>3. (h[size] >= start <=> size >= first) /\ h[size] < start + period
        BY <1>1, <3>3, <3>4
      <4>4. count \in 1 .. size /\ start = h[first]
        BY <1>1, <3>3, <3>4
      <4> QED
        BY <4>1, <4>2, <4>3, <4>4
    <3>6. \A n \in 1 .. size :
            /\ n <= first - rpp => h[n] + period <= start \/ h[n] < period
            /\ n < first - rpp => h[n] + period <= start
      BY <1>1, <3>2, <3>3, <3>4
    <3>7. first \in Nat /\ start \in Nat /\ start <= t
          /\ first >= len + 2 - rpp
      BY <1>1, <3>3, <3>4
    <3> QED
      BY <1>5, <1>6, <3>5, <3>6, <3>7
  <2>2. CASE ~PeriodElapsed(lim, ks, t) /\ ks.present
    <3> DEFINE c == ks.count
               s == ks.start
               old == len - c + 1
    <3>1. /\ c \in 1 .. len
          /\ \A n \in 1 .. len :
               /\ h[n] >= s <=> n >= old
               /\ h[n] < s + period
          /\ s = g[old] \/ (s = 0 /\ old = 1 /\ g[old] < period)
          /\ \A n \in 1 .. len :
               /\ n <= old - rpp => h[n] + period <= s \/ h[n] < period
               /\ n < old - rpp => h[n] + period <= s
      BY <1>1, <2>2 DEF KeyHistory, Window, Trails
    <3>2. c < rpp /\ t - s < period
      BY <1>1, <2>2 DEF CanPass, CheckKey, PeriodElapsed
    <3>3. start = s /\ count = c + 1
      BY <1>2, <2>2
    <3>0. c \in Nat /\ s \in Nat
      BY <1>1
    <3> HIDE DEF c, s, h, kc, len, size, rpp, period, count, start
    <3>4. first = old /\ old \in 1 .. len /\ start <= t
      <4>1. first = old /\ old \in 1 .. len
        BY <1>1, <3>0, <3>1, <3>3
      <4> HIDE DEF old, first
      <4>2. h[old] >= s /\ h[old] <= t /\ h[old] = g[old]
        BY <1>1, <1>3, <3>0, <3>1, <4>1
      <4> QED
        BY <1>1, <3>0, <3>3, <4>1, <4>2
    <3> HIDE DEF first, old
    <3>5. /\ count \in 1 .. size
          /\ \A n \in 1 .. size :
               /\ h[n] >= start <=> n >= first
               /\ h[n] < start + period
          /\ start = h[first] \/ (start = 0 /\ first = 1 /\ h[first] < period)
      <4>1. \A n \in 1 .. size : n \in 1 .. len \/ n = size
        BY <1>1
      <4>2. \A n \in 1 .. len : (h[n] >= start <=> n >= first) /\ h[n] < start + period
        BY <3>1, <3>3, <3>4
      <4>5. (h[size] >= start <=> size >= first) /\ h[size] < start + period
        BY <1>1, <3>0, <3>2, <3>3, <3>4
      <4>3. start = h[first] \/ (start = 0 /\ first = 1 /\ h[first] < period)
        BY <1>1, <3>1, <3>3, <3>4
      <4>4. count \in 1 .. size
        BY <1>1, <3>1, <3>3
      <4> QED
        BY <4>1, <4>2, <4>3, <4>4, <4>5
    <3>6. \A n \in 1 .. size :
            /\ n <= first - rpp => h[n] + period <= start \/ h[n] < period
            /\ n < first - rpp => h[n] + period <= start
      BY <1>1, <3>0, <3>1, <3>3, <3>4, SMTT(30)
    <3>7. first \in Nat /\ start \in Nat
          /\ first >= len + 2 - rpp
      BY <1>1, <3>0, <3>2, <3>3, <3>4 DEF old
    <3> QED
      BY <1>5, <1>6, <3>4, <3>5, <3>6, <3>7
  <2>3. CASE ~PeriodElapsed(lim, ks, t) /\ ~ks.present
    <3>1. ks.count = 0 /\ ks.start = 0 /\ t - ks.start < period
      BY <1>1, <2>3 DEF NoKey, PeriodElapsed
    <3>2. len > 0 => t >= period
      BY <2>3 DEF KeyHistory, NoWindow
    <3>3. start = 0 /\ count = 1
      BY <1>2, <2>3, <3>1
    <3> HIDE DEF h, kc, len, size, rpp, period, count, start
    <3>4. len = 0 /\ first = 1
      BY <1>1, <3>1, <3>2, <3>3
    <3> HIDE DEF first
    <3>5. /\ count \in 1 .. size
          /\ \A n \in 1 .. size :
               /\ h[n] >= start <=> n >= first
               /\ h[n] < start + period
          /\ start = 0 /\ first = 1 /\ h[first] < period
      BY <1>1, <3>1, <3>3, <3>4
    <3>6. \A n \in 1 .. size :
            /\ n <= first - rpp => h[n] + period <= start \/ h[n] < period
            /\ n < first - rpp => h[n] + period <= start
      BY <1>1, <3>1, <3>3, <3>4
    <3>7. first \in Nat /\ start \in Nat /\ start <= t
          /\ first >= len + 2 - rpp
      BY <1>1, <3>1, <3>3, <3>4
    <3> QED
      BY <1>5, <1>6, <3>5, <3>6, <3>7
  <2> QED
    BY <2>1, <2>2, <2>3
<1>8. Trails(lim, h, first, start)
  BY <1>5, <1>7
<1>9. Spread(lim, h)
  BY <1>7, <1>8, SpreadGrows DEF Counts, KeyHistory
<1> QED
  BY <1>2, <1>4, <1>7, <1>9 DEF KeyHistory

\* A key without attempts has a history to begin with.
LEMMA HistoryEmpty ==
    ASSUME NEW lim \in LimitParams, NEW t \in Nat
    PROVE  KeyHistory(lim, NoKey, << >>, t)
<1>1. Len(<< >>) = 0 /\ \A n \in 1 .. 0 : FALSE
  OBVIOUS
<1>2. Ordered(<< >>, t) /\ Spread(lim, << >>) /\ NoWindow(lim, << >>, t)
  BY <1>1 DEF Ordered, Spread, NoWindow, Trails
<1> QED
  BY <1>2 DEF KeyHistory, NoKey

-----------------------------------------------------------------------------
(* The inductive invariant *)

\* Every key of a limit that counts has a history its state agrees with; an id
\* not yet used has none.
LogInv ==
    /\ log \in [Ids -> [Keys -> Seq(Nat)]]
    /\ \A i \in Ids, k \in Keys :
         /\ i >= m_next_id => log[i][k] = << >>
         /\ Counts(params[i]) =>
              KeyHistory(params[i], keys[i][k], log[i][k], now)

\* A step that leaves keys, limits and history alone keeps LogInv, whether or
\* not the clock advances.
LEMMA LogFrame ==
    ASSUME TypeOK, LogInv, UNCHANGED <<keys, params, m_next_id, log>>,
           now' \in Nat, now <= now'
    PROVE  LogInv'
<1>1. ASSUME NEW i \in Ids, NEW k \in Keys, Counts(params[i])
      PROVE  KeyHistory(params[i], keys[i][k], log[i][k], now')
  <2>1. /\ params[i] \in LimitParams /\ keys[i][k] \in KeyStates(Requests)
        /\ log[i][k] \in Seq(Nat) /\ now \in Nat
    BY DEF TypeOK, LogInv
  <2>2. KeyHistory(params[i], keys[i][k], log[i][k], now)
    BY <1>1, Zenon DEF LogInv
  <2> QED
    BY <2>1, <2>2, HistoryLater
<1> QED
  BY <1>1 DEF LogInv

\* allow_request keeps LogInv: it adds one attempt to the history of exactly the
\* keys it commits, and the sweep of the same call erases only idle keys.
LEMMA LogAllow ==
    ASSUME IInv, LogInv, NEW r \in Requests, AllowRequest(r),
           log' = [i \in Ids |-> [k \in Keys |->
                      IF <<i, k>> \in LiveSlots(req[r])
                      THEN Append(log[i][k], now)
                      ELSE log[i][k]]]
    PROVE  LogInv'
<1>1. CanStart(r) /\ req[r].phase \in {"waiting", "backoff"} /\ now \in Nat
      /\ UNCHANGED <<now, params, m_next_id>>
  BY DEF AllowRequest, IInv, TypeOK
<1>2. log' \in [Ids -> [Keys -> Seq(Nat)]]
  BY <1>1 DEF LogInv
<1>3. \A i \in Ids, k \in Keys : i >= m_next_id => log'[i][k] = << >>
  <2> SUFFICES ASSUME NEW i \in Ids, NEW k \in Keys, i >= m_next_id
               PROVE  log'[i][k] = << >>
    OBVIOUS
  <2>1. i \notin m_limits
    BY DEF IInv, HandlesOK, TypeOK, Ids
  <2>2. <<i, k>> \notin LiveSlots(req[r])
    BY <2>1 DEF LiveSlots
  <2> QED
    BY <2>2 DEF LogInv
<1>4. ASSUME NEW i \in Ids, NEW k \in Keys, Counts(params[i])
      PROVE  KeyHistory(params[i], keys'[i][k], log'[i][k], now)
  <2> DEFINE kc == Committed(r)[i][k]
  <2>1. /\ params[i] \in LimitParams /\ keys[i][k] \in KeyStates(Requests)
        /\ log[i][k] \in Seq(Nat) /\ log'[i][k] \in Seq(Nat)
    BY <1>2 DEF IInv, TypeOK, LogInv
  <2>2. /\ KeyHistory(params[i], keys[i][k], log[i][k], now)
        /\ ~keys[i][k].present => keys[i][k] = NoKey
        /\ keys[i][k].count <= params[i].rpp
    BY <1>4 DEF IInv, LogInv, Blank, CountBound, Counts
  <2>3. KeyHistory(params[i], kc, log'[i][k], now)
    <3>1. CASE <<i, k>> \in LiveSlots(req[r])
      <4>1. CanPass(params[i], keys[i][k], Token(r), now)
        BY <1>1, <3>1 DEF CanStart
      <4>2. kc = CommitLimit(params[i], keys[i][k], Token(r), now)
        BY <3>1 DEF Committed
      <4>3. log'[i][k] = Append(log[i][k], now)
        BY <3>1
      <4> HIDE DEF kc
      <4>4. KeyHistory(params[i],
                       CommitLimit(params[i], keys[i][k], Token(r), now),
                       Append(log[i][k], now), now)
        BY <1>1, <1>4, <2>1, <2>2, <4>1, HistoryCommitted, Zenon
      <4> QED
        BY <4>2, <4>3, <4>4
    <3>2. CASE <<i, k>> \notin LiveSlots(req[r])
      <4>1. kc = keys[i][k] /\ log'[i][k] = log[i][k]
        BY <3>2 DEF Committed
      <4> HIDE DEF kc
      <4> QED
        BY <2>2, <4>1
    <3> QED
      BY <3>1, <3>2
  <2>4. GoodKey(r, i, k, kc)
    BY <1>1, CommittedKeys
  <2>5. keys'[i][k] = kc \/ (keys'[i][k] = NoKey /\ StaleKey(params[i], kc, now))
    BY DEF AllowRequest, Swept
  <2> HIDE DEF kc
  <2>6. /\ kc \in KeyStates(Requests) /\ kc.count <= params[i].rpp
        /\ ~kc.present => kc = NoKey
    BY <1>4, <2>4 DEF GoodKey, Counts
  <2>7. CASE keys'[i][k] = kc
    BY <2>3, <2>7
  <2>8. CASE keys'[i][k] = NoKey /\ StaleKey(params[i], kc, now)
    <3>1. KeyHistory(params[i], NoKey, log'[i][k], now)
      BY <1>1, <2>1, <2>3, <2>6, <2>8, HistorySwept, Zenon
    <3> QED
      BY <2>8, <3>1
  <2> QED
    BY <2>5, <2>7, <2>8
<1> QED
  BY <1>1, <1>2, <1>3, <1>4 DEF LogInv
\* create_limit_handle keeps LogInv: the keys of a new limit have no history.
LEMMA LogCreate ==
    ASSUME IInv, LogInv, UNCHANGED log, NEW rpp \in Rates, NEW period \in Periods,
           NEW sequential \in BOOLEAN, CreateLimit(rpp, period, sequential)
    PROVE  LogInv'
<1> USE LimiterAssumption
<1>1. /\ m_next_id \in Ids /\ m_next_id' = m_next_id + 1 /\ keys' = keys /\ now' = now
      /\ now \in Nat
      /\ \A i \in Ids : i # m_next_id => params'[i] = params[i]
      /\ params'[m_next_id] \in LimitParams
  BY DEF CreateLimit, IInv, TypeOK, Ids, LimitParams
<1>2. \A i \in Ids, k \in Keys : i >= m_next_id' => log[i][k] = << >>
  BY <1>1 DEF LogInv, Ids
<1>3. ASSUME NEW i \in Ids, NEW k \in Keys, Counts(params'[i])
      PROVE  KeyHistory(params'[i], keys[i][k], log[i][k], now)
  <2>1. CASE i = m_next_id
    <3>0. i >= m_next_id
      BY <2>1 DEF Ids
    <3>1. keys[i][k] = NoKey /\ log[i][k] = << >>
      BY <3>0 DEF IInv, Blank, LogInv
    <3>2. KeyHistory(params'[i], NoKey, << >>, now)
      BY <1>1, <2>1, HistoryEmpty
    <3> QED
      BY <3>1, <3>2
  <2>2. CASE i # m_next_id
    BY <1>1, <1>3, <2>2 DEF LogInv
  <2> QED
    BY <2>1, <2>2
<1> QED
  BY <1>1, <1>2, <1>3 DEF LogInv

\* release_request keeps LogInv: it returns tokens and forgets no attempt.
LEMMA LogRelease ==
    ASSUME IInv, LogInv, UNCHANGED log, NEW r \in Requests, ReleaseRequest(r)
    PROVE  LogInv'
<1>1. /\ UNCHANGED <<now, params, m_next_id>> /\ now \in Nat
      /\ \A i \in Ids, k \in Keys :
           keys'[i][k] = keys[i][k] \/ keys'[i][k] = ReleaseKey(keys[i][k], Token(r))
  BY DEF ReleaseRequest, Released, IInv, TypeOK
<1>2. ASSUME NEW i \in Ids, NEW k \in Keys, Counts(params[i])
      PROVE  KeyHistory(params[i], keys'[i][k], log[i][k], now)
  <2>1. /\ params[i] \in LimitParams /\ keys[i][k] \in KeyStates(Requests)
        /\ log[i][k] \in Seq(Nat)
        /\ ~keys[i][k].present => keys[i][k] = NoKey
        /\ KeyHistory(params[i], keys[i][k], log[i][k], now)
    BY <1>2 DEF IInv, TypeOK, LogInv, Blank
  <2>2. KeyHistory(params[i], ReleaseKey(keys[i][k], Token(r)), log[i][k], now)
    BY <1>1, <2>1, HistoryReleased, Zenon
  <2>3. CASE keys'[i][k] = keys[i][k]
    BY <2>1, <2>3
  <2>4. CASE keys'[i][k] = ReleaseKey(keys[i][k], Token(r))
    BY <2>2, <2>4
  <2> QED
    BY <1>1, <2>3, <2>4
<1> QED
  BY <1>1, <1>2 DEF LogInv

\* Every step of the limiter keeps LogInv.
LEMMA LogStep ==
    ASSUME IInv, LogInv, [LogNext]_logVars
    PROVE  LogInv'
<1>0. TypeOK /\ now \in Nat
  BY DEF IInv, TypeOK
<1>1. CASE \E r \in Requests :
             /\ AllowRequest(r)
             /\ log' = [i \in Ids |-> [k \in Keys |->
                          IF <<i, k>> \in LiveSlots(req[r])
                          THEN Append(log[i][k], now)
                          ELSE log[i][k]]]
  BY <1>1, LogAllow
<1>2. CASE Next /\ (\A r \in Requests : req'[r].attempts <= req[r].attempts)
           /\ UNCHANGED log
  <2>1. CASE Tick
    BY <1>0, <1>2, <2>1, LogFrame DEF Tick
  <2>2. CASE \E rpp \in Rates, period \in Periods, sequential \in BOOLEAN :
               CreateLimit(rpp, period, sequential)
    BY <1>2, <2>2, LogCreate
  <2>3. CASE \E i \in Ids : \/ GetLimit(i) \/ RemoveLimit(i)
                            \/ DropHandle(i) \/ RemoveLimitInternal(i)
    <3>1. UNCHANGED <<keys, params, m_next_id, now>>
      BY <2>3 DEF GetLimit, RemoveLimit, DropHandle, RemoveLimitInternal
    <3> QED
      BY <1>0, <1>2, <3>1, LogFrame
  <2>4. CASE \E r \in Requests :
               \/ \E g, s \in Ids \cup {NoLimit}, gk, sk \in Keys :
                    Submit(r, g, s, gk, sk)
               \/ BackOff(r) \/ CompleteUnstarted(r) \/ DestroyRequest(r)
    <3>1. UNCHANGED <<keys, params, m_next_id, now>>
      BY <2>4 DEF Submit, BackOff, CompleteUnstarted, DestroyRequest
    <3> QED
      BY <1>0, <1>2, <3>1, LogFrame
  <2>5. CASE \E r \in Requests : ReleaseRequest(r)
    BY <1>2, <2>5, LogRelease
  <2>6. CASE \E r \in Requests : AllowRequest(r)
    <3>1. PICK r \in Requests : AllowRequest(r)
      BY <2>6
    <3>2. req'[r].attempts = req[r].attempts + 1 /\ req[r].attempts \in Nat
      BY <1>0, <3>1 DEF AllowRequest, TypeOK, RequestStates
    <3> QED
      BY <1>2, <3>2
  <2> QED
    BY <1>2, <2>1, <2>2, <2>3, <2>4, <2>5, <2>6, Zenon DEF Next
<1>3. CASE UNCHANGED logVars
  BY <1>0, <1>3, LogFrame DEF logVars, vars
<1> QED
  BY <1>1, <1>2, <1>3 DEF LogNext

-----------------------------------------------------------------------------
(* Counting a set of positions *)

\* A set of integers between a and a + c - 1 has at most c elements.
LEMMA FewInInterval ==
    ASSUME NEW a \in Nat, NEW c \in Nat, NEW S, S \subseteq a .. (a + c - 1)
    PROVE  Cardinality(S) \in Nat /\ Cardinality(S) <= c
<1> DEFINE b == a + c - 1
<1>1. b \in Int
  OBVIOUS
<1>2. IsFiniteSet(a .. b) /\ Cardinality(a .. b) = IF a > b THEN 0 ELSE b - a + 1
  <2> HIDE DEF b
  <2> QED
    BY <1>1, FS_Interval
<1>3. Cardinality(a .. b) <= c
  BY <1>2
<1>4. IsFiniteSet(S) /\ Cardinality(S) <= Cardinality(a .. b)
  BY <1>2, FS_Subset, Zenon
<1>5. Cardinality(S) \in Nat /\ Cardinality(a .. b) \in Nat
  BY <1>2, <1>4, FS_CardinalityType
<1> HIDE DEF b
<1> QED
  BY <1>3, <1>4, <1>5

\* How many attempts a period can see, when the attempts are spread.
LEMMA FewInPeriod ==
    ASSUME NEW lim \in LimitParams, Counts(lim), NEW g \in Seq(Nat), NEW t \in Nat,
           NEW u \in Nat, Ordered(g, u), Spread(lim, g)
    PROVE  Cardinality({n \in 1 .. Len(g) : g[n] \in t .. (t + lim.period - 1)})
             <= IF t < lim.period THEN 2 * lim.rpp ELSE 2 * lim.rpp - 1
<1> DEFINE len == Len(g)
           rpp == lim.rpp
           period == lim.period
           S == {n \in 1 .. len : g[n] \in t .. (t + period - 1)}
           bound == IF t < period THEN 2 * rpp ELSE 2 * rpp - 1
<1>1. /\ len \in Nat /\ rpp \in Nat \ {0} /\ period \in Nat \ {0}
      /\ \A n \in 1 .. len : g[n] \in Nat
  BY DEF LimitParams, Counts
<1>2. \A m, n \in 1 .. len :
        /\ m <= n => g[m] <= g[n]
        /\ n = m + 2 * rpp - 1 => g[m] + period <= g[n] \/ g[m] < period
        /\ n = m + 2 * rpp => g[m] + period <= g[n]
  BY DEF Ordered, Spread
<1> HIDE DEF len, rpp, period
<1>3. bound \in Nat
  BY <1>1
<1>4. CASE S = {}
  <2>1. Cardinality(S) = 0
    BY <1>4, FS_EmptySet, Zenon
  <2> HIDE DEF S, bound
  <2> QED
    BY <1>3, <2>1 DEF S, bound, len, rpp, period
<1>5. CASE S # {}
  <2>1. PICK m \in S : \A n \in S : m <= n
    <3>1. S \subseteq Nat
      BY <1>1
    <3> HIDE DEF S
    <3> QED
      BY <1>5, <3>1, Smallest, Zenon
  <2>2. m \in 1 .. len /\ t <= g[m] /\ g[m] \in Nat
    BY <1>1
  <2>3. ASSUME NEW n \in S
        PROVE  n \in m .. (m + bound - 1)
    <3>1. n \in 1 .. len /\ m <= n /\ g[n] \in Nat /\ g[n] < t + period
      BY <1>1, <2>1
    <3>2. n < m + 2 * rpp
      <4> SUFFICES ASSUME n >= m + 2 * rpp PROVE FALSE
        BY <1>1, <2>2, <3>1
      <4> DEFINE q == m + 2 * rpp
      <4>1. q \in 1 .. len /\ q <= n
        BY <1>1, <2>2, <3>1
      <4>2. g[m] + period <= g[q] /\ g[q] <= g[n] /\ g[q] \in Nat
        BY <1>1, <1>2, <2>2, <3>1, <4>1
      <4>3. g[m] \in Nat /\ t <= g[m]
        BY <2>2
      <4> DEFINE a == g[m]
                 b == g[q]
                 c == g[n]
      <4>4. /\ a \in Nat /\ b \in Nat /\ c \in Nat
            /\ t <= a /\ a + period <= b /\ b <= c /\ c < t + period
        BY <3>1, <4>2, <4>3
      <4> HIDE DEF a, b, c
      <4> QED
        BY <1>1, <4>4
    <3>3. CASE t < period
      BY <1>1, <2>2, <3>1, <3>2, <3>3
    <3>4. CASE ~(t < period)
      <4>1. n < m + 2 * rpp - 1
        <5> SUFFICES ASSUME n >= m + 2 * rpp - 1 PROVE FALSE
          BY <1>1, <2>2, <3>1
        <5> DEFINE q == m + 2 * rpp - 1
        <5>1. q \in 1 .. len /\ q <= n
          BY <1>1, <2>2, <3>1
        <5>2. /\ g[m] + period <= g[q] \/ g[m] < period
              /\ g[q] <= g[n] /\ g[q] \in Nat
          BY <1>1, <1>2, <2>2, <3>1, <5>1
        <5>3. g[m] \in Nat /\ t <= g[m]
          BY <2>2
        <5> DEFINE a == g[m]
                   b == g[q]
                   c == g[n]
        <5>4. /\ a \in Nat /\ b \in Nat /\ c \in Nat
              /\ t <= a /\ b <= c /\ c < t + period
              /\ a + period <= b \/ a < period
          BY <3>1, <5>2, <5>3
        <5> HIDE DEF a, b, c
        <5> QED
          BY <1>1, <3>4, <5>4
      <4> QED
        BY <1>1, <2>2, <3>1, <3>4, <4>1
    <3> QED
      BY <3>3, <3>4
  <2> HIDE DEF S, bound
  <2>4. S \subseteq m .. (m + bound - 1) /\ m \in Nat
    BY <2>2, <2>3
  <2>5. Cardinality(S) <= bound
    BY <1>3, <2>4, FewInInterval, Zenon
  <2> QED
    BY <2>5 DEF S, bound, len, rpp, period
<1> QED
  BY <1>4, <1>5

-----------------------------------------------------------------------------
(* Theorems *)

\* Both invariants hold in every reachable state of the limiter with a history.
LEMMA LogHolds == LogSpec => [](IInv /\ LogInv)
<1>1. LogInit => IInv /\ LogInv
  <2> SUFFICES ASSUME LogInit PROVE IInv /\ LogInv
    OBVIOUS
  <2>1. IInv
    BY InitInv DEF LogInit
  <2>2. \A i \in Ids : ~Counts(params[i])
    BY DEF LogInit, Init, Counts
  <2> QED
    BY <2>1, <2>2 DEF LogInv, LogInit
<1>2. [LogNext]_logVars => [Next]_vars
  BY DEF LogNext, logVars, Next
<1>3. IInv /\ LogInv /\ [LogNext]_logVars => (IInv /\ LogInv)'
  BY <1>2, NextInv, LogStep
<1> QED
  BY <1>1, <1>3, PTL DEF LogSpec

\* The counter of every key that counts is the number of attempts granted since
\* its window began, for every rate and period and through every sweep.
THEOREM CounterIsHistory == LogSpec => []CountIsHistory
<1>1. IInv /\ LogInv => CountIsHistory
  <2> SUFFICES ASSUME IInv, LogInv, NEW i \in m_limits, NEW k \in Keys,
                      params[i].rpp > 0, params[i].period > 0, keys[i][k].present
               PROVE  keys[i][k].count = GrantedIn(i, k, keys[i][k].start .. now)
    BY DEF CountIsHistory
  <2> DEFINE g == log[i][k]
             len == Len(g)
             count == keys[i][k].count
             start == keys[i][k].start
             first == len - count + 1
  <2>1. /\ i \in Ids /\ g \in Seq(Nat) /\ len \in Nat /\ DOMAIN g = 1 .. len
        /\ count \in Nat /\ start \in Nat /\ now \in Nat
    BY DEF IInv, TypeOK, LogInv, KeyStates
  <2>2. KeyHistory(params[i], keys[i][k], g, now)
    BY <2>1 DEF LogInv, Counts
  <2>3. /\ count \in 1 .. len
        /\ \A n \in 1 .. len : g[n] >= start <=> n >= first
        /\ \A n \in 1 .. len : g[n] <= now /\ g[n] \in Nat
    <3>1. Ordered(g, now) /\ Window(params[i], keys[i][k], g)
      BY <2>2 DEF KeyHistory
    <3>2. \A n \in 1 .. len : g[n] <= now /\ g[n] \in Nat
      BY <2>1, <3>1 DEF Ordered
    <3>3. count \in 1 .. len /\ \A n \in 1 .. len : g[n] >= start <=> n >= first
      BY <3>1, Zenon DEF Window
    <3> QED
      BY <3>2, <3>3
  <2>4. GrantedIn(i, k, start .. now) = Cardinality({n \in 1 .. len : g[n] \in start .. now})
    BY <2>1 DEF GrantedIn
  <2> HIDE DEF g, len, count, start
  <2>5. first \in Int /\ 1 <= first /\ first <= len
    BY <2>1, <2>3
  <2>6. {n \in 1 .. len : g[n] \in start .. now} = first .. len
    <3> HIDE DEF first
    <3> QED
      BY <2>1, <2>3, <2>5
  <2>7. Cardinality(first .. len) = len - first + 1
    <3> HIDE DEF first
    <3>1. Cardinality(first .. len) = IF first > len THEN 0 ELSE len - first + 1
      BY <2>1, <2>5, FS_Interval
    <3> QED
      BY <2>1, <2>5, <3>1
  <2>8. len - first + 1 = count
    BY <2>1
  <2> QED
    BY <2>4, <2>6, <2>7, <2>8, Zenon DEF count, start
<1> QED
  BY LogHolds, <1>1, PTL

\* Any period_ms consecutive milliseconds see at most 2 * requests_per_period - 1
\* attempts on a key, 2 * requests_per_period in the first period of the clock,
\* whatever resets, sweeps, releases and retries lie between.
THEOREM WindowBound == LogSpec => []SlidingWindowBound
<1>1. IInv /\ LogInv => SlidingWindowBound
  <2> SUFFICES ASSUME IInv, LogInv, NEW i \in m_limits, NEW k \in Keys,
                      NEW t \in 0 .. now, params[i].rpp > 0
               PROVE  GrantedIn(i, k, t .. (t + params[i].period - 1))
                        <= IF t < params[i].period THEN 2 * params[i].rpp
                                                   ELSE 2 * params[i].rpp - 1
    BY DEF SlidingWindowBound
  <2>1. /\ i \in Ids /\ log[i][k] \in Seq(Nat) /\ params[i] \in LimitParams
        /\ now \in Nat /\ t \in Nat
    BY DEF IInv, TypeOK, LogInv
  <2>2. GrantedIn(i, k, t .. (t + params[i].period - 1))
          = Cardinality({n \in 1 .. Len(log[i][k]) :
                           log[i][k][n] \in t .. (t + params[i].period - 1)})
    <3>1. DOMAIN log[i][k] = 1 .. Len(log[i][k])
      BY <2>1
    <3> QED
      BY <3>1, Zenon DEF GrantedIn
  <2>3. CASE params[i].period = 0
    <3>1. t .. (t + params[i].period - 1) = {}
      BY <2>1, <2>3
    <3>2. GrantedIn(i, k, t .. (t + params[i].period - 1)) = Cardinality({})
      BY <2>2, <3>1, Zenon
    <3>3. Cardinality({}) = 0
      BY FS_EmptySet
    <3> QED
      BY <2>1, <2>3, <3>2, <3>3 DEF LimitParams
  <2>4. CASE params[i].period # 0
    <3>1. Counts(params[i])
      BY <2>1, <2>4 DEF Counts, LimitParams
    <3>2. Ordered(log[i][k], now) /\ Spread(params[i], log[i][k])
      BY <2>1, <3>1 DEF LogInv, KeyHistory
    <3>3. Cardinality({n \in 1 .. Len(log[i][k]) :
                         log[i][k][n] \in t .. (t + params[i].period - 1)})
            <= IF t < params[i].period THEN 2 * params[i].rpp
                                       ELSE 2 * params[i].rpp - 1
      BY <2>1, <3>1, <3>2, FewInPeriod, Zenon
    <3> QED
      BY <2>2, <3>3
  <2> QED
    BY <2>3, <2>4
<1> QED
  BY LogHolds, <1>1, PTL
=============================================================================
