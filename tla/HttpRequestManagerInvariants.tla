-------------------- MODULE HttpRequestManagerInvariants --------------------
(***************************************************************************)
(* The invariants of HttpRequestManager that its theorems rest on: where a *)
(* context can be at each step of the worker, and what that place says of  *)
(* the queue, the batches, the tokens of sequential limits and the chunks  *)
(* a request has delivered.                                                *)
(*                                                                         *)
(* shutdown() destroys requests that are parked for a retry, and a         *)
(* cancellation does not find them.  NoRetries and NoneLost say which of   *)
(* the two a program does without.                                         *)
(***************************************************************************)
EXTENDS HttpRequestManager, FiniteSetTheorems, WellFoundedInduction, TLAPS

\* No request is sent twice.
NoRetries == \A r \in Requests : RetryAttempts[r] <= 1

\* The worker may be stopped, or requests may be retried, but not both.
NoneLost == NoRetries \/ ~AllowShutdown

-----------------------------------------------------------------------------
(* Sequences                                                               *)

\* What Erase leaves of a sequence.
LEMMA EraseElements ==
    ASSUME NEW S, NEW s \in Seq(S), NEW i \in 1 .. Len(s)
    PROVE  /\ Erase(s, i) \in Seq(S)
           /\ Len(Erase(s, i)) = Len(s) - 1
           /\ \A k \in 1 .. Len(s) - 1 :
                Erase(s, i)[k] = s[IF k < i THEN k ELSE k + 1]
<1> DEFINE front == SubSeq(s, 1, i - 1)
           back  == SubSeq(s, i + 1, Len(s))
<1>1. /\ front \in Seq(S) /\ Len(front) = i - 1
      /\ \A k \in 1 .. i - 1 : front[k] = s[k]
  OBVIOUS
<1>2. /\ back \in Seq(S) /\ Len(back) = Len(s) - i
      /\ \A k \in 1 .. Len(s) - i : back[k] = s[i + k]
  OBVIOUS
<1>3. Erase(s, i) = front \o back
  BY DEF Erase
<1> HIDE DEF front, back
<1>4. front \o back \in Seq(S) /\ Len(front \o back) = Len(s) - 1
  BY <1>1, <1>2
<1>5. ASSUME NEW k \in 1 .. Len(s) - 1
      PROVE  (front \o back)[k] = s[IF k < i THEN k ELSE k + 1]
  <2>1. CASE k < i
    BY <1>1, <1>2, <2>1
  <2>2. CASE ~(k < i)
    <3>1. (front \o back)[k] = back[k - (i - 1)]
      BY <1>1, <1>2, <2>2
    <3>2. back[k - (i - 1)] = s[i + (k - (i - 1))]
      BY <1>2, <2>2
    <3>3. i + (k - (i - 1)) = k + 1
      OBVIOUS
    <3> QED
      BY <2>2, <3>1, <3>2, <3>3
  <2> QED
    BY <2>1, <2>2, Zenon
<1> QED
  BY <1>3, <1>4, <1>5

\* A sequence with one element replaced.
LEMMA ExceptElements ==
    ASSUME NEW S, NEW s \in Seq(S), NEW i \in 1 .. Len(s), NEW x \in S
    PROVE  /\ [s EXCEPT ![i] = x] \in Seq(S)
           /\ Len([s EXCEPT ![i] = x]) = Len(s)
           /\ \A k \in 1 .. Len(s) : [s EXCEPT ![i] = x][k] = IF k = i THEN x ELSE s[k]
OBVIOUS

\* Induction over the naturals, for a set.
LEMMA NatSetInduction ==
    ASSUME NEW T, 0 \in T, \A n \in Nat : n \in T => n + 1 \in T
    PROVE  Nat \subseteq T
<1> DEFINE U == Nat \ T
<1>1. SUFFICES ASSUME U # {} PROVE FALSE
  OBVIOUS
<1>2. PICK x \in U : \A y \in U : ~(<<y, x>> \in OpToRel(<, Nat))
  <2>1. U \subseteq Nat
    OBVIOUS
  <2> HIDE DEF U
  <2> QED
    BY <1>1, <2>1, WFMin, NatLessThanWellFounded, Zenon
<1>3. \A y \in U : ~(y < x)
  BY <1>2, Zenon DEF OpToRel
<1>4. x # 0 /\ x - 1 \in Nat /\ x - 1 \in T
  BY <1>3
<1> QED
  BY <1>4

\* What Without leaves of the queue.
LEMMA WithoutElements ==
    ASSUME m_pending_requests \in Seq(Requests), NEW S
    PROVE  LET q == m_pending_requests
               t == Without(S)
           IN  /\ t \in Seq(Requests)
               /\ \A k \in 1 .. Len(t) :
                    t[k] \notin S /\ \E i \in 1 .. Len(q) : t[k] = q[i]
               /\ \A i \in 1 .. Len(q) :
                    q[i] \notin S => \E k \in 1 .. Len(t) : t[k] = q[i]
               /\ (\A i, j \in 1 .. Len(q) : q[i] = q[j] => i = j) =>
                    \A k, l \in 1 .. Len(t) : t[k] = t[l] => k = l
<1> DEFINE q == m_pending_requests
<1> DEFINE step(g, i) == IF i = 0 THEN <<>>
          ELSE IF q[i] \in S THEN g[i - 1] ELSE Append(g[i - 1], q[i])
<1> DEFINE kept == CHOOSE g : g = [i \in 0 .. Len(q) |-> step(g, i)]
<1>1. Without(S) = kept[Len(q)]
  BY DEF Without
<1>2. \E g : g = [i \in 0 .. Len(q) |-> step(g, i)]
  <2> DEFINE T == {n \in Nat : \E g : g = [i \in 0 .. n |-> step(g, i)]}
  <2>1. 0 \in T
    <3> DEFINE g == [i \in 0 .. 0 |-> <<>>]
    <3>1. g = [i \in 0 .. 0 |-> step(g, i)]
      OBVIOUS
    <3> QED
      BY <3>1, Zenon
  <2>2. ASSUME NEW n \in Nat, n \in T
        PROVE n + 1 \in T
    <3>1. PICK g : g = [i \in 0 .. n |-> step(g, i)]
      BY <2>2, Zenon
    <3> DEFINE h == [i \in 0 .. n + 1 |-> IF i = n + 1 THEN step(g, i) ELSE g[i]]
    <3>2. /\ \A i \in 0 .. n : h[i] = g[i]
          /\ h[n + 1] = step(g, n + 1)
      OBVIOUS
    <3>3. \A i \in 0 .. n : g[i] = step(g, i)
      BY <3>1, Zenon
    <3>4. ASSUME NEW i \in 0 .. n + 1
          PROVE  h[i] = step(h, i)
      <4>1. i # 0 => h[i - 1] = g[i - 1]
        BY <3>2
      <4>2. h[i] = step(g, i)
        <5>1. CASE i = n + 1
          BY <5>1, <3>2, Zenon
        <5>2. CASE i # n + 1
          <6>1. i \in 0 .. n
            BY <5>2
          <6> QED
            BY <6>1, <3>2, <3>3, Zenon
        <5> QED
          BY <5>1, <5>2
      <4> HIDE DEF h
      <4> QED
        BY <4>1, <4>2
    <3>5. h = [i \in 0 .. n + 1 |-> h[i]]
      OBVIOUS
    <3> HIDE DEF h
    <3>6. h = [i \in 0 .. n + 1 |-> step(h, i)]
      BY <3>4, <3>5, Zenon
    <3>7. n + 1 \in Nat
      OBVIOUS
    <3> QED
      BY <3>6, <3>7, Zenon
  <2>3. Nat \subseteq T
    <3> HIDE DEF T
    <3> QED
     BY <2>1, <2>2, NatSetInduction
  <2>4. Len(q) \in Nat
    OBVIOUS
  <2>5. Len(q) \in T
    BY <2>3, <2>4, Zenon
  <2> QED
    BY <2>5, Zenon
<1>3. kept = [i \in 0 .. Len(q) |-> step(kept, i)]
  BY <1>2, Zenon
<1>4. /\ kept[0] = <<>>
      /\ \A n \in Nat : n + 1 <= Len(q) =>
           kept[n + 1] = IF q[n + 1] \in S THEN kept[n] ELSE Append(kept[n], q[n + 1])
  <2>1. \A n \in 0 .. Len(q) : kept[n] = step(kept, n)
    BY <1>3, Zenon
  <2> HIDE DEF kept
  <2>2. ASSUME NEW n \in Nat, n + 1 <= Len(q)
        PROVE  kept[n + 1] = step(kept, n + 1) /\ n + 1 # 0 /\ (n + 1) - 1 = n
    BY <2>1, <2>2
  <2> QED
    BY <2>1, <2>2
<1> HIDE DEF kept
<1> DEFINE Injective(s, n) == \A i, j \in 1 .. n : s[i] = s[j] => i = j
           Done(n) == /\ kept[n] \in Seq(Requests)
                      /\ \A k \in 1 .. Len(kept[n]) :
                           kept[n][k] \notin S /\ \E i \in 1 .. n : kept[n][k] = q[i]
                      /\ \A i \in 1 .. n :
                           q[i] \notin S => \E k \in 1 .. Len(kept[n]) : kept[n][k] = q[i]
                      /\ Injective(q, Len(q)) => Injective(kept[n], Len(kept[n]))
           T == {n \in Nat : n <= Len(q) => Done(n)}
<1>5. 0 \in T
  <2>1. kept[0] \in Seq(Requests) /\ Len(kept[0]) = 0
    BY <1>4
  <2>2. Done(0)
    BY <2>1
  <2> HIDE DEF Done
  <2> QED
    BY <2>2
<1>6. ASSUME NEW n \in Nat, n \in T
      PROVE  n + 1 \in T
  <2> SUFFICES ASSUME n + 1 <= Len(q) PROVE Done(n + 1)
    OBVIOUS
  <2>1. Done(n)
    <3>1. n <= Len(q)
      OBVIOUS
    <3> HIDE DEF Done
    <3> QED
      BY <1>6, <3>1
  <2>2. n + 1 \in 1 .. Len(q) /\ q[n + 1] \in Requests
    OBVIOUS
  <2>3. CASE q[n + 1] \in S
    <3>1. kept[n + 1] = kept[n]
      BY <1>4, <2>2, <2>3
    <3>2. \A i \in 1 .. n + 1 : q[i] \notin S => i \in 1 .. n
      BY <2>3
    <3> QED
      BY <2>1, <3>1, <3>2
  <2>4. CASE q[n + 1] \notin S
    <3> DEFINE s == kept[n]
    <3>1. kept[n + 1] = Append(s, q[n + 1])
      BY <1>4, <2>2, <2>4, Zenon
    <3>2. s \in Seq(Requests)
      BY <2>1
    <3> HIDE DEF s
    <3>3. /\ kept[n + 1] \in Seq(Requests)
          /\ Len(kept[n + 1]) = Len(s) + 1
          /\ \A k \in 1 .. Len(s) : kept[n + 1][k] = s[k]
          /\ kept[n + 1][Len(s) + 1] = q[n + 1]
      BY <3>1, <3>2, <2>2
    <3>4. ASSUME NEW k \in 1 .. Len(s) + 1
          PROVE  kept[n + 1][k] \notin S /\ \E i \in 1 .. n + 1 : kept[n + 1][k] = q[i]
      <4>1. CASE k = Len(s) + 1
        <5>1. kept[n + 1][k] = q[n + 1] /\ n + 1 \in 1 .. n + 1
          BY <3>3, <4>1
        <5> QED
          BY <2>4, <5>1, Zenon
      <4>2. CASE k \in 1 .. Len(s)
        <5>1. s[k] \notin S /\ \E i \in 1 .. n : s[k] = q[i]
          BY <2>1, <4>2 DEF s
        <5> QED
          BY <3>3, <4>2, <5>1
      <4> QED
        BY <3>2, <4>1, <4>2
    <3>5. ASSUME NEW i \in 1 .. n + 1, q[i] \notin S
          PROVE  \E k \in 1 .. Len(s) + 1 : kept[n + 1][k] = q[i]
      <4>1. CASE i = n + 1
        <5>1. Len(s) + 1 \in 1 .. Len(s) + 1
          BY <3>2
        <5> QED
          BY <3>3, <4>1, <5>1, Zenon
      <4>2. CASE i \in 1 .. n
        <5>1. PICK k \in 1 .. Len(s) : s[k] = q[i]
          BY <2>1, <3>5, <4>2 DEF s
        <5> QED
          BY <3>2, <3>3, <5>1
      <4> QED
        BY <4>1, <4>2
    <3>6. ASSUME Injective(q, Len(q)), NEW k \in 1 .. Len(s) + 1, NEW l \in 1 .. Len(s) + 1,
                 kept[n + 1][k] = kept[n + 1][l]
          PROVE  k = l
      <4>1. \A m \in 1 .. Len(s) : s[m] # q[n + 1]
        BY <2>1, <2>2, <3>6 DEF s
      <4>2. \A m, p \in 1 .. Len(s) : s[m] = s[p] => m = p
        BY <2>1, <3>6 DEF s
      <4> QED
        BY <3>2, <3>3, <3>6, <4>1, <4>2
    <3> QED
      BY <3>3, <3>4, <3>5, <3>6
  <2> QED
    BY <2>3, <2>4
<1>7. Done(Len(q))
  <2>1. Nat \subseteq T
    <3> HIDE DEF T
    <3> QED
      BY <1>5, <1>6, NatSetInduction
  <2>2. Len(q) \in T /\ Len(q) <= Len(q)
    <3>1. Len(q) \in Nat /\ Len(q) <= Len(q)
      OBVIOUS
    <3> HIDE DEF T
    <3> QED
      BY <2>1, <3>1
  <2> HIDE DEF Done
  <2> QED
    BY <2>2
<1> DEFINE t == Without(S)
<1>8. /\ t \in Seq(Requests)
      /\ \A k \in 1 .. Len(t) : t[k] \notin S /\ \E i \in 1 .. Len(q) : t[k] = q[i]
      /\ \A i \in 1 .. Len(q) : q[i] \notin S => \E k \in 1 .. Len(t) : t[k] = q[i]
      /\ Injective(q, Len(q)) => Injective(t, Len(t))
  <2>1. t = kept[Len(q)]
    BY <1>1
  <2> HIDE DEF t, Injective
  <2> QED
    BY <1>7, <2>1, Zenon
<1> QED
  BY <1>8, Zenon

-----------------------------------------------------------------------------
(* Where contexts are, and what the worker is doing                        *)

Pcs == {"idle", "batch", "active", "visit", "retry", "cancel", "callbacks",
        "notify", "cleanup", "clear", "notifyAll", "down"}

\* Which contexts can be where at each step of the worker.
PhaseInv ==
    /\ loc \in [Requests -> Locations]
    /\ attempt \in [Requests -> Nat]
    /\ m_shutdown \in BOOLEAN
    /\ pc \in Pcs
    /\ m_shutdown => /\ AllowShutdown
                     /\ pc \in {"cleanup", "cancel", "callbacks", "clear",
                                "notifyAll", "down"}
    /\ pc \in {"cleanup", "clear", "notifyAll", "down"} => m_shutdown
    /\ \A r \in Requests :
         /\ loc[r] = "admitted" => pc = "batch"
         /\ loc[r] \in {"pending", "failed"} => ~m_shutdown \/ pc = "cleanup"
         /\ loc[r] \in {"running", "parked"} => pc \notin {"notifyAll", "down"}
         /\ loc[r] = "parked" => ~NoRetries
         /\ loc[r] = "lost" => ~NoneLost
         /\ pc = "down" => loc[r] \in {"new", "rejected", "done", "lost"}

\* Every context in a batch is running or parked, and in one batch only.  The
\* completed transfers are those of the batch that is visited.
BatchInv ==
    /\ cur \in Nat \ {0}
    /\ m_active_request_batches \in Seq(SUBSET Requests)
    /\ \A i \in 1 .. Len(m_active_request_batches) :
         \A r \in m_active_request_batches[i] : loc[r] \in {"running", "parked"}
    /\ \A i, j \in 1 .. Len(m_active_request_batches) :
         i # j => m_active_request_batches[i] \cap m_active_request_batches[j] = {}
    /\ pc = "visit" =>
         /\ cur <= Len(m_active_request_batches)
         /\ \A r \in msgs : r \in m_active_request_batches[cur] /\ loc[r] = "running"

\* The queue holds the pending requests, each once.
QueueInv ==
    /\ m_pending_requests \in Seq(Requests)
    /\ \A i \in 1 .. Len(m_pending_requests) : loc[m_pending_requests[i]] = "pending"
    /\ \A r \in Requests :
         loc[r] = "pending" =>
             \E i \in 1 .. Len(m_pending_requests) : m_pending_requests[i] = r
    /\ \A i, j \in 1 .. Len(m_pending_requests) :
         m_pending_requests[i] = m_pending_requests[j] => i = j

\* Every request that runs, or is parked, is in a batch.
OwnedInv ==
    \A r \in Requests :
        loc[r] \in {"running", "parked"} =>
            \E i \in 1 .. Len(m_active_request_batches) : r \in m_active_request_batches[i]

\* Whose token is in a slot: a request that uses it, has been admitted, and has not
\* run on_complete.  Such a request holds all its slots.
TokenInv ==
    /\ armed \subseteq Requests
    /\ holder \in [Slots -> Requests \cup {NoOne}]
    /\ \A r \in armed : loc[r] \notin {"new", "rejected"}
    /\ \A r \in armed : loc[r] \notin {"released", "done"} =>
         \A s \in SlotsOf[r] : holder[s] = r
    /\ \A s \in Slots : holder[s] # NoOne =>
         /\ holder[s] \in armed
         /\ loc[holder[s]] \notin {"released", "done"}

\* Where a request that has delivered a chunk can be.
ChunkInv ==
    /\ chunked \subseteq Requests
    /\ \A r \in chunked : loc[r] \in {"running", "closing", "answered", "released", "done"}

\* A step that leaves the batches alone, and the contexts in them.
LEMMA BatchFrame ==
    ASSUME BatchInv, UNCHANGED <<cur, m_active_request_batches>>,
           pc' = "visit" => pc = "visit" /\ UNCHANGED msgs,
           \A r \in Requests : loc[r] \in {"running", "parked"} => loc'[r] = loc[r]
    PROVE  BatchInv'
BY DEF BatchInv

\* One step keeps PhaseInv.
LEMMA PhaseStep ==
    ASSUME PhaseInv, BatchInv, [Next]_vars
    PROVE  PhaseInv'
<1> USE DEF PhaseInv, Locations, Pcs, At, Move
<1>1. ASSUME NEW r \in Requests, SubmitRequest(r)
      PROVE  PhaseInv'
  BY <1>1 DEF SubmitRequest, Rejects, userVars, visitVars
<1>2. CASE \/ \E c \in Cancels : CancelCheck(c) \/ CancelQueue(c)
           \/ \E w \in Waiters : WaitRequests(w) \/ CancelWait(w) \/ CallWaiter(w)
  <2>1. UNCHANGED <<loc, attempt, m_shutdown, pc>>
    BY <1>2 DEF CancelCheck, CancelQueue, WaitRequests, CancelWait, CallWaiter, reqVars
  <2> QED
    BY <2>1
<1>3. ASSUME NEW r \in Requests, FinalCallback(r) \/ Release(r) \/ CompleteGroupRequest(r)
      PROVE  PhaseInv'
  BY <1>3 DEF FinalCallback, Release, CompleteGroupRequest, userVars, visitVars
<1>4. ASSUME NEW D \in SUBSET At("pending"), NEW A \in SUBSET At("pending"),
             ProcessPending(D, A)
      PROVE  PhaseInv'
  BY <1>4 DEF ProcessPending, userVars, visitVars
<1>5. ASSUME NEW F \in SUBSET At("admitted"), OpenBatch(F)
      PROVE  PhaseInv'
  BY <1>5 DEF OpenBatch, userVars, visitVars
<1>6. CASE OpenBatchThrows
  BY <1>6 DEF OpenBatchThrows, userVars, visitVars
<1>7. CASE \/ \E M \in SUBSET At("running"), C \in SUBSET At("running") : Perform(M, C)
           \/ PerformFails \/ ActiveDone \/ RetryDone
  <2>1. UNCHANGED <<loc, attempt, m_shutdown>>
    BY <1>7 DEF Perform, PerformFails, ActiveDone, RetryDone, reqVars
  <2>2. /\ pc \in {"active", "retry"}
        /\ pc' \in {"active", "visit", "retry", "cancel"}
    BY <1>7 DEF Perform, PerformFails, ActiveDone, RetryDone
  <2> QED
    BY <2>1, <2>2
<1>8. ASSUME NEW r \in Requests, NEW bad \in BOOLEAN, HandleCompletedRequest(r, bad)
      PROVE  PhaseInv'
  <2>1. /\ attempt' = [attempt EXCEPT ![r] = @ + 1]
        /\ UNCHANGED <<m_shutdown, pc>>
        /\ pc = "visit"
    BY <1>8 DEF HandleCompletedRequest
  <2>2. \/ loc' = Move({r}, "parked") /\ ~NoRetries
        \/ loc' = Move({r}, "closing")
    <3>1. CASE ShouldRetry(r, bad)
      <4>1. loc' = Move({r}, "parked")
        BY <1>8, <3>1 DEF HandleCompletedRequest
      <4>2. attempt[r] \in Nat /\ RetryAttempts[r] \in Nat
        BY ManagerAssumption
      <4>3. ~(RetryAttempts[r] <= 1)
        BY <3>1, <4>2 DEF ShouldRetry
      <4> QED
        BY <4>1, <4>3 DEF NoRetries
    <3>2. CASE ~ShouldRetry(r, bad)
      BY <1>8, <3>2 DEF HandleCompletedRequest
    <3> QED
      BY <3>1, <3>2
  <2> QED
    BY <2>1, <2>2
<1>9. CASE EndVisit
  <2>1. UNCHANGED <<attempt, m_shutdown>> /\ pc = "visit" /\ pc' = "active"
    BY <1>9 DEF EndVisit
  <2>2. loc' = loc \/ loc' = Move(Batch, "failed")
    BY <1>9 DEF EndVisit
  <2> QED
    BY <2>1, <2>2
<1>10. ASSUME NEW r \in Requests, RetryFailed(r)
       PROVE  PhaseInv'
  BY <1>10 DEF RetryFailed, userVars, visitVars
<1>11. CASE TakeCancels
  <2>1. UNCHANGED <<attempt, m_shutdown>> /\ pc = "cancel" /\ pc' = "callbacks"
    BY <1>11 DEF TakeCancels
  <2>2. PICK gone : loc' = Move(gone, "closing")
    BY <1>11 DEF TakeCancels
  <2> QED
    BY <2>1, <2>2
<1>12. CASE (\E c \in Cancels : InvokeCancelCallback(c)) \/ CancelDone
  BY <1>12 DEF InvokeCancelCallback, CancelDone, reqVars, userVars, visitVars
<1>13. CASE NotifyGroupWaitersIfIdle
  BY <1>13 DEF NotifyGroupWaitersIfIdle, reqVars
<1>14. CASE CleanupPendingRequests
  BY <1>14 DEF CleanupPendingRequests
<1>15. CASE ClearBatches
  BY <1>15 DEF ClearBatches, NoneLost
<1>16. CASE NotifyAllGroupWaiters
  BY <1>16 DEF NotifyAllGroupWaiters, reqVars, Quiet, Completing
<1>17. CASE AfterShutdown
  BY <1>17 DEF AfterShutdown, reqVars
<1>18. CASE UNCHANGED vars
  BY <1>18 DEF vars, reqVars
<1>19. CASE Shutdown
  <2>1. UNCHANGED <<loc, attempt>> /\ pc = "idle" /\ pc' = "cleanup"
    BY <1>19 DEF Shutdown, reqVars
  <2>2. m_shutdown' = TRUE /\ AllowShutdown
    BY <1>19 DEF Shutdown
  <2>3. \A r \in Requests : loc[r] # "admitted"
    BY <2>1
  <2> QED
    BY <2>1, <2>2, <2>3
<1> QED
  BY <1>1, <1>2, <1>3, <1>4, <1>5, <1>6, <1>7, <1>8, <1>9, <1>10, <1>11, <1>12,
     <1>13, <1>14, <1>15, <1>16, <1>17, <1>18, <1>19, Zenon
  DEF Next, User, Deliver, Process, Stop

\* One step keeps BatchInv.
LEMMA BatchStep ==
    ASSUME PhaseInv, BatchInv, [Next]_vars
    PROVE  BatchInv'
<1> DEFINE batches == m_active_request_batches
<1>1. CASE \/ \E r \in Requests : SubmitRequest(r)
           \/ \E r \in Requests : FinalCallback(r) \/ Release(r) \/ CompleteGroupRequest(r)
           \/ \E r \in Requests : RetryFailed(r)
           \/ CleanupPendingRequests \/ OpenBatchThrows
  <2>1. /\ UNCHANGED <<cur, batches, msgs>>
        /\ pc' = "visit" => pc = "visit"
    BY <1>1, Zenon DEF SubmitRequest, FinalCallback, Release, CompleteGroupRequest, RetryFailed,
                CleanupPendingRequests, OpenBatchThrows, visitVars, queueVars
  <2>2. \A r \in Requests : loc[r] \in {"running", "parked"} => loc'[r] = loc[r]
    BY <1>1, Zenon DEF SubmitRequest, FinalCallback, Release, CompleteGroupRequest, RetryFailed,
                CleanupPendingRequests, OpenBatchThrows, Move, At, PhaseInv
  <2> QED
    BY <2>1, <2>2, BatchFrame
<1>2. CASE \/ \E c \in Cancels : CancelCheck(c) \/ CancelQueue(c) \/ InvokeCancelCallback(c)
           \/ \E w \in Waiters : WaitRequests(w) \/ CancelWait(w) \/ CallWaiter(w)
           \/ RetryDone \/ CancelDone \/ NotifyGroupWaitersIfIdle
           \/ Shutdown \/ NotifyAllGroupWaiters \/ AfterShutdown
  <2>1. UNCHANGED <<cur, batches, msgs, loc>> /\ (pc' = "visit" => pc = "visit")
    BY <1>2, Zenon DEF CancelCheck, CancelQueue, InvokeCancelCallback, WaitRequests, CancelWait,
                CallWaiter, RetryDone, CancelDone, NotifyGroupWaitersIfIdle, Shutdown,
                NotifyAllGroupWaiters, AfterShutdown, reqVars, visitVars, queueVars
  <2> QED
    BY <2>1, BatchFrame
<1>3. ASSUME NEW D \in SUBSET At("pending"), NEW A \in SUBSET At("pending"),
             ProcessPending(D, A)
      PROVE  BatchInv'
  <2>1. UNCHANGED <<cur, batches, msgs>> /\ pc' # "visit"
    BY <1>3 DEF ProcessPending, visitVars
  <2>2. \A r \in Requests : loc[r] \in {"running", "parked"} => loc'[r] = loc[r]
    BY <1>3 DEF ProcessPending, At
  <2> QED
    BY <2>1, <2>2, BatchFrame
<1>4. ASSUME NEW F \in SUBSET At("admitted"), OpenBatch(F)
      PROVE  BatchInv'
  <2> DEFINE new == At("admitted") \ F
  <2>1. UNCHANGED <<cur, msgs>> /\ pc' # "visit"
    BY <1>4 DEF OpenBatch, visitVars
  <2>2. /\ \A r \in Requests : loc[r] \in {"running", "parked"} => loc'[r] = loc[r]
        /\ \A r \in new : loc[r] = "admitted" /\ loc'[r] = "running"
        /\ new \in SUBSET Requests
    BY <1>4 DEF OpenBatch, At
  <2>3. batches' = batches \/ batches' = Append(batches, new)
    BY <1>4 DEF OpenBatch
  <2> HIDE DEF new
  <2>4. CASE batches' = batches
    BY <2>1, <2>2, <2>4, BatchFrame
  <2>5. CASE batches' = Append(batches, new)
    <3> DEFINE L == Len(batches)
    <3>1. batches \in Seq(SUBSET Requests) /\ cur \in Nat \ {0}
      BY Zenon DEF BatchInv
    <3>2. /\ L \in Nat /\ Len(batches') = L + 1 /\ batches'[L + 1] = new
          /\ batches' \in Seq(SUBSET Requests)
          /\ \A i \in 1 .. L : batches'[i] = batches[i] /\ batches[i] \in SUBSET Requests
      BY <2>2, <2>5, <3>1
    <3> HIDE DEF L
    <3>3. \A i \in 1 .. L : \A r \in batches[i] : loc[r] \in {"running", "parked"}
      BY Zenon DEF BatchInv, L
    <3>4. \A i, j \in 1 .. L : i # j => batches[i] \cap batches[j] = {}
      BY Zenon DEF BatchInv, L
    <3>5. \A i \in 1 .. (L + 1) : \A r \in batches'[i] : loc'[r] \in {"running", "parked"}
      <4>1. \A i \in 1 .. L : \A r \in batches'[i] : loc'[r] \in {"running", "parked"}
        BY <2>2, <3>2, <3>3
      <4>2. \A r \in batches'[L + 1] : loc'[r] \in {"running", "parked"}
        BY <2>2, <3>2
      <4>3. \A i \in 1 .. (L + 1) : i \in 1 .. L \/ i = L + 1
        BY <3>2
      <4> QED
        BY <4>1, <4>2, <4>3, Zenon
    <3>6. \A i \in 1 .. L : batches[i] \cap new = {}
      BY <2>2, <3>3
    <3>7. \A i, j \in 1 .. (L + 1) : i # j => batches'[i] \cap batches'[j] = {}
      <4>1. \A i, j \in 1 .. L : i # j => batches'[i] \cap batches'[j] = {}
        BY <3>2, <3>4, Zenon
      <4>2. \A i \in 1 .. L : /\ batches'[i] \cap batches'[L + 1] = {}
                              /\ batches'[L + 1] \cap batches'[i] = {}
        BY <3>2, <3>6
      <4>3. \A i \in 1 .. (L + 1) : i \in 1 .. L \/ i = L + 1
        BY <3>2
      <4> QED
        BY <4>1, <4>2, <4>3, Zenon
    <3>8. cur' \in Nat \ {0} /\ pc' # "visit"
      BY <2>1, <3>1
    <3>9. Len(batches') = L + 1 /\ batches' \in Seq(SUBSET Requests)
      BY <3>2
    <3> QED
      BY <3>5, <3>7, <3>8, <3>9, Zenon DEF BatchInv
  <2> QED
    BY <2>3, <2>4, <2>5
<1>5. ASSUME NEW M \in SUBSET At("running"), NEW C \in SUBSET At("running"), Perform(M, C)
      PROVE  BatchInv'
  BY <1>5 DEF Perform, Transfers, Batch, At, BatchInv, queueVars
<1>6. CASE PerformFails \/ ActiveDone
  BY <1>6 DEF PerformFails, ActiveDone, BatchInv, queueVars, reqVars
<1>7. ASSUME NEW r \in Requests, NEW bad \in BOOLEAN, HandleCompletedRequest(r, bad)
      PROVE  BatchInv'
  <2>1. /\ pc = "visit" /\ pc' = "visit" /\ cur' = cur
        /\ r \in msgs /\ msgs' = msgs \ {r}
        /\ \A q \in Requests : q # r => loc'[q] = loc[q]
    BY <1>7 DEF HandleCompletedRequest, Move
  <2>2. cur \in 1 .. Len(batches) /\ r \in batches[cur] /\ loc[r] = "running"
    BY <2>1 DEF BatchInv
  <2>3. CASE loc'[r] = "parked" /\ batches' = batches
    BY <2>1, <2>2, <2>3 DEF BatchInv
  <2>4. CASE batches' = [batches EXCEPT ![cur] = @ \ {r}]
    <3>1. /\ batches' \in Seq(SUBSET Requests) /\ Len(batches') = Len(batches)
          /\ \A i \in 1 .. Len(batches) :
               batches'[i] = IF i = cur THEN batches[i] \ {r} ELSE batches[i]
      <4>1. batches \in Seq(SUBSET Requests) /\ batches[cur] \ {r} \in SUBSET Requests
        BY <2>2 DEF BatchInv
      <4>2. batches' = [batches EXCEPT ![cur] = batches[cur] \ {r}]
        BY <2>4
      <4> DEFINE x == batches[cur] \ {r}
      <4> HIDE DEF batches, x
      <4>3. /\ [batches EXCEPT ![cur] = x] \in Seq(SUBSET Requests)
            /\ Len([batches EXCEPT ![cur] = x]) = Len(batches)
            /\ \A k \in 1 .. Len(batches) :
                 [batches EXCEPT ![cur] = x][k] = IF k = cur THEN x ELSE batches[k]
        <5>1. x \in SUBSET Requests
          BY <4>1 DEF x
        <5> QED
          BY <2>2, <4>1, <5>1, ExceptElements
      <4>4. batches' = [batches EXCEPT ![cur] = x]
        BY <4>2 DEF x
      <4>5. /\ batches' \in Seq(SUBSET Requests) /\ Len(batches') = Len(batches)
            /\ \A k \in 1 .. Len(batches) : batches'[k] = IF k = cur THEN x ELSE batches[k]
        BY <4>3, <4>4, Zenon
      <4> QED
        BY <4>5, Zenon DEF x
    <3>2. \A i \in 1 .. Len(batches) : r \notin batches'[i] /\ batches'[i] \subseteq batches[i]
      BY <2>2, <3>1, ZenonT(30) DEF BatchInv
    <3>3. \A q \in msgs' : q \in batches'[cur] /\ loc'[q] = "running"
      <4>1. batches[cur] \subseteq Requests
        BY <2>2 DEF BatchInv
      <4> QED
        BY <2>1, <2>2, <3>1, <4>1, Zenon DEF BatchInv
    <3>4. \A i \in 1 .. Len(batches) : \A q \in batches'[i] : loc'[q] \in {"running", "parked"}
      BY <2>1, <3>1, <3>2 DEF BatchInv
    <3> QED
      BY <2>1, <2>2, <3>1, <3>2, <3>3, <3>4 DEF BatchInv
  <2> QED
    BY <1>7, <2>3, <2>4 DEF HandleCompletedRequest, Move
<1>8. CASE EndVisit
  <2>1. /\ pc = "visit" /\ pc' # "visit"
    BY <1>8 DEF EndVisit
  <2>2. cur \in 1 .. Len(batches)
    BY <2>1 DEF BatchInv
  <2>3. CASE Transfers = {}
    <3>1. batches' = Erase(batches, cur) /\ loc' = Move(batches[cur], "failed") /\ cur' = cur
      BY <1>8, <2>3 DEF EndVisit, Batch
    <3>2. /\ batches' \in Seq(SUBSET Requests) /\ Len(batches') = Len(batches) - 1
          /\ \A k \in 1 .. Len(batches) - 1 :
               batches'[k] = batches[IF k < cur THEN k ELSE k + 1]
      <4>1. batches \in Seq(SUBSET Requests)
        BY DEF BatchInv
      <4> HIDE DEF batches
      <4> QED
        BY <2>2, <3>1, <4>1, EraseElements, Zenon
    <3>3. ASSUME NEW k \in 1 .. Len(batches) - 1, NEW q \in batches'[k]
          PROVE  loc'[q] \in {"running", "parked"}
      <4>1. PICK i \in 1 .. Len(batches) : i # cur /\ batches'[k] = batches[i]
        BY <2>2, <3>2 DEF BatchInv
      <4>2. q \in Requests /\ q \notin batches[cur] /\ loc[q] \in {"running", "parked"}
        BY <2>2, <4>1 DEF BatchInv
      <4> QED
        BY <3>1, <4>2 DEF Move
    <3>4. ASSUME NEW k \in 1 .. Len(batches) - 1, NEW l \in 1 .. Len(batches) - 1, k # l
          PROVE  batches'[k] \cap batches'[l] = {}
      <4> DEFINE i == IF k < cur THEN k ELSE k + 1
                 j == IF l < cur THEN l ELSE l + 1
      <4>1. i \in 1 .. Len(batches) /\ j \in 1 .. Len(batches) /\ i # j
        BY <2>2, <3>4 DEF BatchInv
      <4>2. batches'[k] = batches[i] /\ batches'[l] = batches[j]
        BY <3>2
      <4> QED
        BY <4>1, <4>2 DEF BatchInv
    <3> QED
      BY <2>1, <2>2, <3>1, <3>2, <3>3, <3>4 DEF BatchInv
  <2>4. CASE Transfers # {}
    BY <1>8, <2>1, <2>4 DEF EndVisit, BatchInv
  <2> QED
    BY <2>3, <2>4
<1>9. CASE TakeCancels
  <2>1. PICK gone :
          /\ loc' = Move(gone, "closing")
          /\ batches' = [i \in DOMAIN batches |-> batches[i] \ gone]
    BY <1>9, Zenon DEF TakeCancels
  <2>2. UNCHANGED <<cur, msgs>> /\ pc' # "visit"
    BY <1>9, Zenon DEF TakeCancels, visitVars
  <2>3. /\ batches' \in Seq(SUBSET Requests) /\ Len(batches') = Len(batches)
        /\ \A i \in 1 .. Len(batches) : batches'[i] = batches[i] \ gone
    BY <2>1 DEF BatchInv
  <2> QED
    BY <2>1, <2>2, <2>3 DEF BatchInv, Move
<1>10. CASE ClearBatches
  BY <1>10 DEF ClearBatches, BatchInv, visitVars
<1>11. CASE UNCHANGED vars
  BY <1>11, BatchFrame DEF vars, queueVars, visitVars, reqVars
<1> QED
  BY <1>1, <1>2, <1>3, <1>4, <1>5, <1>6, <1>7, <1>8, <1>9, <1>10, <1>11, Zenon
  DEF Next, User, Deliver, Process, Stop

-----------------------------------------------------------------------------
(* Lists and tokens                                                        *)

\* The steps that concern the contexts, the lists they are in, or their tokens.
LEMMA ContextSteps ==
    ASSUME [Next]_vars
    PROVE  \/ UNCHANGED <<queueVars, reqVars>>
           \/ \E r \in Requests : \/ SubmitRequest(r) \/ RetryFailed(r) \/ FinalCallback(r)
                                  \/ Release(r) \/ CompleteGroupRequest(r)
           \/ \E D \in SUBSET At("pending"), A \in SUBSET At("pending") : ProcessPending(D, A)
           \/ \E F \in SUBSET At("admitted") : OpenBatch(F)
           \/ \E M \in SUBSET At("running"), C \in SUBSET At("running") : Perform(M, C)
           \/ \E r \in Requests, bad \in BOOLEAN : HandleCompletedRequest(r, bad)
           \/ TakeCancels \/ CleanupPendingRequests \/ OpenBatchThrows \/ ClearBatches \/ EndVisit
BY Zenon DEF Next, User, Deliver, Process, Stop, vars, CancelCheck, CancelQueue,
       WaitRequests, CancelWait, CallWaiter, PerformFails, ActiveDone, RetryDone,
       InvokeCancelCallback, CancelDone, NotifyGroupWaitersIfIdle, Shutdown,
       NotifyAllGroupWaiters, AfterShutdown

\* A step that leaves the queue alone, and the pending requests.
LEMMA QueueFrame ==
    ASSUME QueueInv, UNCHANGED m_pending_requests,
           \A r \in Requests : loc[r] = "pending" <=> loc'[r] = "pending"
    PROVE  QueueInv'
<1> DEFINE q == m_pending_requests
<1>1. q \in Seq(Requests) /\ \A i \in 1 .. Len(q) : q[i] \in Requests
  BY DEF QueueInv
<1>2. \A i \in 1 .. Len(q) : loc'[q[i]] = "pending"
  BY <1>1, Zenon DEF QueueInv
<1>3. \A r \in Requests : loc'[r] = "pending" => \E i \in 1 .. Len(q) : q[i] = r
  BY Zenon DEF QueueInv
<1> QED
  BY <1>1, <1>2, <1>3, Zenon DEF QueueInv

\* A step that puts one more request into the queue.
LEMMA QueueGrows ==
    ASSUME QueueInv, NEW r \in Requests, loc[r] # "pending",
           loc' = Move({r}, "pending"), m_pending_requests' = Append(m_pending_requests, r)
    PROVE  QueueInv'
<1> DEFINE q == m_pending_requests
<1>1. /\ q' \in Seq(Requests) /\ Len(q') = Len(q) + 1 /\ Len(q) \in Nat
      /\ \A i \in 1 .. Len(q) : q'[i] = q[i] /\ q[i] \in Requests
      /\ q'[Len(q) + 1] = r
  BY SMTT(30) DEF QueueInv
<1>2. \A i \in 1 .. Len(q) : q[i] # r
  BY DEF QueueInv
<1>3. ASSUME NEW x \in Requests, loc'[x] = "pending"
      PROVE  \E i \in 1 .. Len(q') : q'[i] = x
  <2>1. CASE x = r
    BY <1>1, <2>1
  <2>2. CASE x # r
    <3>1. PICK i \in 1 .. Len(q) : q[i] = x
      BY <1>3, <2>2 DEF QueueInv, Move
    <3> QED
      BY <1>1, <3>1
  <2> QED
    BY <2>1, <2>2
<1>4. \A i \in 1 .. Len(q') : loc'[q'[i]] = "pending"
  BY <1>1 DEF QueueInv, Move
<1>5. \A i, j \in 1 .. Len(q') : q'[i] = q'[j] => i = j
  BY <1>1, <1>2 DEF QueueInv
<1> QED
  BY <1>1, <1>3, <1>4, <1>5, Zenon DEF QueueInv

\* A step that erases the requests of S from the queue.
LEMMA QueueShrinks ==
    ASSUME QueueInv, NEW S, m_pending_requests' = Without(S),
           \A r \in Requests : loc'[r] = "pending" <=> loc[r] = "pending" /\ r \notin S
    PROVE  QueueInv'
<1> DEFINE q == m_pending_requests
           t == Without(S)
<1>1. /\ t \in Seq(Requests)
      /\ \A k \in 1 .. Len(t) : t[k] \notin S /\ \E i \in 1 .. Len(q) : t[k] = q[i]
      /\ \A i \in 1 .. Len(q) : q[i] \notin S => \E k \in 1 .. Len(t) : t[k] = q[i]
      /\ \A k, l \in 1 .. Len(t) : t[k] = t[l] => k = l
  BY WithoutElements, ZenonT(30) DEF QueueInv
<1> HIDE DEF t
<1>2. q' = t
  BY DEF t
<1>3. \A k \in 1 .. Len(t) : t[k] \in Requests /\ loc'[t[k]] = "pending"
  BY <1>1 DEF QueueInv
<1>4. ASSUME NEW r \in Requests, loc'[r] = "pending"
      PROVE  \E k \in 1 .. Len(t) : t[k] = r
  <2>1. loc[r] = "pending" /\ r \notin S
    BY <1>4, Zenon
  <2>2. PICK i \in 1 .. Len(q) : q[i] = r
    BY <2>1, Zenon DEF QueueInv
  <2> QED
    BY <1>1, <2>1, <2>2, Zenon
<1> QED
  BY <1>1, <1>2, <1>3, <1>4, ZenonT(30) DEF QueueInv

\* One step keeps QueueInv.
LEMMA QueueStep ==
    ASSUME PhaseInv, BatchInv, QueueInv, [Next]_vars
    PROVE  QueueInv'
<1>1. ASSUME NEW r \in Requests, SubmitRequest(r)
      PROVE  QueueInv'
  <2>1. CASE Rejects
    BY <1>1, <2>1, QueueFrame DEF SubmitRequest, Move
  <2>2. CASE ~Rejects
    BY <1>1, <2>2, QueueGrows DEF SubmitRequest
  <2> QED
    BY <2>1, <2>2
<1>2. ASSUME NEW r \in Requests, RetryFailed(r)
      PROVE  QueueInv'
  BY <1>2, QueueGrows DEF RetryFailed
<1>3. ASSUME NEW D \in SUBSET At("pending"), NEW A \in SUBSET At("pending"),
             ProcessPending(D, A)
      PROVE  QueueInv'
  <2>1. \A r \in Requests :
          loc'[r] = "pending" <=> loc[r] = "pending" /\ r \notin A \cup NullRequests
    BY <1>3 DEF ProcessPending, At
  <2> QED
    BY <1>3, <2>1, QueueShrinks DEF ProcessPending
<1>4. CASE TakeCancels
  <2> DEFINE gone == Cancelled({c \in Cancels : cancel[c] = "queued"})
  <2>1. loc' = Move(gone, "closing") /\ m_pending_requests' = Without(gone)
    BY <1>4 DEF TakeCancels
  <2> HIDE DEF gone
  <2>2. \A r \in Requests : loc'[r] = "pending" <=> loc[r] = "pending" /\ r \notin gone
    BY <2>1 DEF Move
  <2> QED
    BY <2>1, <2>2, QueueShrinks
<1>5. CASE CleanupPendingRequests
  <2>1. m_pending_requests' = <<>> /\ \A r \in Requests : loc'[r] # "pending"
    BY <1>5 DEF CleanupPendingRequests, Move, At
  <2> QED
    BY <2>1 DEF QueueInv
<1>6. CASE \/ \E r \in Requests : FinalCallback(r) \/ Release(r) \/ CompleteGroupRequest(r)
           \/ \E F \in SUBSET At("admitted") : OpenBatch(F)
           \/ OpenBatchThrows \/ ClearBatches
  <2>1. UNCHANGED m_pending_requests
    BY <1>6, Zenon DEF FinalCallback, Release, CompleteGroupRequest, OpenBatch, OpenBatchThrows,
                ClearBatches, queueVars
  <2>2. \A r \in Requests : loc[r] = "pending" <=> loc'[r] = "pending"
    BY <1>6 DEF FinalCallback, Release, CompleteGroupRequest, OpenBatch, OpenBatchThrows,
                ClearBatches, Move, At
  <2> QED
    BY <2>1, <2>2, QueueFrame
<1>7. ASSUME NEW r \in Requests, NEW bad \in BOOLEAN, HandleCompletedRequest(r, bad)
      PROVE  QueueInv'
  <2>1. loc[r] = "running"
    BY <1>7 DEF HandleCompletedRequest, BatchInv
  <2>2. loc' = Move({r}, "parked") \/ loc' = Move({r}, "closing")
    BY <1>7 DEF HandleCompletedRequest
  <2> QED
    BY <1>7, <2>1, <2>2, QueueFrame DEF HandleCompletedRequest, Move
<1>8. CASE EndVisit
  <2>1. cur \in 1 .. Len(m_active_request_batches)
    BY <1>8 DEF EndVisit, BatchInv
  <2>2. \A r \in Batch : loc[r] # "pending"
    BY <2>1 DEF Batch, BatchInv
  <2>3. loc' = loc \/ loc' = Move(Batch, "failed")
    BY <1>8 DEF EndVisit
  <2> QED
    BY <1>8, <2>2, <2>3, QueueFrame DEF EndVisit, Move
<1>9. CASE UNCHANGED <<m_pending_requests, loc>>
  BY <1>9, QueueFrame
<1> QED
  <2>1. ASSUME NEW M \in SUBSET At("running"), NEW C \in SUBSET At("running"), Perform(M, C)
        PROVE  UNCHANGED <<m_pending_requests, loc>>
    BY <2>1 DEF Perform, queueVars
  <2> QED
    BY <1>1, <1>2, <1>3, <1>4, <1>5, <1>6, <1>7, <1>8, <1>9, <2>1, ContextSteps
    DEF queueVars, reqVars

\* One step keeps OwnedInv.
LEMMA OwnedStep ==
    ASSUME PhaseInv, BatchInv, OwnedInv, [Next]_vars
    PROVE  OwnedInv'
<1> DEFINE batches == m_active_request_batches
<1>1. CASE /\ UNCHANGED batches
           /\ \A r \in Requests : loc'[r] \in {"running", "parked"} =>
                                    loc[r] \in {"running", "parked"}
  BY <1>1 DEF OwnedInv
<1>2. CASE \/ \E r \in Requests : \/ SubmitRequest(r) \/ RetryFailed(r) \/ FinalCallback(r)
                                  \/ Release(r) \/ CompleteGroupRequest(r)
           \/ \E D \in SUBSET At("pending"), A \in SUBSET At("pending") : ProcessPending(D, A)
           \/ CleanupPendingRequests \/ OpenBatchThrows
           \/ UNCHANGED <<queueVars, reqVars>>
           \/ \E M \in SUBSET At("running"), C \in SUBSET At("running") : Perform(M, C)
  <2>1. UNCHANGED batches
    BY <1>2, Zenon DEF SubmitRequest, RetryFailed, FinalCallback, Release, CompleteGroupRequest,
                ProcessPending, CleanupPendingRequests, OpenBatchThrows, Perform, queueVars
  <2>2. \A r \in Requests : loc'[r] \in {"running", "parked"} => loc[r] \in {"running", "parked"}
    BY <1>2, ZenonT(30) DEF SubmitRequest, RetryFailed, FinalCallback, Release, CompleteGroupRequest,
                ProcessPending, CleanupPendingRequests, OpenBatchThrows, Perform, reqVars, Move
  <2> QED
    BY <1>1, <2>1, <2>2
<1>3. ASSUME NEW F \in SUBSET At("admitted"), OpenBatch(F)
      PROVE  OwnedInv'
  <2> DEFINE new == At("admitted") \ F
  <2>1. CASE At("admitted") = {}
    <3>1. UNCHANGED <<batches, loc>>
      BY <1>3, <2>1 DEF OpenBatch, PhaseInv
    <3> QED
      BY <1>1, <3>1
  <2>2. CASE At("admitted") # {}
    <3>1. /\ batches' = Append(batches, new)
          /\ \A r \in Requests : r \notin new /\ loc'[r] \in {"running", "parked"} =>
               loc[r] \in {"running", "parked"}
      BY <1>3, <2>2 DEF OpenBatch
    <3>2. new \in SUBSET Requests
      BY DEF At
    <3> HIDE DEF new
    <3>3. /\ Len(batches') = Len(batches) + 1 /\ Len(batches) \in Nat
          /\ \A i \in 1 .. Len(batches) : batches'[i] = batches[i]
          /\ batches'[Len(batches) + 1] = new
      BY <3>1, <3>2 DEF BatchInv
    <3>4. ASSUME NEW r \in Requests, loc'[r] \in {"running", "parked"}
          PROVE  \E i \in 1 .. Len(batches') : r \in batches'[i]
      <4>1. CASE r \in new
        BY <3>3, <4>1
      <4>2. CASE r \notin new
        <5>1. PICK i \in 1 .. Len(batches) : r \in batches[i]
          BY <3>1, <3>4, <4>2 DEF OwnedInv
        <5> QED
          BY <3>3, <5>1
      <4> QED
        BY <4>1, <4>2
    <3> QED
      BY <3>4 DEF OwnedInv
  <2> QED
    BY <2>1, <2>2
<1>4. ASSUME NEW r \in Requests, NEW bad \in BOOLEAN, HandleCompletedRequest(r, bad)
      PROVE  OwnedInv'
  <2>1. /\ cur \in 1 .. Len(batches) /\ r \in batches[cur] /\ loc[r] = "running"
        /\ \A q \in Requests : q # r => loc'[q] = loc[q]
    BY <1>4 DEF HandleCompletedRequest, BatchInv, Move
  <2>2. CASE ShouldRetry(r, bad)
    BY <1>1, <1>4, <2>1, <2>2 DEF HandleCompletedRequest, Move
  <2>3. CASE ~ShouldRetry(r, bad)
    <3>1. batches' = [batches EXCEPT ![cur] = @ \ {r}] /\ loc'[r] = "closing"
      BY <1>4, <2>3 DEF HandleCompletedRequest, Move
    <3>2. /\ Len(batches') = Len(batches)
          /\ \A i \in 1 .. Len(batches) :
               batches'[i] = IF i = cur THEN batches[i] \ {r} ELSE batches[i]
      <4> DEFINE x == batches[cur] \ {r}
      <4>1. batches \in Seq(SUBSET Requests) /\ x \in SUBSET Requests
        BY <2>1, SMTT(30) DEF BatchInv
      <4>2. batches' = [batches EXCEPT ![cur] = x]
        BY <3>1
      <4> HIDE DEF batches, x
      <4>3. /\ Len([batches EXCEPT ![cur] = x]) = Len(batches)
            /\ \A i \in 1 .. Len(batches) :
                 [batches EXCEPT ![cur] = x][i] = IF i = cur THEN x ELSE batches[i]
        BY <2>1, <4>1, ExceptElements
      <4>4. /\ Len(batches') = Len(batches)
            /\ \A i \in 1 .. Len(batches) : batches'[i] = IF i = cur THEN x ELSE batches[i]
        BY <4>2, <4>3, Zenon
      <4> QED
        BY <4>4, Zenon DEF x
    <3>3. ASSUME NEW q \in Requests, loc'[q] \in {"running", "parked"}
          PROVE  \E i \in 1 .. Len(batches) : q \in batches'[i]
      <4>1. q # r /\ loc[q] \in {"running", "parked"}
        BY <2>1, <3>1, <3>3
      <4>2. PICK i \in 1 .. Len(batches) : q \in batches[i]
        BY <4>1 DEF OwnedInv
      <4> QED
        BY <3>2, <4>1, <4>2, Zenon
    <3> QED
      BY <3>2, <3>3 DEF OwnedInv
  <2> QED
    BY <2>2, <2>3
<1>5. CASE EndVisit
  <2>1. cur \in 1 .. Len(batches)
    BY <1>5 DEF EndVisit, BatchInv
  <2>2. CASE Transfers = {}
    <3>1. batches' = Erase(batches, cur) /\ loc' = Move(batches[cur], "failed")
      BY <1>5, <2>2 DEF EndVisit, Batch
    <3>2. /\ Len(batches') = Len(batches) - 1 /\ Len(batches) \in Nat
          /\ \A k \in 1 .. Len(batches) - 1 :
               batches'[k] = batches[IF k < cur THEN k ELSE k + 1]
      <4>1. batches \in Seq(SUBSET Requests)
        BY Zenon DEF BatchInv
      <4>2. Len(batches) \in Nat
        BY <4>1
      <4>3. /\ Len(Erase(batches, cur)) = Len(batches) - 1
            /\ \A k \in 1 .. Len(batches) - 1 :
                 Erase(batches, cur)[k] = batches[IF k < cur THEN k ELSE k + 1]
        BY <2>1, <4>1, EraseElements, Zenon
      <4> QED
        BY <3>1, <4>2, <4>3, Zenon
    <3>3. ASSUME NEW q \in Requests, loc'[q] \in {"running", "parked"}
          PROVE  \E k \in 1 .. Len(batches') : q \in batches'[k]
      <4>1. q \notin batches[cur] /\ loc[q] \in {"running", "parked"}
        BY <3>1, <3>3 DEF Move
      <4>2. PICK i \in 1 .. Len(batches) : q \in batches[i]
        BY <4>1 DEF OwnedInv
      <4> DEFINE k == IF i < cur THEN i ELSE i - 1
      <4>3. i # cur
        BY <4>1, <4>2
      <4>4. /\ k \in 1 .. Len(batches) - 1
            /\ i = IF k < cur THEN k ELSE k + 1
        BY <2>1, <3>2, <4>3 DEF BatchInv
      <4> HIDE DEF k
      <4> QED
        BY <3>2, <4>2, <4>4
    <3> QED
      BY <3>3 DEF OwnedInv
  <2>3. CASE Transfers # {}
    BY <1>1, <1>5, <2>3 DEF EndVisit
  <2> QED
    BY <2>2, <2>3
<1>6. CASE TakeCancels
  <2>1. PICK gone :
          /\ loc' = Move(gone, "closing")
          /\ batches' = [i \in DOMAIN batches |-> batches[i] \ gone]
    BY <1>6, Zenon DEF TakeCancels
  <2>2. /\ Len(batches') = Len(batches)
        /\ \A i \in 1 .. Len(batches) : batches'[i] = batches[i] \ gone
    BY <2>1 DEF BatchInv
  <2> QED
    BY <2>1, <2>2, Zenon DEF OwnedInv, Move
<1>7. CASE ClearBatches
  <2>1. \A r \in Requests : loc'[r] \notin {"running", "parked"}
    BY <1>7 DEF ClearBatches
  <2> QED
    BY <2>1 DEF OwnedInv
<1> QED
  BY <1>2, <1>3, <1>4, <1>5, <1>6, <1>7, ContextSteps, Zenon

\* A step that leaves the tokens alone, and starts or finishes no request that may
\* have some.
LEMMA TokenFrame ==
    ASSUME TokenInv, UNCHANGED <<armed, holder>>,
           \A r \in Requests :
             \/ loc'[r] = loc[r]
             \/ loc[r] = "new"
             \/ /\ loc[r] \notin {"new", "rejected", "released", "done"}
                /\ loc'[r] \notin {"new", "rejected", "released", "done"}
             \/ loc[r] = "released" /\ loc'[r] = "done"
    PROVE  TokenInv'
BY Zenon DEF TokenInv

\* One pass over the queue gives each slot to one request at most: to the one that
\* has it already, when there is one.
LEMMA ScanExcludes ==
    ASSUME QueueInv, NEW D, NEW A \in SUBSET At("pending"), IsScan(D, A),
           NEW r \in A, NEW q \in A, NEW s \in SlotsOf[r], s \in SlotsOf[q]
    PROVE  r = q /\ holder[s] \in {NoOne, r}
<1>1. ASSUME NEW x \in A
      PROVE  \E i \in 1 .. Len(m_pending_requests) : m_pending_requests[i] = x
  BY Zenon DEF QueueInv, At
<1>2. PICK i \in 1 .. Len(m_pending_requests) : m_pending_requests[i] = r
  BY <1>1
<1>3. PICK j \in 1 .. Len(m_pending_requests) : m_pending_requests[j] = q
  BY <1>1
<1>4. DOMAIN m_pending_requests = 1 .. Len(m_pending_requests) /\ Len(m_pending_requests) \in Nat
  <2>1. m_pending_requests \in Seq(Requests)
    BY Zenon DEF QueueInv
  <2> QED
    BY <2>1
<1>5. ASSUME NEW k \in 1 .. Len(m_pending_requests), m_pending_requests[k] \in A
      PROVE  /\ \A t \in SlotsOf[m_pending_requests[k]] : FreeFor(t, m_pending_requests[k])
             /\ \A t \in SlotsOf[m_pending_requests[k]] :
                  \A l \in 1 .. k - 1 :
                    m_pending_requests[l] \in A => t \notin SlotsOf[m_pending_requests[l]]
  BY <1>4, <1>5 DEF IsScan
<1>6. i \notin 1 .. j - 1
  BY <1>2, <1>3, <1>5, Zenon
<1>7. j \notin 1 .. i - 1
  BY <1>2, <1>3, <1>5, Zenon
<1>8. i = j
  BY <1>4, <1>6, <1>7
<1> QED
  BY <1>2, <1>3, <1>5, <1>8, Zenon DEF FreeFor

\* One step keeps TokenInv.
LEMMA TokenStep ==
    ASSUME PhaseInv, BatchInv, QueueInv, TokenInv, [Next]_vars
    PROVE  TokenInv'
<1>0. NoOne \notin Requests /\ \A r \in Requests : SlotsOf[r] \subseteq Slots
  BY ManagerAssumption
<1>1. ASSUME NEW D \in SUBSET At("pending"), NEW A \in SUBSET At("pending"),
             ProcessPending(D, A)
      PROVE  TokenInv'
  <2>1. /\ A \subseteq Requests /\ \A r \in A : loc[r] = "pending"
        /\ armed' = armed \cup A
        /\ \A r \in Requests : \/ loc'[r] = loc[r]
                               \/ /\ loc[r] = "pending"
                                  /\ loc'[r] \in {"admitted", "closing"}
        /\ \A r \in A : loc'[r] = "admitted"
    <3>1. A \subseteq Requests /\ \A r \in A : loc[r] = "pending"
      BY DEF At
    <3>2. armed' = armed \cup A
      BY <1>1 DEF ProcessPending, Armed
    <3>3. loc' = [r \in Requests |->
                    CASE r \in A -> "admitted"
                      [] r \in At("pending") \cap NullRequests -> "closing"
                      [] OTHER -> loc[r]]
      BY <1>1 DEF ProcessPending
    <3>4. A \cap NullRequests = {}
      <4>1. \A i \in DOMAIN m_pending_requests :
              m_pending_requests[i] \in A => m_pending_requests[i] \notin NullRequests
        BY <1>1 DEF ProcessPending, IsScan
      <4> QED
        BY <3>1, <4>1 DEF QueueInv
    <3> QED
      BY <3>1, <3>2, <3>3, <3>4 DEF At
  <2>2. /\ holder' = [s \in Slots |-> IF \E r \in A : s \in SlotsOf[r]
                                      THEN CHOOSE r \in A : s \in SlotsOf[r] ELSE holder[s]]
        /\ IsScan(D, A)
    BY <1>1 DEF ProcessPending
  <2>3. ASSUME NEW r \in A, NEW s \in SlotsOf[r]
        PROVE  holder'[s] = r /\ holder[s] \in {NoOne, r} /\ s \in Slots
    <3>1. s \in Slots
      BY <1>0, <2>1
    <3>2. /\ (CHOOSE x \in A : s \in SlotsOf[x]) \in A
          /\ s \in SlotsOf[CHOOSE x \in A : s \in SlotsOf[x]]
      OBVIOUS
    <3>3. (CHOOSE x \in A : s \in SlotsOf[x]) = r /\ holder[s] \in {NoOne, r}
      BY <2>2, <3>2, ScanExcludes
    <3> QED
      BY <2>2, <3>1, <3>3, Zenon
  <2>4. ASSUME NEW s \in Slots, \A r \in A : s \notin SlotsOf[r]
        PROVE  holder'[s] = holder[s]
    BY <2>2, <2>4
  <2>5. holder' \in [Slots -> Requests \cup {NoOne}]
    <3>1. holder' = [s \in Slots |-> holder'[s]]
      BY <2>2
    <3>2. ASSUME NEW s \in Slots
          PROVE  holder'[s] \in Requests \cup {NoOne}
      BY <2>1, <2>3, <2>4 DEF TokenInv
    <3> QED
      BY <3>1, <3>2
  <2>6. ASSUME NEW r \in armed', loc'[r] \notin {"released", "done"}, NEW s \in SlotsOf[r]
        PROVE  holder'[s] = r
    <3>1. CASE r \in A
      BY <2>3, <3>1
    <3>2. CASE r \notin A
      <4>1. r \in armed /\ r \in Requests /\ loc[r] \notin {"released", "done"} /\ s \in Slots
        BY <1>0, <2>1, <2>6, <3>2, Zenon DEF TokenInv
      <4>2. holder[s] = r /\ r # NoOne
        BY <1>0, <4>1, Zenon DEF TokenInv
      <4>3. \A q \in A : s \notin SlotsOf[q]
        BY <2>3, <3>2, <4>2, ZenonT(30)
      <4> QED
        BY <2>4, <4>1, <4>2, <4>3, Zenon
    <3> QED
      BY <3>1, <3>2
  <2>7. ASSUME NEW s \in Slots, holder'[s] # NoOne
        PROVE  holder'[s] \in armed' /\ loc'[holder'[s]] \notin {"released", "done"}
    <3>1. CASE \E r \in A : s \in SlotsOf[r]
      BY <2>1, <2>3, <3>1
    <3>2. CASE \A r \in A : s \notin SlotsOf[r]
      <4>1. /\ holder'[s] = holder[s] /\ holder[s] \in armed /\ holder[s] \in Requests
            /\ loc[holder[s]] \notin {"released", "done"}
        BY <2>4, <2>7, <3>2 DEF TokenInv
      <4> QED
        BY <2>1, <4>1
    <3> QED
      BY <3>1, <3>2
  <2>8. \A r \in armed' : loc'[r] \notin {"new", "rejected"} /\ r \in Requests
    BY <2>1 DEF TokenInv
  <2> QED
    BY <2>5, <2>6, <2>7, <2>8 DEF TokenInv
<1>2. ASSUME NEW r \in Requests, Release(r)
      PROVE  TokenInv'
  <2>1. /\ loc[r] = "answered" /\ loc' = Move({r}, "released") /\ armed' = armed
        /\ holder' = [s \in Slots |-> IF r \in armed /\ holder[s] = r THEN NoOne ELSE holder[s]]
    BY <1>2 DEF Release, ReleaseTokens
  <2> QED
    BY <1>0, <2>1 DEF TokenInv, Move
<1>3. ASSUME NEW r \in Requests, \/ SubmitRequest(r) \/ RetryFailed(r)
                                 \/ FinalCallback(r) \/ CompleteGroupRequest(r)
      PROVE  TokenInv'
  BY <1>3, TokenFrame, Zenon DEF SubmitRequest, RetryFailed, FinalCallback, CompleteGroupRequest, Move
<1>4. CASE \/ \E F \in SUBSET At("admitted") : OpenBatch(F)
           \/ OpenBatchThrows \/ CleanupPendingRequests \/ ClearBatches
  BY <1>4, TokenFrame, Zenon DEF OpenBatch, OpenBatchThrows, CleanupPendingRequests, ClearBatches,
                          Move, At
<1>5. CASE TakeCancels
  BY <1>5, TokenFrame, Zenon DEF TakeCancels, Cancelled, Move, At
<1>6. CASE \/ \E M \in SUBSET At("running"), C \in SUBSET At("running") : Perform(M, C)
           \/ UNCHANGED <<queueVars, reqVars>>
  BY <1>6, TokenFrame DEF Perform, reqVars
<1>7. ASSUME NEW r \in Requests, NEW bad \in BOOLEAN, HandleCompletedRequest(r, bad)
      PROVE  TokenInv'
  <2>1. loc[r] = "running"
    BY <1>7 DEF HandleCompletedRequest, BatchInv
  <2>2. loc' = Move({r}, "parked") \/ loc' = Move({r}, "closing")
    BY <1>7 DEF HandleCompletedRequest
  <2> QED
    BY <1>7, <2>1, <2>2, TokenFrame DEF HandleCompletedRequest, Move
<1>8. CASE EndVisit
  <2>1. cur \in 1 .. Len(m_active_request_batches)
    BY <1>8 DEF EndVisit, BatchInv
  <2>2. \A r \in Batch : loc[r] \in {"running", "parked"}
    BY <2>1 DEF Batch, BatchInv
  <2>3. loc' = loc \/ loc' = Move(Batch, "failed")
    BY <1>8 DEF EndVisit
  <2> QED
    BY <1>8, <2>2, <2>3, TokenFrame DEF EndVisit, Move
<1> QED
  BY <1>1, <1>2, <1>3, <1>4, <1>5, <1>6, <1>7, <1>8, ContextSteps, Zenon

\* One step keeps ChunkInv.
LEMMA ChunkStep ==
    ASSUME PhaseInv, BatchInv, ChunkInv, [Next]_vars
    PROVE  ChunkInv'
<1>1. CASE /\ UNCHANGED chunked
           /\ \A r \in chunked : \/ loc'[r] = loc[r]
                                 \/ loc'[r] \in {"closing", "answered", "released", "done"}
  BY <1>1 DEF ChunkInv
<1>2. ASSUME NEW r \in Requests, \/ SubmitRequest(r) \/ RetryFailed(r) \/ FinalCallback(r)
                                 \/ Release(r) \/ CompleteGroupRequest(r)
      PROVE  ChunkInv'
  BY <1>1, <1>2, Zenon DEF SubmitRequest, RetryFailed, FinalCallback, Release, CompleteGroupRequest,
                    Move, ChunkInv
<1>3. CASE \/ \E F \in SUBSET At("admitted") : OpenBatch(F)
           \/ \E D \in SUBSET At("pending"), A \in SUBSET At("pending") : ProcessPending(D, A)
           \/ OpenBatchThrows \/ CleanupPendingRequests \/ ClearBatches
  BY <1>1, <1>3, ZenonT(30) DEF OpenBatch, ProcessPending, OpenBatchThrows, CleanupPendingRequests,
                    ClearBatches, Move, At, ChunkInv
<1>4. CASE TakeCancels \/ UNCHANGED <<queueVars, reqVars>>
  BY <1>1, <1>4 DEF TakeCancels, Move, reqVars, ChunkInv
<1>5. ASSUME NEW M \in SUBSET At("running"), NEW C \in SUBSET At("running"), Perform(M, C)
      PROVE  ChunkInv'
  BY <1>5 DEF Perform, At, ChunkInv
<1>6. ASSUME NEW r \in Requests, NEW bad \in BOOLEAN, HandleCompletedRequest(r, bad)
      PROVE  ChunkInv'
  <2>1. CASE ShouldRetry(r, bad)
    BY <1>1, <1>6, <2>1, ZenonT(30) DEF HandleCompletedRequest, ShouldRetry, Move, ChunkInv
  <2>2. CASE ~ShouldRetry(r, bad)
    BY <1>1, <1>6, <2>2 DEF HandleCompletedRequest, Move, ChunkInv
  <2> QED
    BY <2>1, <2>2
<1>7. CASE EndVisit
  <2>1. cur \in 1 .. Len(m_active_request_batches)
    BY <1>7 DEF EndVisit, BatchInv
  <2>2. CASE Transfers = {}
    <3>1. \A r \in Batch : loc[r] = "parked"
      BY <2>1, <2>2 DEF Batch, Transfers, At, BatchInv
    <3>2. loc' = Move(Batch, "failed") /\ UNCHANGED chunked
      BY <1>7, <2>2 DEF EndVisit
    <3> QED
      BY <1>1, <3>1, <3>2 DEF Move, ChunkInv
  <2>3. CASE Transfers # {}
    BY <1>1, <1>7, <2>3 DEF EndVisit
  <2> QED
    BY <2>2, <2>3
<1> QED
  BY <1>2, <1>3, <1>4, <1>5, <1>6, <1>7, ContextSteps, Zenon
=============================================================================
