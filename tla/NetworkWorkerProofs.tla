------------------------ MODULE NetworkWorkerProofs ------------------------
(***************************************************************************)
(* NetworkWorker for every set of tasks and requests: tasks may call       *)
(* process(), stop() waits for the thread, and every task runs at most     *)
(* once, and before stop() returns if it was queued in time.               *)
(***************************************************************************)
EXTENDS NetworkWorker, TLAPS

\* The steps of either thread.
Steps ==
    {"none", "wait", "woken", "load", "pending", "lock", "managers", "tasks",
     "run", "after", "nap", "napped", "unloaded", "shutdown", "exit",
     "idle", "flag", "future", "notify", "join", "returned"}

\* Where process_tasks may lead.
LEMMA AfterTasksResult ==
    ASSUME NEW t \in Threads, NEW lists
    PROVE  AfterTasks(t, lists) \in {"run", "after", "exit", "returned"}
BY DEF AfterTasks

-----------------------------------------------------------------------------
(* m_managers_mutex                                                        *)

\* A thread holds m_managers_mutex only while the managers run, and there is no
\* worker before start() has launched it.
MutexInv ==
    /\ pc \in [Threads -> Steps]
    /\ starter \in {"idle", "claimed"} => pc["worker"] = "none"
    /\ \A t \in Threads : m_managers_mutex = t => pc[t] = "managers"

LEMMA MutexStep ==
    ASSUME MutexInv, [Next]_vars, Reentrant \cap Work = {}
    PROVE  MutexInv'
<1> USE DEF MutexInv, Steps, startVars
<1>1. ASSUME NEW t \in Threads, Run(t)
      PROVE  MutexInv'
  <2>1. CASE TakeTasks(t)
    BY <2>1, AfterTasksResult DEF TakeTasks, Goto, Threads
  <2>2. CASE RunTask(t)
    BY <2>2 DEF RunTask, Goto, Threads
  <2>3. CASE TasksDone(t)
    BY <2>3, AfterTasksResult DEF TasksDone, Goto, Threads
  <2>4. CASE LockManagers(t)
    BY <2>4 DEF LockManagers, Goto, Threads
  <2>5. CASE UnlockManagers(t)
    BY <2>5 DEF UnlockManagers, Unlocked, Goto, Threads
  <2>6. ASSUME NEW w \in Work, FinishWork(t, w)
        PROVE  MutexInv'
    BY <2>6 DEF FinishWork, Goto, Threads, lockVars
  <2> QED
    BY <1>1, <2>1, <2>2, <2>3, <2>4, <2>5, <2>6 DEF Run
<1>2. CASE Calls
  BY <1>2 DEF Calls, AddTask, SubmitWork, StartClaim, StopCheck, Goto, Threads, lockVars
<1>3. ASSUME NEW x \in Tasks \cup Work, Notify(x)
      PROVE  MutexInv'
  <2>1. UNCHANGED <<pc, m_managers_mutex, starter>>
    BY <1>3 DEF Notify, lockVars
  <2> QED
    BY <2>1
<1>4. CASE StartLaunch \/ StartAssign
  BY <1>4 DEF StartLaunch, StartAssign, Goto, Threads, lockVars
<1>5. CASE Loop
  BY <1>5 DEF Loop, Wake, TestShutdown, ManagersLoaded, HasPendingTasks, Nap,
              NextStep, Goto, Threads, lockVars
<1>6. CASE Stop
  BY <1>6 DEF Stop, StopFlag, StopFuture, StopNotify, StopJoin, Goto, Threads, lockVars
<1>7. CASE UNCHANGED vars
  BY <1>7 DEF vars
<1> QED
  BY <1>1, <1>2, <1>3, <1>4, <1>5, <1>6, <1>7 DEF Next

\* As long as only tasks, not request callbacks, call back into process(), the
\* worker and the thread in stop() never wait for m_managers_mutex while they
\* hold it: process() has released it when it runs the tasks.
THEOREM TasksMayReenter ==
    ASSUME Reentrant \cap Work = {}
    PROVE  Spec => []NoSelfDeadlock
<1>1. Init => MutexInv
  BY DEF Init, MutexInv, Threads, Steps
<1>2. MutexInv /\ [Next]_vars => MutexInv'
  BY MutexStep
<1>3. MutexInv => NoSelfDeadlock
  BY DEF MutexInv, NoSelfDeadlock
<1> QED
  BY <1>1, <1>2, <1>3, PTL DEF Spec

-----------------------------------------------------------------------------
(* stop()                                                                  *)

\* start() publishes m_is_worker_started before m_future; a stop() that did not
\* overlap it has seen both, and takes the path that joins the thread.
StopInv ==
    /\ pc \in [Threads -> Steps]
    /\ starter \in {"idle", "claimed", "launched", "returned"}
    /\ m_future <=> starter = "returned"
    /\ starter = "idle" => ~m_is_worker_started
    /\ starter \in {"idle", "claimed"} => pc["worker"] = "none"
    /\ pc["stopper"] = "idle" => ~m_shutdown
    /\ ~overlapped =>
         /\ pc["stopper"] \in {"idle", "flag", "future", "notify", "join", "returned"}
         /\ pc["stopper"] \in {"flag", "future"} => m_future
         /\ pc["stopper"] = "returned" /\ m_shutdown => pc["worker"] = "exit"

LEMMA StopStep ==
    ASSUME StopInv, [Next]_vars
    PROVE  StopInv'
<1> USE DEF StopInv, Steps, startVars
<1>1. ASSUME NEW t \in Threads, Run(t)
      PROVE  StopInv'
  <2>1. CASE TakeTasks(t)
    BY <2>1, AfterTasksResult DEF TakeTasks, Goto, Threads
  <2>2. CASE RunTask(t)
    BY <2>2 DEF RunTask, Goto, Threads
  <2>3. CASE TasksDone(t)
    BY <2>3, AfterTasksResult DEF TasksDone, Goto, Threads
  <2>4. CASE LockManagers(t)
    BY <2>4 DEF LockManagers, Goto, Threads
  <2>5. CASE UnlockManagers(t)
    BY <2>5 DEF UnlockManagers, Goto, Threads
  <2>6. ASSUME NEW w \in Work, FinishWork(t, w)
        PROVE  StopInv'
    BY <2>6 DEF FinishWork, Goto, Threads
  <2> QED
    BY <1>1, <2>1, <2>2, <2>3, <2>4, <2>5, <2>6 DEF Run
<1>2. CASE Calls
  <2>1. ASSUME NEW t \in Tasks, AddTask(t)
        PROVE  StopInv'
    BY <2>1 DEF AddTask
  <2>2. ASSUME NEW w \in Work, SubmitWork(w)
        PROVE  StopInv'
    BY <2>2 DEF SubmitWork
  <2>3. CASE StartClaim
    BY <2>3 DEF StartClaim
  <2>4. CASE StopCheck
    BY <2>4, Zenon DEF StopCheck, Goto, Threads
  <2> QED
    BY <1>2, <2>1, <2>2, <2>3, <2>4 DEF Calls
<1>3. ASSUME NEW x \in Tasks \cup Work, Notify(x)
      PROVE  StopInv'
  BY <1>3 DEF Notify
<1>4. CASE StartLaunch \/ StartAssign
  BY <1>4 DEF StartLaunch, StartAssign, Goto, Threads
<1>5. CASE Loop
  BY <1>5 DEF Loop, Wake, TestShutdown, ManagersLoaded, HasPendingTasks, Nap,
              NextStep, Goto, Threads
<1>6. CASE Stop
  BY <1>6 DEF Stop, StopFlag, StopFuture, StopNotify, StopJoin, WorkerExited, Goto, Threads
<1>7. CASE UNCHANGED vars
  BY <1>7 DEF vars
<1> QED
  BY <1>1, <1>2, <1>3, <1>4, <1>5, <1>6, <1>7 DEF Next

\* When a stop() that did not overlap start() has returned, the worker thread is
\* over: stop() found m_future and waited for it.
THEOREM StopJoins == Spec => []StopWaitsForWorker
<1>1. Init => StopInv
  BY DEF Init, StopInv, Threads, Steps
<1>2. StopInv /\ [Next]_vars => StopInv'
  BY StopStep
<1>3. StopInv => StopWaitsForWorker
  BY DEF StopInv, StopWaitsForWorker
<1> QED
  BY <1>1, <1>2, <1>3, PTL DEF Spec

-----------------------------------------------------------------------------
(* Tasks                                                                   *)

\* A task of a list that process_tasks moved out is no longer in m_tasks_list,
\* and has not run.
StackUnused ==
    \A h \in Threads : \A n \in DOMAIN stack[h] : \A i \in DOMAIN stack[h][n] :
        stack[h][n][i] \notin Queued /\ runs[stack[h][n][i]] = 0

\* It is in one of those lists only, and once.
StackDistinct ==
    \A h \in Threads : \A n \in DOMAIN stack[h] : \A i \in DOMAIN stack[h][n] :
        \A g \in Threads : \A k \in DOMAIN stack[g] : \A j \in DOMAIN stack[g][k] :
            stack[h][n][i] = stack[g][k][j] => h = g /\ n = k /\ i = j

\* A task is in one place: once in m_tasks_list, or once in one of the lists
\* that process_tasks moved out, or it has run.
OnePlace ==
    /\ m_tasks_list \in Seq(Tasks)
    /\ stack \in [Threads -> Seq(Seq(Tasks))]
    /\ runs \in [Tasks -> Nat]
    /\ \A t \in Tasks : runs[t] <= 1
    /\ \A i, j \in DOMAIN m_tasks_list : m_tasks_list[i] = m_tasks_list[j] => i = j
    /\ \A i \in DOMAIN m_tasks_list : runs[m_tasks_list[i]] = 0
    /\ StackUnused
    /\ StackDistinct

\* The worker enters shutdown() only after stop() has set m_shutdown, and leaves
\* it only after a process_tasks that found every task queued by then.
EarlyInv ==
    /\ early \subseteq Submitted
    /\ ~m_shutdown => early = {}
    /\ pc["stopper"] \in {"idle", "flag"} => ~m_shutdown
    /\ pc["stopper"] = "idle" => ~overlapped
    /\ pc["worker"] = "shutdown" \/ "worker" \in leaving => m_shutdown
    /\ pc["worker"] = "exit" => "worker" \in leaving /\ stack["worker"] = <<>>
    /\ "worker" \in leaving /\ pc["worker"] \in {"run", "exit"} => early \cap Queued = {}
    /\ ~overlapped => stack["stopper"] = <<>>
    /\ \A h \in Threads : pc[h] = "run" => stack[h] # <<>>

TasksInv == StopInv /\ OnePlace /\ EarlyInv

\* What Append makes of a sequence.
LEMMA AppendShape ==
    ASSUME NEW S, NEW s \in Seq(S), NEW x \in S
    PROVE  /\ Append(s, x) \in Seq(S)
           /\ DOMAIN Append(s, x) = 1 .. (Len(s) + 1)
           /\ \A n \in 1 .. Len(s) : Append(s, x)[n] = s[n]
           /\ Append(s, x)[Len(s) + 1] = x
OBVIOUS

\* What is left of a sequence without its last element.
LEMMA FrontShape ==
    ASSUME NEW S, NEW s \in Seq(S), Len(s) # 0
    PROVE  /\ SubSeq(s, 1, Len(s) - 1) \in Seq(S)
           /\ Len(SubSeq(s, 1, Len(s) - 1)) = Len(s) - 1
           /\ \A n \in 1 .. (Len(s) - 1) : SubSeq(s, 1, Len(s) - 1)[n] = s[n]
<1> DEFINE m == Len(s) - 1
<1>1. m \in Nat /\ m <= Len(s) /\ 1 .. m \subseteq 1 .. Len(s)
  OBVIOUS
<1> HIDE DEF m
<1>2. SubSeq(s, 1, m) \in Seq(S)
  BY <1>1
<1>3. Len(SubSeq(s, 1, m)) = m
  BY <1>1
<1>4. \A n \in 1 .. m : SubSeq(s, 1, m)[n] = s[n]
  BY <1>1
<1> QED
  BY <1>2, <1>3, <1>4 DEF m

\* The tasks of the moved lists.
StackedIn(lists) ==
    UNION {UNION {Range(lists[h][n]) : n \in DOMAIN lists[h]} : h \in Threads}

LEMMA StackedElements ==
    ASSUME NEW lists, NEW x
    PROVE  x \in StackedIn(lists)
             <=> \E h \in Threads : \E n \in DOMAIN lists[h] : x \in Range(lists[h][n])
BY DEF StackedIn

LEMMA SubmittedParts ==
    /\ Submitted = {t \in Tasks : runs[t] # 0} \cup Queued \cup StackedIn(stack)
    /\ Submitted' = {t \in Tasks : runs'[t] # 0} \cup Queued' \cup StackedIn(stack')
BY Zenon DEF Submitted, Stacked, StackedIn

\* A task of a moved list is nowhere else.
LEMMA StackEntry ==
    ASSUME OnePlace, NEW h \in Threads, NEW n \in DOMAIN stack[h],
           NEW i \in DOMAIN stack[h][n]
    PROVE  stack[h][n][i] \notin Queued /\ runs[stack[h][n][i]] = 0
BY DEF OnePlace, StackUnused

LEMMA OneEntry ==
    ASSUME OnePlace,
           NEW h \in Threads, NEW n \in DOMAIN stack[h], NEW i \in DOMAIN stack[h][n],
           NEW g \in Threads, NEW k \in DOMAIN stack[g], NEW j \in DOMAIN stack[g][k],
           stack[h][n][i] = stack[g][k][j]
    PROVE  h = g /\ n = k /\ i = j
BY DEF OnePlace, StackDistinct

\* A step that moves no task keeps every task in its place.
LEMMA PlaceFrame ==
    ASSUME OnePlace, UNCHANGED <<m_tasks_list, stack, runs>>
    PROVE  OnePlace' /\ Queued' = Queued /\ Submitted' = Submitted
BY DEF OnePlace, StackUnused, StackDistinct, Queued, Submitted, Stacked

\* add_task puts a new task in m_tasks_list.
LEMMA AddPlace ==
    ASSUME OnePlace, NEW t \in Tasks, AddTask(t)
    PROVE  /\ OnePlace' /\ Queued' = Queued \cup {t}
           /\ Submitted' = Submitted \cup {t} /\ t \notin Submitted
<1> DEFINE L == Len(m_tasks_list)
<1>1. /\ m_tasks_list \in Seq(Tasks) /\ L \in Nat /\ DOMAIN m_tasks_list = 1 .. L
      /\ m_tasks_list' = Append(m_tasks_list, t)
      /\ stack' = stack /\ runs' = runs /\ t \notin Submitted
  BY DEF OnePlace, AddTask, loadVars, lockVars
<1>2. /\ m_tasks_list' \in Seq(Tasks) /\ DOMAIN m_tasks_list' = 1 .. (L + 1)
      /\ \A i \in 1 .. L : m_tasks_list'[i] = m_tasks_list[i]
      /\ m_tasks_list'[L + 1] = t
  BY <1>1
<1>3. /\ \A i \in 1 .. L : m_tasks_list[i] # t
      /\ runs[t] = 0
      /\ \A h \in Threads : \A n \in DOMAIN stack[h] : \A i \in DOMAIN stack[h][n] :
            stack[h][n][i] # t
  BY <1>1 DEF Submitted, Queued, Stacked, Range
<1> HIDE DEF L
<1>4. Queued' = Queued \cup {t}
  BY <1>1, <1>2 DEF Queued, Range
<1>5. Submitted' = Submitted \cup {t}
  BY <1>1, <1>4 DEF Submitted, Stacked
<1>6. \A i, j \in DOMAIN m_tasks_list' : m_tasks_list'[i] = m_tasks_list'[j] => i = j
  BY <1>1, <1>2, <1>3 DEF OnePlace
<1>7. \A i \in DOMAIN m_tasks_list' : runs'[m_tasks_list'[i]] = 0
  BY <1>1, <1>2, <1>3 DEF OnePlace
<1>8. \A h \in Threads : \A n \in DOMAIN stack'[h] : \A i \in DOMAIN stack'[h][n] :
         stack'[h][n][i] \notin Queued' /\ runs'[stack'[h][n][i]] = 0
  BY <1>1, <1>3, <1>4, StackEntry
<1>9. StackUnused' /\ StackDistinct'
  BY <1>1, <1>8 DEF OnePlace, StackUnused, StackDistinct
<1> QED
  BY <1>1, <1>2, <1>4, <1>5, <1>6, <1>7, <1>9 DEF OnePlace

\* process_tasks moves the whole list to the stack of its thread.
LEMMA TakePlace ==
    ASSUME OnePlace, NEW t \in Threads, TakeTasks(t)
    PROVE  /\ OnePlace' /\ Queued' = {} /\ Submitted' = Submitted
<1> DEFINE q == m_tasks_list
           s == stack[t]
           L == Len(s)
<1>1. /\ q \in Seq(Tasks) /\ s \in Seq(Seq(Tasks)) /\ L \in Nat /\ DOMAIN s = 1 .. L
      /\ m_tasks_list' = <<>> /\ runs' = runs
      /\ stack' = [stack EXCEPT ![t] = IF q = <<>> THEN s ELSE Append(s, q)]
      /\ stack \in [Threads -> Seq(Seq(Tasks))]
  BY DEF OnePlace, TakeTasks, MovedList
<1>2. Queued' = {}
  BY <1>1 DEF Queued, Range
<1>3. CASE q = <<>>
  <2>1. stack' = stack
    BY <1>1, <1>3
  <2> QED
    BY <1>1, <1>2, <1>3, <2>1, PlaceFrame
<1>4. CASE q # <<>>
  <2>1. /\ stack' \in [Threads -> Seq(Seq(Tasks))]
        /\ stack'[t] = Append(s, q)
        /\ \A h \in Threads : h # t => stack'[h] = stack[h]
    BY <1>1, <1>4
  <2>2. /\ DOMAIN stack'[t] = 1 .. (L + 1)
        /\ \A n \in 1 .. L : stack'[t][n] = s[n]
        /\ stack'[t][L + 1] = q
    <3>1. s \in Seq(Seq(Tasks)) /\ q \in Seq(Tasks) /\ stack'[t] = Append(s, q)
      BY <1>1, <2>1
    <3> HIDE DEF s, q
    <3>2. /\ DOMAIN Append(s, q) = 1 .. (Len(s) + 1)
          /\ \A n \in 1 .. Len(s) : Append(s, q)[n] = s[n]
          /\ Append(s, q)[Len(s) + 1] = q
      BY <3>1, AppendShape
    <3> QED
      BY <3>1, <3>2, Zenon DEF L
  <2> DEFINE New(h, n) == h = t /\ n = L + 1
  <2>3. ASSUME NEW h \in Threads, NEW n \in DOMAIN stack'[h], ~New(h, n)
        PROVE  n \in DOMAIN stack[h] /\ stack'[h][n] = stack[h][n]
    <3>1. CASE h # t
      BY <2>1, <3>1
    <3>2. CASE h = t
      <4>1. n \in 1 .. L
        <5> HIDE DEF L
        <5> QED
          BY <1>1, <2>2, <2>3, <3>2
      <4> QED
        BY <1>1, <2>2, <3>2, <4>1
    <3> QED
      BY <3>1, <3>2
  <2>4. ASSUME NEW h \in Threads, NEW n \in DOMAIN stack'[h], New(h, n)
        PROVE  stack'[h][n] = q
    BY <2>2, <2>4
  <2>5. ASSUME NEW h \in Threads, NEW n \in DOMAIN stack[h]
        PROVE  n \in DOMAIN stack'[h] /\ stack'[h][n] = stack[h][n]
    <3>1. CASE h # t
      BY <2>1, <3>1
    <3>2. CASE h = t
      <4> HIDE DEF L
      <4> QED
        BY <1>1, <2>2, <3>2
    <3> QED
      BY <3>1, <3>2
  <2>6. L + 1 \in DOMAIN stack'[t]
    <3> HIDE DEF L
    <3> QED
      BY <1>1, <2>2
  <2>7. Submitted' = Submitted
    <3>1. StackedIn(stack') = StackedIn(stack) \cup Queued
      <4>1. ASSUME NEW h \in Threads, NEW n \in DOMAIN stack'[h], NEW x \in Range(stack'[h][n])
            PROVE  x \in StackedIn(stack) \cup Queued
        BY <2>3, <2>4, <4>1, StackedElements DEF Queued
      <4>2. ASSUME NEW h \in Threads, NEW n \in DOMAIN stack[h], NEW x \in Range(stack[h][n])
            PROVE  x \in StackedIn(stack')
        BY <2>5, <4>2, StackedElements
      <4>3. ASSUME NEW x \in Queued
            PROVE  x \in StackedIn(stack')
        BY <2>2, <2>6, <4>3, StackedElements DEF Queued
      <4> QED
        BY <4>1, <4>2, <4>3, StackedElements
    <3> QED
      BY <1>1, <1>2, <3>1, SubmittedParts
  <2>8. \A i \in DOMAIN q : q[i] \in Queued /\ runs[q[i]] = 0
    BY Zenon DEF OnePlace, Queued, Range
  <2>9. ASSUME NEW h \in Threads, NEW n \in DOMAIN stack'[h], NEW i \in DOMAIN stack'[h][n]
        PROVE  runs[stack'[h][n][i]] = 0
    <3>1. CASE New(h, n)
      BY <2>4, <2>8, <2>9, <3>1
    <3>2. CASE ~New(h, n)
      <4>1. n \in DOMAIN stack[h] /\ stack'[h][n] = stack[h][n]
        BY <2>3, <2>9, <3>2
      <4> QED
        BY <2>9, <4>1, StackEntry
    <3> QED
      BY <3>1, <3>2
  <2>10. ASSUME NEW h \in Threads, NEW n \in DOMAIN stack'[h], NEW i \in DOMAIN stack'[h][n],
                NEW g \in Threads, NEW k \in DOMAIN stack'[g], NEW j \in DOMAIN stack'[g][k],
                stack'[h][n][i] = stack'[g][k][j]
         PROVE  h = g /\ n = k /\ i = j
    <3> HIDE DEF q, L, s
    <3>1. CASE New(h, n) /\ New(g, k)
      <4>1. \A a, b \in DOMAIN q : q[a] = q[b] => a = b
        BY DEF OnePlace, q
      <4> QED
        BY <2>4, <2>10, <3>1, <4>1
    <3>2. CASE New(h, n) /\ ~New(g, k)
      BY <2>3, <2>4, <2>8, <2>10, <3>2, StackEntry
    <3>3. CASE ~New(h, n) /\ New(g, k)
      BY <2>3, <2>4, <2>8, <2>10, <3>3, StackEntry
    <3>4. CASE ~New(h, n) /\ ~New(g, k)
      BY <2>3, <2>10, <3>4, OneEntry
    <3> QED
      BY <3>1, <3>2, <3>3, <3>4
  <2>11. DOMAIN m_tasks_list' = {} /\ m_tasks_list' \in Seq(Tasks)
    BY <1>1
  <2>12. StackUnused'
    BY <1>1, <1>2, <2>9 DEF StackUnused
  <2>13. StackDistinct'
    BY <2>10 DEF StackDistinct
  <2> QED
    BY <1>1, <1>2, <2>1, <2>7, <2>11, <2>12, <2>13 DEF OnePlace
<1> QED
  BY <1>3, <1>4

\* A task that runs leaves the innermost list of its thread.
LEMMA RunPlace ==
    ASSUME OnePlace, NEW t \in Threads, RunTask(t), stack[t] # <<>>
    PROVE  OnePlace' /\ Queued' = Queued /\ Submitted \subseteq Submitted'
<1> DEFINE s == stack[t]
           L == Len(s)
           top == s[L]
           x == Head(top)
           shift(h, n) == IF h = t /\ n = L THEN 1 ELSE 0
<1>1. /\ s \in Seq(Seq(Tasks)) /\ L \in Nat /\ L # 0 /\ DOMAIN s = 1 .. L
      /\ m_tasks_list' = m_tasks_list /\ top # <<>>
      /\ runs' = [runs EXCEPT ![x] = @ + 1]
      /\ stack' = [stack EXCEPT ![t][L] = Tail(top)]
      /\ stack \in [Threads -> Seq(Seq(Tasks))] /\ runs \in [Tasks -> Nat]
  BY DEF OnePlace, RunTask, Innermost
<1>2. L \in 1 .. L /\ top \in Seq(Tasks)
  <2> HIDE DEF s
  <2> QED
    BY <1>1
<1>3. /\ Len(top) \in Nat /\ Len(top) # 0 /\ DOMAIN top = 1 .. Len(top)
      /\ x = top[1] /\ x \in Tasks /\ 1 \in DOMAIN top
      /\ Tail(top) \in Seq(Tasks) /\ DOMAIN Tail(top) = 1 .. (Len(top) - 1)
      /\ \A i \in 1 .. (Len(top) - 1) : Tail(top)[i] = top[i + 1]
  <2> HIDE DEF s, top
  <2> QED
    BY <1>1, <1>2
<1>4. L \in DOMAIN stack[t] /\ 1 \in DOMAIN stack[t][L] /\ x = stack[t][L][1]
  BY <1>1, <1>2, <1>3
<1>9. runs[x] = 0 /\ x \notin Queued
  BY <1>4, StackEntry
<1>5. /\ runs' \in [Tasks -> Nat] /\ runs'[x] = 1
      /\ \A y \in Tasks : y # x => runs'[y] = runs[y]
  <2> HIDE DEF x
  <2> QED
    BY <1>1, <1>3, <1>9
<1>6. /\ stack' \in [Threads -> Seq(Seq(Tasks))]
      /\ \A h \in Threads : DOMAIN stack'[h] = DOMAIN stack[h]
      /\ \A h \in Threads : \A n \in DOMAIN stack[h] :
            stack'[h][n] = IF h = t /\ n = L THEN Tail(top) ELSE stack[h][n]
  <2>1. [s EXCEPT ![L] = Tail(top)] \in Seq(Seq(Tasks))
    <3> HIDE DEF s, top
    <3> QED
      BY <1>1, <1>2, <1>3
  <2>2. stack' = [stack EXCEPT ![t] = [s EXCEPT ![L] = Tail(top)]]
    BY <1>1
  <2> HIDE DEF L, top
  <2> QED
    BY <1>1, <2>1, <2>2, SMTT(30)
<1>7. ASSUME NEW h \in Threads, NEW n \in DOMAIN stack'[h], NEW i \in DOMAIN stack'[h][n]
      PROVE  /\ n \in DOMAIN stack[h] /\ i \in Nat
             /\ i + shift(h, n) \in DOMAIN stack[h][n]
             /\ stack'[h][n][i] = stack[h][n][i + shift(h, n)]
             /\ stack'[h][n][i] # x
  <2>1. n \in DOMAIN stack[h]
    BY <1>6, <1>7
  <2>2. CASE h = t /\ n = L
    <3>1. stack'[h][n] = Tail(top) /\ stack[h][n] = top /\ shift(h, n) = 1
      BY <1>6, <2>1, <2>2
    <3>2. /\ i \in Nat /\ i + 1 \in DOMAIN top /\ i + 1 # 1
          /\ stack'[h][n][i] = top[i + 1]
      <4> HIDE DEF top, L
      <4> QED
        BY <1>3, <1>7, <3>1
    <3>3. top[i + 1] # x
      <4>1. n \in DOMAIN stack[h] /\ i + 1 \in DOMAIN stack[h][n]
            /\ top[i + 1] = stack[h][n][i + 1]
        BY <2>1, <3>1, <3>2
      <4> HIDE DEF top, L, x
      <4> QED
        BY <1>4, <3>2, <4>1, OneEntry
    <3> QED
      BY <2>1, <3>1, <3>2, <3>3
  <2>3. CASE ~(h = t /\ n = L)
    <3>1. stack'[h][n] = stack[h][n] /\ shift(h, n) = 0
      BY <1>6, <2>1, <2>3
    <3>2. stack[h] \in Seq(Seq(Tasks)) /\ stack[h][n] \in Seq(Tasks)
      BY <1>1, <2>1
    <3>3. i \in Nat /\ i + 0 = i
      BY <1>7, <3>1, <3>2
    <3>4. i \in DOMAIN stack[h][n]
      BY <1>7, <3>1
    <3>5. stack[h][n][i] # x
      <4> HIDE DEF L, x
      <4> QED
        BY <1>4, <2>1, <2>3, <3>4, OneEntry
    <3> QED
      BY <2>1, <3>1, <3>3, <3>4, <3>5
  <2> QED
    BY <2>2, <2>3
<1>8. Queued' = Queued
  BY <1>1 DEF Queued
<1>10. \A i \in DOMAIN m_tasks_list : runs'[m_tasks_list[i]] = 0
  <2> HIDE DEF x
  <2> QED
    BY <1>5, <1>9 DEF OnePlace, Queued, Range
<1>11. Submitted \subseteq Submitted'
  <2>1. StackedIn(stack) \subseteq StackedIn(stack') \cup {x}
    <3> SUFFICES ASSUME NEW h \in Threads, NEW n \in DOMAIN stack[h],
                        NEW i \in DOMAIN stack[h][n], stack[h][n][i] # x
                 PROVE  stack[h][n][i] \in Range(stack'[h][n]) /\ n \in DOMAIN stack'[h]
      BY StackedElements DEF Range
    <3>1. CASE h = t /\ n = L
      <4>1. stack'[h][n] = Tail(top) /\ stack[h][n] = top
        BY <1>6, <3>1
      <4>2. i - 1 \in DOMAIN Tail(top) /\ Tail(top)[i - 1] = top[i]
        <5> HIDE DEF top, L
        <5> QED
          BY <1>3, <4>1
      <4> QED
        BY <1>6, <4>1, <4>2, ZenonT(30) DEF Range
    <3>2. CASE ~(h = t /\ n = L)
      BY <1>6, <3>2 DEF Range
    <3> QED
      BY <3>1, <3>2
  <2>2. {y \in Tasks : runs[y] # 0} \cup {x} \subseteq {y \in Tasks : runs'[y] # 0}
    <3> HIDE DEF x
    <3> QED
      BY <1>3, <1>5
  <2> HIDE DEF x
  <2> QED
    BY <1>8, <2>1, <2>2, SubmittedParts
<1>12. ASSUME NEW h \in Threads, NEW n \in DOMAIN stack'[h], NEW i \in DOMAIN stack'[h][n]
       PROVE  /\ stack'[h][n][i] \notin Queued'
              /\ runs'[stack'[h][n][i]] = 0
  <2>1. stack'[h][n][i] \notin Queued /\ runs[stack'[h][n][i]] = 0
    BY <1>7, <1>12, StackEntry
  <2>2. stack'[h][n][i] \in Tasks
    BY <1>6, <1>12
  <2> HIDE DEF x
  <2> QED
    BY <1>5, <1>7, <1>8, <1>12, <2>1, <2>2
<1>13. ASSUME NEW h \in Threads, NEW n \in DOMAIN stack'[h], NEW i \in DOMAIN stack'[h][n],
              NEW g \in Threads, NEW k \in DOMAIN stack'[g], NEW j \in DOMAIN stack'[g][k],
              stack'[h][n][i] = stack'[g][k][j]
       PROVE  h = g /\ n = k /\ i = j
  <2>1. /\ n \in DOMAIN stack[h] /\ i \in Nat
        /\ i + shift(h, n) \in DOMAIN stack[h][n]
        /\ stack'[h][n][i] = stack[h][n][i + shift(h, n)]
    BY <1>7, <1>13
  <2>2. /\ k \in DOMAIN stack[g] /\ j \in Nat
        /\ j + shift(g, k) \in DOMAIN stack[g][k]
        /\ stack'[g][k][j] = stack[g][k][j + shift(g, k)]
    BY <1>7, <1>13
  <2> HIDE DEF shift
  <2>3. h = g /\ n = k /\ i + shift(h, n) = j + shift(g, k)
    <3> DEFINE a == i + shift(h, n)
               b == j + shift(g, k)
    <3>1. /\ n \in DOMAIN stack[h] /\ a \in DOMAIN stack[h][n]
          /\ k \in DOMAIN stack[g] /\ b \in DOMAIN stack[g][k]
          /\ stack[h][n][a] = stack[g][k][b]
      BY <1>13, <2>1, <2>2, Zenon
    <3> HIDE DEF a, b
    <3>2. h = g /\ n = k /\ a = b
      BY <1>13, <3>1, OneEntry
    <3> QED
      BY <3>2 DEF a, b
  <2>4. shift(h, n) \in Nat
    BY DEF shift
  <2> QED
    BY <2>1, <2>2, <2>3, <2>4
<1>14. /\ \A y \in Tasks : runs[y] <= 1
       /\ m_tasks_list \in Seq(Tasks)
       /\ \A i, j \in DOMAIN m_tasks_list : m_tasks_list[i] = m_tasks_list[j] => i = j
  BY Zenon DEF OnePlace
<1> HIDE DEF x, L
<1>15. \A y \in Tasks : runs'[y] <= 1
  BY <1>3, <1>5, <1>14, SMTT(30)
<1>16. StackUnused'
  BY <1>12 DEF StackUnused
<1>17. StackDistinct'
  BY <1>13 DEF StackDistinct
<1>18. OnePlace'
  BY <1>1, <1>5, <1>6, <1>10, <1>14, <1>15, <1>16, <1>17 DEF OnePlace
<1> QED
  BY <1>8, <1>11, <1>18

\* A list that has been run is dropped.
LEMMA DonePlace ==
    ASSUME OnePlace, NEW t \in Threads, TasksDone(t), stack[t] # <<>>
    PROVE  OnePlace' /\ Queued' = Queued /\ Submitted \subseteq Submitted'
<1> DEFINE s == stack[t]
           L == Len(s)
           outer == SubSeq(s, 1, L - 1)
<1>1. /\ s \in Seq(Seq(Tasks)) /\ L \in Nat /\ L # 0 /\ DOMAIN s = 1 .. L
      /\ m_tasks_list' = m_tasks_list /\ runs' = runs /\ s[L] = <<>>
      /\ stack' = [stack EXCEPT ![t] = outer]
      /\ stack \in [Threads -> Seq(Seq(Tasks))]
  BY DEF OnePlace, TasksDone, Innermost, loadVars
<1>2. /\ outer \in Seq(Seq(Tasks)) /\ DOMAIN outer = 1 .. (L - 1)
      /\ \A n \in 1 .. (L - 1) : n \in 1 .. L /\ n # L /\ outer[n] = s[n]
      /\ \A n \in 1 .. L : n # L => n \in 1 .. (L - 1)
  <2> HIDE DEF s
  <2>1. L - 1 \in Nat /\ 1 .. (L - 1) \subseteq 1 .. L
    BY <1>1
  <2>2. /\ outer \in Seq(Seq(Tasks)) /\ Len(outer) = L - 1
        /\ \A n \in 1 .. (L - 1) : outer[n] = s[n]
    BY <1>1, FrontShape, Zenon
  <2> HIDE DEF outer, L
  <2> QED
    BY <1>1, <2>1, <2>2
<1>3. /\ stack' \in [Threads -> Seq(Seq(Tasks))]
      /\ stack'[t] = outer /\ \A h \in Threads : h # t => stack'[h] = stack[h]
  <2> HIDE DEF outer
  <2> QED
    BY <1>1, <1>2, Zenon
<1>4. ASSUME NEW h \in Threads, NEW n \in DOMAIN stack'[h]
      PROVE  n \in DOMAIN stack[h] /\ stack'[h][n] = stack[h][n]
  <2> HIDE DEF outer, L
  <2> QED
    BY <1>1, <1>2, <1>3, <1>4
<1>5. ASSUME NEW h \in Threads, NEW n \in DOMAIN stack[h], NEW i \in DOMAIN stack[h][n]
      PROVE  n \in DOMAIN stack'[h]
  <2>1. DOMAIN <<>> = {}
    OBVIOUS
  <2> HIDE DEF outer, L
  <2> QED
    BY <1>1, <1>2, <1>3, <1>5, <2>1, Zenon
<1>6. Queued' = Queued
  BY <1>1 DEF Queued
<1>7. Submitted \subseteq Submitted'
  <2>1. StackedIn(stack) \subseteq StackedIn(stack')
    BY <1>4, <1>5, StackedElements DEF Range
  <2> QED
    BY <1>1, <1>6, <2>1, SubmittedParts, Zenon
<1>8. /\ \A y \in Tasks : runs[y] <= 1
      /\ m_tasks_list \in Seq(Tasks) /\ runs \in [Tasks -> Nat]
      /\ \A i, j \in DOMAIN m_tasks_list : m_tasks_list[i] = m_tasks_list[j] => i = j
      /\ \A i \in DOMAIN m_tasks_list : runs[m_tasks_list[i]] = 0
  BY Zenon DEF OnePlace
<1>9. ASSUME NEW h \in Threads, NEW n \in DOMAIN stack'[h], NEW i \in DOMAIN stack'[h][n]
      PROVE  /\ stack'[h][n][i] \notin Queued'
             /\ runs'[stack'[h][n][i]] = 0
  BY <1>1, <1>4, <1>6, <1>9, StackEntry, SMTT(30)
<1>10. ASSUME NEW h \in Threads, NEW n \in DOMAIN stack'[h], NEW i \in DOMAIN stack'[h][n],
              NEW g \in Threads, NEW k \in DOMAIN stack'[g], NEW j \in DOMAIN stack'[g][k],
              stack'[h][n][i] = stack'[g][k][j]
       PROVE  h = g /\ n = k /\ i = j
  BY <1>4, <1>10, OneEntry
<1> HIDE DEF outer
<1>11. StackUnused'
  BY <1>9 DEF StackUnused
<1>12. StackDistinct'
  BY <1>10 DEF StackDistinct
<1> QED
  BY <1>1, <1>3, <1>6, <1>7, <1>8, <1>11, <1>12 DEF OnePlace

LEMMA TasksStep ==
    ASSUME TasksInv, [Next]_vars
    PROVE  TasksInv'
<1> USE DEF startVars, loadVars, lockVars
<1>1. StopInv' /\ StopInv /\ OnePlace /\ EarlyInv
  BY StopStep DEF TasksInv
<1>2. pc \in [Threads -> Steps] /\ Threads = {"worker", "stopper"}
  BY <1>1 DEF StopInv, Threads
<1>3. ASSUME NEW t \in Threads, TakeTasks(t)
      PROVE  OnePlace' /\ EarlyInv'
  <2> DEFINE lists == IF m_tasks_list = <<>> THEN stack[t] ELSE Append(stack[t], m_tasks_list)
  <2>1. OnePlace' /\ Queued' = {} /\ Submitted' = Submitted
    BY <1>1, <1>3, TakePlace
  <2>2. /\ pc[t] = "tasks" /\ pc' = [pc EXCEPT ![t] = AfterTasks(t, lists)]
        /\ stack' = [stack EXCEPT ![t] = lists]
        /\ UNCHANGED <<m_shutdown, early, leaving, overlapped>>
    BY <1>3 DEF TakeTasks, Goto
  <2>3. stack \in [Threads -> Seq(Seq(Tasks))]
    BY <1>1 DEF OnePlace
  <2> HIDE DEF lists
  <2>4. /\ stack'[t] = lists /\ pc'[t] = AfterTasks(t, lists)
        /\ \A h \in Threads : h # t => stack'[h] = stack[h] /\ pc'[h] = pc[h]
    BY <1>2, <2>2, <2>3
  <2>5. /\ AfterTasks(t, lists) = "run" => lists # <<>>
        /\ AfterTasks(t, lists) = "exit" => lists = <<>> /\ t \in leaving
        /\ AfterTasks(t, lists) \notin {"idle", "flag", "shutdown"}
    BY DEF AfterTasks
  <2>6. ~overlapped => t = "worker"
    BY <1>1, <1>2, <2>2 DEF StopInv
  <2>7. EarlyInv'
    BY <1>1, <1>2, <2>1, <2>2, <2>4, <2>5, <2>6 DEF EarlyInv
  <2> QED
    BY <2>1, <2>7
<1>4. ASSUME NEW t \in Threads, RunTask(t)
      PROVE  OnePlace' /\ EarlyInv'
  <2>1. pc[t] = "run" /\ stack[t] # <<>>
    BY <1>1, <1>4 DEF RunTask, EarlyInv
  <2>2. OnePlace' /\ Queued' = Queued /\ Submitted \subseteq Submitted'
    BY <1>1, <1>4, <2>1, RunPlace
  <2>3. /\ stack' = [stack EXCEPT ![t][Len(stack[t])] = Tail(Innermost(t))]
        /\ UNCHANGED <<m_shutdown, early, leaving, overlapped>>
    BY <1>4, Zenon DEF RunTask, Innermost
  <2>4. stack \in [Threads -> Seq(Seq(Tasks))]
    BY <1>1 DEF OnePlace
  <2>5. /\ \A h \in Threads : stack'[h] = <<>> => stack[h] = <<>>
        /\ \A h \in Threads : h # t => stack'[h] = stack[h]
    <3>1. stack'[t] = [stack[t] EXCEPT ![Len(stack[t])] = Tail(Innermost(t))]
          /\ \A h \in Threads : h # t => stack'[h] = stack[h]
      BY <2>3, <2>4
    <3>2. stack[t] \in Seq(Seq(Tasks)) /\ Len(stack[t]) # 0
      BY <2>1, <2>4
    <3>4. 1 \in DOMAIN stack[t]
      BY <3>2
    <3>5. DOMAIN <<>> = {}
      OBVIOUS
    <3>3. DOMAIN stack'[t] = DOMAIN stack[t] /\ DOMAIN stack[t] # {} /\ DOMAIN <<>> = {}
      BY <3>1, <3>4, <3>5
    <3> QED
      BY <3>1, <3>3
  <2>6. \A h \in Threads : h # t => pc'[h] = pc[h]
    BY <1>2, <1>4 DEF RunTask, Goto
  <2>7. pc'[t] = "run" \/ pc'[t] = "lock"
    BY <1>2, <1>4 DEF RunTask, Goto
  <2>8. ~overlapped => t = "worker"
    BY <1>1, <1>2, <2>1 DEF StopInv
  <2>9. EarlyInv'
    BY <1>1, <1>2, <2>1, <2>2, <2>3, <2>5, <2>6, <2>7, <2>8 DEF EarlyInv
  <2> QED
    BY <2>2, <2>9
<1>5. ASSUME NEW t \in Threads, TasksDone(t)
      PROVE  OnePlace' /\ EarlyInv'
  <2> DEFINE outer == SubSeq(stack[t], 1, Len(stack[t]) - 1)
  <2>1. pc[t] = "run" /\ stack[t] # <<>>
    BY <1>1, <1>5 DEF TasksDone, EarlyInv
  <2>2. OnePlace' /\ Queued' = Queued /\ Submitted \subseteq Submitted'
    BY <1>1, <1>5, <2>1, DonePlace
  <2>3. /\ pc' = [pc EXCEPT ![t] = AfterTasks(t, outer)]
        /\ stack' = [stack EXCEPT ![t] = outer]
        /\ UNCHANGED <<m_shutdown, early, leaving, overlapped>>
    BY <1>5 DEF TasksDone, Goto
  <2>4. stack \in [Threads -> Seq(Seq(Tasks))]
    BY <1>1 DEF OnePlace
  <2> HIDE DEF outer
  <2>5. /\ stack'[t] = outer /\ pc'[t] = AfterTasks(t, outer)
        /\ \A h \in Threads : h # t => stack'[h] = stack[h] /\ pc'[h] = pc[h]
    BY <1>2, <2>3, <2>4
  <2>6. /\ AfterTasks(t, outer) = "run" => outer # <<>>
        /\ AfterTasks(t, outer) = "exit" => outer = <<>> /\ t \in leaving
        /\ AfterTasks(t, outer) \notin {"idle", "flag", "shutdown"}
    BY DEF AfterTasks
  <2>7. ~overlapped => t = "worker"
    BY <1>1, <1>2, <2>1 DEF StopInv
  <2>8. EarlyInv'
    BY <1>1, <1>2, <2>1, <2>2, <2>3, <2>5, <2>6, <2>7 DEF EarlyInv
  <2> QED
    BY <2>2, <2>8
<1>6. ASSUME NEW t \in Tasks, AddTask(t)
      PROVE  OnePlace' /\ EarlyInv'
  <2>1. /\ OnePlace' /\ Queued' = Queued \cup {t}
        /\ Submitted' = Submitted \cup {t} /\ t \notin Submitted
    BY <1>1, <1>6, AddPlace
  <2>2. UNCHANGED <<pc, stack, m_shutdown, early, leaving, overlapped>>
    BY <1>6 DEF AddTask
  <2>3. EarlyInv'
    BY <1>1, <2>1, <2>2 DEF EarlyInv
  <2> QED
    BY <2>1, <2>3
<1>7. ASSUME UNCHANGED <<m_tasks_list, stack, runs>>, StopFlag
      PROVE  OnePlace' /\ EarlyInv'
  <2>1. OnePlace' /\ Queued' = Queued /\ Submitted' = Submitted
    BY <1>1, <1>7, PlaceFrame
  <2>2. Queued \subseteq Submitted
    BY SubmittedParts
  <2>3. EarlyInv'
    BY <1>1, <1>2, <1>7, <2>1, <2>2 DEF EarlyInv, StopFlag, Goto
  <2> QED
    BY <2>1, <2>3
<1>8. ASSUME UNCHANGED <<m_tasks_list, stack, runs>>
      PROVE  OnePlace' /\ Queued' = Queued /\ Submitted' = Submitted
  BY <1>1, <1>8, PlaceFrame
<1>9. ASSUME NEW t \in Threads, LockManagers(t)
      PROVE  OnePlace' /\ EarlyInv'
  <2>1. OnePlace' /\ Queued' = Queued /\ Submitted' = Submitted
    BY <1>8, <1>9 DEF LockManagers
  <2>2. EarlyInv'
    BY <1>1, <1>2, <1>9, <2>1 DEF EarlyInv, LockManagers, Goto
  <2> QED
    BY <2>1, <2>2
<1>10. ASSUME NEW t \in Threads, UnlockManagers(t) \/ \E w \in Work : FinishWork(t, w)
       PROVE  OnePlace' /\ EarlyInv'
  <2>1. UNCHANGED <<m_tasks_list, stack, runs, m_shutdown, early, leaving, overlapped>>
    BY <1>10 DEF UnlockManagers, FinishWork
  <2>2. OnePlace' /\ Queued' = Queued /\ Submitted' = Submitted
    BY <1>8, <2>1
  <2>3. /\ pc[t] = "managers" /\ pc'[t] \in {"tasks", "lock", "managers"}
        /\ \A h \in Threads : h # t => pc'[h] = pc[h]
    BY <1>2, <1>10 DEF UnlockManagers, FinishWork, Goto
  <2>4. EarlyInv'
    BY <1>1, <1>2, <2>1, <2>2, <2>3 DEF EarlyInv
  <2> QED
    BY <2>2, <2>4
<1>11. CASE StartClaim \/ StartLaunch \/ StartAssign \/ StopCheck \/ \E w \in Work : SubmitWork(w)
  <2>1. UNCHANGED <<m_tasks_list, stack, runs, m_shutdown, early, leaving>>
    BY <1>11 DEF StartClaim, StartLaunch, StartAssign, StopCheck, SubmitWork
  <2>2. OnePlace' /\ Queued' = Queued /\ Submitted' = Submitted
    BY <1>8, <2>1
  <2>3. \/ pc' = pc /\ overlapped' = overlapped
        \/ pc' = [pc EXCEPT !["worker"] = "wait"] /\ overlapped' = overlapped
        \/ /\ pc["stopper"] = "idle"
           /\ pc' = [pc EXCEPT !["stopper"] = IF ~m_is_worker_started /\ ~m_future
                                              THEN "returned" ELSE "flag"]
    BY <1>11 DEF StartClaim, StartLaunch, StartAssign, StopCheck, SubmitWork, Goto
  <2>4. EarlyInv'
    BY <1>1, <1>2, <2>1, <2>2, <2>3 DEF EarlyInv
  <2> QED
    BY <1>1, <2>2, <2>4 DEF TasksInv
<1>12. ASSUME NEW x \in Tasks \cup Work, Notify(x)
       PROVE  OnePlace' /\ EarlyInv'
  <2>1. UNCHANGED <<m_tasks_list, stack, runs, m_shutdown, early, leaving, overlapped, pc>>
    BY <1>12 DEF Notify
  <2>2. OnePlace' /\ Queued' = Queued /\ Submitted' = Submitted
    BY <1>8, <2>1
  <2> QED
    BY <1>1, <2>1, <2>2 DEF EarlyInv
<1>13. CASE Loop
  <2>1. UNCHANGED <<m_tasks_list, stack, runs, m_shutdown, early, leaving, overlapped>>
    BY <1>13 DEF Loop, Wake, TestShutdown, ManagersLoaded, HasPendingTasks, Nap
  <2>2. OnePlace' /\ Queued' = Queued /\ Submitted' = Submitted
    BY <1>8, <2>1
  <2>3. /\ pc'["stopper"] = pc["stopper"]
        /\ pc'["worker"] \notin {"run", "exit"}
        /\ pc'["worker"] = "shutdown" => m_shutdown
    BY <1>2, <1>13 DEF Loop, Wake, TestShutdown, ManagersLoaded, HasPendingTasks, Nap,
                       NextStep, Goto
  <2>4. EarlyInv'
    BY <1>1, <1>2, <2>1, <2>2, <2>3, Zenon DEF EarlyInv
  <2> QED
    BY <1>1, <2>2, <2>4 DEF TasksInv
<1>14. CASE Stop /\ ~StopFlag
  <2>1. UNCHANGED <<m_tasks_list, stack, runs, m_shutdown, early, leaving, overlapped>>
    BY <1>14 DEF Stop, StopFuture, StopNotify, StopJoin
  <2>2. OnePlace' /\ Queued' = Queued /\ Submitted' = Submitted
    BY <1>8, <2>1
  <2>3. /\ pc'["worker"] = pc["worker"]
        /\ pc'["stopper"] \notin {"run", "idle", "flag"}
    BY <1>2, <1>14 DEF Stop, StopFuture, StopNotify, StopJoin, Goto
  <2>4. EarlyInv'
    BY <1>1, <1>2, <2>1, <2>2, <2>3 DEF EarlyInv
  <2> QED
    BY <1>1, <2>2, <2>4 DEF TasksInv
<1>15. CASE StopFlag
  BY <1>1, <1>7, <1>15 DEF TasksInv, StopFlag
<1>16. CASE UNCHANGED vars
  <2>1. UNCHANGED <<m_tasks_list, stack, runs, m_shutdown, early, leaving, overlapped, pc>>
    BY <1>16 DEF vars
  <2>2. OnePlace' /\ Queued' = Queued /\ Submitted' = Submitted
    BY <1>8, <2>1
  <2> QED
    BY <1>1, <2>1, <2>2 DEF TasksInv, EarlyInv
<1>17. ASSUME NEW t \in Threads, Run(t)
       PROVE  TasksInv'
  BY <1>1, <1>3, <1>4, <1>5, <1>9, <1>10, <1>17, Zenon DEF Run, TasksInv
<1>18. CASE Calls
  BY <1>1, <1>6, <1>11, <1>18, Zenon DEF Calls, TasksInv
<1> QED
  BY <1>1, <1>11, <1>12, <1>13, <1>14, <1>15, <1>16, <1>17, <1>18, Zenon
     DEF Next, TasksInv

\* No task runs twice, whatever tasks call process() and however stop() and the
\* thread interleave; a task that was queued when stop() set m_shutdown has run
\* when a stop() that did not overlap start() returns.
THEOREM EachTaskOnce == Spec => []TasksRunOnce
<1>1. Init => TasksInv
  <2> SUFFICES ASSUME Init PROVE TasksInv
    OBVIOUS
  <2>1. StopInv
    BY DEF Init, StopInv, Threads, Steps
  <2>2. <<>> \in Seq(Tasks) /\ <<>> \in Seq(Seq(Tasks)) /\ DOMAIN <<>> = {}
    OBVIOUS
  <2>3. OnePlace
    BY <2>2 DEF Init, OnePlace, StackUnused, StackDistinct
  <2>4. EarlyInv
    BY DEF Init, EarlyInv, Threads
  <2> QED
    BY <2>1, <2>3, <2>4 DEF TasksInv
<1>2. TasksInv /\ [Next]_vars => TasksInv'
  BY TasksStep
<1>3. TasksInv => TasksRunOnce
  <2> SUFFICES ASSUME TasksInv PROVE TasksRunOnce
    OBVIOUS
  <2>1. /\ \A t \in Tasks : runs[t] <= 1
        /\ runs \in [Tasks -> Nat]
    BY Zenon DEF TasksInv, OnePlace
  <2>2. ASSUME pc["stopper"] = "returned", ~overlapped, NEW t \in early
        PROVE  runs[t] = 1
    <3>1. m_shutdown
      BY <2>2 DEF TasksInv, EarlyInv
    <3>2. pc["worker"] = "exit"
      BY <2>2, <3>1 DEF TasksInv, StopInv
    <3>3. /\ stack["worker"] = <<>> /\ stack["stopper"] = <<>>
          /\ t \notin Queued /\ t \in Submitted
      BY <2>2, <3>2 DEF TasksInv, EarlyInv
    <3>4. DOMAIN <<>> = {}
      OBVIOUS
    <3>5. t \notin StackedIn(stack)
      BY <3>3, <3>4, StackedElements DEF Threads
    <3>6. t \in Tasks /\ runs[t] # 0
      BY <3>3, <3>5, SubmittedParts
    <3> QED
      BY <2>1, <3>6
  <2> QED
    BY <2>1, <2>2 DEF TasksRunOnce
<1> QED
  BY <1>1, <1>2, <1>3, PTL DEF Spec
=============================================================================
