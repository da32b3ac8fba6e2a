---------------------------- MODULE NetworkWorker ----------------------------
(***************************************************************************)
(* NetworkWorker: the background thread that drives the managers and runs  *)
(* queued tasks, the notifications that wake it, and start() and stop().   *)
(*                                                                         *)
(* A manager is known by the work it holds: work is submitted to it by any *)
(* thread, keeps it loaded, and ends inside its process() or shutdown(),   *)
(* where the user callback of the work runs.  Every use of m_notify_mutex, *)
(* m_tasks_list_mutex or m_is_worker_started_mutex is one step;            *)
(* m_managers_mutex is held across user callbacks and is a variable.       *)
(***************************************************************************)
EXTENDS Naturals, Sequences, Functions

CONSTANTS
    Tasks,          \* functions given to add_task
    Work,           \* requests given to the managers
    Reentrant,      \* tasks and work whose code calls HttpClient::cancel_requests
    AllowStop       \* whether stop() is called

ASSUME WorkerAssumption ==
    /\ Tasks \cap Work = {}
    /\ Reentrant \subseteq Tasks \cup Work
    /\ AllowStop \in BOOLEAN

Threads == {"worker", "stopper"}

VARIABLES
    m_is_worker_started,
    m_future,           \* m_future.valid()
    m_shutdown,
    m_notify,
    m_tasks_list,
    m_managers_mutex,   \* the thread that holds it, or "free"
    managersDown,       \* the managers have been shut down
    work,               \* state of each request
    runs,               \* how often each task has run
    owed,               \* calls between their push and their notify()
    early,              \* history: tasks queued when stop() set m_shutdown
    starter,            \* the thread in start()
    overlapped,         \* history: stop() was called while that thread was in start()
    pc,                 \* of the worker and of the thread in stop()
    leaving,            \* threads in shutdown()
    stack               \* the task lists of nested process_tasks calls

vars == <<m_is_worker_started, m_future, m_shutdown, m_notify, m_tasks_list,
          m_managers_mutex, managersDown, work, runs, owed, early, starter,
          overlapped, pc, leaving, stack>>

startVars == <<m_is_worker_started, m_future, starter, overlapped>>
loadVars  == <<m_tasks_list, managersDown, work, runs>>
lockVars  == <<m_managers_mutex, leaving, stack>>

Goto(t, l) == pc' = [pc EXCEPT ![t] = l]

Init ==
    /\ m_is_worker_started = FALSE
    /\ m_future = FALSE
    /\ m_shutdown = FALSE
    /\ m_notify = FALSE
    /\ m_tasks_list = <<>>
    /\ m_managers_mutex = "free"
    /\ managersDown = FALSE
    /\ work = [w \in Work |-> "none"]
    /\ runs = [t \in Tasks |-> 0]
    /\ owed = {}
    /\ early = {}
    /\ starter = "idle"
    /\ overlapped = FALSE
    /\ pc = [t \in Threads |-> IF t = "worker" THEN "none" ELSE "idle"]
    /\ leaving = {}
    /\ stack = [t \in Threads |-> <<>>]

-----------------------------------------------------------------------------
(* Calls of any thread                                                     *)

Queued == Range(m_tasks_list)
Stacked(h) == UNION {Range(stack[h][n]) : n \in DOMAIN stack[h]}
Loaded == {w \in Work : work[w] = "loaded"}
Submitted == {t \in Tasks : runs[t] # 0} \cup Queued
               \cup UNION {Stacked(h) : h \in Threads}

\* add_task pushes under m_tasks_list_mutex and then calls notify().
AddTask(t) ==
    /\ t \notin Submitted
    /\ m_tasks_list' = Append(m_tasks_list, t)
    /\ owed' = owed \cup {t}
    /\ UNCHANGED <<startVars, lockVars, m_shutdown, m_notify, managersDown, work,
                   runs, early, pc>>

\* A request is handed to a manager, which refuses it once it has been shut down;
\* the caller of one that is accepted then calls notify().
SubmitWork(w) ==
    /\ work[w] = "none"
    /\ work' = [work EXCEPT ![w] = IF managersDown THEN "rejected" ELSE "loaded"]
    /\ owed' = IF managersDown THEN owed ELSE owed \cup {w}
    /\ UNCHANGED <<startVars, lockVars, m_shutdown, m_notify, m_tasks_list,
                   managersDown, runs, early, pc>>

\* Mutant: the condition variable is signalled, the flag is not set.
NotifyWithoutFlag(x) == m_notify

\* The flag after notify().
NotifyFlag(x) == TRUE

Notify(x) ==
    /\ x \in owed
    /\ owed' = owed \ {x}
    /\ m_notify' = NotifyFlag(x)
    /\ UNCHANGED <<startVars, lockVars, loadVars, m_shutdown, early, pc>>

-----------------------------------------------------------------------------
(* start(true)                                                             *)

\* The flag is set under its mutex ...
StartClaim ==
    /\ starter = "idle" /\ ~m_is_worker_started
    /\ m_is_worker_started' = TRUE
    /\ starter' = "claimed"
    /\ UNCHANGED <<lockVars, loadVars, m_future, overlapped, m_shutdown, m_notify, owed,
                   early, pc>>

\* ... the thread is created after the unlock, inside std::async ...
StartLaunch ==
    /\ starter = "claimed"
    /\ starter' = "launched"
    /\ Goto("worker", "wait")
    /\ UNCHANGED <<lockVars, loadVars, m_is_worker_started, m_future, overlapped, m_shutdown,
                   m_notify, owed, early>>

\* ... and m_future is assigned when std::async has returned: the thread may be
\* anywhere by then.
StartAssign ==
    /\ starter = "launched"
    /\ m_future' = TRUE
    /\ starter' = "returned"
    /\ UNCHANGED <<lockVars, loadVars, m_is_worker_started, overlapped, m_shutdown, m_notify,
                   owed, early, pc>>

-----------------------------------------------------------------------------
(* process_tasks and shutdown, by either thread                            *)

\* Where a thread goes on when process_tasks returns: to the task that called
\* process(), out of shutdown(), or back to the loop.
AfterTasks(t, lists) ==
    CASE lists # <<>> -> "run"
      [] lists = <<>> /\ t \notin leaving -> "after"
      [] lists = <<>> /\ t \in leaving ->
            IF t = "worker" THEN "exit" ELSE "returned"

\* Mutant: the list is copied, not moved.
CopiedList == m_tasks_list

\* The list is moved out before its tasks run.
MovedList == <<>>

TakeTasks(t) ==
    LET lists == IF m_tasks_list = <<>> THEN stack[t]
                 ELSE Append(stack[t], m_tasks_list)
    IN  /\ pc[t] = "tasks"
        /\ m_tasks_list' = MovedList
        /\ stack' = [stack EXCEPT ![t] = lists]
        /\ Goto(t, AfterTasks(t, lists))
        /\ UNCHANGED <<startVars, m_shutdown, m_notify, m_managers_mutex,
                       managersDown, work, runs, owed, early, leaving>>

Innermost(t) == stack[t][Len(stack[t])]

\* item(): the next task of the innermost list.  On the worker thread,
\* HttpClient::cancel_requests calls process() from inside the task.
RunTask(t) ==
    LET task == Head(Innermost(t))
    IN  /\ pc[t] = "run" /\ Innermost(t) # <<>>
        /\ runs' = [runs EXCEPT ![task] = @ + 1]
        /\ stack' = [stack EXCEPT ![t][Len(stack[t])] = Tail(@)]
        /\ Goto(t, IF task \in Reentrant /\ t = "worker" THEN "lock" ELSE "run")
        /\ UNCHANGED <<startVars, m_shutdown, m_notify, m_tasks_list,
                       m_managers_mutex, managersDown, work, owed, early, leaving>>

TasksDone(t) ==
    LET outer == SubSeq(stack[t], 1, Len(stack[t]) - 1)
    IN  /\ pc[t] = "run" /\ Innermost(t) = <<>>
        /\ stack' = [stack EXCEPT ![t] = outer]
        /\ Goto(t, AfterTasks(t, outer))
        /\ UNCHANGED <<startVars, loadVars, m_shutdown, m_notify, m_managers_mutex,
                       owed, early, leaving>>

\* process() and shutdown() lock m_managers_mutex.  The managers refuse work as
\* soon as their shutdown() begins.
LockManagers(t) ==
    /\ pc[t] \in {"lock", "shutdown"}
    /\ m_managers_mutex = "free"
    /\ m_managers_mutex' = t
    /\ managersDown' = (managersDown \/ pc[t] = "shutdown")
    /\ leaving' = IF pc[t] = "shutdown" THEN leaving \cup {t} ELSE leaving
    /\ Goto(t, "managers")
    /\ UNCHANGED <<startVars, m_shutdown, m_notify, m_tasks_list, work, runs, owed,
                   early, stack>>

\* A manager ends a request and calls back, inside process() or shutdown().  On
\* the worker thread, HttpClient::cancel_requests calls process() from there.
FinishWork(t, w) ==
    /\ pc[t] = "managers" /\ work[w] = "loaded"
    /\ work' = [work EXCEPT ![w] = "done"]
    /\ Goto(t, IF w \in Reentrant /\ t = "worker" THEN "lock" ELSE "managers")
    /\ UNCHANGED <<startVars, lockVars, m_shutdown, m_notify, m_tasks_list,
                   managersDown, runs, owed, early>>

\* Mutant: the tasks run under the managers' mutex.
StillHeld(t) == t

\* lock.unlock().
Unlocked(t) == "free"

\* process() may leave work unfinished, shutdown() may not.
UnlockManagers(t) ==
    /\ pc[t] = "managers"
    /\ managersDown => Loaded = {}
    /\ m_managers_mutex' = Unlocked(t)
    /\ Goto(t, "tasks")
    /\ UNCHANGED <<startVars, loadVars, m_shutdown, m_notify, owed, early, leaving,
                   stack>>

-----------------------------------------------------------------------------
(* The loop of the worker thread                                           *)

\* m_notify_condition.wait.
Wake ==
    /\ pc["worker"] = "wait" /\ m_notify
    /\ m_notify' = FALSE
    /\ Goto("worker", "woken")
    /\ UNCHANGED <<startVars, lockVars, loadVars, m_shutdown, owed, early>>

\* The four tests of m_shutdown, and where each goes on.
NextStep == [woken |-> "load", after |-> "nap", napped |-> "load", unloaded |-> "wait"]

TestShutdown ==
    /\ pc["worker"] \in DOMAIN NextStep
    /\ Goto("worker", IF m_shutdown THEN "shutdown" ELSE NextStep[pc["worker"]])
    /\ UNCHANGED <<startVars, lockVars, loadVars, m_shutdown, m_notify, owed, early>>

\* is_loaded asks the managers under their mutex, then looks at the task list.
ManagersLoaded ==
    /\ pc["worker"] = "load" /\ m_managers_mutex = "free"
    /\ Goto("worker", IF Loaded # {} THEN "lock" ELSE "pending")
    /\ UNCHANGED <<startVars, lockVars, loadVars, m_shutdown, m_notify, owed, early>>

TasksPending == m_tasks_list # <<>>

HasPendingTasks ==
    /\ pc["worker"] = "pending"
    /\ Goto("worker", IF TasksPending THEN "lock" ELSE "unloaded")
    /\ UNCHANGED <<startVars, lockVars, loadVars, m_shutdown, m_notify, owed, early>>

\* wait_for one millisecond: a notification, or the timeout, ends it.
Nap ==
    /\ pc["worker"] = "nap"
    /\ m_notify' = FALSE
    /\ Goto("worker", "napped")
    /\ UNCHANGED <<startVars, lockVars, loadVars, m_shutdown, owed, early>>

-----------------------------------------------------------------------------
(* stop()                                                                  *)

StopCheck ==
    /\ AllowStop /\ pc["stopper"] = "idle"
    /\ overlapped' = (starter \in {"claimed", "launched"})
    /\ Goto("stopper", IF ~m_is_worker_started /\ ~m_future THEN "returned" ELSE "flag")
    /\ UNCHANGED <<m_is_worker_started, m_future, starter, lockVars, loadVars, m_shutdown,
                   m_notify, owed, early>>

StopFlag ==
    /\ pc["stopper"] = "flag"
    /\ m_shutdown' = TRUE
    /\ early' = Queued
    /\ Goto("stopper", "future")
    /\ UNCHANGED <<startVars, lockVars, loadVars, m_notify, owed>>

\* Without a thread to wait for, stop() runs shutdown() itself.
StopFuture ==
    /\ pc["stopper"] = "future"
    /\ Goto("stopper", IF m_future THEN "notify" ELSE "shutdown")
    /\ UNCHANGED <<startVars, lockVars, loadVars, m_shutdown, m_notify, owed, early>>

StopNotify ==
    /\ pc["stopper"] = "notify"
    /\ m_notify' = NotifyFlag("stop")
    /\ Goto("stopper", "join")
    /\ UNCHANGED <<startVars, lockVars, loadVars, m_shutdown, owed, early>>

\* Mutant: stop() does not wait.
WorkerSignalled == TRUE

\* m_future.wait() returns.
WorkerExited == pc["worker"] = "exit"

StopJoin ==
    /\ pc["stopper"] = "join" /\ WorkerExited
    /\ Goto("stopper", "returned")
    /\ UNCHANGED <<startVars, lockVars, loadVars, m_shutdown, m_notify, owed, early>>

-----------------------------------------------------------------------------

Calls ==
    \/ \E t \in Tasks : AddTask(t)
    \/ \E w \in Work : SubmitWork(w)
    \/ StartClaim
    \/ StopCheck

Run(t) ==
    \/ TakeTasks(t) \/ RunTask(t) \/ TasksDone(t)
    \/ LockManagers(t) \/ UnlockManagers(t)
    \/ \E w \in Work : FinishWork(t, w)

Loop == Wake \/ TestShutdown \/ ManagersLoaded \/ HasPendingTasks \/ Nap

Stop == StopFlag \/ StopFuture \/ StopNotify \/ StopJoin

Next ==
    \/ Calls
    \/ \E x \in Tasks \cup Work : Notify(x)
    \/ StartLaunch \/ StartAssign
    \/ \E t \in Threads : Run(t)
    \/ Loop
    \/ Stop

Spec == Init /\ [][Next]_vars

\* Every thread keeps running, the program starts the worker, and no manager
\* keeps a request for ever.  Other threads need not call.
Fairness ==
    /\ WF_vars(StartClaim) /\ WF_vars(StartLaunch) /\ WF_vars(StartAssign)
    /\ WF_vars(Loop) /\ WF_vars(Stop)
    /\ \A x \in Tasks \cup Work : WF_vars(Notify(x))
    /\ \A t \in Threads : WF_vars(Run(t))
    /\ \A t \in Threads, w \in Work : SF_vars(FinishWork(t, w))

FairSpec == Spec /\ Fairness

-----------------------------------------------------------------------------
(* Properties                                                              *)

\* No thread waits for m_managers_mutex while it holds it: calling process()
\* from user code cannot block the worker on itself.
NoSelfDeadlock ==
    \A t \in Threads : pc[t] \in {"lock", "shutdown"} => m_managers_mutex # t

\* When stop() has returned, the worker thread is over.  Only a stop() that
\* overlaps start() may find m_future unset, and leave behind a thread that is
\* yet to be launched or that sleeps already.
StopWaitsForWorker ==
    (pc["stopper"] = "returned" /\ m_shutdown /\ ~overlapped) => pc["worker"] \in {"none", "exit"}

\* No task runs twice, even when a task calls process() while the rest of its
\* list is still to run, and every task that was queued when stop() was called
\* has run when it returns; a stop() that overlaps start() may leave the last of
\* them to the thread.
TasksRunOnce ==
    /\ \A t \in Tasks : runs[t] <= 1
    /\ pc["stopper"] = "returned" /\ ~overlapped => \A t \in early : runs[t] = 1

\* add_task's notify() and is_loaded's look at the lists never leave the worker
\* asleep on something queued: a task eventually runs, unless stop() is called,
\* and work handed to a manager eventually ends, stop or no stop.
EverythingFinishes ==
    /\ \A t \in Tasks : t \in Queued ~> (runs[t] = 1 \/ m_shutdown)
    /\ \A w \in Work : work[w] = "loaded" ~> work[w] = "done"

\* stop() returns.
StopReturns == pc["stopper"] = "flag" ~> pc["stopper"] = "returned"
=============================================================================
