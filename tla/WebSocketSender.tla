--------------------------- MODULE WebSocketSender ---------------------------
(***************************************************************************)
(* The WebSocket client with its outgoing messages: submit_message and     *)
(* submit_close on user threads, process_message_queue and                 *)
(* process_send_callback_queue on the worker after every pass of the state *)
(* machine, completions on the io thread.                                  *)
(*                                                                         *)
(* A message stands for a close request too: both take the same path.  The *)
(* scan of the queue reads the clock for every message, so it is one step  *)
(* per message; m_message_queue_mutex is held throughout.                  *)
(***************************************************************************)
EXTENDS WebSocketClient, WebSocketRateLimiter, Functions, FiniteSets

CONSTANTS
    NumMessages,    \* messages submitted, each with a callback
    LimitIdOf,      \* rate_limit_id of each
    RateLimits,     \* WebSocketConfig::rate_limits of each configuration
    MaxSendQueue,   \* max_send_queue_size of each configuration, 0 for none
    AgeCap          \* where the model stops counting the age of a message

\* A message is known by its place in the order of the calls.
Messages == 1 .. NumMessages

ASSUME SenderAssumption ==
    /\ NumMessages \in Nat
    /\ LimitIdOf \in [Messages -> Int]
    /\ RateLimits \in [Configs -> Seq([rpp : Nat, period : Nat])]
    /\ MaxSendQueue \in [Configs -> Nat]
    /\ AgeCap \in Nat
    /\ \A c \in Configs : \A i \in DOMAIN RateLimits[c] : RateLimits[c][i].period <= AgeCap

VARIABLES
    m_message_queue,
    m_send_callback_queue,
    m_limit_data,
    m_max_send_queue_size,
    msg,        \* progress of each message, "over" once refused, answered or lost
    outgoing,   \* messages the scan has let through, in order
    step,       \* where the worker is in process() or in the loop of shutdown()
    at,         \* position of the scan
    recent      \* history: the ages of the messages each limit let through

queueVars == <<m_message_queue, msg>>
limitVars == <<m_limit_data, m_max_send_queue_size, recent>>
scanVars  == <<outgoing, at>>
sendVars  == <<queueVars, m_send_callback_queue, limitVars, scanVars>>
senderVars == <<vars, sendVars, step>>

LimitIds == UNION {DOMAIN RateLimits[c] : c \in Configs}

SenderInit ==
    /\ Init
    /\ m_message_queue = <<>>
    /\ m_send_callback_queue = <<>>
    /\ m_limit_data = <<>>
    /\ m_max_send_queue_size = 0
    /\ msg = [m \in Messages |-> "new"]
    /\ outgoing = <<>>
    /\ step = "fsm"
    /\ at = 1
    /\ recent = [i \in LimitIds |-> <<>>]

Mark(S, s) == [m \in Messages |-> IF m \in S THEN s ELSE msg[m]]

-----------------------------------------------------------------------------
(* User threads                                                            *)

\* is_connected() is read before the queue's mutex is taken.
SubmitCheck(m) ==
    /\ phase = "live" /\ msg[m] = "new" /\ \A n \in 1 .. m - 1 : msg[n] # "new"
    /\ msg' = Mark({m}, IF client.m_is_connected THEN "checked" ELSE "over")
    /\ UNCHANGED <<vars, m_message_queue, m_send_callback_queue, limitVars,
                   scanVars, step>>

SendQueueFull ==
    m_max_send_queue_size # 0 /\ Len(m_message_queue) >= m_max_send_queue_size

SubmitPush(m) ==
    /\ msg[m] = "checked" /\ step # "scan"
    /\ IF SendQueueFull
       THEN msg' = Mark({m}, "over") /\ UNCHANGED m_message_queue
       ELSE /\ msg' = Mark({m}, "queued")
            /\ m_message_queue' = Append(m_message_queue, m)
    /\ UNCHANGED <<vars, m_send_callback_queue, limitVars, scanVars, step>>

-----------------------------------------------------------------------------
(* The worker                                                              *)

\* What a pass does to the limits and to the sends its connection still had.
NewLimits ==
    LET e == Head(client.m_fsm_event_queue)
    IN  IF e.type = "UpdateConfig" /\ e.config # NoConfig
        THEN /\ m_limit_data' = SetLimit(m_limit_data, RateLimits[e.config])
             /\ m_max_send_queue_size' = MaxSendQueue[e.config]
        ELSE UNCHANGED <<m_limit_data, m_max_send_queue_size>>

LoseSends ==
    msg' = IF client.connection = "current" /\ client'.connection # "current"
           THEN Mark({m \in Messages : msg[m] = "sending"}, "over")
           ELSE msg

\* Mutant: process() returns when the client no longer runs.
AfterPassReturn ==
    IF tail' \/ ~client'.m_is_running THEN "fsm"
    ELSE IF InShutdown THEN "callbacks" ELSE "scan"

\* After the state machine: its own loop goes on after a message, process()
\* turns to the queue, shutdown() to the callbacks.
AfterPass ==
    IF tail' THEN "fsm" ELSE IF InShutdown THEN "callbacks" ELSE "scan"

PassWithEvent ==
    /\ step = "fsm" /\ HandleEvent
    /\ NewLimits /\ LoseSends
    /\ step' = IF /\ client.m_fsm_state = "WORKING"
                  /\ Head(client.m_fsm_event_queue).type = "MessageReceived"
                  /\ Len(client.m_fsm_event_queue) > 1
               THEN "fsm" ELSE AfterPass
    /\ UNCHANGED <<m_message_queue, m_send_callback_queue, recent, scanVars>>

PassReconnecting ==
    /\ step = "fsm" /\ TryReconnect
    /\ LoseSends
    /\ step' = AfterPass
    /\ UNCHANGED <<m_message_queue, m_send_callback_queue, limitVars, scanVars>>

\* A pass that never ends.
PassBlocked ==
    step = "fsm" /\ Block /\ UNCHANGED <<sendVars, step>>

\* A pass without an event.  process() makes one whenever the worker is awake,
\* shutdown() while the client runs; one that finds both queues empty too does
\* nothing.
PassIdle ==
    /\ step = "fsm" /\ Passing /\ ~tail
    /\ client.m_fsm_event_queue = <<>> /\ client.m_fsm_state # "RECONNECTING"
    /\ m_message_queue # <<>> \/ m_send_callback_queue # <<>>
    /\ InShutdown => client.m_is_running
    /\ step' = IF InShutdown THEN "callbacks" ELSE "scan"
    /\ UNCHANGED <<vars, sendVars>>

\* process_message_queue: the next message of the queue is let through or kept.
ScanMessage ==
    LET m  == m_message_queue[at]
        id == LimitIdOf[m]
    IN  /\ step = "scan" /\ at <= Len(m_message_queue)
        /\ IF AllowRequest(m_limit_data, id)
           THEN /\ m_limit_data' = CommitRequest(m_limit_data, id)
                /\ recent' = [i \in LimitIds |->
                                IF i \in Applicable(m_limit_data, id)
                                THEN Append(recent[i], 0) ELSE recent[i]]
                /\ m_message_queue' = SubSeq(m_message_queue, 1, at - 1)
                     \o SubSeq(m_message_queue, at + 1, Len(m_message_queue))
                /\ outgoing' = Append(outgoing, m)
                /\ msg' = Mark({m}, "taken")
                /\ UNCHANGED at
           ELSE /\ at' = at + 1
                /\ UNCHANGED <<m_limit_data, recent, m_message_queue, outgoing, msg>>
        /\ UNCHANGED <<vars, m_max_send_queue_size, m_send_callback_queue, step>>

ScanDone ==
    /\ step = "scan" /\ at > Len(m_message_queue)
    /\ at' = 1
    /\ step' = IF outgoing = <<>> THEN "callbacks" ELSE "send"
    /\ UNCHANGED <<vars, queueVars, m_send_callback_queue, limitVars, outgoing>>

\* The adapter's send_message or send_close: without a connection the callback is
\* told at once; what is sent on one whose client is gone never completes.
SendMessage ==
    LET m == Head(outgoing)
    IN  /\ step = "send"
        /\ msg' = Mark({m}, IF client.connection = "current" THEN "sending" ELSE "over")
        /\ outgoing' = Tail(outgoing)
        /\ step' = IF Len(outgoing) = 1 THEN "callbacks" ELSE "send"
        /\ UNCHANGED <<vars, m_message_queue, m_send_callback_queue, limitVars, at>>

\* process_send_callback_queue.
ProcessSendCallbacks ==
    /\ step = "callbacks"
    /\ msg' = Mark(Range(m_send_callback_queue), "over")
    /\ m_send_callback_queue' = <<>>
    /\ step' = "fsm"
    /\ UNCHANGED <<vars, m_message_queue, limitVars, scanVars>>

\* Between two passes the worker turns to tasks and shutdowns, or to sleep.
BetweenPasses ==
    /\ step = "fsm" /\ (Life \/ Sleep)
    /\ LoseSends
    /\ UNCHANGED <<m_message_queue, m_send_callback_queue, limitVars, scanVars, step>>

-----------------------------------------------------------------------------
(* The io thread, and time                                                 *)

\* A send completes, with or without an error.
SendCompletes(m) ==
    /\ io.running /\ msg[m] = "sending"
    /\ msg' = Mark({m}, "completed")
    /\ m_send_callback_queue' = Append(m_send_callback_queue, m)
    /\ UNCHANGED <<vars, m_message_queue, limitVars, scanVars, step>>

\* Time matters while a message may still come before the limiter.
Tick ==
    /\ phase \in {"live", "destroyed"} /\ ~InShutdown
    /\ \E m \in Messages : msg[m] \in {"new", "checked", "queued"}
    /\ m_limit_data' = Aged(m_limit_data)
    /\ recent' = [i \in LimitIds |-> [n \in DOMAIN recent[i] |->
                    IF recent[i][n] < AgeCap THEN recent[i][n] + 1 ELSE recent[i][n]]]
    /\ UNCHANGED <<vars, queueVars, m_send_callback_queue, m_max_send_queue_size,
                   scanVars, step>>

-----------------------------------------------------------------------------

Process ==
    \/ PassWithEvent \/ PassReconnecting \/ PassBlocked \/ PassIdle
    \/ ScanMessage \/ ScanDone \/ SendMessage \/ ProcessSendCallbacks
    \/ BetweenPasses

\* A call of the facade; it is not destroyed while submit_message is running.
UserCall == User /\ (phase' # phase => \A m \in Messages : msg[m] # "checked")

SenderNext ==
    \/ UserCall /\ UNCHANGED <<sendVars, step>>
    \/ (DelayPasses \/ Io \/ Stop \/ NotifiedByOthers) /\ UNCHANGED <<sendVars, step>>
    \/ \E m \in Messages : SubmitCheck(m) \/ SubmitPush(m) \/ SendCompletes(m)
    \/ Process
    \/ Tick

SenderSpec == SenderInit /\ [][SenderNext]_senderVars

\* The worker finishes a pass it has begun and, while is_running(), begins another;
\* time passes.  A write need not complete.
KeepsGoing ==
    \/ PassWithEvent \/ PassReconnecting \/ PassBlocked \/ (PassIdle /\ client.m_is_running)
    \/ ScanMessage \/ ScanDone \/ SendMessage \/ ProcessSendCallbacks

SenderFairness == WF_senderVars(KeepsGoing) /\ WF_senderVars(Tick)

FairSender == SenderSpec /\ SenderFairness

-----------------------------------------------------------------------------
(* Properties                                                              *)

\* A limit no configuration lifts: it is in every table, with a rate.
AlwaysLimited(i) ==
    \A c \in Configs : i \in DOMAIN RateLimits[c] /\ RateLimits[c][i].rpp # 0

\* In any stretch of period_ms such a limit lets at most twice its
\* requests_per_period through: the end of one window and the start of the next.
\* This holds although set_limit starts a new window whenever a configuration is
\* applied, because it keeps the count.  Where configurations differ, the highest
\* rate and the shortest period count.
SendRateBound ==
    \A i \in LimitIds : \A c, d \in Configs :
        /\ AlwaysLimited(i)
        /\ \A e \in Configs : /\ RateLimits[e][i].rpp <= RateLimits[c][i].rpp
                              /\ RateLimits[d][i].period <= RateLimits[e][i].period
        => Cardinality({n \in DOMAIN recent[i] : recent[i][n] < RateLimits[d][i].period})
             <= 2 * RateLimits[c][i].rpp

\* A message that submit_message accepted is handed to a connection or answered,
\* unless the client stops running, its shutdown() begins or the worker is blocked
\* on on_open first.
AcceptedIsHandedOver ==
    \A m \in Messages :
        msg[m] = "queued" ~> \/ msg[m] \in {"sending", "over"}
                             \/ ~client.m_is_running \/ worker # "awake"

\* No set_config turns reconnect on or off.
ReconnectKept == \A c, d \in Configs : c.reconnect = d.reconnect

\* The worker never goes to sleep on the callback of a completed send: when the
\* client no longer runs, because its connection ended, it disconnected or
\* shutdown() is over, every completion that reached the queue has been told.
\* A set_config that arrives in RECONNECTING and turns reconnect off is left out:
\* it starts a connection and then falls through to the code that gives up, so
\* the client owns a connection although it does not run.
NoCallbackLeft ==
    ReconnectKept /\ step = "fsm" /\ ~IsRunning => m_send_callback_queue = <<>>
=============================================================================
