--------------------------- MODULE WebSocketClient ---------------------------
(***************************************************************************)
(* One WebSocket client: the state machine of BaseWebSocketClient, run by  *)
(* the network worker; the SimpleWeb adapter, whose callbacks run on the   *)
(* io thread and queue events; and the WebSocketClient facade, whose calls *)
(* queue requests and whose destructor makes the worker run shutdown().    *)
(* The worker sleeps and wakes as in NetworkWorker, of which only what     *)
(* concerns one client is kept: a call that queues and then notifies is    *)
(* one step here.                                                          *)
(*                                                                         *)
(* `client' is the BaseWebSocketClient object, one field per member, and   *)
(* the operators on it are its member functions.  One pass of              *)
(* process_fsm_state is one step, except in RECONNECTING, where the event  *)
(* and the code after the switch are two: both may start a connection.     *)
(* Sending is modelled in WebSocketSender.                                 *)
(***************************************************************************)
EXTENDS Naturals, Sequences

CONSTANTS
    Configs,        \* WebSocketConfigs a caller may set
    NoConfig,       \* a null pointer to one
    Calls,          \* calls of connect, disconnect and set_config
    NoCall,         \* an event nobody waits for
    AllowStop,      \* whether NetworkWorker::stop() is called
    MaxMessages,    \* messages the server sends on one connection
    AttemptCap      \* where the model stops counting failed attempts

ASSUME ClientAssumption ==
    /\ Configs \subseteq [valid : BOOLEAN,      \* init_websocket() succeeds
                          reconnect : BOOLEAN,
                          attempts : Nat,       \* reconnect_attempts
                          delay : BOOLEAN]      \* reconnect_delay > 0
    /\ NoConfig \notin Configs /\ NoCall \notin Calls
    /\ AllowStop \in BOOLEAN
    /\ MaxMessages \in Nat
    /\ AttemptCap \in Nat /\ \A c \in Configs : c.attempts < AttemptCap

VARIABLES
    client,     \* the object, with the connection its adapter owns
    tail,       \* process_state_reconnecting is past its switch
    deferred,   \* WebSocketClient::m_config
    calls,      \* progress of each call
    reconnects, \* history: reconnections since a connection opened or was asked for
    phase,      \* of the object's life
    worker,     \* where the network worker is
    m_shutdown, \* NetworkWorker::m_shutdown
    io          \* the io thread of SimpleWebSocketWorker, and its m_notify

vars == <<client, tail, deferred, calls, reconnects, phase, worker, m_shutdown, io>>

\* The worker waits for a notification; is in its loop; is in the manager's
\* shutdown() of the client; is in the task of the client's destructor; waits for
\* a handler that waits for it; has ended.
WorkerPlaces == {"asleep", "awake", "managers", "task", "blocked", "ended"}

Requests == {"RequestConnect", "RequestDisconnect", "UpdateConfig"}
NetworkEvents ==
    {"ConnectionOpened", "ConnectionClosed", "ConnectionError", "MessageReceived"}

Event(type, call, config, cur) ==
    [type |-> type, call |-> call, config |-> config,
     cur |-> cur]   \* it comes from the connection the adapter now owns

\* is_running().
IsRunning == client.m_is_running \/ client.m_fsm_event_queue # <<>>

Init ==
    /\ client = [m_fsm_state |-> "INIT", m_config |-> NoConfig,
                 m_is_running |-> FALSE, m_is_connected |-> FALSE,
                 m_reconnect_attempt |-> 0, m_fsm_event_queue |-> <<>>,
                 elapsed |-> FALSE,     \* reconnect_delay since m_close_time
                 socket |-> "none",     \* of m_ws_client or m_wss_client; "opening"
                                        \* while its on_open waits for m_client_mutex
                 connection |-> "none", \* m_ws_connection or m_wss_connection
                 received |-> 0]        \* messages the socket has delivered
    /\ tail = FALSE
    /\ deferred = NoConfig
    /\ calls = [k \in Calls |-> "none"]
    /\ reconnects = 0
    /\ phase = "none"
    /\ worker = "asleep"
    /\ m_shutdown = FALSE
    /\ io = [running |-> FALSE, notify |-> FALSE]

-----------------------------------------------------------------------------
(* The facade                                                              *)

Push(o, e) == [o EXCEPT !.m_fsm_event_queue = Append(@, e)]

\* NetworkWorker::notify().
Notify == worker' = IF worker = "asleep" THEN "awake" ELSE worker

\* A call k of the facade queues an event and notifies the worker.
Call(k, type, config) ==
    /\ client' = Push(client, Event(type, k, config, FALSE))
    /\ calls' = [calls EXCEPT ![k] = "queued"]
    /\ Notify
    /\ UNCHANGED <<tail, deferred, reconnects, phase, m_shutdown, io>>

\* The constructor without arguments, and the one that fills in a configuration of
\* the facade's own.
Construct ==
    /\ phase = "none" /\ phase' = "live"
    /\ deferred' \in Configs \cup {NoConfig}
    /\ UNCHANGED <<client, tail, calls, reconnects, worker, m_shutdown, io>>

\* The constructor with a configuration and a callback queues them, and does not
\* notify.
ConstructConfig(k, c) ==
    /\ phase = "none" /\ phase' = "live"
    /\ client' = Push(client, Event("UpdateConfig", k, c, FALSE))
    /\ calls' = [calls EXCEPT ![k] = "unnoticed"]
    /\ UNCHANGED <<tail, deferred, reconnects, worker, m_shutdown, io>>

\* The first setter creates that configuration; the model sets it before any call.
Configure(c) ==
    /\ phase = "live" /\ deferred = NoConfig
    /\ \A k \in Calls : calls[k] = "none"
    /\ deferred' = c
    /\ UNCHANGED <<client, tail, calls, reconnects, phase, worker, m_shutdown, io>>

\* connect() first queues a copy of it ...
ConnectConfig(k) ==
    /\ phase = "live" /\ calls[k] = "none" /\ deferred # NoConfig
    /\ client' = Push(client, Event("UpdateConfig", NoCall, deferred, FALSE))
    /\ calls' = [calls EXCEPT ![k] = "configured"]
    /\ UNCHANGED <<tail, deferred, reconnects, phase, worker, m_shutdown, io>>

\* ... and then the request; events of the io thread may come between.
Connect(k) ==
    /\ phase = "live"
    /\ calls[k] = IF deferred = NoConfig THEN "none" ELSE "configured"
    /\ Call(k, "RequestConnect", NoConfig)

Disconnect(k) ==
    phase = "live" /\ calls[k] = "none" /\ Call(k, "RequestDisconnect", NoConfig)

SetConfig(k, c) ==
    phase = "live" /\ calls[k] = "none" /\ Call(k, "UpdateConfig", c)

\* The destructor of the facade gives the worker a task that runs shutdown(); no
\* call is in progress.
Destroy ==
    /\ phase = "live" /\ \A k \in Calls : calls[k] # "configured"
    /\ phase' = "destroyed"
    /\ Notify
    /\ UNCHANGED <<client, tail, deferred, calls, reconnects, m_shutdown, io>>

-----------------------------------------------------------------------------
(* Members of the object                                                   *)

\* handle_close_event tells the user of a close only when connected.
HandleClose(o) == [o EXCEPT !.m_is_connected = FALSE]

\* Mutant: the events that wait are thrown away with the connection.
DropSocketAndEvents(o, s) ==
    [o EXCEPT !.socket = s, !.received = 0,
              !.connection = IF @ = "current" THEN "old" ELSE @,
              !.m_fsm_event_queue = <<>>]

\* The connection is destroyed and its handlers stop; what they queued stays.
DropSocket(o, s) ==
    [o EXCEPT !.socket = s, !.received = 0,
              !.connection = IF @ = "current" THEN "old" ELSE @,
              !.m_fsm_event_queue = [i \in DOMAIN @ |-> [@[i] EXCEPT !.cur = FALSE]]]

Deinit(o) == [DropSocket(o, "none") EXCEPT !.connection = "none"]

\* init_websocket has succeeded.  A connection still owned is replaced.
Connecting(o) ==
    [DropSocket(o, "connecting") EXCEPT !.m_is_running = TRUE,
                                        !.m_fsm_state = "CONNECTING"]

Stopped(o) == [o EXCEPT !.m_fsm_state = "STOPPED"]

Idle(o) == [o EXCEPT !.m_is_running = FALSE, !.m_fsm_state = "INIT"]

\* Mutant: a null configuration is not noticed.
CanInitNull(o) == o.m_config = NoConfig \/ o.m_config.valid

CanInit(o) == o.m_config # NoConfig /\ o.m_config.valid

\* Start a connection, or stop with an error event.
StartOrStop(o) == IF CanInit(o) THEN Connecting(o) ELSE Stopped(o)

\* Take a new configuration; a null one is stored too.
WithConfig(o, c) ==
    [o EXCEPT !.m_config = c,
              !.m_reconnect_attempt = IF c = NoConfig THEN @ ELSE 0]

CountAttempt(n) == IF n < AttemptCap THEN n + 1 ELSE n

\* ConnectionClosed or ConnectionError while connecting or working.
Dropped(o) ==
    LET gone == HandleClose(Deinit(o))
    IN  IF ~o.m_config.reconnect THEN Idle(gone)
        ELSE [gone EXCEPT !.m_reconnect_attempt = CountAttempt(@),
                          !.elapsed = FALSE,
                          !.m_is_running = TRUE,
                          !.m_fsm_state = "RECONNECTING"]

Opened(o) ==
    [o EXCEPT !.m_is_connected = TRUE, !.m_reconnect_attempt = 0,
              !.m_is_running = TRUE, !.m_fsm_state = "WORKING"]

Disconnected(o) ==
    Idle([HandleClose(Deinit(o)) EXCEPT !.m_reconnect_attempt = 0])

-----------------------------------------------------------------------------
(* process_fsm_state                                                       *)

\* The object after event e, in each state.
StateInit(o, e) ==
    CASE e.type = "RequestConnect" -> StartOrStop(o)
      [] e.type = "UpdateConfig"   -> [o EXCEPT !.m_config = e.config]
      [] OTHER                     -> o

StateConnecting(o, e) ==
    CASE e.type = "ConnectionOpened"  -> Opened(o)
      [] e.type \in {"ConnectionClosed", "ConnectionError"} -> Dropped(o)
      [] e.type = "RequestDisconnect" -> Disconnected(o)
      [] e.type = "UpdateConfig" ->
            StartOrStop(WithConfig(HandleClose(Deinit(o)), e.config))
      [] OTHER -> o

StateWorking(o, e) ==
    IF e.type = "ConnectionOpened" THEN o ELSE StateConnecting(o, e)

StateReconnecting(o, e) ==
    CASE e.type = "RequestDisconnect" -> Idle(o)
      [] e.type = "UpdateConfig"      -> StartOrStop(WithConfig(o, e.config))
      [] OTHER                        -> o

StateStopped(o, e) ==
    CASE e.type = "RequestConnect" -> StartOrStop(o)
      [] e.type = "UpdateConfig"   -> StartOrStop(WithConfig(o, e.config))
      [] OTHER                     -> o

AfterEvent(o, e) ==
    CASE o.m_fsm_state = "INIT"         -> StateInit(o, e)
      [] o.m_fsm_state = "CONNECTING"   -> StateConnecting(o, e)
      [] o.m_fsm_state = "WORKING"      -> StateWorking(o, e)
      [] o.m_fsm_state = "RECONNECTING" -> StateReconnecting(o, e)
      [] o.m_fsm_state = "STOPPED"      -> StateStopped(o, e)

\* What the callback of a request is told.
Reply(o, e) ==
    LET started == AfterEvent(o, e).m_fsm_state = "CONNECTING"
    IN  CASE e.type = "RequestConnect" ->
                o.m_fsm_state \in {"INIT", "STOPPED"} /\ started
          [] e.type = "RequestDisconnect" ->
                o.m_fsm_state \in {"CONNECTING", "WORKING", "RECONNECTING"}
          [] e.type = "UpdateConfig" ->
                IF o.m_fsm_state = "INIT" THEN e.config # NoConfig ELSE started

\* Mutant: one attempt too many.
AttemptsUsedUpLate(o) ==
    o.m_config.attempts # 0 /\ o.m_reconnect_attempt > o.m_config.attempts

\* The code of process_state_reconnecting after its switch.
AttemptsUsedUp(o) ==
    o.m_config.attempts # 0 /\ o.m_reconnect_attempt >= o.m_config.attempts

DelayOver(o) == o.elapsed \/ ~o.m_config.delay

MayRetry(o) ==
    /\ o.m_config # NoConfig /\ o.m_config.reconnect
    /\ ~AttemptsUsedUp(o) /\ DelayOver(o)

GivesUp(o) == o.m_config.reconnect => AttemptsUsedUp(o)

Reconnected(o) ==
    IF o.m_config = NoConfig THEN Stopped(o)
    ELSE IF GivesUp(o) THEN Idle(o)
    ELSE IF MayRetry(o) THEN StartOrStop(o) ELSE o

-----------------------------------------------------------------------------
(* Steps of the network worker                                             *)

Popped == [client EXCEPT !.m_fsm_event_queue = Tail(@)]

\* Handling e starts a connection; so does the rest of a pass in RECONNECTING.
StartsOn(o, e) ==
    /\ e.type \in {"RequestConnect", "UpdateConfig"}
    /\ Reply(o, e) /\ AfterEvent(o, e).m_fsm_state = "CONNECTING"

Restarts(o) == MayRetry(o) /\ CanInit(o)

\* Mutant: init_client does not wake the io thread.
NotifiedNot(starts) == io

\* init_client wakes the io thread.
Notified(starts) == [io EXCEPT !.notify = @ \/ starts]

\* The places where it makes passes over the client.
InShutdown == worker \in {"managers", "task"}
Passing == (worker = "awake" \/ InShutdown) /\ phase # "down"

\* deinit_websocket and create_client destroy a SimpleWeb client while they hold
\* m_client_mutex.  Its destructor waits for the handler that runs, and on_open
\* waits for the mutex.
Deadlocks(next) == client.socket = "opening" /\ next.socket # "opening"

HasEvent == Passing /\ ~tail /\ client.m_fsm_event_queue # <<>>

AtReconnect ==
    /\ Passing
    /\ \/ tail
       \/ client.m_fsm_state = "RECONNECTING" /\ client.m_fsm_event_queue = <<>>

\* A pass that finds an event.
HandleEvent ==
    LET e == Head(client.m_fsm_event_queue)
        next == AfterEvent(Popped, e)
    IN  /\ HasEvent /\ ~Deadlocks(next)
        /\ client' = next
        /\ calls' = IF e.call = NoCall THEN calls
                    ELSE [calls EXCEPT ![e.call] =
                            IF Reply(Popped, e) THEN "true" ELSE "false"]
        /\ tail' = (client.m_fsm_state = "RECONNECTING")
        /\ reconnects' = IF \/ e.type = "UpdateConfig" \/ StartsOn(Popped, e)
                            \/ e.type = "ConnectionOpened" /\ client.m_fsm_state = "CONNECTING"
                         THEN 0 ELSE reconnects
        /\ io' = Notified(StartsOn(Popped, e))
        /\ UNCHANGED <<deferred, phase, worker, m_shutdown>>

\* The rest of a pass in RECONNECTING, with or without an event before it.
TryReconnect ==
    /\ AtReconnect /\ ~Deadlocks(Reconnected(client))
    /\ client' = Reconnected(client)
    /\ tail' = FALSE
    /\ reconnects' = IF Restarts(client) THEN CountAttempt(reconnects) ELSE reconnects
    /\ io' = Notified(Restarts(client))
    /\ UNCHANGED <<deferred, calls, phase, worker, m_shutdown>>

\* A pass that comes to the mutex before on_open does: neither goes on.
Block ==
    /\ \/ /\ HasEvent /\ Deadlocks(AfterEvent(Popped, Head(client.m_fsm_event_queue)))
          /\ client' = Popped
       \/ /\ AtReconnect /\ Deadlocks(Reconnected(client))
          /\ UNCHANGED client
    /\ worker' = "blocked"
    /\ UNCHANGED <<tail, deferred, calls, reconnects, phase, m_shutdown, io>>

DelayPasses ==
    /\ client.m_fsm_state = "RECONNECTING" /\ ~DelayOver(client)
    /\ client' = [client EXCEPT !.elapsed = TRUE]
    /\ UNCHANGED <<tail, deferred, calls, reconnects, phase, worker, m_shutdown, io>>

\* shutdown() queues a disconnect and makes passes until nothing runs.
BeginShutdown(place) ==
    /\ client' = Push(client, Event("RequestDisconnect", NoCall, NoConfig, FALSE))
    /\ worker' = place
    /\ UNCHANGED <<tail, deferred, calls, reconnects, phase, m_shutdown, io>>

\* The worker runs the task of the destructor ...
RunTask ==
    worker = "awake" /\ phase = "destroyed" /\ ~tail /\ BeginShutdown("task")

\* ... after which the object is destroyed, without m_client_mutex.
TaskDone ==
    /\ worker = "task" /\ ~tail /\ ~IsRunning
    /\ client' = Deinit(client)
    /\ phase' = "down" /\ worker' = "awake"
    /\ UNCHANGED <<tail, deferred, calls, reconnects, m_shutdown, io>>

\* A worker that is to stop shuts its managers down, and they the clients that
\* live, destroyed facade or not ...
ManagerShutdown ==
    /\ worker = "awake" /\ m_shutdown /\ ~tail
    /\ phase \in {"live", "destroyed"} /\ BeginShutdown("managers")

\* ... and runs the tasks that are left; then its thread ends.
Ends ==
    /\ m_shutdown /\ ~tail
    /\ \/ worker = "managers" /\ ~IsRunning /\ phase # "destroyed"
       \/ worker = "awake" /\ phase \in {"none", "down"}
    /\ worker' = "ended"
    /\ UNCHANGED <<client, tail, deferred, calls, reconnects, phase, m_shutdown, io>>

RunLastTask ==
    worker = "managers" /\ ~tail /\ ~IsRunning /\ phase = "destroyed" /\ BeginShutdown("task")

\* The worker sleeps when is_loaded() finds nothing, and wakes when it is notified:
\* by stop(), and by whatever else it works for.
Sleep ==
    /\ worker = "awake" /\ ~m_shutdown
    /\ ~tail /\ ~IsRunning /\ phase # "destroyed"
    /\ worker' = "asleep"
    /\ UNCHANGED <<client, tail, deferred, calls, reconnects, phase, m_shutdown, io>>

Stop ==
    /\ AllowStop /\ ~m_shutdown /\ m_shutdown' = TRUE
    /\ Notify
    /\ UNCHANGED <<client, tail, deferred, calls, reconnects, phase, io>>

NotifiedByOthers ==
    /\ worker = "asleep" /\ Notify
    /\ UNCHANGED <<client, tail, deferred, calls, reconnects, phase, m_shutdown, io>>

-----------------------------------------------------------------------------
(* The io thread: handlers of the SimpleWeb client                         *)

\* It sleeps until the first notify() and then stays inside run().
IoWake ==
    /\ ~io.running /\ io.notify
    /\ io' = [running |-> TRUE, notify |-> FALSE]
    /\ UNCHANGED <<client, tail, deferred, calls, reconnects, phase, worker, m_shutdown>>

\* A handler of the connection in state from ends it, or keeps it, in state to, and
\* queues an event; add_fsm_event notifies the worker.
Handler(from, type, to) ==
    /\ io.running /\ phase # "down" /\ client.socket = from
    /\ client' = [Push(client, Event(type, NoCall, NoConfig, TRUE)) EXCEPT
                    !.socket = to,
                    !.connection = IF from = "opening" THEN "current" ELSE @,
                    !.received = @ + (IF type = "MessageReceived" THEN 1 ELSE 0)]
    /\ Notify
    /\ UNCHANGED <<tail, deferred, calls, reconnects, phase, m_shutdown, io>>

\* The handshake is over and on_open is called ...
Opens ==
    /\ io.running /\ phase # "down" /\ client.socket = "connecting"
    /\ client' = [client EXCEPT !.socket = "opening"]
    /\ UNCHANGED <<tail, deferred, calls, reconnects, phase, worker, m_shutdown, io>>

\* ... and stores the connection once it has m_client_mutex.
OnOpen == worker # "blocked" /\ Handler("opening", "ConnectionOpened", "open")

\* Mutant: the handler of an error while connecting queues nothing.
OnConnectErrorSilent ==
    /\ io.running /\ phase # "down" /\ client.socket = "connecting"
    /\ client' = [client EXCEPT !.socket = "ended"]
    /\ UNCHANGED <<tail, deferred, calls, reconnects, phase, worker, m_shutdown, io>>

\* Resolving, connecting, the proxy's answer or the handshake fail or time out.
OnConnectError == Handler("connecting", "ConnectionError", "ended")

OnMessage ==
    client.received < MaxMessages /\ Handler("open", "MessageReceived", "open")

OnClose == Handler("open", "ConnectionClosed", "ended")

OnError == Handler("open", "ConnectionError", "ended")

-----------------------------------------------------------------------------

User ==
    \/ Construct
    \/ \E c \in Configs : Configure(c)
    \/ \E k \in Calls : ConnectConfig(k) \/ Connect(k) \/ Disconnect(k)
    \/ \E k \in Calls, c \in Configs \cup {NoConfig} : ConstructConfig(k, c) \/ SetConfig(k, c)
    \/ Destroy

Passes == HandleEvent \/ TryReconnect \/ Block

Life == RunTask \/ TaskDone \/ ManagerShutdown \/ RunLastTask \/ Ends

Io == IoWake \/ Opens \/ OnOpen \/ OnConnectError \/ OnMessage \/ OnClose \/ OnError

Next ==
    User \/ Passes \/ Life \/ Sleep \/ DelayPasses \/ Io \/ Stop \/ NotifiedByOthers

Spec == Init /\ [][Next]_vars

\* A worker that is awake keeps making passes, time passes, the io thread wakes up,
\* an attempt to connect ends, a handler and a thread inside connect() go on.
\* Nobody has to call or to wake a worker that sleeps, and a server need neither
\* send nor close.
Fairness ==
    /\ WF_vars(Passes \/ Life)
    /\ WF_vars(DelayPasses)
    /\ WF_vars(IoWake)
    /\ WF_vars(Opens \/ OnConnectError)
    /\ WF_vars(OnOpen)
    /\ \A k \in Calls : WF_vars(Connect(k) /\ calls[k] = "configured")

FairSpec == Spec /\ Fairness

-----------------------------------------------------------------------------
(* Properties                                                              *)

Waits(types) ==
    \E i \in DOMAIN client.m_fsm_event_queue :
        LET e == client.m_fsm_event_queue[i] IN e.cur /\ e.type \in types

\* m_config is dereferenced without a test when a connection ends in CONNECTING
\* or WORKING: it is never null there, whatever set_config was given.
ConfigWhileActive ==
    client.m_fsm_state \in {"CONNECTING", "WORKING"} => client.m_config # NoConfig

\* A client that waits for its connection owns one that will still report: no
\* sequence of drops, reconfigurations and stale events leaves it waiting for a
\* connection that is gone.
ActiveHasSocket ==
    /\ client.m_fsm_state = "CONNECTING" =>
         \/ client.socket \in {"connecting", "opening"}
         \/ Waits({"ConnectionOpened", "ConnectionError"})
    /\ client.m_fsm_state = "WORKING" =>
         \/ client.socket \in {"connecting", "opening", "open"}
         \/ Waits({"ConnectionClosed", "ConnectionError"})

\* At most reconnect_attempts reconnections follow each other without one that
\* opened.  The failure that leads to RECONNECTING counts as an attempt, so it is
\* one fewer, except after a set_config that arrives in RECONNECTING, which starts
\* a connection and then falls through to the code that starts another.
ReconnectBound ==
    client.m_config # NoConfig /\ client.m_config.attempts # 0 =>
        reconnects <= client.m_config.attempts

\* Every call of connect, disconnect and set_config that the worker's thread is
\* still there for is answered, so the futures of connect_and_wait and
\* disconnect_and_wait become ready.  The constructor with a callback wakes nobody:
\* it is answered once something else keeps the worker awake.  A worker that is
\* blocked on on_open answers no one.
EveryCallAnswered ==
    \A k \in Calls :
        \/ calls[k] = "queued" /\ worker # "ended"
        \/ calls[k] = "unnoticed" /\ Passing
        ~> calls[k] \in {"true", "false"} \/ worker = "blocked"

\* A client neither waits for ever for its connection nor stays for ever between
\* two of them: what it waits for in CONNECTING and RECONNECTING happens, unless the
\* worker is blocked on on_open.
WaitingEnds ==
    /\ client.m_fsm_state = "CONNECTING" ~>
           client.m_fsm_state # "CONNECTING" \/ worker = "blocked"
    /\ client.m_fsm_state = "RECONNECTING" ~>
           client.m_fsm_state # "RECONNECTING" \/ worker = "blocked"

\* shutdown() comes to an end, unless the worker is blocked on on_open.
ShutdownReturns == InShutdown ~> ~InShutdown
=============================================================================
