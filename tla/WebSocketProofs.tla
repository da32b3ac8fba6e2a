-------------------------- MODULE WebSocketProofs ---------------------------
(***************************************************************************)
(* WebSocketClient and WebSocketSender for every set of configurations,    *)
(* tables of limits, calls and messages.                                   *)
(*                                                                         *)
(* A client that waits for its connection owns one that will still report, *)
(* and a configuration to reconnect with, and its reconnections are        *)
(* bounded.  The client with its send queue is such a client too; its      *)
(* windows bound the rate of what it sends, and no completed send is left  *)
(* without its callback.                                                   *)
(***************************************************************************)
EXTENDS WebSocketSender, FiniteSetTheorems, TLAPS

-----------------------------------------------------------------------------
(* Shapes                                                                  *)

States == {"INIT", "CONNECTING", "WORKING", "RECONNECTING", "STOPPED"}
Active == {"CONNECTING", "WORKING"}

Events == [type : Requests \cup NetworkEvents, call : Calls \cup {NoCall},
           config : Configs \cup {NoConfig}, cur : BOOLEAN]

Objects == [m_fsm_state : States, m_config : Configs \cup {NoConfig},
            m_is_running : BOOLEAN, m_is_connected : BOOLEAN,
            m_reconnect_attempt : Nat, m_fsm_event_queue : Seq(Events),
            elapsed : BOOLEAN, socket : {"none", "connecting", "opening", "open", "ended"},
            connection : {"none", "current", "old"}, received : Nat]

\* A queue holds an event of the current connection.
Holds(q, types) == \E i \in 1 .. Len(q) : q[i].cur /\ q[i].type \in types

\* In CONNECTING and WORKING, if the connection has ended its end is still to be
\* handled; in CONNECTING, so is its opening or its failure.
ActiveOK(o) ==
    o.m_fsm_state \in Active =>
        /\ o.m_is_running /\ o.m_config # NoConfig
        /\ o.socket # "none"
        /\ o.socket = "ended" =>
             Holds(o.m_fsm_event_queue, {"ConnectionClosed", "ConnectionError"})
        /\ o.m_fsm_state = "CONNECTING" /\ o.socket \notin {"connecting", "opening"} =>
             Holds(o.m_fsm_event_queue, {"ConnectionOpened", "ConnectionError"})

-----------------------------------------------------------------------------
(* Queues                                                                  *)

LEMMA HoldsAppend ==
    ASSUME NEW q \in Seq(Events), NEW e \in Events, NEW types
    PROVE  /\ Append(q, e) \in Seq(Events)
           /\ Holds(q, types) => Holds(Append(q, e), types)
           /\ e.cur /\ e.type \in types => Holds(Append(q, e), types)
<1>1. Append(q, e) \in Seq(Events) /\ Len(Append(q, e)) = Len(q) + 1
  OBVIOUS
<1>2. \A i \in 1 .. Len(q) : Append(q, e)[i] = q[i]
  OBVIOUS
<1>3. Append(q, e)[Len(q) + 1] = e
  OBVIOUS
<1>4. \A i \in 1 .. Len(q) : i \in 1 .. Len(q) + 1
  OBVIOUS
<1>5. Holds(q, types) => Holds(Append(q, e), types)
  BY <1>1, <1>2, <1>4 DEF Holds
<1>6. e.cur /\ e.type \in types => Holds(Append(q, e), types)
  <2>1. Len(q) + 1 \in 1 .. Len(Append(q, e))
    BY <1>1
  <2> QED
    BY <1>3, <2>1 DEF Holds
<1> QED
  BY <1>1, <1>5, <1>6

LEMMA HoldsTail ==
    ASSUME NEW q \in Seq(Events), q # <<>>, NEW types
    PROVE  /\ Head(q) \in Events /\ Tail(q) \in Seq(Events)
           /\ Holds(q, types) /\ Head(q).type \notin types => Holds(Tail(q), types)
<1>1. /\ Head(q) \in Events /\ Tail(q) \in Seq(Events) /\ Head(q) = q[1]
      /\ Len(Tail(q)) = Len(q) - 1 /\ Len(q) \in Nat
  OBVIOUS
<1>2. \A i \in 1 .. Len(q) - 1 : Tail(q)[i] = q[i + 1]
  OBVIOUS
<1>3. ASSUME Holds(q, types), Head(q).type \notin types
      PROVE  Holds(Tail(q), types)
  <2>1. PICK i \in 1 .. Len(q) : q[i].cur /\ q[i].type \in types
    BY <1>3 DEF Holds
  <2>2. i # 1
    BY <1>1, <1>3, <2>1
  <2>3. i - 1 \in 1 .. Len(q) - 1 /\ (i - 1) + 1 = i
    BY <1>1, <2>2
  <2>4. Tail(q)[i - 1] = q[i]
    BY <1>2, <2>3
  <2> QED
    BY <1>1, <2>1, <2>3, <2>4 DEF Holds
<1> QED
  BY <1>1, <1>3

\* Marking events as stale.
LEMMA StaleQueue ==
    ASSUME NEW q \in Seq(Events)
    PROVE  [i \in DOMAIN q |-> [q[i] EXCEPT !.cur = FALSE]] \in Seq(Events)
<1>1. \A i \in DOMAIN q : q[i] \in Events
  OBVIOUS
<1>2. \A e \in Events : [e EXCEPT !.cur = FALSE] \in Events
  BY Zenon DEF Events
<1>3. DOMAIN q = 1 .. Len(q) /\ Len(q) \in Nat
  OBVIOUS
<1> DEFINE p == [i \in 1 .. Len(q) |-> [q[i] EXCEPT !.cur = FALSE]]
<1>4. p \in [1 .. Len(q) -> Events]
  BY <1>1, <1>2, <1>3
<1> HIDE DEF p
<1>5. p \in Seq(Events)
  BY <1>3, <1>4
<1> QED
  BY <1>3, <1>5 DEF p


-----------------------------------------------------------------------------
(* Members                                                                 *)

LEMMA DropSocketShape ==
    ASSUME NEW o \in Objects, NEW s \in {"none", "connecting"}
    PROVE  /\ DropSocket(o, s) \in Objects
           /\ DropSocket(o, s).socket = s
           /\ DropSocket(o, s).m_config = o.m_config
           /\ DropSocket(o, s).m_fsm_state = o.m_fsm_state
           /\ DropSocket(o, s).m_reconnect_attempt = o.m_reconnect_attempt
<1> DEFINE q == [i \in DOMAIN o.m_fsm_event_queue |->
                   [o.m_fsm_event_queue[i] EXCEPT !.cur = FALSE]]
           d == [o EXCEPT !.socket = s, !.received = 0,
                          !.connection = IF @ = "current" THEN "old" ELSE @,
                          !.m_fsm_event_queue = q]
<1>1. o.m_fsm_event_queue \in Seq(Events)
  BY DEF Objects
<1>2. q \in Seq(Events)
  BY <1>1, StaleQueue
<1>3. DropSocket(o, s) = d
  BY DEF DropSocket
<1> HIDE DEF q
<1>4. /\ d \in Objects /\ d.socket = s /\ d.m_config = o.m_config
      /\ d.m_fsm_state = o.m_fsm_state /\ d.m_reconnect_attempt = o.m_reconnect_attempt
  BY <1>2, Zenon DEF Objects
<1> QED
  BY <1>3, <1>4

LEMMA DeinitShape ==
    ASSUME NEW o \in Objects
    PROVE  HandleClose(Deinit(o)) \in Objects
<1>1. DropSocket(o, "none") \in Objects
  BY DropSocketShape
<1>2. \A d \in Objects : [d EXCEPT !.connection = "none"] \in Objects
  BY Zenon DEF Objects
<1>3. \A d \in Objects : [d EXCEPT !.m_is_connected = FALSE] \in Objects
  BY Zenon DEF Objects
<1> QED
  BY <1>1, <1>2, <1>3, Zenon DEF Deinit, HandleClose

LEMMA DeinitIdle ==
    ASSUME NEW o \in Objects
    PROVE  Deinit(o) \in Objects /\ Deinit(o).m_fsm_state = o.m_fsm_state
<1>1. DropSocket(o, "none") \in Objects /\ DropSocket(o, "none").m_fsm_state = o.m_fsm_state
  BY DropSocketShape
<1>2. \A d \in Objects : /\ [d EXCEPT !.connection = "none"] \in Objects
                         /\ [d EXCEPT !.connection = "none"].m_fsm_state = d.m_fsm_state
  BY Zenon DEF Objects
<1> QED
  BY <1>1, <1>2 DEF Deinit

\* init_websocket leaves a connection that will report, or the client stops.
LEMMA StartOrStopOK ==
    ASSUME NEW o \in Objects
    PROVE  StartOrStop(o) \in Objects /\ ActiveOK(StartOrStop(o))
<1>1. CASE CanInit(o)
  <2> DEFINE d == DropSocket(o, "connecting")
             c == [d EXCEPT !.m_is_running = TRUE, !.m_fsm_state = "CONNECTING"]
  <2>1. d \in Objects /\ d.socket = "connecting" /\ d.m_config = o.m_config
    BY DropSocketShape
  <2>2. StartOrStop(o) = c
    BY <1>1 DEF StartOrStop, Connecting
  <2>3. o.m_config # NoConfig
    BY <1>1 DEF CanInit
  <2> HIDE DEF d
  <2>4. c \in Objects /\ c.m_is_running = TRUE /\ c.m_config = d.m_config /\ c.socket = d.socket
    BY <2>1, Zenon DEF Objects, States
  <2> QED
    BY <2>1, <2>2, <2>3, <2>4 DEF ActiveOK
<1>2. CASE ~CanInit(o)
  <2>1. StartOrStop(o) = [o EXCEPT !.m_fsm_state = "STOPPED"]
    BY <1>2 DEF StartOrStop, Stopped
  <2> QED
    BY <2>1 DEF Objects, States, ActiveOK, Active
<1> QED
  BY <1>1, <1>2

LEMMA IdleOK ==
    ASSUME NEW o \in Objects
    PROVE  Idle(o) \in Objects /\ ActiveOK(Idle(o))
BY Zenon DEF Idle, Objects, States, ActiveOK, Active

LEMMA WithConfigShape ==
    ASSUME NEW o \in Objects, NEW c \in Configs \cup {NoConfig}
    PROVE  WithConfig(o, c) \in Objects
BY Zenon DEF WithConfig, Objects

LEMMA DroppedOK ==
    ASSUME NEW o \in Objects
    PROVE  Dropped(o) \in Objects /\ ActiveOK(Dropped(o))
<1> DEFINE gone == HandleClose(Deinit(o))
           r == [gone EXCEPT !.m_reconnect_attempt = CountAttempt(@),
                             !.elapsed = FALSE,
                             !.m_is_running = TRUE,
                             !.m_fsm_state = "RECONNECTING"]
<1>1. gone \in Objects
  BY DeinitShape
<1>2. Dropped(o) = Idle(gone) \/ Dropped(o) = r
  BY DEF Dropped
<1> HIDE DEF gone
<1>3. CountAttempt(gone.m_reconnect_attempt) \in Nat
  BY <1>1 DEF Objects, CountAttempt
<1>4. r \in Objects /\ ActiveOK(r)
  BY <1>1, <1>3, Zenon DEF Objects, States, ActiveOK, Active
<1> QED
  BY <1>1, <1>2, <1>4, IdleOK

LEMMA DisconnectedOK ==
    ASSUME NEW o \in Objects
    PROVE  Disconnected(o) \in Objects /\ ActiveOK(Disconnected(o))
<1> DEFINE gone == HandleClose(Deinit(o))
<1>1. gone \in Objects
  BY DeinitShape
<1> HIDE DEF gone
<1>2. [gone EXCEPT !.m_reconnect_attempt = 0] \in Objects
  BY <1>1, Zenon DEF Objects
<1>3. Disconnected(o) = Idle([gone EXCEPT !.m_reconnect_attempt = 0])
  BY DEF Disconnected, gone
<1> QED
  BY <1>2, <1>3, IdleOK


-----------------------------------------------------------------------------
(* process_fsm_state                                                       *)

\* The object with its first event taken.
LEMMA PoppedShape ==
    ASSUME client \in Objects, client.m_fsm_event_queue # <<>>
    PROVE  /\ Popped \in Objects
           /\ Popped.m_fsm_event_queue = Tail(client.m_fsm_event_queue)
           /\ Popped.m_fsm_state = client.m_fsm_state
           /\ Popped.m_is_running = client.m_is_running
           /\ Popped.m_config = client.m_config
           /\ Popped.socket = client.socket
<1> DEFINE q == client.m_fsm_event_queue
<1>1. q \in Seq(Events)
  BY DEF Objects
<1>2. Tail(q) \in Seq(Events)
  BY <1>1, HoldsTail
<1> DEFINE t == Tail(q)
<1> HIDE DEF t
<1>3. Popped = [client EXCEPT !.m_fsm_event_queue = t]
  BY DEF Popped, t
<1> QED
  BY <1>2, <1>3, Zenon DEF Objects, t

\* An event that means nothing to the client.
LEMMA IgnoredOK ==
    ASSUME client \in Objects, ActiveOK(client), client.m_fsm_event_queue # <<>>,
           \/ client.m_fsm_state \notin Active
           \/ Head(client.m_fsm_event_queue).type \in
                {"MessageReceived", "RequestConnect"}
           \/ /\ client.m_fsm_state = "WORKING"
              /\ Head(client.m_fsm_event_queue).type = "ConnectionOpened"
    PROVE  Popped \in Objects /\ ActiveOK(Popped)
<1> DEFINE q == client.m_fsm_event_queue
<1>1. q \in Seq(Events)
  BY DEF Objects
<1>2. ASSUME NEW types, Head(q).type \notin types, Holds(q, types)
      PROVE  Holds(Tail(q), types)
  BY <1>1, <1>2, HoldsTail
<1>3. CASE client.m_fsm_state \notin Active
  BY <1>3, PoppedShape DEF ActiveOK
<1>4. CASE Head(q).type \in {"MessageReceived", "RequestConnect"}
  <2>1. /\ Head(q).type \notin {"ConnectionClosed", "ConnectionError"}
        /\ Head(q).type \notin {"ConnectionOpened", "ConnectionError"}
    BY <1>4
  <2> QED
    BY <1>2, <2>1, PoppedShape DEF ActiveOK
<1>5. CASE client.m_fsm_state = "WORKING" /\ Head(q).type = "ConnectionOpened"
  <2>1. Head(q).type \notin {"ConnectionClosed", "ConnectionError"}
    BY <1>5
  <2> QED
    BY <1>2, <1>5, <2>1, PoppedShape DEF ActiveOK
<1> QED
  BY <1>3, <1>4, <1>5

\* The connection has opened.
LEMMA OpenedOK ==
    ASSUME client \in Objects, ActiveOK(client), client.m_fsm_event_queue # <<>>,
           client.m_fsm_state = "CONNECTING",
           Head(client.m_fsm_event_queue).type = "ConnectionOpened"
    PROVE  Opened(Popped) \in Objects /\ ActiveOK(Opened(Popped))
<1> DEFINE q == client.m_fsm_event_queue
           p == Popped
           w == Opened(p)
           ends == {"ConnectionClosed", "ConnectionError"}
<1>1. q \in Seq(Events) /\ Head(q).type \notin ends
  BY DEF Objects
<1>2. Holds(q, ends) => Holds(Tail(q), ends)
  BY <1>1, HoldsTail
<1>3. /\ p \in Objects /\ p.m_fsm_event_queue = Tail(q)
      /\ p.m_config # NoConfig /\ p.socket # "none"
      /\ p.socket = "ended" => Holds(Tail(q), ends)
  BY <1>2, PoppedShape DEF ActiveOK, Active
<1> HIDE DEF p
<1>4. /\ w \in Objects /\ w.m_fsm_state = "WORKING" /\ w.m_is_running = TRUE
      /\ w.m_config = p.m_config /\ w.socket = p.socket
      /\ w.m_fsm_event_queue = p.m_fsm_event_queue
  BY <1>3, Zenon DEF Opened, Objects, States
<1>5. ActiveOK(w)
  BY <1>3, <1>4 DEF ActiveOK
<1> QED
  BY <1>4, <1>5 DEF p

LEMMA AfterEventOK ==
    ASSUME client \in Objects, ActiveOK(client), client.m_fsm_event_queue # <<>>
    PROVE  LET n == AfterEvent(Popped, Head(client.m_fsm_event_queue))
           IN  n \in Objects /\ ActiveOK(n)
<1> DEFINE o == Popped
           e == Head(client.m_fsm_event_queue)
           OK(n) == n \in Objects /\ ActiveOK(n)
<1>1. o \in Objects /\ o.m_fsm_state = client.m_fsm_state
  BY PoppedShape
<1>2. e \in Events
  <2>1. client.m_fsm_event_queue \in Seq(Events)
    BY DEF Objects
  <2> QED
    BY <2>1, HoldsTail
<1>3. e.type \in Requests \cup NetworkEvents /\ e.config \in Configs \cup {NoConfig}
  BY <1>2 DEF Events
<1>4. OK(StartOrStop(o)) /\ OK(Idle(o)) /\ OK(Dropped(o)) /\ OK(Disconnected(o))
  BY <1>1, StartOrStopOK, IdleOK, DroppedOK, DisconnectedOK
<1>5. OK(StartOrStop(WithConfig(o, e.config)))
  BY <1>1, <1>3, WithConfigShape, StartOrStopOK
<1>6. OK(StartOrStop(WithConfig(HandleClose(Deinit(o)), e.config)))
  BY <1>1, <1>3, DeinitShape, WithConfigShape, StartOrStopOK
<1>7. client.m_fsm_state \notin Active => OK(o)
  BY IgnoredOK
<1>8. CASE client.m_fsm_state = "INIT"
  <2> DEFINE c == [o EXCEPT !.m_config = e.config]
  <2>1. OK(c)
    BY <1>1, <1>3, <1>8, Zenon DEF Objects, ActiveOK, Active
  <2>2. OK(o)
    BY <1>7, <1>8 DEF Active
  <2>3. AfterEvent(o, e) = StateInit(o, e)
    BY <1>1, <1>8 DEF AfterEvent
  <2>4. StateInit(o, e) = StartOrStop(o) \/ StateInit(o, e) = c \/ StateInit(o, e) = o
    BY DEF StateInit
  <2> HIDE DEF o, e, c, OK
  <2>5. OK(AfterEvent(o, e))
    BY <1>4, <2>1, <2>2, <2>3, <2>4
  <2> QED
    BY <2>5 DEF OK, o, e
<1>9. ASSUME e.type # "ConnectionOpened" \/ client.m_fsm_state = "CONNECTING",
             client.m_fsm_state \in Active
      PROVE  OK(StateConnecting(o, e))
  <2>1. CASE e.type = "ConnectionOpened"
    <3>1. StateConnecting(o, e) = Opened(o)
      BY <2>1 DEF StateConnecting
    <3>2. OK(Opened(o))
      BY <1>9, <2>1, OpenedOK
    <3> QED
      BY <3>1, <3>2
  <2>2. CASE e.type \in {"ConnectionClosed", "ConnectionError"}
    <3>1. StateConnecting(o, e) = Dropped(o)
      BY <2>2 DEF StateConnecting
    <3> QED
      BY <1>4, <3>1
  <2>3. CASE e.type = "RequestDisconnect"
    <3>1. StateConnecting(o, e) = Disconnected(o)
      BY <2>3 DEF StateConnecting
    <3> QED
      BY <1>4, <3>1
  <2>4. CASE e.type = "UpdateConfig"
    <3>1. StateConnecting(o, e) = StartOrStop(WithConfig(HandleClose(Deinit(o)), e.config))
      BY <2>4 DEF StateConnecting
    <3> QED
      BY <1>6, <3>1
  <2>5. CASE e.type \in {"MessageReceived", "RequestConnect"}
    <3>1. StateConnecting(o, e) = o
      BY <2>5 DEF StateConnecting
    <3>2. OK(o)
      BY <2>5, IgnoredOK
    <3> QED
      BY <3>1, <3>2
  <2> QED
    BY <1>3, <2>1, <2>2, <2>3, <2>4, <2>5 DEF Requests, NetworkEvents
<1>10. CASE client.m_fsm_state = "CONNECTING"
  <2>1. AfterEvent(o, e) = StateConnecting(o, e)
    BY <1>1, <1>10 DEF AfterEvent
  <2> QED
    BY <1>9, <1>10, <2>1 DEF Active
<1>11. CASE client.m_fsm_state = "WORKING"
  <2>1. AfterEvent(o, e) = StateWorking(o, e)
    BY <1>1, <1>11 DEF AfterEvent
  <2>2. CASE e.type = "ConnectionOpened"
    <3>1. OK(o)
      BY <1>11, <2>2, IgnoredOK
    <3> QED
      BY <2>1, <2>2, <3>1 DEF StateWorking
  <2>3. CASE e.type # "ConnectionOpened"
    <3>1. StateWorking(o, e) = StateConnecting(o, e)
      BY <2>3 DEF StateWorking
    <3> QED
      BY <1>9, <1>11, <2>1, <2>3, <3>1 DEF Active
  <2> QED
    BY <2>2, <2>3
<1>12. CASE client.m_fsm_state = "RECONNECTING"
  <2>1. AfterEvent(o, e) = StateReconnecting(o, e)
    BY <1>1, <1>12 DEF AfterEvent
  <2>2. \/ StateReconnecting(o, e) = Idle(o)
        \/ StateReconnecting(o, e) = StartOrStop(WithConfig(o, e.config))
        \/ StateReconnecting(o, e) = o
    BY DEF StateReconnecting
  <2>3. OK(o)
    BY <1>7, <1>12 DEF Active
  <2> HIDE DEF o, e, OK
  <2>4. OK(AfterEvent(o, e))
    BY <1>4, <1>5, <2>1, <2>2, <2>3
  <2> QED
    BY <2>4 DEF OK, o, e
<1>13. CASE client.m_fsm_state = "STOPPED"
  <2>1. AfterEvent(o, e) = StateStopped(o, e)
    BY <1>1, <1>13 DEF AfterEvent
  <2>2. \/ StateStopped(o, e) = StartOrStop(o)
        \/ StateStopped(o, e) = StartOrStop(WithConfig(o, e.config))
        \/ StateStopped(o, e) = o
    BY DEF StateStopped
  <2>3. OK(o)
    BY <1>7, <1>13 DEF Active
  <2> HIDE DEF o, e, OK
  <2>4. OK(AfterEvent(o, e))
    BY <1>4, <1>5, <2>1, <2>2, <2>3
  <2> QED
    BY <2>4 DEF OK, o, e
<1> QED
  BY <1>8, <1>10, <1>11, <1>12, <1>13 DEF Objects, States


-----------------------------------------------------------------------------
(* The system                                                              *)

Inv ==
    /\ client \in Objects
    /\ ActiveOK(client)
    /\ deferred \in Configs \cup {NoConfig}

\* An event is queued; the adapter may have changed its connection.
LEMMA PushOK ==
    ASSUME client \in Objects, ActiveOK(client), NEW e \in Events
    PROVE  Push(client, e) \in Objects /\ ActiveOK(Push(client, e))
<1> DEFINE q == client.m_fsm_event_queue
           p == Append(q, e)
<1>1. q \in Seq(Events)
  BY DEF Objects
<1>2. p \in Seq(Events) /\ \A types : Holds(q, types) => Holds(p, types)
  BY <1>1, HoldsAppend
<1>3. Push(client, e) = [client EXCEPT !.m_fsm_event_queue = p]
  BY DEF Push
<1> HIDE DEF p
<1>4. /\ Push(client, e) \in Objects
      /\ Push(client, e).m_fsm_event_queue = p
      /\ Push(client, e).m_fsm_state = client.m_fsm_state
      /\ Push(client, e).m_is_running = client.m_is_running
      /\ Push(client, e).m_config = client.m_config
      /\ Push(client, e).socket = client.socket
  BY <1>2, <1>3 DEF Objects
<1> QED
  BY <1>2, <1>4 DEF ActiveOK

LEMMA HandlerOK ==
    ASSUME client \in Objects, ActiveOK(client), NEW from, NEW type, NEW to,
           Handler(from, type, to),
           \/ from = "opening" /\ type = "ConnectionOpened" /\ to = "open"
           \/ from = "connecting" /\ type = "ConnectionError" /\ to = "ended"
           \/ from = "open" /\ type = "MessageReceived" /\ to = "open"
           \/ from = "open" /\ type \in {"ConnectionClosed", "ConnectionError"} /\ to = "ended"
    PROVE  client' \in Objects /\ ActiveOK(client')
<1> DEFINE q == client.m_fsm_event_queue
           e == Event(type, NoCall, NoConfig, TRUE)
           p == Append(q, e)
           s == IF from = "opening" THEN "current" ELSE client.connection
           k == client.received + (IF type = "MessageReceived" THEN 1 ELSE 0)
<1>1. q \in Seq(Events) /\ e \in Events /\ e.cur = TRUE /\ e.type = type
  BY DEF Objects, Events, Event, Requests, NetworkEvents
<1> HIDE DEF e
<1>2. /\ p \in Seq(Events)
      /\ \A types : Holds(q, types) => Holds(p, types)
      /\ \A types : type \in types => Holds(p, types)
  BY <1>1, HoldsAppend
<1>3. s \in {"none", "current", "old"} /\ k \in Nat
  BY DEF Objects
<1>4. client' = [client EXCEPT !.m_fsm_event_queue = p, !.socket = to, !.connection = s,
                               !.received = k]
  BY DEF Handler, Push, Objects, e
<1>5. client.socket = from
  BY DEF Handler
<1> HIDE DEF p, s, k
<1>6. /\ client' \in Objects
      /\ client'.m_fsm_event_queue = p
      /\ client'.m_fsm_state = client.m_fsm_state
      /\ client'.m_is_running = client.m_is_running
      /\ client'.m_config = client.m_config
      /\ client'.socket = to
  BY <1>2, <1>3, <1>4, Zenon DEF Objects
<1>7. to = "ended" => Holds(p, {"ConnectionClosed", "ConnectionError"})
  BY <1>2
<1>8. client.m_fsm_state = "CONNECTING" => Holds(p, {"ConnectionOpened", "ConnectionError"})
  <2>1. CASE from \in {"connecting", "opening"}
    BY <1>2, <2>1
  <2>2. CASE from = "open"
    BY <1>2, <1>5, <2>2 DEF ActiveOK, Active
  <2> QED
    BY <2>1, <2>2
<1> QED
  BY <1>6, <1>7, <1>8 DEF ActiveOK, Active

\* Of an object only what ActiveOK reads.
LEMMA ActiveFrame ==
    ASSUME NEW o, NEW d, ActiveOK(o),
           d.m_fsm_event_queue = o.m_fsm_event_queue, d.m_fsm_state = o.m_fsm_state,
           d.m_is_running = o.m_is_running, d.m_config = o.m_config,
           \/ d.socket = o.socket
           \/ o.socket = "connecting" /\ d.socket = "opening"
    PROVE  ActiveOK(d)
BY DEF ActiveOK

\* A pass that destroys the connection in on_open: its event is gone.
LEMMA BlockOK ==
    ASSUME client \in Objects, ActiveOK(client), Block
    PROVE  client' \in Objects /\ ActiveOK(client')
<1>1. CASE UNCHANGED client
  BY <1>1
<1>2. CASE client' = Popped /\ HasEvent /\ client.socket = "opening"
  <2>1. /\ client' \in Objects /\ client'.socket = "opening"
        /\ client'.m_fsm_state = client.m_fsm_state
        /\ client'.m_is_running = client.m_is_running
        /\ client'.m_config = client.m_config
    BY <1>2, PoppedShape DEF HasEvent
  <2> QED
    BY <2>1 DEF ActiveOK
<1> QED
  BY <1>1, <1>2 DEF Block, Deadlocks

LEMMA InvStep ==
    ASSUME Inv, [Next]_vars
    PROVE  Inv'
<1> USE DEF Inv
<1>1. ASSUME NEW c \in Configs, Configure(c)
      PROVE  Inv'
  BY <1>1 DEF Configure
<1>2. ASSUME NEW e \in Events, client' = Push(client, e), UNCHANGED deferred
      PROVE  Inv'
  BY <1>2, PushOK
<1>3. CASE \E k \in Calls : ConnectConfig(k) \/ Connect(k) \/ Disconnect(k)
  <2>1. PICK k \in Calls : ConnectConfig(k) \/ Connect(k) \/ Disconnect(k)
    BY <1>3
  <2>2. CASE ConnectConfig(k)
    <3>1. Event("UpdateConfig", NoCall, deferred, FALSE) \in Events
      BY DEF Event, Events, Requests
    <3> QED
      BY <1>2, <2>2, <3>1, Zenon DEF ConnectConfig
  <2>3. CASE Connect(k)
    <3>1. Event("RequestConnect", k, NoConfig, FALSE) \in Events
      BY DEF Event, Events, Requests
    <3> QED
      BY <1>2, <2>3, <3>1, Zenon DEF Connect, Call
  <2>4. CASE Disconnect(k)
    <3>1. Event("RequestDisconnect", k, NoConfig, FALSE) \in Events
      BY DEF Event, Events, Requests
    <3> QED
      BY <1>2, <2>4, <3>1, Zenon DEF Disconnect, Call
  <2> QED
    BY <2>1, <2>2, <2>3, <2>4
<1>4. ASSUME NEW k \in Calls, NEW c \in Configs \cup {NoConfig},
             ConstructConfig(k, c) \/ SetConfig(k, c)
      PROVE  Inv'
  <2>1. Event("UpdateConfig", k, c, FALSE) \in Events
    BY DEF Event, Events, Requests
  <2> QED
    BY <1>2, <1>4, <2>1, Zenon DEF ConstructConfig, SetConfig, Call
<1>5. CASE HandleEvent
  <2>1. /\ client.m_fsm_event_queue # <<>> /\ UNCHANGED deferred
        /\ client' = AfterEvent(Popped, Head(client.m_fsm_event_queue))
    BY <1>5 DEF HandleEvent, HasEvent
  <2> QED
    BY <2>1, AfterEventOK
<1>6. CASE TryReconnect
  <2>1. client' = Reconnected(client) /\ UNCHANGED deferred
    BY <1>6 DEF TryReconnect
  <2>2. \/ Reconnected(client) = Stopped(client)
        \/ Reconnected(client) = Idle(client)
        \/ Reconnected(client) = StartOrStop(client)
        \/ Reconnected(client) = client
    BY DEF Reconnected
  <2>3. Stopped(client) \in Objects /\ ActiveOK(Stopped(client))
    BY DEF Stopped, Objects, States, ActiveOK, Active
  <2> QED
    BY <2>1, <2>2, <2>3, IdleOK, StartOrStopOK
<1>7. CASE DelayPasses
  <2>1. client' = [client EXCEPT !.elapsed = TRUE] /\ UNCHANGED deferred
    BY <1>7 DEF DelayPasses
  <2>2. /\ client' \in Objects
        /\ client'.m_fsm_event_queue = client.m_fsm_event_queue
        /\ client'.m_fsm_state = client.m_fsm_state
        /\ client'.m_is_running = client.m_is_running
        /\ client'.m_config = client.m_config
        /\ client'.socket = client.socket
    BY <2>1, Zenon DEF Objects
  <2> QED
    BY <2>1, <2>2, ActiveFrame
<1>8. CASE RunTask \/ ManagerShutdown \/ RunLastTask
  <2>1. Event("RequestDisconnect", NoCall, NoConfig, FALSE) \in Events
    BY DEF Event, Events, Requests
  <2> QED
    BY <1>2, <1>8, <2>1, Zenon DEF RunTask, ManagerShutdown, RunLastTask, BeginShutdown
<1>9. CASE TaskDone
  <2>1. client' = Deinit(client) /\ UNCHANGED deferred /\ client.m_fsm_state \notin Active
    BY <1>9 DEF TaskDone, IsRunning, ActiveOK
  <2> QED
    BY <2>1, DeinitIdle DEF ActiveOK
<1>10. CASE OnOpen \/ OnConnectError \/ OnMessage \/ OnClose \/ OnError
  <2>1. UNCHANGED deferred
    BY <1>10 DEF OnOpen, OnConnectError, OnMessage, OnClose, OnError, Handler
  <2> QED
    BY <1>10, <2>1, HandlerOK DEF OnOpen, OnConnectError, OnMessage, OnClose, OnError
<1>11. CASE \/ Destroy \/ IoWake \/ Ends \/ Sleep \/ Stop \/ NotifiedByOthers
            \/ UNCHANGED vars
  BY <1>11 DEF Destroy, IoWake, Ends, Sleep, Stop, NotifiedByOthers, vars
<1>12. CASE Construct
  BY <1>12 DEF Construct
<1>13. CASE Block
  BY <1>13, BlockOK DEF Block
<1>14. CASE Opens
  <2>1. /\ client' = [client EXCEPT !.socket = "opening"] /\ UNCHANGED deferred
        /\ client.socket = "connecting"
    BY <1>14 DEF Opens
  <2>2. /\ client' \in Objects /\ client'.socket = "opening"
        /\ client'.m_fsm_event_queue = client.m_fsm_event_queue
        /\ client'.m_fsm_state = client.m_fsm_state
        /\ client'.m_is_running = client.m_is_running
        /\ client'.m_config = client.m_config
    BY <2>1, Zenon DEF Objects
  <2> QED
    BY <2>1, <2>2, ActiveFrame
<1> QED
  BY <1>1, <1>3, <1>4, <1>5, <1>6, <1>7, <1>8, <1>9, <1>10, <1>11, <1>12, <1>13, <1>14
  DEF Next, User, Passes, Life, Io

LEMMA InvInit ==
    ASSUME Init
    PROVE  Inv
BY DEF Init, Inv, Objects, States, ActiveOK, Active

\* For every set of configurations and calls, whatever is dropped, reconfigured
\* or still queued from an older connection: a client in CONNECTING or WORKING
\* owns a connection that will report, or has its report in the queue.
THEOREM NeverStranded == Spec => []ActiveHasSocket
<1>1. Inv => ActiveHasSocket
  <2> SUFFICES ASSUME Inv PROVE ActiveHasSocket
    OBVIOUS
  <2> DEFINE q == client.m_fsm_event_queue
  <2>1. /\ q \in Seq(Events)
        /\ client.socket \in {"none", "connecting", "opening", "open", "ended"}
    BY DEF Inv, Objects
  <2>2. DOMAIN q = 1 .. Len(q)
    BY <2>1
  <2>3. \A types : Waits(types) <=> Holds(q, types)
    BY <2>2 DEF Waits, Holds
  <2> QED
    BY <2>1, <2>3 DEF Inv, ActiveOK, Active, ActiveHasSocket
<1> QED
  BY <1>1, InvInit, InvStep, PTL DEF Spec

\* For every set of configurations and calls: m_config is not null where
\* process_state_connecting and process_state_working dereference it.
THEOREM ConfigNeverNull == Spec => []ConfigWhileActive
<1>1. Inv => ConfigWhileActive
  BY DEF Inv, ActiveOK, Active, ConfigWhileActive
<1> QED
  BY <1>1, InvInit, InvStep, PTL DEF Spec

-----------------------------------------------------------------------------
(* Counting reconnections                                                  *)

\* In an open or opening connection there was at most one reconnection more than
\* failures counted; the next failure is counted before the next reconnection.
ReconnectInv ==
    /\ reconnects \in 0 .. AttemptCap
    /\ client.m_fsm_state \in Active => reconnects <= client.m_reconnect_attempt + 1
    /\ tail \/ client.m_fsm_state = "RECONNECTING" =>
         reconnects <= client.m_reconnect_attempt
    /\ ReconnectBound

\* The fields that matter here, in an object and in what a member makes of it.
SameCount(o, d) ==
    o.m_config = d.m_config /\ o.m_reconnect_attempt = d.m_reconnect_attempt

LEMMA DeinitCount ==
    ASSUME NEW o \in Objects
    PROVE  /\ HandleClose(Deinit(o)) \in Objects
           /\ SameCount(HandleClose(Deinit(o)), o) /\ SameCount(Deinit(o), o)
<1> DEFINE d == DropSocket(o, "none")
<1>1. d \in Objects /\ d.m_config = o.m_config /\ d.m_reconnect_attempt = o.m_reconnect_attempt
  BY DropSocketShape
<1> HIDE DEF d
<1>2. \A x \in Objects : SameCount([x EXCEPT !.connection = "none"], x)
  BY Zenon DEF Objects, SameCount
<1>3. \A x \in Objects : SameCount([x EXCEPT !.m_is_connected = FALSE], x)
  BY Zenon DEF Objects, SameCount
<1>4. Deinit(o) = [d EXCEPT !.connection = "none"]
  BY DEF Deinit, d
<1>5. HandleClose(Deinit(o)) = [Deinit(o) EXCEPT !.m_is_connected = FALSE]
  BY DEF HandleClose
<1>6. Deinit(o) \in Objects /\ HandleClose(Deinit(o)) \in Objects
  BY DeinitIdle, DeinitShape
<1> QED
  BY <1>1, <1>2, <1>3, <1>4, <1>5, <1>6, ZenonT(30) DEF SameCount

LEMMA StartOrStopCount ==
    ASSUME NEW o \in Objects
    PROVE  /\ SameCount(StartOrStop(o), o)
           /\ StartOrStop(o).m_fsm_state = IF CanInit(o) THEN "CONNECTING" ELSE "STOPPED"
<1> DEFINE d == DropSocket(o, "connecting")
<1>1. d \in Objects /\ d.m_config = o.m_config /\ d.m_reconnect_attempt = o.m_reconnect_attempt
  BY DropSocketShape
<1> HIDE DEF d
<1>2. StartOrStop(o) = IF CanInit(o)
                       THEN [d EXCEPT !.m_is_running = TRUE, !.m_fsm_state = "CONNECTING"]
                       ELSE [o EXCEPT !.m_fsm_state = "STOPPED"]
  BY DEF StartOrStop, Connecting, Stopped, d
<1>3. \A x \in Objects :
        LET y == [x EXCEPT !.m_is_running = TRUE, !.m_fsm_state = "CONNECTING"]
            z == [x EXCEPT !.m_fsm_state = "STOPPED"]
        IN  /\ SameCount(y, x) /\ y.m_fsm_state = "CONNECTING"
            /\ SameCount(z, x) /\ z.m_fsm_state = "STOPPED"
  BY Zenon DEF Objects, SameCount
<1> QED
  BY <1>1, <1>2, <1>3 DEF SameCount

LEMMA IdleCount ==
    ASSUME NEW o \in Objects
    PROVE  SameCount(Idle(o), o) /\ Idle(o).m_fsm_state = "INIT"
BY Zenon DEF Idle, Objects, SameCount

\* A connection that ends is counted, or the client is idle.
LEMMA DroppedCount ==
    ASSUME NEW o \in Objects
    PROVE  /\ Dropped(o).m_config = o.m_config
           /\ \/ Dropped(o).m_fsm_state = "INIT"
              \/ /\ Dropped(o).m_fsm_state = "RECONNECTING"
                 /\ Dropped(o).m_reconnect_attempt = CountAttempt(o.m_reconnect_attempt)
<1> DEFINE gone == HandleClose(Deinit(o))
           n == CountAttempt(gone.m_reconnect_attempt)
           r == [gone EXCEPT !.m_reconnect_attempt = n, !.elapsed = FALSE,
                             !.m_is_running = TRUE, !.m_fsm_state = "RECONNECTING"]
<1>1. gone \in Objects /\ SameCount(gone, o)
  BY DeinitCount
<1>2. Dropped(o) = Idle(gone) \/ Dropped(o) = r
  BY DEF Dropped
<1>3. n = CountAttempt(o.m_reconnect_attempt)
  BY <1>1 DEF SameCount
<1> HIDE DEF gone, n
<1>4. /\ r.m_config = gone.m_config /\ r.m_fsm_state = "RECONNECTING"
      /\ r.m_reconnect_attempt = n
  BY <1>1, Zenon DEF Objects
<1> QED
  BY <1>1, <1>2, <1>3, <1>4, IdleCount, Zenon DEF SameCount

LEMMA DisconnectedCount ==
    ASSUME NEW o \in Objects
    PROVE  Disconnected(o).m_config = o.m_config /\ Disconnected(o).m_fsm_state = "INIT"
<1> DEFINE gone == HandleClose(Deinit(o))
           r == [gone EXCEPT !.m_reconnect_attempt = 0]
<1>1. gone \in Objects /\ SameCount(gone, o)
  BY DeinitCount
<1>2. Disconnected(o) = Idle(r)
  BY DEF Disconnected
<1> HIDE DEF gone
<1>3. r \in Objects /\ r.m_config = gone.m_config
  BY <1>1, Zenon DEF Objects
<1> QED
  BY <1>1, <1>2, <1>3, IdleCount, Zenon DEF SameCount

\* An event that changes no configuration, and starts or opens no connection.
LEMMA EventCount ==
    ASSUME NEW o \in Objects, NEW e \in Events, e.type # "UpdateConfig", ~StartsOn(o, e),
           ~(e.type = "ConnectionOpened" /\ o.m_fsm_state = "CONNECTING")
    PROVE  LET d == AfterEvent(o, e)
           IN  /\ d.m_config = o.m_config
               /\ \/ /\ d.m_fsm_state \in {"INIT", "STOPPED"}
                     /\ o.m_fsm_state = "RECONNECTING" => SameCount(d, o)
                  \/ d.m_fsm_state = o.m_fsm_state /\ SameCount(d, o)
                  \/ /\ o.m_fsm_state \in Active /\ d.m_fsm_state = "RECONNECTING"
                     /\ d.m_reconnect_attempt = CountAttempt(o.m_reconnect_attempt)
<1> DEFINE d == AfterEvent(o, e)
<1>1. SameCount(o, o) /\ o.m_fsm_state \in States
  BY DEF SameCount, Objects
<1>2. CASE o.m_fsm_state \in {"INIT", "STOPPED"}
  <2>1. CASE e.type = "RequestConnect"
    <3>1. d = StartOrStop(o)
      BY <1>2, <2>1 DEF AfterEvent, StateInit, StateStopped
    <3>2. d.m_fsm_state # "CONNECTING"
      BY <1>2, <2>1 DEF StartsOn, Reply
    <3> QED
      BY <1>2, <3>1, <3>2, StartOrStopCount DEF SameCount
  <2>2. CASE e.type # "RequestConnect"
    BY <1>1, <1>2, <2>2 DEF AfterEvent, StateInit, StateStopped, SameCount
  <2> QED
    BY <2>1, <2>2, Zenon
<1>3. CASE o.m_fsm_state \in Active
  <2>1. d = Dropped(o) \/ d = Disconnected(o) \/ d = o
    BY <1>3 DEF AfterEvent, StateWorking, StateConnecting, Active
  <2> QED
    BY <1>1, <1>3, <2>1, DroppedCount, DisconnectedCount DEF Active, SameCount
<1>4. CASE o.m_fsm_state = "RECONNECTING"
  <2>1. d = Idle(o) \/ d = o
    BY <1>4 DEF AfterEvent, StateReconnecting
  <2> QED
    BY <1>1, <1>4, <2>1, IdleCount DEF SameCount
<1> QED
  BY <1>1, <1>2, <1>3, <1>4 DEF States, Active

\* A step that leaves the state, the configuration and the counts alone.
LEMMA ReconnectFrame ==
    ASSUME ReconnectInv, SameCount(client', client), UNCHANGED reconnects,
           client'.m_fsm_state = client.m_fsm_state, tail' => tail
    PROVE  ReconnectInv'
BY DEF ReconnectInv, SameCount, ReconnectBound

\* Steps that queue an event at most.
Upkeep ==
    \/ RunTask \/ ManagerShutdown \/ RunLastTask \/ Ends \/ Sleep \/ Stop
    \/ NotifiedByOthers

\* One step keeps ReconnectInv.
LEMMA ReconnectStep ==
    ASSUME Inv, ReconnectInv, [Next]_vars
    PROVE  ReconnectInv'
<1>1. /\ client \in Objects /\ client' \in Objects
      /\ client.m_reconnect_attempt \in Nat /\ client'.m_reconnect_attempt \in Nat
      /\ reconnects \in 0 .. AttemptCap /\ AttemptCap \in Nat
  BY InvStep, ClientAssumption DEF Inv, Objects, ReconnectInv
<1>2. ASSUME NEW e, client' = Push(client, e), UNCHANGED <<tail, reconnects>>
      PROVE  ReconnectInv'
  BY <1>1, <1>2, ReconnectFrame, Zenon DEF Push, Objects, SameCount
<1>3. CASE HandleEvent
  <2> DEFINE e == Head(client.m_fsm_event_queue)
             reset == \/ e.type = "UpdateConfig" \/ StartsOn(Popped, e)
                      \/ e.type = "ConnectionOpened" /\ client.m_fsm_state = "CONNECTING"
  <2>1. /\ client.m_fsm_event_queue # <<>>
        /\ client' = AfterEvent(Popped, e)
        /\ tail' = (client.m_fsm_state = "RECONNECTING")
        /\ reconnects' = IF reset THEN 0 ELSE reconnects
    BY <1>3, Zenon DEF HandleEvent, HasEvent
  <2>2. e \in Events /\ Popped \in Objects /\ SameCount(Popped, client)
        /\ Popped.m_fsm_state = client.m_fsm_state
    <3>1. client.m_fsm_event_queue \in Seq(Events)
      BY <1>1 DEF Objects
    <3>2. SameCount(Popped, client)
      BY <1>1, Zenon DEF Popped, Objects, SameCount
    <3> QED
      BY <1>1, <2>1, <3>1, <3>2, PoppedShape
  <2>3. CASE reset
    <3>1. reconnects' = 0
      BY <2>1, <2>3, Zenon
    <3>2. ClientAssumption => (client'.m_config # NoConfig => client'.m_config.attempts \in Nat)
      BY <1>1 DEF Objects
    <3> QED
      BY <1>1, <3>1, <3>2, ClientAssumption DEF ReconnectInv, ReconnectBound
  <2>4. CASE ~reset
    <3>1. reconnects' = reconnects
      BY <2>1, <2>4, Zenon
    <3>2. /\ client'.m_config = Popped.m_config
          /\ \/ /\ client'.m_fsm_state \in {"INIT", "STOPPED"}
                /\ Popped.m_fsm_state = "RECONNECTING" => SameCount(client', Popped)
             \/ client'.m_fsm_state = Popped.m_fsm_state /\ SameCount(client', Popped)
             \/ /\ Popped.m_fsm_state \in Active /\ client'.m_fsm_state = "RECONNECTING"
                /\ client'.m_reconnect_attempt = CountAttempt(Popped.m_reconnect_attempt)
      BY <2>1, <2>2, <2>4, EventCount, Zenon
    <3> DEFINE m == client.m_reconnect_attempt
               n == client'.m_reconnect_attempt
    <3>3. ReconnectBound'
      BY <2>2, <3>1, <3>2, Zenon DEF ReconnectInv, ReconnectBound, SameCount
    <3>4. /\ client'.m_fsm_state \in Active => client.m_fsm_state \in Active /\ n = m
          /\ tail' \/ client'.m_fsm_state = "RECONNECTING" =>
               \/ client.m_fsm_state = "RECONNECTING" /\ n = m
               \/ client.m_fsm_state \in Active /\ n = CountAttempt(m)
      BY <2>1, <2>2, <3>2, Zenon DEF SameCount, Active
    <3>5. m \in Nat /\ n \in Nat
      BY <1>1
    <3>6. /\ client.m_fsm_state \in Active => reconnects <= m + 1
          /\ client.m_fsm_state = "RECONNECTING" => reconnects <= m
      BY DEF ReconnectInv
    <3> HIDE DEF m, n
    <3>7. /\ client'.m_fsm_state \in Active => reconnects' <= n + 1
          /\ tail' \/ client'.m_fsm_state = "RECONNECTING" => reconnects' <= n
      BY <1>1, <3>1, <3>4, <3>5, <3>6 DEF CountAttempt
    <3> QED
      BY <1>1, <3>1, <3>3, <3>7, Zenon DEF ReconnectInv, n
  <2> QED
    BY <2>3, <2>4
<1>4. CASE TryReconnect
  <2>1. /\ client' = Reconnected(client) /\ tail' = FALSE
        /\ reconnects' = IF Restarts(client) THEN CountAttempt(reconnects) ELSE reconnects
        /\ reconnects <= client.m_reconnect_attempt
    BY <1>4 DEF TryReconnect, AtReconnect, ReconnectInv
  <2>2. CASE Restarts(client)
    <3>1. /\ client.m_config # NoConfig /\ client' = StartOrStop(client)
          /\ CanInit(client) /\ ~AttemptsUsedUp(client)
      BY <2>1, <2>2 DEF Restarts, MayRetry, Reconnected, GivesUp
    <3>2. SameCount(client', client) /\ client'.m_fsm_state = "CONNECTING"
      BY <1>1, <3>1, StartOrStopCount
    <3>3. client.m_config.attempts \in Nat
      BY <1>1, <3>1, ClientAssumption DEF Objects
    <3> QED
      BY <1>1, <2>1, <2>2, <3>1, <3>2, <3>3
      DEF ReconnectInv, ReconnectBound, SameCount, Active, CountAttempt, AttemptsUsedUp
  <2>3. CASE ~Restarts(client)
    <3>1. \/ client' = Stopped(client) \/ client' = Idle(client) \/ client' = client
          \/ client' = StartOrStop(client) /\ ~CanInit(client)
      BY <2>1, <2>3 DEF Restarts, Reconnected
    <3>2. SameCount(Stopped(client), client) /\ Stopped(client).m_fsm_state = "STOPPED"
      BY <1>1, Zenon DEF Stopped, Objects, SameCount
    <3>3. /\ SameCount(client', client)
          /\ client'.m_fsm_state \in {"INIT", "STOPPED"} \/ client' = client
      BY <1>1, <3>1, <3>2, IdleCount, StartOrStopCount DEF SameCount
    <3> QED
      BY <1>1, <2>1, <2>3, <3>3 DEF ReconnectInv, ReconnectBound, SameCount, Active
  <2> QED
    BY <2>2, <2>3
<1>5. CASE DelayPasses
  BY <1>1, <1>5, ReconnectFrame, Zenon DEF DelayPasses, Objects, SameCount
<1>6. CASE TaskDone
  <2>1. client' = Deinit(client) /\ UNCHANGED <<tail, reconnects>>
    BY <1>6 DEF TaskDone
  <2> QED
    BY <1>1, <2>1, ReconnectFrame, DeinitCount, DeinitIdle
<1>7. ASSUME NEW from, NEW type, NEW to, Handler(from, type, to)
      PROVE  ReconnectInv'
  <2> DEFINE p == Push(client, Event(type, NoCall, NoConfig, TRUE))
  <2>1. /\ SameCount(client', p) /\ client'.m_fsm_state = p.m_fsm_state
        /\ UNCHANGED <<tail, reconnects>>
    BY <1>1, <1>7, Zenon DEF Handler, Push, Objects, SameCount
  <2>2. SameCount(p, client) /\ p.m_fsm_state = client.m_fsm_state
    BY <1>1, Zenon DEF Push, Objects, SameCount
  <2> QED
    BY <2>1, <2>2, ReconnectFrame DEF SameCount
<1>8. CASE UNCHANGED <<client, tail, reconnects>>
  BY <1>8, ReconnectFrame DEF SameCount
<1>9. CASE Block
  <2>1. (client' = Popped \/ UNCHANGED client) /\ UNCHANGED <<tail, reconnects>>
    BY <1>9, Zenon DEF Block
  <2>2. SameCount(Popped, client) /\ Popped.m_fsm_state = client.m_fsm_state
    BY <1>1, Zenon DEF Popped, Objects, SameCount
  <2> QED
    BY <1>8, <2>1, <2>2, ReconnectFrame
<1>10. CASE Opens
  BY <1>1, <1>10, ReconnectFrame, Zenon DEF Opens, Objects, SameCount
<1>11. CASE User
  BY <1>2, <1>8, <1>11, Zenon
  DEF User, Construct, ConstructConfig, Configure, ConnectConfig, Connect, Disconnect,
      SetConfig, Call, Destroy
<1>12. CASE Upkeep
  BY <1>2, <1>8, <1>12, Zenon
  DEF Upkeep, RunTask, ManagerShutdown, RunLastTask, BeginShutdown, Ends, Sleep, Stop,
      NotifiedByOthers
<1> QED
  BY <1>3, <1>4, <1>5, <1>6, <1>7, <1>8, <1>9, <1>10, <1>11, <1>12, Zenon
  DEF Next, Upkeep, Passes, Life, Io, IoWake, OnOpen, OnConnectError, OnMessage, OnClose,
      OnError, vars

\* process_state_reconnecting: for every set of configurations, and whatever is
\* dropped, reconfigured or asked for in between, reconnect_attempts bounds the
\* reconnections that follow each other without one that opened.
THEOREM ReconnectsBounded == Spec => []ReconnectBound
<1>1. Init => ReconnectInv
  BY ClientAssumption DEF Init, ReconnectInv, ReconnectBound, Active
<1>2. ReconnectInv => ReconnectBound
  BY DEF ReconnectInv
<1> QED
  BY <1>1, <1>2, InvInit, InvStep, ReconnectStep, PTL DEF Spec

-----------------------------------------------------------------------------
(* Sending and the state machine                                           *)

\* A step of the sender is a step of the client, or leaves it alone.
LEMMA SenderStep ==
    ASSUME [SenderNext]_senderVars
    PROVE  [Next]_vars
<1>1. CASE UserCall \/ DelayPasses \/ Io \/ Stop \/ NotifiedByOthers
  BY <1>1, Zenon DEF UserCall, Next
<1>2. ASSUME NEW m \in Messages, SubmitCheck(m) \/ SubmitPush(m) \/ SendCompletes(m)
      PROVE  UNCHANGED vars
  BY <1>2, Zenon DEF SubmitCheck, SubmitPush, SendCompletes
<1>3. CASE PassWithEvent \/ PassReconnecting \/ PassBlocked \/ BetweenPasses
  BY <1>3, Zenon DEF PassWithEvent, PassReconnecting, PassBlocked, BetweenPasses, Next, Passes
<1>4. CASE PassIdle \/ ScanMessage \/ ScanDone \/ SendMessage \/ ProcessSendCallbacks \/ Tick
  BY <1>4, Zenon DEF PassIdle, ScanMessage, ScanDone, SendMessage,
                     ProcessSendCallbacks, Tick
<1>5. CASE UNCHANGED senderVars
  BY <1>5, Zenon DEF senderVars
<1> QED
  BY <1>1, <1>2, <1>3, <1>4, <1>5, Zenon DEF SenderNext, Process

\* What is proved of WebSocketClient holds with the send queue, its limits and its
\* callbacks: they only add steps that leave the state machine alone.
THEOREM SenderImplementsClient == SenderSpec => Spec
<1>1. SenderInit => Init
  BY Zenon DEF SenderInit
<1>2. [SenderNext]_senderVars => [Next]_vars
  BY SenderStep
<1> QED
  BY <1>1, <1>2, PTL DEF SenderSpec, Spec

-----------------------------------------------------------------------------
(* The rate limiter                                                        *)

LimitStates == [rpp : Nat, period : Nat, count : Nat, age : Nat]

\* c has the highest rate of limit i, d the shortest period.
Extremes(i, c, d) ==
    \A e \in Configs : /\ RateLimits[e][i].rpp <= RateLimits[c][i].rpp
                       /\ RateLimits[d][i].period <= RateLimits[e][i].period

\* l is the limit, g the ages of the messages it let through, oldest first.  The
\* last l.count of them came in this window.  Those before came before it began,
\* and no more than R of those can be younger than p.
WindowOK(l, g, R, p) ==
    /\ l.count <= R
    /\ \A n \in DOMAIN g : n + l.count <= Len(g) => g[n] >= l.age
    /\ \A n \in DOMAIN g : n + l.count + R <= Len(g) => g[n] >= p

\* The table is empty until a configuration is applied, and then that of one.
TableOK ==
    \/ m_limit_data = <<>>
    \/ \E e \in Configs :
          /\ DOMAIN m_limit_data = DOMAIN RateLimits[e]
          /\ \A i \in DOMAIN m_limit_data :
                /\ m_limit_data[i].rpp = RateLimits[e][i].rpp
                /\ m_limit_data[i].period = RateLimits[e][i].period
                /\ m_limit_data[i].age <= m_limit_data[i].period

RateInv ==
    /\ m_message_queue \in Seq(Messages)
    /\ at \in Nat \ {0}
    /\ m_limit_data \in Seq(LimitStates)
    /\ recent \in [LimitIds -> Seq(Nat)]
    /\ TableOK
    /\ \A i \in LimitIds : AlwaysLimited(i) =>
         /\ i \notin DOMAIN m_limit_data => recent[i] = <<>>
         /\ i \in DOMAIN m_limit_data =>
              \A c, d \in Configs : Extremes(i, c, d) =>
                 WindowOK(m_limit_data[i], recent[i],
                          RateLimits[c][i].rpp, RateLimits[d][i].period)

LEMMA SeqElement ==
    ASSUME NEW S, NEW q \in Seq(S), NEW i \in DOMAIN q
    PROVE  q[i] \in S
OBVIOUS

\* The fields of an entry of a configuration's table.
LEMMA TableEntry ==
    ASSUME NEW c \in Configs, NEW i \in DOMAIN RateLimits[c]
    PROVE  RateLimits[c][i].rpp \in Nat /\ RateLimits[c][i].period \in Nat
<1>1. RateLimits[c] \in Seq([rpp : Nat, period : Nat])
  BY SenderAssumption
<1>2. RateLimits[c][i] \in [rpp : Nat, period : Nat]
  BY <1>1, SeqElement, Zenon
<1> QED
  BY <1>2

LEMMA UpdateShape ==
    ASSUME NEW l \in LimitStates
    PROVE  /\ UpdateLimit(l) \in LimitStates
           /\ UpdateLimit(l).rpp = l.rpp /\ UpdateLimit(l).period = l.period
           /\ PeriodElapsed(l) => UpdateLimit(l).age = 0 /\ UpdateLimit(l).count = 1
           /\ ~PeriodElapsed(l) => /\ UpdateLimit(l).age = l.age
                                   /\ UpdateLimit(l).count = l.count + 1
<1> DEFINE v == [l EXCEPT !.age = 0]
<1>1. v \in LimitStates /\ v.rpp = l.rpp /\ v.period = l.period /\ v.age = 0
  BY DEF LimitStates
<1>2. CASE PeriodElapsed(l)
  <2>1. UpdateLimit(l) = [v EXCEPT !.count = 1]
    BY <1>2, Zenon DEF UpdateLimit
  <2> HIDE DEF v
  <2> QED
    BY <1>1, <1>2, <2>1 DEF LimitStates
<1>3. CASE ~PeriodElapsed(l)
  <2>1. UpdateLimit(l) = [l EXCEPT !.count = @ + 1]
    BY <1>3, Zenon DEF UpdateLimit
  <2> QED
    BY <1>3, <2>1 DEF LimitStates
<1> QED
  BY <1>2, <1>3

\* A message is let through.
LEMMA WindowUpdate ==
    ASSUME NEW l \in LimitStates, NEW g \in Seq(Nat), NEW R \in Nat, NEW p \in Nat,
           WindowOK(l, g, R, p), CheckLimit(l), l.rpp # 0, l.rpp <= R, p <= l.period
    PROVE  WindowOK(UpdateLimit(l), Append(g, 0), R, p)
<1> DEFINE L == Len(g)
           h == Append(g, 0)
           k == l.count
           a == l.age
           u == UpdateLimit(l)
<1>1. /\ L \in Nat /\ k \in Nat /\ a \in Nat /\ l.rpp \in Nat /\ l.period \in Nat
      /\ DOMAIN g = 1 .. L
  BY DEF LimitStates
<1>2. /\ h \in Seq(Nat) /\ Len(h) = L + 1 /\ DOMAIN h = 1 .. (L + 1)
      /\ \A n \in 1 .. L : h[n] = g[n]
  OBVIOUS
<1>3. \A n \in 1 .. (L + 1) : h[n] \in Nat
  BY <1>2
<1>4. CASE PeriodElapsed(l)
  <2>2. u \in LimitStates /\ u.age = 0 /\ u.count = 1
    BY <1>4, UpdateShape
  <2>3. a >= p /\ 1 <= R
    BY <1>1, <1>4 DEF PeriodElapsed
  <2> HIDE DEF L, h, k, u, a
  <2>4. ASSUME NEW n \in 1 .. (L + 1), n + 1 + R <= L + 1
        PROVE  h[n] >= p
    <3>0. k <= R
      BY DEF WindowOK, k
    <3>1. n \in 1 .. L /\ n + k <= L
      BY <1>1, <2>3, <2>4, <3>0
    <3>2. g[n] >= a
      BY <1>1, <3>1, Zenon DEF WindowOK, L, k, a
    <3>3. g[n] \in Nat
      BY <1>1, <3>1
    <3> QED
      BY <1>1, <1>2, <2>3, <3>1, <3>2, <3>3
  <2>5. WindowOK(u, h, R, p)
    BY <1>2, <1>3, <2>2, <2>3, <2>4, SMTT(30) DEF WindowOK
  <2> QED
    BY <2>5 DEF u, h
<1>5. CASE ~PeriodElapsed(l)
  <2>2. u \in LimitStates /\ u.age = a /\ u.count = k + 1
    BY <1>5, UpdateShape
  <2>3. k + 1 <= R
    BY <1>1, <1>5 DEF CheckLimit
  <2> HIDE DEF L, h, k, u, a
  <2>4. ASSUME NEW n \in 1 .. (L + 1), n + (k + 1) <= L + 1
        PROVE  /\ h[n] >= a
               /\ n + (k + 1) + R <= L + 1 => h[n] >= p
    <3>1. n \in 1 .. L /\ n + k <= L /\ (n + (k + 1) + R <= L + 1 => n + k + R <= L)
      BY <1>1, <2>4
    <3>2. g[n] >= a /\ (n + k + R <= L => g[n] >= p)
      BY <1>1, <3>1, Zenon DEF WindowOK, L, k, a
    <3> QED
      BY <1>2, <3>1, <3>2
  <2>5. \A n \in 1 .. (L + 1) : n + (k + 1) + R <= L + 1 => n + (k + 1) <= L + 1
    BY <1>1
  <2>6. WindowOK(u, h, R, p)
    BY <1>2, <2>2, <2>3, <2>4, <2>5 DEF WindowOK
  <2> QED
    BY <2>6 DEF u, h
<1> QED
  BY <1>4, <1>5

\* Time passes.
AgedLimit(l) == [l EXCEPT !.age = IF @ < l.period THEN @ + 1 ELSE @]
AgedGrants(g) == [n \in DOMAIN g |-> IF g[n] < AgeCap THEN g[n] + 1 ELSE g[n]]

LEMMA WindowAged ==
    ASSUME NEW l \in LimitStates, NEW g \in Seq(Nat), NEW R \in Nat, NEW p \in Nat,
           WindowOK(l, g, R, p), l.age <= l.period, l.period <= AgeCap
    PROVE  WindowOK(AgedLimit(l), AgedGrants(g), R, p)
<1> DEFINE L == Len(g)
           h == AgedGrants(g)
           k == l.count
           a == l.age
           b == AgedLimit(l).age
<1>1. /\ L \in Nat /\ k \in Nat /\ a \in Nat /\ l.period \in Nat /\ AgeCap \in Nat
      /\ DOMAIN g = 1 .. L /\ \A n \in 1 .. L : g[n] \in Nat
  BY SenderAssumption, SMTT(30) DEF LimitStates
<1>2. b = (IF a < l.period THEN a + 1 ELSE a) /\ AgedLimit(l).count = k
  BY DEF AgedLimit, LimitStates
<1>3. /\ DOMAIN h = 1 .. L
      /\ \A n \in 1 .. L : h[n] = IF g[n] < AgeCap THEN g[n] + 1 ELSE g[n]
  BY <1>1, Zenon DEF AgedGrants
<1>4. h \in Seq(Nat) /\ Len(h) = L
  <2>1. h \in [1 .. L -> Nat]
    BY <1>1 DEF AgedGrants
  <2> HIDE DEF h, L
  <2> QED
    BY <1>1, <2>1
<1>5. k <= R
  BY DEF WindowOK
<1> HIDE DEF b, h
<1>6. \A n \in 1 .. L : n + k <= L => h[n] >= b
  <2> SUFFICES ASSUME NEW n \in 1 .. L, n + k <= L PROVE h[n] >= b
    OBVIOUS
  <2> DEFINE x == g[n]
             y == h[n]
             m == l.period
  <2>1. x >= a /\ x \in Nat
    BY <1>1, SMTT(30) DEF WindowOK
  <2>2. y = (IF x < AgeCap THEN x + 1 ELSE x)
    BY <1>3
  <2>3. b = (IF a < m THEN a + 1 ELSE a) /\ m \in Nat /\ a \in Nat /\ AgeCap \in Nat /\ m <= AgeCap
    BY <1>1, <1>2
  <2> HIDE DEF x, y, m, a
  <2>4. y >= b
    BY <2>1, <2>2, <2>3
  <2> QED
    BY <2>4 DEF y
<1>7. \A n \in 1 .. L : n + k + R <= L => h[n] >= p
  <2> SUFFICES ASSUME NEW n \in 1 .. L, n + k + R <= L PROVE h[n] >= p
    OBVIOUS
  <2>1. g[n] >= p /\ g[n] \in Nat
    BY <1>1, Zenon DEF WindowOK
  <2> QED
    BY <1>1, <1>3, <2>1, SMTT(30)
<1> QED
  BY <1>2, <1>3, <1>4, <1>5, <1>6, <1>7, Zenon DEF WindowOK, h, b

\* At most 2 * R messages are younger than p.
LEMMA WindowCount ==
    ASSUME NEW l \in LimitStates, NEW g \in Seq(Nat), NEW R \in Nat, NEW p \in Nat,
           WindowOK(l, g, R, p)
    PROVE  Cardinality({n \in DOMAIN g : g[n] < p}) <= 2 * R
<1> DEFINE L == Len(g)
           S == {n \in DOMAIN g : g[n] < p}
           a == L - 2 * R + 1
           k == l.count
<1>1. /\ L \in Nat /\ k \in Nat /\ k <= R /\ a \in Int /\ DOMAIN g = 1 .. L
      /\ \A n \in 1 .. L : g[n] \in Nat
  BY DEF LimitStates, WindowOK
<1>2. ASSUME NEW n \in 1 .. L, g[n] < p
      PROVE  n \in a .. L
  <2>1. n + k + R <= L => g[n] >= p
    BY <1>1, <1>2, Zenon DEF WindowOK
  <2>3. ~(g[n] >= p)
    BY <1>1, <1>2
  <2> HIDE DEF k, L
  <2> QED
    BY <1>1, <2>1, <2>3
<1>3. S \subseteq a .. L
  BY <1>1, <1>2
<1>5. L - a + 1 = 2 * R /\ a <= L + 1
  BY <1>1
<1> HIDE DEF a, S, L
<1>6. /\ IsFiniteSet(a .. L)
      /\ Cardinality(a .. L) = IF a > L THEN 0 ELSE L - a + 1
  <2>1. a \in Int /\ L \in Int
    BY <1>1
  <2> QED
    BY <2>1, FS_Interval
<1>7. Cardinality(S) <= Cardinality(a .. L) /\ Cardinality(S) \in Nat
      /\ Cardinality(a .. L) \in Nat
  <2>1. IsFiniteSet(S) /\ Cardinality(S) <= Cardinality(a .. L)
    BY <1>3, <1>6, FS_Subset, Zenon
  <2> QED
    BY <1>6, <2>1, FS_CardinalityType
<1>8. Cardinality(a .. L) <= 2 * R
  BY <1>1, <1>5, <1>6
<1>9. Cardinality(S) <= 2 * R
  BY <1>7, <1>8
<1> QED
  BY <1>9 DEF S

\* The limits of a table that is in force lie between the extremes.
LEMMA TableRange ==
    ASSUME RateInv, NEW i \in DOMAIN m_limit_data
    PROVE  /\ m_limit_data[i] \in LimitStates
           /\ m_limit_data[i].age <= m_limit_data[i].period
           /\ m_limit_data[i].period <= AgeCap
           /\ AlwaysLimited(i) => m_limit_data[i].rpp # 0
           /\ \A c, d \in Configs : AlwaysLimited(i) /\ Extremes(i, c, d) =>
                 /\ RateLimits[c][i].rpp \in Nat /\ m_limit_data[i].rpp <= RateLimits[c][i].rpp
                 /\ RateLimits[d][i].period \in Nat
                 /\ RateLimits[d][i].period <= m_limit_data[i].period
<1>1. m_limit_data # <<>> /\ m_limit_data[i] \in LimitStates
  BY DEF RateInv
<1>2. PICK e \in Configs : /\ DOMAIN m_limit_data = DOMAIN RateLimits[e]
                           /\ m_limit_data[i].rpp = RateLimits[e][i].rpp
                           /\ m_limit_data[i].period = RateLimits[e][i].period
                           /\ m_limit_data[i].age <= m_limit_data[i].period
  BY <1>1, Zenon DEF RateInv, TableOK
<1>3. m_limit_data[i].period <= AgeCap
  BY <1>2, SenderAssumption
<1>4. AlwaysLimited(i) => m_limit_data[i].rpp # 0
  BY <1>2, Zenon DEF AlwaysLimited
<1>5. ASSUME NEW c \in Configs, NEW d \in Configs, AlwaysLimited(i), Extremes(i, c, d)
      PROVE  /\ RateLimits[c][i].rpp \in Nat /\ m_limit_data[i].rpp <= RateLimits[c][i].rpp
             /\ RateLimits[d][i].period \in Nat
             /\ RateLimits[d][i].period <= m_limit_data[i].period
  <2>1. i \in DOMAIN RateLimits[c] /\ i \in DOMAIN RateLimits[d]
    BY <1>5, Zenon DEF AlwaysLimited
  <2>3. RateLimits[c][i].rpp \in Nat /\ RateLimits[d][i].period \in Nat
    BY <2>1, TableEntry
  <2>4. /\ m_limit_data[i].rpp <= RateLimits[c][i].rpp
        /\ RateLimits[d][i].period <= m_limit_data[i].period
    BY <1>2, <1>5 DEF Extremes
  <2> QED
    BY <2>3, <2>4
<1> QED
  BY <1>1, <1>2, <1>3, <1>4, <1>5, Zenon

\* set_limit keeps the counts and begins every window again.
LEMMA SetLimitRate ==
    ASSUME RateInv, NEW e \in Configs,
           m_limit_data' = SetLimit(m_limit_data, RateLimits[e]),
           UNCHANGED <<m_message_queue, at, recent>>
    PROVE  RateInv'
<1> DEFINE T == RateLimits[e]
           N == Len(T)
           old(i) == IF i <= Len(m_limit_data) THEN m_limit_data[i].count ELSE 0
           new(i) == [rpp |-> T[i].rpp, period |-> T[i].period, count |-> old(i), age |-> 0]
<1>1. /\ T \in Seq([rpp : Nat, period : Nat]) /\ N \in Nat /\ DOMAIN T = 1 .. N
      /\ m_limit_data \in Seq(LimitStates)
  BY SenderAssumption, SMTT(30) DEF RateInv
<1>2. ASSUME NEW i \in 1 .. N
      PROVE  old(i) \in Nat /\ T[i].rpp \in Nat /\ T[i].period \in Nat
  <2>1. i <= Len(m_limit_data) => m_limit_data[i] \in LimitStates
    BY <1>1, SMTT(30)
  <2>2. old(i) \in Nat
    BY <2>1 DEF LimitStates
  <2> QED
    BY <1>1, <2>2, TableEntry, Zenon
<1>3. m_limit_data' = [i \in 1 .. N |-> new(i)]
  BY Zenon DEF SetLimit
<1>4. \A i \in 1 .. N : new(i) \in LimitStates
  BY <1>2 DEF LimitStates
<1>5. /\ DOMAIN m_limit_data' = 1 .. N /\ \A i \in 1 .. N : m_limit_data'[i] = new(i)
      /\ m_limit_data' \in Seq(LimitStates)
  <2> HIDE DEF new, N
  <2> QED
    BY <1>1, <1>3, <1>4
<1>6. ASSUME NEW i \in 1 .. N
      PROVE  /\ m_limit_data'[i].rpp = T[i].rpp /\ m_limit_data'[i].period = T[i].period
             /\ m_limit_data'[i].age = 0 /\ m_limit_data'[i].count = old(i)
             /\ T[i].period \in Nat
  <2>1. m_limit_data'[i] = new(i)
    BY <1>5
  <2>2. T[i].period \in Nat
    BY <1>2
  <2> HIDE DEF T, old
  <2> QED
    BY <2>1, <2>2
<1>7. TableOK'
  <2>1. ASSUME NEW i \in DOMAIN m_limit_data'
        PROVE  /\ m_limit_data'[i].rpp = RateLimits[e][i].rpp
               /\ m_limit_data'[i].period = RateLimits[e][i].period
               /\ m_limit_data'[i].age <= m_limit_data'[i].period
    <3>1. i \in 1 .. N
      BY <1>5
    <3> HIDE DEF N, old
    <3> QED
      BY <1>6, <3>1
  <2>2. DOMAIN m_limit_data' = DOMAIN RateLimits[e]
    BY <1>1, <1>5
  <2> QED
    BY <2>1, <2>2, Zenon DEF TableOK
<1>8. ASSUME NEW i \in LimitIds, AlwaysLimited(i), i \in DOMAIN m_limit_data',
             NEW c \in Configs, NEW d \in Configs, Extremes(i, c, d)
      PROVE  WindowOK(m_limit_data'[i], recent[i],
                      RateLimits[c][i].rpp, RateLimits[d][i].period)
  <2> DEFINE R == RateLimits[c][i].rpp
             p == RateLimits[d][i].period
             g == recent[i]
  <2>1. i \in 1 .. N /\ m_limit_data'[i].age = 0 /\ m_limit_data'[i].count = old(i)
    BY <1>5, <1>6, <1>8, Zenon
  <2>2. g \in Seq(Nat)
    BY Zenon DEF RateInv
  <2>3. CASE i \in DOMAIN m_limit_data
    <3>1. WindowOK(m_limit_data[i], g, R, p)
      BY <1>8, <2>3, Zenon DEF RateInv
    <3>2. old(i) = m_limit_data[i].count
      BY <1>1, <2>3
    <3>3. \A n \in DOMAIN g : g[n] >= 0
      BY <2>2
    <3> HIDE DEF g, R, p, old
    <3>4. WindowOK(m_limit_data'[i], g, R, p)
      BY <2>1, <3>1, <3>2, <3>3 DEF WindowOK
    <3> QED
      BY <3>4 DEF g, R, p
  <2>4. CASE i \notin DOMAIN m_limit_data
    <3>1. g = <<>>
      BY <1>8, <2>4, Zenon DEF RateInv
    <3>2. DOMAIN g = {}
      BY <3>1
    <3>3. old(i) = 0
      BY <1>1, <2>1, <2>4
    <3>5. R \in Nat
      BY <1>8, TableEntry DEF AlwaysLimited
    <3> HIDE DEF g, R, p, old
    <3>6. WindowOK(m_limit_data'[i], g, R, p)
      BY <2>1, <3>2, <3>3, <3>5 DEF WindowOK
    <3> QED
      BY <3>6 DEF g, R, p
  <2> QED
    BY <2>3, <2>4, Zenon
<1>9. \A i : AlwaysLimited(i) => i \in DOMAIN m_limit_data'
  BY <1>1, <1>5 DEF AlwaysLimited
<1>10. recent \in [LimitIds -> Seq(Nat)] /\ m_message_queue \in Seq(Messages) /\ at \in Nat \ {0}
  BY Zenon DEF RateInv
<1>11. LimitIds' = LimitIds /\ \A i : AlwaysLimited(i)' = AlwaysLimited(i)
  BY DEF LimitIds, AlwaysLimited
<1> QED
  BY <1>5, <1>7, <1>8, <1>9, <1>10, Zenon DEF RateInv, Extremes

\* CheckLimit admits the message and update_limit counts it, for each limit that
\* applies.
LEMMA CommitRate ==
    ASSUME RateInv, NEW id \in Int, AllowRequest(m_limit_data, id),
           m_limit_data' = CommitRequest(m_limit_data, id),
           recent' = [i \in LimitIds |-> IF i \in Applicable(m_limit_data, id)
                                         THEN Append(recent[i], 0) ELSE recent[i]],
           m_message_queue' \in Seq(Messages), at' \in Nat \ {0}
    PROVE  RateInv'
<1> DEFINE D == m_limit_data
           A == Applicable(D, id)
           N == Len(D)
           new(i) == IF i \in A THEN UpdateLimit(D[i]) ELSE D[i]
<1>1. D \in Seq(LimitStates) /\ N \in Nat /\ DOMAIN D = 1 .. N
  BY SMTT(30) DEF RateInv
<1>2. A \subseteq 1 .. N
  BY <1>1 DEF Applicable
<1>3. D' = [i \in 1 .. N |-> new(i)]
  BY <1>1, Zenon DEF CommitRequest
<1>4. ASSUME NEW i \in 1 .. N
      PROVE  /\ new(i) \in LimitStates
             /\ new(i).rpp = D[i].rpp /\ new(i).period = D[i].period
             /\ new(i).age <= new(i).period
  <2>1. D[i] \in LimitStates /\ D[i].age <= D[i].period
    BY <1>1, TableRange, Zenon
  <2>2. D[i].age \in Nat /\ D[i].period \in Nat
    BY <2>1, Zenon DEF LimitStates
  <2>3. CASE i \in A
    <3>1. new(i) = UpdateLimit(D[i])
      BY <2>3
    <3> HIDE DEF new, D
    <3> QED
      BY <2>1, <2>2, <3>1, UpdateShape, SMTT(30)
  <2>4. CASE i \notin A
    <3>1. new(i) = D[i]
      BY <2>4
    <3> HIDE DEF new, D
    <3> QED
      BY <2>1, <3>1, Zenon
  <2> QED
    BY <2>3, <2>4, Zenon
<1>5. /\ DOMAIN D' = 1 .. N /\ \A i \in 1 .. N : D'[i] = new(i)
      /\ D' \in Seq(LimitStates)
  <2> HIDE DEF new, N
  <2> QED
    BY <1>1, <1>3, <1>4
<1>6. ASSUME NEW i \in 1 .. N
      PROVE  D'[i].rpp = D[i].rpp /\ D'[i].period = D[i].period /\ D'[i].age <= D'[i].period
  <2>1. D'[i] = new(i)
    BY <1>5
  <2> HIDE DEF new, N, D
  <2> QED
    BY <1>4, <2>1
<1>7. TableOK'
  <2>1. CASE D = <<>>
    <3>1. 1 .. N = {}
      BY <1>1, <2>1
    <3>2. D' = <<>>
      BY <1>5, <3>1
    <3> QED
      BY <3>2 DEF TableOK
  <2>2. CASE D # <<>>
    <3>1. PICK e \in Configs :
             /\ DOMAIN D = DOMAIN RateLimits[e]
             /\ \A i \in DOMAIN D : /\ D[i].rpp = RateLimits[e][i].rpp
                                    /\ D[i].period = RateLimits[e][i].period
      BY <2>2, Zenon DEF RateInv, TableOK
    <3>2. DOMAIN D' = DOMAIN RateLimits[e]
      BY <1>1, <1>5, <3>1
    <3>3. ASSUME NEW i \in DOMAIN D'
          PROVE  /\ D'[i].rpp = RateLimits[e][i].rpp
                 /\ D'[i].period = RateLimits[e][i].period
                 /\ D'[i].age <= D'[i].period
      <4>1. i \in 1 .. N /\ i \in DOMAIN D
        BY <1>1, <1>5
      <4> QED
        BY <1>6, <3>1, <4>1, Zenon
    <3> QED
      BY <3>2, <3>3, Zenon DEF TableOK
  <2> QED
    BY <2>1, <2>2
<1>8. recent \in [LimitIds -> Seq(Nat)] /\ recent' \in [LimitIds -> Seq(Nat)]
  <2>1. recent \in [LimitIds -> Seq(Nat)]
    BY Zenon DEF RateInv
  <2>2. ASSUME NEW i \in LimitIds
        PROVE  Append(recent[i], 0) \in Seq(Nat) /\ recent[i] \in Seq(Nat)
    <3>1. recent[i] \in Seq(Nat)
      BY <2>1, Zenon
    <3> QED
      BY <3>1
  <2> HIDE DEF A
  <2> QED
    BY <2>1, <2>2, Zenon DEF A
<1>9. ASSUME NEW i \in LimitIds, AlwaysLimited(i), i \notin DOMAIN D'
      PROVE  recent'[i] = <<>>
  <2>1. i \notin DOMAIN D /\ i \notin A
    BY <1>1, <1>2, <1>5, <1>9, Zenon
  <2>2. recent[i] = <<>>
    BY <1>9, <2>1, Zenon DEF RateInv
  <2> QED
    BY <2>1, <2>2, Zenon
<1>10. ASSUME NEW i \in LimitIds, AlwaysLimited(i), i \in DOMAIN D',
              NEW c \in Configs, NEW d \in Configs, Extremes(i, c, d)
       PROVE  WindowOK(D'[i], recent'[i], RateLimits[c][i].rpp, RateLimits[d][i].period)
  <2> DEFINE R == RateLimits[c][i].rpp
             p == RateLimits[d][i].period
             g == recent[i]
  <2>1. i \in DOMAIN D /\ i \in 1 .. N /\ g \in Seq(Nat)
    BY <1>1, <1>5, <1>8, <1>10, Zenon
  <2>2. WindowOK(D[i], g, R, p)
    BY <1>10, <2>1, Zenon DEF RateInv
  <2>3. /\ D[i] \in LimitStates /\ D[i].rpp # 0 /\ R \in Nat /\ D[i].rpp <= R
        /\ p \in Nat /\ p <= D[i].period
    BY <1>10, <2>1, TableRange, Zenon
  <2>4. CASE i \in A
    <3>1. CheckLimit(D[i])
      BY <2>4, Zenon DEF AllowRequest
    <3>2. D'[i] = UpdateLimit(D[i]) /\ recent'[i] = Append(g, 0)
      BY <1>5, <2>1, <2>4, Zenon
    <3>3. WindowOK(UpdateLimit(D[i]), Append(g, 0), R, p)
      <4> HIDE DEF D, g, R, p
      <4> QED
        BY <2>1, <2>2, <2>3, <3>1, WindowUpdate, Zenon
    <3> QED
      BY <3>2, <3>3, Zenon
  <2>5. CASE i \notin A
    <3>1. D'[i] = D[i] /\ recent'[i] = g
      BY <1>5, <2>1, <2>5, Zenon
    <3> QED
      BY <2>2, <3>1, Zenon
  <2> QED
    BY <2>4, <2>5, Zenon
<1>11. D' \in Seq(LimitStates)
  BY <1>5
<1> HIDE DEF A, N, new
<1> QED
  BY <1>7, <1>8, <1>9, <1>10, <1>11, Zenon DEF RateInv, Extremes

\* Time passes.
LEMMA TickRate ==
    ASSUME RateInv, Tick
    PROVE  RateInv'
<1> DEFINE D == m_limit_data
           N == Len(D)
<1>1. D \in Seq(LimitStates) /\ N \in Nat /\ DOMAIN D = 1 .. N
  BY SMTT(30) DEF RateInv
<1>2. /\ D' = [i \in 1 .. N |-> AgedLimit(D[i])]
      /\ recent' = [i \in LimitIds |-> AgedGrants(recent[i])]
  BY <1>1, Zenon DEF Tick, Aged, AgedLimit, AgedGrants
<1>3. ASSUME NEW i \in 1 .. N
      PROVE  /\ AgedLimit(D[i]) \in LimitStates
             /\ AgedLimit(D[i]).rpp = D[i].rpp /\ AgedLimit(D[i]).period = D[i].period
             /\ AgedLimit(D[i]).age <= AgedLimit(D[i]).period
  <2>1. D[i] \in LimitStates /\ D[i].age <= D[i].period
    BY <1>1, TableRange
  <2> HIDE DEF D
  <2> QED
    BY <2>1 DEF LimitStates, AgedLimit
<1>4. /\ DOMAIN D' = 1 .. N /\ \A i \in 1 .. N : D'[i] = AgedLimit(D[i])
      /\ D' \in Seq(LimitStates)
  <2> HIDE DEF N
  <2> QED
    BY <1>1, <1>2, <1>3
<1>5. TableOK'
  <2>1. CASE D = <<>>
    <3>1. 1 .. N = {}
      BY <1>1, <2>1
    <3>2. D' = <<>>
      BY <1>4, <3>1
    <3> QED
      BY <3>2 DEF TableOK
  <2>2. CASE D # <<>>
    <3>1. PICK e \in Configs :
             /\ DOMAIN D = DOMAIN RateLimits[e]
             /\ \A i \in DOMAIN D : /\ D[i].rpp = RateLimits[e][i].rpp
                                    /\ D[i].period = RateLimits[e][i].period
      BY <2>2, Zenon DEF RateInv, TableOK
    <3>2. DOMAIN D' = DOMAIN RateLimits[e]
      BY <1>1, <1>4, <3>1
    <3>3. ASSUME NEW i \in DOMAIN D'
          PROVE  /\ D'[i].rpp = RateLimits[e][i].rpp
                 /\ D'[i].period = RateLimits[e][i].period
                 /\ D'[i].age <= D'[i].period
      <4>1. i \in 1 .. N /\ i \in DOMAIN D /\ D'[i] = AgedLimit(D[i])
        BY <1>1, <1>4
      <4> QED
        BY <1>3, <3>1, <4>1, Zenon
    <3> QED
      BY <3>2, <3>3, Zenon DEF TableOK
  <2> QED
    BY <2>1, <2>2
<1>6. recent \in [LimitIds -> Seq(Nat)] /\ recent' \in [LimitIds -> Seq(Nat)]
  <2>1. recent \in [LimitIds -> Seq(Nat)]
    BY Zenon DEF RateInv
  <2>2. ASSUME NEW i \in LimitIds
        PROVE  AgedGrants(recent[i]) \in Seq(Nat)
    <3> DEFINE g == recent[i]
    <3>1. g \in Seq(Nat)
      BY <2>1, Zenon
    <3> HIDE DEF g
    <3>2. \A n \in 1 .. Len(g) : (IF g[n] < AgeCap THEN g[n] + 1 ELSE g[n]) \in Nat
      BY <3>1
    <3>3. AgedGrants(g) \in Seq(Nat)
      BY <3>1, <3>2 DEF AgedGrants
    <3> QED
      BY <3>3 DEF g
  <2> QED
    BY <1>2, <2>1, <2>2, Zenon
<1>7. ASSUME NEW i \in LimitIds, AlwaysLimited(i), i \notin DOMAIN D'
      PROVE  recent'[i] = <<>>
  <2>1. recent[i] = <<>>
    BY <1>1, <1>4, <1>7, Zenon DEF RateInv
  <2>2. AgedGrants(<<>>) = <<>>
    BY DEF AgedGrants
  <2> QED
    BY <1>2, <2>1, <2>2, Zenon
<1>8. ASSUME NEW i \in LimitIds, AlwaysLimited(i), i \in DOMAIN D',
             NEW c \in Configs, NEW d \in Configs, Extremes(i, c, d)
      PROVE  WindowOK(D'[i], recent'[i], RateLimits[c][i].rpp, RateLimits[d][i].period)
  <2> DEFINE R == RateLimits[c][i].rpp
             p == RateLimits[d][i].period
             g == recent[i]
  <2>1. i \in DOMAIN D /\ i \in 1 .. N /\ g \in Seq(Nat)
    BY <1>1, <1>4, <1>6, <1>8, Zenon
  <2>2. WindowOK(D[i], g, R, p)
    BY <1>8, <2>1, Zenon DEF RateInv
  <2>3. /\ D[i] \in LimitStates /\ R \in Nat /\ p \in Nat
        /\ D[i].age <= D[i].period /\ D[i].period <= AgeCap
    BY <1>8, <2>1, TableRange, Zenon
  <2>4. WindowOK(AgedLimit(D[i]), AgedGrants(g), R, p)
    <3> HIDE DEF D, g, R, p
    <3> QED
      BY <2>1, <2>2, <2>3, WindowAged
  <2>5. D'[i] = AgedLimit(D[i]) /\ recent'[i] = AgedGrants(g)
    BY <1>2, <1>4, <2>1, Zenon
  <2> QED
    BY <2>4, <2>5, Zenon
<1>9. D' \in Seq(LimitStates)
  BY <1>4
<1>10. m_message_queue' \in Seq(Messages) /\ at' \in Nat \ {0}
  BY Zenon DEF Tick, RateInv, queueVars, scanVars
<1> HIDE DEF N
<1> QED
  BY <1>5, <1>6, <1>7, <1>8, <1>9, <1>10, Zenon DEF RateInv, Extremes

\* Nothing else touches the limits and what they let through.
LEMMA RateFrame ==
    ASSUME RateInv, UNCHANGED <<m_limit_data, recent>>,
           m_message_queue' \in Seq(Messages), at' \in Nat \ {0}
    PROVE  RateInv'
BY ZenonT(30) DEF RateInv, TableOK, Extremes, WindowOK, LimitIds, AlwaysLimited

LEMMA RateStep ==
    ASSUME Inv, RateInv, [SenderNext]_senderVars
    PROVE  RateInv'
<1> DEFINE Q == m_message_queue
<1>1. Q \in Seq(Messages) /\ at \in Nat \ {0}
  BY Zenon DEF RateInv
<1>2. ASSUME UNCHANGED <<m_limit_data, recent, m_message_queue, at>>
      PROVE  RateInv'
  BY <1>1, <1>2, RateFrame, Zenon
<1>3. CASE UNCHANGED <<sendVars, step>>
  BY <1>2, <1>3, Zenon DEF sendVars, queueVars, limitVars, scanVars
<1>4. ASSUME NEW m \in Messages, SubmitCheck(m) \/ SendCompletes(m)
      PROVE  RateInv'
  BY <1>2, <1>4, Zenon DEF SubmitCheck, SendCompletes, limitVars, scanVars
<1>5. ASSUME NEW m \in Messages, SubmitPush(m)
      PROVE  RateInv'
  <2>1. UNCHANGED <<m_limit_data, recent, at>>
    BY <1>5, Zenon DEF SubmitPush, limitVars, scanVars
  <2>2. Q' = Q \/ Q' = Append(Q, m)
    BY <1>5, Zenon DEF SubmitPush
  <2>3. Q' \in Seq(Messages)
    BY <1>1, <2>2
  <2> QED
    BY <1>1, <2>1, <2>3, RateFrame, Zenon
<1>6. CASE PassWithEvent
  <2> DEFINE q == client.m_fsm_event_queue
             e == Head(q)
  <2>1. UNCHANGED <<m_message_queue, recent, at>> /\ NewLimits /\ q # <<>>
    BY <1>6, Zenon DEF PassWithEvent, scanVars, HandleEvent, HasEvent
  <2>2. e \in Events
    <3>1. q \in Seq(Events)
      BY DEF Inv, Objects
    <3> QED
      BY <2>1, <3>1
  <2>3. CASE e.type = "UpdateConfig" /\ e.config # NoConfig
    <3>1. e.config \in Configs
      BY <2>2, <2>3 DEF Events
    <3>2. m_limit_data' = SetLimit(m_limit_data, RateLimits[e.config])
      BY <2>1, <2>3, Zenon DEF NewLimits
    <3> HIDE DEF e
    <3> QED
      BY <2>1, <3>1, <3>2, SetLimitRate, Zenon
  <2>4. CASE ~(e.type = "UpdateConfig" /\ e.config # NoConfig)
    <3>1. UNCHANGED m_limit_data
      BY <2>1, <2>4, Zenon DEF NewLimits
    <3> QED
      BY <1>2, <2>1, <3>1, Zenon
  <2> QED
    BY <2>3, <2>4, Zenon
<1>7. CASE ScanMessage
  <2> DEFINE m  == m_message_queue[at]
             id == LimitIdOf[m]
  <2>1. m \in Messages
    BY <1>1, <1>7 DEF ScanMessage
  <2>2. id \in Int
    BY <2>1, SenderAssumption, Zenon
  <2>3. CASE AllowRequest(m_limit_data, id)
    <3>1. /\ m_limit_data' = CommitRequest(m_limit_data, id)
          /\ recent' = [i \in LimitIds |-> IF i \in Applicable(m_limit_data, id)
                                           THEN Append(recent[i], 0) ELSE recent[i]]
          /\ at' = at
          /\ Q' = SubSeq(Q, 1, at - 1) \o SubSeq(Q, at + 1, Len(Q))
      BY <1>7, <2>3, Zenon DEF ScanMessage
    <3>2. SubSeq(Q, 1, at - 1) \in Seq(Messages) /\ SubSeq(Q, at + 1, Len(Q)) \in Seq(Messages)
      <4>1. at <= Len(Q) /\ Len(Q) \in Nat /\ DOMAIN Q = 1 .. Len(Q)
        BY <1>1, <1>7 DEF ScanMessage
      <4>2. \A n \in 1 .. Len(Q) : Q[n] \in Messages
        BY <1>1
      <4> HIDE DEF Q
      <4> QED
        BY <1>1, <4>1, <4>2
    <3>3. Q' \in Seq(Messages)
      BY <3>1, <3>2, SMTT(30)
    <3> HIDE DEF id, Q
    <3> QED
      BY <1>1, <2>2, <2>3, <3>1, <3>3, CommitRate, Zenon DEF Q
  <2>4. CASE ~AllowRequest(m_limit_data, id)
    <3>1. UNCHANGED <<m_limit_data, recent, m_message_queue>> /\ at' = at + 1
      BY <1>7, <2>4, Zenon DEF ScanMessage
    <3>2. at' \in Nat \ {0} /\ Q' \in Seq(Messages)
      BY <1>1, <3>1
    <3> QED
      BY <3>1, <3>2, RateFrame, Zenon
  <2> QED
    BY <2>3, <2>4, Zenon
<1>8. CASE ScanDone
  <2>1. UNCHANGED <<m_limit_data, recent, m_message_queue>> /\ at' = 1
    BY <1>8, Zenon DEF ScanDone, queueVars, limitVars
  <2>2. at' \in Nat \ {0} /\ Q' \in Seq(Messages)
    BY <1>1, <2>1
  <2> QED
    BY <2>1, <2>2, RateFrame, Zenon
<1>9. CASE \/ PassReconnecting \/ PassBlocked \/ PassIdle \/ SendMessage
           \/ ProcessSendCallbacks \/ BetweenPasses
  BY <1>2, <1>9, Zenon DEF PassReconnecting, PassBlocked, PassIdle, SendMessage,
                           ProcessSendCallbacks, BetweenPasses,
                           sendVars, queueVars, limitVars, scanVars
<1>10. CASE Tick
  BY <1>10, TickRate
<1>11. CASE UNCHANGED senderVars
  BY <1>2, <1>11, Zenon DEF senderVars, sendVars, queueVars, limitVars, scanVars
<1> QED
  BY <1>3, <1>4, <1>5, <1>6, <1>7, <1>8, <1>9, <1>10, <1>11, Zenon DEF SenderNext, Process

\* However messages, clock and new configurations interleave, a limit of
\* WebSocketRateLimiter that every configuration has lets at most twice its rate
\* through in a period: a window that begins again, because its period is over or
\* because set_limit restarts it, keeps the count or starts it at one.
THEOREM SendRateBounded == SenderSpec => []SendRateBound
<1>1. SenderInit => Inv /\ RateInv
  <2> SUFFICES ASSUME SenderInit PROVE Inv /\ RateInv
    OBVIOUS
  <2>1. Inv
    BY InvInit DEF SenderInit
  <2>2. <<>> \in Seq(LimitStates) /\ <<>> \in Seq(Nat) /\ <<>> \in Seq(Messages)
    OBVIOUS
  <2>3. /\ m_limit_data \in Seq(LimitStates) /\ m_message_queue \in Seq(Messages)
        /\ recent \in [LimitIds -> Seq(Nat)] /\ TableOK
    BY <2>2, Zenon DEF SenderInit, TableOK
  <2>4. at \in Nat \ {0}
    BY DEF SenderInit
  <2>5. \A i \in LimitIds : i \notin DOMAIN m_limit_data /\ recent[i] = <<>>
    BY DEF SenderInit
  <2> QED
    BY <2>1, <2>3, <2>4, <2>5, Zenon DEF RateInv
<1>2. Inv /\ RateInv /\ [SenderNext]_senderVars => Inv' /\ RateInv'
  BY SenderStep, InvStep, RateStep
<1>3. RateInv => SendRateBound
  <2> SUFFICES ASSUME RateInv, NEW i \in LimitIds, NEW c \in Configs, NEW d \in Configs,
                      AlwaysLimited(i), Extremes(i, c, d)
               PROVE  Cardinality({n \in DOMAIN recent[i] :
                                     recent[i][n] < RateLimits[d][i].period})
                        <= 2 * RateLimits[c][i].rpp
    BY Zenon DEF SendRateBound, Extremes
  <2> DEFINE R == RateLimits[c][i].rpp
             p == RateLimits[d][i].period
             g == recent[i]
  <2>1. g \in Seq(Nat)
    BY Zenon DEF RateInv
  <2>2. R \in Nat /\ p \in Nat
    BY TableEntry DEF AlwaysLimited
  <2>3. CASE i \in DOMAIN m_limit_data
    <3>1. WindowOK(m_limit_data[i], g, R, p)
      BY <2>3, Zenon DEF RateInv
    <3>2. m_limit_data[i] \in LimitStates
      BY <2>3, TableRange, Zenon
    <3> HIDE DEF g, R, p
    <3>3. Cardinality({n \in DOMAIN g : g[n] < p}) <= 2 * R
      BY <2>1, <2>2, <3>1, <3>2, WindowCount
    <3> QED
      BY <3>3 DEF g, R, p
  <2>4. CASE i \notin DOMAIN m_limit_data
    <3>1. g = <<>>
      BY <2>4, Zenon DEF RateInv
    <3>2. {n \in DOMAIN g : g[n] < p} = {}
      BY <3>1
    <3>3. Cardinality({n \in DOMAIN g : g[n] < p}) = 0
      BY <3>2, FS_EmptySet, Zenon
    <3> HIDE DEF g, R, p
    <3>4. Cardinality({n \in DOMAIN g : g[n] < p}) <= 2 * R
      BY <2>2, <3>3
    <3> QED
      BY <3>4 DEF g, R, p
  <2> QED
    BY <2>3, <2>4
<1> QED
  BY <1>1, <1>2, <1>3, PTL DEF SenderSpec

-----------------------------------------------------------------------------
(* Callbacks                                                               *)

\* The adapter owns a connection that is being opened or is open.
Live(o) == o.socket \in {"connecting", "opening", "open"} \/ o.connection = "current"

\* It does so only while the state machine counts on it.  When a pass in
\* RECONNECTING has started one, what follows does not give it up.
LiveOK(o) == Live(o) => o.m_fsm_state \in Active

TailOK ==
    tail /\ client.m_fsm_state \in Active => client.m_reconnect_attempt = 0 /\ CanInit(client)

MayReconnect == \A c \in Configs : c.reconnect

LiveInv ==
    /\ LiveOK(client)
    /\ TailOK
    /\ tail \/ client.m_fsm_state = "RECONNECTING" => MayReconnect

LEMMA DeinitQuiet ==
    ASSUME NEW o \in Objects
    PROVE  /\ ~Live(Deinit(o)) /\ ~Live(HandleClose(Deinit(o)))
           /\ HandleClose(Deinit(o)) \in Objects
<1> DEFINE d == DropSocket(o, "none")
           n == [d EXCEPT !.connection = "none"]
           h == [n EXCEPT !.m_is_connected = FALSE]
<1>1. d \in Objects /\ d.socket = "none"
  BY DropSocketShape
<1>2. Deinit(o) = n /\ HandleClose(Deinit(o)) = h
  BY Zenon DEF Deinit, HandleClose
<1> HIDE DEF d
<1>3. n \in Objects /\ n.socket = "none" /\ n.connection = "none"
  BY <1>1, Zenon DEF Objects
<1> HIDE DEF n
<1>4. h \in Objects /\ h.socket = "none" /\ h.connection = "none"
  BY <1>3, Zenon DEF Objects
<1> QED
  BY <1>2, <1>3, <1>4 DEF Live

LEMMA IdleQuiet ==
    ASSUME NEW o \in Objects, ~Live(o)
    PROVE  ~Live(Idle(o)) /\ ~Live(Stopped(o))
BY Zenon DEF Idle, Stopped, Objects, Live

LEMMA StartOrStopLive ==
    ASSUME NEW o \in Objects, ~Live(o) \/ CanInit(o)
    PROVE  LiveOK(StartOrStop(o))
<1>1. CASE CanInit(o)
  BY <1>1, StartOrStopCount DEF LiveOK, Active
<1>2. CASE ~CanInit(o)
  BY <1>2, IdleQuiet DEF StartOrStop, LiveOK
<1> QED
  BY <1>1, <1>2

LEMMA DroppedQuiet ==
    ASSUME NEW o \in Objects
    PROVE  /\ ~Live(Dropped(o)) /\ ~Live(Disconnected(o))
           /\ Dropped(o).m_fsm_state = "RECONNECTING" => o.m_config.reconnect
<1> DEFINE g == HandleClose(Deinit(o))
           n == CountAttempt(g.m_reconnect_attempt)
           r == [g EXCEPT !.m_reconnect_attempt = n, !.elapsed = FALSE,
                          !.m_is_running = TRUE, !.m_fsm_state = "RECONNECTING"]
           z == [g EXCEPT !.m_reconnect_attempt = 0]
<1>1. g \in Objects /\ ~Live(g)
  BY DeinitQuiet
<1>2. /\ Dropped(o) = IF ~o.m_config.reconnect THEN Idle(g) ELSE r
      /\ Disconnected(o) = Idle(z)
  BY DEF Dropped, Disconnected
<1> HIDE DEF g, n
<1>3. ~Live(r)
  BY <1>1, Zenon DEF Objects, Live
<1>4. z \in Objects /\ ~Live(z)
  BY <1>1, Zenon DEF Objects, Live
<1> HIDE DEF r, z
<1>5. ~Live(Idle(g)) /\ ~Live(Idle(z)) /\ Idle(g).m_fsm_state = "INIT"
  BY <1>1, <1>4, IdleQuiet, IdleCount
<1> QED
  BY <1>2, <1>3, <1>5

LEMMA WithConfigLive ==
    ASSUME NEW o \in Objects, NEW c \in Configs \cup {NoConfig}
    PROVE  /\ WithConfig(o, c) \in Objects
           /\ Live(WithConfig(o, c)) = Live(o)
           /\ WithConfig(o, c).m_config = c
           /\ c # NoConfig => WithConfig(o, c).m_reconnect_attempt = 0
<1> DEFINE k == IF c = NoConfig THEN o.m_reconnect_attempt ELSE 0
           w == [o EXCEPT !.m_config = c, !.m_reconnect_attempt = k]
<1>1. WithConfig(o, c) = w
  BY DEF WithConfig
<1>2. k \in Nat /\ (c # NoConfig => k = 0)
  BY DEF Objects
<1> HIDE DEF k
<1>3. /\ w.socket = o.socket /\ w.connection = o.connection
      /\ w.m_config = c /\ w.m_reconnect_attempt = k
  BY <1>2, Zenon DEF Objects
<1>4. WithConfig(o, c) \in Objects
  BY WithConfigShape
<1> QED
  BY <1>1, <1>2, <1>3, <1>4 DEF Live

\* An event, in every state.
LEMMA AfterEventLive ==
    ASSUME NEW o \in Objects, NEW e \in Events, LiveOK(o),
           o.m_fsm_state \in Active => o.m_config # NoConfig
    PROVE  LET n == AfterEvent(o, e)
           IN  /\ LiveOK(n)
               /\ o.m_fsm_state = "RECONNECTING" /\ n.m_fsm_state \in Active =>
                    n.m_reconnect_attempt = 0 /\ CanInit(n)
               /\ n.m_fsm_state = "RECONNECTING" /\ o.m_fsm_state # "RECONNECTING" =>
                    o.m_config \in Configs /\ o.m_config.reconnect
<1> DEFINE n == AfterEvent(o, e)
           g == HandleClose(Deinit(o))
           c == e.config
<1>1. c \in Configs \cup {NoConfig} /\ o.m_fsm_state \in States
  BY DEF Events, Objects
<1>2. g \in Objects /\ ~Live(g)
  BY DeinitQuiet
<1>3. CASE o.m_fsm_state \in Active
  <2>1. \/ n = Opened(o) \/ n = Dropped(o) \/ n = Disconnected(o) \/ n = o
        \/ n = StartOrStop(WithConfig(g, c))
    BY <1>3, Zenon DEF AfterEvent, StateConnecting, StateWorking, Active
  <2>2. LiveOK(Opened(o)) /\ Opened(o).m_fsm_state = "WORKING"
    BY DEF Opened, Objects, LiveOK, Active
  <2>3. LiveOK(Dropped(o)) /\ LiveOK(Disconnected(o))
    BY DroppedQuiet DEF LiveOK
  <2>4. LiveOK(StartOrStop(WithConfig(g, c)))
    BY <1>1, <1>2, WithConfigLive, StartOrStopLive
  <2>5. StartOrStop(WithConfig(g, c)).m_fsm_state # "RECONNECTING"
    BY <1>1, <1>2, WithConfigLive, StartOrStopCount
  <2>6. o.m_config \in Configs
    BY <1>3 DEF Objects
  <2>7. Disconnected(o).m_fsm_state = "INIT"
    BY DisconnectedCount
  <2>8. o.m_fsm_state # "RECONNECTING"
    BY <1>3 DEF Active
  <2> HIDE DEF n, g, c
  <2>9. LiveOK(n)
    BY <2>1, <2>2, <2>3, <2>4
  <2>10. n.m_fsm_state = "RECONNECTING" => o.m_config.reconnect
    BY <2>1, <2>2, <2>5, <2>7, <2>8, DroppedQuiet
  <2> QED
    BY <2>6, <2>8, <2>9, <2>10 DEF n
<1>4. CASE o.m_fsm_state = "RECONNECTING"
  <2>1. ~Live(o)
    BY <1>4 DEF LiveOK, Active
  <2>2. n = Idle(o) \/ n = o \/ n = StartOrStop(WithConfig(o, c))
    BY <1>4, Zenon DEF AfterEvent, StateReconnecting
  <2>3. LiveOK(Idle(o)) /\ Idle(o).m_fsm_state = "INIT"
    BY <2>1, IdleQuiet, IdleCount DEF LiveOK
  <2> DEFINE w == WithConfig(o, c)
             s == StartOrStop(w)
  <2>4. /\ w \in Objects /\ ~Live(w) /\ w.m_config = c
        /\ c # NoConfig => w.m_reconnect_attempt = 0
    BY <1>1, <2>1, WithConfigLive
  <2> HIDE DEF w
  <2>5. LiveOK(s)
    BY <2>4, StartOrStopLive
  <2>6. ASSUME s.m_fsm_state \in Active
        PROVE  s.m_reconnect_attempt = 0 /\ CanInit(s)
    <3>1. CanInit(w) /\ SameCount(s, w)
      BY <2>4, <2>6, StartOrStopCount DEF Active
    <3> QED
      BY <2>4, <3>1 DEF SameCount, CanInit
  <2>7. LiveOK(n)
    BY <2>2, <2>3, <2>5 DEF w
  <2>8. n.m_fsm_state \in Active => n.m_reconnect_attempt = 0 /\ CanInit(n)
    BY <1>4, <2>2, <2>3, <2>6 DEF w, Active
  <2> QED
    BY <1>4, <2>7, <2>8
<1>5. CASE o.m_fsm_state \in {"INIT", "STOPPED"}
  <2>1. ~Live(o)
    BY <1>5 DEF LiveOK, Active
  <2>2. \/ n = o \/ n = StartOrStop(o) \/ n = StartOrStop(WithConfig(o, c))
        \/ n = [o EXCEPT !.m_config = c]
    BY <1>5, Zenon DEF AfterEvent, StateInit, StateStopped
  <2>3. LiveOK(StartOrStop(o)) /\ StartOrStop(o).m_fsm_state # "RECONNECTING"
    BY <2>1, StartOrStopLive, StartOrStopCount
  <2>4. /\ LiveOK(StartOrStop(WithConfig(o, c)))
        /\ StartOrStop(WithConfig(o, c)).m_fsm_state # "RECONNECTING"
    BY <1>1, <2>1, WithConfigLive, StartOrStopLive, StartOrStopCount
  <2>5. ~Live([o EXCEPT !.m_config = c]) /\ [o EXCEPT !.m_config = c].m_fsm_state = o.m_fsm_state
    BY <2>1, Zenon DEF Objects, Live
  <2> HIDE DEF n, c
  <2>6. LiveOK(n) /\ n.m_fsm_state # "RECONNECTING"
    BY <1>5, <2>2, <2>3, <2>4, <2>5, Zenon DEF LiveOK
  <2> QED
    BY <1>5, <2>6 DEF n
<1> QED
  BY <1>1, <1>3, <1>4, <1>5, Zenon DEF States, Active

\* A step that leaves the state alone and opens nothing.
LEMMA LiveFrame ==
    ASSUME LiveInv, SameCount(client', client), client'.m_fsm_state = client.m_fsm_state,
           Live(client') => Live(client), tail' => tail
    PROVE  LiveInv'
BY DEF LiveInv, LiveOK, TailOK, SameCount, CanInit, MayReconnect

\* What a step may do to the connection without a pass of the state machine.
LEMMA EventQueued ==
    ASSUME Inv, \/ UNCHANGED client \/ DelayPasses \/ client' = Popped
                \/ \E e : client' = Push(client, e)
    PROVE  /\ SameCount(client', client) /\ client'.m_fsm_state = client.m_fsm_state
           /\ client'.socket = client.socket /\ client'.connection = client.connection
<1>1. client \in Objects
  BY DEF Inv
<1>2. CASE UNCHANGED client
  BY <1>2 DEF SameCount
<1>3. CASE DelayPasses
  <2>1. client' = [client EXCEPT !.elapsed = TRUE]
    BY <1>3, Zenon DEF DelayPasses
  <2> QED
    BY <1>1, <2>1, Zenon DEF Objects, SameCount
<1>4. ASSUME NEW e, client' = Push(client, e)
      PROVE  /\ SameCount(client', client) /\ client'.m_fsm_state = client.m_fsm_state
             /\ client'.socket = client.socket /\ client'.connection = client.connection
  <2> DEFINE q == Append(client.m_fsm_event_queue, e)
  <2>1. client' = [client EXCEPT !.m_fsm_event_queue = q]
    BY <1>4, Zenon DEF Push
  <2> HIDE DEF q
  <2> QED
    BY <1>1, <2>1, Zenon DEF Objects, SameCount
<1>5. CASE client' = Popped
  BY <1>1, <1>5, Zenon DEF Popped, Objects, SameCount
<1> QED
  BY <1>2, <1>3, <1>4, <1>5

LEMMA HandlerLive ==
    ASSUME Inv, NEW from \in {"connecting", "opening", "open"}, NEW type, NEW to,
           Handler(from, type, to)
    PROVE  /\ SameCount(client', client) /\ client'.m_fsm_state = client.m_fsm_state
           /\ Live(client)
           /\ client'.connection \in {client.connection, "current"}
<1> DEFINE q == Append(client.m_fsm_event_queue, Event(type, NoCall, NoConfig, TRUE))
           s == IF from = "opening" THEN "current" ELSE client.connection
           k == client.received + (IF type = "MessageReceived" THEN 1 ELSE 0)
<1>1. client \in Objects
  BY DEF Inv
<1>2. client' = [client EXCEPT !.m_fsm_event_queue = q, !.socket = to, !.connection = s,
                               !.received = k]
  BY <1>1 DEF Handler, Push, Objects
<1>3. Live(client)
  BY DEF Handler, Live
<1>4. s \in {client.connection, "current"}
  OBVIOUS
<1> HIDE DEF q, s, k
<1>5. /\ SameCount(client', client) /\ client'.m_fsm_state = client.m_fsm_state
      /\ client'.connection = s
  BY <1>1, <1>2, Zenon DEF Objects, SameCount
<1> QED
  BY <1>3, <1>4, <1>5

\* Only a pass of the state machine, or the end of shutdown(), ends a connection.
LEMMA OtherSteps ==
    ASSUME Inv, User \/ DelayPasses \/ Io \/ Upkeep \/ Block \/ UNCHANGED vars
    PROVE  /\ SameCount(client', client) /\ client'.m_fsm_state = client.m_fsm_state
           /\ Live(client') => Live(client)
           /\ client'.connection \in {client.connection, "current"}
           /\ tail' = tail
<1>1. CASE OnOpen \/ OnConnectError \/ OnMessage \/ OnClose \/ OnError
  <2>1. tail' = tail
    BY <1>1, Zenon DEF OnOpen, OnConnectError, OnMessage, OnClose, OnError, Handler
  <2>2. \E from \in {"connecting", "opening", "open"} : \E type, to : Handler(from, type, to)
    BY <1>1, Zenon DEF OnOpen, OnConnectError, OnMessage, OnClose, OnError
  <2> QED
    BY <2>1, <2>2, HandlerLive
<1>2. CASE User
  <2>1. tail' = tail /\ (UNCHANGED client \/ \E e : client' = Push(client, e))
    BY <1>2, Zenon DEF User, Construct, ConstructConfig, Configure, ConnectConfig, Connect,
                       Disconnect, SetConfig, Call, Destroy
  <2> QED
    BY <2>1, EventQueued DEF Live
<1>3. CASE Upkeep
  <2>1. tail' = tail /\ (UNCHANGED client \/ \E e : client' = Push(client, e))
    BY <1>3, Zenon DEF Upkeep, RunTask, ManagerShutdown, RunLastTask, BeginShutdown, Ends,
                       Sleep, Stop, NotifiedByOthers
  <2> QED
    BY <2>1, EventQueued DEF Live
<1>4. CASE DelayPasses \/ IoWake \/ Block \/ UNCHANGED vars
  <2>1. tail' = tail /\ (UNCHANGED client \/ DelayPasses \/ client' = Popped)
    BY <1>4, Zenon DEF DelayPasses, IoWake, Block, vars
  <2> QED
    BY <2>1, EventQueued DEF Live
<1>5. CASE Opens
  <2>1. /\ client \in Objects /\ client.socket = "connecting" /\ tail' = tail
        /\ client' = [client EXCEPT !.socket = "opening"]
    BY <1>5, Zenon DEF Opens, Inv
  <2>2. /\ SameCount(client', client) /\ client'.m_fsm_state = client.m_fsm_state
        /\ client'.connection = client.connection
    BY <2>1, Zenon DEF Objects, SameCount
  <2> QED
    BY <2>1, <2>2 DEF Live
<1> QED
  BY <1>1, <1>2, <1>3, <1>4, <1>5, Zenon DEF Io

\* A pass that finds an event.
LEMMA EventTaken ==
    ASSUME Inv, HandleEvent
    PROVE  /\ Popped \in Objects /\ Popped.m_fsm_state = client.m_fsm_state
           /\ Popped.m_config = client.m_config
           /\ Popped.connection = client.connection /\ Live(Popped) = Live(client)
           /\ Head(client.m_fsm_event_queue) \in Events
           /\ client' = AfterEvent(Popped, Head(client.m_fsm_event_queue))
<1> DEFINE q == client.m_fsm_event_queue
           t == Tail(q)
<1>1. client \in Objects /\ q # <<>> /\ client' = AfterEvent(Popped, Head(q))
  BY Zenon DEF Inv, HandleEvent, HasEvent
<1>2. q \in Seq(Events)
  BY <1>1 DEF Objects
<1>3. Head(q) \in Events
  BY <1>1, <1>2
<1>4. /\ Popped \in Objects /\ Popped.m_fsm_state = client.m_fsm_state
      /\ Popped.m_config = client.m_config
  BY <1>1, PoppedShape
<1>5. Popped = [client EXCEPT !.m_fsm_event_queue = t]
  BY Zenon DEF Popped
<1> HIDE DEF t
<1>6. Popped.connection = client.connection /\ Popped.socket = client.socket
  BY <1>1, <1>5, Zenon DEF Objects
<1> QED
  BY <1>1, <1>3, <1>4, <1>6 DEF Live

LEMMA LiveStep ==
    ASSUME ReconnectKept, Inv, LiveInv, [Next]_vars
    PROVE  LiveInv'
<1>1. client \in Objects /\ ActiveOK(client) /\ client.m_fsm_state \in States
  BY DEF Inv, Objects
<1>2. CASE User \/ DelayPasses \/ Io \/ Upkeep \/ Block \/ UNCHANGED vars
  BY <1>2, OtherSteps, LiveFrame
<1>3. CASE HandleEvent
  <2> DEFINE e == Head(client.m_fsm_event_queue)
             o == Popped
  <2>1. /\ o \in Objects /\ o.m_fsm_state = client.m_fsm_state /\ o.m_config = client.m_config
        /\ Live(o) = Live(client) /\ e \in Events /\ client' = AfterEvent(o, e)
    BY <1>3, EventTaken
  <2>2. LiveOK(o) /\ (o.m_fsm_state \in Active => o.m_config # NoConfig)
    BY <1>1, <2>1 DEF LiveInv, LiveOK, ActiveOK
  <2> HIDE DEF o, e
  <2>3. /\ LiveOK(client')
        /\ o.m_fsm_state = "RECONNECTING" /\ client'.m_fsm_state \in Active =>
             client'.m_reconnect_attempt = 0 /\ CanInit(client')
        /\ client'.m_fsm_state = "RECONNECTING" /\ o.m_fsm_state # "RECONNECTING" =>
             o.m_config \in Configs /\ o.m_config.reconnect
    BY <2>1, <2>2, AfterEventLive
  <2>4. tail' = (client.m_fsm_state = "RECONNECTING")
    BY <1>3, Zenon DEF HandleEvent
  <2>5. TailOK'
    BY <2>1, <2>3, <2>4, Zenon DEF TailOK, CanInit
  <2>6. tail' \/ client'.m_fsm_state = "RECONNECTING" => MayReconnect
    <3>1. CASE client.m_fsm_state = "RECONNECTING"
      BY <3>1 DEF LiveInv
    <3>2. CASE client.m_fsm_state # "RECONNECTING"
      BY <2>1, <2>3, <2>4, <3>2, Zenon DEF MayReconnect, ReconnectKept
    <3> QED
      BY <3>1, <3>2
  <2> QED
    BY <2>3, <2>5, <2>6 DEF LiveInv, LiveOK, Live, MayReconnect
<1>4. CASE TryReconnect
  <2>1. client' = Reconnected(client) /\ tail' = FALSE /\ MayReconnect
    BY <1>4, Zenon DEF TryReconnect, AtReconnect, LiveInv
  <2>2. /\ LiveOK(Reconnected(client))
        /\ Reconnected(client).m_fsm_state = "RECONNECTING" =>
             Reconnected(client) = client
    <3>1. CASE client.m_fsm_state \in Active
      <4>1. tail
        BY <1>4, <3>1 DEF TryReconnect, AtReconnect, Active
      <4>2. /\ client.m_config # NoConfig /\ client.m_config \in Configs
            /\ client.m_reconnect_attempt = 0 /\ CanInit(client)
        BY <1>1, <3>1, <4>1 DEF LiveInv, TailOK, ActiveOK, Objects
      <4>3. client.m_config.reconnect /\ client.m_config.attempts \in Nat
        BY <2>1, <4>2, ClientAssumption DEF MayReconnect
      <4>4. ~GivesUp(client)
        BY <4>2, <4>3 DEF GivesUp, AttemptsUsedUp
      <4>5. Reconnected(client) = StartOrStop(client) \/ Reconnected(client) = client
        BY <4>2, <4>4, Zenon DEF Reconnected
      <4>6. LiveOK(StartOrStop(client)) /\ StartOrStop(client).m_fsm_state # "RECONNECTING"
        BY <1>1, <4>2, StartOrStopLive, StartOrStopCount
      <4> QED
        BY <4>5, <4>6 DEF LiveInv
    <3>2. CASE client.m_fsm_state \notin Active
      <4>1. ~Live(client)
        BY <3>2 DEF LiveInv, LiveOK
      <4>2. \/ Reconnected(client) = Stopped(client) \/ Reconnected(client) = Idle(client)
            \/ Reconnected(client) = StartOrStop(client) \/ Reconnected(client) = client
        BY Zenon DEF Reconnected
      <4>3. /\ LiveOK(StartOrStop(client)) /\ StartOrStop(client).m_fsm_state # "RECONNECTING"
            /\ LiveOK(Idle(client)) /\ Idle(client).m_fsm_state # "RECONNECTING"
            /\ LiveOK(Stopped(client))
        BY <1>1, <4>1, StartOrStopLive, StartOrStopCount, IdleQuiet, IdleCount DEF LiveOK
      <4>4. Stopped(client).m_fsm_state # "RECONNECTING"
        BY <1>1 DEF Stopped, Objects
      <4> QED
        BY <4>2, <4>3, <4>4 DEF LiveInv
    <3> QED
      BY <3>1, <3>2
  <2> QED
    BY <2>1, <2>2 DEF LiveInv, LiveOK, Live, TailOK, MayReconnect
<1>5. CASE TaskDone
  <2>1. client' = Deinit(client) /\ tail' = tail
    BY <1>5, Zenon DEF TaskDone
  <2>2. ~Live(client') /\ SameCount(client', client) /\ client'.m_fsm_state = client.m_fsm_state
    BY <1>1, <2>1, DeinitQuiet, DeinitIdle, DeinitCount
  <2> QED
    BY <2>1, <2>2, LiveFrame
<1> QED
  BY <1>2, <1>3, <1>4, <1>5, Zenon DEF Next, Upkeep, Passes, Life

-----------------------------------------------------------------------------

\* A send in progress has its connection.  Between two passes without one, every
\* completion has been told: process_send_callback_queue ran after the pass that
\* ended the connection, and nothing completes after it.
CallbackInv ==
    /\ \A m \in Messages : msg[m] = "sending" => client.connection = "current"
    /\ step = "fsm" /\ client.connection # "current" => m_send_callback_queue = <<>>

\* Sends end with their connection.
LEMMA LoseSendsOK ==
    ASSUME CallbackInv, LoseSends
    PROVE  \A m \in Messages : msg'[m] = "sending" => client'.connection = "current"
BY DEF CallbackInv, LoseSends, Mark

LEMMA CallbackStep ==
    ASSUME Inv, LiveInv, CallbackInv, [SenderNext]_senderVars
    PROVE  CallbackInv'
<1>1. /\ client \in Objects /\ ActiveOK(client)
      /\ client.connection = "current" => client.m_fsm_state \in Active /\ client.m_is_running
  BY DEF Inv, ActiveOK, LiveInv, LiveOK, Live
<1>2. CASE (UserCall \/ DelayPasses \/ Io \/ Upkeep \/ Block) /\ UNCHANGED <<sendVars, step>>
  <2>1. client'.connection \in {client.connection, "current"}
    BY <1>2, OtherSteps DEF UserCall
  <2>2. UNCHANGED <<msg, step, m_send_callback_queue>>
    BY <1>2, Zenon DEF sendVars, queueVars
  <2> QED
    BY <2>1, <2>2 DEF CallbackInv
<1>3. ASSUME NEW m \in Messages, SubmitCheck(m) \/ SubmitPush(m)
      PROVE  CallbackInv'
  <2>1. UNCHANGED <<client, step, m_send_callback_queue>>
    BY <1>3, Zenon DEF SubmitCheck, SubmitPush, vars
  <2>2. \E s \in {"checked", "over", "queued"} : msg' = Mark({m}, s)
    BY <1>3, Zenon DEF SubmitCheck, SubmitPush
  <2>3. \A k \in Messages : msg'[k] = "sending" => msg[k] = "sending"
    BY <2>2 DEF Mark
  <2> QED
    BY <2>1, <2>3 DEF CallbackInv
<1>4. ASSUME NEW m \in Messages, SendCompletes(m)
      PROVE  CallbackInv'
  <2>1. UNCHANGED <<client, step>> /\ client.connection = "current"
    BY <1>4, Zenon DEF SendCompletes, vars, CallbackInv
  <2> QED
    BY <2>1 DEF CallbackInv
<1>5. CASE PassWithEvent
  <2> DEFINE e == Head(client.m_fsm_event_queue)
  <2>1. /\ step = "fsm" /\ HandleEvent /\ LoseSends
        /\ UNCHANGED m_send_callback_queue
        /\ step' = IF /\ client.m_fsm_state = "WORKING" /\ e.type = "MessageReceived"
                      /\ Len(client.m_fsm_event_queue) > 1
                   THEN "fsm" ELSE AfterPass
    BY <1>5, Zenon DEF PassWithEvent
  <2>2. CASE client.m_fsm_state = "WORKING" /\ e.type = "MessageReceived"
    <3>1. /\ Popped.m_fsm_state = "WORKING" /\ Popped.connection = client.connection
          /\ client' = AfterEvent(Popped, e)
      BY <2>1, <2>2, EventTaken
    <3>2. client' = Popped
      BY <2>2, <3>1 DEF AfterEvent, StateWorking, StateConnecting
    <3> QED
      BY <2>1, <3>1, <3>2, LoseSendsOK DEF CallbackInv
  <2>3. CASE ~(client.m_fsm_state = "WORKING" /\ e.type = "MessageReceived")
    <3>1. step' = "fsm" => client.m_fsm_state = "RECONNECTING"
      BY <2>1, <2>3, Zenon DEF AfterPass, HandleEvent
    <3>2. step' = "fsm" => client.connection # "current"
      BY <1>1, <3>1 DEF Active
    <3> QED
      BY <2>1, <3>2, LoseSendsOK DEF CallbackInv
  <2> QED
    BY <2>2, <2>3
<1>6. CASE PassReconnecting
  <2>1. LoseSends /\ step' # "fsm"
    BY <1>6 DEF PassReconnecting, TryReconnect, AfterPass
  <2> QED
    BY <2>1, LoseSendsOK DEF CallbackInv
<1>7. CASE PassIdle
  <2>1. UNCHANGED <<client, msg>> /\ step' # "fsm"
    BY <1>7 DEF PassIdle, vars, sendVars, queueVars
  <2> QED
    BY <2>1 DEF CallbackInv
<1>8. CASE ScanMessage
  <2>1. UNCHANGED <<client, step, m_send_callback_queue>>
    BY <1>8, Zenon DEF ScanMessage, vars
  <2>2. msg' = msg \/ msg' = Mark({m_message_queue[at]}, "taken")
    BY <1>8, Zenon DEF ScanMessage
  <2>3. \A k \in Messages : msg'[k] = "sending" => msg[k] = "sending"
    BY <2>2 DEF Mark
  <2> QED
    BY <2>1, <2>3 DEF CallbackInv
<1>9. CASE ScanDone
  <2>1. UNCHANGED <<client, msg>> /\ step' # "fsm"
    BY <1>9 DEF ScanDone, vars, queueVars
  <2> QED
    BY <2>1 DEF CallbackInv
<1>10. CASE SendMessage
  <2>1. UNCHANGED client /\ step' # "fsm"
    BY <1>10 DEF SendMessage, vars
  <2>2. msg' = Mark({Head(outgoing)},
                    IF client.connection = "current" THEN "sending" ELSE "over")
    BY <1>10, Zenon DEF SendMessage
  <2> QED
    BY <2>1, <2>2 DEF CallbackInv, Mark
<1>11. CASE ProcessSendCallbacks
  <2>1. /\ UNCHANGED client /\ m_send_callback_queue' = <<>>
        /\ msg' = Mark(Range(m_send_callback_queue), "over")
    BY <1>11, Zenon DEF ProcessSendCallbacks, vars
  <2>2. \A k \in Messages : msg'[k] = "sending" => msg[k] = "sending"
    BY <2>1 DEF Mark
  <2> QED
    BY <2>1, <2>2 DEF CallbackInv
<1>12. CASE BetweenPasses
  <2>1. LoseSends /\ UNCHANGED <<step, m_send_callback_queue>> /\ step = "fsm"
    BY <1>12, Zenon DEF BetweenPasses
  <2>2. CASE Upkeep
    <3>1. client'.connection \in {client.connection, "current"}
      BY <2>2, OtherSteps
    <3> QED
      BY <2>1, <3>1, LoseSendsOK DEF CallbackInv
  <2>3. CASE TaskDone
    <3>1. client.connection # "current"
      BY <1>1, <2>3 DEF TaskDone, IsRunning
    <3> QED
      BY <2>1, <3>1, LoseSendsOK DEF CallbackInv
  <2> QED
    BY <1>12, <2>2, <2>3 DEF BetweenPasses, Life, Upkeep
<1>13. CASE Tick \/ UNCHANGED senderVars
  <2>1. UNCHANGED <<client, msg, step, m_send_callback_queue>>
    BY <1>13, Zenon DEF Tick, senderVars, vars, sendVars, queueVars
  <2> QED
    BY <2>1 DEF CallbackInv
<1> QED
  BY <1>2, <1>3, <1>4, <1>5, <1>6, <1>7, <1>8, <1>9, <1>10, <1>11, <1>12, <1>13, Zenon
  DEF SenderNext, Process, PassBlocked, Upkeep

\* For every set of configurations that keep reconnect, limits, calls and messages:
\* the worker tells the callback of every completed send before it sleeps on a
\* client that no longer runs.
THEOREM CallbacksTold == SenderSpec => []NoCallbackLeft
<1>1. SenderInit => Inv /\ LiveInv /\ CallbackInv
  <2> SUFFICES ASSUME SenderInit PROVE Inv /\ LiveInv /\ CallbackInv
    OBVIOUS
  <2>1. Init
    BY DEF SenderInit
  <2>2. LiveInv
    BY <2>1 DEF Init, LiveInv, LiveOK, Live, TailOK
  <2>3. CallbackInv
    BY DEF SenderInit, CallbackInv
  <2> QED
    BY <2>1, <2>2, <2>3, InvInit
<1>2. ReconnectKept /\ Inv /\ LiveInv /\ CallbackInv /\ [SenderNext]_senderVars =>
        Inv' /\ LiveInv' /\ CallbackInv'
  BY SenderStep, InvStep, LiveStep, CallbackStep
<1>3. Inv /\ LiveInv /\ CallbackInv => NoCallbackLeft
  BY DEF Inv, ActiveOK, LiveInv, LiveOK, Live, CallbackInv, NoCallbackLeft, IsRunning
<1>4. CASE ReconnectKept
  <2>1. Inv /\ LiveInv /\ CallbackInv /\ [SenderNext]_senderVars =>
          Inv' /\ LiveInv' /\ CallbackInv'
    BY <1>2, <1>4
  <2> QED
    BY <1>1, <1>3, <2>1, PTL DEF SenderSpec
<1>5. CASE ~ReconnectKept
  <2>1. NoCallbackLeft
    BY <1>5 DEF NoCallbackLeft
  <2> QED
    BY <2>1, PTL
<1> QED
  BY <1>4, <1>5
=============================================================================
