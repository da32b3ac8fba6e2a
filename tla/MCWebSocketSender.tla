-------------------------- MODULE MCWebSocketSender --------------------------
(* A small instance of WebSocketSender for TLC. *)
EXTENDS WebSocketSender

\* One configuration, which gives up after one attempt: a general limit, and room for
\* one message.
Once == [valid |-> TRUE, reconnect |-> TRUE, attempts |-> 1, delay |-> FALSE]
OneConfig == {Once}
Limits == [c \in OneConfig |-> <<[rpp |-> 1, period |-> 2]>>]
QueueSizes == [c \in OneConfig |-> 1]
Ids == [m \in Messages |-> 0]

\* The instance starts where connect() has led to an open connection and a first
\* message, one tick after the limit was set, has just been sent and answered.
StartConnected ==
    /\ client = [m_fsm_state |-> "WORKING", m_config |-> Once,
                 m_is_running |-> TRUE, m_is_connected |-> TRUE,
                 m_reconnect_attempt |-> 0, m_fsm_event_queue |-> <<>>,
                 elapsed |-> FALSE, socket |-> "open", connection |-> "current",
                 received |-> 0]
    /\ tail = FALSE
    /\ deferred = Once
    /\ calls = [k \in Calls |-> "none"]
    /\ reconnects = 0
    /\ phase = "live"
    /\ worker = "awake"
    /\ m_shutdown = FALSE
    /\ io = [running |-> TRUE, notify |-> FALSE]
    /\ m_message_queue = <<>>
    /\ m_send_callback_queue = <<>>
    /\ m_limit_data = <<[rpp |-> 1, period |-> 2, count |-> 1, age |-> 1]>>
    /\ m_max_send_queue_size = QueueSizes[Once]
    /\ msg = [m \in Messages |-> "new"]
    /\ outgoing = <<>>
    /\ step = "fsm"
    /\ at = 1
    /\ recent = <<<<0>>>>

ConnectedSpec == StartConnected /\ [][SenderNext]_senderVars /\ SenderFairness
=============================================================================
