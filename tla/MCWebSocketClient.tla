-------------------------- MODULE MCWebSocketClient --------------------------
(* Small instances of WebSocketClient for TLC. *)
EXTENDS WebSocketClient

Config(v, r, n, d) == [valid |-> v, reconnect |-> r, attempts |-> n, delay |-> d]

\* Reconnects after a delay until the second attempt has failed; never
\* reconnects; has a URL that init_websocket refuses.
TwoAttempts == Config(TRUE, TRUE, 2, TRUE)
Once        == Config(TRUE, FALSE, 0, FALSE)
BadUrl      == Config(FALSE, TRUE, 0, FALSE)

AllConfigs == {TwoAttempts, Once, BadUrl}
=============================================================================
