------------------------------ MODULE MCWsLink ------------------------------
(* Two streams, two restarts an hour. *)
EXTENDS WsLink

CONSTANTS ticker, depth   \* model values

MCStreams == {ticker, depth}
MCPeerCloses == {"lost", "finished"}
MCPeerBreaks == {"lost"}

=============================================================================
