---------------------------- MODULE MCTcpSession ----------------------------
(* Small instances of TcpSession: what the peer sends. *)
EXTENDS TcpSession

CONSTANTS b1, b2, b3, b4

FourBuffers == {b1, b2, b3, b4}

\* An empty body, a body longer than a buffer, and an empty one again.
EmptyLongEmpty == <<0, 3, 0>>
OneEach        == <<1, 0>>

=============================================================================
