--------------------------- MODULE MCPeerDirectory ---------------------------
(* Model-checking instance of PeerDirectory.                               *)
EXTENDS PeerDirectory

=============================================================================
