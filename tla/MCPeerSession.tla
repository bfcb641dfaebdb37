---------------------------- MODULE MCPeerSession ----------------------------
(* Model-checking instances of PeerSession.                                *)
EXTENDS PeerSession, TLC

Symmetry ==
    Permutations(Clients) \cup Permutations(Responses) \cup
        Permutations(Sockets)

=============================================================================
