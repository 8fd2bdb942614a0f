-------------------------- MODULE MCBlockDownload --------------------------
(***************************************************************************)
(* Model-checking instance of BlockDownload: two peers, a chain of two    *)
(* blocks, a window of one and two blocks in transit per peer, so that    *)
(* one peer can fill the window and block the other (a stall), and a     *)
(* clock long enough for both timeouts to fire.                            *)
(***************************************************************************)
EXTENDS BlockDownload

CONSTANTS p1, p2

MCPeers == {p1, p2}

\* A single peer, for the liveness runs.
MCOnePeer == {p1}

\* Outbound peers only: every peer that completes the handshake is a
\* preferred download peer.
MCPeerKinds ==
    {[fInbound |-> FALSE, fWhitelisted |-> FALSE, fOneShot |-> FALSE]}

\* Outbound peers and inbound ones (not preferred for download).
MCMixedPeerKinds ==
    {[fInbound |-> FALSE, fWhitelisted |-> FALSE, fOneShot |-> FALSE],
     [fInbound |-> TRUE,  fWhitelisted |-> FALSE, fOneShot |-> FALSE]}

Symmetry == Permutations(MCPeers)
=============================================================================
