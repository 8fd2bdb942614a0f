--------------------------- MODULE MCMisbehaviour ---------------------------
(* Two peers and two blocks, one of them invalid, for TLC. *)
EXTENDS Misbehaviour

CONSTANTS p1, p2, b1, b2

MCPeers == {p1, p2}
MCBlocks == {b1, b2}
=============================================================================
