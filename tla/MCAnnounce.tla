---------------------------- MODULE MCAnnounce ----------------------------
(***************************************************************************)
(* Model-checking instance of Announce: a genesis block with two branches, *)
(* a1 and b1-b2-b3, so that the tip can extend, reorganise by two blocks  *)
(* (a1 to b2), and reorganise by three (a1 to b3: more than               *)
(* MAX_BLOCKS_TO_ANNOUNCE = 2 hashes from the fork).  Peer p1 already    *)
(* has b1, which the node does not, so its announcement of b1 is parked   *)
(* until the header arrives.  GETHEADERS replies are cut at two headers.  *)
(***************************************************************************)
EXTENDS Announce

CONSTANTS g, a1, b1, b2, b3, p1

MCBlocks == {g, a1, b1, b2, b3}

MCParent == (g :> NoBlock) @@ (a1 :> g)
                @@ (b1 :> g) @@ (b2 :> b1) @@ (b3 :> b2)

\* One peer, which connects with b1 and no starting height, and is not
\* whitelisted (so its GETHEADERS is ignored in initial download).
MCPeers == {p1}
MCPeerChain == p1 :> b1
MCStartingHeight == p1 :> -1
====
