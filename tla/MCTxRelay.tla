----------------------------- MODULE MCTxRelay -----------------------------
(***************************************************************************)
(* A model-checking instance of TxRelay.  Transactions 1 and 2 and the    *)
(* service transaction 3; p1 holds 1 and 2 and never answers a GETDATA;   *)
(* p2 holds 1 and 3, answers, and is whitelisted.  Only p1 asked for tx   *)
(* relay.  Transaction 1 is accepted, 2 fails policy.                     *)
(***************************************************************************)
EXTENDS TxRelay, TLC

CONSTANTS p1, p2

MCPeers == {p1, p2}
\* Stored bytes data[0], data[1].  By memcmp, 2 < 3 < 1; by the number
\* GetHex prints (data[1] first), 1 < 2 < 3.
MCHash == (1 :> <<2, 0>>) @@ (2 :> <<0, 1>>) @@ (3 :> <<1, 2>>)
MCPeerHas == (p1 :> {1, 2}) @@ (p2 :> {1, 3})
=============================================================================
