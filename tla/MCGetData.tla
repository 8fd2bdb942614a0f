---------------------------- MODULE MCGetData ----------------------------
(***************************************************************************)
(* Model-checking instances of GetData.  Blocks and transactions are model *)
(* values; an inv is a record [type, h].                                   *)
(***************************************************************************)
EXTENDS GetData

CONSTANTS b1, b2, t1, t2, s1, none

Inv(type, h) == [type |-> type, h |-> h]

\* b1 is servable, stored and historical; b2 is not servable.  t1 is in
\* mapRelay, t2 is not; s1 is not in the service-tx pool.
MCInvs == {Inv("block", b1), Inv("block", b2), Inv("filtered", b1),
           Inv("tx", t1), Inv("tx", t2), Inv("stx", s1)}

\* Every GETDATA of one or two invs, one of three blocks (two of them are
\* still queued after the first pass), and one of each other message.
MCGetDatas == {[cmd |-> "getdata", invs |-> s] : s \in SeqOf(MCInvs, 2) \ {<<>>}}
              \cup {[cmd |-> "getdata",
                     invs |-> <<Inv("block", b1), Inv("block", b2), Inv("filtered", b1)>>]}
MCOthers == {[cmd |-> c, invs |-> <<Inv(c, none)>>] :
                c \in {"ping", "badstart", "badhdr", "malformed", "oversize"}}
             \cup {[cmd |-> "getblocks", invs |-> <<Inv("getblocks", b1)>>]}
MCPeerMsgs == MCGetDatas \cup MCOthers

=============================================================================
