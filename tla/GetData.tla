------------------------------ MODULE GetData ------------------------------
(***************************************************************************)
(* Serving one peer's GETDATA requests (messages.cpp): the message handler *)
(* ProcessMessages, the GETDATA, PING and GETBLOCKS handlers, the serving  *)
(* loop ProcessGetData over the pending queue vRecvGetData, and the send   *)
(* buffer whose fPauseSend flag stops it.                                  *)
(*                                                                         *)
(* Every item the peer sends (an inv of a GETDATA, or a whole other       *)
(* message) gets the next index in reqs; the responses pushed to the send *)
(* buffer are recorded in sent, each with the indices it answers.  The    *)
(* socket thread that drains the buffer is SocketSend.                    *)
(***************************************************************************)
EXTENDS Integers, Sequences, SequencesExt

CONSTANTS
    PeerMsgs,       \* messages the peer may send: [cmd, invs: Seq(Inv)]
    Servable,       \* blocks on the active chain, or valid and < a month old
    HaveData,       \* blocks with BLOCK_HAVE_DATA (not pruned)
    Historical,     \* blocks more than a week older than the best header
    Matched,        \* blocks with transactions the peer's bloom filter matches
    InRelay,        \* transactions in mapRelay
    InStxPool,      \* service transactions in the service-tx pool
    FilterLoaded,   \* the peer has a bloom filter (pfilter)
    Whitelisted,    \* pfrom->fWhitelisted
    BanScore,       \* -banscore
    DropTest,       \* -dropmessagestest is set
    SendBufferMax,  \* nSendBufferMaxSize, in messages
    MaxReqs,        \* bound on the items the peer sends
    NoBlock         \* a null hashContinue

VARIABLES
    vProcessMsg,    \* the peer's received, unprocessed messages: [cmd, ids]
    vRecvGetData,   \* indices of the GETDATA items not yet served
    reqs,           \* every item received, by index
    sent,           \* every message pushed, in order: [cmd, ids]
    nSendSize,      \* pushed messages the socket has not sent yet
    fPauseSend,
    hashContinue,
    nMisbehavior,
    fDisconnect

vars == <<vProcessMsg, vRecvGetData, reqs, sent, nSendSize, fPauseSend,
          hashContinue, nMisbehavior, fDisconnect>>

BlockTypes == {"block", "filtered"}

\* The serving state threaded through a handler: the messages pushed and
\* the buffer they fill, the NOTFOUND list and the flags the loop sets.
Start == [out |-> <<>>, size |-> nSendSize, pause |-> fPauseSend,
          nf |-> {}, disc |-> fDisconnect, cont |-> hashContinue,
          score |-> nMisbehavior, q |-> vRecvGetData]

\* CConnman::PushMessage: append, and pause once the buffer is over size.
Push(st, cmd, ids) ==
    [st EXCEPT !.out = Append(@, [cmd |-> cmd, ids |-> ids]),
               !.size = @ + 1,
               !.pause = @ \/ st.size + 1 > SendBufferMax]

(***************************************************************************)
(* One block or filtered-block item k: the anti-fingerprinting check, the *)
(* historical-serving limit (olim: OutboundTargetReached) that disconnects *)
(* a non-whitelisted peer, then BLOCK, or MERKLEBLOCK plus the matched    *)
(* transactions, and the INV of the tip if the block is hashContinue.     *)
(***************************************************************************)
ServeBlock(st, k, inv, olim) ==
    LET cut  == /\ inv.h \in Servable /\ olim /\ ~Whitelisted
                /\ (inv.h \in Historical \/ inv.type = "filtered")
        send == inv.h \in Servable /\ ~cut
        st1  == [st EXCEPT !.disc = @ \/ cut]
        st2  == IF inv.type = "block" THEN Push(st1, "block", {k})
                ELSE IF ~FilterLoaded THEN st1
                ELSE IF inv.h \in Matched
                THEN Push(Push(st1, "merkleblock", {k}), "tx", {k})
                ELSE Push(st1, "merkleblock", {k})
    IN IF ~(send /\ inv.h \in HaveData) THEN st1
       ELSE IF inv.h = st.cont
       THEN [Push(st2, "inv", {}) EXCEPT !.cont = NoBlock]
       ELSE st2

\* A TX or STX item: served from mapRelay or the service-tx pool, or noted
\* for the NOTFOUND.
ServeTx(st, k, inv) ==
    IF inv.h \in (IF inv.type = "tx" THEN InRelay ELSE InStxPool)
    THEN Push(st, inv.type, {k})
    ELSE [st EXCEPT !.nf = @ \cup {k}]

(***************************************************************************)
(* ProcessGetData: walk the queue from its front, stopping before an item *)
(* when the send buffer is paused and after the first block item; erase   *)
(* what was walked, then push one NOTFOUND for the misses.                *)
(***************************************************************************)
\* The loop ends at the end of the queue, or before an item when the send
\* buffer is too full to respond anyway.
Stop(st, i) == i > Len(st.q) \/ st.pause

RECURSIVE ServeLoop(_, _, _)
ServeLoop(st, i, olim) ==
    IF Stop(st, i) THEN [st EXCEPT !.q = SubSeq(@, i, Len(@))]
    ELSE LET k == st.q[i]
             inv == reqs[k]
         IN IF inv.type \in BlockTypes
            THEN [ServeBlock(st, k, inv, olim) EXCEPT !.q = SubSeq(@, i + 1, Len(@))]
            ELSE ServeLoop(ServeTx(st, k, inv), i + 1, olim)

ProcessGetData(st, olim) ==
    LET st1 == ServeLoop([st EXCEPT !.nf = {}], 1, olim)
    IN IF st1.nf = {} THEN st1 ELSE Push(st1, "notfound", st1.nf)

\* Seeded fault: the oversize score is subtracted.
GetDataMsg_ScoreSign(st, m, olim) ==
    IF m.cmd = "oversize" THEN [st EXCEPT !.score = @ - 20]
    ELSE ProcessGetData([st EXCEPT !.q = @ \o m.ids], olim)

\* GETDATA: more than MAX_INV_SZ invs scores 20; otherwise append them to
\* vRecvGetData and serve it.
GetDataMsg(st, m, olim) ==
    IF m.cmd = "oversize" THEN [st EXCEPT !.score = @ + 20]
    ELSE ProcessGetData([st EXCEPT !.q = @ \o m.ids], olim)

\* GETBLOCKS: hashContinue is set when the walk stops at its 500-block
\* limit (hit); its block invs go to the inventory queue, which
\* SendMessages sends, and are not modelled.
GetBlocksMsg(st, m, hit) ==
    [st EXCEPT !.cont = IF hit THEN reqs[m.ids[1]].h ELSE @]

\* ProcessMessage on the commands modelled; PING is echoed as PONG.
ProcessMessage(st, m, olim, hit) ==
    CASE m.cmd \in {"getdata", "oversize"} -> GetDataMsg(st, m, olim)
      [] m.cmd = "getblocks" -> GetBlocksMsg(st, m, hit)
      [] m.cmd = "ping"      -> Push(st, "pong", ToSet(m.ids))

\* The envelope checks of ProcessMessages around ProcessMessage: a wrong
\* message start disconnects, a bad header or checksum drops the message,
\* and a parse failure pushes REJECT(malformed).
Receive(st, m, olim, hit) ==
    CASE m.cmd = "badstart"  -> [st EXCEPT !.disc = TRUE]
      [] m.cmd = "badhdr"    -> st
      [] m.cmd = "malformed" -> Push(st, "reject", ToSet(m.ids))
      [] OTHER               -> ProcessMessage(st, m, olim, hit)

\* SendRejectsAndCheckIfBanned: a score that crossed -banscore in this
\* message disconnects (and bans) a peer that is not whitelisted.
CheckIfBanned(st) ==
    [st EXCEPT !.disc = @ \/ (~Whitelisted /\ nMisbehavior < BanScore
                                            /\ st.score >= BanScore)]

SetState(st) ==
    /\ vRecvGetData' = st.q
    /\ sent' = sent \o st.out
    /\ nSendSize' = st.size
    /\ fPauseSend' = st.pause
    /\ hashContinue' = st.cont
    /\ nMisbehavior' = st.score
    /\ fDisconnect' = st.disc
-----------------------------------------------------------------------------
Init ==
    /\ vProcessMsg = <<>>
    /\ vRecvGetData = <<>>
    /\ reqs = <<>>
    /\ sent = <<>>
    /\ nSendSize = 0
    /\ fPauseSend = FALSE
    /\ hashContinue = NoBlock
    /\ nMisbehavior = 0
    /\ fDisconnect = FALSE

\* The peer sends message m; each of its invs (or the message itself) is
\* the next item.
PeerSend(m) ==
    /\ ~fDisconnect
    /\ Len(reqs) + Len(m.invs) <= MaxReqs
    /\ vProcessMsg' = Append(vProcessMsg,
                        [cmd |-> m.cmd, ids |-> [i \in 1..Len(m.invs) |-> Len(reqs) + i]])
    /\ reqs' = reqs \o m.invs
    /\ UNCHANGED <<vRecvGetData, sent, nSendSize, fPauseSend, hashContinue,
                   nMisbehavior, fDisconnect>>

\* Seeded faults: a new message is taken while the queue is non-empty; the
\* pending queue is not served before the next message.
ProcessMessages_NoOrderGuard ==
    /\ ~fDisconnect
    /\ \E olim, hit, drop \in BOOLEAN :
       LET st0 == IF vRecvGetData # <<>> THEN ProcessGetData(Start, olim) ELSE Start
       IN IF st0.disc \/ st0.pause \/ vProcessMsg = <<>>
          THEN /\ SetState(st0)
               /\ UNCHANGED <<vProcessMsg, reqs>>
          ELSE /\ drop => DropTest
               /\ vProcessMsg' = Tail(vProcessMsg)
               /\ SetState(CheckIfBanned(IF drop THEN st0
                                         ELSE Receive(st0, Head(vProcessMsg), olim, hit)))
               /\ UNCHANGED reqs

ProcessMessages_NoResume ==
    /\ ~fDisconnect
    /\ \E olim, hit, drop \in BOOLEAN :
       LET st0 == Start
       IN IF st0.disc \/ st0.q # <<>> \/ st0.pause \/ vProcessMsg = <<>>
          THEN /\ SetState(st0)
               /\ UNCHANGED <<vProcessMsg, reqs>>
          ELSE /\ drop => DropTest
               /\ vProcessMsg' = Tail(vProcessMsg)
               /\ SetState(CheckIfBanned(IF drop THEN st0
                                         ELSE Receive(st0, Head(vProcessMsg), olim, hit)))
               /\ UNCHANGED reqs

(***************************************************************************)
(* One call of ProcessMessages by the message handler thread, which skips *)
(* a peer marked fDisconnect: serve the pending queue first; return while *)
(* it is non-empty ("this maintains the order of responses") or the send  *)
(* buffer is paused; else take one message, run ProcessMessage (dropped   *)
(* under -dropmessagestest) and SendRejectsAndCheckIfBanned.              *)
(***************************************************************************)
ProcessMessages ==
    /\ ~fDisconnect
    /\ \E olim, hit, drop \in BOOLEAN :
       LET st0 == IF vRecvGetData # <<>> THEN ProcessGetData(Start, olim) ELSE Start
       IN IF st0.disc \/ st0.q # <<>> \/ st0.pause \/ vProcessMsg = <<>>
          THEN /\ SetState(st0)
               /\ UNCHANGED <<vProcessMsg, reqs>>
          ELSE /\ drop => DropTest
               /\ vProcessMsg' = Tail(vProcessMsg)
               /\ SetState(CheckIfBanned(IF drop THEN st0
                                         ELSE Receive(st0, Head(vProcessMsg), olim, hit)))
               /\ UNCHANGED reqs

\* The socket thread sends one message; the pause clears once the buffer
\* is below its maximum.
SocketSend ==
    /\ nSendSize > 0
    /\ nSendSize' = nSendSize - 1
    /\ fPauseSend' = (fPauseSend /\ nSendSize - 1 >= SendBufferMax)
    /\ UNCHANGED <<vProcessMsg, vRecvGetData, reqs, sent, hashContinue,
                   nMisbehavior, fDisconnect>>

\* The connection manager closes a socket marked fDisconnect; nothing of
\* the peer runs after it.
Closed ==
    /\ fDisconnect
    /\ UNCHANGED vars

Next ==
    \/ \E m \in PeerMsgs : PeerSend(m)
    \/ ProcessMessages
    \/ SocketSend
    \/ Closed

Spec == Init /\ [][Next]_vars
-----------------------------------------------------------------------------
TypeOK ==
    /\ vProcessMsg \in Seq([cmd : {m.cmd : m \in PeerMsgs}, ids : Seq(1..MaxReqs)])
    /\ vRecvGetData \in Seq(1..MaxReqs) /\ Len(reqs) <= MaxReqs
    /\ nSendSize \in Nat /\ fPauseSend \in BOOLEAN /\ fDisconnect \in BOOLEAN
    /\ nMisbehavior \in Nat

\* A request item still waiting: in an unprocessed message or in the queue.
Pending(k) ==
    \/ k \in ToSet(vRecvGetData)
    \/ \E i \in 1..Len(vProcessMsg) : k \in ToSet(vProcessMsg[i].ids)

\* Responses r1 before r2 answer items in request order.
InOrder(r1, r2) == \A a \in r1.ids, b \in r2.ids : a <= b

\* Spec section 5, ordering: GETDATA responses preserve the order the peer
\* requested.  Every BLOCK, MERKLEBLOCK, TX, STX, PONG and REJECT answers
\* items in the order they arrived, across messages: ProcessGetData serves
\* one block per pass and stops when the send buffer is paused, and
\* ProcessMessages takes no new message while vRecvGetData is non-empty.
ServedInRequestOrder ==
    \A i, j \in 1..Len(sent) :
        (i < j /\ sent[i].cmd # "notfound" /\ sent[j].cmd # "notfound")
            => InOrder(sent[i], sent[j])

\* The message handler calls ProcessMessages for every connected peer in
\* a loop, and the socket thread sends whenever the buffer is non-empty
\* (a peer that stops reading is the transport's timeout, not this code).
Fairness == WF_vars(ProcessMessages) /\ WF_vars(SocketSend)

FairSpec == Spec /\ Fairness

\* Every item the peer sends is eventually processed (served, reported
\* not found, refused or dropped), unless the peer is disconnected: the
\* rest of a queue left by a block or a full send buffer is served by a
\* later ProcessMessages call.
RequestEventuallyHandled ==
    \A k \in 1..MaxReqs :
        (k <= Len(reqs)) ~> (fDisconnect \/ ~Pending(k))
====
