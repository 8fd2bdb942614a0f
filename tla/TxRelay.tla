------------------------------ MODULE TxRelay ------------------------------
(***************************************************************************)
(* Transaction and service-transaction relay of                           *)
(* src/services/chain/messages.cpp: RelayTransaction and                  *)
(* RelayServiceTransaction, the INV handler for transactions, the TX and  *)
(* STX handlers, and the parts of SendMessages that trickle inventory and *)
(* drain the ask-for queue.                                               *)
(*                                                                         *)
(* CNode's PushInventory, AddInventoryKnown and AskFor are in net.h and   *)
(* net.cpp, which this repository does not contain; they are modelled    *)
(* from the spec (section 4.2: relay is deduplicated by each peer's       *)
(* known-inventory filter; 4.5: an ask-for is scheduled with a per-item   *)
(* cool-down).  The known-inventory filters are exact sets.               *)
(*                                                                         *)
(* Items are named by integers, and Hash gives each its uint256 (Uint256 *)
(* blob): std::set<uint256> iterates in the memcmp order of the blobs.    *)
(* Time is kept relative to now: an ask-for entry holds the ticks *)
(* until it is due, and mapAlreadyAskedFor the ticks since (negative) or  *)
(* until an item's last request time, clamped at -RETRY: an older time,   *)
(* or none, gives the same next request time, now.  Each handler runs     *)
(* under cs_main on the message-handler thread and is one atomic step.    *)
(***************************************************************************)
EXTENDS Integers, Sequences, FiniteSets, FiniteSetsExt, Uint256

CONSTANTS
    Peers,
    Txs,            \* transactions
    Stxs,           \* service transactions, disjoint from Txs
    Hash,           \* [Items -> Blobs]: the hash of each item
    PeerHas,        \* [Peers -> SUBSET Items]: what each peer holds
    Serving,        \* peers that answer a GETDATA for what they hold
    Whitelisted,    \* CNode::fWhitelisted
    PeerRelay,      \* peers whose VERSION asked for tx relay (fRelayTxes)
    WhitelistRelay,       \* -whitelistrelay
    WhitelistForceRelay,  \* -whitelistforcerelay
    AcceptedTxs,    \* AcceptToMemoryPool accepts these; the others fail, DoS 0
    PaidStxs,       \* GetTransaction finds the payment transaction
    ValidStxs,      \* CheckServiceTransaction passes
    INVENTORY_BROADCAST_MAX,
    SETASKFOR_MAX_SZ,     \* also MAPASKFOR_MAX_SZ
    RETRY,          \* the gap between two requests of one item, in ticks
    MaxSends        \* bound: INVs and unasked items a peer sends

Items == Txs \cup Stxs
NoTime == -RETRY

ASSUME Txs \cap Stxs = {} /\ Items \subseteq Int
ASSUME Hash \in [Items -> Blobs] /\ \A i, j \in Items : i # j => Hash[i] # Hash[j]
ASSUME AcceptedTxs \subseteq Txs /\ ValidStxs \cup PaidStxs \subseteq Stxs

VARIABLES
    mempool,
    recentRejects,
    stxPool,                \* g_stxmempool
    ibd,                    \* IsInitialBlockDownload()
    fRelayTxes,             \* our own flag, set at startup: FALSE under -blocksonly
    setInventoryTxToSend,
    setInventoryStxToSend,
    filterInventoryKnown,
    filterServiceDataKnown,
    setAskFor,
    mapAskFor,              \* peer -> set of [inv, wait]: due when wait = 0
    mapAlreadyAskedFor,     \* item -> last request time, NoTime if none
    inbox,                  \* peer -> messages from the peer, in order
    asked,                  \* peer -> items of our GETDATAs it has not answered
    sends,                  \* peer -> INVs and unasked items it has sent (bound)
    invSent                 \* history: peer -> item -> INVs of it sent (0..2)

vars == <<mempool, recentRejects, stxPool, ibd, fRelayTxes, setInventoryTxToSend,
          setInventoryStxToSend, filterInventoryKnown, filterServiceDataKnown,
          setAskFor, mapAskFor, mapAlreadyAskedFor, inbox, asked, sends, invSent>>
askVars == <<setAskFor, mapAskFor, mapAlreadyAskedFor>>
peerVars == <<inbox, asked, sends>>

Msg(cmd, h) == [cmd |-> cmd, h |-> h]

\* AlreadyHave: a transaction in recentRejects or the mempool (no block is
\* connected here, so the rejects filter is never reset, and there are no
\* orphans or cached coins); a service transaction in the service pool.
AlreadyHave(i) ==
    IF i \in Txs THEN i \in recentRejects \/ i \in mempool ELSE i \in stxPool

\* RelayTransaction / RelayServiceTransaction: ForEachNode PushInventory,
\* which queues the item for every peer whose known filter lacks it.
Relay(toSend, known, i) ==
    [q \in Peers |-> IF i \in known[q] THEN toSend[q] ELSE toSend[q] \cup {i}]

(***************************************************************************)
(* CNode::AskFor (net.cpp): refused when either ask-for container is over *)
(* its limit or the item is already asked of this peer; the request time  *)
(* is RETRY after the item's last request time, or now if that is later,  *)
(* and becomes the item's last request time.                              *)
(***************************************************************************)
AskForFull_Never(p) == FALSE

AskForFull(p) ==
    \/ Cardinality(mapAskFor[p]) > SETASKFOR_MAX_SZ
    \/ Cardinality(setAskFor[p]) > SETASKFOR_MAX_SZ

AskFor(p, i) ==
    IF AskForFull(p) \/ i \in setAskFor[p]
    THEN UNCHANGED askVars
    ELSE LET wait == mapAlreadyAskedFor[i] + RETRY
         IN /\ setAskFor' = [setAskFor EXCEPT ![p] = @ \cup {i}]
            /\ mapAskFor' = [mapAskFor EXCEPT ![p] = @ \cup {[inv |-> i, wait |-> wait]}]
            /\ mapAlreadyAskedFor' = [mapAlreadyAskedFor EXCEPT ![i] = wait]

Init ==
    /\ mempool = {} /\ recentRejects = {} /\ stxPool = {}
    /\ ibd \in BOOLEAN
    /\ fRelayTxes \in BOOLEAN
    /\ setInventoryTxToSend = [p \in Peers |-> {}]
    /\ setInventoryStxToSend = [p \in Peers |-> {}]
    /\ filterInventoryKnown = [p \in Peers |-> {}]
    /\ filterServiceDataKnown = [p \in Peers |-> {}]
    /\ setAskFor = [p \in Peers |-> {}]
    /\ mapAskFor = [p \in Peers |-> {}]
    /\ mapAlreadyAskedFor = [i \in Items |-> NoTime]
    /\ inbox = [p \in Peers |-> <<>>]
    /\ asked = [p \in Peers |-> {}]
    /\ sends = [p \in Peers |-> 0]
    /\ invSent = [p \in Peers |-> [i \in Items |-> 0]]
-----------------------------------------------------------------------------
(***************************************************************************)
(* The peers.  A peer announces what it holds, or sends it unasked (the   *)
(* TX and STX handlers do not check that it was asked for), within a      *)
(* bound, and answers our GETDATA with the TX or STX if it serves and     *)
(* holds it; otherwise with nothing or a NOTFOUND, which this code does   *)
(* not handle.                                                            *)
(***************************************************************************)
PeerInv(p, i) ==
    /\ i \in PeerHas[p]
    /\ sends[p] < MaxSends
    /\ inbox' = [inbox EXCEPT ![p] = Append(@, Msg("inv", i))]
    /\ sends' = [sends EXCEPT ![p] = @ + 1]
    /\ UNCHANGED <<mempool, recentRejects, stxPool, ibd, fRelayTxes, setInventoryTxToSend,
                   setInventoryStxToSend, filterInventoryKnown,
                   filterServiceDataKnown, askVars, asked, invSent>>

ItemMsg(i) == Msg(IF i \in Txs THEN "tx" ELSE "stx", i)

PeerPush(p, i) ==
    /\ i \in PeerHas[p]
    /\ sends[p] < MaxSends
    /\ inbox' = [inbox EXCEPT ![p] = Append(@, ItemMsg(i))]
    /\ sends' = [sends EXCEPT ![p] = @ + 1]
    /\ UNCHANGED <<mempool, recentRejects, stxPool, ibd, fRelayTxes, setInventoryTxToSend,
                   setInventoryStxToSend, filterInventoryKnown,
                   filterServiceDataKnown, askVars, asked, invSent>>

PeerAnswer(p, i) ==
    /\ i \in asked[p]
    /\ asked' = [asked EXCEPT ![p] = @ \ {i}]
    /\ inbox' = IF p \in Serving /\ i \in PeerHas[p]
                THEN [inbox EXCEPT ![p] = Append(@, ItemMsg(i))]
                ELSE inbox
    /\ UNCHANGED <<mempool, recentRejects, stxPool, ibd, fRelayTxes, setInventoryTxToSend,
                   setInventoryStxToSend, filterInventoryKnown,
                   filterServiceDataKnown, askVars, sends, invSent>>

(***************************************************************************)
(* ProcessGetData, the STX branch, for a service transaction we announced *)
(* to a peer that lacks it: served from the service pool, and then marked *)
(* known to the peer in filterServiceDataKnown; a miss goes to NOTFOUND.  *)
(***************************************************************************)
GetDataStx(p, s) ==
    /\ invSent[p][s] > 0
    /\ s \notin PeerHas[p] \cup filterServiceDataKnown[p]
    /\ s \in stxPool
    /\ filterServiceDataKnown' = [filterServiceDataKnown EXCEPT ![p] = @ \cup {s}]
    /\ UNCHANGED <<mempool, recentRejects, stxPool, ibd, fRelayTxes, setInventoryTxToSend,
                   setInventoryStxToSend, filterInventoryKnown, askVars,
                   peerVars, invSent>>
-----------------------------------------------------------------------------
(***************************************************************************)
(* INV of a transaction or service transaction from p: recorded as known  *)
(* to p; in blocks-only mode (our fRelayTxes off, and p not whitelisted   *)
(* under -whitelistrelay) only logged; otherwise asked for, unless we     *)
(* already have it or are in initial block download.                      *)
(***************************************************************************)
InvMsg(p) ==
    /\ inbox[p] # <<>> /\ Head(inbox[p]).cmd = "inv"
    /\ LET i == Head(inbox[p]).h
           fBlocksOnly == ~fRelayTxes /\ ~(p \in Whitelisted /\ WhitelistRelay)
       IN /\ filterInventoryKnown' = [filterInventoryKnown EXCEPT ![p] = @ \cup {i}]
          /\ IF ~fBlocksOnly /\ ~AlreadyHave(i) /\ ~ibd
             THEN AskFor(p, i)
             ELSE UNCHANGED askVars
    /\ inbox' = [inbox EXCEPT ![p] = Tail(@)]
    /\ UNCHANGED <<mempool, recentRejects, stxPool, ibd, fRelayTxes, setInventoryTxToSend,
                   setInventoryStxToSend, filterServiceDataKnown, asked, sends,
                   invSent>>

(***************************************************************************)
(* TX t from p.  In blocks-only mode from a peer not allowed to relay, it *)
(* is dropped.  Otherwise: t is known to p, no longer asked of p or of    *)
(* anyone (mapAlreadyAskedFor), and then                                  *)
(*  - if we lack it and AcceptToMemoryPool takes it: mempool, relay;      *)
(*  - else (already have, or a policy failure with DoS 0): recentRejects, *)
(*    and relayed anyway from a whitelisted peer under                    *)
(*    -whitelistforcerelay.                                               *)
(* No transaction here misses inputs: that branch is OrphanPool's.        *)
(***************************************************************************)
\* The TX handler's setAskFor.erase: no longer expected from p.
NoLongerAsked_Keep(sa, p, t) == sa

NoLongerAsked(sa, p, t) == [sa EXCEPT ![p] = @ \ {t}]

TxMsg(p) ==
    /\ inbox[p] # <<>> /\ Head(inbox[p]).cmd = "tx"
    /\ inbox' = [inbox EXCEPT ![p] = Tail(@)]
    /\ LET t == Head(inbox[p]).h
           known == [filterInventoryKnown EXCEPT ![p] = @ \cup {t}]
           accept == ~AlreadyHave(t) /\ t \in AcceptedTxs
           force == p \in Whitelisted /\ WhitelistForceRelay
       IN IF ~fRelayTxes /\ (p \notin Whitelisted \/ ~WhitelistRelay)
          THEN UNCHANGED <<mempool, recentRejects, setInventoryTxToSend,
                           filterInventoryKnown, askVars>>
          ELSE /\ filterInventoryKnown' = known
               /\ setAskFor' = NoLongerAsked(setAskFor, p, t)
               /\ mapAlreadyAskedFor' = [mapAlreadyAskedFor EXCEPT ![t] = NoTime]
               /\ mempool' = IF accept THEN mempool \cup {t} ELSE mempool
               /\ recentRejects' = IF accept THEN recentRejects ELSE recentRejects \cup {t}
               /\ setInventoryTxToSend' = IF accept \/ force
                                          THEN Relay(setInventoryTxToSend, known, t)
                                          ELSE setInventoryTxToSend
               /\ UNCHANGED mapAskFor
    /\ UNCHANGED <<stxPool, ibd, fRelayTxes, setInventoryStxToSend, filterServiceDataKnown,
                   asked, sends, invSent>>

(***************************************************************************)
(* STX s from p: added to the service pool; relayed if its payment        *)
(* transaction is found and it checks out; otherwise kept pending (a map  *)
(* nothing here reads) or ignored.  Unlike TX, the handler neither marks  *)
(* s known to p nor clears it from p's ask-for set.                       *)
(***************************************************************************)
StxMsg(p) ==
    /\ inbox[p] # <<>> /\ Head(inbox[p]).cmd = "stx"
    /\ inbox' = [inbox EXCEPT ![p] = Tail(@)]
    /\ LET s == Head(inbox[p]).h
       IN /\ stxPool' = stxPool \cup {s}
          /\ setInventoryStxToSend' =
                IF s \in PaidStxs /\ s \in ValidStxs
                THEN Relay(setInventoryStxToSend, filterInventoryKnown, s)
                ELSE setInventoryStxToSend
    /\ UNCHANGED <<mempool, recentRejects, ibd, fRelayTxes, setInventoryTxToSend,
                   filterInventoryKnown, filterServiceDataKnown, askVars, asked,
                   sends, invSent>>
-----------------------------------------------------------------------------
(***************************************************************************)
(* The trickle loops of SendMessages, on a record [left, sent]: take the  *)
(* last hash left, erase it, skip it if the peer knows it (or, for a   *)
(* transaction, the mempool no longer has it), else send it; stop after   *)
(* INVENTORY_BROADCAST_MAX sent.                                          *)
(***************************************************************************)
\* The last hash of a std::set<uint256>: vInvTx.back().
LastByHash(S) == CHOOSE x \in S : \A y \in S \ {x} : Less(Hash[y], Hash[x])

RECURSIVE TxTrickle(_, _, _)
TxTrickle(p, w, n) ==
    IF w.left = {} \/ n >= INVENTORY_BROADCAST_MAX THEN w
    ELSE LET h == LastByHash(w.left)
             w1 == [w EXCEPT !.left = @ \ {h}]
         IN IF h \in filterInventoryKnown[p] \/ h \notin mempool
            THEN TxTrickle(p, w1, n)
            ELSE TxTrickle(p, [w1 EXCEPT !.sent = @ \cup {h}], n + 1)

RECURSIVE StxTrickle(_, _, _)
StxTrickle(p, w, n) ==
    IF w.left = {} \/ n >= INVENTORY_BROADCAST_MAX THEN w
    ELSE LET h == LastByHash(w.left)
             w1 == [w EXCEPT !.left = @ \ {h}]
         IN IF h \in filterServiceDataKnown[p]
            THEN StxTrickle(p, w1, n)
            ELSE StxTrickle(p, [w1 EXCEPT !.sent = @ \cup {h}], n + 1)

\* One more INV of each item of sent (the history saturates at 2).
CountInvs(c, sent) == [i \in Items |-> IF i \in sent THEN Min({c[i] + 1, 2}) ELSE c[i]]

\* The trickle's filterInventoryKnown.insert of each transaction sent.
MarkSent_None(known, sent) == known

MarkSent(known, sent) == known \cup sent

\* The ask-for drain erases the due entries, and keeps those not yet due.
Undue_None(entries) == {}

Undue(entries) == {e \in entries : e.wait > 0}

(***************************************************************************)
(* SendMessages(p), the inventory and ask-for parts.  The trickle is due  *)
(* for a whitelisted peer, or when the Poisson timer nNextInvSend has     *)
(* passed (fire); a due trickle to a peer that asked for no tx relay      *)
(* clears its transaction set first.  The transactions sent become known  *)
(* to the peer; the service transactions do not, and are trickled on     *)
(* every call.  Then every due ask-for entry is erased: requested by      *)
(* GETDATA if we still lack the item and have not served it to the peer,  *)
(* dropped from setAskFor if we have it.                                  *)
(***************************************************************************)
SendMessages(p) ==
    \E fire \in BOOLEAN :
       LET trickle == p \in Whitelisted \/ fire
           txSet == IF trickle /\ p \notin PeerRelay THEN {} ELSE setInventoryTxToSend[p]
           tw == IF trickle THEN TxTrickle(p, [left |-> txSet, sent |-> {}], 0)
                 ELSE [left |-> txSet, sent |-> {}]
           sw == StxTrickle(p, [left |-> setInventoryStxToSend[p], sent |-> {}], 0)
           due == {e.inv : e \in {e \in mapAskFor[p] : e.wait = 0}}
           have == {i \in due : AlreadyHave(i)}
       IN /\ setInventoryTxToSend' = [setInventoryTxToSend EXCEPT ![p] = tw.left]
          /\ setInventoryStxToSend' = [setInventoryStxToSend EXCEPT ![p] = sw.left]
          /\ filterInventoryKnown' = [filterInventoryKnown EXCEPT ![p] = MarkSent(@, tw.sent)]
          /\ invSent' = [invSent EXCEPT ![p] = CountInvs(@, tw.sent \cup sw.sent)]
          /\ mapAskFor' = [mapAskFor EXCEPT ![p] = Undue(@)]
          /\ setAskFor' = [setAskFor EXCEPT ![p] = @ \ have]
          /\ asked' = [asked EXCEPT ![p] = @ \cup ((due \ have) \ filterServiceDataKnown[p])]
          /\ UNCHANGED <<mempool, recentRejects, stxPool, ibd, fRelayTxes, filterServiceDataKnown,
                         mapAlreadyAskedFor, inbox, sends>>
-----------------------------------------------------------------------------
(***************************************************************************)
(* The collaborators: initial block download ends; the mempool drops a    *)
(* transaction (expiry or its size limit); time passes.                   *)
(***************************************************************************)
LeaveIBD ==
    /\ ibd
    /\ ibd' = FALSE
    /\ UNCHANGED <<fRelayTxes, mempool, recentRejects, stxPool, setInventoryTxToSend,
                   setInventoryStxToSend, filterInventoryKnown,
                   filterServiceDataKnown, askVars, peerVars, invSent>>

Evict(t) ==
    /\ t \in mempool
    /\ mempool' = mempool \ {t}
    /\ UNCHANGED <<recentRejects, stxPool, ibd, fRelayTxes, setInventoryTxToSend,
                   setInventoryStxToSend, filterInventoryKnown,
                   filterServiceDataKnown, askVars, peerVars, invSent>>

\* A tick: every ask-for entry is one tick nearer (a due one stays due),
\* and every last request time one tick further back, down to NoTime.
Tick ==
    /\ \/ \E p \in Peers : \E e \in mapAskFor[p] : e.wait > 0
       \/ \E i \in Items : mapAlreadyAskedFor[i] > NoTime
    /\ mapAskFor' = [p \in Peers |->
                       {[inv |-> e.inv, wait |-> Max({e.wait - 1, 0})] : e \in mapAskFor[p]}]
    /\ mapAlreadyAskedFor' = [i \in Items |-> Max({mapAlreadyAskedFor[i] - 1, NoTime})]
    /\ UNCHANGED <<mempool, recentRejects, stxPool, ibd, fRelayTxes, setInventoryTxToSend,
                   setInventoryStxToSend, filterInventoryKnown,
                   filterServiceDataKnown, setAskFor, peerVars, invSent>>

\* ProcessMessages of p: the next message from p.
ProcessMessage(p) == InvMsg(p) \/ TxMsg(p) \/ StxMsg(p)

Next ==
    \/ \E p \in Peers :
          \/ ProcessMessage(p)
          \/ SendMessages(p)
          \/ \E i \in Items : PeerInv(p, i) \/ PeerPush(p, i) \/ PeerAnswer(p, i)
          \/ \E s \in Stxs : GetDataStx(p, s)
    \/ LeaveIBD
    \/ \E t \in Txs : Evict(t)
    \/ Tick

Spec == Init /\ [][Next]_vars

(***************************************************************************)
(* The message handler thread calls ProcessMessages and SendMessages for  *)
(* every connected peer in a loop; a serving peer answers every GETDATA;  *)
(* time passes.  Initial block download need not end, and a peer need not *)
(* announce anything.                                                     *)
(***************************************************************************)
Fairness ==
    /\ \A p \in Peers : WF_vars(ProcessMessage(p)) /\ WF_vars(SendMessages(p))
    /\ \A p \in Serving : \A i \in Items : WF_vars(PeerAnswer(p, i))
    /\ WF_vars(Tick)

FairSpec == Spec /\ Fairness
-----------------------------------------------------------------------------
TypeOK ==
    /\ mempool \subseteq Txs /\ recentRejects \subseteq Txs /\ stxPool \subseteq Stxs
    /\ ibd \in BOOLEAN
    /\ fRelayTxes \in BOOLEAN
    /\ setInventoryTxToSend \in [Peers -> SUBSET Txs]
    /\ setInventoryStxToSend \in [Peers -> SUBSET Stxs]
    /\ filterInventoryKnown \in [Peers -> SUBSET Items]
    /\ filterServiceDataKnown \in [Peers -> SUBSET Stxs]
    /\ setAskFor \in [Peers -> SUBSET Items]
    /\ \A p \in Peers : Cardinality(setAskFor[p]) <= SETASKFOR_MAX_SZ + 1
    /\ mapAskFor \in [Peers -> SUBSET [inv : Items, wait : 0..RETRY * Cardinality(Peers)]]
    /\ mapAlreadyAskedFor \in [Items -> NoTime..RETRY * Cardinality(Peers)]
    /\ inbox \in [Peers -> Seq([cmd : {"inv", "tx", "stx"}, h : Items])]
    /\ asked \in [Peers -> SUBSET Items]
    /\ invSent \in [Peers -> [Items -> 0..2]]

\* Spec section 8: relaying a transaction is at most once per (peer,
\* transaction) while the known-inventory filter holds.  A transaction is
\* relayed again when it is accepted again after leaving the mempool, or
\* arrives again from a whitelisted peer under -whitelistforcerelay;
\* PushInventory and the trickle must both consult and update the filter.
TxInvAtMostOnce ==
    \A p \in Peers, t \in Txs : invSent[p][t] <= 1

\* A transaction held in a serving peer's setAskFor is accounted for: it
\* is still scheduled in mapAskFor, requested and unanswered, or its TX is
\* on the way.  An entry left behind blocks every later ask of that peer
\* for it, and counts against SETASKFOR_MAX_SZ for good.
AskForTracked ==
    \A p \in Serving, t \in Txs :
        t \in setAskFor[p] =>
            \/ \E e \in mapAskFor[p] : e.inv = t
            \/ t \in asked[p]
            \/ \E k \in 1..Len(inbox[p]) : inbox[p][k] = Msg("tx", t)

\* An item we ask a serving peer for that the peer holds is eventually
\* ours, even when it was first asked of a peer that never answers: the
\* later ask waits RETRY and then goes out.
AskedEventuallyFetched ==
    \A p \in Serving, i \in Items :
        (i \in setAskFor[p] /\ i \in PeerHas[p]) ~> AlreadyHave(i)
====
