----------------------------- MODULE OrphanPool -----------------------------
(***************************************************************************)
(* Orphan transaction pool, recent-rejects filter and the TX handler of    *)
(* src/services/chain/messages.cpp.                                        *)
(*                                                                         *)
(* State: mapOrphanTransactions (orphan hash -> source peer),              *)
(* mapOrphanTransactionsByPrev (prev hash -> set of orphan hashes),        *)
(* recentRejects with hashRecentRejectsChainTip, the misbehaviour score    *)
(* the orphan handling adds to, and the parts of the collaborators the     *)
(* handler reads: the mempool, the transactions confirmed in the chain and *)
(* the chain tip (a counter of connected blocks).                          *)
(*                                                                         *)
(* Transactions are the integers 1..N; their order is the order of their   *)
(* hashes, which is the order std::set<uint256> iterates in.  Parents[t]   *)
(* is the set of prev hashes t's inputs reference (among the modelled      *)
(* transactions), NOut[t] its number of outputs.  Each handler runs under  *)
(* cs_main on the message-handler thread and is one atomic step.           *)
(***************************************************************************)
EXTENDS Integers, Sequences, FiniteSets, SequencesExt, FiniteSetsExt

CONSTANTS
    Peers,
    Txs,            \* transaction hashes, a finite set of integers
    Parents,        \* [Txs -> SUBSET Txs], acyclic
    NOut,           \* [Txs -> Nat \ {0}]
    InvalidTxs,     \* rejected by AcceptToMemoryPool once inputs are known
    DoS,            \* [Txs -> Nat], the DoS score of an invalid transaction
    LargeTxs,       \* serialized size > 5000: never kept as an orphan
    MaxOrphanTx,    \* -maxorphantx (clamped at 0)
    MaxSends,       \* bound: how often each transaction is received
    MaxBlocks       \* bound: number of blocks connected

ASSUME MaxOrphanTx \in Nat /\ MaxSends \in Nat /\ MaxBlocks \in Nat
ASSUME InvalidTxs \cup LargeTxs \subseteq Txs

VARIABLES
    status,          \* peer -> "connected" | "gone"
    orphans,         \* mapOrphanTransactions: hash -> fromPeer
    byPrev,          \* mapOrphanTransactionsByPrev: prev hash -> orphans
    recentRejects,
    rejectsTip,      \* hashRecentRejectsChainTip
    nMisbehavior,    \* CNodeState::nMisbehavior per peer
    mempool,
    confirmed,       \* transactions in connected blocks
    tipId,           \* chainActive.Tip(): number of blocks connected
    sends,           \* receptions of each transaction so far (bound)
    lost             \* history: an orphan was dropped without resolution

vars == <<status, orphans, byPrev, recentRejects, rejectsTip, nMisbehavior,
          mempool, confirmed, tipId, sends, lost>>

Pool == [txs |-> orphans, prev |-> byPrev]

MaxOf(a, b) == IF a >= b THEN a ELSE b

(***************************************************************************)
(* AcceptToMemoryPool (validation, not in this repository).  A duplicate  *)
(* fails as invalid with DoS 0 ("txn-already-in-mempool" / "-known"); a    *)
(* transaction with an input not in the mempool or chain fails with       *)
(* fMissingInputs; an invalid one fails with its DoS score.               *)
(***************************************************************************)
ATMP(t, mp) ==
    LET known   == t \in mp \cup confirmed
        missing == ~known /\ ~(Parents[t] \subseteq mp \cup confirmed)
    IN [accepted |-> ~known /\ ~missing /\ t \notin InvalidTxs,
        missing  |-> missing,
        dos      |-> IF known \/ missing THEN 0 ELSE DoS[t]]

\* AlreadyHave(MSG_TX) against the rejects filter after its tip reset; the
\* coin cache lookup of outputs 0 and 1 finds a confirmed transaction.
AlreadyHave(t, rejects) ==
    t \in rejects \/ t \in mempool \/ t \in DOMAIN orphans \/ t \in confirmed

\* The rejects filter as AlreadyHave leaves it: reset if the tip changed.
RejectsAfterTipCheck ==
    IF rejectsTip = tipId THEN recentRejects ELSE {}

(***************************************************************************)
(* Orphan pool helpers, on a record [txs, prev].                          *)
(***************************************************************************)
\* AddOrphanTx(tx, peer)
AddOrphanTx(pool, t, p) ==
    IF t \in DOMAIN pool.txs \/ t \in LargeTxs THEN pool
    ELSE [txs  |-> [x \in DOMAIN pool.txs \cup {t} |->
                       IF x = t THEN p ELSE pool.txs[x]],
          prev |-> [x \in DOMAIN pool.prev \cup Parents[t] |->
                       (IF x \in DOMAIN pool.prev THEN pool.prev[x] ELSE {})
                       \cup (IF x \in Parents[t] THEN {t} ELSE {})]]

\* Seeded fault: an emptied by-prev entry is left in the index.
EraseOrphanTx_KeepEmpty(pool, h) ==
    IF h \notin DOMAIN pool.txs THEN pool
    ELSE [txs  |-> [x \in DOMAIN pool.txs \ {h} |-> pool.txs[x]],
          prev |-> [x \in DOMAIN pool.prev |->
                       IF x \in Parents[h] THEN pool.prev[x] \ {h} ELSE pool.prev[x]]]

\* EraseOrphanTx(hash)
EraseOrphanTx(pool, h) ==
    IF h \notin DOMAIN pool.txs THEN pool
    ELSE [txs  |-> [x \in DOMAIN pool.txs \ {h} |-> pool.txs[x]],
          prev |-> [x \in {y \in DOMAIN pool.prev :
                              ~(y \in Parents[h] /\ pool.prev[y] \subseteq {h})} |->
                       IF x \in Parents[h] THEN pool.prev[x] \ {h} ELSE pool.prev[x]]]

\* A loop of EraseOrphanTx calls over a set of hashes.
EraseOrphans(pool, hs) == FoldSet(LAMBDA h, acc : EraseOrphanTx(acc, h), pool, hs)

\* EraseOrphansFor(peer)
EraseOrphansFor(pool, p) ==
    EraseOrphans(pool, {h \in DOMAIN pool.txs : pool.txs[h] = p})

\* Seeded fault: the eviction loop stops one orphan too early.
Evictions_OffByOne(pool) ==
    {V \in SUBSET DOMAIN pool.txs :
        Cardinality(V) = MaxOf(0, Cardinality(DOMAIN pool.txs) - MaxOrphanTx - 1)}

\* LimitOrphanTxSize(nMaxOrphans): the random evictions, as the set of
\* orphans they remove (any set of the size the loop removes).
Evictions(pool) ==
    {V \in SUBSET DOMAIN pool.txs :
        Cardinality(V) = MaxOf(0, Cardinality(DOMAIN pool.txs) - MaxOrphanTx)}

(***************************************************************************)
(* The orphan resolution loop of the TX handler.  st is the loop's state: *)
(* vWorkQueue (the prev hash of each queued outpoint), the mempool,       *)
(* recentRejects, vEraseQueue (as a set: erasing is idempotent),          *)
(* setMisbehaving and the misbehaviour scores.  The pool is not changed   *)
(* inside the loop, so the orphans and the index are read from the state. *)
(***************************************************************************)
\* One (hash, i) outpoint per output of t; only the hash is looked up.
OutPoints(t) == [i \in 1..NOut[t] |-> t]

\* Seeded faults: a resolved orphan is not queued for erasure; the DoS
\* score is subtracted instead of added.
ReconsiderOrphan_NoErase(o, st) ==
    LET from == orphans[o]
        r == ATMP(o, st.mempool)
    IN IF from \in st.misb THEN st
       ELSE IF r.accepted
       THEN [st EXCEPT !.mempool = @ \cup {o}, !.queue = @ \o OutPoints(o)]
       ELSE IF ~r.missing
       THEN [st EXCEPT !.score = IF r.dos > 0 THEN [@ EXCEPT ![from] = @ + r.dos] ELSE @,
                       !.misb = IF r.dos > 0 THEN @ \cup {from} ELSE @,
                       !.erase = @ \cup {o},
                       !.rejects = @ \cup {o}]
       ELSE st

ReconsiderOrphan_ScoreSign(o, st) ==
    LET from == orphans[o]
        r == ATMP(o, st.mempool)
    IN IF from \in st.misb THEN st
       ELSE IF r.accepted
       THEN [st EXCEPT !.mempool = @ \cup {o},
                       !.queue = @ \o OutPoints(o),
                       !.erase = @ \cup {o}]
       ELSE IF ~r.missing
       THEN [st EXCEPT !.score = IF r.dos > 0 THEN [@ EXCEPT ![from] = @ - r.dos] ELSE @,
                       !.misb = IF r.dos > 0 THEN @ \cup {from} ELSE @,
                       !.erase = @ \cup {o},
                       !.rejects = @ \cup {o}]
       ELSE st

\* The body of the inner loop for orphan o.
ReconsiderOrphan(o, st) ==
    LET from == orphans[o]
        r == ATMP(o, st.mempool)
    IN IF from \in st.misb THEN st
       ELSE IF r.accepted
       THEN [st EXCEPT !.mempool = @ \cup {o},
                       !.queue = @ \o OutPoints(o),
                       !.erase = @ \cup {o}]
       ELSE IF ~r.missing
       THEN [st EXCEPT !.score = IF r.dos > 0 THEN [@ EXCEPT ![from] = @ + r.dos] ELSE @,
                       !.misb = IF r.dos > 0 THEN @ \cup {from} ELSE @,
                       !.erase = @ \cup {o},
                       !.rejects = @ \cup {o}]
       ELSE st

\* for (mi over mapOrphanTransactionsByPrev[hash]), in hash order.
ReconsiderAll(os, st) ==
    FoldLeft(LAMBDA acc, o : ReconsiderOrphan(o, acc), st, os)

\* while (!vWorkQueue.empty())
RECURSIVE WorkQueue(_)
WorkQueue(st) ==
    IF st.queue = <<>> THEN st
    ELSE LET h == Head(st.queue)
             kids == IF h \in DOMAIN byPrev THEN byPrev[h] ELSE {}
         IN WorkQueue(ReconsiderAll(SetToSortSeq(kids, <),
                                    [st EXCEPT !.queue = Tail(@)]))
-----------------------------------------------------------------------------
Init ==
    /\ status = [p \in Peers |-> "connected"]
    /\ orphans = [h \in {} |-> CHOOSE p \in Peers : TRUE]
    /\ byPrev = [h \in {} |-> {}]
    /\ recentRejects = {}
    /\ rejectsTip = 0
    /\ nMisbehavior = [p \in Peers |-> 0]
    /\ mempool = {}
    /\ confirmed = {}
    /\ tipId = 0
    /\ sends = [t \in Txs |-> 0]
    /\ lost = FALSE

SetPool(pool) == orphans' = pool.txs /\ byPrev' = pool.prev

(***************************************************************************)
(* TX t from peer p: AlreadyHave (resetting the rejects filter if the tip  *)
(* changed), AcceptToMemoryPool, and then one of three branches:          *)
(*  - accepted: resolve the orphans that spend it, through the work queue *)
(*    of outpoints, then erase the resolved and rejected orphans;         *)
(*  - missing inputs: drop it if a parent is in recentRejects, otherwise  *)
(*    keep it as an orphan and evict down to MaxOrphanTx;                 *)
(*  - otherwise (including "already have"): cache it in recentRejects and *)
(*    punish p by the DoS score.                                          *)
(* The blocks-only early return changes nothing; the ask-for requests of  *)
(* the missing parents are the environment's later TX messages.           *)
(***************************************************************************)
TxMsg(p, t) ==
    /\ status[p] = "connected"
    /\ sends[t] < MaxSends
    /\ sends' = [sends EXCEPT ![t] = @ + 1]
    /\ rejectsTip' = tipId
    /\ LET rej0 == RejectsAfterTipCheck
           have == AlreadyHave(t, rej0)
           r == ATMP(t, mempool)
       IN IF ~have /\ r.accepted
          THEN LET st == WorkQueue([queue |-> OutPoints(t), mempool |-> mempool \cup {t},
                                    rejects |-> rej0, erase |-> {}, misb |-> {},
                                    score |-> nMisbehavior])
               IN /\ mempool' = st.mempool
                  /\ recentRejects' = st.rejects
                  /\ nMisbehavior' = st.score
                  /\ SetPool(EraseOrphans(Pool, st.erase))
                  /\ UNCHANGED lost
          ELSE IF ~have /\ r.missing
          THEN /\ IF Parents[t] \cap rej0 = {}
                  THEN LET pool1 == AddOrphanTx(Pool, t, p)
                       IN \E V \in Evictions(pool1) :
                             /\ SetPool(EraseOrphans(pool1, V))
                             /\ recentRejects' = rej0
                             /\ lost' = (lost \/ V # {} \/ t \notin DOMAIN pool1.txs)
                  ELSE /\ recentRejects' = rej0 \cup {t}
                       /\ UNCHANGED <<orphans, byPrev, lost>>
               /\ UNCHANGED <<mempool, nMisbehavior>>
          ELSE /\ recentRejects' = rej0 \cup {t}
               /\ nMisbehavior' = IF ~have /\ r.dos > 0
                                  THEN [nMisbehavior EXCEPT ![p] = @ + r.dos]
                                  ELSE nMisbehavior
               /\ UNCHANGED <<orphans, byPrev, mempool, lost>>
    /\ UNCHANGED <<status, confirmed, tipId>>

\* Seeded fault: a disconnect leaves the peer's orphans in the pool.
FinalizeNode_KeepOrphans(p) ==
    /\ status[p] = "connected"
    /\ status' = [status EXCEPT ![p] = "gone"]
    /\ UNCHANGED <<orphans, byPrev, lost, recentRejects, rejectsTip, nMisbehavior,
                   mempool, confirmed, tipId, sends>>

(***************************************************************************)
(* FinalizeNode(p), the part on the orphan pool: EraseOrphansFor.         *)
(***************************************************************************)
FinalizeNode(p) ==
    /\ status[p] = "connected"
    /\ status' = [status EXCEPT ![p] = "gone"]
    /\ LET pool1 == EraseOrphansFor(Pool, p)
       IN /\ SetPool(pool1)
          /\ lost' = (lost \/ DOMAIN pool1.txs # DOMAIN orphans)
    /\ UNCHANGED <<recentRejects, rejectsTip, nMisbehavior, mempool, confirmed,
                   tipId, sends>>

(***************************************************************************)
(* A block with the transactions B is connected (validation): they leave  *)
(* the mempool and join the chain, the tip changes, and the BlockConnected *)
(* callback erases every orphan that spends a prev hash some input of the  *)
(* block spends.  B holds valid transactions whose parents are confirmed  *)
(* or in B.                                                                *)
(***************************************************************************)
BlockConnected(B) ==
    /\ tipId < MaxBlocks
    /\ B # {}
    /\ B \cap (confirmed \cup InvalidTxs) = {}
    /\ \A t \in B : Parents[t] \subseteq confirmed \cup B
    /\ LET spent == UNION {Parents[t] : t \in B}
           vOrphanErase == UNION {byPrev[x] : x \in spent \cap DOMAIN byPrev}
           pool1 == EraseOrphans(Pool, vOrphanErase)
       IN /\ SetPool(pool1)
          /\ lost' = (lost \/ (DOMAIN orphans \ DOMAIN pool1.txs) \ B # {})
    /\ mempool' = mempool \ B
    /\ confirmed' = confirmed \cup B
    /\ tipId' = tipId + 1
    /\ UNCHANGED <<status, recentRejects, rejectsTip, nMisbehavior, sends>>

\* Every transaction has been received as often as the bound allows, or
\* its senders are gone.
Done ==
    /\ \A t \in Txs : sends[t] = MaxSends \/ \A p \in Peers : status[p] = "gone"
    /\ UNCHANGED vars

Next ==
    \/ \E p \in Peers : \/ \E t \in Txs : TxMsg(p, t)
                       \/ FinalizeNode(p)
    \/ \E B \in SUBSET Txs : BlockConnected(B)
    \/ Done

Spec == Init /\ [][Next]_vars

-----------------------------------------------------------------------------
(***************************************************************************)
(* Properties                                                              *)
(***************************************************************************)
TypeOK ==
    /\ status \in [Peers -> {"connected", "gone"}]
    /\ DOMAIN orphans \subseteq Txs /\ \A o \in DOMAIN orphans : orphans[o] \in Peers
    /\ DOMAIN byPrev \subseteq Txs /\ \A x \in DOMAIN byPrev : byPrev[x] \subseteq Txs
    /\ recentRejects \subseteq Txs /\ rejectsTip \in 0..MaxBlocks
    /\ nMisbehavior \in [Peers -> Nat]
    /\ mempool \subseteq Txs /\ confirmed \subseteq Txs /\ tipId \in 0..MaxBlocks
    /\ sends \in [Txs -> 0..MaxSends] /\ lost \in BOOLEAN

\* Spec invariant 6: mapOrphanTransactionsByPrev is exactly the set of
\* (prev hash, orphan) pairs of the orphans' inputs, with no empty entry,
\* after every AddOrphanTx, EraseOrphanTx, EraseOrphansFor, eviction and
\* BlockConnected.
OrphanIndexExact ==
    /\ DOMAIN byPrev = UNION {Parents[o] : o \in DOMAIN orphans}
    /\ \A x \in DOMAIN byPrev :
          byPrev[x] = {o \in DOMAIN orphans : x \in Parents[o]}

\* The orphan pool never holds more than -maxorphantx transactions after
\* a TX handler (AddOrphanTx followed by LimitOrphanTxSize).
OrphanPoolBounded ==
    Cardinality(DOMAIN orphans) <= MaxOrphanTx

\* Every orphan's source peer is still connected: FinalizeNode erases the
\* orphans of the peer, so the orphan loop never scores a peer that is gone.
OrphanOwnerConnected ==
    \A o \in DOMAIN orphans : status[orphans[o]] = "connected"

\* No transaction is both an orphan and in the mempool or the chain:
\* orphans resolved by the work queue are erased, a block erases the
\* orphans it includes, and AlreadyHave keeps an orphan from being
\* accepted directly.
OrphanNotAccepted ==
    DOMAIN orphans \cap (mempool \cup confirmed) = {}

\* A transaction is acceptable when it and all its ancestors are valid.
RECURSIVE Acceptable(_)
Acceptable(t) == t \notin InvalidTxs /\ \A q \in Parents[t] : Acceptable(q)

\* Spec section 8: orphan resolution is confluent.  Once every transaction
\* has been received, if no orphan was evicted, dropped for its size or
\* erased by a disconnect or a block, then the mempool and chain hold
\* exactly the acceptable transactions, whatever order they arrived in.
\* This is about the TX handler's orphan work queue and its use of
\* recentRejects for transactions with rejected parents.
OrphanResolutionConfluent ==
    ((\A t \in Txs : sends[t] >= 1) /\ ~lost)
        => mempool \cup confirmed = {t \in Txs : Acceptable(t)}

\* Spec section 4 (orphan pool): the chain-connected callback evicts the
\* orphans whose parents are now spent or included.  So no orphan has
\* every parent in the chain: BlockConnected must not leave behind an
\* orphan whose last missing parent the block contains, which AlreadyHave
\* would then keep from ever being reconsidered.
OrphanParentsNotAllConfirmed ==
    \A o \in DOMAIN orphans : ~(Parents[o] \subseteq confirmed)
====
