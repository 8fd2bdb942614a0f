---------------------------- MODULE Misbehaviour ----------------------------
(***************************************************************************)
(* DoS scoring and banning in messages.cpp: Misbehaving, the flush of     *)
(* SendRejectsAndCheckIfBanned at the end of every ProcessMessages call   *)
(* and at the start of SendMessages, the block-source map filled by the   *)
(* BLOCK handler and consumed by PeerLogicValidation::BlockChecked, and   *)
(* FinalizeNode's clean-up of that map.                                   *)
(*                                                                         *)
(* Messages of one peer are handled one at a time; handlers of different  *)
(* peers and the validation callbacks run on other workers (the spec's    *)
(* scheduling model).  A handler that holds cs_main is one step.  The     *)
(* Misbehaving calls of the no-bloom, FILTERLOAD and FILTERADD paths are  *)
(* made without cs_main, so their read-modify-write of nMisbehavior and   *)
(* the threshold test are separate steps that a locked Misbehaving on     *)
(* another worker may interleave with.                                    *)
(***************************************************************************)
EXTENDS Integers, FiniteSets

CONSTANTS
    Peers,          \* node ids
    Blocks,         \* block hashes a peer may send
    InvalidBlocks,  \* blocks that fail validation
    BlockDoS,       \* the DoS score validation gives an invalid block
    LockedDoS,      \* scores of the Misbehaving calls made under cs_main
    BanScore,       \* -banscore
    Whitelisted,    \* pnode->fWhitelisted
    AddNode,        \* pnode->fAddnode
    LocalPeers,     \* pnode->addr.IsLocal()
    MaxScore        \* bound on the offences a peer's own messages cause

ASSUME /\ InvalidBlocks \subseteq Blocks
       /\ BlockDoS \in Nat /\ LockedDoS \subseteq Nat \ {0}
       /\ BanScore \in Nat \ {0}

\* The literal score of the no-bloom, oversized-filter and filteradd calls.
FILTER_DOS == 100

VARIABLES
    status,         \* "connected" while mapNodeState holds the peer, then "gone"
    hs,             \* handshake: "new" (nVersion = 0), "version", "verack"
    fDisconnect,    \* pnode->fDisconnect
    nMisbehavior,   \* CNodeState::nMisbehavior
    fShouldBan,     \* CNodeState::fShouldBan
    rejects,        \* CNodeState::rejects, the blocks whose REJECT is pending
    banned,         \* addresses given to connman.Ban
    mapBlockSource, \* block hash -> the peer it came from (punish is always true)
    blockState,     \* validation's view of a block: none, stored, valid, invalid
    pc,             \* where the peer's worker is in an unlocked Misbehaving
    tmp,            \* the nMisbehavior value that worker loaded
    offences        \* history: the total score of the Misbehaving calls made

vars == <<status, hs, fDisconnect, nMisbehavior, fShouldBan, rejects, banned,
          mapBlockSource, blockState, pc, tmp, offences>>

Exempt == Whitelisted \cup AddNode

-----------------------------------------------------------------------------
(* The scoring state is passed between helpers as one record, so a handler *)
(* that scores and then flushes is a composition of operators.            *)

NS == [score |-> nMisbehavior, shouldBan |-> fShouldBan, rejects |-> rejects,
       disconnect |-> fDisconnect, banned |-> banned, offences |-> offences]

SetNS(s) ==
    /\ nMisbehavior' = s.score
    /\ fShouldBan' = s.shouldBan
    /\ rejects' = s.rejects
    /\ fDisconnect' = s.disconnect
    /\ banned' = s.banned
    /\ offences' = s.offences

Crosses_DoubleCount(score, howmuch) ==
    score + howmuch >= BanScore /\ score - howmuch < BanScore

\* The threshold test of Misbehaving: this call's howmuch crossed banscore.
Crosses(score, howmuch) == score >= BanScore /\ score - howmuch < BanScore

MisbehavingOp_ScoreSign(s, p, howmuch) ==
    IF howmuch = 0 \/ status[p] # "connected" THEN s
    ELSE LET new == s.score[p] - howmuch
         IN  [s EXCEPT !.score[p] = new,
                       !.shouldBan[p] = @ \/ Crosses(new, howmuch),
                       !.offences[p] = @ + howmuch]

\* Misbehaving(pnode, howmuch) with cs_main held: one atomic update.
MisbehavingOp(s, p, howmuch) ==
    IF howmuch = 0 \/ status[p] # "connected" THEN s
    ELSE LET new == s.score[p] + howmuch
         IN  [s EXCEPT !.score[p] = new,
                       !.shouldBan[p] = @ \/ Crosses(new, howmuch),
                       !.offences[p] = @ + howmuch]

SendRejects_LocalKept(s, p) ==
    IF ~s.shouldBan[p] THEN [s EXCEPT !.rejects[p] = {}]
    ELSE [s EXCEPT !.rejects[p] = {},
                   !.shouldBan[p] = FALSE,
                   !.disconnect[p] = IF p \in Exempt \cup LocalPeers THEN @ ELSE TRUE,
                   !.banned = IF p \in Exempt \cup LocalPeers THEN @ ELSE @ \cup {p}]

\* SendRejectsAndCheckIfBanned: send the pending REJECTs, then act on
\* fShouldBan: whitelisted and addnode peers are only warned about, others
\* are disconnected and, unless local, banned.
SendRejectsAndCheckIfBanned(s, p) ==
    IF ~s.shouldBan[p] THEN [s EXCEPT !.rejects[p] = {}]
    ELSE [s EXCEPT !.rejects[p] = {},
                   !.shouldBan[p] = FALSE,
                   !.disconnect[p] = IF p \in Exempt THEN @ ELSE TRUE,
                   !.banned = IF p \in Exempt \cup LocalPeers THEN @ ELSE @ \cup {p}]

\* BlockChecked(block, state): for an invalid block whose source is still
\* registered, queue a REJECT to the source and score it with the block's DoS.
BlockCheckedOp(s, b) ==
    IF /\ b \in InvalidBlocks
       /\ b \in DOMAIN mapBlockSource
       /\ status[mapBlockSource[b]] = "connected"
    THEN LET src == mapBlockSource[b]
         IN  MisbehavingOp([s EXCEPT !.rejects[src] = @ \cup {b}], src, BlockDoS)
    ELSE s

\* mapBlockSource.erase(it) at the end of BlockChecked.
EraseSource(b) == [x \in DOMAIN mapBlockSource \ {b} |-> mapBlockSource[x]]

\* mapBlockSource.emplace: no effect when the hash is already present.
EmplaceSource(b, p) ==
    IF b \in DOMAIN mapBlockSource THEN mapBlockSource
    ELSE [x \in DOMAIN mapBlockSource \cup {b} |->
              IF x = b THEN p ELSE mapBlockSource[x]]

-----------------------------------------------------------------------------

Init ==
    /\ status = [p \in Peers |-> "connected"]
    /\ hs = [p \in Peers |-> "new"]
    /\ fDisconnect = [p \in Peers |-> FALSE]
    /\ nMisbehavior = [p \in Peers |-> 0]
    /\ fShouldBan = [p \in Peers |-> FALSE]
    /\ rejects = [p \in Peers |-> {}]
    /\ banned = {}
    /\ mapBlockSource = [b \in {} |-> CHOOSE q \in Peers : TRUE]
    /\ blockState = [b \in Blocks |-> "none"]
    /\ pc = [p \in Peers |-> "idle"]
    /\ tmp = [p \in Peers |-> 0]
    /\ offences = [p \in Peers |-> 0]

\* The peer's worker may start on its next message.
Handling(p) ==
    /\ status[p] = "connected"
    /\ ~fDisconnect[p]
    /\ pc[p] = "idle"

\* VERSION: the first one sets nVersion; then the ProcessMessages flush.
Version(p) ==
    /\ Handling(p)
    /\ hs[p] = "new"
    /\ hs' = [hs EXCEPT ![p] = "version"]
    /\ SetNS(SendRejectsAndCheckIfBanned(NS, p))
    /\ UNCHANGED <<status, mapBlockSource, blockState, pc, tmp>>

\* VERACK sets fSuccessfullyConnected; then the flush.
Verack(p) ==
    /\ Handling(p)
    /\ hs[p] # "new"
    /\ hs' = [hs EXCEPT ![p] = "verack"]
    /\ SetNS(SendRejectsAndCheckIfBanned(NS, p))
    /\ UNCHANGED <<status, mapBlockSource, blockState, pc, tmp>>

\* A message scored under cs_main: missing-version (1) before VERSION; after
\* it a duplicate VERSION (1), oversized addr/inv (20), invalid headers or
\* transactions (the validator's DoS).  Then the flush.
LockedOffence(p, d) ==
    /\ Handling(p)
    /\ offences[p] < MaxScore
    /\ hs[p] = "new" => d = 1
    /\ SetNS(SendRejectsAndCheckIfBanned(MisbehavingOp(NS, p, d), p))
    /\ UNCHANGED <<status, hs, mapBlockSource, blockState, pc, tmp>>

\* The no-bloom, oversized FILTERLOAD or bad FILTERADD message: Misbehaving
\* without cs_main.  First step: nMisbehavior is loaded.
FilterOffenceLoad(p) ==
    /\ Handling(p)
    /\ hs[p] # "new"
    /\ offences[p] < MaxScore
    /\ pc' = [pc EXCEPT ![p] = "store"]
    /\ tmp' = [tmp EXCEPT ![p] = nMisbehavior[p]]
    /\ UNCHANGED <<status, hs, fDisconnect, nMisbehavior, fShouldBan, rejects,
                   banned, mapBlockSource, blockState, offences>>

\* Second step: the incremented value is stored over whatever is there now.
FilterOffenceStore(p) ==
    /\ pc[p] = "store"
    /\ nMisbehavior' = [nMisbehavior EXCEPT ![p] = tmp[p] + FILTER_DOS]
    /\ pc' = [pc EXCEPT ![p] = "check"]
    /\ UNCHANGED <<status, hs, fDisconnect, fShouldBan, rejects, banned,
                   mapBlockSource, blockState, tmp, offences>>

\* Third step: the threshold test reads nMisbehavior again; the handler
\* returns and ProcessMessages flushes under cs_main.
FilterOffenceCheck(p) ==
    /\ pc[p] = "check"
    /\ LET s == [NS EXCEPT !.shouldBan[p] = @ \/ Crosses(nMisbehavior[p], FILTER_DOS),
                           !.offences[p] = @ + FILTER_DOS]
       IN  SetNS(SendRejectsAndCheckIfBanned(s, p))
    /\ pc' = [pc EXCEPT ![p] = "idle"]
    /\ UNCHANGED <<status, hs, mapBlockSource, blockState, tmp>>

\* BLOCK: emplace the source under cs_main, then ProcessNewBlock.  A block
\* validation already knows is not checked again.  A new block is either
\* stored (connected later, by whichever worker activates the chain) or,
\* if invalid, rejected by AcceptBlock, which returns the invalid state to
\* the handler: a REJECT and Misbehaving(pfrom, nDoS).  Then the flush.
BlockMsg(p, b) ==
    /\ Handling(p)
    /\ hs[p] # "new"
    /\ mapBlockSource' = EmplaceSource(b, p)
    /\ \/ /\ blockState[b] # "none"
          /\ SetNS(SendRejectsAndCheckIfBanned(NS, p))
          /\ UNCHANGED blockState
       \/ /\ blockState[b] = "none"
          /\ blockState' = [blockState EXCEPT ![b] = "stored"]
          /\ SetNS(SendRejectsAndCheckIfBanned(NS, p))
       \/ /\ blockState[b] = "none"
          /\ b \in InvalidBlocks
          /\ blockState' = [blockState EXCEPT ![b] = "invalid"]
          /\ SetNS(SendRejectsAndCheckIfBanned(MisbehavingOp(NS, p, BlockDoS), p))
    /\ UNCHANGED <<status, hs, pc, tmp>>

\* ActivateBestChain connects a stored block and fires BlockChecked, under
\* cs_main, on whichever worker delivered the missing parent.
ConnectBlock(b) ==
    /\ blockState[b] = "stored"
    /\ blockState' = [blockState EXCEPT ![b] =
                         IF b \in InvalidBlocks THEN "invalid" ELSE "valid"]
    /\ SetNS(BlockCheckedOp(NS, b))
    /\ mapBlockSource' = EraseSource(b)
    /\ UNCHANGED <<status, hs, pc, tmp>>

\* SendMessages: nothing before the handshake is complete or once the peer is
\* disconnecting; else (the chain lock taken) the flush.
SendMessages(p) ==
    /\ status[p] = "connected"
    /\ pc[p] = "idle"
    /\ hs[p] = "verack"
    /\ ~fDisconnect[p]
    /\ SetNS(SendRejectsAndCheckIfBanned(NS, p))
    /\ UNCHANGED <<status, hs, mapBlockSource, blockState, pc, tmp>>

\* The peer closes the connection; the connection manager marks it.
PeerCloses(p) ==
    /\ status[p] = "connected"
    /\ ~fDisconnect[p]
    /\ fDisconnect' = [fDisconnect EXCEPT ![p] = TRUE]
    /\ UNCHANGED <<status, hs, nMisbehavior, fShouldBan, rejects, banned,
                   mapBlockSource, blockState, pc, tmp, offences>>

FinalizeNode_KeepSources(p) ==
    /\ status[p] = "connected" /\ fDisconnect[p] /\ pc[p] = "idle"
    /\ status' = [status EXCEPT ![p] = "gone"]
    /\ UNCHANGED <<hs, fDisconnect, nMisbehavior, fShouldBan, rejects, banned,
                   mapBlockSource, blockState, pc, tmp, offences>>

\* FinalizeNode, once the connection manager drops the disconnected peer:
\* its mapBlockSource entries are erased and its state removed.
FinalizeNode(p) ==
    /\ status[p] = "connected"
    /\ fDisconnect[p]
    /\ pc[p] = "idle"
    /\ status' = [status EXCEPT ![p] = "gone"]
    /\ mapBlockSource' = [b \in {x \in DOMAIN mapBlockSource : mapBlockSource[x] # p}
                             |-> mapBlockSource[b]]
    /\ UNCHANGED <<hs, fDisconnect, nMisbehavior, fShouldBan, rejects, banned,
                   blockState, pc, tmp, offences>>

\* Every peer has gone: the run is over.
Done ==
    /\ \A p \in Peers : status[p] = "gone"
    /\ UNCHANGED vars

Next ==
    \/ \E p \in Peers :
          \/ Version(p)
          \/ Verack(p)
          \/ \E d \in LockedDoS : LockedOffence(p, d)
          \/ FilterOffenceLoad(p)
          \/ FilterOffenceStore(p)
          \/ FilterOffenceCheck(p)
          \/ \E b \in Blocks : BlockMsg(p, b)
          \/ SendMessages(p)
          \/ PeerCloses(p)
          \/ FinalizeNode(p)
    \/ \E b \in Blocks : ConnectBlock(b)
    \/ Done

\* The SendMessages loop visits every peer on every pass, and a worker that
\* is inside a handler finishes it.  Peers are not assumed to send anything.
Fairness ==
    \A p \in Peers :
        /\ WF_vars(SendMessages(p))
        /\ WF_vars(FilterOffenceStore(p))
        /\ WF_vars(FilterOffenceCheck(p))

Spec == Init /\ [][Next]_vars

FairSpec == Spec /\ Fairness

-----------------------------------------------------------------------------

\* Scores are never negative and the flags and maps keep their shapes.
TypeOK ==
    /\ status \in [Peers -> {"connected", "gone"}]
    /\ hs \in [Peers -> {"new", "version", "verack"}]
    /\ fDisconnect \in [Peers -> BOOLEAN]
    /\ nMisbehavior \in [Peers -> Nat]
    /\ fShouldBan \in [Peers -> BOOLEAN]
    /\ rejects \in [Peers -> SUBSET InvalidBlocks]
    /\ banned \subseteq Peers
    /\ DOMAIN mapBlockSource \subseteq Blocks
    /\ \A b \in DOMAIN mapBlockSource : mapBlockSource[b] \in Peers
    /\ blockState \in [Blocks -> {"none", "stored", "valid", "invalid"}]
    /\ pc \in [Peers -> {"idle", "store", "check"}]
    /\ tmp \in [Peers -> Nat]
    /\ offences \in [Peers -> Nat]

\* No offence is forgotten: a peer that is not whitelisted or addnode and
\* whose Misbehaving calls add up to banscore is flagged or disconnecting,
\* even when an unlocked Misbehaving (FILTERADD, FILTERLOAD, no-bloom) and a
\* BlockChecked on another worker update nMisbehavior at the same time.
BanNotLost ==
    \A p \in Peers \ Exempt :
        status[p] = "connected" /\ pc[p] = "idle" /\ offences[p] >= BanScore
            => fShouldBan[p] \/ fDisconnect[p]

\* No peer is flagged, and so none is disconnected or banned for
\* misbehaviour, before the Misbehaving calls made on it add up to banscore:
\* the unlocked read-modify-write and a BlockChecked on another worker may
\* lose score, but never invent it.
NoPrematureBan ==
    \A p \in Peers :
        /\ pc[p] = "idle" /\ fShouldBan[p] => offences[p] >= BanScore
        /\ p \in banned => offences[p] >= BanScore

\* FinalizeNode removes every mapBlockSource entry of the peer, so
\* BlockChecked never finds a source that has gone (the leak the comment
\* in FinalizeNode describes).
SourceOwnerLive ==
    \A b \in DOMAIN mapBlockSource : status[mapBlockSource[b]] = "connected"

\* A handshake-complete peer that is flagged, by its own message or by a
\* BlockChecked on another worker, is eventually disconnected by the flush
\* in SendMessages, unless it is whitelisted or addnode.
FlaggedPeerDisconnected ==
    \A p \in Peers \ Exempt :
        (fShouldBan[p] /\ hs[p] = "verack") ~> fDisconnect[p]

=============================================================================
