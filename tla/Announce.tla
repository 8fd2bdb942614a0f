------------------------------ MODULE Announce ------------------------------
(***************************************************************************)
(* Block announcement (messages.cpp): what the node believes each peer    *)
(* has (PeerHasHeader over pindexBestKnownBlock and pindexBestHeaderSent), *)
(* how the beliefs are updated (UpdateBlockAvailability, the lift of      *)
(* ProcessBlockAvailability, GETHEADERS, the announcements themselves),   *)
(* and how a new tip reaches a peer: the header-and-ids push of           *)
(* NewPoWValidBlock, the hashes UpdatedBlockTip queues in                 *)
(* vBlockHashesToAnnounce, and the HEADERS-or-INV step of SendMessages.   *)
(*                                                                         *)
(* The block tree is fixed (Parent); mapBlockIndex is the part of it whose *)
(* headers the node has accepted, and the active chain is the ancestors   *)
(* of tip.  Work grows with height.  For each peer the model keeps, as a  *)
(* history, the headers the peer really has (known: its own chain and the *)
(* HEADERS it accepted, which must connect) and the blocks INV'd to it.   *)
(* The connection is reliable and in order, so a message is credited to   *)
(* the peer when it is pushed.                                             *)
(***************************************************************************)
EXTENDS Integers, Sequences, SequencesExt, FiniteSets

CONSTANTS
    Blocks,             \* the block tree, genesis included
    Parent,             \* pprev; NoBlock for genesis
    Genesis,
    Peers,
    PeerChain,          \* the tip of each peer's own chain when it connects
    StartingHeight,     \* nStartingHeight of each peer's VERSION, or -1
    Whitelisted,        \* the whitelisted peers
    MAX_BLOCKS_TO_ANNOUNCE,
    MAX_HEADERS_RESULTS,
    STARTING_HEIGHT_SLACK,  \* the 2000 of UpdatedBlockTip
    NoBlock             \* a NULL CBlockIndex* / a null hash

VARIABLES
    mapBlockIndex,      \* the headers the node has accepted
    tip,                \* chainActive.Tip()
    ibd,                \* IsInitialBlockDownload()
    nHighestFastAnnounce,
    mapNodeState,       \* per peer: the CNodeState fields of announcement
    vBlockHashesToAnnounce,
    known,              \* history: the headers each peer has
    invd,               \* history: the blocks INV'd to each peer
    unconnected         \* history: peers sent an announcement that does not connect

vars == <<mapBlockIndex, tip, ibd, nHighestFastAnnounce, mapNodeState,
          vBlockHashesToAnnounce, known, invd, unconnected>>

RECURSIVE Depth(_)
Depth(b) == IF Parent[b] = NoBlock THEN 0 ELSE 1 + Depth(Parent[b])

\* nHeight, by block (a function, so that it is computed once).
Height == [b \in Blocks |-> Depth(b)]

RECURSIVE Ancestor(_, _)
Ancestor(b, h) ==
    IF b = NoBlock \/ h > Depth(b) THEN NoBlock
    ELSE IF h = Depth(b) THEN b ELSE Ancestor(Parent[b], h)

Heights == 0..Cardinality(Blocks)

\* CBlockIndex::GetAncestor: the ancestor of b at height h, NULL above b.
AncestorTable == [b \in Blocks \cup {NoBlock}, h \in Heights |-> Ancestor(b, h)]

GetAncestor(b, h) == AncestorTable[b, h]

Ancestors(b) == {GetAncestor(b, h) : h \in 0..Height[b]}

\* chainActive[h] and chainActive.Contains(b).
ActiveAt(h) == GetAncestor(tip, h)
InActive(b) == ActiveAt(Height[b]) = b

\* The fork point UpdatedBlockTip is given: the last common block.
LastCommon(a, b) ==
    CHOOSE f \in Ancestors(a) \cap Ancestors(b) :
        \A g \in Ancestors(a) \cap Ancestors(b) : Height[g] <= Height[f]

PeerHasHeader(ns, b) ==
    \/ ns.pindexBestKnownBlock # NoBlock
         /\ b = GetAncestor(ns.pindexBestKnownBlock, Height[b])
    \/ ns.pindexBestHeaderSent # NoBlock
         /\ b = GetAncestor(ns.pindexBestHeaderSent, Height[b])

\* Lift a parked announcement once its header is in the block index idx.
ProcessBlockAvailability(ns, idx) ==
    LET u == ns.hashLastUnknownBlock
    IN IF u # NoBlock /\ u \in idx
       THEN [ns EXCEPT
               !.pindexBestKnownBlock =
                   IF @ = NoBlock \/ Height[u] >= Height[@] THEN u ELSE @,
               !.hashLastUnknownBlock = NoBlock]
       ELSE ns

\* Seeded fault: an unknown block becomes the best known block.
UpdateBlockAvailability_NoIndexCheck(ns, b, idx) ==
    [ProcessBlockAvailability(ns, idx) EXCEPT !.pindexBestKnownBlock =
        IF @ = NoBlock \/ Height[b] >= Height[@] THEN b ELSE @]

\* An announcement of b by the peer: the best known block if b is known
\* and has at least its work, else parked as the last unknown block.
UpdateBlockAvailability(ns, b, idx) ==
    LET ns1 == ProcessBlockAvailability(ns, idx)
    IN IF b \in idx
       THEN [ns1 EXCEPT !.pindexBestKnownBlock =
                           IF @ = NoBlock \/ Height[b] >= Height[@] THEN b ELSE @]
       ELSE [ns1 EXCEPT !.hashLastUnknownBlock = b]

\* The peer accepts a HEADERS message only if its first header connects.
Connects(p, hdrs) == Parent[hdrs[1]] \in known[p] \cup {NoBlock}

KnownAfter(p, hdrs) ==
    IF hdrs # <<>> /\ Connects(p, hdrs) THEN known[p] \cup ToSet(hdrs) ELSE known[p]

\* The ends of the branches the peer has: the headers a peer's locator
\* (GetLocator of its best header) starts from.
KnownTips(p) == {b \in known[p] : \A c \in known[p] : Parent[c] # b}

\* UpdatedBlockTip relays to a peer unless its VERSION claimed a starting
\* height more than STARTING_HEIGHT_SLACK above the new tip.
Relays(p, h) ==
    h > (IF StartingHeight[p] # -1 THEN StartingHeight[p] - STARTING_HEIGHT_SLACK ELSE 0)
-----------------------------------------------------------------------------
Init ==
    /\ mapBlockIndex = {Genesis}
    /\ tip = Genesis
    /\ ibd = TRUE
    /\ nHighestFastAnnounce = 0
    /\ mapNodeState = [p \in Peers |->
                          [pindexBestKnownBlock |-> NoBlock,
                           hashLastUnknownBlock |-> NoBlock,
                           pindexBestHeaderSent |-> NoBlock,
                           fPreferHeaders |-> FALSE]]
    /\ vBlockHashesToAnnounce = [p \in Peers |-> <<>>]
    /\ known = [p \in Peers |-> Ancestors(PeerChain[p])]
    /\ invd = [p \in Peers |-> {}]
    /\ unconnected = {}

\* A header accepted from a source outside the model (another peer, a
\* block of our own): its parent is already in the index.
HeaderAccepted(b) ==
    /\ b \notin mapBlockIndex
    /\ Parent[b] \in mapBlockIndex
    /\ mapBlockIndex' = mapBlockIndex \cup {b}
    /\ UNCHANGED <<tip, ibd, nHighestFastAnnounce, mapNodeState,
                   vBlockHashesToAnnounce, known, invd, unconnected>>

\* IsInitialBlockDownload latches to false.
LeaveIBD ==
    /\ ibd
    /\ ibd' = FALSE
    /\ UNCHANGED <<mapBlockIndex, tip, nHighestFastAnnounce, mapNodeState,
                   vBlockHashesToAnnounce, known, invd, unconnected>>

\* Seeded fault: the header is pushed without checking the peer has its
\* parent.
NewPoWValidBlock_NoParentCheck(b) ==
    /\ b \in mapBlockIndex \ {Genesis}
    /\ Height[b] > nHighestFastAnnounce
    /\ nHighestFastAnnounce' = Height[b]
    /\ LET ns == [p \in Peers |-> ProcessBlockAvailability(mapNodeState[p], mapBlockIndex)]
           ann == {p \in Peers : ~PeerHasHeader(ns[p], b)}
       IN /\ mapNodeState' = [p \in Peers |->
                                 IF p \in ann
                                 THEN [ns[p] EXCEPT !.pindexBestHeaderSent = b]
                                 ELSE ns[p]]
          /\ known' = [p \in Peers |-> IF p \in ann THEN KnownAfter(p, <<b>>) ELSE known[p]]
          /\ unconnected' = unconnected \cup {p \in ann : ~Connects(p, <<b>>)}
    /\ UNCHANGED <<mapBlockIndex, tip, ibd, vBlockHashesToAnnounce, invd>>

(***************************************************************************)
(* NewPoWValidBlock(b): once per height (the static nHighestFastAnnounce), *)
(* push HEADERS(b) to every peer that, after ProcessBlockAvailability, has *)
(* b's parent but not b, and record b as the best header sent.            *)
(***************************************************************************)
NewPoWValidBlock(b) ==
    /\ b \in mapBlockIndex \ {Genesis}
    /\ Height[b] > nHighestFastAnnounce
    /\ nHighestFastAnnounce' = Height[b]
    /\ LET ns == [p \in Peers |-> ProcessBlockAvailability(mapNodeState[p], mapBlockIndex)]
           ann == {p \in Peers : /\ ~PeerHasHeader(ns[p], b)
                                 /\ PeerHasHeader(ns[p], Parent[b])}
       IN /\ mapNodeState' = [p \in Peers |->
                                 IF p \in ann
                                 THEN [ns[p] EXCEPT !.pindexBestHeaderSent = b]
                                 ELSE ns[p]]
          /\ known' = [p \in Peers |-> IF p \in ann THEN KnownAfter(p, <<b>>) ELSE known[p]]
          /\ unconnected' = unconnected \cup {p \in ann : ~Connects(p, <<b>>)}
    /\ UNCHANGED <<mapBlockIndex, tip, ibd, vBlockHashesToAnnounce, invd>>

(***************************************************************************)
(* The active chain moves to new (more work, header accepted) and          *)
(* UpdatedBlockTip(new, fork, fInitialDownload) runs: outside initial     *)
(* download it queues the hashes from the fork up to new, at most         *)
(* MAX_BLOCKS_TO_ANNOUNCE of the newest, oldest first, for every peer it  *)
(* relays to.                                                              *)
(***************************************************************************)
UpdatedBlockTip(new) ==
    /\ new \in mapBlockIndex
    /\ Height[new] > Height[tip]
    /\ tip' = new
    /\ LET fork == LastCommon(tip, new)
           n == Min({MAX_BLOCKS_TO_ANNOUNCE, Height[new] - Height[fork]})
           hashes == [i \in 1..n |-> GetAncestor(new, Height[new] - n + i)]
       IN vBlockHashesToAnnounce' =
            [p \in Peers |-> IF ~ibd /\ Relays(p, Height[new])
                             THEN vBlockHashesToAnnounce[p] \o hashes
                             ELSE vBlockHashesToAnnounce[p]]
    /\ UNCHANGED <<mapBlockIndex, ibd, nHighestFastAnnounce, mapNodeState,
                   known, invd, unconnected>>

\* INV of block b from a peer that has it: UpdateBlockAvailability.  The
\* GETHEADERS and direct fetch that follow are BlockDownload's.
InvBlock(p, b) ==
    /\ b \in known[p]
    /\ mapNodeState' = [mapNodeState EXCEPT
                           ![p] = UpdateBlockAvailability(@, b, mapBlockIndex)]
    /\ UNCHANGED <<mapBlockIndex, tip, ibd, nHighestFastAnnounce,
                   vBlockHashesToAnnounce, known, invd, unconnected>>

\* HEADERS ending in b, which the peer has: the headers are accepted and
\* the peer's best known block updated with the last of them.
HeadersMsg(p, b) ==
    /\ b \in known[p]
    /\ mapBlockIndex' = mapBlockIndex \cup Ancestors(b)
    /\ mapNodeState' = [mapNodeState EXCEPT
                           ![p] = UpdateBlockAvailability(@, b, mapBlockIndex')]
    /\ UNCHANGED <<tip, ibd, nHighestFastAnnounce, vBlockHashesToAnnounce,
                   known, invd, unconnected>>

SendHeadersMsg(p) ==
    /\ mapNodeState' = [mapNodeState EXCEPT ![p].fPreferHeaders = TRUE]
    /\ UNCHANGED <<mapBlockIndex, tip, ibd, nHighestFastAnnounce,
                   vBlockHashesToAnnounce, known, invd, unconnected>>

(***************************************************************************)
(* GETHEADERS with the locator of the peer's block loc (NoBlock: a null   *)
(* locator) and hashStop stop, ignored in initial download unless the     *)
(* peer is whitelisted.  A locator answers the active chain after its    *)
(* fork with it, up to MAX_HEADERS_RESULTS or stop; a null one answers    *)
(* the stop block alone, if it is in the index.  pindexBestHeaderSent is  *)
(* reset to the last header sent, or to the tip when the walk ran off the *)
(* end of the chain (which is the last header sent, or the peer's fork    *)
(* when nothing was sent).                                                 *)
(***************************************************************************)
GetHeadersReply(loc, stop) ==
    IF loc = NoBlock THEN <<stop>>
    ELSE LET fork == LastCommon(loc, tip)
             n0   == Min({Height[tip] - Height[fork], MAX_HEADERS_RESULTS})
             n    == IF stop # NoBlock /\ InActive(stop)
                        /\ Height[fork] < Height[stop] /\ Height[stop] <= Height[fork] + n0
                     THEN Height[stop] - Height[fork] ELSE n0
         IN [i \in 1..n |-> ActiveAt(Height[fork] + i)]

\* Seeded fault: pindexBestHeaderSent is always set to the tip.
GetHeaders_ResetToTip(p, loc, stop) ==
    /\ ~(ibd /\ p \notin Whitelisted)
    /\ loc = NoBlock => stop \in mapBlockIndex
    /\ LET hdrs == GetHeadersReply(loc, stop)
       IN /\ mapNodeState' = [mapNodeState EXCEPT ![p].pindexBestHeaderSent = tip]
          /\ known' = [known EXCEPT ![p] = KnownAfter(p, hdrs)]
    /\ UNCHANGED <<mapBlockIndex, tip, ibd, nHighestFastAnnounce,
                   vBlockHashesToAnnounce, invd, unconnected>>

GetHeaders(p, loc, stop) ==
    /\ ~(ibd /\ p \notin Whitelisted)
    /\ loc = NoBlock => stop \in mapBlockIndex
    /\ LET hdrs == GetHeadersReply(loc, stop)
       IN /\ mapNodeState' = [mapNodeState EXCEPT ![p].pindexBestHeaderSent =
                                 IF hdrs = <<>> THEN tip ELSE Last(hdrs)]
          /\ known' = [known EXCEPT ![p] = KnownAfter(p, hdrs)]
    /\ UNCHANGED <<mapBlockIndex, tip, ibd, nHighestFastAnnounce,
                   vBlockHashesToAnnounce, invd, unconnected>>

(***************************************************************************)
(* SendMessages' walk over vBlockHashesToAnnounce: skip the hashes the    *)
(* peer has, start the HEADERS at the first whose parent it has, and give *)
(* up (revert to an INV) at a hash off the active chain, a hash that does *)
(* not follow the previous one, or a first new hash whose parent the peer *)
(* lacks.  w is [revert, found, hdrs, best] (best: pBestIndex).            *)
(***************************************************************************)
RECURSIVE Walk(_, _, _, _)
Walk(ns, list, i, w) ==
    IF i > Len(list) THEN w
    ELSE LET b  == list[i]
             w1 == [w EXCEPT !.best = b]
         IN IF ~InActive(b) \/ (w.best # NoBlock /\ Parent[b] # w.best)
            THEN [w EXCEPT !.revert = TRUE]
            ELSE IF w.found
            THEN Walk(ns, list, i + 1, [w1 EXCEPT !.hdrs = Append(@, b)])
            ELSE IF PeerHasHeader(ns, b)
            THEN Walk(ns, list, i + 1, w1)
            ELSE IF Parent[b] = NoBlock \/ PeerHasHeader(ns, Parent[b])
            THEN Walk(ns, list, i + 1, [w1 EXCEPT !.found = TRUE, !.hdrs = Append(@, b)])
            ELSE [w EXCEPT !.revert = TRUE]

WalkStart(revert) == [revert |-> revert, found |-> FALSE, hdrs |-> <<>>, best |-> NoBlock]

\* Seeded fault: headers found for a peer that does not prefer them are
\* dropped instead of reverting to an INV.
RevertToInv_NoPreferCheck(ns, w) == w.revert

\* Whether SendMessages falls back to an INV of the last queued hash.
RevertToInv(ns, w) == w.revert \/ (w.hdrs # <<>> /\ ~ns.fPreferHeaders)

(***************************************************************************)
(* SendMessages, block announcement: revert to an INV at once if the peer *)
(* does not prefer headers and more than one hash is queued, or more than *)
(* MAX_BLOCKS_TO_ANNOUNCE are; otherwise walk the queue and push HEADERS  *)
(* to a peer that prefers them, recording pBestIndex as the best header   *)
(* sent.  On a revert, INV the last queued hash unless the peer has it;   *)
(* the block inventory is sent in the same call.  The queue is cleared.   *)
(* Runs while there is something to announce or an announcement to lift.  *)
(***************************************************************************)
SendMessages(p) ==
    LET list == vBlockHashesToAnnounce[p]
        ns   == ProcessBlockAvailability(mapNodeState[p], mapBlockIndex)
        w    == IF \/ ~ns.fPreferHeaders /\ Len(list) > 1
                   \/ Len(list) > MAX_BLOCKS_TO_ANNOUNCE
                THEN WalkStart(TRUE)
                ELSE Walk(ns, list, 1, WalkStart(FALSE))
        hdrs == IF ~w.revert /\ ns.fPreferHeaders THEN w.hdrs ELSE <<>>
        inv  == RevertToInv(ns, w) /\ list # <<>> /\ ~PeerHasHeader(ns, Last(list))
    IN /\ list # <<>> \/ ns # mapNodeState[p]
       /\ mapNodeState' = [mapNodeState EXCEPT ![p] =
                             IF hdrs # <<>> THEN [ns EXCEPT !.pindexBestHeaderSent = w.best]
                             ELSE ns]
       /\ known' = [known EXCEPT ![p] = KnownAfter(p, hdrs)]
       /\ unconnected' = IF hdrs # <<>> /\ ~Connects(p, hdrs)
                         THEN unconnected \cup {p} ELSE unconnected
       /\ invd' = IF inv THEN [invd EXCEPT ![p] = @ \cup {Last(list)}] ELSE invd
       /\ vBlockHashesToAnnounce' = [vBlockHashesToAnnounce EXCEPT ![p] = <<>>]
       /\ UNCHANGED <<mapBlockIndex, tip, ibd, nHighestFastAnnounce>>

Next ==
    \/ \E b \in Blocks : HeaderAccepted(b) \/ NewPoWValidBlock(b) \/ UpdatedBlockTip(b)
    \/ LeaveIBD
    \/ \E p \in Peers :
          \/ SendMessages(p)
          \/ SendHeadersMsg(p)
          \/ \E b \in Blocks : InvBlock(p, b) \/ HeadersMsg(p, b)
          \/ \E loc \in KnownTips(p) \cup {NoBlock}, stop \in Blocks \cup {NoBlock} :
                /\ loc = NoBlock => stop # NoBlock /\ Parent[stop] \in known[p] \cup {NoBlock}
                /\ GetHeaders(p, loc, stop)

Spec == Init /\ [][Next]_vars

\* The message handler calls SendMessages for every peer in its loop.
Fairness == \A p \in Peers : WF_vars(SendMessages(p))

FairSpec == Spec /\ Fairness
-----------------------------------------------------------------------------
TypeOK ==
    /\ mapBlockIndex \subseteq Blocks /\ tip \in mapBlockIndex
    /\ ibd \in BOOLEAN /\ nHighestFastAnnounce \in Nat
    /\ \A p \in Peers :
          /\ mapNodeState[p].pindexBestKnownBlock \in mapBlockIndex \cup {NoBlock}
          /\ mapNodeState[p].hashLastUnknownBlock \in Blocks \cup {NoBlock}
          /\ mapNodeState[p].pindexBestHeaderSent \in mapBlockIndex \cup {NoBlock}
          /\ vBlockHashesToAnnounce[p] \in Seq(mapBlockIndex)
    /\ unconnected \subseteq Peers

\* PeerHasHeader is sound: every header the node believes a peer has,
\* through the peer's own announcements (parked or not) or through the
\* headers sent to it by GETHEADERS, NewPoWValidBlock and SendMessages,
\* the peer really has.  The announcement logic relies on it to send only
\* headers that connect and to skip the INV of a tip the peer has.
PeerHasHeaderSound ==
    \A p \in Peers, b \in Blocks :
        PeerHasHeader(mapNodeState[p], b) => b \in known[p]

\* Spec section 7: a HEADERS announcement (NewPoWValidBlock or
\* SendMessages) always starts at a header whose parent the peer has.
AnnouncementsConnect == unconnected = {}

\* Every tip queued for announcement to a peer eventually reaches it, by
\* HEADERS or by an INV, unless the tip moves on first.
TipEventuallyAnnounced ==
    \A p \in Peers, t \in Blocks :
        (tip = t /\ t \in ToSet(vBlockHashesToAnnounce[p]))
            ~> (tip # t \/ t \in known[p] \/ t \in invd[p])
====
