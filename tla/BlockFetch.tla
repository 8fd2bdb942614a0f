---------------------------- MODULE BlockFetch ----------------------------
(***************************************************************************)
(* What the block download scheduler of messages.cpp promises, stated     *)
(* without queues, counters, windows or clocks: a set of live peers, the  *)
(* peer each requested block is owed by, and the blocks stored.           *)
(*                                                                         *)
(*  - a block is requested from one live peer at a time, and only while   *)
(*    it is neither stored nor already owed by someone;                    *)
(*  - a block that arrives (from anyone) is no longer owed, and may be    *)
(*    stored;                                                              *)
(*  - a peer that leaves takes its requests with it.                       *)
(*                                                                         *)
(* BlockDownload implements this module under the mapping                 *)
(* owner <- mapBlocksInFlight, stored <- haveData and live <- the peers   *)
(* whose status is "connected".                                           *)
(***************************************************************************)
EXTENDS FiniteSets

CONSTANTS Peers, Blocks

VARIABLES
    live,    \* peers whose connection is open
    owner,   \* partial function: requested block -> the peer it is owed by
    stored   \* blocks whose data we have

avars == <<live, owner, stored>>

Init ==
    /\ live = {}
    /\ owner = [h \in {} |-> CHOOSE p \in Peers : TRUE]
    /\ stored = {}

\* A connection opens.
Join(p) ==
    /\ p \notin live
    /\ live' = live \cup {p}
    /\ UNCHANGED <<owner, stored>>

\* A connection closes; every block owed by the peer is owed by no one.
Leave(p) ==
    /\ p \in live
    /\ live' = live \ {p}
    /\ owner' = [h \in {k \in DOMAIN owner : owner[k] # p} |-> owner[h]]
    /\ UNCHANGED stored

\* Blocks H, none stored or owed, are requested from the live peer p.
Request(p, H) ==
    /\ p \in live
    /\ H # {}
    /\ H \cap (stored \cup DOMAIN owner) = {}
    /\ owner' = [h \in DOMAIN owner \cup H |-> IF h \in H THEN p ELSE owner[h]]
    /\ UNCHANGED <<live, stored>>

\* Block h arrives: whoever it was owed by, it is owed no more; it is
\* stored or (if refused) not.
Deliver(h) ==
    /\ owner' = [k \in DOMAIN owner \ {h} |-> owner[k]]
    /\ \E keep \in BOOLEAN :
          stored' = IF keep THEN stored \cup {h} ELSE stored
    /\ UNCHANGED live

Next ==
    \/ \E p \in Peers : Join(p) \/ Leave(p)
    \/ \E p \in Peers, H \in SUBSET Blocks : Request(p, H)
    \/ \E h \in Blocks : Deliver(h)

Spec == Init /\ [][Next]_avars

=============================================================================
