---------------------------- MODULE MCOrphanPool ----------------------------
(***************************************************************************)
(* Model-checking instances of OrphanPool.  Transactions are integers and *)
(* their numeric order is the hash order.                                  *)
(***************************************************************************)
EXTENDS OrphanPool, TLC

CONSTANTS p1, p2

MCPeers == {p1, p2}
MCTxs == 1..4

\* 2 spends 1 (which has two outputs); 4 spends 2 and 3.  When 1 arrives,
\* orphan 2 is accepted and then found again through 1's second output.
MCParentsChild == (1 :> {}) @@ (2 :> {1}) @@ (3 :> {}) @@ (4 :> {2, 3})
MCNOutChild == (1 :> 2) @@ (2 :> 1) @@ (3 :> 1) @@ (4 :> 1)
MCNOutOne == [t \in MCTxs |-> 1]

MCDoS == (1 :> 0) @@ (2 :> 0) @@ (3 :> 100) @@ (4 :> 0)

\* Five transactions: 2 and 3 both spend 1 (two outputs); 2 is invalid
\* (DoS 100), so when 1 arrives an orphan 2 gets its peer punished and the
\* peer's orphan 3 is skipped; 4 spends 3 and 5 spends 2 and is large.
MCTxs5 == 1..5
MCParents5 == (1 :> {}) @@ (2 :> {1}) @@ (3 :> {1}) @@ (4 :> {3}) @@ (5 :> {2})
MCNOut5 == (1 :> 2) @@ (2 :> 1) @@ (3 :> 1) @@ (4 :> 1) @@ (5 :> 1)
MCDoS5 == [t \in MCTxs5 |-> IF t = 2 THEN 100 ELSE 0]

Symmetry == Permutations(MCPeers)
=============================================================================
