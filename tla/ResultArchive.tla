--------------------------- MODULE ResultArchive ----------------------------
(***************************************************************************)
(* What the distributed run promises about its evidence, with no nodes,    *)
(* leases, uploads or crashes in sight: each candidate of each batch gets  *)
(* at most one result, a result never changes, and a batch is accepted     *)
(* once, when all its results are in, under the manifest that names        *)
(* exactly the nodes that produced them.                                   *)
(***************************************************************************)
CONSTANTS Batches, Candidates, Nodes, NoNode, NoManifest

VARIABLES
    results,   \* results[b][c]: the node whose result is archived, or NoNode
    accepted   \* accepted[b]: the manifest b was accepted under, or NoManifest

ProducersOf(row) == {row[c] : c \in Candidates}

ArchiveInit ==
    /\ results = [b \in Batches |-> [c \in Candidates |-> NoNode]]
    /\ accepted = [b \in Batches |-> NoManifest]

Publish(b, c, n) ==
    /\ results[b][c] = NoNode
    /\ results' = [results EXCEPT ![b][c] = n]
    /\ UNCHANGED accepted

Accept(b) ==
    /\ accepted[b] = NoManifest
    /\ NoNode \notin ProducersOf(results[b])
    /\ accepted' = [accepted EXCEPT ![b] = ProducersOf(results[b])]
    /\ UNCHANGED results

ArchiveNext ==
    \/ \E b \in Batches, c \in Candidates, n \in Nodes : Publish(b, c, n)
    \/ \E b \in Batches : Accept(b)

ArchiveSpec == ArchiveInit /\ [][ArchiveNext]_<<results, accepted>>
=============================================================================
