----------------------------- MODULE ForkChoice -----------------------------
(***************************************************************************)
(* The proto-array fork choice store's interface (forkchoice/protoarray/  *)
(* store.go): blocks inserted into a node array indexed by root, votes    *)
(* updated by attestations, and the ancestor walk. The array operations   *)
(* insert and computeDeltas live in files the repository does not have;  *)
(* their effect on the nodes and votes is written from their use here.   *)
(* Every method holds votesLock or nodesLock for its whole body, so each *)
(* call is one atomic step. Node indices are 0-based as in the code.      *)
(***************************************************************************)
EXTENDS Integers, Sequences, FiniteSets

CONSTANTS
  Blocks,           \* [root, parent, slot] records; one has a parent outside
  ZeroHash,         \* params.BeaconConfig().ZeroHash
  Validators,       \* validator indices, a set of naturals
  Epochs,           \* target epochs attestations may carry
  Slots,            \* slots AncestorRoot may be asked for
  NonExistentNode,  \* the parent index of a node whose parent is unknown
  MAX_ATTESTATIONS  \* bound on ProcessAttestation calls

BlockRoots == {b.root : b \in Blocks}

ASSUME /\ ZeroHash \notin BlockRoots
       /\ \A b \in Blocks : b.parent \in BlockRoots =>
            \E p \in Blocks : p.root = b.parent /\ p.slot < b.slot
       /\ NonExistentNode >= Cardinality(Blocks)

VARIABLES
  nodes,        \* Seq of [root, slot, parent index]
  nodesIndices, \* root -> index in nodes
  votes,        \* Seq of [currentRoot, nextRoot, nextEpoch]; entry i+1 is validator i
  received,     \* history: <<validator, root, target epoch>> of every attestation
  attestations  \* ProcessAttestation calls so far

fcvars == <<nodes, nodesIndices, votes, received, attestations>>

Node(i) == nodes[i + 1]

ZeroVote == [currentRoot |-> ZeroHash, nextRoot |-> ZeroHash, nextEpoch |-> 0]

-----------------------------------------------------------------------------
(* A mutant of AncestorRoot: the walk also leaves a node at the slot asked. *)
AncestorRootAtOrAbove(root, slot) ==
  LET RECURSIVE Walk(_)
      Walk(i) == IF Node(i).slot >= slot
                 THEN IF Node(i).parent >= Len(nodes) THEN "error"
                      ELSE Walk(Node(i).parent)
                 ELSE Node(i).root
  IN  IF root \notin DOMAIN nodesIndices THEN "error"
      ELSE IF nodesIndices[root] >= Len(nodes) THEN "error"
      ELSE Walk(nodesIndices[root])

(* AncestorRoot: look the root up, then follow parent indices while the *)
(* node is above the slot; an index past the array is an error.           *)
AncestorRoot(root, slot) ==
  LET RECURSIVE Walk(_)
      Walk(i) == IF Node(i).slot > slot
                 THEN IF Node(i).parent >= Len(nodes) THEN "error"
                      ELSE Walk(Node(i).parent)
                 ELSE Node(i).root
  IN  IF root \notin DOMAIN nodesIndices THEN "error"
      ELSE IF nodesIndices[root] >= Len(nodes) THEN "error"
      ELSE Walk(nodesIndices[root])

HasNode(root) == root \in DOMAIN nodesIndices

(* HasParent: false for an unknown root or a node whose parent is unknown. *)
HasParent(root) ==
  /\ HasNode(root)
  /\ nodesIndices[root] < Len(nodes)
  /\ Node(nodesIndices[root]).parent # NonExistentNode

(* A mutant of VoteUpdate: a newly allocated vote is not recognised, so   *)
(* only a strictly higher target epoch than 0 is recorded.               *)
VoteUpdateNoNewVote(vote, root, target) ==
  IF target > vote.nextEpoch
  THEN [vote EXCEPT !.nextEpoch = target, !.nextRoot = root] ELSE vote

(* The body of ProcessAttestation's loop for one validator's vote. *)
VoteUpdate(vote, root, target) ==
  LET newVote == vote.nextRoot = ZeroHash /\ vote.currentRoot = ZeroHash IN
  IF newVote \/ target > vote.nextEpoch
  THEN [vote EXCEPT !.nextEpoch = target, !.nextRoot = root] ELSE vote

(* The vote cache grown until it has an entry for every index given. *)
Grown(vs, indices) ==
  LET n == IF \E i \in indices : i + 1 > Len(vs)
           THEN CHOOSE m \in {i + 1 : i \in indices} :
                  \A i \in indices : i + 1 <= m
           ELSE Len(vs)
  IN  [j \in 1..n |-> IF j <= Len(vs) THEN vs[j] ELSE ZeroVote]

-----------------------------------------------------------------------------
Init ==
  /\ nodes = <<>>
  /\ nodesIndices = [r \in {} |-> 0]
  /\ votes = <<>>
  /\ received = {}
  /\ attestations = 0

(* A mutant of ProcessBlock: the new node's own index is taken as its   *)
(* parent's.                                                               *)
ProcessBlockOwnIndex(b) ==
  /\ ~HasNode(b.root)
  /\ HasNode(b.parent) \/ nodes = <<>>
  /\ nodes' = Append(nodes, [root |-> b.root, slot |-> b.slot,
                             parent |-> IF HasNode(b.parent)
                                        THEN Len(nodes)
                                        ELSE NonExistentNode])
  /\ nodesIndices' = [r \in DOMAIN nodesIndices \cup {b.root} |->
                        IF r = b.root THEN Len(nodes) ELSE nodesIndices[r]]
  /\ UNCHANGED <<votes, received, attestations>>

(* ProcessBlock (store.insert): a block not yet in the store is appended *)
(* with its parent's index, or NonExistentNode when the parent is        *)
(* unknown. The blockchain service inserts a block after its parent, the *)
(* first block (the finalized checkpoint) excepted.                        *)
ProcessBlock(b) ==
  /\ ~HasNode(b.root)
  /\ HasNode(b.parent) \/ nodes = <<>>
  /\ nodes' = Append(nodes, [root |-> b.root, slot |-> b.slot,
                             parent |-> IF HasNode(b.parent)
                                        THEN nodesIndices[b.parent]
                                        ELSE NonExistentNode])
  /\ nodesIndices' = [r \in DOMAIN nodesIndices \cup {b.root} |->
                        IF r = b.root THEN Len(nodes) ELSE nodesIndices[r]]
  /\ UNCHANGED <<votes, received, attestations>>

(* ProcessAttestation, under votesLock: grow the cache, then update the  *)
(* vote of every attesting index.                                          *)
ProcessAttestation(indices, root, target) ==
  /\ attestations < MAX_ATTESTATIONS
  /\ attestations' = attestations + 1
  /\ LET vs == Grown(votes, indices) IN
     votes' = [j \in DOMAIN vs |->
                 IF j - 1 \in indices THEN VoteUpdate(vs[j], root, target)
                 ELSE vs[j]]
  /\ received' = received \cup {<<i, root, target>> : i \in indices}
  /\ UNCHANGED <<nodes, nodesIndices>>

(* ForkChoice.Head, under votesLock and nodesLock: computeDeltas moves every vote's *)
(* next root into its current root (the weights it computes and the head *)
(* it returns are not modelled).                                           *)
ComputeHead ==
  /\ votes' = [j \in DOMAIN votes |-> [votes[j] EXCEPT !.currentRoot = votes[j].nextRoot]]
  /\ UNCHANGED <<nodes, nodesIndices, received, attestations>>

Next ==
  \/ \E b \in Blocks : ProcessBlock(b)
  \/ \E indices \in SUBSET Validators \ {{}}, root \in BlockRoots, t \in Epochs :
       ProcessAttestation(indices, root, t)
  \/ ComputeHead

Spec == Init /\ [][Next]_fcvars

-----------------------------------------------------------------------------
TypeOK ==
  /\ nodes \in Seq([root : BlockRoots, slot : Nat, parent : Nat])
  /\ \A i \in 1..Len(nodes) : nodes[i].parent \in (0..i - 2) \cup {NonExistentNode}
  /\ votes \in Seq([currentRoot : BlockRoots \cup {ZeroHash},
                    nextRoot : BlockRoots \cup {ZeroHash}, nextEpoch : Epochs])
  /\ attestations \in 0..MAX_ATTESTATIONS

(* The reference ancestor: the stored block on root's parent chain with  *)
(* the greatest slot not above the one asked, or an error when root is   *)
(* unknown or its stored chain has no block that low.                     *)
StoredBlock(r) == CHOOSE b \in Blocks : b.root = r

StoredChain(r) ==
  LET C[n \in 0..Cardinality(Blocks)] ==
        IF n = 0 THEN {r}
        ELSE C[n - 1] \cup {StoredBlock(x).parent : x \in C[n - 1] \cap BlockRoots}
  IN  {x \in C[Cardinality(Blocks)] : HasNode(x)}

AncestorRef(root, slot) ==
  LET low == {x \in StoredChain(root) : StoredBlock(x).slot <= slot} IN
  IF ~HasNode(root) \/ low = {} THEN "error"
  ELSE CHOOSE x \in low : \A y \in low : StoredBlock(y).slot <= StoredBlock(x).slot

(* AncestorRoot, which the sync and gossip checks use to decide whether a *)
(* block descends from the finalized checkpoint, returns the reference   *)
(* ancestor for every root and slot in every store the inserts can build. *)
AncestorRootCorrect ==
  \A r \in BlockRoots \cup {ZeroHash}, s \in Slots :
    AncestorRoot(r, s) = AncestorRef(r, s)

(* Latest message: each validator that has attested holds a vote for the *)
(* greatest target epoch it attested to, with a root it attested to at   *)
(* that epoch, whatever the order of attestations, Head calls and the    *)
(* growth of the vote cache; a validator that never attested holds none. *)
LatestVote ==
  \A i \in Validators :
    LET mine == {a \in received : a[1] = i}
        vote == IF i < Len(votes) THEN votes[i + 1] ELSE ZeroVote
    IN  IF mine = {} THEN vote.nextRoot = ZeroHash
        ELSE /\ <<i, vote.nextRoot, vote.nextEpoch>> \in mine
             /\ \A a \in mine : a[3] <= vote.nextEpoch
=============================================================================
