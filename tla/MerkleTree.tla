----------------------------- MODULE MerkleTree -----------------------------
(***************************************************************************)
(* core/src/merkle.rs: the Merkle root of a batch of events, the proof     *)
(* that an event is in the batch, and the verification of such a proof.    *)
(*                                                                         *)
(* SHA-256 of two concatenated hashes, each of 64 characters, is a pair:   *)
(* equal only for equal children in the same order.  Leaves are content    *)
(* hashes.  The loops of the code go from one level of the tree to the     *)
(* next; here levels are a recursive function, and iteration h is level h. *)
(***************************************************************************)
EXTENDS Naturals, Sequences, SequencesExt

CONSTANTS
  ContentHashes,   \* of events: the leaves
  EmptyHash,       \* hash_content(b"")
  MaxLeaves        \* bound: events in a batch

ASSUME MerkleConstantsOK == EmptyHash \notin ContentHashes /\ MaxLeaves \in Nat

VARIABLE leaves   \* all_content_hashes of the batch at hand
-----------------------------------------------------------------------------
Hash(l, r) == <<l, r>>

(* Variant for mutation runs: a node without a sibling is left out. *)
Padded_Truncates(s) == IF Len(s) % 2 = 1 THEN Front(s) ELSE s

(* The last node of an odd level is its own sibling. *)
Padded(s) == IF Len(s) % 2 = 1 THEN Append(s, Last(s)) ELSE s

NextLevel(s) ==
  LET p == Padded(s)
  IN  [i \in 1 .. Len(p) \div 2 |-> Hash(p[2 * i - 1], p[2 * i])]

Levels(s) ==
  LET level[h \in 0 .. Len(s)] == IF h = 0 THEN s ELSE NextLevel(level[h - 1])
  IN  level

(* The loops end at the first level that has no more than one node. *)
Height(s) ==
  CHOOSE h \in 0 .. Len(s) :
    /\ Len(Levels(s)[h]) <= 1
    /\ \A g \in 0 .. h - 1 : Len(Levels(s)[g]) > 1

compute_merkle_root(s) ==
  IF s = <<>> THEN EmptyHash ELSE Levels(s)[Height(s)][1]

(* Variant for mutation runs: the sibling is always the right neighbour. *)
Sibling_Right(s, i) == Padded(s)[IF i + 2 <= Len(Padded(s)) THEN i + 2 ELSE i + 1]

(* The other node of the pair that holds node i, which counts from 0. *)
Sibling(s, i) == Padded(s)[IF i % 2 = 0 THEN i + 2 ELSE i]

(* current_index, level by level. *)
Positions(s, index) ==
  LET position[h \in 0 .. Len(s)] ==
        IF h = 0 THEN index ELSE position[h - 1] \div 2
  IN  position

generate_merkle_proof(s, index) ==
  [h \in 1 .. Height(s) |->
     Sibling(Levels(s)[h - 1], Positions(s, index)[h - 1])]

(* One turn of the loop of verify_merkle_proof.  It also keeps the size of *)
(* the level, total_leaves at first, but nothing depends on that.          *)
VerifyStep(node, sibling) ==
  [hash  |-> IF node.index % 2 = 0 THEN Hash(node.hash, sibling)
             ELSE Hash(sibling, node.hash),
   index |-> node.index \div 2]

verify_merkle_proof(leaf, proof, root, leaf_index) ==
  LET start == [hash |-> leaf, index |-> leaf_index]
  IN  FoldLeft(VerifyStep, start, proof).hash = root
-----------------------------------------------------------------------------
NoEvents == leaves = <<>>

(* process_blockchain_index takes one more event into the batch. *)
Push(h) ==
  /\ Len(leaves) < MaxLeaves
  /\ leaves' = Append(leaves, h)

Collect == \E h \in ContentHashes : Push(h)

BatchSpec == NoEvents /\ [][Collect]_leaves
-----------------------------------------------------------------------------
Root == compute_merkle_root(leaves)
Indices == 0 .. Len(leaves) - 1

(* The leaves below a node of height h, in a tree that is full: 2^h.       *)
Sizes(n) ==
  LET size[h \in 0 .. n] == IF h = 0 THEN 1 ELSE 2 * size[h - 1]
  IN  size

(* The textbook tree, from its root down: node k of height h has the       *)
(* children 2k and 2k + 1 below it, or 2k twice if 2k + 1 has no leaf      *)
(* because the first one below it, (2k + 1) 2^(h - 1), is past the batch.  *)
Node(s, h, k) ==
  LET n == Len(s)
      nodes[g \in 0 .. h] ==
        IF g = 0 THEN [i \in Nat |-> s[i + 1]]
        ELSE [i \in Nat |->
                LET right == IF (2 * i + 1) * Sizes(n)[g - 1] < n
                               THEN 2 * i + 1 ELSE 2 * i
                IN  Hash(nodes[g - 1][2 * i], nodes[g - 1][right])]
  IN  nodes[h][k]

Depth(n) ==
  CHOOSE d \in 0 .. n :
    Sizes(n)[d] >= n /\ \A e \in 0 .. d - 1 : Sizes(n)[e] < n

(* The root that is computed level by level is the root of the textbook    *)
(* tree, at every length, odd levels in the middle of the tree included.   *)
RootOfTree ==
  leaves # <<>> => Root = Node(leaves, Depth(Len(leaves)), 0)

(* Every proof that generate_merkle_proof returns is accepted: generation  *)
(* and verification take the same side of each pair and pad odd levels in  *)
(* the same way.                                                           *)
ProofsVerify ==
  \A i \in Indices :
    verify_merkle_proof(leaves[i + 1], generate_merkle_proof(leaves, i),
                        Root, i)

Nodes == UNION {ToSet(Levels(leaves)[h]) : h \in 0 .. Height(leaves)}

(* Only the event at a position has a proof for it: no proof that is made  *)
(* of hashes of the tree, of any length, is accepted for another event.    *)
OnlyLeavesVerify ==
  \A i \in Indices, h \in ContentHashes, d \in 0 .. Height(leaves) :
    h # leaves[i + 1] =>
      \A proof \in [1 .. d -> Nodes] :
        ~verify_merkle_proof(h, proof, Root, i)

(* Membership in a batch is what can be proved: generate_merkle_proof and  *)
(* verify_merkle_proof agree, and nothing else passes.                     *)
ProofsExact == ProofsVerify /\ OnlyLeavesVerify

Batches == UNION {[1 .. n -> ContentHashes] : n \in 1 .. MaxLeaves}
RootOf == [s \in Batches |-> compute_merkle_root(s)]

(* Two batches have the same root only when padding makes them alike: they *)
(* have trees of the same height, the longer one begins with the shorter,  *)
(* and brings no hash of its own.  The registry takes a root only once     *)
(* (TimestampRegistry.sol:28): the second such batch cannot be committed.  *)
RootTellsBatch ==
  \A s \in Batches :
    Len(s) <= Len(leaves) /\ RootOf[s] = Root =>
      /\ Height(s) = Height(leaves)
      /\ IsPrefix(s, leaves)
      /\ ToSet(s) = ToSet(leaves)
=============================================================================
