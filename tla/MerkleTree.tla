----------------------------- MODULE MerkleTree -----------------------------
(***************************************************************************)
(* The pool's incremental Merkle tree, in the four places that compute it: *)
(* insert of the contract (lib.rs), insertLeaf and advancePoolRoots of the *)
(* indexer (deposits.roots.ts), merkleProof of the browser (crypto.ts) and *)
(* the path of the circuits (withdraw.circom). Poseidon is any function of *)
(* two field elements.                                                     *)
(***************************************************************************)
EXTENDS Integers, Sequences, Shifts

CONSTANTS
  Field,       \* the scalar field, of which 0 is the empty leaf
  Hash(_, _)   \* hash_pair

ASSUME HashAssumption ==
  /\ 0 \in Field
  /\ \A left, right \in Field : Hash(left, right) \in Field

\* zeros: the roots of the empty trees.
Zeros == LET z[l \in Nat] == IF l = 0 THEN 0 ELSE Hash(z[l - 1], z[l - 1]) IN z

IsLeft(i) == i % 2 = 0

\* What is meant: every node is the hash of the two below it, and the leaves
\* that are not there are 0.
LeafAt(leaves, i) == IF i < Len(leaves) THEN leaves[i + 1] ELSE 0
Tree(leaves) ==
  LET node[l \in Nat] ==
        [i \in Nat |-> IF l = 0 THEN LeafAt(leaves, i)
                       ELSE Hash(node[l - 1][2 * i], node[l - 1][2 * i + 1])]
  IN node
Root(leaves, depth) == Tree(leaves)[depth][0]
-----------------------------------------------------------------------------
\* insert and insertLeaf: from the n-th leaf up, beside an empty tree on the
\* right or the last full one on the left, which is kept at its level.
Climb(filled, n, leaf, depth) ==
  LET node[l \in 0..depth] ==
        IF l = 0 THEN leaf
        ELSE IF IsLeft(ShiftRight(n)[l - 1]) THEN Hash(node[l - 1], Zeros[l - 1])
                                             ELSE Hash(filled[l - 1], node[l - 1])
  IN node
InsertKeepingParents(filled, n, leaf, depth) ==
  LET node == Climb(filled, n, leaf, depth)
  IN [root |-> node[depth],
      filled |-> [l \in 0..(depth - 1) |->
                    IF IsLeft(ShiftRight(n)[l]) THEN node[l + 1] ELSE filled[l]]]
Insert(filled, n, leaf, depth) ==
  LET node == Climb(filled, n, leaf, depth)
  IN [root |-> node[depth],
      filled |-> [l \in 0..(depth - 1) |->
                    IF IsLeft(ShiftRight(n)[l]) THEN node[l] ELSE filled[l]]]

\* Before the first leaf.
EmptyTree(depth) ==
  [root |-> Zeros[depth], filled |-> [l \in 0..(depth - 1) |-> Zeros[l]]]

\* advancePoolRoots: one insertion for each leaf the mirror has.
AdvancePoolRoots(leaves, depth) ==
  LET tree[n \in 0..Len(leaves)] ==
        IF n = 0 THEN EmptyTree(depth)
        ELSE LET before == tree[n - 1] IN Insert(before.filled, n - 1, leaves[n], depth)
  IN tree[Len(leaves)]
-----------------------------------------------------------------------------
\* merkleProof: the nodes, of which one with no leaf under it is not computed.
ClientTree(leaves) ==
  LET node[l \in Nat] ==
        [i \in Nat |->
           IF l = 0 THEN LeafAt(leaves, i)
           ELSE IF ShiftLeft(i)[l] > Len(leaves) - 1 THEN Zeros[l]
           ELSE Hash(node[l - 1][2 * i], node[l - 1][2 * i + 1])]
  IN node

\* The path of a leaf: the node beside each node on its way, and on which side.
BesideOnTheRight(i) == i + 1
Beside(i) == IF IsLeft(i) THEN i + 1 ELSE i - 1
MerkleProof(leaves, index, depth) ==
  [root |-> ClientTree(leaves)[depth][0],
   elements |-> [l \in 0..(depth - 1) |-> ClientTree(leaves)[l][Beside(ShiftRight(index)[l])]],
   indices |-> [l \in 0..(depth - 1) |-> ShiftRight(index)[l] % 2]]

\* The circuits' MerkleProof: the root a leaf and a path lead to.
FoldPath(leaf, path, depth) ==
  LET cur[l \in 0..depth] ==
        IF l = 0 THEN leaf
        ELSE IF path.indices[l - 1] = 0 THEN Hash(cur[l - 1], path.elements[l - 1])
                                        ELSE Hash(path.elements[l - 1], cur[l - 1])
  IN cur[depth]

\* The circuits' Bits2Num, from the highest digit down: the leaf's index, which
\* the nullifier is made of.
PathIndex(path, depth) ==
  LET number[k \in 0..depth] ==
        IF k = 0 THEN 0 ELSE 2 * number[k - 1] + path.indices[depth - k]
  IN number[depth]
=============================================================================
