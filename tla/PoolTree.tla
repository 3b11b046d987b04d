------------------------------ MODULE PoolTree ------------------------------
(***************************************************************************)
(* The pool together with the tree it keeps. OlioPool names a root by the  *)
(* number of leaves under it; here every deposit also does what insert     *)
(* does with the hashes.                                                   *)
(***************************************************************************)
EXTENDS OlioPool, MerkleTree

CONSTANT FieldOf(_)   \* a commitment, as an element of the field

ASSUME FieldAssumption ==
  \A commitment \in [owner : Owners, amount : Amounts] : FieldOf(commitment) \in Field

VARIABLES
  filled,       \* DataKey::Filled
  rootHashes    \* DataKey::Roots

treeVars == <<filled, rootHashes>>

\* The hashes of the leaves, and of the first n of them.
Elements(commitments) == [i \in 1..Len(commitments) |-> FieldOf(commitments[i])]
FirstElements(n) == Elements(SubSeq(leaves, 1, n))

TreeInit ==
  /\ Init
  /\ filled = EmptyTree(Depth).filled
  /\ rootHashes = <<EmptyTree(Depth).root>>

\* insert, within deposit.
InsertLeaf ==
  LET inserted == Insert(filled, Len(leaves), FieldOf(leaves'[Len(leaves')]), Depth)
  IN /\ filled' = inserted.filled
     /\ rootHashes' = PushRoot(rootHashes, inserted.root)

TreeNext ==
  /\ Next
  /\ IF leaves' = leaves THEN UNCHANGED treeVars ELSE InsertLeaf

TreeSpec == TreeInit /\ [][TreeNext]_<<vars, treeVars>>
-----------------------------------------------------------------------------
\* The hashes the pool keeps are the roots of the trees it names, padded with
\* empty leaves, and the indexer gets the same ones from the same leaves.
RootsAreTheTrees ==
  /\ Len(rootHashes) = Len(roots)
  /\ \A j \in DOMAIN roots :
       /\ rootHashes[j] = Root(FirstElements(roots[j]), Depth)
       /\ rootHashes[j] = AdvancePoolRoots(FirstElements(roots[j]), Depth).root

\* Whoever has the leaves can prove each of them to the circuit: the path the
\* browser computes leads to the root in force, and its digits to the index
\* that the leaf's nullifier is made of.
PathsLeadToTheRoot ==
  \A i \in DOMAIN leaves :
    LET path == MerkleProof(Elements(leaves), i - 1, Depth)
    IN /\ path.root = rootHashes[Len(rootHashes)]
       /\ FoldPath(FieldOf(leaves[i]), path, Depth) = path.root
       /\ PathIndex(path, Depth) = i - 1
=============================================================================
