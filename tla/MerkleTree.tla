----------------------------- MODULE MerkleTree -----------------------------
(***************************************************************************)
(* The trees: IncrementalMerkleTree.sol, which keeps one filled subtree    *)
(* per level, packages/crypto/src/merkle.ts, which recomputes everything   *)
(* from the padded leaves, and the sparse revocation tree of witness.ts.   *)
(* Poseidon is injective: a parent is the pair of its children.            *)
(***************************************************************************)
EXTENDS Integers, Sequences

Parent(left, right) == <<"node", left, right>>

PADDING == <<"padding">>    \* DOMAIN_PADDING_V1
ZERO == <<"zero">>          \* the empty leaf of the revocation tree
MARKER == <<"revoked">>

\* zeroHashes: the empty subtree of each height.
Zeros(empty, depth) ==
    LET z[d \in 0 .. depth] == IF d = 0 THEN empty ELSE Parent(z[d - 1], z[d - 1]) IN z

\* How many leaves there is room for.
Capacity(depth) ==
    LET p[d \in 0 .. depth] == IF d = 0 THEN 1 ELSE 2 * p[d - 1] IN p[depth]

\* Block and bit of an index, from the leaf upward: it is halved at each level.
Block(index, level) ==
    LET b[d \in 0 .. level] == IF d = 0 THEN index ELSE b[d - 1] \div 2 IN b[level]
IsRight(index, level) == Block(index, level) % 2 = 1

\* The node over the leaf at index, with its siblings, after each level.
Walk(leaf, index, siblings, depth) ==
    LET node[d \in 0 .. depth] ==
          IF d = 0 THEN leaf
          ELSE IF IsRight(index, d - 1) THEN Parent(siblings[d - 1], node[d - 1])
               ELSE Parent(node[d - 1], siblings[d - 1])
    IN node

-----------------------------------------------------------------------------
(* The contract.                                                           *)

EmptyTree(depth) ==
    [filled |-> [d \in 0 .. depth - 1 |-> Zeros(PADDING, depth)[d]], count |-> 0,
     root |-> Zeros(PADDING, depth)[depth]]

\* Faulty: a left child is paired with the subtree filled last, not the empty one.
InsertOverOld(tree, leaf, depth) ==
    LET node == Walk(leaf, tree.count, tree.filled, depth) IN
    [filled |-> [d \in 0 .. depth - 1 |-> IF IsRight(tree.count, d) THEN tree.filled[d]
                                          ELSE node[d]],
     count |-> tree.count + 1, root |-> node[depth]]

\* insert: a left child is cached and paired with the empty subtree, a right child
\* with the cached left one.
Insert(tree, leaf, depth) ==
    LET beside == [d \in 0 .. depth - 1 |-> IF IsRight(tree.count, d) THEN tree.filled[d]
                                            ELSE Zeros(PADDING, depth)[d]]
        node == Walk(leaf, tree.count, beside, depth)
    IN [filled |-> [d \in 0 .. depth - 1 |-> IF IsRight(tree.count, d) THEN tree.filled[d]
                                             ELSE node[d]],
        count |-> tree.count + 1, root |-> node[depth]]

-----------------------------------------------------------------------------
(* Off-chain.                                                              *)

\* The levels over the padded leaves, the leaves indexed from 0.
Levels(leaves, depth) ==
    LET level[d \in 0 .. depth] ==
          IF d = 0
          THEN [k \in 0 .. Capacity(depth) - 1 |->
                  IF k < Len(leaves) THEN leaves[k + 1] ELSE PADDING]
          ELSE [k \in 0 .. Capacity(depth - d) - 1 |->
                  Parent(level[d - 1][2 * k], level[d - 1][2 * k + 1])]
    IN level

RootFromLeaves(leaves, depth) == Levels(leaves, depth)[depth][0]

\* proof: the sibling at each level, of any index up to the capacity.
Siblings(leaves, index, depth) ==
    [d \in 0 .. depth - 1 |->
       Levels(leaves, depth)[d][IF IsRight(index, d) THEN Block(index, d) - 1
                                ELSE Block(index, d) + 1]]

VerifyProof(leaf, index, siblings, root, depth) ==
    Walk(leaf, index, siblings, depth)[depth] = root

-----------------------------------------------------------------------------
(* The revocation tree: sparse, keyed by credential id, zero for unrevoked;  *)
(* it holds one revoked credential, or none.                                 *)

RevokedPath(revoked, depth) == Walk(MARKER, revoked, Zeros(ZERO, depth), depth)

NoneRevoked == -1

RevocationTreeRoot(revoked, depth) ==
    IF revoked = NoneRevoked THEN Zeros(ZERO, depth)[depth]
    ELSE RevokedPath(revoked, depth)[depth]

\* Faulty: what the code once did, the first bit that differs decides the level.
FirstDifference(revoked, id, level) ==
    /\ IsRight(revoked, level) # IsRight(id, level)
    /\ \A l \in 0 .. level - 1 : IsRight(revoked, l) = IsRight(id, l)

\* The revoked leaf is under the sibling at a level when its block is that sibling.
UnderSibling(revoked, id, level) ==
    Block(revoked, level) = Block(id, level) + (IF IsRight(id, level) THEN -1 ELSE 1)

\* siblingsFor, and emptyRevocationTree when nothing is revoked.
SiblingsFor(revoked, id, depth) ==
    [d \in 0 .. depth - 1 |->
       IF revoked # NoneRevoked /\ UnderSibling(revoked, id, d)
       THEN RevokedPath(revoked, depth)[d] ELSE Zeros(ZERO, depth)[d]]

\* Clause of eligibility.circom: the leaf at the credential's id is zero.
NonRevocationProves(id, siblings, root, depth) ==
    Walk(ZERO, id, siblings, depth)[depth] = root

=============================================================================
