-------------------------- MODULE OpeningDeskProofs --------------------------
(***************************************************************************)
(* Theorems of OpeningDesk, for trees of every depth, every number of      *)
(* bids, every committee and threshold, and every prime.                   *)
(*                                                                         *)
(* What the trees compute is recursive, and the library's induction        *)
(* theorems take an operator as a parameter.  So an induction here is by   *)
(* the least counterexample, which is a set: a set of numbers that is not  *)
(* empty has a least member (WFMin, of the order of the naturals), and     *)
(* Climb follows.                                                          *)
(*                                                                         *)
(* The contract keeps one cached node per level.  TreeMatches says which   *)
(* node of the full recomputation each is: the left neighbour of the block *)
(* the next leaf goes to, where that block is a right one.  An insertion   *)
(* changes only what is above its leaf, and keeps it so.  A root has one   *)
(* sequence of leaves, so a witness whose root is the chain's is of all    *)
(* the bids.  In the revocation tree a walk from another leaf meets the    *)
(* revoked leaf's path where their blocks meet.                            *)
(*                                                                         *)
(* Shares combine by Lagrange's argument, from the laws of arithmetic      *)
(* modulo a prime.  One member more multiplies the other coefficients by   *)
(* a / (a - i), which relates the weighted sums of values and of values    *)
(* times their member; so by induction on the members the weighted powers  *)
(* sum to 1 for the power 0 and to 0 for those below the number of         *)
(* members, and only the constant coefficient, the secret, is left.  In    *)
(* the exponent it is the same for the logarithms of what was filed; what  *)
(* the points have of small order is theirs, and none if none has any.     *)
(***************************************************************************)
EXTENDS OpeningDesk, FiniteSetTheorems, SequenceTheorems, TLAPS

-----------------------------------------------------------------------------
(* Numbers.                                                                *)

\* A set of numbers that is not empty has a least: what every induction below is by.
LEMMA LeastMember ==
    ASSUME NEW S \in SUBSET Nat, S # {} PROVE \E m \in S : \A n \in S : m <= n
<1> DEFINE Below == OpToRel(<, Nat)
<1>1. IsWellFoundedOn(Below, Nat)
  BY NatLessThanWellFounded, Zenon
<1>2. \A x, y \in Nat : x < y => <<x, y>> \in Below
  BY Zenon DEF OpToRel
<1> HIDE DEF Below
<1>3. PICK m \in S : \A n \in S : <<n, m>> \notin Below
  BY <1>1, WFMin
<1>4. \A n \in S : m \in Nat /\ n \in Nat /\ ~(n < m)
  BY <1>2, <1>3
<1> QED
  BY <1>4

\* A set of numbers with zero and, after each of its members, the next up to some
\* bound, has all numbers up to that bound.
LEMMA Climb ==
    ASSUME NEW bound \in Nat, NEW Good, 0 \in Good,
           \A n \in 0 .. bound - 1 : n \in Good => n + 1 \in Good
    PROVE  0 .. bound \subseteq Good
<1> SUFFICES ASSUME (0 .. bound) \ Good # {} PROVE FALSE
  OBVIOUS
<1>1. PICK m \in (0 .. bound) \ Good : \A n \in (0 .. bound) \ Good : m <= n
  <2>1. (0 .. bound) \ Good \in SUBSET Nat
    OBVIOUS
  <2> QED
    BY <2>1, LeastMember
<1>2. m - 1 \in 0 .. bound - 1 /\ m - 1 \in Good
  BY <1>1
<1> QED
  BY <1>1, <1>2

\* Room doubles with each level.
LEMMA CapacityIs ==
    /\ Capacity(0) = 1
    /\ \A n \in Nat : /\ Capacity(n) \in Nat /\ Capacity(n) > 0
                      /\ Capacity(n + 1) = 2 * Capacity(n)
<1> DEFINE P(n, g) == g = [k \in 0 .. n |-> IF k = 0 THEN 1 ELSE 2 * g[k - 1]]
<1>1. ASSUME NEW bound \in Nat PROVE \E g : P(bound, g)
  <2> DEFINE Good == {n \in Nat : \E g : P(n, g)}
  <2>1. 0 \in Good
    <3>1. P(0, [k \in 0 .. 0 |-> 1])
      OBVIOUS
    <3> QED
      BY <3>1
  <2>2. ASSUME NEW n \in 0 .. bound - 1, n \in Good PROVE n + 1 \in Good
    <3>1. PICK g : P(n, g)
      BY <2>2
    <3>2. P(n + 1, [k \in 0 .. n + 1 |-> IF k = n + 1 THEN 2 * g[n] ELSE g[k]])
      BY <3>1
    <3> HIDE DEF P
    <3> QED
      BY <2>2, <3>2
  <2> HIDE DEF Good
  <2>3. bound \in Good
    BY <2>1, <2>2, Climb
  <2> QED
    BY <2>3 DEF Good
<1>2. ASSUME NEW n \in Nat, NEW g, NEW h, P(n, g), P(n + 1, h)
      PROVE  \A k \in 0 .. n : g[k] = h[k] /\ g[k] \in Nat /\ g[k] > 0
  <2> DEFINE Good == {k \in 0 .. n : g[k] = h[k] /\ g[k] \in Nat /\ g[k] > 0}
  <2>1. 0 \in Good
    BY <1>2
  <2>2. ASSUME NEW k \in 0 .. n - 1, k \in Good PROVE k + 1 \in Good
    BY <1>2, <2>2
  <2> HIDE DEF Good
  <2>3. 0 .. n \subseteq Good
    BY <2>1, <2>2, Climb
  <2> QED
    BY <2>3 DEF Good
<1>3. \A n \in Nat : \E g : P(n, g) /\ Capacity(n) = g[n]
  BY <1>1 DEF Capacity
<1>4. Capacity(0) = 1
  BY <1>3
<1>5. ASSUME NEW n \in Nat
      PROVE  Capacity(n) \in Nat /\ Capacity(n) > 0 /\ Capacity(n + 1) = 2 * Capacity(n)
  <2>1. PICK g : P(n, g) /\ Capacity(n) = g[n]
    BY <1>3
  <2>2. PICK h : P(n + 1, h) /\ Capacity(n + 1) = h[n + 1]
    <3>1. n + 1 \in Nat
      OBVIOUS
    <3> HIDE DEF P
    <3> QED
      BY <1>3, <3>1
  <2>3. g[n] = h[n] /\ g[n] \in Nat /\ g[n] > 0
    <3> HIDE DEF P
    <3>1. n \in 0 .. n
      OBVIOUS
    <3> QED
      BY <1>2, <2>1, <2>2, <3>1
  <2>4. h[n + 1] = 2 * h[n]
    BY <2>2
  <2> QED
    BY <2>1, <2>2, <2>3, <2>4
<1> QED
  BY <1>4, <1>5

\* An index is halved at each level.
LEMMA BlockIs ==
    ASSUME NEW i \in Nat
    PROVE  /\ Block(i, 0) = i
           /\ \A n \in Nat : Block(i, n) \in Nat /\ Block(i, n + 1) = Block(i, n) \div 2
<1> DEFINE P(n, g) == g = [k \in 0 .. n |-> IF k = 0 THEN i ELSE g[k - 1] \div 2]
<1>1. ASSUME NEW bound \in Nat PROVE \E g : P(bound, g)
  <2> DEFINE Good == {n \in Nat : \E g : P(n, g)}
  <2>1. 0 \in Good
    <3>1. P(0, [k \in 0 .. 0 |-> i])
      OBVIOUS
    <3> QED
      BY <3>1
  <2>2. ASSUME NEW n \in 0 .. bound - 1, n \in Good PROVE n + 1 \in Good
    <3>1. PICK g : P(n, g)
      BY <2>2
    <3>2. P(n + 1, [k \in 0 .. n + 1 |-> IF k = n + 1 THEN g[n] \div 2 ELSE g[k]])
      BY <3>1
    <3> HIDE DEF P
    <3> QED
      BY <2>2, <3>2
  <2> HIDE DEF Good
  <2>3. bound \in Good
    BY <2>1, <2>2, Climb
  <2> QED
    BY <2>3 DEF Good
<1>2. ASSUME NEW n \in Nat, NEW g, NEW h, P(n, g), P(n + 1, h)
      PROVE  \A k \in 0 .. n : g[k] = h[k] /\ g[k] \in Nat
  <2> DEFINE Good == {k \in 0 .. n : g[k] = h[k] /\ g[k] \in Nat}
  <2>1. 0 \in Good
    BY <1>2
  <2>2. ASSUME NEW k \in 0 .. n - 1, k \in Good PROVE k + 1 \in Good
    <3>1. g[k + 1] = g[k] \div 2 /\ h[k + 1] = h[k] \div 2
      BY <1>2
    <3> QED
      BY <2>2, <3>1
  <2> HIDE DEF Good
  <2>3. 0 .. n \subseteq Good
    BY <2>1, <2>2, Climb
  <2> QED
    BY <2>3 DEF Good
<1>3. \A n \in Nat : \E g : P(n, g) /\ Block(i, n) = g[n]
  BY <1>1 DEF Block
<1>4. Block(i, 0) = i
  BY <1>3
<1>5. ASSUME NEW n \in Nat
      PROVE  Block(i, n) \in Nat /\ Block(i, n + 1) = Block(i, n) \div 2
  <2>1. PICK g : P(n, g) /\ Block(i, n) = g[n]
    BY <1>3
  <2>2. PICK h : P(n + 1, h) /\ Block(i, n + 1) = h[n + 1]
    <3>1. n + 1 \in Nat
      OBVIOUS
    <3> HIDE DEF P
    <3> QED
      BY <1>3, <3>1
  <2>3. g[n] = h[n] /\ g[n] \in Nat
    <3> HIDE DEF P
    <3>1. n \in 0 .. n
      OBVIOUS
    <3> QED
      BY <1>2, <2>1, <2>2, <3>1
  <2>4. h[n + 1] = h[n] \div 2
    BY <2>2
  <2> QED
    BY <2>1, <2>2, <2>3, <2>4
<1> QED
  BY <1>4, <1>5


\* A block that fits under the root fits at each level, and the root has one block.
LEMMA BlockFits ==
    ASSUME NEW depth \in Nat, NEW i \in 0 .. Capacity(depth) - 1
    PROVE  /\ \A d \in 0 .. depth : Block(i, d) \in 0 .. Capacity(depth - d) - 1
           /\ Block(i, depth) = 0
<1>0. Capacity(depth) \in Nat /\ i \in Nat
  BY CapacityIs
<1> DEFINE Good == {d \in 0 .. depth : Block(i, d) \in 0 .. Capacity(depth - d) - 1}
<1>1. 0 \in Good
  BY <1>0, BlockIs
<1>2. ASSUME NEW d \in 0 .. depth - 1, d \in Good PROVE d + 1 \in Good
  <2>1. Block(i, d + 1) = Block(i, d) \div 2
    BY <1>0, BlockIs
  <2>2. depth - (d + 1) \in Nat /\ (depth - (d + 1)) + 1 = depth - d
    OBVIOUS
  <2>3. /\ Capacity(depth - (d + 1)) \in Nat
        /\ Capacity(depth - d) = 2 * Capacity(depth - (d + 1))
    BY <2>2, CapacityIs
  <2> QED
    BY <1>2, <2>1, <2>3
<1> HIDE DEF Good
<1>3. 0 .. depth \subseteq Good
  BY <1>1, <1>2, Climb
<1>4. \A d \in 0 .. depth : Block(i, d) \in 0 .. Capacity(depth - d) - 1
  BY <1>3 DEF Good
<1>5. Block(i, depth) = 0
  <2>1. Block(i, depth) \in 0 .. Capacity(depth - depth) - 1 /\ depth - depth = 0
    BY <1>4
  <2> QED
    BY <2>1, CapacityIs
<1> QED
  BY <1>4, <1>5

\* The index after it is in the same block or in the next.
LEMMA NextBlock ==
    ASSUME NEW i \in Nat, NEW d \in Nat
    PROVE  Block(i + 1, d) \in {Block(i, d), Block(i, d) + 1}
<1> DEFINE Good == {k \in 0 .. d : Block(i + 1, k) \in {Block(i, k), Block(i, k) + 1}}
<1>1. 0 \in Good
  BY BlockIs
<1>2. ASSUME NEW k \in 0 .. d - 1, k \in Good PROVE k + 1 \in Good
  <2>1. /\ Block(i, k) \in Nat /\ Block(i, k + 1) = Block(i, k) \div 2
        /\ Block(i + 1, k) \in Nat /\ Block(i + 1, k + 1) = Block(i + 1, k) \div 2
    <3>1. k \in Nat /\ i + 1 \in Nat
      OBVIOUS
    <3> QED
      BY <3>1, BlockIs
  <2> QED
    BY <1>2, <2>1
<1> HIDE DEF Good
<1>3. 0 .. d \subseteq Good
  BY <1>1, <1>2, Climb
<1> QED
  BY <1>3 DEF Good

-----------------------------------------------------------------------------
(* Trees.                                                                  *)

\* The empty subtree of each height.
LEMMA ZerosAre ==
    ASSUME NEW empty, NEW depth \in Nat
    PROVE  /\ Zeros(empty, depth)[0] = empty
           /\ \A d \in 0 .. depth - 1 :
                Zeros(empty, depth)[d + 1] =
                  Parent(Zeros(empty, depth)[d], Zeros(empty, depth)[d])
<1> DEFINE P(n, g) ==
             g = [d \in 0 .. n |-> IF d = 0 THEN empty ELSE Parent(g[d - 1], g[d - 1])]
<1>1. \E g : P(depth, g)
  <2> DEFINE Good == {n \in Nat : \E g : P(n, g)}
  <2>1. 0 \in Good
    <3>1. P(0, [k \in 0 .. 0 |-> empty])
      OBVIOUS
    <3> QED
      BY <3>1
  <2>2. ASSUME NEW n \in 0 .. depth - 1, n \in Good PROVE n + 1 \in Good
    <3>1. PICK g : P(n, g)
      BY <2>2
    <3>2. P(n + 1, [k \in 0 .. n + 1 |-> IF k = n + 1 THEN Parent(g[n], g[n]) ELSE g[k]])
      BY <3>1
    <3> HIDE DEF P
    <3> QED
      BY <2>2, <3>2
  <2> HIDE DEF Good
  <2>3. depth \in Good
    BY <2>1, <2>2, Climb
  <2> QED
    BY <2>3 DEF Good
<1>2. P(depth, Zeros(empty, depth))
  BY <1>1 DEF Zeros
<1> HIDE DEF Zeros
<1> QED
  BY <1>2

\* The nodes over a leaf, one level after the other.
LEMMA WalkIs ==
    ASSUME NEW leaf, NEW index, NEW siblings, NEW depth \in Nat
    PROVE  LET node == Walk(leaf, index, siblings, depth) IN
           /\ node[0] = leaf
           /\ \A d \in 0 .. depth - 1 :
                node[d + 1] = IF IsRight(index, d) THEN Parent(siblings[d], node[d])
                              ELSE Parent(node[d], siblings[d])
<1> DEFINE P(n, g) ==
      g = [d \in 0 .. n |-> IF d = 0 THEN leaf
                            ELSE IF IsRight(index, d - 1) THEN Parent(siblings[d - 1], g[d - 1])
                                 ELSE Parent(g[d - 1], siblings[d - 1])]
<1>1. \E g : P(depth, g)
  <2> DEFINE Good == {n \in Nat : \E g : P(n, g)}
  <2>1. 0 \in Good
    <3>1. P(0, [k \in 0 .. 0 |-> leaf])
      OBVIOUS
    <3> QED
      BY <3>1
  <2>2. ASSUME NEW n \in 0 .. depth - 1, n \in Good PROVE n + 1 \in Good
    <3>1. PICK g : P(n, g)
      BY <2>2
    <3>2. P(n + 1, [k \in 0 .. n + 1 |->
                      IF k = n + 1
                      THEN IF IsRight(index, n) THEN Parent(siblings[n], g[n])
                           ELSE Parent(g[n], siblings[n])
                      ELSE g[k]])
      BY <3>1
    <3> HIDE DEF P
    <3> QED
      BY <2>2, <3>2
  <2> HIDE DEF Good
  <2>3. depth \in Good
    BY <2>1, <2>2, Climb
  <2> QED
    BY <2>3 DEF Good
<1>2. P(depth, Walk(leaf, index, siblings, depth))
  BY <1>1 DEF Walk
<1> DEFINE node == Walk(leaf, index, siblings, depth)
<1> HIDE DEF node
<1>3. P(depth, node)
  BY <1>2 DEF node
<1>4. node[0] = leaf
  BY <1>3
<1>5. ASSUME NEW d \in 0 .. depth - 1
      PROVE  node[d + 1] = IF IsRight(index, d) THEN Parent(siblings[d], node[d])
                           ELSE Parent(node[d], siblings[d])
  BY <1>3
<1> QED
  BY <1>4, <1>5 DEF node

\* The recomputed levels.
LEMMA LevelsAre ==
    ASSUME NEW leaves, NEW depth \in Nat
    PROVE  LET level == Levels(leaves, depth) IN
           /\ \A k \in 0 .. Capacity(depth) - 1 :
                level[0][k] = IF k < Len(leaves) THEN leaves[k + 1] ELSE PADDING
           /\ \A d \in 0 .. depth - 1 : \A k \in 0 .. Capacity(depth - (d + 1)) - 1 :
                level[d + 1][k] = Parent(level[d][2 * k], level[d][2 * k + 1])
<1> DEFINE bottom == [k \in 0 .. Capacity(depth) - 1 |->
                        IF k < Len(leaves) THEN leaves[k + 1] ELSE PADDING]
           Above(d, below) == [k \in 0 .. Capacity(depth - d) - 1 |->
                                 Parent(below[2 * k], below[2 * k + 1])]
           P(n, g) == g = [d \in 0 .. n |-> IF d = 0 THEN bottom ELSE Above(d, g[d - 1])]
<1>1. \E g : P(depth, g)
  <2> HIDE DEF bottom, Above
  <2> DEFINE Good == {n \in Nat : \E g : P(n, g)}
  <2>1. 0 \in Good
    <3>1. P(0, [k \in 0 .. 0 |-> bottom])
      OBVIOUS
    <3> QED
      BY <3>1
  <2>2. ASSUME NEW n \in 0 .. depth - 1, n \in Good PROVE n + 1 \in Good
    <3>1. PICK g : P(n, g)
      BY <2>2
    <3>2. P(n + 1, [k \in 0 .. n + 1 |-> IF k = n + 1 THEN Above(n + 1, g[n]) ELSE g[k]])
      BY <3>1
    <3> HIDE DEF P
    <3> QED
      BY <2>2, <3>2
  <2> HIDE DEF Good
  <2>3. depth \in Good
    BY <2>1, <2>2, Climb
  <2> QED
    BY <2>3 DEF Good
<1> DEFINE level == Levels(leaves, depth)
<1>2. P(depth, level)
  BY <1>1, Zenon DEF Levels
<1> HIDE DEF level, P
<1>3. level[0] = bottom
  BY <1>2 DEF P
<1>4. ASSUME NEW d \in 0 .. depth - 1 PROVE level[d + 1] = Above(d + 1, level[d])
  <2> HIDE DEF bottom, Above
  <2> QED
    BY <1>2 DEF P
<1>5. \A k \in 0 .. Capacity(depth) - 1 :
        level[0][k] = IF k < Len(leaves) THEN leaves[k + 1] ELSE PADDING
  BY <1>3
<1>6. ASSUME NEW d \in 0 .. depth - 1, NEW k \in 0 .. Capacity(depth - (d + 1)) - 1
      PROVE  level[d + 1][k] = Parent(level[d][2 * k], level[d][2 * k + 1])
  BY <1>4
<1> QED
  BY <1>5, <1>6 DEF level


-----------------------------------------------------------------------------
(* The contract's tree.                                                    *)

\* The contract's tree is the recomputed one, as far as it keeps it: its root, and the
\* cached left neighbour of every block on the path of the next leaf that is a right one.
TreeMatches(tr, leaves, depth) ==
    /\ tr.count = Len(leaves)
    /\ tr.root = RootFromLeaves(leaves, depth)
    /\ \A d \in 0 .. depth - 1 : IsRight(Len(leaves), d) =>
         tr.filled[d] = Levels(leaves, depth)[d][Block(Len(leaves), d) - 1]

\* Beyond the last leaf all is empty.
LEMMA EmptyBeyond ==
    ASSUME NEW leaves, NEW depth \in Nat, NEW i \in Nat, Len(leaves) \in 0 .. i + 1
    PROVE  \A d \in 0 .. depth : \A k \in 0 .. Capacity(depth - d) - 1 :
             k > Block(i, d) => Levels(leaves, depth)[d][k] = Zeros(PADDING, depth)[d]
<1> DEFINE level == Levels(leaves, depth)
           z == Zeros(PADDING, depth)
           Good == {d \in 0 .. depth : \A k \in 0 .. Capacity(depth - d) - 1 :
                      k > Block(i, d) => level[d][k] = z[d]}
<1>1. 0 \in Good
  <2> SUFFICES ASSUME NEW k \in 0 .. Capacity(depth - 0) - 1, k > Block(i, 0)
               PROVE  level[0][k] = z[0]
    OBVIOUS
  <2>1. k \in 0 .. Capacity(depth) - 1 /\ ~(k < Len(leaves))
    BY BlockIs
  <2> QED
    BY <2>1, LevelsAre, ZerosAre
<1>2. ASSUME NEW d \in 0 .. depth - 1, d \in Good PROVE d + 1 \in Good
  <2> SUFFICES ASSUME NEW k \in 0 .. Capacity(depth - (d + 1)) - 1, k > Block(i, d + 1)
               PROVE  level[d + 1][k] = z[d + 1]
    OBVIOUS
  <2>1. /\ Block(i, d) \in Nat /\ Block(i, d + 1) = Block(i, d) \div 2
        /\ Capacity(depth - (d + 1)) \in Nat
        /\ Capacity(depth - d) = 2 * Capacity(depth - (d + 1))
    <3>1. depth - (d + 1) \in Nat /\ (depth - (d + 1)) + 1 = depth - d /\ d \in Nat
      OBVIOUS
    <3> QED
      BY <3>1, CapacityIs, BlockIs
  <2>2. /\ 2 * k \in 0 .. Capacity(depth - d) - 1 /\ 2 * k > Block(i, d)
        /\ 2 * k + 1 \in 0 .. Capacity(depth - d) - 1 /\ 2 * k + 1 > Block(i, d)
    BY <2>1
  <2>3. level[d][2 * k] = z[d] /\ level[d][2 * k + 1] = z[d]
    BY <1>2, <2>2
  <2>4. level[d + 1][k] = Parent(level[d][2 * k], level[d][2 * k + 1])
    BY LevelsAre
  <2>5. z[d + 1] = Parent(z[d], z[d])
    BY ZerosAre
  <2> QED
    BY <2>3, <2>4, <2>5
<1> HIDE DEF Good
<1>3. 0 .. depth \subseteq Good
  BY <1>1, <1>2, Climb
<1> QED
  BY <1>3 DEF Good

\* A leaf changes what is above it and nothing else.
LEMMA OnlyAboveTheLeaf ==
    ASSUME NEW leaves, NEW more, NEW depth \in Nat, NEW i \in Nat,
           \A k \in 0 .. Capacity(depth) - 1 : k # i =>
             Levels(more, depth)[0][k] = Levels(leaves, depth)[0][k]
    PROVE  \A d \in 0 .. depth : \A k \in 0 .. Capacity(depth - d) - 1 :
             k # Block(i, d) => Levels(more, depth)[d][k] = Levels(leaves, depth)[d][k]
<1> DEFINE old == Levels(leaves, depth)
           new == Levels(more, depth)
           Good == {d \in 0 .. depth : \A k \in 0 .. Capacity(depth - d) - 1 :
                      k # Block(i, d) => new[d][k] = old[d][k]}
<1>1. 0 \in Good
  BY BlockIs
<1>2. ASSUME NEW d \in 0 .. depth - 1, d \in Good PROVE d + 1 \in Good
  <2> SUFFICES ASSUME NEW k \in 0 .. Capacity(depth - (d + 1)) - 1, k # Block(i, d + 1)
               PROVE  new[d + 1][k] = old[d + 1][k]
    OBVIOUS
  <2>1. /\ Block(i, d) \in Nat /\ Block(i, d + 1) = Block(i, d) \div 2
        /\ Capacity(depth - (d + 1)) \in Nat
        /\ Capacity(depth - d) = 2 * Capacity(depth - (d + 1))
    <3>1. depth - (d + 1) \in Nat /\ (depth - (d + 1)) + 1 = depth - d /\ d \in Nat
      OBVIOUS
    <3> QED
      BY <3>1, CapacityIs, BlockIs
  <2>2. /\ 2 * k \in 0 .. Capacity(depth - d) - 1 /\ 2 * k # Block(i, d)
        /\ 2 * k + 1 \in 0 .. Capacity(depth - d) - 1 /\ 2 * k + 1 # Block(i, d)
    BY <2>1
  <2>3. new[d][2 * k] = old[d][2 * k] /\ new[d][2 * k + 1] = old[d][2 * k + 1]
    BY <1>2, <2>2
  <2>4. /\ new[d + 1][k] = Parent(new[d][2 * k], new[d][2 * k + 1])
        /\ old[d + 1][k] = Parent(old[d][2 * k], old[d][2 * k + 1])
    BY LevelsAre
  <2> QED
    BY <2>3, <2>4
<1> HIDE DEF Good
<1>3. 0 .. depth \subseteq Good
  BY <1>1, <1>2, Climb
<1> QED
  BY <1>3 DEF Good

\* A walk from a leaf, with the node beside it at every level, goes along the levels.
LEMMA WalkClimbsLevels ==
    ASSUME NEW leaves, NEW depth \in Nat, NEW i \in 0 .. Capacity(depth) - 1, NEW siblings,
           \A d \in 0 .. depth - 1 :
             siblings[d] = Levels(leaves, depth)[d][IF IsRight(i, d) THEN Block(i, d) - 1
                                                    ELSE Block(i, d) + 1]
    PROVE  \A d \in 0 .. depth :
             Walk(Levels(leaves, depth)[0][i], i, siblings, depth)[d]
               = Levels(leaves, depth)[d][Block(i, d)]
<1> DEFINE level == Levels(leaves, depth)
           node == Walk(level[0][i], i, siblings, depth)
           Good == {d \in 0 .. depth : node[d] = level[d][Block(i, d)]}
<1>0. i \in Nat
  BY CapacityIs
<1>1. 0 \in Good
  <2>1. node[0] = level[0][i]
    <3> HIDE DEF level
    <3> QED
      BY WalkIs
  <2>2. Block(i, 0) = i
    BY <1>0, BlockIs
  <2> QED
    BY <2>1, <2>2
<1>2. ASSUME NEW d \in 0 .. depth - 1, d \in Good PROVE d + 1 \in Good
  <2> DEFINE b == Block(i, d)
             c == Block(i, d + 1)
  <2>1. b \in Nat /\ c = b \div 2
    <3>1. d \in Nat
      OBVIOUS
    <3> QED
      BY <1>0, <3>1, BlockIs
  <2>2. c \in 0 .. Capacity(depth - (d + 1)) - 1
    BY BlockFits
  <2>3. level[d + 1][c] = Parent(level[d][2 * c], level[d][2 * c + 1])
    BY <2>2, LevelsAre
  <2>4. node[d + 1] = IF IsRight(i, d) THEN Parent(siblings[d], node[d])
                      ELSE Parent(node[d], siblings[d])
    BY WalkIs
  <2>5. node[d] = level[d][b]
    BY <1>2
  <2>6. CASE IsRight(i, d)
    <3>1. 2 * c = b - 1 /\ 2 * c + 1 = b
      BY <2>1, <2>6 DEF IsRight
    <3>2. siblings[d] = level[d][b - 1]
      BY <2>6
    <3> HIDE DEF level, node, b, c
    <3> QED
      BY <2>3, <2>4, <2>5, <2>6, <3>1, <3>2 DEF Good, c
  <2>7. CASE ~IsRight(i, d)
    <3>1. 2 * c = b /\ 2 * c + 1 = b + 1
      BY <2>1, <2>7 DEF IsRight
    <3>2. siblings[d] = level[d][b + 1]
      BY <2>7
    <3> HIDE DEF level, node, b, c
    <3> QED
      BY <2>3, <2>4, <2>5, <2>7, <3>1, <3>2 DEF Good, c
  <2> QED
    BY <2>6, <2>7
<1> HIDE DEF Good
<1>3. 0 .. depth \subseteq Good
  BY <1>1, <1>2, Climb
<1> QED
  BY <1>3 DEF Good


\* An empty tree matches no leaves.
LEMMA EmptyTreeMatches ==
    ASSUME NEW depth \in Nat PROVE TreeMatches(EmptyTree(depth), << >>, depth)
<1> DEFINE tr == EmptyTree(depth)
           level == Levels(<< >>, depth)
           z == Zeros(PADDING, depth)
           Good == {d \in 0 .. depth : Block(0, d) = 0 /\ level[d][0] = z[d]}
<1>0. tr.count = 0 /\ tr.root = z[depth] /\ Len(<< >>) = 0
  BY DEF EmptyTree
<1>1. 0 \in Good
  <2>1. 0 \in 0 .. Capacity(depth) - 1
    BY CapacityIs
  <2>2. level[0][0] = PADDING
    BY <1>0, <2>1, LevelsAre
  <2> QED
    <3>1. Block(0, 0) = 0
      BY BlockIs
    <3>2. z[0] = PADDING
      BY ZerosAre
    <3> QED
      BY <2>2, <3>1, <3>2
<1>2. ASSUME NEW d \in 0 .. depth - 1, d \in Good PROVE d + 1 \in Good
  <2>1. d \in Nat /\ depth - (d + 1) \in Nat /\ (depth - (d + 1)) + 1 = depth - d
    OBVIOUS
  <2>2. /\ 0 \in 0 .. Capacity(depth - (d + 1)) - 1
        /\ 1 \in 0 .. Capacity(depth - d) - 1
    <3>1. /\ Capacity(depth - (d + 1)) \in Nat /\ Capacity(depth - (d + 1)) > 0
          /\ Capacity(depth - d) = 2 * Capacity(depth - (d + 1))
      BY <2>1, CapacityIs
    <3> QED
      BY <3>1
  <2>3. Block(0, d) = 0 /\ Block(0, d + 1) = 0
    BY <1>2, <2>1, BlockIs
  <2>4. level[d][1] = z[d]
    BY <1>0, <2>2, <2>3, EmptyBeyond
  <2>5. level[d + 1][0] = Parent(level[d][2 * 0], level[d][2 * 0 + 1])
    BY <2>2, LevelsAre
  <2>6. z[d + 1] = Parent(z[d], z[d])
    BY ZerosAre
  <2>7. level[d][0] = z[d]
    BY <1>2
  <2> HIDE DEF level, z
  <2> QED
    BY <2>3, <2>4, <2>5, <2>6, <2>7 DEF Good
<1> HIDE DEF Good
<1>3. 0 .. depth \subseteq Good
  BY <1>1, <1>2, Climb
<1>4. tr.root = RootFromLeaves(<< >>, depth)
  BY <1>0, <1>3 DEF RootFromLeaves, Good
<1>5. \A d \in 0 .. depth - 1 : ~IsRight(0, d)
  BY <1>3 DEF Good, IsRight
<1> QED
  BY <1>0, <1>4, <1>5 DEF TreeMatches

\* Whatever was inserted before, an insertion keeps the contract's tree the recomputed
\* one: the cached left siblings and the empty right ones are what the levels hold.
LEMMA InsertMatches ==
    ASSUME NEW depth \in Nat, NEW S, NEW leaves \in Seq(S), NEW leaf \in S,
           Len(leaves) < Capacity(depth), NEW tr, TreeMatches(tr, leaves, depth)
    PROVE  TreeMatches(Insert(tr, leaf, depth), Append(leaves, leaf), depth)
<1> DEFINE n == Len(leaves)
           more == Append(leaves, leaf)
           old == Levels(leaves, depth)
           new == Levels(more, depth)
           z == Zeros(PADDING, depth)
           beside == [d \in 0 .. depth - 1 |->
                        IF IsRight(tr.count, d) THEN tr.filled[d] ELSE z[d]]
           node == Walk(leaf, tr.count, beside, depth)
           inserted == Insert(tr, leaf, depth)
<1>1. /\ n \in 0 .. Capacity(depth) - 1 /\ n \in Nat /\ tr.count = n
      /\ Len(more) = n + 1 /\ more[n + 1] = leaf
      /\ \A k \in 0 .. n - 1 : more[k + 1] = leaves[k + 1]
  <2>1. Capacity(depth) \in Nat /\ Len(leaves) \in Nat
    BY CapacityIs
  <2>2. /\ Len(more) = n + 1 /\ more[n + 1] = leaf
        /\ \A k \in 0 .. n - 1 : more[k + 1] = leaves[k + 1]
    BY <2>1, AppendProperties
  <2> QED
    BY <2>1, <2>2 DEF TreeMatches
<1>2. /\ inserted.count = n + 1 /\ inserted.root = node[depth]
      /\ inserted.filled = [d \in 0 .. depth - 1 |-> IF IsRight(n, d) THEN tr.filled[d]
                                                     ELSE node[d]]
  <2> HIDE DEF n, beside, z
  <2> QED
    BY <1>1 DEF Insert, n, beside, z
<1> HIDE DEF n, more, old, new, z, beside, node, inserted
<1>3. new[0][n] = leaf
  BY <1>1, LevelsAre DEF new
<1>4. ASSUME NEW k \in 0 .. Capacity(depth) - 1, k # n PROVE new[0][k] = old[0][k]
  <2>1. /\ new[0][k] = IF k < n + 1 THEN more[k + 1] ELSE PADDING
        /\ old[0][k] = IF k < n THEN leaves[k + 1] ELSE PADDING
    BY <1>1, LevelsAre DEF new, old, n
  <2>2. Capacity(depth) \in Nat
    BY CapacityIs
  <2>3. CASE k < n
    BY <1>1, <2>1, <2>2, <2>3
  <2>4. CASE n < k
    BY <1>1, <2>1, <2>2, <2>4
  <2> QED
    BY <1>1, <1>4, <2>2, <2>3, <2>4
<1>5. \A d \in 0 .. depth : \A k \in 0 .. Capacity(depth - d) - 1 :
        k # Block(n, d) => new[d][k] = old[d][k]
  <2>1. \A k \in 0 .. Capacity(depth) - 1 : k # n =>
          Levels(more, depth)[0][k] = Levels(leaves, depth)[0][k]
    BY <1>4 DEF new, old
  <2>2. n \in Nat
    BY <1>1
  <2>3. \A d \in 0 .. depth : \A k \in 0 .. Capacity(depth - d) - 1 :
          k # Block(n, d) => Levels(more, depth)[d][k] = Levels(leaves, depth)[d][k]
    BY <2>1, <2>2, OnlyAboveTheLeaf
  <2> QED
    BY <2>3 DEF new, old
<1>6. \A d \in 0 .. depth : \A k \in 0 .. Capacity(depth - d) - 1 :
        k > Block(n, d) => new[d][k] = z[d]
  BY <1>1, EmptyBeyond DEF new, z
<1>7. ASSUME NEW d \in 0 .. depth - 1
      PROVE  /\ Block(n, d) \in Nat /\ Block(n, d) \in 0 .. Capacity(depth - d) - 1
             /\ IsRight(n, d) => Block(n, d) - 1 \in 0 .. Capacity(depth - d) - 1
             /\ ~IsRight(n, d) => Block(n, d) + 1 \in 0 .. Capacity(depth - d) - 1
  <2>1. d \in Nat /\ depth - (d + 1) \in Nat /\ (depth - (d + 1)) + 1 = depth - d
    OBVIOUS
  <2>2. /\ Block(n, d) \in 0 .. Capacity(depth - d) - 1
        /\ Capacity(depth - (d + 1)) \in Nat
        /\ Capacity(depth - d) = 2 * Capacity(depth - (d + 1))
    <3>1. Block(n, d) \in 0 .. Capacity(depth - d) - 1
      BY <1>1, BlockFits
    <3>2. /\ Capacity(depth - (d + 1)) \in Nat
          /\ Capacity(depth - d) = 2 * Capacity(depth - (d + 1))
      BY <2>1, CapacityIs
    <3> QED
      BY <3>1, <3>2
  <2> QED
    BY <2>2 DEF IsRight
<1>8. ASSUME NEW d \in 0 .. depth - 1
      PROVE  beside[d] = new[d][IF IsRight(n, d) THEN Block(n, d) - 1 ELSE Block(n, d) + 1]
  <2>1. CASE IsRight(n, d)
    <3>1. beside[d] = tr.filled[d]
      BY <1>1, <2>1 DEF beside
    <3>2. tr.filled[d] = old[d][Block(n, d) - 1]
      BY <2>1 DEF TreeMatches, n, old
    <3>3. new[d][Block(n, d) - 1] = old[d][Block(n, d) - 1]
      <4>1. d \in 0 .. depth /\ Block(n, d) - 1 # Block(n, d)
        BY <1>7
      <4> QED
        BY <1>5, <1>7, <2>1, <4>1
    <3> QED
      BY <2>1, <3>1, <3>2, <3>3
  <2>2. CASE ~IsRight(n, d)
    <3>1. beside[d] = z[d]
      BY <1>1, <2>2 DEF beside
    <3>2. new[d][Block(n, d) + 1] = z[d]
      BY <1>6, <1>7, <2>2
    <3> QED
      BY <2>2, <3>1, <3>2
  <2> QED
    BY <2>1, <2>2
<1>9. \A d \in 0 .. depth : node[d] = new[d][Block(n, d)]
  <2>1. \A d \in 0 .. depth - 1 :
          beside[d] = Levels(more, depth)[d][IF IsRight(n, d) THEN Block(n, d) - 1
                                             ELSE Block(n, d) + 1]
    BY <1>8 DEF new
  <2>2. \A d \in 0 .. depth : Walk(Levels(more, depth)[0][n], n, beside, depth)[d]
                                = Levels(more, depth)[d][Block(n, d)]
    BY <1>1, <2>1, WalkClimbsLevels
  <2> QED
    BY <1>1, <1>3, <2>2 DEF new, node
<1>10. inserted.root = RootFromLeaves(more, depth)
  <2>1. Block(n, depth) = 0 /\ depth \in 0 .. depth
    BY <1>1, BlockFits
  <2> QED
    BY <1>2, <1>9, <2>1 DEF RootFromLeaves, new
<1>11. ASSUME NEW d \in 0 .. depth - 1, IsRight(n + 1, d)
       PROVE  inserted.filled[d] = new[d][Block(n + 1, d) - 1]
  <2>1. Block(n + 1, d) \in {Block(n, d), Block(n, d) + 1}
    BY <1>1, NextBlock
  <2>2. CASE IsRight(n, d)
    <3>1. Block(n + 1, d) = Block(n, d)
      BY <1>7, <1>11, <2>1, <2>2 DEF IsRight
    <3>2. inserted.filled[d] = tr.filled[d]
      BY <1>2, <2>2
    <3>3. tr.filled[d] = old[d][Block(n, d) - 1]
      BY <2>2 DEF TreeMatches, n, old
    <3>4. new[d][Block(n, d) - 1] = old[d][Block(n, d) - 1]
      <4>1. d \in 0 .. depth /\ Block(n, d) - 1 # Block(n, d)
        BY <1>7
      <4> QED
        BY <1>5, <1>7, <2>2, <4>1
    <3> QED
      BY <3>1, <3>2, <3>3, <3>4
  <2>3. CASE ~IsRight(n, d)
    <3>1. Block(n + 1, d) - 1 = Block(n, d)
      BY <1>7, <1>11, <2>1, <2>3 DEF IsRight
    <3>2. inserted.filled[d] = node[d]
      BY <1>2, <2>3
    <3> QED
      BY <1>9, <3>1, <3>2
  <2> QED
    BY <2>2, <2>3
<1> QED
  BY <1>1, <1>2, <1>10, <1>11 DEF TreeMatches, inserted, more, new


\* An inclusion proof for any place in the tree verifies.
LEMMA ProofsVerify ==
    ASSUME NEW leaves, NEW depth \in Nat, NEW i \in 0 .. Capacity(depth) - 1
    PROVE  VerifyProof(Levels(leaves, depth)[0][i], i, Siblings(leaves, i, depth),
                       RootFromLeaves(leaves, depth), depth)
<1> DEFINE siblings == Siblings(leaves, i, depth)
<1>1. \A d \in 0 .. depth - 1 :
        siblings[d] = Levels(leaves, depth)[d][IF IsRight(i, d) THEN Block(i, d) - 1
                                               ELSE Block(i, d) + 1]
  BY DEF Siblings
<1> HIDE DEF siblings
<1>2. \A d \in 0 .. depth : Walk(Levels(leaves, depth)[0][i], i, siblings, depth)[d]
                              = Levels(leaves, depth)[d][Block(i, d)]
  BY <1>1, WalkClimbsLevels
<1>3. Block(i, depth) = 0 /\ depth \in 0 .. depth
  BY BlockFits
<1> QED
  BY <1>2, <1>3 DEF VerifyProof, RootFromLeaves, siblings

\* A parent tells its children.
LEMMA ParentInjective ==
    ASSUME NEW a, NEW b, NEW c, NEW d, Parent(a, b) = Parent(c, d) PROVE a = c /\ b = d
BY DEF Parent

\* Only one sequence of leaves has a root: no other set fits the root of the chain.
LEMMA RootsDiffer ==
    ASSUME NEW depth \in Nat, NEW S, NEW s \in Seq(S), NEW u \in Seq(S), PADDING \notin S,
           Len(s) <= Capacity(depth), Len(u) <= Capacity(depth),
           RootFromLeaves(s, depth) = RootFromLeaves(u, depth)
    PROVE  s = u
<1> DEFINE x == Levels(s, depth)
           y == Levels(u, depth)
           \* Counted from the root down.
           Good == {h \in 0 .. depth : \A k \in 0 .. Capacity(h) - 1 :
                      x[depth - h][k] = y[depth - h][k]}
<1> HIDE DEF x, y
<1>1. 0 \in Good
  <2>1. Capacity(0) = 1 /\ depth - 0 = depth
    BY CapacityIs
  <2>2. x[depth][0] = y[depth][0]
    BY DEF RootFromLeaves, x, y
  <2> QED
    BY <2>1, <2>2
<1>2. ASSUME NEW h \in 0 .. depth - 1, h \in Good PROVE h + 1 \in Good
  <2> SUFFICES ASSUME NEW k \in 0 .. Capacity(h + 1) - 1
               PROVE  x[depth - (h + 1)][k] = y[depth - (h + 1)][k]
    OBVIOUS
  <2> DEFINE d == depth - (h + 1)
             p == k \div 2
  <2>1. d \in 0 .. depth - 1 /\ depth - (d + 1) = h /\ d + 1 = depth - h /\ h \in Nat
    OBVIOUS
  <2>2. Capacity(h) \in Nat /\ Capacity(h + 1) = 2 * Capacity(h)
    BY <2>1, CapacityIs
  <2>3. p \in 0 .. Capacity(h) - 1 /\ (k = 2 * p \/ k = 2 * p + 1)
    BY <2>2
  <2> HIDE DEF p, d
  <2>4. /\ x[d + 1][p] = Parent(x[d][2 * p], x[d][2 * p + 1])
        /\ y[d + 1][p] = Parent(y[d][2 * p], y[d][2 * p + 1])
    BY <2>1, <2>3, LevelsAre DEF x, y
  <2>5. x[d + 1][p] = y[d + 1][p]
    BY <1>2, <2>1, <2>3
  <2>6. x[d][2 * p] = y[d][2 * p] /\ x[d][2 * p + 1] = y[d][2 * p + 1]
    BY <2>4, <2>5 DEF Parent
  <2> QED
    BY <2>3, <2>6 DEF d
<1> HIDE DEF Good
<1>3. 0 .. depth \subseteq Good
  BY <1>1, <1>2, Climb
<1>4. \A k \in 0 .. Capacity(depth) - 1 : x[0][k] = y[0][k]
  BY <1>3 DEF Good
<1>5. \A k \in 0 .. Capacity(depth) - 1 :
        /\ x[0][k] = IF k < Len(s) THEN s[k + 1] ELSE PADDING
        /\ y[0][k] = IF k < Len(u) THEN u[k + 1] ELSE PADDING
  BY LevelsAre DEF x, y
<1>6. /\ Len(s) \in Nat /\ \A k \in 0 .. Len(s) - 1 : s[k + 1] \in S
      /\ Len(u) \in Nat /\ \A k \in 0 .. Len(u) - 1 : u[k + 1] \in S
      /\ Capacity(depth) \in Nat
  <2>1. Capacity(depth) \in Nat
    BY CapacityIs
  <2> QED
    BY <2>1
<1>7. Len(s) = Len(u)
  <2>1. ASSUME Len(s) < Len(u) PROVE FALSE
    <3>1. Len(s) \in 0 .. Capacity(depth) - 1
      BY <1>6, <2>1
    <3>2. x[0][Len(s)] = PADDING /\ y[0][Len(s)] \in S
      BY <1>5, <1>6, <2>1, <3>1
    <3> QED
      BY <1>4, <3>1, <3>2
  <2>2. ASSUME Len(u) < Len(s) PROVE FALSE
    <3>1. Len(u) \in 0 .. Capacity(depth) - 1
      BY <1>6, <2>2
    <3>2. y[0][Len(u)] = PADDING /\ x[0][Len(u)] \in S
      BY <1>5, <1>6, <2>2, <3>1
    <3> QED
      BY <1>4, <3>1, <3>2
  <2> QED
    BY <1>6, <2>1, <2>2
<1>8. ASSUME NEW k \in 1 .. Len(s) PROVE s[k] = u[k]
  <2>1. k - 1 \in 0 .. Capacity(depth) - 1 /\ k - 1 < Len(s) /\ (k - 1) + 1 = k
    BY <1>6
  <2> QED
    BY <1>4, <1>5, <1>7, <2>1
<1> QED
  BY <1>7, <1>8, SeqEqual

-----------------------------------------------------------------------------
(* The revocation tree.                                                    *)

\* A credential's walk meets the revoked one's path where their blocks meet, and keeps
\* to empty subtrees below; the revoked credential itself never gets onto its own path,
\* for it starts from zero and the path from the marker.
LEMMA RevocationProofs ==
    ASSUME NEW depth \in Nat, NEW id \in 0 .. Capacity(depth) - 1,
           NEW gone \in (0 .. Capacity(depth) - 1) \cup {NoneRevoked}
    PROVE  NonRevocationProves(id, SiblingsFor(gone, id, depth),
                               RevocationTreeRoot(gone, depth), depth) <=> id # gone
<1> DEFINE z == Zeros(ZERO, depth)
           siblings == SiblingsFor(gone, id, depth)
           node == Walk(ZERO, id, siblings, depth)
           path == RevokedPath(gone, depth)
<1>0. id \in Nat /\ Capacity(depth) \in Nat /\ depth \in 0 .. depth
  BY CapacityIs
<1>1. /\ z[0] = ZERO
      /\ \A d \in 0 .. depth - 1 : z[d + 1] = Parent(z[d], z[d])
  BY ZerosAre
<1>2. /\ node[0] = ZERO
      /\ \A d \in 0 .. depth - 1 :
           node[d + 1] = IF IsRight(id, d) THEN Parent(siblings[d], node[d])
                         ELSE Parent(node[d], siblings[d])
  <2> HIDE DEF siblings
  <2> QED
    BY WalkIs
<1>3. /\ path[0] = MARKER
      /\ \A d \in 0 .. depth - 1 :
           path[d + 1] = IF IsRight(gone, d) THEN Parent(z[d], path[d])
                         ELSE Parent(path[d], z[d])
  <2> HIDE DEF z
  <2> QED
    BY WalkIs DEF RevokedPath, z
<1>4. \A d \in 0 .. depth - 1 :
        siblings[d] = IF gone # NoneRevoked /\ UnderSibling(gone, id, d) THEN path[d] ELSE z[d]
  BY DEF SiblingsFor
<1>5. NonRevocationProves(id, siblings, RevocationTreeRoot(gone, depth), depth)
        <=> node[depth] = IF gone = NoneRevoked THEN z[depth] ELSE path[depth]
  BY DEF NonRevocationProves, RevocationTreeRoot
<1> HIDE DEF z, siblings, node, path
<1>6. CASE gone = NoneRevoked
  <2> DEFINE Good == {d \in 0 .. depth : node[d] = z[d]}
  <2>1. 0 \in Good
    BY <1>1, <1>2
  <2>2. ASSUME NEW d \in 0 .. depth - 1, d \in Good PROVE d + 1 \in Good
    BY <1>1, <1>2, <1>4, <1>6, <2>2
  <2> HIDE DEF Good
  <2>3. 0 .. depth \subseteq Good
    BY <2>1, <2>2, Climb
  <2>4. node[depth] = z[depth]
    BY <1>0, <2>3 DEF Good
  <2>5. id # gone
    BY <1>0, <1>6 DEF NoneRevoked
  <2> QED
    BY <1>5, <1>6, <2>4, <2>5 DEF siblings
<1>7. ASSUME gone \in 0 .. Capacity(depth) - 1, NEW d \in 0 .. depth - 1
      PROVE  /\ Block(id, d) \in Nat /\ Block(id, d + 1) = Block(id, d) \div 2
             /\ Block(gone, d) \in Nat /\ Block(gone, d + 1) = Block(gone, d) \div 2
  <2>1. d \in Nat /\ gone \in Nat
    BY <1>0, <1>7
  <2> QED
    BY <1>0, <2>1, BlockIs
<1>8. CASE gone \in 0 .. Capacity(depth) - 1 /\ id # gone
  <2> DEFINE Good == {d \in 0 .. depth : IF Block(id, d) = Block(gone, d) THEN node[d] = path[d]
                                         ELSE node[d] = z[d]}
  <2>0. gone # NoneRevoked
    BY <1>0, <1>8 DEF NoneRevoked
  <2>1. 0 \in Good
    <3>1. Block(id, 0) = id /\ Block(gone, 0) = gone
      BY <1>0, <1>8, BlockIs
    <3> QED
      BY <1>1, <1>2, <1>8, <3>1
  <2>2. ASSUME NEW d \in 0 .. depth - 1, d \in Good PROVE d + 1 \in Good
    <3>1. /\ Block(id, d) \in Nat /\ Block(id, d + 1) = Block(id, d) \div 2
          /\ Block(gone, d) \in Nat /\ Block(gone, d + 1) = Block(gone, d) \div 2
      BY <1>7, <1>8
    <3>2. /\ z[d + 1] = Parent(z[d], z[d])
          /\ path[d + 1] = IF IsRight(gone, d) THEN Parent(z[d], path[d])
                           ELSE Parent(path[d], z[d])
          /\ node[d + 1] = IF IsRight(id, d) THEN Parent(siblings[d], node[d])
                           ELSE Parent(node[d], siblings[d])
          /\ siblings[d] = IF UnderSibling(gone, id, d) THEN path[d] ELSE z[d]
      BY <1>1, <1>2, <1>3, <1>4, <2>0
    <3>3. CASE Block(id, d) = Block(gone, d)
      <4>1. /\ IsRight(id, d) <=> IsRight(gone, d)
            /\ ~UnderSibling(gone, id, d) /\ Block(id, d + 1) = Block(gone, d + 1)
        BY <3>1, <3>3 DEF IsRight, UnderSibling
      <4>2. node[d] = path[d]
        BY <2>2, <3>3
      <4> QED
        BY <3>2, <4>1, <4>2
    <3>4. CASE Block(id, d) # Block(gone, d) /\ UnderSibling(gone, id, d)
      <4>1. /\ IsRight(id, d) <=> ~IsRight(gone, d)
            /\ Block(id, d + 1) = Block(gone, d + 1)
        BY <3>1, <3>4 DEF IsRight, UnderSibling
      <4>2. node[d] = z[d]
        BY <2>2, <3>4
      <4> QED
        BY <3>2, <3>4, <4>1, <4>2
    <3>5. CASE Block(id, d) # Block(gone, d) /\ ~UnderSibling(gone, id, d)
      <4>1. Block(id, d + 1) # Block(gone, d + 1)
        BY <3>1, <3>5 DEF IsRight, UnderSibling
      <4>2. node[d] = z[d]
        BY <2>2, <3>5
      <4> QED
        BY <3>2, <3>5, <4>1, <4>2
    <3> QED
      BY <3>3, <3>4, <3>5
  <2> HIDE DEF Good
  <2>3. 0 .. depth \subseteq Good
    BY <2>1, <2>2, Climb
  <2>4. Block(id, depth) = 0 /\ Block(gone, depth) = 0
    BY <1>8, BlockFits
  <2>5. node[depth] = path[depth]
    BY <1>0, <2>3, <2>4 DEF Good
  <2> QED
    BY <1>5, <1>8, <2>0, <2>5 DEF siblings
<1>9. CASE gone \in 0 .. Capacity(depth) - 1 /\ id = gone
  <2> DEFINE Good == {d \in 0 .. depth : node[d] # path[d]}
  <2>0. gone # NoneRevoked
    BY <1>0, <1>9 DEF NoneRevoked
  <2>1. 0 \in Good
    BY <1>2, <1>3 DEF ZERO, MARKER
  <2>2. ASSUME NEW d \in 0 .. depth - 1, d \in Good PROVE d + 1 \in Good
    <3>1. node[d] # path[d]
      BY <2>2
    <3>2. /\ path[d + 1] = IF IsRight(gone, d) THEN Parent(z[d], path[d])
                           ELSE Parent(path[d], z[d])
          /\ node[d + 1] = IF IsRight(gone, d) THEN Parent(siblings[d], node[d])
                           ELSE Parent(node[d], siblings[d])
      BY <1>2, <1>3, <1>9
    <3>3. node[d + 1] # path[d + 1]
      BY <3>1, <3>2, ParentInjective
    <3> QED
      BY <3>3
  <2> HIDE DEF Good
  <2>3. 0 .. depth \subseteq Good
    BY <2>1, <2>2, Climb
  <2>4. node[depth] # path[depth]
    BY <1>0, <2>3 DEF Good
  <2> QED
    BY <1>5, <1>9, <2>0, <2>4 DEF siblings
<1> QED
  BY <1>6, <1>8, <1>9


-----------------------------------------------------------------------------
(* Arithmetic modulo a prime.                                              *)

\* The points, by their logarithms.
Points == 0 .. SUB_ORDER - 1

\* What is left of a division.
LEMMA ModIs ==
    ASSUME NEW x \in Int
    PROVE  /\ x % SUB_ORDER \in Points
           /\ \E q \in Int : x = SUB_ORDER * q + (x % SUB_ORDER)
<1>1. SUB_ORDER \in Nat /\ SUB_ORDER > 0
  BY VSSAssumption
<1>2. x = SUB_ORDER * (x \div SUB_ORDER) + (x % SUB_ORDER)
  BY <1>1
<1>3. x % SUB_ORDER \in Points
  BY <1>1 DEF Points
<1>4. x \div SUB_ORDER \in Int
  BY <1>1
<1> QED
  BY <1>2, <1>3, <1>4

\* It depends on the number only up to multiples of the order.
LEMMA ModSame ==
    ASSUME NEW x \in Int, NEW y \in Int, NEW k \in Int, x = y + SUB_ORDER * k
    PROVE  x % SUB_ORDER = y % SUB_ORDER
<1>1. SUB_ORDER \in Nat /\ SUB_ORDER > 0
  BY VSSAssumption
<1>2. PICK q \in Int : x = SUB_ORDER * q + (x % SUB_ORDER)
  BY ModIs
<1>3. PICK s \in Int : y = SUB_ORDER * s + (y % SUB_ORDER)
  BY ModIs
<1>4. x % SUB_ORDER \in Points /\ y % SUB_ORDER \in Points
  BY ModIs
<1> DEFINE d == q - s - k
<1>5. d \in Int /\ SUB_ORDER * d = (y % SUB_ORDER) - (x % SUB_ORDER)
  BY <1>1, <1>2, <1>3, <1>4 DEF Points
<1> HIDE DEF d
<1>6. d = 0
  BY <1>1, <1>4, <1>5 DEF Points
<1> QED
  BY <1>1, <1>4, <1>5, <1>6 DEF Points

\* A number below the order is what is left of it.
LEMMA ModSmall == ASSUME NEW a \in Points PROVE a % SUB_ORDER = a
<1>1. SUB_ORDER \in Nat /\ SUB_ORDER > 0
  BY VSSAssumption
<1>2. PICK q \in Int : a = SUB_ORDER * q + (a % SUB_ORDER)
  BY ModIs DEF Points
<1>3. a % SUB_ORDER \in Points
  BY ModIs DEF Points
<1>4. q = 0
  BY <1>1, <1>2, <1>3 DEF Points
<1> QED
  BY <1>1, <1>2, <1>3, <1>4 DEF Points

\* It may be taken before adding and multiplying.
LEMMA ModInside ==
    ASSUME NEW x \in Int, NEW y \in Int
    PROVE  /\ ((x % SUB_ORDER) + y) % SUB_ORDER = (x + y) % SUB_ORDER
           /\ ((x % SUB_ORDER) * y) % SUB_ORDER = (x * y) % SUB_ORDER
<1>1. SUB_ORDER \in Nat /\ SUB_ORDER > 0
  BY VSSAssumption
<1>2. PICK q \in Int : x = SUB_ORDER * q + (x % SUB_ORDER)
  BY ModIs
<1> DEFINE r == x % SUB_ORDER
<1>3. r \in Int
  BY ModIs DEF Points
<1> HIDE DEF r
<1>4. x + y = (r + y) + SUB_ORDER * q
  BY <1>1, <1>2, <1>3 DEF r
<1>5. x * y = r * y + SUB_ORDER * (q * y)
  <2>1. x = SUB_ORDER * q + r
    BY <1>2 DEF r
  <2>2. (SUB_ORDER * q + r) * y = r * y + SUB_ORDER * (q * y)
    BY <1>1, <1>3
  <2> QED
    BY <2>1, <2>2
<1>6. (x + y) % SUB_ORDER = (r + y) % SUB_ORDER
  BY <1>3, <1>4, ModSame
<1>7. (x * y) % SUB_ORDER = (r * y) % SUB_ORDER
  <2>1. x * y \in Int /\ r * y \in Int /\ q * y \in Int
    BY <1>3
  <2> QED
    BY <1>5, <2>1, ModSame
<1> QED
  BY <1>6, <1>7 DEF r

\* The laws of arithmetic hold of Add and Mul: they stay below the order,
LEMMA Closed ==
    ASSUME NEW a \in Points, NEW b \in Points
    PROVE  Add(a, b) \in Points /\ Mul(a, b) \in Points
<1>1. a + b \in Int /\ a * b \in Int
  BY DEF Points
<1> QED
  BY <1>1, ModIs DEF Add, Mul

\* take their arguments in either order,
LEMMA Commutes ==
    ASSUME NEW a \in Points, NEW b \in Points
    PROVE  Add(a, b) = Add(b, a) /\ Mul(a, b) = Mul(b, a)
<1>1. a + b = b + a /\ a * b = b * a
  BY DEF Points
<1> QED
  BY <1>1 DEF Add, Mul

\* do nothing with their units,
LEMMA Units ==
    ASSUME NEW a \in Points
    PROVE  /\ 0 \in Points /\ 1 \in Points /\ 0 # 1
           /\ Add(a, 0) = a /\ Add(0, a) = a
           /\ Mul(a, 1) = a /\ Mul(1, a) = a /\ Mul(a, 0) = 0 /\ Mul(0, a) = 0
<1>1. 0 \in Points /\ 1 \in Points
  BY VSSAssumption DEF Points
<1>2. a + 0 = a /\ 0 + a = a /\ a * 1 = a /\ 1 * a = a /\ a * 0 = 0 /\ 0 * a = 0
  BY DEF Points
<1> QED
  BY <1>1, <1>2, ModSmall DEF Add, Mul

\* may be grouped either way,
LEMMA Associates ==
    ASSUME NEW a \in Points, NEW b \in Points, NEW c \in Points
    PROVE  /\ Add(Add(a, b), c) = Add(a, Add(b, c))
           /\ Mul(Mul(a, b), c) = Mul(a, Mul(b, c))
<1>1. a \in Int /\ b \in Int /\ c \in Int /\ a + b \in Int /\ a * b \in Int
      /\ b + c \in Int /\ b * c \in Int
  BY DEF Points
<1>2. /\ Add(Add(a, b), c) = ((a + b) + c) % SUB_ORDER
      /\ Mul(Mul(a, b), c) = ((a * b) * c) % SUB_ORDER
  BY <1>1, ModInside DEF Add, Mul
<1>3. /\ Add(Add(b, c), a) = ((b + c) + a) % SUB_ORDER
      /\ Mul(Mul(b, c), a) = ((b * c) * a) % SUB_ORDER
  BY <1>1, ModInside DEF Add, Mul
<1>4. (a + b) + c = (b + c) + a /\ (a * b) * c = (b * c) * a
  BY <1>1
<1> QED
  BY <1>2, <1>3, <1>4, Closed, Commutes

\* distribute,
LEMMA Distributes ==
    ASSUME NEW a \in Points, NEW b \in Points, NEW c \in Points
    PROVE  /\ Mul(Add(a, b), c) = Add(Mul(a, c), Mul(b, c))
           /\ Mul(c, Add(a, b)) = Add(Mul(c, a), Mul(c, b))
<1>1. a \in Int /\ b \in Int /\ c \in Int /\ a + b \in Int /\ a * c \in Int /\ b * c \in Int
  BY DEF Points
<1>2. Mul(Add(a, b), c) = ((a + b) * c) % SUB_ORDER
  BY <1>1, ModInside DEF Add, Mul
<1>3. Mul(b, c) \in Int
  BY Closed DEF Points
<1>4. Add(Mul(a, c), Mul(b, c)) = ((a * c) + Mul(b, c)) % SUB_ORDER
  BY <1>1, <1>3, ModInside DEF Add, Mul
<1>5. (((b * c) % SUB_ORDER) + (a * c)) % SUB_ORDER = ((b * c) + (a * c)) % SUB_ORDER
  BY <1>1, ModInside
<1>6. (a * c) + Mul(b, c) = ((b * c) % SUB_ORDER) + (a * c)
  BY <1>1, <1>3 DEF Mul
<1>7. (a + b) * c = (b * c) + (a * c)
  BY <1>1
<1>8. Mul(Add(a, b), c) = Add(Mul(a, c), Mul(b, c))
  BY <1>2, <1>4, <1>5, <1>6, <1>7
<1> QED
  BY <1>8, Closed, Commutes

\* and a term added on both sides may be dropped.
LEMMA Cancels ==
    ASSUME NEW a \in Points, NEW b \in Points, NEW c \in Points, Add(a, c) = Add(b, c)
    PROVE  a = b
<1> DEFINE n == (0 - c) % SUB_ORDER
<1>1. n \in Points
  BY ModIs DEF Points
<1>2. Add(n, c) = 0
  <2>1. 0 - c \in Int /\ c \in Int /\ (0 - c) + c = 0
    BY DEF Points
  <2>2. Add(n, c) = ((0 - c) + c) % SUB_ORDER
    BY <2>1, ModInside DEF Add
  <2> QED
    BY <2>1, <2>2, ModSmall, Units
<1> HIDE DEF n
<1>3. Add(Add(a, c), n) = a /\ Add(Add(b, c), n) = b
  BY <1>1, <1>2, Associates, Commutes, Units
<1> QED
  BY <1>3

\* The least positive number among the multiples of a scalar divides the order, which
\* is a prime, so it is one.
LEMMA Inverts ==
    ASSUME NEW d \in Scalars
    PROVE  InvModSubOrder(d) \in Scalars /\ Mul(d, InvModSubOrder(d)) = 1
<1> DEFINE Multiples == {x \in Scalars : \E b \in Int : (d * b) % SUB_ORDER = x}
<1>1. SUB_ORDER \in Nat /\ SUB_ORDER > 0 /\ d \in Points /\ d \in Int /\ Scalars \subseteq Nat
  BY VSSAssumption DEF Scalars, Points
<1>2. d \in Multiples
  <2>1. d * 1 = d
    BY <1>1
  <2> QED
    BY <1>1, <2>1, ModSmall
<1>3. PICK g \in Multiples : \A x \in Multiples : g <= x
  <2>1. Multiples \in SUBSET Nat /\ Multiples # {}
    BY <1>1, <1>2
  <2> HIDE DEF Multiples
  <2> QED
    BY <2>1, LeastMember
<1>4. PICK b \in Int : (d * b) % SUB_ORDER = g
  BY <1>3
<1>5. g \in Scalars /\ g \in Int /\ g > 0 /\ g \in Points
  BY <1>3, <1>1 DEF Scalars, Points
<1>6. PICK s \in Int : d * b = SUB_ORDER * s + g
  <2>1. d * b \in Int
    BY <1>1
  <2> QED
    BY <1>4, <2>1, ModIs
<1> DEFINE q == SUB_ORDER \div g
           r == SUB_ORDER % g
<1>7. q \in Int /\ r \in 0 .. g - 1 /\ SUB_ORDER = g * q + r
  BY <1>1, <1>5
<1> HIDE DEF q, r, Multiples
<1>8. CASE r # 0
  <2> DEFINE k == 0 - b * q
  <2>1. k \in Int /\ r \in Scalars /\ r \in Points
    BY <1>1, <1>5, <1>7, <1>8 DEF Scalars, Points
  <2>2. d * k = r + SUB_ORDER * (0 - s * q - 1)
    <3>1. d * k = 0 - (d * b) * q
      BY <1>1, <1>7
    <3>2. (d * b) * q = SUB_ORDER * (s * q) + g * q
      BY <1>1, <1>5, <1>6, <1>7
    <3>3. g * q = SUB_ORDER - r
      BY <1>1, <1>5, <1>7
    <3>4. SUB_ORDER * (0 - s * q - 1) = 0 - SUB_ORDER * (s * q) - SUB_ORDER
      BY <1>1, <1>7
    <3>5. d * k = 0 - (SUB_ORDER * (s * q) + (SUB_ORDER - r))
      BY <3>1, <3>2, <3>3, Zenon
    <3>6. SUB_ORDER * (s * q) \in Int
      BY <1>1, <1>7
    <3> QED
      BY <3>4, <3>5, <3>6, <1>1, <2>1 DEF Points
  <2>3. (d * k) % SUB_ORDER = r
    <3>1. d * k \in Int /\ r \in Int /\ 0 - s * q - 1 \in Int
      BY <1>1, <2>1, <1>7 DEF Points
    <3>2. (d * k) % SUB_ORDER = r % SUB_ORDER
      BY <2>2, <3>1, ModSame
    <3> QED
      BY <2>1, <3>2, ModSmall
  <2>4. r \in Multiples
    BY <2>1, <2>3 DEF Multiples
  <2> QED
    BY <1>3, <1>5, <1>7, <2>4
<1>9. CASE r = 0
  <2>1. g = 1
    BY <1>5, <1>9, VSSAssumption DEF Scalars, r
  <2> DEFINE c == b % SUB_ORDER
  <2>2. c \in Points /\ Mul(d, c) = 1
    <3>1. c \in Points
      BY ModIs
    <3>2. Mul(c, d) = (b * d) % SUB_ORDER
      BY <1>1, ModInside DEF Mul
    <3>3. b * d = d * b
      BY <1>1
    <3> QED
      BY <1>1, <1>4, <2>1, <3>1, <3>2, <3>3, Commutes
  <2> HIDE DEF c
  <2>3. c # 0
    BY <1>1, <2>2, Units
  <2>4. c \in Scalars
    BY <2>2, <2>3 DEF Points, Scalars
  <2> QED
    BY <2>2, <2>4 DEF InvModSubOrder
<1> QED
  BY <1>8, <1>9

\* A scalar times a scalar is a scalar: no product of them is zero.
LEMMA NoZeroDivisors ==
    ASSUME NEW a \in Scalars, NEW b \in Scalars
    PROVE  Mul(a, b) \in Scalars
<1>1. a \in Points /\ b \in Points /\ InvModSubOrder(a) \in Points
  BY Inverts DEF Scalars, Points
<1>2. Mul(InvModSubOrder(a), Mul(a, b)) = b
  BY <1>1, Inverts, Associates, Commutes, Units
<1>3. Mul(a, b) # 0
  <2>1. Mul(InvModSubOrder(a), 0) = 0
    BY <1>1, Units
  <2>2. b # 0
    BY DEF Scalars
  <2> QED
    BY <1>2, <2>1, <2>2
<1> QED
  BY <1>1, <1>3, Closed DEF Scalars, Points

\* One factor times the inverse of a product is the inverse of the other.
LEMMA InverseOfProduct ==
    ASSUME NEW a \in Scalars, NEW b \in Scalars
    PROVE  Mul(InvModSubOrder(Mul(a, b)), b) = InvModSubOrder(a)
<1> DEFINE i == InvModSubOrder(Mul(a, b))
           j == InvModSubOrder(a)
<1>1. a \in Points /\ b \in Points /\ i \in Points /\ j \in Points
  <2>1. i \in Scalars /\ j \in Scalars
    BY Inverts, NoZeroDivisors
  <2> QED
    BY <2>1 DEF Scalars, Points
<1>2. Mul(Mul(a, b), i) = 1 /\ Mul(a, j) = 1
  BY Inverts, NoZeroDivisors
<1> HIDE DEF i, j
<1>3. Mul(i, b) \in Points /\ Mul(a, Mul(i, b)) = 1
  <2>1. Mul(a, Mul(i, b)) = Mul(Mul(a, b), i)
    BY <1>1, Closed, Associates, Commutes
  <2> QED
    BY <1>1, <1>2, <2>1, Closed
<1>4. Mul(j, Mul(a, Mul(i, b))) = Mul(Mul(a, j), Mul(i, b))
  BY <1>1, <1>3, Closed, Associates, Commutes
<1> QED
  BY <1>1, <1>2, <1>3, <1>4, Units DEF i, j

\* The difference of two members, added to the one, is the other.
LEMMA Differs ==
    ASSUME NEW a \in CommitteeIndices, NEW b \in CommitteeIndices
    PROVE  /\ a \in Scalars /\ a \in Points
           /\ Difference(a, b) \in Points /\ Add(Difference(a, b), b) = a
           /\ a # b => Difference(a, b) \in Scalars
<1>1. SUB_ORDER \in Nat /\ a \in Int /\ b \in Int /\ a > 0 /\ b > 0
      /\ a < SUB_ORDER /\ b < SUB_ORDER
  BY VSSAssumption DEF CommitteeIndices
<1>2. a \in Scalars /\ a \in Points /\ b \in Points
  BY <1>1 DEF Scalars, Points
<1>3. a - b + SUB_ORDER \in Int /\ Difference(a, b) \in Points
  <2>1. a - b + SUB_ORDER \in Int
    BY <1>1
  <2> QED
    BY <2>1, ModIs DEF Difference
<1>4. Add(Difference(a, b), b) = a
  <2> DEFINE x == (a - b + SUB_ORDER) + b
  <2>1. Add(Difference(a, b), b) = x % SUB_ORDER
    BY <1>1, <1>3, ModInside DEF Add, Difference
  <2>2. x \in Int /\ \E k \in Int : x = a + SUB_ORDER * k
    BY <1>1
  <2> HIDE DEF x
  <2>3. x % SUB_ORDER = a % SUB_ORDER
    BY <1>1, <2>2, ModSame
  <2> QED
    BY <1>2, <2>1, <2>3, ModSmall
<1>5. a # b => Difference(a, b) # 0
  BY <1>2, <1>4, Units
<1> QED
  BY <1>2, <1>3, <1>4, <1>5 DEF Scalars, Points

-----------------------------------------------------------------------------
(* Sums and products over the members.                                     *)

\* One number for each member.
Terms == [CommitteeIndices -> Points]

\* A product is what it was so far, times the next factor.
LEMMA ProductIs ==
    ASSUME NEW factor \in Terms
    PROVE  \E g \in [0 .. COMMITTEE_SIZE -> Points] :
             /\ Product(factor) = g[COMMITTEE_SIZE] /\ g[0] = 1
             /\ \A k \in CommitteeIndices : g[k] = Mul(g[k - 1], factor[k])
<1> DEFINE P(n, g) == g = [k \in 0 .. n |-> IF k = 0 THEN 1 ELSE Mul(g[k - 1], factor[k])]
           Good == {n \in 0 .. COMMITTEE_SIZE : \E g : P(n, g)}
<1>1. COMMITTEE_SIZE \in Nat
  BY VSSAssumption
<1>2. 0 \in Good
  <2>1. P(0, [k \in 0 .. 0 |-> 1])
    OBVIOUS
  <2> HIDE DEF P
  <2> QED
    BY <1>1, <2>1
<1>3. ASSUME NEW n \in 0 .. COMMITTEE_SIZE - 1, n \in Good PROVE n + 1 \in Good
  <2>1. PICK g : P(n, g)
    BY <1>3
  <2>2. P(n + 1, [k \in 0 .. n + 1 |-> IF k = n + 1 THEN Mul(g[n], factor[n + 1]) ELSE g[k]])
    BY <2>1
  <2> HIDE DEF P
  <2> QED
    BY <1>1, <1>3, <2>2
<1> HIDE DEF Good
<1>4. COMMITTEE_SIZE \in Good
  BY <1>1, <1>2, <1>3, Climb
<1>5. PICK g : P(COMMITTEE_SIZE, g) /\ Product(factor) = g[COMMITTEE_SIZE]
  BY <1>4 DEF Product, Good
<1>6. g[0] = 1 /\ \A k \in CommitteeIndices : g[k] = Mul(g[k - 1], factor[k])
  BY <1>1, <1>5 DEF CommitteeIndices
<1> DEFINE Right == {k \in 0 .. COMMITTEE_SIZE : g[k] \in Points}
<1>7. 0 \in Right
  BY <1>1, <1>6, VSSAssumption DEF Points
<1>8. ASSUME NEW k \in 0 .. COMMITTEE_SIZE - 1, k \in Right PROVE k + 1 \in Right
  <2>1. k + 1 \in CommitteeIndices /\ (k + 1) - 1 = k
    BY <1>1 DEF CommitteeIndices
  <2> QED
    BY <1>1, <1>6, <1>8, <2>1, Closed DEF Terms
<1> HIDE DEF Right
<1>9. 0 .. COMMITTEE_SIZE \subseteq Right
  BY <1>1, <1>7, <1>8, Climb
<1>10. g \in [0 .. COMMITTEE_SIZE -> Points]
  BY <1>5, <1>9 DEF Right
<1> QED
  BY <1>5, <1>6, <1>10

\* So is a sum, plus the next term.
LEMMA SumIs ==
    ASSUME NEW term \in Terms
    PROVE  \E g \in [0 .. COMMITTEE_SIZE -> Points] :
             /\ Sum(term) = g[COMMITTEE_SIZE] /\ g[0] = 0
             /\ \A k \in CommitteeIndices : g[k] = Add(g[k - 1], term[k])
<1> DEFINE P(n, g) == g = [k \in 0 .. n |-> IF k = 0 THEN 0 ELSE Add(g[k - 1], term[k])]
           Good == {n \in 0 .. COMMITTEE_SIZE : \E g : P(n, g)}
<1>1. COMMITTEE_SIZE \in Nat
  BY VSSAssumption
<1>2. 0 \in Good
  <2>1. P(0, [k \in 0 .. 0 |-> 0])
    OBVIOUS
  <2> HIDE DEF P
  <2> QED
    BY <1>1, <2>1
<1>3. ASSUME NEW n \in 0 .. COMMITTEE_SIZE - 1, n \in Good PROVE n + 1 \in Good
  <2>1. PICK g : P(n, g)
    BY <1>3
  <2>2. P(n + 1, [k \in 0 .. n + 1 |-> IF k = n + 1 THEN Add(g[n], term[n + 1]) ELSE g[k]])
    BY <2>1
  <2> HIDE DEF P
  <2> QED
    BY <1>1, <1>3, <2>2
<1> HIDE DEF Good
<1>4. COMMITTEE_SIZE \in Good
  BY <1>1, <1>2, <1>3, Climb
<1>5. PICK g : P(COMMITTEE_SIZE, g) /\ Sum(term) = g[COMMITTEE_SIZE]
  BY <1>4 DEF Sum, Good
<1>6. g[0] = 0 /\ \A k \in CommitteeIndices : g[k] = Add(g[k - 1], term[k])
  BY <1>1, <1>5 DEF CommitteeIndices
<1> DEFINE Right == {k \in 0 .. COMMITTEE_SIZE : g[k] \in Points}
<1>7. 0 \in Right
  BY <1>1, <1>6, VSSAssumption DEF Points
<1>8. ASSUME NEW k \in 0 .. COMMITTEE_SIZE - 1, k \in Right PROVE k + 1 \in Right
  <2>1. k + 1 \in CommitteeIndices /\ (k + 1) - 1 = k
    BY <1>1 DEF CommitteeIndices
  <2> QED
    BY <1>1, <1>6, <1>8, <2>1, Closed DEF Terms
<1> HIDE DEF Right
<1>9. 0 .. COMMITTEE_SIZE \subseteq Right
  BY <1>1, <1>7, <1>8, Climb
<1>10. g \in [0 .. COMMITTEE_SIZE -> Points]
  BY <1>5, <1>9 DEF Right
<1> QED
  BY <1>5, <1>6, <1>10

\* A product of scalars is a scalar.
LEMMA ProductScalar ==
    ASSUME NEW factor \in [CommitteeIndices -> Scalars]
    PROVE  Product(factor) \in Scalars
<1>1. COMMITTEE_SIZE \in Nat /\ factor \in Terms
  BY VSSAssumption DEF Scalars, Points, Terms
<1>2. PICK g \in [0 .. COMMITTEE_SIZE -> Points] :
             /\ Product(factor) = g[COMMITTEE_SIZE] /\ g[0] = 1
             /\ \A k \in CommitteeIndices : g[k] = Mul(g[k - 1], factor[k])
  BY <1>1, ProductIs
<1> DEFINE Good == {k \in 0 .. COMMITTEE_SIZE : g[k] \in Scalars}
<1>3. 0 \in Good
  BY <1>1, <1>2, VSSAssumption DEF Scalars
<1>4. ASSUME NEW k \in 0 .. COMMITTEE_SIZE - 1, k \in Good PROVE k + 1 \in Good
  <2>1. k + 1 \in CommitteeIndices /\ (k + 1) - 1 = k
    BY <1>1 DEF CommitteeIndices
  <2> QED
    BY <1>1, <1>2, <1>4, <2>1, NoZeroDivisors
<1> HIDE DEF Good
<1>5. 0 .. COMMITTEE_SIZE \subseteq Good
  BY <1>1, <1>3, <1>4, Climb
<1> QED
  BY <1>1, <1>2, <1>5 DEF Good

\* Putting a factor in place of a one multiplies the product by it.
LEMMA ProductWith ==
    ASSUME NEW factor \in Terms, NEW other \in Terms, NEW a \in CommitteeIndices,
           other[a] = 1, \A k \in CommitteeIndices \ {a} : factor[k] = other[k]
    PROVE  Product(factor) = Mul(Product(other), factor[a])
<1>1. COMMITTEE_SIZE \in Nat /\ a \in 1 .. COMMITTEE_SIZE /\ factor[a] \in Points
  BY VSSAssumption DEF CommitteeIndices, Terms
<1>2. PICK g \in [0 .. COMMITTEE_SIZE -> Points] :
             /\ Product(factor) = g[COMMITTEE_SIZE] /\ g[0] = 1
             /\ \A k \in CommitteeIndices : g[k] = Mul(g[k - 1], factor[k])
  BY ProductIs
<1>3. PICK h \in [0 .. COMMITTEE_SIZE -> Points] :
             /\ Product(other) = h[COMMITTEE_SIZE] /\ h[0] = 1
             /\ \A k \in CommitteeIndices : h[k] = Mul(h[k - 1], other[k])
  BY ProductIs
<1> DEFINE Good == {k \in 0 .. COMMITTEE_SIZE :
                      g[k] = IF k < a THEN h[k] ELSE Mul(h[k], factor[a])}
<1>4. 0 \in Good
  BY <1>1, <1>2, <1>3
<1>5. ASSUME NEW k \in 0 .. COMMITTEE_SIZE - 1, k \in Good PROVE k + 1 \in Good
  <2>1. k + 1 \in CommitteeIndices /\ (k + 1) - 1 = k /\ h[k] \in Points
        /\ factor[k + 1] \in Points /\ other[k + 1] \in Points
    BY <1>1, <1>3 DEF CommitteeIndices, Terms
  <2>2. g[k + 1] = Mul(g[k], factor[k + 1]) /\ h[k + 1] = Mul(h[k], other[k + 1])
    BY <1>2, <1>3, <2>1
  <2>3. CASE k + 1 = a
    <3>1. g[k] = h[k] /\ h[k + 1] = h[k]
      BY <1>1, <1>5, <2>1, <2>2, <2>3, Units
    <3> QED
      BY <1>1, <1>5, <2>2, <2>3, <3>1
  <2>4. CASE k + 1 < a
    BY <1>1, <1>5, <2>1, <2>2, <2>4
  <2>5. CASE k + 1 > a
    <3>1. g[k] = Mul(h[k], factor[a]) /\ factor[k + 1] = other[k + 1]
      BY <1>1, <1>5, <2>1, <2>5
    <3>2. /\ Mul(Mul(h[k], factor[a]), factor[k + 1]) = Mul(h[k], Mul(factor[a], factor[k + 1]))
          /\ Mul(Mul(h[k], factor[k + 1]), factor[a]) = Mul(h[k], Mul(factor[k + 1], factor[a]))
          /\ Mul(factor[a], factor[k + 1]) = Mul(factor[k + 1], factor[a])
      BY <1>1, <2>1, Associates, Commutes
    <3> QED
      BY <1>1, <1>5, <2>2, <2>5, <3>1, <3>2
  <2> QED
    BY <1>1, <2>3, <2>4, <2>5
<1> HIDE DEF Good
<1>6. 0 .. COMMITTEE_SIZE \subseteq Good
  BY <1>1, <1>4, <1>5, Climb
<1> QED
  BY <1>1, <1>2, <1>3, <1>6 DEF Good

\* Sums are added term by term.
LEMMA SumOfSums ==
    ASSUME NEW x \in Terms, NEW y \in Terms, NEW z \in Terms,
           \A k \in CommitteeIndices : z[k] = Add(x[k], y[k])
    PROVE  Sum(z) = Add(Sum(x), Sum(y)) /\ Sum(x) \in Points /\ Sum(y) \in Points
<1>1. COMMITTEE_SIZE \in Nat
  BY VSSAssumption
<1>2. PICK f \in [0 .. COMMITTEE_SIZE -> Points] :
             /\ Sum(x) = f[COMMITTEE_SIZE] /\ f[0] = 0
             /\ \A k \in CommitteeIndices : f[k] = Add(f[k - 1], x[k])
  BY SumIs
<1>3. PICK g \in [0 .. COMMITTEE_SIZE -> Points] :
             /\ Sum(y) = g[COMMITTEE_SIZE] /\ g[0] = 0
             /\ \A k \in CommitteeIndices : g[k] = Add(g[k - 1], y[k])
  BY SumIs
<1>4. PICK h \in [0 .. COMMITTEE_SIZE -> Points] :
             /\ Sum(z) = h[COMMITTEE_SIZE] /\ h[0] = 0
             /\ \A k \in CommitteeIndices : h[k] = Add(h[k - 1], z[k])
  BY SumIs
<1> DEFINE Good == {k \in 0 .. COMMITTEE_SIZE : h[k] = Add(f[k], g[k])}
<1>5. 0 \in Good
  <2>1. f[0] \in Points
    BY <1>1, <1>2
  <2> QED
    BY <1>1, <1>2, <1>3, <1>4, <2>1, Units
<1>6. ASSUME NEW k \in 0 .. COMMITTEE_SIZE - 1, k \in Good PROVE k + 1 \in Good
  <2>1. k + 1 \in CommitteeIndices /\ (k + 1) - 1 = k /\ f[k] \in Points /\ g[k] \in Points
        /\ x[k + 1] \in Points /\ y[k + 1] \in Points
    BY <1>1, <1>2, <1>3 DEF CommitteeIndices, Terms
  <2>2. h[k + 1] = Add(Add(f[k], g[k]), Add(x[k + 1], y[k + 1]))
    BY <1>4, <1>6, <2>1
  <2>3. Add(Add(f[k], g[k]), Add(x[k + 1], y[k + 1]))
          = Add(Add(f[k], x[k + 1]), Add(g[k], y[k + 1]))
    <3> DEFINE a == f[k] b == g[k] c == x[k + 1] d == y[k + 1]
    <3> HIDE DEF a, b, c, d
    <3>1. a \in Points /\ b \in Points /\ c \in Points /\ d \in Points
      BY <2>1 DEF a, b, c, d
    <3>2. Add(Add(a, b), Add(c, d)) = Add(a, Add(b, Add(c, d)))
          /\ Add(Add(a, c), Add(b, d)) = Add(a, Add(c, Add(b, d)))
      BY <3>1, Closed, Associates
    <3>3. Add(b, Add(c, d)) = Add(Add(b, c), d) /\ Add(c, Add(b, d)) = Add(Add(c, b), d)
          /\ Add(b, c) = Add(c, b)
      BY <3>1, Associates, Commutes
    <3> QED
      BY <3>2, <3>3 DEF a, b, c, d
  <2> QED
    BY <1>1, <1>2, <1>3, <2>1, <2>2, <2>3
<1> HIDE DEF Good
<1>7. 0 .. COMMITTEE_SIZE \subseteq Good
  BY <1>1, <1>5, <1>6, Climb
<1> QED
  BY <1>1, <1>2, <1>3, <1>4, <1>7 DEF Good

\* A common factor is taken out of a sum.
LEMMA SumOfMultiples ==
    ASSUME NEW c \in Points, NEW x \in Terms, NEW z \in Terms,
           \A k \in CommitteeIndices : z[k] = Mul(c, x[k])
    PROVE  Sum(z) = Mul(c, Sum(x)) /\ Sum(x) \in Points
<1>1. COMMITTEE_SIZE \in Nat
  BY VSSAssumption
<1>2. PICK f \in [0 .. COMMITTEE_SIZE -> Points] :
             /\ Sum(x) = f[COMMITTEE_SIZE] /\ f[0] = 0
             /\ \A k \in CommitteeIndices : f[k] = Add(f[k - 1], x[k])
  BY SumIs
<1>3. PICK h \in [0 .. COMMITTEE_SIZE -> Points] :
             /\ Sum(z) = h[COMMITTEE_SIZE] /\ h[0] = 0
             /\ \A k \in CommitteeIndices : h[k] = Add(h[k - 1], z[k])
  BY SumIs
<1> DEFINE Good == {k \in 0 .. COMMITTEE_SIZE : h[k] = Mul(c, f[k])}
<1>4. 0 \in Good
  BY <1>1, <1>2, <1>3, Units
<1>5. ASSUME NEW k \in 0 .. COMMITTEE_SIZE - 1, k \in Good PROVE k + 1 \in Good
  <2>1. k + 1 \in CommitteeIndices /\ (k + 1) - 1 = k /\ f[k] \in Points
        /\ x[k + 1] \in Points
    BY <1>1, <1>2 DEF CommitteeIndices, Terms
  <2>2. h[k + 1] = Add(Mul(c, f[k]), Mul(c, x[k + 1])) /\ f[k + 1] = Add(f[k], x[k + 1])
    BY <1>2, <1>3, <1>5, <2>1
  <2>3. h[k + 1] = Mul(c, f[k + 1])
    BY <2>1, <2>2, Distributes
  <2> QED
    BY <1>1, <2>3
<1> HIDE DEF Good
<1>6. 0 .. COMMITTEE_SIZE \subseteq Good
  BY <1>1, <1>4, <1>5, Climb
<1> QED
  BY <1>1, <1>2, <1>3, <1>6 DEF Good

\* Of one term beside zeros the sum is that term.
LEMMA SumOfOne ==
    ASSUME NEW a \in CommitteeIndices, NEW term \in Terms,
           \A k \in CommitteeIndices \ {a} : term[k] = 0
    PROVE  Sum(term) = term[a]
<1>1. COMMITTEE_SIZE \in Nat /\ a \in 1 .. COMMITTEE_SIZE /\ term[a] \in Points /\ 0 \in Points
  BY VSSAssumption DEF CommitteeIndices, Terms, Points
<1>2. PICK f \in [0 .. COMMITTEE_SIZE -> Points] :
             /\ Sum(term) = f[COMMITTEE_SIZE] /\ f[0] = 0
             /\ \A k \in CommitteeIndices : f[k] = Add(f[k - 1], term[k])
  BY SumIs
<1> DEFINE Good == {k \in 0 .. COMMITTEE_SIZE : f[k] = IF k < a THEN 0 ELSE term[a]}
<1>3. 0 \in Good
  BY <1>1, <1>2
<1>4. ASSUME NEW k \in 0 .. COMMITTEE_SIZE - 1, k \in Good PROVE k + 1 \in Good
  <2>1. k + 1 \in CommitteeIndices /\ (k + 1) - 1 = k
    BY <1>1 DEF CommitteeIndices
  <2>2. f[k + 1] = Add(f[k], term[k + 1])
    BY <1>2, <2>1
  <2>3. CASE k + 1 = a
    BY <1>1, <1>4, <2>2, <2>3, Units
  <2>4. CASE k + 1 # a
    <3>1. term[k + 1] = 0
      BY <2>1, <2>4
    <3>2. f[k] \in Points
      BY <1>2, <1>1
    <3>3. f[k + 1] = f[k]
      BY <2>2, <3>1, <3>2, Units
    <3> QED
      BY <1>1, <1>4, <2>1, <2>4, <3>3
  <2> QED
    BY <2>3, <2>4
<1> HIDE DEF Good
<1>5. 0 .. COMMITTEE_SIZE \subseteq Good
  BY <1>1, <1>3, <1>4, Climb
<1> QED
  BY <1>1, <1>2, <1>5 DEF Good

\* Of ones the product is one.
LEMMA ProductOfOnes ==
    ASSUME NEW factor \in Terms, \A k \in CommitteeIndices : factor[k] = 1
    PROVE  Product(factor) = 1
<1>1. COMMITTEE_SIZE \in Nat /\ 1 \in Points
  BY VSSAssumption DEF Points
<1>2. PICK g \in [0 .. COMMITTEE_SIZE -> Points] :
             /\ Product(factor) = g[COMMITTEE_SIZE] /\ g[0] = 1
             /\ \A k \in CommitteeIndices : g[k] = Mul(g[k - 1], factor[k])
  BY ProductIs
<1> DEFINE Good == {k \in 0 .. COMMITTEE_SIZE : g[k] = 1}
<1>3. 0 \in Good
  BY <1>1, <1>2
<1>4. ASSUME NEW k \in 0 .. COMMITTEE_SIZE - 1, k \in Good PROVE k + 1 \in Good
  <2>1. k + 1 \in CommitteeIndices /\ (k + 1) - 1 = k
    BY <1>1 DEF CommitteeIndices
  <2> QED
    BY <1>1, <1>2, <1>4, <2>1, Units
<1> HIDE DEF Good
<1>5. 0 .. COMMITTEE_SIZE \subseteq Good
  BY <1>1, <1>3, <1>4, Climb
<1> QED
  BY <1>1, <1>2, <1>5 DEF Good

-----------------------------------------------------------------------------
(* Interpolation.                                                          *)

\* The factors of a coefficient.
Numerators(M, i) == [j \in CommitteeIndices |-> IF j \in M \ {i} THEN j ELSE 1]
Denominators(M, i) ==
    [j \in CommitteeIndices |-> IF j \in M \ {i} THEN Difference(j, i) ELSE 1]

\* A coefficient is their quotient, and no denominator is zero.
LEMMA LagrangeIs ==
    ASSUME NEW M \in SUBSET CommitteeIndices, NEW i \in CommitteeIndices
    PROVE  /\ LagrangeCoefficient(M, i)
                = Mul(Product(Numerators(M, i)), InvModSubOrder(Product(Denominators(M, i))))
           /\ Numerators(M, i) \in Terms /\ Denominators(M, i) \in Terms
           /\ Product(Numerators(M, i)) \in Scalars /\ Product(Denominators(M, i)) \in Scalars
           /\ LagrangeCoefficient(M, i) \in Points
<1>1. 1 \in Scalars /\ Scalars \subseteq Points
  BY VSSAssumption DEF Scalars, Points
<1>2. Numerators(M, i) \in [CommitteeIndices -> Scalars]
  BY <1>1, Differs DEF Numerators
<1>3. Denominators(M, i) \in [CommitteeIndices -> Scalars]
  BY <1>1, Differs DEF Denominators
<1>4. Numerators(M, i) \in Terms /\ Denominators(M, i) \in Terms
  BY <1>1, <1>2, <1>3 DEF Terms
<1>5. Product(Numerators(M, i)) \in Scalars /\ Product(Denominators(M, i)) \in Scalars
  BY <1>2, <1>3, ProductScalar
<1>6. LagrangeCoefficient(M, i)
        = Mul(Product(Numerators(M, i)), InvModSubOrder(Product(Denominators(M, i))))
  BY Zenon DEF LagrangeCoefficient, Numerators, Denominators
<1>7. InvModSubOrder(Product(Denominators(M, i))) \in Scalars
  BY <1>5, Inverts
<1>8. LagrangeCoefficient(M, i) \in Points
  BY <1>1, <1>5, <1>6, <1>7, Closed
<1> QED
  BY <1>4, <1>5, <1>6, <1>8

\* One member more multiplies a coefficient by a / (a - i).
LEMMA LagrangeWith ==
    ASSUME NEW M \in SUBSET CommitteeIndices, NEW a \in M, NEW i \in M, a # i
    PROVE  Mul(LagrangeCoefficient(M, i), Difference(a, i))
             = Mul(a, LagrangeCoefficient(M \ {a}, i))
<1> DEFINE L == M \ {a}
           n == Product(Numerators(L, i))
           d == Product(Denominators(L, i))
           e == Difference(a, i)
<1>1. /\ M \in SUBSET CommitteeIndices /\ L \in SUBSET CommitteeIndices
      /\ a \in CommitteeIndices /\ i \in CommitteeIndices
  OBVIOUS
<1>2. e \in Scalars /\ n \in Scalars /\ d \in Scalars /\ a \in Scalars
  BY <1>1, Differs, LagrangeIs
<1>3. Product(Numerators(M, i)) = Mul(n, a)
  <2>1. Numerators(L, i)[a] = 1 /\ Numerators(M, i)[a] = a
        /\ \A k \in CommitteeIndices \ {a} : Numerators(M, i)[k] = Numerators(L, i)[k]
    BY <1>1 DEF Numerators
  <2>2. Numerators(M, i) \in Terms /\ Numerators(L, i) \in Terms
    BY <1>1, LagrangeIs
  <2> HIDE DEF L
  <2> QED
    BY <1>1, <2>1, <2>2, ProductWith
<1>4. Product(Denominators(M, i)) = Mul(d, e)
  <2>1. Denominators(L, i)[a] = 1 /\ Denominators(M, i)[a] = e
        /\ \A k \in CommitteeIndices \ {a} : Denominators(M, i)[k] = Denominators(L, i)[k]
    BY <1>1 DEF Denominators
  <2>2. Denominators(M, i) \in Terms /\ Denominators(L, i) \in Terms
    BY <1>1, LagrangeIs
  <2> HIDE DEF L
  <2> QED
    BY <1>1, <2>1, <2>2, ProductWith
<1>5. LagrangeCoefficient(M, i) = Mul(Mul(n, a), InvModSubOrder(Mul(d, e)))
  BY <1>1, <1>3, <1>4, LagrangeIs
<1>6. LagrangeCoefficient(L, i) = Mul(n, InvModSubOrder(d))
  BY <1>1, LagrangeIs
<1> HIDE DEF n, d, e, L
<1> DEFINE s == InvModSubOrder(Mul(d, e))
<1>7. Mul(s, e) = InvModSubOrder(d)
  BY <1>2, InverseOfProduct
<1>8. s \in Scalars
  BY <1>2, Inverts, NoZeroDivisors
<1> HIDE DEF s
<1>9. n \in Points /\ a \in Points /\ s \in Points /\ e \in Points
  BY <1>2, <1>8 DEF Scalars, Points
<1>10. Mul(Mul(Mul(n, a), s), e) = Mul(a, Mul(n, Mul(s, e)))
  <2> DEFINE na == Mul(n, a)
             se == Mul(s, e)
  <2>1. na \in Points /\ se \in Points /\ na = Mul(a, n)
    BY <1>9, Closed, Commutes
  <2>2. Mul(Mul(na, s), e) = Mul(na, se)
    BY <1>9, <2>1, Associates
  <2>3. Mul(Mul(a, n), se) = Mul(a, Mul(n, se))
    BY <1>9, <2>1, Associates
  <2> QED
    BY <2>1, <2>2, <2>3
<1> QED
  BY <1>5, <1>6, <1>7, <1>10 DEF L, e, s

\* The values at the members, each with its coefficient.
Weighted(M, value) ==
    Sum([m \in CommitteeIndices |->
           IF m \in M THEN Mul(LagrangeCoefficient(M, m), value[m]) ELSE 0])

\* With one member more, a times the sum is that of the values times their member,
\* and a times the sum without a.
LEMMA WeightedWith ==
    ASSUME NEW M \in SUBSET CommitteeIndices, NEW a \in M,
           NEW value \in Terms, NEW times \in Terms,
           \A m \in CommitteeIndices : times[m] = Mul(value[m], m)
    PROVE  /\ Mul(a, Weighted(M, value))
                = Add(Weighted(M, times), Mul(a, Weighted(M \ {a}, value)))
           /\ Weighted(M, value) \in Points /\ Weighted(M, times) \in Points
           /\ Weighted(M \ {a}, value) \in Points
<1> DEFINE L == M \ {a}
           x == [m \in CommitteeIndices |->
                   IF m \in M THEN Mul(LagrangeCoefficient(M, m), value[m]) ELSE 0]
           y == [m \in CommitteeIndices |->
                   IF m \in M THEN Mul(LagrangeCoefficient(M, m), times[m]) ELSE 0]
           z == [m \in CommitteeIndices |->
                   IF m \in L THEN Mul(LagrangeCoefficient(L, m), value[m]) ELSE 0]
           ax == [m \in CommitteeIndices |-> Mul(a, x[m])]
           az == [m \in CommitteeIndices |-> Mul(a, z[m])]
<1>1. M \in SUBSET CommitteeIndices /\ L \in SUBSET CommitteeIndices
      /\ a \in CommitteeIndices /\ a \in Points /\ 0 \in Points
  BY Differs, Units
<1>2. \A m \in CommitteeIndices : value[m] \in Points /\ times[m] \in Points /\ m \in Points
  BY Differs DEF Terms
<1>3. \A m \in CommitteeIndices : LagrangeCoefficient(M, m) \in Points
                                  /\ LagrangeCoefficient(L, m) \in Points
  BY <1>1, LagrangeIs
<1>4. x \in Terms /\ y \in Terms /\ z \in Terms
  BY <1>1, <1>2, <1>3, Closed DEF Terms
<1>5. ax \in Terms /\ az \in Terms
  BY <1>1, <1>4, Closed DEF Terms
<1>6. ASSUME NEW m \in CommitteeIndices PROVE ax[m] = Add(y[m], az[m])
  <2>1. CASE m \notin M
    BY <1>1, <2>1, Units
  <2>2. CASE m = a
    <3>1. ax[m] = Mul(a, Mul(LagrangeCoefficient(M, a), value[a]))
      BY <1>1, <2>2
    <3>2. y[m] = Mul(LagrangeCoefficient(M, a), Mul(value[a], a))
      BY <1>1, <2>2
    <3>3. az[m] = Mul(a, 0)
      BY <2>2
    <3>4. Mul(LagrangeCoefficient(M, a), Mul(value[a], a))
            = Mul(Mul(LagrangeCoefficient(M, a), value[a]), a)
      BY <1>1, <1>2, <1>3, Associates
    <3>5. Mul(Mul(LagrangeCoefficient(M, a), value[a]), a)
            = Mul(a, Mul(LagrangeCoefficient(M, a), value[a]))
      BY <1>1, <1>2, <1>3, Closed, Commutes
    <3>6. y[m] \in Points /\ az[m] = 0
      BY <1>1, <1>4, <3>3, Units DEF Terms
    <3> QED
      BY <3>1, <3>2, <3>4, <3>5, <3>6, Units
  <2>3. CASE m \in M /\ m # a
    <3> DEFINE l == LagrangeCoefficient(M, m)
               k == LagrangeCoefficient(L, m)
               v == value[m]
               d == Difference(a, m)
    <3>1. ax[m] = Mul(a, Mul(l, v)) /\ az[m] = Mul(a, Mul(k, v)) /\ y[m] = Mul(l, Mul(v, m))
      BY <2>3
    <3>2. Mul(l, d) = Mul(a, k)
      BY <2>3, LagrangeWith
    <3>3. l \in Points /\ k \in Points /\ v \in Points /\ m \in Points /\ a \in Points
          /\ d \in Points /\ Add(d, m) = a
      BY <1>1, <1>2, <1>3, Differs
    <3> HIDE DEF l, k, v, d
    <3>4. Mul(l, v) \in Points
      BY <3>3, Closed
    <3>5. Mul(a, Mul(l, v)) = Add(Mul(d, Mul(l, v)), Mul(m, Mul(l, v)))
      BY <3>3, <3>4, Distributes
    <3>6. Mul(d, Mul(l, v)) = Mul(a, Mul(k, v))
      <4>1. Mul(d, Mul(l, v)) = Mul(Mul(l, d), v)
        BY <3>3, Associates, Commutes
      <4> QED
        BY <3>2, <3>3, <4>1, Associates
    <3>7. Mul(m, Mul(l, v)) = Mul(l, Mul(v, m))
      BY <3>3, <3>4, Associates, Commutes
    <3>8. Mul(a, Mul(k, v)) \in Points /\ Mul(l, Mul(v, m)) \in Points
      BY <3>3, Closed
    <3> QED
      BY <3>1, <3>5, <3>6, <3>7, <3>8, Commutes
  <2> QED
    BY <2>1, <2>2, <2>3
<1>7. Weighted(M, value) = Sum(x) /\ Weighted(M, times) = Sum(y) /\ Weighted(L, value) = Sum(z)
  BY DEF Weighted
<1> HIDE DEF x, y, z, L
<1>8. Sum(ax) = Mul(a, Sum(x)) /\ Sum(x) \in Points
  <2>1. \A m \in CommitteeIndices : ax[m] = Mul(a, x[m])
    OBVIOUS
  <2> HIDE DEF ax
  <2> QED
    BY <1>1, <1>4, <1>5, <2>1, SumOfMultiples
<1>9. Sum(az) = Mul(a, Sum(z)) /\ Sum(z) \in Points
  <2>1. \A m \in CommitteeIndices : az[m] = Mul(a, z[m])
    OBVIOUS
  <2> HIDE DEF az
  <2> QED
    BY <1>1, <1>4, <1>5, <2>1, SumOfMultiples
<1>10. Sum(ax) = Add(Sum(y), Sum(az)) /\ Sum(y) \in Points
  <2> HIDE DEF ax, az
  <2> QED
    BY <1>4, <1>5, <1>6, SumOfSums
<1> QED
  BY <1>7, <1>8, <1>9, <1>10 DEF L

\* The powers of a member.
Powers(i, n) ==
    LET power[j \in 0 .. n] == IF j = 0 THEN 1 ELSE Mul(power[j - 1], i) IN power

\* Each is the one before, times the member.
LEMMA PowersAre ==
    ASSUME NEW i \in Points, NEW n \in Nat
    PROVE  /\ Powers(i, n) \in [0 .. n -> Points] /\ Powers(i, n)[0] = 1
           /\ \A k \in 1 .. n : Powers(i, n)[k] = Mul(Powers(i, n)[k - 1], i)
<1> DEFINE P(m, g) == g = [k \in 0 .. m |-> IF k = 0 THEN 1 ELSE Mul(g[k - 1], i)]
           Good == {m \in 0 .. n : \E g : P(m, g)}
<1>1. 0 \in Good
  <2>1. P(0, [k \in 0 .. 0 |-> 1])
    OBVIOUS
  <2> HIDE DEF P
  <2> QED
    BY <2>1
<1>2. ASSUME NEW m \in 0 .. n - 1, m \in Good PROVE m + 1 \in Good
  <2>1. PICK g : P(m, g)
    BY <1>2
  <2>2. P(m + 1, [k \in 0 .. m + 1 |-> IF k = m + 1 THEN Mul(g[m], i) ELSE g[k]])
    BY <2>1
  <2> HIDE DEF P
  <2> QED
    BY <1>2, <2>2
<1> HIDE DEF Good
<1>3. 0 .. n \subseteq Good
  BY <1>1, <1>2, Climb
<1> DEFINE g == Powers(i, n)
<1>4. P(n, g)
  <2>1. \E h : P(n, h)
    BY <1>3 DEF Good
  <2> QED
    BY <2>1, Zenon DEF Powers
<1> HIDE DEF g
<1>5. g[0] = 1 /\ \A k \in 1 .. n : g[k] = Mul(g[k - 1], i)
  BY <1>4
<1> DEFINE Right == {k \in 0 .. n : g[k] \in Points}
<1>6. 0 \in Right
  BY <1>5, Units
<1>7. ASSUME NEW k \in 0 .. n - 1, k \in Right PROVE k + 1 \in Right
  <2>1. k + 1 \in 1 .. n /\ (k + 1) - 1 = k
    OBVIOUS
  <2> QED
    BY <1>5, <1>7, <2>1, Closed
<1> HIDE DEF Right
<1>8. 0 .. n \subseteq Right
  BY <1>6, <1>7, Climb
<1>9. g \in [0 .. n -> Points]
  BY <1>4, <1>8 DEF Right
<1> QED
  BY <1>5, <1>9 DEF g

\* At zero, interpolation of the values 1 gives 1, and of the powers of the members
\* gives 0 as long as there are more members than the power.
LEMMA Interpolates ==
    ASSUME NEW M \in SUBSET CommitteeIndices, M # {}, NEW n \in Nat, n > 0
    PROVE  \A k \in 0 .. n : k < Cardinality(M) =>
             Weighted(M, [m \in CommitteeIndices |-> Powers(m, n)[k]]) = IF k = 0 THEN 1 ELSE 0
<1> DEFINE value(k) == [m \in CommitteeIndices |-> Powers(m, n)[k]]
           Right(L) == \A k \in 0 .. n : k < Cardinality(L) =>
                         Weighted(L, value(k)) = IF k = 0 THEN 1 ELSE 0
           Wrong == {Cardinality(L) :
                       L \in {S \in SUBSET CommitteeIndices : S # {} /\ ~Right(S)}}
<1>1. COMMITTEE_SIZE \in Nat /\ IsFiniteSet(CommitteeIndices)
  BY VSSAssumption, FS_Interval DEF CommitteeIndices
<1>2. \A L \in SUBSET CommitteeIndices : IsFiniteSet(L) /\ Cardinality(L) \in Nat
  BY <1>1, FS_Subset, FS_CardinalityType
<1>3. \A k \in 0 .. n : value(k) \in Terms
  <2> SUFFICES ASSUME NEW k \in 0 .. n, NEW m \in CommitteeIndices
               PROVE  Powers(m, n)[k] \in Points
    BY DEF Terms
  <2>1. m \in Points
    BY Differs
  <2>2. Powers(m, n) \in [0 .. n -> Points]
    BY <2>1, PowersAre
  <2> QED
    BY <2>2
<1>4. \A k \in 0 .. n - 1 : \A m \in CommitteeIndices :
        k + 1 \in 0 .. n /\ value(k + 1)[m] = Mul(value(k)[m], m)
  <2> SUFFICES ASSUME NEW k \in 0 .. n - 1, NEW m \in CommitteeIndices
               PROVE  Powers(m, n)[k + 1] = Mul(Powers(m, n)[k], m)
    OBVIOUS
  <2>1. m \in Points /\ k + 1 \in 1 .. n /\ (k + 1) - 1 = k
    BY Differs
  <2>2. \A j \in 1 .. n : Powers(m, n)[j] = Mul(Powers(m, n)[j - 1], m)
    BY <2>1, PowersAre
  <2> QED
    BY <2>1, <2>2
<1>5. \A m \in CommitteeIndices : value(0)[m] = 1
  BY PowersAre, Differs
<1> HIDE DEF value
<1>6. SUFFICES Wrong = {}
  BY DEF value
<1>7. SUFFICES ASSUME Wrong # {} PROVE FALSE
  OBVIOUS
<1>8. PICK c \in Wrong : \A d \in Wrong : c <= d
  <2>1. Wrong \in SUBSET Nat
    BY <1>2
  <2> HIDE DEF Wrong
  <2> QED
    BY <1>7, <2>1, LeastMember
<1>9. PICK L \in SUBSET CommitteeIndices : c = Cardinality(L) /\ L # {} /\ ~Right(L)
  BY <1>8
<1>10. IsFiniteSet(L) /\ Cardinality(L) \in Nat
  BY <1>2
<1>11. \A a \in L : L \ {a} # {} => Right(L \ {a}) /\ Cardinality(L \ {a}) = Cardinality(L) - 1
  <2> SUFFICES ASSUME NEW a \in L, L \ {a} # {}
               PROVE  Right(L \ {a}) /\ Cardinality(L \ {a}) = Cardinality(L) - 1
    OBVIOUS
  <2>1. Cardinality(L \ {a}) = Cardinality(L) - 1
    BY <1>10, FS_RemoveElement
  <2>2. Right(L \ {a})
    <3> SUFFICES ASSUME ~Right(L \ {a}) PROVE FALSE
      OBVIOUS
    <3>1. Cardinality(L \ {a}) \in Wrong
      OBVIOUS
    <3> QED
      BY <1>8, <1>9, <1>10, <2>1, <3>1
  <2> QED
    BY <2>1, <2>2
<1> HIDE DEF Wrong, Right
<1>12. CASE \E a \in L : L = {a}
  <2>1. PICK a \in L : L = {a}
    BY <1>12
  <2>2. Cardinality(L) = 1
    BY <2>1, FS_Singleton
  <2>3. LagrangeCoefficient(L, a) = 1
    <3>1. a \in CommitteeIndices
      OBVIOUS
    <3>2. Product(Numerators(L, a)) = 1 /\ Product(Denominators(L, a)) = 1
      <4>1. \A k \in CommitteeIndices : Numerators(L, a)[k] = 1 /\ Denominators(L, a)[k] = 1
        BY <2>1 DEF Numerators, Denominators
      <4> QED
        BY <3>1, <4>1, LagrangeIs, ProductOfOnes
    <3>3. 1 \in Scalars /\ InvModSubOrder(1) \in Points
      BY Inverts, VSSAssumption DEF Scalars, Points
    <3>4. LagrangeCoefficient(L, a) = Mul(1, InvModSubOrder(1))
      BY <3>1, <3>2, LagrangeIs
    <3> QED
      BY <3>3, <3>4, Inverts
  <2>4. Weighted(L, value(0)) = 1
    <3> DEFINE x == [m \in CommitteeIndices |->
                       IF m \in L THEN Mul(LagrangeCoefficient(L, m), value(0)[m]) ELSE 0]
    <3>1. a \in CommitteeIndices /\ x[a] = 1 /\ \A m \in CommitteeIndices \ {a} : x[m] = 0
      <4>1. 1 \in Points /\ Mul(1, 1) = 1
        BY VSSAssumption, Units DEF Points
      <4>2. x[a] = Mul(LagrangeCoefficient(L, a), value(0)[a])
        BY <2>1
      <4>3. \A m \in CommitteeIndices \ {a} : x[m] = 0
        BY <2>1
      <4> QED
        BY <1>5, <2>3, <4>1, <4>2, <4>3
    <3>2. x \in Terms
      <4>1. 1 \in Points /\ 0 \in Points
        BY VSSAssumption DEF Points
      <4>2. \A m \in CommitteeIndices : x[m] \in Points
        BY <3>1, <4>1
      <4> QED
        BY <4>2 DEF Terms
    <3> HIDE DEF x
    <3>3. Sum(x) = 1
      BY <3>1, <3>2, SumOfOne
    <3> QED
      BY <3>3 DEF Weighted, x
  <2> QED
    BY <1>9, <2>2, <2>4 DEF Right
<1>13. CASE \E a, b \in L : a # b
  <2>1. PICK a \in L, b \in L : a # b
    BY <1>13
  <2>2. a \in CommitteeIndices /\ b \in CommitteeIndices /\ a \in Points /\ b \in Points
    BY Differs
  <2>3. Cardinality(L) > 1
    <3>1. L \ {a} # {}
      BY <2>1
    <3>2. Cardinality(L \ {a}) # 0
      BY <1>2, <3>1, FS_EmptySet
    <3>3. Cardinality(L \ {a}) \in Nat /\ Cardinality(L \ {a}) = Cardinality(L) - 1
      BY <1>2, <1>11, <3>1
    <3> QED
      BY <1>10, <3>2, <3>3
  <2>4. \A k \in 0 .. n - 1 : \A e \in {a, b} :
          /\ Mul(e, Weighted(L, value(k)))
               = Add(Weighted(L, value(k + 1)), Mul(e, Weighted(L \ {e}, value(k))))
          /\ Weighted(L, value(k)) \in Points /\ Weighted(L, value(k + 1)) \in Points
    BY <1>3, <1>4, WeightedWith
  <2>5. \A k \in 0 .. n - 1 : \A e \in {a, b} : k < Cardinality(L) - 1 =>
          Weighted(L \ {e}, value(k)) = IF k = 0 THEN 1 ELSE 0
    <3> SUFFICES ASSUME NEW k \in 0 .. n - 1, NEW e \in {a, b}, k < Cardinality(L) - 1
                 PROVE  Weighted(L \ {e}, value(k)) = IF k = 0 THEN 1 ELSE 0
      OBVIOUS
    <3>1. e \in L /\ L \ {e} # {} /\ k \in 0 .. n
      BY <2>1
    <3>2. Right(L \ {e}) /\ k < Cardinality(L \ {e})
      BY <1>11, <3>1
    <3> QED
      BY <3>1, <3>2 DEF Right
  <2> DEFINE w(k) == Weighted(L, value(k))
  <2>6. /\ w(0) \in Points /\ w(1) \in Points
        /\ Mul(a, w(0)) = Add(w(1), a) /\ Mul(b, w(0)) = Add(w(1), b)
    <3>1. 0 \in 0 .. n - 1 /\ 0 < Cardinality(L) - 1 /\ 0 + 1 = 1
      BY <2>3, <1>10
    <3> QED
      BY <3>1, <2>2, <2>4, <2>5, Units
  <2>7. w(0) = 1
    <3> DEFINE d == Difference(a, b)
               v == w(0)
               u == w(1)
    <3>1. d \in Scalars /\ d \in Points /\ Add(d, b) = a
      BY <2>1, <2>2, Differs
    <3>2. v \in Points /\ u \in Points /\ Mul(a, v) = Add(u, a) /\ Mul(b, v) = Add(u, b)
      BY <2>6
    <3> HIDE DEF d, v, u
    <3>3. Mul(a, v) = Add(Mul(d, v), Add(u, b))
      BY <2>2, <3>1, <3>2, Distributes
    <3>4. Add(u, a) = Add(d, Add(u, b))
      <4>1. Add(u, Add(d, b)) = Add(Add(u, d), b) /\ Add(d, Add(u, b)) = Add(Add(d, u), b)
            /\ Add(u, d) = Add(d, u)
        BY <2>2, <3>1, <3>2, Associates, Commutes
      <4> QED
        BY <3>1, <4>1
    <3>5. Mul(d, v) = d
      <4>1. Mul(d, v) \in Points /\ Add(u, b) \in Points
        BY <2>2, <3>1, <3>2, Closed
      <4>2. Add(Mul(d, v), Add(u, b)) = Add(d, Add(u, b))
        BY <3>2, <3>3, <3>4
      <4> QED
        BY <3>1, <4>1, <4>2, Cancels
    <3> DEFINE i == InvModSubOrder(d)
    <3>6. i \in Points /\ Mul(d, i) = 1
      BY <3>1, Inverts DEF Scalars, Points
    <3> HIDE DEF i
    <3>7. Mul(i, Mul(d, v)) = v
      <4>1. Mul(Mul(i, d), v) = Mul(i, Mul(d, v)) /\ Mul(i, d) = 1
        BY <3>1, <3>2, <3>6, Associates, Commutes
      <4> QED
        BY <3>2, <4>1, Units
    <3>8. Mul(i, d) = 1
      BY <3>1, <3>6, Commutes
    <3> QED
      BY <3>5, <3>7, <3>8 DEF v
  <2>8. w(1) = 0
    <3>1. Add(w(1), a) = Add(0, a)
      BY <2>2, <2>6, <2>7, Units
    <3> QED
      BY <2>2, <2>6, <3>1, Cancels, Units
  <2> DEFINE Good == {k \in 0 .. n : k < Cardinality(L) => w(k) = IF k = 0 THEN 1 ELSE 0}
  <2>9. 0 \in Good
    BY <2>7
  <2>10. ASSUME NEW k \in 0 .. n - 1, k \in Good PROVE k + 1 \in Good
    <3>1. CASE k = 0
      BY <2>8, <2>10, <3>1
    <3>2. CASE k # 0 /\ k + 1 < Cardinality(L)
      <4>1. w(k) = 0 /\ Weighted(L \ {a}, value(k)) = 0
        BY <1>10, <2>5, <2>10, <3>2
      <4>2. Mul(a, 0) = Add(w(k + 1), Mul(a, 0)) /\ w(k + 1) \in Points
        BY <2>4, <4>1
      <4>3. w(k + 1) = 0
        BY <2>2, <4>2, Units
      <4> QED
        BY <4>3
    <3>3. CASE ~(k + 1 < Cardinality(L))
      BY <3>3
    <3> QED
      BY <3>1, <3>2, <3>3
  <2> HIDE DEF Good
  <2>11. 0 .. n \subseteq Good
    BY <2>9, <2>10, Climb
  <2> QED
    BY <1>9, <2>11 DEF Good, Right
<1> QED
  BY <1>9, <1>12, <1>13

\* The share of a member, one coefficient after the other.
Partial(i, commitments) ==
    LET n == Len(commitments)
        power[j \in 0 .. n] == IF j = 0 THEN 1 ELSE Mul(power[j - 1], i)
        acc[j \in 0 .. n] ==
          IF j = 0 THEN 0 ELSE Add(acc[j - 1], Mul(commitments[j], power[j - 1]))
    IN acc

\* A coefficient more adds it times the power it belongs to.
LEMMA ShareIs ==
    ASSUME NEW C \in Seq(Scalars), NEW i \in Points
    PROVE  /\ ExpectedPublicShare(i, C) = Partial(i, C)[Len(C)]
           /\ Partial(i, C) \in [0 .. Len(C) -> Points] /\ Partial(i, C)[0] = 0
           /\ \A j \in 1 .. Len(C) :
                Partial(i, C)[j] =
                  Add(Partial(i, C)[j - 1], Mul(C[j], Powers(i, Len(C))[j - 1]))
<1> DEFINE n == Len(C)
           w == Powers(i, n)
           P(m, g) == g = [j \in 0 .. m |-> IF j = 0 THEN 0
                                            ELSE Add(g[j - 1], Mul(C[j], w[j - 1]))]
           Good == {m \in 0 .. n : \E g : P(m, g)}
<1>1. n \in Nat
  OBVIOUS
<1>2. w \in [0 .. n -> Points] /\ \A j \in 1 .. n : C[j] \in Points
  <2>1. \A j \in 1 .. n : C[j] \in Scalars
    OBVIOUS
  <2>2. w \in [0 .. n -> Points]
    BY <1>1, PowersAre
  <2> QED
    BY <2>1, <2>2 DEF Scalars, Points
<1>3. Partial(i, C) = CHOOSE g : P(n, g)
  BY Zenon DEF Partial, Powers
<1> HIDE DEF n, w
<1>4. 0 \in Good
  <2>1. P(0, [j \in 0 .. 0 |-> 0])
    OBVIOUS
  <2> HIDE DEF P
  <2> QED
    BY <1>1, <2>1
<1>5. ASSUME NEW m \in 0 .. n - 1, m \in Good PROVE m + 1 \in Good
  <2>1. PICK g : P(m, g)
    BY <1>5
  <2>2. P(m + 1, [j \in 0 .. m + 1 |-> IF j = m + 1 THEN Add(g[m], Mul(C[m + 1], w[m]))
                                       ELSE g[j]])
    BY <2>1
  <2> HIDE DEF P
  <2> QED
    BY <1>1, <1>5, <2>2
<1> HIDE DEF Good
<1>6. 0 .. n \subseteq Good
  BY <1>1, <1>4, <1>5, Climb
<1> DEFINE g == Partial(i, C)
<1>7. P(n, g)
  <2> HIDE DEF P
  <2>1. \E h : P(n, h)
    BY <1>1, <1>6 DEF Good
  <2> QED
    BY <1>3, <2>1, Zenon
<1>8. ExpectedPublicShare(i, C) = g[n]
  BY Zenon DEF ExpectedPublicShare, Partial, n
<1> HIDE DEF g
<1>9. g[0] = 0 /\ \A j \in 1 .. n : g[j] = Add(g[j - 1], Mul(C[j], w[j - 1]))
  BY <1>1, <1>7
<1> DEFINE Right == {k \in 0 .. n : g[k] \in Points}
<1>10. 0 \in Right
  BY <1>1, <1>9, Units
<1>11. ASSUME NEW k \in 0 .. n - 1, k \in Right PROVE k + 1 \in Right
  <2>1. k + 1 \in 1 .. n /\ (k + 1) - 1 = k
    BY <1>1
  <2>2. Mul(C[k + 1], w[k]) \in Points
    BY <1>1, <1>2, <2>1, Closed
  <2> QED
    BY <1>1, <1>9, <1>11, <2>1, <2>2, Closed
<1> HIDE DEF Right
<1>12. 0 .. n \subseteq Right
  BY <1>1, <1>10, <1>11, Climb
<1>13. g \in [0 .. n -> Points]
  BY <1>7, <1>12 DEF Right
<1> QED
  BY <1>8, <1>9, <1>13 DEF g, n, w

\* The point everything interpolates to: any members, as many as there are
\* coefficients or more, make of what their shares do to r what the secret does.
THEOREM SharesCombine ==
    ASSUME NEW C \in Seq(Scalars), Len(C) > 0, NEW r \in Points,
           NEW M \in SUBSET CommitteeIndices, Cardinality(M) >= Len(C)
    PROVE  Interpolate([m \in M |-> Mul(r, ExpectedPublicShare(m, C))]) = Mul(C[1], r)
<1> DEFINE n == Len(C)
           lambda(m) == LagrangeCoefficient(M, m)
           T(j) == [m \in CommitteeIndices |->
                      IF m \in M THEN Mul(Mul(r, Partial(m, C)[j]), lambda(m)) ELSE 0]
           value(j) == [m \in CommitteeIndices |-> Powers(m, n)[j]]
           U(j) == [m \in CommitteeIndices |->
                      IF m \in M THEN Mul(lambda(m), value(j)[m]) ELSE 0]
           V(j) == [m \in CommitteeIndices |-> Mul(Mul(r, C[j]), U(j - 1)[m])]
<1>1. n \in Nat /\ n > 0 /\ 0 \in Points /\ \A j \in 1 .. n : C[j] \in Points
  <2>1. n \in Nat /\ n > 0 /\ \A j \in 1 .. n : C[j] \in Scalars
    OBVIOUS
  <2> QED
    BY <2>1, VSSAssumption DEF Scalars, Points
<1>2. M # {} /\ IsFiniteSet(M) /\ Cardinality(M) \in Nat
  <2>1. IsFiniteSet(M) /\ Cardinality(M) \in Nat
    <3>1. IsFiniteSet(CommitteeIndices)
      BY VSSAssumption, FS_Interval DEF CommitteeIndices
    <3> QED
      BY <3>1, FS_Subset, FS_CardinalityType
  <2> QED
    BY <1>1, <2>1, FS_EmptySet
<1>3. \A m \in CommitteeIndices :
        /\ m \in Points /\ lambda(m) \in Points
        /\ Partial(m, C) \in [0 .. n -> Points] /\ Partial(m, C)[0] = 0
        /\ Powers(m, n) \in [0 .. n -> Points]
        /\ ExpectedPublicShare(m, C) = Partial(m, C)[n]
        /\ \A j \in 1 .. n : Partial(m, C)[j]
                               = Add(Partial(m, C)[j - 1], Mul(C[j], Powers(m, n)[j - 1]))
  <2> SUFFICES ASSUME NEW m \in CommitteeIndices
               PROVE /\ m \in Points /\ lambda(m) \in Points
                     /\ Partial(m, C) \in [0 .. n -> Points] /\ Partial(m, C)[0] = 0
                     /\ Powers(m, n) \in [0 .. n -> Points]
                     /\ ExpectedPublicShare(m, C) = Partial(m, C)[n]
                     /\ \A j \in 1 .. n : Partial(m, C)[j]
                          = Add(Partial(m, C)[j - 1], Mul(C[j], Powers(m, n)[j - 1]))
    OBVIOUS
  <2>1. m \in Points
    BY Differs
  <2> QED
    BY <1>1, <2>1, LagrangeIs, PowersAre, ShareIs
<1> HIDE DEF n, lambda
<1>4. \A j \in 0 .. n : T(j) \in Terms /\ U(j) \in Terms
  <2> SUFFICES ASSUME NEW j \in 0 .. n, NEW m \in CommitteeIndices
               PROVE  T(j)[m] \in Points /\ U(j)[m] \in Points
    BY DEF Terms
  <2>1. Partial(m, C)[j] \in Points /\ Powers(m, n)[j] \in Points /\ lambda(m) \in Points
    BY <1>3
  <2> QED
    BY <1>1, <2>1, Closed
<1>5. ASSUME NEW j \in 1 .. n
      PROVE  /\ V(j) \in Terms
             /\ \A m \in CommitteeIndices : T(j)[m] = Add(T(j - 1)[m], V(j)[m])
  <2> SUFFICES ASSUME NEW m \in CommitteeIndices
               PROVE  V(j)[m] \in Points /\ T(j)[m] = Add(T(j - 1)[m], V(j)[m])
    BY DEF Terms
  <2> DEFINE p == Partial(m, C)[j - 1]
             w == Powers(m, n)[j - 1]
             c == C[j]
             l == lambda(m)
  <2>1. p \in Points /\ w \in Points /\ c \in Points /\ l \in Points /\ j - 1 \in 0 .. n
        /\ Partial(m, C)[j] = Add(p, Mul(c, w))
    <3>1. j - 1 \in 0 .. n
      BY <1>1
    <3>2. c \in Points
      BY <1>1
    <3> QED
      BY <1>3, <3>1, <3>2
  <2>2. CASE m \notin M
    <3>1. T(j)[m] = 0 /\ T(j - 1)[m] = 0 /\ V(j)[m] = Mul(Mul(r, c), 0)
      BY <2>2
    <3> HIDE DEF T, V, c
    <3> QED
      BY <1>1, <2>1, <3>1, Closed, Units
  <2>3. CASE m \in M
    <3>1. T(j)[m] = Mul(Mul(r, Add(p, Mul(c, w))), l) /\ T(j - 1)[m] = Mul(Mul(r, p), l)
          /\ V(j)[m] = Mul(Mul(r, c), Mul(l, w))
      BY <2>1, <2>3
    <3> HIDE DEF T, V, p, w, c, l
    <3>2. Mul(c, w) \in Points /\ Mul(r, p) \in Points /\ Mul(r, c) \in Points
          /\ Mul(l, w) \in Points
      BY <2>1, Closed
    <3>3. Mul(r, Add(p, Mul(c, w))) = Add(Mul(r, p), Mul(r, Mul(c, w)))
      BY <2>1, <3>2, Distributes
    <3>4. Mul(r, Mul(c, w)) \in Points /\ Mul(r, Mul(c, w)) = Mul(Mul(r, c), w)
      BY <2>1, <3>2, Closed, Associates
    <3>5. Mul(Add(Mul(r, p), Mul(r, Mul(c, w))), l)
            = Add(Mul(Mul(r, p), l), Mul(Mul(Mul(r, c), w), l))
      BY <2>1, <3>2, <3>4, Distributes
    <3>6. Mul(Mul(Mul(r, c), w), l) = Mul(Mul(r, c), Mul(l, w))
      BY <2>1, <3>2, Associates, Commutes
    <3>7. V(j)[m] \in Points
      BY <3>1, <3>2, Closed
    <3> QED
      BY <3>1, <3>3, <3>5, <3>6, <3>7
  <2> QED
    BY <2>2, <2>3
<1> HIDE DEF T, V, U
<1>6. ASSUME NEW j \in 1 .. n
      PROVE  /\ Sum(T(j)) = Add(Sum(T(j - 1)), Mul(Mul(r, C[j]), IF j = 1 THEN 1 ELSE 0))
             /\ Sum(T(j - 1)) \in Points
  <2>1. j - 1 \in 0 .. n /\ j \in 0 .. n /\ j - 1 < Cardinality(M) /\ Mul(r, C[j]) \in Points
    BY <1>1, <1>2, Closed DEF n
  <2>2. Weighted(M, value(j - 1)) = IF j - 1 = 0 THEN 1 ELSE 0
    BY <1>1, <1>2, <2>1, Interpolates
  <2>3. Sum(U(j - 1)) = IF j = 1 THEN 1 ELSE 0
    BY <2>2 DEF Weighted, U, lambda
  <2>4. Sum(V(j)) = Mul(Mul(r, C[j]), Sum(U(j - 1)))
    <3>1. V(j) \in Terms /\ U(j - 1) \in Terms
      BY <1>4, <1>5, <2>1
    <3>2. \A m \in CommitteeIndices : V(j)[m] = Mul(Mul(r, C[j]), U(j - 1)[m])
      BY DEF V
    <3> QED
      BY <2>1, <3>1, <3>2, SumOfMultiples
  <2>5. Sum(T(j)) = Add(Sum(T(j - 1)), Sum(V(j))) /\ Sum(T(j - 1)) \in Points
    BY <1>4, <1>5, <2>1, SumOfSums
  <2> QED
    BY <2>3, <2>4, <2>5
<1>7. Sum(T(0)) = 0
  <2>1. \A m \in CommitteeIndices : T(0)[m] = 0
    BY <1>1, <1>3, Units DEF T
  <2>2. T(0) \in Terms
    BY <1>1, <1>4
  <2>3. PICK a \in CommitteeIndices : TRUE
    BY <1>2
  <2> QED
    BY <2>1, <2>2, <2>3, SumOfOne
<1>8. Sum(T(1)) = Mul(r, C[1]) /\ Mul(r, C[1]) \in Points
  <2>1. 1 \in 1 .. n /\ 1 - 1 = 0 /\ C[1] \in Points
    BY <1>1
  <2>2. Mul(r, C[1]) \in Points
    BY <2>1, Closed
  <2>3. Sum(T(1)) = Add(0, Mul(Mul(r, C[1]), 1))
    BY <1>6, <1>7, <2>1
  <2> QED
    BY <2>2, <2>3, Units
<1> DEFINE Good == {j \in 0 .. n : j > 0 => Sum(T(j)) = Mul(r, C[1])}
<1>9. 0 \in Good
  BY <1>1
<1>10. ASSUME NEW j \in 0 .. n - 1, j \in Good PROVE j + 1 \in Good
  <2>1. CASE j = 0
    BY <1>1, <1>8, <2>1
  <2>2. CASE j > 0
    <3>1. j + 1 \in 1 .. n /\ (j + 1) - 1 = j /\ j + 1 # 1 /\ C[j + 1] \in Points
      BY <1>1, <2>2
    <3>2. Sum(T(j + 1)) = Add(Sum(T(j)), Mul(Mul(r, C[j + 1]), 0))
      BY <1>6, <3>1
    <3>3. Mul(Mul(r, C[j + 1]), 0) = 0
      BY <3>1, Closed, Units
    <3>4. Sum(T(j + 1)) = Mul(r, C[1])
      BY <1>8, <1>10, <2>2, <3>2, <3>3, Units
    <3> QED
      BY <1>1, <3>1, <3>4
  <2> QED
    BY <2>1, <2>2
<1> HIDE DEF Good
<1>11. 0 .. n \subseteq Good
  BY <1>1, <1>9, <1>10, Climb
<1>12. Sum(T(n)) = Mul(r, C[1])
  BY <1>1, <1>11 DEF Good
<1>13. Interpolate([m \in M |-> Mul(r, ExpectedPublicShare(m, C))]) = Sum(T(n))
  <2> DEFINE part == [m \in M |-> Mul(r, ExpectedPublicShare(m, C))]
             x == [m \in CommitteeIndices |->
                     IF m \in DOMAIN part
                     THEN Mul(part[m], LagrangeCoefficient(DOMAIN part, m)) ELSE 0]
  <2>1. x = T(n)
    <3>1. DOMAIN part = M
      OBVIOUS
    <3>2. \A m \in M : part[m] = Mul(r, Partial(m, C)[n])
      BY <1>3
    <3> HIDE DEF part
    <3> QED
      BY <3>1, <3>2 DEF T, lambda
  <2>2. Interpolate(part) = Sum(x)
    BY Zenon DEF Interpolate
  <2> QED
    BY <2>1, <2>2
<1> QED
  BY <1>1, <1>12, <1>13, Commutes

\* In the exponent the logarithms combine as secrets do, and points of the subgroup to
\* one of the subgroup.
LEMMA CombinesPoints ==
    ASSUME NEW M \in SUBSET CommitteeIndices, NEW part \in [M -> CurvePoints]
    PROVE  /\ CombineInExponent(part).log = Interpolate([m \in M |-> part[m].log])
           /\ (\A m \in M : part[m].small = 0) =>
                CombineInExponent(part)
                  = SubgroupPoint(Interpolate([m \in M |-> part[m].log]))
<1> DEFINE lambda(k) == LagrangeCoefficient(M, k)
           term(k) == IF k \in DOMAIN part
                      THEN MulPoint(part[k], LagrangeCoefficient(DOMAIN part, k))
                      ELSE SubgroupPoint(0)
           P(n, g) == g = [k \in 0 .. n |-> IF k = 0 THEN SubgroupPoint(0)
                                            ELSE AddPoint(g[k - 1], term(k))]
           Good == {n \in 0 .. COMMITTEE_SIZE : \E g : P(n, g)}
           logs == [m \in M |-> part[m].log]
           T == [k \in CommitteeIndices |-> IF k \in M THEN Mul(logs[k], lambda(k)) ELSE 0]
<1>1. COMMITTEE_SIZE \in Nat /\ 0 \in Points /\ COFACTOR \in Nat \ {0} /\ DOMAIN part = M
  BY VSSAssumption DEF Points
<1>2. 0 \in Good
  <2>1. P(0, [k \in 0 .. 0 |-> SubgroupPoint(0)])
    OBVIOUS
  <2> HIDE DEF P
  <2> QED
    BY <1>1, <2>1
<1>3. ASSUME NEW n \in 0 .. COMMITTEE_SIZE - 1, n \in Good PROVE n + 1 \in Good
  <2> HIDE DEF term
  <2>1. PICK g : P(n, g)
    BY <1>3
  <2>2. P(n + 1, [k \in 0 .. n + 1 |-> IF k = n + 1 THEN AddPoint(g[n], term(n + 1))
                                       ELSE g[k]])
    BY <2>1
  <2> HIDE DEF P
  <2> QED
    BY <1>1, <1>3, <2>2
<1>4. PICK g : P(COMMITTEE_SIZE, g) /\ CombineInExponent(part) = g[COMMITTEE_SIZE]
  <2> HIDE DEF Good
  <2>1. COMMITTEE_SIZE \in Good
    BY <1>1, <1>2, <1>3, Climb
  <2>2. CombineInExponent(part) = (CHOOSE g : P(COMMITTEE_SIZE, g))[COMMITTEE_SIZE]
    BY Zenon DEF CombineInExponent
  <2> HIDE DEF P
  <2>3. \E g : P(COMMITTEE_SIZE, g)
    BY <2>1 DEF Good
  <2> QED
    BY <2>2, <2>3, Zenon
<1>5. /\ g[0] = SubgroupPoint(0)
      /\ \A k \in CommitteeIndices : g[k] = AddPoint(g[k - 1], term(k))
  <2> HIDE DEF term
  <2> QED
    BY <1>1, <1>4 DEF CommitteeIndices
<1>6. T \in Terms /\ Interpolate(logs) = Sum(T)
  <2>1. \A k \in M : lambda(k) \in Points /\ logs[k] \in Points
    BY LagrangeIs DEF CurvePoints, Points
  <2>2. \A k \in M : Mul(logs[k], lambda(k)) \in Points
    <3> HIDE DEF logs, lambda
    <3> QED
      BY <2>1, Closed
  <2>3. DOMAIN logs = M
    OBVIOUS
  <2> HIDE DEF logs
  <2>4. Interpolate(logs) = Sum(T)
    BY <2>3 DEF Interpolate
  <2> HIDE DEF lambda
  <2> QED
    BY <1>1, <2>2, <2>4 DEF Terms
<1>7. PICK h \in [0 .. COMMITTEE_SIZE -> Points] :
        /\ Sum(T) = h[COMMITTEE_SIZE] /\ h[0] = 0
        /\ \A k \in CommitteeIndices : h[k] = Add(h[k - 1], T[k])
  <2> HIDE DEF T
  <2> QED
    BY <1>6, SumIs
<1>8. \A k \in CommitteeIndices : term(k).log = T[k]
  BY <1>1 DEF MulPoint, SubgroupPoint
<1>9. ASSUME \A m \in M : part[m].small = 0
      PROVE  \A k \in CommitteeIndices : term(k).small = 0
  <2>1. ASSUME NEW k \in M PROVE MulPoint(part[k], lambda(k)).small = 0
    <3>1. lambda(k) \in Nat
      BY LagrangeIs DEF Points
    <3> HIDE DEF lambda
    <3>2. part[k].small * lambda(k) = 0 /\ 0 % COFACTOR = 0
      <4>1. part[k].small = 0
        BY <1>9
      <4>2. \A x \in Nat : 0 * x = 0
        OBVIOUS
      <4>3. 0 % COFACTOR = 0
        BY <1>1
      <4> QED
        BY <3>1, <4>1, <4>2, <4>3
    <3> QED
      BY <3>2 DEF MulPoint
  <2> QED
    BY <1>1, <2>1 DEF SubgroupPoint
<1> HIDE DEF term, T, P, Good
<1> DEFINE Logs == {k \in 0 .. COMMITTEE_SIZE : g[k].log = h[k]}
<1>10. 0 \in Logs
  BY <1>1, <1>5, <1>7 DEF SubgroupPoint
<1>11. ASSUME NEW k \in 0 .. COMMITTEE_SIZE - 1, k \in Logs PROVE k + 1 \in Logs
  <2>1. k + 1 \in CommitteeIndices /\ (k + 1) - 1 = k
    BY <1>1 DEF CommitteeIndices
  <2>2. g[k + 1].log = Add(g[k].log, term(k + 1).log)
    <3>1. g[k + 1] = AddPoint(g[k], term(k + 1))
      BY <1>5, <2>1
    <3> QED
      BY <3>1 DEF AddPoint
  <2>3. h[k + 1] = Add(h[k], T[k + 1])
    BY <1>7, <2>1
  <2>4. g[k].log = h[k] /\ term(k + 1).log = T[k + 1]
    BY <1>8, <1>11, <2>1
  <2>5. g[k + 1].log = h[k + 1]
    BY <2>2, <2>3, <2>4
  <2> QED
    BY <1>1, <2>1, <2>5 DEF CommitteeIndices
<1>12. g[COMMITTEE_SIZE].log = h[COMMITTEE_SIZE]
  <2> HIDE DEF Logs
  <2>1. 0 .. COMMITTEE_SIZE \subseteq Logs
    BY <1>1, <1>10, <1>11, Climb
  <2> QED
    BY <1>1, <2>1 DEF Logs
<1>13. ASSUME \A m \in M : part[m].small = 0
       PROVE  g[COMMITTEE_SIZE] = SubgroupPoint(h[COMMITTEE_SIZE])
  <2> DEFINE Smalls == {k \in 0 .. COMMITTEE_SIZE : g[k] = SubgroupPoint(h[k])}
  <2>1. 0 \in Smalls
    BY <1>1, <1>5, <1>7
  <2>2. ASSUME NEW k \in 0 .. COMMITTEE_SIZE - 1, k \in Smalls PROVE k + 1 \in Smalls
    <3>1. k + 1 \in CommitteeIndices /\ (k + 1) - 1 = k
      BY <1>1 DEF CommitteeIndices
    <3>2. term(k + 1).small = 0 /\ term(k + 1).log = T[k + 1]
      BY <1>8, <1>9, <1>13, <3>1
    <3>3. (0 + 0) % COFACTOR = 0
      BY <1>1
    <3>4. g[k + 1] = AddPoint(SubgroupPoint(h[k]), term(k + 1))
      BY <1>5, <2>2, <3>1
    <3>5. h[k + 1] = Add(h[k], T[k + 1])
      BY <1>7, <3>1
    <3> QED
      BY <1>1, <3>2, <3>3, <3>4, <3>5 DEF AddPoint, SubgroupPoint
  <2> HIDE DEF Smalls
  <2>3. 0 .. COMMITTEE_SIZE \subseteq Smalls
    BY <1>1, <2>1, <2>2, Climb
  <2> QED
    BY <1>1, <2>3 DEF Smalls
<1> QED
  BY <1>4, <1>6, <1>7, <1>12, <1>13

\* Horner's rule from any coefficient on, with the terms before it, is the whole sum.
THEOREM SharesMatchCommitments ==
    ASSUME NEW C \in Seq(Scalars), NEW z \in Points
    PROVE  EvaluatePolynomial(C, z) = ExpectedPublicShare(z, C)
<1> DEFINE n == Len(C)
           w == Powers(z, n)
           p == Partial(z, C)
           \* The rule, of the last k coefficients.
           P(k, g) == g = [i \in k .. n + 1 |->
                             IF i = n + 1 THEN 0 ELSE Add(Mul(g[i + 1], z), C[i])]
           Good == {k \in 0 .. n : \E g : P(n + 1 - k, g)}
<1>1. n \in Nat /\ 0 \in Points /\ \A i \in 1 .. n : C[i] \in Points
  <2>1. n \in Nat /\ \A i \in 1 .. n : C[i] \in Scalars
    OBVIOUS
  <2> QED
    BY <2>1, VSSAssumption DEF Scalars, Points
<1>2. /\ w \in [0 .. n -> Points] /\ w[0] = 1
      /\ \A k \in 1 .. n : w[k] = Mul(w[k - 1], z)
  BY <1>1, PowersAre
<1>3. /\ p \in [0 .. n -> Points] /\ p[0] = 0 /\ ExpectedPublicShare(z, C) = p[n]
      /\ \A j \in 1 .. n : p[j] = Add(p[j - 1], Mul(C[j], w[j - 1]))
  BY ShareIs
<1>4. EvaluatePolynomial(C, z) = (CHOOSE g : P(1, g))[1]
  BY Zenon DEF EvaluatePolynomial
<1> HIDE DEF n, w, p
<1>5. 0 \in Good
  <2>1. P(n + 1, [i \in n + 1 .. n + 1 |-> 0])
    BY <1>1
  <2>2. n + 1 - 0 = n + 1
    BY <1>1
  <2> HIDE DEF P
  <2> QED
    BY <1>1, <2>1, <2>2
<1>6. ASSUME NEW k \in 0 .. n - 1, k \in Good PROVE k + 1 \in Good
  <2> DEFINE m == n + 1 - k
  <2>1. PICK g : P(m, g)
    BY <1>6
  <2>2. m \in 2 .. n + 1 /\ n + 1 - (k + 1) = m - 1
    BY <1>1
  <2> HIDE DEF m
  <2>3. P(m - 1, [i \in m - 1 .. n + 1 |-> IF i = m - 1 THEN Add(Mul(g[m], z), C[m - 1])
                                           ELSE g[i]])
    BY <1>1, <2>1, <2>2
  <2> HIDE DEF P
  <2>4. P(n + 1 - (k + 1), [i \in m - 1 .. n + 1 |->
                              IF i = m - 1 THEN Add(Mul(g[m], z), C[m - 1]) ELSE g[i]])
    BY <2>2, <2>3
  <2>5. k + 1 \in 0 .. n
    BY <1>1
  <2> QED
    BY <2>4, <2>5
<1> HIDE DEF Good
<1>7. 0 .. n \subseteq Good
  BY <1>1, <1>5, <1>6, Climb
<1> DEFINE h == CHOOSE g : P(1, g)
<1>8. P(1, h)
  <2>1. n + 1 - n = 1
    BY <1>1
  <2> HIDE DEF P
  <2>2. \E g : P(1, g)
    BY <1>1, <1>7, <2>1 DEF Good
  <2> QED
    BY <2>2, Zenon
<1> HIDE DEF h
<1>9. h[n + 1] = 0 /\ \A i \in 1 .. n : h[i] = Add(Mul(h[i + 1], z), C[i])
  BY <1>1, <1>8
<1> DEFINE Same == {k \in 0 .. n : /\ h[n + 1 - k] \in Points
                                   /\ Add(p[n - k], Mul(w[n - k], h[n + 1 - k])) = p[n]}
<1>10. 0 \in Same
  <2>1. n + 1 - 0 = n + 1 /\ n - 0 = n /\ p[n] \in Points /\ w[n] \in Points
    BY <1>1, <1>2, <1>3
  <2> QED
    BY <1>1, <1>9, <2>1, Units
<1>11. ASSUME NEW k \in 0 .. n - 1, k \in Same PROVE k + 1 \in Same
  <2> DEFINE i == n - k
  <2>1. i \in 1 .. n /\ n + 1 - k = i + 1 /\ n + 1 - (k + 1) = i /\ n - (k + 1) = i - 1
        /\ i - 1 \in 0 .. n /\ k + 1 \in 0 .. n
    BY <1>1
  <2> DEFINE a == p[i - 1]
             v == w[i - 1]
             c == C[i]
             b == h[i + 1]
  <2>2. a \in Points /\ v \in Points /\ c \in Points /\ b \in Points
    BY <1>1, <1>2, <1>3, <1>11, <2>1
  <2>3. p[i] = Add(a, Mul(c, v)) /\ w[i] = Mul(v, z) /\ h[i] = Add(Mul(b, z), c)
        /\ Add(p[i], Mul(w[i], b)) = p[n]
    BY <1>2, <1>3, <1>9, <1>11, <2>1
  <2> HIDE DEF i, a, v, c, b
  <2>4. Mul(b, z) \in Points /\ Mul(v, c) \in Points /\ Mul(v, Mul(b, z)) \in Points
    BY <2>2, Closed
  <2>5. Mul(v, h[i]) = Add(Mul(v, Mul(b, z)), Mul(v, c))
    BY <2>2, <2>3, <2>4, Distributes
  <2>6. Mul(v, Mul(b, z)) = Mul(Mul(v, z), b)
    BY <2>2, Associates, Commutes
  <2>7. Add(a, Add(Mul(v, Mul(b, z)), Mul(v, c))) = Add(Add(a, Mul(c, v)), Mul(Mul(v, z), b))
    BY <2>2, <2>4, <2>6, Associates, Commutes
  <2>8. h[i] \in Points
    BY <2>2, <2>3, <2>4, Closed
  <2> QED
    BY <2>1, <2>3, <2>5, <2>7, <2>8 DEF a, v
<1> HIDE DEF Same
<1>12. 0 .. n \subseteq Same
  BY <1>1, <1>10, <1>11, Climb
<1>13. h[1] \in Points /\ Add(p[0], Mul(w[0], h[1])) = p[n]
  <2>1. n + 1 - n = 1 /\ n - n = 0
    BY <1>1
  <2> QED
    BY <1>1, <1>12, <2>1 DEF Same
<1>14. h[1] = p[n]
  <2>1. Mul(1, h[1]) = h[1] /\ Add(0, h[1]) = h[1]
    BY <1>13, Units
  <2> QED
    BY <1>2, <1>3, <1>13, <2>1
<1> QED
  BY <1>3, <1>4, <1>14 DEF h

\* What dealCommitteeKey deals passes verifyDealing, unless the polynomial has a root at
\* a member, whose share would be zero: so dealings that are refused are not its own.
THEOREM DealingsVerify ==
    ASSUME NEW C \in [1 .. COMMITTEE_THRESHOLD -> Scalars],
           \A i \in CommitteeIndices : EvaluatePolynomial(C, i) # 0
    PROVE  VerifyDealing(Deal(C))
<1>1. COMMITTEE_THRESHOLD \in Nat /\ COMMITTEE_SIZE \in Nat /\ COMMITTEE_THRESHOLD > 0
      /\ COMMITTEE_THRESHOLD <= COMMITTEE_SIZE
  BY VSSAssumption
<1>2. C \in Seq(Scalars) /\ Len(C) = COMMITTEE_THRESHOLD /\ C[1] \in Scalars
  BY <1>1
<1> DEFINE d == Deal(C)
<1>3. d.commitments = C /\ d.publicKey = C[1] /\ d.secret = C[1]
      /\ \A i \in CommitteeIndices : d.shares[i] = EvaluatePolynomial(C, i)
  BY DEF Deal
<1>4. ASSUME NEW i \in CommitteeIndices
      PROVE  d.shares[i] = ExpectedPublicShare(i, C) /\ d.shares[i] \in Scalars
  <2>1. i \in Points
    BY Differs
  <2>2. d.shares[i] = ExpectedPublicShare(i, C)
    BY <1>2, <1>3, <2>1, SharesMatchCommitments
  <2>3. ExpectedPublicShare(i, C) \in Points
    BY <1>1, <1>2, <2>1, ShareIs
  <2> QED
    BY <1>3, <1>4, <2>2, <2>3 DEF Scalars, Points
<1> HIDE DEF d
<1>5. \A i \in CommitteeIndices : VerifyShare(i, d.shares[i], d.shares[i], d.commitments)
  BY <1>3, <1>4 DEF VerifyShare
<1>6. Interpolate([i \in 1 .. COMMITTEE_THRESHOLD |-> d.shares[i]]) = d.secret
  <2> DEFINE M == 1 .. COMMITTEE_THRESHOLD
  <2>1. M \in SUBSET CommitteeIndices /\ Cardinality(M) = COMMITTEE_THRESHOLD
    BY <1>1, FS_Interval DEF CommitteeIndices
  <2>2. 1 \in Points /\ C[1] \in Points
    BY <1>2, VSSAssumption DEF Points, Scalars
  <2>3. \A m \in M : d.shares[m] = Mul(1, ExpectedPublicShare(m, C))
    <3> SUFFICES ASSUME NEW m \in M PROVE d.shares[m] = Mul(1, ExpectedPublicShare(m, C))
      OBVIOUS
    <3>1. d.shares[m] = ExpectedPublicShare(m, C) /\ ExpectedPublicShare(m, C) \in Points
      BY <1>4, <2>1 DEF Scalars, Points
    <3> QED
      BY <3>1, Units
  <2> HIDE DEF M
  <2>4. [m \in M |-> d.shares[m]] = [m \in M |-> Mul(1, ExpectedPublicShare(m, C))]
    BY <2>3
  <2>5. Interpolate([m \in M |-> Mul(1, ExpectedPublicShare(m, C))]) = Mul(C[1], 1)
    BY <1>1, <1>2, <2>1, <2>2, SharesCombine
  <2> QED
    BY <1>3, <2>2, <2>4, <2>5, Units DEF M
<1> QED
  BY <1>2, <1>3, <1>5, <1>6 DEF VerifyDealing, d

-----------------------------------------------------------------------------
(* The desk.                                                               *)

\* One pass over openings in order finds the lowest, the earliest of equals.
LEMMA SelectsLowest ==
    ASSUME NEW n \in Nat, n > 0, NEW s, Len(s) = n,
           \A k \in 1 .. n : s[k].index = k /\ s[k].amount \in Nat
    PROVE  /\ SelectWinner(s).index \in 1 .. n
           /\ \A j \in 1 .. n : LET w == SelectWinner(s).index IN
                \/ s[w].amount < s[j].amount
                \/ s[w].amount = s[j].amount /\ w <= j
<1> DEFINE Better(a, b) == \/ a.amount < b.amount
                           \/ a.amount = b.amount /\ a.index < b.index
           Best(a, b) == IF Better(a, b) THEN a ELSE b
           P(m, g) == g = [k \in 1 .. m |-> IF k = 1 THEN s[1] ELSE Best(s[k], g[k - 1])]
<1>1. \E g : P(n, g)
  <2> HIDE DEF Best
  <2> DEFINE Good == {m \in Nat : \E g : P(m + 1, g)}
  <2>1. 0 \in Good
    <3>1. P(0 + 1, [k \in 1 .. 1 |-> s[1]])
      OBVIOUS
    <3> HIDE DEF P
    <3> QED
      BY <3>1
  <2>2. ASSUME NEW m \in 0 .. n - 1, m \in Good PROVE m + 1 \in Good
    <3>1. PICK g : P(m + 1, g)
      BY <2>2
    <3>2. P((m + 1) + 1, [k \in 1 .. (m + 1) + 1 |->
                            IF k = (m + 1) + 1 THEN Best(s[k], g[m + 1]) ELSE g[k]])
      BY <3>1
    <3> HIDE DEF P
    <3> QED
      BY <2>2, <3>2
  <2> HIDE DEF Good
  <2>3. n - 1 \in Good
    <3>1. n - 1 \in Nat /\ n - 1 \in 0 .. n - 1
      OBVIOUS
    <3>2. \A m \in 0 .. (n - 1) - 1 : m \in Good => m + 1 \in Good
      BY <2>2
    <3> QED
      BY <2>1, <3>1, <3>2, Climb
  <2>4. (n - 1) + 1 = n
    OBVIOUS
  <2> HIDE DEF P
  <2> QED
    BY <2>3, <2>4 DEF Good
<1> DEFINE best == CHOOSE g : P(n, g)
<1>2. P(n, best)
  <2> HIDE DEF P
  <2> QED
    BY <1>1
<1>3. SelectWinner(s) = best[n]
  BY Zenon DEF SelectWinner
<1> HIDE DEF best
<1> DEFINE Lowest(w, m) == \A j \in 1 .. m : s[w].amount < s[j].amount
                                            \/ (s[w].amount = s[j].amount /\ w <= j)
           Good == {m \in 0 .. n - 1 :
                      \E w \in 1 .. m + 1 : best[m + 1] = s[w] /\ Lowest(w, m + 1)}
<1>4. 0 \in Good
  <2>1. best[1] = s[1]
    BY <1>2
  <2> QED
    BY <2>1
<1>5. ASSUME NEW m \in 0 .. n - 2, m \in Good PROVE m + 1 \in Good
  <2>1. PICK w \in 1 .. m + 1 : best[m + 1] = s[w] /\ Lowest(w, m + 1)
    BY <1>5
  <2>2. best[m + 2] = IF Better(s[m + 2], s[w]) THEN s[m + 2] ELSE s[w]
    BY <1>2, <2>1
  <2>3. /\ s[w].index = w /\ s[m + 2].index = m + 2
        /\ s[w].amount \in Nat /\ s[m + 2].amount \in Nat
    OBVIOUS
  <2>4. CASE Better(s[m + 2], s[w])
    <3>1. s[m + 2].amount < s[w].amount
      BY <2>3, <2>4
    <3>2. Lowest(m + 2, m + 2)
      <4> SUFFICES ASSUME NEW j \in 1 .. m + 1 PROVE s[m + 2].amount < s[j].amount
        OBVIOUS
      <4>1. s[j].amount \in Nat /\ s[w].amount <= s[j].amount
        BY <2>1, <2>3
      <4> QED
        BY <2>3, <3>1, <4>1
    <3> QED
      BY <2>2, <2>4, <3>2
  <2>5. CASE ~Better(s[m + 2], s[w])
    <3>1. Lowest(w, m + 2)
      BY <2>1, <2>3, <2>5
    <3> QED
      BY <2>2, <2>5, <3>1
  <2> QED
    BY <2>4, <2>5
<1>6. n - 1 \in Good
  <2> HIDE DEF Good
  <2>1. \A m \in 0 .. (n - 1) - 1 : m \in Good => m + 1 \in Good
    BY <1>5
  <2>2. n - 1 \in Nat /\ n - 1 \in 0 .. n - 1
    OBVIOUS
  <2> QED
    BY <1>4, <2>1, <2>2, Climb
<1>7. PICK w \in 1 .. n : best[n] = s[w] /\ Lowest(w, n)
  BY <1>6
<1> QED
  BY <1>3, <1>7


\* The types.
Envelopes == [ephemeral : Scalars, wrapped : [key : BidIndices, under : CurvePoints],
              ct : [key : BidIndices, plain : Amounts]]
SealedBids == [commitment : Amounts, envelope : Envelopes]
Openings == [index : BidIndices, amount : Amounts]
LeafSet == {Leaf(i, c) : i \in BidIndices, c \in Amounts}

\* Types, and no more bids than there is room for.
DeskTyped ==
    /\ desk \in Desks /\ dealing.publicKey \in Scalars
    /\ bids \in Seq(SealedBids) /\ Len(bids) <= MaxBids
    /\ closed \in BOOLEAN
    /\ opened \in Seq(Openings)
    /\ revoked \in CredentialIds \cup {NoneRevoked}

\* Nothing is filed, opened or witnessed before the close, and only bids are opened.
OpensAfterClose ==
    /\ ~closed => filed = [i \in BidIndices |-> << >>] /\ opened = << >> /\ witness = NoWitness
    /\ \A k \in DOMAIN opened : opened[k].index \in DOMAIN bids

\* The witness is of all the bids, and names the lowest and earliest.
WitnessesLowest ==
    witness # NoWitness =>
      /\ witness.count = Len(bids)
      /\ \A j \in DOMAIN bids : LET w == witness.winner IN
           \/ bids[w].commitment < bids[j].commitment
           \/ bids[w].commitment = bids[j].commitment /\ w <= j

\* The inductive invariant.
DeskInv ==
    /\ DeskTyped
    /\ TreeMatches(tree, Leaves, BidDepth)
    /\ OpensAfterClose
    /\ WitnessesLowest

\* The leaves of the bids.
LEMMA LeavesAre ==
    ASSUME bids \in Seq(SealedBids), Len(bids) <= MaxBids
    PROVE  /\ Leaves \in Seq(LeafSet) /\ Len(Leaves) = Len(bids)
           /\ \A i \in DOMAIN bids : Leaves[i] = Leaf(i, bids[i].commitment)
<1>1. DOMAIN bids = 1 .. Len(bids) /\ Len(bids) \in Nat /\ MaxBids \in Nat
  BY DeskAssumption, CapacityIs DEF MaxBids
<1>2. ASSUME NEW i \in DOMAIN bids PROVE Leaf(i, bids[i].commitment) \in LeafSet
  <2>1. bids[i] \in SealedBids /\ i \in BidIndices
    BY <1>1 DEF BidIndices
  <2>2. bids[i].commitment \in Amounts
    BY <2>1 DEF SealedBids
  <2> QED
    BY <2>1, <2>2 DEF LeafSet
<1>3. Leaves = [i \in 1 .. Len(bids) |-> Leaf(i, bids[i].commitment)]
  BY <1>1 DEF Leaves
<1> HIDE DEF LeafSet
<1>4. Leaves \in Seq(LeafSet) /\ Len(Leaves) = Len(bids)
  BY <1>1, <1>2, <1>3
<1> QED
  BY <1>1, <1>3, <1>4

\* A desk starts with an empty tree and nothing else.
LEMMA DeskAtStart == DeskInit => DeskInv
<1> SUFFICES ASSUME DeskInit PROVE DeskInv
  OBVIOUS
<1>1. DeskTyped
  <2>1. bids \in Seq(SealedBids) /\ Len(bids) = 0 /\ MaxBids \in Nat /\ opened \in Seq(Openings)
    BY DeskAssumption, CapacityIs DEF DeskInit, MaxBids
  <2>2. dealing.publicKey \in Scalars
    BY DEF DeskInit, VerifyDealing
  <2> QED
    <3>1. Len(bids) <= MaxBids
      BY <2>1
    <3>2. desk \in Desks /\ closed \in BOOLEAN /\ revoked = NoneRevoked
      BY DEF DeskInit
    <3> QED
      BY <2>1, <2>2, <3>1, <3>2 DEF DeskTyped
<1>2. Leaves = << >>
  BY DEF DeskInit, Leaves
<1>3. TreeMatches(tree, Leaves, BidDepth)
  BY <1>2, DeskAssumption, EmptyTreeMatches DEF DeskInit
<1>4. OpensAfterClose /\ WitnessesLowest
  BY DEF DeskInit, OpensAfterClose, WitnessesLowest
<1> QED
  BY <1>1, <1>3, <1>4 DEF DeskInv

\* An accepted bid is one more leaf.
LEMMA SubmitKeepsDesk ==
    ASSUME DeskInv, NEW sealed \in Amounts, NEW committed \in Amounts,
           NEW r \in desk.ephemerals, SubmitSealed(sealed, committed, r)
    PROVE  DeskInv'
<1> DEFINE n == Len(bids) + 1
           bid == [commitment |-> committed,
                   envelope |-> SealBid(dealing.publicKey, sealed, n, r)]
           leaf == Leaf(n, committed)
<1>1. /\ DeskTyped /\ TreeMatches(tree, Leaves, BidDepth) /\ OpensAfterClose
      /\ ~closed /\ bids' = Append(bids, bid) /\ tree' = Insert(tree, leaf, BidDepth)
      /\ UNCHANGED <<desk, dealing, closed, filed, opened, witness, revoked>>
      /\ Len(bids) < desk.most
  BY DEF DeskInv, SubmitSealed
<1>2. /\ desk.most \in 0 .. MaxBids /\ r \in Scalars /\ MaxBids \in Nat
      /\ BidDepth \in Nat
  <2>1. desk \in DeskRecords
    BY <1>1, DeskAssumption DEF DeskTyped
  <2>2. desk.most \in 0 .. MaxBids /\ desk.ephemerals \in SUBSET Scalars
    BY <2>1 DEF DeskRecords
  <2> QED
    BY <2>2, DeskAssumption, CapacityIs DEF MaxBids
<1>3. bids \in Seq(SealedBids) /\ Len(bids) \in Nat /\ n \in BidIndices /\ n <= MaxBids
  BY <1>1, <1>2 DEF DeskTyped, BidIndices
<1>4. bid \in SealedBids
  <2>1. SubgroupPoint(Mul(dealing.publicKey, r)) \in CurvePoints
    <3>1. dealing.publicKey \in Nat /\ r \in Nat /\ SUB_ORDER \in Nat /\ SUB_ORDER > 0
      BY <1>1, <1>2, VSSAssumption DEF DeskTyped, Scalars
    <3>2. dealing.publicKey * r \in Int
      BY <3>1
    <3>3. Mul(dealing.publicKey, r) \in 0 .. SUB_ORDER - 1 /\ 0 \in 0 .. COFACTOR - 1
      BY <3>1, <3>2, VSSAssumption DEF Mul
    <3> QED
      BY <3>3 DEF SubgroupPoint, CurvePoints
  <2> HIDE DEF n
  <2> QED
    BY <1>2, <1>3, <2>1 DEF SealBid, SealedBids, Envelopes
<1> HIDE DEF bid, n
<1>5. /\ bids' \in Seq(SealedBids) /\ Len(bids') = n /\ bids'[n] = bid
      /\ \A k \in 1 .. Len(bids) : bids'[k] = bids[k]
  BY <1>1, <1>3, <1>4, AppendProperties DEF n
<1>6. DeskTyped'
  BY <1>1, <1>3, <1>5 DEF DeskTyped
<1>7. Leaves' = Append(Leaves, leaf)
  <2>1. /\ Leaves \in Seq(LeafSet) /\ Len(Leaves) = Len(bids)
        /\ \A i \in DOMAIN bids : Leaves[i] = Leaf(i, bids[i].commitment)
    BY <1>1, LeavesAre DEF DeskTyped
  <2>2. Leaves' = [i \in DOMAIN bids' |-> Leaf(i, bids'[i].commitment)]
    BY DEF Leaves
  <2>3. DOMAIN bids' = 1 .. n /\ DOMAIN bids = 1 .. Len(bids) /\ n = Len(bids) + 1
    BY <1>3, <1>5 DEF n
  <2>4. bid.commitment = committed
    BY DEF bid
  <2> HIDE DEF LeafSet
  <2>5. ASSUME NEW i \in 1 .. n PROVE Leaves'[i] = Append(Leaves, leaf)[i]
    <3>1. CASE i = n
      BY <1>5, <2>1, <2>2, <2>3, <2>4, <3>1
    <3>2. CASE i # n
      BY <1>3, <1>5, <2>1, <2>2, <2>3, <3>2
    <3> QED
      BY <3>1, <3>2
  <2>6. /\ Append(Leaves, leaf) = [i \in 1 .. n |-> Append(Leaves, leaf)[i]]
        /\ Leaves' = [i \in 1 .. n |-> Leaves'[i]]
    BY <1>3, <2>1, <2>2, <2>3
  <2> QED
    BY <2>5, <2>6
<1>8. TreeMatches(tree, Leaves, BidDepth)'
  <2>1. Leaves \in Seq(LeafSet) /\ Len(Leaves) < Capacity(BidDepth) /\ leaf \in LeafSet
    BY <1>1, <1>2, <1>3, LeavesAre DEF DeskTyped, LeafSet, MaxBids
  <2>2. TreeMatches(Insert(tree, leaf, BidDepth), Append(Leaves, leaf), BidDepth)
    BY <1>1, <1>2, <2>1, InsertMatches
  <2>3. TreeMatches(tree', Leaves', BidDepth)
    BY <1>1, <1>7, <2>2
  <2> QED
    BY <2>3 DEF TreeMatches
<1>9. OpensAfterClose' /\ WitnessesLowest'
  BY <1>1 DEF OpensAfterClose, WitnessesLowest
<1> QED
  BY <1>6, <1>8, <1>9 DEF DeskInv

\* An opening is of a bid, and not before the close: there were no shares before.
LEMMA OpenKeepsDesk ==
    ASSUME DeskInv, NEW i \in BidIndices, OpenBid(i)
    PROVE  DeskInv'
<1> DEFINE opening == [index |-> i, amount |-> bids[i].envelope.ct.plain]
<1>1. /\ DeskTyped /\ TreeMatches(tree, Leaves, BidDepth) /\ OpensAfterClose /\ WitnessesLowest
      /\ i \in DOMAIN bids /\ Cardinality(DOMAIN filed[i]) >= COMMITTEE_THRESHOLD
      /\ opened' = Append(opened, opening)
      /\ UNCHANGED <<desk, dealing, bids, tree, closed, filed, witness, revoked>>
  BY DEF DeskInv, OpenBid
<1>2. closed
  <2> SUFFICES ASSUME ~closed PROVE FALSE
    OBVIOUS
  <2>1. DOMAIN filed[i] = {}
    BY <1>1 DEF OpensAfterClose
  <2>2. Cardinality(DOMAIN filed[i]) = 0
    BY <2>1, FS_EmptySet
  <2> QED
    BY <1>1, <2>2, VSSAssumption
<1>3. opening \in Openings
  <2>1. bids[i] \in SealedBids
    BY <1>1 DEF DeskTyped
  <2> QED
    BY <2>1 DEF SealedBids, Envelopes, Openings
<1> HIDE DEF opening
<1>4. /\ opened' \in Seq(Openings) /\ Len(opened') = Len(opened) + 1
      /\ opened'[Len(opened) + 1] = opening /\ Len(opened) \in Nat
      /\ \A k \in 1 .. Len(opened) : opened'[k] = opened[k]
  BY <1>1, <1>3, AppendProperties DEF DeskTyped
<1>5. DeskTyped'
  BY <1>1, <1>4 DEF DeskTyped
<1>6. TreeMatches(tree, Leaves, BidDepth)' /\ WitnessesLowest'
  BY <1>1 DEF TreeMatches, Leaves, WitnessesLowest
<1>7. OpensAfterClose'
  <2>1. ASSUME NEW k \in DOMAIN opened' PROVE opened'[k].index \in DOMAIN bids
    <3>1. k \in 1 .. Len(opened) + 1
      BY <1>4
    <3>2. CASE k = Len(opened) + 1
      BY <1>1, <1>4, <3>2 DEF opening
    <3>3. CASE k # Len(opened) + 1
      <4>1. k \in DOMAIN opened /\ opened'[k] = opened[k]
        BY <1>1, <1>4, <3>1, <3>3 DEF DeskTyped
      <4> QED
        BY <1>1, <4>1 DEF OpensAfterClose
    <3> QED
      BY <3>2, <3>3
  <2> QED
    BY <1>1, <1>2, <2>1 DEF OpensAfterClose
<1> QED
  BY <1>5, <1>6, <1>7 DEF DeskInv


\* A witness compares the root of what was opened with the chain's, so what was opened
\* is all that was accepted, at the amounts it was accepted with.
LEMMA WitnessKeepsDesk ==
    ASSUME DeskInv, AwardWitness
    PROVE  DeskInv'
<1> DEFINE n == Len(opened)
           ordered == [i \in DOMAIN opened |->
                         opened[CHOOSE k \in DOMAIN opened : opened[k].index = i]]
           found == [i \in DOMAIN ordered |-> Leaf(i, ordered[i].amount)]
<1>1. /\ DeskTyped /\ TreeMatches(tree, Leaves, BidDepth) /\ OpensAfterClose
      /\ opened # << >> /\ NoGaps(opened)
      /\ tree.root = RootFromLeaves(found, BidDepth)
      /\ witness' = [count |-> Len(ordered), winner |-> SelectWinner(ordered).index]
      /\ UNCHANGED <<desk, dealing, bids, tree, closed, filed, opened, revoked>>
  BY DEF DeskInv, AwardWitness
<1>2. /\ opened \in Seq(Openings) /\ n \in Nat /\ n > 0 /\ DOMAIN opened = 1 .. n
      /\ bids \in Seq(SealedBids) /\ Len(bids) \in Nat /\ Len(bids) <= MaxBids
      /\ DOMAIN bids = 1 .. Len(bids)
  BY <1>1, EmptySeq DEF DeskTyped
<1>3. ASSUME NEW i \in 1 .. n
      PROVE  ordered[i].index = i /\ ordered[i] \in Openings
  <2>1. i \in {opened[k].index : k \in DOMAIN opened}
    BY <1>1 DEF NoGaps
  <2>2. PICK k \in DOMAIN opened : opened[k].index = i
    BY <2>1
  <2> DEFINE c == CHOOSE x \in DOMAIN opened : opened[x].index = i
  <2>3. c \in DOMAIN opened /\ opened[c].index = i
    BY <2>2
  <2>4. ordered[i] = opened[c]
    BY <1>2
  <2> HIDE DEF c, ordered
  <2>5. opened[c] \in Openings
    BY <1>2, <2>3
  <2> QED
    BY <2>3, <2>4, <2>5
<1>4. ordered \in Seq(Openings) /\ Len(ordered) = n /\ DOMAIN ordered = 1 .. n
  <2>1. ordered = [i \in 1 .. n |-> ordered[i]]
    BY <1>2
  <2> HIDE DEF ordered
  <2> QED
    BY <1>2, <1>3, <2>1
<1> HIDE DEF ordered
<1>5. n <= Len(bids)
  <2>1. n \in 1 .. n
    BY <1>2
  <2>2. PICK k \in DOMAIN opened : opened[k].index = n
    BY <1>1, <2>1 DEF NoGaps
  <2>3. n \in DOMAIN bids
    BY <1>1, <2>2 DEF OpensAfterClose
  <2> QED
    BY <1>2, <2>3
<1>6. found \in Seq(LeafSet) /\ Len(found) = n
      /\ \A i \in 1 .. n : found[i] = Leaf(i, ordered[i].amount)
  <2>1. ASSUME NEW i \in 1 .. n PROVE Leaf(i, ordered[i].amount) \in LeafSet
    <3>1. i \in BidIndices /\ ordered[i].amount \in Amounts
      BY <1>3 DEF Openings
    <3> QED
      BY <3>1 DEF LeafSet
  <2>2. found = [i \in 1 .. n |-> Leaf(i, ordered[i].amount)]
    BY <1>4
  <2> HIDE DEF LeafSet, found
  <2> QED
    BY <1>2, <2>1, <2>2
<1> HIDE DEF found
<1>7. found = Leaves
  <2>1. PADDING \notin LeafSet
    BY DEF PADDING, LeafSet, Leaf
  <2>2. Leaves \in Seq(LeafSet) /\ Len(Leaves) = Len(bids)
    BY <1>2, LeavesAre
  <2>3. Len(found) <= Capacity(BidDepth) /\ Len(Leaves) <= Capacity(BidDepth)
    BY <1>2, <1>5, <1>6, <2>2, DeskAssumption, CapacityIs DEF MaxBids
  <2>4. RootFromLeaves(found, BidDepth) = RootFromLeaves(Leaves, BidDepth)
    BY <1>1 DEF TreeMatches
  <2> HIDE DEF LeafSet
  <2> QED
    BY <1>6, <2>1, <2>2, <2>3, <2>4, DeskAssumption, RootsDiffer
<1>8. n = Len(bids) /\ \A i \in 1 .. n : ordered[i].amount = bids[i].commitment
  <2>1. n = Len(bids)
    BY <1>2, <1>6, <1>7, LeavesAre
  <2>2. ASSUME NEW i \in 1 .. n PROVE ordered[i].amount = bids[i].commitment
    <3>1. Leaf(i, ordered[i].amount) = Leaf(i, bids[i].commitment)
      BY <1>2, <1>6, <1>7, <2>1, LeavesAre
    <3> QED
      BY <3>1 DEF Leaf
  <2> QED
    BY <2>1, <2>2
<1>9. WitnessesLowest'
  <2>1. \A k \in 1 .. n : ordered[k].index = k /\ ordered[k].amount \in Nat
    BY <1>3 DEF Openings, Amounts
  <2>2. /\ SelectWinner(ordered).index \in 1 .. n
        /\ \A j \in 1 .. n : LET w == SelectWinner(ordered).index IN
             \/ ordered[w].amount < ordered[j].amount
             \/ ordered[w].amount = ordered[j].amount /\ w <= j
    BY <1>2, <1>4, <2>1, SelectsLowest
  <2>3. witness'.count = n /\ witness'.winner = SelectWinner(ordered).index
    BY <1>1, <1>4
  <2> QED
    BY <1>1, <1>2, <1>8, <2>2, <2>3 DEF WitnessesLowest
<1>10. closed
  BY <1>1 DEF OpensAfterClose, DeskTyped
<1> QED
  BY <1>1, <1>9, <1>10 DEF DeskInv, DeskTyped, TreeMatches, Leaves, OpensAfterClose

\* The close, a share and a revocation leave the bids and what was opened alone.
LEMMA OthersKeepDesk ==
    ASSUME DeskInv,
           \/ CloseTender
           \/ \E i \in BidIndices, m \in CommitteeIndices, point \in CurvePoints :
                FileShare(i, m, point)
           \/ \E id \in CredentialIds : Revoke(id)
           \/ UNCHANGED deskVars
    PROVE  DeskInv'
<1>1. UNCHANGED <<desk, dealing, bids, tree, opened, witness>>
  BY DEF CloseTender, FileShare, Revoke, deskVars
<1>2. revoked' \in CredentialIds \cup {NoneRevoked} /\ closed' \in BOOLEAN
  <2>1. revoked' \in CredentialIds \cup {NoneRevoked}
    BY DEF DeskInv, DeskTyped, CloseTender, FileShare, Revoke, deskVars
  <2>2. closed' = closed \/ closed' = TRUE
    BY DEF CloseTender, FileShare, Revoke, deskVars
  <2> QED
    BY <2>1, <2>2 DEF DeskInv, DeskTyped
<1>3. ~closed' => ~closed /\ filed' = filed
  <2>1. CASE CloseTender
    BY <2>1 DEF CloseTender
  <2>2. ASSUME NEW i \in BidIndices, NEW m \in CommitteeIndices,
               NEW point \in CurvePoints, FileShare(i, m, point)
        PROVE  ~closed' => FALSE
    <3>1. closed /\ closed' = closed
      BY <2>2 DEF FileShare
    <3> QED
      BY <3>1
  <2>3. ASSUME NEW id \in CredentialIds, Revoke(id) PROVE closed' = closed /\ filed' = filed
    BY <2>3 DEF Revoke
  <2>4. UNCHANGED deskVars => closed' = closed /\ filed' = filed
    BY DEF deskVars
  <2> QED
    BY <2>1, <2>2, <2>3, <2>4
<1>4. DeskTyped'
  BY <1>1, <1>2 DEF DeskInv, DeskTyped
<1>5. TreeMatches(tree, Leaves, BidDepth)' /\ WitnessesLowest'
  BY <1>1 DEF DeskInv, TreeMatches, Leaves, WitnessesLowest
<1>6. OpensAfterClose'
  BY <1>1, <1>3 DEF DeskInv, OpensAfterClose
<1> QED
  BY <1>4, <1>5, <1>6 DEF DeskInv

\* Whatever is sealed, filed, opened and revoked in whatever order.
THEOREM DeskInvariant == DeskSpec => []DeskInv
<1>1. DeskInv /\ [DeskNext]_deskVars => DeskInv'
  BY SubmitKeepsDesk, OpenKeepsDesk, WitnessKeepsDesk, OthersKeepDesk DEF DeskNext
<1> QED
  BY <1>1, DeskAtStart, PTL DEF DeskSpec

\* A witness is of the chain's own complete set, whatever the depth of the tree, the
\* number of bids and the order of the openings: the root accumulated with one cached
\* node per level is that of a full recomputation, every leaf has its inclusion proof,
\* and the winner is the lowest, earliest of all bids accepted.
THEOREM WitnessesOfCompleteSets == DeskSpec => []WitnessOfCompleteSet
<1>1. DeskInv => WitnessOfCompleteSet
  <2> SUFFICES ASSUME DeskInv PROVE WitnessOfCompleteSet
    OBVIOUS
  <2>1. /\ bids \in Seq(SealedBids) /\ Len(bids) <= MaxBids
        /\ tree.root = RootFromLeaves(Leaves, BidDepth)
    BY DEF DeskInv, DeskTyped, TreeMatches
  <2>2. Leaves \in Seq(LeafSet) /\ Len(Leaves) = Len(bids)
    BY <2>1, LeavesAre
  <2>3. ASSUME NEW i \in DOMAIN bids
        PROVE  VerifyProof(Leaves[i], i - 1, Siblings(Leaves, i - 1, BidDepth), tree.root,
                           BidDepth)
    <3>1. /\ i - 1 \in 0 .. Capacity(BidDepth) - 1 /\ i - 1 < Len(Leaves) /\ (i - 1) + 1 = i
          /\ BidDepth \in Nat
      <4>1. BidDepth \in Nat /\ Capacity(BidDepth) \in Nat
        BY DeskAssumption, CapacityIs
      <4>2. i \in 1 .. Len(bids) /\ Len(bids) \in Nat /\ Len(bids) <= Capacity(BidDepth)
        BY <2>1 DEF MaxBids
      <4> QED
        BY <2>2, <4>1, <4>2
    <3>2. Levels(Leaves, BidDepth)[0][i - 1] = Leaves[i]
      BY <3>1, LevelsAre
    <3> QED
      BY <2>1, <3>1, <3>2, ProofsVerify
  <2> QED
    BY <2>1, <2>3 DEF WitnessOfCompleteSet, DeskInv, WitnessesLowest
<1> QED
  BY <1>1, DeskInvariant, PTL

\* Under the published root exactly the revoked credential fails to prove that it is
\* not, for a tree of any depth and any two credentials.
THEOREM OnlyTheRevokedFail == DeskSpec => []OnlyRevokedFail
<1>1. DeskInv => OnlyRevokedFail
  BY RevocationProofs, DeskAssumption DEF DeskInv, DeskTyped, OnlyRevokedFail, CredentialIds
<1> QED
  BY <1>1, DeskInvariant, PTL

-----------------------------------------------------------------------------
(* The shares.                                                             *)

\* The dealer's commitments.
Committed == dealing.commitments

\* What is dealt was verified, a bid's key is wrapped under the secret times its
\* ephemeral point, a filed share is the member's own of that point but for what it has
\* of small order, and honest bidders seal what they commit to.
SharesFiled ==
    /\ Committed \in Seq(Scalars) /\ Len(Committed) = COMMITTEE_THRESHOLD
    /\ dealing.publicKey = Committed[1]
    /\ \A m \in CommitteeIndices : dealing.shares[m] = ExpectedPublicShare(m, Committed)
    /\ \A i \in BidIndices : DOMAIN filed[i] \subseteq CommitteeIndices
    /\ filed \in [BidIndices -> {filed[i] : i \in BidIndices}]
    /\ \A i \in BidIndices : filed[i] = [m \in DOMAIN filed[i] |-> filed[i][m]]
    /\ \A i \in DOMAIN bids : LET e == bids[i].envelope IN
         /\ e.wrapped.under = SubgroupPoint(Mul(dealing.publicKey, e.ephemeral))
         /\ e.wrapped.key = e.ct.key
         /\ desk.honest => e.ct.plain = bids[i].commitment
         /\ \A m \in DOMAIN filed[i] :
              /\ filed[i][m] \in CurvePoints
              /\ filed[i][m].log = Mul(e.ephemeral, ExpectedPublicShare(m, Committed))

\* The dealing was verified before it is used.
LEMMA DealtAtStart == DeskInit => SharesFiled
<1> SUFFICES ASSUME DeskInit PROVE SharesFiled
  OBVIOUS
<1>1. PICK c \in desk.coefficients : dealing = Deal(c)
  BY DEF DeskInit
<1>2. c \in [1 .. COMMITTEE_THRESHOLD -> Scalars]
  <2>1. desk \in DeskRecords
    BY DeskAssumption DEF DeskInit
  <2>2. desk.coefficients \in SUBSET [1 .. COMMITTEE_THRESHOLD -> Scalars]
    BY <2>1 DEF DeskRecords
  <2> QED
    BY <1>1, <2>2
<1>3. Committed = c /\ COMMITTEE_THRESHOLD \in Nat
  BY <1>1, VSSAssumption DEF Deal, Committed
<1>4. Committed \in Seq(Scalars)
  BY <1>2, <1>3
<1>5. Len(Committed) = COMMITTEE_THRESHOLD /\ dealing.publicKey = Committed[1]
  BY DEF DeskInit, VerifyDealing, Committed
<1>6. filed = [i \in BidIndices |-> << >>] /\ DOMAIN bids = {}
  BY DEF DeskInit
<1>7. \A i \in BidIndices : DOMAIN filed[i] \subseteq CommitteeIndices
  BY <1>6
<1>8. filed \in [BidIndices -> {filed[i] : i \in BidIndices}]
  BY <1>6
<1>9. \A i \in BidIndices : filed[i] = [m \in DOMAIN filed[i] |-> filed[i][m]]
  <2>1. << >> = [m \in DOMAIN << >> |-> << >>[m]]
    OBVIOUS
  <2> QED
    BY <1>6, <2>1
<1>10. \A m \in CommitteeIndices : dealing.shares[m] = ExpectedPublicShare(m, Committed)
  BY DEF DeskInit, VerifyDealing, VerifyShare, Committed
<1> HIDE DEF Committed
<1> QED
  BY <1>4, <1>5, <1>6, <1>7, <1>8, <1>9, <1>10 DEF SharesFiled

\* A new bid has no shares: nothing was filed before the close.
LEMMA SubmitKeepsShares ==
    ASSUME DeskInv, SharesFiled, NEW sealed \in Amounts, NEW committed \in Amounts,
           NEW r \in desk.ephemerals, SubmitSealed(sealed, committed, r)
    PROVE  SharesFiled'
<1> DEFINE n == Len(bids) + 1
           bid == [commitment |-> committed,
                   envelope |-> SealBid(dealing.publicKey, sealed, n, r)]
<1>1. /\ bids \in Seq(SealedBids) /\ ~closed /\ bids' = Append(bids, bid)
      /\ UNCHANGED <<desk, dealing, filed>> /\ filed = [i \in BidIndices |-> << >>]
      /\ n \in BidIndices
  <2>1. /\ bids \in Seq(SealedBids) /\ ~closed /\ bids' = Append(bids, bid)
        /\ UNCHANGED <<desk, dealing, filed>> /\ filed = [i \in BidIndices |-> << >>]
        /\ Len(bids) < desk.most
    BY DEF DeskInv, DeskTyped, OpensAfterClose, SubmitSealed
  <2>2. desk \in DeskRecords
    BY DeskAssumption DEF DeskInv, DeskTyped
  <2>3. desk.most \in 0 .. MaxBids /\ MaxBids \in Nat
    BY <2>2, DeskAssumption, CapacityIs DEF DeskRecords, MaxBids
  <2> QED
    BY <2>1, <2>3 DEF BidIndices
<1>2. /\ bid.envelope.wrapped.under
           = SubgroupPoint(Mul(dealing.publicKey, bid.envelope.ephemeral))
      /\ bid.envelope.wrapped.key = bid.envelope.ct.key
      /\ desk.honest => bid.envelope.ct.plain = bid.commitment
  BY DEF SealBid, SubmitSealed
<1> HIDE DEF bid
<1>3. \A i \in DOMAIN bids' : bids'[i] = IF i = n THEN bid ELSE bids[i]
  BY <1>1
<1>4. \A i \in DOMAIN bids' : (i # n => i \in DOMAIN bids) /\ (i = n => DOMAIN filed[i] = {})
  BY <1>1
<1>5. Committed' = Committed
  BY <1>1 DEF Committed
<1> HIDE DEF n
<1> QED
  BY <1>1, <1>2, <1>3, <1>4, <1>5 DEF SharesFiled

\* A filed share passed its proof.
LEMMA FileKeepsShares ==
    ASSUME DeskInv, SharesFiled, NEW i \in BidIndices, NEW m \in CommitteeIndices,
           NEW point \in CurvePoints, FileShare(i, m, point)
    PROVE  SharesFiled'
<1> DEFINE now == [k \in DOMAIN filed[i] \cup {m} |-> IF k = m THEN point ELSE filed[i][k]]
<1>1. /\ i \in DOMAIN bids /\ filed' = [filed EXCEPT ![i] = now]
      /\ UNCHANGED <<desk, dealing, bids>>
      /\ point.log = Mul(bids[i].envelope.ephemeral, ExpectedPublicShare(m, Committed))
  BY DEF FileShare, ShareProved, VerifyDleq, Committed
<1>2. \A j \in BidIndices : filed'[j] = IF j = i THEN now ELSE filed[j]
  BY <1>1 DEF SharesFiled
<1>3. \A j \in BidIndices : DOMAIN filed'[j] \subseteq CommitteeIndices
  <2>1. DOMAIN now = DOMAIN filed[i] \cup {m} /\ DOMAIN filed[i] \subseteq CommitteeIndices
    BY DEF SharesFiled
  <2> HIDE DEF now
  <2> QED
    BY <1>2, <2>1 DEF SharesFiled
<1>4. filed' \in [BidIndices -> {filed'[j] : j \in BidIndices}]
  BY <1>1 DEF SharesFiled
<1>5. DOMAIN bids \subseteq BidIndices
  <2>1. DOMAIN bids = 1 .. Len(bids) /\ Len(bids) \in Nat /\ Len(bids) <= MaxBids
    BY DEF DeskInv, DeskTyped
  <2>2. MaxBids \in Nat
    BY DeskAssumption, CapacityIs DEF MaxBids
  <2> QED
    BY <2>1, <2>2 DEF BidIndices
<1>6. Committed' = Committed
  BY <1>1 DEF Committed
<1>7. ASSUME NEW j \in DOMAIN bids, NEW k \in DOMAIN filed'[j]
      PROVE  /\ filed'[j][k] \in CurvePoints
             /\ filed'[j][k].log =
                  Mul(bids[j].envelope.ephemeral, ExpectedPublicShare(k, Committed))
  <2>1. CASE j = i
    <3>1. filed'[j] = now
      BY <1>2, <1>5, <2>1
    <3>2. CASE k = m
      BY <1>1, <2>1, <3>1, <3>2
    <3>3. CASE k # m
      BY <1>7, <2>1, <3>1, <3>3 DEF SharesFiled
    <3> QED
      BY <3>2, <3>3
  <2>2. CASE j # i
    <3>1. filed'[j] = filed[j]
      BY <1>2, <1>5, <2>2
    <3> QED
      BY <1>7, <3>1 DEF SharesFiled
  <2> QED
    BY <2>1, <2>2
<1>8. \A j \in BidIndices : filed'[j] = [k \in DOMAIN filed'[j] |-> filed'[j][k]]
  BY <1>2 DEF SharesFiled
<1>9. \A j \in DOMAIN bids : LET e == bids[j].envelope IN
        /\ e.wrapped.under = SubgroupPoint(Mul(dealing.publicKey, e.ephemeral))
        /\ e.wrapped.key = e.ct.key
        /\ desk.honest => e.ct.plain = bids[j].commitment
        /\ \A k \in DOMAIN filed'[j] :
             /\ filed'[j][k] \in CurvePoints
             /\ filed'[j][k].log = Mul(e.ephemeral, ExpectedPublicShare(k, Committed))
  BY <1>7 DEF SharesFiled
<1>10. UNCHANGED <<desk, dealing, bids>>
  BY <1>1
<1> HIDE DEF now
<1> QED
  BY <1>3, <1>4, <1>6, <1>8, <1>9, <1>10 DEF SharesFiled

\* Whoever files what, in whatever order, a share that is taken differs from its
\* member's own by no more than a point of small order.
THEOREM SharesInvariant == DeskSpec => []SharesFiled
<1>1. DeskInv /\ SharesFiled /\ [DeskNext]_deskVars => SharesFiled'
  <2> SUFFICES ASSUME DeskInv, SharesFiled, [DeskNext]_deskVars PROVE SharesFiled'
    OBVIOUS
  <2>1. CASE UNCHANGED <<desk, dealing, bids, filed>>
    BY <2>1 DEF SharesFiled, Committed
  <2>2. \/ UNCHANGED <<desk, dealing, bids, filed>>
        \/ \E sealed, committed \in Amounts, r \in desk.ephemerals :
             SubmitSealed(sealed, committed, r)
        \/ \E i \in BidIndices, m \in CommitteeIndices, point \in CurvePoints :
             FileShare(i, m, point)
    BY DEF DeskNext, deskVars, CloseTender, OpenBid, AwardWitness, Revoke
  <2> QED
    BY <2>1, <2>2, SubmitKeepsShares, FileKeepsShares
<1> QED
  BY <1>1, DealtAtStart, DeskInvariant, PTL DEF DeskSpec

\* However large the committee and its threshold, and whatever the prime and the
\* cofactor: the member's own share passes, and any members whose shares passed, as many
\* as the threshold or more, combine to the point the bidder wrapped its key under, but
\* for what their shares have of small order.
THEOREM AnyMembersOpen == DeskSpec => []AcceptedSharesCombine
<1>1. DeskInv /\ SharesFiled => AcceptedSharesCombine
  <2> SUFFICES ASSUME DeskInv, SharesFiled, NEW i \in DOMAIN bids
               PROVE  LET R == bids[i].envelope.ephemeral
                          wrapped == bids[i].envelope.wrapped.under
                      IN /\ \A m \in CommitteeIndices :
                              ShareProved(i, m, DecryptionShare(dealing.shares[m], R))
                         /\ \A M \in SUBSET DOMAIN filed[i] :
                              Cardinality(M) >= COMMITTEE_THRESHOLD =>
                              LET shared == CombineInExponent([m \in M |-> filed[i][m]])
                              IN /\ shared.log = wrapped.log
                                 /\ (\A m \in M : InPrimeSubgroup(filed[i][m]))
                                      => shared = wrapped
    BY Zenon DEF AcceptedSharesCombine
  <2> DEFINE r == bids[i].envelope.ephemeral
             wrapped == bids[i].envelope.wrapped.under
  <2>1. i \in BidIndices /\ r \in Points
    <3>1. bids \in Seq(SealedBids) /\ Len(bids) <= MaxBids /\ MaxBids \in Nat
      BY DeskAssumption, CapacityIs DEF DeskInv, DeskTyped, MaxBids
    <3>2. bids[i] \in SealedBids /\ i \in BidIndices
      BY <3>1 DEF BidIndices
    <3> QED
      BY <3>2 DEF SealedBids, Envelopes, Scalars, Points
  <2>2. wrapped = SubgroupPoint(Mul(Committed[1], r))
    BY DEF SharesFiled
  <2>3. ASSUME NEW m \in CommitteeIndices
        PROVE  ShareProved(i, m, DecryptionShare(dealing.shares[m], r))
    BY DEF SharesFiled, ShareProved, VerifyDleq, DecryptionShare, SubgroupPoint, Committed
  <2>4. ASSUME NEW M \in SUBSET DOMAIN filed[i], Cardinality(M) >= COMMITTEE_THRESHOLD
        PROVE  LET shared == CombineInExponent([m \in M |-> filed[i][m]])
               IN /\ shared.log = wrapped.log
                  /\ (\A m \in M : InPrimeSubgroup(filed[i][m])) => shared = wrapped
    <3> DEFINE part == [m \in M |-> filed[i][m]]
    <3>1. M \in SUBSET CommitteeIndices
      BY <2>1 DEF SharesFiled
    <3>2. \A m \in M : /\ filed[i][m] \in CurvePoints
                      /\ filed[i][m].log = Mul(r, ExpectedPublicShare(m, Committed))
      BY DEF SharesFiled
    <3>3. Committed \in Seq(Scalars) /\ Len(Committed) > 0 /\ Cardinality(M) >= Len(Committed)
      BY <2>4, VSSAssumption DEF SharesFiled
    <3> HIDE DEF r, wrapped
    <3>4. Interpolate([m \in M |-> Mul(r, ExpectedPublicShare(m, Committed))])
            = Mul(Committed[1], r)
      BY <2>1, <3>1, <3>3, SharesCombine
    <3>5. part \in [M -> CurvePoints] /\ \A m \in M : part[m] = filed[i][m]
      BY <3>2
    <3>6. [m \in M |-> part[m].log] = [m \in M |-> Mul(r, ExpectedPublicShare(m, Committed))]
      BY <3>2, <3>5
    <3> HIDE DEF part
    <3>7. CombineInExponent(part).log = Mul(Committed[1], r)
      BY <3>1, <3>4, <3>5, <3>6, CombinesPoints
    <3>8. ASSUME \A m \in M : InPrimeSubgroup(filed[i][m])
          PROVE  CombineInExponent(part) = SubgroupPoint(Mul(Committed[1], r))
      <4>1. \A m \in M : part[m].small = 0
        BY <3>5, <3>8 DEF InPrimeSubgroup
      <4> QED
        BY <3>1, <3>4, <3>5, <3>6, <4>1, CombinesPoints
    <3> QED
      BY <2>2, <3>7, <3>8 DEF part, SubgroupPoint
  <2> QED
    BY <2>3, <2>4
<1> QED
  BY <1>1, DeskInvariant, SharesInvariant, PTL

\* An honest bidder's bid is opened by whatever shares are on file, once there are
\* enough of them and none lies outside the subgroup: no stale or damaged share is among
\* them that could prevent it.
THEOREM HonestBidsOpen ==
    DeskSpec => [](desk.honest => \A i \in DOMAIN bids :
                     /\ Cardinality(DOMAIN filed[i]) >= COMMITTEE_THRESHOLD
                     /\ \A m \in DOMAIN filed[i] : InPrimeSubgroup(filed[i][m])
                     => Opens(bids[i].envelope, Shared(i), bids[i].commitment))
<1>1. SharesFiled /\ DeskInv /\ AcceptedSharesCombine =>
        (desk.honest => \A i \in DOMAIN bids :
           /\ Cardinality(DOMAIN filed[i]) >= COMMITTEE_THRESHOLD
           /\ \A m \in DOMAIN filed[i] : InPrimeSubgroup(filed[i][m])
           => Opens(bids[i].envelope, Shared(i), bids[i].commitment))
  <2> SUFFICES ASSUME SharesFiled, DeskInv, AcceptedSharesCombine, desk.honest,
                      NEW i \in DOMAIN bids,
                      Cardinality(DOMAIN filed[i]) >= COMMITTEE_THRESHOLD,
                      \A m \in DOMAIN filed[i] : InPrimeSubgroup(filed[i][m])
               PROVE  Opens(bids[i].envelope, Shared(i), bids[i].commitment)
    OBVIOUS
  <2> DEFINE M == DOMAIN filed[i]
  <2>1. CombineInExponent([m \in M |-> filed[i][m]]) = bids[i].envelope.wrapped.under
    BY DEF AcceptedSharesCombine
  <2>2. filed[i] = [m \in M |-> filed[i][m]]
    <3>1. Len(bids) \in Nat /\ Len(bids) <= MaxBids /\ MaxBids \in Nat
          /\ DOMAIN bids = 1 .. Len(bids)
      BY DeskAssumption, CapacityIs DEF DeskInv, DeskTyped, MaxBids
    <3>2. i \in BidIndices
      BY <3>1 DEF BidIndices
    <3> QED
      BY <3>2 DEF SharesFiled
  <2>3. Shared(i) = bids[i].envelope.wrapped.under
    BY <2>1, <2>2 DEF Shared
  <2> QED
    BY <2>3 DEF SharesFiled, Opens, UnwrapDek
<1> QED
  BY <1>1, DeskInvariant, SharesInvariant, AnyMembersOpen, PTL

=============================================================================
