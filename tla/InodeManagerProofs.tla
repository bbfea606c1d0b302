------------------------- MODULE InodeManagerProofs -------------------------
(***************************************************************************)
(* Theorems about InodeManager.                                            *)
(***************************************************************************)
EXTENDS InodeManagerInv, NaturalsLemmas, TLAPS

(***************************************************************************)
(* Blocks and bytes                                                        *)
(***************************************************************************)

\* Division with remainder.
LEMMA Division ==
  ASSUME NEW n \in Nat, NEW d \in Nat \ {0}
  PROVE  n \div d \in Nat /\ n % d \in 0 .. d - 1 /\ n = d * (n \div d) + (n % d)
<1>1. n \div d \in Nat
  OBVIOUS
<1>2. n % d \in 0 .. d - 1
  OBVIOUS
<1>3. n = d * (n \div d) + (n % d)
  OBVIOUS
<1> QED
  BY <1>1, <1>2, <1>3

LEMMA DivisionIsUnique ==
  ASSUME NEW d \in Nat \ {0}, NEW q \in Nat, NEW r \in 0 .. d - 1
  PROVE  (d * q + r) \div d = q /\ (d * q + r) % d = r
  OBVIOUS

LEMMA DivisionIsMonotonic ==
  ASSUME NEW d \in Nat \ {0}, NEW m \in Nat, NEW n \in Nat, m <= n
  PROVE  m \div d <= n \div d
  OBVIOUS

\* A file of size bytes ends at or before byte b * BLOCK_SIZE if and only if
\* it has at most b blocks: the comparisons of bytes in write_file are
\* comparisons of blocks.
LEMMA BlocksOfSize ==
  ASSUME NEW size \in Nat
  PROVE  /\ BlocksOf(size) \in Nat
         /\ size = 0 => BlocksOf(size) = 0
         /\ \A b \in Nat : size <= b * BLOCK_SIZE <=> BlocksOf(size) <= b
<1> DEFINE D == BLOCK_SIZE  q == BlocksOf(size)  r == (size + D - 1) % D
<1>1. D \in Nat \ {0} /\ size + D - 1 \in Nat
  BY ParametersAssumption
<1>2. q \in Nat /\ r \in 0 .. D - 1 /\ size + D - 1 = D * q + r
  BY <1>1, Division DEF BlocksOf
<1>3. size = 0 => q = 0
  <2>1. SUFFICES ASSUME size = 0 PROVE q = 0
    OBVIOUS
  <2>2. (D * 0 + (D - 1)) \div D = 0
    BY <1>1, DivisionIsUnique
  <2> QED
    BY <1>1, <2>1, <2>2 DEF BlocksOf
<1>4. ASSUME NEW b \in Nat, size <= b * BLOCK_SIZE
      PROVE  q <= b
  <2>1. SUFFICES ASSUME q >= b + 1 PROVE FALSE
    BY <1>2
  <2>2. D * q >= D * (b + 1)
    BY <1>1, <1>2, <2>1
  <2>3. D * (b + 1) = b * D + D
    BY <1>1
  <2> QED
    BY <1>1, <1>2, <1>4, <2>2, <2>3
<1>5. ASSUME NEW b \in Nat, q <= b
      PROVE  size <= b * BLOCK_SIZE
  <2>1. D * q <= b * D
    BY <1>1, <1>2, <1>5
  <2> QED
    BY <1>1, <1>2, <2>1
<1> QED
  BY <1>2, <1>3, <1>4, <1>5

\* How many inodes files have that differ by blocks.
LEMMA LastInodes ==
  ASSUME NEW n \in Nat
  PROVE  /\ LastInode(n) \in Nat
         /\ n = 0 => LastInode(n) = 0
         /\ LastInode(n + 1) = n \div NDIRECT
         /\ \A m \in Nat : m <= n => LastInode(m) <= LastInode(n)
         /\ \A k \in 0 .. n - 1 :
              /\ k \div NDIRECT \in 0 .. LastInode(n)
              /\ k % NDIRECT \in 0 .. NDIRECT - 1
<1>1. NDIRECT \in Nat \ {0}
  BY ParametersAssumption
<1>2. \A m \in Nat : m \div NDIRECT \in Nat /\ m % NDIRECT \in 0 .. NDIRECT - 1
  BY <1>1, Division
<1>3. \A m \in Nat : LastInode(m) \in Nat
  BY <1>2 DEF LastInode
<1>4. LastInode(n + 1) = n \div NDIRECT
  BY DEF LastInode
<1>5. ASSUME NEW k \in 0 .. n - 1
      PROVE  k \div NDIRECT <= LastInode(n)
  <2>1. n # 0 /\ k \in Nat /\ n - 1 \in Nat /\ k <= n - 1
    OBVIOUS
  <2>2. k \div NDIRECT <= (n - 1) \div NDIRECT
    BY <1>1, <2>1, DivisionIsMonotonic
  <2> QED
    BY <2>1, <2>2 DEF LastInode
<1>6. ASSUME NEW m \in Nat, m <= n
      PROVE  LastInode(m) <= LastInode(n)
  <2>1. CASE m = 0
    BY <1>3, <2>1 DEF LastInode
  <2>2. CASE m # 0
    <3>1. m - 1 \in 0 .. n - 1
      BY <1>6, <2>2
    <3>2. LastInode(m) = (m - 1) \div NDIRECT
      BY <2>2 DEF LastInode
    <3> QED
      BY <1>5, <3>1, <3>2
  <2> QED
    BY <2>1, <2>2
<1>7. n = 0 => LastInode(n) = 0
  BY DEF LastInode
<1>8. ASSUME NEW k \in 0 .. n - 1
      PROVE  k \div NDIRECT \in 0 .. LastInode(n) /\ k % NDIRECT \in 0 .. NDIRECT - 1
  BY <1>2, <1>3, <1>5
<1> QED
  BY <1>3, <1>4, <1>6, <1>7, <1>8

\* Block n is at r in inode d, or in front of the next one.
PlacedAt(n, d, r) ==
  /\ r # NDIRECT => n \div NDIRECT = d /\ n % NDIRECT = r
  /\ r = NDIRECT => n \div NDIRECT = d + 1 /\ n % NDIRECT = 0

LEMMA PlaceIn ==
  ASSUME NEW n, NEW d \in Nat, NEW r \in 0 .. NDIRECT, n = NDIRECT * d + r
  PROVE  PlacedAt(n, d, r)
<1>1. NDIRECT \in Nat \ {0}
  BY ParametersAssumption
<1>2. ASSUME r # NDIRECT
      PROVE  n \div NDIRECT = d /\ n % NDIRECT = r
  <2>1. r \in 0 .. NDIRECT - 1
    BY <1>1, <1>2
  <2> QED
    BY <1>1, <2>1, DivisionIsUnique
<1>3. ASSUME r = NDIRECT
      PROVE  n \div NDIRECT = d + 1 /\ n % NDIRECT = 0
  <2>1. n = NDIRECT * (d + 1) + 0 /\ d + 1 \in Nat /\ 0 \in 0 .. NDIRECT - 1
    BY <1>1, <1>3
  <2> QED
    BY <1>1, <2>1, DivisionIsUnique, ZenonT(60)
<1> QED
  BY <1>2, <1>3 DEF PlacedAt

\* Where block n of a file goes: in the inode with the block before it while
\* that one is not full, else in front of the next one.
LEMMA NextPlace ==
  ASSUME NEW n \in Nat, NEW d, d = LastInode(n), NEW r, r = n - d * NDIRECT
  PROVE  /\ r \in 0 .. NDIRECT
         /\ PlacedAt(n, d, r)
<1>1. NDIRECT \in Nat \ {0} /\ d \in Nat
  BY ParametersAssumption, LastInodes
<1>2. r \in 0 .. NDIRECT
  <2>1. CASE n = 0
    BY <1>1, <2>1 DEF LastInode
  <2>2. CASE n # 0
    <3>1. n - 1 \in Nat /\ d = (n - 1) \div NDIRECT
      BY <2>2 DEF LastInode
    <3>2. n - 1 = NDIRECT * d + ((n - 1) % NDIRECT) /\ (n - 1) % NDIRECT \in 0 .. NDIRECT - 1
      BY <1>1, <3>1, Division
    <3>3. NDIRECT * d = d * NDIRECT /\ NDIRECT * d \in Nat
      BY <1>1
    <3> QED
      BY <1>1, <3>2, <3>3
  <2> QED
    BY <2>1, <2>2
<1>3. n = NDIRECT * d + r
  BY <1>1, <1>2
<1> QED
  BY <1>1, <1>2, <1>3, PlaceIn, Zenon

(***************************************************************************)
(* The chain of inodes                                                     *)
(***************************************************************************)

\* c is the beginning of the chain of inum up to its inode n.
IsChain(c, f, inum, n) ==
  c = [m \in 0 .. n |-> IF m = 0 THEN inum ELSE f.inode[c[m - 1]].blocks[NDIRECT]]

LEMMA ChainSteps ==
  ASSUME NEW f, NEW inum, NEW n \in Nat, NEW c, IsChain(c, f, inum, n)
  PROVE  c[0] = inum /\ \A m \in 1 .. n : c[m] = f.inode[c[m - 1]].blocks[NDIRECT]
  BY DEF IsChain

LEMMA ChainExists ==
  ASSUME NEW f, NEW inum, NEW n \in Nat
  PROVE  \E c : IsChain(c, f, inum, n)
<1> DEFINE S == {m \in 0 .. n : \E c : IsChain(c, f, inum, m)}
<1>1. 0 \in S
  <2>1. IsChain([m \in 0 .. 0 |-> inum], f, inum, 0)
    BY DEF IsChain
  <2> QED
    BY <2>1
<1>2. ASSUME NEW m \in 1 .. n, m - 1 \in S
      PROVE  m \in S
  <2>1. PICK c : IsChain(c, f, inum, m - 1)
    BY <1>2, Zenon
  <2> DEFINE next == f.inode[c[m - 1]].blocks[NDIRECT]
             e == [k \in 0 .. m |-> IF k = m THEN next ELSE c[k]]
  <2>2. m - 1 \in Nat /\ m \in 0 .. n
    OBVIOUS
  <2>3. c[0] = inum /\ \A k \in 1 .. m - 1 : c[k] = f.inode[c[k - 1]].blocks[NDIRECT]
    BY <2>1, <2>2, ChainSteps
  <2> HIDE DEF next
  <2>4. \A k \in 0 .. m : e[k] = IF k = 0 THEN inum ELSE f.inode[e[k - 1]].blocks[NDIRECT]
    <3>1. e[0] = inum
      BY <2>2, <2>3
    <3>2. ASSUME NEW k \in 1 .. m - 1
          PROVE  e[k] = f.inode[e[k - 1]].blocks[NDIRECT]
      <4>1. e[k] = c[k] /\ e[k - 1] = c[k - 1]
        BY SMTT(30)
      <4> QED
        BY <2>3, <4>1
    <3>3. e[m] = f.inode[e[m - 1]].blocks[NDIRECT]
      <4>1. e[m] = next /\ e[m - 1] = c[m - 1]
        OBVIOUS
      <4> QED
        BY <4>1 DEF next
    <3> HIDE DEF e
    <3> QED
      BY <3>1, <3>2, <3>3
  <2>5. e = [k \in 0 .. m |-> IF k = 0 THEN inum ELSE f.inode[e[k - 1]].blocks[NDIRECT]]
    BY <2>4
  <2>6. IsChain(e, f, inum, m)
    BY <2>5 DEF IsChain
  <2> QED
    BY <2>2, <2>6
<1> HIDE DEF S
<1>3. \A m \in 0 .. n : m \in S
  BY <1>1, <1>2, Induction
<1> QED
  BY <1>3 DEF S

LEMMA ChainIsUnique ==
  ASSUME NEW f, NEW inum, NEW n \in Nat, NEW m \in Nat, m <= n,
         NEW c, IsChain(c, f, inum, n), NEW e, IsChain(e, f, inum, m)
  PROVE  \A k \in 0 .. m : c[k] = e[k]
<1> DEFINE S == {k \in 0 .. m : c[k] = e[k]}
<1>1. c[0] = inum /\ \A k \in 1 .. n : c[k] = f.inode[c[k - 1]].blocks[NDIRECT]
  <2> HIDE DEF S
  <2>1. c[0] = inum
    BY DEF IsChain
  <2>2. \A k \in 1 .. n : c[k] = f.inode[c[k - 1]].blocks[NDIRECT]
    BY DEF IsChain
  <2> QED
    BY <2>1, <2>2
<1>2. e[0] = inum /\ \A k \in 1 .. m : e[k] = f.inode[e[k - 1]].blocks[NDIRECT]
  BY ChainSteps
<1>3. 0 \in S
  BY <1>1, <1>2
<1>4. ASSUME NEW k \in 1 .. m, k - 1 \in S
      PROVE  k \in S
  <2>1. k \in 1 .. n
    OBVIOUS
  <2> QED
    BY <1>1, <1>2, <1>4, <2>1
<1> HIDE DEF S
<1>5. \A k \in 0 .. m : k \in S
  BY <1>3, <1>4, Induction
<1> QED
  BY <1>5 DEF S

\* ChainedInode follows the pointers in blocks[NDIRECT].
FollowsPointers(f, inum) ==
  /\ ChainedInode(f, inum, 0) = inum
  /\ \A n \in Nat : ChainedInode(f, inum, n + 1) =
       f.inode[ChainedInode(f, inum, n)].blocks[NDIRECT]

LEMMA ChainStep ==
  ASSUME NEW f, NEW inum
  PROVE  FollowsPointers(f, inum)
<1>1. ASSUME NEW n \in Nat
      PROVE  \E c : IsChain(c, f, inum, n) /\ ChainedInode(f, inum, n) = c[n]
  <2> DEFINE c == CHOOSE c : IsChain(c, f, inum, n)
  <2>1. IsChain(c, f, inum, n)
    BY ChainExists, Zenon
  <2>2. ChainedInode(f, inum, n) = c[n]
    BY Zenon DEF ChainedInode, IsChain
  <2> QED
    BY <2>1, <2>2, Zenon
<1>2. ChainedInode(f, inum, 0) = inum
  <2>1. PICK c : IsChain(c, f, inum, 0) /\ ChainedInode(f, inum, 0) = c[0]
    BY <1>1
  <2>2. 0 \in Nat
    OBVIOUS
  <2> QED
    BY <2>1, <2>2 DEF IsChain
<1>3. ASSUME NEW n \in Nat
      PROVE  ChainedInode(f, inum, n + 1) = f.inode[ChainedInode(f, inum, n)].blocks[NDIRECT]
  <2>1. n + 1 \in Nat /\ n <= n + 1 /\ n \in 0 .. n /\ n + 1 \in 1 .. n + 1 /\ (n + 1) - 1 = n
    OBVIOUS
  <2>2. PICK c : IsChain(c, f, inum, n + 1) /\ ChainedInode(f, inum, n + 1) = c[n + 1]
    BY <1>1, <2>1
  <2>3. PICK e : IsChain(e, f, inum, n) /\ ChainedInode(f, inum, n) = e[n]
    BY <1>1
  <2>4. c[n] = e[n]
    BY <2>1, <2>2, <2>3, ChainIsUnique
  <2>5. c[n + 1] = f.inode[c[n]].blocks[NDIRECT]
    BY <2>1, <2>2, ChainSteps
  <2> QED
    BY <2>2, <2>3, <2>4, <2>5
<1> QED
  BY <1>2, <1>3 DEF FollowsPointers

(***************************************************************************)
(* Changes that leave the files well-formed                                *)
(***************************************************************************)

\* The chain and the blocks of a file of n blocks are the same on two disks.
SamePlaces(f, g, i, n) ==
  /\ \A m \in 0 .. LastInode(n) : ChainedInode(g, i, m) = ChainedInode(f, i, m)
  /\ \A k \in 0 .. n - 1 : BlockAt(g, i, k) = BlockAt(f, i, k)

\* They are when the inodes of the file are left alone.
LEMMA SameInodes ==
  ASSUME NEW f, NEW g, NEW i, NEW n \in Nat,
         \A m \in Nat : m < LastInode(n) =>
           g.inode[ChainedInode(f, i, m)].blocks[NDIRECT] =
             f.inode[ChainedInode(f, i, m)].blocks[NDIRECT],
         \A k \in 0 .. n - 1 :
           g.inode[ChainedInode(f, i, k \div NDIRECT)].blocks[k % NDIRECT] =
             BlockAt(f, i, k)
  PROVE  SamePlaces(f, g, i, n)
<1> DEFINE L == LastInode(n)
           C(m) == ChainedInode(f, i, m)
           D(m) == ChainedInode(g, i, m)
           S == {m \in 0 .. L : D(m) = C(m)}
<1>1. L \in Nat
  BY LastInodes
<1>2. FollowsPointers(f, i) /\ FollowsPointers(g, i)
  BY ChainStep, Zenon
<1>3. C(0) = i /\ \A m \in Nat : C(m + 1) = f.inode[C(m)].blocks[NDIRECT]
  BY <1>2, Zenon DEF FollowsPointers
<1>4. D(0) = i /\ \A m \in Nat : D(m + 1) = g.inode[D(m)].blocks[NDIRECT]
  BY <1>2, Zenon DEF FollowsPointers
<1>5. \A m \in Nat : m < L => g.inode[C(m)].blocks[NDIRECT] = f.inode[C(m)].blocks[NDIRECT]
  OBVIOUS
<1>6. \A m \in 0 .. L : D(m) = C(m)
  <2> HIDE DEF L, C, D
  <2>1. 0 \in S
    BY <1>1, <1>3, <1>4
  <2>2. ASSUME NEW m \in 1 .. L, m - 1 \in S
        PROVE  m \in S
    <3>1. m - 1 \in Nat /\ m - 1 < L /\ (m - 1) + 1 = m /\ m \in 0 .. L
      BY <1>1
    <3>2. D(m - 1) = C(m - 1)
      BY <2>2
    <3>3. D(m) = g.inode[D(m - 1)].blocks[NDIRECT] /\ C(m) = f.inode[C(m - 1)].blocks[NDIRECT]
      BY <1>3, <1>4, <3>1
    <3>4. g.inode[C(m - 1)].blocks[NDIRECT] = f.inode[C(m - 1)].blocks[NDIRECT]
      BY <1>5, <3>1
    <3>5. D(m) = C(m)
      BY <3>2, <3>3, <3>4
    <3> QED
      BY <3>1, <3>5
  <2> HIDE DEF S
  <2>3. \A m \in 0 .. L : m \in S
    BY <1>1, <2>1, <2>2, Induction
  <2> QED
    BY <2>3 DEF S
<1>7. ASSUME NEW k \in 0 .. n - 1
      PROVE  BlockAt(g, i, k) = BlockAt(f, i, k)
  <2>1. k \div NDIRECT \in 0 .. L
    BY LastInodes
  <2>2. D(k \div NDIRECT) = C(k \div NDIRECT)
    BY <1>6, <2>1
  <2>3. BlockAt(g, i, k) = g.inode[C(k \div NDIRECT)].blocks[k % NDIRECT]
    BY <2>2, Zenon DEF BlockAt
  <2> QED
    BY <2>3
<1> QED
  BY <1>6, <1>7 DEF SamePlaces

\* Files that are left alone, or cut, stay well-formed while their inodes and
\* blocks stay marked.
LEMMA StaysWellFormed ==
  ASSUME NEW f, NEW g, NEW blocks, NEW fewer,
         WellFormed(f, blocks),
         DOMAIN fewer \subseteq DOMAIN blocks,
         \A i \in DOMAIN fewer :
           /\ blocks[i] \in Nat /\ fewer[i] \in Nat /\ fewer[i] <= blocks[i]
           /\ SamePlaces(f, g, i, fewer[i])
           /\ \A n \in 0 .. LastInode(fewer[i]) :
                /\ ChainedInode(f, i, n) \in g.inums
                /\ n > 0 => g.inode[ChainedInode(f, i, n)].size = 0
           /\ \A k \in 0 .. fewer[i] - 1 : BlockAt(f, i, k) \in g.used \cup {NoBlock}
  PROVE  WellFormed(g, fewer)
<1>1. ASSUME NEW i \in DOMAIN fewer
      PROVE  /\ i \in DOMAIN blocks
             /\ \A n \in 0 .. LastInode(fewer[i]) :
                  /\ n \in 0 .. LastInode(blocks[i])
                  /\ ChainedInode(g, i, n) = ChainedInode(f, i, n)
             /\ \A k \in 0 .. fewer[i] - 1 :
                  /\ k \in 0 .. blocks[i] - 1
                  /\ BlockAt(g, i, k) = BlockAt(f, i, k)
  <2>1. blocks[i] \in Nat /\ fewer[i] \in Nat /\ fewer[i] <= blocks[i]
    OBVIOUS
  <2>2. /\ LastInode(fewer[i]) \in Nat /\ LastInode(blocks[i]) \in Nat
        /\ LastInode(fewer[i]) <= LastInode(blocks[i])
    BY <2>1, LastInodes
  <2>3. SamePlaces(f, g, i, fewer[i])
    OBVIOUS
  <2>4. \A n \in 0 .. LastInode(fewer[i]) : n \in 0 .. LastInode(blocks[i])
    BY <2>2
  <2>5. \A k \in 0 .. fewer[i] - 1 : k \in 0 .. blocks[i] - 1
    BY <2>1
  <2> QED
    BY <2>3, <2>4, <2>5, Zenon DEF SamePlaces
<1>2. ChainsTaken(g, fewer)
  <2>1. SUFFICES ASSUME NEW i \in DOMAIN fewer, NEW n \in 0 .. LastInode(fewer[i])
                 PROVE  /\ ChainedInode(g, i, n) \in g.inums
                        /\ n > 0 => /\ ChainedInode(g, i, n) \in InRange
                                    /\ g.inode[ChainedInode(g, i, n)].size = 0
    BY DEF ChainsTaken
  <2>2. i \in DOMAIN blocks /\ n \in 0 .. LastInode(blocks[i])
    BY <1>1
  <2>3. n > 0 => ChainedInode(f, i, n) \in InRange
    BY <2>2, Zenon DEF WellFormed, ChainsTaken
  <2> QED
    BY <1>1, <2>3
<1>3. ChainsApart(g, fewer)
  <2>1. SUFFICES ASSUME NEW i \in DOMAIN fewer, NEW j \in DOMAIN fewer,
                        NEW m \in 0 .. LastInode(fewer[i]), NEW l \in 0 .. LastInode(fewer[j]),
                        ChainedInode(g, i, m) = ChainedInode(g, j, l)
                 PROVE  i = j /\ m = l
    BY DEF ChainsApart
  <2>2. ChainedInode(f, i, m) = ChainedInode(f, j, l)
    BY <1>1, <2>1
  <2>3. /\ i \in DOMAIN blocks /\ m \in 0 .. LastInode(blocks[i])
        /\ j \in DOMAIN blocks /\ l \in 0 .. LastInode(blocks[j])
    BY <1>1
  <2> QED
    BY <2>2, <2>3, ZenonT(60) DEF WellFormed, ChainsApart
<1>4. BlocksTaken(g, fewer)
  BY <1>1, Zenon DEF BlocksTaken
<1>5. BlocksApart(g, fewer)
  <2>1. SUFFICES ASSUME NEW i \in DOMAIN fewer, NEW j \in DOMAIN fewer,
                        NEW k \in 0 .. fewer[i] - 1, NEW l \in 0 .. fewer[j] - 1,
                        BlockAt(g, i, k) = BlockAt(g, j, l), BlockAt(g, i, k) # NoBlock
                 PROVE  i = j /\ k = l
    BY DEF BlocksApart
  <2>2. BlockAt(f, i, k) = BlockAt(f, j, l) /\ BlockAt(f, i, k) # NoBlock
    BY <1>1, <2>1
  <2>3. /\ i \in DOMAIN blocks /\ k \in 0 .. blocks[i] - 1
        /\ j \in DOMAIN blocks /\ l \in 0 .. blocks[j] - 1
    BY <1>1
  <2>4. BlocksApart(f, blocks)
    BY DEF WellFormed
  <2> QED
    BY <2>2, <2>3, <2>4 DEF BlocksApart
<1> QED
  BY <1>2, <1>3, <1>4, <1>5 DEF WellFormed

\* A file may have one block more when that block, and the inode it is in if
\* it is the first one there, are marked and part of no file.
LEMMA GrowsByABlock ==
  ASSUME NEW f, NEW blocks, NEW more, NEW inum \in DOMAIN blocks, NEW n \in Nat,
         WellFormed(f, blocks),
         \A i \in DOMAIN blocks : blocks[i] \in Nat,
         n = blocks[inum],
         DOMAIN more = DOMAIN blocks,
         \A i \in DOMAIN blocks : more[i] = IF i = inum THEN n + 1 ELSE blocks[i],
         LastInode(n + 1) # LastInode(n) =>
           /\ LastInode(n + 1) = LastInode(n) + 1
           /\ ChainedInode(f, inum, LastInode(n + 1)) \in f.inums \cap InRange
           /\ f.inode[ChainedInode(f, inum, LastInode(n + 1))].size = 0
           /\ \A i \in DOMAIN blocks : \A m \in 0 .. LastInode(blocks[i]) :
                ChainedInode(f, i, m) # ChainedInode(f, inum, LastInode(n + 1)),
         BlockAt(f, inum, n) \in f.used \cup {NoBlock},
         BlockAt(f, inum, n) # NoBlock =>
           \A i \in DOMAIN blocks : \A k \in 0 .. blocks[i] - 1 :
             BlockAt(f, i, k) # BlockAt(f, inum, n)
  PROVE  WellFormed(f, more)
<1> DEFINE last == LastInode(n + 1)
           OldI(i, m) == m \in 0 .. LastInode(blocks[i])
           OldB(i, k) == k \in 0 .. blocks[i] - 1
           NewI(i, m) == i = inum /\ m = last /\ LastInode(n + 1) # LastInode(n)
<1>1. LastInode(n) \in Nat /\ last \in Nat
  BY LastInodes
<1>2. ASSUME NEW i \in DOMAIN more, NEW m \in 0 .. LastInode(more[i])
      PROVE  OldI(i, m) \/ NewI(i, m)
  <2>1. CASE i # inum
    BY <2>1
  <2>2. CASE i = inum
    <3>1. m \in 0 .. last
      BY <2>2
    <3> QED
      BY <1>1, <2>2, <3>1
  <2> QED
    BY <2>1, <2>2
<1>3. ASSUME NEW i \in DOMAIN more, NEW k \in 0 .. more[i] - 1
      PROVE  OldB(i, k) \/ (i = inum /\ k = n)
  <2>1. CASE i # inum
    BY <2>1
  <2>2. CASE i = inum
    BY <2>2
  <2> QED
    BY <2>1, <2>2
<1>4. \A i \in DOMAIN more : i \in DOMAIN blocks
  OBVIOUS
<1>5. ChainsTaken(f, more)
  BY <1>2, <1>4, Zenon DEF WellFormed, ChainsTaken
<1>6. ChainsApart(f, more)
  <2>1. SUFFICES ASSUME NEW i \in DOMAIN more, NEW j \in DOMAIN more,
                        NEW m \in 0 .. LastInode(more[i]), NEW l \in 0 .. LastInode(more[j]),
                        ChainedInode(f, i, m) = ChainedInode(f, j, l)
                 PROVE  i = j /\ m = l
    BY DEF ChainsApart
  <2>2. CASE OldI(i, m) /\ OldI(j, l)
    <3>1. i \in DOMAIN blocks /\ j \in DOMAIN blocks /\ ChainsApart(f, blocks)
      BY <1>4 DEF WellFormed
    <3> QED
      BY <2>1, <2>2, <3>1 DEF ChainsApart
  <2>3. ~ (OldI(i, m) /\ NewI(j, l)) /\ ~ (NewI(i, m) /\ OldI(j, l))
    BY <1>4, <2>1, Zenon
  <2> QED
    BY <1>2, <2>2, <2>3, Zenon
<1>7. BlocksTaken(f, more)
  BY <1>3, <1>4, Zenon DEF WellFormed, BlocksTaken
<1>8. BlocksApart(f, more)
  <2>1. SUFFICES ASSUME NEW i \in DOMAIN more, NEW j \in DOMAIN more,
                        NEW k \in 0 .. more[i] - 1, NEW l \in 0 .. more[j] - 1,
                        BlockAt(f, i, k) = BlockAt(f, j, l), BlockAt(f, i, k) # NoBlock
                 PROVE  i = j /\ k = l
    BY DEF BlocksApart
  <2>2. CASE OldB(i, k) /\ OldB(j, l)
    <3>1. i \in DOMAIN blocks /\ j \in DOMAIN blocks /\ BlocksApart(f, blocks)
      BY <1>4 DEF WellFormed
    <3> QED
      BY <2>1, <2>2, <3>1 DEF BlocksApart
  <2>3. ~ (OldB(i, k) /\ j = inum /\ l = n) /\ ~ (i = inum /\ k = n /\ OldB(j, l))
    BY <1>4, <2>1, Zenon
  <2> QED
    BY <1>3, <2>2, <2>3, Zenon
<1> QED
  BY <1>5, <1>6, <1>7, <1>8 DEF WellFormed

(***************************************************************************)
(* The operations of block_manager, alloc_inode and put_inode              *)
(***************************************************************************)

LEMMA FieldTypes ==
  ASSUME NEW f \in FileSystems
  PROVE  /\ f.used \subseteq Blocks /\ f.inums \subseteq Inums
         /\ f.inode \in [Inums -> Inodes]
         /\ f.block \in [Blocks \cup {NoBlock} -> Nat \X Nat]
         /\ f.alive \in BOOLEAN
         /\ \A i \in Inums : f.inode[i] \in Inodes
  BY DEF FileSystems

\* A change of one field, or of two.
LEMMA UsedChanges ==
  ASSUME NEW f \in FileSystems, NEW S \in SUBSET Blocks, NEW g, g = [f EXCEPT !.used = S]
  PROVE  /\ g \in FileSystems /\ g.used = S /\ g.inums = f.inums
         /\ g.inode = f.inode /\ g.block = f.block /\ g.alive = f.alive
  BY DEF FileSystems

LEMMA InumsChange ==
  ASSUME NEW f \in FileSystems, NEW S \in SUBSET Inums, NEW g, g = [f EXCEPT !.inums = S]
  PROVE  /\ g \in FileSystems /\ g.used = f.used /\ g.inums = S
         /\ g.inode = f.inode /\ g.block = f.block /\ g.alive = f.alive
  BY DEF FileSystems

LEMMA AliveChanges ==
  ASSUME NEW f \in FileSystems
  PROVE  [f EXCEPT !.alive = FALSE] \in FileSystems
  BY DEF FileSystems

BlockChanged(f, g, id, v) ==
  /\ g \in FileSystems /\ g.used = f.used /\ g.inums = f.inums
  /\ g.inode = f.inode /\ g.alive = f.alive
  /\ g.block[id] = v
  /\ \A b \in Blocks \cup {NoBlock} : b # id => g.block[b] = f.block[b]

LEMMA BlockChanges ==
  ASSUME NEW f \in FileSystems, NEW id \in Blocks \cup {NoBlock}, NEW v \in Nat \X Nat
  PROVE  BlockChanged(f, [f EXCEPT !.block[id] = v], id, v)
  BY DEF FileSystems, BlockChanged

LEMMA PutInode ==
  ASSUME NEW f \in FileSystems, NEW inum \in Inums, NEW ino \in Inodes,
         NEW g, g = put_inode(f, inum, ino)
  PROVE  /\ g \in FileSystems /\ g.used = f.used /\ g.inums = f.inums
         /\ g.block = f.block /\ g.alive = f.alive
         /\ g.inode[inum] = ino
         /\ \A i \in Inums : i # inum => g.inode[i] = f.inode[i]
  BY DEF FileSystems, put_inode

\* A copy of an inode with another block, another next inode or another size.
LEMMA InodeFields ==
  ASSUME NEW ino \in Inodes
  PROVE  /\ ino.type \in {"none", "used"} /\ ino.size \in Nat
         /\ ino.blocks \in [0 .. NDIRECT -> Nat]
         /\ \A k \in 0 .. NDIRECT - 1 : ino.blocks[k] \in Blocks \cup {NoBlock}
         /\ ino.blocks[NDIRECT] \in Inums \cup {NoInode}
  BY DEF Inodes, BlockLists

ChangedAt(ino, new, k, b) ==
  /\ new \in Inodes /\ new.size = ino.size /\ new.blocks[k] = b
  /\ \A l \in 0 .. NDIRECT : l # k => new.blocks[l] = ino.blocks[l]

LEMMA BlockOfInode ==
  ASSUME NEW ino \in Inodes, NEW k \in 0 .. NDIRECT,
         NEW b, b \in (IF k = NDIRECT THEN Inums \cup {NoInode} ELSE Blocks \cup {NoBlock})
  PROVE  ChangedAt(ino, [ino EXCEPT !.blocks[k] = b], k, b)
<1> DEFINE new == [ino EXCEPT !.blocks[k] = b]
<1>1. NDIRECT \in Nat \ {0} /\ Inums \subseteq Nat /\ Blocks \subseteq Nat
  BY ParametersAssumption DEF Inums, Blocks, DATA_START
<1>2. b \in Nat
  BY <1>1 DEF NoBlock, NoInode
<1>3. /\ new.size = ino.size /\ new.type = ino.type
      /\ new.blocks = [ino.blocks EXCEPT ![k] = b]
      /\ new = [type |-> ino.type, size |-> ino.size, blocks |-> new.blocks]
  BY DEF Inodes
<1> HIDE DEF new
<1>4. new.blocks \in [0 .. NDIRECT -> Nat]
  BY <1>2, <1>3, InodeFields
<1>5. new.blocks[k] = b /\ \A l \in 0 .. NDIRECT : l # k => new.blocks[l] = ino.blocks[l]
  BY <1>3, InodeFields
<1>6. \A l \in 0 .. NDIRECT - 1 : new.blocks[l] \in Blocks \cup {NoBlock}
  BY <1>1, <1>5, InodeFields
<1>7. new.blocks[NDIRECT] \in Inums \cup {NoInode}
  BY <1>1, <1>5, InodeFields
<1>8. new \in Inodes
  <2> DEFINE c == new.blocks
  <2>1. ino.type \in {"none", "used"} /\ ino.size \in Nat
    BY InodeFields
  <2>2. c \in BlockLists
    BY <1>4, <1>6, <1>7 DEF BlockLists
  <2>3. new = [type |-> ino.type, size |-> ino.size, blocks |-> c]
    BY <1>3
  <2> HIDE DEF c
  <2> QED
    BY <2>1, <2>2, <2>3 DEF Inodes
<1> QED
  BY <1>3, <1>5, <1>8 DEF ChangedAt, new

LEMMA SizeOfInode ==
  ASSUME NEW ino \in Inodes, NEW size \in Nat, NEW new, new = [ino EXCEPT !.size = size]
  PROVE  new \in Inodes /\ new.size = size /\ new.blocks = ino.blocks
  BY DEF Inodes

\* No block has the number that says there is none.
LEMMA BlockIds == Blocks \subseteq Nat /\ NoBlock \notin Blocks
  BY ParametersAssumption DEF Blocks, DATA_START, NoBlock

\* The bit of a block that passes the test is clear.
LEMMA NotCheckIsFree ==
  ASSUME NEW taken, NEW i \in Nat, NotCheck(taken, i)
  PROVE  i \notin taken
<1> DEFINE rest == i % CHAR_BIT
<1>1. rest \in Nat
  BY CharBitAssumption
<1>2. \A j \in (i - rest) .. i : j \notin taken
  BY DEF NotCheck
<1> HIDE DEF rest
<1> QED  BY <1>1, <1>2

\* What alloc_block takes for free is not marked.
LEMMA FreeIsFree ==
  ASSUME NEW f \in FileSystems
  PROVE  FreeBlocks(f) \subseteq Blocks \ f.used /\ FreeInums(f) \subseteq Inums \ f.inums
<1>1. ASSUME NEW b \in FreeBlocks(f) PROVE b \in Blocks \ f.used
  <2>1. b \in Blocks /\ b \in Nat /\ NotCheck(Taken(f), b)
    BY <1>1, BlockIds DEF FreeBlocks
  <2>2. b \notin Taken(f)
    BY <2>1, NotCheckIsFree
  <2> QED  BY <2>1, <2>2 DEF Taken
<1>2. ASSUME NEW i \in FreeInums(f) PROVE i \in Inums \ f.inums
  <2>1. i \in Inums /\ IBLOCK(i) \in Nat /\ NotCheck(Taken(f), IBLOCK(i))
    BY <1>2, ParametersAssumption DEF FreeInums, Inums, IBLOCK
  <2>2. IBLOCK(i) \notin Taken(f)
    BY <2>1, NotCheckIsFree
  <2> QED  BY <2>1, <2>2 DEF Taken
<1> QED  BY <1>1, <1>2

\* alloc_block marks a block that was free, or returns NoBlock.
GotBlock(f, r) ==
  /\ r.fs \in FileSystems
  /\ f.used \subseteq r.fs.used
  /\ r.fs.inums = f.inums /\ r.fs.inode = f.inode
  /\ r.fs.block = f.block /\ r.fs.alive = f.alive
  /\ r.id \in r.fs.used \cup {NoBlock}
  /\ r.id \in Blocks \cup {NoBlock}
  /\ r.id \notin f.used

LEMMA AllocBlock ==
  ASSUME NEW f \in FileSystems
  PROVE  GotBlock(f, alloc_block(f))
<1> DEFINE free == FreeBlocks(f)
           new == [f EXCEPT !.used = f.used \cup {Min(free)}]
<1>0. free \subseteq Blocks \ f.used
  BY FreeIsFree
<1> HIDE DEF free
<1>1. f.used \subseteq Blocks /\ Blocks \subseteq Nat /\ NoBlock \notin Blocks
  BY FieldTypes, BlockIds
<1>2. CASE free = {}
  <2>1. alloc_block(f) = [id |-> NoBlock, fs |-> f]
    BY <1>2, Zenon DEF alloc_block, free
  <2> QED
    BY <1>1, <2>1 DEF GotBlock
<1>3. CASE free # {}
  <2>1. alloc_block(f) = [id |-> Min(free), fs |-> new]
    BY <1>3, Zenon DEF alloc_block, free
  <2>2. Min(free) \in free
    BY <1>0, <1>1, <1>3, MinIsLeast
  <2> DEFINE m == Min(free)  U == f.used \cup {m}
  <2>3. U \in SUBSET Blocks /\ new = [f EXCEPT !.used = U]
    BY <1>0, <1>1, <2>2
  <2> HIDE DEF m, new, U
  <2>4. /\ new \in FileSystems /\ new.used = U /\ new.inums = f.inums
        /\ new.inode = f.inode /\ new.block = f.block /\ new.alive = f.alive
    BY <2>3, UsedChanges
  <2>5. m \in Blocks /\ m \notin f.used
    BY <1>0, <2>2 DEF m
  <2>6. alloc_block(f).id = m /\ alloc_block(f).fs = new
    BY <2>1 DEF m
  <2> QED
    BY <2>4, <2>5, <2>6 DEF GotBlock, U
<1> QED
  BY <1>2, <1>3

\* alloc_inode marks an inode that was free and makes it an empty one.
GotInode(f, r) ==
  /\ r.fs \in FileSystems
  /\ f.used \subseteq r.fs.used
  /\ r.fs.alive = f.alive
  /\ \A b \in Blocks : r.fs.block[b] = f.block[b]
  /\ r.inum \in Inums \cup {NoInode}
  /\ r.inum = NoInode => r.fs.inums = f.inums /\ r.fs.inode = f.inode
  /\ r.inum # NoInode =>
       /\ r.inum \notin f.inums
       /\ r.fs.inums = f.inums \cup {r.inum} /\ r.fs.block = f.block
       /\ r.fs.inode[r.inum].size = 0
       /\ \A i \in Inums : i # r.inum => r.fs.inode[i] = f.inode[i]

LEMMA AllocInode ==
  ASSUME NEW f \in FileSystems
  PROVE  GotInode(f, alloc_inode(f))
<1> DEFINE free == FreeInums(f)
           m == Min(free)
           S == f.inums \cup {m}
           marked == [f EXCEPT !.inums = S]
<1>0. free \subseteq Inums \ f.inums
  BY FreeIsFree
<1>2. CASE free = {}
  <2> DEFINE data == alloc_block(f)
             g == data.fs
             x == << 0, 0 >>
             over == [g EXCEPT !.block[NoBlock] = x]
  <2>0. GotBlock(f, data)
    BY AllocBlock
  <2>1. alloc_inode(f) = [inum |-> NoInode, fs |-> over]
    BY <1>2, Zenon DEF alloc_inode
  <2>2. BlockChanged(g, over, NoBlock, x)
    <3>1. g \in FileSystems /\ x \in Nat \X Nat /\ NoBlock \in Blocks \cup {NoBlock}
      BY <2>0 DEF GotBlock
    <3> HIDE DEF g, x
    <3> QED
      BY <3>1, BlockChanges, Zenon
  <2>3. alloc_inode(f).inum = NoInode /\ alloc_inode(f).fs = over
    BY <2>1
  <2>4. /\ f.used \subseteq g.used /\ g.inums = f.inums /\ g.inode = f.inode
        /\ g.block = f.block /\ g.alive = f.alive
    BY <2>0 DEF GotBlock
  <2>5. NoBlock \notin Blocks
    BY BlockIds
  <2> HIDE DEF g, over, x, data
  <2> QED
    BY <2>2, <2>3, <2>4, <2>5 DEF GotInode, BlockChanged
<1>3. CASE free # {}
  <2> DEFINE data == alloc_block(marked)
             list == [k \in 0 .. NDIRECT |-> IF k = 0 THEN data.id ELSE NoBlock]
             ino == [type |-> "used", size |-> 0, blocks |-> list]
             new == put_inode(data.fs, m, ino)
  <2>1. alloc_inode(f) = [inum |-> m, fs |-> new]
    BY <1>3, Zenon DEF alloc_inode
  <2>2. m \in Inums /\ m \notin f.inums
    <3>1. free \in SUBSET Nat
      BY <1>0 DEF Inums
    <3> HIDE DEF free
    <3>2. Min(free) \in free
      BY <1>3, <3>1, MinIsLeast
    <3> QED
      BY <1>0, <3>2
  <2>4. S \in SUBSET Inums
    BY <2>2, FieldTypes
  <2>5. marked = [f EXCEPT !.inums = S]
    OBVIOUS
  <2> HIDE DEF m, S, marked
  <2>6. /\ marked \in FileSystems /\ marked.used = f.used /\ marked.inums = S
        /\ marked.inode = f.inode /\ marked.block = f.block /\ marked.alive = f.alive
    BY <2>4, <2>5, InumsChange
  <2>7. GotBlock(marked, data)
    BY <2>6, AllocBlock
  <2>3. ino \in Inodes /\ ino.size = 0
    <3> DEFINE b == data.id
    <3>1. b \in Blocks \cup {NoBlock} /\ Blocks \subseteq Nat /\ NDIRECT \in Nat \ {0}
      BY <2>7, BlockIds, ParametersAssumption DEF GotBlock
    <3>2. list \in BlockLists
      <4>1. list = [k \in 0 .. NDIRECT |-> IF k = 0 THEN b ELSE NoBlock]
        OBVIOUS
      <4> HIDE DEF b, list
      <4>2. b \in Nat /\ NoBlock \in Nat
        BY <3>1 DEF NoBlock
      <4>3. list \in [0 .. NDIRECT -> Nat]
        BY <4>1, <4>2
      <4>4. \A k \in 0 .. NDIRECT - 1 : list[k] \in Blocks \cup {NoBlock}
        BY <3>1, <4>1
      <4>5. list[NDIRECT] \in Inums \cup {NoInode}
        BY <3>1, <4>1 DEF NoBlock, NoInode
      <4> QED
        BY <4>3, <4>4, <4>5 DEF BlockLists
    <3> HIDE DEF list
    <3> QED
      BY <3>2 DEF Inodes
  <2> DEFINE g == data.fs
  <2>8. /\ g \in FileSystems /\ f.used \subseteq g.used /\ g.inums = S
        /\ g.inode = f.inode /\ g.block = f.block /\ g.alive = f.alive
    BY <2>6, <2>7 DEF GotBlock
  <2>9. new = put_inode(g, m, ino)
    OBVIOUS
  <2> HIDE DEF new, g, ino
  <2>10. /\ new \in FileSystems /\ new.used = g.used /\ new.inums = g.inums
         /\ new.block = g.block /\ new.alive = g.alive
         /\ new.inode[m] = ino
         /\ \A i \in Inums : i # m => new.inode[i] = g.inode[i]
    BY <2>2, <2>3, <2>8, <2>9, PutInode
  <2>11. alloc_inode(f).inum = m /\ alloc_inode(f).fs = new
    BY <2>1
  <2>12. m # NoInode /\ S = f.inums \cup {m}
    BY <2>2 DEF Inums, NoInode, S
  <2> HIDE DEF data, free
  <2> QED
    BY <2>2, <2>3, <2>8, <2>10, <2>11, <2>12 DEF GotInode
<1> QED
  BY <1>2, <1>3

(***************************************************************************)
(* The loop of write_file                                                  *)
(***************************************************************************)

\* The local variables when the loop begins.
WriteStart(f, inum) ==
  [fs |-> f, ino |-> f.inode[inum], last_inum |-> inum, real_block_num |-> 0, alive |-> TRUE]

\* One iteration, which does nothing once the server is dead.
WriteStep(w, tag, block_num, file_size) ==
  IF w.alive THEN WriteBlock(w, tag, block_num, file_size) ELSE w

\* v has the local variables after each of the first n iterations.
IsLoop(v, f, inum, tag, n) ==
  v = [m \in 0 .. n |->
         IF m = 0 THEN WriteStart(f, inum)
         ELSE WriteStep(v[m - 1], tag, m - 1, f.inode[inum].size)]

LEMMA LoopExists ==
  ASSUME NEW f, NEW inum, NEW tag, NEW n \in Nat
  PROVE  \E v : IsLoop(v, f, inum, tag, n)
<1> DEFINE size == f.inode[inum].size
           S == {m \in 0 .. n : \E v : IsLoop(v, f, inum, tag, m)}
<1>1. 0 \in S
  <2>1. IsLoop([m \in 0 .. 0 |-> WriteStart(f, inum)], f, inum, tag, 0)
    BY DEF IsLoop
  <2> QED
    BY <2>1
<1>2. ASSUME NEW m \in 1 .. n, m - 1 \in S
      PROVE  m \in S
  <2>1. PICK v : IsLoop(v, f, inum, tag, m - 1)
    BY <1>2, Zenon
  <2> DEFINE next == WriteStep(v[m - 1], tag, m - 1, size)
             e == [k \in 0 .. m |-> IF k = m THEN next ELSE v[k]]
  <2>2. m - 1 \in Nat /\ m \in 0 .. n
    OBVIOUS
  <2> HIDE DEF size
  <2>3. v = [k \in 0 .. m - 1 |->
               IF k = 0 THEN WriteStart(f, inum) ELSE WriteStep(v[k - 1], tag, k - 1, size)]
    BY <2>1 DEF IsLoop, size
  <2>4. /\ v[0] = WriteStart(f, inum)
        /\ \A k \in 1 .. m - 1 : v[k] = WriteStep(v[k - 1], tag, k - 1, size)
    BY <2>2, <2>3
  <2> HIDE DEF next
  <2>5. \A k \in 0 .. m : e[k] =
          IF k = 0 THEN WriteStart(f, inum) ELSE WriteStep(e[k - 1], tag, k - 1, size)
    <3>1. e[0] = WriteStart(f, inum)
      BY <2>2, <2>4
    <3>2. ASSUME NEW k \in 1 .. m - 1
          PROVE  e[k] = WriteStep(e[k - 1], tag, k - 1, size)
      <4>1. e[k] = v[k] /\ e[k - 1] = v[k - 1]
        BY SMTT(30)
      <4> QED
        BY <2>4, <4>1
    <3>3. e[m] = WriteStep(e[m - 1], tag, m - 1, size)
      <4>1. e[m] = next /\ e[m - 1] = v[m - 1]
        OBVIOUS
      <4> QED
        BY <4>1 DEF next
    <3> HIDE DEF e
    <3> QED
      BY <3>1, <3>2, <3>3
  <2>6. e = [k \in 0 .. m |->
          IF k = 0 THEN WriteStart(f, inum) ELSE WriteStep(e[k - 1], tag, k - 1, size)]
    BY <2>5
  <2>7. IsLoop(e, f, inum, tag, m)
    BY <2>6 DEF IsLoop, size
  <2> QED
    BY <2>2, <2>7
<1> HIDE DEF S
<1>3. \A m \in 0 .. n : m \in S
  BY <1>1, <1>2, Induction
<1> QED
  BY <1>3 DEF S

\* WriteBlocks is the last of the states that the loop goes through.
LEMMA LoopStates ==
  ASSUME NEW f, NEW inum, NEW tag, NEW n \in Nat
  PROVE  \E v : /\ v[0] = WriteStart(f, inum)
                /\ \A m \in 1 .. n :
                     v[m] = WriteStep(v[m - 1], tag, m - 1, f.inode[inum].size)
                /\ WriteBlocks(f, inum, tag, n) = v[n]
<1> DEFINE v == CHOOSE v : IsLoop(v, f, inum, tag, n)
           size == f.inode[inum].size
<1>1. IsLoop(v, f, inum, tag, n)
  BY LoopExists, Zenon
<1>2. WriteBlocks(f, inum, tag, n) = v[n]
  BY Zenon DEF WriteBlocks, IsLoop, WriteStart, WriteStep
<1>3. v = [m \in 0 .. n |->
         IF m = 0 THEN WriteStart(f, inum) ELSE WriteStep(v[m - 1], tag, m - 1, size)]
  BY <1>1, Zenon DEF IsLoop
<1> HIDE DEF v
<1>4. v[0] = WriteStart(f, inum)
  BY <1>3
<1>5. \A m \in 1 .. n : v[m] = WriteStep(v[m - 1], tag, m - 1, size)
  <2> HIDE DEF size
  <2> QED
    BY <1>3
<1> QED
  BY <1>2, <1>4, <1>5

\* The local variables of write_file.
Locals ==
  [fs : FileSystems, ino : Inodes, last_inum : Inums,
   real_block_num : 0 .. NDIRECT, alive : BOOLEAN]

\* The disk as it is when the copy of the last inode is written back.
Written(w) == put_inode(w.fs, w.last_inum, w.ino)

LEMMA LocalFields ==
  ASSUME NEW w \in Locals
  PROVE  /\ w.fs \in FileSystems /\ w.ino \in Inodes /\ w.last_inum \in Inums
         /\ w.real_block_num \in 0 .. NDIRECT
         /\ Written(w) \in FileSystems
         /\ Written(w).used = w.fs.used /\ Written(w).inums = w.fs.inums
         /\ Written(w).block = w.fs.block
         /\ Written(w).inode[w.last_inum] = w.ino
         /\ \A i \in Inums : i # w.last_inum => Written(w).inode[i] = w.fs.inode[i]
<1>1. /\ w.fs \in FileSystems /\ w.ino \in Inodes /\ w.last_inum \in Inums
      /\ w.real_block_num \in 0 .. NDIRECT
  BY DEF Locals
<1> QED
  BY <1>1, PutInode DEF Written

\* PlaceBlock with a block that alloc_block returns.
PlaceAt(w, f, b) == [w EXCEPT !.fs = f, !.ino.blocks[w.real_block_num] = b]

PlacedBlock(w, v, f, b) ==
  /\ v \in Locals /\ v.fs = f /\ v.last_inum = w.last_inum
  /\ v.real_block_num = w.real_block_num
  /\ v.ino \in Inodes /\ v.ino.size = w.ino.size
  /\ v.ino.blocks[w.real_block_num] = b
  /\ \A k \in 0 .. NDIRECT : k # w.real_block_num => v.ino.blocks[k] = w.ino.blocks[k]

LEMMA PlacedFields ==
  ASSUME NEW w \in Locals, NEW f \in FileSystems, NEW b \in Blocks \cup {NoBlock},
         w.real_block_num # NDIRECT
  PROVE  PlacedBlock(w, PlaceAt(w, f, b), f, b)
<1> DEFINE v == PlaceAt(w, f, b)
           r == w.real_block_num
           new == [w.ino EXCEPT !.blocks[r] = b]
<1>1. /\ v.fs = f /\ v.last_inum = w.last_inum /\ v.real_block_num = w.real_block_num
      /\ v.ino = new
      /\ v = [w EXCEPT !.fs = f, !.ino = new]
  BY DEF Locals, PlaceAt
<1>2. /\ new \in Inodes /\ new.size = w.ino.size /\ new.blocks[r] = b
      /\ \A k \in 0 .. NDIRECT : k # r => new.blocks[k] = w.ino.blocks[k]
  <2>1. r \in 0 .. NDIRECT /\ w.ino \in Inodes
    BY LocalFields
  <2>2. r # NDIRECT
    OBVIOUS
  <2>3. b \in (IF r = NDIRECT THEN Inums \cup {NoInode} ELSE Blocks \cup {NoBlock})
    BY <2>2
  <2>4. ChangedAt(w.ino, new, r, b)
    BY <2>1, <2>3, BlockOfInode, Zenon
  <2> QED
    BY <2>4 DEF ChangedAt
<1> HIDE DEF new, v
<1>3. v \in Locals
  BY <1>1, <1>2 DEF Locals
<1> QED
  BY <1>1, <1>2, <1>3 DEF PlacedBlock, v

\* The end of an iteration: the block is written.
WriteAt(w, id, x) == [w EXCEPT !.fs.block[id] = x, !.real_block_num = @ + 1]

WrittenAt(w, v, id, x) ==
  /\ v \in Locals
  /\ BlockChanged(w.fs, v.fs, id, x)
  /\ v.ino = w.ino /\ v.last_inum = w.last_inum
  /\ v.real_block_num = w.real_block_num + 1

LEMMA WrittenOutFields ==
  ASSUME NEW w \in Locals, NEW id \in Blocks \cup {NoBlock}, NEW x \in Nat \X Nat,
         w.real_block_num # NDIRECT
  PROVE  WrittenAt(w, WriteAt(w, id, x), id, x)
<1> DEFINE v == WriteAt(w, id, x)
<1> DEFINE f == [w.fs EXCEPT !.block[id] = x]
<1>1. /\ v.fs = f /\ v.last_inum = w.last_inum /\ v.real_block_num = w.real_block_num + 1
      /\ v.ino = w.ino
      /\ v = [w EXCEPT !.fs = f, !.real_block_num = w.real_block_num + 1]
  BY DEF Locals, WriteAt
<1>2. BlockChanged(w.fs, f, id, x) /\ f \in FileSystems
  <2>1. w.fs \in FileSystems
    BY LocalFields
  <2>2. BlockChanged(w.fs, f, id, x)
    BY <2>1, BlockChanges, Zenon
  <2> QED
    BY <2>2 DEF BlockChanged
<1>3. w.real_block_num + 1 \in 0 .. NDIRECT
  BY LocalFields, ParametersAssumption
<1> HIDE DEF f, v
<1>4. v \in Locals
  BY <1>1, <1>2, <1>3 DEF Locals
<1> QED
  BY <1>1, <1>2, <1>4 DEF WrittenAt, v

\* The blocks of each file while inum is written and n blocks are done.
Grown(c, inum, n) ==
  [i \in DOMAIN c |-> IF i = inum /\ n > Len(c[i].data) THEN n ELSE Len(c[i].data)]

\* A disk with the files c, of which inum has n blocks of write number tag.
GoodDisk(h, c, inum, tag, n) ==
  /\ h \in FileSystems
  /\ WellFormed(h, Grown(c, inum, n))
  /\ \A i \in DOMAIN c : i # inum => h.inode[i].size = c[i].size /\ Holds(h, i, c[i].data)
  /\ \A k \in 0 .. n - 1 :
       BlockAt(h, inum, k) # NoBlock => h.block[BlockAt(h, inum, k)] = << tag, k >>

\* Between two iterations.
LoopInv(w, c, inum, tag, n) ==
  /\ w \in Locals
  /\ GoodDisk(Written(w), c, inum, tag, n)
  /\ w.last_inum = ChainedInode(Written(w), inum, LastInode(n))
  /\ w.real_block_num = n - LastInode(n) * NDIRECT

\* An inode that was just made is marked, has size 0 and is in no chain.
FreshInode(w, c, inum, n) ==
  /\ n \div NDIRECT = LastInode(n) + 1
  /\ w.last_inum \in w.fs.inums /\ w.last_inum \in InRange
  /\ w.ino.size = 0
  /\ \A i \in DOMAIN c : \A m \in 0 .. LastInode(Grown(c, inum, n)[i]) :
       ChainedInode(Written(w), i, m) # w.last_inum

\* Within an iteration, when the inode for block n is at hand.
Ready(w, c, inum, tag, n) ==
  /\ w \in Locals
  /\ GoodDisk(Written(w), c, inum, tag, n)
  /\ w.last_inum = ChainedInode(Written(w), inum, n \div NDIRECT)
  /\ w.real_block_num = n % NDIRECT
  /\ n >= Len(c[inum].data) /\ n \div NDIRECT # LastInode(n) => FreshInode(w, c, inum, n)

GoodFiles(c) == DOMAIN c \subseteq Inums /\ \A i \in DOMAIN c : c[i] \in Contents

GrownBy(G, c, inum, n) ==
  /\ DOMAIN G = DOMAIN c
  /\ \A i \in DOMAIN c :
       Len(c[i].data) \in Nat /\ G[i] \in Nat /\ G[i] >= Len(c[i].data)
  /\ \A i \in DOMAIN c : i # inum => G[i] = Len(c[i].data)
  /\ inum \in DOMAIN c /\ G[inum] >= n
  /\ n >= Len(c[inum].data) => G[inum] = n
  /\ n <= Len(c[inum].data) => G[inum] = Len(c[inum].data)

LEMMA GrownFiles ==
  ASSUME NEW c, GoodFiles(c), NEW inum \in DOMAIN c, NEW n \in Nat
  PROVE  GrownBy(Grown(c, inum, n), c, inum, n)
<1>1. \A i \in DOMAIN c : Len(c[i].data) \in Nat
  BY DEF GoodFiles, Contents
<1> QED
  BY <1>1 DEF Grown, GrownBy

\* The iteration stays in an inode that is not full.
LEMMA ReadyHere ==
  ASSUME NEW w, NEW c, NEW inum, NEW tag, NEW n \in Nat,
         LoopInv(w, c, inum, tag, n), w.real_block_num # NDIRECT
  PROVE  Ready(w, c, inum, tag, n)
<1>1. PlacedAt(n, LastInode(n), w.real_block_num)
  BY NextPlace DEF LoopInv
<1>2. n \div NDIRECT = LastInode(n) /\ n % NDIRECT = w.real_block_num
  BY <1>1 DEF PlacedAt
<1> QED
  BY <1>2, Zenon DEF LoopInv, Ready

\* The inodes of the files are inodes of the disk.
LEMMA ChainOnDisk ==
  ASSUME NEW h \in FileSystems, NEW blocks, WellFormed(h, blocks),
         NEW i \in DOMAIN blocks, NEW m \in 0 .. LastInode(blocks[i])
  PROVE  ChainedInode(h, i, m) \in h.inums /\ ChainedInode(h, i, m) \in Inums
<1>1. ChainedInode(h, i, m) \in h.inums
  BY DEF WellFormed, ChainsTaken
<1> QED
  BY <1>1, FieldTypes

\* What a change of the disk has to keep for the files to stay as they are.
KeepsFiles(h, g, c, inum, n) ==
  /\ g \in FileSystems /\ h.inums \subseteq g.inums /\ h.used \subseteq g.used
  /\ \A y \in h.inums : g.inode[y].size = h.inode[y].size
  /\ \A i \in DOMAIN c : SamePlaces(h, g, i, Grown(c, inum, n)[i])
  /\ \A i \in DOMAIN c : \A k \in 0 .. Grown(c, inum, n)[i] - 1 :
       BlockAt(h, i, k) # NoBlock /\ (i # inum \/ k < n) =>
         g.block[BlockAt(h, i, k)] = h.block[BlockAt(h, i, k)]

LEMMA FilesAreKept ==
  ASSUME NEW h, NEW g, NEW c, NEW inum, NEW tag, NEW n \in Nat,
         GoodFiles(c), inum \in DOMAIN c,
         GoodDisk(h, c, inum, tag, n), KeepsFiles(h, g, c, inum, n)
  PROVE  GoodDisk(g, c, inum, tag, n)
<1> DEFINE G == Grown(c, inum, n)
<1>1. GrownBy(G, c, inum, n)
  BY GrownFiles, Zenon
<1>2. /\ g \in FileSystems /\ h.inums \subseteq g.inums /\ h.used \subseteq g.used
      /\ \A y \in h.inums : g.inode[y].size = h.inode[y].size
      /\ \A i \in DOMAIN c : SamePlaces(h, g, i, G[i])
  BY DEF KeepsFiles
<1>3. h \in FileSystems /\ WellFormed(h, G)
  BY DEF GoodDisk
<1> HIDE DEF G
<1>4. /\ DOMAIN G = DOMAIN c
      /\ \A i \in DOMAIN c : Len(c[i].data) \in Nat /\ G[i] \in Nat /\ G[i] >= Len(c[i].data)
      /\ \A i \in DOMAIN c : i # inum => G[i] = Len(c[i].data)
      /\ G[inum] \in Nat /\ G[inum] >= n
  BY <1>1 DEF GrownBy
<1>5. ASSUME NEW i \in DOMAIN c, NEW m \in 0 .. LastInode(G[i])
      PROVE  /\ ChainedInode(h, i, m) \in h.inums
             /\ m > 0 => h.inode[ChainedInode(h, i, m)].size = 0
  BY <1>4, <1>3 DEF WellFormed, ChainsTaken
<1>6. \A i \in DOMAIN c : \A k \in 0 .. G[i] - 1 : BlockAt(h, i, k) \in h.used \cup {NoBlock}
  BY <1>4, <1>3, Zenon DEF WellFormed, BlocksTaken
<1>7. WellFormed(g, G)
  <2>1. ASSUME NEW i \in DOMAIN c, NEW m \in 0 .. LastInode(G[i])
        PROVE  /\ ChainedInode(h, i, m) \in g.inums
               /\ m > 0 => g.inode[ChainedInode(h, i, m)].size = 0
    BY <1>2, <1>5
  <2>2. \A i \in DOMAIN c : \A k \in 0 .. G[i] - 1 : BlockAt(h, i, k) \in g.used \cup {NoBlock}
    BY <1>2, <1>6
  <2>3. \A i \in DOMAIN c : G[i] \in Nat /\ G[i] <= G[i]
    BY <1>4
  <2> QED
    BY <1>4, <1>2, <1>3, <2>1, <2>2, <2>3, StaysWellFormed
<1>8. \A i \in DOMAIN c : \A k \in 0 .. G[i] - 1 :
        /\ BlockAt(g, i, k) = BlockAt(h, i, k)
        /\ BlockAt(h, i, k) # NoBlock /\ (i # inum \/ k < n) =>
             g.block[BlockAt(h, i, k)] = h.block[BlockAt(h, i, k)]
  BY <1>2 DEF KeepsFiles, SamePlaces, G
<1>9. ASSUME NEW i \in DOMAIN c, i # inum
      PROVE  g.inode[i].size = c[i].size /\ Holds(g, i, c[i].data)
  <2>1. h.inode[i].size = c[i].size /\ Holds(h, i, c[i].data)
    BY <1>9 DEF GoodDisk
  <2>2. i \in h.inums
    <3>1. 0 \in 0 .. LastInode(G[i])
      BY <1>4, LastInodes
    <3>2. ChainedInode(h, i, 0) = i
      BY ChainStep DEF FollowsPointers
    <3> QED
      BY <1>5, <3>1, <3>2
  <2>3. g.inode[i].size = c[i].size
    BY <1>2, <2>1, <2>2
  <2>4. Holds(g, i, c[i].data)
    <3>1. SUFFICES ASSUME NEW k \in 0 .. Len(c[i].data) - 1, BlockAt(g, i, k) # NoBlock
                   PROVE  g.block[BlockAt(g, i, k)] = c[i].data[k + 1]
      BY DEF Holds
    <3>2. k \in 0 .. G[i] - 1
      BY <1>4, <1>9
    <3>3. BlockAt(g, i, k) = BlockAt(h, i, k)
      BY <1>8, <3>2
    <3>4. g.block[BlockAt(h, i, k)] = h.block[BlockAt(h, i, k)]
      BY <1>8, <1>9, <3>1, <3>2, <3>3, Zenon
    <3>5. h.block[BlockAt(h, i, k)] = c[i].data[k + 1]
      BY <2>1, <3>1, <3>3, Zenon DEF Holds
    <3> QED
      BY <3>3, <3>4, <3>5
  <2> QED
    BY <2>3, <2>4
<1>10. ASSUME NEW k \in 0 .. n - 1, BlockAt(g, inum, k) # NoBlock
      PROVE  g.block[BlockAt(g, inum, k)] = << tag, k >>
  <2>1. k \in 0 .. G[inum] - 1 /\ k < n
    BY <1>4
  <2>2. BlockAt(g, inum, k) = BlockAt(h, inum, k)
    BY <1>8, <2>1
  <2>3. g.block[BlockAt(h, inum, k)] = h.block[BlockAt(h, inum, k)]
    BY <1>8, <1>10, <2>1, <2>2, Zenon
  <2>4. h.block[BlockAt(h, inum, k)] = << tag, k >>
    BY <1>10, <2>2, Zenon DEF GoodDisk
  <2> QED
    BY <2>2, <2>3, <2>4
<1> QED
  BY <1>2, <1>7, <1>9, <1>10 DEF GoodDisk, G

\* One block more is written.
LEMMA OneMoreBlock ==
  ASSUME NEW g, NEW c, NEW inum, NEW tag, NEW n \in Nat,
         GoodDisk(g, c, inum, tag, n),
         WellFormed(g, Grown(c, inum, n + 1)),
         BlockAt(g, inum, n) # NoBlock => g.block[BlockAt(g, inum, n)] = << tag, n >>
  PROVE  GoodDisk(g, c, inum, tag, n + 1)
<1>1. ASSUME NEW k \in 0 .. (n + 1) - 1, BlockAt(g, inum, k) # NoBlock
      PROVE  g.block[BlockAt(g, inum, k)] = << tag, k >>
  <2>1. CASE k = n
    BY <1>1, <2>1
  <2>2. CASE k # n
    <3>1. k \in 0 .. n - 1
      BY <2>2
    <3> QED
      BY <1>1, <3>1, Zenon DEF GoodDisk
  <2> QED
    BY <2>1, <2>2
<1> QED
  BY <1>1, Zenon DEF GoodDisk

\* An inode that is written back as it is.
LEMMA PutSame ==
  ASSUME NEW f \in FileSystems, NEW i \in Inums
  PROVE  put_inode(f, i, f.inode[i]) = f
  BY DEF put_inode, FileSystems

LEMMA SameBlock ==
  ASSUME NEW ino \in Inodes
  PROVE  [ino EXCEPT !.blocks[NDIRECT] = ino.blocks[NDIRECT]] = ino
<1>1. ino.blocks \in [0 .. NDIRECT -> Nat]
  BY InodeFields
<1>2. [ino.blocks EXCEPT ![NDIRECT] = ino.blocks[NDIRECT]] = ino.blocks
  BY <1>1
<1> QED
  BY <1>2 DEF Inodes

\* The iteration goes on in the next inode of the chain.
LEMMA ReadyInNext ==
  ASSUME NEW w, NEW c, NEW inum, NEW tag, NEW n \in Nat, NEW size \in Nat,
         GoodFiles(c), inum \in DOMAIN c,
         LoopInv(w, c, inum, tag, n), w.real_block_num = NDIRECT,
         BlocksOf(size) = Len(c[inum].data), n < BlocksOf(size),
         NEW v, v = NextInode(w, n, size), v.alive
  PROVE  Ready(v, c, inum, tag, n)
<1> DEFINE h == Written(w)
           d == LastInode(n)
           G == Grown(c, inum, n)
           z == w.ino.blocks[NDIRECT]
<1>1. w \in Locals /\ h \in FileSystems /\ WellFormed(h, G) /\ d \in Nat
  BY LastInodes DEF LoopInv, GoodDisk
<1>2. n \div NDIRECT = d + 1 /\ n % NDIRECT = 0
  <2>1. PlacedAt(n, LastInode(n), w.real_block_num)
    BY NextPlace DEF LoopInv
  <2> QED
    BY <2>1 DEF PlacedAt
<1>3. GrownBy(G, c, inum, n)
  BY GrownFiles, Zenon
<1> HIDE DEF G
<1>4. inum \in DOMAIN G /\ d \in 0 .. LastInode(G[inum]) /\ d + 1 \in 0 .. LastInode(G[inum])
  <2>1. inum \in DOMAIN G /\ G[inum] = Len(c[inum].data) /\ G[inum] \in Nat
    BY <1>3 DEF GrownBy
  <2>2. n \in 0 .. G[inum] - 1
    BY <2>1
  <2>3. n \div NDIRECT \in 0 .. LastInode(G[inum]) /\ LastInode(G[inum]) \in Nat
    BY <2>1, <2>2, LastInodes
  <2> HIDE DEF d
  <2> QED
    BY <1>1, <1>2, <2>1, <2>3
<1>5. w.last_inum = ChainedInode(h, inum, d)
  BY DEF LoopInv
<1>6. ChainedInode(h, inum, d + 1) = z
  <2>1. FollowsPointers(h, inum)
    BY ChainStep, Zenon
  <2>2. ChainedInode(h, inum, d + 1) = h.inode[w.last_inum].blocks[NDIRECT]
    BY <1>1, <1>5, <2>1, Zenon DEF FollowsPointers
  <2>3. h.inode[w.last_inum] = w.ino
    BY <1>1, LocalFields
  <2> QED
    BY <2>2, <2>3
<1>7. z \in Inums /\ z # w.last_inum
  <2>1. ChainedInode(h, inum, d + 1) \in Inums
    BY <1>1, <1>4, ChainOnDisk
  <2>2. ChainedInode(h, inum, d + 1) # ChainedInode(h, inum, d)
    <3>1. d + 1 # d
      BY <1>1
    <3> QED
      BY <1>1, <1>4, <3>1, Zenon DEF WellFormed, ChainsApart
  <2> QED
    BY <1>5, <1>6, <2>1, <2>2
<1> DEFINE old == [w.ino EXCEPT !.blocks[NDIRECT] = z]
           f == put_inode(w.fs, w.last_inum, old)
<1>8. v = [fs |-> f, ino |-> w.fs.inode[z], last_inum |-> z,
           real_block_num |-> 0, alive |-> TRUE]
  <2>1. ~ (size <= n * BLOCK_SIZE)
    BY BlocksOfSize
  <2>2. v = IF z \in InRange
            THEN [fs |-> f, ino |-> w.fs.inode[z], last_inum |-> z,
                  real_block_num |-> 0, alive |-> TRUE]
            ELSE [w EXCEPT !.alive = FALSE]
    BY <2>1 DEF NextInode
  <2>3. z \in InRange
    <3>1. SUFFICES ASSUME z \notin InRange PROVE ~ v.alive
      OBVIOUS
    <3>2. v = [w EXCEPT !.alive = FALSE]
      BY <2>2, <3>1
    <3> QED
      BY <1>1, <3>2 DEF Locals
  <2> QED
    BY <2>2, <2>3
<1>9. f = h /\ w.fs.inode[z] = h.inode[z]
  <2>1. old = w.ino
    BY <1>1, LocalFields, SameBlock
  <2> QED
    BY <1>1, <1>7, <2>1, LocalFields DEF Written
<1>10. v \in Locals
  <2>1. h.inode[z] \in Inodes
    BY <1>1, <1>7, FieldTypes
  <2> HIDE DEF h, z
  <2> QED
    BY <1>1, <1>7, <1>8, <1>9, <2>1, ParametersAssumption DEF Locals
<1>11. Written(v) = h
  <2> HIDE DEF h, z
  <2> QED
    BY <1>1, <1>7, <1>8, <1>9, PutSame DEF Written
<1>12. n < Len(c[inum].data) /\ Len(c[inum].data) \in Nat
  BY <1>3 DEF GrownBy
<1>13. v.last_inum = z /\ v.real_block_num = 0
  BY <1>8
<1>14. GoodDisk(Written(v), c, inum, tag, n)
  BY <1>11 DEF LoopInv
<1>15. v.last_inum = ChainedInode(Written(v), inum, n \div NDIRECT)
  BY <1>2, <1>6, <1>11, <1>13
<1> QED
  BY <1>2, <1>10, <1>12, <1>13, <1>14, <1>15 DEF Ready

\* Or in an inode that alloc_inode makes.
LEMMA ReadyInNew ==
  ASSUME NEW w, NEW c, NEW inum, NEW tag, NEW n \in Nat, NEW size \in Nat,
         GoodFiles(c), inum \in DOMAIN c,
         LoopInv(w, c, inum, tag, n), w.real_block_num = NDIRECT,
         BlocksOf(size) = Len(c[inum].data), BlocksOf(size) <= n,
         NEW v, v = NextInode(w, n, size), v.alive
  PROVE  Ready(v, c, inum, tag, n)
<1> DEFINE h == Written(w)
           d == LastInode(n)
           G == Grown(c, inum, n)
           made == alloc_inode(w.fs)
           x == made.inum
           old == [w.ino EXCEPT !.blocks[NDIRECT] = x]
           f == put_inode(made.fs, w.last_inum, old)
           ino == made.fs.inode[x]
           g == Written(v)
<1>1. w \in Locals /\ h \in FileSystems /\ WellFormed(h, G) /\ d \in Nat
  BY LastInodes DEF LoopInv, GoodDisk
<1>2. n \div NDIRECT = d + 1 /\ n % NDIRECT = 0
  <2>1. PlacedAt(n, LastInode(n), w.real_block_num)
    BY NextPlace DEF LoopInv
  <2> QED
    BY <2>1 DEF PlacedAt
<1>3. GrownBy(G, c, inum, n)
  BY GrownFiles, Zenon
<1>4. /\ DOMAIN G = DOMAIN c /\ inum \in DOMAIN c /\ G[inum] = n
      /\ \A i \in DOMAIN c : G[i] \in Nat /\ LastInode(G[i]) \in Nat
  <2> HIDE DEF G
  <2> QED
    BY <1>3, LastInodes DEF GrownBy
<1>5. w.last_inum = ChainedInode(h, inum, d) /\ d \in 0 .. LastInode(G[inum])
  BY <1>1, <1>4 DEF LoopInv
<1>6. /\ w.last_inum \in h.inums /\ w.last_inum \in Inums
      /\ h.inode[w.last_inum] = w.ino /\ w.ino \in Inodes
      /\ h.inums = w.fs.inums /\ h.used = w.fs.used /\ h.block = w.fs.block
      /\ w.fs \in FileSystems
      /\ \A i \in Inums : i # w.last_inum => h.inode[i] = w.fs.inode[i]
  <2>1. ChainedInode(h, inum, d) \in h.inums
    <3> HIDE DEF h, G, d
    <3> QED
      BY <1>1, <1>4, <1>5, ChainOnDisk
  <2> QED
    BY <1>1, <1>5, <2>1, LocalFields
<1>7. GotInode(w.fs, made)
  BY <1>6, AllocInode
<1>8. x \in InRange /\ v = [fs |-> f, ino |-> ino, last_inum |-> x,
                            real_block_num |-> 0, alive |-> TRUE]
  <2>1. size <= n * BLOCK_SIZE
    BY BlocksOfSize
  <2>2. v = IF x \in InRange
            THEN [fs |-> f, ino |-> ino, last_inum |-> x,
                  real_block_num |-> 0, alive |-> TRUE]
            ELSE [w EXCEPT !.alive = FALSE]
    BY <2>1 DEF NextInode
  <2>3. x \in InRange
    <3>1. SUFFICES ASSUME x \notin InRange PROVE ~ v.alive
      OBVIOUS
    <3>2. v = [w EXCEPT !.alive = FALSE]
      BY <2>2, <3>1
    <3> QED
      BY <1>1, <3>2 DEF Locals
  <2> QED
    BY <2>2, <2>3
<1>9. /\ made.fs \in FileSystems /\ w.fs.used \subseteq made.fs.used
      /\ made.fs.block = w.fs.block
      /\ x \in Inums /\ x \notin w.fs.inums /\ x # w.last_inum
      /\ made.fs.inums = w.fs.inums \cup {x}
      /\ ino \in Inodes /\ ino.size = 0
      /\ \A i \in Inums : i # x => made.fs.inode[i] = w.fs.inode[i]
  <2>1. x # NoInode /\ x \in Inums
    BY <1>8, ParametersAssumption DEF InRange, NoInode, Inums
  <2> HIDE DEF made
  <2> QED
    BY <1>6, <1>7, <2>1, FieldTypes DEF GotInode
<1>10. /\ old \in Inodes /\ old.size = w.ino.size /\ old.blocks[NDIRECT] = x
       /\ \A k \in 0 .. NDIRECT : k # NDIRECT => old.blocks[k] = w.ino.blocks[k]
  <2>1. NDIRECT \in 0 .. NDIRECT
    BY ParametersAssumption
  <2> HIDE DEF x
  <2>2. ChangedAt(w.ino, old, NDIRECT, x)
    BY <1>6, <1>9, <2>1, BlockOfInode
  <2> QED
    BY <2>2 DEF ChangedAt
<1> HIDE DEF made, x, old, ino
<1>11. /\ f \in FileSystems /\ f.used = made.fs.used /\ f.inums = made.fs.inums
       /\ f.block = made.fs.block /\ f.inode[w.last_inum] = old
       /\ \A i \in Inums : i # w.last_inum => f.inode[i] = made.fs.inode[i]
  <2> DEFINE e == made.fs
             l == w.last_inum
  <2>1. f = put_inode(e, l, old) /\ e \in FileSystems /\ l \in Inums
    BY <1>6, <1>9
  <2> HIDE DEF e, l, f
  <2>2. /\ f \in FileSystems /\ f.used = e.used /\ f.inums = e.inums
        /\ f.block = e.block /\ f.inode[l] = old
        /\ \A i \in Inums : i # l => f.inode[i] = e.inode[i]
    BY <1>10, <2>1, PutInode
  <2> QED
    BY <2>2 DEF e, l
<1> HIDE DEF f
<1>12. v \in Locals /\ v.fs = f /\ v.ino = ino /\ v.last_inum = x /\ v.real_block_num = 0
  <2>1. v.fs = f /\ v.ino = ino /\ v.last_inum = x /\ v.real_block_num = 0
    BY <1>8
  <2> QED
    BY <1>8, <1>9, <1>11, ParametersAssumption DEF Locals
<1>13. /\ g \in FileSystems /\ g.used = f.used /\ g.inums = f.inums
       /\ g.block = f.block /\ g.inode[x] = ino
       /\ \A i \in Inums : i # x => g.inode[i] = f.inode[i]
  BY <1>12, LocalFields
<1> HIDE DEF g, h, G, d
<1>14. /\ g.inode[w.last_inum] = old
       /\ \A y \in Inums : y # x /\ y # w.last_inum => g.inode[y] = h.inode[y]
       /\ h.inums \subseteq g.inums /\ h.used \subseteq g.used /\ g.block = h.block
       /\ x \notin h.inums /\ x \in g.inums
  BY <1>6, <1>9, <1>11, <1>13
<1>15. ASSUME NEW i \in DOMAIN c
       PROVE  SamePlaces(h, g, i, G[i])
  <2>1. G[i] \in Nat /\ LastInode(G[i]) \in Nat /\ i \in DOMAIN G
    BY <1>4
  <2>2. ASSUME NEW m \in 0 .. LastInode(G[i])
        PROVE  /\ ChainedInode(h, i, m) \in Inums /\ ChainedInode(h, i, m) # x
               /\ ChainedInode(h, i, m) = w.last_inum => i = inum /\ m = d
    <3>1. ChainedInode(h, i, m) \in h.inums /\ ChainedInode(h, i, m) \in Inums
      BY <1>1, <2>1, ChainOnDisk
    <3>2. ChainedInode(h, i, m) = ChainedInode(h, inum, d) => i = inum /\ m = d
      <4>1. ChainsApart(h, G) /\ inum \in DOMAIN G /\ d \in 0 .. LastInode(G[inum])
        BY <1>1, <1>4, <1>5 DEF WellFormed
      <4> QED
        BY <2>1, <4>1 DEF ChainsApart
    <3> QED
      BY <1>5, <1>14, <3>1, <3>2
  <2>3. ASSUME NEW m \in Nat, m < LastInode(G[i])
        PROVE  g.inode[ChainedInode(h, i, m)].blocks[NDIRECT] =
                 h.inode[ChainedInode(h, i, m)].blocks[NDIRECT]
    <3>1. m \in 0 .. LastInode(G[i])
      BY <2>1, <2>3
    <3>2. ChainedInode(h, i, m) # w.last_inum
      <4>1. ~ (i = inum /\ m = d)
        BY <1>4, <2>3 DEF d
      <4> QED
        BY <2>2, <3>1, <4>1, Zenon
    <3> QED
      BY <1>14, <2>2, <3>1, <3>2
  <2>4. ASSUME NEW k \in 0 .. G[i] - 1
        PROVE  g.inode[ChainedInode(h, i, k \div NDIRECT)].blocks[k % NDIRECT] =
                 BlockAt(h, i, k)
    <3>1. k \div NDIRECT \in 0 .. LastInode(G[i]) /\ k % NDIRECT \in 0 .. NDIRECT - 1
      BY <2>1, LastInodes
    <3> DEFINE y == ChainedInode(h, i, k \div NDIRECT)
               l == k % NDIRECT
    <3>2. y \in Inums /\ y # x
      BY <2>2, <3>1
    <3>3. BlockAt(h, i, k) = h.inode[y].blocks[l]
      BY Zenon DEF BlockAt
    <3>4. l \in 0 .. NDIRECT /\ l # NDIRECT
      BY <3>1, ParametersAssumption
    <3> HIDE DEF y, l
    <3>5. g.inode[y].blocks[l] = h.inode[y].blocks[l]
      BY <1>6, <1>10, <1>14, <3>2, <3>4
    <3> QED
      BY <3>3, <3>5, Zenon DEF y, l
  <2> QED
    BY <2>1, <2>3, <2>4, SameInodes
<1>16. KeepsFiles(h, g, c, inum, n)
  <2>1. \A y \in h.inums : g.inode[y].size = h.inode[y].size
    <3>1. \A y \in h.inums : y \in Inums /\ y # x
      BY <1>1, <1>14, FieldTypes
    <3> QED
      BY <1>6, <1>10, <1>14, <3>1
  <2> QED
    BY <1>13, <1>14, <1>15, <2>1 DEF KeepsFiles, G
<1>17. GoodDisk(g, c, inum, tag, n)
  BY <1>16, FilesAreKept DEF LoopInv, h
<1>18. x = ChainedInode(g, inum, n \div NDIRECT)
  <2>1. FollowsPointers(g, inum)
    BY ChainStep, Zenon
  <2>2. ChainedInode(g, inum, d) = w.last_inum
    BY <1>4, <1>5, <1>15, Zenon DEF SamePlaces
  <2>3. ChainedInode(g, inum, d + 1) = g.inode[w.last_inum].blocks[NDIRECT]
    BY <1>1, <2>1, <2>2, Zenon DEF FollowsPointers
  <2> QED
    BY <1>2, <1>10, <1>14, <2>3
<1>19. FreshInode(v, c, inum, n)
  <2>1. ASSUME NEW i \in DOMAIN c, NEW m \in 0 .. LastInode(G[i])
        PROVE  ChainedInode(g, i, m) # x
    <3>1. ChainedInode(h, i, m) \in h.inums
      BY <1>1, <1>4, ChainOnDisk
    <3>2. ChainedInode(g, i, m) = ChainedInode(h, i, m)
      BY <1>15, Zenon DEF SamePlaces
    <3> QED
      BY <1>14, <3>1, <3>2
  <2> QED
    BY <1>2, <1>8, <1>9, <1>11, <1>12, <1>13, <1>14, <2>1 DEF FreshInode, g, G, d
<1> QED
  BY <1>2, <1>12, <1>17, <1>18, <1>19 DEF Ready, g

\* The end of an iteration.
WriteOut(w, tag, n) == WriteAt(w, w.ino.blocks[w.real_block_num], << tag, n >>)

\* Where the loop is after it.
LEMMA NextPosition ==
  ASSUME NEW n \in Nat
  PROVE  /\ LastInode(n + 1) = n \div NDIRECT
         /\ (n % NDIRECT) + 1 = (n + 1) - (n \div NDIRECT) * NDIRECT
         /\ n % NDIRECT \in 0 .. NDIRECT - 1 /\ n \div NDIRECT \in Nat
<1> DEFINE q == n \div NDIRECT  r == n % NDIRECT
<1>1. NDIRECT \in Nat \ {0}
  BY ParametersAssumption
<1>2. q \in Nat /\ r \in 0 .. NDIRECT - 1 /\ n = NDIRECT * q + r
  BY <1>1, Division
<1>3. LastInode(n + 1) = q
  BY LastInodes
<1> HIDE DEF q, r
<1>4. r + 1 = (n + 1) - q * NDIRECT
  <2>1. NDIRECT * q = q * NDIRECT /\ q * NDIRECT \in Nat
    BY <1>1, <1>2
  <2> QED
    BY <1>2, <2>1
<1> QED
  BY <1>2, <1>3, <1>4 DEF q, r

\* A block within the old end of the file is written over.
LEMMA Overwrites ==
  ASSUME NEW w, NEW c, NEW inum, NEW tag \in Nat, NEW n \in Nat,
         GoodFiles(c), inum \in DOMAIN c,
         Ready(w, c, inum, tag, n), n < Len(c[inum].data),
         NEW v, v = WriteOut(w, tag, n)
  PROVE  LoopInv(v, c, inum, tag, n + 1)
<1> DEFINE h == Written(w)
           g == Written(v)
           G == Grown(c, inum, n)
           r == w.real_block_num
           id == w.ino.blocks[r]
           x == << tag, n >>
           q == n \div NDIRECT
<1>1. w \in Locals /\ h \in FileSystems /\ WellFormed(h, G)
  BY DEF Ready, GoodDisk
<1>2. /\ LastInode(n + 1) = q /\ r + 1 = (n + 1) - q * NDIRECT
      /\ r \in 0 .. NDIRECT - 1 /\ r = n % NDIRECT
  BY NextPosition DEF Ready
<1>3. GrownBy(G, c, inum, n)
  BY GrownFiles, Zenon
<1> HIDE DEF G
<1>4. /\ DOMAIN G = DOMAIN c /\ inum \in DOMAIN c /\ G[inum] = Len(c[inum].data)
      /\ n \in 0 .. G[inum] - 1
      /\ \A i \in DOMAIN c : G[i] \in Nat
  BY <1>3 DEF GrownBy
<1>5. Grown(c, inum, n + 1) = G
  <2>1. \A i \in DOMAIN c : Grown(c, inum, n + 1)[i] = G[i]
    BY <1>4 DEF Grown, G
  <2> QED
    BY <2>1 DEF Grown, G
<1>6. /\ w.fs \in FileSystems /\ w.last_inum \in Inums /\ w.ino \in Inodes
      /\ h.used = w.fs.used /\ h.inums = w.fs.inums /\ h.block = w.fs.block
      /\ h.inode[w.last_inum] = w.ino
      /\ \A i \in Inums : i # w.last_inum => h.inode[i] = w.fs.inode[i]
  BY <1>1, LocalFields
<1>7. id \in Blocks \cup {NoBlock} /\ x \in Nat \X Nat
  BY <1>2, <1>6, InodeFields
<1>8. WrittenAt(w, v, id, x)
  <2>1. v = WriteAt(w, id, x)
    BY DEF WriteOut
  <2>2. r # NDIRECT
    BY <1>2, ParametersAssumption
  <2> HIDE DEF id, x
  <2> QED
    BY <1>1, <1>7, <2>1, <2>2, WrittenOutFields
<1> HIDE DEF id, x
<1>9. /\ v \in Locals
      /\ v.ino = w.ino /\ v.last_inum = w.last_inum /\ v.real_block_num = r + 1
      /\ v.fs \in FileSystems /\ v.fs.used = w.fs.used /\ v.fs.inums = w.fs.inums
      /\ v.fs.inode = w.fs.inode /\ v.fs.block[id] = x
      /\ \A b \in Blocks \cup {NoBlock} : b # id => v.fs.block[b] = w.fs.block[b]
  BY <1>8 DEF WrittenAt, BlockChanged
<1>10. /\ g \in FileSystems /\ g.used = v.fs.used /\ g.inums = v.fs.inums
       /\ g.block = v.fs.block /\ g.inode[w.last_inum] = w.ino
       /\ \A i \in Inums : i # w.last_inum => g.inode[i] = v.fs.inode[i]
  BY <1>9, LocalFields
<1> HIDE DEF g, h
<1>11. /\ g.used = h.used /\ g.inums = h.inums
       /\ \A y \in Inums : g.inode[y] = h.inode[y]
       /\ g.block[id] = x
       /\ \A b \in Blocks \cup {NoBlock} : b # id => g.block[b] = h.block[b]
  BY <1>6, <1>9, <1>10
<1>12. ASSUME NEW i \in DOMAIN c
       PROVE  SamePlaces(h, g, i, G[i])
  <2>1. G[i] \in Nat /\ LastInode(G[i]) \in Nat /\ i \in DOMAIN G
    BY <1>4, LastInodes
  <2>2. \A m \in 0 .. LastInode(G[i]) : ChainedInode(h, i, m) \in Inums
    BY <1>1, <2>1, ChainOnDisk
  <2>3. \A m \in Nat : m < LastInode(G[i]) =>
          g.inode[ChainedInode(h, i, m)].blocks[NDIRECT] =
            h.inode[ChainedInode(h, i, m)].blocks[NDIRECT]
    BY <1>11, <2>1, <2>2
  <2>4. ASSUME NEW k \in 0 .. G[i] - 1
        PROVE  g.inode[ChainedInode(h, i, k \div NDIRECT)].blocks[k % NDIRECT] =
                 BlockAt(h, i, k)
    <3>1. k \div NDIRECT \in 0 .. LastInode(G[i])
      BY <2>1, LastInodes
    <3> QED
      BY <1>11, <2>2, <3>1 DEF BlockAt
  <2> QED
    BY <2>1, <2>3, <2>4, SameInodes
<1>13. BlockAt(h, inum, n) = id /\ BlockAt(g, inum, n) = id
  <2>1. BlockAt(h, inum, n) = id
    BY <1>2, <1>6 DEF BlockAt, Ready, h, id
  <2>2. BlockAt(g, inum, n) = BlockAt(h, inum, n)
    BY <1>4, <1>12 DEF SamePlaces
  <2> QED
    BY <2>1, <2>2
<1>14. KeepsFiles(h, g, c, inum, n)
  <2>1. \A y \in h.inums : g.inode[y].size = h.inode[y].size
    <3>1. \A y \in h.inums : y \in Inums
      BY <1>1, FieldTypes
    <3> QED
      BY <1>11, <3>1
  <2>2. ASSUME NEW i \in DOMAIN c, NEW k \in 0 .. G[i] - 1,
               BlockAt(h, i, k) # NoBlock, i # inum \/ k < n
        PROVE  g.block[BlockAt(h, i, k)] = h.block[BlockAt(h, i, k)]
    <3>1. BlockAt(h, i, k) # id
      <4>1. BlocksApart(h, G) /\ i \in DOMAIN G /\ inum \in DOMAIN G /\ ~ (i = inum /\ k = n)
        BY <1>1, <1>4, <2>2 DEF WellFormed
      <4> QED
        BY <1>4, <1>13, <2>2, <4>1 DEF BlocksApart
    <3>2. BlockAt(h, i, k) \in Blocks \cup {NoBlock}
      <4>1. BlockAt(h, i, k) \in h.used \cup {NoBlock}
        BY <1>1, <1>4, Zenon DEF WellFormed, BlocksTaken
      <4> QED
        BY <1>1, <4>1, FieldTypes
    <3> QED
      BY <1>11, <3>1, <3>2
  <2> QED
    BY <1>10, <1>11, <1>12, <2>1, <2>2 DEF KeepsFiles, G
<1>15. GoodDisk(g, c, inum, tag, n)
  BY <1>14, FilesAreKept DEF Ready, h
<1>16. WellFormed(g, Grown(c, inum, n + 1))
  BY <1>5, <1>15 DEF GoodDisk, G
<1>17. GoodDisk(g, c, inum, tag, n + 1)
  BY <1>11, <1>13, <1>15, <1>16, OneMoreBlock DEF x
<1>18. v.last_inum = ChainedInode(g, inum, LastInode(n + 1))
  <2>1. w.last_inum = ChainedInode(h, inum, q)
    BY DEF Ready, h
  <2>2. q \in 0 .. LastInode(G[inum])
    BY <1>4, LastInodes
  <2>3. ChainedInode(g, inum, q) = ChainedInode(h, inum, q)
    BY <1>12, <2>2, Zenon DEF SamePlaces
  <2> QED
    BY <1>2, <1>9, <2>1, <2>3
<1> QED
  BY <1>2, <1>9, <1>17, <1>18 DEF LoopInv, g

\* A block behind the old end of the file gets a new data block, if any.
LEMMA Appends ==
  ASSUME NEW w, NEW c, NEW inum, NEW tag \in Nat, NEW n \in Nat,
         GoodFiles(c), inum \in DOMAIN c,
         Ready(w, c, inum, tag, n), n >= Len(c[inum].data),
         NEW u, u = PlaceAt(w, alloc_block(w.fs).fs, alloc_block(w.fs).id),
         NEW v, v = WriteOut(u, tag, n)
  PROVE  LoopInv(v, c, inum, tag, n + 1)
<1> DEFINE h == Written(w)
           g == Written(v)
           G == Grown(c, inum, n)
           r == w.real_block_num
           new == alloc_block(w.fs)
           id == new.id
           x == << tag, n >>
           q == n \div NDIRECT
           l == w.last_inum
<1>1. w \in Locals /\ h \in FileSystems /\ WellFormed(h, G)
  BY DEF Ready, GoodDisk
<1>2. /\ LastInode(n + 1) = q /\ r + 1 = (n + 1) - q * NDIRECT
      /\ r \in 0 .. NDIRECT - 1 /\ r = n % NDIRECT /\ q \in Nat
      /\ r \in 0 .. NDIRECT /\ r # NDIRECT
  <2>1. /\ LastInode(n + 1) = q /\ r + 1 = (n + 1) - q * NDIRECT
        /\ r \in 0 .. NDIRECT - 1 /\ r = n % NDIRECT /\ q \in Nat
    BY NextPosition DEF Ready
  <2> QED
    BY <2>1, ParametersAssumption
<1>3. GrownBy(G, c, inum, n)
  BY GrownFiles, Zenon
<1>4. GrownBy(Grown(c, inum, n + 1), c, inum, n + 1)
  <2>1. n + 1 \in Nat
    OBVIOUS
  <2> QED
    BY <2>1, GrownFiles, Zenon
<1>5. /\ DOMAIN G = DOMAIN c /\ inum \in DOMAIN c /\ G[inum] = n
      /\ \A i \in DOMAIN c : G[i] \in Nat /\ LastInode(G[i]) \in Nat
  <2> HIDE DEF G
  <2> QED
    BY <1>3, LastInodes DEF GrownBy
<1>6. /\ w.fs \in FileSystems /\ l \in Inums /\ w.ino \in Inodes
      /\ h.used = w.fs.used /\ h.inums = w.fs.inums /\ h.block = w.fs.block
      /\ h.inode[l] = w.ino
      /\ \A i \in Inums : i # l => h.inode[i] = w.fs.inode[i]
  BY <1>1, LocalFields
<1>7. GotBlock(w.fs, new)
  BY <1>6, AllocBlock
<1>8. /\ new.fs \in FileSystems /\ w.fs.used \subseteq new.fs.used
      /\ new.fs.inums = w.fs.inums /\ new.fs.inode = w.fs.inode
      /\ new.fs.block = w.fs.block
      /\ id \in new.fs.used \cup {NoBlock}
      /\ id \in Blocks \cup {NoBlock} /\ id \notin w.fs.used
  <2> HIDE DEF new
  <2> QED
    BY <1>7 DEF GotBlock
<1>9. PlacedBlock(w, u, new.fs, id)
  <2>1. u = PlaceAt(w, new.fs, id)
    OBVIOUS
  <2> HIDE DEF new, id
  <2>2. PlacedBlock(w, PlaceAt(w, new.fs, id), new.fs, id)
    BY <1>1, <1>2, <1>8, PlacedFields, Zenon
  <2> QED
    BY <2>1, <2>2
<1> HIDE DEF new, id, x
<1>10. /\ u \in Locals /\ u.fs = new.fs /\ u.last_inum = l /\ u.real_block_num = r
       /\ u.ino \in Inodes /\ u.ino.size = w.ino.size /\ u.ino.blocks[r] = id
       /\ \A k \in 0 .. NDIRECT : k # r => u.ino.blocks[k] = w.ino.blocks[k]
  BY <1>9 DEF PlacedBlock
<1>11. WrittenAt(u, v, id, x)
  <2>1. v = WriteAt(u, id, x)
    BY <1>10 DEF WriteOut, x
  <2>2. x \in Nat \X Nat /\ u.real_block_num # NDIRECT
    BY <1>2, <1>10, SMTT(30) DEF x
  <2>3. WrittenAt(u, WriteAt(u, id, x), id, x)
    BY <1>8, <1>10, <2>2, WrittenOutFields, Zenon
  <2> QED
    BY <2>1, <2>3
<1>12. /\ v \in Locals
       /\ v.ino = u.ino /\ v.last_inum = l /\ v.real_block_num = r + 1
       /\ v.fs \in FileSystems /\ v.fs.used = new.fs.used /\ v.fs.inums = new.fs.inums
       /\ v.fs.inode = new.fs.inode /\ v.fs.block[id] = x
       /\ \A b \in Blocks \cup {NoBlock} : b # id => v.fs.block[b] = new.fs.block[b]
  BY <1>10, <1>11 DEF WrittenAt, BlockChanged
<1>13. /\ g \in FileSystems /\ g.used = v.fs.used /\ g.inums = v.fs.inums
       /\ g.block = v.fs.block /\ g.inode[l] = u.ino
       /\ \A i \in Inums : i # l => g.inode[i] = v.fs.inode[i]
  BY <1>12, LocalFields, SMTT(30)
<1> HIDE DEF g, h, l, G, q, r
<1>14. /\ h.used \subseteq g.used /\ g.inums = h.inums
       /\ id \in g.used \cup {NoBlock} /\ id \notin h.used
       /\ \A y \in Inums : y # l => g.inode[y] = h.inode[y]
       /\ g.inode[l].size = h.inode[l].size
       /\ g.inode[l].blocks[r] = id
       /\ \A k \in 0 .. NDIRECT : k # r => g.inode[l].blocks[k] = h.inode[l].blocks[k]
       /\ g.block[id] = x
       /\ \A b \in Blocks \cup {NoBlock} : b # id => g.block[b] = h.block[b]
  <2>1. /\ h.used \subseteq g.used /\ g.inums = h.inums
        /\ id \in g.used \cup {NoBlock} /\ id \notin h.used
    BY <1>6, <1>8, <1>12, <1>13
  <2>2. /\ \A y \in Inums : y # l => g.inode[y] = h.inode[y]
        /\ g.inode[l].size = h.inode[l].size
        /\ g.inode[l].blocks[r] = id
    BY <1>6, <1>8, <1>10, <1>12, <1>13
  <2>3. \A k \in 0 .. NDIRECT : k # r => g.inode[l].blocks[k] = h.inode[l].blocks[k]
    BY <1>6, <1>10, <1>13
  <2>4. /\ g.block[id] = x
        /\ \A b \in Blocks \cup {NoBlock} : b # id => g.block[b] = h.block[b]
    BY <1>6, <1>8, <1>12, <1>13
  <2> QED  BY <2>1, <2>2, <2>3, <2>4
<1>15. l = ChainedInode(h, inum, q)
  BY DEF Ready, l, h, q
\* Inode l is the one of block n; where block n is the first one in it, it is
\* in no chain yet.
<1>16. ASSUME NEW i \in DOMAIN c, NEW m \in 0 .. LastInode(G[i])
       PROVE  /\ ChainedInode(h, i, m) \in h.inums /\ ChainedInode(h, i, m) \in Inums
              /\ ChainedInode(h, i, m) = l => i = inum /\ m = q /\ q = LastInode(n)
  <2>1. ChainedInode(h, i, m) \in h.inums /\ ChainedInode(h, i, m) \in Inums
    BY <1>1, <1>5, ChainOnDisk
  <2>2. CASE q = LastInode(n)
    <3>1. ChainsApart(h, G) /\ inum \in DOMAIN G /\ q \in 0 .. LastInode(G[inum])
      BY <1>1, <1>2, <1>5, <2>2 DEF WellFormed
    <3> QED
      BY <1>5, <1>15, <2>1, <2>2, <3>1 DEF ChainsApart
  <2>3. CASE q # LastInode(n)
    <3>1. FreshInode(w, c, inum, n)
      BY <2>3 DEF Ready, q
    <3> QED
      BY <2>1, <3>1 DEF FreshInode, h, l, G
  <2> QED
    BY <2>2, <2>3
<1>17. ASSUME NEW i \in DOMAIN c
       PROVE  SamePlaces(h, g, i, G[i])
  <2>1. G[i] \in Nat /\ LastInode(G[i]) \in Nat /\ i \in DOMAIN G
    BY <1>5
  <2>2. ASSUME NEW m \in Nat, m < LastInode(G[i])
        PROVE  g.inode[ChainedInode(h, i, m)].blocks[NDIRECT] =
                 h.inode[ChainedInode(h, i, m)].blocks[NDIRECT]
    <3>1. m \in 0 .. LastInode(G[i])
      BY <2>1, <2>2
    <3>2. NDIRECT \in 0 .. NDIRECT /\ NDIRECT # r
      BY <1>2, ParametersAssumption
    <3>3. ChainedInode(h, i, m) \in Inums
      BY <1>16, <3>1
    <3> QED
      BY <1>14, <3>2, <3>3
  <2>3. ASSUME NEW k \in 0 .. G[i] - 1
        PROVE  g.inode[ChainedInode(h, i, k \div NDIRECT)].blocks[k % NDIRECT] =
                 BlockAt(h, i, k)
    <3> DEFINE y == ChainedInode(h, i, k \div NDIRECT)
               s == k % NDIRECT
    <3>1. k \div NDIRECT \in 0 .. LastInode(G[i]) /\ s \in 0 .. NDIRECT - 1
      BY <2>1, LastInodes
    <3>2. y \in Inums /\ s \in 0 .. NDIRECT
      BY <1>16, <3>1, ParametersAssumption
    <3>3. ASSUME y = l
          PROVE  s # r
      <4>1. i = inum /\ k \div NDIRECT = q
        BY <1>16, <3>1, <3>3
      <4>2. SUFFICES ASSUME s = r PROVE FALSE
        OBVIOUS
      <4>3. k \in Nat /\ k < n
        BY <1>5, <4>1
      <4>4. NDIRECT \in Nat \ {0}
        BY ParametersAssumption
      <4>5. k = NDIRECT * q + r
        BY <4>1, <4>2, <4>3, <4>4, Division
      <4>6. n = NDIRECT * q + r
        BY <1>2, <4>4, Division DEF q
      <4> QED
        BY <4>3, <4>5, <4>6
    <3>4. BlockAt(h, i, k) = h.inode[y].blocks[s]
      BY Zenon DEF BlockAt
    <3> HIDE DEF y, s
    <3>5. g.inode[y].blocks[s] = h.inode[y].blocks[s]
      BY <1>14, <3>2, <3>3
    <3> QED
      BY <3>4, <3>5, Zenon DEF y, s
  <2> QED
    BY <2>1, <2>2, <2>3, SameInodes
<1>18. ChainedInode(g, inum, q) = l
  <2>1. CASE q = LastInode(n)
    <3>1. q \in 0 .. LastInode(G[inum])
      BY <1>2, <1>5, <2>1
    <3> QED
      BY <1>5, <1>15, <1>17, <3>1, Zenon DEF SamePlaces
  <2>2. CASE q # LastInode(n)
    <3> DEFINE d == LastInode(n)
               y == ChainedInode(h, inum, d)
    <3>1. FreshInode(w, c, inum, n)
      BY <2>2 DEF Ready, q
    <3>2. q = d + 1 /\ d \in Nat /\ d \in 0 .. LastInode(G[inum])
      BY <1>5, <3>1 DEF FreshInode, q
    <3>3. y \in Inums /\ y # l
      BY <1>5, <1>16, <2>2, <3>2
    <3>4. FollowsPointers(g, inum) /\ FollowsPointers(h, inum)
      BY ChainStep, Zenon
    <3>5. ChainedInode(g, inum, d) = y
      BY <1>5, <1>17, <3>2, Zenon DEF SamePlaces
    <3>6. ChainedInode(g, inum, d + 1) = g.inode[y].blocks[NDIRECT]
      BY <3>2, <3>4, <3>5, Zenon DEF FollowsPointers
    <3>7. ChainedInode(h, inum, d + 1) = h.inode[y].blocks[NDIRECT]
      BY <3>2, <3>4, Zenon DEF FollowsPointers
    <3> HIDE DEF d, y
    <3> QED
      BY <1>14, <1>15, <3>2, <3>3, <3>6, <3>7
  <2> QED
    BY <2>1, <2>2
<1>19. BlockAt(g, inum, n) = id
  BY <1>2, <1>14, <1>18 DEF BlockAt, q
<1>20. ASSUME NEW i \in DOMAIN c, NEW k \in 0 .. G[i] - 1, BlockAt(h, i, k) # NoBlock
       PROVE  BlockAt(h, i, k) # id /\ BlockAt(h, i, k) \in Blocks \cup {NoBlock}
  <2>1. BlockAt(h, i, k) \in h.used \cup {NoBlock}
    BY <1>1, <1>5, Zenon DEF WellFormed, BlocksTaken
  <2> QED
    BY <1>1, <1>14, <1>20, <2>1, FieldTypes
<1>21. KeepsFiles(h, g, c, inum, n)
  <2>1. \A y \in h.inums : g.inode[y].size = h.inode[y].size
    <3>1. \A y \in h.inums : y \in Inums
      BY <1>1, FieldTypes
    <3> QED
      BY <1>14, <3>1
  <2>2. ASSUME NEW i \in DOMAIN c, NEW k \in 0 .. G[i] - 1,
               BlockAt(h, i, k) # NoBlock
        PROVE  g.block[BlockAt(h, i, k)] = h.block[BlockAt(h, i, k)]
    BY <1>14, <1>20, <2>2
  <2> QED
    BY <1>13, <1>14, <1>17, <2>1, <2>2 DEF KeepsFiles, G
<1>22. GoodDisk(g, c, inum, tag, n)
  BY <1>21, FilesAreKept DEF Ready, h
<1>23. WellFormed(g, Grown(c, inum, n + 1))
  <2> DEFINE more == Grown(c, inum, n + 1)
  <2>1. WellFormed(g, G)
    BY <1>22 DEF GoodDisk, G
  <2>2. /\ DOMAIN more = DOMAIN G
        /\ \A i \in DOMAIN G : more[i] = IF i = inum THEN n + 1 ELSE G[i]
    <3>1. GrownBy(more, c, inum, n + 1)
      BY <1>4
    <3> HIDE DEF more
    <3> QED
      BY <1>3, <1>5, <3>1 DEF GrownBy
  <2>3. ASSUME LastInode(n + 1) # LastInode(n)
        PROVE  /\ LastInode(n + 1) = LastInode(n) + 1
               /\ ChainedInode(g, inum, LastInode(n + 1)) \in g.inums \cap InRange
               /\ g.inode[ChainedInode(g, inum, LastInode(n + 1))].size = 0
               /\ \A i \in DOMAIN G : \A m \in 0 .. LastInode(G[i]) :
                    ChainedInode(g, i, m) # ChainedInode(g, inum, LastInode(n + 1))
    <3>1. q # LastInode(n) /\ FreshInode(w, c, inum, n)
      BY <1>2, <2>3 DEF Ready, q
    <3>2. LastInode(n + 1) = LastInode(n) + 1
      BY <1>2, <3>1 DEF FreshInode, q
    <3>3. l \in g.inums \cap InRange /\ g.inode[l].size = 0
      BY <1>6, <1>14, <3>1 DEF FreshInode, l
    <3>4. ASSUME NEW i \in DOMAIN G, NEW m \in 0 .. LastInode(G[i])
          PROVE  ChainedInode(g, i, m) # l
      <4>1. ChainedInode(g, i, m) = ChainedInode(h, i, m)
        BY <1>5, <1>17, Zenon DEF SamePlaces
      <4> QED
        BY <1>5, <1>16, <3>1, <4>1
    <3> QED
      BY <1>2, <1>18, <3>2, <3>3, <3>4
  <2>4. BlockAt(g, inum, n) \in g.used \cup {NoBlock}
    BY <1>14, <1>19
  <2>5. ASSUME NEW i \in DOMAIN G, NEW k \in 0 .. G[i] - 1, BlockAt(g, inum, n) # NoBlock
        PROVE  BlockAt(g, i, k) # BlockAt(g, inum, n)
    <3>1. BlockAt(g, i, k) = BlockAt(h, i, k)
      BY <1>5, <1>17, Zenon DEF SamePlaces
    <3> QED
      BY <1>5, <1>19, <1>20, <2>5, <3>1
  <2> HIDE DEF more
  <2>6. inum \in DOMAIN G /\ n = G[inum] /\ \A i \in DOMAIN G : G[i] \in Nat
    BY <1>5
  <2>7. WellFormed(g, more)
    BY <2>1, <2>2, <2>3, <2>4, <2>5, <2>6, GrowsByABlock
  <2> QED
    BY <2>7 DEF more
<1>24. GoodDisk(g, c, inum, tag, n + 1)
  BY <1>14, <1>19, <1>22, <1>23, OneMoreBlock DEF x
<1>25. v.last_inum = ChainedInode(g, inum, LastInode(n + 1))
  BY <1>2, <1>12, <1>18
<1> QED
  BY <1>2, <1>12, <1>24, <1>25 DEF LoopInv, g

\* One iteration.
LEMMA Iteration ==
  ASSUME NEW w, NEW c, NEW inum, NEW tag \in Nat, NEW n \in Nat, NEW size \in Nat,
         GoodFiles(c), inum \in DOMAIN c, BlocksOf(size) = Len(c[inum].data),
         LoopInv(w, c, inum, tag, n), w.alive,
         NEW v, v = WriteBlock(w, tag, n, size), v.alive
  PROVE  LoopInv(v, c, inum, tag, n + 1)
<1> DEFINE next == IF w.real_block_num = NDIRECT THEN NextInode(w, n, size) ELSE w
           here == PlaceBlock(next, n, size)
<1>1. v = IF next.alive THEN WriteOut(here, tag, n) ELSE next
  BY Zenon DEF WriteBlock, WriteOut, WriteAt
<1>2. next.alive /\ v = WriteOut(here, tag, n)
  BY <1>1, Zenon
<1>3. BlocksOf(size) \in Nat /\ (size <= n * BLOCK_SIZE <=> BlocksOf(size) <= n)
  BY BlocksOfSize
<1>4. Ready(next, c, inum, tag, n)
  <2>1. CASE w.real_block_num # NDIRECT
    <3>1. next = w
      BY <2>1
    <3> QED
      BY <2>1, <3>1, ReadyHere
  <2>2. CASE w.real_block_num = NDIRECT
    <3>1. next = NextInode(w, n, size)
      BY <2>2
    <3> HIDE DEF next
    <3>2. CASE n < BlocksOf(size)
      BY <1>2, <2>2, <3>1, <3>2, ReadyInNext
    <3>3. CASE BlocksOf(size) <= n
      BY <1>2, <2>2, <3>1, <3>3, ReadyInNew
    <3> QED
      BY <1>3, <3>2, <3>3
  <2> QED
    BY <2>1, <2>2
<1>5. CASE n < BlocksOf(size)
  <2>1. ~ (n * BLOCK_SIZE >= size)
    BY <1>3, <1>5, ParametersAssumption
  <2>2. here = next
    BY <2>1, Zenon DEF PlaceBlock
  <2> HIDE DEF here, next
  <2> QED
    BY <1>2, <1>4, <1>5, <2>2, Overwrites
<1>6. CASE BlocksOf(size) <= n
  <2>1. n * BLOCK_SIZE >= size
    BY <1>3, <1>6, ParametersAssumption
  <2>2. here = PlaceAt(next, alloc_block(next.fs).fs, alloc_block(next.fs).id)
    BY <2>1, Zenon DEF PlaceBlock, PlaceAt
  <2> HIDE DEF here, next
  <2>3. n >= Len(c[inum].data)
    BY <1>3, <1>6
  <2> QED
    BY <1>2, <1>4, <2>2, <2>3, Appends
<1> QED
  BY <1>3, <1>5, <1>6

\* The loop, unless it dies.
LEMMA Loop ==
  ASSUME NEW f \in FileSystems, NEW c, NEW inum, NEW tag \in Nat, NEW n \in Nat,
         GoodFiles(c), inum \in DOMAIN c, f.inode[inum].size \in Nat,
         BlocksOf(f.inode[inum].size) = Len(c[inum].data),
         LoopInv(WriteStart(f, inum), c, inum, tag, 0),
         WriteBlocks(f, inum, tag, n).alive
  PROVE  LoopInv(WriteBlocks(f, inum, tag, n), c, inum, tag, n)
<1> DEFINE size == f.inode[inum].size
<1>1. PICK v : /\ v[0] = WriteStart(f, inum)
               /\ \A m \in 1 .. n : v[m] = WriteStep(v[m - 1], tag, m - 1, size)
               /\ WriteBlocks(f, inum, tag, n) = v[n]
  BY LoopStates
<1> DEFINE S == {m \in 0 .. n : v[m].alive => LoopInv(v[m], c, inum, tag, m)}
<1>2. size \in Nat /\ BlocksOf(size) = Len(c[inum].data)
  OBVIOUS
<1> HIDE DEF size
<1>3. 0 \in S
  BY <1>1
<1>4. ASSUME NEW m \in 1 .. n, m - 1 \in S
      PROVE  m \in S
  <2>1. SUFFICES ASSUME v[m].alive PROVE LoopInv(v[m], c, inum, tag, m)
    OBVIOUS
  <2>2. v[m] = WriteStep(v[m - 1], tag, m - 1, size)
    BY <1>1
  <2>3. v[m - 1].alive
    BY <2>1, <2>2, Zenon DEF WriteStep
  <2>4. v[m] = WriteBlock(v[m - 1], tag, m - 1, size)
    BY <2>2, <2>3, Zenon DEF WriteStep
  <2>5. LoopInv(v[m - 1], c, inum, tag, m - 1) /\ m - 1 \in Nat /\ (m - 1) + 1 = m
    BY <1>4, <2>3
  <2>6. LoopInv(v[m], c, inum, tag, (m - 1) + 1)
    BY <1>2, <2>1, <2>3, <2>4, <2>5, Iteration, Zenon
  <2> QED
    BY <2>5, <2>6
<1> HIDE DEF S
<1>5. \A m \in 0 .. n : m \in S
  BY <1>3, <1>4, Induction
<1> QED
  BY <1>1, <1>5 DEF S

(***************************************************************************)
(* Files that are cut or removed                                           *)
(***************************************************************************)

\* The disk f has the files c.
FilesOnDisk(f, c) ==
  /\ f \in FileSystems
  /\ GoodFiles(c)
  /\ \A i \in DOMAIN c :
       /\ f.inode[i].size = c[i].size
       /\ Len(c[i].data) = BlocksOf(c[i].size)
       /\ Holds(f, i, c[i].data)
  /\ WellFormed(f, Extents(c))

\* Blocks n and more, and inodes e and more, of file inum.
TailBlocks(h, blocks, inum, n) == {BlockAt(h, inum, k) : k \in n .. blocks[inum] - 1}
TailInodes(h, blocks, inum, e) ==
  {ChainedInode(h, inum, m) : m \in e .. LastInode(blocks[inum])}

\* Only these are freed and changed, and the size of the file.
CutTo(h, g, blocks, inum, n, e) ==
  /\ g \in FileSystems /\ g.block = h.block
  /\ h.used \ TailBlocks(h, blocks, inum, n) \subseteq g.used
  /\ h.inums \ TailInodes(h, blocks, inum, e) \subseteq g.inums
  /\ \A y \in Inums \ TailInodes(h, blocks, inum, e) :
       /\ g.inode[y].blocks = h.inode[y].blocks
       /\ y # inum => g.inode[y].size = h.inode[y].size

\* The file has n blocks left, or is gone.
LeavesBlocks(blocks, fewer, inum, n, e) ==
  /\ inum \in DOMAIN blocks /\ n \in Nat /\ e \in Nat
  /\ \A i \in DOMAIN blocks : blocks[i] \in Nat
  /\ DOMAIN fewer \subseteq DOMAIN blocks
  /\ \A i \in DOMAIN fewer : i # inum => fewer[i] = blocks[i]
  /\ inum \in DOMAIN fewer =>
       fewer[inum] = n /\ n <= blocks[inum] /\ e = LastInode(n) + 1

LeavesFiles(h, g, fewer, inum) ==
  /\ WellFormed(g, fewer)
  /\ \A i \in DOMAIN fewer : SamePlaces(h, g, i, fewer[i])
  /\ \A i \in DOMAIN fewer : i # inum => g.inode[i].size = h.inode[i].size

\* Then what is left of the files stays as it was.
LEMMA CutFile ==
  ASSUME NEW h \in FileSystems, NEW g, NEW blocks, NEW fewer, WellFormed(h, blocks),
         NEW inum, NEW n, NEW e,
         LeavesBlocks(blocks, fewer, inum, n, e), CutTo(h, g, blocks, inum, n, e)
  PROVE  LeavesFiles(h, g, fewer, inum)
<1> DEFINE B == TailBlocks(h, blocks, inum, n)
           Y == TailInodes(h, blocks, inum, e)
<1>1. /\ inum \in DOMAIN blocks /\ n \in Nat /\ e \in Nat
      /\ \A i \in DOMAIN blocks : blocks[i] \in Nat
      /\ DOMAIN fewer \subseteq DOMAIN blocks
      /\ \A i \in DOMAIN fewer : i # inum => fewer[i] = blocks[i]
      /\ inum \in DOMAIN fewer =>
           fewer[inum] = n /\ n <= blocks[inum] /\ e = LastInode(n) + 1
  BY DEF LeavesBlocks
<1> USE <1>1
<1>2. ASSUME NEW i \in DOMAIN fewer
      PROVE  /\ i \in DOMAIN blocks
             /\ fewer[i] \in Nat /\ blocks[i] \in Nat /\ fewer[i] <= blocks[i]
             /\ LastInode(fewer[i]) \in Nat /\ LastInode(blocks[i]) \in Nat
             /\ LastInode(fewer[i]) <= LastInode(blocks[i])
  <2>1. i \in DOMAIN blocks /\ fewer[i] \in Nat /\ blocks[i] \in Nat /\ fewer[i] <= blocks[i]
    <3>1. CASE i = inum
      BY <3>1
    <3>2. CASE i # inum
      BY <3>2
    <3> QED
      BY <3>1, <3>2
  <2> QED
    BY <2>1, LastInodes
<1>3. /\ g \in FileSystems /\ h.used \ B \subseteq g.used /\ h.inums \ Y \subseteq g.inums
      /\ \A y \in Inums \ Y : /\ g.inode[y].blocks = h.inode[y].blocks
                              /\ y # inum => g.inode[y].size = h.inode[y].size
  BY DEF CutTo
<1> HIDE DEF B, Y
<1>4. ASSUME NEW i \in DOMAIN fewer, NEW m \in 0 .. LastInode(fewer[i])
      PROVE  /\ ChainedInode(h, i, m) \in h.inums /\ ChainedInode(h, i, m) \in Inums
             /\ ChainedInode(h, i, m) \notin Y
             /\ m > 0 => /\ ChainedInode(h, i, m) # inum
                         /\ h.inode[ChainedInode(h, i, m)].size = 0
  <2>1. i \in DOMAIN blocks /\ m \in 0 .. LastInode(blocks[i]) /\ m <= LastInode(fewer[i])
    BY <1>2
  <2>2. /\ ChainsApart(h, blocks)
        /\ m > 0 => h.inode[ChainedInode(h, i, m)].size = 0
    BY <2>1 DEF WellFormed, ChainsTaken
  <2>3. ChainedInode(h, i, m) \in h.inums /\ ChainedInode(h, i, m) \in Inums
    BY <2>1, ChainOnDisk
  <2>4. ASSUME ChainedInode(h, i, m) \in Y
        PROVE  FALSE
    <3>1. PICK l \in e .. LastInode(blocks[inum]) : ChainedInode(h, i, m) = ChainedInode(h, inum, l)
      BY <2>4 DEF Y, TailInodes
    <3>2. l \in 0 .. LastInode(blocks[inum]) /\ l >= e
      BY LastInodes
    <3>3. i = inum /\ m = l
      BY <2>1, <2>2, <3>1, <3>2 DEF ChainsApart
    <3>4. e = LastInode(n) + 1 /\ fewer[i] = n /\ LastInode(n) \in Nat
      BY <3>3, LastInodes
    <3> QED
      BY <2>1, <3>2, <3>3, <3>4
  <2>5. ASSUME m > 0
        PROVE  ChainedInode(h, i, m) # inum
    <3>1. ChainedInode(h, inum, 0) = inum
      BY ChainStep DEF FollowsPointers
    <3>2. 0 \in 0 .. LastInode(blocks[inum]) /\ m # 0
      BY <2>5, LastInodes
    <3> QED
      BY <2>1, <2>2, <3>1, <3>2 DEF ChainsApart
  <2> QED
    BY <2>2, <2>3, <2>4, <2>5
<1>5. ASSUME NEW i \in DOMAIN fewer, NEW k \in 0 .. fewer[i] - 1
      PROVE  BlockAt(h, i, k) \in g.used \cup {NoBlock}
  <2>1. i \in DOMAIN blocks /\ k \in 0 .. blocks[i] - 1 /\ k < fewer[i] /\ k \in Nat
    BY <1>2
  <2>2. BlocksApart(h, blocks) /\ BlockAt(h, i, k) \in h.used \cup {NoBlock}
    BY <2>1 DEF WellFormed, BlocksTaken
  <2>3. SUFFICES ASSUME BlockAt(h, i, k) \in B, BlockAt(h, i, k) # NoBlock
                 PROVE  FALSE
    BY <1>3, <2>2
  <2>4. PICK l \in n .. blocks[inum] - 1 : BlockAt(h, i, k) = BlockAt(h, inum, l)
    BY <2>3 DEF B, TailBlocks
  <2>5. l \in 0 .. blocks[inum] - 1 /\ l >= n
    OBVIOUS
  <2>6. i = inum /\ k = l
    BY <2>1, <2>2, <2>3, <2>4, <2>5 DEF BlocksApart
  <2> QED
    BY <2>1, <2>5, <2>6
<1>6. ASSUME NEW i \in DOMAIN fewer
      PROVE  SamePlaces(h, g, i, fewer[i])
  <2>1. \A m \in Nat : m < LastInode(fewer[i]) =>
          g.inode[ChainedInode(h, i, m)].blocks[NDIRECT] =
            h.inode[ChainedInode(h, i, m)].blocks[NDIRECT]
    BY <1>2, <1>3, <1>4
  <2>2. ASSUME NEW k \in 0 .. fewer[i] - 1
        PROVE  g.inode[ChainedInode(h, i, k \div NDIRECT)].blocks[k % NDIRECT] =
                 BlockAt(h, i, k)
    <3>1. k \div NDIRECT \in 0 .. LastInode(fewer[i])
      BY <1>2, LastInodes
    <3> QED
      BY <1>3, <1>4, <3>1 DEF BlockAt
  <2> QED
    BY <1>2, <2>1, <2>2, SameInodes
<1>7. ASSUME NEW i \in DOMAIN fewer, NEW m \in 0 .. LastInode(fewer[i])
      PROVE  /\ ChainedInode(h, i, m) \in g.inums
             /\ m > 0 => g.inode[ChainedInode(h, i, m)].size = 0
  BY <1>3, <1>4
<1>8. ASSUME NEW i \in DOMAIN fewer, i # inum
      PROVE  g.inode[i].size = h.inode[i].size
  <2>1. ChainedInode(h, i, 0) = i /\ 0 \in 0 .. LastInode(fewer[i])
    BY <1>2, ChainStep DEF FollowsPointers
  <2> QED
    BY <1>3, <1>4, <1>8, <2>1
<1>9. WellFormed(g, fewer)
  BY <1>2, <1>5, <1>6, <1>7, StaysWellFormed
<1> QED
  BY <1>6, <1>8, <1>9 DEF LeavesFiles

\* A file that keeps its blocks, and what is in them, keeps its data.
LEMMA HoldsStill ==
  ASSUME NEW h, NEW g, NEW i, NEW data, NEW n \in Nat, Len(data) = n,
         Holds(h, i, data), SamePlaces(h, g, i, n), g.block = h.block
  PROVE  Holds(g, i, data)
  BY Zenon DEF Holds, SamePlaces

\* Where write_file begins.
LEMMA LoopBegins ==
  ASSUME NEW f, NEW c, NEW inum \in DOMAIN c, NEW tag, FilesOnDisk(f, c)
  PROVE  LoopInv(WriteStart(f, inum), c, inum, tag, 0)
<1> DEFINE w == WriteStart(f, inum)
<1>1. f \in FileSystems /\ GoodFiles(c) /\ inum \in Inums /\ f.inode[inum] \in Inodes
  BY FieldTypes DEF FilesOnDisk, GoodFiles
<1>2. /\ w \in Locals /\ w.fs = f /\ w.ino = f.inode[inum] /\ w.last_inum = inum
      /\ w.real_block_num = 0
  BY <1>1, ParametersAssumption DEF WriteStart, Locals
<1> HIDE DEF w
<1>3. Written(w) = f
  BY <1>1, <1>2, PutSame DEF Written
<1>4. Grown(c, inum, 0) = Extents(c)
  <2>1. \A i \in DOMAIN c : Len(c[i].data) \in Nat
    BY <1>1 DEF GoodFiles, Contents
  <2> QED
    BY <2>1 DEF Grown, Extents
<1>5. GoodDisk(f, c, inum, tag, 0)
  BY <1>1, <1>4 DEF GoodDisk, FilesOnDisk
<1>6. LastInode(0) = 0
  BY DEF LastInode
<1>7. ChainedInode(f, inum, 0) = inum
  BY ChainStep DEF FollowsPointers
<1>8. 0 = 0 - 0 * NDIRECT
  BY ParametersAssumption
<1> QED
  BY <1>2, <1>3, <1>5, <1>6, <1>7, <1>8 DEF LoopInv, w

\* What free_inode leaves of the size is not negative.
LEMMA SizeLeft ==
  ASSUME NEW size \in Nat, NEW m \in 0 .. LastInode(BlocksOf(size))
  PROVE  size - m * NDIRECT * BLOCK_SIZE \in Nat
<1> DEFINE n == BlocksOf(size)
<1>1. NDIRECT \in Nat \ {0} /\ BLOCK_SIZE \in Nat \ {0}
  BY ParametersAssumption
<1>2. n \in Nat /\ LastInode(n) \in Nat /\ m \in Nat
  BY BlocksOfSize, LastInodes
<1>3. CASE m = 0
  BY <1>1, <1>3
<1>4. CASE m # 0
  <2>1. n # 0 /\ m <= (n - 1) \div NDIRECT
    BY <1>2, <1>4 DEF LastInode
  <2> HIDE DEF n
  <2> DEFINE p == n - 1
             q == p \div NDIRECT
             r == p % NDIRECT
  <2>2. p \in Nat /\ m <= q
    BY <1>2, <2>1
  <2> HIDE DEF p
  <2>3. q \in Nat /\ m <= q /\ NDIRECT * q <= n - 1
    <3>1. q \in Nat /\ r \in 0 .. NDIRECT - 1 /\ p = NDIRECT * q + r
      BY <1>1, <2>2, Division
    <3> HIDE DEF q, r
    <3>2. NDIRECT * q \in Nat
      BY <1>1, <3>1
    <3> QED
      BY <1>1, <1>2, <2>2, <3>1, <3>2 DEF p
  <2> HIDE DEF q
  <2>4. NDIRECT * m <= NDIRECT * q /\ NDIRECT * m = m * NDIRECT /\ m * NDIRECT \in Nat
    BY <1>1, <1>2, <2>3
  <2>5. ~ (n <= m * NDIRECT)
    <3>1. NDIRECT * q \in Nat
      BY <1>1, <2>3
    <3> QED
      BY <1>2, <2>3, <2>4, <3>1
  <2> DEFINE b == m * NDIRECT
  <2>6. ~ (size <= b * BLOCK_SIZE)
    BY <2>4, <2>5, BlocksOfSize DEF n
  <2>7. b \in Nat
    BY <2>4
  <2>8. m * NDIRECT * BLOCK_SIZE = b * BLOCK_SIZE
    OBVIOUS
  <2> HIDE DEF b
  <2>9. b * BLOCK_SIZE \in Nat
    BY <1>1, <2>7
  <2> QED
    BY <2>6, <2>8, <2>9
<1> QED
  BY <1>3, <1>4

\* free_inode frees the blocks B and the inodes Y.
FreedInode(f, g, inum, B, Y) ==
  /\ g \in FileSystems /\ g.block = f.block
  /\ g.used = f.used \ B /\ g.inums = f.inums \ Y
  /\ \A y \in Inums : g.inode[y].blocks = f.inode[y].blocks
  /\ \A y \in Inums \ Y : g.inode[y] = f.inode[y]
  /\ f.inode[inum].size = 0 => g.inode[inum].size = 0

LEMMA FreeInode ==
  ASSUME NEW f \in FileSystems, NEW inum \in Inums
  PROVE  FreedInode(f, free_inode(f, inum), inum,
           {BlockAt(f, inum, k) : k \in 0 .. BlocksOf(f.inode[inum].size) - 1},
           {ChainedInode(f, inum, n) : n \in 0 .. LastInode(BlocksOf(f.inode[inum].size))})
<1> DEFINE size == f.inode[inum].size
           depth == 0 .. LastInode(BlocksOf(size))
           Y == {ChainedInode(f, inum, n) : n \in depth}
           B == {BlockAt(f, inum, k) : k \in 0 .. BlocksOf(size) - 1}
           At(i) == CHOOSE n \in depth : ChainedInode(f, inum, n) = i
           cut(i) == [type   |-> "none",
                      size   |-> size - At(i) * NDIRECT * BLOCK_SIZE,
                      blocks |-> f.inode[i].blocks]
           table == [i \in Inums |-> IF i \in Y THEN cut(i) ELSE f.inode[i]]
           g == free_inode(f, inum)
<1>1. g = [[f EXCEPT !.used = @ \ B] EXCEPT !.inums = @ \ Y, !.inode = table]
  BY Zenon DEF free_inode, free_blocks
<1>2. \A i \in Inums : f.inode[i] \in Inodes
  BY FieldTypes
<1>3. ASSUME NEW i \in Inums, i \in Y
      PROVE  At(i) \in depth
  BY <1>3, Zenon
<1>4. size \in Nat
  BY <1>2, InodeFields
<1>5. ASSUME NEW i \in Inums, i \in Y
      PROVE  cut(i) \in Inodes /\ cut(i).blocks = f.inode[i].blocks
  <2> DEFINE left == size - At(i) * NDIRECT * BLOCK_SIZE
             list == f.inode[i].blocks
  <2>1. left \in Nat
    <3>1. At(i) \in depth
      BY <1>3, <1>5, Zenon
    <3> HIDE DEF At, size
    <3> QED
      BY <1>4, <3>1, SizeLeft
  <2>2. list \in BlockLists
    BY <1>2 DEF Inodes
  <2>3. cut(i) = [type |-> "none", size |-> left, blocks |-> list]
    BY Zenon
  <2> HIDE DEF left, list, cut
  <2>4. cut(i) \in Inodes /\ cut(i).blocks = list
    BY <2>1, <2>2, <2>3 DEF Inodes
  <2> QED
    BY <2>4 DEF list
<1> HIDE DEF cut
<1>6. table \in [Inums -> Inodes]
  BY <1>2, <1>5
<1>7. /\ \A y \in Inums : table[y].blocks = f.inode[y].blocks
      /\ \A y \in Inums \ Y : table[y] = f.inode[y]
  BY <1>5
<1>8. ASSUME size = 0
      PROVE  table[inum].size = 0
  <2>1. depth = {0}
    <3>1. LastInode(BlocksOf(size)) = 0
      BY <1>4, <1>8, BlocksOfSize DEF LastInode
    <3> QED
      BY <3>1
  <2>2. ChainedInode(f, inum, 0) = inum
    BY ChainStep DEF FollowsPointers
  <2>3. inum \in Y
    BY <2>1, <2>2
  <2>4. At(inum) = 0
    <3>1. At(inum) \in depth
      BY <1>3, <2>3, Zenon
    <3> QED
      BY <2>1, <3>1
  <2>5. table[inum] = cut(inum)
    BY <2>3
  <2>6. cut(inum).size = size - At(inum) * NDIRECT * BLOCK_SIZE
    BY Zenon DEF cut
  <2> HIDE DEF At, table
  <2> QED
    BY <1>8, <2>4, <2>5, <2>6, ParametersAssumption
<1> HIDE DEF table, B, Y, g
<1>9. /\ g \in FileSystems /\ g.block = f.block /\ g.used = f.used \ B
      /\ g.inums = f.inums \ Y /\ g.inode = table
  BY <1>1, <1>6 DEF FileSystems
<1>10. FreedInode(f, g, inum, B, Y)
  BY <1>7, <1>8, <1>9 DEF FreedInode
<1> QED
  BY <1>10, Zenon DEF g, B, Y

\* remove: the other files stay.
LEMMA Removes ==
  ASSUME NEW f, NEW c, NEW inum \in DOMAIN c, FilesOnDisk(f, c)
  PROVE  FilesOnDisk(free_inode(f, inum), [i \in DOMAIN c \ {inum} |-> c[i]])
<1> DEFINE g == free_inode(f, inum)
           left == [i \in DOMAIN c \ {inum} |-> c[i]]
           blocks == Extents(c)
           fewer == Extents(left)
           size == f.inode[inum].size
<1>1. /\ f \in FileSystems /\ GoodFiles(c) /\ WellFormed(f, blocks) /\ inum \in Inums
      /\ size \in Nat /\ BlocksOf(size) = blocks[inum]
  <2>1. f \in FileSystems /\ GoodFiles(c) /\ WellFormed(f, blocks) /\ inum \in Inums
    BY DEF FilesOnDisk, GoodFiles
  <2>2. size = c[inum].size /\ blocks[inum] = BlocksOf(c[inum].size)
    BY DEF FilesOnDisk, Extents
  <2>3. size \in Nat
    BY <2>1, FieldTypes, InodeFields
  <2> QED
    BY <2>1, <2>2, <2>3
<1>2. /\ \A i \in DOMAIN blocks : blocks[i] \in Nat
      /\ DOMAIN blocks = DOMAIN c /\ DOMAIN fewer = DOMAIN c \ {inum}
      /\ \A i \in DOMAIN fewer : fewer[i] = blocks[i] /\ left[i] = c[i]
                              /\ fewer[i] = Len(c[i].data)
  BY <1>1 DEF Extents, GoodFiles, Contents
<1>3. FreedInode(f, g, inum, TailBlocks(f, blocks, inum, 0), TailInodes(f, blocks, inum, 0))
  <2>1. FreedInode(f, g, inum, {BlockAt(f, inum, k) : k \in 0 .. BlocksOf(size) - 1},
                   {ChainedInode(f, inum, n) : n \in 0 .. LastInode(BlocksOf(size))})
    BY <1>1, FreeInode, Zenon
  <2> QED
    BY <1>1, <2>1, Zenon DEF TailBlocks, TailInodes
<1> HIDE DEF g, blocks, fewer
<1>4. CutTo(f, g, blocks, inum, 0, 0)
  BY <1>3 DEF FreedInode, CutTo
<1>5. /\ WellFormed(g, fewer)
      /\ \A i \in DOMAIN fewer : SamePlaces(f, g, i, fewer[i])
      /\ \A i \in DOMAIN fewer : i # inum => g.inode[i].size = f.inode[i].size
  <2>1. LeavesBlocks(blocks, fewer, inum, 0, 0)
    BY <1>2 DEF LeavesBlocks
  <2>2. LeavesFiles(f, g, fewer, inum)
    BY <1>1, <1>4, <2>1, CutFile
  <2> QED
    BY <2>2 DEF LeavesFiles
<1>6. g \in FileSystems /\ g.block = f.block
  BY <1>4 DEF CutTo
<1>7. GoodFiles(left)
  BY <1>1, <1>2 DEF GoodFiles
<1>8. ASSUME NEW i \in DOMAIN left
      PROVE  /\ g.inode[i].size = left[i].size
             /\ Len(left[i].data) = BlocksOf(left[i].size)
             /\ Holds(g, i, left[i].data)
  <2>1. /\ i \in DOMAIN c /\ i \in DOMAIN fewer /\ i # inum /\ left[i] = c[i]
        /\ fewer[i] = Len(c[i].data) /\ fewer[i] \in Nat
    BY <1>2
  <2>2. /\ f.inode[i].size = c[i].size /\ Len(c[i].data) = BlocksOf(c[i].size)
        /\ Holds(f, i, c[i].data)
    BY <2>1 DEF FilesOnDisk
  <2>3. Holds(g, i, c[i].data)
    BY <1>5, <1>6, <2>1, <2>2, HoldsStill
  <2> QED
    BY <1>5, <2>1, <2>2, <2>3
<1> HIDE DEF left
<1>9. FilesOnDisk(g, left)
  BY <1>5, <1>6, <1>7, <1>8 DEF FilesOnDisk, fewer
<1> QED
  BY <1>9 DEF g, left

\* The loop of write_file over the blocks behind the new end frees only those,
\* and, of the inodes behind the last one, the first: it has size 0.
LEMMA TailIsFreed ==
  ASSUME NEW w, NEW c, NEW inum, NEW tag, NEW n \in Nat, NEW size \in Nat,
         GoodFiles(c), inum \in DOMAIN c, BlocksOf(size) = Len(c[inum].data),
         LoopInv(w, c, inum, tag, n),
         NEW g, g = put_inode(FreeTail(w, n, size), w.last_inum, w.ino)
  PROVE  CutTo(Written(w), g, Grown(c, inum, n), inum, n, LastInode(n) + 1)
<1> DEFINE h == Written(w)
           G == Grown(c, inum, n)
           d == LastInode(n)
           r == w.real_block_num
           l == w.last_inum
           B == TailBlocks(h, G, inum, n)
           Y == TailInodes(h, G, inum, d + 1)
           Offset(k) == (n + k - r) * BLOCK_SIZE
           tail == {k \in r .. NDIRECT - 1 : Offset(k) < size}
           T == {w.ino.blocks[k] : k \in tail}
           f1 == free_blocks(w.fs, T)
           y == w.ino.blocks[NDIRECT]
           f2 == FreeTail(w, n, size)
<1>1. w \in Locals /\ h \in FileSystems /\ WellFormed(h, G) /\ d \in Nat
  BY LastInodes DEF LoopInv, GoodDisk
<1>2. /\ w.fs \in FileSystems /\ l \in Inums /\ w.ino \in Inodes
      /\ h.used = w.fs.used /\ h.inums = w.fs.inums /\ h.block = w.fs.block
      /\ h.inode[l] = w.ino
      /\ \A i \in Inums : i # l => h.inode[i] = w.fs.inode[i]
  BY <1>1, LocalFields
<1>3. NDIRECT \in Nat \ {0} /\ BLOCK_SIZE \in Nat \ {0}
  BY ParametersAssumption
<1>4. r \in 0 .. NDIRECT /\ r = n - d * NDIRECT /\ l = ChainedInode(h, inum, d)
  BY <1>1, LocalFields DEF LoopInv
<1>5. GrownBy(G, c, inum, n)
  BY GrownFiles, Zenon
<1>6. inum \in DOMAIN G /\ G[inum] \in Nat /\ LastInode(G[inum]) \in Nat
  <2> HIDE DEF G
  <2> QED
    BY <1>5, LastInodes DEF GrownBy
\* A block behind the new end and in front of the old one.
<1>7. ASSUME NEW k \in r .. NDIRECT, Offset(k) < size
      PROVE  /\ n + k - r = NDIRECT * d + k
             /\ n + k - r \in n .. G[inum] - 1
  <2> DEFINE K == n + k - r
  <2>1. K \in Nat /\ K >= n
    BY <1>4
  <2>2. K = NDIRECT * d + k
    <3>1. NDIRECT * d = d * NDIRECT /\ d * NDIRECT \in Nat
      BY <1>1, <1>3
    <3> HIDE DEF d
    <3> QED
      BY <1>4, <3>1
  <2> HIDE DEF K
  <2>3. ~ (size <= K * BLOCK_SIZE)
    <3>1. K * BLOCK_SIZE \in Nat
      BY <1>3, <2>1
    <3> QED
      BY <1>7, <3>1 DEF K
  <2>4. ~ (BlocksOf(size) <= K) /\ BlocksOf(size) \in Nat
    BY <2>1, <2>3, BlocksOfSize
  <2>5. G[inum] >= Len(c[inum].data)
    <3> HIDE DEF G
    <3> QED
      BY <1>5 DEF GrownBy
  <2>6. K \in n .. G[inum] - 1
    <3> HIDE DEF G
    <3> QED
      BY <1>6, <2>1, <2>4, <2>5
  <2> QED
    BY <2>2, <2>6 DEF K
<1> HIDE DEF G, d, r, h
<1>8. T \subseteq B
  <2>1. SUFFICES ASSUME NEW k \in r .. NDIRECT - 1, Offset(k) < size
                 PROVE  w.ino.blocks[k] \in B
    OBVIOUS
  <2> DEFINE K == n + k - r
  <2>2. K = NDIRECT * d + k /\ K \in n .. G[inum] - 1
    <3>1. k \in r .. NDIRECT
      BY <1>3, <1>4
    <3> QED
      BY <1>7, <2>1, <3>1
  <2> HIDE DEF K
  <2>3. k \in 0 .. NDIRECT - 1
    BY <1>3, <1>4
  <2>4. K \div NDIRECT = d /\ K % NDIRECT = k
    BY <1>1, <1>3, <2>2, <2>3, DivisionIsUnique
  <2>5. BlockAt(h, inum, K) = h.inode[l].blocks[k]
    BY <1>4, <2>4, Zenon DEF BlockAt
  <2> QED
    BY <1>2, <2>2, <2>5 DEF TailBlocks
<1>9. /\ f1 \in FileSystems /\ f1.used = w.fs.used \ T /\ f1.inums = w.fs.inums
      /\ f1.inode = w.fs.inode /\ f1.block = w.fs.block
  <2> DEFINE f == w.fs
             U == f.used \ T
  <2>1. f1 = [f EXCEPT !.used = U]
    BY Zenon DEF free_blocks
  <2> HIDE DEF f, f1, T
  <2>2. U \in SUBSET Blocks /\ f \in FileSystems
    <3>1. f \in FileSystems
      BY <1>2 DEF f
    <3> QED
      BY <3>1, FieldTypes
  <2> HIDE DEF U
  <2>3. f1 \in FileSystems /\ f1.used = U /\ f1.inums = f.inums
        /\ f1.inode = f.inode /\ f1.block = f.block
    BY <2>1, <2>2, SMT DEF FileSystems
  <2> QED
    BY <2>3 DEF U, f
<1>10. f2 = IF Offset(NDIRECT) < size THEN free_inode(f1, y) ELSE f1
  BY Zenon DEF FreeTail, r
<1> HIDE DEF B, Y, T, f1, f2, l, y
<1>11. /\ f2 \in FileSystems /\ f2.block = w.fs.block
       /\ w.fs.used \ B \subseteq f2.used /\ w.fs.inums \ Y \subseteq f2.inums
       /\ \A i \in Inums \ Y : f2.inode[i] = w.fs.inode[i]
  <2>1. CASE ~ (Offset(NDIRECT) < size)
    <3>1. f2 = f1
      BY <1>10, <2>1
    <3> QED
      BY <1>8, <1>9, <3>1
  <2>2. CASE Offset(NDIRECT) < size
    <3> DEFINE K == n + NDIRECT - r
    <3>1. K = NDIRECT * d + NDIRECT /\ K \in n .. G[inum] - 1
      <4>1. NDIRECT \in r .. NDIRECT
        BY <1>3, <1>4
      <4> QED
        BY <1>7, <2>2, <4>1
    <3>2. K = NDIRECT * (d + 1) + 0 /\ d + 1 \in Nat /\ 0 \in 0 .. NDIRECT - 1
      BY <1>1, <1>3, <3>1
    <3> HIDE DEF K
    <3>3. K \div NDIRECT = d + 1
      BY <1>3, <3>2, DivisionIsUnique
    <3>4. d + 1 \in 0 .. LastInode(G[inum]) /\ d \in 0 .. LastInode(G[inum]) /\ d + 1 > 0
      <4>1. K \in 0 .. G[inum] - 1
        BY <3>1
      <4>2. K \div NDIRECT \in 0 .. LastInode(G[inum])
        BY <1>6, <4>1, LastInodes
      <4> QED
        BY <1>1, <1>6, <3>3, <4>2
    <3>5. y = ChainedInode(h, inum, d + 1)
      <4>1. FollowsPointers(h, inum)
        BY ChainStep, Zenon
      <4>2. ChainedInode(h, inum, d + 1) = h.inode[l].blocks[NDIRECT]
        BY <1>1, <1>4, <4>1, Zenon DEF FollowsPointers
      <4> QED
        BY <1>2, <4>2 DEF y
    <3>6. y \in Inums /\ y \in Y /\ y # l /\ h.inode[y].size = 0
      <4>1. y \in Inums
        BY <1>1, <1>6, <3>4, <3>5, ChainOnDisk
      <4>2. h.inode[y].size = 0
        BY <1>1, <1>6, <3>4, <3>5 DEF WellFormed, ChainsTaken
      <4>3. ChainsApart(h, G) /\ d + 1 # d
        BY <1>1 DEF WellFormed
      <4>4. y # l
        BY <1>4, <1>6, <3>4, <3>5, <4>3 DEF ChainsApart
      <4>5. d + 1 \in d + 1 .. LastInode(G[inum])
        BY <1>1, <3>4
      <4>6. y \in Y
        BY <3>5, <4>5 DEF Y, TailInodes
      <4> QED
        BY <4>1, <4>2, <4>4, <4>6
    <3>7. f1.inode[y].size = 0
      BY <1>2, <1>9, <3>6
    <3>8. BlocksOf(f1.inode[y].size) = 0 /\ LastInode(BlocksOf(f1.inode[y].size)) = 0
      BY <3>7, BlocksOfSize DEF LastInode
    <3>9. ChainedInode(f1, y, 0) = y
      BY ChainStep DEF FollowsPointers
    <3>10. FreedInode(f1, f2, y, {}, {y})
      <4> DEFINE b == BlocksOf(f1.inode[y].size)
                 B0 == {BlockAt(f1, y, k) : k \in 0 .. b - 1}
                 Y0 == {ChainedInode(f1, y, m) : m \in 0 .. LastInode(b)}
      <4>1. FreedInode(f1, free_inode(f1, y), y, B0, Y0)
        BY <1>9, <3>6, FreeInode, Zenon
      <4>2. f2 = free_inode(f1, y)
        BY <1>10, <2>2
      <4>3. b = 0 /\ LastInode(b) = 0
        BY <3>8
      <4> HIDE DEF b
      <4>4. B0 = {} /\ Y0 = {y}
        BY <3>9, <4>3
      <4> QED
        BY <4>1, <4>2, <4>4
    <3>11. /\ f2 \in FileSystems /\ f2.block = f1.block /\ f2.used = f1.used
           /\ f2.inums = f1.inums \ {y}
           /\ \A i \in Inums \ {y} : f2.inode[i] = f1.inode[i]
      BY <3>10 DEF FreedInode
    <3> QED
      BY <1>8, <1>9, <3>6, <3>11
  <2> QED
    BY <2>1, <2>2
<1>12. /\ g \in FileSystems /\ g.used = f2.used /\ g.inums = f2.inums /\ g.block = f2.block
       /\ g.inode[l] = w.ino
       /\ \A i \in Inums : i # l => g.inode[i] = f2.inode[i]
  <2>1. g = put_inode(f2, l, w.ino)
    BY DEF f2, l
  <2> QED
    BY <1>2, <1>11, <2>1, PutInode
<1>13. \A i \in Inums \ Y : g.inode[i] = h.inode[i]
  BY <1>2, <1>11, <1>12
<1>14. CutTo(h, g, G, inum, n, d + 1)
  BY <1>2, <1>11, <1>12, <1>13 DEF CutTo, B, Y
<1> QED
  BY <1>14 DEF h, G, d

\* What a write puts into a file.
HasContent(x, tag, size) ==
  /\ x \in Contents /\ x.size = size /\ Len(x.data) = BlocksOf(size)
  /\ \A k \in 0 .. BlocksOf(size) - 1 : x.data[k + 1] = << tag, k >>

LEMMA ContentOf ==
  ASSUME NEW tag \in Nat, NEW size \in Nat
  PROVE  HasContent(Content(tag, size), tag, size)
<1> DEFINE n == BlocksOf(size)
           data == [k \in 1 .. n |-> << tag, k - 1 >>]
<1>1. n \in Nat
  BY BlocksOfSize
<1>2. Content(tag, size) = [size |-> size, data |-> data]
  BY Zenon DEF Content
<1> HIDE DEF n
<1>3. data \in Seq(Nat \X Nat) /\ Len(data) = n
  BY <1>1
<1>4. \A k \in 0 .. n - 1 : data[k + 1] = << tag, k >>
  BY <1>1
<1> HIDE DEF data
<1>5. [size |-> size, data |-> data] \in Contents
  BY <1>3 DEF Contents
<1> QED
  BY <1>2, <1>3, <1>4, <1>5 DEF HasContent, n

\* write_file, unless it dies: the file has its new content, and the others
\* stay.
LEMMA Writes ==
  ASSUME NEW f, NEW c, NEW inum \in DOMAIN c, NEW tag \in Nat, NEW size \in Nat,
         FilesOnDisk(f, c), NEW g, g = write_file(f, inum, tag, size),
         WriteBlocks(f, inum, tag, BlocksOf(size)).alive
  PROVE  FilesOnDisk(g, [c EXCEPT ![inum] = Content(tag, size)])
<1> DEFINE n == BlocksOf(size)
           w == WriteBlocks(f, inum, tag, n)
           old == f.inode[inum].size
           g1 == put_inode(FreeTail(w, n, old), w.last_inum, w.ino)
           ino == [g1.inode[inum] EXCEPT !.size = size]
           h == Written(w)
           G == Grown(c, inum, n)
           d == LastInode(n)
           new == [c EXCEPT ![inum] = Content(tag, size)]
           fewer == Extents(new)
<1>1. n \in Nat /\ d \in Nat
  BY BlocksOfSize, LastInodes
<1>2. f \in FileSystems /\ GoodFiles(c) /\ inum \in Inums
  BY DEF FilesOnDisk, GoodFiles
<1>3. old \in Nat /\ BlocksOf(old) = Len(c[inum].data)
  <2>1. old \in Nat
    BY <1>2, FieldTypes, InodeFields
  <2>2. old = c[inum].size /\ Len(c[inum].data) = BlocksOf(c[inum].size)
    BY DEF FilesOnDisk
  <2> QED
    BY <2>1, <2>2
<1>4. w.alive /\ g = put_inode(g1, inum, ino)
  BY Zenon DEF write_file
<1>5. LoopInv(w, c, inum, tag, n)
  <2>1. LoopInv(WriteStart(f, inum), c, inum, tag, 0)
    BY LoopBegins, Zenon
  <2> HIDE DEF n
  <2> QED
    BY <1>1, <1>2, <1>3, <1>4, <2>1, Loop, Zenon
<1> HIDE DEF n, w, old
<1>6. CutTo(h, g1, G, inum, n, d + 1)
  BY <1>1, <1>2, <1>3, <1>5, TailIsFreed, Zenon
<1>7. GoodDisk(h, c, inum, tag, n)
  BY <1>5 DEF LoopInv
<1> HIDE DEF h, g1, d
<1>8. h \in FileSystems /\ WellFormed(h, G)
  BY <1>7 DEF GoodDisk
<1>9. GrownBy(G, c, inum, n)
  BY <1>1, <1>2, GrownFiles, Zenon
<1> HIDE DEF G
<1>10. /\ g \in FileSystems /\ g.used = g1.used /\ g.inums = g1.inums /\ g.block = g1.block
       /\ g.inode[inum].size = size /\ g.inode[inum].blocks = g1.inode[inum].blocks
       /\ \A i \in Inums : i # inum => g.inode[i] = g1.inode[i]
  <2>1. g1 \in FileSystems
    BY <1>6 DEF CutTo
  <2>2. g1.inode[inum] \in Inodes
    BY <1>2, <2>1, FieldTypes
  <2>3. ino \in Inodes /\ ino.size = size /\ ino.blocks = g1.inode[inum].blocks
    BY <2>2, SizeOfInode
  <2> HIDE DEF ino
  <2> QED
    BY <1>2, <1>4, <2>1, <2>3, PutInode
<1> HIDE DEF ino
<1>11. CutTo(h, g, G, inum, n, d + 1)
  BY <1>6, <1>10 DEF CutTo
<1>12. HasContent(Content(tag, size), tag, size)
  BY ContentOf, Zenon
<1> DEFINE x == Content(tag, size)
<1>13. /\ DOMAIN new = DOMAIN c /\ new[inum] = x
       /\ \A i \in DOMAIN c : i # inum => new[i] = c[i]
  BY Zenon
<1> HIDE DEF x, new
<1>14. /\ x \in Contents /\ x.size = size /\ Len(x.data) = n
       /\ \A k \in 0 .. n - 1 : x.data[k + 1] = << tag, k >>
  BY <1>12 DEF HasContent, x, n
<1>15. /\ DOMAIN fewer = DOMAIN c /\ fewer[inum] = n
       /\ \A i \in DOMAIN c : i # inum => fewer[i] = Len(c[i].data)
  BY <1>13, <1>14 DEF Extents
<1> HIDE DEF fewer
<1>16. LeavesFiles(h, g, fewer, inum)
  <2>1. LeavesBlocks(G, fewer, inum, n, d + 1)
    BY <1>1, <1>9, <1>15 DEF GrownBy, LeavesBlocks, d
  <2> QED
    BY <1>8, <1>11, <2>1, CutFile
<1>17. /\ WellFormed(g, fewer)
       /\ \A i \in DOMAIN c : SamePlaces(h, g, i, fewer[i])
       /\ \A i \in DOMAIN c : i # inum => g.inode[i].size = h.inode[i].size
  BY <1>15, <1>16 DEF LeavesFiles
<1>18. g.block = h.block
  BY <1>11 DEF CutTo
<1>19. ASSUME NEW i \in DOMAIN new
       PROVE  /\ g.inode[i].size = new[i].size
              /\ Len(new[i].data) = BlocksOf(new[i].size)
              /\ Holds(g, i, new[i].data)
  <2>1. CASE i = inum
    <3>1. SUFFICES ASSUME NEW k \in 0 .. n - 1, BlockAt(g, inum, k) # NoBlock
                   PROVE  g.block[BlockAt(g, inum, k)] = x.data[k + 1]
      BY <1>10, <1>13, <1>14, <2>1 DEF Holds, n
    <3>2. BlockAt(g, inum, k) = BlockAt(h, inum, k)
      BY <1>15, <1>17, Zenon DEF SamePlaces
    <3>3. h.block[BlockAt(h, inum, k)] = << tag, k >>
      BY <1>7, <3>1, <3>2, Zenon DEF GoodDisk
    <3> QED
      BY <1>14, <1>18, <3>2, <3>3, Zenon
  <2>2. CASE i # inum
    <3>1. i \in DOMAIN c /\ new[i] = c[i] /\ fewer[i] = Len(c[i].data)
      BY <1>13, <1>15, <2>2
    <3>2. h.inode[i].size = c[i].size /\ Holds(h, i, c[i].data)
      BY <1>7, <2>2, <3>1 DEF GoodDisk
    <3>3. Len(c[i].data) = BlocksOf(c[i].size)
      BY <3>1 DEF FilesOnDisk
    <3>4. Len(c[i].data) \in Nat
      BY <1>2, <3>1 DEF GoodFiles, Contents
    <3>5. SamePlaces(h, g, i, Len(c[i].data))
      BY <1>17, <3>1
    <3>6. Holds(g, i, c[i].data)
      BY <1>18, <3>2, <3>4, <3>5, HoldsStill
    <3> QED
      BY <1>17, <2>2, <3>1, <3>2, <3>3, <3>6
  <2> QED
    BY <2>1, <2>2
<1>20. GoodFiles(new)
  BY <1>2, <1>13, <1>14 DEF GoodFiles
<1>21. FilesOnDisk(g, new)
  BY <1>10, <1>17, <1>19, <1>20 DEF FilesOnDisk, fewer
<1> QED
  BY <1>21 DEF new

\* When it dies, the files are gone.
LEMMA WritesOrDies ==
  ASSUME NEW f, NEW c, NEW inum \in DOMAIN c, NEW tag \in Nat, NEW size \in Nat,
         FilesOnDisk(f, c), NEW g, g = write_file(f, inum, tag, size)
  PROVE  /\ g \in FileSystems
         /\ g.alive => FilesOnDisk(g, [c EXCEPT ![inum] = Content(tag, size)])
<1>1. f \in FileSystems
  BY DEF FilesOnDisk
<1>2. CASE WriteBlocks(f, inum, tag, BlocksOf(size)).alive
  <2>1. FilesOnDisk(g, [c EXCEPT ![inum] = Content(tag, size)])
    BY <1>2, Writes
  <2> QED
    BY <2>1 DEF FilesOnDisk
<1>3. CASE ~ WriteBlocks(f, inum, tag, BlocksOf(size)).alive
  <2>1. g = [f EXCEPT !.alive = FALSE]
    BY <1>3, Zenon DEF write_file
  <2>2. ~ g.alive
    BY <1>1, <2>1 DEF FileSystems
  <2> QED
    BY <1>1, <2>1, <2>2, AliveChanges
<1> QED
  BY <1>2, <1>3

(***************************************************************************)
(* Files that are made                                                     *)
(***************************************************************************)

\* A disk on which nothing of the files was touched has them still.
LEMMA NothingTaken ==
  ASSUME NEW f, NEW g \in FileSystems, NEW c, FilesOnDisk(f, c),
         f.inums \subseteq g.inums, f.used \subseteq g.used,
         \A b \in Blocks : g.block[b] = f.block[b],
         \A y \in f.inums : g.inode[y] = f.inode[y]
  PROVE  /\ FilesOnDisk(g, c)
         /\ \A i \in DOMAIN c : \A m \in 0 .. LastInode(Extents(c)[i]) :
              ChainedInode(g, i, m) \in f.inums
<1> DEFINE blocks == Extents(c)
<1>1. f \in FileSystems /\ GoodFiles(c) /\ WellFormed(f, blocks)
  BY DEF FilesOnDisk
<1>2. /\ DOMAIN blocks = DOMAIN c
      /\ \A i \in DOMAIN c : /\ blocks[i] = Len(c[i].data) /\ blocks[i] \in Nat
                            /\ LastInode(blocks[i]) \in Nat
  <2>1. /\ DOMAIN blocks = DOMAIN c
        /\ \A i \in DOMAIN c : blocks[i] = Len(c[i].data) /\ blocks[i] \in Nat
    BY <1>1 DEF Extents, GoodFiles, Contents
  <2> QED
    BY <2>1, LastInodes
<1> HIDE DEF blocks
<1>3. ASSUME NEW i \in DOMAIN c, NEW m \in 0 .. LastInode(blocks[i])
      PROVE  /\ ChainedInode(f, i, m) \in f.inums
             /\ m > 0 => f.inode[ChainedInode(f, i, m)].size = 0
  BY <1>1, <1>2 DEF WellFormed, ChainsTaken
<1>4. ASSUME NEW i \in DOMAIN c
      PROVE  SamePlaces(f, g, i, blocks[i])
  <2>1. \A m \in Nat : m < LastInode(blocks[i]) =>
          g.inode[ChainedInode(f, i, m)].blocks[NDIRECT] =
            f.inode[ChainedInode(f, i, m)].blocks[NDIRECT]
    BY <1>2, <1>3
  <2>2. ASSUME NEW k \in 0 .. blocks[i] - 1
        PROVE  g.inode[ChainedInode(f, i, k \div NDIRECT)].blocks[k % NDIRECT] =
                 BlockAt(f, i, k)
    <3>1. k \div NDIRECT \in 0 .. LastInode(blocks[i])
      BY <1>2, LastInodes
    <3> QED
      BY <1>3, <3>1 DEF BlockAt
  <2> QED
    BY <1>2, <2>1, <2>2, SameInodes
<1>5. ASSUME NEW i \in DOMAIN c, NEW m \in 0 .. LastInode(blocks[i])
      PROVE  /\ ChainedInode(f, i, m) \in g.inums
             /\ m > 0 => g.inode[ChainedInode(f, i, m)].size = 0
  BY <1>3
<1>6. \A i \in DOMAIN c : \A k \in 0 .. blocks[i] - 1 : BlockAt(f, i, k) \in f.used \cup {NoBlock}
  <2>1. BlocksTaken(f, blocks)
    BY <1>1 DEF WellFormed
  <2> QED
    BY <1>2, <2>1 DEF BlocksTaken
<1>7. WellFormed(g, blocks)
  <2>1. \A i \in DOMAIN c : blocks[i] <= blocks[i]
    BY <1>2
  <2> QED
    BY <1>1, <1>2, <1>4, <1>5, <1>6, <2>1, StaysWellFormed
<1>8. ASSUME NEW i \in DOMAIN c
      PROVE  /\ g.inode[i].size = c[i].size
             /\ Len(c[i].data) = BlocksOf(c[i].size)
             /\ Holds(g, i, c[i].data)
  <2>1. /\ f.inode[i].size = c[i].size /\ Len(c[i].data) = BlocksOf(c[i].size)
        /\ Holds(f, i, c[i].data)
    BY DEF FilesOnDisk
  <2>2. ChainedInode(f, i, 0) = i /\ 0 \in 0 .. LastInode(blocks[i])
    BY <1>2, ChainStep DEF FollowsPointers
  <2>3. i \in f.inums
    BY <1>3, <2>2
  <2>4. Holds(g, i, c[i].data)
    <3>1. SUFFICES ASSUME NEW k \in 0 .. blocks[i] - 1, BlockAt(g, i, k) # NoBlock
                   PROVE  g.block[BlockAt(g, i, k)] = c[i].data[k + 1]
      BY <1>2 DEF Holds
    <3>2. BlockAt(g, i, k) = BlockAt(f, i, k)
      BY <1>4, Zenon DEF SamePlaces
    <3>3. BlockAt(f, i, k) \in f.used
      BY <1>6, <3>1, <3>2
    <3>4. f.block[BlockAt(f, i, k)] = c[i].data[k + 1]
      BY <1>2, <2>1, <3>1, <3>2, Zenon DEF Holds
    <3>5. BlockAt(f, i, k) \in Blocks
      BY <1>1, <3>3, FieldTypes
    <3> QED
      BY <3>2, <3>4, <3>5
  <2> QED
    BY <2>1, <2>3, <2>4
<1>9. FilesOnDisk(g, c)
  BY <1>1, <1>7, <1>8 DEF FilesOnDisk, blocks
<1>10. ASSUME NEW i \in DOMAIN c, NEW m \in 0 .. LastInode(blocks[i])
       PROVE  ChainedInode(g, i, m) \in f.inums
  BY <1>3, <1>4 DEF SamePlaces
<1> QED
  BY <1>9, <1>10 DEF blocks

\* The files new are the files c and the empty ones with the inodes X, where
\* X has at most one element.
AddsFile(c, new, X) ==
  /\ DOMAIN new = DOMAIN c \cup X
  /\ \A i \in DOMAIN c : new[i] = c[i]
  /\ \A i \in X : new[i] = Content(0, 0)
  /\ \A i, j \in X : i = j

LEMMA NewFile ==
  ASSUME NEW g, NEW c, NEW new, NEW X, FilesOnDisk(g, c), AddsFile(c, new, X),
         \A x \in X :
           /\ x \in g.inums /\ g.inode[x].size = 0
           /\ \A i \in DOMAIN c : \A m \in 0 .. LastInode(Extents(c)[i]) :
                ChainedInode(g, i, m) # x
  PROVE  FilesOnDisk(g, new)
<1> DEFINE blocks == Extents(c)
           more == Extents(new)
<1>1. g \in FileSystems /\ GoodFiles(c) /\ WellFormed(g, blocks)
  BY DEF FilesOnDisk
<1>2. /\ DOMAIN new = DOMAIN c \cup X
      /\ \A i \in DOMAIN c : new[i] = c[i]
      /\ \A i \in X : new[i] = Content(0, 0)
      /\ \A i, j \in X : i = j
  BY DEF AddsFile
<1>3. /\ Content(0, 0) \in Contents /\ Content(0, 0).size = 0
      /\ BlocksOf(0) = 0 /\ Len(Content(0, 0).data) = 0
  <2>1. BlocksOf(0) = 0
    BY BlocksOfSize
  <2>2. HasContent(Content(0, 0), 0, 0)
    <3>1. 0 \in Nat
      OBVIOUS
    <3> QED
      BY <3>1, ContentOf, Zenon
  <2> QED
    BY <2>1, <2>2 DEF HasContent
<1>4. X \subseteq Inums
  BY <1>1, FieldTypes
<1>5. GoodFiles(new)
  BY <1>1, <1>2, <1>3, <1>4 DEF GoodFiles
<1>6. /\ DOMAIN more = DOMAIN c \cup X /\ DOMAIN blocks = DOMAIN c
      /\ \A i \in DOMAIN c : more[i] = blocks[i]
      /\ \A i \in X : more[i] = 0
  BY <1>2, <1>3 DEF Extents
<1>7. \A x \in X : \A i \in DOMAIN c : \A m \in 0 .. LastInode(blocks[i]) :
        ChainedInode(g, i, m) # x
  OBVIOUS
<1> HIDE DEF blocks, more
<1>8. LastInode(0) = 0 /\ \A i : ChainedInode(g, i, 0) = i
  BY ChainStep DEF FollowsPointers, LastInode
\* The new file has one inode and no block.
<1>9. ASSUME NEW i \in X
      PROVE  /\ \A m \in 0 .. LastInode(more[i]) : m = 0 /\ ChainedInode(g, i, m) = i
             /\ \A k \in 0 .. more[i] - 1 : FALSE
  BY <1>6, <1>8
<1>10. ChainsTaken(g, more)
  <2>1. ASSUME NEW i \in DOMAIN more, NEW m \in 0 .. LastInode(more[i])
        PROVE  /\ ChainedInode(g, i, m) \in g.inums
               /\ m > 0 => /\ ChainedInode(g, i, m) \in InRange
                           /\ g.inode[ChainedInode(g, i, m)].size = 0
    <3>1. CASE i \in DOMAIN c
      BY <1>1, <1>6, <3>1 DEF WellFormed, ChainsTaken
    <3>2. CASE i \in X
      BY <1>9, <3>2
    <3> QED
      BY <1>6, <3>1, <3>2
  <2> QED
    BY <2>1 DEF ChainsTaken
<1>11. ChainsApart(g, more)
  <2>1. SUFFICES ASSUME NEW i \in DOMAIN more, NEW j \in DOMAIN more,
                        NEW m \in 0 .. LastInode(more[i]), NEW l \in 0 .. LastInode(more[j]),
                        ChainedInode(g, i, m) = ChainedInode(g, j, l)
                 PROVE  i = j /\ m = l
    BY DEF ChainsApart
  <2>2. CASE i \in DOMAIN c /\ j \in DOMAIN c
    <3>1. ChainsApart(g, blocks)
      BY <1>1 DEF WellFormed
    <3> QED
      BY <1>6, <2>1, <2>2, <3>1 DEF ChainsApart
  <2>3. CASE i \in X /\ j \in X
    BY <1>2, <1>9, <2>3
  <2>4. CASE i \in X /\ j \in DOMAIN c
    BY <1>6, <1>7, <1>9, <2>1, <2>4
  <2>5. CASE i \in DOMAIN c /\ j \in X
    BY <1>6, <1>7, <1>9, <2>1, <2>5
  <2> QED
    BY <1>6, <2>2, <2>3, <2>4, <2>5
<1>12. BlocksTaken(g, more)
  <2>1. BlocksTaken(g, blocks)
    BY <1>1 DEF WellFormed
  <2> QED
    BY <1>6, <1>9, <2>1, Zenon DEF BlocksTaken
<1>13. BlocksApart(g, more)
  <2>1. BlocksApart(g, blocks)
    BY <1>1 DEF WellFormed
  <2>2. SUFFICES ASSUME NEW i \in DOMAIN more, NEW j \in DOMAIN more,
                        NEW k \in 0 .. more[i] - 1, NEW l \in 0 .. more[j] - 1,
                        BlockAt(g, i, k) = BlockAt(g, j, l), BlockAt(g, i, k) # NoBlock
                 PROVE  i = j /\ k = l
    BY DEF BlocksApart
  <2>3. i \in DOMAIN c /\ j \in DOMAIN c
    BY <1>6, <1>9
  <2> QED
    BY <1>6, <2>1, <2>2, <2>3 DEF BlocksApart
<1>14. WellFormed(g, more)
  BY <1>10, <1>11, <1>12, <1>13 DEF WellFormed
<1>15. ASSUME NEW i \in DOMAIN new
       PROVE  /\ g.inode[i].size = new[i].size
              /\ Len(new[i].data) = BlocksOf(new[i].size)
              /\ Holds(g, i, new[i].data)
  <2>1. CASE i \in DOMAIN c
    BY <1>2, <2>1 DEF FilesOnDisk
  <2>2. CASE i \in X
    BY <1>2, <1>3, <2>2 DEF Holds
  <2> QED
    BY <1>2, <2>1, <2>2
<1> QED
  BY <1>1, <1>5, <1>14, <1>15 DEF FilesOnDisk, more

\* alloc_inode adds an empty file, if there is an inode for it.
LEMMA Creates ==
  ASSUME NEW f, NEW c, FilesOnDisk(f, c), NEW r, r = alloc_inode(f),
         NEW new, AddsFile(c, new, {r.inum} \ {NoInode})
  PROVE  FilesOnDisk(r.fs, new)
<1> DEFINE g == r.fs
           x == r.inum
<1>1. f \in FileSystems /\ GoodFiles(c) /\ WellFormed(f, Extents(c))
  BY DEF FilesOnDisk
<1>2. GotInode(f, r)
  BY <1>1, AllocInode
<1>3. /\ g \in FileSystems /\ f.used \subseteq g.used
      /\ \A b \in Blocks : g.block[b] = f.block[b]
      /\ x \in Inums \cup {NoInode}
      /\ x = NoInode => g.inums = f.inums /\ g.inode = f.inode
      /\ x # NoInode =>
           /\ x \notin f.inums /\ g.inums = f.inums \cup {x} /\ g.inode[x].size = 0
           /\ \A i \in Inums : i # x => g.inode[i] = f.inode[i]
  BY <1>2 DEF GotInode
<1> HIDE DEF g, x
<1>4. f.inums \subseteq Inums
  BY <1>1, FieldTypes
<1>5. /\ FilesOnDisk(g, c)
      /\ \A i \in DOMAIN c : \A m \in 0 .. LastInode(Extents(c)[i]) :
           ChainedInode(g, i, m) \in f.inums
  <2>1. f.inums \subseteq g.inums
    BY <1>3
  <2>2. \A y \in f.inums : g.inode[y] = f.inode[y]
    BY <1>3, <1>4
  <2> QED
    BY <1>3, <2>1, <2>2, NothingTaken
<1>6. ASSUME x # NoInode
      PROVE  /\ x \in g.inums /\ g.inode[x].size = 0
             /\ \A i \in DOMAIN c : \A m \in 0 .. LastInode(Extents(c)[i]) :
                  ChainedInode(g, i, m) # x
  BY <1>3, <1>5, <1>6
<1> QED
  BY <1>5, <1>6, NewFile DEF g, x

(***************************************************************************)
(* The invariant                                                           *)
(***************************************************************************)

LEMMA InvariantOnDisk == IInv <=> FilesOnDisk(fs, files) /\ calls \in 0 .. MaxCalls
  BY Zenon DEF IInv, TypeOK, FilesOnDisk, GoodFiles

\* A server that has died has no files.
LEMMA NoFilesOnDisk ==
  ASSUME NEW f \in FileSystems, NEW c, DOMAIN c = {}
  PROVE  FilesOnDisk(f, c)
<1>1. GoodFiles(c) /\ DOMAIN Extents(c) = {}
  BY DEF GoodFiles, Extents
<1>2. WellFormed(f, Extents(c))
  BY <1>1 DEF WellFormed, ChainsTaken, ChainsApart, BlocksTaken, BlocksApart
<1> QED
  BY <1>1, <1>2 DEF FilesOnDisk

LEMMA InitIInv == Init => IInv
<1>1. SUFFICES ASSUME Init PROVE IInv
  OBVIOUS
<1> DEFINE list == [k \in 0 .. NDIRECT |-> NoBlock]
           empty == [type |-> "none", size |-> 0, blocks |-> list]
           f == [used |-> {}, inums |-> {},
                 inode |-> [i \in Inums |-> empty],
                 block |-> [b \in Blocks \cup {NoBlock} |-> << 0, 0 >>],
                 alive |-> TRUE]
           r == alloc_inode(f)
           c == [i \in {} |-> Content(0, 0)]
<1>2. fs = r.fs /\ files = [i \in {r.inum} |-> Content(0, 0)] /\ calls = 0
  BY <1>1, Zenon DEF Init
<1>3. list \in BlockLists
  BY ParametersAssumption DEF BlockLists, NoBlock, NoInode
<1> HIDE DEF list
<1>4. empty \in Inodes
  BY <1>3 DEF Inodes
<1> HIDE DEF empty
<1>5. f \in FileSystems
  BY <1>4 DEF FileSystems
<1>6. r.inum \in Inums
  <2> DEFINE free == FreeInums(f)
  <2>1. free = Inums /\ 1 \in Inums /\ free \in SUBSET Nat
    <3>1. Taken(f) = {}
      BY DEF Taken
    <3> HIDE DEF f
    <3>2. \A i \in Inums : NotCheck(Taken(f), IBLOCK(i))
      BY <3>1 DEF NotCheck
    <3> QED  BY <3>2, ParametersAssumption DEF Inums, FreeInums
  <2>2. free # {}
    BY <2>1
  <2>3. Min(free) \in free
    <3> HIDE DEF free
    <3> QED
      BY <2>1, <2>2, MinIsLeast
  <2>4. r.inum = Min(free)
    <3> HIDE DEF f
    <3> QED
      BY <2>2 DEF alloc_inode
  <2> QED
    BY <2>1, <2>3, <2>4
<1> HIDE DEF f
<1>7. FilesOnDisk(f, c)
  BY <1>5, NoFilesOnDisk
<1>8. r.inum # NoInode
  BY <1>6 DEF Inums, NoInode
<1>9. AddsFile(c, files, {r.inum} \ {NoInode})
  BY <1>2, <1>8 DEF AddsFile
<1>10. FilesOnDisk(fs, files)
  BY <1>2, <1>7, <1>9, Creates
<1> QED
  BY <1>2, <1>10, InvariantOnDisk, ParametersAssumption

LEMMA CreateIInv ==
  ASSUME IInv, create
  PROVE  FilesOnDisk(fs', files')
<1> DEFINE r == alloc_inode(fs)
<1>1. FilesOnDisk(fs, files)
  BY InvariantOnDisk
<1>2. /\ fs' = r.fs
      /\ files' = [i \in DOMAIN files \cup ({r.inum} \ {NoInode}) |->
                     IF i = r.inum THEN Content(0, 0) ELSE files[i]]
  BY Zenon DEF create
<1>3. r.inum \notin DOMAIN files
  <2>1. GotInode(fs, r)
    BY <1>1, AllocInode DEF FilesOnDisk
  <2>2. ASSUME NEW i \in DOMAIN files
        PROVE  i \in fs.inums
    <3>1. Extents(files)[i] \in Nat
      BY <1>1 DEF FilesOnDisk, GoodFiles, Contents, Extents
    <3>2. 0 \in 0 .. LastInode(Extents(files)[i])
      BY <3>1, LastInodes, SMTT(30)
    <3>3. ChainedInode(fs, i, 0) = i
      BY ChainStep DEF FollowsPointers
    <3>4. i \in DOMAIN Extents(files) /\ ChainsTaken(fs, Extents(files))
      BY <1>1 DEF FilesOnDisk, WellFormed, Extents
    <3> QED
      BY <3>2, <3>3, <3>4, Zenon DEF ChainsTaken
  <2>3. NoInode \notin DOMAIN files
    BY <1>1 DEF FilesOnDisk, GoodFiles, Inums, NoInode
  <2> HIDE DEF r
  <2> QED
    BY <2>1, <2>2, <2>3 DEF GotInode
<1> HIDE DEF r
<1>4. AddsFile(files, files', {r.inum} \ {NoInode})
  BY <1>2, <1>3 DEF AddsFile
<1> QED
  BY <1>1, <1>2, <1>4, Creates DEF r

LEMMA PutIInv ==
  ASSUME IInv, NEW inum \in DOMAIN files, NEW size \in Sizes, put(inum, size)
  PROVE  FilesOnDisk(fs', files')
<1>1. FilesOnDisk(fs, files) /\ fs \in FileSystems
  BY InvariantOnDisk DEF FilesOnDisk
<1>2. calls' \in Nat /\ size \in Nat
  BY InvariantOnDisk, ParametersAssumption DEF put, Call
<1>3. /\ fs'.alive => files' = [files EXCEPT ![inum] = Content(calls', size)]
      /\ ~ fs'.alive => files' = NoFiles
  BY Zenon DEF put
<1>4. DOMAIN NoFiles = {}
  BY DEF NoFiles
<1>5. fs' \in FileSystems
  <2>1. CASE inum \in InRange
    <3>1. fs' = write_file(fs, inum, calls', size)
      BY <2>1, Zenon DEF put
    <3> QED
      BY <1>1, <1>2, <3>1, WritesOrDies
  <2>2. CASE inum \notin InRange
    <3>1. fs' = [fs EXCEPT !.alive = FALSE]
      BY <2>2, Zenon DEF put
    <3> QED
      BY <1>1, <3>1, AliveChanges
  <2> QED
    BY <2>1, <2>2
<1>6. CASE fs'.alive
  <2>1. inum \in InRange
    <3>1. SUFFICES ASSUME inum \notin InRange PROVE ~ fs'.alive
      BY <1>6
    <3>2. fs' = [fs EXCEPT !.alive = FALSE]
      BY <3>1, Zenon DEF put
    <3> QED
      BY <1>1, <3>2 DEF FileSystems
  <2>2. fs' = write_file(fs, inum, calls', size)
    BY <2>1, Zenon DEF put
  <2>3. FilesOnDisk(fs', [files EXCEPT ![inum] = Content(calls', size)])
    BY <1>1, <1>2, <1>6, <2>2, WritesOrDies
  <2> QED
    BY <1>3, <1>6, <2>3
<1>7. CASE ~ fs'.alive
  BY <1>3, <1>4, <1>5, <1>7, NoFilesOnDisk
<1> QED
  BY <1>6, <1>7

LEMMA RemoveIInv ==
  ASSUME IInv, NEW inum \in DOMAIN files, remove(inum)
  PROVE  FilesOnDisk(fs', files')
<1>1. FilesOnDisk(fs, files) /\ fs \in FileSystems
  BY InvariantOnDisk DEF FilesOnDisk
<1>2. CASE inum \in InRange
  <2>1. fs' = free_inode(fs, inum) /\ files' = [i \in DOMAIN files \ {inum} |-> files[i]]
    BY <1>2, Zenon DEF remove
  <2> QED
    BY <1>1, <2>1, Removes
<1>3. CASE inum \notin InRange
  <2>1. fs' = [fs EXCEPT !.alive = FALSE] /\ files' = NoFiles
    BY <1>3, Zenon DEF remove
  <2>2. fs' \in FileSystems /\ DOMAIN files' = {}
    BY <1>1, <2>1, AliveChanges DEF NoFiles
  <2> QED
    BY <2>2, NoFilesOnDisk
<1> QED
  BY <1>2, <1>3

LEMMA StepIInv == IInv /\ [Next]_vars => IInv'
<1>1. SUFFICES ASSUME IInv, [Next]_vars PROVE IInv'
  OBVIOUS
<1>2. SUFFICES FilesOnDisk(fs', files') /\ calls' \in 0 .. MaxCalls
  BY Zenon DEF IInv, TypeOK, FilesOnDisk, GoodFiles
<1>3. calls \in 0 .. MaxCalls /\ FilesOnDisk(fs, files)
  BY <1>1, InvariantOnDisk
<1>4. CASE Next
  <2>1. calls' \in 0 .. MaxCalls
    <3>1. Call
      BY <1>4, Zenon DEF Next, create, put, remove
    <3> QED
      BY <1>3, <3>1, ParametersAssumption DEF Call
  <2>2. FilesOnDisk(fs', files')
    BY <1>1, <1>4, CreateIInv, PutIInv, RemoveIInv DEF Next
  <2> QED
    BY <2>1, <2>2
<1>5. CASE UNCHANGED vars
  BY <1>3, <1>5 DEF vars
<1> QED
  BY <1>1, <1>4, <1>5

\* After each call of extent_server the inodes of the files form disjoint
\* chains, their blocks are disjoint and marked, and hold what was written,
\* for every size of the disk and of the files.
THEOREM Invariance == Spec => []IInv
  BY InitIInv, StepIInv, PTL DEF Spec

\* The disk of the extent server stays a disk: block numbers and next inodes
\* in range, sizes not negative, also where the disk is full.
THEOREM TypeCorrect == Spec => []TypeOK
<1>1. IInv => TypeOK
  BY DEF IInv
<1> QED
  BY <1>1, Invariance, PTL

\* The blocks and the inodes that the properties speak of are those of the
\* invariant.
LEMMA FileExtents ==
  ASSUME IInv, NEW i \in DOMAIN files
  PROVE  /\ i \in DOMAIN Extents(files)
         /\ Extents(files)[i] = BlocksOf(fs.inode[i].size)
         /\ Len(files[i].data) = BlocksOf(fs.inode[i].size)
         /\ fs.inode[i].size = files[i].size /\ files[i] \in Contents
         /\ Holds(fs, i, files[i].data)
  BY DEF IInv, TypeOK, Extents

\* read_file of each file that got all its blocks returns what write_file was
\* given last.
THEOREM WritesReadBack == Spec => []FilesReadBack
<1>1. IInv => FilesReadBack
  <2>1. SUFFICES ASSUME IInv, NEW i \in DOMAIN files \cap InRange,
                        \A k \in Places(i) : BlockAt(fs, i, k) # NoBlock
                 PROVE  read_file(fs, i) = files[i]
    BY DEF FilesReadBack
  <2> DEFINE size == fs.inode[i].size
             n == BlocksOf(size)
             data == files[i].data
             got == [k \in 1 .. n |-> fs.block[BlockAt(fs, i, k - 1)]]
  <2>2. /\ Len(data) = n /\ size = files[i].size /\ files[i] \in Contents
        /\ Holds(fs, i, data)
    BY <2>1, FileExtents
  <2>3. n \in Nat
    BY <2>2, BlocksOfSize DEF Contents
  <2>4. read_file(fs, i) = [size |-> size, data |-> got]
    BY Zenon DEF read_file
  <2>5. data \in Seq(Nat \X Nat) /\ files[i] = [size |-> size, data |-> data]
    BY <2>2 DEF Contents
  <2>6. \A k \in 0 .. n - 1 : fs.block[BlockAt(fs, i, k)] = data[k + 1]
    BY <2>1, <2>2, Zenon DEF Holds, Places
  <2> HIDE DEF n, data
  <2>7. \A k \in 1 .. n : got[k] = data[k]
    <3>1. SUFFICES ASSUME NEW k \in 1 .. n PROVE got[k] = data[k]
      OBVIOUS
    <3>2. k - 1 \in 0 .. n - 1 /\ (k - 1) + 1 = k
      BY <2>3
    <3>3. fs.block[BlockAt(fs, i, k - 1)] = data[k]
      BY <2>6, <3>2
    <3> QED
      BY <3>3
  <2>8. data = [k \in 1 .. n |-> data[k]]
    BY <2>2, <2>5
  <2>9. got = data
    BY <2>7, <2>8
  <2> QED
    BY <2>4, <2>5, <2>9
<1> QED
  BY <1>1, Invariance, PTL

\* No data block and no inode is part of two files, and none that is part of
\* one is free: alloc_block, alloc_inode and free_inode keep away from them.
THEOREM FilesAreDisjoint == Spec => []NothingIsShared
<1>1. IInv => NothingIsShared
  <2>1. SUFFICES ASSUME IInv PROVE NothingIsShared
    OBVIOUS
  <2> DEFINE blocks == Extents(files)
  <2>2. ASSUME NEW i \in DOMAIN files
        PROVE  /\ i \in DOMAIN blocks
               /\ Places(i) = 0 .. blocks[i] - 1
               /\ FileInodes(i) = {ChainedInode(fs, i, n) : n \in 0 .. LastInode(blocks[i])}
    BY <2>1, FileExtents, Zenon DEF Places, FileInodes
  <2>3. /\ ChainsTaken(fs, blocks) /\ ChainsApart(fs, blocks)
        /\ BlocksTaken(fs, blocks) /\ BlocksApart(fs, blocks)
    BY <2>1 DEF IInv, WellFormed
  <2> HIDE DEF blocks
  <2>4. ASSUME NEW i \in DOMAIN files, NEW j \in DOMAIN files,
               NEW k \in Places(i), NEW l \in Places(j),
               BlockAt(fs, i, k) = BlockAt(fs, j, l), BlockAt(fs, i, k) # NoBlock
        PROVE  i = j /\ k = l
    <3>1. /\ i \in DOMAIN blocks /\ k \in 0 .. blocks[i] - 1
          /\ j \in DOMAIN blocks /\ l \in 0 .. blocks[j] - 1
      BY <2>2
    <3> QED
      BY <2>3, <2>4, <3>1 DEF BlocksApart
  <2>5. ASSUME NEW i \in DOMAIN files, NEW j \in DOMAIN files, i # j
        PROVE  FileInodes(i) \cap FileInodes(j) = {}
    <3>1. SUFFICES ASSUME NEW y \in FileInodes(i), y \in FileInodes(j) PROVE FALSE
      OBVIOUS
    <3>2. PICK n \in 0 .. LastInode(blocks[i]) : y = ChainedInode(fs, i, n)
      BY <2>2
    <3>3. PICK m \in 0 .. LastInode(blocks[j]) : y = ChainedInode(fs, j, m)
      BY <2>2, <3>1
    <3>4. i \in DOMAIN blocks /\ j \in DOMAIN blocks
      BY <2>2
    <3> QED
      BY <2>3, <2>5, <3>2, <3>3, <3>4 DEF ChainsApart
  <2>6. ASSUME NEW i \in DOMAIN files
        PROVE  /\ FileInodes(i) \subseteq fs.inums
               /\ \A k \in Places(i) : BlockAt(fs, i, k) \in fs.used \cup {NoBlock}
    <3>1. i \in DOMAIN blocks
      BY <2>2
    <3>2. \A n \in 0 .. LastInode(blocks[i]) : ChainedInode(fs, i, n) \in fs.inums
      BY <2>3, <3>1 DEF ChainsTaken
    <3>3. FileInodes(i) \subseteq fs.inums
      BY <2>2, <3>2
    <3>4. \A k \in 0 .. blocks[i] - 1 : BlockAt(fs, i, k) \in fs.used \cup {NoBlock}
      BY <2>3, <3>1 DEF BlocksTaken
    <3> QED
      BY <2>2, <3>3, <3>4
  <2> QED
    BY <2>4, <2>5, <2>6 DEF NothingIsShared
<1> QED
  BY <1>1, Invariance, PTL
=============================================================================
