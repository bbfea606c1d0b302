-------------------------- MODULE InodeManagerInv ---------------------------
(***************************************************************************)
(* The inductive invariant of InodeManager.  Its parts speak of a disk f   *)
(* and of the number of blocks that each file has, so that they also hold  *)
(* within write_file, between two blocks.                                  *)
(***************************************************************************)
EXTENDS InodeManager

\* The inodes of a file are marked.  Those after the first can be read, so
\* that read_file and free_inode get no NULL for them, and know no size.
ChainsTaken(f, blocks) ==
  \A i \in DOMAIN blocks : \A n \in 0 .. LastInode(blocks[i]) :
    /\ ChainedInode(f, i, n) \in f.inums
    /\ n > 0 => /\ ChainedInode(f, i, n) \in InRange
                /\ f.inode[ChainedInode(f, i, n)].size = 0

\* No inode is in two chains, nor twice in one.
ChainsApart(f, blocks) ==
  \A i, j \in DOMAIN blocks :
    \A n \in 0 .. LastInode(blocks[i]), m \in 0 .. LastInode(blocks[j]) :
      ChainedInode(f, i, n) = ChainedInode(f, j, m) => i = j /\ n = m

\* The blocks of a file are marked, except where the disk was full.
BlocksTaken(f, blocks) ==
  \A i \in DOMAIN blocks : \A k \in 0 .. blocks[i] - 1 :
    BlockAt(f, i, k) \in f.used \cup {NoBlock}

\* No block is in two files, nor twice in one.
BlocksApart(f, blocks) ==
  \A i, j \in DOMAIN blocks :
    \A k \in 0 .. blocks[i] - 1, l \in 0 .. blocks[j] - 1 :
      BlockAt(f, i, k) = BlockAt(f, j, l) /\ BlockAt(f, i, k) # NoBlock
        => i = j /\ k = l

WellFormed(f, blocks) ==
  /\ ChainsTaken(f, blocks)
  /\ ChainsApart(f, blocks)
  /\ BlocksTaken(f, blocks)
  /\ BlocksApart(f, blocks)

\* The blocks of a file hold its data.
Holds(f, i, data) ==
  \A k \in 0 .. Len(data) - 1 :
    BlockAt(f, i, k) # NoBlock => f.block[BlockAt(f, i, k)] = data[k + 1]

\* The number of blocks of each file.
Extents(c) == [i \in DOMAIN c |-> Len(c[i].data)]

\* What each call keeps.  The inodes of the files form disjoint chains, which
\* is what makes alloc_inode and free_inode keep away from other files; the
\* chained inodes have size 0, so that the free_inode of write_file, which
\* is not told the size, frees one inode only.
IInv ==
  /\ TypeOK
  /\ \A i \in DOMAIN files :
       /\ fs.inode[i].size = files[i].size
       /\ Len(files[i].data) = BlocksOf(files[i].size)
       /\ Holds(fs, i, files[i].data)
  /\ WellFormed(fs, Extents(files))
=============================================================================
