---------------------------- MODULE InodeManager ----------------------------
(***************************************************************************)
(* inode_manager on its block_manager and disk: the files of the extent    *)
(* server, one call at a time.  A file of more than NDIRECT blocks goes on *)
(* in another inode, whose number is in blocks[NDIRECT] of the one before; *)
(* only the first inode of the chain knows the size of the file.           *)
(*                                                                         *)
(* A block holds <<tag, k>>: block k of the write number tag.  Times are   *)
(* left out.                                                               *)
(*                                                                         *)
(* The disk is in the memory of the server: when write_file or free_inode  *)
(* uses the NULL of get_inode the server dies, and its files with it.      *)
(***************************************************************************)
EXTENDS Bitmap, Sequences, FiniteSetsExt

CONSTANTS
  BLOCK_SIZE,   \* bytes of a block
  NDIRECT,      \* data blocks of an inode
  INODE_START,  \* the first block of the inode region
  INODE_NUM,    \* inodes on the disk, one to a block
  BLOCK_NUM,    \* blocks on the disk
  Sizes,        \* the sizes that files are written with
  MaxCalls      \* bound on the number of calls

ASSUME ParametersAssumption ==
  /\ BLOCK_SIZE \in Nat \ {0} /\ NDIRECT \in Nat \ {0}
  /\ INODE_START \in Nat /\ INODE_NUM \in Nat \ {0} /\ BLOCK_NUM \in Nat
  /\ Sizes \subseteq Nat /\ MaxCalls \in Nat

VARIABLES
  fs,       \* the server's disk: bitmaps, inode table and data blocks
  files,    \* the files that exist: what was written to each of them
  calls     \* how many calls there were

vars == << fs, files, calls >>

DATA_START == INODE_START + INODE_NUM

Inums  == 1 .. INODE_NUM
Blocks == DATA_START .. BLOCK_NUM - 1

\* The block with an inode.
IBLOCK(inum) == INODE_START + inum - 1

\* What alloc_block returns when no block is free: the super block.  It is
\* also what stands for the blocks that malloc leaves unset in an inode.
NoBlock == 0

\* What stands for the number that alloc_inode returns when no inode is free,
\* which wraps around and is out of range.
NoInode == 0

\* The inodes that get_inode reads; it returns NULL for the last one.
InRange == 1 .. INODE_NUM - 1

\* The data blocks of an inode and, at NDIRECT, the next inode of the chain.
BlockLists ==
  {b \in [0 .. NDIRECT -> Nat] :
     /\ \A k \in 0 .. NDIRECT - 1 : b[k] \in Blocks \cup {NoBlock}
     /\ b[NDIRECT] \in Inums \cup {NoInode}}

Inodes == [type : {"none", "used"}, size : Nat, blocks : BlockLists]

FileSystems ==
  [used  : SUBSET Blocks,
   inums : SUBSET Inums,
   inode : [Inums -> Inodes],
   block : [Blocks \cup {NoBlock} -> Nat \X Nat],
   alive : BOOLEAN]

\* What a file has: its size and its blocks.
Contents == [size : Nat, data : Seq(Nat \X Nat)]

TypeOK ==
  /\ fs \in FileSystems
  /\ DOMAIN files \subseteq Inums
  /\ \A i \in DOMAIN files : files[i] \in Contents
  /\ calls \in 0 .. MaxCalls

\* The number of blocks that size bytes take.
BlocksOf(size) == (size + BLOCK_SIZE - 1) \div BLOCK_SIZE

\* How often a file of this many blocks goes on in another inode.
LastInode(blocks) == IF blocks = 0 THEN 0 ELSE (blocks - 1) \div NDIRECT

(***************************************************************************)
(* block_manager                                                           *)
(***************************************************************************)

\* The blocks whose bits are set: there is one bitmap for both regions.
Taken(f) == f.used \cup {IBLOCK(i) : i \in f.inums}

\* The data blocks and the inodes that alloc_block takes for free.
FreeBlocks(f) == LET taken == Taken(f) IN {b \in Blocks : NotCheck(taken, b)}
FreeInums(f)  == LET taken == Taken(f) IN {i \in Inums : NotCheck(taken, IBLOCK(i))}

\* A slip, for the mutants: the bitmap is not written back.
alloc_block_unmarked(f) ==
  [id |-> IF FreeBlocks(f) = {} THEN NoBlock ELSE Min(FreeBlocks(f)), fs |-> f]

\* alloc_block(DATA): the first free block, which is marked, or NoBlock.
alloc_block(f) ==
  LET free == FreeBlocks(f) IN
  IF free = {} THEN [id |-> NoBlock, fs |-> f]
  ELSE [id |-> Min(free), fs |-> [f EXCEPT !.used = @ \cup {Min(free)}]]

\* free_block on each of a set of data blocks.
free_blocks(f, ids) == [f EXCEPT !.used = @ \ ids]

(***************************************************************************)
(* inode_manager                                                           *)
(***************************************************************************)

put_inode(f, inum, ino) == [f EXCEPT !.inode[inum] = ino]

\* alloc_inode: the first free inode, and then a data block for blocks[0].
\* With none free the inode is written over the super block.
alloc_inode(f) ==
  LET free == FreeInums(f)
      inum == Min(free)
      data == alloc_block(IF free = {} THEN f ELSE [f EXCEPT !.inums = @ \cup {inum}]) IN
  IF free = {}
  THEN [inum |-> NoInode, fs |-> [data.fs EXCEPT !.block[NoBlock] = << 0, 0 >>]]
  ELSE [inum |-> inum,
        fs   |-> put_inode(data.fs, inum,
                           [type |-> "used", size |-> 0,
                            blocks |-> [k \in 0 .. NDIRECT |->
                                          IF k = 0 THEN data.id ELSE NoBlock]])]

\* The inode n steps down the chain of inum.
ChainedInode(f, inum, n) ==
  LET chain[m \in 0 .. n] ==
        IF m = 0 THEN inum ELSE f.inode[chain[m - 1]].blocks[NDIRECT]
  IN chain[n]

\* The data block with block k of a file.
BlockAt(f, inum, k) ==
  f.inode[ChainedInode(f, inum, k \div NDIRECT)].blocks[k % NDIRECT]

\* free_inode: the inode and as many data blocks as its size says, and so for
\* the rest of the chain, where each inode is told what is left of the size.
free_inode(f, inum) ==
  LET size  == f.inode[inum].size
      depth == 0 .. LastInode(BlocksOf(size))
      freed == {ChainedInode(f, inum, n) : n \in depth}
      At(i) == CHOOSE n \in depth : ChainedInode(f, inum, n) = i
      table == [i \in Inums |->
                  IF i \in freed
                  THEN [type   |-> "none",
                        size   |-> size - At(i) * NDIRECT * BLOCK_SIZE,
                        blocks |-> f.inode[i].blocks]
                  ELSE f.inode[i]]
      f1    == free_blocks(f, {BlockAt(f, inum, k) : k \in 0 .. BlocksOf(size) - 1})
  IN [f1 EXCEPT !.inums = @ \ freed, !.inode = table]

\* write_file, its loop over the blocks of buf.  w holds the local variables:
\* the copy ino of the inode last_inum, real_block_num within it, and the
\* file system; alive says that the inode could be read.
\* The next inode of the chain is taken, or made where the file ended.
NextInode(w, block_num, file_size) ==
  LET made == IF file_size <= block_num * BLOCK_SIZE
              THEN alloc_inode(w.fs)
              ELSE [inum |-> w.ino.blocks[NDIRECT], fs |-> w.fs]
      old  == [w.ino EXCEPT !.blocks[NDIRECT] = made.inum] IN
  IF made.inum \in InRange
  THEN [fs |-> put_inode(made.fs, w.last_inum, old),
        ino |-> made.fs.inode[made.inum], last_inum |-> made.inum,
        real_block_num |-> 0, alive |-> TRUE]
  ELSE [w EXCEPT !.alive = FALSE]

\* A block behind the old end of the file is allocated, any other one reused.
PlaceBlock(w, block_num, file_size) ==
  LET new == alloc_block(w.fs) IN
  IF block_num * BLOCK_SIZE >= file_size
  THEN [w EXCEPT !.fs = new.fs, !.ino.blocks[w.real_block_num] = new.id]
  ELSE w

WriteBlock(w, tag, block_num, file_size) ==
  LET next == IF w.real_block_num = NDIRECT
              THEN NextInode(w, block_num, file_size) ELSE w
      here == PlaceBlock(next, block_num, file_size)
      id   == here.ino.blocks[here.real_block_num] IN
  IF next.alive
  THEN [here EXCEPT !.fs.block[id] = << tag, block_num >>, !.real_block_num = @ + 1]
  ELSE next

\* The loop up to block n.
WriteBlocks(f, inum, tag, n) ==
  LET size == f.inode[inum].size
      loop[m \in 0 .. n] ==
        IF m = 0
        THEN [fs |-> f, ino |-> f.inode[inum], last_inum |-> inum,
              real_block_num |-> 0, alive |-> TRUE]
        ELSE IF loop[m - 1].alive
             THEN WriteBlock(loop[m - 1], tag, m - 1, size)
             ELSE loop[m - 1]
  IN loop[n]

\* A slip, for the mutants: the last block of the new content is freed too.
FreeTailEarly(w, block_num, file_size) ==
  LET Offset(k) == (block_num + k - w.real_block_num) * BLOCK_SIZE
      tail == {k \in 0 .. NDIRECT - 1 :
                 w.real_block_num <= k + 1 /\ Offset(k) < file_size}
      f1   == free_blocks(w.fs, {w.ino.blocks[k] : k \in tail}) IN
  IF Offset(NDIRECT) < file_size
  THEN free_inode(f1, w.ino.blocks[NDIRECT])
  ELSE f1

\* write_file, its loop over the blocks behind the new end: those of this
\* inode are freed, and the rest of the chain with free_inode.
FreeTail(w, block_num, file_size) ==
  LET Offset(k) == (block_num + k - w.real_block_num) * BLOCK_SIZE
      tail == {k \in w.real_block_num .. NDIRECT - 1 : Offset(k) < file_size}
      f1   == free_blocks(w.fs, {w.ino.blocks[k] : k \in tail}) IN
  IF Offset(NDIRECT) < file_size
  THEN free_inode(f1, w.ino.blocks[NDIRECT])
  ELSE f1

\* A slip, for the mutants: the last inode is not written back.
write_file_unsaved(f, inum, tag, size) ==
  LET w == WriteBlocks(f, inum, tag, BlocksOf(size)) IN
  IF w.alive
  THEN [FreeTail(w, BlocksOf(size), f.inode[inum].size) EXCEPT !.inode[inum].size = size]
  ELSE [f EXCEPT !.alive = FALSE]

write_file(f, inum, tag, size) ==
  LET w  == WriteBlocks(f, inum, tag, BlocksOf(size))
      f1 == put_inode(FreeTail(w, BlocksOf(size), f.inode[inum].size),
                      w.last_inum, w.ino) IN
  IF w.alive
  THEN put_inode(f1, inum, [f1.inode[inum] EXCEPT !.size = size])
  ELSE [f EXCEPT !.alive = FALSE]

\* read_file: the size and the contents of the blocks.
read_file(f, inum) ==
  [size |-> f.inode[inum].size,
   data |-> [k \in 1 .. BlocksOf(f.inode[inum].size) |->
               f.block[BlockAt(f, inum, k - 1)]]]

-----------------------------------------------------------------------------
\* The calls of extent_server.

\* What a file has after write number tag of size bytes.
Content(tag, size) ==
  [size |-> size, data |-> [k \in 1 .. BlocksOf(size) |-> << tag, k - 1 >>]]

\* The files when the server has died.
NoFiles == [i \in {} |-> Content(0, 0)]

Call == calls < MaxCalls /\ calls' = calls + 1

\* The constructor formats the disk and makes the root directory.
Init ==
  LET empty == [type |-> "none", size |-> 0,
                blocks |-> [k \in 0 .. NDIRECT |-> NoBlock]]
      root  == alloc_inode([used |-> {}, inums |-> {},
                            inode |-> [i \in Inums |-> empty],
                            block |-> [b \in Blocks \cup {NoBlock} |-> << 0, 0 >>],
                            alive |-> TRUE])
  IN
  /\ fs = root.fs
  /\ files = [i \in {root.inum} |-> Content(0, 0)]
  /\ calls = 0

\* With no inode left the caller gets a number that no file has.
create ==
  LET new == alloc_inode(fs) IN
  /\ fs.alive
  /\ Call
  /\ fs' = new.fs
  /\ files' = [i \in DOMAIN files \cup ({new.inum} \ {NoInode}) |->
                 IF i = new.inum THEN Content(0, 0) ELSE files[i]]

put(inum, size) ==
  /\ Call
  /\ IF inum \in InRange
     THEN fs' = write_file(fs, inum, calls', size)
     ELSE fs' = [fs EXCEPT !.alive = FALSE]
  /\ IF fs'.alive
     THEN files' = [files EXCEPT ![inum] = Content(calls', size)]
     ELSE files' = NoFiles

\* Files and directories are removed; the root directory is not.
remove(inum) ==
  /\ inum # 1
  /\ Call
  /\ IF inum \in InRange
     THEN /\ fs' = free_inode(fs, inum)
          /\ files' = [i \in DOMAIN files \ {inum} |-> files[i]]
     ELSE /\ fs' = [fs EXCEPT !.alive = FALSE]
          /\ files' = NoFiles

Next ==
  \/ create
  \/ \E inum \in DOMAIN files :
       remove(inum) \/ \E size \in Sizes : put(inum, size)

Spec == Init /\ [][Next]_vars

-----------------------------------------------------------------------------
(***************************************************************************)
(* Properties                                                              *)
(***************************************************************************)

\* The blocks of file i, by their place in the file, and its inodes.
Places(i) == 0 .. BlocksOf(fs.inode[i].size) - 1
FileInodes(i) ==
  {ChainedInode(fs, i, n) : n \in 0 .. LastInode(BlocksOf(fs.inode[i].size))}

\* read_file: Get all the data of a file by inum.  Whatever was written,
\* grown, cut and removed before, and whether the disk was full or not, each
\* file that got all its blocks reads back as it was written last.  The file
\* with the last inode, which get_inode refuses, cannot be read.
FilesReadBack ==
  \A i \in DOMAIN files \cap InRange :
    (\A k \in Places(i) : BlockAt(fs, i, k) # NoBlock) => read_file(fs, i) = files[i]

\* No data block and no inode is part of two files, and none of them is free
\* in the bitmap, where the next call would take it.  The super block, which
\* alloc_block returns when the disk is full, is the exception.
NothingIsShared ==
  /\ \A i, j \in DOMAIN files :
       \A k \in Places(i), l \in Places(j) :
         BlockAt(fs, i, k) = BlockAt(fs, j, l) /\ BlockAt(fs, i, k) # NoBlock
           => i = j /\ k = l
  /\ \A i, j \in DOMAIN files :
       i # j => FileInodes(i) \cap FileInodes(j) = {}
  /\ \A i \in DOMAIN files :
       /\ FileInodes(i) \subseteq fs.inums
       /\ \A k \in Places(i) : BlockAt(fs, i, k) \in fs.used \cup {NoBlock}

\* write_file: "alloc/free blocks if needed".  A data block that is marked and
\* was written holds a part of a file that exists: what is cut off a file or
\* removed with it goes back to the disk.
WrittenBlocksAreFreed ==
  fs.alive =>
    \A b \in fs.used : fs.block[b] # << 0, 0 >> =>
      \E i \in DOMAIN files : \E k \in Places(i) : BlockAt(fs, i, k) = b
=============================================================================
