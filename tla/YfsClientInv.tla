---------------------------- MODULE YfsClientInv ----------------------------
(***************************************************************************)
(* The inductive invariants of the directory operations: one of all their  *)
(* behaviours, and one of those in which no flush overlaps another change  *)
(* of the bitmap.                                                          *)
(***************************************************************************)
EXTENDS YfsClient

\* Where an operation is.
PhaseInv ==
  \A c \in Clients :
    /\ pc[c] = "idle" <=> op[c].kind = "none"
    /\ pc[c] \in {"lockFlag", "create", "alloc", "releaseFlag"} =>
         op[c].kind \in Kinds
    /\ pc[c] = "flush" => op[c].kind \in FileKinds
    /\ pc[c] = "put" => op[c].kind \in Kinds \cup {"unlink", "write"}
    /\ op[c].kind \in DirKinds \cup FileKinds => op[c].inum \in Inums
    /\ op[c].kind \in Kinds => op[c].name \in Names
    /\ pc[c] \notin {"releaseFlag", "release"} => r[c] = "OK"
    /\ pc[c] = "put" /\ op[c].kind \in Kinds => ino_out[c] # 0

\* The locks that a client holds at each point of its operation.
LockInv ==
  \A c \in Clients :
    /\ pc[c] \in {"lock", "get", "create", "alloc", "put", "releaseFlag"}
         /\ op[c].kind \in Kinds => holder[create_flag] = c
    /\ pc[c] \in {"get", "flush", "create", "alloc", "put", "releaseFlag", "release"} =>
         holder[op[c].inum] = c

\* Between its get and its put, what an operation knows of the directory is
\* what is in it: for a create that the name is not there.
DirectInv ==
  \A c \in Clients :
    pc[c] \in {"create", "alloc", "put"} /\ op[c].kind \in DirKinds =>
      /\ direct[c] = dirs[op[c].inum]
      /\ op[c].kind \in Kinds =>
           \A n \in 1 .. Len(direct[c]) : direct[c][n].name # op[c].name

\* The inductive invariant of the directory operations, however the server's
\* requests interleave.
IInv ==
  /\ TypeOK /\ PhaseInv /\ LockInv /\ DirectInv
  /\ NamesAreUnique /\ AnswersAreCurrent

\* A request that has read the bitmap has it as it is.
CopyInv ==
  \A c \in Clients : pc[c] \in {"alloc", "flush"} => copy[c] = inums

\* The further inodes of files are marked, and no two files share one.
ChainInv ==
  /\ Root \in inums \ Chained
  /\ \A i \in Inums : chain[i] \subseteq inums
  /\ \A i, j \in Inums : i # j => chain[i] \cap chain[j] = {}

\* The inode that a create has allocated is in no directory yet.
AllocInv ==
  \A c \in Clients :
    pc[c] = "put" /\ op[c].kind \in Kinds /\ ino_out[c] # NoInode =>
      /\ ino_out[c] \in inums \ ({Root} \cup Chained)
      /\ \A i \in Inums : \A e \in Entries(dirs[i]) : e.inum # ino_out[c]

\* The inductive invariant of the inode table, when no flush overlaps another
\* change of the bitmap.
SInv == IInv /\ Serial /\ CopyInv /\ ChainInv /\ AllocInv /\ OneEntryPerInode
=============================================================================
