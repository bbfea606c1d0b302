----------------------------- MODULE YfsClient -----------------------------
(***************************************************************************)
(* The directory operations of yfs_client, run by several clients on one   *)
(* file system.  A client is a process whose requests fuse.cc serves one   *)
(* at a time.  Below it are the lock service (module LockService, which    *)
(* LockCache implements) and the extent service (module ExtentService,     *)
(* which ExtentCache implements for an extent whose lock is held), so that *)
(* an action is one call of lc or of ec with what follows it.              *)
(*                                                                         *)
(* The content of a directory is the list of its entries: what directory() *)
(* parses from the extent and tostring() writes to it.  Of the inode table *)
(* there is what decides which number a create gets: its bitmap, and the   *)
(* inodes in which files of more than NDIRECT blocks go on.  The server    *)
(* looks for a free inode in a copy of the bitmap and then writes the copy *)
(* back, with no mutex around the two.  Directories and links are taken to *)
(* fit into NDIRECT blocks.                                                *)
(*                                                                         *)
(* The RPCs succeed, as every handler of extent_server returns OK; when    *)
(* the server uses an inode that get_inode does not return it dies, and    *)
(* the file system with it.                                                *)
(***************************************************************************)
EXTENDS Bitmap, Sequences, FiniteSetsExt

CONSTANTS
  Clients,      \* the yfs_client processes
  Names,        \* names of directory entries
  INODE_START,  \* the first block of the inode region
  INODE_NUM,    \* the number of inodes
  NoClient      \* nobody holds a lock

ASSUME InodesAssumption == INODE_START \in Nat /\ INODE_NUM \in Nat \ {0}
ASSUME NoClientAssumption == NoClient \notin Clients

Inums == 1 .. INODE_NUM
Root == 1

\* The inodes that get_inode returns.
InRange == 1 .. INODE_NUM - 1

\* What stands for the number that alloc_inode returns when no inode is free,
\* which wraps around and is out of range.
NoInode == INODE_NUM + 1

\* The inums that an entry may have.
EntryInums == Inums \cup {NoInode}

\* The lock that every operation which creates an inode takes first; no inode
\* has this number, and find returns it for a name that is not there.
create_flag == 0

VARIABLES
  inums,     \* the inodes whose bits are set in the bitmap
  copy,      \* the bitmap as the request of each client has read it
  type,      \* extent_protocol::types of each inode, "none" when it is free
  chain,     \* the further inodes of each file
  dirty,     \* the client in whose cache a file has one more or one fewer of
             \* them than on the server
  dirs,      \* the entries in the content of each directory
  down,      \* the extent server has died
  holder,    \* the client that holds each lock
  pc,        \* where the operation of each client is
  op,        \* the operation of each client and its arguments
  direct,    \* the local variable direct of each client
  ino_out,   \* the result ino_out of each client
  r          \* the status that the operation returns

tableVars == << inums, copy, type, chain >>
fsVars    == << tableVars, dirty, dirs, down >>
localVars == << op, direct, ino_out, r >>
vars == << fsVars, localVars, holder, pc >>

Kinds == {"create", "mkdir", "symlink"}

\* The operations on a directory, on a file, and on any inode: getattr stands
\* for isfile, islink, isdir, getfile and getdir, each of which reads the
\* attributes of an inode between an acquire and a release.
DirKinds  == Kinds \cup {"lookup", "readdir", "unlink"}
FileKinds == {"read", "write"}
Status == {"OK", "EXIST", "NOENT"}
Entry == [name : Names, inum : EntryInums]
NoName == ""      \* the operations without a name
NoOp == [kind |-> "none", inum |-> Root, name |-> NoName]
Operation ==
  [kind : DirKinds \cup FileKinds \cup {"getattr", "none"}, inum : EntryInums,
   name : Names \cup {NoName}]

TypeOK ==
  /\ inums \subseteq Inums
  /\ copy \in [Clients -> SUBSET Inums]
  /\ type \in [Inums -> {"none", "T_DIR", "T_FILE", "T_LINK"}]
  /\ chain \in [Inums -> SUBSET Inums]
  /\ dirty \in [Inums -> Clients \cup {NoClient}]
  /\ dirs \in [Inums -> Seq(Entry)]
  /\ down \in BOOLEAN
  /\ holder \in [{create_flag} \cup EntryInums -> Clients \cup {NoClient}]
  /\ pc \in [Clients -> {"idle", "lockFlag", "lock", "get", "flush", "create",
                         "alloc", "put", "releaseFlag", "release"}]
  /\ op \in [Clients -> Operation]
  /\ direct \in [Clients -> Seq(Entry)]
  /\ ino_out \in [Clients -> {0} \cup EntryInums]
  /\ r \in [Clients -> Status]

\* The first client has put the empty root directory, which the server's
\* constructor has allocated.
Init ==
  /\ inums = {Root}
  /\ copy = [c \in Clients |-> {}]
  /\ type = [i \in Inums |-> IF i = Root THEN "T_DIR" ELSE "none"]
  /\ chain = [i \in Inums |-> {}]
  /\ dirty = [i \in Inums |-> NoClient]
  /\ dirs = [i \in Inums |-> << >>]
  /\ down = FALSE
  /\ holder = [l \in {create_flag} \cup EntryInums |-> NoClient]
  /\ pc = [c \in Clients |-> "idle"]
  /\ op = [c \in Clients |-> NoOp]
  /\ direct = [c \in Clients |-> << >>]
  /\ ino_out = [c \in Clients |-> 0]
  /\ r = [c \in Clients |-> "OK"]

Goto(c, label) == pc' = [pc EXCEPT ![c] = label]

\* The inodes that are part of a file which began in another one.
Chained == UNION {chain[i] : i \in Inums}

(***************************************************************************)
(* yfs_client::directory                                                   *)
(***************************************************************************)

Entries(dir) == {dir[n] : n \in 1 .. Len(dir)}

\* A slip, for the mutants: the first entry is not looked at.
find_after_first(dir, name) ==
  LET found == {n \in 2 .. Len(dir) : dir[n].name = name} IN
  IF found = {} THEN 0 ELSE dir[Min(found)].inum

\* The inum of the first entry with a name, 0 without one.
find(dir, name) ==
  LET found == {n \in 1 .. Len(dir) : dir[n].name = name} IN
  IF found = {} THEN 0 ELSE dir[Min(found)].inum

\* A slip, for the mutants: the entry gets the inum 0 of a missing name.
addent_missing(dir, name, inum) == Append(dir, [name |-> name, inum |-> 0])

addent(dir, name, inum) == Append(dir, [name |-> name, inum |-> inum])

\* A slip, for the mutants: the entry with the name is the one that is kept.
delent_others(dir, name) == SelectSeq(dir, LAMBDA e : e.name = name)

\* The loop of delent: new_list after the first n entries.
new_list(dir, name) ==
  LET list[n \in 0 .. Len(dir)] ==
        IF n = 0 THEN << >>
        ELSE IF dir[n].name # name THEN Append(list[n - 1], dir[n])
        ELSE list[n - 1]
  IN list

delent(dir, name) == new_list(dir, name)[Len(dir)]

(***************************************************************************)
(* The server's inode table                                                *)
(***************************************************************************)

\* The inodes that alloc_block(INODE) takes for free.
FreeInums(taken) ==
  LET blocks == {INODE_START + i - 1 : i \in taken} IN
  {i \in Inums : NotCheck(blocks, INODE_START + i - 1)}

\* alloc_inode on what it has read of the bitmap: the number it returns.
alloc_inode(taken) ==
  IF FreeInums(taken) = {} THEN NoInode ELSE Min(FreeInums(taken))

\* The inode that the request of client c takes is marked, and the copy of the
\* bitmap written back.
Mark(c, inum, t) ==
  /\ inums' = IF inum = NoInode THEN inums ELSE copy[c] \cup {inum}
  /\ type' = [i \in Inums |-> IF i = inum THEN t ELSE type[i]]
  /\ copy' = [copy EXCEPT ![c] = {}]

(***************************************************************************)
(* The operations: locks, get, create, put, unlock                         *)
(***************************************************************************)

\* fuse.cc calls an operation, on an inode that the kernel knows: one that a
\* create has entered in a directory.
Begin(c, kind, inum, name) ==
  /\ pc[c] = "idle"
  /\ inum \notin Chained
  /\ \A d \in Clients : pc[d] = "put" => ino_out[d] # inum
  /\ \/ kind \in DirKinds /\ type[inum] = "T_DIR"
     \/ kind \in FileKinds /\ type[inum] = "T_FILE"
     \/ kind = "getattr" /\ type[inum] # "none"
  /\ op' = [op EXCEPT ![c] = [kind |-> kind, inum |-> inum, name |-> name]]
  /\ Goto(c, IF kind \in Kinds THEN "lockFlag" ELSE "lock")
  /\ UNCHANGED << fsVars, holder, direct, ino_out, r >>

\* A slip, for the mutants: the lock is not waited for.
Acquire_at_once(c) ==
  /\ pc[c] = "lock"
  /\ holder' = [holder EXCEPT ![op[c].inum] = c]
  /\ Goto(c, "get")
  /\ UNCHANGED << fsVars, localVars >>

\* A slip, for the mutants: create_flag is not waited for.
AcquireFlag_at_once(c) ==
  /\ pc[c] = "lockFlag"
  /\ holder' = [holder EXCEPT ![create_flag] = c]
  /\ Goto(c, "lock")
  /\ UNCHANGED << fsVars, localVars >>

\* lc->acquire(create_flag), then lc->acquire of the inode.
AcquireFlag(c) ==
  /\ pc[c] = "lockFlag"
  /\ holder[create_flag] = NoClient
  /\ holder' = [holder EXCEPT ![create_flag] = c]
  /\ Goto(c, "lock")
  /\ UNCHANGED << fsVars, localVars >>

Acquire(c) ==
  /\ pc[c] = "lock"
  /\ holder[op[c].inum] = NoClient
  /\ holder' = [holder EXCEPT ![op[c].inum] = c]
  /\ Goto(c, "get")
  /\ UNCHANGED << fsVars, localVars >>

\* ec->get of a file that another client has written: the server calls flush
\* there, and the content that comes back takes one more inode or gives one
\* back.  Here the bitmap is read.
Flush(c) ==
  /\ pc[c] = "get" /\ op[c].kind \in FileKinds
  /\ dirty[op[c].inum] \notin {c, NoClient}
  /\ copy' = [copy EXCEPT ![c] = inums]
  /\ Goto(c, "flush")
  /\ UNCHANGED << inums, type, chain, dirty, dirs, down, holder, localVars >>

\* write_file goes on in an inode that it allocates; it does not look whether
\* there is one, and uses the NULL of get_inode.
FlushGrows(c) ==
  LET i == op[c].inum
      n == alloc_inode(copy[c]) IN
  /\ Mark(c, n, "T_FILE")
  /\ chain' = [chain EXCEPT ![i] = @ \cup ({n} \cap Inums)]
  /\ down' = (n \notin InRange)

\* write_file frees an inode of the chain.
FlushCuts(c) ==
  \E n \in chain[op[c].inum] :
    /\ inums' = copy[c] \ {n}
    /\ copy' = [copy EXCEPT ![c] = {}]
    /\ type' = [type EXCEPT ![n] = "none"]
    /\ chain' = [chain EXCEPT ![op[c].inum] = @ \ {n}]
    /\ UNCHANGED down

FlushReturns(c) ==
  /\ pc[c] = "flush"
  /\ FlushGrows(c) \/ FlushCuts(c)
  /\ dirty' = [dirty EXCEPT ![op[c].inum] = NoClient]
  /\ Goto(c, "get")
  /\ UNCHANGED << dirs, holder, localVars >>

\* ec->get or ec->getattr of an inode that is not there: read_file uses the
\* NULL of get_inode, and the inode_manager's getattr reads outside the disk.
ServerDies(c) ==
  /\ pc[c] = "get"
  /\ IF op[c].kind = "getattr" THEN op[c].inum = NoInode ELSE op[c].inum \notin InRange
  /\ down' = TRUE
  /\ UNCHANGED << tableVars, dirty, dirs, holder, pc, localVars >>

\* ec->getattr, in isfile, islink, isdir, getfile and getdir.
GetToStat(c) ==
  /\ op[c].kind = "getattr" /\ op[c].inum \in Inums
  /\ Goto(c, "release")
  /\ UNCHANGED << direct, ino_out, r >>

\* ec->get of a file, to read it or to write it.
GetFile(c) ==
  /\ op[c].kind \in FileKinds /\ op[c].inum \in InRange
  /\ dirty[op[c].inum] \in {c, NoClient}
  /\ Goto(c, IF op[c].kind = "read" THEN "release" ELSE "put")
  /\ UNCHANGED << direct, ino_out, r >>

\* ec->get of the directory, and what the operation makes of it.
GetToLookup(c) ==
  LET inum == find(dirs[op[c].inum], op[c].name) IN
  /\ op[c].kind = "lookup"
  /\ ino_out' = [ino_out EXCEPT ![c] = inum]
  /\ r' = [r EXCEPT ![c] = IF inum = 0 THEN "NOENT" ELSE @]
  /\ Goto(c, "release")

GetToReaddir(c) ==
  /\ op[c].kind = "readdir"
  /\ Goto(c, "release")
  /\ UNCHANGED << ino_out, r >>

GetToCreate(c) ==
  LET dir == dirs[op[c].inum] IN
  /\ op[c].kind \in Kinds
  /\ \/ /\ find(dir, op[c].name) # 0
        /\ r' = [r EXCEPT ![c] = "EXIST"]
        /\ Goto(c, "releaseFlag")
     \/ /\ find(dir, op[c].name) = 0
        /\ Goto(c, "create")
        /\ UNCHANGED r
  /\ UNCHANGED ino_out

\* finum = direct.find(name_str)==0 makes finum the result of the comparison:
\* 1 for a missing name, with which unlink returns OK, and 0 otherwise.
GetToUnlink(c) ==
  LET finum == IF find(dirs[op[c].inum], op[c].name) = 0 THEN 1 ELSE 0 IN
  /\ op[c].kind = "unlink"
  /\ Goto(c, IF finum # 0 THEN "release" ELSE "put")
  /\ UNCHANGED << ino_out, r >>

GetDir(c) ==
  /\ op[c].kind \in DirKinds /\ op[c].inum \in InRange
  /\ direct' = [direct EXCEPT ![c] = dirs[op[c].inum]]
  /\ GetToLookup(c) \/ GetToReaddir(c) \/ GetToCreate(c) \/ GetToUnlink(c)

Get(c) ==
  /\ pc[c] = "get"
  /\ GetToStat(c) \/ GetFile(c) \/ GetDir(c)
  /\ UNCHANGED << fsVars, holder, op >>

\* ec->create: alloc_block reads the bitmap.
Create(c) ==
  /\ pc[c] = "create"
  /\ copy' = [copy EXCEPT ![c] = inums]
  /\ Goto(c, "alloc")
  /\ UNCHANGED << inums, type, chain, dirty, dirs, down, holder, localVars >>

\* ec->create returns OK, with an inode or without: the rest of create, mkdir
\* and symlink up to the put of the directory.
CreateFile(c) ==
  /\ op[c].kind = "create"
  /\ Mark(c, alloc_inode(copy[c]), "T_FILE")
  /\ UNCHANGED down

CreateDir(c) ==
  /\ op[c].kind = "mkdir"
  /\ Mark(c, alloc_inode(copy[c]), "T_DIR")
  /\ UNCHANGED down

\* symlink puts the link into the new extent, for which the extent client
\* first gets it.
CreateLink(c) ==
  /\ op[c].kind = "symlink"
  /\ Mark(c, alloc_inode(copy[c]), "T_LINK")
  /\ down' = (alloc_inode(copy[c]) \notin InRange)

CreateReturns(c) ==
  /\ pc[c] = "alloc"
  /\ ino_out' = [ino_out EXCEPT ![c] = alloc_inode(copy[c])]
  /\ CreateFile(c) \/ CreateDir(c) \/ CreateLink(c)
  /\ Goto(c, "put")
  /\ UNCHANGED << chain, dirty, dirs, holder, op, direct, r >>

\* ec->put of the directory with the new entry.
PutEntry(c) ==
  /\ op[c].kind \in Kinds
  /\ dirs' = [dirs EXCEPT ![op[c].inum] = addent(direct[c], op[c].name, ino_out[c])]
  /\ Goto(c, "releaseFlag")
  /\ UNCHANGED dirty

\* ec->put of the directory without the entry.  After it unlink would call
\* ec->remove, were finum not 0 here.
PutUnlinked(c) ==
  /\ op[c].kind = "unlink"
  /\ dirs' = [dirs EXCEPT ![op[c].inum] = delent(direct[c], op[c].name)]
  /\ Goto(c, "release")
  /\ UNCHANGED dirty

\* ec->put of a file, by write or by setattr: the cache has what it did not
\* have before, or what the server has.
PutFile(c) ==
  /\ op[c].kind = "write"
  /\ \E d \in {c, NoClient} : dirty' = [dirty EXCEPT ![op[c].inum] = d]
  /\ Goto(c, "release")
  /\ UNCHANGED dirs

Put(c) ==
  /\ pc[c] = "put"
  /\ PutEntry(c) \/ PutUnlinked(c) \/ PutFile(c)
  /\ UNCHANGED << tableVars, down, holder, localVars >>

\* A slip, for the mutants: the way out for a name that exists forgets the
\* lock.
ReleaseFlag_unless_exist(c) ==
  /\ pc[c] = "releaseFlag"
  /\ holder' = [holder EXCEPT ![create_flag] =
                  IF r[c] = "EXIST" THEN c ELSE NoClient]
  /\ Goto(c, "release")
  /\ UNCHANGED << fsVars, localVars >>

\* lc->release(create_flag), then lc->release of the inode and the return.
ReleaseFlag(c) ==
  /\ pc[c] = "releaseFlag"
  /\ holder' = [holder EXCEPT ![create_flag] = NoClient]
  /\ Goto(c, "release")
  /\ UNCHANGED << fsVars, localVars >>

\* After an operation that found or created an inode, fuse.cc goes on with
\* getattr of it before it answers.
AnswerNeedsAttr(c) ==
  /\ r[c] = "OK" /\ ino_out[c] # 0
  /\ op' = [op EXCEPT ![c] = [kind |-> "getattr", inum |-> ino_out[c], name |-> NoName]]
  /\ Goto(c, "lock")

Answer(c) ==
  /\ r[c] # "OK" \/ ino_out[c] = 0
  /\ op' = [op EXCEPT ![c] = NoOp]
  /\ Goto(c, "idle")

Release(c) ==
  /\ pc[c] = "release"
  /\ holder' = [holder EXCEPT ![op[c].inum] = NoClient]
  /\ AnswerNeedsAttr(c) \/ Answer(c)
  /\ direct' = [direct EXCEPT ![c] = << >>]
  /\ ino_out' = [ino_out EXCEPT ![c] = 0]
  /\ r' = [r EXCEPT ![c] = "OK"]
  /\ UNCHANGED fsVars

-----------------------------------------------------------------------------

Call(c) ==
  \E inum \in Inums :
    \/ \E kind \in Kinds \cup {"lookup", "unlink"}, name \in Names :
         Begin(c, kind, inum, name)
    \/ \E kind \in FileKinds \cup {"readdir", "getattr"} :
         Begin(c, kind, inum, NoName)

Step(c) ==
  /\ ~ down
  /\ \/ Flush(c) \/ FlushReturns(c) \/ ServerDies(c) \/ Get(c)
     \/ Create(c) \/ CreateReturns(c) \/ Put(c) \/ ReleaseFlag(c) \/ Release(c)

\* The model ends with the server.
Next ==
  \E c \in Clients :
    \/ ~ down /\ (Call(c) \/ AcquireFlag(c) \/ Acquire(c))
    \/ Step(c)

Spec == Init /\ [][Next]_vars

\* While the server writes back a flushed file it serves no other request that
\* changes the bitmap.  Nothing in the server sees to it: create_flag keeps
\* two creates apart, but not a create and a flush, nor two flushes.
Serial ==
  \A c, d \in Clients :
    pc[c] = "flush" /\ pc[d] \in {"alloc", "flush"} => c = d

SerialSpec == Init /\ [][Next /\ Serial']_vars

\* A client goes on with what it has begun, and the lock service gives it a
\* lock that is free again and again (ServedUnlessTwoPassTheLock of
\* LockCache: of two clients neither starves).
FairSpec ==
  /\ Spec
  /\ \A c \in Clients :
       WF_vars(Step(c)) /\ SF_vars(AcquireFlag(c)) /\ SF_vars(Acquire(c))

-----------------------------------------------------------------------------
(***************************************************************************)
(* Properties                                                              *)
(***************************************************************************)

\* However the operations of several clients interleave, no directory gets
\* two entries with one name.
NamesAreUnique ==
  \A i \in Inums : \A m, n \in 1 .. Len(dirs[i]) :
    dirs[i][m].name = dirs[i][n].name => m = n

\* An inode has at most one entry in all the directories; it is marked in the
\* bitmap, so that alloc_inode does not give it to another file, and it is
\* neither the root nor part of a long file.  Entries with the number that
\* alloc_inode returns when it finds no free inode are left aside.
OneEntryPerInode ==
  \A i, j \in Inums : \A e \in Entries(dirs[i]), f \in Entries(dirs[j]) :
    e.inum # NoInode =>
      /\ e.inum \in inums \ ({Root} \cup Chained)
      /\ e.inum = f.inum => i = j /\ e = f

\* An entry goes away only when a client unlinks it: no put of a directory
\* that another client has read earlier undoes what happened since.
NoEntryLost ==
  [][\A i \in Inums : \A e \in Entries(dirs[i]) \ Entries(dirs'[i]) :
       \E c \in Clients : op[c] = [kind |-> "unlink", inum |-> i, name |-> e.name]]_vars

\* What an operation returns is still true when it gives up its locks: what
\* lookup found, that a created name is there and an unlinked one is not.
AnswersAreCurrent ==
  \A c \in Clients : pc[c] \in {"releaseFlag", "release"} /\ op[c].kind \in DirKinds =>
    LET there == find(dirs[op[c].inum], op[c].name) IN
    /\ op[c].kind = "lookup" => ino_out[c] = there
    /\ op[c].kind = "readdir" => direct[c] = dirs[op[c].inum]
    /\ op[c].kind = "unlink" => there = 0
    /\ op[c].kind \in Kinds =>
         IF r[c] = "EXIST" THEN there # 0 ELSE there = ino_out[c]

\* Every operation returns, unless the server dies: the locks are taken in an
\* order that lets nobody wait for ever, and each way out of an operation
\* releases them.
EveryCallReturns == \A c \in Clients : pc[c] # "idle" ~> pc[c] = "idle" \/ down

\* fuse.cc on unlink: "Free the file's extent".  An inode that is in use has
\* an entry, or an operation that enters or removes it is under way.
UnlinkFreesTheExtent ==
  \A i \in inums \ ({Root} \cup Chained) :
    \/ \E j \in Inums : \E e \in Entries(dirs[j]) : e.inum = i
    \/ \E c \in Clients : pc[c] \in {"put", "release"} /\
                           (ino_out[c] = i \/ op[c].kind = "unlink")
=============================================================================
