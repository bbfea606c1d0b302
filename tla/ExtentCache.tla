---------------------------- MODULE ExtentCache ----------------------------
(***************************************************************************)
(* The caching extent protocol: extent_server and its extent_client        *)
(* instances, for one extent that a yfs_client has created.  A client is   *)
(* one yfs_client process: fuse.cc runs its requests one at a time, and    *)
(* yfs_client calls get, put and getattr of an extent only while it holds  *)
(* the lock of that inode.  The lock is the service that lock_server_cache *)
(* and lock_client_cache implement (module LockCache).                     *)
(*                                                                         *)
(* RPCs are synchronous: a request of client c is followed through the     *)
(* server to the handler of the owner, and from there through the put RPC  *)
(* of the owner back to the server.  pc[c] says how far it has come.  No   *)
(* mutex protects extent_server or extent_client, so that an action is one *)
(* stretch of code between two calls.  Times are left out of attributes.   *)
(***************************************************************************)
EXTENDS Naturals, Sequences

CONSTANTS
  Clients,    \* the extent_client instances
  Contents,   \* what the extent may contain
  Empty,      \* the empty string
  Size,       \* std::string::size of each content
  NoOwner,    \* the map fileManger has no entry for the extent
  Garbage     \* a file_attr that the constructor of FileData leaves unset

ASSUME ContentsAssumption == Empty \in Contents
ASSUME SizeAssumption == Size \in [Contents -> Nat] /\ Size[Empty] = 0
ASSUME NoOwnerAssumption == NoOwner \notin Clients
ASSUME GarbageAssumption == Garbage \notin Nat

VARIABLES
  cached,     \* whether fileManager of each client has an entry
  data_stat,  \* FileData.data_stat of each client
  attr_stat,  \* FileData.attr_stat of each client
  file_data,  \* FileData.file_data of each client
  file_attr,  \* FileData.file_attr.size of each client
  owner,      \* the entry of the server's map fileManger
  disk,       \* the content that inode_manager keeps
  queue,      \* the clients that wait for or hold the lock of the inode
  holders,    \* the client that holds the lock of the inode
  pc,         \* where the request of each client is
  op,         \* the operation a client is in and, for put, its argument
  callee,     \* the client whose handler the server has called
  data,       \* the content in the reply or in the put RPC under way
  attr,       \* the size in the reply under way
  buf         \* what the last get, of whichever client, returned

clientVars == << cached, data_stat, attr_stat, file_data, file_attr >>
serverVars == << owner, disk >>
lockVars   == << queue, holders >>
callVars   == << op, callee, data, attr >>
vars == << clientVars, serverVars, lockVars, callVars, buf, pc >>

CacheState == {"NONE", "OK"}
Operation  == [name : {"get", "getattr", "put"}, arg : Contents]

\* In the server's get, from the call to its return.
InGet == {"get", "flush", "flushPut", "flushed", "getReply", "got"}
InGetattr == {"getattr", "get_attr", "gotAttr"}
Label == {"idle", "return"} \cup InGet \cup InGetattr

TypeOK ==
  /\ cached \in [Clients -> BOOLEAN]
  /\ data_stat \in [Clients -> CacheState]
  /\ attr_stat \in [Clients -> CacheState]
  /\ file_data \in [Clients -> Contents]
  /\ file_attr \in [Clients -> Nat \cup {Garbage}]
  /\ owner \in Clients \cup {NoOwner}
  /\ disk \in Contents
  /\ holders \in SUBSET Clients
  /\ pc \in [Clients -> Label]
  /\ op \in [Clients -> Operation]
  /\ callee \in [Clients -> Clients \cup {NoOwner}]
  /\ data \in [Clients -> Contents]
  /\ attr \in [Clients -> Nat \cup {Garbage}]
  /\ buf \in Contents

\* One thread per client calls the lock service.
Lock == INSTANCE LockService
          WITH Threads <- Clients, ClientOf <- [c \in Clients |-> c]

\* The cache entry, valid or not, of the client c, and nobody else's.
InitEntry(c, stat, content, size) ==
  /\ cached = [d \in Clients |-> d = c]
  /\ data_stat = [d \in Clients |-> IF d = c THEN stat ELSE "NONE"]
  /\ attr_stat = [d \in Clients |-> IF d = c THEN stat ELSE "NONE"]
  /\ file_data = [d \in Clients |-> IF d = c THEN content ELSE Empty]
  /\ file_attr = [d \in Clients |-> IF d = c THEN size ELSE Garbage]
  /\ owner = c

\* After extent_server::create nobody has cached the empty inode.  symlink
\* goes on to put its target into the new extent without a lock: no other
\* client can know the number before it is entered into the directory, so
\* that the extent is shared from the end of that put on.
Init ==
  /\ \/ InitEntry(NoOwner, "NONE", Empty, Garbage)
     \/ \E c \in Clients, link \in Contents :
          InitEntry(c, "OK", link, Size[link])
  /\ disk = Empty
  /\ Lock!Init
  /\ pc = [c \in Clients |-> "idle"]
  /\ op = [c \in Clients |-> [name |-> "get", arg |-> Empty]]
  /\ callee = [c \in Clients |-> NoOwner]
  /\ data = [c \in Clients |-> Empty]
  /\ attr = [c \in Clients |-> Garbage]
  /\ buf = Empty

Goto(c, label) == pc' = [pc EXCEPT ![c] = label]

-----------------------------------------------------------------------------
(***************************************************************************)
(* Slips that the code could have made and did not.  No action below uses  *)
(* them: each replaces one definition to see that a property depends on it.*)
(***************************************************************************)

\* The index of the last byte for the size.
WriteShort(c, content) ==
  /\ file_data' = [file_data EXCEPT ![c] = content]
  /\ file_attr' = [file_attr EXCEPT ![c] = Size[content] - 1]
  /\ data_stat' = [data_stat EXCEPT ![c] = "OK"]
  /\ attr_stat' = [attr_stat EXCEPT ![c] = "OK"]
  /\ UNCHANGED cached

\* get does not ask for the attributes.
GetReturnsDataOnly(c) ==
  /\ pc[c] = "got"
  /\ file_data' = [file_data EXCEPT ![c] = data[c]]
  /\ data_stat' = [data_stat EXCEPT ![c] = "OK"]
  /\ Goto(c, "return")
  /\ UNCHANGED << cached, attr_stat, file_attr, serverVars, lockVars,
                  callVars, buf >>

\* The data stay valid after they were flushed.
FlushReturnsValid(c) ==
  /\ pc[c] = "flushed"
  /\ attr_stat' = [attr_stat EXCEPT ![callee[c]] = "NONE"]
  /\ Goto(c, "getReply")
  /\ UNCHANGED << cached, data_stat, file_data, file_attr, serverVars,
                  lockVars, callVars, buf >>

\* The data are marked invalid and no put RPC is sent.
FlushHandlerForgets(c) ==
  /\ pc[c] = "flush"
  /\ Goto(c, "flushed")
  /\ UNCHANGED << clientVars, serverVars, lockVars, callVars, buf >>

\* The lock is released while a call is under way.
LockingEarly(c) ==
  /\ Lock!Request(c) \/ Lock!Grant(c) \/ Lock!RequestAndGrant(c)
       \/ Lock!Release(c)
  /\ UNCHANGED << clientVars, serverVars, callVars, buf, pc >>

-----------------------------------------------------------------------------
(***************************************************************************)
(* extent_client, called by the fuse thread of its yfs_client              *)
(***************************************************************************)

\* The entry is made on the first call; what is not cached is asked for.
Begin(c, name, arg, label) ==
  /\ c \in holders
  /\ pc[c] = "idle"
  /\ cached' = [cached EXCEPT ![c] = TRUE]
  /\ op' = [op EXCEPT ![c] = [name |-> name, arg |-> arg]]
  /\ Goto(c, label)
  /\ UNCHANGED << data_stat, attr_stat, file_data, file_attr, serverVars,
                  lockVars, callee, data, attr, buf >>

get(c) ==
  Begin(c, "get", Empty, IF data_stat[c] = "NONE" THEN "get" ELSE "return")

getattr(c) ==
  Begin(c, "getattr", Empty,
        IF attr_stat[c] = "NONE" THEN "getattr" ELSE "return")

\* put first calls get when something is not cached; that get asks the server
\* only when it is the data that is missing.
put(c, content) ==
  Begin(c, "put", content, IF data_stat[c] = "NONE" THEN "get" ELSE "return")

\* get when its RPC has returned: the attributes are asked for unless there
\* are some already.
GetReturns(c) ==
  /\ pc[c] = "got"
  /\ file_data' = [file_data EXCEPT ![c] = data[c]]
  /\ data_stat' = [data_stat EXCEPT ![c] = "OK"]
  /\ Goto(c, IF attr_stat[c] = "NONE" THEN "getattr" ELSE "return")
  /\ UNCHANGED << cached, attr_stat, file_attr, serverVars, lockVars,
                  callVars, buf >>

\* getattr when its RPC has returned.
GetattrReturns(c) ==
  /\ pc[c] = "gotAttr"
  /\ file_attr' = [file_attr EXCEPT ![c] = attr[c]]
  /\ attr_stat' = [attr_stat EXCEPT ![c] = "OK"]
  /\ Goto(c, "return")
  /\ UNCHANGED << cached, data_stat, file_data, serverVars, lockVars,
                  callVars, buf >>

\* The end of put: only the cache is written.
Write(c, content) ==
  /\ file_data' = [file_data EXCEPT ![c] = content]
  /\ file_attr' = [file_attr EXCEPT ![c] = Size[content]]
  /\ data_stat' = [data_stat EXCEPT ![c] = "OK"]
  /\ attr_stat' = [attr_stat EXCEPT ![c] = "OK"]
  /\ UNCHANGED cached

\* The call returns to yfs_client, with what is now cached.
Return(c) ==
  /\ pc[c] = "return"
  /\ \/ /\ op[c].name = "get"
        /\ buf' = file_data[c]
        /\ UNCHANGED clientVars
     \/ /\ op[c].name = "getattr"
        /\ UNCHANGED << clientVars, buf >>
     \/ /\ op[c].name = "put"
        /\ Write(c, op[c].arg)
        /\ UNCHANGED buf
  /\ Goto(c, "idle")
  /\ op' = [op EXCEPT ![c] = [name |-> "get", arg |-> Empty]]
  /\ callee' = [callee EXCEPT ![c] = NoOwner]
  /\ data' = [data EXCEPT ![c] = Empty]
  /\ attr' = [attr EXCEPT ![c] = Garbage]
  /\ UNCHANGED << serverVars, lockVars >>

(***************************************************************************)
(* extent_client, called by the server in the course of a request of c     *)
(***************************************************************************)

\* flush_handler up to its put RPC: nothing to do without valid data.
FlushHandler(c) ==
  LET o == callee[c] IN
  /\ pc[c] = "flush"
  /\ \/ /\ ~cached[o] \/ data_stat[o] = "NONE"
        /\ Goto(c, "getReply")
        /\ UNCHANGED data
     \/ /\ cached[o] /\ data_stat[o] # "NONE"
        /\ data' = [data EXCEPT ![c] = file_data[o]]
        /\ Goto(c, "flushPut")
  /\ UNCHANGED << clientVars, serverVars, lockVars, op, callee, attr,
                  buf >>

\* flush_handler when its put RPC has returned.
FlushReturns(c) ==
  /\ pc[c] = "flushed"
  /\ data_stat' = [data_stat EXCEPT ![callee[c]] = "NONE"]
  /\ attr_stat' = [attr_stat EXCEPT ![callee[c]] = "NONE"]
  /\ Goto(c, "getReply")
  /\ UNCHANGED << cached, file_data, file_attr, serverVars, lockVars,
                  callVars, buf >>

\* get_attr_handler: the attributes, valid or not.
GetAttrHandler(c) ==
  /\ pc[c] = "get_attr"
  /\ cached[callee[c]]
  /\ attr' = [attr EXCEPT ![c] = file_attr[callee[c]]]
  /\ Goto(c, "gotAttr")
  /\ UNCHANGED << clientVars, serverVars, lockVars, op, callee, data,
                  buf >>

(***************************************************************************)
(* extent_server                                                           *)
(***************************************************************************)

\* The last lines of get: the caller becomes the owner and gets the content.
ServerRead(c) ==
  /\ owner' = c
  /\ data' = [data EXCEPT ![c] = disk]
  /\ Goto(c, "got")
  /\ UNCHANGED << disk, callee >>

\* get, up to its call of flush at another owner if there is one.
ServerGet(c) ==
  /\ pc[c] = "get"
  /\ \/ /\ owner \in {NoOwner, c}
        /\ ServerRead(c)
     \/ /\ owner \notin {NoOwner, c}
        /\ callee' = [callee EXCEPT ![c] = owner]
        /\ Goto(c, "flush")
        /\ UNCHANGED << serverVars, data >>
  /\ UNCHANGED << clientVars, lockVars, op, attr, buf >>

\* get when flush has returned.
ServerGetReply(c) ==
  /\ pc[c] = "getReply"
  /\ ServerRead(c)
  /\ UNCHANGED << clientVars, lockVars, op, attr, buf >>

\* put, which flush_handler calls: write_file.
ServerPut(c) ==
  /\ pc[c] = "flushPut"
  /\ disk' = data[c]
  /\ Goto(c, "flushed")
  /\ UNCHANGED << clientVars, owner, lockVars, callVars, buf >>

\* getattr: the first client that asks becomes the owner; the attributes come
\* from the inode for the owner, from the owner for another client.
ServerGetattr(c) ==
  /\ pc[c] = "getattr"
  /\ \/ /\ owner \in {NoOwner, c}
        /\ owner' = c
        /\ attr' = [attr EXCEPT ![c] = Size[disk]]
        /\ Goto(c, "gotAttr")
        /\ UNCHANGED callee
     \/ /\ owner \notin {NoOwner, c}
        /\ callee' = [callee EXCEPT ![c] = owner]
        /\ Goto(c, "get_attr")
        /\ UNCHANGED << owner, attr >>
  /\ UNCHANGED << clientVars, disk, lockVars, op, data, buf >>

-----------------------------------------------------------------------------

\* yfs_client acquires the lock of the inode before its calls, and releases
\* it after them.
Locking(c) ==
  /\ \/ Lock!Request(c) \/ Lock!Grant(c) \/ Lock!RequestAndGrant(c)
     \/ pc[c] = "idle" /\ Lock!Release(c)
  /\ UNCHANGED << clientVars, serverVars, callVars, buf, pc >>

Call(c) ==
  get(c) \/ getattr(c) \/ \E content \in Contents : put(c, content)

Step(c) ==
  \/ GetReturns(c) \/ GetattrReturns(c) \/ Return(c)
  \/ FlushHandler(c) \/ FlushReturns(c) \/ GetAttrHandler(c)
  \/ ServerGet(c) \/ ServerGetReply(c) \/ ServerPut(c) \/ ServerGetattr(c)

Next == \E c \in Clients : Locking(c) \/ Call(c) \/ Step(c)

Spec == Init /\ [][Next]_vars

-----------------------------------------------------------------------------
(***************************************************************************)
(* Properties                                                              *)
(***************************************************************************)

\* The content of the extent: the valid copy of a client, else the disk.
Holding == {c \in Clients : data_stat[c] = "OK"}
content == IF Holding = {} THEN disk ELSE file_data[CHOOSE c \in Holding : TRUE]

\* A client with valid data is the one the server takes for the owner, so
\* that no second copy is written and no put is lost when a third asks.
OwnerHasTheCopy == \A c \in Clients : data_stat[c] = "OK" => owner = c

\* No handler touches the cache of a client whose own thread is using it:
\* extent_client has no mutex, and relies on the lock of the inode.
HandlersDoNotRace ==
  \A c \in Clients :
    pc[c] \in {"flush", "flushPut", "flushed", "get_attr"} =>
      /\ callee[c] \notin holders \cup {NoOwner}
      /\ pc[callee[c]] = "idle"

\* get_attr_handler finds an entry, whose attributes somebody has set: it
\* tests neither, and a FileData is created with uninitialised attributes.
AttributesAreSet ==
  \A c \in Clients : pc[c] = "get_attr" =>
    cached[callee[c]] /\ file_attr[callee[c]] # Garbage

\* Whether a client is in a call of its extent_client.
busy == [c \in Clients |-> pc[c] # "idle"]

Service == INSTANCE ExtentService

\* The caches are transparent to get and put: the content changes only when
\* a put of some client returns, to what that put was given, through every
\* flush, early return of flush_handler and change of the owner; and what get
\* returns, with or without the server, is that content.
ImplementsRegister == Service!Spec
=============================================================================
