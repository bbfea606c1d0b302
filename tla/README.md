# A TLA+ development for yfs

yfs is a distributed file system: each client machine runs a fuse process that
turns kernel requests into operations on *extents* kept by an extent server,
under *locks* kept by a lock server. Clients cache both locks and extents. This
directory holds TLA+ models of the parts that carry that logic, TLC
configurations that check them on small instances, and TLAPS proofs of the
protocols, the RPC layer and the inode layer for every value of their parameters.

## The system

    kernel -- fuse.cc -- yfs_client -+- lock_client_cache   <-RPC->  lock_server_cache
                                     +- extent_client       <-RPC->  extent_server
                                                                       inode_manager
                                                                       block_manager, disk

    under every RPC:  rpcc::call -- marshall -- network -- ThrPool -- handler made by rpcs::reg
    under every call back of a server:  handle -- handle_mgr -- rpcc

| component | state | operations | what makes it correct |
|---|---|---|---|
| `lock_client_cache` | per lock: state, message slot, list of threads with a condition variable each | `acquire`, `release`, `blockUntilGot`; called by the server: `revoke_handler`, `retry_handler` | one holder; every waiter is woken; no revoke or retry is lost |
| `lock_server_cache` | per lock: state, owner, retrying client, ordered set of waiting clients | `acquire`, `release` (both call clients back) | its assertions hold; somebody always moves a lock that is waited for |
| `extent_client` | per extent: validity flags, data, attributes; no mutex | `create`, `get`, `getattr`, `put`, `remove`; `flush_handler`, `flush_rm_handler`, `get_attr_handler` | `get` returns the last `put` of any client; handlers do not race with calls |
| `extent_server` | per extent: owner | `create`, `get`, `getattr`, `put`, `remove` (call clients back) | one valid copy, and the server knows whose |
| `inode_manager` | inode table, chains of inodes for long files | `alloc_inode`, `free_inode`, `read_file`, `write_file`, `getattr`, `remove_file` | files read back; nothing is shared or leaked |
| `block_manager`, `disk` | bitmap, blocks | `alloc_block`, `free_block` | an allocated block is nobody else's |
| `yfs_client` | none between calls; directories are text in extents | `create`, `mkdir`, `symlink`, `lookup`, `readdir`, `unlink`, attributes, `read`, `write`, `setattr`, `readlink` | directory entries are unique, current and not lost; reads and writes touch exactly their bytes; every call returns |
| `fuse.cc` | none | one handler per kernel request, one at a time | calls the right operation |
| `handle.cc` | reference-counted RPC clients | `get_handle`, `safebind`, `done_handle` | no use after deletion; one connection per client |
| `rpc/marshall.h`, `rpc/rpc.h` | a buffer per message | `<<`, `>>`, `call`, `call_m`, `reg` | a handler reads what was sent, a caller what was returned |
| `rpc/fifo.h`, `rpc/thr_pool.h` | a queue of jobs and sleeping threads per process | `enq`, `deq`, `addObjJob` | no job is forgotten; threads that wait for calls leave one to serve them |
| rest of the RPC library | binary archives only | connections, retransmission, at-most-once | external |

What is hard here: RPCs nest (an `acquire` of one client makes the server call
`revoke` at another, which calls `release` at the server, which calls `retry` at
a third); mutexes are released around them, so replies and callbacks overtake
one another; condition variables lose signals; the extent caches have no mutex
and depend on the lock protocol; the server has none around the inode layer.
`PROJECT.json` lists these hazards line by line with the properties that would
catch them.

## Modules

**LockCache** (`lock_client_cache`, `lock_server_cache`). One lock id; the
entries of different ids share only a mutex that is never held across a call or
a wait. A thread of an application is followed through the whole chain of calls
it starts, `pc[t]` being its place, and an action is a stretch of code under one
`lockManagerLock`: `Acquire`, `WakeAfterRelease`, `WakeQueued`,
`WakeAfterRetry`, `AcquireReturns`, `Release`, `ReleaseReturns`,
`RevokeHandler`, `RevokeReleaseReturns`, `RetryHandler` at a client,
`ServerAcquire`, `RevokeOwner` (the read of the owner after the unlock),
`ServerRelease` at the server. Assertions of the code are guards, and properties
say that the guards never stop anybody. A signal to a thread that is not waiting
is lost. Client ids are numbers because `release` takes the least of a
`std::set<std::string>`.

**LockService** is the abstract lock: one holder, first come first served among
the threads of a client. LockCache implements it (`ImplementsService`).

**LockCacheSpurious** adds condition-variable waits that return by themselves.

**ExtentCache** (`extent_client`, `extent_server`). One extent. Its clients
acquire and release the lock of the inode through an INSTANCE of LockService,
call `get`, `getattr` and `put` in any order while they hold it, and the server
calls `flush` and `get_attr` back. The one call without the lock is the `put` of
`symlink` into the extent it has just created: nobody else can know the number
before it is in the directory, so the model begins either with an extent that
nobody has touched or where that `put` has returned. The attributes are
abstracted to the size; `Garbage` is what an uninitialised `file_attr` holds.
**ExtentService** is the abstract register (`ImplementsRegister`): its content
changes only in the step in which a `put` returns, to the argument of that `put`,
and a `get` returns it. The content of ExtentCache is the valid copy, or the disk
when there is none, so a flush that loses or brings back a content is no step of
the register.

**Bitmap** has the test that `alloc_block` makes. `CHECK` is a macro without
parentheses, so `!CHECK(buf, i)` is `(!(byte >> position)) & 0x1`: block `i` is
taken for free when neither its bit nor that of a block before it in the same byte
is set (`NotCheck`). Of each byte of the bitmap only the first block of a region is
ever allocated: on the real disk 513 inodes of 4096, and about one data block of
eight.

**InodeManager** (`inode_manager`, `block_manager`, one call at a time). A block
holds the number of the write and its place in the file instead of bytes; blocks
have the numbers they have on the disk, as the bytes of the bitmap go by them. The
loop of `write_file` is `WriteBlocks` (a recursive function over the blocks), with
`NextInode`, `PlaceBlock` and `WriteBlock` for one block, and `FreeTail`. What
`malloc` leaves unset in a new inode is `NoBlock`. Both regions of the disk run out:
`alloc_block` then returns the super block (`NoBlock`), which files may share, and
`alloc_inode` a number that is out of range (`NoInode`). `get_inode` returns NULL for
such a number and for inode `INODE_NUM`; `write_file` and `free_inode` use
it, so the server dies (`alive`), and as the disk is in its memory the files go with
it. (With the sizes of the code the last inode that is ever allocated is number
4093; with others it may be `INODE_NUM`.) `files` is what the callers wrote, for
comparison; it is not in the code.

**YfsClient** (directory operations of `yfs_client`, as `fuse.cc` calls them). An
action is one call of `lc` or `ec` with what follows it: `AcquireFlag`
(`create_flag`), `Acquire`, `Get` (with the branch of each operation), `Create`
and `CreateReturns` (the server reads the bitmap; it marks an inode and answers),
`Put`, `ReleaseFlag`, `Release`, after which `fuse.cc` asks for the attributes of an
inode that was found or created. A directory is the list of its entries, as
`directory()` parses it. `getattr` stands for `isfile`, `islink`, `isdir`, `getfile`
and `getdir`: lock, read, unlock. Of the server there is what decides which number
a create gets: the bitmap of the inodes, and the inodes in which long files go on.
A file whose writer has made it longer or shorter by an inode is `dirty`; when
another client gets it, the flush takes an inode (`FlushGrows`) or gives one back
(`FlushCuts`), reading the bitmap in one step and writing it in another, as
`create` does, and no lock orders it with the creates of others. With no inode left
`alloc_inode` returns `NoInode`, which a create enters in the directory as any other
number; the server dies (`down`) when it is to use it, and the model ends there.
`Spec` has all behaviours; `SerialSpec` those in which no flush overlaps another
request that changes the bitmap. Bounds of the model: a flush changes a chain by one
inode, directories and links fit into one inode, an inode that two files have got is
not followed further into their contents, and all clients have started before.

**YfsFile** (`read`, `write`, `setattr`, `readlink` and the attribute calls of
`yfs_client` on one file or link) composes these operations with ExtentCache: it
extends that module, and each of its actions conjoins one of ExtentCache or leaves
its state alone, so the proofs about ExtentCache speak of it too.
`Start` begins an operation once the lock is granted, `Ask` is a call of
`extent_client`, `GetattrDone`, `GetDone` and `PutDone` are what an operation does
when the call returns, with one operator for each operation. Contents are sequences of bytes; `read`, `write` and
`resize` are the code's use of `std::string`, and the reference definitions
`IsRead`, `Written` and `Resized` say position by position what is meant.
`erase` behind the end throws, and the client ends with the lock held.

**Marshall** (`rpc/marshall.h`, the templates of `rpc/rpc.h`). A buffer is a
sequence of cells: one for an int, two for an unsigned long long, one per
character. One operator stands for all the arities of `rpcc::call`, another for
those of `rpcs::reg`; `written` and `parsed` are the buffer after each argument.

**ThrPool** (`rpc/fifo.h`, `rpc/thr_pool.h`). Threads of a pool are counted, not
named: those asleep in `deq`, those about to look at the queue. The archive's
`rpcs` makes `ThrPool(6, false)`, a queue of 600 that does not block `enq`: a
request that does not fit stays with its connection and is offered again.

**HandleMgr** (`handle.cc`). `hmap` has an `hinfo` per client; `get_handle` and
`done_handle` are single steps under `handle_mutex`, `safebind` is
`SafebindEnters` and, when it has to connect, `BindReturns`, with `cl_mutex` held
in between. A bind may fail.

**RpcCalls** composes these three. Each client calls its server; the call and
what it causes are a stack of requests, such as `acquire`, `revoke`, `release`,
`retry`. A request is sent, queued by the poll thread (`GotPdu`), taken by a
thread (`Dispatch`, which reads the arguments), and keeps that thread until it
returns (`Return`, which reads the reply). In between the handler may make a
handle, bind and call back, or call the server from a client. Which client is
called back is LockCache's and ExtentCache's business; here it is any. A call on
a NULL connection ends the server (`stopped`). The variable `kind` chooses the
lock server, the extent server, or the lock server with `lock_demo`. `pdus`, `fn`
and `answers` tabulate the messages so that TLC computes each once.

**LockCacheInv**, **ExtentCacheInv**, **YfsClientInv**, **YfsFileInv**,
**RpcCallsInv** and **InodeManagerInv** hold the inductive invariants, the modules whose names end in
**Proofs** the theorems, **NaturalsLemmas** what several of them need about sets of
numbers. The **MC** modules extend the **Inv** modules and give constants their
values. Operators under "slips" change one definition the way a
mistake in the code would; each shows that a property depends on that
definition.

## Runs

| run | instance | shows |
|---|---|---|
| `lock` | 3 clients with 2, 2 and 1 threads | mutual exclusion, all assertions, revoke and retry reach the right client in the right state, no message overwritten (`NoMessageLost`), waiters are served, `IInv`, LockService is implemented, and a client starves only while two others pass the lock between them (`ServedUnlessTwoPassTheLock`) |
| `lock_spurious_wakeup` | the same | **violation**: two holders |
| `extent_coherence` | 3 clients, 2 contents of different size | register semantics, one known copy, no handler race, no garbage, `IInv` |
| `file_contents` | 2 clients, files of up to 2 bytes of 2 values, symmetric | reads and writes are exact, also at and behind the end of the file; `FInv` |
| `setattr_stale_size` | the same, 1 byte | **violation**: a truncation that does nothing |
| `inode_files` | blocks of 2 bytes, 2 direct blocks, bytes of 4 bits, 6 inodes and 14 data blocks that can be allocated, 6 calls | files read back, nothing shared, `IInv` |
| `inode_cut` | the same with more data blocks, 3 calls | **violation**: the blocks of a chained inode stay marked when the file is cut |
| `directories` | 2 clients, 2 names, 3 inodes that can be allocated, symmetric, `SerialSpec` | unique names, one entry per inode, answers current, no entry lost, `SInv` |
| `create_during_flush` | the same with 4 inodes, `Spec` | **violation**: a created file gets the inode in which a long file goes on |
| `directory_calls_return` | 2 clients, 2 names, 2 inodes that can be allocated, `Spec` with fairness | every operation returns, unless the server dies; `IInv` |
| `unlink_leak` | as `directories` | **violation**: extent stays allocated |
| `server_callbacks` | 1 server, 2 clients, pools of 3 threads, queues of 1 | arguments and replies arrive, handles are counted, one bind per client, the server dies only of a failed bind, no lost wake-up, every request returns, `IInv` |

Why the bounds are enough for the cases of interest. Three lock clients give an
owner, a retrying client and a waiting one at once, which is when the server goes
from RETRYING straight to REVOKING; two threads of a client give a front and a
queued one, and the third client needs one only. Three extent clients give an owner, a reader with copied attributes
and one that flushes both. File sizes are the ends of a block, of an inode and
of a chain, and one byte more; six calls grow, cut, remove and reuse, and with 6
inodes and 14 data blocks they use up either; a byte of the bitmap is shared by the
two regions. Root, a directory and one inode more let two clients create in two
different directories, where only `create_flag` orders them, let one of the inodes
be a long file whose flush meets a create, and are used up by the next create. Two bytes have a first, a last and a gap between an
offset and the end. Two clients whose calls are all in progress give two handlers
that call the same client (its own `acquire` and the other's), and stacks of four
requests each; three threads are the least pool that serves them. A queue of one
is full at once, which `EveryRequestReturns` has to bear; that no wake-up is lost
when jobs queue up is proved for queues of any length (`NoWakeUpIsLost`). `MaxCalls`, `INODE_NUM`, `BLOCK_NUM` and `MaxSize` are bounds;
`inode_files` stops at `MaxCalls`, `file_contents` when `erase` has ended the
client that holds the lock, the runs of RpcCalls and of YfsClient when the server is
dead, hence
their `CHECK_DEADLOCK FALSE`.

**Fairness.** `LockCache`: weak fairness of each thread's next step, i.e. the
scheduler runs runnable threads, the RPC library delivers requests and replies,
and who holds a lock releases it, as every operation of `yfs_client` does.
Calling `acquire` is never assumed. `YfsClient`: the same for the steps of an
operation, and strong fairness of taking a lock, which with two clients is what
`ServedUnlessTwoPassTheLock` shows of the protocol below. With three clients a
client can wait for ever: `release` picks the least waiting id, so two others can
pass the lock between them; the property says that nothing else starves it.
`RpcCalls`: weak fairness of each request's next step (a bind ends after a second)
and of each pool, and strong fairness of `GotPdu`, as the poll thread goes round
the connections and offers a request again until the queue takes it.

`EveryRequestReturns` has the condition that there are more threads in a pool than
clients that call at once, and needs it: with two threads and two clients TLC
finds both in `acquire`, each waiting for a `revoke` whose `release` has no thread
left, until the calls time out. The pool of `rpcs` has 6 threads, so 6 clients are
enough for it; `lock_tester.cc:17` speaks of 10.

## Findings

1. *Spurious wake-ups.* None of the three `pthread_cond_wait` in
   `lock_client_cache.cc` re-tests a condition. A queued thread that wakes by
   itself sees `LOCKED` and returns as if it had been handed the lock.
2. *Stale sizes.* A flush at a client that has attributes and no data leaves them
   valid (`extent_client.cc:152`), as do attributes copied from an owner that goes
   on writing, so `getattr` may return an old size, and `setattr` works with it: it
   may do nothing (the run's trace, `yfs_client.cc:231`), cut in the wrong place,
   drop bytes before the end, or throw. Contents are always coherent.
3. *Leaked blocks.* A chained inode has size 0, so `free_inode` frees none of its
   data blocks when a file is cut.
4. *Bitmap race.* `alloc_block` and `free_block` are not atomic, and the server
   runs requests for different inodes in parallel. `create_flag` keeps creates apart
   from each other only: a create and the flush of a long file get one inode.
5. *unlink.* `finum = direct.find(name_str)==0` is a comparison, so the extent is
   never removed.

The models have these too, as the code does them, without a run that is about them.
`!CHECK` tests the wrong thing (see Bitmap), so that an eighth of the disk can be
used. With the inode table full `create` answers OK with a number that is no inode,
and the server dies of the `getattr` that follows; root and 512 more inodes fill it.
`blocks[0]` of a new inode, which `alloc_inode` takes from the disk, is replaced by
the first write and lost. `unlink` answers OK for a missing name (`fuse.cc:438`:
ENOENT), and unlinks directories. `lock_client::stat` sends an id and a lock while
`lock_server_cache::stat` takes a lock only: the call is always refused, and
`lock_demo` ends in the VERIFY of `lock_client.cc:26`; `ArgumentsArrive` and
`RepliesArrive` leave `stat` out. Both servers call `safebind()->call` without the
test that `handle.h` shows in its example, so one client that cannot be bound ends
the server; the branch of `done_handle` that deletes an entry is therefore never
reached in them.

## Proofs

`tlapm` checks every proof from the assumptions that the modules name:

| module | assumed of its constants |
|---|---|
| LockCache | client ids are positive numbers (0 stands for the empty string), `ClientOf` maps threads to clients |
| ExtentCache | the empty content is a content, sizes are natural numbers, the null values are none of the proper ones |
| YfsFile | those of ExtentCache, where contents are all the byte strings up to `MaxSize` and the size is the length; 0 is a byte |
| YfsClient | there is an inode, a byte has a bit, `NoClient` is no client |
| InodeManager | blocks, bytes and inodes hold something, there is an inode for the root; the data region may be empty, the sizes written are any natural numbers |
| RpcCalls | the endpoints are the clients and the server, the server is no client, names are sequences of numbers, pools and queues have room for one; clients are finitely many |

The numbers of clients and threads, the lengths of files, lists and queues and the
sizes of pools, disks, inodes and blocks are arbitrary. Clients must be finitely many where something is
counted: the handles for a client.
The invariants were checked by TLC before they were proved, and the runs still
check them.

*Lock protocol.* Mutual exclusion is not inductive: it needs that a client whose
entry is FREE or LOCKED is the server's owner, that only the first thread of a
client's list is active, and that these survive every overtaking of calls. `IInv`
in LockCacheInv has a part for the lists of threads (`QueueInv`), for what the
place of a thread says of its entry (`PhaseInv`, `EntryInv`), for the server's
entry (`ServerInv`), for ownership (`OwnerInv`), for handlers that release
(`HandlerInv`), for clients told to wait (`WaitInv`), for the retry under way
(`RetryInv`) and for the one move of the lock that may be under way (`MoveInv`).
LockCacheProofs has one lemma per action, `Invariance`, and from it `TypeCorrect`,
`Mutex`, `ServerAssertions`, `ClientAssertions`, `RevokeIsNotLost` and
`RetryIsNotLost`. `WaitersNeverForgotten` needs one thing more, `Served`: while the
server is REVOKING, a call is moving the lock or the owner has the message.
`MessagesAreKept` says of each step which slot it may change. `Refinement` maps the
protocol to LockService: a thread is in the abstract queue until it calls release,
so the step that starts the release RPC is the abstract release and the one that
ends it is invisible. ExtentCache is built on that same LockService, so the two
proofs join there.

*Extent protocol.* `IInv` in ExtentCacheInv says that only the lock holder is
inside a call (`LockInv`), that handlers run at the owner (`CalleeInv`), where the
content is while it moves (`MoveInv`) and where attributes are set (`AttrInv`).
From `Invariance` follow `TypeCorrect`, `CopyIsKnown`, `RaceFreedom`, `NoGarbage`
and `Refinement`: every step of the caches is the start or the return of a call of
the register, or a stutter; of all the steps that move the content between caches and
disk only the return of a `put` may change it.

*File contents.* YfsFileProofs first shows what the string operators compute, for
strings of any length: `substr` and `replace` position by position, from these that
`read`, `write` and `resize` are `IsRead`, `Written` and `Resized`. `FInv` adds to
the invariant of ExtentCache that an operation is under way only at the lock holder
and inside the call its place says (`AtOK`, `CallOK`), that the result fits
(`FitsOK`: the stale size that `setattr` may be told is one of those it was checked
against), and that between get and put `file_str` is what the content is to become
(`PutOK`). The lemmas of ExtentCache serve for the extent's part of each step; `ExactReads` and
`ExactChanges` are what a user of the file sees.

*Directories.* There are two invariants. `IInv` in YfsClientInv holds of `Spec`: it
says where an operation can be (`PhaseInv`), which locks it holds at each point
(`LockInv`), and that between its get and its put it knows the directory as it is
(`DirectInv`). `UniqueNames`, `CurrentAnswers` and `EntriesAreKept` follow, whatever
the server does with its bitmap. Which inode a create gets is another matter: `SInv`
adds that a request which has read the bitmap has it as it is (`CopyInv`: here
`create_flag` is needed, and that no flush overlaps), that the inodes of long files
are marked and in one chain only (`ChainInv`), and that an inode which was allocated
is in no directory before the put (`AllocInv`). It holds of `SerialSpec`, and
`EntriesAreDisjoint` with it; `create_during_flush` shows that the restriction is
needed. A full table is part of both.

*Inodes and blocks.* `IInv` in InodeManagerInv says that the inodes of a file are
marked and in no other chain (`ChainsTaken`, `ChainsApart`), the same of its blocks
(`BlocksTaken`, `BlocksApart`), and that each block holds its data (`Holds`). Two
parts are about what the code takes for granted: a chained inode has size 0, so that
the `free_inode` of `write_file`, which is not told the size, frees that inode only
and no block that is still in use; and `get_inode` can read it, so that only the
first inode of a file can be refused. `WellFormed` speaks of a disk and of the number
of blocks of each file, and so also of the disk in the middle of `write_file`: the
loop keeps `LoopInv`, which is about the disk as it will be when the copy of the last
inode is written back (`Written`), with the file as long as the longer of the old
one and what is done. `Iteration` has the cases of the code: the inode at hand, the next one
(`ReadyInNext`) or a new one (`ReadyInNew`), then a block that is written over
(`Overwrites`) or added (`Appends`). `TailIsFreed` is the second loop, `CutFile` what
is left of the files when a tail is freed, for `write_file` and `free_inode` alike.
Comparisons of bytes become comparisons of blocks once (`BlocksOfSize`).
`WritesReadBack` and `FilesAreDisjoint` follow from `Invariance`. `ChainedInode` and
`WriteBlocks` are recursive functions; that their recursions have solutions is shown
by the same induction over a set of numbers as below (`ChainExists`, `LoopExists`).

*Calls.* In RpcCallsProofs a stack is a set of frames, and steps are described by
the frames they change. `ShapeInv` says which procedure can be at which depth, so
stacks have at most four requests; that every thread of a pool is asleep, awake or
busy is a count of the frames at an endpoint (`TypeCorrect`), that `refcnt` is the
number of handles a count of the frames that have one (`CountsAreExact`). Handles
are held at depths 1 and 3 only, which bounds the count, and shows that the branch
of `done_handle` that deletes an entry is not taken. `HandleInv` says who has
`cl_mutex` and gives `OneConnection` and `OnlyAFailedBindKills`. `PayloadInv` says
what a request carries until a thread takes it, which is what the handler then
reads (`ArgumentsReachHandlers`), and `ResultInv` what the callers were told
(`RepliesReachCallers`); who has sent a request is told by the frame below it.

*Buffers.* `written` and `parsed` are recursive functions over the arguments of a
call. MarshallProofs shows first that their recursions have solutions, then what
they are: `written` appends the cells of one argument after the other
(`WrittenBuffers`), none of which is overwritten later (`WrittenSegments`) or by the
header (`HeaderCells`), and where the cells of a value are, `>>` gets back that value
and stops behind them (`GetValue`). `ArgumentsRoundTrip`, `ReplyRoundTrip` and
`RefusalRoundTrip` follow. Induction is over a set of numbers, the positions for which
the claim holds (`Induction` in NaturalsLemmas, from the least element of a set):
the library's induction theorems take a predicate, which the provers cannot
instantiate.

The type invariant of LockCache is part of its `IInv` and proved with it; no run lists
it apart.

Only model-checked: the liveness properties (fairness and ENABLED are beyond the
prover). Every invariant and every action property that a run checks is also proved;
the properties of the runs that show a violation are false, and so are not.

## Not modelled

- The binary part of the RPC library: a call is delivered once, after any delay,
  and never fails. Timeouts, at-most-once failures, retransmission and lossy mode
  are therefore outside the models, and with them what `lock_client_cache` does
  with a failed RPC (it takes a failed `acquire` for RETRY and a failed `release`
  for a success). Vectors and maps in buffers: no RPC sends one.
- `handle_mgr::delete_handle`: nobody calls it.
- `extent_client::remove`, `flush_rm_handler`, `extent_server::remove`:
  unreachable as `unlink` is written.
- Access, change and modification times.
- The reset of the root directory by the constructor of `yfs_client`; YfsClient
  begins when every client has started.
- What a file reads as after it has come to share an inode with another.
- `lock_server.cc` (not registered in `lock_smain.cc`), demos, tests, scripts,
  `gettime.cc`.

## Plan

Done, in this order: LockService and LockCache with their proofs; ExtentCache
over LockService with its proofs; InodeManager; YfsClient; YfsFile
over ExtentCache; Marshall, ThrPool, HandleMgr and RpcCalls.

Proved since: the operations on file contents, the directory operations, the calls
between servers and clients and what they carry, that LockCache implements
LockService, and the inode layer.

Next: calls that fail, as a variant of LockCache; a yfs_client that starts late; the
inode layer with several calls in progress, once the bitmap race is fixed in the
code.
