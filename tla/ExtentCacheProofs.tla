------------------------- MODULE ExtentCacheProofs -------------------------
(***************************************************************************)
(* Proofs about the caching extent protocol, for any set of clients and    *)
(* any set of contents.                                                    *)
(***************************************************************************)
EXTENDS ExtentCacheInv, TLAPS

-----------------------------------------------------------------------------
(***************************************************************************)
(* One lemma per action                                                    *)
(***************************************************************************)

\* The calls of extent_client by yfs_client, answered from the cache or not.
LEMMA BeginStep ==
  ASSUME IInv, NEW c \in Clients, 
         NEW name \in {"get", "getattr", "put"}, NEW arg \in Contents,
         NEW label \in {"get", "getattr", "return"},
         label = "get" => data_stat[c] = "NONE",
         label # "get" => name = "getattr" \/ data_stat[c] = "OK",
         label = "return" => attr_stat[c] = "OK" \/ data_stat[c] = "OK",
         Begin(c, name, arg, label)
  PROVE  IInv'
<1>1. TypeOK'
  BY ContentsAssumption
  DEF IInv, TypeOK, Begin, Goto, clientVars, serverVars, lockVars, callVars,
      Label, InGet, InGetattr, CacheState, Operation
<1>2. LockInv'
  BY NoOwnerAssumption
  DEF IInv, TypeOK, LockInv, Begin, Goto, clientVars, serverVars, lockVars,
      callVars, CacheState
<1>3. CalleeInv'
  BY NoOwnerAssumption
  DEF IInv, TypeOK, LockInv, CalleeInv, Begin, Goto, clientVars, serverVars,
      lockVars, callVars, CacheState
<1>4. MoveInv'
  BY NoOwnerAssumption
  DEF IInv, TypeOK, LockInv, CalleeInv, MoveInv, OwnerHasTheCopy, Begin,
      Goto, clientVars, serverVars, lockVars, callVars, CacheState
<1>5. AttrInv'
  BY GarbageAssumption
  DEF IInv, TypeOK, LockInv, CalleeInv, AttrInv, Begin, Goto, clientVars,
      serverVars, lockVars, callVars, CacheState
<1>6. OwnerHasTheCopy'
  BY NoOwnerAssumption
  DEF IInv, TypeOK, LockInv, CalleeInv, MoveInv, OwnerHasTheCopy, Begin,
      Goto, clientVars, serverVars, lockVars, callVars, CacheState
<1> QED  BY <1>1, <1>2, <1>3, <1>4, <1>5, <1>6 DEF IInv

\* extent_client::get after its RPC.
LEMMA GetReturnsStep ==
  ASSUME IInv, NEW c \in Clients, GetReturns(c)
  PROVE  IInv'
<1>1. TypeOK'
  BY ContentsAssumption
  DEF IInv, TypeOK, GetReturns, Goto, clientVars, serverVars, lockVars,
      callVars, Label, InGet, InGetattr, CacheState, Operation
<1>2. LockInv'
  BY NoOwnerAssumption
  DEF IInv, TypeOK, LockInv, GetReturns, Goto, clientVars, serverVars,
      lockVars, callVars, CacheState
<1>3. CalleeInv'
  BY NoOwnerAssumption
  DEF IInv, TypeOK, LockInv, CalleeInv, GetReturns, Goto, clientVars,
      serverVars, lockVars, callVars, CacheState
<1>4. MoveInv'
  BY NoOwnerAssumption
  DEF IInv, TypeOK, LockInv, CalleeInv, MoveInv, OwnerHasTheCopy,
      GetReturns, Goto, clientVars, serverVars, lockVars, callVars,
      CacheState
<1>5. AttrInv'
  BY GarbageAssumption
  DEF IInv, TypeOK, LockInv, CalleeInv, AttrInv, GetReturns, Goto,
      clientVars, serverVars, lockVars, callVars, CacheState
<1>6. OwnerHasTheCopy'
  BY NoOwnerAssumption
  DEF IInv, TypeOK, LockInv, CalleeInv, MoveInv, OwnerHasTheCopy,
      GetReturns, Goto, clientVars, serverVars, lockVars, callVars,
      CacheState
<1> QED  BY <1>1, <1>2, <1>3, <1>4, <1>5, <1>6 DEF IInv

\* extent_client::getattr after its RPC.
LEMMA GetattrReturnsStep ==
  ASSUME IInv, NEW c \in Clients, GetattrReturns(c)
  PROVE  IInv'
<1>1. TypeOK'
  BY ContentsAssumption
  DEF IInv, TypeOK, GetattrReturns, Goto, clientVars, serverVars, lockVars,
      callVars, Label, InGet, InGetattr, CacheState, Operation
<1>2. LockInv'
  BY NoOwnerAssumption
  DEF IInv, TypeOK, LockInv, GetattrReturns, Goto, clientVars, serverVars,
      lockVars, callVars, CacheState
<1>3. CalleeInv'
  BY NoOwnerAssumption
  DEF IInv, TypeOK, LockInv, CalleeInv, GetattrReturns, Goto, clientVars,
      serverVars, lockVars, callVars, CacheState
<1>4. MoveInv'
  BY NoOwnerAssumption
  DEF IInv, TypeOK, LockInv, CalleeInv, MoveInv, OwnerHasTheCopy,
      GetattrReturns, Goto, clientVars, serverVars, lockVars, callVars,
      CacheState
<1>5. AttrInv'
  BY GarbageAssumption
  DEF IInv, TypeOK, LockInv, CalleeInv, AttrInv, GetattrReturns, Goto,
      clientVars, serverVars, lockVars, callVars, CacheState
<1>6. OwnerHasTheCopy'
  BY NoOwnerAssumption
  DEF IInv, TypeOK, LockInv, CalleeInv, MoveInv, OwnerHasTheCopy,
      GetattrReturns, Goto, clientVars, serverVars, lockVars, callVars,
      CacheState
<1> QED  BY <1>1, <1>2, <1>3, <1>4, <1>5, <1>6 DEF IInv

\* The return of a call to yfs_client.
LEMMA ReturnStep ==
  ASSUME IInv, NEW c \in Clients, Return(c)
  PROVE  IInv'
<1>0. op[c].arg \in Contents /\ Size[op[c].arg] \in Nat
  BY SizeAssumption DEF IInv, TypeOK, Operation
<1>1. TypeOK'
  <2>1. /\ op' \in [Clients -> Operation] /\ pc' \in [Clients -> Label]
        /\ callee' \in [Clients -> Clients \cup {NoOwner}]
        /\ data' \in [Clients -> Contents]
        /\ attr' \in [Clients -> Nat \cup {Garbage}]
    BY ContentsAssumption DEF IInv, TypeOK, Return, Goto, Operation, Label
  <2>2. /\ data_stat' \in [Clients -> CacheState]
        /\ attr_stat' \in [Clients -> CacheState]
        /\ file_data' \in [Clients -> Contents]
        /\ file_attr' \in [Clients -> Nat \cup {Garbage}]
        /\ cached' \in [Clients -> BOOLEAN]
    BY <1>0 DEF IInv, TypeOK, Return, Write, clientVars, CacheState
  <2>3. buf' \in Contents /\ UNCHANGED << owner, disk, holders >>
    BY DEF IInv, TypeOK, Return, serverVars, lockVars
  <2> QED  BY <2>1, <2>2, <2>3 DEF IInv, TypeOK
<1>2. LockInv'
  BY <1>0, NoOwnerAssumption
  DEF IInv, TypeOK, LockInv, Return, Goto, Write, clientVars, serverVars,
      lockVars, callVars, CacheState
<1>3. CalleeInv'
  BY <1>0, NoOwnerAssumption
  DEF IInv, TypeOK, LockInv, CalleeInv, Return, Goto, Write, clientVars,
      serverVars, lockVars, callVars, CacheState
<1>4. MoveInv'
  BY <1>0, NoOwnerAssumption
  DEF IInv, TypeOK, LockInv, CalleeInv, MoveInv, OwnerHasTheCopy, Return,
      Goto, Write, clientVars, serverVars, lockVars, callVars, CacheState
<1>5. AttrInv'
  BY <1>0, GarbageAssumption
  DEF IInv, TypeOK, LockInv, CalleeInv, AttrInv, Return, Goto, Write,
      clientVars, serverVars, lockVars, callVars, CacheState
<1>6. OwnerHasTheCopy'
  BY <1>0, NoOwnerAssumption
  DEF IInv, TypeOK, LockInv, CalleeInv, MoveInv, OwnerHasTheCopy, Return,
      Goto, Write, clientVars, serverVars, lockVars, callVars, CacheState
<1> QED  BY <1>1, <1>2, <1>3, <1>4, <1>5, <1>6 DEF IInv

\* flush_handler, with and without valid data.
LEMMA FlushHandlerStep ==
  ASSUME IInv, NEW c \in Clients, FlushHandler(c)
  PROVE  IInv'
<1>0. callee[c] \in Clients
  BY DEF IInv, TypeOK, CalleeInv, FlushHandler
<1>1. TypeOK'
  <2>1. data' \in [Clients -> Contents]
    BY <1>0 DEF IInv, TypeOK, FlushHandler
  <2>2. pc' \in [Clients -> Label]
    BY DEF IInv, TypeOK, FlushHandler, Goto, Label, InGet
  <2> QED
    BY <2>1, <2>2 DEF IInv, TypeOK, FlushHandler, clientVars, serverVars, lockVars
<1>2. LockInv'
  BY <1>0, NoOwnerAssumption
  DEF IInv, TypeOK, LockInv, FlushHandler, Goto, clientVars, serverVars,
      lockVars, callVars, CacheState
<1>3. CalleeInv'
  BY <1>0, NoOwnerAssumption
  DEF IInv, TypeOK, LockInv, CalleeInv, FlushHandler, Goto, clientVars,
      serverVars, lockVars, callVars, CacheState
<1>4. MoveInv'
  BY <1>0, NoOwnerAssumption
  DEF IInv, TypeOK, LockInv, CalleeInv, MoveInv, OwnerHasTheCopy,
      FlushHandler, Goto, clientVars, serverVars, lockVars, callVars,
      CacheState
<1>5. AttrInv'
  BY <1>0, GarbageAssumption
  DEF IInv, TypeOK, LockInv, CalleeInv, AttrInv, FlushHandler, Goto,
      clientVars, serverVars, lockVars, callVars, CacheState
<1>6. OwnerHasTheCopy'
  BY <1>0, NoOwnerAssumption
  DEF IInv, TypeOK, LockInv, CalleeInv, MoveInv, OwnerHasTheCopy,
      FlushHandler, Goto, clientVars, serverVars, lockVars, callVars,
      CacheState
<1> QED  BY <1>1, <1>2, <1>3, <1>4, <1>5, <1>6 DEF IInv

\* flush_handler after its put RPC.
LEMMA FlushReturnsStep ==
  ASSUME IInv, NEW c \in Clients, FlushReturns(c)
  PROVE  IInv'
<1>1. TypeOK'
  BY ContentsAssumption
  DEF IInv, TypeOK, FlushReturns, Goto, clientVars, serverVars, lockVars,
      callVars, Label, InGet, InGetattr, CacheState, Operation
<1>2. LockInv'
  BY NoOwnerAssumption
  DEF IInv, TypeOK, LockInv, FlushReturns, Goto, clientVars, serverVars,
      lockVars, callVars, CacheState
<1>3. CalleeInv'
  BY NoOwnerAssumption
  DEF IInv, TypeOK, LockInv, CalleeInv, FlushReturns, Goto, clientVars,
      serverVars, lockVars, callVars, CacheState
<1>4. MoveInv'
  BY NoOwnerAssumption
  DEF IInv, TypeOK, LockInv, CalleeInv, MoveInv, OwnerHasTheCopy,
      FlushReturns, Goto, clientVars, serverVars, lockVars, callVars,
      CacheState
<1>5. AttrInv'
  BY GarbageAssumption
  DEF IInv, TypeOK, LockInv, CalleeInv, AttrInv, FlushReturns, Goto,
      clientVars, serverVars, lockVars, callVars, CacheState
<1>6. OwnerHasTheCopy'
  BY NoOwnerAssumption
  DEF IInv, TypeOK, LockInv, CalleeInv, MoveInv, OwnerHasTheCopy,
      FlushReturns, Goto, clientVars, serverVars, lockVars, callVars,
      CacheState
<1> QED  BY <1>1, <1>2, <1>3, <1>4, <1>5, <1>6 DEF IInv

\* get_attr_handler.
LEMMA GetAttrHandlerStep ==
  ASSUME IInv, NEW c \in Clients, GetAttrHandler(c)
  PROVE  IInv'
<1>0. callee[c] \in Clients
  BY DEF IInv, TypeOK, CalleeInv, GetAttrHandler
<1>1. TypeOK'
  BY <1>0, ContentsAssumption
  DEF IInv, TypeOK, GetAttrHandler, Goto, clientVars, serverVars, lockVars,
      callVars, Label, InGet, InGetattr, CacheState, Operation
<1>2. LockInv'
  BY <1>0, NoOwnerAssumption
  DEF IInv, TypeOK, LockInv, GetAttrHandler, Goto, clientVars, serverVars,
      lockVars, callVars, CacheState
<1>3. CalleeInv'
  BY <1>0, NoOwnerAssumption
  DEF IInv, TypeOK, LockInv, CalleeInv, GetAttrHandler, Goto, clientVars,
      serverVars, lockVars, callVars, CacheState
<1>4. MoveInv'
  BY <1>0, NoOwnerAssumption
  DEF IInv, TypeOK, LockInv, CalleeInv, MoveInv, OwnerHasTheCopy,
      GetAttrHandler, Goto, clientVars, serverVars, lockVars, callVars,
      CacheState
<1>5. AttrInv'
  BY <1>0, GarbageAssumption
  DEF IInv, TypeOK, LockInv, CalleeInv, AttrInv, GetAttrHandler, Goto,
      clientVars, serverVars, lockVars, callVars, CacheState
<1>6. OwnerHasTheCopy'
  BY <1>0, NoOwnerAssumption
  DEF IInv, TypeOK, LockInv, CalleeInv, MoveInv, OwnerHasTheCopy,
      GetAttrHandler, Goto, clientVars, serverVars, lockVars, callVars,
      CacheState
<1> QED  BY <1>1, <1>2, <1>3, <1>4, <1>5, <1>6 DEF IInv

\* extent_server::get up to the flush.
LEMMA ServerGetStep ==
  ASSUME IInv, NEW c \in Clients, ServerGet(c)
  PROVE  IInv'
<1>1. TypeOK'
  BY ContentsAssumption, ZenonT(60)
  DEF IInv, TypeOK, ServerGet, ServerRead, Goto, clientVars, serverVars,
      lockVars, callVars, Label, InGet, InGetattr, CacheState, Operation
<1>2. LockInv'
  BY NoOwnerAssumption
  DEF IInv, TypeOK, LockInv, ServerGet, ServerRead, Goto, clientVars,
      serverVars, lockVars, callVars, CacheState
<1>3. CalleeInv'
  BY NoOwnerAssumption
  DEF IInv, TypeOK, LockInv, CalleeInv, ServerGet, ServerRead, Goto,
      clientVars, serverVars, lockVars, callVars, CacheState
<1>4. MoveInv'
  BY NoOwnerAssumption
  DEF IInv, TypeOK, LockInv, CalleeInv, MoveInv, OwnerHasTheCopy, ServerGet,
      ServerRead, Goto, clientVars, serverVars, lockVars, callVars,
      CacheState
<1>5. AttrInv'
  BY GarbageAssumption
  DEF IInv, TypeOK, LockInv, CalleeInv, AttrInv, ServerGet, ServerRead,
      Goto, clientVars, serverVars, lockVars, callVars, CacheState
<1>6. OwnerHasTheCopy'
  BY NoOwnerAssumption
  DEF IInv, TypeOK, LockInv, CalleeInv, MoveInv, OwnerHasTheCopy, ServerGet,
      ServerRead, Goto, clientVars, serverVars, lockVars, callVars,
      CacheState
<1> QED  BY <1>1, <1>2, <1>3, <1>4, <1>5, <1>6 DEF IInv

\* extent_server::get after the flush.
LEMMA ServerGetReplyStep ==
  ASSUME IInv, NEW c \in Clients, ServerGetReply(c)
  PROVE  IInv'
<1>1. TypeOK'
  BY ContentsAssumption
  DEF IInv, TypeOK, ServerGetReply, ServerRead, Goto, clientVars,
      serverVars, lockVars, callVars, Label, InGet, InGetattr, CacheState,
      Operation
<1>2. LockInv'
  BY NoOwnerAssumption
  DEF IInv, TypeOK, LockInv, ServerGetReply, ServerRead, Goto, clientVars,
      serverVars, lockVars, callVars, CacheState
<1>3. CalleeInv'
  BY NoOwnerAssumption
  DEF IInv, TypeOK, LockInv, CalleeInv, ServerGetReply, ServerRead, Goto,
      clientVars, serverVars, lockVars, callVars, CacheState
<1>4. MoveInv'
  BY NoOwnerAssumption
  DEF IInv, TypeOK, LockInv, CalleeInv, MoveInv, OwnerHasTheCopy,
      ServerGetReply, ServerRead, Goto, clientVars, serverVars, lockVars,
      callVars, CacheState
<1>5. AttrInv'
  BY GarbageAssumption
  DEF IInv, TypeOK, LockInv, CalleeInv, AttrInv, ServerGetReply, ServerRead,
      Goto, clientVars, serverVars, lockVars, callVars, CacheState
<1>6. OwnerHasTheCopy'
  BY NoOwnerAssumption
  DEF IInv, TypeOK, LockInv, CalleeInv, MoveInv, OwnerHasTheCopy,
      ServerGetReply, ServerRead, Goto, clientVars, serverVars, lockVars,
      callVars, CacheState
<1> QED  BY <1>1, <1>2, <1>3, <1>4, <1>5, <1>6 DEF IInv

\* extent_server::put, called by flush_handler.
LEMMA ServerPutStep ==
  ASSUME IInv, NEW c \in Clients, ServerPut(c)
  PROVE  IInv'
<1>1. TypeOK'
  BY ContentsAssumption
  DEF IInv, TypeOK, ServerPut, Goto, clientVars, serverVars, lockVars,
      callVars, Label, InGet, InGetattr, CacheState, Operation
<1>2. LockInv'
  BY NoOwnerAssumption
  DEF IInv, TypeOK, LockInv, ServerPut, Goto, clientVars, serverVars,
      lockVars, callVars, CacheState
<1>3. CalleeInv'
  BY NoOwnerAssumption
  DEF IInv, TypeOK, LockInv, CalleeInv, ServerPut, Goto, clientVars,
      serverVars, lockVars, callVars, CacheState
<1>4. MoveInv'
  BY NoOwnerAssumption
  DEF IInv, TypeOK, LockInv, CalleeInv, MoveInv, OwnerHasTheCopy, ServerPut,
      Goto, clientVars, serverVars, lockVars, callVars, CacheState
<1>5. AttrInv'
  BY GarbageAssumption
  DEF IInv, TypeOK, LockInv, CalleeInv, AttrInv, ServerPut, Goto,
      clientVars, serverVars, lockVars, callVars, CacheState
<1>6. OwnerHasTheCopy'
  BY NoOwnerAssumption
  DEF IInv, TypeOK, LockInv, CalleeInv, MoveInv, OwnerHasTheCopy, ServerPut,
      Goto, clientVars, serverVars, lockVars, callVars, CacheState
<1> QED  BY <1>1, <1>2, <1>3, <1>4, <1>5, <1>6 DEF IInv

\* extent_server::getattr.
LEMMA ServerGetattrStep ==
  ASSUME IInv, NEW c \in Clients, ServerGetattr(c)
  PROVE  IInv'
<1>0. disk \in Contents /\ Size[disk] \in Nat
  BY SizeAssumption DEF IInv, TypeOK, Operation
<1>1. TypeOK'
  BY <1>0, ContentsAssumption, ZenonT(60)
  DEF IInv, TypeOK, ServerGetattr, Goto, clientVars, serverVars, lockVars,
      callVars, Label, InGet, InGetattr, CacheState, Operation
<1>2. LockInv'
  BY <1>0, NoOwnerAssumption
  DEF IInv, TypeOK, LockInv, ServerGetattr, Goto, clientVars, serverVars,
      lockVars, callVars, CacheState
<1>3. CalleeInv'
  BY <1>0, NoOwnerAssumption
  DEF IInv, TypeOK, LockInv, CalleeInv, ServerGetattr, Goto, clientVars,
      serverVars, lockVars, callVars, CacheState
<1>4. MoveInv'
  BY <1>0, NoOwnerAssumption
  DEF IInv, TypeOK, LockInv, CalleeInv, MoveInv, OwnerHasTheCopy,
      ServerGetattr, Goto, clientVars, serverVars, lockVars, callVars,
      CacheState
<1>5. AttrInv'
  BY <1>0, GarbageAssumption
  DEF IInv, TypeOK, LockInv, CalleeInv, AttrInv, ServerGetattr, Goto,
      clientVars, serverVars, lockVars, callVars, CacheState
<1>6. OwnerHasTheCopy'
  BY <1>0, NoOwnerAssumption
  DEF IInv, TypeOK, LockInv, CalleeInv, MoveInv, OwnerHasTheCopy,
      ServerGetattr, Goto, clientVars, serverVars, lockVars, callVars,
      CacheState
<1> QED  BY <1>1, <1>2, <1>3, <1>4, <1>5, <1>6 DEF IInv

\* The lock of the inode is asked for, granted and released.
LEMMA LockingStep ==
  ASSUME IInv, NEW c \in Clients, Locking(c)
  PROVE  IInv'
<1>1. TypeOK'
  BY ContentsAssumption
  DEF IInv, TypeOK, Locking, Lock!Request, Lock!Grant, Lock!RequestAndGrant,
      Lock!Release, clientVars, serverVars, lockVars, callVars, Label,
      InGet, InGetattr, CacheState, Operation
<1>2. LockInv'
  BY NoOwnerAssumption
  DEF IInv, TypeOK, LockInv, Locking, Lock!Request, Lock!Grant,
      Lock!RequestAndGrant, Lock!Release, clientVars, serverVars, lockVars,
      callVars, CacheState
<1>3. CalleeInv'
  BY NoOwnerAssumption
  DEF IInv, TypeOK, LockInv, CalleeInv, Locking, Lock!Request, Lock!Grant,
      Lock!RequestAndGrant, Lock!Release, clientVars, serverVars, lockVars,
      callVars, CacheState
<1>4. MoveInv'
  BY NoOwnerAssumption
  DEF IInv, TypeOK, LockInv, CalleeInv, MoveInv, OwnerHasTheCopy, Locking,
      Lock!Request, Lock!Grant, Lock!RequestAndGrant, Lock!Release,
      clientVars, serverVars, lockVars, callVars, CacheState
<1>5. AttrInv'
  BY GarbageAssumption
  DEF IInv, TypeOK, LockInv, CalleeInv, AttrInv, Locking, Lock!Request,
      Lock!Grant, Lock!RequestAndGrant, Lock!Release, clientVars,
      serverVars, lockVars, callVars, CacheState
<1>6. OwnerHasTheCopy'
  BY NoOwnerAssumption
  DEF IInv, TypeOK, LockInv, CalleeInv, MoveInv, OwnerHasTheCopy, Locking,
      Lock!Request, Lock!Grant, Lock!RequestAndGrant, Lock!Release,
      clientVars, serverVars, lockVars, callVars, CacheState
<1> QED  BY <1>1, <1>2, <1>3, <1>4, <1>5, <1>6 DEF IInv
-----------------------------------------------------------------------------
(***************************************************************************)
(* The invariants                                                          *)
(***************************************************************************)

\* The invariant holds before the extent is used.
LEMMA InitIInv == Init => IInv
<1> SUFFICES ASSUME Init PROVE IInv
  OBVIOUS
<1>1. pc = [c \in Clients |-> "idle"] /\ Lock!Init
  BY DEF Init
<1>2. CASE InitEntry(NoOwner, "NONE", Empty, Garbage)
  <2>1. TypeOK
    BY <1>2, ContentsAssumption
    DEF Init, InitEntry, TypeOK, Lock!Init, Label, InGet, InGetattr, CacheState, Operation
  <2>2. LockInv /\ CalleeInv /\ MoveInv
    BY <1>1, <1>2 DEF InitEntry, LockInv, CalleeInv, MoveInv, Lock!Init
  <2>3. AttrInv /\ OwnerHasTheCopy
    BY <1>1, <1>2, NoOwnerAssumption DEF InitEntry, AttrInv, OwnerHasTheCopy
  <2> QED  BY <2>1, <2>2, <2>3 DEF IInv
<1>3. ASSUME NEW c \in Clients, NEW link \in Contents,
             InitEntry(c, "OK", link, Size[link])
      PROVE  IInv
  <2>1. Size[link] \in Nat
    BY SizeAssumption
  <2>2. TypeOK
    BY <1>3, <2>1, ContentsAssumption
    DEF Init, InitEntry, TypeOK, Lock!Init, Label, InGet, InGetattr, CacheState, Operation
  <2>3. LockInv /\ CalleeInv /\ MoveInv
    BY <1>1, <1>3 DEF InitEntry, LockInv, CalleeInv, MoveInv, Lock!Init
  <2>4. AttrInv /\ OwnerHasTheCopy
    BY <1>1, <1>3, <2>1, GarbageAssumption DEF InitEntry, AttrInv, OwnerHasTheCopy
  <2> QED  BY <2>2, <2>3, <2>4 DEF IInv
<1> QED  BY <1>2, <1>3 DEF Init

\* The three calls of extent_client satisfy what BeginStep asks for.
LEMMA CallStep ==
  ASSUME IInv, NEW c \in Clients, Call(c)
  PROVE  IInv'
<1> USE ContentsAssumption
<1>0. data_stat[c] \in {"NONE", "OK"} /\ attr_stat[c] \in {"NONE", "OK"}
  BY DEF IInv, TypeOK, CacheState
<1>1. CASE get(c)
  <2> DEFINE label == IF data_stat[c] = "NONE" THEN "get" ELSE "return"
  <2>1. Begin(c, "get", Empty, label)
    BY <1>1 DEF get
  <2>2. label \in {"get", "getattr", "return"}
    OBVIOUS
  <2>3. /\ label = "get" => data_stat[c] = "NONE"
        /\ label # "get" => data_stat[c] = "OK"
    BY <1>0
  <2> HIDE DEF label
  <2> QED  BY <2>1, <2>2, <2>3, BeginStep
<1>2. CASE getattr(c)
  <2> DEFINE label == IF attr_stat[c] = "NONE" THEN "getattr" ELSE "return"
  <2>1. Begin(c, "getattr", Empty, label)
    BY <1>2 DEF getattr
  <2>2. label \in {"get", "getattr", "return"} /\ label # "get"
    OBVIOUS
  <2>3. label = "return" => attr_stat[c] = "OK"
    BY <1>0
  <2> HIDE DEF label
  <2> QED  BY <2>1, <2>2, <2>3, BeginStep
<1>3. ASSUME NEW arg \in Contents, put(c, arg)
      PROVE  IInv'
  <2> DEFINE label == IF data_stat[c] = "NONE" THEN "get" ELSE "return"
  <2>1. Begin(c, "put", arg, label)
    BY <1>3 DEF put
  <2>2. label \in {"get", "getattr", "return"}
    OBVIOUS
  <2>3. /\ label = "get" => data_stat[c] = "NONE"
        /\ label # "get" => data_stat[c] = "OK"
    BY <1>0
  <2> HIDE DEF label
  <2> QED  BY <2>1, <2>2, <2>3, BeginStep
<1> QED  BY <1>1, <1>2, <1>3 DEF Call

\* Every step of the extent protocol preserves IInv.
LEMMA NextStep ==
  ASSUME IInv, [Next]_vars
  PROVE  IInv'
<1>1. CASE UNCHANGED vars
  BY <1>1 DEF vars, clientVars, serverVars, lockVars, callVars, IInv, TypeOK,
    LockInv, CalleeInv, MoveInv, AttrInv, OwnerHasTheCopy
<1>2. ASSUME NEW c \in Clients, Locking(c) \/ Call(c) \/ Step(c)
      PROVE  IInv'
  BY <1>2, LockingStep, CallStep, GetReturnsStep, GetattrReturnsStep,
    ReturnStep, FlushHandlerStep, FlushReturnsStep, GetAttrHandlerStep,
    ServerGetStep, ServerGetReplyStep, ServerPutStep, ServerGetattrStep
  DEF Step
<1> QED  BY <1>1, <1>2 DEF Next

\* IInv is an inductive invariant of the extent protocol.
THEOREM Invariance == Spec => []IInv
<1>1. Init => IInv
  BY InitIInv
<1>2. IInv /\ [Next]_vars => IInv'
  BY NextStep
<1> QED  BY <1>1, <1>2, PTL DEF Spec

\* Every variable of the clients and of the server keeps its type.
THEOREM TypeCorrect == Spec => []TypeOK
<1>1. IInv => TypeOK
  BY DEF IInv
<1> QED  BY <1>1, Invariance, PTL

\* There is at most one valid copy, and the server knows where it is.
THEOREM CopyIsKnown == Spec => []OwnerHasTheCopy
<1>1. IInv => OwnerHasTheCopy
  BY DEF IInv
<1> QED  BY <1>1, Invariance, PTL

\* Handlers and the fuse thread of a client never use an entry at once.
THEOREM RaceFreedom == Spec => []HandlersDoNotRace
<1>1. IInv => HandlersDoNotRace
  BY NoOwnerAssumption
  DEF IInv, TypeOK, LockInv, CalleeInv, HandlersDoNotRace
<1> QED  BY <1>1, Invariance, PTL

\* get_attr_handler never returns attributes that nobody has set.
THEOREM NoGarbage == Spec => []AttributesAreSet
<1>1. IInv => AttributesAreSet
  BY NoOwnerAssumption
  DEF IInv, TypeOK, LockInv, CalleeInv, AttrInv, AttributesAreSet
<1> QED  BY <1>1, Invariance, PTL

-----------------------------------------------------------------------------
(***************************************************************************)
(* The refinement of ExtentService                                         *)
(***************************************************************************)

\* The content is the valid copy of a client, wherever there is one.
LEMMA ContentIsTheCopy ==
  ASSUME OwnerHasTheCopy, NEW c \in Clients, data_stat[c] = "OK"
  PROVE  content = file_data[c]
<1>1. Holding = {c}
  BY DEF OwnerHasTheCopy, Holding
<1> QED  BY <1>1 DEF content

\* Without a valid copy the content is what the inode holds.
LEMMA ContentIsOnDisk ==
  ASSUME \A c \in Clients : data_stat[c] # "OK"
  PROVE  content = disk
  BY DEF content, Holding

\* The same, in the next state.
LEMMA NextContentIsTheCopy ==
  ASSUME OwnerHasTheCopy', NEW c \in Clients, data_stat'[c] = "OK"
  PROVE  content' = file_data'[c]
<1>1. Holding' = {c}
  BY DEF OwnerHasTheCopy, Holding
<1> QED  BY <1>1 DEF content

\* Without a valid copy in the next state, its content is what the inode holds.
LEMMA NextContentIsOnDisk ==
  ASSUME \A c \in Clients : data_stat'[c] # "OK"
  PROVE  content' = disk'
  BY DEF content, Holding

\* A step that leaves the caches and the disk alone leaves the content alone.
LEMMA SameContent ==
  ASSUME UNCHANGED << data_stat, file_data, disk >>
  PROVE  UNCHANGED content
  BY DEF content, Holding

\* The content changes only when a put returns, to what was put.
LEMMA ContentStep ==
  ASSUME IInv, IInv', NEW c \in Clients, Locking(c) \/ Call(c) \/ Step(c)
  PROVE  \/ UNCHANGED content
         \/ Return(c) /\ op[c].name = "put" /\ content' = op[c].arg
<1> USE DEF clientVars, serverVars, lockVars, callVars
<1>0. OwnerHasTheCopy /\ OwnerHasTheCopy'
  BY DEF IInv
<1>1. CASE Locking(c)
  BY <1>1, SameContent DEF Locking
<1>2. CASE Call(c)
  BY <1>2, SameContent DEF Call, get, getattr, put, Begin
<1>3. CASE GetReturns(c)
  <2>1. content = disk
    BY <1>3, ContentIsOnDisk DEF GetReturns, IInv, MoveInv
  <2>2. data_stat'[c] = "OK" /\ file_data'[c] = disk
    BY <1>3 DEF GetReturns, IInv, TypeOK, MoveInv
  <2> QED  BY <1>0, <2>1, <2>2, NextContentIsTheCopy
<1>4. CASE GetattrReturns(c)
  BY <1>4, SameContent DEF GetattrReturns
<1>5. CASE Return(c)
  <2>1. CASE op[c].name = "get" \/ op[c].name = "getattr"
    BY <1>5, <2>1, SameContent DEF Return
  <2>2. CASE op[c].name = "put"
    <3>1. data_stat'[c] = "OK" /\ file_data'[c] = op[c].arg
      BY <1>5, <2>2 DEF Return, Write, IInv, TypeOK, Operation
    <3> QED  BY <1>0, <1>5, <2>2, <3>1, NextContentIsTheCopy
  <2> QED  BY <2>1, <2>2 DEF IInv, TypeOK, Operation
<1>6. CASE FlushHandler(c)
  BY <1>6, SameContent DEF FlushHandler
<1>7. CASE FlushReturns(c)
  <2>1. owner \in Clients /\ callee[c] = owner /\ disk = file_data[owner]
          /\ data_stat[owner] = "OK"
    BY <1>7 DEF FlushReturns, IInv, TypeOK, CalleeInv, MoveInv
  <2>2. content = disk
    BY <1>0, <2>1, ContentIsTheCopy
  <2>3. (\A d \in Clients : data_stat'[d] # "OK") /\ disk' = disk
    BY <1>7, <2>1, <1>0 DEF FlushReturns, OwnerHasTheCopy, IInv, TypeOK
  <2> QED  BY <1>7, <2>2, <2>3, NextContentIsOnDisk DEF FlushReturns
<1>8. CASE GetAttrHandler(c)
  BY <1>8, SameContent DEF GetAttrHandler
<1>9. CASE ServerGet(c)
  BY <1>9, SameContent DEF ServerGet, ServerRead
<1>10. CASE ServerGetReply(c)
  BY <1>10, SameContent DEF ServerGetReply, ServerRead
<1>11. CASE ServerPut(c)
  <2>1. owner \in Clients /\ data_stat[owner] = "OK"
    BY <1>11 DEF ServerPut, IInv, TypeOK, CalleeInv, MoveInv
  <2>2. UNCHANGED << data_stat, file_data, owner >>
    BY <1>11 DEF ServerPut
  <2>3. content = file_data[owner]
    BY <1>0, <2>1, ContentIsTheCopy
  <2>4. content' = file_data'[owner]
    BY <1>0, <2>1, <2>2, NextContentIsTheCopy
  <2> QED  BY <2>2, <2>3, <2>4
<1>12. CASE ServerGetattr(c)
  BY <1>12, SameContent DEF ServerGetattr
<1> QED  BY <1>1, <1>2, <1>3, <1>4, <1>5, <1>6, <1>7, <1>8, <1>9, <1>10, <1>11,
           <1>12 DEF Step

\* The content that is shared at first is one the register may start with.
LEMMA InitContent ==
  ASSUME Init
  PROVE  content \in Contents
<1> USE ContentsAssumption
<1>1. IInv
  BY InitIInv
<1>2. CASE \A c \in Clients : data_stat[c] # "OK"
  BY <1>1, <1>2, ContentIsOnDisk DEF IInv, TypeOK
<1>3. ASSUME NEW c \in Clients, data_stat[c] = "OK"
      PROVE  content \in Contents
  BY <1>1, <1>3, ContentIsTheCopy DEF IInv, TypeOK
<1> QED  BY <1>2, <1>3

\* The call of a client is one of the register.
LEMMA CallIsACall ==
  ASSUME IInv, NEW c \in Clients, Call(c)
  PROVE  \E o \in Operation : Service!Call(c, o)
<1> USE ContentsAssumption DEF clientVars, serverVars, lockVars, callVars
<1>1. PICK name \in {"get", "getattr", "put"}, arg \in Contents,
           label \in {"get", "getattr", "return"} : Begin(c, name, arg, label)
  BY DEF Call, get, getattr, put
<1> DEFINE o == [name |-> name, arg |-> arg]
<1>2. o \in Operation
  BY DEF Operation
<1>3. pc \in [Clients -> Label] /\ pc[c] = "idle"
  BY <1>1 DEF Begin, IInv, TypeOK
<1>4. op' = [op EXCEPT ![c] = o]
  BY <1>1 DEF Begin
<1>5. pc' = [pc EXCEPT ![c] = label]
  BY <1>1 DEF Begin, Goto
<1>6. ~busy[c] /\ busy' = [busy EXCEPT ![c] = TRUE]
  BY <1>3, <1>5 DEF busy
<1>7. UNCHANGED << content, buf >>
  BY <1>1, SameContent DEF Begin
<1> HIDE DEF o
<1> QED  BY <1>2, <1>4, <1>6, <1>7 DEF Service!Call

\* The return of a call is one of the register, with its effect.
LEMMA ReturnIsAReturn ==
  ASSUME IInv, IInv', NEW c \in Clients, Return(c)
  PROVE  Service!Get(c) \/ Service!Getattr(c) \/ Service!Put(c)
<1> USE DEF clientVars, serverVars, lockVars, callVars
<1>1. pc \in [Clients -> Label] /\ pc[c] = "return"
  BY DEF Return, IInv, TypeOK
<1>2. busy[c] /\ busy' = [busy EXCEPT ![c] = FALSE]
  BY <1>1 DEF Return, Goto, busy
<1>3. Service!Done(c)
  BY <1>2 DEF Service!Done, Service!NoOperation, Return
<1>4. CASE op[c].name = "get"
  <2>1. content = file_data[c]
    BY <1>1, <1>4, ContentIsTheCopy DEF IInv, MoveInv
  <2>2. buf' = file_data[c] /\ UNCHANGED content
    BY <1>4, SameContent DEF Return
  <2> QED  BY <1>3, <1>4, <2>1, <2>2 DEF Service!Get
<1>5. CASE op[c].name = "getattr"
  <2>1. UNCHANGED << content, buf >>
    BY <1>5, SameContent DEF Return
  <2> QED  BY <1>3, <1>5, <2>1 DEF Service!Getattr
<1>6. CASE op[c].name = "put"
  <2>1. data_stat'[c] = "OK" /\ file_data'[c] = op[c].arg
    BY <1>6 DEF Return, Write, IInv, TypeOK, Operation
  <2>2. content' = op[c].arg
    BY <2>1, NextContentIsTheCopy DEF IInv
  <2>3. UNCHANGED buf
    BY <1>6 DEF Return
  <2> QED  BY <1>3, <1>6, <2>2, <2>3 DEF Service!Put
<1> QED  BY <1>4, <1>5, <1>6 DEF IInv, TypeOK, Operation

\* Every other step of the protocol is invisible to the callers: in
\* particular, a flush neither loses nor changes what was put.
LEMMA HiddenStep ==
  ASSUME IInv, IInv', NEW c \in Clients,
         Locking(c) \/ (Step(c) /\ ~Return(c))
  PROVE  UNCHANGED << content, busy, op, buf >>
<1> USE DEF clientVars, serverVars, lockVars, callVars
<1>1. UNCHANGED content
  <2>1. CASE Locking(c)
    BY <2>1, SameContent DEF Locking
  <2>2. CASE Step(c) /\ ~Return(c)
    BY <2>2, ContentStep
  <2> QED  BY <2>1, <2>2
<1>2. UNCHANGED << op, buf >>
  BY DEF Locking, Step, GetReturns, GetattrReturns, FlushHandler, FlushReturns,
         GetAttrHandler, ServerGet, ServerGetReply, ServerRead, ServerPut,
         ServerGetattr
<1>3. UNCHANGED busy
  <2>1. CASE Locking(c)
    BY <2>1 DEF Locking, busy
  <2>2. CASE Step(c) /\ ~Return(c)
    <3>1. pc[c] # "idle" /\ \E label \in Label \ {"idle"} : pc' = [pc EXCEPT ![c] = label]
      BY <2>2
      DEF Step, GetReturns, GetattrReturns, FlushHandler, FlushReturns,
          GetAttrHandler, ServerGet, ServerGetReply, ServerRead, ServerPut,
          ServerGetattr, Goto, Label, InGet, InGetattr
    <3>2. pc \in [Clients -> Label]
      BY DEF IInv, TypeOK
    <3> QED  BY <3>1, <3>2 DEF busy
  <2> QED  BY <2>1, <2>2
<1> QED  BY <1>1, <1>2, <1>3

\* The caching protocol implements a register: get returns the last put, and
\* nothing but a put changes the content.
THEOREM Refinement == Spec => ImplementsRegister
<1>1. Init => Service!Init
  <2> SUFFICES ASSUME Init PROVE Service!Init
    OBVIOUS
  <2>1. busy = [c \in Clients |-> FALSE]
    BY DEF Init, busy
  <2> QED  BY <2>1, InitContent DEF Init, Service!Init, Service!NoOperation
<1>2. IInv /\ IInv' /\ [Next]_vars => [Service!Next]_(Service!vars)
  <2> SUFFICES ASSUME IInv, IInv', [Next]_vars
               PROVE  Service!Next \/ UNCHANGED << content, busy, op, buf >>
    BY DEF Service!vars
  <2>1. CASE UNCHANGED vars
    BY <2>1, SameContent
    DEF vars, clientVars, serverVars, lockVars, callVars, busy
  <2>2. ASSUME NEW c \in Clients, Locking(c) \/ Call(c) \/ Step(c)
        PROVE  Service!Next \/ UNCHANGED << content, busy, op, buf >>
    <3>1. CASE Call(c)
      BY <3>1, CallIsACall DEF Service!Next, Service!Operation, Operation
    <3>2. CASE Return(c)
      BY <3>2, ReturnIsAReturn DEF Service!Next
    <3>3. CASE Locking(c) \/ (Step(c) /\ ~Return(c))
      BY <3>3, HiddenStep
    <3> QED  BY <2>2, <3>1, <3>2, <3>3
  <2> QED  BY <2>1, <2>2 DEF Next
<1> QED
  BY <1>1, <1>2, Invariance, PTL DEF Spec, ImplementsRegister, Service!Spec
=============================================================================
