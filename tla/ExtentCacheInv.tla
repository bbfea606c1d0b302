--------------------------- MODULE ExtentCacheInv ---------------------------
(***************************************************************************)
(* The inductive invariant of the caching extent protocol.                 *)
(***************************************************************************)
EXTENDS ExtentCache

\* Only the one client that holds the lock is inside a call, and whoever has
\* called, or is the owner, has an entry.
LockInv ==
  /\ \A c, d \in holders : c = d
  /\ \A c \in Clients : pc[c] # "idle" => c \in holders /\ cached[c]
  /\ owner # NoOwner => cached[owner]

\* The server calls a handler of the owner, which is not the caller.
CalleeInv ==
  \A c \in Clients : pc[c] \in {"flush", "flushPut", "flushed", "get_attr"} =>
    callee[c] = owner /\ owner # NoOwner /\ owner # c

\* Where the content is while it moves from one client to another.
MoveInv ==
  /\ \A c \in Clients : pc[c] \in {"get", "flush", "flushPut", "flushed"} =>
       data_stat[c] = "NONE"
  /\ \A c \in Clients : pc[c] = "flushPut" =>
       data_stat[owner] = "OK" /\ data[c] = file_data[owner]
  /\ \A c \in Clients : pc[c] = "flushed" =>
       data_stat[owner] = "OK" /\ disk = file_data[owner]
  /\ \A c, d \in Clients : pc[c] \in {"getReply", "got"} =>
       data_stat[d] = "NONE"
  /\ \A c \in Clients : pc[c] = "got" => owner = c /\ data[c] = disk
  /\ \A c \in Clients :
       pc[c] \in {"getattr", "get_attr", "gotAttr", "return"} =>
         op[c].name = "getattr" \/ data_stat[c] = "OK"

\* Where attributes are set: at an owner outside a call of its own.
AttrInv ==
  /\ \A c \in Clients : attr_stat[c] = "OK" => file_attr[c] # Garbage
  /\ \A c \in Clients : pc[c] = "gotAttr" => attr[c] # Garbage
  /\ \A c \in Clients : owner = c =>
       file_attr[c] # Garbage \/ pc[c] \in {"got", "getattr", "gotAttr"}

\* The inductive invariant of the extent protocol.
IInv == TypeOK /\ LockInv /\ CalleeInv /\ MoveInv /\ AttrInv /\ OwnerHasTheCopy
=============================================================================
