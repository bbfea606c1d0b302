----------------------------- MODULE YfsFileInv -----------------------------
(***************************************************************************)
(* The inductive invariant of the operations on the contents of a file.    *)
(***************************************************************************)
EXTENDS YfsFile, ExtentCacheInv

\* An operation is under way only while its client holds the lock, and it is
\* inside the call of extent_client that its place says.
AtOK(c) ==
  /\ at[c] # "idle" => c \in holders
  /\ pc[c] # "idle" =>
       /\ at[c] \in {"getattr", "get", "put"}
       /\ op[c].name = at[c]
       /\ at[c] = "put" => op[c].arg = file_str[c]
  /\ at[c] = "getattr" => pc[c] \in InGetattr \cup {"idle", "return"}
  /\ at[c] = "getattr" /\ pc[c] = "return" => attr_stat[c] = "OK"

\* What the place of an operation says of which operation it is.
CallOK(c) ==
  /\ at[c] = "getattr" => call[c].name \in {"getattr", "setattr"}
  /\ at[c] = "get" => call[c].name \in {"read", "readlink", "write", "setattr"}
  /\ at[c] = "put" => call[c].name \in {"write", "setattr"}

\* The size that setattr is about to learn, or has learnt, is one of those it
\* was checked against when it began, and the file has not grown since.
FitsOK(c) ==
  /\ at[c] = "getattr" /\ call[c].name = "setattr" =>
       /\ Fits(call[c])
       /\ pc[c] = "gotAttr" => attr[c] \in KnownSizes
  /\ at[c] = "get" /\ call[c].name = "setattr" =>
       Len(content) + call[c].size <= MaxSize + asize[c]
  /\ at[c] = "get" /\ call[c].name = "write" =>
       call[c].off + Len(call[c].data) <= MaxSize

\* Between its get and its put, an operation has in file_str what the content
\* is to become.
PutOK(c) ==
  at[c] = "put" =>
    /\ call[c].name = "write" =>
         file_str[c] = Written(content, call[c].off, call[c].data)
    /\ call[c].name = "setattr" /\ asize[c] = Len(content) =>
         file_str[c] = Resized(content, call[c].size)

\* The inductive invariant of the operations on the contents of a file.
FInv ==
  /\ IInv /\ FileTypeOK /\ ReadsAreExact
  /\ \A c \in Clients : AtOK(c) /\ CallOK(c) /\ FitsOK(c) /\ PutOK(c)
=============================================================================
