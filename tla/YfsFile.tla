------------------------------ MODULE YfsFile ------------------------------
(***************************************************************************)
(* The operations of yfs_client on the contents of one file or symbolic    *)
(* link: read, write, setattr, readlink and getattr (isfile, isdir,        *)
(* islink, getfile).                                                       *)
(* Each takes the lock of the inode, calls getattr, get and put of its     *)
(* extent_client, and releases the lock.  The extent clients are those of  *)
(* ExtentCache with their caches: an action here goes with an action of    *)
(* that module, or leaves its state alone.                                 *)
(*                                                                         *)
(* The RPCs succeed, as every handler of extent_server returns OK.         *)
(***************************************************************************)
EXTENDS ExtentCache

CONSTANTS
  Bytes,     \* the values of a char
  MaxSize    \* bound on the length of the file

ASSUME BytesAssumption == 0 \in Bytes
ASSUME StringsAssumption ==
  /\ MaxSize \in Nat
  /\ Contents = UNION {[1 .. n -> Bytes] : n \in 0 .. MaxSize}
  /\ Empty = << >> /\ \A s \in Contents : Size[s] = Len(s)

VARIABLES
  type,      \* extent_protocol::attr.type of the inode
  at,        \* the call of lc or ec that the operation of a client is at
  call,      \* the operation of each client and its arguments
  asize,     \* a.size, a local variable of setattr
  file_str   \* the local variable file_str, or what read and readlink return

fileVars == << type, at, call, asize, file_str >>
fvars == << vars, fileVars >>

\* A byte string is a sequence of numbers; fill is an array of zeros.
Zeros(n) == [i \in 1 .. n |-> 0]

Call_(name, off, size, string) ==
  [name |-> name, off |-> off, size |-> size, data |-> string]
NoCall == Call_("none", 0, 0, << >>)

\* A symbolic link has been put into its extent by the client that made it.
FileInit ==
  /\ Init
  /\ type = IF owner = NoOwner THEN "T_FILE" ELSE "T_LINK"
  /\ at = [c \in Clients |-> "idle"]
  /\ call = [c \in Clients |-> NoCall]
  /\ asize = [c \in Clients |-> 0]
  /\ file_str = [c \in Clients |-> << >>]

(***************************************************************************)
(* std::string                                                             *)
(***************************************************************************)

\* substr(off, size), for off inside the string; what lies past its end is
\* left out.
substr(s, off, size) ==
  SubSeq(s, off + 1, IF off + size < Len(s) THEN off + size ELSE Len(s))

\* replace(off, size, string), for off inside the string.
replace(s, off, size, string) ==
  substr(s, 0, off) \o string \o SubSeq(s, off + size + 1, Len(s))

\* erase(off, n), for off inside the string or at its end.
erase(s, off, n) == replace(s, off, n, << >>)

(***************************************************************************)
(* What the operations make of the content                                 *)
(***************************************************************************)

\* A slip, for the mutants: the end of the file is not looked at.
read_from_start(s, off, size) == substr(s, 0, size)

read(s, off, size) ==
  IF off >= Len(s) THEN << >> ELSE substr(s, off, size)

\* A slip, for the mutants: what lay behind the bytes written goes away.
write_cuts(s, off, string) ==
  IF off < Len(s)
  THEN substr(s, 0, off) \o string
  ELSE s \o Zeros(off - Len(s)) \o string

\* A slip, for the mutants: one byte too many in the gap.
write_gap(s, off, string) ==
  IF off < Len(s)
  THEN replace(s, off, Len(string), string)
  ELSE s \o Zeros(off - Len(s) + 1) \o string

write(s, off, string) ==
  IF off < Len(s)
  THEN replace(s, off, Len(string), string)
  ELSE s \o Zeros(off - Len(s)) \o string

\* setattr goes by the size that getattr has returned, not by that of the
\* string.
resize(s, known, size) ==
  IF known > size THEN erase(s, size, known)
  ELSE s \o Zeros(size - known)

-----------------------------------------------------------------------------
(***************************************************************************)
(* The operations                                                          *)
(***************************************************************************)

\* The sizes that getattr may return to a client now.
KnownSizes == ({file_attr[c] : c \in Clients} \ {Garbage}) \cup {Size[disk]}

\* Calls whose result stays within the bound MaxSize.
Fits(k) ==
  /\ k.name = "write" => k.off + Len(k.data) <= MaxSize
  /\ k.name = "setattr" =>
       \A known \in KnownSizes : Len(content) + k.size <= MaxSize + known

\* The kernel goes by the st_mode that getattr of fuse.cc has made of the type:
\* a link is read with readlink, a file with read; only files are written.
MayBeCalled(k) ==
  k.name \in IF type = "T_LINK" THEN {"readlink", "getattr"}
            ELSE {"read", "write", "setattr", "getattr"}

\* fuse.cc calls an operation, which has been granted the lock.
Start(c, k) ==
  /\ at[c] = "idle"
  /\ pc[c] = "idle"
  /\ c \in holders
  /\ MayBeCalled(k)
  /\ Fits(k)
  /\ call' = [call EXCEPT ![c] = k]
  /\ at' = [at EXCEPT ![c] =
              IF k.name \in {"setattr", "getattr"} THEN "getattr" ELSE "get"]
  /\ UNCHANGED << vars, type, asize, file_str >>

\* The operation calls its extent_client.
Ask(c) ==
  /\ \/ at[c] = "getattr" /\ getattr(c)
     \/ at[c] = "get" /\ get(c)
     \/ at[c] = "put" /\ put(c, file_str[c])
  /\ UNCHANGED fileVars

\* isfile, islink, isdir and getfile are done with the attributes.
GetattrGoesOn(c) ==
  /\ call[c].name = "getattr"
  /\ at' = [at EXCEPT ![c] = "release"]

\* setattr is done when the size is the one wanted.
SetattrGoesOn(c) ==
  /\ call[c].name = "setattr"
  /\ at' = [at EXCEPT ![c] =
              IF file_attr[c] # call[c].size THEN "get" ELSE "release"]

\* getattr has returned a.
GetattrDone(c) ==
  /\ at[c] = "getattr"
  /\ Return(c)
  /\ asize' = [asize EXCEPT ![c] = file_attr[c]]
  /\ GetattrGoesOn(c) \/ SetattrGoesOn(c)
  /\ UNCHANGED << type, call, file_str >>

\* The operation goes on with the string, at the label.
Becomes(c, string, label) ==
  /\ file_str' = [file_str EXCEPT ![c] = string]
  /\ at' = [at EXCEPT ![c] = label]

ReadGoesOn(c, s) ==
  /\ call[c].name = "read"
  /\ Becomes(c, read(s, call[c].off, call[c].size), "release")

ReadlinkGoesOn(c, s) ==
  /\ call[c].name = "readlink"
  /\ Becomes(c, s, "release")

WriteGoesOn(c, s) ==
  /\ call[c].name = "write"
  /\ Becomes(c, write(s, call[c].off, call[c].data), "put")

\* erase throws std::out_of_range when it is to begin past the end, which
\* nobody catches.
SetattrResizes(c, s) ==
  /\ call[c].name = "setattr"
  /\ \/ /\ asize[c] <= call[c].size \/ call[c].size <= Len(s)
        /\ Becomes(c, resize(s, asize[c], call[c].size), "put")
     \/ /\ asize[c] > call[c].size /\ call[c].size > Len(s)
        /\ Becomes(c, file_str[c], "terminated")

\* get has returned the content.
GetDone(c) ==
  /\ at[c] = "get"
  /\ Return(c)
  /\ LET s == file_data[c] IN
     \/ ReadGoesOn(c, s) \/ ReadlinkGoesOn(c, s)
     \/ WriteGoesOn(c, s) \/ SetattrResizes(c, s)
  /\ UNCHANGED << type, call, asize >>

PutDone(c) ==
  /\ at[c] = "put"
  /\ Return(c)
  /\ at' = [at EXCEPT ![c] = "release"]
  /\ UNCHANGED << type, call, asize, file_str >>

\* lc->acquire at the beginning of an operation, and lc->release at its end.
AcquireLock(c) ==
  /\ at[c] = "idle"
  /\ Lock!Request(c) \/ Lock!Grant(c) \/ Lock!RequestAndGrant(c)
  /\ UNCHANGED << clientVars, serverVars, callVars, buf, pc, fileVars >>

ReleaseLock(c) ==
  /\ at[c] = "release"
  /\ Lock!Release(c)
  /\ at' = [at EXCEPT ![c] = "idle"]
  /\ call' = [call EXCEPT ![c] = NoCall]
  /\ asize' = [asize EXCEPT ![c] = 0]
  /\ file_str' = [file_str EXCEPT ![c] = << >>]
  /\ UNCHANGED << clientVars, serverVars, callVars, buf, pc, type >>

-----------------------------------------------------------------------------
Offsets == 0 .. MaxSize

Calls ==
  {Call_("read", off, size, << >>) : off \in Offsets, size \in 1 .. MaxSize}
    \cup {Call_("write", off, 0, string) : off \in Offsets, string \in Contents}
    \cup {Call_("setattr", 0, size, << >>) : size \in Offsets}
    \cup {Call_(name, 0, 0, << >>) : name \in {"getattr", "readlink"}}

FileNext ==
  \E c \in Clients :
    \/ \E k \in Calls : Start(c, k)
    \/ AcquireLock(c) \/ Ask(c) \/ GetattrDone(c) \/ GetDone(c) \/ PutDone(c)
    \/ ReleaseLock(c)
    \/ Step(c) /\ pc[c] # "return" /\ UNCHANGED fileVars

FileSpec == FileInit /\ [][FileNext]_fvars

-----------------------------------------------------------------------------
(***************************************************************************)
(* Properties                                                              *)
(***************************************************************************)

\* Types: the strings the operations make are contents within the bound.
FileTypeOK ==
  /\ TypeOK
  /\ type \in {"T_FILE", "T_LINK"}
  /\ at \in [Clients -> {"idle", "getattr", "get", "put", "release", "terminated"}]
  /\ call \in [Clients -> Calls \cup {NoCall}]
  /\ asize \in [Clients -> Nat]
  /\ file_str \in [Clients -> Contents]

\* A file is a function from the positions of its bytes: what the operations
\* are meant to do, position by position.
Larger(m, n) == IF m < n THEN n ELSE m

IsRead(f, off, size, string) ==
  /\ Len(string) <= size
  /\ \A i \in 1 .. size : IF off + i <= Len(f)
                          THEN i <= Len(string) /\ string[i] = f[off + i]
                          ELSE i > Len(string)

Written(f, off, string) ==
  [i \in 1 .. Larger(Len(f), off + Len(string)) |->
     IF off < i /\ i <= off + Len(string) THEN string[i - off]
     ELSE IF i <= Len(f) THEN f[i] ELSE 0]
Resized(f, size) == [i \in 1 .. size |-> IF i <= Len(f) THEN f[i] ELSE 0]

\* What read and readlink return is what is in the file while they hold its
\* lock, whichever client wrote it and wherever the copy was: not a byte more
\* or less, also at and behind the end of the file.
ReadsAreExact ==
  \A c \in Clients : at[c] = "release" =>
    /\ call[c].name = "read" =>
         IsRead(content, call[c].off, call[c].size, file_str[c])
    /\ call[c].name = "readlink" => file_str[c] = content

\* The file changes only when an operation that holds its lock puts it back,
\* from the content it has then: a write puts its bytes in their place, fills
\* a gap with zeros and leaves every other byte alone, whoever wrote it; a
\* setattr that was told the right size cuts the end or adds zeros.  (Told a
\* wrong one it may also leave out bytes before the end: see below.)
ChangesAreExact ==
  [][content' # content =>
       \E c \in holders :
         \/ /\ call[c].name = "write"
            /\ content' = Written(content, call[c].off, call[c].data)
         \/ /\ call[c].name = "setattr"
            /\ asize[c] = Len(content) =>
                 content' = Resized(content, call[c].size)]_fvars

\* yfs_client.cc on setattr: modify the content according to the size.  The
\* file has the size that setattr was called with when it returns.
SetattrSetsTheSize ==
  \A c \in Clients : at[c] = "release" /\ call[c].name = "setattr" =>
    Len(content) = call[c].size
=============================================================================
