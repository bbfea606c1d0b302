-------------------------- MODULE YfsClientProofs --------------------------
(***************************************************************************)
(* Proofs about YfsClient, for any set of clients, any set of names and    *)
(* any number of inodes.                                                   *)
(***************************************************************************)
EXTENDS YfsClientInv, NaturalsLemmas, SequenceTheorems

Unique(dir) ==
  \A m, n \in 1 .. Len(dir) : dir[m].name = dir[n].name => m = n

-----------------------------------------------------------------------------
(***************************************************************************)
(* The directories                                                         *)
(***************************************************************************)

\* find returns the inum of some entry with the name.
LEMMA FindSome ==
  ASSUME NEW dir \in Seq(Entry), NEW name,
         NEW n \in 1 .. Len(dir), dir[n].name = name
  PROVE  \E m \in 1 .. Len(dir) : dir[m].name = name /\ find(dir, name) = dir[m].inum
<1> DEFINE found == {m \in 1 .. Len(dir) : dir[m].name = name}
<1>1. found # {} /\ found \in SUBSET Nat
  OBVIOUS
<1>2. find(dir, name) = dir[Min(found)].inum
  BY <1>1 DEF find
<1>3. Min(found) \in found
  <2> HIDE DEF found
  <2> QED  BY <1>1, MinIsLeast
<1> QED
  BY <1>2, <1>3

\* find returns 0 exactly when no entry has the name: no inum is 0.
LEMMA FindZero ==
  ASSUME NEW dir \in Seq(Entry), NEW name
  PROVE  find(dir, name) = 0 <=> \A n \in 1 .. Len(dir) : dir[n].name # name
<1>1. ASSUME NEW n \in 1 .. Len(dir), dir[n].name = name
      PROVE  find(dir, name) # 0
  <2>1. PICK m \in 1 .. Len(dir) : find(dir, name) = dir[m].inum
    BY <1>1, FindSome
  <2>2. dir[m] \in Entry
    OBVIOUS
  <2>3. dir[m].inum # 0
    BY <2>2, InodesAssumption DEF Entry, EntryInums, Inums, NoInode
  <2> QED
    BY <2>1, <2>3
<1>2. ASSUME \A n \in 1 .. Len(dir) : dir[n].name # name
      PROVE  find(dir, name) = 0
  BY <1>2 DEF find
<1> QED
  BY <1>1, <1>2

\* find returns an inum of the file system, or 0.
LEMMA FindType ==
  ASSUME NEW dir \in Seq(Entry), NEW name
  PROVE  find(dir, name) \in {0} \cup EntryInums
<1>1. ASSUME NEW n \in 1 .. Len(dir), dir[n].name = name
      PROVE  find(dir, name) \in EntryInums
  <2>1. PICK m \in 1 .. Len(dir) : find(dir, name) = dir[m].inum
    BY <1>1, FindSome
  <2>2. dir[m] \in Entry
    OBVIOUS
  <2> QED
    BY <2>1, <2>2 DEF Entry
<1> QED
  BY <1>1, FindZero

\* In a directory without double names find returns the entry.
LEMMA FindUnique ==
  ASSUME NEW dir \in Seq(Entry), Unique(dir), NEW n \in 1 .. Len(dir)
  PROVE  find(dir, dir[n].name) = dir[n].inum
  BY FindSome DEF Unique

\* addent puts a new entry behind the old ones.
LEMMA AddentFacts ==
  ASSUME NEW dir \in Seq(Entry), NEW name \in Names, NEW inum \in EntryInums,
         \A n \in 1 .. Len(dir) : dir[n].name # name
  PROVE  /\ addent(dir, name, inum) \in Seq(Entry)
         /\ Entries(addent(dir, name, inum)) =
              Entries(dir) \cup {[name |-> name, inum |-> inum]}
         /\ Unique(dir) => Unique(addent(dir, name, inum))
         /\ Unique(dir) => find(addent(dir, name, inum), name) = inum
<1> DEFINE e == [name |-> name, inum |-> inum]
           new == addent(dir, name, inum)
<1>1. e \in Entry /\ e.name = name /\ e.inum = inum
  BY DEF Entry
<1> HIDE DEF e
<1>2. /\ new \in Seq(Entry)
      /\ Len(new) = Len(dir) + 1
      /\ \A n \in 1 .. Len(dir) : new[n] = dir[n]
      /\ new[Len(dir) + 1] = e
  BY <1>1, AppendProperties DEF addent, e
<1> HIDE DEF new
<1>3. Len(dir) \in Nat
  OBVIOUS
<1>4. 1 .. Len(new) = (1 .. Len(dir)) \cup {Len(dir) + 1}
  BY <1>2, <1>3
<1>5. Entries(new) = Entries(dir) \cup {e}
  BY <1>2, <1>4 DEF Entries
<1>6. Unique(dir) => Unique(new)
  BY <1>1, <1>2, <1>4 DEF Unique
<1>7. Unique(dir) => find(new, name) = inum
  <2>1. Len(dir) + 1 \in 1 .. Len(new)
    BY <1>2, <1>3
  <2>2. new[Len(dir) + 1].name = name /\ new[Len(dir) + 1].inum = inum
    BY <1>1, <1>2
  <2> QED
    BY <1>2, <1>6, <2>1, <2>2, FindUnique
<1> QED
  BY <1>2, <1>5, <1>6, <1>7 DEF e, new

\* The recursive definition of new_list has a solution.
LEMMA NewListDef ==
  ASSUME NEW dir \in Seq(Entry), NEW name
  PROVE  new_list(dir, name) =
           [n \in 0 .. Len(dir) |->
              IF n = 0 THEN << >>
              ELSE IF dir[n].name # name
                   THEN Append(new_list(dir, name)[n - 1], dir[n])
                   ELSE new_list(dir, name)[n - 1]]
<1> DEFINE Built(f, n) ==
             IF n = 0 THEN << >>
             ELSE IF dir[n].name # name THEN Append(f[n - 1], dir[n])
             ELSE f[n - 1]
           N == Len(dir)
           S == {k \in 0 .. N : \E f : f = [n \in 0 .. k |-> Built(f, n)]}
<1>0. N \in Nat
  OBVIOUS
<1>1. 0 \in S
  <2> DEFINE f == [n \in 0 .. 0 |-> << >>]
  <2>1. f = [n \in 0 .. 0 |-> Built(f, n)]
    OBVIOUS
  <2> HIDE DEF f
  <2> QED  BY <1>0, <2>1
<1>2. ASSUME NEW k \in 1 .. N, k - 1 \in S
      PROVE  k \in S
  <2>1. PICK f : f = [n \in 0 .. k - 1 |-> Built(f, n)]
    BY <1>2
  <2> DEFINE g == [n \in 0 .. k |-> IF n = k THEN Built(f, k) ELSE f[n]]
  <2>2. ASSUME NEW n \in 0 .. k PROVE g[n] = Built(g, n)
    <3>1. CASE n = 0
      BY <3>1, <2>1, <1>0
    <3>2. CASE n # 0
      <4>1. n - 1 \in 0 .. k /\ n - 1 # k
        BY <3>2, <1>0
      <4>2. g[n - 1] = f[n - 1]
        BY <4>1
      <4>3. Built(g, n) = Built(f, n)
        BY <4>2
      <4>4. g[n] = Built(f, n)
        <5>1. CASE n = k
          BY <5>1
        <5>2. CASE n # k
          <6>1. n \in 0 .. k - 1
            BY <5>2, <1>0
          <6>2. f[n] = Built(f, n)
            <7> HIDE DEF Built
            <7> QED  BY <2>1, <6>1
          <6> QED  BY <6>2, <5>2
        <5> QED  BY <5>1, <5>2
      <4> QED
        BY <4>3, <4>4
    <3> QED  BY <3>1, <3>2
  <2>3. g = [n \in 0 .. k |-> Built(g, n)]
    <3> HIDE DEF Built
    <3>1. g = [n \in 0 .. k |-> g[n]]
      OBVIOUS
    <3> HIDE DEF g
    <3> QED  BY <2>2, <3>1, Zenon
  <2> HIDE DEF g, Built
  <2> QED  BY <2>3, <1>0
<1>3. N \in S
  <2> HIDE DEF S, N
  <2>1. \A k \in 1 .. N : k - 1 \in S => k \in S
    BY <1>2
  <2>2. \A k \in 0 .. N : k \in S
    BY <1>0, <1>1, <2>1, Induction
  <2> QED  BY <1>0, <2>2
<1>4. \E f : f = [n \in 0 .. N |-> Built(f, n)]
  BY <1>3
<1>5. new_list(dir, name) = CHOOSE f : f = [n \in 0 .. N |-> Built(f, n)]
  BY DEF new_list
<1> HIDE DEF Built, N, S
<1>6. new_list(dir, name) = [n \in 0 .. N |-> Built(new_list(dir, name), n)]
  BY <1>4, <1>5, Zenon
<1> QED
  BY <1>6 DEF Built, N

\* delent keeps the entries with other names, in their order.
LEMMA DelentFacts ==
  ASSUME NEW dir \in Seq(Entry), NEW name
  PROVE  /\ delent(dir, name) \in Seq(Entry)
         /\ Entries(delent(dir, name)) = {e \in Entries(dir) : e.name # name}
         /\ Unique(dir) => Unique(delent(dir, name))
         /\ find(delent(dir, name), name) = 0
<1> DEFINE N == Len(dir)
           list == new_list(dir, name)
           Kept(k) == {dir[n] : n \in {m \in 1 .. k : dir[m].name # name}}
           S == {k \in 0 .. N : /\ list[k] \in Seq(Entry)
                                /\ Entries(list[k]) = Kept(k)
                                /\ Unique(dir) => Unique(list[k])}
<1>0. N \in Nat
  OBVIOUS
<1>1. /\ list[0] = << >>
      /\ \A k \in 1 .. N :
           list[k] = IF dir[k].name # name THEN Append(list[k - 1], dir[k])
                     ELSE list[k - 1]
  <2> DEFINE Built(n) == IF n = 0 THEN << >>
                        ELSE IF dir[n].name # name
                             THEN Append(list[n - 1], dir[n]) ELSE list[n - 1]
  <2> HIDE DEF list
  <2>1. list = [n \in 0 .. N |-> Built(n)]
    BY NewListDef DEF list
  <2> HIDE DEF Built
  <2>2. \A n \in 0 .. N : list[n] = Built(n)
    BY <2>1
  <2>3. \A n \in 1 .. N : n \in 0 .. N /\ n # 0
    BY <1>0
  <2>4. 0 \in 0 .. N
    BY <1>0
  <2> QED
    BY <2>2, <2>3, <2>4 DEF Built
<1> HIDE DEF list
<1>2. 0 \in S
  <2>1. Len(list[0]) = 0 /\ list[0] \in Seq(Entry)
    BY <1>1
  <2>2. 1 .. 0 = {}
    OBVIOUS
  <2>3. Entries(list[0]) = {} /\ Kept(0) = {}
    BY <2>1, <2>2 DEF Entries
  <2>4. Unique(list[0])
    BY <2>1, <2>2 DEF Unique
  <2> QED
    BY <1>0, <2>1, <2>3, <2>4
<1>3. ASSUME NEW k \in 1 .. N, k - 1 \in S
      PROVE  k \in S
  <2> DEFINE old == list[k - 1]
  <2>1. /\ old \in Seq(Entry) /\ Entries(old) = Kept(k - 1)
        /\ Unique(dir) => Unique(old)
    BY <1>3
  <2>2. k \in 0 .. N /\ 1 .. k = (1 .. k - 1) \cup {k} /\ k \notin 1 .. k - 1
    BY <1>0
  <2>3. CASE dir[k].name = name
    <3>1. list[k] = old
      BY <1>1, <2>3
    <3>2. Kept(k) = Kept(k - 1)
      BY <2>2, <2>3
    <3> QED
      BY <2>1, <2>2, <3>1, <3>2
  <2>4. CASE dir[k].name # name
    <3>1. list[k] = Append(old, dir[k])
      BY <1>1, <2>4
    <3>2. Kept(k) = Kept(k - 1) \cup {dir[k]}
      BY <2>2, <2>4
    <3>3. dir[k] \in Entry
      OBVIOUS
    <3> HIDE DEF old, Kept
    <3>4. /\ list[k] \in Seq(Entry)
          /\ Len(list[k]) = Len(old) + 1
          /\ \A n \in 1 .. Len(old) : list[k][n] = old[n]
          /\ list[k][Len(old) + 1] = dir[k]
          /\ Len(old) \in Nat
      BY <2>1, <3>1, <3>3, AppendProperties
    <3>5. 1 .. Len(list[k]) = (1 .. Len(old)) \cup {Len(old) + 1}
      BY <3>4
    <3>6. Entries(list[k]) = Entries(old) \cup {dir[k]}
      BY <3>4, <3>5 DEF Entries
    <3>7. ASSUME Unique(dir) PROVE Unique(list[k])
      <4>1. ASSUME NEW n \in 1 .. Len(old) PROVE old[n].name # dir[k].name
        <5>1. old[n] \in Kept(k - 1)
          BY <2>1 DEF Entries
        <5>2. PICK m \in 1 .. k - 1 : old[n] = dir[m]
          BY <5>1 DEF Kept
        <5>3. m \in 1 .. N /\ k \in 1 .. N /\ m # k
          BY <2>2, <1>0
        <5> QED
          BY <3>7, <5>2, <5>3 DEF Unique
      <4> QED
        BY <2>1, <3>4, <3>5, <3>7, <4>1 DEF Unique
    <3> QED
      BY <2>1, <2>2, <3>2, <3>4, <3>6, <3>7
  <2> QED
    BY <2>3, <2>4
<1>4. N \in S
  <2> HIDE DEF S, N
  <2>1. \A k \in 1 .. N : k - 1 \in S => k \in S
    BY <1>3
  <2>2. \A k \in 0 .. N : k \in S
    BY <1>0, <1>2, <2>1, Induction
  <2> QED  BY <1>0, <2>2
<1>5. /\ delent(dir, name) \in Seq(Entry)
      /\ Entries(delent(dir, name)) = Kept(N)
      /\ Unique(dir) => Unique(delent(dir, name))
  BY <1>4 DEF delent, list
<1>6. Kept(N) = {e \in Entries(dir) : e.name # name}
  BY DEF Entries
<1>7. \A n \in 1 .. Len(delent(dir, name)) : delent(dir, name)[n].name # name
  <2> HIDE DEF Kept, N
  <2>1. ASSUME NEW n \in 1 .. Len(delent(dir, name))
        PROVE  delent(dir, name)[n] \in Entries(delent(dir, name))
    BY DEF Entries
  <2> QED
    BY <1>5, <1>6, <2>1
<1> QED
  BY <1>5, <1>6, <1>7, FindZero

-----------------------------------------------------------------------------
(***************************************************************************)
(* The actions, one lemma each                                             *)
(***************************************************************************)

\* The numbers: an inode is neither lock number 0 nor the number out of range.
LEMMA Numbers ==
  /\ create_flag \notin EntryInums /\ 0 \notin EntryInums
  /\ NoInode \notin Inums /\ NoInode \in EntryInums
  /\ Inums \subseteq EntryInums /\ InRange \subseteq Inums
  /\ Root \in Inums
  BY InodesAssumption DEF create_flag, EntryInums, Inums, NoInode, Root, InRange

\* alloc_inode returns an inode that is not marked, or the number out of range.
LEMMA AllocInode ==
  ASSUME NEW taken \in SUBSET Inums
  PROVE  alloc_inode(taken) \in (Inums \ taken) \cup {NoInode}
<1>1. CASE FreeInums(taken) = {}
  BY <1>1 DEF alloc_inode
<1>2. CASE FreeInums(taken) # {}
  <2>1. FreeInums(taken) \in SUBSET Nat
    BY InodesAssumption DEF FreeInums, Inums
  <2>2. Min(FreeInums(taken)) \in FreeInums(taken)
    BY <1>2, <2>1, MinIsLeast
  <2>3. ASSUME NEW i \in FreeInums(taken) PROVE i \in Inums \ taken
    <3> DEFINE b == INODE_START + i - 1
               blocks == {INODE_START + j - 1 : j \in taken}
    <3>1. i \in Inums /\ NotCheck(blocks, b)
      BY DEF FreeInums
    <3>2. b \in Nat
      BY <3>1, InodesAssumption DEF Inums
    <3>3. b % CHAR_BIT \in Nat /\ b - (b % CHAR_BIT) <= b
      BY <3>2, CharBitAssumption
    <3> HIDE DEF b
    <3>4. b \in (b - (b % CHAR_BIT)) .. b
      BY <3>2, <3>3
    <3> HIDE DEF blocks
    <3>5. b \notin blocks
      BY <3>1, <3>4 DEF NotCheck
    <3> QED
      BY <3>1, <3>5 DEF b, blocks
  <2> QED
    BY <1>2, <2>2, <2>3 DEF alloc_inode
<1> QED
  BY <1>1, <1>2

\* Initially nothing is under way and the directories are empty.
LEMMA InitIInv == Init => IInv
<1> SUFFICES ASSUME Init PROVE IInv
  OBVIOUS
<1>1. NoOp \in Operation /\ << >> \in Seq(Entry) /\ Len(<< >>) = 0
  BY Numbers DEF NoOp, Operation
<1>2. TypeOK
  BY <1>1, Numbers DEF Init, TypeOK, Status
<1>3. \A c \in Clients : pc[c] = "idle" /\ op[c] = NoOp /\ r[c] = "OK"
  BY DEF Init
<1>4. PhaseInv /\ LockInv /\ DirectInv /\ AnswersAreCurrent
  BY <1>3
  DEF PhaseInv, LockInv, DirectInv, AnswersAreCurrent, NoOp, Kinds, DirKinds, FileKinds
<1>5. \A i \in Inums : 1 .. Len(dirs[i]) = {}
  BY <1>1 DEF Init
<1>6. NamesAreUnique
  BY <1>5 DEF NamesAreUnique
<1> QED
  BY <1>2, <1>4, <1>6 DEF IInv

\* fuse.cc calls an operation.
LEMMA BeginStep ==
  ASSUME IInv, NEW c \in Clients, NEW inum \in Inums,
         NEW kind \in DirKinds \cup FileKinds \cup {"getattr"},
         NEW name \in Names \cup {NoName}, kind \in Kinds => name \in Names,
         Begin(c, kind, inum, name)
  PROVE  IInv'
<1> DEFINE new == [kind |-> kind, inum |-> inum, name |-> name]
<1>1. /\ pc[c] = "idle"
      /\ op' = [op EXCEPT ![c] = new]
      /\ pc' = [pc EXCEPT ![c] = IF kind \in Kinds THEN "lockFlag" ELSE "lock"]
      /\ UNCHANGED << inums, copy, type, chain, dirty, dirs, down >>
      /\ UNCHANGED << holder, direct, ino_out, r >>
  BY DEF Begin, Goto, fsVars, tableVars
<1>2. new \in Operation /\ new.kind = kind /\ new.inum = inum /\ new.name = name
  BY Numbers DEF Operation
<1> HIDE DEF new
<1>3. TypeOK /\ op[c].kind = "none" /\ kind # "none"
  BY <1>1 DEF IInv, PhaseInv, DirKinds, FileKinds, Kinds
<1>4. TypeOK'
  BY <1>1, <1>2, <1>3 DEF TypeOK
<1>5. PhaseInv'
  BY <1>1, <1>2, <1>3 DEF IInv, PhaseInv, TypeOK
<1>6. LockInv'
  BY <1>1, <1>2, <1>3 DEF IInv, LockInv, TypeOK
<1>7. DirectInv' /\ NamesAreUnique'
  BY <1>1, <1>2, <1>3 DEF IInv, DirectInv, NamesAreUnique, TypeOK
<1>8. AnswersAreCurrent'
  BY <1>1, <1>2, <1>3 DEF IInv, AnswersAreCurrent, TypeOK
<1> QED
  BY <1>4, <1>5, <1>6, <1>7, <1>8 DEF IInv

\* A creating operation gets create_flag.
LEMMA AcquireFlagStep ==
  ASSUME IInv, NEW c \in Clients, AcquireFlag(c)
  PROVE  IInv'
<1>1. /\ pc[c] = "lockFlag"
      /\ holder[create_flag] = NoClient
      /\ holder' = [holder EXCEPT ![create_flag] = c]
      /\ pc' = [pc EXCEPT ![c] = "lock"]
      /\ UNCHANGED << inums, copy, type, chain, dirty, dirs, down >>
      /\ UNCHANGED << op, direct, ino_out, r >>
  BY DEF AcquireFlag, Goto, fsVars, tableVars, localVars
<1>2. TypeOK /\ \A d \in Clients : op[d].inum \in EntryInums
  BY DEF IInv, TypeOK, Operation
<1>3. TypeOK'
  BY <1>1, <1>2 DEF TypeOK
<1>4. PhaseInv'
  BY <1>1, <1>2 DEF IInv, PhaseInv, TypeOK
<1>5. LockInv'
  BY <1>1, <1>2, Numbers, NoClientAssumption DEF IInv, LockInv, PhaseInv, TypeOK
<1>6. DirectInv' /\ NamesAreUnique'
  BY <1>1, <1>2 DEF IInv, DirectInv, NamesAreUnique, TypeOK
<1>7. AnswersAreCurrent'
  BY <1>1, <1>2 DEF IInv, AnswersAreCurrent, TypeOK
<1> QED
  BY <1>3, <1>4, <1>5, <1>6, <1>7 DEF IInv

\* An operation gets the lock of its inode.
LEMMA AcquireStep ==
  ASSUME IInv, NEW c \in Clients, Acquire(c)
  PROVE  IInv'
<1>1. /\ pc[c] = "lock"
      /\ holder[op[c].inum] = NoClient
      /\ holder' = [holder EXCEPT ![op[c].inum] = c]
      /\ pc' = [pc EXCEPT ![c] = "get"]
      /\ UNCHANGED << inums, copy, type, chain, dirty, dirs, down >>
      /\ UNCHANGED << op, direct, ino_out, r >>
  BY DEF Acquire, Goto, fsVars, tableVars, localVars
<1>2. TypeOK /\ \A d \in Clients : op[d].inum \in EntryInums
  BY DEF IInv, TypeOK, Operation
<1>3. TypeOK'
  BY <1>1, <1>2 DEF TypeOK
<1>4. PhaseInv'
  BY <1>1, <1>2 DEF IInv, PhaseInv, TypeOK
<1>5. LockInv'
  BY <1>1, <1>2, Numbers, NoClientAssumption DEF IInv, LockInv, PhaseInv, TypeOK
<1>6. DirectInv' /\ NamesAreUnique'
  BY <1>1, <1>2 DEF IInv, DirectInv, NamesAreUnique, TypeOK
<1>7. AnswersAreCurrent'
  BY <1>1, <1>2 DEF IInv, AnswersAreCurrent, TypeOK
<1> QED
  BY <1>3, <1>4, <1>5, <1>6, <1>7 DEF IInv

\* A step of a server's request moves its client from one point of its
\* operation to another, with the same locks, and leaves the directories.
LEMMA ServerStep ==
  ASSUME IInv, TypeOK', NEW c \in Clients,
         << pc[c], pc'[c] >> \in
           {<<"get", "flush">>, <<"flush", "get">>, <<"get", "get">>,
            <<"create", "alloc">>, <<"alloc", "put">>},
         pc'[c] = "flush" => op[c].kind \in FileKinds,
         pc'[c] = "put" => ino_out'[c] # 0,
         \A d \in Clients \ {c} : pc'[d] = pc[d],
         UNCHANGED << dirs, holder, op, direct, r >>,
         \A d \in Clients \ {c} : ino_out'[d] = ino_out[d]
  PROVE  IInv'
<1>1. PhaseInv'
  BY DEF IInv, PhaseInv
<1>2. LockInv'
  BY DEF IInv, LockInv, PhaseInv, Kinds, FileKinds
<1>3. DirectInv' /\ NamesAreUnique'
  BY DEF IInv, DirectInv, NamesAreUnique, PhaseInv
<1>4. AnswersAreCurrent'
  BY DEF IInv, AnswersAreCurrent
<1> QED
  BY <1>1, <1>2, <1>3, <1>4 DEF IInv

\* The request for a file reads the bitmap to write the file back.
LEMMA FlushStep ==
  ASSUME IInv, NEW c \in Clients, Flush(c)
  PROVE  IInv'
<1>1. /\ pc[c] = "get" /\ op[c].kind \in FileKinds
      /\ copy' = [copy EXCEPT ![c] = inums]
      /\ pc' = [pc EXCEPT ![c] = "flush"]
      /\ UNCHANGED << inums, type, chain, dirty, dirs, down >>
      /\ UNCHANGED << holder, op, direct, ino_out, r >>
  BY DEF Flush, Goto, localVars
<1>2. TypeOK'
  BY <1>1 DEF IInv, TypeOK
<1> QED
  BY <1>1, <1>2, ServerStep DEF IInv, TypeOK

\* What marking an inode leaves of the table.
LEMMA MarkType ==
  ASSUME TypeOK, NEW c \in Clients, NEW n \in EntryInums,
         NEW t \in {"T_DIR", "T_FILE", "T_LINK"}, Mark(c, n, t)
  PROVE  /\ inums' \subseteq Inums
         /\ copy' \in [Clients -> SUBSET Inums]
         /\ type' \in [Inums -> {"none", "T_DIR", "T_FILE", "T_LINK"}]
<1>1. inums' \subseteq Inums
  BY DEF Mark, TypeOK, EntryInums
<1>2. copy' \in [Clients -> SUBSET Inums]
  BY DEF Mark, TypeOK
<1>3. type' \in [Inums -> {"none", "T_DIR", "T_FILE", "T_LINK"}]
  BY DEF Mark, TypeOK
<1> QED
  BY <1>1, <1>2, <1>3

\* The file has been written back.
LEMMA FlushReturnsStep ==
  ASSUME IInv, NEW c \in Clients, FlushReturns(c)
  PROVE  IInv'
<1> DEFINE i == op[c].inum
           n == alloc_inode(copy[c])
<1>1. /\ pc[c] = "flush"
      /\ dirty' = [dirty EXCEPT ![i] = NoClient]
      /\ pc' = [pc EXCEPT ![c] = "get"]
      /\ UNCHANGED << dirs, holder, op, direct, ino_out, r >>
  BY DEF FlushReturns, Goto, localVars
<1>2. TypeOK /\ copy[c] \in SUBSET Inums
  BY DEF IInv, TypeOK
<1>3. /\ inums' \subseteq Inums /\ copy' \in [Clients -> SUBSET Inums]
      /\ type' \in [Inums -> {"none", "T_DIR", "T_FILE", "T_LINK"}]
      /\ chain' \in [Inums -> SUBSET Inums] /\ down' \in BOOLEAN
  <2>1. CASE FlushGrows(c)
    <3>1. Mark(c, n, "T_FILE") /\ n \in EntryInums
      BY <2>1, <1>2, AllocInode, Numbers DEF FlushGrows
    <3>2. chain' = [chain EXCEPT ![i] = @ \cup ({n} \cap Inums)]
      BY <2>1 DEF FlushGrows
    <3>3. chain' \in [Inums -> SUBSET Inums]
      <4> HIDE DEF n
      <4> QED  BY <1>2, <3>2 DEF TypeOK
    <3>4. down' \in BOOLEAN
      BY <2>1, Zenon DEF FlushGrows
    <3> HIDE DEF n
    <3> QED
      BY <1>2, <3>1, <3>3, <3>4, MarkType
  <2>2. CASE FlushCuts(c)
    <3>1. PICK m \in chain[i] :
            /\ inums' = copy[c] \ {m}
            /\ copy' = [copy EXCEPT ![c] = {}]
            /\ type' = [type EXCEPT ![m] = "none"]
            /\ chain' = [chain EXCEPT ![i] = @ \ {m}]
            /\ UNCHANGED down
      BY <2>2 DEF FlushCuts
    <3> QED
      BY <1>2, <3>1 DEF TypeOK
  <2> QED
    BY <2>1, <2>2 DEF FlushReturns
<1>4. TypeOK'
  BY <1>1, <1>2, <1>3 DEF TypeOK
<1> QED
  BY <1>1, <1>2, <1>4, ServerStep DEF TypeOK

\* The server dies.
LEMMA ServerDiesStep ==
  ASSUME IInv, NEW c \in Clients, ServerDies(c)
  PROVE  IInv'
<1>1. /\ down' = TRUE /\ pc[c] = "get"
      /\ UNCHANGED << inums, copy, type, chain, dirty, dirs >>
      /\ UNCHANGED << holder, pc, op, direct, ino_out, r >>
  BY DEF ServerDies, tableVars, localVars
<1>2. TypeOK'
  BY <1>1 DEF IInv, TypeOK
<1> QED
  BY <1>1, <1>2, ServerStep DEF IInv, TypeOK

\* The attributes or a file are read: directories are not concerned.
LEMMA GetOtherStep ==
  ASSUME IInv, NEW c \in Clients, Get(c), GetToStat(c) \/ GetFile(c)
  PROVE  IInv'
<1>1. /\ pc[c] = "get" /\ op[c].kind \in FileKinds \cup {"getattr"}
      /\ \/ pc' = [pc EXCEPT ![c] = "release"]
         \/ op[c].kind = "write" /\ pc' = [pc EXCEPT ![c] = "put"]
      /\ UNCHANGED << inums, copy, type, chain, dirty, dirs, down >>
      /\ UNCHANGED << holder, op, direct, ino_out, r >>
  BY DEF Get, GetToStat, GetFile, Goto, fsVars, tableVars, FileKinds
<1>2. TypeOK /\ op[c].kind \notin DirKinds /\ op[c].kind \notin Kinds
  BY <1>1 DEF IInv, FileKinds, DirKinds, Kinds
<1>3. TypeOK'
  BY <1>1, <1>2 DEF TypeOK
<1>4. PhaseInv'
  BY <1>1, <1>2 DEF IInv, PhaseInv, TypeOK
<1>5. LockInv'
  BY <1>1, <1>2 DEF IInv, LockInv, TypeOK
<1>6. DirectInv' /\ NamesAreUnique'
  BY <1>1, <1>2 DEF IInv, DirectInv, NamesAreUnique, TypeOK
<1>7. AnswersAreCurrent'
  BY <1>1, <1>2 DEF IInv, AnswersAreCurrent, TypeOK
<1> QED
  BY <1>3, <1>4, <1>5, <1>6, <1>7 DEF IInv

\* The directory is read; lookup and readdir have their answer.
LEMMA GetToReadStep ==
  ASSUME IInv, NEW c \in Clients, Get(c), GetDir(c), GetToLookup(c) \/ GetToReaddir(c)
  PROVE  IInv'
<1> DEFINE dir == dirs[op[c].inum]
           there == find(dir, op[c].name)
<1>1. /\ pc[c] = "get" /\ op[c].kind \in {"lookup", "readdir"}
      /\ pc' = [pc EXCEPT ![c] = "release"]
      /\ direct' = [direct EXCEPT ![c] = dir]
      /\ \/ /\ op[c].kind = "lookup"
            /\ ino_out' = [ino_out EXCEPT ![c] = there]
            /\ r' = [r EXCEPT ![c] = IF there = 0 THEN "NOENT" ELSE @]
         \/ op[c].kind = "readdir" /\ UNCHANGED << ino_out, r >>
      /\ UNCHANGED << inums, copy, type, chain, dirty, dirs, down >>
      /\ UNCHANGED << holder, op >>
  BY DEF Get, GetDir, GetToLookup, GetToReaddir, Goto, fsVars, tableVars
<1>2. op[c].inum \in Inums /\ op[c].kind \notin Kinds
  BY <1>1 DEF IInv, PhaseInv, DirKinds, Kinds
<1>3. TypeOK /\ dir \in Seq(Entry) /\ there \in {0} \cup EntryInums
  BY <1>2, FindType DEF IInv, TypeOK
<1>4. TypeOK'
  BY <1>1, <1>3 DEF TypeOK, Status
<1>5. PhaseInv'
  BY <1>1, <1>3 DEF IInv, PhaseInv, TypeOK
<1>6. LockInv'
  BY <1>1, <1>2, <1>3 DEF IInv, LockInv, TypeOK
<1>7. DirectInv' /\ NamesAreUnique'
  BY <1>1, <1>3 DEF IInv, DirectInv, NamesAreUnique, TypeOK
<1>8. AnswersAreCurrent'
  BY <1>1, <1>2, <1>3 DEF IInv, AnswersAreCurrent, TypeOK
<1> QED
  BY <1>4, <1>5, <1>6, <1>7, <1>8 DEF IInv

\* The directory is read; an operation that creates goes on if the name is
\* not there.
LEMMA GetToCreateStep ==
  ASSUME IInv, NEW c \in Clients, Get(c), GetDir(c), GetToCreate(c)
  PROVE  IInv'
<1> DEFINE dir == dirs[op[c].inum]
           there == find(dir, op[c].name)
<1>1. /\ pc[c] = "get" /\ op[c].kind \in Kinds
      /\ direct' = [direct EXCEPT ![c] = dir]
      /\ \/ /\ there # 0
            /\ r' = [r EXCEPT ![c] = "EXIST"]
            /\ pc' = [pc EXCEPT ![c] = "releaseFlag"]
         \/ /\ there = 0
            /\ pc' = [pc EXCEPT ![c] = "create"]
            /\ UNCHANGED r
      /\ UNCHANGED << inums, copy, type, chain, dirty, dirs, down >>
      /\ UNCHANGED << holder, op, ino_out >>
  BY DEF Get, GetDir, GetToCreate, Goto, fsVars, tableVars
<1>2. /\ op[c].inum \in Inums
      /\ op[c].kind \notin {"none", "lookup", "readdir", "unlink"}
  BY <1>1 DEF IInv, PhaseInv, DirKinds, Kinds
<1>3. TypeOK /\ dir \in Seq(Entry)
  BY <1>2 DEF IInv, TypeOK
<1>4. TypeOK'
  BY <1>1, <1>3 DEF TypeOK, Status
<1>5. PhaseInv'
  BY <1>1, <1>2, <1>3 DEF IInv, PhaseInv, TypeOK
<1>6. LockInv'
  BY <1>1, <1>3 DEF IInv, LockInv, TypeOK
<1>7. DirectInv'
  <2>1. there = 0 => \A n \in 1 .. Len(dir) : dir[n].name # op[c].name
    BY <1>3, FindZero
  <2> QED  BY <1>1, <1>3, <2>1 DEF IInv, DirectInv, TypeOK
<1>8. NamesAreUnique'
  BY <1>1 DEF IInv, NamesAreUnique
<1>9. AnswersAreCurrent'
  BY <1>1, <1>2, <1>3 DEF IInv, AnswersAreCurrent, TypeOK
<1> QED
  BY <1>4, <1>5, <1>6, <1>7, <1>8, <1>9 DEF IInv

\* The directory is read; unlink goes on if the name is there.
LEMMA GetToUnlinkStep ==
  ASSUME IInv, NEW c \in Clients, Get(c), GetDir(c), GetToUnlink(c)
  PROVE  IInv'
<1> DEFINE dir == dirs[op[c].inum]
           there == find(dir, op[c].name)
<1>1. /\ pc[c] = "get" /\ op[c].kind = "unlink"
      /\ direct' = [direct EXCEPT ![c] = dir]
      /\ \/ there = 0 /\ pc' = [pc EXCEPT ![c] = "release"]
         \/ pc' = [pc EXCEPT ![c] = "put"]
      /\ UNCHANGED << inums, copy, type, chain, dirty, dirs, down >>
      /\ UNCHANGED << holder, op, ino_out, r >>
  BY DEF Get, GetDir, GetToUnlink, Goto, fsVars, tableVars
<1>2. op[c].inum \in Inums /\ op[c].kind \notin Kinds /\ "unlink" \in DirKinds
  BY <1>1 DEF IInv, PhaseInv, DirKinds, Kinds
<1>3. TypeOK /\ dir \in Seq(Entry)
  BY <1>2 DEF IInv, TypeOK
<1>4. TypeOK'
  BY <1>1, <1>3 DEF TypeOK
<1>5. PhaseInv'
  BY <1>1, <1>2, <1>3 DEF IInv, PhaseInv, TypeOK
<1>6. LockInv'
  BY <1>1, <1>2, <1>3 DEF IInv, LockInv, TypeOK
<1>7. DirectInv' /\ NamesAreUnique'
  BY <1>1, <1>2, <1>3 DEF IInv, DirectInv, NamesAreUnique, TypeOK
<1>8. AnswersAreCurrent'
  BY <1>1, <1>2, <1>3 DEF IInv, AnswersAreCurrent, TypeOK
<1> QED
  BY <1>4, <1>5, <1>6, <1>7, <1>8 DEF IInv

\* The request of a create reads the bitmap.
LEMMA CreateStep ==
  ASSUME IInv, NEW c \in Clients, Create(c)
  PROVE  IInv'
<1>1. /\ pc[c] = "create"
      /\ copy' = [copy EXCEPT ![c] = inums]
      /\ pc' = [pc EXCEPT ![c] = "alloc"]
      /\ UNCHANGED << inums, type, chain, dirty, dirs, down >>
      /\ UNCHANGED << holder, op, direct, ino_out, r >>
  BY DEF Create, Goto, localVars
<1>2. TypeOK'
  BY <1>1 DEF IInv, TypeOK
<1> QED
  BY <1>1, <1>2, ServerStep DEF IInv, TypeOK

\* ec->create has returned a number.
LEMMA CreateReturnsFacts ==
  ASSUME IInv, NEW c \in Clients, CreateReturns(c)
  PROVE  LET n == alloc_inode(copy[c]) IN
         /\ pc[c] = "alloc" /\ op[c].kind \in Kinds
         /\ n \in (Inums \ copy[c]) \cup {NoInode}
         /\ \E t \in {"T_FILE", "T_DIR", "T_LINK"} : Mark(c, n, t)
         /\ ino_out' = [ino_out EXCEPT ![c] = n]
         /\ pc' = [pc EXCEPT ![c] = "put"]
         /\ down' \in BOOLEAN
         /\ UNCHANGED << chain, dirty, dirs, holder, op, direct, r >>
<1>1. /\ pc[c] = "alloc"
      /\ ino_out' = [ino_out EXCEPT ![c] = alloc_inode(copy[c])]
      /\ pc' = [pc EXCEPT ![c] = "put"]
      /\ UNCHANGED << chain, dirty, dirs, holder, op, direct, r >>
  BY DEF CreateReturns, Goto
<1>2. copy[c] \in SUBSET Inums /\ down \in BOOLEAN
  BY DEF IInv, TypeOK
<1>3. op[c].kind \in Kinds
  BY <1>1 DEF IInv, PhaseInv
<1>4. alloc_inode(copy[c]) \in (Inums \ copy[c]) \cup {NoInode}
  BY <1>2, AllocInode
<1>5. \E t \in {"T_FILE", "T_DIR", "T_LINK"} : Mark(c, alloc_inode(copy[c]), t)
  BY DEF CreateReturns, CreateFile, CreateDir, CreateLink
<1>6. down' \in BOOLEAN
  BY <1>2, Zenon DEF CreateReturns, CreateFile, CreateDir, CreateLink
<1> QED
  BY <1>1, <1>3, <1>4, <1>5, <1>6

LEMMA CreateReturnsStep ==
  ASSUME IInv, NEW c \in Clients, CreateReturns(c)
  PROVE  IInv'
<1> DEFINE n == alloc_inode(copy[c])
<1>1. /\ pc[c] = "alloc" /\ n \in EntryInums
      /\ ino_out' = [ino_out EXCEPT ![c] = n]
      /\ pc' = [pc EXCEPT ![c] = "put"]
      /\ down' \in BOOLEAN
      /\ UNCHANGED << chain, dirty, dirs, holder, op, direct, r >>
  BY CreateReturnsFacts, Numbers
<1>2. PICK t \in {"T_FILE", "T_DIR", "T_LINK"} : Mark(c, n, t)
  BY CreateReturnsFacts
<1> HIDE DEF n
<1>3. /\ inums' \subseteq Inums /\ copy' \in [Clients -> SUBSET Inums]
      /\ type' \in [Inums -> {"none", "T_DIR", "T_FILE", "T_LINK"}]
  BY <1>1, <1>2, MarkType DEF IInv
<1>4. TypeOK'
  BY <1>1, <1>3 DEF IInv, TypeOK
<1> QED
  BY <1>1, <1>4, Numbers, ServerStep DEF IInv, TypeOK

\* What a put does: an unlink takes the entry with its name out of its
\* directory, an operation that creates puts one in, a write is none of a
\* directory.
LEMMA PutFacts ==
  ASSUME IInv, NEW c \in Clients, Put(c)
  PROVE  LET i   == op[c].inum
             new == dirs'[i]
             e   == [name |-> op[c].name, inum |-> ino_out[c]]
         IN /\ pc[c] = "put" /\ i \in Inums /\ new \in Seq(Entry)
            /\ dirs' = [dirs EXCEPT ![i] = new]
            /\ Unique(new)
            /\ \/ /\ op[c].kind = "unlink"
                  /\ pc' = [pc EXCEPT ![c] = "release"]
                  /\ Entries(new) = {f \in Entries(dirs[i]) : f.name # op[c].name}
                  /\ find(new, op[c].name) = 0
               \/ /\ op[c].kind \in Kinds
                  /\ pc' = [pc EXCEPT ![c] = "releaseFlag"]
                  /\ Entries(new) = Entries(dirs[i]) \cup {e}
                  /\ find(new, op[c].name) = ino_out[c]
               \/ /\ op[c].kind = "write"
                  /\ pc' = [pc EXCEPT ![c] = "release"]
                  /\ new = dirs[i]
            /\ dirty' \in [Inums -> Clients \cup {NoClient}]
            /\ UNCHANGED << inums, copy, type, chain, down >>
            /\ UNCHANGED << holder, op, direct, ino_out, r >>
<1> DEFINE i == op[c].inum
<1>1. /\ pc[c] = "put"
      /\ UNCHANGED << inums, copy, type, chain, down >>
      /\ UNCHANGED << holder, op, direct, ino_out, r >>
  BY DEF Put, tableVars, localVars
<1>2. /\ i \in Inums /\ op[c].kind \in Kinds \cup {"unlink", "write"}
      /\ op[c].kind # "write" => op[c].kind \in DirKinds
  BY <1>1 DEF IInv, PhaseInv, DirKinds, FileKinds
<1>3. /\ dirs[i] \in Seq(Entry) /\ dirs \in [Inums -> Seq(Entry)]
      /\ dirty \in [Inums -> Clients \cup {NoClient}]
      /\ ino_out[c] \in {0} \cup EntryInums
  BY <1>2 DEF IInv, TypeOK
<1>4. /\ Unique(dirs[i])
      /\ op[c].kind # "write" => direct[c] = dirs[i]
  BY <1>1, <1>2 DEF IInv, DirectInv, NamesAreUnique, Unique
<1>5. CASE op[c].kind = "unlink"
  <2> DEFINE new == delent(dirs[i], op[c].name)
  <2>1. /\ dirs' = [dirs EXCEPT ![i] = new] /\ pc' = [pc EXCEPT ![c] = "release"]
        /\ UNCHANGED dirty
    BY <1>4, <1>5 DEF Put, PutEntry, PutUnlinked, PutFile, Goto, Kinds
  <2>2. /\ new \in Seq(Entry) /\ Unique(new)
        /\ Entries(new) = {f \in Entries(dirs[i]) : f.name # op[c].name}
        /\ find(new, op[c].name) = 0
    BY <1>3, <1>4, DelentFacts
  <2> HIDE DEF new
  <2>3. dirs'[i] = new
    BY <1>2, <1>3, <2>1
  <2> QED
    BY <1>1, <1>2, <1>3, <1>5, <2>1, <2>2, <2>3
<1>6. CASE op[c].kind \in Kinds
  <2> DEFINE new == addent(dirs[i], op[c].name, ino_out[c])
  <2>1. /\ dirs' = [dirs EXCEPT ![i] = new] /\ pc' = [pc EXCEPT ![c] = "releaseFlag"]
        /\ UNCHANGED dirty
    BY <1>4, <1>6 DEF Put, PutEntry, PutUnlinked, PutFile, Goto, Kinds
  <2>2. op[c].kind \in DirKinds
    BY <1>6 DEF DirKinds
  <2>3. /\ op[c].name \in Names /\ ino_out[c] \in EntryInums
        /\ \A n \in 1 .. Len(dirs[i]) : dirs[i][n].name # op[c].name
    BY <1>1, <1>3, <1>6, <2>2 DEF IInv, PhaseInv, DirectInv
  <2>4. /\ new \in Seq(Entry) /\ Unique(new)
        /\ Entries(new) = Entries(dirs[i]) \cup {[name |-> op[c].name, inum |-> ino_out[c]]}
        /\ find(new, op[c].name) = ino_out[c]
    BY <1>3, <1>4, <2>3, AddentFacts
  <2> HIDE DEF new
  <2>5. dirs'[i] = new
    BY <1>2, <1>3, <2>1
  <2> QED
    BY <1>1, <1>2, <1>3, <1>6, <2>1, <2>4, <2>5
<1>7. CASE op[c].kind = "write"
  <2>1. /\ UNCHANGED dirs /\ pc' = [pc EXCEPT ![c] = "release"]
        /\ \E d \in {c, NoClient} : dirty' = [dirty EXCEPT ![i] = d]
    BY <1>7 DEF Put, PutEntry, PutUnlinked, PutFile, Goto, Kinds
  <2>2. dirty' \in [Inums -> Clients \cup {NoClient}]
    BY <1>3, <2>1
  <2>3. dirs' = [dirs EXCEPT ![i] = dirs'[i]]
    BY <1>2, <1>3, <2>1
  <2> QED
    BY <1>1, <1>2, <1>3, <1>4, <1>7, <2>1, <2>2, <2>3
<1> QED
  BY <1>2, <1>5, <1>6, <1>7

\* The directory is written back: only this client could have changed it.
LEMMA PutStep ==
  ASSUME IInv, NEW c \in Clients, Put(c)
  PROVE  IInv'
<1> DEFINE i   == op[c].inum
           new == dirs'[i]
<1>1. /\ pc[c] = "put" /\ i \in Inums /\ new \in Seq(Entry)
      /\ dirs' = [dirs EXCEPT ![i] = new]
      /\ Unique(new)
      /\ dirty' \in [Inums -> Clients \cup {NoClient}]
      /\ UNCHANGED << inums, copy, type, chain, down >>
      /\ UNCHANGED << holder, op, direct, ino_out, r >>
  BY PutFacts
<1>2. \/ /\ op[c].kind = "unlink"
         /\ pc' = [pc EXCEPT ![c] = "release"]
         /\ find(new, op[c].name) = 0
      \/ /\ op[c].kind \in Kinds
         /\ pc' = [pc EXCEPT ![c] = "releaseFlag"]
         /\ find(new, op[c].name) = ino_out[c]
      \/ /\ op[c].kind = "write"
         /\ pc' = [pc EXCEPT ![c] = "release"]
  BY PutFacts
<1> HIDE DEF new
<1>3. /\ TypeOK /\ {"unlink", "write", "none"} \cap Kinds = {}
      /\ {"lookup", "readdir", "write"} \cap (Kinds \cup {"unlink"}) = {}
      /\ "write" \notin DirKinds
  BY DEF IInv, Kinds, DirKinds
<1>4. /\ new = dirs'[i]
      /\ \A j \in Inums : j # i => dirs'[j] = dirs[j]
  BY <1>1, <1>3 DEF TypeOK, new
<1>5. \A d \in Clients \ {c} :
        /\ pc'[d] = pc[d]
        /\ pc[d] \in {"get", "create", "alloc", "put", "releaseFlag", "release"} =>
             op[d].inum # i
  <2>1. holder[i] = c
    BY <1>1 DEF IInv, LockInv
  <2>2. \A d \in Clients \ {c} : pc'[d] = pc[d]
    BY <1>2, <1>3 DEF TypeOK
  <2> QED
    BY <2>1, <2>2 DEF IInv, LockInv
<1>6. \A d \in Clients : op[d].kind \in DirKinds => op[d].inum \in Inums
  BY DEF IInv, PhaseInv
<1>7. TypeOK'
  BY <1>1, <1>2, <1>3 DEF TypeOK
<1>8. PhaseInv'
  BY <1>1, <1>2, <1>3 DEF IInv, PhaseInv, TypeOK
<1>9. LockInv'
  BY <1>1, <1>2, <1>3 DEF IInv, LockInv, TypeOK
<1>10. DirectInv'
  <2>1. pc'[c] \notin {"create", "alloc", "put"}
    BY <1>2, <1>3 DEF TypeOK
  <2> QED
    BY <1>1, <1>4, <1>5, <1>6, <2>1 DEF IInv, DirectInv
<1>11. NamesAreUnique'
  BY <1>1, <1>4 DEF IInv, NamesAreUnique, Unique
<1>12. AnswersAreCurrent'
  <2>1. ASSUME NEW d \in Clients \ {c}, pc'[d] \in {"releaseFlag", "release"},
               op[d].kind \in DirKinds
        PROVE  /\ pc[d] \in {"releaseFlag", "release"}
               /\ dirs'[op[d].inum] = dirs[op[d].inum]
    BY <1>4, <1>5, <1>6, <2>1
  <2>2. r[c] = "OK"
    BY <1>1 DEF IInv, PhaseInv
  <2> QED
    BY <1>1, <1>2, <1>3, <1>4, <2>1, <2>2 DEF IInv, AnswersAreCurrent
<1> QED
  BY <1>7, <1>8, <1>9, <1>10, <1>11, <1>12 DEF IInv

\* A creating operation gives create_flag back.
LEMMA ReleaseFlagStep ==
  ASSUME IInv, NEW c \in Clients, ReleaseFlag(c)
  PROVE  IInv'
<1>1. /\ pc[c] = "releaseFlag"
      /\ holder' = [holder EXCEPT ![create_flag] = NoClient]
      /\ pc' = [pc EXCEPT ![c] = "release"]
      /\ UNCHANGED << inums, copy, type, chain, dirty, dirs, down >>
      /\ UNCHANGED << op, direct, ino_out, r >>
  BY DEF ReleaseFlag, Goto, fsVars, tableVars, localVars
<1>2. TypeOK /\ \A d \in Clients : op[d].inum \in EntryInums
  BY DEF IInv, TypeOK, Operation
<1>3. TypeOK'
  BY <1>1, <1>2 DEF TypeOK
<1>4. PhaseInv'
  BY <1>1, <1>2 DEF IInv, PhaseInv, TypeOK
<1>5. LockInv'
  BY <1>1, <1>2, Numbers, NoClientAssumption DEF IInv, LockInv, PhaseInv, TypeOK
<1>6. DirectInv' /\ NamesAreUnique'
  BY <1>1, <1>2 DEF IInv, DirectInv, NamesAreUnique, TypeOK
<1>7. AnswersAreCurrent'
  BY <1>1, <1>2 DEF IInv, AnswersAreCurrent, TypeOK
<1> QED
  BY <1>3, <1>4, <1>5, <1>6, <1>7 DEF IInv

\* An operation gives the lock of its inode back; fuse.cc answers, or goes on
\* with the attributes of the inode.
LEMMA ReleaseStep ==
  ASSUME IInv, NEW c \in Clients, Release(c)
  PROVE  IInv'
<1>1. /\ pc[c] = "release"
      /\ holder' = [holder EXCEPT ![op[c].inum] = NoClient]
      /\ direct' = [direct EXCEPT ![c] = << >>]
      /\ ino_out' = [ino_out EXCEPT ![c] = 0]
      /\ r' = [r EXCEPT ![c] = "OK"]
      /\ UNCHANGED << inums, copy, type, chain, dirty, dirs, down >>
  BY DEF Release, fsVars, tableVars
<1>2. TypeOK /\ \A d \in Clients : op[d].inum \in EntryInums
  BY DEF IInv, TypeOK, Operation
<1>3. PICK new \in Operation :
        /\ op' = [op EXCEPT ![c] = new]
        /\ \/ new.kind = "getattr" /\ pc' = [pc EXCEPT ![c] = "lock"]
           \/ new.kind = "none" /\ pc' = [pc EXCEPT ![c] = "idle"]
  <2>1. CASE AnswerNeedsAttr(c)
    <3> DEFINE new == [kind |-> "getattr", inum |-> ino_out[c], name |-> NoName]
    <3>1. ino_out[c] \in EntryInums
      BY <1>2, <2>1 DEF AnswerNeedsAttr, TypeOK
    <3>2. new \in Operation
      BY <3>1 DEF Operation
    <3> QED
      BY <2>1, <3>2 DEF AnswerNeedsAttr, Goto
  <2>2. CASE Answer(c)
    <3>1. NoOp \in Operation /\ NoOp.kind = "none"
      BY Numbers DEF NoOp, Operation
    <3> QED
      BY <2>2, <3>1 DEF Answer, Goto
  <2> QED
    BY <2>1, <2>2 DEF Release
<1>4. {"getattr", "none"} \cap (Kinds \cup DirKinds \cup FileKinds) = {}
  BY DEF Kinds, DirKinds, FileKinds
<1>5. TypeOK'
  <2>1. << >> \in Seq(Entry)
    OBVIOUS
  <2> QED  BY <1>1, <1>2, <1>3, <2>1 DEF TypeOK, Status
<1>6. PhaseInv'
  BY <1>1, <1>2, <1>3, <1>4 DEF IInv, PhaseInv, TypeOK
<1>7. LockInv'
  BY <1>1, <1>2, <1>3, <1>4, Numbers, NoClientAssumption DEF IInv, LockInv, TypeOK
<1>8. DirectInv' /\ NamesAreUnique'
  BY <1>1, <1>2, <1>3 DEF IInv, DirectInv, NamesAreUnique, TypeOK
<1>9. AnswersAreCurrent'
  BY <1>1, <1>2, <1>3 DEF IInv, AnswersAreCurrent, TypeOK
<1> QED
  BY <1>5, <1>6, <1>7, <1>8, <1>9 DEF IInv

\* Any step of any client.
LEMMA NextStep ==
  ASSUME IInv, [Next]_vars
  PROVE  IInv'
<1>1. CASE UNCHANGED vars
  BY <1>1 DEF IInv, vars, fsVars, tableVars, localVars, TypeOK, PhaseInv, LockInv,
       DirectInv, NamesAreUnique, AnswersAreCurrent
<1>2. ASSUME NEW c \in Clients, Call(c)
      PROVE  IInv'
  <2>1. ASSUME NEW inum \in Inums, NEW kind \in Kinds \cup {"lookup", "unlink"},
               NEW name \in Names, Begin(c, kind, inum, name)
        PROVE  IInv'
    <3>1. kind \in DirKinds \cup FileKinds \cup {"getattr"}
      BY DEF DirKinds
    <3> QED  BY <2>1, <3>1, BeginStep
  <2>2. ASSUME NEW inum \in Inums, NEW kind \in FileKinds \cup {"readdir", "getattr"},
               Begin(c, kind, inum, NoName)
        PROVE  IInv'
    <3>1. kind \in DirKinds \cup FileKinds \cup {"getattr"} /\ kind \notin Kinds
      BY DEF DirKinds, FileKinds, Kinds
    <3> QED  BY <2>2, <3>1, BeginStep
  <2> QED
    BY <1>2, <2>1, <2>2 DEF Call
<1>3. ASSUME NEW c \in Clients, AcquireFlag(c) \/ Acquire(c) \/ Step(c)
      PROVE  IInv'
  <2>1. CASE Get(c)
    BY <2>1, GetOtherStep, GetToReadStep, GetToCreateStep, GetToUnlinkStep
       DEF Get, GetDir
  <2> QED
    BY <1>3, <2>1, AcquireFlagStep, AcquireStep, FlushStep, FlushReturnsStep,
       ServerDiesStep, CreateStep, CreateReturnsStep, PutStep, ReleaseFlagStep,
       ReleaseStep DEF Step
<1> QED
  BY <1>1, <1>2, <1>3 DEF Next

-----------------------------------------------------------------------------
(***************************************************************************)
(* The inode table, when no flush overlaps another change of the bitmap    *)
(***************************************************************************)

\* Where the invariant of the table looks at a client.
Reading(d) == pc[d] \in {"alloc", "flush"}
Entering(d) == pc[d] = "put" /\ op[d].kind \in Kinds

\* Initially only the root is marked.
LEMMA InitSInv == Init => SInv
<1> SUFFICES ASSUME Init PROVE SInv
  OBVIOUS
<1>1. IInv
  BY InitIInv
<1>2. \A c \in Clients : pc[c] = "idle"
  BY DEF Init
<1>3. Serial /\ CopyInv /\ AllocInv
  BY <1>2 DEF Serial, CopyInv, AllocInv
<1>4. \A i \in Inums : chain[i] = {} /\ dirs[i] = << >>
  BY DEF Init
<1>5. Chained = {}
  BY <1>4 DEF Chained
<1>6. ChainInv
  BY <1>4, <1>5 DEF ChainInv, Init
<1>7. \A i \in Inums : Entries(dirs[i]) = {}
  BY <1>4 DEF Entries
<1>8. OneEntryPerInode
  BY <1>7 DEF OneEntryPerInode
<1> QED
  BY <1>1, <1>3, <1>6, <1>8 DEF SInv

\* A step that neither reads nor writes the bitmap and leaves the directories.
LEMMA QuietStep ==
  ASSUME SInv, IInv', Serial', UNCHANGED << inums, copy, chain, dirs >>,
         \A d \in Clients : Reading(d)' => Reading(d),
         \A d \in Clients : Entering(d)' => Entering(d) /\ ino_out'[d] = ino_out[d]
  PROVE  SInv'
<1>1. UNCHANGED Chained
  BY DEF Chained
<1>2. CopyInv'
  BY DEF SInv, CopyInv, Reading
<1>3. ChainInv'
  BY <1>1 DEF SInv, ChainInv
<1>4. AllocInv'
  BY <1>1 DEF SInv, AllocInv, Entering
<1>5. OneEntryPerInode'
  BY <1>1 DEF SInv, OneEntryPerInode
<1> QED
  BY <1>2, <1>3, <1>4, <1>5 DEF SInv

\* A request reads the bitmap.
LEMMA ReadStep ==
  ASSUME SInv, IInv', Serial', NEW c \in Clients, Flush(c) \/ Create(c)
  PROVE  SInv'
<1>1. /\ copy' = [copy EXCEPT ![c] = inums]
      /\ pc'[c] \in {"alloc", "flush"} /\ \A d \in Clients \ {c} : pc'[d] = pc[d]
      /\ UNCHANGED << inums, chain, dirs, op, ino_out >>
  BY DEF Flush, Create, Goto, localVars, SInv, IInv, TypeOK
<1>2. UNCHANGED Chained
  BY <1>1 DEF Chained
<1>3. CopyInv'
  BY <1>1 DEF SInv, IInv, TypeOK, CopyInv
<1>4. ChainInv'
  BY <1>1, <1>2 DEF SInv, ChainInv
<1>5. AllocInv'
  BY <1>1, <1>2 DEF SInv, AllocInv
<1>6. OneEntryPerInode'
  BY <1>1, <1>2 DEF SInv, OneEntryPerInode
<1> QED
  BY <1>3, <1>4, <1>5, <1>6 DEF SInv

\* A flushed file has one inode more or one fewer: the copy of the bitmap was
\* as the bitmap is, and nobody else has one.
LEMMA FlushReturnsTable ==
  ASSUME SInv, IInv', Serial', NEW c \in Clients, FlushReturns(c)
  PROVE  SInv'
<1> DEFINE i == op[c].inum
<1>1. /\ pc[c] = "flush" /\ pc' = [pc EXCEPT ![c] = "get"]
      /\ UNCHANGED << dirs, op, ino_out >>
  BY DEF FlushReturns, Goto, localVars
<1>2. TypeOK /\ copy[c] = inums /\ i \in Inums
  BY <1>1 DEF SInv, IInv, PhaseInv, CopyInv
<1>3. \A d \in Clients : ~ Reading(d)'
  <2>1. \A d \in Clients \ {c} : pc[d] \notin {"alloc", "flush"}
    BY <1>1 DEF SInv, Serial
  <2> QED
    BY <1>1, <1>2, <2>1 DEF Reading, TypeOK
<1>4. CopyInv'
  BY <1>3 DEF CopyInv, Reading
<1>5. \A d \in Clients : Entering(d)' => Entering(d)
  BY <1>1, <1>2 DEF Entering, TypeOK
<1>6. CASE FlushGrows(c)
  <2> DEFINE n == alloc_inode(copy[c])
  <2>1. n \in (Inums \ inums) \cup {NoInode}
    BY <1>2, AllocInode DEF TypeOK
  <2>2. /\ inums' = IF n = NoInode THEN inums ELSE inums \cup {n}
        /\ chain' = [chain EXCEPT ![i] = @ \cup ({n} \cap Inums)]
    BY <1>2, <1>6 DEF FlushGrows, Mark
  <2> HIDE DEF n
  <2>3. n = NoInode => UNCHANGED << inums, chain >>
    BY <1>2, <2>2, Numbers DEF TypeOK
  <2>4. CASE n = NoInode
    <3>1. UNCHANGED << inums, chain, Chained >>
      BY <2>3, <2>4 DEF Chained
    <3>2. ChainInv'
      BY <3>1 DEF SInv, ChainInv
    <3>3. AllocInv'
      BY <1>1, <1>5, <3>1 DEF SInv, AllocInv, Entering
    <3>4. OneEntryPerInode'
      BY <1>1, <3>1 DEF SInv, OneEntryPerInode
    <3> QED
      BY <1>4, <3>2, <3>3, <3>4 DEF SInv
  <2>5. CASE n # NoInode
    <3>1. /\ n \in Inums /\ n \notin inums /\ inums' = inums \cup {n}
          /\ \A j \in Inums : chain'[j] = IF j = i THEN chain[i] \cup {n} ELSE chain[j]
      <4>1. n \in Inums /\ n \notin inums /\ inums' = inums \cup {n}
        BY <2>1, <2>2, <2>5
      <4>2. {n} \cap Inums = {n}
        BY <4>1
      <4> QED
        BY <1>2, <2>2, <4>1, <4>2 DEF TypeOK
    <3>2. Chained' = Chained \cup {n}
      BY <1>2, <3>1 DEF Chained
    <3>3. ChainInv'
      BY <1>2, <3>1, <3>2 DEF SInv, ChainInv
    <3>4. AllocInv'
      BY <1>1, <1>5, <3>1, <3>2 DEF SInv, AllocInv, Entering
    <3>5. OneEntryPerInode'
      BY <1>1, <3>1, <3>2 DEF SInv, OneEntryPerInode
    <3> QED
      BY <1>4, <3>3, <3>4, <3>5 DEF SInv
  <2> QED
    BY <2>4, <2>5
<1>7. CASE FlushCuts(c)
  <2>1. PICK n \in chain[i] :
          /\ inums' = inums \ {n}
          /\ chain' = [chain EXCEPT ![i] = @ \ {n}]
    BY <1>2, <1>7 DEF FlushCuts
  <2>2. n \in Chained /\ n \in inums
    BY <1>2, <2>1 DEF SInv, ChainInv, Chained
  <2>3. \A j \in Inums : chain'[j] = chain[j] \ {n}
    BY <1>2, <2>1 DEF SInv, ChainInv, TypeOK
  <2>4. Chained' = Chained \ {n}
    BY <2>3 DEF Chained
  <2>5. ChainInv'
    BY <2>1, <2>2, <2>3, <2>4 DEF SInv, ChainInv
  <2>6. AllocInv'
    BY <1>1, <1>5, <2>1, <2>2, <2>4 DEF SInv, AllocInv, Entering
  <2>7. OneEntryPerInode'
    BY <1>1, <2>1, <2>2, <2>4 DEF SInv, OneEntryPerInode
  <2> QED
    BY <1>4, <2>5, <2>6, <2>7 DEF SInv
<1> QED
  BY <1>6, <1>7 DEF FlushReturns

\* A create takes an inode: create_flag keeps other creates out, and no flush
\* is under way.
LEMMA CreateReturnsTable ==
  ASSUME SInv, IInv', Serial', NEW c \in Clients, CreateReturns(c)
  PROVE  SInv'
<1> DEFINE n == alloc_inode(copy[c])
<1>0. IInv
  BY DEF SInv
<1>1. /\ pc[c] = "alloc" /\ op[c].kind \in Kinds
      /\ n \in (Inums \ copy[c]) \cup {NoInode}
      /\ \E t \in {"T_FILE", "T_DIR", "T_LINK"} : Mark(c, n, t)
      /\ ino_out' = [ino_out EXCEPT ![c] = n]
      /\ pc' = [pc EXCEPT ![c] = "put"]
      /\ UNCHANGED << chain, dirs, op >>
  BY <1>0, CreateReturnsFacts
<1> HIDE DEF n
<1>2. TypeOK /\ copy[c] = inums
  BY <1>1 DEF SInv, IInv, CopyInv
<1>3. inums' = (IF n = NoInode THEN inums ELSE inums \cup {n}) /\ UNCHANGED Chained
  BY <1>1, <1>2 DEF Mark, Chained
<1>4. \A d \in Clients \ {c} : ~ Reading(d) /\ ~ Entering(d)
  <2>1. holder[create_flag] = c
    BY <1>0, <1>1 DEF IInv, LockInv
  <2>2. \A d \in Clients \ {c} : pc[d] # "alloc" /\ ~ Entering(d)
    BY <1>0, <2>1 DEF IInv, LockInv, PhaseInv, Entering
  <2>3. \A d \in Clients \ {c} : pc[d] # "flush"
    BY <1>1 DEF SInv, Serial
  <2> QED
    BY <2>2, <2>3 DEF Reading
<1>5. \A d \in Clients : ~ Reading(d)' /\ (Entering(d)' => d = c)
  BY <1>1, <1>2, <1>4 DEF Reading, Entering, TypeOK
<1>6. CopyInv'
  BY <1>5 DEF CopyInv, Reading
<1>7. ChainInv'
  BY <1>1, <1>3 DEF SInv, ChainInv
<1>8. AllocInv'
  <2>1. ino_out'[c] = n
    BY <1>1, <1>2 DEF TypeOK
  <2>2. ASSUME n # NoInode
        PROVE  /\ n \in inums' \ ({Root} \cup Chained')
               /\ \A j \in Inums : \A e \in Entries(dirs'[j]) : e.inum # n
    <3>1. n \notin inums /\ n \in inums'
      BY <1>1, <1>2, <1>3, <2>2
    <3>2. n # Root /\ n \notin Chained
      BY <3>1 DEF SInv, ChainInv, Chained
    <3>3. \A j \in Inums : \A e \in Entries(dirs[j]) : e.inum # n
      BY <2>2, <3>1 DEF SInv, OneEntryPerInode
    <3> QED
      BY <1>1, <1>3, <3>1, <3>2, <3>3
  <2> QED
    BY <1>5, <2>1, <2>2 DEF AllocInv, Entering
<1>9. OneEntryPerInode'
  BY <1>1, <1>3 DEF SInv, OneEntryPerInode
<1> QED
  BY <1>6, <1>7, <1>8, <1>9 DEF SInv

\* The new entry is the only one with its inode.
LEMMA PutTable ==
  ASSUME SInv, IInv', Serial', NEW c \in Clients, Put(c)
  PROVE  SInv'
<1> DEFINE i   == op[c].inum
           new == dirs'[i]
           e   == [name |-> op[c].name, inum |-> ino_out[c]]
<1>0. IInv
  BY DEF SInv
<1>1. /\ pc[c] = "put" /\ i \in Inums
      /\ dirs' = [dirs EXCEPT ![i] = new]
      /\ UNCHANGED << inums, copy, chain, holder, op, ino_out >>
  BY <1>0, PutFacts
<1>2. \/ /\ op[c].kind \notin Kinds
         /\ pc' = [pc EXCEPT ![c] = "release"]
         /\ Entries(new) \subseteq Entries(dirs[i])
      \/ /\ op[c].kind \in Kinds
         /\ pc' = [pc EXCEPT ![c] = "releaseFlag"]
         /\ Entries(new) = Entries(dirs[i]) \cup {e}
  <2>1. "unlink" \notin Kinds /\ "write" \notin Kinds
    BY DEF Kinds
  <2> QED
    BY <1>0, <2>1, PutFacts
<1> HIDE DEF new, e
<1>3. TypeOK /\ UNCHANGED Chained
  BY <1>0, <1>1 DEF IInv, Chained
<1>4. /\ new = dirs'[i]
      /\ \A j \in Inums : j # i => dirs'[j] = dirs[j]
  BY <1>1, <1>3 DEF TypeOK, new
<1>5. \A d \in Clients : /\ Reading(d)' => Reading(d)
                         /\ Entering(d)' => d # c /\ Entering(d)
  BY <1>1, <1>2, <1>3 DEF Reading, Entering, TypeOK
<1>6. CopyInv'
  BY <1>1, <1>5 DEF SInv, CopyInv, Reading
<1>7. ChainInv'
  BY <1>1, <1>3 DEF SInv, ChainInv
<1>8. CASE op[c].kind \notin Kinds
  <2>1. \A j \in Inums : Entries(dirs'[j]) \subseteq Entries(dirs[j])
    BY <1>2, <1>4, <1>8
  <2>2. AllocInv'
    BY <1>1, <1>3, <1>5, <2>1 DEF SInv, AllocInv, Entering
  <2>3. OneEntryPerInode'
    BY <1>1, <1>3, <2>1 DEF SInv, OneEntryPerInode
  <2> QED
    BY <1>6, <1>7, <2>2, <2>3 DEF SInv
<1>9. CASE op[c].kind \in Kinds
  <2>1. e.inum = ino_out[c]
    BY DEF e
  <2>2. ino_out[c] # NoInode =>
          /\ ino_out[c] \in inums \ ({Root} \cup Chained)
          /\ \A j \in Inums : \A f \in Entries(dirs[j]) : f.inum # ino_out[c]
    BY <1>1, <1>9 DEF SInv, AllocInv
  <2>3. \A j \in Inums : \A f \in Entries(dirs'[j]) :
          f \in Entries(dirs[j]) \/ (j = i /\ f = e)
    BY <1>2, <1>4, <1>9
  <2>4. \A d \in Clients : ~ Entering(d)'
    <3>1. holder[create_flag] = c
      BY <1>0, <1>1, <1>9 DEF IInv, LockInv
    <3> QED
      BY <1>0, <1>5, <3>1 DEF IInv, LockInv, Entering
  <2>5. AllocInv'
    BY <2>4 DEF AllocInv, Entering
  <2>6. OneEntryPerInode'
    BY <1>1, <1>3, <2>1, <2>2, <2>3 DEF SInv, OneEntryPerInode
  <2> QED
    BY <1>6, <1>7, <2>5, <2>6 DEF SInv
<1> QED
  BY <1>8, <1>9

\* The other steps do not concern the table.
LEMMA OtherTable ==
  ASSUME SInv, IInv', Serial', NEW c \in Clients,
         \/ Call(c) \/ AcquireFlag(c) \/ Acquire(c) \/ ServerDies(c) \/ Get(c)
         \/ ReleaseFlag(c) \/ Release(c)
  PROVE  SInv'
<1>1. TypeOK
  BY DEF SInv, IInv
<1>2. UNCHANGED << inums, copy, chain, dirs >>
  BY DEF Call, Begin, AcquireFlag, Acquire, ServerDies, Get, ReleaseFlag, Release,
         fsVars, tableVars
<1>3. \A d \in Clients \ {c} :
        pc'[d] = pc[d] /\ op'[d] = op[d] /\ ino_out'[d] = ino_out[d]
  BY <1>1 DEF Call, Begin, AcquireFlag, Acquire, ServerDies, Get, GetToStat, GetFile,
       GetDir, GetToLookup, GetToReaddir, GetToCreate, GetToUnlink, ReleaseFlag,
       Release, AnswerNeedsAttr, Answer, Goto, localVars, TypeOK
<1>4. ~ Reading(c)' /\ ~ Entering(c)'
  <2>1. CASE Call(c) \/ AcquireFlag(c) \/ Acquire(c)
    BY <1>1, <2>1 DEF Call, Begin, AcquireFlag, Acquire, Goto, TypeOK, Reading, Entering
  <2>2. CASE ServerDies(c)
    BY <1>1, <2>2 DEF ServerDies, Reading, Entering
  <2>3. CASE Get(c)
    <3>1. op' = op
      BY <2>3 DEF Get
    <3>2. CASE op[c].kind \in Kinds
      <4>1. pc'[c] \in {"releaseFlag", "create"}
        BY <1>1, <2>3, <3>2 DEF Get, GetToStat, GetFile, GetDir, GetToLookup,
           GetToReaddir, GetToCreate, GetToUnlink, Goto, TypeOK, Kinds, FileKinds
      <4> QED
        BY <4>1 DEF Reading, Entering
    <3>3. CASE op[c].kind \notin Kinds
      <4>1. pc'[c] \in {"release", "put"}
        BY <1>1, <2>3, <3>3 DEF Get, GetToStat, GetFile, GetDir, GetToLookup,
           GetToReaddir, GetToCreate, GetToUnlink, Goto, TypeOK
      <4> QED
        BY <3>1, <3>3, <4>1 DEF Reading, Entering
    <3> QED
      BY <3>2, <3>3
  <2>4. CASE ReleaseFlag(c) \/ Release(c)
    BY <1>1, <2>4 DEF ReleaseFlag, Release, AnswerNeedsAttr, Answer, Goto, TypeOK,
       Reading, Entering
  <2> QED
    BY <2>1, <2>2, <2>3, <2>4
<1>5. \A d \in Clients : /\ Reading(d)' => Reading(d)
                         /\ Entering(d)' => Entering(d) /\ ino_out'[d] = ino_out[d]
  BY <1>3, <1>4 DEF Reading, Entering
<1> QED
  BY <1>2, <1>5, QuietStep

\* Any step of any client, when no flush overlaps another change of the
\* bitmap.
LEMMA SerialNextStep ==
  ASSUME SInv, [Next /\ Serial']_vars
  PROVE  SInv'
<1>1. IInv'
  BY NextStep DEF SInv
<1>2. CASE UNCHANGED vars
  <2>1. UNCHANGED << inums, copy, chain, dirs, pc, op, ino_out >>
    BY <1>2 DEF vars, fsVars, tableVars, localVars
  <2>2. Serial'
    BY <2>1 DEF SInv, Serial
  <2> QED
    BY <1>1, <2>1, <2>2, QuietStep DEF Reading, Entering
<1>3. ASSUME NEW c \in Clients, Serial',
             Call(c) \/ AcquireFlag(c) \/ Acquire(c) \/ Step(c)
      PROVE  SInv'
  BY <1>1, <1>3, ReadStep, FlushReturnsTable, CreateReturnsTable, PutTable, OtherTable
     DEF Step
<1> QED
  BY <1>2, <1>3 DEF Next

-----------------------------------------------------------------------------
(***************************************************************************)
(* Theorems                                                                *)
(***************************************************************************)

\* The inductive invariant of the directory operations.
THEOREM Invariance == Spec => []IInv
<1>1. IInv /\ [Next]_vars => IInv'
  BY NextStep
<1> QED
  BY <1>1, InitIInv, PTL DEF Spec

\* Every variable of the directory operations keeps its type.
THEOREM TypeCorrect == Spec => []TypeOK
<1>1. IInv => TypeOK
  BY DEF IInv
<1> QED  BY <1>1, Invariance, PTL

\* However create, mkdir, symlink and unlink of any number of clients
\* interleave, no directory gets two entries with one name.
THEOREM UniqueNames == Spec => []NamesAreUnique
<1>1. IInv => NamesAreUnique
  BY DEF IInv
<1> QED  BY <1>1, Invariance, PTL

\* The inductive invariant of the inode table, when no flush overlaps another
\* change of the bitmap.
THEOREM SerialInvariance == SerialSpec => []SInv
<1>1. SInv /\ [Next /\ Serial']_vars => SInv'
  BY SerialNextStep
<1> QED
  BY <1>1, InitSInv, PTL DEF SerialSpec

\* When no flush overlaps another change of the bitmap, create_flag keeps the
\* search for a free inode and its allocation together: no inode gets two
\* entries, none that has one is given to another file, and the entry of a
\* create that found no free inode shares its number with other such entries
\* only.
THEOREM EntriesAreDisjoint == SerialSpec => []OneEntryPerInode
<1>1. SInv => OneEntryPerInode
  BY DEF SInv
<1> QED  BY <1>1, SerialInvariance, PTL

\* What an operation returns is still true when it gives up its locks.
THEOREM CurrentAnswers == Spec => []AnswersAreCurrent
<1>1. IInv => AnswersAreCurrent
  BY DEF IInv
<1> QED  BY <1>1, Invariance, PTL

\* An entry goes away only by an unlink of its name: no put undoes what
\* another client has put.
THEOREM EntriesAreKept == Spec => NoEntryLost
<1> DEFINE Kept ==
      \A i \in Inums : \A e \in Entries(dirs[i]) \ Entries(dirs'[i]) :
        \E c \in Clients : op[c] = [kind |-> "unlink", inum |-> i, name |-> e.name]
<1>1. ASSUME IInv, [Next]_vars PROVE [Kept]_vars
  <2>1. CASE UNCHANGED dirs
    BY <2>1
  <2>2. ASSUME NEW c \in Clients, Put(c) PROVE Kept
    <3> SUFFICES ASSUME NEW i \in Inums, NEW e \in Entries(dirs[i]) \ Entries(dirs'[i])
                 PROVE  op[c] = [kind |-> "unlink", inum |-> i, name |-> e.name]
      OBVIOUS
    <3>1. /\ op[c].inum \in Inums
          /\ dirs' = [dirs EXCEPT ![op[c].inum] = dirs'[op[c].inum]]
      BY <1>1, <2>2, PutFacts
    <3>2. i = op[c].inum
      BY <1>1, <3>1 DEF IInv, TypeOK
    <3>3. op[c].kind = "unlink" /\ e.name = op[c].name
      BY <1>1, <2>2, <3>2, PutFacts
    <3>4. op[c] \in Operation
      BY <1>1 DEF IInv, TypeOK
    <3> QED
      BY <3>2, <3>3, <3>4 DEF Operation
  <2>3. Next => UNCHANGED dirs \/ \E c \in Clients : Put(c)
    BY DEF Next, Call, Begin, AcquireFlag, Acquire, Step, Flush, FlushReturns,
           ServerDies, Get, Create, CreateReturns, ReleaseFlag, Release, fsVars
  <2> QED
    BY <1>1, <2>1, <2>2, <2>3 DEF vars, fsVars
<1> QED
  BY <1>1, Invariance, PTL DEF Spec, NoEntryLost
=============================================================================
