--------------------------- MODULE MarshallProofs ---------------------------
(***************************************************************************)
(* What the buffers carry: a handler reads the arguments that were sent,   *)
(* for any number of arguments and strings of any length, and a caller the *)
(* reply.                                                                  *)
(***************************************************************************)
EXTENDS Marshall, NaturalsLemmas, SequenceTheorems, TLAPS

\* The recursion of written has a solution, so that it is defined.
LEMMA WrittenIsDefined ==
  ASSUME NEW types, NEW args, Len(types) \in Nat
  PROVE  /\ DOMAIN written(types, args) = 0 .. Len(types)
         /\ \A i \in 0 .. Len(types) : written(types, args)[i] =
              IF i = 0 THEN marshall
              ELSE put_value(written(types, args)[i - 1], types[i], args[i])
<1> DEFINE N == Len(types)
           Solves(f, n) == f = [i \in 0 .. n |->
             IF i = 0 THEN marshall ELSE put_value(f[i - 1], types[i], args[i])]
           S == {n \in 0 .. N : \E f : Solves(f, n)}
<1>0. N \in Nat /\ 0 \in 0 .. N
  OBVIOUS
<1>1. 0 \in S
  <2> DEFINE f == [i \in 0 .. 0 |-> marshall]
  <2>1. Solves(f, 0)
    OBVIOUS
  <2> HIDE DEF Solves, f
  <2> QED
    BY <1>0, <2>1
<1>2. ASSUME NEW n \in 1 .. N, n - 1 \in S
      PROVE  n \in S
  <2>1. PICK f : Solves(f, n - 1)
    BY <1>2, Zenon
  <2> DEFINE g == [i \in 0 .. n |->
               IF i = n THEN put_value(f[n - 1], types[n], args[n]) ELSE f[i]]
  <2>2. Solves(g, n)
    <3>1. \A i \in 0 .. n - 1 : f[i] =
            IF i = 0 THEN marshall ELSE put_value(f[i - 1], types[i], args[i])
      BY <2>1
    <3>2. \A i \in 0 .. n : g[i] =
            IF i = 0 THEN marshall ELSE put_value(g[i - 1], types[i], args[i])
      BY <3>1
    <3> QED
      BY <3>2
  <2>3. n \in 0 .. N
    BY <1>0
  <2> HIDE DEF Solves, g
  <2> QED
    BY <2>2, <2>3
<1>3. N \in S
  <2> HIDE DEF S, N
  <2>1. \A i \in 0 .. N : i \in S
    BY <1>0, <1>1, <1>2, Induction
  <2> QED
    BY <1>0, <2>1
<1>4. PICK f : Solves(f, N)
  BY <1>3
<1>5. Solves(written(types, args), N)
  BY <1>4, Zenon DEF written
<1> DEFINE w == written(types, args)
<1>6. w = [i \in 0 .. N |->
             IF i = 0 THEN marshall ELSE put_value(w[i - 1], types[i], args[i])]
  BY <1>5
<1> HIDE DEF N, w
<1>7. DOMAIN w = 0 .. N /\ \A i \in 0 .. N : w[i] =
        IF i = 0 THEN marshall ELSE put_value(w[i - 1], types[i], args[i])
  BY <1>6
<1> QED
  BY <1>7, Zenon DEF w, N

\* And so has the recursion of parsed.
LEMMA ParsedIsDefined ==
  ASSUME NEW u, NEW types, Len(types) \in Nat
  PROVE  \A i \in 0 .. Len(types) : parsed(u, types)[i] =
           IF i = 0 THEN u ELSE get_value(parsed(u, types)[i - 1], types[i])
<1> DEFINE N == Len(types)
           Solves(f, n) == f = [i \in 0 .. n |->
             IF i = 0 THEN u ELSE get_value(f[i - 1], types[i])]
           S == {n \in 0 .. N : \E f : Solves(f, n)}
<1>0. N \in Nat /\ 0 \in 0 .. N
  OBVIOUS
<1>1. 0 \in S
  <2> DEFINE f == [i \in 0 .. 0 |-> u]
  <2>1. Solves(f, 0)
    OBVIOUS
  <2> HIDE DEF Solves, f
  <2> QED
    BY <1>0, <2>1
<1>2. ASSUME NEW n \in 1 .. N, n - 1 \in S
      PROVE  n \in S
  <2>1. PICK f : Solves(f, n - 1)
    BY <1>2, Zenon
  <2> DEFINE g == [i \in 0 .. n |->
               IF i = n THEN get_value(f[n - 1], types[n]) ELSE f[i]]
  <2>2. Solves(g, n)
    <3>1. \A i \in 0 .. n - 1 : f[i] =
            IF i = 0 THEN u ELSE get_value(f[i - 1], types[i])
      BY <2>1
    <3>2. \A i \in 0 .. n : g[i] =
            IF i = 0 THEN u ELSE get_value(g[i - 1], types[i])
      BY <3>1
    <3> QED
      BY <3>2
  <2>3. n \in 0 .. N
    BY <1>0
  <2> HIDE DEF Solves, g
  <2> QED
    BY <2>2, <2>3
<1>3. N \in S
  <2> HIDE DEF S, N
  <2>1. \A i \in 0 .. N : i \in S
    BY <1>0, <1>1, <1>2, Induction
  <2> QED
    BY <1>0, <2>1
<1>4. PICK f : Solves(f, N)
  BY <1>3
<1>5. Solves(parsed(u, types), N)
  BY <1>4, Zenon DEF parsed
<1> DEFINE w == parsed(u, types)
<1>6. w = [i \in 0 .. N |-> IF i = 0 THEN u ELSE get_value(w[i - 1], types[i])]
  BY <1>5
<1> HIDE DEF N, w
<1>7. \A i \in 0 .. N : w[i] = IF i = 0 THEN u ELSE get_value(w[i - 1], types[i])
  BY <1>6
<1> QED
  BY <1>7, Zenon DEF w, N

-----------------------------------------------------------------------------
(***************************************************************************)
(* Values and their cells                                                  *)
(***************************************************************************)

\* The values of a type.
IsValue(type, v) ==
  \/ type = "int" /\ v \in Int
  \/ type = "ull" /\ v \in Seq(Int) /\ Len(v) = 2
  \/ type = "string" /\ v \in Seq(Int)
  \/ type = "attr" /\ v \in [type : Int, atime : Int, mtime : Int, ctime : Int, size : Int]

\* The cells of a value: how many there are, and that none is lost.
LEMMA CellsOfValue ==
  ASSUME NEW type, NEW v, IsValue(type, v)
  PROVE  /\ cells(type, v) \in Seq(Int)
         /\ Len(cells(type, v)) \in Nat \ {0}
         /\ type = "int" => Len(cells(type, v)) = 1 /\ cells(type, v)[1] = v
         /\ type = "ull" => cells(type, v) = v
         /\ type = "string" => /\ Len(cells(type, v)) = Len(v) + 1
                               /\ cells(type, v)[1] = Len(v)
                               /\ \A i \in 1 .. Len(v) : cells(type, v)[i + 1] = v[i]
         /\ type = "attr" => Len(cells(type, v)) = 5 /\ attr_of(cells(type, v)) = v
<1>1. CASE type = "int"
  BY <1>1 DEF cells, IsValue
<1>2. CASE type = "ull"
  BY <1>2 DEF cells, IsValue
<1>3. CASE type = "string"
  <2>1. v \in Seq(Int) /\ cells(type, v) = << Len(v) >> \o v
    BY <1>3 DEF cells, IsValue
  <2> DEFINE raw == << Len(v) >> \o v
  <2>2. /\ raw \in Seq(Int) /\ Len(raw) = Len(v) + 1 /\ Len(v) \in Nat
        /\ raw[1] = Len(v) /\ \A i \in 1 .. Len(v) : raw[i + 1] = v[i]
    BY <2>1
  <2> HIDE DEF raw
  <2>3. cells(type, v) = raw
    BY <2>1 DEF raw
  <2> QED
    BY <1>3, <2>2, <2>3
<1>4. CASE type = "attr"
  <2>1. /\ v \in [type : Int, atime : Int, mtime : Int, ctime : Int, size : Int]
        /\ cells(type, v) = << v.type, v.atime, v.mtime, v.ctime, v.size >>
    BY <1>4 DEF cells, attr_cells, IsValue
  <2> DEFINE raw == << v.type, v.atime, v.mtime, v.ctime, v.size >>
  <2>2. raw \in Seq(Int) /\ Len(raw) = 5
    BY <2>1
  <2>3. attr_of(raw) = v
    BY <2>1 DEF attr_of
  <2> HIDE DEF raw
  <2>4. cells(type, v) = raw
    BY <2>1 DEF raw
  <2>5. attr_of(cells(type, v)) = v
    BY <2>3, <2>4, Zenon
  <2>6. cells(type, v) \in Seq(Int) /\ Len(cells(type, v)) = 5
    BY <2>2, <2>4
  <2>7. Len(cells(type, v)) \in Nat \ {0}
    BY <2>6
  <2>8. type # "int" /\ type # "ull" /\ type # "string"
    BY <1>4
  <2> QED
    BY <2>5, <2>6, <2>7, <2>8, Zenon
<1> QED
  BY <1>1, <1>2, <1>3, <1>4 DEF IsValue

-----------------------------------------------------------------------------
(***************************************************************************)
(* Writing                                                                 *)
(***************************************************************************)

\* A buffer that is written at its end, behind the header.
AtEnd(m) ==
  /\ m = [buf |-> m.buf, ind |-> m.ind]
  /\ m.buf \in Seq(Int)
  /\ m.ind = Len(m.buf)
  /\ Len(m.buf) >= RPC_HEADER_SZ

\* The longer of the two headers has five cells.
LEMMA HeaderSize == RPC_HEADER_SZ = 6 /\ rpc_sz_t = 1
<1>1. Max({5, 2}) = 5
  BY DEF Max
<1> QED
  BY <1>1 DEF RPC_HEADER_SZ, rpc_sz_t

\* A new buffer has an empty header.
LEMMA NewBuffer == AtEnd(marshall) /\ Len(marshall.buf) = 6
  BY HeaderSize DEF marshall, AtEnd

\* operator<< adds the cells of the value at the end.
LEMMA PutAtEnd ==
  ASSUME NEW m, AtEnd(m), NEW type, NEW v, IsValue(type, v)
  PROVE  /\ AtEnd(put_value(m, type, v))
         /\ put_value(m, type, v).buf = m.buf \o cells(type, v)
<1> DEFINE raw == cells(type, v)
           b == m.buf
<1>1. raw \in Seq(Int) /\ Len(raw) \in Nat /\ b \in Seq(Int) /\ m.ind = Len(b)
  BY CellsOfValue DEF AtEnd
<1> HIDE DEF raw, b
<1>2. /\ SubSeq(b, 1, Len(b)) = b
      /\ SubSeq(b, Len(b) + Len(raw) + 1, Len(b)) = << >>
      /\ (b \o raw) \o << >> = b \o raw
  BY <1>1
<1>3. pack(m, raw) = [buf |-> b \o raw, ind |-> Len(b) + Len(raw)]
  BY <1>1, <1>2, Zenon DEF pack, b
<1>4. /\ b \o raw \in Seq(Int)
      /\ Len(b \o raw) = Len(b) + Len(raw)
  BY <1>1
<1>5. Len(b) >= RPC_HEADER_SZ
  BY DEF AtEnd, b
<1>6. AtEnd(pack(m, raw)) /\ pack(m, raw).buf = b \o raw
  BY <1>1, <1>3, <1>4, <1>5, HeaderSize DEF AtEnd
<1> QED
  BY <1>6 DEF put_value, raw, b

\* What written makes of arguments of the right types: each buffer is the one
\* before with the cells of the next argument behind it.
LEMMA WrittenBuffers ==
  ASSUME NEW types, NEW args, Len(types) \in Nat,
         \A i \in 1 .. Len(types) : IsValue(types[i], args[i])
  PROVE  /\ \A i \in 0 .. Len(types) : AtEnd(written(types, args)[i])
         /\ written(types, args)[0] = marshall
         /\ \A i \in 1 .. Len(types) :
              written(types, args)[i].buf =
                written(types, args)[i - 1].buf \o cells(types[i], args[i])
<1> DEFINE w == written(types, args)
           N == Len(types)
           S == {i \in 0 .. N : AtEnd(w[i])}
<1>1. N \in Nat /\ w[0] = marshall
  BY WrittenIsDefined
<1>2. \A i \in 1 .. N : w[i] = put_value(w[i - 1], types[i], args[i])
  <2>1. \A i \in 1 .. N : i \in 0 .. N /\ i # 0
    BY <1>1
  <2> QED
    BY <2>1, WrittenIsDefined
<1>3. \A i \in 1 .. N : IsValue(types[i], args[i])
  OBVIOUS
<1> HIDE DEF w, N
<1>4. \A i \in 0 .. N : i \in S
  <2>1. 0 \in S
    BY <1>1, NewBuffer
  <2>2. ASSUME NEW i \in 1 .. N, i - 1 \in S
        PROVE  i \in S
    <3>1. AtEnd(w[i - 1]) /\ IsValue(types[i], args[i])
      BY <1>3, <2>2
    <3>2. AtEnd(w[i])
      BY <1>2, <3>1, PutAtEnd
    <3> QED
      BY <1>1, <3>2
  <2> HIDE DEF S
  <2> QED
    BY <1>1, <2>1, <2>2, Induction
<1>5. \A i \in 0 .. N : AtEnd(w[i])
  BY <1>4
<1>6. ASSUME NEW i \in 1 .. N
      PROVE  w[i].buf = w[i - 1].buf \o cells(types[i], args[i])
  <2>1. AtEnd(w[i - 1]) /\ IsValue(types[i], args[i])
    BY <1>1, <1>3, <1>5
  <2> DEFINE m == w[i - 1]
             type == types[i]
             v == args[i]
  <2> HIDE DEF m, type, v
  <2>2. AtEnd(m) /\ IsValue(type, v)
    BY <2>1, Zenon DEF m, type, v
  <2>3. put_value(m, type, v).buf = m.buf \o cells(type, v)
    BY <2>2, PutAtEnd
  <2>4. w[i] = put_value(m, type, v)
    BY <1>2, Zenon DEF m, type, v
  <2> QED
    BY <2>3, <2>4, Zenon DEF m, type, v
<1> QED
  BY <1>1, <1>5, <1>6 DEF w, N

\* The cells of the i-th argument are still in the last buffer, where they
\* were put.
LEMMA WrittenSegments ==
  ASSUME NEW types, NEW args, Len(types) \in Nat,
         \A i \in 1 .. Len(types) : IsValue(types[i], args[i]),
         NEW i \in 1 .. Len(types)
  PROVE  LET w == written(types, args)
             raw == cells(types[i], args[i])
             last == w[Len(types)].buf
         IN  /\ w[i - 1].ind \in Nat /\ w[i - 1].ind >= 6
             /\ w[i].ind = w[i - 1].ind + Len(raw)
             /\ w[i].ind <= Len(last)
             /\ \A k \in 1 .. Len(raw) : last[w[i - 1].ind + k] = raw[k]
<1> DEFINE w == written(types, args)
           N == Len(types)
           raw == cells(types[i], args[i])
           Kept(n) == /\ Len(w[i].buf) <= Len(w[n].buf)
                      /\ \A k \in 1 .. Len(w[i].buf) : w[n].buf[k] = w[i].buf[k]
           S == {j \in 0 .. N - i : Kept(i + j)}
<1>1. /\ N \in Nat /\ i \in 1 .. N
      /\ \A n \in 0 .. N : AtEnd(w[n])
      /\ \A n \in 1 .. N : w[n].buf = w[n - 1].buf \o cells(types[n], args[n])
  BY WrittenBuffers
<1>2. \A n \in 1 .. N : cells(types[n], args[n]) \in Seq(Int)
  BY CellsOfValue
<1>3. raw \in Seq(Int) /\ Len(raw) \in Nat
  BY <1>2
<1> HIDE DEF w, N
<1>4. \A n \in 0 .. N : w[n].buf \in Seq(Int) /\ w[n].ind = Len(w[n].buf) /\ Len(w[n].buf) >= 6
  BY <1>1, HeaderSize DEF AtEnd
<1>5. \A j \in 0 .. N - i : j \in S
  <2>1. 0 \in S
    BY <1>1, <1>4
  <2>2. ASSUME NEW j \in 1 .. N - i, j - 1 \in S
        PROVE  j \in S
    <3> DEFINE n == i + j
               b == w[n - 1].buf
               c == cells(types[n], args[n])
    <3>1. n \in 1 .. N /\ n - 1 \in 0 .. N /\ i + (j - 1) = n - 1
      BY <1>1
    <3>2. b \in Seq(Int) /\ c \in Seq(Int) /\ w[n].buf = b \o c
      BY <1>1, <1>2, <1>4, <3>1
    <3>3. Kept(n - 1)
      BY <2>2, <3>1
    <3>4. w[i].buf \in Seq(Int)
      BY <1>1, <1>4
    <3> HIDE DEF b, c, n
    <3>5. /\ Len(b \o c) = Len(b) + Len(c) /\ Len(b) \in Nat /\ Len(c) \in Nat
          /\ \A k \in 1 .. Len(b) : (b \o c)[k] = b[k]
      BY <3>2
    <3>6. Len(w[i].buf) \in Nat
      BY <3>4
    <3>7. Len(w[i].buf) <= Len(b) /\ \A k \in 1 .. Len(w[i].buf) : b[k] = w[i].buf[k]
      BY <3>3 DEF b
    <3>8. Kept(n)
      BY <3>2, <3>5, <3>6, <3>7
    <3> QED
      BY <1>1, <3>8 DEF n
  <2>3. N - i \in Nat
    BY <1>1
  <2> HIDE DEF S
  <2> QED
    BY <2>1, <2>2, <2>3, Induction
<1>6. Kept(N)
  <2>1. N - i \in 0 .. N - i /\ i + (N - i) = N
    BY <1>1
  <2>2. N - i \in S
    BY <1>5, <2>1, Zenon
  <2> QED
    BY <2>1, <2>2
<1> DEFINE a == w[i - 1].buf
           b == w[i].buf
           last == w[N].buf
<1>7. a \in Seq(Int) /\ b = a \o raw /\ w[i - 1].ind = Len(a) /\ w[i].ind = Len(b) /\ Len(a) >= 6
  <2>1. i - 1 \in 0 .. N /\ i \in 0 .. N
    BY <1>1
  <2> HIDE DEF raw
  <2>2. w[i].buf = w[i - 1].buf \o raw
    BY <1>1, Zenon DEF raw
  <2> QED
    BY <1>4, <2>1, <2>2
<1>8. Len(b) <= Len(last) /\ \A k \in 1 .. Len(b) : last[k] = b[k]
  BY <1>6
<1> HIDE DEF raw, a, b, last
<1>9. /\ Len(b) = Len(a) + Len(raw) /\ Len(a) \in Nat
      /\ \A k \in 1 .. Len(raw) : b[Len(a) + k] = raw[k]
  BY <1>3, <1>7
<1>10. \A k \in 1 .. Len(raw) : last[Len(a) + k] = raw[k]
  BY <1>3, <1>8, <1>9
<1> QED
  BY <1>7, <1>8, <1>9, <1>10 DEF w, N, raw, a, b, last

\* A header of n cells replaces the cells behind the first one and keeps those
\* behind it.
LEMMA HeaderCells ==
  ASSUME NEW m, AtEnd(m), NEW hdr \in Seq(Int), Len(hdr) <= 5
  PROVE  LET pdu == take_buf([pack([m EXCEPT !.ind = rpc_sz_t], hdr) EXCEPT !.ind = m.ind])
         IN  /\ pdu \in Seq(Int) /\ Len(pdu) = Len(m.buf)
             /\ \A k \in 1 .. Len(hdr) : pdu[k + 1] = hdr[k]
             /\ \A k \in 7 .. Len(m.buf) : pdu[k] = m.buf[k]
<1> DEFINE b == m.buf
           x == SubSeq(b, 1, 1)
           z == SubSeq(b, 1 + Len(hdr) + 1, Len(b))
           r == (x \o hdr) \o z
           n == Len(hdr)
<1>1. /\ m = [buf |-> b, ind |-> Len(b)] /\ b \in Seq(Int) /\ Len(b) >= 6
      /\ m.ind = Len(b) /\ Len(b) \in Nat /\ n \in Nat /\ n <= 5
  BY HeaderSize DEF AtEnd
<1>2. [m EXCEPT !.ind = rpc_sz_t] = [buf |-> b, ind |-> 1]
  BY <1>1, HeaderSize
<1>3. pack([buf |-> b, ind |-> 1], hdr) = [buf |-> r, ind |-> 1 + n]
  BY Zenon DEF pack
<1>4. take_buf([pack([m EXCEPT !.ind = rpc_sz_t], hdr) EXCEPT !.ind = m.ind])
        = SubSeq(r, 1, Len(b))
  <2> HIDE DEF r, b
  <2>1. [pack([m EXCEPT !.ind = rpc_sz_t], hdr) EXCEPT !.ind = m.ind]
          = [buf |-> r, ind |-> Len(b)]
    BY <1>1, <1>2, <1>3, SMTT(30)
  <2> QED
    BY <2>1 DEF take_buf
<1> HIDE DEF b, n
<1>5. x \in Seq(Int) /\ Len(x) = 1
  BY <1>1
<1>6. /\ z \in Seq(Int) /\ Len(z) = Len(b) - n - 1
      /\ \A k \in 1 .. Len(b) - n - 1 : z[k] = b[n + 1 + k]
  <2>1. 1 + n + 1 \in 1 .. Len(b) + 1
    BY <1>1
  <2> QED
    BY <1>1, <2>1 DEF n
<1> HIDE DEF x, z
<1> DEFINE xh == x \o hdr
<1>7. /\ xh \in Seq(Int) /\ Len(xh) = n + 1
      /\ \A k \in 1 .. n : xh[k + 1] = hdr[k]
  <2>1. /\ xh \in Seq(Int) /\ Len(xh) = Len(x) + Len(hdr)
        /\ \A k \in 1 .. Len(x) + Len(hdr) :
             xh[k] = IF k <= Len(x) THEN x[k] ELSE hdr[k - Len(x)]
    BY <1>5, ConcatProperties
  <2> HIDE DEF xh
  <2>2. \A k \in 1 .. n : /\ k + 1 \in 1 .. Len(x) + Len(hdr) /\ ~ (k + 1 <= Len(x))
                          /\ (k + 1) - Len(x) = k
    BY <1>1, <1>5 DEF n
  <2>3. Len(xh) = n + 1
    BY <1>1, <1>5, <2>1 DEF n
  <2>4. \A k \in 1 .. n : xh[k + 1] = hdr[k]
    BY <2>1, <2>2
  <2> QED
    BY <2>1, <2>3, <2>4
<1> HIDE DEF xh
<1>8. /\ r \in Seq(Int) /\ Len(r) = Len(b)
      /\ \A k \in 1 .. n + 1 : r[k] = xh[k]
      /\ \A k \in n + 2 .. Len(b) : r[k] = z[k - n - 1]
  <2>1. r = xh \o z /\ xh \in Seq(Int) /\ Len(xh) = n + 1
    BY <1>7 DEF xh
  <2> HIDE DEF r
  <2> QED
    BY <1>1, <1>6, <2>1, SMTT(30)
<1> HIDE DEF r
<1>9. SubSeq(r, 1, Len(b)) = r
  BY <1>8
<1>10. \A k \in 1 .. n : r[k + 1] = hdr[k]
  <2>1. \A k \in 1 .. n : k + 1 \in 1 .. n + 1 /\ xh[k + 1] = hdr[k]
    BY <1>1, <1>7
  <2> QED
    BY <1>8, <2>1
<1>11. \A k \in 7 .. Len(b) : r[k] = b[k]
  <2>1. ASSUME NEW k \in 7 .. Len(b)
        PROVE  r[k] = b[k]
    <3>1. /\ k \in n + 2 .. Len(b) /\ k - n - 1 \in 1 .. Len(b) - n - 1
          /\ n + 1 + (k - n - 1) = k
      BY <1>1
    <3> QED
      BY <1>6, <1>8, <3>1
  <2> QED
    BY <2>1
<1> QED
  BY <1>4, <1>8, <1>9, <1>10, <1>11, Zenon DEF b, n

-----------------------------------------------------------------------------
(***************************************************************************)
(* Reading                                                                 *)
(***************************************************************************)

\* A buffer that is read at position ind, with no failure so far.
Reading(b, ind, values) == [buf |-> b, ind |-> ind, ok |-> TRUE, values |-> values]

\* What it is at another position.
MovesTo(b, i, s, j) == [Reading(b, i, s) EXCEPT !.ind = j] = Reading(b, j, s)

LEMMA ReadingElsewhere ==
  ASSUME NEW b, NEW i, NEW s, NEW j
  PROVE  MovesTo(b, i, s, j)
<1>1. ASSUME NEW o
      PROVE  [[buf |-> b, ind |-> i, ok |-> o, values |-> s] EXCEPT !.ind = j]
               = [buf |-> b, ind |-> j, ok |-> o, values |-> s]
  OBVIOUS
<1> QED
  BY <1>1, Zenon DEF MovesTo, Reading

\* n cells that are there are read, ...
ReadsCells(b, ind, values, n) ==
  /\ rawbytes(Reading(b, ind, values), n) \in Seq(Int)
  /\ Len(rawbytes(Reading(b, ind, values), n)) = n
  /\ \A k \in 1 .. n : rawbytes(Reading(b, ind, values), n)[k] = b[ind + k]

LEMMA RawCells ==
  ASSUME NEW b \in Seq(Int), NEW ind \in Nat, NEW values, NEW n \in Nat,
         ind + n <= Len(b)
  PROVE  ReadsCells(b, ind, values, n)
<1>1. rawbytes(Reading(b, ind, values), n) = SubSeq(b, ind + 1, ind + n)
  BY DEF rawbytes, Reading
<1>2. /\ SubSeq(b, ind + 1, ind + n) \in Seq(Int)
      /\ Len(SubSeq(b, ind + 1, ind + n)) = n
      /\ \A k \in 1 .. n : SubSeq(b, ind + 1, ind + n)[k] = b[ind + k]
  OBVIOUS
<1> QED
  BY <1>1, <1>2, Zenon DEF ReadsCells

\* ... and the buffer is then behind them.
Advances(b, ind, values, n, v) ==
  advance(Reading(b, ind, values), n, v) = Reading(b, ind + n, Append(values, v))

LEMMA AdvanceReads ==
  ASSUME NEW b \in Seq(Int), NEW ind \in Nat, NEW values, NEW n \in Nat,
         ind + n <= Len(b), NEW v
  PROVE  Advances(b, ind, values, n, v)
<1> DEFINE u == Reading(b, ind, values)
<1>1. u.buf = b /\ u.ind = ind /\ u.values = values
  BY DEF Reading
<1>0. u.ok = TRUE
  BY DEF Reading
<1> HIDE DEF u
<1>2. u.ind + n <= Len(u.buf)
  BY <1>1
<1>3. advance(u, n, v) = [buf |-> u.buf, ind |-> u.ind + n, ok |-> u.ok /\ TRUE,
                          values |-> Append(u.values, v)]
  BY <1>2, Zenon DEF advance
<1>4. (u.ok /\ TRUE) = TRUE
  BY <1>0, Zenon
<1> QED
  BY <1>1, <1>3, <1>4, Zenon DEF Advances, Reading, u

\* operator>> gets back the value whose cells operator<< has put there.
Holds(b, ind, raw) ==
  ind + Len(raw) <= Len(b) /\ \A k \in 1 .. Len(raw) : b[ind + k] = raw[k]

GetsBack(b, ind, values, type, v) ==
  get_value(Reading(b, ind, values), type)
    = Reading(b, ind + Len(cells(type, v)), Append(values, v))

LEMMA GetValue ==
  ASSUME NEW b \in Seq(Int), NEW ind \in Nat, NEW values,
         NEW type, NEW v, IsValue(type, v),
         Holds(b, ind, cells(type, v))
  PROVE  GetsBack(b, ind, values, type, v)
<1> DEFINE u == Reading(b, ind, values)
           n == Len(cells(type, v))
<1> SUFFICES get_value(u, type) = Reading(b, ind + n, Append(values, v))
  BY Zenon DEF GetsBack
<1>0. cells(type, v) \in Seq(Int) /\ n \in Nat \ {0} /\ ind + n <= Len(b) /\ Len(b) \in Nat
  BY CellsOfValue DEF Holds
<1>a. \A k \in 1 .. n : b[ind + k] = cells(type, v)[k]
  BY DEF Holds
<1> DEFINE raw == rawbytes(u, n)
<1> HIDE DEF n
<1>b. /\ raw \in Seq(Int) /\ Len(raw) = n
      /\ \A k \in 1 .. n : raw[k] = b[ind + k]
  <2>1. n \in Nat /\ ind + n <= Len(b)
    BY <1>0
  <2>2. ReadsCells(b, ind, values, n)
    BY <2>1, RawCells, Zenon
  <2> QED
    BY <2>2, Zenon DEF ReadsCells
<1>c. advance(u, n, v) = Reading(b, ind + n, Append(values, v))
  <2>1. n \in Nat /\ ind + n <= Len(b)
    BY <1>0
  <2>2. Advances(b, ind, values, n, v)
    BY <2>1, AdvanceReads, Zenon
  <2> QED
    BY <2>2, Zenon DEF Advances
<1> HIDE DEF u, raw
<1>d. raw = cells(type, v)
  <2>1. Len(raw) = Len(cells(type, v)) /\ \A k \in 1 .. Len(raw) : raw[k] = cells(type, v)[k]
    BY <1>a, <1>b DEF n
  <2> QED
    BY <1>0, <1>b, <2>1, SeqEqual
<1>e. raw # << >>
  BY <1>0, <1>b, EmptySeq
<1>1. CASE type = "int"
  <2>1. n = 1 /\ raw[1] = v
    BY <1>1, <1>d, CellsOfValue DEF n
  <2>2. get_value(u, type) = advance(u, 1, raw[1])
    BY <1>1, <1>e, <2>1, Zenon DEF get_value, raw
  <2> QED
    BY <1>c, <2>1, <2>2, Zenon DEF u, n
<1>2. CASE type = "ull"
  <2>1. n = 2 /\ raw = v
    BY <1>2, <1>d, CellsOfValue DEF n, IsValue
  <2>2. get_value(u, type) = advance(u, 2, raw)
    BY <1>2, <1>e, <2>1, Zenon DEF get_value, raw
  <2> QED
    BY <1>c, <2>1, <2>2, Zenon DEF u, n
<1>3. CASE type = "string"
  <2> DEFINE one == 1
             first == rawbytes(u, one)
             u1 == Reading(b, ind + one, values)
             l == Len(v)
             str == rawbytes(u1, l)
  <2>1. /\ v \in Seq(Int) /\ l \in Nat /\ n = l + one /\ raw[1] = l
        /\ \A k \in 1 .. l : raw[k + 1] = v[k]
    BY <1>3, <1>d, CellsOfValue DEF n, IsValue
  <2>2. /\ one \in Nat /\ ind + one <= Len(b) /\ ind + one \in Nat
        /\ (ind + one) + l <= Len(b) /\ (ind + one) + l = ind + n
    BY <1>0, <2>1
  <2>3. b[ind + 1] = l /\ \A k \in 1 .. l : b[(ind + 1) + k] = v[k]
    <3>1. 1 \in 1 .. n /\ \A k \in 1 .. l : k + 1 \in 1 .. n /\ ind + (k + 1) = (ind + 1) + k
      BY <2>1
    <3> HIDE DEF l
    <3> QED
      BY <1>b, <2>1, <3>1
  <2>4. [u EXCEPT !.ind = @ + 1] = u1
    <3>1. u.ind = ind
      BY DEF Reading, u
    <3>2. [u EXCEPT !.ind = ind + 1] = u1
      <4>1. MovesTo(b, ind, values, ind + 1)
        BY ReadingElsewhere, Zenon
      <4> QED
        BY <4>1, Zenon DEF MovesTo, u
    <3> HIDE DEF u1
    <3> QED
      BY <3>1, <3>2, Zenon
  <2> HIDE DEF one, l
  <2>5. /\ first \in Seq(Int) /\ Len(first) = one
        /\ \A k \in 1 .. one : first[k] = b[ind + k]
    <3>1. ReadsCells(b, ind, values, one)
      BY <2>2, RawCells, Zenon
    <3> QED
      BY <3>1, Zenon DEF ReadsCells, u
  <2>6. /\ str \in Seq(Int) /\ Len(str) = l
        /\ \A k \in 1 .. l : str[k] = b[(ind + one) + k]
    <3>1. ReadsCells(b, ind + one, values, l)
      BY <2>1, <2>2, RawCells, Zenon
    <3> QED
      BY <3>1, Zenon DEF ReadsCells
  <2>7. advance(u1, l, v) = Reading(b, (ind + one) + l, Append(values, v))
    <3>1. Advances(b, ind + one, values, l, v)
      BY <2>1, <2>2, AdvanceReads, Zenon
    <3> QED
      BY <3>1, Zenon DEF Advances
  <2> HIDE DEF first, str, u1
  <2>8. str = v
    <3>1. \A k \in 1 .. Len(str) : str[k] = v[k]
      BY <2>3, <2>6 DEF one
    <3> QED
      BY <2>1, <2>6, <3>1, SeqEqual DEF l
  <2>9. first[1] = l
    BY <2>3, <2>5 DEF one
  <2>10. first # << >>
    <3>1. Len(first) # 0
      BY <2>5 DEF one
    <3> QED
      BY <2>5, <3>1, EmptySeq
  <2>11. get_value(u, type) = advance(u1, l, str)
    <3>1. get_value(u, type) = advance([u EXCEPT !.ind = @ + 1], first[1],
                                       rawbytes([u EXCEPT !.ind = @ + 1], first[1]))
      BY <1>3, <2>10, Zenon DEF get_value, first, one
    <3> QED
      BY <2>4, <2>9, <3>1, Zenon DEF str
  <2> QED
    BY <2>2, <2>7, <2>8, <2>11, Zenon DEF u, n
<1>4. CASE type = "attr"
  <2>1. n = 5
    BY <1>4, CellsOfValue DEF n
  <2>2. attr_of(raw) = v
    BY <1>4, <1>d, CellsOfValue, Zenon
  <2>3. get_value(u, type) = advance(u, 5, attr_of(raw))
    BY <1>4, <1>e, <2>1, Zenon DEF get_value, raw
  <2> QED
    BY <1>c, <2>1, <2>2, <2>3, Zenon DEF u, n
<1> QED
  BY <1>1, <1>2, <1>3, <1>4, Zenon DEF IsValue

-----------------------------------------------------------------------------
(***************************************************************************)
(* Calls                                                                   *)
(***************************************************************************)

\* Arguments args of the given types, and a header of integers.
AreValues(types, args) ==
  /\ Len(types) \in Nat
  /\ \A i \in 1 .. Len(types) : IsValue(types[i], args[i])

IsHeader(h) ==
  h.xid \in Int /\ h.proc \in Int /\ h.clt_nonce \in Int /\ h.srv_nonce \in Int
    /\ h.xid_rep \in Int

\* What is sent: the header, and the cells of the arguments behind it.
Carries(h, types, args) ==
  LET last == written(types, args)[Len(types)].buf
      pdu  == call(h, types, args)
  IN  /\ pdu \in Seq(Int)
      /\ Len(pdu) = Len(last)
      /\ Len(pdu) >= 6
      /\ pdu[3] = h.proc
      /\ \A k \in 7 .. Len(pdu) : pdu[k] = last[k]

LEMMA WhatIsSent ==
  ASSUME NEW types, NEW args, AreValues(types, args), NEW h, IsHeader(h)
  PROVE  Carries(h, types, args)
<1> DEFINE m == written(types, args)[Len(types)]
           hdr == << h.xid, h.proc, h.clt_nonce, h.srv_nonce, h.xid_rep >>
           pdu == take_buf([pack([m EXCEPT !.ind = rpc_sz_t], hdr) EXCEPT !.ind = m.ind])
<1>1. AtEnd(m)
  <2>1. Len(types) \in Nat /\ \A i \in 1 .. Len(types) : IsValue(types[i], args[i])
    BY DEF AreValues
  <2>2. Len(types) \in 0 .. Len(types)
    BY <2>1
  <2> QED
    BY <2>1, <2>2, WrittenBuffers, Zenon
<1>2. hdr \in Seq(Int) /\ Len(hdr) = 5 /\ hdr[2] = h.proc
  BY DEF IsHeader
<1>3. call(h, types, args) = pdu
  BY Zenon DEF call, pack_req_header
<1>4. Len(m.buf) >= 6 /\ Len(m.buf) \in Nat
  BY <1>1, HeaderSize DEF AtEnd
<1> HIDE DEF m, hdr
<1>5. /\ pdu \in Seq(Int) /\ Len(pdu) = Len(m.buf)
      /\ \A k \in 1 .. Len(hdr) : pdu[k + 1] = hdr[k]
      /\ \A k \in 7 .. Len(m.buf) : pdu[k] = m.buf[k]
  <2>1. Len(hdr) <= 5
    BY <1>2
  <2> QED
    BY <1>1, <1>2, <2>1, HeaderCells, Zenon
<1> HIDE DEF pdu
<1>6. pdu[3] = h.proc
  <2>1. 2 \in 1 .. Len(hdr) /\ 2 + 1 = 3
    BY <1>2
  <2> QED
    BY <1>2, <1>5, <2>1
<1>7. Len(pdu) >= 6
  BY <1>4, <1>5
<1> QED
  BY <1>3, <1>5, <1>6, <1>7, Zenon DEF Carries, m

\* A buffer that came in, behind its header.
LEMMA BehindHeader ==
  ASSUME NEW b
  PROVE  behind_header(unmarshall(b)) = Reading(b, 6, << >>)
<1>1. unmarshall(b) = Reading(b, 0, << >>)
  BY Zenon DEF unmarshall, Reading
<1>2. MovesTo(b, 0, << >>, 6)
  BY ReadingElsewhere, Zenon
<1> QED
  BY <1>1, <1>2, HeaderSize, Zenon DEF behind_header, MovesTo

\* The request reaches the handler of its number, and what that one reads is
\* the arguments of the call, all of them and nothing else.
ArgumentsAreRead(h, types, args) ==
  LET pdu == call(h, types, args) IN
  /\ unpack_req_header(unmarshall(pdu)).proc = h.proc
  /\ okdone(read_args(pdu, types))
  /\ read_args(pdu, types).values = [i \in 1 .. Len(types) |-> args[i]]

\* A handler that takes the types of the call reads its arguments: for any
\* number of arguments and strings of any length.
THEOREM ArgumentsRoundTrip ==
  ASSUME NEW types, NEW args, AreValues(types, args), NEW h, IsHeader(h)
  PROVE  ArgumentsAreRead(h, types, args)
<1> DEFINE pdu == call(h, types, args)
           w == written(types, args)
           N == Len(types)
           p == parsed(Reading(pdu, 6, << >>), types)
           upto(i) == [k \in 1 .. i |-> args[k]]
           S == {i \in 0 .. N : p[i] = Reading(pdu, w[i].ind, upto(i))}
<1>1. N \in Nat /\ \A i \in 1 .. N : IsValue(types[i], args[i])
  BY DEF AreValues
<1>2. /\ pdu \in Seq(Int) /\ Len(pdu) = Len(w[N].buf) /\ Len(pdu) >= 6
      /\ pdu[3] = h.proc /\ \A k \in 7 .. Len(pdu) : pdu[k] = w[N].buf[k]
  <2>1. Carries(h, types, args)
    BY WhatIsSent, Zenon
  <2> QED
    BY <2>1, Zenon DEF Carries
<1>3. \A i \in 0 .. N : AtEnd(w[i])
  BY <1>1, WrittenBuffers, Zenon
<1>4. w[0].ind = 6
  <2>1. w[0] = marshall
    BY <1>1, WrittenBuffers, Zenon
  <2> QED
    BY <2>1, NewBuffer, HeaderSize DEF marshall
<1>5. \A i \in 0 .. N : p[i] = IF i = 0 THEN Reading(pdu, 6, << >>)
                               ELSE get_value(p[i - 1], types[i])
  <2> DEFINE u == Reading(pdu, 6, << >>)
  <2> HIDE DEF u
  <2>1. \A i \in 0 .. N : parsed(u, types)[i] =
          IF i = 0 THEN u ELSE get_value(parsed(u, types)[i - 1], types[i])
    BY <1>1, ParsedIsDefined
  <2> QED
    BY <2>1, Zenon DEF u
<1>6. 0 \in S
  <2>1. upto(0) = << >>
    OBVIOUS
  <2>2. 0 \in 0 .. N
    BY <1>1
  <2> HIDE DEF p, w, pdu, N, upto
  <2> QED
    BY <1>4, <1>5, <2>1, <2>2, Zenon
<1>7. ASSUME NEW i \in 1 .. N, i - 1 \in S
      PROVE  i \in S
  <2> DEFINE raw == cells(types[i], args[i])
             ind == w[i - 1].ind
  <2>1. /\ ind \in Nat /\ ind >= 6
        /\ w[i].ind = ind + Len(raw)
        /\ w[i].ind <= Len(w[N].buf)
        /\ \A k \in 1 .. Len(raw) : w[N].buf[ind + k] = raw[k]
    BY <1>1, WrittenSegments
  <2>2. IsValue(types[i], args[i]) /\ Len(raw) \in Nat
    BY <1>1, CellsOfValue
  <2>3. i \in 0 .. N /\ i # 0
    BY <1>1
  <2>4. p[i] = get_value(Reading(pdu, ind, upto(i - 1)), types[i])
    <3>1. p[i] = get_value(p[i - 1], types[i])
      BY <1>5, <2>3, Zenon
    <3>2. p[i - 1] = Reading(pdu, ind, upto(i - 1))
      BY <1>7, Zenon
    <3> QED
      BY <3>1, <3>2, Zenon
  <2>5. Append(upto(i - 1), args[i]) = upto(i)
    <3>1. i \in Nat /\ i >= 1
      BY <1>1
    <3> QED
      BY <3>1
  <2> HIDE DEF w, pdu, N, p, upto, raw, ind
  <2>6. ind + Len(raw) <= Len(pdu)
    BY <1>2, <2>1
  <2>7. \A k \in 1 .. Len(raw) : pdu[ind + k] = raw[k]
    <3>1. \A k \in 1 .. Len(raw) : ind + k \in 7 .. Len(pdu)
      BY <1>2, <2>1, <2>2, <2>6
    <3> QED
      BY <1>2, <2>1, <3>1
  <2>8. get_value(Reading(pdu, ind, upto(i - 1)), types[i])
          = Reading(pdu, ind + Len(raw), Append(upto(i - 1), args[i]))
    <3> DEFINE type == types[i]
               v == args[i]
               s == upto(i - 1)
    <3> HIDE DEF type, v, s
    <3>1. raw = cells(type, v) /\ IsValue(type, v)
      BY <2>2, Zenon DEF raw, type, v
    <3>2. pdu \in Seq(Int) /\ ind \in Nat /\ Holds(pdu, ind, cells(type, v))
      BY <1>2, <2>1, <2>6, <2>7, <3>1, Zenon DEF Holds
    <3>3. GetsBack(pdu, ind, s, type, v)
      BY <3>1, <3>2, GetValue, Zenon
    <3> QED
      BY <3>1, <3>3, Zenon DEF GetsBack, type, v, s
  <2> QED
    BY <2>1, <2>3, <2>4, <2>5, <2>8, Zenon
<1>8. N \in S
  <2> HIDE DEF S, N
  <2>1. \A i \in 0 .. N : i \in S
    BY <1>1, <1>6, <1>7, Induction
  <2>2. N \in 0 .. N
    BY <1>1
  <2> QED
    BY <2>1, <2>2
<1>9. w[N].ind = Len(pdu)
  <2>1. N \in 0 .. N
    BY <1>1
  <2>2. AtEnd(w[N])
    BY <1>3, <2>1
  <2> HIDE DEF w, pdu, N
  <2> QED
    BY <1>2, <2>2 DEF AtEnd
<1>10. read_args(pdu, types) = Reading(pdu, Len(pdu), upto(N))
  <2>1. read_args(pdu, types) = p[N]
    BY BehindHeader, Zenon DEF read_args
  <2> QED
    BY <1>8, <1>9, <2>1, Zenon
<1>11. unpack_req_header(unmarshall(pdu)).proc = pdu[3]
  <2> HIDE DEF pdu
  <2> QED
    BY HeaderSize DEF unpack_req_header, unmarshall
<1> HIDE DEF pdu, upto
<1>12. ASSUME NEW n, NEW s
       PROVE  Reading(pdu, n, s).values = s
  BY DEF Reading
<1>13. okdone(Reading(pdu, Len(pdu), upto(N)))
  <2> DEFINE s == upto(N)
             l == Len(pdu)
             u == Reading(pdu, l, s)
  <2> HIDE DEF s, l
  <2>1. u.ok = TRUE /\ u.ind = l /\ u.buf = pdu
    BY DEF Reading
  <2> HIDE DEF u
  <2>2. okdone(u)
    BY <2>1, Zenon DEF okdone, l
  <2> QED
    BY <2>2 DEF u, l, s
<1>14. unpack_req_header(unmarshall(pdu)).proc = h.proc
  BY <1>2, <1>11, Zenon
<1>15. okdone(read_args(pdu, types))
  BY <1>10, <1>13, Zenon
<1>16. read_args(pdu, types).values = upto(N)
  BY <1>10, <1>12, Zenon
<1> QED
  BY <1>14, <1>15, <1>16, Zenon DEF ArgumentsAreRead, pdu, upto

-----------------------------------------------------------------------------
(***************************************************************************)
(* Replies                                                                 *)
(***************************************************************************)

\* What comes back: the xid and ret, and behind the header the buffer m.
CarriesReply(m, xid, ret) ==
  LET pdu == take_buf(pack_reply_header(m, [xid |-> xid, ret |-> ret]))
  IN  /\ pdu \in Seq(Int)
      /\ Len(pdu) = Len(m.buf)
      /\ pdu[3] = ret
      /\ \A k \in 7 .. Len(pdu) : pdu[k] = m.buf[k]

LEMMA WhatIsReplied ==
  ASSUME NEW m, AtEnd(m), NEW xid \in Int, NEW ret \in Int
  PROVE  CarriesReply(m, xid, ret)
<1> DEFINE h == [xid |-> xid, ret |-> ret]
           hdr == << h.xid, h.ret >>
           pdu == take_buf([pack([m EXCEPT !.ind = rpc_sz_t], hdr) EXCEPT !.ind = m.ind])
<1>1. hdr \in Seq(Int) /\ Len(hdr) = 2 /\ hdr[2] = ret
  OBVIOUS
<1>2. take_buf(pack_reply_header(m, h)) = pdu
  BY Zenon DEF pack_reply_header
<1> HIDE DEF hdr, h
<1>3. /\ pdu \in Seq(Int) /\ Len(pdu) = Len(m.buf)
      /\ \A k \in 1 .. Len(hdr) : pdu[k + 1] = hdr[k]
      /\ \A k \in 7 .. Len(m.buf) : pdu[k] = m.buf[k]
  <2>1. Len(hdr) <= 5
    BY <1>1
  <2> QED
    BY <1>1, <2>1, HeaderCells, Zenon
<1> HIDE DEF pdu
<1>4. pdu[3] = ret
  <2>1. 2 \in 1 .. Len(hdr) /\ 2 + 1 = 3
    BY <1>1
  <2> QED
    BY <1>1, <1>3, <2>1
<1> QED
  BY <1>2, <1>3, <1>4, Zenon DEF CarriesReply, h

\* The ret that call_m sees.
LEMMA IntretOf ==
  ASSUME NEW pdu
  PROVE  unpack_reply_header(unmarshall(pdu)).ret = pdu[3]
  BY HeaderSize DEF unpack_reply_header, unmarshall

\* The caller reads what the handler has filled in, and all of it: VERIFY does
\* not end it.
ReplyIsRead(xid, ret, type, v) ==
  LET rep == call_m(reply(xid, ret, type, v), type)
  IN  rep.verify /\ rep.intret = ret /\ rep.r = v

\* It does, for a value of any type and a string of any length.
THEOREM ReplyRoundTrip ==
  ASSUME NEW xid \in Int, NEW ret \in Nat, NEW type, NEW v, IsValue(type, v)
  PROVE  ReplyIsRead(xid, ret, type, v)
<1> DEFINE m == put_value(marshall, type, v)
           pdu == reply(xid, ret, type, v)
           raw == cells(type, v)
           u == Reading(pdu, 6, << >>)
           end == Reading(pdu, 6 + Len(raw), Append(<< >>, v))
<1>1. AtEnd(m) /\ m.buf = marshall.buf \o raw
  BY NewBuffer, PutAtEnd, Zenon
<1>2. marshall.buf \in Seq(Int) /\ Len(marshall.buf) = 6
  BY NewBuffer DEF AtEnd
<1>3. raw \in Seq(Int) /\ Len(raw) \in Nat
  BY CellsOfValue
<1>4. pdu = take_buf(pack_reply_header(m, [xid |-> xid, ret |-> ret]))
  <2>1. ret # unmarshal_args_failure
    BY DEF unmarshal_args_failure
  <2> QED
    BY <2>1, Zenon DEF reply
<1>5. /\ pdu \in Seq(Int) /\ Len(pdu) = Len(m.buf) /\ pdu[3] = ret
      /\ \A k \in 7 .. Len(pdu) : pdu[k] = m.buf[k]
  <2>1. ret \in Int
    OBVIOUS
  <2>2. CarriesReply(m, xid, ret)
    BY <1>1, <2>1, WhatIsReplied, Zenon
  <2> QED
    BY <1>4, <2>2, Zenon DEF CarriesReply
<1> HIDE DEF m, pdu, raw
<1>6. /\ Len(m.buf) = 6 + Len(raw)
      /\ \A k \in 1 .. Len(raw) : m.buf[6 + k] = raw[k]
  <2> DEFINE a == marshall.buf
             b == m.buf
  <2> HIDE DEF a, b
  <2>1. a \in Seq(Int) /\ Len(a) = 6 /\ b = a \o raw
    BY <1>1, <1>2, Zenon DEF a, b
  <2>2. Len(b) = 6 + Len(raw) /\ \A k \in 1 .. Len(raw) : b[6 + k] = raw[k]
    <3>1. /\ Len(a \o raw) = Len(a) + Len(raw)
          /\ \A k \in 1 .. Len(raw) : (a \o raw)[Len(a) + k] = raw[k]
      <4>1. a \in Seq(Int) /\ raw \in Seq(Int)
        BY <1>3, <2>1
      <4> QED
        BY <4>1
    <3> QED
      BY <2>1, <3>1
  <2> QED
    BY <2>2, Zenon DEF b
<1>7. Holds(pdu, 6, raw)
  <2>1. \A k \in 1 .. Len(raw) : 6 + k \in 7 .. Len(pdu)
    BY <1>3, <1>5, <1>6
  <2> QED
    BY <1>3, <1>5, <1>6, <2>1 DEF Holds
<1>8. get_value(u, type) = end
  <2>1. 6 \in Nat
    OBVIOUS
  <2>2. GetsBack(pdu, 6, << >>, type, v)
    BY <1>5, <1>7, <2>1, GetValue, Zenon DEF raw
  <2> QED
    BY <2>2, Zenon DEF GetsBack, raw
<1>9. behind_header(unmarshall(pdu)) = u
  BY BehindHeader, Zenon
<1>10. unpack_reply_header(unmarshall(pdu)).ret = ret
  BY <1>5, IntretOf, Zenon
<1>11. ~ (ret < 0)
  OBVIOUS
<1> DEFINE ok == ret < 0 \/ okdone(end)
<1>12. okdone(end)
  <2> DEFINE l == 6 + Len(raw)
             s == Append(<< >>, v)
  <2>0. l = Len(pdu)
    BY <1>3, <1>5, <1>6
  <2> HIDE DEF s, l
  <2> DEFINE e == Reading(pdu, l, s)
  <2>1. e.ok = TRUE /\ e.ind = l /\ e.buf = pdu
    BY DEF Reading
  <2> HIDE DEF e
  <2>2. okdone(e)
    BY <2>0, <2>1, Zenon DEF okdone
  <2> QED
    BY <2>2 DEF e, l, s
<1>13. end.values[1] = v
  <2> DEFINE l == 6 + Len(raw)
             s == Append(<< >>, v)
  <2>0. s[1] = v
    OBVIOUS
  <2> HIDE DEF s, l
  <2>1. Reading(pdu, l, s).values = s
    BY DEF Reading
  <2> QED
    BY <2>0, <2>1, Zenon DEF s, l
<1> HIDE DEF u, end
<1>14. call_m(pdu, type) =
         [intret |-> ret,
          r      |-> IF ret < 0 THEN NoValue ELSE end.values[1],
          verify |-> ok]
  BY <1>8, <1>9, <1>10, Zenon DEF call_m
<1>15. ok
  BY <1>12, Zenon
<1> HIDE DEF ok
<1>16. (IF ret < 0 THEN NoValue ELSE end.values[1]) = v
  BY <1>11, <1>13, Zenon
<1>17. call_m(pdu, type) = [intret |-> ret, r |-> v, verify |-> ok]
  BY <1>14, <1>16, Zenon
<1>18. call_m(pdu, type).intret = ret /\ call_m(pdu, type).r = v
  BY <1>17
<1>19. call_m(pdu, type).verify = ok
  <2>1. ASSUME NEW o
        PROVE  [intret |-> ret, r |-> v, verify |-> o].verify = o
    OBVIOUS
  <2> QED
    BY <1>17, <2>1, Zenon
<1>20. call_m(pdu, type).verify
  BY <1>15, <1>19, Zenon
<1> QED
  BY <1>18, <1>20, Zenon DEF ReplyIsRead, pdu

\* A refused call: the caller sees it, and reads no more.
THEOREM RefusalRoundTrip ==
  ASSUME NEW xid \in Int, NEW type, NEW v, NEW asked
  PROVE  LET rep == call_m(reply(xid, unmarshal_args_failure, type, v), asked)
         IN  rep.verify /\ rep.intret = unmarshal_args_failure
<1> DEFINE ret == unmarshal_args_failure
           pdu == reply(xid, ret, type, v)
           u == behind_header(unmarshall(pdu))
           ok == ret < 0 \/ okdone(get_value(u, asked))
           val == IF ret < 0 THEN NoValue ELSE get_value(u, asked).values[1]
<1>1. ret \in Int /\ ret < 0
  BY DEF unmarshal_args_failure
<1>2. pdu = take_buf(pack_reply_header(marshall, [xid |-> xid, ret |-> ret]))
  BY Zenon DEF reply
<1>3. pdu[3] = ret
  <2>1. CarriesReply(marshall, xid, ret)
    BY <1>1, NewBuffer, WhatIsReplied, Zenon
  <2> QED
    BY <1>2, <2>1, Zenon DEF CarriesReply
<1> HIDE DEF ret, pdu
<1>4. unpack_reply_header(unmarshall(pdu)).ret = ret
  BY <1>3, IntretOf, Zenon
<1>5. call_m(pdu, asked) = [intret |-> ret, r |-> val, verify |-> ok]
  BY <1>4, Zenon DEF call_m
<1>6. ok
  BY <1>1, Zenon
<1> HIDE DEF ok, val
<1>7. call_m(pdu, asked).intret = ret
  BY <1>5
<1>8. call_m(pdu, asked).verify = ok
  <2>1. ASSUME NEW o
        PROVE  [intret |-> ret, r |-> val, verify |-> o].verify = o
    OBVIOUS
  <2> QED
    BY <1>5, <2>1, Zenon
<1>9. call_m(pdu, asked).verify
  BY <1>6, <1>8, Zenon
<1> QED
  BY <1>7, <1>9, Zenon DEF pdu, ret
=============================================================================
