--------------------------- MODULE YfsFileProofs ---------------------------
(***************************************************************************)
(* Proofs about the operations on the contents of a file: what they make   *)
(* of a string, and that reads and changes are exact, for any number of    *)
(* clients, any bytes and any bound on the length.                         *)
(***************************************************************************)
EXTENDS YfsFileInv, ExtentCacheProofs, SequenceTheorems, TLAPS

(***************************************************************************)
(* Strings                                                                 *)
(***************************************************************************)

\* A content is a sequence of at most MaxSize bytes.
LEMMA ContentsAreStrings ==
  \A s : s \in Contents <=> s \in Seq(Bytes) /\ Len(s) <= MaxSize
<1> USE StringsAssumption
<1>1. ASSUME NEW s \in Contents PROVE s \in Seq(Bytes) /\ Len(s) <= MaxSize
  <2>1. PICK n \in 0 .. MaxSize : s \in [1 .. n -> Bytes]
    OBVIOUS
  <2> QED  BY <2>1
<1>2. ASSUME NEW s \in Seq(Bytes), Len(s) <= MaxSize PROVE s \in Contents
  <2>1. Len(s) \in 0 .. MaxSize /\ s \in [1 .. Len(s) -> Bytes]
    BY <1>2, LenProperties
  <2> QED  BY <2>1
<1> QED  BY <1>1, <1>2

\* A sequence is the function of its elements.
LEMMA StringExtensionality ==
  ASSUME NEW S, NEW s \in Seq(S), NEW t, t = [i \in 1 .. Len(s) |-> t[i]],
         \A i \in 1 .. Len(s) : s[i] = t[i]
  PROVE  s = t
<1>1. s = [i \in 1 .. Len(s) |-> s[i]]
  BY LenProperties
<1> QED  BY <1>1

\* The bytes of a part of a string.
LEMMA SubSeqFacts ==
  ASSUME NEW s \in Seq(Bytes), NEW m \in Nat \ {0}, NEW n \in Nat, n <= Len(s)
  PROVE  /\ SubSeq(s, m, n) \in Seq(Bytes)
         /\ Len(SubSeq(s, m, n)) = IF m <= n THEN n - m + 1 ELSE 0
         /\ \A i \in 1 .. n - m + 1 : SubSeq(s, m, n)[i] = s[m + i - 1]
<1>1. \A i \in m .. n : s[i] \in Bytes
  BY LenProperties
<1> QED  BY <1>1, SubSeqProperties

\* A string of zeros.
LEMMA ZerosFacts ==
  ASSUME NEW n \in Nat
  PROVE  /\ Zeros(n) \in Seq(Bytes) /\ Len(Zeros(n)) = n
         /\ \A i \in 1 .. n : Zeros(n)[i] = 0
  BY BytesAssumption DEF Zeros

\* The number of bytes that substr returns.
Part(s, off, size) == IF off + size < Len(s) THEN size ELSE Len(s) - off

\* substr, for off inside the string or at its end.
LEMMA SubstrFacts ==
  ASSUME NEW s \in Seq(Bytes), NEW off \in Nat, NEW size \in Nat, off <= Len(s)
  PROVE  /\ substr(s, off, size) \in Seq(Bytes)
         /\ Len(substr(s, off, size)) = Part(s, off, size)
         /\ \A i \in 1 .. Part(s, off, size) : substr(s, off, size)[i] = s[off + i]
<1> DEFINE m == off + 1
           n == IF off + size < Len(s) THEN off + size ELSE Len(s)
           len == Part(s, off, size)
<1>0. Len(s) \in Nat
  OBVIOUS
<1>1. m \in Nat \ {0} /\ n \in Nat /\ n <= Len(s)
  BY <1>0
<1>2. substr(s, off, size) = SubSeq(s, m, n)
  BY DEF substr
<1>3. /\ (IF m <= n THEN n - m + 1 ELSE 0) = len
      /\ n - m + 1 = len
      /\ \A i \in 1 .. len : m + i - 1 = off + i
  BY <1>0 DEF Part
<1>4. /\ SubSeq(s, m, n) \in Seq(Bytes) /\ Len(SubSeq(s, m, n)) = len
      /\ \A i \in 1 .. len : SubSeq(s, m, n)[i] = s[off + i]
  <2> HIDE DEF m, n
  <2>1. /\ SubSeq(s, m, n) \in Seq(Bytes)
        /\ Len(SubSeq(s, m, n)) = IF m <= n THEN n - m + 1 ELSE 0
        /\ \A i \in 1 .. n - m + 1 : SubSeq(s, m, n)[i] = s[m + i - 1]
    BY <1>1, SubSeqFacts
  <2> QED  BY <1>3, <2>1
<1> QED  BY <1>2, <1>4

\* The number of bytes behind the place that replace changes.
Rest(s, off, size) == IF off + size <= Len(s) THEN Len(s) - (off + size) ELSE 0

\* replace, for off inside the string or at its end.
LEMMA ReplaceFacts ==
  ASSUME NEW s \in Seq(Bytes), NEW off \in Nat, NEW size \in Nat, off <= Len(s),
         NEW string \in Seq(Bytes)
  PROVE  LET r    == replace(s, off, size, string)
             rest == Rest(s, off, size)
         IN /\ r \in Seq(Bytes)
            /\ Len(r) = off + Len(string) + rest
            /\ \A i \in 1 .. off : r[i] = s[i]
            /\ \A i \in 1 .. Len(string) : r[off + i] = string[i]
            /\ \A i \in 1 .. rest : r[off + Len(string) + i] = s[off + size + i]
<1> DEFINE a == substr(s, 0, off)
           z == SubSeq(s, off + size + 1, Len(s))
           b == a \o string
           r == b \o z
           rest == Rest(s, off, size)
<1>0. Len(s) \in Nat /\ Len(string) \in Nat
  OBVIOUS
<1>1. r = replace(s, off, size, string)
  BY DEF replace
<1>2. a \in Seq(Bytes) /\ Len(a) = off /\ \A i \in 1 .. off : a[i] = s[i]
  <2>1. Part(s, 0, off) = off
    BY <1>0 DEF Part
  <2>2. 0 \in Nat /\ 0 <= Len(s)
    BY <1>0
  <2>3. /\ a \in Seq(Bytes) /\ Len(a) = Part(s, 0, off)
        /\ \A i \in 1 .. Part(s, 0, off) : a[i] = s[0 + i]
    BY <2>2, SubstrFacts, Zenon
  <2>4. \A i \in 1 .. off : 0 + i = i
    OBVIOUS
  <2> HIDE DEF a
  <2> QED  BY <2>1, <2>3, <2>4
<1>3. z \in Seq(Bytes) /\ Len(z) = rest /\ \A i \in 1 .. rest : z[i] = s[off + size + i]
  <2>1. /\ off + size + 1 \in Nat \ {0} /\ Len(s) \in Nat /\ Len(s) <= Len(s)
        /\ (IF off + size + 1 <= Len(s) THEN Len(s) - (off + size + 1) + 1 ELSE 0) = rest
        /\ \A i \in 1 .. rest : /\ i \in 1 .. Len(s) - (off + size + 1) + 1
                                /\ off + size + 1 + i - 1 = off + size + i
    BY <1>0 DEF Rest
  <2> QED  BY <2>1, SubSeqFacts, SMTT(30)
<1>4. /\ b \in Seq(Bytes) /\ Len(b) = off + Len(string)
      /\ \A i \in 1 .. off + Len(string) : b[i] = IF i <= off THEN a[i] ELSE string[i - off]
  <2> HIDE DEF a
  <2> QED  BY <1>2, ConcatProperties
<1>5. /\ r \in Seq(Bytes) /\ Len(r) = Len(b) + rest
      /\ \A i \in 1 .. Len(b) + rest : r[i] = IF i <= Len(b) THEN b[i] ELSE z[i - Len(b)]
  <2> HIDE DEF b, z, rest
  <2>1. /\ r \in Seq(Bytes) /\ Len(r) = Len(b) + Len(z)
        /\ \A i \in 1 .. Len(b) + Len(z) :
             r[i] = IF i <= Len(b) THEN b[i] ELSE z[i - Len(b)]
    BY <1>3, <1>4, ConcatProperties, Zenon
  <2> QED  BY <1>3, <2>1
<1>6. rest \in Nat
  BY <1>0 DEF Rest
<1> HIDE DEF a, b, z, r, rest
<1> DEFINE k == Len(string)
<1>7. k \in Nat
  BY <1>0
<1> HIDE DEF k
<1>8. \A i \in 1 .. off : r[i] = s[i]
  <2> SUFFICES ASSUME NEW i \in 1 .. off PROVE r[i] = s[i]
    OBVIOUS
  <2>1. i \in 1 .. off + k /\ i \in 1 .. off + k + rest /\ i <= off /\ i <= off + k
    BY <1>6, <1>7
  <2> QED  BY <2>1, <1>2, <1>4, <1>5 DEF k
<1>9. \A i \in 1 .. k : r[off + i] = string[i]
  <2> SUFFICES ASSUME NEW i \in 1 .. k PROVE r[off + i] = string[i]
    OBVIOUS
  <2>1. /\ off + i \in 1 .. off + k /\ off + i \in 1 .. off + k + rest
        /\ ~(off + i <= off) /\ off + i <= off + k /\ (off + i) - off = i
    BY <1>6, <1>7
  <2> QED  BY <2>1, <1>4, <1>5 DEF k
<1>10. \A i \in 1 .. rest : r[off + k + i] = s[off + size + i]
  <2> SUFFICES ASSUME NEW i \in 1 .. rest PROVE r[off + k + i] = s[off + size + i]
    OBVIOUS
  <2>1. /\ off + k + i \in 1 .. off + k + rest
        /\ ~(off + k + i <= off + k) /\ (off + k + i) - (off + k) = i
    BY <1>6, <1>7
  <2> QED  BY <2>1, <1>3, <1>4, <1>5 DEF k
<1> QED  BY <1>1, <1>4, <1>5, <1>8, <1>9, <1>10 DEF k, rest

(***************************************************************************)
(* What the operations compute                                             *)
(***************************************************************************)

\* read returns the bytes from off on, as many as there are and were asked for.
LEMMA ReadIsExact ==
  ASSUME NEW s \in Seq(Bytes), NEW off \in Nat, NEW size \in Nat
  PROVE  /\ read(s, off, size) \in Seq(Bytes)
         /\ Len(read(s, off, size)) <= Len(s)
         /\ IsRead(s, off, size, read(s, off, size))
<1>0. Len(s) \in Nat
  OBVIOUS
<1>1. CASE off >= Len(s)
  <2>1. read(s, off, size) = << >>
    BY <1>1 DEF read
  <2>2. \A i \in 1 .. size : ~(off + i <= Len(s)) /\ i > 0
    BY <1>0, <1>1
  <2> QED  BY <1>0, <2>1, <2>2, SMTT(30) DEF IsRead
<1>2. CASE ~(off >= Len(s))
  <2> DEFINE string == substr(s, off, size)
             len == Part(s, off, size)
  <2>1. read(s, off, size) = string
    BY <1>2 DEF read
  <2>2. off <= Len(s)
    BY <1>0, <1>2
  <2>3. /\ string \in Seq(Bytes) /\ Len(string) = len
        /\ \A i \in 1 .. len : string[i] = s[off + i]
    BY <2>2, SubstrFacts
  <2>4. /\ len \in Nat /\ len <= size /\ len <= Len(s)
        /\ \A i \in 1 .. size : off + i <= Len(s) <=> i <= len
    BY <1>0, <1>2 DEF Part
  <2> HIDE DEF string, len
  <2>5. \A i \in 1 .. size : IF off + i <= Len(s)
                             THEN i <= Len(string) /\ string[i] = s[off + i]
                             ELSE i > Len(string)
    <3> SUFFICES ASSUME NEW i \in 1 .. size
                 PROVE  IF i <= len THEN string[i] = s[off + i] ELSE i > len
      BY <2>3, <2>4
    <3> QED  BY <2>3, <2>4
  <2> QED  BY <2>1, <2>3, <2>4, <2>5 DEF IsRead
<1> QED  BY <1>1, <1>2

\* write puts its bytes in their place and fills a gap with zeros.
LEMMA WriteIsExact ==
  ASSUME NEW s \in Seq(Bytes), NEW off \in Nat, NEW string \in Seq(Bytes)
  PROVE  /\ write(s, off, string) \in Seq(Bytes)
         /\ Len(write(s, off, string)) = Larger(Len(s), off + Len(string))
         /\ write(s, off, string) = Written(s, off, string)
<1> DEFINE w == write(s, off, string)
           n == Larger(Len(s), off + Len(string))
           byte(i) == IF off < i /\ i <= off + Len(string) THEN string[i - off]
                      ELSE IF i <= Len(s) THEN s[i] ELSE 0
           k == Len(string)
           l == Len(s)
<1>0. l \in Nat /\ k \in Nat
  OBVIOUS
<1>1. w \in Seq(Bytes) /\ Len(w) = n /\ \A i \in 1 .. n : w[i] = byte(i)
  <2>1. CASE off < Len(s)
    <3> DEFINE rest == Rest(s, off, Len(string))
    <3>1. w = replace(s, off, Len(string), string)
      BY <2>1 DEF write
    <3>2. off <= Len(s) /\ Len(string) \in Nat
      BY <1>0, <2>1
    <3>3. /\ w \in Seq(Bytes)
          /\ Len(w) = off + k + rest
          /\ \A i \in 1 .. off : w[i] = s[i]
          /\ \A i \in 1 .. k : w[off + i] = string[i]
          /\ \A i \in 1 .. rest : w[off + k + i] = s[off + k + i]
      <4> DEFINE v == replace(s, off, Len(string), string)
      <4>1. /\ v \in Seq(Bytes)
            /\ Len(v) = off + k + rest
            /\ \A i \in 1 .. off : v[i] = s[i]
            /\ \A i \in 1 .. k : v[off + i] = string[i]
            /\ \A i \in 1 .. rest : v[off + k + i] = s[off + k + i]
        BY <3>2, ReplaceFacts, Zenon
      <4> HIDE DEF w, v, rest
      <4> QED  BY <3>1, <4>1 DEF v
    <3>4. off + k + rest = n
      <4>1. n = IF l < off + k THEN off + k ELSE l
        BY DEF Larger
      <4>2. rest = IF off + k <= l THEN l - (off + k) ELSE 0
        BY DEF Rest
      <4> HIDE DEF n, k, l, rest
      <4> QED  BY <1>0, <2>1, <4>1, <4>2
    <3>5. ASSUME NEW i \in 1 .. n PROVE w[i] = byte(i)
      <4>1. CASE i <= off
        <5>1. i \in 1 .. off /\ i <= Len(s) /\ ~(off < i)
          BY <1>0, <2>1, <4>1
        <5> QED  BY <3>3, <5>1
      <4>2. CASE off < i /\ i <= off + k
        <5>1. i - off \in 1 .. k /\ off + (i - off) = i
          BY <1>0, <4>2
        <5>2. w[i] = string[i - off]
          <6> HIDE DEF w, rest
          <6> QED  BY <3>3, <5>1
        <5> QED  BY <4>2, <5>2
      <4>3. CASE i > off + k
        <5>1. /\ i - (off + k) \in 1 .. rest /\ off + k + (i - (off + k)) = i
              /\ i <= l
          BY <1>0, <2>1, <3>4, <4>3 DEF Larger, Rest
        <5>2. w[i] = s[i]
          <6> HIDE DEF w, rest
          <6> QED  BY <3>3, <5>1
        <5>3. ~(i <= off + k)
          BY <1>0, <4>3
        <5> QED  BY <5>1, <5>2, <5>3
      <4>4. i <= off \/ (off < i /\ i <= off + k) \/ i > off + k
        BY <1>0
      <4> QED  BY <4>1, <4>2, <4>3, <4>4
    <3> HIDE DEF w, n, byte
    <3> QED  BY <3>3, <3>4, <3>5
  <2>2. CASE ~(off < Len(s))
    <3> DEFINE z == Zeros(off - l)
               b == s \o z
    <3>1. w = b \o string
      BY <2>2 DEF write
    <3>2. off - l \in Nat
      BY <1>0, <2>2
    <3>3. z \in Seq(Bytes) /\ Len(z) = off - l /\ \A i \in 1 .. off - l : z[i] = 0
      <4> HIDE DEF l
      <4> QED  BY <3>2, ZerosFacts
    <3>4. /\ b \in Seq(Bytes) /\ Len(b) = l + (off - l)
          /\ \A i \in 1 .. l + (off - l) : b[i] = IF i <= l THEN s[i] ELSE z[i - l]
      <4> HIDE DEF z
      <4> QED  BY <3>3, ConcatProperties
    <3>5. l + (off - l) = off
      BY <1>0
    <3>6. /\ w \in Seq(Bytes) /\ Len(w) = off + k
          /\ \A i \in 1 .. off + k : w[i] = IF i <= off THEN b[i] ELSE string[i - off]
      <4> HIDE DEF b, w
      <4> QED  BY <3>1, <3>4, <3>5, ConcatProperties
    <3>7. off + k = n
      BY <1>0, <2>2 DEF Larger
    <3>8. ASSUME NEW i \in 1 .. n PROVE w[i] = byte(i)
      <4>1. CASE i <= off /\ i <= l
        <5>1. i \in 1 .. off /\ i \in 1 .. off + k /\ ~(off < i)
          BY <1>0, <4>1
        <5> HIDE DEF w, b
        <5> QED  BY <4>1, <5>1, <3>4, <3>5, <3>6
      <4>2. CASE i <= off /\ i > l
        <5>1. /\ i \in 1 .. off /\ i \in 1 .. off + k /\ ~(off < i)
              /\ ~(i <= l) /\ i - l \in 1 .. off - l
          BY <1>0, <4>2
        <5> HIDE DEF w, b, z
        <5> QED  BY <4>2, <5>1, <3>3, <3>4, <3>5, <3>6
      <4>3. CASE i > off
        <5>1. i \in 1 .. off + k /\ off < i /\ i <= off + k /\ ~(i <= off)
          BY <1>0, <4>3, <3>7
        <5> HIDE DEF w, b
        <5> QED  BY <5>1, <3>6
      <4>4. (i <= off /\ i <= l) \/ (i <= off /\ i > l) \/ i > off
        BY <1>0
      <4> QED  BY <4>1, <4>2, <4>3, <4>4
    <3> QED  BY <3>6, <3>7, <3>8
  <2> QED  BY <2>1, <2>2
<1>2. w = Written(s, off, string)
  <2>1. Written(s, off, string) = [i \in 1 .. n |-> byte(i)]
    BY DEF Written
  <2> HIDE DEF w, n, byte
  <2>2. w = [i \in 1 .. n |-> w[i]]
    BY <1>1, LenProperties
  <2> QED  BY <1>1, <2>1, <2>2
<1> QED  BY <1>1, <1>2

\* setattr makes a string that is no longer than Start has allowed for.
LEMMA ResizeIsString ==
  ASSUME NEW s \in Seq(Bytes), NEW known \in Nat, NEW size \in Nat,
         known <= size \/ size <= Len(s), Len(s) <= MaxSize,
         Len(s) + size <= MaxSize + known
  PROVE  resize(s, known, size) \in Contents
<1> DEFINE r == resize(s, known, size)
           l == Len(s)
<1>0. l \in Nat /\ MaxSize \in Nat
  BY StringsAssumption
<1>1. r \in Seq(Bytes) /\ Len(r) <= MaxSize
  <2>1. CASE known > size
    <3>1. r = replace(s, size, known, << >>)
      BY <2>1 DEF resize, erase
    <3>2. size <= Len(s) /\ << >> \in Seq(Bytes) /\ Len(<< >>) = 0
      BY <1>0, <2>1
    <3>3. /\ r \in Seq(Bytes)
          /\ Len(r) = size + Len(<< >>) + Rest(s, size, known)
      <4> HIDE DEF r
      <4> QED  BY <3>1, <3>2, ReplaceFacts
    <3>4. size + 0 + Rest(s, size, known) <= Len(s)
      BY <1>0, <3>2 DEF Rest
    <3> QED  BY <1>0, <3>2, <3>3, <3>4
  <2>2. CASE ~(known > size)
    <3> DEFINE z == Zeros(size - known)
    <3>1. r = s \o z
      BY <2>2 DEF resize
    <3>2. size - known \in Nat
      BY <2>2
    <3>3. z \in Seq(Bytes) /\ Len(z) = size - known
      BY <3>2, ZerosFacts
    <3>4. r \in Seq(Bytes) /\ Len(r) = l + (size - known)
      <4> HIDE DEF r, z
      <4> QED  BY <3>1, <3>3, ConcatProperties
    <3>5. l + (size - known) <= MaxSize
      BY <1>0
    <3> QED  BY <3>4, <3>5
  <2> QED  BY <2>1, <2>2
<1> HIDE DEF r
<1> QED  BY <1>1, ContentsAreStrings DEF r

\* Told the right size, setattr cuts the end or adds zeros.
LEMMA ResizeIsExact ==
  ASSUME NEW s \in Seq(Bytes), NEW size \in Nat
  PROVE  resize(s, Len(s), size) = Resized(s, size)
<1> DEFINE r == resize(s, Len(s), size)
           byte(i) == IF i <= Len(s) THEN s[i] ELSE 0
           l == Len(s)
<1>0. l \in Nat
  OBVIOUS
<1>1. r \in Seq(Bytes) /\ Len(r) = size /\ \A i \in 1 .. size : r[i] = byte(i)
  <2>1. CASE Len(s) > size
    <3>1. r = replace(s, size, Len(s), << >>)
      BY <2>1 DEF resize, erase
    <3>2. /\ size <= Len(s) /\ Len(s) \in Nat
          /\ << >> \in Seq(Bytes) /\ Len(<< >>) = 0
      BY <1>0, <2>1
    <3>3. /\ r \in Seq(Bytes)
          /\ Len(r) = size + Len(<< >>) + Rest(s, size, Len(s))
          /\ \A i \in 1 .. size : r[i] = s[i]
      <4> DEFINE v == replace(s, size, Len(s), << >>)
      <4>1. /\ v \in Seq(Bytes)
            /\ Len(v) = size + Len(<< >>) + Rest(s, size, Len(s))
            /\ \A i \in 1 .. size : v[i] = s[i]
        BY <3>2, ReplaceFacts, Zenon
      <4> HIDE DEF r, v
      <4> QED  BY <3>1, <4>1 DEF v
    <3>4. size + 0 + Rest(s, size, Len(s)) = size
      BY <1>0, <2>1 DEF Rest
    <3>5. \A i \in 1 .. size : i <= Len(s)
      BY <1>0, <2>1
    <3> HIDE DEF r
    <3> QED  BY <3>2, <3>3, <3>4, <3>5
  <2>2. CASE ~(Len(s) > size)
    <3> DEFINE z == Zeros(size - l)
    <3>1. r = s \o z
      BY <2>2 DEF resize
    <3>2. size - l \in Nat
      BY <1>0, <2>2
    <3>3. z \in Seq(Bytes) /\ Len(z) = size - l /\ \A i \in 1 .. size - l : z[i] = 0
      <4> HIDE DEF l
      <4> QED  BY <3>2, ZerosFacts
    <3>4. /\ r \in Seq(Bytes) /\ Len(r) = l + (size - l)
          /\ \A i \in 1 .. l + (size - l) : r[i] = IF i <= l THEN s[i] ELSE z[i - l]
      <4> HIDE DEF r, z
      <4> QED  BY <3>1, <3>3, ConcatProperties
    <3>5. l + (size - l) = size
      BY <1>0
    <3>6. ASSUME NEW i \in 1 .. size PROVE r[i] = byte(i)
      <4>1. CASE i <= l
        <5> HIDE DEF r, z
        <5> QED  BY <3>4, <3>5, <4>1
      <4>2. CASE ~(i <= l)
        <5>1. i - l \in 1 .. size - l
          BY <1>0, <4>2
        <5> HIDE DEF r, z
        <5> QED  BY <3>3, <3>4, <3>5, <4>2, <5>1
      <4> QED  BY <4>1, <4>2
    <3> HIDE DEF r, byte
    <3> QED  BY <3>4, <3>5, <3>6
  <2> QED  BY <2>1, <2>2
<1>2. r = [i \in 1 .. size |-> r[i]]
  <2> HIDE DEF r
  <2> QED  BY <1>1, LenProperties
<1>3. Resized(s, size) = [i \in 1 .. size |-> byte(i)]
  BY DEF Resized
<1> HIDE DEF r, byte
<1> QED  BY <1>1, <1>2, <1>3 DEF r

-----------------------------------------------------------------------------
(***************************************************************************)
(* The inductive invariant                                                 *)
(***************************************************************************)

\* What is to be shown of a client that takes a step.
Good(c) ==
  /\ AtOK(c) /\ CallOK(c) /\ FitsOK(c) /\ PutOK(c)
  /\ at[c] = "release" =>
       /\ call[c].name = "read" =>
            IsRead(content, call[c].off, call[c].size, file_str[c])
       /\ call[c].name = "readlink" => file_str[c] = content

\* The types of the variables of this module.
LocalTypeOK ==
  /\ type \in {"T_FILE", "T_LINK"}
  /\ at \in [Clients -> {"idle", "getattr", "get", "put", "release", "terminated"}]
  /\ call \in [Clients -> Calls \cup {NoCall}]
  /\ asize \in [Clients -> Nat]
  /\ file_str \in [Clients -> Contents]

\* FInv in these terms.
LEMMA FInvParts == FInv <=> IInv /\ LocalTypeOK /\ \A c \in Clients : Good(c)
  BY DEF FInv, IInv, FileTypeOK, LocalTypeOK, ReadsAreExact, Good

\* The arguments of an operation.
LEMMA CallFacts ==
  ASSUME NEW k \in Calls \cup {NoCall}
  PROVE  /\ k.off \in Nat /\ k.size \in Nat
         /\ k.data \in Seq(Bytes)
         /\ k \in Calls =>
              k.name \in {"read", "write", "setattr", "getattr", "readlink"}
<1>1. << >> \in Seq(Bytes) /\ \A s \in Contents : s \in Seq(Bytes)
  BY ContentsAreStrings
<1>2. 0 .. MaxSize \subseteq Nat /\ 1 .. MaxSize \subseteq Nat /\ 0 \in Nat
  BY StringsAssumption
<1>3. CASE k \in {Call_("read", off, size, << >>) : off \in Offsets, size \in 1 .. MaxSize}
  <2>1. PICK off \in Offsets, size \in 1 .. MaxSize : k = Call_("read", off, size, << >>)
    BY <1>3
  <2> QED  BY <1>1, <1>2, <2>1 DEF Call_, Offsets
<1>4. CASE k \in {Call_("write", off, 0, string) : off \in Offsets, string \in Contents}
  BY <1>1, <1>2, <1>4 DEF Call_, Offsets
<1>5. CASE k \in {Call_("setattr", 0, size, << >>) : size \in Offsets}
  <2>1. PICK size \in Offsets : k = Call_("setattr", 0, size, << >>)
    BY <1>5
  <2> QED  BY <1>1, <1>2, <2>1 DEF Call_, Offsets
<1>6. CASE k \in {Call_(name, 0, 0, << >>) : name \in {"getattr", "readlink"}}
  <2>1. PICK name \in {"getattr", "readlink"} : k = Call_(name, 0, 0, << >>)
    BY <1>6
  <2> QED  BY <1>1, <1>2, <2>1 DEF Call_
<1>7. CASE k = NoCall /\ k \notin Calls
  BY <1>1, <1>2, <1>7 DEF Call_, NoCall
<1> QED  BY <1>3, <1>4, <1>5, <1>6, <1>7 DEF Calls

\* While one client holds the lock, the others are outside every operation.
LEMMA Alone ==
  ASSUME FInv, NEW c \in holders, NEW d \in Clients, d # c
  PROVE  at[d] = "idle" /\ pc[d] = "idle"
<1>1. d \notin holders
  BY DEF FInv, IInv, LockInv
<1> QED  BY <1>1 DEF FInv, AtOK, IInv, LockInv

\* There is nothing to show of a client outside every operation.
LEMMA IdleIsGood ==
  ASSUME NEW d \in Clients, at'[d] = "idle", pc'[d] = "idle"
  PROVE  Good(d)'
  BY DEF Good, AtOK, CallOK, FitsOK, PutOK

\* A step of a client that holds the lock need be looked at for it alone.
LEMMA HolderStep ==
  ASSUME FInv, NEW c \in holders, IInv', LocalTypeOK', Good(c)',
         \A d \in Clients : d # c => at'[d] = at[d] /\ pc'[d] = pc[d]
  PROVE  FInv'
<1>1. ASSUME NEW d \in Clients PROVE Good(d)'
  <2>1. CASE d = c
    BY <2>1
  <2>2. CASE d # c
    BY <2>2, Alone, IdleIsGood
  <2> QED  BY <2>1, <2>2
<1> QED
  BY <1>1 DEF FInv, IInv, FileTypeOK, LocalTypeOK, ReadsAreExact, Good

\* Every step goes with one of ExtentCache, or leaves its state alone.
LEMMA KeepsStep ==
  ASSUME FInv, [FileNext]_fvars
  PROVE  [Next]_vars
<1>1. CASE UNCHANGED fvars
  BY <1>1 DEF fvars
<1>2. ASSUME NEW c \in Clients, NEW k \in Calls, Start(c, k) PROVE [Next]_vars
  BY <1>2 DEF Start
<1>3. ASSUME NEW c \in Clients, AcquireLock(c) PROVE Next
  BY <1>3 DEF AcquireLock, Next, Locking
<1>4. ASSUME NEW c \in Clients, Ask(c) PROVE Next
  <2>1. file_str[c] \in Contents
    BY DEF FInv, FileTypeOK
  <2> QED  BY <1>4, <2>1 DEF Ask, Next, Call
<1>5. ASSUME NEW c \in Clients, GetattrDone(c) \/ GetDone(c) \/ PutDone(c) PROVE Next
  BY <1>5 DEF GetattrDone, GetDone, PutDone, Next, Step
<1>6. ASSUME NEW c \in Clients, ReleaseLock(c) PROVE Next
  <2>1. pc[c] = "idle"
    BY <1>6 DEF ReleaseLock, FInv, AtOK
  <2> QED  BY <1>6, <2>1 DEF ReleaseLock, Next, Locking
<1>7. ASSUME NEW c \in Clients, Step(c) PROVE Next
  BY <1>7 DEF Next
<1> QED  BY <1>1, <1>2, <1>3, <1>4, <1>5, <1>6, <1>7 DEF FileNext

\* A step that leaves the state of ExtentCache alone leaves what is read from
\* it alone.
LEMMA SameState ==
  ASSUME UNCHANGED vars
  PROVE  UNCHANGED content /\ UNCHANGED KnownSizes
  BY SameContent DEF vars, clientVars, serverVars, KnownSizes

LEMMA StartStep ==
  ASSUME FInv, NEW c \in Clients, NEW k \in Calls, Start(c, k), IInv'
  PROVE  FInv'
<1> DEFINE a == IF k.name \in {"setattr", "getattr"} THEN "getattr" ELSE "get"
<1>1. /\ at[c] = "idle" /\ pc[c] = "idle" /\ c \in holders /\ Fits(k)
      /\ call' = [call EXCEPT ![c] = k]
      /\ at' = [at EXCEPT ![c] = a]
      /\ UNCHANGED << vars, type, asize, file_str >>
  BY DEF Start
<1>2. UNCHANGED content /\ UNCHANGED KnownSizes
  BY <1>1, SameState
<1>3. UNCHANGED << pc, holders, op, attr_stat, attr >>
  BY <1>1 DEF vars, clientVars, lockVars, callVars
<1>4. a \in {"getattr", "get"} /\ (a = "getattr" <=> k.name \in {"setattr", "getattr"})
  OBVIOUS
<1>5. k.name \in {"read", "write", "setattr", "getattr", "readlink"}
  BY CallFacts
<1> HIDE DEF a
<1>6. LocalTypeOK
  BY FInvParts
<1>7. /\ LocalTypeOK' /\ at'[c] = a /\ call'[c] = k
      /\ \A d \in Clients : d # c => at'[d] = at[d] /\ pc'[d] = pc[d]
  BY <1>1, <1>3, <1>4, <1>6 DEF LocalTypeOK
<1>8. AtOK(c)' /\ CallOK(c)' /\ PutOK(c)'
  BY <1>1, <1>3, <1>4, <1>5, <1>7 DEF AtOK, CallOK, PutOK
<1>9. FitsOK(c)'
  BY <1>1, <1>2, <1>3, <1>4, <1>7 DEF FitsOK, Fits
<1>10. Good(c)'
  BY <1>4, <1>7, <1>8, <1>9 DEF Good
<1> QED  BY <1>1, <1>7, <1>10, HolderStep

\* The operation enters a call of extent_client.
LEMMA AskStep ==
  ASSUME FInv, NEW c \in Clients, Ask(c), IInv'
  PROVE  FInv'
<1>0. /\ LocalTypeOK /\ Good(c) /\ TypeOK
  BY FInvParts DEF FInv, IInv
<1>1. PICK arg, label :
        /\ at[c] \in {"getattr", "get", "put"}
        /\ Begin(c, at[c], arg, label)
        /\ label # "idle" /\ label # "gotAttr"
        /\ at[c] = "put" => arg = file_str[c]
        /\ at[c] = "getattr" => label \in {"getattr", "return"}
        /\ at[c] = "getattr" /\ label = "return" => attr_stat[c] # "NONE"
  <2>1. CASE at[c] = "getattr" /\ getattr(c)
    BY <2>1 DEF getattr
  <2>2. CASE at[c] = "get" /\ get(c)
    BY <2>2 DEF get
  <2>3. CASE at[c] = "put" /\ put(c, file_str[c])
    BY <2>3 DEF put
  <2> QED  BY <2>1, <2>2, <2>3 DEF Ask
<1>2. /\ c \in holders /\ pc' = [pc EXCEPT ![c] = label]
      /\ op' = [op EXCEPT ![c] = [name |-> at[c], arg |-> arg]]
      /\ UNCHANGED << holders, attr_stat, data_stat, file_data, file_attr, disk, attr >>
  BY <1>1 DEF Begin, Goto, serverVars, lockVars
<1>3. UNCHANGED << type, at, call, asize, file_str >>
  BY DEF Ask, fileVars
<1>4. UNCHANGED content /\ UNCHANGED KnownSizes
  BY <1>2, SameContent DEF KnownSizes
<1>5. /\ LocalTypeOK' /\ pc'[c] = label /\ op'[c].name = at[c] /\ op'[c].arg = arg
      /\ \A d \in Clients : d # c => at'[d] = at[d] /\ pc'[d] = pc[d]
  BY <1>0, <1>2, <1>3 DEF LocalTypeOK, TypeOK
<1>6. attr_stat[c] # "NONE" => attr_stat[c] = "OK"
  BY <1>0 DEF TypeOK, CacheState
<1>7. AtOK(c)'
  BY <1>1, <1>2, <1>3, <1>5, <1>6 DEF AtOK, InGetattr
<1>8. CallOK(c)' /\ PutOK(c)'
  BY <1>0, <1>3, <1>4 DEF Good, CallOK, PutOK
<1>9. FitsOK(c)'
  BY <1>0, <1>1, <1>2, <1>3, <1>4, <1>5 DEF Good, FitsOK, Fits
<1>10. Good(c)'
  BY <1>1, <1>3, <1>7, <1>8, <1>9 DEF Good
<1> QED  BY <1>2, <1>5, <1>10, HolderStep

\* What a return of extent_client to an operation at label at[c] leaves.
LEMMA ReturnFacts ==
  ASSUME FInv, NEW c \in Clients, at[c] \in {"getattr", "get", "put"}, Return(c), IInv'
  PROVE  /\ c \in holders /\ op[c].name = at[c]
         /\ UNCHANGED << holders, disk >>
         /\ pc'[c] = "idle" /\ \A d \in Clients : d # c => pc'[d] = pc[d]
         /\ at[c] # "put" => UNCHANGED << content, file_attr, data_stat, file_data >>
         /\ at[c] = "put" => content' = content \/ content' = file_str[c]
<1>0. TypeOK /\ AtOK(c)
  BY DEF FInv, IInv
<1>1. pc[c] = "return" /\ pc' = [pc EXCEPT ![c] = "idle"]
  BY DEF Return, Goto
<1>2. op[c].name = at[c] /\ c \in holders /\ (at[c] = "put" => op[c].arg = file_str[c])
  BY <1>0, <1>1 DEF AtOK
<1>3. UNCHANGED << holders, disk >>
  BY DEF Return, lockVars, serverVars
<1>4. at[c] # "put" => UNCHANGED << file_attr, data_stat, file_data >>
  BY <1>2 DEF Return, clientVars
<1>5. at[c] # "put" => UNCHANGED content
  BY <1>3, <1>4, SameContent
<1>6. at[c] = "put" => content' = content \/ content' = file_str[c]
  BY <1>2, ContentStep DEF FInv, Step
<1>7. pc'[c] = "idle" /\ \A d \in Clients : d # c => pc'[d] = pc[d]
  BY <1>0, <1>1 DEF TypeOK
<1> QED  BY <1>2, <1>3, <1>4, <1>5, <1>6, <1>7

LEMMA GetattrDoneStep ==
  ASSUME FInv, NEW c \in Clients, GetattrDone(c), IInv'
  PROVE  FInv'
<1> DEFINE a == IF call[c].name = "setattr" /\ file_attr[c] # call[c].size
                THEN "get" ELSE "release"
<1>0. /\ LocalTypeOK /\ Good(c) /\ TypeOK /\ IInv
  BY FInvParts DEF FInv, IInv
<1>1. /\ at[c] = "getattr" /\ Return(c)
      /\ asize' = [asize EXCEPT ![c] = file_attr[c]]
      /\ at' = [at EXCEPT ![c] = a]
      /\ UNCHANGED << type, call, file_str >>
  BY DEF GetattrDone, GetattrGoesOn, SetattrGoesOn
<1>2. /\ c \in holders /\ UNCHANGED << holders, content >>
      /\ pc'[c] = "idle" /\ \A d \in Clients : d # c => pc'[d] = pc[d]
  BY <1>1, ReturnFacts
<1>3. file_attr[c] \in Nat
  <2>1. attr_stat[c] = "OK"
    BY <1>0, <1>1 DEF Good, AtOK, Return
  <2> QED  BY <1>0, <2>1 DEF IInv, TypeOK, AttrInv
<1>4. file_attr[c] \in KnownSizes
  BY <1>3, GarbageAssumption DEF KnownSizes
<1>5. a \in {"get", "release"} /\ (a = "get" => call[c].name = "setattr")
  OBVIOUS
<1> HIDE DEF a
<1>6. /\ LocalTypeOK' /\ at'[c] = a /\ asize'[c] = file_attr[c]
      /\ \A d \in Clients : d # c => at'[d] = at[d]
  BY <1>0, <1>1, <1>3, <1>5 DEF LocalTypeOK
<1>7. call[c].name \in {"getattr", "setattr"}
  BY <1>0, <1>1 DEF Good, CallOK
<1>8. AtOK(c)' /\ CallOK(c)' /\ PutOK(c)'
  BY <1>1, <1>2, <1>5, <1>6 DEF AtOK, CallOK, PutOK
<1>9. FitsOK(c)'
  <2>1. a = "get" => Len(content) + call[c].size <= MaxSize + file_attr[c]
    BY <1>0, <1>1, <1>4, <1>5 DEF Good, FitsOK, Fits
  <2> QED  BY <1>1, <1>2, <1>5, <1>6, <1>7, <2>1 DEF FitsOK
<1>10. Good(c)'
  BY <1>1, <1>7, <1>8, <1>9 DEF Good
<1> QED  BY <1>2, <1>6, <1>10, HolderStep

LEMMA PutDoneStep ==
  ASSUME FInv, NEW c \in Clients, PutDone(c), IInv'
  PROVE  FInv'
<1>0. /\ LocalTypeOK /\ Good(c)
  BY FInvParts DEF FInv, IInv
<1>1. /\ at[c] = "put" /\ Return(c)
      /\ at' = [at EXCEPT ![c] = "release"]
      /\ UNCHANGED << type, call, asize, file_str >>
  BY DEF PutDone
<1>2. /\ c \in holders /\ UNCHANGED << holders >>
      /\ pc'[c] = "idle" /\ \A d \in Clients : d # c => pc'[d] = pc[d]
  BY <1>1, ReturnFacts
<1>3. /\ LocalTypeOK' /\ at'[c] = "release"
      /\ \A d \in Clients : d # c => at'[d] = at[d]
  BY <1>0, <1>1 DEF LocalTypeOK
<1>4. call[c].name \in {"write", "setattr"}
  BY <1>0, <1>1 DEF Good, CallOK
<1>5. Good(c)'
  BY <1>1, <1>2, <1>3, <1>4 DEF Good, AtOK, CallOK, FitsOK, PutOK
<1> QED  BY <1>2, <1>3, <1>5, HolderStep

\* get has returned: the operation works on the content itself.
LEMMA GetDoneStep ==
  ASSUME FInv, NEW c \in Clients, GetDone(c), IInv'
  PROVE  FInv'
<1> DEFINE s == file_data[c]
           k == call[c]
<1>0. /\ LocalTypeOK /\ Good(c) /\ TypeOK /\ IInv
  BY FInvParts DEF FInv, IInv
<1>1. at[c] = "get" /\ Return(c) /\ UNCHANGED << type, call, asize >>
  BY DEF GetDone
<1>2. /\ c \in holders /\ UNCHANGED << holders, content >>
      /\ pc'[c] = "idle" /\ \A d \in Clients : d # c => pc'[d] = pc[d]
  BY <1>1, ReturnFacts
<1>3. s = content
  <2>1. pc[c] = "return" /\ op[c].name = "get"
    BY <1>0, <1>1 DEF Return, Good, AtOK
  <2>2. data_stat[c] = "OK"
    BY <1>0, <2>1 DEF IInv, MoveInv
  <2> QED  BY <1>0, <2>2, ContentIsTheCopy DEF IInv
<1>4. s \in Contents /\ s \in Seq(Bytes) /\ Len(s) <= MaxSize
  BY <1>0, ContentsAreStrings DEF TypeOK
<1>5. k.off \in Nat /\ k.size \in Nat /\ k.data \in Seq(Bytes) /\ asize[c] \in Nat
  BY <1>0, CallFacts DEF LocalTypeOK
<1> HIDE DEF s, k
<1>6. ASSUME NEW string \in Contents, NEW a \in {"put", "release", "terminated"},
             file_str' = [file_str EXCEPT ![c] = string],
             at' = [at EXCEPT ![c] = a],
             a = "put" =>
               /\ k.name \in {"write", "setattr"}
               /\ k.name = "write" => string = Written(s, k.off, k.data)
               /\ k.name = "setattr" /\ asize[c] = Len(s) => string = Resized(s, k.size),
             a = "release" =>
               /\ k.name = "read" => IsRead(s, k.off, k.size, string)
               /\ k.name = "readlink" => string = s
      PROVE  FInv'
  <2>1. /\ LocalTypeOK' /\ at'[c] = a /\ file_str'[c] = string
        /\ \A d \in Clients : d # c => at'[d] = at[d]
    BY <1>0, <1>1, <1>6 DEF LocalTypeOK
  <2>2. AtOK(c)' /\ CallOK(c)' /\ FitsOK(c)'
    BY <1>1, <1>2, <1>6, <2>1 DEF AtOK, CallOK, FitsOK, k
  <2>3. PutOK(c)'
    BY <1>1, <1>2, <1>3, <1>6, <2>1 DEF PutOK, k
  <2>4. Good(c)'
    BY <1>1, <1>2, <1>3, <1>6, <2>1, <2>2, <2>3 DEF Good, k
  <2> QED  BY <1>2, <2>1, <2>4, HolderStep
<1>7. CASE ReadGoesOn(c, s) \/ ReadlinkGoesOn(c, s)
  <2> DEFINE string == IF k.name = "read" THEN read(s, k.off, k.size) ELSE s
  <2>1. /\ read(s, k.off, k.size) \in Seq(Bytes)
        /\ Len(read(s, k.off, k.size)) <= Len(s)
        /\ IsRead(s, k.off, k.size, read(s, k.off, k.size))
    BY <1>4, <1>5, ReadIsExact
  <2>2. Len(read(s, k.off, k.size)) <= MaxSize
    BY <1>4, <2>1, StringsAssumption
  <2>3. string \in Contents
    BY <1>4, <2>1, <2>2, ContentsAreStrings
  <2>4. /\ k.name = "read" => IsRead(s, k.off, k.size, string)
        /\ k.name = "readlink" => string = s
    BY <2>1
  <2>5. file_str' = [file_str EXCEPT ![c] = string] /\ at' = [at EXCEPT ![c] = "release"]
    BY <1>7 DEF ReadGoesOn, ReadlinkGoesOn, Becomes, k
  <2> HIDE DEF string
  <2> QED  BY <2>3, <2>4, <2>5, <1>6
<1>8. CASE WriteGoesOn(c, s)
  <2>0. /\ k.name = "write"
        /\ file_str' = [file_str EXCEPT ![c] = write(s, k.off, k.data)]
        /\ at' = [at EXCEPT ![c] = "put"]
    BY <1>8 DEF WriteGoesOn, Becomes, k
  <2>1. /\ write(s, k.off, k.data) \in Seq(Bytes)
        /\ Len(write(s, k.off, k.data)) = Larger(Len(s), k.off + Len(k.data))
        /\ write(s, k.off, k.data) = Written(s, k.off, k.data)
    BY <1>4, <1>5, WriteIsExact
  <2>2. k.off + Len(k.data) <= MaxSize
    BY <1>0, <1>1, <2>0 DEF Good, FitsOK, k
  <2>3. write(s, k.off, k.data) \in Contents
    <3>1. Larger(Len(s), k.off + Len(k.data)) <= MaxSize
      BY <1>4, <2>2 DEF Larger
    <3> QED  BY <2>1, <3>1, ContentsAreStrings
  <2> QED  BY <1>6, <2>0, <2>1, <2>3
<1>9. CASE /\ k.name = "setattr"
           /\ asize[c] <= k.size \/ k.size <= Len(s)
           /\ file_str' = [file_str EXCEPT ![c] = resize(s, asize[c], k.size)]
           /\ at' = [at EXCEPT ![c] = "put"]
  <2>1. Len(s) + k.size <= MaxSize + asize[c]
    BY <1>0, <1>1, <1>3, <1>9 DEF Good, FitsOK, k
  <2>2. resize(s, asize[c], k.size) \in Contents
    BY <1>4, <1>5, <1>9, <2>1, ResizeIsString
  <2>3. asize[c] = Len(s) => resize(s, asize[c], k.size) = Resized(s, k.size)
    BY <1>4, <1>5, ResizeIsExact
  <2> QED  BY <1>6, <1>9, <2>2, <2>3
<1>10. CASE /\ at' = [at EXCEPT ![c] = "terminated"]
            /\ file_str' = [file_str EXCEPT ![c] = file_str[c]]
  <2>1. file_str[c] \in Contents
    BY <1>0 DEF LocalTypeOK
  <2> QED  BY <1>6, <1>10, <2>1
<1> QED  BY <1>7, <1>8, <1>9, <1>10 DEF GetDone, SetattrResizes, Becomes, s, k

\* A step inside a call of extent_client.
LEMMA CacheStep ==
  ASSUME FInv, NEW c \in Clients, Step(c), pc[c] # "return", UNCHANGED fileVars,
         IInv'
  PROVE  FInv'
<1>0. /\ LocalTypeOK /\ Good(c) /\ TypeOK /\ IInv
  BY FInvParts DEF FInv, IInv
<1>1. UNCHANGED << type, at, call, asize, file_str >>
  BY DEF fileVars
<1>2. /\ pc[c] # "idle" /\ pc'[c] # "idle"
      /\ \A d \in Clients : d # c => pc'[d] = pc[d]
      /\ UNCHANGED << op, holders >>
  BY <1>0
  DEF TypeOK, Step, Return, GetReturns, GetattrReturns, FlushHandler,
      FlushReturns, GetAttrHandler, ServerGet, ServerGetReply, ServerRead,
      ServerPut, ServerGetattr, Goto, lockVars, callVars
<1>3. c \in holders
  BY <1>0, <1>2 DEF IInv, LockInv
<1>4. UNCHANGED content
  BY <1>0, ContentStep DEF Return
<1>5. /\ at[c] \in {"getattr", "get", "put"} /\ op[c].name = at[c]
      /\ at[c] = "put" => op[c].arg = file_str[c]
  BY <1>0, <1>2 DEF Good, AtOK
<1>6. CASE at[c] # "getattr"
  <2>1. AtOK(c)' /\ CallOK(c)' /\ PutOK(c)'
    BY <1>0, <1>1, <1>2, <1>3, <1>4, <1>5, <1>6 DEF Good, AtOK, CallOK, PutOK
  <2>2. FitsOK(c)'
    BY <1>0, <1>1, <1>4, <1>6 DEF Good, FitsOK
  <2>3. LocalTypeOK'
    BY <1>0, <1>1 DEF LocalTypeOK
  <2>4. Good(c)'
    BY <1>1, <1>5, <2>1, <2>2 DEF Good
  <2> QED  BY <1>1, <1>2, <1>3, <2>3, <2>4, HolderStep
<1>7. CASE at[c] = "getattr"
  <2>1. pc[c] \in {"getattr", "get_attr", "gotAttr"}
    BY <1>0, <1>2, <1>7 DEF Good, AtOK, InGetattr
  <2>2. ServerGetattr(c) \/ GetAttrHandler(c) \/ GetattrReturns(c)
    BY <2>1 DEF Step, Return, GetReturns, FlushHandler, FlushReturns, ServerGet,
      ServerGetReply, ServerPut
  <2>3. /\ pc'[c] \in InGetattr \cup {"idle", "return"}
        /\ pc'[c] = "return" => attr_stat'[c] = "OK"
        /\ call[c].name = "setattr" => KnownSizes' \subseteq KnownSizes
        /\ call[c].name = "setattr" /\ pc'[c] = "gotAttr" => attr'[c] \in KnownSizes'
    <3>1. CASE ServerGetattr(c)
      <4>1. UNCHANGED << file_attr, disk >>
        BY <3>1 DEF ServerGetattr, clientVars
      <4>2. UNCHANGED KnownSizes
        BY <4>1 DEF KnownSizes
      <4>3. /\ pc'[c] \in {"gotAttr", "get_attr"}
            /\ pc'[c] = "gotAttr" => attr'[c] = Size[disk]
        BY <3>1, <1>0 DEF ServerGetattr, Goto, TypeOK
      <4>4. Size[disk] \in KnownSizes
        BY DEF KnownSizes
      <4> QED  BY <4>2, <4>3, <4>4 DEF InGetattr
    <3>2. CASE GetAttrHandler(c)
      <4>1. UNCHANGED << file_attr, disk >>
        BY <3>2 DEF GetAttrHandler, clientVars, serverVars
      <4>2. UNCHANGED KnownSizes
        BY <4>1 DEF KnownSizes
      <4>3. pc'[c] = "gotAttr" /\ attr'[c] = file_attr[callee[c]]
        BY <3>2, <1>0 DEF GetAttrHandler, Goto, TypeOK
      <4>4. attr'[c] # Garbage
        BY <4>3 DEF IInv, AttrInv
      <4>5. callee[c] \in Clients
        BY <3>2, <1>0 DEF GetAttrHandler, IInv, CalleeInv, TypeOK
      <4>6. file_attr[callee[c]] \in KnownSizes
        BY <4>3, <4>4, <4>5 DEF KnownSizes
      <4> QED  BY <4>2, <4>3, <4>6 DEF InGetattr
    <3>3. CASE GetattrReturns(c)
      <4>1. /\ pc[c] = "gotAttr" /\ pc'[c] = "return" /\ attr_stat'[c] = "OK"
            /\ file_attr' = [file_attr EXCEPT ![c] = attr[c]] /\ disk' = disk
        BY <3>3, <1>0 DEF GetattrReturns, Goto, TypeOK, serverVars
      <4>2. call[c].name = "setattr" => attr[c] \in KnownSizes
        BY <4>1, <1>0, <1>7 DEF Good, FitsOK
      <4>3. \A d \in Clients : file_attr'[d] = IF d = c THEN attr[c] ELSE file_attr[d]
        BY <4>1, <1>0 DEF TypeOK
      <4>4. attr[c] \in KnownSizes => KnownSizes' \subseteq KnownSizes
        BY <4>1, <4>3 DEF KnownSizes
      <4> QED  BY <4>1, <4>2, <4>4
    <3> QED  BY <2>2, <3>1, <3>2, <3>3
  <2>4. AtOK(c)' /\ CallOK(c)' /\ PutOK(c)'
    BY <1>0, <1>1, <1>2, <1>3, <1>5, <1>7, <2>3 DEF Good, AtOK, CallOK, PutOK
  <2>5. FitsOK(c)'
    BY <1>0, <1>1, <1>4, <1>7, <2>3 DEF Good, FitsOK, Fits
  <2>6. LocalTypeOK'
    BY <1>0, <1>1 DEF LocalTypeOK
  <2>7. Good(c)'
    BY <1>1, <1>7, <2>4, <2>5 DEF Good
  <2> QED  BY <1>1, <1>2, <1>3, <2>6, <2>7, HolderStep
<1> QED  BY <1>6, <1>7
\* lc->acquire: the client that is granted the lock is outside an operation.
LEMMA AcquireLockStep ==
  ASSUME FInv, NEW c \in Clients, AcquireLock(c), IInv'
  PROVE  FInv'
<1>0. LocalTypeOK /\ \A d \in Clients : Good(d)
  BY FInvParts
<1>1. /\ UNCHANGED << type, at, call, asize, file_str, pc, op, attr, attr_stat, data_stat,
                      file_data, file_attr, disk >>
      /\ holders \subseteq holders'
  BY DEF AcquireLock, Lock!Request, Lock!Grant, Lock!RequestAndGrant, fileVars,
     clientVars, serverVars, callVars
<1>2. UNCHANGED content /\ UNCHANGED KnownSizes
  BY <1>1, SameContent DEF KnownSizes
<1>3. \A d \in Clients : Good(d)'
  BY <1>0, <1>1, <1>2 DEF Good, AtOK, CallOK, FitsOK, Fits, PutOK
<1>4. LocalTypeOK'
  BY <1>0, <1>1 DEF LocalTypeOK
<1> QED
  BY <1>3, <1>4 DEF FInv, IInv, FileTypeOK, LocalTypeOK, ReadsAreExact, Good

\* lc->release at the end of the operation.
LEMMA ReleaseLockStep ==
  ASSUME FInv, NEW c \in Clients, ReleaseLock(c), IInv'
  PROVE  FInv'
<1>0. LocalTypeOK /\ Good(c)
  BY FInvParts
<1>1. /\ at[c] = "release" /\ at' = [at EXCEPT ![c] = "idle"]
      /\ call' = [call EXCEPT ![c] = NoCall]
      /\ asize' = [asize EXCEPT ![c] = 0]
      /\ file_str' = [file_str EXCEPT ![c] = << >>]
      /\ UNCHANGED << pc, type >>
  BY DEF ReleaseLock
<1>2. c \in holders /\ pc[c] = "idle"
  BY <1>0, <1>1 DEF Good, AtOK
<1>3. << >> \in Contents
  BY ContentsAssumption, StringsAssumption
<1>4. /\ LocalTypeOK' /\ at'[c] = "idle"
      /\ \A d \in Clients : d # c => at'[d] = at[d] /\ pc'[d] = pc[d]
  BY <1>0, <1>1, <1>3 DEF LocalTypeOK
<1>5. Good(c)'
  BY <1>1, <1>2, <1>4, IdleIsGood
<1> QED  BY <1>2, <1>4, <1>5, HolderStep

\* FInv holds at the beginning.
LEMMA FileInitFInv == FileInit => FInv
<1> SUFFICES ASSUME FileInit PROVE FInv
  OBVIOUS
<1>1. IInv
  BY InitIInv DEF FileInit
<1>2. \A c \in Clients : pc[c] = "idle" /\ at[c] = "idle"
  BY DEF FileInit, Init
<1>3. << >> \in Contents
  BY ContentsAssumption, StringsAssumption
<1>4. LocalTypeOK
  BY <1>3 DEF FileInit, LocalTypeOK
<1>5. \A c \in Clients : Good(c)
  BY <1>2 DEF Good, AtOK, CallOK, FitsOK, PutOK
<1> QED  BY <1>1, <1>4, <1>5, FInvParts

\* Every step preserves FInv.
LEMMA FileNextStep ==
  ASSUME FInv, [FileNext]_fvars
  PROVE  FInv'
<1>0. IInv'
  BY KeepsStep, NextStep DEF FInv
<1>1. CASE UNCHANGED fvars
  <2>1. UNCHANGED << vars, type, at, call, asize, file_str >>
    BY <1>1 DEF fvars, fileVars
  <2>2. UNCHANGED content /\ UNCHANGED KnownSizes
    BY <2>1, SameState
  <2>3. UNCHANGED << pc, op, attr, attr_stat, holders >>
    BY <2>1 DEF vars, clientVars, lockVars, callVars
  <2>4. LocalTypeOK /\ \A d \in Clients : Good(d)
    BY FInvParts
  <2>5. \A d \in Clients : Good(d)'
    BY <2>1, <2>2, <2>3, <2>4 DEF Good, AtOK, CallOK, FitsOK, Fits, PutOK
  <2>6. LocalTypeOK'
    BY <2>1, <2>4 DEF LocalTypeOK
  <2> QED
    BY <1>0, <2>5, <2>6 DEF FInv, IInv, FileTypeOK, LocalTypeOK, ReadsAreExact, Good
<1>2. ASSUME NEW c \in Clients,
             \/ \E k \in Calls : Start(c, k)
             \/ AcquireLock(c) \/ Ask(c) \/ GetattrDone(c) \/ GetDone(c) \/ PutDone(c)
             \/ ReleaseLock(c)
             \/ Step(c) /\ pc[c] # "return" /\ UNCHANGED fileVars
      PROVE  FInv'
  BY <1>0, <1>2, StartStep, AcquireLockStep, AskStep, GetattrDoneStep, GetDoneStep,
     PutDoneStep, ReleaseLockStep, CacheStep
<1> QED  BY <1>1, <1>2 DEF FileNext

-----------------------------------------------------------------------------
(***************************************************************************)
(* Theorems                                                                *)
(***************************************************************************)

\* FInv is an inductive invariant of the operations on a file.
THEOREM FileInvariance == FileSpec => []FInv
<1>1. FileInit => FInv
  BY FileInitFInv
<1>2. FInv /\ [FileNext]_fvars => FInv'
  BY FileNextStep
<1> QED  BY <1>1, <1>2, PTL DEF FileSpec

\* Every variable keeps its type: the strings that the operations make are
\* contents.
THEOREM FileTypeCorrect == FileSpec => []FileTypeOK
<1>1. FInv => FileTypeOK
  BY DEF FInv
<1> QED  BY <1>1, FileInvariance, PTL

\* read and readlink return what is in the file while they hold its lock.
THEOREM ExactReads == FileSpec => []ReadsAreExact
<1>1. FInv => ReadsAreExact
  BY DEF FInv
<1> QED  BY <1>1, FileInvariance, PTL

\* A file changes only by a write that puts its bytes in their place, or by a
\* setattr that, told the right size, cuts the end or adds zeros.
THEOREM ExactChanges == FileSpec => ChangesAreExact
<1> DEFINE Change ==
      content' # content =>
        \E c \in holders :
          \/ /\ call[c].name = "write"
             /\ content' = Written(content, call[c].off, call[c].data)
          \/ /\ call[c].name = "setattr"
             /\ asize[c] = Len(content) =>
                  content' = Resized(content, call[c].size)
<1>1. FInv /\ FInv' /\ [FileNext]_fvars => [Change]_fvars
  <2> SUFFICES ASSUME FInv, FInv', [FileNext]_fvars, content' # content
               PROVE  Change
    OBVIOUS
  <2>1. UNCHANGED vars => UNCHANGED content
    BY SameState
  <2>2. ~UNCHANGED fvars
    BY <2>1 DEF fvars
  <2>3. PICK c \in Clients :
             \/ \E k \in Calls : Start(c, k)
             \/ AcquireLock(c) \/ Ask(c) \/ GetattrDone(c) \/ GetDone(c) \/ PutDone(c)
             \/ ReleaseLock(c)
             \/ Step(c) /\ pc[c] # "return" /\ UNCHANGED fileVars
    BY <2>2 DEF FileNext
  <2>4. IInv /\ IInv' /\ Good(c) /\ LocalTypeOK
    BY FInvParts DEF FInv
  <2>5. CASE \/ \E k \in Calls : Start(c, k)
             \/ AcquireLock(c) \/ Ask(c) \/ ReleaseLock(c)
    <3>1. UNCHANGED << data_stat, file_data, disk >>
      BY <2>5
      DEF Start, AcquireLock, Ask, ReleaseLock, get, getattr, put, Begin, vars,
          clientVars, serverVars
    <3> QED  BY <3>1, SameContent
  <2>6. CASE GetattrDone(c) \/ GetDone(c)
    BY <2>6, <2>4, ReturnFacts DEF GetattrDone, GetDone
  <2>7. CASE Step(c) /\ pc[c] # "return"
    BY <2>7, <2>4, ContentStep DEF Return
  <2>8. CASE PutDone(c)
    <3>1. /\ at[c] = "put" /\ c \in holders
          /\ content' = content \/ content' = file_str[c]
      BY <2>8, <2>4, ReturnFacts DEF PutDone
    <3>2. /\ call[c].name \in {"write", "setattr"} /\ PutOK(c)
      BY <2>4, <3>1 DEF Good, CallOK
    <3> QED  BY <3>1, <3>2 DEF PutOK
  <2> QED  BY <2>3, <2>5, <2>6, <2>7, <2>8
<1> QED  BY <1>1, FileInvariance, PTL DEF FileSpec, ChangesAreExact
=============================================================================
