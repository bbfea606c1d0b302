--------------------------- MODULE RpcCallsProofs ---------------------------
(***************************************************************************)
(* Proofs about RpcCalls, for any finite set of clients and pools and      *)
(* queues of any size.                                                     *)
(***************************************************************************)
EXTENDS RpcCallsInv, MarshallProofs, FiniteSetTheorems, SequenceTheorems, TLAPS

-----------------------------------------------------------------------------
(***************************************************************************)
(* Stacks                                                                  *)
(***************************************************************************)

\* A request with some of its fields changed is a request.
LEMMA FrameExcept ==
  ASSUME NEW f, IsFrame(f), NEW v
  PROVE  LET g == [f EXCEPT !.pc = v]
         IN /\ IsFrame(g)
            /\ g.proc = f.proc /\ g.to = f.to /\ g.pc = v /\ g.dest = f.dest
  BY DEF IsFrame

LEMMA FrameOfRequest ==
  ASSUME NEW c, NEW p, NEW e, NEW n
  PROVE  LET g == Request(c, p, e, n)
         IN /\ IsFrame(g)
            /\ g.proc = p /\ g.to = e /\ g.pc = "sent" /\ g.dest = Server
  BY DEF IsFrame, Request

\* The names of the procedures.
LEMMA CallsAreProcs ==
  {"acquire", "release", "create", "get", "getattr", "stat", "revoke", "retry",
   "flush", "get_attr", "put"} \subseteq Procs
  BY DEF Procs, lock_protocol, rlock_protocol, extent_protocol,
         rextent_protocol

\* What the pieces that stacks are made of look like.
LEMMA FrontFacts ==
  ASSUME NEW s, IsSeq(s), s # << >>
  PROVE  /\ Len(s) \in Nat /\ Len(s) > 0
         /\ IsSeq(Front(s))
         /\ Len(Front(s)) = Len(s) - 1
         /\ \A i \in 1 .. Len(s) - 1 : Front(s)[i] = s[i]
  BY DEF Front, IsSeq

LEMMA AppendFacts ==
  ASSUME NEW s, IsSeq(s), NEW f
  PROVE  /\ IsSeq(s \o << f >>)
         /\ Len(s \o << f >>) = Len(s) + 1
         /\ \A i \in 1 .. Len(s) : (s \o << f >>)[i] = s[i]
         /\ (s \o << f >>)[Len(s) + 1] = f
  BY DEF IsSeq

LEMMA ReplaceLast ==
  ASSUME NEW s, IsSeq(s), s # << >>, NEW f
  PROVE  /\ Len(s) \in Nat /\ Len(s) > 0
         /\ IsSeq(Front(s) \o << f >>)
         /\ Len(Front(s) \o << f >>) = Len(s)
         /\ \A i \in 1 .. Len(s) :
              (Front(s) \o << f >>)[i] = IF i = Len(s) THEN f ELSE s[i]
<1> DEFINE t == Front(s)
<1>1. /\ Len(s) \in Nat /\ Len(s) > 0 /\ IsSeq(t) /\ Len(t) = Len(s) - 1
      /\ \A i \in 1 .. Len(s) - 1 : t[i] = s[i]
  BY FrontFacts
<1> HIDE DEF t
<1>2. /\ IsSeq(t \o << f >>) /\ Len(t \o << f >>) = Len(t) + 1
      /\ \A i \in 1 .. Len(t) : (t \o << f >>)[i] = t[i]
      /\ (t \o << f >>)[Len(t) + 1] = f
  BY <1>1, AppendFacts, ZenonT(60)
<1>3. \A i \in 1 .. Len(s) : (t \o << f >>)[i] = IF i = Len(s) THEN f ELSE s[i]
  BY <1>1, <1>2
<1> QED
  BY <1>1, <1>2, <1>3 DEF t

LEMMA ReplaceLastByTwo ==
  ASSUME NEW s, IsSeq(s), s # << >>, NEW f, NEW g
  PROVE  /\ IsSeq(Front(s) \o << f, g >>)
         /\ Len(Front(s) \o << f, g >>) = Len(s) + 1
         /\ \A i \in 1 .. Len(s) + 1 :
              (Front(s) \o << f, g >>)[i] =
                 IF i = Len(s) + 1 THEN g ELSE IF i = Len(s) THEN f ELSE s[i]
  BY DEF Front, IsSeq

\* Frames and Frame, for a pair.
LEMMA FramesAsPairs ==
  ASSUME NEW c, NEW n
  PROVE  /\ << c, n >> \in Frames <=> c \in Clients /\ n \in 1 .. 4 /\ n <= Len(stack[c])
         /\ Frame(<< c, n >>) = stack[c][n]
<1> DEFINE x == << c, n >>
<1>1. x[1] = c /\ x[2] = n
  OBVIOUS
<1>2. x \in Clients \X (1 .. 4) <=> c \in Clients /\ n \in 1 .. 4
  OBVIOUS
<1> HIDE DEF x
<1>3. x \in Frames <=> c \in Clients /\ n \in 1 .. 4 /\ n <= Len(stack[c])
  BY <1>1, <1>2 DEF Frames
<1>4. Frame(x) = stack[c][n]
  BY <1>1 DEF Frame
<1> QED
  BY <1>3, <1>4 DEF x

\* The place of a caller's innermost request, in terms of Frames.
TopPlace(c) == << c, Len(stack[c]) >>

LEMMA TopIsFrame ==
  ASSUME StackInv, NEW c \in Clients, stack[c] # << >>
  PROVE  /\ Len(stack[c]) \in 1 .. 4
         /\ TopPlace(c) \in Frames
         /\ Top(c) = Frame(TopPlace(c))
         /\ IsFrame(Top(c))
<1>1. Len(stack[c]) \in 1 .. 4
  <2> DEFINE n == Len(stack[c])
  <2>1. IsSeq(stack[c]) /\ n <= 4
    BY DEF StackInv
  <2>2. n \in Nat /\ n > 0
    BY <2>1, FrontFacts
  <2> HIDE DEF n
  <2>3. n \in 1 .. 4
    BY <2>1, <2>2
  <2> QED
    BY <2>3 DEF n
<1>2. TopPlace(c) \in Frames
  BY <1>1, FramesAsPairs DEF TopPlace
<1>3. Top(c) = Frame(TopPlace(c))
  BY DEF Top, Last, Frame, TopPlace
<1> QED
  BY <1>1, <1>2, <1>3 DEF StackInv

\* A step that changes the innermost request of c to f, and nothing else.
TopBecomes(c, f) ==
  /\ Frames' = Frames
  /\ \A d \in Clients : Len(stack'[d]) = Len(stack[d])
  /\ \A d \in Clients : d # c => stack'[d] = stack[d]
  /\ \A d \in Clients : (stack'[d] = << >>) <=> (stack[d] = << >>)
  /\ \A x \in Frames : Frame(x)' = IF x = TopPlace(c) THEN f ELSE Frame(x)
  /\ \A d \in Clients : stack[d] # << >> => Top(d)' = IF d = c THEN f ELSE Top(d)

LEMMA SetTopFacts ==
  ASSUME StackInv, NEW c \in Clients, stack[c] # << >>, NEW f, IsFrame(f),
         SetTop(c, f), UNCHANGED kind
  PROVE  StackInv' /\ TopBecomes(c, f)
<1> DEFINE n == Len(stack[c])
<1>1. n \in 1 .. 4
  BY TopIsFrame
<1>2. /\ IsSeq(stack'[c]) /\ Len(stack'[c]) = n
      /\ \A i \in 1 .. n : stack'[c][i] = IF i = n THEN f ELSE stack[c][i]
  BY ReplaceLast DEF SetTop, StackInv
<1>3. \A d \in Clients : d # c => stack'[d] = stack[d]
  BY DEF SetTop, StackInv
<1>4. DOMAIN stack' = Clients
  BY DEF SetTop, StackInv
<1>5. \A d \in Clients : Len(stack'[d]) = Len(stack[d])
  BY <1>1, <1>2, <1>3
<1>6. Frames' = Frames
  BY <1>5 DEF Frames
<1>7. \A x \in Frames : Frame(x)' = IF x = TopPlace(c) THEN f ELSE Frame(x)
  BY <1>1, <1>2, <1>3 DEF Frame, Frames, TopPlace
<1>8. \A d \in Clients : (stack'[d] = << >>) <=> (stack[d] = << >>)
  BY <1>1, <1>2, <1>3
<1>9. \A d \in Clients : stack[d] # << >> => Top(d)' = IF d = c THEN f ELSE Top(d)
  BY <1>1, <1>2, <1>3 DEF Top, Last
<1>10. StackInv'
  <2>1. \A d \in Clients : IsSeq(stack'[d]) /\ Len(stack'[d]) <= 4
    BY <1>1, <1>2, <1>3, <1>5 DEF StackInv
  <2>2. \A x \in Frames' : IsFrame(Frame(x)')
    BY <1>6, <1>7 DEF StackInv
  <2> QED
    BY <1>4, <2>1, <2>2 DEF StackInv, IsFrame, IsSeq
<1> QED
  BY <1>3, <1>5, <1>6, <1>7, <1>8, <1>9, <1>10 DEF TopBecomes

\* A step that changes the innermost request of c to f and puts g on it.
CallsFrom(c, f, g) ==
  LET new == << c, Len(stack[c]) + 1 >> IN
  /\ new \notin Frames
  /\ Frames' = Frames \cup {new}
  /\ Len(stack'[c]) = Len(stack[c]) + 1
  /\ \A d \in Clients : d # c => stack'[d] = stack[d]
  /\ \A d \in Clients : (stack'[d] = << >>) <=> (stack[d] = << >>)
  /\ \A x \in Frames : Frame(x)' = IF x = TopPlace(c) THEN f ELSE Frame(x)
  /\ \A x : x = new => Frame(x)' = g
  /\ \A d \in Clients : stack[d] # << >> => Top(d)' = IF d = c THEN g ELSE Top(d)

LEMMA PushFacts ==
  ASSUME StackInv, NEW c \in Clients, stack[c] # << >>, Len(stack[c]) < 4,
         NEW f, IsFrame(f), NEW g, IsFrame(g),
         stack' = [stack EXCEPT ![c] = Front(@) \o << f, g >>], UNCHANGED kind
  PROVE  StackInv' /\ CallsFrom(c, f, g)
<1> DEFINE n == Len(stack[c])
           new == << c, n + 1 >>
<1>1. n \in 1 .. 3
  BY TopIsFrame
<1>2. /\ IsSeq(stack'[c]) /\ Len(stack'[c]) = n + 1
      /\ \A i \in 1 .. n + 1 :
           stack'[c][i] = IF i = n + 1 THEN g ELSE IF i = n THEN f ELSE stack[c][i]
  BY ReplaceLastByTwo DEF StackInv
<1>3. \A d \in Clients : d # c => stack'[d] = stack[d]
  BY DEF StackInv
<1>4. DOMAIN stack' = Clients
  BY DEF StackInv
<1>6. new \notin Frames /\ Frames' = Frames \cup {new}
  <2>1. new \notin Frames
    BY <1>1, FramesAsPairs
  <2>2. \A d \in Clients : \A i \in 1 .. 4 :
          i <= Len(stack'[d]) <=> i <= Len(stack[d]) \/ << d, i >> = new
    BY <1>1, <1>2, <1>3
  <2>3. \A x \in Clients \X (1 .. 4) :
          x[2] <= Len(stack'[x[1]]) <=> x[2] <= Len(stack[x[1]]) \/ x = new
    BY <2>2
  <2>4. new \in Clients \X (1 .. 4)
    BY <1>1
  <2> HIDE DEF new
  <2> QED
    BY <2>1, <2>3, <2>4 DEF Frames
<1>7. \A x \in Frames : Frame(x)' = IF x = TopPlace(c) THEN f ELSE Frame(x)
  BY <1>1, <1>2, <1>3 DEF Frame, Frames, TopPlace
<1>8. \A x : x = new => Frame(x)' = g
  <2>1. stack'[c][n + 1] = g
    <3>1. n + 1 \in 1 .. n + 1
      BY <1>1
    <3> QED
      BY <1>2, <3>1
  <2>2. new[1] = c /\ new[2] = n + 1
    OBVIOUS
  <2> HIDE DEF new
  <2> QED
    BY <2>1, <2>2 DEF Frame
<1>9. \A d \in Clients : (stack'[d] = << >>) <=> (stack[d] = << >>)
  BY <1>1, <1>2, <1>3
<1>10. \A d \in Clients : stack[d] # << >> => Top(d)' = IF d = c THEN g ELSE Top(d)
  BY <1>1, <1>2, <1>3 DEF Top, Last
<1>11. StackInv'
  <2>1. \A d \in Clients : IsSeq(stack'[d]) /\ Len(stack'[d]) <= 4
    BY <1>1, <1>2, <1>3 DEF StackInv
  <2>2. \A x \in Frames' : IsFrame(Frame(x)')
    <3> HIDE DEF new
    <3> QED
      BY <1>6, <1>7, <1>8 DEF StackInv
  <2> QED
    BY <1>4, <2>1, <2>2 DEF StackInv, IsFrame, IsSeq
<1> QED
  BY <1>2, <1>3, <1>6, <1>7, <1>8, <1>9, <1>10, <1>11 DEF CallsFrom

\* A step that takes the innermost request of c off, with the one below it
\* changed to g.
ReturnsTo(c, g) ==
  LET below == << c, Len(stack[c]) - 1 >> IN
  /\ below \in Frames
  /\ Frames' = Frames \ {TopPlace(c)}
  /\ Len(stack'[c]) = Len(stack[c]) - 1
  /\ \A d \in Clients : d # c => stack'[d] = stack[d]
  /\ \A d \in Clients : (stack'[d] = << >>) <=> (stack[d] = << >>)
  /\ \A x \in Frames' : Frame(x)' = IF x = below THEN g ELSE Frame(x)
  /\ \A d \in Clients : stack[d] # << >> => Top(d)' = IF d = c THEN g ELSE Top(d)

LEMMA PopFacts ==
  ASSUME StackInv, NEW c \in Clients, stack[c] # << >>, Front(stack[c]) # << >>,
         NEW g, IsFrame(g),
         stack' = [stack EXCEPT ![c] = Front(Front(stack[c])) \o << g >>],
         UNCHANGED kind
  PROVE  StackInv' /\ ReturnsTo(c, g)
<1> DEFINE n == Len(stack[c])
           low == Front(stack[c])
           below == << c, n - 1 >>
<1>1. /\ n \in 2 .. 4 /\ IsSeq(low) /\ Len(low) = n - 1
      /\ \A i \in 1 .. n - 1 : low[i] = stack[c][i]
  <2>1. n \in 1 .. 4
    BY TopIsFrame
  <2>2. IsSeq(stack[c])
    BY DEF StackInv
  <2>3. /\ IsSeq(low) /\ Len(low) = n - 1
        /\ \A i \in 1 .. n - 1 : low[i] = stack[c][i]
    BY <2>2, FrontFacts
  <2>4. low # << >>
    OBVIOUS
  <2>5. Len(low) \in Nat /\ Len(low) > 0
    <3> HIDE DEF low
    <3> QED
      BY <2>3, <2>4, FrontFacts
  <2> HIDE DEF low, n
  <2>6. n \in 2 .. 4
    BY <2>1, <2>3, <2>5
  <2> QED
    BY <2>3, <2>6 DEF n
<1>2. /\ IsSeq(stack'[c]) /\ Len(stack'[c]) = n - 1
      /\ \A i \in 1 .. n - 1 : stack'[c][i] = IF i = n - 1 THEN g ELSE stack[c][i]
  <2>1. stack'[c] = Front(low) \o << g >>
    BY DEF StackInv
  <2>2. low # << >>
    OBVIOUS
  <2> HIDE DEF low
  <2>3. /\ IsSeq(stack'[c]) /\ Len(stack'[c]) = Len(low)
        /\ \A i \in 1 .. Len(low) : stack'[c][i] = IF i = Len(low) THEN g ELSE low[i]
    <3> DEFINE t == Front(low) \o << g >>
    <3>1. /\ IsSeq(t) /\ Len(t) = Len(low)
          /\ \A i \in 1 .. Len(low) : t[i] = IF i = Len(low) THEN g ELSE low[i]
      BY <1>1, <2>2, ReplaceLast
    <3> QED
      BY <2>1, <3>1
  <2> QED
    BY <1>1, <2>3
<1>3. \A d \in Clients : d # c => stack'[d] = stack[d]
  BY DEF StackInv
<1>4. DOMAIN stack' = Clients
  BY DEF StackInv
<1>6. below \in Frames /\ Frames' = Frames \ {TopPlace(c)}
  <2>1. below \in Frames
    BY <1>1, FramesAsPairs
  <2>2. \A d \in Clients : \A i \in 1 .. 4 :
          i <= Len(stack'[d]) <=> i <= Len(stack[d]) /\ << d, i >> # << c, n >>
    BY <1>1, <1>2, <1>3
  <2>3. \A x \in Clients \X (1 .. 4) :
          x[2] <= Len(stack'[x[1]]) <=> x[2] <= Len(stack[x[1]]) /\ x # TopPlace(c)
    <3> SUFFICES ASSUME NEW x \in Clients \X (1 .. 4)
                 PROVE  x[2] <= Len(stack'[x[1]])
                          <=> x[2] <= Len(stack[x[1]]) /\ x # TopPlace(c)
      OBVIOUS
    <3>1. x[1] \in Clients /\ x[2] \in 1 .. 4 /\ x = << x[1], x[2] >>
      OBVIOUS
    <3> QED
      BY <2>2, <3>1 DEF TopPlace
  <2> HIDE DEF below
  <2> QED
    BY <2>1, <2>3 DEF Frames
<1>7. \A x \in Frames' : Frame(x)' = IF x = below THEN g ELSE Frame(x)
  <2>1. \A d \in Clients : \A i \in 1 .. 4 :
          i <= Len(stack'[d]) =>
            stack'[d][i] = IF << d, i >> = below THEN g ELSE stack[d][i]
    BY <1>1, <1>2, <1>3
  <2> QED
    <3> SUFFICES ASSUME NEW x \in Frames'
                 PROVE  Frame(x)' = IF x = below THEN g ELSE Frame(x)
      OBVIOUS
    <3>1. x[1] \in Clients /\ x[2] \in 1 .. 4 /\ x = << x[1], x[2] >>
      BY DEF Frames
    <3> HIDE DEF below
    <3> QED
      BY <2>1, <3>1 DEF Frame, Frames
<1>9. \A d \in Clients : (stack'[d] = << >>) <=> (stack[d] = << >>)
  BY <1>1, <1>2, <1>3
<1>10. \A d \in Clients : stack[d] # << >> => Top(d)' = IF d = c THEN g ELSE Top(d)
  BY <1>1, <1>2, <1>3 DEF Top, Last
<1>11. StackInv'
  <2>1. \A d \in Clients : IsSeq(stack'[d]) /\ Len(stack'[d]) <= 4
    BY <1>1, <1>2, <1>3 DEF StackInv
  <2>2. \A x \in Frames' : IsFrame(Frame(x)')
    BY <1>6, <1>7 DEF StackInv
  <2> QED
    BY <1>4, <2>1, <2>2 DEF StackInv, IsFrame, IsSeq
<1> QED
  BY <1>2, <1>3, <1>6, <1>7, <1>9, <1>10, <1>11 DEF ReturnsTo

\* A step that gives the idle caller c its first request g.
StartsWith(c, g) ==
  LET new == << c, 1 >> IN
  /\ new \notin Frames
  /\ Frames' = Frames \cup {new}
  /\ Len(stack'[c]) = 1
  /\ \A d \in Clients : d # c => stack'[d] = stack[d]
  /\ \A x \in Frames : Frame(x)' = Frame(x)
  /\ \A x : x = new => Frame(x)' = g

LEMMA StartFacts ==
  ASSUME StackInv, NEW c \in Clients, stack[c] = << >>, NEW g, IsFrame(g),
         stack' = [stack EXCEPT ![c] = << g >>], UNCHANGED kind
  PROVE  StackInv' /\ StartsWith(c, g)
<1> DEFINE new == << c, 1 >>
<1>1. stack'[c] = << g >> /\ Len(stack[c]) = 0
  BY DEF StackInv
<1>2. IsSeq(stack'[c]) /\ Len(stack'[c]) = 1 /\ stack'[c][1] = g
  BY <1>1 DEF IsSeq
<1>3. \A d \in Clients : d # c => stack'[d] = stack[d]
  BY DEF StackInv
<1>4. DOMAIN stack' = Clients
  BY DEF StackInv
<1>5. new \notin Frames /\ Frames' = Frames \cup {new}
  <2>1. new \notin Frames
    BY <1>1, FramesAsPairs
  <2>2. \A d \in Clients : \A i \in 1 .. 4 :
          i <= Len(stack'[d]) <=> i <= Len(stack[d]) \/ << d, i >> = new
    BY <1>1, <1>2, <1>3
  <2>3. \A x \in Clients \X (1 .. 4) :
          x[2] <= Len(stack'[x[1]]) <=> x[2] <= Len(stack[x[1]]) \/ x = new
    BY <2>2
  <2>4. new \in Clients \X (1 .. 4)
    OBVIOUS
  <2> HIDE DEF new
  <2> QED
    BY <2>1, <2>3, <2>4 DEF Frames
<1>6. \A x \in Frames : Frame(x)' = Frame(x)
  BY <1>1, <1>3 DEF Frame, Frames
<1>7. \A x : x = new => Frame(x)' = g
  BY <1>2 DEF Frame
<1>8. StackInv'
  <2>1. \A d \in Clients : IsSeq(stack'[d]) /\ Len(stack'[d]) <= 4
    BY <1>2, <1>3 DEF StackInv
  <2>2. \A x \in Frames' : IsFrame(Frame(x)')
    <3> HIDE DEF new
    <3> QED
      BY <1>5, <1>6, <1>7 DEF StackInv
  <2> QED
    BY <1>4, <2>1, <2>2 DEF StackInv, IsFrame, IsSeq
<1> QED
  BY <1>2, <1>3, <1>5, <1>6, <1>7, <1>8 DEF StartsWith

\* A step that takes the only request of c off.
Ends(c) ==
  /\ Frames' = Frames \ {TopPlace(c)}
  /\ stack'[c] = << >>
  /\ \A d \in Clients : d # c => stack'[d] = stack[d]
  /\ \A x \in Frames' : Frame(x)' = Frame(x)

LEMMA EndFacts ==
  ASSUME StackInv, NEW c \in Clients, stack[c] # << >>, Front(stack[c]) = << >>,
         stack' = [stack EXCEPT ![c] = << >>], UNCHANGED kind
  PROVE  StackInv' /\ Ends(c)
<1>1. Len(stack[c]) = 1
  <2> DEFINE n == Len(stack[c])
  <2>1. n \in Nat /\ Len(Front(stack[c])) = n - 1
    BY FrontFacts DEF StackInv
  <2>2. Len(Front(stack[c])) = 0
    OBVIOUS
  <2> HIDE DEF n
  <2>3. n = 1
    BY <2>1, <2>2
  <2> QED
    BY <2>3 DEF n
<1>2. stack'[c] = << >> /\ Len(stack'[c]) = 0 /\ IsSeq(stack'[c])
  <2>1. stack'[c] = << >>
    BY DEF StackInv
  <2> QED
    BY <2>1 DEF IsSeq
<1>3. \A d \in Clients : d # c => stack'[d] = stack[d]
  BY DEF StackInv
<1>4. DOMAIN stack' = Clients
  BY DEF StackInv
<1>5. Frames' = Frames \ {TopPlace(c)}
  <2>1. \A d \in Clients : \A i \in 1 .. 4 :
          i <= Len(stack'[d]) <=> i <= Len(stack[d]) /\ ~ (d = c /\ i = 1)
    <3> TAKE d \in Clients
    <3>1. CASE d # c
      BY <1>3, <3>1
    <3>2. CASE d = c
      <4>1. Len(stack'[d]) = 0 /\ Len(stack[d]) = 1
        BY <1>1, <1>2, <3>2
      <4> QED
        BY <3>2, <4>1
    <3> QED
      BY <3>1, <3>2
  <2>2. \A x \in Clients \X (1 .. 4) :
          x[2] <= Len(stack'[x[1]]) <=> x[2] <= Len(stack[x[1]]) /\ x # << c, 1 >>
    BY <2>1
  <2> QED
    BY <1>1, <2>2 DEF Frames, TopPlace
<1>6. \A x \in Frames' : Frame(x)' = Frame(x)
  BY <1>2, <1>3 DEF Frame, Frames
<1>7. StackInv'
  <2>1. \A d \in Clients : IsSeq(stack'[d]) /\ Len(stack'[d]) <= 4
    BY <1>2, <1>3 DEF StackInv
  <2>2. \A x \in Frames' : IsFrame(Frame(x)')
    BY <1>5, <1>6 DEF StackInv
  <2> QED
    BY <1>4, <2>1, <2>2 DEF StackInv, IsFrame, IsSeq
<1> QED
  BY <1>2, <1>3, <1>5, <1>6, <1>7 DEF Ends

-----------------------------------------------------------------------------
(***************************************************************************)
(* Counting                                                                *)
(***************************************************************************)

LEMMA FramesAreFinite ==
  IsFiniteSet(Frames)
<1>1. IsFiniteSet(Clients)
  BY DestinationsAssumption DEF Clients
<1>2. IsFiniteSet(1 .. 4)
  BY FS_Interval, 1 \in Int, 4 \in Int
<1>3. IsFiniteSet(Clients \X (1 .. 4))
  BY <1>1, <1>2, FS_Product
<1> QED
  BY <1>3, FS_Subset DEF Frames

\* The requests that have a thread of e.
Busy(e) ==
  {x \in Frames : Frame(x).to = e /\ Frame(x).pc \notin {"sent", "queued"}}

Threads ==
  \A e \in Endpoints : asleep[e] + awake[e] + Cardinality(Busy(e)) = PoolSize

LEMMA BusyIsFinite ==
  ASSUME NEW e
  PROVE  IsFiniteSet(Busy(e)) /\ Cardinality(Busy(e)) \in Nat
  BY FramesAreFinite, FS_Subset, FS_CardinalityType DEF Busy

LEMMA HoldersAreFinite ==
  ASSUME NEW m
  PROVE  IsFiniteSet(Holders(m)) /\ Cardinality(Holders(m)) \in Nat
  BY FramesAreFinite, FS_Subset, FS_CardinalityType DEF Holders

\* Only the first and the third request of a caller have a handle.
LEMMA HoldersAreFew ==
  ASSUME ShapeInv, NEW m \in Clients
  PROVE  Cardinality(Holders(m)) <= 2 * Cardinality(Clients)
<1> DEFINE P == Clients \X {1, 3}
<1>1. IsFiniteSet(Clients) /\ Cardinality(Clients) \in Nat
  BY DestinationsAssumption, FS_CardinalityType DEF Clients
<1>2. IsFiniteSet({1, 3}) /\ Cardinality({1, 3}) = 2
  <2>1. IsFiniteSet({1}) /\ Cardinality({1}) = 1
    BY FS_Singleton
  <2>2. {1, 3} = {1} \cup {3} /\ 3 \notin {1}
    OBVIOUS
  <2> QED
    BY <2>1, <2>2, FS_AddElement
<1>3. IsFiniteSet(P) /\ Cardinality(P) = Cardinality(Clients) * Cardinality({1, 3})
  BY <1>1, <1>2, FS_Product
<1>4. Holders(m) \subseteq P
  BY DEF Holders, Frames, ShapeInv, FrameOK
<1>5. Cardinality(Holders(m)) <= Cardinality(P)
  BY <1>3, <1>4, FS_Subset
<1> HIDE DEF P
<1> QED
  BY <1>1, <1>2, <1>3, <1>5

\* A client that a thread has a handle for is in the map, and counted.
LEMMA HolderIsCounted ==
  ASSUME HandleInv, HandlesAreCounted, NEW m \in Clients, NEW x \in Holders(m)
  PROVE  HasInfo(m) /\ hmap[m].refcnt \in Nat /\ hmap[m].refcnt >= 1
<1> DEFINE n == Cardinality(Holders(m))
<1>1. n \in Nat
  BY HoldersAreFinite
<1>2. n # 0
  BY HoldersAreFinite, FS_EmptySet
<1>3. n = IF HasInfo(m) THEN hmap[m].refcnt ELSE 0
  BY DEF HandlesAreCounted
<1> HIDE DEF n
<1> QED
  BY <1>1, <1>2, <1>3

-----------------------------------------------------------------------------
(***************************************************************************)
(* What a change of the stacks leaves of the invariant                     *)
(***************************************************************************)

\* A caller whose innermost request is not queued is in no queue.
LEMMA QueueKept ==
  ASSUME QueueInv, NEW c \in Clients, stack[c] = << >> \/ Top(c).pc # "queued",
         UNCHANGED jobq, \A d \in Clients : d # c => stack'[d] = stack[d]
  PROVE  QueueInv'
<1>1. \A e \in Endpoints : \A n \in 1 .. Len(jobq[e]) :
        jobq[e][n] \in Clients /\ jobq[e][n] # c
  BY DEF QueueInv
<1>2. \A d \in Clients : d # c => Top(d)' = Top(d)
  BY DEF Top
<1> QED
  BY <1>1, <1>2 DEF QueueInv

LEMMA ShapeAtTop ==
  ASSUME StackInv, ShapeInv, NEW c \in Clients, stack[c] # << >>, NEW f,
         TopBecomes(c, f), FrameOK(Len(stack[c]), f), f.pc # "calling"
  PROVE  ShapeInv'
<1>1. TopPlace(c)[1] = c /\ TopPlace(c)[2] = Len(stack[c])
  BY DEF TopPlace
<1>2. \A x \in Frames : x[1] \in Clients
  BY DEF Frames
<1>3. Len(stack[c]) \in 1 .. 4
  BY TopIsFrame
<1>4. \A x \in Frames' : FrameOK(x[2], Frame(x)')
  BY <1>1 DEF ShapeInv, TopBecomes
<1>5. \A x \in Frames' : Frame(x)'.pc = "calling" <=> x[2] < Len(stack'[x[1]])
  BY <1>1, <1>2, <1>3 DEF ShapeInv, TopBecomes
<1> QED
  BY <1>4, <1>5 DEF ShapeInv, FrameOK

LEMMA ShapeAtCall ==
  ASSUME StackInv, ShapeInv, NEW c \in Clients, stack[c] # << >>, NEW f, NEW g,
         CallsFrom(c, f, g), FrameOK(Len(stack[c]), f), f.pc = "calling",
         FrameOK(Len(stack[c]) + 1, g), g.pc # "calling"
  PROVE  ShapeInv'
<1> DEFINE n == Len(stack[c])
           new == << c, n + 1 >>
<1>1. TopPlace(c)[1] = c /\ TopPlace(c)[2] = n /\ new[1] = c /\ new[2] = n + 1
  BY DEF TopPlace
<1>2. \A x \in Frames : x[1] \in Clients /\ x[2] \in 1 .. 4 /\ x = << x[1], x[2] >>
                        /\ x[2] <= Len(stack[x[1]])
  BY DEF Frames
<1>3. n \in 1 .. 4
  BY TopIsFrame
<1>4. \A x \in Frames' : x = new \/ x \in Frames
  BY DEF CallsFrom
<1>5. \A x \in Frames : Frame(x)' = IF x = TopPlace(c) THEN f ELSE Frame(x)
  BY DEF CallsFrom
<1>6. \A x : x = new => Frame(x)' = g
  BY DEF CallsFrom
<1>7. \A d \in Clients : Len(stack'[d]) = IF d = c THEN n + 1 ELSE Len(stack[d])
  BY DEF CallsFrom
<1>8. \A x \in Frames' : FrameOK(x[2], Frame(x)')
  <2> HIDE DEF new, n
  <2> QED
    BY <1>1, <1>4, <1>5, <1>6 DEF ShapeInv, n
<1>9. \A x \in Frames' : Frame(x)'.pc = "calling" <=> x[2] < Len(stack'[x[1]])
  <2> SUFFICES ASSUME NEW x \in Frames'
               PROVE  Frame(x)'.pc = "calling" <=> x[2] < Len(stack'[x[1]])
    OBVIOUS
  <2> HIDE DEF new
  <2>1. CASE x = new
    BY <1>1, <1>3, <1>6, <1>7, <2>1
  <2>2. CASE x \in Frames /\ x = TopPlace(c)
    BY <1>1, <1>3, <1>5, <1>7, <2>2
  <2>3. CASE x \in Frames /\ x # TopPlace(c) /\ x[1] # c
    BY <1>2, <1>5, <1>7, <2>3 DEF ShapeInv
  <2>4. CASE x \in Frames /\ x # TopPlace(c) /\ x[1] = c
    <3>1. x[2] < n
      BY <1>2, <1>3, <2>4 DEF TopPlace
    <3>2. x[2] \in 1 .. 4
      BY <1>2, <2>4
    <3>3. Frame(x)'.pc = "calling"
      BY <1>5, <2>4, <3>1 DEF ShapeInv
    <3>4. Len(stack'[x[1]]) = n + 1
      BY <1>7, <2>4
    <3> HIDE DEF n
    <3> QED
      BY <1>3, <3>1, <3>2, <3>3, <3>4
  <2> QED
    BY <1>4, <2>1, <2>2, <2>3, <2>4
<1> QED
  BY <1>8, <1>9 DEF ShapeInv, FrameOK

LEMMA ShapeAtReturn ==
  ASSUME StackInv, ShapeInv, NEW c \in Clients, stack[c] # << >>, NEW g,
         ReturnsTo(c, g), FrameOK(Len(stack[c]) - 1, g), g.pc # "calling"
  PROVE  ShapeInv'
<1> DEFINE n == Len(stack[c])
           below == << c, n - 1 >>
<1>1. TopPlace(c) = << c, n >> /\ below[1] = c /\ below[2] = n - 1
  BY DEF TopPlace
<1>2. \A x \in Frames : x[1] \in Clients /\ x[2] \in 1 .. 4 /\ x = << x[1], x[2] >>
                        /\ x[2] <= Len(stack[x[1]])
  BY DEF Frames
<1>3. n \in 1 .. 4
  BY TopIsFrame
<1>4. \A x \in Frames' : x \in Frames /\ x # << c, n >>
  BY <1>1 DEF ReturnsTo
<1>5. \A x \in Frames' : Frame(x)' = IF x = below THEN g ELSE Frame(x)
  BY DEF ReturnsTo
<1>7. \A d \in Clients : Len(stack'[d]) = IF d = c THEN n - 1 ELSE Len(stack[d])
  BY DEF ReturnsTo
<1>8. \A x \in Frames' : FrameOK(x[2], Frame(x)')
  <2> HIDE DEF below, n
  <2> QED
    BY <1>1, <1>4, <1>5 DEF ShapeInv, n
<1>9. \A x \in Frames' : Frame(x)'.pc = "calling" <=> x[2] < Len(stack'[x[1]])
  <2> SUFFICES ASSUME NEW x \in Frames'
               PROVE  Frame(x)'.pc = "calling" <=> x[2] < Len(stack'[x[1]])
    OBVIOUS
  <2>1. CASE x = below
    <3> HIDE DEF below
    <3> QED
      BY <1>1, <1>3, <1>5, <1>7, <2>1
  <2>2. CASE x # below /\ x[1] # c
    <3> HIDE DEF below
    <3> QED
      BY <1>2, <1>4, <1>5, <1>7, <2>2 DEF ShapeInv
  <2>3. CASE x # below /\ x[1] = c
    <3>1. x[2] \in 1 .. 4 /\ x[2] <= n /\ x[2] # n /\ x[2] # n - 1
      BY <1>2, <1>4, <2>3
    <3>2. x[2] < n /\ x[2] < n - 1
      <4> HIDE DEF n
      <4> QED
        BY <1>3, <3>1
    <3>3. Frame(x)'.pc = "calling"
      BY <1>4, <1>5, <2>3, <3>2 DEF ShapeInv
    <3> QED
      BY <1>7, <2>3, <3>2, <3>3
  <2> QED
    BY <2>1, <2>2, <2>3
<1> QED
  BY <1>8, <1>9 DEF ShapeInv, FrameOK

LEMMA ShapeAtStart ==
  ASSUME ShapeInv, NEW c \in Clients, NEW g, stack[c] = << >>,
         StartsWith(c, g), FrameOK(1, g), g.pc # "calling"
  PROVE  ShapeInv'
<1> DEFINE new == << c, 1 >>
<1>1. \A x \in Frames : x[1] \in Clients /\ x[1] # c
  BY DEF Frames
<1>2. \A x \in Frames' : x = new \/ x \in Frames
  BY DEF StartsWith
<1>3. new[1] = c /\ new[2] = 1
  OBVIOUS
<1>4. \A x : x = new => Frame(x)' = g
  BY DEF StartsWith
<1>5. Len(stack'[c]) = 1 /\ \A d \in Clients : d # c => stack'[d] = stack[d]
  BY DEF StartsWith
<1>6. \A x \in Frames : Frame(x)' = Frame(x)
  BY DEF StartsWith
<1> HIDE DEF new
<1>7. \A x \in Frames' : FrameOK(x[2], Frame(x)')
  BY <1>2, <1>3, <1>4, <1>6 DEF ShapeInv
<1>8. \A x \in Frames' : Frame(x)'.pc = "calling" <=> x[2] < Len(stack'[x[1]])
  BY <1>1, <1>2, <1>3, <1>4, <1>5, <1>6 DEF ShapeInv
<1> QED
  BY <1>7, <1>8 DEF ShapeInv, FrameOK

LEMMA ShapeAtEnd ==
  ASSUME ShapeInv, NEW c \in Clients, Ends(c)
  PROVE  ShapeInv'
<1>1. \A x \in Frames' : x \in Frames /\ x[1] # c
  BY DEF Ends, Frames
<1>2. \A x \in Frames : x[1] \in Clients
  BY DEF Frames
<1> QED
  BY <1>1, <1>2 DEF Ends, ShapeInv, FrameOK

\* A step that leaves the map alone and lets nobody bind.
LEMMA HandleKept ==
  ASSUME HandleInv, UNCHANGED hmap,
         \A x \in Frames' : \A f : f = Frame(x)' =>
           (x \in Frames /\ f = Frame(x)) \/ (HandleOK(x[2], f) /\ f.pc # "binding")
  PROVE  HandleInv'
<1>1. \A m \in Clients : InfoOK(m)'
  BY DEF HandleInv, InfoOK
<1>2. \A x \in Frames' : HandleOK(x[2], Frame(x)')
  BY DEF HandleInv
<1>3. \A x \in Frames' : HandleOK(x[2], Frame(x))'
  BY <1>2 DEF HandleOK
<1>4. \A x, y \in Frames' :
        Frame(x)'.pc = "binding" /\ Frame(y)'.pc = "binding"
          /\ Frame(x)'.dest = Frame(y)'.dest => x = y
  BY DEF HandleInv
<1> QED
  BY <1>1, <1>3, <1>4 DEF HandleInv

\* Who has a thread, and who has a handle, when the innermost request of c
\* changes ...
LEMMA BusyAtTop ==
  ASSUME NEW c \in Clients, NEW f, TopPlace(c) \in Frames, TopBecomes(c, f),
         f.to = Frame(TopPlace(c)).to,
         f.pc \in {"sent", "queued"} <=> Frame(TopPlace(c)).pc \in {"sent", "queued"}
  PROVE  \A e : Busy(e)' = Busy(e)
  BY DEF Busy, TopBecomes

LEMMA HoldersAtTop ==
  ASSUME NEW c \in Clients, NEW f, TopPlace(c) \in Frames, TopBecomes(c, f),
         f.dest = Frame(TopPlace(c)).dest,
         \/ f.dest = Server
         \/ f.pc # "reply" /\ Frame(TopPlace(c)).pc # "reply"
  PROVE  \A m \in Clients : Holders(m)' = Holders(m)
  BY CallsAssumption DEF Holders, TopBecomes

\* ... and when it makes a call.
LEMMA BusyAtCall ==
  ASSUME NEW c \in Clients, NEW f, NEW g, TopPlace(c) \in Frames,
         CallsFrom(c, f, g), f.to = Frame(TopPlace(c)).to,
         f.pc \notin {"sent", "queued"},
         Frame(TopPlace(c)).pc \notin {"sent", "queued"}, g.pc = "sent"
  PROVE  \A e : Busy(e)' = Busy(e)
<1> DEFINE new == << c, Len(stack[c]) + 1 >>
<1>1. /\ Frames' = Frames \cup {new}
      /\ \A x \in Frames : Frame(x)' = IF x = TopPlace(c) THEN f ELSE Frame(x)
      /\ \A x : x = new => Frame(x)' = g
  BY DEF CallsFrom
<1> HIDE DEF new
<1> QED
  BY <1>1 DEF Busy

LEMMA HoldersAtCall ==
  ASSUME NEW c \in Clients, NEW f, NEW g, TopPlace(c) \in Frames,
         CallsFrom(c, f, g), f.dest = Frame(TopPlace(c)).dest,
         f.pc # "reply", Frame(TopPlace(c)).pc # "reply", g.dest = Server
  PROVE  \A m \in Clients : Holders(m)' = Holders(m)
<1> DEFINE new == << c, Len(stack[c]) + 1 >>
<1>1. /\ Frames' = Frames \cup {new}
      /\ \A x \in Frames : Frame(x)' = IF x = TopPlace(c) THEN f ELSE Frame(x)
      /\ \A x : x = new => Frame(x)' = g
  BY DEF CallsFrom
<1> HIDE DEF new
<1> QED
  BY <1>1, CallsAssumption DEF Holders

-----------------------------------------------------------------------------
(***************************************************************************)
(* The parts of the invariant                                              *)
(***************************************************************************)

Parts ==
  /\ StackInv /\ ShapeInv /\ QueueInv /\ HandleInv
  /\ PoolTypeOK /\ Threads /\ stopped \in {"no", "null", "verify"}
  /\ NoJobIsForgotten /\ HandlesAreCounted /\ DiesOnlyOfAFailedBind

LEMMA PartsGiveCallsInv ==
  Parts => CallsInv
<1> SUFFICES ASSUME Parts
             PROVE  CallsInv
  OBVIOUS
<1>1. \A m \in Clients : hmap[m].refcnt \in -1 .. 2 * Cardinality(Clients)
  <2> TAKE m \in Clients
  <2>1. CASE HasInfo(m)
    <3> DEFINE r == hmap[m].refcnt
               k == Cardinality(Clients)
    <3>1. r = Cardinality(Holders(m))
      BY <2>1 DEF Parts, HandlesAreCounted
    <3>2. r \in Nat /\ r <= 2 * k
      BY <3>1, HoldersAreFew, HoldersAreFinite DEF Parts
    <3>3. k \in Nat
      BY DestinationsAssumption, FS_CardinalityType DEF Clients
    <3> HIDE DEF r, k
    <3>4. r \in -1 .. 2 * k
      BY <3>2, <3>3
    <3> QED
      BY <3>4 DEF r, k
  <2>2. CASE ~ HasInfo(m)
    <3>1. hmap[m].refcnt = -1
      BY <2>2 DEF HasInfo, NoInfo, hinfo
    <3>2. Cardinality(Clients) \in Nat
      BY DestinationsAssumption, FS_CardinalityType DEF Clients
    <3> QED
      BY <3>1, <3>2
  <2> QED
    BY <2>1, <2>2
<1>2. \A x \in Frames : Frame(x).proc \in Procs /\ Frame(x).pc \in PCs
  <2> SUFFICES ASSUME NEW x \in Frames
               PROVE  Frame(x).proc \in Procs /\ Frame(x).pc \in PCs
    OBVIOUS
  <2>1. x[2] \in 1 .. 4
    BY DEF Frames
  <2>2. Frame(x).proc \in Calls[x[2]] /\ Frame(x).pc \in PCs
    BY DEF Parts, ShapeInv, FrameOK
  <2>3. x[2] = 1 \/ x[2] = 2 \/ x[2] = 3 \/ x[2] = 4
    BY <2>1
  <2> QED
    BY <2>2, <2>3, CallsAreProcs DEF Calls
<1>3. TypeOK
  BY <1>1, <1>2 DEF Parts, TypeOK, Threads, Busy, StackInv
<1> QED
  BY <1>3 DEF Parts, CallsInv

\* Parts that a step leaves alone.
LEMMA PoolKept ==
  ASSUME PoolTypeOK, Threads, NoJobIsForgotten, UNCHANGED poolVars,
         \A e \in Endpoints : Busy(e)' = Busy(e)
  PROVE  PoolTypeOK' /\ Threads' /\ NoJobIsForgotten'
  BY DEF PoolTypeOK, Threads, NoJobIsForgotten, poolVars

LEMMA CountsKept ==
  ASSUME HandlesAreCounted, UNCHANGED hmap,
         \A m \in Clients : Holders(m)' = Holders(m)
  PROVE  HandlesAreCounted'
  BY DEF HandlesAreCounted, HasInfo

\* What is known of the innermost request of c.
LEMMA AtFacts ==
  ASSUME Parts, NEW c \in Clients, NEW pc, At(c, pc)
  PROVE  /\ stopped = "no" /\ stack[c] # << >>
         /\ Len(stack[c]) \in 1 .. 4
         /\ TopPlace(c) \in Frames
         /\ Frame(TopPlace(c)) = Top(c)
         /\ IsFrame(Top(c))
         /\ Top(c).pc = pc
         /\ FrameOK(Len(stack[c]), Top(c))
         /\ HandleOK(Len(stack[c]), Top(c))
<1>1. stopped = "no" /\ stack[c] # << >> /\ Top(c).pc = pc
  BY DEF At
<1>2. /\ Len(stack[c]) \in 1 .. 4 /\ TopPlace(c) \in Frames
      /\ Frame(TopPlace(c)) = Top(c) /\ IsFrame(Top(c))
  BY <1>1, TopIsFrame DEF Parts
<1>3. TopPlace(c)[2] = Len(stack[c])
  BY DEF TopPlace
<1>4. FrameOK(TopPlace(c)[2], Top(c)) /\ HandleOK(TopPlace(c)[2], Top(c))
  BY <1>2 DEF Parts, ShapeInv, HandleInv
<1> QED
  BY <1>1, <1>2, <1>3, <1>4

\* A change of the innermost request of c that fits its depth.
LEMMA TopStep ==
  ASSUME Parts, NEW c \in Clients, NEW pc, At(c, pc), NEW f, IsFrame(f),
         SetTop(c, f), UNCHANGED kind, FrameOK(Len(stack[c]), f), f.pc # "calling"
  PROVE  StackInv' /\ ShapeInv' /\ TopBecomes(c, f)
<1>1. stack[c] # << >> /\ StackInv /\ ShapeInv
  BY AtFacts DEF Parts
<1>2. StackInv' /\ TopBecomes(c, f)
  BY <1>1, SetTopFacts
<1> QED
  BY <1>1, <1>2, ShapeAtTop

-----------------------------------------------------------------------------
(***************************************************************************)
(* The actions                                                             *)
(***************************************************************************)

LEMMA InitParts ==
  Init => Parts
<1> SUFFICES ASSUME Init
             PROVE  Parts
  OBVIOUS
<1>1. Frames = {}
  <2>1. \A c \in Clients : Len(stack[c]) = 0
    BY DEF Init
  <2> QED
    BY <2>1 DEF Frames
<1>2. StackInv /\ ShapeInv
  BY <1>1 DEF Init, StackInv, ShapeInv, IsSeq
<1>3. QueueInv
  BY DEF Init, PoolInit, QueueInv
<1>4. HandleInv
  BY <1>1 DEF Init, HandleInit, HandleInv, InfoOK, Infos, NoInfo, hinfo, Clients
<1>5. PoolTypeOK /\ NoJobIsForgotten
  BY PoolAssumption DEF Init, PoolInit, PoolTypeOK, NoJobIsForgotten
<1>6. Threads
  <2>1. \A e : Busy(e) = {}
    BY <1>1 DEF Busy
  <2>2. Cardinality({}) = 0
    BY FS_EmptySet
  <2>3. \A e \in Endpoints : asleep[e] = 0 /\ awake[e] = PoolSize
    BY ZenonT(60) DEF Init, PoolInit
  <2> SUFFICES ASSUME NEW e \in Endpoints
               PROVE  asleep[e] + awake[e] + Cardinality(Busy(e)) = PoolSize
    BY ZenonT(60) DEF Threads
  <2>4. Cardinality(Busy(e)) = 0
    BY <2>1, <2>2
  <2> QED
    BY <2>3, <2>4, PoolAssumption
<1>7. HandlesAreCounted
  <2>1. \A m : Holders(m) = {}
    BY <1>1 DEF Holders
  <2>2. \A m \in Clients : ~ HasInfo(m)
    BY DEF Init, HandleInit, HasInfo, Clients
  <2> QED
    BY <2>1, <2>2, FS_EmptySet DEF HandlesAreCounted
<1> QED
  BY <1>2, <1>3, <1>4, <1>5, <1>6, <1>7 DEF Parts, Init, DiesOnlyOfAFailedBind

LEMMA NoCallStep ==
  ASSUME Parts, NEW c \in Clients, NoCall(c)
  PROVE  Parts'
<1> DEFINE f == [Top(c) EXCEPT !.pc = "reply"]
<1>1. At(c, "begun") /\ SetTop(c, f)
      /\ UNCHANGED << poolVars, hmap, kind, result, stopped >>
  BY DEF NoCall, Goto
<1>2. /\ IsFrame(f) /\ f.proc = Top(c).proc /\ f.to = Top(c).to
      /\ f.pc = "reply" /\ f.dest = Top(c).dest
  BY <1>1, AtFacts, FrameExcept
<1>3. /\ Top(c).pc = "begun" /\ Top(c).dest = Server /\ stack[c] # << >>
      /\ TopPlace(c) \in Frames /\ Frame(TopPlace(c)) = Top(c)
      /\ Len(stack[c]) \in 1 .. 4 /\ FrameOK(Len(stack[c]), Top(c))
      /\ stopped = "no"
  BY <1>1, AtFacts DEF FrameOK
<1> HIDE DEF f
<1>4. FrameOK(Len(stack[c]), f)
  BY <1>2, <1>3, CallsAssumption DEF FrameOK, PCs
<1>5. StackInv' /\ ShapeInv' /\ TopBecomes(c, f)
  BY <1>1, <1>2, <1>4, TopStep
<1>6. QueueInv'
  BY <1>1, <1>3, <1>5, QueueKept DEF Parts, TopBecomes, poolVars
<1>7. HandleInv'
  BY <1>1, <1>2, <1>5, HandleKept DEF Parts, TopBecomes, HandleOK
<1>8. PoolTypeOK' /\ Threads' /\ NoJobIsForgotten'
  BY <1>1, <1>2, <1>3, <1>5, BusyAtTop, PoolKept DEF Parts
<1>9. HandlesAreCounted'
  BY <1>1, <1>2, <1>3, <1>5, HoldersAtTop, CountsKept DEF Parts
<1> QED
  BY <1>1, <1>3, <1>5, <1>6, <1>7, <1>8, <1>9 DEF Parts, DiesOnlyOfAFailedBind

LEMMA GotPduStep ==
  ASSUME Parts, NEW c \in Clients, GotPdu(c)
  PROVE  Parts'
<1> DEFINE f == [Top(c) EXCEPT !.pc = "queued"]
<1>1. At(c, "sent") /\ enq(Top(c).to, c) /\ SetTop(c, f)
      /\ UNCHANGED << hmap, kind, result, stopped >>
  BY DEF GotPdu, Goto
<1>2. /\ IsFrame(f) /\ f.proc = Top(c).proc /\ f.to = Top(c).to
      /\ f.pc = "queued" /\ f.dest = Top(c).dest
  BY <1>1, AtFacts, FrameExcept, SMTT(30)
<1>3. /\ Top(c).pc = "sent" /\ Top(c).dest = Server /\ stack[c] # << >>
      /\ TopPlace(c) \in Frames /\ Frame(TopPlace(c)) = Top(c)
      /\ Len(stack[c]) \in 1 .. 4 /\ FrameOK(Len(stack[c]), Top(c))
      /\ stopped = "no"
  BY <1>1, AtFacts DEF FrameOK
<1> HIDE DEF f
<1>4. FrameOK(Len(stack[c]), f)
  BY <1>2, <1>3, CallsAssumption DEF FrameOK, PCs
<1>5. StackInv' /\ ShapeInv' /\ TopBecomes(c, f)
  BY <1>1, <1>2, <1>4, TopStep
<1>6. PICK e \in Endpoints : e = Top(c).to
  BY <1>3, CallsAssumption DEF FrameOK
<1>7. /\ jobq \in [Endpoints -> Seq(Clients)]
      /\ asleep \in [Endpoints -> 0 .. PoolSize]
      /\ awake \in [Endpoints -> 0 .. PoolSize] /\ PoolSize \in Nat
  BY PoolAssumption DEF Parts, QueueInv, PoolTypeOK
<1>8. /\ Len(jobq[e]) < QueueMax
      /\ jobq' = [jobq EXCEPT ![e] = Append(@, c)]
      /\ IF asleep[e] > 0
         THEN /\ asleep' = [asleep EXCEPT ![e] = @ - 1]
              /\ awake' = [awake EXCEPT ![e] = @ + 1]
         ELSE UNCHANGED << asleep, awake >>
  <2>1. CASE asleep[e] > 0
    BY <1>1, <1>6, <2>1 DEF enq
  <2>2. CASE ~ (asleep[e] > 0)
    <3>1. asleep' = [asleep EXCEPT ![e] = @ - 0] /\ awake' = [awake EXCEPT ![e] = @ + 0]
      BY <1>1, <1>6, <2>2 DEF enq
    <3> QED
      BY <1>1, <1>6, <1>7, <2>2, <3>1 DEF enq
  <2> QED
    BY <2>1, <2>2
<1>9. QueueInv'
  <2>1. jobq' \in [Endpoints -> Seq(Clients)]
    BY <1>7, <1>8
  <2>2. \A d \in Endpoints : \A n \in 1 .. Len(jobq[d]) :
          jobq[d][n] \in Clients /\ jobq[d][n] # c
    BY <1>3, <1>7 DEF Parts, QueueInv
  <2>3. \A d \in Clients : d # c => stack'[d] = stack[d] /\ Top(d)' = Top(d)
    BY <1>5 DEF TopBecomes, Top
  <2>4. stack'[c] # << >> /\ Top(c)' = f
    BY <1>3, <1>5 DEF TopBecomes
  <2>5. /\ Len(jobq'[e]) = Len(jobq[e]) + 1 /\ Len(jobq[e]) \in Nat
        /\ jobq'[e][Len(jobq[e]) + 1] = c
        /\ \A n \in 1 .. Len(jobq[e]) : jobq'[e][n] = jobq[e][n]
        /\ \A d \in Endpoints : d # e => jobq'[d] = jobq[d]
    BY <1>7, <1>8
  <2>6. \A d \in Endpoints : \A n \in 1 .. Len(jobq'[d]) :
          \/ n \in 1 .. Len(jobq[d]) /\ jobq'[d][n] = jobq[d][n]
          \/ d = e /\ n = Len(jobq[e]) + 1 /\ jobq'[d][n] = c
    BY <2>5
  <2>7. \A d \in Endpoints : \A n \in 1 .. Len(jobq'[d]) :
          LET b == jobq'[d][n] IN
          stack'[b] # << >> /\ Last(stack'[b]).pc = "queued" /\ Last(stack'[b]).to = d
    <3> SUFFICES ASSUME NEW d \in Endpoints, NEW n \in 1 .. Len(jobq'[d]), NEW b,
                        b = jobq'[d][n]
                 PROVE  stack'[b] # << >> /\ Last(stack'[b]).pc = "queued"
                          /\ Last(stack'[b]).to = d
      OBVIOUS
    <3>1. CASE b = c
      BY <1>2, <1>6, <2>2, <2>4, <2>6, <3>1 DEF Top
    <3>2. CASE b # c
      BY <2>2, <2>3, <2>6, <3>2 DEF Parts, QueueInv, Top
    <3> QED
      BY <3>1, <3>2
  <2>8. \A d \in Endpoints : \A m, n \in 1 .. Len(jobq'[d]) :
          jobq'[d][m] = jobq'[d][n] => m = n
    BY <2>2, <2>6 DEF Parts, QueueInv
  <2> QED
    BY <2>1, <2>7, <2>8 DEF QueueInv, Top
<1>10. HandleInv'
  BY <1>1, <1>2, <1>5, HandleKept DEF Parts, TopBecomes, HandleOK
<1>11. HandlesAreCounted'
  BY <1>1, <1>2, <1>3, <1>5, HoldersAtTop, CountsKept DEF Parts
<1>15. Threads'
  <2>1. \A d : Busy(d)' = Busy(d)
    BY <1>2, <1>3, <1>5, BusyAtTop
  <2>2. \A d \in Endpoints : asleep'[d] + awake'[d] = asleep[d] + awake[d]
    <3>1. CASE asleep[e] > 0
      <4>1. asleep'[e] = asleep[e] - 1 /\ awake'[e] = awake[e] + 1
        BY <1>7, <1>8, <3>1
      <4>2. \A d \in Endpoints : d # e => asleep'[d] = asleep[d] /\ awake'[d] = awake[d]
        BY <1>7, <1>8, <3>1
      <4>3. asleep[e] \in Int /\ awake[e] \in Int
        BY <1>7
      <4>4. asleep'[e] + awake'[e] = asleep[e] + awake[e]
        BY <4>1, <4>3
      <4> QED
        BY <4>2, <4>4
    <3>2. CASE ~ (asleep[e] > 0)
      BY <1>8, <3>2
    <3> QED
      BY <3>1, <3>2
  <2>3. \A d \in Endpoints : asleep[d] + awake[d] \in Nat
    BY <1>7
  <2> QED
    BY <2>1, <2>2, <2>3 DEF Parts, Threads
<1>12. PoolTypeOK'
  <2>1. DOMAIN jobq' = Endpoints /\ \A d \in Endpoints : Len(jobq'[d]) <= QueueMax
    BY <1>7, <1>8, PoolAssumption DEF Parts, PoolTypeOK
  <2>2. awake[e] < PoolSize \/ ~ (asleep[e] > 0)
    <3>1. Cardinality(Busy(e)) \in Nat
      BY BusyIsFinite
    <3>2. asleep[e] \in Nat /\ awake[e] \in Nat
      BY <1>7
    <3>3. asleep[e] + awake[e] + Cardinality(Busy(e)) = PoolSize
      BY DEF Parts, Threads
    <3> QED
      BY <1>7, <3>1, <3>2, <3>3
  <2>3. asleep' \in [Endpoints -> 0 .. PoolSize] /\ awake' \in [Endpoints -> 0 .. PoolSize]
    <3>1. CASE asleep[e] > 0
      <4>1. asleep[e] \in 0 .. PoolSize /\ awake[e] \in 0 .. PoolSize
        BY <1>7
      <4>2. asleep[e] - 1 \in 0 .. PoolSize /\ awake[e] + 1 \in 0 .. PoolSize
        BY <1>7, <2>2, <3>1, <4>1
      <4> QED
        BY <1>7, <1>8, <3>1, <4>2
    <3>2. CASE ~ (asleep[e] > 0)
      BY <1>7, <1>8, <3>2
    <3> QED
      BY <3>1, <3>2
  <2> QED
    BY <2>1, <2>3 DEF PoolTypeOK
<1>13. NoJobIsForgotten'
  BY <1>7, <1>8 DEF Parts, NoJobIsForgotten
<1> QED
  BY <1>1, <1>3, <1>5, <1>9, <1>10, <1>11, <1>12, <1>13, <1>15
     DEF Parts, DiesOnlyOfAFailedBind

LEMMA DispatchStep ==
  ASSUME Parts, NEW e \in Endpoints, Dispatch(e)
  PROVE  Parts'
<1>1. /\ jobq \in [Endpoints -> Seq(Clients)]
      /\ asleep \in [Endpoints -> 0 .. PoolSize]
      /\ awake \in [Endpoints -> 0 .. PoolSize] /\ PoolSize \in Nat
  BY PoolAssumption DEF Parts, QueueInv, PoolTypeOK
<1>2. /\ stopped = "no" /\ awake[e] > 0 /\ jobq[e] # << >>
      /\ jobq' = [jobq EXCEPT ![e] = Tail(@)]
      /\ awake' = [awake EXCEPT ![e] = @ - 1]
      /\ UNCHANGED << asleep, hmap, kind, result, stopped >>
  BY DEF Dispatch, deq
<1>3. PICK c \in Clients : c = Head(jobq[e])
  BY <1>1, <1>2
<1>4. Len(jobq[e]) \in Nat /\ Len(jobq[e]) > 0 /\ jobq[e][1] = c
  BY <1>1, <1>2, <1>3
<1>5. stack[c] # << >> /\ Top(c).pc = "queued" /\ Top(c).to = e
  BY <1>4 DEF Parts, QueueInv
<1>6. At(c, "queued")
  BY <1>2, <1>5 DEF At
<1> DEFINE h == fn[Top(c).pdu]
           f == [Top(c) EXCEPT !.pdu = << >>, !.got = h.args, !.ret = h.ret,
                     !.pc = IF h.ret = 0 THEN "begun" ELSE "reply"]
<1>7. SetTop(c, f)
  BY <1>3 DEF Dispatch
<1>8. /\ TopPlace(c) \in Frames /\ Frame(TopPlace(c)) = Top(c) /\ IsFrame(Top(c))
      /\ Len(stack[c]) \in 1 .. 4 /\ FrameOK(Len(stack[c]), Top(c))
  BY <1>6, AtFacts
<1>9. /\ IsFrame(f) /\ f.proc = Top(c).proc /\ f.to = Top(c).to
      /\ f.pc \in {"begun", "reply"} /\ f.dest = Top(c).dest
  <2> DEFINE v == IF h.ret = 0 THEN "begun" ELSE "reply"
  <2>1. f = [Top(c) EXCEPT !.pdu = << >>, !.got = h.args, !.ret = h.ret, !.pc = v]
    OBVIOUS
  <2>2. v \in {"begun", "reply"}
    OBVIOUS
  <2> HIDE DEF h, v, f
  <2> QED
    <3> DEFINE g(w) == [Top(c) EXCEPT !.pdu = << >>, !.got = h.args, !.ret = h.ret, !.pc = w]
    <3>1. \A w : /\ IsFrame(g(w)) /\ g(w).proc = Top(c).proc /\ g(w).to = Top(c).to
                 /\ g(w).pc = w /\ g(w).dest = Top(c).dest
      BY <1>8 DEF IsFrame
    <3>2. f = g(v)
      BY <2>1
    <3> HIDE DEF g
    <3> QED
      BY <2>2, <3>1, <3>2
<1> HIDE DEF f
<1>10. f.dest = Server
  BY <1>5, <1>8, <1>9 DEF FrameOK
<1>11. FrameOK(Len(stack[c]), f)
  BY <1>8, <1>9, <1>10, CallsAssumption DEF FrameOK, PCs
<1>12. StackInv' /\ ShapeInv' /\ TopBecomes(c, f)
  BY <1>2, <1>6, <1>7, <1>9, <1>11, TopStep
<1>13. QueueInv'
  <2>1. jobq' \in [Endpoints -> Seq(Clients)]
    BY <1>1, <1>2
  <2>2. /\ Len(jobq'[e]) = Len(jobq[e]) - 1
        /\ \A n \in 1 .. Len(jobq'[e]) : jobq'[e][n] = jobq[e][n + 1]
        /\ \A d \in Endpoints : d # e => jobq'[d] = jobq[d]
    BY <1>1, <1>2
  <2>3. \A n \in 1 .. Len(jobq'[e]) :
          n + 1 \in 1 .. Len(jobq[e]) /\ n + 1 # 1 /\ jobq'[e][n] = jobq[e][n + 1]
    BY <1>4, <2>2
  <2>4. \A d \in Endpoints : \A n \in 1 .. Len(jobq'[d]) : jobq'[d][n] # c
    <3> SUFFICES ASSUME NEW d \in Endpoints, NEW n \in 1 .. Len(jobq'[d])
                 PROVE  jobq'[d][n] # c
      OBVIOUS
    <3>1. CASE d = e
      <4>1. 1 \in 1 .. Len(jobq[e])
        BY <1>4
      <4>2. jobq[e][n + 1] # jobq[e][1]
        BY <2>3, <3>1, <4>1 DEF Parts, QueueInv
      <4> QED
        BY <1>4, <2>3, <3>1, <4>2
    <3>2. CASE d # e
      BY <1>5, <2>2, <3>2 DEF Parts, QueueInv
    <3> QED
      BY <3>1, <3>2
  <2>5. \A d \in Endpoints : \A n \in 1 .. Len(jobq'[d]) :
          jobq'[d][n] \in Clients
    BY <2>1
  <2>6. \A b \in Clients : b # c => stack'[b] = stack[b]
    BY <1>12 DEF TopBecomes
  <2>7. \A d \in Endpoints : \A n \in 1 .. Len(jobq'[d]) :
          \E k \in 1 .. Len(jobq[d]) : jobq[d][k] = jobq'[d][n]
    BY <2>2, <2>3
  <2>8. \A d \in Endpoints : \A n \in 1 .. Len(jobq'[d]) :
          LET b == jobq'[d][n] IN
          stack'[b] # << >> /\ Last(stack'[b]).pc = "queued" /\ Last(stack'[b]).to = d
    <3> SUFFICES ASSUME NEW d \in Endpoints, NEW n \in 1 .. Len(jobq'[d]), NEW b,
                        b = jobq'[d][n]
                 PROVE  stack'[b] # << >> /\ Last(stack'[b]).pc = "queued"
                          /\ Last(stack'[b]).to = d
      OBVIOUS
    <3>1. b \in Clients /\ stack'[b] = stack[b]
      BY <2>4, <2>5, <2>6
    <3>2. stack[b] # << >> /\ Top(b).pc = "queued" /\ Top(b).to = d
      BY <2>7 DEF Parts, QueueInv
    <3> QED
      BY <3>1, <3>2 DEF Top
  <2>9. \A d \in Endpoints : \A m, n \in 1 .. Len(jobq'[d]) :
          jobq'[d][m] = jobq'[d][n] => m = n
    <3> SUFFICES ASSUME NEW d \in Endpoints, NEW m \in 1 .. Len(jobq'[d]),
                        NEW n \in 1 .. Len(jobq'[d]), jobq'[d][m] = jobq'[d][n]
                 PROVE  m = n
      OBVIOUS
    <3>1. CASE d = e
      <4>1. m + 1 = n + 1
        BY <2>3, <3>1, SMTT(30) DEF Parts, QueueInv
      <4> QED
        BY <4>1
    <3>2. CASE d # e
      BY <2>2, <3>2 DEF Parts, QueueInv
    <3> QED
      BY <3>1, <3>2
  <2> QED
    BY <2>1, <2>8, <2>9 DEF QueueInv, Top
<1>14. HandleInv'
  BY <1>2, <1>9, <1>12, HandleKept DEF Parts, TopBecomes, HandleOK
<1>15. HandlesAreCounted'
  BY <1>2, <1>8, <1>9, <1>10, <1>12, HoldersAtTop, CountsKept DEF Parts
<1>16. PoolTypeOK'
  <2>1. DOMAIN jobq' = Endpoints
    BY <1>1, <1>2
  <2>2. \A d \in Endpoints : Len(jobq'[d]) <= QueueMax
    <3>1. Len(jobq'[e]) = Len(jobq[e]) - 1
      BY <1>1, <1>2
    <3> QED
      BY <1>1, <1>2, <1>4, <3>1, PoolAssumption DEF Parts, PoolTypeOK
  <2>3. awake' \in [Endpoints -> 0 .. PoolSize]
    BY <1>1, <1>2
  <2> QED
    BY <1>1, <1>2, <2>1, <2>2, <2>3 DEF PoolTypeOK
<1>17. NoJobIsForgotten'
  <2>1. Len(jobq'[e]) = Len(jobq[e]) - 1 /\ awake'[e] = awake[e] - 1
        /\ awake[e] \in Int
    BY <1>1, <1>2
  <2>2. \A d \in Endpoints : d # e => jobq'[d] = jobq[d] /\ awake'[d] = awake[d]
    BY <1>1, <1>2
  <2> QED
    BY <1>2, <1>4, <2>1, <2>2 DEF Parts, NoJobIsForgotten
<1>18. Threads'
  <2>1. /\ Busy(e)' = Busy(e) \cup {TopPlace(c)} /\ TopPlace(c) \notin Busy(e)
        /\ \A d : d # e => Busy(d)' = Busy(d)
    BY <1>5, <1>8, <1>9, <1>12 DEF Busy, TopBecomes
  <2>2. Cardinality(Busy(e)') = Cardinality(Busy(e)) + 1 /\ Cardinality(Busy(e)) \in Nat
    BY <2>1, BusyIsFinite, FS_AddElement
  <2>3. awake'[e] = awake[e] - 1 /\ awake[e] \in Int /\ asleep[e] \in Int
    BY <1>1, <1>2
  <2>4. asleep[e] + awake'[e] + Cardinality(Busy(e)') = PoolSize
    <3>1. asleep[e] + awake[e] + Cardinality(Busy(e)) = PoolSize
      BY DEF Parts, Threads
    <3> QED
      BY <2>2, <2>3, <3>1
  <2>5. \A d \in Endpoints : d # e => awake'[d] = awake[d]
    BY <1>1, <1>2
  <2> QED
    BY <1>2, <2>1, <2>4, <2>5 DEF Parts, Threads
<1> QED
  BY <1>2, <1>12, <1>13, <1>14, <1>15, <1>16, <1>17, <1>18
     DEF Parts, DiesOnlyOfAFailedBind

LEMMA SleepStep ==
  ASSUME Parts, NEW e \in Endpoints, Sleep(e)
  PROVE  Parts'
<1>1. /\ jobq \in [Endpoints -> Seq(Clients)]
      /\ asleep \in [Endpoints -> 0 .. PoolSize]
      /\ awake \in [Endpoints -> 0 .. PoolSize] /\ PoolSize \in Nat
  BY PoolAssumption DEF Parts, QueueInv, PoolTypeOK
<1>2. /\ stopped = "no" /\ awake[e] > 0 /\ jobq[e] = << >>
      /\ awake' = [awake EXCEPT ![e] = @ - 1]
      /\ asleep' = [asleep EXCEPT ![e] = @ + 1]
      /\ UNCHANGED << jobq, hmap, kind, stack, result, stopped >>
  BY DEF Sleep, wait, callVars
<1>3. Frames' = Frames /\ \A x : Frame(x)' = Frame(x)
  BY <1>2 DEF Frames, Frame
<1>4. StackInv' /\ ShapeInv' /\ QueueInv'
  <2>1. StackInv'
    BY <1>2, <1>3 DEF Parts, StackInv
  <2>2. ShapeInv'
    BY <1>2, <1>3 DEF Parts, ShapeInv
  <2>3. QueueInv'
    BY <1>2 DEF Parts, QueueInv, Top
  <2> QED
    BY <2>1, <2>2, <2>3
<1>5. HandleInv'
  BY <1>2, <1>3, HandleKept DEF Parts
<1>6. HandlesAreCounted'
  BY <1>2, <1>3, CountsKept DEF Parts, Holders
<1>7. \A d : Busy(d)' = Busy(d)
  BY <1>3 DEF Busy
<1>8. /\ asleep'[e] = asleep[e] + 1 /\ awake'[e] = awake[e] - 1
      /\ \A d \in Endpoints : d # e => asleep'[d] = asleep[d] /\ awake'[d] = awake[d]
  BY <1>1, <1>2
<1>9. asleep[e] \in 0 .. PoolSize /\ awake[e] \in 0 .. PoolSize
  BY <1>1
<1>10. /\ asleep[e] + awake[e] + Cardinality(Busy(e)) = PoolSize
       /\ Cardinality(Busy(e)) \in Nat
  BY BusyIsFinite DEF Parts, Threads
<1>11. Threads'
  <2>1. asleep'[e] + awake'[e] + Cardinality(Busy(e)) = PoolSize
    BY <1>1, <1>8, <1>9, <1>10
  <2> QED
    BY <1>7, <1>8, <2>1 DEF Parts, Threads
<1>12. PoolTypeOK'
  <2>1. asleep[e] + 1 \in 0 .. PoolSize /\ awake[e] - 1 \in 0 .. PoolSize
    BY <1>1, <1>2, <1>9, <1>10
  <2>2. asleep' \in [Endpoints -> 0 .. PoolSize] /\ awake' \in [Endpoints -> 0 .. PoolSize]
    BY <1>1, <1>2, <2>1
  <2> QED
    BY <1>2, <2>2 DEF Parts, PoolTypeOK
<1>13. NoJobIsForgotten'
  <2>1. Len(jobq[e]) = 0
    BY <1>2
  <2> QED
    BY <1>2, <1>8, <1>9, <2>1 DEF Parts, NoJobIsForgotten
<1> QED
  BY <1>2, <1>4, <1>5, <1>6, <1>11, <1>12, <1>13 DEF Parts, DiesOnlyOfAFailedBind

LEMMA CallOnNullStep ==
  ASSUME Parts, NEW c \in Clients, CallOnNull(c)
  PROVE  Parts'
<1>1. /\ At(c, "null") /\ stopped' = "null"
      /\ UNCHANGED << poolVars, hmap, kind, stack, result >>
  BY DEF CallOnNull
<1>2. \E m \in Clients : hmap[m].del
  BY <1>1, AtFacts DEF HandleOK
<1>3. Frames' = Frames /\ \A x : Frame(x)' = Frame(x)
  BY <1>1 DEF Frames, Frame
<1>4. StackInv' /\ ShapeInv' /\ QueueInv'
  BY <1>1, <1>3 DEF Parts, StackInv, ShapeInv, QueueInv, Top, poolVars
<1>5. HandleInv'
  BY <1>1, <1>3, HandleKept DEF Parts
<1>6. HandlesAreCounted'
  BY <1>1, <1>3, CountsKept DEF Parts, Holders
<1>7. \A d : Busy(d)' = Busy(d)
  BY <1>3 DEF Busy
<1>8. PoolTypeOK' /\ Threads' /\ NoJobIsForgotten'
  BY <1>1, <1>7, PoolKept DEF Parts
<1> QED
  BY <1>1, <1>2, <1>4, <1>5, <1>6, <1>8 DEF Parts, DiesOnlyOfAFailedBind

LEMMA StartStep ==
  ASSUME Parts, NEW c \in Clients, Start(c)
  PROVE  Parts'
<1>1. PICK p \in {"acquire", "release", "create", "get", "getattr", "stat"} :
        stack' = [stack EXCEPT ![c] = << Request(c, p, Server, 1) >>]
  BY DEF Start, Parts, StackInv
<1>2. /\ stopped = "no" /\ stack[c] = << >>
      /\ UNCHANGED << poolVars, hmap, kind, stopped >>
  BY DEF Start
<1> DEFINE g == Request(c, p, Server, 1)
<1>3. /\ IsFrame(g) /\ g.proc = p /\ g.to = Server /\ g.pc = "sent" /\ g.dest = Server
  BY FrameOfRequest
<1>4. stack' = [stack EXCEPT ![c] = << g >>]
  BY <1>1
<1> HIDE DEF g
<1>5. FrameOK(1, g)
  BY <1>3, CallsAssumption DEF FrameOK, PCs, Calls
<1>6. StackInv' /\ StartsWith(c, g)
  BY <1>2, <1>3, <1>4, StartFacts DEF Parts
<1>7. ShapeInv'
  BY <1>2, <1>3, <1>5, <1>6, ShapeAtStart DEF Parts
<1>8. QueueInv'
  BY <1>2, <1>6, QueueKept DEF Parts, StartsWith, poolVars
<1> DEFINE new == << c, 1 >>
<1>9. /\ Frames' = Frames \cup {new} /\ \A x \in Frames : Frame(x)' = Frame(x)
      /\ \A x : x = new => Frame(x)' = g
  BY <1>6 DEF StartsWith
<1> HIDE DEF new
<1>10. HandleInv'
  BY <1>2, <1>3, <1>9, HandleKept DEF Parts, HandleOK
<1>11. \A e : Busy(e)' = Busy(e)
  BY <1>3, <1>9 DEF Busy
<1>12. \A m \in Clients : Holders(m)' = Holders(m)
  BY <1>3, <1>9, CallsAssumption DEF Holders
<1>13. PoolTypeOK' /\ Threads' /\ NoJobIsForgotten'
  BY <1>2, <1>11, PoolKept DEF Parts
<1>14. HandlesAreCounted'
  BY <1>2, <1>12, CountsKept DEF Parts
<1> QED
  BY <1>2, <1>6, <1>7, <1>8, <1>10, <1>13, <1>14 DEF Parts, DiesOnlyOfAFailedBind

\* The two steps that make a call: the thread of the request that makes it
\* keeps its handle, if it has one.
LEMMA PushStep ==
  ASSUME Parts, NEW c \in Clients, NEW pc \in {"begun", "bound"}, At(c, pc),
         Len(stack[c]) < 4, NEW f, IsFrame(f), NEW g, IsFrame(g),
         stack' = [stack EXCEPT ![c] = Front(@) \o << f, g >>],
         f.to = Top(c).to, f.pc = "calling", f.dest = Top(c).dest,
         g.pc = "sent", g.dest = Server,
         FrameOK(Len(stack[c]), f), HandleOK(Len(stack[c]), f),
         FrameOK(Len(stack[c]) + 1, g),
         UNCHANGED << poolVars, hmap, kind, result, stopped >>
  PROVE  Parts'
<1>5. /\ Top(c).pc = pc /\ stack[c] # << >> /\ stopped = "no"
      /\ TopPlace(c) \in Frames /\ Frame(TopPlace(c)) = Top(c)
      /\ TopPlace(c)[2] = Len(stack[c])
  BY AtFacts DEF TopPlace
<1>6. StackInv' /\ CallsFrom(c, f, g)
  BY <1>5, PushFacts DEF Parts
<1>7. ShapeInv'
  BY <1>5, <1>6, ShapeAtCall DEF Parts
<1>8. QueueInv'
  BY <1>5, <1>6, QueueKept DEF Parts, CallsFrom, poolVars
<1> DEFINE new == << c, Len(stack[c]) + 1 >>
<1>9. /\ Frames' = Frames \cup {new}
      /\ \A x \in Frames : Frame(x)' = IF x = TopPlace(c) THEN f ELSE Frame(x)
      /\ \A x : x = new => Frame(x)' = g
  BY <1>6 DEF CallsFrom
<1> HIDE DEF new
<1>10. HandleInv'
  <2>1. \A n : HandleOK(n, g)
    BY DEF HandleOK
  <2>2. \A x \in Frames' : \A h : h = Frame(x)' =>
          (x \in Frames /\ h = Frame(x)) \/ (HandleOK(x[2], h) /\ h.pc # "binding")
    <3> SUFFICES ASSUME NEW x \in Frames', NEW h, h = Frame(x)'
                 PROVE  (x \in Frames /\ h = Frame(x))
                          \/ (HandleOK(x[2], h) /\ h.pc # "binding")
      OBVIOUS
    <3>1. CASE x = new
      BY <1>9, <2>1, <3>1
    <3>2. CASE x = TopPlace(c)
      BY <1>5, <1>9, <3>2
    <3>3. CASE x # new /\ x # TopPlace(c)
      BY <1>9, <3>3
    <3> QED
      BY <3>1, <3>2, <3>3
  <2> QED
    BY <2>2, HandleKept DEF Parts
<1>11. \A d : Busy(d)' = Busy(d)
  BY <1>5, <1>6, BusyAtCall
<1>12. \A m \in Clients : Holders(m)' = Holders(m)
  BY <1>5, <1>6, HoldersAtCall
<1>13. PoolTypeOK' /\ Threads' /\ NoJobIsForgotten'
  BY <1>11, PoolKept DEF Parts
<1>14. HandlesAreCounted'
  BY <1>12, CountsKept DEF Parts
<1> QED
  BY <1>5, <1>6, <1>7, <1>8, <1>10, <1>13, <1>14 DEF Parts, DiesOnlyOfAFailedBind

LEMMA CallServerStep ==
  ASSUME Parts, NEW c \in Clients, CallServer(c)
  PROVE  Parts'
<1>1. At(c, "begun") /\ UNCHANGED << poolVars, hmap, kind, result, stopped >>
  BY DEF CallServer
<1>2. PICK n \in NestedCalls : n[1] = Top(c).proc /\ Push(c, n[2], Server)
  BY DEF CallServer
<1> DEFINE k == Len(stack[c])
           f == [Top(c) EXCEPT !.pc = "calling"]
           g == Request(Top(c).to, n[2], Server, k + 1)
<1>3. Top(c).proc \in {"revoke", "flush"} /\ n[2] \in {"release", "put"}
  BY <1>2 DEF NestedCalls
<1>4. k \in 1 .. 4 /\ FrameOK(k, Top(c)) /\ Top(c).pc = "begun"
  BY <1>1, AtFacts
<1>5. k = 2
  <2>1. k = 1 \/ k = 2 \/ k = 3 \/ k = 4
    BY <1>4
  <2>2. Top(c).proc \in Calls[k]
    BY <1>4 DEF FrameOK
  <2> HIDE DEF k
  <2> QED
    BY <1>3, <2>1, <2>2 DEF Calls
<1>6. /\ IsFrame(f) /\ f.proc = Top(c).proc /\ f.to = Top(c).to
      /\ f.pc = "calling" /\ f.dest = Top(c).dest
  BY <1>1, AtFacts, FrameExcept
<1>7. IsFrame(g) /\ g.proc = n[2] /\ g.to = Server /\ g.pc = "sent" /\ g.dest = Server
  BY FrameOfRequest
<1>8. stack' = [stack EXCEPT ![c] = Front(@) \o << f, g >>]
  BY <1>2 DEF Push, Parts, StackInv
<1> HIDE DEF f, g
<1>9. FrameOK(k, f) /\ HandleOK(k, f)
  BY <1>4, <1>5, <1>6 DEF FrameOK, HandleOK, PCs
<1>10. FrameOK(k + 1, g)
  <2>1. FrameOK(3, g)
    BY <1>3, <1>7, CallsAssumption DEF FrameOK, PCs, Calls
  <2> QED
    BY <1>5, <2>1
<1>11. k < 4
  <2> HIDE DEF k
  <2> QED
    BY <1>5
<1> QED
  BY <1>1, <1>6, <1>7, <1>8, <1>9, <1>10, <1>11, PushStep

LEMMA CallBackStep ==
  ASSUME Parts, NEW c \in Clients, CallBack(c)
  PROVE  Parts'
<1> DEFINE k == Len(stack[c])
           p == CallBackOf(Top(c).proc)
           f == [Top(c) EXCEPT !.pc = "calling"]
           g == Request(Top(c).to, p, Top(c).dest, k + 1)
<1>1. /\ At(c, "bound") /\ Push(c, p, Top(c).dest)
      /\ UNCHANGED << poolVars, hmap, kind, result, stopped >>
  BY DEF CallBack
<1>2. /\ k \in 1 .. 4 /\ FrameOK(k, Top(c)) /\ HandleOK(k, Top(c))
      /\ Top(c).pc = "bound"
  BY <1>1, AtFacts
<1>3. /\ k \in {1, 3} /\ Top(c).dest \in Clients
      /\ Top(c).proc \in {"acquire", "release", "get", "getattr"}
  BY <1>2 DEF FrameOK
<1>4. p \in {"revoke", "retry", "flush", "get_attr"}
  BY <1>3 DEF CallBackOf
<1>5. k = 3 => p = "retry"
  <2>1. Top(c).proc \in Calls[k]
    BY <1>2 DEF FrameOK
  <2>2. k = 3 => Top(c).proc = "release"
    BY <1>3, <2>1 DEF Calls
  <2> QED
    BY <2>2 DEF CallBackOf
<1>6. /\ IsFrame(f) /\ f.proc = Top(c).proc /\ f.to = Top(c).to
      /\ f.pc = "calling" /\ f.dest = Top(c).dest
  BY <1>1, AtFacts, FrameExcept
<1>7. /\ IsFrame(g) /\ g.proc = p /\ g.to = Top(c).dest /\ g.pc = "sent"
      /\ g.dest = Server
  BY FrameOfRequest
<1>8. stack' = [stack EXCEPT ![c] = Front(@) \o << f, g >>]
  BY <1>1 DEF Push, Parts, StackInv
<1> HIDE DEF f, g, p
<1>9. FrameOK(k, f) /\ HandleOK(k, f)
  BY <1>2, <1>3, <1>6 DEF FrameOK, HandleOK, PCs
<1>10. FrameOK(k + 1, g)
  <2>1. CASE k = 1
    <3>1. FrameOK(2, g)
      BY <1>3, <1>4, <1>7, CallsAssumption DEF FrameOK, PCs, Calls
    <3> QED
      BY <2>1, <3>1
  <2>2. CASE k = 3
    <3>1. FrameOK(4, g)
      BY <1>3, <1>5, <1>7, <2>2, CallsAssumption DEF FrameOK, PCs, Calls
    <3> QED
      BY <2>2, <3>1
  <2> QED
    BY <1>3, <2>1, <2>2
<1>11. k < 4
  <2> HIDE DEF k
  <2> QED
    BY <1>3
<1> QED
  BY <1>1, <1>6, <1>7, <1>8, <1>9, <1>10, <1>11, PushStep

\* A step that changes reference counts only, and lets nobody bind.
LEMMA HandleCountsChange ==
  ASSUME HandleInv, ShapeInv', hmap' = [d \in Clients |-> hmap'[d]], \A d \in Clients : InfoOK(d)',
         \A d \in Clients : /\ hmap'[d].cl = hmap[d].cl
                           /\ hmap'[d].del = hmap[d].del
                           /\ hmap'[d].locked = hmap[d].locked,
         \A x \in Frames' : \A f : f = Frame(x)' =>
           (x \in Frames /\ f = Frame(x)) \/ (HandleOK(x[2], f) /\ f.pc # "binding")
  PROVE  HandleInv'
<1>1. \A x \in Frames' : \A f : f = Frame(x)' => HandleOK(x[2], f) /\ FrameOK(x[2], f)
  BY DEF HandleInv, ShapeInv, FrameOK
<1>2. \A x \in Frames' : HandleOK(x[2], Frame(x))'
  <2> SUFFICES ASSUME NEW x \in Frames', NEW f, f = Frame(x)'
               PROVE  /\ f.pc = "binding" =>
                           hmap'[f.dest].locked /\ ~ hmap'[f.dest].cl /\ ~ hmap'[f.dest].del
                      /\ f.pc \in {"bound", "calling", "called"} /\ x[2] \in {1, 3} =>
                           hmap'[f.dest].cl
                      /\ f.pc = "null" => \E m \in Clients : hmap'[m].del
    BY DEF HandleOK
  <2>1. HandleOK(x[2], f) /\ FrameOK(x[2], f)
    BY <1>1
  <2> QED
    BY <2>1 DEF HandleOK, FrameOK
<1>3. \A x, y \in Frames' :
        Frame(x)'.pc = "binding" /\ Frame(y)'.pc = "binding"
          /\ Frame(x)'.dest = Frame(y)'.dest => x = y
  BY DEF HandleInv
<1> QED
  BY <1>2, <1>3 DEF HandleInv

LEMMA MakeHandleStep ==
  ASSUME Parts, NEW c \in Clients, MakeHandle(c)
  PROVE  Parts'
<1>1. At(c, "begun") /\ UNCHANGED << poolVars, kind, result, stopped >>
  BY DEF MakeHandle
<1>2. PICK m \in Clients :
        /\ MayCallBack(c, Top(c).proc, m)
        /\ get_handle(m)
        /\ SetTop(c, [Top(c) EXCEPT !.dest = IF GetsHandle(m) THEN m ELSE @,
                        !.pc = IF GetsHandle(m) THEN "handle" ELSE "null"])
  BY ZenonT(60) DEF MakeHandle
<1> DEFINE k == Len(stack[c])
<1>3. /\ Top(c).pc = "begun" /\ Top(c).dest = Server /\ stack[c] # << >>
      /\ TopPlace(c) \in Frames /\ Frame(TopPlace(c)) = Top(c) /\ TopPlace(c)[2] = k
      /\ k \in 1 .. 4 /\ FrameOK(k, Top(c)) /\ IsFrame(Top(c)) /\ stopped = "no"
  BY <1>1, AtFacts DEF FrameOK, TopPlace
<1>4. Top(c).proc \in {"acquire", "release", "get", "getattr"}
  BY <1>2 DEF MayCallBack
<1>5. k \in {1, 3}
  <2>1. Top(c).proc \in Calls[k] /\ (k = 1 \/ k = 2 \/ k = 3 \/ k = 4)
    BY <1>3 DEF FrameOK
  <2> HIDE DEF k
  <2> QED
    BY <1>4, <2>1 DEF Calls
<1>6. hmap = [d \in Clients |-> hmap[d]] /\ InfoOK(m) /\ HandleInv /\ HandlesAreCounted
  BY DEF Parts, HandleInv
<1>9. hmap'[m] = IF ~ HasInfo(m) THEN hinfo(1)
                ELSE IF ~ hmap[m].del THEN [hmap[m] EXCEPT !.refcnt = hmap[m].refcnt + 1]
                ELSE hmap[m]
  <2> DEFINE v == IF ~ HasInfo(m) THEN hinfo(1)
                  ELSE IF ~ hmap[m].del THEN [hmap[m] EXCEPT !.refcnt = hmap[m].refcnt + 1]
                  ELSE hmap[m]
  <2>1. hmap' = [hmap EXCEPT ![m] = v]
    BY <1>2 DEF get_handle
  <2> HIDE DEF v
  <2>2. hmap'[m] = v
    BY <1>6, <2>1
  <2> QED
    BY <2>2 DEF v
<1>7. CASE GetsHandle(m)
  <2> DEFINE f == [Top(c) EXCEPT !.dest = m, !.pc = "handle"]
  <2>1. SetTop(c, f)
    BY <1>2, <1>7
  <2>2. /\ IsFrame(f) /\ f.proc = Top(c).proc /\ f.to = Top(c).to
        /\ f.pc = "handle" /\ f.dest = m
    BY <1>3 DEF IsFrame
  <2> HIDE DEF f
  <2>3. FrameOK(k, f) /\ HandleOK(k, f)
    BY <1>3, <1>4, <1>5, <2>2, CallsAssumption DEF FrameOK, HandleOK, PCs
  <2>4. StackInv' /\ ShapeInv' /\ TopBecomes(c, f)
    BY <1>1, <2>1, <2>2, <2>3, TopStep
  <2>5. QueueInv'
    BY <1>1, <1>3, <2>4, QueueKept DEF Parts, TopBecomes, poolVars
  <2>6. PoolTypeOK' /\ Threads' /\ NoJobIsForgotten'
    BY <1>1, <1>3, <2>2, <2>4, BusyAtTop, PoolKept DEF Parts
  <2>7. hmap' = [d \in Clients |-> hmap'[d]] /\ \A d \in Clients : d # m => hmap'[d] = hmap[d]
    BY <1>2, <1>6 DEF get_handle
  <2>8. /\ hmap'[m] \in Infos
        /\ hmap'[m].refcnt = (IF HasInfo(m) THEN hmap[m].refcnt ELSE 0) + 1
        /\ hmap'[m].cl = hmap[m].cl /\ hmap'[m].del = hmap[m].del
        /\ hmap'[m].locked = hmap[m].locked
    <3>1. CASE ~ HasInfo(m)
      <4>1. hmap'[m] = hinfo(1)
        BY <1>9, <3>1
      <4>2. hmap[m] = hinfo(-1)
        BY <3>1 DEF HasInfo, NoInfo
      <4> QED
        BY <3>1, <4>1, <4>2 DEF hinfo, Infos
    <3>2. CASE HasInfo(m)
      <4>1. hmap'[m] = [hmap[m] EXCEPT !.refcnt = hmap[m].refcnt + 1]
        BY <1>7, <1>9, <3>2 DEF GetsHandle
      <4> QED
        BY <1>6, <3>2, <4>1 DEF InfoOK, Infos
    <3> QED
      BY <3>1, <3>2
  <2> DEFINE n == Cardinality(Holders(m))
  <2>9. n \in Nat /\ n = IF HasInfo(m) THEN hmap[m].refcnt ELSE 0
    BY HoldersAreFinite DEF Parts, HandlesAreCounted
  <2>10. hmap'[m].refcnt = n + 1 /\ hmap'[m].refcnt \in Nat
    <3> HIDE DEF n
    <3> QED
      BY <2>8, <2>9
  <2>11. hmap'[m] # NoInfo
    BY <2>10 DEF NoInfo, hinfo
  <2>12. \A d \in Clients : InfoOK(d)'
    BY <1>6, <2>7, <2>8, <2>10 DEF HandleInv, InfoOK
  <2>13. HandleInv'
    <3>1. \A x \in Frames' : \A h : h = Frame(x)' =>
            (x \in Frames /\ h = Frame(x)) \/ (HandleOK(x[2], h) /\ h.pc # "binding")
      BY <1>3, <2>2, <2>3, <2>4 DEF TopBecomes
    <3> QED
      BY <1>6, <2>4, <2>7, <2>8, <2>12, <3>1, HandleCountsChange
  <2>14. HandlesAreCounted'
    <3>1. /\ Holders(m)' = Holders(m) \cup {TopPlace(c)} /\ TopPlace(c) \notin Holders(m)
          /\ \A d \in Clients : d # m => Holders(d)' = Holders(d)
      <4>1. m # Server
        BY CallsAssumption
      <4>2. TopPlace(c) \notin Holders(m)
        BY <1>3, <4>1 DEF Holders
      <4>3. \A d \in Clients : \A x \in Frames :
              /\ x # TopPlace(c) => Frame(x)' = Frame(x)
              /\ x = TopPlace(c) => Frame(x)' = f /\ Frame(x) = Top(c)
        BY <1>3, <2>4 DEF TopBecomes
      <4>4. Frames' = Frames
        BY <2>4 DEF TopBecomes
      <4>5. Holders(m)' = Holders(m) \cup {TopPlace(c)}
        BY <1>3, <2>2, <4>1, <4>3, <4>4 DEF Holders
      <4>6. \A d \in Clients : d # m => Holders(d)' = Holders(d)
        BY <1>3, <2>2, <4>3, <4>4, CallsAssumption DEF Holders
      <4> QED
        BY <4>2, <4>5, <4>6
    <3>2. Cardinality(Holders(m)') = n + 1
      BY <3>1, HoldersAreFinite, FS_AddElement
    <3> HIDE DEF n
    <3> QED
      BY <2>7, <2>10, <2>11, <3>1, <3>2 DEF Parts, HandlesAreCounted, HasInfo
  <2> QED
    BY <1>1, <1>3, <2>4, <2>5, <2>6, <2>13, <2>14 DEF Parts, DiesOnlyOfAFailedBind
<1>8. CASE ~ GetsHandle(m)
  <2> DEFINE f == [Top(c) EXCEPT !.dest = Server, !.pc = "null"]
  <2>1. SetTop(c, f)
    BY <1>2, <1>3, <1>8
  <2>2. /\ IsFrame(f) /\ f.proc = Top(c).proc /\ f.to = Top(c).to
        /\ f.pc = "null" /\ f.dest = Server
    BY <1>3 DEF IsFrame
  <2> HIDE DEF f
  <2>3. UNCHANGED hmap /\ hmap[m].del
    <3>1. hmap[m].del /\ hmap'[m] = hmap[m]
      BY <1>8, <1>9 DEF GetsHandle
    <3>2. hmap' = [hmap EXCEPT ![m] = hmap'[m]]
      BY <1>2, <1>6 DEF get_handle
    <3>3. hmap = [d \in Clients |-> hmap[d]]
      BY DEF Parts, HandleInv
    <3> QED
      BY <3>1, <3>2, <3>3
  <2>4. FrameOK(k, f) /\ HandleOK(k, f)
    BY <1>3, <1>4, <1>5, <2>2, <2>3, CallsAssumption DEF FrameOK, HandleOK, PCs
  <2>5. StackInv' /\ ShapeInv' /\ TopBecomes(c, f)
    BY <1>1, <2>1, <2>2, <2>4, TopStep
  <2>6. QueueInv'
    BY <1>1, <1>3, <2>5, QueueKept DEF Parts, TopBecomes, poolVars
  <2>7. PoolTypeOK' /\ Threads' /\ NoJobIsForgotten'
    BY <1>1, <1>3, <2>2, <2>5, BusyAtTop, PoolKept DEF Parts
  <2>8. HandleInv'
    <3>1. \A x \in Frames' : \A h : h = Frame(x)' =>
            (x \in Frames /\ h = Frame(x)) \/ (HandleOK(x[2], h) /\ h.pc # "binding")
      BY <1>3, <2>2, <2>4, <2>5 DEF TopBecomes
    <3> QED
      BY <1>6, <2>3, <3>1, HandleKept
  <2>9. HandlesAreCounted'
    BY <1>3, <2>2, <2>3, <2>5, HoldersAtTop, CountsKept DEF Parts
  <2> QED
    BY <1>1, <1>3, <2>5, <2>6, <2>7, <2>8, <2>9 DEF Parts, DiesOnlyOfAFailedBind
<1> QED
  BY <1>7, <1>8

LEMMA DestroyHandleStep ==
  ASSUME Parts, NEW c \in Clients, DestroyHandle(c)
  PROVE  Parts'
<1> DEFINE k == Len(stack[c])
           f == [Top(c) EXCEPT !.pc = "reply"]
<1>1. /\ At(c, "called") /\ done_handle(Top(c).dest) /\ SetTop(c, f)
      /\ UNCHANGED << poolVars, kind, result, stopped >>
  BY DEF DestroyHandle, Goto
<1>2. /\ IsFrame(f) /\ f.proc = Top(c).proc /\ f.to = Top(c).to
      /\ f.pc = "reply" /\ f.dest = Top(c).dest
  BY <1>1, AtFacts, FrameExcept, SMTT(30)
<1>3. /\ Top(c).pc = "called" /\ stack[c] # << >>
      /\ TopPlace(c) \in Frames /\ Frame(TopPlace(c)) = Top(c) /\ TopPlace(c)[2] = k
      /\ k \in 1 .. 4 /\ FrameOK(k, Top(c)) /\ HandleOK(k, Top(c)) /\ stopped = "no"
  BY <1>1, AtFacts DEF TopPlace
<1>4. PICK m \in Clients : m = Top(c).dest
  BY <1>3 DEF FrameOK
<1>5. k \in {1, 3} /\ hmap[m].cl
  BY <1>3, <1>4 DEF FrameOK, HandleOK
<1>6. hmap = [d \in Clients |-> hmap[d]] /\ InfoOK(m) /\ HandleInv /\ HandlesAreCounted /\ ~ hmap[m].del
  BY <1>5 DEF Parts, HandleInv, InfoOK
<1>7. TopPlace(c) \in Holders(m)
  BY <1>3, <1>4 DEF Holders
<1>8. HasInfo(m) /\ hmap[m].refcnt \in Nat /\ hmap[m].refcnt >= 1
  BY <1>6, <1>7, HolderIsCounted
<1> HIDE DEF f
<1>9. FrameOK(k, f) /\ HandleOK(k, f)
  BY <1>2, <1>3, <1>5 DEF FrameOK, HandleOK, PCs
<1>10. StackInv' /\ ShapeInv' /\ TopBecomes(c, f)
  BY <1>1, <1>2, <1>9, TopStep
<1>11. QueueInv'
  BY <1>1, <1>3, <1>10, QueueKept DEF Parts, TopBecomes, poolVars
<1>12. PoolTypeOK' /\ Threads' /\ NoJobIsForgotten'
  BY <1>1, <1>2, <1>3, <1>10, BusyAtTop, PoolKept DEF Parts
<1>13. /\ hmap' = [d \in Clients |-> hmap'[d]] /\ \A d \in Clients : d # m => hmap'[d] = hmap[d]
       /\ hmap'[m] = [hmap[m] EXCEPT !.refcnt = hmap[m].refcnt - 1]
  <2>1. done_handle(m)
    BY <1>1, <1>4
  <2>2. hmap' = [d \in Clients |-> hmap'[d]] /\ \A d \in Clients : d # m => hmap'[d] = hmap[d]
    BY <1>6, <2>1 DEF done_handle
  <2>3. hmap'[m] = IF hmap[m].refcnt = 1 /\ hmap[m].del THEN NoInfo
                   ELSE [hmap[m] EXCEPT !.refcnt = hmap[m].refcnt - 1]
    <3> DEFINE v == IF hmap[m].refcnt = 1 /\ hmap[m].del THEN NoInfo
                    ELSE [hmap[m] EXCEPT !.refcnt = hmap[m].refcnt - 1]
    <3>1. hmap' = [hmap EXCEPT ![m] = v]
      BY <2>1 DEF done_handle
    <3> HIDE DEF v
    <3>2. hmap'[m] = v
      BY <1>6, <3>1
    <3> QED
      BY <3>2 DEF v
  <2> QED
    BY <1>6, <2>2, <2>3
<1>14. /\ hmap'[m] \in Infos
       /\ hmap'[m].refcnt = hmap[m].refcnt - 1
       /\ hmap'[m].cl = hmap[m].cl /\ hmap'[m].del = hmap[m].del
       /\ hmap'[m].locked = hmap[m].locked
  BY <1>6, <1>13 DEF InfoOK, Infos
<1>15. hmap'[m].refcnt \in Nat
  BY <1>8, <1>14
<1>16. hmap'[m] # NoInfo
  BY <1>15 DEF NoInfo, hinfo
<1>17. \A d \in Clients : InfoOK(d)'
  BY <1>6, <1>13, <1>14, <1>15 DEF HandleInv, InfoOK
<1>18. HandleInv'
  <2>1. \A x \in Frames' : \A h : h = Frame(x)' =>
          (x \in Frames /\ h = Frame(x)) \/ (HandleOK(x[2], h) /\ h.pc # "binding")
    BY <1>2, <1>3, <1>9, <1>10 DEF TopBecomes
  <2> QED
    BY <1>6, <1>10, <1>13, <1>14, <1>17, <2>1, HandleCountsChange
<1>19. HandlesAreCounted'
  <2>1. /\ Holders(m)' = Holders(m) \ {TopPlace(c)}
        /\ \A d \in Clients : d # m => Holders(d)' = Holders(d)
    BY <1>2, <1>3, <1>4, <1>10 DEF Holders, TopBecomes
  <2>2. Cardinality(Holders(m)') = Cardinality(Holders(m)) - 1
    BY <1>7, <2>1, HoldersAreFinite, FS_RemoveElement
  <2>3. Cardinality(Holders(m)) = hmap[m].refcnt
    BY <1>6, <1>8 DEF HandlesAreCounted
  <2> QED
    BY <1>13, <1>14, <1>16, <2>1, <2>2, <2>3 DEF Parts, HandlesAreCounted, HasInfo
<1> QED
  BY <1>1, <1>3, <1>10, <1>11, <1>12, <1>18, <1>19 DEF Parts, DiesOnlyOfAFailedBind

\* A step that changes the map but no reference count.
LEMMA CountsKeptInMap ==
  ASSUME HandlesAreCounted, NEW m \in Clients,
         \A d \in Clients : d # m => hmap'[d] = hmap[d],
         HasInfo(m), hmap'[m] # NoInfo, hmap'[m].refcnt = hmap[m].refcnt,
         \A d \in Clients : Holders(d)' = Holders(d)
  PROVE  HandlesAreCounted'
  BY DEF HandlesAreCounted, HasInfo

LEMMA SafebindStep ==
  ASSUME Parts, NEW c \in Clients, Safebind(c)
  PROVE  Parts'
<1> DEFINE k == Len(stack[c])
<1>1. At(c, "handle") /\ UNCHANGED << poolVars, kind, result, stopped >>
  BY DEF Safebind
<1>2. /\ Top(c).pc = "handle" /\ stack[c] # << >> /\ IsFrame(Top(c))
      /\ TopPlace(c) \in Frames /\ Frame(TopPlace(c)) = Top(c) /\ TopPlace(c)[2] = k
      /\ k \in 1 .. 4 /\ FrameOK(k, Top(c)) /\ stopped = "no"
  BY <1>1, AtFacts DEF TopPlace
<1>3. PICK m \in Clients : m = Top(c).dest
  BY <1>2 DEF FrameOK
<1>4. PICK pc \in {"null", "bound", "binding"} :
        pc = IF hmap[m].del THEN "null" ELSE IF hmap[m].cl THEN "bound" ELSE "binding"
  OBVIOUS
<1> DEFINE f == [Top(c) EXCEPT !.pc = pc]
<1>5. SafebindEnters(m) /\ SetTop(c, f)
  BY <1>3, <1>4 DEF Safebind, Goto
<1>6. /\ IsFrame(f) /\ f.proc = Top(c).proc /\ f.to = Top(c).to
      /\ f.pc = pc /\ f.dest = m
  BY <1>2, <1>3, FrameExcept
<1> HIDE DEF f
<1>7. hmap = [d \in Clients |-> hmap[d]] /\ InfoOK(m) /\ HandleInv /\ HandlesAreCounted
  BY DEF Parts, HandleInv
<1>8. k \in {1, 3}
  BY <1>2 DEF FrameOK
<1>9. FrameOK(k, f)
  BY <1>2, <1>3, <1>6, <1>8, CallsAssumption DEF FrameOK, PCs
<1>10. StackInv' /\ ShapeInv' /\ TopBecomes(c, f)
  <2>1. f.pc # "calling"
    BY <1>6
  <2> QED
    BY <1>1, <1>5, <1>6, <1>9, <2>1, TopStep
<1>11. QueueInv'
  BY <1>1, <1>2, <1>10, QueueKept DEF Parts, TopBecomes, poolVars
<1>12. PoolTypeOK' /\ Threads' /\ NoJobIsForgotten'
  BY <1>1, <1>2, <1>6, <1>10, BusyAtTop, PoolKept DEF Parts
<1>13. ~ hmap[m].locked
  BY <1>5 DEF SafebindEnters
<1>14. /\ hmap' = [d \in Clients |-> hmap'[d]]
       /\ \A d \in Clients : d # m => hmap'[d] = hmap[d]
       /\ hmap'[m] = [hmap[m] EXCEPT !.locked = ~ hmap[m].del /\ ~ hmap[m].cl]
  BY <1>5, <1>7 DEF SafebindEnters
<1>15. /\ hmap'[m] \in Infos /\ hmap'[m].refcnt = hmap[m].refcnt
       /\ hmap'[m].cl = hmap[m].cl /\ hmap'[m].del = hmap[m].del
       /\ hmap'[m].locked = (~ hmap[m].del /\ ~ hmap[m].cl)
  BY <1>7, <1>14 DEF InfoOK, Infos
<1>16. TopPlace(c) \in Holders(m)
  BY <1>2, <1>3 DEF Holders
<1>17. HasInfo(m) /\ hmap[m].refcnt \in Nat /\ hmap[m].refcnt >= 1
  BY <1>7, <1>16, HolderIsCounted
<1>18. hmap'[m] # NoInfo
  BY <1>15, <1>17 DEF NoInfo, hinfo
<1>19. \A d \in Clients : InfoOK(d)'
  BY <1>7, <1>14, <1>15, <1>17 DEF HandleInv, InfoOK
<1>20. HandlesAreCounted'
  BY <1>2, <1>3, <1>6, <1>7, <1>10, <1>14, <1>15, <1>17, <1>18, HoldersAtTop, CountsKeptInMap
<1>21. HandleInv'
  <2>1. \A x \in Frames' : x \in Frames /\ FrameOK(x[2], Frame(x)) /\ HandleOK(x[2], Frame(x))
    BY <1>7, <1>10 DEF TopBecomes, Parts, ShapeInv, HandleInv
  <2>2. \A x \in Frames' : x # TopPlace(c) => Frame(x)' = Frame(x)
    BY <1>10 DEF TopBecomes
  <2>3. \A x \in Frames' : x = TopPlace(c) => Frame(x)' = f
    BY <1>10 DEF TopBecomes
  <2>4. \A x \in Frames' : x # TopPlace(c) =>
          ~ (Frame(x)'.pc = "binding" /\ Frame(x)'.dest = m)
    BY <1>13, <2>1, <2>2 DEF HandleOK
  <2>5. \A x \in Frames' : \A h : h = Frame(x)' =>
           /\ h.pc = "binding" =>
                hmap'[h.dest].locked /\ ~ hmap'[h.dest].cl /\ ~ hmap'[h.dest].del
           /\ h.pc \in {"bound", "calling", "called"} /\ x[2] \in {1, 3} =>
                hmap'[h.dest].cl
           /\ h.pc = "null" => \E d \in Clients : hmap'[d].del
    <3> SUFFICES ASSUME NEW x \in Frames', NEW h, h = Frame(x)'
                 PROVE  /\ h.pc = "binding" =>
                             hmap'[h.dest].locked /\ ~ hmap'[h.dest].cl /\ ~ hmap'[h.dest].del
                        /\ h.pc \in {"bound", "calling", "called"} /\ x[2] \in {1, 3} =>
                             hmap'[h.dest].cl
                        /\ h.pc = "null" => \E d \in Clients : hmap'[d].del
      OBVIOUS
    <3>1. CASE x = TopPlace(c)
      <4>1. h.pc = pc /\ h.dest = m
        BY <1>6, <2>3, <3>1
      <4> QED
        BY <1>4, <1>15, <4>1
    <3>2. CASE x # TopPlace(c)
      <4>1. FrameOK(x[2], h) /\ HandleOK(x[2], h) /\ ~ (h.pc = "binding" /\ h.dest = m)
        BY <2>1, <2>2, <2>4, <3>2
      <4> QED
        BY <1>14, <1>15, <4>1 DEF FrameOK, HandleOK
    <3> QED
      BY <3>1, <3>2
  <2>6. \A x \in Frames' : HandleOK(x[2], Frame(x))'
    BY <2>5 DEF HandleOK
  <2>7. \A x, y \in Frames' :
          Frame(x)'.pc = "binding" /\ Frame(y)'.pc = "binding"
            /\ Frame(x)'.dest = Frame(y)'.dest => x = y
    BY <1>6, <1>7, <2>1, <2>2, <2>3, <2>4 DEF HandleInv
  <2> QED
    BY <1>14, <1>19, <2>6, <2>7 DEF HandleInv
<1> QED
  BY <1>1, <1>2, <1>10, <1>11, <1>12, <1>20, <1>21 DEF Parts, DiesOnlyOfAFailedBind

LEMMA BindStep ==
  ASSUME Parts, NEW c \in Clients, Bind(c)
  PROVE  Parts'
<1> DEFINE k == Len(stack[c])
<1>1. At(c, "binding") /\ UNCHANGED << poolVars, kind, result, stopped >>
  BY DEF Bind
<1>2. /\ Top(c).pc = "binding" /\ stack[c] # << >> /\ IsFrame(Top(c))
      /\ TopPlace(c) \in Frames /\ Frame(TopPlace(c)) = Top(c) /\ TopPlace(c)[2] = k
      /\ k \in 1 .. 4 /\ FrameOK(k, Top(c)) /\ HandleOK(k, Top(c)) /\ stopped = "no"
  BY <1>1, AtFacts DEF TopPlace
<1>3. PICK m \in Clients : m = Top(c).dest
  BY <1>2 DEF FrameOK
<1>4. PICK bound \in BOOLEAN :
        BindReturns(m, bound) /\ Goto(c, IF bound THEN "bound" ELSE "null")
  BY <1>3 DEF Bind
<1>5. PICK pc \in {"bound", "null"} : pc = IF bound THEN "bound" ELSE "null"
  OBVIOUS
<1> DEFINE f == [Top(c) EXCEPT !.pc = pc]
<1>6. SetTop(c, f)
  BY <1>4, <1>5 DEF Goto
<1>7. /\ IsFrame(f) /\ f.proc = Top(c).proc /\ f.to = Top(c).to
      /\ f.pc = pc /\ f.dest = m
  BY <1>2, <1>3, FrameExcept, SMTT(30)
<1> HIDE DEF f
<1>8. hmap = [d \in Clients |-> hmap[d]] /\ InfoOK(m) /\ HandleInv /\ HandlesAreCounted
  BY DEF Parts, HandleInv
<1>9. k \in {1, 3} /\ ~ hmap[m].cl /\ ~ hmap[m].del
  BY <1>2, <1>3 DEF FrameOK, HandleOK
<1>10. FrameOK(k, f) /\ f.pc # "calling"
  BY <1>2, <1>3, <1>7, <1>9, CallsAssumption DEF FrameOK, PCs
<1>11. StackInv' /\ ShapeInv' /\ TopBecomes(c, f)
  BY <1>1, <1>6, <1>7, <1>10, TopStep
<1>12. QueueInv'
  BY <1>1, <1>2, <1>11, QueueKept DEF Parts, TopBecomes, poolVars
<1>13. PoolTypeOK' /\ Threads' /\ NoJobIsForgotten'
  BY <1>1, <1>2, <1>7, <1>11, BusyAtTop, PoolKept DEF Parts
<1>14. /\ hmap' = [d \in Clients |-> hmap'[d]]
       /\ \A d \in Clients : d # m => hmap'[d] = hmap[d]
       /\ hmap'[m] = [hmap[m] EXCEPT !.cl = bound, !.del = ~bound, !.locked = FALSE]
  BY <1>4, <1>8 DEF BindReturns
<1>15. /\ hmap'[m] \in Infos /\ hmap'[m].refcnt = hmap[m].refcnt
       /\ hmap'[m].cl = bound /\ hmap'[m].del = ~bound
  BY <1>8, <1>14 DEF InfoOK, Infos
<1>16. TopPlace(c) \in Holders(m)
  BY <1>2, <1>3 DEF Holders
<1>17. HasInfo(m) /\ hmap[m].refcnt \in Nat /\ hmap[m].refcnt >= 1
  BY <1>8, <1>16, HolderIsCounted
<1>18. hmap'[m] # NoInfo
  BY <1>15, <1>17 DEF NoInfo, hinfo
<1>19. \A d \in Clients : InfoOK(d)'
  BY <1>8, <1>14, <1>15, <1>17 DEF HandleInv, InfoOK
<1>20. HandlesAreCounted'
  BY <1>2, <1>3, <1>7, <1>8, <1>11, <1>14, <1>15, <1>17, <1>18, HoldersAtTop, CountsKeptInMap
<1>21. HandleInv'
  <2>1. \A x \in Frames' : x \in Frames /\ FrameOK(x[2], Frame(x)) /\ HandleOK(x[2], Frame(x))
    BY <1>8, <1>11 DEF TopBecomes, Parts, ShapeInv, HandleInv
  <2>2. \A x \in Frames' : x # TopPlace(c) => Frame(x)' = Frame(x)
    BY <1>11 DEF TopBecomes
  <2>3. \A x \in Frames' : x = TopPlace(c) => Frame(x)' = f
    BY <1>11 DEF TopBecomes
  <2>4. \A x \in Frames' : x # TopPlace(c) =>
          ~ (Frame(x).pc = "binding" /\ Frame(x).dest = m)
    BY <1>2, <1>3, <1>8, <2>1 DEF HandleInv
  <2>5. \A x \in Frames' : \A h : h = Frame(x)' =>
           /\ h.pc = "binding" =>
                hmap'[h.dest].locked /\ ~ hmap'[h.dest].cl /\ ~ hmap'[h.dest].del
           /\ h.pc \in {"bound", "calling", "called"} /\ x[2] \in {1, 3} =>
                hmap'[h.dest].cl
           /\ h.pc = "null" => \E d \in Clients : hmap'[d].del
    <3> SUFFICES ASSUME NEW x \in Frames', NEW h, h = Frame(x)'
                 PROVE  /\ h.pc = "binding" =>
                             hmap'[h.dest].locked /\ ~ hmap'[h.dest].cl /\ ~ hmap'[h.dest].del
                        /\ h.pc \in {"bound", "calling", "called"} /\ x[2] \in {1, 3} =>
                             hmap'[h.dest].cl
                        /\ h.pc = "null" => \E d \in Clients : hmap'[d].del
      OBVIOUS
    <3>1. CASE x = TopPlace(c)
      <4>1. h.pc = pc /\ h.dest = m
        BY <1>7, <2>3, <3>1
      <4> QED
        BY <1>5, <1>15, <4>1
    <3>2. CASE x # TopPlace(c)
      <4>1. FrameOK(x[2], h) /\ HandleOK(x[2], h) /\ ~ (h.pc = "binding" /\ h.dest = m)
        BY <2>1, <2>2, <2>4, <3>2
      <4> QED
        BY <1>9, <1>14, <4>1 DEF FrameOK, HandleOK
    <3> QED
      BY <3>1, <3>2
  <2>6. \A x \in Frames' : HandleOK(x[2], Frame(x))'
    BY <2>5 DEF HandleOK
  <2>7. \A x, y \in Frames' :
          Frame(x)'.pc = "binding" /\ Frame(y)'.pc = "binding"
            /\ Frame(x)'.dest = Frame(y)'.dest => x = y
    BY <1>7, <1>8, <2>1, <2>2, <2>3 DEF HandleInv
  <2> QED
    BY <1>14, <1>19, <2>6, <2>7 DEF HandleInv
<1> QED
  BY <1>1, <1>2, <1>11, <1>12, <1>13, <1>20, <1>21 DEF Parts, DiesOnlyOfAFailedBind

\* The handler returns: its thread is free again.
LEMMA DoneFacts ==
  ASSUME Parts, NEW e \in Endpoints, done(e), NEW x \in Busy(e),
         Busy(e)' = Busy(e) \ {x}, \A d : d # e => Busy(d)' = Busy(d)
  PROVE  PoolTypeOK' /\ Threads' /\ NoJobIsForgotten'
<1>1. /\ asleep \in [Endpoints -> 0 .. PoolSize]
      /\ awake \in [Endpoints -> 0 .. PoolSize] /\ PoolSize \in Nat
  BY PoolAssumption DEF Parts, PoolTypeOK
<1>2. /\ awake'[e] = awake[e] + 1 /\ UNCHANGED << jobq, asleep >>
      /\ \A d \in Endpoints : d # e => awake'[d] = awake[d]
      /\ awake' = [awake EXCEPT ![e] = awake[e] + 1]
  BY <1>1 DEF done
<1> DEFINE n == Cardinality(Busy(e))
           s == asleep[e]
           w == awake[e]
<1>3. n \in Nat /\ n # 0 /\ Cardinality(Busy(e)') = n - 1
  BY BusyIsFinite, FS_RemoveElement, FS_EmptySet
<1>4. s + w + n = PoolSize /\ s \in Nat /\ w \in Nat
  BY <1>1 DEF Parts, Threads
<1>5. s + (w + 1) + (n - 1) = PoolSize /\ w + 1 \in 0 .. PoolSize
  <2> HIDE DEF n, s, w
  <2> QED
    BY <1>1, <1>3, <1>4
<1>6. PoolTypeOK'
  <2>1. awake' \in [Endpoints -> 0 .. PoolSize]
    BY <1>1, <1>2, <1>5
  <2> QED
    BY <1>2, <2>1 DEF Parts, PoolTypeOK
<1>7. Threads'
  BY <1>2, <1>3, <1>5 DEF Parts, Threads
<1>8. NoJobIsForgotten'
  <2>1. Len(jobq[e]) <= w => Len(jobq[e]) <= w + 1
    <3>1. Len(jobq[e]) \in Nat
      BY DEF Parts, QueueInv
    <3> QED
      BY <1>4, <3>1
  <2> QED
    BY <1>2, <2>1 DEF Parts, NoJobIsForgotten
<1> QED
  BY <1>6, <1>7, <1>8

LEMMA ReturnStep ==
  ASSUME Parts, NEW c \in Clients, Return(c)
  PROVE  Parts'
<1> DEFINE k == Len(stack[c])
           low == Front(stack[c])
<1>1. At(c, "reply") /\ UNCHANGED << hmap, kind >> /\ stopped' \in {"no", "verify"}
  BY DEF Return
<1>2. /\ Top(c).pc = "reply" /\ stack[c] # << >>
      /\ TopPlace(c) \in Frames /\ Frame(TopPlace(c)) = Top(c)
      /\ k \in 1 .. 4 /\ FrameOK(k, Top(c))
  BY <1>1, AtFacts
<1>3. PICK e \in Endpoints : e = Top(c).to
  BY <1>2, CallsAssumption DEF FrameOK
<1>4. done(e)
  BY <1>3 DEF Return
<1>5. TopPlace(c) \in Busy(e)
  BY <1>2, <1>3 DEF Busy
<1>6. CASE low = << >>
  <2>1. stack' = [stack EXCEPT ![c] = << >>]
    BY <1>6 DEF Return
  <2>2. StackInv' /\ Ends(c)
    BY <1>1, <1>2, <1>6, <2>1, EndFacts DEF Parts
  <2>3. ShapeInv'
    BY <2>2, ShapeAtEnd DEF Parts
  <2>4. QueueInv'
    BY <1>2, <1>4, <2>2, QueueKept DEF Parts, Ends, done
  <2>5. HandleInv'
    BY <1>1, <2>2, HandleKept DEF Parts, Ends
  <2>6. Busy(e)' = Busy(e) \ {TopPlace(c)} /\ \A d : d # e => Busy(d)' = Busy(d)
    BY <1>2, <1>3, <2>2 DEF Busy, Ends
  <2>7. PoolTypeOK' /\ Threads' /\ NoJobIsForgotten'
    BY <1>4, <1>5, <2>6, DoneFacts
  <2>8. \A m \in Clients : Holders(m)' = Holders(m)
    BY <1>2, <2>2 DEF Holders, Ends
  <2>9. HandlesAreCounted'
    BY <1>1, <2>8, CountsKept DEF Parts
  <2> QED
    BY <1>1, <2>2, <2>3, <2>4, <2>5, <2>7, <2>9 DEF Parts, DiesOnlyOfAFailedBind
<1>7. CASE low # << >>
  <2> DEFINE g0 == Last(low)
             v == IF g0.to = Server THEN "called" ELSE "reply"
             g == [g0 EXCEPT !.pc = v]
             below == << c, k - 1 >>
  <2>1. stack' = [stack EXCEPT ![c] = Front(low) \o << g >>]
    BY <1>7 DEF Return
  <2>2. k \in 2 .. 4 /\ below \in Frames /\ Frame(below) = g0 /\ below # TopPlace(c)
    <3>1. IsSeq(stack[c])
      BY DEF Parts, StackInv
    <3>2. /\ IsSeq(low) /\ Len(low) = k - 1
          /\ \A i \in 1 .. k - 1 : low[i] = stack[c][i]
      BY <1>2, <3>1, FrontFacts
    <3>3. Len(low) \in Nat /\ Len(low) > 0
      <4> HIDE DEF low
      <4> QED
        BY <1>7, <3>2, FrontFacts
    <3>4. k \in 2 .. 4
      <4> HIDE DEF low, k
      <4> QED
        BY <1>2, <3>2, <3>3
    <3>5. below \in Frames /\ Frame(below) = stack[c][k - 1]
      <4>1. k - 1 \in 1 .. 4 /\ k - 1 <= k
        <5> HIDE DEF k
        <5> QED
          BY <3>4
      <4> QED
        BY <4>1, FramesAsPairs
    <3>6. g0 = stack[c][k - 1]
      <4>1. g0 = low[k - 1]
        BY <3>2 DEF Last
      <4>2. k - 1 \in 1 .. k - 1
        <5> HIDE DEF k
        <5> QED
          BY <3>4
      <4> QED
        BY <3>2, <4>1, <4>2
    <3>7. below # TopPlace(c)
      BY <3>4 DEF TopPlace
    <3> QED
      BY <3>4, <3>5, <3>6, <3>7
  <2>3. IsFrame(g0) /\ FrameOK(k - 1, g0) /\ HandleOK(k - 1, g0) /\ g0.pc = "calling"
    <3>1. below[1] = c /\ below[2] = k - 1 /\ k - 1 < k
      BY <2>2
    <3> HIDE DEF below, g0, k
    <3>2. IsFrame(g0)
      BY <2>2 DEF Parts, StackInv
    <3>3. FrameOK(k - 1, g0) /\ (g0.pc = "calling" <=> k - 1 < k)
      BY <2>2, <3>1 DEF Parts, ShapeInv, k
    <3>4. HandleOK(k - 1, g0)
      BY <2>2, <3>1 DEF Parts, HandleInv
    <3> QED
      BY <3>1, <3>2, <3>3, <3>4
  <2>4. v \in {"called", "reply"}
    OBVIOUS
  <2>5. /\ IsFrame(g) /\ g.proc = g0.proc /\ g.to = g0.to
        /\ g.pc = v /\ g.dest = g0.dest
    <3>1. \A w : /\ IsFrame([g0 EXCEPT !.pc = w]) /\ [g0 EXCEPT !.pc = w].proc = g0.proc
                 /\ [g0 EXCEPT !.pc = w].to = g0.to /\ [g0 EXCEPT !.pc = w].pc = w
                 /\ [g0 EXCEPT !.pc = w].dest = g0.dest
      <4> HIDE DEF g0
      <4> QED
        BY <2>3, FrameExcept
    <3> QED
      BY <3>1
  <2>6. k - 1 \in {1, 3} <=> g0.to = Server
    BY <2>3, CallsAssumption DEF FrameOK
  <2>7. v = IF k - 1 \in {1, 3} THEN "called" ELSE "reply"
    BY <2>6
  <2>8. k - 1 \in 1 .. 3
    <3> HIDE DEF k
    <3> QED
      BY <2>2
  <2> HIDE DEF g, g0, v
  <2>9. FrameOK(k - 1, g) /\ HandleOK(k - 1, g)
    <3> DEFINE j == k - 1
    <3>1. /\ FrameOK(j, g0) /\ HandleOK(j, g0) /\ j \in 1 .. 3
          /\ v = IF j \in {1, 3} THEN "called" ELSE "reply"
      BY <2>3, <2>7, <2>8
    <3> HIDE DEF j
    <3>2. FrameOK(j, g)
      BY <2>3, <2>5, <3>1 DEF FrameOK, PCs
    <3>3. HandleOK(j, g)
      BY <2>3, <2>5, <3>1 DEF HandleOK
    <3> QED
      BY <3>2, <3>3 DEF j
  <2>10. StackInv' /\ ReturnsTo(c, g)
    BY <1>1, <1>2, <1>7, <2>1, <2>5, PopFacts DEF Parts
  <2>11. ShapeInv'
    BY <1>2, <2>4, <2>5, <2>9, <2>10, ShapeAtReturn DEF Parts
  <2>12. QueueInv'
    BY <1>2, <1>4, <2>10, QueueKept DEF Parts, ReturnsTo, done
  <2>13. below[2] = k - 1
    OBVIOUS
  <2>14. /\ Frames' = Frames \ {TopPlace(c)}
         /\ \A x \in Frames' : Frame(x)' = IF x = below THEN g ELSE Frame(x)
    BY <2>10 DEF ReturnsTo
  <2> HIDE DEF below, k
  <2>15. HandleInv'
    <3>1. \A x \in Frames' : \A h : h = Frame(x)' =>
            (x \in Frames /\ h = Frame(x)) \/ (HandleOK(x[2], h) /\ h.pc # "binding")
      BY <2>4, <2>5, <2>9, <2>13, <2>14
    <3> QED
      BY <1>1, <3>1, HandleKept DEF Parts
  <2>16. Busy(e)' = Busy(e) \ {TopPlace(c)} /\ \A d : d # e => Busy(d)' = Busy(d)
    BY <1>2, <1>3, <2>2, <2>3, <2>4, <2>5, <2>14 DEF Busy
  <2>17. PoolTypeOK' /\ Threads' /\ NoJobIsForgotten'
    BY <1>4, <1>5, <2>16, DoneFacts
  <2>18. \A m \in Clients : Holders(m)' = Holders(m)
    <3>1. g0.dest \in Clients => g.pc = "called"
      BY <2>3, <2>5, <2>7 DEF FrameOK
    <3> QED
      BY <1>2, <2>2, <2>3, <2>5, <2>14, <3>1 DEF Holders
  <2>19. HandlesAreCounted'
    BY <1>1, <2>18, CountsKept DEF Parts
  <2> QED
    BY <1>1, <2>10, <2>11, <2>12, <2>15, <2>17, <2>19 DEF Parts, DiesOnlyOfAFailedBind
<1> QED
  BY <1>6, <1>7

LEMMA StutterStep ==
  ASSUME Parts, UNCHANGED vars
  PROVE  Parts'
<1>1. UNCHANGED << jobq, asleep, awake, hmap, kind, stack, result, stopped >>
  BY DEF vars, poolVars, callVars
<1>2. Frames' = Frames /\ \A x : Frame(x)' = Frame(x)
  BY <1>1 DEF Frames, Frame
<1>3. StackInv'
  BY <1>1, <1>2 DEF Parts, StackInv
<1>4. ShapeInv'
  BY <1>1, <1>2 DEF Parts, ShapeInv
<1>5. QueueInv'
  BY <1>1 DEF Parts, QueueInv, Top
<1>6. HandleInv'
  BY <1>1, <1>2, HandleKept DEF Parts
<1>7. PoolTypeOK' /\ Threads' /\ NoJobIsForgotten'
  BY <1>1, <1>2, PoolKept DEF Parts, Busy, poolVars
<1>8. HandlesAreCounted'
  BY <1>1, <1>2, CountsKept DEF Parts, Holders
<1> QED
  BY <1>1, <1>3, <1>4, <1>5, <1>6, <1>7, <1>8 DEF Parts, DiesOnlyOfAFailedBind

LEMMA NextParts ==
  Parts /\ [Next]_vars => Parts'
<1> SUFFICES ASSUME Parts, [Next]_vars
             PROVE  Parts'
  OBVIOUS
<1>1. CASE UNCHANGED vars
  BY <1>1, StutterStep
<1>2. ASSUME NEW c \in Clients,
             \/ Start(c) \/ GotPdu(c) \/ MakeHandle(c) \/ NoCall(c) \/ CallServer(c)
             \/ Safebind(c) \/ Bind(c) \/ CallBack(c) \/ CallOnNull(c)
             \/ DestroyHandle(c) \/ Return(c)
      PROVE  Parts'
  BY <1>2, StartStep, GotPduStep, MakeHandleStep, NoCallStep, CallServerStep,
     SafebindStep, BindStep, CallBackStep, CallOnNullStep, DestroyHandleStep,
     ReturnStep
<1>3. ASSUME NEW e \in Endpoints, Dispatch(e) \/ Sleep(e)
      PROVE  Parts'
  BY <1>3, DispatchStep, SleepStep
<1> QED
  BY <1>1, <1>2, <1>3 DEF Next

-----------------------------------------------------------------------------
(***************************************************************************)
(* The tables of procedures                                                *)
(***************************************************************************)

LEMMA ProcNames ==
  Procs = {"acquire", "release", "create", "get", "getattr", "stat", "revoke",
           "retry", "flush", "get_attr", "put"}
  BY DEF Procs, lock_protocol, rlock_protocol, extent_protocol, rextent_protocol

\* dispatch finds one handler for a number.
LEMMA NumbersDiffer ==
  ASSUME NEW p \in Procs
  PROVE  /\ number[p] \in Int
         /\ \A q \in Procs : number[q] = number[p] => q = p
<1>1. /\ number["acquire"] = 28673 /\ number["release"] = 28674 /\ number["stat"] = 28675
      /\ number["revoke"] = 32769 /\ number["retry"] = 32770
      /\ number["put"] = 24577 /\ number["get"] = 24578 /\ number["getattr"] = 24579
      /\ number["create"] = 24581
      /\ number["flush"] = 36865 /\ number["get_attr"] = 36866
  BY ProcNames DEF Together, number, lock_protocol, rlock_protocol,
                   extent_protocol, rextent_protocol
<1> QED
  BY <1>1, ProcNames

\* The arguments of each call ...
LEMMA CallTypes ==
  /\ \A p \in {"acquire", "release"} : called[p][1] = << "ull", "string" >>
  /\ called["stat"][1] = << "int", "ull" >>
  /\ called["create"][1] = << "string", "int" >>
  /\ \A p \in {"get", "getattr"} : called[p][1] = << "string", "ull" >>
  /\ called["put"][1] = << "string", "ull", "string" >>
  /\ \A p \in {"revoke", "retry", "flush", "get_attr"} : called[p][1] = << "ull" >>
  BY ProcNames DEF Together, called, lock_call, stat_call, extent_call, callback_call

\* ... are those its handler takes, for all but stat; the results are always.
LEMMA TypesAgree ==
  ASSUME NEW p \in Procs
  PROVE  /\ p # "stat" => handler[p][1] = called[p][1]
         /\ handler["stat"][1] = << "ull" >>
         /\ handler[p][2] = called[p][2]
         /\ handler[p][2] \in {"int", "ull", "string", "attr"}
  BY ProcNames, SMTT(30) DEF Together, called, lock_call, stat_call, extent_call, callback_call,
     handler, lock_handler, extent_handler, lock_client_handler, extent_client_handler

LEMMA ValueIsValue ==
  ASSUME NEW type \in {"int", "ull", "string", "attr"}
  PROVE  IsValue(type, Value(type))
  BY DEF IsValue, Value

\* Who may make the call p: the server calls the clients back.
MaySend(s, p) ==
  s \in Endpoints /\ p \in Procs /\ (s = Server => p \in DOMAIN callback_call)

LEMMA ArgsAreValues ==
  ASSUME NEW s, NEW p, MaySend(s, p)
  PROVE  /\ AreValues(called[p][1], Args(s, p))
         /\ Args(s, p) = [i \in 1 .. Len(called[p][1]) |-> Args(s, p)[i]]
<1> DEFINE types == called[p][1]
           a(i) == IF types[i] = "string" /\ (i = 1 \/ p \in {"acquire", "release"})
                   THEN Name[s] ELSE Value(types[i])
<1>1. p \in Procs
  BY DEF MaySend
<1>2. /\ Len(types) \in Nat
      /\ \A i \in 1 .. Len(types) : types[i] \in {"int", "ull", "string", "attr"}
  BY <1>1, CallTypes, ProcNames, SMTT(30)
<1>3. (\E i \in 1 .. Len(types) : types[i] = "string") => Name[s] \in Seq(Int)
  <2>1. SUFFICES ASSUME \E i \in 1 .. Len(types) : types[i] = "string"
                 PROVE  Name[s] \in Seq(Int)
    OBVIOUS
  <2>2. p \notin {"revoke", "retry", "flush", "get_attr"}
    BY <2>1, CallTypes
  <2>3. s \in Clients
    BY <2>2, CallsAssumption DEF MaySend, callback_call
  <2>4. Name[s] \in Seq(Nat)
    BY <2>3, CallsAssumption
  <2> QED
    BY <2>4
<1>4. Args(s, p) = [i \in 1 .. Len(types) |-> a(i)]
  BY Zenon DEF Args
<1> HIDE DEF types
<1>5. ASSUME NEW i \in 1 .. Len(types)
      PROVE  IsValue(types[i], a(i))
  <2>1. types[i] \in {"int", "ull", "string", "attr"}
    BY <1>2
  <2>2. IsValue(types[i], Value(types[i]))
    BY <2>1, ValueIsValue, Zenon
  <2>3. types[i] = "string" => IsValue(types[i], Name[s])
    BY <1>3, Zenon DEF IsValue
  <2> QED
    BY <2>2, <2>3, Zenon
<1> HIDE DEF a
<1>6. \A i \in 1 .. Len(types) : Args(s, p)[i] = a(i)
  BY <1>4
<1>7. AreValues(types, Args(s, p))
  BY <1>2, <1>5, <1>6, Zenon DEF AreValues
<1>8. Args(s, p) = [i \in 1 .. Len(types) |-> Args(s, p)[i]]
  BY <1>4
<1> QED
  BY <1>7, <1>8, Zenon DEF types

\* The header of the n-th request.
Header(p, n) ==
  [xid |-> n, proc |-> number[p], clt_nonce |-> 12, srv_nonce |-> 13, xid_rep |-> 0]

LEMMA PduIsCall ==
  ASSUME NEW s, NEW p, NEW n \in 1 .. 4, MaySend(s, p)
  PROVE  /\ Pdu(s, p, n) = call(Header(p, n), called[p][1], Args(s, p))
         /\ Pdu(s, p, n) \in Pdus
         /\ IsHeader(Header(p, n)) /\ Header(p, n).proc = number[p]
<1> DEFINE h == Header(p, n)
           types == called[p][1]
           args == Args(s, p)
           pdu == call(h, types, args)
<1>1. s \in Endpoints /\ p \in Procs /\ ~ (s = Server /\ p \notin DOMAIN callback_call)
  BY Zenon DEF MaySend
<1>2. Pdu(s, p, n) = pdu
  <2>1. pdus[s] = [q \in Procs |-> [k \in 1 .. 4 |->
          IF s = Server /\ q \notin DOMAIN callback_call THEN << >>
          ELSE call(Header(q, k), called[q][1], Args(s, q))]]
    BY <1>1, Zenon DEF pdus, Header
  <2>2. pdus[s][p] = [k \in 1 .. 4 |->
          IF s = Server /\ p \notin DOMAIN callback_call THEN << >>
          ELSE call(Header(p, k), called[p][1], Args(s, p))]
    BY <1>1, <2>1, Zenon
  <2>3. pdus[s][p][n] = pdu
    BY <1>1, <2>2, Zenon
  <2> QED
    BY <2>3, Zenon DEF Pdu
<1>3. IsHeader(h) /\ h.proc = number[p]
  <2>1. number[p] \in Int
    BY <1>1, NumbersDiffer, Zenon
  <2> QED
    BY <2>1 DEF IsHeader, Header
<1>4. pdu # << >>
  <2>1. AreValues(types, args)
    BY ArgsAreValues, Zenon
  <2> HIDE DEF h, types, args
  <2>2. Carries(h, types, args)
    BY <1>3, <2>1, WhatIsSent, Zenon
  <2>3. Len(pdu) >= 6
    BY <2>2, Zenon DEF Carries
  <2> HIDE DEF pdu
  <2> QED
    BY <2>3
<1>5. pdu \in Pdus
  <2> HIDE DEF pdu
  <2> QED
    BY <1>1, <1>2, <1>4 DEF Pdus
<1> QED
  BY <1>2, <1>3, <1>5, Zenon

\* stat: its int and its lock have three cells, and the handler reads two.
LEMMA StatDoesNotFit ==
  ASSUME NEW s, NEW n \in 1 .. 4, MaySend(s, "stat")
  PROVE  ~ okdone(read_args(Pdu(s, "stat", n), << "ull" >>))
<1> DEFINE h == Header("stat", n)
           types == << "int", "ull" >>
           args == Args(s, "stat")
           pdu == call(h, types, args)
           w == written(types, args)
           taken == << "ull" >>
           u == Reading(pdu, 6, << >>)
           p == parsed(u, taken)
           raw == rawbytes(u, 2)
<1>1. called["stat"][1] = types
  BY CallTypes, Zenon
<1>2. AreValues(types, args)
  BY <1>1, ArgsAreValues, Zenon
<1>3. Pdu(s, "stat", n) = pdu /\ IsHeader(h)
  BY <1>1, PduIsCall, Zenon
<1>4. Len(types) = 2 /\ types[1] = "int" /\ types[2] = "ull"
  OBVIOUS
<1> HIDE DEF h, types, args
<1>5. pdu \in Seq(Int) /\ Len(pdu) = Len(w[2].buf)
  <2>1. Carries(h, types, args)
    BY <1>2, <1>3, WhatIsSent, Zenon
  <2> QED
    BY <1>4, <2>1, Zenon DEF Carries
<1>6. Len(w[2].buf) = 9
  <2>1. IsValue("int", args[1]) /\ IsValue("ull", args[2])
    BY <1>2, <1>4 DEF AreValues
  <2>2. /\ cells("int", args[1]) \in Seq(Int) /\ Len(cells("int", args[1])) = 1
        /\ cells("ull", args[2]) \in Seq(Int) /\ Len(cells("ull", args[2])) = 2
    BY <2>1, CellsOfValue DEF IsValue
  <2>3. /\ w[0] = marshall /\ AtEnd(w[0]) /\ AtEnd(w[1]) /\ AtEnd(w[2])
        /\ w[1].buf = w[0].buf \o cells("int", args[1])
        /\ w[2].buf = w[1].buf \o cells("ull", args[2])
    <3>1. /\ \A i \in 0 .. 2 : AtEnd(w[i])
          /\ w[0] = marshall
          /\ \A i \in 1 .. 2 : w[i].buf = w[i - 1].buf \o cells(types[i], args[i])
      <4>1. Len(types) \in Nat /\ \A i \in 1 .. Len(types) : IsValue(types[i], args[i])
        BY <1>2, Zenon DEF AreValues
      <4> DEFINE N == Len(types)
      <4>2. /\ \A i \in 0 .. N : AtEnd(w[i])
            /\ w[0] = marshall
            /\ \A i \in 1 .. N : w[i].buf = w[i - 1].buf \o cells(types[i], args[i])
        BY <4>1, WrittenBuffers
      <4>3. N = 2
        BY <1>4
      <4> HIDE DEF N
      <4> QED
        BY <4>2, <4>3, Zenon
    <3>2. 0 \in 0 .. 2 /\ 1 \in 0 .. 2 /\ 2 \in 0 .. 2 /\ 1 \in 1 .. 2 /\ 2 \in 1 .. 2
          /\ 1 - 1 = 0 /\ 2 - 1 = 1
      OBVIOUS
    <3> HIDE DEF w
    <3>3. AtEnd(w[0]) /\ AtEnd(w[1]) /\ AtEnd(w[2])
      BY <3>1, <3>2, Zenon
    <3>4. w[1].buf = w[0].buf \o cells("int", args[1])
      BY <1>4, <3>1, <3>2, Zenon
    <3>5. w[2].buf = w[1].buf \o cells("ull", args[2])
      BY <1>4, <3>1, <3>2, Zenon
    <3> QED
      BY <3>1, <3>3, <3>4, <3>5, Zenon
  <2> DEFINE b0 == w[0].buf
             b1 == w[1].buf
             b2 == w[2].buf
             c1 == cells("int", args[1])
             c2 == cells("ull", args[2])
  <2>4. /\ b0 \in Seq(Int) /\ b1 \in Seq(Int) /\ c1 \in Seq(Int) /\ c2 \in Seq(Int)
        /\ b1 = b0 \o c1 /\ b2 = b1 \o c2
    BY <2>2, <2>3, Zenon DEF AtEnd
  <2>5. Len(b0) = 6 /\ Len(c1) = 1 /\ Len(c2) = 2
    BY <2>2, <2>3, NewBuffer, Zenon
  <2> HIDE DEF b0, b1, b2, c1, c2
  <2>6. Len(b1) = Len(b0) + Len(c1) /\ Len(b2) = Len(b1) + Len(c2)
    BY <2>4
  <2>7. Len(b2) = 9
    BY <2>5, <2>6
  <2> QED
    BY <2>7 DEF b2
<1>7. Len(pdu) = 9
  BY <1>5, <1>6, Zenon
<1> HIDE DEF w, pdu
<1>8. get_value(u, "ull") = advance(u, 2, raw)
  <2>1. 6 \in Nat /\ 2 \in Nat /\ 6 + 2 <= Len(pdu)
    BY <1>7
  <2>2. ReadsCells(pdu, 6, << >>, 2)
    BY <1>5, <2>1, RawCells, Zenon
  <2>3. raw \in Seq(Int) /\ Len(raw) = 2
    BY <2>2, Zenon DEF ReadsCells
  <2> HIDE DEF raw, u
  <2>4. raw # << >>
    <3>1. Len(raw) # 0
      BY <2>3
    <3> QED
      BY <2>3, <3>1, EmptySeq
  <2> QED
    BY <2>4, Zenon DEF get_value, raw
<1>9. advance(u, 2, raw) = Reading(pdu, 6 + 2, Append(<< >>, raw))
  <2>1. 6 \in Nat /\ 2 \in Nat /\ 6 + 2 <= Len(pdu)
    BY <1>7
  <2>2. Advances(pdu, 6, << >>, 2, raw)
    BY <1>5, <2>1, AdvanceReads, Zenon
  <2> QED
    BY <2>2, Zenon DEF Advances
<1>10. read_args(pdu, taken) = p[1]
  <2>1. Len(taken) = 1
    OBVIOUS
  <2> QED
    BY <2>1, BehindHeader, Zenon DEF read_args
<1>11. p[1] = get_value(u, "ull")
  <2>1. Len(taken) \in Nat /\ 0 \in 0 .. Len(taken) /\ 1 \in 0 .. Len(taken) /\ 1 - 1 = 0
        /\ 1 # 0 /\ taken[1] = "ull"
    OBVIOUS
  <2> HIDE DEF u, taken
  <2>2. \A i \in 0 .. Len(taken) : p[i] =
          IF i = 0 THEN u ELSE get_value(p[i - 1], taken[i])
    BY <2>1, ParsedIsDefined
  <2> HIDE DEF p
  <2> QED
    BY <2>1, <2>2, Zenon
<1>12. ~ okdone(Reading(pdu, 6 + 2, Append(<< >>, raw)))
  <2> DEFINE v == Append(<< >>, raw)
             r == Reading(pdu, 6 + 2, v)
  <2> HIDE DEF v
  <2>1. r.ind = 6 + 2 /\ r.buf = pdu
    BY DEF Reading
  <2> HIDE DEF r
  <2>2. r.ind # Len(r.buf)
    BY <1>7, <2>1
  <2>3. ~ okdone(r)
    BY <2>2, Zenon DEF okdone
  <2> QED
    BY <2>3, Zenon DEF r, v
<1> QED
  BY <1>3, <1>8, <1>9, <1>10, <1>11, <1>12, Zenon

\* What the thread that takes the request makes of it.
Accepts(s, p, n) ==
  LET h == fn[Pdu(s, p, n)]
  IN  IF p = "stat" THEN h.ret = unmarshal_args_failure
      ELSE h.ret = 0 /\ h.args = Args(s, p)

LEMMA Dispatched ==
  ASSUME NEW s, NEW p, NEW n \in 1 .. 4, MaySend(s, p)
  PROVE  Accepts(s, p, n)
<1> DEFINE pdu == Pdu(s, p, n)
           q == CHOOSE r \in Procs : number[r] = unpack_req_header(unmarshall(pdu)).proc
           types == called[p][1]
           args == Args(s, p)
           h == Header(p, n)
<1>1. /\ p \in Procs /\ pdu \in Pdus /\ pdu = call(h, types, args)
      /\ IsHeader(h) /\ h.proc = number[p]
  BY PduIsCall, Zenon DEF MaySend
<1>2. /\ AreValues(types, args) /\ args = [i \in 1 .. Len(types) |-> args[i]]
  BY ArgsAreValues, Zenon
<1> HIDE DEF pdu, types, args, h
<1>3. /\ unpack_req_header(unmarshall(pdu)).proc = h.proc
      /\ okdone(read_args(pdu, types))
      /\ read_args(pdu, types).values = [i \in 1 .. Len(types) |-> args[i]]
  <2>1. ArgumentsAreRead(h, types, args)
    BY <1>1, <1>2, ArgumentsRoundTrip, Zenon
  <2> QED
    BY <1>1, <2>1, Zenon DEF ArgumentsAreRead
<1>4. q = p
  BY <1>1, <1>3, NumbersDiffer, Zenon
<1> HIDE DEF q
<1> DEFINE u == read_args(pdu, handler[p][1])
<1>5. fn[pdu] = IF okdone(u) THEN [ret |-> 0, args |-> u.values]
                ELSE [ret |-> unmarshal_args_failure, args |-> << >>]
  BY <1>1, <1>4, Zenon DEF fn, q
<1>6. CASE p # "stat"
  <2>1. handler[p][1] = types
    BY <1>1, <1>6, TypesAgree, Zenon DEF types
  <2>2. okdone(u) /\ u.values = args
    BY <1>2, <1>3, <2>1, Zenon
  <2> HIDE DEF u
  <2>3. fn[pdu] = [ret |-> 0, args |-> args]
    BY <1>5, <2>2, Zenon
  <2>4. fn[pdu].ret = 0 /\ fn[pdu].args = args
    BY <2>3
  <2> QED
    BY <1>6, <2>4, Zenon DEF Accepts, pdu, args
<1>7. CASE p = "stat"
  <2>1. handler[p][1] = << "ull" >>
    BY <1>1, <1>7, TypesAgree, Zenon
  <2>2. ~ okdone(u)
    BY <1>7, <2>1, StatDoesNotFit, Zenon DEF pdu
  <2> HIDE DEF u
  <2>3. fn[pdu] = [ret |-> unmarshal_args_failure, args |-> << >>]
    BY <1>5, <2>2, Zenon
  <2>4. fn[pdu].ret = unmarshal_args_failure
    BY <2>3
  <2> QED
    BY <1>7, <2>4, Zenon DEF Accepts, pdu
<1> QED
  BY <1>6, <1>7, Zenon

\* What the caller makes of the reply.
LEMMA Answered ==
  ASSUME NEW p \in Procs, NEW n \in 1 .. 4
  PROVE  /\ Answer(p, 0, n).verify
         /\ Answer(p, 0, n).intret = 0
         /\ Answer(p, 0, n).r = Value(called[p][2])
         /\ Answer(p, unmarshal_args_failure, n).verify
<1> DEFINE type == called[p][2]
           v == Value(type)
           no == unmarshal_args_failure
           one(ret) == call_m(reply(n, ret, type, v), type)
<1>1. handler[p][2] = type /\ type \in {"int", "ull", "string", "attr"}
  BY TypesAgree
<1>2. IsValue(type, v)
  BY <1>1, ValueIsValue, Zenon
<1>3. \A ret \in {0, no} : Answer(p, ret, n) = one(ret)
  <2>1. answers[p] = [ret \in {0, no} |-> [k \in 1 .. 4 |->
          call_m(reply(k, ret, handler[p][2], Value(handler[p][2])), called[p][2])]]
    BY Zenon DEF answers
  <2>2. \A ret \in {0, no} : answers[p][ret] = [k \in 1 .. 4 |->
          call_m(reply(k, ret, handler[p][2], Value(handler[p][2])), called[p][2])]
    BY <2>1, Zenon
  <2> QED
    BY <1>1, <2>2, ZenonT(60) DEF Answer
<1>4. n \in Int /\ 0 \in Nat
  OBVIOUS
<1> HIDE DEF type, v
<1>5. one(0).verify /\ one(0).intret = 0 /\ one(0).r = v
  <2>1. ReplyIsRead(n, 0, type, v)
    BY <1>2, <1>4, ReplyRoundTrip, Zenon
  <2> QED
    BY <2>1, Zenon DEF ReplyIsRead
<1>6. one(no).verify
  BY <1>4, RefusalRoundTrip, Zenon
<1>7. Answer(p, 0, n) = one(0) /\ Answer(p, no, n) = one(no)
  BY <1>3, Zenon
<1> HIDE DEF one, no
<1> QED
  BY <1>5, <1>6, <1>7, Zenon DEF type, v, no

-----------------------------------------------------------------------------
(***************************************************************************)
(* What the requests carry                                                 *)
(***************************************************************************)

\* A request below another one, and the process that has made the upper one.
LEMMA BelowIsFrame ==
  ASSUME StackInv, NEW x \in Frames, x[2] # 1
  PROVE  /\ << x[1], x[2] - 1 >> \in Frames
         /\ Sender(x) = Frame(<< x[1], x[2] - 1 >>).to
         /\ << x[1], x[2] - 1 >>[2] = x[2] - 1
<1> DEFINE c == x[1]
           n == x[2]
<1>1. c \in Clients /\ n \in 1 .. 4 /\ n <= Len(stack[c]) /\ n # 1 /\ Len(stack[c]) \in Nat
  BY DEF Frames, StackInv, IsSeq
<1> HIDE DEF c, n
<1>2. n - 1 \in 1 .. 4 /\ n - 1 <= Len(stack[c])
  BY <1>1
<1>3. << c, n - 1 >> \in Frames /\ Frame(<< c, n - 1 >>) = stack[c][n - 1]
  BY <1>1, <1>2, FramesAsPairs
<1>4. Sender(x) = stack[c][n - 1].to
  BY DEF Sender, c, n
<1> QED
  BY <1>3, <1>4 DEF c, n

\* Every request is one that its sender may make.
LEMMA SenderMaySend ==
  ASSUME Parts, NEW x \in Frames
  PROVE  MaySend(Sender(x), Frame(x).proc) /\ x[2] \in 1 .. 4
<1>1. x[1] \in Clients /\ x[2] \in 1 .. 4 /\ StackInv
  BY DEF Frames, Parts
<1>2. Frame(x).proc \in Calls[x[2]]
  BY DEF Parts, ShapeInv, FrameOK
<1>3. DOMAIN callback_call = {"revoke", "retry", "flush", "get_attr"}
  BY DEF callback_call
<1>4. CASE x[2] = 1
  <2>1. Sender(x) = x[1]
    BY <1>4 DEF Sender
  <2> QED
    BY <1>1, <1>2, <1>4, <2>1, CallsAreProcs, CallsAssumption DEF MaySend, Calls
<1>5. CASE x[2] # 1
  <2> DEFINE y == << x[1], x[2] - 1 >>
  <2>1. y \in Frames /\ Sender(x) = Frame(y).to /\ y[2] = x[2] - 1
    BY <1>1, <1>5, BelowIsFrame
  <2> HIDE DEF y
  <2>2. FrameOK(x[2] - 1, Frame(y))
    BY <2>1 DEF Parts, ShapeInv
  <2>3. x[2] \in {2, 3, 4}
    BY <1>1, <1>5
  <2>4. IF x[2] = 3 THEN Sender(x) \in Clients ELSE Sender(x) = Server
    BY <2>1, <2>2, <2>3 DEF FrameOK
  <2>5. Frame(x).proc \in Procs
    BY <1>2, <2>3, CallsAreProcs DEF Calls
  <2>6. x[2] # 3 => Frame(x).proc \in DOMAIN callback_call
    BY <1>2, <1>3, <2>3 DEF Calls
  <2>7. Sender(x) \in Endpoints
    BY <2>4, CallsAssumption
  <2>8. Sender(x) = Server => x[2] # 3
    BY <2>4, CallsAssumption
  <2> QED
    BY <1>1, <2>5, <2>6, <2>7, <2>8, Zenon DEF MaySend
<1> QED
  BY <1>1, <1>4, <1>5

\* PayloadInv after a step, request by request.
LEMMA PayloadStep ==
  ASSUME \A x \in Frames' : PayloadOK(Sender(x)', x[2], Frame(x)')
  PROVE  PayloadInv'
  BY DEF PayloadInv, PayloadOK, HandledOK, ArgumentsOf

\* A process stays the sender of the request above it as long as it runs it.
LEMMA SenderKept ==
  ASSUME StackInv, StackInv', NEW x \in Frames, x \in Frames',
         \A y \in Frames : y \in Frames' => Frame(y)'.to = Frame(y).to
  PROVE  Sender(x)' = Sender(x)
<1>1. CASE x[2] = 1
  BY <1>1 DEF Sender
<1>2. CASE x[2] # 1
  <2> DEFINE y == << x[1], x[2] - 1 >>
  <2>1. y \in Frames /\ Sender(x) = Frame(y).to
    BY <1>2, BelowIsFrame
  <2>2. y \in Frames' /\ Sender(x)' = Frame(y)'.to
    <3> DEFINE c == x[1]
               n == x[2]
    <3>1. c \in Clients /\ n \in 1 .. 4 /\ n <= Len(stack'[c]) /\ n # 1 /\ Len(stack'[c]) \in Nat
      BY <1>2 DEF Frames, StackInv, IsSeq
    <3> HIDE DEF c, n
    <3>2. n - 1 \in 1 .. 4 /\ n - 1 <= Len(stack'[c])
      BY <3>1
    <3>3. << c, n - 1 >> \in Clients \X (1 .. 4) /\ << c, n - 1 >>[1] = c
          /\ << c, n - 1 >>[2] = n - 1
      BY <3>1, <3>2
    <3>4. y \in Frames'
      BY <3>2, <3>3 DEF Frames, c, n
    <3>5. Frame(y)' = stack'[c][n - 1]
      BY <3>3 DEF Frame, c, n
    <3>6. Sender(x)' = stack'[c][n - 1].to
      BY <1>2 DEF Sender, c, n
    <3> QED
      BY <3>4, <3>5, <3>6
  <2> HIDE DEF y
  <2> QED
    BY <2>1, <2>2
<1> QED
  BY <1>1, <1>2

\* The innermost request changes ...
LEMMA PayloadAtTop ==
  ASSUME Parts, PayloadInv, NEW c \in Clients, NEW pc, At(c, pc),
         NEW f, IsFrame(f), SetTop(c, f), UNCHANGED kind, f.to = Top(c).to,
         PayloadOK(Sender(TopPlace(c)), Len(stack[c]), f)
  PROVE  PayloadInv'
<1>1. /\ StackInv /\ stack[c] # << >> /\ TopPlace(c) \in Frames
      /\ Frame(TopPlace(c)) = Top(c)
  BY AtFacts DEF Parts
<1>2. StackInv' /\ TopBecomes(c, f)
  BY <1>1, SetTopFacts
<1>3. /\ Frames' = Frames
      /\ \A x \in Frames : Frame(x)' = IF x = TopPlace(c) THEN f ELSE Frame(x)
  BY <1>2 DEF TopBecomes
<1>4. \A y \in Frames : Frame(y)'.to = Frame(y).to
  BY <1>1, <1>3
<1>5. TopPlace(c)[2] = Len(stack[c])
  BY DEF TopPlace
<1>6. ASSUME NEW x \in Frames'
      PROVE  PayloadOK(Sender(x)', x[2], Frame(x)')
  <2>1. x \in Frames /\ Sender(x)' = Sender(x)
    BY <1>1, <1>2, <1>3, <1>4, SenderKept
  <2>2. CASE x = TopPlace(c)
    BY <1>3, <1>5, <2>1, <2>2
  <2>3. CASE x # TopPlace(c)
    BY <1>3, <2>1, <2>3 DEF PayloadInv
  <2> QED
    BY <2>2, <2>3
<1> QED
  BY <1>6, PayloadStep

\* ... in a way that does not touch what it carries, ...
LEMMA PayloadGoesOn ==
  ASSUME Parts, PayloadInv, NEW c \in Clients, NEW pc, At(c, pc),
         NEW f, IsFrame(f), SetTop(c, f), UNCHANGED kind,
         f.to = Top(c).to, f.proc = Top(c).proc, f.pdu = Top(c).pdu,
         f.got = Top(c).got, f.ret = Top(c).ret,
         f.pc \in {"sent", "queued"} <=> pc \in {"sent", "queued"}
  PROVE  PayloadInv'
<1>1. TopPlace(c) \in Frames /\ Frame(TopPlace(c)) = Top(c) /\ Top(c).pc = pc
  BY AtFacts
<1>2. TopPlace(c)[2] = Len(stack[c])
  BY DEF TopPlace
<1>3. PayloadOK(Sender(TopPlace(c)), Len(stack[c]), Top(c))
  BY <1>1, <1>2 DEF PayloadInv
<1>4. PayloadOK(Sender(TopPlace(c)), Len(stack[c]), f)
  BY <1>1, <1>3 DEF PayloadOK, HandledOK, ArgumentsOf
<1> QED
  BY <1>4, PayloadAtTop

\* ... calls another process, ...
LEMMA PayloadAtCall ==
  ASSUME Parts, PayloadInv, NEW c \in Clients, NEW pc, At(c, pc), Len(stack[c]) < 4,
         pc \notin {"sent", "queued"}, NEW p, NEW e, Push(c, p, e), UNCHANGED kind
  PROVE  PayloadInv'
<1> DEFINE n == Len(stack[c])
           new == << c, n + 1 >>
           f == [Top(c) EXCEPT !.pc = "calling"]
           g == Request(Top(c).to, p, e, n + 1)
<1>1. /\ StackInv /\ stack[c] # << >> /\ TopPlace(c) \in Frames /\ n \in 1 .. 4
      /\ Frame(TopPlace(c)) = Top(c) /\ IsFrame(Top(c)) /\ Top(c).pc = pc
  BY AtFacts DEF Parts
<1>2. /\ IsFrame(f) /\ f.to = Top(c).to /\ f.pc = "calling" /\ f.proc = Top(c).proc
      /\ f.ret = Top(c).ret /\ f.got = Top(c).got
  BY <1>1 DEF IsFrame
<1>3. IsFrame(g) /\ g.pc = "sent" /\ g.proc = p /\ g.pdu = Pdu(Top(c).to, p, n + 1)
  BY DEF IsFrame, Request
<1>4. stack' = [stack EXCEPT ![c] = Front(@) \o << f, g >>]
  BY <1>1 DEF Push, StackInv
<1> HIDE DEF f, g
<1>5. StackInv' /\ CallsFrom(c, f, g)
  BY <1>1, <1>2, <1>3, <1>4, PushFacts
<1>6. /\ Frames' = Frames \cup {new} /\ new \notin Frames
      /\ \A x \in Frames : Frame(x)' = IF x = TopPlace(c) THEN f ELSE Frame(x)
      /\ \A x : x = new => Frame(x)' = g
  BY <1>5 DEF CallsFrom
<1>7. TopPlace(c)[2] = n /\ TopPlace(c) = << c, n >> /\ new[1] = c /\ new[2] = n + 1
  BY DEF TopPlace
<1>8. \A x : x = new => Sender(x)' = Top(c).to
  <2>1. stack'[c][n] = f
    <3>1. TopPlace(c)[1] = c
      BY <1>7
    <3> QED
      BY <1>1, <1>6, <1>7, <3>1 DEF Frame
  <2>2. n + 1 # 1 /\ (n + 1) - 1 = n
    BY <1>1
  <2> HIDE DEF new, n
  <2>3. \A x : x = new => Sender(x)' = stack'[c][n].to
    BY <1>7, <2>2 DEF Sender
  <2> QED
    BY <1>2, <2>1, <2>3
<1> HIDE DEF new
<1>9. \A y \in Frames : Frame(y)'.to = Frame(y).to
  BY <1>1, <1>2, <1>6
<1>10. ASSUME NEW x \in Frames'
       PROVE  PayloadOK(Sender(x)', x[2], Frame(x)')
  <2>1. CASE x = new
    <3>1. Sender(x)' = Top(c).to /\ Frame(x)' = g /\ x[2] = n + 1
      BY <1>6, <1>7, <1>8, <2>1
    <3> QED
      BY <1>3, <3>1 DEF PayloadOK
  <2>2. CASE x \in Frames
    <3>1. Sender(x)' = Sender(x)
      BY <1>1, <1>5, <1>9, <2>2, SenderKept
    <3>2. PayloadOK(Sender(x), x[2], Frame(x))
      BY <2>2 DEF PayloadInv
    <3>3. CASE x = TopPlace(c)
      BY <1>1, <1>2, <1>6, <2>2, <3>1, <3>2, <3>3 DEF PayloadOK, HandledOK, ArgumentsOf
    <3>4. CASE x # TopPlace(c)
      BY <1>6, <2>2, <3>1, <3>2, <3>4
    <3> QED
      BY <3>3, <3>4
  <2> QED
    BY <1>6, <2>1, <2>2
<1> QED
  BY <1>10, PayloadStep

\* ... or returns to the request below it, ...
LEMMA PayloadAtReturn ==
  ASSUME Parts, PayloadInv, NEW c \in Clients, stack[c] # << >>,
         Front(stack[c]) # << >>, NEW v, v \notin {"sent", "queued"},
         stack' = [stack EXCEPT ![c] = Front(Front(stack[c])) \o
                     << [Last(Front(stack[c])) EXCEPT !.pc = v] >>],
         UNCHANGED kind
  PROVE  PayloadInv'
<1> DEFINE n == Len(stack[c])
           low == Last(Front(stack[c]))
           g == [low EXCEPT !.pc = v]
           below == << c, n - 1 >>
<1>1. StackInv /\ ShapeInv
  BY DEF Parts
<1>2. n \in 2 .. 4 /\ low = stack[c][n - 1]
  <2>1. n \in 1 .. 4
    BY <1>1, TopIsFrame
  <2>2. IsSeq(stack[c])
    BY <1>1 DEF StackInv
  <2> DEFINE s == Front(stack[c])
  <2>3. IsSeq(s) /\ Len(s) = n - 1 /\ \A i \in 1 .. n - 1 : s[i] = stack[c][i]
    BY <2>2, FrontFacts
  <2>4. s # << >> /\ low = s[Len(s)]
    BY DEF Last
  <2> HIDE DEF s, low, n
  <2>5. Len(s) \in Nat /\ Len(s) > 0
    BY <2>3, <2>4, FrontFacts
  <2>6. n \in 2 .. 4 /\ n - 1 \in 1 .. n - 1
    BY <2>1, <2>3, <2>5
  <2> QED
    BY <2>3, <2>4, <2>6
<1>3. below \in Frames /\ Frame(below) = low /\ below[2] = n - 1 /\ below[1] = c
  <2>1. n - 1 \in 1 .. 4 /\ n - 1 <= Len(stack[c])
    BY <1>2
  <2> HIDE DEF n, low
  <2> QED
    BY <1>2, <2>1, FramesAsPairs
<1>4. IsFrame(low)
  BY <1>1, <1>3 DEF StackInv
<1>5. low.pc = "calling"
  <2>1. below[2] < Len(stack[below[1]])
    BY <1>2, <1>3
  <2> QED
    BY <1>1, <1>3, <2>1 DEF ShapeInv
<1> HIDE DEF low
<1>6. /\ IsFrame(g) /\ g.to = low.to /\ g.pc = v /\ g.proc = low.proc
      /\ g.ret = low.ret /\ g.got = low.got
  BY <1>4 DEF IsFrame
<1>7. stack' = [stack EXCEPT ![c] = Front(Front(stack[c])) \o << g >>]
  BY DEF low
<1> HIDE DEF g
<1>8. StackInv' /\ ReturnsTo(c, g)
  BY <1>1, <1>6, <1>7, PopFacts
<1> HIDE DEF below
<1>9. /\ \A x \in Frames' : x \in Frames
      /\ \A x \in Frames' : Frame(x)' = IF x = below THEN g ELSE Frame(x)
  BY <1>8 DEF ReturnsTo, below
<1>10. \A y \in Frames : y \in Frames' => Frame(y)'.to = Frame(y).to
  BY <1>3, <1>6, <1>9
<1>11. ASSUME NEW x \in Frames'
       PROVE  PayloadOK(Sender(x)', x[2], Frame(x)')
  <2>1. x \in Frames /\ Sender(x)' = Sender(x)
    BY <1>1, <1>8, <1>9, <1>10, SenderKept
  <2>2. PayloadOK(Sender(x), x[2], Frame(x))
    BY <2>1 DEF PayloadInv
  <2>3. CASE x = below
    BY <1>3, <1>5, <1>6, <1>9, <2>1, <2>2, <2>3 DEF PayloadOK, HandledOK, ArgumentsOf
  <2>4. CASE x # below
    BY <1>9, <2>1, <2>2, <2>4
  <2> QED
    BY <2>3, <2>4
<1> QED
  BY <1>11, PayloadStep

\* ... which may be the caller itself, that begins and ends.
LEMMA PayloadAtStart ==
  ASSUME Parts, PayloadInv, NEW c \in Clients, stack[c] = << >>, NEW p,
         stack' = [stack EXCEPT ![c] = << Request(c, p, Server, 1) >>], UNCHANGED kind
  PROVE  PayloadInv'
<1> DEFINE g == Request(c, p, Server, 1)
           new == << c, 1 >>
<1>1. IsFrame(g) /\ g.pc = "sent" /\ g.proc = p /\ g.pdu = Pdu(c, p, 1)
  BY DEF IsFrame, Request
<1> HIDE DEF g
<1>2. StackInv /\ StackInv' /\ StartsWith(c, g)
  BY <1>1, StartFacts DEF Parts, g
<1>3. /\ Frames' = Frames \cup {new}
      /\ \A x \in Frames : Frame(x)' = Frame(x)
      /\ \A x : x = new => Frame(x)' = g
  BY <1>2 DEF StartsWith
<1>4. new[1] = c /\ new[2] = 1
  OBVIOUS
<1> HIDE DEF new
<1>5. ASSUME NEW x \in Frames'
      PROVE  PayloadOK(Sender(x)', x[2], Frame(x)')
  <2>1. CASE x = new
    <3>1. Sender(x)' = c
      BY <1>4, <2>1 DEF Sender
    <3> QED
      BY <1>1, <1>3, <1>4, <2>1, <3>1 DEF PayloadOK
  <2>2. CASE x \in Frames
    <3>1. Sender(x)' = Sender(x)
      BY <1>2, <1>3, <2>2, SenderKept
    <3> QED
      BY <1>3, <2>2, <3>1 DEF PayloadInv
  <2> QED
    BY <1>3, <2>1, <2>2
<1> QED
  BY <1>5, PayloadStep

LEMMA PayloadAtEnd ==
  ASSUME Parts, PayloadInv, NEW c \in Clients, stack[c] # << >>,
         Front(stack[c]) = << >>, stack' = [stack EXCEPT ![c] = << >>], UNCHANGED kind
  PROVE  PayloadInv'
<1>1. StackInv /\ StackInv' /\ Ends(c)
  BY EndFacts DEF Parts
<1>2. \A x \in Frames' : x \in Frames /\ Frame(x)' = Frame(x)
  BY <1>1 DEF Ends
<1>3. ASSUME NEW x \in Frames'
      PROVE  PayloadOK(Sender(x)', x[2], Frame(x)')
  <2>1. x \in Frames /\ Sender(x)' = Sender(x)
    BY <1>1, <1>2, SenderKept
  <2> QED
    BY <1>2, <2>1 DEF PayloadInv
<1> QED
  BY <1>3, PayloadStep

LEMMA PayloadKept ==
  ASSUME PayloadInv, UNCHANGED stack
  PROVE  PayloadInv'
<1>1. Frames' = Frames /\ \A x : Frame(x)' = Frame(x) /\ Sender(x)' = Sender(x)
  BY DEF Frames, Frame, Sender
<1> QED
  BY <1>1, PayloadStep DEF PayloadInv

LEMMA PayloadAtGoto ==
  ASSUME Parts, PayloadInv, NEW c \in Clients, NEW pc, At(c, pc), NEW v, Goto(c, v),
         UNCHANGED kind, v \in {"sent", "queued"} <=> pc \in {"sent", "queued"}
  PROVE  PayloadInv'
<1> DEFINE f == [Top(c) EXCEPT !.pc = v]
<1>1. IsFrame(Top(c))
  BY AtFacts
<1>2. /\ IsFrame(f) /\ f.to = Top(c).to /\ f.proc = Top(c).proc /\ f.pdu = Top(c).pdu
      /\ f.got = Top(c).got /\ f.ret = Top(c).ret /\ f.pc = v
  BY <1>1 DEF IsFrame
<1>3. SetTop(c, f)
  BY DEF Goto
<1> HIDE DEF f
<1> QED
  BY <1>2, <1>3, PayloadGoesOn

\* The actions that do no more than that.
LEMMA SmallStepsKeepPayload ==
  ASSUME Parts, PayloadInv, NEW c \in Clients,
         GotPdu(c) \/ NoCall(c) \/ Safebind(c) \/ Bind(c) \/ DestroyHandle(c)
  PROVE  PayloadInv'
<1>1. CASE GotPdu(c)
  <2>1. At(c, "sent") /\ Goto(c, "queued") /\ UNCHANGED kind
    BY <1>1 DEF GotPdu
  <2> QED
    BY <2>1, PayloadAtGoto
<1>2. CASE NoCall(c)
  <2>1. At(c, "begun") /\ Goto(c, "reply") /\ UNCHANGED kind
    BY <1>2 DEF NoCall
  <2> QED
    BY <2>1, PayloadAtGoto
<1>3. CASE Safebind(c)
  <2>1. PICK v \in {"null", "bound", "binding"} :
          At(c, "handle") /\ Goto(c, v) /\ UNCHANGED kind
    <3> DEFINE m == Top(c).dest
               v == IF hmap[m].del THEN "null" ELSE IF hmap[m].cl THEN "bound" ELSE "binding"
    <3>1. v \in {"null", "bound", "binding"}
      OBVIOUS
    <3>2. At(c, "handle") /\ Goto(c, v) /\ UNCHANGED kind
      BY <1>3 DEF Safebind
    <3> HIDE DEF v
    <3> QED
      BY <3>1, <3>2
  <2> QED
    BY <2>1, PayloadAtGoto
<1>4. CASE Bind(c)
  <2>1. PICK v \in {"bound", "null"} : At(c, "binding") /\ Goto(c, v) /\ UNCHANGED kind
    <3>1. PICK b \in BOOLEAN : Goto(c, IF b THEN "bound" ELSE "null")
      BY <1>4 DEF Bind
    <3> DEFINE v == IF b THEN "bound" ELSE "null"
    <3>2. v \in {"bound", "null"}
      OBVIOUS
    <3>3. At(c, "binding") /\ UNCHANGED kind
      BY <1>4 DEF Bind
    <3> HIDE DEF v
    <3>4. Goto(c, v)
      BY <3>1, Zenon DEF v
    <3> QED
      BY <3>2, <3>3, <3>4
  <2> QED
    BY <2>1, PayloadAtGoto
<1>5. CASE DestroyHandle(c)
  <2>1. At(c, "called") /\ Goto(c, "reply") /\ UNCHANGED kind
    BY <1>5 DEF DestroyHandle
  <2> QED
    BY <2>1, PayloadAtGoto
<1> QED
  BY <1>1, <1>2, <1>3, <1>4, <1>5

LEMMA MakeHandleKeepsPayload ==
  ASSUME Parts, PayloadInv, NEW c \in Clients, MakeHandle(c)
  PROVE  PayloadInv'
<1>1. At(c, "begun") /\ UNCHANGED kind
  BY DEF MakeHandle
<1>2. PICK m \in Clients :
        SetTop(c, [Top(c) EXCEPT !.dest = IF GetsHandle(m) THEN m ELSE @,
                     !.pc = IF GetsHandle(m) THEN "handle" ELSE "null"])
  BY Zenon DEF MakeHandle
<1> DEFINE d == IF GetsHandle(m) THEN m ELSE Top(c).dest
           v == IF GetsHandle(m) THEN "handle" ELSE "null"
           f == [Top(c) EXCEPT !.dest = d, !.pc = v]
<1>3. SetTop(c, f)
  BY <1>2
<1>4. v \notin {"sent", "queued"}
  OBVIOUS
<1>5. IsFrame(Top(c))
  BY <1>1, AtFacts
<1> HIDE DEF d, v
<1>6. /\ IsFrame(f) /\ f.to = Top(c).to /\ f.proc = Top(c).proc /\ f.pdu = Top(c).pdu
      /\ f.got = Top(c).got /\ f.ret = Top(c).ret /\ f.pc = v
  BY <1>5 DEF IsFrame
<1> HIDE DEF f
<1>7. f.pc \in {"sent", "queued"} <=> "begun" \in {"sent", "queued"}
  BY <1>4, <1>6
<1> QED
  BY <1>1, <1>3, <1>6, <1>7, PayloadGoesOn

LEMMA CallsKeepPayload ==
  ASSUME Parts, PayloadInv, NEW c \in Clients, CallServer(c) \/ CallBack(c)
  PROVE  PayloadInv'
<1>1. CASE CallServer(c)
  <2>1. At(c, "begun") /\ UNCHANGED kind
    BY <1>1 DEF CallServer
  <2>2. PICK p : Push(c, p, Server)
    BY <1>1 DEF CallServer
  <2>3. Top(c).proc \in {"revoke", "flush"}
    BY <1>1 DEF CallServer, NestedCalls
  <2>4. Len(stack[c]) \in 1 .. 4 /\ Top(c).proc \in Calls[Len(stack[c])]
    BY <2>1, AtFacts DEF FrameOK
  <2>5. Len(stack[c]) < 4
    <3> DEFINE n == Len(stack[c])
    <3> HIDE DEF n
    <3>1. n \in {1, 2, 3, 4}
      BY <2>4 DEF n
    <3>2. n # 4
      <4>1. Top(c).proc \in Calls[n]
        BY <2>4 DEF n
      <4>2. Top(c).proc \notin Calls[4]
        BY <2>3 DEF Calls
      <4> QED
        BY <4>1, <4>2
    <3>3. n < 4
      BY <3>1, <3>2
    <3> QED
      BY <3>3 DEF n
  <2> QED
    BY <2>1, <2>2, <2>5, PayloadAtCall
<1>2. CASE CallBack(c)
  <2>1. /\ At(c, "bound") /\ UNCHANGED kind
        /\ Push(c, CallBackOf(Top(c).proc), Top(c).dest)
    BY <1>2 DEF CallBack
  <2>2. Len(stack[c]) \in {1, 3}
    <3>1. FrameOK(Len(stack[c]), Top(c)) /\ Top(c).pc = "bound"
      BY <2>1, AtFacts
    <3> QED
      BY <3>1, Zenon DEF FrameOK
  <2>3. Len(stack[c]) < 4
    <3> DEFINE n == Len(stack[c])
    <3> HIDE DEF n
    <3>1. n \in {1, 3}
      BY <2>2 DEF n
    <3>2. n < 4
      BY <3>1
    <3> QED
      BY <3>2 DEF n
  <2> QED
    BY <2>1, <2>3, PayloadAtCall
<1> QED
  BY <1>1, <1>2

\* A thread takes the request, and reads what was sent.
LEMMA DispatchKeepsPayload ==
  ASSUME Parts, PayloadInv, NEW e \in Endpoints, Dispatch(e)
  PROVE  PayloadInv'
<1>1. stopped = "no" /\ jobq[e] # << >> /\ UNCHANGED kind
  BY DEF Dispatch, deq
<1>2. jobq \in [Endpoints -> Seq(Clients)]
  BY DEF Parts, QueueInv
<1>3. PICK c \in Clients : c = Head(jobq[e])
  BY <1>1, <1>2
<1>4. Len(jobq[e]) \in Nat /\ Len(jobq[e]) > 0 /\ jobq[e][1] = c
  BY <1>1, <1>2, <1>3
<1>5. At(c, "queued")
  BY <1>1, <1>4 DEF Parts, QueueInv, At
<1> DEFINE h == fn[Top(c).pdu]
           v == IF h.ret = 0 THEN "begun" ELSE "reply"
           f == [Top(c) EXCEPT !.pdu = << >>, !.got = h.args, !.ret = h.ret, !.pc = v]
           x == TopPlace(c)
           s == Sender(x)
           p == Top(c).proc
           n == Len(stack[c])
<1>6. SetTop(c, f)
  BY <1>3 DEF Dispatch
<1>7. x \in Frames /\ Frame(x) = Top(c) /\ IsFrame(Top(c)) /\ Top(c).pc = "queued"
  BY <1>5, AtFacts
<1>8. x[2] = n
  BY DEF TopPlace
<1>9. MaySend(s, p) /\ n \in 1 .. 4
  BY <1>7, <1>8, SenderMaySend
<1>10. Top(c).pdu = Pdu(s, p, n)
  BY <1>7, <1>8 DEF PayloadInv, PayloadOK
<1>11. IF p = "stat" THEN h.ret = unmarshal_args_failure
       ELSE h.ret = 0 /\ h.args = Args(s, p)
  <2>1. Accepts(s, p, n)
    BY <1>9, Dispatched, Zenon
  <2> QED
    BY <1>10, <2>1, Zenon DEF Accepts
<1>12. v \notin {"sent", "queued"}
  OBVIOUS
<1> HIDE DEF h, v
<1>13. /\ IsFrame(f) /\ f.to = Top(c).to /\ f.proc = p /\ f.got = h.args /\ f.ret = h.ret
       /\ f.pc = v
  BY <1>7 DEF IsFrame
<1> HIDE DEF f
<1>14. PayloadOK(s, n, f)
  BY <1>11, <1>12, <1>13 DEF PayloadOK, HandledOK, ArgumentsOf
<1> QED
  BY <1>1, <1>5, <1>6, <1>13, <1>14, PayloadAtTop

\* The caller reads the reply.
LEMMA ResultKept ==
  ASSUME ResultInv, UNCHANGED result, stopped' # "verify"
  PROVE  ResultInv'
  BY DEF ResultInv, RepliesArrive

LEMMA ReturnKeepsPayload ==
  ASSUME Parts, PayloadInv, ResultInv, NEW c \in Clients, Return(c)
  PROVE  PayloadInv' /\ ResultInv'
<1> DEFINE f == Top(c)
           n == Len(stack[c])
           rep == Answer(f.proc, f.ret, n)
           left == Front(stack[c])
<1>1. At(c, "reply") /\ UNCHANGED kind /\ stopped' = IF rep.verify THEN "no" ELSE "verify"
  BY DEF Return
<1>2. /\ TopPlace(c) \in Frames /\ Frame(TopPlace(c)) = f /\ f.pc = "reply"
      /\ stack[c] # << >>
  BY <1>1, AtFacts
<1>3. TopPlace(c)[2] = n
  BY DEF TopPlace
<1>4. f.proc \in Procs /\ n \in 1 .. 4
  BY <1>2, <1>3, SenderMaySend DEF MaySend
<1>5. HandledOK(Sender(TopPlace(c)), f)
  BY <1>2 DEF PayloadInv, PayloadOK
<1>6. f.ret = 0 \/ f.ret = unmarshal_args_failure
  BY <1>5 DEF HandledOK, ArgumentsOf
<1>7. rep.verify
  BY <1>4, <1>6, Answered
<1>8. f.proc # "stat" => rep.intret = 0 /\ rep.r = Value(called[f.proc][2])
  <2>1. f.proc # "stat" => f.ret = 0
    BY <1>5 DEF HandledOK, ArgumentsOf
  <2> DEFINE p == f.proc
             a == Answer(p, 0, n)
  <2>2. f.proc # "stat" => rep = a
    BY <2>1, Zenon
  <2>3. p \in Procs /\ n \in 1 .. 4
    BY <1>4
  <2> HIDE DEF p, n
  <2>4. a.intret = 0 /\ a.r = Value(called[p][2])
    BY <2>3, Answered
  <2> HIDE DEF a, rep
  <2> QED
    BY <2>2, <2>4, Zenon DEF p
<1>9. stopped' = "no"
  BY <1>1, <1>7
<1>10. CASE left = << >>
  <2> DEFINE r == << f.proc, IF rep.intret < 0 THEN rep.intret ELSE rep.r >>
  <2>1. stack' = [stack EXCEPT ![c] = << >>] /\ result' = [result EXCEPT ![c] = r]
    BY <1>10 DEF Return
  <2>2. PayloadInv'
    BY <1>1, <1>2, <1>10, <2>1, PayloadAtEnd
  <2>3. f.proc # "stat" => r[2] = Value(called[f.proc][2])
    BY <1>8
  <2>4. r[1] = f.proc
    OBVIOUS
  <2> HIDE DEF r, f
  <2>5. result' = [d \in Clients |-> result'[d]] /\ result'[c] = r
        /\ \A d \in Clients : d # c => result'[d] = result[d]
    BY <2>1 DEF ResultInv
  <2>6. ResultInv'
    BY <1>9, <2>3, <2>4, <2>5 DEF ResultInv, RepliesArrive
  <2> QED
    BY <2>2, <2>6
<1>11. CASE left # << >>
  <2> DEFINE g == Last(left)
             v == IF g.to = Server THEN "called" ELSE "reply"
  <2>1. /\ stack' = [stack EXCEPT ![c] = Front(left) \o << [g EXCEPT !.pc = v] >>]
        /\ UNCHANGED result
    BY <1>11 DEF Return
  <2>2. v \notin {"sent", "queued"}
    OBVIOUS
  <2> HIDE DEF v
  <2>3. PayloadInv'
    BY <1>1, <1>2, <1>11, <2>1, <2>2, PayloadAtReturn
  <2>4. ResultInv'
    BY <1>9, <2>1, ResultKept
  <2> QED
    BY <2>3, <2>4
<1> QED
  BY <1>10, <1>11

LEMMA StartKeepsPayload ==
  ASSUME Parts, PayloadInv, ResultInv, NEW c \in Clients, Start(c)
  PROVE  PayloadInv' /\ ResultInv'
<1>1. PICK p : stack' = [stack EXCEPT ![c] = << Request(c, p, Server, 1) >>]
  BY DEF Start
<1>2. stack[c] = << >> /\ UNCHANGED << kind, stopped >> /\ result' = [result EXCEPT ![c] = << >>]
  BY DEF Start
<1>3. PayloadInv'
  BY <1>1, <1>2, PayloadAtStart
<1>4. ResultInv'
  BY <1>2 DEF ResultInv, RepliesArrive
<1> QED
  BY <1>3, <1>4

LEMMA NextPayload ==
  Parts /\ PayloadInv /\ ResultInv /\ [Next]_vars => PayloadInv' /\ ResultInv'
<1> SUFFICES ASSUME Parts, PayloadInv, ResultInv, [Next]_vars
             PROVE  PayloadInv' /\ ResultInv'
  OBVIOUS
<1>0. stopped # "verify"
  BY DEF ResultInv, RepliesArrive
<1>1. CASE UNCHANGED vars
  BY <1>0, <1>1, PayloadKept, ResultKept DEF vars, callVars
<1>2. ASSUME NEW c \in Clients,
             \/ GotPdu(c) \/ NoCall(c) \/ Safebind(c) \/ Bind(c) \/ DestroyHandle(c)
             \/ MakeHandle(c) \/ CallServer(c) \/ CallBack(c)
      PROVE  PayloadInv' /\ ResultInv'
  <2>1. UNCHANGED << result, stopped >>
    BY <1>2, Zenon DEF GotPdu, NoCall, Safebind, Bind, DestroyHandle, MakeHandle, CallServer,
                CallBack
  <2>2. PayloadInv'
    BY <1>2, SmallStepsKeepPayload, MakeHandleKeepsPayload, CallsKeepPayload
  <2> QED
    BY <1>0, <2>1, <2>2, ResultKept
<1>3. ASSUME NEW c \in Clients, Start(c) \/ Return(c)
      PROVE  PayloadInv' /\ ResultInv'
  BY <1>3, StartKeepsPayload, ReturnKeepsPayload
<1>4. ASSUME NEW c \in Clients, CallOnNull(c)
      PROVE  PayloadInv' /\ ResultInv'
  <2>1. UNCHANGED << stack, result >> /\ stopped' = "null"
    BY <1>4 DEF CallOnNull
  <2> QED
    BY <2>1, PayloadKept, ResultKept
<1>5. ASSUME NEW e \in Endpoints, Dispatch(e)
      PROVE  PayloadInv' /\ ResultInv'
  <2>1. UNCHANGED << result, stopped >>
    BY <1>5 DEF Dispatch
  <2> QED
    BY <1>0, <1>5, <2>1, DispatchKeepsPayload, ResultKept
<1>6. ASSUME NEW e \in Endpoints, Sleep(e)
      PROVE  PayloadInv' /\ ResultInv'
  <2>1. UNCHANGED << stack, result, stopped >>
    BY <1>6 DEF Sleep, callVars
  <2> QED
    BY <1>0, <2>1, PayloadKept, ResultKept
<1> QED
  BY <1>1, <1>2, <1>3, <1>4, <1>5, <1>6 DEF Next

LEMMA InitPayload ==
  Init => PayloadInv /\ ResultInv
<1> SUFFICES ASSUME Init
             PROVE  PayloadInv /\ ResultInv
  OBVIOUS
<1>1. Frames = {}
  <2>1. \A c \in Clients : Len(stack[c]) = 0
    BY DEF Init
  <2> QED
    BY <2>1 DEF Frames
<1>2. stopped = "no" /\ result = [c \in Clients |-> << >>]
  BY DEF Init
<1> QED
  BY <1>1, <1>2 DEF PayloadInv, ResultInv, RepliesArrive

-----------------------------------------------------------------------------
(***************************************************************************)
(* The theorems                                                            *)
(***************************************************************************)

\* The inductive invariant of the calls holds, with any number of clients
\* and pools and queues of any size.
THEOREM Invariance ==
  Spec => []IInv
<1>1. Init => Parts /\ PayloadInv /\ ResultInv
  BY InitParts, InitPayload
<1>2. Parts /\ PayloadInv /\ ResultInv /\ [Next]_vars
        => (Parts /\ PayloadInv /\ ResultInv)'
  BY NextParts, NextPayload
<1>3. Parts /\ PayloadInv /\ ResultInv => IInv
  BY PartsGiveCallsInv DEF IInv
<1> QED
  BY <1>1, <1>2, <1>3, PTL DEF Spec

\* Types; calls nest four deep at most, whatever the clients do, and no
\* thread of a pool is lost or serves two requests.
THEOREM TypeCorrect ==
  Spec => []TypeOK
<1>1. IInv => TypeOK
  BY DEF IInv, CallsInv
<1> QED
  BY <1>1, Invariance, PTL

\* No wake-up is lost between fifo::enq and fifo::deq.
THEOREM NoWakeUpIsLost ==
  Spec => []NoJobIsForgotten
<1>1. IInv => NoJobIsForgotten
  BY DEF IInv, CallsInv
<1> QED
  BY <1>1, Invariance, PTL

\* The reference count of an hinfo is the number of handles for it.
THEOREM CountsAreExact ==
  Spec => []HandlesAreCounted
<1>1. IInv => HandlesAreCounted
  BY DEF IInv, CallsInv
<1> QED
  BY <1>1, Invariance, PTL

\* safebind makes one connection to a client, however many handlers call it.
THEOREM OneConnection ==
  Spec => []BoundOnce
<1>1. IInv => BoundOnce
  <2> SUFFICES ASSUME IInv, NEW m \in Clients
               PROVE  Cardinality({x \in Holders(m) : Frame(x).pc = "binding"})
                        + (IF hmap[m].cl THEN 1 ELSE 0) <= 1
    BY DEF BoundOnce
  <2> DEFINE S == {x \in Holders(m) : Frame(x).pc = "binding"}
  <2>1. S = {} => Cardinality(S) = 0
    BY FS_EmptySet
  <2>2. ASSUME NEW x \in S
        PROVE  ~ hmap[m].cl /\ Cardinality(S) = 1
    <3>1. x \in Frames /\ Frame(x).pc = "binding" /\ Frame(x).dest = m
      BY DEF Holders
    <3>2. ~ hmap[m].cl
      BY <3>1 DEF IInv, CallsInv, HandleInv, HandleOK
    <3>3. S = {x}
      BY <3>1 DEF Holders, IInv, CallsInv, HandleInv
    <3> QED
      BY <3>2, <3>3, FS_Singleton
  <2> HIDE DEF S
  <2>3. Cardinality(S) + (IF hmap[m].cl THEN 1 ELSE 0) <= 1
    <3>1. CASE S = {}
      BY <2>1, <3>1
    <3>2. CASE S # {}
      BY <2>2, <3>2
    <3> QED
      BY <3>1, <3>2
  <2> QED
    BY <2>3 DEF S
<1> QED
  BY <1>1, Invariance, PTL

\* The server calls through a NULL pointer only after a failed bind.
THEOREM OnlyAFailedBindKills ==
  Spec => []DiesOnlyOfAFailedBind
<1>1. IInv => DiesOnlyOfAFailedBind
  BY DEF IInv, CallsInv
<1> QED
  BY <1>1, Invariance, PTL

\* A handler sees the arguments of the call, whatever id the client has, in
\* every procedure but stat.
THEOREM ArgumentsReachHandlers ==
  Spec => []ArgumentsArrive
<1>1. IInv => ArgumentsArrive
  BY DEF IInv, PayloadInv, PayloadOK, HandledOK, ArgumentsArrive
<1> QED
  BY <1>1, Invariance, PTL

\* A caller sees what the handler has filled in, and call_m ends no program.
THEOREM RepliesReachCallers ==
  Spec => []RepliesArrive
<1>1. IInv => RepliesArrive
  BY DEF IInv, ResultInv
<1> QED
  BY <1>1, Invariance, PTL
=============================================================================
