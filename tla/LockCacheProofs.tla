-------------------------- MODULE LockCacheProofs --------------------------
(***************************************************************************)
(* Proofs about LockCache, for any set of clients and of threads.          *)
(***************************************************************************)
EXTENDS LockCacheInv, NaturalsLemmas, SequenceTheorems, TLAPS

USE ClientsAssumption, ThreadsAssumption
USE DEF NoClient, ClientState, Message, ServerState, Label, Asleep,
        InRevokeRelease, InAcquireRPC, InReleaseRPC, Asking, Moving, Retrying

\* The first element of a list with another one appended.
LEMMA AppendHead ==
  ASSUME NEW S, NEW s \in Seq(S), NEW e \in S
  PROVE  /\ Append(s, e) \in Seq(S)
         /\ Append(s, e) # << >>
         /\ Len(Append(s, e)) = Len(s) + 1
         /\ \A i \in 1 .. Len(s) : Append(s, e)[i] = s[i]
         /\ Append(s, e)[Len(s) + 1] = e
         /\ s = << >> => Head(Append(s, e)) = e
         /\ s # << >> => Head(Append(s, e)) = Head(s)
  OBVIOUS

\* What Head and Tail are in terms of the elements.
LEMMA TailElements ==
  ASSUME NEW S, NEW s \in Seq(S), s # << >>
  PROVE  /\ Len(s) \in Nat \ {0}
         /\ Head(s) = s[1]
         /\ Head(s) \in S
         /\ Tail(s) \in Seq(S)
         /\ Len(Tail(s)) = Len(s) - 1
         /\ Tail(s) = << >> <=> Len(s) = 1
         /\ \A i \in 1 .. Len(Tail(s)) : Tail(s)[i] = s[i + 1]
<1>1. /\ Len(s) \in Nat \ {0}
      /\ Head(s) = s[1]
      /\ Head(s) \in S
      /\ Tail(s) \in Seq(S)
      /\ Len(Tail(s)) = Len(s) - 1
      /\ \A i \in 1 .. Len(Tail(s)) : Tail(s)[i] = s[i + 1]
  OBVIOUS
<1>2. Tail(s) = << >> <=> Len(Tail(s)) = 0
  BY <1>1, EmptySeq
<1> QED
  BY <1>1, <1>2

\* The active thread of a client is the first of its list.
LEMMA FrontIsActive ==
  ASSUME TypeOK, QueueInv
  PROVE  /\ \A t \in Threads : Active(t) =>
              threads[ClientOf[t]] # << >> /\ Head(threads[ClientOf[t]]) = t
         /\ \A c \in Clients : threads[c] # << >> =>
              /\ Head(threads[c]) \in Threads
              /\ ClientOf[Head(threads[c])] = c
              /\ Active(Head(threads[c]))
<1>1. ASSUME NEW t \in Threads, Active(t)
      PROVE  threads[ClientOf[t]] # << >> /\ Head(threads[ClientOf[t]]) = t
  <2>1. pc[t] # "idle"
    BY <1>1 DEF Active, QueueInv
  <2>2. PICK i \in 1 .. Len(threads[ClientOf[t]]) : threads[ClientOf[t]][i] = t
    BY <2>1 DEF QueueInv
  <2>3. ClientOf[t] \in Clients
    OBVIOUS
  <2>4. Active(threads[ClientOf[t]][i]) <=> i = 1
    BY <2>3 DEF QueueInv
  <2>5. threads[ClientOf[t]] \in Seq(Threads)
    BY DEF TypeOK
  <2> QED
    BY <1>1, <2>2, <2>4, <2>5
<1>2. ASSUME NEW c \in Clients, threads[c] # << >>
      PROVE  /\ Head(threads[c]) \in Threads
             /\ ClientOf[Head(threads[c])] = c
             /\ Active(Head(threads[c]))
  <2>1. threads[c] \in Seq(Threads)
    BY DEF TypeOK
  <2>2. /\ Head(threads[c]) = threads[c][1]
        /\ Head(threads[c]) \in Threads
        /\ 1 \in 1 .. Len(threads[c])
    BY <1>2, <2>1, TailElements
  <2> QED
    BY <2>2 DEF QueueInv
<1> QED
  BY <1>1, <1>2

\* A step that neither changes the lists nor which threads are active keeps
\* the discipline of the lists.
LEMMA QueueUnchanged ==
  ASSUME TypeOK, QueueInv, threads' = threads,
         \A u \in Threads :
           /\ Active(u) <=> pc'[u] \notin {"idle", "queued"} \/ u \in signalled'
           /\ pc'[u] = "idle" <=> pc[u] = "idle",
         \A u \in signalled' : pc'[u] \in Asleep
  PROVE  QueueInv'
<1>1. ASSUME NEW c \in Clients, NEW i \in 1 .. Len(threads[c])
      PROVE  threads[c][i] \in Threads
  <2>1. threads[c] \in Seq(Threads)
    BY DEF TypeOK
  <2> QED
    BY <2>1, ElementOfSeq
<1> QED
  BY <1>1 DEF QueueInv, Active

-----------------------------------------------------------------------------
(***************************************************************************)
(* Every action keeps the invariant                                        *)
(***************************************************************************)

\* Who is at the front of a list, without reference to the other elements.
FrontFacts ==
  /\ \A t \in Threads : Active(t) =>
       threads[ClientOf[t]] # << >> /\ Head(threads[ClientOf[t]]) = t
  /\ \A c \in Clients : threads[c] # << >> =>
       /\ Head(threads[c]) \in Threads
       /\ ClientOf[Head(threads[c])] = c
       /\ Active(Head(threads[c]))
  /\ \A t \in signalled : pc[t] \in Asleep

\* TypeOK without the lists.
FlatTypes ==
  /\ state \in [Clients -> ClientState]
  /\ message \in [Clients -> Message]
  /\ sstate \in ServerState
  /\ owner \in Clients \cup {NoClient}
  /\ retryingClient \in Clients \cup {NoClient}
  /\ waitingClients \in SUBSET Clients
  /\ pc \in [Threads -> Label]
  /\ signalled \in SUBSET Threads
  /\ reply \in [Threads -> {"OK", "RETRY"}]
  /\ target \in [Threads -> Clients \cup {NoClient}]
  /\ next \in [Threads -> Clients \cup {NoClient}]

\* The parts of the type invariant and of the queue discipline that most of
\* the steps below use.
LEMMA Basics ==
  ASSUME TypeOK, QueueInv
  PROVE  FrontFacts /\ FlatTypes
  BY FrontIsActive DEF FrontFacts, FlatTypes, TypeOK, QueueInv

\* Where the first thread of a list can be, given the state of its entry.
LEMMA HeadPhase ==
  ASSUME FrontFacts, FlatTypes, PhaseInv, NEW h \in Threads, Active(h)
  PROVE  /\ state[ClientOf[h]] = "RELEASING" =>
              pc[h] \in InReleaseRPC \cup {"awaitRelease"} /\ h \notin signalled
         /\ state[ClientOf[h]] = "ACQUIRING" => pc[h] \in Asking
<1>1. pc[h] \in Label /\ pc[h] # "idle"
  BY DEF FrontFacts, FlatTypes, Active
<1>2. pc[h] = "queued" => h \in signalled
  BY DEF Active
<1>3. h \in signalled => pc[h] \in Asleep
  BY DEF FrontFacts
<1> QED
  BY <1>1, <1>2, <1>3 DEF PhaseInv

\* The thread behind the first one of a list is asleep.
LEMMA SecondIsQueued ==
  ASSUME TypeOK, QueueInv, NEW c \in Clients,
         threads[c] # << >>, Tail(threads[c]) # << >>
  PROVE  /\ Head(Tail(threads[c])) \in Threads
         /\ ClientOf[Head(Tail(threads[c]))] = c
         /\ pc[Head(Tail(threads[c]))] = "queued"
         /\ Head(Tail(threads[c])) \notin signalled
<1>1. threads[c] \in Seq(Threads)
  BY DEF TypeOK
<1>2. /\ Head(Tail(threads[c])) = threads[c][2]
      /\ Head(Tail(threads[c])) \in Threads
      /\ 2 \in 1 .. Len(threads[c])
  BY <1>1, TailElements
<1>3. /\ ClientOf[threads[c][2]] = c
      /\ pc[threads[c][2]] # "idle"
      /\ ~ Active(threads[c][2])
  BY <1>2 DEF QueueInv
<1> QED
  BY <1>2, <1>3 DEF Active

\* A thread that calls acquire joins the list: at once active when it is the
\* first, asleep when it is not.
LEMMA QueueAppend ==
  ASSUME TypeOK, QueueInv, NEW t \in Threads, pc[t] = "idle",
         NEW l \in Label, l # "idle", threads[ClientOf[t]] = << >> <=> l # "queued",
         threads' = [threads EXCEPT ![ClientOf[t]] = Append(threads[ClientOf[t]], t)],
         pc' = [pc EXCEPT ![t] = l],
         signalled' = signalled
  PROVE  QueueInv'
<1> DEFINE c == ClientOf[t]
           n == Len(threads[c]) + 1
           ActiveNext(u) == pc'[u] \notin {"idle", "queued"} \/ u \in signalled'
<1>1. /\ c \in Clients /\ threads[c] \in Seq(Threads) /\ t \notin signalled
      /\ pc \in [Threads -> Label] /\ threads \in [Clients -> Seq(Threads)]
  BY DEF TypeOK, QueueInv
<1>2. /\ \A u \in Threads : u # t => pc'[u] = pc[u]
      /\ pc'[t] # "idle"
      /\ ActiveNext(t) <=> threads[c] = << >>
      /\ \A u \in Threads : u # t => (ActiveNext(u) <=> Active(u))
  BY <1>1 DEF Active
<1>3. /\ \A d \in Clients : d # c => threads'[d] = threads[d]
      /\ threads'[c] = Append(threads[c], t)
  BY <1>1
<1>4. /\ Len(threads[c]) \in Nat /\ n \in Nat
      /\ Len(threads'[c]) = n
      /\ \A i \in 1 .. Len(threads[c]) : threads'[c][i] = threads[c][i]
      /\ threads'[c][n] = t
  BY <1>1, <1>3, AppendHead
<1>5. /\ \A i \in 1 .. n : i = n \/ i \in 1 .. Len(threads[c])
      /\ n \in 1 .. n
      /\ \A i \in 1 .. Len(threads[c]) : i \in 1 .. n /\ i # n
  BY <1>4
<1>6. threads[c] = << >> <=> n = 1
  BY <1>1
<1>7. \A d \in Clients : \A i \in 1 .. Len(threads[d]) :
        threads[d][i] \in Threads /\ threads[d][i] # t
  <2>1. \A d \in Clients : \A i \in 1 .. Len(threads[d]) : threads[d][i] \in Threads
    BY <1>1, ElementOfSeq
  <2> QED
    BY <2>1 DEF QueueInv
<1> HIDE DEF n, ActiveNext
<1>8. ASSUME NEW d \in Clients, NEW i \in 1 .. Len(threads'[d])
      PROVE  /\ ClientOf[threads'[d][i]] = d
             /\ pc'[threads'[d][i]] # "idle"
             /\ ActiveNext(threads'[d][i]) <=> i = 1
  <2>1. ASSUME NEW e \in Clients, NEW j \in 1 .. Len(threads[e])
        PROVE  /\ ClientOf[threads[e][j]] = e
               /\ pc'[threads[e][j]] # "idle"
               /\ ActiveNext(threads[e][j]) <=> j = 1
    <3>1. threads[e][j] \in Threads /\ threads[e][j] # t
      BY <1>7
    <3>2. /\ ClientOf[threads[e][j]] = e
          /\ pc[threads[e][j]] # "idle"
          /\ Active(threads[e][j]) <=> j = 1
      BY DEF QueueInv
    <3> QED
      BY <1>2, <3>1, <3>2
  <2>2. CASE d # c
    BY <1>3, <2>1, <2>2
  <2>3. CASE d = c /\ i = n
    BY <1>2, <1>4, <1>6, <2>3
  <2>4. CASE d = c /\ i # n
    <3>1. i \in 1 .. Len(threads[c]) /\ threads'[c][i] = threads[c][i]
      BY <1>4, <1>5, <2>4
    <3> QED
      BY <1>1, <2>1, <2>4, <3>1
  <2> QED
    BY <2>2, <2>3, <2>4
<1>9. ASSUME NEW d \in Clients, NEW i \in 1 .. Len(threads'[d]),
             NEW j \in 1 .. Len(threads'[d]), threads'[d][i] = threads'[d][j]
      PROVE  i = j
  <2>1. CASE d # c
    <3>1. threads'[d] = threads[d]
      BY <1>3, <2>1
    <3> QED
      BY <1>9, <3>1 DEF QueueInv
  <2>2. CASE d = c
    <3>1. i \in 1 .. n /\ j \in 1 .. n
      BY <1>4, <2>2
    <3>2. CASE i = n \/ j = n
      BY <1>1, <1>4, <1>5, <1>7, <1>9, <2>2, <3>1, <3>2
    <3>3. CASE i # n /\ j # n
      <4>1. /\ i \in 1 .. Len(threads[c]) /\ j \in 1 .. Len(threads[c])
            /\ threads[c][i] = threads[c][j]
        BY <1>4, <1>5, <1>9, <2>2, <3>1, <3>3
      <4>2. \A k, m \in 1 .. Len(threads[c]) : threads[c][k] = threads[c][m] => k = m
        BY <1>1 DEF QueueInv
      <4> QED
        BY <4>1, <4>2
    <3> QED
      BY <3>2, <3>3
  <2> QED
    BY <2>1, <2>2
<1>10. ASSUME NEW u \in Threads, pc'[u] # "idle"
       PROVE  \E i \in 1 .. Len(threads'[ClientOf[u]]) : threads'[ClientOf[u]][i] = u
  <2>1. CASE u = t
    BY <1>4, <1>5, <2>1
  <2>2. CASE u # t
    <3>1. PICK i \in 1 .. Len(threads[ClientOf[u]]) : threads[ClientOf[u]][i] = u
      BY <1>2, <1>10, <2>2 DEF QueueInv
    <3>2. ClientOf[u] \in Clients
      OBVIOUS
    <3>3. CASE ClientOf[u] = c
      BY <1>4, <1>5, <3>1, <3>3
    <3>4. CASE ClientOf[u] # c
      BY <1>3, <3>1, <3>2, <3>4
    <3> QED
      BY <3>3, <3>4
  <2> QED
    BY <2>1, <2>2
<1>11. \A u \in signalled' : pc'[u] \in Asleep
  <2>1. \A u \in signalled : u \in Threads /\ u # t /\ pc[u] \in Asleep
    BY <1>1 DEF QueueInv, TypeOK
  <2> QED
    BY <1>2, <2>1
<1> QED
  BY <1>8, <1>9, <1>10, <1>11 DEF QueueInv, Active, ActiveNext

\* A thread whose release ends leaves the list; the next one is signalled.
LEMMA QueuePop ==
  ASSUME TypeOK, QueueInv, NEW t \in Threads, Active(t), t \notin signalled,
         threads' = [threads EXCEPT ![ClientOf[t]] = Tail(threads[ClientOf[t]])],
         pc' = [pc EXCEPT ![t] = "idle"],
         signalled' = IF Tail(threads[ClientOf[t]]) = << >> THEN signalled
                      ELSE signalled \cup {Head(Tail(threads[ClientOf[t]]))}
  PROVE  QueueInv'
<1> DEFINE c == ClientOf[t]
           n == Len(threads[c])
           ActiveNext(u) == pc'[u] \notin {"idle", "queued"} \/ u \in signalled'
<1>1. /\ c \in Clients /\ threads[c] \in Seq(Threads) /\ threads[c] # << >>
      /\ Head(threads[c]) = t
      /\ pc \in [Threads -> Label] /\ threads \in [Clients -> Seq(Threads)]
      /\ signalled \in SUBSET Threads
  BY FrontIsActive DEF TypeOK
<1>2. /\ \A u \in Threads : u # t => pc'[u] = pc[u]
      /\ pc'[t] = "idle"
      /\ \A d \in Clients : d # c => threads'[d] = threads[d]
      /\ threads'[c] = Tail(threads[c])
  BY <1>1
<1>3. /\ n \in Nat \ {0}
      /\ threads[c][1] = t
      /\ Len(threads'[c]) = n - 1
      /\ \A i \in 1 .. n - 1 : threads'[c][i] = threads[c][i + 1]
      /\ Tail(threads[c]) \in Seq(Threads)
  BY <1>1, <1>2, TailElements
<1>4. /\ \A i \in 1 .. n - 1 : i + 1 \in 1 .. n /\ i + 1 # 1
      /\ \A i \in 1 .. n : i # 1 => i - 1 \in 1 .. n - 1 /\ (i - 1) + 1 = i
      /\ 1 \in 1 .. n
  BY <1>3
<1>5. /\ n = 1 => signalled' = signalled
      /\ n # 1 => 2 \in 1 .. n /\ signalled' = signalled \cup {threads[c][2]}
  <2>1. Tail(threads[c]) = << >> <=> n = 1
    BY <1>1, TailElements
  <2>2. n # 1 => Head(Tail(threads[c])) = threads[c][2] /\ 2 \in 1 .. n
    BY <1>1, <2>1, TailElements
  <2> QED
    BY <2>1, <2>2
<1>6. \A d \in Clients : \A i \in 1 .. Len(threads[d]) :
        /\ threads[d][i] \in Threads
        /\ ClientOf[threads[d][i]] = d
        /\ pc[threads[d][i]] # "idle"
        /\ Active(threads[d][i]) <=> i = 1
  <2>1. \A d \in Clients : \A i \in 1 .. Len(threads[d]) : threads[d][i] \in Threads
    BY <1>1, ElementOfSeq
  <2> QED
    BY <2>1 DEF QueueInv
<1>7. ASSUME NEW i \in 1 .. n - 1
      PROVE  /\ ClientOf[threads'[c][i]] = c
             /\ pc'[threads'[c][i]] # "idle"
             /\ ActiveNext(threads'[c][i]) <=> i = 1
  <2>1. threads'[c][i] = threads[c][i + 1] /\ i + 1 \in 1 .. n /\ i + 1 # 1
    BY <1>3, <1>4
  <2>2. /\ threads[c][i + 1] \in Threads
        /\ ClientOf[threads[c][i + 1]] = c
        /\ pc[threads[c][i + 1]] # "idle"
        /\ ~ Active(threads[c][i + 1])
    BY <1>1, <1>6, <2>1
  <2>3. pc'[threads[c][i + 1]] = "queued" /\ threads[c][i + 1] \notin signalled
    BY <1>2, <2>2 DEF Active
  <2>4. threads[c][i + 1] = threads[c][2] <=> i = 1
    <3>1. \A k, m \in 1 .. n : threads[c][k] = threads[c][m] => k = m
      BY <1>1 DEF QueueInv
    <3>2. n # 1
      BY <1>3
    <3> QED
      BY <1>3, <1>5, <2>1, <3>1, <3>2
  <2>5. threads[c][i + 1] \in signalled' <=> i = 1
    BY <1>5, <2>1, <2>3, <2>4
  <2> QED
    BY <2>1, <2>2, <2>3, <2>5
<1>8. ASSUME NEW d \in Clients, d # c, NEW i \in 1 .. Len(threads[d])
      PROVE  /\ pc'[threads[d][i]] # "idle"
             /\ ActiveNext(threads[d][i]) <=> i = 1
  <2>1. /\ threads[d][i] \in Threads
        /\ ClientOf[threads[d][i]] = d
        /\ pc[threads[d][i]] # "idle"
        /\ Active(threads[d][i]) <=> i = 1
    BY <1>6
  <2>2. pc'[threads[d][i]] = pc[threads[d][i]]
    BY <1>2, <1>8, <2>1
  <2>3. n # 1 => ClientOf[threads[c][2]] = c
    BY <1>1, <1>5, <1>6
  <2>4. threads[d][i] \in signalled' <=> threads[d][i] \in signalled
    BY <1>5, <1>8, <2>1, <2>3
  <2> QED
    BY <2>1, <2>2, <2>4 DEF Active
<1> HIDE DEF n, ActiveNext
<1>9. ASSUME NEW d \in Clients, NEW i \in 1 .. Len(threads'[d])
      PROVE  /\ ClientOf[threads'[d][i]] = d
             /\ pc'[threads'[d][i]] # "idle"
             /\ ActiveNext(threads'[d][i]) <=> i = 1
  <2>1. CASE d = c
    BY <1>3, <1>7, <2>1
  <2>2. CASE d # c
    BY <1>2, <1>6, <1>8, <2>2
  <2> QED
    BY <2>1, <2>2
<1>10. ASSUME NEW d \in Clients, NEW i \in 1 .. Len(threads'[d]),
              NEW j \in 1 .. Len(threads'[d]), threads'[d][i] = threads'[d][j]
       PROVE  i = j
  <2>1. CASE d # c
    <3>1. threads'[d] = threads[d]
      BY <1>2, <2>1
    <3> QED
      BY <1>10, <3>1 DEF QueueInv
  <2>2. CASE d = c
    <3>1. i \in 1 .. n - 1 /\ j \in 1 .. n - 1 /\ threads'[c][i] = threads'[c][j]
      BY <1>3, <1>10, <2>2
    <3>2. /\ threads[c][i + 1] = threads[c][j + 1]
          /\ i + 1 \in 1 .. Len(threads[c]) /\ j + 1 \in 1 .. Len(threads[c])
      BY <1>3, <1>4, <3>1 DEF n
    <3>3. i + 1 = j + 1
      BY <1>1, <3>2, ZenonT(60) DEF QueueInv
    <3> QED
      BY <1>3, <3>1, <3>3
  <2> QED
    BY <2>1, <2>2
<1>11. ASSUME NEW u \in Threads, pc'[u] # "idle"
       PROVE  \E i \in 1 .. Len(threads'[ClientOf[u]]) : threads'[ClientOf[u]][i] = u
  <2>1. u # t /\ pc[u] # "idle" /\ ClientOf[u] \in Clients
    BY <1>2, <1>11
  <2>2. PICK i \in 1 .. Len(threads[ClientOf[u]]) : threads[ClientOf[u]][i] = u
    BY <2>1 DEF QueueInv
  <2>3. CASE ClientOf[u] # c
    BY <1>2, <2>1, <2>2, <2>3
  <2>4. CASE ClientOf[u] = c
    <3>1. i \in 1 .. n /\ i # 1 /\ threads[c][i] = u
      BY <1>3, <2>1, <2>2, <2>4 DEF n
    <3>2. i - 1 \in 1 .. n - 1 /\ threads'[c][i - 1] = u
      BY <1>3, <1>4, <3>1
    <3> QED
      BY <1>3, <2>4, <3>2
  <2> QED
    BY <2>3, <2>4
<1>12. ASSUME NEW u \in signalled'
       PROVE  pc'[u] \in Asleep
  <2>1. CASE u \in signalled
    <3>1. u \in Threads /\ u # t /\ pc[u] \in Asleep
      BY <1>1, <2>1 DEF QueueInv
    <3> QED
      BY <1>2, <3>1
  <2>2. CASE u \notin signalled
    <3>1. u = threads[c][2] /\ 1 \in 1 .. n - 1
      BY <1>3, <1>5, <1>12, <2>2
    <3>2. 2 \in 1 .. Len(threads[c])
      BY <1>3, <3>1 DEF n
    <3>3. /\ threads[c][2] \in Threads
          /\ pc[threads[c][2]] # "idle"
          /\ Active(threads[c][2]) <=> 2 = 1
      BY <1>1, <1>6, <3>2
    <3>4. u \in Threads /\ pc[u] # "idle" /\ ~ Active(u)
      BY <3>1, <3>3
    <3> QED
      BY <1>2, <3>4 DEF Active
  <2> QED
    BY <2>1, <2>2
<1>13. (\A d \in Clients : \A i \in 1 .. Len(threads[d]) :
          ClientOf[threads[d][i]] = d /\ pc[threads[d][i]] # "idle")'
  BY <1>9
<1>14. (\A d \in Clients : \A i \in 1 .. Len(threads[d]) :
          Active(threads[d][i]) <=> i = 1)'
  <2>1. \A d \in Clients : \A i \in 1 .. Len(threads'[d]) :
          ActiveNext(threads'[d][i]) <=> i = 1
    BY <1>9
  <2> QED
    BY <2>1, Zenon DEF Active, ActiveNext
<1>15. (\A d \in Clients : \A i, j \in 1 .. Len(threads[d]) :
          threads[d][i] = threads[d][j] => i = j)'
  BY <1>10
<1>16. (\A u \in Threads : pc[u] # "idle" =>
          \E i \in 1 .. Len(threads[ClientOf[u]]) : threads[ClientOf[u]][i] = u)'
  BY <1>11
<1> QED
  BY <1>12, <1>13, <1>14, <1>15, <1>16, Zenon DEF QueueInv

\* What appending to one list does to the front of each.
LEMMA FrontAfterAppend ==
  ASSUME TypeOK, NEW t \in Threads,
         threads' = [threads EXCEPT ![ClientOf[t]] = Append(threads[ClientOf[t]], t)]
  PROVE  /\ threads' \in [Clients -> Seq(Threads)]
         /\ threads'[ClientOf[t]] # << >>
         /\ \A d \in Clients : d # ClientOf[t] => threads'[d] = threads[d]
         /\ \A d \in Clients : threads[d] # << >> =>
              threads'[d] # << >> /\ Head(threads'[d]) = Head(threads[d])
<1>1. threads \in [Clients -> Seq(Threads)] /\ ClientOf[t] \in Clients
  BY DEF TypeOK
<1>2. /\ threads'[ClientOf[t]] = Append(threads[ClientOf[t]], t)
      /\ \A d \in Clients : d # ClientOf[t] => threads'[d] = threads[d]
  BY <1>1
<1>3. /\ Append(threads[ClientOf[t]], t) \in Seq(Threads)
      /\ Append(threads[ClientOf[t]], t) # << >>
      /\ threads[ClientOf[t]] # << >> =>
           Head(Append(threads[ClientOf[t]], t)) = Head(threads[ClientOf[t]])
  <2>1. PICK s \in Seq(Threads) : s = threads[ClientOf[t]]
    BY <1>1
  <2>2. /\ Append(s, t) \in Seq(Threads)
        /\ Append(s, t) # << >>
        /\ s # << >> => Head(Append(s, t)) = Head(s)
    BY AppendHead
  <2> QED
    BY <2>1, <2>2
<1>4. threads' \in [Clients -> Seq(Threads)]
  BY <1>1, <1>3
<1> QED
  BY <1>2, <1>3, <1>4

\* The read of lockEntry->owner after the unlock in acquire.
LEMMA RevokeOwnerStep ==
  ASSUME IInv, NEW t \in Threads, RevokeOwner(t)
  PROVE  IInv'
<1>0. /\ FrontFacts /\ FlatTypes /\ TypeOK /\ QueueInv /\ PhaseInv /\ EntryInv
      /\ ServerInv /\ OwnerInv /\ HandlerInv /\ WaitInv /\ RetryInv /\ MoveInv
  BY Basics DEF IInv
<1>1. pc[t] = "revokeOwner"
  BY DEF RevokeOwner
<1>2. /\ target' = [target EXCEPT ![t] = owner]
      /\ pc' = [pc EXCEPT ![t] = "revoke"]
      /\ UNCHANGED << state, message, threads, sstate, owner,
                      retryingClient, waitingClients, signalled, reply,
                      next >>
  BY <1>1
  DEF RevokeOwner, Goto, clientVars, serverVars
<1>3. TypeOK'
  BY <1>0, <1>1, <1>2 DEF TypeOK
<1>4. QueueInv'
  <2>1. \A u \in Threads :
          /\ Active(u) <=> pc'[u] \notin {"idle", "queued"} \/ u \in signalled'
          /\ pc'[u] = "idle" <=> pc[u] = "idle"
    BY <1>0, <1>1, <1>2 DEF Active, FlatTypes
  <2>2. \A u \in signalled' : pc'[u] \in Asleep
    BY <1>0, <1>1, <1>2 DEF QueueInv, FlatTypes
  <2> QED
    BY <1>0, <1>2, <2>1, <2>2, QueueUnchanged
<1>5. PhaseInv'
  BY <1>0, <1>1, <1>2 DEF PhaseInv, FlatTypes
<1>6. EntryInv'
  BY <1>0, <1>1, <1>2 DEF EntryInv, FlatTypes
<1>7. ServerInv'
  BY <1>0, <1>1, <1>2 DEF ServerInv, FlatTypes
<1>8. OwnerInv'
  BY <1>0, <1>1, <1>2 DEF OwnerInv, FlatTypes
<1>9. HandlerInv'
  BY <1>0, <1>1, <1>2 DEF HandlerInv, FlatTypes
<1>10. WaitInv'
  BY <1>0, <1>1, <1>2 DEF WaitInv, FlatTypes
<1>11. RetryInv'
  BY <1>0, <1>1, <1>2 DEF RetryInv, FlatTypes
<1>12. MoveInv'
  BY <1>0, <1>1, <1>2 DEF MoveInv, FlatTypes
<1> QED
  BY <1>3, <1>4, <1>5, <1>6, <1>7, <1>8, <1>9, <1>10, <1>11, <1>12 DEF IInv

\* revoke_handler: a cached lock goes back, any other owner is told.
LEMMA RevokeHandlerStep ==
  ASSUME IInv, NEW t \in Threads, RevokeHandler(t)
  PROVE  IInv'
<1>0. /\ FrontFacts /\ FlatTypes /\ TypeOK /\ QueueInv /\ PhaseInv /\ EntryInv
      /\ ServerInv /\ OwnerInv /\ HandlerInv /\ WaitInv /\ RetryInv /\ MoveInv
  BY Basics DEF IInv
<1>1. pc[t] = "revoke" /\ target[t] = owner /\ owner \in Clients /\ sstate = "REVOKING"
  BY <1>0 DEF RevokeHandler, MoveInv, ServerInv, FlatTypes
<1>2. \A u \in Threads : ClientOf[u] = owner => pc[u] \notin {"acquire", "awaitRetry"}
  BY <1>0, <1>1 DEF FrontFacts, Active, PhaseInv, OwnerInv
<1>3. CASE state[owner] = "FREE"
  <2>0. /\ state' = [state EXCEPT ![owner] = "RELEASING"]
        /\ pc' = [pc EXCEPT ![t] = "revokeRelease"]
        /\ UNCHANGED << message, threads, sstate, owner, retryingClient,
                        waitingClients, signalled, reply, target, next >>
    BY <1>3, <1>1, <1>2
    DEF RevokeHandler, Goto, SetState, serverVars, callVars
  <2>1. TypeOK'
    BY <1>0, <1>1, <1>2, <1>3, <2>0 DEF TypeOK
  <2>2. QueueInv'
    <3>1. \A u \in Threads :
            /\ Active(u) <=> pc'[u] \notin {"idle", "queued"} \/ u \in signalled'
            /\ pc'[u] = "idle" <=> pc[u] = "idle"
      BY <1>0, <1>1, <1>2, <1>3, <2>0 DEF Active, FlatTypes
    <3>2. \A u \in signalled' : pc'[u] \in Asleep
      BY <1>0, <1>1, <1>2, <1>3, <2>0 DEF QueueInv, FlatTypes
    <3> QED
      BY <1>0, <2>0, <3>1, <3>2, QueueUnchanged
  <2>3. PhaseInv'
    BY <1>0, <1>1, <1>2, <1>3, <2>0 DEF PhaseInv, FlatTypes
  <2>4. EntryInv'
    BY <1>0, <1>1, <1>2, <1>3, <2>0 DEF EntryInv, FlatTypes
  <2>5. ServerInv'
    BY <1>0, <1>1, <1>2, <1>3, <2>0 DEF ServerInv, FlatTypes
  <2>6. OwnerInv'
    BY <1>0, <1>1, <1>2, <1>3, <2>0 DEF OwnerInv, FlatTypes, PhaseInv
  <2>7. HandlerInv'
    BY <1>0, <1>1, <1>2, <1>3, <2>0 DEF HandlerInv, FlatTypes, EntryInv
  <2>8. WaitInv'
    BY <1>0, <1>1, <1>2, <1>3, <2>0 DEF WaitInv, FlatTypes
  <2>9. RetryInv'
    BY <1>0, <1>1, <1>2, <1>3, <2>0 DEF RetryInv, FlatTypes
  <2>10. MoveInv'
    BY <1>0, <1>1, <1>2, <1>3, <2>0 DEF MoveInv, FlatTypes
  <2> QED
    BY <2>1, <2>2, <2>3, <2>4, <2>5, <2>6, <2>7, <2>8, <2>9, <2>10 DEF IInv
<1>4. CASE state[owner] # "FREE"
  <2>0. /\ message' = [message EXCEPT ![owner] = "REVOKE"]
        /\ pc' = [pc EXCEPT ![t] = "acquireReply"]
        /\ UNCHANGED << state, threads, sstate, owner, retryingClient,
                        waitingClients, signalled, reply, target, next >>
    BY <1>4, <1>1, <1>2
    DEF RevokeHandler, Goto, SetState, serverVars, callVars
  <2>1. TypeOK'
    BY <1>0, <1>1, <1>2, <1>4, <2>0 DEF TypeOK
  <2>2. QueueInv'
    <3>1. \A u \in Threads :
            /\ Active(u) <=> pc'[u] \notin {"idle", "queued"} \/ u \in signalled'
            /\ pc'[u] = "idle" <=> pc[u] = "idle"
      BY <1>0, <1>1, <1>2, <1>4, <2>0 DEF Active, FlatTypes
    <3>2. \A u \in signalled' : pc'[u] \in Asleep
      BY <1>0, <1>1, <1>2, <1>4, <2>0 DEF QueueInv, FlatTypes
    <3> QED
      BY <1>0, <2>0, <3>1, <3>2, QueueUnchanged
  <2>3. PhaseInv'
    BY <1>0, <1>1, <1>2, <1>4, <2>0 DEF PhaseInv, FlatTypes
  <2>4. EntryInv'
    BY <1>0, <1>1, <1>2, <1>4, <2>0 DEF EntryInv, FlatTypes, OwnerInv
  <2>5. ServerInv'
    BY <1>0, <1>1, <1>2, <1>4, <2>0 DEF ServerInv, FlatTypes
  <2>6. OwnerInv'
    BY <1>0, <1>1, <1>2, <1>4, <2>0 DEF OwnerInv, FlatTypes
  <2>7. HandlerInv'
    BY <1>0, <1>1, <1>2, <1>4, <2>0 DEF HandlerInv, FlatTypes, MoveInv
  <2>8. WaitInv'
    BY <1>0, <1>1, <1>2, <1>4, <2>0 DEF WaitInv, FlatTypes, ServerInv
  <2>9. RetryInv'
    BY <1>0, <1>1, <1>2, <1>4, <2>0 DEF RetryInv, FlatTypes, ServerInv
  <2>10. MoveInv'
    BY <1>0, <1>1, <1>2, <1>4, <2>0 DEF MoveInv, FlatTypes
  <2> QED
    BY <2>1, <2>2, <2>3, <2>4, <2>5, <2>6, <2>7, <2>8, <2>9, <2>10 DEF IInv
<1> QED
  BY <1>1, <1>3, <1>4

\* revoke_handler after its release RPC: the entry is NONE, a waiter wakes.
LEMMA RevokeReleaseReturnsStep ==
  ASSUME IInv, NEW t \in Threads, RevokeReleaseReturns(t)
  PROVE  IInv'
<1>0. /\ FrontFacts /\ FlatTypes /\ TypeOK /\ QueueInv /\ PhaseInv /\ EntryInv
      /\ ServerInv /\ OwnerInv /\ HandlerInv /\ WaitInv /\ RetryInv /\ MoveInv
  BY Basics DEF IInv
<1>1. pc[t] = "revokeReleased" /\ target[t] \in Clients
  BY <1>0 DEF RevokeReleaseReturns, HandlerInv
<1>2. threads[target[t]] # << >> =>
        /\ Head(threads[target[t]]) \in Threads
        /\ ClientOf[Head(threads[target[t]])] = target[t]
        /\ Active(Head(threads[target[t]]))
  BY <1>0, <1>1 DEF FrontFacts
<1>3. threads[target[t]] # << >> =>
        /\ pc[Head(threads[target[t]])] = "awaitRelease"
        /\ Head(threads[target[t]]) \notin signalled
  BY <1>0, <1>1, <1>2, HeadPhase DEF HandlerInv, PhaseInv
<1>4. CASE threads[target[t]] = << >>
  <2>0. /\ state' = [state EXCEPT ![target[t]] = "NONE"]
        /\ pc' = [pc EXCEPT ![t] = "acquireReply"]
        /\ UNCHANGED << message, threads, sstate, owner, retryingClient,
                        waitingClients, signalled, reply, target, next >>
    BY <1>4, <1>1, <1>2, <1>3
    DEF RevokeReleaseReturns, Goto, SetState, SignalFront, serverVars,
        callVars
  <2>1. TypeOK'
    BY <1>0, <1>1, <1>2, <1>3, <1>4, <2>0 DEF TypeOK
  <2>2. QueueInv'
    <3>1. \A u \in Threads :
            /\ Active(u) <=> pc'[u] \notin {"idle", "queued"} \/ u \in signalled'
            /\ pc'[u] = "idle" <=> pc[u] = "idle"
      BY <1>0, <1>1, <1>2, <1>3, <1>4, <2>0 DEF Active, FlatTypes
    <3>2. \A u \in signalled' : pc'[u] \in Asleep
      BY <1>0, <1>1, <1>2, <1>3, <1>4, <2>0 DEF QueueInv, FlatTypes
    <3> QED
      BY <1>0, <2>0, <3>1, <3>2, QueueUnchanged
  <2>3. PhaseInv'
    BY <1>0, <1>1, <1>2, <1>3, <1>4, <2>0
    DEF PhaseInv, FlatTypes, FrontFacts, Active
  <2>4. EntryInv'
    BY <1>0, <1>1, <1>2, <1>3, <1>4, <2>0 DEF EntryInv, FlatTypes, HandlerInv
  <2>5. ServerInv'
    BY <1>0, <1>1, <1>2, <1>3, <1>4, <2>0 DEF ServerInv, FlatTypes
  <2>6. OwnerInv'
    BY <1>0, <1>1, <1>2, <1>3, <1>4, <2>0 DEF OwnerInv, FlatTypes
  <2>7. HandlerInv'
    BY <1>0, <1>1, <1>2, <1>3, <1>4, <2>0 DEF HandlerInv, FlatTypes
  <2>8. WaitInv'
    BY <1>0, <1>1, <1>2, <1>3, <1>4, <2>0 DEF WaitInv, FlatTypes, HandlerInv
  <2>9. RetryInv'
    BY <1>0, <1>1, <1>2, <1>3, <1>4, <2>0 DEF RetryInv, FlatTypes
  <2>10. MoveInv'
    BY <1>0, <1>1, <1>2, <1>3, <1>4, <2>0 DEF MoveInv, FlatTypes
  <2> QED
    BY <2>1, <2>2, <2>3, <2>4, <2>5, <2>6, <2>7, <2>8, <2>9, <2>10 DEF IInv
<1>5. CASE threads[target[t]] # << >>
  <2>0. /\ state' = [state EXCEPT ![target[t]] = "NONE"]
        /\ pc' = [pc EXCEPT ![t] = "acquireReply"]
        /\ signalled' = signalled \cup {Head(threads[target[t]])}
        /\ UNCHANGED << message, threads, sstate, owner, retryingClient,
                        waitingClients, reply, target, next >>
    BY <1>5, <1>1, <1>2, <1>3
    DEF RevokeReleaseReturns, Goto, SetState, SignalFront, serverVars,
        callVars
  <2>1. TypeOK'
    BY <1>0, <1>1, <1>2, <1>3, <1>5, <2>0 DEF TypeOK
  <2>2. QueueInv'
    <3>1. \A u \in Threads :
            /\ Active(u) <=> pc'[u] \notin {"idle", "queued"} \/ u \in signalled'
            /\ pc'[u] = "idle" <=> pc[u] = "idle"
      BY <1>0, <1>1, <1>2, <1>3, <1>5, <2>0 DEF Active, FlatTypes
    <3>2. \A u \in signalled' : pc'[u] \in Asleep
      BY <1>0, <1>1, <1>2, <1>3, <1>5, <2>0 DEF QueueInv, FlatTypes
    <3> QED
      BY <1>0, <2>0, <3>1, <3>2, QueueUnchanged
  <2>3. PhaseInv'
    BY <1>0, <1>1, <1>2, <1>3, <1>5, <2>0
    DEF PhaseInv, FlatTypes, FrontFacts, Active
  <2>4. EntryInv'
    BY <1>0, <1>1, <1>2, <1>3, <1>5, <2>0 DEF EntryInv, FlatTypes, HandlerInv
  <2>5. ServerInv'
    BY <1>0, <1>1, <1>2, <1>3, <1>5, <2>0 DEF ServerInv, FlatTypes
  <2>6. OwnerInv'
    BY <1>0, <1>1, <1>2, <1>3, <1>5, <2>0 DEF OwnerInv, FlatTypes
  <2>7. HandlerInv'
    BY <1>0, <1>1, <1>2, <1>3, <1>5, <2>0 DEF HandlerInv, FlatTypes
  <2>8. WaitInv'
    BY <1>0, <1>1, <1>2, <1>3, <1>5, <2>0 DEF WaitInv, FlatTypes, HandlerInv
  <2>9. RetryInv'
    BY <1>0, <1>1, <1>2, <1>3, <1>5, <2>0 DEF RetryInv, FlatTypes
  <2>10. MoveInv'
    BY <1>0, <1>1, <1>2, <1>3, <1>5, <2>0 DEF MoveInv, FlatTypes
  <2> QED
    BY <2>1, <2>2, <2>3, <2>4, <2>5, <2>6, <2>7, <2>8, <2>9, <2>10 DEF IInv
<1> QED
  BY <1>1, <1>4, <1>5

\* retry_handler: the message is left and the front thread signalled.
LEMMA RetryHandlerStep ==
  ASSUME IInv, NEW t \in Threads, RetryHandler(t)
  PROVE  IInv'
<1>0. /\ FrontFacts /\ FlatTypes /\ TypeOK /\ QueueInv /\ PhaseInv /\ EntryInv
      /\ ServerInv /\ OwnerInv /\ HandlerInv /\ WaitInv /\ RetryInv /\ MoveInv
  BY Basics DEF IInv
<1>1. pc[t] \in Retrying /\ next[t] = retryingClient /\ retryingClient \in Clients
  BY <1>0 DEF RetryHandler, RetryInv, FlatTypes
<1>2. state[retryingClient] = "ACQUIRING" /\ threads[retryingClient] # << >>
  BY <1>0, <1>1 DEF WaitInv, EntryInv
<1>3. /\ Head(threads[retryingClient]) \in Threads
      /\ ClientOf[Head(threads[retryingClient])] = retryingClient
      /\ Active(Head(threads[retryingClient]))
  BY <1>0, <1>1, <1>2 DEF FrontFacts
<1>4. pc[Head(threads[retryingClient])] \in Asking
  BY <1>0, <1>2, <1>3, HeadPhase
<1>5. CASE pc[Head(threads[retryingClient])] \notin Asleep
  <2>0. /\ message' = [message EXCEPT ![retryingClient] = "RETRY"]
        /\ pc' = [pc EXCEPT ![t] = IF pc[t] = "retry" THEN "released" ELSE "revokeReleased"]
        /\ UNCHANGED << state, threads, sstate, owner, retryingClient,
                        waitingClients, signalled, reply, target, next >>
    BY <1>5, <1>1, <1>2, <1>3, <1>4
    DEF RetryHandler, Goto, SignalFront, serverVars, callVars
  <2>1. TypeOK'
    BY <1>0, <1>1, <1>2, <1>3, <1>4, <1>5, <2>0 DEF TypeOK
  <2>2. QueueInv'
    <3>1. \A u \in Threads :
            /\ Active(u) <=> pc'[u] \notin {"idle", "queued"} \/ u \in signalled'
            /\ pc'[u] = "idle" <=> pc[u] = "idle"
      BY <1>0, <1>1, <1>2, <1>3, <1>4, <1>5, <2>0 DEF Active, FlatTypes
    <3>2. \A u \in signalled' : pc'[u] \in Asleep
      BY <1>0, <1>1, <1>2, <1>3, <1>4, <1>5, <2>0 DEF QueueInv, FlatTypes
    <3> QED
      BY <1>0, <2>0, <3>1, <3>2, QueueUnchanged
  <2>3. PhaseInv'
    BY <1>0, <1>1, <1>2, <1>3, <1>4, <1>5, <2>0 DEF PhaseInv, FlatTypes
  <2>4. EntryInv'
    BY <1>0, <1>1, <1>2, <1>3, <1>4, <1>5, <2>0
    DEF EntryInv, FlatTypes, WaitInv
  <2>5. ServerInv'
    BY <1>0, <1>1, <1>2, <1>3, <1>4, <1>5, <2>0 DEF ServerInv, FlatTypes
  <2>6. OwnerInv'
    BY <1>0, <1>1, <1>2, <1>3, <1>4, <1>5, <2>0 DEF OwnerInv, FlatTypes
  <2>7. HandlerInv'
    BY <1>0, <1>1, <1>2, <1>3, <1>4, <1>5, <2>0
    DEF HandlerInv, FlatTypes, PhaseInv
  <2>8. WaitInv'
    BY <1>0, <1>1, <1>2, <1>3, <1>4, <1>5, <2>0
    DEF WaitInv, FlatTypes, ServerInv, RetryInv
  <2>9. RetryInv'
    BY <1>0, <1>1, <1>2, <1>3, <1>4, <1>5, <2>0 DEF RetryInv, FlatTypes
  <2>10. MoveInv'
    BY <1>0, <1>1, <1>2, <1>3, <1>4, <1>5, <2>0 DEF MoveInv, FlatTypes
  <2> QED
    BY <2>1, <2>2, <2>3, <2>4, <2>5, <2>6, <2>7, <2>8, <2>9, <2>10 DEF IInv
<1>6. CASE pc[Head(threads[retryingClient])] \in Asleep
  <2>0. /\ message' = [message EXCEPT ![retryingClient] = "RETRY"]
        /\ pc' = [pc EXCEPT ![t] = IF pc[t] = "retry" THEN "released" ELSE "revokeReleased"]
        /\ signalled' = signalled \cup {Head(threads[retryingClient])}
        /\ UNCHANGED << state, threads, sstate, owner, retryingClient,
                        waitingClients, reply, target, next >>
    BY <1>6, <1>1, <1>2, <1>3, <1>4
    DEF RetryHandler, Goto, SignalFront, serverVars, callVars
  <2>1. TypeOK'
    BY <1>0, <1>1, <1>2, <1>3, <1>4, <1>6, <2>0 DEF TypeOK
  <2>2. QueueInv'
    <3>1. \A u \in Threads :
            /\ Active(u) <=> pc'[u] \notin {"idle", "queued"} \/ u \in signalled'
            /\ pc'[u] = "idle" <=> pc[u] = "idle"
      BY <1>0, <1>1, <1>2, <1>3, <1>4, <1>6, <2>0 DEF Active, FlatTypes
    <3>2. \A u \in signalled' : pc'[u] \in Asleep
      BY <1>0, <1>1, <1>2, <1>3, <1>4, <1>6, <2>0 DEF QueueInv, FlatTypes
    <3> QED
      BY <1>0, <2>0, <3>1, <3>2, QueueUnchanged
  <2>3. PhaseInv'
    BY <1>0, <1>1, <1>2, <1>3, <1>4, <1>6, <2>0 DEF PhaseInv, FlatTypes
  <2>4. EntryInv'
    BY <1>0, <1>1, <1>2, <1>3, <1>4, <1>6, <2>0
    DEF EntryInv, FlatTypes, WaitInv
  <2>5. ServerInv'
    BY <1>0, <1>1, <1>2, <1>3, <1>4, <1>6, <2>0 DEF ServerInv, FlatTypes
  <2>6. OwnerInv'
    BY <1>0, <1>1, <1>2, <1>3, <1>4, <1>6, <2>0 DEF OwnerInv, FlatTypes
  <2>7. HandlerInv'
    BY <1>0, <1>1, <1>2, <1>3, <1>4, <1>6, <2>0
    DEF HandlerInv, FlatTypes, PhaseInv
  <2>8. WaitInv'
    BY <1>0, <1>1, <1>2, <1>3, <1>4, <1>6, <2>0
    DEF WaitInv, FlatTypes, ServerInv, RetryInv
  <2>9. RetryInv'
    BY <1>0, <1>1, <1>2, <1>3, <1>4, <1>6, <2>0 DEF RetryInv, FlatTypes
  <2>10. MoveInv'
    BY <1>0, <1>1, <1>2, <1>3, <1>4, <1>6, <2>0 DEF MoveInv, FlatTypes
  <2> QED
    BY <2>1, <2>2, <2>3, <2>4, <2>5, <2>6, <2>7, <2>8, <2>9, <2>10 DEF IInv
<1> QED
  BY <1>1, <1>5, <1>6

\* lock_server_cache::acquire, in each of its states.
LEMMA ServerAcquireStep ==
  ASSUME IInv, NEW t \in Threads, ServerAcquire(t)
  PROVE  IInv'
<1>0. /\ FrontFacts /\ FlatTypes /\ TypeOK /\ QueueInv /\ PhaseInv /\ EntryInv
      /\ ServerInv /\ OwnerInv /\ HandlerInv /\ WaitInv /\ RetryInv /\ MoveInv
  BY Basics DEF IInv
<1>1. pc[t] = "acquire" /\ ClientOf[t] \in Clients /\ sstate \in ServerState
  BY <1>0 DEF ServerAcquire, FlatTypes
<1>2. state[ClientOf[t]] = "ACQUIRING" /\ owner # ClientOf[t] /\ Head(threads[ClientOf[t]]) = t
  BY <1>0, <1>1 DEF FrontFacts, Active, FlatTypes, PhaseInv, OwnerInv
<1>3. ClientOf[t] \notin waitingClients /\ message[ClientOf[t]] = "EMPTY"
  BY <1>0, <1>1 DEF WaitInv
<1>4. CASE sstate = "NONE"
  <2>0. /\ sstate' = "LOCKED"
        /\ owner' = ClientOf[t]
        /\ reply' = [reply EXCEPT ![t] = "OK"]
        /\ pc' = [pc EXCEPT ![t] = "acquireReply"]
        /\ UNCHANGED << state, message, threads, retryingClient,
                        waitingClients, signalled, target, next >>
    BY <1>4, <1>1, <1>2, <1>3
    DEF ServerAcquire, AcquireAsserts, Goto, clientVars
  <2>1. TypeOK'
    BY <1>0, <1>1, <1>2, <1>3, <1>4, <2>0 DEF TypeOK
  <2>2. QueueInv'
    <3>1. \A u \in Threads :
            /\ Active(u) <=> pc'[u] \notin {"idle", "queued"} \/ u \in signalled'
            /\ pc'[u] = "idle" <=> pc[u] = "idle"
      BY <1>0, <1>1, <1>2, <1>3, <1>4, <2>0 DEF Active, FlatTypes
    <3>2. \A u \in signalled' : pc'[u] \in Asleep
      BY <1>0, <1>1, <1>2, <1>3, <1>4, <2>0 DEF QueueInv, FlatTypes
    <3> QED
      BY <1>0, <2>0, <3>1, <3>2, QueueUnchanged
  <2>3. PhaseInv'
    BY <1>0, <1>1, <1>2, <1>3, <1>4, <2>0 DEF PhaseInv, FlatTypes
  <2>4. EntryInv'
    BY <1>0, <1>1, <1>2, <1>3, <1>4, <2>0 DEF EntryInv, FlatTypes
  <2>5. ServerInv'
    BY <1>0, <1>1, <1>2, <1>3, <1>4, <2>0 DEF ServerInv, FlatTypes
  <2>6. OwnerInv'
    BY <1>0, <1>1, <1>2, <1>3, <1>4, <2>0
    DEF OwnerInv, FlatTypes, PhaseInv, ServerInv, HandlerInv
  <2>7. HandlerInv'
    BY <1>0, <1>1, <1>2, <1>3, <1>4, <2>0 DEF HandlerInv, FlatTypes
  <2>8. WaitInv'
    BY <1>0, <1>1, <1>2, <1>3, <1>4, <2>0 DEF WaitInv, FlatTypes
  <2>9. RetryInv'
    BY <1>0, <1>1, <1>2, <1>3, <1>4, <2>0 DEF RetryInv, FlatTypes
  <2>10. MoveInv'
    BY <1>0, <1>1, <1>2, <1>3, <1>4, <2>0 DEF MoveInv, FlatTypes
  <2> QED
    BY <2>1, <2>2, <2>3, <2>4, <2>5, <2>6, <2>7, <2>8, <2>9, <2>10 DEF IInv
<1>5. CASE sstate = "LOCKED"
  <2>0. /\ waitingClients' = waitingClients \cup {ClientOf[t]}
        /\ sstate' = "REVOKING"
        /\ reply' = [reply EXCEPT ![t] = "RETRY"]
        /\ pc' = [pc EXCEPT ![t] = "revokeOwner"]
        /\ UNCHANGED << state, message, threads, owner, retryingClient,
                        signalled, target, next >>
    BY <1>5, <1>1, <1>2, <1>3
    DEF ServerAcquire, AcquireAsserts, Goto, clientVars
  <2>1. TypeOK'
    BY <1>0, <1>1, <1>2, <1>3, <1>5, <2>0 DEF TypeOK
  <2>2. QueueInv'
    <3>1. \A u \in Threads :
            /\ Active(u) <=> pc'[u] \notin {"idle", "queued"} \/ u \in signalled'
            /\ pc'[u] = "idle" <=> pc[u] = "idle"
      BY <1>0, <1>1, <1>2, <1>3, <1>5, <2>0 DEF Active, FlatTypes
    <3>2. \A u \in signalled' : pc'[u] \in Asleep
      BY <1>0, <1>1, <1>2, <1>3, <1>5, <2>0 DEF QueueInv, FlatTypes
    <3> QED
      BY <1>0, <2>0, <3>1, <3>2, QueueUnchanged
  <2>3. PhaseInv'
    BY <1>0, <1>1, <1>2, <1>3, <1>5, <2>0 DEF PhaseInv, FlatTypes
  <2>4. EntryInv'
    BY <1>0, <1>1, <1>2, <1>3, <1>5, <2>0 DEF EntryInv, FlatTypes
  <2>5. ServerInv'
    BY <1>0, <1>1, <1>2, <1>3, <1>5, <2>0 DEF ServerInv, FlatTypes
  <2>6. OwnerInv'
    BY <1>0, <1>1, <1>2, <1>3, <1>5, <2>0 DEF OwnerInv, FlatTypes
  <2>7. HandlerInv'
    BY <1>0, <1>1, <1>2, <1>3, <1>5, <2>0 DEF HandlerInv, FlatTypes
  <2>8. WaitInv'
    BY <1>0, <1>1, <1>2, <1>3, <1>5, <2>0
    DEF WaitInv, FlatTypes, FrontFacts, Active
  <2>9. RetryInv'
    BY <1>0, <1>1, <1>2, <1>3, <1>5, <2>0 DEF RetryInv, FlatTypes
  <2>10. MoveInv'
    BY <1>0, <1>1, <1>2, <1>3, <1>5, <2>0
    DEF MoveInv, FlatTypes, OwnerInv, EntryInv, ServerInv
  <2> QED
    BY <2>1, <2>2, <2>3, <2>4, <2>5, <2>6, <2>7, <2>8, <2>9, <2>10 DEF IInv
<1>6. CASE \/ sstate = "REVOKING"
           \/ sstate = "RETRYING" /\ ClientOf[t] # retryingClient
  <2>0. /\ waitingClients' = waitingClients \cup {ClientOf[t]}
        /\ reply' = [reply EXCEPT ![t] = "RETRY"]
        /\ pc' = [pc EXCEPT ![t] = "acquireReply"]
        /\ UNCHANGED << state, message, threads, sstate, owner,
                        retryingClient, signalled, target, next >>
    BY <1>6, <1>1, <1>2, <1>3
    DEF ServerAcquire, AcquireAsserts, Goto, clientVars
  <2>1. TypeOK'
    BY <1>0, <1>1, <1>2, <1>3, <1>6, <2>0 DEF TypeOK
  <2>2. QueueInv'
    <3>1. \A u \in Threads :
            /\ Active(u) <=> pc'[u] \notin {"idle", "queued"} \/ u \in signalled'
            /\ pc'[u] = "idle" <=> pc[u] = "idle"
      BY <1>0, <1>1, <1>2, <1>3, <1>6, <2>0 DEF Active, FlatTypes
    <3>2. \A u \in signalled' : pc'[u] \in Asleep
      BY <1>0, <1>1, <1>2, <1>3, <1>6, <2>0 DEF QueueInv, FlatTypes
    <3> QED
      BY <1>0, <2>0, <3>1, <3>2, QueueUnchanged
  <2>3. PhaseInv'
    BY <1>0, <1>1, <1>2, <1>3, <1>6, <2>0 DEF PhaseInv, FlatTypes
  <2>4. EntryInv'
    BY <1>0, <1>1, <1>2, <1>3, <1>6, <2>0 DEF EntryInv, FlatTypes
  <2>5. ServerInv'
    BY <1>0, <1>1, <1>2, <1>3, <1>6, <2>0 DEF ServerInv, FlatTypes
  <2>6. OwnerInv'
    BY <1>0, <1>1, <1>2, <1>3, <1>6, <2>0 DEF OwnerInv, FlatTypes
  <2>7. HandlerInv'
    BY <1>0, <1>1, <1>2, <1>3, <1>6, <2>0 DEF HandlerInv, FlatTypes
  <2>8. WaitInv'
    BY <1>0, <1>1, <1>2, <1>3, <1>6, <2>0
    DEF WaitInv, FlatTypes, FrontFacts, Active
  <2>9. RetryInv'
    BY <1>0, <1>1, <1>2, <1>3, <1>6, <2>0 DEF RetryInv, FlatTypes
  <2>10. MoveInv'
    BY <1>0, <1>1, <1>2, <1>3, <1>6, <2>0 DEF MoveInv, FlatTypes
  <2> QED
    BY <2>1, <2>2, <2>3, <2>4, <2>5, <2>6, <2>7, <2>8, <2>9, <2>10 DEF IInv
<1>7. CASE /\ sstate = "RETRYING" /\ ClientOf[t] = retryingClient
           /\ waitingClients = {}
  <2>0. /\ sstate' = "LOCKED"
        /\ owner' = ClientOf[t]
        /\ retryingClient' = NoClient
        /\ reply' = [reply EXCEPT ![t] = "OK"]
        /\ pc' = [pc EXCEPT ![t] = "acquireReply"]
        /\ UNCHANGED << state, message, threads, waitingClients, signalled,
                        target, next >>
    BY <1>7, <1>1, <1>2, <1>3
    DEF ServerAcquire, AcquireAsserts, Goto, clientVars
  <2>1. TypeOK'
    BY <1>0, <1>1, <1>2, <1>3, <1>7, <2>0 DEF TypeOK
  <2>2. QueueInv'
    <3>1. \A u \in Threads :
            /\ Active(u) <=> pc'[u] \notin {"idle", "queued"} \/ u \in signalled'
            /\ pc'[u] = "idle" <=> pc[u] = "idle"
      BY <1>0, <1>1, <1>2, <1>3, <1>7, <2>0 DEF Active, FlatTypes
    <3>2. \A u \in signalled' : pc'[u] \in Asleep
      BY <1>0, <1>1, <1>2, <1>3, <1>7, <2>0 DEF QueueInv, FlatTypes
    <3> QED
      BY <1>0, <2>0, <3>1, <3>2, QueueUnchanged
  <2>3. PhaseInv'
    BY <1>0, <1>1, <1>2, <1>3, <1>7, <2>0 DEF PhaseInv, FlatTypes
  <2>4. EntryInv'
    BY <1>0, <1>1, <1>2, <1>3, <1>7, <2>0 DEF EntryInv, FlatTypes
  <2>5. ServerInv'
    BY <1>0, <1>1, <1>2, <1>3, <1>7, <2>0 DEF ServerInv, FlatTypes
  <2>6. OwnerInv'
    BY <1>0, <1>1, <1>2, <1>3, <1>7, <2>0
    DEF OwnerInv, FlatTypes, PhaseInv, ServerInv, HandlerInv
  <2>7. HandlerInv'
    BY <1>0, <1>1, <1>2, <1>3, <1>7, <2>0 DEF HandlerInv, FlatTypes
  <2>8. WaitInv'
    BY <1>0, <1>1, <1>2, <1>3, <1>7, <2>0
    DEF WaitInv, FlatTypes, FrontFacts, Active
  <2>9. RetryInv'
    BY <1>0, <1>1, <1>2, <1>3, <1>7, <2>0 DEF RetryInv, FlatTypes
  <2>10. MoveInv'
    BY <1>0, <1>1, <1>2, <1>3, <1>7, <2>0 DEF MoveInv, FlatTypes
  <2> QED
    BY <2>1, <2>2, <2>3, <2>4, <2>5, <2>6, <2>7, <2>8, <2>9, <2>10 DEF IInv
<1>8. CASE /\ sstate = "RETRYING" /\ ClientOf[t] = retryingClient
           /\ waitingClients # {}
  <2>0. /\ sstate' = "REVOKING"
        /\ owner' = ClientOf[t]
        /\ retryingClient' = NoClient
        /\ reply' = [reply EXCEPT ![t] = "OK"]
        /\ pc' = [pc EXCEPT ![t] = "revoke"]
        /\ target' = [target EXCEPT ![t] = ClientOf[t]]
        /\ UNCHANGED << state, message, threads, waitingClients, signalled,
                        next >>
    BY <1>8, <1>1, <1>2, <1>3
    DEF ServerAcquire, AcquireAsserts, Goto, clientVars
  <2>1. TypeOK'
    BY <1>0, <1>1, <1>2, <1>3, <1>8, <2>0 DEF TypeOK
  <2>2. QueueInv'
    <3>1. \A u \in Threads :
            /\ Active(u) <=> pc'[u] \notin {"idle", "queued"} \/ u \in signalled'
            /\ pc'[u] = "idle" <=> pc[u] = "idle"
      BY <1>0, <1>1, <1>2, <1>3, <1>8, <2>0 DEF Active, FlatTypes
    <3>2. \A u \in signalled' : pc'[u] \in Asleep
      BY <1>0, <1>1, <1>2, <1>3, <1>8, <2>0 DEF QueueInv, FlatTypes
    <3> QED
      BY <1>0, <2>0, <3>1, <3>2, QueueUnchanged
  <2>3. PhaseInv'
    BY <1>0, <1>1, <1>2, <1>3, <1>8, <2>0 DEF PhaseInv, FlatTypes
  <2>4. EntryInv'
    BY <1>0, <1>1, <1>2, <1>3, <1>8, <2>0 DEF EntryInv, FlatTypes
  <2>5. ServerInv'
    BY <1>0, <1>1, <1>2, <1>3, <1>8, <2>0 DEF ServerInv, FlatTypes
  <2>6. OwnerInv'
    BY <1>0, <1>1, <1>2, <1>3, <1>8, <2>0
    DEF OwnerInv, FlatTypes, PhaseInv, ServerInv, HandlerInv
  <2>7. HandlerInv'
    BY <1>0, <1>1, <1>2, <1>3, <1>8, <2>0 DEF HandlerInv, FlatTypes
  <2>8. WaitInv'
    BY <1>0, <1>1, <1>2, <1>3, <1>8, <2>0
    DEF WaitInv, FlatTypes, FrontFacts, Active
  <2>9. RetryInv'
    BY <1>0, <1>1, <1>2, <1>3, <1>8, <2>0 DEF RetryInv, FlatTypes
  <2>10. MoveInv'
    BY <1>0, <1>1, <1>2, <1>3, <1>8, <2>0 DEF MoveInv, FlatTypes
  <2> QED
    BY <2>1, <2>2, <2>3, <2>4, <2>5, <2>6, <2>7, <2>8, <2>9, <2>10 DEF IInv
<1> QED
  BY <1>1, <1>4, <1>5, <1>6, <1>7, <1>8

\* lock_server_cache::release, for either caller.
LEMMA ServerReleaseStep ==
  ASSUME IInv, NEW t \in Threads, ServerRelease(t)
  PROVE  IInv'
<1>0. /\ FrontFacts /\ FlatTypes /\ TypeOK /\ QueueInv /\ PhaseInv /\ EntryInv
      /\ ServerInv /\ OwnerInv /\ HandlerInv /\ WaitInv /\ RetryInv /\ MoveInv
  BY Basics DEF IInv
<1>1. pc[t] \in {"release", "revokeRelease"} /\ sstate = "REVOKING" /\ owner \in Clients
  BY <1>0 DEF ServerRelease, ReleaseAsserts, ServerInv, FlatTypes
<1>2. PICK m \in waitingClients : m = Min(waitingClients)
  BY <1>0, <1>1, MinIsLeast DEF FlatTypes, ServerInv
<1>3. state[owner] = "RELEASING"
  BY <1>0, <1>1 DEF OwnerInv, PhaseInv, HandlerInv
<1>4. CASE pc[t] = "release"
  <2>0. /\ waitingClients' = waitingClients \ {m}
        /\ retryingClient' = m
        /\ owner' = NoClient
        /\ sstate' = "RETRYING"
        /\ next' = [next EXCEPT ![t] = m]
        /\ pc' = [pc EXCEPT ![t] = "retry"]
        /\ UNCHANGED << state, message, threads, signalled, reply, target >>
    BY <1>4, <1>1, <1>2, <1>3
    DEF ServerRelease, Releaser, Goto, clientVars
  <2>1. TypeOK'
    BY <1>0, <1>1, <1>2, <1>3, <1>4, <2>0 DEF TypeOK
  <2>2. QueueInv'
    <3>1. \A u \in Threads :
            /\ Active(u) <=> pc'[u] \notin {"idle", "queued"} \/ u \in signalled'
            /\ pc'[u] = "idle" <=> pc[u] = "idle"
      BY <1>0, <1>1, <1>2, <1>3, <1>4, <2>0 DEF Active, FlatTypes
    <3>2. \A u \in signalled' : pc'[u] \in Asleep
      BY <1>0, <1>1, <1>2, <1>3, <1>4, <2>0 DEF QueueInv, FlatTypes
    <3> QED
      BY <1>0, <2>0, <3>1, <3>2, QueueUnchanged
  <2>3. PhaseInv'
    BY <1>0, <1>1, <1>2, <1>3, <1>4, <2>0 DEF PhaseInv, FlatTypes
  <2>4. EntryInv'
    BY <1>0, <1>1, <1>2, <1>3, <1>4, <2>0 DEF EntryInv, FlatTypes, ServerInv
  <2>5. ServerInv'
    BY <1>0, <1>1, <1>2, <1>3, <1>4, <2>0 DEF ServerInv, FlatTypes
  <2>6. OwnerInv'
    BY <1>0, <1>1, <1>2, <1>3, <1>4, <2>0
    DEF OwnerInv, FlatTypes, PhaseInv, HandlerInv, MoveInv
  <2>7. HandlerInv'
    BY <1>0, <1>1, <1>2, <1>3, <1>4, <2>0 DEF HandlerInv, FlatTypes
  <2>8. WaitInv'
    BY <1>0, <1>1, <1>2, <1>3, <1>4, <2>0 DEF WaitInv, FlatTypes, ServerInv
  <2>9. RetryInv'
    BY <1>0, <1>1, <1>2, <1>3, <1>4, <2>0
    DEF RetryInv, FlatTypes, WaitInv, ServerInv
  <2>10. MoveInv'
    BY <1>0, <1>1, <1>2, <1>3, <1>4, <2>0 DEF MoveInv, FlatTypes
  <2> QED
    BY <2>1, <2>2, <2>3, <2>4, <2>5, <2>6, <2>7, <2>8, <2>9, <2>10 DEF IInv
<1>5. CASE pc[t] = "revokeRelease"
  <2>0. /\ waitingClients' = waitingClients \ {m}
        /\ retryingClient' = m
        /\ owner' = NoClient
        /\ sstate' = "RETRYING"
        /\ next' = [next EXCEPT ![t] = m]
        /\ pc' = [pc EXCEPT ![t] = "revokeRetry"]
        /\ UNCHANGED << state, message, threads, signalled, reply, target >>
    BY <1>5, <1>1, <1>2, <1>3
    DEF ServerRelease, Releaser, Goto, clientVars
  <2>1. TypeOK'
    BY <1>0, <1>1, <1>2, <1>3, <1>5, <2>0 DEF TypeOK
  <2>2. QueueInv'
    <3>1. \A u \in Threads :
            /\ Active(u) <=> pc'[u] \notin {"idle", "queued"} \/ u \in signalled'
            /\ pc'[u] = "idle" <=> pc[u] = "idle"
      BY <1>0, <1>1, <1>2, <1>3, <1>5, <2>0 DEF Active, FlatTypes
    <3>2. \A u \in signalled' : pc'[u] \in Asleep
      BY <1>0, <1>1, <1>2, <1>3, <1>5, <2>0 DEF QueueInv, FlatTypes
    <3> QED
      BY <1>0, <2>0, <3>1, <3>2, QueueUnchanged
  <2>3. PhaseInv'
    BY <1>0, <1>1, <1>2, <1>3, <1>5, <2>0 DEF PhaseInv, FlatTypes
  <2>4. EntryInv'
    BY <1>0, <1>1, <1>2, <1>3, <1>5, <2>0 DEF EntryInv, FlatTypes, ServerInv
  <2>5. ServerInv'
    BY <1>0, <1>1, <1>2, <1>3, <1>5, <2>0 DEF ServerInv, FlatTypes
  <2>6. OwnerInv'
    BY <1>0, <1>1, <1>2, <1>3, <1>5, <2>0
    DEF OwnerInv, FlatTypes, PhaseInv, HandlerInv, MoveInv
  <2>7. HandlerInv'
    BY <1>0, <1>1, <1>2, <1>3, <1>5, <2>0 DEF HandlerInv, FlatTypes
  <2>8. WaitInv'
    BY <1>0, <1>1, <1>2, <1>3, <1>5, <2>0 DEF WaitInv, FlatTypes, ServerInv
  <2>9. RetryInv'
    BY <1>0, <1>1, <1>2, <1>3, <1>5, <2>0
    DEF RetryInv, FlatTypes, WaitInv, ServerInv
  <2>10. MoveInv'
    BY <1>0, <1>1, <1>2, <1>3, <1>5, <2>0 DEF MoveInv, FlatTypes
  <2> QED
    BY <2>1, <2>2, <2>3, <2>4, <2>5, <2>6, <2>7, <2>8, <2>9, <2>10 DEF IInv
<1> QED
  BY <1>1, <1>4, <1>5

\* blockUntilGot after its RPC: granted, to sleep, or once more.
LEMMA AcquireReturnsStep ==
  ASSUME IInv, NEW t \in Threads, AcquireReturns(t)
  PROVE  IInv'
<1>0. /\ FrontFacts /\ FlatTypes /\ TypeOK /\ QueueInv /\ PhaseInv /\ EntryInv
      /\ ServerInv /\ OwnerInv /\ HandlerInv /\ WaitInv /\ RetryInv /\ MoveInv
  BY Basics DEF IInv
<1>1. pc[t] = "acquireReply" /\ state[ClientOf[t]] = "ACQUIRING" /\ t \notin signalled
  BY <1>0 DEF AcquireReturns, PhaseInv, FrontFacts
<1>2. Head(threads[ClientOf[t]]) = t /\ threads[ClientOf[t]] # << >>
  BY <1>0, <1>1 DEF FrontFacts, Active
<1>3. \A u \in Threads : Active(u) /\ ClientOf[u] = ClientOf[t] => u = t
  BY <1>0, <1>1 DEF FrontFacts, Active
<1>4. CASE reply[t] = "OK"
  <2>0. /\ state' = [state EXCEPT ![ClientOf[t]] = "LOCKED"]
        /\ pc' = [pc EXCEPT ![t] = "critical"]
        /\ reply' = [reply EXCEPT ![t] = "RETRY"]
        /\ target' = [target EXCEPT ![t] = NoClient]
        /\ next' = [next EXCEPT ![t] = NoClient]
        /\ UNCHANGED << message, threads, sstate, owner, retryingClient,
                        waitingClients, signalled >>
    BY <1>4, <1>1, <1>2, <1>3
    DEF AcquireReturns, Goto, SetState, EndCall, serverVars
  <2>1. TypeOK'
    BY <1>0, <1>1, <1>2, <1>3, <1>4, <2>0 DEF TypeOK
  <2>2. QueueInv'
    <3>1. \A u \in Threads :
            /\ Active(u) <=> pc'[u] \notin {"idle", "queued"} \/ u \in signalled'
            /\ pc'[u] = "idle" <=> pc[u] = "idle"
      BY <1>0, <1>1, <1>2, <1>3, <1>4, <2>0 DEF Active, FlatTypes
    <3>2. \A u \in signalled' : pc'[u] \in Asleep
      BY <1>0, <1>1, <1>2, <1>3, <1>4, <2>0 DEF QueueInv, FlatTypes
    <3> QED
      BY <1>0, <2>0, <3>1, <3>2, QueueUnchanged
  <2>3. PhaseInv'
    BY <1>0, <1>1, <1>2, <1>3, <1>4, <2>0
    DEF PhaseInv, FlatTypes, FrontFacts, Active
  <2>4. EntryInv'
    BY <1>0, <1>1, <1>2, <1>3, <1>4, <2>0
    DEF EntryInv, FlatTypes, OwnerInv, ServerInv
  <2>5. ServerInv'
    BY <1>0, <1>1, <1>2, <1>3, <1>4, <2>0 DEF ServerInv, FlatTypes
  <2>6. OwnerInv'
    BY <1>0, <1>1, <1>2, <1>3, <1>4, <2>0 DEF OwnerInv, FlatTypes
  <2>7. HandlerInv'
    BY <1>0, <1>1, <1>2, <1>3, <1>4, <2>0 DEF HandlerInv, FlatTypes
  <2>8. WaitInv'
    BY <1>0, <1>1, <1>2, <1>3, <1>4, <2>0
    DEF WaitInv, FlatTypes, OwnerInv, ServerInv
  <2>9. RetryInv'
    BY <1>0, <1>1, <1>2, <1>3, <1>4, <2>0 DEF RetryInv, FlatTypes
  <2>10. MoveInv'
    BY <1>0, <1>1, <1>2, <1>3, <1>4, <2>0 DEF MoveInv, FlatTypes
  <2> QED
    BY <2>1, <2>2, <2>3, <2>4, <2>5, <2>6, <2>7, <2>8, <2>9, <2>10 DEF IInv
<1>5. CASE reply[t] # "OK" /\ message[ClientOf[t]] = "EMPTY"
  <2>0. /\ pc' = [pc EXCEPT ![t] = "awaitRetry"]
        /\ reply' = [reply EXCEPT ![t] = "RETRY"]
        /\ target' = [target EXCEPT ![t] = NoClient]
        /\ next' = [next EXCEPT ![t] = NoClient]
        /\ UNCHANGED << state, message, threads, sstate, owner,
                        retryingClient, waitingClients, signalled >>
    BY <1>5, <1>1, <1>2, <1>3
    DEF AcquireReturns, Goto, SetState, EndCall, serverVars
  <2>1. TypeOK'
    BY <1>0, <1>1, <1>2, <1>3, <1>5, <2>0 DEF TypeOK
  <2>2. QueueInv'
    <3>1. \A u \in Threads :
            /\ Active(u) <=> pc'[u] \notin {"idle", "queued"} \/ u \in signalled'
            /\ pc'[u] = "idle" <=> pc[u] = "idle"
      BY <1>0, <1>1, <1>2, <1>3, <1>5, <2>0 DEF Active, FlatTypes
    <3>2. \A u \in signalled' : pc'[u] \in Asleep
      BY <1>0, <1>1, <1>2, <1>3, <1>5, <2>0 DEF QueueInv, FlatTypes
    <3> QED
      BY <1>0, <2>0, <3>1, <3>2, QueueUnchanged
  <2>3. PhaseInv'
    BY <1>0, <1>1, <1>2, <1>3, <1>5, <2>0 DEF PhaseInv, FlatTypes
  <2>4. EntryInv'
    BY <1>0, <1>1, <1>2, <1>3, <1>5, <2>0
    DEF EntryInv, FlatTypes, OwnerInv, ServerInv
  <2>5. ServerInv'
    BY <1>0, <1>1, <1>2, <1>3, <1>5, <2>0 DEF ServerInv, FlatTypes
  <2>6. OwnerInv'
    BY <1>0, <1>1, <1>2, <1>3, <1>5, <2>0 DEF OwnerInv, FlatTypes
  <2>7. HandlerInv'
    BY <1>0, <1>1, <1>2, <1>3, <1>5, <2>0 DEF HandlerInv, FlatTypes
  <2>8. WaitInv'
    BY <1>0, <1>1, <1>2, <1>3, <1>5, <2>0 DEF WaitInv, FlatTypes
  <2>9. RetryInv'
    BY <1>0, <1>1, <1>2, <1>3, <1>5, <2>0 DEF RetryInv, FlatTypes
  <2>10. MoveInv'
    BY <1>0, <1>1, <1>2, <1>3, <1>5, <2>0 DEF MoveInv, FlatTypes
  <2> QED
    BY <2>1, <2>2, <2>3, <2>4, <2>5, <2>6, <2>7, <2>8, <2>9, <2>10 DEF IInv
<1>6. CASE reply[t] # "OK" /\ message[ClientOf[t]] # "EMPTY"
  <2>0. /\ message' = [message EXCEPT ![ClientOf[t]] = "EMPTY"]
        /\ pc' = [pc EXCEPT ![t] = "acquire"]
        /\ reply' = [reply EXCEPT ![t] = "RETRY"]
        /\ target' = [target EXCEPT ![t] = NoClient]
        /\ next' = [next EXCEPT ![t] = NoClient]
        /\ UNCHANGED << state, threads, sstate, owner, retryingClient,
                        waitingClients, signalled >>
    BY <1>6, <1>1, <1>2, <1>3
    DEF AcquireReturns, Goto, SetState, EndCall, serverVars
  <2>1. TypeOK'
    BY <1>0, <1>1, <1>2, <1>3, <1>6, <2>0 DEF TypeOK
  <2>2. QueueInv'
    <3>1. \A u \in Threads :
            /\ Active(u) <=> pc'[u] \notin {"idle", "queued"} \/ u \in signalled'
            /\ pc'[u] = "idle" <=> pc[u] = "idle"
      BY <1>0, <1>1, <1>2, <1>3, <1>6, <2>0 DEF Active, FlatTypes
    <3>2. \A u \in signalled' : pc'[u] \in Asleep
      BY <1>0, <1>1, <1>2, <1>3, <1>6, <2>0 DEF QueueInv, FlatTypes
    <3> QED
      BY <1>0, <2>0, <3>1, <3>2, QueueUnchanged
  <2>3. PhaseInv'
    BY <1>0, <1>1, <1>2, <1>3, <1>6, <2>0 DEF PhaseInv, FlatTypes
  <2>4. EntryInv'
    BY <1>0, <1>1, <1>2, <1>3, <1>6, <2>0
    DEF EntryInv, FlatTypes, OwnerInv, ServerInv
  <2>5. ServerInv'
    BY <1>0, <1>1, <1>2, <1>3, <1>6, <2>0 DEF ServerInv, FlatTypes
  <2>6. OwnerInv'
    BY <1>0, <1>1, <1>2, <1>3, <1>6, <2>0 DEF OwnerInv, FlatTypes
  <2>7. HandlerInv'
    BY <1>0, <1>1, <1>2, <1>3, <1>6, <2>0 DEF HandlerInv, FlatTypes
  <2>8. WaitInv'
    BY <1>0, <1>1, <1>2, <1>3, <1>6, <2>0, ZenonT(60) DEF WaitInv, FlatTypes, Active
  <2>9. RetryInv'
    BY <1>0, <1>1, <1>2, <1>3, <1>6, <2>0 DEF RetryInv, FlatTypes
  <2>10. MoveInv'
    BY <1>0, <1>1, <1>2, <1>3, <1>6, <2>0 DEF MoveInv, FlatTypes
  <2> QED
    BY <2>1, <2>2, <2>3, <2>4, <2>5, <2>6, <2>7, <2>8, <2>9, <2>10 DEF IInv
<1> QED
  BY <1>1, <1>4, <1>5, <1>6

\* blockUntilGot after a retry.
LEMMA WakeAfterRetryStep ==
  ASSUME IInv, NEW t \in Threads, WakeAfterRetry(t)
  PROVE  IInv'
<1>0. /\ FrontFacts /\ FlatTypes /\ TypeOK /\ QueueInv /\ PhaseInv /\ EntryInv
      /\ ServerInv /\ OwnerInv /\ HandlerInv /\ WaitInv /\ RetryInv /\ MoveInv
  BY Basics DEF IInv
<1>1. pc[t] = "awaitRetry" /\ t \in signalled /\ ClientOf[t] \in Clients
  BY DEF WakeAfterRetry
<1>2. threads[ClientOf[t]] # << >> /\ Head(threads[ClientOf[t]]) = t
  BY <1>0, <1>1 DEF FrontFacts, Active
<1>3. \A u \in Threads : Active(u) /\ ClientOf[u] = ClientOf[t] => u = t
  BY <1>0, <1>1 DEF FrontFacts, Active
<1>4. /\ signalled' = signalled \ {t}
      /\ message' = [message EXCEPT ![ClientOf[t]] = "EMPTY"]
      /\ pc' = [pc EXCEPT ![t] = "acquire"]
      /\ UNCHANGED << state, threads, sstate, owner, retryingClient,
                      waitingClients, reply, target, next >>
  BY <1>1, <1>2, <1>3
  DEF WakeAfterRetry, Goto, serverVars, callVars
<1>5. TypeOK'
  BY <1>0, <1>1, <1>2, <1>3, <1>4 DEF TypeOK
<1>6. QueueInv'
  <2>1. \A u \in Threads :
          /\ Active(u) <=> pc'[u] \notin {"idle", "queued"} \/ u \in signalled'
          /\ pc'[u] = "idle" <=> pc[u] = "idle"
    BY <1>0, <1>1, <1>2, <1>3, <1>4 DEF Active, FlatTypes
  <2>2. \A u \in signalled' : pc'[u] \in Asleep
    BY <1>0, <1>1, <1>2, <1>3, <1>4 DEF QueueInv, FlatTypes
  <2> QED
    BY <1>0, <1>4, <2>1, <2>2, QueueUnchanged
<1>7. PhaseInv'
  BY <1>0, <1>1, <1>2, <1>3, <1>4 DEF PhaseInv, FlatTypes
<1>8. EntryInv'
  BY <1>0, <1>1, <1>2, <1>3, <1>4 DEF EntryInv, FlatTypes
<1>9. ServerInv'
  BY <1>0, <1>1, <1>2, <1>3, <1>4 DEF ServerInv, FlatTypes
<1>10. OwnerInv'
  BY <1>0, <1>1, <1>2, <1>3, <1>4 DEF OwnerInv, FlatTypes
<1>11. HandlerInv'
  BY <1>0, <1>1, <1>2, <1>3, <1>4 DEF HandlerInv, FlatTypes
<1>12. WaitInv'
  BY <1>0, <1>1, <1>2, <1>3, <1>4, ZenonT(60) DEF WaitInv, FlatTypes, Active
<1>13. RetryInv'
  BY <1>0, <1>1, <1>2, <1>3, <1>4 DEF RetryInv, FlatTypes, WaitInv
<1>14. MoveInv'
  BY <1>0, <1>1, <1>2, <1>3, <1>4 DEF MoveInv, FlatTypes
<1> QED
  BY <1>5, <1>6, <1>7, <1>8, <1>9, <1>10, <1>11, <1>12, <1>13, <1>14 DEF IInv

\* acquire, when the lock or the duty to ask for it is handed over.
LEMMA WakeQueuedStep ==
  ASSUME IInv, NEW t \in Threads, WakeQueued(t)
  PROVE  IInv'
<1>0. /\ FrontFacts /\ FlatTypes /\ TypeOK /\ QueueInv /\ PhaseInv /\ EntryInv
      /\ ServerInv /\ OwnerInv /\ HandlerInv /\ WaitInv /\ RetryInv /\ MoveInv
  BY Basics DEF IInv
<1>1. pc[t] = "queued" /\ t \in signalled /\ ClientOf[t] \in Clients
  BY DEF WakeQueued
<1>2. threads[ClientOf[t]] # << >> /\ Head(threads[ClientOf[t]]) = t
  BY <1>0, <1>1 DEF FrontFacts, Active
<1>3. state[ClientOf[t]] \in {"LOCKED", "NONE"}
  BY <1>0, <1>1 DEF PhaseInv
<1>4. CASE state[ClientOf[t]] = "LOCKED"
  <2>0. /\ signalled' = signalled \ {t}
        /\ state' = [state EXCEPT ![ClientOf[t]] = "LOCKED"]
        /\ pc' = [pc EXCEPT ![t] = "critical"]
        /\ UNCHANGED << message, threads, sstate, owner, retryingClient,
                        waitingClients, reply, target, next >>
    BY <1>4, <1>1, <1>2, <1>3
    DEF WakeQueued, Goto, SetState, BlockUntilGot, serverVars, callVars
  <2>1. TypeOK'
    BY <1>0, <1>1, <1>2, <1>3, <1>4, <2>0 DEF TypeOK
  <2>2. QueueInv'
    <3>1. \A u \in Threads :
            /\ Active(u) <=> pc'[u] \notin {"idle", "queued"} \/ u \in signalled'
            /\ pc'[u] = "idle" <=> pc[u] = "idle"
      BY <1>0, <1>1, <1>2, <1>3, <1>4, <2>0 DEF Active, FlatTypes
    <3>2. \A u \in signalled' : pc'[u] \in Asleep
      BY <1>0, <1>1, <1>2, <1>3, <1>4, <2>0 DEF QueueInv, FlatTypes
    <3> QED
      BY <1>0, <2>0, <3>1, <3>2, QueueUnchanged
  <2>3. PhaseInv'
    BY <1>0, <1>1, <1>2, <1>3, <1>4, <2>0 DEF PhaseInv, FlatTypes
  <2>4. EntryInv'
    BY <1>0, <1>1, <1>2, <1>3, <1>4, <2>0 DEF EntryInv, FlatTypes
  <2>5. ServerInv'
    BY <1>0, <1>1, <1>2, <1>3, <1>4, <2>0 DEF ServerInv, FlatTypes
  <2>6. OwnerInv'
    BY <1>0, <1>1, <1>2, <1>3, <1>4, <2>0 DEF OwnerInv, FlatTypes
  <2>7. HandlerInv'
    BY <1>0, <1>1, <1>2, <1>3, <1>4, <2>0 DEF HandlerInv, FlatTypes
  <2>8. WaitInv'
    BY <1>0, <1>1, <1>2, <1>3, <1>4, <2>0 DEF WaitInv, FlatTypes
  <2>9. RetryInv'
    BY <1>0, <1>1, <1>2, <1>3, <1>4, <2>0 DEF RetryInv, FlatTypes
  <2>10. MoveInv'
    BY <1>0, <1>1, <1>2, <1>3, <1>4, <2>0 DEF MoveInv, FlatTypes
  <2> QED
    BY <2>1, <2>2, <2>3, <2>4, <2>5, <2>6, <2>7, <2>8, <2>9, <2>10 DEF IInv
<1>5. CASE state[ClientOf[t]] = "NONE"
  <2>0. /\ signalled' = signalled \ {t}
        /\ state' = [state EXCEPT ![ClientOf[t]] = "ACQUIRING"]
        /\ pc' = [pc EXCEPT ![t] = "acquire"]
        /\ UNCHANGED << message, threads, sstate, owner, retryingClient,
                        waitingClients, reply, target, next >>
    BY <1>5, <1>1, <1>2, <1>3
    DEF WakeQueued, Goto, SetState, BlockUntilGot, serverVars, callVars
  <2>1. TypeOK'
    BY <1>0, <1>1, <1>2, <1>3, <1>5, <2>0 DEF TypeOK
  <2>2. QueueInv'
    <3>1. \A u \in Threads :
            /\ Active(u) <=> pc'[u] \notin {"idle", "queued"} \/ u \in signalled'
            /\ pc'[u] = "idle" <=> pc[u] = "idle"
      BY <1>0, <1>1, <1>2, <1>3, <1>5, <2>0 DEF Active, FlatTypes
    <3>2. \A u \in signalled' : pc'[u] \in Asleep
      BY <1>0, <1>1, <1>2, <1>3, <1>5, <2>0 DEF QueueInv, FlatTypes
    <3> QED
      BY <1>0, <2>0, <3>1, <3>2, QueueUnchanged
  <2>3. PhaseInv'
    BY <1>0, <1>1, <1>2, <1>3, <1>5, <2>0
    DEF PhaseInv, FlatTypes, FrontFacts, Active
  <2>4. EntryInv'
    BY <1>0, <1>1, <1>2, <1>3, <1>5, <2>0 DEF EntryInv, FlatTypes
  <2>5. ServerInv'
    BY <1>0, <1>1, <1>2, <1>3, <1>5, <2>0 DEF ServerInv, FlatTypes
  <2>6. OwnerInv'
    BY <1>0, <1>1, <1>2, <1>3, <1>5, <2>0 DEF OwnerInv, FlatTypes
  <2>7. HandlerInv'
    BY <1>0, <1>1, <1>2, <1>3, <1>5, <2>0 DEF HandlerInv, FlatTypes
  <2>8. WaitInv'
    <3>1. message[ClientOf[t]] = "EMPTY" /\ ClientOf[t] \notin waitingClients
      BY <1>0, <1>1, <1>2, <1>5 DEF WaitInv, EntryInv, FlatTypes
    <3>2. /\ \A c \in waitingClients' :
               state'[c] = "ACQUIRING" /\ message'[c] = "EMPTY"
          /\ retryingClient' # NoClient => state'[retryingClient'] = "ACQUIRING"
      BY <1>0, <1>1, <1>2, <1>3, <1>5, <2>0 DEF WaitInv, FlatTypes
    <3>3. \A u \in Threads : pc'[u] = "acquire" =>
            message'[ClientOf[u]] = "EMPTY" /\ ClientOf[u] \notin waitingClients'
      BY <1>0, <1>1, <1>2, <1>3, <2>0, <3>1 DEF WaitInv, FlatTypes
    <3>4. \A u \in Threads : pc'[u] \in Asking \ {"acquire"} /\ reply'[u] = "RETRY" =>
            ClientOf[u] \in waitingClients' \/ ClientOf[u] = retryingClient'
      BY <1>0, <1>1, <1>2, <1>3, <1>5, <2>0 DEF WaitInv, FlatTypes
    <3>5. \A u \in Threads : pc'[u] = "awaitRetry" /\ u \in signalled' =>
            message'[ClientOf[u]] = "RETRY"
      BY <1>0, <1>1, <1>2, <1>3, <1>5, <2>0 DEF WaitInv, FlatTypes
    <3> QED
      BY <3>2, <3>3, <3>4, <3>5 DEF WaitInv
  <2>9. RetryInv'
    BY <1>0, <1>1, <1>2, <1>3, <1>5, <2>0 DEF RetryInv, FlatTypes, WaitInv
  <2>10. MoveInv'
    BY <1>0, <1>1, <1>2, <1>3, <1>5, <2>0 DEF MoveInv, FlatTypes
  <2> QED
    BY <2>1, <2>2, <2>3, <2>4, <2>5, <2>6, <2>7, <2>8, <2>9, <2>10 DEF IInv
<1> QED
  BY <1>1, <1>2, <1>3, <1>4, <1>5

\* acquire, when a revoked lock has gone back.
LEMMA WakeAfterReleaseStep ==
  ASSUME IInv, NEW t \in Threads, WakeAfterRelease(t)
  PROVE  IInv'
<1>0. /\ FrontFacts /\ FlatTypes /\ TypeOK /\ QueueInv /\ PhaseInv /\ EntryInv
      /\ ServerInv /\ OwnerInv /\ HandlerInv /\ WaitInv /\ RetryInv /\ MoveInv
  BY Basics DEF IInv
<1>1. pc[t] = "awaitRelease" /\ t \in signalled /\ ClientOf[t] \in Clients
  BY DEF WakeAfterRelease
<1>2. threads[ClientOf[t]] # << >> /\ Head(threads[ClientOf[t]]) = t
  BY <1>0, <1>1 DEF FrontFacts, Active
<1>3. state[ClientOf[t]] = "NONE"
  BY <1>0, <1>1 DEF PhaseInv
<1>4. /\ signalled' = signalled \ {t}
      /\ state' = [state EXCEPT ![ClientOf[t]] = "ACQUIRING"]
      /\ pc' = [pc EXCEPT ![t] = "acquire"]
      /\ UNCHANGED << message, threads, sstate, owner, retryingClient,
                      waitingClients, reply, target, next >>
  BY <1>1, <1>2, <1>3
  DEF WakeAfterRelease, Goto, SetState, BlockUntilGot, serverVars, callVars
<1>5. TypeOK'
  BY <1>0, <1>1, <1>2, <1>3, <1>4 DEF TypeOK
<1>6. QueueInv'
  <2>1. \A u \in Threads :
          /\ Active(u) <=> pc'[u] \notin {"idle", "queued"} \/ u \in signalled'
          /\ pc'[u] = "idle" <=> pc[u] = "idle"
    BY <1>0, <1>1, <1>2, <1>3, <1>4 DEF Active, FlatTypes
  <2>2. \A u \in signalled' : pc'[u] \in Asleep
    BY <1>0, <1>1, <1>2, <1>3, <1>4 DEF QueueInv, FlatTypes
  <2> QED
    BY <1>0, <1>4, <2>1, <2>2, QueueUnchanged
<1>7. PhaseInv'
  BY <1>0, <1>1, <1>2, <1>3, <1>4 DEF PhaseInv, FlatTypes, FrontFacts, Active
<1>8. EntryInv'
  BY <1>0, <1>1, <1>2, <1>3, <1>4 DEF EntryInv, FlatTypes
<1>9. ServerInv'
  BY <1>0, <1>1, <1>2, <1>3, <1>4 DEF ServerInv, FlatTypes
<1>10. OwnerInv'
  BY <1>0, <1>1, <1>2, <1>3, <1>4 DEF OwnerInv, FlatTypes
<1>11. HandlerInv'
  BY <1>0, <1>1, <1>2, <1>3, <1>4 DEF HandlerInv, FlatTypes
<1>12. WaitInv'
  BY <1>0, <1>1, <1>2, <1>3, <1>4, ZenonT(60) DEF WaitInv, FlatTypes, EntryInv
<1>13. RetryInv'
  BY <1>0, <1>1, <1>2, <1>3, <1>4 DEF RetryInv, FlatTypes, WaitInv
<1>14. MoveInv'
  BY <1>0, <1>1, <1>2, <1>3, <1>4 DEF MoveInv, FlatTypes
<1> QED
  BY <1>5, <1>6, <1>7, <1>8, <1>9, <1>10, <1>11, <1>12, <1>13, <1>14 DEF IInv

\* lock_client_cache::acquire, in each of its branches.
LEMMA AcquireStep ==
  ASSUME IInv, NEW t \in Threads, Acquire(t)
  PROVE  IInv'
<1>0. /\ FrontFacts /\ FlatTypes /\ TypeOK /\ QueueInv /\ PhaseInv /\ EntryInv
      /\ ServerInv /\ OwnerInv /\ HandlerInv /\ WaitInv /\ RetryInv /\ MoveInv
  BY Basics DEF IInv
<1>1. pc[t] = "idle" /\ t \notin signalled /\ ClientOf[t] \in Clients
  BY <1>0 DEF Acquire, PushBack, FrontFacts
<1>2. threads' = [threads EXCEPT ![ClientOf[t]] = Append(threads[ClientOf[t]], t)]
  BY <1>0, <1>1 DEF Acquire, PushBack, TypeOK
<1>3. /\ threads' \in [Clients -> Seq(Threads)]
      /\ threads'[ClientOf[t]] # << >>
      /\ \A d \in Clients : d # ClientOf[t] => threads'[d] = threads[d]
      /\ \A d \in Clients : threads[d] # << >> =>
           threads'[d] # << >> /\ Head(threads'[d]) = Head(threads[d])
  BY <1>0, <1>2, FrontAfterAppend
<1>4. threads[ClientOf[t]] = << >> =>
        \A u \in Threads : ClientOf[u] = ClientOf[t] => ~ Active(u)
  BY <1>0 DEF FrontFacts
<1>5. /\ state[ClientOf[t]] = "NONE" =>
           message[ClientOf[t]] = "EMPTY" /\ ClientOf[t] \notin waitingClients
      /\ threads[ClientOf[t]] = << >> =>
           state[ClientOf[t]] \in {"FREE", "NONE", "RELEASING"}
  BY <1>0, <1>1 DEF EntryInv, FlatTypes, WaitInv
<1>6. CASE threads[ClientOf[t]] = << >> /\ state[ClientOf[t]] = "FREE"
  <2>0. /\ threads' = [threads EXCEPT ![ClientOf[t]] = Append(threads[ClientOf[t]], t)]
        /\ state' = [state EXCEPT ![ClientOf[t]] = "LOCKED"]
        /\ pc' = [pc EXCEPT ![t] = "critical"]
        /\ UNCHANGED << message, sstate, owner, retryingClient,
                        waitingClients, signalled, reply, target, next >>
    BY <1>6, <1>1, <1>2, <1>3, <1>4, <1>5
    DEF Acquire, PushBack, Goto, SetState, BlockUntilGot, serverVars, callVars
  <2>1. TypeOK'
    BY <1>0, <1>1, <1>2, <1>3, <1>4, <1>5, <1>6, <2>0 DEF TypeOK
  <2>2. QueueInv'
    BY <1>0, <1>1, <1>6, <2>0, QueueAppend
  <2>3. PhaseInv'
    BY <1>0, <1>1, <1>2, <1>3, <1>4, <1>5, <1>6, <2>0
    DEF PhaseInv, FlatTypes, Active
  <2>4. EntryInv'
    BY <1>0, <1>1, <1>2, <1>3, <1>4, <1>5, <1>6, <2>0 DEF EntryInv, FlatTypes
  <2>5. ServerInv'
    BY <1>0, <1>1, <1>2, <1>3, <1>4, <1>5, <1>6, <2>0 DEF ServerInv, FlatTypes
  <2>6. OwnerInv'
    BY <1>0, <1>1, <1>2, <1>3, <1>4, <1>5, <1>6, <2>0
    DEF OwnerInv, FlatTypes, EntryInv
  <2>7. HandlerInv'
    BY <1>0, <1>1, <1>2, <1>3, <1>4, <1>5, <1>6, <2>0 DEF HandlerInv, FlatTypes
  <2>8. WaitInv'
    BY <1>0, <1>1, <1>2, <1>3, <1>4, <1>5, <1>6, <2>0 DEF WaitInv, FlatTypes
  <2>9. RetryInv'
    BY <1>0, <1>1, <1>2, <1>3, <1>4, <1>5, <1>6, <2>0 DEF RetryInv, FlatTypes
  <2>10. MoveInv'
    BY <1>0, <1>1, <1>2, <1>3, <1>4, <1>5, <1>6, <2>0 DEF MoveInv, FlatTypes
  <2> QED
    BY <2>1, <2>2, <2>3, <2>4, <2>5, <2>6, <2>7, <2>8, <2>9, <2>10 DEF IInv
<1>7. CASE threads[ClientOf[t]] = << >> /\ state[ClientOf[t]] = "NONE"
  <2>0. /\ threads' = [threads EXCEPT ![ClientOf[t]] = Append(threads[ClientOf[t]], t)]
        /\ state' = [state EXCEPT ![ClientOf[t]] = "ACQUIRING"]
        /\ pc' = [pc EXCEPT ![t] = "acquire"]
        /\ UNCHANGED << message, sstate, owner, retryingClient,
                        waitingClients, signalled, reply, target, next >>
    BY <1>7, <1>1, <1>2, <1>3, <1>4, <1>5
    DEF Acquire, PushBack, Goto, SetState, BlockUntilGot, serverVars, callVars
  <2>1. TypeOK'
    BY <1>0, <1>1, <1>2, <1>3, <1>4, <1>5, <1>7, <2>0 DEF TypeOK
  <2>2. QueueInv'
    BY <1>0, <1>1, <1>7, <2>0, QueueAppend
  <2>3. PhaseInv'
    BY <1>0, <1>1, <1>2, <1>3, <1>4, <1>5, <1>7, <2>0
    DEF PhaseInv, FlatTypes, Active
  <2>4. EntryInv'
    BY <1>0, <1>1, <1>2, <1>3, <1>4, <1>5, <1>7, <2>0 DEF EntryInv, FlatTypes
  <2>5. ServerInv'
    BY <1>0, <1>1, <1>2, <1>3, <1>4, <1>5, <1>7, <2>0 DEF ServerInv, FlatTypes
  <2>6. OwnerInv'
    BY <1>0, <1>1, <1>2, <1>3, <1>4, <1>5, <1>7, <2>0
    DEF OwnerInv, FlatTypes, EntryInv
  <2>7. HandlerInv'
    BY <1>0, <1>1, <1>2, <1>3, <1>4, <1>5, <1>7, <2>0 DEF HandlerInv, FlatTypes
  <2>8. WaitInv'
    BY <1>0, <1>1, <1>2, <1>3, <1>4, <1>5, <1>7, <2>0 DEF WaitInv, FlatTypes
  <2>9. RetryInv'
    BY <1>0, <1>1, <1>2, <1>3, <1>4, <1>5, <1>7, <2>0
    DEF RetryInv, FlatTypes, WaitInv
  <2>10. MoveInv'
    BY <1>0, <1>1, <1>2, <1>3, <1>4, <1>5, <1>7, <2>0 DEF MoveInv, FlatTypes
  <2> QED
    BY <2>1, <2>2, <2>3, <2>4, <2>5, <2>6, <2>7, <2>8, <2>9, <2>10 DEF IInv
<1>8. CASE threads[ClientOf[t]] = << >> /\ state[ClientOf[t]] \notin {"FREE", "NONE"}
  <2>0. /\ threads' = [threads EXCEPT ![ClientOf[t]] = Append(threads[ClientOf[t]], t)]
        /\ pc' = [pc EXCEPT ![t] = "awaitRelease"]
        /\ UNCHANGED << state, message, sstate, owner, retryingClient,
                        waitingClients, signalled, reply, target, next >>
    BY <1>8, <1>1, <1>2, <1>3, <1>4, <1>5
    DEF Acquire, PushBack, Goto, SetState, BlockUntilGot, serverVars, callVars
  <2>1. TypeOK'
    BY <1>0, <1>1, <1>2, <1>3, <1>4, <1>5, <1>8, <2>0 DEF TypeOK
  <2>2. QueueInv'
    BY <1>0, <1>1, <1>8, <2>0, QueueAppend
  <2>3. PhaseInv'
    BY <1>0, <1>1, <1>2, <1>3, <1>4, <1>5, <1>8, <2>0
    DEF PhaseInv, FlatTypes, Active
  <2>4. EntryInv'
    BY <1>0, <1>1, <1>2, <1>3, <1>4, <1>5, <1>8, <2>0 DEF EntryInv, FlatTypes
  <2>5. ServerInv'
    BY <1>0, <1>1, <1>2, <1>3, <1>4, <1>5, <1>8, <2>0 DEF ServerInv, FlatTypes
  <2>6. OwnerInv'
    BY <1>0, <1>1, <1>2, <1>3, <1>4, <1>5, <1>8, <2>0
    DEF OwnerInv, FlatTypes, EntryInv
  <2>7. HandlerInv'
    BY <1>0, <1>1, <1>2, <1>3, <1>4, <1>5, <1>8, <2>0 DEF HandlerInv, FlatTypes
  <2>8. WaitInv'
    BY <1>0, <1>1, <1>2, <1>3, <1>4, <1>5, <1>8, <2>0 DEF WaitInv, FlatTypes
  <2>9. RetryInv'
    BY <1>0, <1>1, <1>2, <1>3, <1>4, <1>5, <1>8, <2>0 DEF RetryInv, FlatTypes
  <2>10. MoveInv'
    BY <1>0, <1>1, <1>2, <1>3, <1>4, <1>5, <1>8, <2>0 DEF MoveInv, FlatTypes
  <2> QED
    BY <2>1, <2>2, <2>3, <2>4, <2>5, <2>6, <2>7, <2>8, <2>9, <2>10 DEF IInv
<1>9. CASE threads[ClientOf[t]] # << >>
  <2>0. /\ threads' = [threads EXCEPT ![ClientOf[t]] = Append(threads[ClientOf[t]], t)]
        /\ pc' = [pc EXCEPT ![t] = "queued"]
        /\ UNCHANGED << state, message, sstate, owner, retryingClient,
                        waitingClients, signalled, reply, target, next >>
    BY <1>9, <1>1, <1>2, <1>3, <1>4, <1>5
    DEF Acquire, PushBack, Goto, SetState, BlockUntilGot, serverVars, callVars
  <2>1. TypeOK'
    BY <1>0, <1>1, <1>2, <1>3, <1>4, <1>5, <1>9, <2>0 DEF TypeOK
  <2>2. QueueInv'
    BY <1>0, <1>1, <1>9, <2>0, QueueAppend
  <2>3. PhaseInv'
    BY <1>0, <1>1, <1>2, <1>3, <1>4, <1>5, <1>9, <2>0
    DEF PhaseInv, FlatTypes, Active
  <2>4. EntryInv'
    BY <1>0, <1>1, <1>2, <1>3, <1>4, <1>5, <1>9, <2>0 DEF EntryInv, FlatTypes
  <2>5. ServerInv'
    BY <1>0, <1>1, <1>2, <1>3, <1>4, <1>5, <1>9, <2>0 DEF ServerInv, FlatTypes
  <2>6. OwnerInv'
    BY <1>0, <1>1, <1>2, <1>3, <1>4, <1>5, <1>9, <2>0
    DEF OwnerInv, FlatTypes, EntryInv
  <2>7. HandlerInv'
    BY <1>0, <1>1, <1>2, <1>3, <1>4, <1>5, <1>9, <2>0 DEF HandlerInv, FlatTypes
  <2>8. WaitInv'
    BY <1>0, <1>1, <1>2, <1>3, <1>4, <1>5, <1>9, <2>0 DEF WaitInv, FlatTypes
  <2>9. RetryInv'
    BY <1>0, <1>1, <1>2, <1>3, <1>4, <1>5, <1>9, <2>0 DEF RetryInv, FlatTypes
  <2>10. MoveInv'
    BY <1>0, <1>1, <1>2, <1>3, <1>4, <1>5, <1>9, <2>0 DEF MoveInv, FlatTypes
  <2> QED
    BY <2>1, <2>2, <2>3, <2>4, <2>5, <2>6, <2>7, <2>8, <2>9, <2>10 DEF IInv
<1> QED
  BY <1>1, <1>6, <1>7, <1>8, <1>9

\* lock_client_cache::release, of a revoked lock and of one that stays cached.
LEMMA ReleaseStep ==
  ASSUME IInv, NEW t \in Threads, Release(t)
  PROVE  IInv'
<1>0. /\ FrontFacts /\ FlatTypes /\ TypeOK /\ QueueInv /\ PhaseInv /\ EntryInv
      /\ ServerInv /\ OwnerInv /\ HandlerInv /\ WaitInv /\ RetryInv /\ MoveInv
  BY Basics DEF IInv
<1>1. /\ pc[t] = "critical" /\ t \notin signalled /\ ClientOf[t] \in Clients
      /\ state[ClientOf[t]] = "LOCKED" /\ owner = ClientOf[t]
      /\ threads[ClientOf[t]] # << >>
  BY <1>0 DEF Release, FrontFacts, Active, PhaseInv, EntryInv, OwnerInv
<1>2. \A u \in Threads : Active(u) /\ ClientOf[u] = ClientOf[t] => u = t
  BY <1>0, <1>1 DEF FrontFacts, Active
<1>3. Tail(threads[ClientOf[t]]) # << >> =>
        /\ Head(Tail(threads[ClientOf[t]])) \in Threads
        /\ ClientOf[Head(Tail(threads[ClientOf[t]]))] = ClientOf[t]
        /\ pc[Head(Tail(threads[ClientOf[t]]))] = "queued"
        /\ Head(Tail(threads[ClientOf[t]])) \notin signalled
  BY <1>0, <1>1, SecondIsQueued DEF FrontFacts, Active
<1>4. message[ClientOf[t]] # "REVOKE" => message[ClientOf[t]] = "EMPTY"
  BY <1>0, <1>1 DEF EntryInv, FlatTypes
<1>5. CASE message[ClientOf[t]] = "REVOKE"
  <2>0. /\ state' = [state EXCEPT ![ClientOf[t]] = "RELEASING"]
        /\ pc' = [pc EXCEPT ![t] = "release"]
        /\ UNCHANGED << message, threads, sstate, owner, retryingClient,
                        waitingClients, signalled, reply, target, next >>
    BY <1>5, <1>1, <1>2, <1>3, <1>4
    DEF Release, Goto, SetState, SignalFront, serverVars, callVars
  <2>1. TypeOK'
    BY <1>0, <1>1, <1>2, <1>3, <1>4, <1>5, <2>0 DEF TypeOK
  <2>2. QueueInv'
    <3>1. \A u \in Threads :
            /\ Active(u) <=> pc'[u] \notin {"idle", "queued"} \/ u \in signalled'
            /\ pc'[u] = "idle" <=> pc[u] = "idle"
      BY <1>0, <1>1, <1>2, <1>3, <1>4, <1>5, <2>0 DEF Active, FlatTypes
    <3>2. \A u \in signalled' : pc'[u] \in Asleep
      BY <1>0, <1>1, <1>2, <1>3, <1>4, <1>5, <2>0 DEF QueueInv, FlatTypes
    <3> QED
      BY <1>0, <2>0, <3>1, <3>2, QueueUnchanged
  <2>3. PhaseInv'
    BY <1>0, <1>1, <1>2, <1>3, <1>4, <1>5, <2>0 DEF PhaseInv, FlatTypes, Active
  <2>4. EntryInv'
    BY <1>0, <1>1, <1>2, <1>3, <1>4, <1>5, <2>0 DEF EntryInv, FlatTypes
  <2>5. ServerInv'
    BY <1>0, <1>1, <1>2, <1>3, <1>4, <1>5, <2>0 DEF ServerInv, FlatTypes
  <2>6. OwnerInv'
    BY <1>0, <1>1, <1>2, <1>3, <1>4, <1>5, <2>0
    DEF OwnerInv, FlatTypes, EntryInv
  <2>7. HandlerInv'
    BY <1>0, <1>1, <1>2, <1>3, <1>4, <1>5, <2>0 DEF HandlerInv, FlatTypes
  <2>8. WaitInv'
    BY <1>0, <1>1, <1>2, <1>3, <1>4, <1>5, <2>0 DEF WaitInv, FlatTypes
  <2>9. RetryInv'
    BY <1>0, <1>1, <1>2, <1>3, <1>4, <1>5, <2>0 DEF RetryInv, FlatTypes
  <2>10. MoveInv'
    BY <1>0, <1>1, <1>2, <1>3, <1>4, <1>5, <2>0
    DEF MoveInv, FlatTypes, EntryInv, OwnerInv, PhaseInv, HandlerInv
  <2> QED
    BY <2>1, <2>2, <2>3, <2>4, <2>5, <2>6, <2>7, <2>8, <2>9, <2>10 DEF IInv
<1>6. CASE message[ClientOf[t]] # "REVOKE" /\ Tail(threads[ClientOf[t]]) = << >>
  <2>0. /\ state' = [state EXCEPT ![ClientOf[t]] = "FREE"]
        /\ threads' = [threads EXCEPT ![ClientOf[t]] = Tail(threads[ClientOf[t]])]
        /\ pc' = [pc EXCEPT ![t] = "idle"]
        /\ UNCHANGED << message, sstate, owner, retryingClient,
                        waitingClients, signalled, reply, target, next >>
    BY <1>6, <1>1, <1>2, <1>3, <1>4
    DEF Release, Goto, SetState, SignalFront, serverVars, callVars
  <2>1. TypeOK'
    BY <1>0, <1>1, <1>3, <1>6, <2>0, TailElements DEF TypeOK
  <2>2. QueueInv'
    BY <1>0, <1>1, <1>6, <2>0, QueuePop DEF Active
  <2>3. PhaseInv'
    BY <1>0, <1>1, <1>2, <1>3, <1>4, <1>6, <2>0 DEF PhaseInv, FlatTypes, Active
  <2>4. EntryInv'
    BY <1>0, <1>1, <1>2, <1>3, <1>4, <1>6, <2>0 DEF EntryInv, FlatTypes, TypeOK
  <2>5. ServerInv'
    BY <1>0, <1>1, <1>2, <1>3, <1>4, <1>6, <2>0 DEF ServerInv, FlatTypes
  <2>6. OwnerInv'
    BY <1>0, <1>1, <1>2, <1>3, <1>4, <1>6, <2>0 DEF OwnerInv, FlatTypes
  <2>7. HandlerInv'
    BY <1>0, <1>1, <1>2, <1>3, <1>4, <1>6, <2>0 DEF HandlerInv, FlatTypes
  <2>8. WaitInv'
    BY <1>0, <1>1, <1>2, <1>3, <1>4, <1>6, <2>0 DEF WaitInv, FlatTypes
  <2>9. RetryInv'
    BY <1>0, <1>1, <1>2, <1>3, <1>4, <1>6, <2>0 DEF RetryInv, FlatTypes
  <2>10. MoveInv'
    BY <1>0, <1>1, <1>2, <1>3, <1>4, <1>6, <2>0 DEF MoveInv, FlatTypes
  <2> QED
    BY <2>1, <2>2, <2>3, <2>4, <2>5, <2>6, <2>7, <2>8, <2>9, <2>10 DEF IInv
<1>7. CASE message[ClientOf[t]] # "REVOKE" /\ Tail(threads[ClientOf[t]]) # << >>
  <2>0. /\ state' = [state EXCEPT ![ClientOf[t]] = "LOCKED"]
        /\ threads' = [threads EXCEPT ![ClientOf[t]] = Tail(threads[ClientOf[t]])]
        /\ signalled' = signalled \cup {Head(Tail(threads[ClientOf[t]]))}
        /\ pc' = [pc EXCEPT ![t] = "idle"]
        /\ UNCHANGED << message, sstate, owner, retryingClient,
                        waitingClients, reply, target, next >>
    BY <1>7, <1>1, <1>2, <1>3, <1>4
    DEF Release, Goto, SetState, SignalFront, serverVars, callVars
  <2>1. TypeOK'
    BY <1>0, <1>1, <1>3, <1>7, <2>0, TailElements DEF TypeOK
  <2>2. QueueInv'
    BY <1>0, <1>1, <1>7, <2>0, QueuePop DEF Active
  <2>3. PhaseInv'
    BY <1>0, <1>1, <1>2, <1>3, <1>4, <1>7, <2>0 DEF PhaseInv, FlatTypes, Active
  <2>4. EntryInv'
    BY <1>0, <1>1, <1>2, <1>3, <1>4, <1>7, <2>0 DEF EntryInv, FlatTypes
  <2>5. ServerInv'
    BY <1>0, <1>1, <1>2, <1>3, <1>4, <1>7, <2>0 DEF ServerInv, FlatTypes
  <2>6. OwnerInv'
    BY <1>0, <1>1, <1>2, <1>3, <1>4, <1>7, <2>0 DEF OwnerInv, FlatTypes
  <2>7. HandlerInv'
    BY <1>0, <1>1, <1>2, <1>3, <1>4, <1>7, <2>0 DEF HandlerInv, FlatTypes
  <2>8. WaitInv'
    BY <1>0, <1>1, <1>2, <1>3, <1>4, <1>7, <2>0 DEF WaitInv, FlatTypes
  <2>9. RetryInv'
    BY <1>0, <1>1, <1>2, <1>3, <1>4, <1>7, <2>0 DEF RetryInv, FlatTypes
  <2>10. MoveInv'
    BY <1>0, <1>1, <1>2, <1>3, <1>4, <1>7, <2>0 DEF MoveInv, FlatTypes
  <2> QED
    BY <2>1, <2>2, <2>3, <2>4, <2>5, <2>6, <2>7, <2>8, <2>9, <2>10 DEF IInv
<1> QED
  BY <1>1, <1>5, <1>6, <1>7

\* lock_client_cache::release after its RPC.
LEMMA ReleaseReturnsStep ==
  ASSUME IInv, NEW t \in Threads, ReleaseReturns(t)
  PROVE  IInv'
<1>0. /\ FrontFacts /\ FlatTypes /\ TypeOK /\ QueueInv /\ PhaseInv /\ EntryInv
      /\ ServerInv /\ OwnerInv /\ HandlerInv /\ WaitInv /\ RetryInv /\ MoveInv
  BY Basics DEF IInv
<1>1. /\ pc[t] = "released" /\ t \notin signalled /\ ClientOf[t] \in Clients
      /\ state[ClientOf[t]] = "RELEASING" /\ message[ClientOf[t]] = "REVOKE"
      /\ owner # ClientOf[t] /\ threads[ClientOf[t]] # << >>
  BY <1>0 DEF ReleaseReturns, FrontFacts, Active, PhaseInv, EntryInv, OwnerInv
<1>2. \A u \in Threads : Active(u) /\ ClientOf[u] = ClientOf[t] => u = t
  BY <1>0, <1>1 DEF FrontFacts, Active
<1>3. Tail(threads[ClientOf[t]]) # << >> =>
        /\ Head(Tail(threads[ClientOf[t]])) \in Threads
        /\ ClientOf[Head(Tail(threads[ClientOf[t]]))] = ClientOf[t]
        /\ pc[Head(Tail(threads[ClientOf[t]]))] = "queued"
        /\ Head(Tail(threads[ClientOf[t]])) \notin signalled
  BY <1>0, <1>1, SecondIsQueued DEF FrontFacts, Active
<1>4. CASE Tail(threads[ClientOf[t]]) = << >>
  <2>0. /\ message' = [message EXCEPT ![ClientOf[t]] = "EMPTY"]
        /\ state' = [state EXCEPT ![ClientOf[t]] = "NONE"]
        /\ threads' = [threads EXCEPT ![ClientOf[t]] = Tail(threads[ClientOf[t]])]
        /\ pc' = [pc EXCEPT ![t] = "idle"]
        /\ reply' = [reply EXCEPT ![t] = "RETRY"]
        /\ target' = [target EXCEPT ![t] = NoClient]
        /\ next' = [next EXCEPT ![t] = NoClient]
        /\ UNCHANGED << sstate, owner, retryingClient, waitingClients,
                        signalled >>
    BY <1>4, <1>1, <1>2, <1>3
    DEF ReleaseReturns, Goto, SetState, SignalFront, EndCall, serverVars
  <2>1. TypeOK'
    BY <1>0, <1>1, <1>3, <1>4, <2>0, TailElements DEF TypeOK
  <2>2. QueueInv'
    BY <1>0, <1>1, <1>4, <2>0, QueuePop DEF Active
  <2>3. PhaseInv'
    BY <1>0, <1>1, <1>2, <1>3, <1>4, <2>0 DEF PhaseInv, FlatTypes, Active
  <2>4. EntryInv'
    BY <1>0, <1>1, <1>2, <1>3, <1>4, <2>0 DEF EntryInv, FlatTypes
  <2>5. ServerInv'
    BY <1>0, <1>1, <1>2, <1>3, <1>4, <2>0 DEF ServerInv, FlatTypes
  <2>6. OwnerInv'
    BY <1>0, <1>1, <1>2, <1>3, <1>4, <2>0 DEF OwnerInv, FlatTypes
  <2>7. HandlerInv'
    BY <1>0, <1>1, <1>2, <1>3, <1>4, <2>0 DEF HandlerInv, FlatTypes, PhaseInv
  <2>8. WaitInv'
    BY <1>0, <1>1, <1>2, <1>3, <1>4, <2>0 DEF WaitInv, FlatTypes
  <2>9. RetryInv'
    BY <1>0, <1>1, <1>2, <1>3, <1>4, <2>0 DEF RetryInv, FlatTypes
  <2>10. MoveInv'
    BY <1>0, <1>1, <1>2, <1>3, <1>4, <2>0 DEF MoveInv, FlatTypes
  <2> QED
    BY <2>1, <2>2, <2>3, <2>4, <2>5, <2>6, <2>7, <2>8, <2>9, <2>10 DEF IInv
<1>5. CASE Tail(threads[ClientOf[t]]) # << >>
  <2>0. /\ message' = [message EXCEPT ![ClientOf[t]] = "EMPTY"]
        /\ state' = [state EXCEPT ![ClientOf[t]] = "NONE"]
        /\ threads' = [threads EXCEPT ![ClientOf[t]] = Tail(threads[ClientOf[t]])]
        /\ signalled' = signalled \cup {Head(Tail(threads[ClientOf[t]]))}
        /\ pc' = [pc EXCEPT ![t] = "idle"]
        /\ reply' = [reply EXCEPT ![t] = "RETRY"]
        /\ target' = [target EXCEPT ![t] = NoClient]
        /\ next' = [next EXCEPT ![t] = NoClient]
        /\ UNCHANGED << sstate, owner, retryingClient, waitingClients >>
    BY <1>5, <1>1, <1>2, <1>3
    DEF ReleaseReturns, Goto, SetState, SignalFront, EndCall, serverVars
  <2>1. TypeOK'
    BY <1>0, <1>1, <1>3, <1>5, <2>0, TailElements, SMTT(30) DEF TypeOK
  <2>2. QueueInv'
    BY <1>0, <1>1, <1>5, <2>0, QueuePop DEF Active
  <2>3. PhaseInv'
    <3>1. PICK h \in Threads :
            /\ h = Head(Tail(threads[ClientOf[t]])) /\ ClientOf[h] = ClientOf[t]
            /\ pc[h] = "queued" /\ signalled' = signalled \cup {h}
      BY <1>3, <1>5, <2>0
    <3>2. \A u \in Threads : ClientOf[u] = ClientOf[t] =>
            pc'[u] \in {"idle", "queued"} /\ state'[ClientOf[u]] = "NONE"
      BY <1>0, <1>1, <1>2, <2>0 DEF FlatTypes, Active
    <3>3. \A u \in Threads : ClientOf[u] # ClientOf[t] =>
            /\ pc'[u] = pc[u]
            /\ u \in signalled' <=> u \in signalled
            /\ state'[ClientOf[u]] = state[ClientOf[u]]
            /\ message'[ClientOf[u]] = message[ClientOf[u]]
      BY <1>0, <1>1, <2>0, <3>1 DEF FlatTypes
    <3> QED
      BY <1>0, <3>2, <3>3 DEF PhaseInv
  <2>4. EntryInv'
    BY <1>0, <1>1, <1>2, <1>3, <1>5, <2>0 DEF EntryInv, FlatTypes
  <2>5. ServerInv'
    BY <1>0, <1>1, <1>2, <1>3, <1>5, <2>0 DEF ServerInv, FlatTypes
  <2>6. OwnerInv'
    BY <1>0, <1>1, <1>2, <1>3, <1>5, <2>0 DEF OwnerInv, FlatTypes
  <2>7. HandlerInv'
    BY <1>0, <1>1, <1>2, <1>3, <1>5, <2>0 DEF HandlerInv, FlatTypes, PhaseInv
  <2>8. WaitInv'
    BY <1>0, <1>1, <1>2, <1>3, <1>5, <2>0 DEF WaitInv, FlatTypes
  <2>9. RetryInv'
    BY <1>0, <1>1, <1>2, <1>3, <1>5, <2>0 DEF RetryInv, FlatTypes
  <2>10. MoveInv'
    BY <1>0, <1>1, <1>2, <1>3, <1>5, <2>0 DEF MoveInv, FlatTypes
  <2> QED
    BY <2>1, <2>2, <2>3, <2>4, <2>5, <2>6, <2>7, <2>8, <2>9, <2>10 DEF IInv
<1> QED
  BY <1>1, <1>4, <1>5

-----------------------------------------------------------------------------
(***************************************************************************)
(* The theorems                                                            *)
(***************************************************************************)

\* IInv is an inductive invariant of the protocol.
THEOREM Invariance == Spec => []IInv
<1>1. Init => IInv
  <2> SUFFICES ASSUME Init PROVE IInv
    OBVIOUS
  <2>1. \A c \in Clients : threads[c] = << >> /\ Len(threads[c]) = 0
    BY DEF Init
  <2>2. TypeOK
    BY EmptySeq DEF Init, TypeOK
  <2>3. QueueInv
    BY <2>1 DEF Init, QueueInv
  <2>4. PhaseInv /\ EntryInv /\ ServerInv
    BY <2>1 DEF Init, PhaseInv, EntryInv, ServerInv
  <2>5. OwnerInv /\ HandlerInv /\ WaitInv /\ RetryInv /\ MoveInv
    BY DEF Init, OwnerInv, HandlerInv, WaitInv, RetryInv, MoveInv
  <2> QED
    BY <2>2, <2>3, <2>4, <2>5 DEF IInv
<1>2. IInv /\ [Next]_vars => IInv'
  <2> SUFFICES ASSUME IInv, [Next]_vars PROVE IInv'
    OBVIOUS
  <2>1. CASE UNCHANGED vars
    BY <2>1 DEF vars, clientVars, serverVars, callVars, IInv, TypeOK, QueueInv,
                Active, PhaseInv, EntryInv, ServerInv, OwnerInv, HandlerInv,
                WaitInv, RetryInv, MoveInv
  <2>2. ASSUME NEW t \in Threads, Acquire(t) \/ Step(t)
        PROVE  IInv'
    BY <2>2, AcquireStep, WakeAfterReleaseStep, WakeQueuedStep,
       WakeAfterRetryStep, AcquireReturnsStep, ReleaseStep, ReleaseReturnsStep,
       RevokeHandlerStep, RevokeReleaseReturnsStep, RetryHandlerStep,
       ServerAcquireStep, RevokeOwnerStep, ServerReleaseStep DEF Step
  <2> QED
    BY <2>1, <2>2 DEF Next
<1> QED
  BY <1>1, <1>2, PTL DEF Spec

\* Type correctness: every variable stays in its range, lists and sets hold
\* only known threads and clients.
THEOREM TypeCorrect == Spec => []TypeOK
<1>1. IInv => TypeOK
  BY DEF IInv
<1> QED
  BY <1>1, Invariance, PTL

\* The lock is never granted to two threads, of one client or of two.
THEOREM Mutex == Spec => []MutualExclusion
<1>1. ASSUME IInv PROVE MutualExclusion
  <2>1. FrontFacts /\ FlatTypes
    BY <1>1, Basics DEF IInv
  <2> SUFFICES ASSUME NEW t \in Threads, NEW u \in Threads,
                      pc[t] = "critical", pc[u] = "critical"
               PROVE  t = u
    BY DEF MutualExclusion
  <2>2. /\ state[ClientOf[t]] = "LOCKED" /\ ClientOf[t] \in Clients
        /\ state[ClientOf[u]] = "LOCKED" /\ ClientOf[u] \in Clients
    BY <1>1 DEF IInv, PhaseInv
  <2>3. owner = ClientOf[t] /\ owner = ClientOf[u]
    BY <1>1, <2>2 DEF IInv, OwnerInv
  <2>4. Active(t) /\ Active(u)
    BY DEF Active
  <2> QED
    BY <2>1, <2>3, <2>4, ZenonT(60) DEF FrontFacts
<1> QED
  BY <1>1, Invariance, PTL

\* The client that asks the server is not the one that owns the lock.
LEMMA AskerIsNotOwner ==
  ASSUME IInv, NEW t \in Threads, pc[t] = "acquire"
  PROVE  owner # ClientOf[t]
<1>1. FrontFacts /\ FlatTypes /\ Active(t)
  BY Basics DEF IInv, Active
<1>2. /\ state[ClientOf[t]] = "ACQUIRING"
      /\ Head(threads[ClientOf[t]]) = t
      /\ reply[t] # "OK"
      /\ ClientOf[t] # NoClient
  BY <1>1 DEF IInv, PhaseInv, OwnerInv, FrontFacts
<1> QED
  BY <1>2 DEF IInv, OwnerInv

\* No assertion of lock_server_cache can fail, whatever the order in which
\* calls reach the server.
THEOREM ServerAssertions == Spec => []ServerAssertionsHold
<1>1. ASSUME IInv PROVE ServerAssertionsHold
  <2>1. ASSUME NEW t \in Threads, pc[t] = "acquire"
        PROVE  AcquireAsserts(ClientOf[t])
    BY <1>1, <2>1, AskerIsNotOwner DEF IInv, WaitInv, ServerInv, AcquireAsserts
  <2>2. ASSUME NEW t \in Threads, pc[t] \in {"release", "revokeRelease"}
        PROVE  ReleaseAsserts(Releaser(t)) /\ waitingClients # {}
    BY <1>1, <2>2 DEF IInv, MoveInv, ServerInv, OwnerInv, ReleaseAsserts, Releaser
  <2> QED
    BY <2>1, <2>2 DEF ServerAssertionsHold
<1> QED
  BY <1>1, Invariance, PTL

\* No thread of a client runs into assert(0), and no handler takes the front
\* of an empty list.
THEOREM ClientAssertions == Spec => []ClientAssertionsHold
<1>1. ASSUME IInv PROVE ClientAssertionsHold
  <2>1. FrontFacts /\ FlatTypes
    BY <1>1, Basics DEF IInv
  <2>2. \A t \in signalled : pc[t] = "queued" =>
          state[ClientOf[t]] \in {"FREE", "LOCKED", "NONE"}
    BY <1>1, <2>1 DEF IInv, PhaseInv, FlatTypes
  <2>3. \A t \in Threads : pc[t] \in {"awaitRetry", "acquireReply"} =>
          state[ClientOf[t]] = "ACQUIRING"
    BY <1>1 DEF IInv, PhaseInv
  <2>4. \A t \in Threads : pc[t] \in {"critical"} \cup InReleaseRPC =>
          threads[ClientOf[t]] # << >> /\ Head(threads[ClientOf[t]]) = t
    BY <2>1 DEF FrontFacts, Active
  <2>5. ASSUME NEW t \in Threads, pc[t] \in {"retry", "revokeRetry"}
        PROVE  threads[next[t]] # << >>
    <3>1. next[t] \in Clients /\ state[next[t]] = "ACQUIRING"
      BY <1>1, <2>1, <2>5 DEF IInv, RetryInv, WaitInv, FlatTypes
    <3> QED
      BY <1>1, <3>1 DEF IInv, EntryInv
  <2> QED
    BY <2>2, <2>3, <2>4, <2>5 DEF ClientAssertionsHold
<1> QED
  BY <1>1, Invariance, PTL

\* A revoke finds the owner of the lock, before it gives the lock back.
THEOREM RevokeIsNotLost == Spec => []RevokeReachesOwner
<1>1. ASSUME IInv PROVE RevokeReachesOwner
  <2>1. FrontFacts /\ FlatTypes
    BY <1>1, Basics DEF IInv
  <2> SUFFICES ASSUME NEW t \in Threads, pc[t] = "revoke"
               PROVE  /\ target[t] = owner
                      /\ \/ state[owner] \in {"FREE", "LOCKED"}
                         \/ \E u \in Threads : ClientOf[u] = owner /\ reply[u] = "OK"
    BY DEF RevokeReachesOwner
  <2>2. target[t] = owner /\ owner \in Clients /\ state[owner] # "RELEASING"
    BY <1>1, <2>1 DEF IInv, MoveInv, ServerInv, FlatTypes
  <2>3. CASE state[owner] \in {"FREE", "LOCKED"}
    BY <2>2, <2>3
  <2>4. CASE state[owner] = "ACQUIRING" /\ reply[Head(threads[owner])] = "OK"
    <3>1. threads[owner] # << >>
      BY <1>1, <2>2, <2>4 DEF IInv, EntryInv
    <3>2. Head(threads[owner]) \in Threads /\ ClientOf[Head(threads[owner])] = owner
      BY <2>1, <2>2, <3>1 DEF FrontFacts
    <3> QED
      BY <2>2, <2>4, <3>2
  <2> QED
    BY <1>1, <2>2, <2>3, <2>4 DEF IInv, OwnerInv
<1> QED
  BY <1>1, Invariance, PTL

\* A retry finds its client still waiting for it, with an empty message slot.
THEOREM RetryIsNotLost == Spec => []RetryReachesWaiter
<1>1. ASSUME IInv PROVE RetryReachesWaiter
  <2>1. FrontFacts /\ FlatTypes
    BY <1>1, Basics DEF IInv
  <2>2. ASSUME NEW t \in Threads, pc[t] \in {"retry", "revokeRetry"}
        PROVE  /\ next[t] = retryingClient
               /\ message[next[t]] = "EMPTY"
               /\ state[next[t]] = "ACQUIRING"
               /\ pc[Head(threads[next[t]])] # "acquire"
               /\ reply[Head(threads[next[t]])] = "RETRY"
    <3>1. /\ next[t] = retryingClient /\ retryingClient \in Clients
          /\ message[next[t]] = "EMPTY" /\ state[next[t]] = "ACQUIRING"
      BY <1>1, <2>1, <2>2 DEF IInv, RetryInv, WaitInv, FlatTypes
    <3>2. owner = NoClient
      BY <1>1, <2>1, <3>1 DEF IInv, ServerInv, FlatTypes
    <3>3. PICK u \in Threads : u = Head(threads[next[t]]) /\ ClientOf[u] = next[t]
      BY <1>1, <2>1, <3>1 DEF IInv, EntryInv, FrontFacts
    <3>4. pc[u] # "acquire"
      BY <1>1, <2>2, <3>1, <3>3 DEF IInv, RetryInv
    <3>5. reply[u] = "RETRY"
      BY <1>1, <2>1, <3>2 DEF IInv, OwnerInv, FlatTypes
    <3> QED
      BY <3>1, <3>3, <3>4, <3>5
  <2> QED
    BY <2>2 DEF RetryReachesWaiter
<1> QED
  BY <1>1, Invariance, PTL

\* A lock that is being revoked is moved by a call under way, or its owner has
\* been told.
Served ==
  sstate = "REVOKING" =>
    \/ \E u \in Threads : pc[u] \in Moving
    \/ message[owner] = "REVOKE"

\* Under the invariant this is what WaitersAreServed says.
LEMMA ServedIsEnough ==
  ASSUME IInv
  PROVE  WaitersAreServed <=> Served
<1>1. FlatTypes
  BY Basics DEF IInv
<1> QED
  BY <1>1 DEF IInv, ServerInv, FlatTypes, WaitersAreServed, Served

\* A step of t that leaves the server's entry alone keeps Served when it keeps
\* a revoke at the owner, and when t, if it was moving the lock, still is or
\* has told the owner.
LEMMA ServedByOthers ==
  ASSUME IInv, Served, NEW t \in Threads, NEW l \in Label,
         pc' = [pc EXCEPT ![t] = l], sstate' = sstate, owner' = owner,
         sstate = "REVOKING" /\ message[owner] = "REVOKE" => message'[owner] = "REVOKE",
         pc[t] \in Moving => l \in Moving \/ message'[owner] = "REVOKE"
  PROVE  Served'
<1>1. FlatTypes
  BY Basics DEF IInv
<1> QED
  BY <1>1 DEF Served, FlatTypes

\* Every step of a thread keeps Served.
LEMMA ServedStep ==
  ASSUME IInv, Served, NEW t \in Threads, Acquire(t) \/ Step(t)
  PROVE  Served'
<1> USE DEF Goto, SetState, EndCall, SignalFront, clientVars, serverVars, callVars
<1>1. FrontFacts /\ FlatTypes
  BY Basics DEF IInv
<1>a. sstate = "REVOKING" => owner \in Clients /\ retryingClient = NoClient
  BY <1>1 DEF IInv, ServerInv, FlatTypes
<1>b. ClientOf[t] \in Clients
  OBVIOUS
<1>2. CASE Acquire(t)
  BY <1>2, ServedByOthers DEF Acquire, BlockUntilGot
<1>3. CASE WakeAfterRelease(t)
  BY <1>3, ServedByOthers DEF WakeAfterRelease, BlockUntilGot
<1>4. CASE WakeQueued(t)
  BY <1>4, ServedByOthers DEF WakeQueued, BlockUntilGot
<1>5. CASE WakeAfterRetry(t)
  <2>1. message[ClientOf[t]] = "RETRY"
    BY <1>5 DEF WakeAfterRetry, IInv, WaitInv
  <2>2. message'[owner] = message[owner] \/ owner = ClientOf[t]
    BY <1>1, <1>5 DEF WakeAfterRetry, FlatTypes
  <2> QED
    BY <1>5, <2>1, <2>2, ServedByOthers DEF WakeAfterRetry
<1>6. CASE AcquireReturns(t)
  <2>1. reply[t] # "OK" => owner # ClientOf[t]
    BY <1>1, <1>6 DEF AcquireReturns, IInv, WaitInv, ServerInv, FlatTypes
  <2>2. owner \in Clients => message'[owner] = message[owner]
    BY <1>1, <1>6, <2>1 DEF AcquireReturns, FlatTypes
  <2> QED
    BY <1>6, <1>a, <2>2, ServedByOthers DEF AcquireReturns
<1>7. CASE Release(t)
  BY <1>7, ServedByOthers DEF Release
<1>8. CASE ReleaseReturns(t)
  <2>1. owner # ClientOf[t]
    BY <1>8 DEF ReleaseReturns, IInv, OwnerInv
  <2>2. owner \in Clients => message'[owner] = message[owner]
    BY <1>1, <1>8, <2>1 DEF ReleaseReturns, FlatTypes
  <2> QED
    BY <1>8, <1>a, <2>2, ServedByOthers DEF ReleaseReturns
<1>9. CASE RevokeHandler(t)
  <2>1. target[t] = owner /\ sstate = "REVOKING"
    BY <1>9 DEF RevokeHandler, IInv, MoveInv
  <2> QED
    BY <1>1, <1>9, <1>a, <2>1, ServedByOthers DEF RevokeHandler, FlatTypes
<1>10. CASE RevokeReleaseReturns(t)
  BY <1>10, ServedByOthers DEF RevokeReleaseReturns
<1>11. CASE RetryHandler(t)
  <2>1. next[t] = retryingClient
    BY <1>11 DEF RetryHandler, IInv, RetryInv
  <2>2. sstate = "REVOKING" => message'[owner] = message[owner]
    BY <1>1, <1>11, <1>a, <2>1 DEF RetryHandler, FlatTypes
  <2> QED
    BY <1>11, <2>2, ServedByOthers DEF RetryHandler
<1>12. CASE ServerAcquire(t)
  <2>1. CASE sstate = "LOCKED"
    <3>1. pc'[t] = "revokeOwner"
      BY <1>1, <1>12, <2>1 DEF ServerAcquire, FlatTypes
    <3> QED
      BY <3>1 DEF Served
  <2>2. CASE sstate = "NONE"
    BY <1>12, <2>2 DEF ServerAcquire, Served
  <2>3. CASE sstate = "REVOKING"
    BY <1>12, <2>3, ServedByOthers DEF ServerAcquire
  <2>4. CASE sstate = "RETRYING" /\ ClientOf[t] = retryingClient
    <3>1. sstate' = "LOCKED" \/ pc'[t] = "revoke"
      BY <1>1, <1>12, <2>4 DEF ServerAcquire, FlatTypes
    <3> QED
      BY <3>1 DEF Served
  <2>5. CASE sstate = "RETRYING" /\ ClientOf[t] # retryingClient
    BY <1>12, <2>5 DEF ServerAcquire, Served
  <2> QED
    BY <1>1, <2>1, <2>2, <2>3, <2>4, <2>5 DEF FlatTypes
<1>13. CASE RevokeOwner(t)
  BY <1>13, ServedByOthers DEF RevokeOwner
<1>14. CASE ServerRelease(t)
  BY <1>14 DEF ServerRelease, Served
<1> QED
  BY <1>2, <1>3, <1>4, <1>5, <1>6, <1>7, <1>8, <1>9, <1>10, <1>11, <1>12, <1>13,
     <1>14 DEF Step

\* Clients that wait at the server are never forgotten: a call that moves the
\* lock is under way, the owner has been told, or a client is asked to retry.
THEOREM WaitersNeverForgotten == Spec => []WaitersAreServed
<1>1. Init => Served
  BY DEF Init, Served
<1>2. IInv /\ Served /\ [Next]_vars => Served'
  <2> SUFFICES ASSUME IInv, Served, [Next]_vars PROVE Served'
    OBVIOUS
  <2>1. CASE UNCHANGED vars
    BY <2>1 DEF vars, clientVars, serverVars, Served
  <2> QED
    BY <2>1, ServedStep DEF Next
<1>3. IInv /\ Served => WaitersAreServed
  BY ServedIsEnough
<1> QED
  BY <1>1, <1>2, <1>3, Invariance, PTL DEF Spec

\* A message slot is written only when it is empty and cleared only by the
\* thread that acts on it: a retry by asking again, a revoke by having given
\* the lock back.
THEOREM MessagesAreKept == Spec => NoMessageLost
<1> USE DEF Goto, SetState, EndCall, SignalFront, clientVars, serverVars, callVars
<1> DEFINE Kept(c) == message'[c] # message[c] =>
             \/ message[c] = "EMPTY"
             \/ /\ message[c] = "RETRY"
                /\ message'[c] = "EMPTY"
                /\ pc'[Head(threads[c])] = "acquire"
             \/ /\ message[c] = "REVOKE"
                /\ message'[c] = "EMPTY"
                /\ owner # c
<1>1. ASSUME IInv, NEW t \in Threads, Acquire(t) \/ Step(t), NEW c \in Clients
      PROVE  Kept(c)
  <2>1. FrontFacts /\ FlatTypes
    BY <1>1, Basics DEF IInv
  <2>2. CASE message' = message
    BY <2>2
  <2>3. CASE WakeAfterRetry(t)
    <3>1. message[ClientOf[t]] = "RETRY" /\ Active(t)
      BY <1>1, <2>3 DEF WakeAfterRetry, IInv, WaitInv, Active
    <3>2. Head(threads[ClientOf[t]]) = t /\ pc'[t] = "acquire"
      BY <2>1, <2>3, <3>1 DEF FrontFacts, FlatTypes, WakeAfterRetry
    <3> QED
      BY <2>1, <2>3, <3>1, <3>2 DEF WakeAfterRetry, FlatTypes
  <2>4. CASE AcquireReturns(t) /\ message' # message
    <3>1. reply[t] = "RETRY" /\ pc[t] = "acquireReply" /\ message[ClientOf[t]] # "EMPTY"
      BY <2>1, <2>4 DEF AcquireReturns, FlatTypes
    <3>2. owner # ClientOf[t] /\ state[ClientOf[t]] = "ACQUIRING"
      BY <1>1, <2>1, <3>1 DEF IInv, WaitInv, ServerInv, PhaseInv, FlatTypes
    <3>3. message[ClientOf[t]] = "RETRY"
      <4>1. ClientOf[t] \in Clients /\ message[ClientOf[t]] \in Message
        BY <2>1 DEF FlatTypes
      <4>2. message[ClientOf[t]] # "REVOKE"
        BY <1>1, <3>2, <4>1 DEF IInv, EntryInv
      <4> QED
        BY <3>1, <4>1, <4>2
    <3>4. Head(threads[ClientOf[t]]) = t
      BY <2>1, <3>1 DEF FrontFacts, Active
    <3>5. pc'[t] = "acquire"
      BY <2>1, <2>4, <3>1 DEF AcquireReturns, FlatTypes
    <3> QED
      BY <2>1, <2>4, <3>1, <3>3, <3>4, <3>5 DEF AcquireReturns, FlatTypes
  <2>5. CASE ReleaseReturns(t)
    <3>1. message[ClientOf[t]] = "REVOKE" /\ owner # ClientOf[t]
      BY <1>1, <2>5 DEF ReleaseReturns, IInv, PhaseInv, OwnerInv
    <3> QED
      BY <2>1, <2>5, <3>1 DEF ReleaseReturns, FlatTypes
  <2>6. CASE RevokeHandler(t)
    <3>1. target[t] = owner /\ sstate = "REVOKING" /\ message[owner] # "REVOKE"
      BY <1>1, <2>6 DEF RevokeHandler, IInv, MoveInv
    <3>2. owner \in Clients /\ retryingClient # owner
      BY <1>1, <2>1, <3>1 DEF IInv, ServerInv, FlatTypes
    <3>3. message[owner] = "EMPTY"
      BY <1>1, <2>1, <3>1, <3>2 DEF IInv, EntryInv, FlatTypes
    <3> QED
      BY <2>1, <2>6, <3>1, <3>2, <3>3 DEF RevokeHandler, FlatTypes
  <2>7. CASE RetryHandler(t)
    <3>1. message[next[t]] = "EMPTY"
      BY <1>1, <2>7 DEF RetryHandler, IInv, RetryInv
    <3> QED
      BY <2>1, <2>7, <3>1 DEF RetryHandler, FlatTypes
  <2> QED
    BY <1>1, <2>2, <2>3, <2>4, <2>5, <2>6, <2>7
    DEF Step, Acquire, WakeAfterRelease, WakeQueued, Release, RevokeReleaseReturns,
        ServerAcquire, RevokeOwner, ServerRelease, BlockUntilGot
<1>2. IInv /\ [Next]_vars => [\A c \in Clients : Kept(c)]_vars
  BY <1>1 DEF Next
<1>3. Spec => [][\A c \in Clients : Kept(c)]_vars
  <2> HIDE DEF Kept
  <2> QED
    BY <1>2, Invariance, PTL DEF Spec
<1> QED
  BY <1>3 DEF NoMessageLost

-----------------------------------------------------------------------------
(***************************************************************************)
(* The protocol implements LockService                                     *)
(***************************************************************************)

\* A step of t that changes no list, and neither starts nor ends t's hold of
\* the lock or its release RPC, does not show in the service.
LEMMA ServiceStutters ==
  ASSUME IInv, NEW t \in Threads, NEW l \in Label, threads' = threads,
         pc' = [pc EXCEPT ![t] = l], l # "critical", pc[t] # "critical",
         l \in InReleaseRPC <=> pc[t] \in InReleaseRPC
  PROVE  UNCHANGED << serviceQueue, holders >>
<1>1. FrontFacts /\ FlatTypes
  BY Basics DEF IInv
<1>2. \A u \in Threads : /\ pc'[u] = "critical" <=> pc[u] = "critical"
                         /\ pc'[u] \in InReleaseRPC <=> pc[u] \in InReleaseRPC
  BY <1>1 DEF FlatTypes
<1>3. \A c \in Clients : threads[c] # << >> => Head(threads[c]) \in Threads
  BY <1>1 DEF FrontFacts
<1>4. serviceQueue' = serviceQueue
  <2>1. \A c \in Clients :
          /\ threads'[c] = threads[c]
          /\ (threads'[c] # << >> /\ pc'[Head(threads'[c])] \in InReleaseRPC)
             <=> (threads[c] # << >> /\ pc[Head(threads[c])] \in InReleaseRPC)
    BY <1>2, <1>3
  <2> QED
    BY <2>1, Zenon DEF serviceQueue
<1>5. holders' = holders
  BY <1>2, Zenon DEF holders
<1> QED
  BY <1>4, <1>5

\* While a thread that does not hold the lock is the first of the owner's
\* list, nobody holds it.
LEMMA NobodyHolds ==
  ASSUME IInv, NEW t \in Threads, Active(t), pc[t] # "critical", owner = ClientOf[t]
  PROVE  holders = {}
<1>1. FrontFacts /\ FlatTypes
  BY Basics DEF IInv
<1>2. ASSUME NEW u \in Threads, pc[u] = "critical"
      PROVE  FALSE
  <2>1. ClientOf[u] = owner
    BY <1>2 DEF IInv, PhaseInv, OwnerInv
  <2>2. Active(u)
    BY <1>2 DEF Active
  <2>3. u = t
    BY <1>1, <2>1, <2>2, Zenon DEF FrontFacts
  <2> QED
    BY <1>2, <2>3
<1> QED
  BY <1>2 DEF holders

\* The first thread of the owner's list gets the lock.
LEMMA ServiceGrants ==
  ASSUME IInv, NEW t \in Threads, Active(t), owner = ClientOf[t],
         pc[t] \notin {"critical"} \cup InReleaseRPC,
         threads' = threads, pc' = [pc EXCEPT ![t] = "critical"]
  PROVE  Service!Grant(t)
<1>1. FrontFacts /\ FlatTypes
  BY Basics DEF IInv
<1>2. holders = {}
  BY NobodyHolds
<1>3. holders' = {t}
  <2>1. \A u \in Threads : pc[u] # "critical"
    BY <1>2 DEF holders
  <2>2. \A u \in Threads : pc'[u] = "critical" <=> u = t
    BY <1>1, <2>1 DEF FlatTypes
  <2> QED
    BY <2>2, Zenon DEF holders
<1>4. threads[ClientOf[t]] # << >> /\ Head(threads[ClientOf[t]]) = t /\ ClientOf[t] \in Clients
  BY <1>1 DEF FrontFacts
<1>5. serviceQueue[ClientOf[t]] = threads[ClientOf[t]]
  BY <1>4 DEF serviceQueue
<1>6. serviceQueue' = serviceQueue
  <2>1. \A u \in Threads : pc'[u] \in InReleaseRPC <=> pc[u] \in InReleaseRPC
    BY <1>1 DEF FlatTypes
  <2>2. \A c \in Clients : threads[c] # << >> => Head(threads[c]) \in Threads
    BY <1>1 DEF FrontFacts
  <2>3. \A c \in Clients :
          /\ threads'[c] = threads[c]
          /\ (threads'[c] # << >> /\ pc'[Head(threads'[c])] \in InReleaseRPC)
             <=> (threads[c] # << >> /\ pc[Head(threads[c])] \in InReleaseRPC)
    BY <2>1, <2>2
  <2> QED
    BY <2>3, Zenon DEF serviceQueue
<1> QED
  BY <1>2, <1>3, <1>4, <1>5, <1>6 DEF Service!Grant

\* What a call of acquire does to the queue of the service.
LEMMA ServiceAppends ==
  ASSUME IInv, NEW t \in Threads, NEW l \in Label, pc[t] = "idle",
         l \notin InReleaseRPC, pc' = [pc EXCEPT ![t] = l],
         PushBack(ClientOf[t], t)
  PROVE  /\ serviceQueue' = [serviceQueue EXCEPT ![ClientOf[t]] = Append(@, t)]
         /\ \A i \in 1 .. Len(serviceQueue[ClientOf[t]]) :
              serviceQueue[ClientOf[t]][i] # t
<1> DEFINE k == ClientOf[t]
<1>1. FrontFacts /\ FlatTypes /\ threads \in [Clients -> Seq(Threads)]
  BY Basics DEF IInv, TypeOK
<1>2. k \in Clients /\ threads[k] \in Seq(Threads)
  BY <1>1
<1>3. \A c \in Clients : threads'[c] = IF c = k THEN Append(threads[k], t) ELSE threads[c]
  BY <1>1 DEF PushBack
<1>4. \A u \in Threads : u # t => pc'[u] = pc[u]
  BY <1>1 DEF FlatTypes
<1>5. \A c \in Clients : threads[c] # << >> =>
        Head(threads[c]) \in Threads /\ Head(threads[c]) # t
  <2>1. ASSUME NEW c \in Clients, threads[c] # << >>
        PROVE  Head(threads[c]) \in Threads /\ pc[Head(threads[c])] # "idle"
    BY <1>1, <2>1 DEF FrontFacts, FlatTypes, Active
  <2> QED
    BY <2>1
<1>6. ASSUME NEW c \in Clients
      PROVE  serviceQueue'[c] = IF c = k THEN Append(serviceQueue[k], t) ELSE serviceQueue[c]
  <2>1. CASE c # k
    BY <1>3, <1>4, <1>5, <2>1 DEF serviceQueue
  <2>2. CASE c = k /\ threads[k] = << >>
    <3>1. threads'[k] = << t >> /\ Head(<< t >>) = t /\ pc'[t] = l
      BY <1>1, <1>2, <1>3, <2>2 DEF FlatTypes
    <3>2. serviceQueue'[k] = << t >>
      BY <1>2, <3>1 DEF serviceQueue
    <3>3. serviceQueue[k] = << >>
      BY <1>2, <2>2 DEF serviceQueue
    <3> QED
      BY <2>2, <3>2, <3>3
  <2>3. CASE c = k /\ threads[k] # << >>
    <3>1. /\ Append(threads[k], t) # << >>
          /\ Head(Append(threads[k], t)) = Head(threads[k])
      BY <1>2, <2>3, AppendHead
    <3>2. Tail(Append(threads[k], t)) = Append(Tail(threads[k]), t)
      BY <1>2, <2>3
    <3>3. pc'[Head(threads[k])] = pc[Head(threads[k])]
      BY <1>2, <1>4, <1>5, <2>3
    <3>4. /\ threads'[k] = Append(threads[k], t)
          /\ serviceQueue[k] = IF pc[Head(threads[k])] \in InReleaseRPC
                               THEN Tail(threads[k]) ELSE threads[k]
          /\ serviceQueue'[k] = IF threads'[k] # << >> /\ pc'[Head(threads'[k])] \in InReleaseRPC
                                THEN Tail(threads'[k]) ELSE threads'[k]
      BY <1>2, <1>3, <2>3 DEF serviceQueue
    <3> HIDE DEF k
    <3> QED
      BY <2>3, <3>1, <3>2, <3>3, <3>4, Zenon
  <2> QED
    BY <2>1, <2>2, <2>3
<1>7. serviceQueue' = [serviceQueue EXCEPT ![k] = Append(@, t)]
  <2>1. serviceQueue' = [c \in Clients |-> serviceQueue'[c]]
    BY DEF serviceQueue
  <2>2. serviceQueue = [c \in Clients |-> serviceQueue[c]]
    BY DEF serviceQueue
  <2> HIDE DEF k
  <2> QED
    BY <1>2, <1>6, <2>1, <2>2
<1>8. \A i \in 1 .. Len(threads[k]) : threads[k][i] # t
  <2>1. \A c \in Clients : \A i \in 1 .. Len(threads[c]) : pc[threads[c][i]] # "idle"
    BY DEF IInv, QueueInv
  <2> HIDE DEF k
  <2> QED
    BY <1>2, <2>1, Zenon
<1>9. \A i \in 1 .. Len(serviceQueue[k]) : serviceQueue[k][i] # t
  <2>1. CASE serviceQueue[k] = threads[k]
    BY <1>8, <2>1
  <2>2. CASE threads[k] # << >> /\ serviceQueue[k] = Tail(threads[k])
    <3>1. /\ Len(threads[k]) \in Nat
          /\ Len(Tail(threads[k])) = Len(threads[k]) - 1
          /\ \A i \in 1 .. Len(Tail(threads[k])) : Tail(threads[k])[i] = threads[k][i + 1]
      BY <1>2, <2>2, TailElements
    <3> HIDE DEF k
    <3> QED
      BY <1>8, <2>2, <3>1
  <2> QED
    BY <1>2, <2>1, <2>2 DEF serviceQueue
<1> QED
  BY <1>7, <1>9

\* The holder's call of release takes it off the queue of the service, whether
\* the lock stays with the client or goes back to the server.
LEMMA ServiceReleases ==
  ASSUME IInv, NEW t \in Threads, Release(t)
  PROVE  Service!Release(t)
<1> DEFINE k == ClientOf[t]
<1>1. FrontFacts /\ FlatTypes /\ threads \in [Clients -> Seq(Threads)]
  BY Basics DEF IInv, TypeOK
<1>2. k \in Clients /\ pc[t] = "critical" /\ Active(t)
  BY DEF Release, Active
<1>3. threads[k] # << >> /\ Head(threads[k]) = t
  BY <1>1, <1>2 DEF FrontFacts
<1>4. \A u \in Threads : u # t => pc[u] # "critical" /\ pc'[u] = pc[u]
  <2>1. ASSUME NEW u \in Threads, pc[u] = "critical"
        PROVE  u = t
    <3>1. state[ClientOf[u]] = "LOCKED" /\ state[k] = "LOCKED" /\ ClientOf[u] \in Clients
      BY <1>2, <2>1 DEF IInv, PhaseInv
    <3>2. ClientOf[u] = k
      BY <1>2, <3>1 DEF IInv, OwnerInv
    <3>3. Active(u)
      BY <2>1 DEF Active
    <3> HIDE DEF k
    <3> QED
      BY <1>1, <1>3, <3>2, <3>3, Zenon DEF FrontFacts
  <2>2. \A u \in Threads : u # t => pc'[u] = pc[u]
    BY <1>1 DEF Release, Goto, FlatTypes
  <2> QED
    BY <2>1, <2>2
<1>5. pc'[t] \in {"release", "idle"}
  BY <1>1, <1>2 DEF Release, Goto, FlatTypes
<1>6. holders = {t} /\ holders' = {}
  <2>1. \A u \in Threads : pc[u] = "critical" <=> u = t
    BY <1>2, <1>4
  <2>2. \A u \in Threads : pc'[u] # "critical"
    BY <1>4, <1>5
  <2> QED
    BY <2>1, <2>2 DEF holders
<1>7. serviceQueue[k] = threads[k]
  BY <1>2, <1>3 DEF serviceQueue
<1>8. serviceQueue'[k] = Tail(threads[k])
  <2>1. CASE message[k] = "REVOKE"
    <3>1. threads' = threads /\ pc'[t] = "release"
      BY <1>1, <2>1 DEF Release, Goto, FlatTypes
    <3> QED
      BY <1>2, <1>3, <3>1 DEF serviceQueue
  <2>2. CASE message[k] # "REVOKE"
    <3>1. threads'[k] = Tail(threads[k])
      BY <1>1, <1>2, <2>2 DEF Release
    <3>2. ASSUME Tail(threads[k]) # << >>
          PROVE  pc'[Head(Tail(threads[k]))] = "queued"
      BY <1>2, <1>3, <1>4, <3>2, SecondIsQueued DEF IInv
    <3> QED
      BY <1>2, <3>1, <3>2 DEF serviceQueue
  <2> QED
    BY <2>1, <2>2
<1>9. ASSUME NEW c \in Clients, c # k
      PROVE  serviceQueue'[c] = serviceQueue[c]
  <2>1. threads'[c] = threads[c]
    BY <1>1, <1>9 DEF Release
  <2>2. threads[c] # << >> =>
          Head(threads[c]) \in Threads /\ ClientOf[Head(threads[c])] = c
    BY <1>1 DEF FrontFacts
  <2>3. threads[c] # << >> => pc'[Head(threads[c])] = pc[Head(threads[c])]
    BY <1>4, <1>9, <2>2
  <2> QED
    BY <2>1, <2>3, Zenon DEF serviceQueue
<1>10. serviceQueue' = [serviceQueue EXCEPT ![k] = Tail(@)]
  <2>1. serviceQueue' = [c \in Clients |-> serviceQueue'[c]]
    BY DEF serviceQueue
  <2>2. serviceQueue = [c \in Clients |-> serviceQueue[c]]
    BY DEF serviceQueue
  <2> HIDE DEF k
  <2> QED
    BY <1>2, <1>7, <1>8, <1>9, <2>1, <2>2
<1> QED
  BY <1>6, <1>10 DEF Service!Release

\* The end of a release RPC does not show in the service: the thread that
\* leaves the list had left the queue before.
LEMMA ServiceIgnoresReleased ==
  ASSUME IInv, NEW t \in Threads, ReleaseReturns(t)
  PROVE  UNCHANGED << serviceQueue, holders >>
<1> DEFINE k == ClientOf[t]
<1>1. FrontFacts /\ FlatTypes /\ threads \in [Clients -> Seq(Threads)]
  BY Basics DEF IInv, TypeOK
<1>2. k \in Clients /\ pc[t] = "released" /\ Active(t)
  BY DEF ReleaseReturns, Active
<1>3. threads[k] # << >> /\ Head(threads[k]) = t
  BY <1>1, <1>2 DEF FrontFacts
<1>4. pc'[t] = "idle" /\ \A u \in Threads : u # t => pc'[u] = pc[u]
  BY <1>1 DEF ReleaseReturns, Goto, FlatTypes
<1>5. holders' = holders
  <2>1. \A u \in Threads : pc'[u] = "critical" <=> pc[u] = "critical"
    BY <1>2, <1>4
  <2> QED
    BY <2>1, Zenon DEF holders
<1>6. serviceQueue[k] = Tail(threads[k])
  BY <1>2, <1>3 DEF serviceQueue
<1>7. serviceQueue'[k] = Tail(threads[k])
  <2>1. threads'[k] = Tail(threads[k])
    BY <1>1, <1>2 DEF ReleaseReturns
  <2>2. ASSUME Tail(threads[k]) # << >>
        PROVE  pc'[Head(Tail(threads[k]))] = "queued"
    BY <1>2, <1>3, <1>4, <2>2, SecondIsQueued DEF IInv
  <2> QED
    BY <1>2, <2>1, <2>2 DEF serviceQueue
<1>8. ASSUME NEW c \in Clients, c # k
      PROVE  serviceQueue'[c] = serviceQueue[c]
  <2>1. threads'[c] = threads[c]
    BY <1>1, <1>8 DEF ReleaseReturns
  <2>2. threads[c] # << >> =>
          Head(threads[c]) \in Threads /\ ClientOf[Head(threads[c])] = c
    BY <1>1 DEF FrontFacts
  <2>3. threads[c] # << >> => pc'[Head(threads[c])] = pc[Head(threads[c])]
    BY <1>4, <1>8, <2>2
  <2> QED
    BY <2>1, <2>3, Zenon DEF serviceQueue
<1>9. serviceQueue' = serviceQueue
  <2>1. serviceQueue' = [c \in Clients |-> serviceQueue'[c]]
    BY DEF serviceQueue
  <2>2. serviceQueue = [c \in Clients |-> serviceQueue[c]]
    BY DEF serviceQueue
  <2> HIDE DEF k
  <2> QED
    BY <1>2, <1>6, <1>7, <1>8, <2>1, <2>2
<1> QED
  BY <1>5, <1>9

\* A call of acquire is a request, granted at once when the lock is cached and
\* free.
LEMMA ServiceRequests ==
  ASSUME IInv, NEW t \in Threads, Acquire(t)
  PROVE  Service!Request(t) \/ Service!RequestAndGrant(t)
<1> DEFINE k == ClientOf[t]
<1>1. FrontFacts /\ FlatTypes
  BY Basics DEF IInv
<1>2. k \in Clients /\ pc[t] = "idle" /\ PushBack(k, t)
  BY DEF Acquire
<1>3. CASE pc' = [pc EXCEPT ![t] = "critical"]
  <2>1. threads[k] = << >> /\ state[k] = "FREE"
    <3>1. pc'[t] = "critical"
      BY <1>1, <1>3 DEF FlatTypes
    <3> QED
      BY <1>1, <3>1 DEF Acquire, Goto, BlockUntilGot, FlatTypes
  <2>2. \A u \in Threads : pc[u] # "critical"
    <3> SUFFICES ASSUME NEW u \in Threads, pc[u] = "critical" PROVE FALSE
      OBVIOUS
    <3>1. state[ClientOf[u]] = "LOCKED" /\ ClientOf[u] \in Clients
      BY DEF IInv, PhaseInv
    <3>2. ClientOf[u] = k
      BY <1>2, <2>1, <3>1 DEF IInv, OwnerInv
    <3> QED
      BY <2>1, <3>1, <3>2
  <2>3. holders = {} /\ holders' = {t}
    <3>1. \A u \in Threads : pc'[u] = "critical" <=> u = t
      BY <1>1, <1>3, <2>2 DEF FlatTypes
    <3> QED
      BY <2>2, <3>1 DEF holders
  <2>4. serviceQueue[k] = << >> /\ serviceQueue = [c \in Clients |-> serviceQueue[c]]
    BY <1>2, <2>1 DEF serviceQueue
  <2>5. serviceQueue' = [serviceQueue EXCEPT ![k] = Append(@, t)]
    BY <1>2, <1>3, ServiceAppends
  <2>6. serviceQueue' = [serviceQueue EXCEPT ![k] = << t >>]
    <3> HIDE DEF k
    <3> QED
      BY <1>2, <2>4, <2>5
  <2> QED
    BY <2>3, <2>4, <2>6 DEF Service!RequestAndGrant
<1>4. CASE \E l \in {"acquire", "awaitRelease", "queued"} : pc' = [pc EXCEPT ![t] = l]
  <2>1. PICK l \in {"acquire", "awaitRelease", "queued"} : pc' = [pc EXCEPT ![t] = l]
    BY <1>4
  <2>2. holders' = holders
    <3>1. \A u \in Threads : pc'[u] = "critical" <=> pc[u] = "critical"
      BY <1>1, <1>2, <2>1 DEF FlatTypes
    <3> QED
      BY <3>1, Zenon DEF holders
  <2> QED
    BY <1>2, <2>1, <2>2, ServiceAppends DEF Service!Request
<1> QED
  BY <1>3, <1>4 DEF Acquire, Goto, BlockUntilGot

\* Every step of a thread is a step of the service or does not show in it.
LEMMA ServiceStep ==
  ASSUME IInv, NEW t \in Threads, Acquire(t) \/ Step(t)
  PROVE  [Service!Next]_(Service!vars)
<1> USE DEF Goto, SetState, EndCall, SignalFront, clientVars, serverVars, callVars
<1> SUFFICES \/ Service!Request(t) \/ Service!Grant(t) \/ Service!RequestAndGrant(t)
             \/ Service!Release(t) \/ UNCHANGED << serviceQueue, holders >>
  BY DEF Service!Next, Service!vars
<1>1. FrontFacts /\ FlatTypes /\ ClientOf[t] \in Clients
  BY Basics DEF IInv
<1>2. CASE Acquire(t)
  BY <1>2, ServiceRequests
<1>3. CASE WakeAfterRelease(t)
  BY <1>3, ServiceStutters DEF WakeAfterRelease, BlockUntilGot
<1>4. CASE WakeQueued(t)
  <2>1. CASE state[ClientOf[t]] = "NONE"
    BY <1>4, <2>1, ServiceStutters DEF WakeQueued, BlockUntilGot
  <2>2. CASE state[ClientOf[t]] # "NONE"
    <3>1. Active(t) /\ pc[t] = "queued"
      BY <1>4 DEF WakeQueued, Active
    <3>2. owner = ClientOf[t]
      BY <1>1, <1>4, <2>2 DEF WakeQueued, IInv, OwnerInv
    <3> QED
      BY <1>4, <2>2, <3>1, <3>2, ServiceGrants DEF WakeQueued
  <2> QED
    BY <2>1, <2>2
<1>5. CASE WakeAfterRetry(t)
  BY <1>5, ServiceStutters DEF WakeAfterRetry
<1>6. CASE AcquireReturns(t)
  <2>1. CASE reply[t] = "OK"
    <3>1. Active(t) /\ owner = ClientOf[t]
      BY <1>6, <2>1 DEF AcquireReturns, Active, IInv, OwnerInv
    <3> QED
      BY <1>6, <2>1, <3>1, ServiceGrants DEF AcquireReturns
  <2>2. CASE reply[t] # "OK"
    BY <1>6, <2>2, ServiceStutters DEF AcquireReturns
  <2> QED
    BY <2>1, <2>2
<1>7. CASE Release(t)
  BY <1>7, ServiceReleases
<1>8. CASE ReleaseReturns(t)
  BY <1>8, ServiceIgnoresReleased
<1>9. CASE RevokeHandler(t)
  BY <1>9, ServiceStutters DEF RevokeHandler
<1>10. CASE RevokeReleaseReturns(t)
  BY <1>10, ServiceStutters DEF RevokeReleaseReturns
<1>11. CASE RetryHandler(t)
  BY <1>11, ServiceStutters DEF RetryHandler
<1>12. CASE ServerAcquire(t)
  <2>1. \E l \in {"acquireReply", "revokeOwner", "revoke"} : pc' = [pc EXCEPT ![t] = l]
    BY <1>12 DEF ServerAcquire
  <2> QED
    BY <1>12, <2>1, ServiceStutters DEF ServerAcquire
<1>13. CASE RevokeOwner(t)
  BY <1>13, ServiceStutters DEF RevokeOwner
<1>14. CASE ServerRelease(t)
  BY <1>14, ServiceStutters DEF ServerRelease
<1> QED
  BY <1>2, <1>3, <1>4, <1>5, <1>6, <1>7, <1>8, <1>9, <1>10, <1>11, <1>12, <1>13,
     <1>14 DEF Step

\* The caching protocol implements the lock service: what the threads of all
\* clients see is a lock with one holder at a time, given to the threads of a
\* client in the order of their calls.
THEOREM Refinement == Spec => ImplementsService
<1>1. Init => Service!Init
  <2> SUFFICES ASSUME Init PROVE Service!Init
    OBVIOUS
  <2>1. \A c \in Clients : threads[c] = << >>
    BY DEF Init
  <2>2. serviceQueue = [c \in Clients |-> << >>]
    BY <2>1, Zenon DEF serviceQueue
  <2>3. holders = {}
    BY DEF Init, holders
  <2> QED
    BY <2>2, <2>3 DEF Service!Init
<1>2. IInv /\ [Next]_vars => [Service!Next]_(Service!vars)
  <2> SUFFICES ASSUME IInv, [Next]_vars PROVE [Service!Next]_(Service!vars)
    OBVIOUS
  <2>1. CASE UNCHANGED vars
    BY <2>1 DEF vars, clientVars, Service!vars, serviceQueue, holders
  <2> QED
    BY <2>1, ServiceStep DEF Next
<1> QED
  BY <1>1, <1>2, Invariance, PTL DEF Spec, ImplementsService, Service!Spec
=============================================================================
