---------------------------- MODULE LockService ----------------------------
(***************************************************************************)
(* What the lock service promises its callers: acquire and release of one  *)
(* lock, by threads of several clients.  At most one thread holds the      *)
(* lock, and the threads of one client get it in the order of their calls. *)
(* Nothing is promised about the order between clients.                    *)
(***************************************************************************)
EXTENDS Naturals, Sequences

CONSTANTS
  Clients,    \* the clients of the service
  Threads,    \* application threads of all the clients
  ClientOf    \* the client of each thread

VARIABLES
  queue,      \* per client, the threads that wait for or hold the lock
  holders     \* the threads that hold the lock, one or none

vars == << queue, holders >>

Init ==
  /\ queue = [c \in Clients |-> << >>]
  /\ holders = {}

\* A thread calls acquire.
Request(t) ==
  /\ \A i \in 1 .. Len(queue[ClientOf[t]]) : queue[ClientOf[t]][i] # t
  /\ queue' = [queue EXCEPT ![ClientOf[t]] = Append(@, t)]
  /\ UNCHANGED holders

\* acquire returns to the thread that waits longest in its client.
Grant(t) ==
  /\ holders = {}
  /\ queue[ClientOf[t]] # << >>
  /\ Head(queue[ClientOf[t]]) = t
  /\ holders' = {t}
  /\ UNCHANGED queue

\* acquire is called and returns at once: nobody of the client is before t.
RequestAndGrant(t) ==
  /\ holders = {}
  /\ queue[ClientOf[t]] = << >>
  /\ queue' = [queue EXCEPT ![ClientOf[t]] = << t >>]
  /\ holders' = {t}

\* The holder calls release.
Release(t) ==
  /\ holders = {t}
  /\ queue' = [queue EXCEPT ![ClientOf[t]] = Tail(@)]
  /\ holders' = {}

Next ==
  \E t \in Threads :
    Request(t) \/ Grant(t) \/ RequestAndGrant(t) \/ Release(t)

Spec == Init /\ [][Next]_vars
=============================================================================
