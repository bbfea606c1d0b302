----------------------------- MODULE LockCache -----------------------------
(***************************************************************************)
(* The caching lock protocol: lock_server_cache and its lock_client_cache  *)
(* instances, for one lock id.  The entries that lockManager keeps for     *)
(* different lock ids share nothing but the mutex lockManagerLock, which   *)
(* is never held across an RPC or a wait, so one id shows the protocol.    *)
(*                                                                         *)
(* Every RPC is synchronous, so a thread of an application is followed     *)
(* through the whole chain of calls it starts: acquire at the server, from *)
(* there revoke at the owner, from there release at the server, from there *)
(* retry at the next client.  pc[t] says where in that chain t is.  An     *)
(* action is a stretch of code that runs under one lockManagerLock; a      *)
(* request or a reply may be delayed for ever so long between two actions, *)
(* and is neither lost nor executed twice (the at-most-once window of the  *)
(* RPC library).  A call into the RPC library never times out here.        *)
(***************************************************************************)
EXTENDS Naturals, Sequences, FiniteSetsExt

CONSTANTS
  Clients,    \* ids of the clients; their order is that of the id strings
  Threads,    \* application threads of all the clients
  ClientOf    \* the client whose lock_client_cache a thread calls

ASSUME ClientsAssumption == Clients \subseteq Nat \ {0}
ASSUME ThreadsAssumption == ClientOf \in [Threads -> Clients]

\* The empty std::string in owner and retryingClient.
NoClient == 0

VARIABLES
  state,          \* LockEntry.state of each client
  message,        \* LockEntry.message of each client
  threads,        \* LockEntry.threads of each client, a FIFO list
  sstate,         \* LockEntry.state at the server
  owner,          \* LockEntry.owner at the server
  retryingClient, \* LockEntry.retryingClient at the server
  waitingClients, \* LockEntry.waitingClients at the server, an ordered set
  pc,             \* where the chain of calls of each thread is
  signalled,      \* threads in pthread_cond_wait whose cv was signalled
  reply,          \* what the acquire RPC of each thread returns
  target,         \* the client a thread's acquire RPC has revoked
  next            \* nextWaitingClient of the release RPC in a thread's chain

clientVars == << state, message, threads >>
serverVars == << sstate, owner, retryingClient, waitingClients >>
callVars   == << reply, target, next >>
vars == << clientVars, serverVars, callVars, pc, signalled >>

ClientState == {"NONE", "ACQUIRING", "FREE", "RELEASING", "LOCKED"}
Message     == {"EMPTY", "RETRY", "REVOKE"}
ServerState == {"NONE", "LOCKED", "REVOKING", "RETRYING"}

\* The three pthread_cond_wait of lock_client_cache.cc (lines 51, 56, 152).
Asleep == {"awaitRelease", "queued", "awaitRetry"}

\* Inside the acquire RPC of blockUntilGot, from the call to its return.
InRevokeRelease == {"revokeRelease", "revokeRetry", "revokeReleased"}
InAcquireRPC == {"acquire", "revokeOwner", "revoke", "acquireReply"}
                  \cup InRevokeRelease

\* Inside the release RPC of lock_client_cache::release.
InReleaseRPC == {"release", "retry", "released"}

Label == {"idle", "critical"} \cup Asleep \cup InAcquireRPC \cup InReleaseRPC

TypeOK ==
  /\ state \in [Clients -> ClientState]
  /\ message \in [Clients -> Message]
  /\ threads \in [Clients -> Seq(Threads)]
  /\ sstate \in ServerState
  /\ owner \in Clients \cup {NoClient}
  /\ retryingClient \in Clients \cup {NoClient}
  /\ waitingClients \in SUBSET Clients
  /\ pc \in [Threads -> Label]
  /\ signalled \in SUBSET Threads
  /\ reply \in [Threads -> {"OK", "RETRY"}]
  /\ target \in [Threads -> Clients \cup {NoClient}]
  /\ next \in [Threads -> Clients \cup {NoClient}]

Init ==
  /\ state = [c \in Clients |-> "NONE"]
  /\ message = [c \in Clients |-> "EMPTY"]
  /\ threads = [c \in Clients |-> << >>]
  /\ sstate = "NONE"
  /\ owner = NoClient
  /\ retryingClient = NoClient
  /\ waitingClients = {}
  /\ pc = [t \in Threads |-> "idle"]
  /\ signalled = {}
  /\ reply = [t \in Threads |-> "RETRY"]
  /\ target = [t \in Threads |-> NoClient]
  /\ next = [t \in Threads |-> NoClient]

Goto(t, label) == pc' = [pc EXCEPT ![t] = label]

SetState(c, s) == state' = [state EXCEPT ![c] = s]

\* The local variables of the handlers in the chain of t go out of scope.
EndCall(t) ==
  /\ reply' = [reply EXCEPT ![t] = "RETRY"]
  /\ target' = [target EXCEPT ![t] = NoClient]
  /\ next' = [next EXCEPT ![t] = NoClient]

\* pthread_cond_signal on the cv of the first thread of a list: it is lost
\* when that thread is not waiting.
SignalFront(list) ==
  signalled' = IF list # << >> /\ pc[Head(list)] \in Asleep
               THEN signalled \cup {Head(list)}
               ELSE signalled

(***************************************************************************)
(* Slips that the code could have made and did not.  No action below uses  *)
(* them: each replaces one action to see that a property depends on it.    *)
(***************************************************************************)

\* push_front for push_back.
PushFront(c, t) == threads' = [threads EXCEPT ![c] = << t >> \o @]

\* The message is cleared whatever the acquire RPC has returned.
AcquireReturnsClears(t) ==
  LET c == ClientOf[t] IN
  /\ pc[t] = "acquireReply"
  /\ message' = [message EXCEPT ![c] = "EMPTY"]
  /\ \/ /\ reply[t] = "OK"
        /\ SetState(c, "LOCKED")
        /\ Goto(t, "critical")
     \/ /\ reply[t] # "OK"
        /\ Goto(t, IF message[c] = "EMPTY" THEN "awaitRetry" ELSE "acquire")
        /\ UNCHANGED state
  /\ EndCall(t)
  /\ UNCHANGED << threads, signalled, serverVars >>

\* The lock goes back to the server after every use.
ReleaseAlways(t) ==
  /\ pc[t] = "critical"
  /\ SetState(ClientOf[t], "RELEASING")
  /\ Goto(t, "release")
  /\ UNCHANGED << message, threads, signalled, serverVars, callVars >>

\* The lock is kept as FREE although threads of this client wait for it.
ReleaseFrees(t) ==
  LET c == ClientOf[t]
      rest == Tail(threads[c]) IN
  /\ pc[t] = "critical"
  /\ message[c] # "REVOKE"
  /\ SetState(c, "FREE")
  /\ threads' = [threads EXCEPT ![c] = rest]
  /\ SignalFront(rest)
  /\ Goto(t, "idle")
  /\ UNCHANGED << message, serverVars, callVars >>

\* The revoke message is not cleared once the lock is back at the server.
ReleaseReturnsRevoked(t) ==
  LET c == ClientOf[t]
      rest == Tail(threads[c]) IN
  /\ pc[t] = "released"
  /\ SetState(c, "NONE")
  /\ threads' = [threads EXCEPT ![c] = rest]
  /\ SignalFront(rest)
  /\ Goto(t, "idle")
  /\ EndCall(t)
  /\ UNCHANGED << message, serverVars >>

\* The lock is given back although a thread holds it.
RevokeHandlerAlways(t) ==
  /\ pc[t] = "revoke"
  /\ SetState(target[t], "RELEASING")
  /\ Goto(t, "revokeRelease")
  /\ UNCHANGED << message, threads, signalled, serverVars, callVars >>

\* A revoke that overtakes the reply of the acquire RPC is ignored.
RevokeHandlerEarly(t) ==
  LET c == target[t] IN
  /\ pc[t] = "revoke"
  /\ \/ /\ state[c] = "FREE"
        /\ SetState(c, "RELEASING")
        /\ Goto(t, "revokeRelease")
        /\ UNCHANGED message
     \/ /\ state[c] # "FREE"
        /\ message' = [message EXCEPT ![c] = IF state[c] = "LOCKED" THEN "REVOKE" ELSE @]
        /\ Goto(t, "acquireReply")
        /\ UNCHANGED state
  /\ UNCHANGED << threads, signalled, serverVars, callVars >>

\* revoke_handler wakes nobody up.
RevokeReleaseReturnsSilently(t) ==
  /\ pc[t] = "revokeReleased"
  /\ SetState(target[t], "NONE")
  /\ Goto(t, "acquireReply")
  /\ UNCHANGED << message, threads, signalled, serverVars, callVars >>

(***************************************************************************)
(* lock_client_cache                                                       *)
(***************************************************************************)

\* blockUntilGot up to its call of the acquire RPC.
BlockUntilGot(t) ==
  /\ SetState(ClientOf[t], "ACQUIRING")
  /\ Goto(t, "acquire")

\* The thread's entry at the end of the list.
PushBack(c, t) == threads' = [threads EXCEPT ![c] = Append(@, t)]

\* acquire: take a cached free lock, ask the server for it, or wait.
Acquire(t) ==
  LET c == ClientOf[t] IN
  /\ pc[t] = "idle"
  /\ PushBack(c, t)
  /\ \/ /\ threads[c] = << >>
        /\ state[c] = "FREE"
        /\ SetState(c, "LOCKED")
        /\ Goto(t, "critical")
     \/ /\ threads[c] = << >>
        /\ state[c] = "NONE"
        /\ BlockUntilGot(t)
     \/ /\ threads[c] = << >>
        /\ state[c] \notin {"FREE", "NONE"}
        /\ Goto(t, "awaitRelease")
        /\ UNCHANGED state
     \/ /\ threads[c] # << >>
        /\ Goto(t, "queued")
        /\ UNCHANGED state
  /\ UNCHANGED << message, signalled, serverVars, callVars >>

\* acquire after the wait of line 51.
WakeAfterRelease(t) ==
  /\ pc[t] = "awaitRelease"
  /\ t \in signalled
  /\ signalled' = signalled \ {t}
  /\ BlockUntilGot(t)
  /\ UNCHANGED << message, threads, serverVars, callVars >>

\* acquire after the wait of line 56: the lock was handed over, or has to be
\* asked for.  The default case is assert(0).
WakeQueued(t) ==
  LET c == ClientOf[t] IN
  /\ pc[t] = "queued"
  /\ t \in signalled
  /\ signalled' = signalled \ {t}
  /\ \/ /\ state[c] \in {"FREE", "LOCKED"}
        /\ SetState(c, "LOCKED")
        /\ Goto(t, "critical")
     \/ /\ state[c] = "NONE"
        /\ BlockUntilGot(t)
  /\ UNCHANGED << message, threads, serverVars, callVars >>

\* blockUntilGot after the wait of line 152: clear the message and go round
\* the loop.  Leaving the loop is assert(0).
WakeAfterRetry(t) ==
  LET c == ClientOf[t] IN
  /\ pc[t] = "awaitRetry"
  /\ t \in signalled
  /\ signalled' = signalled \ {t}
  /\ message' = [message EXCEPT ![c] = "EMPTY"]
  /\ state[c] = "ACQUIRING"
  /\ Goto(t, "acquire")
  /\ UNCHANGED << state, threads, serverVars, callVars >>

\* blockUntilGot when the acquire RPC has returned.
AcquireReturns(t) ==
  LET c == ClientOf[t] IN
  /\ pc[t] = "acquireReply"
  /\ \/ /\ reply[t] = "OK"
        /\ SetState(c, "LOCKED")
        /\ Goto(t, "critical")
        /\ UNCHANGED message
     \/ /\ reply[t] # "OK"
        /\ message[c] = "EMPTY"
        /\ Goto(t, "awaitRetry")
        /\ UNCHANGED << state, message >>
     \/ /\ reply[t] # "OK"
        /\ message[c] # "EMPTY"
        /\ message' = [message EXCEPT ![c] = "EMPTY"]
        /\ state[c] = "ACQUIRING"
        /\ Goto(t, "acquire")
        /\ UNCHANGED state
  /\ EndCall(t)
  /\ UNCHANGED << threads, signalled, serverVars >>

\* release: give a revoked lock back, else keep it and hand it to the next
\* thread of this client.
Release(t) ==
  LET c == ClientOf[t]
      rest == Tail(threads[c]) IN
  /\ pc[t] = "critical"
  /\ \/ /\ message[c] = "REVOKE"
        /\ SetState(c, "RELEASING")
        /\ Goto(t, "release")
        /\ UNCHANGED << threads, signalled >>
     \/ /\ message[c] # "REVOKE"
        /\ SetState(c, IF rest = << >> THEN "FREE" ELSE "LOCKED")
        /\ threads' = [threads EXCEPT ![c] = rest]
        /\ SignalFront(rest)
        /\ Goto(t, "idle")
  /\ UNCHANGED << message, serverVars, callVars >>

\* release when its RPC has returned.
ReleaseReturns(t) ==
  LET c == ClientOf[t]
      rest == Tail(threads[c]) IN
  /\ pc[t] = "released"
  /\ message' = [message EXCEPT ![c] = "EMPTY"]
  /\ SetState(c, "NONE")
  /\ threads' = [threads EXCEPT ![c] = rest]
  /\ SignalFront(rest)
  /\ Goto(t, "idle")
  /\ EndCall(t)
  /\ UNCHANGED serverVars

\* revoke_handler at the client that the server calls.
RevokeHandler(t) ==
  LET c == target[t] IN
  /\ pc[t] = "revoke"
  /\ \/ /\ state[c] = "FREE"
        /\ SetState(c, "RELEASING")
        /\ Goto(t, "revokeRelease")
        /\ UNCHANGED message
     \/ /\ state[c] # "FREE"
        /\ message' = [message EXCEPT ![c] = "REVOKE"]
        /\ Goto(t, "acquireReply")
        /\ UNCHANGED state
  /\ UNCHANGED << threads, signalled, serverVars, callVars >>

\* revoke_handler when its release RPC has returned.
RevokeReleaseReturns(t) ==
  LET c == target[t] IN
  /\ pc[t] = "revokeReleased"
  /\ SetState(c, "NONE")
  /\ SignalFront(threads[c])
  /\ Goto(t, "acquireReply")
  /\ UNCHANGED << message, threads, serverVars, callVars >>

\* retry_handler at the client that the server's release calls.
RetryHandler(t) ==
  LET c == next[t] IN
  /\ pc[t] \in {"retry", "revokeRetry"}
  /\ message' = [message EXCEPT ![c] = "RETRY"]
  /\ SignalFront(threads[c])
  /\ Goto(t, IF pc[t] = "retry" THEN "released" ELSE "revokeReleased")
  /\ UNCHANGED << state, threads, serverVars, callVars >>

(***************************************************************************)
(* lock_server_cache                                                       *)
(***************************************************************************)

\* The assertions of acquire on a call of client c.
AcquireAsserts(c) ==
  /\ sstate = "NONE" => owner = NoClient
  /\ sstate = "LOCKED" => owner \notin {NoClient, c}
  /\ sstate # "NONE" => c \notin waitingClients

\* acquire up to the first pthread_mutex_unlock.
ServerAcquire(t) ==
  LET c == ClientOf[t]
      Answer(r, label) == /\ reply' = [reply EXCEPT ![t] = r]
                          /\ Goto(t, label) IN
  /\ pc[t] = "acquire"
  /\ AcquireAsserts(c)
  /\ \/ /\ sstate = "NONE"
        /\ sstate' = "LOCKED"
        /\ owner' = c
        /\ Answer("OK", "acquireReply")
        /\ UNCHANGED << retryingClient, waitingClients, target >>
     \/ /\ sstate = "LOCKED"
        /\ waitingClients' = waitingClients \cup {c}
        /\ sstate' = "REVOKING"
        /\ Answer("RETRY", "revokeOwner")
        /\ UNCHANGED << owner, retryingClient, target >>
     \/ /\ \/ sstate = "REVOKING"
           \/ sstate = "RETRYING" /\ c # retryingClient
        /\ waitingClients' = waitingClients \cup {c}
        /\ Answer("RETRY", "acquireReply")
        /\ UNCHANGED << sstate, owner, retryingClient, target >>
     \/ /\ sstate = "RETRYING"
        /\ c = retryingClient
        /\ retryingClient' = NoClient
        /\ owner' = c
        /\ \/ /\ waitingClients = {}
              /\ sstate' = "LOCKED"
              /\ Answer("OK", "acquireReply")
              /\ UNCHANGED target
           \/ /\ waitingClients # {}
              /\ sstate' = "REVOKING"
              /\ Answer("OK", "revoke")
              /\ target' = [target EXCEPT ![t] = c]
        /\ UNCHANGED waitingClients
  /\ UNCHANGED << clientVars, signalled, next >>

\* acquire after that unlock, in the case LOCKED: lockEntry->owner is read
\* again, now without the mutex, for the call of revoke.
RevokeOwner(t) ==
  /\ pc[t] = "revokeOwner"
  /\ target' = [target EXCEPT ![t] = owner]
  /\ Goto(t, "revoke")
  /\ UNCHANGED << clientVars, serverVars, signalled, reply, next >>

\* The client whose id a release RPC in the chain of t carries.
Releaser(t) == IF pc[t] = "release" THEN ClientOf[t] ELSE target[t]

\* The assertions of release on a call of client c.  The third one of the
\* code, waitingClients.size() >= 0, is true of every set.
ReleaseAsserts(c) == sstate = "REVOKING" /\ owner = c

\* release up to its call of retry at the waiting client with the least id.
ServerRelease(t) ==
  LET nextWaitingClient == Min(waitingClients) IN
  /\ pc[t] \in {"release", "revokeRelease"}
  /\ ReleaseAsserts(Releaser(t))
  /\ waitingClients' = waitingClients \ {nextWaitingClient}
  /\ retryingClient' = nextWaitingClient
  /\ owner' = NoClient
  /\ sstate' = "RETRYING"
  /\ next' = [next EXCEPT ![t] = nextWaitingClient]
  /\ Goto(t, IF pc[t] = "release" THEN "retry" ELSE "revokeRetry")
  /\ UNCHANGED << clientVars, signalled, reply, target >>

-----------------------------------------------------------------------------

\* What a thread does once it has called acquire, and the release that every
\* caller of acquire goes on to call.
Step(t) ==
  \/ WakeAfterRelease(t) \/ WakeQueued(t) \/ WakeAfterRetry(t)
  \/ AcquireReturns(t) \/ Release(t) \/ ReleaseReturns(t)
  \/ RevokeHandler(t) \/ RevokeReleaseReturns(t) \/ RetryHandler(t)
  \/ ServerAcquire(t) \/ RevokeOwner(t) \/ ServerRelease(t)

Next == \E t \in Threads : Acquire(t) \/ Step(t)

Spec == Init /\ [][Next]_vars

\* No thread stops for ever where it could go on: the scheduler runs every
\* runnable thread, the RPC library delivers every request and every reply,
\* and a caller that holds the lock releases it.  Calling acquire is up to
\* the application.
FairSpec == Spec /\ \A t \in Threads : WF_vars(Step(t))

-----------------------------------------------------------------------------
(***************************************************************************)
(* Properties                                                              *)
(***************************************************************************)

\* At most one thread, of all the clients, is between the return of its
\* acquire and its release.  The server knows only clients; between the
\* threads of a client it is the list threads that keeps this.
MutualExclusion ==
  \A t, u \in Threads : pc[t] = "critical" /\ pc[u] = "critical" => t = u

\* No acquire or release that has reached the server, or is on its way there,
\* can make one of its assertions fail, nor make release take the first
\* element of an empty set of waiting clients.
ServerAssertionsHold ==
  \A t \in Threads :
    /\ pc[t] = "acquire" => AcquireAsserts(ClientOf[t])
    /\ pc[t] \in {"release", "revokeRelease"} =>
         ReleaseAsserts(Releaser(t)) /\ waitingClients # {}

\* A thread that wakes up never runs into assert(0) (the switch of acquire,
\* the end of the loop of blockUntilGot), and no handler takes the front of
\* an empty list: release pops its own thread, retry_handler finds a thread.
ClientAssertionsHold ==
  /\ \A t \in signalled : pc[t] = "queued" =>
       state[ClientOf[t]] \in {"FREE", "LOCKED", "NONE"}
  /\ \A t \in Threads : pc[t] \in {"awaitRetry", "acquireReply"} =>
       state[ClientOf[t]] = "ACQUIRING"
  /\ \A t \in Threads : pc[t] \in {"critical"} \cup InReleaseRPC =>
       threads[ClientOf[t]] # << >> /\ Head(threads[ClientOf[t]]) = t
  /\ \A t \in Threads : pc[t] \in {"retry", "revokeRetry"} =>
       threads[next[t]] # << >>

\* A revoke call finds the client that owns the lock, before that client has
\* begun to give it back: it is not lost on a client that is asking again,
\* although lock_server_cache::acquire reads the owner after its unlock.
RevokeReachesOwner ==
  \A t \in Threads : pc[t] = "revoke" =>
    /\ target[t] = owner
    /\ \/ state[owner] \in {"FREE", "LOCKED"}
       \/ \E u \in Threads : ClientOf[u] = owner /\ reply[u] = "OK"

\* A retry call finds a client that still waits for it: its message slot is
\* empty, and it is asleep or will look at the slot before it sleeps.
RetryReachesWaiter ==
  \A t \in Threads : pc[t] \in {"retry", "revokeRetry"} =>
    /\ next[t] = retryingClient
    /\ message[next[t]] = "EMPTY"
    /\ state[next[t]] = "ACQUIRING"
    /\ LET u == Head(threads[next[t]]) IN pc[u] # "acquire" /\ reply[u] = "RETRY"

\* Whenever clients wait at the server, somebody is bound to move the lock: a
\* revoke or a release is under way, the owner has been told to release, or
\* the client to retry is about to ask again.
WaitersAreServed ==
  waitingClients # {} =>
    \/ \E t \in Threads :
         pc[t] \in {"revokeOwner", "revoke", "release", "revokeRelease"}
    \/ owner # NoClient /\ message[owner] = "REVOKE"
    \/ retryingClient # NoClient

\* No message is overwritten or dropped unread, whatever the order in which
\* revoke_handler, retry_handler and the thread inside blockUntilGot run: a
\* retry is cleared when the client asks again, a revoke once the client has
\* given the lock back.
NoMessageLost ==
  [][\A c \in Clients : message'[c] # message[c] =>
       \/ message[c] = "EMPTY"
       \/ /\ message[c] = "RETRY"
          /\ message'[c] = "EMPTY"
          /\ pc'[Head(threads[c])] = "acquire"
       \/ /\ message[c] = "REVOKE"
          /\ message'[c] = "EMPTY"
          /\ owner # c]_vars

HeldBy(c) == \E t \in Threads : ClientOf[t] = c /\ pc[t] = "critical"

\* Every thread that has called acquire gets the lock: no wake-up, revoke or
\* retry is lost.  The one exception is in release, which takes the least
\* waiting id and not the one that waits longest: a client starves only while
\* two others with smaller ids pass the lock between them for ever.
ServedUnlessTwoPassTheLock ==
  \A t \in Threads :
    \/ pc[t] \in Asleep \cup InAcquireRPC ~> pc[t] = "critical"
    \/ \E c, d \in Clients : /\ c < d /\ d < ClientOf[t]
                             /\ []<>HeldBy(c) /\ []<>HeldBy(d)

-----------------------------------------------------------------------------
(***************************************************************************)
(* The service that the protocol implements                                *)
(***************************************************************************)

\* A thread leaves the abstract queue when it calls release, the concrete
\* list only when the release RPC, if there is one, has returned.
serviceQueue ==
  [c \in Clients |->
     IF threads[c] # << >> /\ pc[Head(threads[c])] \in InReleaseRPC
     THEN Tail(threads[c])
     ELSE threads[c]]

holders == {t \in Threads : pc[t] = "critical"}

Service == INSTANCE LockService WITH queue <- serviceQueue

\* The caching protocol is an implementation of the lock service: one holder
\* at a time among all clients, first come first served within a client.
ImplementsService == Service!Spec
=============================================================================
