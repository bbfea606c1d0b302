---------------------------- MODULE LockCacheInv ----------------------------
(***************************************************************************)
(* The inductive invariant of LockCache, in parts.                         *)
(***************************************************************************)
EXTENDS LockCache

\* A thread inside a call that is not just asleep behind other threads of
\* its client.
Active(t) == pc[t] \notin {"idle", "queued"} \/ t \in signalled

\* The phases of acquire in which the client asks the server.
Asking == InAcquireRPC \cup {"awaitRetry"}

\* The server or a handler has told somebody to move the lock: from the call
\* of revoke to the release that it causes.
Moving == {"revokeOwner", "revoke", "release", "revokeRelease"}

\* A retry call is on its way.
Retrying == {"retry", "revokeRetry"}

\* threads[c] lists the calls of c that have not ended, and only the first of
\* them is not asleep, or has been signalled.
QueueInv ==
  /\ \A c \in Clients : \A i \in 1 .. Len(threads[c]) :
       ClientOf[threads[c][i]] = c /\ pc[threads[c][i]] # "idle"
  /\ \A c \in Clients : \A i \in 1 .. Len(threads[c]) :
       Active(threads[c][i]) <=> i = 1
  /\ \A c \in Clients : \A i, j \in 1 .. Len(threads[c]) :
       threads[c][i] = threads[c][j] => i = j
  /\ \A t \in Threads : pc[t] # "idle" =>
       \E i \in 1 .. Len(threads[ClientOf[t]]) : threads[ClientOf[t]][i] = t
  /\ \A t \in signalled : pc[t] \in Asleep

\* What the place of the first thread says of its client's entry.
PhaseInv ==
  /\ \A t \in Threads : pc[t] = "critical" => state[ClientOf[t]] = "LOCKED"
  /\ \A t \in Threads : pc[t] \in Asking => state[ClientOf[t]] = "ACQUIRING"
  /\ \A t \in Threads : pc[t] \in InReleaseRPC =>
       state[ClientOf[t]] = "RELEASING" /\ message[ClientOf[t]] = "REVOKE"
  /\ \A t \in Threads : pc[t] = "awaitRelease" /\ t \notin signalled =>
       state[ClientOf[t]] = "RELEASING"
  /\ \A t \in Threads : pc[t] = "awaitRelease" /\ t \in signalled =>
       state[ClientOf[t]] = "NONE"
  /\ \A t \in Threads : pc[t] = "queued" /\ t \in signalled =>
       state[ClientOf[t]] \in {"LOCKED", "NONE"}

\* What the state of an entry says of its list and its message.
EntryInv ==
  /\ \A c \in Clients : state[c] = "FREE" => threads[c] = << >>
  /\ \A c \in Clients :
       state[c] \in {"LOCKED", "ACQUIRING"} => threads[c] # << >>
  /\ \A c \in Clients : state[c] \in {"NONE", "FREE"} => message[c] = "EMPTY"
  /\ \A c \in Clients : message[c] = "RETRY" =>
       state[c] = "ACQUIRING" /\ c = retryingClient
  /\ \A c \in Clients : message[c] = "REVOKE" /\ state[c] # "RELEASING" =>
       owner = c /\ sstate = "REVOKING"

\* The entry of the server.
ServerInv ==
  /\ sstate = "NONE" =>
       owner = NoClient /\ retryingClient = NoClient /\ waitingClients = {}
  /\ sstate = "LOCKED" =>
       owner # NoClient /\ retryingClient = NoClient /\ waitingClients = {}
  /\ sstate = "REVOKING" =>
       owner # NoClient /\ retryingClient = NoClient /\ waitingClients # {}
  /\ sstate = "RETRYING" => owner = NoClient /\ retryingClient # NoClient
  /\ owner \notin waitingClients
  /\ retryingClient \notin waitingClients

\* A client that has the lock cached or in use, or to which the answer OK is
\* on its way, is the owner, and the owner is such a client until its release
\* has reached the server.
OwnerInv ==
  /\ \A c \in Clients : state[c] \in {"FREE", "LOCKED"} => owner = c
  /\ owner # NoClient =>
       \/ state[owner] \in {"FREE", "LOCKED", "RELEASING"}
       \/ state[owner] = "ACQUIRING" /\ reply[Head(threads[owner])] = "OK"
  /\ owner # NoClient /\ state[owner] = "RELEASING" => sstate = "REVOKING"
  /\ \A t \in Threads : reply[t] = "OK" =>
       pc[t] \in {"revoke", "acquireReply"} /\ owner = ClientOf[t]
  /\ \A t \in Threads : pc[t] = "release" => owner = ClientOf[t]
  /\ \A t \in Threads : pc[t] \in {"retry", "released"} => owner # ClientOf[t]
  /\ \A t \in Threads : pc[t] = "revokeRelease" => owner = target[t]
  /\ \A t \in Threads :
       pc[t] \in {"revokeRetry", "revokeReleased"} => owner # target[t]

\* A handler that releases a revoked cached lock is alone in doing so, and
\* the entry waits for it.
HandlerInv ==
  /\ \A t \in Threads : pc[t] \in InRevokeRelease =>
       /\ target[t] \in Clients
       /\ state[target[t]] = "RELEASING"
       /\ message[target[t]] = "EMPTY"
  /\ \A t, u \in Threads :
       /\ pc[t] \in InRevokeRelease
       /\ pc[u] \in InRevokeRelease
       /\ target[t] = target[u]
       => t = u

\* A client that the server has told to wait does wait.
WaitInv ==
  /\ \A c \in waitingClients : state[c] = "ACQUIRING" /\ message[c] = "EMPTY"
  /\ retryingClient # NoClient => state[retryingClient] = "ACQUIRING"
  /\ \A t \in Threads : pc[t] = "acquire" =>
       message[ClientOf[t]] = "EMPTY" /\ ClientOf[t] \notin waitingClients
  /\ \A t \in Threads : pc[t] \in Asking \ {"acquire"} /\ reply[t] = "RETRY" =>
       ClientOf[t] \in waitingClients \/ ClientOf[t] = retryingClient
  /\ \A t \in Threads : pc[t] = "awaitRetry" /\ t \in signalled =>
       message[ClientOf[t]] = "RETRY"

\* One retry call at a time, to a client that has not asked again.
RetryInv ==
  /\ \A t \in Threads : pc[t] \in Retrying =>
       /\ next[t] = retryingClient
       /\ retryingClient # NoClient
       /\ message[retryingClient] = "EMPTY"
  /\ \A t, u \in Threads : pc[t] \in Retrying /\ pc[u] = "acquire" =>
       ClientOf[u] # retryingClient
  /\ \A t, u \in Threads : pc[t] \in Retrying /\ pc[u] \in Retrying => t = u

\* One move of the lock at a time, while the server is REVOKING; before the
\* revoke handler has run, the owner knows nothing of it.
MoveInv ==
  /\ \A t \in Threads : pc[t] \in Moving => sstate = "REVOKING"
  /\ \A t, u \in Threads : pc[t] \in Moving /\ pc[u] \in Moving => t = u
  /\ \A t \in Threads : pc[t] \in {"revokeOwner", "revoke"} =>
       message[owner] # "REVOKE" /\ state[owner] # "RELEASING"
  /\ \A t \in Threads : pc[t] = "revoke" => target[t] = owner

\* The inductive invariant: what the entries of the clients, the entry of the
\* server and the calls under way say of one another.
IInv ==
  /\ TypeOK
  /\ QueueInv
  /\ PhaseInv
  /\ EntryInv
  /\ ServerInv
  /\ OwnerInv
  /\ HandlerInv
  /\ WaitInv
  /\ RetryInv
  /\ MoveInv
=============================================================================
