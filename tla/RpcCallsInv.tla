----------------------------- MODULE RpcCallsInv -----------------------------
(***************************************************************************)
(* The inductive invariant of the calls between a server and its clients:  *)
(* the stacks of requests, the thread pools, the handles, and what the     *)
(* requests and replies carry.                                             *)
(***************************************************************************)
EXTENDS RpcCalls

\* Stacks are sequences of at most four requests.
IsFrame(f) ==
  f = [x \in {"proc", "to", "pc", "pdu", "got", "dest", "ret"} |-> f[x]]

IsSeq(s) == Len(s) \in Nat /\ s = [i \in 1 .. Len(s) |-> s[i]]

StackInv ==
  /\ kind \in {"lock", "extent", "demo"}
  /\ DOMAIN stack = Clients
  /\ \A c \in Clients : IsSeq(stack[c]) /\ Len(stack[c]) <= 4
  /\ \A x \in Frames : IsFrame(Frame(x))

\* The calls that may be at each depth of a stack.
Calls ==
  << {"acquire", "release", "create", "get", "getattr", "stat"},
     {"revoke", "retry", "flush", "get_attr"},
     {"release", "put"},
     {"retry"} >>

\* The n-th request of a caller: requests alternate between the server and
\* a client, and only a handler of the server has a handle, for a client,
\* from the constructor of handle to its destructor.
FrameOK(n, f) ==
  /\ f.proc \in Calls[n]
  /\ f.pc \in PCs
  /\ IF n \in {1, 3} THEN f.to = Server ELSE f.to \in Clients
  /\ f.dest \in Clients \cup {Server}
  /\ f.dest \in Clients => n \in {1, 3}
  /\ f.pc \in {"sent", "queued", "begun"} => f.dest = Server
  /\ f.pc \in {"handle", "binding", "bound", "called"} => n \in {1, 3}
  /\ f.pc \in {"handle", "binding", "bound", "calling", "called"} /\ n \in {1, 3} =>
       f.dest \in Clients /\ f.proc \in {"acquire", "release", "get", "getattr"}

\* A request below another one waits for it, and no other does.
ShapeInv ==
  \A x \in Frames :
    /\ FrameOK(x[2], Frame(x))
    /\ Frame(x).pc = "calling" <=> x[2] < Len(stack[x[1]])

\* The jobs in a queue are callers whose innermost request waits there.
QueueInv ==
  /\ jobq \in [Endpoints -> Seq(Clients)]
  /\ \A e \in Endpoints : \A n \in 1 .. Len(jobq[e]) :
       LET c == jobq[e][n] IN
       stack[c] # << >> /\ Top(c).pc = "queued" /\ Top(c).to = e
  /\ \A e \in Endpoints : \A m, n \in 1 .. Len(jobq[e]) :
       jobq[e][m] = jobq[e][n] => m = n

Infos == [cl : BOOLEAN, refcnt : Int, del : BOOLEAN, locked : BOOLEAN]

\* An hinfo: no destination has a connection after it was given up.
InfoOK(m) ==
  /\ hmap[m] \in Infos
  /\ hmap[m] = NoInfo \/ hmap[m].refcnt \in Nat
  /\ ~ (hmap[m].cl /\ hmap[m].del)

\* A thread that makes a connection has cl_mutex; one that calls through a
\* connection finds it; one that has none found a client given up.
HandleOK(n, f) ==
  /\ f.pc = "binding" =>
       hmap[f.dest].locked /\ ~ hmap[f.dest].cl /\ ~ hmap[f.dest].del
  /\ f.pc \in {"bound", "calling", "called"} /\ n \in {1, 3} => hmap[f.dest].cl
  /\ f.pc = "null" => \E m \in Clients : hmap[m].del

\* And only one thread at a time makes a connection to a client.
HandleInv ==
  /\ hmap = [m \in Clients |-> hmap[m]]
  /\ \A m \in Clients : InfoOK(m)
  /\ \A x \in Frames : HandleOK(x[2], Frame(x))
  /\ \A x, y \in Frames :
       Frame(x).pc = "binding" /\ Frame(y).pc = "binding"
         /\ Frame(x).dest = Frame(y).dest => x = y

\* What a handler has made of a call of s.  stat's call has one argument more
\* than its handler.
HandledOK(s, f) ==
  IF f.proc = "stat" THEN f.ret = unmarshal_args_failure ELSE ArgumentsOf(s, f)

\* What a request carries, on its way and in its handler.
PayloadOK(s, n, f) ==
  IF f.pc \in {"sent", "queued"} THEN f.pdu = Pdu(s, f.proc, n) ELSE HandledOK(s, f)

PayloadInv == \A x \in Frames : PayloadOK(Sender(x), x[2], Frame(x))

\* What the callers were told.
ResultInv == result = [c \in Clients |-> result[c]] /\ RepliesArrive

\* The inductive invariant of the pools and handles, ...
CallsInv ==
  /\ TypeOK /\ StackInv /\ ShapeInv /\ QueueInv /\ HandleInv
  /\ NoJobIsForgotten /\ HandlesAreCounted /\ DiesOnlyOfAFailedBind

\* ... and of the calls as a whole.
IInv == CallsInv /\ PayloadInv /\ ResultInv
=============================================================================
