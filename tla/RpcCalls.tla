------------------------------ MODULE RpcCalls ------------------------------
(***************************************************************************)
(* How a request travels: a client calls its lock or extent server, a      *)
(* thread of the server's pool runs the handler, the handler may call a    *)
(* client back through a handle, and the client's handler may call the     *)
(* server again before the first call has returned.                        *)
(*                                                                         *)
(* Each caller has one call at a time; its stack holds the request of the  *)
(* call and those made on its behalf, the innermost last.  LockCache and   *)
(* ExtentCache say which client is called back; here it is any.  Calls do  *)
(* not time out, and the network loses nothing.                            *)
(***************************************************************************)
EXTENDS ThrPool, HandleMgr, Marshall, FiniteSets

CONSTANTS
  Server,     \* the process that serves the clients' calls
  Name        \* the id of each client as a string

Clients == Destinations

ASSUME CallsAssumption ==
  /\ Endpoints = Clients \cup {Server}
  /\ Server \notin Clients
  /\ Name \in [Clients -> Seq(Nat)]

VARIABLES
  kind,       \* what runs: "lock" or "extent", the server and its clients,
              \* or "demo", the lock server and lock_demo
  stack,      \* the requests of each caller that have not returned
  result,     \* what the last call of each caller returned
  stopped     \* why the processes have stopped, "no" while they run

callVars == << kind, stack, result, stopped >>
vars == << poolVars, hmap, callVars >>

(***************************************************************************)
(* The procedures                                                          *)
(***************************************************************************)

lock_protocol == [acquire |-> 28673, release |-> 28674, stat |-> 28675]
rlock_protocol == [revoke |-> 32769, retry |-> 32770]
extent_protocol == [put |-> 24577, get |-> 24578, getattr |-> 24579, create |-> 24581]
rextent_protocol == [flush |-> 36865, get_attr |-> 36866]

Procs ==
  DOMAIN lock_protocol \cup DOMAIN rlock_protocol \cup DOMAIN extent_protocol
    \cup DOMAIN rextent_protocol

\* What four protocols or lists of handlers say together.
Together(a, b, c, d) ==
  [p \in Procs |-> CASE p \in DOMAIN a -> a[p] [] p \in DOMAIN b -> b[p]
                     [] p \in DOMAIN c -> c[p] [] p \in DOMAIN d -> d[p]]

number == Together(lock_protocol, rlock_protocol, extent_protocol, rextent_protocol)

\* The types of the arguments and of the result, in the calls ...
lock_call ==
  [acquire |-> << << "ull", "string" >>, "int" >>,
   release |-> << << "ull", "string" >>, "int" >>]
stat_call == [stat |-> << << "int", "ull" >>, "int" >>]
extent_call ==
  [create |-> << << "string", "int" >>, "ull" >>,
   get |-> << << "string", "ull" >>, "string" >>,
   getattr |-> << << "string", "ull" >>, "attr" >>,
   put |-> << << "string", "ull", "string" >>, "int" >>]
callback_call ==
  [revoke |-> << << "ull" >>, "int" >>, retry |-> << << "ull" >>, "int" >>,
   flush |-> << << "ull" >>, "int" >>, get_attr |-> << << "ull" >>, "attr" >>]

\* ... and in the handlers.
lock_handler ==
  [acquire |-> << << "ull", "string" >>, "int" >>,
   release |-> << << "ull", "string" >>, "int" >>,
   stat |-> << << "ull" >>, "int" >>]
extent_handler ==
  [create |-> << << "string", "int" >>, "ull" >>,
   put |-> << << "string", "ull", "string" >>, "int" >>,
   get |-> << << "string", "ull" >>, "string" >>,
   getattr |-> << << "string", "ull" >>, "attr" >>]
lock_client_handler ==
  [revoke |-> << << "ull" >>, "int" >>, retry |-> << << "ull" >>, "int" >>]
extent_client_handler ==
  [flush |-> << << "ull" >>, "int" >>, get_attr |-> << << "ull" >>, "attr" >>]

called == Together(lock_call, stat_call, extent_call, callback_call)
handler ==
  Together(lock_handler, extent_handler, lock_client_handler, extent_client_handler)

\* One value of each type, no two of its cells alike.
Value(type) ==
  CASE type = "int" -> 1
    [] type = "ull" -> << 2, 3 >>
    [] type = "string" -> << 4, 5, 6 >>
    [] type = "attr" -> [type |-> 7, atime |-> 8, mtime |-> 9, ctime |-> 10,
                         size |-> 11]

\* The arguments of caller c; clt_id is its own name, the first string.
Args(c, p) ==
  LET types == called[p][1] IN
  [i \in 1 .. Len(types) |->
     IF types[i] = "string" /\ (i = 1 \/ p \in {"acquire", "release"})
     THEN Name[c] ELSE Value(types[i])]

(***************************************************************************)
(* Requests                                                                *)
(***************************************************************************)

\* What the n-th request of a caller carries to the handler of p.
pdus ==
  [c \in Endpoints |-> [p \in Procs |-> [n \in 1 .. 4 |->
     IF c = Server /\ p \notin DOMAIN callback_call
     THEN << >>
     ELSE call([xid |-> n, proc |-> number[p], clt_nonce |-> 12,
                srv_nonce |-> 13, xid_rep |-> 0], called[p][1], Args(c, p))]]]
Pdu(c, p, n) == pdus[c][p][n]

Pdus == {Pdu(c, p, n) : c \in Endpoints, p \in Procs, n \in 1 .. 4} \ {<< >>}

\* dispatch finds the handler by its number; its fn reads the arguments, and
\* returns at once when they are not exactly those the handler takes.
fn ==
  [pdu \in Pdus |->
     LET p == CHOOSE q \in Procs :
                number[q] = unpack_req_header(unmarshall(pdu)).proc
         u == read_args(pdu, handler[p][1])
     IN IF okdone(u) THEN [ret |-> 0, args |-> u.values]
        ELSE [ret |-> unmarshal_args_failure, args |-> << >>]]

\* What call_m makes of the reply to the n-th request.
answers ==
  [p \in Procs |-> [ret \in {0, unmarshal_args_failure} |-> [n \in 1 .. 4 |->
     LET type == handler[p][2]
     IN  call_m(reply(n, ret, type, Value(type)), called[p][2])]]]
Answer(p, ret, n) == answers[p][ret][n]

\* A request of c to process e.  dest is the client its thread has a handle
\* for (the server itself while there is none), ret what the handler returns.
Request(c, p, e, n) ==
  [proc |-> p, to |-> e, pc |-> "sent", pdu |-> Pdu(c, p, n), got |-> << >>,
   dest |-> Server, ret |-> 0]

Top(c) == Last(stack[c])
At(c, pc) == stopped = "no" /\ stack[c] # << >> /\ Top(c).pc = pc
Caller(c) == IF Len(stack[c]) = 1 THEN c ELSE stack[c][Len(stack[c]) - 1].to

SetTop(c, f) == stack' = [stack EXCEPT ![c] = Front(@) \o << f >>]
Goto(c, pc) == SetTop(c, [Top(c) EXCEPT !.pc = pc])

\* The thread of c's innermost request makes a call itself.
Push(c, p, e) ==
  stack' = [stack EXCEPT ![c] =
    Front(@) \o << [Top(c) EXCEPT !.pc = "calling"],
                   Request(Top(c).to, p, e, Len(@) + 1) >>]

Init ==
  /\ PoolInit
  /\ HandleInit
  /\ kind \in {"lock", "extent", "demo"}
  /\ stack = [c \in Clients |-> << >>]
  /\ result = [c \in Clients |-> << >>]
  /\ stopped = "no"

\* The calls that lock_client_cache, extent_client and lock_demo make.
Start(c) ==
  /\ stopped = "no"
  /\ stack[c] = << >>
  /\ result[c] # << "stat", unmarshal_args_failure >>
  /\ \E p \in CASE kind = "lock" -> {"acquire", "release"}
                [] kind = "extent" -> {"create", "get", "getattr"}
                [] kind = "demo" -> {"stat"} :
       stack' = [stack EXCEPT ![c] = << Request(c, p, Server, 1) >>]
  /\ result' = [result EXCEPT ![c] = << >>]
  /\ UNCHANGED << poolVars, hmap, kind, stopped >>

\* got_pdu: the poll thread gives the request to the pool.
GotPdu(c) ==
  /\ At(c, "sent")
  /\ enq(Top(c).to, c)
  /\ Goto(c, "queued")
  /\ UNCHANGED << hmap, kind, result, stopped >>

\* A thread takes the first job and begins its handler.
Dispatch(e) ==
  /\ stopped = "no"
  /\ deq(e)
  /\ LET c == Head(jobq[e])
         h == fn[Top(c).pdu]
     IN SetTop(c, [Top(c) EXCEPT !.pdu = << >>, !.got = h.args, !.ret = h.ret,
                     !.pc = IF h.ret = 0 THEN "begun" ELSE "reply"])
  /\ UNCHANGED << hmap, kind, result, stopped >>

Sleep(e) ==
  /\ stopped = "no"
  /\ wait(e)
  /\ UNCHANGED << hmap, callVars >>

(***************************************************************************)
(* The handlers, as far as they call                                       *)
(***************************************************************************)

\* The client that a handler of the server may call back: the owner, which
\* may be the caller itself in acquire, or the next waiting client.
MayCallBack(c, p, m) ==
  \/ p = "acquire"
  \/ p \in {"release", "get", "getattr"} /\ m # Caller(c)

\* What the handlers of the server call, and what those of the clients do.
CallBackOf(p) ==
  CASE p = "acquire" -> "revoke" [] p = "release" -> "retry"
    [] p = "get" -> "flush"      [] p = "getattr" -> "get_attr"
NestedCalls == {<< "revoke", "release" >>, << "flush", "put" >>}

\* handle(m): the constructor.  No handle is h = NULL.
MakeHandle(c) ==
  /\ At(c, "begun")
  /\ \E m \in Clients :
       /\ MayCallBack(c, Top(c).proc, m)
       /\ get_handle(m)
       /\ SetTop(c, [Top(c) EXCEPT !.dest = IF GetsHandle(m) THEN m ELSE @,
                       !.pc = IF GetsHandle(m) THEN "handle" ELSE "null"])
  /\ UNCHANGED << poolVars, kind, result, stopped >>

\* A handler that returns without a call; release always makes one.
NoCall(c) ==
  /\ At(c, "begun")
  /\ Top(c).proc # "release"
  /\ Goto(c, "reply")
  /\ UNCHANGED << poolVars, hmap, kind, result, stopped >>

\* revoke_handler gives a free lock back, flush_handler valid data.
CallServer(c) ==
  /\ At(c, "begun")
  /\ \E n \in NestedCalls : n[1] = Top(c).proc /\ Push(c, n[2], Server)
  /\ UNCHANGED << poolVars, hmap, kind, result, stopped >>

\* A slip, for the mutants: a thread that finds cl_mutex taken goes on with
\* the connection that is not there yet.
Safebind_trylock(c) ==
  /\ At(c, "handle")
  /\ LET m == Top(c).dest IN
     /\ IF hmap[m].locked THEN UNCHANGED hmap ELSE SafebindEnters(m)
     /\ Goto(c, IF hmap[m].del \/ hmap[m].locked THEN "null"
                ELSE IF hmap[m].cl THEN "bound" ELSE "binding")
  /\ UNCHANGED << poolVars, kind, result, stopped >>

Safebind(c) ==
  /\ At(c, "handle")
  /\ LET m == Top(c).dest IN
     /\ SafebindEnters(m)
     /\ Goto(c, IF hmap[m].del THEN "null"
                ELSE IF hmap[m].cl THEN "bound" ELSE "binding")
  /\ UNCHANGED << poolVars, kind, result, stopped >>

\* The client answers within a second, or does not.
Bind(c) ==
  /\ At(c, "binding")
  /\ \E bound \in BOOLEAN :
       /\ BindReturns(Top(c).dest, bound)
       /\ Goto(c, IF bound THEN "bound" ELSE "null")
  /\ UNCHANGED << poolVars, kind, result, stopped >>

CallBack(c) ==
  /\ At(c, "bound")
  /\ Push(c, CallBackOf(Top(c).proc), Top(c).dest)
  /\ UNCHANGED << poolVars, hmap, kind, result, stopped >>

\* safebind()->call with safebind() = NULL: the server ends.
CallOnNull(c) ==
  /\ At(c, "null")
  /\ stopped' = "null"
  /\ UNCHANGED << poolVars, hmap, kind, stack, result >>

\* ~handle, after the call back has returned.
DestroyHandle(c) ==
  /\ At(c, "called")
  /\ done_handle(Top(c).dest)
  /\ Goto(c, "reply")
  /\ UNCHANGED << poolVars, kind, result, stopped >>

\* The handler returns, its thread takes another job, and the caller reads
\* the reply.  stat's own VERIFY ends lock_demo when the call has failed.
Return(c) ==
  /\ At(c, "reply")
  /\ done(Top(c).to)
  /\ LET f    == Top(c)
         rep  == Answer(f.proc, f.ret, Len(stack[c]))
         left == Front(stack[c])
     IN /\ stopped' = IF rep.verify THEN "no" ELSE "verify"
        /\ IF left = << >>
           THEN /\ stack' = [stack EXCEPT ![c] = << >>]
                /\ result' = [result EXCEPT ![c] =
                     << f.proc, IF rep.intret < 0 THEN rep.intret ELSE rep.r >>]
           ELSE LET g == Last(left) IN
                /\ stack' = [stack EXCEPT ![c] = Front(left) \o
                     << [g EXCEPT !.pc = IF g.to = Server THEN "called" ELSE "reply"] >>]
                /\ UNCHANGED result
  /\ UNCHANGED << hmap, kind >>

Next ==
  \/ \E c \in Clients :
       \/ Start(c) \/ GotPdu(c)
       \/ MakeHandle(c) \/ NoCall(c) \/ CallServer(c)
       \/ Safebind(c) \/ Bind(c) \/ CallBack(c) \/ CallOnNull(c)
       \/ DestroyHandle(c) \/ Return(c)
  \/ \E e \in Endpoints : Dispatch(e) \/ Sleep(e)

Spec == Init /\ [][Next]_vars

\* Every thread goes on: the poll thread offers a request again until the
\* queue takes it, a bind ends after a second, and the threads of the pools
\* and the mutexes are scheduled fairly.
Fairness ==
  /\ \A c \in Clients :
       /\ WF_vars(GotPdu(c) \/ MakeHandle(c) \/ NoCall(c) \/ CallServer(c)
                   \/ Safebind(c) \/ Bind(c) \/ CallBack(c) \/ CallOnNull(c)
                   \/ DestroyHandle(c) \/ Return(c))
       /\ SF_vars(GotPdu(c))
  /\ \A e \in Endpoints : WF_vars(Dispatch(e))

FairSpec == Spec /\ Fairness

-----------------------------------------------------------------------------
(***************************************************************************)
(* Properties                                                              *)
(***************************************************************************)

Frames == {x \in Clients \X (1 .. 4) : x[2] <= Len(stack[x[1]])}
Frame(x) == stack[x[1]][x[2]]

PCs == {"sent", "queued", "begun", "handle", "binding", "bound", "null",
        "calling", "called", "reply"}

\* Types; no more than four requests are nested, and a request has a thread
\* of the pool from deq until its handler returns.
TypeOK ==
  /\ PoolTypeOK
  /\ \A m \in Clients : hmap[m].refcnt \in -1 .. 2 * Cardinality(Clients)
  /\ stopped \in {"no", "null", "verify"}
  /\ \A c \in Clients : Len(stack[c]) <= 4
  /\ \A x \in Frames : Frame(x).proc \in Procs /\ Frame(x).pc \in PCs
  /\ \A e \in Endpoints :
       asleep[e] + awake[e]
         + Cardinality({x \in Frames : Frame(x).to = e
                          /\ Frame(x).pc \notin {"sent", "queued"}}) = PoolSize

\* The requests of threads that have a handle for m.
Holders(m) == {x \in Frames : Frame(x).dest = m /\ Frame(x).pc # "reply"}

\* The reference count of an hinfo is the number of handles in use, across
\* all the handlers that run: it is neither freed under a thread that calls
\* through it nor kept when it should go.
HandlesAreCounted ==
  \A m \in Clients :
    Cardinality(Holders(m)) = IF HasInfo(m) THEN hmap[m].refcnt ELSE 0

\* A client is bound once and its connection shared: handlers that call the
\* same client for the first time do not each make a connection.
BoundOnce ==
  \A m \in Clients :
    Cardinality({x \in Holders(m) : Frame(x).pc = "binding"})
      + (IF hmap[m].cl THEN 1 ELSE 0) <= 1

\* A server whose handlers call safebind()->call without a test dies only if
\* a client could not be bound; a connection that another thread is still
\* making is waited for.
DiesOnlyOfAFailedBind ==
  stopped = "null" => \E m \in Clients : hmap[m].del

\* Who has made the call: the caller itself, or the process of the handler
\* that calls on its behalf.
Sender(x) == IF x[2] = 1 THEN x[1] ELSE stack[x[1]][x[2] - 1].to

\* The handler has the arguments of a call of s.
ArgumentsOf(s, f) == f.ret = 0 /\ f.got = Args(s, f.proc)

\* A handler sees exactly the arguments of the call: the templates of the call
\* and of the handler agree.  Nothing is said of stat, which lock_client sends
\* with one argument more than lock_server_cache takes.
ArgumentsArrive ==
  \A x \in Frames :
    Frame(x).pc \notin {"sent", "queued"} /\ Frame(x).proc # "stat" =>
      ArgumentsOf(Sender(x), Frame(x))

\* A caller reads exactly what the handler has filled in, and no call ends
\* its program in call_m.
RepliesArrive ==
  /\ stopped # "verify"
  /\ \A c \in Clients : result[c] # << >> /\ result[c][1] # "stat" =>
       result[c][2] = Value(called[result[c][1]][2])

\* With more threads in the server's pool than clients that call at a time,
\* every call returns, unless the server dies: the handlers that wait for a
\* callback leave a thread for the calls it makes.
EveryRequestReturns ==
  Cardinality(Clients) < PoolSize =>
    \A c \in Clients : stack[c] # << >> ~> (stack[c] = << >> \/ stopped # "no")
=============================================================================
