--------------------------- MODULE ExtentService ---------------------------
(***************************************************************************)
(* What the extent service promises its callers about the content of one   *)
(* extent: a single register.  The content changes only when a put         *)
(* returns, and then to the argument of that put; a get returns the        *)
(* content, and neither get nor getattr changes it.                        *)
(***************************************************************************)
CONSTANTS
  Clients,    \* the callers
  Contents,   \* what an extent may contain
  Empty       \* the content of an extent that was created

VARIABLES
  content,    \* the content of the extent
  busy,       \* whether a client is in a call
  op,         \* the call a client is in and, for put, its argument
  buf         \* what the last get returned

vars == << content, busy, op, buf >>

Operation == [name : {"get", "getattr", "put"}, arg : Contents]
NoOperation == [name |-> "get", arg |-> Empty]

Init ==
  /\ content \in Contents
  /\ busy = [c \in Clients |-> FALSE]
  /\ op = [c \in Clients |-> NoOperation]
  /\ buf = Empty

Call(c, o) ==
  /\ ~busy[c]
  /\ busy' = [busy EXCEPT ![c] = TRUE]
  /\ op' = [op EXCEPT ![c] = o]
  /\ UNCHANGED << content, buf >>

Done(c) ==
  /\ busy[c]
  /\ busy' = [busy EXCEPT ![c] = FALSE]
  /\ op' = [op EXCEPT ![c] = NoOperation]

Get(c) ==
  /\ op[c].name = "get"
  /\ Done(c)
  /\ buf' = content
  /\ UNCHANGED content

Getattr(c) ==
  /\ op[c].name = "getattr"
  /\ Done(c)
  /\ UNCHANGED << content, buf >>

Put(c) ==
  /\ op[c].name = "put"
  /\ Done(c)
  /\ content' = op[c].arg
  /\ UNCHANGED buf

Next ==
  \E c \in Clients :
    \/ \E o \in Operation : Call(c, o)
    \/ Get(c) \/ Getattr(c) \/ Put(c)

Spec == Init /\ [][Next]_vars
=============================================================================
