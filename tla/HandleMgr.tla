----------------------------- MODULE HandleMgr -----------------------------
(***************************************************************************)
(* handle.cc: the cache of connections through which a server calls its    *)
(* clients back.  A handle counts as a reference to the hinfo of its       *)
(* destination; safebind connects at the first use, outside handle_mutex   *)
(* and under the destination's cl_mutex.  get_handle and done_handle run   *)
(* under handle_mutex as a whole, so each is one step.                     *)
(***************************************************************************)
EXTENDS Integers, FiniteSets

CONSTANT Destinations    \* the ids of the clients, host:port

ASSUME DestinationsAssumption == IsFiniteSet(Destinations)

VARIABLE hmap            \* the hinfo of every destination that has one

\* An hinfo; locked says that a thread holds cl_mutex.
hinfo(refcnt) == [cl |-> FALSE, refcnt |-> refcnt, del |-> FALSE, locked |-> FALSE]

NoInfo == hinfo(-1)
HasInfo(m) == hmap[m] # NoInfo

HandleInit == hmap = [m \in Destinations |-> NoInfo]

\* get_handle returns NULL for a destination that is being given up.
GetsHandle(m) == ~HasInfo(m) \/ ~hmap[m].del

\* A slip, for the mutants: a second handle is not counted.
get_handle_uncounted(m) ==
  hmap' = [hmap EXCEPT ![m] = IF ~HasInfo(m) THEN hinfo(1) ELSE @]

get_handle(m) ==
  hmap' = [hmap EXCEPT ![m] =
             IF ~HasInfo(m) THEN hinfo(1)
             ELSE IF ~@.del THEN [@ EXCEPT !.refcnt = hmap[m].refcnt + 1]
             ELSE @]

\* A slip, for the mutants: cl_mutex is not taken.
SafebindEnters_unlocked(m) == UNCHANGED hmap

\* safebind gets cl_mutex; a connection that is there, or was given up, is
\* found at once, otherwise the mutex is kept for the call of bind.
SafebindEnters(m) ==
  /\ ~hmap[m].locked
  /\ hmap' = [hmap EXCEPT ![m].locked = ~hmap[m].del /\ ~hmap[m].cl]

\* bind returns: the connection is stored, or the destination given up.
BindReturns(m, bound) ==
  hmap' = [hmap EXCEPT ![m] = [@ EXCEPT !.cl = bound, !.del = ~bound,
                                        !.locked = FALSE]]

\* A slip, for the mutants: the reference stays.
done_handle_never(m) == UNCHANGED hmap

\* done_handle, and delete_handle_wo for the last reference to a destination
\* that was given up.
done_handle(m) ==
  hmap' = [hmap EXCEPT ![m] = IF @.refcnt = 1 /\ @.del THEN NoInfo
                              ELSE [@ EXCEPT !.refcnt = hmap[m].refcnt - 1]]

=============================================================================
