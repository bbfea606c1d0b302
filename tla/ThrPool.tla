------------------------------ MODULE ThrPool ------------------------------
(***************************************************************************)
(* The threads that serve the requests of an RPC endpoint (rpc/thr_pool.h) *)
(* and the queue they take their jobs from (rpc/fifo.h).  Every rpcs has a *)
(* ThrPool; in librpc its constructor makes one that does not block, so    *)
(* enq is called with blocking = false and a request that finds the queue  *)
(* full stays with its connection, which offers it again.                  *)
(*                                                                         *)
(* The threads of a pool are alike: it is enough to count them.            *)
(***************************************************************************)
EXTENDS Integers, Sequences

CONSTANTS
  Endpoints,   \* the processes that serve requests
  PoolSize,    \* nthreads_
  QueueMax     \* max_ of jobq_

ASSUME PoolAssumption ==
  PoolSize \in Nat \ {0} /\ QueueMax \in Nat \ {0}

VARIABLES
  jobq,        \* q_, the jobs that wait for a thread
  asleep,      \* the threads inside pthread_cond_wait(&non_empty_c_)
  awake        \* the threads that are about to look at the queue in deq

poolVars == << jobq, asleep, awake >>

PoolInit ==
  /\ jobq = [e \in Endpoints |-> << >>]
  /\ asleep = [e \in Endpoints |-> 0]
  /\ awake = [e \in Endpoints |-> PoolSize]

\* A slip, for the mutants: nobody is woken.
enq_silently(e, job) ==
  /\ Len(jobq[e]) < QueueMax
  /\ jobq' = [jobq EXCEPT ![e] = Append(@, job)]
  /\ UNCHANGED << asleep, awake >>

\* fifo::enq: the signal wakes one of the threads that sleep.
enq(e, job) ==
  LET woken == IF asleep[e] > 0 THEN 1 ELSE 0 IN
  /\ Len(jobq[e]) < QueueMax
  /\ jobq' = [jobq EXCEPT ![e] = Append(@, job)]
  /\ asleep' = [asleep EXCEPT ![e] = @ - woken]
  /\ awake' = [awake EXCEPT ![e] = @ + woken]

\* fifo::deq with a job in the queue.  Nobody waits on has_space_c_.
deq(e) ==
  /\ awake[e] > 0
  /\ jobq[e] # << >>
  /\ jobq' = [jobq EXCEPT ![e] = Tail(@)]
  /\ awake' = [awake EXCEPT ![e] = @ - 1]
  /\ UNCHANGED asleep

\* fifo::deq with the queue empty.
wait(e) ==
  /\ awake[e] > 0
  /\ jobq[e] = << >>
  /\ awake' = [awake EXCEPT ![e] = @ - 1]
  /\ asleep' = [asleep EXCEPT ![e] = @ + 1]
  /\ UNCHANGED jobq

\* The job of objfunc_wrapper::func is done: its thread takes the next one.
done(e) ==
  /\ awake' = [awake EXCEPT ![e] = @ + 1]
  /\ UNCHANGED << jobq, asleep >>

-----------------------------------------------------------------------------

PoolTypeOK ==
  /\ DOMAIN jobq = Endpoints
  /\ \A e \in Endpoints : Len(jobq[e]) <= QueueMax
  /\ asleep \in [Endpoints -> 0 .. PoolSize]
  /\ awake \in [Endpoints -> 0 .. PoolSize]

\* No wake-up is lost between enq and deq: while a thread sleeps, there are
\* threads about to look at the queue for all the jobs in it.
NoJobIsForgotten ==
  \A e \in Endpoints : asleep[e] > 0 => Len(jobq[e]) <= awake[e]
=============================================================================
