------------------------- MODULE LockCacheSpurious -------------------------
(***************************************************************************)
(* The caching lock protocol on a system whose pthread_cond_wait may       *)
(* return without a signal, as POSIX allows.  None of the three waits of   *)
(* lock_client_cache.cc is in a loop that tests what was waited for.       *)
(***************************************************************************)
EXTENDS MCLockCache

\* pthread_cond_wait of thread t returns although nobody signalled its cv.
SpuriousWakeup(t) ==
  /\ pc[t] \in Asleep
  /\ signalled' = signalled \cup {t}
  /\ UNCHANGED << clientVars, serverVars, callVars, pc >>

SpuriousNext == Next \/ \E t \in Threads : SpuriousWakeup(t)

SpuriousSpec == Init /\ [][SpuriousNext]_vars
=============================================================================
