---------------------------- MODULE MCLockCache ----------------------------
(***************************************************************************)
(* Instances of LockCache for TLC.                                         *)
(***************************************************************************)
EXTENDS LockCacheInv, TLC

CONSTANTS a1, a2, b1, b2, c1

\* Three clients, of which the one with the greatest id, which may starve, has
\* one thread and the others have two.
MCClients == {1, 2, 3}
MCThreads == {a1, a2, b1, b2, c1}
MCClientOf == (a1 :> 1) @@ (a2 :> 1) @@ (b1 :> 2) @@ (b2 :> 2)
                @@ (c1 :> 3)
=============================================================================
