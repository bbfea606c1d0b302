---------------------------- MODULE MCYfsClient ----------------------------
(***************************************************************************)
(* Model values for YfsClient.  Neither the clients nor the names are      *)
(* ordered, so both may be permuted.                                       *)
(***************************************************************************)
EXTENDS YfsClientInv, TLC

ClientsAndNames == Permutations(Clients) \cup Permutations(Names)
=============================================================================
