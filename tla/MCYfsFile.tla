----------------------------- MODULE MCYfsFile -----------------------------
(***************************************************************************)
(* Instances of YfsFile for TLC.                                           *)
(***************************************************************************)
EXTENDS YfsFileInv, TLC

MCContents == UNION {[1 .. n -> Bytes] : n \in 0 .. MaxSize}
MCSize == [s \in MCContents |-> Len(s)]
MCEmpty == << >>

ClientsAreAlike == Permutations(Clients)
=============================================================================
