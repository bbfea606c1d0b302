--------------------------- MODULE MCExtentCache ---------------------------
(***************************************************************************)
(* Instances of ExtentCache for TLC.                                       *)
(***************************************************************************)
EXTENDS ExtentCacheInv, TLC

CONSTANTS c1, c2, c3

MCClients == {c1, c2, c3}

\* Two contents, of different sizes, tell an old copy from a new one.
MCContents == {"", "a"}
MCSize == ("" :> 0) @@ ("a" :> 1)
=============================================================================
