----------------------------- MODULE MCRpcCalls -----------------------------
(***************************************************************************)
(* Instances of RpcCalls for TLC: two clients, whose ids have different    *)
(* lengths, and one server.                                                *)
(***************************************************************************)
EXTENDS RpcCallsInv, TLC

CONSTANTS c1, c2

MCDestinations == {c1, c2}
MCEndpoints == {c1, c2, Server}
MCName == c1 :> << 20 >> @@ c2 :> << 21, 22 >>
=============================================================================
