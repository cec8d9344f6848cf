------------------------------- MODULE MCHub -------------------------------
(* Instances of Hub for TLC: the companies of the connections.              *)
EXTENDS Hub, TLC

CONSTANTS c1, c2, e1

UmaEmpresa == (c1 :> e1) @@ (c2 :> e1)
=============================================================================
