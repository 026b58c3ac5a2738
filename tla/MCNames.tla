------------------------------ MODULE MCNames -------------------------------
(* Two DHCP servers, one of which names no router.                         *)
EXTENDS Names, TLC

CONSTANTS d1, d2

MCProvides == d1 :> Options @@ d2 :> {"dns"}
=============================================================================
