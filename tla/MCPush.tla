-------------------------------- MODULE MCPush --------------------------------
(* Model-checking instance of Push: an app with one service, so that the   *)
(* translation map has two keys and its iteration order matters.           *)
EXTENDS Push

CONSTANTS app, svc

MCServices == {svc}
=============================================================================
