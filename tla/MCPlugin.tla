------------------------------ MODULE MCPlugin ------------------------------
(* Two VRFs and a bridge.  The SDK has two ids for routers, for both VRFs   *)
(* or for one and the router it left behind; a next hop more than fit.      *)
EXTENDS Plugin, TLC

CONSTANTS v1, v2, br, h1, h2, e1, e2

=============================================================================
