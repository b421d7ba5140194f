----------------------------- MODULE MCHostIntf -----------------------------
(* Two ports, a VLAN interface whose VLAN id is the label id of a port, and *)
(* the internal interface of a bridge.                                      *)
EXTENDS HostIntf, TLC

CONSTANTS p1, p2, v1, br

MCKind == [n \in Names |-> CASE n = v1 -> "vlan"
                             [] n = br -> "bridge"
                             [] OTHER  -> "system"]
MCHandle == [n \in Names |-> IF n \in {p1, v1} THEN 1 ELSE 2]

=============================================================================
