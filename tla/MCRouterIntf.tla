---------------------------- MODULE MCRouterIntf ----------------------------
(* A system port, a VLAN interface and a loopback, two bundles, two rifs at *)
(* a time; a LAG of the first two.                                          *)
EXTENDS RouterIntf, TLC

CONSTANTS p1, v1, lo

MCKind == [p \in Ports |-> CASE p = v1 -> "internal"
                             [] p = lo -> "loopback"
                             [] OTHER  -> "system"]
MCHwId == [p \in Ports |-> IF p = p1 THEN 1 ELSE 0]

Slave(p, up) == [slaves |-> <<p>>, vlan |-> IF p = v1 THEN 10 ELSE -1,
                 enable |-> up]
Lag(p, q) == [slaves |-> <<p, q>>, vlan |-> -1, enable |-> TRUE]

MCSettings ==
    {Slave(p1, TRUE), Slave(p1, FALSE), Slave(v1, TRUE), Slave(lo, TRUE),
     Lag(p1, v1)}

Interchangeable == Permutations(Bundles) \cup Permutations(RifIds)

=============================================================================
