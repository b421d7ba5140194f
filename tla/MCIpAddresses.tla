--------------------------- MODULE MCIpAddresses ---------------------------
(* Two bundles; two IPv4 addresses, one of them also with another mask,     *)
(* and an IPv6 address that is a primary or a secondary.                    *)
EXTENDS IpAddresses, TLC

CONSTANTS a1, a1wide, a2, d1

MCIp == [a \in Addrs |-> IF a = a1wide THEN a1 ELSE a]

V4(p, S) == [p4 |-> p, s4 |-> S, p6 |-> {}, s6 |-> {}]
Both(p, S, q, T) == [p4 |-> p, s4 |-> S, p6 |-> q, s6 |-> T]

MCSettings ==
    {Both({a1}, {a2}, {d1}, {}), Both({a1wide}, {a2}, {}, {d1})}
V4Settings == {V4({a1}, {a2}), V4({a2}, {a1})}

Interchangeable == Permutations(Bundles)

=============================================================================
