------------------------------ MODULE MCL3Host ------------------------------
(* Two bundles, an address that moves between two MACs, rifs that are       *)
(* deleted, created again with a new id, or left behind.                    *)
EXTENDS L3Host, TLC

Interchangeable ==
    Permutations(Bundles) \cup Permutations(Macs) \cup Permutations(RifIds)

=============================================================================
