--------------------------- MODULE MCNetdevEvents ---------------------------
(* Memory for two netdevs, on a switch of one port that is split into       *)
(* 1 + 1 + 2 lanes, so that two ports share label 2; and one of four ports, *)
(* whose last label is one too large for the table.                         *)
EXTENDS NetdevEvents, TLC

CONSTANTS n1, n2

MCLayouts ==
    LET Port(first, count) == [first |-> first, count |-> count]
    IN  {<<Port(0, 1), Port(1, 1), Port(2, 2)>>, [i \in 1 .. 4 |-> Port(i - 1, 1)]}

=============================================================================
