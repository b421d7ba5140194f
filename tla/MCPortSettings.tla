--------------------------- MODULE MCPortSettings ---------------------------
(* The settings of ports: PortConfig with two speeds, two MTUs, pause on or *)
(* off and requests that name every attribute, some, or none; EcmpHash with *)
(* three ports, two of which can fail, and one bit that is not supported.   *)
(*                                                                         *)
(* The two have no state in common: in each behaviour one of them, the     *)
(* part, takes all the steps, which shows every state of either.           *)
EXTENDS PortConfig, EcmpHash, TLC

CONSTANTS u1

MCPowerOn ==
    [autoneg |-> FALSE, speed |-> 10, mtu |-> 15, pause |-> "disable",
     enable |-> FALSE]

MCRequests ==
    {[speed |-> 10, mtu |-> 15, autoneg |-> TRUE, pause |-> "rx_only",
      enable |-> TRUE],
     [speed |-> 40, enable |-> TRUE],
     [mtu |-> 90, speed |-> 40, enable |-> FALSE],
     [autoneg |-> FALSE, speed |-> 10],
     [enable |-> FALSE]}

MCHashRequests ==
    {{"SRCIP"}, {"DSTIP", u1}, {"SRCPORT"}, {"DSTPORT"}, SupportedHashFields}

VARIABLE part

MCInit == Init /\ HashInit /\ part \in {"config", "hash"}

MCNext ==
    \/ part = "config" /\ Next /\ UNCHANGED <<hashVars, part>>
    \/ part = "hash" /\ HashNext /\ UNCHANGED <<vars, part>>

MCSpec == MCInit /\ [][MCNext]_<<vars, hashVars, part>>

=============================================================================
