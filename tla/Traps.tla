------------------------------- MODULE Traps -------------------------------
(***************************************************************************)
(* Trap groups and policers: the traps of sai-host-intf.c, which Mellanox  *)
(* extends by those that SAI does not know (sai-vendor-host-intf.c).       *)
(*                                                                         *)
(* The state h of the switch, as far as it concerns traps:                 *)
(*   h.policer   the policers there are: their rates by id                 *)
(*   h.group     trap groups by id: their policer, or None                 *)
(*   h.sai       the groups that SAI made (g_sai_db_ptr->trap_group_valid) *)
(*   h.trap      traps that are set: group, channel and action             *)
(*   h.entries   sai_trap_group_list                                       *)
(*   h.vendor    mlnx_trap_group_list                                      *)
(*                                                                         *)
(* An error anywhere aborts the daemon, and the switch is initialized anew *)
(* at the next start: what it is left with is nobody's concern.  SAI gives *)
(* out the first group that is free.  A rate is packets per second; the    *)
(* priority of a group is left out.                                        *)
(***************************************************************************)
EXTENDS Integers, Sequences, FiniteSets, Functions

CONSTANTS GroupsMax,   \* MAX_TRAP_GROUPS
          SaiGroups,   \* groups that SAI has at boot, the first ones
          None

ASSUME TrapsAssumption ==
    /\ GroupsMax \in Nat
    /\ \E k \in 0 .. GroupsMax : SaiGroups = 0 .. k - 1

GroupIds == 0 .. GroupsMax - 1

Config(traps, rate, log, l3) == [traps |-> traps, rate |-> rate, log |-> log, l3 |-> l3]

\* trap_group_config_table
SaiConfig ==
    <<Config({"ARP_REQUEST", "ARP_RESPONSE", "IPV6_NEIGHBOR_DISCOVERY"}, 1000, TRUE, TRUE),
      Config({"DHCP"}, 1000, TRUE, TRUE),
      Config({"DHCPV6"}, 1000, TRUE, TRUE),
      Config({"LACP"}, 1000, FALSE, FALSE),
      Config({"LLDP"}, 1000, FALSE, FALSE),
      Config({"OSPF", "OSPFV6"}, 5000, FALSE, TRUE),
      Config({"SAMPLEPACKET"}, 2000, FALSE, TRUE),
      Config({"STP"}, 1000, FALSE, FALSE)>>

\* mlnx_trap_group_config, whose rates are in 10^3 units; UC_IP are the four
\* traps from SX_TRAP_ID_L3_UC_IP_BASE on.
VendorConfig ==
    <<Config({"IP2ME"}, 5000, FALSE, TRUE),
      Config({"UC_IP", "HOST_MISS_IPV4", "HOST_MISS_IPV6"}, 3000, FALSE, TRUE)>>

\* Every config of both tables.
Configs == Range(SaiConfig) \cup Range(VendorConfig)

Least(free) == CHOOSE i \in free : \A j \in free : i <= j

NoTraps ==
    [policer |-> <<>>, group |-> [g \in GroupIds |-> None], sai |-> SaiGroups,
     trap |-> [t \in {} |-> None], entries |-> <<>>, vendor |-> <<>>]

-----------------------------------------------------------------------------
\* __traps_bind and __mlnx_traps_bind: the action and the channel of a trap are
\* set first, its group at the end.
TrapsBind(h, c, g) ==
    [t \in DOMAIN h.trap \cup c.traps |->
        IF t \in c.traps
        THEN [group |-> g,
              channel |-> IF c.l3 THEN "L3_NETDEV" ELSE "L2_NETDEV",
              action |-> IF c.log THEN "LOG" ELSE "TRAP"]
        ELSE h.trap[t]]

\* A new policer and group g with it, for config c.
GroupSet(h, c, g) ==
    [h EXCEPT !.policer = Append(@, c.rate),
              !.group[g] = Len(h.policer) + 1,
              !.trap = TrapsBind(h, c, g)]

\* One turn of the loop of the generic traps_register.
RegisterSai(h, c) ==
    LET g == Least(GroupIds \ h.sai)
    IN  [GroupSet(h, c, g) EXCEPT !.sai = @ \cup {g}, !.entries = Append(@, g)]

\* The group that the Mellanox class starts from: the first that SAI has not
\* taken.
FreeGroup(h) == Least(GroupIds \ h.sai)

\* One turn of the loop of the Mellanox traps_register: group_id is counted up
\* from there, over groups that nobody has looked at; the mutant forgets to.
VendorGroupSame(first, i) == first
VendorGroup(first, i) == first + i - 1
RegisterVendor(h, i) ==
    LET g == VendorGroup(FreeGroup(h), i)
    IN  [GroupSet(h, VendorConfig[i], g) EXCEPT !.vendor = Append(@, g)]

\* There is a group for every config, or else an assertion fails (SAI itself
\* fails when it has no group left).
RoomForTraps == Cardinality(SaiGroups) + Len(SaiConfig) + Len(VendorConfig) <= GroupsMax

\* Turns are left of the loops of both __host_intf_traps_register.
TrapsMissing(h) == Len(h.entries) < Len(SaiConfig) \/ Len(h.vendor) < Len(VendorConfig)

\* The next turn: the Mellanox class calls the generic one first.
TrapsTurn(h) ==
    IF Len(h.entries) < Len(SaiConfig)
    THEN RegisterSai(h, SaiConfig[Len(h.entries) + 1])
    ELSE RegisterVendor(h, Len(h.vendor) + 1)

-----------------------------------------------------------------------------
\* Whether the generic traps_unregister goes on after ops_sai_policer_remove.  It
\* takes the answer the wrong way round (sai-policer.c:71: "@return 0 on success"):
\* it aborts when the policer was removed, and goes on when it was NOT.
GoesOn(removed) == ~removed

\* Both traps_unregister, if they come to their end, one after the other.  Only
\* the traps of the Mellanox class are taken off, and its entries are freed but
\* stay in their list.
TrapsUnregistered(h) ==
    LET saiGroups == Range(h.entries)
        vendorGroups == Range(h.vendor)
        endings == {R \in SUBSET saiGroups : \A g \in saiGroups : GoesOn(g \in R)}
        vendorTraps == UNION {c.traps : c \in Range(VendorConfig)}
        gone(R) == {h.group[g] : g \in R \cup vendorGroups}
    IN  {[policer |-> Restrict(h.policer, DOMAIN h.policer \ gone(R)),
          group |-> [g \in GroupIds |->
                        IF g \in saiGroups \cup vendorGroups THEN None ELSE h.group[g]],
          sai |-> h.sai \ saiGroups,
          trap |-> Restrict(h.trap, DOMAIN h.trap \ vendorTraps),
          entries |-> <<>>,
          vendor |-> h.vendor] : R \in endings}

=============================================================================
