---------------------------- MODULE SwitchPorts ----------------------------
(***************************************************************************)
(* The ports of the switch and their label ids: __init_ports and           *)
(* __get_port_lable_id in sai-api-class.c.                                 *)
(*                                                                         *)
(* A layout is what SAI answers at start: the list of ports, each with its *)
(* first lane and its number of lanes.  The object id of a port is its     *)
(* place in the list; 0 is SAI_NULL_OBJECT_ID.  hw_id in the database, and *)
(* netdev->hw_id, are labels.                                              *)
(***************************************************************************)
EXTENDS Integers, Sequences, FiniteSetsExt

CONSTANT PortsMax  \* SAI_PORTS_MAX: the length of the table of labels

ASSUME PortsMaxAssumption == PortsMax \in Nat \ {0}

NoPort == 0
Lanes == [first : Nat, count : Nat \ {0}]
LabelIds == 0 .. PortsMax - 1

\* __get_port_lable_id.  The mutant numbers ports from zero.
PortLabelFromZero(l) == l.first \div l.count
PortLabel(l) == l.first \div l.count + 1

\* The loop of __init_ports ends well: no label is larger than the number of
\* ports.  (An error makes ops_sai_api_init abort.)
Accepted(layout) ==
    \A i \in DOMAIN layout : PortLabel(layout[i]) <= Len(layout)

\* A list longer than the table, or a label of PortsMax, which the loop lets
\* through when there are that many ports: SAI or the loop then writes behind the
\* end of a table.
Overflows(layout) ==
    \/ Len(layout) > PortsMax
    \/ \E i \in DOMAIN layout : PortLabel(layout[i]) >= PortsMax

\* sai_lable_id_to_oid_map after __init_ports: of two ports with one label the
\* later one stays.
OidMap(layout) ==
    [l \in LabelIds |->
        LET with == {i \in DOMAIN layout : PortLabel(layout[i]) = l}
        IN  IF with = {} THEN NoPort ELSE Max(with)]

=============================================================================
