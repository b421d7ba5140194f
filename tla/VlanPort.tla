------------------------------ MODULE VlanPort ------------------------------
(***************************************************************************)
(* What the VLAN calls of the plugin do to one switch port (sai-vlan.c and *)
(* the two static helpers of sai-ofproto-provider.c that sit on top).      *)
(*                                                                         *)
(* A port's VLAN state in the ASIC is its tagging per VLAN and its PVID.   *)
(* Every operation F comes as two definitions: F(h, ..) is the state after *)
(* all SAI calls of F succeeded on a port in state h, and FFails(h, ..) is *)
(* the set of states F may leave behind when one of its SAI calls fails    *)
(* (F returns at that call; what earlier calls did stays done).            *)
(*                                                                         *)
(* The SAI implementation itself is external.  Assumed of it: adding a     *)
(* member again overwrites its tagging, removing a port that is no member  *)
(* changes nothing, and a failing call changes nothing.                    *)
(***************************************************************************)
EXTENDS Integers, FiniteSetsExt

CONSTANT Vids                   \* the VLAN ids in use

\* The PVID a port starts with (OPS_SAI_PORT_DEFAULT_PVID).  The mutant is 0,
\* "no VLAN" in 802.1Q.
ZeroPvid == 0
DefaultPvid == 1

ASSUME VidsAssumption == Vids \subseteq 1..4094 /\ 1 \in Vids

Tags == {"none", "tagged", "untagged"}
HwPort == [tag : [Vids -> Tags], pvid : Vids]

\* The VLANs a port is a member of.
Members(h) == {v \in Vids : h.tag[v] # "none"}

\* A port no bundle has touched yet.
CleanPort == [tag |-> [v \in Vids |-> "none"], pvid |-> DefaultPvid]

-----------------------------------------------------------------------------
(* Access VLAN: untagged member, and the PVID follows.                     *)

AccessPortAdd(h, v) == [tag |-> [h.tag EXCEPT ![v] = "untagged"], pvid |-> v]
AccessPortAddFails(h, v) == {h, [h EXCEPT !.tag[v] = "untagged"]}

\* Removal sets the PVID twice: to v in __vlan_port_set, then to the default.
AccessPortDel(h, v) ==
    [tag |-> [h.tag EXCEPT ![v] = "none"], pvid |-> DefaultPvid]
AccessPortDelFails(h, v) ==
    LET gone == [h EXCEPT !.tag[v] = "none"]
    IN  {h, gone, [gone EXCEPT !.pvid = v]}

-----------------------------------------------------------------------------
(* Trunks: the bitmap is walked in ascending order.  Adding a tagged       *)
(* member leaves the PVID alone; removing one sets the PVID to the removed *)
(* VLAN, so the PVID ends at the last VLAN of the walk.                    *)

Below(T, x) == {v \in T : v < x}

TrunksPortAdd(h, T) ==
    [h EXCEPT !.tag = [v \in Vids |-> IF v \in T THEN "tagged" ELSE h.tag[v]]]
TrunksPortAddFails(h, T) == {TrunksPortAdd(h, Below(T, x)) : x \in T}

TrunksPortDel(h, T) ==
    [tag  |-> [v \in Vids |-> IF v \in T THEN "none" ELSE h.tag[v]],
     pvid |-> IF T = {} THEN h.pvid ELSE Max(T)]
\* The call at x fails: the removal itself, or the PVID write after it.
TrunksPortDelFails(h, T) ==
    UNION {LET g == TrunksPortDel(h, Below(T, x))
           IN  {g, [g EXCEPT !.tag[x] = "none"]} : x \in T}

-----------------------------------------------------------------------------
(* Native tagged VLAN: a one-VLAN trunk and an explicit PVID write.        *)

NativeTaggedSet(h, v) == [TrunksPortAdd(h, {v}) EXCEPT !.pvid = v]
NativeTaggedSetFails(h, v) == {h, TrunksPortAdd(h, {v})}

NativeTaggedUnset(h, v) == [TrunksPortDel(h, {v}) EXCEPT !.pvid = DefaultPvid]
NativeTaggedUnsetFails(h, v) ==
    TrunksPortDelFails(h, {v}) \cup {TrunksPortDel(h, {v})}

=============================================================================
