---------------------------- MODULE MCVlanBundle ----------------------------
(* Two ports, two bundles, three VLANs; settings of all four modes, with   *)
(* the native VLAN in and out of the trunks and trunk sets that overlap.   *)
EXTENDS VlanBundle

MCVids == 1..3

Access(v) == [mode |-> "access", vlan |-> v, trunks |-> {}]
Trunk(T) == [mode |-> "trunk", vlan |-> NoVlan, trunks |-> T]
NativeUntagged(v, T) == [mode |-> "native_untagged", vlan |-> v, trunks |-> T]
NativeTagged(v, T) == [mode |-> "native_tagged", vlan |-> v, trunks |-> T]

MCSettings ==
    {Access(2), Trunk({2, 3}), NativeUntagged(2, {2, 3}),
     NativeTagged(3, {2}), NativeTagged(3, {})}

=============================================================================
