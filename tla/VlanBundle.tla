----------------------------- MODULE VlanBundle -----------------------------
(***************************************************************************)
(* Bundles (OpenSwitch "ports") and the VLAN membership of the switch      *)
(* ports in them: __bundle_set and __bundle_remove of                      *)
(* sai-ofproto-provider.c with every function they call for VLANs.         *)
(*                                                                         *)
(* The provider is called from ovs-vswitchd's one main thread and never    *)
(* yields, so a callback is one action; where a SAI call may fail in the   *)
(* middle, each way out of the callback is a disjunct of its own.          *)
(*                                                                         *)
(*   cfg[b]       committed settings of bundle b, NoCfg if it is not in    *)
(*                ofproto->bundles (bundle->vlan, vlan_mode, trunks)       *)
(*   bundleOf[p]  port->bundle; PortsOf(b) is the list bundle->ports       *)
(*   hw[p]        the port's VLAN state in the ASIC                        *)
(*   faulted      history variable: ports a SAI call failed for, or whose  *)
(*                bundle gave up reconfiguring because of such a failure   *)
(*                                                                         *)
(* Ports are "system" ports: an internal interface gets no VLAN calls from *)
(* port_add/port_del.  L3 state of a bundle is in other modules.           *)
(***************************************************************************)
EXTENDS VlanPort

CONSTANTS Ports, Bundles,
          Settings,     \* the settings the bridge may pass
          Fallible,     \* the ports for which a SAI call may fail
          NoBundle, NoCfg

NoVlan == -1            \* s->vlan when a port has no tag

\* The settings the bridge code derives from the database: an access port has
\* a tag and no trunks, a trunk port no tag, a native port has a tag.
CoherentSettings ==
         [mode : {"access"}, vlan : Vids, trunks : {{}}]
    \cup [mode : {"trunk"}, vlan : {NoVlan}, trunks : SUBSET Vids]
    \cup [mode : {"native_untagged", "native_tagged"}, vlan : Vids,
          trunks : SUBSET Vids]

ASSUME SettingsAssumption ==
    /\ Settings \subseteq CoherentSettings /\ NoCfg \notin CoherentSettings
    /\ Fallible \subseteq Ports
    /\ NoBundle \notin Bundles

VARIABLES cfg, bundleOf, hw, faulted
vars == <<cfg, bundleOf, hw, faulted>>

Created == {b \in Bundles : cfg[b] # NoCfg}
PortsOf(b) == {p \in Ports : bundleOf[p] = b}

-----------------------------------------------------------------------------
(* __ofbundle_port_add and __ofbundle_port_del on the ASIC.                *)

PortAdd(h, c) ==
    TrunksPortAdd(IF c.vlan = NoVlan THEN h ELSE AccessPortAdd(h, c.vlan),
                  c.trunks)
PortAddFails(h, c) ==
    IF c.vlan = NoVlan THEN TrunksPortAddFails(h, c.trunks)
    ELSE AccessPortAddFails(h, c.vlan)
            \cup TrunksPortAddFails(AccessPortAdd(h, c.vlan), c.trunks)

PortDel(h, c) ==
    TrunksPortDel(IF c.vlan = NoVlan THEN h ELSE AccessPortDel(h, c.vlan),
                  c.trunks)
PortDelFails(h, c) ==
    IF c.vlan = NoVlan THEN TrunksPortDelFails(h, c.trunks)
    ELSE AccessPortDelFails(h, c.vlan)
            \cup TrunksPortDelFails(AccessPortDel(h, c.vlan), c.trunks)

-----------------------------------------------------------------------------
(* __vlan_reconfigure: from the committed settings c to the new settings s *)

Native(c) == c.mode \in {"native_untagged", "native_tagged"}
NativeVid(c) == IF Native(c) THEN {c.vlan} ELSE {}

\* tag_changed || mod_changed; the mutant forgets the mode.
TagChanged(c, s) == c.vlan # s.vlan
VlanChanged(c, s) == c.vlan # s.vlan \/ c.mode # s.mode

\* Bitmaps of trunks to remove and to add.  The native VLAN is never handled
\* as a trunk; an old native VLAN that is now a plain trunk is added back.
RemovedTrunks(c, s) == (c.trunks \ s.trunks) \ NativeVid(c)

AddedTrunksNoBack(c, s) == (s.trunks \ c.trunks) \ NativeVid(s)
AddedTrunksNoNative(c, s) ==
    (s.trunks \ c.trunks) \cup (NativeVid(c) \cap s.trunks)
AddedTrunks(c, s) ==
    ((s.trunks \ c.trunks) \cup (NativeVid(c) \cap s.trunks)) \ NativeVid(s)

LeaveVlan(h, c, s) ==
    CASE c.mode = "trunk" \/ ~VlanChanged(c, s) -> h
      [] c.mode = "native_tagged" /\ VlanChanged(c, s)
            -> NativeTaggedUnset(h, c.vlan)
      [] OTHER -> AccessPortDel(h, c.vlan)
LeaveVlanFails(h, c, s) ==
    CASE c.mode = "trunk" \/ ~VlanChanged(c, s) -> {}
      [] c.mode = "native_tagged" /\ VlanChanged(c, s)
            -> NativeTaggedUnsetFails(h, c.vlan)
      [] OTHER -> AccessPortDelFails(h, c.vlan)

\* "Remove all ports from deleted vlans", for one port.
DeletePhase(h, c, s) ==
    IF c.mode = "access" THEN LeaveVlan(h, c, s)
    ELSE TrunksPortDel(LeaveVlan(h, c, s), RemovedTrunks(c, s))
DeletePhaseFails(h, c, s) ==
    LeaveVlanFails(h, c, s)
    \cup IF c.mode = "access" THEN {}
         ELSE TrunksPortDelFails(LeaveVlan(h, c, s), RemovedTrunks(c, s))

JoinVlan(h, c, s) ==
    CASE s.mode = "trunk" \/ ~VlanChanged(c, s) -> h
      [] s.mode = "native_tagged" /\ VlanChanged(c, s)
            -> NativeTaggedSet(h, s.vlan)
      [] OTHER -> AccessPortAdd(h, s.vlan)
JoinVlanFails(h, c, s) ==
    CASE s.mode = "trunk" \/ ~VlanChanged(c, s) -> {}
      [] s.mode = "native_tagged" /\ VlanChanged(c, s)
            -> NativeTaggedSetFails(h, s.vlan)
      [] OTHER -> AccessPortAddFails(h, s.vlan)

\* "Add all ports to new vlans", for one port.
AddPhase(h, c, s) ==
    IF s.mode = "access" THEN JoinVlan(h, c, s)
    ELSE TrunksPortAdd(JoinVlan(h, c, s), AddedTrunks(c, s))
AddPhaseFails(h, c, s) ==
    JoinVlanFails(h, c, s)
    \cup IF s.mode = "access" THEN {}
         ELSE TrunksPortAddFails(JoinVlan(h, c, s), AddedTrunks(c, s))

Reconfigured(h, c, s) == AddPhase(DeletePhase(h, c, s), c, s)

-----------------------------------------------------------------------------
Init ==
    /\ cfg = [b \in Bundles |-> NoCfg]
    /\ bundleOf = [p \in Ports |-> NoBundle]
    /\ hw = [p \in Ports |-> CleanPort]
    /\ faulted = {}

\* A port is taken off its bundle's list even if its VLANs could not be
\* removed.  Destroying a bundle and moving a port only log the error and go
\* on: lost maps each port of S that failed to the state it was left in.
Losses(S) ==
    UNION {{f \in [L -> UNION {PortDelFails(hw[p], cfg[bundleOf[p]]) : p \in L}] :
                \A p \in L : f[p] \in PortDelFails(hw[p], cfg[bundleOf[p]])} :
           L \in SUBSET (S \cap Fallible)}
Removed(p, lost) ==
    IF p \in DOMAIN lost THEN lost[p] ELSE PortDel(hw[p], cfg[bundleOf[p]])

\* __bundle_remove destroys a bundle whose list it emptied by taking the
\* ports of S; the mutant forgets to look at the list.
EmptiedUnchecked(b, S) == PortsOf(b) \cap S # {}
Emptied(b, S) == PortsOf(b) # {} /\ PortsOf(b) \subseteq S

\* bundle_set(aux, NULL): __ofbundle_destroy.
BundleUnset(b) ==
    /\ b \in Created
    /\ \E lost \in Losses(PortsOf(b)) :
        /\ hw' = [p \in Ports |->
                    IF bundleOf[p] = b THEN Removed(p, lost) ELSE hw[p]]
        /\ faulted' = faulted \cup DOMAIN lost
    /\ bundleOf' = [p \in Ports |->
                    IF bundleOf[p] = b THEN NoBundle ELSE bundleOf[p]]
    /\ cfg' = [cfg EXCEPT ![b] = NoCfg]

\* bundle_remove(port).
BundleRemove(p) ==
    /\ bundleOf[p] # NoBundle
    /\ \E lost \in Losses({p}) :
        /\ hw' = [hw EXCEPT ![p] = Removed(p, lost)]
        /\ faulted' = faulted \cup DOMAIN lost
    /\ bundleOf' = [bundleOf EXCEPT ![p] = NoBundle]
    /\ cfg' = [b \in Bundles |-> IF Emptied(b, {p}) THEN NoCfg ELSE cfg[b]]

-----------------------------------------------------------------------------
(* bundle_set(aux, s) with slaves S: release the ports no longer listed,   *)
(* move the others to the new VLANs, commit the settings, add the new      *)
(* ports.  A bundle that does not exist yet is created first; it has no    *)
(* ports, so only the last two steps do anything.  The order of the ports  *)
(* within a loop is the order of a list or of s->slaves; here any order.   *)

Leaving(b, S) == PortsOf(b) \ S
Staying(b, S) == PortsOf(b) \cap S
Joining(b, S) == S \ PortsOf(b)

\* The release loop stops at x: settings not committed, later ports not
\* looked at.
SetFailsReleasing(b, S) ==
    \E x \in Leaving(b, S) \cap Fallible :
    \E D \in SUBSET (Leaving(b, S) \ {x}), g \in PortDelFails(hw[x], cfg[b]) :
        /\ hw' = [p \in Ports |-> CASE p \in D -> PortDel(hw[p], cfg[b])
                                    [] p = x   -> g
                                    [] OTHER   -> hw[p]]
        /\ bundleOf' = [p \in Ports |->
                            IF p \in D \cup {x} THEN NoBundle ELSE bundleOf[p]]
        /\ faulted' = faulted \cup {x}
        /\ UNCHANGED cfg

\* __vlan_reconfigure stops at x, in the loop that deletes (the ports of D
\* are done, the rest untouched) or in the loop that adds (all are deleted,
\* those of D also added).  Settings not committed.
SetFailsReconfiguring(b, s, S) ==
    \E x \in Staying(b, S) \cap Fallible :
    \E D \in SUBSET (Staying(b, S) \ {x}) :
        /\ \/ \E g \in DeletePhaseFails(hw[x], cfg[b], s) :
                hw' = [p \in Ports |->
                        CASE p \in Leaving(b, S) -> PortDel(hw[p], cfg[b])
                          [] p \in D -> DeletePhase(hw[p], cfg[b], s)
                          [] p = x   -> g
                          [] OTHER   -> hw[p]]
           \/ \E g \in AddPhaseFails(DeletePhase(hw[x], cfg[b], s), cfg[b], s) :
                hw' = [p \in Ports |->
                        CASE p \in Leaving(b, S) -> PortDel(hw[p], cfg[b])
                          [] p \in D -> Reconfigured(hw[p], cfg[b], s)
                          [] p = x   -> g
                          [] p \in Staying(b, S) \ (D \cup {x})
                                     -> DeletePhase(hw[p], cfg[b], s)
                          [] OTHER   -> hw[p]]
        /\ bundleOf' = [p \in Ports |->
                            IF p \in Leaving(b, S) THEN NoBundle ELSE bundleOf[p]]
        /\ faulted' = faulted \cup Staying(b, S)
        /\ UNCHANGED cfg

\* A port about to be added: taken out of another bundle first, if it has one.
Detached(p, lost) == IF bundleOf[p] = NoBundle THEN hw[p] ELSE Removed(p, lost)
Owned(S) == {p \in S : bundleOf[p] # NoBundle}

\* Settings are committed and the ports of J were put on the list; broken
\* maps the port the loop stopped at, if any, to the state it was left in.
SetCommits(b, s, S, J, lost, broken) ==
    /\ hw' = [p \in Ports |->
                CASE p \in Leaving(b, S)  -> PortDel(hw[p], cfg[b])
                  [] p \in Staying(b, S)  -> Reconfigured(hw[p], cfg[b], s)
                  [] p \in DOMAIN broken  -> broken[p]
                  [] p \in J \ DOMAIN broken -> PortAdd(Detached(p, lost), s)
                  [] OTHER                -> hw[p]]
    /\ bundleOf' = [p \in Ports |-> CASE p \in J -> b
                                      [] p \in Leaving(b, S) -> NoBundle
                                      [] OTHER -> bundleOf[p]]
    /\ faulted' = faulted \cup DOMAIN lost \cup DOMAIN broken
    /\ cfg' = [a \in Bundles |-> CASE a = b -> s
                                   [] a # b /\ Emptied(a, J) -> NoCfg
                                   [] OTHER -> cfg[a]]

SetFailsAdding(b, s, S) ==
    \E x \in Joining(b, S) \cap Fallible :
    \E J \in {D \cup {x} : D \in SUBSET (Joining(b, S) \ {x})} :
    \E lost \in Losses(Owned(J)) :
    \E g \in PortAddFails(Detached(x, lost), s) :
        SetCommits(b, s, S, J, lost, [p \in {x} |-> g])

SetCompletes(b, s, S) ==
    \E lost \in Losses(Owned(Joining(b, S))) :
        SetCommits(b, s, S, Joining(b, S), lost, [p \in {} |-> hw[p]])

Next ==
    \/ \E b \in Bundles : BundleUnset(b)
    \/ \E p \in Ports : BundleRemove(p)
    \/ \E b \in Bundles, S \in SUBSET Ports : SetFailsReleasing(b, S)
    \/ \E b \in Bundles, s \in Settings, S \in SUBSET Ports :
        \/ SetFailsReconfiguring(b, s, S)
        \/ SetFailsAdding(b, s, S)
        \/ SetCompletes(b, s, S)

Spec == Init /\ [][Next]_vars

-----------------------------------------------------------------------------
TypeOK ==
    /\ cfg \in [Bundles -> Settings \cup {NoCfg}]
    /\ bundleOf \in [Ports -> Bundles \cup {NoBundle}]
    /\ hw \in [Ports -> HwPort]
    /\ faulted \subseteq Ports

\* The VLANs a port in a bundle with settings c has to be a member of.
Wanted(c) == (IF c.vlan = NoVlan THEN {} ELSE {c.vlan}) \cup c.trunks
WantedBy(p) == IF bundleOf[p] = NoBundle THEN {} ELSE Wanted(cfg[bundleOf[p]])

\* Whatever sequence of settings, moves between bundles and removals a port
\* went through, if no SAI call failed on the way it is a member of exactly
\* the VLANs its bundle's committed settings name, and of none without a
\* bundle: the incremental bitmaps of __vlan_reconfigure never lose or leak
\* a VLAN.
MembershipMatchesConfig ==
    \A p \in Ports \ faulted : Members(hw[p]) = WantedBy(p)

\* A port never points at a bundle that was destroyed, also when its removal
\* failed: every exit of __ofbundle_port_del takes it off the list.
NoDanglingBundle == \A p \in Ports : bundleOf[p] \in Created \cup {NoBundle}

\* On an access port the VLAN is untagged and is the PVID, in whatever mode
\* and with whatever PVID the port was before.
AccessPortsUntagged ==
    \A p \in Ports \ faulted :
        (bundleOf[p] # NoBundle /\ cfg[bundleOf[p]].mode = "access")
            => /\ hw[p].tag[cfg[bundleOf[p]].vlan] = "untagged"
               /\ hw[p].pvid = cfg[bundleOf[p]].vlan

\* A VLAN of the trunks is tagged, unless it is the tag of the bundle as well,
\* also one that was an access or a native VLAN of the port before.
TrunksTagged ==
    \A p \in Ports \ faulted :
        bundleOf[p] # NoBundle =>
            \A v \in cfg[bundleOf[p]].trunks \ {cfg[bundleOf[p]].vlan} :
                hw[p].tag[v] = "tagged"

\* Not only the memberships of a port but also its tagging follows from the
\* settings alone and not from the way it came to them; only the tagging of a
\* native VLAN does not (see NativeVlanTakesPriority).
TaggingMatchesConfig == AccessPortsUntagged /\ TrunksTagged

\* Setting a bundle disturbs no port whose own settings stay the same: not a
\* port of another bundle, not the ports of the bundle when it is set again
\* to what it has (no tagging or PVID change on the way).
OnlyReconfiguredPortsChange ==
    [][\A p \in Ports \ faulted' :
        (/\ bundleOf'[p] = bundleOf[p]
         /\ bundleOf[p] # NoBundle => cfg'[bundleOf[p]] = cfg[bundleOf[p]])
            => hw'[p] = hw[p]]_vars

\* __vlan_reconfigure: "Native vlan resembles trunks behavior, but takes
\* higher priority": a native VLAN that is also a trunk keeps the tagging of
\* the native mode.  The code breaks this in __ofbundle_port_add.
NativeVlanTakesPriority ==
    \A p \in Ports \ faulted :
        (bundleOf[p] # NoBundle /\ Native(cfg[bundleOf[p]]))
            => hw[p].tag[cfg[bundleOf[p]].vlan] =
                    IF cfg[bundleOf[p]].mode = "native_tagged" THEN "tagged"
                    ELSE "untagged"

=============================================================================
