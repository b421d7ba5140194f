----------------------------- MODULE RouterIntf -----------------------------
(***************************************************************************)
(* Router interfaces (RIFs) of the bundles of one virtual router: the L3   *)
(* part of bundle_set, bundle_remove and l3_route_action in                *)
(* sai-ofproto-provider.c, on top of the Mellanox router interface class   *)
(* (vendor/mlnx/sai-vendor-router-intf.c).                                 *)
(*                                                                         *)
(* Provider callbacks run one at a time in ovs-vswitchd's main thread; one *)
(* action is one callback.  Everything a callback changes is in the record *)
(* sw, so that the functions it is built from can be operators from a      *)
(* state to its outcomes (see Outcomes):                                   *)
(*                                                                         *)
(*   sw.bundle[b]    struct ofbundle_sai, or None: router_intf (rif, data, *)
(*                   enabled, loopback) and routes, how many times each    *)
(*                   prefix is in local_routes                             *)
(*   sw.bundleOf[p]  port->bundle; PortsOf is the list bundle->ports       *)
(*   sw.ptr[p]       netdev->rif_handle, a pointer into a bundle           *)
(*   sw.entry[i]     all_router_intf: rif i, the state of its counter      *)
(*   sw.rif[i]       rif i in the ASIC                                     *)
(*   sw.route[x]     the ASIC's local route for prefix x: its egress rif   *)
(*   sw.aborted      an ovs_assert failed: the daemon is gone              *)
(*                                                                         *)
(* The SDK is external.  Assumed of it: ids of live rifs are distinct; a   *)
(* second rif for the same port or VLAN is refused; a counter that is not  *)
(* bound cannot be unbound, one that is gone cannot be destroyed; removing *)
(* a route that is not there fails; adding one that is there may fail or   *)
(* overwrite; a failing call changes nothing.                              *)
(***************************************************************************)
EXTENDS Integers, Sequences, Outcomes

CONSTANTS Bundles, Ports, Prefixes, RifIds,
          Kind,      \* netdev_get_type of a port
          HwId,      \* netdev->hw_id of a port, its label id
          Settings,  \* the settings the bridge may pass: slaves, vlan, enable
          SdkFails,  \* whether SDK calls may fail for no reason of ours
          MaxCopies, \* bound: copies of a prefix in local_routes
          None, Freed

Kinds == {"system", "internal", "loopback", "vlansubint"}
CounterStates == {"bound", "unbound", "destroyed"}
RifTypes == {"port", "vlan"}

Bundle == [rif : RifIds \cup {None}, data : Int, enabled : BOOLEAN,
           loopback : BOOLEAN, routes : [Prefixes -> Nat]]
Entry == [type : RifTypes, data : Int, counter : CounterStates]
Rif == [type : RifTypes, data : Int, enabled : BOOLEAN]

ASSUME RifAssumption ==
    /\ Kind \in [Ports -> Kinds]
    /\ HwId \in [Ports -> Nat]
    /\ \A p, q \in Ports :
          Kind[p] = "system" /\ Kind[q] = "system" /\ HwId[p] = HwId[q] => p = q
    /\ Settings \subseteq [slaves : Seq(Ports), vlan : Int, enable : BOOLEAN]
    /\ \A s \in Settings : Len(s.slaves) \in 1..2
    /\ SdkFails \in BOOLEAN
    /\ MaxCopies \in Nat
    /\ None \notin Bundles \cup RifIds \cup {Freed} /\ Freed \notin Bundles
    /\ None \notin Bundle \cup Entry \cup Rif

VARIABLE sw

Slaves(s) == {s.slaves[i] : i \in DOMAIN s.slaves}
PortsOf(st, b) == {p \in Ports : st.bundleOf[p] = b}
May(S) == IF SdkFails THEN S ELSE {}

NewBundle == [rif |-> None, data |-> 0, enabled |-> FALSE, loopback |-> FALSE,
              routes |-> [x \in Prefixes |-> 0]]

-----------------------------------------------------------------------------
(* The vendor class.                                                       *)

\* all_router_intf.
EntryAdd(st, i, type, data) ==
    [st EXCEPT !.entry[i] = [type |-> type, data |-> data, counter |-> "bound"]]
EntryDel(st, i) == [st EXCEPT !.entry[i] = None]

\* __router_intf_create.  A rif whose creation failed half way is in nobody's
\* hands, and so is its counter.
VendorCreate(st, b, type, data) ==
    LET free == {i \in RifIds : st.rif[i] = None /\ st.entry[i] = None}
        taken == \E i \in RifIds : /\ st.rif[i] # None
                                   /\ st.rif[i].type = type
                                   /\ st.rif[i].data = data
        Made(i) == [st EXCEPT !.rif[i] =
                        [type |-> type, data |-> data, enabled |-> FALSE]]
        Owned(i) == [EntryAdd(Made(i), i, type, data) EXCEPT !.bundle[b].rif = i]
    IN  IF taken \/ free = {} THEN {Failed(st)}
        ELSE UNION {{Done(Owned(i))} \cup May({Failed(st), Failed(Made(i))}) :
                        i \in free}

\* __router_intf_remove: unbind the counter, destroy it, read the rif, delete
\* it.  What was done before the failing call is not undone.  The mutant takes
\* the entry out of all_router_intf first.
VendorRemoveEager(st, i) ==
    {Done([EntryDel(st, i) EXCEPT !.rif[i] = None])}
    \cup May({Failed(EntryDel(st, i))})
VendorRemove(st, i) ==
    LET c == st.entry[i].counter
        With(state) == [st EXCEPT !.entry[i].counter = state]
    IN  IF c # "bound" THEN {Failed(st)}
        ELSE {Done([EntryDel(st, i) EXCEPT !.rif[i] = None])}
             \cup May({Failed(st), Failed(With("unbound")),
                       Failed(With("destroyed"))})

\* __router_intf_set_state.
VendorSetState(st, i, up) ==
    {Done([st EXCEPT !.rif[i].enabled = up])} \cup May({Failed(st)})

\* __route_local_add and __route_remove.
RouteLocalAdd(st, x, i) ==
    {Done([st EXCEPT !.route[x] = i])}
    \cup IF SdkFails \/ st.route[x] # None THEN {Failed(st)} ELSE {}

RouteRemove(st, x) ==
    IF st.route[x] = None THEN {Failed(st)}
    ELSE {Done([st EXCEPT !.route[x] = None])} \cup May({Failed(st)})

-----------------------------------------------------------------------------
(* L3 configuration of one bundle.                                         *)

\* The loop over local_routes at the head of __ofbundle_router_intf_remove,
\* in any order, stops at the first route that cannot be removed; D are the
\* routes removed before that.
LocalRoutesRemove(st, b) ==
    LET copies == st.bundle[b].routes
        tracked == {x \in Prefixes : copies[x] > 0}
        present == {x \in tracked : st.route[x] # None}
        After(D) ==
            [st EXCEPT !.route = [x \in Prefixes |->
                                    IF x \in D THEN None ELSE st.route[x]],
                       !.bundle[b].routes = [x \in Prefixes |->
                                    copies[x] - IF x \in D THEN 1 ELSE 0]]
        left(D) == {x \in tracked : x \notin D \/ copies[x] > 1}
    IN  {Done(After(D)) : D \in {E \in {tracked} : E = present /\ left(E) = {}}}
        \cup {Failed(After(D)) : D \in {E \in SUBSET present :
                \E x \in left(E) : SdkFails \/ x \in E \/ x \notin present}}

\* __ofbundle_router_intf_remove; the mutant leaves the routes to the SDK.
DetachPorts(st, b) ==
    [st EXCEPT !.ptr = [p \in Ports |->
                            IF st.bundleOf[p] = b THEN None ELSE st.ptr[p]]]
RifDelete(st, b) ==
    Then(VendorRemove(DetachPorts(st, b), st.bundle[b].rif),
         LAMBDA t : {Done([t EXCEPT !.bundle[b] = NewBundle])})
RouterIntfRemoveOnly(st, b) ==
    IF st.bundle[b].rif = None THEN {Done(st)} ELSE RifDelete(st, b)
RouterIntfRemove(st, b) ==
    Then(LocalRoutesRemove(st, b),
         LAMBDA t : IF t.bundle[b].rif = None THEN {Done(t)} ELSE RifDelete(t, b))

\* The three parts of __ofbundle_router_intf_reconfigure: drop a rif made for
\* another port or VLAN, create the rif, bring it to the admin state wanted.  The
\* mutants drop any rif, keep a port's old pointer, do not see a failure.
RifType(p) == IF Kind[p] = "internal" THEN "vlan" ELSE "port"
RifData(p, s) == IF Kind[p] = "internal" THEN s.vlan ELSE HwId[p]

DropAlways(st, b, data) ==
    IF st.bundle[b].rif # None THEN RouterIntfRemove(st, b) ELSE {Done(st)}
DropOther(st, b, data) ==
    IF st.bundle[b].rif # None /\ st.bundle[b].data # data
    THEN RouterIntfRemove(st, b) ELSE {Done(st)}

AttachOnce(st, b, data) ==
    [st EXCEPT !.bundle[b].data = data, !.bundle[b].enabled = FALSE,
               !.ptr = [p \in Ports |-> IF st.bundleOf[p] = b /\ st.ptr[p] = None
                                        THEN b ELSE st.ptr[p]]]
Attach(st, b, data) ==
    [st EXCEPT !.bundle[b].data = data, !.bundle[b].enabled = FALSE,
               !.ptr = [p \in Ports |->
                            IF st.bundleOf[p] = b THEN b ELSE st.ptr[p]]]
Ensure(st, b, type, data) ==
    IF st.bundle[b].rif # None THEN {Done(st)}
    ELSE Then(VendorCreate(st, b, type, data),
              LAMBDA t : {Done(Attach(t, b, data))})

EnableUnchecked(st, b, up) ==
    Regardless(VendorSetState(st, st.bundle[b].rif, up),
               LAMBDA t : {Done([t EXCEPT !.bundle[b].enabled = up])})
Enable(st, b, up) ==
    IF st.bundle[b].enabled = up THEN {Done(st)}
    ELSE Then(VendorSetState(st, st.bundle[b].rif, up),
              LAMBDA t : {Done([t EXCEPT !.bundle[b].enabled = up])})

RouterIntfReconfigure(st, b, s) ==
    LET p == s.slaves[1]
    IN  CASE Kind[p] = "loopback" ->
                {Done([st EXCEPT !.bundle[b].loopback = TRUE])}
          [] Kind[p] = "vlansubint" -> {Done(st)}
          [] OTHER ->
                Then(DropOther(st, b, RifData(p, s)),
                     LAMBDA t : Then(Ensure(t, b, RifType(p), RifData(p, s)),
                                     LAMBDA u : Enable(u, b, s.enable)))

-----------------------------------------------------------------------------
(* Bundles and their ports.  The VLAN calls of port_add and port_del are   *)
(* in VlanBundle; a routed port has no VLANs, so they do nothing here.     *)

\* __get_stats of a netdev follows netdev->rif_handle to the rif to ask for.
StatsOf(st, p) ==
    CASE st.ptr[p] \in Bundles -> st.bundle[st.ptr[p]].rif
      [] OTHER                 -> st.ptr[p]

Release(st, S) ==
    [st EXCEPT !.bundleOf = [p \in Ports |->
                                IF p \in S THEN None ELSE st.bundleOf[p]]]

\* __ofbundle_destroy: failures are logged, the bundle is freed in any case.
Destroy(st, b) ==
    Regardless(RouterIntfRemove(st, b),
        LAMBDA t : {Done([Release(t, PortsOf(t, b)) EXCEPT
            !.bundle[b] = None,
            !.ptr = [p \in Ports |-> IF t.ptr[p] = b THEN Freed ELSE t.ptr[p]]])})

\* __bundle_remove.
Remove(st, p) ==
    LET b == st.bundleOf[p]
        t == Release(st, {p})
    IN  IF b # None /\ PortsOf(t, b) = {} THEN Destroy(t, b) ELSE {Done(t)}

\* __ofbundle_port_add, for a port not yet on the list.
Join(st, b, p) ==
    IF st.bundleOf[p] = b THEN {Done(st)}
    ELSE Regardless(Remove(st, p), LAMBDA t : {Done([t EXCEPT !.bundleOf[p] = b])})

\* __ofbundle_ports_reconfigure.
PortsReconfigure(st, b, s) ==
    Then(Join(Release(st, PortsOf(st, b) \ Slaves(s)), b, s.slaves[1]),
         LAMBDA t : Join(t, b, s.slaves[Len(s.slaves)]))

\* __bundle_set: a LAG is refused, but only after its ports have joined; the
\* status of the L3 part is not looked at.
Set(st, b, s) ==
    Then(PortsReconfigure(IF st.bundle[b] # None THEN st
                          ELSE [st EXCEPT !.bundle[b] = NewBundle], b, s),
         LAMBDA t : IF Len(s.slaves) > 1 THEN {Failed(t)}
                    ELSE Regardless(RouterIntfReconfigure(t, b, s),
                                    LAMBDA u : {Done(u)}))

-----------------------------------------------------------------------------
(* l3_route_action for a route with one local next hop, the port p.        *)

LocalAdd(st, x, b) ==
    Regardless(RouteLocalAdd(st, x, st.bundle[b].rif),
        LAMBDA t : {Done([t EXCEPT !.bundle[b].routes[x] = @ + 1])})

\* The mutant does not look the route up in the bundle's list.
LocalDeleteAny(st, x, b) ==
    Then(RouteRemove(st, x),
         LAMBDA t : {Done([t EXCEPT !.bundle[b].routes[x] = @ - 1])})
LocalDelete(st, x, b) ==
    IF st.bundle[b].routes[x] = 0 THEN {Done(st)}
    ELSE Then(RouteRemove(st, x),
              LAMBDA t : {Done([t EXCEPT !.bundle[b].routes[x] = @ - 1])})

-----------------------------------------------------------------------------
Init ==
    sw = [bundle   |-> [b \in Bundles |-> None],
          bundleOf |-> [p \in Ports |-> None],
          ptr      |-> [p \in Ports |-> None],
          entry    |-> [i \in RifIds |-> None],
          rif      |-> [i \in RifIds |-> None],
          route    |-> [x \in Prefixes |-> None],
          aborted  |-> FALSE]

BundleSet(b, s) == \E o \in Set(sw, b, s) : sw' = o.st

BundleUnset(b) ==
    /\ sw.bundle[b] # None
    /\ \E o \in Destroy(sw, b) : sw' = o.st

BundleRemove(p) ==
    /\ sw.bundleOf[p] # None
    /\ \E o \in Remove(sw, p) : sw' = o.st

\* The assertion that the bundle has a rif.  That p is in a bundle is asserted
\* too, and taken here as the caller's duty.
RouteAddAborts(p) ==
    LET b == sw.bundleOf[p]
    IN  /\ b # None
        /\ ~sw.bundle[b].loopback /\ sw.bundle[b].rif = None
        /\ sw' = [sw EXCEPT !.aborted = TRUE]

RouteAdd(x, p) ==
    LET b == sw.bundleOf[p]
    IN  /\ b # None
        /\ ~sw.bundle[b].loopback /\ sw.bundle[b].rif # None
        /\ sw.bundle[b].routes[x] < MaxCopies
        /\ \E o \in LocalAdd(sw, x, b) : sw' = o.st

RouteDelete(x, p) ==
    LET b == sw.bundleOf[p]
    IN  /\ b # None
        /\ ~sw.bundle[b].loopback
        /\ \E o \in LocalDelete(sw, x, b) : sw' = o.st

Next ==
    /\ ~sw.aborted
    /\ \/ \E b \in Bundles : \/ \E s \in Settings : BundleSet(b, s)
                             \/ BundleUnset(b)
       \/ \E p \in Ports :
            \/ BundleRemove(p)
            \/ RouteAddAborts(p)
            \/ \E x \in Prefixes : RouteAdd(x, p) \/ RouteDelete(x, p)

Spec == Init /\ [][Next]_sw

-----------------------------------------------------------------------------
(* Properties.                                                             *)

State == [bundle   : [Bundles -> Bundle \cup {None}],
          bundleOf : [Ports -> Bundles \cup {None}],
          ptr      : [Ports -> Bundles \cup {None, Freed}],
          entry    : [RifIds -> Entry \cup {None}],
          rif      : [RifIds -> Rif \cup {None}],
          route    : [Prefixes -> RifIds \cup {None}],
          aborted  : BOOLEAN]

TypeOK == sw \in State

Routed == {b \in Bundles : sw.bundle[b] # None /\ sw.bundle[b].rif # None}

\* "ovs_assert(router_intf)" in the vendor class never fails: whatever failed
\* before, a bundle's rif is in all_router_intf and in the ASIC, is for the
\* port or VLAN the bundle thinks it is for, and is no other bundle's.
RifKnown ==
    \A b \in Routed :
        LET i == sw.bundle[b].rif
        IN  /\ sw.entry[i] # None /\ sw.rif[i] # None
            /\ sw.entry[i].type = sw.rif[i].type
            /\ sw.entry[i].data = sw.rif[i].data
            /\ sw.entry[i].data = sw.bundle[b].data
            /\ \A a \in Routed : sw.bundle[a].rif = i => a = b

\* "Remove all existing local routes before interface deletion": no route in
\* the ASIC leaves through a rif that is gone, because a route through the rif
\* of a bundle is always in that bundle's local_routes.
NoRouteThroughDeadRif ==
    \A x \in Prefixes : sw.route[x] # None =>
        /\ sw.rif[sw.route[x]] # None
        /\ \A b \in Routed :
                sw.bundle[b].rif = sw.route[x] => sw.bundle[b].routes[x] > 0

\* bundle->router_intf.enabled, by which bundle_set decides whether to call
\* the SDK, is the admin state of the rif: across failures and re-creation.
AdminStateCached ==
    \A b \in Routed : sw.bundle[b].enabled = sw.rif[sw.bundle[b].rif].enabled

\* The rif of bundle b was made for port p.
MadeFor(b, p) ==
    /\ sw.rif[sw.bundle[b].rif].type = "port"
    /\ Kind[p] = "system" /\ sw.bundle[b].data = HwId[p]

\* As long as a bundle has a rif, the port it was made for reads the statistics
\* of that rif, or none, wherever the port is meanwhile: not of the rif of
\* another bundle, and not through memory that was freed.
StatisticsOfOwnRif ==
    \A b \in Routed, p \in Ports :
        MadeFor(b, p) => StatsOf(sw, p) \in {sw.bundle[b].rif, None}

\* "If NULL value is specified for rif_handle this means that router interface
\* handle should be detached from netdev": a netdev whose rif is removed is to be
\* detached from it, so that get_stats never follows a pointer into a bundle that
\* was freed.  The code breaks it: router_intf_remove detaches the ports on the
\* list of the bundle, and bundle_remove takes the last one off it before.
NoStatisticsOfFreed == \A p \in Ports : sw.ptr[p] # Freed

\* Setting a bundle again, with its port in place, does not re-create its rif
\* (which would lose the local routes, that nobody adds again).
RifStable ==
    [][\A b \in Routed : \A p \in PortsOf(sw, b) :
        MadeFor(b, p) /\ sw'.bundleOf[p] = b
            => sw'.bundle[b].rif = sw.bundle[b].rif]_sw

=============================================================================
