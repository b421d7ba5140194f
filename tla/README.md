# Verification of the OpenSwitch SAI plugin

`switchd-sai-plugin` is a provider plugin of OpenSwitch's `ovs-vswitchd`: it
turns the calls of the bridge code (ports, bundles, addresses, neighbors,
routes, interface configuration) into calls of the SAI API and of the Mellanox
SDK. This directory holds TLA+ models of the parts of it that keep state, TLC
runs over small instances, and TLAPS proofs. Source paths below are relative to
the repository; the models follow the code, and the SAI/SDK libraries, the
`ip` command and `ovs-vswitchd` are external.

Contents: [inventory](#inventory), [modules](#modules),
[method](#how-the-code-is-modelled), [runs](#runs), [proofs](#proofs),
[disagreements](#disagreements-met), [limits](#what-is-not-modelled),
[plan](#plan).

## Inventory

All provider callbacks run in the one main thread of `ovs-vswitchd` and do not
yield. SAI notification callbacks (link state) come from another thread, which
takes no lock. Almost every callback makes several hardware calls in a row and returns at the first
error without undoing the ones before, so partial failure followed by further
legal calls is what is hard here; next come caches that decide whether the
hardware is called at all.

| Component | State | Operations | Correct when |
|---|---|---|---|
| Bundles and VLANs (`src/sai-ofproto-provider.c`, `src/sai-vlan.c`) | `ofproto->bundles`, `bundle->ports`, `vlan`, `vlan_mode`, `trunks`; a port's memberships and PVID in the ASIC | `bundle_set`, `bundle_remove` | a port is a member of exactly the VLANs its bundle asks for; no port points at a destroyed bundle; setting one bundle disturbs no other port |
| Router interfaces and local routes (same, `src/vendor/mlnx/sai-vendor-router-intf.c`, `-route.c`) | `bundle->router_intf`, `local_routes`, `all_router_intf`, `netdev->rif_handle`; rifs, counters and routes in the ASIC | `bundle_set`, `bundle_remove`, `l3_route_action` | the bundle's rif is known below it, no route leaves through a dead rif, cached admin state is true, statistics are those of the own rif (they are not once the bundle was freed) |
| Neighbors (same, `-neighbor.c`) | `bundle->neighbors`; neighbors in the ASIC | `add_l3_host_entry`, `delete_l3_host_entry`, `get_l3_host_hit` | what the ASIC has can be deleted through the cache; the cache has only what the ASIC accepted |
| IP addresses (same, `-route.c`) | primary and secondary addresses per bundle; IP2ME routes in the ASIC | `bundle_set`, bundle destruction | records and routes agree; an address that is kept stays installed |
| Port configuration (`src/sai-port.c`, `src/sai-netdev.c`) | `netdev->config`, `default_config`; port attributes in the ASIC | `set_hw_intf_config`, `set_mtu`, `update_flags`, netdev construction | the cache does not claim what the ASIC has not; a retry completes the job |
| Host interfaces (`src/vendor/mlnx/sai-vendor-host-intf.c`, `src/sai-netdev.c`) | `all_host_intf`, Linux devices, `is_port_initialized`, the list of transaction callbacks | `set_hw_intf_info`, destruction, L2/L3 port transactions | table and devices agree; routed ports have L3 devices; the assertions hold |
| ECMP hash (`src/vendor/mlnx/sai-vendor-hash.c`) | `ghash_fields`; hash parameters per port | `l3_ecmp_hash_set` | a success repairs all earlier failures |
| Netdev list and link events (`src/sai-netdev.c`, `src/sai-api-class.c`) | `sai_netdev_list`, `is_port_initialized`, `hw_id`, `carrier_resets` | construction, initialization and destruction of netdevs; the notification callback | an event is counted once, by a netdev of its port, although the list changes under the walk; an event does not wait for ever |
| Label map (`src/sai-api-class.c`) | `sai_lable_id_to_oid_map` | filled at start | labels that are given out are inside the table; label 0 is no port's |
| Traps and policers (`src/sai-host-intf.c`, `src/vendor/mlnx/sai-vendor-host-intf.c`, `src/sai-policer.c`) | `sai_trap_group_list`, `mlnx_trap_group_list`, groups and policers in the ASIC | register, unregister, by the generic class and the Mellanox class | every trap is policed by a group of its own |
| Plugin and ofprotos (`init`, `__del`, `construct`, `destruct`, `enumerate_names`, ports and their dump) | `all_ofproto_sai`, `ofproto->vrid`, `ofproto->ports`, virtual routers | the same | no freed ofproto is followed; a dump ends with every port |
| Remote and ECMP routes (`l3_route_action`, `-route.c`) | none in the plugin, tables in the ASIC | add, delete, delete next hop | each open VRF has a table of its own with the next hops asked for |
| API table, conversions, generic stubs | a table filled once | — | — |

How they interact: `bundle_set` runs the VLAN, router interface and address
parts in that order, and drops the status of the last two. Creating or
removing a port's router interface runs the registered port transactions, which
replace its Linux device. A netdev holds a pointer to the router interface of
the bundle it is in. Neighbors and local routes hang on the bundle's router
interface. The models cut along these seams; where one component matters to
another only through a fact (a rif comes and goes), that fact is an action of
the other's model. What is composed is `Plugin`: virtual routers, traps, ports
and their listing share one life cycle, from `init` to `del`.

## Modules

| Module | Models | State and actions |
|---|---|---|
| `VlanPort` | VLAN calls on one port: `sai-vlan.c`, `__native_tagged_vlan_set` | operators on `[tag, pvid]`; `F` is success, `FFails` the set of states a failing call may leave |
| `VlanBundle` | `__bundle_set`, `__bundle_remove`, `__ofbundle_destroy` with `__ofbundle_port_add/del`, `__ofbundle_ports_reconfigure`, `__vlan_reconfigure` | `cfg`, `bundleOf`, `hw`; one action per way out of a callback: `SetCompletes`, `SetFailsReleasing`, `SetFailsReconfiguring`, `SetFailsAdding`, `BundleUnset`, `BundleRemove` |
| `Outcomes` | `ERRNO_EXIT` and `ERRNO_LOG` of `include/sai-log.h` | `Then` (return at the error), `Regardless` (log it) over sets of `[ok, st]` |
| `RouterIntf` | `__ofbundle_router_intf_reconfigure/remove`, local routes, the vendor class, `__get_stats`' pointer | one record `sw`; actions `BundleSet`, `BundleUnset`, `BundleRemove`, `RouteAdd`, `RouteAddAborts`, `RouteDelete` |
| `L3Host` | the three host callbacks and `bundle->neighbors` | `cache`, `neigh`, `rif`, `orphans`; actions `AddHost`, `DeleteHost`, `RifCreate`, `RifRemove`, `Destroy` |
| `IpAddresses` | `__ofbundle_ip_reconfigure`, `__ofbundle_ip_secondary_reconfigure`, `__ofbundle_ip_remove` | `sw.bundle` (records), `sw.route`; actions `BundleSet`, `BundleDestroy` |
| `PortConfig` | `__port_config_set`, `__set_hw_intf_config`, `__set_mtu`, `__update_flags` | `hw`, `config`, `default`; actions `Open`, `Close`, `ConfigSet`, `SetMtu`, `UpdateFlags` |
| `HostIntf` | netdev initialization and destruction, `all_host_intf`, both port transactions and the spanning tree callback of the router interface class | `sw.dev`, `sw.hif`, `sw.link`, `sw.stp`, `sw.rif`; actions `Construct`, `SetHwIntfInfo`, `Destruct`, `RifCreate`, `RifRemove`, `RifLost` |
| `EcmpHash` | `__ecmp_hash_set`, `__ops_hash_to_sxsdk` | `ghash`, `params`; action `HashSet` |
| `SwitchPorts` | `__init_ports`, `__get_port_lable_id`, `hw_id2port_id` | operators on a layout of ports in lanes: `PortLabel`, `Accepted` (the check at start), `Overflows` (what it lets through), `OidMap` |
| `NetdevEvents` | the life of netdevs in `sai-netdev.c`, `sai_netdev_list`, `__event_port_state`, and the walk of `netdev_sai_port_oper_state_changed` | memory `mem`, links `next`, `dev`, the events `queue`, the thread `walk`. Main thread: `Construct`, `SetHwIntfInfo`, `SetHwIntfInfoInternal`, `Unlink` and `Free` (two steps of destruction). Thread of SAI, one load of memory at a time: `EventPortState`, `Begin`, `Load`, `Test`, `Hit`, `Report`, `Miss`, `UseAfterFree` |
| `LinkEvents` | abstract specification: events are counted once, by a netdev of their port (`Count`), before they are done with (`Finish`) | implemented by `NetdevEvents` |
| `VirtualRouters` | `__init`/`__del` as far as routers go, `__construct`, `__destruct`, `__enumerate_names`, remote routes, `sai-vendor-router.c` | `phase`, `live`, `vrid`, `table`, `stale`; actions `RStart`, `RDel`, `RConstruct`, `RDestroy`, `REnumerateNames`, `RRouteAdd`, `RRouteDeleteNh`, `RRouteDelete` |
| `RouteTables` | abstract specification: a table of routes for each open VRF | implemented by `VirtualRouters` and by `Plugin` |
| `Traps` | `traps_register` and `traps_unregister` of both classes, policers | operators `TrapsTurn`, `TrapsUnregistered` on the switch's traps |
| `Plugin` | composition of `VirtualRouters` and `Traps` with the ports of ofprotos and `port_dump_*` | adds `traps`, `ports`, `dump`; actions `Start`, `RegisterTraps`, `Del`, `Construct`, `Destroy`, `EnumerateNames`, `RouteAction`, `PortAdd`, `PortDel`, `PortDumpStart`, `DumpPort`, `DumpAgain`, `DumpEof`, `PortDumpDone` |
| `*Proofs` | theorems and proofs about the module of that name; `PortSettingsProofs` about `PortConfig` and `EcmpHash` (whose definitions have `Hash` in their names so that both can be extended), `PluginProofs` about `VirtualRouters` too | |
| `MC*` | constants for TLC; `MCPortSettings` has `PortConfig` and `EcmpHash` side by side: they share no state, and `part` chooses at the start which of them takes the steps | |

`PROJECT.json` maps every definition to the lines it stands for.

## How the code is modelled

*A callback is one action*, except in `NetdevEvents` and for the two loops of
`Plugin`, registering traps and listing ports, whose turns are actions. The main thread does not
yield, so nothing can be seen between two calls of one callback. What can be seen is where a callback
gave up: every hardware call that may fail gives a further outcome with exactly
the calls before it done. `VlanBundle` lists these outcomes as disjuncts (it is
the module with the largest proof); the other modules with long call chains
use `Outcomes`.

*Two threads.* `sai_netdev_list_mutex` is taken by the main thread alone, so it
excludes nobody. In `NetdevEvents` the walk is one action for each load of
memory that another thread can change, with the address it has loaded kept in
between; the main thread's changes of the list are actions of their own, and
destruction is two (off the list; memory freed). A pointer to freed memory is
marked lost, and stays lost when the memory is used for another netdev; its use
is undefined behaviour, after which nothing is claimed. Memory is sequentially
consistent in the model: the code has neither barriers nor atomics, and what
weaker orders or compilers could do is not modelled.

*Abstract specifications.* `LinkEvents` and `RouteTables` say what is promised,
without lists, labels, ids or calls that fail. `ImplementsLinkEvents` and
`ImplementsRouteTables` are `INSTANCE ... WITH` refinements: a netdev's port is
looked up through its label, a VRF's table through its `vrid`.

*Fairness.* Two specifications state it. `NetdevEvents`: weak fairness of the
steps of the event thread, which waits for no lock, so that only the scheduler
can stop it. Of the main thread `EventsAreHandled` assumes one thing, in its
statement: that it does not construct netdevs while an event is handled
(`ConstructAhead`) again and again for ever. New netdevs go to the end of the
list, so a main thread that makes them as fast as the walk goes on would keep the
walk from its end; the code has nothing against that, and the assumption is that
the daemon does not do it (it constructs when interfaces are configured). Nothing
else is assumed: netdevs may be set up, taken off and freed under the walk at any
pace. No bound of the model stands in for that assumption, since constructions
are not bounded. The refinement of `LinkEvents` is safety alone and needs
no fairness. `Plugin`: weak fairness of
the turns of a listing, which are a loop of the daemon. All other components act
only when called, and none retries by itself: their properties are safety
properties.

*Loops without an order.* Bundles' ports, hash maps of addresses and routes are
visited in an order the code does not fix; a loop that stops early has done any
subset of the rest.

*The hardware* is assumed to be as unhelpful as the code can meet: a call
that fails changes nothing; adding what is there may fail or overwrite;
removing what is not there fails (for VLAN membership it does nothing); ids of
live objects are distinct; a second rif for one port or VLAN is refused. Each
module's head comment states its part.

*The caller.* `ovs-vswitchd` passes settings the database can hold: an access
port has a tag and no trunks, a trunk port no tag, a native port a tag.
`set_hw_intf_config` comes after the port is initialized (which
`__set_hw_intf_config` itself does not check); ports of bundles are
initialized before a router interface is made for them; a netdev is destroyed
after its port has left its bundle. Routes and hosts are added for ports in a
bundle (an assertion of the code). The daemon deallocates an ofproto whose
construct failed without destructing it, deletes a name (`del`) only when it has
no ofproto of that name open, routes on VRFs and with one kind of next hop at a
time, does nothing else while it lists ports, and has an interface in one
ofproto at a time. Netdevs get labels that ports have, each label one netdev.

*History variables* (`faulted`, `broken`, `shared`, `left`, `told`,
`installed`, `asked`, `last`, `unsynced`, `switched`, `recent`) record what
happened so that a property can say for whom it holds. They do not influence
the code's state.

*Asserts.* A failed `ovs_assert` sets `aborted`, after which nothing happens;
the runs with such a state, or with undefined behaviour after which nothing is
said, or with a bound on what is reported (`netdev_events`), switch off TLC's
deadlock check for that reason, the others check it.

*Abstractions.* MACs, addresses and names are members of small sets; an
address has an IP and a length, which is what tells two routes apart. Formatting
and logging are left out. PVIDs are modelled.

Definitions named in comments as mutants (`…Eager`, `…Always`, `ZeroPvid`, ...)
are not used by the specification: each is a plausible slip in the code, kept
next to the definition it would replace, and makes a property fail.

## Runs

| Run | Instance | What it shows |
|---|---|---|
| `vlan_bundle` | 2 ports (calls of one may fail), 2 bundles, 3 VLANs, 5 settings over all modes | ports without a failure are members of exactly the VLANs of their bundle's settings, access VLANs untagged with the PVID and trunks tagged, by whatever way they came to them; no dangling bundle even with failures; a bundle_set changes no port whose settings stay |
| `router_intf` | a port, a VLAN interface, a loopback, 2 bundles, 2 rifs, 1 prefix in at most 2 copies; all SDK calls may fail | a bundle's rif is always in the vendor's table and in the ASIC; no route through a dead rif; the cached admin state is right; as long as a bundle has a rif, the port it was made for reads that rif's statistics or none; a bundle set again keeps its rif |
| `l3_host` | 2 bundles, 1 address, 2 MACs, 3 rifs | neighbors in the ASIC are in the cache with a MAC; nothing is cached that the SDK did not accept; only a neighbor that has moved is forwarded to a MAC other than the last one an add returned 0 for |
| `ip_addresses` | 2 bundles, 2 IPv4 addresses, one with a second mask, one IPv6 address as primary and as secondary; SDK may fail | every route has an owner who will remove it, every record a route, unless an IP was recorded twice or a destroy reported a failure; kept addresses are never taken out |
| `port_settings` | 1 port, 5 requests, SAI may fail, other writers; 3 ports to hash on, 2 may fail, 1 unsupported bit | the cache is true of every attribute that config_set wrote; a request that succeeds is in force up to attributes written past the cache; a failure leaves the admin state; one success repairs the hash of all ports, counting the requests that failed; no port ever hashes on a mixture or nothing |
| `host_intf` | 2 ports, a VLAN interface with the label of a port as id, a bridge interface; commands for two names may fail | table and devices agree for names without a failure, whatever fails for others; initialized interfaces always have an entry; devices fit their use |
| `netdev_events` | memory for 2 netdevs, 2 events, a switch of 3 ports of which two share a label, and one of 4 ports with a label too large for the table | the walk without a lock implements `LinkEvents`: an event is counted once by a netdev of its port if one is there all the while, unless a netdev is freed under the walk, the port has none, or the ports do not fit the table; an event waits for ever only behind a walk that netdevs are constructed ahead of for ever; internal interfaces stand for no port |
| `plugin` | 2 VRFs, a bridge, 2 router ids, 2 next hops of which one fits, 2 ports, 12 trap groups | each open VRF has a table of its own whatever fails; freed ofprotos are followed only after a failed construct; every trap is policed at its own rate, and by groups that SAI does not know to be taken; a listing ends with every port, twice |
| `native_tagging`, `neighbor_move`, `ip_swap`, `statistics_freed` | smaller instances, without failures where the disagreement needs none | counterexamples, see [below](#disagreements-met) |

*Bounds.* Two of everything that can be confused with another (ports,
bundles, rifs, MACs): the code never relates three of them, except the rifs in
`l3_host`, where one is live in each bundle and one is left behind. One prefix
and one neighbor address suffice because their table entries are independent.
`MaxCopies` = 2 covers the only case the code tells apart, a removal that
leaves a copy. `MaxRecent` = 3 bounds how many different values the wanted
hash fields take in a row of failing calls; it bounds a history variable, and
two failures on different ports are enough to have three generations at once.
Three VLANs allow a native VLAN in and out of overlapping trunk sets.
Memory for two netdevs, any number of times, makes memory be used again while the
walk holds a pointer to it, and a list of two is the shortest in which a walk can
hold two pointers, be led from a netdev off the list into it, and pass a netdev
by; two events (`MaxEvents`) make one wait behind the other. Two router ids let an id be given
again, to the other VRF, or stay taken by a router that could not be removed.
Symmetry is used for bundles, rifs and MACs where they are model values that
the constants do not distinguish. What the runs show of VLANs,
router interfaces, neighbors, addresses, port configuration, host interfaces,
hash fields, link events, virtual routers, traps and listings is also proved for
all sizes, but for liveness.

## Proofs

Checked by TLAPS, for all values of the constants that the named assumptions
allow.

Most callbacks are compositions of operators from a state to a set of outcomes.
Their proofs have the same shape: an invariant `Good(st)` of any state, not only
of the variable, a lemma for each operator that each of its outcomes is `Good`
again, and then one per action. So a callback that stops anywhere is covered by
the lemmas of the calls it has made.

`VlanBundleProofs` (from `VidsAssumption`, `SettingsAssumption`):
`TypeCorrect`, `NoDangling`, `MembershipIsExact`, `TaggingIsExact`,
`NativeTaggingOtherwiseExact` and `OthersUndisturbed`. The invariant
`IInv == TypeOK /\ NoDanglingBundle /\ MembershipMatchesConfig` is inductive.
Membership alone is not: `__vlan_reconfigure` only adds and removes
differences, so its result is right only if the port had exactly the VLANs of
the old settings, which needs the port's bundle to exist and its settings to be
coherent. The argument: each VLAN call's effect on the set of VLANs
(`AccessPortAddFacts` ... `NativeTaggedFacts`); the two bitmaps, with the native
VLAN taken out or put in, and the two phases (`BitmapFacts`,
`DeletePhaseFacts`, `AddPhaseFacts`); hence `ReconfigurationIsExact`, the heart
of the module: from the VLANs of the old settings to those of the new. Then one
lemma per action, through `IInvFromPorts`, which reduces the invariant to one
port. The other theorems rest on `NextFate`: a step leaves a port without a
failure as it is, or takes it out of its bundle, or reconfigures it in place, or
moves it. A port in place whose settings stay has two empty bitmaps
(`SameSettingsChangeNothing`), so that nothing is written. For the tagging, a
trunk that a reconfiguration does not add was one before and is in neither phase
(`KeptTrunk`). `NativeTaggingOtherwiseExact` says how far the disagreement
`native_tagging` reaches: `__vlan_reconfigure` keeps the native tagging for all
settings (`ReconfiguredNative`), `__ofbundle_port_add` only for those in which
an untagged native VLAN is not a trunk and a tagged one is (`NativesApart`);
under that hypothesis, which the run shows to be needed, the tagging holds
after every history.

`RouterIntfProofs` (from `RifAssumption`): `TypeCorrect`, `RifsKnown`,
`RoutesAlive`, `AdminStateTrue`, `StatisticsOwn`, `RifsStable`. None of the
invariants is inductive. `Good` adds that no two bundles have one rif
(`Unshared`); that what bundle, vendor class and ASIC have about a rif is the
same, its kind and its port or VLAN included (`Agreed`), without which a rif
that is kept need not fit; that a route through a bundle's rif is on the
bundle's list (`Tracked`), since the removal of a rif takes down what is on that
list; and that the port a rif was made for points at its bundle or nowhere, even
while the port is listed in another bundle (`Pointing`). The assumption says
that two system ports have two label ids, as `SwitchPorts` has it for the table
of `sai-api-class.c`, and that the model's `None` is no bundle, id or record.

`IpAddressesProofs` (from `IpAssumption`): `TypeCorrect`, `TrapsAnswered`,
`RecordsInstalled`, `KeptStays`. That records are installed is not inductive:
taking one of two records of an IP away would take the other's route. `Single`
adds that an IP recorded twice is known to be so (`shared`), after which the
properties claim nothing of it. `DroppedIsGood` treats IPv6 secondaries,
which are removed with another length than they were installed with. `KeptStays`
is about a step; it follows from the relation `Keeps` between the states before
and after every call, which is transitive.

`HostIntfProofs` (from `HostIntfAssumption`): `TypeCorrect`, `TableTrue`,
`ReadyEntered`, `DevicesFit`, `BridgesAbort`. `Good` is a statement about one
name (`Owned`, `Fits`), and `StepAt` reduces each action to the name it is
about. `Owned` has what fails to be inductive otherwise: an entry is of its
name's kind, so that looking up a label finds no VLAN interface of that number,
and a router interface is on a port that is ready.

`L3HostProofs` (from `HostAssumption`): `TypeCorrect`, `NeighborsAreCached`,
`CacheIsEarned`, `WrongMacOnlyMoved`. `EntriesAreCached` is not inductive by itself: if two bundles
had one rif, or a rif that is free had neighbors left, creating or deleting a rif
would break it. `IInv` adds `RifsDistinct` and `FreeRifsClean`. `OneAddress`
treats adding and deleting alike: both change one address of one bundle.
`CacheIsEarned` is a separate induction on top of `TypeOK`.
`WrongMacOnlyMoved` says how far the disagreement `neighbor_move` reaches: what
the ASIC forwards to and what an add has returned 0 for were both accepted for
the bundle and address (`ForwardedWasInstalled`, `ToldWasInstalled`), so they
are the same for a neighbor that has had one MAC; such a neighbor is forwarded
rightly or, when its rif was made again while the cache stayed, not at all.
For `ip_swap` the theorem `RecordsInstalled` does the same: only an IP that was
recorded twice can lose its route.

`PortSettingsProofs` has two parts. From `PortAssumption`: `TypeCorrect`,
`CacheHolds`, `RequestsTakeEffect`, `AdminStateLast`. `RequestInForce` is about the ASIC and
not inductive; `IInv` has `CacheIsTrue` and, as `Agreed`, that after a success
the cache is what the arguments promised. `DifferingFacts` (what is not written
does not differ) and `OrderFacts` (the admin state comes last) carry the argument. From `HashAssumption`:
`HashTypeCorrect`, `SuccessRepairs`, `PortsHashOnOneRequest`. `HashIInv` adds
`Kept`: what the user asked for is kept
after failures too, and each port has a set of fields wanted lately that was not
refused.

`NetdevEventsProofs` (from `NetdevAssumption`, `PortsMaxAssumption`):
`EventsTyped`, `InternalsHaveNoPort`, `EventsAreCounted`. The last is the whole
of `ImplementsLinkEvents`, which is a safety property. The layout is any that
`__init_ports` accepts. One that overflows the table is undefined behaviour from
the start, so that there is nothing to say of it; for the others `LabelFacts`
derives that labels are inside the table, from the check and `~Overflows`, and
`EventsTyped` says so of every netdev. The invariant has five parts:
`Typed`; `Settled` (an overflow has broken the daemon; an event is counted just
before it is reported); `Orderly` (internal netdevs keep label 0, free memory is as `xzalloc`
leaves it, counts and waiting events do not exceed what was reported); `Sorted`
(netdevs have ranks by birth, and the link of the list, and of every netdev that
is not free, leads to the first listed one of higher rank, also from a netdev
that is off the list); `Walking` (what the walk has in hand is in use unless
it is lost, what is lost was freed under the walk, and a pointer that is not lost
has passed no netdev that counted all the while). The ranks are an existential
in `IInv`, since the code has none, and so is their bound, since netdevs may be
born without end: `ConstructSorted`, `UnlinkSorted` and
`FreeSorted` show that they go on to exist, and one lemma per action that the
walk stays `Walking`. That a walk over a list without a lock finds every netdev
that stays is `LoadWalks`.

`PluginProofs` begins with `VirtualRouters` (from `VrfAssumption`):
`RoutersTyped`, `UndefinedIsEarned`, `RoutersAreRouteTables`. `IInv` adds to
types that no two open VRFs have one router (`OwnTables`), which the refinement
needs since tables are found through ids that are given again, and that nothing
stale or broken comes before the failure that earns it (`FailureFirst`). Then
the composition (from the assumptions of `Traps` and `Plugin` too):
`PluginIsRouters` shows that each step of `Plugin` is a step of `VirtualRouters`
or none; so `PluginIsRouteTables` and `PluginUndefinedIsEarned` carry over.
`ListingsAreComplete` is the safety half of `DumpCompletes`: a listing that is
at its end is complete, for any set of ports. `TrapsArePoliced`
and `PluginTyped` follow from `TrapsInv`, which says what the switch looks like
after each turn of registering (`Registered(h, n)`): the groups in use come one
after the other, since SAI takes the first that is free, so that the groups that
the Mellanox class counts up to are free although it looks at the first alone.
`TrapsDisjoint`, that no trap is in two rows of the tables, keeps a later turn
from undoing an earlier one.

Every invariant and action property that a passing run checks is also proved.
Only model-checked is liveness, which is out of the prover's reach, as `ENABLED`
is: `EventsAreHandled`, and that a listing ends (`DumpCompletes`). Induction over data is out of reach too, which is
why loops over tables are turns of an action and no module has recursive
definitions.

## Disagreements met

With a run that shows them (quotes are in `PROJECT.json`):

- `native_tagging`: a port that joins a bundle with a native VLAN that is also a
  trunk gets the trunk's tagging.
- `neighbor_move`: a MAC that changes and changes back is not written again.
- `ip_swap`: an address that changes its role between primary and secondary
  loses its route.
- `statistics_freed`: when the last port leaves a routed bundle, `bundle_remove`
  takes it off the bundle's list (`src/sai-ofproto-provider.c:1725`) before
  `__ofbundle_router_intf_remove` detaches the ports on that list (`:1202`), and the
  bundle is freed (`:1623`): the netdev keeps a pointer into freed memory, which
  `get_stats` follows (`src/sai-netdev.c:679`), although "If NULL value is specified
  for rif_handle this means that router interface handle should be detached from
  netdev" (`src/sai-netdev.c:246`). `StatisticsOfOwnRif` says what holds up to then.

In the models, as the code has them, without a run of their own:

- Destroying an initialized bridge interface fails an assertion
  (`src/sai-netdev.c:436`, `ovs_assert(hif)`); `OnlyBridgesAbort` shows that
  nothing else does.
- A netdev that is created again starts from a zero cache
  (`src/sai-port.c:212`, `:236`): a port that is up is not switched off by a
  request that leaves it down.
- The status of removing a policer is inverted: `src/sai-host-intf.c:296`
  against `src/sai-policer.c:71` ("@return 0 on success"). A `del` aborts unless
  every removal fails (`GoesOn` in `Traps`, as the code has it). No property is
  stated about it: one that holds would only restate the mistake.
- "Protects 'sai_list'." (`src/sai-netdev.c:26`) against the walk at `:221`, which
  does not take the mutex; what still holds is `LinkEvents`.
- After a walk that found nothing `dev` is not NULL (`src/sai-netdev.c:228`), so
  that the event of a port without a netdev is written around the list head.
- A label equal to `SAI_PORTS_MAX` passes the check of `src/sai-api-class.c:326`
  on a switch of that many ports, and is written behind the end of the table
  (`:331`), and nothing bounds the number of ports by the size of the list they are
  read into (`:317`): `Overflows`. Such a layout is in `netdev_events`, broken from the
  start.
- "Ghost" ports are listed from the same set as the others, so every port is
  reported twice (`src/sai-ofproto-provider.c:639`).
- An ofproto whose router could not be created stays in `all_ofproto_sai`
  (`src/sai-ofproto-provider.c:450`); next hops to delete are not counted
  (`src/vendor/mlnx/sai-vendor-route.c:220`).
- IPv6 secondaries are installed with a length of 32 and removed with 128
  (`src/sai-ofproto-provider.c:1348`); a local route is remembered although its
  add failed (`:2079`); a rif whose removal failed half way can never be removed;
  DSTPORT hashes on the source port (`src/vendor/mlnx/sai-vendor-hash.c:173`);
  `0xff & system()` drops the exit code
  (`src/vendor/mlnx/sai-vendor-host-intf.c:518`).

Not modelled: `*old_flagsp |=` without a reset (`src/sai-port.c:389`).

## What is not modelled

The SAI API table and profile strings: filled once at start, which succeeds or
aborts. Conversions of addresses and status codes: pure functions. The stubs of
the generic classes: they log. MAC addresses, features and counters of netdevs:
passed through. `vlan_set`: one SAI call. Callbacks of the provider that only log
or return a constant. LAGs: the code refuses them, after the ports have joined,
which is modelled in `RouterIntf`. The VLAN calls of a port in a routed bundle are
in `VlanBundle` only, since a routed port has no VLANs. Memory models weaker than
sequential consistency.

## Plan

1. *Done:* VLANs; router interfaces; neighbors; addresses; port configuration;
   host interfaces; ECMP hash; netdevs and link events against an abstract
   specification; virtual routers and remote routes against an abstract
   specification; traps; the composed life cycle.
2. *Done:* proofs of the safety properties of all of these.
3. `RouterIntf` composed with `HostIntf`, so that a failed vendor call and the
   transaction it did or did not run are seen together, against an abstract
   specification in which a port is switched or routed.
