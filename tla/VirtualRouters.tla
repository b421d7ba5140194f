--------------------------- MODULE VirtualRouters ---------------------------
(***************************************************************************)
(* Ofprotos, their virtual routers and their remote routes: construct,     *)
(* destruct, enumerate_names, del and the remote half of l3_route_action   *)
(* in sai-ofproto-provider.c, on top of vendor/mlnx/sai-vendor-router.c    *)
(* and sai-vendor-route.c.  One thread, the daemon's.                      *)
(*                                                                         *)
(* The SDK is external: any call may fail and then changes nothing; a new  *)
(* router gets an id that no router has.  The daemon is external too: it   *)
(* deallocates an ofproto whose construct failed (which this plugin does   *)
(* not unregister), routes on VRFs only and by one kind of next hop at a   *)
(* time, and deletes a name only when it has no ofproto of that name open. *)
(***************************************************************************)
EXTENDS Naturals, FiniteSets

CONSTANTS Vrfs,      \* names of ofprotos of type "vrf"
          Bridges,   \* names of ofprotos of type "system"
          Vrids,     \* ids of virtual routers in the SDK
          IpPrefixes, Hops,
          HopsMax,   \* RM_API_ROUTER_NEXT_HOP_MAX
          NoTable

ASSUME VrfAssumption ==
    /\ Vrfs \cap Bridges = {}
    /\ 0 \in Vrids
    /\ HopsMax \in Nat
    /\ NoTable \notin [IpPrefixes -> SUBSET Hops]

Names == Vrfs \cup Bridges

VARIABLES phase,    \* the plugin: "new", "up", "down" (after del), "aborted"
          live,     \* ofprotos constructed and not destructed
          vrid,     \* vrid[n] of an ofproto
          table,    \* table[i]: the routes of router i in the SDK, if there is one
          stale,    \* names of freed ofprotos that are still in all_ofproto_sai
          unsound,  \* history: a construct failed, or too many hops were deleted
          broken    \* undefined behaviour has had its way

rvars == <<phase, live, vrid, table, stale, unsound, broken>>

EmptyTable == [p \in IpPrefixes |-> {}]

RInit ==
    /\ phase = "new"
    /\ live = {}
    /\ vrid = [n \in Names |-> 0]
    /\ table = [i \in Vrids |-> NoTable]
    /\ stale = {}
    /\ unsound = FALSE /\ broken = FALSE

Running == phase \in {"up", "down"} /\ ~broken

\* hmap_insert, hmap_remove and HMAP_FOR_EACH follow links through freed nodes;
\* it may do no harm.
HmapUsed == broken' \in IF stale = {} THEN {FALSE} ELSE BOOLEAN

-----------------------------------------------------------------------------
(***************************************************************************)
(* Start and end of the plugin.  What becomes of traps is in Plugin.       *)
(***************************************************************************)

\* __init: all classes come up, or the daemon aborts.
RStart ==
    /\ phase = "new"
    /\ phase' \in {"up", "aborted"}
    /\ UNCHANGED <<live, vrid, table, stale, unsound, broken>>

\* __del looks neither at the type nor at the name: the switch is shut down
\* under every ofproto.
RDel(n) ==
    /\ Running /\ n \notin live
    /\ \/ phase' = "aborted" /\ UNCHANGED table
       \/ phase = "up" /\ phase' = "down" /\ table' = [i \in Vrids |-> NoTable]
    /\ UNCHANGED <<live, vrid, stale, unsound, broken>>

\* __enumerate_names changes nothing, unless it comes to a freed ofproto.
REnumerateNames ==
    /\ Running /\ HmapUsed
    /\ UNCHANGED <<phase, live, vrid, table, stale, unsound>>

-----------------------------------------------------------------------------
(***************************************************************************)
(* Ofprotos.                                                               *)
(***************************************************************************)

\* What __router_create leaves in ofproto->vrid for the SDK's id i.  The mutant
\* forgets "handle->data = sx_vrid".
CreatedVridLost(i) == 0
CreatedVrid(i) == i

\* __alloc and __construct.  The ofproto is in all_ofproto_sai before its router
\* is made, and stays when that fails and the daemon frees it.
RConstruct(n) ==
    /\ Running /\ n \notin live
    /\ HmapUsed
    /\ \/ /\ n \in Bridges
          /\ live' = live \cup {n}
          /\ vrid' = [vrid EXCEPT ![n] = 0]
          /\ UNCHANGED <<table, stale, unsound>>
       \/ /\ n \in Vrfs /\ phase = "up"
          /\ \E i \in Vrids :
                /\ table[i] = NoTable
                /\ table' = [table EXCEPT ![i] = EmptyTable]
                /\ vrid' = [vrid EXCEPT ![n] = CreatedVrid(i)]
          /\ live' = live \cup {n}
          /\ UNCHANGED <<stale, unsound>>
       \/ /\ n \in Vrfs
          /\ stale' = stale \cup {n}
          /\ unsound' = TRUE
          /\ UNCHANGED <<live, vrid, table>>
    /\ UNCHANGED phase

\* Who is still in all_ofproto_sai when n has been freed; the mutant forgets
\* hmap_remove.
StaleAfterForgotten(n) == stale \cup {n}
StaleAfter(n) == stale

\* __destruct and __sai_dealloc.  Nobody looks at how ops_sai_router_remove
\* ended: a router that could not be removed is nobody's.
RDestroy(n) ==
    /\ Running /\ n \in live
    /\ HmapUsed
    /\ live' = live \ {n}
    /\ stale' = StaleAfter(n)
    /\ \/ n \in Vrfs /\ phase = "up" /\ table' = [table EXCEPT ![vrid[n]] = NoTable]
       \/ UNCHANGED table
    /\ UNCHANGED <<phase, vrid, unsound>>

-----------------------------------------------------------------------------
(***************************************************************************)
(* Remote routes of VRF n.                                                 *)
(***************************************************************************)

\* sx_api_router_uc_route_set on the router of n: the hops of p become H.
RouteSet(n, p, H) ==
    /\ phase = "up" /\ table[vrid[n]] # NoTable
    /\ table' = [table EXCEPT ![vrid[n]][p] = H]

Routing(n) == Running /\ n \in live \cap Vrfs

\* OFPROTO_ROUTE_ADD.  More hops than there is room for fail an assertion.
RRouteAdd(n, p, H) ==
    /\ Routing(n) /\ H # {}
    /\ IF Cardinality(H) > HopsMax
       THEN phase' = "aborted" /\ UNCHANGED table
       ELSE /\ RouteSet(n, p, table[vrid[n]][p] \cup H) \/ UNCHANGED table
            /\ UNCHANGED phase
    /\ UNCHANGED <<live, vrid, stale, unsound, broken>>

\* OFPROTO_ROUTE_DELETE_NH.  Nothing checks that there is room for the hops in
\* route_data.
RRouteDeleteNh(n, p, H) ==
    /\ Routing(n) /\ H # {}
    /\ IF Cardinality(H) > HopsMax
       THEN broken' = TRUE /\ unsound' = TRUE /\ UNCHANGED table
       ELSE /\ RouteSet(n, p, table[vrid[n]][p] \ H) \/ UNCHANGED table
            /\ UNCHANGED <<broken, unsound>>
    /\ UNCHANGED <<phase, live, vrid, stale>>

\* OFPROTO_ROUTE_DELETE, with at least one hop named: without any nothing
\* happens.
RRouteDelete(n, p) ==
    /\ Routing(n)
    /\ RouteSet(n, p, {}) \/ UNCHANGED table
    /\ UNCHANGED <<phase, live, vrid, stale, unsound, broken>>

RNext ==
    \/ RStart \/ REnumerateNames
    \/ \E n \in Names :
          \/ RDel(n) \/ RConstruct(n) \/ RDestroy(n)
          \/ \E p \in IpPrefixes :
                \/ RRouteDelete(n, p)
                \/ \E H \in SUBSET Hops : RRouteAdd(n, p, H) \/ RRouteDeleteNh(n, p, H)

RSpec == RInit /\ [][RNext]_rvars

-----------------------------------------------------------------------------
(***************************************************************************)
(* Properties.                                                             *)
(***************************************************************************)

RTypeOK ==
    /\ phase \in {"new", "up", "down", "aborted"}
    /\ live \subseteq Names
    /\ vrid \in [Names -> Vrids]
    /\ table \in [Vrids -> [IpPrefixes -> SUBSET Hops] \cup {NoTable}]
    /\ stale \subseteq Names
    /\ unsound \in BOOLEAN /\ broken \in BOOLEAN

\* Routers are never mixed up, although ids are given again, a router may stay
\* behind when its ofproto goes, an ofproto's vrid is 0 before and after, and the
\* plugin may be torn down under open VRFs: each open VRF has a table of its own.
RoutesOf(v) == IF v \in live THEN table[vrid[v]] ELSE NoTable
Routes == [v \in Vrfs |-> RoutesOf(v)]
Abstract == INSTANCE RouteTables WITH Prefixes <- IpPrefixes, routes <- Routes
ImplementsRouteTables == Abstract!Spec

\* It takes a construct that failed, or a deletion of more next hops than fit, to
\* run into freed or foreign memory: an ofproto destructed in any order leaves
\* nothing of itself in all_ofproto_sai.
UndefinedOnlyAfterFailure == broken => unsound

=============================================================================
