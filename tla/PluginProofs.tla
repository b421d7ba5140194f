---------------------------- MODULE PluginProofs ----------------------------
(* Proofs about the plugin for any VRFs, bridges, routers, routes, ports   *)
(* and trap groups: virtual routers alone (RSpec), what of them holds in   *)
(* the whole plugin (Spec), listings of ports, and traps.                  *)
EXTENDS Plugin, FiniteSetTheorems, TLAPS

-----------------------------------------------------------------------------
(* The inductive invariant.                                                *)

\* While the plugin is up the open VRFs have routers, and no two the same one;
\* before and after it no router has a table.
OwnTables ==
    /\ phase = "up" =>
          /\ \A v \in live \cap Vrfs : table[vrid[v]] # NoTable
          /\ \A v, w \in live \cap Vrfs : v # w => vrid[v] # vrid[w]
    /\ phase \in {"new", "down"} => \A i \in Vrids : table[i] = NoTable
    /\ phase = "new" => live = {}

\* What undefined behaviour needs has a failure as its reason.
FailureFirst == stale # {} \/ broken => unsound

IInv == RTypeOK /\ OwnTables /\ FailureFirst

\* A route that is set leaves a table a table.
LEMMA RouteSetFacts ==
    ASSUME RTypeOK, NEW n \in Names, NEW p \in IpPrefixes, NEW H \in SUBSET Hops,
           RouteSet(n, p, H)
    PROVE  /\ table[vrid[n]] \in [IpPrefixes -> SUBSET Hops]
           /\ table' = [table EXCEPT ![vrid[n]] = [table[vrid[n]] EXCEPT ![p] = H]]
           /\ table' \in [Vrids -> [IpPrefixes -> SUBSET Hops] \cup {NoTable}]
           /\ \A i \in Vrids : table'[i] # NoTable <=> table[i] # NoTable
<1>1. vrid[n] \in Vrids /\ table[vrid[n]] \in [IpPrefixes -> SUBSET Hops]
    BY DEF RTypeOK, RouteSet
<1>2. table' = [table EXCEPT ![vrid[n]] = [table[vrid[n]] EXCEPT ![p] = H]]
    BY <1>1 DEF RouteSet
<1>3. [table[vrid[n]] EXCEPT ![p] = H] \in [IpPrefixes -> SUBSET Hops]
    BY <1>1
<1>4. [table[vrid[n]] EXCEPT ![p] = H] # NoTable /\ table[vrid[n]] # NoTable
    BY <1>1, <1>3, VrfAssumption
<1> QED
    BY <1>1, <1>2, <1>3, <1>4 DEF RTypeOK

\* Only an hmap with a freed node does harm.
LEMMA HmapUsedFacts ==
    ASSUME HmapUsed
    PROVE  broken' \in BOOLEAN /\ (broken' => stale # {})
<1>1. CASE stale = {}
    BY <1>1 DEF HmapUsed
<1>2. CASE stale # {}
    <2>1. broken' \in BOOLEAN
        BY <1>2 DEF HmapUsed
    <2> QED
        BY <1>2, <2>1
<1> QED
    BY <1>1, <1>2

LEMMA EmptyTableType ==
    EmptyTable \in [IpPrefixes -> SUBSET Hops] /\ EmptyTable # NoTable
BY VrfAssumption DEF EmptyTable

-----------------------------------------------------------------------------
(* Each operation preserves it.                                            *)

LEMMA InitEstablishes == RInit => IInv
BY VrfAssumption DEF RInit, IInv, RTypeOK, OwnTables, FailureFirst, Names

LEMMA StartPreserves == IInv /\ RStart => IInv'
BY DEF IInv, RTypeOK, OwnTables, FailureFirst, RStart

LEMMA DelPreserves ==
    ASSUME IInv, NEW n \in Names, RDel(n)
    PROVE  IInv'
BY DEF IInv, RTypeOK, OwnTables, FailureFirst, RDel, Running

LEMMA EnumerateNamesPreserves == IInv /\ REnumerateNames => IInv'
<1> SUFFICES ASSUME IInv, REnumerateNames
             PROVE  IInv'
    OBVIOUS
<1>1. broken' \in BOOLEAN /\ (broken' => stale # {})
    BY HmapUsedFacts DEF REnumerateNames
<1> QED
    BY <1>1 DEF IInv, RTypeOK, OwnTables, FailureFirst, REnumerateNames

LEMMA ConstructPreserves ==
    ASSUME IInv, NEW n \in Names, RConstruct(n)
    PROVE  IInv'
<1> USE DEF IInv
<1>1. broken' \in BOOLEAN /\ (stale' # {} \/ broken' => unsound') /\ phase' = phase
    <2>1. broken' \in BOOLEAN /\ (broken' => stale # {})
        BY HmapUsedFacts DEF RConstruct
    <2>2. phase' = phase /\ (unsound' = TRUE \/ UNCHANGED <<stale, unsound>>)
        BY DEF RConstruct
    <2> QED
        BY <2>1, <2>2 DEF FailureFirst
<1>2. CASE /\ n \in Bridges
           /\ live' = live \cup {n}
           /\ vrid' = [vrid EXCEPT ![n] = 0]
           /\ UNCHANGED <<table, stale, unsound>>
    <2>1. n \notin Vrfs
        BY <1>2, VrfAssumption
    <2>2. phase # "new"
        BY DEF RConstruct, Running
    <2>3. RTypeOK'
        BY <1>1, <1>2, VrfAssumption DEF RTypeOK
    <2>4. \A v \in Vrfs : vrid'[v] = vrid[v] /\ (v \in live' <=> v \in live)
        BY <1>2, <2>1 DEF RTypeOK, Names
    <2>5. OwnTables'
        BY <1>1, <1>2, <2>2, <2>4 DEF OwnTables
    <2> QED
        BY <1>1, <2>3, <2>5 DEF FailureFirst
<1>3. ASSUME n \in Vrfs, phase = "up", NEW i \in Vrids, table[i] = NoTable,
             table' = [table EXCEPT ![i] = EmptyTable],
             vrid' = [vrid EXCEPT ![n] = CreatedVrid(i)],
             live' = live \cup {n}, UNCHANGED <<stale, unsound>>
      PROVE  IInv'
    <2>1. vrid' = [vrid EXCEPT ![n] = i]
        BY <1>3 DEF CreatedVrid
    <2>2. RTypeOK'
        BY <1>1, <1>3, <2>1, EmptyTableType DEF RTypeOK
    <2>3. vrid'[n] = i /\ table'[i] # NoTable
        BY <1>3, <2>1, EmptyTableType DEF RTypeOK
    <2>4. ASSUME NEW v \in live \cap Vrfs
          PROVE  v # n /\ vrid'[v] = vrid[v] /\ vrid[v] \in Vrids /\ vrid[v] # i
                 /\ table'[vrid[v]] = table[vrid[v]]
        BY <1>3, <2>1, <2>4 DEF RConstruct, OwnTables, RTypeOK
    <2>5. OwnTables'
        BY <1>1, <1>3, <2>3, <2>4 DEF OwnTables
    <2> QED
        BY <1>1, <2>2, <2>5 DEF FailureFirst
<1>4. CASE /\ n \in Vrfs
           /\ stale' = stale \cup {n}
           /\ unsound' = TRUE
           /\ UNCHANGED <<live, vrid, table>>
    BY <1>1, <1>4 DEF RTypeOK, OwnTables, FailureFirst
<1> QED
    BY <1>2, <1>3, <1>4 DEF RConstruct

LEMMA DestroyPreserves ==
    ASSUME IInv, NEW n \in Names, RDestroy(n)
    PROVE  IInv'
<1> USE DEF IInv
<1>1. /\ broken' \in BOOLEAN /\ stale' = stale /\ unsound' = unsound
      /\ phase' = phase /\ vrid' = vrid /\ live' = live \ {n}
      /\ stale' # {} \/ broken' => unsound'
    <2>1. broken' \in BOOLEAN /\ (broken' => stale # {})
        BY HmapUsedFacts DEF RDestroy
    <2> QED
        BY <2>1 DEF RDestroy, StaleAfter, FailureFirst
<1>2. CASE table' = table
    BY <1>1, <1>2 DEF RTypeOK, OwnTables, FailureFirst
<1>3. CASE n \in Vrfs /\ phase = "up" /\ table' = [table EXCEPT ![vrid[n]] = NoTable]
    <2>1. RTypeOK'
        BY <1>1, <1>3 DEF RTypeOK
    <2>2. \A v \in live' \cap Vrfs : vrid[v] \in Vrids /\ table'[vrid[v]] = table[vrid[v]]
        BY <1>1, <1>3 DEF RTypeOK, OwnTables, RDestroy
    <2>3. OwnTables'
        BY <1>1, <1>3, <2>2 DEF OwnTables
    <2> QED
        BY <1>1, <2>1, <2>3 DEF FailureFirst
<1> QED
    BY <1>2, <1>3 DEF RDestroy

\* All three actions on routes of n: either the table changes, or the plugin stops.
LEMMA RoutePreserves ==
    ASSUME IInv, NEW n \in Names, NEW p \in IpPrefixes, NEW H \in SUBSET Hops,
           RRouteAdd(n, p, H) \/ RRouteDeleteNh(n, p, H) \/ RRouteDelete(n, p)
    PROVE  IInv'
<1> USE DEF IInv
<1>1. /\ UNCHANGED <<live, vrid, stale>>
      /\ phase' \in {phase, "aborted"} /\ phase \in {"up", "down"}
      /\ unsound' \in BOOLEAN /\ broken' \in BOOLEAN
      /\ stale' # {} \/ broken' => unsound'
    <2>1. /\ UNCHANGED <<live, vrid, stale>>
          /\ phase' \in {phase, "aborted"} /\ phase \in {"up", "down"}
        BY DEF RRouteAdd, RRouteDeleteNh, RRouteDelete, Routing, Running
    <2>2. UNCHANGED <<broken, unsound>> \/ (broken' = TRUE /\ unsound' = TRUE)
        BY DEF RRouteAdd, RRouteDeleteNh, RRouteDelete
    <2>3. CASE UNCHANGED <<broken, unsound>>
        BY <2>1, <2>3 DEF RTypeOK, FailureFirst
    <2>4. CASE broken' = TRUE /\ unsound' = TRUE
        BY <2>1, <2>4
    <2> QED
        BY <2>1, <2>2, <2>3, <2>4
<1>2. CASE table' = table
    BY <1>1, <1>2 DEF RTypeOK, OwnTables, FailureFirst
<1>3. ASSUME NEW G \in SUBSET Hops, RouteSet(n, p, G)
      PROVE  IInv'
    <2>1. /\ table' \in [Vrids -> [IpPrefixes -> SUBSET Hops] \cup {NoTable}]
          /\ \A i \in Vrids : table'[i] # NoTable <=> table[i] # NoTable
        BY <1>3, RouteSetFacts
    <2>2. RTypeOK'
        BY <1>1, <2>1 DEF RTypeOK
    <2>3. OwnTables'
        BY <1>1, <2>1 DEF OwnTables, RTypeOK
    <2> QED
        BY <1>1, <2>2, <2>3 DEF FailureFirst
<1>4. table' # table => table[vrid[n]] \in [IpPrefixes -> SUBSET Hops]
    BY DEF RRouteAdd, RRouteDeleteNh, RRouteDelete, RouteSet, Routing, RTypeOK
<1>5. table' # table => \E G \in SUBSET Hops : RouteSet(n, p, G)
    <2>1. ASSUME table' # table
          PROVE  /\ (table[vrid[n]][p] \cup H) \in SUBSET Hops
                 /\ (table[vrid[n]][p] \ H) \in SUBSET Hops
        BY <1>4, <2>1
    <2> QED
        BY <2>1 DEF RRouteAdd, RRouteDeleteNh, RRouteDelete
<1> QED
    BY <1>2, <1>3, <1>5

LEMMA StepPreserves == IInv /\ [RNext]_rvars => IInv'
<1> SUFFICES ASSUME IInv, [RNext]_rvars
             PROVE  IInv'
    OBVIOUS
<1>1. CASE RStart
    BY <1>1, StartPreserves
<1>2. CASE REnumerateNames
    BY <1>2, EnumerateNamesPreserves
<1>3. ASSUME NEW n \in Names, RDel(n) \/ RConstruct(n) \/ RDestroy(n)
      PROVE  IInv'
    BY <1>3, DelPreserves, ConstructPreserves, DestroyPreserves
<1>4. ASSUME NEW n \in Names, NEW p \in IpPrefixes, RRouteDelete(n, p)
      PROVE  IInv'
    <2>1. {} \in SUBSET Hops
        OBVIOUS
    <2> QED
        BY <1>4, <2>1, RoutePreserves
<1>5. ASSUME NEW n \in Names, NEW p \in IpPrefixes, NEW H \in SUBSET Hops,
             RRouteAdd(n, p, H) \/ RRouteDeleteNh(n, p, H)
      PROVE  IInv'
    BY <1>5, RoutePreserves
<1>6. CASE UNCHANGED rvars
    BY <1>6 DEF rvars, IInv, RTypeOK, OwnTables, FailureFirst
<1> QED
    BY <1>1, <1>2, <1>3, <1>4, <1>5, <1>6 DEF RNext

LEMMA Invariance == RSpec => []IInv
<1>1. RInit => IInv
    BY InitEstablishes
<1>2. IInv /\ [RNext]_rvars => IInv'
    BY StepPreserves
<1> QED
    BY <1>1, <1>2, PTL DEF RSpec

\* Ofprotos, virtual routers and routes keep their types: an ofproto's vrid is
\* the id of a router of the SDK.
THEOREM RoutersTyped == RSpec => []RTypeOK
<1>1. IInv => RTypeOK
    BY DEF IInv
<1> QED
    BY <1>1, Invariance, PTL

\* Freed and foreign memory is only met after a construct that failed or a
\* deletion of too many next hops.
THEOREM UndefinedIsEarned == RSpec => []UndefinedOnlyAfterFailure
<1>1. IInv => UndefinedOnlyAfterFailure
    BY DEF IInv, FailureFirst, UndefinedOnlyAfterFailure
<1> QED
    BY <1>1, Invariance, PTL

-----------------------------------------------------------------------------
(* The refinement of RouteTables.                                          *)

LEMMA InitRefines == RInit => Abstract!Init
BY DEF RInit, Abstract!Init, Routes, RoutesOf

\* No router, no table of an open VRF, has changed.
LEMMA Stutters ==
    ASSUME \A v \in Vrfs : RoutesOf(v)' = RoutesOf(v)
    PROVE  Routes' = Routes
BY DEF Routes

LEMMA DelRefines ==
    ASSUME IInv, NEW n \in Names, RDel(n)
    PROVE  Routes' = Routes \/ Routes' = [v \in Vrfs |-> NoTable]
<1>1. CASE UNCHANGED <<live, vrid, table>>
    BY <1>1 DEF Routes, RoutesOf
<1>2. CASE table' = [i \in Vrids |-> NoTable] /\ UNCHANGED <<live, vrid>>
    <2>1. \A v \in Vrfs : RoutesOf(v)' = NoTable
        BY <1>2 DEF RoutesOf, IInv, RTypeOK, Names
    <2> QED
        BY <2>1 DEF Routes
<1> QED
    BY <1>1, <1>2 DEF RDel

LEMMA ConstructRefines ==
    ASSUME IInv, NEW n \in Names, RConstruct(n)
    PROVE  \/ Routes' = Routes
           \/ /\ n \in Vrfs /\ Routes[n] = NoTable
              /\ Routes' = [Routes EXCEPT ![n] = EmptyTable]
<1> USE DEF IInv
<1>1. CASE n \in Bridges /\ table' = table /\ live' = live \cup {n}
           /\ vrid' = [vrid EXCEPT ![n] = 0]
    <2>1. n \notin Vrfs
        BY <1>1, VrfAssumption
    <2>2. \A v \in Vrfs : RoutesOf(v)' = RoutesOf(v)
        BY <1>1, <2>1 DEF RoutesOf, RTypeOK, Names
    <2> QED
        BY <2>2, Stutters
<1>2. ASSUME n \in Vrfs, phase = "up", NEW i \in Vrids, table[i] = NoTable,
             table' = [table EXCEPT ![i] = EmptyTable],
             vrid' = [vrid EXCEPT ![n] = CreatedVrid(i)], live' = live \cup {n}
      PROVE  /\ Routes[n] = NoTable
             /\ Routes' = [Routes EXCEPT ![n] = EmptyTable]
    <2>1. RoutesOf(n) = NoTable
        BY DEF RoutesOf, RConstruct
    <2>2. RoutesOf(n)' = EmptyTable
        BY <1>2 DEF RoutesOf, RTypeOK, CreatedVrid
    <2>3. ASSUME NEW v \in Vrfs \ {n}
          PROVE  RoutesOf(v)' = RoutesOf(v)
        <3>1. vrid'[v] = vrid[v] /\ (v \in live' <=> v \in live)
            BY <1>2, <2>3 DEF RTypeOK, Names
        <3>2. v \in live => vrid[v] \in Vrids /\ vrid[v] # i
            BY <1>2, <2>3 DEF RTypeOK, OwnTables, Names
        <3> QED
            BY <1>2, <3>1, <3>2 DEF RoutesOf, RTypeOK
    <2> QED
        BY <1>2, <2>1, <2>2, <2>3 DEF Routes
<1>3. CASE UNCHANGED <<live, vrid, table>>
    BY <1>3 DEF Routes, RoutesOf
<1> QED
    BY <1>1, <1>2, <1>3 DEF RConstruct

LEMMA DestroyRefines ==
    ASSUME IInv, NEW n \in Names, RDestroy(n)
    PROVE  \/ Routes' = Routes
           \/ n \in Vrfs /\ Routes' = [Routes EXCEPT ![n] = NoTable]
<1> USE DEF IInv
<1>1. live' = live \ {n} /\ vrid' = vrid /\ n \in live
    BY DEF RDestroy
<1>2. ASSUME NEW v \in Vrfs \ {n}
      PROVE  RoutesOf(v)' = RoutesOf(v)
    <2>1. v \in live => table'[vrid[v]] = table[vrid[v]]
        BY <1>1, <1>2 DEF RDestroy, RTypeOK, OwnTables, Names
    <2> QED
        BY <1>1, <1>2, <2>1 DEF RoutesOf
<1>3. RoutesOf(n)' = NoTable
    BY <1>1 DEF RoutesOf
<1>4. CASE n \in Vrfs
    BY <1>2, <1>3, <1>4 DEF Routes
<1>5. CASE n \notin Vrfs
    BY <1>2, <1>5, Stutters
<1> QED
    BY <1>4, <1>5

\* Setting the hops of a prefix in the router of n does so in the routes of n.
LEMMA RouteSetRefines ==
    ASSUME IInv, NEW n \in live \cap Vrfs, NEW p \in IpPrefixes,
           NEW H \in SUBSET Hops, RouteSet(n, p, H), UNCHANGED <<live, vrid>>
    PROVE  /\ Routes[n] # NoTable /\ Routes[n] = table[vrid[n]]
           /\ Routes' = [Routes EXCEPT ![n] = [Routes[n] EXCEPT ![p] = H]]
<1> USE DEF IInv
<1>1. /\ n \in Names /\ vrid[n] \in Vrids
      /\ table' = [table EXCEPT ![vrid[n]] = [table[vrid[n]] EXCEPT ![p] = H]]
    BY RouteSetFacts DEF RTypeOK, Names
<1>2. Routes[n] = table[vrid[n]] /\ table[vrid[n]] # NoTable /\ phase = "up"
    BY DEF Routes, RoutesOf, RouteSet
<1>3. RoutesOf(n)' = [table[vrid[n]] EXCEPT ![p] = H]
    BY <1>1 DEF RoutesOf, RTypeOK
<1>4. ASSUME NEW v \in Vrfs \ {n}
      PROVE  RoutesOf(v)' = RoutesOf(v)
    <2>1. v \in live => vrid[v] \in Vrids /\ vrid[v] # vrid[n]
        BY <1>2, <1>4 DEF RTypeOK, OwnTables, Names
    <2> QED
        BY <1>1, <2>1 DEF RoutesOf, RTypeOK
<1> QED
    BY <1>2, <1>3, <1>4 DEF Routes

\* Any action on a route of VRF n is an abstract one on that route, or a stutter.
LEMMA RouteRefines ==
    ASSUME IInv, NEW n \in Names, NEW p \in IpPrefixes, NEW H \in SUBSET Hops,
           RRouteAdd(n, p, H) \/ RRouteDeleteNh(n, p, H) \/ RRouteDelete(n, p)
    PROVE  Abstract!Next \/ Routes' = Routes
<1>1. n \in live \cap Vrfs /\ UNCHANGED <<live, vrid>>
    BY DEF RRouteAdd, RRouteDeleteNh, RRouteDelete, Routing
<1>2. CASE table' = table
    BY <1>1, <1>2 DEF Routes, RoutesOf
<1>3. ASSUME NEW G \in SUBSET Hops, RouteSet(n, p, G)
      PROVE  /\ Routes[n] # NoTable /\ Routes[n] = table[vrid[n]]
             /\ Routes' = [Routes EXCEPT ![n] = [Routes[n] EXCEPT ![p] = G]]
             /\ Routes[n][p] \in SUBSET Hops
    <2>1. table[vrid[n]] \in [IpPrefixes -> SUBSET Hops]
        BY <1>3, RouteSetFacts DEF IInv
    <2> QED
        BY <1>1, <1>3, <2>1, RouteSetRefines
<1>4. CASE table' # table /\ RRouteAdd(n, p, H)
    <2>1. RouteSet(n, p, table[vrid[n]][p] \cup H)
        BY <1>4 DEF RRouteAdd
    <2>2. table[vrid[n]][p] \cup H \in SUBSET Hops
        BY <2>1 DEF RouteSet, IInv, RTypeOK
    <2>3. Abstract!Add(n, p, H)
        BY <1>3, <2>1, <2>2 DEF Abstract!Add
    <2> QED
        BY <1>1, <2>3 DEF Abstract!Next
<1>5. CASE table' # table /\ RRouteDeleteNh(n, p, H)
    <2>1. RouteSet(n, p, table[vrid[n]][p] \ H)
        BY <1>5 DEF RRouteDeleteNh
    <2>2. table[vrid[n]][p] \ H \in SUBSET Hops
        BY <2>1 DEF RouteSet, IInv, RTypeOK
    <2>3. Abstract!Remove(n, p, H)
        BY <1>3, <2>1, <2>2 DEF Abstract!Remove
    <2> QED
        BY <1>1, <2>3 DEF Abstract!Next
<1>6. CASE table' # table /\ RRouteDelete(n, p)
    <2>1. RouteSet(n, p, {})
        BY <1>6 DEF RRouteDelete
    <2>2. Routes[n][p] \ Hops = {}
        BY <1>3, <2>1
    <2>3. Abstract!Remove(n, p, Hops)
        BY <1>3, <2>1, <2>2 DEF Abstract!Remove
    <2> QED
        BY <1>1, <2>3 DEF Abstract!Next
<1> QED
    BY <1>2, <1>4, <1>5, <1>6

LEMMA StepRefines == IInv /\ [RNext]_rvars => [Abstract!Next]_Routes
<1> SUFFICES ASSUME IInv, [RNext]_rvars
             PROVE  Abstract!Next \/ Routes' = Routes
    OBVIOUS
<1>1. CASE RStart \/ REnumerateNames \/ UNCHANGED rvars
    BY <1>1 DEF RStart, REnumerateNames, rvars, Routes, RoutesOf
<1>2. ASSUME NEW n \in Names, RDel(n)
      PROVE  Abstract!Next \/ Routes' = Routes
    BY <1>2, DelRefines DEF Abstract!Next, Abstract!Lose
<1>3. ASSUME NEW n \in Names, RConstruct(n)
      PROVE  Abstract!Next \/ Routes' = Routes
    <2>1. EmptyTable = Abstract!Empty
        BY DEF EmptyTable, Abstract!Empty
    <2> QED
        BY <1>3, <2>1, ConstructRefines DEF Abstract!Next, Abstract!Open
<1>4. ASSUME NEW n \in Names, RDestroy(n)
      PROVE  Abstract!Next \/ Routes' = Routes
    BY <1>4, DestroyRefines DEF Abstract!Next, Abstract!Close
<1>5. ASSUME NEW n \in Names, NEW p \in IpPrefixes, NEW H \in SUBSET Hops,
             RRouteAdd(n, p, H) \/ RRouteDeleteNh(n, p, H) \/ RRouteDelete(n, p)
      PROVE  Abstract!Next \/ Routes' = Routes
    BY <1>5, RouteRefines
<1>6. ASSUME NEW n \in Names, NEW p \in IpPrefixes, RRouteDelete(n, p)
      PROVE  Abstract!Next \/ Routes' = Routes
    <2>1. {} \in SUBSET Hops
        OBVIOUS
    <2> QED
        BY <1>5, <1>6, <2>1
<1> QED
    BY <1>1, <1>2, <1>3, <1>4, <1>5, <1>6 DEF RNext

\* Virtual routers are tables of routes, one for each open VRF and nobody else's:
\* ids that are given again, routers that stay behind and a plugin torn down under
\* open VRFs change nothing about that.
THEOREM RoutersAreRouteTables == RSpec => ImplementsRouteTables
<1>1. RInit => Abstract!Init
    BY InitRefines
<1>2. IInv /\ [RNext]_rvars => [Abstract!Next]_Routes
    BY StepRefines
<1> QED
    BY <1>1, <1>2, Invariance, PTL DEF RSpec, ImplementsRouteTables, Abstract!Spec

-----------------------------------------------------------------------------
(* The whole plugin.                                                       *)

\* Whatever the plugin does besides, its ofprotos, routers and routes behave as
\* VirtualRouters.
LEMMA PluginIsRouters == Spec => RSpec
<1>1. Init => RInit
    BY DEF Init
<1>2. [Next]_vars => [RNext]_rvars
    <2> SUFFICES ASSUME [Next]_vars
                 PROVE  RNext \/ UNCHANGED rvars
        OBVIOUS
    <2>1. CASE Start \/ EnumerateNames
        BY <2>1 DEF Start, EnumerateNames, RNext
    <2>2. CASE PortDump
        BY <2>2 DEF PortDump, DumpPort, DumpAgain, DumpEof, PortDumpDone
    <2>3. ASSUME NEW n \in Names, Del(n) \/ Construct(n) \/ Destroy(n)
          PROVE  RNext
        BY <2>3 DEF Del, Construct, Destroy, RNext
    <2>4. ASSUME NEW n \in Names, NEW x \in PortNames,
                 PortDumpStart(n) \/ PortAdd(n, x) \/ PortDel(n, x)
          PROVE  UNCHANGED rvars
        BY <2>4 DEF PortDumpStart, PortAdd, PortDel
    <2>5. ASSUME NEW n \in Names, PortDumpStart(n)
          PROVE  UNCHANGED rvars
        BY <2>5 DEF PortDumpStart
    <2>6. ASSUME NEW n \in Names, NEW p \in IpPrefixes, NEW H \in SUBSET Hops,
                 RouteAction(n, p, H)
          PROVE  RNext
        BY <2>6 DEF RouteAction, RNext
    <2>7. CASE RegisterTraps \/ UNCHANGED vars
        BY <2>7 DEF RegisterTraps, vars
    <2> QED
        BY <2>1, <2>2, <2>3, <2>4, <2>5, <2>6, <2>7 DEF Next
<1> QED
    BY <1>1, <1>2, PTL DEF Spec, RSpec

\* In the whole plugin too, each open VRF has a table of routes of its own.
THEOREM PluginIsRouteTables == Spec => ImplementsRouteTables
BY PluginIsRouters, RoutersAreRouteTables, PTL

\* In the whole plugin too, freed and foreign memory is only met after a failure.
THEOREM PluginUndefinedIsEarned == Spec => []UndefinedOnlyAfterFailure
BY PluginIsRouters, UndefinedIsEarned, PTL

-----------------------------------------------------------------------------
(* A listing of ports.                                                     *)

\* How often x has been reported: once for each time it has been passed.
Passes(x) ==
    (IF dump.ghost THEN 1 ELSE 0) + (IF x \in dump.todo THEN 0 ELSE 1)

\* While a listing goes on, every known port of the ofproto has been reported as
\* often as it was passed, and no other port has.
Listing ==
    /\ dump.of \in Names /\ dump.todo \subseteq ports[dump.of]
    /\ \A x \in PortNames :
          dump.reported[x] =
              IF x \in ports[dump.of] \cap dump.known THEN Passes(x) ELSE 0
    /\ dump.eof => dump.ghost /\ dump.todo = {}

DumpShape ==
    dump \in [of : Names \cup {None}, todo : SUBSET PortNames, known : SUBSET PortNames,
              ghost : BOOLEAN, eof : BOOLEAN, reported : [PortNames -> Nat]]

DumpInv ==
    /\ ports \in [Names -> SUBSET PortNames]
    /\ DumpShape
    /\ AtRest \/ Listing

LEMMA NoDumpIsTyped ==
    /\ NoDump \in [of : Names \cup {None}, todo : SUBSET PortNames,
                   known : SUBSET PortNames, ghost : BOOLEAN, eof : BOOLEAN,
                   reported : [PortNames -> Nat]]
    /\ ~NoDump.eof
BY DEF NoDump

LEMMA PortDumpPreserves == DumpInv /\ PortDump => DumpInv'
<1> SUFFICES ASSUME DumpInv, PortDump
             PROVE  DumpInv'
    OBVIOUS
<1> USE DEF DumpInv
<1>1. ports' = ports
    BY DEF PortDump, DumpPort, DumpAgain, DumpEof, PortDumpDone
<1>2. ASSUME NEW x \in PortNames, DumpPort(x)
      PROVE  DumpShape' /\ Listing'
    <2>1. /\ Listing /\ x \in dump.todo
          /\ dump' = [dump EXCEPT !.todo = @ \ {x},
                                  !.reported[x] = IF x \in dump.known THEN @ + 1 ELSE @]
        BY <1>2 DEF DumpPort, PortQueryByName
    <2>2. DumpShape'
        <3> DEFINE r == [dump.reported EXCEPT ![x] = IF x \in dump.known THEN @ + 1 ELSE @]
        <3>1. r \in [PortNames -> Nat]
            BY DEF DumpShape
        <3>2. dump' = [dump EXCEPT !.todo = @ \ {x}, !.reported = r]
            BY <2>1
        <3>3. dump.todo \ {x} \in SUBSET PortNames
            BY DEF DumpShape
        <3> HIDE DEF r
        <3> QED
            BY <3>1, <3>2, <3>3 DEF DumpShape
    <2>3. ASSUME NEW y \in PortNames
          PROVE  dump'.reported[y] =
                    IF y \in ports[dump.of] \cap dump.known THEN Passes(y)' ELSE 0
        <3>1. x \in ports[dump.of]
            BY <2>1 DEF Listing
        <3>2. dump.reported[y] =
                 IF y \in ports[dump.of] \cap dump.known THEN Passes(y) ELSE 0
            BY <2>1 DEF Listing
        <3>3. dump'.ghost = dump.ghost /\ dump'.todo = dump.todo \ {x}
            BY <2>1 DEF DumpShape
        <3>4. CASE y = x
            <4>1. dump'.reported[y] = IF x \in dump.known THEN dump.reported[x] + 1
                                                          ELSE dump.reported[x]
                BY <2>1, <3>4 DEF DumpShape
            <4> QED
                BY <2>1, <3>1, <3>2, <3>3, <3>4, <4>1 DEF Passes
        <3>5. CASE y # x
            <4>1. dump'.reported[y] = dump.reported[y]
                BY <2>1, <3>5 DEF DumpShape
            <4> QED
                BY <3>2, <3>3, <3>5, <4>1 DEF Passes
        <3> QED
            BY <3>4, <3>5
    <2>4. /\ dump'.of = dump.of /\ dump'.known = dump.known /\ dump'.eof = dump.eof
          /\ dump'.todo = dump.todo \ {x} /\ dump'.ghost = dump.ghost
        BY <2>1 DEF DumpShape
    <2> QED
        BY <1>1, <2>1, <2>2, <2>3, <2>4 DEF Listing
<1>3. CASE DumpAgain
    <2>1. /\ Listing /\ dump.todo = {} /\ ~dump.ghost
          /\ dump' = [dump EXCEPT !.todo = ports[dump.of], !.ghost = TRUE]
        BY <1>3 DEF DumpAgain, Again
    <2>2. /\ dump'.of = dump.of /\ dump'.known = dump.known /\ dump'.eof = dump.eof
          /\ dump'.todo = ports[dump.of] /\ dump'.ghost /\ dump'.reported = dump.reported
        BY <2>1 DEF DumpShape
    <2>3. ports[dump.of] \in SUBSET PortNames /\ ~dump.eof
        BY <2>1 DEF Listing
    <2>4. DumpShape'
        BY <2>1, <2>3 DEF DumpShape
    <2>5. Listing'
        BY <1>1, <2>1, <2>2, <2>3 DEF Listing, Passes
    <2> QED
        BY <1>1, <2>4, <2>5
<1>4. CASE DumpEof
    <2>1. /\ Listing /\ dump.todo = {} /\ dump.ghost
          /\ dump' = [dump EXCEPT !.eof = TRUE]
        BY <1>4 DEF DumpEof
    <2>2. DumpShape'
        BY <2>1 DEF DumpShape
    <2>3. /\ dump'.of = dump.of /\ dump'.known = dump.known /\ dump'.todo = dump.todo
          /\ dump'.ghost = dump.ghost /\ dump'.reported = dump.reported
        BY <2>1 DEF DumpShape
    <2>4. Listing'
        BY <1>1, <2>1, <2>3 DEF Listing, Passes
    <2> QED
        BY <1>1, <2>2, <2>4
<1>5. CASE PortDumpDone
    BY <1>1, <1>5, NoDumpIsTyped DEF PortDumpDone, AtRest, DumpShape
<1> QED
    BY <1>1, <1>2, <1>3, <1>4, <1>5 DEF PortDump

LEMMA PortsPreserve == DumpInv /\ [Next]_vars => DumpInv'
<1> SUFFICES ASSUME DumpInv, [Next]_vars
             PROVE  DumpInv'
    OBVIOUS
<1>1. CASE PortDump
    BY <1>1, PortDumpPreserves
<1>2. CASE UNCHANGED <<ports, dump>>
    BY <1>2 DEF DumpInv, DumpShape, Listing, Passes, AtRest
<1>3. CASE AtRest /\ dump' = dump /\ ports' \in [Names -> SUBSET PortNames]
    BY <1>3 DEF DumpInv, DumpShape, AtRest
<1>4. ASSUME NEW n \in Names, NEW x \in PortNames, PortAdd(n, x) \/ PortDel(n, x)
      PROVE  AtRest /\ dump' = dump /\ ports' \in [Names -> SUBSET PortNames]
    BY <1>4 DEF PortAdd, PortDel, DumpInv, Idle
<1>5. ASSUME NEW n \in Names, Destroy(n)
      PROVE  AtRest /\ dump' = dump /\ ports' \in [Names -> SUBSET PortNames]
    BY <1>5 DEF Destroy, DumpInv, Idle
<1>6. ASSUME NEW n \in Names, PortDumpStart(n)
      PROVE  DumpInv'
    <2>1. PICK known \in SUBSET PortNames :
              dump' = [NoDump EXCEPT !.of = n, !.todo = ports[n], !.known = known]
        BY <1>6 DEF PortDumpStart
    <2>2. ports' = ports /\ ports[n] \in SUBSET PortNames
        BY <1>6 DEF PortDumpStart, DumpInv
    <2>3. dump' = [of |-> n, todo |-> ports[n], known |-> known, ghost |-> FALSE,
                   eof |-> FALSE, reported |-> [x \in PortNames |-> 0]]
        BY <2>1 DEF NoDump
    <2>4. DumpShape'
        BY <2>2, <2>3 DEF DumpShape
    <2>5. Listing'
        BY <2>2, <2>3 DEF Listing, Passes
    <2> QED
        BY <2>2, <2>4, <2>5 DEF DumpInv
<1>7. CASE Start \/ RegisterTraps \/ EnumerateNames \/ UNCHANGED vars
    BY <1>2, <1>7 DEF Start, RegisterTraps, EnumerateNames, vars
<1>8. ASSUME NEW n \in Names, Del(n) \/ Construct(n)
      PROVE  UNCHANGED <<ports, dump>>
    BY <1>8 DEF Del, Construct
<1>9. ASSUME NEW n \in Names, NEW p \in IpPrefixes, NEW H \in SUBSET Hops,
             RouteAction(n, p, H)
      PROVE  UNCHANGED <<ports, dump>>
    BY <1>9 DEF RouteAction
<1> QED
    BY <1>1, <1>2, <1>3, <1>4, <1>5, <1>6, <1>7, <1>8, <1>9 DEF Next

\* A listing that says it has come to its end has reported every port that has a
\* netdev twice and no other port, for any set of ports.
THEOREM ListingsAreComplete == Spec => [](dump.eof => DumpIsComplete)
<1>1. Init => DumpInv
    BY NoDumpIsTyped DEF Init, DumpInv, DumpShape, AtRest
<1>2. DumpInv => (dump.eof => DumpIsComplete)
    BY NoDumpIsTyped DEF DumpInv, AtRest, Listing, Passes, DumpIsComplete
<1> QED
    BY <1>1, <1>2, PortsPreserve, PTL DEF Spec

-----------------------------------------------------------------------------
(* Traps.  After n turns of the two loops the switch is as Registered says: *)
(* SAI takes the first groups that are free, so that all groups in use come *)
(* one after the other, and so do policers.                                 *)

\* How many groups SAI has at boot.
Booted == Cardinality(SaiGroups)

\* The config of turn m.
ConfigAt(m) == IF m <= 8 THEN SaiConfig[m] ELSE VendorConfig[m - 8]

Turns(n) == IF n <= 8 THEN n ELSE 8

Shape(h) ==
    h = [policer |-> h.policer, group |-> h.group, sai |-> h.sai, trap |-> h.trap,
         entries |-> h.entries, vendor |-> h.vendor]

GroupsAfter(n) ==
    [g \in GroupIds |-> IF g \in Booted .. Booted + n - 1 THEN g - Booted + 1 ELSE None]

Bound(h, n) ==
    \A m \in 1 .. n : \A t \in ConfigAt(m).traps :
        t \in DOMAIN h.trap /\ h.trap[t].group = Booted + m - 1

Registered(h, n) ==
    /\ Shape(h)
    /\ h.policer \in Seq(Nat) /\ Len(h.policer) = n
    /\ \A m \in 1 .. n : h.policer[m] = ConfigAt(m).rate
    /\ h.group = GroupsAfter(n)
    /\ h.sai = 0 .. Booted + Turns(n) - 1
    /\ h.entries \in Seq(Nat) /\ Len(h.entries) = Turns(n)
    /\ \A m \in 1 .. Turns(n) : h.entries[m] = Booted + m - 1
    /\ h.vendor \in Seq(Nat) /\ Len(h.vendor) = n - Turns(n)
    /\ \A m \in 1 .. n - Turns(n) : h.vendor[m] = Booted + 8 + m - 1
    /\ Bound(h, n)

\* What both traps_unregister leave.
Unregistered(h) ==
    /\ DOMAIN h.policer = 1 .. 8
    /\ h.group = [g \in GroupIds |-> None]
    /\ h.sai \subseteq GroupIds

TrapsInv ==
    CASE phase = "new"  -> traps = NoTraps
      [] phase = "up"   -> RoomForTraps /\ \E n \in 0 .. 10 : Registered(traps, n)
      [] phase = "down" -> Unregistered(traps)
      [] OTHER          -> \/ traps = NoTraps \/ Unregistered(traps)
                           \/ RoomForTraps /\ \E n \in 0 .. 10 : Registered(traps, n)

LEMMA TableSizes ==
    /\ Len(SaiConfig) = 8 /\ DOMAIN SaiConfig = 1 .. 8
    /\ Len(VendorConfig) = 2 /\ DOMAIN VendorConfig = 1 .. 2
BY DEF SaiConfig, VendorConfig

\* The tables, row by row.
LEMMA Rows ==
    /\ ConfigAt(1).traps = {"ARP_REQUEST", "ARP_RESPONSE", "IPV6_NEIGHBOR_DISCOVERY"}
    /\ ConfigAt(2).traps = {"DHCP"}
    /\ ConfigAt(3).traps = {"DHCPV6"}
    /\ ConfigAt(4).traps = {"LACP"}
    /\ ConfigAt(5).traps = {"LLDP"}
    /\ ConfigAt(6).traps = {"OSPF", "OSPFV6"}
    /\ ConfigAt(7).traps = {"SAMPLEPACKET"}
    /\ ConfigAt(8).traps = {"STP"}
    /\ ConfigAt(9).traps = {"IP2ME"}
    /\ ConfigAt(10).traps = {"UC_IP", "HOST_MISS_IPV4", "HOST_MISS_IPV6"}
BY DEF ConfigAt, SaiConfig, VendorConfig, Config

LEMMA Rates ==
    \A m \in 1 .. 10 : ConfigAt(m).rate \in Nat
BY DEF ConfigAt, SaiConfig, VendorConfig, Config

\* No trap is in two configs.
LEMMA TrapsDisjoint ==
    ASSUME NEW m \in 1 .. 10, NEW n \in 1 .. 10, m # n
    PROVE  ConfigAt(m).traps \cap ConfigAt(n).traps = {}
<1>1. \/ m = 1 \/ m = 2 \/ m = 3 \/ m = 4 \/ m = 5
      \/ m = 6 \/ m = 7 \/ m = 8 \/ m = 9 \/ m = 10
    OBVIOUS
<1>2. \/ n = 1 \/ n = 2 \/ n = 3 \/ n = 4 \/ n = 5
      \/ n = 6 \/ n = 7 \/ n = 8 \/ n = 9 \/ n = 10
    OBVIOUS
<1> QED
    BY <1>1, <1>2, Rows

LEMMA BootedFacts ==
    /\ Booted \in Nat /\ SaiGroups = 0 .. Booted - 1
    /\ GroupsMax \in Nat /\ Booted <= GroupsMax
<1>1. PICK k \in 0 .. GroupsMax : SaiGroups = 0 .. k - 1
    BY TrapsAssumption
<1>2. Cardinality(0 .. k - 1) = k
    BY <1>1, TrapsAssumption, FS_Interval
<1> QED
    BY <1>1, <1>2, TrapsAssumption DEF Booted

LEMMA RoomFacts == RoomForTraps => Booted + 10 <= GroupsMax
BY TableSizes, BootedFacts DEF RoomForTraps, Booted

LEMMA NothingRegistered == Registered(NoTraps, 0)
<1>1. GroupsAfter(0) = [g \in GroupIds |-> None]
    BY BootedFacts DEF GroupsAfter
<1>2. Booted + Turns(0) - 1 = Booted - 1 /\ Turns(0) = 0
    BY BootedFacts DEF Turns
<1> QED
    BY <1>1, <1>2, BootedFacts DEF Registered, Shape, NoTraps, Bound

\* The first group that is free is the one after those that are taken.
LEMMA LeastFree ==
    ASSUME NEW k \in Nat, k < GroupsMax
    PROVE  Least(GroupIds \ (0 .. k - 1)) = k
<1> DEFINE free == GroupIds \ (0 .. k - 1)
<1>1. k \in free /\ \A j \in free : k <= j
    BY BootedFacts DEF GroupIds
<1>2. \A i \in free : (\A j \in free : i <= j) => i = k
    BY <1>1, BootedFacts DEF GroupIds
<1> QED
    BY <1>1, <1>2 DEF Least

\* What a turn has in common in both classes.
LEMMA GroupSetFacts ==
    ASSUME NEW h, NEW n \in 0 .. 9, Registered(h, n), RoomForTraps,
           NEW s, s = GroupSet(h, ConfigAt(n + 1), Booted + n)
    PROVE  /\ Shape(s)
           /\ s.sai = h.sai /\ s.entries = h.entries /\ s.vendor = h.vendor
           /\ s.policer \in Seq(Nat) /\ Len(s.policer) = n + 1
           /\ \A m \in 1 .. n + 1 : s.policer[m] = ConfigAt(m).rate
           /\ s.group = GroupsAfter(n + 1)
           /\ Bound(s, n + 1)
<1> DEFINE c == ConfigAt(n + 1)
           g == Booted + n
<1>1. n + 1 \in 1 .. 10 /\ g \in GroupIds /\ g \in Nat /\ c.rate \in Nat
    <2>1. n + 1 \in 1 .. 10
        OBVIOUS
    <2>2. g \in GroupIds /\ g \in Nat
        BY BootedFacts, RoomFacts DEF GroupIds
    <2> QED
        BY <2>1, <2>2, Rates
<1>2. s = [policer |-> Append(h.policer, c.rate), group |-> [h.group EXCEPT ![g] = n + 1],
           sai |-> h.sai, trap |-> TrapsBind(h, c, g), entries |-> h.entries,
           vendor |-> h.vendor]
    <2>1. /\ Len(h.policer) = n /\ Shape(h)
          /\ s = [h EXCEPT !.policer = Append(@, c.rate), !.group[g] = Len(h.policer) + 1,
                           !.trap = TrapsBind(h, c, g)]
        BY DEF Registered, GroupSet
    <2> HIDE DEF c, g
    <2> QED
        BY <2>1 DEF Shape
<1>3. /\ s.policer \in Seq(Nat) /\ Len(s.policer) = n + 1
      /\ \A m \in 1 .. n + 1 : s.policer[m] = ConfigAt(m).rate
    <2>1. /\ s.policer = Append(h.policer, c.rate) /\ h.policer \in Seq(Nat)
          /\ Len(h.policer) = n /\ \A m \in 1 .. n : h.policer[m] = ConfigAt(m).rate
        BY <1>2 DEF Registered
    <2>2. c.rate \in Nat /\ c = ConfigAt(n + 1)
        BY <1>1
    <2>3. Append(h.policer, c.rate) \in Seq(Nat) /\ Len(Append(h.policer, c.rate)) = n + 1
        BY <2>1, <2>2
    <2>4. ASSUME NEW m \in 1 .. n + 1
          PROVE  s.policer[m] = IF m <= n THEN h.policer[m] ELSE c.rate
        BY <2>1, <2>2, <2>4
    <2>5. ASSUME NEW m \in 1 .. n + 1
          PROVE  s.policer[m] = ConfigAt(m).rate
        <3>1. CASE m <= n
            BY <2>1, <2>4, <3>1
        <3>2. CASE m = n + 1
            BY <2>2, <2>4, <3>2
        <3> QED
            BY <3>1, <3>2
    <2> QED
        BY <2>1, <2>3, <2>5
<1>4. s.group = GroupsAfter(n + 1)
    <2>1. s.group = [GroupsAfter(n) EXCEPT ![g] = n + 1]
        <3>1. h.group = GroupsAfter(n)
            BY DEF Registered
        <3> HIDE DEF c, g
        <3>2. s.group = [h.group EXCEPT ![g] = n + 1]
            BY <1>2
        <3> QED
            BY <3>1, <3>2
    <2>2. ASSUME NEW i \in GroupIds
          PROVE  s.group[i] = GroupsAfter(n + 1)[i]
        <3>1. i \in Nat /\ Booted \in Nat
            BY BootedFacts DEF GroupIds
        <3>2. CASE i = g
            BY <1>1, <2>1, <3>1, <3>2 DEF GroupsAfter
        <3>3. CASE i # g
            <4>1. i \in Booted .. Booted + n - 1 <=> i \in Booted .. Booted + (n + 1) - 1
                BY <3>1, <3>3
            <4> QED
                BY <1>1, <2>1, <3>3, <4>1 DEF GroupsAfter
        <3> QED
            BY <3>2, <3>3
    <2> QED
        BY <2>1, <2>2 DEF GroupsAfter
<1>5. Bound(s, n + 1)
    <2>1. s.trap = TrapsBind(h, c, g) /\ Bound(h, n)
        BY <1>2 DEF Registered
    <2>2. ASSUME NEW t \in c.traps
          PROVE  t \in DOMAIN s.trap /\ s.trap[t].group = g
        BY <2>1, <2>2 DEF TrapsBind
    <2>3. ASSUME NEW m \in 1 .. n, NEW t \in ConfigAt(m).traps
          PROVE  t \in DOMAIN s.trap /\ s.trap[t].group = Booted + m - 1
        <3>1. m \in 1 .. 10 /\ m # n + 1
            OBVIOUS
        <3>2. t \notin c.traps
            BY <1>1, <3>1, TrapsDisjoint
        <3>3. t \in DOMAIN h.trap /\ h.trap[t].group = Booted + m - 1
            BY <2>1 DEF Bound
        <3> QED
            BY <2>1, <3>2, <3>3 DEF TrapsBind
    <2>4. \A m \in 1 .. n + 1 : m \in 1 .. n \/ m = n + 1
        OBVIOUS
    <2> QED
        BY <2>2, <2>3, <2>4, BootedFacts DEF Bound
<1> QED
    BY <1>2, <1>3, <1>4, <1>5 DEF Shape

LEMMA TurnRegisters ==
    ASSUME NEW h, NEW n \in 0 .. 9, Registered(h, n), RoomForTraps
    PROVE  Registered(TrapsTurn(h), n + 1)
<1> DEFINE c == ConfigAt(n + 1)
           s == GroupSet(h, c, Booted + n)
<1>1. /\ Shape(s)
      /\ s.sai = h.sai /\ s.entries = h.entries /\ s.vendor = h.vendor
      /\ s.policer \in Seq(Nat) /\ Len(s.policer) = n + 1
      /\ \A m \in 1 .. n + 1 : s.policer[m] = ConfigAt(m).rate
      /\ s.group = GroupsAfter(n + 1)
      /\ Bound(s, n + 1)
    BY GroupSetFacts
<1>2. Booted + n < GroupsMax /\ Booted \in Nat
    BY BootedFacts, RoomFacts
<1>3. CASE n < 8
    <2>1. /\ Turns(n) = n /\ Turns(n + 1) = n + 1
          /\ Len(h.entries) = n /\ h.sai = 0 .. Booted + n - 1
        BY <1>3 DEF Turns, Registered
    <2>2. Least(GroupIds \ h.sai) = Booted + n
        BY <1>2, <2>1, LeastFree
    <2>3. c = SaiConfig[n + 1]
        BY <1>3 DEF ConfigAt
    <2>4. TrapsTurn(h) = [s EXCEPT !.sai = @ \cup {Booted + n},
                                   !.entries = Append(@, Booted + n)]
        BY <1>3, <2>1, <2>2, <2>3, TableSizes DEF TrapsTurn, RegisterSai
    <2> DEFINE t == TrapsTurn(h)
    <2> HIDE DEF c, s
    <2>5. /\ t = [policer |-> s.policer, group |-> s.group,
                  sai |-> h.sai \cup {Booted + n}, trap |-> s.trap,
                  entries |-> Append(h.entries, Booted + n), vendor |-> h.vendor]
        BY <1>1, <2>4 DEF Shape
    <2>6. t.sai = 0 .. Booted + Turns(n + 1) - 1
        <3>1. t.sai = (0 .. Booted + n - 1) \cup {Booted + n}
            BY <2>1, <2>5
        <3>2. Booted + Turns(n + 1) - 1 = Booted + n /\ Booted + n \in Nat
            BY <1>2, <2>1
        <3> HIDE DEF t
        <3> QED
            BY <1>2, <3>1, <3>2
    <2>7. /\ t.entries \in Seq(Nat) /\ Len(t.entries) = n + 1
          /\ \A m \in 1 .. n + 1 : t.entries[m] = Booted + m - 1
        <3>1. /\ h.entries \in Seq(Nat) /\ Len(h.entries) = n
              /\ \A m \in 1 .. n : h.entries[m] = Booted + m - 1
            BY <2>1 DEF Registered
        <3> QED
            BY <1>2, <2>5, <3>1
    <2>8. /\ t.vendor = h.vendor /\ h.vendor \in Seq(Nat) /\ Len(h.vendor) = 0
        BY <2>1, <2>5 DEF Registered
    <2>9. Bound(t, n + 1)
        BY <1>1, <2>5 DEF Bound
    <2> HIDE DEF t
    <2>10. (n + 1) - Turns(n + 1) = 0 /\ Shape(t)
        BY <2>1, <2>5 DEF Shape
    <2>11. /\ t.policer = s.policer /\ t.group = s.group
        BY <2>5
    <2>12. Registered(t, n + 1)
        <3>1. /\ t.policer \in Seq(Nat) /\ Len(t.policer) = n + 1
              /\ \A m \in 1 .. n + 1 : t.policer[m] = ConfigAt(m).rate
              /\ t.group = GroupsAfter(n + 1)
            BY <1>1, <2>11
        <3>2. /\ t.entries \in Seq(Nat) /\ Len(t.entries) = Turns(n + 1)
              /\ \A m \in 1 .. Turns(n + 1) : t.entries[m] = Booted + m - 1
            BY <2>1, <2>7
        <3>3. /\ t.vendor \in Seq(Nat) /\ Len(t.vendor) = (n + 1) - Turns(n + 1)
              /\ \A m \in 1 .. (n + 1) - Turns(n + 1) : t.vendor[m] = Booted + 8 + m - 1
            BY <2>8, <2>10
        <3> QED
            BY Zenon, <2>6, <2>9, <2>10, <3>1, <3>2, <3>3 DEF Registered
    <2> QED
        BY <2>12 DEF t
<1>4. CASE n >= 8
    <2>0. Turns(n) = 8 /\ Turns(n + 1) = 8
        BY <1>4 DEF Turns
    <2>1. /\ Turns(n) = 8 /\ Turns(n + 1) = 8
          /\ Len(h.entries) = 8 /\ h.sai = 0 .. Booted + 8 - 1
          /\ h.vendor \in Seq(Nat) /\ Len(h.vendor) = n - 8
          /\ \A m \in 1 .. n - 8 : h.vendor[m] = Booted + 8 + m - 1
        BY <2>0 DEF Registered
    <2>2. VendorGroup(FreeGroup(h), n - 8 + 1) = Booted + n
        <3>1. Booted + 8 < GroupsMax /\ Booted + 8 \in Nat
            BY <1>4, BootedFacts, RoomFacts
        <3>a. PICK k \in Nat : k = Booted + 8
            BY <3>1
        <3>b. Least(GroupIds \ (0 .. k - 1)) = k
            BY <3>1, <3>a, LeastFree
        <3>c. h.sai = 0 .. k - 1
            BY <1>2, <2>1, <3>a
        <3>2. FreeGroup(h) = Booted + 8
            BY <3>a, <3>b, <3>c DEF FreeGroup
        <3> QED
            BY <1>2, <3>2 DEF VendorGroup
    <2>3. c = VendorConfig[n - 8 + 1]
        <3>1. n + 1 - 8 = n - 8 + 1 /\ ~(n + 1 <= 8)
            BY <1>4
        <3> QED
            BY <3>1 DEF ConfigAt
    <2>4. TrapsTurn(h) = [s EXCEPT !.vendor = Append(@, Booted + n)]
        <3>1. TrapsTurn(h) = RegisterVendor(h, n - 8 + 1)
            BY <2>1, TableSizes DEF TrapsTurn
        <3> QED
            BY <2>2, <2>3, <3>1 DEF RegisterVendor
    <2> DEFINE t == TrapsTurn(h)
    <2> HIDE DEF c, s
    <2>5. t = [policer |-> s.policer, group |-> s.group, sai |-> h.sai, trap |-> s.trap,
               entries |-> h.entries, vendor |-> Append(h.vendor, Booted + n)]
        BY <1>1, <2>4 DEF Shape
    <2>7. /\ t.vendor \in Seq(Nat) /\ Len(t.vendor) = n + 1 - 8
          /\ \A m \in 1 .. n + 1 - 8 : t.vendor[m] = Booted + 8 + m - 1
        BY <1>2, <1>4, <2>1, <2>5
    <2>8. /\ t.entries = h.entries /\ h.entries \in Seq(Nat) /\ t.sai = h.sai
          /\ \A m \in 1 .. 8 : h.entries[m] = Booted + m - 1
        BY <2>1, <2>5 DEF Registered
    <2>9. Bound(t, n + 1)
        BY <1>1, <2>5 DEF Bound
    <2> HIDE DEF t
    <2>10. (n + 1) - Turns(n + 1) = n + 1 - 8 /\ Shape(t)
        BY <2>1, <2>5 DEF Shape
    <2>11. /\ t.policer = s.policer /\ t.group = s.group
        BY <2>5
    <2>12. Registered(t, n + 1)
        <3>1. /\ t.policer \in Seq(Nat) /\ Len(t.policer) = n + 1
              /\ \A m \in 1 .. n + 1 : t.policer[m] = ConfigAt(m).rate
              /\ t.group = GroupsAfter(n + 1)
            BY <1>1, <2>11
        <3>2. /\ t.entries \in Seq(Nat) /\ Len(t.entries) = Turns(n + 1)
              /\ \A m \in 1 .. Turns(n + 1) : t.entries[m] = Booted + m - 1
              /\ t.sai = 0 .. Booted + Turns(n + 1) - 1
            BY <2>1, <2>8
        <3>3. /\ t.vendor \in Seq(Nat) /\ Len(t.vendor) = (n + 1) - Turns(n + 1)
              /\ \A m \in 1 .. (n + 1) - Turns(n + 1) : t.vendor[m] = Booted + 8 + m - 1
            BY <2>7, <2>10
        <3> QED
            BY Zenon, <2>9, <2>10, <3>1, <3>2, <3>3 DEF Registered
    <2> QED
        BY <2>12 DEF t
<1> QED
    BY <1>3, <1>4

\* All turns have been taken when none is left, and not before.
LEMMA MissingFacts ==
    ASSUME NEW h, NEW n \in 0 .. 10, Registered(h, n)
    PROVE  TrapsMissing(h) <=> n < 10
<1>1. CASE n <= 8
    <2>1. Len(h.entries) = n /\ Len(h.vendor) = n - n
        BY <1>1 DEF Registered, Turns
    <2> QED
        BY <1>1, <2>1, TableSizes DEF TrapsMissing
<1>2. CASE n > 8
    <2>1. Len(h.entries) = 8 /\ Len(h.vendor) = n - 8
        BY <1>2 DEF Registered, Turns
    <2> QED
        BY <1>2, <2>1, TableSizes DEF TrapsMissing
<1> QED
    BY <1>1, <1>2

\* The groups of both classes and where their policers are.
LEMMA GroupFacts ==
    ASSUME NEW h, Registered(h, 10), RoomForTraps
    PROVE  /\ Range(h.entries) = Booted .. Booted + 7
           /\ Range(h.vendor) = Booted + 8 .. Booted + 9
           /\ \A g \in Booted .. Booted + 9 : g \in GroupIds /\ h.group[g] = g - Booted + 1
           /\ \A g \in GroupIds \ (Booted .. Booted + 9) : h.group[g] = None
           /\ h.sai = 0 .. Booted + 7
           /\ DOMAIN h.policer = 1 .. 10
           /\ \A m \in 1 .. 10 : h.policer[m] = ConfigAt(m).rate
<1>1. /\ Turns(10) = 8 /\ Booted \in Nat /\ GroupsMax \in Nat /\ Booted + 10 <= GroupsMax
    BY BootedFacts, RoomFacts DEF Turns
<1>2. Range(h.entries) = Booted .. Booted + 7
    <2>0. /\ h.entries \in Seq(Nat) /\ Len(h.entries) = Turns(10)
          /\ \A m \in 1 .. Turns(10) : h.entries[m] = Booted + m - 1
        BY DEF Registered
    <2>a. Turns(10) = 8
        BY <1>1
    <2>b. Len(h.entries) = 8 /\ \A m \in 1 .. 8 : h.entries[m] = Booted + m - 1
        BY Zenon, <2>a, <2>0
    <2>c. h.entries \in Seq(Nat)
        BY Zenon, <2>0
    <2>d. DOMAIN h.entries = 1 .. Len(h.entries)
        BY <2>c
    <2>1. DOMAIN h.entries = 1 .. 8 /\ \A m \in 1 .. 8 : h.entries[m] = Booted + m - 1
        BY Zenon, <2>b, <2>d
    <2>2. \A g \in Booted .. Booted + 7 : g - Booted + 1 \in 1 .. 8
                                          /\ g = h.entries[g - Booted + 1]
        BY <1>1, <2>1
    <2>3. \A m \in 1 .. 8 : h.entries[m] \in Booted .. Booted + 7
        BY <1>1, <2>1
    <2> QED
        BY <2>1, <2>2, <2>3 DEF Range
<1>3. Range(h.vendor) = Booted + 8 .. Booted + 9
    <2>0. /\ h.vendor \in Seq(Nat) /\ Len(h.vendor) = 10 - Turns(10)
          /\ \A m \in 1 .. 10 - Turns(10) : h.vendor[m] = Booted + 8 + m - 1
        BY DEF Registered
    <2>a. 10 - Turns(10) = 2
        BY <1>1
    <2>b. Len(h.vendor) = 2 /\ \A m \in 1 .. 2 : h.vendor[m] = Booted + 8 + m - 1
        BY Zenon, <2>a, <2>0
    <2>c. h.vendor \in Seq(Nat)
        BY Zenon, <2>0
    <2>d. DOMAIN h.vendor = 1 .. Len(h.vendor)
        BY <2>c
    <2>1. DOMAIN h.vendor = 1 .. 2 /\ \A m \in 1 .. 2 : h.vendor[m] = Booted + 8 + m - 1
        BY Zenon, <2>b, <2>d
    <2>2. \A g \in Booted + 8 .. Booted + 9 :
              g - Booted - 7 \in 1 .. 2 /\ g = h.vendor[g - Booted - 7]
        BY <1>1, <2>1
    <2>3. \A m \in 1 .. 2 : h.vendor[m] \in Booted + 8 .. Booted + 9
        BY <1>1, <2>1
    <2> QED
        BY <2>1, <2>2, <2>3 DEF Range
<1>4. h.group = GroupsAfter(10) /\ Booted + 10 - 1 = Booted + 9
    BY <1>1 DEF Registered
<1>5. \A g \in Booted .. Booted + 9 : g \in GroupIds
    BY <1>1 DEF GroupIds
<1>6. /\ h.sai = 0 .. Booted + 7 /\ DOMAIN h.policer = 1 .. 10
      /\ \A m \in 1 .. 10 : h.policer[m] = ConfigAt(m).rate
    <2>1. h.sai = 0 .. Booted + Turns(10) - 1 /\ Len(h.policer) = 10 /\ h.policer \in Seq(Nat)
        BY DEF Registered
    <2>2. \A m \in 1 .. 10 : h.policer[m] = ConfigAt(m).rate
        BY DEF Registered
    <2>3. Booted + Turns(10) - 1 = Booted + 7
        BY <1>1
    <2>4. DOMAIN h.policer = 1 .. 10
        BY <2>1
    <2> QED
        BY Zenon, <2>1, <2>2, <2>3, <2>4
<1> QED
    BY <1>2, <1>3, <1>4, <1>5, <1>6 DEF GroupsAfter

\* An unregistering that comes to its end has removed none of SAI's policers.
LEMMA TrapsUnregister ==
    ASSUME NEW h, Registered(h, 10), RoomForTraps, NEW s \in TrapsUnregistered(h)
    PROVE  Unregistered(s)
<1> DEFINE saiGroups == Range(h.entries)
           vendorGroups == Range(h.vendor)
           vendorTraps == UNION {c.traps : c \in Range(VendorConfig)}
           gone(R) == {h.group[g] : g \in R \cup vendorGroups}
<1>1. PICK R \in SUBSET saiGroups :
          /\ \A g \in saiGroups : GoesOn(g \in R)
          /\ s = [policer |-> Restrict(h.policer, DOMAIN h.policer \ gone(R)),
                  group |-> [g \in GroupIds |->
                      IF g \in saiGroups \cup vendorGroups THEN None ELSE h.group[g]],
                  sai |-> h.sai \ saiGroups,
                  trap |-> Restrict(h.trap, DOMAIN h.trap \ vendorTraps),
                  entries |-> <<>>,
                  vendor |-> h.vendor]
    BY DEF TrapsUnregistered
<1>2. R = {}
    BY <1>1 DEF GoesOn
<1>3. Booted \in Nat /\ GroupsMax \in Nat /\ Booted + 10 <= GroupsMax
    BY BootedFacts, RoomFacts
<1>4. gone(R) = {9, 10}
    <2>1. vendorGroups = {Booted + 8, Booted + 9}
        <3>1. vendorGroups = Booted + 8 .. Booted + 9
            BY GroupFacts
        <3> HIDE DEF vendorGroups
        <3> QED
            BY <1>3, <3>1
    <2>2. h.group[Booted + 8] = 9 /\ h.group[Booted + 9] = 10
        BY <1>3, GroupFacts
    <2> QED
        BY <1>2, <2>1, <2>2
<1>5. DOMAIN s.policer = 1 .. 8
    <2>1. DOMAIN s.policer = DOMAIN h.policer \ gone(R)
        BY <1>1 DEF Restrict
    <2> HIDE DEF gone
    <2> QED
        BY <1>4, <2>1, GroupFacts
<1>6. s.group = [g \in GroupIds |-> None]
    <2>1. \A g \in GroupIds :
              (IF g \in saiGroups \cup vendorGroups THEN None ELSE h.group[g]) = None
        <3>1. saiGroups \cup vendorGroups = Booted .. Booted + 9
            BY <1>3, GroupFacts
        <3> HIDE DEF saiGroups, vendorGroups
        <3> QED
            BY <3>1, GroupFacts
    <2> HIDE DEF saiGroups, vendorGroups, gone
    <2> QED
        BY <1>1, <2>1
<1>7. s.sai \subseteq GroupIds
    BY <1>1, <1>3, GroupFacts DEF GroupIds
<1> QED
    BY <1>5, <1>6, <1>7 DEF Unregistered

LEMMA TrapsPreserve ==
    ASSUME TrapsInv, RTypeOK, [Next]_vars
    PROVE  TrapsInv'
<1>1. CASE phase' = phase /\ traps' = traps
    BY <1>1 DEF TrapsInv
<1>2. CASE Start
    <2>1. phase = "new" /\ traps = NoTraps /\ traps' = traps
        BY <1>2 DEF Start, RStart, TrapsInv
    <2>2. CASE phase' = "aborted"
        BY <2>1, <2>2 DEF TrapsInv
    <2>3. CASE phase' = "up"
        <3>1. RoomForTraps /\ 0 \in 0 .. 10
            BY <1>2, <2>3 DEF Start
        <3>2. \E n \in 0 .. 10 : Registered(traps', n)
            BY <2>1, <3>1, NothingRegistered
        <3> QED
            BY <2>3, <3>1, <3>2 DEF TrapsInv
    <2> QED
        BY <1>2, <2>2, <2>3 DEF Start, RStart
<1>3. CASE RegisterTraps
    <2>1. phase = "up" /\ phase' = phase /\ traps' = TrapsTurn(traps) /\ RoomForTraps
        BY <1>3 DEF RegisterTraps, Registering, TrapsInv, rvars
    <2>2. PICK n \in 0 .. 10 : Registered(traps, n)
        BY <2>1 DEF TrapsInv
    <2>3. n < 10
        BY <1>3, <2>2, MissingFacts DEF RegisterTraps, Registering
    <2>4. n \in 0 .. 9 /\ n + 1 \in 0 .. 10
        BY <2>3
    <2>5. Registered(traps', n + 1)
        BY <2>1, <2>2, <2>4, TurnRegisters
    <2> QED
        BY <2>1, <2>4, <2>5 DEF TrapsInv
<1>4. ASSUME NEW n \in Names, Del(n)
      PROVE  TrapsInv'
    <2>1. CASE phase' = "aborted"
        <3>1. traps' = traps /\ phase \in {"up", "down"}
            BY <1>4, <2>1 DEF Del, RDel, Running
        <3> QED
            BY <2>1, <3>1 DEF TrapsInv
    <2>2. CASE phase' = "down" /\ phase = "up"
        <3>1. traps' \in TrapsUnregistered(traps) /\ ~TrapsMissing(traps) /\ RoomForTraps
            BY <1>4, <2>2 DEF Del, Idle, Registering, TrapsInv
        <3>2. PICK k \in 0 .. 10 : Registered(traps, k)
            BY <2>2 DEF TrapsInv
        <3>3. k = 10
            BY <3>1, <3>2, MissingFacts
        <3>4. Unregistered(traps')
            BY <3>1, <3>2, <3>3, TrapsUnregister
        <3> QED
            BY <2>2, <3>4 DEF TrapsInv
    <2> QED
        BY <1>4, <2>1, <2>2 DEF Del, RDel
<1>5. ASSUME NEW n \in Names, NEW p \in IpPrefixes, NEW H \in SUBSET Hops,
             RouteAction(n, p, H)
      PROVE  TrapsInv'
    <2>1. traps' = traps /\ phase' \in {phase, "aborted"} /\ phase \in {"up", "down"}
        BY <1>5 DEF RouteAction, RRouteAdd, RRouteDeleteNh, RRouteDelete, Routing, Running
    <2> QED
        BY <2>1 DEF TrapsInv
<1>6. ASSUME NEW n \in Names, Construct(n) \/ Destroy(n) \/ PortDumpStart(n)
      PROVE  phase' = phase /\ traps' = traps
    BY <1>6 DEF Construct, Destroy, PortDumpStart, RConstruct, RDestroy, rvars
<1>7. ASSUME NEW n \in Names, NEW x \in PortNames, PortAdd(n, x) \/ PortDel(n, x)
      PROVE  phase' = phase /\ traps' = traps
    BY <1>7 DEF PortAdd, PortDel, rvars
<1>8. CASE EnumerateNames \/ UNCHANGED vars
    BY <1>1, <1>8 DEF EnumerateNames, REnumerateNames, vars, rvars
<1>9. CASE PortDump
    BY <1>1, <1>9 DEF PortDump, DumpPort, DumpAgain, DumpEof, PortDumpDone, rvars
<1> QED
    BY <1>1, <1>2, <1>3, <1>4, <1>5, <1>6, <1>7, <1>8, <1>9 DEF Next

LEMMA TrapsAreInvariant == Spec => []TrapsInv
<1>1. Init => TrapsInv
    BY DEF Init, RInit, TrapsInv
<1>2. Spec => []RTypeOK
    BY PluginIsRouters, RoutersTyped, PTL
<1>3. TrapsInv /\ RTypeOK /\ [Next]_vars => TrapsInv'
    BY TrapsPreserve
<1> QED
    BY <1>1, <1>2, <1>3, PTL DEF Spec

\* Once init has ended and until del, every trap is policed at the rate of its own
\* config, and the groups that Mellanox adds are not SAI's: for any number of
\* groups, and of groups that SAI has at boot.
THEOREM TrapsArePoliced == Spec => []TrapsPoliced
<1>1. TrapsInv => TrapsPoliced
    <2> SUFFICES ASSUME TrapsInv, phase = "up", ~Registering
                 PROVE  /\ \A c \in Configs : \A t \in c.traps :
                              traps.policer[traps.group[traps.trap[t].group]] = c.rate
                        /\ \A c1, c2 \in Configs :
                              c1 # c2 => \A t1 \in c1.traps, t2 \in c2.traps :
                                            traps.trap[t1].group # traps.trap[t2].group
                        /\ \A g \in Range(traps.vendor) : g \notin traps.sai
        BY DEF TrapsPoliced
    <2>1. PICK n \in 0 .. 10 : Registered(traps, n)
        BY DEF TrapsInv
    <2>2. n = 10 /\ RoomForTraps
        BY <2>1, MissingFacts DEF Registering, TrapsInv
    <2>3. Booted \in Nat /\ Registered(traps, 10)
        BY <2>1, <2>2, BootedFacts
    <2>4. \A c \in Configs : \E m \in 1 .. 10 : c = ConfigAt(m)
        <3>1. ASSUME NEW m \in 1 .. 8
              PROVE  m \in 1 .. 10 /\ SaiConfig[m] = ConfigAt(m)
            BY DEF ConfigAt
        <3>2. ASSUME NEW m \in 1 .. 2
              PROVE  m + 8 \in 1 .. 10 /\ VendorConfig[m] = ConfigAt(m + 8)
            BY DEF ConfigAt
        <3> QED
            BY <3>1, <3>2, TableSizes DEF Configs, Range
    <2>5. \A m \in 1 .. 10 : \A t \in ConfigAt(m).traps :
              traps.trap[t].group = Booted + m - 1
        BY <2>3 DEF Registered, Bound
    <2>6. ASSUME NEW m \in 1 .. 10, NEW t \in ConfigAt(m).traps
          PROVE  traps.policer[traps.group[traps.trap[t].group]] = ConfigAt(m).rate
        <3>0. /\ Booted + m - 1 \in Booted .. Booted + 9
              /\ (Booted + m - 1) - Booted + 1 = m
            BY <2>3
        <3>1. traps.group[Booted + m - 1] = m
            <4>1. \A g \in Booted .. Booted + 9 : traps.group[g] = g - Booted + 1
                BY <2>2, <2>3, GroupFacts
            <4> QED
                BY <3>0, <4>1
        <3>2. traps.policer[m] = ConfigAt(m).rate
            BY <2>2, <2>3, GroupFacts
        <3> QED
            BY <2>5, <3>1, <3>2
    <2>7. \A c \in Configs : \A t \in c.traps :
              traps.policer[traps.group[traps.trap[t].group]] = c.rate
        BY <2>4, <2>6
    <2>8. ASSUME NEW c1 \in Configs, NEW c2 \in Configs, c1 # c2,
                 NEW t1 \in c1.traps, NEW t2 \in c2.traps
          PROVE  traps.trap[t1].group # traps.trap[t2].group
        <3>1. PICK m1 \in 1 .. 10 : c1 = ConfigAt(m1)
            BY <2>4
        <3>2. PICK m2 \in 1 .. 10 : c2 = ConfigAt(m2)
            BY <2>4
        <3>3. m1 # m2
            BY <2>8, <3>1, <3>2
        <3>4. traps.trap[t1].group = Booted + m1 - 1 /\ traps.trap[t2].group = Booted + m2 - 1
            BY <2>5, <3>1, <3>2
        <3> QED
            BY <2>3, <3>3, <3>4
    <2>9. \A g \in Range(traps.vendor) : g \notin traps.sai
        BY <2>2, <2>3, GroupFacts
    <2> QED
        BY <2>7, <2>8, <2>9
<1> QED
    BY <1>1, TrapsAreInvariant, PTL

\* The whole plugin keeps its types: a trap group has a policer that there is, or
\* none, and a listing reports no port more than twice.
THEOREM PluginTyped == Spec => []TypeOK
<1> DEFINE TrapsTyped ==
        /\ DOMAIN traps.policer \subseteq 1 .. Len(SaiConfig) + Len(VendorConfig)
        /\ traps.group \in [GroupIds -> {None} \cup DOMAIN traps.policer]
        /\ traps.sai \subseteq GroupIds
<1>1. ASSUME NEW n \in 0 .. 10, Registered(traps, n), RoomForTraps
      PROVE  TrapsTyped
    <2>1. /\ Booted \in Nat /\ GroupsMax \in Nat /\ Booted + 10 <= GroupsMax
          /\ Turns(n) \in 0 .. n
        BY <1>1, BootedFacts, RoomFacts DEF Turns
    <2>2. DOMAIN traps.policer = 1 .. n
        BY <1>1 DEF Registered
    <2>3. traps.group = GroupsAfter(n) /\ traps.sai = 0 .. Booted + Turns(n) - 1
        BY <1>1 DEF Registered
    <2>4. traps.group \in [GroupIds -> {None} \cup 1 .. n]
        <3>1. ASSUME NEW g \in Booted .. Booted + n - 1
              PROVE  g - Booted + 1 \in 1 .. n
            BY <2>1
        <3> QED
            BY <2>3, <3>1 DEF GroupsAfter
    <2>5. traps.sai \subseteq GroupIds
        BY <2>1, <2>3, BootedFacts DEF GroupIds, Turns
    <2> QED
        BY <2>2, <2>4, <2>5, TableSizes
<1>2. ASSUME traps = NoTraps
      PROVE  TrapsTyped
    <2>1. DOMAIN traps.policer = {} /\ traps.group = [g \in GroupIds |-> None]
          /\ traps.sai = SaiGroups
        BY <1>2 DEF NoTraps
    <2>2. traps.sai \subseteq GroupIds
        BY <2>1, BootedFacts DEF GroupIds
    <2>3. traps.group \in [GroupIds -> {None} \cup DOMAIN traps.policer]
        BY Zenon, <2>1
    <2>4. DOMAIN traps.policer \subseteq 1 .. Len(SaiConfig) + Len(VendorConfig)
        BY <2>1
    <2> QED
        BY Zenon, <2>2, <2>3, <2>4
<1>3. ASSUME Unregistered(traps)
      PROVE  TrapsTyped
    <2>1. /\ DOMAIN traps.policer = 1 .. 8 /\ traps.sai \subseteq GroupIds
          /\ traps.group = [g \in GroupIds |-> None]
        BY <1>3 DEF Unregistered
    <2>2. 1 .. 8 \subseteq 1 .. Len(SaiConfig) + Len(VendorConfig)
        BY TableSizes
    <2>3. traps.group \in [GroupIds -> {None} \cup DOMAIN traps.policer]
        BY Zenon, <2>1
    <2> QED
        BY Zenon, <2>1, <2>2, <2>3
<1>4. TrapsInv => TrapsTyped
    <2> HIDE DEF TrapsTyped
    <2> SUFFICES ASSUME TrapsInv
                 PROVE  \/ traps = NoTraps \/ Unregistered(traps)
                        \/ RoomForTraps /\ \E n \in 0 .. 10 : Registered(traps, n)
        BY <1>1, <1>2, <1>3
    <2> QED
        BY DEF TrapsInv
<1>5. DumpInv => /\ ports \in [Names -> SUBSET PortNames]
                 /\ dump.of \in Names \cup {None} /\ dump.todo \subseteq PortNames
                 /\ dump.reported \in [PortNames -> 0 .. 2]
    <2> SUFFICES ASSUME DumpInv
                 PROVE  dump.reported \in [PortNames -> 0 .. 2]
        BY DEF DumpInv, DumpShape
    <2>1. \A x \in PortNames : dump.reported[x] \in 0 .. 2
        BY DEF DumpInv, AtRest, NoDump, Listing, Passes
    <2> QED
        BY <2>1 DEF DumpInv, DumpShape
<1>6. Spec => []DumpInv
    <2>1. Init => DumpInv
        BY NoDumpIsTyped DEF Init, DumpInv, DumpShape, AtRest
    <2> QED
        BY <2>1, PortsPreserve, PTL DEF Spec
<1>7. RTypeOK /\ TrapsInv /\ DumpInv => TypeOK
    BY <1>4, <1>5 DEF TypeOK
<1>8. Spec => []RTypeOK
    BY PluginIsRouters, RoutersTyped, PTL
<1> QED
    BY <1>6, <1>7, <1>8, TrapsAreInvariant, PTL

=============================================================================
