------------------------------- MODULE L3Host -------------------------------
(***************************************************************************)
(* Neighbors of routed bundles: add_l3_host_entry, delete_l3_host_entry    *)
(* and get_l3_host_hit of sai-ofproto-provider.c with the cache            *)
(* bundle->neighbors, on top of the Mellanox neighbor class                *)
(* (vendor/mlnx/sai-vendor-neighbor.c).                                    *)
(*                                                                         *)
(*   rif[b]          bundle->router_intf.rifid, NoRif if not created       *)
(*   cache[b][ip]    the MAC in bundle->neighbors, Empty for an entry with *)
(*                   an empty string, Absent if there is no entry          *)
(*   neigh[i][ip]    the MAC the ASIC has for ip on rif i, or Absent       *)
(*   orphans         rifs in the ASIC that no bundle owns any more         *)
(*   told[b][ip]     history: the MAC of the last add that returned 0      *)
(*   installed[b]    history: the <<ip, mac>> the SDK accepted for b       *)
(*                                                                         *)
(* The life of a rif is RouterIntf's; here only what it means for the      *)
(* neighbors is kept.  The SDK is external: deleting a rif takes its       *)
(* neighbors with it, adding a neighbor that is there may fail or          *)
(* overwrite, removing one that is not there fails.                        *)
(***************************************************************************)
CONSTANTS Bundles, Ips, Macs, RifIds, NoRif, Empty, Absent

ASSUME HostAssumption ==
    /\ NoRif \notin RifIds
    /\ Empty \notin Macs /\ Absent \notin Macs /\ Empty # Absent

VARIABLES rif, cache, neigh, orphans, told, installed
vars == <<rif, cache, neigh, orphans, told, installed>>

NoNeighbors == [ip \in Ips |-> Absent]
Used == {rif[b] : b \in Bundles} \cup orphans

Init ==
    /\ rif = [b \in Bundles |-> NoRif]
    /\ cache = [b \in Bundles |-> NoNeighbors]
    /\ neigh = [i \in RifIds |-> NoNeighbors]
    /\ orphans = {}
    /\ told = [b \in Bundles |-> NoNeighbors]
    /\ installed = [b \in Bundles |-> {}]

-----------------------------------------------------------------------------
(* The rif of a bundle.                                                    *)

RifCreate(b, i) ==
    /\ rif[b] = NoRif /\ i \in RifIds \ Used
    /\ rif' = [rif EXCEPT ![b] = i]
    /\ UNCHANGED <<cache, neigh, orphans, told, installed>>

\* __ofbundle_router_intf_remove within bundle_set (another port or VLAN).  It
\* leaves bundle->neighbors alone; the caller of the provider knows that the
\* neighbors of the old interface are gone.
RifRemove(b) ==
    /\ rif[b] # NoRif
    /\ rif' = [rif EXCEPT ![b] = NoRif]
    /\ neigh' = [neigh EXCEPT ![rif[b]] = NoNeighbors]
    /\ told' = [told EXCEPT ![b] = NoNeighbors]
    /\ UNCHANGED <<cache, orphans, installed>>

\* __ofbundle_destroy: the cache is freed; the rif is deleted, or left behind
\* if that failed.
Destroy(b) ==
    /\ \/ /\ rif[b] # NoRif
          /\ neigh' = [neigh EXCEPT ![rif[b]] = NoNeighbors]
          /\ UNCHANGED orphans
       \/ /\ orphans' = orphans \cup ({rif[b]} \ {NoRif})
          /\ UNCHANGED neigh
    /\ rif' = [rif EXCEPT ![b] = NoRif]
    /\ cache' = [cache EXCEPT ![b] = NoNeighbors]
    /\ told' = [told EXCEPT ![b] = NoNeighbors]
    /\ installed' = [installed EXCEPT ![b] = {}]

-----------------------------------------------------------------------------
(* __add_l3_host_entry.                                                    *)

\* __neigh_entry_hash_add of mac m when the entry is old: an entry that is
\* there is not touched.  The mutant brings it up to date.
RememberedLatest(old, m) == m
Remembered(old, m) == IF old = Absent THEN m ELSE old

\* An entry with an empty MAC is dropped before the SDK is called.
DroppedEmpty(old) == IF old = Empty THEN Absent ELSE old

\* What the cache has when the SDK refused; the mutant remembered m already.
RefusedEager(old, m) == Remembered(DroppedEmpty(old), m)
Refused(old, m) == DroppedEmpty(old)

\* "Don't passing it to asic": only a MAC that is not empty goes to the SDK.
\* The mutant passes everything.
PassedAny(m) == TRUE
Passed(m) == m # Empty

AddCached(b, ip, m) ==
    /\ cache[b][ip] = m
    /\ told' = [told EXCEPT ![b][ip] = m]
    /\ UNCHANGED <<rif, cache, neigh, orphans, installed>>

AddNotPassed(b, ip, m) ==
    /\ ~Passed(m) /\ cache[b][ip] # m
    /\ cache' = [cache EXCEPT ![b][ip] = Remembered(@, m)]
    /\ told' = [told EXCEPT ![b][ip] = m]
    /\ UNCHANGED <<rif, neigh, orphans, installed>>

AddInstalled(b, ip, m) ==
    /\ Passed(m) /\ cache[b][ip] # m
    /\ neigh' = [neigh EXCEPT ![rif[b]][ip] = m]
    /\ cache' = [cache EXCEPT ![b][ip] = Remembered(DroppedEmpty(@), m)]
    /\ told' = [told EXCEPT ![b][ip] = m]
    /\ installed' = [installed EXCEPT ![b] = @ \cup {<<ip, m>>}]
    /\ UNCHANGED <<rif, orphans>>

AddFails(b, ip, m) ==
    /\ Passed(m) /\ cache[b][ip] # m
    /\ cache' = [cache EXCEPT ![b][ip] = Refused(@, m)]
    /\ UNCHANGED <<rif, neigh, orphans, told, installed>>

AddHost(b, ip, m) ==
    /\ rif[b] # NoRif
    /\ \/ AddCached(b, ip, m)
       \/ AddNotPassed(b, ip, m)
       \/ AddInstalled(b, ip, m)
       \/ AddFails(b, ip, m)

-----------------------------------------------------------------------------
(* __delete_l3_host_entry and __get_l3_host_hit_bit.                       *)

\* Both ask the ASIC only about an entry the cache has with a MAC.
AsicAsked(b, ip) == cache[b][ip] \in Macs

\* If the SDK refuses, nothing changes.
DeleteHost(b, ip) ==
    /\ rif[b] # NoRif
    /\ \/ cache[b][ip] = Empty /\ UNCHANGED neigh
       \/ /\ AsicAsked(b, ip) /\ neigh[rif[b]][ip] # Absent
          /\ neigh' = [neigh EXCEPT ![rif[b]][ip] = Absent]
    /\ cache' = [cache EXCEPT ![b][ip] = Absent]
    /\ told' = [told EXCEPT ![b][ip] = Absent]
    /\ UNCHANGED <<rif, orphans, installed>>

Next ==
    \E b \in Bundles :
        \/ \E i \in RifIds : RifCreate(b, i)
        \/ RifRemove(b)
        \/ Destroy(b)
        \/ \E ip \in Ips :
            \/ \E m \in Macs \cup {Empty} : AddHost(b, ip, m)
            \/ DeleteHost(b, ip)

Spec == Init /\ [][Next]_vars

-----------------------------------------------------------------------------
MacOrNone == Macs \cup {Empty, Absent}

TypeOK ==
    /\ rif \in [Bundles -> RifIds \cup {NoRif}]
    /\ cache \in [Bundles -> [Ips -> MacOrNone]]
    /\ neigh \in [RifIds -> [Ips -> Macs \cup {Absent}]]
    /\ orphans \subseteq RifIds
    /\ told \in [Bundles -> [Ips -> MacOrNone]]
    /\ installed \in [Bundles -> SUBSET (Ips \X Macs)]

Routed == {b \in Bundles : rif[b] # NoRif}

\* What the ASIC forwards to can be deleted and its hit bit read: the cache of
\* its bundle has it with a MAC, so that those who ask the ASIC get to it.
EntriesAreCached ==
    \A b \in Routed, ip \in Ips :
        neigh[rif[b]][ip] # Absent => AsicAsked(b, ip)

\* An add that failed is never taken for one that was done: a MAC is in the
\* cache only if the SDK accepted it for this bundle and address.
CachedWasInstalled ==
    \A b \in Bundles, ip \in Ips :
        cache[b][ip] \in Macs => <<ip, cache[b][ip]>> \in installed[b]

\* Since its bundle was made, an address has had no more than one MAC.
NeverMoved(b, ip) ==
    \A m, n \in Macs : <<ip, m>> \in installed[b] /\ <<ip, n>> \in installed[b] => m = n

\* Nothing else than a move makes the ASIC forward to another MAC than the one the
\* last add that returned 0 has named: no refusal, no rif made anew under the cache,
\* no empty entry in between.  A neighbor that never moved is forwarded to that MAC
\* or, when the cache outlived the rif, not at all.
NoWrongMacUnlessMoved ==
    \A b \in Routed, ip \in Ips :
        NeverMoved(b, ip) /\ told[b][ip] \in Macs
            => neigh[rif[b]][ip] \in {told[b][ip], Absent}

\* "Not adding neighbor entry as it was already added": an add that returned 0
\* has put the MAC in the ASIC.  The code breaks this: the cache keeps the
\* first MAC of an address when a second one replaces it in the ASIC.
AcceptedMacInstalled ==
    \A b \in Routed, ip \in Ips :
        told[b][ip] \in Macs => neigh[rif[b]][ip] = told[b][ip]

=============================================================================
