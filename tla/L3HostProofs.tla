---------------------------- MODULE L3HostProofs ----------------------------
(* Proofs about L3Host for any bundles, addresses, MACs and rifs.           *)
EXTENDS L3Host, TLAPS

\* No rif is of two bundles, or of a bundle and left behind.
RifsDistinct ==
    \A a \in Routed : /\ rif[a] \notin orphans
                      /\ \A b \in Routed : rif[a] = rif[b] => a = b

\* A rif the SDK may hand out has no neighbors yet.
FreeRifsClean == \A i \in RifIds \ Used : neigh[i] = NoNeighbors

IInv == TypeOK /\ RifsDistinct /\ FreeRifsClean /\ EntriesAreCached

-----------------------------------------------------------------------------
(* The cache, for one address.                                             *)

LEMMA RememberedFacts ==
    ASSUME NEW old \in MacOrNone, NEW m \in Macs
    PROVE  /\ Remembered(DroppedEmpty(old), m) \in Macs
           /\ Remembered(DroppedEmpty(old), m) \in {old, m}
           /\ Refused(old, m) \in MacOrNone
           /\ Refused(old, m) \in Macs => Refused(old, m) = old
           /\ old \in Macs => Refused(old, m) \in Macs
BY HostAssumption DEF MacOrNone, Remembered, DroppedEmpty, Refused

LEMMA RememberedEmptyFacts ==
    ASSUME NEW old \in MacOrNone
    PROVE  /\ Remembered(old, Empty) \in MacOrNone
           /\ Remembered(old, Empty) \in Macs <=> old \in Macs
           /\ old \in Macs => Remembered(old, Empty) = old
BY HostAssumption DEF MacOrNone, Remembered

\* A MAC that is handed to the provider and passed on is not the empty string.
LEMMA PassedIsMac ==
    ASSUME NEW m \in Macs \cup {Empty}
    PROVE  /\ Passed(m) => m \in Macs
           /\ ~Passed(m) => m = Empty
BY HostAssumption DEF Passed

LEMMA InitIInv == Init => IInv
<1> SUFFICES ASSUME Init PROVE IInv
    OBVIOUS
<1>1. NoNeighbors \in [Ips -> {Absent}]
    BY DEF NoNeighbors
<1>2. TypeOK
    BY <1>1 DEF Init, TypeOK, MacOrNone
<1>3. Routed = {}
    BY DEF Init, Routed
<1>4. FreeRifsClean
    BY DEF Init, FreeRifsClean
<1> QED
    BY <1>2, <1>3, <1>4 DEF IInv, RifsDistinct, EntriesAreCached, AsicAsked

-----------------------------------------------------------------------------
(* One lemma per action.                                                   *)

LEMMA RifCreateIInv ==
    ASSUME IInv, NEW b \in Bundles, NEW i \in RifIds, RifCreate(b, i)
    PROVE  IInv'
<1> USE DEF IInv
<1>1. i \notin Used /\ rif' = [rif EXCEPT ![b] = i] /\ rif \in [Bundles -> RifIds \cup {NoRif}]
    BY DEF RifCreate, TypeOK
<1>2. UNCHANGED <<cache, neigh, orphans, told, installed>>
    BY DEF RifCreate
<1>3. TypeOK'
    BY <1>1, <1>2 DEF TypeOK
<1>4. Routed' = Routed \cup {b} /\ rif[b] = NoRif
    BY <1>1, HostAssumption DEF Routed, RifCreate
<1>5. RifsDistinct'
    BY <1>1, <1>2, <1>4 DEF RifsDistinct, Used, Routed
<1>6. FreeRifsClean'
    BY <1>1, <1>2, <1>4, HostAssumption DEF FreeRifsClean, Used
<1>7. EntriesAreCached'
    <2> SUFFICES ASSUME NEW a \in Routed', NEW ip \in Ips,
                        neigh[rif'[a]][ip] # Absent
                 PROVE  cache[a][ip] \in Macs
        BY <1>2 DEF EntriesAreCached, AsicAsked
    <2>1. CASE a = b
        <3>1. rif'[a] = i /\ neigh[i] = NoNeighbors
            BY <2>1, <1>1 DEF FreeRifsClean
        <3> QED
            BY <3>1 DEF NoNeighbors
    <2>2. CASE a # b
        BY <2>2, <1>1, <1>4 DEF EntriesAreCached, AsicAsked
    <2> QED
        BY <2>1, <2>2
<1> QED
    BY <1>3, <1>5, <1>6, <1>7

\* Taking the rif of b out, with or without the SDK having deleted it.
LEMMA RifGone ==
    ASSUME IInv, NEW b \in Bundles, rif' = [rif EXCEPT ![b] = NoRif],
           \/ /\ rif[b] # NoRif
              /\ neigh' = [neigh EXCEPT ![rif[b]] = NoNeighbors]
              /\ UNCHANGED orphans
           \/ /\ orphans' = orphans \cup ({rif[b]} \ {NoRif})
              /\ UNCHANGED neigh
    PROVE  /\ rif' \in [Bundles -> RifIds \cup {NoRif}]
           /\ neigh' \in [RifIds -> [Ips -> Macs \cup {Absent}]]
           /\ orphans' \subseteq RifIds
           /\ RifsDistinct' /\ FreeRifsClean'
           /\ Routed' = Routed \ {b}
           /\ \A a \in Routed' : rif'[a] = rif[a] /\ neigh'[rif[a]] = neigh[rif[a]]
<1> USE DEF IInv
<1>1. /\ rif \in [Bundles -> RifIds \cup {NoRif}]
      /\ neigh \in [RifIds -> [Ips -> Macs \cup {Absent}]]
      /\ orphans \subseteq RifIds
    BY DEF TypeOK
<1>2. NoNeighbors \in [Ips -> Macs \cup {Absent}]
    BY DEF NoNeighbors
<1>3. Routed' = Routed \ {b}
    BY <1>1 DEF Routed
<1>4. rif' \in [Bundles -> RifIds \cup {NoRif}] /\ orphans' \subseteq RifIds
    BY <1>1
<1>5. neigh' \in [RifIds -> [Ips -> Macs \cup {Absent}]]
    BY <1>1, <1>2
<1>6. \A a \in Routed' : rif'[a] = rif[a] /\ neigh'[rif[a]] = neigh[rif[a]]
    BY <1>1, <1>3 DEF RifsDistinct, Routed
<1>7. RifsDistinct'
    BY <1>1, <1>3 DEF RifsDistinct, Routed
<1>8. FreeRifsClean'
    <2> SUFFICES ASSUME NEW i \in RifIds, i \notin Used' PROVE neigh'[i] = NoNeighbors
        BY DEF FreeRifsClean
    <2>1. CASE i = rif[b]
        <3>1. i # NoRif
            BY HostAssumption
        <3>2. i \notin orphans'
            BY DEF Used
        <3> QED
            BY <2>1, <3>1, <3>2, <1>1
    <2>2. CASE i # rif[b]
        <3>1. i \notin Used
            BY <2>2, <1>1 DEF Used
        <3>2. neigh'[i] = neigh[i]
            BY <2>2, <1>1
        <3> QED
            BY <3>1, <3>2 DEF FreeRifsClean
    <2> QED
        BY <2>1, <2>2
<1> QED
    BY <1>3, <1>4, <1>5, <1>6, <1>7, <1>8

LEMMA RifRemoveIInv ==
    ASSUME IInv, NEW b \in Bundles, RifRemove(b)
    PROVE  IInv'
<1>1. /\ rif' \in [Bundles -> RifIds \cup {NoRif}]
      /\ neigh' \in [RifIds -> [Ips -> Macs \cup {Absent}]]
      /\ orphans' \subseteq RifIds
      /\ RifsDistinct' /\ FreeRifsClean'
      /\ Routed' = Routed \ {b}
      /\ \A a \in Routed' : rif'[a] = rif[a] /\ neigh'[rif[a]] = neigh[rif[a]]
    BY RifGone DEF RifRemove
<1>2. NoNeighbors \in [Ips -> MacOrNone]
    BY DEF NoNeighbors, MacOrNone
<1>3. TypeOK'
    BY <1>1, <1>2 DEF RifRemove, IInv, TypeOK
<1>4. EntriesAreCached'
    BY <1>1 DEF RifRemove, IInv, EntriesAreCached, AsicAsked
<1> QED
    BY <1>1, <1>3, <1>4 DEF IInv

LEMMA DestroyIInv ==
    ASSUME IInv, NEW b \in Bundles, Destroy(b)
    PROVE  IInv'
<1>1. /\ rif' \in [Bundles -> RifIds \cup {NoRif}]
      /\ neigh' \in [RifIds -> [Ips -> Macs \cup {Absent}]]
      /\ orphans' \subseteq RifIds
      /\ RifsDistinct' /\ FreeRifsClean'
      /\ Routed' = Routed \ {b}
      /\ \A a \in Routed' : rif'[a] = rif[a] /\ neigh'[rif[a]] = neigh[rif[a]]
    BY RifGone DEF Destroy
<1>2. NoNeighbors \in [Ips -> MacOrNone]
    BY DEF NoNeighbors, MacOrNone
<1>3. /\ cache' = [cache EXCEPT ![b] = NoNeighbors]
      /\ told' = [told EXCEPT ![b] = NoNeighbors]
      /\ installed' = [installed EXCEPT ![b] = {}]
    BY DEF Destroy
<1>4. TypeOK'
    BY <1>1, <1>2, <1>3 DEF IInv, TypeOK
<1>5. EntriesAreCached'
    BY <1>1, <1>3 DEF IInv, TypeOK, EntriesAreCached, AsicAsked
<1> QED
    BY <1>1, <1>4, <1>5 DEF IInv

\* Calls about one address of a bundle that has a rif, which do not touch rifs.
LEMMA OneAddress ==
    ASSUME IInv, NEW b \in Routed, NEW ip \in Ips, TypeOK',
           UNCHANGED <<rif, orphans>>,
           NEW n, neigh' = [neigh EXCEPT ![rif[b]][ip] = n],
           NEW c, cache' = [cache EXCEPT ![b][ip] = c],
           n # Absent => c \in Macs
    PROVE  IInv'
<1>1. /\ rif \in [Bundles -> RifIds \cup {NoRif}]
      /\ neigh \in [RifIds -> [Ips -> Macs \cup {Absent}]]
      /\ cache \in [Bundles -> [Ips -> MacOrNone]]
      /\ b \in Bundles /\ rif[b] \in RifIds
    BY DEF IInv, TypeOK, Routed
<1>2. Routed' = Routed /\ Used' = Used
    BY DEF Routed, Used
<1>3. RifsDistinct'
    BY <1>2 DEF IInv, RifsDistinct
<1>4. FreeRifsClean'
    <2>1. rif[b] \in Used
        BY <1>1 DEF Used
    <2>2. \A i \in RifIds \ Used : neigh'[i] = neigh[i]
        BY <2>1, <1>1
    <2> QED
        BY <1>2, <2>2 DEF IInv, FreeRifsClean
<1>5. EntriesAreCached'
    <2> SUFFICES ASSUME NEW a \in Routed, NEW x \in Ips, neigh'[rif[a]][x] # Absent
                 PROVE  cache'[a][x] \in Macs
        BY <1>2 DEF EntriesAreCached, AsicAsked
    <2>1. a \in Bundles /\ rif[a] \in RifIds
        BY <1>1 DEF Routed
    <2>2. CASE a = b /\ x = ip
        BY <1>1, <2>2
    <2>3. CASE a = b /\ x # ip
        BY <1>1, <2>3 DEF IInv, EntriesAreCached, AsicAsked
    <2>4. CASE a # b
        <3>1. rif[a] # rif[b]
            BY <2>4 DEF IInv, RifsDistinct
        <3>2. neigh'[rif[a]] = neigh[rif[a]] /\ cache'[a] = cache[a]
            BY <1>1, <2>1, <2>4, <3>1
        <3> QED
            BY <3>2 DEF IInv, EntriesAreCached, AsicAsked
    <2> QED
        BY <2>2, <2>3, <2>4
<1> QED
    BY <1>3, <1>4, <1>5 DEF IInv

LEMMA AddHostIInv ==
    ASSUME IInv, NEW b \in Bundles, NEW ip \in Ips, NEW m \in Macs \cup {Empty},
           AddHost(b, ip, m)
    PROVE  IInv'
<1>1. b \in Routed
    BY DEF AddHost, Routed
<1>2. /\ TypeOK
      /\ rif[b] \in RifIds
      /\ cache[b][ip] \in MacOrNone
      /\ neigh[rif[b]][ip] \in Macs \cup {Absent}
      /\ neigh[rif[b]][ip] # Absent => cache[b][ip] \in Macs
    BY <1>1 DEF IInv, TypeOK, Routed, EntriesAreCached, AsicAsked
<1>3. m \in MacOrNone
    BY DEF MacOrNone
<1>4. CASE AddCached(b, ip, m)
    <2>1. TypeOK'
        BY <1>2, <1>3, <1>4 DEF AddCached, TypeOK
    <2>2. /\ neigh' = [neigh EXCEPT ![rif[b]][ip] = neigh[rif[b]][ip]]
          /\ cache' = [cache EXCEPT ![b][ip] = cache[b][ip]]
        BY <1>2, <1>4 DEF AddCached, TypeOK
    <2>3. UNCHANGED <<rif, orphans>>
        BY <1>4 DEF AddCached
    <2> QED
        BY <1>1, <1>2, <2>1, <2>2, <2>3, OneAddress
<1>5. CASE AddNotPassed(b, ip, m)
    <2> DEFINE c == Remembered(cache[b][ip], m)
    <2>1. c \in MacOrNone /\ (cache[b][ip] \in Macs => c \in Macs)
        BY <1>2, <1>5, PassedIsMac, RememberedEmptyFacts DEF AddNotPassed
    <2>2. cache' = [cache EXCEPT ![b][ip] = c]
        BY <1>5 DEF AddNotPassed
    <2>3. neigh' = [neigh EXCEPT ![rif[b]][ip] = neigh[rif[b]][ip]]
        BY <1>2, <1>5 DEF AddNotPassed, TypeOK
    <2> HIDE DEF c
    <2>4. TypeOK'
        BY <1>2, <1>3, <1>5, <2>1, <2>2 DEF AddNotPassed, TypeOK
    <2>5. UNCHANGED <<rif, orphans>>
        BY <1>5 DEF AddNotPassed
    <2>6. neigh[rif[b]][ip] # Absent => c \in Macs
        BY <1>2, <2>1
    <2> QED
        BY <1>1, <2>2, <2>3, <2>4, <2>5, <2>6, OneAddress
<1>6. CASE AddInstalled(b, ip, m)
    <2> DEFINE c == Remembered(DroppedEmpty(cache[b][ip]), m)
    <2>1. m \in Macs /\ c \in Macs
        BY <1>2, <1>6, PassedIsMac, RememberedFacts DEF AddInstalled
    <2>2. /\ cache' = [cache EXCEPT ![b][ip] = c]
          /\ neigh' = [neigh EXCEPT ![rif[b]][ip] = m]
          /\ told' = [told EXCEPT ![b][ip] = m]
          /\ installed' = [installed EXCEPT ![b] = @ \cup {<<ip, m>>}]
          /\ UNCHANGED <<rif, orphans>>
        BY <1>6 DEF AddInstalled
    <2> HIDE DEF c
    <2>3. TypeOK'
        BY <1>2, <1>3, <2>1, <2>2 DEF TypeOK, MacOrNone
    <2> QED
        BY <1>1, <2>1, <2>2, <2>3, OneAddress
<1>7. CASE AddFails(b, ip, m)
    <2> DEFINE c == Refused(cache[b][ip], m)
    <2>1. c \in MacOrNone /\ (cache[b][ip] \in Macs => c \in Macs)
        BY <1>2, <1>7, PassedIsMac, RememberedFacts DEF AddFails
    <2>2. cache' = [cache EXCEPT ![b][ip] = c]
        BY <1>7 DEF AddFails
    <2>3. neigh' = [neigh EXCEPT ![rif[b]][ip] = neigh[rif[b]][ip]]
        BY <1>2, <1>7 DEF AddFails, TypeOK
    <2> HIDE DEF c
    <2>4. TypeOK'
        BY <1>2, <1>7, <2>1, <2>2 DEF AddFails, TypeOK
    <2>5. UNCHANGED <<rif, orphans>>
        BY <1>7 DEF AddFails
    <2>6. neigh[rif[b]][ip] # Absent => c \in Macs
        BY <1>2, <2>1
    <2> QED
        BY <1>1, <2>2, <2>3, <2>4, <2>5, <2>6, OneAddress
<1> QED
    BY <1>4, <1>5, <1>6, <1>7 DEF AddHost

LEMMA DeleteHostIInv ==
    ASSUME IInv, NEW b \in Bundles, NEW ip \in Ips, DeleteHost(b, ip)
    PROVE  IInv'
<1>1. b \in Routed
    BY DEF DeleteHost, AsicAsked, Routed
<1>2. /\ TypeOK
      /\ rif[b] \in RifIds
      /\ neigh[rif[b]][ip] # Absent => cache[b][ip] \in Macs
    BY <1>1 DEF IInv, TypeOK, Routed, EntriesAreCached, AsicAsked
<1>3. /\ cache' = [cache EXCEPT ![b][ip] = Absent]
      /\ told' = [told EXCEPT ![b][ip] = Absent]
      /\ UNCHANGED <<rif, orphans, installed>>
    BY DEF DeleteHost, AsicAsked
<1>4. neigh' = [neigh EXCEPT ![rif[b]][ip] = Absent]
    <2>1. CASE cache[b][ip] = Empty /\ UNCHANGED neigh
        <3>1. neigh[rif[b]][ip] = Absent
            BY <1>2, <2>1, HostAssumption
        <3> QED
            BY <1>2, <2>1, <3>1 DEF TypeOK
    <2> QED
        BY <2>1 DEF DeleteHost, AsicAsked
<1>5. TypeOK'
    BY <1>2, <1>3, <1>4 DEF TypeOK, MacOrNone
<1> QED
    BY <1>1, <1>3, <1>4, <1>5, OneAddress

LEMMA StutterIInv == IInv /\ UNCHANGED vars => IInv'
BY DEF vars, IInv, TypeOK, RifsDistinct, FreeRifsClean, EntriesAreCached, AsicAsked,
       Routed, Used

LEMMA NextIInv == IInv /\ [Next]_vars => IInv'
<1> SUFFICES ASSUME IInv, [Next]_vars PROVE IInv'
    OBVIOUS
<1>1. ASSUME NEW b \in Bundles, NEW i \in RifIds, RifCreate(b, i) PROVE IInv'
    BY <1>1, RifCreateIInv
<1>2. ASSUME NEW b \in Bundles, RifRemove(b) PROVE IInv'
    BY <1>2, RifRemoveIInv
<1>3. ASSUME NEW b \in Bundles, Destroy(b) PROVE IInv'
    BY <1>3, DestroyIInv
<1>4. ASSUME NEW b \in Bundles, NEW ip \in Ips, NEW m \in Macs \cup {Empty},
             AddHost(b, ip, m)
      PROVE  IInv'
    BY <1>4, AddHostIInv
<1>5. ASSUME NEW b \in Bundles, NEW ip \in Ips, DeleteHost(b, ip) PROVE IInv'
    BY <1>5, DeleteHostIInv
<1> QED
    BY <1>1, <1>2, <1>3, <1>4, <1>5, StutterIInv DEF Next

-----------------------------------------------------------------------------
\* The bookkeeping of neighbors stays well-typed.
THEOREM TypeCorrect == Spec => []TypeOK
<1>1. IInv => TypeOK
    BY DEF IInv
<1> QED
    BY <1>1, InitIInv, NextIInv, PTL DEF Spec

\* Every neighbor in the ASIC on the rif of a bundle can be deleted again and
\* asked for its hit bit: the bundle's cache has it, with a MAC.
THEOREM NeighborsAreCached == Spec => []EntriesAreCached
<1>1. IInv => EntriesAreCached
    BY DEF IInv
<1> QED
    BY <1>1, InitIInv, NextIInv, PTL DEF Spec

-----------------------------------------------------------------------------
(* CachedWasInstalled, with TypeOK, is inductive by itself.                *)

LEMMA CachedStep ==
    TypeOK /\ CachedWasInstalled /\ [Next]_vars => CachedWasInstalled'
<1> SUFFICES ASSUME TypeOK, CachedWasInstalled, [Next]_vars,
                    NEW a \in Bundles, NEW x \in Ips, cache'[a][x] \in Macs
             PROVE  <<x, cache'[a][x]>> \in installed'[a]
    BY DEF CachedWasInstalled
<1>1. ASSUME UNCHANGED <<cache, installed>>
      PROVE  <<x, cache'[a][x]>> \in installed'[a]
    BY <1>1 DEF CachedWasInstalled
<1>2. ASSUME NEW b \in Bundles, Destroy(b)
      PROVE  <<x, cache'[a][x]>> \in installed'[a]
    BY <1>2, HostAssumption DEF Destroy, TypeOK, NoNeighbors, CachedWasInstalled
<1>3. ASSUME NEW b \in Bundles, NEW ip \in Ips, NEW m \in Macs \cup {Empty},
             AddHost(b, ip, m)
      PROVE  <<x, cache'[a][x]>> \in installed'[a]
    <2>1. cache[b][ip] \in MacOrNone
        BY DEF TypeOK
    <2>2. CASE AddCached(b, ip, m)
        BY <1>1, <2>2 DEF AddCached
    <2>3. CASE AddNotPassed(b, ip, m)
        <3> DEFINE c == Remembered(cache[b][ip], m)
        <3>1. c \in Macs => c = cache[b][ip]
            BY <2>1, <2>3, PassedIsMac, RememberedEmptyFacts DEF AddNotPassed
        <3>2. cache' = [cache EXCEPT ![b][ip] = c] /\ UNCHANGED installed
            BY <2>3 DEF AddNotPassed
        <3> HIDE DEF c
        <3> QED
            BY <3>1, <3>2 DEF TypeOK, CachedWasInstalled
    <2>4. CASE AddInstalled(b, ip, m)
        <3> DEFINE c == Remembered(DroppedEmpty(cache[b][ip]), m)
        <3>1. c \in {cache[b][ip], m} /\ c \in Macs
            BY <2>1, <2>4, PassedIsMac, RememberedFacts DEF AddInstalled
        <3>2. /\ cache' = [cache EXCEPT ![b][ip] = c]
              /\ installed' = [installed EXCEPT ![b] = @ \cup {<<ip, m>>}]
            BY <2>4 DEF AddInstalled
        <3> HIDE DEF c
        <3>3. CASE a = b /\ x = ip
            <4>1. cache'[a][x] = c /\ installed'[a] = installed[b] \cup {<<ip, m>>}
                BY <3>2, <3>3 DEF TypeOK
            <4> QED
                BY <3>1, <3>3, <4>1 DEF CachedWasInstalled
        <3>4. CASE ~(a = b /\ x = ip)
            <4>1. cache'[a][x] = cache[a][x] /\ installed[a] \subseteq installed'[a]
                BY <3>2, <3>4 DEF TypeOK
            <4> QED
                BY <4>1 DEF CachedWasInstalled
        <3> QED
            BY <3>3, <3>4
    <2>5. CASE AddFails(b, ip, m)
        <3> DEFINE c == Refused(cache[b][ip], m)
        <3>1. c \in Macs => c = cache[b][ip]
            BY <2>1, <2>5, PassedIsMac, RememberedFacts DEF AddFails
        <3>2. cache' = [cache EXCEPT ![b][ip] = c] /\ UNCHANGED installed
            BY <2>5 DEF AddFails
        <3> HIDE DEF c
        <3> QED
            BY <3>1, <3>2 DEF TypeOK, CachedWasInstalled
    <2> QED
        BY <1>3, <2>2, <2>3, <2>4, <2>5 DEF AddHost
<1>4. ASSUME NEW b \in Bundles, NEW ip \in Ips, DeleteHost(b, ip)
      PROVE  <<x, cache'[a][x]>> \in installed'[a]
    BY <1>4, HostAssumption DEF DeleteHost, AsicAsked, TypeOK, CachedWasInstalled
<1>5. ASSUME NEW b \in Bundles, (\E i \in RifIds : RifCreate(b, i)) \/ RifRemove(b)
      PROVE  UNCHANGED <<cache, installed>>
    BY <1>5 DEF RifCreate, RifRemove
<1>6. UNCHANGED vars => UNCHANGED <<cache, installed>>
    BY DEF vars
<1> QED
    BY <1>1, <1>2, <1>3, <1>4, <1>5, <1>6 DEF Next

\* A MAC in the cache was accepted by the SDK for this bundle and address: a
\* failed add leaves nothing behind that a later one would rely on.
THEOREM CacheIsEarned == Spec => []CachedWasInstalled
<1>1. Init => CachedWasInstalled
    BY HostAssumption DEF Init, NoNeighbors, CachedWasInstalled
<1> QED
    BY <1>1, CachedStep, TypeCorrect, PTL DEF Spec

-----------------------------------------------------------------------------
(* How far finding "neighbor_move" reaches.                                *)

\* A MAC that the ASIC forwards to, or that an add returned 0 for, was at some
\* time accepted by the SDK for this bundle and address.
ForwardedWasInstalled ==
    \A b \in Routed, ip \in Ips :
        neigh[rif[b]][ip] # Absent => <<ip, neigh[rif[b]][ip]>> \in installed[b]
ToldWasInstalled ==
    \A b \in Bundles, ip \in Ips :
        told[b][ip] \in Macs => <<ip, told[b][ip]>> \in installed[b]

LEMMA ForwardedStep ==
    IInv /\ ForwardedWasInstalled /\ [Next]_vars => ForwardedWasInstalled'
<1> SUFFICES ASSUME IInv, ForwardedWasInstalled, [Next]_vars,
                    NEW a \in Routed', NEW x \in Ips, neigh'[rif'[a]][x] # Absent
             PROVE  <<x, neigh'[rif'[a]][x]>> \in installed'[a]
    BY DEF ForwardedWasInstalled
<1>1. /\ rif \in [Bundles -> RifIds \cup {NoRif}]
      /\ neigh \in [RifIds -> [Ips -> Macs \cup {Absent}]]
      /\ installed \in [Bundles -> SUBSET (Ips \X Macs)]
      /\ a \in Bundles
    BY DEF IInv, TypeOK, Routed
<1>2. ASSUME a \in Routed, rif'[a] = rif[a], neigh'[rif[a]][x] = neigh[rif[a]][x],
             installed[a] \subseteq installed'[a]
      PROVE  <<x, neigh'[rif'[a]][x]>> \in installed'[a]
    BY <1>2 DEF ForwardedWasInstalled
<1>3. ASSUME UNCHANGED <<rif, neigh, installed>>
      PROVE  <<x, neigh'[rif'[a]][x]>> \in installed'[a]
    BY <1>2, <1>3 DEF Routed
<1>4. ASSUME NEW b \in Bundles, NEW i \in RifIds, RifCreate(b, i)
      PROVE  <<x, neigh'[rif'[a]][x]>> \in installed'[a]
    <2>1. i \notin Used /\ rif' = [rif EXCEPT ![b] = i] /\ UNCHANGED <<neigh, installed>>
        BY <1>4 DEF RifCreate
    <2>2. a # b
        <3>1. neigh[i] = NoNeighbors
            BY <2>1 DEF IInv, FreeRifsClean
        <3>2. a = b => neigh'[rif'[a]][x] = Absent
            BY <1>1, <2>1, <3>1 DEF NoNeighbors
        <3> QED
            BY <3>2
    <2>3. rif'[a] = rif[a] /\ a \in Routed
        BY <1>1, <2>1, <2>2 DEF Routed
    <2> QED
        BY <1>2, <2>1, <2>3
<1>5. ASSUME NEW b \in Bundles, RifRemove(b) \/ Destroy(b)
      PROVE  <<x, neigh'[rif'[a]][x]>> \in installed'[a]
    <2>1. /\ Routed' = Routed \ {b}
          /\ \A c \in Routed' : rif'[c] = rif[c] /\ neigh'[rif[c]] = neigh[rif[c]]
        BY <1>5, RifGone DEF RifRemove, Destroy
    <2>2. a # b /\ a \in Routed /\ rif'[a] = rif[a] /\ neigh'[rif[a]] = neigh[rif[a]]
        BY <2>1
    <2>3. installed'[a] = installed[a]
        BY <1>1, <1>5, <2>2 DEF RifRemove, Destroy
    <2> QED
        BY <1>2, <2>2, <2>3
<1>6. ASSUME NEW b \in Bundles, NEW ip \in Ips, NEW m \in Macs \cup {Empty},
             AddHost(b, ip, m)
      PROVE  <<x, neigh'[rif'[a]][x]>> \in installed'[a]
    <2>1. CASE AddCached(b, ip, m) \/ AddNotPassed(b, ip, m) \/ AddFails(b, ip, m)
        BY <1>3, <2>1 DEF AddCached, AddNotPassed, AddFails
    <2>2. CASE AddInstalled(b, ip, m)
        <3>1. /\ b \in Routed /\ rif[b] \in RifIds
              /\ neigh' = [neigh EXCEPT ![rif[b]][ip] = m]
              /\ installed' = [installed EXCEPT ![b] = @ \cup {<<ip, m>>}]
              /\ rif' = rif
            BY <1>1, <1>6, <2>2 DEF AddInstalled, AddHost, Routed
        <3>2. a \in Routed /\ rif[a] \in RifIds
            BY <1>1, <3>1 DEF Routed
        <3>3. CASE a = b /\ x = ip
            <4>1. neigh'[rif'[a]][x] = m
                BY <1>1, <3>1, <3>3
            <4>2. <<ip, m>> \in installed'[a]
                BY <1>1, <3>1, <3>3
            <4> QED
                BY <3>3, <4>1, <4>2
        <3>4. CASE ~(a = b /\ x = ip)
            <4>1. rif[a] = rif[b] => a = b
                BY <3>1, <3>2 DEF IInv, RifsDistinct
            <4>2. neigh'[rif[a]][x] = neigh[rif[a]][x]
                BY <1>1, <3>1, <3>2, <3>4, <4>1
            <4>3. installed[a] \subseteq installed'[a]
                BY <1>1, <3>1
            <4> QED
                BY <1>2, <3>1, <3>2, <4>2, <4>3
        <3> QED
            BY <3>3, <3>4
    <2> QED
        BY <1>6, <2>1, <2>2 DEF AddHost
<1>7. ASSUME NEW b \in Bundles, NEW ip \in Ips, DeleteHost(b, ip)
      PROVE  <<x, neigh'[rif'[a]][x]>> \in installed'[a]
    <2>1. /\ rif' = rif /\ installed' = installed
          /\ \/ neigh' = neigh
             \/ neigh' = [neigh EXCEPT ![rif[b]][ip] = Absent]
        BY <1>7 DEF DeleteHost
    <2>2. a \in Routed /\ rif[a] \in RifIds
        BY <1>1, <2>1 DEF Routed
    <2>3. neigh'[rif[a]][x] = neigh[rif[a]][x]
        BY <1>1, <2>1, <2>2
    <2> QED
        BY <1>2, <2>1, <2>2, <2>3
<1>8. UNCHANGED vars => UNCHANGED <<rif, neigh, installed>>
    BY DEF vars
<1> QED
    BY <1>3, <1>4, <1>5, <1>6, <1>7, <1>8 DEF Next

LEMMA ToldStep ==
    IInv /\ CachedWasInstalled /\ ToldWasInstalled /\ [Next]_vars => ToldWasInstalled'
<1> SUFFICES ASSUME IInv, CachedWasInstalled, ToldWasInstalled, [Next]_vars,
                    NEW a \in Bundles, NEW x \in Ips, told'[a][x] \in Macs
             PROVE  <<x, told'[a][x]>> \in installed'[a]
    BY DEF ToldWasInstalled
<1>1. /\ told \in [Bundles -> [Ips -> MacOrNone]]
      /\ installed \in [Bundles -> SUBSET (Ips \X Macs)]
    BY DEF IInv, TypeOK
<1>2. ASSUME told'[a][x] = told[a][x], installed[a] \subseteq installed'[a]
      PROVE  <<x, told'[a][x]>> \in installed'[a]
    BY <1>2 DEF ToldWasInstalled
<1>3. ASSUME UNCHANGED <<told, installed>>
      PROVE  <<x, told'[a][x]>> \in installed'[a]
    BY <1>2, <1>3
<1>4. ASSUME NEW b \in Bundles, RifRemove(b) \/ Destroy(b)
      PROVE  <<x, told'[a][x]>> \in installed'[a]
    <2>1. told' = [told EXCEPT ![b] = NoNeighbors]
        BY <1>4 DEF RifRemove, Destroy
    <2>2. a # b
        BY <1>1, <2>1, HostAssumption DEF NoNeighbors
    <2>3. told'[a] = told[a] /\ installed'[a] = installed[a]
        BY <1>1, <1>4, <2>1, <2>2 DEF RifRemove, Destroy
    <2> QED
        BY <1>2, <2>3
<1>5. ASSUME NEW b \in Bundles, NEW ip \in Ips, NEW m \in Macs \cup {Empty},
             AddHost(b, ip, m)
      PROVE  <<x, told'[a][x]>> \in installed'[a]
    <2>1. CASE AddFails(b, ip, m)
        BY <1>3, <2>1 DEF AddFails
    <2>2. CASE ~AddFails(b, ip, m)
        <3>1. /\ told' = [told EXCEPT ![b][ip] = m]
              /\ installed' \in {installed, [installed EXCEPT ![b] = @ \cup {<<ip, m>>}]}
            BY <1>5, <2>2 DEF AddHost, AddCached, AddNotPassed, AddInstalled
        <3>2. installed[a] \subseteq installed'[a]
            BY <1>1, <3>1
        <3>3. CASE ~(a = b /\ x = ip)
            <4>1. told'[a][x] = told[a][x]
                BY <1>1, <3>1, <3>3
            <4> QED
                BY <1>2, <3>2, <4>1
        <3>4. CASE a = b /\ x = ip
            <4>1. told'[a][x] = m /\ m \in Macs
                BY <1>1, <3>1, <3>4
            <4>2. <<ip, m>> \in installed'[b]
                <5>1. CASE AddCached(b, ip, m)
                    BY <4>1, <5>1 DEF AddCached, CachedWasInstalled
                <5>2. CASE AddNotPassed(b, ip, m)
                    BY <4>1, <5>2, HostAssumption DEF AddNotPassed, Passed
                <5>3. CASE AddInstalled(b, ip, m)
                    BY <1>1, <5>3 DEF AddInstalled
                <5> QED
                    BY <1>5, <2>2, <5>1, <5>2, <5>3 DEF AddHost
            <4> QED
                BY <3>4, <4>1, <4>2
        <3> QED
            BY <3>3, <3>4
    <2> QED
        BY <2>1, <2>2
<1>6. ASSUME NEW b \in Bundles, NEW ip \in Ips, DeleteHost(b, ip)
      PROVE  <<x, told'[a][x]>> \in installed'[a]
    <2>1. told' = [told EXCEPT ![b][ip] = Absent] /\ installed' = installed
        BY <1>6 DEF DeleteHost
    <2>2. told'[a][x] = told[a][x]
        BY <1>1, <2>1, HostAssumption
    <2> QED
        BY <1>2, <2>1, <2>2
<1>7. ASSUME NEW b \in Bundles, NEW i \in RifIds, RifCreate(b, i)
      PROVE  UNCHANGED <<told, installed>>
    BY <1>7 DEF RifCreate
<1>8. UNCHANGED vars => UNCHANGED <<told, installed>>
    BY DEF vars
<1> QED
    BY <1>3, <1>4, <1>5, <1>6, <1>7, <1>8 DEF Next

\* Only a neighbor that has moved is ever forwarded to another MAC than the
\* last add that returned 0 has named; one that has not is forwarded to that
\* MAC or, when the cache outlived the rif, not at all.  Run neighbor_move
\* shows that the hypothesis cannot be dropped.
THEOREM WrongMacOnlyMoved == Spec => []NoWrongMacUnlessMoved
<1>1. Init => ForwardedWasInstalled /\ ToldWasInstalled
    BY HostAssumption DEF Init, NoNeighbors, ForwardedWasInstalled, ToldWasInstalled,
                          Routed
<1>2. IInv /\ ForwardedWasInstalled /\ ToldWasInstalled => NoWrongMacUnlessMoved
    <2> SUFFICES ASSUME IInv, ForwardedWasInstalled, ToldWasInstalled,
                        NEW b \in Routed, NEW ip \in Ips,
                        NeverMoved(b, ip), told[b][ip] \in Macs,
                        neigh[rif[b]][ip] # Absent
                 PROVE  neigh[rif[b]][ip] = told[b][ip]
        BY DEF NoWrongMacUnlessMoved
    <2>1. b \in Bundles /\ rif[b] \in RifIds /\ neigh[rif[b]][ip] \in Macs
        BY DEF IInv, TypeOK, Routed
    <2>2. /\ <<ip, neigh[rif[b]][ip]>> \in installed[b]
          /\ <<ip, told[b][ip]>> \in installed[b]
        BY <2>1 DEF ForwardedWasInstalled, ToldWasInstalled
    <2> QED
        BY <2>1, <2>2 DEF NeverMoved
<1> QED
    BY <1>1, <1>2, InitIInv, NextIInv, ForwardedStep, ToldStep, CacheIsEarned, PTL DEF Spec

=============================================================================
