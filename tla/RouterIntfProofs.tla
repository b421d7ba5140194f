-------------------------- MODULE RouterIntfProofs --------------------------
(* Proofs about RouterIntf for any bundles, ports, prefixes, rifs and      *)
(* settings, and an SDK that may or may not fail.                          *)
EXTENDS RouterIntf, TLAPS

-----------------------------------------------------------------------------
(* The inductive invariant, of any state st: a callback is a composition   *)
(* of functions, and the invariant holds between them too.                 *)

RoutedOf(bundle) == {b \in Bundles : bundle[b] # None /\ bundle[b].rif # None}

\* A port is in no bundle or in one that there is.
Joined(bundle, bundleOf) ==
    \A p \in Ports : bundleOf[p] # None => bundle[bundleOf[p]] # None

\* What bundles, the vendor class and the ASIC have about a rif agrees.
Agreed(bundle, entry, rif) ==
    \A b \in RoutedOf(bundle) :
        LET i == bundle[b].rif
        IN  /\ entry[i] # None /\ rif[i] # None
            /\ entry[i].type = rif[i].type
            /\ entry[i].data = rif[i].data
            /\ entry[i].data = bundle[b].data

\* So does the admin state.
Administered(bundle, rif) ==
    \A b \in RoutedOf(bundle) : bundle[b].enabled = rif[bundle[b].rif].enabled

Unshared(bundle) ==
    \A a, b \in RoutedOf(bundle) : bundle[a].rif = bundle[b].rif => a = b

\* Routes leave through rifs that are there and are tracked by their bundle.
Tracked(bundle, rif, route) ==
    \A x \in Prefixes : route[x] # None =>
        /\ rif[route[x]] # None
        /\ \A b \in RoutedOf(bundle) :
              bundle[b].rif = route[x] => bundle[b].routes[x] > 0

\* The pointer of the port that a rif was made for goes to the rif's bundle, or
\* nowhere, even while the port is in another bundle.
Pointing(bundle, rif, ptr) ==
    \A b \in RoutedOf(bundle), p \in Ports :
        /\ rif[bundle[b].rif].type = "port"
        /\ Kind[p] = "system" /\ bundle[b].data = HwId[p]
        => ptr[p] \in {b, None}

Good(st) ==
    /\ st \in State
    /\ Joined(st.bundle, st.bundleOf)
    /\ Agreed(st.bundle, st.entry, st.rif)
    /\ Administered(st.bundle, st.rif)
    /\ Unshared(st.bundle)
    /\ Tracked(st.bundle, st.rif, st.route)
    /\ Pointing(st.bundle, st.rif, st.ptr)

LEMMA FieldTypes ==
    ASSUME NEW st \in State
    PROVE  /\ st.bundle \in [Bundles -> Bundle \cup {None}]
           /\ st.bundleOf \in [Ports -> Bundles \cup {None}]
           /\ st.ptr \in [Ports -> Bundles \cup {None, Freed}]
           /\ st.entry \in [RifIds -> Entry \cup {None}]
           /\ st.rif \in [RifIds -> Rif \cup {None}]
           /\ st.route \in [Prefixes -> RifIds \cup {None}]
           /\ st.aborted \in BOOLEAN
BY DEF State


-----------------------------------------------------------------------------
LEMMA OutcomeFields ==
    ASSUME NEW st
    PROVE  /\ Done(st).st = st /\ Done(st).ok
           /\ Failed(st).st = st /\ ~Failed(st).ok
BY DEF Done, Failed

LEMMA NoneFacts ==
    /\ None \notin Bundle /\ None \notin Entry /\ None \notin Rif
    /\ None \notin Bundles /\ None \notin RifIds /\ None # Freed /\ Freed \notin Bundles
BY RifAssumption

-----------------------------------------------------------------------------
(* Steps that make no rif.                                                 *)

\* From st to t bundle a keeps its rif, but for the admin state and the counter.
KeepsRif(st, t, a) ==
    LET i == st.bundle[a].rif
    IN  /\ t.bundle[a].rif = i /\ t.bundle[a].data = st.bundle[a].data
        /\ t.entry[i] # None /\ t.rif[i] # None
        /\ t.entry[i].type = st.entry[i].type /\ t.entry[i].data = st.entry[i].data
        /\ t.rif[i].type = st.rif[i].type /\ t.rif[i].data = st.rif[i].data

\* Pointers stay, are reset, or leave a bundle that has no rif any more.
KeepsPointers(st, t) ==
    \A p \in Ports : \/ t.ptr[p] \in {st.ptr[p], None}
                     \/ st.ptr[p] \in Bundles \ RoutedOf(t.bundle)

\* From st to t no port moves and no bundle but b, which stays, changes.
Within(st, t, b) ==
    /\ t.bundleOf = st.bundleOf
    /\ st.bundle[b] # None => t.bundle[b] # None
    /\ \A a \in Bundles \ {b} : t.bundle[a] = st.bundle[a]

LEMMA WithinTransitive ==
    ASSUME NEW s, NEW t, NEW u, NEW b, Within(s, t, b), Within(t, u, b)
    PROVE  Within(s, u, b)
BY DEF Within

\* A function changed in one place.
LEMMA ChangedAt ==
    ASSUME NEW S, NEW T, NEW f \in [S -> T], NEW k \in S, NEW v,
           NEW g, g = [f EXCEPT ![k] = v]
    PROVE  /\ g[k] = v /\ \A j \in S \ {k} : g[j] = f[j]
           /\ v \in T => g \in [S -> T]
OBVIOUS

\* What a good state has about the rif of one bundle.
LEMMA AgreedAt ==
    ASSUME NEW st, Good(st), NEW a \in RoutedOf(st.bundle)
    PROVE  /\ a \in Bundles /\ st.bundle[a].rif \in RifIds
           /\ st.entry[st.bundle[a].rif] # None /\ st.rif[st.bundle[a].rif] # None
<1>1. st.bundle \in [Bundles -> Bundle \cup {None}]
    BY FieldTypes DEF Good
<1>2. a \in Bundles /\ st.bundle[a] # None /\ st.bundle[a].rif # None
    BY DEF RoutedOf
<1>3. st.bundle[a].rif \in RifIds
    BY <1>1, <1>2 DEF Bundle
<1>4. Agreed(st.bundle, st.entry, st.rif)
    BY DEF Good
<1>5. st.entry[st.bundle[a].rif] # None /\ st.rif[st.bundle[a].rif] # None
    BY <1>4 DEF Agreed
<1> QED
    BY <1>2, <1>3, <1>5

LEMMA AgreedIntro ==
    ASSUME NEW bundle, NEW entry, NEW rif,
           \A a \in RoutedOf(bundle) : \A i : i = bundle[a].rif =>
               /\ entry[i] # None /\ rif[i] # None
               /\ entry[i].type = rif[i].type
               /\ entry[i].data = rif[i].data
               /\ entry[i].data = bundle[a].data
    PROVE  Agreed(bundle, entry, rif)
BY DEF Agreed

LEMMA NoNewRif ==
    ASSUME NEW st, Good(st), NEW t \in State,
           \A a \in RoutedOf(t.bundle) : a \in RoutedOf(st.bundle) /\ KeepsRif(st, t, a),
           KeepsPointers(st, t), Joined(t.bundle, t.bundleOf),
           Administered(t.bundle, t.rif), Tracked(t.bundle, t.rif, t.route)
    PROVE  Good(t)
<1>1. Agreed(t.bundle, t.entry, t.rif)
    <2> SUFFICES ASSUME NEW a \in RoutedOf(t.bundle), NEW i, i = t.bundle[a].rif
                 PROVE  /\ t.entry[i] # None /\ t.rif[i] # None
                        /\ t.entry[i].type = t.rif[i].type
                        /\ t.entry[i].data = t.rif[i].data
                        /\ t.entry[i].data = t.bundle[a].data
        BY AgreedIntro
    <2>1. a \in RoutedOf(st.bundle) /\ KeepsRif(st, t, a)
        OBVIOUS
    <2>2. Agreed(st.bundle, st.entry, st.rif)
        BY DEF Good
    <2>3. /\ st.entry[st.bundle[a].rif].type = st.rif[st.bundle[a].rif].type
          /\ st.entry[st.bundle[a].rif].data = st.rif[st.bundle[a].rif].data
          /\ st.entry[st.bundle[a].rif].data = st.bundle[a].data
        BY <2>1, <2>2, Zenon DEF Agreed
    <2> QED
        BY <2>1, <2>3, Zenon DEF KeepsRif
<1>2. Unshared(t.bundle)
    <2>1. Unshared(st.bundle)
        BY DEF Good
    <2>2. \A a \in RoutedOf(t.bundle) :
             a \in RoutedOf(st.bundle) /\ t.bundle[a].rif = st.bundle[a].rif
        BY Zenon DEF KeepsRif
    <2> QED
        BY <2>1, <2>2, Zenon DEF Unshared
<1>3. Pointing(t.bundle, t.rif, t.ptr)
    <2> SUFFICES ASSUME NEW b \in RoutedOf(t.bundle), NEW p \in Ports,
                        t.rif[t.bundle[b].rif].type = "port",
                        Kind[p] = "system", t.bundle[b].data = HwId[p]
                 PROVE  t.ptr[p] \in {b, None}
        BY DEF Pointing
    <2>a. b \in RoutedOf(st.bundle) /\ KeepsRif(st, t, b)
        OBVIOUS
    <2>b. /\ t.bundle[b].rif = st.bundle[b].rif /\ t.bundle[b].data = st.bundle[b].data
          /\ t.rif[st.bundle[b].rif].type = st.rif[st.bundle[b].rif].type
        BY <2>a DEF KeepsRif
    <2>c. st.rif[st.bundle[b].rif].type = "port" /\ st.bundle[b].data = HwId[p]
        BY <2>b, Zenon
    <2>d. Pointing(st.bundle, st.rif, st.ptr)
        BY DEF Good
    <2>1. st.ptr[p] \in {b, None}
        BY <2>a, <2>c, <2>d, Zenon DEF Pointing
    <2> QED
        BY <2>1, NoneFacts DEF KeepsPointers
<1> QED
    BY <1>1, <1>2, <1>3 DEF Good

LEMMA VendorSetStateFacts ==
    ASSUME NEW st, NEW i, NEW up, NEW o \in VendorSetState(st, i, up)
    PROVE  \/ o = Done([st EXCEPT !.rif[i].enabled = up])
           \/ o = Failed(st)
BY DEF VendorSetState, May

\* The admin state of bundle b and of its rif change together.
AdminStateChanged(st, t, b, i, r, k) ==
    /\ i = st.bundle[b].rif
    /\ r \in Bundle /\ r.rif = i /\ r.data = st.bundle[b].data
    /\ r.routes = st.bundle[b].routes
    /\ k \in Rif /\ k.type = st.rif[i].type /\ k.data = st.rif[i].data
    /\ r.enabled = k.enabled
    /\ t \in State /\ t.bundle = [st.bundle EXCEPT ![b] = r]
    /\ t.rif = [st.rif EXCEPT ![i] = k] /\ t.bundleOf = st.bundleOf
    /\ t.ptr = st.ptr /\ t.entry = st.entry /\ t.route = st.route

LEMMA AdminStateIsGood ==
    ASSUME NEW st, Good(st), NEW b \in RoutedOf(st.bundle), NEW t, NEW i, NEW r, NEW k,
           AdminStateChanged(st, t, b, i, r, k)
    PROVE  /\ Good(t) /\ Within(st, t, b)
           /\ t.bundle[b].rif = st.bundle[b].rif
<1>i. i = st.bundle[b].rif
    BY Zenon DEF AdminStateChanged
<1>1. b \in Bundles /\ i \in RifIds
    BY <1>i, AgreedAt
<1> USE DEF Good
<1>0. /\ st.bundle \in [Bundles -> Bundle \cup {None}]
      /\ st.bundleOf \in [Ports -> Bundles \cup {None}]
      /\ st.rif \in [RifIds -> Rif \cup {None}]
      /\ st.route \in [Prefixes -> RifIds \cup {None}]
    BY FieldTypes
<1>4. r \in Bundle /\ r.rif = i /\ r.data = st.bundle[b].data
      /\ r.routes = st.bundle[b].routes
    BY Zenon DEF AdminStateChanged
<1>5. k \in Rif /\ k.type = st.rif[i].type /\ k.data = st.rif[i].data /\ r.enabled = k.enabled
    BY Zenon DEF AdminStateChanged
<1>6. /\ t.bundle = [st.bundle EXCEPT ![b] = r]
      /\ t.rif = [st.rif EXCEPT ![i] = k]
      /\ t.bundleOf = st.bundleOf /\ t.ptr = st.ptr /\ t.entry = st.entry
      /\ t.route = st.route
    BY Zenon DEF AdminStateChanged
<1>7. t \in State
    BY Zenon DEF AdminStateChanged
<1>8. RoutedOf(t.bundle) = RoutedOf(st.bundle)
    BY <1>0, <1>1, <1>4, <1>6, NoneFacts DEF RoutedOf
<1>9. ASSUME NEW a \in RoutedOf(st.bundle), a # b
      PROVE  t.bundle[a] = st.bundle[a] /\ t.rif[st.bundle[a].rif] = st.rif[st.bundle[a].rif]
    <2>1. a \in Bundles /\ st.bundle[a].rif \in RifIds
        BY AgreedAt
    <2>2. st.bundle[a].rif # i
        BY <1>i, <1>9 DEF Unshared
    <2>3. t.bundle[a] = st.bundle[a]
        BY <1>0, <1>1, <1>6, <1>9, <2>1, ChangedAt
    <2>4. t.rif[st.bundle[a].rif] = st.rif[st.bundle[a].rif]
        BY <1>0, <1>1, <1>6, <2>1, <2>2, ChangedAt
    <2> QED
        BY <2>3, <2>4
<1>10. t.bundle[b] = r /\ t.rif[i] = k
    <2>1. t.bundle[b] = r
        BY <1>0, <1>1, <1>6, ChangedAt
    <2>2. t.rif[i] = k
        BY <1>0, <1>1, <1>6, ChangedAt
    <2> QED
        BY <2>1, <2>2
<1>11. ASSUME NEW a \in RoutedOf(t.bundle)
       PROVE  a \in RoutedOf(st.bundle) /\ KeepsRif(st, t, a)
    <2>0. a \in RoutedOf(st.bundle)
        BY <1>8
    <2>1. st.entry[st.bundle[a].rif] # None /\ st.rif[st.bundle[a].rif] # None
        BY <2>0, AgreedAt
    <2>2. CASE a = b
        <3>1. /\ t.bundle[a].rif = st.bundle[a].rif /\ t.bundle[a].data = st.bundle[a].data
            BY <1>i, <1>4, <1>10, <2>2, Zenon
        <3>2. t.rif[st.bundle[a].rif] = k /\ k # None
            BY <1>i, <1>5, <1>10, <2>2, NoneFacts, Zenon
        <3>3. k.type = st.rif[st.bundle[a].rif].type /\ k.data = st.rif[st.bundle[a].rif].data
            BY <1>i, <1>5, <2>2, Zenon
        <3> QED
            BY <1>6, <2>0, <2>1, <3>1, <3>2, <3>3, Zenon DEF KeepsRif
    <2>3. CASE a # b
        <3>1. t.bundle[a] = st.bundle[a] /\ t.rif[st.bundle[a].rif] = st.rif[st.bundle[a].rif]
            BY <1>9, <2>0, <2>3
        <3> QED
            BY <1>6, <2>0, <2>1, <3>1, Zenon DEF KeepsRif
    <2> QED
        BY <2>2, <2>3
<1>12. Administered(t.bundle, t.rif)
    <2> SUFFICES ASSUME NEW a \in RoutedOf(t.bundle)
                 PROVE  t.bundle[a].enabled = t.rif[t.bundle[a].rif].enabled
        BY DEF Administered
    <2>1. CASE a = b
        <3>1. r.rif = i /\ r.enabled = k.enabled
            BY <1>4, <1>5, Zenon
        <3> QED
            BY <1>10, <2>1, <3>1, Zenon
    <2>2. CASE a # b
        <3>1. st.bundle[a].enabled = st.rif[st.bundle[a].rif].enabled
            BY <1>8 DEF Administered
        <3>2. /\ t.bundle[a] = st.bundle[a]
              /\ t.rif[st.bundle[a].rif] = st.rif[st.bundle[a].rif]
            BY <1>8, <1>9, <2>2
        <3> QED
            BY <3>1, <3>2, Zenon
    <2> QED
        BY <2>1, <2>2
<1>13. Joined(t.bundle, t.bundleOf)
    BY <1>0, <1>4, <1>6, NoneFacts DEF Joined
<1>14. Tracked(t.bundle, t.rif, t.route)
    <2> SUFFICES ASSUME NEW x \in Prefixes, t.route[x] # None
                 PROVE  /\ t.rif[t.route[x]] # None
                        /\ \A a \in RoutedOf(t.bundle) :
                              t.bundle[a].rif = t.route[x] => t.bundle[a].routes[x] > 0
        BY DEF Tracked
    <2>0. t.route[x] = st.route[x] /\ st.route[x] # None
        BY <1>6, Zenon
    <2>1. /\ st.route[x] \in RifIds /\ st.rif[st.route[x]] # None
          /\ \A a \in RoutedOf(st.bundle) :
                st.bundle[a].rif = st.route[x] => st.bundle[a].routes[x] > 0
        <3>1. st.route[x] \in RifIds
            BY <1>0, <2>0
        <3>2. Tracked(st.bundle, st.rif, st.route)
            OBVIOUS
        <3> QED
            BY <2>0, <3>1, <3>2 DEF Tracked
    <2>2. t.rif[st.route[x]] # None
        <3>1. CASE st.route[x] = i
            BY <1>5, <1>10, <3>1, NoneFacts
        <3>2. CASE st.route[x] # i
            <4>1. t.rif[st.route[x]] = st.rif[st.route[x]]
                BY <1>0, <1>1, <1>6, <2>1, <3>2, ChangedAt
            <4> QED
                BY <2>1, <4>1
        <3> QED
            BY <3>1, <3>2
    <2>3. ASSUME NEW a \in RoutedOf(st.bundle)
          PROVE  t.bundle[a].rif = st.bundle[a].rif /\ t.bundle[a].routes = st.bundle[a].routes
        <3>1. CASE a = b
            BY <1>i, <1>4, <1>10, <3>1, Zenon
        <3>2. CASE a # b
            BY <1>9, <2>3, <3>2
        <3> QED
            BY <3>1, <3>2
    <2> QED
        BY <1>8, <2>0, <2>1, <2>2, <2>3
<1>15. KeepsPointers(st, t)
    BY <1>6 DEF KeepsPointers
<1> HIDE DEF Good
<1>16. Good(t)
    BY <1>7, <1>11, <1>12, <1>13, <1>14, <1>15, NoNewRif
<1>17. \A a \in Bundles \ {b} : t.bundle[a] = st.bundle[a]
    BY <1>0, <1>1, <1>6, ChangedAt
<1>18. Within(st, t, b)
    BY <1>4, <1>6, <1>10, <1>17, NoneFacts DEF Within
<1> QED
    BY <1>i, <1>4, <1>10, <1>16, <1>18

LEMMA TwoFieldsTyped ==
    ASSUME NEW st \in State,
           NEW B \in [Bundles -> Bundle \cup {None}], NEW R \in [RifIds -> Rif \cup {None}],
           NEW t, t = [st EXCEPT !.rif = R, !.bundle = B]
    PROVE  t \in State
BY DEF State

Enabled(st, b, up) == [st EXCEPT !.rif[st.bundle[b].rif].enabled = up,
                                 !.bundle[b].enabled = up]

LEMMA EnabledIsGood ==
    ASSUME NEW st, Good(st), NEW b \in RoutedOf(st.bundle), NEW up \in BOOLEAN,
           NEW t, t = Enabled(st, b, up)
    PROVE  /\ Good(t) /\ Within(st, t, b)
           /\ t.bundle[b].rif = st.bundle[b].rif
<1>i. PICK i : i = st.bundle[b].rif
    OBVIOUS
<1> USE DEF Good
<1>0. /\ st.bundle \in [Bundles -> Bundle \cup {None}]
      /\ st.bundleOf \in [Ports -> Bundles \cup {None}]
      /\ st.rif \in [RifIds -> Rif \cup {None}]
      /\ st.route \in [Prefixes -> RifIds \cup {None}]
    BY FieldTypes
<1>1. /\ b \in Bundles /\ st.bundle[b] \in Bundle /\ st.bundle[b].rif = i /\ i \in RifIds
      /\ st.rif[i] \in Rif
    BY <1>0, <1>i DEF RoutedOf, Bundle, Agreed
<1>2. PICK r : r = [st.bundle[b] EXCEPT !.enabled = up]
    OBVIOUS
<1>3. PICK k : k = [st.rif[i] EXCEPT !.enabled = up]
    OBVIOUS
<1>4. r \in Bundle /\ r.rif = i /\ r.data = st.bundle[b].data
      /\ r.enabled = up /\ r.routes = st.bundle[b].routes
    BY <1>1, <1>2 DEF Bundle
<1>5. k \in Rif /\ k.type = st.rif[i].type /\ k.data = st.rif[i].data /\ k.enabled = up
    BY <1>1, <1>3 DEF Rif
<1>6. /\ t.bundle = [st.bundle EXCEPT ![b] = r]
      /\ t.rif = [st.rif EXCEPT ![i] = k]
      /\ t.bundleOf = st.bundleOf /\ t.ptr = st.ptr /\ t.entry = st.entry
      /\ t.route = st.route /\ t.aborted = st.aborted
    BY <1>i, <1>2, <1>3 DEF State, Enabled
<1>7. t \in State
    <2>1. PICK B : B = [st.bundle EXCEPT ![b] = r]
        OBVIOUS
    <2>2. PICK R : R = [st.rif EXCEPT ![i] = k]
        OBVIOUS
    <2>3. B \in [Bundles -> Bundle \cup {None}]
        BY <1>0, <1>1, <1>4, <2>1, ChangedAt
    <2>4. R \in [RifIds -> Rif \cup {None}]
        BY <1>0, <1>1, <1>5, <2>2, ChangedAt
    <2>5. t = [st EXCEPT !.rif = R, !.bundle = B]
        BY <1>i, <1>2, <1>3, <2>1, <2>2, Zenon DEF Enabled
    <2>6. st \in State
        OBVIOUS
    <2> QED
        BY <2>3, <2>4, <2>5, <2>6, TwoFieldsTyped, Zenon
<1>8. k.enabled = r.enabled
    BY <1>4, <1>5, Zenon
<1> HIDE DEF Good
<1>9. AdminStateChanged(st, t, b, i, r, k)
    BY <1>i, <1>4, <1>5, <1>6, <1>7, <1>8, Zenon DEF AdminStateChanged
<1> QED
    BY <1>9, AdminStateIsGood

-----------------------------------------------------------------------------
(* The removal of a rif.                                                   *)

LEMMA DetachedIsGood ==
    ASSUME NEW st, Good(st), NEW b \in Bundles, NEW t, t = DetachPorts(st, b)
    PROVE  /\ Good(t) /\ Within(st, t, b)
           /\ t.bundle = st.bundle /\ t.rif = st.rif /\ t.entry = st.entry
           /\ t.route = st.route /\ t.bundleOf = st.bundleOf
<1>0. st \in State
    BY DEF Good
<1>1. PICK f : f = [p \in Ports |-> IF st.bundleOf[p] = b THEN None ELSE st.ptr[p]]
    OBVIOUS
<1>2. /\ t.ptr = f /\ t.bundle = st.bundle /\ t.rif = st.rif /\ t.entry = st.entry
      /\ t.route = st.route /\ t.bundleOf = st.bundleOf /\ t.aborted = st.aborted
    BY <1>0, <1>1 DEF State, DetachPorts
<1>3. t \in State
    <2>1. f \in [Ports -> Bundles \cup {None, Freed}]
        BY <1>0, <1>1, FieldTypes
    <2> QED
        BY <1>0, <1>1, <2>1 DEF State, DetachPorts
<1>4. \A a \in RoutedOf(t.bundle) : a \in RoutedOf(st.bundle) /\ KeepsRif(st, t, a)
    BY <1>2 DEF KeepsRif, Good, Agreed
<1>5. KeepsPointers(st, t)
    BY <1>1, <1>2 DEF KeepsPointers
<1>6. /\ Joined(t.bundle, t.bundleOf) /\ Administered(t.bundle, t.rif)
      /\ Tracked(t.bundle, t.rif, t.route)
    BY <1>2 DEF Good
<1>7. Good(t)
    BY <1>3, <1>4, <1>5, <1>6, NoNewRif
<1> QED
    BY <1>2, <1>7 DEF Within

WithCounter(st, i, c) == [st EXCEPT !.entry[i].counter = c]

LEMMA CounterIsGood ==
    ASSUME NEW st, Good(st), NEW b \in RoutedOf(st.bundle), NEW c \in CounterStates,
           NEW t, t = WithCounter(st, st.bundle[b].rif, c)
    PROVE  Good(t) /\ Within(st, t, b)
<1> DEFINE i == st.bundle[b].rif
<1>0. /\ st \in State
      /\ st.bundle \in [Bundles -> Bundle \cup {None}]
      /\ st.entry \in [RifIds -> Entry \cup {None}]
    BY FieldTypes DEF Good
<1>1. b \in Bundles /\ i \in RifIds /\ st.entry[i] \in Entry
    BY <1>0 DEF RoutedOf, Bundle, Good, Agreed
<1>2. PICK e : e = [st.entry[i] EXCEPT !.counter = c]
    OBVIOUS
<1>3. e \in Entry /\ e.type = st.entry[i].type /\ e.data = st.entry[i].data
    BY <1>1, <1>2 DEF Entry
<1>4. /\ t.entry = [st.entry EXCEPT ![i] = e]
      /\ t.ptr = st.ptr /\ t.bundle = st.bundle /\ t.rif = st.rif
      /\ t.route = st.route /\ t.bundleOf = st.bundleOf /\ t.aborted = st.aborted
    BY <1>0, <1>2 DEF State, WithCounter
<1>5. t \in State
    BY <1>0, <1>1, <1>3, <1>4 DEF State, WithCounter
<1>a. t.entry[i] = e /\ \A j \in RifIds \ {i} : t.entry[j] = st.entry[j]
    <2>1. PICK E : E = [st.entry EXCEPT ![i] = e]
        OBVIOUS
    <2>2. E[i] = e /\ \A j \in RifIds \ {i} : E[j] = st.entry[j]
        BY <1>0, <1>1, <2>1, ChangedAt
    <2> QED
        BY <1>4, <2>1, <2>2, Zenon
<1>6. ASSUME NEW j \in RifIds, st.entry[j] # None
      PROVE  t.entry[j] # None /\ t.entry[j].type = st.entry[j].type
             /\ t.entry[j].data = st.entry[j].data
    <2>1. CASE j = i
        <3>1. t.entry[j] = e
            BY <1>a, <2>1, Zenon
        <3>2. e # None
            BY <1>3, NoneFacts, Zenon
        <3> QED
            BY <1>3, <2>1, <3>1, <3>2, Zenon
    <2>2. CASE j # i
        <3>1. t.entry[j] = st.entry[j]
            BY <1>a, <2>2
        <3> QED
            BY <1>6, <3>1, Zenon
    <2> QED
        BY <2>1, <2>2
<1>7. ASSUME NEW a \in RoutedOf(t.bundle)
      PROVE  a \in RoutedOf(st.bundle) /\ KeepsRif(st, t, a)
    <2>1. a \in RoutedOf(st.bundle)
        BY <1>4
    <2>2. /\ st.bundle[a].rif \in RifIds
          /\ st.entry[st.bundle[a].rif] # None /\ st.rif[st.bundle[a].rif] # None
        BY <2>1, AgreedAt
    <2>3. /\ t.entry[st.bundle[a].rif] # None
          /\ t.entry[st.bundle[a].rif].type = st.entry[st.bundle[a].rif].type
          /\ t.entry[st.bundle[a].rif].data = st.entry[st.bundle[a].rif].data
        BY <1>6, <2>2
    <2> QED
        BY <1>4, <2>1, <2>2, <2>3, Zenon DEF KeepsRif
<1>8. /\ Joined(t.bundle, t.bundleOf) /\ Administered(t.bundle, t.rif)
      /\ Tracked(t.bundle, t.rif, t.route) /\ KeepsPointers(st, t)
    BY <1>4 DEF Good, KeepsPointers
<1>9. Good(t)
    BY <1>5, <1>7, <1>8, NoNewRif
<1> QED
    BY <1>4, <1>9 DEF Within

LEMMA NewBundleFacts ==
    NewBundle \in Bundle /\ NewBundle.rif = None /\ NewBundle # None
<1>1. NewBundle \in Bundle /\ NewBundle.rif = None
    BY DEF NewBundle, Bundle
<1> QED
    BY <1>1, NoneFacts

\* Bundle b loses its rif, of which no route is left.
Deleted(st, b) == [EntryDel(st, st.bundle[b].rif) EXCEPT
                      !.rif[st.bundle[b].rif] = None, !.bundle[b] = NewBundle]

LEMMA DeletedIsGood ==
    ASSUME NEW st, Good(st), NEW b \in RoutedOf(st.bundle),
           \A x \in Prefixes : st.bundle[b].routes[x] = 0,
           NEW t, t = Deleted(st, b)
    PROVE  Good(t) /\ Within(st, t, b) /\ t.bundle[b] = NewBundle
<1> DEFINE i == st.bundle[b].rif
<1>0. /\ st \in State
      /\ st.bundle \in [Bundles -> Bundle \cup {None}]
      /\ st.entry \in [RifIds -> Entry \cup {None}]
      /\ st.rif \in [RifIds -> Rif \cup {None}]
      /\ st.route \in [Prefixes -> RifIds \cup {None}]
    BY FieldTypes DEF Good
<1>1. b \in Bundles /\ i \in RifIds
    BY <1>0 DEF RoutedOf, Bundle
<1>2. /\ t.bundle = [st.bundle EXCEPT ![b] = NewBundle]
      /\ t.entry = [st.entry EXCEPT ![i] = None]
      /\ t.rif = [st.rif EXCEPT ![i] = None]
      /\ t.ptr = st.ptr /\ t.route = st.route
      /\ t.bundleOf = st.bundleOf /\ t.aborted = st.aborted
    BY <1>0 DEF State, EntryDel, Deleted
<1>3. t \in State
    BY <1>0, <1>1, <1>2, NewBundleFacts DEF State, EntryDel, Deleted
<1>a. /\ t.bundle[b] = NewBundle
      /\ \A a \in Bundles \ {b} : t.bundle[a] = st.bundle[a]
    BY <1>0, <1>1, <1>2, ChangedAt
<1>b. \A j \in RifIds \ {i} : t.entry[j] = st.entry[j]
    BY <1>0, <1>1, <1>2, ChangedAt
<1>c. \A j \in RifIds \ {i} : t.rif[j] = st.rif[j]
    BY <1>0, <1>1, <1>2, ChangedAt
<1>4. /\ t.bundle[b] = NewBundle
      /\ \A a \in Bundles \ {b} : t.bundle[a] = st.bundle[a]
      /\ \A j \in RifIds \ {i} : t.entry[j] = st.entry[j] /\ t.rif[j] = st.rif[j]
    BY <1>a, <1>b, <1>c
<1>5. ASSUME NEW a \in RoutedOf(t.bundle)
      PROVE  /\ a \in RoutedOf(st.bundle) /\ a # b
             /\ st.bundle[a].rif \in RifIds \ {i}
             /\ t.bundle[a] = st.bundle[a]
    <2>1. a # b /\ a \in RoutedOf(st.bundle)
        BY <1>4, NewBundleFacts DEF RoutedOf
    <2>2. st.bundle[a].rif \in RifIds
        BY <1>0, <2>1 DEF RoutedOf, Bundle
    <2>3. st.bundle[a].rif # i
        BY <2>1 DEF Good, Unshared
    <2> QED
        BY <1>4, <2>1, <2>2, <2>3 DEF RoutedOf
<1>6. ASSUME NEW a \in RoutedOf(t.bundle)
      PROVE  a \in RoutedOf(st.bundle) /\ KeepsRif(st, t, a)
    <2>1. /\ a \in RoutedOf(st.bundle) /\ t.bundle[a] = st.bundle[a]
          /\ st.bundle[a].rif \in RifIds \ {i}
        BY <1>5
    <2>2. /\ t.entry[st.bundle[a].rif] = st.entry[st.bundle[a].rif]
          /\ t.rif[st.bundle[a].rif] = st.rif[st.bundle[a].rif]
        BY <1>4, <2>1
    <2>3. st.entry[st.bundle[a].rif] # None /\ st.rif[st.bundle[a].rif] # None
        BY <2>1, AgreedAt
    <2> QED
        BY <2>1, <2>2, <2>3, Zenon DEF KeepsRif
<1>7. Administered(t.bundle, t.rif)
    <2> SUFFICES ASSUME NEW a \in RoutedOf(t.bundle)
                 PROVE  t.bundle[a].enabled = t.rif[t.bundle[a].rif].enabled
        BY DEF Administered
    <2>1. st.bundle[a].enabled = st.rif[st.bundle[a].rif].enabled
        BY <1>5 DEF Good, Administered
    <2>2. t.bundle[a] = st.bundle[a] /\ t.rif[st.bundle[a].rif] = st.rif[st.bundle[a].rif]
        BY <1>4, <1>5
    <2> QED
        BY <2>1, <2>2, Zenon
<1>8. Joined(t.bundle, t.bundleOf)
    <2>1. \A a \in Bundles : st.bundle[a] # None => t.bundle[a] # None
        BY <1>4, NewBundleFacts
    <2>2. st.bundleOf \in [Ports -> Bundles \cup {None}]
        BY <1>0, FieldTypes
    <2>3. Joined(st.bundle, st.bundleOf)
        BY DEF Good
    <2> SUFFICES ASSUME NEW p \in Ports, t.bundleOf[p] # None
                 PROVE  t.bundle[t.bundleOf[p]] # None
        BY DEF Joined
    <2>4. t.bundleOf[p] = st.bundleOf[p]
        BY <1>2
    <2>5. st.bundleOf[p] \in Bundles /\ st.bundle[st.bundleOf[p]] # None
        BY <2>2, <2>3, <2>4 DEF Joined
    <2> QED
        BY <2>1, <2>4, <2>5
<1>9. Tracked(t.bundle, t.rif, t.route)
    <2> SUFFICES ASSUME NEW x \in Prefixes, t.route[x] # None
                 PROVE  /\ t.rif[t.route[x]] # None
                        /\ \A a \in RoutedOf(t.bundle) :
                              t.bundle[a].rif = t.route[x] => t.bundle[a].routes[x] > 0
        BY DEF Tracked
    <2>1. t.route[x] = st.route[x] /\ st.route[x] \in RifIds /\ st.rif[st.route[x]] # None
        BY <1>0, <1>2 DEF Good, Tracked
    <2>2. st.route[x] # i
        <3>1. ~(st.bundle[b].routes[x] > 0)
            OBVIOUS
        <3> QED
            BY <1>2, <3>1 DEF Good, Tracked
    <2>3. \A a \in RoutedOf(t.bundle) :
             t.bundle[a].rif = t.route[x] => t.bundle[a].routes[x] > 0
        BY <1>5, <2>1 DEF Good, Tracked
    <2> QED
        BY <1>4, <2>1, <2>2, <2>3
<1>10. KeepsPointers(st, t)
    BY <1>2 DEF KeepsPointers
<1>11. Good(t)
    BY <1>3, <1>6, <1>7, <1>8, <1>9, <1>10, NoNewRif
<1> QED
    BY <1>2, <1>4, <1>11, NewBundleFacts DEF Within

Removed(st, i) == [EntryDel(st, i) EXCEPT !.rif[i] = None]

LEMMA VendorRemoveFacts ==
    ASSUME NEW st, NEW i, NEW o \in VendorRemove(st, i)
    PROVE  \/ o = Done(Removed(st, i))
           \/ o = Failed(st)
           \/ \E c \in CounterStates : o = Failed(WithCounter(st, i, c))
<1>1. CASE st.entry[i].counter # "bound"
    BY <1>1 DEF VendorRemove
<1>2. CASE st.entry[i].counter = "bound"
    <2>1. o \in {Done(Removed(st, i)), Failed(st), Failed(WithCounter(st, i, "unbound")),
                 Failed(WithCounter(st, i, "destroyed"))}
        BY <1>2 DEF VendorRemove, May, Removed, WithCounter
    <2> QED
        BY <2>1 DEF CounterStates
<1> QED
    BY <1>1, <1>2

LEMMA RifDeleteFacts ==
    ASSUME NEW st, Good(st), NEW b \in RoutedOf(st.bundle),
           \A x \in Prefixes : st.bundle[b].routes[x] = 0,
           NEW o \in RifDelete(st, b)
    PROVE  Good(o.st) /\ Within(st, o.st, b) /\ (o.ok => o.st.bundle[b] = NewBundle)
<1> DEFINE i == st.bundle[b].rif
<1>1. PICK u : u = DetachPorts(st, b)
    OBVIOUS
<1>2. b \in Bundles
    BY DEF RoutedOf
<1>3. Good(u) /\ Within(st, u, b) /\ u.bundle = st.bundle
    BY <1>1, <1>2, DetachedIsGood
<1>4. PICK q \in VendorRemove(u, i) :
         o \in IF q.ok THEN {Done([q.st EXCEPT !.bundle[b] = NewBundle])} ELSE {q}
    BY <1>1 DEF RifDelete, Then
<1>5. CASE q = Done(Removed(u, i))
    <2>1. PICK v : v = Removed(u, i)
        OBVIOUS
    <2>2. q.ok /\ q.st = v
        BY <1>5, <2>1, OutcomeFields
    <2>3. o = Done([v EXCEPT !.bundle[b] = NewBundle])
        BY <1>4, <2>2, Zenon
    <2>4. PICK t : t = [v EXCEPT !.bundle[b] = NewBundle]
        OBVIOUS
    <2>5. t = Deleted(u, b)
        BY <1>3, <2>1, <2>4, Zenon DEF Deleted, Removed
    <2>6. Good(t) /\ Within(u, t, b) /\ t.bundle[b] = NewBundle
        BY <1>3, <2>5, DeletedIsGood
    <2> QED
        BY <1>3, <2>3, <2>4, <2>6, OutcomeFields, WithinTransitive
<1>6. CASE q = Failed(u)
    <2>1. o = q /\ o.st = u /\ ~o.ok
        BY <1>4, <1>6, OutcomeFields
    <2> QED
        BY <1>3, <2>1
<1>7. ASSUME NEW c \in CounterStates, q = Failed(WithCounter(u, i, c))
      PROVE  Good(o.st) /\ Within(st, o.st, b) /\ (o.ok => o.st.bundle[b] = NewBundle)
    <2>1. PICK t : t = WithCounter(u, u.bundle[b].rif, c)
        OBVIOUS
    <2>2. q = Failed(t)
        BY <1>3, <1>7, <2>1, Zenon
    <2>3. o = q /\ o.st = t /\ ~o.ok
        BY <1>4, <2>2, OutcomeFields
    <2>4. Good(t) /\ Within(u, t, b)
        BY <1>3, <2>1, CounterIsGood
    <2> QED
        BY <1>3, <2>3, <2>4, WithinTransitive
<1>8. \/ q = Done(Removed(u, i))
      \/ q = Failed(u)
      \/ \E c \in CounterStates : q = Failed(WithCounter(u, i, c))
    BY <1>4, VendorRemoveFacts
<1> QED
    BY <1>5, <1>6, <1>7, <1>8

\* Bundle b changes, but not in what concerns its rif.
LEMMA RecordIsGood ==
    ASSUME NEW st, Good(st), NEW b \in Bundles, st.bundle[b] # None, NEW r \in Bundle,
           r.rif = st.bundle[b].rif, r.data = st.bundle[b].data,
           r.enabled = st.bundle[b].enabled,
           NEW t \in State, t.bundle = [st.bundle EXCEPT ![b] = r],
           t.entry = st.entry, t.rif = st.rif, t.ptr = st.ptr,
           t.bundleOf = st.bundleOf, Tracked(t.bundle, t.rif, t.route)
    PROVE  Good(t) /\ Within(st, t, b)
<1>0. /\ st.bundle \in [Bundles -> Bundle \cup {None}]
      /\ st.bundleOf \in [Ports -> Bundles \cup {None}]
    BY FieldTypes DEF Good
<1>1. t.bundle[b] = r /\ \A a \in Bundles \ {b} : t.bundle[a] = st.bundle[a]
    BY <1>0
<1>2. ASSUME NEW a \in RoutedOf(t.bundle)
      PROVE  /\ a \in RoutedOf(st.bundle) /\ t.bundle[a].rif = st.bundle[a].rif
             /\ t.bundle[a].data = st.bundle[a].data
    <2>1. a \in Bundles /\ t.bundle[a] # None /\ t.bundle[a].rif # None
        BY DEF RoutedOf
    <2>2. CASE a = b
        BY <1>1, <2>1, <2>2 DEF RoutedOf
    <2>3. CASE a # b
        <3>1. t.bundle[a] = st.bundle[a]
            BY <1>1, <2>1, <2>3
        <3> QED
            BY <2>1, <3>1 DEF RoutedOf
    <2> QED
        BY <2>2, <2>3
<1>3. ASSUME NEW a \in RoutedOf(t.bundle)
      PROVE  a \in RoutedOf(st.bundle) /\ KeepsRif(st, t, a)
    <2>1. /\ a \in RoutedOf(st.bundle) /\ t.bundle[a].rif = st.bundle[a].rif
          /\ t.bundle[a].data = st.bundle[a].data
        BY <1>2
    <2>2. st.entry[st.bundle[a].rif] # None /\ st.rif[st.bundle[a].rif] # None
        BY <2>1, AgreedAt
    <2> QED
        BY <2>1, <2>2, Zenon DEF KeepsRif
<1>4. Administered(t.bundle, t.rif)
    <2> SUFFICES ASSUME NEW a \in RoutedOf(t.bundle)
                 PROVE  t.bundle[a].enabled = t.rif[t.bundle[a].rif].enabled
        BY DEF Administered
    <2>1. st.bundle[a].enabled = st.rif[st.bundle[a].rif].enabled
        BY <1>2 DEF Good, Administered
    <2>2. t.bundle[a].rif = st.bundle[a].rif
        BY <1>2
    <2>3. t.bundle[a].enabled = st.bundle[a].enabled
        <3>1. CASE a = b
            BY <1>1, <3>1, Zenon
        <3>2. CASE a # b
            <4>1. t.bundle[a] = st.bundle[a]
                BY <1>1, <3>2 DEF RoutedOf
            <4> QED
                BY <4>1, Zenon
        <3> QED
            BY <3>1, <3>2
    <2> QED
        BY <2>1, <2>2, <2>3, Zenon
<1>5. Joined(t.bundle, t.bundleOf)
    BY <1>0, <1>1, NoneFacts DEF Good, Joined
<1>6. KeepsPointers(st, t)
    BY DEF KeepsPointers
<1>7. Good(t)
    BY <1>3, <1>4, <1>5, <1>6, NoNewRif
<1> QED
    BY <1>1, <1>7, NoneFacts DEF Within

\* The routes of D are taken out of the ASIC and, once each, off b's list.
RoutesLess(st, b, D) ==
    [st EXCEPT !.route = [x \in Prefixes |-> IF x \in D THEN None ELSE st.route[x]],
               !.bundle[b].routes =
                   [x \in Prefixes |->
                       st.bundle[b].routes[x] - IF x \in D THEN 1 ELSE 0]]

LEMMA RoutesLessIsGood ==
    ASSUME NEW st, Good(st), NEW b \in Bundles, st.bundle[b] # None,
           NEW D \in SUBSET Prefixes, \A x \in D : st.bundle[b].routes[x] > 0,
           NEW t, t = RoutesLess(st, b, D)
    PROVE  /\ Good(t) /\ Within(st, t, b) /\ t.bundle[b].rif = st.bundle[b].rif
           /\ \A x \in Prefixes : t.bundle[b].routes[x] =
                 st.bundle[b].routes[x] - IF x \in D THEN 1 ELSE 0
<1>0. /\ st \in State
      /\ st.bundle \in [Bundles -> Bundle \cup {None}]
      /\ st.bundleOf \in [Ports -> Bundles \cup {None}]
      /\ st.route \in [Prefixes -> RifIds \cup {None}]
    BY FieldTypes DEF Good
<1>1. st.bundle[b] \in Bundle
    BY <1>0
<1>2. PICK f : f = [x \in Prefixes |-> st.bundle[b].routes[x] - IF x \in D THEN 1 ELSE 0]
    OBVIOUS
<1>3. PICK g : g = [x \in Prefixes |-> IF x \in D THEN None ELSE st.route[x]]
    OBVIOUS
<1>4. PICK r : r = [st.bundle[b] EXCEPT !.routes = f]
    OBVIOUS
<1>5. f \in [Prefixes -> Nat]
    <2>1. \A x \in Prefixes : st.bundle[b].routes[x] \in Nat
        BY <1>1 DEF Bundle
    <2>2. \A x \in Prefixes : st.bundle[b].routes[x] - (IF x \in D THEN 1 ELSE 0) \in Nat
        BY <2>1
    <2> QED
        BY <1>2, <2>2
<1>6. /\ r \in Bundle /\ r.rif = st.bundle[b].rif /\ r.data = st.bundle[b].data
      /\ r.routes = f
    BY <1>1, <1>4, <1>5 DEF Bundle
<1>7. r.enabled = st.bundle[b].enabled
    BY <1>1, <1>4 DEF Bundle
<1>8. /\ t.bundle = [st.bundle EXCEPT ![b] = r] /\ t.route = g
      /\ t.entry = st.entry /\ t.rif = st.rif /\ t.ptr = st.ptr
      /\ t.bundleOf = st.bundleOf /\ t.aborted = st.aborted
    BY <1>0, <1>2, <1>3, <1>4 DEF State, RoutesLess
<1>9. t \in State
    <2>1. g \in [Prefixes -> RifIds \cup {None}]
        BY <1>0, <1>3
    <2>2. PICK B : B = [st.bundle EXCEPT ![b] = r]
        OBVIOUS
    <2>3. B \in [Bundles -> Bundle \cup {None}]
        BY <1>0, <1>6, <2>2, ChangedAt
    <2>4. t = [st EXCEPT !.route = g, !.bundle = B]
        BY <1>2, <1>3, <1>4, <2>2, Zenon DEF RoutesLess
    <2> QED
        BY <1>0, <2>1, <2>3, <2>4 DEF State
<1>10. t.bundle[b] = r /\ \A a \in Bundles \ {b} : t.bundle[a] = st.bundle[a]
    BY <1>0, <1>8
<1>11. ASSUME NEW a \in RoutedOf(t.bundle)
       PROVE  a \in RoutedOf(st.bundle) /\ t.bundle[a].rif = st.bundle[a].rif
    <2>1. a \in Bundles /\ t.bundle[a] # None /\ t.bundle[a].rif # None
        BY DEF RoutedOf
    <2>2. CASE a = b
        BY <1>6, <1>10, <2>1, <2>2 DEF RoutedOf
    <2>3. CASE a # b
        <3>1. t.bundle[a] = st.bundle[a]
            BY <1>10, <2>1, <2>3
        <3> QED
            BY <2>1, <3>1 DEF RoutedOf
    <2> QED
        BY <2>2, <2>3
<1>12. Tracked(t.bundle, t.rif, t.route)
    <2> SUFFICES ASSUME NEW x \in Prefixes, t.route[x] # None
                 PROVE  /\ t.rif[t.route[x]] # None
                        /\ \A a \in RoutedOf(t.bundle) :
                              t.bundle[a].rif = t.route[x] => t.bundle[a].routes[x] > 0
        BY DEF Tracked
    <2>1. x \notin D /\ t.route[x] = st.route[x] /\ st.rif[st.route[x]] # None
        BY <1>3, <1>8 DEF Good, Tracked
    <2>2. ASSUME NEW a \in RoutedOf(t.bundle), t.bundle[a].rif = t.route[x]
          PROVE  t.bundle[a].routes[x] > 0
        <3>1. st.bundle[a].routes[x] > 0
            BY <1>11, <2>1, <2>2 DEF Good, Tracked
        <3>2. CASE a = b
            <4>1. f[x] = st.bundle[b].routes[x] - 0
                BY <1>2, <2>1
            <4>2. st.bundle[b].routes[x] \in Nat
                BY <1>1 DEF Bundle
            <4> QED
                BY <1>6, <1>10, <3>1, <3>2, <4>1, <4>2
        <3>3. CASE a # b
            BY <1>10, <3>1, <3>3 DEF RoutedOf
        <3> QED
            BY <3>2, <3>3
    <2> QED
        BY <1>8, <2>1, <2>2
<1>13. Good(t) /\ Within(st, t, b)
    BY <1>6, <1>7, <1>8, <1>9, <1>12, RecordIsGood
<1> QED
    BY <1>2, <1>6, <1>10, <1>13

LEMMA LocalRoutesRemoveFacts ==
    ASSUME NEW st, NEW b, NEW o \in LocalRoutesRemove(st, b)
    PROVE  \E D \in SUBSET {x \in Prefixes : st.bundle[b].routes[x] > 0} :
              /\ o.st = RoutesLess(st, b, D)
              /\ o.ok => \A x \in Prefixes : st.bundle[b].routes[x] > 0 =>
                            x \in D /\ ~(st.bundle[b].routes[x] > 1)
<1> DEFINE copies == st.bundle[b].routes
           tracked == {x \in Prefixes : copies[x] > 0}
           present == {x \in tracked : st.route[x] # None}
           left(D) == {x \in tracked : x \notin D \/ copies[x] > 1}
           Ends == {E \in {tracked} : E = present /\ left(E) = {}}
           Stops == {E \in SUBSET present :
                        \E x \in left(E) : SdkFails \/ x \in E \/ x \notin present}
<1>1. \/ \E D \in Ends : o = Done(RoutesLess(st, b, D))
      \/ \E D \in Stops : o = Failed(RoutesLess(st, b, D))
    BY DEF LocalRoutesRemove, RoutesLess
<1>2. ASSUME NEW D \in Ends, o = Done(RoutesLess(st, b, D))
      PROVE  /\ D \in SUBSET tracked /\ o.st = RoutesLess(st, b, D)
             /\ \A x \in tracked : x \in D /\ ~(copies[x] > 1)
    <2>1. o.st = RoutesLess(st, b, D)
        BY <1>2, OutcomeFields
    <2> HIDE DEF copies
    <2>2. D = tracked /\ left(D) = {}
        BY <1>2
    <2> QED
        BY <2>1, <2>2
<1>3. ASSUME NEW D \in Stops, o = Failed(RoutesLess(st, b, D))
      PROVE  D \in SUBSET tracked /\ o.st = RoutesLess(st, b, D) /\ ~o.ok
    BY <1>3, OutcomeFields
<1> QED
    BY <1>1, <1>2, <1>3

LEMMA RouterIntfRemoveIsGood ==
    ASSUME NEW st, Good(st), NEW b \in Bundles, st.bundle[b] # None,
           NEW o \in RouterIntfRemove(st, b)
    PROVE  /\ Good(o.st) /\ Within(st, o.st, b) /\ o.st.bundle[b] # None
           /\ o.ok => o.st.bundle[b].rif = None
<1>1. PICK q \in LocalRoutesRemove(st, b) :
         o \in IF q.ok THEN IF q.st.bundle[b].rif = None THEN {Done(q.st)}
                            ELSE RifDelete(q.st, b)
               ELSE {q}
    BY DEF RouterIntfRemove, Then
<1>2. PICK D \in SUBSET {x \in Prefixes : st.bundle[b].routes[x] > 0} :
         /\ q.st = RoutesLess(st, b, D)
         /\ q.ok => \A x \in Prefixes : st.bundle[b].routes[x] > 0 =>
                       x \in D /\ ~(st.bundle[b].routes[x] > 1)
    BY LocalRoutesRemoveFacts
<1>3. /\ Good(q.st) /\ Within(st, q.st, b)
      /\ \A x \in Prefixes : q.st.bundle[b].routes[x] =
            st.bundle[b].routes[x] - IF x \in D THEN 1 ELSE 0
    BY <1>2, RoutesLessIsGood
<1>4. q.st.bundle[b] # None
    BY <1>3 DEF Within
<1>5. CASE ~q.ok
    BY <1>1, <1>3, <1>4, <1>5
<1>6. CASE q.ok /\ q.st.bundle[b].rif = None
    <2>1. o = Done(q.st)
        BY <1>1, <1>6
    <2> QED
        BY <1>3, <1>4, <1>6, <2>1, OutcomeFields
<1>7. CASE q.ok /\ q.st.bundle[b].rif # None
    <2>1. o \in RifDelete(q.st, b)
        BY <1>1, <1>7
    <2>2. b \in RoutedOf(q.st.bundle)
        BY <1>4, <1>7 DEF RoutedOf
    <2>3. \A x \in Prefixes : q.st.bundle[b].routes[x] = 0
        <3> SUFFICES ASSUME NEW x \in Prefixes
                     PROVE  q.st.bundle[b].routes[x] = 0
            OBVIOUS
        <3>1. st.bundle[b].routes[x] \in Nat
            BY FieldTypes DEF Good, Bundle
        <3>2. st.bundle[b].routes[x] > 0 => x \in D /\ ~(st.bundle[b].routes[x] > 1)
            BY <1>2, <1>7
        <3> QED
            BY <1>2, <1>3, <3>1, <3>2
    <2>4. /\ Good(o.st) /\ Within(q.st, o.st, b)
          /\ o.ok => o.st.bundle[b] = NewBundle
        BY <1>3, <2>1, <2>2, <2>3, RifDeleteFacts
    <2>5. Within(st, o.st, b) /\ o.st.bundle[b] # None
        BY <1>3, <1>4, <2>4, WithinTransitive DEF Within
    <2> QED
        BY <2>4, <2>5, NewBundleFacts
<1> QED
    BY <1>5, <1>6, <1>7

-----------------------------------------------------------------------------
(* The creation of a rif.                                                  *)

Taken(st, type, data) ==
    \E i \in RifIds : /\ st.rif[i] # None
                      /\ st.rif[i].type = type /\ st.rif[i].data = data

RifRecord(type, data) == [type |-> type, data |-> data, enabled |-> FALSE]
NewRif(st, i, type, data) == [st EXCEPT !.rif[i] = RifRecord(type, data)]
Owned(st, b, i, type, data) ==
    [EntryAdd(NewRif(st, i, type, data), i, type, data) EXCEPT !.bundle[b].rif = i]

LEMMA VendorCreateFacts ==
    ASSUME NEW st, NEW b, NEW type, NEW data, NEW o \in VendorCreate(st, b, type, data)
    PROVE  \/ o = Failed(st)
           \/ /\ ~Taken(st, type, data)
              /\ \E i \in RifIds :
                    /\ st.rif[i] = None /\ st.entry[i] = None
                    /\ \/ o = Done(Owned(st, b, i, type, data))
                       \/ o = Failed(st)
                       \/ o = Failed(NewRif(st, i, type, data))
<1> DEFINE free == {i \in RifIds : st.rif[i] = None /\ st.entry[i] = None}
           Of(i) == {Done(Owned(st, b, i, type, data))}
                    \cup May({Failed(st), Failed(NewRif(st, i, type, data))})
<1>1. CASE Taken(st, type, data) \/ free = {}
    BY <1>1 DEF VendorCreate, Taken
<1>2. CASE ~(Taken(st, type, data) \/ free = {})
    <2>1. PICK i \in free : o \in Of(i)
        BY <1>2 DEF VendorCreate, Taken, Owned, NewRif, RifRecord
    <2> QED
        BY <1>2, <2>1 DEF May
<1> QED
    BY <1>1, <1>2

\* A rif in nobody's hands.
LEMMA NewRifIsGood ==
    ASSUME NEW st, Good(st), NEW i \in RifIds, st.rif[i] = None,
           NEW type \in RifTypes, NEW data \in Int,
           NEW t, t = NewRif(st, i, type, data)
    PROVE  /\ Good(t) /\ \A b \in Bundles : Within(st, t, b)
           /\ t.bundle = st.bundle /\ t.bundleOf = st.bundleOf
           /\ t.ptr = st.ptr /\ t.entry = st.entry /\ t.route = st.route
           /\ t.aborted = st.aborted
           /\ t.rif = [st.rif EXCEPT ![i] = RifRecord(type, data)]
<1>0. /\ st \in State
      /\ st.bundle \in [Bundles -> Bundle \cup {None}]
      /\ st.rif \in [RifIds -> Rif \cup {None}]
      /\ st.route \in [Prefixes -> RifIds \cup {None}]
    BY FieldTypes DEF Good
<1>1. PICK k : k = RifRecord(type, data)
    OBVIOUS
<1>2. k \in Rif
    BY <1>1 DEF Rif, RifRecord
<1>3. /\ t.rif = [st.rif EXCEPT ![i] = k]
      /\ t.entry = st.entry /\ t.bundle = st.bundle /\ t.bundleOf = st.bundleOf
      /\ t.ptr = st.ptr /\ t.route = st.route /\ t.aborted = st.aborted
    BY <1>0, <1>1 DEF State, NewRif
<1>4. t \in State
    BY <1>0, <1>1, <1>2, <1>3 DEF State, NewRif
<1>5. \A j \in RifIds : st.rif[j] # None => t.rif[j] = st.rif[j]
    BY <1>0, <1>3
<1>6. ASSUME NEW a \in RoutedOf(t.bundle)
      PROVE  /\ a \in RoutedOf(st.bundle)
             /\ t.rif[st.bundle[a].rif] = st.rif[st.bundle[a].rif]
    <2>1. a \in RoutedOf(st.bundle) /\ st.bundle[a].rif \in RifIds
        BY <1>0, <1>3 DEF RoutedOf, Bundle
    <2>2. st.rif[st.bundle[a].rif] # None
        BY <2>1 DEF Good, Agreed
    <2> QED
        BY <1>5, <2>1, <2>2
<1>7. \A a \in RoutedOf(t.bundle) : a \in RoutedOf(st.bundle) /\ KeepsRif(st, t, a)
    BY <1>3, <1>6 DEF KeepsRif, Good, Agreed
<1>8. Administered(t.bundle, t.rif)
    <2> SUFFICES ASSUME NEW a \in RoutedOf(t.bundle)
                 PROVE  t.bundle[a].enabled = t.rif[t.bundle[a].rif].enabled
        BY DEF Administered
    <2>1. st.bundle[a].enabled = st.rif[st.bundle[a].rif].enabled
        BY <1>6 DEF Good, Administered
    <2> QED
        BY <1>3, <1>6, <2>1, Zenon
<1>9. Tracked(t.bundle, t.rif, t.route)
    <2>1. \A x \in Prefixes : st.route[x] # None => t.rif[st.route[x]] # None
        BY <1>0, <1>5 DEF Good, Tracked
    <2> QED
        BY <1>3, <2>1 DEF Good, Tracked
<1>10. Joined(t.bundle, t.bundleOf) /\ KeepsPointers(st, t)
    BY <1>3 DEF Good, KeepsPointers
<1>11. Good(t)
    BY <1>4, <1>7, <1>8, <1>9, <1>10, NoNewRif
<1>12. \A b \in Bundles : Within(st, t, b)
    BY <1>3 DEF Within
<1> QED
    BY <1>1, <1>3, <1>11, <1>12

LEMMA RifDataType ==
    ASSUME NEW p \in Ports, NEW s \in Settings
    PROVE  RifType(p) \in RifTypes /\ RifData(p, s) \in Int
<1>1. s.vlan \in Int
    BY RifAssumption
<1>2. HwId[p] \in Int
    BY RifAssumption
<1> QED
    BY <1>1, <1>2 DEF RifType, RifData, RifTypes

\* A new rif i for the only port p of bundle b, which had none.
LEMMA CreatedIsGood ==
    ASSUME NEW st, Good(st), NEW b \in Bundles, st.bundle[b] # None,
           st.bundle[b].rif = None, NEW p \in Ports, NEW s \in Settings,
           \A q \in Ports : st.bundleOf[q] = b <=> q = p,
           Kind[p] \in {"system", "internal"},
           ~Taken(st, RifType(p), RifData(p, s)),
           NEW i \in RifIds, st.rif[i] = None, st.entry[i] = None,
           NEW t, t = Attach(Owned(st, b, i, RifType(p), RifData(p, s)), b, RifData(p, s))
    PROVE  Good(t) /\ Within(st, t, b) /\ b \in RoutedOf(t.bundle)
<1> DEFINE type == RifType(p)
           data == RifData(p, s)
<1> HIDE DEF type, data
<1>0. /\ st \in State
      /\ st.bundle \in [Bundles -> Bundle \cup {None}]
      /\ st.bundleOf \in [Ports -> Bundles \cup {None}]
      /\ st.entry \in [RifIds -> Entry \cup {None}]
      /\ st.rif \in [RifIds -> Rif \cup {None}]
      /\ st.ptr \in [Ports -> Bundles \cup {None, Freed}]
      /\ st.route \in [Prefixes -> RifIds \cup {None}]
      /\ st.bundle[b] \in Bundle
    BY FieldTypes DEF Good
<1>1. type \in RifTypes /\ data \in Int
    BY RifDataType DEF type, data
<1>2. PICK u : u = NewRif(st, i, type, data)
    OBVIOUS
<1>3. PICK k : k = RifRecord(type, data)
    OBVIOUS
<1>4. k \in Rif /\ k.type = type /\ k.data = data /\ k.enabled = FALSE
    BY <1>1, <1>3 DEF Rif, RifRecord
<1>5. /\ Good(u) /\ u.bundle = st.bundle /\ u.bundleOf = st.bundleOf
      /\ u.ptr = st.ptr /\ u.entry = st.entry /\ u.route = st.route
      /\ u.aborted = st.aborted /\ u.rif = [st.rif EXCEPT ![i] = k]
    BY <1>1, <1>2, <1>3, NewRifIsGood
<1>6. PICK e : e = [type |-> type, data |-> data, counter |-> "bound"]
    OBVIOUS
<1>7. e \in Entry /\ e.type = type /\ e.data = data
    BY <1>1, <1>6 DEF Entry, CounterStates
<1>8. PICK m, n, r : /\ m = [st.bundle[b] EXCEPT !.rif = i]
                     /\ n = [m EXCEPT !.data = data]
                     /\ r = [n EXCEPT !.enabled = FALSE]
    OBVIOUS
<1>9. m \in Bundle /\ n \in Bundle /\ r \in Bundle
      /\ r.rif = i /\ r.data = data /\ r.enabled = FALSE
    BY <1>0, <1>1, <1>8 DEF Bundle
<1>10. PICK f : f = [q \in Ports |-> IF st.bundleOf[q] = b THEN b ELSE st.ptr[q]]
    OBVIOUS
<1>11. f \in [Ports -> Bundles \cup {None, Freed}]
    BY <1>0, <1>10
<1>12. PICK v : v = EntryAdd(u, i, type, data)
    OBVIOUS
<1>13. /\ v \in State /\ v.entry = [st.entry EXCEPT ![i] = e] /\ v.rif = u.rif
       /\ v.bundle = st.bundle /\ v.bundleOf = st.bundleOf /\ v.ptr = st.ptr
       /\ v.route = st.route /\ v.aborted = st.aborted
    BY <1>0, <1>5, <1>6, <1>7, <1>12 DEF EntryAdd, State, Good
<1>14. PICK w : w = [v EXCEPT !.bundle[b].rif = i]
    OBVIOUS
<1>15. /\ w \in State /\ w.entry = v.entry /\ w.rif = u.rif
       /\ w.bundle = [st.bundle EXCEPT ![b] = m]
       /\ w.bundleOf = st.bundleOf /\ w.ptr = st.ptr
       /\ w.route = st.route /\ w.aborted = st.aborted
    BY <1>0, <1>8, <1>9, <1>13, <1>14 DEF State
<1>16. t = Attach(w, b, data)
    BY <1>2, <1>12, <1>14 DEF Owned, type, data
<1>17. PICK h, g : /\ h = [w.bundle EXCEPT ![b].data = data]
                   /\ g = [h EXCEPT ![b].enabled = FALSE]
    OBVIOUS
<1>18. g = [st.bundle EXCEPT ![b] = r]
    <2>1. w.bundle[b] = m
        BY <1>0, <1>15
    <2>2. h = [st.bundle EXCEPT ![b] = n] /\ h[b] = n
        BY <1>0, <1>8, <1>15, <1>17, <2>1
    <2>3. g = [h EXCEPT ![b] = r]
        BY <1>8, <1>17, <2>2, Zenon
    <2> QED
        BY <1>0, <2>2, <2>3
<1>19. /\ t.entry = w.entry /\ t.rif = w.rif /\ t.bundle = g /\ t.ptr = f
       /\ t.bundleOf = w.bundleOf /\ t.route = w.route /\ t.aborted = w.aborted
    <2>1. w \in State
        BY <1>15
    <2>2. f = [q \in Ports |-> IF w.bundleOf[q] = b THEN b ELSE w.ptr[q]]
        BY <1>10, <1>15
    <2>3. t.entry = w.entry /\ t.rif = w.rif /\ t.ptr = f
        BY <1>16, <2>1, <2>2 DEF Attach, State
    <2>4. t.bundleOf = w.bundleOf /\ t.route = w.route /\ t.aborted = w.aborted
        BY <1>16, <2>1 DEF Attach, State
    <2>5. t.bundle = g
        BY <1>16, <1>17, <2>1 DEF Attach, State
    <2> QED
        BY <2>3, <2>4, <2>5
<1>20. t \in State
    <2>1. g \in [Bundles -> Bundle \cup {None}]
        BY <1>0, <1>9, <1>18
    <2> QED
        BY <1>10, <1>11, <1>15, <1>16, <1>17, <1>19, <2>1 DEF Attach, State
<1>21. /\ t.bundle = [st.bundle EXCEPT ![b] = r]
       /\ t.entry = [st.entry EXCEPT ![i] = e] /\ t.rif = [st.rif EXCEPT ![i] = k]
       /\ t.ptr = f /\ t.bundleOf = st.bundleOf /\ t.route = st.route
    BY <1>5, <1>13, <1>15, <1>18, <1>19
<1>22. /\ t.bundle[b] = r /\ t.entry[i] = e /\ t.rif[i] = k
       /\ \A a \in Bundles \ {b} : t.bundle[a] = st.bundle[a]
       /\ \A j \in RifIds \ {i} : t.entry[j] = st.entry[j] /\ t.rif[j] = st.rif[j]
    BY <1>0, <1>21
<1>23. b \in RoutedOf(t.bundle)
    BY <1>9, <1>22, NoneFacts DEF RoutedOf
<1>24. ASSUME NEW a \in RoutedOf(t.bundle), a # b
       PROVE  /\ a \in RoutedOf(st.bundle) /\ t.bundle[a] = st.bundle[a]
              /\ st.bundle[a].rif \in RifIds \ {i}
              /\ t.rif[st.bundle[a].rif] = st.rif[st.bundle[a].rif]
              /\ t.entry[st.bundle[a].rif] = st.entry[st.bundle[a].rif]
    <2>1. a \in RoutedOf(st.bundle) /\ t.bundle[a] = st.bundle[a]
        BY <1>22, <1>24 DEF RoutedOf
    <2>2. st.bundle[a].rif \in RifIds
        BY <1>0, <2>1 DEF RoutedOf, Bundle
    <2>3. st.rif[st.bundle[a].rif] # None
        BY <2>1 DEF Good, Agreed
    <2> QED
        BY <1>22, <2>1, <2>2, <2>3
<1>25. Joined(t.bundle, t.bundleOf)
    BY <1>0, <1>9, <1>21, <1>22, NoneFacts DEF Good, Joined
<1>26. Agreed(t.bundle, t.entry, t.rif)
    <2> SUFFICES ASSUME NEW a \in RoutedOf(t.bundle), NEW j, j = t.bundle[a].rif
                 PROVE  /\ t.entry[j] # None /\ t.rif[j] # None
                        /\ t.entry[j].type = t.rif[j].type
                        /\ t.entry[j].data = t.rif[j].data
                        /\ t.entry[j].data = t.bundle[a].data
        BY AgreedIntro
    <2>1. CASE a = b
        <3>1. t.bundle[a] = r /\ r.rif = i /\ r.data = data
            BY <1>9, <1>22, <2>1, Zenon
        <3>2. j = i /\ t.entry[j] = e /\ t.rif[j] = k
            BY <1>22, <3>1, Zenon
        <3>3. e # None /\ k # None
            BY <1>4, <1>7, NoneFacts, Zenon
        <3> QED
            BY <1>4, <1>7, <3>1, <3>2, <3>3, Zenon
    <2>2. CASE a # b
        <3>1. /\ a \in RoutedOf(st.bundle) /\ t.bundle[a] = st.bundle[a]
              /\ j = st.bundle[a].rif
              /\ t.rif[j] = st.rif[j] /\ t.entry[j] = st.entry[j]
            BY <1>24, <2>2
        <3>2. /\ st.entry[j] # None /\ st.rif[j] # None
              /\ st.entry[j].type = st.rif[j].type
              /\ st.entry[j].data = st.rif[j].data
              /\ st.entry[j].data = st.bundle[a].data
            BY <3>1 DEF Good, Agreed
        <3> QED
            BY <3>1, <3>2
    <2> QED
        BY <2>1, <2>2
<1>27. Administered(t.bundle, t.rif)
    <2> SUFFICES ASSUME NEW a \in RoutedOf(t.bundle)
                 PROVE  t.bundle[a].enabled = t.rif[t.bundle[a].rif].enabled
        BY DEF Administered
    <2>1. CASE a = b
        <3>1. r.rif = i /\ r.enabled = k.enabled
            BY <1>4, <1>9, Zenon
        <3> QED
            BY <1>22, <2>1, <3>1, Zenon
    <2>2. CASE a # b
        <3>1. st.bundle[a].enabled = st.rif[st.bundle[a].rif].enabled
            BY <1>24, <2>2 DEF Good, Administered
        <3>2. /\ t.bundle[a] = st.bundle[a]
              /\ t.rif[st.bundle[a].rif] = st.rif[st.bundle[a].rif]
            BY <1>24, <2>2
        <3> QED
            BY <3>1, <3>2, Zenon
    <2> QED
        BY <2>1, <2>2
<1>28. Unshared(t.bundle)
    <2> SUFFICES ASSUME NEW a \in RoutedOf(t.bundle), NEW c \in RoutedOf(t.bundle),
                        t.bundle[a].rif = t.bundle[c].rif
                 PROVE  a = c
        BY DEF Unshared
    <2>1. a = b => t.bundle[a].rif = i
        BY <1>9, <1>22
    <2>2. c = b => t.bundle[c].rif = i
        BY <1>9, <1>22
    <2>3. CASE a # b /\ c # b
        BY <1>24, <2>3 DEF Good, Unshared
    <2> QED
        BY <1>24, <2>1, <2>2, <2>3
<1>29. Tracked(t.bundle, t.rif, t.route)
    <2> SUFFICES ASSUME NEW x \in Prefixes, t.route[x] # None
                 PROVE  /\ t.rif[t.route[x]] # None
                        /\ \A a \in RoutedOf(t.bundle) :
                              t.bundle[a].rif = t.route[x] => t.bundle[a].routes[x] > 0
        BY DEF Tracked
    <2>1. /\ t.route[x] = st.route[x] /\ st.route[x] \in RifIds \ {i}
          /\ st.rif[st.route[x]] # None
        BY <1>0, <1>21 DEF Good, Tracked
    <2>2. ASSUME NEW a \in RoutedOf(t.bundle), t.bundle[a].rif = t.route[x]
          PROVE  t.bundle[a].routes[x] > 0
        <3>1. a # b
            BY <1>9, <1>22, <2>1, <2>2
        <3> QED
            BY <1>24, <2>1, <2>2, <3>1 DEF Good, Tracked
    <2> QED
        BY <1>22, <2>1, <2>2
<1>30. Pointing(t.bundle, t.rif, t.ptr)
    <2> SUFFICES ASSUME NEW a \in RoutedOf(t.bundle), NEW q \in Ports,
                        t.rif[t.bundle[a].rif].type = "port",
                        Kind[q] = "system", t.bundle[a].data = HwId[q]
                 PROVE  t.ptr[q] \in {a, None}
        BY DEF Pointing
    <2>1. t.ptr[q] = IF q = p THEN b ELSE st.ptr[q]
        BY <1>10, <1>21
    <2>2. CASE a = b
        <3>1. type = "port" /\ data = HwId[q]
            BY <1>4, <1>9, <1>22, <2>2
        <3>2. Kind[p] # "internal"
            BY <3>1 DEF type, RifType
        <3>3. Kind[p] = "system" /\ HwId[p] = HwId[q]
            BY <3>1, <3>2 DEF data, RifData
        <3>4. q = p
            BY <3>3, RifAssumption
        <3> QED
            BY <2>1, <2>2, <3>4
    <2>3. CASE a # b
        <3>1. /\ st.rif[st.bundle[a].rif].type = "port" /\ st.bundle[a].data = HwId[q]
              /\ a \in RoutedOf(st.bundle) /\ st.bundle[a].rif \in RifIds
            BY <1>24, <2>3
        <3>2. st.ptr[q] \in {a, None}
            BY <3>1 DEF Good, Pointing
        <3>3. ASSUME q = p
              PROVE  Taken(st, type, data)
            <4>1. type = "port" /\ data = HwId[q]
                BY <3>3 DEF type, data, RifType, RifData
            <4>2. /\ st.rif[st.bundle[a].rif] # None
                  /\ st.rif[st.bundle[a].rif].data = HwId[q]
                BY <3>1 DEF Good, Agreed
            <4> QED
                BY <3>1, <4>1, <4>2 DEF Taken
        <3>4. q # p
            BY <3>3 DEF type, data
        <3> QED
            BY <2>1, <3>2, <3>4
    <2> QED
        BY <2>2, <2>3
<1>31. Good(t)
    BY <1>20, <1>25, <1>26, <1>27, <1>28, <1>29, <1>30 DEF Good
<1>32. Within(st, t, b)
    BY <1>9, <1>21, <1>22, NoneFacts DEF Within
<1> QED
    BY <1>23, <1>31, <1>32

LEMMA EnsureIsGood ==
    ASSUME NEW st, Good(st), NEW b \in Bundles, st.bundle[b] # None,
           NEW p \in Ports, NEW s \in Settings,
           \A q \in Ports : st.bundleOf[q] = b <=> q = p,
           Kind[p] \in {"system", "internal"},
           NEW o \in Ensure(st, b, RifType(p), RifData(p, s))
    PROVE  /\ Good(o.st) /\ Within(st, o.st, b)
           /\ o.ok => b \in RoutedOf(o.st.bundle)
           /\ b \in RoutedOf(st.bundle) => o.st = st
<1> DEFINE type == RifType(p)
           data == RifData(p, s)
<1> HIDE DEF type, data
<1>1. CASE st.bundle[b].rif # None
    <2>1. o = Done(st)
        BY <1>1 DEF Ensure
    <2> QED
        BY <1>1, <2>1, OutcomeFields DEF Within, RoutedOf
<1>2. CASE st.bundle[b].rif = None
    <2>1. b \notin RoutedOf(st.bundle)
        BY <1>2 DEF RoutedOf
    <2>2. PICK q \in VendorCreate(st, b, type, data) :
             o \in IF q.ok THEN {Done(Attach(q.st, b, data))} ELSE {q}
        BY <1>2 DEF Ensure, Then, type, data
    <2>3. CASE q = Failed(st)
        <3>1. o.st = st /\ ~o.ok
            BY <2>2, <2>3, OutcomeFields
        <3> QED
            BY <2>1, <3>1 DEF Within
    <2>4. ASSUME ~Taken(st, type, data), NEW i \in RifIds,
                 st.rif[i] = None, st.entry[i] = None,
                 q = Done(Owned(st, b, i, type, data))
          PROVE  Good(o.st) /\ Within(st, o.st, b) /\ b \in RoutedOf(o.st.bundle)
        <3>1. PICK u : u = Owned(st, b, i, type, data)
            OBVIOUS
        <3>2. q.ok /\ q.st = u
            BY <2>4, <3>1, OutcomeFields
        <3>3. o = Done(Attach(u, b, data))
            BY <2>2, <3>2, Zenon
        <3>4. PICK t : t = Attach(u, b, data)
            OBVIOUS
        <3>5. Good(t) /\ Within(st, t, b) /\ b \in RoutedOf(t.bundle)
            BY <1>2, <2>4, <3>1, <3>4, CreatedIsGood DEF type, data
        <3> QED
            BY <3>3, <3>4, <3>5, OutcomeFields
    <2>5. ASSUME NEW i \in RifIds, st.rif[i] = None,
                 q = Failed(NewRif(st, i, type, data))
          PROVE  Good(o.st) /\ Within(st, o.st, b) /\ ~o.ok
        <3>1. PICK t : t = NewRif(st, i, type, data)
            OBVIOUS
        <3>2. type \in RifTypes /\ data \in Int
            BY RifDataType DEF type, data
        <3>3. Good(t) /\ Within(st, t, b)
            <4>1. i \in RifIds /\ st.rif[i] = None
                BY <2>5
            <4> QED
                BY <3>1, <3>2, <4>1, NewRifIsGood
        <3>4. o.st = t /\ ~o.ok
            BY <2>2, <2>5, <3>1, OutcomeFields
        <3> QED
            BY <3>3, <3>4
    <2>6. \/ q = Failed(st)
          \/ /\ ~Taken(st, type, data)
             /\ \E i \in RifIds :
                   /\ st.rif[i] = None /\ st.entry[i] = None
                   /\ \/ q = Done(Owned(st, b, i, type, data))
                      \/ q = Failed(st)
                      \/ q = Failed(NewRif(st, i, type, data))
        BY <2>2, VendorCreateFacts
    <2> QED
        BY <2>1, <2>3, <2>4, <2>5, <2>6
<1> QED
    BY <1>1, <1>2

LEMMA EnableIsGood ==
    ASSUME NEW st, Good(st), NEW b \in RoutedOf(st.bundle), NEW up \in BOOLEAN,
           NEW o \in Enable(st, b, up)
    PROVE  /\ Good(o.st) /\ Within(st, o.st, b)
           /\ o.st.bundle[b].rif = st.bundle[b].rif
<1> DEFINE i == st.bundle[b].rif
<1>1. CASE st.bundle[b].enabled = up
    <2>1. o = Done(st)
        BY <1>1 DEF Enable
    <2> QED
        BY <2>1, OutcomeFields DEF Within
<1>2. CASE st.bundle[b].enabled # up
    <2>1. PICK q \in VendorSetState(st, i, up) :
             o \in IF q.ok THEN {Done([q.st EXCEPT !.bundle[b].enabled = up])} ELSE {q}
        BY <1>2 DEF Enable, Then
    <2>2. CASE q = Failed(st)
        <3>1. o.st = st
            BY <2>1, <2>2, OutcomeFields
        <3> QED
            BY <3>1 DEF Within
    <2>3. CASE q = Done([st EXCEPT !.rif[i].enabled = up])
        <3>1. PICK u : u = [st EXCEPT !.rif[i].enabled = up]
            OBVIOUS
        <3>2. PICK t : t = [u EXCEPT !.bundle[b].enabled = up]
            OBVIOUS
        <3>3. q.ok /\ q.st = u
            BY <2>3, <3>1, OutcomeFields
        <3>4. o = Done(t)
            BY <2>1, <3>2, <3>3, Zenon
        <3>5. t = Enabled(st, b, up)
            BY <3>1, <3>2, Zenon DEF Enabled
        <3>6. Good(t) /\ Within(st, t, b) /\ t.bundle[b].rif = st.bundle[b].rif
            BY <3>5, EnabledIsGood, Zenon
        <3> QED
            BY <3>4, <3>6, OutcomeFields
    <2> QED
        BY <2>1, <2>2, <2>3, VendorSetStateFacts
<1> QED
    BY <1>1, <1>2

LEMMA DropOtherIsGood ==
    ASSUME NEW st, Good(st), NEW b \in Bundles, st.bundle[b] # None, NEW data,
           NEW o \in DropOther(st, b, data)
    PROVE  /\ Good(o.st) /\ Within(st, o.st, b) /\ o.st.bundle[b] # None
           /\ st.bundle[b].data = data => o.ok /\ o.st = st
<1>1. CASE st.bundle[b].rif # None /\ st.bundle[b].data # data
    <2>1. o \in RouterIntfRemove(st, b)
        BY <1>1 DEF DropOther
    <2> QED
        BY <1>1, <2>1, RouterIntfRemoveIsGood
<1>2. CASE ~(st.bundle[b].rif # None /\ st.bundle[b].data # data)
    <2>1. o = Done(st)
        BY <1>2, Zenon DEF DropOther
    <2> QED
        BY <2>1, OutcomeFields DEF Within
<1> QED
    BY <1>1, <1>2

Looped(st, b) == [st EXCEPT !.bundle[b].loopback = TRUE]

LEMMA LoopbackIsGood ==
    ASSUME NEW st, Good(st), NEW b \in Bundles, st.bundle[b] # None,
           NEW t, t = Looped(st, b)
    PROVE  Good(t) /\ Within(st, t, b) /\ t.bundle[b].rif = st.bundle[b].rif
<1>0. /\ st \in State /\ st.bundle \in [Bundles -> Bundle \cup {None}]
      /\ st.bundle[b] \in Bundle
    BY FieldTypes DEF Good
<1>1. PICK r : r = [st.bundle[b] EXCEPT !.loopback = TRUE]
    OBVIOUS
<1>2. /\ r \in Bundle /\ r.rif = st.bundle[b].rif /\ r.data = st.bundle[b].data
      /\ r.routes = st.bundle[b].routes
    BY <1>0, <1>1 DEF Bundle
<1>3. r.enabled = st.bundle[b].enabled
    BY <1>0, <1>1 DEF Bundle
<1>4. /\ t.bundle = [st.bundle EXCEPT ![b] = r] /\ t.rif = st.rif /\ t.entry = st.entry
      /\ t.ptr = st.ptr /\ t.route = st.route /\ t.bundleOf = st.bundleOf
    BY <1>0, <1>1 DEF State, Looped
<1>5. t \in State
    BY <1>0, <1>1, <1>2, <1>4 DEF State, Looped
<1>6. \A a \in RoutedOf(t.bundle) : /\ a \in RoutedOf(st.bundle)
                                    /\ t.bundle[a].rif = st.bundle[a].rif
                                    /\ t.bundle[a].routes = st.bundle[a].routes
    BY <1>0, <1>2, <1>4 DEF RoutedOf
<1>7. Tracked(t.bundle, t.rif, t.route)
    BY <1>4, <1>6 DEF Good, Tracked
<1>8. Good(t) /\ Within(st, t, b)
    BY <1>2, <1>3, <1>4, <1>5, <1>7, RecordIsGood
<1>9. t.bundle[b] = r
    BY <1>0, <1>4
<1> QED
    BY <1>2, <1>8, <1>9


\* From st to t bundle b keeps its rif, if it has one for the port or VLAN asked.
LEMMA RouterIntfReconfigureIsGood ==
    ASSUME NEW st, Good(st), NEW b \in Bundles, st.bundle[b] # None,
           NEW s \in Settings, NEW p \in Ports, p = s.slaves[1],
           \A q \in Ports : st.bundleOf[q] = b <=> q = p,
           NEW o \in RouterIntfReconfigure(st, b, s)
    PROVE  /\ Good(o.st) /\ Within(st, o.st, b)
           /\ b \in RoutedOf(st.bundle) /\ st.bundle[b].data = RifData(p, s)
                 => o.st.bundle[b].rif = st.bundle[b].rif
<1>1. CASE Kind[p] = "loopback"
    <2>1. PICK t : t = Looped(st, b)
        OBVIOUS
    <2>2. o = Done(t)
        BY <1>1, <2>1 DEF RouterIntfReconfigure, Looped
    <2>3. Good(t) /\ Within(st, t, b) /\ t.bundle[b].rif = st.bundle[b].rif
        BY <2>1, LoopbackIsGood
    <2> QED
        BY <2>2, <2>3, OutcomeFields
<1>2. CASE Kind[p] = "vlansubint"
    <2>1. o = Done(st)
        BY <1>2 DEF RouterIntfReconfigure
    <2> QED
        BY <2>1, OutcomeFields DEF Within
<1>3. CASE Kind[p] \in {"system", "internal"}
    <2> DEFINE type == RifType(p)
               data == RifData(p, s)
               Rest(t) == Then(Ensure(t, b, type, data), LAMBDA u : Enable(u, b, s.enable))
    <2>1. o \in Then(DropOther(st, b, data), Rest)
        BY <1>3 DEF RouterIntfReconfigure
    <2> HIDE DEF type, data
    <2>2. PICK q \in DropOther(st, b, data) : o \in IF q.ok THEN Rest(q.st) ELSE {q}
        BY <2>1 DEF Then
    <2>3. /\ Good(q.st) /\ Within(st, q.st, b) /\ q.st.bundle[b] # None
          /\ st.bundle[b].data = data => q.ok /\ q.st = st
        BY <2>2, DropOtherIsGood
    <2>4. CASE ~q.ok
        BY <2>2, <2>3, <2>4 DEF data
    <2>5. CASE q.ok
        <3>1. PICK w \in Ensure(q.st, b, type, data) :
                 o \in IF w.ok THEN Enable(w.st, b, s.enable) ELSE {w}
            BY <2>2, <2>5 DEF Then
        <3>2. \A x \in Ports : q.st.bundleOf[x] = b <=> x = p
            BY <2>3 DEF Within
        <3>3. /\ Good(w.st) /\ Within(q.st, w.st, b)
              /\ w.ok => b \in RoutedOf(w.st.bundle)
              /\ b \in RoutedOf(q.st.bundle) => w.st = q.st
            BY <1>3, <2>3, <3>1, <3>2, EnsureIsGood DEF type, data
        <3>4. /\ Good(o.st) /\ Within(w.st, o.st, b)
              /\ o.st.bundle[b].rif = w.st.bundle[b].rif
            <4>1. CASE w.ok
                <5>1. s.enable \in BOOLEAN
                    BY RifAssumption
                <5> QED
                    BY <3>1, <3>3, <4>1, <5>1, EnableIsGood
            <4>2. CASE ~w.ok
                BY <3>1, <3>3, <4>2 DEF Within
            <4> QED
                BY <4>1, <4>2
        <3>5. Within(st, o.st, b)
            BY <2>3, <3>3, <3>4, WithinTransitive
        <3> QED
            BY <2>3, <3>3, <3>4, <3>5 DEF data
    <2> QED
        BY <2>4, <2>5
<1> QED
    BY <1>1, <1>2, <1>3, RifAssumption DEF Kinds

-----------------------------------------------------------------------------
(* Bundles and their ports.                                                *)

\* Ports that leave their bundles.
LEMMA ReleasedIsGood ==
    ASSUME NEW st, Good(st), NEW S, NEW t, t = Release(st, S)
    PROVE  /\ Good(t) /\ t.bundle = st.bundle
           /\ t.bundleOf = [p \in Ports |-> IF p \in S THEN None ELSE st.bundleOf[p]]
<1>0. /\ st \in State
      /\ st.bundleOf \in [Ports -> Bundles \cup {None}]
    BY FieldTypes DEF Good
<1>1. PICK f : f = [p \in Ports |-> IF p \in S THEN None ELSE st.bundleOf[p]]
    OBVIOUS
<1>2. f \in [Ports -> Bundles \cup {None}]
    BY <1>0, <1>1
<1>3. /\ t.bundleOf = f /\ t.bundle = st.bundle /\ t.rif = st.rif
      /\ t.entry = st.entry /\ t.ptr = st.ptr /\ t.route = st.route
    BY <1>0, <1>1 DEF State, Release
<1>4. t \in State
    BY <1>0, <1>1, <1>2, <1>3 DEF State, Release
<1>5. \A a \in RoutedOf(t.bundle) : a \in RoutedOf(st.bundle) /\ KeepsRif(st, t, a)
    BY <1>3 DEF KeepsRif, Good, Agreed
<1>6. Joined(t.bundle, t.bundleOf)
    BY <1>1, <1>3 DEF Good, Joined
<1>7. /\ Administered(t.bundle, t.rif) /\ Tracked(t.bundle, t.rif, t.route)
      /\ KeepsPointers(st, t)
    BY <1>3 DEF Good, KeepsPointers
<1>8. Good(t)
    BY <1>4, <1>5, <1>6, <1>7, NoNewRif
<1> QED
    BY <1>1, <1>3, <1>8

\* The memory of bundle b, without ports, is freed: pointers to it dangle.
Freeing(st, b) ==
    [st EXCEPT !.bundle[b] = None,
               !.ptr = [p \in Ports |-> IF st.ptr[p] = b THEN Freed ELSE st.ptr[p]]]

LEMMA FreedIsGood ==
    ASSUME NEW st, Good(st), NEW b \in Bundles, \A p \in Ports : st.bundleOf[p] # b,
           NEW t, t = Freeing(st, b)
    PROVE  /\ Good(t) /\ t.bundle = [st.bundle EXCEPT ![b] = None]
           /\ t.bundleOf = st.bundleOf
<1>0. /\ st \in State
      /\ st.bundle \in [Bundles -> Bundle \cup {None}]
      /\ st.bundleOf \in [Ports -> Bundles \cup {None}]
      /\ st.ptr \in [Ports -> Bundles \cup {None, Freed}]
    BY FieldTypes DEF Good
<1>1. PICK f : f = [p \in Ports |-> IF st.ptr[p] = b THEN Freed ELSE st.ptr[p]]
    OBVIOUS
<1>2. f \in [Ports -> Bundles \cup {None, Freed}]
    BY <1>0, <1>1
<1>3. /\ t.bundle = [st.bundle EXCEPT ![b] = None] /\ t.ptr = f
      /\ t.bundleOf = st.bundleOf /\ t.rif = st.rif
      /\ t.entry = st.entry /\ t.route = st.route
    BY <1>0, <1>1 DEF State, Freeing
<1>4. t \in State
    BY <1>0, <1>1, <1>2, <1>3 DEF State, Freeing
<1>5. t.bundle[b] = None /\ \A a \in Bundles \ {b} : t.bundle[a] = st.bundle[a]
    BY <1>0, <1>3
<1>6. \A a \in RoutedOf(t.bundle) :
         a \in RoutedOf(st.bundle) /\ a # b /\ t.bundle[a] = st.bundle[a]
    BY <1>5 DEF RoutedOf
<1>7. \A a \in RoutedOf(t.bundle) : a \in RoutedOf(st.bundle) /\ KeepsRif(st, t, a)
    BY <1>3, <1>6 DEF KeepsRif, Good, Agreed
<1>8. Administered(t.bundle, t.rif)
    <2> SUFFICES ASSUME NEW a \in RoutedOf(t.bundle)
                 PROVE  t.bundle[a].enabled = t.rif[t.bundle[a].rif].enabled
        BY DEF Administered
    <2>1. st.bundle[a].enabled = st.rif[st.bundle[a].rif].enabled
        BY <1>6 DEF Good, Administered
    <2>2. t.bundle[a] = st.bundle[a]
        BY <1>6
    <2> QED
        BY <1>3, <2>1, <2>2, Zenon
<1>9. Tracked(t.bundle, t.rif, t.route)
    BY <1>3, <1>6 DEF Good, Tracked
<1>10. Joined(t.bundle, t.bundleOf)
    BY <1>0, <1>3, <1>5 DEF Good, Joined
<1>11. KeepsPointers(st, t)
    <2>1. b \in Bundles \ RoutedOf(t.bundle)
        BY <1>5 DEF RoutedOf
    <2> QED
        BY <1>1, <1>3, <2>1 DEF KeepsPointers
<1>12. Good(t)
    BY <1>4, <1>7, <1>8, <1>9, <1>10, <1>11, NoNewRif
<1> QED
    BY <1>3, <1>12

\* Destroying bundle b leaves the other bundles alone.
LEMMA DestroyIsGood ==
    ASSUME NEW st, Good(st), NEW b \in Bundles, st.bundle[b] # None,
           NEW o \in Destroy(st, b)
    PROVE  /\ Good(o.st) /\ o.ok
           /\ o.st.bundleOf = [p \in Ports |-> IF st.bundleOf[p] = b THEN None
                                               ELSE st.bundleOf[p]]
           /\ \A a \in Bundles : o.st.bundle[a] = IF a = b THEN None ELSE st.bundle[a]
<1> DEFINE Left(t) == [Release(t, PortsOf(t, b)) EXCEPT
               !.bundle[b] = None,
               !.ptr = [p \in Ports |-> IF t.ptr[p] = b THEN Freed ELSE t.ptr[p]]]
<1>1. PICK q \in RouterIntfRemove(st, b) : o = Done(Left(q.st))
    <2>1. o \in UNION {{Done(Left(q.st))} : q \in RouterIntfRemove(st, b)}
        BY Zenon DEF Destroy, Regardless
    <2> HIDE DEF Left
    <2> QED
        BY <2>1
<1>2. Good(q.st) /\ Within(st, q.st, b)
    BY <1>1, RouterIntfRemoveIsGood
<1>3. PICK u : u = Release(q.st, PortsOf(q.st, b))
    OBVIOUS
<1>4. /\ Good(u) /\ u.bundle = q.st.bundle
      /\ u.bundleOf = [p \in Ports |-> IF p \in PortsOf(q.st, b) THEN None
                                       ELSE q.st.bundleOf[p]]
    BY <1>2, <1>3, ReleasedIsGood
<1>5. u.bundleOf = [p \in Ports |-> IF st.bundleOf[p] = b THEN None ELSE st.bundleOf[p]]
    BY <1>2, <1>4 DEF Within, PortsOf
<1>6. u.ptr = q.st.ptr
    BY <1>2, <1>3 DEF Good, State, Release
<1>7. Left(q.st) = Freeing(u, b)
    BY <1>3, <1>6 DEF Freeing
<1>8. PICK t : t = Freeing(u, b)
    OBVIOUS
<1>9. \A p \in Ports : u.bundleOf[p] # b
    BY <1>5, NoneFacts
<1>10. /\ Good(t) /\ t.bundle = [u.bundle EXCEPT ![b] = None]
       /\ t.bundleOf = u.bundleOf
    BY <1>4, <1>8, <1>9, FreedIsGood
<1>11. o.st = t /\ o.ok
    <2> HIDE DEF Left
    <2> QED
        BY <1>1, <1>7, <1>8, OutcomeFields
<1>12. \A a \in Bundles : t.bundle[a] = IF a = b THEN None ELSE st.bundle[a]
    <2>1. u.bundle \in [Bundles -> Bundle \cup {None}]
        BY <1>4, FieldTypes DEF Good
    <2> QED
        BY <1>2, <1>4, <1>10, <2>1 DEF Within
<1> QED
    BY <1>5, <1>10, <1>11, <1>12

\* From st to t bundles are destroyed, but none changes otherwise, and not b.
Sparing(st, t, b) ==
    /\ t.bundle[b] = st.bundle[b]
    /\ \A a \in Bundles : t.bundle[a] \in {st.bundle[a], None}

LEMMA RemoveIsGood ==
    ASSUME NEW st, Good(st), NEW p \in Ports, NEW o \in Remove(st, p)
    PROVE  /\ Good(o.st) /\ o.ok
           /\ o.st.bundleOf = [q \in Ports |-> IF q = p THEN None ELSE st.bundleOf[q]]
           /\ \A b \in Bundles : b # st.bundleOf[p] => Sparing(st, o.st, b)
           /\ \A b \in Bundles : (\E q \in Ports \ {p} : st.bundleOf[q] = b)
                                    => Sparing(st, o.st, b)
<1> DEFINE c == st.bundleOf[p]
<1>1. PICK t : t = Release(st, {p})
    OBVIOUS
<1>2. /\ Good(t) /\ t.bundle = st.bundle
      /\ t.bundleOf = [q \in Ports |-> IF q \in {p} THEN None ELSE st.bundleOf[q]]
    BY <1>1, ReleasedIsGood
<1>3. t.bundleOf = [q \in Ports |-> IF q = p THEN None ELSE st.bundleOf[q]]
    BY <1>2
<1>4. c \in Bundles \cup {None}
    BY FieldTypes DEF Good
<1>5. CASE c # None /\ PortsOf(t, c) = {}
    <2>1. o \in Destroy(t, c)
        BY <1>1, <1>5 DEF Remove
    <2>2. c \in Bundles /\ t.bundle[c] # None
        BY <1>2, <1>4, <1>5 DEF Good, Joined
    <2>3. /\ Good(o.st) /\ o.ok
          /\ o.st.bundleOf = [q \in Ports |-> IF t.bundleOf[q] = c THEN None
                                              ELSE t.bundleOf[q]]
          /\ \A a \in Bundles : o.st.bundle[a] = IF a = c THEN None ELSE t.bundle[a]
        BY <1>2, <2>1, <2>2, DestroyIsGood
    <2>4. \A q \in Ports : t.bundleOf[q] # c
        BY <1>5 DEF PortsOf
    <2>5. o.st.bundleOf = [q \in Ports |-> IF q = p THEN None ELSE st.bundleOf[q]]
        BY <1>3, <2>3, <2>4
    <2>6. \A b \in Bundles : b # c => Sparing(st, o.st, b)
        BY <1>2, <2>3 DEF Sparing
    <2>7. \A q \in Ports \ {p} : st.bundleOf[q] # c
        BY <1>3, <2>4
    <2> QED
        BY <2>3, <2>5, <2>6, <2>7
<1>6. CASE ~(c # None /\ PortsOf(t, c) = {})
    <2>1. o = Done(t)
        BY <1>1, <1>6, Zenon DEF Remove
    <2>2. o.st = t /\ o.ok
        BY <2>1, OutcomeFields
    <2>3. \A b \in Bundles : Sparing(st, t, b)
        BY <1>2 DEF Sparing
    <2> QED
        BY <1>2, <1>3, <2>2, <2>3
<1> QED
    BY <1>5, <1>6

\* A port joins bundle b from another bundle or from none.
Put(st, p, b) == [st EXCEPT !.bundleOf[p] = b]

LEMMA JoinedIsGood ==
    ASSUME NEW st, Good(st), NEW b \in Bundles, st.bundle[b] # None, NEW p \in Ports,
           NEW u, u = Put(st, p, b)
    PROVE  /\ Good(u) /\ u.bundle = st.bundle
           /\ \A q \in Ports : u.bundleOf[q] = IF q = p THEN b ELSE st.bundleOf[q]
<1>0. /\ st \in State
      /\ st.bundleOf \in [Ports -> Bundles \cup {None}]
    BY FieldTypes DEF Good
<1>1. PICK f : f = [st.bundleOf EXCEPT ![p] = b]
    OBVIOUS
<1>2. PICK t : t = [st EXCEPT !.bundleOf = f]
    OBVIOUS
<1>3. /\ t.bundleOf = f /\ t.bundle = st.bundle
      /\ t.rif = st.rif /\ t.entry = st.entry /\ t.ptr = st.ptr /\ t.route = st.route
    BY <1>0, <1>2 DEF State
<1>4. f \in [Ports -> Bundles \cup {None}]
    BY <1>0, <1>1
<1>5. t \in State
    BY <1>0, <1>2, <1>3, <1>4 DEF State
<1>6. \A a \in RoutedOf(t.bundle) : a \in RoutedOf(st.bundle) /\ KeepsRif(st, t, a)
    BY <1>3 DEF KeepsRif, Good, Agreed
<1>7. Joined(t.bundle, t.bundleOf)
    BY <1>0, <1>3, <1>1 DEF Good, Joined
<1>8. /\ Administered(t.bundle, t.rif) /\ Tracked(t.bundle, t.rif, t.route)
      /\ KeepsPointers(st, t)
    BY <1>3 DEF Good, KeepsPointers
<1>9. Good(t)
    BY <1>5, <1>6, <1>7, <1>8, NoNewRif
<1>10. u = t
    BY <1>2, <1>1 DEF Put
<1> QED
    BY <1>0, <1>3, <1>1, <1>9, <1>10

LEMMA JoinIsGood ==
    ASSUME NEW st, Good(st), NEW b \in Bundles, st.bundle[b] # None, NEW p \in Ports,
           NEW o \in Join(st, b, p)
    PROVE  /\ Good(o.st) /\ o.ok /\ Sparing(st, o.st, b)
           /\ \A q \in Ports : o.st.bundleOf[q] = IF q = p THEN b ELSE st.bundleOf[q]
<1>1. CASE st.bundleOf[p] = b
    <2>1. o = Done(st)
        BY <1>1 DEF Join
    <2> QED
        BY <1>1, <2>1, OutcomeFields DEF Sparing
<1>2. CASE st.bundleOf[p] # b
    <2>1. PICK q \in Remove(st, p) : o = Done(Put(q.st, p, b))
        <3>1. o \in UNION {{Done(Put(q.st, p, b))} : q \in Remove(st, p)}
            BY <1>2, Zenon DEF Join, Regardless, Put
        <3> QED
            BY <3>1
    <2>2. /\ Good(q.st) /\ Sparing(st, q.st, b)
          /\ q.st.bundleOf = [r \in Ports |-> IF r = p THEN None ELSE st.bundleOf[r]]
        BY <1>2, <2>1, RemoveIsGood
    <2>3. PICK t : t = Put(q.st, p, b)
        OBVIOUS
    <2>4. q.st.bundle[b] # None
        BY <2>2 DEF Sparing
    <2>5. /\ Good(t) /\ t.bundle = q.st.bundle
          /\ \A r \in Ports : t.bundleOf[r] = IF r = p THEN b ELSE q.st.bundleOf[r]
        BY <2>2, <2>3, <2>4, JoinedIsGood
    <2>6. o.st = t /\ o.ok
        BY <2>1, <2>3, OutcomeFields
    <2>7. \A r \in Ports : t.bundleOf[r] = IF r = p THEN b ELSE st.bundleOf[r]
        BY <2>2, <2>5
    <2>8. Sparing(st, t, b)
        BY <2>2, <2>5 DEF Sparing
    <2> QED
        BY <2>5, <2>6, <2>7, <2>8
<1> QED
    BY <1>1, <1>2

LEMMA SlavesFacts ==
    ASSUME NEW s \in Settings
    PROVE  /\ s.slaves[1] \in Ports /\ s.slaves[Len(s.slaves)] \in Ports
           /\ Slaves(s) = {s.slaves[1], s.slaves[Len(s.slaves)]}
<1>1. s.slaves \in Seq(Ports) /\ Len(s.slaves) \in 1..2
    BY RifAssumption
<1>2. PICK l : l = s.slaves
    OBVIOUS
<1>3. /\ l \in Seq(Ports) /\ DOMAIN l = 1 .. Len(l)
      /\ Len(l) = 1 \/ Len(l) = 2
    BY <1>1, <1>2
<1>4. l[1] \in Ports /\ l[Len(l)] \in Ports
    BY <1>3
<1>5. {l[i] : i \in DOMAIN l} = {l[1], l[Len(l)]}
    BY <1>3
<1> QED
    BY <1>2, <1>4, <1>5 DEF Slaves

LEMMA PortsReconfigureIsGood ==
    ASSUME NEW st, Good(st), NEW b \in Bundles, st.bundle[b] # None, NEW s \in Settings,
           NEW o \in PortsReconfigure(st, b, s)
    PROVE  /\ Good(o.st) /\ o.ok /\ Sparing(st, o.st, b)
           /\ \A q \in Ports : o.st.bundleOf[q] = b <=> q \in Slaves(s)
<1> DEFINE p1 == s.slaves[1]
           p2 == s.slaves[Len(s.slaves)]
<1>1. p1 \in Ports /\ p2 \in Ports /\ Slaves(s) = {p1, p2}
    BY SlavesFacts
<1> HIDE DEF p1, p2
<1>2. PICK t : t = Release(st, PortsOf(st, b) \ Slaves(s))
    OBVIOUS
<1>3. /\ Good(t) /\ t.bundle = st.bundle
      /\ t.bundleOf = [p \in Ports |-> IF p \in PortsOf(st, b) \ Slaves(s) THEN None
                                       ELSE st.bundleOf[p]]
    BY <1>2, ReleasedIsGood
<1>4. PICK q \in Join(t, b, p1) : o \in IF q.ok THEN Join(q.st, b, p2) ELSE {q}
    BY <1>2, Zenon DEF PortsReconfigure, Then, p1, p2
<1>5. /\ Good(q.st) /\ q.ok /\ Sparing(t, q.st, b)
      /\ \A x \in Ports : q.st.bundleOf[x] = IF x = p1 THEN b ELSE t.bundleOf[x]
    BY <1>1, <1>3, <1>4, JoinIsGood
<1>6. q.st.bundle[b] # None
    BY <1>3, <1>5 DEF Sparing
<1>7. /\ Good(o.st) /\ o.ok /\ Sparing(q.st, o.st, b)
      /\ \A x \in Ports : o.st.bundleOf[x] = IF x = p2 THEN b ELSE q.st.bundleOf[x]
    BY <1>1, <1>4, <1>5, <1>6, JoinIsGood
<1>8. Sparing(st, o.st, b)
    BY <1>3, <1>5, <1>7 DEF Sparing
<1>9. ASSUME NEW x \in Ports
      PROVE  o.st.bundleOf[x] = b <=> x \in Slaves(s)
    <2>1. t.bundleOf[x] = b => x \in Slaves(s)
        BY <1>3, NoneFacts DEF PortsOf
    <2> QED
        BY <1>1, <1>5, <1>7, <2>1
<1> QED
    BY <1>7, <1>8, <1>9

\* A bundle that is new has no rif.
LEMMA AddedIsGood ==
    ASSUME NEW st, Good(st), NEW b \in Bundles, st.bundle[b] = None,
           NEW t, t = [st EXCEPT !.bundle[b] = NewBundle]
    PROVE  Good(t) /\ t.bundle = [st.bundle EXCEPT ![b] = NewBundle]
<1>0. /\ st \in State
      /\ st.bundle \in [Bundles -> Bundle \cup {None}]
    BY FieldTypes DEF Good
<1>1. /\ t.bundle = [st.bundle EXCEPT ![b] = NewBundle] /\ t.bundleOf = st.bundleOf
      /\ t.rif = st.rif /\ t.entry = st.entry /\ t.ptr = st.ptr /\ t.route = st.route
    BY <1>0 DEF State
<1>2. t \in State
    BY <1>0, <1>1, NewBundleFacts DEF State
<1>3. \A a \in RoutedOf(t.bundle) : a \in RoutedOf(st.bundle) /\ t.bundle[a] = st.bundle[a]
    BY <1>0, <1>1, NewBundleFacts DEF RoutedOf
<1>4. \A a \in RoutedOf(t.bundle) : a \in RoutedOf(st.bundle) /\ KeepsRif(st, t, a)
    BY <1>1, <1>3 DEF KeepsRif, Good, Agreed
<1>5. Joined(t.bundle, t.bundleOf)
    BY <1>0, <1>1, FieldTypes, NewBundleFacts DEF Good, Joined
<1>6. Administered(t.bundle, t.rif)
    <2> SUFFICES ASSUME NEW a \in RoutedOf(t.bundle)
                 PROVE  t.bundle[a].enabled = t.rif[t.bundle[a].rif].enabled
        BY DEF Administered
    <2>1. st.bundle[a].enabled = st.rif[st.bundle[a].rif].enabled
        BY <1>3 DEF Good, Administered
    <2>2. t.bundle[a] = st.bundle[a]
        BY <1>3
    <2> QED
        BY <1>1, <2>1, <2>2, Zenon
<1>7. Tracked(t.bundle, t.rif, t.route) /\ KeepsPointers(st, t)
    BY <1>1, <1>3 DEF Good, Tracked, KeepsPointers
<1>8. Good(t)
    BY <1>2, <1>4, <1>5, <1>6, <1>7, NoNewRif
<1> QED
    BY <1>1, <1>8

-----------------------------------------------------------------------------
(* Local routes.                                                           *)

TracksMore(st, b, x) == [st EXCEPT !.bundle[b].routes[x] = @ + 1]
TracksLess(st, b, x) == [st EXCEPT !.bundle[b].routes[x] = @ - 1]

\* A route that leaves through b's rif, or one that was refused, is put on b's
\* list.
LEMMA TracksMoreIsGood ==
    ASSUME NEW st, Good(st), NEW b \in RoutedOf(st.bundle), NEW x \in Prefixes,
           NEW u, \/ u = st
                  \/ u = [st EXCEPT !.route[x] = st.bundle[b].rif],
           NEW t, t = TracksMore(u, b, x)
    PROVE  Good(t) /\ Within(st, t, b) /\ t.bundle[b].rif = st.bundle[b].rif
<1> DEFINE i == st.bundle[b].rif
<1>0. /\ st \in State /\ st.bundle \in [Bundles -> Bundle \cup {None}]
      /\ b \in Bundles /\ st.bundle[b] # None
      /\ st.route \in [Prefixes -> RifIds \cup {None}]
    BY FieldTypes DEF Good, RoutedOf
<1>1. st.bundle[b] \in Bundle /\ i \in RifIds
    BY <1>0 DEF RoutedOf, Bundle
<1>2. st.bundle[b].routes \in [Prefixes -> Nat]
    BY <1>1 DEF Bundle
<1>3. PICK f : f = [st.bundle[b].routes EXCEPT ![x] = st.bundle[b].routes[x] + 1]
    OBVIOUS
<1>4. /\ f \in [Prefixes -> Nat] /\ f[x] > 0
      /\ \A y \in Prefixes : f[y] >= st.bundle[b].routes[y]
    BY <1>2, <1>3
<1>5. PICK r : r = [st.bundle[b] EXCEPT !.routes = f]
    OBVIOUS
<1>6. /\ r \in Bundle /\ r.rif = i /\ r.data = st.bundle[b].data /\ r.routes = f
    BY <1>1, <1>4, <1>5 DEF Bundle
<1>7. r.enabled = st.bundle[b].enabled
    BY <1>1, <1>5 DEF Bundle
<1>8. PICK g : g = [st.route EXCEPT ![x] = i]
    OBVIOUS
<1>9. /\ g \in [Prefixes -> RifIds \cup {None}]
      /\ \A y \in Prefixes : g[y] = IF y = x THEN i ELSE st.route[y]
    BY <1>0, <1>1, <1>8
<1>10. /\ u \in State /\ u.bundle = st.bundle /\ u.bundleOf = st.bundleOf
       /\ u.ptr = st.ptr /\ u.entry = st.entry /\ u.rif = st.rif
       /\ u.route = st.route \/ u.route = g
    <2>1. CASE u = st
        BY <1>0, <2>1
    <2>2. CASE u = [st EXCEPT !.route[x] = i]
        <3>1. u = [st EXCEPT !.route = g]
            BY <1>8, <2>2
        <3> QED
            BY <1>0, <1>9, <3>1 DEF State
    <2> QED
        BY <2>1, <2>2
<1>11. PICK h : h = [st.bundle EXCEPT ![b] = r]
    OBVIOUS
<1>12. h \in [Bundles -> Bundle \cup {None}]
    BY <1>0, <1>6, <1>11
<1>13. t = [u EXCEPT !.bundle = h]
    BY <1>3, <1>5, <1>10, <1>11 DEF TracksMore
<1>14. /\ t.bundle = h /\ t.bundleOf = st.bundleOf /\ t.ptr = st.ptr
       /\ t.entry = st.entry /\ t.rif = st.rif /\ t.route = u.route
    BY <1>10, <1>13 DEF State
<1>15. t \in State
    BY <1>10, <1>12, <1>13 DEF State
<1>16. \A a \in RoutedOf(t.bundle) :
            /\ a \in RoutedOf(st.bundle) /\ t.bundle[a].rif = st.bundle[a].rif
            /\ \A y \in Prefixes : st.bundle[a].routes[y] > 0 => t.bundle[a].routes[y] > 0
            /\ a = b => t.bundle[a].routes[x] > 0
    <2> SUFFICES ASSUME NEW a \in RoutedOf(t.bundle)
                 PROVE  /\ a \in RoutedOf(st.bundle) /\ t.bundle[a].rif = st.bundle[a].rif
                        /\ \A y \in Prefixes : st.bundle[a].routes[y] > 0
                                                    => t.bundle[a].routes[y] > 0
                        /\ a = b => t.bundle[a].routes[x] > 0
        OBVIOUS
    <2>1. CASE a = b
        <3>1. t.bundle[a].routes = f /\ t.bundle[a].rif = i
            BY <1>0, <1>6, <1>11, <1>14, <2>1
        <3> QED
            BY <1>2, <1>4, <2>1, <3>1
    <2>2. CASE a # b
        <3>1. a \in Bundles /\ t.bundle[a] = st.bundle[a]
            BY <1>0, <1>11, <1>14, <2>2 DEF RoutedOf
        <3> QED
            BY <2>2, <3>1 DEF RoutedOf
    <2> QED
        BY <2>1, <2>2
<1>17. st.rif[i] # None /\ \A a \in RoutedOf(st.bundle) : st.bundle[a].rif = i => a = b
    BY DEF Good, Agreed, Unshared
<1>18. Tracked(t.bundle, t.rif, t.route)
    <2> SUFFICES ASSUME NEW y \in Prefixes, t.route[y] # None
                 PROVE  /\ t.rif[t.route[y]] # None
                        /\ \A a \in RoutedOf(t.bundle) :
                              t.bundle[a].rif = t.route[y] => t.bundle[a].routes[y] > 0
        BY DEF Tracked
    <2>1. CASE y = x /\ t.route[y] = i
        BY <1>14, <1>16, <1>17, <2>1
    <2>2. CASE t.route[y] = st.route[y]
        <3>1. /\ st.rif[st.route[y]] # None
              /\ \A a \in RoutedOf(st.bundle) :
                    st.bundle[a].rif = st.route[y] => st.bundle[a].routes[y] > 0
            BY <2>2 DEF Good, Tracked
        <3> QED
            BY <1>14, <1>16, <2>2, <3>1
    <2> QED
        BY <1>9, <1>10, <1>14, <2>1, <2>2
<1>19. Good(t) /\ Within(st, t, b)
    BY <1>0, <1>6, <1>7, <1>11, <1>14, <1>15, <1>18, RecordIsGood
<1> QED
    BY <1>0, <1>6, <1>11, <1>14, <1>19

LEMMA LocalAddIsGood ==
    ASSUME NEW st, Good(st), NEW b \in RoutedOf(st.bundle), NEW x \in Prefixes,
           NEW o \in LocalAdd(st, x, b)
    PROVE  Good(o.st) /\ Within(st, o.st, b) /\ o.st.bundle[b].rif = st.bundle[b].rif
<1> DEFINE i == st.bundle[b].rif
<1>1. PICK q \in RouteLocalAdd(st, x, i) : o = Done(TracksMore(q.st, b, x))
    <2>1. o \in UNION {{Done(TracksMore(q.st, b, x))} : q \in RouteLocalAdd(st, x, i)}
        BY Zenon DEF LocalAdd, Regardless, TracksMore
    <2> QED
        BY <2>1
<1>2. q = Failed(st) \/ q = Done([st EXCEPT !.route[x] = i])
    BY <1>1 DEF RouteLocalAdd
<1>3. PICK u : u = q.st
    OBVIOUS
<1>4. u = st \/ u = [st EXCEPT !.route[x] = i]
    BY <1>2, <1>3, OutcomeFields, Zenon
<1>5. PICK t : t = TracksMore(u, b, x)
    OBVIOUS
<1>6. Good(t) /\ Within(st, t, b) /\ t.bundle[b].rif = st.bundle[b].rif
    BY <1>4, <1>5, TracksMoreIsGood
<1> QED
    BY <1>1, <1>3, <1>5, <1>6, OutcomeFields

\* A route that is taken out of the ASIC is taken off b's list.
LEMMA TracksLessFacts ==
    ASSUME NEW st, Good(st), NEW b \in Bundles, st.bundle[b] # None, NEW x \in Prefixes
    PROVE  TracksLess([st EXCEPT !.route[x] = None], b, x) = RoutesLess(st, b, {x})
<1>0. /\ st \in State /\ st.bundle \in [Bundles -> Bundle \cup {None}]
      /\ st.route \in [Prefixes -> RifIds \cup {None}] /\ st.bundle[b] \in Bundle
    BY FieldTypes DEF Good
<1>1. st.bundle[b].routes \in [Prefixes -> Nat]
    BY <1>0 DEF Bundle
<1>2. PICK f : f = [st.bundle[b].routes EXCEPT ![x] = st.bundle[b].routes[x] - 1]
    OBVIOUS
<1>3. f = [y \in Prefixes |-> st.bundle[b].routes[y] - IF y \in {x} THEN 1 ELSE 0]
    BY <1>1, <1>2
<1>4. PICK g : g = [st.route EXCEPT ![x] = None]
    OBVIOUS
<1>5. g = [y \in Prefixes |-> IF y \in {x} THEN None ELSE st.route[y]]
    BY <1>0, <1>4
<1>6. PICK u : u = [st EXCEPT !.route = g]
    OBVIOUS
<1>7. u.bundle = st.bundle
    BY <1>0, <1>6 DEF State
<1>8. TracksLess(u, b, x) = [u EXCEPT !.bundle[b].routes = f]
    BY <1>2, <1>7 DEF TracksLess
<1>9. RoutesLess(st, b, {x}) = [u EXCEPT !.bundle[b].routes = f]
    BY <1>3, <1>5, <1>6, <1>7 DEF RoutesLess
<1> QED
    BY <1>4, <1>6, <1>8, <1>9

LEMMA LocalDeleteIsGood ==
    ASSUME NEW st, Good(st), NEW b \in Bundles, st.bundle[b] # None, NEW x \in Prefixes,
           NEW o \in LocalDelete(st, x, b)
    PROVE  Good(o.st) /\ Within(st, o.st, b) /\ o.st.bundle[b].rif = st.bundle[b].rif
<1>0. st.bundle[b] \in Bundle /\ st.bundle[b].routes \in [Prefixes -> Nat]
    BY FieldTypes DEF Good, Bundle
<1>1. CASE st.bundle[b].routes[x] = 0
    <2>1. o = Done(st)
        BY <1>1 DEF LocalDelete
    <2> QED
        BY <2>1, OutcomeFields DEF Within
<1>2. CASE st.bundle[b].routes[x] # 0
    <2>1. PICK q \in RouteRemove(st, x) :
             o \in IF q.ok THEN {Done(TracksLess(q.st, b, x))} ELSE {q}
        BY <1>2, Zenon DEF LocalDelete, Then, TracksLess
    <2>2. q = Failed(st) \/ q = Done([st EXCEPT !.route[x] = None])
        BY <2>1 DEF RouteRemove, May
    <2>3. CASE q = Failed(st)
        BY <2>1, <2>3, OutcomeFields DEF Within
    <2>4. CASE q = Done([st EXCEPT !.route[x] = None])
        <3>1. PICK u : u = [st EXCEPT !.route[x] = None]
            OBVIOUS
        <3>2. q.st = u /\ q.ok
            BY <2>4, <3>1, OutcomeFields
        <3>3. PICK t : t = RoutesLess(st, b, {x})
            OBVIOUS
        <3>4. TracksLess(u, b, x) = t
            BY <3>1, <3>3, TracksLessFacts
        <3>5. o = Done(t)
            BY <2>1, <3>2, <3>4
        <3>6. st.bundle[b].routes[x] > 0
            BY <1>0, <1>2
        <3>7. {x} \in SUBSET Prefixes /\ \A y \in {x} : st.bundle[b].routes[y] > 0
            BY <3>6
        <3>8. Good(t) /\ Within(st, t, b) /\ t.bundle[b].rif = st.bundle[b].rif
            BY <3>3, <3>7, RoutesLessIsGood
        <3> QED
            BY <3>5, <3>8, OutcomeFields
    <2> QED
        BY <2>2, <2>3, <2>4
<1> QED
    BY <1>1, <1>2

-----------------------------------------------------------------------------
(* bundle_set.                                                             *)

\* From st to t bundles are destroyed, but none other than b changes otherwise,
\* and b keeps the rif made for a port that it has in t.
Settled(st, t, b) ==
    /\ \A a \in Bundles \ {b} : t.bundle[a] \in {st.bundle[a], None}
    /\ \A p \in Ports :
          /\ b \in RoutedOf(st.bundle)
          /\ Kind[p] = "system" /\ st.bundle[b].data = HwId[p] /\ t.bundleOf[p] = b
          => t.bundle[b].rif = st.bundle[b].rif

LEMMA SetIsGood ==
    ASSUME NEW st, Good(st), NEW b \in Bundles, NEW s \in Settings, NEW o \in Set(st, b, s)
    PROVE  Good(o.st) /\ Settled(st, o.st, b)
<1>1. PICK v : v = IF st.bundle[b] # None THEN st
                   ELSE [st EXCEPT !.bundle[b] = NewBundle]
    OBVIOUS
<1>2. /\ Good(v) /\ v.bundle[b] # None
      /\ \A a \in Bundles \ {b} : v.bundle[a] = st.bundle[a]
      /\ b \in RoutedOf(st.bundle) => v.bundle[b] = st.bundle[b]
    <2>1. CASE st.bundle[b] # None
        BY <1>1, <2>1
    <2>2. CASE st.bundle[b] = None
        <3>1. v = [st EXCEPT !.bundle[b] = NewBundle]
            BY <1>1, <2>2
        <3>2. Good(v) /\ v.bundle = [st.bundle EXCEPT ![b] = NewBundle]
            BY <2>2, <3>1, AddedIsGood
        <3>3. st.bundle \in [Bundles -> Bundle \cup {None}]
            BY FieldTypes DEF Good
        <3> QED
            BY <2>2, <3>2, <3>3, NewBundleFacts, NoneFacts DEF RoutedOf
    <2> QED
        BY <2>1, <2>2
<1> DEFINE Rest(t) == IF Len(s.slaves) > 1 THEN {Failed(t)}
                      ELSE Regardless(RouterIntfReconfigure(t, b, s), LAMBDA u : {Done(u)})
<1>3. PICK q \in PortsReconfigure(v, b, s) : o \in IF q.ok THEN Rest(q.st) ELSE {q}
    <2>1. o \in Then(PortsReconfigure(v, b, s), Rest)
        BY <1>1 DEF Set
    <2> HIDE DEF Rest
    <2> QED
        BY <2>1 DEF Then
<1>4. /\ Good(q.st) /\ q.ok /\ Sparing(v, q.st, b)
      /\ \A p \in Ports : q.st.bundleOf[p] = b <=> p \in Slaves(s)
    BY <1>2, <1>3, PortsReconfigureIsGood
<1>5. o \in Rest(q.st)
    <2> HIDE DEF Rest
    <2> QED
        BY <1>3, <1>4
<1>6. CASE Len(s.slaves) > 1
    <2>1. o = Failed(q.st)
        BY <1>5, <1>6
    <2>2. o.st = q.st
        BY <2>1, OutcomeFields
    <2> QED
        BY <1>2, <1>4, <2>2 DEF Settled, Sparing
<1>7. CASE ~(Len(s.slaves) > 1)
    <2>1. PICK w \in RouterIntfReconfigure(q.st, b, s) : o = Done(w.st)
        BY <1>5, <1>7 DEF Regardless
    <2>2. PICK p \in Ports : p = s.slaves[1]
        BY SlavesFacts
    <2>3. Slaves(s) = {p}
        <3>1. PICK n \in 1..2 : n = Len(s.slaves)
            BY RifAssumption
        <3>2. ~(n > 1)
            BY <1>7, <3>1
        <3>3. n = 1
            BY <3>2
        <3> QED
            BY <2>2, <3>1, <3>3, SlavesFacts
    <2>4. \A x \in Ports : q.st.bundleOf[x] = b <=> x = p
        BY <1>4, <2>3
    <2>5. q.st.bundle[b] # None
        BY <1>2, <1>4 DEF Sparing
    <2>6. /\ Good(w.st) /\ Within(q.st, w.st, b)
          /\ b \in RoutedOf(q.st.bundle) /\ q.st.bundle[b].data = RifData(p, s)
                => w.st.bundle[b].rif = q.st.bundle[b].rif
        BY <1>4, <2>1, <2>2, <2>4, <2>5, RouterIntfReconfigureIsGood
    <2>7. \A a \in Bundles \ {b} : w.st.bundle[a] \in {st.bundle[a], None}
        BY <1>2, <1>4, <2>6 DEF Sparing, Within
    <2>8. ASSUME NEW x \in Ports, b \in RoutedOf(st.bundle), Kind[x] = "system",
                 st.bundle[b].data = HwId[x], w.st.bundleOf[x] = b
          PROVE  w.st.bundle[b].rif = st.bundle[b].rif
        <3>1. x = p
            BY <2>4, <2>6, <2>8 DEF Within
        <3>2. RifData(p, s) = HwId[p]
            BY <2>8, <3>1 DEF RifData
        <3>3. q.st.bundle[b] = st.bundle[b]
            BY <1>2, <1>4, <2>8 DEF Sparing
        <3>4. b \in RoutedOf(q.st.bundle)
            BY <2>8, <3>3 DEF RoutedOf
        <3> QED
            BY <2>6, <2>8, <3>1, <3>2, <3>3, <3>4
    <2>9. Settled(st, w.st, b)
        BY <2>7, <2>8 DEF Settled
    <2> QED
        BY <2>1, <2>6, <2>9, OutcomeFields
<1> QED
    BY <1>6, <1>7

-----------------------------------------------------------------------------
(* The steps of the program.                                               *)

LEMMA InitIsGood ==
    ASSUME Init
    PROVE  Good(sw)
<1>1. /\ sw.bundle = [b \in Bundles |-> None] /\ sw.bundleOf = [p \in Ports |-> None]
      /\ sw.route = [x \in Prefixes |-> None]
    BY DEF Init
<1>2. sw \in State
    BY DEF Init, State
<1>3. RoutedOf(sw.bundle) = {}
    BY <1>1 DEF RoutedOf
<1> QED
    BY <1>1, <1>2, <1>3 DEF Good, Joined, Agreed, Administered, Unshared, Tracked, Pointing

\* A rif that was made for a port stays as long as the port is in its bundle.
Kept(st, t) ==
    \A b \in RoutedOf(st.bundle), p \in Ports :
        /\ Kind[p] = "system" /\ st.bundle[b].data = HwId[p]
        /\ st.bundleOf[p] = b /\ t.bundleOf[p] = b
        => t.bundle[b].rif = st.bundle[b].rif

\* For that no other bundle may change but to be destroyed.
LEMMA SettledKeeps ==
    ASSUME NEW st, NEW t, Good(t), NEW b, Settled(st, t, b)
    PROVE  Kept(st, t)
<1> SUFFICES ASSUME NEW a \in RoutedOf(st.bundle), NEW p \in Ports,
                    Kind[p] = "system", st.bundle[a].data = HwId[p], t.bundleOf[p] = a
             PROVE  t.bundle[a].rif = st.bundle[a].rif
    BY DEF Kept
<1>1. CASE a = b
    BY <1>1 DEF Settled
<1>2. CASE a # b
    <2>1. a \in Bundles /\ t.bundle[a] # None
        BY NoneFacts DEF RoutedOf, Good, Joined
    <2> QED
        BY <1>2, <2>1 DEF Settled
<1> QED
    BY <1>1, <1>2

LEMMA WithinKeeps ==
    ASSUME NEW st, NEW t, NEW b, Within(st, t, b), t.bundle[b].rif = st.bundle[b].rif
    PROVE  Kept(st, t)
BY DEF Kept, Within, RoutedOf

LEMMA AbortIsGood ==
    ASSUME NEW st, Good(st), NEW t, t = [st EXCEPT !.aborted = TRUE]
    PROVE  Good(t) /\ Kept(st, t)
<1>0. st \in State
    BY DEF Good
<1>1. /\ t.bundle = st.bundle /\ t.bundleOf = st.bundleOf /\ t.rif = st.rif
      /\ t.entry = st.entry /\ t.ptr = st.ptr /\ t.route = st.route
    BY <1>0 DEF State
<1>2. t \in State
    BY <1>0 DEF State
<1> QED
    BY <1>1, <1>2 DEF Good, Kept

LEMMA NextIsGood ==
    ASSUME Good(sw), [Next]_sw
    PROVE  Good(sw') /\ Kept(sw, sw')
<1>0. /\ sw \in State
      /\ sw.bundle \in [Bundles -> Bundle \cup {None}]
      /\ sw.bundleOf \in [Ports -> Bundles \cup {None}]
    BY FieldTypes DEF Good
<1>1. ASSUME NEW b \in Bundles, NEW s \in Settings, BundleSet(b, s)
      PROVE  Good(sw') /\ Kept(sw, sw')
    <2>1. PICK o \in Set(sw, b, s) : sw' = o.st
        BY <1>1 DEF BundleSet
    <2>2. Good(o.st) /\ Settled(sw, o.st, b)
        BY <2>1, SetIsGood
    <2> QED
        BY <2>1, <2>2, SettledKeeps
<1>2. ASSUME NEW b \in Bundles, BundleUnset(b)
      PROVE  Good(sw') /\ Kept(sw, sw')
    <2>1. PICK o \in Destroy(sw, b) : sw' = o.st
        BY <1>2 DEF BundleUnset
    <2>2. /\ Good(o.st)
          /\ o.st.bundleOf = [p \in Ports |-> IF sw.bundleOf[p] = b THEN None
                                              ELSE sw.bundleOf[p]]
          /\ \A a \in Bundles : o.st.bundle[a] = IF a = b THEN None ELSE sw.bundle[a]
        BY <1>2, <2>1, DestroyIsGood DEF BundleUnset
    <2>3. Settled(sw, o.st, b)
        BY <2>2, NoneFacts DEF Settled
    <2> QED
        BY <2>1, <2>2, <2>3, SettledKeeps
<1>3. ASSUME NEW p \in Ports, BundleRemove(p)
      PROVE  Good(sw') /\ Kept(sw, sw')
    <2>1. PICK o \in Remove(sw, p) : sw' = o.st
        BY <1>3 DEF BundleRemove
    <2>2. /\ Good(o.st)
          /\ o.st.bundleOf = [q \in Ports |-> IF q = p THEN None ELSE sw.bundleOf[q]]
          /\ \A b \in Bundles : (\E q \in Ports \ {p} : sw.bundleOf[q] = b)
                                    => Sparing(sw, o.st, b)
        BY <2>1, RemoveIsGood
    <2>3. ASSUME NEW b \in RoutedOf(sw.bundle), NEW q \in Ports,
                 sw.bundleOf[q] = b, o.st.bundleOf[q] = b
          PROVE  o.st.bundle[b] = sw.bundle[b]
        <3>1. q # p /\ b \in Bundles
            BY <2>2, <2>3, NoneFacts DEF RoutedOf
        <3> QED
            BY <2>2, <2>3, <3>1 DEF Sparing
    <2> QED
        BY <2>1, <2>2, <2>3 DEF Kept
<1>4. ASSUME NEW p \in Ports, RouteAddAborts(p)
      PROVE  Good(sw') /\ Kept(sw, sw')
    <2>1. PICK t : t = [sw EXCEPT !.aborted = TRUE]
        OBVIOUS
    <2>2. sw' = t
        BY <1>4, <2>1 DEF RouteAddAborts
    <2> QED
        BY <2>1, <2>2, AbortIsGood
<1>5. ASSUME NEW p \in Ports, NEW x \in Prefixes, RouteAdd(x, p)
      PROVE  Good(sw') /\ Kept(sw, sw')
    <2>1. PICK b : b = sw.bundleOf[p]
        OBVIOUS
    <2>2. b # None /\ sw.bundle[b].rif # None /\ \E o \in LocalAdd(sw, x, b) : sw' = o.st
        BY <1>5, <2>1 DEF RouteAdd
    <2>3. b \in RoutedOf(sw.bundle)
        BY <1>0, <2>1, <2>2 DEF Good, Joined, RoutedOf
    <2>4. PICK o \in LocalAdd(sw, x, b) : sw' = o.st
        BY <2>2
    <2>5. Good(o.st) /\ Within(sw, o.st, b) /\ o.st.bundle[b].rif = sw.bundle[b].rif
        BY <2>3, <2>4, LocalAddIsGood
    <2> QED
        BY <2>4, <2>5, WithinKeeps
<1>6. ASSUME NEW p \in Ports, NEW x \in Prefixes, RouteDelete(x, p)
      PROVE  Good(sw') /\ Kept(sw, sw')
    <2>1. PICK b : b = sw.bundleOf[p]
        OBVIOUS
    <2>2. b # None /\ \E o \in LocalDelete(sw, x, b) : sw' = o.st
        BY <1>6, <2>1 DEF RouteDelete
    <2>3. b \in Bundles /\ sw.bundle[b] # None
        BY <1>0, <2>1, <2>2 DEF Good, Joined
    <2>4. PICK o \in LocalDelete(sw, x, b) : sw' = o.st
        BY <2>2
    <2>5. Good(o.st) /\ Within(sw, o.st, b) /\ o.st.bundle[b].rif = sw.bundle[b].rif
        BY <2>3, <2>4, LocalDeleteIsGood
    <2> QED
        BY <2>4, <2>5, WithinKeeps
<1>7. CASE UNCHANGED sw
    BY <1>7 DEF Kept
<1> QED
    BY <1>1, <1>2, <1>3, <1>4, <1>5, <1>6, <1>7 DEF Next

LEMMA AlwaysGood == Spec => []Good(sw)
<1>1. Init => Good(sw)
    BY InitIsGood
<1>2. Good(sw) /\ [Next]_sw => Good(sw)'
    BY NextIsGood
<1> QED
    BY <1>1, <1>2, PTL DEF Spec

-----------------------------------------------------------------------------
(* The theorems.                                                           *)

\* Every callback leaves bundles, pointers, the vendor's table and the ASIC's
\* tables of the shape the code declares.
THEOREM TypeCorrect == Spec => []TypeOK
<1>1. Good(sw) => TypeOK
    BY DEF Good, TypeOK
<1> QED
    BY <1>1, AlwaysGood, PTL

\* The assertions of the vendor class that a bundle's rif is in all_router_intf
\* never fail, whichever SDK calls failed before, and two bundles never have the
\* same rif.
THEOREM RifsKnown == Spec => []RifKnown
<1>1. Good(sw) => RifKnown
    BY DEF Good, RifKnown, Routed, RoutedOf, Agreed, Unshared
<1> QED
    BY <1>1, AlwaysGood, PTL

\* No route of the ASIC leaves through a rif that was deleted.
THEOREM RoutesAlive == Spec => []NoRouteThroughDeadRif
<1>1. Good(sw) => NoRouteThroughDeadRif
    BY DEF Good, NoRouteThroughDeadRif, Routed, RoutedOf, Tracked
<1> QED
    BY <1>1, AlwaysGood, PTL

\* The admin state bundle_set compares with is the one in the ASIC.
THEOREM AdminStateTrue == Spec => []AdminStateCached
<1>1. Good(sw) => AdminStateCached
    BY DEF Good, AdminStateCached, Routed, RoutedOf, Administered
<1> QED
    BY <1>1, AlwaysGood, PTL

\* As long as a bundle has a rif, __get_stats of the port the rif was made for asks
\* for that rif or for none, also when the port is in no bundle or in another one.
\* (Once the bundle is freed nothing is said: see NoStatisticsOfFreed.)
THEOREM StatisticsOwn == Spec => []StatisticsOfOwnRif
<1>1. Good(sw) => StatisticsOfOwnRif
    <2> SUFFICES ASSUME Good(sw), NEW b \in Routed, NEW p \in Ports, MadeFor(b, p)
                 PROVE  StatsOf(sw, p) \in {sw.bundle[b].rif, None}
        BY DEF StatisticsOfOwnRif
    <2>1. sw.ptr[p] \in {b, None} /\ b \in Bundles
        BY DEF Good, Pointing, MadeFor, Routed, RoutedOf
    <2> QED
        BY <2>1, NoneFacts DEF StatsOf
<1> QED
    BY <1>1, AlwaysGood, PTL

\* Setting a bundle again while its port stays in it keeps its rif, and so the
\* routes through it: no callback, for this bundle or another one, re-creates it.
THEOREM RifsStable == Spec => RifStable
<1>1. Good(sw) /\ [Next]_sw
        => [\A b \in Routed : \A p \in PortsOf(sw, b) :
                MadeFor(b, p) /\ sw'.bundleOf[p] = b
                    => sw'.bundle[b].rif = sw.bundle[b].rif]_sw
    <2> SUFFICES ASSUME Good(sw), [Next]_sw, NEW b \in Routed, NEW p \in PortsOf(sw, b),
                        MadeFor(b, p), sw'.bundleOf[p] = b
                 PROVE  sw'.bundle[b].rif = sw.bundle[b].rif
        OBVIOUS
    <2>1. Kept(sw, sw')
        BY NextIsGood
    <2> QED
        BY <2>1 DEF Kept, Routed, RoutedOf, PortsOf, MadeFor
<1> QED
    BY <1>1, AlwaysGood, PTL DEF Spec, RifStable

=============================================================================
