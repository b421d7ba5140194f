-------------------------- MODULE VlanBundleProofs --------------------------
(* Proofs about VlanBundle for any ports, bundles, VLANs and settings.     *)
EXTENDS VlanBundle, WellFoundedInduction, TLAPS

-----------------------------------------------------------------------------
(* Operators of VlanPort.                                                  *)

\* The last VLAN of a walk over a non-empty trunk bitmap is one of its VLANs.
LEMMA MaxIsMember ==
    ASSUME NEW T \in SUBSET Vids, T # {}
    PROVE  Max(T) \in T
<1> DEFINE Bounds == {n \in Nat : \A v \in T : v <= n}
           Less == OpToRel(<, Nat)
<1>1. T \subseteq 1..4094
    BY VidsAssumption
<1>2. 4094 \in Bounds
    BY <1>1
<1>3. PICK m \in Bounds : \A n \in Bounds : <<n, m>> \notin Less
    <2>1. Bounds \subseteq Nat /\ Bounds # {}
        BY <1>2
    <2> QED
        BY <2>1, WFMin, NatLessThanWellFounded
<1>4. \A n \in Bounds : ~(n < m)
    BY <1>3 DEF OpToRel
<1>5. m \in T
    <2>1. SUFFICES ASSUME m \notin T PROVE FALSE
        OBVIOUS
    <2>2. m >= 1
        <3>1. PICK v \in T : TRUE
            OBVIOUS
        <3>2. v \in Nat /\ v >= 1 /\ v <= m
            BY <1>1
        <3> QED
            BY <3>2
    <2>3. m - 1 \in Bounds
        <3>1. \A v \in T : v \in Nat /\ v <= m /\ v # m
            BY <1>1, <2>1
        <3> QED
            BY <2>2, <3>1
    <2> QED
        BY <2>3, <1>4
<1>6. m \in T /\ \A v \in T : m >= v
    BY <1>1, <1>5
<1> QED
    BY <1>6 DEF Max

LEMMA DefaultPvidType == DefaultPvid \in Vids
BY VidsAssumption DEF DefaultPvid

\* Each operation yields a port state and moves exactly the VLANs it names.
LEMMA AccessPortAddFacts ==
    ASSUME NEW h \in HwPort, NEW v \in Vids
    PROVE  /\ AccessPortAdd(h, v) \in HwPort
           /\ Members(AccessPortAdd(h, v)) = Members(h) \cup {v}
           /\ AccessPortAddFails(h, v) \subseteq HwPort
BY DEF AccessPortAdd, AccessPortAddFails, HwPort, Tags, Members

LEMMA AccessPortDelFacts ==
    ASSUME NEW h \in HwPort, NEW v \in Vids
    PROVE  /\ AccessPortDel(h, v) \in HwPort
           /\ Members(AccessPortDel(h, v)) = Members(h) \ {v}
           /\ AccessPortDelFails(h, v) \subseteq HwPort
BY DefaultPvidType DEF AccessPortDel, AccessPortDelFails, HwPort, Tags, Members

LEMMA TrunksPortAddFacts ==
    ASSUME NEW h \in HwPort, NEW T \in SUBSET Vids
    PROVE  /\ TrunksPortAdd(h, T) \in HwPort
           /\ Members(TrunksPortAdd(h, T)) = Members(h) \cup T
           /\ TrunksPortAdd(h, T).pvid = h.pvid
           /\ TrunksPortAddFails(h, T) \subseteq HwPort
<1>1. \A U \in SUBSET Vids : TrunksPortAdd(h, U) \in HwPort
    BY DEF TrunksPortAdd, HwPort, Tags
<1>2. Members(TrunksPortAdd(h, T)) = Members(h) \cup T
    BY DEF TrunksPortAdd, HwPort, Tags, Members
<1>3. TrunksPortAdd(h, T).pvid = h.pvid
    BY DEF TrunksPortAdd, HwPort
<1>4. \A x \in T : Below(T, x) \in SUBSET Vids
    BY DEF Below
<1>5. TrunksPortAddFails(h, T) \subseteq HwPort
    BY <1>1, <1>4 DEF TrunksPortAddFails
<1> QED
    BY <1>1, <1>2, <1>3, <1>5

LEMMA TrunksPortDelFacts ==
    ASSUME NEW h \in HwPort, NEW T \in SUBSET Vids
    PROVE  /\ TrunksPortDel(h, T) \in HwPort
           /\ Members(TrunksPortDel(h, T)) = Members(h) \ T
           /\ TrunksPortDelFails(h, T) \subseteq HwPort
<1>1. ASSUME NEW U \in SUBSET Vids
      PROVE  TrunksPortDel(h, U) \in HwPort
    <2>1. (IF U = {} THEN h.pvid ELSE Max(U)) \in Vids
        BY MaxIsMember DEF HwPort
    <2>2. [v \in Vids |-> IF v \in U THEN "none" ELSE h.tag[v]] \in [Vids -> Tags]
        BY DEF HwPort, Tags
    <2> QED
        BY <2>1, <2>2 DEF TrunksPortDel, HwPort
<1>2. Members(TrunksPortDel(h, T)) = Members(h) \ T
    BY DEF TrunksPortDel, Members
<1>3. ASSUME NEW x \in T
      PROVE  /\ TrunksPortDel(h, Below(T, x)) \in HwPort
             /\ [TrunksPortDel(h, Below(T, x)) EXCEPT !.tag[x] = "none"] \in HwPort
    <2>1. Below(T, x) \in SUBSET Vids
        BY DEF Below
    <2>2. TrunksPortDel(h, Below(T, x)) \in HwPort
        BY <1>1, <2>1
    <2>3. \A g \in HwPort : [g EXCEPT !.tag[x] = "none"] \in HwPort
        BY DEF HwPort, Tags
    <2> QED
        BY <2>2, <2>3
<1>4. TrunksPortDelFails(h, T) \subseteq HwPort
    <2> SUFFICES ASSUME NEW f \in TrunksPortDelFails(h, T)
                 PROVE  f \in HwPort
        OBVIOUS
    <2>1. PICK x \in T :
            f \in {TrunksPortDel(h, Below(T, x)),
                  [TrunksPortDel(h, Below(T, x)) EXCEPT !.tag[x] = "none"]}
        BY Zenon DEF TrunksPortDelFails
    <2>2. \/ f = TrunksPortDel(h, Below(T, x))
          \/ f = [TrunksPortDel(h, Below(T, x)) EXCEPT !.tag[x] = "none"]
        BY <2>1, Zenon
    <2> QED
        BY <1>3, <2>2, Zenon
<1> QED
    BY <1>1, <1>2, <1>4

LEMMA NativeTaggedFacts ==
    ASSUME NEW h \in HwPort, NEW v \in Vids
    PROVE  /\ NativeTaggedSet(h, v) \in HwPort
           /\ Members(NativeTaggedSet(h, v)) = Members(h) \cup {v}
           /\ NativeTaggedSetFails(h, v) \subseteq HwPort
           /\ NativeTaggedUnset(h, v) \in HwPort
           /\ Members(NativeTaggedUnset(h, v)) = Members(h) \ {v}
           /\ NativeTaggedUnsetFails(h, v) \subseteq HwPort
<1> DEFINE a == TrunksPortAdd(h, {v})
           d == TrunksPortDel(h, {v})
<1>1. a \in HwPort /\ Members(a) = Members(h) \cup {v}
    BY TrunksPortAddFacts
<1>2. /\ d \in HwPort /\ Members(d) = Members(h) \ {v}
      /\ TrunksPortDelFails(h, {v}) \subseteq HwPort
    BY TrunksPortDelFacts
<1>3. \A g \in HwPort, q \in Vids :
        [g EXCEPT !.pvid = q] \in HwPort /\ Members([g EXCEPT !.pvid = q]) = Members(g)
    BY DEF HwPort, Members
<1> HIDE DEF a, d
<1>4. [a EXCEPT !.pvid = v] \in HwPort /\ Members([a EXCEPT !.pvid = v]) = Members(h) \cup {v}
    BY <1>1, <1>3
<1>5. /\ [d EXCEPT !.pvid = DefaultPvid] \in HwPort
      /\ Members([d EXCEPT !.pvid = DefaultPvid]) = Members(h) \ {v}
    BY <1>2, <1>3, DefaultPvidType
<1>6. NativeTaggedSetFails(h, v) \subseteq HwPort
    BY <1>1 DEF NativeTaggedSetFails, a
<1>7. NativeTaggedUnsetFails(h, v) \subseteq HwPort
    BY <1>2 DEF NativeTaggedUnsetFails, d
<1> QED
    BY <1>4, <1>5, <1>6, <1>7 DEF NativeTaggedSet, NativeTaggedUnset, a, d

-----------------------------------------------------------------------------
(* Operators of VlanBundle.                                                *)

\* The fields of coherent settings.
LEMMA SettingsFacts ==
    ASSUME NEW c \in CoherentSettings
    PROVE  /\ c.trunks \in SUBSET Vids
           /\ c.mode \in {"access", "trunk", "native_untagged", "native_tagged"}
           /\ c.mode = "trunk" => c.vlan = NoVlan
           /\ c.mode # "trunk" => c.vlan \in Vids /\ c.vlan # NoVlan
           /\ c.mode = "access" => c.trunks = {}
BY VidsAssumption DEF CoherentSettings, NoVlan

LEMMA NoVlanIsNoVid == NoVlan \notin Vids
BY VidsAssumption DEF NoVlan

\* A port gains exactly the wanted VLANs, and loses them again.
LEMMA PortAddFacts ==
    ASSUME NEW h \in HwPort, NEW c \in CoherentSettings
    PROVE  /\ PortAdd(h, c) \in HwPort
           /\ Members(PortAdd(h, c)) = Members(h) \cup Wanted(c)
           /\ PortAddFails(h, c) \subseteq HwPort
<1>1. CASE c.vlan = NoVlan
    BY <1>1, SettingsFacts, TrunksPortAddFacts DEF PortAdd, PortAddFails, Wanted
<1>2. CASE c.vlan # NoVlan
    <2>1. c.vlan \in Vids /\ c.trunks \in SUBSET Vids
        BY <1>2, SettingsFacts
    <2> DEFINE a == AccessPortAdd(h, c.vlan)
    <2>2. /\ a \in HwPort /\ Members(a) = Members(h) \cup {c.vlan}
          /\ AccessPortAddFails(h, c.vlan) \subseteq HwPort
        BY <2>1, AccessPortAddFacts
    <2> HIDE DEF a
    <2>3. /\ TrunksPortAdd(a, c.trunks) \in HwPort
          /\ Members(TrunksPortAdd(a, c.trunks)) = Members(a) \cup c.trunks
          /\ TrunksPortAddFails(a, c.trunks) \subseteq HwPort
        BY <2>1, <2>2, TrunksPortAddFacts
    <2> QED
        BY <1>2, <2>2, <2>3 DEF PortAdd, PortAddFails, Wanted, a
<1> QED
    BY <1>1, <1>2

LEMMA PortDelFacts ==
    ASSUME NEW h \in HwPort, NEW c \in CoherentSettings
    PROVE  /\ PortDel(h, c) \in HwPort
           /\ Members(PortDel(h, c)) = Members(h) \ Wanted(c)
           /\ PortDelFails(h, c) \subseteq HwPort
<1>1. CASE c.vlan = NoVlan
    BY <1>1, SettingsFacts, TrunksPortDelFacts DEF PortDel, PortDelFails, Wanted
<1>2. CASE c.vlan # NoVlan
    <2>1. c.vlan \in Vids /\ c.trunks \in SUBSET Vids
        BY <1>2, SettingsFacts
    <2> DEFINE d == AccessPortDel(h, c.vlan)
    <2>2. /\ d \in HwPort /\ Members(d) = Members(h) \ {c.vlan}
          /\ AccessPortDelFails(h, c.vlan) \subseteq HwPort
        BY <2>1, AccessPortDelFacts
    <2> HIDE DEF d
    <2>3. /\ TrunksPortDel(d, c.trunks) \in HwPort
          /\ Members(TrunksPortDel(d, c.trunks)) = Members(d) \ c.trunks
          /\ TrunksPortDelFails(d, c.trunks) \subseteq HwPort
        BY <2>1, <2>2, TrunksPortDelFacts
    <2> QED
        BY <1>2, <2>2, <2>3 DEF PortDel, PortDelFails, Wanted, d
<1> QED
    BY <1>1, <1>2

LEMMA LeaveVlanFacts ==
    ASSUME NEW h \in HwPort, NEW c \in CoherentSettings, NEW s \in CoherentSettings
    PROVE  /\ LeaveVlan(h, c, s) \in HwPort
           /\ Members(LeaveVlan(h, c, s)) =
                IF c.mode = "trunk" \/ ~VlanChanged(c, s) THEN Members(h)
                ELSE Members(h) \ {c.vlan}
           /\ LeaveVlanFails(h, c, s) \subseteq HwPort
<1>1. CASE c.mode = "trunk" \/ ~VlanChanged(c, s)
    BY <1>1 DEF LeaveVlan, LeaveVlanFails
<1>2. CASE c.mode = "native_tagged" /\ VlanChanged(c, s)
    BY <1>2, SettingsFacts, NativeTaggedFacts DEF LeaveVlan, LeaveVlanFails
<1>3. CASE c.mode \notin {"trunk", "native_tagged"} /\ VlanChanged(c, s)
    BY <1>3, SettingsFacts, AccessPortDelFacts DEF LeaveVlan, LeaveVlanFails
<1> QED
    BY <1>1, <1>2, <1>3

LEMMA JoinVlanFacts ==
    ASSUME NEW h \in HwPort, NEW c \in CoherentSettings, NEW s \in CoherentSettings
    PROVE  /\ JoinVlan(h, c, s) \in HwPort
           /\ Members(JoinVlan(h, c, s)) =
                IF s.mode = "trunk" \/ ~VlanChanged(c, s) THEN Members(h)
                ELSE Members(h) \cup {s.vlan}
           /\ JoinVlanFails(h, c, s) \subseteq HwPort
<1>1. CASE s.mode = "trunk" \/ ~VlanChanged(c, s)
    BY <1>1 DEF JoinVlan, JoinVlanFails
<1>2. CASE s.mode = "native_tagged" /\ VlanChanged(c, s)
    BY <1>2, SettingsFacts, NativeTaggedFacts DEF JoinVlan, JoinVlanFails
<1>3. CASE s.mode \notin {"trunk", "native_tagged"} /\ VlanChanged(c, s)
    BY <1>3, SettingsFacts, AccessPortAddFacts DEF JoinVlan, JoinVlanFails
<1> QED
    BY <1>1, <1>2, <1>3

LEMMA BitmapFacts ==
    ASSUME NEW c \in CoherentSettings, NEW s \in CoherentSettings
    PROVE  /\ RemovedTrunks(c, s) \in SUBSET Vids
           /\ AddedTrunks(c, s) \in SUBSET Vids
BY SettingsFacts DEF RemovedTrunks, AddedTrunks

\* What the delete phase takes from a port's VLANs.
Deleted(c, s) ==
    (IF c.mode = "trunk" \/ ~VlanChanged(c, s) THEN {} ELSE {c.vlan})
    \cup (IF c.mode = "access" THEN {} ELSE RemovedTrunks(c, s))

\* What the add phase gives.
Added(c, s) ==
    (IF s.mode = "trunk" \/ ~VlanChanged(c, s) THEN {} ELSE {s.vlan})
    \cup (IF s.mode = "access" THEN {} ELSE AddedTrunks(c, s))

LEMMA DeletePhaseFacts ==
    ASSUME NEW h \in HwPort, NEW c \in CoherentSettings, NEW s \in CoherentSettings
    PROVE  /\ DeletePhase(h, c, s) \in HwPort
           /\ Members(DeletePhase(h, c, s)) = Members(h) \ Deleted(c, s)
           /\ DeletePhaseFails(h, c, s) \subseteq HwPort
<1> DEFINE a == LeaveVlan(h, c, s)
           T == RemovedTrunks(c, s)
<1>1. /\ a \in HwPort
      /\ Members(a) = Members(h) \
            (IF c.mode = "trunk" \/ ~VlanChanged(c, s) THEN {} ELSE {c.vlan})
      /\ LeaveVlanFails(h, c, s) \subseteq HwPort
    BY LeaveVlanFacts
<1>2. T \in SUBSET Vids
    BY BitmapFacts
<1> HIDE DEF a, T
<1>3. /\ TrunksPortDel(a, T) \in HwPort
      /\ Members(TrunksPortDel(a, T)) = Members(a) \ T
      /\ TrunksPortDelFails(a, T) \subseteq HwPort
    BY <1>1, <1>2, TrunksPortDelFacts
<1> QED
    BY <1>1, <1>3 DEF DeletePhase, DeletePhaseFails, Deleted, a, T

LEMMA AddPhaseFacts ==
    ASSUME NEW h \in HwPort, NEW c \in CoherentSettings, NEW s \in CoherentSettings
    PROVE  /\ AddPhase(h, c, s) \in HwPort
           /\ Members(AddPhase(h, c, s)) = Members(h) \cup Added(c, s)
           /\ AddPhaseFails(h, c, s) \subseteq HwPort
<1> DEFINE a == JoinVlan(h, c, s)
           T == AddedTrunks(c, s)
<1>1. /\ a \in HwPort
      /\ Members(a) = Members(h) \cup
            (IF s.mode = "trunk" \/ ~VlanChanged(c, s) THEN {} ELSE {s.vlan})
      /\ JoinVlanFails(h, c, s) \subseteq HwPort
    BY JoinVlanFacts
<1>2. T \in SUBSET Vids
    BY BitmapFacts
<1> HIDE DEF a, T
<1>3. /\ TrunksPortAdd(a, T) \in HwPort
      /\ Members(TrunksPortAdd(a, T)) = Members(a) \cup T
      /\ TrunksPortAddFails(a, T) \subseteq HwPort
    BY <1>1, <1>2, TrunksPortAddFacts
<1> QED
    BY <1>1, <1>3 DEF AddPhase, AddPhaseFails, Added, a, T

\* The bitmap arithmetic of __vlan_reconfigure is exact: what is wanted
\* under the old settings, less what is deleted, plus what is added, is what
\* is wanted under the new settings, for every pair of modes.
LEMMA ReconfigurationIsExact ==
    ASSUME NEW c \in CoherentSettings, NEW s \in CoherentSettings
    PROVE  (Wanted(c) \ Deleted(c, s)) \cup Added(c, s) = Wanted(s)
<1> USE SettingsFacts DEF Wanted, Deleted, Added, RemovedTrunks, AddedTrunks,
                          NativeVid, Native, VlanChanged
<1>1. CASE c.mode = "access"
    BY <1>1
<1>2. CASE c.mode = "trunk"
    BY <1>2
<1>3. CASE Native(c)
    <2>1. CASE VlanChanged(c, s)
        BY <1>3, <2>1
    <2>2. CASE ~VlanChanged(c, s)
        BY <1>3, <2>2
    <2> QED
        BY <2>1, <2>2
<1> QED
    BY <1>1, <1>2, <1>3

LEMMA ReconfiguredFacts ==
    ASSUME NEW h \in HwPort, NEW c \in CoherentSettings, NEW s \in CoherentSettings
    PROVE  /\ Reconfigured(h, c, s) \in HwPort
           /\ Members(h) = Wanted(c) => Members(Reconfigured(h, c, s)) = Wanted(s)
           /\ AddPhaseFails(DeletePhase(h, c, s), c, s) \subseteq HwPort
<1> DEFINE d == DeletePhase(h, c, s)
<1>1. d \in HwPort /\ Members(d) = Members(h) \ Deleted(c, s)
    BY DeletePhaseFacts
<1> HIDE DEF d
<1>2. /\ AddPhase(d, c, s) \in HwPort
      /\ Members(AddPhase(d, c, s)) = Members(d) \cup Added(c, s)
      /\ AddPhaseFails(d, c, s) \subseteq HwPort
    BY <1>1, AddPhaseFacts
<1>3. Members(h) = Wanted(c) => Members(AddPhase(d, c, s)) = Wanted(s)
    BY <1>1, <1>2, ReconfigurationIsExact
<1> QED
    BY <1>2, <1>3 DEF Reconfigured, d

-----------------------------------------------------------------------------
(* The inductive invariant.  MembershipMatchesConfig needs NoDanglingBundle *)
(* (the settings of a port's bundle exist) and TypeOK (they are coherent).  *)

IInv == TypeOK /\ NoDanglingBundle /\ MembershipMatchesConfig

\* The settings of the bundle a port is in.
LEMMA OwnerFacts ==
    ASSUME TypeOK, NoDanglingBundle, NEW p \in Ports, bundleOf[p] # NoBundle
    PROVE  /\ bundleOf[p] \in Bundles
           /\ cfg[bundleOf[p]] \in Settings
           /\ cfg[bundleOf[p]] \in CoherentSettings
BY SettingsAssumption DEF TypeOK, NoDanglingBundle, Created

\* What the loops that only log errors leave behind.
LEMMA LossesFacts ==
    ASSUME TypeOK, NoDanglingBundle,
           NEW S \in SUBSET Ports, \A p \in S : bundleOf[p] # NoBundle,
           NEW lost \in Losses(S)
    PROVE  /\ DOMAIN lost \subseteq S
           /\ \A p \in DOMAIN lost : lost[p] \in HwPort
<1>1. PICK L \in SUBSET (S \cap Fallible) :
        lost \in {f \in [L -> UNION {PortDelFails(hw[p], cfg[bundleOf[p]]) : p \in L}] :
                    \A p \in L : f[p] \in PortDelFails(hw[p], cfg[bundleOf[p]])}
    BY DEF Losses
<1>2. DOMAIN lost = L /\ \A p \in L : lost[p] \in PortDelFails(hw[p], cfg[bundleOf[p]])
    BY <1>1
<1>3. \A p \in L : PortDelFails(hw[p], cfg[bundleOf[p]]) \subseteq HwPort
    BY PortDelFacts, OwnerFacts DEF TypeOK
<1> QED
    BY <1>2, <1>3

LEMMA RemovedFacts ==
    ASSUME IInv, NEW S \in SUBSET Ports, \A p \in S : bundleOf[p] # NoBundle,
           NEW lost \in Losses(S), NEW p \in S
    PROVE  /\ Removed(p, lost) \in HwPort
           /\ p \notin faulted \cup DOMAIN lost => Members(Removed(p, lost)) = {}
<1>1. CASE p \in DOMAIN lost
    BY <1>1, LossesFacts DEF Removed, IInv
<1>2. CASE p \notin DOMAIN lost
    <2>1. hw[p] \in HwPort /\ cfg[bundleOf[p]] \in CoherentSettings
        BY OwnerFacts DEF IInv, TypeOK
    <2>2. /\ PortDel(hw[p], cfg[bundleOf[p]]) \in HwPort
          /\ Members(PortDel(hw[p], cfg[bundleOf[p]]))
                = Members(hw[p]) \ Wanted(cfg[bundleOf[p]])
        BY <2>1, PortDelFacts
    <2>3. p \notin faulted => Members(hw[p]) = Wanted(cfg[bundleOf[p]])
        BY DEF IInv, MembershipMatchesConfig, WantedBy
    <2> QED
        BY <1>2, <2>2, <2>3 DEF Removed
<1> QED
    BY <1>1, <1>2

LEMMA InitIInv == Init => IInv
<1> SUFFICES ASSUME Init PROVE IInv
    OBVIOUS
<1>1. CleanPort \in HwPort /\ Members(CleanPort) = {}
    BY DefaultPvidType DEF CleanPort, HwPort, Tags, Members
<1>2. TypeOK
    BY <1>1 DEF Init, TypeOK
<1>3. NoDanglingBundle /\ MembershipMatchesConfig
    BY <1>1 DEF Init, NoDanglingBundle, MembershipMatchesConfig, WantedBy
<1> QED
    BY <1>2, <1>3 DEF IInv

\* One port's share of the invariant; the invariant is this for every port
\* and the types of cfg and faulted.
PortInv(p) ==
    /\ hw[p] \in HwPort
    /\ bundleOf[p] \in Created \cup {NoBundle}
    /\ p \notin faulted => Members(hw[p]) = WantedBy(p)

LEMMA IInvFromPorts ==
    ASSUME cfg' \in [Bundles -> Settings \cup {NoCfg}],
           bundleOf' = [p \in Ports |-> bundleOf'[p]],
           hw' = [p \in Ports |-> hw'[p]],
           faulted' \subseteq Ports,
           \A p \in Ports : PortInv(p)'
    PROVE  IInv'
<1>1. TypeOK'
    BY DEF TypeOK, PortInv, Created
<1>2. NoDanglingBundle' /\ MembershipMatchesConfig'
    BY DEF NoDanglingBundle, MembershipMatchesConfig, PortInv
<1> QED
    BY <1>1, <1>2 DEF IInv

\* A port the step leaves alone, in a bundle whose settings it leaves alone.
LEMMA UntouchedPort ==
    ASSUME IInv, NEW p \in Ports,
           hw'[p] = hw[p], bundleOf'[p] = bundleOf[p],
           bundleOf[p] # NoBundle => cfg'[bundleOf[p]] = cfg[bundleOf[p]],
           faulted \subseteq faulted'
    PROVE  PortInv(p)'
BY DEF IInv, TypeOK, NoDanglingBundle, MembershipMatchesConfig, PortInv, Created, WantedBy

\* A port the step takes off its bundle.
LEMMA FreedPort ==
    ASSUME NEW p \in Ports, hw'[p] \in HwPort, bundleOf'[p] = NoBundle,
           p \notin faulted' => Members(hw'[p]) = {}
    PROVE  PortInv(p)'
<1>1. Members(hw[p])' = Members(hw'[p])
    BY DEF Members
<1> QED
    BY <1>1 DEF PortInv, WantedBy

\* A port the step puts into, or leaves in, a bundle with settings s.
LEMMA OwnedPort ==
    ASSUME NEW p \in Ports, NEW b \in Bundles, NEW s \in Settings,
           hw'[p] \in HwPort, bundleOf'[p] = b, cfg'[b] = s,
           p \notin faulted' => Members(hw'[p]) = Wanted(s)
    PROVE  PortInv(p)'
<1>1. Members(hw[p])' = Members(hw'[p])
    BY DEF Members
<1>2. s # NoCfg /\ b # NoBundle
    BY SettingsAssumption
<1> QED
    BY <1>1, <1>2 DEF PortInv, WantedBy, Created, Wanted

LEMMA BundleUnsetIInv ==
    ASSUME IInv, NEW b \in Bundles, BundleUnset(b)
    PROVE  IInv'
<1>1. b # NoBundle
    BY SettingsAssumption
<1>2. PICK lost \in Losses(PortsOf(b)) :
        /\ hw' = [p \in Ports |->
                    IF bundleOf[p] = b THEN Removed(p, lost) ELSE hw[p]]
        /\ faulted' = faulted \cup DOMAIN lost
    BY DEF BundleUnset
<1>3. PortsOf(b) \in SUBSET Ports /\ \A p \in PortsOf(b) : bundleOf[p] # NoBundle
    BY <1>1 DEF PortsOf
<1>4. DOMAIN lost \subseteq PortsOf(b)
    BY <1>3, LossesFacts DEF IInv
<1>5. ASSUME NEW p \in Ports
      PROVE  PortInv(p)'
    <2>1. CASE bundleOf[p] = b
        <3>1. p \in PortsOf(b)
            BY <2>1 DEF PortsOf
        <3>2. hw'[p] = Removed(p, lost) /\ bundleOf'[p] = NoBundle
            BY <1>2, <2>1 DEF BundleUnset
        <3> QED
            BY <1>2, <1>3, <3>1, <3>2, RemovedFacts, FreedPort
    <2>2. CASE bundleOf[p] # b
        BY <1>2, <2>2, UntouchedPort DEF BundleUnset, IInv, TypeOK
    <2> QED
        BY <2>1, <2>2
<1>6. /\ cfg' \in [Bundles -> Settings \cup {NoCfg}]
      /\ bundleOf' = [p \in Ports |-> bundleOf'[p]]
      /\ hw' = [p \in Ports |-> hw'[p]]
      /\ faulted' \subseteq Ports
    BY <1>2, <1>3, <1>4 DEF BundleUnset, IInv, TypeOK
<1> QED
    BY <1>5, <1>6, IInvFromPorts

LEMMA BundleRemoveIInv ==
    ASSUME IInv, NEW q \in Ports, BundleRemove(q)
    PROVE  IInv'
<1>1. bundleOf[q] # NoBundle
    BY DEF BundleRemove
<1>2. PICK lost \in Losses({q}) :
        /\ hw' = [hw EXCEPT ![q] = Removed(q, lost)]
        /\ faulted' = faulted \cup DOMAIN lost
    BY DEF BundleRemove
<1>3. DOMAIN lost \subseteq {q}
    BY <1>1, LossesFacts DEF IInv
<1>4. Removed(q, lost) \in HwPort
      /\ (q \notin faulted \cup DOMAIN lost => Members(Removed(q, lost)) = {})
    BY <1>1, RemovedFacts
<1>5. ASSUME NEW p \in Ports
      PROVE  PortInv(p)'
    <2>1. CASE p = q
        BY <1>2, <1>4, <2>1, FreedPort DEF BundleRemove, IInv, TypeOK
    <2>2. CASE p # q
        <3>1. hw'[p] = hw[p] /\ bundleOf'[p] = bundleOf[p]
            BY <1>2, <2>2 DEF BundleRemove, IInv, TypeOK
        <3>2. bundleOf[p] # NoBundle => cfg'[bundleOf[p]] = cfg[bundleOf[p]]
            BY <2>2, OwnerFacts DEF BundleRemove, IInv, Emptied, PortsOf
        <3> QED
            BY <1>2, <3>1, <3>2, UntouchedPort
    <2> QED
        BY <2>1, <2>2
<1>6. /\ cfg' \in [Bundles -> Settings \cup {NoCfg}]
      /\ bundleOf' = [p \in Ports |-> bundleOf'[p]]
      /\ hw' = [p \in Ports |-> hw'[p]]
      /\ faulted' \subseteq Ports
    BY <1>2, <1>3 DEF BundleRemove, IInv, TypeOK
<1> QED
    BY <1>5, <1>6, IInvFromPorts

LEMMA SetFailsReleasingIInv ==
    ASSUME IInv, NEW b \in Bundles, NEW S \in SUBSET Ports, SetFailsReleasing(b, S)
    PROVE  IInv'
<1>0. PICK x \in Leaving(b, S) \cap Fallible :
        \E D \in SUBSET (Leaving(b, S) \ {x}), g \in PortDelFails(hw[x], cfg[b]) :
            /\ hw' = [p \in Ports |-> CASE p \in D -> PortDel(hw[p], cfg[b])
                                        [] p = x   -> g
                                        [] OTHER   -> hw[p]]
            /\ bundleOf' = [p \in Ports |->
                                IF p \in D \cup {x} THEN NoBundle ELSE bundleOf[p]]
            /\ faulted' = faulted \cup {x}
            /\ cfg' = cfg
    BY DEF SetFailsReleasing
<1>1. PICK D \in SUBSET (Leaving(b, S) \ {x}), g \in PortDelFails(hw[x], cfg[b]) :
        /\ hw' = [p \in Ports |-> CASE p \in D -> PortDel(hw[p], cfg[b])
                                    [] p = x   -> g
                                    [] OTHER   -> hw[p]]
        /\ bundleOf' = [p \in Ports |->
                            IF p \in D \cup {x} THEN NoBundle ELSE bundleOf[p]]
        /\ faulted' = faulted \cup {x}
        /\ cfg' = cfg
    BY <1>0
<1>2. Leaving(b, S) \subseteq Ports /\ \A p \in Leaving(b, S) : bundleOf[p] = b
    BY DEF Leaving, PortsOf
<1>3. b # NoBundle
    BY SettingsAssumption
<1>4. cfg[b] \in CoherentSettings
    BY <1>1, <1>2, <1>3, OwnerFacts DEF IInv
<1>5. ASSUME NEW p \in Ports
      PROVE  PortInv(p)'
    <2>1. CASE p \in D
        <3>1. hw[p] \in HwPort /\ (p \notin faulted => Members(hw[p]) = Wanted(cfg[b]))
            BY <1>2, <1>3, <2>1
               DEF IInv, TypeOK, MembershipMatchesConfig, WantedBy
        <3>2. hw'[p] = PortDel(hw[p], cfg[b]) /\ bundleOf'[p] = NoBundle
            BY <1>1, <2>1
        <3> QED
            BY <1>1, <1>4, <3>1, <3>2, PortDelFacts, FreedPort
    <2>2. CASE p = x
        <3>1. g \in HwPort
            BY <1>1, <1>4, <2>2, PortDelFacts DEF IInv, TypeOK
        <3> QED
            BY <1>1, <2>2, <3>1, FreedPort
    <2>3. CASE p \notin D \cup {x}
        BY <1>1, <2>3, UntouchedPort DEF IInv
    <2> QED
        BY <2>1, <2>2, <2>3
<1>6. /\ cfg' \in [Bundles -> Settings \cup {NoCfg}]
      /\ bundleOf' = [p \in Ports |-> bundleOf'[p]]
      /\ hw' = [p \in Ports |-> hw'[p]]
      /\ faulted' \subseteq Ports
    BY <1>1, <1>2 DEF IInv, TypeOK
<1> QED
    BY <1>5, <1>6, IInvFromPorts

LEMMA SetFailsReconfiguringIInv ==
    ASSUME IInv, NEW b \in Bundles, NEW s \in Settings, NEW S \in SUBSET Ports,
           SetFailsReconfiguring(b, s, S)
    PROVE  IInv'
<1> DEFINE c == cfg[b]
<1>1. PICK x \in Staying(b, S) \cap Fallible, D \in SUBSET Staying(b, S) :
        /\ \/ \E g \in DeletePhaseFails(hw[x], c, s) :
                hw' = [p \in Ports |->
                        CASE p \in Leaving(b, S) -> PortDel(hw[p], c)
                          [] p \in D -> DeletePhase(hw[p], c, s)
                          [] p = x   -> g
                          [] OTHER   -> hw[p]]
           \/ \E g \in AddPhaseFails(DeletePhase(hw[x], c, s), c, s) :
                hw' = [p \in Ports |->
                        CASE p \in Leaving(b, S) -> PortDel(hw[p], c)
                          [] p \in D -> Reconfigured(hw[p], c, s)
                          [] p = x   -> g
                          [] p \in Staying(b, S) \ (D \cup {x})
                                     -> DeletePhase(hw[p], c, s)
                          [] OTHER   -> hw[p]]
        /\ x \notin D
        /\ bundleOf' = [p \in Ports |->
                            IF p \in Leaving(b, S) THEN NoBundle ELSE bundleOf[p]]
        /\ faulted' = faulted \cup Staying(b, S)
        /\ cfg' = cfg
    BY DEF SetFailsReconfiguring
<1>2. /\ Leaving(b, S) \cup Staying(b, S) \subseteq Ports
      /\ \A p \in Leaving(b, S) \cup Staying(b, S) : bundleOf[p] = b
      /\ Leaving(b, S) \cap Staying(b, S) = {}
    BY DEF Leaving, Staying, PortsOf
<1>3. b # NoBundle /\ s \in CoherentSettings
    BY SettingsAssumption
<1>4. c \in CoherentSettings /\ c \in Settings
    BY <1>1, <1>2, <1>3, OwnerFacts DEF IInv
<1> HIDE DEF c
<1>5. \A p \in Ports :
        /\ PortDel(hw[p], c) \in HwPort
        /\ DeletePhase(hw[p], c, s) \in HwPort
        /\ Reconfigured(hw[p], c, s) \in HwPort
        /\ DeletePhaseFails(hw[p], c, s) \subseteq HwPort
        /\ AddPhaseFails(DeletePhase(hw[p], c, s), c, s) \subseteq HwPort
    BY <1>3, <1>4, PortDelFacts, DeletePhaseFacts, ReconfiguredFacts DEF IInv, TypeOK
<1>6. ASSUME NEW p \in Staying(b, S)
      PROVE  hw'[p] \in HwPort
    <2>1. p \in Ports /\ p \notin Leaving(b, S) /\ hw[p] \in HwPort
        BY <1>2 DEF IInv, TypeOK
    <2> QED
        BY <1>1, <1>5, <2>1
<1>7. ASSUME NEW p \in Leaving(b, S)
      PROVE  hw'[p] = PortDel(hw[p], c)
    BY <1>1, <1>2
<1>8. ASSUME NEW p \in Ports \ (Leaving(b, S) \cup Staying(b, S))
      PROVE  hw'[p] = hw[p]
    <2>1. p \notin D /\ p # x
        BY <1>1, <1>2
    <2> QED
        BY <1>1, <2>1
<1>9. ASSUME NEW p \in Ports
      PROVE  PortInv(p)'
    <2>1. CASE p \in Leaving(b, S)
        <3>1. p \notin faulted => Members(hw[p]) = Wanted(c)
            BY <1>2, <1>3, <2>1 DEF IInv, MembershipMatchesConfig, WantedBy, c
        <3>2. Members(PortDel(hw[p], c)) = Members(hw[p]) \ Wanted(c)
            BY <1>4, PortDelFacts DEF IInv, TypeOK
        <3> QED
            BY <1>1, <1>5, <1>7, <2>1, <3>1, <3>2, FreedPort
    <2>2. CASE p \in Staying(b, S)
        <3>1. bundleOf'[p] = b /\ cfg'[b] = c /\ p \in faulted'
            BY <1>1, <1>2, <2>2 DEF c
        <3> QED
            BY <1>4, <1>6, <2>2, <3>1, OwnedPort
    <2>3. CASE p \notin Leaving(b, S) \cup Staying(b, S)
        BY <1>1, <1>8, <2>3, UntouchedPort
    <2> QED
        BY <2>1, <2>2, <2>3
<1>10. hw' = [p \in Ports |-> hw'[p]]
    BY <1>1
<1>11. /\ cfg' \in [Bundles -> Settings \cup {NoCfg}]
       /\ bundleOf' = [p \in Ports |-> bundleOf'[p]]
       /\ faulted' \subseteq Ports
    BY <1>1, <1>2 DEF IInv, TypeOK
<1> QED
    BY <1>9, <1>10, <1>11, IInvFromPorts

LEMMA SetCommitsIInv ==
    ASSUME IInv, NEW b \in Bundles, NEW s \in Settings, NEW S \in SUBSET Ports,
           NEW J \in SUBSET Joining(b, S), NEW lost \in Losses(Owned(J)),
           NEW broken, DOMAIN broken \subseteq J,
           \A p \in DOMAIN broken : broken[p] \in HwPort,
           SetCommits(b, s, S, J, lost, broken)
    PROVE  IInv'
<1>1. /\ J \subseteq Ports /\ Leaving(b, S) \cup Staying(b, S) \subseteq Ports
      /\ \A p \in Leaving(b, S) \cup Staying(b, S) : bundleOf[p] = b
      /\ \A p \in Ports : bundleOf[p] = b => p \in Leaving(b, S) \cup Staying(b, S)
      /\ \A p \in J : bundleOf[p] # b
      /\ Leaving(b, S) \cap Staying(b, S) = {}
    BY DEF Joining, Leaving, Staying, PortsOf
<1>2. b # NoBundle /\ s \in CoherentSettings
    BY SettingsAssumption
<1>3. /\ Owned(J) \in SUBSET Ports
      /\ \A p \in Owned(J) : bundleOf[p] # NoBundle
    BY <1>1 DEF Owned
<1>4. DOMAIN lost \subseteq J
    BY <1>3, LossesFacts DEF Owned, IInv
<1>5. faulted' = faulted \cup DOMAIN lost \cup DOMAIN broken
    BY DEF SetCommits
<1>6. cfg'[b] = s
    BY DEF SetCommits
<1>7. \A p \in Ports : hw[p] \in HwPort
    BY DEF IInv, TypeOK
<1>8. ASSUME NEW p \in Ports
      PROVE  PortInv(p)'
    <2>1. CASE p \in Leaving(b, S)
        <3>1. /\ cfg[b] \in CoherentSettings
              /\ p \notin faulted => Members(hw[p]) = Wanted(cfg[b])
            BY <1>1, <1>2, <2>1, OwnerFacts DEF IInv, MembershipMatchesConfig, WantedBy
        <3>2. hw'[p] = PortDel(hw[p], cfg[b]) /\ bundleOf'[p] = NoBundle
            BY <1>1, <2>1 DEF SetCommits
        <3> QED
            BY <1>5, <1>7, <3>1, <3>2, PortDelFacts, FreedPort
    <2>2. CASE p \in Staying(b, S)
        <3>1. /\ cfg[b] \in CoherentSettings
              /\ p \notin faulted => Members(hw[p]) = Wanted(cfg[b])
            BY <1>1, <1>2, <2>2, OwnerFacts DEF IInv, MembershipMatchesConfig, WantedBy
        <3>2. hw'[p] = Reconfigured(hw[p], cfg[b], s) /\ bundleOf'[p] = b
            BY <1>1, <2>2 DEF SetCommits
        <3> QED
            BY <1>2, <1>5, <1>6, <1>7, <3>1, <3>2, ReconfiguredFacts, OwnedPort
    <2>3. CASE p \in J
        <3>1. /\ p \notin Leaving(b, S) \cup Staying(b, S)
              /\ bundleOf'[p] = b
            BY <1>1, <2>3 DEF SetCommits
        <3>2. CASE p \in DOMAIN broken
            BY <1>5, <1>6, <3>1, <3>2, OwnedPort DEF SetCommits
        <3>3. CASE p \notin DOMAIN broken
            <4>1. hw'[p] = PortAdd(Detached(p, lost), s)
                BY <2>3, <3>1, <3>3 DEF SetCommits
            <4>2. /\ Detached(p, lost) \in HwPort
                  /\ p \notin faulted \cup DOMAIN lost => Members(Detached(p, lost)) = {}
                <5>1. CASE bundleOf[p] = NoBundle
                    BY <1>7, <5>1 DEF Detached, IInv, MembershipMatchesConfig, WantedBy
                <5>2. CASE bundleOf[p] # NoBundle
                    BY <1>3, <2>3, <5>2, RemovedFacts DEF Detached, Owned
                <5> QED
                    BY <5>1, <5>2
            <4>3. hw'[p] \in HwPort
                  /\ Members(hw'[p]) = Members(Detached(p, lost)) \cup Wanted(s)
                BY <1>2, <4>1, <4>2, PortAddFacts
            <4> QED
                BY <1>5, <1>6, <3>1, <4>2, <4>3, OwnedPort
        <3> QED
            BY <3>2, <3>3
    <2>4. CASE p \notin Leaving(b, S) \cup Staying(b, S) \cup J
        <3>1. hw'[p] = hw[p] /\ bundleOf'[p] = bundleOf[p]
            BY <2>4 DEF SetCommits
        <3>2. bundleOf[p] # NoBundle => cfg'[bundleOf[p]] = cfg[bundleOf[p]]
            <4>1. SUFFICES ASSUME bundleOf[p] # NoBundle
                           PROVE  cfg'[bundleOf[p]] = cfg[bundleOf[p]]
                OBVIOUS
            <4>2. bundleOf[p] \in Bundles /\ bundleOf[p] # b
                BY <1>1, <2>4, <4>1, OwnerFacts DEF IInv
            <4>3. ~Emptied(bundleOf[p], J)
                BY <2>4 DEF Emptied, PortsOf
            <4> QED
                BY <4>2, <4>3 DEF SetCommits
        <3> QED
            BY <1>5, <3>1, <3>2, UntouchedPort
    <2> QED
        BY <2>1, <2>2, <2>3, <2>4
<1>9. /\ hw' = [p \in Ports |-> hw'[p]]
      /\ bundleOf' = [p \in Ports |-> bundleOf'[p]]
    BY DEF SetCommits
<1>10. cfg' \in [Bundles -> Settings \cup {NoCfg}]
    BY DEF SetCommits, IInv, TypeOK
<1>11. faulted' \subseteq Ports
    BY <1>1, <1>4, <1>5 DEF IInv, TypeOK
<1> QED
    BY <1>8, <1>9, <1>10, <1>11, IInvFromPorts

LEMMA SetFailsAddingIInv ==
    ASSUME IInv, NEW b \in Bundles, NEW s \in Settings, NEW S \in SUBSET Ports,
           SetFailsAdding(b, s, S)
    PROVE  IInv'
<1>0. PICK x \in Joining(b, S), J \in SUBSET Joining(b, S) :
        /\ x \in J
        /\ \E lost \in Losses(Owned(J)) : \E g \in PortAddFails(Detached(x, lost), s) :
                SetCommits(b, s, S, J, lost, [p \in {x} |-> g])
    BY DEF SetFailsAdding
<1>1a. PICK lost \in Losses(Owned(J)) :
        \E g \in PortAddFails(Detached(x, lost), s) :
            SetCommits(b, s, S, J, lost, [p \in {x} |-> g])
    BY <1>0
<1>1. PICK g \in PortAddFails(Detached(x, lost), s) :
        SetCommits(b, s, S, J, lost, [p \in {x} |-> g])
    BY <1>1a
<1>2. Joining(b, S) \subseteq Ports
    BY DEF Joining
<1>3. Detached(x, lost) \in HwPort
    <2>1. CASE bundleOf[x] = NoBundle
        BY <1>2, <2>1 DEF Detached, IInv, TypeOK
    <2>2. CASE bundleOf[x] # NoBundle
        <3>1. Owned(J) \in SUBSET Ports /\ x \in Owned(J)
              /\ \A p \in Owned(J) : bundleOf[p] # NoBundle
            BY <1>0, <1>2, <2>2 DEF Owned
        <3> QED
            BY <2>2, <3>1, RemovedFacts DEF Detached
    <2> QED
        BY <2>1, <2>2
<1>4. g \in HwPort
    BY <1>3, PortAddFacts, SettingsAssumption
<1> QED
    BY <1>0, <1>1, <1>4, SetCommitsIInv

LEMMA SetCompletesIInv ==
    ASSUME IInv, NEW b \in Bundles, NEW s \in Settings, NEW S \in SUBSET Ports,
           SetCompletes(b, s, S)
    PROVE  IInv'
BY SetCommitsIInv DEF SetCompletes

LEMMA NextIInv == IInv /\ [Next]_vars => IInv'
<1>1. ASSUME IInv, NEW b \in Bundles, BundleUnset(b) PROVE IInv'
    BY <1>1, BundleUnsetIInv
<1>2. ASSUME IInv, NEW p \in Ports, BundleRemove(p) PROVE IInv'
    BY <1>2, BundleRemoveIInv
<1>3. ASSUME IInv, NEW b \in Bundles, NEW S \in SUBSET Ports, SetFailsReleasing(b, S)
      PROVE IInv'
    BY <1>3, SetFailsReleasingIInv
<1>4. ASSUME IInv, NEW b \in Bundles, NEW s \in Settings, NEW S \in SUBSET Ports,
             \/ SetFailsReconfiguring(b, s, S)
             \/ SetFailsAdding(b, s, S)
             \/ SetCompletes(b, s, S)
      PROVE IInv'
    BY <1>4, SetFailsReconfiguringIInv, SetFailsAddingIInv, SetCompletesIInv
<1>5. ASSUME IInv, UNCHANGED vars PROVE IInv'
    BY <1>5 DEF IInv, TypeOK, NoDanglingBundle, MembershipMatchesConfig, Created,
                WantedBy, vars
<1> QED
    BY <1>1, <1>2, <1>3, <1>4, <1>5 DEF Next

LEMMA Invariance == Spec => []IInv
BY InitIInv, NextIInv, PTL DEF Spec

\* Every reachable state is well typed.
THEOREM TypeCorrect == Spec => []TypeOK
<1>1. IInv => TypeOK
    BY DEF IInv
<1> QED
    BY <1>1, Invariance, PTL

\* No callback, and no error path of one, leaves a port pointing at a
\* destroyed bundle.
THEOREM NoDangling == Spec => []NoDanglingBundle
<1>1. IInv => NoDanglingBundle
    BY DEF IInv
<1> QED
    BY <1>1, Invariance, PTL

\* A port no SAI call failed for is a member of exactly the VLANs of its
\* bundle's settings, whatever was done to it before.
THEOREM MembershipIsExact == Spec => []MembershipMatchesConfig
<1>1. IInv => MembershipMatchesConfig
    BY DEF IInv
<1> QED
    BY <1>1, Invariance, PTL
-----------------------------------------------------------------------------
(* Tagging and PVID.  One step leaves a port alone, frees it, reconfigures  *)
(* it in place or adds it to another bundle; what the port's tags are then  *)
(* is a matter of the operators alone.                                      *)

\* What the tags and the PVID of an access port have to be.
Untagged(h, v) == h.tag[v] = "untagged" /\ h.pvid = v

LEMMA NoTrunksFacts ==
    ASSUME NEW h \in HwPort
    PROVE  TrunksPortAdd(h, {}) = h /\ TrunksPortDel(h, {}) = h
BY DEF TrunksPortAdd, TrunksPortDel, HwPort

LEMMA AccessPortAddUntags ==
    ASSUME NEW h \in HwPort, NEW v \in Vids
    PROVE  Untagged(AccessPortAdd(h, v), v)
BY DEF AccessPortAdd, Untagged, HwPort

LEMMA PortAddUntags ==
    ASSUME NEW h \in HwPort, NEW c \in CoherentSettings, c.mode = "access"
    PROVE  Untagged(PortAdd(h, c), c.vlan)
<1>1. c.vlan \in Vids /\ c.vlan # NoVlan /\ c.trunks = {}
    BY SettingsFacts
<1>2. AccessPortAdd(h, c.vlan) \in HwPort
    BY <1>1, AccessPortAddFacts
<1>3. PortAdd(h, c) = AccessPortAdd(h, c.vlan)
    BY <1>1, <1>2, NoTrunksFacts DEF PortAdd
<1> QED
    BY <1>1, <1>3, AccessPortAddUntags

\* A bundle set again to what it has: nothing is deleted and nothing added.
LEMMA SameSettingsChangeNothing ==
    ASSUME NEW h \in HwPort, NEW c \in CoherentSettings
    PROVE  Reconfigured(h, c, c) = h
<1>1. ~VlanChanged(c, c)
    BY DEF VlanChanged
<1>2. RemovedTrunks(c, c) = {} /\ AddedTrunks(c, c) = {}
    BY DEF RemovedTrunks, AddedTrunks
<1>3. LeaveVlan(h, c, c) = h /\ JoinVlan(h, c, c) = h
    BY <1>1 DEF LeaveVlan, JoinVlan
<1>4. DeletePhase(h, c, c) = h /\ AddPhase(h, c, c) = h
    BY <1>2, <1>3, NoTrunksFacts DEF DeletePhase, AddPhase
<1> QED
    BY <1>4 DEF Reconfigured

\* A bundle set to an access VLAN: the port is added to it untagged, or it
\* was an access port of that VLAN already.
LEMMA ReconfiguredUntags ==
    ASSUME NEW h \in HwPort, NEW c \in CoherentSettings, NEW s \in CoherentSettings,
           s.mode = "access", c.mode = "access" => Untagged(h, c.vlan)
    PROVE  Untagged(Reconfigured(h, c, s), s.vlan)
<1>1. s.vlan \in Vids
    BY SettingsFacts
<1>2. AddPhase(DeletePhase(h, c, s), c, s) = JoinVlan(DeletePhase(h, c, s), c, s)
    BY DEF AddPhase
<1>3. CASE VlanChanged(c, s)
    <2>1. DeletePhase(h, c, s) \in HwPort
        BY DeletePhaseFacts
    <2>2. JoinVlan(DeletePhase(h, c, s), c, s) = AccessPortAdd(DeletePhase(h, c, s), s.vlan)
        BY <1>3 DEF JoinVlan
    <2> QED
        BY <1>1, <1>2, <2>1, <2>2, AccessPortAddUntags DEF Reconfigured
<1>4. CASE ~VlanChanged(c, s)
    <2>1. c.mode = "access" /\ c.vlan = s.vlan
        BY <1>4 DEF VlanChanged
    <2>2. DeletePhase(h, c, s) = h
        BY <1>4, <2>1 DEF DeletePhase, LeaveVlan
    <2>3. JoinVlan(h, c, s) = h
        BY <1>4 DEF JoinVlan
    <2> QED
        BY <1>2, <2>1, <2>2, <2>3 DEF Reconfigured
<1> QED
    BY <1>3, <1>4

\* What a step may do to a port that no SAI call failed for.
Kept(p) ==
    /\ hw'[p] = hw[p] /\ bundleOf'[p] = bundleOf[p]
    /\ bundleOf[p] # NoBundle => cfg'[bundleOf[p]] = cfg[bundleOf[p]]
Freed(p) == bundleOf[p] # NoBundle /\ bundleOf'[p] = NoBundle
Reset(p) ==
    /\ bundleOf[p] # NoBundle /\ bundleOf'[p] = bundleOf[p]
    /\ hw'[p] = Reconfigured(hw[p], cfg[bundleOf[p]], cfg'[bundleOf[p]])
Moved(p) ==
    /\ bundleOf'[p] # bundleOf[p]
    /\ \E h \in HwPort : hw'[p] = PortAdd(h, cfg'[bundleOf'[p]])
Fate(p) == p \in faulted' \/ Kept(p) \/ Freed(p) \/ Reset(p) \/ Moved(p)

LEMMA BundleUnsetFate ==
    ASSUME IInv, NEW b \in Bundles, BundleUnset(b), NEW p \in Ports
    PROVE  faulted \subseteq faulted' /\ Fate(p)
<1>1. b # NoBundle
    BY SettingsAssumption
<1>2. PICK lost \in Losses(PortsOf(b)) :
        /\ hw' = [q \in Ports |->
                    IF bundleOf[q] = b THEN Removed(q, lost) ELSE hw[q]]
        /\ faulted' = faulted \cup DOMAIN lost
    BY DEF BundleUnset
<1>3. CASE bundleOf[p] = b
    BY <1>1, <1>2, <1>3 DEF BundleUnset, Fate, Freed
<1>4. CASE bundleOf[p] # b
    BY <1>2, <1>4 DEF BundleUnset, Fate, Kept, IInv, TypeOK
<1> QED
    BY <1>2, <1>3, <1>4

LEMMA BundleRemoveFate ==
    ASSUME IInv, NEW q \in Ports, BundleRemove(q), NEW p \in Ports
    PROVE  faulted \subseteq faulted' /\ Fate(p)
<1>1. PICK lost \in Losses({q}) :
        /\ hw' = [hw EXCEPT ![q] = Removed(q, lost)]
        /\ faulted' = faulted \cup DOMAIN lost
    BY DEF BundleRemove
<1>2. CASE p = q
    BY <1>2 DEF BundleRemove, Fate, Freed, IInv, TypeOK
<1>3. CASE p # q
    <2>1. hw'[p] = hw[p] /\ bundleOf'[p] = bundleOf[p]
        BY <1>1, <1>3 DEF BundleRemove, IInv, TypeOK
    <2>2. bundleOf[p] # NoBundle => cfg'[bundleOf[p]] = cfg[bundleOf[p]]
        BY <1>3, OwnerFacts DEF BundleRemove, IInv, Emptied, PortsOf
    <2> QED
        BY <1>1, <2>1, <2>2 DEF Fate, Kept
<1> QED
    BY <1>1, <1>2, <1>3

LEMMA SetFailsReleasingFate ==
    ASSUME IInv, NEW b \in Bundles, NEW S \in SUBSET Ports,
           SetFailsReleasing(b, S), NEW p \in Ports
    PROVE  faulted \subseteq faulted' /\ Fate(p)
<1>1. PICK x \in Leaving(b, S) \cap Fallible, D \in SUBSET Leaving(b, S) :
        /\ \E g \in PortDelFails(hw[x], cfg[b]) :
            hw' = [q \in Ports |-> CASE q \in D -> PortDel(hw[q], cfg[b])
                                     [] q = x   -> g
                                     [] OTHER   -> hw[q]]
        /\ bundleOf' = [q \in Ports |->
                            IF q \in D \cup {x} THEN NoBundle ELSE bundleOf[q]]
        /\ faulted' = faulted \cup {x}
        /\ cfg' = cfg
    BY DEF SetFailsReleasing
<1>2. /\ \A q \in Leaving(b, S) : bundleOf[q] = b
      /\ b # NoBundle
    BY SettingsAssumption DEF Leaving, PortsOf
<1>3. CASE p \in D \cup {x}
    BY <1>1, <1>2, <1>3 DEF Fate, Freed
<1>4. CASE p \notin D \cup {x}
    BY <1>1, <1>4 DEF Fate, Kept
<1> QED
    BY <1>1, <1>3, <1>4

LEMMA SetFailsReconfiguringFate ==
    ASSUME IInv, NEW b \in Bundles, NEW s \in Settings, NEW S \in SUBSET Ports,
           SetFailsReconfiguring(b, s, S), NEW p \in Ports
    PROVE  faulted \subseteq faulted' /\ Fate(p)
<1>1. PICK x \in Staying(b, S), D \in SUBSET Staying(b, S) :
        /\ \/ \E g \in DeletePhaseFails(hw[x], cfg[b], s) :
                hw' = [q \in Ports |->
                        CASE q \in Leaving(b, S) -> PortDel(hw[q], cfg[b])
                          [] q \in D -> DeletePhase(hw[q], cfg[b], s)
                          [] q = x   -> g
                          [] OTHER   -> hw[q]]
           \/ \E g \in AddPhaseFails(DeletePhase(hw[x], cfg[b], s), cfg[b], s) :
                hw' = [q \in Ports |->
                        CASE q \in Leaving(b, S) -> PortDel(hw[q], cfg[b])
                          [] q \in D -> Reconfigured(hw[q], cfg[b], s)
                          [] q = x   -> g
                          [] q \in Staying(b, S) \ (D \cup {x})
                                     -> DeletePhase(hw[q], cfg[b], s)
                          [] OTHER   -> hw[q]]
        /\ bundleOf' = [q \in Ports |->
                            IF q \in Leaving(b, S) THEN NoBundle ELSE bundleOf[q]]
        /\ faulted' = faulted \cup Staying(b, S)
        /\ cfg' = cfg
    BY DEF SetFailsReconfiguring
<1>2. /\ \A q \in Leaving(b, S) : bundleOf[q] = b
      /\ b # NoBundle
    BY SettingsAssumption DEF Leaving, PortsOf
<1>3. CASE p \in Leaving(b, S)
    BY <1>1, <1>2, <1>3 DEF Fate, Freed
<1>4. CASE p \in Staying(b, S)
    BY <1>1, <1>4 DEF Fate
<1>5. CASE p \notin Leaving(b, S) \cup Staying(b, S)
    <2>1. p \notin D /\ p # x
        BY <1>1, <1>5
    <2>2. hw'[p] = hw[p]
        BY <1>1, <1>5, <2>1
    <2> QED
        BY <1>1, <1>5, <2>2 DEF Fate, Kept
<1> QED
    BY <1>1, <1>3, <1>4, <1>5

LEMMA SetCommitsFate ==
    ASSUME IInv, NEW b \in Bundles, NEW s \in Settings, NEW S \in SUBSET Ports,
           NEW J \in SUBSET Joining(b, S), NEW lost \in Losses(Owned(J)),
           NEW broken, DOMAIN broken \subseteq J,
           SetCommits(b, s, S, J, lost, broken), NEW p \in Ports
    PROVE  faulted \subseteq faulted' /\ Fate(p)
<1>1. /\ J \subseteq Ports
      /\ \A q \in Leaving(b, S) \cup Staying(b, S) : bundleOf[q] = b
      /\ \A q \in Ports : bundleOf[q] = b => q \in Leaving(b, S) \cup Staying(b, S)
      /\ \A q \in J : bundleOf[q] # b
      /\ Leaving(b, S) \cap Staying(b, S) = {}
      /\ b # NoBundle
    BY SettingsAssumption DEF Joining, Leaving, Staying, PortsOf
<1>2. faulted' = faulted \cup DOMAIN lost \cup DOMAIN broken
    BY DEF SetCommits
<1>3. cfg'[b] = s
    BY DEF SetCommits
<1>4. CASE p \in Leaving(b, S)
    <2>1. p \notin J
        BY <1>1, <1>4
    <2>2. bundleOf'[p] = NoBundle
        BY <1>4, <2>1 DEF SetCommits
    <2> QED
        BY <1>1, <1>2, <1>4, <2>2 DEF Fate, Freed
<1>5. CASE p \in Staying(b, S)
    <2>1. p \notin J /\ p \notin Leaving(b, S)
        BY <1>1, <1>5
    <2>2. hw'[p] = Reconfigured(hw[p], cfg[b], s) /\ bundleOf'[p] = bundleOf[p]
        BY <1>5, <2>1 DEF SetCommits
    <2> QED
        BY <1>1, <1>2, <1>3, <1>5, <2>2 DEF Fate, Reset
<1>6. CASE p \in J /\ p \notin faulted'
    <2>1. /\ p \notin Leaving(b, S) \cup Staying(b, S)
          /\ p \notin DOMAIN broken
        BY <1>1, <1>2, <1>6
    <2>2. hw'[p] = PortAdd(Detached(p, lost), s) /\ bundleOf'[p] = b
        BY <1>6, <2>1 DEF SetCommits
    <2>3. Detached(p, lost) \in HwPort
        <3>1. CASE bundleOf[p] = NoBundle
            BY <3>1 DEF Detached, IInv, TypeOK
        <3>2. CASE bundleOf[p] # NoBundle
            <4>1. /\ Owned(J) \in SUBSET Ports /\ p \in Owned(J)
                  /\ \A q \in Owned(J) : bundleOf[q] # NoBundle
                BY <1>1, <1>6, <3>2 DEF Owned
            <4> QED
                BY <3>2, <4>1, RemovedFacts DEF Detached
        <3> QED
            BY <3>1, <3>2
    <2> QED
        BY <1>1, <1>2, <1>3, <1>6, <2>2, <2>3 DEF Fate, Moved
<1>7. CASE p \notin Leaving(b, S) \cup Staying(b, S) \cup J
    <2>1. hw'[p] = hw[p] /\ bundleOf'[p] = bundleOf[p]
        BY <1>7 DEF SetCommits
    <2>2. ASSUME bundleOf[p] # NoBundle
          PROVE  cfg'[bundleOf[p]] = cfg[bundleOf[p]]
        <3>1. bundleOf[p] \in Bundles /\ bundleOf[p] # b
            BY <1>1, <1>7, <2>2, OwnerFacts DEF IInv
        <3>2. ~Emptied(bundleOf[p], J)
            BY <1>7 DEF Emptied, PortsOf
        <3> QED
            BY <3>1, <3>2 DEF SetCommits
    <2> QED
        BY <1>2, <2>1, <2>2 DEF Fate, Kept
<1>8. CASE p \in faulted'
    BY <1>2, <1>8 DEF Fate
<1> QED
    BY <1>4, <1>5, <1>6, <1>7, <1>8

LEMMA SetFailsAddingFate ==
    ASSUME IInv, NEW b \in Bundles, NEW s \in Settings, NEW S \in SUBSET Ports,
           SetFailsAdding(b, s, S), NEW p \in Ports
    PROVE  faulted \subseteq faulted' /\ Fate(p)
<1>1. PICK x \in Joining(b, S), J \in SUBSET Joining(b, S) :
        /\ x \in J
        /\ \E lost \in Losses(Owned(J)) : \E g \in PortAddFails(Detached(x, lost), s) :
                SetCommits(b, s, S, J, lost, [q \in {x} |-> g])
    BY DEF SetFailsAdding
<1>2. PICK lost \in Losses(Owned(J)) :
        \E g \in PortAddFails(Detached(x, lost), s) :
            SetCommits(b, s, S, J, lost, [q \in {x} |-> g])
    BY <1>1
<1>3. PICK g : SetCommits(b, s, S, J, lost, [q \in {x} |-> g])
    BY <1>2
<1> QED
    BY <1>1, <1>3, SetCommitsFate

LEMMA NextFate ==
    ASSUME IInv, [Next]_vars, NEW p \in Ports
    PROVE  faulted \subseteq faulted' /\ Fate(p)
<1>1. ASSUME NEW b \in Bundles, BundleUnset(b) PROVE faulted \subseteq faulted' /\ Fate(p)
    BY <1>1, BundleUnsetFate
<1>2. ASSUME NEW q \in Ports, BundleRemove(q) PROVE faulted \subseteq faulted' /\ Fate(p)
    BY <1>2, BundleRemoveFate
<1>3. ASSUME NEW b \in Bundles, NEW S \in SUBSET Ports, SetFailsReleasing(b, S)
      PROVE  faulted \subseteq faulted' /\ Fate(p)
    BY <1>3, SetFailsReleasingFate
<1>4. ASSUME NEW b \in Bundles, NEW s \in Settings, NEW S \in SUBSET Ports,
             SetFailsReconfiguring(b, s, S)
      PROVE  faulted \subseteq faulted' /\ Fate(p)
    BY <1>4, SetFailsReconfiguringFate
<1>5. ASSUME NEW b \in Bundles, NEW s \in Settings, NEW S \in SUBSET Ports,
             SetFailsAdding(b, s, S)
      PROVE  faulted \subseteq faulted' /\ Fate(p)
    BY <1>5, SetFailsAddingFate
<1>6. ASSUME NEW b \in Bundles, NEW s \in Settings, NEW S \in SUBSET Ports,
             SetCompletes(b, s, S)
      PROVE  faulted \subseteq faulted' /\ Fate(p)
    BY <1>6, SetCommitsFate DEF SetCompletes
<1>7. CASE UNCHANGED vars
    BY <1>7 DEF vars, Fate, Kept
<1> QED
    BY <1>1, <1>2, <1>3, <1>4, <1>5, <1>6, <1>7 DEF Next

LEMMA NextUntagged == IInv /\ AccessPortsUntagged /\ [Next]_vars => AccessPortsUntagged'
<1> SUFFICES ASSUME IInv, AccessPortsUntagged, [Next]_vars,
                    NEW p \in Ports \ faulted',
                    bundleOf'[p] # NoBundle, cfg'[bundleOf'[p]].mode = "access"
             PROVE  Untagged(hw'[p], cfg'[bundleOf'[p]].vlan)
    BY DEF AccessPortsUntagged, Untagged
<1>1. faulted \subseteq faulted' /\ Fate(p)
    BY NextFate
<1>2. /\ hw[p] \in HwPort
      /\ cfg'[bundleOf'[p]] \in CoherentSettings
    <2>1. IInv'
        BY NextIInv
    <2>2. TypeOK' /\ NoDanglingBundle'
        BY <2>1 DEF IInv
    <2>3. bundleOf'[p] \in Bundles /\ cfg'[bundleOf'[p]] \in Settings
        BY <2>2 DEF TypeOK, NoDanglingBundle, Created
    <2> QED
        BY <2>3, SettingsAssumption DEF IInv, TypeOK
<1>3. ASSUME bundleOf[p] # NoBundle
      PROVE  /\ cfg[bundleOf[p]] \in CoherentSettings
             /\ cfg[bundleOf[p]].mode = "access" => Untagged(hw[p], cfg[bundleOf[p]].vlan)
    BY <1>1, <1>3, OwnerFacts DEF IInv, AccessPortsUntagged, Untagged
<1>4. CASE Kept(p)
    BY <1>3, <1>4 DEF Kept
<1>5. CASE Reset(p)
    BY <1>2, <1>3, <1>5, ReconfiguredUntags DEF Reset
<1>6. CASE Moved(p)
    BY <1>2, <1>6, PortAddUntags DEF Moved
<1>7. CASE Freed(p)
    BY <1>7 DEF Freed
<1> QED
    BY <1>1, <1>4, <1>5, <1>6, <1>7 DEF Fate

\* No callback changes the VLAN state of a port whose bundle and settings
\* stay the same and for which no SAI call fails.
THEOREM OthersUndisturbed == Spec => OnlyReconfiguredPortsChange
<1>1. ASSUME IInv, [Next]_vars, NEW p \in Ports \ faulted',
             bundleOf'[p] = bundleOf[p],
             bundleOf[p] # NoBundle => cfg'[bundleOf[p]] = cfg[bundleOf[p]]
      PROVE  hw'[p] = hw[p]
    <2>1. Fate(p)
        BY <1>1, NextFate
    <2>2. ASSUME Reset(p) PROVE hw'[p] = hw[p]
        <3>1. bundleOf[p] # NoBundle
            BY <2>2 DEF Reset
        <3>2. hw[p] \in HwPort /\ cfg[bundleOf[p]] \in CoherentSettings
            BY <1>1, <3>1, OwnerFacts DEF IInv, TypeOK
        <3>3. hw'[p] = Reconfigured(hw[p], cfg[bundleOf[p]], cfg[bundleOf[p]])
            BY <1>1, <2>2, <3>1 DEF Reset
        <3> QED
            BY <3>2, <3>3, SameSettingsChangeNothing
    <2> QED
        BY <1>1, <2>1, <2>2 DEF Fate, Kept, Freed, Moved
<1>2. IInv /\ [Next]_vars =>
        [\A p \in Ports \ faulted' :
            (/\ bundleOf'[p] = bundleOf[p]
             /\ bundleOf[p] # NoBundle => cfg'[bundleOf[p]] = cfg[bundleOf[p]])
                => hw'[p] = hw[p]]_vars
    BY <1>1
<1> QED
    BY <1>2, InitIInv, NextIInv, PTL DEF Spec, OnlyReconfiguredPortsChange

-----------------------------------------------------------------------------
(* The tagging of the trunks and of the native VLAN.                       *)

\* What each operation does to the tagging of one VLAN v.
LEMMA TrunksTagging ==
    ASSUME NEW h \in HwPort, NEW T \in SUBSET Vids, NEW v \in Vids
    PROVE  /\ TrunksPortAdd(h, T).tag[v] = IF v \in T THEN "tagged" ELSE h.tag[v]
           /\ TrunksPortDel(h, T).tag[v] = IF v \in T THEN "none" ELSE h.tag[v]
BY DEF TrunksPortAdd, TrunksPortDel, HwPort

LEMMA AccessTagging ==
    ASSUME NEW h \in HwPort, NEW w \in Vids, NEW v \in Vids
    PROVE  /\ AccessPortAdd(h, w).tag[v] = IF v = w THEN "untagged" ELSE h.tag[v]
           /\ AccessPortDel(h, w).tag[v] = IF v = w THEN "none" ELSE h.tag[v]
BY DEF AccessPortAdd, AccessPortDel, HwPort

LEMMA NativeTagging ==
    ASSUME NEW h \in HwPort, NEW w \in Vids, NEW v \in Vids
    PROVE  /\ NativeTaggedSet(h, w).tag[v] = IF v = w THEN "tagged" ELSE h.tag[v]
           /\ NativeTaggedUnset(h, w).tag[v] = IF v = w THEN "none" ELSE h.tag[v]
<1> DEFINE a == TrunksPortAdd(h, {w})
           d == TrunksPortDel(h, {w})
<1>1. /\ a.tag[v] = IF v = w THEN "tagged" ELSE h.tag[v]
      /\ d.tag[v] = IF v = w THEN "none" ELSE h.tag[v]
    BY TrunksTagging
<1>2. a \in HwPort /\ d \in HwPort
    BY TrunksPortAddFacts, TrunksPortDelFacts
<1>3. \A g \in HwPort, q \in Vids : [g EXCEPT !.pvid = q].tag = g.tag
    BY DEF HwPort
<1> HIDE DEF a, d
<1>4. [a EXCEPT !.pvid = w].tag = a.tag /\ [d EXCEPT !.pvid = DefaultPvid].tag = d.tag
    BY <1>2, <1>3, DefaultPvidType
<1> QED
    BY <1>1, <1>4 DEF NativeTaggedSet, NativeTaggedUnset, a, d

\* __ofbundle_port_add tags every trunk, the tag of the bundle included if it
\* is one of them: that is finding "native_tagging".
LEMMA PortAddTagging ==
    ASSUME NEW h \in HwPort, NEW c \in CoherentSettings, NEW v \in Vids
    PROVE  /\ v \in c.trunks => PortAdd(h, c).tag[v] = "tagged"
           /\ v = c.vlan /\ v \notin c.trunks => PortAdd(h, c).tag[v] = "untagged"
<1>1. c.trunks \in SUBSET Vids
    BY SettingsFacts
<1>2. CASE c.vlan = NoVlan
    BY <1>1, <1>2, TrunksTagging, NoVlanIsNoVid DEF PortAdd
<1>3. CASE c.vlan # NoVlan
    <2>1. c.vlan \in Vids
        BY <1>3, SettingsFacts
    <2> DEFINE a == AccessPortAdd(h, c.vlan)
    <2>2. a \in HwPort /\ (v = c.vlan => a.tag[v] = "untagged")
        BY <2>1, AccessPortAddFacts, AccessTagging
    <2> HIDE DEF a
    <2>3. TrunksPortAdd(a, c.trunks).tag[v] = IF v \in c.trunks THEN "tagged" ELSE a.tag[v]
        BY <1>1, <2>2, TrunksTagging
    <2> QED
        BY <1>3, <2>2, <2>3 DEF PortAdd, a
<1> QED
    BY <1>2, <1>3

\* The delete phase leaves the tagging of what it does not delete, ...
LEMMA DeletePhaseTagging ==
    ASSUME NEW h \in HwPort, NEW c \in CoherentSettings, NEW s \in CoherentSettings,
           NEW v \in Vids, v \notin Deleted(c, s)
    PROVE  DeletePhase(h, c, s).tag[v] = h.tag[v]
<1> DEFINE a == LeaveVlan(h, c, s)
           T == RemovedTrunks(c, s)
<1>1. a \in HwPort /\ T \in SUBSET Vids
    BY LeaveVlanFacts, BitmapFacts
<1>2. a.tag[v] = h.tag[v]
    <2>1. CASE c.mode = "trunk" \/ ~VlanChanged(c, s)
        BY <2>1 DEF LeaveVlan
    <2>2. CASE c.mode = "native_tagged" /\ VlanChanged(c, s)
        <3>1. c.vlan \in Vids /\ v # c.vlan
            BY <2>2, SettingsFacts DEF Deleted
        <3> QED
            BY <2>2, <3>1, NativeTagging DEF LeaveVlan
    <2>3. CASE c.mode \notin {"trunk", "native_tagged"} /\ VlanChanged(c, s)
        <3>1. c.vlan \in Vids /\ v # c.vlan
            BY <2>3, SettingsFacts DEF Deleted
        <3> QED
            BY <2>3, <3>1, AccessTagging DEF LeaveVlan
    <2> QED
        BY <2>1, <2>2, <2>3
<1>3. c.mode # "access" => v \notin T
    BY DEF Deleted
<1> HIDE DEF a, T
<1>4. TrunksPortDel(a, T).tag[v] = IF v \in T THEN "none" ELSE a.tag[v]
    BY <1>1, TrunksTagging
<1> QED
    BY <1>2, <1>3, <1>4 DEF DeletePhase, a, T

\* ... and the add phase that of what it does not add.  It tags the trunks it
\* adds, the native VLAN not among them, and gives a VLAN it joins the tagging
\* of the mode.
ModeTag(s) == IF s.mode = "native_tagged" THEN "tagged" ELSE "untagged"

LEMMA JoinVlanTagging ==
    ASSUME NEW h \in HwPort, NEW c \in CoherentSettings, NEW s \in CoherentSettings,
           NEW v \in Vids
    PROVE  JoinVlan(h, c, s).tag[v] =
                IF s.mode # "trunk" /\ VlanChanged(c, s) /\ v = s.vlan THEN ModeTag(s)
                ELSE h.tag[v]
<1>1. CASE s.mode = "trunk" \/ ~VlanChanged(c, s)
    BY <1>1 DEF JoinVlan
<1>2. CASE s.mode = "native_tagged" /\ VlanChanged(c, s)
    <2>1. s.vlan \in Vids
        BY <1>2, SettingsFacts
    <2> QED
        BY <1>2, <2>1, NativeTagging DEF JoinVlan, ModeTag
<1>3. CASE s.mode \notin {"trunk", "native_tagged"} /\ VlanChanged(c, s)
    <2>1. s.vlan \in Vids
        BY <1>3, SettingsFacts
    <2> QED
        BY <1>3, <2>1, AccessTagging DEF JoinVlan, ModeTag
<1> QED
    BY <1>1, <1>2, <1>3

LEMMA AddPhaseTagging ==
    ASSUME NEW h \in HwPort, NEW c \in CoherentSettings, NEW s \in CoherentSettings,
           NEW v \in Vids
    PROVE  /\ v \notin Added(c, s) => AddPhase(h, c, s).tag[v] = h.tag[v]
           /\ s.mode # "access" /\ v \in AddedTrunks(c, s)
                => AddPhase(h, c, s).tag[v] = "tagged"
           /\ s.mode # "trunk" /\ VlanChanged(c, s) /\ v = s.vlan
                => AddPhase(h, c, s).tag[v] = ModeTag(s)
<1> DEFINE a == JoinVlan(h, c, s)
           T == AddedTrunks(c, s)
<1>1. a \in HwPort /\ T \in SUBSET Vids
    BY JoinVlanFacts, BitmapFacts
<1>2. a.tag[v] = IF s.mode # "trunk" /\ VlanChanged(c, s) /\ v = s.vlan THEN ModeTag(s)
                 ELSE h.tag[v]
    BY JoinVlanTagging
<1>3. s.mode \notin {"access", "trunk"} => s.vlan \notin T
    BY SettingsFacts DEF AddedTrunks, NativeVid, Native
<1> HIDE DEF a, T
<1>4. TrunksPortAdd(a, T).tag[v] = IF v \in T THEN "tagged" ELSE a.tag[v]
    BY <1>1, TrunksTagging
<1>5. AddPhase(h, c, s) = IF s.mode = "access" THEN a ELSE TrunksPortAdd(a, T)
    BY DEF AddPhase, a, T
<1>6. v \notin Added(c, s) => /\ ~(s.mode # "trunk" /\ VlanChanged(c, s) /\ v = s.vlan)
                              /\ s.mode # "access" => v \notin T
    BY DEF Added, T
<1> QED
    BY <1>2, <1>3, <1>4, <1>5, <1>6 DEF T

\* A trunk that a reconfiguration does not add was one before, and the two
\* phases leave it alone: so all trunks are tagged again.
TrunksAreTagged(h, c) == \A v \in c.trunks \ {c.vlan} : h.tag[v] = "tagged"

LEMMA KeptTrunk ==
    ASSUME NEW c \in CoherentSettings, NEW s \in CoherentSettings,
           NEW v \in s.trunks, v # s.vlan, v \notin AddedTrunks(c, s)
    PROVE  /\ v \in c.trunks \ {c.vlan}
           /\ v \notin Deleted(c, s) \cup Added(c, s)
<1>1. v \in c.trunks /\ v \notin NativeVid(c)
    BY DEF AddedTrunks, NativeVid
<1>2. v # c.vlan
    <2>1. CASE c.mode = "access"
        BY <1>1, <2>1, SettingsFacts
    <2>2. CASE c.mode = "trunk"
        BY <1>1, <2>2, SettingsFacts, NoVlanIsNoVid
    <2>3. CASE Native(c)
        BY <1>1, <2>3 DEF NativeVid
    <2> QED
        BY <2>1, <2>2, <2>3, SettingsFacts DEF Native
<1>3. v \notin RemovedTrunks(c, s)
    BY DEF RemovedTrunks
<1> QED
    BY <1>1, <1>2, <1>3 DEF Deleted, Added

LEMMA ReconfiguredTrunks ==
    ASSUME NEW h \in HwPort, NEW c \in CoherentSettings, NEW s \in CoherentSettings,
           TrunksAreTagged(h, c)
    PROVE  TrunksAreTagged(Reconfigured(h, c, s), s)
<1> SUFFICES ASSUME NEW v \in s.trunks \ {s.vlan}
             PROVE  Reconfigured(h, c, s).tag[v] = "tagged"
    BY DEF TrunksAreTagged
<1>1. v \in Vids /\ s.mode # "access"
    BY SettingsFacts
<1> DEFINE d == DeletePhase(h, c, s)
<1>2. d \in HwPort
    BY DeletePhaseFacts
<1>3. CASE v \in AddedTrunks(c, s)
    <2> HIDE DEF d
    <2>1. AddPhase(d, c, s).tag[v] = "tagged"
        BY <1>1, <1>2, <1>3, AddPhaseTagging
    <2> QED
        BY <2>1 DEF Reconfigured, d
<1>4. CASE v \notin AddedTrunks(c, s)
    <2>1. /\ v \in c.trunks \ {c.vlan}
          /\ v \notin Deleted(c, s) /\ v \notin Added(c, s)
        BY <1>4, KeptTrunk
    <2>2. h.tag[v] = "tagged"
        BY <2>1 DEF TrunksAreTagged
    <2>3. d.tag[v] = h.tag[v]
        BY <1>1, <2>1, DeletePhaseTagging
    <2> HIDE DEF d
    <2>4. AddPhase(d, c, s).tag[v] = d.tag[v]
        BY <1>1, <1>2, <2>1, AddPhaseTagging
    <2> QED
        BY <2>2, <2>3, <2>4 DEF Reconfigured, d
<1> QED
    BY <1>3, <1>4

LEMMA PortAddTrunks ==
    ASSUME NEW h \in HwPort, NEW c \in CoherentSettings
    PROVE  TrunksAreTagged(PortAdd(h, c), c)
BY PortAddTagging, SettingsFacts DEF TrunksAreTagged

\* What the proofs below need of a step, for a port no call failed for.
LEMMA StepFacts ==
    ASSUME IInv, [Next]_vars, NEW p \in Ports \ faulted', bundleOf'[p] # NoBundle
    PROVE  /\ p \notin faulted /\ Fate(p) /\ hw[p] \in HwPort
           /\ cfg'[bundleOf'[p]] \in CoherentSettings \cap Settings
           /\ bundleOf[p] # NoBundle => cfg[bundleOf[p]] \in CoherentSettings
<1>1. faulted \subseteq faulted' /\ Fate(p)
    BY NextFate
<1>2. IInv'
    BY NextIInv
<1>3. TypeOK' /\ NoDanglingBundle'
    BY <1>2 DEF IInv
<1>4. bundleOf'[p] \in Bundles /\ cfg'[bundleOf'[p]] \in Settings
    BY <1>3 DEF TypeOK, NoDanglingBundle, Created
<1>5. hw[p] \in HwPort
    BY DEF IInv, TypeOK
<1>6. bundleOf[p] # NoBundle => cfg[bundleOf[p]] \in CoherentSettings
    BY OwnerFacts DEF IInv
<1> QED
    BY <1>1, <1>4, <1>5, <1>6, SettingsAssumption

LEMMA NextTrunks == IInv /\ TrunksTagged /\ [Next]_vars => TrunksTagged'
<1> SUFFICES ASSUME IInv, TrunksTagged, [Next]_vars,
                    NEW p \in Ports \ faulted', bundleOf'[p] # NoBundle
             PROVE  TrunksAreTagged(hw'[p], cfg'[bundleOf'[p]])
    BY DEF TrunksTagged, TrunksAreTagged
<1>1. /\ p \notin faulted /\ Fate(p) /\ hw[p] \in HwPort
      /\ cfg'[bundleOf'[p]] \in CoherentSettings
      /\ bundleOf[p] # NoBundle => cfg[bundleOf[p]] \in CoherentSettings
    BY StepFacts
<1>2. bundleOf[p] # NoBundle => TrunksAreTagged(hw[p], cfg[bundleOf[p]])
    BY <1>1 DEF TrunksTagged, TrunksAreTagged
<1>3. CASE Kept(p)
    BY <1>2, <1>3 DEF Kept
<1>4. CASE Reset(p)
    BY <1>1, <1>2, <1>4, ReconfiguredTrunks DEF Reset
<1>5. CASE Moved(p)
    BY <1>1, <1>5, PortAddTrunks DEF Moved
<1>6. CASE Freed(p)
    BY <1>6 DEF Freed
<1> QED
    BY <1>1, <1>3, <1>4, <1>5, <1>6 DEF Fate

\* The tagging of a port follows from the settings of its bundle and not from
\* how it came to them: the VLAN of an access bundle is untagged and the
\* PVID, and every trunk but the tag of the bundle is tagged.
THEOREM TaggingIsExact == Spec => []TaggingMatchesConfig
<1>1. Init => TaggingMatchesConfig
    BY DEF Init, TaggingMatchesConfig, AccessPortsUntagged, TrunksTagged
<1>2. IInv /\ TaggingMatchesConfig /\ [Next]_vars => TaggingMatchesConfig'
    BY NextUntagged, NextTrunks DEF TaggingMatchesConfig
<1> QED
    BY <1>1, <1>2, InitIInv, NextIInv, PTL DEF Spec

-----------------------------------------------------------------------------
(* How far finding "native_tagging" reaches.                               *)

\* The settings of a native bundle leave nothing to decide: a native VLAN
\* that is untagged is not a trunk as well, one that is tagged is.
NativesApart ==
    \A s \in Settings :
        /\ s.mode = "native_untagged" => s.vlan \notin s.trunks
        /\ s.mode = "native_tagged" => s.vlan \in s.trunks

NativeIsTagged(h, c) == Native(c) => h.tag[c.vlan] = ModeTag(c)

\* __vlan_reconfigure by itself is right for all settings: it joins a native
\* VLAN with the tagging of the mode or leaves it as it is.
LEMMA ReconfiguredNative ==
    ASSUME NEW h \in HwPort, NEW c \in CoherentSettings, NEW s \in CoherentSettings,
           NativeIsTagged(h, c)
    PROVE  NativeIsTagged(Reconfigured(h, c, s), s)
<1> SUFFICES ASSUME Native(s)
             PROVE  Reconfigured(h, c, s).tag[s.vlan] = ModeTag(s)
    BY DEF NativeIsTagged
<1>1. s.vlan \in Vids /\ s.mode # "trunk" /\ s.mode # "access"
    BY SettingsFacts DEF Native
<1> DEFINE d == DeletePhase(h, c, s)
<1>2. d \in HwPort
    BY DeletePhaseFacts
<1>3. CASE VlanChanged(c, s)
    <2> HIDE DEF d
    <2>1. AddPhase(d, c, s).tag[s.vlan] = ModeTag(s)
        BY <1>1, <1>2, <1>3, AddPhaseTagging
    <2> QED
        BY <2>1 DEF Reconfigured, d
<1>4. CASE ~VlanChanged(c, s)
    <2>1. c.vlan = s.vlan /\ c.mode = s.mode
        BY <1>4 DEF VlanChanged
    <2>2. h.tag[s.vlan] = ModeTag(s)
        BY <2>1 DEF NativeIsTagged, Native, ModeTag
    <2>3. s.vlan \notin Deleted(c, s) /\ s.vlan \notin Added(c, s)
        BY <1>4, <2>1 DEF Deleted, Added, RemovedTrunks, AddedTrunks, NativeVid, Native
    <2>4. d.tag[s.vlan] = h.tag[s.vlan]
        BY <1>1, <2>3, DeletePhaseTagging
    <2> HIDE DEF d
    <2>5. AddPhase(d, c, s).tag[s.vlan] = d.tag[s.vlan]
        BY <1>1, <1>2, <2>3, AddPhaseTagging
    <2> QED
        BY <2>2, <2>4, <2>5 DEF Reconfigured, d
<1> QED
    BY <1>3, <1>4

\* __ofbundle_port_add is right where the settings leave nothing to decide.
LEMMA PortAddNative ==
    ASSUME NativesApart, NEW h \in HwPort, NEW c \in CoherentSettings \cap Settings
    PROVE  NativeIsTagged(PortAdd(h, c), c)
<1> SUFFICES ASSUME Native(c)
             PROVE  PortAdd(h, c).tag[c.vlan] = ModeTag(c)
    BY DEF NativeIsTagged
<1>1. c.vlan \in Vids
    BY SettingsFacts DEF Native
<1>2. CASE c.mode = "native_untagged"
    <2>1. c.vlan \notin c.trunks
        BY <1>2 DEF NativesApart
    <2> QED
        BY <1>1, <1>2, <2>1, PortAddTagging DEF ModeTag
<1>3. CASE c.mode = "native_tagged"
    <2>1. c.vlan \in c.trunks
        BY <1>3 DEF NativesApart
    <2> QED
        BY <1>1, <1>3, <2>1, PortAddTagging DEF ModeTag
<1> QED
    BY <1>2, <1>3 DEF Native

\* The port no call failed for, in a native bundle, has the native tagging.
NativesTagged ==
    \A p \in Ports \ faulted :
        bundleOf[p] # NoBundle => NativeIsTagged(hw[p], cfg[bundleOf[p]])

LEMMA NextNative ==
    ASSUME NativesApart, IInv, NativesTagged, [Next]_vars
    PROVE  NativesTagged'
<1> SUFFICES ASSUME NEW p \in Ports \ faulted', bundleOf'[p] # NoBundle
             PROVE  NativeIsTagged(hw'[p], cfg'[bundleOf'[p]])
    BY DEF NativesTagged, NativeIsTagged
<1>1. /\ p \notin faulted /\ Fate(p) /\ hw[p] \in HwPort
      /\ cfg'[bundleOf'[p]] \in CoherentSettings \cap Settings
      /\ bundleOf[p] # NoBundle => cfg[bundleOf[p]] \in CoherentSettings
    BY StepFacts
<1>2. bundleOf[p] # NoBundle => NativeIsTagged(hw[p], cfg[bundleOf[p]])
    BY <1>1 DEF NativesTagged
<1>3. CASE Kept(p)
    BY <1>2, <1>3 DEF Kept
<1>4. CASE Reset(p)
    BY <1>1, <1>2, <1>4, ReconfiguredNative DEF Reset
<1>5. CASE Moved(p)
    BY <1>1, <1>5, PortAddNative DEF Moved
<1>6. CASE Freed(p)
    BY <1>6 DEF Freed
<1> QED
    BY <1>1, <1>3, <1>4, <1>5, <1>6 DEF Fate

\* Only the trunks of the settings can break the native tagging: if every
\* native VLAN agrees with the trunks it is passed with, a port has the
\* tagging of the native mode after every history without a SAI failure.
\* Run native_tagging shows that the hypothesis cannot be dropped.
THEOREM NativeTaggingOtherwiseExact ==
    Spec /\ NativesApart => []NativeVlanTakesPriority
<1>1. NativesApart /\ Init => NativesTagged
    BY DEF Init, NativesTagged
<1>2. NativesApart /\ IInv /\ NativesTagged /\ [Next]_vars
        => (NativesApart /\ NativesTagged)'
    BY NextNative DEF NativesApart
<1>3. NativesTagged => NativeVlanTakesPriority
    BY DEF NativesTagged, NativeIsTagged, ModeTag, NativeVlanTakesPriority
<1> QED
    BY <1>1, <1>2, <1>3, InitIInv, NextIInv, PTL DEF Spec

=============================================================================
