------------------------- MODULE PortSettingsProofs -------------------------
(* Proofs about the settings of ports.  PortConfig: for any values of the   *)
(* attributes, any requests, with failures and other writers or without.    *)
(* EcmpHash: for any number of ports, any requests and any port that may    *)
(* fail.                                                                    *)
EXTENDS PortConfig, EcmpHash, TLAPS

Names == {"autoneg", "speed", "mtu", "pause", "enable"}

LEMMA ZeroNames == DOMAIN Zero = Names
BY DEF Zero, Names

LEMMA Joined ==
    ASSUME NEW s \in Seq(Names), NEW x \in Names
    PROVE  /\ s \o <<x>> \in Seq(Names) /\ Len(s \o <<x>>) = Len(s) + 1
           /\ \A i \in 1 .. Len(s) : (s \o <<x>>)[i] = s[i]
           /\ (s \o <<x>>)[Len(s) + 1] = x
OBVIOUS

\* The admin state is written last.
LEMMA OrderFacts ==
    /\ Attributes = {Order[i] : i \in DOMAIN Order} /\ Attributes \subseteq Names
    /\ DOMAIN Order \subseteq Nat
    /\ \A i, j \in DOMAIN Order : j < i => Order[j] # "enable"
    /\ {"mtu", "enable"} \subseteq Attributes
<1> DEFINE three == <<"autoneg", "speed", "mtu">>
           rest == IF HasPause THEN <<"pause">> ELSE <<>>
           front == three \o rest
<1>1. /\ three \in Seq(Names) /\ Len(three) = 3 /\ three[3] = "mtu"
      /\ \A i \in 1 .. 3 : three[i] \in Names \ {"enable"}
    BY DEF Names
<1>2. front \in Seq(Names) /\ Len(front) >= 3 /\ front[3] = "mtu"
      /\ \A i \in 1 .. Len(front) : front[i] \in Names \ {"enable"}
    <2>1. CASE HasPause
        <3>1. rest = <<"pause">> /\ "pause" \in Names
            BY <2>1 DEF Names
        <3>b. PICK p \in Names : p = "pause"
            BY <3>1
        <3>2. front = three \o <<p>>
            BY <3>1, <3>b
        <3> HIDE DEF three, front
        <3>c. three \in Seq(Names)
            BY <1>1
        <3>a. /\ front \in Seq(Names) /\ Len(front) = Len(three) + 1
              /\ \A i \in 1 .. Len(three) : front[i] = three[i]
              /\ front[Len(three) + 1] = p
            BY <3>2, <3>c, Joined
        <3>3. front \in Seq(Names) /\ Len(front) = 4 /\ front[4] = "pause"
              /\ \A i \in 1 .. 3 : front[i] = three[i]
            BY <1>1, <3>a, <3>b
        <3>4. ASSUME NEW i \in 1 .. Len(front)
              PROVE  front[i] \in Names \ {"enable"}
            <4>1. i \in 1 .. 3 \/ i = 4
                BY <3>3
            <4> QED
                BY <1>1, <3>1, <3>3, <4>1
        <3> QED
            BY <1>1, <3>3, <3>4
    <2>2. CASE ~HasPause
        <3>1. rest = <<>>
            BY <2>2
        <3>2. front = three \o <<>>
            BY <3>1
        <3> HIDE DEF three
        <3>3. three \o <<>> = three
            BY <1>1
        <3> QED
            BY <1>1, <3>2, <3>3
    <2> QED
        BY <2>1, <2>2
<1>3. Order = front \o <<"enable">>
    BY DEF Order
<1> HIDE DEF front
<1>4. /\ Order \in Seq(Names) /\ Len(Order) = Len(front) + 1 /\ Len(front) \in Nat
      /\ \A i \in 1 .. Len(front) : Order[i] = front[i]
      /\ Order[Len(front) + 1] = "enable"
    <2>1. "enable" \in Names
        BY DEF Names
    <2> QED
        BY <1>2, <1>3, <2>1, Joined
<1>5. DOMAIN Order = 1 .. Len(Order)
    BY <1>4
<1>6. Attributes = {Order[i] : i \in DOMAIN Order}
    BY DEF Attributes, ToSet
<1>7. \A i, j \in DOMAIN Order : j < i => Order[j] # "enable"
    BY <1>2, <1>4, <1>5
<1>8. Order[3] = "mtu" /\ 3 \in DOMAIN Order /\ Len(front) + 1 \in DOMAIN Order
    BY <1>2, <1>4, <1>5
<1>9. {"mtu", "enable"} \subseteq Attributes
    BY <1>4, <1>6, <1>8
<1> QED
    BY <1>4, <1>5, <1>6, <1>7, <1>9

\* A configuration is a function from the names of attributes to their values.
LEMMA ConfigFacts ==
    /\ \A f \in Configs : DOMAIN f = Names /\ \A a \in Names : f[a] \in Values[a]
    /\ \A f : /\ f = [a \in Names |-> f[a]] /\ \A a \in Names : f[a] \in Values[a]
              => f \in Configs
BY DEF Configs, Values, Names

-----------------------------------------------------------------------------
\* After a success the cache is what the arguments asked for.
Typed ==
    /\ hw \in Configs /\ config \in Configs \cup {Zero} /\ default \in Configs \cup {Zero}
    /\ open \in BOOLEAN /\ (open => default \in Configs)
    /\ asked \in Requests \cup {<<>>} /\ last \in {"none", "ok", "failed"}
    /\ unsynced \subseteq Attributes
Agreed == open /\ last = "ok" => \A a \in Names : config[a] = Promised(a)

IInv == Typed /\ CacheIsTrue /\ Agreed

LEMMA ZeroFacts == Zero = [a \in Names |-> Zero[a]]
BY DEF Zero, Names

LEMMA WrittenFacts ==
    ASSUME NEW old \in Configs, NEW new \in Configs, NEW W
    PROVE  /\ Written(old, W, new) \in Configs
           /\ \A a \in Names : Written(old, W, new)[a] = IF a \in W THEN new[a] ELSE old[a]
<1> DEFINE f == Written(old, W, new)
<1>1. f = [a \in Names |-> IF a \in W THEN new[a] ELSE old[a]]
    BY ZeroNames DEF Written
<1>2. \A a \in Names : old[a] \in Values[a] /\ new[a] \in Values[a]
    BY ConfigFacts
<1> HIDE DEF f
<1>3. \A a \in Names : f[a] = (IF a \in W THEN new[a] ELSE old[a]) /\ f[a] \in Values[a]
    BY <1>1, <1>2
<1>4. f = [a \in Names |-> f[a]]
    BY <1>1
<1>5. f \in Configs
    BY <1>3, <1>4, ConfigFacts
<1> QED
    BY <1>3, <1>5 DEF f

LEMMA ChangedFacts ==
    ASSUME NEW f \in Configs, NEW b \in Names, NEW v \in Values[b]
    PROVE  /\ [f EXCEPT ![b] = v] \in Configs
           /\ \A a \in Names \ {b} : [f EXCEPT ![b] = v][a] = f[a]
<1> DEFINE g == [f EXCEPT ![b] = v]
<1>1. DOMAIN f = Names /\ \A a \in Names : f[a] \in Values[a]
    BY ConfigFacts
<1>2. g = [a \in Names |-> IF a = b THEN v ELSE f[a]]
    BY <1>1
<1> HIDE DEF g
<1>3. \A a \in Names : g[a] = (IF a = b THEN v ELSE f[a]) /\ g[a] \in Values[a]
    BY <1>1, <1>2
<1>4. g = [a \in Names |-> g[a]]
    BY <1>2
<1>5. g \in Configs
    BY <1>3, <1>4, ConfigFacts
<1> QED
    BY <1>3, <1>5 DEF g

LEMMA WantedFacts ==
    ASSUME NEW r \in Requests, default \in Configs
    PROVE  /\ Wanted(r) \in Configs
           /\ \A a \in Names : Wanted(r)[a] = IF a \in DOMAIN r THEN r[a] ELSE default[a]
<1> DEFINE f == Wanted(r)
<1>1. f = [a \in Names |-> IF a \in DOMAIN r THEN r[a] ELSE default[a]]
    BY ZeroNames DEF Wanted
<1>2. \A a \in Names : default[a] \in Values[a] /\ (a \in DOMAIN r => r[a] \in Values[a])
    BY ConfigFacts, PortAssumption
<1> HIDE DEF f
<1>3. \A a \in Names : /\ f[a] = IF a \in DOMAIN r THEN r[a] ELSE default[a]
                       /\ f[a] \in Values[a]
    BY <1>1, <1>2
<1>4. f = [a \in Names |-> f[a]]
    BY <1>1
<1>5. f \in Configs
    BY <1>3, <1>4, ConfigFacts
<1> QED
    BY <1>3, <1>5 DEF f

\* What is not written does not differ from the cache.
LEMMA DifferingFacts ==
    ASSUME NEW new
    PROVE  \A a \in Attributes \ NamesOf(Differing(new)) : config[a] = new[a]
BY OrderFacts DEF NamesOf, Differing

LEMMA InitInvariant == Init => IInv
BY PortAssumption DEF Init, IInv, Typed, CacheIsTrue, Agreed

LEMMA OpenInvariant ==
    ASSUME IInv, Open
    PROVE  IInv'
<1>1. /\ open' = TRUE /\ config' = Zero /\ asked' = <<>> /\ last' = "none"
      /\ unsynced' = Attributes /\ hw' = hw /\ hw \in Configs
      /\ default' = IF HasPause THEN hw ELSE [hw EXCEPT !.pause = "disable"]
    BY DEF Open, IInv, Typed
<1>2. default' \in Configs
    BY <1>1, PortAssumption DEF Configs
<1> QED
    BY <1>1, <1>2 DEF IInv, Typed, CacheIsTrue, Agreed

LEMMA ConfigSetInvariant ==
    ASSUME IInv, NEW r \in Requests, ConfigSet(r)
    PROVE  IInv'
<1>1. /\ open = TRUE /\ open' = TRUE /\ default' = default /\ default \in Configs /\ hw \in Configs
      /\ asked' = r /\ unsynced \subseteq Attributes
    BY DEF ConfigSet, IInv, Typed
<1>2. PICK new \in Configs :
          /\ new = Wanted(r)
          /\ \A a \in Names : new[a] = IF a \in DOMAIN r THEN r[a] ELSE default[a]
    BY <1>1, WantedFacts
<1>3. Attributes \subseteq Names
    BY OrderFacts
<1>4. CASE ConfigSetSucceeds(new)
    <2> DEFINE W == NamesOf(Differing(new))
    <2>1. /\ hw' = Written(hw, W, new) /\ config' = new /\ last' = "ok"
          /\ unsynced' = unsynced \ W
        BY <1>4 DEF ConfigSetSucceeds
    <2>2. \A a \in Attributes \ W : config[a] = new[a]
        BY DifferingFacts
    <2> HIDE DEF W
    <2>3. hw' \in Configs /\ \A a \in Names : hw'[a] = IF a \in W THEN new[a] ELSE hw[a]
        BY <1>1, <2>1, WrittenFacts
    <2>4. Typed'
        BY <1>1, <2>1, <2>3 DEF Typed
    <2>5. CacheIsTrue'
        BY <1>1, <1>3, <2>1, <2>2, <2>3 DEF IInv, CacheIsTrue
    <2>6. Agreed'
        BY <1>1, <1>2, <2>1 DEF Agreed, Promised
    <2> QED
        BY <2>4, <2>5, <2>6 DEF IInv
<1>5. CASE ConfigSetFails(new)
    <2>1. PICK i \in Differing(new) :
              LET written == NamesOf({j \in Differing(new) : j < i})
              IN  hw' = Written(hw, written, new) /\ unsynced' = unsynced \cup written
        BY <1>5 DEF ConfigSetFails
    <2>2. PICK W : /\ W = NamesOf({j \in Differing(new) : j < i})
                   /\ hw' = Written(hw, W, new) /\ unsynced' = unsynced \cup W
        BY <2>1
    <2>3. W \subseteq Attributes
        BY <2>2, OrderFacts DEF NamesOf, Differing
    <2>4. config' = config /\ last' = "failed"
        BY <1>5 DEF ConfigSetFails, CacheOnFailure
    <2>5. hw' \in Configs /\ \A a \in Names : hw'[a] = IF a \in W THEN new[a] ELSE hw[a]
        BY <1>1, <2>2, WrittenFacts
    <2>6. Typed'
        BY <1>1, <2>2, <2>3, <2>4, <2>5 DEF IInv, Typed
    <2>7. CacheIsTrue'
        BY <1>1, <1>3, <2>2, <2>4, <2>5 DEF IInv, CacheIsTrue
    <2> QED
        BY <2>4, <2>6, <2>7 DEF IInv, Agreed
<1> QED
    BY <1>2, <1>4, <1>5 DEF ConfigSet

LEMMA WritePastInvariant ==
    ASSUME IInv, NEW a \in Attributes, NEW v \in Values[a], WritePast(a, v)
    PROVE  IInv'
<1>1. /\ hw' = [hw EXCEPT ![a] = v] /\ unsynced' = unsynced \cup {a} /\ last' = "none"
      /\ UNCHANGED <<open, config, default, asked>>
    BY DEF WritePast
<1>2. a \in Names /\ Attributes \subseteq Names
    BY OrderFacts
<1>a. hw \in Configs /\ a \in Names /\ v \in Values[a]
    BY <1>2 DEF IInv, Typed
<1>b. /\ [hw EXCEPT ![a] = v] \in Configs
      /\ \A b \in Names \ {a} : [hw EXCEPT ![a] = v][b] = hw[b]
    BY <1>a, ChangedFacts
<1>3. hw' \in Configs /\ \A b \in Names \ {a} : hw'[b] = hw[b]
    BY <1>1, <1>b
<1> QED
    BY <1>1, <1>2, <1>3 DEF IInv, Typed, CacheIsTrue, Agreed

\* What set_mtu and update_flags write are attributes.
LEMMA PastFacts ==
    /\ {"mtu", "enable"} \subseteq Attributes
    /\ Values["mtu"] = Mtus /\ Values["enable"] = BOOLEAN
BY OrderFacts DEF Values

LEMMA StepInvariant == IInv /\ [Next]_vars => IInv'
<1>1. ASSUME IInv, NEW r \in Requests, ConfigSet(r)
      PROVE  IInv'
    BY <1>1, ConfigSetInvariant
<1>2. ASSUME IInv, NEW m \in Mtus, SetMtu(m)
      PROVE  IInv'
    BY <1>2, PastFacts, WritePastInvariant DEF SetMtu
<1>3. ASSUME IInv, NEW up \in BOOLEAN, UpdateFlags(up)
      PROVE  IInv'
    BY <1>3, PastFacts, WritePastInvariant DEF UpdateFlags
<1>4. ASSUME IInv, Close
      PROVE  IInv'
    BY <1>4 DEF Close, IInv, Typed, CacheIsTrue, Agreed
<1>5. ASSUME IInv, UNCHANGED vars
      PROVE  IInv'
    BY <1>5 DEF vars, IInv, Typed, CacheIsTrue, Agreed, Promised
<1> QED
    BY <1>1, <1>2, <1>3, <1>4, <1>5, OpenInvariant DEF Next

LEMMA Invariance == Spec => []IInv
BY InitInvariant, StepInvariant, PTL DEF Spec

\* The port, the cache and the defaults are configurations throughout.
THEOREM TypeCorrect == Spec => []TypeOK
<1>1. IInv => TypeOK
    BY DEF IInv, Typed, TypeOK
<1> QED
    BY <1>1, Invariance, PTL

\* The cache claims nothing that the ASIC does not have, but for what failing calls
\* or other writers wrote.
THEOREM CacheHolds == Spec => []CacheIsTrue
BY Invariance, PTL DEF IInv

\* What a call that succeeded asked for is in force, and defaults elsewhere.
THEOREM RequestsTakeEffect == Spec => []RequestInForce
<1>1. IInv => RequestInForce
    BY OrderFacts DEF IInv, CacheIsTrue, Agreed, RequestInForce
<1> QED
    BY <1>1, Invariance, PTL

\* A call that fails leaves the admin state, which is written last.
THEOREM AdminStateLast == Spec => FailureKeepsAdminState
<1>1. ASSUME IInv, [Next]_vars, ~UNCHANGED vars, last' = "failed"
      PROVE  hw'["enable"] = hw["enable"]
    <2>1. CASE Close
        BY <2>1 DEF Close
    <2>2. CASE Open \/ \E m \in Mtus : SetMtu(m)
        BY <1>1, <2>2 DEF Open, SetMtu, WritePast
    <2>3. CASE \E up \in BOOLEAN : UpdateFlags(up)
        BY <1>1, <2>3 DEF UpdateFlags, WritePast
    <2>4. ASSUME NEW r \in Requests, ConfigSet(r)
          PROVE  hw'["enable"] = hw["enable"]
        <3>1. PICK new : new = Wanted(r) /\ new \in Configs
            BY <1>1, <2>4, WantedFacts DEF ConfigSet, IInv, Typed
        <3>2. ConfigSetFails(new)
            BY <1>1, <2>4, <3>1 DEF ConfigSet, ConfigSetSucceeds
        <3>3. PICK i \in Differing(new) :
                  hw' = Written(hw, NamesOf({j \in Differing(new) : j < i}), new)
            BY <3>2 DEF ConfigSetFails
        <3>4. "enable" \notin NamesOf({j \in Differing(new) : j < i})
            BY OrderFacts DEF NamesOf, Differing
        <3>5. "enable" \in Names /\ hw \in Configs
            BY <1>1 DEF Names, IInv, Typed
        <3> QED
            BY <3>1, <3>3, <3>4, <3>5, WrittenFacts
    <2> QED
        BY <1>1, <2>1, <2>2, <2>3, <2>4 DEF Next
<1>2. IInv /\ [Next]_vars => [last' = "failed" => hw'["enable"] = hw["enable"]]_vars
    BY <1>1
<1> QED
    BY <1>2, Invariance, PTL DEF Spec, FailureKeepsAdminState

-----------------------------------------------------------------------------
(* EcmpHash.                                                                *)

\* What the user asked for is kept, also when it could not be done; and the ports
\* hash on something that was asked for lately.
Kept ==
    /\ switched = ghash
    /\ \A p \in Ports : \E h \in recent : FieldsList(h) # {} /\ params[p] = ToSdk(h)

HashIInv == HashTypeOK /\ SuccessHeals /\ Kept

LEMMA SdkType == \A h : ToSdk(h) \in HashParams /\ ToSdk(h).fields = FieldsList(h)
BY DEF ToSdk, FieldsList, EnablesList, HashParams

LEMMA HashInitInvariant == HashInit => HashIInv
<1> SUFFICES ASSUME HashInit
             PROVE  HashIInv
    OBVIOUS
<1>1. FieldsList(SupportedHashFields) # {}
    BY DEF FieldsList, SupportedHashFields
<1> QED
    BY <1>1, SdkType DEF HashInit, HashIInv, HashTypeOK, SuccessHeals, Kept, Bits

LEMMA TurnedType ==
    ASSUME HashIInv, NEW b \in HashRequests, NEW enable \in BOOLEAN
    PROVE  Turned(b, enable) \in SUBSET Bits
BY HashAssumption DEF HashIInv, HashTypeOK, Turned

LEMMA CompletesInvariant ==
    ASSUME HashIInv, NEW new \in SUBSET Bits, Completes(new), switched' = new
    PROVE  HashIInv'
<1>1. FieldsList(new) # {} /\ params' = [p \in Ports |-> ToSdk(new)]
      /\ ghash' = new /\ ended' = "ok" /\ recent' = {new}
    BY DEF Completes
<1>2. HashTypeOK'
    BY <1>1, SdkType DEF HashTypeOK
<1>3. SuccessHeals'
    BY <1>1 DEF SuccessHeals
<1>4. Kept'
    BY <1>1 DEF Kept
<1> QED
    BY <1>2, <1>3, <1>4 DEF HashIInv

\* Each port has been set, or is as it was.
LEMMA FailsInvariant ==
    ASSUME HashIInv, NEW new \in SUBSET Bits, Fails(new), switched' = new
    PROVE  HashIInv'
<1>1. /\ ghash' = new /\ ended' = "failed" /\ recent' = recent \cup {new}
      /\ StopsEarly(new) \/ Refused(new)
    BY DEF Fails, HashOnError
<1>2. PICK D \in SUBSET Ports :
          /\ params' = [p \in Ports |-> IF p \in D THEN ToSdk(new) ELSE params[p]]
          /\ D # {} => FieldsList(new) # {}
    <2>1. CASE StopsEarly(new)
        <3>a. PICK x \in Fallible : \E D \in SUBSET (Ports \ {x}) :
                  params' = [p \in Ports |-> IF p \in D THEN ToSdk(new) ELSE params[p]]
            BY <2>1 DEF StopsEarly
        <3>1. PICK D \in SUBSET (Ports \ {x}) :
                  params' = [p \in Ports |-> IF p \in D THEN ToSdk(new) ELSE params[p]]
            BY <3>a
        <3>2. D \in SUBSET Ports /\ FieldsList(new) # {}
            BY <2>1 DEF StopsEarly
        <3> QED
            BY <3>1, <3>2
    <2>2. CASE Refused(new)
        <3>1. params' = [p \in Ports |-> IF p \in {} THEN ToSdk(new) ELSE params[p]]
            BY <2>2 DEF Refused, HashIInv, HashTypeOK
        <3> QED
            BY <3>1
    <2> QED
        BY <1>1, <2>1, <2>2
<1>3. HashTypeOK'
    BY <1>1, <1>2, SdkType DEF HashIInv, HashTypeOK
<1>4. SuccessHeals'
    BY <1>1 DEF SuccessHeals
<1>5. Kept'
    <2>1. ASSUME NEW p \in Ports
          PROVE  \E h \in recent' : FieldsList(h) # {} /\ params'[p] = ToSdk(h)
        <3>1. CASE p \in D
            BY <1>1, <1>2, <3>1
        <3>2. CASE p \notin D
            BY <1>1, <1>2, <3>2 DEF HashIInv, Kept
        <3> QED
            BY <3>1, <3>2
    <2> QED
        BY <1>1, <2>1 DEF Kept
<1> QED
    BY <1>3, <1>4, <1>5 DEF HashIInv

LEMMA HashStepInvariant == HashIInv /\ [HashNext]_hashVars => HashIInv'
<1>1. ASSUME HashIInv, NEW b \in HashRequests, NEW enable \in BOOLEAN, HashSet(b, enable)
      PROVE  HashIInv'
    <2>1. PICK new \in SUBSET Bits : new = Turned(b, enable)
        BY <1>1, TurnedType
    <2>2. switched' = new
        BY <1>1, <2>1 DEF HashSet, Turned, HashIInv, Kept
    <2>3. Completes(new) \/ Fails(new)
        BY <1>1, <2>1 DEF HashSet
    <2> QED
        BY <1>1, <2>2, <2>3, CompletesInvariant, FailsInvariant
<1>2. ASSUME HashIInv, UNCHANGED hashVars
      PROVE  HashIInv'
    BY <1>2 DEF hashVars, HashIInv, HashTypeOK, SuccessHeals, Kept
<1> QED
    BY <1>1, <1>2 DEF HashNext

LEMMA HashInvariance == HashSpec => []HashIInv
BY HashInitInvariant, HashStepInvariant, PTL DEF HashSpec

\* Ports have hash parameters that the SDK knows, whatever bits the user names.
THEOREM HashTypeCorrect == HashSpec => []HashTypeOK
BY HashInvariance, PTL DEF HashIInv

\* After a call that succeeded all ports hash on what the user has switched on, in
\* calls that failed too.
THEOREM SuccessRepairs == HashSpec => []SuccessHeals
BY HashInvariance, PTL DEF HashIInv

\* A port left behind by failures hashes on what was wanted at some time since the
\* last success, never on a mixture or on nothing.
THEOREM PortsHashOnOneRequest == HashSpec => []NoMixture
<1>1. HashIInv => NoMixture
    BY SdkType DEF HashIInv, Kept, NoMixture
<1> QED
    BY <1>1, HashInvariance, PTL

=============================================================================
