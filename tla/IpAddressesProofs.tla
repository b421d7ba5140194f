-------------------------- MODULE IpAddressesProofs --------------------------
(* Proofs about IpAddresses for any bundles and addresses, any settings,    *)
(* with SDK calls that fail for no reason or without.                       *)
EXTENDS IpAddresses, TLAPS

-----------------------------------------------------------------------------
(* The inductive invariant, of any state st.                               *)

Has(st, b, r, a) == st.bundle[b] # None /\ a \in st.bundle[b][r]

\* A recorded address is trapped; a trap is of a recorded address; and an IP is
\* recorded once: or else history says so.
Recorded(st) ==
    \A b \in Bundles, r \in Roles, a \in Addrs :
        Has(st, b, r, a) => Prefix(a, SetV6(r)) \in st.route \/ Ip[a] \in st.shared

Answered(st, x) ==
    \/ \E b \in Bundles, r \in Roles, a \in Addrs :
          Has(st, b, r, a) /\ x = Prefix(a, SetV6(r))
    \/ x.ip \in st.left \cup st.shared

Single(st) ==
    \A b, c \in Bundles, r, q \in Roles, a, d \in Addrs :
        (/\ Has(st, b, r, a) /\ Has(st, c, q, d) /\ Ip[a] = Ip[d]
         /\ b # c \/ r # q \/ a # d)
            => Ip[a] \in st.shared

Good(st) ==
    /\ st \in State /\ Recorded(st) /\ Single(st)
    /\ \A x \in st.route : Answered(st, x)

\* The way from st to t forgets no double record, and keeps the addresses of K
\* that are trapped and not recorded twice.
Keeps(K, st, t) ==
    /\ st.shared \subseteq t.shared
    /\ \A c \in Bundles, q \in Roles, a \in Addrs :
        (/\ <<c, q, a>> \in K /\ Has(st, c, q, a)
         /\ Prefix(a, SetV6(q)) \in st.route /\ Ip[a] \notin t.shared)
            => Has(t, c, q, a) /\ Prefix(a, SetV6(q)) \in t.route

LEMMA KeepsTransitive ==
    ASSUME NEW K, NEW s, NEW t, NEW u, Keeps(K, s, t), Keeps(K, t, u)
    PROVE  Keeps(K, s, u)
BY DEF Keeps

LEMMA KeepsSame == ASSUME NEW K, NEW s PROVE Keeps(K, s, s)
BY DEF Keeps

-----------------------------------------------------------------------------
(* Roles, records and prefixes.                                            *)

LEMMA RoleFacts ==
    /\ Roles = {"p4", "p6", "s4", "s6"}
    /\ \A r \in Roles : SetV6(r) \in BOOLEAN /\ DestroyV6(r) \in BOOLEAN
    /\ \A r \in Roles : r # "s6" => SetV6(r) = DestroyV6(r)
BY DEF Roles, Primary, SetV6, DestroyV6

LEMMA AllowedFacts ==
    /\ Allowed["p4"] = One(Addrs \ V6) /\ Allowed["p6"] = One(V6)
    /\ Allowed["s4"] = SUBSET (Addrs \ V6) /\ Allowed["s6"] = SUBSET V6
BY DEF Allowed

\* What a role may have is a set of addresses of its family, and so is any part.
LEMMA AllowedParts ==
    ASSUME NEW r \in Roles, NEW S \in Allowed[r], NEW T \in SUBSET S
    PROVE  /\ T \in Allowed[r] /\ T \subseteq Addrs
           /\ r \in {"p6", "s6"} => T \subseteq V6
<1>1. CASE r = "p4"
    BY <1>1, AllowedFacts DEF One
<1>2. CASE r = "p6"
    BY <1>2, AllowedFacts, IpAssumption DEF One
<1>3. CASE r = "s4"
    BY <1>3, AllowedFacts
<1>4. CASE r = "s6"
    BY <1>4, AllowedFacts, IpAssumption
<1> QED
    BY <1>1, <1>2, <1>3, <1>4, RoleFacts

LEMMA RecordFacts ==
    ASSUME NEW R \in Records, NEW r \in Roles
    PROVE  R[r] \in Allowed[r] /\ R[r] \subseteq Addrs
BY DEF Records

Entered(R, r, S) == [R EXCEPT ![r] = S]

LEMMA EnteredFacts ==
    ASSUME NEW R \in Records, NEW r \in Roles, NEW S \in Allowed[r]
    PROVE  /\ Entered(R, r, S) \in Records
           /\ \A q \in Roles : Entered(R, r, S)[q] = IF q = r THEN S ELSE R[q]
<1>1. R \in [Roles -> SUBSET Addrs] /\ \A q \in Roles : R[q] \in Allowed[q]
    BY DEF Records
<1>2. PICK Q : Q = Entered(R, r, S)
    OBVIOUS
<1>3. S \subseteq Addrs
    BY AllowedParts
<1>4. Q \in [Roles -> SUBSET Addrs]
    BY <1>1, <1>2, <1>3 DEF Entered
<1>5. \A q \in Roles : Q[q] = IF q = r THEN S ELSE R[q]
    BY <1>1, <1>2 DEF Entered
<1>6. Q \in Records
    BY <1>1, <1>4, <1>5 DEF Records
<1> QED
    BY <1>2, <1>5, <1>6

LEMMA NoAddressesType == NoAddresses \in Records /\ \A r \in Roles : NoAddresses[r] = {}
<1>1. \A r \in Roles : {} \in Allowed[r]
    BY AllowedFacts, RoleFacts DEF One
<1> QED
    BY <1>1 DEF NoAddresses, Records

\* A prefix tells the IP and the length; equal prefixes have one IP.
LEMMA PrefixFacts ==
    ASSUME NEW a \in Addrs, NEW v \in BOOLEAN
    PROVE  /\ Prefix(a, v) \in AllPrefixes
           /\ Prefix(a, v).ip = Ip[a] /\ Ip[a] \in Ips
           /\ \A d \in Addrs, w \in BOOLEAN :
                 Prefix(a, v) = Prefix(d, w) => Ip[a] = Ip[d]
BY DEF Prefix, AllPrefixes, Ips

LEMMA StateFacts ==
    ASSUME NEW st \in State
    PROVE  /\ st = [bundle |-> st.bundle, route |-> st.route, shared |-> st.shared,
                    left |-> st.left]
           /\ st.bundle \in [Bundles -> Records \cup {None}]
           /\ st.route \subseteq AllPrefixes /\ st.shared \subseteq Ips
           /\ st.left \subseteq Ips
           /\ \A b \in Bundles : st.bundle[b] # None => st.bundle[b] \in Records
BY DEF State

LEMMA HoldersFacts ==
    ASSUME NEW st
    PROVE  /\ \A h \in Holders(st) :
                 \E b \in Bundles, r \in Roles, a \in Addrs :
                     h = <<b, r, a>> /\ Has(st, b, r, a)
           /\ \A b \in Bundles, r \in Roles, a \in Addrs :
                 <<b, r, a>> \in Holders(st) <=> Has(st, b, r, a)
BY DEF Holders, Has

-----------------------------------------------------------------------------
(* One record of one bundle changes.                                       *)

\* From st to t the record of role r of bundle b becomes S.
Becomes(st, t, b, r, S) ==
    /\ t \in State /\ t.left = st.left /\ t.bundle[b] # None /\ t.bundle[b][r] = S
    /\ \A c \in Bundles : t.bundle[c] # None <=> st.bundle[c] # None
    /\ \A c \in Bundles, q \in Roles :
          c # b \/ q # r => t.bundle[c][q] = st.bundle[c][q]

Rewritten(st, b, r, S) == [st.bundle EXCEPT ![b][r] = S]

LEMMA BundleFacts ==
    ASSUME NEW st \in State, NEW b \in Bundles, st.bundle[b] # None,
           NEW r \in Roles, NEW S \in Allowed[r],
           NEW B, B = Rewritten(st, b, r, S)
    PROVE  /\ B \in [Bundles -> Records \cup {None}]
           /\ B[b] # None /\ B[b][r] = S
           /\ \A c \in Bundles : B[c] # None <=> st.bundle[c] # None
           /\ \A c \in Bundles, q \in Roles :
                 c # b \/ q # r => B[c][q] = st.bundle[c][q]
<1>1. PICK R \in Records : R = st.bundle[b]
    BY StateFacts
<1>2. PICK Q : Q = Entered(R, r, S)
    OBVIOUS
<1>3. Q \in Records /\ \A q \in Roles : Q[q] = IF q = r THEN S ELSE R[q]
    BY <1>2, EnteredFacts
<1>4. B = [st.bundle EXCEPT ![b] = Q]
    BY <1>1, <1>2 DEF Rewritten, Entered
<1>5. st.bundle \in [Bundles -> Records \cup {None}]
    BY StateFacts
<1>6. B \in [Bundles -> Records \cup {None}] /\ B[b] = Q
      /\ \A c \in Bundles : c # b => B[c] = st.bundle[c]
    BY <1>3, <1>4, <1>5
<1>7. Q # None
    BY <1>3, IpAssumption
<1>8. \A c \in Bundles, q \in Roles : c # b \/ q # r => B[c][q] = st.bundle[c][q]
    BY <1>1, <1>3, <1>6
<1> QED
    BY <1>3, <1>6, <1>7, <1>8

LEMMA BecomesHas ==
    ASSUME NEW st, NEW t, NEW b \in Bundles, st.bundle[b] # None,
           NEW r \in Roles, NEW S, Becomes(st, t, b, r, S),
           NEW c \in Bundles, NEW q \in Roles, NEW a
    PROVE  Has(t, c, q, a) <=> IF c = b /\ q = r THEN a \in S ELSE Has(st, c, q, a)
BY DEF Becomes, Has

LEMMA PrefixesFacts ==
    ASSUME NEW E \in SUBSET Addrs, NEW v \in BOOLEAN
    PROVE  /\ Prefixes(E, v) \subseteq AllPrefixes
           /\ \A x : x \in Prefixes(E, v) <=> \E a \in E : x = Prefix(a, v)
BY PrefixFacts DEF Prefixes

LEMMA DroppedFacts ==
    ASSUME NEW st \in State, NEW b \in Bundles, st.bundle[b] # None,
           NEW r \in Roles, NEW E \in SUBSET st.bundle[b][r], NEW v \in BOOLEAN,
           NEW t, t = Dropped(st, b, r, E, v)
    PROVE  /\ Becomes(st, t, b, r, st.bundle[b][r] \ E)
           /\ t.route = st.route \ Prefixes(E, v) /\ t.shared = st.shared
<1>1. st.bundle[b][r] \in Allowed[r]
    BY StateFacts, RecordFacts
<1>2. st.bundle[b][r] \ E \in Allowed[r]
    BY <1>1, AllowedParts
<1>3. PICK S \in Allowed[r] : S = st.bundle[b][r] \ E
    BY <1>2
<1>4. PICK B : B = Rewritten(st, b, r, S)
    OBVIOUS
<1>5. /\ B \in [Bundles -> Records \cup {None}]
      /\ B[b] # None /\ B[b][r] = S
      /\ \A c \in Bundles : B[c] # None <=> st.bundle[c] # None
      /\ \A c \in Bundles, q \in Roles :
            c # b \/ q # r => B[c][q] = st.bundle[c][q]
    BY <1>4, BundleFacts
<1>6. t = [bundle |-> B, route |-> st.route \ Prefixes(E, v), shared |-> st.shared,
           left |-> st.left]
    <2>1. t = [st EXCEPT !.route = st.route \ Prefixes(E, v), !.bundle = B]
        BY <1>3, <1>4 DEF Dropped, Rewritten
    <2> QED
        BY <2>1, StateFacts
<1>7. t \in State
    BY <1>5, <1>6, StateFacts DEF State
<1> QED
    BY <1>3, <1>5, <1>6, <1>7 DEF Becomes

LEMMA DroppedIsGood ==
    ASSUME NEW st, Good(st), NEW b \in Bundles, st.bundle[b] # None,
           NEW r \in Roles, NEW E \in SUBSET st.bundle[b][r],
           NEW v \in {SetV6(r), DestroyV6(r)}, Prefixes(E, v) \subseteq st.route,
           NEW t, t = Dropped(st, b, r, E, v)
    PROVE  /\ Good(t) /\ Becomes(st, t, b, r, st.bundle[b][r] \ E)
           /\ \A K : (\A a \in E : <<b, r, a>> \notin K) => Keeps(K, st, t)
<1>1. st \in State /\ v \in BOOLEAN
    BY RoleFacts DEF Good
<1>2. /\ Becomes(st, t, b, r, st.bundle[b][r] \ E)
      /\ t.route = st.route \ Prefixes(E, v) /\ t.shared = st.shared
    BY <1>1, DroppedFacts
<1>3. /\ t \in State /\ t.left = st.left
    BY <1>2 DEF Becomes
<1>4. /\ E \subseteq Addrs
      /\ r = "s6" => E \subseteq V6
    <2>1. st.bundle[b][r] \in Allowed[r]
        BY <1>1, StateFacts, RecordFacts
    <2> QED
        BY <2>1, AllowedParts
<1>5. \A c \in Bundles, q \in Roles, a \in Addrs :
        Has(t, c, q, a) <=> (Has(st, c, q, a) /\ ~(c = b /\ q = r /\ a \in E))
    BY <1>2, BecomesHas DEF Has
<1>6. \A a \in E : Has(st, b, r, a)
    BY DEF Has
<1>7. ASSUME NEW c \in Bundles, NEW q \in Roles, NEW a \in Addrs, Has(t, c, q, a),
             Prefix(a, SetV6(q)) \in Prefixes(E, v)
      PROVE  Ip[a] \in st.shared
    <2>1. PICK e \in E : Prefix(a, SetV6(q)) = Prefix(e, v)
        BY <1>1, <1>4, <1>7, PrefixesFacts
    <2>2. Ip[a] = Ip[e] /\ e \in Addrs
        BY <1>1, <1>4, <2>1, PrefixFacts, RoleFacts
    <2>3. Has(st, c, q, a) /\ Has(st, b, r, e) /\ (c # b \/ q # r \/ a # e)
        BY <1>5, <1>6, <1>7
    <2> QED
        BY <2>2, <2>3 DEF Good, Single
<1>8. Recorded(t)
    BY <1>2, <1>5, <1>7 DEF Good, Recorded
<1>9. Single(t)
    BY <1>2, <1>5 DEF Good, Single
<1>10. ASSUME NEW x \in t.route
       PROVE  Answered(t, x)
    <2>1. x \in st.route /\ x \notin Prefixes(E, v)
        BY <1>2
    <2>2. Answered(st, x)
        BY <2>1 DEF Good
    <2>3. CASE x.ip \in st.left \cup st.shared
        BY <1>2, <1>3, <2>3 DEF Answered
    <2>4. ASSUME NEW c \in Bundles, NEW q \in Roles, NEW a \in Addrs,
                 Has(st, c, q, a), x = Prefix(a, SetV6(q))
          PROVE  Answered(t, x)
        <3>1. CASE ~(c = b /\ q = r /\ a \in E)
            <4>1. Has(t, c, q, a)
                BY <1>5, <2>4, <3>1
            <4> QED
                BY <2>4, <4>1 DEF Answered
        <3>2. CASE c = b /\ q = r /\ a \in E
            <4>1. SetV6(r) # v
                BY <1>1, <1>4, <2>1, <2>4, <3>2, PrefixesFacts
            <4>2. r = "s6" /\ v = TRUE
                BY <4>1, RoleFacts DEF DestroyV6
            <4>3. Prefix(a, v) \in st.route
                BY <1>1, <1>4, <3>2, PrefixesFacts
            <4>4. Answered(st, Prefix(a, v)) /\ Prefix(a, v).ip = Ip[a] /\ x.ip = Ip[a]
                BY <1>1, <2>4, <3>2, <4>3, PrefixFacts, RoleFacts DEF Good
            <4>5. CASE Ip[a] \in st.left \cup st.shared
                BY <1>2, <1>3, <4>4, <4>5 DEF Answered
            <4>6. ASSUME NEW d \in Bundles, NEW p \in Roles, NEW e \in Addrs,
                         Has(st, d, p, e), Prefix(a, v) = Prefix(e, SetV6(p))
                  PROVE  Ip[a] \in st.shared
                <5>1. Ip[a] = Ip[e]
                    BY <1>1, <4>6, PrefixFacts, RoleFacts
                <5>2. p # r
                    BY <4>2, <4>6 DEF Prefix, SetV6
                <5> QED
                    BY <1>6, <2>4, <3>2, <4>6, <5>1, <5>2 DEF Good, Single
            <4>7. Ip[a] \in st.left \cup st.shared
                BY <4>4, <4>5, <4>6 DEF Answered
            <4> QED
                BY <4>5, <4>7
        <3> QED
            BY <3>1, <3>2
    <2> QED
        BY <2>2, <2>3, <2>4 DEF Answered
<1>11. ASSUME NEW K, \A a \in E : <<b, r, a>> \notin K
       PROVE  Keeps(K, st, t)
    <2> SUFFICES ASSUME NEW c \in Bundles, NEW q \in Roles, NEW a \in Addrs,
                        <<c, q, a>> \in K, Has(st, c, q, a),
                        Prefix(a, SetV6(q)) \in st.route, Ip[a] \notin t.shared
                 PROVE  Has(t, c, q, a) /\ Prefix(a, SetV6(q)) \in t.route
        BY <1>2 DEF Keeps
    <2>1. ~(c = b /\ q = r /\ a \in E)
        BY <1>11
    <2>2. Has(t, c, q, a)
        BY <1>5, <2>1
    <2>3. Prefix(a, SetV6(q)) \notin Prefixes(E, v)
        BY <1>2, <1>7, <2>2
    <2> QED
        BY <1>2, <2>2, <2>3
<1> QED
    BY <1>2, <1>3, <1>8, <1>9, <1>10, <1>11 DEF Good

\* What else has the IP of a while the addresses of E are added.
Others(st, b, r, E, a) ==
    {h \in Holders(st) : Ip[h[3]] = Ip[a] /\ h # <<b, r, a>>}
    \cup {<<b, r, e>> : e \in {d \in E : d # a /\ Ip[d] = Ip[a]}}

LEMMA OthersFacts ==
    ASSUME NEW st, NEW b \in Bundles, NEW r \in Roles, NEW E \in SUBSET Addrs, NEW e \in E
    PROVE  /\ \A c \in Bundles, q \in Roles, a \in Addrs :
                 (/\ Has(st, c, q, a) /\ Ip[a] = Ip[e]
                  /\ c # b \/ q # r \/ a # e) => Others(st, b, r, E, e) # {}
           /\ \A d \in E : d # e /\ Ip[d] = Ip[e] => Others(st, b, r, E, e) # {}
<1>1. ASSUME NEW c \in Bundles, NEW q \in Roles, NEW a \in Addrs,
             Has(st, c, q, a), Ip[a] = Ip[e], c # b \/ q # r \/ a # e
      PROVE  Others(st, b, r, E, e) # {}
    <2>1. PICK h : h = <<c, q, a>>
        OBVIOUS
    <2>2. h \in Holders(st) /\ h[3] = a /\ h # <<b, r, e>>
        BY <1>1, <2>1, HoldersFacts
    <2>3. h \in Others(st, b, r, E, e)
        BY <1>1, <2>2 DEF Others
    <2> QED
        BY <2>3
<1>2. ASSUME NEW d \in E, d # e, Ip[d] = Ip[e]
      PROVE  Others(st, b, r, E, e) # {}
    <2>1. <<b, r, d>> \in Others(st, b, r, E, e)
        BY <1>2 DEF Others
    <2> QED
        BY <2>1
<1> QED
    BY <1>1, <1>2

LEMMA AddedFacts ==
    ASSUME NEW st \in State, NEW b \in Bundles, st.bundle[b] # None,
           NEW r \in Roles, NEW E \in SUBSET Addrs, st.bundle[b][r] \cup E \in Allowed[r],
           NEW t, t = Added(st, b, r, E)
    PROVE  /\ Becomes(st, t, b, r, st.bundle[b][r] \cup E)
           /\ t.route = st.route \cup Prefixes(E, SetV6(r))
           /\ st.shared \subseteq t.shared
           /\ \A e \in E : Others(st, b, r, E, e) # {} => Ip[e] \in t.shared
<1>1. PICK S \in Allowed[r] : S = st.bundle[b][r] \cup E
    OBVIOUS
<1>2. PICK B : B = Rewritten(st, b, r, S)
    OBVIOUS
<1>3. /\ B \in [Bundles -> Records \cup {None}]
      /\ B[b] # None /\ B[b][r] = S
      /\ \A c \in Bundles : B[c] # None <=> st.bundle[c] # None
      /\ \A c \in Bundles, q \in Roles :
            c # b \/ q # r => B[c][q] = st.bundle[c][q]
    BY <1>2, BundleFacts
<1>4. PICK D : D = {Ip[a] : a \in {e \in E : Others(st, b, r, E, e) # {}}}
    OBVIOUS
<1>5. t = [bundle |-> B, route |-> st.route \cup Prefixes(E, SetV6(r)),
           shared |-> st.shared \cup D, left |-> st.left]
    <2>1. t = [st EXCEPT !.route = st.route \cup Prefixes(E, SetV6(r)), !.bundle = B,
                         !.shared = st.shared \cup D]
        BY <1>1, <1>2, <1>4 DEF Added, Rewritten, Others
    <2> QED
        BY <2>1, StateFacts
<1>6. D \subseteq Ips /\ \A e \in E : Others(st, b, r, E, e) # {} => Ip[e] \in D
    BY <1>4, PrefixFacts DEF Ips
<1>7. Prefixes(E, SetV6(r)) \subseteq AllPrefixes
    BY PrefixesFacts, RoleFacts
<1>8. t \in State
    BY <1>3, <1>5, <1>6, <1>7, StateFacts DEF State
<1> QED
    BY <1>1, <1>3, <1>5, <1>6, <1>8 DEF Becomes

LEMMA AddedIsGood ==
    ASSUME NEW st, Good(st), NEW b \in Bundles, st.bundle[b] # None,
           NEW r \in Roles, NEW E \in SUBSET Addrs, st.bundle[b][r] \cup E \in Allowed[r],
           NEW t, t = Added(st, b, r, E)
    PROVE  /\ Good(t) /\ Becomes(st, t, b, r, st.bundle[b][r] \cup E)
           /\ \A K : Keeps(K, st, t)
<1>1. st \in State /\ SetV6(r) \in BOOLEAN
    BY RoleFacts DEF Good
<1>2. /\ Becomes(st, t, b, r, st.bundle[b][r] \cup E)
      /\ t.route = st.route \cup Prefixes(E, SetV6(r))
      /\ st.shared \subseteq t.shared
      /\ \A e \in E : Others(st, b, r, E, e) # {} => Ip[e] \in t.shared
    BY <1>1, AddedFacts
<1>3. t \in State /\ t.left = st.left
    BY <1>2 DEF Becomes
<1>4. \A c \in Bundles, q \in Roles, a \in Addrs :
        Has(t, c, q, a) <=> (Has(st, c, q, a) \/ (c = b /\ q = r /\ a \in E))
    <2>1. ASSUME NEW c \in Bundles, NEW q \in Roles, NEW a \in Addrs
          PROVE  Has(t, c, q, a) <=> IF c = b /\ q = r THEN a \in st.bundle[b][r] \cup E
                                     ELSE Has(st, c, q, a)
        BY <1>2, BecomesHas
    <2> QED
        BY <2>1 DEF Has
<1>5. Recorded(t)
    <2> SUFFICES ASSUME NEW c \in Bundles, NEW q \in Roles, NEW a \in Addrs,
                        Has(t, c, q, a)
                 PROVE  Prefix(a, SetV6(q)) \in t.route \/ Ip[a] \in t.shared
        BY DEF Recorded
    <2>1. CASE Has(st, c, q, a)
        BY <1>2, <2>1 DEF Good, Recorded
    <2>2. CASE c = b /\ q = r /\ a \in E
        BY <1>1, <1>2, <2>2, PrefixesFacts
    <2> QED
        BY <1>4, <2>1, <2>2
<1>6. ASSUME NEW c \in Bundles, NEW q \in Roles, NEW a \in Addrs, NEW e \in E,
             Has(t, c, q, a), Ip[a] = Ip[e], c # b \/ q # r \/ a # e
      PROVE  Ip[a] \in t.shared
    <2>1. Others(st, b, r, E, e) # {}
        <3>1. CASE Has(st, c, q, a)
            BY <1>6, <3>1, OthersFacts
        <3>2. CASE c = b /\ q = r /\ a \in E
            BY <1>6, <3>2, OthersFacts
        <3> QED
            BY <1>4, <1>6, <3>1, <3>2
    <2> QED
        BY <1>2, <1>6, <2>1
<1>7. Single(t)
    <2> SUFFICES ASSUME NEW c \in Bundles, NEW q \in Roles, NEW a \in Addrs,
                        NEW d \in Bundles, NEW p \in Roles, NEW e \in Addrs,
                        Has(t, c, q, a), Has(t, d, p, e), Ip[a] = Ip[e],
                        c # d \/ q # p \/ a # e
                 PROVE  Ip[a] \in t.shared
        BY DEF Single
    <2>1. CASE d = b /\ p = r /\ e \in E
        BY <1>6, <2>1
    <2>2. CASE c = b /\ q = r /\ a \in E
        BY <1>6, <2>2
    <2>3. CASE Has(st, c, q, a) /\ Has(st, d, p, e)
        BY <1>2, <2>3 DEF Good, Single
    <2> QED
        BY <1>4, <2>1, <2>2, <2>3
<1>8. ASSUME NEW x \in t.route
      PROVE  Answered(t, x)
    <2>1. CASE x \in st.route
        <3>1. Answered(st, x)
            BY <2>1 DEF Good
        <3> QED
            BY <1>2, <1>3, <1>4, <3>1 DEF Answered
    <2>2. CASE x \in Prefixes(E, SetV6(r))
        <3>1. PICK a \in E : x = Prefix(a, SetV6(r))
            BY <1>1, <2>2, PrefixesFacts
        <3>2. Has(t, b, r, a)
            BY <1>4
        <3> QED
            BY <3>1, <3>2 DEF Answered
    <2> QED
        BY <1>2, <2>1, <2>2
<1>9. \A K : Keeps(K, st, t)
    BY <1>2, <1>4 DEF Keeps
<1> QED
    BY <1>2, <1>3, <1>5, <1>7, <1>8, <1>9 DEF Good

-----------------------------------------------------------------------------
(* The loops.                                                              *)

\* Where a loop over role r of bundle b may get to, from st with outcome o.
Near(st, o, b, r) ==
    /\ Good(o.st) /\ o.st.bundle[b] # None
    /\ \A q \in Roles \ {r} : o.st.bundle[b][q] = st.bundle[b][q]

\* What the loop that removes the addresses of D has done.
Removal(st, o, b, r, D) ==
    /\ Near(st, o, b, r) /\ o.st.bundle[b][r] \subseteq st.bundle[b][r]
    /\ o.ok => o.st.bundle[b][r] = st.bundle[b][r] \ D
    /\ \A K : (\A a \in D : <<b, r, a>> \notin K) => Keeps(K, st, o.st)

LEMMA RemoveAllFacts ==
    ASSUME NEW st, Good(st), NEW b \in Bundles, st.bundle[b] # None,
           NEW r \in Roles, NEW D \in SUBSET st.bundle[b][r],
           NEW v \in {SetV6(r), DestroyV6(r)}, NEW o \in RemoveAll(st, b, r, D, v)
    PROVE  Removal(st, o, b, r, D)
<1>1. PICK E \in SUBSET D :
          /\ Prefixes(E, v) \subseteq st.route
          /\ \/ o = Done(Dropped(st, b, r, E, v)) /\ E = D
             \/ o = Failed(Stuck(st, b, r, E, D, v))
    BY Zenon DEF RemoveAll
<1>2. PICK t : t = Dropped(st, b, r, E, v)
    OBVIOUS
<1>3. /\ Good(t) /\ Becomes(st, t, b, r, st.bundle[b][r] \ E)
      /\ \A K : (\A a \in E : <<b, r, a>> \notin K) => Keeps(K, st, t)
    BY <1>1, <1>2, DroppedIsGood
<1>4. o.st = t /\ (o.ok => E = D)
    BY <1>1, <1>2 DEF Done, Failed, Stuck
<1>5. \A K : (\A a \in D : <<b, r, a>> \notin K) => Keeps(K, st, t)
    BY <1>3
<1> QED
    BY <1>3, <1>4, <1>5 DEF Removal, Near, Becomes

LEMMA AddAllFacts ==
    ASSUME NEW st, Good(st), NEW b \in Bundles, st.bundle[b] # None,
           NEW r \in Roles, NEW S \in Allowed[r], NEW D \in SUBSET S,
           st.bundle[b][r] \subseteq S, NEW o \in AddAll(st, b, r, D)
    PROVE  Near(st, o, b, r) /\ \A K : Keeps(K, st, o.st)
<1>1. PICK E \in SUBSET D : o = Done(Added(st, b, r, E)) \/ o = Failed(Added(st, b, r, E))
    BY Zenon DEF AddAll
<1>2. PICK t : t = Added(st, b, r, E)
    OBVIOUS
<1>3. E \in SUBSET Addrs /\ st.bundle[b][r] \cup E \in Allowed[r]
    BY AllowedParts
<1>4. /\ Good(t) /\ Becomes(st, t, b, r, st.bundle[b][r] \cup E)
      /\ \A K : Keeps(K, st, t)
    BY <1>2, <1>3, AddedIsGood
<1>5. o.st = t
    BY <1>1, <1>2 DEF Done, Failed
<1> QED
    BY <1>4, <1>5 DEF Near, Becomes

-----------------------------------------------------------------------------
(* Roles in sequence.                                                      *)

\* The addresses that a bundle_set(b, s) is asked to keep: those of other bundles
\* too.
Asked(b, s) == {h \in Bundles \X Roles \X Addrs : h[1] # b \/ h[3] \in s[h[2]]}
Elsewhere(b) == {h \in Bundles \X Roles \X Addrs : h[1] # b}

LEMMA RoleFactsOfSet ==
    ASSUME NEW st, Good(st), NEW b \in Bundles, st.bundle[b] # None,
           NEW s \in Records, NEW r \in Roles, NEW changed,
           NEW o \in RoleReconfigure(st, b, s, r, changed)
    PROVE  /\ Good(o.st) /\ o.st.bundle[b] # None
           /\ Keeps(Asked(b, s), st, o.st)
<1>1. CASE r \notin changed
    <2>1. o.st = st
        BY <1>1 DEF RoleReconfigure, Done
    <2> QED
        BY <2>1, KeepsSame
<1>2. CASE r \in changed
    <2> DEFINE old == st.bundle[b][r]
               new == s[r]
               D == Gone(old, new)
               F == Fresh(r, old, new)
    <2>1. D \in SUBSET old /\ F \in SUBSET new /\ old \ D \subseteq new /\ D \cap new = {}
        BY DEF Gone, Fresh
    <2>2. new \in Allowed[r]
        BY RecordFacts
    <2>3. \A a \in D : <<b, r, a>> \notin Asked(b, s)
        BY <2>1 DEF Asked
    <2>4. PICK q \in RemoveAll(st, b, r, D, SetV6(r)) :
            o \in IF q.ok THEN AddAll(q.st, b, r, F) ELSE {q}
        BY <1>2, Zenon DEF RoleReconfigure, Then
    <2> HIDE DEF D, F, new
    <2>a. D \in SUBSET st.bundle[b][r] /\ SetV6(r) \in {SetV6(r), DestroyV6(r)}
        BY <2>1
    <2>b. Removal(st, q, b, r, D)
        BY <2>4, <2>a, RemoveAllFacts
    <2>5. /\ Near(st, q, b, r) /\ (q.ok => q.st.bundle[b][r] = old \ D)
          /\ Keeps(Asked(b, s), st, q.st)
        BY <2>3, <2>b DEF Removal
    <2>6. CASE ~q.ok
        <3>1. o = q
            BY <2>4, <2>6
        <3> QED
            BY <2>5, <3>1 DEF Near
    <2>7. CASE q.ok
        <3>1. o \in AddAll(q.st, b, r, F)
            BY <2>4, <2>7
        <3>2. Good(q.st) /\ q.st.bundle[b] # None /\ q.st.bundle[b][r] \subseteq new
            BY <2>1, <2>5, <2>7 DEF Near
        <3>3. Near(q.st, o, b, r) /\ Keeps(Asked(b, s), q.st, o.st)
            BY <2>1, <2>2, <3>1, <3>2, AddAllFacts
        <3> QED
            BY <2>5, <3>3, KeepsTransitive DEF Near
    <2> QED
        BY <2>6, <2>7
<1> QED
    BY <1>1, <1>2

\* Where st may get to while b is set to s.
SetNear(st, t, b, s) ==
    Good(t) /\ t.bundle[b] # None /\ Keeps(Asked(b, s), st, t)

LEMMA RoleGoesOn ==
    ASSUME NEW st, NEW t, NEW b \in Bundles, NEW s \in Records, SetNear(st, t, b, s),
           NEW r \in Roles, NEW changed, NEW o \in RoleReconfigure(t, b, s, r, changed)
    PROVE  SetNear(st, o.st, b, s)
BY RoleFactsOfSet, KeepsTransitive DEF SetNear

LEMMA IpReconfigureFacts ==
    ASSUME NEW st, Good(st), NEW b \in Bundles, st.bundle[b] # None,
           NEW s \in Records, NEW changed,
           NEW o \in IpReconfigure(st, b, s, changed)
    PROVE  SetNear(st, o.st, b, s)
<1> DEFINE Role(t, r) == RoleReconfigure(t, b, s, r, changed)
           After6(u) == Then(Role(u, "s4"), LAMBDA v : Role(v, "s6"))
           After4(t) == Then(Role(t, "p6"), LAMBDA u : After6(u))
<1>0. SetNear(st, st, b, s)
    BY KeepsSame DEF SetNear
<1>1. ASSUME NEW t, SetNear(st, t, b, s), NEW r \in Roles, NEW q \in Role(t, r)
      PROVE  SetNear(st, q.st, b, s)
    BY <1>1, RoleGoesOn
<1>2. ASSUME NEW u, SetNear(st, u, b, s), NEW p \in After6(u)
      PROVE  SetNear(st, p.st, b, s)
    <2>1. PICK q \in Role(u, "s4") : p \in IF q.ok THEN Role(q.st, "s6") ELSE {q}
        BY <1>2, Zenon DEF Then
    <2>2. SetNear(st, q.st, b, s)
        BY <1>1, <1>2, RoleFacts
    <2> QED
        BY <1>1, <2>1, <2>2, RoleFacts
<1>3. ASSUME NEW t, SetNear(st, t, b, s), NEW p \in After4(t)
      PROVE  SetNear(st, p.st, b, s)
    <2>1. PICK q \in Role(t, "p6") : p \in IF q.ok THEN After6(q.st) ELSE {q}
        BY <1>3, Zenon DEF Then
    <2>2. SetNear(st, q.st, b, s)
        BY <1>1, <1>3, RoleFacts
    <2> HIDE DEF After6
    <2> QED
        BY <1>2, <2>1, <2>2
<1>4. PICK q \in Role(st, "p4") : o \in IF q.ok THEN After4(q.st) ELSE {q}
    BY Zenon DEF IpReconfigure, Then
<1>5. SetNear(st, q.st, b, s)
    BY <1>0, <1>1, RoleFacts
<1> HIDE DEF After4
<1> QED
    BY <1>3, <1>4, <1>5

\* Where st may get to while b is destroyed: as long as nothing failed, the roles
\* of R are empty.
DestroyNear(st, o, b, R) ==
    /\ Good(o.st) /\ o.st.bundle[b] # None /\ Keeps(Elsewhere(b), st, o.st)
    /\ o.ok => \A r \in R : o.st.bundle[b][r] = {}

LEMMA RemoveGoesOn ==
    ASSUME NEW st, NEW q, NEW b \in Bundles, NEW R \in SUBSET Roles,
           DestroyNear(st, q, b, R), q.ok, NEW r \in Roles,
           NEW o \in RemoveAll(q.st, b, r, q.st.bundle[b][r], DestroyV6(r))
    PROVE  DestroyNear(st, o, b, R \cup {r})
<1>1. \A a : <<b, r, a>> \notin Elsewhere(b)
    BY DEF Elsewhere
<1>a. PICK D : D = q.st.bundle[b][r]
    OBVIOUS
<1>b. /\ Good(q.st) /\ q.st.bundle[b] # None /\ D \in SUBSET q.st.bundle[b][r]
      /\ DestroyV6(r) \in {SetV6(r), DestroyV6(r)}
      /\ o \in RemoveAll(q.st, b, r, D, DestroyV6(r))
    BY <1>a DEF DestroyNear
<1>c. Removal(q.st, o, b, r, D)
    BY <1>b, RemoveAllFacts
<1>2. /\ Near(q.st, o, b, r) /\ Keeps(Elsewhere(b), q.st, o.st)
      /\ o.ok => o.st.bundle[b][r] = {}
    BY <1>1, <1>a, <1>c DEF Removal
<1>3. Keeps(Elsewhere(b), st, o.st)
    BY <1>2, KeepsTransitive DEF DestroyNear
<1>4. o.ok => \A p \in R \cup {r} : o.st.bundle[b][p] = {}
    BY <1>2 DEF Near, DestroyNear
<1> QED
    BY <1>2, <1>3, <1>4 DEF Near, DestroyNear

LEMMA IpRemoveFacts ==
    ASSUME NEW st, Good(st), NEW b \in Bundles, st.bundle[b] # None,
           NEW o \in IpRemove(st, b)
    PROVE  DestroyNear(st, o, b, IF o.ok THEN Roles ELSE {})
<1> DEFINE Role(t, r) == RemoveAll(t, b, r, t.bundle[b][r], DestroyV6(r))
           After6(u) == Then(Role(u, "s4"), LAMBDA v : Role(v, "s6"))
           After4(t) == Then(Role(t, "p6"), LAMBDA u : After6(u))
<1>0. DestroyNear(st, Done(st), b, {}) /\ Done(st).ok /\ Done(st).st = st
    BY KeepsSame DEF DestroyNear, Done
<1>1. ASSUME NEW q, NEW R \in SUBSET Roles, DestroyNear(st, q, b, R), q.ok,
             NEW r \in Roles, NEW p \in Role(q.st, r)
      PROVE  DestroyNear(st, p, b, R \cup {r})
    BY <1>1, RemoveGoesOn
<1>2. ASSUME NEW q, DestroyNear(st, q, b, {"p4", "p6"}), q.ok, NEW p \in After6(q.st)
      PROVE  DestroyNear(st, p, b, IF p.ok THEN Roles ELSE {})
    <2>1. PICK x \in Role(q.st, "s4") : p \in IF x.ok THEN Role(x.st, "s6") ELSE {x}
        BY <1>2, Zenon DEF Then
    <2>2. DestroyNear(st, x, b, {"p4", "p6"} \cup {"s4"})
        BY <1>1, <1>2, RoleFacts
    <2>3. CASE ~x.ok
        BY <2>1, <2>2, <2>3 DEF DestroyNear
    <2>4. CASE x.ok
        <3>1. p \in Role(x.st, "s6")
            BY <2>1, <2>4
        <3>2. DestroyNear(st, p, b, ({"p4", "p6"} \cup {"s4"}) \cup {"s6"})
            BY <1>1, <2>2, <2>4, <3>1, RoleFacts
        <3>3. Roles = ({"p4", "p6"} \cup {"s4"}) \cup {"s6"}
            BY RoleFacts
        <3> QED
            BY <3>2, <3>3 DEF DestroyNear
    <2> QED
        BY <2>3, <2>4
<1>3. ASSUME NEW q, DestroyNear(st, q, b, {"p4"}), q.ok, NEW p \in After4(q.st)
      PROVE  DestroyNear(st, p, b, IF p.ok THEN Roles ELSE {})
    <2>1. PICK x \in Role(q.st, "p6") : p \in IF x.ok THEN After6(x.st) ELSE {x}
        BY <1>3, Zenon DEF Then
    <2>2. DestroyNear(st, x, b, {"p4"} \cup {"p6"})
        BY <1>1, <1>3, RoleFacts
    <2>3. CASE ~x.ok
        BY <2>1, <2>2, <2>3 DEF DestroyNear
    <2>4. CASE x.ok
        <3>1. p \in After6(x.st)
            BY <2>1, <2>4
        <3>2. {"p4"} \cup {"p6"} = {"p4", "p6"}
            OBVIOUS
        <3> HIDE DEF After6
        <3> QED
            BY <1>2, <2>2, <2>4, <3>1, <3>2
    <2> QED
        BY <2>3, <2>4
<1>4. PICK x \in Role(st, "p4") : o \in IF x.ok THEN After4(x.st) ELSE {x}
    BY Zenon DEF IpRemove, Then
<1>5. DestroyNear(st, x, b, {} \cup {"p4"})
    BY <1>0, <1>1, RoleFacts
<1>6. CASE ~x.ok
    BY <1>4, <1>5, <1>6 DEF DestroyNear
<1>7. CASE x.ok
    <2>1. o \in After4(x.st)
        BY <1>4, <1>7
    <2>2. {} \cup {"p4"} = {"p4"}
        OBVIOUS
    <2> HIDE DEF After4
    <2> QED
        BY <1>3, <1>5, <1>7, <2>1, <2>2
<1> QED
    BY <1>6, <1>7

-----------------------------------------------------------------------------
(* Steps.                                                                  *)

LEMMA OpenedFacts ==
    ASSUME NEW st, Good(st), NEW b \in Bundles, NEW t, t = Opened(st, b)
    PROVE  Good(t) /\ t.bundle[b] # None /\ \A K : Keeps(K, st, t)
<1>0. CASE st.bundle[b] # None
    BY <1>0, KeepsSame DEF Opened
<1> SUFFICES ASSUME st.bundle[b] = None
             PROVE  Good(t) /\ t.bundle[b] # None /\ \A K : Keeps(K, st, t)
    BY <1>0
<1>1. st \in State
    BY DEF Good
<1>2. PICK B : B = [st.bundle EXCEPT ![b] = NoAddresses]
    OBVIOUS
<1>3. PICK N \in Records : N = NoAddresses /\ N # None /\ \A r \in Roles : N[r] = {}
    BY NoAddressesType, IpAssumption
<1>4. B \in [Bundles -> Records \cup {None}] /\ B[b] = N
      /\ \A c \in Bundles : c # b => B[c] = st.bundle[c]
    BY <1>1, <1>2, <1>3, StateFacts
<1>5. t = [bundle |-> B, route |-> st.route, shared |-> st.shared, left |-> st.left]
    <2>1. t = [st EXCEPT !.bundle = B]
        BY <1>2 DEF Opened
    <2> QED
        BY <1>1, <2>1, StateFacts
<1>6. t \in State
    BY <1>1, <1>4, <1>5, StateFacts DEF State
<1>7. t.bundle = B /\ t.route = st.route /\ t.shared = st.shared /\ t.left = st.left
    BY <1>5
<1>8. \A c \in Bundles, r \in Roles, a \in Addrs : Has(t, c, r, a) <=> Has(st, c, r, a)
    BY <1>3, <1>4, <1>7 DEF Has
<1>9. Recorded(t) /\ Single(t)
    BY <1>7, <1>8 DEF Good, Recorded, Single
<1>10. \A x \in t.route : Answered(t, x)
    BY <1>7, <1>8 DEF Good, Answered
<1>11. \A K : Keeps(K, st, t)
    BY <1>7, <1>8 DEF Keeps
<1> QED
    BY <1>3, <1>4, <1>6, <1>7, <1>9, <1>10, <1>11 DEF Good

LEMMA BundleSetFacts ==
    ASSUME Good(sw), asked \in [Bundles -> Records], NEW b \in Bundles,
           NEW s \in Settings, BundleSet(b, s)
    PROVE  /\ Good(sw') /\ asked' \in [Bundles -> Records]
           /\ asked'[b] = s /\ Keeps(Asked(b, s), sw, sw')
<1>1. s \in Records
    BY IpAssumption
<1>2. PICK st : st = Opened(sw, b)
    OBVIOUS
<1>3. Good(st) /\ st.bundle[b] # None /\ Keeps(Asked(b, s), sw, st)
    BY <1>2, OpenedFacts
<1>4. \E changed \in {{r \in Roles : s[r] # asked[b][r]}, Roles} :
      \E o \in IpReconfigure(Opened(sw, b), b, s, changed) :
          sw' = o.st /\ asked' = [asked EXCEPT ![b] = s]
    BY Zenon DEF BundleSet
<1>a. PICK changed :
      \E o \in IpReconfigure(Opened(sw, b), b, s, changed) :
          sw' = o.st /\ asked' = [asked EXCEPT ![b] = s]
    BY <1>4, Zenon
<1>5. PICK o \in IpReconfigure(st, b, s, changed) :
        sw' = o.st /\ asked' = [asked EXCEPT ![b] = s]
    BY <1>2, <1>a
<1>6. SetNear(st, sw', b, s)
    BY <1>1, <1>3, <1>5, IpReconfigureFacts
<1>7. Good(sw') /\ Keeps(Asked(b, s), sw, sw')
    BY <1>3, <1>6, KeepsTransitive DEF SetNear
<1> QED
    BY <1>1, <1>5, <1>7

LEMMA BundleDestroyFacts ==
    ASSUME Good(sw), asked \in [Bundles -> Records], NEW b \in Bundles, BundleDestroy(b)
    PROVE  /\ Good(sw') /\ asked' \in [Bundles -> Records]
           /\ asked'[b] = NoAddresses /\ Keeps(Elsewhere(b), sw, sw')
<1>1. sw.bundle[b] # None /\ asked' = [asked EXCEPT ![b] = NoAddresses]
    BY DEF BundleDestroy
<1>2. PICK o \in IpRemove(sw, b) :
        sw' = [o.st EXCEPT !.bundle[b] = None,
                           !.left = IF o.ok THEN @ ELSE @ \cup Leftovers(o.st, b)]
    BY DEF BundleDestroy
<1>3. DestroyNear(sw, o, b, IF o.ok THEN Roles ELSE {})
    BY <1>1, <1>2, IpRemoveFacts
<1>4. PICK st : st = o.st
    OBVIOUS
<1>5. /\ Good(st) /\ st \in State /\ st.bundle[b] # None /\ Keeps(Elsewhere(b), sw, st)
      /\ o.ok => \A r \in Roles : st.bundle[b][r] = {}
    BY <1>3, <1>4 DEF DestroyNear, Good
<1>6. PICK B : B = [st.bundle EXCEPT ![b] = None]
    OBVIOUS
<1>7. PICK L : L = IF o.ok THEN st.left ELSE st.left \cup Leftovers(st, b)
    OBVIOUS
<1>8. B \in [Bundles -> Records \cup {None}] /\ B[b] = None
      /\ \A c \in Bundles : c # b => B[c] = st.bundle[c]
    BY <1>5, <1>6, StateFacts
<1>9. sw' = [bundle |-> B, route |-> st.route, shared |-> st.shared, left |-> L]
    <2>1. sw' = [st EXCEPT !.bundle = B, !.left = L]
        <3>1. sw' = [st EXCEPT !.bundle = B,
                               !.left = IF o.ok THEN st.left
                                        ELSE st.left \cup Leftovers(st, b)]
            BY <1>2, <1>4, <1>6, Zenon
        <3> QED
            BY <1>7, <3>1, Zenon
    <2>2. st = [bundle |-> st.bundle, route |-> st.route, shared |-> st.shared,
                left |-> st.left]
        BY <1>5, StateFacts
    <2>3. PICK u : u = [st EXCEPT !.bundle = B]
        OBVIOUS
    <2>4. u = [bundle |-> B, route |-> st.route, shared |-> st.shared, left |-> st.left]
        BY <2>2, <2>3
    <2>5. sw' = [u EXCEPT !.left = L]
        BY <2>1, <2>3
    <2> QED
        BY <2>4, <2>5
<1>10. PICK t : t = sw'
    OBVIOUS
<1>11. t.bundle = B /\ t.route = st.route /\ t.shared = st.shared /\ t.left = L
    BY <1>9, <1>10
<1>12. Leftovers(st, b) \subseteq Ips
       /\ \A r \in Roles : \A a \in st.bundle[b][r] : Ip[a] \in Leftovers(st, b)
    <2>1. PICK R \in Records : R = st.bundle[b]
        BY <1>5, StateFacts
    <2>2. \A r \in Roles : R[r] \subseteq Addrs
        BY RecordFacts
    <2>3. Leftovers(st, b) = {Ip[a] : a \in UNION {R[r] : r \in Roles}}
        BY <2>1 DEF Leftovers
    <2>4. Leftovers(st, b) \subseteq Ips
        BY <2>2, <2>3 DEF Ips
    <2>5. ASSUME NEW r \in Roles, NEW a \in R[r]
          PROVE  Ip[a] \in Leftovers(st, b)
        <3>1. a \in UNION {R[p] : p \in Roles}
            OBVIOUS
        <3> QED
            BY <2>3, <3>1
    <2> QED
        BY <2>1, <2>4, <2>5
<1>13. t \in State /\ st.left \subseteq L
    <2>1. L \subseteq Ips /\ st.left \subseteq L
        BY <1>5, <1>7, <1>12, StateFacts
    <2> QED
        BY <1>5, <1>8, <1>9, <1>10, <2>1, StateFacts DEF State
<1>14. \A c \in Bundles, r \in Roles, a \in Addrs :
        Has(t, c, r, a) <=> (Has(st, c, r, a) /\ c # b)
    BY <1>8, <1>11 DEF Has
<1>15. Recorded(t) /\ Single(t)
    BY <1>5, <1>11, <1>14 DEF Good, Recorded, Single
<1>16. ASSUME NEW x \in t.route
       PROVE  Answered(t, x)
    <2>1. Answered(st, x)
        BY <1>5, <1>11 DEF Good
    <2>2. CASE x.ip \in st.left \cup st.shared
        BY <1>11, <1>13, <2>2 DEF Answered
    <2>3. ASSUME NEW c \in Bundles, NEW r \in Roles, NEW a \in Addrs,
                 Has(st, c, r, a), x = Prefix(a, SetV6(r))
          PROVE  Answered(t, x)
        <3>1. CASE c # b
            BY <1>14, <2>3, <3>1 DEF Answered
        <3>2. CASE c = b
            <4>1. a \in st.bundle[b][r]
                BY <2>3, <3>2 DEF Has
            <4>2. ~o.ok
                BY <1>5, <4>1
            <4>3. Ip[a] \in L
                BY <1>7, <1>12, <4>1, <4>2
            <4>4. x.ip = Ip[a]
                BY <2>3, PrefixFacts, RoleFacts
            <4> QED
                BY <1>11, <4>3, <4>4 DEF Answered
        <3> QED
            BY <3>1, <3>2
    <2> QED
        BY <2>1, <2>2, <2>3 DEF Answered
<1>17. Good(t)
    BY <1>13, <1>15, <1>16 DEF Good
<1>18. Keeps(Elsewhere(b), st, t)
    BY <1>11, <1>14 DEF Keeps, Elsewhere
<1>19. Keeps(Elsewhere(b), sw, t)
    BY <1>5, <1>18, KeepsTransitive
<1>20. asked' \in [Bundles -> Records] /\ asked'[b] = NoAddresses
    BY <1>1, NoAddressesType
<1> QED
    BY <1>10, <1>17, <1>19, <1>20

IInv == Good(sw) /\ asked \in [Bundles -> Records]

LEMMA InitIInv == Init => IInv
<1> SUFFICES ASSUME Init PROVE IInv
    OBVIOUS
<1>1. /\ sw.bundle = [b \in Bundles |-> None] /\ sw.route = {} /\ sw.shared = {}
      /\ sw.left = {} /\ sw \in State
    BY DEF Init, State
<1>2. \A b \in Bundles, r \in Roles, a \in Addrs : ~Has(sw, b, r, a)
    BY <1>1 DEF Has
<1>3. Good(sw)
    BY <1>1, <1>2 DEF Good, Recorded, Single
<1> QED
    BY <1>3, NoAddressesType DEF Init, IInv

LEMMA NextIInv == IInv /\ [Next]_vars => IInv'
<1>1. ASSUME IInv, NEW b \in Bundles, BundleDestroy(b) PROVE IInv'
    BY <1>1, BundleDestroyFacts DEF IInv
<1>2. ASSUME IInv, NEW b \in Bundles, NEW s \in Settings, BundleSet(b, s) PROVE IInv'
    BY <1>2, BundleSetFacts DEF IInv
<1>3. ASSUME IInv, UNCHANGED vars PROVE IInv'
    BY <1>3 DEF IInv, vars
<1> QED
    BY <1>1, <1>2, <1>3 DEF Next

LEMMA Invariance == Spec => []IInv
BY InitIInv, NextIInv, PTL DEF Spec

\* Records and routes keep their types: a role has addresses of its family, and a
\* primary role one at most.
THEOREM TypeCorrect == Spec => []TypeOK
<1>1. IInv => TypeOK
    BY DEF IInv, TypeOK, Good
<1> QED
    BY <1>1, Invariance, PTL

\* Nothing is trapped in the ASIC that no bundle answers for, but for addresses
\* that were recorded twice or reported as left behind.
THEOREM TrapsAnswered == Spec => []NoStrayTrap
<1>1. IInv => NoStrayTrap
    <2> SUFFICES ASSUME IInv, NEW x \in sw.route, x.ip \notin sw.left \cup sw.shared
                 PROVE  x \in {Prefix(h[3], SetV6(h[2])) : h \in Holders(sw)}
        BY DEF NoStrayTrap
    <2>1. PICK b \in Bundles, r \in Roles, a \in Addrs :
            Has(sw, b, r, a) /\ x = Prefix(a, SetV6(r))
        BY DEF IInv, Good, Answered
    <2>2. <<b, r, a>> \in Holders(sw)
        BY <2>1, HoldersFacts
    <2> QED
        BY <2>1, <2>2
<1> QED
    BY <1>1, Invariance, PTL

\* What a bundle has recorded is trapped in the ASIC, whatever failed, but for IPs
\* that were recorded twice.
THEOREM RecordsInstalled == Spec => []RecordedIsInstalled
<1>1. IInv => RecordedIsInstalled
    <2> SUFFICES ASSUME IInv, NEW h \in Holders(sw)
                 PROVE  Prefix(h[3], SetV6(h[2])) \in sw.route \/ Ip[h[3]] \in sw.shared
        BY DEF RecordedIsInstalled
    <2>1. PICK b \in Bundles, r \in Roles, a \in Addrs :
            h = <<b, r, a>> /\ Has(sw, b, r, a)
        BY HoldersFacts
    <2> QED
        BY <2>1 DEF IInv, Good, Recorded
<1> QED
    BY <1>1, Invariance, PTL

\* No call takes an address out of the ASIC that a bundle has and is to keep.
THEOREM KeptStays == Spec => KeptAddressStays
<1>1. ASSUME IInv, [Next]_vars, NEW h \in Holders(sw),
             Prefix(h[3], SetV6(h[2])) \in sw.route, Ip[h[3]] \notin sw'.shared,
             h[3] \in asked[h[1]][h[2]] \cap asked'[h[1]][h[2]]
      PROVE  Prefix(h[3], SetV6(h[2])) \in sw'.route
    <2>1. PICK c \in Bundles, r \in Roles, a \in Addrs :
            h = <<c, r, a>> /\ Has(sw, c, r, a)
        BY HoldersFacts
    <2>2. /\ Prefix(a, SetV6(r)) \in sw.route /\ Ip[a] \notin sw'.shared
          /\ a \in asked'[c][r]
        BY <1>1, <2>1
    <2>3. ASSUME NEW K, Keeps(K, sw, sw'), <<c, r, a>> \in K
          PROVE  Prefix(a, SetV6(r)) \in sw'.route
        BY <2>1, <2>2, <2>3 DEF Keeps
    <2>4. ASSUME NEW b \in Bundles, BundleDestroy(b)
          PROVE  Prefix(a, SetV6(r)) \in sw'.route
        <3>1. asked'[b] = NoAddresses /\ Keeps(Elsewhere(b), sw, sw')
            BY <1>1, <2>4, BundleDestroyFacts DEF IInv
        <3>2. c # b
            BY <2>2, <3>1, NoAddressesType
        <3>3. <<c, r, a>> \in Elsewhere(b)
            BY <3>2 DEF Elsewhere
        <3> QED
            BY <2>3, <3>1, <3>3
    <2>5. ASSUME NEW b \in Bundles, NEW s \in Settings, BundleSet(b, s)
          PROVE  Prefix(a, SetV6(r)) \in sw'.route
        <3>1. asked'[b] = s /\ Keeps(Asked(b, s), sw, sw')
            BY <1>1, <2>5, BundleSetFacts DEF IInv
        <3>2. <<c, r, a>> \in Asked(b, s)
            BY <2>2, <3>1 DEF Asked
        <3> QED
            BY <2>3, <3>1, <3>2
    <2>6. ASSUME UNCHANGED vars
          PROVE  Prefix(a, SetV6(r)) \in sw'.route
        <3>1. sw' = sw
            BY <2>6 DEF vars
        <3> QED
            BY <2>2, <3>1
    <2>7. Prefix(a, SetV6(r)) \in sw'.route
        BY <1>1, <2>4, <2>5, <2>6 DEF Next
    <2> QED
        BY <2>1, <2>7
<1>2. IInv /\ [Next]_vars =>
        [\A h \in Holders(sw) :
            LET x == Prefix(h[3], SetV6(h[2]))
            IN  (/\ x \in sw.route /\ Ip[h[3]] \notin sw'.shared
                 /\ h[3] \in asked[h[1]][h[2]] \cap asked'[h[1]][h[2]])
                    => x \in sw'.route]_vars
    BY <1>1
<1> QED
    BY <1>2, InitIInv, NextIInv, PTL DEF Spec, KeptAddressStays

=============================================================================
