---------------------------- MODULE IpAddresses ----------------------------
(***************************************************************************)
(* The IP addresses of routed bundles: __ofbundle_ip_reconfigure and       *)
(* __ofbundle_ip_remove of sai-ofproto-provider.c with the functions they  *)
(* call.  Every address becomes an "IP to me" route in the ASIC, which     *)
(* traps packets for the address to the CPU.                               *)
(*                                                                         *)
(*   sw.bundle[b]  None, or the set of addresses the bundle has recorded   *)
(*                 per role: ipv4_primary, ipv6_primary ("p4", "p6", at    *)
(*                 most one), ipv4_secondary, ipv6_secondary ("s4", "s6")  *)
(*   sw.route      the prefixes with an IP2ME route in the ASIC            *)
(*   sw.shared     history: IP addresses that a bundle added while another *)
(*                 record of the same or another bundle had them           *)
(*   sw.left       history: IP addresses of which a destroyed bundle       *)
(*                 reported that it could not remove them                  *)
(*   asked[b]      the addresses the bridge passed last; it tells by       *)
(*                 s->ip_change which roles differ from them               *)
(*                                                                         *)
(* An address is a string with a mask; two strings may have the same IP.   *)
(* The SDK is external: adding a route that is there may fail or           *)
(* overwrite, removing one that is not there fails.                        *)
(***************************************************************************)
EXTENDS Integers, Outcomes

CONSTANTS Bundles, Addrs,
          Ip,        \* the IP of an address string, without its mask
          V6,        \* the addresses that are IPv6
          Settings,  \* the addresses the bridge may pass, by role
          SdkFails,  \* whether SDK calls may fail for no reason of ours
          None

Primary == {"p4", "p6"}
Roles == Primary \cup {"s4", "s6"}
One(S) == {{}} \cup {{a} : a \in S}
Allowed == [p4 |-> One(Addrs \ V6), p6 |-> One(V6),
            s4 |-> SUBSET (Addrs \ V6), s6 |-> SUBSET V6]
Records == {R \in [Roles -> SUBSET Addrs] : \A r \in Roles : R[r] \in Allowed[r]}

ASSUME IpAssumption ==
    /\ V6 \subseteq Addrs
    /\ DOMAIN Ip = Addrs
    /\ \A a \in V6, c \in Addrs \ V6 : Ip[a] # Ip[c]
    /\ Settings \subseteq Records /\ None \notin Records
    /\ SdkFails \in BOOLEAN

VARIABLES sw, asked
vars == <<sw, asked>>

May(S) == IF SdkFails THEN S ELSE {}
NoAddresses == [r \in Roles |-> {}]

\* The prefix __ofproto_ip_add and __ofproto_ip_remove derive from an address.
Prefix(a, isV6) == [ip |-> Ip[a], len |-> IF isV6 THEN 128 ELSE 32]
Prefixes(D, isV6) == {Prefix(a, isV6) : a \in D}

\* The is_ipv6 that bundle_set passes for a role, and the one that destroying
\* a bundle passes: they differ for IPv6 secondaries.
SetV6(role) == role = "p6"
DestroyV6(role) == role \in {"p6", "s6"}

\* Who has which address recorded.
Holders(st) ==
    {h \in Bundles \X Roles \X Addrs :
        st.bundle[h[1]] # None /\ h[3] \in st.bundle[h[1]][h[2]]}

-----------------------------------------------------------------------------
(* Loops that call __ofproto_ip_add or __ofproto_ip_remove and update the  *)
(* record, for the addresses of D in any order.  They stop at the first    *)
(* failure: E is what was done before.                                     *)

Added(st, b, role, E) ==
    LET other(a) ==
            {h \in Holders(st) : Ip[h[3]] = Ip[a] /\ h # <<b, role, a>>}
            \cup {<<b, role, e>> : e \in {d \in E : d # a /\ Ip[d] = Ip[a]}}
    IN  [st EXCEPT !.route = @ \cup Prefixes(E, SetV6(role)),
                   !.bundle[b][role] = @ \cup E,
                   !.shared = @ \cup {Ip[a] : a \in {e \in E : other(e) # {}}}]
AddAll(st, b, role, D) ==
    {Done(Added(st, b, role, D))}
    \cup {Failed(Added(st, b, role, E)) : E \in {E \in SUBSET D :
            \E a \in D \ E : SdkFails \/ Prefix(a, SetV6(role))
                                \in st.route \cup Prefixes(E, SetV6(role))}}

\* The first mutant leaves the addresses recorded, the second takes those off
\* the record for which the SDK was not asked yet.
DroppedRoute(st, b, role, E, isV6) == [st EXCEPT !.route = @ \ Prefixes(E, isV6)]
Dropped(st, b, role, E, isV6) ==
    [st EXCEPT !.route = @ \ Prefixes(E, isV6), !.bundle[b][role] = @ \ E]
StuckEager(st, b, role, E, D, isV6) ==
    [Dropped(st, b, role, E, isV6) EXCEPT !.bundle[b][role] = @ \ D]
Stuck(st, b, role, E, D, isV6) == Dropped(st, b, role, E, isV6)

\* Two addresses of D may have one prefix: only one removal succeeds.
RemoveAll(st, b, role, D, isV6) ==
    LET Present(E) ==
            /\ Prefixes(E, isV6) \subseteq st.route
            /\ \A a, c \in E : Ip[a] = Ip[c] => a = c
    IN  {Done(Dropped(st, b, role, E, isV6)) : E \in {E \in {D} : Present(E)}}
        \cup {Failed(Stuck(st, b, role, E, D, isV6)) : E \in {E \in SUBSET D :
                /\ Present(E)
                /\ \E a \in D \ E : SdkFails \/ Prefix(a, isV6)
                                    \notin st.route \ Prefixes(E, isV6)}}

-----------------------------------------------------------------------------
(* Addresses of one role, from the recorded ones to the ones asked for: an *)
(* unchanged primary is added again, an unchanged secondary is not.  The   *)
(* mutants remove all there was, and nothing.                              *)

GoneAll(old, new) == old
GoneNone(old, new) == {}
Gone(old, new) == old \ new
Fresh(role, old, new) == IF role \in Primary THEN new ELSE new \ old

RoleReconfigure(st, b, s, role, changed) ==
    IF role \notin changed THEN {Done(st)}
    ELSE LET old == st.bundle[b][role]
         IN  Then(RemoveAll(st, b, role, Gone(old, s[role]), SetV6(role)),
                  LAMBDA t : AddAll(t, b, role, Fresh(role, old, s[role])))

\* __ofbundle_ip_reconfigure
IpReconfigure(st, b, s, changed) ==
    LET Role(t, role) == RoleReconfigure(t, b, s, role, changed)
    IN  Then(Role(st, "p4"), LAMBDA t :
        Then(Role(t, "p6"), LAMBDA u :
        Then(Role(u, "s4"), LAMBDA v : Role(v, "s6"))))

\* __ofbundle_ip_remove
IpRemove(st, b) ==
    LET Role(t, role) ==
            RemoveAll(t, b, role, t.bundle[b][role], DestroyV6(role))
    IN  Then(Role(st, "p4"), LAMBDA t :
        Then(Role(t, "p6"), LAMBDA u :
        Then(Role(u, "s4"), LAMBDA v : Role(v, "s6"))))

\* What may be left in the ASIC of a bundle that is freed after an error.
Leftovers(st, b) ==
    {Ip[a] : a \in UNION {st.bundle[b][r] : r \in Roles}}

-----------------------------------------------------------------------------
Init ==
    /\ sw = [bundle |-> [b \in Bundles |-> None], route |-> {},
             shared |-> {}, left |-> {}]
    /\ asked = [b \in Bundles |-> NoAddresses]

\* bundle_set creates a bundle that is not there, without addresses.
Opened(st, b) ==
    IF st.bundle[b] # None THEN st ELSE [st EXCEPT !.bundle[b] = NoAddresses]

\* bundle_set(aux, s); its status does not depend on the addresses.  s->ip_change
\* has the roles that differ from the last settings, or all of them.
BundleSet(b, s) ==
    LET differ == {r \in Roles : s[r] # asked[b][r]}
    IN  \E changed \in {differ, Roles} :
        \E o \in IpReconfigure(Opened(sw, b), b, s, changed) :
            /\ sw' = o.st
            /\ asked' = [asked EXCEPT ![b] = s]

\* __ofbundle_destroy, by bundle_set(aux, NULL) or bundle_remove.
BundleDestroy(b) ==
    /\ sw.bundle[b] # None
    /\ \E o \in IpRemove(sw, b) :
        sw' = [o.st EXCEPT !.bundle[b] = None,
                           !.left = IF o.ok THEN @ ELSE @ \cup Leftovers(o.st, b)]
    /\ asked' = [asked EXCEPT ![b] = NoAddresses]

Next ==
    \E b \in Bundles : BundleDestroy(b) \/ \E s \in Settings : BundleSet(b, s)

Spec == Init /\ [][Next]_vars

-----------------------------------------------------------------------------
Ips == {Ip[a] : a \in Addrs}
AllPrefixes == [ip : Ips, len : {32, 128}]

State == [bundle : [Bundles -> Records \cup {None}], route : SUBSET AllPrefixes,
          shared : SUBSET Ips, left : SUBSET Ips]
TypeOK == sw \in State /\ asked \in [Bundles -> Records]

\* The ASIC traps nothing that nobody answers for: an IP2ME route belongs to
\* an address some bundle has recorded, and will remove, unless destroying a
\* bundle reported that it could not be removed.  (When an IPv6 address is a
\* secondary of one bundle and the primary of another, destroying the first
\* removes the route of the second and reports nothing.)
NoStrayTrap ==
    \A x \in sw.route :
        \/ x \in {Prefix(h[3], SetV6(h[2])) : h \in Holders(sw)}
        \/ x.ip \in sw.left \cup sw.shared

\* A recorded address is trapped, whatever failed, as long as its IP was never
\* recorded twice at the same time.
RecordedIsInstalled ==
    \A h \in Holders(sw) :
        Prefix(h[3], SetV6(h[2])) \in sw.route \/ Ip[h[3]] \in sw.shared

\* An address that a bundle has, and is asked to keep in its role, is not
\* taken out of the ASIC by any call: not by what changes beside it, not by an
\* error, not by another bundle.
KeptAddressStays ==
    [][\A h \in Holders(sw) :
        LET x == Prefix(h[3], SetV6(h[2]))
        IN  (/\ x \in sw.route /\ Ip[h[3]] \notin sw'.shared
             /\ h[3] \in asked[h[1]][h[2]] \cap asked'[h[1]][h[2]])
                => x \in sw'.route]_vars

\* "Remove from HW deleted entries.  Add new entries.": when no SDK call fails
\* the addresses asked for are in the ASIC.  The code breaks this when a
\* secondary address becomes the primary one.
AskedIsInstalled ==
    \A b \in Bundles, r \in Roles :
        Prefixes(asked[b][r], SetV6(r)) \subseteq sw.route

=============================================================================
