------------------------------ MODULE EcmpHash ------------------------------
(***************************************************************************)
(* The packet fields that ECMP hashes on: l3_ecmp_hash_set of              *)
(* sai-ofproto-provider.c and the Mellanox hash class                      *)
(* (vendor/mlnx/sai-vendor-hash.c).                                        *)
(*                                                                         *)
(*   ghash     ghash_fields, the fields the user wants                     *)
(*   params    the hash parameters of each port in the ASIC                *)
(*   ended     how the last call ended                                     *)
(*   switched  history: the user's calls, folded: fields on minus off      *)
(*   recent    history: what ghash was since the last call that succeeded  *)
(*                                                                         *)
(* A bitmap is a set of its bits.  The SDK's fields come in bytes and for  *)
(* inner and outer headers; here one per packet field.  The SDK is         *)
(* external: a call that fails changes nothing, and it may fail for the    *)
(* ports of Fallible.  Other ports than LAG and network ports, which are   *)
(* skipped, are left out.                                                  *)
(***************************************************************************)
EXTENDS Naturals, FiniteSets

CONSTANTS Ports, Fallible,
          Unsupported, \* bits that are not ECMP hash fields of this plugin
          HashRequests, \* bitmaps the user may switch on or off
          MaxRecent    \* bound: different values of ghash between successes

SupportedHashFields == {"SRCIP", "DSTIP", "SRCPORT", "DSTPORT"}
Bits == SupportedHashFields \cup Unsupported

ASSUME HashAssumption ==
    /\ Fallible \subseteq Ports
    /\ Unsupported \cap SupportedHashFields = {}
    /\ HashRequests \subseteq SUBSET Bits
    /\ MaxRecent \in Nat

VARIABLES ghash, params, ended, switched, recent
hashVars == <<ghash, params, ended, switched, recent>>

\* __ops_hash_to_sxsdk.  DSTPORT adds the fields of the source port; bits that
\* are not supported add nothing, but for the mutant.
FieldsListAll(h) ==
    (h \ SupportedHashFields)
    \cup (IF "SRCIP" \in h THEN {"SIP"} ELSE {})
    \cup (IF "DSTIP" \in h THEN {"DIP"} ELSE {})
    \cup (IF {"SRCPORT", "DSTPORT"} \cap h # {} THEN {"SPORT"} ELSE {})
FieldsList(h) ==
    (IF "SRCIP" \in h THEN {"SIP"} ELSE {})
    \cup (IF "DSTIP" \in h THEN {"DIP"} ELSE {})
    \cup (IF {"SRCPORT", "DSTPORT"} \cap h # {} THEN {"SPORT"} ELSE {})
EnablesList(h) ==
    (IF {"SRCIP", "DSTIP"} \cap h # {} THEN {"IP"} ELSE {})
    \cup (IF {"SRCPORT", "DSTPORT"} \cap h # {} THEN {"L4"} ELSE {})
ToSdk(h) == [fields |-> FieldsList(h), enables |-> EnablesList(h)]

\* ghash_fields is "set even in case of error to be equal what user want"; the
\* mutant keeps the old value then.
HashOnErrorOld(h) == ghash
HashOnError(h) == h

\* Turn bits on or off.
Turned(b, enable) == IF enable THEN ghash \cup b ELSE ghash \ b

-----------------------------------------------------------------------------
\* ops_sai_ecmp_hash_init: all supported fields; a failure aborts the start.
HashInit ==
    /\ ghash = SupportedHashFields
    /\ params = [p \in Ports |-> ToSdk(SupportedHashFields)]
    /\ ended = "ok"
    /\ switched = SupportedHashFields
    /\ recent = {SupportedHashFields}

\* An empty list of fields is refused, and handed on by the mutant.
CompletesAny(new) ==
    /\ params' = [p \in Ports |-> ToSdk(new)]
    /\ ghash' = new
    /\ ended' = "ok"
    /\ recent' = {new}
Completes(new) ==
    /\ FieldsList(new) # {}
    /\ params' = [p \in Ports |-> ToSdk(new)]
    /\ ghash' = new
    /\ ended' = "ok"
    /\ recent' = {new}

\* The list of ports could not be read, or the loop stops at x: the ports of D
\* come before it.
StopsEarly(new) ==
    /\ FieldsList(new) # {}
    /\ \E x \in Fallible : \E D \in SUBSET (Ports \ {x}) :
        params' = [p \in Ports |-> IF p \in D THEN ToSdk(new) ELSE params[p]]

Refused(new) == FieldsList(new) = {} /\ UNCHANGED params

Fails(new) ==
    /\ StopsEarly(new) \/ Refused(new)
    /\ ghash' = HashOnError(new)
    /\ ended' = "failed"
    /\ recent' = recent \cup {new}
    /\ Cardinality(recent') <= MaxRecent

\* __ecmp_hash_set
HashSet(b, enable) ==
    /\ Completes(Turned(b, enable)) \/ Fails(Turned(b, enable))
    /\ switched' = IF enable THEN switched \cup b ELSE switched \ b

HashNext == \E b \in HashRequests, enable \in BOOLEAN : HashSet(b, enable)

HashSpec == HashInit /\ [][HashNext]_hashVars

-----------------------------------------------------------------------------
HashParams == [fields  : SUBSET {"SIP", "DIP", "SPORT"},
               enables : SUBSET {"IP", "L4"}]

HashTypeOK ==
    /\ ghash \subseteq Bits
    /\ params \in [Ports -> HashParams]
    /\ ended \in {"ok", "failed"}
    /\ switched \subseteq Bits
    /\ recent \subseteq SUBSET Bits

\* One call that succeeds heals every failure before it: all ports hash on
\* what the user has switched on, in calls that failed too, and on nothing
\* that was switched off.
SuccessHeals ==
    ended = "ok" => \A p \in Ports : params[p] = ToSdk(switched)

\* A port left behind by failing calls still hashes as the user wanted at some
\* time since the last call that succeeded, with the enables that belong to
\* its fields: never on a mixture, and never on nothing.
NoMixture ==
    \A p \in Ports : /\ params[p].fields # {}
                     /\ \E h \in recent : params[p] = ToSdk(h)

=============================================================================
