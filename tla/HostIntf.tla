------------------------------ MODULE HostIntf ------------------------------
(***************************************************************************)
(* The Linux network devices of switch interfaces: netdevs of              *)
(* sai-netdev.c from construction to destruction, the table all_host_intf  *)
(* of vendor/mlnx/sai-vendor-host-intf.c, and the port transactions that   *)
(* replace an L2 device by an L3 one when a router interface is created    *)
(* on the port, and back.                                                  *)
(*                                                                         *)
(*   sw.dev[n]   "none", "new" (constructed) or "ready"                    *)
(*               (is_port_initialized) for the netdev of name n            *)
(*   sw.hif[n]   the type of n's entry in all_host_intf, None if none      *)
(*   sw.link[n]  the kind of Linux device that has the name n, or None     *)
(*   sw.stp[n]   the spanning tree state of port n in the ASIC             *)
(*   sw.rif[n]   a router interface for port n: None, "made", or "lost"    *)
(*               when its bundle was destroyed and could not delete it     *)
(*   sw.aborted  an ovs_assert failed: the daemon is gone                  *)
(*   sw.broken   history: names for which a command or SDK call failed     *)
(*                                                                         *)
(* External: a device name can be used once; the ip command deletes an L2  *)
(* or VLAN device that is there; it may or may not be able to delete an L3 *)
(* device, which is the SDK's.  Either may fail for the names of Fallible. *)
(***************************************************************************)
EXTENDS Integers, Outcomes

CONSTANTS Names,
          Kind,      \* what a name is: a "system" port, a "vlan" interface
                     \* or the internal interface of a "bridge"
          Handle,    \* the label id of a port, the VLAN id of an interface
          Fallible, None

ASSUME HostIntfAssumption ==
    /\ Kind \in [Names -> {"system", "vlan", "bridge"}]
    /\ Handle \in [Names -> Nat]
    /\ \A m, n \in Names : Kind[m] = Kind[n] /\ Handle[m] = Handle[n] => m = n
    /\ Fallible \subseteq Names
    /\ None \notin {"l2", "l3", "vlan", "made", "lost"}

VARIABLE sw

\* A call for n fails, for no reason of ours or because it must.
May(n, S) == IF n \in Fallible THEN S ELSE {}
Broken(st, n) == Failed([st EXCEPT !.broken = @ \cup {n}])
Abort(st) == {Failed([st EXCEPT !.aborted = TRUE])}

-----------------------------------------------------------------------------
(* Linux devices.                                                          *)

\* A device is created by a command or by the SDK, then given its address by a
\* command; it is not deleted when that fails.  A VLAN device is given none.
Addressed(kind) == kind # "vlan"
LinkAdded(st, n, kind) == [st EXCEPT !.link[n] = kind]
LinkCreate(st, n, kind) ==
    IF st.link[n] # None THEN {Broken(st, n)}
    ELSE {Done(LinkAdded(st, n, kind))}
         \cup May(n, {Broken(st, n)})
         \cup May(n, IF Addressed(kind) THEN {Broken(LinkAdded(st, n, kind), n)}
                     ELSE {})

\* __mlnx_remove_netdev: 0xff & system(..) has no exit code of the command.  An
\* error is only seen when the command was killed by a signal.
LinkDelete(st, n) ==
    LET deleted == Done([st EXCEPT !.link[n] = None])
        ignored == Done([st EXCEPT !.broken = @ \cup {n}])
    IN  (CASE st.link[n] = None -> {ignored}
           [] st.link[n] = "l3" -> {deleted, ignored}
           [] OTHER             -> {deleted} \cup May(n, {ignored}))
        \cup May(n, {Broken(st, n)})

\* __mlnx_remove_l3_port_netdev: the SDK deletes the device it created.
L3Delete(st, n) ==
    IF st.link[n] # "l3" THEN {Broken(st, n)}
    ELSE {Done([st EXCEPT !.link[n] = None])} \cup May(n, {Broken(st, n)})

Delete(st, n, type) ==
    IF type = "l3" THEN L3Delete(st, n) ELSE LinkDelete(st, n)

-----------------------------------------------------------------------------
(* The vendor class.                                                       *)

\* The table is indexed by name: adding asserts that the name has no entry.
EntryAdd(st, n, type) ==
    IF st.hif[n] # None THEN Abort(st)
    ELSE {Done([st EXCEPT !.hif[n] = type])}
EntryDel(st, n) == {Done([st EXCEPT !.hif[n] = None])}

\* __host_intf_netdev_create; the mutant enters the netdev's class as the type.
NetdevCreateClass(st, n, type) ==
    Then(LinkCreate(st, n, type), LAMBDA t : EntryAdd(t, n, Kind[n]))
NetdevCreate(st, n, type) ==
    Then(LinkCreate(st, n, type), LAMBDA t : EntryAdd(t, n, type))

\* __host_intf_netdev_remove; the mutant leaves the entry.
NetdevRemoveKeeping(st, n) ==
    IF st.hif[n] = None THEN Abort(st) ELSE Delete(st, n, st.hif[n])
NetdevRemove(st, n) ==
    IF st.hif[n] = None THEN Abort(st)
    ELSE Then(Delete(st, n, st.hif[n]), LAMBDA t : EntryDel(t, n))

\* __port_transaction_to_l2 and __port_transaction_to_l3: to is the new type.
\* The port is looked up by its label id among the entries of ports; the mutant
\* looks at all entries.
FoundAny(st, id) == {n \in Names : st.hif[n] # None /\ Handle[n] = id}
Found(st, id) == {n \in Names : st.hif[n] \in {"l2", "l3"} /\ Handle[n] = id}

\* Entry n is made a "to" device; the mutant forgets the type.
ConvertUntyped(st, n, to) ==
    Then(Delete(st, n, st.hif[n]), LAMBDA t : LinkCreate(t, n, to))
Convert(st, n, to) ==
    Then(Delete(st, n, st.hif[n]),
         LAMBDA t : Then(LinkCreate(t, n, to),
                         LAMBDA u : {Done([u EXCEPT !.hif[n] = to])}))

Transaction(st, id, to) ==
    IF Found(st, id) = {} THEN Abort(st)
    ELSE UNION {IF st.hif[n] = to THEN {Done(st)} ELSE Convert(st, n, to) :
                    n \in Found(st, id)}

\* __mlnx_port_transaction_to_l2, the router interface class's own callback: it
\* sets DISCARDING before FORWARDING, and leaves the port where the SDK fails.
Stp(st, n) ==
    LET With(state) == [st EXCEPT !.stp[n] = state]
    IN  {Done(With("forwarding"))}
        \cup May(n, {Broken(st, n), Broken(With("discarding"), n)})

\* ops_sai_port_transaction to L2: the callbacks in the order in which they were
\* registered.  They return nothing, so an error of one does not stop the next.
TransactionToL2(st, n) ==
    Regardless(Transaction(st, Handle[n], "l2"),
               LAMBDA t : IF t.aborted THEN {Done(t)} ELSE Stp(t, n))

-----------------------------------------------------------------------------
(* Netdevs and router interfaces.                                          *)

Init ==
    sw = [dev  |-> [n \in Names |-> "none"], hif |-> [n \in Names |-> None],
          link |-> [n \in Names |-> None], rif |-> [n \in Names |-> None],
          stp |-> [n \in Names |-> "forwarding"], aborted |-> FALSE, broken |-> {}]

Construct(n) ==
    /\ sw.dev[n] = "none"
    /\ sw' = [sw EXCEPT !.dev[n] = "new"]

\* __set_hw_intf_info and __set_hw_intf_info_internal.  Reading the base MAC
\* before, and a port's configuration after, may fail.  The bridge's interface
\* is ready without a device.
Ready(st, n) == {Done([st EXCEPT !.dev[n] = "ready"])}
Initialized(st, n) ==
    LET refused == {Failed([st EXCEPT !.broken = @ \cup {n}])}
    IN  CASE Kind[n] = "bridge" -> Ready(st, n)
          [] Kind[n] = "vlan" ->
                May(n, refused)
                \cup Then(NetdevCreate(st, n, "vlan"), LAMBDA t : Ready(t, n))
          [] Kind[n] = "system" ->
                May(n, refused)
                \cup Then(NetdevCreate(st, n, "l2"),
                          LAMBDA t : Ready(t, n) \cup May(n, {Broken(t, n)}))

SetHwIntfInfo(n) ==
    /\ sw.dev[n] = "new"
    /\ \E o \in Initialized(sw, n) : sw' = o.st

\* __destruct, after the port was taken out of its bundle.  The status of the
\* removal is not looked at.
Destruct(n) ==
    /\ sw.dev[n] # "none" /\ sw.rif[n] # "made"
    /\ \E o \in (IF sw.dev[n] = "ready" THEN NetdevRemove(sw, n) ELSE {Done(sw)}) :
        sw' = [o.st EXCEPT !.dev[n] = "none"]

\* __router_intf_create and __router_intf_remove for a port, when the SDK calls
\* before the transaction succeed (see RouterIntf); the callback returns
\* nothing.  The SDK refuses a second rif for a port.
RifCreate(n) ==
    /\ Kind[n] = "system" /\ sw.dev[n] = "ready" /\ sw.rif[n] = None
    /\ \E o \in Transaction(sw, Handle[n], "l3") :
        sw' = [o.st EXCEPT !.rif[n] = "made"]

RifRemove(n) ==
    /\ sw.rif[n] = "made"
    /\ \E o \in TransactionToL2(sw, n) :
        sw' = [o.st EXCEPT !.rif[n] = None]

RifLost(n) ==
    /\ n \in Fallible /\ sw.rif[n] = "made"
    /\ sw' = [sw EXCEPT !.rif[n] = "lost", !.broken = @ \cup {n}]

Next ==
    /\ ~sw.aborted
    /\ \E n \in Names : \/ Construct(n) \/ SetHwIntfInfo(n) \/ Destruct(n)
                        \/ RifCreate(n) \/ RifRemove(n) \/ RifLost(n)

Spec == Init /\ [][Next]_sw

-----------------------------------------------------------------------------
Types == {"l2", "l3", "vlan", None}

State == [dev : [Names -> {"none", "new", "ready"}],
          hif : [Names -> Types], link : [Names -> Types],
          rif : [Names -> {"made", "lost", None}],
          stp : [Names -> {"forwarding", "discarding"}],
          aborted : BOOLEAN, broken : SUBSET Names]

TypeOK == sw \in State

\* all_host_intf is what removal and transactions go by.  Unless something
\* failed for this very name, it has the device that Linux has: through any
\* number of transactions, re-creations, and failures of other names.
TableIsTrue ==
    \A n \in Names \ sw.broken : sw.hif[n] = sw.link[n]

\* "Host interface with hw id should always exists": an initialized port or
\* VLAN interface has an entry of its own kind, whatever failed before.
ReadyHasEntry ==
    \A n \in Names : sw.dev[n] = "ready" =>
        CASE Kind[n] = "system" -> sw.hif[n] \in {"l2", "l3"}
          [] Kind[n] = "vlan"   -> sw.hif[n] = "vlan"
          [] OTHER              -> TRUE

\* The device that n should have, when its netdev and router interface are so.
Fitting(n, dev, rif) ==
    IF dev # "ready" THEN None
    ELSE CASE Kind[n] = "system" -> IF rif = "made" THEN "l3" ELSE "l2"
           [] Kind[n] = "vlan"   -> "vlan"
           [] OTHER              -> None

\* A routed port has an L3 device, any other port an L2 device and forwards, and
\* a netdev that is gone leaves no device for the next one of its name to
\* stumble on.
DeviceFitsUse ==
    \A n \in Names \ sw.broken :
        /\ sw.stp[n] = "forwarding"
        /\ sw.link[n] = Fitting(n, sw.dev[n], sw.rif[n])

\* "ovs_assert(hif)", and the assertions that a name has no entry yet or that a
\* port has one: none fails before any command or SDK call has failed, but when
\* the initialized interface of a bridge is destructed, which never had an entry.
OnlyBridgesAbort ==
    [][(sw'.aborted /\ sw'.broken = {}) =>
        \E n \in Names : /\ Kind[n] = "bridge"
                         /\ sw.dev[n] = "ready" /\ sw'.dev[n] = "none"]_sw

=============================================================================
