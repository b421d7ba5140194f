------------------------------- MODULE Plugin -------------------------------
(***************************************************************************)
(* The ofproto provider from its init to its del: the ofprotos and routes  *)
(* of VirtualRouters and the traps of Traps under one life cycle, and the  *)
(* ports of each ofproto with the loop that lists them (port_add,          *)
(* port_del, port_dump_start, port_dump_next and port_dump_done in         *)
(* sai-ofproto-provider.c).                                                *)
(*                                                                         *)
(* The daemon lists the ports of an ofproto without doing anything else    *)
(* meanwhile, and has an interface in one ofproto at a time.               *)
(***************************************************************************)
EXTENDS VirtualRouters, Traps

CONSTANTS PortNames

ASSUME PluginAssumption == None \notin Names

VARIABLES traps,  \* the switch's traps, see Traps
          ports,  \* ports[n]: the sset ofproto->ports
          dump    \* the listing that is going on

vars == <<rvars, traps, ports, dump>>

NoDump == [of |-> None, todo |-> {}, known |-> {}, ghost |-> FALSE, eof |-> FALSE,
           reported |-> [x \in PortNames |-> 0]]
AtRest == dump = NoDump

\* The plugin is still in its init; the daemon calls it when it is Idle.
Registering == phase = "up" /\ TrapsMissing(traps)
Idle == AtRest /\ ~Registering

Init ==
    /\ RInit
    /\ traps = NoTraps
    /\ ports = [n \in Names |-> {}]
    /\ dump = NoDump

-----------------------------------------------------------------------------
(***************************************************************************)
(* The operations of VirtualRouters in their place.                        *)
(***************************************************************************)

\* __init.  Traps are registered near the end, turn by turn, and nothing else
\* happens until the last one; an abort on the way is one of the start.
Start ==
    /\ RStart
    /\ RoomForTraps \/ phase' = "aborted"
    /\ UNCHANGED <<traps, ports, dump>>

RegisterTraps ==
    /\ Registering
    /\ traps' = TrapsTurn(traps)
    /\ UNCHANGED <<rvars, ports, dump>>

\* __del: traps are unregistered near the start.  A second del finds the SAI API
\* uninitialized, which an assertion does not allow.
Del(n) ==
    /\ Idle
    /\ RDel(n)
    /\ IF phase' = "down" THEN traps' \in TrapsUnregistered(traps) ELSE traps' = traps
    /\ UNCHANGED <<ports, dump>>

Construct(n) == Idle /\ RConstruct(n) /\ UNCHANGED <<traps, ports, dump>>

\* sset_destroy forgets the ports.
Destroy(n) ==
    /\ Idle
    /\ RDestroy(n)
    /\ ports' = [ports EXCEPT ![n] = {}]
    /\ UNCHANGED <<traps, dump>>

EnumerateNames == Idle /\ REnumerateNames /\ UNCHANGED <<traps, ports, dump>>

RouteAction(n, p, H) ==
    /\ Idle
    /\ RRouteAdd(n, p, H) \/ RRouteDeleteNh(n, p, H) \/ RRouteDelete(n, p)
    /\ UNCHANGED <<traps, ports, dump>>

-----------------------------------------------------------------------------
(***************************************************************************)
(* Ports.                                                                  *)
(***************************************************************************)

PortAdd(n, x) ==
    /\ Running /\ Idle /\ n \in live
    /\ \A m \in Names : x \notin ports[m]
    /\ ports' = [ports EXCEPT ![n] = @ \cup {x}]
    /\ UNCHANGED <<rvars, traps, dump>>

\* The daemon names the port by its number; it must have one.
PortDel(n, x) ==
    /\ Running /\ Idle /\ n \in live /\ x \in ports[n]
    /\ ports' = [ports EXCEPT ![n] = @ \ {x}]
    /\ UNCHANGED <<rvars, traps, dump>>

\* known are the names that netdev_get_type_from_name knows.
PortDumpStart(n) ==
    /\ Running /\ Idle /\ n \in live
    /\ \E known \in SUBSET PortNames :
          dump' = [NoDump EXCEPT !.of = n, !.todo = ports[n], !.known = known]
    /\ UNCHANGED <<rvars, traps, ports>>

\* Whether port x has a netdev; if not the answer is ENODEV.
PortQueryByName(x) == x \in dump.known

\* One turn of the loop in port_dump_next, which passes over ENODEV.
DumpPort(x) ==
    /\ ~AtRest /\ x \in dump.todo
    /\ dump' = [dump EXCEPT !.todo = @ \ {x},
                            !.reported[x] = IF PortQueryByName(x) THEN @ + 1 ELSE @]
    /\ UNCHANGED <<rvars, traps, ports>>

\* At the end of the set it starts again, for the ghost ports; but it looks at
\* ofproto->ports again.  The mutant forgets that it has started again.
AgainForgotten(d) == [d EXCEPT !.todo = ports[d.of]]
Again(d) == [d EXCEPT !.todo = ports[d.of], !.ghost = TRUE]

DumpAgain ==
    /\ ~AtRest /\ dump.todo = {} /\ ~dump.ghost
    /\ dump' = Again(dump)
    /\ UNCHANGED <<rvars, traps, ports>>

DumpEof ==
    /\ ~AtRest /\ dump.todo = {} /\ dump.ghost /\ ~dump.eof
    /\ dump' = [dump EXCEPT !.eof = TRUE]
    /\ UNCHANGED <<rvars, traps, ports>>

PortDumpDone ==
    /\ dump.eof
    /\ dump' = NoDump
    /\ UNCHANGED <<rvars, traps, ports>>

PortDump == DumpAgain \/ DumpEof \/ PortDumpDone \/ \E x \in PortNames : DumpPort(x)

Next ==
    \/ Start \/ RegisterTraps \/ EnumerateNames \/ PortDump
    \/ \E n \in Names :
          \/ Del(n) \/ Construct(n) \/ Destroy(n) \/ PortDumpStart(n)
          \/ \E x \in PortNames : PortAdd(n, x) \/ PortDel(n, x)
          \/ \E p \in IpPrefixes, H \in SUBSET Hops : RouteAction(n, p, H)

\* A listing is a loop of the daemon, which runs.
Spec == Init /\ [][Next]_vars /\ WF_vars(PortDump)

-----------------------------------------------------------------------------
(***************************************************************************)
(* Properties.                                                             *)
(***************************************************************************)

TypeOK ==
    /\ RTypeOK
    /\ DOMAIN traps.policer \subseteq 1 .. Len(SaiConfig) + Len(VendorConfig)
    /\ traps.group \in [GroupIds -> {None} \cup DOMAIN traps.policer]
    /\ traps.sai \subseteq GroupIds
    /\ ports \in [Names -> SUBSET PortNames]
    /\ dump.of \in Names \cup {None} /\ dump.todo \subseteq PortNames
    /\ dump.reported \in [PortNames -> 0 .. 2]

\* Once init has ended, until del, every trap of both tables goes to a group of its
\* own config, which polices at the rate of that config, and the groups that
\* Mellanox adds behind SAI's back are not SAI's.
TrapsPoliced ==
    phase = "up" /\ ~Registering =>
        /\ \A c \in Configs : \A t \in c.traps :
              traps.policer[traps.group[traps.trap[t].group]] = c.rate
        /\ \A c1, c2 \in Configs :
              c1 # c2 => \A t1 \in c1.traps, t2 \in c2.traps :
                            traps.trap[t1].group # traps.trap[t2].group
        /\ \A g \in Range(traps.vendor) : g \notin traps.sai

\* A listing comes to its end, with every port that has a netdev reported, as
\* often as every other (twice, for there is no second set of ghost ports), and no
\* other port.
DumpIsComplete ==
    \A x \in PortNames :
        dump.reported[x] = IF x \in ports[dump.of] \cap dump.known THEN 2 ELSE 0
DumpCompletes == ~AtRest ~> dump.eof /\ DumpIsComplete

=============================================================================
