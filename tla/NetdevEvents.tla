---------------------------- MODULE NetdevEvents ----------------------------
(***************************************************************************)
(* Two threads and one list without a lock: sai-netdev.c and the event     *)
(* callback of sai-api-class.c.                                            *)
(*                                                                         *)
(* The main thread constructs netdevs, gives them a port and destroys them *)
(* (it alone ever takes sai_netdev_list_mutex, which therefore excludes    *)
(* nobody).  A thread of SAI handles link events: it walks sai_netdev_list *)
(* with LIST_FOR_EACH_SAFE, one load of memory after the other, and counts *)
(* the event for the first netdev of the port.                             *)
(*                                                                         *)
(* A netdev is a piece of memory, and its links stay as they were when it  *)
(* is taken off the list.  A pointer of the walk to memory that was freed  *)
(* is lost, and what is read or written through it is undefined.           *)
(***************************************************************************)
EXTENDS SwitchPorts

CONSTANTS Netdevs,    \* places in memory for a netdev
          ListHead,   \* &sai_netdev_list
          Layouts,    \* what SAI may answer when it is asked for its ports
          MaxEvents   \* bound on the link events ever reported

ASSUME NetdevAssumption ==
    /\ ListHead \notin Netdevs
    /\ Layouts \subseteq Seq(Lanes)
    /\ \A lay \in Layouts : Accepted(lay)
    /\ MaxEvents \in Nat

VARIABLES layout,  \* what SAI answered
          oid,     \* sai_lable_id_to_oid_map
          mem,     \* mem[n]: "free", "listed", or "unlinked" but not freed yet
          next,    \* list_node.next, of the list itself too
          dev,     \* the class, is_port_initialized, hw_id, carrier_resets
          queue,   \* events that SAI reported, the one being handled in front
          walk,    \* the event thread: place in the code, dev and next_dev,
                   \* which of them are lost
          seen,    \* history of the event being handled, for LinkEvents
          broken,  \* undefined behaviour has had its way
          sent     \* events ever reported

vars == <<layout, oid, mem, next, dev, queue, walk, seen, broken, sent>>
mainVars == <<mem, next, dev>>
table == <<layout, oid>>

Classes == {"system", "internal"}
Events == [port : DOMAIN layout, up : BOOLEAN]

\* xzalloc.  The mutant starts from a label that is no label.
FreshUnnumbered(c) == [class |-> c, ready |-> FALSE, label |-> -1, resets |-> 0]
Fresh(c) == [class |-> c, ready |-> FALSE, label |-> 0, resets |-> 0]

\* The port that netdev n counts for.
PortOf(n) ==
    IF mem[n] = "listed" /\ dev[n].ready THEN oid[dev[n].label] ELSE NoPort

Idle == [pc |-> "idle", cur |-> ListHead, nxt |-> ListHead, lost |-> {}]
Unseen == [current |-> {}, steady |-> {}, freed |-> FALSE, counted |-> FALSE]

\* Writing behind the end of the table is undefined from the start.
Init ==
    /\ layout \in Layouts
    /\ oid = OidMap(layout)
    /\ mem = [n \in Netdevs |-> "free"]
    /\ next = [x \in Netdevs \cup {ListHead} |-> ListHead]
    /\ dev = [n \in Netdevs |-> Fresh("system")]
    /\ queue = <<>> /\ walk = Idle /\ seen = Unseen /\ sent = 0
    /\ broken = Overflows(layout)

-----------------------------------------------------------------------------
(***************************************************************************)
(* The main thread.                                                        *)
(***************************************************************************)

\* netdev_unref destroys and deallocates with nothing in between.
MainAtRest == \A n \in Netdevs : mem[n] # "unlinked"

Last == CHOOSE x \in {n \in Netdevs : mem[n] = "listed"} \cup {ListHead} : next[x] = ListHead

\* __alloc and __construct: list_push_back.
Construct(n, c) ==
    /\ MainAtRest /\ mem[n] = "free"
    /\ mem' = [mem EXCEPT ![n] = "listed"]
    /\ dev' = [dev EXCEPT ![n] = Fresh(c)]
    /\ next' = [next EXCEPT ![n] = ListHead, ![Last] = n]
    /\ UNCHANGED <<table, queue, walk, seen, broken, sent>>

\* History: n counts for port p from now on.
Counts(n, p) ==
    seen' = IF walk.pc # "idle" /\ Head(queue).port = p
            THEN [seen EXCEPT !.current = @ \cup {n}] ELSE seen

\* hw_intf_info comes from the description of the hardware: labels that ports
\* have, each given to one netdev.
Labels == {PortLabel(layout[i]) : i \in DOMAIN layout}

\* __set_hw_intf_info.  The label is written first and stays when one of the
\* calls after it fails.
SetHwIntfInfo(n, l) ==
    /\ MainAtRest /\ mem[n] = "listed" /\ dev[n].class = "system"
    /\ ~dev[n].ready
    /\ \A m \in Netdevs \ {n} : mem[m] = "listed" => dev[m].label # l
    /\ \/ /\ dev' = [dev EXCEPT ![n].label = l, ![n].ready = TRUE]
          /\ Counts(n, oid[l])
       \/ /\ dev' = [dev EXCEPT ![n].label = l]
          /\ UNCHANGED seen
    /\ UNCHANGED <<table, mem, next, queue, walk, broken, sent>>

\* __set_hw_intf_info_internal: no label, which is label 0, which has no port.
SetHwIntfInfoInternal(n) ==
    /\ MainAtRest /\ mem[n] = "listed" /\ dev[n].class = "internal"
    /\ ~dev[n].ready
    /\ dev' = [dev EXCEPT ![n].ready = TRUE]
    /\ Counts(n, oid[dev[n].label])
    /\ UNCHANGED <<table, mem, next, queue, walk, broken, sent>>

\* __destruct: list_remove.  The links of n itself stay.
Unlink(n) ==
    /\ MainAtRest /\ mem[n] = "listed"
    /\ mem' = [mem EXCEPT ![n] = "unlinked"]
    /\ next' = [x \in DOMAIN next |->
                  IF x # n /\ next[x] = n /\ (x = ListHead \/ mem[x] = "listed")
                  THEN next[n] ELSE next[x]]
    /\ seen' = [seen EXCEPT !.steady = @ \ {n}]
    /\ UNCHANGED <<table, dev, queue, walk, broken, sent>>

\* __dealloc.
Free(n) ==
    /\ mem[n] = "unlinked"
    /\ mem' = [mem EXCEPT ![n] = "free"]
    /\ next' = [next EXCEPT ![n] = ListHead]
    /\ dev' = [dev EXCEPT ![n] = Fresh("system")]
    /\ walk' = [walk EXCEPT !.lost =
                  @ \cup {f \in {"cur", "nxt"} : walk.pc # "idle" /\ walk[f] = n}]
    /\ seen' = [seen EXCEPT !.current = @ \ {n}, !.freed = walk.pc # "idle"]
    /\ UNCHANGED <<table, queue, broken, sent>>

-----------------------------------------------------------------------------
(***************************************************************************)
(* The event thread of SAI.                                                *)
(***************************************************************************)

\* SAI calls __event_port_state with an array of events.
EventPortState(data) ==
    /\ queue = <<>> /\ sent + Len(data) <= MaxEvents
    /\ queue' = data
    /\ sent' = sent + Len(data)
    /\ UNCHANGED <<table, walk, seen, broken, mainVars>>

\* The next turn of its loop: the walk starts at the head
\* of the list.
Begin ==
    /\ walk.pc = "idle" /\ queue # <<>>
    /\ walk' = [Idle EXCEPT !.pc = "load", !.cur = next[ListHead]]
    /\ LET now == {n \in Netdevs : PortOf(n) = Head(queue).port}
       IN  seen' = [Unseen EXCEPT !.current = now, !.steady = now]
    /\ UNCHANGED <<table, queue, broken, sent, mainVars>>

\* What dev points to is read or written.
Sound == "cur" \notin walk.lost

\* LIST_FOR_EACH_SAFE reads the link of dev before the body.
Load ==
    /\ walk.pc = "load" /\ walk.cur # ListHead /\ Sound
    /\ walk' = [walk EXCEPT !.pc = "test", !.nxt = next[walk.cur], !.lost = {}]
    /\ UNCHANGED <<table, queue, seen, broken, sent, mainVars>>

\* The mutant forgets to look at is_port_initialized, which is all that tells
\* the netdevs off from ones whose port was never set up.
MatchesUninitialized(n) == oid[dev[n].label] = Head(queue).port
Matches(n) == dev[n].ready /\ oid[dev[n].label] = Head(queue).port

\* dev = next_dev.  The mutant steps back to the start of the list.
AdvanceFirst(w) == [Idle EXCEPT !.pc = "load", !.cur = next[ListHead]]
Advance(w) ==
    [Idle EXCEPT !.pc = "load", !.cur = w.nxt,
                 !.lost = IF "nxt" \in w.lost THEN {"cur"} ELSE {}]

\* The condition in the body of the loop.
Test ==
    /\ walk.pc = "test" /\ Sound
    /\ walk' = IF Matches(walk.cur) THEN [walk EXCEPT !.pc = "hit"] ELSE Advance(walk)
    /\ UNCHANGED <<table, queue, seen, broken, sent, mainVars>>

Handled ==
    /\ queue' = Tail(queue)
    /\ walk' = Idle /\ seen' = Unseen

\* A netdev was found: it counts, if the link came up.
Hit ==
    /\ walk.pc = "hit" /\ Sound
    /\ dev' = IF Head(queue).up THEN [dev EXCEPT ![walk.cur].resets = @ + 1] ELSE dev
    /\ walk' = [walk EXCEPT !.pc = "report"]
    /\ seen' = [seen EXCEPT !.counted = TRUE]
    /\ UNCHANGED <<table, mem, next, queue, broken, sent>>

\* netdev_change_seq_changed reads and writes the netdev once more.
Report ==
    /\ walk.pc = "report" /\ Sound
    /\ Handled
    /\ UNCHANGED <<table, broken, sent, mainVars>>

\* The walk came to the end of the list.  dev is then not NULL but the address
\* of a netdev whose list_node would be the list itself, and the event is
\* counted there, in whatever the linker put around sai_netdev_list: it may do
\* no harm.
Miss ==
    /\ walk.pc = "load" /\ walk.cur = ListHead
    /\ \/ Handled /\ UNCHANGED broken
       \/ broken' = TRUE /\ UNCHANGED <<queue, walk, seen>>
    /\ UNCHANGED <<table, sent, mainVars>>

\* Freed memory is read or written.
UseAfterFree ==
    /\ walk.pc # "idle" /\ ~Sound
    /\ broken' = TRUE
    /\ UNCHANGED <<table, queue, walk, seen, sent, mainVars>>

Walk == Begin \/ Load \/ Test \/ Hit \/ Report \/ Miss \/ UseAfterFree

\* After undefined behaviour there is nothing more to say.
Next ==
    /\ ~broken
    /\ \/ Walk
       \/ \E k \in 1 .. MaxEvents : \E data \in [1 .. k -> Events] : EventPortState(data)
       \/ \E n \in Netdevs : \/ \E c \in Classes : Construct(n, c)
                             \/ Unlink(n) \/ Free(n) \/ SetHwIntfInfoInternal(n)
                             \/ \E l \in Labels : SetHwIntfInfo(n, l)

\* The event thread runs: it waits for no lock.  The main thread may stop, or go on
\* for ever.
Spec == Init /\ [][Next]_vars /\ WF_vars(~broken /\ Walk)

-----------------------------------------------------------------------------
(***************************************************************************)
(* Properties.                                                             *)
(***************************************************************************)

\* Every label is a place in the table of ports (hw_id2port_id checks nothing),
\* and every link goes to a place for a netdev or to the head of the list.
TypeOK ==
    /\ layout \in Layouts
    /\ oid \in [LabelIds -> {NoPort} \cup DOMAIN layout]
    /\ mem \in [Netdevs -> {"free", "listed", "unlinked"}]
    /\ next \in [Netdevs \cup {ListHead} -> Netdevs \cup {ListHead}]
    /\ dev \in [Netdevs -> [class : Classes, ready : BOOLEAN, label : LabelIds,
                          resets : 0 .. MaxEvents]]
    /\ queue \in Seq(Events) /\ broken \in BOOLEAN
    /\ walk.pc \in {"idle", "load", "test", "hit", "report"}
    /\ {walk.cur, walk.nxt} \subseteq Netdevs \cup {ListHead}
    /\ walk.lost \subseteq {"cur", "nxt"}
    /\ seen \in [current : SUBSET Netdevs, steady : SUBSET Netdevs,
                freed : BOOLEAN, counted : BOOLEAN]
    /\ sent \in 0 .. MaxEvents

\* An internal interface, whose label nobody sets, never stands for a port of the
\* switch: labels count from 1, so that 0, which xzalloc leaves, is free.
InternalHasNoPort ==
    \A n \in Netdevs : dev[n].class = "internal" => PortOf(n) = NoPort

\* Although the walk takes no lock and reads one link ahead, an event is counted
\* once and by a netdev of its port if there was one all the while.  For anything
\* else to happen it takes a netdev freed under the walk, a port without a netdev,
\* or a layout that does not fit the table.
Abstract == INSTANCE LinkEvents WITH
    Ports <- 1 .. PortsMax,
    port <- [n \in Netdevs |-> PortOf(n)],
    resets <- [n \in Netdevs |-> dev[n].resets],
    busy <- walk.pc # "idle",
    current <- seen.current, steady <- seen.steady,
    freed <- seen.freed, counted <- seen.counted,
    fits <- ~Overflows(layout)
ImplementsLinkEvents == Abstract!Spec

\* A netdev is put on the list ahead of the walk.
ConstructAhead ==
    /\ walk.pc # "idle"
    /\ \E n \in Netdevs, c \in Classes : Construct(n, c)

\* No event waits for ever behind a walk that does not end: not for netdevs that
\* are taken off the list, freed or set up under it.  New netdevs go to the end of
\* the list, and the walk may not catch up with a main thread that constructs them
\* again and again while one event is handled; that it does not is assumed, and
\* only that.
EventsAreHandled ==
    \/ []<><<ConstructAhead>>_vars
    \/ \A k \in 1 .. MaxEvents : sent >= k ~> sent - Len(queue) >= k \/ broken

=============================================================================
