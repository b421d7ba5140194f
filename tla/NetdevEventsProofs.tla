------------------------- MODULE NetdevEventsProofs -------------------------
(* Proofs about NetdevEvents for any layout of the ports, any memory and any *)
(* number of netdevs and events.                                           *)
EXTENDS NetdevEvents, WellFoundedInduction, TLAPS

-----------------------------------------------------------------------------
(* Labels and ports.                                                       *)

LEMMA MaxIsLargest ==
    ASSUME NEW k \in Nat, NEW T \in SUBSET (1 .. k), T # {}
    PROVE  Max(T) \in T /\ \A t \in T : t <= Max(T)
<1> DEFINE Bounds == {b \in Nat : \A t \in T : t <= b}
           Less == OpToRel(<, Nat)
<1>1. Bounds \subseteq Nat /\ k \in Bounds
    OBVIOUS
<1>2. PICK m \in Bounds : \A b \in Bounds : <<b, m>> \notin Less
    BY <1>1, WFMin, NatLessThanWellFounded
<1>3. \A b \in Bounds : ~(b < m)
    BY <1>2 DEF OpToRel
<1>4. m \in T
    <2>1. SUFFICES ASSUME m \notin T PROVE FALSE
        OBVIOUS
    <2>2. m >= 1
        <3>1. PICK t \in T : TRUE
            OBVIOUS
        <3> QED
            BY <3>1
    <2>3. m - 1 \in Bounds
        <3>1. \A t \in T : t <= m /\ t # m
            BY <2>1
        <3> QED
            BY <2>2, <3>1
    <2> QED
        BY <2>3, <1>3
<1>5. \A t \in T : m >= t
    OBVIOUS
<1>6. Max(T) \in T /\ \A t \in T : Max(T) >= t
    BY <1>4, <1>5 DEF Max
<1> QED
    BY <1>6

LEMMA DivIsNat ==
    ASSUME NEW a \in Nat, NEW b \in Nat \ {0}
    PROVE  a \div b \in Nat
OBVIOUS

\* Label 0 has no port.  Unless the layout overflows, ports and labels are places in
\* their tables.
LEMMA LabelFacts ==
    ASSUME layout \in Layouts, oid = OidMap(layout)
    PROVE  /\ oid \in [LabelIds -> {NoPort} \cup DOMAIN layout]
           /\ 0 \in LabelIds /\ oid[0] = NoPort /\ NoPort \notin DOMAIN layout
           /\ ~Overflows(layout) => /\ DOMAIN layout \subseteq 1 .. PortsMax
                                    /\ Labels \subseteq LabelIds
<1>1. layout \in Seq(Lanes) /\ PortsMax \in Nat \ {0}
    BY NetdevAssumption, PortsMaxAssumption
<1>2. DOMAIN layout = 1 .. Len(layout) /\ Len(layout) \in Nat
    BY <1>1
<1>3. ASSUME NEW i \in DOMAIN layout
      PROVE  PortLabel(layout[i]) \in Nat \ {0}
    <2>1. layout[i] \in Lanes
        BY <1>1, <1>2
    <2>2. layout[i].first \div layout[i].count \in Nat
        BY <2>1, DivIsNat DEF Lanes
    <2> QED
        BY <2>2 DEF PortLabel
<1> DEFINE With(l) == {i \in DOMAIN layout : PortLabel(layout[i]) = l}
<1>4. \A l \in LabelIds : oid[l] = IF With(l) = {} THEN NoPort ELSE Max(With(l))
    BY DEF OidMap
<1>5. \A l \in LabelIds : With(l) # {} => Max(With(l)) \in DOMAIN layout
    BY <1>2, MaxIsLargest
<1>6. With(0) = {}
    BY <1>3
<1>7. oid \in [LabelIds -> {NoPort} \cup DOMAIN layout]
    <2>1. DOMAIN oid = LabelIds /\ oid = [l \in LabelIds |-> oid[l]]
        BY DEF OidMap
    <2>2. \A l \in LabelIds : oid[l] \in {NoPort} \cup DOMAIN layout
        BY <1>4, <1>5
    <2> HIDE DEF With
    <2> QED
        BY <2>1, <2>2
<1>8. 0 \in LabelIds /\ NoPort \notin DOMAIN layout
    BY <1>1, <1>2 DEF LabelIds, NoPort
<1>9. ASSUME ~Overflows(layout)
      PROVE  DOMAIN layout \subseteq 1 .. PortsMax /\ Labels \subseteq LabelIds
    <2>1. Len(layout) <= PortsMax /\ \A i \in DOMAIN layout : PortLabel(layout[i]) < PortsMax
        <3>1. ~(Len(layout) > PortsMax)
              /\ \A i \in DOMAIN layout : ~(PortLabel(layout[i]) >= PortsMax)
            BY <1>9 DEF Overflows
        <3> QED
            BY <1>1, <1>2, <1>3, <3>1
    <2>2. DOMAIN layout \subseteq 1 .. PortsMax
        BY <1>1, <1>2, <2>1
    <2>3. \A i \in DOMAIN layout : PortLabel(layout[i]) \in LabelIds
        BY <1>1, <1>3, <2>1 DEF LabelIds
    <2> QED
        BY <2>2, <2>3 DEF Labels
<1> QED
    BY <1>4, <1>6, <1>7, <1>8, <1>9

-----------------------------------------------------------------------------
(* Types, and what they rest on.                                           *)

Netdev == [class : Classes, ready : BOOLEAN, label : LabelIds, resets : Nat]
Walks == [pc : {"idle", "load", "test", "hit", "report"}, cur : Netdevs \cup {ListHead},
          nxt : Netdevs \cup {ListHead}, lost : SUBSET {"cur", "nxt"}]
Histories == [current : SUBSET Netdevs, steady : SUBSET Netdevs, freed : BOOLEAN,
              counted : BOOLEAN]

Typed ==
    /\ layout \in Layouts /\ oid = OidMap(layout)
    /\ mem \in [Netdevs -> {"free", "listed", "unlinked"}]
    /\ next \in [Netdevs \cup {ListHead} -> Netdevs \cup {ListHead}]
    /\ dev \in [Netdevs -> Netdev]
    /\ queue \in Seq(Events) /\ walk \in Walks /\ seen \in Histories
    /\ broken \in BOOLEAN /\ sent \in 0 .. MaxEvents

\* The events that nobody counted yet.
Waiting == IF walk.pc = "report" THEN Len(queue) - 1 ELSE Len(queue)

\* An internal netdev has no label, memory that is free is as xzalloc will find it,
\* one netdev at a time is between the list and free, and events that wait have not
\* been counted.
Orderly ==
    /\ \A n \in Netdevs : dev[n].class = "internal" => dev[n].label = 0
    /\ \A n \in Netdevs : mem[n] = "free" => dev[n] = Fresh("system")
    /\ \A m, n \in Netdevs : mem[m] = "unlinked" /\ mem[n] = "unlinked" => m = n
    /\ \A n \in Netdevs : dev[n].resets + Waiting <= sent
    /\ walk.pc # "idle" => queue # <<>>

LEMMA FreshType == \A c \in Classes : Fresh(c) \in Netdev /\ Fresh(c).resets = 0
                                      /\ Fresh(c).label = 0 /\ ~Fresh(c).ready
                                      /\ Fresh(c).class = c
BY PortsMaxAssumption DEF Fresh, Netdev, LabelIds

\* The layout is what it was at the start.
LEMMA TableStays ==
    ASSUME UNCHANGED table
    PROVE  /\ Events' = Events
           /\ layout \in Layouts /\ oid = OidMap(layout)
              => layout' \in Layouts /\ oid' = OidMap(layout)'
BY DEF table, Events, OidMap

LEMMA InitTyped == Init => Typed /\ Orderly
<1> SUFFICES ASSUME Init
             PROVE  Typed /\ Orderly
    OBVIOUS
<1>1. Fresh("system") \in Netdev /\ Fresh("system").resets = 0
      /\ Fresh("system").label = 0
    BY FreshType DEF Classes
<1>2. Idle \in Walks /\ Idle.pc = "idle" /\ Unseen \in Histories
    BY DEF Idle, Walks, Unseen, Histories
<1>3. Typed
    <2>1. layout \in Layouts /\ oid = OidMap(layout) /\ queue \in Seq(Events)
        BY DEF Init
    <2>2. mem \in [Netdevs -> {"free", "listed", "unlinked"}] /\ dev \in [Netdevs -> Netdev]
        BY <1>1 DEF Init
    <2>3. /\ next \in [Netdevs \cup {ListHead} -> Netdevs \cup {ListHead}]
          /\ walk \in Walks /\ seen \in Histories /\ broken \in BOOLEAN
        BY <1>2 DEF Init, Overflows
    <2>4. sent \in 0 .. MaxEvents
        BY NetdevAssumption DEF Init
    <2> QED
        BY <2>1, <2>2, <2>3, <2>4 DEF Typed
<1>4. Orderly
    BY <1>1, <1>2 DEF Init, Orderly, Waiting
<1> QED
    BY <1>3, <1>4

LEMMA ConstructTyped ==
    ASSUME Typed, Orderly, NEW n \in Netdevs, NEW c \in Classes, Construct(n, c)
    PROVE  Typed' /\ Orderly'
<1>1. /\ mem' = [mem EXCEPT ![n] = "listed"] /\ Fresh(c) \in Netdev
      /\ dev' = [dev EXCEPT ![n] = Fresh(c)]
      /\ UNCHANGED <<layout, oid, queue, walk, seen, broken, sent>>
    BY FreshType DEF Construct, table
<1>2. next' \in [Netdevs \cup {ListHead} -> Netdevs \cup {ListHead}]
    BY DEF Construct, Typed
<1>3. Typed'
    <2>1. Events' = Events /\ layout' \in Layouts /\ oid' = OidMap(layout)'
        BY <1>1, TableStays DEF table, Typed
    <2> QED
        BY <1>1, <1>2, <2>1 DEF Typed
<1>4. dev[n] = Fresh("system") /\ dev[n].resets = 0
    BY FreshType DEF Construct, Orderly, Classes
<1>5. \A m \in Netdevs : dev'[m].resets = dev[m].resets
    BY <1>1, <1>4, FreshType DEF Typed
<1>6. dev'[n].label = 0 /\ \A m \in Netdevs \ {n} : dev'[m] = dev[m]
    BY <1>1, FreshType DEF Typed
<1>7. mem'[n] = "listed" /\ \A m \in Netdevs \ {n} : mem'[m] = mem[m]
    BY <1>1 DEF Typed
<1> QED
    BY <1>1, <1>3, <1>5, <1>6, <1>7 DEF Orderly, Waiting

\* What remains of netdev d when it is given label l.
Labelled(d, l, r) == [class |-> d.class, ready |-> r, label |-> l, resets |-> d.resets]

LEMMA LabelledFacts ==
    ASSUME NEW d \in Netdev, NEW l \in LabelIds
    PROVE  /\ [d EXCEPT !.label = l, !.ready = TRUE] = Labelled(d, l, TRUE)
           /\ [d EXCEPT !.label = l] = Labelled(d, l, d.ready)
           /\ [d EXCEPT !.ready = TRUE] = Labelled(d, d.label, TRUE)
           /\ \A r \in BOOLEAN : Labelled(d, l, r) \in Netdev
<1> DEFINE Set(r) == [d EXCEPT !.label = l, !.ready = r] = Labelled(d, l, r)
           Readied(r) == [d EXCEPT !.ready = r] = Labelled(d, d.label, r)
<1>a. ASSUME NEW r
      PROVE  Set(r) /\ Readied(r)
    <2>1. d = [class |-> d.class, ready |-> d.ready, label |-> d.label, resets |-> d.resets]
        BY DEF Netdev
    <2>2. Set(r)
        <3> DEFINE e == [d EXCEPT !.label = l, !.ready = r]
        <3>1. DOMAIN e = {"class", "ready", "label", "resets"}
            BY <2>1
        <3>2. e.class = d.class /\ e.ready = r /\ e.label = l /\ e.resets = d.resets
            BY <2>1
        <3>3. e = [x \in {"class", "ready", "label", "resets"} |-> e[x]]
            BY <3>1
        <3> HIDE DEF e
        <3>4. e = Labelled(d, l, r)
            BY <3>2, <3>3 DEF Labelled
        <3> QED
            BY <3>4 DEF e
    <2>3. Readied(r)
        BY <2>1 DEF Labelled
    <2> QED
        BY <2>2, <2>3
<1>b. Set(TRUE) /\ Readied(TRUE)
    <2> HIDE DEF Set, Readied
    <2> QED
        BY <1>a
<1>1. [d EXCEPT !.label = l, !.ready = TRUE] = Labelled(d, l, TRUE)
    BY <1>b
<1>2. [d EXCEPT !.label = l] = Labelled(d, l, d.ready)
    BY DEF Netdev, Labelled
<1>3. [d EXCEPT !.ready = TRUE] = Labelled(d, d.label, TRUE)
    BY <1>b
<1>4. \A r \in BOOLEAN : Labelled(d, l, r) \in Netdev
    BY DEF Netdev, Labelled
<1> QED
    BY <1>1, <1>2, <1>3, <1>4

\* Both ways to set a netdev up, which may leave it half done.
LEMMA InfoFacts ==
    ASSUME Typed, Orderly, ~Overflows(layout), NEW n \in Netdevs,
           SetHwIntfInfoInternal(n) \/ \E l \in Labels : SetHwIntfInfo(n, l)
    PROVE  /\ mem[n] = "listed" /\ ~dev[n].ready
           /\ UNCHANGED <<table, mem, next, queue, walk, broken, sent>>
           /\ \E l \in LabelIds, r \in BOOLEAN :
                 /\ dev[n].class = "internal" => l = 0
                 /\ Labelled(dev[n], l, r) \in Netdev
                 /\ dev' = [dev EXCEPT ![n] = Labelled(dev[n], l, r)]
                 /\ IF r THEN Counts(n, oid[l]) ELSE UNCHANGED seen
<1>1. dev[n] \in Netdev /\ dev[n].label \in LabelIds
    BY DEF Typed, Netdev
<1>2. CASE SetHwIntfInfoInternal(n)
    <2>1. dev' = [dev EXCEPT ![n] = Labelled(dev[n], dev[n].label, TRUE)]
        <3>1. dev' = [dev EXCEPT ![n] = [dev[n] EXCEPT !.ready = TRUE]]
            BY <1>2 DEF SetHwIntfInfoInternal
        <3> QED
            BY <1>1, <3>1, LabelledFacts
    <2>2. /\ mem[n] = "listed" /\ ~dev[n].ready /\ Counts(n, oid[dev[n].label])
          /\ UNCHANGED <<table, mem, next, queue, walk, broken, sent>>
        BY <1>2 DEF SetHwIntfInfoInternal
    <2>3. dev[n].class = "internal" => dev[n].label = 0
        BY DEF Orderly
    <2> QED
        BY <1>1, <2>1, <2>2, <2>3, LabelledFacts
<1>3. ASSUME NEW l \in Labels, SetHwIntfInfo(n, l)
      PROVE  /\ mem[n] = "listed" /\ ~dev[n].ready
             /\ UNCHANGED <<table, mem, next, queue, walk, broken, sent>>
             /\ dev[n].class # "internal" /\ l \in LabelIds
             /\ \E r \in BOOLEAN :
                   /\ Labelled(dev[n], l, r) \in Netdev
                   /\ dev' = [dev EXCEPT ![n] = Labelled(dev[n], l, r)]
                   /\ IF r THEN Counts(n, oid[l]) ELSE UNCHANGED seen
    <2>1. l \in LabelIds
        BY LabelFacts DEF Typed
    <2>2. /\ mem[n] = "listed" /\ ~dev[n].ready /\ dev[n].class = "system"
          /\ UNCHANGED <<table, mem, next, queue, walk, broken, sent>>
        BY <1>3 DEF SetHwIntfInfo
    <2>3. \/ /\ dev' = [dev EXCEPT ![n] = [dev[n] EXCEPT !.label = l, !.ready = TRUE]]
             /\ Counts(n, oid[l])
          \/ /\ dev' = [dev EXCEPT ![n] = [dev[n] EXCEPT !.label = l]]
             /\ UNCHANGED seen
        BY <1>3 DEF SetHwIntfInfo
    <2>4. [dev[n] EXCEPT !.label = l] = Labelled(dev[n], l, FALSE)
        <3>1. dev[n].ready = FALSE
            BY <1>1, <2>2 DEF Netdev
        <3> QED
            BY <1>1, <2>1, <3>1, LabelledFacts
    <2>5. [dev[n] EXCEPT !.label = l, !.ready = TRUE] = Labelled(dev[n], l, TRUE)
        BY <1>1, <2>1, LabelledFacts
    <2>6. \A r \in BOOLEAN : Labelled(dev[n], l, r) \in Netdev
        BY <1>1, <2>1, LabelledFacts
    <2>7. CASE dev' = [dev EXCEPT ![n] = Labelled(dev[n], l, TRUE)] /\ Counts(n, oid[l])
        BY <2>1, <2>2, <2>6, <2>7
    <2>8. CASE dev' = [dev EXCEPT ![n] = Labelled(dev[n], l, FALSE)] /\ UNCHANGED seen
        BY <2>1, <2>2, <2>6, <2>8
    <2> QED
        BY <2>3, <2>4, <2>5, <2>7, <2>8
<1> QED
    BY <1>2, <1>3

LEMMA InfoTyped ==
    ASSUME Typed, Orderly, ~Overflows(layout), NEW n \in Netdevs,
           SetHwIntfInfoInternal(n) \/ \E l \in Labels : SetHwIntfInfo(n, l)
    PROVE  Typed' /\ Orderly'
<1>1. UNCHANGED <<table, mem, next, queue, walk, broken, sent>> /\ mem[n] = "listed"
    BY InfoFacts
<1>2. PICK l \in LabelIds, r \in BOOLEAN :
          /\ dev[n].class = "internal" => l = 0
          /\ Labelled(dev[n], l, r) \in Netdev
          /\ dev' = [dev EXCEPT ![n] = Labelled(dev[n], l, r)]
          /\ IF r THEN Counts(n, oid[l]) ELSE UNCHANGED seen
    BY InfoFacts
<1>3. seen' \in Histories
    BY <1>2 DEF Counts, Typed, Histories
<1>4. Typed'
    <2>1. Events' = Events /\ layout' \in Layouts /\ oid' = OidMap(layout)'
        BY <1>1, TableStays DEF Typed
    <2> QED
        BY <1>1, <1>2, <1>3, <2>1 DEF Typed
<1>5. /\ dev'[n].class = "internal" => dev'[n].label = 0
      /\ \A m \in Netdevs : dev'[m].resets = dev[m].resets
      /\ \A m \in Netdevs \ {n} : dev'[m] = dev[m]
    BY <1>2 DEF Labelled, Typed
<1> QED
    BY <1>1, <1>4, <1>5 DEF Orderly, Waiting

LEMMA UnlinkTyped ==
    ASSUME Typed, Orderly, NEW n \in Netdevs, Unlink(n)
    PROVE  Typed' /\ Orderly'
<1>1. /\ MainAtRest /\ mem[n] = "listed" /\ mem' = [mem EXCEPT ![n] = "unlinked"]
      /\ UNCHANGED <<table, dev, queue, walk, broken, sent>>
      /\ seen' = [seen EXCEPT !.steady = @ \ {n}]
    BY DEF Unlink
<1>2. seen' \in Histories
    BY <1>1 DEF Typed, Histories
<1>3. next' \in [Netdevs \cup {ListHead} -> Netdevs \cup {ListHead}]
    BY DEF Unlink, Typed
<1>4. Typed'
    <2>1. Events' = Events /\ layout' \in Layouts /\ oid' = OidMap(layout)'
        BY <1>1, TableStays DEF Typed
    <2> QED
        BY <1>1, <1>2, <1>3, <2>1 DEF Typed
<1> QED
    BY <1>1, <1>4 DEF Orderly, Waiting, MainAtRest, Typed

LEMMA FreeTyped ==
    ASSUME Typed, Orderly, NEW n \in Netdevs, Free(n)
    PROVE  Typed' /\ Orderly'
<1>1. /\ mem' = [mem EXCEPT ![n] = "free"] /\ next' = [next EXCEPT ![n] = ListHead]
      /\ dev' = [dev EXCEPT ![n] = Fresh("system")]
      /\ UNCHANGED <<table, queue, broken, sent>>
    BY DEF Free
<1>2. seen' \in Histories
    BY DEF Free, Typed, Histories
<1>3. walk' \in Walks /\ walk'.pc = walk.pc
    BY DEF Free, Typed, Walks
<1>4. Fresh("system") \in Netdev /\ Fresh("system").resets = 0
      /\ Fresh("system").class = "system"
    BY FreshType DEF Classes
<1>5. Typed'
    <2>1. Events' = Events /\ layout' \in Layouts /\ oid' = OidMap(layout)'
        BY <1>1, TableStays DEF Typed
    <2> QED
        BY <1>1, <1>2, <1>3, <1>4, <2>1 DEF Typed
<1>6. dev'[n] = Fresh("system") /\ \A m \in Netdevs \ {n} : dev'[m] = dev[m]
    BY <1>1 DEF Typed
<1>7. \A m \in Netdevs : dev'[m].resets <= dev[m].resets /\ dev'[m].resets \in Nat
                            /\ dev[m].resets \in Nat
    BY <1>4, <1>6 DEF Typed, Netdev
<1>8. \A m \in Netdevs \ {n} : mem'[m] = mem[m]
    BY <1>1 DEF Typed
<1>9. Waiting \in Int /\ sent \in Nat /\ Waiting' = Waiting /\ sent' = sent
    BY <1>1, <1>3 DEF Typed, Waiting
<1>10. \A m \in Netdevs : dev'[m].resets + Waiting' <= sent'
    BY <1>7, <1>9 DEF Orderly
<1> QED
    BY <1>1, <1>3, <1>4, <1>5, <1>6, <1>8, <1>10 DEF Orderly, Typed

LEMMA EventPortStateTyped ==
    ASSUME Typed, Orderly, NEW k \in 1 .. MaxEvents, NEW data \in [1 .. k -> Events],
           EventPortState(data)
    PROVE  Typed' /\ Orderly'
<1>1. /\ queue = <<>> /\ sent + Len(data) <= MaxEvents
      /\ queue' = data /\ sent' = sent + Len(data)
      /\ UNCHANGED <<table, walk, seen, broken, mainVars>>
    BY DEF EventPortState
<1>2. k \in Nat /\ data \in Seq(Events) /\ Len(data) = k
    BY NetdevAssumption
<1>3. sent' \in 0 .. MaxEvents
    BY <1>1, <1>2, NetdevAssumption DEF Typed
<1>4. Typed'
    <2>1. Events' = Events /\ layout' \in Layouts /\ oid' = OidMap(layout)'
        BY <1>1, TableStays DEF Typed
    <2> QED
        BY <1>1, <1>2, <1>3, <2>1 DEF Typed, mainVars
<1>5. walk.pc = "idle" /\ walk'.pc = "idle"
    BY <1>1 DEF Orderly
<1>6. \A n \in Netdevs : dev'[n].resets + Waiting' <= sent'
    <2>1. \A n \in Netdevs : dev[n].resets \in Nat /\ dev[n].resets + 0 <= sent
        BY <1>1, <1>5 DEF Orderly, Waiting, Typed, Netdev
    <2>2. Waiting' = Len(data)
        BY <1>1, <1>5 DEF Waiting
    <2> QED
        BY <1>1, <1>2, <2>1, <2>2 DEF mainVars, Typed
<1> QED
    BY <1>1, <1>4, <1>5, <1>6 DEF Orderly, mainVars

LEMMA StillTyped ==
    ASSUME Typed, UNCHANGED table, UNCHANGED <<mem, next, sent>>,
           dev' \in [Netdevs -> Netdev], queue' \in Seq(Events), walk' \in Walks,
           seen' \in Histories, broken' \in BOOLEAN
    PROVE  Typed'
<1>1. Events' = Events /\ layout' \in Layouts /\ oid' = OidMap(layout)'
    BY TableStays DEF Typed
<1> QED
    BY <1>1 DEF Typed

LEMMA IdleType == Idle \in Walks /\ Idle.pc = "idle" /\ Unseen \in Histories
BY DEF Idle, Walks, Unseen, Histories

\* The walk of the event thread, but for the netdev that counts.
LEMMA WalkingTyped ==
    ASSUME Typed, Orderly, Begin \/ Load \/ Test
    PROVE  Typed' /\ Orderly'
<1>1. UNCHANGED <<table, mem, next, sent, dev, queue, broken>> /\ queue # <<>>
    BY DEF Begin, Load, Test, mainVars, Orderly
<1>2. walk' \in Walks
    <2>1. CASE Begin
        <3>1. next[ListHead] \in Netdevs \cup {ListHead}
            BY DEF Typed
        <3>2. walk' = [Idle EXCEPT !.pc = "load", !.cur = next[ListHead]]
            BY <2>1 DEF Begin
        <3> QED
            BY <3>1, <3>2 DEF Idle, Walks
    <2>2. CASE Load
        BY <2>2 DEF Load, Walks, Typed
    <2>3. CASE Test
        <3>1. CASE walk' = [walk EXCEPT !.pc = "hit"]
            BY <3>1 DEF Walks, Typed
        <3>2. CASE walk' = Advance(walk)
            <4>1. walk.nxt \in Netdevs \cup {ListHead}
                BY DEF Typed, Walks
            <4>2. (IF "nxt" \in walk.lost THEN {"cur"} ELSE {}) \in SUBSET {"cur", "nxt"}
                OBVIOUS
            <4> QED
                BY <3>2, <4>1, <4>2 DEF Advance, Idle, Walks
        <3> QED
            BY <2>3, <3>1, <3>2 DEF Test
    <2> QED
        BY <2>1, <2>2, <2>3
<1>3. seen' \in Histories
    <2>1. CASE Begin
        <3> DEFINE now == {n \in Netdevs : PortOf(n) = Head(queue).port}
        <3>1. seen' = [current |-> now, steady |-> now, freed |-> FALSE, counted |-> FALSE]
            BY <2>1 DEF Begin, Unseen
        <3>2. now \in SUBSET Netdevs
            OBVIOUS
        <3> HIDE DEF now
        <3> QED
            BY <3>1, <3>2 DEF Histories
    <2>2. CASE Load \/ Test
        BY <2>2 DEF Load, Test, Typed
    <2> QED
        BY <2>1, <2>2
<1>4. Typed'
    BY <1>1, <1>2, <1>3, StillTyped DEF Typed
<1>5. walk.pc # "report" /\ walk'.pc # "report"
    <2>1. CASE Begin
        BY <2>1 DEF Begin, Idle
    <2>2. CASE Load
        BY <2>2 DEF Load, Typed, Walks
    <2>3. CASE Test
        BY <2>3 DEF Test, Advance, Idle, Typed, Walks
    <2> QED
        BY <2>1, <2>2, <2>3
<1>6. Waiting' = Waiting
    BY <1>1, <1>5 DEF Waiting
<1> QED
    BY <1>1, <1>4, <1>6 DEF Orderly

LEMMA HandledTyped ==
    ASSUME Typed, Orderly, walk.pc # "idle", Handled,
           UNCHANGED <<table, mem, next, dev, broken, sent>>
    PROVE  Typed' /\ Orderly'
<1>1. /\ queue' = Tail(queue) /\ queue # <<>> /\ queue \in Seq(Events)
      /\ walk' = Idle /\ seen' = Unseen
    BY DEF Handled, Orderly, Typed
<1>2. queue' \in Seq(Events) /\ Len(queue') = Len(queue) - 1 /\ Len(queue) \in Nat
    BY <1>1
<1>3. Typed'
    BY <1>1, <1>2, IdleType, StillTyped DEF Typed
<1>4. \A n \in Netdevs : dev'[n].resets + Waiting' <= sent'
    <2>1. \A n \in Netdevs : dev[n].resets \in Nat /\ dev[n].resets + Waiting <= sent
        BY DEF Typed, Orderly, Netdev
    <2>2. sent \in Nat
        BY DEF Typed
    <2>3. Waiting' = Len(queue) - 1
        BY <1>1, <1>2, IdleType DEF Waiting
    <2>4. Waiting \in Int /\ Waiting' <= Waiting
        BY <1>2, <2>3 DEF Waiting
    <2> QED
        BY <1>2, <2>1, <2>2, <2>3, <2>4
<1> QED
    BY <1>1, <1>3, <1>4, IdleType DEF Orderly

\* The netdev that counts, if any does.
LEMMA HitCounts ==
    ASSUME Typed, Hit
    PROVE  /\ dev' \in [Netdevs -> Netdev]
           /\ \A n \in Netdevs :
                 /\ dev'[n].class = dev[n].class /\ dev'[n].label = dev[n].label
                 /\ dev'[n].ready = dev[n].ready
                 /\ n # walk.cur => dev'[n] = dev[n]
                 /\ dev'[n].resets = IF n = walk.cur /\ Head(queue).up
                                     THEN dev[n].resets + 1 ELSE dev[n].resets
<1>1. dev' = IF Head(queue).up THEN [dev EXCEPT ![walk.cur].resets = @ + 1] ELSE dev
    BY DEF Hit
<1>2. CASE ~Head(queue).up
    BY <1>1, <1>2 DEF Typed
<1>3. CASE Head(queue).up
    <2>1. dev' = [dev EXCEPT ![walk.cur].resets = @ + 1]
        BY <1>1, <1>3
    <2>2. ASSUME NEW n \in Netdevs
          PROVE  /\ dev'[n] \in Netdev
                 /\ dev'[n].class = dev[n].class /\ dev'[n].label = dev[n].label
                 /\ dev'[n].ready = dev[n].ready
                 /\ n # walk.cur => dev'[n] = dev[n]
                 /\ dev'[n].resets = IF n = walk.cur THEN dev[n].resets + 1 ELSE dev[n].resets
        <3>1. dev[n] \in Netdev
            BY DEF Typed
        <3>2. dev'[n] = IF n = walk.cur THEN [dev[n] EXCEPT !.resets = @ + 1] ELSE dev[n]
            BY <2>1 DEF Typed
        <3> QED
            BY <3>1, <3>2 DEF Netdev
    <2>3. dev' = [n \in Netdevs |-> dev'[n]]
        BY <2>1 DEF Typed
    <2>4. dev' \in [Netdevs -> Netdev]
        BY <2>2, <2>3
    <2> QED
        BY <1>3, <2>2, <2>4
<1> QED
    BY <1>2, <1>3

LEMMA HitTyped ==
    ASSUME Typed, Orderly, mem[walk.cur] # "free", Hit
    PROVE  Typed' /\ Orderly'
<1>1. /\ walk.pc = "hit" /\ walk' = [walk EXCEPT !.pc = "report"]
      /\ seen' = [seen EXCEPT !.counted = TRUE]
      /\ UNCHANGED <<table, mem, next, queue, broken, sent>>
    BY DEF Hit
<1>2. walk' \in Walks /\ walk'.pc = "report" /\ seen' \in Histories
    BY <1>1 DEF Typed, Walks, Histories
<1>3. Typed'
    BY <1>1, <1>2, HitCounts, StillTyped DEF Typed
<1>4. \A n \in Netdevs : dev'[n].resets + Waiting' <= sent'
    <2>1. \A n \in Netdevs : /\ dev[n].resets \in Nat /\ dev[n].resets + Len(queue) <= sent
                             /\ dev'[n].resets \in Nat /\ dev'[n].resets <= dev[n].resets + 1
        BY <1>1, HitCounts DEF Typed, Orderly, Waiting, Netdev
    <2>2. sent \in Nat /\ Len(queue) \in Nat /\ sent' = sent
        BY <1>1 DEF Typed
    <2>3. Waiting' = Len(queue) - 1
        BY <1>1, <1>2 DEF Waiting
    <2> QED
        BY <2>1, <2>2, <2>3
<1>5. /\ \A n \in Netdevs : dev'[n].class = "internal" => dev'[n].label = 0
      /\ \A n \in Netdevs : mem'[n] = "free" => dev'[n] = Fresh("system")
    BY <1>1, HitCounts DEF Orderly
<1> QED
    BY <1>1, <1>2, <1>3, <1>4, <1>5 DEF Orderly

LEMMA MissTyped ==
    ASSUME Typed, Orderly, Report \/ Miss \/ UseAfterFree
    PROVE  Typed' /\ Orderly'
<1>1. /\ walk.pc # "idle"
      /\ UNCHANGED <<table, mem, next, sent, dev>>
    BY DEF Report, Miss, UseAfterFree, mainVars
<1>2. CASE Handled /\ UNCHANGED broken
    BY <1>1, <1>2, HandledTyped
<1>3. CASE broken' = TRUE /\ UNCHANGED <<queue, walk, seen>>
    <2>1. Typed'
        <3>1. broken' \in BOOLEAN /\ queue' \in Seq(Events) /\ walk' \in Walks
              /\ seen' \in Histories /\ dev' \in [Netdevs -> Netdev]
            BY <1>1, <1>3 DEF Typed
        <3> QED
            BY <1>1, <3>1, StillTyped
    <2>2. UNCHANGED <<mem, dev, queue, walk, sent>>
        BY <1>1, <1>3
    <2>3. Orderly'
        BY <2>2 DEF Orderly, Waiting
    <2> QED
        BY <2>1, <2>3
<1> QED
    BY <1>1, <1>2, <1>3 DEF Report, Miss, UseAfterFree

-----------------------------------------------------------------------------
(* The list.                                                               *)

\* Netdevs have a rank, by birth.  With memory mm and links nn: who is on the list
\* behind x,
Ahead(mm, rank, x, m) == mm[m] = "listed" /\ (x = ListHead \/ rank[x] < rank[m])

\* and the link of x leads to the first of them.
Follows(mm, nn, rank, x) ==
    IF nn[x] = ListHead
    THEN \A m \in Netdevs : ~Ahead(mm, rank, x, m)
    ELSE /\ Ahead(mm, rank, x, nn[x])
         /\ \A m \in Netdevs : Ahead(mm, rank, x, m) => rank[nn[x]] <= rank[m]

\* That is so for the list and whatever is not free, also a netdev that is off the
\* list already.
Sorted(mm, nn, b, rank) ==
    /\ rank \in [Netdevs -> Nat] /\ b \in Nat
    /\ \A n \in Netdevs : mm[n] # "free" => 1 <= rank[n] /\ rank[n] <= b
    /\ \A m, n \in Netdevs :
          mm[m] # "free" /\ mm[n] # "free" /\ rank[m] = rank[n] => m = n
    /\ Follows(mm, nn, rank, ListHead)
    /\ \A x \in Netdevs : mm[x] # "free" => Follows(mm, nn, rank, x)

\* There is a last one, and nothing is behind it.
LEMMA LastFacts ==
    ASSUME Typed, NEW rank, NEW b, Sorted(mem, next, b, rank)
    PROVE  /\ Last \in {n \in Netdevs : mem[n] = "listed"} \cup {ListHead}
           /\ next[Last] = ListHead
           /\ \A m \in Netdevs : ~Ahead(mem, rank, Last, m)
<1> DEFINE L == {n \in Netdevs : mem[n] = "listed"}
           T == {rank[n] : n \in L}
<1>a. rank \in [Netdevs -> Nat] /\ b \in Nat /\ ListHead \notin Netdevs
    BY NetdevAssumption DEF Sorted
<1>1. \E x \in L \cup {ListHead} : next[x] = ListHead
    <2>1. CASE L = {}
        <3>1. Follows(mem, next, rank, ListHead)
            BY DEF Sorted
        <3>2. next[ListHead] \in Netdevs \cup {ListHead}
            BY DEF Typed
        <3>3. next[ListHead] = ListHead
            BY <2>1, <3>1, <3>2 DEF Follows, Ahead
        <3> QED
            BY <3>3
    <2>2. CASE L # {}
        <3>1. T \in SUBSET (1 .. b) /\ T # {}
            <4>1. \A n \in L : rank[n] \in 1 .. b
                BY <1>a DEF Sorted
            <4> QED
                BY <2>2, <4>1
        <3>2. Max(T) \in T /\ \A t \in T : t <= Max(T)
            <4> HIDE DEF T
            <4> QED
                BY <1>a, <3>1, MaxIsLargest
        <3>3. PICK n \in L : rank[n] = Max(T)
            BY <3>2
        <3>a. \A m \in L : rank[m] <= rank[n]
            BY <3>2, <3>3
        <3>4. Follows(mem, next, rank, n)
            BY <3>3 DEF Sorted
        <3>5. next[n] \in Netdevs \cup {ListHead}
            BY <3>3 DEF Typed
        <3>6. ASSUME next[n] # ListHead
              PROVE  FALSE
            <4>1. Ahead(mem, rank, n, next[n])
                BY <3>4, <3>6 DEF Follows
            <4>2. next[n] \in L /\ rank[n] < rank[next[n]]
                BY <1>a, <3>3, <3>5, <3>6, <4>1 DEF Ahead
            <4>3. rank[next[n]] <= rank[n]
                BY <3>a, <4>2
            <4>4. rank[next[n]] \in Nat /\ rank[n] \in Nat
                BY <1>a, <4>2
            <4> QED
                BY <4>2, <4>3, <4>4
        <3> QED
            BY <3>3, <3>6
    <2> QED
        BY <2>1, <2>2
<1>2. Last \in L \cup {ListHead} /\ next[Last] = ListHead
    BY <1>1 DEF Last
<1>3. Follows(mem, next, rank, Last)
    BY <1>2 DEF Sorted
<1> HIDE DEF L
<1>4. \A m \in Netdevs : ~Ahead(mem, rank, Last, m)
    BY <1>2, <1>3 DEF Follows
<1> QED
    BY <1>2, <1>4 DEF L

LEMMA InitSorted == Init => Sorted(mem, next, 0, [n \in Netdevs |-> 0])
BY DEF Init, Sorted, Follows, Ahead

\* A netdev born later comes behind all others.
LEMMA ConstructSorted ==
    ASSUME Typed, NEW rank, NEW b, Sorted(mem, next, b, rank),
           NEW n \in Netdevs, NEW c \in Classes, Construct(n, c)
    PROVE  Sorted(mem', next', b + 1, [rank EXCEPT ![n] = b + 1])
<1>1. /\ mem[n] = "free" /\ MainAtRest /\ b \in Nat
      /\ mem' = [mem EXCEPT ![n] = "listed"]
      /\ next' = [next EXCEPT ![n] = ListHead, ![Last] = n]
      /\ ListHead \notin Netdevs
    BY NetdevAssumption DEF Construct, Sorted
<1>a. rank \in [Netdevs -> Nat] /\ [rank EXCEPT ![n] = b + 1] \in [Netdevs -> Nat]
    BY <1>1 DEF Sorted
<1>2. PICK new \in [Netdevs -> Nat] : new = [rank EXCEPT ![n] = b + 1]
    BY <1>a
<1>3. rank \in [Netdevs -> Nat] /\ new[n] = b + 1
      /\ \A m \in Netdevs \ {n} : new[m] = rank[m]
    BY <1>a, <1>2
<1>4. mem'[n] = "listed" /\ \A m \in Netdevs \ {n} : mem'[m] = mem[m]
    BY <1>1 DEF Typed
<1>5. PICK last \in Netdevs \cup {ListHead} :
          /\ last # n /\ (last # ListHead => mem[last] = "listed")
          /\ \A m \in Netdevs : ~Ahead(mem, rank, last, m)
          /\ next'[n] = ListHead /\ next'[last] = n
          /\ \A x \in (Netdevs \cup {ListHead}) \ {n, last} : next'[x] = next[x]
    BY <1>1, LastFacts DEF Typed
<1>6. \A m \in Netdevs \ {n} : mem[m] # "free"
          => mem[m] = "listed" /\ rank[m] \in Nat /\ rank[m] <= b /\ rank[m] >= 1
    BY <1>1, <1>3 DEF Sorted, MainAtRest, Typed
<1>7. ASSUME NEW x \in Netdevs \cup {ListHead}, x # n, NEW m \in Netdevs \ {n}
      PROVE  Ahead(mem', new, x, m) <=> Ahead(mem, rank, x, m)
    BY <1>3, <1>4, <1>7 DEF Ahead
<1>8. ASSUME NEW x \in Netdevs \cup {ListHead}, x # n, x # ListHead => mem[x] # "free"
      PROVE  Ahead(mem', new, x, n)
    BY <1>1, <1>3, <1>4, <1>6, <1>8 DEF Ahead
<1>9. \A m \in Netdevs : ~Ahead(mem', new, n, m)
    <2>1. ASSUME NEW m \in Netdevs, Ahead(mem', new, n, m)
          PROVE  FALSE
        <3>1. mem'[m] = "listed" /\ b + 1 < new[m]
            BY <1>1, <1>3, <2>1 DEF Ahead
        <3>2. m # n /\ mem[m] = "listed" /\ new[m] = rank[m]
            BY <1>1, <1>3, <1>4, <3>1
        <3> QED
            BY <1>1, <1>6, <3>1, <3>2
    <2> QED
        BY <2>1
<1>10. ASSUME NEW x \in Netdevs \cup {ListHead}, x # ListHead => mem'[x] # "free"
       PROVE  Follows(mem', next', new, x)
    <2>1. CASE x = n
        BY <1>5, <1>9, <2>1 DEF Follows
    <2>a. x # n => (x # ListHead => mem[x] # "free")
        BY <1>4, <1>10
    <2>2. CASE x = last
        <3>1. next'[x] = n /\ n # ListHead /\ x # n
            BY <1>1, <1>5, <2>2
        <3>2. Ahead(mem', new, x, n)
            BY <1>8, <2>a, <3>1
        <3>3. \A m \in Netdevs : Ahead(mem', new, x, m) => m = n
            BY <1>5, <1>7, <2>2
        <3>4. new[n] <= new[n]
            BY <1>1, <1>3
        <3> QED
            BY <3>1, <3>2, <3>3, <3>4 DEF Follows
    <2>3. CASE x # n /\ x # last
        <3>1. next'[x] = next[x] /\ Follows(mem, next, rank, x)
              /\ next[x] \in Netdevs \cup {ListHead}
            BY <1>5, <2>a, <2>3 DEF Sorted, Typed
        <3>2. next[x] # ListHead
            <4>1. SUFFICES ASSUME \A m \in Netdevs : ~Ahead(mem, rank, x, m)
                           PROVE  FALSE
                BY <3>1 DEF Follows
            <4>2. x # ListHead => mem[x] = "listed"
                BY <1>6, <2>a, <2>3
            <4>3. CASE x = ListHead
                BY <1>5, <2>3, <4>1, <4>3 DEF Ahead
            <4>4. CASE last = ListHead
                BY <1>5, <2>3, <4>2, <4>4 DEF Ahead
            <4>5. CASE x # ListHead /\ last # ListHead
                <5>1. ~(rank[x] < rank[last]) /\ ~(rank[last] < rank[x])
                    BY <1>5, <4>1, <4>2, <4>5 DEF Ahead
                <5>2. rank[x] = rank[last]
                    BY <1>3, <4>5, <5>1
                <5> QED
                    BY <1>5, <2>3, <4>2, <4>5, <5>2 DEF Sorted
            <4> QED
                BY <4>3, <4>4, <4>5
        <3>3. /\ next[x] \in Netdevs /\ Ahead(mem, rank, x, next[x])
              /\ \A m \in Netdevs : Ahead(mem, rank, x, m) => rank[next[x]] <= rank[m]
            BY <3>1, <3>2 DEF Follows
        <3>4. next[x] # n /\ mem[next[x]] = "listed"
            BY <1>1, <3>3 DEF Ahead
        <3>5. Ahead(mem', new, x, next[x])
            BY <1>7, <2>3, <3>3, <3>4
        <3>6. rank[next[x]] <= b /\ new[next[x]] = rank[next[x]] /\ rank[next[x]] \in Nat
            BY <1>3, <1>6, <3>3, <3>4
        <3>7. ASSUME NEW m \in Netdevs, Ahead(mem', new, x, m)
              PROVE  new[next[x]] <= new[m]
            <4>1. CASE m = n
                BY <1>1, <1>3, <3>6, <4>1
            <4>2. CASE m # n
                BY <1>3, <1>7, <2>3, <3>3, <3>6, <3>7, <4>2
            <4> QED
                BY <4>1, <4>2
        <3> QED
            BY <3>1, <3>2, <3>5, <3>7 DEF Follows
    <2> QED
        BY <2>1, <2>2, <2>3
<1>11. \A m \in Netdevs : mem'[m] # "free" => 1 <= new[m] /\ new[m] <= b + 1
    BY <1>1, <1>3, <1>4, <1>6
<1>12. ASSUME NEW l \in Netdevs, NEW m \in Netdevs, mem'[l] # "free", mem'[m] # "free",
              new[l] = new[m]
       PROVE  l = m
    <2>1. CASE l # n /\ m # n
        BY <1>3, <1>4, <1>12, <2>1 DEF Sorted
    <2>2. CASE l = n \/ m = n
        BY <1>1, <1>3, <1>4, <1>6, <1>12, <2>2
    <2> QED
        BY <2>1, <2>2
<1>13. Sorted(mem', next', b + 1, new)
    <2>1. PICK bound \in Nat : bound = b + 1
        BY <1>1
    <2>2. Follows(mem', next', new, ListHead)
        BY <1>1, <1>10
    <2>3. \A x \in Netdevs : mem'[x] # "free" => Follows(mem', next', new, x)
        BY <1>10
    <2>4. Sorted(mem', next', bound, new)
        BY <1>11, <1>12, <2>1, <2>2, <2>3 DEF Sorted
    <2> QED
        BY <2>1, <2>4
<1> QED
    BY <1>2, <1>13

\* What a netdev off the list leads to is what it led to.
LEMMA UnlinkSorted ==
    ASSUME Typed, NEW rank, NEW b, Sorted(mem, next, b, rank),
           NEW n \in Netdevs, Unlink(n)
    PROVE  Sorted(mem', next', b, rank)
<1>1. /\ mem[n] = "listed" /\ MainAtRest
      /\ mem' = [mem EXCEPT ![n] = "unlinked"]
      /\ next' = [x \in DOMAIN next |->
                    IF x # n /\ next[x] = n /\ (x = ListHead \/ mem[x] = "listed")
                    THEN next[n] ELSE next[x]]
      /\ ListHead \notin Netdevs /\ rank \in [Netdevs -> Nat]
    BY NetdevAssumption DEF Unlink, Sorted
<1>2. mem'[n] = "unlinked" /\ \A m \in Netdevs \ {n} : mem'[m] = mem[m]
    BY <1>1 DEF Typed
<1>3. \A m \in Netdevs : mem'[m] # "free" <=> mem[m] # "free"
    BY <1>1, <1>2
<1>4. \A x \in Netdevs \cup {ListHead} : \A m \in Netdevs :
          Ahead(mem', rank, x, m) <=> m # n /\ Ahead(mem, rank, x, m)
    BY <1>1, <1>2 DEF Ahead
<1>5. ASSUME NEW x \in Netdevs \cup {ListHead}, x # ListHead => mem[x] # "free"
      PROVE  Follows(mem', next', rank, x)
    <2>1. Follows(mem, next, rank, x) /\ Follows(mem, next, rank, n)
          /\ next[x] \in Netdevs \cup {ListHead} /\ next[n] \in Netdevs \cup {ListHead}
        BY <1>1, <1>5 DEF Sorted, Typed
    <2>2. CASE x # n /\ next[x] = n
        <3>1. next'[x] = next[n]
            BY <1>1, <1>5, <2>2 DEF Typed, MainAtRest
        <3>2. /\ Ahead(mem, rank, x, n)
              /\ \A m \in Netdevs : Ahead(mem, rank, x, m) => rank[n] <= rank[m]
            BY <1>1, <2>1, <2>2 DEF Follows
        <3>3. ASSUME NEW m \in Netdevs
              PROVE  Ahead(mem', rank, x, m) <=> Ahead(mem, rank, n, m)
            <4>1. ASSUME Ahead(mem', rank, x, m)
                  PROVE  Ahead(mem, rank, n, m)
                <5>1. m # n /\ Ahead(mem, rank, x, m) /\ mem[m] = "listed"
                    BY <1>4, <4>1 DEF Ahead
                <5>2. rank[n] <= rank[m] /\ rank[n] # rank[m]
                    BY <1>1, <3>2, <5>1 DEF Sorted
                <5> QED
                    BY <1>1, <5>1, <5>2 DEF Ahead
            <4>2. ASSUME Ahead(mem, rank, n, m)
                  PROVE  Ahead(mem', rank, x, m)
                <5>1. mem[m] = "listed" /\ rank[n] < rank[m] /\ m # n
                    BY <1>1, <4>2 DEF Ahead
                <5>2. Ahead(mem, rank, x, m)
                    BY <1>1, <3>2, <5>1 DEF Ahead
                <5> QED
                    BY <1>4, <5>1, <5>2
            <4> QED
                BY <4>1, <4>2
        <3>4. CASE next[n] = ListHead
            BY <2>1, <3>1, <3>3, <3>4 DEF Follows
        <3>5. CASE next[n] # ListHead
            <4>1. next[n] \in Netdevs /\ Ahead(mem, rank, n, next[n])
                  /\ \A m \in Netdevs : Ahead(mem, rank, n, m) => rank[next[n]] <= rank[m]
                BY <2>1, <3>5 DEF Follows
            <4> QED
                BY <3>1, <3>3, <3>5, <4>1 DEF Follows
        <3> QED
            BY <3>4, <3>5
    <2>3. CASE x = n \/ next[x] # n
        <3>1. next'[x] = next[x]
            BY <1>1, <2>3 DEF Typed
        <3>2. CASE next[x] = ListHead
            BY <1>4, <2>1, <3>1, <3>2 DEF Follows
        <3>3. CASE next[x] # ListHead
            <4>1. next[x] \in Netdevs /\ Ahead(mem, rank, x, next[x])
                  /\ \A m \in Netdevs : Ahead(mem, rank, x, m) => rank[next[x]] <= rank[m]
                BY <2>1, <3>3 DEF Follows
            <4>2. next[x] # n
                BY <1>1, <2>3, <4>1 DEF Ahead
            <4> QED
                BY <1>4, <3>1, <3>3, <4>1, <4>2 DEF Follows
        <3> QED
            BY <3>2, <3>3
    <2> QED
        BY <2>2, <2>3
<1> QED
    BY <1>1, <1>3, <1>5 DEF Sorted

LEMMA FreeSorted ==
    ASSUME Typed, NEW rank, NEW b, Sorted(mem, next, b, rank),
           NEW n \in Netdevs, Free(n)
    PROVE  Sorted(mem', next', b, rank)
<1>1. /\ mem[n] = "unlinked"
      /\ mem' = [mem EXCEPT ![n] = "free"] /\ next' = [next EXCEPT ![n] = ListHead]
      /\ ListHead \notin Netdevs /\ rank \in [Netdevs -> Nat]
    BY NetdevAssumption DEF Free, Sorted
<1>2. mem'[n] = "free" /\ \A m \in Netdevs \ {n} : mem'[m] = mem[m]
    BY <1>1 DEF Typed
<1>3. \A x \in (Netdevs \cup {ListHead}) \ {n} : next'[x] = next[x]
    BY <1>1 DEF Typed
<1>4. \A x \in Netdevs \cup {ListHead} : \A m \in Netdevs :
          Ahead(mem', rank, x, m) <=> Ahead(mem, rank, x, m)
    BY <1>1, <1>2 DEF Ahead
<1>5. ASSUME NEW x \in (Netdevs \cup {ListHead}) \ {n}, Follows(mem, next, rank, x)
      PROVE  Follows(mem', next', rank, x)
    <2>1. next'[x] = next[x] /\ next[x] \in Netdevs \cup {ListHead}
        BY <1>3 DEF Typed
    <2> QED
        BY <1>4, <1>5, <2>1 DEF Follows
<1>6. Follows(mem', next', rank, ListHead)
    BY <1>1, <1>5 DEF Sorted
<1>7. \A x \in Netdevs : mem'[x] # "free" => Follows(mem', next', rank, x)
    BY <1>1, <1>2, <1>5 DEF Sorted
<1> QED
    BY <1>1, <1>2, <1>6, <1>7 DEF Sorted

-----------------------------------------------------------------------------
(* The walk.                                                               *)

\* Netdevs that count for the port of the event are all known; steady ones still do.
Counting ==
    /\ \A n \in Netdevs : PortOf(n) = Head(queue).port => n \in seen.current
    /\ \A s \in seen.steady : PortOf(s) = Head(queue).port

\* What is lost was freed under the walk; what is not lost is memory in use, and if
\* it is found to match it has counted for the port.
Safe(x) == x = ListHead \/ (mem[x] # "free" /\ (Matches(x) => x \in seen.current))
Pointing ==
    /\ walk.lost # {} => seen.freed
    /\ IF "cur" \in walk.lost THEN walk.cur \in Netdevs ELSE Safe(walk.cur)
    /\ IF "nxt" \in walk.lost THEN walk.nxt \in Netdevs ELSE Safe(walk.nxt)
    /\ walk.pc # "load" => walk.cur \in Netdevs

\* A pointer that is not lost has not gone past a steady netdev.
Before(rank, x, s) == x # ListHead /\ rank[x] <= rank[s]
Position(rank) ==
    /\ walk.pc = "load" /\ "cur" \notin walk.lost
          => \A s \in seen.steady : Before(rank, walk.cur, s)
    /\ walk.pc = "test" /\ "nxt" \notin walk.lost
          => \A s \in seen.steady : s = walk.cur \/ Before(rank, walk.nxt, s)
    /\ walk.pc = "hit" /\ "cur" \notin walk.lost => Matches(walk.cur)

Walking(rank) ==
    IF walk.pc = "idle" THEN ~seen.freed ELSE Counting /\ Pointing /\ Position(rank)

LEMMA HeadFacts ==
    ASSUME Typed, queue # <<>>
    PROVE  Head(queue) \in Events /\ Head(queue).port # NoPort
<1>1. NoPort \notin DOMAIN layout
    BY LabelFacts DEF Typed
<1>2. Head(queue) \in Events
    BY DEF Typed
<1>3. Head(queue).port \in DOMAIN layout
    BY <1>2 DEF Events
<1> QED
    BY <1>1, <1>2, <1>3

LEMMA SteadyFacts ==
    ASSUME Typed, Orderly, walk.pc # "idle", Counting, NEW s \in seen.steady
    PROVE  s \in Netdevs /\ mem[s] = "listed" /\ Matches(s)
<1>1. Head(queue).port # NoPort
    BY HeadFacts DEF Orderly
<1> QED
    BY <1>1 DEF Counting, PortOf, Matches, Typed, Histories

LEMMA InitWalks == Init => Walking([n \in Netdevs |-> 0])
BY DEF Init, Walking, Idle, Unseen

LEMMA ConstructWalks ==
    ASSUME Typed, Orderly, NEW rank, NEW b, Sorted(mem, next, b, rank), Walking(rank),
           NEW n \in Netdevs, NEW c \in Classes, Construct(n, c),
           NEW new, new = [rank EXCEPT ![n] = b + 1]
    PROVE  Walking(new)'
<1>1. /\ mem[n] = "free" /\ mem' = [mem EXCEPT ![n] = "listed"]
      /\ dev' = [dev EXCEPT ![n] = Fresh(c)] /\ ~Fresh(c).ready
      /\ UNCHANGED <<oid, queue, walk, seen>>
    BY FreshType DEF Construct, table
<1>2. /\ \A m \in Netdevs \ {n} : mem'[m] = mem[m] /\ dev'[m] = dev[m] /\ new[m] = rank[m]
      /\ ~dev'[n].ready
    BY <1>1 DEF Typed, Sorted
<1>3. CASE walk.pc = "idle"
    BY <1>1, <1>3 DEF Walking
<1>4. CASE walk.pc # "idle"
    <2>1. Counting /\ Pointing /\ Position(rank)
        BY <1>4 DEF Walking
    <2>2. ASSUME NEW m \in Netdevs
          PROVE  PortOf(m)' = PortOf(m)
        BY <1>1, <1>2 DEF PortOf
    <2>3. \A s \in seen.steady : s \in Netdevs /\ s # n
        BY <1>1, <1>4, <2>1, SteadyFacts
    <2>4. Counting'
        BY <1>1, <2>1, <2>2, <2>3 DEF Counting
    <2>5. ASSUME NEW x \in Netdevs \cup {ListHead}, Safe(x)
          PROVE  Safe(x)' /\ x # n
        BY <1>1, <1>2, <2>5, NetdevAssumption DEF Safe, Matches
    <2>6. walk.cur \in Netdevs \cup {ListHead} /\ walk.nxt \in Netdevs \cup {ListHead}
        BY DEF Typed, Walks
    <2>7. Pointing'
        BY <1>1, <2>1, <2>5, <2>6 DEF Pointing, Safe
    <2>8. /\ "cur" \notin walk.lost => walk.cur # n
          /\ "nxt" \notin walk.lost => walk.nxt # n
        BY <2>1, <2>5, <2>6 DEF Pointing
    <2>9. Position(new)'
        BY <1>1, <1>2, <2>1, <2>3, <2>6, <2>7, <2>8
        DEF Position, Before, Matches, Pointing
    <2> QED
        BY <1>1, <1>4, <2>4, <2>7, <2>9 DEF Walking
<1> QED
    BY <1>3, <1>4

LEMMA InfoWalks ==
    ASSUME Typed, Orderly, ~Overflows(layout), NEW rank, Walking(rank), NEW n \in Netdevs,
           SetHwIntfInfoInternal(n) \/ \E l \in Labels : SetHwIntfInfo(n, l)
    PROVE  Walking(rank)'
<1>1. mem[n] = "listed" /\ ~dev[n].ready /\ UNCHANGED <<oid, mem, queue, walk>>
    BY InfoFacts DEF table
<1>2. PICK l \in LabelIds, r \in BOOLEAN :
          /\ dev' = [dev EXCEPT ![n] = Labelled(dev[n], l, r)]
          /\ IF r THEN Counts(n, oid[l]) ELSE UNCHANGED seen
    BY InfoFacts
<1>3. dev'[n].ready = r /\ dev'[n].label = l /\ \A m \in Netdevs \ {n} : dev'[m] = dev[m]
    BY <1>2 DEF Labelled, Typed
<1>4. CASE walk.pc = "idle"
    <2>1. seen' = seen
        BY <1>2, <1>4 DEF Counts
    <2> QED
        BY <1>1, <1>4, <2>1 DEF Walking
<1>5. CASE walk.pc # "idle"
    <2>1. Counting /\ Pointing /\ Position(rank)
        BY <1>5 DEF Walking
    <2>2. /\ seen'.steady = seen.steady /\ seen'.freed = seen.freed
          /\ seen.current \subseteq seen'.current
          /\ r /\ oid[l] = Head(queue).port => n \in seen'.current
        BY <1>2, <1>5 DEF Counts, Typed, Histories
    <2>3. \A m \in Netdevs \ {n} : PortOf(m)' = PortOf(m) /\ Matches(m)' = Matches(m)
        BY <1>1, <1>3 DEF PortOf, Matches
    <2>4. Matches(n)' => n \in seen'.current
        BY <1>1, <1>3, <2>2 DEF Matches
    <2>5. \A s \in seen.steady : s \in Netdevs /\ s # n
        BY <1>1, <1>5, <2>1, SteadyFacts DEF Matches
    <2>6. Counting'
        <3>1. PortOf(n)' = Head(queue').port => n \in seen'.current
            <4>1. Head(queue).port # NoPort
                BY <1>5, HeadFacts DEF Orderly
            <4> QED
                BY <1>1, <1>3, <2>4, <4>1 DEF PortOf, Matches
        <3> QED
            BY <1>1, <2>1, <2>2, <2>3, <2>5, <3>1 DEF Counting
    <2>7. ASSUME NEW x \in Netdevs \cup {ListHead}, Safe(x)
          PROVE  Safe(x)'
        BY <1>1, <2>2, <2>3, <2>4, <2>7 DEF Safe
    <2>8. walk.cur \in Netdevs \cup {ListHead} /\ walk.nxt \in Netdevs \cup {ListHead}
        BY DEF Typed, Walks
    <2>9. Pointing'
        BY <1>1, <2>1, <2>2, <2>7, <2>8 DEF Pointing, Safe
    <2>10. Position(rank)'
        <3>1. walk.pc = "hit" /\ "cur" \notin walk.lost => walk.cur \in Netdevs \ {n}
            BY <1>1, <2>1 DEF Position, Pointing, Matches
        <3> QED
            BY <1>1, <2>1, <2>2, <2>3, <3>1 DEF Position, Before
    <2> QED
        BY <1>1, <1>5, <2>6, <2>9, <2>10 DEF Walking
<1> QED
    BY <1>4, <1>5

LEMMA UnlinkWalks ==
    ASSUME Typed, Orderly, NEW rank, Walking(rank), NEW n \in Netdevs, Unlink(n)
    PROVE  Walking(rank)'
<1>1. /\ mem[n] = "listed" /\ mem' = [mem EXCEPT ![n] = "unlinked"]
      /\ seen' = [seen EXCEPT !.steady = @ \ {n}] /\ UNCHANGED <<oid, dev, queue, walk>>
    BY DEF Unlink, table
<1>2. /\ seen'.steady = seen.steady \ {n} /\ seen'.current = seen.current
      /\ seen'.freed = seen.freed
    BY <1>1 DEF Typed, Histories
<1>3. mem'[n] = "unlinked" /\ \A m \in Netdevs \ {n} : mem'[m] = mem[m]
    BY <1>1 DEF Typed
<1>4. CASE walk.pc = "idle"
    BY <1>1, <1>2, <1>4 DEF Walking
<1>5. CASE walk.pc # "idle"
    <2>1. Counting /\ Pointing /\ Position(rank)
        BY <1>5 DEF Walking
    <2>2. Head(queue).port # NoPort /\ seen.steady \subseteq Netdevs
        BY <1>5, HeadFacts DEF Orderly, Typed, Histories
    <2>3. PortOf(n)' = NoPort /\ \A m \in Netdevs \ {n} : PortOf(m)' = PortOf(m)
        BY <1>1, <1>3 DEF PortOf
    <2>4. Counting'
        BY <1>1, <1>2, <2>1, <2>2, <2>3 DEF Counting
    <2>5. \A x : Matches(x)' = Matches(x)
        BY <1>1 DEF Matches
    <2>6. ASSUME NEW x \in Netdevs \cup {ListHead}, Safe(x)
          PROVE  Safe(x)'
        BY <1>1, <1>2, <1>3, <2>5, <2>6 DEF Safe
    <2>7. walk.cur \in Netdevs \cup {ListHead} /\ walk.nxt \in Netdevs \cup {ListHead}
        BY DEF Typed, Walks
    <2>8. Pointing'
        BY <1>1, <1>2, <2>1, <2>6, <2>7 DEF Pointing, Safe
    <2>9. Position(rank)'
        BY <1>1, <1>2, <2>1, <2>5 DEF Position, Before
    <2> QED
        BY <1>1, <1>5, <2>4, <2>8, <2>9 DEF Walking
<1> QED
    BY <1>4, <1>5

LEMMA FreeWalks ==
    ASSUME Typed, Orderly, NEW rank, Walking(rank), NEW n \in Netdevs, Free(n)
    PROVE  Walking(rank)'
<1>1. /\ mem[n] = "unlinked" /\ mem' = [mem EXCEPT ![n] = "free"]
      /\ dev' = [dev EXCEPT ![n] = Fresh("system")]
      /\ walk' = [walk EXCEPT !.lost =
                    @ \cup {f \in {"cur", "nxt"} : walk.pc # "idle" /\ walk[f] = n}]
      /\ seen' = [seen EXCEPT !.current = @ \ {n}, !.freed = walk.pc # "idle"]
      /\ UNCHANGED <<oid, queue>>
    BY DEF Free, table
<1>2. /\ mem'[n] = "free"
      /\ \A m \in Netdevs \ {n} : mem'[m] = mem[m] /\ dev'[m] = dev[m]
    BY <1>1 DEF Typed
<1>3. walk'.pc = walk.pc /\ walk'.cur = walk.cur /\ walk'.nxt = walk.nxt
    BY <1>1 DEF Typed, Walks
<1>4. CASE walk.pc = "idle"
    <2>1. seen' = [seen EXCEPT !.current = @ \ {n}, !.freed = FALSE]
        BY <1>1, <1>4
    <2>2. ~seen'.freed
        BY <2>1 DEF Typed, Histories
    <2> QED
        BY <1>3, <1>4, <2>2 DEF Walking
<1>5. CASE walk.pc # "idle"
    <2>1. Counting /\ Pointing /\ Position(rank)
        BY <1>5 DEF Walking
    <2>2. seen'.freed /\ seen'.steady = seen.steady /\ seen'.current = seen.current \ {n}
        <3>1. seen' = [seen EXCEPT !.current = @ \ {n}, !.freed = TRUE]
            BY <1>1, <1>5
        <3> QED
            BY <3>1 DEF Typed, Histories
    <2>3. walk'.lost = walk.lost \cup {f \in {"cur", "nxt"} : walk[f] = n}
        BY <1>1, <1>5 DEF Typed, Walks
    <2>4. /\ "cur" \in walk'.lost <=> "cur" \in walk.lost \/ walk.cur = n
          /\ "nxt" \in walk'.lost <=> "nxt" \in walk.lost \/ walk.nxt = n
        BY <2>3
    <2>5. Head(queue).port # NoPort
        BY <1>5, HeadFacts DEF Orderly
    <2>6. \A s \in seen.steady : s \in Netdevs /\ s # n
        BY <1>1, <1>5, <2>1, SteadyFacts
    <2>7. PortOf(n)' = NoPort /\ \A m \in Netdevs \ {n} : PortOf(m)' = PortOf(m)
        BY <1>1, <1>2 DEF PortOf
    <2>8. Counting'
        BY <1>1, <2>1, <2>2, <2>5, <2>6, <2>7 DEF Counting
    <2>9. ASSUME NEW x \in Netdevs \cup {ListHead}, Safe(x), x # n
          PROVE  Safe(x)'
        BY <1>1, <1>2, <2>2, <2>9 DEF Safe, Matches
    <2>10. walk.cur \in Netdevs \cup {ListHead} /\ walk.nxt \in Netdevs \cup {ListHead}
        BY DEF Typed, Walks
    <2>11. Pointing'
        <3>1. IF "cur" \in walk'.lost THEN walk'.cur \in Netdevs ELSE Safe(walk.cur)'
            BY <1>3, <2>1, <2>4, <2>9, <2>10 DEF Pointing
        <3>2. IF "nxt" \in walk'.lost THEN walk'.nxt \in Netdevs ELSE Safe(walk.nxt)'
            BY <1>3, <2>1, <2>4, <2>9, <2>10 DEF Pointing
        <3> QED
            BY <1>3, <2>1, <2>2, <3>1, <3>2 DEF Pointing, Safe
    <2>12. Position(rank)'
        <3>1. walk.pc = "hit" /\ "cur" \notin walk'.lost => Matches(walk.cur)'
            <4>1. walk.pc = "hit" /\ "cur" \notin walk'.lost
                     => Matches(walk.cur) /\ walk.cur \in Netdevs \ {n}
                BY <2>1, <2>4 DEF Position, Pointing
            <4> QED
                BY <1>1, <1>2, <4>1 DEF Matches
        <3> QED
            BY <1>1, <1>3, <2>1, <2>2, <2>4, <2>6, <3>1 DEF Position, Before, Matches
    <2> QED
        BY <1>3, <1>5, <2>8, <2>11, <2>12 DEF Walking
<1> QED
    BY <1>4, <1>5

LEMMA EventPortStateWalks ==
    ASSUME Typed, Orderly, NEW rank, Walking(rank), NEW data, EventPortState(data)
    PROVE  Walking(rank)'
BY DEF EventPortState, Walking, Orderly

LEMMA HitWalks ==
    ASSUME Typed, NEW rank, Walking(rank), Hit
    PROVE  Walking(rank)'
<1>1. /\ walk.pc = "hit" /\ walk' = [walk EXCEPT !.pc = "report"]
      /\ seen' = [seen EXCEPT !.counted = TRUE] /\ UNCHANGED <<oid, mem, queue>>
    BY DEF Hit, table
<1>2. /\ walk'.pc = "report" /\ walk'.cur = walk.cur /\ walk'.nxt = walk.nxt
      /\ walk'.lost = walk.lost /\ {walk.cur, walk.nxt} \subseteq Netdevs \cup {ListHead}
    BY <1>1 DEF Typed, Walks
<1>3. /\ seen'.current = seen.current /\ seen'.steady = seen.steady
      /\ seen'.freed = seen.freed /\ seen.steady \subseteq Netdevs
    BY <1>1 DEF Typed, Histories
<1>4. Counting /\ Pointing
    BY <1>1 DEF Walking
<1>5. \A m \in Netdevs : PortOf(m)' = PortOf(m) /\ Matches(m)' = Matches(m)
    BY <1>1, HitCounts DEF PortOf, Matches
<1>6. Counting'
    BY <1>1, <1>3, <1>4, <1>5 DEF Counting
<1>7. \A x \in Netdevs \cup {ListHead} : Safe(x)' <=> Safe(x)
    BY <1>1, <1>3, <1>5 DEF Safe
<1>8. Pointing'
    <2>1. Safe(walk.cur)' <=> Safe(walk.cur)
        BY <1>2, <1>7
    <2>2. Safe(walk.nxt)' <=> Safe(walk.nxt)
        BY <1>2, <1>7
    <2> QED
        BY <1>1, <1>2, <1>3, <1>4, <2>1, <2>2 DEF Pointing, Safe
<1>9. Position(rank)'
    BY <1>2 DEF Position
<1> QED
    BY <1>2, <1>6, <1>8, <1>9 DEF Walking

LEMMA HandledWalks ==
    ASSUME NEW rank, Handled
    PROVE  Walking(rank)'
BY DEF Handled, Walking, Idle, Unseen

LEMMA BreakWalks ==
    ASSUME Typed, NEW rank, Walking(rank),
           UNCHANGED <<table, mainVars, queue, walk, seen>>
    PROVE  Walking(rank)'
<1>1. /\ UNCHANGED <<oid, mem, dev, queue, walk, seen>>
    BY DEF table, mainVars
<1>2. \A m : PortOf(m)' = PortOf(m) /\ Matches(m)' = Matches(m)
    BY <1>1 DEF PortOf, Matches
<1>3. Counting' <=> Counting
    BY <1>1, <1>2 DEF Counting
<1>4. Pointing' <=> Pointing
    BY <1>1, <1>2 DEF Pointing, Safe
<1>5. Position(rank)' <=> Position(rank)
    BY <1>1, <1>2 DEF Position, Before
<1> QED
    BY <1>1, <1>3, <1>4, <1>5 DEF Walking

LEMMA BeginWalks ==
    ASSUME Typed, Orderly, NEW rank, NEW b, Sorted(mem, next, b, rank), Walking(rank), Begin
    PROVE  Walking(rank)'
<1> DEFINE now == {n \in Netdevs : PortOf(n) = Head(queue).port}
<1>a. PICK first : first = next[ListHead]
    OBVIOUS
<1>1. /\ walk' = [Idle EXCEPT !.pc = "load", !.cur = first] /\ queue # <<>>
      /\ seen' = [Unseen EXCEPT !.current = now, !.steady = now]
      /\ UNCHANGED <<oid, mem, dev, queue>>
    BY <1>a DEF Begin, table, mainVars
<1>2. /\ walk'.pc = "load" /\ walk'.cur = first /\ walk'.nxt = ListHead /\ walk'.lost = {}
      /\ seen'.current = now /\ seen'.steady = now
    BY <1>1 DEF Idle, Unseen
<1>3. first \in Netdevs \cup {ListHead} /\ Follows(mem, next, rank, ListHead)
    BY <1>a DEF Typed, Sorted
<1>4. Head(queue).port # NoPort
    BY <1>1, HeadFacts
<1>5. \A m : PortOf(m)' = PortOf(m) /\ Matches(m)' = Matches(m)
    BY <1>1 DEF PortOf, Matches
<1>6. Counting'
    BY <1>1, <1>2, <1>5 DEF Counting
<1>7. first # ListHead => mem[first] = "listed"
    BY <1>a, <1>3 DEF Follows, Ahead
<1>8. Safe(first)'
    <2>1. first # ListHead /\ Matches(first) => first \in now
        BY <1>3, <1>7 DEF Matches, PortOf
    <2> QED
        BY <1>1, <1>2, <1>5, <1>7, <2>1 DEF Safe
<1>9. Pointing'
    BY <1>2, <1>8 DEF Pointing, Safe
<1>10. \A s \in now : Ahead(mem, rank, ListHead, s)
    BY <1>4 DEF PortOf, Ahead
<1>11. \A s \in now : Before(rank, first, s)
    BY <1>a, <1>3, <1>10 DEF Follows, Before
<1> HIDE DEF now
<1>12. Position(rank)'
    BY <1>2, <1>11 DEF Position, Before
<1> QED
    BY <1>2, <1>6, <1>9, <1>12 DEF Walking

LEMMA LoadWalks ==
    ASSUME Typed, Orderly, NEW rank, NEW b, Sorted(mem, next, b, rank), Walking(rank), Load
    PROVE  Walking(rank)'
<1>a. PICK cur, nxt : cur = walk.cur /\ nxt = next[walk.cur]
    OBVIOUS
<1>1. /\ walk' = [walk EXCEPT !.pc = "test", !.nxt = nxt, !.lost = {}]
      /\ walk.pc = "load" /\ cur # ListHead /\ "cur" \notin walk.lost
      /\ UNCHANGED <<oid, mem, dev, queue, seen>>
    BY <1>a DEF Load, Sound, table, mainVars
<1>2. walk'.pc = "test" /\ walk'.cur = cur /\ walk'.nxt = nxt /\ walk'.lost = {}
    BY <1>a, <1>1 DEF Typed, Walks
<1>3. Counting /\ Pointing /\ Position(rank)
    BY <1>1 DEF Walking
<1>4. cur \in Netdevs /\ Safe(cur) /\ nxt \in Netdevs \cup {ListHead}
    BY <1>a, <1>1, <1>3 DEF Typed, Walks, Pointing
<1>5. Follows(mem, next, rank, cur)
    BY <1>1, <1>4 DEF Safe, Sorted
<1>6. \A m : PortOf(m)' = PortOf(m) /\ Matches(m)' = Matches(m)
    BY <1>1 DEF PortOf, Matches
<1>7. Counting'
    BY <1>1, <1>3, <1>6 DEF Counting
<1>8. Safe(nxt)
    <2>1. nxt # ListHead => mem[nxt] = "listed"
        BY <1>a, <1>4, <1>5 DEF Follows, Ahead
    <2>2. nxt # ListHead /\ Matches(nxt) => PortOf(nxt) = Head(queue).port
        BY <2>1 DEF Matches, PortOf
    <2> QED
        BY <1>3, <1>4, <2>1, <2>2 DEF Safe, Counting
<1>9. Pointing'
    <2>1. Safe(cur)' /\ Safe(nxt)'
        BY <1>1, <1>4, <1>6, <1>8 DEF Safe
    <2> QED
        BY <1>2, <1>4, <2>1 DEF Pointing, Safe
<1>10. \A s \in seen.steady : s = cur \/ Before(rank, nxt, s)
    <2>1. ASSUME NEW s \in seen.steady, s # cur
          PROVE  Before(rank, nxt, s)
        <3>1. s \in Netdevs /\ mem[s] = "listed" /\ rank[cur] <= rank[s]
            BY <1>a, <1>1, <1>3, SteadyFacts DEF Position, Before
        <3>2. rank[cur] # rank[s] /\ rank[cur] \in Nat /\ rank[s] \in Nat
            BY <1>1, <1>4, <2>1, <3>1 DEF Sorted, Safe
        <3>3. Ahead(mem, rank, cur, s)
            BY <3>1, <3>2 DEF Ahead
        <3> QED
            BY <1>a, <1>5, <3>1, <3>3 DEF Follows, Before
    <2> QED
        BY <2>1
<1>11. Position(rank)'
    BY <1>1, <1>2, <1>10 DEF Position, Before
<1> QED
    BY <1>2, <1>7, <1>9, <1>11 DEF Walking

LEMMA TestWalks ==
    ASSUME Typed, Orderly, NEW rank, Walking(rank), Test
    PROVE  Walking(rank)'
<1>a. PICK cur, nxt : cur = walk.cur /\ nxt = walk.nxt
    OBVIOUS
<1>1. /\ walk.pc = "test" /\ "cur" \notin walk.lost
      /\ walk' = IF Matches(cur) THEN [walk EXCEPT !.pc = "hit"] ELSE Advance(walk)
      /\ UNCHANGED <<oid, mem, dev, queue, seen>>
    BY <1>a DEF Test, Sound, table, mainVars
<1>2. Counting /\ Pointing /\ Position(rank)
    BY <1>1 DEF Walking
<1>3. cur \in Netdevs /\ nxt \in Netdevs \cup {ListHead}
    BY <1>a, <1>1, <1>2 DEF Pointing, Typed, Walks
<1>4. \A m : PortOf(m)' = PortOf(m) /\ Matches(m)' = Matches(m)
    BY <1>1 DEF PortOf, Matches
<1>5. Counting'
    BY <1>1, <1>2, <1>4 DEF Counting
<1>6. \A x : Safe(x)' <=> Safe(x)
    BY <1>1, <1>4 DEF Safe
<1>7. CASE Matches(cur)
    <2>1. /\ walk'.pc = "hit" /\ walk'.cur = cur /\ walk'.nxt = nxt
          /\ walk'.lost = walk.lost
        BY <1>a, <1>1, <1>7 DEF Typed, Walks
    <2>2. Pointing'
        <3>1. Safe(cur)' <=> Safe(cur)
            BY <1>6
        <3>2. Safe(nxt)' <=> Safe(nxt)
            BY <1>6
        <3> QED
            BY <1>a, <1>1, <1>2, <1>3, <2>1, <3>1, <3>2 DEF Pointing, Safe
    <2>3. Position(rank)'
        BY <1>1, <1>4, <1>7, <2>1 DEF Position, Matches
    <2> QED
        BY <1>5, <2>1, <2>2, <2>3 DEF Walking
<1>8. CASE ~Matches(cur)
    <2>1. /\ walk'.pc = "load" /\ walk'.cur = nxt /\ walk'.nxt = ListHead
          /\ walk'.lost = IF "nxt" \in walk.lost THEN {"cur"} ELSE {}
        BY <1>a, <1>1, <1>8 DEF Advance, Idle
    <2>2. Pointing'
        <3>1. "cur" \notin walk'.lost => Safe(nxt)'
            BY <1>a, <1>2, <1>6, <2>1 DEF Pointing
        <3> QED
            BY <1>a, <1>1, <1>2, <1>3, <2>1, <3>1 DEF Pointing, Safe
    <2>3. \A s \in seen.steady : s # cur
        BY <1>1, <1>2, <1>8, SteadyFacts
    <2>4. Position(rank)'
        BY <1>a, <1>1, <1>2, <2>1, <2>3 DEF Position, Before
    <2> QED
        BY <1>5, <2>1, <2>2, <2>4 DEF Walking
<1> QED
    BY <1>7, <1>8

-----------------------------------------------------------------------------
(* The invariant.                                                          *)

Walkable(rank) == (\E b : Sorted(mem, next, b, rank)) /\ Walking(rank)

\* A layout that overflows has broken the daemon, and an event is counted just before
\* it is reported.
Settled ==
    /\ Overflows(layout) => broken
    /\ seen.counted <=> walk.pc = "report"

IInv == Typed /\ Orderly /\ Settled /\ \E rank : Walkable(rank)

LEMMA InitInvariant == Init => IInv
<1> SUFFICES ASSUME Init
             PROVE  IInv
    OBVIOUS
<1>1. Walkable([n \in Netdevs |-> 0])
    BY InitSorted, InitWalks DEF Walkable
<1>2. Settled
    BY DEF Init, Settled, Idle, Unseen
<1> QED
    BY <1>1, <1>2, InitTyped DEF IInv

\* The netdev that is about to count is in use.
LEMMA HitFacts ==
    ASSUME Typed, NEW rank, Walkable(rank), Hit
    PROVE  /\ walk.cur \in Netdevs /\ mem[walk.cur] # "free"
           /\ walk.cur \in seen.current
<1>1. walk.pc = "hit" /\ "cur" \notin walk.lost
    BY DEF Hit, Sound
<1>2. Pointing /\ Position(rank)
    BY <1>1 DEF Walkable, Walking
<1>3. walk.cur \in Netdevs /\ Safe(walk.cur) /\ Matches(walk.cur)
    BY <1>1, <1>2 DEF Pointing, Position
<1>4. walk.cur # ListHead
    BY <1>3, NetdevAssumption
<1> QED
    BY <1>1, <1>3, <1>4 DEF Safe

LEMMA StepTyped ==
    ASSUME Typed, Orderly, Settled, NEW rank, Walkable(rank), Next
    PROVE  Typed' /\ Orderly'
<1>a. ~Overflows(layout)
    BY DEF Next, Settled
<1>1. CASE Begin \/ Load \/ Test
    BY <1>1, WalkingTyped
<1>2. CASE Hit
    BY <1>2, HitFacts, HitTyped
<1>3. CASE Report \/ Miss \/ UseAfterFree
    BY <1>3, MissTyped
<1>4. ASSUME NEW k \in 1 .. MaxEvents, NEW data \in [1 .. k -> Events],
             EventPortState(data)
      PROVE  Typed' /\ Orderly'
    BY <1>4, EventPortStateTyped
<1>5. ASSUME NEW n \in Netdevs, NEW c \in Classes, Construct(n, c)
      PROVE  Typed' /\ Orderly'
    BY <1>5, ConstructTyped
<1>6. ASSUME NEW n \in Netdevs, Unlink(n)
      PROVE  Typed' /\ Orderly'
    BY <1>6, UnlinkTyped
<1>7. ASSUME NEW n \in Netdevs, Free(n)
      PROVE  Typed' /\ Orderly'
    BY <1>7, FreeTyped
<1>8. ASSUME NEW n \in Netdevs,
             SetHwIntfInfoInternal(n) \/ \E l \in Labels : SetHwIntfInfo(n, l)
      PROVE  Typed' /\ Orderly'
    BY <1>a, <1>8, InfoTyped
<1> QED
    BY <1>1, <1>2, <1>3, <1>4, <1>5, <1>6, <1>7, <1>8 DEF Next, Walk

\* The list and the pointers change only together with their ranks.
LEMMA StepWalks ==
    ASSUME Typed, Orderly, Settled, NEW rank, Walkable(rank), Next
    PROVE  \E new : Walkable(new)'
<1>a. ~Overflows(layout)
    BY DEF Next, Settled
<1>b. PICK b : Sorted(mem, next, b, rank)
    BY DEF Walkable
<1>1. Sorted(mem, next, b, rank) /\ Walking(rank)
    BY <1>b DEF Walkable
<1>2. ASSUME UNCHANGED <<mem, next>>, Walking(rank)'
      PROVE  Walkable(rank)'
    BY <1>1, <1>2 DEF Walkable, Sorted, Follows, Ahead
<1>3. CASE Begin \/ Load \/ Test
    <2>1. Walking(rank)'
        BY <1>1, <1>3, BeginWalks, LoadWalks, TestWalks
    <2>2. UNCHANGED <<mem, next>>
        BY <1>3 DEF Begin, Load, Test, mainVars
    <2> QED
        BY <1>2, <2>1, <2>2
<1>4. CASE Hit
    <2>1. UNCHANGED <<mem, next>>
        BY <1>4 DEF Hit
    <2> QED
        BY <1>1, <1>2, <1>4, <2>1, HitWalks
<1>5. CASE Report \/ Miss \/ UseAfterFree
    <2>1. UNCHANGED <<mem, next>>
        BY <1>5 DEF Report, Miss, UseAfterFree, mainVars
    <2>2. Handled \/ UNCHANGED <<table, mainVars, queue, walk, seen>>
        BY <1>5 DEF Report, Miss, UseAfterFree
    <2>3. Walking(rank)'
        BY <1>1, <2>2, HandledWalks, BreakWalks
    <2> QED
        BY <1>2, <2>1, <2>3
<1>6. ASSUME NEW data, EventPortState(data)
      PROVE  Walkable(rank)'
    <2>1. UNCHANGED <<mem, next>>
        BY <1>6 DEF EventPortState, mainVars
    <2> QED
        BY <1>1, <1>2, <1>6, <2>1, EventPortStateWalks
<1>7. ASSUME NEW n \in Netdevs, NEW c \in Classes, Construct(n, c)
      PROVE  \E new : Walkable(new)'
    <2>1. PICK new : new = [rank EXCEPT ![n] = b + 1]
        OBVIOUS
    <2>2. Sorted(mem', next', b + 1, new)
        BY <1>1, <1>7, <2>1, ConstructSorted
    <2>3. Walking(new)'
        BY <1>1, <1>7, <2>1, ConstructWalks
    <2> QED
        BY <2>2, <2>3 DEF Walkable, Sorted, Follows, Ahead
<1>8. ASSUME NEW n \in Netdevs, Unlink(n) \/ Free(n)
      PROVE  Walkable(rank)'
    <2>1. Sorted(mem', next', b, rank)
        BY <1>1, <1>8, UnlinkSorted, FreeSorted
    <2>2. Walking(rank)'
        BY <1>1, <1>8, UnlinkWalks, FreeWalks
    <2> QED
        BY <2>1, <2>2 DEF Walkable, Sorted, Follows, Ahead
<1>9. ASSUME NEW n \in Netdevs,
             SetHwIntfInfoInternal(n) \/ \E l \in Labels : SetHwIntfInfo(n, l)
      PROVE  Walkable(rank)'
    <2>1. Walking(rank)'
        BY <1>a, <1>1, <1>9, InfoWalks
    <2>2. UNCHANGED <<mem, next>>
        BY <1>9 DEF SetHwIntfInfo, SetHwIntfInfoInternal
    <2> QED
        BY <1>2, <2>1, <2>2
<1> QED
    BY <1>3, <1>4, <1>5, <1>6, <1>7, <1>8, <1>9 DEF Next, Walk

LEMMA TableIsFixed ==
    ASSUME Next
    PROVE  UNCHANGED layout
<1>1. CASE Walk
    BY <1>1 DEF Walk, Begin, Load, Test, Hit, Report, Miss, UseAfterFree, table
<1>2. ASSUME NEW data, EventPortState(data)
      PROVE  UNCHANGED layout
    BY <1>2 DEF EventPortState, table
<1>3. ASSUME NEW n \in Netdevs,
             \/ \E c \in Classes : Construct(n, c)
             \/ Unlink(n) \/ Free(n) \/ SetHwIntfInfoInternal(n)
             \/ \E l \in Labels : SetHwIntfInfo(n, l)
      PROVE  UNCHANGED layout
    BY <1>3 DEF Construct, Unlink, Free, SetHwIntfInfoInternal, SetHwIntfInfo, table
<1> QED
    BY <1>1, <1>2, <1>3 DEF Next

LEMMA StepSettled ==
    ASSUME Typed, Orderly, Settled, Next
    PROVE  Settled'
<1>1. ~Overflows(layout) /\ (Overflows(layout) <=> Overflows(layout)')
    BY TableIsFixed DEF Next, Settled
<1>2. seen.counted <=> walk.pc = "report"
    BY DEF Settled
<1>3. ASSUME UNCHANGED <<walk, seen>>
      PROVE  Settled'
    BY <1>1, <1>2, <1>3 DEF Settled
<1>4. ASSUME walk.pc # "report", walk'.pc # "report", UNCHANGED seen \/ seen'.counted = FALSE
      PROVE  Settled'
    BY <1>1, <1>2, <1>4 DEF Settled
<1>5. CASE Begin
    BY <1>4, <1>5 DEF Begin, Idle, Unseen
<1>6. CASE Load \/ Test
    BY <1>4, <1>6 DEF Load, Test, Advance, Idle, Typed, Walks
<1>7. CASE Hit
    <2>1. walk'.pc = "report" /\ seen'.counted
        BY <1>7 DEF Hit, Typed, Walks, Histories
    <2> QED
        BY <1>1, <2>1 DEF Settled
<1>8. CASE Report \/ Miss \/ UseAfterFree
    <2>1. CASE Handled
        BY <1>1, <2>1 DEF Handled, Idle, Unseen, Settled
    <2>2. CASE UNCHANGED <<walk, seen>>
        BY <1>3, <2>2
    <2> QED
        BY <1>8, <2>1, <2>2 DEF Report, Miss, UseAfterFree
<1>9. ASSUME NEW data, EventPortState(data)
      PROVE  Settled'
    BY <1>3, <1>9 DEF EventPortState
<1>10. ASSUME walk'.pc = walk.pc, seen'.counted = seen.counted
       PROVE  Settled'
    BY <1>1, <1>2, <1>10 DEF Settled
<1>11. ASSUME NEW n \in Netdevs, NEW c \in Classes, Construct(n, c)
       PROVE  Settled'
    BY <1>3, <1>11 DEF Construct
<1>12. ASSUME NEW n \in Netdevs, Unlink(n)
       PROVE  Settled'
    BY <1>10, <1>12 DEF Unlink, Typed, Histories
<1>13. ASSUME NEW n \in Netdevs, Free(n)
       PROVE  Settled'
    BY <1>10, <1>13 DEF Free, Typed, Walks, Histories
<1>14. ASSUME NEW n \in Netdevs,
              SetHwIntfInfoInternal(n) \/ \E l \in Labels : SetHwIntfInfo(n, l)
       PROVE  Settled'
    <2>1. walk' = walk
        BY <1>1, <1>14, InfoFacts
    <2>2. seen'.counted = seen.counted
        BY <1>1, <1>14, InfoFacts DEF Counts, Typed, Histories
    <2> QED
        BY <1>10, <2>1, <2>2
<1> QED
    BY <1>5, <1>6, <1>7, <1>8, <1>9, <1>11, <1>12, <1>13, <1>14 DEF Next, Walk

LEMMA StepInvariant == IInv /\ [Next]_vars => IInv'
<1>1. ASSUME IInv, Next
      PROVE  IInv'
    <2>1. PICK rank : Walkable(rank)
        BY <1>1 DEF IInv
    <2> QED
        BY <1>1, <2>1, StepTyped, StepSettled, StepWalks DEF IInv
<1>2. ASSUME IInv, UNCHANGED vars
      PROVE  IInv'
    <2>1. /\ UNCHANGED <<layout, oid, mem, next, dev, queue, walk, seen>>
          /\ UNCHANGED <<broken, sent>>
        BY <1>2 DEF vars
    <2>2. Typed'
        BY <1>2, <2>1, StillTyped DEF IInv, Typed, table
    <2>3. Orderly'
        BY <1>2, <2>1 DEF IInv, Orderly, Waiting
    <2>7. Settled'
        BY <1>2, <2>1 DEF IInv, Settled
    <2>4. PICK rank : Walkable(rank)
        BY <1>2 DEF IInv
    <2>5. Walking(rank)'
        BY <1>2, <2>1, <2>4, BreakWalks DEF IInv, Walkable, table, mainVars
    <2>6. Walkable(rank)'
        BY <2>1, <2>4, <2>5 DEF Walkable, Sorted, Follows, Ahead
    <2> QED
        BY <2>2, <2>3, <2>6, <2>7 DEF IInv
<1> QED
    BY <1>1, <1>2

LEMMA Invariance == Spec => []IInv
BY InitInvariant, StepInvariant, PTL DEF Spec

\* Every label that a netdev is given is a place in the table, on a switch whose ports
\* fit it (where they do not nothing is said, but that the daemon is broken from the
\* start: see Settled and Init); every link leads to a netdev or to the head of the
\* list, and nothing is counted more often than it was reported.
THEOREM EventsTyped == Spec => []TypeOK
<1>1. ASSUME IInv
      PROVE  TypeOK
    <2>1. Typed /\ Orderly /\ MaxEvents \in Nat
        BY <1>1, NetdevAssumption DEF IInv
    <2>2. oid \in [LabelIds -> {NoPort} \cup DOMAIN layout]
        BY <2>1, LabelFacts DEF Typed
    <2>3. dev \in [Netdevs -> [class : Classes, ready : BOOLEAN, label : LabelIds,
                               resets : 0 .. MaxEvents]]
        <3>1. ASSUME NEW n \in Netdevs
              PROVE  dev[n].resets \in 0 .. MaxEvents
            <4>1. dev[n].resets \in Nat /\ dev[n].resets + Waiting <= sent
                  /\ sent \in Nat /\ sent <= MaxEvents
                BY <2>1 DEF Typed, Orderly, Netdev
            <4>2. Waiting \in Nat
                <5>1. Len(queue) \in Nat /\ (queue # <<>> => Len(queue) > 0)
                    BY <2>1 DEF Typed
                <5> QED
                    BY <2>1, <5>1 DEF Waiting, Orderly
            <4> QED
                BY <2>1, <4>1, <4>2
        <3>2. ASSUME NEW n \in Netdevs
              PROVE  dev[n] \in [class : Classes, ready : BOOLEAN, label : LabelIds,
                                 resets : 0 .. MaxEvents]
            BY <2>1, <3>1 DEF Typed, Netdev
        <3> QED
            BY <2>1, <3>2 DEF Typed
    <2>4. /\ walk.pc \in {"idle", "load", "test", "hit", "report"}
          /\ {walk.cur, walk.nxt} \subseteq Netdevs \cup {ListHead}
          /\ walk.lost \subseteq {"cur", "nxt"}
        BY <2>1 DEF Typed, Walks
    <2> QED
        BY <2>1, <2>2, <2>3, <2>4 DEF Typed, TypeOK, Histories
<1> QED
    BY <1>1, Invariance, PTL

\* An internal interface never stands for a port of the switch.
THEOREM InternalsHaveNoPort == Spec => []InternalHasNoPort
<1>1. ASSUME IInv
      PROVE  InternalHasNoPort
    <2>1. oid[0] = NoPort
        BY <1>1, LabelFacts DEF IInv, Typed
    <2> QED
        BY <1>1, <2>1 DEF IInv, Orderly, InternalHasNoPort, PortOf
<1> QED
    BY <1>1, Invariance, PTL

-----------------------------------------------------------------------------
(* The refinement of LinkEvents.                                           *)

Resets == [n \in Netdevs |-> dev[n].resets]
Counted == [n \in Netdevs |-> PortOf(n)]

LEMMA InitRefines == Init => Abstract!Init
<1> SUFFICES ASSUME Init
             PROVE  Abstract!Init
    OBVIOUS
<1>1. \A n \in Netdevs : PortOf(n) = NoPort /\ dev[n].resets = 0
    BY DEF Init, PortOf, Fresh
<1>2. /\ walk.pc = "idle" /\ seen.freed = FALSE /\ seen.counted = FALSE
      /\ seen.current = {} /\ seen.steady = {}
    BY DEF Init, Idle, Unseen
<1>3. (~Overflows(layout)) \in BOOLEAN /\ broken = ~(~Overflows(layout))
    BY DEF Init, Overflows
<1> QED
    BY <1>1, <1>2, <1>3 DEF Init, Abstract!Init

\* Netdevs that come to count for a port, or not yet.
LEMMA InfoRefines ==
    ASSUME IInv, ~broken, NEW n \in Netdevs,
           SetHwIntfInfoInternal(n) \/ \E l \in Labels : SetHwIntfInfo(n, l)
    PROVE  (\E p \in 1 .. PortsMax : Abstract!Appear(n, p)) \/ UNCHANGED Abstract!vars
<1>1. Typed /\ Orderly /\ ~Overflows(layout)
    BY DEF IInv, Settled
<1>2. /\ mem[n] = "listed" /\ ~dev[n].ready
      /\ UNCHANGED <<layout, oid, mem, queue, walk, broken>>
    BY <1>1, InfoFacts DEF table
<1>3. PICK l \in LabelIds, r \in BOOLEAN :
          /\ dev' = [dev EXCEPT ![n] = Labelled(dev[n], l, r)]
          /\ IF r THEN Counts(n, oid[l]) ELSE UNCHANGED seen
    BY <1>1, InfoFacts
<1>4. /\ dev'[n].ready = r /\ dev'[n].label = l /\ dev'[n].resets = dev[n].resets
      /\ \A m \in Netdevs \ {n} : dev'[m] = dev[m]
    BY <1>1, <1>3 DEF Labelled, Typed
<1>5. Resets' = Resets
    BY <1>4 DEF Resets
<1>6. Counted[n] = NoPort /\ \A m \in Netdevs \ {n} : PortOf(m)' = PortOf(m)
    BY <1>2, <1>4 DEF Counted, PortOf
<1>7. CASE r /\ oid[l] # NoPort
    <2>1. oid[l] \in 1 .. PortsMax
        BY <1>1, <1>7, LabelFacts DEF Typed
    <2>2. PortOf(n)' = oid[l]
        BY <1>2, <1>4, <1>7 DEF PortOf
    <2>3. Counted' = [Counted EXCEPT ![n] = oid[l]]
        BY <1>6, <2>2 DEF Counted
    <2>4. /\ seen'.current = IF walk.pc # "idle" /\ Head(queue).port = oid[l]
                             THEN seen.current \cup {n} ELSE seen.current
          /\ seen'.steady = seen.steady /\ seen'.freed = seen.freed
          /\ seen'.counted = seen.counted
        BY <1>1, <1>3, <1>7 DEF Counts, Typed, Histories
    <2>5. Abstract!Appear(n, oid[l])
        BY <1>2, <1>5, <1>6, <2>3, <2>4
        DEF Abstract!Appear, Abstract!Concerned, Counted, Resets
    <2> QED
        BY <2>1, <2>5
<1>8. CASE ~r \/ oid[l] = NoPort
    <2>1. PortOf(n)' = NoPort
        BY <1>2, <1>4, <1>8 DEF PortOf
    <2>2. Counted' = Counted
        BY <1>2, <1>6, <2>1 DEF Counted, PortOf
    <2>3. seen' = seen
        <3>1. walk.pc # "idle" => Head(queue).port # NoPort
            BY <1>1, HeadFacts DEF Orderly
        <3> QED
            BY <1>3, <1>8, <3>1 DEF Counts
    <2> QED
        BY <1>2, <1>5, <2>2, <2>3 DEF Abstract!vars, Abstract!event, Counted, Resets
<1> QED
    BY <1>7, <1>8

LEMMA ConstructRefines ==
    ASSUME IInv, NEW n \in Netdevs, NEW c \in Classes, Construct(n, c)
    PROVE  UNCHANGED Abstract!vars
<1>1. /\ mem[n] = "free" /\ mem' = [mem EXCEPT ![n] = "listed"]
      /\ dev' = [dev EXCEPT ![n] = Fresh(c)] /\ ~Fresh(c).ready /\ Fresh(c).resets = 0
      /\ UNCHANGED <<layout, oid, queue, walk, seen, broken>>
    BY FreshType DEF Construct, table
<1>2. dev[n].resets = 0
    BY <1>1, FreshType DEF IInv, Orderly, Classes
<1>3. /\ \A m \in Netdevs \ {n} : mem'[m] = mem[m] /\ dev'[m] = dev[m]
      /\ ~dev'[n].ready /\ dev'[n].resets = 0
    BY <1>1 DEF IInv, Typed
<1>4. Resets' = Resets
    BY <1>2, <1>3 DEF Resets
<1>5. Counted' = Counted
    BY <1>1, <1>3 DEF Counted, PortOf
<1> QED
    BY <1>1, <1>4, <1>5 DEF Abstract!vars, Abstract!event, Counted, Resets

LEMMA UnlinkRefines ==
    ASSUME IInv, NEW n \in Netdevs, Unlink(n)
    PROVE  Abstract!Vanish(n)
<1>1. /\ mem' = [mem EXCEPT ![n] = "unlinked"] /\ seen' = [seen EXCEPT !.steady = @ \ {n}]
      /\ UNCHANGED <<oid, dev, queue, walk, broken>>
    BY DEF Unlink, table
<1>2. mem'[n] = "unlinked" /\ \A m \in Netdevs \ {n} : mem'[m] = mem[m]
    BY <1>1 DEF IInv, Typed
<1>3. Counted' = [Counted EXCEPT ![n] = NoPort]
    BY <1>1, <1>2 DEF Counted, PortOf
<1>4. /\ seen'.steady = seen.steady \ {n} /\ seen'.current = seen.current
      /\ seen'.freed = seen.freed /\ seen'.counted = seen.counted
    BY <1>1 DEF IInv, Typed, Histories
<1> QED
    BY <1>1, <1>3, <1>4 DEF Abstract!Vanish, Counted

LEMMA FreeRefines ==
    ASSUME IInv, NEW n \in Netdevs, Free(n)
    PROVE  Abstract!Free(n)
<1>1. /\ mem[n] = "unlinked" /\ mem' = [mem EXCEPT ![n] = "free"]
      /\ dev' = [dev EXCEPT ![n] = Fresh("system")] /\ Fresh("system").resets = 0
      /\ walk' = [walk EXCEPT !.lost =
                    @ \cup {f \in {"cur", "nxt"} : walk.pc # "idle" /\ walk[f] = n}]
      /\ seen' = [seen EXCEPT !.current = @ \ {n}, !.freed = walk.pc # "idle"]
      /\ UNCHANGED <<oid, queue, broken>>
    BY FreshType DEF Free, table, Classes
<1>2. /\ mem'[n] = "free" /\ dev'[n].resets = 0
      /\ \A m \in Netdevs \ {n} : mem'[m] = mem[m] /\ dev'[m] = dev[m]
    BY <1>1 DEF IInv, Typed
<1>3. walk'.pc = walk.pc
    BY <1>1 DEF IInv, Typed, Walks
<1>4. Counted' = Counted /\ Counted[n] = NoPort
    BY <1>1, <1>2 DEF Counted, PortOf
<1>5. Resets' = [Resets EXCEPT ![n] = 0]
    BY <1>2 DEF Resets
<1>6. /\ seen'.current = seen.current \ {n} /\ seen'.steady = seen.steady
      /\ seen'.freed = (walk.pc # "idle") /\ seen'.counted = seen.counted
    BY <1>1 DEF IInv, Typed, Histories
<1> QED
    BY <1>1, <1>3, <1>4, <1>5, <1>6 DEF Abstract!Free, Counted, Resets

LEMMA BeginRefines ==
    ASSUME IInv, Begin
    PROVE  Abstract!Begin
<1> DEFINE now == {n \in Netdevs : Counted[n] = Head(queue).port}
<1>1. /\ walk.pc = "idle" /\ walk'.pc = "load" /\ queue # <<>>
      /\ UNCHANGED <<oid, mem, dev, queue, broken>>
    BY DEF Begin, Idle, table, mainVars
<1>2. now = {n \in Netdevs : PortOf(n) = Head(queue).port}
    BY DEF Counted
<1>3. seen' = [Unseen EXCEPT !.current = now, !.steady = now]
    BY <1>2 DEF Begin
<1>4. /\ seen'.current = now /\ seen'.steady = now
      /\ seen'.freed = FALSE /\ seen'.counted = FALSE
    BY <1>3 DEF Unseen
<1>5. seen.freed = FALSE /\ seen.counted = FALSE
    <2>1. seen.freed \in BOOLEAN /\ seen.counted \in BOOLEAN
        BY DEF IInv, Typed, Histories
    <2>2. ~seen.freed /\ ~seen.counted
        BY <1>1 DEF IInv, Walkable, Walking, Settled
    <2> QED
        BY <2>1, <2>2
<1>6. Counted' = Counted /\ Resets' = Resets
    BY <1>1 DEF Counted, Resets, PortOf
<1> QED
    BY <1>1, <1>4, <1>5, <1>6 DEF Abstract!Begin, Counted, Resets

LEMMA HitRefines ==
    ASSUME IInv, Hit
    PROVE  \E n \in Netdevs : Abstract!Count(n)
<1>1. PICK n \in Netdevs : n = walk.cur /\ n \in seen.current
    BY HitFacts DEF IInv
<1>2. /\ walk.pc = "hit" /\ walk' = [walk EXCEPT !.pc = "report"]
      /\ seen' = [seen EXCEPT !.counted = TRUE]
      /\ UNCHANGED <<oid, mem, queue, broken>>
    BY DEF Hit, table
<1>3. walk'.pc = "report" /\ ~seen.counted
    BY <1>2 DEF IInv, Typed, Walks, Settled
<1>4. /\ seen'.counted = TRUE /\ seen'.current = seen.current
      /\ seen'.steady = seen.steady /\ seen'.freed = seen.freed
    BY <1>2 DEF IInv, Typed, Histories
<1>5. \A m \in Netdevs :
          /\ dev'[m].ready = dev[m].ready /\ dev'[m].label = dev[m].label
          /\ dev'[m].resets = IF m = n /\ Head(queue).up
                              THEN dev[m].resets + 1 ELSE dev[m].resets
    BY <1>1, HitCounts DEF IInv
<1>6. Counted' = Counted
    BY <1>2, <1>5 DEF Counted, PortOf
<1>7. Resets' = IF Head(queue).up THEN [Resets EXCEPT ![n] = @ + 1] ELSE Resets
    BY <1>5 DEF Resets
<1>8. Abstract!Count(n)
    BY <1>1, <1>2, <1>3, <1>4, <1>6, <1>7 DEF Abstract!Count, Counted, Resets
<1> QED
    BY <1>8

\* An event is done with only after it was counted, or if no netdev is steady.
LEMMA HandledRefines ==
    ASSUME walk.pc # "idle", seen.counted \/ seen.steady = {}, Handled,
           UNCHANGED <<oid, mem, dev, broken>>
    PROVE  Abstract!Finish
<1>1. Counted' = Counted /\ Resets' = Resets
    BY DEF Counted, Resets, PortOf
<1>2. /\ queue' = Tail(queue) /\ walk'.pc = "idle"
      /\ seen'.freed = FALSE /\ seen'.counted = FALSE
      /\ seen'.current = {} /\ seen'.steady = {}
    BY DEF Handled, Idle, Unseen
<1> QED
    BY <1>1, <1>2 DEF Abstract!Finish, Counted, Resets

\* The walk misses a netdev, or breaks off, only where it may.
LEMMA MissRefines ==
    ASSUME IInv, Report \/ Miss \/ UseAfterFree
    PROVE  Abstract!Finish \/ Abstract!Break
<1>1. PICK rank : Walkable(rank)
    BY DEF IInv
<1>2. walk.pc # "idle" /\ UNCHANGED <<oid, mem, dev>>
    BY DEF Report, Miss, UseAfterFree, table, mainVars
<1>3. Counting /\ Pointing /\ Position(rank) /\ (seen.counted <=> walk.pc = "report")
    BY <1>1, <1>2 DEF Walkable, Walking, IInv, Settled
<1>4. Counted' = Counted /\ Resets' = Resets
    BY <1>2 DEF Counted, Resets, PortOf
<1>5. CASE Report
    BY <1>2, <1>3, <1>5, HandledRefines DEF Report
<1>6. CASE Miss
    <2>1. walk.pc = "load" /\ walk.cur = ListHead /\ "cur" \notin walk.lost
        BY <1>3, <1>6, NetdevAssumption DEF Miss, Pointing
    <2>2. seen.steady = {}
        BY <1>3, <2>1 DEF Position, Before
    <2>3. CASE Handled /\ UNCHANGED broken
        BY <1>2, <2>2, <2>3, HandledRefines
    <2>4. CASE broken' = TRUE /\ UNCHANGED <<queue, walk, seen>>
        BY <1>2, <1>3, <1>4, <2>1, <2>2, <2>4
        DEF Abstract!Break, Abstract!event, Counted, Resets
    <2> QED
        BY <1>6, <2>3, <2>4 DEF Miss
<1>7. CASE UseAfterFree
    <2>1. seen.freed
        BY <1>3, <1>7 DEF UseAfterFree, Sound, Pointing
    <2>2. broken' = TRUE /\ UNCHANGED <<queue, walk, seen>>
        BY <1>7 DEF UseAfterFree
    <2> QED
        BY <1>2, <1>4, <2>1, <2>2 DEF Abstract!Break, Abstract!event, Counted, Resets
<1> QED
    BY <1>5, <1>6, <1>7

LEMMA DeliverRefines ==
    ASSUME IInv, ~broken, NEW k \in 1 .. MaxEvents, NEW data \in [1 .. k -> Events],
           EventPortState(data)
    PROVE  data \in [1 .. k -> Abstract!Events] /\ Abstract!Deliver(data)
<1>1. Events \subseteq Abstract!Events
    BY LabelFacts DEF IInv, Settled, Typed, Events, Abstract!Events
<1>2. /\ queue = <<>> /\ queue' = data
      /\ UNCHANGED <<oid, mem, dev, walk, seen, broken>>
    BY DEF EventPortState, table, mainVars
<1>3. Counted' = Counted /\ Resets' = Resets
    BY <1>2 DEF Counted, Resets, PortOf
<1> QED
    BY <1>1, <1>2, <1>3 DEF Abstract!Deliver, Abstract!event, Counted, Resets

LEMMA StepRefines == IInv /\ [Next]_vars => [Abstract!Next]_(Abstract!vars)
<1> SUFFICES ASSUME IInv, [Next]_vars
             PROVE  Abstract!Next \/ UNCHANGED Abstract!vars
    OBVIOUS
<1>1. CASE UNCHANGED vars
    <2>1. UNCHANGED <<layout, oid, mem, dev, queue, walk, seen, broken>>
        BY <1>1 DEF vars, table
    <2>2. Counted' = Counted /\ Resets' = Resets
        BY <2>1 DEF Counted, Resets, PortOf
    <2> QED
        BY <2>1, <2>2 DEF Abstract!vars, Abstract!event, Counted, Resets
<1>a. ASSUME Next
      PROVE  ~broken /\ UNCHANGED (~Overflows(layout))
    BY <1>a, TableIsFixed DEF Next
<1>2. ASSUME Next, Abstract!Handle
      PROVE  Abstract!Next
    BY <1>a, <1>2 DEF Abstract!Next
<1>3. CASE Next /\ Begin
    BY <1>2, <1>3, BeginRefines DEF Abstract!Handle
<1>4. CASE Next /\ (Load \/ Test)
    <2>1. walk.pc # "idle" /\ UNCHANGED <<layout, oid, mem, dev, queue, seen, broken>>
        BY <1>4 DEF Load, Test, table, mainVars
    <2>2. walk'.pc # "idle"
        BY <1>4 DEF Load, Test, Advance, IInv, Typed, Walks, Idle
    <2>3. Counted' = Counted /\ Resets' = Resets
        BY <2>1 DEF Counted, Resets, PortOf
    <2> QED
        BY <2>1, <2>2, <2>3 DEF Abstract!vars, Abstract!event, Counted, Resets
<1>5. CASE Next /\ Hit
    BY <1>2, <1>5, HitRefines DEF Abstract!Handle
<1>6. CASE Next /\ (Report \/ Miss \/ UseAfterFree)
    BY <1>2, <1>6, MissRefines DEF Abstract!Handle
<1>7. ASSUME Next, NEW k \in 1 .. MaxEvents, NEW data \in [1 .. k -> Events],
             EventPortState(data)
      PROVE  Abstract!Next
    BY <1>a, <1>7, DeliverRefines DEF Abstract!Next
<1>8. ASSUME NEW n \in Netdevs, NEW c \in Classes, Construct(n, c)
      PROVE  UNCHANGED Abstract!vars
    BY <1>8, ConstructRefines
<1>9. ASSUME Next, NEW n \in Netdevs, Unlink(n)
      PROVE  Abstract!Next
    BY <1>a, <1>9, UnlinkRefines DEF Abstract!Next
<1>10. ASSUME Next, NEW n \in Netdevs, Free(n)
       PROVE  Abstract!Next
    BY <1>a, <1>10, FreeRefines DEF Abstract!Next
<1>11. ASSUME Next, NEW n \in Netdevs,
              SetHwIntfInfoInternal(n) \/ \E l \in Labels : SetHwIntfInfo(n, l)
       PROVE  Abstract!Next \/ UNCHANGED Abstract!vars
    BY <1>a, <1>11, InfoRefines DEF Abstract!Next
<1> QED
    BY <1>1, <1>3, <1>4, <1>5, <1>6, <1>7, <1>8, <1>9, <1>10, <1>11 DEF Next, Walk

\* Although the walk takes no lock, an event is counted once and by a netdev of its
\* port if there was one all the while; anything else takes a netdev freed under the
\* walk, a port without a netdev, or a layout that overflows the tables.
THEOREM EventsAreCounted == Spec => ImplementsLinkEvents
<1>1. Init => Abstract!Init
    BY InitRefines
<1>2. IInv /\ [Next]_vars => [Abstract!Next]_(Abstract!vars)
    BY StepRefines
<1> QED
    BY <1>1, <1>2, Invariance, PTL DEF Spec, Abstract!Spec, ImplementsLinkEvents

=============================================================================
