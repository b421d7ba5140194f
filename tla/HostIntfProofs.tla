--------------------------- MODULE HostIntfProofs ---------------------------
(* Proofs about HostIntf for any ports, VLAN interfaces and bridges, any   *)
(* of which may have commands and SDK calls fail.                          *)
EXTENDS HostIntf, TLAPS

-----------------------------------------------------------------------------
(* The inductive invariant, of any state st.                               *)

\* What type an entry for n may have.
OwnTypes(n) ==
    {None} \cup CASE Kind[n] = "system" -> {"l2", "l3"}
                  [] Kind[n] = "vlan"   -> {"vlan"}
                  [] OTHER              -> {}

\* An entry is of n's kind, so that a label id finds a port and nothing else; a
\* router interface is on a port that is ready; where nothing has failed the
\* entry, the device and their use agree.
Owned(st, n) ==
    /\ st.hif[n] \in OwnTypes(n)
    /\ st.dev[n] = "ready" /\ Kind[n] # "bridge" => st.hif[n] # None
    /\ st.rif[n] = "made" => Kind[n] = "system" /\ st.dev[n] = "ready"
    /\ st.rif[n] = "lost" => n \in st.broken

Fits(st, n) ==
    n \notin st.broken =>
        /\ st.hif[n] = st.link[n] /\ st.stp[n] = "forwarding"
        /\ st.link[n] = Fitting(n, st.dev[n], st.rif[n])

Good(st) ==
    /\ st \in State
    /\ \A n \in Names : Owned(st, n) /\ Fits(st, n)

\* From st to t nothing changes for other names than n, and no failure is
\* forgotten.
Elsewhere(st, t, n) ==
    /\ \A m \in Names \ {n} :
          /\ t.dev[m] = st.dev[m] /\ t.hif[m] = st.hif[m] /\ t.link[m] = st.link[m]
          /\ t.stp[m] = st.stp[m] /\ t.rif[m] = st.rif[m]
          /\ m \in t.broken <=> m \in st.broken
    /\ st.broken \subseteq t.broken

LEMMA ElsewhereTransitive ==
    ASSUME NEW s, NEW t, NEW u, NEW n, Elsewhere(s, t, n), Elsewhere(t, u, n)
    PROVE  Elsewhere(s, u, n)
BY DEF Elsewhere

\* So only n has to be looked at.
LEMMA StepAt ==
    ASSUME NEW st, Good(st), NEW n \in Names, NEW t \in State, Elsewhere(st, t, n),
           Owned(t, n), Fits(t, n)
    PROVE  Good(t)
<1> SUFFICES ASSUME NEW m \in Names, m # n
             PROVE  Owned(t, m) /\ Fits(t, m)
    BY DEF Good
<1>1. Owned(st, m) /\ Fits(st, m)
    BY DEF Good
<1>2. /\ t.dev[m] = st.dev[m] /\ t.hif[m] = st.hif[m] /\ t.link[m] = st.link[m]
      /\ t.stp[m] = st.stp[m] /\ t.rif[m] = st.rif[m]
      /\ m \in t.broken <=> m \in st.broken
    BY DEF Elsewhere
<1> QED
    BY <1>1, <1>2 DEF Owned, Fits

LEMMA OutcomeFields ==
    ASSUME NEW st
    PROVE  /\ Done(st).st = st /\ Done(st).ok
           /\ Failed(st).st = st /\ ~Failed(st).ok
BY DEF Done, Failed

LEMMA NoneFacts ==
    None \notin {"l2", "l3", "vlan", "made", "lost"}
BY HostIntfAssumption

LEMMA OwnTypesFacts ==
    ASSUME NEW n \in Names
    PROVE  /\ Kind[n] = "system" => OwnTypes(n) = {None, "l2", "l3"}
           /\ Kind[n] = "vlan" => OwnTypes(n) = {None, "vlan"}
           /\ Kind[n] = "bridge" => OwnTypes(n) = {None}
           /\ Kind[n] \in {"system", "vlan", "bridge"}
BY HostIntfAssumption DEF OwnTypes

-----------------------------------------------------------------------------
(* Single assignments.                                                     *)

LEMMA FieldTypes ==
    ASSUME NEW st \in State
    PROVE  /\ st.dev \in [Names -> {"none", "new", "ready"}]
           /\ st.hif \in [Names -> Types] /\ st.link \in [Names -> Types]
           /\ st.rif \in [Names -> {"made", "lost", None}]
           /\ st.stp \in [Names -> {"forwarding", "discarding"}]
           /\ st.aborted \in BOOLEAN /\ st.broken \in SUBSET Names
BY DEF State

Entered(st, n, k) == [st EXCEPT !.hif[n] = k]
Brought(st, n, k) == [st EXCEPT !.dev[n] = k]
Given(st, n, k) == [st EXCEPT !.rif[n] = k]
Put(st, n, k) == [st EXCEPT !.stp[n] = k]

LEMMA LinkSet ==
    ASSUME NEW st \in State, NEW n \in Names, NEW k \in Types,
           NEW t, t = LinkAdded(st, n, k)
    PROVE  /\ t \in State /\ Elsewhere(st, t, n) /\ t.link[n] = k
           /\ t.dev = st.dev /\ t.hif = st.hif /\ t.rif = st.rif /\ t.stp = st.stp
           /\ t.broken = st.broken /\ t.aborted = st.aborted
<1>1. PICK f : f = [st.link EXCEPT ![n] = k]
    OBVIOUS
<1>2. f \in [Names -> Types] /\ f[n] = k /\ \A m \in Names \ {n} : f[m] = st.link[m]
    BY <1>1, FieldTypes
<1>3. t = [st EXCEPT !.link = f]
    BY <1>1 DEF LinkAdded
<1>4. /\ t.link = f /\ t.dev = st.dev /\ t.hif = st.hif /\ t.rif = st.rif
      /\ t.stp = st.stp /\ t.broken = st.broken /\ t.aborted = st.aborted
    BY <1>3 DEF State
<1>5. t \in State
    BY <1>2, <1>3, <1>4 DEF State
<1> QED
    BY <1>2, <1>4, <1>5 DEF Elsewhere

LEMMA HifSet ==
    ASSUME NEW st \in State, NEW n \in Names, NEW k \in Types,
           NEW t, t = Entered(st, n, k)
    PROVE  /\ t \in State /\ Elsewhere(st, t, n) /\ t.hif[n] = k
           /\ t.dev = st.dev /\ t.link = st.link /\ t.rif = st.rif /\ t.stp = st.stp
           /\ t.broken = st.broken /\ t.aborted = st.aborted
<1>1. PICK f : f = [st.hif EXCEPT ![n] = k]
    OBVIOUS
<1>2. f \in [Names -> Types] /\ f[n] = k /\ \A m \in Names \ {n} : f[m] = st.hif[m]
    BY <1>1, FieldTypes
<1>3. t = [st EXCEPT !.hif = f]
    BY <1>1 DEF Entered
<1>4. /\ t.hif = f /\ t.dev = st.dev /\ t.link = st.link /\ t.rif = st.rif
      /\ t.stp = st.stp /\ t.broken = st.broken /\ t.aborted = st.aborted
    BY <1>3 DEF State
<1>5. t \in State
    BY <1>2, <1>3, <1>4 DEF State
<1> QED
    BY <1>2, <1>4, <1>5 DEF Elsewhere

LEMMA DevSet ==
    ASSUME NEW st \in State, NEW n \in Names, NEW k \in {"none", "new", "ready"},
           NEW t, t = Brought(st, n, k)
    PROVE  /\ t \in State /\ Elsewhere(st, t, n) /\ t.dev[n] = k
           /\ t.hif = st.hif /\ t.link = st.link /\ t.rif = st.rif /\ t.stp = st.stp
           /\ t.broken = st.broken /\ t.aborted = st.aborted
<1>1. PICK f : f = [st.dev EXCEPT ![n] = k]
    OBVIOUS
<1>2. /\ f \in [Names -> {"none", "new", "ready"}] /\ f[n] = k
      /\ \A m \in Names \ {n} : f[m] = st.dev[m]
    BY <1>1, FieldTypes
<1>3. t = [st EXCEPT !.dev = f]
    BY <1>1 DEF Brought
<1>4. /\ t.dev = f /\ t.hif = st.hif /\ t.link = st.link /\ t.rif = st.rif
      /\ t.stp = st.stp /\ t.broken = st.broken /\ t.aborted = st.aborted
    BY <1>3 DEF State
<1>5. t \in State
    BY <1>2, <1>3, <1>4 DEF State
<1> QED
    BY <1>2, <1>4, <1>5 DEF Elsewhere

LEMMA RifSet ==
    ASSUME NEW st \in State, NEW n \in Names, NEW k \in {"made", "lost", None},
           NEW t, t = Given(st, n, k)
    PROVE  /\ t \in State /\ Elsewhere(st, t, n) /\ t.rif[n] = k
           /\ t.hif = st.hif /\ t.link = st.link /\ t.dev = st.dev /\ t.stp = st.stp
           /\ t.broken = st.broken /\ t.aborted = st.aborted
<1>1. PICK f : f = [st.rif EXCEPT ![n] = k]
    OBVIOUS
<1>2. /\ f \in [Names -> {"made", "lost", None}] /\ f[n] = k
      /\ \A m \in Names \ {n} : f[m] = st.rif[m]
    BY <1>1, FieldTypes
<1>3. t = [st EXCEPT !.rif = f]
    BY <1>1 DEF Given
<1>4. /\ t.rif = f /\ t.hif = st.hif /\ t.link = st.link /\ t.dev = st.dev
      /\ t.stp = st.stp /\ t.broken = st.broken /\ t.aborted = st.aborted
    BY <1>3 DEF State
<1>5. t \in State
    BY <1>2, <1>3, <1>4 DEF State
<1> QED
    BY <1>2, <1>4, <1>5 DEF Elsewhere

LEMMA StpSet ==
    ASSUME NEW st \in State, NEW n \in Names, NEW k \in {"forwarding", "discarding"},
           NEW t, t = Put(st, n, k)
    PROVE  /\ t \in State /\ Elsewhere(st, t, n) /\ t.stp[n] = k
           /\ t.hif = st.hif /\ t.link = st.link /\ t.dev = st.dev /\ t.rif = st.rif
           /\ t.broken = st.broken /\ t.aborted = st.aborted
<1>1. PICK f : f = [st.stp EXCEPT ![n] = k]
    OBVIOUS
<1>2. /\ f \in [Names -> {"forwarding", "discarding"}] /\ f[n] = k
      /\ \A m \in Names \ {n} : f[m] = st.stp[m]
    BY <1>1, FieldTypes
<1>3. t = [st EXCEPT !.stp = f]
    BY <1>1 DEF Put
<1>4. /\ t.stp = f /\ t.hif = st.hif /\ t.link = st.link /\ t.dev = st.dev
      /\ t.rif = st.rif /\ t.broken = st.broken /\ t.aborted = st.aborted
    BY <1>3 DEF State
<1>5. t \in State
    BY <1>2, <1>3, <1>4 DEF State
<1> QED
    BY <1>2, <1>4, <1>5 DEF Elsewhere

LEMMA BrokenSet ==
    ASSUME NEW st \in State, NEW n \in Names,
           NEW t, t = [st EXCEPT !.broken = @ \cup {n}]
    PROVE  /\ t \in State /\ Elsewhere(st, t, n) /\ n \in t.broken
           /\ t.hif = st.hif /\ t.link = st.link /\ t.dev = st.dev /\ t.rif = st.rif
           /\ t.stp = st.stp /\ t.aborted = st.aborted
<1>1. /\ t.broken = st.broken \cup {n} /\ t.hif = st.hif /\ t.link = st.link
      /\ t.dev = st.dev /\ t.rif = st.rif /\ t.stp = st.stp /\ t.aborted = st.aborted
    BY DEF State
<1>2. t \in State
    BY <1>1 DEF State
<1> QED
    BY <1>1, <1>2 DEF Elsewhere

LEMMA AbortedSet ==
    ASSUME NEW st \in State, NEW n \in Names, NEW t, t = [st EXCEPT !.aborted = TRUE]
    PROVE  /\ t \in State /\ Elsewhere(st, t, n) /\ t.broken = st.broken
           /\ t.hif = st.hif /\ t.link = st.link /\ t.dev = st.dev /\ t.rif = st.rif
           /\ t.stp = st.stp
<1>1. /\ t.broken = st.broken /\ t.hif = st.hif /\ t.link = st.link
      /\ t.dev = st.dev /\ t.rif = st.rif /\ t.stp = st.stp
    BY DEF State
<1>2. t \in State
    BY <1>1 DEF State
<1> QED
    BY <1>1, <1>2 DEF Elsewhere

-----------------------------------------------------------------------------
(* Linux devices.                                                          *)

\* Nothing of t differs from st but the device of n, and what failed.
Device(st, t, n) ==
    /\ t \in State /\ Elsewhere(st, t, n)
    /\ t.dev = st.dev /\ t.rif = st.rif /\ t.hif = st.hif /\ t.stp = st.stp
    /\ t.aborted = st.aborted

LEMMA DeviceTransitive ==
    ASSUME NEW s, NEW t, NEW u, NEW n, Device(s, t, n), Device(t, u, n)
    PROVE  Device(s, u, n)
BY ElsewhereTransitive DEF Device

LEMMA BrokenFacts ==
    ASSUME NEW st \in State, NEW n \in Names, NEW o, o = Broken(st, n)
    PROVE  Device(st, o.st, n) /\ n \in o.st.broken /\ ~o.ok /\ o.st.link = st.link
<1>1. PICK t : t = [st EXCEPT !.broken = @ \cup {n}]
    OBVIOUS
<1>2. o = Failed(t)
    BY <1>1 DEF Broken
<1>3. Device(st, t, n) /\ n \in t.broken /\ t.link = st.link
    BY <1>1, BrokenSet DEF Device
<1> QED
    BY <1>2, <1>3, OutcomeFields

LEMMA LinkAddedFacts ==
    ASSUME NEW st \in State, NEW n \in Names, NEW k \in Types,
           NEW t, t = LinkAdded(st, n, k)
    PROVE  Device(st, t, n) /\ t.link[n] = k
BY LinkSet DEF Device

\* A device is only created where there was none; unless something failed for n,
\* it is there then.
LEMMA LinkCreateFacts ==
    ASSUME NEW st \in State, NEW n \in Names, NEW k \in {"l2", "l3", "vlan"},
           NEW o \in LinkCreate(st, n, k)
    PROVE  /\ Device(st, o.st, n)
           /\ n \notin o.st.broken => o.ok /\ st.link[n] = None /\ o.st.link[n] = k
<1>0. k \in Types
    BY DEF Types
<1>1. \/ o = Broken(st, n)
      \/ st.link[n] = None /\ o = Done(LinkAdded(st, n, k))
      \/ o = Broken(LinkAdded(st, n, k), n)
    BY DEF LinkCreate, May
<1>2. CASE o = Broken(st, n)
    BY <1>2, BrokenFacts
<1>3. PICK t : t = LinkAdded(st, n, k)
    OBVIOUS
<1>4. Device(st, t, n) /\ t.link[n] = k
    BY <1>0, <1>3, LinkAddedFacts
<1>5. CASE st.link[n] = None /\ o = Done(LinkAdded(st, n, k))
    <2>1. o = Done(t)
        BY <1>3, <1>5
    <2> QED
        BY <1>4, <1>5, <2>1, OutcomeFields
<1>6. CASE o = Broken(LinkAdded(st, n, k), n)
    <2>1. o = Broken(t, n)
        BY <1>3, <1>6
    <2>2. Device(t, o.st, n) /\ n \in o.st.broken
        BY <1>4, <2>1, BrokenFacts DEF Device
    <2> QED
        BY <1>4, <2>2, DeviceTransitive
<1> QED
    BY <1>1, <1>2, <1>5, <1>6

LEMMA DeleteFacts ==
    ASSUME NEW st \in State, NEW n \in Names, NEW type, NEW o \in Delete(st, n, type)
    PROVE  /\ Device(st, o.st, n)
           /\ n \notin o.st.broken => o.ok /\ o.st.link[n] = None
<1>1. PICK t : t = LinkAdded(st, n, None)
    OBVIOUS
<1>2. PICK u : u = [st EXCEPT !.broken = @ \cup {n}]
    OBVIOUS
<1>3. o \in {Done(t), Done(u), Broken(st, n)}
    <2>1. CASE type = "l3"
        <3>1. o \in {Broken(st, n), Done(LinkAdded(st, n, None))}
            BY <2>1, Zenon DEF Delete, L3Delete, May, LinkAdded
        <3> QED
            BY <1>1, <3>1, Zenon
    <2>2. CASE type # "l3"
        <3>1. o \in {Broken(st, n), Done(LinkAdded(st, n, None)),
                     Done([st EXCEPT !.broken = @ \cup {n}])}
            BY <2>2, Zenon DEF Delete, LinkDelete, May, LinkAdded
        <3> QED
            BY <1>1, <1>2, <3>1, Zenon
    <2> QED
        BY <2>1, <2>2
<1>4. None \in Types
    BY DEF Types
<1>5. Device(st, t, n) /\ t.link[n] = None
    BY <1>1, <1>4, LinkAddedFacts
<1>6. Device(st, u, n) /\ n \in u.broken
    BY <1>2, BrokenSet DEF Device
<1>7. CASE o = Done(t)
    BY <1>5, <1>7, OutcomeFields
<1>8. CASE o = Done(u)
    BY <1>6, <1>8, OutcomeFields
<1>9. CASE o = Broken(st, n)
    BY <1>9, BrokenFacts
<1> QED
    BY <1>3, <1>7, <1>8, <1>9

-----------------------------------------------------------------------------
(* The vendor class.                                                       *)

\* Neither the netdev nor the router interface of any name has changed.
Inside(st, t, n) ==
    t \in State /\ Elsewhere(st, t, n) /\ t.dev = st.dev /\ t.rif = st.rif

LEMMA InsideTransitive ==
    ASSUME NEW s, NEW t, NEW u, NEW n, Inside(s, t, n), Inside(t, u, n)
    PROVE  Inside(s, u, n)
BY ElsewhereTransitive DEF Inside

LEMMA DeviceInside ==
    ASSUME NEW st, NEW t, NEW n, Device(st, t, n)
    PROVE  Inside(st, t, n)
BY DEF Device, Inside

LEMMA AbortFacts ==
    ASSUME NEW st \in State, NEW n \in Names, NEW o \in Abort(st)
    PROVE  /\ Inside(st, o.st, n) /\ ~o.ok /\ o.st.broken = st.broken
           /\ o.st.hif = st.hif /\ o.st.link = st.link /\ o.st.stp = st.stp
<1>1. PICK t : t = [st EXCEPT !.aborted = TRUE]
    OBVIOUS
<1>2. o = Failed(t)
    BY <1>1, Zenon DEF Abort
<1>3. /\ Inside(st, t, n) /\ t.broken = st.broken
      /\ t.hif = st.hif /\ t.link = st.link /\ t.stp = st.stp
    BY <1>1, AbortedSet DEF Inside
<1> QED
    BY <1>2, <1>3, OutcomeFields

\* Creation enters n where it had no entry, unless something failed for n.
LEMMA NetdevCreateFacts ==
    ASSUME NEW st \in State, NEW n \in Names, NEW type \in {"l2", "l3", "vlan"},
           NEW o \in NetdevCreate(st, n, type)
    PROVE  /\ Inside(st, o.st, n) /\ o.st.stp = st.stp
           /\ o.ok => o.st.hif[n] = type
           /\ ~o.ok => o.st.hif = st.hif
           /\ n \notin o.st.broken =>
                 /\ st.link[n] = None /\ o.st.link[n] = type
                 /\ st.hif[n] = None => o.ok /\ o.st.aborted = st.aborted
<1>0. type \in Types
    BY DEF Types
<1>1. PICK q \in LinkCreate(st, n, type) :
         o \in IF q.ok THEN EntryAdd(q.st, n, type) ELSE {q}
    BY Zenon DEF NetdevCreate, Then
<1>2. /\ Device(st, q.st, n)
      /\ n \notin q.st.broken => q.ok /\ st.link[n] = None /\ q.st.link[n] = type
    BY <1>1, LinkCreateFacts
<1>3. Inside(st, q.st, n) /\ q.st \in State /\ q.st.stp = st.stp /\ q.st.hif = st.hif
    BY <1>2, DeviceInside DEF Device
<1>4. CASE ~q.ok
    BY <1>1, <1>2, <1>3, <1>4
<1>5. CASE q.ok /\ q.st.hif[n] # None
    <2>1. o \in Abort(q.st)
        BY <1>1, <1>5 DEF EntryAdd
    <2>2. /\ Inside(q.st, o.st, n) /\ ~o.ok /\ o.st.broken = q.st.broken
          /\ o.st.hif = q.st.hif /\ o.st.link = q.st.link /\ o.st.stp = q.st.stp
        BY <1>3, <2>1, AbortFacts
    <2>3. Inside(st, o.st, n)
        BY <1>3, <2>2, InsideTransitive
    <2> QED
        BY <1>2, <1>3, <1>5, <2>2, <2>3
<1>6. CASE q.ok /\ q.st.hif[n] = None
    <2>1. PICK t : t = Entered(q.st, n, type)
        OBVIOUS
    <2>2. o = Done(t)
        BY <1>1, <1>6, <2>1, Zenon DEF EntryAdd, Entered
    <2>3. /\ t \in State /\ Elsewhere(q.st, t, n) /\ t.hif[n] = type
          /\ t.dev = q.st.dev /\ t.link = q.st.link /\ t.rif = q.st.rif
          /\ t.stp = q.st.stp /\ t.broken = q.st.broken /\ t.aborted = q.st.aborted
        BY <1>0, <1>3, <2>1, HifSet
    <2>4. Inside(q.st, t, n)
        BY <2>3 DEF Inside
    <2>5. Inside(st, t, n)
        BY <1>3, <2>4, InsideTransitive
    <2>6. t.aborted = st.aborted
        BY <1>2, <2>3, Zenon DEF Device
    <2> QED
        BY <1>2, <1>3, <2>2, <2>3, <2>5, <2>6, OutcomeFields
<1> QED
    BY <1>4, <1>5, <1>6

\* Removal of an entry, when nothing failed for n, leaves neither it nor a device.
LEMMA NetdevRemoveFacts ==
    ASSUME NEW st \in State, NEW n \in Names, NEW o \in NetdevRemove(st, n)
    PROVE  /\ Inside(st, o.st, n) /\ o.st.stp = st.stp
           /\ o.st.hif[n] \in {st.hif[n], None}
           /\ st.hif[n] = None => o.st.link = st.link
           /\ st.hif[n] # None => o.st.aborted = st.aborted
           /\ st.hif[n] # None /\ n \notin o.st.broken =>
                 o.st.hif[n] = None /\ o.st.link[n] = None
<1>1. CASE st.hif[n] = None
    <2>1. o \in Abort(st)
        BY <1>1 DEF NetdevRemove
    <2> QED
        BY <1>1, <2>1, AbortFacts
<1>2. CASE st.hif[n] # None
    <2>1. PICK q \in Delete(st, n, st.hif[n]) :
             o \in IF q.ok THEN {Done(Entered(q.st, n, None))} ELSE {q}
        BY <1>2, Zenon DEF NetdevRemove, Then, EntryDel, Entered
    <2>2. /\ Device(st, q.st, n)
          /\ n \notin q.st.broken => q.ok /\ q.st.link[n] = None
        BY <2>1, DeleteFacts
    <2>3. /\ Inside(st, q.st, n) /\ q.st \in State /\ q.st.stp = st.stp
          /\ q.st.hif = st.hif /\ q.st.aborted = st.aborted
        BY <2>2, DeviceInside DEF Device
    <2>4. CASE ~q.ok
        BY <1>2, <2>1, <2>2, <2>3, <2>4
    <2>5. CASE q.ok
        <3>1. PICK t : t = Entered(q.st, n, None)
            OBVIOUS
        <3>2. o = Done(t)
            BY <2>1, <2>5, <3>1, Zenon
        <3>3. None \in Types
            BY DEF Types
        <3>4. /\ t \in State /\ Elsewhere(q.st, t, n) /\ t.hif[n] = None
              /\ t.dev = q.st.dev /\ t.link = q.st.link /\ t.rif = q.st.rif
              /\ t.stp = q.st.stp /\ t.broken = q.st.broken /\ t.aborted = q.st.aborted
            BY <2>3, <3>1, <3>3, HifSet
        <3>5. Inside(q.st, t, n)
            BY <3>4 DEF Inside
        <3>6. Inside(st, t, n)
            BY <2>3, <3>5, InsideTransitive
        <3>7. t.aborted = st.aborted
            BY <2>3, <3>4, Zenon
        <3> QED
            BY <1>2, <2>2, <2>3, <3>2, <3>4, <3>6, <3>7, OutcomeFields
    <2> QED
        BY <2>4, <2>5
<1> QED
    BY <1>1, <1>2

\* The label id of a port that has an entry finds that port, and no other name.
LEMMA FoundFacts ==
    ASSUME NEW st, Good(st), NEW n \in Names, Kind[n] = "system", st.dev[n] = "ready"
    PROVE  Found(st, Handle[n]) = {n} /\ st.hif[n] \in {"l2", "l3"}
<1>1. st.hif[n] \in {"l2", "l3"}
    BY OwnTypesFacts DEF Good, Owned
<1>2. ASSUME NEW m \in Names, st.hif[m] \in {"l2", "l3"}, Handle[m] = Handle[n]
      PROVE  m = n
    <2>1. st.hif[m] \in OwnTypes(m)
        BY DEF Good, Owned
    <2>2. Kind[m] = "system"
        BY <1>2, <2>1, OwnTypesFacts, NoneFacts
    <2> QED
        BY <1>2, <2>2, HostIntfAssumption
<1> QED
    BY <1>1, <1>2 DEF Found

\* A conversion, when nothing failed for n, leaves n with a device of the new type.
LEMMA ConvertFacts ==
    ASSUME NEW st \in State, NEW n \in Names, NEW to \in {"l2", "l3"},
           NEW o \in Convert(st, n, to)
    PROVE  /\ Inside(st, o.st, n) /\ o.st.stp = st.stp /\ o.st.aborted = st.aborted
           /\ o.st.hif[n] \in {st.hif[n], to}
           /\ n \notin o.st.broken => o.st.hif[n] = to /\ o.st.link[n] = to
<1> DEFINE Rest(t) == Then(LinkCreate(t, n, to), LAMBDA u : {Done(Entered(u, n, to))})
<1>1. PICK q \in Delete(st, n, st.hif[n]) : o \in IF q.ok THEN Rest(q.st) ELSE {q}
    <2>1. o \in Then(Delete(st, n, st.hif[n]), Rest)
        BY Zenon DEF Convert, Entered
    <2> HIDE DEF Rest
    <2> QED
        BY <2>1 DEF Then
<1>2. /\ Device(st, q.st, n)
      /\ n \notin q.st.broken => q.ok /\ q.st.link[n] = None
    BY <1>1, DeleteFacts
<1>3. /\ Inside(st, q.st, n) /\ q.st \in State /\ q.st.stp = st.stp
      /\ q.st.hif = st.hif /\ q.st.aborted = st.aborted
    BY <1>2, DeviceInside DEF Device
<1>4. CASE ~q.ok
    <2> HIDE DEF Rest
    <2> QED
        BY <1>1, <1>2, <1>3, <1>4
<1>5. CASE q.ok
    <2>1. PICK w \in LinkCreate(q.st, n, to) :
             o \in IF w.ok THEN {Done(Entered(w.st, n, to))} ELSE {w}
        BY <1>1, <1>5, Zenon DEF Then
    <2>2. /\ Device(q.st, w.st, n)
          /\ n \notin w.st.broken => w.ok /\ w.st.link[n] = to
        BY <1>3, <2>1, LinkCreateFacts
    <2>3. Device(st, w.st, n)
        BY <1>2, <2>2, DeviceTransitive
    <2>4. /\ Inside(st, w.st, n) /\ w.st \in State /\ w.st.stp = st.stp
          /\ w.st.hif = st.hif /\ w.st.aborted = st.aborted
        BY <2>3, DeviceInside DEF Device
    <2>5. CASE ~w.ok
        <3> HIDE DEF Rest
        <3> QED
            BY <2>1, <2>2, <2>4, <2>5
    <2>6. CASE w.ok
        <3>1. PICK t : t = Entered(w.st, n, to)
            OBVIOUS
        <3>2. o = Done(t)
            BY <2>1, <2>6, <3>1, Zenon
        <3>3. to \in Types
            BY DEF Types
        <3>4. /\ t \in State /\ Elsewhere(w.st, t, n) /\ t.hif[n] = to
              /\ t.dev = w.st.dev /\ t.link = w.st.link /\ t.rif = w.st.rif
              /\ t.stp = w.st.stp /\ t.broken = w.st.broken /\ t.aborted = w.st.aborted
            BY <2>4, <3>1, <3>3, HifSet
        <3>5. Inside(w.st, t, n)
            BY <3>4 DEF Inside
        <3>6. Inside(st, t, n)
            BY <2>4, <3>5, InsideTransitive
        <3>7. t.aborted = st.aborted
            BY <2>4, <3>4, Zenon
        <3> HIDE DEF Rest
        <3> QED
            BY <2>2, <2>4, <3>2, <3>4, <3>6, <3>7, OutcomeFields
    <2> QED
        BY <2>5, <2>6
<1> QED
    BY <1>4, <1>5

\* So does a transaction, which has nothing to do when the type is there.
LEMMA TransactionFacts ==
    ASSUME NEW st, Good(st), NEW n \in Names, Kind[n] = "system", st.dev[n] = "ready",
           NEW to \in {"l2", "l3"}, NEW o \in Transaction(st, Handle[n], to)
    PROVE  /\ Inside(st, o.st, n) /\ o.st.stp = st.stp /\ o.st.aborted = st.aborted
           /\ o.st.hif[n] \in {"l2", "l3"}
           /\ n \notin o.st.broken => o.st.hif[n] = to /\ o.st.link[n] = to
<1>1. Found(st, Handle[n]) = {n} /\ st.hif[n] \in {"l2", "l3"}
    BY FoundFacts
<1>2. o \in IF st.hif[n] = to THEN {Done(st)} ELSE Convert(st, n, to)
    <2>1. Transaction(st, Handle[n], to) =
             UNION {IF st.hif[m] = to THEN {Done(st)} ELSE Convert(st, m, to) : m \in {n}}
        BY <1>1 DEF Transaction
    <2> QED
        BY <2>1
<1>3. st \in State /\ (n \notin st.broken => st.hif[n] = st.link[n])
    BY DEF Good, Fits
<1>4. CASE st.hif[n] = to
    <2>1. o = Done(st)
        BY <1>2, <1>4
    <2> QED
        BY <1>1, <1>3, <1>4, <2>1, OutcomeFields DEF Inside, Elsewhere
<1>5. CASE st.hif[n] # to
    <2>1. o \in Convert(st, n, to)
        BY <1>2, <1>5
    <2> QED
        BY <1>1, <1>3, <2>1, ConvertFacts
<1> QED
    BY <1>4, <1>5

\* Where nothing failed for n the port forwards.
LEMMA StpFacts ==
    ASSUME NEW st \in State, NEW n \in Names, NEW o \in Stp(st, n)
    PROVE  /\ Inside(st, o.st, n) /\ o.st.aborted = st.aborted
           /\ o.st.hif = st.hif /\ o.st.link = st.link
           /\ n \notin o.st.broken => o.st.stp[n] = "forwarding"
<1>1. PICK t : t = Put(st, n, "forwarding")
    OBVIOUS
<1>2. PICK u : u = Put(st, n, "discarding")
    OBVIOUS
<1>3. o \in {Done(t), Broken(st, n), Broken(u, n)}
    BY <1>1, <1>2, Zenon DEF Stp, May, Put
<1>4. /\ Inside(st, t, n) /\ t.aborted = st.aborted /\ t.hif = st.hif
      /\ t.link = st.link /\ t.stp[n] = "forwarding"
    BY <1>1, StpSet DEF Inside
<1>5. CASE o = Done(t)
    BY <1>4, <1>5, OutcomeFields
<1>6. CASE o = Broken(st, n)
    <2>1. Device(st, o.st, n) /\ n \in o.st.broken /\ o.st.link = st.link
        BY <1>6, BrokenFacts
    <2> QED
        BY <2>1, DeviceInside DEF Device
<1>7. CASE o = Broken(u, n)
    <2>1. /\ u \in State /\ Inside(st, u, n) /\ u.aborted = st.aborted
          /\ u.hif = st.hif /\ u.link = st.link
        BY <1>2, StpSet DEF Inside
    <2>2. Device(u, o.st, n) /\ n \in o.st.broken /\ o.st.link = u.link
        BY <1>7, <2>1, BrokenFacts
    <2>3. Inside(st, o.st, n)
        BY <2>1, <2>2, DeviceInside, InsideTransitive
    <2> QED
        BY <2>1, <2>2, <2>3 DEF Device
<1> QED
    BY <1>3, <1>5, <1>6, <1>7

\* The port goes back to an L2 device and forwards, where nothing failed for it.
LEMMA TransactionToL2Facts ==
    ASSUME NEW st, Good(st), ~st.aborted, NEW n \in Names, Kind[n] = "system",
           st.dev[n] = "ready", NEW o \in TransactionToL2(st, n)
    PROVE  /\ Inside(st, o.st, n) /\ o.st.aborted = st.aborted
           /\ o.st.hif[n] \in {"l2", "l3"}
           /\ n \notin o.st.broken =>
                 o.st.hif[n] = "l2" /\ o.st.link[n] = "l2" /\ o.st.stp[n] = "forwarding"
<1>1. PICK q \in Transaction(st, Handle[n], "l2") :
         o \in IF q.st.aborted THEN {Done(q.st)} ELSE Stp(q.st, n)
    BY DEF TransactionToL2, Regardless
<1>2. /\ Inside(st, q.st, n) /\ q.st.stp = st.stp /\ q.st.aborted = st.aborted
      /\ q.st.hif[n] \in {"l2", "l3"}
      /\ n \notin q.st.broken => q.st.hif[n] = "l2" /\ q.st.link[n] = "l2"
    BY <1>1, TransactionFacts
<1>3. ~q.st.aborted
    BY <1>2, Zenon
<1>4. o \in Stp(q.st, n)
    BY <1>1, <1>3
<1>5. /\ Inside(q.st, o.st, n) /\ o.st.aborted = q.st.aborted
      /\ o.st.hif = q.st.hif /\ o.st.link = q.st.link
      /\ n \notin o.st.broken => o.st.stp[n] = "forwarding"
    BY <1>2, <1>4, StpFacts DEF Inside
<1>6. Inside(st, o.st, n)
    BY <1>2, <1>5, InsideTransitive
<1>7. o.st.aborted = st.aborted
    BY <1>2, <1>5, Zenon
<1>8. n \notin o.st.broken => n \notin q.st.broken
    BY <1>5 DEF Inside, Elsewhere
<1> QED
    BY <1>2, <1>5, <1>6, <1>7, <1>8

-----------------------------------------------------------------------------
(* The steps of the program.                                               *)

\* An assertion fails after a failure, or for the interface of a bridge.
Earned(st, t) ==
    t.aborted /\ t.broken = {} =>
        \/ st.aborted
        \/ \E n \in Names :
              Kind[n] = "bridge" /\ st.dev[n] = "ready" /\ t.dev[n] = "none"

LEMMA InitIsGood ==
    ASSUME Init
    PROVE  Good(sw)
<1>1. sw \in State
    BY DEF Init, State, Types
<1>2. ASSUME NEW n \in Names
      PROVE  /\ sw.dev[n] = "none" /\ sw.hif[n] = None /\ sw.link[n] = None
             /\ sw.rif[n] = None /\ sw.stp[n] = "forwarding"
    BY DEF Init
<1>3. ASSUME NEW n \in Names
      PROVE  Owned(sw, n) /\ Fits(sw, n)
    <2>1. None \in OwnTypes(n)
        BY DEF OwnTypes
    <2>2. Owned(sw, n)
        BY <1>2, <2>1, NoneFacts DEF Owned
    <2>3. Fitting(n, sw.dev[n], sw.rif[n]) = None
        BY <1>2 DEF Fitting
    <2>4. Fits(sw, n)
        BY <1>2, <2>3 DEF Fits
    <2> QED
        BY <2>2, <2>4
<1> QED
    BY <1>1, <1>3 DEF Good

LEMMA ConstructIsGood ==
    ASSUME Good(sw), NEW n \in Names, Construct(n)
    PROVE  Good(sw') /\ Earned(sw, sw')
<1>1. PICK t : t = Brought(sw, n, "new")
    OBVIOUS
<1>2. sw' = t /\ sw.dev[n] = "none"
    BY <1>1 DEF Construct, Brought
<1>3. /\ t \in State /\ Elsewhere(sw, t, n) /\ t.dev[n] = "new"
      /\ t.hif = sw.hif /\ t.link = sw.link /\ t.rif = sw.rif /\ t.stp = sw.stp
      /\ t.broken = sw.broken /\ t.aborted = sw.aborted
    BY <1>1, DevSet DEF Good
<1>4. Owned(sw, n) /\ Fits(sw, n)
    BY DEF Good
<1>5. Owned(t, n) /\ Fits(t, n)
    BY <1>2, <1>3, <1>4 DEF Owned, Fits, Fitting
<1>6. Good(t)
    BY <1>3, <1>5, StepAt
<1>7. Earned(sw, t)
    BY <1>3, Zenon DEF Earned
<1> QED
    BY <1>2, <1>6, <1>7

\* What __set_hw_intf_info comes to for a netdev that is to have a device of the
\* given type.
LEMMA InitializedFacts ==
    ASSUME NEW st, Good(st), NEW n \in Names, st.dev[n] = "new",
           NEW type \in {"l2", "vlan"}, type \in OwnTypes(n),
           Fitting(n, "ready", None) = type,
           NEW q \in NetdevCreate(st, n, type),
           NEW o, \/ ~q.ok /\ o = q
                  \/ q.ok /\ o = Done(Brought(q.st, n, "ready"))
                  \/ q.ok /\ o = Broken(q.st, n)
    PROVE  Good(o.st) /\ Earned(st, o.st)
<1>0. type \in {"l2", "l3", "vlan"} /\ st \in State
    BY DEF Good
<1>1. /\ Inside(st, q.st, n) /\ q.st.stp = st.stp
      /\ q.ok => q.st.hif[n] = type
      /\ ~q.ok => q.st.hif = st.hif
      /\ n \notin q.st.broken =>
            /\ st.link[n] = None /\ q.st.link[n] = type
            /\ st.hif[n] = None => q.ok /\ q.st.aborted = st.aborted
    BY <1>0, NetdevCreateFacts
<1>2. Owned(st, n) /\ Fits(st, n) /\ q.st \in State
    BY <1>1 DEF Good, Inside
<1>3. n \notin q.st.broken =>
         /\ n \notin st.broken /\ q.ok /\ q.st.aborted = st.aborted
         /\ q.st.rif[n] = None /\ q.st.stp[n] = "forwarding"
    <2>1. n \notin q.st.broken => n \notin st.broken
        BY <1>1 DEF Inside, Elsewhere
    <2>2. n \notin st.broken => st.hif[n] = st.link[n] /\ st.stp[n] = "forwarding"
        BY <1>2 DEF Fits
    <2>3. st.rif[n] \in {"made", "lost", None}
        BY <1>0, FieldTypes
    <2>4. n \notin st.broken => st.rif[n] = None
        BY <1>2, <2>3 DEF Owned
    <2> QED
        BY <1>1, <2>1, <2>2, <2>4 DEF Inside
<1>4. type # None
    BY NoneFacts
<1>5. CASE ~q.ok /\ o = q
    <2>1. n \in q.st.broken
        BY <1>3, <1>5
    <2>2. Owned(q.st, n)
        BY <1>1, <1>2, <1>5, <2>1 DEF Inside, Owned
    <2>3. Good(q.st)
        BY <1>1, <1>2, <2>1, <2>2, StepAt DEF Inside, Fits
    <2> QED
        BY <1>5, <2>1, <2>3 DEF Earned
<1>6. CASE q.ok /\ o = Done(Brought(q.st, n, "ready"))
    <2>1. PICK t : t = Brought(q.st, n, "ready")
        OBVIOUS
    <2>2. o.st = t
        BY <1>6, <2>1, OutcomeFields
    <2>3. /\ t \in State /\ Elsewhere(q.st, t, n) /\ t.dev[n] = "ready"
          /\ t.hif = q.st.hif /\ t.link = q.st.link /\ t.rif = q.st.rif
          /\ t.stp = q.st.stp /\ t.broken = q.st.broken /\ t.aborted = q.st.aborted
        BY <1>2, <2>1, DevSet
    <2>4. Elsewhere(st, t, n)
        BY <1>1, <2>3, ElsewhereTransitive DEF Inside
    <2>5. Owned(t, n)
        BY <1>1, <1>2, <1>4, <1>6, <2>3 DEF Inside, Owned, Elsewhere
    <2>6. Fits(t, n)
        BY <1>1, <1>3, <1>6, <2>3, NoneFacts DEF Fits, Fitting
    <2>7. Good(t)
        BY <2>3, <2>4, <2>5, <2>6, StepAt
    <2>8. Earned(st, t)
        <3>1. t.broken = {} => t.aborted = st.aborted
            BY <1>3, <2>3, Zenon
        <3> QED
            BY <3>1, Zenon DEF Earned
    <2> QED
        BY <2>2, <2>7, <2>8
<1>7. CASE q.ok /\ o = Broken(q.st, n)
    <2>1. Device(q.st, o.st, n) /\ n \in o.st.broken
        BY <1>2, <1>7, BrokenFacts
    <2>2. o.st \in State /\ Elsewhere(st, o.st, n)
        BY <1>1, <2>1, ElsewhereTransitive DEF Device, Inside
    <2>3. Owned(o.st, n) /\ Fits(o.st, n)
        BY <1>1, <1>2, <1>4, <1>7, <2>1 DEF Inside, Owned, Device, Fits
    <2>4. Good(o.st)
        BY <2>2, <2>3, StepAt
    <2> QED
        BY <2>1, <2>4 DEF Earned
<1> QED
    BY <1>5, <1>6, <1>7

LEMMA RefusedIsGood ==
    ASSUME NEW st, Good(st), NEW n \in Names, NEW o, o = Broken(st, n)
    PROVE  Good(o.st) /\ Earned(st, o.st)
<1>1. Device(st, o.st, n) /\ n \in o.st.broken /\ o.st.link = st.link
    BY BrokenFacts DEF Good
<1>2. Owned(st, n)
    BY DEF Good
<1>3. Owned(o.st, n) /\ Fits(o.st, n)
    BY <1>1, <1>2 DEF Device, Owned, Fits
<1>4. Good(o.st)
    BY <1>1, <1>3, StepAt DEF Device
<1> QED
    BY <1>1, <1>4 DEF Earned

LEMMA SetHwIntfInfoIsGood ==
    ASSUME Good(sw), NEW n \in Names, SetHwIntfInfo(n)
    PROVE  Good(sw') /\ Earned(sw, sw')
<1>1. PICK o \in Initialized(sw, n) : sw' = o.st
    BY DEF SetHwIntfInfo
<1>2. sw.dev[n] = "new"
    BY DEF SetHwIntfInfo
<1>3. CASE Kind[n] = "bridge"
    <2>1. PICK t : t = Brought(sw, n, "ready")
        OBVIOUS
    <2>2. o = Done(t)
        BY <1>1, <1>3, <2>1 DEF Initialized, Ready, Brought
    <2>3. /\ t \in State /\ Elsewhere(sw, t, n) /\ t.dev[n] = "ready"
          /\ t.hif = sw.hif /\ t.link = sw.link /\ t.rif = sw.rif /\ t.stp = sw.stp
          /\ t.broken = sw.broken /\ t.aborted = sw.aborted
        BY <2>1, DevSet DEF Good
    <2>4. Owned(sw, n) /\ Fits(sw, n)
        BY DEF Good
    <2>5. Owned(t, n) /\ Fits(t, n)
        BY <1>2, <1>3, <2>3, <2>4 DEF Owned, Fits, Fitting
    <2>6. Good(t)
        BY <2>3, <2>5, StepAt
    <2>7. Earned(sw, t)
        BY <2>3, Zenon DEF Earned
    <2> QED
        BY <1>1, <2>2, <2>6, <2>7, OutcomeFields
<1>4. CASE Kind[n] = "vlan"
    <2>1. \/ o = Broken(sw, n)
          \/ o \in Then(NetdevCreate(sw, n, "vlan"),
                        LAMBDA t : {Done(Brought(t, n, "ready"))})
        BY <1>1, <1>4, Zenon DEF Initialized, May, Ready, Brought, Broken
    <2>2. CASE o = Broken(sw, n)
        BY <1>1, <2>2, RefusedIsGood
    <2>3. "vlan" \in OwnTypes(n) /\ Fitting(n, "ready", None) = "vlan"
        BY <1>4, OwnTypesFacts DEF Fitting
    <2>4. CASE o \in Then(NetdevCreate(sw, n, "vlan"),
                          LAMBDA t : {Done(Brought(t, n, "ready"))})
        <3>1. PICK q \in NetdevCreate(sw, n, "vlan") :
                 o \in IF q.ok THEN {Done(Brought(q.st, n, "ready"))} ELSE {q}
            BY <2>4, Zenon DEF Then
        <3>2. \/ ~q.ok /\ o = q
              \/ q.ok /\ o = Done(Brought(q.st, n, "ready"))
            BY <3>1
        <3>3. Good(o.st) /\ Earned(sw, o.st)
            BY <1>2, <2>3, <3>1, <3>2, InitializedFacts
        <3> QED
            BY <1>1, <3>3
    <2> QED
        BY <2>1, <2>2, <2>4
<1>5. CASE Kind[n] = "system"
    <2>1. \/ o = Broken(sw, n)
          \/ o \in Then(NetdevCreate(sw, n, "l2"),
                        LAMBDA t : {Done(Brought(t, n, "ready"))}
                                   \cup May(n, {Broken(t, n)}))
        BY <1>1, <1>5, Zenon DEF Initialized, May, Ready, Brought, Broken
    <2>2. CASE o = Broken(sw, n)
        BY <1>1, <2>2, RefusedIsGood
    <2>3. "l2" \in OwnTypes(n) /\ Fitting(n, "ready", None) = "l2"
        BY <1>5, OwnTypesFacts, NoneFacts DEF Fitting
    <2>4. CASE o \in Then(NetdevCreate(sw, n, "l2"),
                          LAMBDA t : {Done(Brought(t, n, "ready"))}
                                     \cup May(n, {Broken(t, n)}))
        <3>1. PICK q \in NetdevCreate(sw, n, "l2") :
                 o \in IF q.ok THEN {Done(Brought(q.st, n, "ready"))}
                                    \cup May(n, {Broken(q.st, n)})
                       ELSE {q}
            BY <2>4, Zenon DEF Then
        <3>2. \/ ~q.ok /\ o = q
              \/ q.ok /\ o = Done(Brought(q.st, n, "ready"))
              \/ q.ok /\ o = Broken(q.st, n)
            BY <3>1 DEF May
        <3>3. Good(o.st) /\ Earned(sw, o.st)
            BY <1>2, <2>3, <3>1, <3>2, InitializedFacts
        <3> QED
            BY <1>1, <3>3
    <2> QED
        BY <2>1, <2>2, <2>4
<1> QED
    BY <1>3, <1>4, <1>5, OwnTypesFacts

LEMMA DestructIsGood ==
    ASSUME Good(sw), NEW n \in Names, Destruct(n)
    PROVE  Good(sw') /\ Earned(sw, sw')
<1>1. PICK o : /\ \/ sw.dev[n] = "ready" /\ o \in NetdevRemove(sw, n)
                  \/ sw.dev[n] # "ready" /\ o = Done(sw)
               /\ sw' = Brought(o.st, n, "none")
    BY Zenon DEF Destruct, Brought
<1>2. sw.dev[n] # "none" /\ sw.rif[n] # "made" /\ sw \in State
    BY DEF Destruct, Good
<1>3. Owned(sw, n) /\ Fits(sw, n)
    BY DEF Good
<1>4. /\ Inside(sw, o.st, n) /\ o.st.stp = sw.stp
      /\ o.st.hif[n] \in {sw.hif[n], None}
      /\ n \notin o.st.broken => o.st.hif[n] = None /\ o.st.link[n] = None
      /\ (sw.dev[n] = "ready" /\ Kind[n] = "bridge") \/ o.st.aborted = sw.aborted
    <2>1. CASE sw.dev[n] = "ready"
        <3>1. /\ Inside(sw, o.st, n) /\ o.st.stp = sw.stp
              /\ o.st.hif[n] \in {sw.hif[n], None}
              /\ sw.hif[n] = None => o.st.link = sw.link
              /\ sw.hif[n] # None => o.st.aborted = sw.aborted
              /\ sw.hif[n] # None /\ n \notin o.st.broken =>
                    o.st.hif[n] = None /\ o.st.link[n] = None
            BY <1>1, <1>2, <2>1, NetdevRemoveFacts
        <3>2. CASE sw.hif[n] # None
            BY <2>1, <3>1, <3>2
        <3>3. CASE sw.hif[n] = None
            <4>1. Kind[n] = "bridge"
                BY <1>3, <2>1, <3>3 DEF Owned
            <4>2. n \notin o.st.broken => n \notin sw.broken
                BY <3>1 DEF Inside, Elsewhere
            <4> QED
                BY <1>3, <2>1, <3>1, <3>3, <4>1, <4>2 DEF Fits
        <3> QED
            BY <3>2, <3>3
    <2>2. CASE sw.dev[n] # "ready"
        <3>1. o.st = sw
            BY <1>1, <2>2, OutcomeFields
        <3> QED
            BY <1>2, <1>3, <2>2, <3>1 DEF Inside, Elsewhere, Fits, Fitting
    <2> QED
        BY <2>1, <2>2
<1>5. PICK t : t = Brought(o.st, n, "none")
    OBVIOUS
<1>6. /\ t \in State /\ Elsewhere(o.st, t, n) /\ t.dev[n] = "none"
      /\ t.hif = o.st.hif /\ t.link = o.st.link /\ t.rif = o.st.rif
      /\ t.stp = o.st.stp /\ t.broken = o.st.broken /\ t.aborted = o.st.aborted
    BY <1>4, <1>5, DevSet DEF Inside
<1>7. Elsewhere(sw, t, n)
    BY <1>4, <1>6, ElsewhereTransitive DEF Inside
<1>8. n \notin t.broken => n \notin sw.broken
    BY <1>7 DEF Elsewhere
<1>9. Owned(t, n)
    <2>1. t.hif[n] \in OwnTypes(n)
        BY <1>3, <1>4, <1>6 DEF Owned, OwnTypes
    <2>2. t.rif[n] = sw.rif[n] /\ sw.broken \subseteq t.broken
        BY <1>4, <1>6, <1>7 DEF Inside, Elsewhere
    <2> QED
        BY <1>2, <1>3, <1>6, <2>1, <2>2 DEF Owned
<1>10. Fits(t, n)
    BY <1>3, <1>4, <1>6, <1>8 DEF Fits, Fitting
<1>11. Good(t)
    BY <1>6, <1>7, <1>9, <1>10, StepAt
<1>12. Earned(sw, t)
    <2>1. CASE sw.dev[n] = "ready" /\ Kind[n] = "bridge"
        BY <1>6, <2>1 DEF Earned
    <2>2. CASE o.st.aborted = sw.aborted
        BY <1>6, <2>2, Zenon DEF Earned
    <2> QED
        BY <1>4, <2>1, <2>2
<1> QED
    BY <1>1, <1>5, <1>11, <1>12

LEMMA RifCreateIsGood ==
    ASSUME Good(sw), NEW n \in Names, RifCreate(n)
    PROVE  Good(sw') /\ Earned(sw, sw')
<1>1. PICK o \in Transaction(sw, Handle[n], "l3") : sw' = Given(o.st, n, "made")
    BY Zenon DEF RifCreate, Given
<1>2. Kind[n] = "system" /\ sw.dev[n] = "ready"
    BY DEF RifCreate
<1>3. /\ Inside(sw, o.st, n) /\ o.st.stp = sw.stp /\ o.st.aborted = sw.aborted
      /\ o.st.hif[n] \in {"l2", "l3"}
      /\ n \notin o.st.broken => o.st.hif[n] = "l3" /\ o.st.link[n] = "l3"
    BY <1>1, <1>2, TransactionFacts
<1>4. PICK t : t = Given(o.st, n, "made")
    OBVIOUS
<1>5. /\ t \in State /\ Elsewhere(o.st, t, n) /\ t.rif[n] = "made"
      /\ t.hif = o.st.hif /\ t.link = o.st.link /\ t.dev = o.st.dev
      /\ t.stp = o.st.stp /\ t.broken = o.st.broken /\ t.aborted = o.st.aborted
    BY <1>3, <1>4, RifSet DEF Inside
<1>6. Elsewhere(sw, t, n) /\ t.dev[n] = "ready"
    BY <1>2, <1>3, <1>5, ElsewhereTransitive DEF Inside
<1>7. n \notin t.broken => n \notin sw.broken
    BY <1>6 DEF Elsewhere
<1>8. Owned(t, n)
    BY <1>2, <1>3, <1>5, <1>6, OwnTypesFacts, NoneFacts DEF Owned
<1>9. Fits(t, n)
    <2>1. n \notin sw.broken => sw.stp[n] = "forwarding"
        BY DEF Good, Fits
    <2> QED
        BY <1>2, <1>3, <1>5, <1>6, <1>7, <2>1 DEF Fits, Fitting
<1>10. Good(t)
    BY <1>5, <1>6, <1>8, <1>9, StepAt
<1>11. Earned(sw, t)
    BY <1>3, <1>5, Zenon DEF Earned
<1> QED
    BY <1>1, <1>4, <1>10, <1>11

LEMMA RifRemoveIsGood ==
    ASSUME Good(sw), ~sw.aborted, NEW n \in Names, RifRemove(n)
    PROVE  Good(sw') /\ Earned(sw, sw')
<1>1. PICK o \in TransactionToL2(sw, n) : sw' = Given(o.st, n, None)
    BY Zenon DEF RifRemove, Given
<1>2. Kind[n] = "system" /\ sw.dev[n] = "ready"
    BY DEF RifRemove, Good, Owned
<1>3. /\ Inside(sw, o.st, n) /\ o.st.aborted = sw.aborted
      /\ o.st.hif[n] \in {"l2", "l3"}
      /\ n \notin o.st.broken =>
            o.st.hif[n] = "l2" /\ o.st.link[n] = "l2" /\ o.st.stp[n] = "forwarding"
    BY <1>1, <1>2, TransactionToL2Facts
<1>4. PICK t : t = Given(o.st, n, None)
    OBVIOUS
<1>5. /\ t \in State /\ Elsewhere(o.st, t, n) /\ t.rif[n] = None
      /\ t.hif = o.st.hif /\ t.link = o.st.link /\ t.dev = o.st.dev
      /\ t.stp = o.st.stp /\ t.broken = o.st.broken /\ t.aborted = o.st.aborted
    BY <1>3, <1>4, RifSet DEF Inside
<1>6. Elsewhere(sw, t, n) /\ t.dev[n] = "ready"
    BY <1>2, <1>3, <1>5, ElsewhereTransitive DEF Inside
<1>7. Owned(t, n)
    BY <1>2, <1>3, <1>5, <1>6, OwnTypesFacts, NoneFacts DEF Owned
<1>8. Fits(t, n)
    BY <1>2, <1>3, <1>5, <1>6, NoneFacts DEF Fits, Fitting
<1>9. Good(t)
    BY <1>5, <1>6, <1>7, <1>8, StepAt
<1>10. Earned(sw, t)
    BY <1>3, <1>5, Zenon DEF Earned
<1> QED
    BY <1>1, <1>4, <1>9, <1>10

LEMMA RifLostIsGood ==
    ASSUME Good(sw), NEW n \in Names, RifLost(n)
    PROVE  Good(sw') /\ Earned(sw, sw')
<1>1. PICK u : u = Given(sw, n, "lost")
    OBVIOUS
<1>2. PICK t : t = [u EXCEPT !.broken = @ \cup {n}]
    OBVIOUS
<1>3. /\ u \in State /\ Elsewhere(sw, u, n) /\ u.rif[n] = "lost"
      /\ u.hif = sw.hif /\ u.link = sw.link /\ u.dev = sw.dev
      /\ u.stp = sw.stp /\ u.broken = sw.broken /\ u.aborted = sw.aborted
    BY <1>1, RifSet DEF Good
<1>4. /\ t \in State /\ Elsewhere(u, t, n) /\ n \in t.broken
      /\ t.hif = u.hif /\ t.link = u.link /\ t.dev = u.dev /\ t.rif = u.rif
      /\ t.stp = u.stp /\ t.aborted = u.aborted
    BY <1>2, <1>3, BrokenSet
<1>5. sw' = t
    <2>1. sw' = [sw EXCEPT !.rif[n] = "lost", !.broken = sw.broken \cup {n}]
        BY DEF RifLost
    <2>2. t = [Given(sw, n, "lost") EXCEPT !.broken = sw.broken \cup {n}]
        BY <1>1, <1>2, <1>3
    <2> QED
        BY <2>1, <2>2 DEF Given
<1>6. Owned(sw, n)
    BY DEF Good
<1>7. Owned(t, n)
    BY <1>3, <1>4, <1>6 DEF Owned
<1>8. Good(t)
    BY <1>3, <1>4, <1>7, ElsewhereTransitive, StepAt DEF Fits
<1> QED
    BY <1>4, <1>5, <1>8 DEF Earned

LEMMA NextIsGood ==
    ASSUME Good(sw), [Next]_sw
    PROVE  Good(sw') /\ Earned(sw, sw')
<1>1. CASE UNCHANGED sw
    BY <1>1, Zenon DEF Earned
<1>2. CASE Next
    <2>1. PICK n \in Names : \/ Construct(n) \/ SetHwIntfInfo(n) \/ Destruct(n)
                             \/ RifCreate(n) \/ RifRemove(n) \/ RifLost(n)
        BY <1>2 DEF Next
    <2>2. ~sw.aborted
        BY <1>2 DEF Next
    <2> QED
        BY <2>1, <2>2, ConstructIsGood, SetHwIntfInfoIsGood, DestructIsGood,
           RifCreateIsGood, RifRemoveIsGood, RifLostIsGood
<1> QED
    BY <1>1, <1>2

LEMMA AlwaysGood == Spec => []Good(sw)
<1>1. Init => Good(sw)
    BY InitIsGood
<1>2. Good(sw) /\ [Next]_sw => Good(sw)'
    BY NextIsGood
<1> QED
    BY <1>1, <1>2, PTL DEF Spec

-----------------------------------------------------------------------------
(* The theorems.                                                           *)

\* Netdevs, all_host_intf and Linux devices keep the shape the code declares.
THEOREM TypeCorrect == Spec => []TypeOK
<1>1. Good(sw) => TypeOK
    BY DEF Good, TypeOK
<1> QED
    BY <1>1, AlwaysGood, PTL

\* all_host_intf has the device that Linux has, for every name for which no command
\* and no SDK call has failed, whatever failed for other names.
THEOREM TableTrue == Spec => []TableIsTrue
<1>1. Good(sw) => TableIsTrue
    BY DEF Good, Fits, TableIsTrue
<1> QED
    BY <1>1, AlwaysGood, PTL

\* An initialized port or VLAN interface has an entry of its own kind, whatever
\* failed: the lookups by label id in transactions find it.
THEOREM ReadyEntered == Spec => []ReadyHasEntry
<1>1. Good(sw) => ReadyHasEntry
    BY OwnTypesFacts, NoneFacts DEF Good, Owned, ReadyHasEntry
<1> QED
    BY <1>1, AlwaysGood, PTL

\* Every name has the device that its netdev and router interface call for, and
\* none when there is no netdev, through any number of transactions.
THEOREM DevicesFit == Spec => []DeviceFitsUse
<1>1. Good(sw) => DeviceFitsUse
    BY DEF Good, Fits, DeviceFitsUse
<1> QED
    BY <1>1, AlwaysGood, PTL

\* Before any command or SDK call has failed only the destruction of a bridge's
\* initialized interface fails an assertion.
THEOREM BridgesAbort == Spec => OnlyBridgesAbort
<1>1. Good(sw) /\ [Next]_sw
        => [(sw'.aborted /\ sw'.broken = {}) =>
               \E n \in Names : /\ Kind[n] = "bridge"
                                /\ sw.dev[n] = "ready" /\ sw'.dev[n] = "none"]_sw
    <2> SUFFICES ASSUME Good(sw), Next, sw'.aborted, sw'.broken = {}
                 PROVE  \E n \in Names : /\ Kind[n] = "bridge"
                                         /\ sw.dev[n] = "ready" /\ sw'.dev[n] = "none"
        OBVIOUS
    <2>1. Earned(sw, sw') /\ ~sw.aborted
        BY NextIsGood DEF Next
    <2> QED
        BY <2>1 DEF Earned
<1> QED
    BY <1>1, AlwaysGood, PTL DEF Spec, OnlyBridgesAbort

=============================================================================
