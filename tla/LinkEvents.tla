----------------------------- MODULE LinkEvents -----------------------------
(***************************************************************************)
(* What link events are to do, seen from outside: an abstract              *)
(* specification that NetdevEvents implements.  Netdevs come to count for  *)
(* a port and stop to; SAI reports events; one event after the other is    *)
(* handled, while netdevs come and go.                                     *)
(*                                                                         *)
(* The promise: an event that brings a link up is counted once, by a       *)
(* netdev of its port, if one counts for that port all the while it is     *)
(* handled; if none does at any time it is counted by nobody.  Nothing is  *)
(* promised any more (broken) once a netdev was freed while an event is    *)
(* handled, or an event has come that no netdev counts all the while, nor  *)
(* on a switch whose ports do not fit.                                     *)
(***************************************************************************)
EXTENDS Naturals, Sequences

CONSTANTS Netdevs, Ports, NoPort,
          MaxEvents  \* bound on the events of one report

VARIABLES port,     \* port[n]: the port that n counts for
          resets,   \* resets[n]: the links that came up, as n counts them
          queue,    \* events reported; the head is being handled if busy
          busy,
          current,  \* netdevs that counted for its port since it is handled
          steady,   \* netdevs that have all the while
          freed,    \* a netdev was freed since it is handled
          counted,  \* it was counted
          broken,   \* undefined behaviour
          fits      \* the ports of the switch fit the tables

event == <<busy, current, steady, freed, counted>>
vars == <<port, resets, queue, event, broken, fits>>

Events == [port : Ports, up : BOOLEAN]
Concerned(p) == busy /\ Head(queue).port = p

Init ==
    /\ port = [n \in Netdevs |-> NoPort]
    /\ resets = [n \in Netdevs |-> 0]
    /\ queue = <<>>
    /\ busy = FALSE /\ freed = FALSE /\ counted = FALSE
    /\ current = {} /\ steady = {}
    /\ fits \in BOOLEAN /\ broken = ~fits

Appear(n, p) ==
    /\ port[n] = NoPort
    /\ port' = [port EXCEPT ![n] = p]
    /\ current' = IF Concerned(p) THEN current \cup {n} ELSE current
    /\ UNCHANGED <<resets, queue, busy, steady, freed, counted, broken>>

Vanish(n) ==
    /\ port' = [port EXCEPT ![n] = NoPort]
    /\ steady' = steady \ {n}
    /\ UNCHANGED <<resets, queue, busy, current, freed, counted, broken>>

Free(n) ==
    /\ port[n] = NoPort
    /\ resets' = [resets EXCEPT ![n] = 0]
    /\ current' = current \ {n}
    /\ freed' = busy
    /\ UNCHANGED <<port, queue, busy, steady, counted, broken>>

Deliver(data) ==
    /\ queue = <<>>
    /\ queue' = data
    /\ UNCHANGED <<port, resets, event, broken>>

Begin ==
    /\ ~busy /\ queue # <<>>
    /\ busy' = TRUE
    /\ current' = {n \in Netdevs : port[n] = Head(queue).port}
    /\ steady' = current'
    /\ UNCHANGED <<port, resets, queue, freed, counted, broken>>

Count(n) ==
    /\ busy /\ ~counted /\ n \in current
    /\ resets' = IF Head(queue).up THEN [resets EXCEPT ![n] = @ + 1] ELSE resets
    /\ counted' = TRUE
    /\ UNCHANGED <<port, queue, busy, current, steady, freed, broken>>

Finish ==
    /\ busy /\ (counted \/ steady = {})
    /\ queue' = Tail(queue)
    /\ busy' = FALSE /\ freed' = FALSE /\ counted' = FALSE
    /\ current' = {} /\ steady' = {}
    /\ UNCHANGED <<port, resets, broken>>

Break ==
    /\ busy /\ (freed \/ (steady = {} /\ ~counted))
    /\ broken' = TRUE
    /\ UNCHANGED <<port, resets, queue, event>>

Handle == Begin \/ Finish \/ Break \/ \E n \in Netdevs : Count(n)

Next ==
    /\ ~broken /\ UNCHANGED fits
    /\ \/ Handle
       \/ \E k \in 1 .. MaxEvents : \E data \in [1 .. k -> Events] : Deliver(data)
       \/ \E n \in Netdevs : \/ Vanish(n) \/ Free(n)
                             \/ \E p \in Ports : Appear(n, p)

Spec == Init /\ [][Next]_vars

=============================================================================
