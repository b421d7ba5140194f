---------------------------- MODULE RouteTables ----------------------------
(***************************************************************************)
(* What virtual routing is to be, seen from the daemon: an abstract        *)
(* specification that VirtualRouters implements.  A VRF has a table of     *)
(* routes while it is open; whatever is done to one VRF leaves the tables  *)
(* of the others alone, and a VRF opened again starts empty.               *)
(***************************************************************************)
CONSTANTS Vrfs, Prefixes, Hops, NoTable

VARIABLE routes  \* routes[v][p]: the next hops of prefix p, {} if no route

Empty == [p \in Prefixes |-> {}]

Init == routes = [v \in Vrfs |-> NoTable]

Open(v) ==
    /\ routes[v] = NoTable
    /\ routes' = [routes EXCEPT ![v] = Empty]

Close(v) == routes' = [routes EXCEPT ![v] = NoTable]

\* Hops come to a route, or go from it; without hops there is no route.
Add(v, p, H) ==
    /\ routes[v] # NoTable
    /\ routes' = [routes EXCEPT ![v][p] = @ \cup H]
Remove(v, p, H) ==
    /\ routes[v] # NoTable
    /\ routes' = [routes EXCEPT ![v][p] = @ \ H]

\* The switch is shut down.
Lose == routes' = [v \in Vrfs |-> NoTable]

Next ==
    \/ Lose
    \/ \E v \in Vrfs :
          \/ Open(v) \/ Close(v)
          \/ \E p \in Prefixes, H \in SUBSET Hops : Add(v, p, H) \/ Remove(v, p, H)

Spec == Init /\ [][Next]_routes

=============================================================================
