------------------------------ MODULE UserLock ------------------------------
(***************************************************************************)
(* What the player registry promises its callers, the hall and the         *)
(* gateway: a lock per user and application type.  A running peer takes a  *)
(* lock of its own type that is free; only the peer that holds a lock gives *)
(* it back, while it is running.  A process that ends keeps its locks.     *)
(***************************************************************************)
CONSTANTS Peers, Types, TypeOf, Users, NoPeer

VARIABLES
    holder,     \* holder[t][u]: the peer that holds user u for type t, or NoPeer
    running     \* the peers whose process is running

lockVars == <<holder, running>>

Init ==
    /\ holder = [t \in Types |-> [u \in Users |-> NoPeer]]
    /\ running = {}

Acquire(p, u) ==
    /\ p \in running
    /\ holder[TypeOf[p]][u] = NoPeer
    /\ holder' = [holder EXCEPT ![TypeOf[p]][u] = p]
    /\ UNCHANGED running

Release(p, u) ==
    /\ p \in running
    /\ holder[TypeOf[p]][u] = p
    /\ holder' = [holder EXCEPT ![TypeOf[p]][u] = NoPeer]
    /\ UNCHANGED running

Begin(p) ==
    /\ p \notin running
    /\ running' = running \cup {p}
    /\ UNCHANGED holder

End(p) ==
    /\ p \in running
    /\ running' = running \ {p}
    /\ UNCHANGED holder

Next ==
    \/ \E p \in Peers, u \in Users : Acquire(p, u) \/ Release(p, u)
    \/ \E p \in Peers : Begin(p) \/ End(p)

Spec == Init /\ [][Next]_lockVars
=============================================================================
