-------------------------- MODULE MCPlayerRegistry --------------------------
(* Small instances of PlayerRegistry: peers and goroutines by name.        *)
EXTENDS PlayerRegistry

\* Two halls of one type; hall a runs two goroutines, hall b one.
OneType == [p \in Peers |-> "hall"]
HostTwoOne == [g \in Procs |-> IF g = "g3" THEN "b" ELSE "a"]

\* Peer c is of another type than a; peer a runs two goroutines.
TwoTypes == [p \in Peers |-> IF p = "c" THEN "battle" ELSE "hall"]
HostTwoTypes == [g \in Procs |-> IF g = "g3" THEN "c" ELSE "a"]
=============================================================================
