--------------------------- MODULE MCHallSession ---------------------------
(* Small clusters: halls a and b, one user with several logins.      *)
EXTENDS HallSession

OneType == [p \in Peers |-> "hall"]
OneUser == [s \in Streams |-> "u"]

\* s1 and s3 come to hall a, s2 to hall b.
TwoHalls == [s \in Streams |-> IF s = "s2" THEN "b" ELSE "a"]
OneHall == [s \in Streams |-> "a"]

KickHallA == [k \in Kicks |-> "a"]
KickUserU == [k \in Kicks |-> "u"]
=============================================================================
