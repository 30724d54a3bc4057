----------------------------- MODULE MCUpstream -----------------------------
(* A gateway, a hall which may also be started at a second address, and a    *)
(* second hall of a newer build.                                             *)
EXTENDS Upstream

Names2 == [p \in Procs |-> CASE p = "gate" -> "gateway_1" [] p = "hall2" -> "hall_2" [] OTHER -> "hall_1"]
Addrs2 == [p \in Procs |-> p]
Builds2 == [p \in Procs |-> IF p = "hall2" THEN 2 ELSE 1]
OwnKey == [p \in Procs |-> CASE p = "gate" -> {"hall_1", "hall_2"}
                           [] p \in {"hall", "hallB"} -> {"hall_1"}
                           [] OTHER -> {}]

\* The first deployment may lose its lease, the second may end; the second hall
\* stays once it is up.
Faults == {<<"hall", "expire">>, <<"hall", "commit_fails">>,
           <<"hallB", "stop">>, <<"hallB", "crash">>, <<"gate", "crash">>}
=============================================================================
