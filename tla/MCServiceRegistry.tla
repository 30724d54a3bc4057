------------------------- MODULE MCServiceRegistry -------------------------
(* Two servers of different names and a service either may register.        *)
EXTENDS ServiceRegistry

Self == [p \in Procs |-> p]
AllNames == [p \in Procs |-> Names]
HallOne == {<<"hall">>, <<"hall", "1">>}
Offered == [p \in Procs |-> IF p = "a" THEN {<<"hall", "1">>} ELSE HallOne]
Faults == {<<"a", "stop">>, <<"a", "crash">>, <<"a", "svc_fails">>}
=============================================================================
