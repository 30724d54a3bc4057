----------------------------- MODULE MCGateConn -----------------------------
(* Small inputs for one gate connection.                                     *)
EXTENDS GateConn

\* Every kind of packet, alone and behind others.
AllBatches == {<<"hs">>, <<"ack", "msg">>, <<"msg", "hb">>, <<"bad">>}

\* A client that is silent after its ack, or has sent more behind it than a
\* short backlog takes, and then something that is not a packet.
AckedBatches == {<<"hs">>, <<"ack">>, <<"ack", "msg", "msg", "bad">>}
=============================================================================
