-------------------------- MODULE GateServerProofs --------------------------
(***************************************************************************)
(* Proofs about GateServer, for any set of connections and any number of   *)
(* calls of Maintain.                                                      *)
(***************************************************************************)
EXTENDS GateServer, TLAPS

USE GateServerAssumption

\* A server that has just started satisfies the inductive invariant.
LEMMA ServerInit == Init => ServerIInv
<1> SUFFICES ASSUME Init PROVE ServerIInv
  OBVIOUS
<1>1. TypeOK
  <2>1. isWebsocket \in BOOLEAN /\ cancelled \in BOOLEAN /\ reopened \in BOOLEAN
    BY Zenon DEF Init
  <2> QED BY <2>1 DEF Init, TypeOK, Behaviours
<1>2. NoConnAfterShutdown /\ GroupHasServed /\ StaysClosed
  BY DEF Init, NoConnAfterShutdown, GroupHasServed, StaysClosed, Serving
<1> QED BY <1>1, <1>2 DEF ServerIInv, ServerInv

\* The steps of a connection, from the listener to the end of serve: the group
\* has it all the way, and none gets past handleConn in a closed server.
LEMMA ConnKeeps ==
    ASSUME ServerIInv, NEW c \in Conns,
           \/ Accept(c) \/ ConnStep(c) \/ HandshakeOk(c) \/ HandlerQuits(c)
           \/ ClientLeaves(c) \/ WriterLeaves(c)
           \/ \E b \in Behaviours : ClientStalls(c, b)
    PROVE  ServerIInv'
<1> USE DEF ServerIInv, ServerInv, TypeOK, NoConnAfterShutdown, GroupHasServed,
            StaysClosed, Serving, Goes, shutVars, maintVars
<1>1. CASE Accept(c)
  BY <1>1 DEF Accept
<1>2. CASE ServeWsConn(c)
  BY <1>2 DEF ServeWsConn
<1>3. CASE GroupConn(c)
  BY <1>3 DEF GroupConn
<1>4. CASE HandleConn(c)
  BY <1>4 DEF HandleConn
<1>5. CASE HandshakeFails(c)
  BY <1>5 DEF HandshakeFails
<1>6. CASE StoreSession(c)
  BY <1>6 DEF StoreSession
<1>7. CASE ServeEnds(c)
  BY <1>7 DEF ServeEnds
<1>8. CASE SessionClosed(c)
  BY <1>8 DEF SessionClosed
<1>9. CASE HandshakeOk(c)
  BY <1>9 DEF HandshakeOk
<1>10. CASE HandlerQuits(c)
  BY <1>10 DEF HandlerQuits
<1>11. CASE ClientLeaves(c)
  BY <1>11 DEF ClientLeaves, Behaviours
<1>12. CASE WriterLeaves(c)
  BY <1>12 DEF WriterLeaves, Behaviours
<1>13. ASSUME NEW b \in Behaviours, ClientStalls(c, b)
       PROVE  ServerIInv'
  BY <1>13 DEF ClientStalls
<1> QED BY <1>1, <1>2, <1>3, <1>4, <1>5, <1>6, <1>7, <1>8, <1>9, <1>10, <1>11, <1>12,
           <1>13 DEF ConnStep

\* The steps of Shutdown: its state comes first and stays, and it ends with
\* an empty group.
LEMMA ShutdownKeeps ==
    ASSUME ServerIInv, ShutdownClosed \/ ShutdownStep
    PROVE  ServerIInv'
<1> USE DEF ServerIInv, ServerInv, TypeOK, NoConnAfterShutdown, GroupHasServed,
            StaysClosed, Serving, Shut, maintVars
<1>1. CASE ShutdownClosed
  BY <1>1 DEF ShutdownClosed
<1>2. CASE KickBegin
  BY <1>2 DEF KickBegin
<1>3. ASSUME NEW c \in Conns, KickNext(c)
      PROVE  ServerIInv'
  BY <1>3 DEF KickNext
<1>4. CASE KickSession
  <2>1. kicking \in Conns /\ client' \in [Conns -> Behaviours]
    BY <1>4 DEF KickSession, Behaviours
  <2> QED BY <1>4, <2>1 DEF KickSession
<1>5. CASE KickUnlock
  BY <1>5 DEF KickUnlock
<1>6. CASE ShutdownCancel
  BY <1>6 DEF ShutdownCancel
<1>7. CASE ShutdownJoin
  BY <1>7 DEF ShutdownJoin
<1> QED BY <1>1, <1>2, <1>3, <1>4, <1>5, <1>6, <1>7 DEF ShutdownStep

\* The two halves of Maintain: a set that comes after the close is noted.
LEMMA MaintainKeeps ==
    ASSUME ServerIInv, MaintainSet \/ \E m \in {"working", "maintain"} : MaintainTest(m)
    PROVE  ServerIInv'
<1> USE DEF ServerIInv, ServerInv, TypeOK, NoConnAfterShutdown, GroupHasServed,
            StaysClosed, connVars, shutVars
<1>1. CASE MaintainSet
  BY <1>1 DEF MaintainSet
<1>2. ASSUME NEW m \in {"working", "maintain"}, MaintainTest(m)
      PROVE  ServerIInv'
  BY <1>2 DEF MaintainTest
<1> QED BY <1>1, <1>2

\* The inductive invariant is inductive.
LEMMA ServerStep == ServerIInv /\ [Next]_vars => ServerIInv'
<1> SUFFICES ASSUME ServerIInv, [Next]_vars PROVE ServerIInv'
  OBVIOUS
<1>1. CASE UNCHANGED vars
  BY <1>1 DEF vars, connVars, shutVars, maintVars, ServerIInv, ServerInv, TypeOK,
     NoConnAfterShutdown, GroupHasServed, StaysClosed
<1> QED BY <1>1, ConnKeeps, ShutdownKeeps, MaintainKeeps DEF Next

\* Once Shutdown has returned, no websocket connection is in its handshake or
\* being served, whatever was upgraded, wrapped or grouped while it ran; only
\* a Maintain that races with the close can lift that. With it, the shape of
\* the state.
THEOREM ServerInvariant == Spec => []ServerInv
<1>1. ServerIInv => ServerInv
  BY DEF ServerIInv
<1> QED BY <1>1, ServerInit, ServerStep, PTL DEF Spec

\* A reachable server: errGroup has each websocket connection that is served,
\* and the state Shutdown sets stays unless a Maintain overwrites it.
THEOREM ShutdownStays == Spec => [](GroupHasServed /\ StaysClosed)
<1>1. ServerIInv => GroupHasServed /\ StaysClosed
  BY DEF ServerIInv
<1> QED BY <1>1, ServerInit, ServerStep, PTL DEF Spec
=============================================================================
