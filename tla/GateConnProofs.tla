--------------------------- MODULE GateConnProofs ---------------------------
(***************************************************************************)
(* Proofs about GateConn, for any backlogs, batches, number of senders and *)
(* bounds and any set of environment events.                               *)
(***************************************************************************)
EXTENDS GateConn, SequenceTheorems, TLAPS

USE GateConnAssumption
USE DEF connVars, readVars, writeVars, handlerVars, serverVars, senderVars

\* TypeOK in three parts, so that a step needs only the part it changes.
ConnType ==
    /\ state \in {"start", "handshake", "working", "closed"}
    /\ sock \in {"open", "peer_closed", "closed"}
    /\ timer \in [{"hs", "ack"} -> {"off", "armed", "expired"}]
    /\ main \in {"handshake", "ack", "open", "serve", "wait", "done"}
    /\ watcher \in {"off", "run", "done"}
    /\ cancelled \in BOOLEAN /\ registered \in BOOLEAN
    /\ active \in 0 .. 1

ReadType ==
    /\ reader \in {"off", "run", "done"}
    /\ recvClosed \in BOOLEAN /\ broken \in BOOLEAN
    /\ pending \in Seq(Kinds)
    /\ reads \in Nat /\ quiet \in Nat /\ accepted \in Nat /\ delivered \in Nat
    /\ chMessage \in Seq(Nat) /\ Len(chMessage) <= RecvBacklog

WriteType ==
    /\ writer \in {"off", "select", "tick", "flush", "done"}
    /\ sendClosed \in BOOLEAN /\ writeFailed \in BOOLEAN /\ timedOut \in BOOLEAN
    /\ ticks \in Nat
    /\ chSend \in Seq({"data", "kick", "hb"}) /\ Len(chSend) <= SendBacklog
    /\ sender \in [Senders -> {"idle", "push", "kick", "close"}]
    /\ calls \in [Senders -> 0 .. MaxCalls]

\* The three parts together are TypeOK.
LEMMA TypeOKSplit == TypeOK <=> ConnType /\ ReadType /\ WriteType
  BY DEF TypeOK, ConnType, ReadType, WriteType

\* Every step keeps the types of the connection and its count; the count goes
\* down only for a session that was counted.
LEMMA ConnTypeStep ==
    ASSUME ConnType, Lifecycle, [Next]_vars
    PROVE  ConnType'
<1> USE DEF ConnType, Lifecycle
<1>1. CASE HandshakeOk
  BY <1>1 DEF HandshakeOk, Disarm
<1>2. CASE HandshakeFails
  BY <1>2 DEF HandshakeFails, Disarm
<1>3. ASSUME NEW b \in Batches, AckOk(b) PROVE ConnType'
  BY <1>3 DEF AckOk, Disarm
<1>4. ASSUME NEW t \in {"hs", "ack"}, TimerExpires(t) PROVE ConnType'
  BY <1>4 DEF TimerExpires
<1>5. ASSUME NEW t \in {"hs", "ack"}, TimerCloses(t) PROVE ConnType'
  BY <1>5 DEF TimerCloses
<1>6. CASE ReadFails
  BY <1>6 DEF ReadFails, ReaderReturns
<1>7. CASE ProcessPacket
  BY <1>7 DEF ProcessPacket
<1>8. CASE ProcessInvalid
  BY <1>8 DEF ProcessInvalid, ReaderReturns
<1>9. ASSUME NEW b \in Batches, ReadData(b) PROVE ConnType'
  BY <1>9 DEF ReadData, ReaderReturns
<1>10. CASE WriterTick
  BY <1>10 DEF WriterTick
<1>11. CASE WriterHeartbeat
  BY <1>11 DEF WriterHeartbeat
<1>12. CASE WriterSend
  BY <1>12 DEF WriterSend
<1>13. CASE WriterCancelled
  BY <1>13 DEF WriterCancelled
<1>14. CASE FlushData
  BY <1>14 DEF FlushData, WriterReturns
<1>15. CASE FlushNil
  BY <1>15 DEF FlushNil, WriterReturns
<1>16. CASE WatcherReturns
  BY <1>16 DEF WatcherReturns
<1>17. CASE OpenSession
  <2>1. ~registered /\ active = 0
    BY <1>17 DEF OpenSession
  <2> QED BY <1>17, <2>1 DEF OpenSession
<1>18. CASE Recv
  BY <1>18 DEF Recv
<1>19. CASE HandlerReturns
  BY <1>19 DEF HandlerReturns
<1>20. CASE ServeReturns
  <2>1. registered /\ active = 1
    BY <1>20 DEF ServeReturns
  <2>2. active' = 0 /\ registered' = FALSE /\ main' = "done" /\ sock' = "closed"
    BY <1>20, <2>1 DEF ServeReturns
  <2>3. UNCHANGED <<state, cancelled, timer, watcher>>
    BY <1>20 DEF ServeReturns
  <2>4. registered' \in BOOLEAN
    BY <2>2, Zenon
  <2>5. active' \in 0 .. 1
    BY <2>2
  <2> QED BY <2>2, <2>3, <2>4, <2>5
<1>21. CASE PeerCloses
  BY <1>21 DEF PeerCloses
<1>22. CASE Shutdown
  BY <1>22 DEF Shutdown, Disarm
<1>23. ASSUME NEW s \in Senders, CallSend(s) PROVE ConnType'
  BY <1>23 DEF CallSend
<1>24. ASSUME NEW s \in Senders, Send(s) PROVE ConnType'
  BY <1>24 DEF Send
<1>25. ASSUME NEW s \in Senders, Close(s) PROVE ConnType'
  BY <1>25 DEF Close
<1>26. CASE UNCHANGED vars
  BY <1>26 DEF vars
<1> HIDE DEF ConnType, Lifecycle
<1> QED
  BY <1>1, <1>2, <1>3, <1>4, <1>5, <1>6, <1>7, <1>8, <1>9, <1>10, <1>11, <1>12, <1>13,
     <1>14, <1>15, <1>16, <1>17, <1>18, <1>19, <1>20, <1>21, <1>22, <1>23, <1>24, <1>25, <1>26
  DEF Next, Handshake, Reader, Writer, Serve, Caller

\* Every step keeps the types of the read side and chMessage within its
\* backlog.
LEMMA ReadTypeStep ==
    ASSUME ReadType, ConnType, [Next]_vars
    PROVE  ReadType'
<1> USE DEF ReadType, ConnType
<1>1. CASE HandshakeOk
  BY <1>1 DEF HandshakeOk, Disarm
<1>2. CASE HandshakeFails
  BY <1>2 DEF HandshakeFails, Disarm
<1>3. ASSUME NEW b \in Batches, AckOk(b) PROVE ReadType'
  BY <1>3 DEF AckOk, Disarm
<1>4. ASSUME NEW t \in {"hs", "ack"}, TimerExpires(t) PROVE ReadType'
  BY <1>4 DEF TimerExpires
<1>5. ASSUME NEW t \in {"hs", "ack"}, TimerCloses(t) PROVE ReadType'
  BY <1>5 DEF TimerCloses
<1>6. CASE ReadFails
  BY <1>6 DEF ReadFails, ReaderReturns
<1>7. CASE ProcessPacket
  <2>1. pending' \in Seq(Kinds) /\ quiet' \in Nat
    BY <1>7, HeadTailProperties DEF ProcessPacket
  <2>2. chMessage' \in Seq(Nat) /\ Len(chMessage') <= RecvBacklog /\ accepted' \in Nat
    <3>1. CASE UNCHANGED <<chMessage, accepted>>
      BY <3>1
    <3>2. CASE /\ Len(chMessage) < RecvBacklog /\ accepted' = accepted + 1
               /\ chMessage' = Append(chMessage, accepted + 1)
      <4>1. accepted + 1 \in Nat
        OBVIOUS
      <4>2. chMessage' \in Seq(Nat) /\ Len(chMessage') = Len(chMessage) + 1
        BY <3>2, <4>1, AppendProperties
      <4> QED BY <3>2, <4>1, <4>2, LenProperties
    <3> QED BY <1>7, <3>1, <3>2 DEF ProcessPacket
  <2> QED BY <1>7, <2>1, <2>2 DEF ProcessPacket
<1>8. CASE ProcessInvalid
  BY <1>8 DEF ProcessInvalid, ReaderReturns
<1>9. ASSUME NEW b \in Batches, ReadData(b) PROVE ReadType'
  <2>1. b \in Seq(Kinds)
    BY GateConnAssumption
  <2>2. CASE state = "closed"
    BY <1>9, <2>2 DEF ReadData, ReaderReturns
  <2>3. CASE state # "closed"
    <3>1. pending' = b /\ quiet' = 0 /\ reads' = reads + 1
      BY <1>9, <2>3 DEF ReadData, ReaderReturns
    <3>2. UNCHANGED <<reader, chMessage, recvClosed, accepted, delivered, broken>>
      BY <1>9, <2>3 DEF ReadData, ReaderReturns
    <3> QED BY <2>1, <3>1, <3>2
  <2> QED BY <2>2, <2>3
<1>10. CASE WriterTick
  BY <1>10 DEF WriterTick
<1>11. CASE WriterHeartbeat
  BY <1>11 DEF WriterHeartbeat
<1>12. CASE WriterSend
  BY <1>12 DEF WriterSend
<1>13. CASE WriterCancelled
  BY <1>13 DEF WriterCancelled
<1>14. CASE FlushData
  BY <1>14 DEF FlushData, WriterReturns
<1>15. CASE FlushNil
  BY <1>15 DEF FlushNil, WriterReturns
<1>16. CASE WatcherReturns
  BY <1>16 DEF WatcherReturns
<1>17. CASE OpenSession
  BY <1>17 DEF OpenSession
<1>18. CASE Recv
  <2>1. CASE chMessage # <<>>
    <3>1. /\ Head(chMessage) \in Nat /\ Tail(chMessage) \in Seq(Nat)
          /\ Len(Tail(chMessage)) = Len(chMessage) - 1
      BY <2>1, HeadTailProperties
    <3>2. /\ delivered' = Head(chMessage) /\ chMessage' = Tail(chMessage)
          /\ UNCHANGED broken
      BY <1>18, <2>1 DEF Recv
    <3>3. Len(chMessage') <= RecvBacklog
      BY <3>1, <3>2, LenProperties
    <3> QED BY <1>18, <3>1, <3>2, <3>3 DEF Recv
  <2>2. CASE chMessage = <<>>
    BY <1>18, <2>2 DEF Recv
  <2> QED BY <2>1, <2>2
<1>19. CASE HandlerReturns
  BY <1>19 DEF HandlerReturns
<1>20. CASE ServeReturns
  BY <1>20 DEF ServeReturns
<1>21. CASE PeerCloses
  BY <1>21 DEF PeerCloses
<1>22. CASE Shutdown
  BY <1>22 DEF Shutdown, Disarm
<1>23. ASSUME NEW s \in Senders, CallSend(s) PROVE ReadType'
  BY <1>23 DEF CallSend
<1>24. ASSUME NEW s \in Senders, Send(s) PROVE ReadType'
  BY <1>24 DEF Send
<1>25. ASSUME NEW s \in Senders, Close(s) PROVE ReadType'
  BY <1>25 DEF Close
<1>26. CASE UNCHANGED vars
  BY <1>26 DEF vars
<1> HIDE DEF ReadType, ConnType
<1> QED
  BY <1>1, <1>2, <1>3, <1>4, <1>5, <1>6, <1>7, <1>8, <1>9, <1>10, <1>11, <1>12, <1>13,
     <1>14, <1>15, <1>16, <1>17, <1>18, <1>19, <1>20, <1>21, <1>22, <1>23, <1>24, <1>25, <1>26
  DEF Next, Handshake, Reader, Writer, Serve, Caller

\* Every step keeps the types of the write side and chSend within its
\* backlog.
LEMMA WriteTypeStep ==
    ASSUME WriteType, ReadType, [Next]_vars
    PROVE  WriteType'
<1> USE DEF WriteType, ReadType
<1>1. CASE HandshakeOk
  BY <1>1 DEF HandshakeOk, Disarm
<1>2. CASE HandshakeFails
  BY <1>2 DEF HandshakeFails, Disarm
<1>3. ASSUME NEW b \in Batches, AckOk(b) PROVE WriteType'
  BY <1>3 DEF AckOk, Disarm
<1>4. ASSUME NEW t \in {"hs", "ack"}, TimerExpires(t) PROVE WriteType'
  BY <1>4 DEF TimerExpires
<1>5. ASSUME NEW t \in {"hs", "ack"}, TimerCloses(t) PROVE WriteType'
  BY <1>5 DEF TimerCloses
<1>6. CASE ReadFails
  BY <1>6 DEF ReadFails, ReaderReturns
<1>7. CASE ProcessPacket
  BY <1>7 DEF ProcessPacket
<1>8. CASE ProcessInvalid
  BY <1>8 DEF ProcessInvalid, ReaderReturns
<1>9. ASSUME NEW b \in Batches, ReadData(b) PROVE WriteType'
  BY <1>9 DEF ReadData, ReaderReturns
<1>10. CASE WriterTick
  <2>1. writer' \in {"flush", "tick"} /\ ticks' \in Nat
    BY <1>10 DEF WriterTick
  <2> QED BY <1>10, <2>1 DEF WriterTick
<1>11. CASE WriterHeartbeat
  BY <1>11 DEF WriterHeartbeat
<1>12. CASE WriterSend
  <2>1. chSend' \in Seq({"data", "kick", "hb"}) /\ Len(chSend') <= SendBacklog
    BY <1>12, HeadTailProperties, LenProperties DEF WriterSend
  <2>2. CASE UNCHANGED <<writer, writeFailed>>
    BY <1>12, <2>1, <2>2 DEF WriterSend
  <2>3. CASE writer' = "flush" /\ writeFailed' = TRUE
    BY <1>12, <2>1, <2>3 DEF WriterSend
  <2> QED BY <1>12, <2>2, <2>3 DEF WriterSend
<1>13. CASE WriterCancelled
  BY <1>13 DEF WriterCancelled
<1>14. CASE FlushData
  <2>1. chSend' \in Seq({"data", "kick", "hb"}) /\ Len(chSend') <= SendBacklog
    BY <1>14, HeadTailProperties, LenProperties DEF FlushData
  <2>2. CASE UNCHANGED <<writer, ticks, sendClosed, writeFailed, timedOut, senderVars>>
    BY <2>1, <2>2
  <2>3. CASE writeFailed' = TRUE /\ WriterReturns
    BY <2>1, <2>3 DEF WriterReturns
  <2> QED BY <1>14, <2>2, <2>3 DEF FlushData
<1>15. CASE FlushNil
  BY <1>15 DEF FlushNil, WriterReturns
<1>16. CASE WatcherReturns
  BY <1>16 DEF WatcherReturns
<1>17. CASE OpenSession
  BY <1>17 DEF OpenSession
<1>18. CASE Recv
  BY <1>18 DEF Recv
<1>19. CASE HandlerReturns
  BY <1>19 DEF HandlerReturns
<1>20. CASE ServeReturns
  BY <1>20 DEF ServeReturns
<1>21. CASE PeerCloses
  BY <1>21 DEF PeerCloses
<1>22. CASE Shutdown
  BY <1>22 DEF Shutdown, Disarm
<1>23. ASSUME NEW s \in Senders, CallSend(s) PROVE WriteType'
  BY <1>23 DEF CallSend
<1>24. ASSUME NEW s \in Senders, Send(s) PROVE WriteType'
  <2>1. chSend' \in Seq({"data", "kick", "hb"}) /\ Len(chSend') <= SendBacklog
    <3>1. CASE UNCHANGED chSend
      BY <3>1
    <3>2. CASE \E k \in {"data", "kick"} :
                  Len(chSend) < SendBacklog /\ chSend' = Append(chSend, k)
      BY <3>2, AppendProperties, LenProperties
    <3> QED BY <1>24, <3>1, <3>2 DEF Send
  <2>2. sender' \in [Senders -> {"idle", "push", "kick", "close"}]
    BY <1>24 DEF Send
  <2> QED BY <1>24, <2>1, <2>2 DEF Send
<1>25. ASSUME NEW s \in Senders, Close(s) PROVE WriteType'
  BY <1>25 DEF Close
<1>26. CASE UNCHANGED vars
  BY <1>26 DEF vars
<1> HIDE DEF WriteType, ReadType
<1> QED
  BY <1>1, <1>2, <1>3, <1>4, <1>5, <1>6, <1>7, <1>8, <1>9, <1>10, <1>11, <1>12, <1>13,
     <1>14, <1>15, <1>16, <1>17, <1>18, <1>19, <1>20, <1>21, <1>22, <1>23, <1>24, <1>25, <1>26
  DEF Next, Handshake, Reader, Writer, Serve, Caller

\* Every step keeps the life of the connection in order.
LEMMA LifeStep ==
    ASSUME ConnType, ReadType, WriteType, Lifecycle, [Next]_vars
    PROVE  Lifecycle'
<1> USE DEF ConnType, ReadType, WriteType, Lifecycle
<1>1. CASE HandshakeOk
  BY <1>1 DEF HandshakeOk, Disarm
<1>2. CASE HandshakeFails
  BY <1>2 DEF HandshakeFails, Disarm
<1>3. ASSUME NEW b \in Batches, AckOk(b) PROVE Lifecycle'
  BY <1>3 DEF AckOk, Disarm
<1>4. ASSUME NEW t \in {"hs", "ack"}, TimerExpires(t) PROVE Lifecycle'
  BY <1>4 DEF TimerExpires
<1>5. ASSUME NEW t \in {"hs", "ack"}, TimerCloses(t) PROVE Lifecycle'
  BY <1>5 DEF TimerCloses
<1>6. CASE ReadFails
  BY <1>6 DEF ReadFails, ReaderReturns
<1>7. CASE ProcessPacket
  BY <1>7 DEF ProcessPacket
<1>8. CASE ProcessInvalid
  BY <1>8 DEF ProcessInvalid, ReaderReturns
<1>9. ASSUME NEW b \in Batches, ReadData(b) PROVE Lifecycle'
  <2>1. CASE state = "closed"
    <3>1. /\ reader = "run" /\ reader' = "done"
          /\ UNCHANGED <<writer, watcher, main, sock, registered, active>>
      BY <1>9, <2>1 DEF ReadData, ReaderReturns
    <3> QED BY <3>1
  <2>2. CASE state # "closed"
    <3>1. UNCHANGED <<reader, writer, watcher, main, sock, registered, active>>
      BY <1>9, <2>2 DEF ReadData, ReaderReturns
    <3> QED BY <3>1
  <2> QED BY <2>1, <2>2
<1>10. CASE WriterTick
  BY <1>10 DEF WriterTick
<1>11. CASE WriterHeartbeat
  BY <1>11 DEF WriterHeartbeat
<1>12. CASE WriterSend
  BY <1>12 DEF WriterSend
<1>13. CASE WriterCancelled
  BY <1>13 DEF WriterCancelled
<1>14. CASE FlushData
  <2>1. UNCHANGED <<reader, watcher, main, serverVars>> /\ writer = "flush"
    BY <1>14 DEF FlushData, WriterReturns
  <2>2. main \notin {"handshake", "ack", "done"}
    BY <2>1
  <2> QED BY <2>1, <2>2
<1>15. CASE FlushNil
  BY <1>15 DEF FlushNil, WriterReturns
<1>16. CASE WatcherReturns
  BY <1>16 DEF WatcherReturns
<1>17. CASE OpenSession
  BY <1>17 DEF OpenSession
<1>18. CASE Recv
  BY <1>18 DEF Recv
<1>19. CASE HandlerReturns
  BY <1>19 DEF HandlerReturns
<1>20. CASE ServeReturns
  BY <1>20 DEF ServeReturns
<1>21. CASE PeerCloses
  BY <1>21 DEF PeerCloses
<1>22. CASE Shutdown
  BY <1>22 DEF Shutdown, Disarm
<1>23. ASSUME NEW s \in Senders, CallSend(s) PROVE Lifecycle'
  BY <1>23 DEF CallSend
<1>24. ASSUME NEW s \in Senders, Send(s) PROVE Lifecycle'
  BY <1>24 DEF Send
<1>25. ASSUME NEW s \in Senders, Close(s) PROVE Lifecycle'
  BY <1>25 DEF Close
<1>26. CASE UNCHANGED vars
  BY <1>26 DEF vars
<1> HIDE DEF ConnType, ReadType, WriteType, Lifecycle
<1> QED
  BY <1>1, <1>2, <1>3, <1>4, <1>5, <1>6, <1>7, <1>8, <1>9, <1>10, <1>11, <1>12, <1>13,
     <1>14, <1>15, <1>16, <1>17, <1>18, <1>19, <1>20, <1>21, <1>22, <1>23, <1>24, <1>25, <1>26
  DEF Next, Handshake, Reader, Writer, Serve, Caller

\* Every step keeps chSend empty and closed once the write goroutine has
\* ended without a failed Write.
LEMMA SendStep ==
    ASSUME WriteType, SendQueue, [Next]_vars
    PROVE  SendQueue'
<1> USE DEF WriteType, SendQueue
<1>1. CASE HandshakeOk
  BY <1>1 DEF HandshakeOk, Disarm
<1>2. CASE HandshakeFails
  BY <1>2 DEF HandshakeFails, Disarm
<1>3. ASSUME NEW b \in Batches, AckOk(b) PROVE SendQueue'
  BY <1>3 DEF AckOk, Disarm
<1>4. ASSUME NEW t \in {"hs", "ack"}, TimerExpires(t) PROVE SendQueue'
  BY <1>4 DEF TimerExpires
<1>5. ASSUME NEW t \in {"hs", "ack"}, TimerCloses(t) PROVE SendQueue'
  BY <1>5 DEF TimerCloses
<1>6. CASE ReadFails
  BY <1>6 DEF ReadFails, ReaderReturns
<1>7. CASE ProcessPacket
  BY <1>7 DEF ProcessPacket
<1>8. CASE ProcessInvalid
  BY <1>8 DEF ProcessInvalid, ReaderReturns
<1>9. ASSUME NEW b \in Batches, ReadData(b) PROVE SendQueue'
  BY <1>9 DEF ReadData, ReaderReturns
<1>10. CASE WriterTick
  BY <1>10 DEF WriterTick
<1>11. CASE WriterHeartbeat
  BY <1>11 DEF WriterHeartbeat
<1>12. CASE WriterSend
  BY <1>12 DEF WriterSend
<1>13. CASE WriterCancelled
  BY <1>13 DEF WriterCancelled
<1>14. CASE FlushData
  BY <1>14 DEF FlushData, WriterReturns
<1>15. CASE FlushNil
  BY <1>15 DEF FlushNil, WriterReturns
<1>16. CASE WatcherReturns
  BY <1>16 DEF WatcherReturns
<1>17. CASE OpenSession
  BY <1>17 DEF OpenSession
<1>18. CASE Recv
  BY <1>18 DEF Recv
<1>19. CASE HandlerReturns
  BY <1>19 DEF HandlerReturns
<1>20. CASE ServeReturns
  BY <1>20 DEF ServeReturns
<1>21. CASE PeerCloses
  BY <1>21 DEF PeerCloses
<1>22. CASE Shutdown
  BY <1>22 DEF Shutdown, Disarm
<1>23. ASSUME NEW s \in Senders, CallSend(s) PROVE SendQueue'
  BY <1>23 DEF CallSend
<1>24. ASSUME NEW s \in Senders, Send(s) PROVE SendQueue'
  BY <1>24 DEF Send
<1>25. ASSUME NEW s \in Senders, Close(s) PROVE SendQueue'
  BY <1>25 DEF Close
<1>26. CASE UNCHANGED vars
  BY <1>26 DEF vars
<1> HIDE DEF WriteType, SendQueue
<1> QED
  BY <1>1, <1>2, <1>3, <1>4, <1>5, <1>6, <1>7, <1>8, <1>9, <1>10, <1>11, <1>12, <1>13,
     <1>14, <1>15, <1>16, <1>17, <1>18, <1>19, <1>20, <1>21, <1>22, <1>23, <1>24, <1>25, <1>26
  DEF Next, Handshake, Reader, Writer, Serve, Caller

\* Every step keeps chMessage the messages accepted and not delivered.
LEMMA RecvStep ==
    ASSUME ReadType, Lifecycle, RecvQueue, [Next]_vars
    PROVE  RecvQueue'
<1> USE DEF ReadType, Lifecycle, RecvQueue
<1>1. CASE HandshakeOk
  BY <1>1 DEF HandshakeOk, Disarm
<1>2. CASE HandshakeFails
  BY <1>2 DEF HandshakeFails, Disarm
<1>3. ASSUME NEW b \in Batches, AckOk(b) PROVE RecvQueue'
  <2>1. UNCHANGED <<chMessage, accepted, recvClosed, handlerVars>> /\ reader = "off"
    BY <1>3 DEF AckOk
  <2>2. ~recvClosed
    BY <2>1
  <2> QED BY <2>1, <2>2
<1>4. ASSUME NEW t \in {"hs", "ack"}, TimerExpires(t) PROVE RecvQueue'
  BY <1>4 DEF TimerExpires
<1>5. ASSUME NEW t \in {"hs", "ack"}, TimerCloses(t) PROVE RecvQueue'
  BY <1>5 DEF TimerCloses
<1>6. CASE ReadFails
  BY <1>6 DEF ReadFails, ReaderReturns
<1>7. CASE ProcessPacket
  <2>1. UNCHANGED <<reader, recvClosed, delivered, broken>> /\ ~recvClosed
    BY <1>7 DEF ProcessPacket
  <2>2. CASE UNCHANGED <<chMessage, accepted>>
    BY <2>1, <2>2
  <2>3. CASE accepted' = accepted + 1 /\ chMessage' = Append(chMessage, accepted + 1)
    <3>1. /\ Len(chMessage') = Len(chMessage) + 1 /\ Len(chMessage) \in Nat
          /\ \A i \in 1 .. Len(chMessage) : chMessage'[i] = chMessage[i]
          /\ chMessage'[Len(chMessage) + 1] = accepted + 1
      BY <2>3, AppendProperties, LenProperties
    <3>2. accepted' = delivered' + Len(chMessage')
      BY <2>1, <2>3, <3>1
    <3>3. \A i \in 1 .. Len(chMessage) : chMessage'[i] = delivered' + i
      BY <2>1, <3>1
    <3>4. chMessage'[Len(chMessage) + 1] = delivered' + (Len(chMessage) + 1)
      BY <2>1, <3>1
    <3>5. \A i \in 1 .. Len(chMessage') : i \in 1 .. Len(chMessage) \/ i = Len(chMessage) + 1
      BY <3>1
    <3> HIDE DEF RecvQueue
    <3>6. \A i \in 1 .. Len(chMessage') : chMessage'[i] = delivered' + i
      BY <3>3, <3>4, <3>5
    <3> QED BY <2>1, <3>2, <3>6 DEF RecvQueue
  <2> QED BY <1>7, <2>2, <2>3 DEF ProcessPacket
<1>8. CASE ProcessInvalid
  BY <1>8 DEF ProcessInvalid, ReaderReturns
<1>9. ASSUME NEW b \in Batches, ReadData(b) PROVE RecvQueue'
  <2>1. UNCHANGED <<chMessage, accepted, delivered, broken>>
    BY <1>9 DEF ReadData, ReaderReturns
  <2>2. recvClosed' => reader' = "done"
    BY <1>9 DEF ReadData, ReaderReturns
  <2>3. recvClosed => recvClosed'
    BY <1>9 DEF ReadData, ReaderReturns
  <2> QED BY <2>1, <2>2, <2>3
<1>10. CASE WriterTick
  BY <1>10 DEF WriterTick
<1>11. CASE WriterHeartbeat
  BY <1>11 DEF WriterHeartbeat
<1>12. CASE WriterSend
  BY <1>12 DEF WriterSend
<1>13. CASE WriterCancelled
  BY <1>13 DEF WriterCancelled
<1>14. CASE FlushData
  <2>1. UNCHANGED <<readVars, handlerVars>>
    BY <1>14 DEF FlushData, WriterReturns
  <2> QED BY <2>1
<1>15. CASE FlushNil
  BY <1>15 DEF FlushNil, WriterReturns
<1>16. CASE WatcherReturns
  BY <1>16 DEF WatcherReturns
<1>17. CASE OpenSession
  BY <1>17 DEF OpenSession
<1>18. CASE Recv
  <2>1. UNCHANGED <<reader, recvClosed, accepted>> /\ ~broken
    BY <1>18 DEF Recv
  <2>2. CASE chMessage # <<>>
    <3>1. /\ delivered' = Head(chMessage) /\ chMessage' = Tail(chMessage)
          /\ UNCHANGED broken
      BY <1>18, <2>2 DEF Recv
    <3>2. /\ Len(chMessage') = Len(chMessage) - 1 /\ Len(chMessage) \in Nat \ {0}
          /\ \A i \in 1 .. Len(chMessage') : chMessage'[i] = chMessage[i + 1]
      BY <2>2, <3>1, HeadTailProperties, EmptySeq, LenProperties
    <3>3. delivered' = delivered + 1
      BY <2>2, <3>1, <3>2
    <3>4. accepted' = delivered' + Len(chMessage')
      BY <2>1, <3>2, <3>3
    <3>5. \A i \in 1 .. Len(chMessage') : chMessage'[i] = delivered' + i
      BY <3>2, <3>3
    <3> QED BY <2>1, <3>1, <3>4, <3>5
  <2>3. CASE chMessage = <<>>
    BY <1>18, <2>1, <2>3 DEF Recv
  <2> QED BY <2>2, <2>3
<1>19. CASE HandlerReturns
  BY <1>19 DEF HandlerReturns
<1>20. CASE ServeReturns
  BY <1>20 DEF ServeReturns
<1>21. CASE PeerCloses
  BY <1>21 DEF PeerCloses
<1>22. CASE Shutdown
  BY <1>22 DEF Shutdown, Disarm
<1>23. ASSUME NEW s \in Senders, CallSend(s) PROVE RecvQueue'
  BY <1>23 DEF CallSend
<1>24. ASSUME NEW s \in Senders, Send(s) PROVE RecvQueue'
  BY <1>24 DEF Send
<1>25. ASSUME NEW s \in Senders, Close(s) PROVE RecvQueue'
  BY <1>25 DEF Close
<1>26. CASE UNCHANGED vars
  BY <1>26 DEF vars
<1> HIDE DEF ReadType, Lifecycle, RecvQueue
<1> QED
  BY <1>1, <1>2, <1>3, <1>4, <1>5, <1>6, <1>7, <1>8, <1>9, <1>10, <1>11, <1>12, <1>13,
     <1>14, <1>15, <1>16, <1>17, <1>18, <1>19, <1>20, <1>21, <1>22, <1>23, <1>24, <1>25, <1>26
  DEF Next, Handshake, Reader, Writer, Serve, Caller

\* A connection whose handshake has not begun satisfies the invariant.
LEMMA ConnInit == Init => ConnInv
<1> SUFFICES ASSUME Init PROVE ConnInv
  OBVIOUS
<1>1. ConnType
  <2>1. timer \in [{"hs", "ack"} -> {"off", "armed", "expired"}]
    BY DEF Init
  <2>2. cancelled \in BOOLEAN /\ registered \in BOOLEAN
    BY Zenon DEF Init
  <2>3. active \in 0 .. 1
    BY DEF Init
  <2> QED BY <2>1, <2>2, <2>3 DEF Init, ConnType
<1>2. Lifecycle
  BY DEF Init, Lifecycle
<1>3. ReadType
  <2>1. pending \in Seq(Kinds) /\ chMessage \in Seq(Nat) /\ Len(chMessage) = 0
    BY EmptySeq DEF Init
  <2>2. recvClosed \in BOOLEAN /\ broken \in BOOLEAN
    BY Zenon DEF Init
  <2>3. reads \in Nat /\ quiet \in Nat /\ accepted \in Nat /\ delivered \in Nat
    BY DEF Init
  <2> QED BY <2>1, <2>2, <2>3 DEF Init, ReadType
<1>4. RecvQueue
  <2>1. Len(chMessage) = 0
    BY EmptySeq DEF Init
  <2> QED BY <2>1 DEF Init, RecvQueue
<1>5. WriteType
  <2>1. chSend \in Seq({"data", "kick", "hb"}) /\ Len(chSend) = 0
    BY EmptySeq DEF Init
  <2>2. sendClosed \in BOOLEAN /\ writeFailed \in BOOLEAN /\ timedOut \in BOOLEAN
    BY Zenon DEF Init
  <2>3. sender \in [Senders -> {"idle", "push", "kick", "close"}]
    BY DEF Init
  <2>4. calls \in [Senders -> 0 .. MaxCalls] /\ ticks \in Nat
    BY DEF Init
  <2> QED BY <2>1, <2>2, <2>3, <2>4 DEF Init, WriteType
<1>6. SendQueue
  BY DEF Init, SendQueue
<1> QED BY <1>1, <1>2, <1>3, <1>4, <1>5, <1>6, TypeOKSplit DEF ConnInv

\* The invariant is inductive.
LEMMA ConnStep == ConnInv /\ [Next]_vars => ConnInv'
<1> SUFFICES ASSUME ConnInv, [Next]_vars PROVE ConnInv'
  OBVIOUS
<1>1. ConnType /\ ReadType /\ WriteType /\ Lifecycle /\ SendQueue /\ RecvQueue
  BY TypeOKSplit DEF ConnInv
<1>2. ConnType' /\ ReadType' /\ WriteType'
  BY <1>1, ConnTypeStep, ReadTypeStep, WriteTypeStep
<1>3. TypeOK'
  BY <1>2 DEF TypeOK, ConnType, ReadType, WriteType
<1>4. Lifecycle' /\ SendQueue' /\ RecvQueue'
  BY <1>1, LifeStep, SendStep, RecvStep
<1> QED BY <1>3, <1>4 DEF ConnInv

\* Every state of a connection has the types, the life cycle and the two
\* queues as ConnInv says (conn.go: serve, send, Recv).
THEOREM ConnInvariant == Spec => []ConnInv
  BY ConnInit, ConnStep, PTL DEF Spec

\* A write goroutine that ends without a failed Write has written everything
\* that send accepted (conn.go:445-468).
THEOREM AllSendsFlushed == Spec => []SendsFlushed
<1>1. ConnInv => SendsFlushed
  BY DEF ConnInv, SendQueue, SendsFlushed
<1> QED BY <1>1, ConnInvariant, PTL

\* Recv reports ErrBrokenPipe only after every accepted message was delivered
\* (conn.go:575-593).
THEOREM AllMessagesDelivered == Spec => []RecvDrains
<1>1. ConnInv => RecvDrains
  BY EmptySeq DEF ConnInv, TypeOK, RecvQueue, RecvDrains
<1> QED BY <1>1, ConnInvariant, PTL
=============================================================================
