--------------------------- MODULE HallLoopProofs ---------------------------
(***************************************************************************)
(* Proofs about HallLoop, for channels of any size, any number of calls of *)
(* Push, any set of environments and any bounds.                           *)
(***************************************************************************)
EXTENDS HallLoop, TLAPS

\* The assumptions on the sizes, one by one.
LEMMA Sizes ==
    /\ RequestBufferSize \in Nat \ {0} /\ ResponseBufferSize \in Nat \ {0}
    /\ PushBufferSize \in Nat \ {0} /\ SessionActorBuffSize \in Nat \ {0}
    /\ MaxRequests \in Nat \ {0} /\ MaxReplies \in Nat \ {0} /\ MaxEvents \in Nat
  BY LoopAssumption

\* TypeOK by groups of variables: those of the stream and the reader,
ClientType ==
    /\ stream \in {"start", "select", "flush", "defer", "exit", "closing", "done"}
    /\ response \in {"nil", "open", "closed"} /\ queued \in 0..ResponseBufferSize
    /\ reader \in {"none", "send", "recv", "done"} /\ client \in {"playing", "gone"}
    /\ put \in 0..MaxRequests /\ taken \in 0..put /\ put - taken <= RequestBufferSize
    /\ lost \in BOOLEAN /\ recvErr \in BOOLEAN

\* those of the workers,
WorkType ==
    /\ at \in [Workers -> Labels] /\ job \in {"tick", "request"} /\ left \in 0..MaxReplies
    /\ mu \in Workers \cup {"free"}
    /\ \A g \in Workers : at[g] \in {"busy", "pushing", "reply", "hung"} <=> mu = g

\* and all others.
OuterType ==
    /\ peerPush \in {"nil", "open", "closed"} /\ pushes \in 0..PushBufferSize
    /\ inbox \in 0..SessionActorBuffSize
    /\ isClosed \in BOOLEAN /\ cancelled \in BOOLEAN /\ ctxDone \in BOOLEAN
    /\ inDict \in BOOLEAN
    /\ closing \in {"none", "logout", "dict", "done"}
    /\ kick \in {"idle", "send", "close", "done"}
    /\ pusher \in [Pushers -> {"idle", "found", "hung", "done", "error", "nosession"}]
    /\ env \in Environments /\ events \in 0..MaxEvents

\* TypeOK is the three of them.
LEMMA TypeSplit == TypeOK <=> ClientType /\ WorkType /\ OuterType
  BY DEF TypeOK, ClientType, WorkType, OuterType

\* What the client sees: the stream, the reader and the channel between.
ClientPart == ClientType /\ FlushDelivers /\ ReaderShape /\ FlushedIsClosed

\* The inductive invariant in three parts that different steps touch.
LEMMA InvSplit ==
    LoopIInv <=> ClientPart /\ WorkType /\ WorkersShape /\ OuterType
  BY TypeSplit DEF LoopIInv, LoopInv, ClientPart

-----------------------------------------------------------------------------
(* The stream, the reader and the responses.                               *)

\* A response enters an open channel with room, or the sender is told that
\* the channel is closed: neither disturbs what a flush has done.
LEMMA SendKeeps ==
    ASSUME ClientPart, UNCHANGED <<streamVars, response, readVars, taken>>,
           \/ response = "open" /\ queued < ResponseBufferSize /\ queued' = queued + 1
           \/ UNCHANGED queued
    PROVE  ClientPart'
  BY Sizes DEF ClientPart, ClientType, FlushDelivers, ReaderShape, FlushedIsClosed,
     streamVars, readVars

\* Every step keeps the client's side.
LEMMA ClientStep == ClientPart /\ [Next]_vars => ClientPart'
<1> SUFFICES ASSUME ClientPart, [Next]_vars PROVE ClientPart'
  OBVIOUS
<1>u. CASE UNCHANGED clientVars
  BY <1>u DEF ClientPart, ClientType, FlushDelivers, ReaderShape, FlushedIsClosed,
     clientVars, streamVars, readVars
<1>1. CASE ReaderStep
  <2> USE Sizes DEF ClientPart, ClientType, FlushDelivers, ReaderShape, FlushedIsClosed,
                    streamVars
  <2>1. CASE ReaderSend
    BY <2>1 DEF ReaderSend
  <2>2. CASE ReaderRecv
    BY <2>2 DEF ReaderRecv
  <2>3. CASE ReaderFails
    <3>1. recvErr' \in BOOLEAN /\ ~recvErr
      BY <2>3, Zenon DEF ReaderFails
    <3> QED BY <2>3, <3>1 DEF ReaderFails
  <2> QED BY <1>1, <2>1, <2>2, <2>3 DEF ReaderStep
<1>2. CASE StreamStep
  <2> USE Sizes DEF ClientPart, ClientType, FlushDelivers, ReaderShape, FlushedIsClosed,
                    streamVars, readVars
  <2>1. CASE StartReader
    BY <2>1 DEF StartReader
  <2>2. CASE Forward
    BY <2>2 DEF Forward
  <2>3. CASE StreamCancelled
    BY <2>3 DEF StreamCancelled
  <2>4. CASE Flushed
    BY <2>4 DEF Flushed
  <2>5. CASE StreamBroken
    BY <2>5 DEF StreamBroken
  <2>6. CASE StreamDefer
    <3>1. lost' \in BOOLEAN /\ (lost' => recvErr)
      <4>1. CASE lost' = TRUE /\ queued > 0
        BY <2>6, <4>1 DEF StreamDefer
      <4>2. CASE lost' = lost
        BY <2>6, <4>2 DEF StreamDefer
      <4> QED BY <2>6, <4>1, <4>2 DEF StreamDefer
    <3>2. queued' \in 0..ResponseBufferSize /\ response' \in {"nil", "open", "closed"}
      BY <2>6 DEF StreamDefer
    <3>3. ~recvErr => queued' = 0 /\ response' = "closed"
      BY <2>6 DEF StreamDefer
    <3> QED BY <2>6, <3>1, <3>2, <3>3 DEF StreamDefer
  <2>7. CASE StreamClose
    BY <2>7 DEF StreamClose
  <2>8. CASE StreamReturns
    BY <2>8 DEF StreamReturns
  <2> QED BY <1>2, <2>1, <2>2, <2>3, <2>4, <2>5, <2>6, <2>7, <2>8 DEF StreamStep
<1>3. CASE ClientGone
  BY <1>3 DEF ClientGone, ClientPart, ClientType, FlushDelivers, ReaderShape,
     FlushedIsClosed, readVars
<1>4. CASE TakeRequest
  BY <1>4, Sizes DEF TakeRequest, ClientPart, ClientType, FlushDelivers, ReaderShape,
     FlushedIsClosed, streamVars, readVars
<1>5. CASE Reply
  BY <1>5, SendKeeps DEF Reply
<1>6. CASE KickStep
  BY <1>6, <1>u, SendKeeps DEF KickStep, KickSend, KickClose
<1>7. ASSUME NEW g \in Workers, WorkStep(g)
      PROVE  ClientPart'
  BY <1>7, <1>u, SendKeeps DEF WorkStep, Acquire, Yield, SessionPush, SessionPushed, Finish,
     WorkerEnds
<1>8. CASE CloseStep \/ LoopStep
  BY <1>8, <1>u, <1>4, <1>5 DEF CloseStep, Logout, CloseDict, LoopStep, Serve, Tick, LoopEnds
<1>9. CASE Outside
  BY <1>9, <1>u, <1>3 DEF Outside, StopCloses, ActorCall, KickLoad, PushLoad
<1>10. CASE TakePush \/ TakeActorRequest \/ \E p \in Pushers : PushSend(p)
  BY <1>10, <1>u DEF TakePush, TakeActorRequest, PushSend
<1>11. CASE UNCHANGED vars
  BY <1>11, <1>u DEF vars
<1> QED BY <1>1, <1>2, <1>6, <1>7, <1>8, <1>9, <1>10, <1>11 DEF Next

-----------------------------------------------------------------------------
(* The workers and session.mu.                                             *)

WorkPart == WorkType /\ WorkersShape

\* A worker goes from one place to another without touching session.mu.
LEMMA GotoKeeps ==
    ASSUME WorkPart, NEW g \in Workers, NEW l \in Labels, Goto(g, l),
           at[g] # "none", l \notin {"none", "reply"}, mu' = mu, left' = left,
           job' \in {"tick", "request"},
           at[g] \in {"busy", "pushing", "reply", "hung"} <=>
              l \in {"busy", "pushing", "reply", "hung"}
    PROVE  WorkPart'
  BY Sizes DEF WorkPart, WorkType, WorkersShape, Goto, Workers, Labels

\* Every step keeps session.mu with the one worker that runs the player's code.
LEMMA WorkersStep == WorkPart /\ [Next]_vars => WorkPart'
<1> SUFFICES ASSUME WorkPart, [Next]_vars PROVE WorkPart'
  OBVIOUS
<1>u. CASE UNCHANGED workVars
  BY <1>u DEF WorkPart, WorkType, WorkersShape, workVars
<1>i. \A g \in Workers : Idle(g) \in {"blind", "select"}
  BY DEF Idle
<1>l. {"blind", "select", "want", "busy", "pushing", "hung", "done"} \subseteq Labels
      /\ "loop" \in Workers /\ "push" \in Workers /\ "actor" \in Workers
      /\ job \in {"tick", "request"}
  BY DEF Labels, Workers, WorkPart, WorkType
<1>1. CASE Serve
  BY <1>1, <1>i DEF Serve, WorkPart, WorkType, WorkersShape, Workers, Labels
<1>2. CASE Tick
  <2>1. (IF isClosed THEN Idle("loop") ELSE "want") \in {"blind", "select", "want"}
    BY <1>i, <1>l
  <2> QED BY <1>2, <1>l, <2>1, GotoKeeps DEF Tick
<1>3. CASE TakeRequest
  BY <1>3, <1>l, <1>u, GotoKeeps DEF TakeRequest, workVars
<1>4. CASE TakePush
  BY <1>4, <1>l, GotoKeeps DEF TakePush
<1>5. CASE TakeActorRequest
  BY <1>5, <1>l, GotoKeeps DEF TakeActorRequest
<1>6. CASE Reply
  <2>1. left \in 1..MaxReplies /\ mu = "loop"
    BY <1>6, <1>l, Sizes DEF Reply, WorkPart, WorkType, WorkersShape
  <2>2. left' \in 0..MaxReplies
    BY <1>6, <2>1, Sizes DEF Reply
  <2>3. CASE left' = 0
    BY <1>6, <1>i, <1>l, <2>1, <2>2, <2>3 DEF Reply, Goto, WorkPart, WorkType, WorkersShape,
       Workers, Labels
  <2>4. CASE left' # 0
    BY <1>6, <2>2, <2>4, Sizes DEF Reply, WorkPart, WorkType, WorkersShape
  <2> QED BY <2>3, <2>4
<1>7. CASE LoopEnds
  BY <1>7, <1>l, GotoKeeps DEF LoopEnds
<1>8. ASSUME NEW g \in Workers, WorkStep(g)
      PROVE  WorkPart'
  <2>1. CASE Acquire(g)
    BY <2>1 DEF Acquire, Goto, WorkPart, WorkType, WorkersShape, Workers, Labels
  <2>2. CASE Yield(g)
    BY <2>2 DEF Yield, Goto, WorkPart, WorkType, WorkersShape, Workers, Labels
  <2>3. CASE SessionPush(g)
    BY <2>3, <1>l, GotoKeeps DEF SessionPush
  <2>4. CASE SessionPushed(g)
    BY <2>4, <1>l, GotoKeeps DEF SessionPushed
  <2>5. CASE Finish(g)
    <3>1. CASE mu' = "free" /\ Goto(g, Idle(g)) /\ UNCHANGED left
      BY <2>5, <3>1, <1>i DEF Finish, Goto, WorkPart, WorkType, WorkersShape, Workers, Labels
    <3>2. CASE g = "loop" /\ left' \in 1..MaxReplies /\ Goto(g, "reply") /\ UNCHANGED mu
      BY <2>5, <3>2, Sizes DEF Finish, Goto, WorkPart, WorkType, WorkersShape, Workers, Labels
    <3> QED BY <2>5, <3>1, <3>2 DEF Finish
  <2>6. CASE WorkerEnds(g)
    BY <2>6, <1>l, GotoKeeps DEF WorkerEnds
  <2> QED BY <1>8, <2>1, <2>2, <2>3, <2>4, <2>5, <2>6 DEF WorkStep
<1>9. CASE CloseStep \/ ReaderStep \/ KickStep \/ Outside
  BY <1>9, <1>u DEF CloseStep, Logout, CloseDict, ReaderStep, ReaderSend, ReaderRecv,
     ReaderFails, KickStep, KickSend, KickClose, Outside, ClientGone, StopCloses, ActorCall,
     KickLoad, PushLoad
<1>10. CASE StreamStep
  BY <1>10, <1>u DEF StreamStep, StartReader, Forward, StreamCancelled, Flushed,
     StreamBroken, StreamDefer, StreamClose, StreamReturns
<1>11. CASE \E p \in Pushers : PushSend(p)
  BY <1>11, <1>u DEF PushSend
<1>12. CASE UNCHANGED vars
  BY <1>12, <1>u DEF vars
<1> QED BY <1>1, <1>2, <1>3, <1>4, <1>5, <1>6, <1>7, <1>8, <1>9, <1>10, <1>11, <1>12
    DEF Next, LoopStep

-----------------------------------------------------------------------------
(* Everything around them, and the theorem.                                *)

\* The first half of Close keeps the types.
LEMMA BeginCloseType ==
    ASSUME OuterType, BeginClose, UNCHANGED <<pushVars, callVars, events>>
    PROVE  OuterType'
<1>1. isClosed' \in BOOLEAN /\ cancelled' \in BOOLEAN
  BY Zenon DEF BeginClose
<1> QED BY <1>1 DEF OuterType, BeginClose, pushVars, callVars

\* Every step keeps the types of the channels to serve, of Close, of the
\* callers from outside and of the counters.
LEMMA OuterStep == OuterType /\ [Next]_vars => OuterType'
<1> SUFFICES ASSUME OuterType, [Next]_vars PROVE OuterType'
  OBVIOUS
<1>u. CASE UNCHANGED <<outerVars, events>>
  BY <1>u DEF OuterType, outerVars, pushVars, closeVars, callVars
<1>e. ASSUME NEW x, Event(x), UNCHANGED outerVars
      PROVE  OuterType'
  BY <1>e, Sizes DEF Event, OuterType, outerVars, pushVars, closeVars, callVars
<1>1. CASE CloseStep
  <2>1. CASE Logout
    <3>1. ctxDone' \in BOOLEAN
      BY <2>1, Zenon DEF Logout
    <3> QED BY <2>1, <3>1 DEF Logout, OuterType, pushVars, callVars
  <2>2. CASE CloseDict
    <3>1. inDict' \in BOOLEAN
      BY <2>2, Zenon DEF CloseDict
    <3> QED BY <2>2, <3>1 DEF CloseDict, OuterType, pushVars, callVars
  <2> QED BY <1>1, <2>1, <2>2 DEF CloseStep
<1>2. CASE ReaderStep
  BY <1>2, <1>u DEF ReaderStep, ReaderSend, ReaderRecv, ReaderFails
<1>3. CASE StreamStep
  <2>1. CASE StreamClose
    <3>1. CASE BeginClose
      BY <2>1, <3>1, BeginCloseType DEF StreamClose
    <3>2. CASE cancelled' = TRUE /\ UNCHANGED <<isClosed, ctxDone, closing, inDict>>
      <4>1. cancelled' \in BOOLEAN
        BY <3>2, Zenon
      <4> QED BY <2>1, <3>2, <4>1 DEF StreamClose, OuterType, pushVars, callVars
    <3> QED BY <2>1, <3>1, <3>2 DEF StreamClose
  <2> QED BY <1>3, <1>u, <2>1 DEF StreamStep, StartReader, Forward, StreamCancelled, Flushed,
         StreamBroken, StreamDefer, StreamReturns
<1>4. CASE LoopStep
  <2>1. CASE Serve \/ LoopEnds
    BY <2>1 DEF Serve, LoopEnds, OuterType, closeVars, callVars
  <2>2. CASE Tick
    BY <2>2, <1>u, <1>e DEF Tick
  <2> QED BY <1>4, <1>u, <2>1, <2>2 DEF LoopStep, TakeRequest, Reply
<1>5. CASE KickStep
  <2>1. CASE KickSend
    BY <2>1 DEF KickSend, OuterType, pushVars, closeVars
  <2>2. CASE KickClose /\ isClosed
    BY <2>2 DEF KickClose, OuterType, pushVars, closeVars
  <2>3. CASE KickClose /\ ~isClosed
    <3>1. isClosed' \in BOOLEAN /\ cancelled' \in BOOLEAN
      BY <2>3, Zenon DEF KickClose, BeginClose
    <3> QED BY <2>3, <3>1 DEF KickClose, BeginClose, OuterType, pushVars
  <2> QED BY <1>5, <2>1, <2>2, <2>3 DEF KickStep
<1>6. CASE Outside
  <2>1. CASE ClientGone
    BY <2>1, <1>u DEF ClientGone
  <2>2. CASE StopCloses
    BY <2>2, BeginCloseType DEF StopCloses
  <2>3. CASE ActorCall
    BY <2>3, Sizes DEF ActorCall, Event, OuterType, closeVars, callVars
  <2>4. CASE KickLoad
    BY <2>4 DEF KickLoad, OuterType, pushVars, closeVars
  <2>5. ASSUME NEW p \in Pushers, PushLoad(p)
        PROVE  OuterType'
    BY <2>5 DEF PushLoad, OuterType, pushVars, closeVars
  <2> QED BY <1>6, <2>1, <2>2, <2>3, <2>4, <2>5 DEF Outside
<1>7. CASE TakePush
  BY <1>7, Sizes DEF TakePush, OuterType, closeVars, callVars
<1>8. CASE TakeActorRequest
  BY <1>8, Sizes DEF TakeActorRequest, OuterType, closeVars, callVars
<1>9. ASSUME NEW g \in Workers, WorkStep(g)
      PROVE  OuterType'
  BY <1>9, <1>u, <1>e DEF WorkStep, Acquire, Yield, SessionPush, SessionPushed, Finish,
     WorkerEnds
<1>10. ASSUME NEW p \in Pushers, PushSend(p)
       PROVE  OuterType'
  <2>1. pushes' \in 0..PushBufferSize
    BY <1>10, Sizes DEF PushSend, OuterType
  <2>2. pusher' \in [Pushers -> {"idle", "found", "hung", "done", "error", "nosession"}]
    BY <1>10 DEF PushSend, OuterType
  <2> QED BY <1>10, <2>1, <2>2 DEF PushSend, OuterType, closeVars
<1>11. CASE UNCHANGED vars
  BY <1>11, <1>u DEF vars
<1> QED BY <1>1, <1>2, <1>3, <1>4, <1>5, <1>6, <1>7, <1>8, <1>9, <1>10, <1>11 DEF Next

\* A session whose player was just loaded satisfies the inductive invariant.
LEMMA LoopInit == Init => LoopIInv
<1> SUFFICES ASSUME Init PROVE ClientPart /\ WorkPart /\ OuterType
  BY InvSplit DEF WorkPart
<1>1. /\ lost \in BOOLEAN /\ recvErr \in BOOLEAN /\ isClosed \in BOOLEAN
      /\ cancelled \in BOOLEAN /\ ctxDone \in BOOLEAN /\ inDict \in BOOLEAN
  BY Zenon DEF Init
<1>2. ClientPart
  BY <1>1, Sizes DEF Init, ClientPart, ClientType, FlushDelivers, ReaderShape,
     FlushedIsClosed
<1>3. WorkPart
  BY Sizes DEF Init, WorkPart, WorkType, WorkersShape, Workers, Labels
<1>4. OuterType
  BY <1>1, Sizes DEF Init, OuterType
<1> QED BY <1>2, <1>3, <1>4

\* The inductive invariant holds in every reachable state of the session.
THEOREM LoopInvariant == Spec => []LoopIInv
<1>1. LoopIInv /\ [Next]_vars => LoopIInv'
  BY InvSplit, ClientStep, WorkersStep, OuterStep, PTL DEF WorkPart
<1> QED BY <1>1, LoopInit, PTL DEF Spec

\* Whatever the workers, a kick, a stop and the client do, a stream that ends
\* because the session was closed has handed every accepted response to the
\* client; and session.mu is held by exactly the worker that runs the player's
\* code (part of the shape of the state).
THEOREM FlushAlwaysDelivers == Spec => []LoopInv
<1>1. LoopIInv => LoopInv
  BY DEF LoopIInv
<1> QED BY <1>1, LoopInvariant, PTL

=============================================================================
