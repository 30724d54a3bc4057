--------------------------- MODULE GatewaySession ---------------------------
(* A client's session in the gateway (gateway/server/session.go, with        *)
(* ServeClientStream of server.go). After the login serve opens a stream to  *)
(* a hall and runs three goroutines: upstream=>client receives from the hall *)
(* and looks for another one when the stream breaks, client=>upstream        *)
(* forwards the client's messages in order and keeps those it could not      *)
(* forward, and the closer ends the client and the stream with the session's *)
(* context.                                                                  *)
(*                                                                           *)
(* A message is its number. Which hall SelectPeer finds does not matter here *)
(* (Upstream.tla): hallUp says whether it finds one. Send may succeed on a   *)
(* stream that is broken and not known to be: what the hall loses then is    *)
(* not the gateway's to know. A push to the client waits while its chSend is *)
(* full, which is for ever when the gate has left it open (GateConn.tla),    *)
(* and a Send waits while the hall does not read its stream.                 *)
EXTENDS Integers, Sequences, FiniteSets

CONSTANTS
    Clients,
    Messages,           \* how many messages a client sends, the login included
    MaxSessionCount,    \* configuration: -1 is no limit
    MaxDowns            \* bound: how often the halls go away

ASSUME GatewaySessionAssumption ==
    /\ IsFiniteSet(Clients)
    /\ Messages \in [Clients -> Nat \ {0}]
    /\ MaxSessionCount \in Nat \cup {-1} /\ MaxDowns \in Nat

VARIABLES
    hallUp, downs,      \* SelectPeer finds a hall; how often it was gone
    stopped,            \* Server.ctx is cancelled: the gateway stops
    sessionCount,       \* Server.SessionCount
    client,             \* the client: connected, gone; its messages so far
    clientFull,         \* chSend of its connection has no room
    hallFull,           \* the hall does not take more from the stream
    stage,              \* ServeClientStream and serve
    ctxDone,            \* session.ctx is cancelled
    closer,             \* the closer has run
    up,                 \* the upstream=>client goroutine
    stream,             \* session.stream is set
    alive,              \* the stream of the upstream=>client goroutine
    streamCtx,          \* what streamCancelFunc cancels is still open
    told,               \* the last of SendServerSuspend and SendServerResume
    down,               \* the client=>upstream goroutine
    message,            \* the message it has in hand
    pendingMessages,
    forwarded           \* the messages Send has taken

flowVars == <<clientFull, hallFull>>
envVars == <<hallUp, downs, stopped, client, flowVars>>
upVars == <<up, alive, streamCtx, told>>
downVars == <<down, message, pendingMessages, forwarded>>
vars == <<envVars, sessionCount, stage, ctxDone, closer, stream, upVars, downVars>>

\* The shape of the state.
TypeOK ==
    /\ hallUp \in BOOLEAN /\ downs \in 0 .. MaxDowns /\ stopped \in BOOLEAN
    /\ sessionCount \in Nat
    /\ client \in [Clients -> [here : BOOLEAN, sent : Nat]]
    /\ stage \in [Clients -> {"out", "login", "serve", "running", "ended"}]
    /\ {clientFull, hallFull, ctxDone, closer, stream, alive, streamCtx} \subseteq [Clients -> BOOLEAN]
    /\ up \in [Clients -> {"none", "recv", "push", "suspend", "select", "open", "publish", "resume", "done"}]
    /\ told \in [Clients -> {"none", "suspend", "resume"}]
    /\ down \in [Clients -> {"none", "check", "send", "recv", "done", "panic"}]
    /\ message \in [Clients -> Nat]
    /\ {pendingMessages, forwarded} \subseteq [Clients -> Seq(Nat)]

Init ==
    /\ hallUp = TRUE /\ downs = 0 /\ stopped = FALSE
    /\ sessionCount = 0
    /\ client = [c \in Clients |-> [here |-> TRUE, sent |-> 0]]
    /\ clientFull = [c \in Clients |-> FALSE] /\ hallFull = [c \in Clients |-> FALSE]
    /\ stage = [c \in Clients |-> "out"]
    /\ ctxDone = [c \in Clients |-> FALSE] /\ closer = [c \in Clients |-> FALSE]
    /\ stream = [c \in Clients |-> FALSE] /\ alive = [c \in Clients |-> FALSE]
    /\ streamCtx = [c \in Clients |-> FALSE]
    /\ up = [c \in Clients |-> "none"] /\ down = [c \in Clients |-> "none"]
    /\ told = [c \in Clients |-> "none"]
    /\ message = [c \in Clients |-> 0]
    /\ pendingMessages = [c \in Clients |-> <<>>]
    /\ forwarded = [c \in Clients |-> <<>>]

(* ------------------------------------------------------- the environment *)
\* The halls go, and their streams break, or one comes.
HallsGo ==
    /\ hallUp /\ downs < MaxDowns
    /\ hallUp' = FALSE /\ downs' = downs + 1
    /\ alive' = [c \in Clients |-> FALSE]
    /\ UNCHANGED <<stopped, client, flowVars, sessionCount, stage, ctxDone, closer, stream, up,
                   streamCtx, told, downVars>>

HallComes ==
    /\ ~hallUp /\ hallUp' = TRUE
    /\ UNCHANGED <<downs, stopped, client, flowVars, sessionCount, stage, ctxDone, closer, stream,
                   upVars, downVars>>

\* The hall ends one stream (its session was closed or kicked).
StreamEnds(c) ==
    /\ alive[c] /\ downs < MaxDowns /\ downs' = downs + 1
    /\ alive' = [alive EXCEPT ![c] = FALSE]
    /\ UNCHANGED <<hallUp, stopped, client, flowVars, sessionCount, stage, ctxDone, closer, stream,
                   up, streamCtx, told, downVars>>

\* Server.ctx is the parent of all the contexts here, the upstreams' too.
ServerStops ==
    /\ ~stopped /\ stopped' = TRUE
    /\ ctxDone' = [c \in Clients |-> stage[c] = "running" \/ ctxDone[c]]
    /\ alive' = [c \in Clients |-> FALSE]
    /\ streamCtx' = [c \in Clients |-> FALSE]
    /\ UNCHANGED <<hallUp, downs, client, flowVars, sessionCount, stage, closer, stream, up, told,
                   downVars>>

ClientLeaves(c) ==
    /\ client[c].here /\ stage[c] # "out"
    /\ client' = [client EXCEPT ![c].here = FALSE]
    /\ UNCHANGED <<hallUp, downs, stopped, flowVars, sessionCount, stage, ctxDone, closer, stream,
                   upVars, downVars>>

\* The writer of the connection waits in Write, or has left chSend open and
\* does not come back, until the channel is full; or it takes a packet.
ClientFlow(c) ==
    /\ stage[c] = "running"
    /\ clientFull' = [clientFull EXCEPT ![c] = ~@]
    /\ UNCHANGED <<hallUp, downs, stopped, client, hallFull, sessionCount, stage, ctxDone,
                   closer, stream, upVars, downVars>>

\* The flow control of the stream: the hall does not read, or reads again.
HallFlow(c) ==
    /\ stage[c] = "running"
    /\ hallFull' = [hallFull EXCEPT ![c] = ~@]
    /\ UNCHANGED <<hallUp, downs, stopped, client, clientFull, sessionCount, stage, ctxDone,
                   closer, stream, upVars, downVars>>

(* ------------------------------------------------------ ServeClientStream *)
Enters(c, from, to) ==
    /\ stage[c] = from /\ stage' = [stage EXCEPT ![c] = to]

\* The limit is looked at before the login; 0 lets nobody in.
Admitted == \/ MaxSessionCount = -1
            \/ MaxSessionCount # 0 /\ sessionCount < MaxSessionCount

Connect(c) ==
    /\ Enters(c, "out", IF Admitted THEN "login" ELSE "ended")
    /\ UNCHANGED <<envVars, sessionCount, ctxDone, closer, stream, upVars, downVars>>

\* The first message must come in time and be a Login with a valid token.
LoginOk(c) ==
    /\ Enters(c, "login", "serve")
    /\ client[c].here /\ ~stopped
    /\ client' = [client EXCEPT ![c].sent = 1]
    /\ message' = [message EXCEPT ![c] = 1]
    /\ UNCHANGED <<hallUp, downs, stopped, flowVars, sessionCount, ctxDone, closer, stream, upVars,
                   down, pendingMessages, forwarded>>

LoginFails(c) ==
    /\ Enters(c, "login", "ended")
    /\ UNCHANGED <<envVars, sessionCount, ctxDone, closer, stream, upVars, downVars>>

\* SelectPeer and NewClientStream, which fails as well when the hall has just
\* gone; the session starts.
ServeStart(c) ==
    /\ Enters(c, "serve", "running")
    /\ hallUp /\ ~stopped
    /\ sessionCount' = sessionCount + 1
    /\ stream' = [stream EXCEPT ![c] = TRUE]
    /\ alive' = [alive EXCEPT ![c] = TRUE]
    /\ streamCtx' = [streamCtx EXCEPT ![c] = TRUE]
    /\ up' = [up EXCEPT ![c] = "recv"] /\ down' = [down EXCEPT ![c] = "check"]
    /\ UNCHANGED <<envVars, ctxDone, closer, told, message, pendingMessages, forwarded>>

ServeFails(c) ==
    /\ Enters(c, "serve", "ended") /\ (~hallUp \/ stopped)
    /\ UNCHANGED <<envVars, sessionCount, ctxDone, closer, stream, upVars, downVars>>

\* errGroup.Wait and the deferred calls.
ServeReturns(c) ==
    /\ Enters(c, "running", "ended")
    /\ up[c] = "done" /\ down[c] \in {"done", "panic"} /\ closer[c]
    /\ sessionCount' = sessionCount - 1
    /\ alive' = [alive EXCEPT ![c] = FALSE]
    /\ streamCtx' = [streamCtx EXCEPT ![c] = FALSE]
    /\ UNCHANGED <<envVars, ctxDone, closer, stream, up, told, downVars>>

\* The closer: client.Close, then streamCancelFunc, whatever it is by now.
CloserRuns(c) ==
    /\ stage[c] = "running" /\ ctxDone[c] /\ ~closer[c]
    /\ closer' = [closer EXCEPT ![c] = TRUE]
    /\ client' = [client EXCEPT ![c].here = FALSE]
    /\ streamCtx' = [streamCtx EXCEPT ![c] = FALSE]
    /\ alive' = [alive EXCEPT ![c] = FALSE]
    /\ UNCHANGED <<hallUp, downs, stopped, flowVars, sessionCount, stage, ctxDone, stream, up, told,
                   downVars>>

(* -------------------------------------------------------- upstream=>client *)
UpGoes(c, from, to) ==
    /\ up[c] = from /\ up' = [up EXCEPT ![c] = to]
    /\ UNCHANGED <<envVars, sessionCount, stage, ctxDone, closer, downVars>>

\* What Recv gets goes to the client: a push, a response or a kick packet.
RecvOk(c) == alive[c] /\ UpGoes(c, "recv", "push") /\ UNCHANGED <<stream, alive, streamCtx, told>>

\* Every packet to the client waits for room in chSend.
Pushes(c, from, to) == ~clientFull[c] /\ UpGoes(c, from, to)

ProcessStreamMessage(c) ==
    Pushes(c, "push", "recv") /\ UNCHANGED <<stream, alive, streamCtx, told>>

\* When Recv fails the session has no stream any more, unless it is over.
RecvFails(c) ==
    /\ ~alive[c] /\ UpGoes(c, "recv", IF ctxDone[c] THEN "done" ELSE "suspend")
    /\ stream' = [stream EXCEPT ![c] = @ /\ ctxDone[c]]
    /\ UNCHANGED <<alive, streamCtx, told>>

SendServerSuspend(c) ==
    /\ Pushes(c, "suspend", "select")
    /\ told' = [told EXCEPT ![c] = "suspend"]
    /\ UNCHANGED <<stream, alive, streamCtx>>

\* A hall is found: the old stream's context is cancelled, the new one is a
\* child of the upstream's.
SelectFinds(c) ==
    /\ UpGoes(c, "select", "open") /\ hallUp /\ ~stopped
    /\ streamCtx' = [streamCtx EXCEPT ![c] = TRUE]
    /\ UNCHANGED <<stream, alive, told>>

\* None: try again in a second, unless the session is over.
SelectNone(c) ==
    /\ (~hallUp \/ stopped) /\ ctxDone[c] /\ UpGoes(c, "select", "done")
    /\ UNCHANGED <<stream, alive, streamCtx, told>>

OpenStream(c) ==
    /\ UpGoes(c, "open", "publish") /\ hallUp /\ streamCtx[c]
    /\ alive' = [alive EXCEPT ![c] = TRUE]
    /\ UNCHANGED <<stream, streamCtx, told>>

OpenFails(c) ==
    /\ ~(hallUp /\ streamCtx[c])
    /\ UpGoes(c, "open", IF ctxDone[c] THEN "done" ELSE "select")
    /\ streamCtx' = [streamCtx EXCEPT ![c] = FALSE]
    /\ UNCHANGED <<stream, alive, told>>

PublishStream(c) ==
    /\ UpGoes(c, "publish", "resume")
    /\ stream' = [stream EXCEPT ![c] = TRUE]
    /\ UNCHANGED <<alive, streamCtx, told>>

\* Mutant of SendServerResume: the client is not told.
ResumeUntold(c) == Pushes(c, "resume", "recv") /\ UNCHANGED <<stream, alive, streamCtx, told>>

SendServerResume(c) ==
    /\ Pushes(c, "resume", "recv")
    /\ told' = [told EXCEPT ![c] = "resume"]
    /\ UNCHANGED <<stream, alive, streamCtx>>

(* -------------------------------------------------------- client=>upstream *)
DownGoes(c, from, to) ==
    /\ down[c] = from /\ down' = [down EXCEPT ![c] = to]
    /\ UNCHANGED <<envVars, sessionCount, stage, closer, stream, upVars>>

\* The message that is forwarded next: the pending ones come first.
NextToForward(c) == IF pendingMessages[c] = <<>> THEN message[c] ELSE Head(pendingMessages[c])

\* processClientMessage looks at session.stream ...
CheckStream(c) == DownGoes(c, "check", "send") /\ stream[c] /\ UNCHANGED <<ctxDone, message, pendingMessages, forwarded>>

\* Mutant of Keep: the message is dropped when others are pending.
KeepOne(c) == IF pendingMessages[c] = <<>> THEN <<message[c]>> ELSE pendingMessages[c]

\* A message that cannot be forwarded waits behind the others.
Keep(c) == Append(pendingMessages[c], message[c])

Unforwarded(c, from) ==
    /\ DownGoes(c, from, "recv")
    /\ pendingMessages' = [pendingMessages EXCEPT ![c] = Keep(c)]
    /\ message' = [message EXCEPT ![c] = 0]
    /\ UNCHANGED <<ctxDone, forwarded>>

CheckNil(c) == ~stream[c] /\ Unforwarded(c, "check")

\* ... and reads it again to send.
SendOk(c) ==
    /\ stream[c] /\ ~hallFull[c]
    /\ forwarded' = [forwarded EXCEPT ![c] = Append(@, NextToForward(c))]
    /\ IF pendingMessages[c] # <<>>
       THEN /\ DownGoes(c, "send", "check")
            /\ pendingMessages' = [pendingMessages EXCEPT ![c] = Tail(@)]
            /\ UNCHANGED message
       ELSE /\ DownGoes(c, "send", "recv")
            /\ message' = [message EXCEPT ![c] = 0]
            /\ UNCHANGED pendingMessages
    /\ UNCHANGED ctxDone

SendFails(c) == stream[c] /\ ~alive[c] /\ Unforwarded(c, "send")

\* Mutant of SendPanics: the goroutine ends without ending the session.
SendPanicsAlone(c) ==
    /\ ~stream[c] /\ DownGoes(c, "send", "panic")
    /\ UNCHANGED <<ctxDone, message, pendingMessages, forwarded>>

\* A nil stream by then panics; the recover ends the session.
SendPanics(c) ==
    /\ ~stream[c] /\ DownGoes(c, "send", "panic")
    /\ ctxDone' = [ctxDone EXCEPT ![c] = TRUE]
    /\ UNCHANGED <<message, pendingMessages, forwarded>>

\* client.Recv: the next message, or the end.
Recv(c) ==
    /\ down[c] = "recv" /\ client[c].here /\ ~ctxDone[c]
    /\ client[c].sent < Messages[c]
    /\ client' = [client EXCEPT ![c].sent = @ + 1]
    /\ message' = [message EXCEPT ![c] = client[c].sent + 1]
    /\ down' = [down EXCEPT ![c] = "check"]
    /\ UNCHANGED <<hallUp, downs, stopped, flowVars, sessionCount, stage, ctxDone, closer, stream, upVars,
                   pendingMessages, forwarded>>

RecvEnds(c) ==
    /\ DownGoes(c, "recv", "done") /\ (~client[c].here \/ ctxDone[c])
    /\ ctxDone' = [ctxDone EXCEPT ![c] = TRUE]
    /\ UNCHANGED <<message, pendingMessages, forwarded>>

(* ------------------------------------------------------------- the system *)
UpStep(c) ==
    \/ ProcessStreamMessage(c) \/ RecvFails(c) \/ SendServerSuspend(c) \/ SelectFinds(c) \/ SelectNone(c)
    \/ OpenStream(c) \/ OpenFails(c) \/ PublishStream(c) \/ SendServerResume(c)

DownStep(c) ==
    \/ CheckStream(c) \/ CheckNil(c) \/ SendOk(c) \/ SendFails(c) \/ SendPanics(c)
    \/ RecvEnds(c)

ServeStep(c) == ServeStart(c) \/ ServeFails(c) \/ ServeReturns(c) \/ CloserRuns(c)

Next ==
    \/ HallsGo \/ HallComes \/ ServerStops
    \/ \E c \in Clients :
          \/ StreamEnds(c) \/ ClientLeaves(c) \/ ClientFlow(c) \/ HallFlow(c)
          \/ Connect(c) \/ LoginOk(c) \/ LoginFails(c)
          \/ RecvOk(c) \/ Recv(c) \/ ServeStep(c) \/ UpStep(c) \/ DownStep(c)

Spec == Init /\ [][Next]_vars

(* The goroutines of a session run; nothing is asked of the client and the    *)
(* halls, not even that they read what is sent to them. A login ends in any   *)
(* case, by its timeout.                                                      *)
Fairness ==
    \A c \in Clients :
        /\ WF_vars(UpStep(c)) /\ WF_vars(DownStep(c)) /\ WF_vars(ServeStep(c))
        /\ WF_vars(LoginOk(c) \/ LoginFails(c))

FairSpec == Spec /\ Fairness

(* ------------------------------------------------------------- properties *)
InHand(c) == IF message[c] = 0 THEN <<>> ELSE <<message[c]>>

(* The messages of a client reach the streams in the order they came, none   *)
(* left out and none twice, whatever streams they went to: what was          *)
(* forwarded, what is pending and what is in hand are all that was received  *)
(* (session.go:152-180).                                                     *)
ForwardedInOrder ==
    \A c \in Clients :
        stage[c] \in {"running", "ended"} =>
            forwarded[c] \o pendingMessages[c] \o InHand(c) = [i \in 1 .. client[c].sent |-> i]

(* The shape of the state, and the order of the messages (session.go:155).   *)
GatewayInv == TypeOK /\ ForwardedInOrder

\* A session that got its new stream after the closer had run.
Stranded(c) == closer[c] /\ streamCtx[c]

\* upstream=>client is in a push to a client that takes nothing, or
\* client=>upstream in a Send on a stream that the hall does not read.
PushWaits(c) == clientFull[c] /\ up[c] \in {"push", "suspend", "resume"}
SendWaits(c) == hallFull[c] /\ down[c] = "send" /\ stream[c] /\ alive[c]

(* A session ends when its client leaves, the gateway stops or a goroutine   *)
(* panics (session.go:133-139), also while it waits for a hall. There are    *)
(* three ways it can stay. A stream that is opened after the closer has run  *)
(* is on a context nothing of the session cancels any more (session.go:104); *)
(* that context is a child of the upstream's and so of the server's          *)
(* (upstream.go:84): when the gateway stops, a stranded session ends too. A  *)
(* push waits in a full chSend (session.go:83, 96, 116 to conn.go:68), for   *)
(* ever once the gate has left the channel open. And a Send waits for a hall *)
(* that does not read (session.go:203). What ends a session stays, so one    *)
(* that does not end waits in one of these three ways again and again.       *)
SessionEnds ==
    \A c \in Clients :
        (stage[c] = "running"
            /\ (~client[c].here \/ ctxDone[c] \/ down[c] = "panic" \/ stopped))
            ~> \/ stage[c] = "ended"
               \/ Stranded(c) /\ ~stopped
               \/ PushWaits(c) \/ SendWaits(c)

(* A client that was told of the suspension is told of the resumption, if    *)
(* from some time on halls are there and the client takes what is sent to    *)
(* it, and its session goes on (session.go:96, 116).                         *)
SuspendedResumes ==
    \A c \in Clients :
        <>[](hallUp /\ ~stopped /\ ~clientFull[c]) =>
            ((told[c] = "suspend") ~> (told[c] = "resume" \/ ctxDone[c]))

(* ------------------------------------------------ the inductive invariant *)
\* The order, at every stage of the session.
InOrder(c) ==
    forwarded[c] \o pendingMessages[c] \o InHand(c) = [i \in 1 .. client[c].sent |-> i]

\* Where client=>upstream is says whether it has a message in hand, and the
\* goroutine runs between the start and the end of serve only.
DownShape(c) ==
    /\ down[c] \in {"check", "send"} => message[c] # 0
    /\ down[c] \in {"recv", "done"} => message[c] = 0
    /\ down[c] \in {"check", "send", "recv"} => stage[c] = "running"
    /\ stage[c] \in {"out", "login"} => message[c] = 0 /\ client[c].sent = 0
    /\ stage[c] = "serve" => message[c] # 0
    /\ stage[c] \in {"out", "login", "serve"} => down[c] = "none"

\* Server.SessionCount is the number of sessions between the two ends of serve.
SessionsCounted == sessionCount = Cardinality({c \in Clients : stage[c] = "running"})

\* What every reachable state of the gateway keeps.
GatewayIInv == TypeOK /\ SessionsCounted /\ \A c \in Clients : InOrder(c) /\ DownShape(c)
=============================================================================
