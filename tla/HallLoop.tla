------------------------------ MODULE HallLoop ------------------------------
(***************************************************************************)
(* framework/smallgame/game/hall: the goroutines of one session, from the  *)
(* moment newSession has loaded the player to the end of everything the    *)
(* session started.  HallSession has the logins, locks and takeovers       *)
(* around it; here sessionDict is whether it still finds the session.      *)
(*                                                                         *)
(*   stream   hall_server.ClientStream: makes the channels, starts the     *)
(*            reader, forwards the responses, closes the session           *)
(*   reader   Recv of the client's messages into chClientRequest           *)
(*   Workers  the three goroutines of serve: the loop (tickers and client  *)
(*            messages), the peer pushes and the actor requests; all run   *)
(*            the player's code under session.mu                           *)
(*   closing  the body of Close, run by whoever won the isClosed CAS       *)
(*   kick     sendPacketAndClose, for Kick and Instead                     *)
(*   Pushers  calls of Push or MustPush for the user                       *)
(*                                                                         *)
(* The channels are counters: what a message says decides nothing here.    *)
(***************************************************************************)
EXTENDS Naturals

CONSTANTS
    RequestBufferSize, ResponseBufferSize, PushBufferSize, SessionActorBuffSize,
    Pushers,
    Environments,   \* sets of outside events, one of which may happen (see Outside)
    MaxRequests,    \* messages the client sends (bound of the model)
    MaxReplies,     \* a response and the pushes that come with it
    MaxEvents       \* ticks, yields, player pushes and actor calls (bound of the model)

ASSUME LoopAssumption ==
    /\ MaxEvents \in Nat
    /\ {RequestBufferSize, ResponseBufferSize, PushBufferSize, SessionActorBuffSize,
        MaxRequests, MaxReplies} \subseteq Nat \ {0}
    /\ Environments \subseteq SUBSET {"gone", "stop", "kick", "push", "actor", "tick",
                                   "yield", "session_push"}

Workers == {"loop", "push", "actor"}

VARIABLES
    stream,     \* "start", "select", "flush", "defer", "exit", "closing", "done"
    response,   \* chClientResponse: "nil", "open", "closed"
    queued,     \* what is in it
    lost,       \* history: the deferred select of the stream took a response away
    reader,     \* "none", "send", "recv", "done" (chClientRequest is closed then)
    put, taken, \* messages sent to and taken from chClientRequest
    recvErr,    \* chRecvErr is closed
    client,     \* "playing", "gone"
    at,         \* where a worker is
    job,        \* what the loop works on: "tick", "request"
    left,       \* responses of a request the loop has still to send
    mu,         \* who holds session.mu
    peerPush,   \* chPeerPush: "nil", "open", "closed"
    pushes,     \* what is in it
    inbox,      \* what is in the actor's channel
    isClosed,
    cancelled,  \* clientCtx is done
    ctxDone,    \* session.ctx is done
    closing,    \* "none", "logout", "dict", "done"
    inDict,     \* sessionDict finds the session
    kick,       \* "idle", "send", "close", "done"
    pusher,     \* per call: "idle", "found", "hung", "done", "error", "nosession"
    env,        \* what the outside does in this behaviour
    events      \* how many of the MaxEvents events there were

streamVars == <<stream, lost, client>>
readVars == <<reader, put, recvErr>>
workVars == <<at, job, left, mu>>
pushVars == <<peerPush, pushes, inbox>>
closeVars == <<isClosed, cancelled, ctxDone, closing, inDict>>
callVars == <<kick, pusher, env>>
clientVars == <<streamVars, response, queued, readVars, taken>>
outerVars == <<pushVars, closeVars, callVars>>
vars == <<clientVars, workVars, outerVars, events>>

\* "blind" is a select that was entered when chClientRequest was nil.
Labels == {"none", "blind", "select", "want", "busy", "pushing", "reply",
           "hung", "done"}

TypeOK ==
    /\ stream \in {"start", "select", "flush", "defer", "exit", "closing", "done"}
    /\ {response, peerPush} \subseteq {"nil", "open", "closed"}
    /\ queued \in 0..ResponseBufferSize /\ pushes \in 0..PushBufferSize
    /\ inbox \in 0..SessionActorBuffSize /\ left \in 0..MaxReplies
    /\ put \in 0..MaxRequests /\ taken \in 0..put /\ put - taken <= RequestBufferSize
    /\ {lost, recvErr, isClosed, cancelled, ctxDone, inDict} \subseteq BOOLEAN
    /\ reader \in {"none", "send", "recv", "done"} /\ client \in {"playing", "gone"}
    /\ at \in [Workers -> Labels] /\ job \in {"tick", "request"}
    /\ mu \in Workers \cup {"free"}
    /\ \A g \in Workers : at[g] \in {"busy", "pushing", "reply", "hung"} <=> mu = g
    /\ closing \in {"none", "logout", "dict", "done"}
    /\ kick \in {"idle", "send", "close", "done"}
    /\ pusher \in [Pushers -> {"idle", "found", "hung", "done", "error", "nosession"}]
    /\ env \in Environments /\ events \in 0..MaxEvents

Init ==
    /\ stream = "start" /\ lost = FALSE /\ client = "playing"
    /\ response = "nil" /\ queued = 0
    /\ reader = "none" /\ put = 0 /\ taken = 0 /\ recvErr = FALSE
    /\ at = [g \in Workers |-> "none"] /\ job = "tick" /\ left = 0 /\ mu = "free"
    /\ peerPush = "nil" /\ pushes = 0 /\ inbox = 0
    /\ isClosed = FALSE /\ cancelled = FALSE /\ ctxDone = FALSE
    /\ closing = "none" /\ inDict = TRUE
    /\ kick = "idle" /\ pusher = [p \in Pushers |-> "idle"]
    /\ env \in Environments /\ events = 0

-----------------------------------------------------------------------------
(* Close                                                                   *)

BeginClose ==
    /\ isClosed' = TRUE
    /\ cancelled' = TRUE
    /\ closing' = "logout"
    /\ UNCHANGED <<ctxDone, inDict>>

\* Mutant of Logout: Logout waits for session.mu.
LogoutLocked ==
    /\ closing = "logout"
    /\ mu = "free"
    /\ ctxDone' = TRUE
    /\ closing' = "dict"
    /\ UNCHANGED <<clientVars, workVars, pushVars, isClosed, cancelled, inDict, callVars,
                   events>>

\* Mutant of Logout: session.ctx is not cancelled.
LogoutUncancelled ==
    /\ closing = "logout"
    /\ closing' = "dict"
    /\ UNCHANGED <<clientVars, workVars, pushVars, isClosed, cancelled, ctxDone, inDict,
                   callVars, events>>

\* player.Logout runs without session.mu, beside the workers; then, also when
\* it panics, session.ctx is cancelled.
Logout ==
    /\ closing = "logout"
    /\ ctxDone' = TRUE
    /\ closing' = "dict"
    /\ UNCHANGED <<clientVars, workVars, pushVars, isClosed, cancelled, inDict, callVars,
                   events>>

\* The unlock of the user, then sessionDict and sessionCount.
CloseDict ==
    /\ closing = "dict"
    /\ inDict' = FALSE
    /\ closing' = "done"
    /\ UNCHANGED <<clientVars, workVars, pushVars, isClosed, cancelled, ctxDone, callVars,
                   events>>

\* The stop loop of hall_service.Serve closes a session it found. (Before
\* clientCancelFunc is set this ends the process: HallSession.)
StopCloses ==
    /\ "stop" \in env
    /\ inDict /\ stream # "start"
    /\ ~isClosed
    /\ BeginClose
    /\ UNCHANGED <<clientVars, workVars, pushVars, callVars, events>>

-----------------------------------------------------------------------------
(* ClientStream: channels, reader and the forwarding of responses.         *)

\* The two channels, clientCancelFunc and the reader, which starts with the
\* message that came with the login. "go session.serve()" came before all of
\* this: the loop may have looked at chClientRequest already.
StartReader ==
    /\ stream = "start"
    /\ stream' = "select"
    /\ response' = "open"
    /\ reader' = "send"
    /\ UNCHANGED <<lost, client, queued, put, recvErr, taken, workVars, outerVars, events>>

ReaderSend ==
    /\ reader = "send"
    /\ put - taken < RequestBufferSize
    /\ put' = put + 1
    /\ reader' = "recv"
    /\ UNCHANGED <<streamVars, response, queued, recvErr, taken, workVars, outerVars,
                   events>>

ReaderRecv ==
    /\ reader = "recv"
    /\ client = "playing" /\ put < MaxRequests
    /\ reader' = IF cancelled THEN "done" ELSE "send"
    /\ UNCHANGED <<streamVars, response, queued, put, recvErr, taken, workVars, outerVars,
                   events>>

\* Recv fails when the client is gone and when ClientStream has returned.
ReaderFails ==
    /\ reader = "recv"
    /\ client = "gone" \/ stream = "done"
    /\ reader' = "done"
    /\ recvErr' = ~cancelled
    /\ UNCHANGED <<streamVars, response, queued, put, taken, workVars, outerVars, events>>

\* client.Send of one response, in the first loop or the flush; its error is
\* only logged.
Forward ==
    /\ stream \in {"select", "flush"}
    /\ queued > 0
    /\ queued' = queued - 1
    /\ UNCHANGED <<streamVars, response, readVars, taken, workVars, outerVars, events>>

\* Mutant of StreamCancelled: the stream ends without the flush.
StreamQuits ==
    /\ stream = "select" /\ cancelled
    /\ stream' = "defer"
    /\ UNCHANGED <<lost, client, response, queued, readVars, taken, workVars, outerVars,
                   events>>

StreamCancelled ==
    /\ stream = "select" /\ cancelled
    /\ stream' = "flush"
    /\ response' = "closed"
    /\ UNCHANGED <<lost, client, queued, readVars, taken, workVars, outerVars, events>>

Flushed ==
    /\ stream = "flush" /\ queued = 0 /\ response = "closed"
    /\ stream' = "defer"
    /\ UNCHANGED <<lost, client, response, queued, readVars, taken, workVars, outerVars,
                   events>>

\* The client is gone: what is left is not sent.
StreamBroken ==
    /\ stream \in {"select", "flush"} /\ recvErr
    /\ stream' = "defer"
    /\ UNCHANGED <<lost, client, response, queued, readVars, taken, workVars, outerVars,
                   events>>

\* The deferred select: it takes one response and leaves the channel as it is,
\* or finds none and closes it. (A closed channel is always ready.)
StreamDefer ==
    /\ stream = "defer"
    /\ stream' = "exit"
    /\ \/ /\ queued > 0
          /\ queued' = queued - 1 /\ lost' = TRUE
          /\ UNCHANGED response
       \/ /\ queued = 0
          /\ response' = "closed"
          /\ UNCHANGED <<queued, lost>>
    /\ UNCHANGED <<client, readVars, taken, workVars, outerVars, events>>

\* The deferred clientCancelFunc and Close.
StreamClose ==
    /\ stream = "exit"
    /\ \/ ~isClosed /\ stream' = "closing" /\ BeginClose
       \/ /\ isClosed /\ stream' = "done" /\ cancelled' = TRUE
          /\ UNCHANGED <<isClosed, ctxDone, closing, inDict>>
    /\ UNCHANGED <<lost, client, response, queued, readVars, taken, workVars, pushVars,
                   callVars, events>>

StreamReturns ==
    /\ stream = "closing" /\ closing = "done"
    /\ stream' = "done"
    /\ UNCHANGED <<lost, client, response, queued, readVars, taken, workVars, outerVars,
                   events>>

ClientGone ==
    /\ "gone" \in env
    /\ client = "playing"
    /\ client' = "gone"
    /\ UNCHANGED <<stream, lost, response, queued, readVars, taken, workVars, outerVars,
                   events>>

-----------------------------------------------------------------------------
(* The workers of serve.                                                   *)

\* One of the events that could go on for ever.
Event(e) == e \in env /\ events < MaxEvents /\ events' = events + 1

Goto(g, l) == at' = [at EXCEPT ![g] = l]

\* Where a worker waits next: the select of the loop evaluates chClientRequest
\* when it is entered.
Idle(g) == IF g = "loop" /\ stream = "start" THEN "blind" ELSE "select"

Serve ==
    /\ at["loop"] = "none"
    /\ peerPush' = "open"
    /\ at' = [g \in Workers |-> Idle(g)]
    /\ UNCHANGED <<clientVars, job, left, mu, pushes, inbox, closeVars, callVars, events>>

\* Mutant of Tick: no ticker wakes the loop.
TickNever == FALSE /\ UNCHANGED vars

\* ticker and saveTicker: Update or BgSave, unless the session is closed; the
\* select is entered anew in any case. (The tick that wakes a blind loop is
\* one that always comes and is not counted.)
Tick ==
    /\ \/ at["loop"] = "blind" /\ UNCHANGED events
       \/ at["loop"] = "select" /\ Event("tick")
    /\ Goto("loop", IF isClosed THEN Idle("loop") ELSE "want")
    /\ job' = "tick"
    /\ UNCHANGED <<clientVars, left, mu, outerVars>>

\* A message that cannot be decoded, or that comes to a closed session, is dropped.
TakeRequest ==
    /\ at["loop"] = "select"
    /\ put > taken
    /\ taken' = taken + 1
    /\ \/ ~isClosed /\ Goto("loop", "want") /\ job' = "request"
       \/ UNCHANGED <<at, job>>
    /\ UNCHANGED <<streamVars, response, queued, readVars, left, mu, outerVars, events>>

TakePush ==
    /\ at["push"] = "select"
    /\ pushes > 0
    /\ pushes' = pushes - 1
    /\ Goto("push", IF isClosed THEN "select" ELSE "want")
    /\ UNCHANGED <<clientVars, job, left, mu, peerPush, inbox, closeVars, callVars,
                   events>>

TakeActorRequest ==
    /\ at["actor"] = "select"
    /\ inbox > 0
    /\ inbox' = inbox - 1
    /\ Goto("actor", "want")
    /\ UNCHANGED <<clientVars, job, left, mu, peerPush, pushes, closeVars, callVars,
                   events>>

Acquire(g) ==
    /\ at[g] = "want" /\ mu = "free"
    /\ mu' = g
    /\ Goto(g, "busy")
    /\ UNCHANGED <<clientVars, job, left, outerVars, events>>

\* The player's code gives the lock up while it waits for something, and wants
\* it back then.
Yield(g) ==
    /\ Event("yield")
    /\ at[g] = "busy"
    /\ mu' = "free"
    /\ Goto(g, "want")
    /\ UNCHANGED <<clientVars, job, left, outerVars>>

\* The player's code pushes to its client; a nil channel blocks for ever.
SessionPush(g) ==
    /\ Event("session_push")
    /\ at[g] = "busy"
    /\ Goto(g, IF response = "nil" THEN "hung" ELSE "pushing")
    /\ UNCHANGED <<clientVars, job, left, mu, outerVars>>

\* The send of session.Push; the panic of a closed channel is recovered.
SessionPushed(g) ==
    /\ at[g] = "pushing"
    /\ \/ /\ response = "open" /\ queued < ResponseBufferSize
          /\ queued' = queued + 1
       \/ response = "closed" /\ UNCHANGED queued
    /\ Goto(g, "busy")
    /\ UNCHANGED <<streamVars, response, readVars, taken, job, left, mu, outerVars,
                   events>>

\* The player's code returns: an error, a session closed meanwhile and
\* everything but a client's message need no response.
Finish(g) ==
    /\ at[g] = "busy"
    /\ \/ /\ mu' = "free"
          /\ Goto(g, Idle(g))
          /\ UNCHANGED left
       \/ /\ g = "loop" /\ job = "request" /\ ~isClosed
          /\ left' \in 1..MaxReplies
          /\ Goto(g, "reply")
          /\ UNCHANGED mu
    /\ UNCHANGED <<clientVars, job, outerVars, events>>

\* The response and its pushes, sent with session.mu held.
Reply ==
    /\ at["loop"] = "reply"
    /\ \/ /\ response = "open" /\ queued < ResponseBufferSize
          /\ queued' = queued + 1
          /\ left' = left - 1
       \/ response = "closed" /\ left' = 0 /\ UNCHANGED queued
    /\ IF left' = 0 THEN mu' = "free" /\ Goto("loop", Idle("loop")) ELSE UNCHANGED <<at, mu>>
    /\ UNCHANGED <<streamVars, response, readVars, taken, job, outerVars, events>>

LoopEnds ==
    /\ at["loop"] \in {"blind", "select"} /\ ctxDone
    /\ Goto("loop", "done")
    /\ peerPush' = "closed"
    /\ UNCHANGED <<clientVars, job, left, mu, pushes, inbox, closeVars, callVars, events>>

WorkerEnds(g) ==
    /\ g # "loop" /\ at[g] = "select" /\ ctxDone
    /\ Goto(g, "done")
    /\ UNCHANGED <<clientVars, job, left, mu, outerVars, events>>

-----------------------------------------------------------------------------
(* Callers from outside.                                                   *)

\* A call of an actor method (gen_macro/macro.go:554).
ActorCall ==
    /\ Event("actor")
    /\ inbox < SessionActorBuffSize
    /\ inbox' = inbox + 1
    /\ UNCHANGED <<clientVars, workVars, peerPush, pushes, closeVars, callVars>>

\* Push and MustPush load the session; without one MustPush fails and Push is
\* passed on to the hall that has the user.
PushLoad(p) ==
    /\ "push" \in env
    /\ pusher[p] = "idle"
    /\ pusher' = [pusher EXCEPT ![p] = IF inDict THEN "found" ELSE "nosession"]
    /\ UNCHANGED <<clientVars, workVars, pushVars, closeVars, kick, env, events>>

PushSend(p) ==
    /\ pusher[p] = "found"
    /\ \/ /\ peerPush = "nil"
          /\ pusher' = [pusher EXCEPT ![p] = "hung"]
          /\ UNCHANGED pushes
       \/ /\ peerPush = "open" /\ pushes < PushBufferSize
          /\ pusher' = [pusher EXCEPT ![p] = "done"]
          /\ pushes' = pushes + 1
       \/ /\ peerPush = "closed"
          /\ pusher' = [pusher EXCEPT ![p] = "error"]
          /\ UNCHANGED pushes
    /\ UNCHANGED <<clientVars, workVars, peerPush, inbox, closeVars, kick, env, events>>

\* Kick and Instead. (Before the channel is made they block: HallSession.)
KickLoad ==
    /\ "kick" \in env
    /\ kick = "idle"
    /\ inDict /\ stream # "start"
    /\ kick' = "send"
    /\ UNCHANGED <<clientVars, workVars, pushVars, closeVars, pusher, env, events>>

\* A closed channel panics and the Close that follows is left out.
KickSend ==
    /\ kick = "send"
    /\ \/ /\ response = "open" /\ queued < ResponseBufferSize
          /\ queued' = queued + 1 /\ kick' = "close"
       \/ response = "closed" /\ kick' = "done" /\ UNCHANGED queued
    /\ UNCHANGED <<streamVars, response, readVars, taken, workVars, pushVars, closeVars,
                   pusher, env, events>>

KickClose ==
    /\ kick = "close"
    /\ kick' = "done"
    /\ IF isClosed THEN UNCHANGED closeVars ELSE BeginClose
    /\ UNCHANGED <<clientVars, workVars, pushVars, pusher, env, events>>

-----------------------------------------------------------------------------
CloseStep == Logout \/ CloseDict

ReaderStep == ReaderSend \/ ReaderRecv \/ ReaderFails

StreamStep ==
    \/ StartReader \/ Forward \/ StreamCancelled \/ Flushed
    \/ StreamBroken \/ StreamDefer \/ StreamClose \/ StreamReturns

LoopStep == Serve \/ Tick \/ TakeRequest \/ Reply \/ LoopEnds

WorkStep(g) ==
    \/ Acquire(g) \/ Yield(g)
    \/ SessionPush(g) \/ SessionPushed(g) \/ Finish(g) \/ WorkerEnds(g)

KickStep == KickSend \/ KickClose

Outside ==
    \/ ClientGone \/ StopCloses \/ ActorCall \/ KickLoad
    \/ \E p \in Pushers : PushLoad(p)

Next ==
    \/ CloseStep \/ ReaderStep \/ StreamStep \/ LoopStep \/ KickStep \/ Outside
    \/ TakePush \/ TakeActorRequest
    \/ \E g \in Workers : WorkStep(g)
    \/ \E p \in Pushers : PushSend(p)

Spec == Init /\ [][Next]_vars

\* Every goroutine runs, and the player's code returns. So does client.Send of
\* the stream: the gateway reads it, or the stream breaks and Send fails; a
\* gateway that does neither holds the stream by the flow control of gRPC.
\* Nobody outside has to call, to send or to go away.
Fairness ==
    /\ WF_vars(CloseStep) /\ WF_vars(KickStep) /\ WF_vars(StreamStep)
    /\ WF_vars(ReaderSend) /\ WF_vars(ReaderFails)
    /\ WF_vars(Serve) /\ WF_vars(at["loop"] = "blind" /\ Tick) /\ WF_vars(TakeRequest)
    /\ WF_vars(Reply) /\ WF_vars(LoopEnds) /\ WF_vars(TakePush) /\ WF_vars(TakeActorRequest)
    /\ \A g \in Workers :
         WF_vars(Acquire(g) \/ SessionPushed(g) \/ Finish(g) \/ WorkerEnds(g))
    /\ \A p \in Pushers : WF_vars(PushSend(p))

FairSpec == Spec /\ Fairness

-----------------------------------------------------------------------------
(* Properties.                                                             *)

\* A worker that never comes back, with session.mu: it pushed before the
\* channel was made, or the stream left the channel open, full and unread.
Hung(g) == at[g] = "hung"

Abandoned(g) ==
    /\ at[g] \in {"pushing", "reply"}
    /\ response = "open" /\ stream \in {"exit", "closing", "done"}
    /\ queued = ResponseBufferSize

Jammed == \E g \in Workers : Hung(g) \/ Abandoned(g)

\* server.go:233: when a stream ends because the session was closed, and not
\* because the client went away, every response that was accepted has been
\* handed to the client, the packet of a kick or of a takeover included.
FlushDelivers ==
    stream \in {"exit", "closing", "done"} /\ ~recvErr => queued = 0 /\ ~lost

\* The shape of the state, and the promise of the flush.
LoopInv == TypeOK /\ FlushDelivers

\* A client that goes away is logged out and its session leaves sessionDict,
\* even when a worker waits for ever, lock in hand, for somebody to read the
\* responses. (Not when a worker hangs on the channel that was not made yet:
\* the reader may then never get to see that the client is gone.)
GoneClientLoggedOut == client = "gone" ~> closing = "done" \/ \E g \in Workers : Hung(g)

\* The reader has ended, or waits for room in a channel the loop will not read
\* again (server.go:206).
ReaderOver ==
    \/ reader = "done"
    \/ reader = "send" /\ put - taken = RequestBufferSize /\ at["loop"] = "done"

\* After Close every goroutine of serve ends, whatever they were doing, unless
\* one of them is jammed, and so does the reader as far as it can.
GoroutinesEnd ==
    isClosed ~> ((\A g \in Workers : at[g] = "done") /\ ReaderOver) \/ Jammed

\* What is sent to a session is taken. A message of the client is taken by the
\* loop, although serve starts before chClientRequest is made (server.go:171),
\* unless the session is closed first. A Push or MustPush that found the
\* session returns, with an error when serve has closed the channel under it
\* (server.go:78), unless the channel was not made yet.
InputsTaken ==
    /\ \A k \in 1..MaxRequests : put >= k ~> taken >= k \/ isClosed \/ Jammed
    /\ \A p \in Pushers :
         pusher[p] = "found" ~> pusher[p] \in {"done", "error", "hung"} \/ Jammed

-----------------------------------------------------------------------------
(* The inductive invariant behind LoopInv.                                 *)

\* The reader starts with the stream, has a message in hand only when there
\* is one to send, and reports an error at its end only.
ReaderShape ==
    /\ reader = "none" <=> stream = "start"
    /\ reader = "none" => put = 0
    /\ reader = "send" => put < MaxRequests
    /\ recvErr => reader = "done"

\* serve starts its three workers together; a reply has something to send.
WorkersShape ==
    /\ at["loop"] = "none" => \A g \in Workers : at[g] = "none"
    /\ at["loop"] = "reply" => left > 0

\* Why the flush misses nothing: it works on a closed channel, and a stream
\* that is over without an error of Recv has left the channel closed and empty.
FlushedIsClosed ==
    /\ stream = "flush" => response = "closed"
    /\ stream \in {"defer", "exit", "closing", "done"} /\ ~recvErr =>
          response = "closed" /\ queued = 0
    /\ stream \in {"start", "select", "flush", "defer"} => ~lost

\* What every reachable state of the session keeps.
LoopIInv == LoopInv /\ ReaderShape /\ WorkersShape /\ FlushedIsClosed

=============================================================================
