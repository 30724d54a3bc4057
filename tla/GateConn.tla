------------------------------ MODULE GateConn ------------------------------
(* One client connection of the gate (gate/conn.go): the two handshake       *)
(* reads with their timers, then Conn.serve with its read goroutine, its     *)
(* write goroutine, the goroutine that waits for errCtx, the handler, and    *)
(* other goroutines that Push to or Kick the session.                        *)
(*                                                                           *)
(* A packet is its kind. The bytes of a packet, the decoder, the encryption, *)
(* the middlewares and the logging are left out; a Read that completes no    *)
(* packet changes nothing here and is a stuttering step. A channel is the    *)
(* sequence it holds and a flag for close.                                   *)
EXTENDS Integers, Sequences

CONSTANTS
    SendBacklog,    \* capacity of chSend (server.sendBacklog)
    RecvBacklog,    \* capacity of chMessage (server.recvBacklog)
    Batches,        \* what one conn.Read may decode to: sequences of kinds
    Senders,        \* goroutines that call Push or Kick on the session
    MaxReads,       \* bound: reads of the read goroutine
    MaxTicks,       \* bound: heartbeat ticks
    MaxCalls,       \* bound: Push and Kick calls of one sender
    Env             \* the events of EnvKinds this instance lets happen

Kinds == {"hs", "ack", "msg", "hb", "bad"}

(* quit: the handler returns although chMessage is open: the context it gave *)
(* Recv is done (conn.go:589), or it has its own reason. write_fails: a      *)
(* Write to an open socket fails. shutdown: Server.Shutdown cancels the      *)
(* server's context. bad_token: the handshake is refused.                    *)
EnvKinds == {"quit", "write_fails", "shutdown", "bad_token"}

ASSUME GateConnAssumption ==
    /\ SendBacklog \in Nat \ {0}
    /\ RecvBacklog \in Nat \ {0}
    /\ Batches \subseteq Seq(Kinds) \ {<<>>}
    /\ {MaxReads, MaxTicks, MaxCalls} \subseteq Nat
    /\ Env \subseteq EnvKinds

VARIABLES
    state,          \* Conn.state
    sock,           \* the socket: open, the peer has closed it, closed here
    cancelled,      \* errCtx is done (ctx, its parent, is never done alone)
    timer,          \* the two handshake timers
    main,           \* where serve is
    reader,         \* the read goroutine
    pending,        \* packets it has decoded and not yet processed
    reads,          \* how many reads it has made
    writer,         \* the write goroutine
    ticks,          \* heartbeat ticks so far
    quiet,          \* ticks since lastAt was set
    watcher,        \* the goroutine that only waits for errCtx
    chSend, sendClosed,
    chMessage, recvClosed,
    accepted,       \* messages put into chMessage so far
    delivered,      \* the last message Recv returned
    broken,         \* Recv has returned ErrBrokenPipe to the handler
    writeFailed,    \* some Write has failed
    timedOut,       \* the heartbeat check has given the connection up
    registered,     \* the session is in server.sessions
    active,         \* ActiveSessionCount
    sender, calls   \* the senders: what each is doing, and calls made

connVars == <<state, sock, cancelled, timer, main>>
readVars == <<reader, pending, reads, quiet, chMessage, recvClosed, accepted>>
writeVars == <<writer, ticks, chSend, sendClosed, writeFailed, timedOut>>
handlerVars == <<delivered, broken>>
serverVars == <<registered, active>>
senderVars == <<sender, calls>>
vars == <<connVars, readVars, writeVars, handlerVars, serverVars, senderVars, watcher>>

\* The shape of the state; a queue never exceeds its backlog.
TypeOK ==
    /\ state \in {"start", "handshake", "working", "closed"}
    /\ sock \in {"open", "peer_closed", "closed"}
    /\ timer \in [{"hs", "ack"} -> {"off", "armed", "expired"}]
    /\ main \in {"handshake", "ack", "open", "serve", "wait", "done"}
    /\ reader \in {"off", "run", "done"}
    /\ watcher \in {"off", "run", "done"}
    /\ writer \in {"off", "select", "tick", "flush", "done"}
    /\ pending \in Seq(Kinds)
    /\ {cancelled, sendClosed, recvClosed, broken, writeFailed, timedOut, registered}
           \subseteq BOOLEAN
    /\ chSend \in Seq({"data", "kick", "hb"}) /\ Len(chSend) <= SendBacklog
    /\ chMessage \in Seq(Nat) /\ Len(chMessage) <= RecvBacklog
    /\ {reads, ticks, quiet, accepted, delivered} \subseteq Nat
    /\ active \in 0 .. 1
    /\ sender \in [Senders -> {"idle", "push", "kick", "close"}]
    /\ calls \in [Senders -> 0 .. MaxCalls]

Init ==
    /\ state = "start" /\ sock = "open" /\ cancelled = FALSE
    /\ timer = [t \in {"hs", "ack"} |-> IF t = "hs" THEN "armed" ELSE "off"]
    /\ main = "handshake"
    /\ reader = "off" /\ pending = <<>> /\ reads = 0 /\ quiet = 0
    /\ chMessage = <<>> /\ recvClosed = FALSE /\ accepted = 0
    /\ writer = "off" /\ ticks = 0 /\ chSend = <<>> /\ sendClosed = FALSE
    /\ writeFailed = FALSE /\ timedOut = FALSE
    /\ delivered = 0 /\ broken = FALSE
    /\ registered = FALSE /\ active = 0
    /\ sender = [s \in Senders |-> "idle"] /\ calls = [s \in Senders |-> 0]
    /\ watcher = "off"

(* ------------------------------------------------------------ handshake *)
(* A timer goroutine closes the socket when its deadline passes. The         *)
(* deferred cancel stops it only if the deadline has not passed yet; so      *)
(* does the cancellation of the server's context.                            *)

TimerExpires(t) ==
    /\ timer[t] = "armed"
    /\ timer' = [timer EXCEPT ![t] = "expired"]
    /\ UNCHANGED <<state, sock, cancelled, main, readVars, writeVars,
                   handlerVars, serverVars, senderVars, watcher>>

\* Mutant of TimerCloses: the timeout is logged and the socket stays open.
TimerLogs(t) ==
    /\ timer[t] = "expired"
    /\ timer' = [timer EXCEPT ![t] = "off"]
    /\ UNCHANGED <<state, sock, cancelled, main, readVars, writeVars,
                   handlerVars, serverVars, senderVars, watcher>>

TimerCloses(t) ==
    /\ timer[t] = "expired"
    /\ timer' = [timer EXCEPT ![t] = "off"]
    /\ sock' = "closed"
    /\ UNCHANGED <<state, cancelled, main, readVars, writeVars,
                   handlerVars, serverVars, senderVars, watcher>>

Disarm(t) == IF timer[t] = "armed" THEN "off" ELSE timer[t]

\* recvHandshake: one batch of exactly one handshake packet.
HandshakeOk ==
    /\ main = "handshake" /\ sock = "open" /\ <<"hs">> \in Batches
    /\ main' = "ack" /\ state' = "handshake"
    /\ timer' = [timer EXCEPT !["hs"] = Disarm("hs"),
                              !["ack"] = IF cancelled THEN "off" ELSE "armed"]
    /\ UNCHANGED <<sock, cancelled, readVars, writeVars, handlerVars,
                   serverVars, senderVars, watcher>>

\* recvHandshakeAck: an ack, perhaps with packets behind it. The channels are
\* made and the three goroutines start. lastAt is as old as the connection,
\* so the first silent interval may count as two.
AckOk(b) ==
    /\ main = "ack" /\ sock = "open" /\ Head(b) = "ack"
    /\ main' = "open" /\ state' = "working"
    /\ timer' = [timer EXCEPT !["ack"] = Disarm("ack")]
    /\ reader' = "run" /\ pending' = Tail(b)
    /\ quiet' \in IF Tail(b) = <<>> THEN {0, 1} ELSE {0}
    /\ writer' = "select" /\ watcher' = "run"
    /\ UNCHANGED <<timedOut, sock, cancelled, reads, chMessage, recvClosed, accepted,
                   ticks, chSend, sendClosed, writeFailed, handlerVars,
                   serverVars, senderVars>>

\* A wrong packet, a refused token or a failing Read ends serve at once.
HandshakeFails ==
    /\ \/ main = "handshake" /\ sock = "open" /\ Batches \ {<<"hs">>} # {}
       \/ main = "handshake" /\ sock = "open" /\ "bad_token" \in Env
       \/ main = "ack" /\ sock = "open" /\ \E b \in Batches : Head(b) # "ack"
       \/ main \in {"handshake", "ack"} /\ sock # "open"
    /\ main' = "done" /\ state' = "closed" /\ sock' = "closed" /\ cancelled' = TRUE
    /\ timer' = [t \in {"hs", "ack"} |-> Disarm(t)]
    /\ UNCHANGED <<readVars, writeVars, handlerVars, serverVars, senderVars, watcher>>

(* -------------------------------------------------------- read goroutine *)
\* Mutant of ReaderReturns: chMessage is not closed.
ReaderLeaves(failed) ==
    /\ reader' = "done"
    /\ cancelled' = (cancelled \/ failed)
    /\ UNCHANGED <<recvClosed, pending, quiet, chMessage, accepted, state, sock, timer,
                   main, writeVars, handlerVars, serverVars, senderVars, watcher>>

(* The goroutine's return closes chMessage; a return with an error cancels  *)
(* errCtx.                                                                   *)
ReaderReturns(failed) ==
    /\ reader' = "done" /\ recvClosed' = TRUE
    /\ cancelled' = (cancelled \/ failed)
    /\ UNCHANGED <<pending, quiet, chMessage, accepted, state, sock, timer, main,
                   writeVars, handlerVars, serverVars, senderVars, watcher>>

\* conn.Read returns data: the goroutine ends if the connection is closed.
ReadData(b) ==
    /\ reader = "run" /\ pending = <<>> /\ sock = "open" /\ reads < MaxReads
    /\ reads' = reads + 1
    /\ \/ state = "closed" /\ ReaderReturns(FALSE)
       \/ /\ state # "closed"
          /\ pending' = b /\ quiet' = 0
          /\ UNCHANGED <<reader, chMessage, recvClosed, accepted, connVars,
                         writeVars, handlerVars, serverVars, senderVars, watcher>>

ReadFails ==
    /\ reader = "run" /\ pending = <<>> /\ sock # "open"
    /\ UNCHANGED reads
    /\ ReaderReturns(TRUE)

\* processPacket: a message waits until chMessage has room. lastAt is set when
\* a packet's turn comes, so when its predecessor is done.
ProcessPacket ==
    /\ reader = "run" /\ pending # <<>> /\ Head(pending) \in {"msg", "hb"}
    /\ pending' = Tail(pending)
    /\ quiet' = IF Tail(pending) = <<>> THEN quiet ELSE 0
    /\ \/ Head(pending) = "hb" /\ UNCHANGED <<chMessage, accepted>>
       \/ /\ Head(pending) = "msg" /\ Len(chMessage) < RecvBacklog
          /\ accepted' = accepted + 1
          /\ chMessage' = Append(chMessage, accepted + 1)
    /\ UNCHANGED <<reader, reads, recvClosed, connVars, writeVars, handlerVars,
                   serverVars, senderVars, watcher>>

ProcessInvalid ==
    /\ reader = "run" /\ pending # <<>> /\ Head(pending) \notin {"msg", "hb"}
    /\ UNCHANGED reads
    /\ ReaderReturns(TRUE)

(* ------------------------------------------------------- write goroutine *)
Written(ok) == \/ ok /\ sock # "closed"
               \/ ~ok /\ (sock # "open" \/ "write_fails" \in Env)

\* A tick: after two silent intervals the loop is left, with chSend open;
\* otherwise the goroutine goes on to send a heartbeat to itself.
WriterTick ==
    /\ writer = "select" /\ ticks < MaxTicks
    /\ ticks' = ticks + 1 /\ quiet' = quiet + 1
    /\ writer' = IF quiet >= 2 THEN "flush" ELSE "tick"
    /\ timedOut' = (quiet >= 2)
    /\ UNCHANGED <<reader, pending, reads, chMessage, recvClosed, accepted,
                   chSend, sendClosed, writeFailed, connVars, handlerVars,
                   serverVars, senderVars, watcher>>

WriterHeartbeat ==
    /\ writer = "tick" /\ Len(chSend) < SendBacklog
    /\ chSend' = Append(chSend, "hb")
    /\ writer' = "select"
    /\ UNCHANGED <<ticks, sendClosed, writeFailed, timedOut, connVars, readVars,
                   handlerVars, serverVars, senderVars, watcher>>

WriterSend ==
    /\ writer = "select" /\ chSend # <<>>
    /\ chSend' = Tail(chSend)
    /\ \/ Written(TRUE) /\ UNCHANGED <<writer, writeFailed>>
       \/ Written(FALSE) /\ writer' = "flush" /\ writeFailed' = TRUE
    /\ UNCHANGED <<ticks, sendClosed, timedOut, connVars, readVars, handlerVars,
                   serverVars, senderVars, watcher>>

\* Mutants of WriterCancelled: the rest of chSend is not sent; nor is chSend
\* closed.
WriterQuits ==
    /\ writer = "select" /\ cancelled
    /\ sendClosed' = TRUE /\ writer' = "done" /\ sock' = "closed"
    /\ UNCHANGED <<timedOut, state, cancelled, timer, main, ticks, chSend, writeFailed, readVars,
                   handlerVars, serverVars, senderVars, watcher>>
WriterQuitsOpen ==
    /\ writer = "select" /\ cancelled
    /\ writer' = "done" /\ sock' = "closed"
    /\ UNCHANGED <<timedOut, state, cancelled, timer, main, ticks, chSend, sendClosed, writeFailed,
                   readVars, handlerVars, serverVars, senderVars, watcher>>

WriterCancelled ==
    /\ writer = "select" /\ cancelled
    /\ sendClosed' = TRUE
    /\ writer' = "flush"
    /\ UNCHANGED <<ticks, chSend, writeFailed, timedOut, connVars, readVars, handlerVars,
                   serverVars, senderVars, watcher>>

\* The goroutine returns: the socket is closed and errCtx cancelled.
WriterReturns ==
    /\ writer' = "done" /\ sock' = "closed" /\ cancelled' = TRUE
    /\ UNCHANGED <<timedOut, state, timer, main, ticks, sendClosed, readVars, handlerVars,
                   serverVars, senderVars, watcher>>

\* The second loop takes from chSend only, and ends on nil (the channel is
\* closed and empty) or on a failing Write.
FlushData ==
    /\ writer = "flush" /\ chSend # <<>>
    /\ chSend' = Tail(chSend)
    /\ \/ /\ Written(TRUE)
          /\ UNCHANGED <<writer, ticks, sendClosed, writeFailed, timedOut, connVars, readVars,
                         handlerVars, serverVars, senderVars, watcher>>
       \/ Written(FALSE) /\ writeFailed' = TRUE /\ WriterReturns

FlushNil ==
    /\ writer = "flush" /\ chSend = <<>> /\ sendClosed
    /\ UNCHANGED <<chSend, writeFailed>>
    /\ WriterReturns

WatcherReturns ==
    /\ watcher = "run" /\ cancelled
    /\ watcher' = "done"
    /\ UNCHANGED <<connVars, readVars, writeVars, handlerVars, serverVars, senderVars>>

(* ------------------------------------------------- serve and the handler *)
OpenSession ==
    /\ main = "open"
    /\ main' = "serve" /\ registered' = TRUE /\ active' = active + 1
    /\ UNCHANGED <<state, sock, cancelled, timer, readVars, writeVars,
                   handlerVars, senderVars, watcher>>

\* Mutant of Recv: a closed connection is reported before what is left.
RecvChecksState ==
    /\ main = "serve" /\ ~broken
    /\ \/ /\ chMessage # <<>>
          /\ delivered' = Head(chMessage) /\ chMessage' = Tail(chMessage)
          /\ UNCHANGED broken
       \/ /\ recvClosed \/ state = "closed"
          /\ broken' = TRUE
          /\ UNCHANGED <<chMessage, delivered>>
    /\ UNCHANGED <<reader, pending, reads, quiet, recvClosed, accepted, connVars,
                   writeVars, serverVars, senderVars, watcher>>

Recv ==
    /\ main = "serve" /\ ~broken
    /\ \/ /\ chMessage # <<>>
          /\ delivered' = Head(chMessage) /\ chMessage' = Tail(chMessage)
          /\ UNCHANGED broken
       \/ /\ chMessage = <<>> /\ recvClosed
          /\ broken' = TRUE
          /\ UNCHANGED <<chMessage, delivered>>
    /\ UNCHANGED <<reader, pending, reads, quiet, recvClosed, accepted, connVars,
                   writeVars, serverVars, senderVars, watcher>>

HandlerReturns ==
    /\ main = "serve" /\ (broken \/ "quit" \in Env)
    /\ main' = "wait" /\ state' = "closed" /\ cancelled' = TRUE
    /\ UNCHANGED <<sock, timer, readVars, writeVars, handlerVars, serverVars,
                   senderVars, watcher>>

\* errGroup.Wait returns; then the deferred calls of serve.
ServeReturns ==
    /\ main = "wait" /\ reader = "done" /\ writer = "done" /\ watcher = "done"
    /\ main' = "done" /\ sock' = "closed"
    /\ active' = active - 1 /\ registered' = FALSE
    /\ UNCHANGED <<state, cancelled, timer, readVars, writeVars, handlerVars,
                   senderVars, watcher>>

(* ------------------------------------------- other goroutines, the world *)
\* Only a registered session can be found; a caller keeps it while it sends.
CallSend(s) ==
    /\ registered /\ sender[s] = "idle" /\ calls[s] < MaxCalls
    /\ calls' = [calls EXCEPT ![s] = @ + 1]
    /\ \E op \in {"push", "kick"} : sender' = [sender EXCEPT ![s] = op]
    /\ UNCHANGED <<connVars, readVars, writeVars, handlerVars, serverVars, watcher>>

\* Conn.send: it waits for room; on a closed channel it panics, recovers and
\* returns ErrBrokenPipe. Kick goes on to Close whatever send returned.
Send(s) ==
    /\ sender[s] \in {"push", "kick"}
    /\ \/ sendClosed /\ UNCHANGED chSend
       \/ /\ ~sendClosed /\ Len(chSend) < SendBacklog
          /\ chSend' = Append(chSend, IF sender[s] = "kick" THEN "kick" ELSE "data")
    /\ sender' = [sender EXCEPT ![s] = IF @ = "kick" THEN "close" ELSE "idle"]
    /\ UNCHANGED <<calls, timedOut, writer, ticks, sendClosed, writeFailed, connVars,
                   readVars, handlerVars, serverVars, watcher>>

Close(s) ==
    /\ sender[s] = "close"
    /\ sender' = [sender EXCEPT ![s] = "idle"]
    /\ \/ state = "closed" /\ UNCHANGED <<state, cancelled>>
       \/ state # "closed" /\ state' = "closed" /\ cancelled' = TRUE
    /\ UNCHANGED <<calls, sock, timer, main, readVars, writeVars, handlerVars,
                   serverVars, watcher>>

PeerCloses ==
    /\ sock = "open" /\ sock' = "peer_closed"
    /\ UNCHANGED <<state, cancelled, timer, main, readVars, writeVars,
                   handlerVars, serverVars, senderVars, watcher>>

\* Server.Shutdown cancels server.ctx, and with it every context below.
Shutdown ==
    /\ "shutdown" \in Env /\ ~cancelled
    /\ cancelled' = TRUE
    /\ timer' = [t \in {"hs", "ack"} |-> Disarm(t)]
    /\ UNCHANGED <<state, sock, main, readVars, writeVars, handlerVars,
                   serverVars, senderVars, watcher>>

Handshake == \/ HandshakeOk \/ HandshakeFails
             \/ \E b \in Batches : AckOk(b)
             \/ \E t \in {"hs", "ack"} : TimerExpires(t) \/ TimerCloses(t)
Reader == ReadFails \/ ProcessPacket \/ ProcessInvalid
Writer == WriterHeartbeat \/ WriterSend \/ WriterCancelled \/ FlushData \/ FlushNil
Serve == OpenSession \/ Recv \/ HandlerReturns \/ ServeReturns
Caller(s) == Send(s) \/ Close(s)

Next ==
    \/ Handshake \/ Reader \/ Writer \/ WatcherReturns \/ Serve
    \/ \E b \in Batches : ReadData(b)
    \/ WriterTick \/ PeerCloses \/ Shutdown
    \/ \E s \in Senders : CallSend(s) \/ Caller(s)

Spec == Init /\ [][Next]_vars

(* Goroutines and timers run; a Write returns, which asks of a client that   *)
(* it goes on reading. Nothing is asked of the client's packets, of ticks,   *)
(* of callers, or of a handler that quits early. Each goroutine takes        *)
(* finitely many steps between two of those, so that it is enough to ask     *)
(* that the process as a whole goes on while one of them can.                *)
Progress ==
    \/ Reader \/ Writer \/ WatcherReturns
    \/ OpenSession \/ Recv \/ (broken /\ HandlerReturns) \/ ServeReturns
    \/ HandshakeFails /\ sock # "open"
    \/ \E t \in {"hs", "ack"} : TimerExpires(t) \/ TimerCloses(t)
    \/ \E s \in Senders : Caller(s)

Fairness == WF_vars(Progress)

FairSpec == Spec /\ Fairness

(* -------------------------------------------------------------- properties *)
(* Recv hands over every message that was received, also after the           *)
(* connection has closed, before it reports ErrBrokenPipe (conn.go:571).     *)
RecvDrains == broken => delivered = accepted

(* What was sent before the close is written before the socket is closed     *)
(* (conn.go:453), unless a Write failed; a kick packet in particular.        *)
SendsFlushed == writer = "done" /\ ~writeFailed => chSend = <<>>

(* A client that never completes the handshake is dropped (conn.go:213-223,  *)
(* 287-297), unless Shutdown has cancelled the context of the timer, which   *)
(* then never closes the socket.                                             *)
HandshakeEnds == main \in {"handshake", "ack"} ~> (main \notin {"handshake", "ack"} \/ cancelled)

(* The write goroutine will never close chSend: it has left its first loop   *)
(* by a heartbeat timeout (conn.go:430) or a failed Write (conn.go:441), or  *)
(* it waits for room in the channel that it alone empties (conn.go:433).     *)
SendLeftOpen ==
    /\ ~sendClosed
    /\ \/ writer \in {"flush", "done"} /\ (timedOut \/ writeFailed)
       \/ writer = "tick" /\ Len(chSend) = SendBacklog

(* A Push or Kick on a closed connection returns (conn.go:61), unless chSend *)
(* stays open for ever.                                                      *)
SendReturns ==
    \A s \in Senders : (state = "closed" /\ sender[s] \in {"push", "kick"})
                           ~> (sender[s] \notin {"push", "kick"} \/ SendLeftOpen)

(* The handler has gone and the read goroutine waits for room in chMessage   *)
(* (conn.go:566).                                                            *)
ReaderStuck ==
    /\ main = "wait" /\ reader = "run" /\ Len(chMessage) = RecvBacklog
    /\ pending # <<>> /\ Head(pending) = "msg"

(* Either side has closed the connection, or its context is cancelled, or    *)
(* the write goroutine has left its first loop.                              *)
Closing == state = "closed" \/ sock # "open" \/ cancelled \/ writer = "flush"

(* A connection that is closed by either side, by a kick, by the handler, by *)
(* Shutdown or by the heartbeat check is served to its end: serve closes the *)
(* socket (conn.go:325) and returns, and the session leaves the server.      *)
(* There are three ways to miss it: chSend is left open, so that the flush   *)
(* loop (conn.go:454) waits; the read goroutine waits for a handler that has *)
(* gone; or a silent client is in a handshake whose timer Shutdown stopped.  *)
ServeEnds ==
    Closing ~> \/ main = "done"
               \/ SendLeftOpen
               \/ ReaderStuck
               \/ main \in {"handshake", "ack"} /\ cancelled

(* ----------------------------------------------- the inductive invariant *)
(* The goroutines of a connection start after the handshake; the session is  *)
(* registered and counted from OpenSession to the return of serve.           *)
Lifecycle ==
    /\ main \in {"handshake", "ack"} => {reader, writer, watcher} = {"off"}
    /\ main = "done" => {reader, writer, watcher} \subseteq {"off", "done"} /\ sock = "closed"
    /\ registered <=> main \in {"serve", "wait"}
    /\ active = IF registered THEN 1 ELSE 0

(* A write goroutine that has ended without a failed Write has emptied       *)
(* chSend, and nothing can be added: the channel is closed.                  *)
SendQueue ==
    writer = "done" => writeFailed \/ (sendClosed /\ chSend = <<>>)

(* chMessage holds the messages that were accepted and not yet delivered, in *)
(* their order; it is closed only by the read goroutine's return.            *)
RecvQueue ==
    /\ accepted = delivered + Len(chMessage)
    /\ \A i \in 1 .. Len(chMessage) : chMessage[i] = delivered + i
    /\ recvClosed => reader = "done"
    /\ broken => recvClosed /\ chMessage = <<>>

(* What every state of a connection keeps (conn.go:325-503).                 *)
ConnInv == TypeOK /\ Lifecycle /\ SendQueue /\ RecvQueue
=============================================================================
