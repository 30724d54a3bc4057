----------------------------- MODULE GateServer -----------------------------
(* The gate server around its connections (gate/server.go): accepting,       *)
(* maintenance, and Shutdown with its Kick, against connections that come,   *)
(* register a session under mu, and end. A connection is what GateConn.tla   *)
(* models in full; here it is how far it has come and what its client does   *)
(* to it. The counters of Stat are left out.                                 *)
EXTENDS Integers, FiniteSets

CONSTANTS
    Conns,
    NoConn,
    MaxMaintains    \* bound: calls of Maintain

ASSUME GateServerAssumption ==
    IsFiniteSet(Conns) /\ NoConn \notin Conns /\ MaxMaintains \in Nat

VARIABLES
    isWebsocket,    \* configuration
    status,         \* Server.state
    at,             \* a connection: from the listener to the end of serve
    grouped,        \* the connections errGroup waits for (websocket only)
    client,         \* what the client does to the write goroutine of a connection
    closed,         \* the context of a connection is cancelled
    stuck,          \* its read goroutine waits on a full chMessage, and the handler has gone
    sessions,       \* Server.sessions
    shutdown,       \* where Shutdown is
    toKick, kicking,    \* the range of Kick, the session it is at
    cancelled,      \* Server.ctx is cancelled
    maintain,       \* a Maintain between its test and its set
    maintains,
    reopened        \* history: that set has undone Shutdown's

connVars == <<at, grouped, client, closed, stuck, sessions>>
shutVars == <<shutdown, toKick, kicking, cancelled>>
maintVars == <<maintain, maintains, reopened>>
vars == <<isWebsocket, status, connVars, shutVars, maintVars>>

(* slow: the client does not read, so that a Write does not return, and      *)
(* chSend has room; full: it has none, and the write goroutine is in a       *)
(* Write, has ended, or waits for room itself (conn.go:433). jammed: a Write *)
(* has failed or the heartbeat check has given up, and the write goroutine   *)
(* waits on an open and empty chSend (conn.go:454).                          *)
Behaviours == {"ok", "slow", "full", "jammed", "left"}

\* The shape of the state.
TypeOK ==
    /\ isWebsocket \in BOOLEAN
    /\ status \in {"working", "maintain", "closed"}
    /\ at \in [Conns -> {"none", "upgraded", "wrapped", "accepted", "handshake", "open", "serve", "remove", "done"}]
    /\ grouped \subseteq Conns /\ closed \subseteq Conns /\ stuck \subseteq Conns
    /\ sessions \subseteq {c \in Conns : at[c] \in {"serve", "remove"}}
    /\ client \in [Conns -> Behaviours]
    /\ shutdown \in {"none", "closed", "kick", "wait", "join", "done"}
    /\ toKick \subseteq Conns /\ kicking \in Conns \cup {NoConn}
    /\ cancelled \in BOOLEAN /\ reopened \in BOOLEAN
    /\ maintain \in {"none", "working", "maintain"}
    /\ maintains \in 0 .. MaxMaintains

Init ==
    /\ isWebsocket \in BOOLEAN /\ status = "working"
    /\ at = [c \in Conns |-> "none"] /\ grouped = {}
    /\ closed = {} /\ stuck = {} /\ sessions = {}
    /\ client = [c \in Conns |-> "ok"]
    /\ shutdown = "none" /\ toKick = {} /\ kicking = NoConn /\ cancelled = FALSE
    /\ maintain = "none" /\ maintains = 0 /\ reopened = FALSE

Goes(c, from, to) == at[c] = from /\ at' = [at EXCEPT ![c] = to]

\* Mutant of Locked: mu is released when Shutdown returns.
LockedByWait == shutdown \in {"kick", "wait", "join"}

\* mu is held, for reading, while Kick ranges over the sessions.
Locked == shutdown = "kick"

(* -------------------------------------------------------------- accepting *)
\* The listener accepts until Shutdown closes it; an accepted TCP connection
\* goes to handleConn, a websocket is upgraded first.
Accept(c) ==
    /\ shutdown = "none"
    /\ Goes(c, "none", IF isWebsocket THEN "upgraded" ELSE "accepted")
    /\ UNCHANGED <<isWebsocket, status, grouped, client, closed, sessions, stuck, shutVars, maintVars>>

\* serveWsConn: the state first, then handleConn in a goroutine of errGroup,
\* also when errGroup.Wait has returned by then.
ServeWsConn(c) ==
    /\ Goes(c, "upgraded", IF status = "working" THEN "wrapped" ELSE "done")
    /\ UNCHANGED <<isWebsocket, status, grouped, client, closed, sessions, stuck, shutVars, maintVars>>

GroupConn(c) ==
    /\ Goes(c, "wrapped", "accepted")
    /\ grouped' = grouped \cup {c}
    /\ UNCHANGED <<isWebsocket, status, client, closed, sessions, stuck, shutVars, maintVars>>

\* Mutant of HandleConn: the state is not looked at again.
HandleConnUnchecked(c) ==
    /\ Goes(c, "accepted", "handshake")
    /\ closed' = IF cancelled THEN closed \cup {c} ELSE closed
    /\ UNCHANGED <<isWebsocket, status, grouped, client, sessions, stuck, shutVars, maintVars>>

HandleConn(c) ==
    /\ Goes(c, "accepted", IF status = "working" THEN "handshake" ELSE "done")
    /\ grouped' = IF status = "working" THEN grouped ELSE grouped \ {c}
    /\ closed' = IF cancelled /\ status = "working" THEN closed \cup {c} ELSE closed
    /\ UNCHANGED <<isWebsocket, status, client, sessions, stuck, shutVars, maintVars>>

(* ------------------------------------------------------------ connections *)
HandshakeOk(c) ==
    /\ client[c] # "left" /\ Goes(c, "handshake", "open")
    /\ UNCHANGED <<isWebsocket, status, grouped, client, closed, sessions, stuck, shutVars, maintVars>>

\* The client leaves, sends something else, or is silent for too long; but
\* with its context cancelled the timer does not close the socket any more.
HandshakeFails(c) ==
    /\ Goes(c, "handshake", "done") /\ (client[c] = "left" \/ c \notin closed)
    /\ grouped' = grouped \ {c}
    /\ UNCHANGED <<isWebsocket, status, client, closed, sessions, stuck, shutVars, maintVars>>

StoreSession(c) ==
    /\ ~Locked /\ Goes(c, "open", "serve")
    /\ sessions' = sessions \cup {c}
    /\ UNCHANGED <<isWebsocket, status, grouped, client, closed, stuck, shutVars, maintVars>>

\* The handler returns by itself; from then on nobody empties chMessage.
HandlerQuits(c) ==
    /\ at[c] = "serve"
    /\ closed' = closed \cup {c}
    /\ stuck' \in {stuck, stuck \cup {c}}
    /\ UNCHANGED <<isWebsocket, status, at, grouped, client, sessions, shutVars, maintVars>>

\* A closed connection is served to its end unless a Write does not return,
\* the write goroutine is jammed or the read goroutine stuck (the three ways
\* of GateConn!ServeEnds).
ServeEnds(c) ==
    /\ c \in closed \/ client[c] = "left"
    /\ client[c] \in {"ok", "left"} /\ c \notin stuck /\ Goes(c, "serve", "remove")
    /\ UNCHANGED <<isWebsocket, status, grouped, client, closed, stuck, sessions, shutVars, maintVars>>

\* Mutant of SessionClosed: the session stays in the map.
SessionKept(c) ==
    /\ ~Locked /\ Goes(c, "remove", "done")
    /\ grouped' = grouped \ {c}
    /\ UNCHANGED <<isWebsocket, status, client, closed, sessions, stuck, shutVars, maintVars>>

SessionClosed(c) ==
    /\ ~Locked /\ Goes(c, "remove", "done")
    /\ sessions' = sessions \ {c} /\ grouped' = grouped \ {c}
    /\ UNCHANGED <<isWebsocket, status, client, closed, stuck, shutVars, maintVars>>

\* Clients leave, or stop reading and go on; sends fill a chSend that the
\* write goroutine, after two failed Writes, does not empty any more.
ClientLeaves(c) ==
    /\ at[c] \notin {"none", "done"} /\ client[c] = "ok"
    /\ client' = [client EXCEPT ![c] = "left"]
    /\ UNCHANGED <<isWebsocket, status, at, grouped, closed, sessions, stuck, shutVars, maintVars>>

ClientStalls(c, b) ==
    /\ at[c] = "serve"
    /\ \/ {client[c], b} \in {{"ok", "slow"}, {"ok", "full"}}
       \/ client[c] = "jammed" /\ b = "full"
    /\ client' = [client EXCEPT ![c] = b]
    /\ UNCHANGED <<isWebsocket, status, at, grouped, closed, sessions, stuck, shutVars, maintVars>>

\* The write goroutine leaves its first loop with chSend open: a Write has
\* failed, or the client was silent for two heartbeats.
WriterLeaves(c) ==
    /\ at[c] = "serve" /\ client[c] # "jammed"
    /\ client' = [client EXCEPT ![c] = "jammed"]
    /\ UNCHANGED <<isWebsocket, status, at, grouped, closed, sessions, stuck, shutVars, maintVars>>

(* --------------------------------------------------------------- Maintain *)
MaintainTest(m) ==
    /\ maintains < MaxMaintains /\ maintains' = maintains + 1
    /\ maintain = "none" /\ status \in {"working", "maintain"}
    /\ maintain' = m
    /\ UNCHANGED <<isWebsocket, status, connVars, shutVars, reopened>>

\* The set is not tied to the test: Shutdown may have come between.
MaintainSet ==
    /\ maintain # "none" /\ maintain' = "none"
    /\ status' = maintain
    /\ reopened' = (reopened \/ status = "closed")
    /\ UNCHANGED <<isWebsocket, connVars, shutVars, maintains>>

(* --------------------------------------------------------------- Shutdown *)
Shut(from, to) ==
    /\ shutdown = from /\ shutdown' = to
    /\ UNCHANGED <<isWebsocket, maintVars, at, grouped, stuck, sessions>>

\* The state first, then the listener; upgraded connections stay.
ShutdownClosed ==
    /\ status # "closed" /\ Shut("none", "closed") /\ status' = "closed"
    /\ UNCHANGED <<client, closed, toKick, kicking, cancelled>>

KickBegin ==
    /\ Shut("closed", "kick") /\ toKick' = sessions
    /\ UNCHANGED <<status, client, closed, kicking, cancelled>>

KickNext(c) ==
    /\ Shut("kick", "kick") /\ kicking = NoConn /\ c \in toKick
    /\ kicking' = c /\ toKick' = toKick \ {c}
    /\ UNCHANGED <<status, client, closed, cancelled>>

\* Session.Kick: send waits for room in chSend, then Close. A jammed write
\* goroutine takes the packet; on a socket that is still good it writes it and
\* waits on, otherwise it fails and ends.  One whose client has left ends, or
\* is jammed by this very packet.
KickSession ==
    /\ Shut("kick", "kick") /\ kicking # NoConn /\ client[kicking] # "full"
    /\ kicking' = NoConn
    /\ closed' = closed \cup {kicking}
    /\ \/ UNCHANGED client
       \/ client[kicking] = "jammed" /\ client' = [client EXCEPT ![kicking] = "left"]
       \/ client[kicking] = "left" /\ at[kicking] = "serve"
          /\ client' = [client EXCEPT ![kicking] = "jammed"]
    /\ UNCHANGED <<status, toKick, cancelled>>

KickUnlock ==
    /\ Shut("kick", "wait") /\ toKick = {} /\ kicking = NoConn
    /\ UNCHANGED <<status, client, closed, toKick, kicking, cancelled>>

\* Kick ends when the map is empty, or after 120 seconds; then the contexts of
\* all connections are cancelled.
ShutdownCancel ==
    /\ Shut("wait", "join")
    /\ cancelled' = TRUE
    /\ closed' = closed \cup {c \in Conns : at[c] \in {"handshake", "open", "serve", "remove"}}
    /\ UNCHANGED <<status, client, toKick, kicking>>

\* errGroup.Wait; it holds no TCP connection.
ShutdownJoin ==
    /\ Shut("join", "done") /\ grouped = {}
    /\ UNCHANGED <<status, client, closed, toKick, kicking, cancelled>>

(* ------------------------------------------------------------- the system *)
ConnStep(c) ==
    \/ ServeWsConn(c) \/ GroupConn(c) \/ HandleConn(c) \/ HandshakeFails(c)
    \/ StoreSession(c) \/ ServeEnds(c) \/ SessionClosed(c)

ShutdownStep ==
    \/ KickBegin \/ KickSession \/ KickUnlock \/ ShutdownCancel \/ ShutdownJoin
    \/ \E c \in Conns : KickNext(c)

Next ==
    \/ ShutdownClosed \/ ShutdownStep \/ MaintainSet
    \/ \E m \in {"working", "maintain"} : MaintainTest(m)
    \/ \E c \in Conns : \/ Accept(c) \/ ConnStep(c) \/ HandshakeOk(c) \/ HandlerQuits(c)
                        \/ ClientLeaves(c) \/ WriterLeaves(c)
                        \/ \E b \in Behaviours : ClientStalls(c, b)

Spec == Init /\ [][Next]_vars

(* The goroutines of the server and of its connections run, and time passes  *)
(* (the handshake's timeout, the 120 seconds of Kick). Nothing is asked of    *)
(* the clients, the handler, or the callers of Maintain and Shutdown.        *)
Fairness == WF_vars(ShutdownStep) /\ \A c \in Conns : WF_vars(ConnStep(c))

FairSpec == Spec /\ Fairness

(* ------------------------------------------------------------- properties *)
\* A client in its handshake that the cancelled timer does not drop any more.
Silent(c) == at[c] = "handshake" /\ c \in closed

\* A session whose goroutines cannot end.
CannotEnd(c) == client[c] \in {"slow", "full", "jammed"} \/ c \in stuck

\* What keeps Shutdown from returning: a session whose chSend is full while
\* Kick holds mu, or a websocket connection that cannot end.
Holds(c) == \/ client[c] = "full"
            \/ isWebsocket /\ (CannotEnd(c) \/ Silent(c))

(* Shutdown returns (server.go:278), whatever connections register and end   *)
(* while it kicks and waits, also those that store their session after Kick  *)
(* has ranged over the map; unless a connection goes on to hold it as above: *)
(* its client does not read, its write goroutine has left chSend open        *)
(* (conn.go:454), its read goroutine waits for a handler that has gone       *)
(* (conn.go:566), or it is silent in a handshake without timer (conn.go:217).*)
ShutdownReturns ==
    <>[](\A c \in Conns : ~Holds(c)) => ((shutdown # "none") ~> (shutdown = "done"))

(* A session that is there when the server's context is cancelled ends, and  *)
(* leaves the map (server.go:443), also a TCP session, for which Shutdown    *)
(* does not wait, and one that was kicked before; unless one of its          *)
(* goroutines cannot end.                                                    *)
SessionsEnd ==
    \A c \in Conns :
        <>[]~CannotEnd(c) => ((cancelled /\ c \in sessions) ~> c \notin sessions)

(* When Shutdown has returned, no websocket connection is being served nor   *)
(* will be (server.go:293): one that was upgraded before the close finds the *)
(* state closed in handleConn. Only a Maintain whose set comes after the     *)
(* close lifts that (server.go:267-275).                                     *)
NoConnAfterShutdown ==
    (shutdown = "done" /\ isWebsocket /\ ~reopened) =>
        \A c \in Conns : at[c] \in {"none", "upgraded", "wrapped", "accepted", "done"}

(* The shape of the state, and nothing served after Shutdown (server.go:293).*)
ServerInv == TypeOK /\ NoConnAfterShutdown
(* ------------------------------------------------ the inductive invariant *)
\* errGroup has every websocket connection from Go to the end of handleConn.
Serving == {"accepted", "handshake", "open", "serve", "remove"}

GroupHasServed == isWebsocket => \A c \in Conns : at[c] \in Serving => c \in grouped

\* Shutdown's state stays, as long as no Maintain has overwritten it.
StaysClosed == shutdown # "none" /\ ~reopened => status = "closed"

\* What every reachable state of the server keeps.
ServerIInv == ServerInv /\ GroupHasServed /\ StaysClosed
=============================================================================
