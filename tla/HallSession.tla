----------------------------- MODULE HallSession -----------------------------
(***************************************************************************)
(* framework/smallgame/game/hall: the halls (game servers) of a cluster,   *)
(* each serving client streams, over the user lock of PlayerKeys.          *)
(*                                                                         *)
(* A stream s is one run of hall_server.ClientStream in hall HallOf[s] for *)
(* user UserOf[s]; the session it creates has the same name.  At the same  *)
(* time run: the body of Close of a session (whoever won the isClosed CAS),*)
(* the UserInstead handler a login called on the hall that has the lock,   *)
(* Kick handlers, and the stop loop of hall_service.Serve.  A step is one  *)
(* access to etcd, to localPlayers, to sessionDict or to a field of the    *)
(* session that another goroutine reads.                                   *)
(***************************************************************************)
EXTENDS PlayerKeys, FiniteSets

CONSTANTS
    Streams, HallOf, UserOf,
    Kicks, KickAt, KickUser,    \* Kick requests, their hall and user
    NoStream,
    Env                         \* what the environment may do, see EnvKinds

\* "login_overlap"  two logins of one user run at the same time
\* "same_hall"      a login comes to a hall that has, or is still closing, a
\*                  session of the user
\* "load_fails"     NewPlayer or player.Load fails
\* "unread"         a client goes away with responses still in the channel
\* "slow_client"    a client does not read, and chClientResponse is full
\* "commit_fails"   the Commit of a lock or an unlock reports an error, whether
\*                  or not etcd has applied it
\* "crash"          a hall crashes (a panic of the code crashes it anyway)
\* "stop"           a hall is stopped
\* "stop_in_login"  ... while a login is in progress, or before one
EnvKinds == {"login_overlap", "same_hall", "load_fails", "unread", "slow_client",
             "commit_fails", "crash", "stop", "stop_in_login"}

ASSUME HallAssumption ==
    /\ HallOf \in [Streams -> Peers] /\ UserOf \in [Streams -> Users]
    /\ KickAt \in [Kicks -> Peers] /\ KickUser \in [Kicks -> Users]
    /\ Streams \cap Kicks = {} /\ NoStream \notin Streams
    /\ Env \subseteq EnvKinds

Requests == Streams \cup Kicks

VARIABLES
    phase,      \* per hall: "down", "up", "stopping", "stopped"
    login,      \* where ClientStream of the stream is
    close,      \* where the body of Close of the session is
    rpc,        \* where the UserInstead (or Kick) handler of the request is
    target,     \* the hall the UserInstead of a stream goes to
    victim,     \* the session a handler found in sessionDict
    tok,        \* the CreateRevision an UnlockLocalUser in progress loaded, and
                \* that of the lock a login has taken and not stored
    isClosed,   \* hall_session.isClosed
    cancel,     \* clientCancelFunc: "nil", "set", "called"
    resp,       \* chClientResponse: "nil", "open", "full", "closed", "abandoned"
    dict,       \* hall_service.sessionDict
    count,      \* hall_service.sessionCount, an int64
    stopAt,     \* where the stop loop is: "none", "range", "close"
    toClose,    \* the sessions its Range collected and it has not closed yet
    waitFor     \* the session whose Close it is in

threadVars == <<login, close, rpc, target, victim, tok>>
sessionVars == <<isClosed, cancel, resp>>
dictVars == <<dict, count>>
stopVars == <<phase, stopAt, toClose, waitFor>>
vars == <<keyVars, localPlayers, threadVars, sessionVars, dictVars, stopVars>>

LoginLabels == {"new", "lock1", "store", "instead", "lock2", "check", "insert", "count",
                "loading", "bind", "bind_cancel", "running", "exit", "closing", "uncount",
                "load", "txn", "del", "failed", "refused", "unreachable", "lock_lost",
                "done", "dead"}
CloseLabels == {"none", "logout", "load", "txn", "del", "dict", "count", "done"}
RpcLabels == {"none", "request", "load", "txn", "del", "send", "blocked",
              "close", "wait", "ok", "err", "lost"}

TypeOK ==
    /\ KeysTypeOK
    /\ phase \in [Peers -> {"down", "up", "stopping", "stopped"}]
    /\ login \in [Streams -> LoginLabels]
    /\ close \in [Streams -> CloseLabels]
    /\ rpc \in [Requests -> RpcLabels]
    /\ target \in [Requests -> Peers \cup {NoPeer}]
    /\ victim \in [Requests -> Streams \cup {NoStream}]
    /\ tok \in [{"login", "close", "rpc"} -> [Requests -> Nat]]
    /\ isClosed \in [Streams -> BOOLEAN]
    /\ cancel \in [Streams -> {"nil", "set", "called"}]
    /\ resp \in [Streams -> {"nil", "open", "full", "closed", "abandoned"}]
    /\ dict \in [Peers -> [Users -> Streams \cup {NoStream}]]
    /\ count \in [Peers -> Int]
    /\ stopAt \in [Peers -> {"none", "range", "close"}]
    /\ toClose \in [Peers -> SUBSET Streams]
    /\ waitFor \in [Peers -> Streams \cup {NoStream}]

Init ==
    /\ KeysInit
    /\ phase = [p \in Peers |-> "up"]
    /\ login = [s \in Streams |-> "new"]
    /\ close = [s \in Streams |-> "none"]
    /\ rpc = [h \in Requests |-> "none"]
    /\ target = [h \in Requests |-> IF h \in Kicks THEN KickAt[h] ELSE NoPeer]
    /\ victim = [h \in Requests |-> NoStream]
    /\ tok = [r \in {"login", "close", "rpc"} |-> [h \in Requests |-> 0]]
    /\ isClosed = [s \in Streams |-> FALSE]
    /\ cancel = [s \in Streams |-> "nil"]
    /\ resp = [s \in Streams |-> "nil"]
    /\ dict = [p \in Peers |-> [u \in Users |-> NoStream]]
    /\ count = [p \in Peers |-> 0]
    /\ stopAt = [p \in Peers |-> "none"]
    /\ toClose = [p \in Peers |-> {}]
    /\ waitFor = [p \in Peers |-> NoStream]

-----------------------------------------------------------------------------
GotoLogin(s, l) == login' = [login EXCEPT ![s] = l]
GotoClose(s, l) == close' = [close EXCEPT ![s] = l]
GotoRpc(h, l) == rpc' = [rpc EXCEPT ![h] = l]

User(h) == IF h \in Kicks THEN KickUser[h] ELSE UserOf[h]

\* One step of Registry.UnlockLocalUser, run by a thread that is at label l
\* with revision r loaded and is at k with q afterwards: "txn" and "del" inside
\* the call, "ok" or "refused" when it returns. When Commit reports an error the
\* entry stays, applied or not.
UnlockLabels == {"txn", "del", "ok", "refused"}

UnlockLocalUser(p, u, l, r, k, q) ==
    \/ /\ l = "load"
       /\ k = IF localPlayers[p][u] # 0 THEN "txn" ELSE "refused"
       /\ q = localPlayers[p][u]
       /\ UNCHANGED <<keyVars, localPlayers>>
    \/ /\ l = "txn"
       /\ \/ UnlockTxn(p, u, r) /\ k = "del" /\ q = r
          \/ ~Unlockable(u, r) /\ k = "refused" /\ q = 0 /\ UNCHANGED keyVars
          \/ /\ "commit_fails" \in Env /\ k = "refused" /\ q = 0
             /\ UnlockTxn(p, u, r) \/ UNCHANGED keyVars
       /\ UNCHANGED localPlayers
    \/ /\ l = "del"
       /\ SetEntry(p, u, 0)
       /\ k = "ok" /\ q = 0
       /\ UNCHANGED keyVars

\* Start of the body of Close: the CAS on isClosed is won and the client
\* context is cancelled.
BeginClose(s) ==
    /\ isClosed' = [isClosed EXCEPT ![s] = TRUE]
    /\ cancel' = [cancel EXCEPT ![s] = "called"]
    /\ GotoClose(s, "logout")

-----------------------------------------------------------------------------
(* ClientStream and newSession: login.                                     *)

InLogin(s) == login[s] \in {"lock1", "store", "instead", "lock2", "check", "insert",
                            "count", "loading", "bind", "bind_cancel", "uncount",
                            "load", "txn", "del"}

\* A login is also the UserInstead it called, which outlives its caller.
LoggingIn(s) ==
    \/ InLogin(s)
    \/ rpc[s] \in {"request", "load", "txn", "del", "send", "close", "wait"}

\* The stream has ended, or has not begun, and its session is closed.
Over(s) ==
    /\ login[s] \in {"new", "failed", "refused", "unreachable", "lock_lost", "done", "dead"}
    /\ close[s] \in {"none", "done"}

\* The first message has arrived and NewUser has found the user.
ClientStream(s) ==
    /\ login[s] = "new" /\ phase[HallOf[s]] # "down"
    /\ \A q \in Streams \ {s} : UserOf[q] = UserOf[s] =>
          /\ "login_overlap" \in Env \/ ~LoggingIn(q)
          /\ "same_hall" \in Env \/ HallOf[q] # HallOf[s] \/ Over(q)
    /\ "stop_in_login" \in Env \/ phase[HallOf[s]] = "up"
    /\ GotoLogin(s, "lock1")
    /\ UNCHANGED <<keyVars, localPlayers, close, rpc, target, victim, tok, sessionVars,
                   dictVars, stopVars>>

LockLocalUser(s) ==
    /\ login[s] \in {"lock1", "lock2"}
    /\ LockTxn(HallOf[s], UserOf[s])
    /\ tok' = [tok EXCEPT !["login"][s] = rev + 1]
    /\ GotoLogin(s, "store")
    /\ UNCHANGED <<localPlayers, close, rpc, target, victim, sessionVars, dictVars, stopVars>>

\* Commit reports an error: newSession returns it, before the unlock is
\* deferred. A lock that etcd has applied all the same is in no entry.
LockFails(s) ==
    /\ "commit_fails" \in Env
    /\ login[s] \in {"lock1", "lock2"}
    /\ \/ /\ LockTxn(HallOf[s], UserOf[s])
          /\ tok' = [tok EXCEPT !["login"][s] = rev + 1]
          /\ GotoLogin(s, "lock_lost")
       \/ GotoLogin(s, "refused") /\ UNCHANGED <<keyVars, tok>>
    /\ UNCHANGED <<localPlayers, close, rpc, target, victim, sessionVars, dictVars, stopVars>>

LockStore(s) ==
    /\ login[s] = "store"
    /\ SetEntry(HallOf[s], UserOf[s], tok["login"][s])
    /\ tok' = [tok EXCEPT !["login"][s] = 0]
    /\ GotoLogin(s, "check")
    /\ UNCHANGED <<keyVars, close, rpc, target, victim, sessionVars, dictVars, stopVars>>

\* Refused the first time: UserInstead goes to the holder, unless the peer
\* cache does not have it; then the login fails.  Refused the second time: the login fails.
LockRefused(s) ==
    /\ login[s] \in {"lock1", "lock2"}
    /\ Locked(HallOf[s], UserOf[s])
    /\ \/ /\ login[s] = "lock1"
          /\ GotoLogin(s, "instead")
          /\ target' = [target EXCEPT ![s] = Holder(HallOf[s], UserOf[s])]
          /\ GotoRpc(s, "request")
       \/ /\ GotoLogin(s, IF login[s] = "lock1" THEN "unreachable" ELSE "refused")
          /\ UNCHANGED <<target, rpc>>
    /\ UNCHANGED <<keyVars, localPlayers, close, victim, tok, sessionVars, dictVars, stopVars>>

\* The answer to UserInstead, or the error of a call to a hall that is gone.
InsteadReturns(s) ==
    /\ login[s] = "instead"
    /\ \/ rpc[s] = "ok" /\ GotoLogin(s, "lock2")
       \/ rpc[s] = "err" /\ GotoLogin(s, "refused")
       \/ rpc[s] = "lost" /\ GotoLogin(s, "unreachable")
    /\ GotoRpc(s, "none")
    /\ target' = [target EXCEPT ![s] = NoPeer]
    /\ victim' = [victim EXCEPT ![s] = NoStream]
    /\ UNCHANGED <<keyVars, localPlayers, close, tok, sessionVars, dictVars, stopVars>>

\* sessionDict.Load, before the session is made.
CheckSession(s) ==
    /\ login[s] = "check"
    /\ GotoLogin(s, IF dict[HallOf[s]][UserOf[s]] = NoStream THEN "insert" ELSE "load")
    /\ UNCHANGED <<keyVars, localPlayers, close, rpc, target, victim, tok, sessionVars,
                   dictVars, stopVars>>

\* Mutant of InsertSession: Store instead of LoadOrStore.
InsertAlways(s) ==
    /\ login[s] = "insert"
    /\ dict' = [dict EXCEPT ![HallOf[s]][UserOf[s]] = s]
    /\ GotoLogin(s, "count")
    /\ UNCHANGED <<keyVars, localPlayers, close, rpc, target, victim, tok, count,
                   sessionVars, stopVars>>

\* sessionDict.LoadOrStore ...
InsertSession(s) ==
    LET p == HallOf[s]
        u == UserOf[s]
    IN  /\ login[s] = "insert"
        /\ \/ /\ dict[p][u] = NoStream
              /\ dict' = [dict EXCEPT ![p][u] = s]
              /\ GotoLogin(s, "count")
           \/ /\ dict[p][u] # NoStream
              /\ GotoLogin(s, "load")
              /\ UNCHANGED dict
        /\ UNCHANGED <<keyVars, localPlayers, close, rpc, target, victim, tok, count,
                       sessionVars, stopVars>>

\* ... and then the count, which the stop loop may read in between.
CountSession(s) ==
    /\ login[s] = "count"
    /\ count' = [count EXCEPT ![HallOf[s]] = @ + 1]
    /\ GotoLogin(s, "loading")
    /\ UNCHANGED <<keyVars, localPlayers, close, rpc, target, victim, tok, sessionVars,
                   dict, stopVars>>

LoadSucceeds(s) ==
    /\ login[s] = "loading"
    /\ GotoLogin(s, "bind")
    /\ UNCHANGED <<keyVars, localPlayers, close, rpc, target, victim, tok, sessionVars,
                   dictVars, stopVars>>

\* player.Load failed: out of sessionDict ...
LoadFails(s) ==
    /\ "load_fails" \in Env
    /\ login[s] = "loading"
    /\ dict' = [dict EXCEPT ![HallOf[s]][UserOf[s]] = NoStream]
    /\ GotoLogin(s, "uncount")
    /\ UNCHANGED <<keyVars, localPlayers, close, rpc, target, victim, tok, sessionVars,
                   count, stopVars>>

\* ... then out of the count; the deferred unlock follows.
UncountSession(s) ==
    /\ login[s] = "uncount"
    /\ count' = [count EXCEPT ![HallOf[s]] = @ - 1]
    /\ GotoLogin(s, "load")
    /\ UNCHANGED <<keyVars, localPlayers, close, rpc, target, victim, tok, sessionVars,
                   dict, stopVars>>

\* The deferred UnlockLocalUser of a newSession that fails.
LoginUnlock(s) ==
    /\ login[s] \in {"load", "txn", "del"}
    /\ \E l \in UnlockLabels, r \in 0 .. rev :
          /\ UnlockLocalUser(HallOf[s], UserOf[s], login[s], tok["login"][s], l, r)
          /\ GotoLogin(s, IF l \in {"ok", "refused"} THEN "failed" ELSE l)
          /\ tok' = [tok EXCEPT !["login"][s] = r]
    /\ UNCHANGED <<close, rpc, target, victim, sessionVars, dictVars, stopVars>>

\* ClientStream makes the response channel ...
BindResponse(s) ==
    /\ login[s] = "bind"
    /\ resp' = [resp EXCEPT ![s] = "open"]
    /\ GotoLogin(s, "bind_cancel")
    /\ UNCHANGED <<keyVars, localPlayers, close, rpc, target, victim, tok, isClosed, cancel,
                   dictVars, stopVars>>

\* ... and then the client context; now the stream is served.
BindCancel(s) ==
    /\ login[s] = "bind_cancel"
    /\ cancel' = [cancel EXCEPT ![s] = "set"]
    /\ GotoLogin(s, "running")
    /\ UNCHANGED <<keyVars, localPlayers, close, rpc, target, victim, tok, isClosed, resp,
                   dictVars, stopVars>>

-----------------------------------------------------------------------------
(* ClientStream: the end of a stream.                                      *)

\* client.Send in the response loop blocks, or goes on: what the goroutines
\* of the session put into the channel fills it, or it has room again.
ClientReads(s) ==
    /\ "slow_client" \in Env
    /\ login[s] = "running"
    /\ resp' = [resp EXCEPT ![s] = IF @ = "open" THEN "full" ELSE "open"]
    /\ UNCHANGED <<keyVars, localPlayers, login, close, rpc, target, victim, tok, isClosed,
                   cancel, dictVars, stopVars>>

\* Recv failed: client.Send fails from now on and the response loop ends, with
\* the channel empty or not; its deferred function closes an empty one and
\* leaves the other, taking one message.
ClientGone(s) ==
    /\ login[s] = "running"
    /\ GotoLogin(s, "exit")
    /\ \E c \in {"closed", "abandoned"} :
          /\ c = "abandoned" => "unread" \in Env \/ resp[s] = "full"
          /\ resp' = [resp EXCEPT ![s] = c]
    /\ UNCHANGED <<keyVars, localPlayers, close, rpc, target, victim, tok, isClosed, cancel,
                   dictVars, stopVars>>

\* The client context is done, by Close or by the end of the hall: the
\* response loop, unless it is in client.Send, closes the channel and flushes it.
ClientCancelled(s) ==
    /\ login[s] = "running" /\ resp[s] = "open"
    /\ cancel[s] = "called" \/ phase[HallOf[s]] = "stopped"
    /\ GotoLogin(s, "exit")
    /\ resp' = [resp EXCEPT ![s] = "closed"]
    /\ UNCHANGED <<keyVars, localPlayers, close, rpc, target, victim, tok, isClosed, cancel,
                   dictVars, stopVars>>

\* The deferred function of ClientStream: Close, or nothing if somebody else
\* has closed the session.
StreamClose(s) ==
    /\ login[s] = "exit"
    /\ \/ /\ ~isClosed[s]
          /\ BeginClose(s)
          /\ GotoLogin(s, "closing")
       \/ /\ isClosed[s]
          /\ GotoLogin(s, "done")
          /\ UNCHANGED <<close, isClosed, cancel>>
    /\ UNCHANGED <<keyVars, localPlayers, rpc, target, victim, tok, resp, dictVars, stopVars>>

StreamEnd(s) ==
    /\ login[s] = "closing" /\ close[s] = "done"
    /\ GotoLogin(s, "done")
    /\ UNCHANGED <<keyVars, localPlayers, close, rpc, target, victim, tok, sessionVars,
                   dictVars, stopVars>>

-----------------------------------------------------------------------------
(* hall_session.Close, after the CAS.                                      *)

Logout(s) ==
    /\ close[s] = "logout"
    /\ GotoClose(s, "load")
    /\ UNCHANGED <<keyVars, localPlayers, login, rpc, target, victim, tok, sessionVars,
                   dictVars, stopVars>>

CloseUnlock(s) ==
    /\ close[s] \in {"load", "txn", "del"}
    /\ \E l \in UnlockLabels, r \in 0 .. rev :
          /\ UnlockLocalUser(HallOf[s], UserOf[s], close[s], tok["close"][s], l, r)
          /\ GotoClose(s, IF l \in {"ok", "refused"} THEN "dict" ELSE l)
          /\ tok' = [tok EXCEPT !["close"][s] = r]
    /\ UNCHANGED <<login, rpc, target, victim, sessionVars, dictVars, stopVars>>

CloseDict(s) ==
    /\ close[s] = "dict"
    /\ dict' = [dict EXCEPT ![HallOf[s]][UserOf[s]] = NoStream]
    /\ GotoClose(s, "count")
    /\ UNCHANGED <<keyVars, localPlayers, login, rpc, target, victim, tok, sessionVars,
                   count, stopVars>>

\* Mutant of CloseCount: the count is not taken back.
CloseCounted(s) ==
    /\ close[s] = "count"
    /\ GotoClose(s, "done")
    /\ UNCHANGED <<keyVars, localPlayers, login, rpc, target, victim, tok, sessionVars,
                   dictVars, stopVars>>

CloseCount(s) ==
    /\ close[s] = "count"
    /\ count' = [count EXCEPT ![HallOf[s]] = @ - 1]
    /\ GotoClose(s, "done")
    /\ UNCHANGED <<keyVars, localPlayers, login, rpc, target, victim, tok, sessionVars,
                   dict, stopVars>>

-----------------------------------------------------------------------------
(* hall_service.Instead and Kick on the target hall.                       *)

KickRequest(k) ==
    /\ rpc[k] = "none"
    /\ phase[KickAt[k]] # "down"
    /\ GotoRpc(k, "request")
    /\ UNCHANGED <<keyVars, localPlayers, login, close, target, victim, tok, sessionVars,
                   dictVars, stopVars>>

\* The call reaches nobody.
RequestFails(h) ==
    /\ rpc[h] = "request"
    /\ phase[target[h]] = "down"
    /\ GotoRpc(h, "lost")
    /\ UNCHANGED <<keyVars, localPlayers, login, close, target, victim, tok, sessionVars,
                   dictVars, stopVars>>

\* Mutant of HandlerLoad: the user is unlocked whether or not there is a session.
HandlerUnlocksAlways(h) ==
    /\ rpc[h] = "request"
    /\ phase[target[h]] # "down"
    /\ GotoRpc(h, "load")
    /\ UNCHANGED <<keyVars, localPlayers, login, close, target, victim, tok, sessionVars,
                   dictVars, stopVars>>

\* No session in sessionDict: Instead tries to unlock, Kick fails.
HandlerLoad(h) ==
    /\ rpc[h] = "request"
    /\ phase[target[h]] # "down"
    /\ LET s == dict[target[h]][User(h)]
       IN  \/ s # NoStream /\ GotoRpc(h, "send") /\ victim' = [victim EXCEPT ![h] = s]
           \/ s = NoStream /\ GotoRpc(h, IF h \in Kicks THEN "err" ELSE "load") /\ UNCHANGED victim
    /\ UNCHANGED <<keyVars, localPlayers, login, close, target, tok, sessionVars, dictVars,
                   stopVars>>

HandlerUnlock(h) ==
    /\ rpc[h] \in {"load", "txn", "del"}
    /\ \E l \in UnlockLabels, r \in 0 .. rev :
          /\ UnlockLocalUser(target[h], User(h), rpc[h], tok["rpc"][h], l, r)
          /\ GotoRpc(h, IF l = "refused" THEN "err" ELSE l)
          /\ tok' = [tok EXCEPT !["rpc"][h] = r]
    /\ UNCHANGED <<login, close, target, victim, sessionVars, dictVars, stopVars>>

\* Mutant of HandlerSend: the stream does not close its channel but drops it.
HandlerSendBlocks(h) ==
    /\ rpc[h] = "send"
    /\ GotoRpc(h, IF resp[victim[h]] = "open" THEN "close" ELSE "blocked")
    /\ UNCHANGED <<keyVars, localPlayers, login, close, target, victim, tok, sessionVars,
                   dictVars, stopVars>>

\* sendPacketAndClose: the send on chClientResponse.  A nil channel blocks
\* for ever, a full one until there is room, and a closed one panics: the
\* panic is the returned error.
HandlerSend(h) ==
    /\ rpc[h] = "send"
    /\ LET c == resp[victim[h]]
       IN  \/ c \in {"nil", "abandoned"} /\ GotoRpc(h, "blocked")
           \/ c = "closed" /\ GotoRpc(h, "err")
           \/ c \in {"open", "abandoned"} /\ GotoRpc(h, "close")
    /\ UNCHANGED <<keyVars, localPlayers, login, close, target, victim, tok, sessionVars,
                   dictVars, stopVars>>

\* sendPacketAndClose: Close.  Its error is dropped.  While clientCancelFunc
\* is nil, calling it panics after the CAS and before anything is released;
\* sendPacketAndClose recovers and returns the panic as its error.
HandlerClose(h) ==
    LET s == victim[h]
    IN  /\ rpc[h] = "close"
        /\ \/ isClosed[s] /\ GotoRpc(h, "ok") /\ UNCHANGED <<close, isClosed, cancel>>
           \/ ~isClosed[s] /\ cancel[s] # "nil" /\ BeginClose(s) /\ GotoRpc(h, "wait")
           \/ /\ ~isClosed[s] /\ cancel[s] = "nil"
              /\ isClosed' = [isClosed EXCEPT ![s] = TRUE]
              /\ GotoRpc(h, "err")
              /\ UNCHANGED <<close, cancel>>
        /\ UNCHANGED <<keyVars, localPlayers, login, target, victim, tok, resp, dictVars,
                       stopVars>>

HandlerWait(h) ==
    /\ rpc[h] = "wait" /\ close[victim[h]] = "done"
    /\ GotoRpc(h, "ok")
    /\ UNCHANGED <<keyVars, localPlayers, login, close, target, victim, tok, sessionVars,
                   dictVars, stopVars>>

-----------------------------------------------------------------------------
(* The life of a hall.                                                     *)

\* The process of p is gone: its streams, handlers, sessions and memory.
Die(p) ==
    /\ phase' = [phase EXCEPT ![p] = "down"]
    /\ localPlayers' = [localPlayers EXCEPT ![p] = [u \in Users |-> 0]]
    /\ login' = [s \in Streams |-> IF HallOf[s] = p /\ login[s] # "new" THEN "dead" ELSE login[s]]
    /\ close' = [s \in Streams |-> IF HallOf[s] = p THEN "none" ELSE close[s]]
    /\ rpc' = [h \in Requests |->
                 IF target[h] = p /\ rpc[h] \notin {"none", "ok", "err"} THEN "lost" ELSE rpc[h]]
    /\ tok' = [r \in DOMAIN tok |-> [h \in Requests |->
                 IF (IF r = "rpc" THEN target[h] = p ELSE h \in Streams /\ HallOf[h] = p)
                 THEN 0 ELSE tok[r][h]]]
    /\ victim' = [h \in Requests |-> IF target[h] = p THEN NoStream ELSE victim[h]]
    /\ isClosed' = [s \in Streams |-> HallOf[s] # p /\ isClosed[s]]
    /\ cancel' = [s \in Streams |-> IF HallOf[s] = p THEN "nil" ELSE cancel[s]]
    /\ resp' = [s \in Streams |-> IF HallOf[s] = p THEN "nil" ELSE resp[s]]
    /\ dict' = [dict EXCEPT ![p] = [u \in Users |-> NoStream]]
    /\ count' = [count EXCEPT ![p] = 0]
    /\ stopAt' = [stopAt EXCEPT ![p] = "none"]
    /\ toClose' = [toClose EXCEPT ![p] = {}]
    /\ waitFor' = [waitFor EXCEPT ![p] = NoStream]
    /\ UNCHANGED <<keyVars, target>>

Crash(p) ==
    /\ "crash" \in Env
    /\ phase[p] # "down"
    /\ Die(p)

\* recoverSelfPeerPlayers; sessionDict is empty.
Restart(p) ==
    /\ phase[p] = "down"
    /\ phase' = [phase EXCEPT ![p] = "up"]
    /\ localPlayers' = [localPlayers EXCEPT ![p] = Recovered(p)]
    /\ UNCHANGED <<keyVars, threadVars, sessionVars, dictVars, stopAt, toClose, waitFor>>

\* hall_service.Serve after its context is done.
StopBegin(p) ==
    /\ "stop" \in Env
    /\ phase[p] = "up"
    /\ "stop_in_login" \in Env \/ \A s \in Streams : HallOf[s] = p => ~InLogin(s)
    /\ phase' = [phase EXCEPT ![p] = "stopping"]
    /\ stopAt' = [stopAt EXCEPT ![p] = "range"]
    /\ UNCHANGED <<keyVars, localPlayers, threadVars, sessionVars, dictVars, toClose, waitFor>>

StopRange(p) ==
    /\ stopAt[p] = "range"
    /\ toClose' = [toClose EXCEPT ![p] = {dict[p][u] : u \in Users} \ {NoStream}]
    /\ stopAt' = [stopAt EXCEPT ![p] = "close"]
    /\ UNCHANGED <<keyVars, localPlayers, threadVars, sessionVars, dictVars, phase, waitFor>>

\* Close of a session whose clientCancelFunc is still nil panics here with
\* nobody to recover, and takes the process down.
StopClose(p, s) ==
    /\ stopAt[p] = "close" /\ waitFor[p] = NoStream /\ s \in toClose[p]
    /\ \/ /\ isClosed[s]
          /\ toClose' = [toClose EXCEPT ![p] = @ \ {s}]
          /\ UNCHANGED <<keyVars, localPlayers, threadVars, sessionVars, dictVars, phase,
                         stopAt, waitFor>>
       \/ /\ ~isClosed[s] /\ cancel[s] # "nil"
          /\ BeginClose(s)
          /\ waitFor' = [waitFor EXCEPT ![p] = s]
          /\ toClose' = [toClose EXCEPT ![p] = @ \ {s}]
          /\ UNCHANGED <<keyVars, localPlayers, login, rpc, target, victim, tok, resp,
                         dictVars, phase, stopAt>>
       \/ ~isClosed[s] /\ cancel[s] = "nil" /\ Die(p)

StopWait(p) ==
    /\ waitFor[p] # NoStream /\ close[waitFor[p]] = "done"
    /\ waitFor' = [waitFor EXCEPT ![p] = NoStream]
    /\ UNCHANGED <<keyVars, localPlayers, threadVars, sessionVars, dictVars, phase,
                   stopAt, toClose>>

\* Mutant of StopCheck: off by one.
StopCheckEarly(p) ==
    /\ stopAt[p] = "close" /\ waitFor[p] = NoStream /\ toClose[p] = {}
    /\ \/ count[p] <= 1 /\ stopAt' = [stopAt EXCEPT ![p] = "none"]
                        /\ phase' = [phase EXCEPT ![p] = "stopped"]
       \/ count[p] > 1 /\ stopAt' = [stopAt EXCEPT ![p] = "range"] /\ UNCHANGED phase
    /\ UNCHANGED <<keyVars, localPlayers, threadVars, sessionVars, dictVars, toClose, waitFor>>

StopCheck(p) ==
    /\ stopAt[p] = "close" /\ waitFor[p] = NoStream /\ toClose[p] = {}
    /\ \/ count[p] <= 0 /\ stopAt' = [stopAt EXCEPT ![p] = "none"]
                        /\ phase' = [phase EXCEPT ![p] = "stopped"]
       \/ count[p] > 0 /\ stopAt' = [stopAt EXCEPT ![p] = "range"] /\ UNCHANGED phase
    /\ UNCHANGED <<keyVars, localPlayers, threadVars, sessionVars, dictVars, toClose, waitFor>>

\* Registry.Stop after the services: unregisterLocalPlayers, which goes on when
\* a Commit reports an error, then the end.
Unregister(p, u) ==
    /\ phase[p] = "stopped"
    /\ localPlayers[p][u] # 0
    /\ UnregisterTxn(p, u)
    /\ UNCHANGED <<localPlayers, threadVars, sessionVars, dictVars, stopVars>>

Exit(p) ==
    /\ phase[p] = "stopped"
    /\ "commit_fails" \in Env \/ \A u \in Users : localPlayers[p][u] # 0 => localKey[p][u] = 0
    /\ Die(p)

Login(s) ==
    \/ LockLocalUser(s) \/ LockFails(s) \/ LockStore(s) \/ LockRefused(s) \/ InsteadReturns(s)
    \/ CheckSession(s) \/ InsertSession(s) \/ CountSession(s) \/ LoadSucceeds(s)
    \/ LoadFails(s) \/ UncountSession(s) \/ LoginUnlock(s) \/ BindResponse(s) \/ BindCancel(s)

Ending(s) == ClientCancelled(s) \/ StreamClose(s) \/ StreamEnd(s)

Closing(s) == Logout(s) \/ CloseUnlock(s) \/ CloseDict(s) \/ CloseCount(s)

Handler(h) ==
    \/ RequestFails(h) \/ HandlerLoad(h) \/ HandlerUnlock(h)
    \/ HandlerSend(h) \/ HandlerClose(h) \/ HandlerWait(h)

Stopping(p) ==
    \/ StopRange(p) \/ (\E s \in Streams : StopClose(p, s)) \/ StopWait(p)
    \/ StopCheck(p) \/ (\E u \in Users : Unregister(p, u)) \/ Exit(p)

Next ==
    \/ \E s \in Streams : \/ ClientStream(s) \/ Login(s) \/ Ending(s) \/ Closing(s)
                          \/ ClientReads(s) \/ ClientGone(s)
    \/ \E k \in Kicks : KickRequest(k)
    \/ \E h \in Requests : Handler(h)
    \/ \E p \in Peers : Crash(p) \/ Restart(p) \/ StopBegin(p) \/ Stopping(p)

Spec == Init /\ [][Next]_vars

\* The scheduler runs every goroutine, and etcd and player.Load answer.
\* Nothing is asked of clients, of kicks, of crashes or of restarts.
Fairness ==
    /\ \A s \in Streams : WF_vars(Login(s)) /\ WF_vars(Ending(s)) /\ WF_vars(Closing(s))
    /\ \A h \in Requests : WF_vars(Handler(h))
    /\ \A p \in Peers : WF_vars(Stopping(p))

FairSpec == Spec /\ Fairness

-----------------------------------------------------------------------------
(* Properties.                                                             *)

\* The player of the session may be changing the user's data: it is being
\* loaded or is loaded, and Logout has not returned.
Playing(s) ==
    /\ login[s] \in {"loading", "bind", "bind_cancel", "running", "exit", "closing", "done"}
    /\ dict[HallOf[s]][UserOf[s]] = s
    /\ close[s] \in {"none", "logout"}

\* Never are two sessions of one user in play, in one hall or in two: the
\* purpose of the lock, of UserInstead and of the checks of sessionDict.
SingleSession ==
    \A s, q \in Streams :
        UserOf[s] = UserOf[q] /\ Playing(s) /\ Playing(q) => s = q

\* The state has its shape, and a user is in play once (session.go:20).
HallInv == TypeOK /\ SingleSession

\* A session in play has the lock of its hall: nobody else has released it.
\* (session.go:20, the lock belongs to the session, which takes it and
\* releases it.)
PlayingHoldsLock ==
    \A s \in Streams : Playing(s) => localKey[HallOf[s]][UserOf[s]] # 0

\* Within one hall sessionDict alone keeps two sessions apart, whatever
\* becomes of the lock, and an entry leaves it only with its own session.
HallSingleSession ==
    \A s \in Streams :
        login[s] \in {"count", "loading", "bind", "bind_cancel", "running", "exit"} /\ close[s] = "none"
            => dict[HallOf[s]][UserOf[s]] = s

Sessions(p) == {u \in Users : dict[p][u] # NoStream}

\* The sessions in sessionDict that are not counted yet, and those that are no
\* longer in it and still counted.
CountingIn(p) == {s \in Streams : HallOf[s] = p /\ login[s] = "count"}
CountingOut(p) == {s \in Streams : HallOf[s] = p /\ (login[s] = "uncount" \/ close[s] = "count")}

\* sessionCount, which the stop loop waits for (hall.go:121), is the number of
\* sessions, but for those whose goroutine is between its two statements: no
\* login that fails, and no Close, whoever calls it, is counted twice or not at
\* all.
CountMatchesDict ==
    \A p \in Peers :
        count[p] = Cardinality(Sessions(p)) + Cardinality(CountingOut(p)) - Cardinality(CountingIn(p))

\* A lock that a running hall has in etcd can be released: localPlayers has
\* its revision, or the login that took it is about to store it.  Otherwise
\* every UserInstead for the user fails, and so does every login. That is so of
\* a lock whose Commit was applied and reported an error to the login
\* (player.go:245): the hall has it until it is started again.
LockReleasable ==
    \A p \in Peers, u \in Users :
        phase[p] = "up" /\ localKey[p][u] # 0 =>
            \/ localPlayers[p][u] = localKey[p][u]
            \/ \E s \in Streams :
                  /\ HallOf[s] = p /\ UserOf[s] = u
                  /\ \/ login[s] = "store"
                     \/ login[s] = "lock_lost" /\ tok["login"][s] = localKey[p][u]

\* hall.go:78: a hall that is stopped saves the data of its players first.
ExitSaves ==
    [][\A p \in Peers : phase[p] # "down" /\ phase'[p] = "down" =>
          \A s \in Streams : HallOf[s] = p => ~Playing(s)]_vars

\* session.go:423: Instead is safe to call at any time, so a login that asks
\* another hall to give the user up gets an answer.
LoginEnds == \A s \in Streams : login[s] = "lock1" ~> ~InLogin(s)

\* hall.go:109: the stop loop of a hall ends.
StopEnds == \A p \in Peers : phase[p] = "stopping" ~> phase[p] # "stopping"

-----------------------------------------------------------------------------
(* What the properties of sessionDict rest on, in any environment.         *)

Served == {"running", "exit", "closing", "done"}

\* Close runs on a session that is closed and served; its context is made when
\* the stream is; a stream that has ended left a closed session.
SessionShape(s) ==
    /\ close[s] # "none" => isClosed[s] /\ login[s] \in Served
    /\ cancel[s] # "nil" => login[s] \in Served
    /\ login[s] \in {"closing", "done"} => isClosed[s]

\* From LoadOrStore to the end of Close the entry of sessionDict is the session's.
InDict(s) ==
    \/ login[s] \in {"count", "loading", "bind", "bind_cancel", "running", "exit"} /\ close[s] = "none"
    \/ close[s] \in {"logout", "load", "txn", "del", "dict"}
    => dict[HallOf[s]][UserOf[s]] = s

\* A handler sends to and closes a session that it has found.
VictimFound == \A h \in Requests : rpc[h] \in {"send", "close", "wait"} => victim[h] \in Streams

\* A held lock names a hall, and a request goes to a hall.
LockNamesPeer == \A t \in Types, u \in Users : peerKey[t][u].create # 0 => peerKey[t][u].value \in Peers
RequestGoesTo == \A h \in Requests : h \in Kicks \/ rpc[h] # "none" => target[h] \in Peers

\* sessionDict is finite and counted.
DictCounted ==
    /\ CountMatchesDict
    /\ \A p \in Peers : /\ IsFiniteSet(Sessions(p))
                       /\ IsFiniteSet(CountingIn(p)) /\ IsFiniteSet(CountingOut(p))

DictIInv ==
    /\ TypeOK /\ LockNamesPeer /\ RequestGoesTo /\ VictimFound /\ DictCounted
    /\ \A s \in Streams : SessionShape(s) /\ InDict(s)

-----------------------------------------------------------------------------
(* What the properties of the lock rest on: halls of one application type, *)
(* no login of a user while another one runs or at a hall that still has a *)
(* session of the user, and none at a hall that is being stopped.          *)

OrderlyEnv == Env \cap {"login_overlap", "same_hall", "stop_in_login"} = {}

OneLockType == \A p, q \in Peers : TypeOf[p] = TypeOf[q]

\* The three keys of a user agree: one revision, and one holder.
KeysAgree ==
    \A p \in Peers, u \in Users :
        LET k == peerKey[TypeOf[p]][u]
        IN  /\ userKey[u] = k
            /\ localKey[p][u] = IF k.value = p THEN k.create ELSE 0
            /\ k.create <= rev /\ (k.create = 0 => k.value = NoPeer)

\* r is not the revision of a lock that another hall has, or ever will have.
GoodRev(p, u, r) == r <= rev /\ (r # 0 /\ userKey[u].create = r => userKey[u].value = p)

\* Every revision in memory that an UnlockLocalUser can compare is of that kind.
TokensGood ==
    /\ \A p \in Peers, u \in Users : GoodRev(p, u, localPlayers[p][u])
    /\ \A s \in Streams :
          /\ login[s] = "txn" => tok["login"][s] # 0 /\ GoodRev(HallOf[s], UserOf[s], tok["login"][s])
          /\ close[s] = "txn" => tok["close"][s] # 0 /\ GoodRev(HallOf[s], UserOf[s], tok["close"][s])
    /\ \A h \in Requests :
          rpc[h] = "txn" => tok["rpc"][h] # 0 /\ GoodRev(target[h], User(h), tok["rpc"][h])

NoOverlap ==
    \A s, q \in Streams : s # q /\ UserOf[s] = UserOf[q] => ~LoggingIn(s) \/ ~LoggingIn(q)

OnePerHall ==
    \A s, q \in Streams :
        s # q /\ UserOf[s] = UserOf[q] /\ HallOf[s] = HallOf[q] => Over(s) \/ Over(q)

\* UserInstead runs while its caller waits, or is dead; a Kick never unlocks;
\* and UserInstead unlocks in a hall that has no session of the user.
HandlerShape ==
    /\ \A s \in Streams : rpc[s] # "none" => login[s] \in {"instead", "dead"}
    /\ \A k \in Kicks : rpc[k] \notin {"load", "txn", "del"}
    /\ \A h \in Requests : rpc[h] \in {"load", "txn", "del"} => dict[target[h]][User(h)] = NoStream

\* From the lock's transaction to the transaction that releases it.
Owns(s) ==
    \/ login[s] \in {"store", "check", "insert", "count", "loading", "bind", "bind_cancel",
                     "uncount", "load", "txn"}
    \/ login[s] \in Served /\ dict[HallOf[s]][UserOf[s]] = s /\ close[s] \in {"none", "logout"}
    \/ close[s] \in {"load", "txn"}

\* The owner of a user's lock is one session, and its hall has the lock.
OwnerLocks ==
    /\ \A s \in Streams : Owns(s) => localKey[HallOf[s]][UserOf[s]] # 0
    /\ \A s, q \in Streams : Owns(s) /\ Owns(q) /\ UserOf[s] = UserOf[q] => s = q
    /\ \A s \in Streams : login[s] = "store" => tok["login"][s] = localKey[HallOf[s]][UserOf[s]]

\* An entry of localPlayers that is about to be deleted belongs to no lock.
DeletesNothing ==
    /\ \A s \in Streams :
          login[s] = "del" \/ close[s] = "del" => localKey[HallOf[s]][UserOf[s]] = 0
    /\ \A h \in Requests : rpc[h] = "del" => localKey[target[h]][User(h)] = 0

\* A hall that stops serves no login, and one that has stopped has no session.
StopShape ==
    \A p \in Peers :
        /\ phase[p] \in {"stopping", "stopped"} => \A s \in Streams : HallOf[s] = p => ~InLogin(s)
        /\ phase[p] = "stopped" => \A u \in Users : dict[p][u] = NoStream
        /\ stopAt[p] # "none" => phase[p] = "stopping"

LockIInv ==
    /\ KeysAgree /\ TokensGood /\ NoOverlap /\ OnePerHall /\ HandlerShape
    /\ OwnerLocks /\ DeletesNothing /\ StopShape /\ LockReleasable

-----------------------------------------------------------------------------
(* What the exit of a stopped hall rests on, when nothing crashes it and no *)
(* login runs into the stop.                                                *)

SafeStop == Env \cap {"crash", "stop_in_login"} = {}

Live == {"count", "loading", "bind", "bind_cancel"} \cup Served

\* An entry of sessionDict is a session of that hall and that user.
EntryShape ==
    \A p \in Peers, u \in Users : dict[p][u] # NoStream =>
        LET s == dict[p][u] IN HallOf[s] = p /\ UserOf[s] = u /\ login[s] \in Live

\* A served stream has its context, so that Close does not panic.
ServedBound == \A s \in Streams : login[s] \in Served => cancel[s] # "nil"

\* The stop loop closes only such sessions, of its own hall.
ToCloseServed == \A p \in Peers : \A s \in toClose[p] : HallOf[s] = p /\ login[s] \in Served

SaveIInv == StopShape /\ EntryShape /\ ServedBound /\ ToCloseServed
==============================================================================
