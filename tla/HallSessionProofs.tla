-------------------------- MODULE HallSessionProofs --------------------------
(***************************************************************************)
(* Proofs about HallSession, for any set of halls, users, streams and      *)
(* kicks.                                                                  *)
(***************************************************************************)
EXTENDS HallSession, FiniteSetTheorems, TLAPS

USE PlayerKeysAssumption, HallAssumption

-----------------------------------------------------------------------------
(* Types.                                                                  *)

\* TypeOK without count, which is a number because sessionDict is counted.
DictType ==
    /\ KeysTypeOK
    /\ phase \in [Peers -> {"down", "up", "stopping", "stopped"}]
    /\ login \in [Streams -> LoginLabels]
    /\ close \in [Streams -> CloseLabels]
    /\ rpc \in [Requests -> RpcLabels]
    /\ target \in [Requests -> Peers \cup {NoPeer}]
    /\ victim \in [Requests -> Streams \cup {NoStream}]
    /\ tok \in [{"login", "close", "rpc"} -> [Requests -> Nat]]
    /\ isClosed \in [Streams -> BOOLEAN]
    /\ cancel \in [Streams -> {"nil", "set", "called"}]
    /\ resp \in [Streams -> {"nil", "open", "full", "closed", "abandoned"}]
    /\ dict \in [Peers -> [Users -> Streams \cup {NoStream}]]
    /\ stopAt \in [Peers -> {"none", "range", "close"}]
    /\ toClose \in [Peers -> SUBSET Streams]
    /\ waitFor \in [Peers -> Streams \cup {NoStream}]

\* The transactions keep the types of the keys.
LEMMA LockTxnType ==
    ASSUME KeysTypeOK, NEW p \in Peers, NEW u \in Users, LockTxn(p, u), UNCHANGED localPlayers
    PROVE  KeysTypeOK' /\ rev + 1 \in Nat
<1> USE DEF KeysTypeOK
<1>0. rev' \in Nat /\ rev + 1 \in Nat
  BY DEF LockTxn
<1>1. ASSUME NEW k \in Key PROVE Put(k, p, rev + 1) \in Key
  BY <1>0 DEF Put, Key
<1>2. userKey' \in [Users -> Key]
  BY <1>1 DEF LockTxn
<1>3. peerKey' \in [Types -> [Users -> Key]]
  BY <1>1 DEF LockTxn
<1>4. localKey' \in [Peers -> [Users -> Nat]]
  BY <1>0 DEF LockTxn
<1> QED BY <1>0, <1>2, <1>3, <1>4

\* The deletes do.
LEMMA DeleteType ==
    ASSUME KeysTypeOK, NEW p, NEW u \in Users, DeleteKeys(p, u), UNCHANGED localPlayers,
           p \in Peers \cup {NoPeer}
    PROVE  KeysTypeOK'
<1> USE DEF KeysTypeOK
<1>1. Absent \in Key
  BY DEF Absent, Key
<1>2. rev' \in Nat
  BY DEF DeleteKeys
<1>3. userKey' \in [Users -> Key]
  BY <1>1 DEF DeleteKeys
<1>4. peerKey' \in [Types -> [Users -> Key]]
  BY <1>1 DEF DeleteKeys
<1>5. localKey' \in [Peers -> [Users -> Nat]]
  BY DEF DeleteKeys
<1> QED BY <1>2, <1>3, <1>4, <1>5

\* So does a step of UnlockLocalUser, whoever runs it.
LEMMA UnlockType ==
    ASSUME KeysTypeOK, NEW p \in Peers \cup {NoPeer}, NEW u \in Users,
           NEW l, NEW r, NEW k, NEW q, UnlockLocalUser(p, u, l, r, k, q)
    PROVE  KeysTypeOK'
<1>1. CASE UNCHANGED <<keyVars, localPlayers>>
  BY <1>1 DEF KeysTypeOK, keyVars
<1>2. CASE DeleteKeys(p, u) /\ UNCHANGED localPlayers
  BY <1>2, DeleteType
<1>3. CASE SetEntry(p, u, 0) /\ UNCHANGED keyVars
  BY <1>3 DEF KeysTypeOK, keyVars, SetEntry
<1> QED BY <1>1, <1>2, <1>3, Zenon DEF UnlockLocalUser, UnlockTxn

\* Where a step of UnlockLocalUser leaves its thread.
LEMMA UnlockMoves ==
    ASSUME NEW p, NEW u, NEW l, NEW r, NEW k, NEW q, UnlockLocalUser(p, u, l, r, k, q)
    PROVE  \/ l = "load" /\ k \in {"txn", "refused"}
           \/ l = "txn" /\ k \in {"del", "refused"}
           \/ l = "del" /\ k = "ok"
  BY DEF UnlockLocalUser

\* The death of a hall keeps the types.
LEMMA DieType ==
    ASSUME DictType, NEW p \in Peers, Die(p)
    PROVE  DictType'
<1> USE DEF DictType
<1>1. KeysTypeOK'
  BY DEF Die, KeysTypeOK, keyVars
<1>2. tok' \in [{"login", "close", "rpc"} -> [Requests -> Nat]]
  BY DEF Die
<1>3. login' \in [Streams -> LoginLabels] /\ close' \in [Streams -> CloseLabels]
  BY DEF Die, LoginLabels, CloseLabels
<1>4. rpc' \in [Requests -> RpcLabels] /\ victim' \in [Requests -> Streams \cup {NoStream}]
  BY DEF Die, RpcLabels
<1>5. /\ isClosed' \in [Streams -> BOOLEAN]
      /\ cancel' \in [Streams -> {"nil", "set", "called"}]
      /\ resp' \in [Streams -> {"nil", "open", "full", "closed", "abandoned"}]
  BY DEF Die
<1>6. dict' \in [Peers -> [Users -> Streams \cup {NoStream}]]
  BY DEF Die
<1>7. /\ phase' \in [Peers -> {"down", "up", "stopping", "stopped"}]
      /\ stopAt' \in [Peers -> {"none", "range", "close"}]
      /\ toClose' \in [Peers -> SUBSET Streams]
      /\ waitFor' \in [Peers -> Streams \cup {NoStream}]
      /\ target' = target
  BY DEF Die
<1> QED BY <1>1, <1>2, <1>3, <1>4, <1>5, <1>6, <1>7

\* The steps of a login keep the types.
LEMMA LoginType ==
    ASSUME DictType, NEW s \in Streams, ClientStream(s) \/ Login(s)
    PROVE  DictType'
<1> USE DEF keyVars, sessionVars, dictVars, stopVars, GotoLogin, GotoRpc
<1>t. /\ login \in [Streams -> LoginLabels] /\ close \in [Streams -> CloseLabels]
      /\ rpc \in [Requests -> RpcLabels]
  BY DEF DictType
<1>v. /\ isClosed \in [Streams -> BOOLEAN] /\ cancel \in [Streams -> {"nil", "set", "called"}]
      /\ resp \in [Streams -> {"nil", "open", "full", "closed", "abandoned"}]
      /\ toClose \in [Peers -> SUBSET Streams] /\ waitFor \in [Peers -> Streams \cup {NoStream}]
  BY DEF DictType
<1>s. s \in Requests /\ HallOf[s] \in Peers /\ UserOf[s] \in Users
  BY DEF Requests
<1>k. ASSUME UNCHANGED <<keyVars, localPlayers>> PROVE KeysTypeOK'
  BY <1>k DEF KeysTypeOK, DictType
<1>1. CASE ClientStream(s) \/ CheckSession(s) \/ LoadSucceeds(s)
  <2>1. login' \in [Streams -> LoginLabels]
    BY <1>t, <1>1 DEF ClientStream, CheckSession, LoadSucceeds, LoginLabels
  <2>2. UNCHANGED <<keyVars, localPlayers, close, rpc, target, victim, tok, sessionVars,
                    dictVars, stopVars>>
    BY <1>1, Zenon DEF ClientStream, CheckSession, LoadSucceeds
  <2> QED BY <1>k, <2>1, <2>2 DEF DictType
<1>2. CASE LockLocalUser(s)
  <2>1. KeysTypeOK' /\ rev + 1 \in Nat
    BY <1>2, <1>s, LockTxnType DEF LockLocalUser, DictType
  <2>2. tok' \in [{"login", "close", "rpc"} -> [Requests -> Nat]]
    BY <1>2, <1>s, <2>1 DEF LockLocalUser, DictType
  <2> QED BY <1>2, <2>1, <2>2 DEF LockLocalUser, LoginLabels, DictType
<1>11. CASE LockFails(s)
  <2>0. UNCHANGED <<localPlayers, close, rpc, target, victim, sessionVars, dictVars, stopVars>>
    BY <1>11, Zenon DEF LockFails
  <2>1. CASE login' = [login EXCEPT ![s] = "refused"] /\ UNCHANGED <<keyVars, tok>>
    <3>1. login' \in [Streams -> LoginLabels]
      BY <1>t, <2>1 DEF LoginLabels
    <3> QED BY <1>k, <2>0, <2>1, <3>1 DEF DictType
  <2>2. CASE /\ LockTxn(HallOf[s], UserOf[s]) /\ tok' = [tok EXCEPT !["login"][s] = rev + 1]
             /\ login' = [login EXCEPT ![s] = "lock_lost"]
    <3>1. KeysTypeOK' /\ rev + 1 \in Nat
      BY <1>s, <2>0, <2>2, LockTxnType DEF DictType
    <3>2. tok' \in [{"login", "close", "rpc"} -> [Requests -> Nat]]
      BY <1>s, <2>2, <3>1 DEF DictType
    <3>3. login' \in [Streams -> LoginLabels]
      BY <1>t, <2>2 DEF LoginLabels
    <3> QED BY <2>0, <2>2, <3>1, <3>2, <3>3 DEF DictType
  <2> QED BY <1>11, <2>1, <2>2, Zenon DEF LockFails
<1>3. CASE LockStore(s)
  <2>1. KeysTypeOK'
    BY <1>3, <1>s DEF LockStore, KeysTypeOK, SetEntry, DictType
  <2>2. tok' \in [{"login", "close", "rpc"} -> [Requests -> Nat]]
    BY <1>3 DEF LockStore, DictType
  <2> QED BY <1>3, <2>1, <2>2 DEF LockStore, LoginLabels, DictType
<1>4. CASE LockRefused(s)
  <2>1. target' \in [Requests -> Peers \cup {NoPeer}]
    <3>1. Holder(HallOf[s], UserOf[s]) \in Peers \cup {NoPeer}
      BY <1>s DEF KeysTypeOK, Holder, Key, DictType
    <3> QED BY <1>4, <3>1 DEF LockRefused, DictType
  <2>2. login' \in [Streams -> LoginLabels]
    BY <1>t, <1>4 DEF LockRefused, LoginLabels
  <2>3. rpc' \in [Requests -> RpcLabels]
    BY <1>t, <1>4 DEF LockRefused, RpcLabels
  <2>4. UNCHANGED <<keyVars, localPlayers, close, victim, tok, sessionVars, dictVars, stopVars>>
    BY <1>4, Zenon DEF LockRefused
  <2> QED BY <1>k, <2>1, <2>2, <2>3, <2>4 DEF DictType
<1>5. CASE InsteadReturns(s)
  <2>1. login' \in [Streams -> LoginLabels]
    BY <1>t, <1>5 DEF InsteadReturns, LoginLabels
  <2>2. /\ rpc' \in [Requests -> RpcLabels]
        /\ target' \in [Requests -> Peers \cup {NoPeer}]
        /\ victim' \in [Requests -> Streams \cup {NoStream}]
    BY <1>5 DEF InsteadReturns, RpcLabels, DictType
  <2>3. UNCHANGED <<keyVars, localPlayers, close, tok, sessionVars, dictVars, stopVars>>
    BY <1>5, Zenon DEF InsteadReturns
  <2> QED BY <1>k, <2>1, <2>2, <2>3 DEF DictType
<1>6. CASE InsertSession(s)
  <2>1. login' \in [Streams -> LoginLabels]
    BY <1>t, <1>6 DEF InsertSession, CountSession, LoginLabels
  <2>2. dict' \in [Peers -> [Users -> Streams \cup {NoStream}]]
    <3>1. dict' = [dict EXCEPT ![HallOf[s]][UserOf[s]] = s] \/ dict' = dict
      BY <1>6 DEF InsertSession
    <3>2. dict \in [Peers -> [Users -> Streams \cup {NoStream}]]
      BY DEF DictType
    <3>3. [dict EXCEPT ![HallOf[s]][UserOf[s]] = s] \in [Peers -> [Users -> Streams \cup {NoStream}]]
      BY <1>s, <3>2
    <3> QED BY <3>1, <3>2, <3>3
  <2>3. UNCHANGED <<keyVars, localPlayers, close, rpc, target, victim, tok, sessionVars, stopVars>>
    BY <1>6, Zenon DEF InsertSession
  <2> QED BY <1>k, <2>1, <2>2, <2>3 DEF DictType
<1>7. CASE LoadFails(s)
  BY <1>7, <1>k, <1>s DEF LoadFails, LoginLabels, DictType
<1>10. CASE CountSession(s) \/ UncountSession(s)
  <2>1. login' \in [Streams -> LoginLabels]
    BY <1>t, <1>10 DEF CountSession, UncountSession, LoginLabels
  <2>2. UNCHANGED <<keyVars, localPlayers, close, rpc, target, victim, tok, sessionVars, dict, stopVars>>
    BY <1>10, Zenon DEF CountSession, UncountSession
  <2> QED BY <1>k, <2>1, <2>2 DEF DictType
<1>8. CASE LoginUnlock(s)
  <2>1. PICK l \in UnlockLabels, r \in 0 .. rev :
          /\ UnlockLocalUser(HallOf[s], UserOf[s], login[s], tok["login"][s], l, r)
          /\ GotoLogin(s, IF l \in {"ok", "refused"} THEN "failed" ELSE l)
          /\ tok' = [tok EXCEPT !["login"][s] = r]
    BY <1>8 DEF LoginUnlock, DictType
  <2>2. KeysTypeOK'
    BY <1>s, <2>1, UnlockType DEF DictType
  <2>3. r \in Nat
    BY DEF KeysTypeOK, DictType
  <2>4. tok' \in [{"login", "close", "rpc"} -> [Requests -> Nat]]
    BY <2>1, <2>3 DEF DictType
  <2>5. login' \in [Streams -> LoginLabels]
    BY <1>t, <2>1 DEF UnlockLabels, LoginLabels
  <2> QED BY <1>8, <2>2, <2>4, <2>5 DEF LoginUnlock, DictType
<1>9. CASE BindResponse(s) \/ BindCancel(s)
  <2>1. login' \in [Streams -> LoginLabels]
    BY <1>t, <1>9 DEF BindResponse, BindCancel, LoginLabels
  <2>2. /\ cancel' \in [Streams -> {"nil", "set", "called"}]
        /\ resp' \in [Streams -> {"nil", "open", "full", "closed", "abandoned"}]
    BY <1>v, <1>9 DEF BindResponse, BindCancel
  <2>3. UNCHANGED <<keyVars, localPlayers, close, rpc, target, victim, tok, isClosed, dictVars,
                    stopVars>>
    BY <1>9, Zenon DEF BindResponse, BindCancel
  <2> QED BY <1>k, <2>1, <2>2, <2>3 DEF DictType
<1> QED BY <1>1, <1>2, <1>3, <1>4, <1>5, <1>6, <1>7, <1>8, <1>9, <1>10, <1>11, Zenon DEF Login

\* The end of a stream, and Close.
LEMMA EndType ==
    ASSUME DictType, NEW s \in Streams, ClientReads(s) \/ ClientGone(s) \/ Ending(s) \/ Closing(s)
    PROVE  DictType'
<1> USE DEF keyVars, sessionVars, dictVars, stopVars, GotoLogin, GotoClose, BeginClose
<1>t. /\ login \in [Streams -> LoginLabels] /\ close \in [Streams -> CloseLabels]
      /\ rpc \in [Requests -> RpcLabels]
  BY DEF DictType
<1>v. /\ isClosed \in [Streams -> BOOLEAN] /\ cancel \in [Streams -> {"nil", "set", "called"}]
      /\ resp \in [Streams -> {"nil", "open", "full", "closed", "abandoned"}]
      /\ toClose \in [Peers -> SUBSET Streams] /\ waitFor \in [Peers -> Streams \cup {NoStream}]
  BY DEF DictType
<1>s. s \in Requests /\ HallOf[s] \in Peers /\ UserOf[s] \in Users
  BY DEF Requests
<1>k. ASSUME UNCHANGED <<keyVars, localPlayers>> PROVE KeysTypeOK'
  BY <1>k DEF KeysTypeOK, DictType
<1>1. CASE ClientReads(s) \/ ClientGone(s) \/ ClientCancelled(s)
  <2>1. login' \in [Streams -> LoginLabels]
    BY <1>t, <1>1 DEF ClientReads, ClientGone, ClientCancelled, LoginLabels
  <2>2. resp' \in [Streams -> {"nil", "open", "full", "closed", "abandoned"}]
    BY <1>v, <1>1 DEF ClientReads, ClientGone, ClientCancelled
  <2>3. UNCHANGED <<keyVars, localPlayers, close, rpc, target, victim, tok, isClosed, cancel,
                    dictVars, stopVars>>
    BY <1>1, Zenon DEF ClientReads, ClientGone, ClientCancelled
  <2> QED BY <1>k, <2>1, <2>2, <2>3 DEF DictType
<1>2. CASE StreamClose(s)
  <2>1. login' \in [Streams -> LoginLabels] /\ close' \in [Streams -> CloseLabels]
    BY <1>t, <1>2 DEF StreamClose, LoginLabels, CloseLabels
  <2>2. isClosed' \in [Streams -> BOOLEAN] /\ cancel' \in [Streams -> {"nil", "set", "called"}]
    BY <1>v, <1>2 DEF StreamClose
  <2>3. UNCHANGED <<keyVars, localPlayers, rpc, target, victim, tok, resp, dictVars, stopVars>>
    BY <1>2, Zenon DEF StreamClose
  <2> QED BY <1>k, <2>1, <2>2, <2>3 DEF DictType
<1>3. CASE StreamEnd(s) \/ Logout(s)
  <2>1. login' \in [Streams -> LoginLabels] /\ close' \in [Streams -> CloseLabels]
    BY <1>t, <1>3 DEF StreamEnd, Logout, LoginLabels, CloseLabels
  <2>2. UNCHANGED <<keyVars, localPlayers, rpc, target, victim, tok, sessionVars, dictVars,
                    stopVars>>
    BY <1>3, Zenon DEF StreamEnd, Logout
  <2> QED BY <1>k, <2>1, <2>2 DEF DictType
<1>4. CASE CloseUnlock(s)
  <2>1. PICK l \in UnlockLabels, r \in 0 .. rev :
          /\ UnlockLocalUser(HallOf[s], UserOf[s], close[s], tok["close"][s], l, r)
          /\ GotoClose(s, IF l \in {"ok", "refused"} THEN "dict" ELSE l)
          /\ tok' = [tok EXCEPT !["close"][s] = r]
    BY <1>4 DEF CloseUnlock, DictType
  <2>2. KeysTypeOK'
    BY <1>s, <2>1, UnlockType DEF DictType
  <2>3. r \in Nat
    BY DEF KeysTypeOK, DictType
  <2>4. tok' \in [{"login", "close", "rpc"} -> [Requests -> Nat]]
    BY <2>1, <2>3 DEF DictType
  <2>5. close' \in [Streams -> CloseLabels]
    BY <1>t, <2>1 DEF UnlockLabels, CloseLabels
  <2> QED BY <1>4, <2>2, <2>4, <2>5 DEF CloseUnlock, DictType
<1>5. CASE CloseDict(s)
  BY <1>5, <1>k, <1>s DEF CloseDict, CloseLabels, DictType
<1>6. CASE CloseCount(s)
  BY <1>6, <1>k DEF CloseCount, CloseLabels, DictType
<1> QED BY <1>1, <1>2, <1>3, <1>4, <1>5, <1>6 DEF Ending, Closing

\* The handlers.
LEMMA HandlerType ==
    ASSUME DictType, VictimFound, RequestGoesTo, NEW h \in Requests,
           KickRequest(h) \/ Handler(h)
    PROVE  DictType'
<1> USE DEF keyVars, sessionVars, dictVars, stopVars, GotoRpc, GotoClose
<1>t. /\ login \in [Streams -> LoginLabels] /\ close \in [Streams -> CloseLabels]
      /\ rpc \in [Requests -> RpcLabels]
  BY DEF DictType
<1>v. /\ isClosed \in [Streams -> BOOLEAN] /\ cancel \in [Streams -> {"nil", "set", "called"}]
      /\ resp \in [Streams -> {"nil", "open", "full", "closed", "abandoned"}]
      /\ toClose \in [Peers -> SUBSET Streams] /\ waitFor \in [Peers -> Streams \cup {NoStream}]
  BY DEF DictType
<1>h. User(h) \in Users /\ target[h] \in Peers \cup {NoPeer}
  BY DEF Requests, User, DictType
<1>k. ASSUME UNCHANGED <<keyVars, localPlayers>> PROVE KeysTypeOK'
  BY <1>k DEF KeysTypeOK, DictType
<1>1. CASE KickRequest(h) \/ RequestFails(h) \/ HandlerSend(h) \/ HandlerWait(h)
  <2>1. rpc' \in [Requests -> RpcLabels]
    BY <1>t, <1>1 DEF KickRequest, RequestFails, HandlerSend, HandlerWait, RpcLabels
  <2>2. UNCHANGED <<keyVars, localPlayers, login, close, target, victim, tok, sessionVars,
                    dictVars, stopVars>>
    BY <1>1, Zenon DEF KickRequest, RequestFails, HandlerSend, HandlerWait
  <2> QED BY <1>k, <2>1, <2>2 DEF DictType
<1>2. CASE HandlerLoad(h)
  <2> DEFINE d == dict[target[h]][User(h)]
  <2>0. d \in Streams \cup {NoStream}
    BY <1>2, <1>h DEF HandlerLoad, RequestGoesTo, DictType
  <2>1. \/ rpc' = [rpc EXCEPT ![h] = "send"] /\ victim' = [victim EXCEPT ![h] = d]
        \/ \/ rpc' = [rpc EXCEPT ![h] = "err"] /\ victim' = victim
           \/ rpc' = [rpc EXCEPT ![h] = "load"] /\ victim' = victim
    BY <1>2, Zenon DEF HandlerLoad
  <2>2. rpc' \in [Requests -> RpcLabels]
    BY <1>t, <2>1 DEF RpcLabels
  <2>3. victim' \in [Requests -> Streams \cup {NoStream}]
    BY <2>0, <2>1 DEF DictType
  <2>4. UNCHANGED <<keyVars, localPlayers, login, close, target, tok, sessionVars, dictVars,
                    stopVars>>
    BY <1>2, Zenon DEF HandlerLoad
  <2> QED BY <1>k, <2>2, <2>3, <2>4 DEF DictType
<1>3. CASE HandlerUnlock(h)
  <2>1. PICK l \in UnlockLabels, r \in 0 .. rev :
          /\ UnlockLocalUser(target[h], User(h), rpc[h], tok["rpc"][h], l, r)
          /\ GotoRpc(h, IF l = "refused" THEN "err" ELSE l)
          /\ tok' = [tok EXCEPT !["rpc"][h] = r]
    BY <1>3 DEF HandlerUnlock, DictType
  <2>2. KeysTypeOK'
    BY <1>h, <2>1, UnlockType DEF DictType
  <2>3. r \in Nat
    BY DEF KeysTypeOK, DictType
  <2>4. tok' \in [{"login", "close", "rpc"} -> [Requests -> Nat]]
    BY <2>1, <2>3 DEF DictType
  <2>5. rpc' \in [Requests -> RpcLabels]
    BY <1>t, <2>1 DEF UnlockLabels, RpcLabels
  <2> QED BY <1>3, <2>2, <2>4, <2>5 DEF HandlerUnlock, DictType
<1>4. CASE HandlerClose(h)
  <2>1. victim[h] \in Streams
    BY <1>4 DEF HandlerClose, VictimFound, DictType
  <2>2. rpc' \in [Requests -> RpcLabels] /\ close' \in [Streams -> CloseLabels]
    BY <1>t, <1>4, <2>1 DEF HandlerClose, BeginClose, RpcLabels, CloseLabels
  <2>3. isClosed' \in [Streams -> BOOLEAN] /\ cancel' \in [Streams -> {"nil", "set", "called"}]
    BY <1>v, <1>4, <2>1 DEF HandlerClose, BeginClose
  <2>4. UNCHANGED <<keyVars, localPlayers, login, target, victim, tok, resp, dictVars, stopVars>>
    BY <1>4, Zenon DEF HandlerClose
  <2> QED BY <1>k, <2>2, <2>3, <2>4 DEF DictType
<1> QED BY <1>1, <1>2, <1>3, <1>4 DEF Handler

\* The life of a hall.
LEMMA HallType ==
    ASSUME DictType, NEW p \in Peers, Crash(p) \/ Restart(p) \/ StopBegin(p) \/ Stopping(p)
    PROVE  DictType'
<1> USE DEF keyVars, threadVars, sessionVars, dictVars, stopVars
<1>t. /\ login \in [Streams -> LoginLabels] /\ close \in [Streams -> CloseLabels]
      /\ rpc \in [Requests -> RpcLabels]
  BY DEF DictType
<1>v. /\ isClosed \in [Streams -> BOOLEAN] /\ cancel \in [Streams -> {"nil", "set", "called"}]
      /\ resp \in [Streams -> {"nil", "open", "full", "closed", "abandoned"}]
      /\ toClose \in [Peers -> SUBSET Streams] /\ waitFor \in [Peers -> Streams \cup {NoStream}]
  BY DEF DictType
<1>k. ASSUME UNCHANGED <<keyVars, localPlayers>> PROVE KeysTypeOK'
  BY <1>k DEF KeysTypeOK, DictType
<1>1. CASE Die(p)
  BY <1>1, DieType
<1>2. CASE Restart(p)
  <2>1. KeysTypeOK'
    BY <1>2 DEF Restart, Recovered, KeysTypeOK, DictType
  <2> QED BY <1>2, <2>1 DEF Restart, DictType
<1>3. CASE StopBegin(p)
  BY <1>3, <1>k DEF StopBegin, DictType
<1>4. CASE StopRange(p)
  <2>1. {dict[p][u] : u \in Users} \ {NoStream} \in SUBSET Streams
    BY DEF DictType
  <2> QED BY <1>4, <1>k, <2>1 DEF StopRange, DictType
<1>5. ASSUME NEW s \in Streams, StopClose(p, s), ~Die(p) PROVE DictType'
  <2>1. close' \in [Streams -> CloseLabels] /\ cancel' \in [Streams -> {"nil", "set", "called"}]
    BY <1>t, <1>v, <1>5 DEF StopClose, BeginClose, GotoClose, CloseLabels
  <2>2. isClosed' \in [Streams -> BOOLEAN]
    BY <1>v, <1>5 DEF StopClose, BeginClose
  <2>3. toClose' \in [Peers -> SUBSET Streams] /\ waitFor' \in [Peers -> Streams \cup {NoStream}]
    BY <1>v, <1>5 DEF StopClose
  <2>4. UNCHANGED <<keyVars, localPlayers, login, rpc, target, victim, tok, resp, dictVars,
                    phase, stopAt>>
    BY <1>5, Zenon DEF StopClose
  <2> QED BY <1>k, <2>1, <2>2, <2>3, <2>4 DEF DictType
<1>6. CASE StopWait(p) \/ StopCheck(p)
  BY <1>6, <1>k DEF StopWait, StopCheck, DictType
<1>7. ASSUME NEW u \in Users, Unregister(p, u) PROVE DictType'
  <2>1. KeysTypeOK'
    BY <1>7, DeleteType DEF Unregister, UnregisterTxn, DictType
  <2> QED BY <1>7, <2>1 DEF Unregister, DictType
<1> QED BY <1>1, <1>2, <1>3, <1>4, <1>5, <1>6, <1>7 DEF Crash, Exit, Stopping

\* Every step keeps the types.
LEMMA TypeStep ==
    ASSUME DictType, VictimFound, RequestGoesTo, [Next]_vars
    PROVE  DictType'
<1>1. CASE UNCHANGED vars
  BY <1>1 DEF vars, keyVars, threadVars, sessionVars, dictVars, stopVars, DictType, KeysTypeOK, DictType
<1>2. Kicks \subseteq Requests
  BY DEF Requests
<1> QED BY <1>1, <1>2, LoginType, EndType, HandlerType, HallType DEF Next

-----------------------------------------------------------------------------
(* The keys and the requests.                                              *)

\* The three ways a step treats the keys.
LEMMA KeyMoves ==
    ASSUME [Next]_vars, DictType
    PROVE  \/ UNCHANGED keyVars
           \/ \E p \in Peers, u \in Users : LockTxn(p, u)
           \/ \E p \in Peers \cup {NoPeer}, u \in Users : DeleteKeys(p, u)
<1> DEFINE G == \/ UNCHANGED keyVars
                \/ \E p \in Peers, u \in Users : LockTxn(p, u)
                \/ \E p \in Peers \cup {NoPeer}, u \in Users : DeleteKeys(p, u)
<1>u. ASSUME NEW p \in Peers \cup {NoPeer}, NEW u \in Users, NEW l, NEW r, NEW k, NEW q,
             UnlockLocalUser(p, u, l, r, k, q)
      PROVE  G
  BY <1>u, Zenon DEF UnlockLocalUser, UnlockTxn, keyVars
<1>s. \A s \in Streams : HallOf[s] \in Peers /\ UserOf[s] \in Users
  OBVIOUS
<1>1. ASSUME NEW s \in Streams, ClientStream(s) \/ Login(s) PROVE G
  <2>1. CASE LockLocalUser(s)
    BY <1>s, <2>1, Zenon DEF LockLocalUser
  <2>3. CASE LockFails(s)
    BY <1>s, <2>3, Zenon DEF LockFails, keyVars
  <2>2. CASE LoginUnlock(s)
    BY <1>s, <1>u, <2>2, Zenon DEF LoginUnlock
  <2> QED BY <1>1, <2>1, <2>2, <2>3, Zenon DEF ClientStream, Login, LockStore, LockRefused,
          InsteadReturns, CheckSession, InsertSession, CountSession, LoadSucceeds, LoadFails, UncountSession, BindResponse,
          BindCancel
<1>2. ASSUME NEW s \in Streams, ClientReads(s) \/ ClientGone(s) \/ Ending(s) \/ Closing(s) PROVE G
  <2>1. CASE CloseUnlock(s)
    BY <1>s, <1>u, <2>1, Zenon DEF CloseUnlock
  <2> QED BY <1>2, <2>1, Zenon DEF ClientReads, ClientGone, Ending, Closing, ClientCancelled, StreamClose,
          StreamEnd, Logout, CloseDict, CloseCount
<1>3. ASSUME NEW h \in Requests, KickRequest(h) \/ Handler(h) PROVE G
  <2>1. CASE HandlerUnlock(h)
    <3>1. User(h) \in Users /\ target[h] \in Peers \cup {NoPeer}
      BY DEF Requests, User, DictType
    <3> QED BY <1>u, <2>1, <3>1, Zenon DEF HandlerUnlock
  <2> QED BY <1>3, <2>1, Zenon DEF KickRequest, Handler, RequestFails, HandlerLoad, HandlerSend,
          HandlerClose, HandlerWait
<1>4. ASSUME NEW p \in Peers, Crash(p) \/ Restart(p) \/ StopBegin(p) \/ Stopping(p) PROVE G
  <2>1. ASSUME NEW u \in Users, Unregister(p, u) PROVE G
    BY <2>1, Zenon DEF Unregister, UnregisterTxn
  <2>2. ASSUME NEW s \in Streams, StopClose(p, s) PROVE G
    BY <2>2, Zenon DEF StopClose, Die
  <2> QED BY <1>4, <2>1, <2>2, Zenon DEF Crash, Restart, StopBegin, Stopping, StopRange, StopWait,
          StopCheck, Exit, Die
<1>5. Kicks \subseteq Requests
  BY DEF Requests
<1>6. ASSUME UNCHANGED vars PROVE G
  BY <1>6, Zenon DEF vars
<1> HIDE DEF G
<1>7. ASSUME NEW k \in Kicks, KickRequest(k) PROVE G
  BY <1>3, <1>5, <1>7
<1>8. G
  BY <1>1, <1>2, <1>3, <1>4, <1>6, <1>7, Zenon DEF Next
<1> QED BY <1>8 DEF G

\* A held lock names a hall.
LEMMA NamesStep ==
    ASSUME DictType, LockNamesPeer, [Next]_vars
    PROVE  LockNamesPeer'
<1> USE DEF LockNamesPeer
<1>t. peerKey \in [Types -> [Users -> Key]]
  BY DEF DictType, KeysTypeOK
<1>1. CASE UNCHANGED keyVars
  BY <1>1 DEF keyVars
<1>2. ASSUME NEW p \in Peers, NEW u \in Users, LockTxn(p, u) PROVE LockNamesPeer'
  BY <1>2, <1>t DEF LockTxn, Put
<1>3. ASSUME NEW p \in Peers \cup {NoPeer}, NEW u \in Users, DeleteKeys(p, u)
      PROVE  LockNamesPeer'
  BY <1>3, <1>t DEF DeleteKeys, Absent
<1> QED BY <1>1, <1>2, <1>3, KeyMoves

\* What the handlers know.
RpcShape == RequestGoesTo /\ VictimFound

\* A request goes to a hall, and a handler has its session.
LEMMA RpcStep ==
    ASSUME DictType, LockNamesPeer, RpcShape, [Next]_vars
    PROVE  RpcShape'
<1> USE DEF RpcShape, RequestGoesTo, VictimFound, GotoRpc
<1>t. /\ rpc \in [Requests -> RpcLabels] /\ target \in [Requests -> Peers \cup {NoPeer}]
      /\ victim \in [Requests -> Streams \cup {NoStream}]
  BY DEF DictType
<1>0. CASE UNCHANGED <<rpc, target, victim>>
  BY <1>0
<1>1. ASSUME NEW s \in Streams, ClientStream(s) \/ Login(s) PROVE RpcShape'
  <2>s. s \in Requests \ Kicks /\ HallOf[s] \in Peers /\ UserOf[s] \in Users
    BY DEF Requests
  <2>1. CASE LockRefused(s)
    <3>1. TypeOf[HallOf[s]] \in Types
      BY <2>s
    <3>2. Holder(HallOf[s], UserOf[s]) \in Peers
      BY <2>1, <2>s, <3>1 DEF LockRefused, Locked, Holder, LockNamesPeer
    <3> QED BY <1>t, <2>1, <2>s, <3>2 DEF LockRefused
  <2>2. CASE InsteadReturns(s)
    BY <1>t, <2>2, <2>s DEF InsteadReturns
  <2>3. CASE UNCHANGED <<rpc, target, victim>>
    BY <2>3
  <2> QED BY <1>1, <2>1, <2>2, <2>3, Zenon DEF ClientStream, Login, LockLocalUser, LockFails, LockStore,
          CheckSession, InsertSession, CountSession, LoadSucceeds, LoadFails, UncountSession, LoginUnlock, BindResponse,
          BindCancel
<1>2. ASSUME NEW s \in Streams, ClientReads(s) \/ ClientGone(s) \/ Ending(s) \/ Closing(s)
      PROVE  UNCHANGED <<rpc, target, victim>>
  BY <1>2, Zenon DEF ClientReads, ClientGone, Ending, Closing, ClientCancelled, StreamClose, StreamEnd, Logout,
     CloseUnlock, CloseDict, CloseCount
<1>3. ASSUME NEW h \in Requests, (KickRequest(h) /\ h \in Kicks) \/ Handler(h) PROVE RpcShape'
  <2>1. CASE KickRequest(h) /\ h \in Kicks
    BY <1>t, <2>1 DEF KickRequest
  <2>2. CASE RequestFails(h) \/ HandlerWait(h)
    BY <1>t, <2>2 DEF RequestFails, HandlerWait
  <2>3. CASE HandlerSend(h)
    <3>1. \E l \in {"blocked", "err", "close"} : rpc' = [rpc EXCEPT ![h] = l]
      BY <2>3 DEF HandlerSend
    <3> QED BY <1>t, <2>3, <3>1 DEF HandlerSend
  <2>4. CASE HandlerLoad(h)
    <3>1. dict[target[h]][User(h)] \in Streams \cup {NoStream}
      <4>1. User(h) \in Users /\ target[h] \in Peers
        BY <2>4 DEF HandlerLoad, Requests, User
      <4> QED BY <4>1 DEF DictType
    <3>2. CASE rpc' = [rpc EXCEPT ![h] = "send"]
               /\ victim' = [victim EXCEPT ![h] = dict[target[h]][User(h)]]
               /\ dict[target[h]][User(h)] # NoStream
      BY <1>t, <2>4, <3>1, <3>2 DEF HandlerLoad
    <3>3. CASE rpc' = [rpc EXCEPT ![h] = IF h \in Kicks THEN "err" ELSE "load"] /\ victim' = victim
      BY <1>t, <2>4, <3>3 DEF HandlerLoad
    <3> QED BY <2>4, <3>2, <3>3, Zenon DEF HandlerLoad
  <2>5. CASE HandlerUnlock(h)
    <3>1. PICK l \in UnlockLabels : rpc' = [rpc EXCEPT ![h] = IF l = "refused" THEN "err" ELSE l]
      BY <2>5 DEF HandlerUnlock
    <3> QED BY <1>t, <2>5, <3>1 DEF HandlerUnlock, UnlockLabels
  <2>6. CASE HandlerClose(h)
    <3>1. \E l \in {"ok", "wait", "err"} : rpc' = [rpc EXCEPT ![h] = l]
      BY <2>6 DEF HandlerClose
    <3> QED BY <1>t, <2>6, <3>1 DEF HandlerClose
  <2> QED BY <1>3, <2>1, <2>2, <2>3, <2>4, <2>5, <2>6 DEF Handler
<1>4. ASSUME NEW p \in Peers, Die(p) PROVE RpcShape'
  <2>1. /\ target' = target
        /\ rpc' = [h \in Requests |->
                 IF target[h] = p /\ rpc[h] \notin {"none", "ok", "err"} THEN "lost" ELSE rpc[h]]
        /\ victim' = [h \in Requests |-> IF target[h] = p THEN NoStream ELSE victim[h]]
    BY <1>4 DEF Die
  <2> QED BY <1>t, <2>1
<1>5. ASSUME NEW p \in Peers, Crash(p) \/ Restart(p) \/ StopBegin(p) \/ Stopping(p) PROVE RpcShape'
  <2>1. ASSUME NEW s \in Streams, StopClose(p, s), ~Die(p) PROVE UNCHANGED <<rpc, target, victim>>
    BY <2>1, Zenon DEF StopClose, threadVars
  <2>2. ASSUME NEW u \in Users, Unregister(p, u) PROVE UNCHANGED <<rpc, target, victim>>
    BY <2>2, Zenon DEF Unregister, threadVars
  <2>3. CASE Restart(p) \/ StopBegin(p) \/ StopRange(p) \/ StopWait(p) \/ StopCheck(p)
    BY <2>3, <1>0, Zenon DEF Restart, StopBegin, StopRange, StopWait, StopCheck, threadVars
  <2> QED BY <1>0, <1>4, <1>5, <2>1, <2>2, <2>3 DEF Crash, Stopping, Exit
<1>6. CASE UNCHANGED vars
  BY <1>6 DEF vars, threadVars
<1>7. Kicks \subseteq Requests
  BY DEF Requests
<1> QED BY <1>0, <1>1, <1>2, <1>3, <1>5, <1>6, <1>7 DEF Next

-----------------------------------------------------------------------------
(* Sessions and sessionDict.                                               *)

\* What SessionShape(q) and InDict(q) are about, but for sessionDict, unchanged.
Idle(q) ==
    /\ login'[q] = login[q] /\ close'[q] = close[q]
    /\ isClosed'[q] = isClosed[q] /\ cancel'[q] = cancel[q]

Slot(q) == dict[HallOf[q]][UserOf[q]]

\* A session that does not move keeps its shape, if its entry stays or was not
\* its own.
LEMMA IdleKeeps ==
    ASSUME NEW q \in Streams, SessionShape(q), InDict(q), Idle(q), Slot(q)' = Slot(q) \/ Slot(q) # q
    PROVE  SessionShape(q)' /\ InDict(q)'
  BY DEF SessionShape, InDict, Idle, Slot

\* The steps of a stream leave the other sessions where they are.
LEMMA OthersIdle ==
    ASSUME DictType, NEW s \in Streams, NEW q \in Streams, q # s,
           ClientStream(s) \/ Login(s) \/ ClientReads(s) \/ ClientGone(s) \/ Ending(s) \/ Closing(s)
    PROVE  Idle(q)
<1> USE DEF Idle, GotoLogin, GotoClose, sessionVars
<1>t. /\ login \in [Streams -> LoginLabels] /\ close \in [Streams -> CloseLabels]
      /\ isClosed \in [Streams -> BOOLEAN] /\ cancel \in [Streams -> {"nil", "set", "called"}]
  BY DEF DictType
<1>1. CASE \/ ClientStream(s) \/ LockLocalUser(s) \/ LockStore(s) \/ CheckSession(s)
           \/ LoadSucceeds(s) \/ LoadFails(s) \/ CountSession(s) \/ UncountSession(s)
           \/ LockFails(s)
  BY <1>t, <1>1 DEF ClientStream, LockLocalUser, LockFails, LockStore, CheckSession, LoadSucceeds,
     LoadFails, CountSession, UncountSession
<1>2. CASE LockRefused(s) \/ InsteadReturns(s) \/ InsertSession(s) \/ LoginUnlock(s)
  <2>1. UNCHANGED <<close, isClosed, cancel>>
    BY <1>2, Zenon DEF LockRefused, InsteadReturns, InsertSession, LoginUnlock
  <2>2. \E l : login' = [login EXCEPT ![s] = l]
    BY <1>2, Zenon DEF LockRefused, InsteadReturns, InsertSession, LoginUnlock
  <2> QED BY <1>t, <2>1, <2>2
<1>3. CASE BindResponse(s) \/ BindCancel(s) \/ ClientReads(s) \/ ClientGone(s) \/ ClientCancelled(s)
  BY <1>t, <1>3 DEF BindResponse, BindCancel, ClientReads, ClientGone, ClientCancelled
<1>4. CASE StreamClose(s) \/ StreamEnd(s)
  BY <1>t, <1>4 DEF StreamClose, StreamEnd, BeginClose
<1>5. CASE Logout(s) \/ CloseUnlock(s) \/ CloseDict(s) \/ CloseCount(s)
  <2>1. UNCHANGED <<login, isClosed, cancel>>
    BY <1>5, Zenon DEF Logout, CloseUnlock, CloseDict, CloseCount
  <2>2. \E l : close' = [close EXCEPT ![s] = l]
    BY <1>5, Zenon DEF Logout, CloseUnlock, CloseDict, CloseCount
  <2> QED BY <1>t, <2>1, <2>2
<1> QED BY <1>1, <1>2, <1>3, <1>4, <1>5 DEF Login, Ending, Closing

\* The beginning of Close, whoever calls it: the session is in sessionDict.
LEMMA BeginKeeps ==
    ASSUME DictType, NEW s \in Streams, SessionShape(s), InDict(s), BeginClose(s),
           ~isClosed[s], cancel[s] # "nil" \/ login[s] = "exit",
           login'[s] = login[s] \/ login'[s] = "closing", UNCHANGED dict
    PROVE  SessionShape(s)' /\ InDict(s)'
<1>1. close'[s] = "logout" /\ isClosed'[s] = TRUE /\ cancel'[s] = "called"
  BY DEF BeginClose, GotoClose, DictType
<1>2. login[s] \in {"running", "exit"} /\ close[s] = "none"
  BY DEF SessionShape, Served
<1>3. dict[HallOf[s]][UserOf[s]] = s
  BY <1>2 DEF InDict
<1> QED BY <1>1, <1>2, <1>3 DEF SessionShape, InDict, Served

\* The steps of a stream keep the shape of its own session.
LEMMA OwnShape ==
    ASSUME DictType, NEW s \in Streams, SessionShape(s), InDict(s),
           ClientStream(s) \/ Login(s) \/ ClientReads(s) \/ ClientGone(s) \/ Ending(s) \/ Closing(s)
    PROVE  SessionShape(s)' /\ InDict(s)'
<1> USE DEF GotoLogin, GotoClose, sessionVars, dictVars, Served
<1>t. /\ login \in [Streams -> LoginLabels] /\ close \in [Streams -> CloseLabels]
      /\ isClosed \in [Streams -> BOOLEAN] /\ cancel \in [Streams -> {"nil", "set", "called"}]
  BY DEF DictType
<1>s. HallOf[s] \in Peers /\ UserOf[s] \in Users
  OBVIOUS
\* Before the session, and after a login that failed.
<1>0. ASSUME login[s] \notin Served, UNCHANGED <<close, isClosed, cancel>>,
             login'[s] \notin Served \cup {"count", "loading", "bind", "bind_cancel"}
      PROVE  SessionShape(s)' /\ InDict(s)'
  BY <1>0 DEF SessionShape, InDict
<1>1. CASE ClientStream(s) \/ CheckSession(s) \/ LockLocalUser(s) \/ LockFails(s) \/ LockStore(s)
  BY <1>t, <1>0, <1>1 DEF ClientStream, CheckSession, LockLocalUser, LockFails, LockStore
<1>2. CASE LockRefused(s)
  BY <1>t, <1>0, <1>2 DEF LockRefused
<1>3. CASE InsteadReturns(s)
  BY <1>t, <1>0, <1>3 DEF InsteadReturns
<1>4. CASE LoginUnlock(s)
  <2>1. PICK l \in UnlockLabels : login' = [login EXCEPT ![s] = IF l \in {"ok", "refused"} THEN "failed" ELSE l]
    BY <1>4 DEF LoginUnlock
  <2> QED BY <1>t, <1>0, <1>4, <2>1 DEF LoginUnlock, UnlockLabels
<1>5. CASE InsertSession(s)
  <2>1. CASE dict[HallOf[s]][UserOf[s]] = NoStream
    <3>1. /\ dict' = [dict EXCEPT ![HallOf[s]][UserOf[s]] = s] /\ login'[s] = "count"
          /\ login[s] = "insert" /\ UNCHANGED <<close, isClosed, cancel>>
      BY <1>5, <1>t, <2>1 DEF InsertSession
    <3>2. dict'[HallOf[s]][UserOf[s]] = s
      BY <1>s, <3>1 DEF DictType
    <3> QED BY <3>1, <3>2 DEF SessionShape, InDict
  <2>2. CASE dict[HallOf[s]][UserOf[s]] # NoStream
    BY <1>5, <1>t, <1>0, <2>2 DEF InsertSession
  <2> QED BY <2>1, <2>2
<1>6. CASE LoadFails(s) \/ UncountSession(s)
  BY <1>t, <1>0, <1>6 DEF LoadFails, UncountSession
<1>7. CASE \/ CountSession(s) \/ LoadSucceeds(s) \/ BindResponse(s)
           \/ ClientReads(s) \/ ClientGone(s) \/ ClientCancelled(s)
  BY <1>t, <1>7 DEF CountSession, LoadSucceeds, BindResponse, ClientReads, ClientGone, ClientCancelled, SessionShape, InDict
<1>8. CASE BindCancel(s)
  BY <1>t, <1>8 DEF BindCancel, SessionShape, InDict
<1>9. CASE StreamClose(s)
  <2>1. CASE isClosed[s]
    BY <1>t, <1>9, <2>1 DEF StreamClose, SessionShape, InDict
  <2>2. CASE ~isClosed[s]
    <3>1. BeginClose(s) /\ login'[s] = "closing" /\ login[s] = "exit" /\ UNCHANGED dict
      BY <1>t, <1>9, <2>2 DEF StreamClose
    <3> QED BY <2>2, <3>1, BeginKeeps
  <2> QED BY <2>1, <2>2
<1>10. CASE StreamEnd(s) \/ Logout(s)
  BY <1>t, <1>10 DEF StreamEnd, Logout, SessionShape, InDict
<1>11. CASE CloseUnlock(s)
  <2>1. PICK l \in UnlockLabels : close' = [close EXCEPT ![s] = IF l \in {"ok", "refused"} THEN "dict" ELSE l]
    BY <1>11 DEF CloseUnlock
  <2> QED BY <1>t, <1>11, <2>1 DEF CloseUnlock, UnlockLabels, SessionShape, InDict
<1>12. CASE CloseDict(s) \/ CloseCount(s)
  BY <1>t, <1>12 DEF CloseDict, CloseCount, SessionShape, InDict
<1> QED BY <1>1, <1>2, <1>3, <1>4, <1>5, <1>6, <1>7, <1>8, <1>9, <1>10, <1>11, <1>12
        DEF Login, Ending, Closing

\* A step of a stream takes no other session's entry.
LEMMA OthersSlot ==
    ASSUME DictType, NEW s \in Streams, NEW q \in Streams, q # s, SessionShape(s), InDict(s),
           ClientStream(s) \/ Login(s) \/ ClientReads(s) \/ ClientGone(s) \/ Ending(s) \/ Closing(s)
    PROVE  Slot(q)' = Slot(q) \/ Slot(q) # q
<1> USE DEF Slot
<1>t. dict \in [Peers -> [Users -> Streams \cup {NoStream}]]
  BY DEF DictType
<1>1. CASE UNCHANGED dict
  BY <1>1
<1>2. ASSUME NEW x, dict' = [dict EXCEPT ![HallOf[s]][UserOf[s]] = x],
             dict[HallOf[s]][UserOf[s]] \in {NoStream, s}
      PROVE  Slot(q)' = Slot(q) \/ Slot(q) # q
  <2>1. CASE HallOf[q] = HallOf[s] /\ UserOf[q] = UserOf[s]
    BY <1>2, <2>1
  <2>2. CASE ~(HallOf[q] = HallOf[s] /\ UserOf[q] = UserOf[s])
    BY <1>t, <1>2, <2>2
  <2> QED BY <2>1, <2>2
<1>3. CASE InsertSession(s)
  BY <1>1, <1>2, <1>3, Zenon DEF InsertSession
<1>4. CASE LoadFails(s)
  <2>1. dict[HallOf[s]][UserOf[s]] = s
    BY <1>4 DEF LoadFails, SessionShape, InDict, Served
  <2> QED BY <1>2, <1>4, <2>1, Zenon DEF LoadFails
<1>5. CASE CloseDict(s)
  <2>1. dict[HallOf[s]][UserOf[s]] = s
    BY <1>5 DEF CloseDict, InDict
  <2> QED BY <1>2, <1>5, <2>1, Zenon DEF CloseDict
<1>6. CASE ClientStream(s) \/ (Login(s) /\ ~InsertSession(s) /\ ~LoadFails(s))
  BY <1>1, <1>6, Zenon DEF ClientStream, Login, LockLocalUser, LockFails, LockStore, LockRefused,
     InsteadReturns, CheckSession, CountSession, LoadSucceeds, UncountSession, LoginUnlock,
     BindResponse, BindCancel, dictVars
<1>7. CASE ClientReads(s) \/ ClientGone(s) \/ Ending(s) \/ (Closing(s) /\ ~CloseDict(s))
  BY <1>1, <1>7, Zenon DEF ClientReads, ClientGone, Ending, Closing, ClientCancelled, StreamClose, StreamEnd,
     Logout, CloseUnlock, CloseCount, dictVars
<1> QED BY <1>3, <1>4, <1>5, <1>6, <1>7

\* All sessions have their shape.
AllShape == \A s \in Streams : SessionShape(s) /\ InDict(s)

\* A step that begins to close s, or marks it as closed, keeps them.
LEMMA CloseKeeps ==
    ASSUME DictType, AllShape, NEW s \in Streams, ~isClosed[s], UNCHANGED <<login, dict>>,
           \/ cancel[s] # "nil" /\ BeginClose(s)
           \/ isClosed' = [isClosed EXCEPT ![s] = TRUE] /\ UNCHANGED <<close, cancel>>
    PROVE  AllShape'
<1> SUFFICES ASSUME NEW q \in Streams PROVE SessionShape(q)' /\ InDict(q)'
  BY DEF AllShape
<1>a. SessionShape(q) /\ InDict(q)
  BY DEF AllShape
<1>t. /\ close \in [Streams -> CloseLabels]
      /\ isClosed \in [Streams -> BOOLEAN] /\ cancel \in [Streams -> {"nil", "set", "called"}]
  BY DEF DictType
<1>1. CASE q # s
  <2>1. Idle(q) /\ Slot(q)' = Slot(q)
    BY <1>t, <1>1 DEF Idle, BeginClose, GotoClose, Slot
  <2> QED BY <1>a, <2>1, IdleKeeps
<1>2. CASE q = s /\ cancel[s] # "nil" /\ BeginClose(s)
  BY <1>2, <1>a, BeginKeeps
<1>3. CASE q = s /\ isClosed' = [isClosed EXCEPT ![s] = TRUE] /\ UNCHANGED <<close, cancel>>
  BY <1>3, <1>a, <1>t DEF SessionShape, InDict
<1> QED BY <1>1, <1>2, <1>3

\* Every step keeps the shape of the sessions.
LEMMA ShapeStep ==
    ASSUME DictType, VictimFound, AllShape, [Next]_vars
    PROVE  AllShape'
<1>1. ASSUME NEW s \in Streams,
             ClientStream(s) \/ Login(s) \/ ClientReads(s) \/ ClientGone(s) \/ Ending(s) \/ Closing(s)
      PROVE  AllShape'
  <2> SUFFICES ASSUME NEW q \in Streams PROVE SessionShape(q)' /\ InDict(q)'
    BY DEF AllShape
  <2>1. CASE q = s
    BY <1>1, <2>1, OwnShape DEF AllShape
  <2>2. CASE q # s
    <3>1. Idle(q)
      BY <1>1, <2>2, OthersIdle
    <3>2. Slot(q)' = Slot(q) \/ Slot(q) # q
      BY <1>1, <2>2, OthersSlot DEF AllShape
    <3> QED BY <3>1, <3>2, IdleKeeps DEF AllShape
  <2> QED BY <2>1, <2>2
<1>2. ASSUME UNCHANGED <<login, close, isClosed, cancel, dict>> PROVE AllShape'
  BY <1>2 DEF AllShape, SessionShape, InDict
<1>3. ASSUME NEW h \in Requests, KickRequest(h) \/ Handler(h) PROVE AllShape'
  <2>1. CASE HandlerClose(h)
    <3>1. victim[h] \in Streams
      BY <2>1 DEF HandlerClose, VictimFound
    <3>2. UNCHANGED <<login, dict>>
      BY <2>1 DEF HandlerClose, dictVars
    <3>3. CASE isClosed[victim[h]]
      BY <1>2, <2>1, <3>2, <3>3 DEF HandlerClose
    <3>4. CASE ~isClosed[victim[h]]
      BY <2>1, <3>1, <3>2, <3>4, CloseKeeps DEF HandlerClose
    <3> QED BY <3>3, <3>4
  <2> QED BY <1>2, <1>3, <2>1, Zenon DEF KickRequest, Handler, RequestFails, HandlerLoad,
          HandlerUnlock, HandlerSend, HandlerWait, sessionVars, dictVars
<1>4. ASSUME NEW p \in Peers, Die(p) PROVE AllShape'
  <2> SUFFICES ASSUME NEW q \in Streams PROVE SessionShape(q)' /\ InDict(q)'
    BY DEF AllShape
  <2>t. dict \in [Peers -> [Users -> Streams \cup {NoStream}]]
    BY DEF DictType
  <2>1. CASE HallOf[q] = p
    <3>1. /\ login'[q] \in {"new", "dead"} /\ close'[q] = "none" /\ cancel'[q] = "nil"
      BY <1>4, <2>1 DEF Die
    <3> QED BY <3>1 DEF SessionShape, InDict, Served
  <2>2. CASE HallOf[q] # p
    <3>1. /\ login'[q] = login[q] /\ close'[q] = close[q] /\ cancel'[q] = cancel[q]
          /\ Slot(q)' = Slot(q)
      BY <1>4, <2>2, <2>t DEF Die, Slot
    <3>2. isClosed'[q] = isClosed[q]
      BY <1>4, <2>2 DEF Die, DictType
    <3> QED BY <3>1, <3>2, IdleKeeps DEF Idle, AllShape
  <2> QED BY <2>1, <2>2
<1>5. ASSUME NEW p \in Peers, Crash(p) \/ Restart(p) \/ StopBegin(p) \/ Stopping(p) PROVE AllShape'
  <2>1. ASSUME NEW s \in Streams, StopClose(p, s), ~Die(p) PROVE AllShape'
    <3>1. CASE isClosed[s]
      BY <1>2, <2>1, <3>1 DEF StopClose, threadVars, sessionVars, dictVars
    <3>2. CASE ~isClosed[s]
      BY <2>1, <3>2, CloseKeeps DEF StopClose, dictVars
    <3> QED BY <3>1, <3>2
  <2>2. ASSUME NEW u \in Users, Unregister(p, u) PROVE AllShape'
    BY <1>2, <2>2, Zenon DEF Unregister, threadVars, sessionVars, dictVars
  <2>3. CASE Restart(p) \/ StopBegin(p) \/ StopRange(p) \/ StopWait(p) \/ StopCheck(p)
    BY <1>2, <2>3, Zenon DEF Restart, StopBegin, StopRange, StopWait, StopCheck, threadVars,
       sessionVars, dictVars
  <2> QED BY <1>4, <1>5, <2>1, <2>2, <2>3 DEF Crash, Stopping, Exit
<1>6. CASE UNCHANGED vars
  BY <1>2, <1>6 DEF vars, threadVars, sessionVars, dictVars
<1>7. Kicks \subseteq Requests
  BY DEF Requests
<1> QED BY <1>1, <1>3, <1>5, <1>6, <1>7 DEF Next

-----------------------------------------------------------------------------
(* What the steps leave alone.                                             *)

\* The steps of a stream leave the halls alone, and the requests of others.
LEMMA StreamFrame ==
    ASSUME DictType, NEW s \in Streams,
           ClientStream(s) \/ Login(s) \/ ClientReads(s) \/ ClientGone(s) \/ Ending(s) \/ Closing(s)
    PROVE  /\ UNCHANGED stopVars
           /\ \A h \in Requests : h # s => rpc'[h] = rpc[h] /\ target'[h] = target[h]
<1>t. rpc \in [Requests -> RpcLabels] /\ target \in [Requests -> Peers \cup {NoPeer}]
  BY DEF DictType
<1>1. CASE LockRefused(s)
  <2>1. UNCHANGED stopVars
    BY <1>1, Zenon DEF LockRefused
  <2>2. \/ target' = [target EXCEPT ![s] = Holder(HallOf[s], UserOf[s])] /\ rpc' = [rpc EXCEPT ![s] = "request"]
        \/ UNCHANGED <<target, rpc>>
    BY <1>1, Zenon DEF LockRefused, GotoRpc
  <2> QED BY <1>t, <2>1, <2>2
<1>2. CASE InsteadReturns(s)
  BY <1>t, <1>2 DEF InsteadReturns, GotoRpc
<1>3. CASE UNCHANGED <<rpc, target, stopVars>>
  BY <1>3
<1>4. CASE ClientStream(s) \/ (Login(s) /\ ~LockRefused(s) /\ ~InsteadReturns(s))
  BY <1>3, <1>4, Zenon DEF ClientStream, Login, LockLocalUser, LockFails, LockStore, CheckSession,
     InsertSession, CountSession, LoadSucceeds, LoadFails, UncountSession, LoginUnlock, BindResponse, BindCancel
<1>5. CASE ClientReads(s) \/ ClientGone(s) \/ Ending(s) \/ Closing(s)
  BY <1>3, <1>5, Zenon DEF ClientReads, ClientGone, Ending, Closing, ClientCancelled, StreamClose, StreamEnd,
     Logout, CloseUnlock, CloseDict, CloseCount
<1> QED BY <1>1, <1>2, <1>4, <1>5

\* A step of a login is a step of a stream that is logging in.
LEMMA LoginGuard == ASSUME NEW s, Login(s) PROVE InLogin(s)
  BY DEF Login, InLogin, LockLocalUser, LockFails, LockStore, LockRefused, InsteadReturns, CheckSession,
     InsertSession, CountSession, LoadSucceeds, LoadFails, UncountSession, LoginUnlock, BindResponse, BindCancel

\* The end of a stream, and Close, make no login.
LEMMA EndGuard ==
    ASSUME DictType, NEW s \in Streams, ClientReads(s) \/ ClientGone(s) \/ Ending(s) \/ Closing(s)
    PROVE  /\ UNCHANGED rpc
           /\ login'[s] = login[s] \/ login'[s] \in {"exit", "closing", "done"}
           /\ \/ login[s] \in {"running", "exit", "closing"}
              \/ close[s] \in {"logout", "load", "txn", "del", "dict", "count"}
<1>t. login \in [Streams -> LoginLabels]
  BY DEF DictType
<1>1. CASE ClientReads(s) \/ ClientGone(s) \/ ClientCancelled(s)
  BY <1>t, <1>1 DEF ClientReads, ClientGone, ClientCancelled, GotoLogin
<1>2. CASE StreamClose(s) \/ StreamEnd(s)
  BY <1>t, <1>2 DEF StreamClose, StreamEnd, GotoLogin
<1>3. CASE Closing(s)
  BY <1>3 DEF Closing, Logout, CloseUnlock, CloseDict, CloseCount
<1> QED BY <1>1, <1>2, <1>3 DEF Ending

\* The steps of the halls, but for a death and for the Close of the stop loop,
\* leave the threads alone.
LEMMA HallFrame ==
    ASSUME NEW p \in Peers, Crash(p) \/ Restart(p) \/ StopBegin(p) \/ Stopping(p)
    PROVE  \/ Die(p)
           \/ UNCHANGED <<threadVars, sessionVars, dictVars>>
           \/ \E s \in Streams :
                 /\ stopAt[p] = "close" /\ ~isClosed[s] /\ cancel[s] # "nil" /\ BeginClose(s)
                 /\ UNCHANGED <<keyVars, localPlayers, login, rpc, target, victim, tok, resp,
                                dictVars, phase, stopAt>>
<1>1. ASSUME NEW u \in Users, Unregister(p, u) PROVE UNCHANGED <<threadVars, sessionVars, dictVars>>
  BY <1>1, Zenon DEF Unregister
<1>2. CASE Restart(p) \/ StopBegin(p) \/ StopRange(p) \/ StopWait(p) \/ StopCheck(p)
  BY <1>2, Zenon DEF Restart, StopBegin, StopRange, StopWait, StopCheck
<1>3. ASSUME NEW s \in Streams, StopClose(p, s)
      PROVE  \/ Die(p)
             \/ UNCHANGED <<threadVars, sessionVars, dictVars>>
             \/ /\ stopAt[p] = "close" /\ ~isClosed[s] /\ cancel[s] # "nil" /\ BeginClose(s)
                /\ UNCHANGED <<keyVars, localPlayers, login, rpc, target, victim, tok, resp,
                               dictVars, phase, stopAt>>
  BY <1>3, Zenon DEF StopClose
<1> QED BY <1>1, <1>2, <1>3, Zenon DEF Crash, Stopping, Exit

\* The handlers leave the streams alone; a handler that is at work moves.
LEMMA HandlerFrame ==
    ASSUME DictType, NEW h \in Requests, KickRequest(h) \/ Handler(h)
    PROVE  /\ UNCHANGED <<login, target, dictVars, stopVars>>
           /\ \A g \in Requests : g # h => rpc'[g] = rpc[g]
           /\ Handler(h) => rpc[h] \in {"request", "load", "txn", "del", "send", "close", "wait"}
           /\ UNCHANGED close \/ HandlerClose(h)
<1>t. rpc \in [Requests -> RpcLabels]
  BY DEF DictType
<1>1. UNCHANGED <<login, target, dictVars, stopVars>> /\ (UNCHANGED close \/ HandlerClose(h))
  BY Zenon DEF KickRequest, Handler, RequestFails, HandlerLoad, HandlerUnlock, HandlerSend,
     HandlerClose, HandlerWait
<1>2. \E l : rpc' = [rpc EXCEPT ![h] = l]
  BY Zenon DEF KickRequest, Handler, RequestFails, HandlerLoad, HandlerUnlock, HandlerSend,
     HandlerClose, HandlerWait, GotoRpc
<1>3. Handler(h) => rpc[h] \in {"request", "load", "txn", "del", "send", "close", "wait"}
  BY DEF Handler, RequestFails, HandlerLoad, HandlerUnlock, HandlerSend, HandlerClose, HandlerWait
<1> QED BY <1>t, <1>1, <1>2, <1>3

\* The steps that leave sessionDict alone.
LEMMA DictMoves ==
    ASSUME [Next]_vars
    PROVE  \/ UNCHANGED dict
           \/ \E s \in Streams : InsertSession(s) \/ LoadFails(s) \/ CloseDict(s)
           \/ \E p \in Peers : Die(p)
<1> DEFINE G == \/ UNCHANGED dict
                \/ \E s \in Streams : InsertSession(s) \/ LoadFails(s) \/ CloseDict(s)
                \/ \E p \in Peers : Die(p)
<1>1. ASSUME NEW s \in Streams, ClientStream(s) \/ Login(s) PROVE G
  BY <1>1, Zenon DEF ClientStream, Login, LockLocalUser, LockFails, LockStore, LockRefused, InsteadReturns,
     CheckSession, CountSession, LoadSucceeds, UncountSession, LoginUnlock, BindResponse, BindCancel,
     dictVars
<1>2. ASSUME NEW s \in Streams, ClientReads(s) \/ ClientGone(s) \/ Ending(s) \/ Closing(s) PROVE G
  BY <1>2, Zenon DEF ClientReads, ClientGone, Ending, Closing, ClientCancelled, StreamClose, StreamEnd,
     Logout, CloseUnlock, CloseCount, dictVars
<1>3. ASSUME NEW h, KickRequest(h) \/ Handler(h) PROVE G
  BY <1>3, Zenon DEF KickRequest, Handler, RequestFails, HandlerLoad, HandlerUnlock, HandlerSend,
     HandlerClose, HandlerWait, dictVars
<1>4. ASSUME NEW p \in Peers, Crash(p) \/ Restart(p) \/ StopBegin(p) \/ Stopping(p) PROVE G
  BY <1>4, Zenon DEF Crash, Restart, StopBegin, Stopping, StopRange, StopClose, StopWait,
     StopCheck, Unregister, Exit, dictVars
<1>5. ASSUME UNCHANGED vars PROVE G
  BY <1>5, Zenon DEF vars, dictVars
<1> HIDE DEF G
<1>6. G
  BY <1>1, <1>2, <1>3, <1>4, <1>5, Zenon DEF Next
<1> QED BY <1>6 DEF G

-----------------------------------------------------------------------------
(* The number of sessions.                                                 *)

\* What a step leaves alone: at hall p, and of stream q.
SameTally(p) ==
    /\ Sessions(p)' = Sessions(p) /\ count'[p] = count[p]
    /\ CountingIn(p)' = CountingIn(p) /\ CountingOut(p)' = CountingOut(p)

SameMarks(q) ==
    /\ login'[q] = "count" <=> login[q] = "count"
    /\ login'[q] = "uncount" \/ close'[q] = "count" <=> login[q] = "uncount" \/ close[q] = "count"

\* The ways in which a step may count the sessions of one hall: LoadOrStore,
\* the count after it, Delete, the count after it, and the death of the hall.
Tallies(p, u, s) ==
    \/ SameTally(p)
    \/ /\ u \notin Sessions(p) /\ Sessions(p)' = Sessions(p) \cup {u}
       /\ s \notin CountingIn(p) /\ CountingIn(p)' = CountingIn(p) \cup {s}
       /\ CountingOut(p)' = CountingOut(p) /\ count'[p] = count[p]
    \/ /\ s \in CountingIn(p) /\ CountingIn(p)' = CountingIn(p) \ {s}
       /\ count'[p] = count[p] + 1
       /\ Sessions(p)' = Sessions(p) /\ CountingOut(p)' = CountingOut(p)
    \/ /\ u \in Sessions(p) /\ Sessions(p)' = Sessions(p) \ {u}
       /\ s \notin CountingOut(p) /\ CountingOut(p)' = CountingOut(p) \cup {s}
       /\ CountingIn(p)' = CountingIn(p) /\ count'[p] = count[p]
    \/ /\ s \in CountingOut(p) /\ CountingOut(p)' = CountingOut(p) \ {s}
       /\ count'[p] = count[p] - 1
       /\ Sessions(p)' = Sessions(p) /\ CountingIn(p)' = CountingIn(p)
    \/ Sessions(p)' = {} /\ CountingIn(p)' = {} /\ CountingOut(p)' = {} /\ count'[p] = 0

\* Each of them counts.
LEMMA TallyKeeps ==
    ASSUME DictCounted, count \in [Peers -> Int], NEW p \in Peers, NEW u, NEW s, Tallies(p, u, s)
    PROVE  /\ count'[p] = Cardinality(Sessions(p)') + Cardinality(CountingOut(p)') - Cardinality(CountingIn(p)')
           /\ count'[p] \in Int
           /\ IsFiniteSet(Sessions(p)') /\ IsFiniteSet(CountingIn(p)') /\ IsFiniteSet(CountingOut(p)')
<1> DEFINE D == Sessions(p)
           I == CountingIn(p)
           O == CountingOut(p)
           Dn == Sessions(p)'
           In == CountingIn(p)'
           On == CountingOut(p)'
<1>1. count[p] = Cardinality(D) + Cardinality(O) - Cardinality(I)
  BY DEF DictCounted, CountMatchesDict
<1>2. IsFiniteSet(D) /\ IsFiniteSet(I) /\ IsFiniteSet(O)
  BY DEF DictCounted
<1>3. Cardinality(D) \in Nat /\ Cardinality(I) \in Nat /\ Cardinality(O) \in Nat /\ count[p] \in Int
  BY <1>2, FS_CardinalityType
<1>a. ASSUME NEW S, IsFiniteSet(S), NEW x, x \notin S
      PROVE  IsFiniteSet(S \cup {x}) /\ Cardinality(S \cup {x}) = Cardinality(S) + 1
  BY <1>a, FS_AddElement
<1>r. ASSUME NEW S, IsFiniteSet(S), NEW x, x \in S
      PROVE  IsFiniteSet(S \ {x}) /\ Cardinality(S \ {x}) = Cardinality(S) - 1
  BY <1>r, FS_RemoveElement
<1>4. \/ Dn = D /\ On = O /\ In = I /\ count'[p] = count[p]
      \/ u \notin D /\ Dn = D \cup {u} /\ s \notin I /\ In = I \cup {s} /\ On = O /\ count'[p] = count[p]
      \/ s \in I /\ In = I \ {s} /\ count'[p] = count[p] + 1 /\ Dn = D /\ On = O
      \/ u \in D /\ Dn = D \ {u} /\ s \notin O /\ On = O \cup {s} /\ In = I /\ count'[p] = count[p]
      \/ s \in O /\ On = O \ {s} /\ count'[p] = count[p] - 1 /\ Dn = D /\ In = I
      \/ Dn = {} /\ In = {} /\ On = {} /\ count'[p] = 0
  BY Zenon DEF Tallies, SameTally
<1> HIDE DEF D, I, O, Dn, In, On
<1>5. /\ IsFiniteSet(Dn) /\ IsFiniteSet(In) /\ IsFiniteSet(On)
      /\ count'[p] = Cardinality(Dn) + Cardinality(On) - Cardinality(In)
      /\ count'[p] \in Int
  <2>1. CASE Dn = D /\ On = O /\ In = I /\ count'[p] = count[p]
    BY <1>1, <1>2, <1>3, <2>1
  <2>2. CASE /\ u \notin D /\ Dn = D \cup {u} /\ s \notin I /\ In = I \cup {s} /\ On = O
             /\ count'[p] = count[p]
    <3>1. IsFiniteSet(Dn) /\ Cardinality(Dn) = Cardinality(D) + 1
      BY <1>2, <1>a, <2>2
    <3>2. IsFiniteSet(In) /\ Cardinality(In) = Cardinality(I) + 1
      BY <1>2, <1>a, <2>2
    <3> QED BY <1>1, <1>2, <1>3, <2>2, <3>1, <3>2
  <2>3. CASE s \in I /\ In = I \ {s} /\ count'[p] = count[p] + 1 /\ Dn = D /\ On = O
    <3>1. IsFiniteSet(In) /\ Cardinality(In) = Cardinality(I) - 1
      BY <1>2, <1>r, <2>3
    <3> QED BY <1>1, <1>2, <1>3, <2>3, <3>1
  <2>4. CASE /\ u \in D /\ Dn = D \ {u} /\ s \notin O /\ On = O \cup {s} /\ In = I
             /\ count'[p] = count[p]
    <3>1. IsFiniteSet(Dn) /\ Cardinality(Dn) = Cardinality(D) - 1
      BY <1>2, <1>r, <2>4
    <3>2. IsFiniteSet(On) /\ Cardinality(On) = Cardinality(O) + 1
      BY <1>2, <1>a, <2>4
    <3> QED BY <1>1, <1>2, <1>3, <2>4, <3>1, <3>2
  <2>5. CASE s \in O /\ On = O \ {s} /\ count'[p] = count[p] - 1 /\ Dn = D /\ In = I
    <3>1. IsFiniteSet(On) /\ Cardinality(On) = Cardinality(O) - 1
      BY <1>2, <1>r, <2>5
    <3> QED BY <1>1, <1>2, <1>3, <2>5, <3>1
  <2>6. CASE Dn = {} /\ In = {} /\ On = {} /\ count'[p] = 0
    BY <2>6, FS_EmptySet
  <2> QED BY <1>4, <2>1, <2>2, <2>3, <2>4, <2>5, <2>6
<1> QED BY <1>5 DEF Dn, In, On

\* So a step that does one of them at hall p, and nothing at another, does.
LEMMA TallyStep ==
    ASSUME DictCounted, count \in [Peers -> Int], count' \in [Peers -> Int],
           NEW p \in Peers, NEW u, NEW s, Tallies(p, u, s),
           \A q \in Peers : q # p => SameTally(q)
    PROVE  DictCounted'
<1>1. ASSUME NEW q \in Peers
      PROVE  /\ count'[q] = Cardinality(Sessions(q)') + Cardinality(CountingOut(q)') - Cardinality(CountingIn(q)')
             /\ IsFiniteSet(Sessions(q)') /\ IsFiniteSet(CountingIn(q)') /\ IsFiniteSet(CountingOut(q)')
  <2>1. CASE q = p
    BY <2>1, TallyKeeps
  <2>2. CASE q # p
    BY <2>2, TallyKeeps DEF Tallies
  <2> QED BY <2>1, <2>2
<1> QED BY <1>1, Zenon DEF DictCounted, CountMatchesDict

\* A step that leaves sessionDict, the count and the marks alone does.
LEMMA TallyFrame ==
    ASSUME DictCounted, \A q \in Streams : SameMarks(q), UNCHANGED dictVars
    PROVE  DictCounted'
<1>1. ASSUME NEW p \in Peers PROVE SameTally(p)
  <2>1. CountingIn(p)' = CountingIn(p) /\ CountingOut(p)' = CountingOut(p)
    BY DEF CountingIn, CountingOut, SameMarks
  <2>2. Sessions(p)' = Sessions(p) /\ count' = count
    BY DEF Sessions, dictVars
  <2> QED BY <2>1, <2>2 DEF SameTally
<1> QED BY <1>1, Zenon DEF DictCounted, CountMatchesDict, SameTally

\* The steps of a stream that count nothing keep its own marks.
LEMMA OwnMarks ==
    ASSUME DictType, NEW s \in Streams, SessionShape(s),
           ClientStream(s) \/ Login(s) \/ ClientReads(s) \/ ClientGone(s) \/ Ending(s) \/ Closing(s),
           ~InsertSession(s) \/ Slot(s) # NoStream, ~CountSession(s), ~LoadFails(s),
           ~UncountSession(s), ~CloseDict(s), ~CloseCount(s)
    PROVE  SameMarks(s) /\ UNCHANGED dictVars
<1> USE DEF SameMarks, GotoLogin, GotoClose
<1>t. login \in [Streams -> LoginLabels] /\ close \in [Streams -> CloseLabels]
  BY DEF DictType
<1>1. CASE \/ ClientStream(s) \/ LockLocalUser(s) \/ LockFails(s) \/ LockStore(s) \/ LockRefused(s)
           \/ InsteadReturns(s) \/ CheckSession(s) \/ LoadSucceeds(s) \/ BindResponse(s)
           \/ BindCancel(s)
  <2>1. UNCHANGED dictVars /\ UNCHANGED close
    BY <1>1, Zenon DEF ClientStream, LockLocalUser, LockFails, LockStore, LockRefused,
       InsteadReturns, CheckSession, LoadSucceeds, BindResponse, BindCancel
  <2>2. login[s] \notin {"count", "uncount"} /\ login'[s] \notin {"count", "uncount"}
    BY <1>t, <1>1 DEF ClientStream, LockLocalUser, LockFails, LockStore, LockRefused,
       InsteadReturns, CheckSession, LoadSucceeds, BindResponse, BindCancel
  <2> QED BY <2>1, <2>2
<1>2. CASE LoginUnlock(s)
  <2>1. PICK l \in UnlockLabels : login' = [login EXCEPT ![s] = IF l \in {"ok", "refused"} THEN "failed" ELSE l]
    BY <1>2 DEF LoginUnlock
  <2> QED BY <1>t, <1>2, <2>1 DEF LoginUnlock, UnlockLabels
<1>3. CASE InsertSession(s) /\ Slot(s) # NoStream
  BY <1>t, <1>3 DEF InsertSession, Slot, dictVars
<1>4. CASE ClientReads(s) \/ ClientGone(s) \/ ClientCancelled(s) \/ StreamEnd(s)
  <2>1. UNCHANGED <<dictVars, close>>
    BY <1>4, Zenon DEF ClientReads, ClientGone, ClientCancelled, StreamEnd
  <2>2. login' = login \/ (login[s] \in {"running", "closing"} /\ login'[s] \in {"exit", "done"})
    BY <1>t, <1>4 DEF ClientReads, ClientGone, ClientCancelled, StreamEnd
  <2> QED BY <2>1, <2>2 DEF dictVars
<1>5. CASE StreamClose(s)
  <2>1. UNCHANGED dictVars /\ login[s] = "exit" /\ login'[s] \in {"closing", "done"}
    BY <1>t, <1>5 DEF StreamClose
  <2>2. close' = close \/ (close[s] = "none" /\ close'[s] = "logout")
    BY <1>t, <1>5 DEF StreamClose, BeginClose, SessionShape
  <2> QED BY <2>1, <2>2
<1>6. CASE Logout(s)
  BY <1>t, <1>6 DEF Logout
<1>7. CASE CloseUnlock(s)
  <2>1. PICK l \in UnlockLabels : close' = [close EXCEPT ![s] = IF l \in {"ok", "refused"} THEN "dict" ELSE l]
    BY <1>7 DEF CloseUnlock
  <2> QED BY <1>t, <1>7, <2>1 DEF CloseUnlock, UnlockLabels
<1> QED BY <1>1, <1>2, <1>3, <1>4, <1>5, <1>6, <1>7, Zenon DEF Login, Ending, Closing

\* Close of a session in play marks nothing.
LEMMA BeginMarks ==
    ASSUME DictType, NEW s \in Streams, SessionShape(s), ~isClosed[s], BeginClose(s),
           UNCHANGED login
    PROVE  \A q \in Streams : SameMarks(q)
  BY DEF DictType, SessionShape, BeginClose, GotoClose, SameMarks

\* The steps of a stream count.
LEMMA CountStream ==
    ASSUME DictType, AllShape, DictCounted, count \in [Peers -> Int], NEW s \in Streams,
           ClientStream(s) \/ Login(s) \/ ClientReads(s) \/ ClientGone(s) \/ Ending(s) \/ Closing(s)
    PROVE  DictCounted' /\ count' \in [Peers -> Int]
<1> DEFINE p == HallOf[s]
           u == UserOf[s]
<1>s. p \in Peers /\ u \in Users /\ s # NoStream
  OBVIOUS
<1>t. /\ login \in [Streams -> LoginLabels] /\ close \in [Streams -> CloseLabels]
      /\ dict \in [Peers -> [Users -> Streams \cup {NoStream}]]
  BY DEF DictType
<1>h. SessionShape(s) /\ InDict(s)
  BY DEF AllShape
<1>o. ASSUME NEW q \in Streams, q # s PROVE login'[q] = login[q] /\ close'[q] = close[q]
  BY <1>o, OthersIdle DEF Idle
<1>m. \A q \in Streams : q # s => SameMarks(q)
  BY <1>o DEF SameMarks
<1>n. ASSUME NEW q \in Peers, q # p, dict'[q] = dict[q], count'[q] = count[q] PROVE SameTally(q)
  BY <1>n, <1>m DEF SameTally, SameMarks, Sessions, CountingIn, CountingOut
<1>1. CASE InsertSession(s) /\ Slot(s) = NoStream
  <2>1. /\ dict' = [dict EXCEPT ![p][u] = s] /\ count' = count /\ close' = close
        /\ login[s] = "insert" /\ login'[s] = "count" /\ dict[p][u] = NoStream
    BY <1>1, <1>t DEF InsertSession, GotoLogin, Slot
  <2>2. u \notin Sessions(p) /\ Sessions(p)' = Sessions(p) \cup {u}
    BY <1>s, <1>t, <2>1 DEF Sessions
  <2>3. s \notin CountingIn(p) /\ CountingIn(p)' = CountingIn(p) \cup {s}
    BY <1>o, <2>1 DEF CountingIn
  <2>4. CountingOut(p)' = CountingOut(p)
    BY <1>o, <2>1 DEF CountingOut
  <2>5. \A q \in Peers : q # p => SameTally(q)
    BY <1>n, <1>t, <2>1
  <2> QED BY <1>s, <2>1, <2>2, <2>3, <2>4, <2>5, TallyStep DEF Tallies
<1>2. CASE CountSession(s)
  <2>1. /\ dict' = dict /\ count' = [count EXCEPT ![p] = @ + 1] /\ close' = close
        /\ login[s] = "count" /\ login'[s] = "loading"
    BY <1>2, <1>t DEF CountSession, GotoLogin
  <2>2. s \in CountingIn(p) /\ CountingIn(p)' = CountingIn(p) \ {s}
    BY <1>o, <2>1 DEF CountingIn
  <2>3. CountingOut(p)' = CountingOut(p) /\ Sessions(p)' = Sessions(p)
    BY <1>o, <2>1 DEF CountingOut, Sessions
  <2>4. count'[p] = count[p] + 1 /\ count' \in [Peers -> Int]
    BY <1>s, <2>1
  <2>5. \A q \in Peers : q # p => SameTally(q)
    BY <1>n, <2>1
  <2> QED BY <1>s, <2>2, <2>3, <2>4, <2>5, TallyStep DEF Tallies
<1>3. CASE LoadFails(s) \/ CloseDict(s)
  <2>1. /\ dict' = [dict EXCEPT ![p][u] = NoStream] /\ count' = count
        /\ \/ login[s] = "loading" /\ login'[s] = "uncount" /\ close' = close
           \/ close[s] = "dict" /\ close'[s] = "count" /\ login' = login
    BY <1>3, <1>t DEF LoadFails, CloseDict, GotoLogin, GotoClose
  <2>2. dict[p][u] = s
    BY <1>h, <2>1 DEF SessionShape, InDict, Served
  <2>3. u \in Sessions(p) /\ Sessions(p)' = Sessions(p) \ {u}
    BY <1>s, <1>t, <2>1, <2>2 DEF Sessions
  <2>4. s \notin CountingOut(p) /\ CountingOut(p)' = CountingOut(p) \cup {s}
    BY <1>o, <1>h, <2>1 DEF CountingOut, SessionShape, Served
  <2>5. CountingIn(p)' = CountingIn(p)
    BY <1>o, <2>1 DEF CountingIn
  <2>6. \A q \in Peers : q # p => SameTally(q)
    BY <1>n, <1>t, <2>1
  <2> QED BY <1>s, <2>1, <2>3, <2>4, <2>5, <2>6, TallyStep DEF Tallies
<1>4. CASE UncountSession(s) \/ CloseCount(s)
  <2>1. /\ dict' = dict /\ count' = [count EXCEPT ![p] = @ - 1]
        /\ \/ login[s] = "uncount" /\ login'[s] = "load" /\ close' = close
           \/ close[s] = "count" /\ close'[s] = "done" /\ login' = login
    BY <1>4, <1>t DEF UncountSession, CloseCount, GotoLogin, GotoClose
  <2>2. s \in CountingOut(p) /\ CountingOut(p)' = CountingOut(p) \ {s}
    BY <1>o, <1>h, <2>1 DEF CountingOut, SessionShape, Served
  <2>3. CountingIn(p)' = CountingIn(p) /\ Sessions(p)' = Sessions(p)
    BY <1>o, <2>1 DEF CountingIn, Sessions
  <2>4. count'[p] = count[p] - 1 /\ count' \in [Peers -> Int]
    BY <1>s, <2>1
  <2>5. \A q \in Peers : q # p => SameTally(q)
    BY <1>n, <2>1
  <2> QED BY <1>s, <2>2, <2>3, <2>4, <2>5, TallyStep DEF Tallies
<1>5. CASE /\ ~InsertSession(s) \/ Slot(s) # NoStream
           /\ ~CountSession(s) /\ ~LoadFails(s) /\ ~UncountSession(s) /\ ~CloseDict(s) /\ ~CloseCount(s)
  <2>1. SameMarks(s) /\ UNCHANGED dictVars
    BY <1>h, <1>5, OwnMarks
  <2> QED BY <1>m, <2>1, TallyFrame DEF dictVars
<1> QED BY <1>1, <1>2, <1>3, <1>4, <1>5

\* Every step counts.
LEMMA CountStep ==
    ASSUME DictType, VictimFound, AllShape, DictCounted, count \in [Peers -> Int], [Next]_vars
    PROVE  DictCounted' /\ count' \in [Peers -> Int]
<1>0. ASSUME UNCHANGED <<login, close, dictVars>> PROVE DictCounted' /\ count' \in [Peers -> Int]
  BY <1>0, TallyFrame DEF SameMarks, dictVars
<1>b. ASSUME NEW s \in Streams, ~isClosed[s], BeginClose(s), UNCHANGED <<login, dictVars>>
      PROVE  DictCounted' /\ count' \in [Peers -> Int]
  BY <1>b, BeginMarks, TallyFrame DEF AllShape, dictVars
<1>1. ASSUME NEW s \in Streams,
             ClientStream(s) \/ Login(s) \/ ClientReads(s) \/ ClientGone(s) \/ Ending(s) \/ Closing(s)
      PROVE  DictCounted' /\ count' \in [Peers -> Int]
  BY <1>1, CountStream
<1>2. ASSUME NEW h \in Requests, KickRequest(h) \/ Handler(h)
      PROVE  DictCounted' /\ count' \in [Peers -> Int]
  <2>1. UNCHANGED <<login, dictVars>> /\ (UNCHANGED close \/ HandlerClose(h))
    BY <1>2, HandlerFrame
  <2>2. CASE HandlerClose(h)
    <3>1. victim[h] \in Streams
      BY <2>2 DEF HandlerClose, VictimFound
    <3>2. UNCHANGED close \/ (~isClosed[victim[h]] /\ BeginClose(victim[h]))
      BY <2>2, Zenon DEF HandlerClose
    <3> QED BY <1>0, <1>b, <2>1, <3>1, <3>2 DEF dictVars
  <2> QED BY <1>0, <2>1, <2>2
<1>3. ASSUME NEW p \in Peers, Die(p) PROVE DictCounted' /\ count' \in [Peers -> Int]
  <2>1. /\ dict' = [dict EXCEPT ![p] = [u \in Users |-> NoStream]]
        /\ count' = [count EXCEPT ![p] = 0]
    BY <1>3 DEF Die
  <2>2. Sessions(p)' = {} /\ count'[p] = 0 /\ count' \in [Peers -> Int]
    BY <2>1 DEF Sessions, DictType
  <2>3. ASSUME NEW s \in Streams
        PROVE  IF HallOf[s] = p THEN login'[s] \in {"new", "dead"} /\ close'[s] = "none"
                                ELSE login'[s] = login[s] /\ close'[s] = close[s]
    BY <1>3 DEF Die
  <2>4. CountingIn(p)' = {} /\ CountingOut(p)' = {}
    BY <2>3 DEF CountingIn, CountingOut
  <2>5. ASSUME NEW q \in Peers, q # p PROVE SameTally(q)
    <3>1. Sessions(q)' = Sessions(q) /\ count'[q] = count[q]
      BY <2>1, <2>5 DEF Sessions, DictType
    <3>2. CountingIn(q)' = CountingIn(q) /\ CountingOut(q)' = CountingOut(q)
      BY <2>3, <2>5 DEF CountingIn, CountingOut
    <3> QED BY <3>1, <3>2 DEF SameTally
  <2>6. Tallies(p, NoStream, NoStream)
    BY <2>2, <2>4 DEF Tallies
  <2> QED BY <2>2, <2>5, <2>6, TallyStep
<1>4. ASSUME NEW p \in Peers, Crash(p) \/ Restart(p) \/ StopBegin(p) \/ Stopping(p)
      PROVE  DictCounted' /\ count' \in [Peers -> Int]
  BY <1>0, <1>b, <1>3, <1>4, HallFrame, Zenon DEF threadVars, dictVars
<1>5. CASE UNCHANGED vars
  BY <1>0, <1>5 DEF vars, threadVars
<1>6. Kicks \subseteq Requests
  BY DEF Requests
<1> QED BY <1>1, <1>2, <1>4, <1>5, <1>6 DEF Next

-----------------------------------------------------------------------------
(* The theorems about sessionDict.                                         *)

\* TypeOK is DictType and the type of count.
LEMMA TypeSplit == TypeOK <=> DictType /\ count \in [Peers -> Int]
  BY DEF TypeOK, DictType

\* The initial states.
LEMMA DictInit == Init => DictIInv
<1> SUFFICES ASSUME Init PROVE DictIInv
  OBVIOUS
<1>1. DictType
  <2>1. KeysTypeOK
    <3>1. Absent \in Key
      BY DEF Absent, Key
    <3> QED BY <3>1 DEF Init, KeysInit, KeysTypeOK
  <2>2. /\ login \in [Streams -> LoginLabels] /\ close \in [Streams -> CloseLabels]
        /\ rpc \in [Requests -> RpcLabels]
    BY DEF Init, LoginLabels, CloseLabels, RpcLabels
  <2>3. tok \in [{"login", "close", "rpc"} -> [Requests -> Nat]]
    BY DEF Init
  <2>4. target \in [Requests -> Peers \cup {NoPeer}] /\ victim \in [Requests -> Streams \cup {NoStream}]
    BY DEF Init
  <2>5. /\ isClosed \in [Streams -> BOOLEAN]
        /\ cancel \in [Streams -> {"nil", "set", "called"}]
        /\ resp \in [Streams -> {"nil", "open", "full", "closed", "abandoned"}]
    BY DEF Init
  <2>6. dict \in [Peers -> [Users -> Streams \cup {NoStream}]]
    BY DEF Init
  <2>7. /\ phase \in [Peers -> {"down", "up", "stopping", "stopped"}]
        /\ stopAt \in [Peers -> {"none", "range", "close"}]
        /\ toClose \in [Peers -> SUBSET Streams]
        /\ waitFor \in [Peers -> Streams \cup {NoStream}]
    BY DEF Init
  <2> QED BY <2>1, <2>2, <2>3, <2>4, <2>5, <2>6, <2>7 DEF DictType
<1>2. count \in [Peers -> Int]
  BY DEF Init
<1>3. LockNamesPeer
  BY DEF Init, KeysInit, Absent, LockNamesPeer
<1>4. RequestGoesTo /\ VictimFound
  BY DEF Init, RequestGoesTo, VictimFound, Requests
<1>5. DictCounted
  <2>1. \A p \in Peers : Sessions(p) = {} /\ count[p] = 0
    <3>1. dict = [p \in Peers |-> [u \in Users |-> NoStream]] /\ count = [p \in Peers |-> 0]
      BY Zenon DEF Init
    <3>2. ASSUME NEW p \in Peers PROVE count[p] = 0 /\ \A u \in Users : dict[p][u] = NoStream
      BY <3>1
    <3>3. ASSUME NEW p \in Peers PROVE {u \in Users : dict[p][u] # NoStream} = {}
      BY <3>2
    <3> QED BY <3>2, <3>3, Zenon DEF Sessions
  <2>2. \A s \in Streams : login[s] = "new" /\ close[s] = "none"
    BY DEF Init
  <2>3. \A p \in Peers : CountingIn(p) = {} /\ CountingOut(p) = {}
    BY <2>2 DEF CountingIn, CountingOut
  <2>4. ASSUME NEW S, S = {} PROVE IsFiniteSet(S) /\ Cardinality(S) = 0
    BY <2>4, FS_EmptySet
  <2> QED BY <2>1, <2>3, <2>4 DEF DictCounted, CountMatchesDict
<1>6. \A s \in Streams : SessionShape(s) /\ InDict(s)
  BY DEF Init, SessionShape, InDict
<1> QED BY <1>1, <1>2, <1>3, <1>4, <1>5, <1>6, TypeSplit DEF DictIInv

\* Every step keeps the invariant of sessionDict.
LEMMA DictStep == DictIInv /\ [Next]_vars => DictIInv'
<1> SUFFICES ASSUME DictIInv, [Next]_vars PROVE DictIInv'
  OBVIOUS
<1>0. DictType /\ count \in [Peers -> Int] /\ RpcShape /\ AllShape /\ LockNamesPeer /\ DictCounted
  BY TypeSplit DEF DictIInv, RpcShape, AllShape
<1>1. DictType'
  BY <1>0, TypeStep DEF RpcShape
<1>2. LockNamesPeer'
  BY <1>0, NamesStep
<1>3. RpcShape'
  BY <1>0, RpcStep
<1>4. AllShape'
  BY <1>0, ShapeStep DEF RpcShape
<1>5. DictCounted' /\ count' \in [Peers -> Int]
  BY <1>0, CountStep DEF RpcShape
<1>6. TypeOK'
  BY <1>1, <1>5 DEF TypeOK, DictType
<1> QED BY <1>2, <1>3, <1>4, <1>5, <1>6 DEF DictIInv, RpcShape, AllShape

\* In any environment: the shape of the state, of the sessions and of
\* sessionDict.
THEOREM DictInvariant == Spec => []DictIInv
  BY DictInit, DictStep, PTL DEF Spec

\* Within one hall sessionDict alone keeps two sessions of a user apart,
\* whatever the environment does: overlapping logins, crashes, stops, kicks,
\* loads that fail (session.go:20, 96).
THEOREM HallKeepsOneSession == Spec => []HallSingleSession
<1>1. DictIInv => HallSingleSession
  BY DEF DictIInv, HallSingleSession, InDict
<1> QED BY <1>1, DictInvariant, PTL

\* sessionCount is the number of sessions in sessionDict, give or take those
\* whose goroutine is between LoadOrStore or Delete and the count after it,
\* whichever goroutine closes a session and however often (hall.go:121).
THEOREM CountAlwaysMatches == Spec => []CountMatchesDict
<1>1. DictIInv => CountMatchesDict
  BY DEF DictIInv, DictCounted
<1> QED BY <1>1, DictInvariant, PTL

-----------------------------------------------------------------------------
(* Logins and sessions of one user.                                        *)

\* Only ClientStream begins a login.
LEMMA LoggingInStep ==
    ASSUME DictType, [Next]_vars, NEW q \in Streams, LoggingIn(q)'
    PROVE  LoggingIn(q) \/ ClientStream(q)
<1>q. q \in Requests /\ q \notin Kicks
  BY DEF Requests
<1>0. ASSUME login'[q] = login[q], rpc'[q] = rpc[q] PROVE LoggingIn(q)
  BY <1>0 DEF LoggingIn, InLogin
<1>1. ASSUME NEW s \in Streams,
             ClientStream(s) \/ Login(s) \/ ClientReads(s) \/ ClientGone(s) \/ Ending(s) \/ Closing(s)
      PROVE  LoggingIn(q) \/ ClientStream(q)
  <2>1. CASE s # q
    <3>1. login'[q] = login[q]
      BY <1>1, <2>1, OthersIdle DEF Idle
    <3>2. rpc'[q] = rpc[q]
      BY <1>1, <1>q, <2>1, StreamFrame
    <3> QED BY <1>0, <3>1, <3>2
  <2>2. CASE s = q /\ Login(q)
    BY <2>2, LoginGuard DEF LoggingIn
  <2>3. CASE s = q /\ (ClientReads(q) \/ ClientGone(q) \/ Ending(q) \/ Closing(q))
    BY <1>0, <2>3, EndGuard DEF LoggingIn, InLogin
  <2> QED BY <1>1, <2>1, <2>2, <2>3
<1>2. ASSUME NEW h \in Requests, Handler(h) \/ (KickRequest(h) /\ h \in Kicks)
      PROVE  LoggingIn(q)
  <2>1. CASE h # q
    BY <1>0, <1>2, <1>q, <2>1, HandlerFrame
  <2>2. CASE h = q
    BY <1>2, <1>q, <2>2, HandlerFrame DEF LoggingIn
  <2> QED BY <2>1, <2>2
<1>3. ASSUME NEW p \in Peers, Crash(p) \/ Restart(p) \/ StopBegin(p) \/ Stopping(p)
      PROVE  LoggingIn(q)
  <2>1. CASE Die(p)
    <3>1. login'[q] \in {"dead", login[q]} /\ rpc'[q] \in {"lost", rpc[q]}
      BY <1>q, <2>1 DEF Die
    <3> QED BY <3>1 DEF LoggingIn, InLogin
  <2>2. CASE UNCHANGED <<login, rpc>>
    BY <1>0, <2>2
  <2> QED BY <1>3, <2>1, <2>2, HallFrame DEF threadVars
<1>4. CASE UNCHANGED vars
  BY <1>0, <1>4 DEF vars, threadVars
<1>5. Kicks \subseteq Requests
  BY DEF Requests
<1>6. ASSUME NEW k \in Kicks, KickRequest(k) PROVE LoggingIn(q)
  BY <1>2, <1>5, <1>6
<1>7. ASSUME NEW h \in Requests, Handler(h) PROVE LoggingIn(q)
  BY <1>2, <1>7
<1>8. CASE Next
  BY <1>1, <1>3, <1>6, <1>7, <1>8, Zenon DEF Next
<1> QED BY <1>4, <1>8

\* A session that is closed by a handler, or by the stop loop, is in play.
LEMMA ClosedInPlay ==
    ASSUME NEW s \in Streams, SessionShape(s), InDict(s), ~isClosed[s], cancel[s] # "nil"
    PROVE  login[s] \in {"running", "exit"} /\ close[s] = "none" /\ dict[HallOf[s]][UserOf[s]] = s
  BY DEF SessionShape, InDict, Served

\* Only ClientStream takes a stream on whose session is over.
LEMMA OverStep ==
    ASSUME DictType, VictimFound, AllShape, [Next]_vars, NEW q \in Streams, Over(q)
    PROVE  Over(q)' \/ ClientStream(q)
<1>t. close \in [Streams -> CloseLabels]
  BY DEF DictType
<1>0. ASSUME login'[q] = login[q], close'[q] = close[q] PROVE Over(q)'
  BY <1>0 DEF Over
<1>b. ASSUME NEW s \in Streams, ~isClosed[s], cancel[s] # "nil", BeginClose(s), UNCHANGED login
      PROVE  Over(q)'
  <2>1. s # q
    BY <1>b, ClosedInPlay DEF AllShape, Over
  <2> QED BY <1>0, <1>b, <1>t, <2>1 DEF BeginClose, GotoClose
<1>1. ASSUME NEW s \in Streams,
             ClientStream(s) \/ Login(s) \/ ClientReads(s) \/ ClientGone(s) \/ Ending(s) \/ Closing(s)
      PROVE  Over(q)' \/ ClientStream(q)
  <2>1. CASE s # q
    BY <1>0, <1>1, <2>1, OthersIdle DEF Idle
  <2>2. CASE s = q /\ Login(q)
    BY <2>2, LoginGuard DEF Over, InLogin
  <2>3. CASE s = q /\ (ClientReads(q) \/ ClientGone(q) \/ Ending(q) \/ Closing(q))
    BY <2>3, EndGuard DEF Over
  <2> QED BY <1>1, <2>1, <2>2, <2>3
<1>2. ASSUME NEW h \in Requests, Handler(h) \/ KickRequest(h) PROVE Over(q)'
  <2>0. UNCHANGED login /\ (UNCHANGED close \/ HandlerClose(h))
    BY <1>2, HandlerFrame
  <2>1. CASE UNCHANGED close
    BY <1>0, <2>0, <2>1
  <2>2. CASE HandlerClose(h) /\ ~UNCHANGED close
    <3>1. victim[h] \in Streams /\ ~isClosed[victim[h]] /\ cancel[victim[h]] # "nil" /\ BeginClose(victim[h])
      BY <2>2 DEF HandlerClose, VictimFound
    <3> QED BY <1>b, <2>0, <3>1
  <2> QED BY <2>0, <2>1, <2>2
<1>3. ASSUME NEW p \in Peers, Crash(p) \/ Restart(p) \/ StopBegin(p) \/ Stopping(p) PROVE Over(q)'
  <2>1. CASE Die(p)
    <3>1. login'[q] \in {"dead", login[q]} /\ close'[q] \in {"none", close[q]}
      BY <2>1 DEF Die
    <3> QED BY <3>1 DEF Over
  <2>2. CASE UNCHANGED <<login, close>>
    BY <1>0, <2>2
  <2>3. ASSUME NEW s \in Streams, ~isClosed[s], cancel[s] # "nil", BeginClose(s), UNCHANGED login
        PROVE  Over(q)'
    BY <1>b, <2>3
  <2> QED BY <1>3, <2>1, <2>2, <2>3, HallFrame DEF threadVars
<1>4. CASE UNCHANGED vars
  BY <1>0, <1>4 DEF vars, threadVars
<1>5. Kicks \subseteq Requests
  BY DEF Requests
<1> QED BY <1>1, <1>2, <1>3, <1>4, <1>5 DEF Next

\* In an orderly environment the logins of a user do not overlap, and a hall has
\* one stream of a user at a time.
LEMMA OrderStep ==
    ASSUME OrderlyEnv, DictType, VictimFound, AllShape, NoOverlap, OnePerHall, [Next]_vars
    PROVE  NoOverlap' /\ OnePerHall'
<1>e. "login_overlap" \notin Env /\ "same_hall" \notin Env
  BY DEF OrderlyEnv
<1> SUFFICES ASSUME NEW s \in Streams, NEW q \in Streams, s # q, UserOf[s] = UserOf[q]
             PROVE  /\ ~LoggingIn(s)' \/ ~LoggingIn(q)'
                    /\ HallOf[s] = HallOf[q] => Over(s)' \/ Over(q)'
  BY DEF NoOverlap, OnePerHall
<1>1. ASSUME NEW x \in Streams, NEW y \in Streams, x # y, UserOf[x] = UserOf[y], ClientStream(x)
      PROVE  /\ ~LoggingIn(y)'
             /\ HallOf[x] = HallOf[y] => Over(y)'
  <2>1. ~LoggingIn(y) /\ (HallOf[x] = HallOf[y] => Over(y))
    BY <1>1, <1>e DEF ClientStream
  <2>2. login'[y] = login[y] /\ rpc' = rpc /\ close' = close
    BY <1>1 DEF ClientStream, GotoLogin, DictType
  <2> QED BY <2>1, <2>2 DEF LoggingIn, InLogin, Over
<1>2. CASE ClientStream(s) \/ ClientStream(q)
  BY <1>1, <1>2
<1>3. CASE ~ClientStream(s) /\ ~ClientStream(q)
  BY <1>3, LoggingInStep, OverStep DEF NoOverlap, OnePerHall
<1> QED BY <1>2, <1>3

\* An entry of sessionDict becomes a session's by its own step.
LEMMA SlotStep ==
    ASSUME DictType, [Next]_vars, NEW q \in Streams, Slot(q)' = q
    PROVE  Slot(q) = q \/ InsertSession(q)
<1> USE DEF Slot
<1>t. dict \in [Peers -> [Users -> Streams \cup {NoStream}]]
  BY DEF DictType
<1>n. q # NoStream /\ HallOf[q] \in Peers /\ UserOf[q] \in Users
  OBVIOUS
<1>1. CASE UNCHANGED dict
  BY <1>1
<1>2. ASSUME NEW s \in Streams, NEW x, x # q, dict' = [dict EXCEPT ![HallOf[s]][UserOf[s]] = x]
      PROVE  Slot(q) = q
  <2>1. HallOf[s] = HallOf[q] /\ UserOf[s] = UserOf[q] => dict'[HallOf[q]][UserOf[q]] = x
    BY <1>2, <1>n, <1>t
  <2>2. ~(HallOf[s] = HallOf[q] /\ UserOf[s] = UserOf[q]) =>
            dict'[HallOf[q]][UserOf[q]] = dict[HallOf[q]][UserOf[q]]
    BY <1>2, <1>n, <1>t
  <2> QED BY <1>2, <2>1, <2>2
<1>3. ASSUME NEW s \in Streams, InsertSession(s) \/ LoadFails(s) \/ CloseDict(s), s # q
      PROVE  Slot(q) = q
  <2>1. UNCHANGED dict \/ \E x : x # q /\ dict' = [dict EXCEPT ![HallOf[s]][UserOf[s]] = x]
    BY <1>3, <1>n, Zenon DEF InsertSession, LoadFails, CloseDict
  <2> QED BY <1>2, <2>1
<1>4. CASE LoadFails(q) \/ CloseDict(q)
  BY <1>2, <1>4, <1>n, Zenon DEF LoadFails, CloseDict
<1>5. ASSUME NEW p \in Peers, Die(p) PROVE Slot(q) = q
  <2>1. dict' = [dict EXCEPT ![p] = [u \in Users |-> NoStream]]
    BY <1>5 DEF Die
  <2> QED BY <1>t, <1>n, <2>1
<1> QED BY <1>1, <1>3, <1>4, <1>5, DictMoves

\* A lock gets an owner by LockLocalUser only.
LEMMA OwnsStep ==
    ASSUME DictType, VictimFound, AllShape, [Next]_vars, NEW q \in Streams, Owns(q)'
    PROVE  Owns(q) \/ LockLocalUser(q)
<1>t. close \in [Streams -> CloseLabels] /\ login \in [Streams -> LoginLabels]
  BY DEF DictType
<1>a. SessionShape(q) /\ InDict(q)
  BY DEF AllShape
<1>n. ASSUME InsertSession(q) PROVE Owns(q)
  BY <1>n DEF InsertSession, Owns
<1>0. ASSUME login'[q] = login[q], close'[q] = close[q] PROVE Owns(q)
  BY <1>0, <1>n, SlotStep DEF Owns, Slot
<1>b. ASSUME NEW s \in Streams, ~isClosed[s], cancel[s] # "nil", BeginClose(s), UNCHANGED login
      PROVE  Owns(q)
  <2>1. CASE s # q
    BY <1>0, <1>b, <1>t, <2>1 DEF BeginClose, GotoClose
  <2>2. CASE s = q
    BY <1>b, <2>2, ClosedInPlay DEF AllShape, Owns, Served
  <2> QED BY <2>1, <2>2
<1>1. ASSUME NEW s \in Streams, s # q,
             ClientStream(s) \/ Login(s) \/ ClientReads(s) \/ ClientGone(s) \/ Ending(s) \/ Closing(s)
      PROVE  Owns(q)
  BY <1>0, <1>1, OthersIdle DEF Idle
<1>2. ASSUME ClientStream(q) \/ LockFails(q) \/ LockRefused(q) \/ InsteadReturns(q) PROVE FALSE
  <2>1. login[q] \notin Served /\ close[q] = "none" /\ close' = close
    BY <1>2, <1>a DEF ClientStream, LockFails, LockRefused, InsteadReturns, SessionShape, Served
  <2>2. login'[q] \in {"lock1", "lock_lost", "instead", "unreachable", "refused", "lock2"}
    BY <1>2, <1>t DEF ClientStream, LockFails, LockRefused, InsteadReturns, GotoLogin
  <2> QED BY <2>1, <2>2 DEF Owns, Served
<1>3. ASSUME \/ LockStore(q) \/ CheckSession(q) \/ InsertSession(q) \/ CountSession(q)
             \/ LoadSucceeds(q) \/ LoadFails(q) \/ UncountSession(q) \/ BindResponse(q)
             \/ BindCancel(q)
      PROVE  Owns(q)
  BY <1>3 DEF LockStore, CheckSession, InsertSession, CountSession, LoadSucceeds, LoadFails, UncountSession, BindResponse,
     BindCancel, Owns
<1>4. ASSUME LoginUnlock(q) PROVE Owns(q)
  <2>1. PICK l \in UnlockLabels, r \in 0 .. rev :
          /\ UnlockLocalUser(HallOf[q], UserOf[q], login[q], tok["login"][q], l, r)
          /\ login' = [login EXCEPT ![q] = IF l \in {"ok", "refused"} THEN "failed" ELSE l]
    BY <1>4 DEF LoginUnlock, GotoLogin
  <2>2. CASE login[q] = "del"
    <3>1. login'[q] = "failed" /\ close'[q] = "none"
      BY <1>4, <1>a, <1>t, <2>1, <2>2, UnlockMoves DEF LoginUnlock, SessionShape, Served
    <3> QED BY <3>1 DEF Owns, Served
  <2>3. CASE login[q] \in {"load", "txn"}
    BY <2>3 DEF Owns
  <2> QED BY <1>4, <2>2, <2>3 DEF LoginUnlock
<1>5. ASSUME ClientReads(q) \/ ClientGone(q) \/ ClientCancelled(q) \/ StreamEnd(q) PROVE Owns(q)
  <2>1. login[q] \in Served /\ close' = close /\ dict' = dict /\ login'[q] \in Served
    BY <1>5, <1>t DEF ClientReads, ClientGone, ClientCancelled, StreamEnd, Served, dictVars, GotoLogin
  <2> QED BY <2>1 DEF Owns, Served
<1>6. ASSUME StreamClose(q) PROVE Owns(q)
  <2>1. login[q] = "exit" /\ dict' = dict
    BY <1>6 DEF StreamClose, dictVars
  <2>2. CASE isClosed[q]
    BY <1>6, <1>t, <2>1, <2>2 DEF StreamClose, Owns, Served, GotoLogin
  <2>3. CASE ~isClosed[q]
    BY <1>a, <2>1, <2>3 DEF SessionShape, InDict, Owns, Served
  <2> QED BY <2>2, <2>3
<1>7. ASSUME Closing(q) PROVE Owns(q)
  <2>1. login[q] \in Served
    <3>1. close[q] \in {"logout", "load", "txn", "del", "dict", "count"}
      BY <1>7 DEF Closing, Logout, CloseUnlock, CloseDict, CloseCount
    <3>2. close[q] # "none"
      BY <3>1
    <3>3. close[q] # "none" => isClosed[q] /\ login[q] \in Served
      BY <1>a, Zenon DEF SessionShape
    <3> QED BY <3>2, <3>3, Zenon
  <2>2. CASE close[q] \in {"logout", "load", "txn"}
    <3>1. dict[HallOf[q]][UserOf[q]] = q
      BY <1>a, <2>2 DEF InDict
    <3> QED BY <2>1, <2>2, <3>1 DEF Owns
  <2>3. CASE CloseDict(q) \/ CloseCount(q)
    BY <1>t, <2>1, <2>3 DEF CloseDict, CloseCount, GotoClose, Owns, Served
  <2>4. CASE CloseUnlock(q) /\ close[q] = "del"
    <3>1. PICK l \in UnlockLabels, r \in 0 .. rev :
            /\ UnlockLocalUser(HallOf[q], UserOf[q], close[q], tok["close"][q], l, r)
            /\ close' = [close EXCEPT ![q] = IF l \in {"ok", "refused"} THEN "dict" ELSE l]
      BY <2>4 DEF CloseUnlock, GotoClose
    <3>2. close'[q] = "dict" /\ login' = login
      BY <1>t, <2>4, <3>1, UnlockMoves DEF CloseUnlock
    <3> QED BY <2>1, <3>2 DEF Owns, Served
  <2> QED BY <1>7, <2>2, <2>3, <2>4 DEF Closing, Logout, CloseUnlock
<1>8. ASSUME NEW h \in Requests, Handler(h) \/ KickRequest(h) PROVE Owns(q)
  <2>0. UNCHANGED login /\ (UNCHANGED close \/ HandlerClose(h))
    BY <1>8, HandlerFrame
  <2>1. CASE UNCHANGED close
    BY <1>0, <2>0, <2>1
  <2>2. CASE HandlerClose(h) /\ ~UNCHANGED close
    <3>1. victim[h] \in Streams /\ ~isClosed[victim[h]] /\ cancel[victim[h]] # "nil" /\ BeginClose(victim[h])
      BY <2>2 DEF HandlerClose, VictimFound
    <3> QED BY <1>b, <2>0, <3>1
  <2> QED BY <2>0, <2>1, <2>2
<1>9. ASSUME NEW p \in Peers, Crash(p) \/ Restart(p) \/ StopBegin(p) \/ Stopping(p) PROVE Owns(q)
  <2>1. CASE Die(p)
    <3>1. CASE HallOf[q] = p
      <4>1. login'[q] \in {"dead", "new"} /\ close'[q] = "none"
        BY <2>1, <3>1 DEF Die
      <4> QED BY <4>1 DEF Owns, Served
    <3>2. CASE HallOf[q] # p
      BY <1>0, <2>1, <3>2 DEF Die
    <3> QED BY <3>1, <3>2
  <2>2. CASE UNCHANGED <<login, close>>
    BY <1>0, <2>2
  <2>3. ASSUME NEW s \in Streams, ~isClosed[s], cancel[s] # "nil", BeginClose(s), UNCHANGED login
        PROVE  Owns(q)
    BY <1>b, <2>3
  <2> QED BY <1>9, <2>1, <2>2, <2>3, HallFrame DEF threadVars
<1>10. CASE UNCHANGED vars
  BY <1>0, <1>10 DEF vars, threadVars
<1>11. Kicks \subseteq Requests
  BY DEF Requests
<1>12. ASSUME NEW s \in Streams,
             ClientStream(s) \/ Login(s) \/ ClientReads(s) \/ ClientGone(s) \/ Ending(s) \/ Closing(s)
       PROVE  Owns(q) \/ LockLocalUser(q)
  <2>1. CASE s # q
    BY <1>1, <1>12, <2>1
  <2>2. CASE s = q
    BY <1>2, <1>3, <1>4, <1>5, <1>6, <1>7, <1>12, <2>2 DEF Login, Ending
  <2> QED BY <2>1, <2>2
<1>13. ASSUME NEW k \in Kicks, KickRequest(k) PROVE Owns(q)
  BY <1>8, <1>11, <1>13
<1> QED BY <1>8, <1>9, <1>10, <1>12, <1>13, Zenon DEF Next

-----------------------------------------------------------------------------
(* The handlers, and the halls that stop.                                  *)

\* A request is at work for its own login, and unlocks where there is no session.
LEMMA HandlerShapeStep ==
    ASSUME DictType, RpcShape, NoOverlap, HandlerShape, [Next]_vars
    PROVE  HandlerShape'
<1> DEFINE A(s) == rpc[s] # "none" => login[s] \in {"instead", "dead"}
           K(k) == rpc[k] \notin {"load", "txn", "del"}
           F(h) == rpc[h] \in {"load", "txn", "del"} => dict[target[h]][User(h)] = NoStream
<1>t. /\ rpc \in [Requests -> RpcLabels] /\ login \in [Streams -> LoginLabels]
      /\ dict \in [Peers -> [Users -> Streams \cup {NoStream}]]
      /\ target \in [Requests -> Peers \cup {NoPeer}]
  BY DEF DictType
<1>r. Streams \subseteq Requests /\ Kicks \subseteq Requests /\ Requests = Streams \cup Kicks
      /\ Streams \cap Kicks = {}
  BY DEF Requests
<1>h. (\A s \in Streams : A(s)) /\ (\A k \in Kicks : K(k)) /\ (\A h \in Requests : F(h))
  BY DEF HandlerShape
<1>g. ASSUME \A s \in Streams : A(s)', \A k \in Kicks : K(k)', \A h \in Requests : F(h)'
      PROVE  HandlerShape'
  BY <1>g DEF HandlerShape
<1>u. \A h \in Requests : User(h) \in Users
  BY DEF Requests, User
<1> HIDE DEF A, K, F
<1>1. ASSUME NEW s \in Streams,
             ClientStream(s) \/ Login(s) \/ ClientReads(s) \/ ClientGone(s) \/ Ending(s) \/ Closing(s)
      PROVE  HandlerShape'
  <2>0. \A h \in Requests : h # s => rpc'[h] = rpc[h] /\ target'[h] = target[h]
    BY <1>1, StreamFrame
  <2>1. \A q \in Streams : q # s => login'[q] = login[q]
    BY <1>1, OthersIdle DEF Idle
  \* what the request of s itself does
  <2>2. A(s)' /\ (rpc'[s] \notin {"load", "txn", "del"} \/ (rpc'[s] = rpc[s] /\ target'[s] = target[s]))
    <3>1. CASE LockRefused(s)
      <4>1. rpc[s] = "none"
        BY <1>h, <3>1 DEF A, LockRefused
      <4>2. \/ rpc' = [rpc EXCEPT ![s] = "request"] /\ login' = [login EXCEPT ![s] = "instead"]
            \/ rpc' = rpc /\ target' = target
        BY <3>1 DEF LockRefused, GotoRpc, GotoLogin
      <4> QED BY <1>r, <1>t, <4>1, <4>2 DEF A
    <3>2. CASE InsteadReturns(s)
      <4>1. rpc'[s] = "none"
        BY <1>r, <1>t, <3>2 DEF InsteadReturns, GotoRpc
      <4> QED BY <4>1 DEF A
    <3>3. ASSUME rpc' = rpc, target' = target, login[s] \notin {"instead", "dead"}
          PROVE  rpc'[s] = rpc[s] /\ target'[s] = target[s] /\ A(s)'
      BY <1>h, <3>3 DEF A
    <3>4. CASE \/ ClientStream(s) \/ LockLocalUser(s) \/ LockFails(s) \/ LockStore(s)
               \/ CheckSession(s) \/ InsertSession(s) \/ CountSession(s) \/ LoadSucceeds(s)
               \/ LoadFails(s) \/ UncountSession(s) \/ LoginUnlock(s) \/ BindResponse(s)
               \/ BindCancel(s)
      BY <3>3, <3>4 DEF ClientStream, LockLocalUser, LockFails, LockStore, CheckSession, InsertSession, CountSession,
         LoadSucceeds, LoadFails, UncountSession, LoginUnlock, BindResponse, BindCancel
    <3>5. CASE ClientReads(s) \/ ClientGone(s) \/ Ending(s)
      BY <3>3, <3>5 DEF ClientReads, ClientGone, Ending, ClientCancelled, StreamClose, StreamEnd
    <3>6. CASE Closing(s)
      <4>1. UNCHANGED <<rpc, target, login>>
        BY <3>6 DEF Closing, Logout, CloseUnlock, CloseDict, CloseCount
      <4> QED BY <1>h, <4>1 DEF A
    <3> QED BY <1>1, <3>1, <3>2, <3>4, <3>5, <3>6 DEF Login
  <2>3. \A q \in Streams : A(q)'
    <3>1. ASSUME NEW q \in Streams, q # s PROVE A(q)'
      BY <1>h, <1>r, <2>0, <2>1, <3>1 DEF A
    <3> QED BY <2>2, <3>1
  <2>4. \A k \in Kicks : K(k)'
    BY <1>h, <1>r, <2>0 DEF K
  <2>5. ASSUME NEW h \in Requests PROVE F(h)'
    <3> SUFFICES ASSUME rpc'[h] \in {"load", "txn", "del"}
                 PROVE  dict'[target'[h]][User(h)] = NoStream
      BY DEF F, User
    <3>1. rpc[h] = rpc'[h] /\ target'[h] = target[h]
      BY <2>0, <2>2
    <3>2. dict[target[h]][User(h)] = NoStream /\ target[h] \in Peers
      BY <1>h, <3>1 DEF F, RpcShape, RequestGoesTo
    <3>3. h \in Streams /\ User(h) = UserOf[h] /\ LoggingIn(h)
      BY <1>h, <1>r, <3>1 DEF K, LoggingIn, User
    <3>4. CASE UNCHANGED dict
      BY <3>1, <3>2, <3>4
    <3>5. CASE InsertSession(s) /\ ~UNCHANGED dict
      <4>1. dict' = [dict EXCEPT ![HallOf[s]][UserOf[s]] = s] /\ login[s] = "insert"
        BY <3>5, Zenon DEF InsertSession
      <4>2. s # h
        BY <1>h, <3>1, <4>1 DEF A
      <4>3. UserOf[s] # UserOf[h]
        BY <3>3, <4>1, <4>2 DEF NoOverlap, LoggingIn, InLogin
      <4> QED BY <1>t, <3>1, <3>2, <3>3, <4>1, <4>3
    <3>6. CASE LoadFails(s) \/ CloseDict(s)
      <4>1. dict' = [dict EXCEPT ![HallOf[s]][UserOf[s]] = NoStream]
        BY <3>6, Zenon DEF LoadFails, CloseDict
      <4> QED BY <1>t, <1>u, <3>1, <3>2, <4>1
    <3>7. CASE ~InsertSession(s) /\ ~LoadFails(s) /\ ~CloseDict(s)
      <4>1. UNCHANGED dict
        BY <1>1, <3>7, Zenon DEF ClientStream, Login, LockLocalUser, LockFails, LockStore, LockRefused,
           InsteadReturns, CheckSession, CountSession, LoadSucceeds, UncountSession, LoginUnlock,
           BindResponse, BindCancel, ClientReads, ClientGone, Ending, ClientCancelled, StreamClose, StreamEnd, Closing, Logout,
           CloseUnlock, CloseCount, dictVars
      <4> QED BY <3>4, <4>1
    <3> QED BY <3>4, <3>5, <3>6, <3>7
  <2> QED BY <1>g, <2>3, <2>4, <2>5
<1>2. ASSUME NEW h \in Requests, Handler(h) \/ (KickRequest(h) /\ h \in Kicks) PROVE HandlerShape'
  <2>0. UNCHANGED <<login, target, dict>> /\ \A x \in Requests : x # h => rpc'[x] = rpc[x]
    BY <1>2, HandlerFrame DEF dictVars
  <2>1. rpc[h] # "none" \/ h \in Kicks
    BY <1>2, HandlerFrame
  <2>2. \A s \in Streams : A(s)'
    BY <1>h, <1>r, <2>0, <2>1 DEF A
  <2>3. /\ h \in Kicks => rpc'[h] \notin {"load", "txn", "del"}
        /\ rpc'[h] \in {"load", "txn", "del"} => dict[target[h]][User(h)] = NoStream
    <3>1. CASE KickRequest(h)
      BY <1>t, <3>1 DEF KickRequest, GotoRpc
    <3>2. CASE RequestFails(h) \/ HandlerWait(h) \/ HandlerSend(h) \/ HandlerClose(h)
      <4>1. \E l \in {"lost", "ok", "blocked", "err", "close", "wait"} : rpc' = [rpc EXCEPT ![h] = l]
        BY <3>2 DEF RequestFails, HandlerWait, HandlerSend, HandlerClose, GotoRpc
      <4> QED BY <1>t, <4>1
    <3>3. CASE HandlerLoad(h)
      <4>1. CASE dict[target[h]][User(h)] # NoStream
        BY <1>t, <3>3, <4>1 DEF HandlerLoad, GotoRpc
      <4>2. CASE dict[target[h]][User(h)] = NoStream
        <5>1. rpc' = [rpc EXCEPT ![h] = IF h \in Kicks THEN "err" ELSE "load"]
          BY <3>3, <4>2 DEF HandlerLoad, GotoRpc
        <5> QED BY <1>t, <4>2, <5>1
      <4> QED BY <4>1, <4>2
    <3>4. CASE HandlerUnlock(h)
      BY <1>h, <3>4 DEF HandlerUnlock, K, F
    <3> QED BY <1>2, <3>1, <3>2, <3>3, <3>4 DEF Handler
  <2>4. \A k \in Kicks : K(k)'
    BY <1>h, <1>r, <2>0, <2>3 DEF K
  <2>5. \A x \in Requests : F(x)'
    BY <1>h, <2>0, <2>3 DEF F, User
  <2> QED BY <1>g, <2>2, <2>4, <2>5
<1>3. ASSUME NEW p \in Peers, Die(p) PROVE HandlerShape'
  <2>1. /\ target' = target
        /\ login' = [s \in Streams |-> IF HallOf[s] = p /\ login[s] # "new" THEN "dead" ELSE login[s]]
        /\ rpc' = [h \in Requests |->
                 IF target[h] = p /\ rpc[h] \notin {"none", "ok", "err"} THEN "lost" ELSE rpc[h]]
        /\ dict' = [dict EXCEPT ![p] = [u \in Users |-> NoStream]]
    BY <1>3 DEF Die
  <2>2. \A s \in Streams : A(s)'
    BY <1>h, <1>r, <2>1 DEF A
  <2>3. \A k \in Kicks : K(k)'
    BY <1>h, <1>r, <2>1 DEF K
  <2>4. \A h \in Requests : F(h)'
    BY <1>h, <1>t, <1>u, <2>1 DEF F, User
  <2> QED BY <1>g, <2>2, <2>3, <2>4
<1>4. ASSUME UNCHANGED <<login, rpc, target, dict>> PROVE HandlerShape'
  BY <1>4 DEF HandlerShape, User
<1>5. ASSUME NEW p \in Peers, Crash(p) \/ Restart(p) \/ StopBegin(p) \/ Stopping(p)
      PROVE  HandlerShape'
  BY <1>3, <1>4, <1>5, HallFrame DEF threadVars, dictVars
<1>6. CASE UNCHANGED vars
  BY <1>4, <1>6 DEF vars, threadVars, dictVars
<1>7. ASSUME NEW k \in Kicks, KickRequest(k) PROVE HandlerShape'
  BY <1>2, <1>7, <1>r
<1>8. ASSUME NEW h \in Requests, Handler(h) PROVE HandlerShape'
  BY <1>2, <1>8
<1>9. CASE Next
  BY <1>1, <1>5, <1>7, <1>8, <1>9, Zenon DEF Next
<1> QED BY <1>6, <1>9

\* A hall that stops serves no login, and one that has stopped has no session.
LEMMA StopShapeStep ==
    ASSUME "stop_in_login" \notin Env, DictType, DictCounted, StopShape, [Next]_vars
    PROVE  StopShape'
<1> DEFINE L(p) == phase[p] \in {"stopping", "stopped"} => \A s \in Streams : HallOf[s] = p => ~InLogin(s)
           D(p) == phase[p] = "stopped" => \A u \in Users : dict[p][u] = NoStream
           S(p) == stopAt[p] # "none" => phase[p] = "stopping"
<1>h. \A p \in Peers : L(p) /\ D(p) /\ S(p)
  BY DEF StopShape
<1>g. ASSUME \A p \in Peers : L(p)' /\ D(p)' /\ S(p)' PROVE StopShape'
  BY <1>g DEF StopShape
<1>t. /\ dict \in [Peers -> [Users -> Streams \cup {NoStream}]]
      /\ phase \in [Peers -> {"down", "up", "stopping", "stopped"}]
      /\ stopAt \in [Peers -> {"none", "range", "close"}]
  BY DEF DictType
<1>e. "stop_in_login" \notin Env
  OBVIOUS
<1> HIDE DEF L, D, S
<1>0. ASSUME UNCHANGED <<login, dict, phase, stopAt>> PROVE StopShape'
  BY <1>0 DEF StopShape, InLogin
<1>1. ASSUME NEW s \in Streams,
             ClientStream(s) \/ Login(s) \/ ClientReads(s) \/ ClientGone(s) \/ Ending(s) \/ Closing(s)
      PROVE  StopShape'
  <2>0. UNCHANGED <<phase, stopAt>>
    BY <1>1, StreamFrame DEF stopVars
  <2>1. ASSUME NEW p \in Peers, NEW q \in Streams, HallOf[q] = p, InLogin(q)',
               phase[p] \in {"stopping", "stopped"}
        PROVE  FALSE
    <3>0. ~InLogin(q)
      BY <1>h, <2>1 DEF L
    <3>1. login'[q] # login[q]
      BY <2>1, <3>0 DEF InLogin
    <3>2. q = s
      BY <1>1, <3>1, OthersIdle DEF Idle
    <3>3. ~Login(q)
      BY <3>0, LoginGuard
    <3>4. ~ClientStream(q)
      BY <1>e, <2>1 DEF ClientStream
    <3>5. login'[q] \in {"exit", "closing", "done"}
      BY <1>1, <3>1, <3>2, <3>3, <3>4, EndGuard
    <3> QED BY <2>1, <3>5 DEF InLogin
  <2>2. ASSUME NEW p \in Peers, phase[p] = "stopped" PROVE \A u \in Users : dict'[p][u] = NoStream
    <3>0. \A u \in Users : dict[p][u] = NoStream
      BY <1>h, <2>2 DEF D
    <3>1. CASE InsertSession(s) /\ HallOf[s] = p
      <4>1. InLogin(s)
        BY <3>1 DEF InsertSession, InLogin
      <4> QED BY <1>h, <2>2, <3>1, <4>1 DEF L
    <3>2. CASE InsertSession(s) /\ HallOf[s] # p
      <4>1. dict' = dict \/ dict' = [dict EXCEPT ![HallOf[s]][UserOf[s]] = s]
        BY <3>2, Zenon DEF InsertSession
      <4> QED BY <1>t, <3>0, <3>2, <4>1
    <3>3. CASE LoadFails(s) \/ CloseDict(s)
      <4>1. dict' = [dict EXCEPT ![HallOf[s]][UserOf[s]] = NoStream]
        BY <3>3, Zenon DEF LoadFails, CloseDict
      <4> QED BY <1>t, <3>0, <4>1
    <3>4. CASE ~InsertSession(s) /\ ~LoadFails(s) /\ ~CloseDict(s)
      <4>1. UNCHANGED dict
        BY <1>1, <3>4, Zenon DEF ClientStream, Login, LockLocalUser, LockFails, LockStore, LockRefused,
           InsteadReturns, CheckSession, CountSession, LoadSucceeds, UncountSession, LoginUnlock,
           BindResponse, BindCancel, ClientReads, ClientGone, Ending, ClientCancelled, StreamClose, StreamEnd, Closing, Logout,
           CloseUnlock, CloseCount, dictVars
      <4> QED BY <3>0, <4>1
    <3> QED BY <3>1, <3>2, <3>3, <3>4
  <2>3. ASSUME NEW p \in Peers PROVE L(p)' /\ D(p)' /\ S(p)'
    BY <1>h, <2>0, <2>1, <2>2 DEF L, D, S
  <2> QED BY <1>g, <2>3
<1>2. ASSUME NEW h \in Requests, Handler(h) \/ KickRequest(h) PROVE StopShape'
  BY <1>0, <1>2, HandlerFrame DEF dictVars, stopVars
<1>3. ASSUME NEW p \in Peers, Die(p) PROVE StopShape'
  <2>1. /\ login' = [s \in Streams |-> IF HallOf[s] = p /\ login[s] # "new" THEN "dead" ELSE login[s]]
        /\ dict' = [dict EXCEPT ![p] = [u \in Users |-> NoStream]]
        /\ phase' = [phase EXCEPT ![p] = "down"] /\ stopAt' = [stopAt EXCEPT ![p] = "none"]
    BY <1>3 DEF Die
  <2>2. ASSUME NEW q \in Peers PROVE L(q)' /\ D(q)' /\ S(q)'
    <3>1. CASE q = p
      BY <1>t, <2>1, <3>1 DEF L, D, S
    <3>2. CASE q # p
      BY <1>h, <1>t, <2>1, <3>2 DEF L, D, S, InLogin
    <3> QED BY <3>1, <3>2
  <2> QED BY <1>g, <2>2
<1>4. ASSUME NEW p \in Peers, UNCHANGED <<login, dict>>,
             \A q \in Peers : q # p => phase'[q] = phase[q] /\ stopAt'[q] = stopAt[q],
             L(p)', D(p)', S(p)'
      PROVE  StopShape'
  BY <1>4, <1>g, <1>h DEF L, D, S, InLogin
<1>5. ASSUME NEW p \in Peers, Restart(p) PROVE StopShape'
  <2>1. phase'[p] = "up" /\ phase[p] = "down" /\ stopAt' = stopAt
    BY <1>5, <1>t DEF Restart
  <2>2. L(p)' /\ D(p)' /\ S(p)'
    BY <1>h, <2>1 DEF L, D, S
  <2>3. UNCHANGED <<login, dict>> /\ \A q \in Peers : q # p => phase'[q] = phase[q] /\ stopAt'[q] = stopAt[q]
    BY <1>5, <1>t DEF Restart, threadVars, dictVars
  <2> QED BY <1>4, <2>2, <2>3
<1>6. ASSUME NEW p \in Peers, StopBegin(p) PROVE StopShape'
  <2>1. phase'[p] = "stopping" /\ UNCHANGED <<login, dict>>
    BY <1>6, <1>t DEF StopBegin, threadVars, dictVars
  <2>2. L(p)' /\ D(p)' /\ S(p)'
    BY <1>6, <1>e, <2>1 DEF StopBegin, L, D, S, InLogin
  <2>3. \A q \in Peers : q # p => phase'[q] = phase[q] /\ stopAt'[q] = stopAt[q]
    BY <1>6, <1>t DEF StopBegin
  <2> QED BY <1>4, <2>1, <2>2, <2>3
<1>7. ASSUME NEW p \in Peers, StopRange(p) PROVE StopShape'
  <2>1. stopAt'[p] = "close" /\ stopAt[p] = "range" /\ UNCHANGED <<login, dict, phase>>
    BY <1>7, <1>t DEF StopRange, threadVars, dictVars
  <2>2. L(p)' /\ D(p)' /\ S(p)'
    BY <1>h, <2>1 DEF L, D, S, InLogin
  <2>3. \A q \in Peers : q # p => phase'[q] = phase[q] /\ stopAt'[q] = stopAt[q]
    BY <1>7, <1>t, <2>1 DEF StopRange
  <2> QED BY <1>4, <2>1, <2>2, <2>3
<1>8. ASSUME NEW p \in Peers, StopCheck(p) PROVE StopShape'
  <2>1. UNCHANGED <<login, dict>> /\ stopAt[p] = "close"
    BY <1>8 DEF StopCheck, threadVars, dictVars
  <2>2. \A q \in Peers : q # p => phase'[q] = phase[q] /\ stopAt'[q] = stopAt[q]
    BY <1>8, <1>t DEF StopCheck
  <2>3. CASE count[p] <= 0
    \* no login is about to count its session
    <3>0. CountingIn(p) = {}
      BY <1>h, <2>1 DEF L, S, InLogin, CountingIn
    <3>1. Sessions(p) = {}
      <4>1. /\ IsFiniteSet(Sessions(p)) /\ IsFiniteSet(CountingOut(p))
            /\ count[p] = Cardinality(Sessions(p)) + Cardinality(CountingOut(p)) - Cardinality(CountingIn(p))
        BY DEF DictCounted, CountMatchesDict
      <4>2. /\ Cardinality(Sessions(p)) \in Nat /\ Cardinality(CountingOut(p)) \in Nat
            /\ Cardinality(CountingIn(p)) = 0
        BY <3>0, <4>1, FS_CardinalityType, FS_EmptySet
      <4>3. Cardinality(Sessions(p)) = 0
        BY <2>3, <4>1, <4>2
      <4> QED BY <4>1, <4>3, FS_EmptySet
    <3>2. \A u \in Users : dict[p][u] = NoStream
      BY <3>1 DEF Sessions
    <3>3. stopAt'[p] \in {"none", "range"} /\ phase'[p] \in {"stopped", phase[p]}
          /\ (stopAt'[p] # "none" => phase'[p] = phase[p])
      BY <1>8, <1>t DEF StopCheck
    <3>4. L(p)' /\ D(p)' /\ S(p)'
      BY <1>h, <2>1, <3>2, <3>3 DEF L, D, S, InLogin
    <3> QED BY <1>4, <2>1, <2>2, <3>4
  <2>4. CASE ~(count[p] <= 0)
    <3>1. stopAt'[p] = "range" /\ phase' = phase
      BY <1>8, <1>t, <2>4 DEF StopCheck
    <3>2. L(p)' /\ D(p)' /\ S(p)'
      BY <1>h, <2>1, <3>1 DEF L, D, S, InLogin
    <3> QED BY <1>4, <2>1, <2>2, <3>2
  <2> QED BY <2>3, <2>4
<1>9. ASSUME NEW p \in Peers, Stopping(p), ~Die(p), ~StopRange(p), ~StopCheck(p) PROVE StopShape'
  <2>1. UNCHANGED <<login, dict, phase, stopAt>>
    BY <1>9, Zenon DEF Stopping, StopClose, StopWait, Unregister, Exit, threadVars, dictVars, stopVars
  <2> QED BY <1>0, <2>1
<1>10. CASE UNCHANGED vars
  BY <1>0, <1>10 DEF vars, threadVars, dictVars, stopVars
<1>11. ASSUME NEW k \in Kicks, KickRequest(k) PROVE StopShape'
  BY <1>2, <1>11 DEF Requests
<1>12. ASSUME NEW p \in Peers, Crash(p) \/ Restart(p) \/ StopBegin(p) \/ Stopping(p) PROVE StopShape'
  BY <1>3, <1>5, <1>6, <1>7, <1>8, <1>9, <1>12 DEF Crash
<1>13. CASE Next
  BY <1>1, <1>2, <1>11, <1>12, <1>13, Zenon DEF Next
<1> QED BY <1>10, <1>13

-----------------------------------------------------------------------------
(* The keys, with one application type.                                    *)

\* The lock's transaction: nobody had the lock, and its revision is new.
LEMMA LockAgrees ==
    ASSUME OneLockType, KeysTypeOK, KeysAgree, NEW p \in Peers, NEW u \in Users, LockTxn(p, u)
    PROVE  /\ KeysAgree'
           /\ \A q \in Peers : localKey[q][u] = 0
           /\ \A q \in Peers, v \in Users :
                 localKey'[q][v] = IF q = p /\ v = u THEN rev + 1 ELSE localKey[q][v]
           /\ \A q, v, r : v \in Users /\ r \in Nat /\ GoodRev(q, v, r) => GoodRev(q, v, r)'
<1> DEFINE t == TypeOf[p]
<1>t. /\ rev \in Nat /\ userKey \in [Users -> Key] /\ peerKey \in [Types -> [Users -> Key]]
      /\ localKey \in [Peers -> [Users -> Nat]] /\ t \in Types
  BY DEF KeysTypeOK
<1>o. \A q \in Peers : TypeOf[q] = t
  BY DEF OneLockType
<1> HIDE DEF t
<1>a. \A q \in Peers, v \in Users :
         /\ userKey[v] = peerKey[t][v]
         /\ localKey[q][v] = IF peerKey[t][v].value = q THEN peerKey[t][v].create ELSE 0
         /\ peerKey[t][v].create <= rev /\ (peerKey[t][v].create = 0 => peerKey[t][v].value = NoPeer)
  BY <1>o DEF KeysAgree
<1>1. peerKey[t][u].create = 0
  BY DEF LockTxn, Locked, t
<1>2. \A q \in Peers : localKey[q][u] = 0
  <2>1. ASSUME NEW q \in Peers PROVE localKey[q][u] = 0
    <3>1. localKey[q][u] = IF peerKey[t][u].value = q THEN peerKey[t][u].create ELSE 0
      BY <1>a, Zenon
    <3> QED BY <1>1, <3>1, Zenon
  <2> QED BY <2>1, Zenon
<1>3. \A q \in Peers, v \in Users :
         localKey'[q][v] = IF q = p /\ v = u THEN rev + 1 ELSE localKey[q][v]
  BY <1>t, <1>2 DEF LockTxn
<1>4. /\ rev' = rev + 1
      /\ userKey' = [userKey EXCEPT ![u] = Put(userKey[u], p, rev + 1)]
      /\ peerKey' = [peerKey EXCEPT ![t][u] = Put(peerKey[t][u], p, rev + 1)]
  BY <1>t DEF LockTxn, t
<1>5. Put(peerKey[t][u], p, rev + 1) = [value |-> p, create |-> rev + 1]
  BY <1>1 DEF Put
<1>6. userKey[u] = peerKey[t][u]
  BY <1>a
<1>7. /\ userKey'[u] = [value |-> p, create |-> rev + 1]
      /\ peerKey'[t][u] = [value |-> p, create |-> rev + 1]
      /\ \A v \in Users : v # u => userKey'[v] = userKey[v] /\ peerKey'[t][v] = peerKey[t][v]
  BY <1>t, <1>4, <1>5, <1>6
<1>8. ASSUME NEW q \in Peers, NEW v \in Users
      PROVE  /\ userKey'[v] = peerKey'[t][v]
             /\ localKey'[q][v] = IF peerKey'[t][v].value = q THEN peerKey'[t][v].create ELSE 0
             /\ peerKey'[t][v].create <= rev'
             /\ (peerKey'[t][v].create = 0 => peerKey'[t][v].value = NoPeer)
  <2>1. CASE v = u
    <3>1. peerKey'[t][v].value = p /\ peerKey'[t][v].create = rev + 1
      BY <1>7, <2>1
    <3>2. localKey'[q][v] = IF q = p THEN rev + 1 ELSE 0
      BY <1>2, <1>3, <2>1
    <3>3. userKey'[v] = peerKey'[t][v]
      BY <1>7, <2>1
    <3> QED BY <1>t, <1>4, <3>1, <3>2, <3>3
  <2>2. CASE v # u
    <3>1. peerKey'[t][v] = peerKey[t][v] /\ userKey'[v] = userKey[v] /\ localKey'[q][v] = localKey[q][v]
      BY <1>3, <1>7, <2>2
    <3>2. peerKey[t][v].create \in Nat
      BY <1>t DEF Key
    <3> QED BY <1>a, <1>t, <1>4, <3>1, <3>2
  <2> QED BY <2>1, <2>2
<1>9. KeysAgree'
  BY <1>8, <1>o DEF KeysAgree
<1>10. ASSUME NEW q, NEW v \in Users, NEW r \in Nat, GoodRev(q, v, r) PROVE GoodRev(q, v, r)'
  <2>1. CASE v = u
    <3>1. r <= rev /\ userKey'[v].create = rev + 1
      BY <1>7, <1>10, <2>1 DEF GoodRev
    <3> QED BY <1>t, <1>4, <3>1 DEF GoodRev
  <2>2. CASE v # u
    BY <1>t, <1>4, <1>7, <1>10, <2>2 DEF GoodRev
  <2> QED BY <2>1, <2>2
<1> QED BY <1>2, <1>3, <1>9, <1>10

\* The transactions that release the lock, run by the hall that has it.
LEMMA DeleteAgrees ==
    ASSUME OneLockType, KeysTypeOK, KeysAgree, NEW p \in Peers, NEW u \in Users, DeleteKeys(p, u),
           userKey[u].value = p
    PROVE  /\ KeysAgree'
           /\ \A q \in Peers : q # p => localKey[q][u] = 0
           /\ \A q \in Peers, v \in Users :
                 localKey'[q][v] = IF q = p /\ v = u THEN 0 ELSE localKey[q][v]
           /\ \A q, v, r : v \in Users /\ r \in Nat /\ GoodRev(q, v, r) => GoodRev(q, v, r)'
<1> DEFINE t == TypeOf[p]
<1>t. /\ rev \in Nat /\ userKey \in [Users -> Key] /\ peerKey \in [Types -> [Users -> Key]]
      /\ localKey \in [Peers -> [Users -> Nat]] /\ t \in Types
  BY DEF KeysTypeOK
<1>o. \A q \in Peers : TypeOf[q] = t
  BY DEF OneLockType
<1> HIDE DEF t
<1>a. \A q \in Peers, v \in Users :
         /\ userKey[v] = peerKey[t][v]
         /\ localKey[q][v] = IF peerKey[t][v].value = q THEN peerKey[t][v].create ELSE 0
         /\ peerKey[t][v].create <= rev /\ (peerKey[t][v].create = 0 => peerKey[t][v].value = NoPeer)
  BY <1>o DEF KeysAgree
<1>2. \A q \in Peers : q # p => localKey[q][u] = 0
  BY <1>a
<1>3. \A q \in Peers, v \in Users :
         localKey'[q][v] = IF q = p /\ v = u THEN 0 ELSE localKey[q][v]
  BY <1>t DEF DeleteKeys
<1>4. /\ rev' = rev + 1
      /\ userKey' = [userKey EXCEPT ![u] = Absent]
      /\ peerKey' = [peerKey EXCEPT ![t][u] = Absent]
  BY <1>t DEF DeleteKeys, t
<1>7. /\ userKey'[u] = Absent /\ peerKey'[t][u] = Absent
      /\ \A v \in Users : v # u => userKey'[v] = userKey[v] /\ peerKey'[t][v] = peerKey[t][v]
  BY <1>t, <1>4
<1>b. Absent.value = NoPeer /\ Absent.create = 0
  BY DEF Absent
<1>8. ASSUME NEW q \in Peers, NEW v \in Users
      PROVE  /\ userKey'[v] = peerKey'[t][v]
             /\ localKey'[q][v] = IF peerKey'[t][v].value = q THEN peerKey'[t][v].create ELSE 0
             /\ peerKey'[t][v].create <= rev'
             /\ (peerKey'[t][v].create = 0 => peerKey'[t][v].value = NoPeer)
  <2>1. CASE v = u
    <3>1. peerKey'[t][v].value = NoPeer /\ peerKey'[t][v].create = 0
      BY <1>7, <1>b, <2>1
    <3>2. localKey'[q][v] = 0
      BY <1>2, <1>3, <2>1
    <3>3. userKey'[v] = peerKey'[t][v]
      BY <1>7, <2>1
    <3> QED BY <1>t, <1>4, <3>1, <3>2, <3>3
  <2>2. CASE v # u
    <3>1. peerKey'[t][v] = peerKey[t][v] /\ userKey'[v] = userKey[v] /\ localKey'[q][v] = localKey[q][v]
      BY <1>3, <1>7, <2>2
    <3>2. peerKey[t][v].create \in Nat
      BY <1>t DEF Key
    <3> QED BY <1>a, <1>t, <1>4, <3>1, <3>2
  <2> QED BY <2>1, <2>2
<1>9. KeysAgree'
  BY <1>8, <1>o DEF KeysAgree
<1>10. ASSUME NEW q, NEW v \in Users, NEW r \in Nat, GoodRev(q, v, r) PROVE GoodRev(q, v, r)'
  <2>1. CASE v = u
    BY <1>t, <1>4, <1>7, <1>b, <1>10, <2>1 DEF GoodRev
  <2>2. CASE v # u
    BY <1>t, <1>4, <1>7, <1>10, <2>2 DEF GoodRev
  <2> QED BY <2>1, <2>2
<1> QED BY <1>2, <1>3, <1>9, <1>10

-----------------------------------------------------------------------------
(* Owners, tokens and entries.  Calm is what every step but LockLocalUser  *)
(* is: no lock gets an owner, and none that has one is released.           *)

KeysCalm ==
    /\ KeysAgree'
    /\ \A p, u, r : u \in Users /\ r \in Nat /\ GoodRev(p, u, r) => GoodRev(p, u, r)'

EntryCalm(p, u) ==
    /\ localKey'[p][u] \in {localKey[p][u], 0}
    /\ \/ localPlayers'[p][u] = localKey'[p][u]
       \/ localPlayers'[p][u] = localPlayers[p][u] /\ (phase'[p] = "up" => phase[p] = "up")
       \/ localPlayers'[p][u] = 0 /\ phase'[p] # "up"

StreamCalm(s) ==
    LET p == HallOf[s]
        u == UserOf[s]
    IN  /\ Owns(s)' => Owns(s) /\ localKey'[p][u] = localKey[p][u]
        /\ login'[s] = "store" => login[s] = "store" /\ tok'["login"][s] = tok["login"][s]
        /\ login[s] = "store" => \/ login'[s] = "store"
                                 \/ phase'[p] # "up"
                                 \/ localPlayers'[p][u] = localKey'[p][u]
        /\ login[s] = "lock_lost" => \/ login'[s] = "lock_lost" /\ tok'["login"][s] = tok["login"][s]
                                     \/ phase'[p] # "up"
        /\ login'[s] = "txn" => tok'["login"][s] # 0 /\ GoodRev(p, u, tok'["login"][s])
        /\ close'[s] = "txn" => tok'["close"][s] # 0 /\ GoodRev(p, u, tok'["close"][s])
        /\ login'[s] = "del" \/ close'[s] = "del" => localKey'[p][u] = 0

RequestCalm(h) ==
    /\ rpc'[h] = "txn" => tok'["rpc"][h] # 0 /\ GoodRev(target'[h], User(h), tok'["rpc"][h])
    /\ rpc'[h] = "del" => localKey'[target'[h]][User(h)] = 0

Calm ==
    /\ KeysCalm /\ \A p \in Peers, u \in Users : EntryCalm(p, u)
    /\ (\A s \in Streams : StreamCalm(s)) /\ (\A h \in Requests : RequestCalm(h))

\* The part of LockIInv that is about the keys.
LockPart == TokensGood /\ OwnerLocks /\ DeletesNothing /\ LockReleasable

\* A calm step keeps it.
LEMMA CalmKeeps ==
    ASSUME DictType, DictType', KeysAgree, LockPart, Calm
    PROVE  KeysAgree' /\ LockPart'
<1>r. Streams \subseteq Requests /\ \A h \in Requests : User(h) \in Users
  BY DEF Requests, User
<1>t. /\ rev' \in Nat /\ localPlayers' \in [Peers -> [Users -> Nat]]
      /\ localKey' \in [Peers -> [Users -> Nat]]
      /\ tok' \in [{"login", "close", "rpc"} -> [Requests -> Nat]]
  BY DEF DictType, KeysTypeOK
<1>s. \A s \in Streams : HallOf[s] \in Peers /\ UserOf[s] \in Users
  OBVIOUS
<1>1. KeysAgree' /\ \A p, u, r : u \in Users /\ r \in Nat /\ GoodRev(p, u, r) => GoodRev(p, u, r)'
  BY DEF Calm, KeysCalm
<1>2. ASSUME NEW p \in Peers, NEW u \in Users PROVE GoodRev(p, u, localPlayers[p][u])'
  <2>1. CASE localPlayers'[p][u] = localKey'[p][u]
    <3>1. KeysAgree'
      BY <1>1
    <3> QED BY <1>t, <2>1, <3>1 DEF KeysAgree, GoodRev
  <2>2. CASE localPlayers'[p][u] = localPlayers[p][u]
    <3>1. GoodRev(p, u, localPlayers[p][u]) /\ localPlayers[p][u] \in Nat
      BY DEF LockPart, TokensGood, DictType, KeysTypeOK
    <3>2. \A r : r = localPlayers[p][u] => (GoodRev(p, u, r) => GoodRev(p, u, r)')
      BY <1>1, <3>1
    <3> QED BY <2>2, <3>1, <3>2 DEF GoodRev
  <2>3. CASE localPlayers'[p][u] = 0
    BY <1>t, <2>3 DEF GoodRev
  <2> QED BY <2>1, <2>2, <2>3 DEF Calm, EntryCalm
<1>3. ASSUME NEW s \in Streams
      PROVE  /\ (login[s] = "txn" => tok["login"][s] # 0 /\ GoodRev(HallOf[s], UserOf[s], tok["login"][s]))'
             /\ (close[s] = "txn" => tok["close"][s] # 0 /\ GoodRev(HallOf[s], UserOf[s], tok["close"][s]))'
  <2>1. tok'["login"][s] \in Nat /\ tok'["close"][s] \in Nat
    BY <1>r, <1>t
  <2>2. /\ login'[s] = "txn" => tok'["login"][s] # 0 /\ GoodRev(HallOf[s], UserOf[s], tok'["login"][s])
        /\ close'[s] = "txn" => tok'["close"][s] # 0 /\ GoodRev(HallOf[s], UserOf[s], tok'["close"][s])
    BY DEF Calm, StreamCalm
  <2>3. ASSUME NEW r \in Nat, GoodRev(HallOf[s], UserOf[s], r)
        PROVE  r <= rev' /\ (r # 0 /\ userKey'[UserOf[s]].create = r => userKey'[UserOf[s]].value = HallOf[s])
    <3>1. GoodRev(HallOf[s], UserOf[s], r)'
      BY <1>1, <1>s, <2>3, Zenon
    <3> QED BY <3>1 DEF GoodRev
  <2> QED BY <2>1, <2>2, <2>3 DEF GoodRev
<1>4. ASSUME NEW h \in Requests
      PROVE  (rpc[h] = "txn" => tok["rpc"][h] # 0 /\ GoodRev(target[h], User(h), tok["rpc"][h]))'
  <2>1. tok'["rpc"][h] \in Nat
    BY <1>t
  <2>2. rpc'[h] = "txn" => tok'["rpc"][h] # 0 /\ GoodRev(target'[h], User(h), tok'["rpc"][h])
    BY DEF Calm, RequestCalm
  <2>3. ASSUME NEW p, NEW r \in Nat, GoodRev(p, User(h), r)
        PROVE  r <= rev' /\ (r # 0 /\ userKey'[User(h)].create = r => userKey'[User(h)].value = p)
    <3>1. GoodRev(p, User(h), r)'
      BY <1>1, <1>r, <2>3, Zenon
    <3> QED BY <3>1 DEF GoodRev, User
  <2> QED BY <2>1, <2>2, <2>3 DEF GoodRev, User
<1>5. TokensGood'
  BY <1>2, <1>3, <1>4 DEF TokensGood
<1>6. OwnerLocks'
  <2>1. \A s \in Streams : Owns(s)' => Owns(s) /\ localKey'[HallOf[s]][UserOf[s]] = localKey[HallOf[s]][UserOf[s]]
    BY DEF Calm, StreamCalm
  <2>2. \A s \in Streams : login'[s] = "store" => Owns(s)' /\ login[s] = "store" /\ tok'["login"][s] = tok["login"][s]
    BY DEF Calm, StreamCalm, Owns
  <2>3. \A s \in Streams : (Owns(s) => localKey[HallOf[s]][UserOf[s]] # 0)'
    BY <2>1 DEF LockPart, OwnerLocks
  <2>4. \A s, q \in Streams : (Owns(s) /\ Owns(q) /\ UserOf[s] = UserOf[q] => s = q)'
    BY <2>1 DEF LockPart, OwnerLocks
  <2>5. \A s \in Streams : (login[s] = "store" => tok["login"][s] = localKey[HallOf[s]][UserOf[s]])'
    BY <2>1, <2>2 DEF LockPart, OwnerLocks
  <2> QED BY <2>3, <2>4, <2>5 DEF OwnerLocks
<1>7. DeletesNothing'
  <2>1. \A s \in Streams : login'[s] = "del" \/ close'[s] = "del" => localKey'[HallOf[s]][UserOf[s]] = 0
    BY DEF Calm, StreamCalm
  <2>2. \A h \in Requests : rpc'[h] = "del" => localKey'[target'[h]][User(h)] = 0
    BY DEF Calm, RequestCalm
  <2> QED BY <2>1, <2>2 DEF DeletesNothing, User
<1>8. LockReleasable'
  <2> SUFFICES ASSUME NEW p \in Peers, NEW u \in Users, phase'[p] = "up", localKey'[p][u] # 0,
                      localPlayers'[p][u] # localKey'[p][u]
               PROVE  \E s \in Streams :
                         /\ HallOf[s] = p /\ UserOf[s] = u
                         /\ \/ login'[s] = "store"
                            \/ login'[s] = "lock_lost" /\ tok'["login"][s] = localKey'[p][u]
    BY DEF LockReleasable
  <2>1. localKey'[p][u] = localKey[p][u] /\ localPlayers'[p][u] = localPlayers[p][u] /\ phase[p] = "up"
    BY DEF Calm, EntryCalm
  <2>2. PICK s \in Streams : /\ HallOf[s] = p /\ UserOf[s] = u
                            /\ \/ login[s] = "store"
                               \/ login[s] = "lock_lost" /\ tok["login"][s] = localKey[p][u]
    BY <2>1 DEF LockPart, LockReleasable
  <2>3. \/ login'[s] = "store"
        \/ login'[s] = "lock_lost" /\ tok'["login"][s] = tok["login"][s] /\ login[s] = "lock_lost"
    BY <2>2 DEF Calm, StreamCalm
  <2> QED BY <2>1, <2>2, <2>3
<1> QED BY <1>1, <1>5, <1>6, <1>7, <1>8 DEF LockPart

\* What a step that leaves the keys alone does to them.
LEMMA KeysSame ==
    ASSUME KeysAgree, UNCHANGED keyVars
    PROVE  KeysCalm
  BY DEF keyVars, KeysAgree, KeysCalm, GoodRev

\* A stream whose threads do not move is calm.
LEMMA StillCalm ==
    ASSUME LockPart, NEW q \in Streams, login'[q] = login[q], close'[q] = close[q],
           tok'["login"][q] = tok["login"][q], tok'["close"][q] = tok["close"][q],
           localKey'[HallOf[q]][UserOf[q]] \in {localKey[HallOf[q]][UserOf[q]], 0},
           Owns(q)' => Owns(q) /\ localKey'[HallOf[q]][UserOf[q]] = localKey[HallOf[q]][UserOf[q]]
    PROVE  StreamCalm(q)
  BY DEF StreamCalm, LockPart, TokensGood, OwnerLocks, DeletesNothing

\* So is a request that does not move.
LEMMA StillRequest ==
    ASSUME LockPart, NEW h \in Requests, tok'["rpc"][h] = tok["rpc"][h],
           rpc'[h] \in {"txn", "del"} =>
              /\ rpc'[h] = rpc[h] /\ target'[h] = target[h]
              /\ localKey'[target[h]][User(h)] \in {localKey[target[h]][User(h)], 0}
    PROVE  RequestCalm(h)
  BY DEF RequestCalm, LockPart, TokensGood, DeletesNothing

\* What a step of UnlockLocalUser by a thread of hall p, from label l to label
\* k with revision x, does to the keys and the entries: only the hall that has
\* the lock deletes the keys, and an entry that is deleted belongs to no lock.
UnlockEffect(p, u, l, k, x) ==
    /\ KeysCalm /\ \A q \in Peers, v \in Users : EntryCalm(q, v)
    /\ \A q \in Peers, v \in Users :
          localKey'[q][v] = localKey[q][v] \/ (l = "txn" /\ k # "txn" /\ q = p /\ v = u)
    /\ k = "txn" => x # 0 /\ GoodRev(p, u, x)
    /\ k = "del" => localKey'[p][u] = 0

LEMMA UnlockCalm ==
    ASSUME OneLockType, KeysTypeOK, KeysAgree, LockPart, NEW p \in Peers, NEW u \in Users,
           NEW l, NEW r \in Nat, NEW k, NEW x, UnlockLocalUser(p, u, l, r, k, x),
           l = "txn" => r # 0 /\ GoodRev(p, u, r), l = "del" => localKey[p][u] = 0, UNCHANGED phase
    PROVE  UnlockEffect(p, u, l, k, x)
<1>t. localPlayers \in [Peers -> [Users -> Nat]] /\ localKey \in [Peers -> [Users -> Nat]]
  BY DEF KeysTypeOK
<1>1. CASE UNCHANGED <<keyVars, localPlayers>> /\ k \in {"txn", "refused"}
  <2>1. KeysCalm
    BY <1>1, KeysSame
  <2>2. \A q \in Peers, v \in Users : EntryCalm(q, v) /\ localKey'[q][v] = localKey[q][v]
    BY <1>1 DEF EntryCalm, keyVars
  <2>3. k = "txn" => x # 0 /\ GoodRev(p, u, x)
    <3>1. k = "txn" => x = localPlayers[p][u] /\ localPlayers[p][u] # 0
      BY DEF UnlockLocalUser
    <3> QED BY <3>1 DEF LockPart, TokensGood
  <2> QED BY <1>1, <2>1, <2>2, <2>3 DEF UnlockEffect
\* the commit, with or without an answer
<1>2. CASE l = "txn" /\ k \in {"del", "refused"} /\ UnlockTxn(p, u, r) /\ UNCHANGED localPlayers
  <2>1. userKey[u].value = p
    BY <1>2 DEF UnlockTxn, Unlockable, GoodRev
  <2>2. DeleteKeys(p, u)
    BY <1>2 DEF UnlockTxn
  <2>3. /\ KeysCalm
        /\ \A q \in Peers, v \in Users :
                 localKey'[q][v] = IF q = p /\ v = u THEN 0 ELSE localKey[q][v]
    BY <2>1, <2>2, DeleteAgrees DEF KeysCalm
  <2>4. \A q \in Peers, v \in Users : EntryCalm(q, v)
    BY <1>2, <2>3 DEF EntryCalm
  <2> QED BY <1>2, <2>3, <2>4 DEF UnlockEffect
<1>3. CASE l = "del" /\ k = "ok" /\ SetEntry(p, u, 0) /\ UNCHANGED keyVars
  <2>1. KeysCalm
    BY <1>3, KeysSame
  <2>2. \A q \in Peers, v \in Users :
           localPlayers'[q][v] = IF q = p /\ v = u THEN 0 ELSE localPlayers[q][v]
    BY <1>3, <1>t DEF SetEntry
  <2>3. \A q \in Peers, v \in Users : EntryCalm(q, v) /\ localKey'[q][v] = localKey[q][v]
    BY <1>3, <2>2 DEF EntryCalm, keyVars
  <2> QED BY <1>3, <2>1, <2>3 DEF UnlockEffect
<1> QED BY <1>1, <1>2, <1>3, Zenon DEF UnlockLocalUser

\* Steps that leave the keys and the entries alone, and are none of those that
\* take or release the lock.
Quiet ==
    /\ UNCHANGED <<keyVars, localPlayers, tok>>
    /\ \A p \in Peers : phase'[p] = "up" => phase[p] = "up"
    /\ \A q \in Streams :
          /\ login'[q] \in {"store", "txn", "del"} => login'[q] = login[q]
          /\ login[q] \in {"store", "lock_lost"} => login'[q] = login[q]
          /\ close'[q] \in {"txn", "del"} => close'[q] = close[q]
    /\ \A h \in Requests : rpc'[h] \in {"txn", "del"} => rpc'[h] = rpc[h] /\ target'[h] = target[h]

\* They are calm.
LEMMA QuietCalm ==
    ASSUME DictType, VictimFound, AllShape, KeysAgree, LockPart, [Next]_vars, Quiet
    PROVE  Calm
<1>k. UNCHANGED <<keyVars, localPlayers, tok>>
  BY DEF Quiet
<1>u. localKey' = localKey /\ localPlayers' = localPlayers /\ tok' = tok
  BY <1>k DEF keyVars
<1>1. KeysCalm
  BY <1>k, KeysSame
<1>2. \A p \in Peers, u \in Users : EntryCalm(p, u)
  BY <1>u DEF EntryCalm, Quiet
<1>3. ASSUME NEW q \in Streams PROVE StreamCalm(q)
  <2>1. Owns(q)' => Owns(q)
    <3> SUFFICES ASSUME Owns(q)' PROVE Owns(q)
      OBVIOUS
    <3>1. ~LockLocalUser(q)
      <4> SUFFICES ASSUME LockLocalUser(q) PROVE FALSE
        OBVIOUS
      <4>1. login'[q] = "store" /\ login[q] # "store"
        BY DEF LockLocalUser, GotoLogin, DictType
      <4> QED BY <4>1 DEF Quiet
    <3> QED BY <3>1, OwnsStep
  <2>2. /\ login'[q] \in {"store", "txn", "del"} => login'[q] = login[q]
        /\ login[q] \in {"store", "lock_lost"} => login'[q] = login[q]
        /\ close'[q] \in {"txn", "del"} => close'[q] = close[q]
    BY DEF Quiet
  <2> QED BY <1>u, <2>1, <2>2 DEF StreamCalm, LockPart, TokensGood, DeletesNothing
<1>4. ASSUME NEW h \in Requests PROVE RequestCalm(h)
  BY <1>u, StillRequest DEF Quiet
<1> QED BY <1>1, <1>2, <1>3, <1>4 DEF Calm

\* The other steps of a stream.
LEMMA StreamQuiet ==
    ASSUME DictType, NEW s \in Streams,
           ClientStream(s) \/ Login(s) \/ ClientReads(s) \/ ClientGone(s) \/ Ending(s) \/ Closing(s),
           ~LockLocalUser(s), ~LockFails(s), ~LockStore(s), ~LoginUnlock(s), ~CloseUnlock(s)
    PROVE  Quiet
<1>t. /\ login \in [Streams -> LoginLabels] /\ close \in [Streams -> CloseLabels]
      /\ rpc \in [Requests -> RpcLabels]
  BY DEF DictType
<1> DEFINE K == UNCHANGED <<keyVars, localPlayers, tok>>
           G == /\ login'[s] \in {"store", "txn", "del"} => login'[s] = login[s]
                /\ login[s] \notin {"store", "lock_lost"} \/ login'[s] = login[s]
                /\ close'[s] \in {"txn", "del"} => close'[s] = close[s]
           H == s \in Requests /\ rpc'[s] \in {"txn", "del"} => rpc'[s] = rpc[s] /\ target'[s] = target[s]
<1>1. K
  BY Zenon DEF ClientStream, Login, LockRefused, InsteadReturns, CheckSession,
     InsertSession, CountSession, LoadSucceeds, LoadFails, UncountSession, BindResponse, BindCancel,
     ClientReads, ClientGone, Ending, Closing, ClientCancelled, StreamClose, StreamEnd, Logout, CloseDict, CloseCount
<1>3. ASSUME \/ ClientStream(s) \/ CheckSession(s) \/ CountSession(s) \/ LoadSucceeds(s)
             \/ LoadFails(s) \/ UncountSession(s)
      PROVE  G /\ H
  BY <1>3, <1>t DEF ClientStream, CheckSession, CountSession, LoadSucceeds, LoadFails, UncountSession,
     GotoLogin
<1>4. ASSUME InsertSession(s) PROVE G /\ H
  BY <1>4, <1>t DEF InsertSession, GotoLogin
<1>5. ASSUME \/ BindResponse(s) \/ BindCancel(s)
             \/ ClientReads(s) \/ ClientGone(s) \/ ClientCancelled(s)
      PROVE  G /\ H
  BY <1>5, <1>t DEF BindResponse, BindCancel, ClientReads, ClientGone, ClientCancelled, GotoLogin
<1>6. ASSUME StreamClose(s) \/ StreamEnd(s) PROVE G /\ H
  BY <1>6, <1>t DEF StreamClose, StreamEnd, BeginClose, GotoLogin, GotoClose
<1>7. ASSUME Logout(s) \/ CloseDict(s) \/ CloseCount(s) PROVE G /\ H
  BY <1>7, <1>t DEF Logout, CloseDict, CloseCount, GotoClose
<1>8. ASSUME InsteadReturns(s) PROVE G /\ H
  BY <1>8, <1>t DEF InsteadReturns, GotoLogin, GotoRpc, Requests
<1>9. ASSUME LockRefused(s) PROVE G /\ H
  <2>1. login[s] \in {"lock1", "lock2"} /\ UNCHANGED close
    BY <1>9 DEF LockRefused
  <2>2. login'[s] \in {"instead", "unreachable", "refused"}
    BY <1>9, <1>t DEF LockRefused, GotoLogin
  <2>3. H
    BY <1>9, <1>t DEF LockRefused, GotoRpc, Requests
  <2> QED BY <2>1, <2>2, <2>3
<1>10. G /\ H
  BY <1>3, <1>4, <1>5, <1>6, <1>7, <1>8, <1>9, Zenon DEF Login, Ending, Closing
<1>11. UNCHANGED phase /\ \A h \in Requests : h # s => rpc'[h] = rpc[h] /\ target'[h] = target[h]
  BY StreamFrame DEF stopVars
<1>12. \A q \in Streams : q # s => login'[q] = login[q] /\ close'[q] = close[q]
  BY OthersIdle DEF Idle
<1> QED BY <1>1, <1>10, <1>11, <1>12 DEF Quiet

\* A lock whose commit failed and was not applied.
LEMMA LockFailsQuiet ==
    ASSUME DictType, NEW s \in Streams, LockFails(s), UNCHANGED <<keyVars, tok>>,
           login' = [login EXCEPT ![s] = "refused"]
    PROVE  Quiet
<1>1. UNCHANGED <<localPlayers, close, rpc, target, phase>> /\ login[s] \in {"lock1", "lock2"}
  BY DEF LockFails, stopVars
<1>2. \A q \in Streams : login'[q] = IF q = s THEN "refused" ELSE login[q]
  BY DEF DictType
<1> QED BY <1>1, <1>2 DEF Quiet

\* The other steps of the handlers.
LEMMA HandlerQuiet ==
    ASSUME DictType, NEW h \in Requests, KickRequest(h) \/ Handler(h), ~HandlerUnlock(h)
    PROVE  Quiet
<1>t. /\ close \in [Streams -> CloseLabels] /\ rpc \in [Requests -> RpcLabels]
  BY DEF DictType
<1>1. UNCHANGED <<keyVars, localPlayers, tok, login, target, phase>>
  BY Zenon DEF KickRequest, Handler, RequestFails, HandlerLoad, HandlerSend, HandlerClose, HandlerWait, stopVars
<1>2. \A g \in Requests : g # h => rpc'[g] = rpc[g]
  BY HandlerFrame
<1>3. rpc'[h] \notin {"txn", "del"}
  <2>1. CASE KickRequest(h) \/ RequestFails(h) \/ HandlerWait(h)
    BY <1>t, <2>1 DEF KickRequest, RequestFails, HandlerWait, GotoRpc
  <2>2. CASE HandlerLoad(h)
    BY <1>t, <2>2 DEF HandlerLoad, GotoRpc
  <2>3. CASE HandlerSend(h)
    BY <1>t, <2>3 DEF HandlerSend, GotoRpc
  <2>4. CASE HandlerClose(h)
    BY <1>t, <2>4 DEF HandlerClose, GotoRpc
  <2> QED BY <2>1, <2>2, <2>3, <2>4 DEF Handler
<1>4. \A q \in Streams : close'[q] \in {"txn", "del"} => close'[q] = close[q]
  <2>1. UNCHANGED close \/ \E v : close' = [close EXCEPT ![v] = "logout"]
    BY HandlerFrame, Zenon DEF HandlerClose, BeginClose, GotoClose
  <2> QED BY <1>t, <2>1
<1> QED BY <1>1, <1>2, <1>3, <1>4 DEF Quiet

\* The steps of the stop loop, but for a death.
LEMMA StopQuiet ==
    ASSUME DictType, NEW p \in Peers, StopBegin(p) \/ Stopping(p), ~Die(p),
           \A u \in Users : ~Unregister(p, u)
    PROVE  Quiet
<1>t. /\ close \in [Streams -> CloseLabels]
      /\ phase \in [Peers -> {"down", "up", "stopping", "stopped"}]
  BY DEF DictType
<1>1. UNCHANGED <<keyVars, localPlayers, tok, login, rpc, target>>
  BY Zenon DEF StopBegin, Stopping, StopRange, StopClose, StopWait, StopCheck, Exit, threadVars
<1>2. \A q \in Streams : close'[q] \in {"txn", "del"} => close'[q] = close[q]
  <2>1. UNCHANGED close \/ \E v : close' = [close EXCEPT ![v] = "logout"]
    BY Zenon DEF StopBegin, Stopping, StopRange, StopClose, StopWait, StopCheck, Exit, threadVars,
       BeginClose, GotoClose
  <2> QED BY <1>t, <2>1
<1>3. \A q \in Peers : phase'[q] = "up" => phase[q] = "up"
  <2>1. CASE UNCHANGED phase
    BY <2>1
  <2>2. CASE StopBegin(p)
    BY <1>t, <2>2 DEF StopBegin
  <2>3. CASE StopCheck(p)
    BY <1>t, <2>3 DEF StopCheck
  <2> QED BY <2>1, <2>2, <2>3, Zenon DEF Stopping, StopRange, StopClose, StopWait, Exit
<1> QED BY <1>1, <1>2, <1>3 DEF Quiet

\* Nobody becomes an owner but by the lock's transaction.
LEMMA OwnsKept ==
    ASSUME DictType, VictimFound, AllShape, [Next]_vars, NEW q \in Streams,
           login'[q] = "store" => login[q] = "store", Owns(q)'
    PROVE  Owns(q)
<1>1. LockLocalUser(q) => login'[q] = "store" /\ login[q] # "store"
  BY DEF LockLocalUser, GotoLogin, DictType
<1> QED BY <1>1, OwnsStep

\* A hall that has no session and no login of a user has no owner of its lock.
LEMMA NoOwner ==
    ASSUME AllShape, NEW q \in Streams, dict[HallOf[q]][UserOf[q]] = NoStream, ~InLogin(q)
    PROVE  ~Owns(q)
<1>1. SessionShape(q) /\ InDict(q)
  BY DEF AllShape
<1> QED BY <1>1 DEF InDict, Owns, InLogin

\* The store of the entry after the lock.
LEMMA LockStoreCalm ==
    ASSUME DictType, VictimFound, AllShape, KeysAgree, LockPart, [Next]_vars,
           NEW s \in Streams, LockStore(s)
    PROVE  Calm
<1>t. /\ login \in [Streams -> LoginLabels] /\ localPlayers \in [Peers -> [Users -> Nat]]
      /\ tok \in [{"login", "close", "rpc"} -> [Requests -> Nat]] /\ s \in Requests
  BY DEF DictType, KeysTypeOK, Requests
<1>u. UNCHANGED <<keyVars, close, rpc, target, phase>>
  BY DEF LockStore, stopVars
<1>k. localKey' = localKey
  BY <1>u DEF keyVars
<1>1. /\ login[s] = "store" /\ login'[s] = "check"
      /\ \A q \in Streams : q # s => login'[q] = login[q]
  BY <1>t DEF LockStore, GotoLogin
<1>2. /\ \A q \in Requests : tok'["close"][q] = tok["close"][q] /\ tok'["rpc"][q] = tok["rpc"][q]
      /\ \A q \in Requests : q # s => tok'["login"][q] = tok["login"][q]
  BY <1>t DEF LockStore
<1>3. \A p \in Peers, v \in Users :
         localPlayers'[p][v] = IF p = HallOf[s] /\ v = UserOf[s] THEN tok["login"][s] ELSE localPlayers[p][v]
  BY <1>t DEF LockStore, SetEntry
<1>4. tok["login"][s] = localKey[HallOf[s]][UserOf[s]]
  BY <1>1 DEF LockPart, OwnerLocks
<1>5. KeysCalm
  BY <1>u, KeysSame
<1>6. \A p \in Peers, v \in Users : EntryCalm(p, v)
  BY <1>u, <1>k, <1>3, <1>4 DEF EntryCalm
<1>7. ASSUME NEW q \in Streams PROVE StreamCalm(q)
  <2>1. Owns(q)' => Owns(q)
    BY <1>1, OwnsKept
  <2>2. CASE q # s
    <3>1. q \in Requests
      BY DEF Requests
    <3> QED BY <1>u, <1>k, <1>1, <1>2, <2>1, <2>2, <3>1, StillCalm
  <2>3. CASE q = s
    BY <1>t, <1>u, <1>k, <1>1, <1>2, <1>3, <1>4, <2>1, <2>3
       DEF StreamCalm, LockPart, TokensGood, DeletesNothing
  <2> QED BY <2>2, <2>3
<1>8. ASSUME NEW h \in Requests PROVE RequestCalm(h)
  BY <1>u, <1>k, <1>2, StillRequest
<1> QED BY <1>5, <1>6, <1>7, <1>8 DEF Calm

\* The deferred unlock of a login that fails.
LEMMA LoginUnlockCalm ==
    ASSUME OneLockType, DictType, RpcShape, AllShape, KeysAgree, LockPart, [Next]_vars,
           NEW s \in Streams, LoginUnlock(s)
    PROVE  Calm
<1> DEFINE p == HallOf[s]
           u == UserOf[s]
<1>t. /\ KeysTypeOK /\ login \in [Streams -> LoginLabels] /\ rev \in Nat
      /\ tok \in [{"login", "close", "rpc"} -> [Requests -> Nat]] /\ s \in Requests
  BY DEF DictType, KeysTypeOK, Requests
<1>u. UNCHANGED <<close, rpc, target, phase>>
  BY DEF LoginUnlock, stopVars
<1>1. PICK l \in UnlockLabels, r \in 0 .. rev :
          /\ UnlockLocalUser(p, u, login[s], tok["login"][s], l, r)
          /\ GotoLogin(s, IF l \in {"ok", "refused"} THEN "failed" ELSE l)
          /\ tok' = [tok EXCEPT !["login"][s] = r]
  BY DEF LoginUnlock
<1>2. /\ login[s] \in {"load", "txn", "del"}
      /\ login'[s] = IF l \in {"ok", "refused"} THEN "failed" ELSE l
      /\ \A q \in Streams : q # s => login'[q] = login[q]
  BY <1>t, <1>1 DEF GotoLogin, LoginUnlock
<1>3. /\ \A q \in Requests : tok'["close"][q] = tok["close"][q] /\ tok'["rpc"][q] = tok["rpc"][q]
      /\ \A q \in Requests : q # s => tok'["login"][q] = tok["login"][q]
      /\ tok'["login"][s] = r
  BY <1>t, <1>1
<1>4. /\ login[s] = "txn" => tok["login"][s] # 0 /\ GoodRev(p, u, tok["login"][s])
      /\ login[s] = "del" => localKey[p][u] = 0
      /\ tok["login"][s] \in Nat /\ p \in Peers /\ u \in Users
  BY <1>t DEF LockPart, TokensGood, DeletesNothing
<1> HIDE DEF p, u
<1>5. /\ KeysCalm /\ \A q \in Peers, v \in Users : EntryCalm(q, v)
      /\ \A q \in Peers, v \in Users :
            localKey'[q][v] = localKey[q][v] \/ (login[s] = "txn" /\ l # "txn" /\ q = p /\ v = u)
      /\ l = "txn" => r # 0 /\ GoodRev(p, u, r)
      /\ l = "del" => localKey'[p][u] = 0
  <2> DEFINE at == login[s]
             was == tok["login"][s]
  <2>1. UnlockLocalUser(p, u, at, was, l, r) /\ was \in Nat /\ p \in Peers /\ u \in Users
    BY <1>1, <1>4
  <2>2. KeysTypeOK /\ UNCHANGED phase
    BY <1>t, <1>u
  <2>3. /\ at = "txn" => was # 0 /\ GoodRev(p, u, was)
        /\ at = "del" => localKey[p][u] = 0
    BY <1>4
  <2> HIDE DEF at, was
  <2>4. UnlockEffect(p, u, at, l, r)
    BY <2>1, <2>2, <2>3, UnlockCalm
  <2> QED BY <2>4, Zenon DEF UnlockEffect, at
<1>6. \A q \in Peers, v \in Users : localKey'[q][v] \in {localKey[q][v], 0}
  BY <1>5 DEF EntryCalm
<1>c. close[s] = "none"
  BY <1>2 DEF AllShape, SessionShape, Served
<1>7. ASSUME NEW q \in Streams PROVE StreamCalm(q)
  <2>1. Owns(q)' => Owns(q)
    <3>1. l # "store"
      BY DEF UnlockLabels
    <3> QED BY <1>2, <3>1, OwnsKept DEF RpcShape
  <2>2. CASE q # s
    <3>1. q \in Requests /\ HallOf[q] \in Peers /\ UserOf[q] \in Users
      BY DEF Requests
    <3>2. Owns(q)' => localKey'[HallOf[q]][UserOf[q]] = localKey[HallOf[q]][UserOf[q]]
      <4>1. login[s] = "txn" => Owns(s)
        BY DEF Owns
      <4> QED BY <1>5, <2>1, <2>2, <3>1, <4>1 DEF LockPart, OwnerLocks, u
    <3> QED BY <1>u, <1>2, <1>3, <1>6, <2>1, <2>2, <3>1, <3>2, StillCalm
  <2>3. CASE q = s
    <3>1. login'[s] \in {"failed", "txn", "del"} /\ (login'[s] = "txn" <=> l = "txn")
          /\ (login'[s] = "del" <=> l = "del") /\ close'[s] = "none"
      BY <1>u, <1>c, <1>2 DEF UnlockLabels
    <3>2. login'[s] = "txn" => r # 0 /\ GoodRev(HallOf[s], UserOf[s], r)
      BY <1>5, <3>1 DEF p, u
    <3>3. login'[s] = "del" => localKey'[HallOf[s]][UserOf[s]] = 0
      BY <1>5, <3>1 DEF p, u
    <3>4. Owns(s)' => Owns(s) /\ localKey'[HallOf[s]][UserOf[s]] = localKey[HallOf[s]][UserOf[s]]
      <4>1. Owns(s)' => login'[s] = "txn"
        BY <3>1 DEF Owns, Served
      <4> QED BY <1>4, <1>5, <2>1, <2>3, <3>1, <4>1 DEF p, u
    <3> QED BY <1>2, <1>3, <2>3, <3>1, <3>2, <3>3, <3>4 DEF StreamCalm
  <2> QED BY <2>2, <2>3
<1>8. ASSUME NEW h \in Requests PROVE RequestCalm(h)
  <2>1. rpc[h] # "none" => target[h] \in Peers
    BY DEF RpcShape, RequestGoesTo
  <2>2. User(h) \in Users
    BY DEF User, Requests
  <2> QED BY <1>u, <1>3, <1>6, <2>1, <2>2, StillRequest
<1> QED BY <1>5, <1>7, <1>8 DEF Calm

\* The unlock of Close.
LEMMA CloseUnlockCalm ==
    ASSUME OneLockType, DictType, RpcShape, AllShape, KeysAgree, LockPart, [Next]_vars,
           NEW s \in Streams, CloseUnlock(s)
    PROVE  Calm
<1> DEFINE p == HallOf[s]
           u == UserOf[s]
<1>t. /\ KeysTypeOK /\ close \in [Streams -> CloseLabels] /\ rev \in Nat
      /\ tok \in [{"login", "close", "rpc"} -> [Requests -> Nat]] /\ s \in Requests
  BY DEF DictType, KeysTypeOK, Requests
<1>u. UNCHANGED <<login, rpc, target, phase>>
  BY DEF CloseUnlock, stopVars
<1>1. PICK l \in UnlockLabels, r \in 0 .. rev :
          /\ UnlockLocalUser(p, u, close[s], tok["close"][s], l, r)
          /\ GotoClose(s, IF l \in {"ok", "refused"} THEN "dict" ELSE l)
          /\ tok' = [tok EXCEPT !["close"][s] = r]
  BY DEF CloseUnlock
<1>2. /\ close[s] \in {"load", "txn", "del"}
      /\ close'[s] = IF l \in {"ok", "refused"} THEN "dict" ELSE l
      /\ \A q \in Streams : q # s => close'[q] = close[q]
  BY <1>t, <1>1 DEF GotoClose, CloseUnlock
<1>3. /\ \A q \in Requests : tok'["login"][q] = tok["login"][q] /\ tok'["rpc"][q] = tok["rpc"][q]
      /\ \A q \in Requests : q # s => tok'["close"][q] = tok["close"][q]
      /\ tok'["close"][s] = r
  BY <1>t, <1>1
<1>4. /\ close[s] = "txn" => tok["close"][s] # 0 /\ GoodRev(p, u, tok["close"][s])
      /\ close[s] = "del" => localKey[p][u] = 0
      /\ tok["close"][s] \in Nat /\ p \in Peers /\ u \in Users
  BY <1>t DEF LockPart, TokensGood, DeletesNothing
<1> HIDE DEF p, u
<1>5. /\ KeysCalm /\ \A q \in Peers, v \in Users : EntryCalm(q, v)
      /\ \A q \in Peers, v \in Users :
            localKey'[q][v] = localKey[q][v] \/ (close[s] = "txn" /\ l # "txn" /\ q = p /\ v = u)
      /\ l = "txn" => r # 0 /\ GoodRev(p, u, r)
      /\ l = "del" => localKey'[p][u] = 0
  <2> DEFINE at == close[s]
             was == tok["close"][s]
  <2>1. UnlockLocalUser(p, u, at, was, l, r) /\ was \in Nat /\ p \in Peers /\ u \in Users
    BY <1>1, <1>4
  <2>2. KeysTypeOK /\ UNCHANGED phase
    BY <1>t, <1>u
  <2>3. /\ at = "txn" => was # 0 /\ GoodRev(p, u, was)
        /\ at = "del" => localKey[p][u] = 0
    BY <1>4
  <2> HIDE DEF at, was
  <2>4. UnlockEffect(p, u, at, l, r)
    BY <2>1, <2>2, <2>3, UnlockCalm
  <2> QED BY <2>4, Zenon DEF UnlockEffect, at
<1>6. \A q \in Peers, v \in Users : localKey'[q][v] \in {localKey[q][v], 0}
  BY <1>5 DEF EntryCalm
<1>c. login[s] \in Served
  BY <1>2 DEF AllShape, SessionShape
<1>7. ASSUME NEW q \in Streams PROVE StreamCalm(q)
  <2>1. Owns(q)' => Owns(q)
    BY <1>u, OwnsKept DEF RpcShape
  <2>2. CASE q # s
    <3>1. q \in Requests /\ HallOf[q] \in Peers /\ UserOf[q] \in Users
      BY DEF Requests
    <3>2. Owns(q)' => localKey'[HallOf[q]][UserOf[q]] = localKey[HallOf[q]][UserOf[q]]
      <4>1. close[s] = "txn" => Owns(s)
        BY DEF Owns
      <4> QED BY <1>5, <2>1, <2>2, <3>1, <4>1 DEF LockPart, OwnerLocks, u
    <3> QED BY <1>u, <1>2, <1>3, <1>6, <2>1, <2>2, <3>1, <3>2, StillCalm
  <2>3. CASE q = s
    <3>1. close'[s] \in {"dict", "txn", "del"} /\ (close'[s] = "txn" <=> l = "txn")
          /\ (close'[s] = "del" <=> l = "del") /\ login'[s] \in Served
      BY <1>u, <1>c, <1>2 DEF UnlockLabels
    <3>2. close'[s] = "txn" => r # 0 /\ GoodRev(HallOf[s], UserOf[s], r)
      BY <1>5, <3>1 DEF p, u
    <3>3. close'[s] = "del" => localKey'[HallOf[s]][UserOf[s]] = 0
      BY <1>5, <3>1 DEF p, u
    <3>4. Owns(s)' => Owns(s) /\ localKey'[HallOf[s]][UserOf[s]] = localKey[HallOf[s]][UserOf[s]]
      <4>1. Owns(s)' => close'[s] = "txn"
        BY <3>1 DEF Owns, Served
      <4> QED BY <1>4, <1>5, <2>1, <2>3, <3>1, <4>1 DEF p, u
    <3> QED BY <1>u, <1>c, <1>3, <2>3, <3>1, <3>2, <3>3, <3>4 DEF StreamCalm, Served
  <2> QED BY <2>2, <2>3
<1>8. ASSUME NEW h \in Requests PROVE RequestCalm(h)
  <2>1. rpc[h] # "none" => target[h] \in Peers
    BY DEF RpcShape, RequestGoesTo
  <2>2. User(h) \in Users
    BY DEF User, Requests
  <2> QED BY <1>u, <1>3, <1>6, <2>1, <2>2, StillRequest
<1> QED BY <1>5, <1>7, <1>8 DEF Calm

\* The unlock of UserInstead: its hall has no session of the user, and no login
\* of the user runs but the one that sent it.
LEMMA HandlerUnlockCalm ==
    ASSUME OneLockType, DictType, RpcShape, AllShape, NoOverlap, HandlerShape, KeysAgree, LockPart,
           [Next]_vars, NEW h \in Requests, HandlerUnlock(h)
    PROVE  Calm
<1> DEFINE p == target[h]
           u == User(h)
<1>t. /\ KeysTypeOK /\ rpc \in [Requests -> RpcLabels] /\ rev \in Nat
      /\ tok \in [{"login", "close", "rpc"} -> [Requests -> Nat]]
  BY DEF DictType, KeysTypeOK
<1>u. UNCHANGED <<login, close, target, phase>>
  BY DEF HandlerUnlock, stopVars
<1>1. PICK l \in UnlockLabels, r \in 0 .. rev :
          /\ UnlockLocalUser(p, u, rpc[h], tok["rpc"][h], l, r)
          /\ GotoRpc(h, IF l = "refused" THEN "err" ELSE l)
          /\ tok' = [tok EXCEPT !["rpc"][h] = r]
  BY DEF HandlerUnlock
<1>2. /\ rpc[h] \in {"load", "txn", "del"}
      /\ rpc'[h] = IF l = "refused" THEN "err" ELSE l
      /\ \A g \in Requests : g # h => rpc'[g] = rpc[g]
  BY <1>t, <1>1 DEF GotoRpc, HandlerUnlock
<1>3. /\ \A g \in Requests : tok'["login"][g] = tok["login"][g] /\ tok'["close"][g] = tok["close"][g]
      /\ \A g \in Requests : g # h => tok'["rpc"][g] = tok["rpc"][g]
      /\ tok'["rpc"][h] = r
  BY <1>t, <1>1
<1>4. /\ rpc[h] = "txn" => tok["rpc"][h] # 0 /\ GoodRev(p, u, tok["rpc"][h])
      /\ rpc[h] = "del" => localKey[p][u] = 0
      /\ tok["rpc"][h] \in Nat
  BY <1>t DEF LockPart, TokensGood, DeletesNothing
<1>p. p \in Peers /\ u \in Users
  BY <1>2 DEF RpcShape, RequestGoesTo, User, Requests
<1>s. h \in Streams /\ u = UserOf[h] /\ dict[p][u] = NoStream /\ login[h] \in {"instead", "dead"}
  BY <1>2 DEF HandlerShape, Requests, User
<1> HIDE DEF p, u
<1>5. /\ KeysCalm /\ \A q \in Peers, v \in Users : EntryCalm(q, v)
      /\ \A q \in Peers, v \in Users :
            localKey'[q][v] = localKey[q][v] \/ (rpc[h] = "txn" /\ l # "txn" /\ q = p /\ v = u)
      /\ l = "txn" => r # 0 /\ GoodRev(p, u, r)
      /\ l = "del" => localKey'[p][u] = 0
  <2> DEFINE at == rpc[h]
             was == tok["rpc"][h]
  <2>1. UnlockLocalUser(p, u, at, was, l, r) /\ was \in Nat /\ p \in Peers /\ u \in Users
    BY <1>p, <1>1, <1>4
  <2>2. KeysTypeOK /\ UNCHANGED phase
    BY <1>t, <1>u
  <2>3. /\ at = "txn" => was # 0 /\ GoodRev(p, u, was)
        /\ at = "del" => localKey[p][u] = 0
    BY <1>4
  <2> HIDE DEF at, was
  <2>4. UnlockEffect(p, u, at, l, r)
    BY <2>1, <2>2, <2>3, UnlockCalm
  <2> QED BY <2>4, Zenon DEF UnlockEffect, at
<1>6. \A q \in Peers, v \in Users : localKey'[q][v] \in {localKey[q][v], 0}
  BY <1>5 DEF EntryCalm
<1>7. ASSUME NEW q \in Streams, HallOf[q] = p, UserOf[q] = u PROVE ~Owns(q)
  <2>1. CASE q = h
    <3>1. close[h] = "none"
      BY <1>s DEF AllShape, SessionShape, Served
    <3> QED BY <1>s, <2>1, <3>1 DEF Owns, Served
  <2>2. CASE q # h
    <3>1. LoggingIn(h)
      BY <1>2 DEF LoggingIn
    <3>2. ~InLogin(q)
      BY <1>7, <1>s, <2>2, <3>1 DEF NoOverlap, LoggingIn
    <3> QED BY <1>7, <1>s, <3>2, NoOwner
  <2> QED BY <2>1, <2>2
<1>8. ASSUME NEW q \in Streams PROVE StreamCalm(q)
  <2>1. Owns(q)' => Owns(q)
    BY <1>u, OwnsKept DEF RpcShape
  <2>2. q \in Requests /\ HallOf[q] \in Peers /\ UserOf[q] \in Users
    BY DEF Requests
  <2>3. Owns(q)' => localKey'[HallOf[q]][UserOf[q]] = localKey[HallOf[q]][UserOf[q]]
    BY <1>5, <1>7, <2>1, <2>2
  <2> QED BY <1>u, <1>3, <1>6, <2>1, <2>2, <2>3, StillCalm
<1>9. ASSUME NEW g \in Requests PROVE RequestCalm(g)
  <2>1. rpc[g] # "none" => target[g] \in Peers
    BY DEF RpcShape, RequestGoesTo
  <2>2. User(g) \in Users
    BY DEF User, Requests
  <2>3. CASE g # h
    BY <1>u, <1>2, <1>3, <1>6, <2>1, <2>2, <2>3, StillRequest
  <2>4. CASE g = h
    <3>1. target'[h] = p /\ User(h) = u
      BY <1>u DEF p, u
    <3> QED BY <1>2, <1>3, <1>5, <2>4, <3>1 DEF RequestCalm
  <2> QED BY <2>3, <2>4
<1> QED BY <1>5, <1>8, <1>9 DEF Calm

\* unregisterLocalPlayers of a hall that has stopped.
LEMMA UnregisterCalm ==
    ASSUME OneLockType, DictType, RpcShape, AllShape, StopShape, KeysAgree, LockPart, [Next]_vars,
           NEW p \in Peers, NEW u \in Users, Unregister(p, u)
    PROVE  Calm
<1>u. UNCHANGED <<login, close, rpc, target, tok, phase, localPlayers>>
  BY DEF Unregister, stopVars, threadVars
<1>1. localKey[p][u] # 0 /\ DeleteKeys(p, u) /\ phase[p] = "stopped"
  BY DEF Unregister, UnregisterTxn
<1>2. userKey[u].value = p
  BY <1>1 DEF KeysAgree
<1>3. KeysTypeOK
  BY DEF DictType
<1>4. /\ KeysCalm
      /\ \A q \in Peers, v \in Users :
            localKey'[q][v] = IF q = p /\ v = u THEN 0 ELSE localKey[q][v]
  BY <1>1, <1>2, <1>3, DeleteAgrees DEF KeysCalm
<1>5. \A q \in Peers, v \in Users : EntryCalm(q, v) /\ localKey'[q][v] \in {localKey[q][v], 0}
  BY <1>u, <1>4 DEF EntryCalm
<1>6. ASSUME NEW q \in Streams PROVE StreamCalm(q)
  <2>1. Owns(q)' => Owns(q)
    BY <1>u, OwnsKept DEF RpcShape
  <2>2. HallOf[q] = p => ~Owns(q)
    BY <1>1, NoOwner DEF StopShape
  <2>3. Owns(q)' => localKey'[HallOf[q]][UserOf[q]] = localKey[HallOf[q]][UserOf[q]]
    BY <1>4, <2>1, <2>2
  <2>4. HallOf[q] \in Peers /\ UserOf[q] \in Users
    OBVIOUS
  <2> QED BY <1>u, <1>5, <2>1, <2>3, <2>4, StillCalm
<1>7. ASSUME NEW h \in Requests PROVE RequestCalm(h)
  <2>1. rpc[h] # "none" => target[h] \in Peers
    BY DEF RpcShape, RequestGoesTo
  <2>2. User(h) \in Users
    BY DEF User, Requests
  <2> QED BY <1>u, <1>5, <2>1, <2>2, StillRequest
<1> QED BY <1>4, <1>5, <1>6, <1>7 DEF Calm

\* The death of a hall: its threads and its memory are gone, its locks stay.
LEMMA DieCalm ==
    ASSUME DictType, VictimFound, AllShape, KeysAgree, LockPart, [Next]_vars,
           NEW p \in Peers, Die(p)
    PROVE  Calm
<1>t. /\ login \in [Streams -> LoginLabels] /\ localPlayers \in [Peers -> [Users -> Nat]]
      /\ tok \in [{"login", "close", "rpc"} -> [Requests -> Nat]]
      /\ phase \in [Peers -> {"down", "up", "stopping", "stopped"}] /\ Streams \subseteq Requests
      /\ Streams \cap Kicks = {}
  BY DEF DictType, KeysTypeOK, Requests
<1>u. UNCHANGED <<keyVars, target>>
  BY DEF Die
<1>k. localKey' = localKey
  BY <1>u DEF keyVars
<1>1. phase'[p] = "down" /\ \A q \in Peers : q # p => phase'[q] = phase[q]
  BY <1>t DEF Die
<1>2. \A q \in Peers, v \in Users :
         localPlayers'[q][v] = IF q = p THEN 0 ELSE localPlayers[q][v]
  BY <1>t DEF Die
<1>3. \A q \in Streams : HallOf[q] = p => login'[q] \in {"new", "dead"} /\ close'[q] = "none"
  BY DEF Die
<1>4. \A q \in Streams : HallOf[q] # p => login'[q] = login[q] /\ close'[q] = close[q]
  BY DEF Die
<1>5. \A q \in Streams : HallOf[q] # p =>
         tok'["login"][q] = tok["login"][q] /\ tok'["close"][q] = tok["close"][q]
  BY <1>t DEF Die
<1>6. \A h \in Requests : target[h] # p => rpc'[h] = rpc[h] /\ tok'["rpc"][h] = tok["rpc"][h]
  BY <1>t DEF Die
<1>7. \A h \in Requests : target[h] = p => rpc'[h] \in {"none", "ok", "err", "lost"}
  BY DEF Die
<1>8. KeysCalm
  BY <1>u, KeysSame
<1>9. \A q \in Peers, v \in Users : EntryCalm(q, v)
  BY <1>k, <1>1, <1>2 DEF EntryCalm
<1>10. ASSUME NEW q \in Streams PROVE StreamCalm(q)
  <2>1. CASE HallOf[q] = p
    <3>1. ~Owns(q)'
      BY <1>3, <2>1 DEF Owns, Served
    <3> QED BY <1>1, <1>3, <2>1, <3>1 DEF StreamCalm
  <2>2. CASE HallOf[q] # p
    <3>1. Owns(q)' => Owns(q)
      BY <1>4, <2>2, OwnsKept
    <3> QED BY <1>k, <1>4, <1>5, <2>2, <3>1, StillCalm
  <2> QED BY <2>1, <2>2
<1>11. ASSUME NEW h \in Requests PROVE RequestCalm(h)
  <2>1. CASE target[h] = p
    BY <1>7, <2>1 DEF RequestCalm
  <2>2. CASE target[h] # p
    BY <1>u, <1>k, <1>6, <2>2, StillRequest
  <2> QED BY <2>1, <2>2
<1> QED BY <1>8, <1>9, <1>10, <1>11 DEF Calm

\* The restart of a hall: every lock it has left gets its entry.
LEMMA RestartCalm ==
    ASSUME DictType, VictimFound, AllShape, KeysAgree, LockPart, [Next]_vars,
           NEW p \in Peers, Restart(p)
    PROVE  Calm
<1>t. /\ localPlayers \in [Peers -> [Users -> Nat]]
      /\ phase \in [Peers -> {"down", "up", "stopping", "stopped"}]
  BY DEF DictType, KeysTypeOK
<1>u. UNCHANGED <<keyVars, login, close, rpc, target, tok>>
  BY DEF Restart, threadVars
<1>k. localKey' = localKey
  BY <1>u DEF keyVars
<1>1. \A q \in Peers : q # p => phase'[q] = phase[q] /\ localPlayers'[q] = localPlayers[q]
  BY <1>t DEF Restart
<1>2. localPlayers'[p] = localKey[p]
  BY <1>t DEF Restart, Recovered
<1>3. KeysCalm
  BY <1>u, KeysSame
<1>4. \A q \in Peers, v \in Users : EntryCalm(q, v)
  BY <1>k, <1>1, <1>2 DEF EntryCalm
<1>5. ASSUME NEW q \in Streams PROVE StreamCalm(q)
  <2>1. Owns(q)' => Owns(q)
    BY <1>u, OwnsKept
  <2> QED BY <1>u, <1>k, <2>1, StillCalm
<1>6. ASSUME NEW h \in Requests PROVE RequestCalm(h)
  BY <1>u, <1>k, StillRequest
<1> QED BY <1>3, <1>4, <1>5, <1>6 DEF Calm

\* The lock's transaction makes an owner where there was none, and no thread
\* is about to delete the entry it will store.
LEMMA LockKeeps ==
    ASSUME OneLockType, DictType, DictType', RpcShape, AllShape, NoOverlap, OnePerHall, HandlerShape,
           KeysAgree, LockPart, [Next]_vars, NEW s \in Streams, NEW l \in {"store", "lock_lost"},
           LockTxn(HallOf[s], UserOf[s]), login[s] \in {"lock1", "lock2"}, GotoLogin(s, l),
           tok' = [tok EXCEPT !["login"][s] = rev + 1],
           UNCHANGED <<localPlayers, close, rpc, target, phase>>
    PROVE  KeysAgree' /\ LockPart'
<1> DEFINE p == HallOf[s]
           u == UserOf[s]
<1>t. /\ KeysTypeOK /\ login \in [Streams -> LoginLabels] /\ rev \in Nat
      /\ localPlayers \in [Peers -> [Users -> Nat]]
      /\ tok \in [{"login", "close", "rpc"} -> [Requests -> Nat]] /\ s \in Requests
      /\ Streams \subseteq Requests
  BY DEF DictType, KeysTypeOK, Requests
<1>p. p \in Peers /\ u \in Users
  OBVIOUS
<1>u. UNCHANGED <<localPlayers, close, rpc, target, phase>>
  OBVIOUS
<1>1. /\ login[s] \in {"lock1", "lock2"} /\ login'[s] = l
      /\ \A q \in Streams : q # s => login'[q] = login[q]
  BY <1>t DEF GotoLogin
<1>2. /\ \A q \in Requests : tok'["close"][q] = tok["close"][q] /\ tok'["rpc"][q] = tok["rpc"][q]
      /\ \A q \in Requests : q # s => tok'["login"][q] = tok["login"][q]
      /\ tok'["login"][s] = rev + 1
  BY <1>t
<1>3. LockTxn(p, u)
  OBVIOUS
<1>4. /\ KeysAgree'
      /\ \A q \in Peers : localKey[q][u] = 0
      /\ \A q \in Peers, v \in Users :
            localKey'[q][v] = IF q = p /\ v = u THEN rev + 1 ELSE localKey[q][v]
      /\ \A q, v, r : v \in Users /\ r \in Nat /\ GoodRev(q, v, r) => GoodRev(q, v, r)'
  BY <1>t, <1>p, <1>3, LockAgrees
<1>5. LoggingIn(s) /\ close[s] = "none" /\ rpc[s] = "none"
  <2>1. SessionShape(s)
    BY DEF AllShape
  <2>2. rpc[s] # "none" => login[s] \in {"instead", "dead"}
    BY DEF HandlerShape
  <2> QED BY <1>1, <2>1, <2>2 DEF LoggingIn, InLogin, SessionShape, Served
<1>v. VictimFound
  BY DEF RpcShape
<1>6. TokensGood'
  <2>1. \A q, v, r : v \in Users /\ r \in Nat /\ GoodRev(q, v, r) =>
           r <= rev' /\ (r # 0 /\ userKey'[v].create = r => userKey'[v].value = q)
    <3> SUFFICES ASSUME NEW q, NEW v \in Users, NEW r \in Nat, GoodRev(q, v, r)
                 PROVE  r <= rev' /\ (r # 0 /\ userKey'[v].create = r => userKey'[v].value = q)
      OBVIOUS
    <3>1. GoodRev(q, v, r)'
      BY <1>4, Zenon
    <3> QED BY <3>1 DEF GoodRev
  <2>2. ASSUME NEW q \in Peers, NEW v \in Users PROVE GoodRev(q, v, localPlayers[q][v])'
    <3>1. GoodRev(q, v, localPlayers[q][v]) /\ localPlayers[q][v] \in Nat
      BY <1>t DEF LockPart, TokensGood
    <3> DEFINE x == localPlayers[q][v]
    <3>2. localPlayers' = localPlayers
      BY <1>u
    <3>3. x \in Nat /\ GoodRev(q, v, x)
      BY <3>1
    <3> HIDE DEF x
    <3>4. x <= rev' /\ (x # 0 /\ userKey'[v].create = x => userKey'[v].value = q)
      BY <2>1, <3>3, Zenon
    <3> QED BY <3>2, <3>4 DEF GoodRev, x
  <2>3. ASSUME NEW q \in Streams
        PROVE  /\ (login[q] = "txn" => tok["login"][q] # 0 /\ GoodRev(HallOf[q], UserOf[q], tok["login"][q]))'
               /\ (close[q] = "txn" => tok["close"][q] # 0 /\ GoodRev(HallOf[q], UserOf[q], tok["close"][q]))'
    <3>1. /\ login[q] = "txn" => tok["login"][q] # 0 /\ GoodRev(HallOf[q], UserOf[q], tok["login"][q])
          /\ close[q] = "txn" => tok["close"][q] # 0 /\ GoodRev(HallOf[q], UserOf[q], tok["close"][q])
          /\ tok["login"][q] \in Nat /\ tok["close"][q] \in Nat /\ UserOf[q] \in Users
      BY <1>t DEF LockPart, TokensGood
    <3>2. /\ login'[q] = "txn" => login[q] = "txn" /\ tok'["login"][q] = tok["login"][q]
          /\ close'[q] = close[q] /\ tok'["close"][q] = tok["close"][q]
      BY <1>t, <1>u, <1>1, <1>2
    <3> DEFINE R(r) == /\ r # 0 /\ r <= rev'
                       /\ (userKey'[UserOf[q]].create = r => userKey'[UserOf[q]].value = HallOf[q])
    <3>3. /\ login[q] = "txn" => R(tok["login"][q])
          /\ close[q] = "txn" => R(tok["close"][q])
      BY <2>1, <3>1
    <3> QED BY <3>2, <3>3 DEF GoodRev
  <2>4. ASSUME NEW h \in Requests
        PROVE  (rpc[h] = "txn" => tok["rpc"][h] # 0 /\ GoodRev(target[h], User(h), tok["rpc"][h]))'
    <3>1. /\ rpc[h] = "txn" => tok["rpc"][h] # 0 /\ GoodRev(target[h], User(h), tok["rpc"][h])
          /\ tok["rpc"][h] \in Nat
      BY <1>t DEF LockPart, TokensGood
    <3>2. User(h) \in Users
      BY DEF User, Requests
    <3>3. rpc[h] = "txn" => LET r == tok["rpc"][h] IN
             /\ r # 0 /\ r <= rev' /\ (userKey'[User(h)].create = r => userKey'[User(h)].value = target[h])
      BY <2>1, <3>1, <3>2
    <3> QED BY <1>u, <1>2, <3>3 DEF GoodRev, User
  <2> QED BY <2>2, <2>3, <2>4 DEF TokensGood
<1> HIDE DEF p, u
<1>7. ASSUME NEW q \in Streams, Owns(q)', q # s
      PROVE  Owns(q) /\ UserOf[q] # u
  <2>1. Owns(q)
    BY <1>1, <1>7, <1>v, OwnsKept
  <2>2. localKey[HallOf[q]][UserOf[q]] # 0
    BY <2>1 DEF LockPart, OwnerLocks
  <2> QED BY <1>4, <2>1, <2>2
<1>8. OwnerLocks'
  <2>1. ASSUME NEW q \in Streams, Owns(q)' PROVE localKey'[HallOf[q]][UserOf[q]] # 0
    <3>1. CASE q = s
      BY <1>t, <1>p, <1>4, <3>1 DEF p, u
    <3>2. CASE q # s
      BY <1>4, <1>7, <2>1, <3>2 DEF LockPart, OwnerLocks
    <3> QED BY <3>1, <3>2
  <2>2. ASSUME NEW q \in Streams, NEW r \in Streams, Owns(q)', Owns(r)', UserOf[q] = UserOf[r]
        PROVE  q = r
    <3>1. CASE q = s \/ r = s
      BY <1>7, <2>2, <3>1 DEF u
    <3>2. CASE q # s /\ r # s
      BY <1>7, <2>2, <3>2 DEF LockPart, OwnerLocks
    <3> QED BY <3>1, <3>2
  <2>3. ASSUME NEW q \in Streams, login'[q] = "store"
        PROVE  tok'["login"][q] = localKey'[HallOf[q]][UserOf[q]]
    <3>1. CASE q = s
      BY <1>p, <1>2, <1>4, <3>1 DEF p, u
    <3>2. CASE q # s
      <4>1. Owns(q)'
        BY <2>3 DEF Owns
      <4>2. login[q] = "store" /\ UserOf[q] # u /\ tok'["login"][q] = tok["login"][q]
        BY <1>t, <1>1, <1>2, <1>7, <2>3, <3>2, <4>1
      <4>3. localKey'[HallOf[q]][UserOf[q]] = localKey[HallOf[q]][UserOf[q]]
        BY <1>4, <4>2
      <4> QED BY <4>2, <4>3 DEF LockPart, OwnerLocks
    <3> QED BY <3>1, <3>2
  <2> QED BY <2>1, <2>2, <2>3 DEF OwnerLocks
<1>9. DeletesNothing'
  <2>1. ASSUME NEW q \in Streams, login'[q] = "del" \/ close'[q] = "del"
        PROVE  localKey'[HallOf[q]][UserOf[q]] = 0
    <3>1. q # s
      BY <1>u, <1>1, <1>5, <2>1
    <3>2. login[q] = "del" \/ close[q] = "del"
      BY <1>u, <1>1, <2>1, <3>1
    <3>3. ~(HallOf[q] = p /\ UserOf[q] = u)
      <4> SUFFICES ASSUME HallOf[q] = p, UserOf[q] = u PROVE FALSE
        OBVIOUS
      <4>1. CASE login[q] = "del"
        BY <1>5, <3>1, <4>1 DEF NoOverlap, LoggingIn, InLogin, u
      <4>2. CASE close[q] = "del"
        BY <1>1, <3>1, <4>2 DEF OnePerHall, Over, p, u
      <4> QED BY <3>2, <4>1, <4>2
    <3>4. localKey[HallOf[q]][UserOf[q]] = 0
      BY <3>2 DEF LockPart, DeletesNothing
    <3> QED BY <1>4, <3>3, <3>4
  <2>2. ASSUME NEW h \in Requests, rpc'[h] = "del" PROVE localKey'[target'[h]][User(h)] = 0
    <3>1. rpc[h] = "del" /\ target'[h] = target[h] /\ target[h] \in Peers
      BY <1>u, <2>2 DEF RpcShape, RequestGoesTo
    <3>2. h \in Streams /\ h # s /\ User(h) = UserOf[h] /\ LoggingIn(h)
      BY <1>5, <3>1 DEF HandlerShape, Requests, User, LoggingIn
    <3>3. UserOf[h] # u
      BY <1>5, <3>2 DEF NoOverlap, u
    <3>4. localKey[target[h]][User(h)] = 0
      BY <3>1 DEF LockPart, DeletesNothing
    <3> QED BY <1>4, <3>1, <3>2, <3>3, <3>4
  <2> QED BY <2>1, <2>2 DEF DeletesNothing, User
<1>10. LockReleasable'
  <2> SUFFICES ASSUME NEW q \in Peers, NEW v \in Users, phase'[q] = "up", localKey'[q][v] # 0,
                      localPlayers'[q][v] # localKey'[q][v]
               PROVE  \E r \in Streams :
                         /\ HallOf[r] = q /\ UserOf[r] = v
                         /\ \/ login'[r] = "store"
                            \/ login'[r] = "lock_lost" /\ tok'["login"][r] = localKey'[q][v]
    BY DEF LockReleasable
  <2>1. CASE q = p /\ v = u
    <3>1. localKey'[q][v] = rev + 1
      BY <1>4, <2>1
    <3> QED BY <1>1, <1>2, <1>t, <2>1, <3>1 DEF p, u
  <2>2. CASE ~(q = p /\ v = u)
    <3>1. localKey'[q][v] = localKey[q][v] /\ localPlayers'[q][v] = localPlayers[q][v] /\ phase[q] = "up"
      BY <1>u, <1>4, <2>2
    <3>2. PICK r \in Streams : /\ HallOf[r] = q /\ UserOf[r] = v
                              /\ \/ login[r] = "store"
                                 \/ login[r] = "lock_lost" /\ tok["login"][r] = localKey[q][v]
      BY <3>1 DEF LockPart, LockReleasable
    <3>3. r # s /\ r \in Requests
      BY <1>1, <1>t, <3>2
    <3> QED BY <1>1, <1>2, <3>1, <3>2, <3>3
  <2> QED BY <2>1, <2>2
<1> QED BY <1>4, <1>6, <1>8, <1>9, <1>10 DEF LockPart

\* Every step keeps what LockIInv says of the keys.
LEMMA KeysStep ==
    ASSUME OneLockType, DictType, DictType', RpcShape, AllShape, NoOverlap, OnePerHall, HandlerShape,
           StopShape, KeysAgree, LockPart, [Next]_vars
    PROVE  KeysAgree' /\ LockPart'
<1>v. VictimFound
  BY DEF RpcShape
<1>0. Calm => KeysAgree' /\ LockPart'
  BY CalmKeeps
<1>q. Quiet => Calm
  BY <1>v, QuietCalm
<1>1. ASSUME NEW s \in Streams,
             ClientStream(s) \/ Login(s) \/ ClientReads(s) \/ ClientGone(s) \/ Ending(s) \/ Closing(s)
      PROVE  KeysAgree' /\ LockPart'
  <2>1. CASE LockLocalUser(s)
    BY <2>1, LockKeeps DEF LockLocalUser, stopVars
  <2>6. CASE LockFails(s)
    <3>1. CASE UNCHANGED <<keyVars, tok>> /\ login' = [login EXCEPT ![s] = "refused"]
      BY <1>0, <1>q, <2>6, <3>1, LockFailsQuiet
    <3>2. CASE /\ LockTxn(HallOf[s], UserOf[s]) /\ tok' = [tok EXCEPT !["login"][s] = rev + 1]
               /\ GotoLogin(s, "lock_lost")
      BY <2>6, <3>2, LockKeeps DEF LockFails, stopVars
    <3> QED BY <2>6, <3>1, <3>2, Zenon DEF LockFails, GotoLogin
  <2>2. CASE LockStore(s)
    BY <1>0, <1>v, <2>2, LockStoreCalm
  <2>3. CASE LoginUnlock(s)
    BY <1>0, <2>3, LoginUnlockCalm
  <2>4. CASE CloseUnlock(s)
    BY <1>0, <2>4, CloseUnlockCalm
  <2>5. CASE /\ ~LockLocalUser(s) /\ ~LockFails(s) /\ ~LockStore(s)
             /\ ~LoginUnlock(s) /\ ~CloseUnlock(s)
    BY <1>0, <1>q, <1>1, <2>5, StreamQuiet
  <2> QED BY <2>1, <2>2, <2>3, <2>4, <2>5, <2>6
<1>2. ASSUME NEW h \in Requests, KickRequest(h) \/ Handler(h)
      PROVE  KeysAgree' /\ LockPart'
  <2>1. CASE HandlerUnlock(h)
    BY <1>0, <2>1, HandlerUnlockCalm
  <2>2. CASE ~HandlerUnlock(h)
    BY <1>0, <1>q, <1>2, <2>2, HandlerQuiet
  <2> QED BY <2>1, <2>2
<1>3. ASSUME NEW p \in Peers, Crash(p) \/ Restart(p) \/ StopBegin(p) \/ Stopping(p)
      PROVE  KeysAgree' /\ LockPart'
  <2>1. CASE Die(p)
    BY <1>0, <1>v, <2>1, DieCalm
  <2>2. CASE Restart(p)
    BY <1>0, <1>v, <2>2, RestartCalm
  <2>3. ASSUME NEW u \in Users, Unregister(p, u) PROVE KeysAgree' /\ LockPart'
    BY <1>0, <2>3, UnregisterCalm
  <2>4. CASE (StopBegin(p) \/ Stopping(p)) /\ ~Die(p) /\ \A u \in Users : ~Unregister(p, u)
    BY <1>0, <1>q, <2>4, StopQuiet
  <2> QED BY <1>3, <2>1, <2>2, <2>3, <2>4 DEF Crash
<1>4. CASE UNCHANGED vars
  <2>1. UNCHANGED <<keyVars, localPlayers, tok, phase, login, close, rpc, target>>
    BY <1>4 DEF vars, threadVars, stopVars
  <2>2. Quiet
    BY <2>1 DEF Quiet
  <2> QED BY <1>0, <1>q, <2>2
<1>5. ASSUME NEW k \in Kicks, KickRequest(k) PROVE KeysAgree' /\ LockPart'
  BY <1>2, <1>5 DEF Requests
<1>6. CASE Next
  BY <1>1, <1>2, <1>3, <1>5, <1>6, Zenon DEF Next
<1> QED BY <1>4, <1>6

\* At first no user is locked and nothing runs.
LEMMA LockInit == ASSUME Init PROVE LockIInv
<1>1. KeysAgree
  BY DEF Init, KeysInit, KeysAgree, Absent
<1>2. TokensGood
  BY DEF Init, KeysInit, TokensGood, GoodRev, Absent
<1>i. /\ phase = [p \in Peers |-> "up"] /\ stopAt = [p \in Peers |-> "none"]
      /\ login = [s \in Streams |-> "new"] /\ close = [s \in Streams |-> "none"]
      /\ rpc = [h \in Requests |-> "none"]
  BY Zenon DEF Init
<1>3. /\ \A s \in Streams : login[s] = "new" /\ close[s] = "none"
      /\ \A h \in Requests : rpc[h] = "none"
  BY <1>i, Zenon
<1>4. NoOverlap /\ OnePerHall
  <2>1. \A s \in Streams : ~LoggingIn(s) /\ Over(s)
    BY <1>3 DEF LoggingIn, InLogin, Over, Requests
  <2> QED BY <2>1, Zenon DEF NoOverlap, OnePerHall
<1>5. HandlerShape
  BY DEF Init, HandlerShape, Requests
<1>6. OwnerLocks /\ DeletesNothing
  <2>1. \A s \in Streams : ~Owns(s)
    BY <1>3 DEF Owns, Served
  <2>2. OwnerLocks
    BY <1>3, <2>1 DEF OwnerLocks
  <2>3. DeletesNothing
    BY <1>3 DEF DeletesNothing
  <2> QED BY <2>2, <2>3
<1>7. StopShape
  <2>1. \A p \in Peers : phase[p] = "up" /\ stopAt[p] = "none"
    BY <1>i, Zenon
  <2> QED BY <2>1, Zenon DEF StopShape
<1>8. LockReleasable
  BY DEF Init, KeysInit, LockReleasable
<1> QED BY <1>1, <1>2, <1>4, <1>5, <1>6, <1>7, <1>8 DEF LockIInv

\* Every step keeps LockIInv.
LEMMA LockStep ==
    ASSUME OrderlyEnv, OneLockType, DictIInv, DictIInv', LockIInv, [Next]_vars
    PROVE  LockIInv'
<1>1. DictType /\ RpcShape /\ VictimFound /\ AllShape /\ DictCounted
  BY TypeSplit DEF DictIInv, RpcShape, AllShape
<1>2. DictType'
  BY DEF DictIInv, TypeOK, DictType
<1>3. /\ KeysAgree /\ LockPart /\ NoOverlap /\ OnePerHall /\ HandlerShape /\ StopShape
  BY DEF LockIInv, LockPart
<1>4. NoOverlap' /\ OnePerHall'
  BY <1>1, <1>3, OrderStep
<1>5. HandlerShape'
  BY <1>1, <1>3, HandlerShapeStep
<1>6. StopShape'
  BY <1>1, <1>3, StopShapeStep DEF OrderlyEnv
<1>7. KeysAgree' /\ LockPart'
  BY <1>1, <1>2, <1>3, KeysStep
<1> QED BY <1>4, <1>5, <1>6, <1>7 DEF LockIInv, LockPart

\* The inductive invariant of the user lock across halls of one application
\* type, when no login of a user overlaps another and none comes to a hall
\* that stops or still has a session of the user: crashes, restarts, stops,
\* kicks, failed loads, commits that report an error and clients that leave or
\* do not read are all allowed (session.go newSession, Close; hall.go
\* UserInstead, Kick, Serve; player.go LockLocalUser, UnlockLocalUser).
THEOREM LockInvariant ==
    ASSUME OrderlyEnv, OneLockType
    PROVE  Spec => []LockIInv
<1>1. Init => LockIInv
  BY LockInit
<1>2. DictIInv /\ DictIInv' /\ LockIInv /\ [Next]_vars => LockIInv'
  BY LockStep
<1> QED BY <1>1, <1>2, DictInvariant, PTL DEF Spec

\* In such an environment a user is in play at most once in the cluster: the
\* purpose of newSession's lock, of UserInstead and of sessionDict
\* (session.go:20).
THEOREM UserPlaysOnce ==
    ASSUME OrderlyEnv, OneLockType
    PROVE  Spec => []HallInv
<1>1. DictIInv /\ LockIInv => HallInv
  <2> SUFFICES ASSUME DictIInv, LockIInv PROVE HallInv
    OBVIOUS
  <2>1. \A s \in Streams : Playing(s) => Owns(s)
    BY DEF Playing, Owns, Served
  <2>2. SingleSession
    BY <2>1 DEF SingleSession, LockIInv, OwnerLocks
  <2> QED BY <2>2 DEF HallInv, DictIInv
<1> QED BY <1>1, DictInvariant, LockInvariant, PTL

\* ... and its session's hall has the lock: nobody else has released it.
THEOREM PlayingAlwaysHoldsLock ==
    ASSUME OrderlyEnv, OneLockType
    PROVE  Spec => []PlayingHoldsLock
<1>1. LockIInv => PlayingHoldsLock
  BY DEF Playing, Owns, Served, PlayingHoldsLock, LockIInv, OwnerLocks
<1> QED BY <1>1, LockInvariant, PTL

\* ... and a lock that a running hall has can be released, after a crash and a
\* restart (recoverSelfPeerPlayers) too, but for one whose commit was applied
\* and reported an error to its login (player.go:245); an unlock whose commit
\* reports an error (player.go:292) leaves an entry, and no lock.
THEOREM LockStaysReleasable ==
    ASSUME OrderlyEnv, OneLockType
    PROVE  Spec => []LockReleasable
<1>1. LockIInv => LockReleasable
  BY DEF LockIInv
<1> QED BY <1>1, LockInvariant, PTL

-----------------------------------------------------------------------------
(* The exit of a hall that is stopped.                                     *)

\* A session that is loaded or served stays so, until its load fails or its
\* hall dies.
LEMMA LiveStep ==
    ASSUME DictType, [Next]_vars, NEW q \in Streams, login[q] \in Live
    PROVE  /\ login'[q] \in Live \/ LoadFails(q) \/ Die(HallOf[q])
           /\ login[q] \in Served => login'[q] \in Served \/ Die(HallOf[q])
<1> DEFINE G == /\ login'[q] \in Live \/ LoadFails(q) \/ Die(HallOf[q])
                /\ login[q] \in Served => login'[q] \in Served \/ Die(HallOf[q])
<1>t. login \in [Streams -> LoginLabels]
  BY DEF DictType
<1>0. ASSUME login'[q] = login[q] PROVE G
  BY <1>0
<1>1. ASSUME NEW s \in Streams,
             ClientStream(s) \/ Login(s) \/ ClientReads(s) \/ ClientGone(s) \/ Ending(s) \/ Closing(s)
      PROVE  G
  <2>1. CASE q # s
    BY <1>0, <1>1, <2>1, OthersIdle DEF Idle
  <2>2. CASE q = s /\ (ClientReads(s) \/ ClientGone(s) \/ Ending(s) \/ Closing(s))
    <3>1. login'[s] = login[s] \/ login'[s] \in {"exit", "closing", "done"}
      BY <2>2, EndGuard
    <3> QED BY <2>2, <3>1 DEF Live, Served
  <2>3. CASE q = s /\ ClientStream(s)
    BY <2>3 DEF ClientStream, Live, Served
  <2>4. CASE q = s /\ (CountSession(s) \/ LoadSucceeds(s) \/ BindResponse(s) \/ BindCancel(s))
    BY <1>t, <2>4 DEF CountSession, LoadSucceeds, BindResponse, BindCancel, GotoLogin, Live, Served
  <2>5. CASE q = s /\ LoadFails(s)
    BY <2>5 DEF LoadFails, Served
  <2>6. CASE q = s /\ Login(s) /\ ~CountSession(s) /\ ~LoadSucceeds(s) /\ ~BindResponse(s) /\ ~BindCancel(s) /\ ~LoadFails(s)
    <3>1. login[s] \in {"lock1", "lock2", "store", "instead", "check", "insert", "uncount", "load", "txn", "del"}
      BY <2>6 DEF Login, LockLocalUser, LockFails, LockStore, LockRefused, InsteadReturns, CheckSession,
         InsertSession, UncountSession, LoginUnlock
    <3> QED BY <2>6, <3>1 DEF Live, Served
  <2> QED BY <1>1, <2>1, <2>2, <2>3, <2>4, <2>5, <2>6
<1>2. ASSUME NEW h \in Requests, KickRequest(h) \/ Handler(h) PROVE G
  BY <1>0, <1>2, HandlerFrame
<1>3. ASSUME NEW p \in Peers, Crash(p) \/ Restart(p) \/ StopBegin(p) \/ Stopping(p) PROVE G
  <2>1. CASE Die(p)
    <3>1. CASE HallOf[q] = p
      BY <2>1, <3>1
    <3>2. CASE HallOf[q] # p
      BY <1>0, <2>1, <3>2 DEF Die
    <3> QED BY <3>1, <3>2
  <2>2. CASE UNCHANGED login
    BY <1>0, <2>2
  <2> QED BY <1>3, <2>1, <2>2, HallFrame, Zenon DEF threadVars
<1>4. ASSUME UNCHANGED vars PROVE G
  BY <1>0, <1>4 DEF vars, threadVars
<1>5. ASSUME NEW k \in Kicks, KickRequest(k) PROVE G
  BY <1>2, <1>5 DEF Requests
<1> HIDE DEF G
<1>6. ASSUME Next PROVE G
  BY <1>1, <1>2, <1>3, <1>5, <1>6, Zenon DEF Next
<1>7. G
  BY <1>4, <1>6
<1> QED BY <1>7 DEF G

\* The entries of sessionDict.
LEMMA EntryStep ==
    ASSUME DictType, EntryShape, [Next]_vars
    PROVE  EntryShape'
<1>t. /\ dict \in [Peers -> [Users -> Streams \cup {NoStream}]] /\ login \in [Streams -> LoginLabels]
  BY DEF DictType
<1> SUFFICES ASSUME NEW p \in Peers, NEW u \in Users, dict'[p][u] # NoStream
             PROVE  /\ HallOf[dict'[p][u]] = p /\ UserOf[dict'[p][u]] = u
                    /\ login'[dict'[p][u]] \in Live
  BY DEF EntryShape
<1> DEFINE x == dict'[p][u]
<1>1. \/ dict[p][u] = x
      \/ x \in Streams /\ HallOf[x] = p /\ UserOf[x] = u /\ login'[x] = "count"
  <2>1. CASE UNCHANGED dict
    BY <2>1
  <2>2. ASSUME NEW s \in Streams, InsertSession(s)
        PROVE  \/ dict[p][u] = x
               \/ x \in Streams /\ HallOf[x] = p /\ UserOf[x] = u /\ login'[x] = "count"
    <3>1. \/ dict' = dict
          \/ dict' = [dict EXCEPT ![HallOf[s]][UserOf[s]] = s] /\ login' = [login EXCEPT ![s] = "count"]
      BY <2>2, Zenon DEF InsertSession, GotoLogin
    <3> QED BY <1>t, <3>1
  <2>3. ASSUME NEW s \in Streams, LoadFails(s) \/ CloseDict(s) PROVE dict[p][u] = x
    <3>1. dict' = [dict EXCEPT ![HallOf[s]][UserOf[s]] = NoStream]
      BY <2>3, Zenon DEF LoadFails, CloseDict
    <3> QED BY <1>t, <3>1
  <2>4. ASSUME NEW q \in Peers, Die(q) PROVE dict[p][u] = x
    <3>1. dict' = [dict EXCEPT ![q] = [v \in Users |-> NoStream]]
      BY <2>4 DEF Die
    <3> QED BY <1>t, <3>1
  <2> HIDE DEF x
  <2> QED BY <2>1, <2>2, <2>3, <2>4, DictMoves
<1>2. CASE dict[p][u] = x
  <2>1. x \in Streams /\ HallOf[x] = p /\ UserOf[x] = u /\ login[x] \in Live
    BY <1>t, <1>2 DEF EntryShape
  <2>2. ~LoadFails(x)
    <3> SUFFICES ASSUME LoadFails(x) PROVE FALSE
      OBVIOUS
    <3>1. dict' = [dict EXCEPT ![HallOf[x]][UserOf[x]] = NoStream]
      BY DEF LoadFails
    <3> QED BY <1>t, <2>1, <3>1
  <2>3. ~Die(HallOf[x])
    <3> SUFFICES ASSUME Die(HallOf[x]) PROVE FALSE
      OBVIOUS
    <3>1. dict' = [dict EXCEPT ![HallOf[x]] = [v \in Users |-> NoStream]]
      BY DEF Die
    <3> QED BY <1>t, <2>1, <3>1
  <2> HIDE DEF x
  <2>4. login'[x] \in Live
    BY <2>1, <2>2, <2>3, LiveStep
  <2> QED BY <2>1, <2>4 DEF x
<1> QED BY <1>1, <1>2 DEF Live

\* The contexts of the served streams.
LEMMA BoundStep ==
    ASSUME DictType, ServedBound, [Next]_vars
    PROVE  ServedBound'
<1>t. /\ login \in [Streams -> LoginLabels] /\ cancel \in [Streams -> {"nil", "set", "called"}]
  BY DEF DictType
<1>0. ASSUME NEW q \in Streams, login'[q] = login[q] \/ login[q] \in Served,
             cancel'[q] \in {cancel[q], "set", "called"}
      PROVE  login'[q] \in Served => cancel'[q] # "nil"
  BY <1>0 DEF ServedBound
<1> DEFINE B(q) == login'[q] \in Served => cancel'[q] # "nil"
<1>g. ASSUME \A q \in Streams : B(q) PROVE ServedBound'
  BY <1>g DEF ServedBound
<1>b. ASSUME UNCHANGED login, \A q \in Streams : cancel'[q] \in {cancel[q], "set", "called"}
      PROVE  ServedBound'
  BY <1>0, <1>g, <1>b
<1>1. ASSUME NEW s \in Streams,
             ClientStream(s) \/ Login(s) \/ ClientReads(s) \/ ClientGone(s) \/ Ending(s) \/ Closing(s)
      PROVE  ServedBound'
  <2>1. ASSUME NEW q \in Streams, q # s PROVE B(q)
    <3>1. Idle(q)
      BY <1>1, <2>1, OthersIdle
    <3> QED BY <1>0, <3>1 DEF Idle
  <2>2. ASSUME ClientReads(s) \/ ClientGone(s) \/ ClientCancelled(s) \/ StreamEnd(s) PROVE B(s)
    BY <1>t, <2>2, <1>0 DEF ClientReads, ClientGone, ClientCancelled, StreamEnd, Served, sessionVars
  <2>3. ASSUME StreamClose(s) PROVE B(s)
    <3>1. login[s] \in Served /\ cancel'[s] \in {cancel[s], "called"}
      BY <1>t, <2>3 DEF StreamClose, BeginClose, Served
    <3> QED BY <1>0, <3>1
  <2>4. ASSUME Closing(s) PROVE B(s)
    BY <2>4, <1>0, Zenon DEF Closing, Logout, CloseUnlock, CloseDict, CloseCount, sessionVars
  <2>5. ASSUME BindCancel(s) PROVE B(s)
    BY <1>t, <2>5 DEF BindCancel
  <2>6. ASSUME ClientStream(s) \/ (Login(s) /\ ~BindCancel(s)) PROVE B(s)
    <3>1. login'[s] \notin Served
      <4>1. CASE ClientStream(s) \/ LockLocalUser(s) \/ LockStore(s) \/ CheckSession(s) \/ LoadSucceeds(s) \/ LoadFails(s) \/ BindResponse(s)
        BY <1>t, <4>1 DEF ClientStream, LockLocalUser, LockStore, CheckSession, LoadSucceeds,
           LoadFails, BindResponse, GotoLogin, Served
      <4>6. CASE LockFails(s) \/ CountSession(s) \/ UncountSession(s)
        BY <1>t, <4>6 DEF LockFails, CountSession, UncountSession, GotoLogin, Served
      <4>2. CASE LockRefused(s)
        BY <1>t, <4>2 DEF LockRefused, GotoLogin, Served
      <4>3. CASE InsteadReturns(s)
        BY <1>t, <4>3 DEF InsteadReturns, GotoLogin, Served
      <4>4. CASE InsertSession(s)
        BY <1>t, <4>4 DEF InsertSession, GotoLogin, Served
      <4>5. CASE LoginUnlock(s)
        BY <1>t, <4>5 DEF LoginUnlock, GotoLogin, Served, UnlockLabels
      <4> QED BY <2>6, <4>1, <4>2, <4>3, <4>4, <4>5, <4>6 DEF Login
    <3> QED BY <3>1
  <2>7. B(s)
    BY <1>1, <2>2, <2>3, <2>4, <2>5, <2>6 DEF Ending
  <2> HIDE DEF B
  <2> QED BY <1>g, <2>1, <2>7
<1>2. ASSUME NEW h \in Requests, KickRequest(h) \/ Handler(h) PROVE ServedBound'
  <2>1. UNCHANGED login
    BY <1>2, HandlerFrame
  <2>2. UNCHANGED cancel \/ \E s : cancel' = [cancel EXCEPT ![s] = "called"]
    BY <1>2, Zenon DEF KickRequest, Handler, RequestFails, HandlerLoad, HandlerUnlock, HandlerSend,
       HandlerClose, HandlerWait, BeginClose, sessionVars
  <2> QED BY <1>t, <1>b, <2>1, <2>2
<1>3. ASSUME NEW p \in Peers, Crash(p) \/ Restart(p) \/ StopBegin(p) \/ Stopping(p) PROVE ServedBound'
  <2>1. CASE Die(p)
    <3>1. ASSUME NEW q \in Streams PROVE B(q)
      <4>1. CASE HallOf[q] = p
        <5>1. login'[q] \in {"new", "dead"}
          BY <2>1, <4>1 DEF Die
        <5> QED BY <5>1 DEF Served
      <4>2. CASE HallOf[q] # p
        BY <1>0, <2>1, <4>2 DEF Die
      <4> QED BY <4>1, <4>2
    <3> HIDE DEF B
    <3> QED BY <1>g, <3>1
  <2>2. CASE UNCHANGED <<threadVars, sessionVars, dictVars>>
    BY <1>b, <2>2 DEF threadVars, sessionVars
  <2>3. ASSUME NEW s \in Streams, BeginClose(s), UNCHANGED login PROVE ServedBound'
    BY <1>t, <1>b, <2>3 DEF BeginClose
  <2> QED BY <1>3, <2>1, <2>2, <2>3, HallFrame
<1>4. CASE UNCHANGED vars
  BY <1>b, <1>4 DEF vars, threadVars, sessionVars
<1>5. ASSUME NEW k \in Kicks, KickRequest(k) PROVE ServedBound'
  BY <1>2, <1>5 DEF Requests
<1>6. CASE Next
  BY <1>1, <1>2, <1>3, <1>5, <1>6, Zenon DEF Next
<1> QED BY <1>4, <1>6

\* The sessions the stop loop has yet to close.
LEMMA ToCloseStep ==
    ASSUME DictType, StopShape, EntryShape, ToCloseServed, [Next]_vars
    PROVE  ToCloseServed'
<1>t. /\ toClose \in [Peers -> SUBSET Streams] /\ login \in [Streams -> LoginLabels]
      /\ dict \in [Peers -> [Users -> Streams \cup {NoStream}]]
  BY DEF DictType
<1> DEFINE Collected(p) == {dict[p][u] : u \in Users} \ {NoStream}
           R == \A p \in Peers : \/ toClose'[p] \subseteq toClose[p]
                                 \/ stopAt[p] = "range" /\ toClose'[p] = Collected(p)
<1>1. R
  <2>0. ASSUME UNCHANGED toClose PROVE R
    BY <2>0
  <2>1. ASSUME NEW s \in Streams,
               ClientStream(s) \/ Login(s) \/ ClientReads(s) \/ ClientGone(s) \/ Ending(s) \/ Closing(s)
        PROVE  R
    BY <2>0, <2>1, StreamFrame DEF stopVars
  <2>2. ASSUME NEW h \in Requests, KickRequest(h) \/ Handler(h) PROVE R
    BY <2>0, <2>2, HandlerFrame DEF stopVars
  <2>3. ASSUME NEW p \in Peers, Crash(p) \/ Restart(p) \/ StopBegin(p) \/ Stopping(p) PROVE R
    <3>1. ASSUME Die(p) PROVE R
      BY <1>t, <3>1 DEF Die
    <3>2. ASSUME StopRange(p) PROVE R
      BY <1>t, <3>2 DEF StopRange
    <3>3. ASSUME NEW s \in Streams, StopClose(p, s) PROVE R
      <4>1. \/ Die(p) \/ toClose' = [toClose EXCEPT ![p] = @ \ {s}]
        BY <3>3, Zenon DEF StopClose
      <4> QED BY <1>t, <3>1, <4>1
    <3> HIDE DEF R
    <3>4. ASSUME NEW u \in Users, Unregister(p, u) PROVE R
      BY <2>0, <3>4, Zenon DEF Unregister, stopVars
    <3>5. ASSUME Restart(p) \/ StopBegin(p) \/ StopWait(p) \/ StopCheck(p) PROVE R
      BY <2>0, <3>5, Zenon DEF Restart, StopBegin, StopWait, StopCheck
    <3> QED BY <2>3, <3>1, <3>2, <3>3, <3>4, <3>5 DEF Crash, Stopping, Exit
  <2> HIDE DEF R
  <2>4. ASSUME UNCHANGED vars PROVE R
    BY <2>0, <2>4 DEF vars, stopVars
  <2>5. ASSUME NEW k \in Kicks, KickRequest(k) PROVE R
    BY <2>2, <2>5 DEF Requests
  <2>6. ASSUME Next PROVE R
    BY <2>1, <2>2, <2>3, <2>5, <2>6, Zenon DEF Next
  <2> QED BY <2>4, <2>6
<1>2. ASSUME NEW p \in Peers, Die(p) PROVE toClose'[p] = {}
  BY <1>t, <1>2 DEF Die
<1>3. ASSUME NEW p \in Peers, NEW s \in toClose'[p] PROVE HallOf[s] = p /\ login'[s] \in Served
  <2>1. s \in Streams /\ HallOf[s] = p /\ login[s] \in Served
    <3>1. CASE s \in toClose[p]
      BY <1>t, <3>1 DEF ToCloseServed
    <3>2. CASE stopAt[p] = "range" /\ s \in Collected(p)
      <4>1. PICK u \in Users : s = dict[p][u] /\ s # NoStream
        BY <3>2
      <4>2. s \in Streams /\ HallOf[s] = p /\ login[s] \in Live
        BY <1>t, <4>1 DEF EntryShape
      <4>3. ~InLogin(s)
        BY <3>2, <4>2 DEF StopShape
      <4> QED BY <4>2, <4>3 DEF InLogin, Live
    <3> QED BY <1>1, <1>3, <3>1, <3>2
  <2>2. ~Die(HallOf[s])
    BY <1>2, <1>3, <2>1
  <2>3. login[s] \in Live
    BY <2>1 DEF Live
  <2> QED BY <2>1, <2>2, <2>3, LiveStep
<1> QED BY <1>3 DEF ToCloseServed

\* SaveIInv is inductive, given DictIInv, when no login runs into a stop.
LEMMA SaveStep ==
    ASSUME "stop_in_login" \notin Env, DictIInv, SaveIInv, [Next]_vars
    PROVE  SaveIInv'
<1>1. DictType /\ DictCounted
  BY TypeSplit DEF DictIInv
<1> QED BY <1>1, StopShapeStep, EntryStep, BoundStep, ToCloseStep DEF SaveIInv

\* A hall goes down by a crash, by the panic of the stop loop, or by its exit;
\* with a context in every session it closes the second does not happen.
LEMMA DownSaved ==
    ASSUME SafeStop, DictType, SaveIInv, [Next]_vars, NEW p \in Peers,
           phase[p] # "down", phase'[p] = "down"
    PROVE  \A s \in Streams : HallOf[s] = p => ~Playing(s)
<1>t. phase \in [Peers -> {"down", "up", "stopping", "stopped"}]
  BY DEF DictType
<1>1. ~UNCHANGED phase
  OBVIOUS
<1>2. ~\E s \in Streams : ClientStream(s) \/ Login(s) \/ ClientReads(s) \/ ClientGone(s) \/ Ending(s) \/ Closing(s)
  BY <1>1, StreamFrame DEF stopVars
<1>3. ~\E h \in Requests : KickRequest(h) \/ Handler(h)
  BY <1>1, HandlerFrame DEF stopVars
<1>4. ~\E k \in Kicks : KickRequest(k)
  BY <1>3 DEF Requests
<1>5. ~UNCHANGED vars
  BY <1>1 DEF vars, stopVars
<1>6. PICK q \in Peers : Crash(q) \/ Restart(q) \/ StopBegin(q) \/ Stopping(q)
  BY <1>2, <1>3, <1>4, <1>5, Zenon DEF Next
<1>7. ~Crash(q)
  BY DEF SafeStop, Crash
<1>8. ~Restart(q) /\ ~StopBegin(q) /\ ~StopCheck(q)
  BY <1>t DEF Restart, StopBegin, StopCheck
<1>9. ~StopRange(q) /\ ~StopWait(q) /\ ~\E u \in Users : Unregister(q, u)
  BY <1>1, Zenon DEF StopRange, StopWait, Unregister, stopVars
<1>10. ~\E s \in Streams : StopClose(q, s)
  <2> SUFFICES ASSUME NEW s \in Streams, StopClose(q, s) PROVE FALSE
    OBVIOUS
  <2>1. s \in toClose[q] /\ cancel[s] = "nil"
    BY <1>1, Zenon DEF StopClose
  <2> QED BY <2>1 DEF SaveIInv, ToCloseServed, ServedBound
<1>11. Exit(q)
  BY <1>6, <1>7, <1>8, <1>9, <1>10, Zenon DEF Stopping
<1>12. q = p /\ phase[p] = "stopped"
  BY <1>t, <1>11 DEF Exit, Die
<1>13. \A u \in Users : dict[p][u] = NoStream
  BY <1>12 DEF SaveIInv, StopShape
<1> QED BY <1>13 DEF Playing

\* A hall that is stopped, and not crashed, ends with no player in play
\* (hall.go:78-112): its loop closes the sessions until none is left, and
\* closing one never panics.
THEOREM StoppedHallSaves ==
    ASSUME SafeStop
    PROVE  Spec => ExitSaves
<1>1. Init => SaveIInv
  <2> SUFFICES ASSUME Init PROVE SaveIInv
    OBVIOUS
  <2>1. StopShape
    BY DEF Init, StopShape
  <2>2. EntryShape
    BY DEF Init, EntryShape
  <2>3. ServedBound
    BY DEF Init, ServedBound, Served
  <2>4. ToCloseServed
    BY DEF Init, ToCloseServed
  <2> QED BY <2>1, <2>2, <2>3, <2>4 DEF SaveIInv
<1>2. DictIInv /\ SaveIInv /\ [Next]_vars => SaveIInv'
  BY SaveStep DEF SafeStop
<1>3. DictIInv /\ SaveIInv /\ [Next]_vars =>
        [\A p \in Peers : phase[p] # "down" /\ phase'[p] = "down" =>
            \A s \in Streams : HallOf[s] = p => ~Playing(s)]_vars
  <2> SUFFICES ASSUME DictIInv, SaveIInv, [Next]_vars
               PROVE  \A p \in Peers : phase[p] # "down" /\ phase'[p] = "down" =>
                         \A s \in Streams : HallOf[s] = p => ~Playing(s)
    OBVIOUS
  <2>1. DictType
    BY TypeSplit DEF DictIInv
  <2> QED BY <2>1, DownSaved
<1> QED BY <1>1, <1>2, <1>3, DictInvariant, PTL DEF Spec, ExitSaves
==============================================================================
