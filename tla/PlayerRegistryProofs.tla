------------------------ MODULE PlayerRegistryProofs ------------------------
(***************************************************************************)
(* Proofs about PlayerRegistry, for any number of peers, application       *)
(* types, users and goroutines and any revision bound.                     *)
(***************************************************************************)
EXTENDS PlayerRegistry, TLAPS

USE PlayerKeysAssumption, PlayerRegistryAssumption

-----------------------------------------------------------------------------
(* Types.                                                                  *)

\* The three transactions keep the types of the keys.
LEMMA LockTxnType ==
    ASSUME KeysTypeOK, NEW p \in Peers, NEW u \in Users, LockTxn(p, u)
    PROVE  /\ rev' = rev + 1 /\ rev' \in Nat
           /\ userKey' \in [Users -> Key]
           /\ peerKey' \in [Types -> [Users -> Key]]
           /\ localKey' \in [Peers -> [Users -> Nat]]
  BY DEF KeysTypeOK, LockTxn, Put, Key

\* The three OpDelete of an unlock keep the types of the keys.
LEMMA DeleteKeysType ==
    ASSUME KeysTypeOK, NEW p \in Peers, NEW u \in Users, DeleteKeys(p, u)
    PROVE  /\ rev' = rev + 1 /\ rev' \in Nat
           /\ userKey' \in [Users -> Key]
           /\ peerKey' \in [Types -> [Users -> Key]]
           /\ localKey' \in [Peers -> [Users -> Nat]]
  BY DEF KeysTypeOK, DeleteKeys, Absent, Key

\* localPlayers.Store and Delete keep the type of localPlayers.
LEMMA SetEntryType ==
    ASSUME KeysTypeOK, NEW p \in Peers, NEW u \in Users, NEW r \in Nat, SetEntry(p, u, r)
    PROVE  localPlayers' \in [Peers -> [Users -> Nat]]
  BY DEF KeysTypeOK, SetEntry

\* What TypeOK says of the goroutines, and how the two ends of a call keep it.
ProcsTypeOK ==
    /\ pc \in [Procs -> {"idle", "lock_store", "unlock_txn", "unlock_delete",
                         "where_get"}]
    /\ user \in [Procs -> Users \cup {NoUser}]
    /\ held \in [Procs -> Nat]
    /\ ret \in [Procs -> Peers \cup {NoPeer}]
    /\ \A g \in Procs :
          /\ pc[g] = "idle" <=> user[g] = NoUser
          /\ pc[g] \in {"lock_store", "unlock_txn", "unlock_delete"} => held[g] # 0

StopTypeOK ==
    /\ phase \in [Peers -> {"down", "up", "stopping", "stopped"}]
    /\ toVisit \in [Peers -> SUBSET Users]
    /\ visiting \in [Peers -> Users \cup {NoUser}]
    /\ quiet \in [Peers -> BOOLEAN]

\* TypeOK in three parts, one per group of variables.
LEMMA TypeOKSplit == TypeOK <=> KeysTypeOK /\ ProcsTypeOK /\ StopTypeOK
  BY DEF TypeOK, ProcsTypeOK, StopTypeOK

\* A goroutine that goes on inside a call keeps the goroutines' types.
LEMMA GotoType ==
    ASSUME ProcsTypeOK, NEW g \in Procs, NEW u \in Users, NEW r \in Nat,
           NEW l \in {"lock_store", "unlock_txn", "unlock_delete", "where_get"},
           l # "where_get" => r # 0, Goto(g, l, u, r)
    PROVE  ProcsTypeOK'
  BY DEF ProcsTypeOK, Goto

\* A goroutine whose call returns keeps the goroutines' types.
LEMMA ReturnType ==
    ASSUME ProcsTypeOK, NEW g \in Procs, NEW p \in Peers \cup {NoPeer}, Return(g, p)
    PROVE  ProcsTypeOK'
  BY DEF ProcsTypeOK, Return

\* Noting a call that overlaps a stop keeps the types of the stop.
LEMMA NoteCallType ==
    ASSUME StopTypeOK, NEW g \in Procs, NoteCall(g)
    PROVE  StopTypeOK'
  BY DEF StopTypeOK, NoteCall

\* GetPeer answers a peer or nil.
LEMMA GetPeerType ==
    ASSUME NEW q \in Peers \cup {NoPeer}, NEW p \in GetPeer(q)
    PROVE  p \in Peers \cup {NoPeer}
  BY DEF GetPeer

\* A goroutine in the middle of a call has a user.
LEMMA BusyUser ==
    ASSUME ProcsTypeOK, NEW g \in Procs, pc[g] # "idle"
    PROVE  user[g] \in Users
  BY DEF ProcsTypeOK

\* A step that touches neither etcd nor localPlayers keeps their types.
LEMMA KeysUnchanged ==
    ASSUME KeysTypeOK, UNCHANGED <<keyVars, localPlayers>>
    PROVE  KeysTypeOK'
  BY DEF KeysTypeOK, keyVars

\* A step of no goroutine keeps the goroutines' types.
LEMMA ProcsUnchanged ==
    ASSUME ProcsTypeOK, UNCHANGED procVars
    PROVE  ProcsTypeOK'
  BY DEF ProcsTypeOK, procVars

\* A step outside start, stop and exit keeps the types of the stop.
LEMMA StopUnchanged ==
    ASSUME StopTypeOK, UNCHANGED stopVars
    PROVE  StopTypeOK'
  BY DEF StopTypeOK, stopVars

\* Every step of the registry keeps every type.
LEMMA TypeStep == TypeOK /\ [Next]_vars => TypeOK'
<1> SUFFICES ASSUME KeysTypeOK, ProcsTypeOK, StopTypeOK, [Next]_vars
             PROVE  KeysTypeOK' /\ ProcsTypeOK' /\ StopTypeOK'
  BY TypeOKSplit, PTL
<1>1. ASSUME NEW g \in Procs, NEW u \in Users, Call(g, u)
      PROVE  KeysTypeOK' /\ ProcsTypeOK' /\ StopTypeOK'
  <2> HostOf[g] \in Peers
    OBVIOUS
  <2>0. StopTypeOK'
    BY <1>1, NoteCallType DEF Call, LockSucceeds, LockRefused, LockCommitFails,
       UnlockLoad, UnlockNotFound, WhereIsLocal, WhereLoad
  <2>1. CASE LockSucceeds(g, u)
    <3>1. KeysTypeOK'
      BY <2>1, LockTxnType DEF LockSucceeds, KeysTypeOK
    <3>2. rev + 1 \in Nat /\ rev + 1 # 0
      BY DEF KeysTypeOK
    <3>3. ProcsTypeOK'
      BY <2>1, <3>2, GotoType DEF LockSucceeds
    <3> QED BY <2>0, <3>1, <3>3
  <2>2. CASE LockRefused(g, u)
    <3>1. Holder(HostOf[g], u) \in Peers \cup {NoPeer}
      BY DEF Holder, KeysTypeOK, Key
    <3>2. ProcsTypeOK'
      BY <2>2, <3>1, GetPeerType, ReturnType DEF LockRefused
    <3> QED BY <2>0, <2>2, <3>2, KeysUnchanged DEF LockRefused
  <2>3. CASE LockCommitFails(g, u)
    <3>1. KeysTypeOK'
      BY <2>3, LockTxnType DEF LockCommitFails, KeysTypeOK, keyVars
    <3>2. ProcsTypeOK'
      BY <2>3, ReturnType DEF LockCommitFails
    <3> QED BY <2>0, <3>1, <3>2
  <2>4. CASE UnlockLoad(g, u)
    <3>1. localPlayers[HostOf[g]][u] \in Nat
      BY DEF KeysTypeOK
    <3>2. ProcsTypeOK'
      BY <2>4, <3>1, GotoType DEF UnlockLoad
    <3> QED BY <2>0, <2>4, <3>2, KeysUnchanged DEF UnlockLoad
  <2>5. CASE UnlockNotFound(g, u)
    BY <2>0, <2>5, KeysUnchanged, ReturnType DEF UnlockNotFound
  <2>6. CASE WhereIsLocal(g, u)
    BY <2>0, <2>6, KeysUnchanged, ReturnType DEF WhereIsLocal
  <2>7. CASE WhereLoad(g, u)
    BY <2>0, <2>7, KeysUnchanged, GotoType DEF WhereLoad
  <2> QED BY <1>1, <2>1, <2>2, <2>3, <2>4, <2>5, <2>6, <2>7 DEF Call
<1>2. ASSUME NEW g \in Procs, Continue(g)
      PROVE  KeysTypeOK' /\ ProcsTypeOK' /\ StopTypeOK'
  <2> DEFINE p == HostOf[g]
  <2> p \in Peers
    OBVIOUS
  <2>0. StopTypeOK' /\ user[g] \in Users /\ held[g] \in Nat
    <3>1. pc[g] # "idle"
      BY <1>2 DEF Continue, LockStore, UnlockSucceeds, UnlockRefused,
         UnlockCommitFails, UnlockDelete, WhereGet
    <3>2. CASE UNCHANGED stopVars
      BY <3>1, <3>2, BusyUser, StopUnchanged DEF ProcsTypeOK
    <3>3. CASE UnlockDelete(g)
      <4>1. StopTypeOK'
        BY <3>3 DEF UnlockDelete, StopTypeOK
      <4> QED BY <3>1, <4>1, BusyUser DEF ProcsTypeOK
    <3> QED BY <1>2, <3>2, <3>3 DEF Continue, LockStore, UnlockSucceeds, UnlockRefused,
           UnlockCommitFails, WhereGet
  <2>h. Holder(p, user[g]) \in Peers \cup {NoPeer}
    BY <2>0 DEF Holder, KeysTypeOK, Key
  <2> HIDE DEF p
  <2>1. CASE LockStore(g)
    <3>1. KeysTypeOK'
      BY <2>0, <2>1, SetEntryType DEF LockStore, KeysTypeOK, keyVars, p
    <3> QED BY <2>0, <2>1, <3>1, ReturnType DEF LockStore
  <2>2. CASE UnlockSucceeds(g)
    <3>1. KeysTypeOK'
      BY <2>0, <2>2, DeleteKeysType DEF UnlockSucceeds, UnlockTxn, KeysTypeOK
    <3>2. held[g] # 0
      BY <2>2 DEF UnlockSucceeds, ProcsTypeOK
    <3> QED BY <2>0, <2>2, <3>1, <3>2, GotoType DEF UnlockSucceeds
  <2>3. CASE UnlockRefused(g)
    <3>1. ProcsTypeOK'
      BY <2>h, <2>3, GetPeerType, ReturnType DEF UnlockRefused, p
    <3> QED BY <2>0, <2>3, <3>1, KeysUnchanged DEF UnlockRefused
  <2>4. CASE UnlockCommitFails(g)
    <3>1. KeysTypeOK'
      BY <2>0, <2>4, DeleteKeysType DEF UnlockCommitFails, UnlockTxn, KeysTypeOK, keyVars
    <3> QED BY <2>0, <2>4, <3>1, ReturnType DEF UnlockCommitFails
  <2>5. CASE UnlockDelete(g)
    <3>1. KeysTypeOK'
      BY <2>0, <2>5, SetEntryType DEF UnlockDelete, KeysTypeOK, keyVars
    <3> QED BY <2>0, <2>5, <3>1, ReturnType DEF UnlockDelete
  <2>6. CASE WhereGet(g)
    <3>1. userKey[user[g]].value \in Peers \cup {NoPeer}
      BY <2>0 DEF KeysTypeOK, Key
    <3>2. ProcsTypeOK'
      BY <2>6, <3>1, GetPeerType, ReturnType DEF WhereGet
    <3> QED BY <2>0, <2>6, <3>2, KeysUnchanged DEF WhereGet
  <2> QED BY <1>2, <2>1, <2>2, <2>3, <2>4, <2>5, <2>6 DEF Continue
<1>3. ASSUME NEW p \in Peers, Life(p)
      PROVE  KeysTypeOK' /\ ProcsTypeOK' /\ StopTypeOK'
  <2>1. CASE Start(p)
    BY <2>1, ProcsUnchanged DEF Start, Recovered, KeysTypeOK, keyVars, StopTypeOK
  <2>2. CASE StopBegin(p)
    BY <2>2, ProcsUnchanged, KeysUnchanged DEF StopBegin, StopTypeOK
  <2>3. ASSUME NEW u \in Users, StopPick(p, u)
        PROVE  KeysTypeOK' /\ ProcsTypeOK' /\ StopTypeOK'
    BY <2>3, ProcsUnchanged, KeysUnchanged DEF StopPick, StopTypeOK
  <2>4. CASE StopCommit(p)
    <3>1. KeysTypeOK'
      BY <2>4, DeleteKeysType DEF StopCommit, UnregisterTxn, KeysTypeOK, keyVars, StopTypeOK
    <3>2. StopTypeOK'
      BY <2>4 DEF StopCommit, StopTypeOK
    <3> QED BY <2>4, <3>1, <3>2, ProcsUnchanged DEF StopCommit
  <2>5. CASE StopEnd(p)
    BY <2>5, ProcsUnchanged, KeysUnchanged DEF StopEnd, StopTypeOK
  <2>6. CASE Exit(p)
    <3>1. KeysTypeOK' /\ StopTypeOK'
      BY <2>6 DEF Exit, KeysTypeOK, keyVars, StopTypeOK
    <3>2. ProcsTypeOK'
      BY <2>6 DEF Exit, ProcsTypeOK
    <3> QED BY <3>1, <3>2
  <2> QED BY <1>3, <2>1, <2>2, <2>3, <2>4, <2>5, <2>6 DEF Life
<1>4. CASE UNCHANGED vars
  BY <1>4, KeysUnchanged, ProcsUnchanged, StopUnchanged DEF vars
<1> QED BY <1>1, <1>2, <1>3, <1>4 DEF Next

\* The empty registry has the types.
LEMMA TypeInit == Init => TypeOK
  BY DEF Init, TypeOK, KeysInit, KeysTypeOK, Absent, Key

\* Every variable of the registry keeps its type, and a goroutine inside a
\* call always has the user, and where the code uses it the revision, that
\* the call is about.
THEOREM TypeCorrect == Spec => []TypeOK
  BY TypeInit, TypeStep, PTL DEF Spec

-----------------------------------------------------------------------------
(* The keys.                                                               *)

KeyInv == KeysTypeOK /\ LocalKeyIsLock /\ LockIsLocalKey /\ UserKeyNamesHolder

\* A peer that does not find the lock of its type taken has no local key.
LEMMA UnlockedNoLocalKey ==
    ASSUME KeyInv, NEW p \in Peers, NEW u \in Users, ~Locked(p, u)
    PROVE  localKey[p][u] = 0
  BY DEF KeyInv, LocalKeyIsLock, Locked, KeysTypeOK

\* The lock transaction keeps the keys consistent and gives p the lock.
LEMMA LockTxnKeeps ==
    ASSUME KeyInv, NEW p \in Peers, NEW u \in Users, LockTxn(p, u)
    PROVE  /\ LocalKeyIsLock' /\ LockIsLocalKey' /\ UserKeyNamesHolder'
           /\ localKey[p][u] = 0
           /\ localKey' = [localKey EXCEPT ![p][u] = rev + 1]
<1>0. localKey[p][u] = 0
  BY UnlockedNoLocalKey DEF LockTxn
<1>1. /\ localKey' = [localKey EXCEPT ![p][u] = rev + 1]
      /\ peerKey' = [peerKey EXCEPT ![TypeOf[p]][u] = [value |-> p, create |-> rev + 1]]
      /\ rev + 1 # 0
  <2>1. Put(peerKey[TypeOf[p]][u], p, rev + 1) = [value |-> p, create |-> rev + 1]
    BY DEF LockTxn, Locked, Put
  <2>2. localKey' = [localKey EXCEPT ![p][u] = rev + 1]
    BY <1>0 DEF LockTxn
  <2>3. peerKey' = [peerKey EXCEPT ![TypeOf[p]][u] = [value |-> p, create |-> rev + 1]]
    BY <2>1 DEF LockTxn
  <2> QED BY <2>2, <2>3 DEF KeyInv, KeysTypeOK
<1>2. \A q \in Peers, v \in Users : localKey[q][v] # 0 => ~(TypeOf[q] = TypeOf[p] /\ v = u)
  BY DEF KeyInv, LocalKeyIsLock, LockTxn, Locked, KeysTypeOK
<1>3. LocalKeyIsLock'
  BY <1>1, <1>2 DEF KeyInv, LocalKeyIsLock, Holder, KeysTypeOK, Key
<1>4. LockIsLocalKey'
  BY <1>0, <1>1 DEF KeyInv, LockIsLocalKey, KeysTypeOK, Key
<1>5. UserKeyNamesHolder'
  <2>1. userKey' = [userKey EXCEPT ![u] = Put(userKey[u], p, rev + 1)]
    BY DEF LockTxn
  <2>2. \A q \in Peers, v \in Users : localKey[q][v] # 0 => localKey'[q][v] # 0
    BY <1>1, <1>0 DEF KeyInv, KeysTypeOK
  <2>3. \A v \in Users : v # u => userKey'[v] = userKey[v]
    BY <2>1 DEF KeyInv, KeysTypeOK
  <2>4. userKey'[u].value = p /\ localKey'[p][u] # 0
    BY <2>1, <1>1 DEF KeyInv, KeysTypeOK, Put
  <2> QED BY <2>2, <2>3, <2>4 DEF KeyInv, UserKeyNamesHolder
<1> QED BY <1>0, <1>1, <1>3, <1>4, <1>5

\* Deleting the three keys keeps them consistent, provided p has the local
\* key: then the lock it deletes is its own.
LEMMA DeleteKeysKeeps ==
    ASSUME KeyInv, NEW p \in Peers, NEW u \in Users, localKey[p][u] # 0,
           DeleteKeys(p, u)
    PROVE  LocalKeyIsLock' /\ LockIsLocalKey' /\ UserKeyNamesHolder'
<1>1. /\ localKey' = [localKey EXCEPT ![p][u] = 0]
      /\ peerKey' = [peerKey EXCEPT ![TypeOf[p]][u] = Absent]
      /\ userKey' = [userKey EXCEPT ![u] = Absent]
  BY DEF DeleteKeys
<1>2. \A q \in Peers, v \in Users :
         localKey'[q][v] # 0 => localKey[q][v] # 0 /\ ~(TypeOf[q] = TypeOf[p] /\ v = u)
  <2> SUFFICES ASSUME NEW q \in Peers, NEW v \in Users, localKey'[q][v] # 0
               PROVE  localKey[q][v] # 0 /\ ~(TypeOf[q] = TypeOf[p] /\ v = u)
    OBVIOUS
  <2>1. localKey[q][v] # 0 /\ ~(q = p /\ v = u)
    BY <1>1 DEF KeyInv, KeysTypeOK
  <2>2. Holder(q, v) = q /\ Holder(p, u) = p
    BY <2>1 DEF KeyInv, LocalKeyIsLock
  <2> QED BY <2>1, <2>2 DEF Holder
<1>3. LocalKeyIsLock'
  BY <1>1, <1>2 DEF KeyInv, LocalKeyIsLock, Holder, KeysTypeOK, Key
<1>4. LockIsLocalKey'
  BY <1>1 DEF KeyInv, LockIsLocalKey, KeysTypeOK, Key, Absent
<1>5. UserKeyNamesHolder'
  BY <1>1 DEF KeyInv, UserKeyNamesHolder, KeysTypeOK, Key, Absent
<1> QED BY <1>3, <1>4, <1>5

\* Without a transaction the keys stay consistent.
LEMMA NoTxnKeeps ==
    ASSUME KeyInv, UNCHANGED keyVars
    PROVE  LocalKeyIsLock' /\ LockIsLocalKey' /\ UserKeyNamesHolder'
  BY DEF KeyInv, LocalKeyIsLock, LockIsLocalKey, UserKeyNamesHolder, Holder, keyVars

-----------------------------------------------------------------------------
(* The revisions the peers know.                                           *)

\* A revision that a peer knows is not from the future.
LEMMA KnownIsPast ==
    ASSUME TypeOK, RevisionsPast, NEW p \in Peers, NEW u \in Users, NEW r \in Nat,
           Knows(p, u, r)
    PROVE  r <= rev
  BY DEF TypeOK, KeysTypeOK, RevisionsPast, Knows

\* RevisionIsOwn survives a step in which peers only learn the revision of
\* their own local key, and in which a user key that keeps its revision
\* leaves the local key of that revision alone.
LEMMA OwnStep ==
    ASSUME TypeOK, RevisionsPast, RevisionIsOwn,
           rev' \in Nat,
           \A p \in Peers, u \in Users, r \in 1..rev' :
              Knows(p, u, r)' => Knows(p, u, r) \/ localKey'[p][u] = r,
           \A p \in Peers, u \in Users, r \in 1..rev :
              userKey'[u].create = r =>
                 userKey[u].create = r /\ (localKey[p][u] = r => localKey'[p][u] = r)
    PROVE  RevisionIsOwn'
<1> SUFFICES ASSUME NEW p \in Peers, NEW u \in Users, NEW r \in 1..rev',
                    Knows(p, u, r)', userKey'[u].create = r, localKey'[p][u] # r
             PROVE  FALSE
  BY DEF RevisionIsOwn
<1>1. Knows(p, u, r)
  OBVIOUS
<1>2. r \in 1..rev
  BY <1>1, KnownIsPast DEF TypeOK, KeysTypeOK
<1> QED BY <1>1, <1>2 DEF RevisionIsOwn

\* After a lock, a /user key either has the new revision or the one it had,
\* and no local key lost its revision.
LEMMA LockTxnOwn ==
    ASSUME TypeOK, KeyInv, RevisionsPast, NEW p \in Peers, NEW u \in Users, LockTxn(p, u)
    PROVE  \A q \in Peers, v \in Users, r \in 1..rev :
              userKey'[v].create = r =>
                 userKey[v].create = r /\ (localKey[q][v] = r => localKey'[q][v] = r)
  BY LockTxnKeeps DEF LockTxn, Put, TypeOK, KeysTypeOK, Key

\* After the three deletes, a /user key that still exists is as it was, and
\* so are the local keys of other users.
LEMMA DeleteKeysOwn ==
    ASSUME TypeOK, NEW p \in Peers, NEW u \in Users, DeleteKeys(p, u)
    PROVE  \A q \in Peers, v \in Users, r \in 1..rev :
              userKey'[v].create = r =>
                 userKey[v].create = r /\ (localKey[q][v] = r => localKey'[q][v] = r)
  BY DEF DeleteKeys, Absent, TypeOK, KeysTypeOK, Key

\* Without a transaction the keys have the revisions they had.
LEMMA NoTxnOwn ==
    ASSUME UNCHANGED keyVars
    PROVE  \A q \in Peers, v \in Users, r \in 1..rev :
              userKey'[v].create = r =>
                 userKey[v].create = r /\ (localKey[q][v] = r => localKey'[q][v] = r)
  BY DEF keyVars

\* The transactions give keys the new revision at most.
KeysPast ==
    /\ \A v \in Users : userKey[v].create <= rev
    /\ \A q \in Peers, v \in Users : localKey[q][v] <= rev

\* A lock writes the revision the store moves to, none beyond it.
LEMMA LockTxnPast ==
    ASSUME TypeOK, RevisionsPast, NEW p \in Peers, NEW u \in Users, LockTxn(p, u)
    PROVE  KeysPast' /\ rev' = rev + 1 /\ rev \in Nat
  BY DEF LockTxn, Put, KeysPast, RevisionsPast, TypeOK, KeysTypeOK, Key

\* The deletes write no revision.
LEMMA DeleteKeysPast ==
    ASSUME TypeOK, RevisionsPast, NEW p \in Peers, NEW u \in Users, DeleteKeys(p, u)
    PROVE  KeysPast' /\ rev' = rev + 1 /\ rev \in Nat
<1>1. rev' = rev + 1 /\ rev \in Nat
  BY DEF DeleteKeys, TypeOK, KeysTypeOK
<1>2. \A v \in Users : userKey'[v].create \in Nat /\ userKey'[v].create \in {0, userKey[v].create}
  BY DEF DeleteKeys, Absent, TypeOK, KeysTypeOK, Key
<1>3. \A q \in Peers, v \in Users :
         localKey[q][v] \in Nat /\ localKey'[q][v] \in {0, localKey[q][v]}
  BY DEF DeleteKeys, TypeOK, KeysTypeOK
<1>4. \A v \in Users : userKey'[v].create <= rev'
  BY <1>1, <1>2 DEF RevisionsPast
<1>5. \A q \in Peers, v \in Users : localKey'[q][v] <= rev'
  <2> SUFFICES ASSUME NEW q \in Peers, NEW v \in Users PROVE localKey'[q][v] <= rev'
    OBVIOUS
  <2>1. localKey[q][v] \in Nat /\ localKey[q][v] <= rev
    BY <1>3 DEF RevisionsPast
  <2> QED BY <1>1, <1>3, <2>1
<1> QED BY <1>1, <1>4, <1>5 DEF KeysPast

\* What a goroutine, and so its peer, learns at the two ends of a call.
LEMMA GotoKnows ==
    ASSUME TypeOK, NEW g \in Procs, NEW l, NEW u \in Users, NEW r \in Nat,
           Goto(g, l, u, r), UNCHANGED localPlayers
    PROVE  \A q \in Peers, v \in Users, s \in Nat :
              Knows(q, v, s)' => Knows(q, v, s) \/ (q = HostOf[g] /\ v = u /\ s = r)
  BY DEF Goto, Knows, TypeOK, KeysTypeOK

\* A peer learns no revision when a call returns.
LEMMA ReturnKnows ==
    ASSUME TypeOK, NEW g \in Procs, NEW p, Return(g, p), UNCHANGED localPlayers
    PROVE  \A q \in Peers, v \in Users, s \in Nat : Knows(q, v, s)' => Knows(q, v, s)
  BY DEF Return, Knows, TypeOK, KeysTypeOK

\* Storing a revision the goroutine has, or removing the entry.
LEMMA SetEntryKnows ==
    ASSUME TypeOK, NEW g \in Procs, NEW p, Return(g, p), NEW r \in Nat,
           pc[g] \in {"lock_store", "unlock_delete"}, r \in {0, held[g]},
           SetEntry(HostOf[g], user[g], r)
    PROVE  \A q \in Peers, v \in Users, s \in Nat \ {0} :
              Knows(q, v, s)' => Knows(q, v, s)
  BY DEF Return, SetEntry, Knows, TypeOK, KeysTypeOK

\* The revision of a goroutine about to unlock: if the user key has it, the
\* local key of the goroutine's peer has it, so the unlock deletes a lock
\* that this peer holds.
LEMMA UnlockIsOwn ==
    ASSUME TypeOK, RevisionsPast, RevisionIsOwn, NEW g \in Procs,
           pc[g] = "unlock_txn", Unlockable(user[g], held[g])
    PROVE  /\ HostOf[g] \in Peers /\ user[g] \in Users
           /\ localKey[HostOf[g]][user[g]] = held[g] /\ held[g] # 0
<1>1. /\ HostOf[g] \in Peers /\ user[g] \in Users
      /\ held[g] \in Nat \ {0} /\ held[g] <= rev /\ rev \in Nat
  BY DEF TypeOK, KeysTypeOK, RevisionsPast
<1>2. Knows(HostOf[g], user[g], held[g])
  BY DEF Knows
<1> QED BY <1>1, <1>2 DEF RevisionIsOwn, Unlockable

\* The five parts of the invariant that are about keys and revisions.
KeyPart ==
    /\ LocalKeyIsLock /\ LockIsLocalKey /\ UserKeyNamesHolder
    /\ RevisionsPast /\ RevisionIsOwn

\* Every step keeps the keys consistent and every known revision its own
\* peer's: the part of the invariant that commit errors do not weaken.
LEMMA KeyStep == TypeOK /\ TypeOK' /\ KeyPart /\ [Next]_vars => KeyPart'
<1> SUFFICES ASSUME TypeOK, TypeOK', KeyPart, [Next]_vars
             PROVE  KeyPart'
  OBVIOUS
<1>k. KeyInv /\ RevisionsPast /\ RevisionIsOwn
  BY DEF KeyInv, KeyPart, TypeOK
<1>t. rev \in Nat /\ rev' \in Nat /\ KeysTypeOK /\ HostOf \in [Procs -> Peers]
  BY DEF TypeOK, KeysTypeOK
\* A step that touches no key and teaches no peer a new revision.
<1>q. ASSUME UNCHANGED keyVars,
             \A p \in Peers, u \in Users, r \in Nat \ {0} :
                Knows(p, u, r)' => Knows(p, u, r) \/ localKey[p][u] = r,
             RevisionsPast'
      PROVE  KeyPart'
  <2>1. LocalKeyIsLock' /\ LockIsLocalKey' /\ UserKeyNamesHolder'
    BY <1>k, <1>q, NoTxnKeeps
  <2>2. RevisionIsOwn'
    <3>1. \A p \in Peers, u \in Users, r \in 1..rev' :
              Knows(p, u, r)' => Knows(p, u, r) \/ localKey'[p][u] = r
      BY <1>q, <1>t DEF keyVars
    <3> QED BY <1>k, <1>t, <1>q, <3>1, NoTxnOwn, OwnStep
  <2> QED BY <1>q, <2>1, <2>2 DEF KeyPart
<1>1. ASSUME NEW g \in Procs, NEW u \in Users, Call(g, u)
      PROVE  KeyPart'
  <2>0. HostOf[g] \in Peers
    BY <1>t
  <2>l. ASSUME LockTxn(HostOf[g], u), UNCHANGED localPlayers, RevisionsPast',
               \A q \in Peers, v \in Users, s \in Nat :
                  Knows(q, v, s)' =>
                     Knows(q, v, s) \/ (q = HostOf[g] /\ v = u /\ s = rev + 1)
        PROVE  KeyPart'
    <3>1. /\ LocalKeyIsLock' /\ LockIsLocalKey' /\ UserKeyNamesHolder'
          /\ localKey' = [localKey EXCEPT ![HostOf[g]][u] = rev + 1]
      BY <1>k, <2>0, <2>l, LockTxnKeeps
    <3>2. localKey'[HostOf[g]][u] = rev + 1
      BY <2>0, <3>1, <1>t DEF KeysTypeOK
    <3>3. \A q \in Peers, v \in Users, r \in 1..rev' :
              Knows(q, v, r)' => Knows(q, v, r) \/ localKey'[q][v] = r
      BY <1>t, <2>l, <3>2
    <3>4. RevisionIsOwn'
      BY <1>k, <1>t, <2>0, <2>l, <3>3, LockTxnOwn, OwnStep
    <3> QED BY <2>l, <3>1, <3>4 DEF KeyPart
  <2>1. CASE LockSucceeds(g, u)
    <3>1. RevisionsPast'
      BY <2>1, <2>0, <1>t, <1>k DEF LockSucceeds, LockTxn, Put, Goto, RevisionsPast,
         TypeOK, KeysTypeOK, Key
    <3>2. \A q \in Peers, v \in Users, s \in Nat :
             Knows(q, v, s)' =>
                Knows(q, v, s) \/ (q = HostOf[g] /\ v = u /\ s = rev + 1)
      BY <2>1, <1>t, GotoKnows DEF LockSucceeds
    <3> QED BY <2>1, <2>l, <3>1, <3>2 DEF LockSucceeds
  <2>2. CASE LockRefused(g, u)
    <3>1. RevisionsPast'
      BY <2>2, <1>k DEF LockRefused, Return, RevisionsPast, keyVars, TypeOK, KeysTypeOK
    <3> QED BY <2>2, <1>q, <3>1, ReturnKnows DEF LockRefused
  <2>3. CASE LockCommitFails(g, u)
    <3>1. RevisionsPast'
      <4>1. KeysPast' /\ rev' \in {rev, rev + 1}
        BY <2>3, <2>0, <1>t, <1>k, LockTxnPast DEF LockCommitFails, keyVars, KeysPast,
           RevisionsPast
      <4> QED BY <4>1, <2>3, <1>t, <1>k DEF LockCommitFails, Return, KeysPast,
             RevisionsPast, TypeOK, KeysTypeOK
    <3>2. \A q \in Peers, v \in Users, s \in Nat : Knows(q, v, s)' => Knows(q, v, s)
      BY <2>3, ReturnKnows DEF LockCommitFails
    <3> QED BY <2>3, <2>l, <1>q, <3>1, <3>2 DEF LockCommitFails
  <2>4. CASE UnlockLoad(g, u)
    <3>1. localPlayers[HostOf[g]][u] \in Nat
      BY <2>0, <1>t DEF KeysTypeOK
    <3>2. RevisionsPast'
      BY <2>4, <2>0, <1>k DEF UnlockLoad, Goto, RevisionsPast, keyVars, TypeOK, KeysTypeOK
    <3>3. \A q \in Peers, v \in Users, s \in Nat : Knows(q, v, s)' => Knows(q, v, s)
      <4>1. Knows(HostOf[g], u, localPlayers[HostOf[g]][u])
        BY DEF Knows
      <4> QED BY <2>4, <3>1, <4>1, GotoKnows DEF UnlockLoad
    <3> QED BY <2>4, <1>q, <3>2, <3>3 DEF UnlockLoad
  <2>5. CASE UnlockNotFound(g, u)
    <3>1. RevisionsPast'
      BY <2>5, <1>k DEF UnlockNotFound, Return, RevisionsPast, keyVars, TypeOK, KeysTypeOK
    <3> QED BY <2>5, <1>q, <3>1, ReturnKnows DEF UnlockNotFound
  <2>6. CASE WhereIsLocal(g, u)
    <3>1. RevisionsPast'
      BY <2>6, <1>k DEF WhereIsLocal, Return, RevisionsPast, keyVars, TypeOK, KeysTypeOK
    <3> QED BY <2>6, <1>q, <3>1, ReturnKnows DEF WhereIsLocal
  <2>7. CASE WhereLoad(g, u)
    <3>1. RevisionsPast'
      BY <2>7, <1>k DEF WhereLoad, Goto, RevisionsPast, keyVars, TypeOK, KeysTypeOK
    <3>2. \A q \in Peers, v \in Users, s \in Nat \ {0} : Knows(q, v, s)' => Knows(q, v, s)
      BY <2>7, GotoKnows DEF WhereLoad
    <3> QED BY <2>7, <1>q, <3>1, <3>2 DEF WhereLoad
  <2> QED BY <1>1, <2>1, <2>2, <2>3, <2>4, <2>5, <2>6, <2>7 DEF Call
\* A step that deletes the keys of a user that the peer has locked.
<1>d. ASSUME NEW p \in Peers, NEW u \in Users, localKey[p][u] # 0, DeleteKeys(p, u),
             RevisionsPast',
             \A q \in Peers, v \in Users, s \in Nat : Knows(q, v, s)' => Knows(q, v, s)
      PROVE  KeyPart'
  <2>1. LocalKeyIsLock' /\ LockIsLocalKey' /\ UserKeyNamesHolder'
    BY <1>k, <1>d, DeleteKeysKeeps
  <2>2. \A q \in Peers, v \in Users, r \in 1..rev' :
            Knows(q, v, r)' => Knows(q, v, r) \/ localKey'[q][v] = r
    BY <1>t, <1>d
  <2>3. RevisionIsOwn'
    BY <1>k, <1>t, <1>d, <2>2, DeleteKeysOwn, OwnStep
  <2> QED BY <1>d, <2>1, <2>3 DEF KeyPart
<1>2. ASSUME NEW g \in Procs, Continue(g)
      PROVE  KeyPart'
  <2>0. /\ HostOf[g] \in Peers /\ user[g] \in Users /\ held[g] \in Nat
        /\ pc[g] \in {"lock_store", "unlock_txn", "unlock_delete"} => held[g] # 0
    BY <1>2, <1>t DEF Continue, LockStore, UnlockSucceeds, UnlockRefused,
       UnlockCommitFails, UnlockDelete, WhereGet, TypeOK
  <2>1. CASE LockStore(g)
    <3>1. RevisionsPast'
      BY <2>0, <2>1, <1>k DEF LockStore, SetEntry, Return, RevisionsPast, keyVars,
         TypeOK, KeysTypeOK
    <3>2. \A q \in Peers, v \in Users, s \in Nat \ {0} : Knows(q, v, s)' => Knows(q, v, s)
      BY <2>0, <2>1, SetEntryKnows DEF LockStore
    <3> QED BY <2>1, <1>q, <3>1, <3>2 DEF LockStore
  <2>2. CASE UnlockSucceeds(g)
    <3>1. localKey[HostOf[g]][user[g]] # 0
      BY <2>2, <1>k, UnlockIsOwn DEF UnlockSucceeds, UnlockTxn
    <3>2. RevisionsPast'
      <4>1. KeysPast' /\ rev' = rev + 1
        BY <2>0, <2>2, <1>k, DeleteKeysPast DEF UnlockSucceeds, UnlockTxn
      <4> QED BY <4>1, <2>0, <2>2, <1>t, <1>k DEF UnlockSucceeds, Goto, KeysPast,
             RevisionsPast, TypeOK, KeysTypeOK
    <3>3. \A q \in Peers, v \in Users, s \in Nat : Knows(q, v, s)' => Knows(q, v, s)
      <4>1. Knows(HostOf[g], user[g], held[g])
        BY <2>2 DEF Knows, UnlockSucceeds
      <4> QED BY <2>0, <2>2, <4>1, GotoKnows DEF UnlockSucceeds
    <3> QED BY <2>0, <2>2, <1>d, <3>1, <3>2, <3>3 DEF UnlockSucceeds, UnlockTxn
  <2>3. CASE UnlockRefused(g)
    <3>1. RevisionsPast'
      BY <2>3, <1>k DEF UnlockRefused, Return, RevisionsPast, keyVars, TypeOK, KeysTypeOK
    <3> QED BY <2>3, <1>q, <3>1, ReturnKnows DEF UnlockRefused
  <2>4. CASE UnlockCommitFails(g)
    <3>1. RevisionsPast'
      <4>1. KeysPast' /\ rev' \in {rev, rev + 1}
        BY <2>0, <2>4, <1>k, DeleteKeysPast DEF UnlockCommitFails, UnlockTxn, keyVars,
           KeysPast, RevisionsPast
      <4> QED BY <4>1, <2>4, <1>t, <1>k DEF UnlockCommitFails, Return, KeysPast,
             RevisionsPast, TypeOK, KeysTypeOK
    <3>2. \A q \in Peers, v \in Users, s \in Nat : Knows(q, v, s)' => Knows(q, v, s)
      BY <2>4, ReturnKnows DEF UnlockCommitFails
    <3>3. CASE UNCHANGED keyVars
      BY <1>q, <3>1, <3>2, <3>3
    <3>4. CASE UnlockTxn(HostOf[g], user[g], held[g])
      <4>1. localKey[HostOf[g]][user[g]] # 0
        BY <2>4, <3>4, <1>k, UnlockIsOwn DEF UnlockCommitFails, UnlockTxn
      <4> QED BY <2>0, <1>d, <3>1, <3>2, <3>4, <4>1 DEF UnlockTxn
    <3> QED BY <2>4, <3>3, <3>4 DEF UnlockCommitFails
  <2>5. CASE UnlockDelete(g)
    <3>1. RevisionsPast'
      BY <2>0, <2>5, <1>k DEF UnlockDelete, SetEntry, Return, RevisionsPast, keyVars,
         TypeOK, KeysTypeOK
    <3>2. \A q \in Peers, v \in Users, s \in Nat \ {0} : Knows(q, v, s)' => Knows(q, v, s)
      BY <2>0, <2>5, SetEntryKnows DEF UnlockDelete
    <3> QED BY <2>5, <1>q, <3>1, <3>2 DEF UnlockDelete
  <2>6. CASE WhereGet(g)
    <3>1. RevisionsPast'
      BY <2>6, <1>k DEF WhereGet, Return, RevisionsPast, keyVars, TypeOK, KeysTypeOK
    <3> QED BY <2>6, <1>q, <3>1, ReturnKnows DEF WhereGet
  <2> QED BY <1>2, <2>1, <2>2, <2>3, <2>4, <2>5, <2>6 DEF Continue
<1>u. ASSUME UNCHANGED <<procVars, localPlayers>>
      PROVE  \A q \in Peers, v \in Users, s \in Nat : Knows(q, v, s)' => Knows(q, v, s)
  BY <1>u DEF Knows, procVars
<1>3. ASSUME NEW p \in Peers, Life(p)
      PROVE  KeyPart'
  <2>1. CASE Start(p)
    <3>1. RevisionsPast'
      BY <2>1, <1>k DEF Start, Recovered, RevisionsPast, keyVars, procVars, TypeOK, KeysTypeOK
    <3>2. \A q \in Peers, v \in Users, s \in Nat \ {0} :
             Knows(q, v, s)' => Knows(q, v, s) \/ localKey[q][v] = s
      BY <2>1 DEF Start, Recovered, Knows, procVars, TypeOK, KeysTypeOK
    <3> QED BY <2>1, <1>q, <3>1, <3>2 DEF Start
  <2>2. ASSUME UNCHANGED <<keyVars, localPlayers, procVars>>
        PROVE  KeyPart'
    <3>1. RevisionsPast'
      BY <2>2, <1>k DEF RevisionsPast, keyVars, procVars
    <3> QED BY <2>2, <1>q, <1>u, <3>1
  <2>3. CASE StopCommit(p)
    <3>1. visiting[p] \in Users
      BY <2>3 DEF StopCommit, TypeOK
    <3>2. CASE UNCHANGED keyVars
      BY <2>2, <2>3, <3>2 DEF StopCommit
    <3>3. CASE UnregisterTxn(p, visiting[p])
      <4>1. RevisionsPast'
        <5>1. KeysPast' /\ rev' = rev + 1
          BY <3>1, <3>3, <1>k, DeleteKeysPast DEF UnregisterTxn
        <5> QED BY <5>1, <2>3, <1>t, <1>k DEF StopCommit, KeysPast, RevisionsPast, procVars,
               TypeOK, KeysTypeOK
      <4>2. \A q \in Peers, v \in Users, s \in Nat : Knows(q, v, s)' => Knows(q, v, s)
        BY <2>3, <1>u DEF StopCommit
      <4> QED BY <1>d, <3>1, <3>3, <4>1, <4>2 DEF UnregisterTxn
    <3> QED BY <2>3, <3>2, <3>3 DEF StopCommit
  <2>4. CASE Exit(p)
    <3>1. RevisionsPast'
      BY <2>4, <1>k, <1>t DEF Exit, RevisionsPast, keyVars, TypeOK, KeysTypeOK
    <3>2. \A q \in Peers, v \in Users, s \in Nat \ {0} : Knows(q, v, s)' => Knows(q, v, s)
      BY <2>4 DEF Exit, Knows, TypeOK, KeysTypeOK
    <3> QED BY <2>4, <1>q, <3>1, <3>2 DEF Exit
  <2> QED BY <1>3, <2>1, <2>2, <2>3, <2>4 DEF Life, StopBegin, StopPick, StopEnd
<1>4. CASE UNCHANGED vars
  <2>1. RevisionsPast'
    BY <1>4, <1>k DEF vars, RevisionsPast, keyVars, procVars
  <2> QED BY <1>4, <1>q, <1>u, <2>1 DEF vars
<1> QED BY <1>1, <1>2, <1>3, <1>4 DEF Next

-----------------------------------------------------------------------------
(* The memory of the peers.                                                *)

\* Every step keeps a peer that is down without memory, and the Range of
\* unregisterLocalPlayers inside the stop.
LEMMA DownStep == TypeOK /\ DownIsClean /\ StopShape /\ [Next]_vars
                     => DownIsClean' /\ StopShape'
<1> SUFFICES ASSUME TypeOK, DownIsClean, StopShape, [Next]_vars
             PROVE  DownIsClean' /\ StopShape'
  OBVIOUS
<1>1. ASSUME NEW g \in Procs, NEW u \in Users, Call(g, u)
      PROVE  DownIsClean' /\ StopShape'
  <2>1. phase' = phase /\ visiting' = visiting /\ localPlayers' = localPlayers
    BY <1>1 DEF Call, NoteCall, LockSucceeds, LockRefused, LockCommitFails, UnlockLoad,
       UnlockNotFound, WhereIsLocal, WhereLoad
  <2>2. phase[HostOf[g]] # "down" /\ \A h \in Procs \ {g} : pc'[h] = pc[h]
    BY <1>1 DEF Call, CanCall, Goto, Return, LockSucceeds, LockRefused, LockCommitFails,
       UnlockLoad, UnlockNotFound, WhereIsLocal, WhereLoad, TypeOK
  <2> QED BY <2>1, <2>2 DEF DownIsClean, StopShape
<1>2. ASSUME NEW g \in Procs, Continue(g)
      PROVE  DownIsClean' /\ StopShape'
  <2>1. /\ phase' = phase /\ visiting' = visiting
        /\ pc[g] # "idle" /\ \A h \in Procs \ {g} : pc'[h] = pc[h]
    BY <1>2 DEF Continue, stopVars, Goto, Return, LockStore, UnlockSucceeds, UnlockRefused,
       UnlockCommitFails, UnlockDelete, WhereGet, TypeOK
  <2>2. \A p \in Peers \ {HostOf[g]} : localPlayers'[p] = localPlayers[p]
    BY <1>2 DEF Continue, SetEntry, LockStore, UnlockSucceeds, UnlockRefused,
       UnlockCommitFails, UnlockDelete, WhereGet, TypeOK, KeysTypeOK
  <2>3. phase[HostOf[g]] # "down"
    BY <2>1 DEF DownIsClean
  <2> QED BY <2>1, <2>2, <2>3 DEF DownIsClean, StopShape
<1>3. ASSUME NEW p \in Peers, Life(p)
      PROVE  DownIsClean' /\ StopShape'
  <2>1. CASE Start(p)
    BY <2>1 DEF Start, DownIsClean, StopShape, procVars, TypeOK, KeysTypeOK
  <2>2. CASE StopBegin(p)
    BY <2>2 DEF StopBegin, DownIsClean, StopShape, procVars, TypeOK
  <2>3. ASSUME NEW u \in Users, StopPick(p, u)
        PROVE  DownIsClean' /\ StopShape'
    BY <2>3 DEF StopPick, DownIsClean, StopShape, procVars, TypeOK
  <2>4. CASE StopCommit(p)
    BY <2>4 DEF StopCommit, DownIsClean, StopShape, procVars, TypeOK
  <2>5. CASE StopEnd(p)
    BY <2>5 DEF StopEnd, DownIsClean, StopShape, procVars, TypeOK
  <2>6. CASE Exit(p)
    BY <2>6 DEF Exit, DownIsClean, StopShape, TypeOK, KeysTypeOK
  <2> QED BY <1>3, <2>1, <2>2, <2>3, <2>4, <2>5, <2>6 DEF Life
<1>4. CASE UNCHANGED vars
  BY <1>4 DEF vars, DownIsClean, StopShape, procVars, stopVars
<1> QED BY <1>1, <1>2, <1>3, <1>4 DEF Next

\* A local key that exists changes only when it is deleted, by an unlock of
\* its own peer that has its revision or by the stop of its own peer.
LEMMA ReleaseStep ==
    ASSUME TypeOK, KeyPart, [Next]_vars, NEW p \in Peers, NEW u \in Users,
           localKey[p][u] # 0, localKey'[p][u] # localKey[p][u]
    PROVE  \/ \E g \in Procs :
                 /\ UnlockSucceeds(g) \/ (TxnMayFail /\ UnlockCommitFails(g))
                 /\ HostOf[g] = p /\ user[g] = u /\ held[g] = localKey[p][u]
           \/ StopCommit(p) /\ visiting[p] = u
<1>k. KeyInv /\ RevisionsPast /\ RevisionIsOwn /\ KeysTypeOK
  BY DEF KeyInv, KeyPart, TypeOK
<1>l. ASSUME NEW q \in Peers, NEW v \in Users, LockTxn(q, v)
      PROVE  FALSE
  BY <1>k, <1>l, LockTxnKeeps DEF KeysTypeOK
<1>d. ASSUME NEW q \in Peers, NEW v \in Users, DeleteKeys(q, v)
      PROVE  q = p /\ v = u
  BY <1>k, <1>d DEF DeleteKeys, KeysTypeOK
<1>n. ~UNCHANGED keyVars
  BY DEF keyVars
<1>1. ASSUME NEW g \in Procs, NEW v \in Users, Call(g, v)
      PROVE  FALSE
  BY <1>1, <1>l, <1>n DEF Call, LockSucceeds, LockRefused, LockCommitFails, UnlockLoad,
     UnlockNotFound, WhereIsLocal, WhereLoad
<1>2. ASSUME NEW g \in Procs, Continue(g)
      PROVE  /\ UnlockSucceeds(g) \/ (TxnMayFail /\ UnlockCommitFails(g))
             /\ HostOf[g] = p /\ user[g] = u /\ held[g] = localKey[p][u]
  <2>1. /\ UnlockSucceeds(g) \/ (TxnMayFail /\ UnlockCommitFails(g))
        /\ pc[g] = "unlock_txn" /\ UnlockTxn(HostOf[g], user[g], held[g])
    BY <1>2, <1>n DEF Continue, LockStore, UnlockSucceeds, UnlockRefused,
       UnlockCommitFails, UnlockDelete, WhereGet
  <2> QED BY <2>1, <1>k, <1>d, UnlockIsOwn DEF UnlockTxn
<1>3. ASSUME NEW q \in Peers, Life(q)
      PROVE  StopCommit(p) /\ visiting[p] = u
  <2>1. StopCommit(q) /\ UnregisterTxn(q, visiting[q])
    BY <1>3, <1>n DEF Life, Start, StopBegin, StopPick, StopCommit, StopEnd, Exit
  <2>2. visiting[q] \in Users
    BY <2>1 DEF StopCommit, TypeOK
  <2> QED BY <2>1, <2>2, <1>d DEF UnregisterTxn
<1>4. ~UNCHANGED vars
  BY <1>n DEF vars
<1> QED BY <1>1, <1>2, <1>3, <1>4 DEF Next

\* Every step keeps the lock of a LockLocalUser that has yet to store its
\* entry: no other goroutine of the peer has the revision to release it.
LEMMA StoreStep == TypeOK /\ TypeOK' /\ KeyPart /\ DownIsClean /\ StopShape
                      /\ StorePending /\ [Next]_vars => StorePending'
<1> SUFFICES ASSUME TypeOK, TypeOK', KeyPart, DownIsClean, StopShape, StorePending,
                    [Next]_vars,
                    NEW g \in Procs, pc'[g] = "lock_store", phase'[HostOf[g]] = "up"
             PROVE  /\ localKey'[HostOf[g]][user'[g]] = held'[g]
                    /\ localPlayers'[HostOf[g]][user'[g]] # held'[g]
                    /\ \A h \in Procs \ {g} :
                          HostOf[h] = HostOf[g] /\ user'[h] = user'[g] => held'[h] # held'[g]
  BY DEF StorePending
<1> DEFINE p == HostOf[g]
           u == user[g]
<1>p. p \in Peers
  OBVIOUS
<1>k. KeyInv /\ RevisionsPast /\ KeysTypeOK
  BY DEF KeyInv, KeyPart, TypeOK
<1>1. CASE \E v \in Users : LockSucceeds(g, v)
  <2>1. PICK v \in Users : LockSucceeds(g, v)
    BY <1>1
  <2>2. /\ user'[g] = v /\ held'[g] = rev + 1 /\ localPlayers' = localPlayers
        /\ \A h \in Procs \ {g} : held'[h] = held[h]
    BY <2>1 DEF LockSucceeds, Goto, TypeOK
  <2>3. localKey'[p][v] = rev + 1
    BY <1>k, <1>p, <2>1, LockTxnKeeps DEF LockSucceeds, KeysTypeOK
  <2>4. localPlayers[p][v] <= rev /\ \A h \in Procs : held[h] <= rev /\ held[h] \in Nat
    BY <1>k, <1>p, <2>1 DEF RevisionsPast, TypeOK
  <2> QED BY <2>2, <2>3, <2>4, <1>k, <1>p DEF KeysTypeOK
<1>2. CASE ~\E v \in Users : LockSucceeds(g, v)
  <2>1. pc[g] = "lock_store" /\ user'[g] = u /\ held'[g] = held[g]
    <3>1. ASSUME NEW h \in Procs, NEW v \in Users, Call(h, v)
          PROVE  pc[g] = "lock_store" /\ user'[g] = u /\ held'[g] = held[g]
      BY <1>2, <3>1 DEF Call, CanCall, Goto, Return, LockSucceeds, LockRefused,
         LockCommitFails, UnlockLoad, UnlockNotFound, WhereIsLocal, WhereLoad, TypeOK
    <3>2. ASSUME NEW h \in Procs, Continue(h)
          PROVE  pc[g] = "lock_store" /\ user'[g] = u /\ held'[g] = held[g]
      BY <3>2 DEF Continue, Goto, Return, LockStore, UnlockSucceeds, UnlockRefused,
         UnlockCommitFails, UnlockDelete, WhereGet, TypeOK
    <3>3. ASSUME NEW q \in Peers, Life(q)
          PROVE  pc[g] = "lock_store" /\ user'[g] = u /\ held'[g] = held[g]
      BY <3>3 DEF Life, procVars, Start, StopBegin, StopPick, StopCommit, StopEnd, Exit, TypeOK
    <3>4. CASE UNCHANGED vars
      BY <3>4 DEF vars, procVars
    <3> QED BY <3>1, <3>2, <3>3, <3>4 DEF Next
  <2>2. phase[p] = "up"
    <3>1. ASSUME NEW q \in Peers, Life(q)
          PROVE  phase[p] = "up"
      BY <2>1, <3>1 DEF Life, Start, StopBegin, StopPick, StopCommit, StopEnd, Exit, TypeOK,
         DownIsClean
    <3>2. ASSUME NEW h \in Procs, NEW v \in Users, Call(h, v)
          PROVE  phase[p] = "up"
      BY <3>2 DEF Call, NoteCall, LockSucceeds, LockRefused,
         LockCommitFails, UnlockLoad, UnlockNotFound, WhereIsLocal, WhereLoad
    <3>3. ASSUME NEW h \in Procs, Continue(h)
          PROVE  phase[p] = "up"
      BY <3>3 DEF Continue, stopVars, LockStore, UnlockSucceeds, UnlockRefused,
         UnlockCommitFails, UnlockDelete, WhereGet
    <3>4. CASE UNCHANGED vars
      BY <3>4 DEF vars, stopVars
    <3> QED BY <3>1, <3>2, <3>3, <3>4 DEF Next
  <2>3. /\ localKey[p][u] = held[g] /\ localPlayers[p][u] # held[g]
        /\ \A h \in Procs \ {g} : HostOf[h] = p /\ user[h] = u => held[h] # held[g]
        /\ held[g] \in Nat \ {0} /\ held[g] <= rev /\ u \in Users
    BY <1>k, <2>1, <2>2 DEF StorePending, TypeOK, RevisionsPast
  <2>4. localKey'[p][u] = held[g]
    <3> SUFFICES ASSUME localKey'[p][u] # localKey[p][u] PROVE FALSE
      BY <2>3
    <3>1. ASSUME NEW h \in Procs, pc[h] = "unlock_txn", HostOf[h] = p, user[h] = u,
                 held[h] = localKey[p][u]
          PROVE  FALSE
      BY <2>1, <2>3, <3>1
    <3>2. ~StopCommit(p)
      BY <2>2, <1>p DEF StopCommit, StopShape
    <3> QED BY <1>p, <2>3, <3>1, <3>2, ReleaseStep DEF UnlockSucceeds, UnlockCommitFails
  \* The revision can come into no other hands.
  <2>5. localPlayers'[p][u] # held[g]
    <3>1. ASSUME NEW h \in Procs, NEW v \in Users, Call(h, v)
          PROVE  localPlayers' = localPlayers
      BY <3>1 DEF Call, LockSucceeds, LockRefused,
         LockCommitFails, UnlockLoad, UnlockNotFound, WhereIsLocal, WhereLoad
    <3>2. ASSUME NEW h \in Procs, Continue(h)
          PROVE  localPlayers'[p][u] # held[g]
      <4>1. CASE LockStore(h)
        <5>1. h # g
          BY <4>1 DEF LockStore, Return, TypeOK
        <5> QED BY <4>1, <5>1, <2>3, <1>p, <1>k DEF LockStore, SetEntry, KeysTypeOK
      <4>2. CASE UnlockDelete(h)
        BY <4>2, <2>3, <1>p, <1>k DEF UnlockDelete, SetEntry, KeysTypeOK
      <4> QED BY <3>2, <4>1, <4>2, <2>3 DEF Continue, UnlockSucceeds, UnlockRefused,
             UnlockCommitFails, WhereGet
    <3>3. ASSUME NEW q \in Peers, Life(q)
          PROVE  localPlayers'[p] = localPlayers[p]
      <4>1. CASE Start(q)
        <5>1. q # p
          BY <4>1, <2>2 DEF Start
        <5> QED BY <4>1, <5>1, <1>p, <1>k DEF Start, KeysTypeOK
      <4>2. CASE Exit(q)
        <5>1. q # p
          BY <4>2 DEF Exit, TypeOK
        <5> QED BY <4>2, <5>1, <1>p, <1>k DEF Exit, KeysTypeOK
      <4> QED BY <3>3, <4>1, <4>2 DEF Life, StopBegin, StopPick, StopCommit, StopEnd
    <3>4. CASE UNCHANGED vars
      BY <3>4, <2>3 DEF vars
    <3> QED BY <2>3, <3>1, <3>2, <3>3, <3>4 DEF Next
  <2>6. ASSUME NEW h \in Procs \ {g}, HostOf[h] = p, user'[h] = u
        PROVE  held'[h] # held[g]
    <3>1. CASE held'[h] = held[h] /\ user'[h] = user[h]
      BY <3>1, <2>3, <2>6
    <3>2. CASE held'[h] \in {0, rev + 1}
      BY <3>2, <2>3, <1>k DEF KeysTypeOK
    <3>3. CASE held'[h] = localPlayers[p][u]
      BY <3>3, <2>3
    <3>4. ASSUME NEW f \in Procs, NEW v \in Users, Call(f, v)
          PROVE  \/ held'[h] = held[h] /\ user'[h] = user[h]
                 \/ held'[h] \in {0, rev + 1}
                 \/ held'[h] = localPlayers[p][u]
      BY <3>4, <2>6 DEF Call, Goto, Return, LockSucceeds, LockRefused,
         LockCommitFails, UnlockLoad, UnlockNotFound, WhereIsLocal, WhereLoad, TypeOK
    <3>5. ASSUME NEW f \in Procs, Continue(f)
          PROVE  held'[h] = 0 \/ (held'[h] = held[h] /\ user'[h] = user[h])
      BY <3>5 DEF Continue, Goto, Return, LockStore, UnlockSucceeds, UnlockRefused,
         UnlockCommitFails, UnlockDelete, WhereGet, TypeOK
    <3>6. ASSUME NEW q \in Peers, Life(q)
          PROVE  held'[h] = 0 \/ (held'[h] = held[h] /\ user'[h] = user[h])
      BY <3>6 DEF Life, procVars, Start, StopBegin, StopPick, StopCommit, StopEnd, Exit, TypeOK
    <3>7. CASE UNCHANGED vars
      BY <3>1, <3>7 DEF vars, procVars
    <3> QED BY <3>1, <3>2, <3>3, <3>4, <3>5, <3>6, <3>7 DEF Next
  <2> QED BY <2>1, <2>4, <2>5, <2>6
<1> QED BY <1>1, <1>2

\* Without commit errors, every step keeps each localPlayers entry of a
\* running peer backed by its key in etcd.
LEMMA EntryStep == TypeOK /\ TypeOK' /\ KeyPart /\ StopShape /\ StorePending
                      /\ EntryBacked /\ [Next]_vars => EntryBacked'
<1> SUFFICES ASSUME TypeOK, TypeOK', KeyPart, StopShape, StorePending, EntryBacked,
                    [Next]_vars, ~TxnMayFail,
                    NEW p \in Peers, NEW u \in Users,
                    phase'[p] = "up", localPlayers'[p][u] # 0, localKey'[p][u] = 0
             PROVE  Releasing(p, u)'
  BY DEF EntryBacked
<1>t. KeysTypeOK
  BY DEF TypeOK
\* The local key was there: an unlock of p has just deleted it.
<1>1. CASE localKey[p][u] # 0
  <2>1. ~StopCommit(p)
    BY DEF StopCommit, StopShape, TypeOK
  <2>2. PICK g \in Procs : UnlockSucceeds(g) /\ HostOf[g] = p /\ user[g] = u
    BY <1>1, <2>1, ReleaseStep
  <2>3. pc'[g] = "unlock_delete" /\ user'[g] = u
    BY <2>2 DEF UnlockSucceeds, Goto, TypeOK
  <2> QED BY <2>2, <2>3 DEF Releasing
\* It was not there: the entry is an old one, and its unlock is not over.
<1>2. CASE localKey[p][u] = 0
  <2>1. phase[p] = "up" /\ localPlayers[p][u] # 0
    <3>1. ASSUME NEW h \in Procs, NEW v \in Users, Call(h, v)
          PROVE  phase' = phase /\ localPlayers' = localPlayers
      BY <3>1 DEF Call, NoteCall, LockSucceeds, LockRefused,
         LockCommitFails, UnlockLoad, UnlockNotFound, WhereIsLocal, WhereLoad
    <3>2. ASSUME NEW h \in Procs, Continue(h)
          PROVE  phase[p] = "up" /\ localPlayers[p][u] # 0
      <4>0. phase[p] = "up"
        BY <3>2 DEF Continue, stopVars, LockStore, UnlockSucceeds, UnlockRefused,
           UnlockCommitFails, UnlockDelete, WhereGet
      <4>1. CASE LockStore(h)
        <5>1. ~(HostOf[h] = p /\ user[h] = u)
          BY <4>0, <4>1, <1>2 DEF LockStore, StorePending, TypeOK
        <5> QED BY <4>0, <4>1, <5>1, <1>t DEF LockStore, SetEntry, KeysTypeOK
      <4>2. CASE UnlockDelete(h)
        BY <4>0, <4>2, <1>t DEF UnlockDelete, SetEntry, KeysTypeOK
      <4> QED BY <3>2, <4>0, <4>1, <4>2 DEF Continue, UnlockSucceeds, UnlockRefused,
             UnlockCommitFails, WhereGet
    <3>3. ASSUME NEW q \in Peers, Life(q)
          PROVE  phase[p] = "up" /\ localPlayers[p][u] # 0
      BY <3>3, <1>2 DEF Life, Start, Recovered, StopBegin, StopPick, StopCommit, StopEnd, Exit,
         TypeOK, KeysTypeOK
    <3>4. CASE UNCHANGED vars
      BY <3>4 DEF vars, stopVars
    <3> QED BY <3>1, <3>2, <3>3, <3>4 DEF Next
  <2>2. PICK g \in Procs : HostOf[g] = p /\ pc[g] = "unlock_delete" /\ user[g] = u
    BY <1>2, <2>1 DEF EntryBacked, Releasing
  <2>3. pc'[g] = "unlock_delete" /\ user'[g] = u
    <3>1. ASSUME NEW h \in Procs, NEW v \in Users, Call(h, v)
          PROVE  pc'[g] = "unlock_delete" /\ user'[g] = u
      BY <2>2, <3>1 DEF Call, CanCall, Goto, Return, LockSucceeds, LockRefused,
         LockCommitFails, UnlockLoad, UnlockNotFound, WhereIsLocal, WhereLoad, TypeOK
    <3>2. ASSUME NEW h \in Procs, Continue(h)
          PROVE  pc'[g] = "unlock_delete" /\ user'[g] = u
      <4>1. CASE h = g
        <5>1. UnlockDelete(g)
          BY <2>2, <3>2, <4>1 DEF Continue, LockStore, UnlockSucceeds, UnlockRefused,
             UnlockCommitFails, WhereGet
        <5> QED BY <2>2, <5>1, <1>t DEF UnlockDelete, SetEntry, KeysTypeOK
      <4>2. CASE h # g
        BY <2>2, <3>2, <4>2 DEF Continue, Goto, Return, LockStore, UnlockSucceeds,
           UnlockRefused, UnlockCommitFails, UnlockDelete, WhereGet, TypeOK
      <4> QED BY <4>1, <4>2
    <3>3. ASSUME NEW q \in Peers, Life(q)
          PROVE  pc'[g] = "unlock_delete" /\ user'[g] = u
      BY <2>2, <3>3 DEF Life, procVars, Start, StopBegin, StopPick, StopCommit, StopEnd, Exit,
         TypeOK
    <3>4. CASE UNCHANGED vars
      BY <2>2, <3>4 DEF vars, procVars
    <3> QED BY <3>1, <3>2, <3>3, <3>4 DEF Next
  <2> QED BY <2>2, <2>3 DEF Releasing
<1> QED BY <1>1, <1>2, <1>t DEF KeysTypeOK

-----------------------------------------------------------------------------
(* The orderly stop, and the answers of WhereIsUser.                       *)

\* What a step does to the keys: nothing, a lock, or the deletes of a peer
\* that has the local key.
LEMMA TxnStep ==
    ASSUME TypeOK, KeyPart, [Next]_vars
    PROVE  \/ UNCHANGED keyVars
           \/ \E p \in Peers, u \in Users :
                 LockTxn(p, u) \/ (localKey[p][u] # 0 /\ DeleteKeys(p, u))
<1>1. ASSUME NEW g \in Procs, NEW u \in Users, Call(g, u)
      PROVE  UNCHANGED keyVars \/ LockTxn(HostOf[g], u)
  BY <1>1 DEF Call, LockSucceeds, LockRefused, LockCommitFails, UnlockLoad,
     UnlockNotFound, WhereIsLocal, WhereLoad
<1>2. ASSUME NEW g \in Procs, Continue(g)
      PROVE  \/ UNCHANGED keyVars
             \/ pc[g] = "unlock_txn" /\ UnlockTxn(HostOf[g], user[g], held[g])
  BY <1>2 DEF Continue, LockStore, UnlockSucceeds, UnlockRefused, UnlockCommitFails,
     UnlockDelete, WhereGet
<1>3. ASSUME NEW g \in Procs, pc[g] = "unlock_txn", UnlockTxn(HostOf[g], user[g], held[g])
      PROVE  /\ HostOf[g] \in Peers /\ user[g] \in Users
             /\ localKey[HostOf[g]][user[g]] # 0 /\ DeleteKeys(HostOf[g], user[g])
  BY <1>3, UnlockIsOwn DEF UnlockTxn, KeyPart
<1>4. ASSUME NEW p \in Peers, Life(p)
      PROVE  UNCHANGED keyVars \/ (visiting[p] \in Users /\ UnregisterTxn(p, visiting[p]))
  BY <1>4 DEF Life, Start, StopBegin, StopPick, StopCommit, StopEnd, Exit, TypeOK
<1>5. CASE UNCHANGED vars
  BY <1>5 DEF vars
<1> QED BY <1>1, <1>2, <1>3, <1>4, <1>5 DEF Next, UnregisterTxn

\* Every step leaves a /user key that does not exist naming nobody.
LEMMA AbsentStep == TypeOK /\ KeyPart /\ AbsentNamesNobody /\ [Next]_vars
                       => AbsentNamesNobody'
<1> SUFFICES ASSUME TypeOK, KeyPart, AbsentNamesNobody, [Next]_vars
             PROVE  AbsentNamesNobody'
  OBVIOUS
<1>1. CASE UNCHANGED keyVars
  BY <1>1 DEF AbsentNamesNobody, keyVars
<1>2. ASSUME NEW p \in Peers, NEW u \in Users, LockTxn(p, u)
      PROVE  AbsentNamesNobody'
  BY <1>2 DEF AbsentNamesNobody, LockTxn, Put, TypeOK, KeysTypeOK
<1>3. ASSUME NEW p \in Peers, NEW u \in Users, DeleteKeys(p, u)
      PROVE  AbsentNamesNobody'
  BY <1>3 DEF AbsentNamesNobody, DeleteKeys, Absent, TypeOK, KeysTypeOK
<1> QED BY <1>1, <1>2, <1>3, TxnStep

\* A goroutine is between the halves of an unlock because its transaction has
\* just been applied, or because it was there already.
LEMMA ToUnlockDelete ==
    ASSUME TypeOK, [Next]_vars, NEW g \in Procs, pc'[g] = "unlock_delete"
    PROVE  \/ UnlockSucceeds(g)
           \/ pc[g] = "unlock_delete" /\ user'[g] = user[g] /\ held'[g] = held[g]
<1>1. ASSUME NEW h \in Procs, NEW v \in Users, Call(h, v)
      PROVE  pc[g] = "unlock_delete" /\ user'[g] = user[g] /\ held'[g] = held[g]
  BY <1>1 DEF Call, Goto, Return, LockSucceeds, LockRefused, LockCommitFails, UnlockLoad,
     UnlockNotFound, WhereIsLocal, WhereLoad, TypeOK
<1>2. ASSUME NEW h \in Procs, Continue(h)
      PROVE  \/ UnlockSucceeds(g)
             \/ pc[g] = "unlock_delete" /\ user'[g] = user[g] /\ held'[g] = held[g]
  <2>1. CASE UnlockSucceeds(h)
    <3>1. CASE h = g
      BY <2>1, <3>1
    <3>2. CASE h # g
      BY <2>1, <3>2 DEF UnlockSucceeds, Goto, TypeOK
    <3> QED BY <3>1, <3>2
  <2> QED BY <1>2, <2>1 DEF Continue, Return, LockStore, UnlockRefused,
     UnlockCommitFails, UnlockDelete, WhereGet, TypeOK
<1>3. ASSUME NEW q \in Peers, Life(q)
      PROVE  pc[g] = "unlock_delete" /\ user'[g] = user[g] /\ held'[g] = held[g]
  BY <1>3 DEF Life, procVars, Start, StopBegin, StopPick, StopCommit, StopEnd, Exit, TypeOK
<1>4. CASE UNCHANGED vars
  BY <1>4 DEF vars, procVars
<1> QED BY <1>1, <1>2, <1>3, <1>4 DEF Next

\* Every step keeps a released lock gone: a later one has a later revision.
LEMMA ReleasedStep == TypeOK /\ KeyPart /\ ReleasedIsGone /\ [Next]_vars
                         => ReleasedIsGone'
<1> SUFFICES ASSUME TypeOK, KeyPart, ReleasedIsGone, [Next]_vars,
                    NEW g \in Procs, pc'[g] = "unlock_delete"
             PROVE  localKey'[HostOf[g]][user'[g]] # held'[g]
  BY DEF ReleasedIsGone
<1>k. KeyInv /\ KeysTypeOK /\ HostOf[g] \in Peers
  BY DEF KeyInv, KeyPart, TypeOK
<1>1. CASE UnlockSucceeds(g)
  <2>1. user'[g] = user[g] /\ held'[g] = held[g] /\ held[g] # 0 /\ user[g] \in Users
    BY <1>1 DEF UnlockSucceeds, Goto, TypeOK
  <2>2. DeleteKeys(HostOf[g], user[g])
    BY <1>1 DEF UnlockSucceeds, UnlockTxn
  <2> QED BY <1>k, <2>1, <2>2 DEF DeleteKeys, KeysTypeOK
<1>2. CASE pc[g] = "unlock_delete" /\ user'[g] = user[g] /\ held'[g] = held[g]
  <2>1. /\ held[g] # 0 /\ held[g] \in Nat /\ held[g] <= rev /\ rev \in Nat
        /\ user[g] \in Users /\ localKey[HostOf[g]][user[g]] # held[g]
    BY <1>2 DEF KeyPart, RevisionsPast, ReleasedIsGone, TypeOK, KeysTypeOK
  <2>2. ASSUME NEW p \in Peers, NEW u \in Users, LockTxn(p, u)
        PROVE  localKey'[HostOf[g]][user[g]] # held[g]
    <3>1. localKey' = [localKey EXCEPT ![p][u] = rev + 1]
      BY <2>2, <1>k, LockTxnKeeps
    <3> QED BY <3>1, <2>1, <1>k DEF KeysTypeOK
  <2>3. ASSUME NEW p \in Peers, NEW u \in Users, DeleteKeys(p, u)
        PROVE  localKey'[HostOf[g]][user[g]] # held[g]
    BY <2>3, <2>1, <1>k DEF DeleteKeys, KeysTypeOK
  <2>4. ASSUME UNCHANGED keyVars
        PROVE  localKey'[HostOf[g]][user[g]] # held[g]
    BY <2>4, <2>1 DEF keyVars
  <2>5. localKey'[HostOf[g]][user[g]] # held[g]
    BY <2>2, <2>3, <2>4, TxnStep
  <2> QED BY <1>2, <2>5
<1> QED BY <1>1, <1>2, ToUnlockDelete

\* Every step keeps the goroutines of a peer that stops quietly idle.
LEMMA QuietStep == TypeOK /\ QuietIsIdle /\ [Next]_vars => QuietIsIdle'
<1> SUFFICES ASSUME TypeOK, QuietIsIdle, [Next]_vars, NEW p \in Peers,
                    quiet'[p], phase'[p] \in {"stopping", "stopped"},
                    NEW g \in Procs, HostOf[g] = p
             PROVE  pc'[g] = "idle"
  BY DEF QuietIsIdle
<1>1. ASSUME NEW h \in Procs, NEW v \in Users, Call(h, v)
      PROVE  pc'[g] = "idle"
  <2>1. NoteCall(h) /\ \A f \in Procs \ {h} : pc'[f] = pc[f]
    BY <1>1 DEF Call, Goto, Return, LockSucceeds, LockRefused, LockCommitFails, UnlockLoad,
       UnlockNotFound, WhereIsLocal, WhereLoad, TypeOK
  <2>2. HostOf[h] # p /\ quiet[p] /\ phase'[p] = phase[p]
    BY <2>1 DEF NoteCall, TypeOK
  <2> QED BY <2>1, <2>2 DEF QuietIsIdle
<1>2. ASSUME NEW h \in Procs, Continue(h)
      PROVE  pc'[g] = "idle"
  <2>1. pc[h] # "idle" /\ phase' = phase /\ \A f \in Procs \ {h} : pc'[f] = pc[f]
    BY <1>2 DEF Continue, stopVars, Goto, Return, LockStore, UnlockSucceeds, UnlockRefused,
       UnlockCommitFails, UnlockDelete, WhereGet, TypeOK
  <2>2. quiet[p]
    BY <1>2 DEF Continue, stopVars, LockStore, UnlockSucceeds, UnlockRefused,
       UnlockCommitFails, UnlockDelete, WhereGet, TypeOK
  <2> QED BY <2>1, <2>2 DEF QuietIsIdle
<1>3. ASSUME NEW q \in Peers, Life(q)
      PROVE  pc'[g] = "idle"
  <2>1. CASE StopBegin(q)
    <3>1. pc' = pc /\ \A f \in Peers \ {q} : quiet'[f] = quiet[f] /\ phase'[f] = phase[f]
      BY <2>1 DEF StopBegin, procVars, TypeOK
    <3>2. CASE q = p
      BY <2>1, <3>1, <3>2 DEF StopBegin, TypeOK
    <3> QED BY <3>1, <3>2 DEF QuietIsIdle
  <2>2. CASE Start(q)
    BY <2>2 DEF Start, procVars, TypeOK, QuietIsIdle
  <2>3. CASE Exit(q)
    BY <2>3 DEF Exit, TypeOK, QuietIsIdle
  <2>4. CASE StopEnd(q)
    BY <2>4 DEF StopEnd, procVars, TypeOK, QuietIsIdle
  <2> QED BY <1>3, <2>1, <2>2, <2>3, <2>4 DEF Life, procVars, StopPick, StopCommit,
         QuietIsIdle
<1>4. CASE UNCHANGED vars
  BY <1>4 DEF vars, procVars, stopVars, QuietIsIdle
<1> QED BY <1>1, <1>2, <1>3, <1>4 DEF Next

\* Every step of a registry without commit errors keeps track of the locks:
\* each is in localPlayers or about to be, and ahead of a quiet stop.
LEMMA TrackStep == TypeOK /\ TypeOK' /\ KeyPart /\ StopShape /\ StorePending
                      /\ ReleasedIsGone /\ QuietIsIdle /\ LockTracked /\ [Next]_vars
                      => LockTracked'
<1> SUFFICES ASSUME TypeOK, TypeOK', KeyPart, StopShape, StorePending, ReleasedIsGone,
                    QuietIsIdle, LockTracked, [Next]_vars, ~TxnMayFail,
                    NEW p \in Peers, NEW u \in Users, quiet'[p], localKey'[p][u] # 0
             PROVE  /\ phase'[p] = "up" =>
                          localPlayers'[p][u] = localKey'[p][u] \/ Storing(p, u)'
                    /\ phase'[p] = "stopping" =>
                          /\ localPlayers'[p][u] # 0
                          /\ u \in toVisit'[p] \/ visiting'[p] = u
                    /\ phase'[p] # "stopped"
  BY DEF LockTracked
<1> DEFINE Tracked ==
      /\ phase[p] = "up" => localPlayers[p][u] = localKey[p][u] \/ Storing(p, u)
      /\ phase[p] = "stopping" =>
            localPlayers[p][u] # 0 /\ (u \in toVisit[p] \/ visiting[p] = u)
      /\ phase[p] # "stopped"
<1> HIDE DEF Tracked
<1>t. KeysTypeOK /\ KeyInv
  BY DEF KeyInv, KeyPart, TypeOK
<1>0. quiet[p] /\ localKey[p][u] # 0 => Tracked
  BY DEF LockTracked, Tracked
\* A key that is still there was not touched by a delete, and has the revision
\* it had if it was there before.
<1>d. ASSUME NEW q \in Peers, NEW v \in Users, DeleteKeys(q, v)
      PROVE  localKey'[p][u] = localKey[p][u]
  BY <1>d, <1>t DEF DeleteKeys, KeysTypeOK
<1>s. localKey[p][u] # 0 => localKey'[p][u] = localKey[p][u]
  <2> SUFFICES ASSUME localKey[p][u] # 0
               PROVE  localKey'[p][u] = localKey[p][u]
    OBVIOUS
  <2>1. ASSUME NEW q \in Peers, NEW v \in Users, LockTxn(q, v)
        PROVE  localKey'[p][u] = localKey[p][u]
    <3>1. localKey[q][v] = 0 /\ localKey' = [localKey EXCEPT ![q][v] = rev + 1]
      BY <2>1, <1>t, LockTxnKeeps
    <3> QED BY <3>1, <1>t DEF KeysTypeOK
  <2>2. ASSUME UNCHANGED keyVars
        PROVE  localKey'[p][u] = localKey[p][u]
    BY <2>2 DEF keyVars
  <2> QED BY <2>1, <2>2, <1>d, TxnStep
<1>1. ASSUME NEW h \in Procs, NEW v \in Users, Call(h, v)
      PROVE  Tracked'
  <2>1. /\ NoteCall(h) /\ localPlayers' = localPlayers /\ pc[h] = "idle"
        /\ \A f \in Procs \ {h} : pc'[f] = pc[f] /\ user'[f] = user[f]
    BY <1>1 DEF Call, CanCall, Goto, Return, LockSucceeds, LockRefused, LockCommitFails,
       UnlockLoad, UnlockNotFound, WhereIsLocal, WhereLoad, TypeOK
  <2>2. /\ quiet[p] /\ phase' = phase /\ toVisit' = toVisit /\ visiting' = visiting
        /\ HostOf[h] = p => phase[p] = "up"
    BY <2>1 DEF NoteCall, TypeOK
  <2>3. CASE localKey[p][u] # 0
    <3>1. Storing(p, u) => Storing(p, u)'
      BY <2>1 DEF Storing
    <3> QED BY <1>0, <1>s, <2>1, <2>2, <2>3, <3>1 DEF Tracked
  <2>4. CASE localKey[p][u] = 0
    <3>1. LockSucceeds(h, v)
      BY <1>1, <2>4 DEF Call, LockRefused, LockCommitFails, UnlockLoad, UnlockNotFound,
         WhereIsLocal, WhereLoad, keyVars
    <3>2. HostOf[h] = p /\ v = u
      BY <2>4, <3>1, <1>t, LockTxnKeeps DEF LockSucceeds, KeysTypeOK
    <3>3. pc'[h] = "lock_store" /\ user'[h] = u
      BY <3>1, <3>2 DEF LockSucceeds, Goto, TypeOK
    <3> QED BY <2>2, <3>2, <3>3 DEF Tracked, Storing
  <2> QED BY <2>3, <2>4
<1>2. ASSUME NEW h \in Procs, Continue(h)
      PROVE  Tracked'
  <2>1. /\ phase' = phase /\ toVisit' = toVisit /\ visiting' = visiting /\ quiet[p]
        /\ pc[h] # "idle" /\ HostOf[h] \in Peers /\ user[h] \in Users
        /\ \A f \in Procs \ {h} : pc'[f] = pc[f] /\ user'[f] = user[f]
    BY <1>2 DEF Continue, stopVars, Goto, Return, LockStore, UnlockSucceeds, UnlockRefused,
       UnlockCommitFails, UnlockDelete, WhereGet, TypeOK
  <2>2. localKey[p][u] # 0
    <3>1. UNCHANGED keyVars \/ DeleteKeys(HostOf[h], user[h])
      BY <1>2 DEF Continue, UnlockTxn, LockStore, UnlockSucceeds, UnlockRefused,
         UnlockCommitFails, UnlockDelete, WhereGet
    <3> QED BY <2>1, <3>1, <1>d DEF keyVars
  <2>3. Tracked /\ localKey'[p][u] = localKey[p][u]
    BY <1>0, <1>s, <2>1, <2>2
  <2>4. phase[p] = "stopping" => HostOf[h] # p
    BY <2>1 DEF QuietIsIdle
  <2>5. CASE LockStore(h)
    <3>1. CASE HostOf[h] = p /\ user[h] = u
      <4>1. localPlayers'[p][u] = held[h]
        BY <2>5, <3>1, <1>t DEF LockStore, SetEntry, KeysTypeOK
      <4>2. phase[p] = "up" => held[h] = localKey[p][u]
        BY <2>5, <3>1 DEF LockStore, StorePending
      <4> QED BY <2>1, <2>3, <2>4, <3>1, <4>1, <4>2 DEF Tracked
    <3>2. CASE ~(HostOf[h] = p /\ user[h] = u)
      <4>1. localPlayers'[p][u] = localPlayers[p][u]
        BY <2>1, <2>5, <3>2, <1>t DEF LockStore, SetEntry, KeysTypeOK
      <4>2. Storing(p, u) => Storing(p, u)'
        BY <2>1, <3>2 DEF Storing
      <4> QED BY <2>1, <2>3, <4>1, <4>2 DEF Tracked
    <3> QED BY <3>1, <3>2
  <2>6. CASE pc[h] # "lock_store"
    <3>1. Storing(p, u) => Storing(p, u)'
      BY <2>1, <2>6 DEF Storing
    <3>2. CASE UnlockDelete(h) /\ HostOf[h] = p /\ user[h] = u
      <4>1. localPlayers[p][u] \in {0, held[h]} /\ localKey[p][u] # held[h]
        BY <3>2 DEF UnlockDelete, ReleasedIsGone, TypeOK
      <4>2. phase[p] = "up" => Storing(p, u)
        BY <2>2, <2>3, <4>1 DEF Tracked
      <4> QED BY <2>1, <2>3, <2>4, <3>1, <3>2, <4>2 DEF Tracked
    <3>3. CASE ~(UnlockDelete(h) /\ HostOf[h] = p /\ user[h] = u)
      <4>1. localPlayers'[p][u] = localPlayers[p][u]
        BY <1>2, <2>1, <2>6, <3>3, <1>t DEF Continue, LockStore, UnlockSucceeds,
           UnlockRefused, UnlockCommitFails, UnlockDelete, WhereGet, SetEntry, KeysTypeOK
      <4> QED BY <2>1, <2>3, <3>1, <4>1 DEF Tracked
    <3> QED BY <3>2, <3>3
  <2> QED BY <1>2, <2>5, <2>6 DEF Continue, UnlockSucceeds, UnlockRefused,
         UnlockCommitFails, UnlockDelete, WhereGet
<1>3. ASSUME NEW q \in Peers, Life(q)
      PROVE  Tracked'
  <2>0. localKey[p][u] # 0
    <3>1. UNCHANGED keyVars \/ (visiting[q] \in Users /\ DeleteKeys(q, visiting[q]))
      BY <1>3 DEF Life, Start, StopBegin, StopPick, StopCommit, StopEnd, Exit,
         UnregisterTxn, TypeOK
    <3> QED BY <3>1, <1>d DEF keyVars
  <2>1. CASE Exit(q)
    <3>1. CASE q = p
      BY <2>1, <3>1 DEF Exit, Tracked, TypeOK
    <3>2. CASE q # p
      <4>1. /\ phase'[p] = phase[p] /\ quiet[p] /\ toVisit'[p] = toVisit[p]
            /\ visiting'[p] = visiting[p] /\ localPlayers'[p] = localPlayers[p]
        BY <2>1, <3>2 DEF Exit, TypeOK, KeysTypeOK
      <4>2. Storing(p, u) => Storing(p, u)'
        BY <2>1, <3>2 DEF Exit, Storing
      <4> QED BY <1>0, <1>s, <2>0, <4>1, <4>2 DEF Tracked
    <3> QED BY <3>1, <3>2
  <2>2. ASSUME ~Exit(q)
        PROVE  quiet[p] /\ (Storing(p, u)' <=> Storing(p, u)) /\ pc' = pc
    BY <1>3, <2>2 DEF Life, Start, StopBegin, StopPick, StopCommit, StopEnd, procVars,
       Storing, TypeOK
  <2>3. CASE Start(q)
    <3>1. ~Exit(q)
      BY <2>3 DEF Start, Exit
    <3>2. Tracked
      BY <1>0, <2>0, <2>2, <3>1
    <3>3. CASE q = p
      BY <2>3, <3>3, <1>t DEF Start, Recovered, Tracked, TypeOK, KeysTypeOK, keyVars
    <3>4. CASE q # p
      <4>1. phase'[p] = phase[p] /\ localPlayers'[p] = localPlayers[p]
        BY <2>3, <3>4, <1>t DEF Start, TypeOK, KeysTypeOK
      <4> QED BY <1>s, <2>0, <2>2, <2>3, <3>1, <3>2, <4>1 DEF Start, Tracked
    <3> QED BY <3>3, <3>4
  <2>4. CASE StopBegin(q)
    <3>1. ~Exit(q)
      BY <2>4 DEF StopBegin, Exit, TypeOK
    <3>2. Tracked
      BY <1>0, <2>0, <2>2, <3>1
    <3>3. CASE q = p
      <4>1. phase[p] = "up" /\ phase'[p] = "stopping" /\ ~Storing(p, u)
        BY <2>4, <3>3 DEF StopBegin, Storing, TypeOK
      <4>2. localPlayers[p][u] # 0
        BY <2>0, <3>2, <4>1 DEF Tracked
      <4>3. u \in toVisit'[p] /\ localPlayers' = localPlayers
        BY <2>4, <3>3, <4>2 DEF StopBegin, TypeOK
      <4> QED BY <4>1, <4>2, <4>3 DEF Tracked
    <3>4. CASE q # p
      <4>1. phase'[p] = phase[p] /\ toVisit'[p] = toVisit[p]
        BY <2>4, <3>4 DEF StopBegin, TypeOK
      <4> QED BY <1>s, <2>0, <2>2, <2>4, <3>1, <3>2, <4>1 DEF StopBegin, Tracked
    <3> QED BY <3>3, <3>4
  <2>5. ASSUME NEW v \in Users, StopPick(q, v)
        PROVE  Tracked'
    <3>1. ~Exit(q)
      BY <2>5 DEF StopPick, Exit, TypeOK
    <3>2. Tracked
      BY <1>0, <2>0, <2>2, <3>1
    <3>3. \/ toVisit'[p] = toVisit[p] /\ visiting'[p] = visiting[p]
          \/ q = p /\ v # u /\ visiting[p] # u /\ (u \in toVisit[p] => u \in toVisit'[p])
          \/ q = p /\ v = u /\ (localPlayers[p][u] # 0 => visiting'[p] = u)
      BY <2>5 DEF StopPick, TypeOK
    <3> QED BY <1>s, <2>0, <2>2, <2>5, <3>1, <3>2, <3>3 DEF StopPick, Tracked
  <2>6. CASE StopCommit(q)
    <3>1. ~Exit(q)
      BY <2>6 DEF StopCommit, Exit, TypeOK, StopShape
    <3>2. Tracked
      BY <1>0, <2>0, <2>2, <3>1
    <3>3. ~(q = p /\ visiting[p] = u)
      BY <2>6, <2>0, <1>t DEF StopCommit, UnregisterTxn, DeleteKeys, KeysTypeOK
    <3>4. visiting[p] = u => visiting'[p] = u
      BY <2>6, <3>3 DEF StopCommit, TypeOK
    <3> QED BY <1>s, <2>0, <2>2, <2>6, <3>1, <3>2, <3>4 DEF StopCommit, Tracked
  <2>7. CASE StopEnd(q)
    <3>1. ~Exit(q)
      BY <2>7 DEF StopEnd, Exit, TypeOK
    <3>2. Tracked
      BY <1>0, <2>0, <2>2, <3>1
    <3>3. q # p
      BY <2>7, <3>2 DEF StopEnd, Tracked
    <3>4. phase'[p] = phase[p]
      BY <2>7, <3>3 DEF StopEnd, TypeOK
    <3> QED BY <1>s, <2>0, <2>2, <2>7, <3>1, <3>2, <3>4 DEF StopEnd, Tracked
  <2> QED BY <1>3, <2>1, <2>3, <2>4, <2>5, <2>6, <2>7 DEF Life
<1>4. CASE UNCHANGED vars
  <2>1. Storing(p, u) => Storing(p, u)'
    BY <1>4 DEF vars, procVars, Storing
  <2> QED BY <1>4, <2>1, <1>0 DEF vars, keyVars, stopVars, Tracked
<1>5. CASE Tracked'
  BY <1>5 DEF Tracked
<1> QED BY <1>1, <1>2, <1>3, <1>4, <1>5 DEF Next

-----------------------------------------------------------------------------
(* Theorems.                                                               *)

\* The empty registry satisfies the inductive invariant.
LEMMA RegistryInit == Init => RegistryInv
<1> SUFFICES ASSUME Init PROVE RegistryInv
  OBVIOUS
<1>1. TypeOK
  BY TypeInit
<1>2. /\ LocalKeyIsLock /\ LockIsLocalKey /\ UserKeyNamesHolder /\ RevisionsPast
      /\ RevisionIsOwn
  BY DEF Init, KeysInit, Absent, LocalKeyIsLock, LockIsLocalKey, UserKeyNamesHolder,
     RevisionsPast, RevisionIsOwn
<1>3. DownIsClean /\ StopShape /\ EntryBacked /\ StorePending
  BY DEF Init, KeysInit, DownIsClean, StopShape, EntryBacked, StorePending
<1> QED BY <1>1, <1>2, <1>3 DEF RegistryInv

\* The inductive invariant is inductive.
LEMMA RegistryStep == RegistryInv /\ [Next]_vars => RegistryInv'
<1> SUFFICES ASSUME RegistryInv, [Next]_vars PROVE RegistryInv'
  OBVIOUS
<1>1. TypeOK /\ KeyPart /\ DownIsClean /\ StopShape /\ EntryBacked /\ StorePending
  BY DEF RegistryInv, KeyPart
<1>2. TypeOK'
  BY <1>1, TypeStep
<1>3. KeyPart'
  BY <1>1, <1>2, KeyStep
<1>4. DownIsClean' /\ StopShape' /\ StorePending' /\ EntryBacked'
  BY <1>1, <1>2, DownStep, StoreStep, EntryStep
<1> QED BY <1>2, <1>3, <1>4 DEF RegistryInv, KeyPart

\* The inductive invariant of the user lock: whatever calls, commit errors,
\* stops, crashes and restarts interleave, the three keys of a user agree,
\* a peer that can unlock holds the lock, and (without commit errors) the
\* entries of a running peer are backed by its keys.
THEOREM RegistryInvariant == Spec => []RegistryInv
  BY RegistryInit, RegistryStep, PTL DEF Spec

\* The keys of a user agree in every reachable state.
THEOREM KeysAlwaysConsistent == Spec => []KeysConsistent
<1>1. RegistryInv => KeysConsistent
  BY DEF RegistryInv, KeysConsistent
<1> QED BY <1>1, RegistryInvariant, PTL

\* With reliable commits, no two running peers of one type both have a user,
\* outside the window of an unlock.
THEOREM HolderIsUnique == ASSUME ~TxnMayFail PROVE Spec => []HolderUnique
<1>1. RegistryInv => HolderUnique
  <2> SUFFICES ASSUME RegistryInv,
                      NEW p \in Peers, NEW q \in Peers, NEW u \in Users,
                      p # q, TypeOf[p] = TypeOf[q], phase[p] = "up", phase[q] = "up",
                      localPlayers[p][u] # 0, localPlayers[q][u] # 0,
                      ~Releasing(p, u), ~Releasing(q, u)
               PROVE  FALSE
    BY DEF HolderUnique
  <2>1. localKey[p][u] # 0 /\ localKey[q][u] # 0
    BY DEF RegistryInv, EntryBacked
  <2> QED BY <2>1 DEF RegistryInv, LocalKeyIsLock, Holder
<1> QED BY <1>1, RegistryInvariant, PTL

\* Nobody but the holder releases a lock, and only the lock it took.
THEOREM OnlyHolderReleases == Spec => LockReleasedOnlyByHolder
<1> DEFINE Release ==
      \A t \in Types, u \in Users :
        peerKey[t][u].create # 0 /\ peerKey'[t][u] # peerKey[t][u] =>
            LET p == peerKey[t][u].value
            IN  \/ \E g \in Procs :
                     /\ HostOf[g] = p /\ user[g] = u
                     /\ held[g] = peerKey[t][u].create
                     /\ pc[g] = "unlock_txn" /\ pc'[g] # "unlock_txn"
                \/ visiting[p] = u /\ visiting'[p] # u
<1>1. RegistryInv /\ RegistryInv' /\ [Next]_vars => [Release]_vars
  <2> SUFFICES ASSUME RegistryInv, RegistryInv', [Next]_vars,
                      NEW t \in Types, NEW u \in Users,
                      peerKey[t][u].create # 0, peerKey'[t][u] # peerKey[t][u]
               PROVE  \/ \E g \in Procs :
                           /\ HostOf[g] = peerKey[t][u].value /\ user[g] = u
                           /\ held[g] = peerKey[t][u].create
                           /\ pc[g] = "unlock_txn" /\ pc'[g] # "unlock_txn"
                      \/ /\ visiting[peerKey[t][u].value] = u
                         /\ visiting'[peerKey[t][u].value] # u
    OBVIOUS
  <2>0. TypeOK /\ TypeOK' /\ KeyPart
    BY DEF RegistryInv, KeyPart
  <2>1. PICK p \in Peers : /\ p = peerKey[t][u].value /\ TypeOf[p] = t
                           /\ localKey[p][u] = peerKey[t][u].create
    BY DEF RegistryInv, LockIsLocalKey
  <2>2. localKey'[p][u] # localKey[p][u]
    <3> SUFFICES ASSUME localKey'[p][u] = localKey[p][u] PROVE FALSE
      OBVIOUS
    <3>1. peerKey'[t][u].value = p /\ peerKey'[t][u].create = localKey[p][u]
      BY <2>1 DEF RegistryInv, LocalKeyIsLock, Holder
    <3>2. peerKey[t][u] \in Key /\ peerKey'[t][u] \in Key
      BY <2>0 DEF TypeOK, KeysTypeOK
    <3> QED BY <2>1, <3>1, <3>2 DEF Key
  <2>3. CASE \E g \in Procs :
                 /\ UnlockSucceeds(g) \/ (TxnMayFail /\ UnlockCommitFails(g))
                 /\ HostOf[g] = p /\ user[g] = u /\ held[g] = localKey[p][u]
    <3>1. PICK g \in Procs :
                 /\ UnlockSucceeds(g) \/ (TxnMayFail /\ UnlockCommitFails(g))
                 /\ HostOf[g] = p /\ user[g] = u /\ held[g] = localKey[p][u]
      BY <2>3
    <3>2. pc[g] = "unlock_txn" /\ pc'[g] # "unlock_txn"
      BY <3>1, <2>0 DEF UnlockSucceeds, UnlockCommitFails, Goto, Return, TypeOK
    <3> QED BY <2>1, <3>1, <3>2
  <2>4. CASE StopCommit(p) /\ visiting[p] = u
    BY <2>0, <2>1, <2>4 DEF StopCommit, TypeOK
  <2> QED BY <2>0, <2>1, <2>2, <2>3, <2>4, ReleaseStep
<1> QED BY <1>1, RegistryInvariant, PTL DEF Spec, LockReleasedOnlyByHolder
\* /user/u names a peer that holds u whenever it exists, also when peers of
\* several types lock u, release it and overwrite each other, with commit
\* errors, stops and crashes between.
THEOREM UserKeyAlwaysNamesHolder == Spec => []UserKeyNamesHolder
<1>1. RegistryInv => UserKeyNamesHolder
  BY DEF RegistryInv
<1> QED BY <1>1, RegistryInvariant, PTL

\* The part about the orderly stop, inductive together with RegistryInv.
THEOREM StopInvariant == Spec => [](RegistryInv /\ StopInv)
<1>1. Init => StopInv
  BY DEF Init, KeysInit, Absent, StopInv, AbsentNamesNobody, ReleasedIsGone, QuietIsIdle,
     LockTracked
<1>2. RegistryInv /\ RegistryInv' /\ StopInv /\ [Next]_vars => StopInv'
  <2> SUFFICES ASSUME RegistryInv, RegistryInv', StopInv, [Next]_vars
               PROVE  StopInv'
    OBVIOUS
  <2>1. TypeOK /\ TypeOK' /\ KeyPart /\ StopShape /\ StorePending
    BY DEF RegistryInv, KeyPart
  <2>2. AbsentNamesNobody' /\ ReleasedIsGone'
    BY <2>1, AbsentStep, ReleasedStep DEF StopInv
  <2>3. QuietIsIdle' /\ LockTracked'
    BY <2>1, QuietStep, TrackStep DEF StopInv
  <2> QED BY <2>2, <2>3 DEF StopInv
<1> QED BY <1>1, <1>2, RegistryInvariant, PTL DEF Spec

\* With reliable commits, a peer whose stop no call overlapped leaves no user
\* locked, however its locks came about: taken, recovered after a crash, taken
\* again while an earlier unlock was still between its two halves.
THEOREM NormalExitAlwaysCleansUp ==
    ASSUME ~TxnMayFail PROVE Spec => []NormalExitCleansUp
<1>1. RegistryInv /\ StopInv => NormalExitCleansUp
  BY DEF StopInv, LockTracked, NormalExitCleansUp
<1> QED BY <1>1, StopInvariant, PTL

\* With reliable commits, every step in which WhereIsUser answers with a peer
\* names one that holds the user, or is between the halves of an unlock, or
\* is not up any more.
THEOREM WhereAlwaysFindsHolder ==
    ASSUME ~TxnMayFail PROVE Spec => WhereFindsHolder
<1> DEFINE Answer ==
      \A g \in Procs, u \in Users :
        /\ WhereIsLocal(g, u) \/ (WhereGet(g) /\ user[g] = u)
        /\ ret'[g] # NoPeer
        => LET p == ret'[g]
           IN  localKey[p][u] # 0 \/ Releasing(p, u) \/ phase[p] # "up"
<1>1. RegistryInv /\ StopInv => [Answer]_vars
  <2> SUFFICES ASSUME RegistryInv, StopInv, NEW g \in Procs, NEW u \in Users,
                      WhereIsLocal(g, u) \/ (WhereGet(g) /\ user[g] = u),
                      ret'[g] # NoPeer
               PROVE  \/ localKey[ret'[g]][u] # 0 \/ Releasing(ret'[g], u)
                      \/ phase[ret'[g]] # "up"
    OBVIOUS
  <2>0. TypeOK /\ HostOf[g] \in Peers
    BY DEF RegistryInv
  <2>1. CASE WhereIsLocal(g, u)
    <3>1. ret'[g] = HostOf[g] /\ localPlayers[HostOf[g]][u] # 0
      BY <2>0, <2>1 DEF WhereIsLocal, Return, TypeOK
    <3> QED BY <2>0, <3>1 DEF RegistryInv, EntryBacked
  <2>2. CASE WhereGet(g) /\ user[g] = u
    <3>1. ret'[g] = userKey[u].value
      BY <2>0, <2>2 DEF WhereGet, GetPeer, Return, TypeOK
    <3>2. userKey[u].create # 0
      BY <3>1 DEF StopInv, AbsentNamesNobody
    <3> QED BY <3>1, <3>2 DEF RegistryInv, UserKeyNamesHolder
  <2> QED BY <2>1, <2>2
<1> QED BY <1>1, StopInvariant, PTL DEF WhereFindsHolder

\* When all peers are of one type, a user that some peer holds can be found
\* through /user/u, through all locks, unlocks, stops, crashes and commit
\* errors. (With several types one of them deletes the key of the other.)
THEOREM LockedUserAlwaysFindable ==
    ASSUME \A p, q \in Peers : TypeOf[p] = TypeOf[q]
    PROVE  Spec => []LockedUserFindable
<1>1. Init => LockedUserFindable
  BY DEF Init, KeysInit, LockedUserFindable
<1>2. RegistryInv /\ LockedUserFindable /\ [Next]_vars => LockedUserFindable'
  <2> SUFFICES ASSUME RegistryInv, LockedUserFindable, [Next]_vars
               PROVE  LockedUserFindable'
    OBVIOUS
  <2>1. TypeOK /\ KeyPart /\ KeyInv /\ KeysTypeOK
    BY DEF RegistryInv, KeyPart, KeyInv, TypeOK
  <2>2. CASE UNCHANGED keyVars
    BY <2>2 DEF keyVars, LockedUserFindable
  <2>3. ASSUME NEW p \in Peers, NEW u \in Users, LockTxn(p, u)
        PROVE  LockedUserFindable'
    <3>1. localKey' = [localKey EXCEPT ![p][u] = rev + 1]
      BY <2>1, <2>3, LockTxnKeeps
    <3>2. userKey'[u].create # 0 /\ \A v \in Users \ {u} : userKey'[v] = userKey[v]
      BY <2>1, <2>3 DEF LockTxn, Put, KeysTypeOK
    <3> QED BY <2>1, <3>1, <3>2 DEF LockedUserFindable, KeysTypeOK
  <2>4. ASSUME NEW p \in Peers, NEW u \in Users, localKey[p][u] # 0, DeleteKeys(p, u)
        PROVE  LockedUserFindable'
    <3>1. \A q \in Peers : localKey'[q][u] = 0
      <4> SUFFICES ASSUME NEW q \in Peers, localKey'[q][u] # 0 PROVE FALSE
        OBVIOUS
      <4>1. q # p /\ localKey[q][u] # 0
        BY <2>1, <2>4 DEF DeleteKeys, KeysTypeOK
      <4> QED BY <2>4, <4>1 DEF RegistryInv, LocalKeyIsLock, Holder
    <3>2. \A q \in Peers, v \in Users \ {u} : localKey'[q][v] = localKey[q][v]
      BY <2>1, <2>4 DEF DeleteKeys, KeysTypeOK
    <3>3. \A v \in Users \ {u} : userKey'[v] = userKey[v]
      BY <2>1, <2>4 DEF DeleteKeys, KeysTypeOK
    <3> QED BY <3>1, <3>2, <3>3 DEF LockedUserFindable
  <2> QED BY <2>1, <2>2, <2>3, <2>4, TxnStep
<1> QED BY <1>1, <1>2, RegistryInvariant, PTL DEF Spec

-----------------------------------------------------------------------------
(* The refinement: the player registry implements the abstract lock, for   *)
(* every instance.                                                         *)

\* A lock key that does not exist names nobody.
AbsentLockIsFree ==
    \A t \in Types, u \in Users :
        peerKey[t][u].create = 0 => peerKey[t][u].value = NoPeer

\* What one step may do to the keys and to the set of running processes.
TakesLock(p, u) == phase[p] # "down" /\ UNCHANGED phase /\ LockTxn(p, u)

GivesBack(p, u) ==
    phase[p] # "down" /\ UNCHANGED phase /\ localKey[p][u] # 0 /\ DeleteKeys(p, u)

Starts(p) ==
    phase[p] = "down" /\ phase' = [phase EXCEPT ![p] = "up"] /\ UNCHANGED keyVars

Ends(p) ==
    phase[p] # "down" /\ phase' = [phase EXCEPT ![p] = "down"] /\ UNCHANGED keyVars

Invisible == UNCHANGED keyVars /\ RunningPeers' = RunningPeers

\* Every step of the registry is of one of five kinds: what a caller can see
\* of it is a lock taken, the peer's own lock given back, a process that starts
\* or ends, or nothing.
LEMMA StepKinds ==
    RegistryInv /\ [Next]_vars =>
        \/ \E p \in Peers, u \in Users : TakesLock(p, u) \/ GivesBack(p, u)
        \/ \E p \in Peers : Starts(p) \/ Ends(p)
        \/ Invisible
<1> SUFFICES ASSUME RegistryInv, [Next]_vars
             PROVE  \/ \E p \in Peers, u \in Users : TakesLock(p, u) \/ GivesBack(p, u)
                    \/ \E p \in Peers : Starts(p) \/ Ends(p)
                    \/ Invisible
  OBVIOUS
<1>t. /\ TypeOK /\ HostOf \in [Procs -> Peers] /\ DownIsClean /\ StopShape
      /\ RevisionsPast /\ RevisionIsOwn
      /\ phase \in [Peers -> {"down", "up", "stopping", "stopped"}]
  BY PlayerRegistryAssumption DEF RegistryInv, TypeOK
<1>i. UNCHANGED phase => RunningPeers' = RunningPeers
  BY DEF RunningPeers
<1>1. ASSUME NEW g \in Procs, NEW u \in Users, Call(g, u)
      PROVE  Invisible \/ TakesLock(HostOf[g], u)
  <2>1. CanCall(g) /\ UNCHANGED phase /\ (LockTxn(HostOf[g], u) \/ UNCHANGED keyVars)
    BY <1>1 DEF Call, LockSucceeds, LockRefused, LockCommitFails, UnlockLoad,
       UnlockNotFound, WhereIsLocal, WhereLoad, NoteCall
  <2> QED BY <2>1, <1>i DEF Invisible, TakesLock, CanCall
<1>2. ASSUME NEW g \in Procs, Continue(g)
      PROVE  Invisible \/ (GivesBack(HostOf[g], user[g]) /\ user[g] \in Users)
  <2>1. CASE UnlockSucceeds(g) \/ UnlockCommitFails(g)
    <3>1. /\ pc[g] = "unlock_txn" /\ UNCHANGED phase
          /\ UnlockTxn(HostOf[g], user[g], held[g]) \/ UNCHANGED keyVars
      BY <2>1 DEF UnlockSucceeds, UnlockCommitFails, stopVars
    <3>2. phase[HostOf[g]] # "down"
      BY <1>t, <3>1 DEF DownIsClean
    <3>3. CASE UnlockTxn(HostOf[g], user[g], held[g])
      <4>1. /\ localKey[HostOf[g]][user[g]] # 0 /\ user[g] \in Users
            /\ DeleteKeys(HostOf[g], user[g])
        BY <1>t, <3>1, <3>3, UnlockIsOwn DEF UnlockTxn
      <4> QED BY <3>1, <3>2, <4>1 DEF GivesBack
    <3> QED BY <3>1, <3>3, <1>i DEF Invisible
  <2>2. CASE ~(UnlockSucceeds(g) \/ UnlockCommitFails(g))
    BY <1>2, <2>2, <1>i DEF Continue, LockStore, UnlockRefused, UnlockDelete, WhereGet,
       stopVars, Invisible
  <2> QED BY <2>1, <2>2
<1>3. ASSUME NEW p \in Peers, Life(p)
      PROVE  Invisible \/ Starts(p) \/ Ends(p)
             \/ (visiting[p] \in Users /\ GivesBack(p, visiting[p]))
  <2>1. CASE Start(p) \/ Exit(p)
    BY <2>1 DEF Start, Exit, Starts, Ends
  <2>2. CASE StopCommit(p)
    <3>1. visiting[p] \in Users /\ phase[p] = "stopping" /\ UNCHANGED phase
      BY <1>t, <2>2 DEF StopCommit, StopShape, TypeOK
    <3> QED BY <1>i, <2>2, <3>1 DEF StopCommit, UnregisterTxn, GivesBack, Invisible
  <2>3. CASE StopBegin(p) \/ StopEnd(p) \/ \E u \in Users : StopPick(p, u)
    <3>1. UNCHANGED keyVars
      BY <2>3 DEF StopBegin, StopEnd, StopPick
    <3>2. \A q \in Peers : phase'[q] # "down" <=> phase[q] # "down"
      BY <1>t, <2>3 DEF StopBegin, StopEnd, StopPick
    <3> QED BY <3>1, <3>2 DEF Invisible, RunningPeers
  <2> QED BY <1>3, <2>1, <2>2, <2>3 DEF Life
<1>4. CASE UNCHANGED vars
  BY <1>4, <1>i DEF vars, stopVars, Invisible
<1> QED BY <1>1, <1>2, <1>3, <1>4, <1>t DEF Next

\* The lock keys a step leaves: free ones name nobody.
LEMMA AbsentLockStep == RegistryInv /\ AbsentLockIsFree /\ [Next]_vars => AbsentLockIsFree'
<1> SUFFICES ASSUME RegistryInv, AbsentLockIsFree, [Next]_vars,
                    NEW t \in Types, NEW v \in Users, peerKey'[t][v].create = 0
             PROVE  peerKey'[t][v].value = NoPeer
  BY DEF AbsentLockIsFree
<1>t. KeysTypeOK /\ TypeOf \in [Peers -> Types]
  BY PlayerKeysAssumption DEF RegistryInv, TypeOK
<1>1. ASSUME NEW p \in Peers, NEW u \in Users, LockTxn(p, u)
      PROVE  peerKey'[t][v].value = NoPeer
  BY <1>1, <1>t DEF LockTxn, Put, KeysTypeOK, AbsentLockIsFree, Locked
<1>2. ASSUME NEW p \in Peers, NEW u \in Users, DeleteKeys(p, u)
      PROVE  peerKey'[t][v].value = NoPeer
  BY <1>2, <1>t DEF DeleteKeys, Absent, KeysTypeOK, AbsentLockIsFree
<1>3. CASE UNCHANGED keyVars
  BY <1>3 DEF keyVars, AbsentLockIsFree
<1> QED BY <1>1, <1>2, <1>3, StepKinds DEF TakesLock, GivesBack, Starts, Ends, Invisible

\* The empty registry is the empty lock.
LEMMA AbstractInit == Init => Abstract!Init /\ AbsentLockIsFree
  BY DEF Init, KeysInit, Absent, Abstract!Init, LockHolders, RunningPeers, AbsentLockIsFree

\* Step simulation: a step of the registry is a step of the abstract lock or
\* leaves it alone.
LEMMA AbstractStep ==
    RegistryInv /\ AbsentLockIsFree /\ [Next]_vars => [Abstract!Next]_(Abstract!lockVars)
<1> SUFFICES ASSUME RegistryInv, AbsentLockIsFree, [Next]_vars
             PROVE  [Abstract!Next]_(Abstract!lockVars)
  OBVIOUS
<1>t. /\ KeysTypeOK /\ TypeOf \in [Peers -> Types] /\ LocalKeyIsLock
      /\ phase \in [Peers -> {"down", "up", "stopping", "stopped"}]
  BY PlayerKeysAssumption DEF RegistryInv, TypeOK
<1>p. UNCHANGED phase => RunningPeers' = RunningPeers
  BY DEF RunningPeers
<1>h. UNCHANGED keyVars => LockHolders' = LockHolders
  BY DEF LockHolders, keyVars
<1>1. ASSUME NEW p \in Peers, NEW u \in Users, TakesLock(p, u)
      PROVE  Abstract!Acquire(p, u)
  <2>1. p \in RunningPeers /\ RunningPeers' = RunningPeers
    BY <1>1, <1>p DEF TakesLock, RunningPeers
  <2>2. LockHolders[TypeOf[p]][u] = NoPeer
    BY <1>1, <1>t DEF TakesLock, LockTxn, Locked, LockHolders, AbsentLockIsFree, KeysTypeOK, Key
  <2>3. LockHolders' = [LockHolders EXCEPT ![TypeOf[p]][u] = p]
    BY <1>1, <1>t DEF TakesLock, LockTxn, Put, LockHolders, KeysTypeOK
  <2> QED BY <2>1, <2>2, <2>3 DEF Abstract!Acquire
<1>2. ASSUME NEW p \in Peers, NEW u \in Users, GivesBack(p, u)
      PROVE  Abstract!Release(p, u)
  <2>1. p \in RunningPeers /\ RunningPeers' = RunningPeers
    BY <1>2, <1>p DEF GivesBack, RunningPeers
  <2>2. LockHolders[TypeOf[p]][u] = p
    BY <1>2, <1>t DEF GivesBack, LocalKeyIsLock, Holder, LockHolders, KeysTypeOK
  <2>3. LockHolders' = [LockHolders EXCEPT ![TypeOf[p]][u] = NoPeer]
    BY <1>2, <1>t DEF GivesBack, DeleteKeys, Absent, LockHolders, KeysTypeOK
  <2> QED BY <2>1, <2>2, <2>3 DEF Abstract!Release
<1>3. ASSUME NEW p \in Peers, Starts(p)
      PROVE  Abstract!Begin(p)
  <2>1. p \notin RunningPeers /\ RunningPeers' = RunningPeers \cup {p}
    BY <1>3, <1>t DEF Starts, RunningPeers
  <2> QED BY <1>3, <1>h, <2>1 DEF Starts, Abstract!Begin
<1>4. ASSUME NEW p \in Peers, Ends(p)
      PROVE  Abstract!End(p)
  <2>1. p \in RunningPeers /\ RunningPeers' = RunningPeers \ {p}
    BY <1>4, <1>t DEF Ends, RunningPeers
  <2> QED BY <1>4, <1>h, <2>1 DEF Ends, Abstract!End
<1>5. CASE Invisible
  BY <1>5, <1>h DEF Invisible, Abstract!lockVars
<1> QED BY <1>1, <1>2, <1>3, <1>4, <1>5, StepKinds DEF Abstract!Next

\* player.go implements UserLock, whatever the peers, types, users, goroutines
\* and bounds, and also when commits fail with an unknown outcome.
THEOREM RegistryImplementsLock == Spec => ImplementsUserLock
<1>1. Spec => [](RegistryInv /\ AbsentLockIsFree)
  <2>1. Init => AbsentLockIsFree
    BY AbstractInit
  <2> QED BY <2>1, AbsentLockStep, RegistryInvariant, PTL DEF Spec
<1>2. Init => Abstract!Init
  BY AbstractInit
<1> QED BY <1>1, <1>2, AbstractStep, PTL DEF Spec, ImplementsUserLock, Abstract!Spec
=============================================================================
