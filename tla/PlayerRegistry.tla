--------------------------- MODULE PlayerRegistry ---------------------------
(***************************************************************************)
(* registry/player.go: the user lock.  Every peer runs goroutines that     *)
(* call LockLocalUser, UnlockLocalUser and WhereIsUser, in any order and   *)
(* at the same time; it stops in order (unregisterLocalPlayers), crashes   *)
(* at any moment, and starts again (recoverSelfPeerPlayers).  A step is    *)
(* one access to etcd or to localPlayers: the code holds no lock between   *)
(* two of them.                                                            *)
(***************************************************************************)
EXTENDS PlayerKeys

CONSTANTS
    Procs,      \* goroutines that call the registry
    HostOf,     \* the peer each of them runs in
    NoUser,
    TxnMayFail, \* whether Commit may return an error
    MaxRev      \* bound: no lock is attempted from this revision on

ASSUME PlayerRegistryAssumption ==
    /\ HostOf \in [Procs -> Peers]
    /\ NoUser \notin Users
    /\ TxnMayFail \in BOOLEAN
    /\ MaxRev \in Nat

VARIABLES
    phase,      \* "down", "up", "stopping" (in player_registry.stop), "stopped"
    pc,         \* what each goroutine is about to do
    user,       \* the argument of its call
    held,       \* the create revision it read or was given
    ret,        \* the *gira.Peer its last call returned (the error is the action)
    toVisit,    \* users the Range of unregisterLocalPlayers has still to visit
    visiting,   \* the user whose transaction it is about to commit
    quiet       \* history: no call overlapped the peer's stop so far, and no
                \* unlock removed the entry of a later lock

procVars == <<pc, user, held, ret>>
stopVars == <<phase, toVisit, visiting, quiet>>
vars == <<keyVars, localPlayers, procVars, stopVars>>

TypeOK ==
    /\ KeysTypeOK
    /\ phase \in [Peers -> {"down", "up", "stopping", "stopped"}]
    /\ pc \in [Procs -> {"idle", "lock_store", "unlock_txn", "unlock_delete",
                         "where_get"}]
    /\ user \in [Procs -> Users \cup {NoUser}]
    /\ held \in [Procs -> Nat]
    /\ ret \in [Procs -> Peers \cup {NoPeer}]
    /\ toVisit \in [Peers -> SUBSET Users]
    /\ visiting \in [Peers -> Users \cup {NoUser}]
    /\ quiet \in [Peers -> BOOLEAN]
    /\ \A g \in Procs :
          /\ pc[g] = "idle" <=> user[g] = NoUser
          /\ pc[g] \in {"lock_store", "unlock_txn", "unlock_delete"} => held[g] # 0

Init ==
    /\ KeysInit
    /\ phase = [p \in Peers |-> "down"]
    /\ pc = [g \in Procs |-> "idle"]
    /\ user = [g \in Procs |-> NoUser]
    /\ held = [g \in Procs |-> 0]
    /\ ret = [g \in Procs |-> NoPeer]
    /\ toVisit = [p \in Peers |-> {}]
    /\ visiting = [p \in Peers |-> NoUser]
    /\ quiet = [p \in Peers |-> TRUE]

-----------------------------------------------------------------------------
(* The two ends of a call.                                                 *)

\* g calls at the moment of its first access; nothing of the call precedes it.
CanCall(g) == pc[g] = "idle" /\ phase[HostOf[g]] # "down"

\* A call during or after the stop is one the stop may miss.
NoteCall(g) ==
    /\ quiet' = [quiet EXCEPT ![HostOf[g]] = @ /\ phase[HostOf[g]] = "up"]
    /\ UNCHANGED <<phase, toVisit, visiting>>

Goto(g, l, u, r) ==
    /\ pc' = [pc EXCEPT ![g] = l]
    /\ user' = [user EXCEPT ![g] = u]
    /\ held' = [held EXCEPT ![g] = r]
    /\ ret' = [ret EXCEPT ![g] = NoPeer]

Return(g, p) ==
    /\ pc' = [pc EXCEPT ![g] = "idle"]
    /\ user' = [user EXCEPT ![g] = NoUser]
    /\ held' = [held EXCEPT ![g] = 0]
    /\ ret' = [ret EXCEPT ![g] = p]

\* Registry.GetPeer: the peer cache may not have the peer (yet, or any more).
GetPeer(full) == {full, NoPeer}

-----------------------------------------------------------------------------
(* LockLocalUser                                                           *)

LockSucceeds(g, u) ==
    /\ CanCall(g)
    /\ rev < MaxRev
    /\ LockTxn(HostOf[g], u)
    /\ Goto(g, "lock_store", u, rev + 1)
    /\ NoteCall(g)
    /\ UNCHANGED localPlayers

LockRefused(g, u) ==
    /\ CanCall(g)
    /\ Locked(HostOf[g], u)
    /\ \E p \in GetPeer(Holder(HostOf[g], u)) : Return(g, p)
    /\ NoteCall(g)
    /\ UNCHANGED <<keyVars, localPlayers>>

\* Commit returned an error: the transaction was applied, or it was not.
LockCommitFails(g, u) ==
    /\ TxnMayFail
    /\ CanCall(g)
    /\ rev < MaxRev
    /\ LockTxn(HostOf[g], u) \/ UNCHANGED keyVars
    /\ Return(g, NoPeer)
    /\ NoteCall(g)
    /\ UNCHANGED localPlayers

LockStore(g) ==
    /\ pc[g] = "lock_store"
    /\ SetEntry(HostOf[g], user[g], held[g])
    /\ Return(g, NoPeer)
    /\ UNCHANGED <<keyVars, stopVars>>

-----------------------------------------------------------------------------
(* UnlockLocalUser                                                         *)

UnlockLoad(g, u) ==
    /\ CanCall(g)
    /\ localPlayers[HostOf[g]][u] # 0
    /\ Goto(g, "unlock_txn", u, localPlayers[HostOf[g]][u])
    /\ NoteCall(g)
    /\ UNCHANGED <<keyVars, localPlayers>>

UnlockNotFound(g, u) ==
    /\ CanCall(g)
    /\ localPlayers[HostOf[g]][u] = 0
    /\ Return(g, NoPeer)
    /\ NoteCall(g)
    /\ UNCHANGED <<keyVars, localPlayers>>

UnlockSucceeds(g) ==
    /\ pc[g] = "unlock_txn"
    /\ UnlockTxn(HostOf[g], user[g], held[g])
    /\ Goto(g, "unlock_delete", user[g], held[g])
    /\ UNCHANGED <<localPlayers, stopVars>>

UnlockRefused(g) ==
    /\ pc[g] = "unlock_txn"
    /\ ~Unlockable(user[g], held[g])
    /\ \E p \in GetPeer(Holder(HostOf[g], user[g])) : Return(g, p)
    /\ UNCHANGED <<keyVars, localPlayers, stopVars>>

UnlockCommitFails(g) ==
    /\ TxnMayFail
    /\ pc[g] = "unlock_txn"
    /\ UnlockTxn(HostOf[g], user[g], held[g]) \/ UNCHANGED keyVars
    /\ Return(g, NoPeer)
    /\ UNCHANGED <<localPlayers, stopVars>>

\* localPlayers.Delete removes whatever entry the user has by now.
UnlockDelete(g) ==
    /\ pc[g] = "unlock_delete"
    /\ SetEntry(HostOf[g], user[g], 0)
    /\ quiet' = [quiet EXCEPT ![HostOf[g]] =
                    @ /\ localPlayers[HostOf[g]][user[g]] \in {0, held[g]}]
    /\ Return(g, NoPeer)
    /\ UNCHANGED <<keyVars, phase, toVisit, visiting>>

-----------------------------------------------------------------------------
(* WhereIsUser                                                             *)

WhereIsLocal(g, u) ==
    /\ CanCall(g)
    /\ localPlayers[HostOf[g]][u] # 0
    /\ Return(g, HostOf[g])
    /\ NoteCall(g)
    /\ UNCHANGED <<keyVars, localPlayers>>

WhereLoad(g, u) ==
    /\ CanCall(g)
    /\ localPlayers[HostOf[g]][u] = 0
    /\ Goto(g, "where_get", u, 0)
    /\ NoteCall(g)
    /\ UNCHANGED <<keyVars, localPlayers>>

\* The answer is nil when the key is absent (its value is NoPeer then), when
\* the Get fails and when the peer cache does not have the peer.
WhereGet(g) ==
    /\ pc[g] = "where_get"
    /\ \E p \in GetPeer(userKey[user[g]].value) : Return(g, p)
    /\ UNCHANGED <<keyVars, localPlayers, stopVars>>

-----------------------------------------------------------------------------
(* The life of a peer.                                                     *)

\* Process start: recoverSelfPeerPlayers runs before anything calls.
Start(p) ==
    /\ phase[p] = "down"
    /\ phase' = [phase EXCEPT ![p] = "up"]
    /\ localPlayers' = [localPlayers EXCEPT ![p] = Recovered(p)]
    /\ UNCHANGED <<keyVars, procVars, toVisit, visiting, quiet>>

\* The Range over localPlayers sees every entry that is there from the start
\* and may or may not see one stored meanwhile.
StopBegin(p) ==
    /\ phase[p] = "up"
    /\ phase' = [phase EXCEPT ![p] = "stopping"]
    /\ \E S \in SUBSET Users :
          /\ \A u \in Users : localPlayers[p][u] # 0 => u \in S
          /\ toVisit' = [toVisit EXCEPT ![p] = S]
    /\ quiet' = [quiet EXCEPT ![p] =
                    @ /\ \A g \in Procs : HostOf[g] = p => pc[g] = "idle"]
    /\ UNCHANGED <<keyVars, localPlayers, procVars, visiting>>

StopPick(p, u) ==
    /\ phase[p] = "stopping"
    /\ visiting[p] = NoUser
    /\ u \in toVisit[p]
    /\ toVisit' = [toVisit EXCEPT ![p] = @ \ {u}]
    /\ visiting' = [visiting EXCEPT ![p] = IF localPlayers[p][u] = 0 THEN NoUser ELSE u]
    /\ UNCHANGED <<keyVars, localPlayers, procVars, phase, quiet>>

StopCommit(p) ==
    /\ visiting[p] # NoUser
    /\ \/ UnregisterTxn(p, visiting[p])
       \/ localKey[p][visiting[p]] = 0 /\ UNCHANGED keyVars
       \/ TxnMayFail /\ UNCHANGED keyVars
    /\ visiting' = [visiting EXCEPT ![p] = NoUser]
    /\ UNCHANGED <<localPlayers, procVars, phase, toVisit, quiet>>

StopEnd(p) ==
    /\ phase[p] = "stopping"
    /\ visiting[p] = NoUser
    /\ toVisit[p] = {}
    /\ phase' = [phase EXCEPT ![p] = "stopped"]
    /\ UNCHANGED <<keyVars, localPlayers, procVars, toVisit, visiting, quiet>>

\* The process ends: a crash, or the exit after the stop.
Exit(p) ==
    /\ phase[p] # "down"
    /\ phase' = [phase EXCEPT ![p] = "down"]
    /\ localPlayers' = [localPlayers EXCEPT ![p] = [u \in Users |-> 0]]
    /\ pc' = [g \in Procs |-> IF HostOf[g] = p THEN "idle" ELSE pc[g]]
    /\ user' = [g \in Procs |-> IF HostOf[g] = p THEN NoUser ELSE user[g]]
    /\ held' = [g \in Procs |-> IF HostOf[g] = p THEN 0 ELSE held[g]]
    /\ ret' = [g \in Procs |-> IF HostOf[g] = p THEN NoPeer ELSE ret[g]]
    /\ toVisit' = [toVisit EXCEPT ![p] = {}]
    /\ visiting' = [visiting EXCEPT ![p] = NoUser]
    /\ quiet' = [quiet EXCEPT ![p] = TRUE]
    /\ UNCHANGED keyVars

Call(g, u) ==
    \/ LockSucceeds(g, u)
    \/ LockRefused(g, u)
    \/ LockCommitFails(g, u)
    \/ UnlockLoad(g, u)
    \/ UnlockNotFound(g, u)
    \/ WhereIsLocal(g, u)
    \/ WhereLoad(g, u)

Continue(g) ==
    \/ LockStore(g)
    \/ UnlockSucceeds(g)
    \/ UnlockRefused(g)
    \/ UnlockCommitFails(g)
    \/ UnlockDelete(g)
    \/ WhereGet(g)

Life(p) ==
    \/ Start(p)
    \/ StopBegin(p)
    \/ \E u \in Users : StopPick(p, u)
    \/ StopCommit(p)
    \/ StopEnd(p)
    \/ Exit(p)

Next ==
    \/ \E g \in Procs, u \in Users : Call(g, u)
    \/ \E g \in Procs : Continue(g)
    \/ \E p \in Peers : Life(p)

Spec == Init /\ [][Next]_vars

-----------------------------------------------------------------------------
(* Properties.                                                             *)

\* The local key of a peer and the lock of its type agree: the peer named by
\* the lock, and no other, has the local key, with the same create revision.
\* (LockLocalUser and the two ways to delete only compare one of the keys.)
LocalKeyIsLock ==
    \A p \in Peers, u \in Users : localKey[p][u] # 0 =>
        /\ Holder(p, u) = p
        /\ peerKey[TypeOf[p]][u].create = localKey[p][u]

LockIsLocalKey ==
    \A t \in Types, u \in Users : peerKey[t][u].create # 0 =>
        /\ peerKey[t][u].value \in Peers
        /\ TypeOf[peerKey[t][u].value] = t
        /\ localKey[peerKey[t][u].value][u] = peerKey[t][u].create

KeysConsistent == LocalKeyIsLock /\ LockIsLocalKey

\* The peer /user/u names holds the user, even when several types lock it and
\* overwrite each other's value.
UserKeyNamesHolder ==
    \A u \in Users : userKey[u].create # 0 =>
        /\ userKey[u].value \in Peers
        /\ localKey[userKey[u].value][u] # 0

\* A lock is released by its holder only, for the revision it was taken at:
\* by an unlock that was given that very revision, or by the holder's stop.
\* No other call, no put and no restart takes it away.
LockReleasedOnlyByHolder ==
    [][\A t \in Types, u \in Users :
        peerKey[t][u].create # 0 /\ peerKey'[t][u] # peerKey[t][u] =>
            LET p == peerKey[t][u].value
            IN  \/ \E g \in Procs :
                     /\ HostOf[g] = p /\ user[g] = u
                     /\ held[g] = peerKey[t][u].create
                     /\ pc[g] = "unlock_txn" /\ pc'[g] # "unlock_txn"
                \/ visiting[p] = u /\ visiting'[p] # u]_vars

Releasing(p, u) ==
    \E g \in Procs : HostOf[g] = p /\ pc[g] = "unlock_delete" /\ user[g] = u

\* Two running peers of one type never both have a user in localPlayers,
\* except while one of them is between the unlock transaction and the
\* localPlayers.Delete that follows it.
HolderUnique ==
    \A p, q \in Peers, u \in Users :
        /\ p # q /\ TypeOf[p] = TypeOf[q]
        /\ phase[p] = "up" /\ phase[q] = "up"
        /\ localPlayers[p][u] # 0 /\ localPlayers[q][u] # 0
        => Releasing(p, u) \/ Releasing(q, u)

\* The peer WhereIsUser answers holds the user at the moment of the answer,
\* unless that peer is between the two halves of an unlock or is stopping.
\* (The local answer comes from localPlayers, the other one from /user/u.)
WhereFindsHolder ==
    [][\A g \in Procs, u \in Users :
        /\ WhereIsLocal(g, u) \/ (WhereGet(g) /\ user[g] = u)
        /\ ret'[g] # NoPeer
        => LET p == ret'[g]
           IN  localKey[p][u] # 0 \/ Releasing(p, u) \/ phase[p] # "up"]_vars

\* player.go:30: with the user id the server the user is on can be found, as
\* long as a peer holds the user.
LockedUserFindable ==
    \A p \in Peers, u \in Users : localKey[p][u] # 0 => userKey[u].create # 0

\* player.go:5: a peer that stopped in order, with no call overlapping the
\* stop, has left no user locked in etcd, not even one that it recovered after
\* a crash. The exception is a lock whose entry a late localPlayers.Delete of
\* an earlier unlock removed: that one the stop does not visit.
NormalExitCleansUp ==
    \A p \in Peers, u \in Users :
        phase[p] = "stopped" /\ quiet[p] => localKey[p][u] = 0

\* The lock keys alone, without create revisions, shared keys and localPlayers,
\* are the lock the registry promises.
LockHolders == [t \in Types |-> [u \in Users |-> peerKey[t][u].value]]

RunningPeers == {p \in Peers : phase[p] # "down"}

Abstract == INSTANCE UserLock WITH holder <- LockHolders, running <- RunningPeers

\* player.go implements UserLock: with all its split transactions, stale
\* revisions, crashes and commits of unknown outcome, every step of the
\* registry takes a free lock, gives back the caller's own lock, starts or ends
\* a process, or changes nothing a caller can see.
ImplementsUserLock == Abstract!Spec

-----------------------------------------------------------------------------
(* The inductive invariant behind these properties.                        *)

\* Revision r is one that peer p has for user u: in localPlayers or in the
\* hands of a goroutine that is about to use it.
Knows(p, u, r) ==
    \/ localPlayers[p][u] = r
    \/ \E g \in Procs :
         /\ HostOf[g] = p /\ user[g] = u /\ held[g] = r
         /\ pc[g] \in {"lock_store", "unlock_txn", "unlock_delete"}

\* No key and no goroutine has a revision from the future.
RevisionsPast ==
    /\ \A u \in Users : userKey[u].create <= rev
    /\ \A p \in Peers, u \in Users : localKey[p][u] <= rev /\ localPlayers[p][u] <= rev
    /\ \A g \in Procs : held[g] <= rev

\* Why comparing the create revision of the shared user key is enough: while
\* /user/u has a revision that p has, p's own local key has that revision.
RevisionIsOwn ==
    \A p \in Peers, u \in Users, r \in 1..rev :
        Knows(p, u, r) /\ userKey[u].create = r => localKey[p][u] = r

\* A peer that is down has nothing in memory.
DownIsClean ==
    \A p \in Peers : phase[p] = "down" =>
        /\ \A u \in Users : localPlayers[p][u] = 0
        /\ \A g \in Procs : HostOf[g] = p => pc[g] = "idle"

StopShape ==
    \A p \in Peers : visiting[p] # NoUser => phase[p] = "stopping"

\* Without commit errors, an entry of a running peer has its local key.
EntryBacked ==
    ~TxnMayFail =>
        \A p \in Peers, u \in Users :
            phase[p] = "up" /\ localPlayers[p][u] # 0 =>
                localKey[p][u] # 0 \/ Releasing(p, u)

\* A goroutine that won the lock and has not stored the entry is the only one
\* in its peer that has the revision, so nobody can have released the lock.
StorePending ==
    \A g \in Procs : pc[g] = "lock_store" /\ phase[HostOf[g]] = "up" =>
        /\ localKey[HostOf[g]][user[g]] = held[g]
        /\ localPlayers[HostOf[g]][user[g]] # held[g]
        /\ \A h \in Procs \ {g} :
              HostOf[h] = HostOf[g] /\ user[h] = user[g] => held[h] # held[g]

\* The inductive invariant: what every reachable state of the registry keeps.
RegistryInv ==
    /\ TypeOK
    /\ LocalKeyIsLock
    /\ LockIsLocalKey
    /\ UserKeyNamesHolder
    /\ RevisionsPast
    /\ RevisionIsOwn
    /\ DownIsClean
    /\ StopShape
    /\ EntryBacked
    /\ StorePending

\* A /user key that does not exist names nobody.
AbsentNamesNobody ==
    \A u \in Users : userKey[u].create = 0 => userKey[u].value = NoPeer

\* Between the two halves of an unlock the lock it released is not there: a
\* local key of the user is one of a later lock.
ReleasedIsGone ==
    \A g \in Procs : pc[g] = "unlock_delete" => localKey[HostOf[g]][user[g]] # held[g]

\* While no call has overlapped the stop of a peer, its goroutines are idle in it.
QuietIsIdle ==
    \A p \in Peers : quiet[p] /\ phase[p] \in {"stopping", "stopped"} =>
        \A g \in Procs : HostOf[g] = p => pc[g] = "idle"

Storing(p, u) == \E g \in Procs : HostOf[g] = p /\ pc[g] = "lock_store" /\ user[g] = u

\* Why the stop of a quiet peer misses no lock: the peer has the entry of every
\* lock it holds, or is about to store it, and its stop has the user ahead.
LockTracked ==
    ~TxnMayFail =>
        \A p \in Peers, u \in Users : quiet[p] /\ localKey[p][u] # 0 =>
            /\ phase[p] = "up" => localPlayers[p][u] = localKey[p][u] \/ Storing(p, u)
            /\ phase[p] = "stopping" =>
                  localPlayers[p][u] # 0 /\ (u \in toVisit[p] \/ visiting[p] = u)
            /\ phase[p] # "stopped"

\* The part of the inductive invariant that the orderly stop needs.
StopInv == AbsentNamesNobody /\ ReleasedIsGone /\ QuietIsIdle /\ LockTracked

=============================================================================
