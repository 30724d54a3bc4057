----------------------------- MODULE PlayerKeys -----------------------------
(***************************************************************************)
(* The keys the player registry keeps in etcd for a user, and the etcd     *)
(* transactions of registry/player.go on them.  A transaction is one step: *)
(* etcd applies it atomically.  For every user u there are                 *)
(*   /user/u                    userKey[u], shared by all application types *)
(*   /peer_type/user/<type>/u   peerKey[type][u], the lock of that type     *)
(*   /peer/user/<full name>/u   localKey[peer][u], one per peer             *)
(* A key is its value (the peer it names) and its create revision, 0 when  *)
(* the key does not exist.  A put on an existing key keeps the create      *)
(* revision, as etcd does.                                                 *)
(***************************************************************************)
EXTENDS Integers

CONSTANTS
    Peers,      \* the processes, by full name (appFullName)
    Types,      \* application types (Registry.name)
    TypeOf,     \* the type of every peer
    Users,
    NoPeer      \* the value of a key that does not exist, a nil *gira.Peer

ASSUME PlayerKeysAssumption ==
    /\ TypeOf \in [Peers -> Types]
    /\ NoPeer \notin Peers

VARIABLES
    rev,            \* the revision of the etcd store
    userKey,
    peerKey,
    localKey,       \* only the create revision: the value is a login time
    localPlayers    \* player_registry.localPlayers: CreateRevision, 0 if none

keyVars == <<rev, userKey, peerKey, localKey>>

Absent == [value |-> NoPeer, create |-> 0]

Key == [value : Peers \cup {NoPeer}, create : Nat]

KeysTypeOK ==
    /\ rev \in Nat
    /\ userKey \in [Users -> Key]
    /\ peerKey \in [Types -> [Users -> Key]]
    /\ localKey \in [Peers -> [Users -> Nat]]
    /\ localPlayers \in [Peers -> [Users -> Nat]]

KeysInit ==
    /\ rev = 0
    /\ userKey = [u \in Users |-> Absent]
    /\ peerKey = [t \in Types |-> [u \in Users |-> Absent]]
    /\ localKey = [p \in Peers |-> [u \in Users |-> 0]]
    /\ localPlayers = [p \in Peers |-> [u \in Users |-> 0]]

\* Mutant of Locked: only the peer's own key is compared.
LockedLocally(p, u) == localKey[p][u] # 0

\* The lock of u for p's application type, the condition of LockLocalUser.
Locked(p, u) == peerKey[TypeOf[p]][u].create # 0

Holder(p, u) == peerKey[TypeOf[p]][u].value

\* OpPut at revision r.
Put(key, p, r) ==
    [value |-> p, create |-> IF key.create = 0 THEN r ELSE key.create]

\* Then-branch of LockLocalUser: the three puts, all at revision rev + 1.
LockTxn(p, u) ==
    /\ ~Locked(p, u)
    /\ rev' = rev + 1
    /\ userKey' = [userKey EXCEPT ![u] = Put(@, p, rev + 1)]
    /\ peerKey' = [peerKey EXCEPT ![TypeOf[p]][u] = Put(@, p, rev + 1)]
    /\ localKey' = [localKey EXCEPT ![p][u] = IF @ = 0 THEN rev + 1 ELSE @]

\* Mutants of DeleteKeys: the lock, or /user/u, is left behind.
DeleteAllButLock(p, u) ==
    /\ rev' = rev + 1
    /\ userKey' = [userKey EXCEPT ![u] = Absent]
    /\ localKey' = [localKey EXCEPT ![p][u] = 0]
    /\ UNCHANGED peerKey
DeleteOwnKeys(p, u) ==
    /\ rev' = rev + 1
    /\ peerKey' = [peerKey EXCEPT ![TypeOf[p]][u] = Absent]
    /\ localKey' = [localKey EXCEPT ![p][u] = 0]
    /\ UNCHANGED userKey

\* The three OpDelete that both ways of unlocking use.
DeleteKeys(p, u) ==
    /\ rev' = rev + 1
    /\ userKey' = [userKey EXCEPT ![u] = Absent]
    /\ peerKey' = [peerKey EXCEPT ![TypeOf[p]][u] = Absent]
    /\ localKey' = [localKey EXCEPT ![p][u] = 0]

\* UnlockLocalUser compares the create revision of the *user* key.
Unlockable(u, r) == userKey[u].create = r

\* Mutant of UnlockTxn: the deletes without a condition.
UnlockUnchecked(p, u, r) == DeleteKeys(p, u)

UnlockTxn(p, u, r) == Unlockable(u, r) /\ DeleteKeys(p, u)

\* unregisterLocalPlayers only asks that the local key exists.
UnregisterTxn(p, u) == localKey[p][u] # 0 /\ DeleteKeys(p, u)

\* Mutant of Recovered: a restarted peer forgets the users it had locked.
RecoveredNothing(p) == [u \in Users |-> 0]

\* recoverSelfPeerPlayers: every local key of p becomes an entry, with the
\* create revision of that key.
Recovered(p) == localKey[p]

SetEntry(p, u, r) == localPlayers' = [localPlayers EXCEPT ![p][u] = r]
=============================================================================
