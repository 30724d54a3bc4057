# gira in TLA+

Specifications of the concurrent core of gira, a Go framework for game servers
(`src/`): the user lock that a cluster of servers keeps in etcd, the registries
of peers and services beside it, the game hall that logs players in and out
over that lock and serves them, the gateway that forwards their messages, and
the gate with its client connections. TLC checks each on small instances. The
safety properties of all of them, and that the registry of players implements
a plain lock, are also proved with TLAPS, for every number of processes, users,
services, streams and goroutines and for all queue sizes.

## 1. The system

A gira cluster consists of processes ("peers"), each of an application type
(hall, gateway, ...). All of them register in etcd. A client connects to a
gateway's **gate** (TCP or websocket); the gateway opens a gRPC stream to a
**hall** chosen for the user; the hall locks the user in the **registry**,
loads the player and serves the stream. A second login of the same user, to
the same or to another hall, finds the lock taken, asks the holder with
`UserInstead` to give the user up, and tries again.

| component (source) | state | operations | talks to | what is hard | what makes it correct |
|---|---|---|---|---|---|
| player registry (`registry/player.go`) | three etcd keys per user; `localPlayers`, a sync.Map with the create revision of the lock | `LockLocalUser`, `UnlockLocalUser`, `WhereIsUser`, `recoverSelfPeerPlayers`, `unregisterLocalPlayers` | etcd; called by the hall and the gateway | etcd and `localPlayers` change in two steps with no mutex; a stale revision; crashes (the keys have no lease); a commit that fails after it was applied | one holder per user and type; only the holder releases; the holder can be found; a normal exit leaves nothing |
| hall (`framework/smallgame/game/hall`) | `sessionDict`, `sessionCount`; per session `isClosed`, `clientCancelFunc`, `chClientResponse` | `ClientStream`/`newSession`, `Instead`, `Kick`, `Close`, the stop loop of `Serve` | registry, halls through `UserInstead`, gateway streams | `Close` called by four parties; a session is published before it is complete; takeover while a login is in progress; crash in the middle | one session per user in play, and it holds the lock; logins end; a stopped hall has saved its players |
| hall session loop (`session.go`: `serve`, pushes; `server.go`: `ClientStream`) | `chClientRequest`, `chClientResponse`, `chPeerPush`, the actor's inbox, `mu` | message, response, push, tick, save, actor request, `Yield` | the player's code | three workers behind one mutex, sends under it, channels made after the goroutines start and closed under their users | a kick reaches the client, a client that leaves is logged out, goroutines end, pushes return |
| gate connection (`gate/conn.go`, `gate/session.go`) | `state`, `chSend`, `chMessage`, `lastAt`, `errCtx` | handshake, read and write goroutines, `Recv`, `Push`, `Kick`, `Close` | the socket, the handler, the server's map of sessions | three goroutines and a handler per connection, two bounded channels, timers, shutdown | everything received is delivered, everything sent is written before the close, all goroutines end, the session leaves the server |
| gate server (`gate/server.go`) | `sessions`, counters, `mu`, maintenance status | `Serve`, `Shutdown`, `Kick`, `Maintain`, `storeSession`, `sessionClosed` | connections | `Kick` sends under the mutex; the map is read without it | kick and shutdown end |
| packet and message codec (`gate/packet`, `gate/message`) | decoder buffer | encode, decode | the connection | packets split and joined by the transport | decode of encode is the identity, however the bytes are cut |
| gate client (`gate/client`) | sequence number, routes | `Dial`, `Request`, `Recv` | the gate | the mirror image of the connection | answers meet their requests |
| peer registry (`registry/peer.go`) | lease, own key, map of peers | register, keep alive, watch, unregister | etcd, resolver | lease expiry against exit; a key left from before a restart; a Get followed by a watch | a live peer is registered; two processes never hold one name; views catch up |
| service registry (`registry/service.go`) | groups, services, word trie | register, watch, select | etcd, peer registry | two independent watches; own registrations seen as events | a registered service is found, a stopped process leaves none |
| upstreams, gateway session (`framework/smallgame/gateway`) | map of hall peers; per client a stream and a pending buffer | `OnPeerAdd/Delete/Update`, `SelectPeer`, reconnect | gate, hall, registry | a stream replaced while another goroutine uses it | messages are delivered in order, once |
| runtime, service container (`app`, `service`) | services, contexts | start, stop, signal | everything | order of stop | services stop before the registry |
| actor (`actor`) | a request channel | `Call`, `Notify` | the session loop | a caller waiting for a loop that has ended | a call ends |

The rest (configuration, logging, databases, platform SDKs, HTTP helpers, code
generators, generated protobuf code) keeps no protocol state.

## 2. Modules

| module | models | extends |
|---|---|---|
| `PlayerKeys` | the three etcd keys and the transactions of `player.go` on them, `localPlayers` | |
| `PlayerRegistry` | the user lock: calls by concurrent goroutines, start, stop, crash | `PlayerKeys` |
| `UserLock` | what the registry promises: a lock per user and type (abstract) | |
| `PlayerRegistryProofs` | the proofs, of the refinement too | `PlayerRegistry` |
| `HallSession` | login, takeover, kick, close, stop, crash of halls | `PlayerKeys` |
| `HallSessionProofs` | the proofs: inside a hall, across halls, at the exit | `HallSession` |
| `HallLoop` | the goroutines of one session of a hall | |
| `HallLoopProofs` | the proofs | `HallLoop` |
| `PeerRegistry` | peer keys, leases, watches, restart and exit of processes | |
| `WordTrie` | the prefix index of services, as operators | |
| `ServiceRegistry` | services of processes | `PeerRegistry`, `WordTrie` |
| `ServiceRegistryProofs` | the proofs, of `WordTrie`'s operators too | `ServiceRegistry` |
| `Upstream` | a gateway's map of halls | `PeerRegistry` |
| `UpstreamProofs` | the proofs, of `PeerRegistry`'s properties too | `Upstream` |
| `GatewaySession` | a client's session in the gateway | |
| `GatewaySessionProofs` | the proofs | `GatewaySession` |
| `GateConn` | one connection of the gate | |
| `GateConnProofs` | the proofs | `GateConn` |
| `GateServer` | the gate server around its connections | |
| `GateServerProofs` | the proofs | `GateServer` |
| `MC...` | the instances for TLC | the module they name |

`Upstream` and `ServiceRegistry` are compositions: their next-state relations
contain the steps of `PeerRegistry` for every process, joined with what the
handlers in the gateway, or the service registry of the process, do on the
same event. `HallSession` and `HallLoop` share the life of a session (the
first has the parties that open and close it, the second what runs inside),
as do `GateServer` and `GateConn`; in each pair one module has the other's
part as a few states.

Operators called "Mutant of X" are variants of X with one plausible mistake in
them (a dropped guard, a missing reset). No specification uses them: they
serve to see that each property fails when X is replaced by them.

### PlayerKeys, PlayerRegistry

etcd is external. It is modelled as a store with one revision counter and
atomic transactions; a put on an existing key keeps its create revision. For
each user there are `/user/u` (`userKey`, one for all types), the lock
`/peer_type/user/<type>/u` (`peerKey`) and `/peer/user/<peer>/u` (`localKey`).
`LockTxn`, `UnlockTxn` and `UnregisterTxn` are the three transactions,
`Recovered` what a restarted peer reads back.

A call is split where the code gives up control: one step per access to etcd
or to `localPlayers`. So `LockLocalUser` is `LockSucceeds` (the transaction)
followed by `LockStore`, and `UnlockLocalUser` is `UnlockLoad`, the
transaction (`UnlockSucceeds` or `UnlockRefused`), `UnlockDelete`. Commit
errors (`LockCommitFails`, `UnlockCommitFails`, the last disjunct of
`StopCommit`) either apply the transaction or do not. `GetPeer` may always
fail to know a peer, because the peer cache is fed by a watch of its own.
`Exit` ends the process at any point: a crash, or the end after a stop. The
variable `quiet` is history: it tells the stops that no call overlapped.

### HallSession

A stream is one run of `ClientStream`, and the session it makes has its name.
`login` is where the stream is, `close` where the body of `Close` of its
session is (whoever runs it), `rpc` where the `UserInstead` or `Kick` handler
is, `stopAt` where the stop loop is. `UnlockLocalUser` has one definition, a
step machine with its caller's program counter as a parameter, used by the
three callers of the code: the deferred function of a failed `newSession`,
`Close`, and `Instead` when it finds no session. Nil fields are modelled as
what they do: calling a nil `clientCancelFunc` panics (after the
compare-and-swap on `isClosed`), sending on a nil `chClientResponse` blocks.
A panic is recovered in `sendPacketAndClose` and ends the process in the stop
loop, as in the code. The player's data is not modelled; `Playing(s)` says
when the session may change it. `sessionDict` and `sessionCount` change in two
statements of the code (`session.go:107` and 112, 117 and 118, 406 and 407),
and in two steps here: the stop loop reads the count in between
(`CountSession`, `UncountSession`, `CloseCount`). A `Commit` that reports an
error, of a lock (`LockFails`) or in `UnlockLocalUser`, is `commit_fails`:
applied or not. `chClientResponse` may be full while `client.Send` does not
return (`slow_client`, `ClientReads`); a kick then waits for room.

`Env` lists what the environment of an instance may do. Two logins of a user
at the same time (`login_overlap`), a login to a hall that is still closing
the user's last session (`same_hall`) and a stop during a login
(`stop_in_login`) are real events that the code does not handle; runs without
them show what holds otherwise, and section 5 what goes wrong with them.

### HallLoop

One session from `newSession` to the end of the last goroutine it started:
the stream (`ClientStream`), its reader, the three workers of `serve`, the
body of `Close`, a kick and the callers of `Push`. Channels are counters with
a state (nil, open, closed). `session.mu` is a variable, because the code
sends to channels while it holds it: `at` says where a worker is, and "hung"
is the send on a channel that was not made yet. A select that was entered with
a nil `chClientRequest` is "blind" until a ticker wakes it. The player's code
is "busy": it may end, push to its client, or give the mutex up (`Yield`).
`env` chooses, once per behaviour, which things happen around the session.
`client.Send` of the stream is assumed to return: a client that does not read
while the gateway keeps its stream open is left to `HallSession`.

### PeerRegistry, Upstream

A process is a deployment: a full name and an address; two may share a name.
The peer key has a value, create and mod revisions and an owner of its lease.
`RegisterSelf` and `UnregisterSelf` are the transactions, `InitPeers` the Get,
`events` what the watch has yet to deliver, `OnKvPut` and `OnKvDelete` its
handlers, `ReRegister` and `NoteRevision` the two halves of the registration
after a loss, `NotifyBegin` and `Notify` the goroutine that tells the handlers
of the peers known at the start. `trouble` is history: the lease of the
process ran out, or one of its commits failed. In `Upstream` the handlers of
one gateway change `upstream_map`; an upstream that is served and not in the
map is a stray. `serve` is dial and stream, `Info`, ready. A process has a
build time, which it reports in its `Info` (`BuildOf`); `SelectPeer` drops every
upstream that is not of the newest build it sees, and only then those whose
context is closed (`Candidates`, `Selectable`).

### ServiceRegistry, WordTrie

The two keys of a service, the start (`ListLeftovers`, `CleanLeftover`,
`InitServices`), `RegisterService` split into its transaction and its three
local stores, the watch's handlers split in the same places, and the stop.
The trie is the function from the paths of its nodes to their set flag;
`TrieSearch` on it is compared with the map of services. Calls to etcd of a
process with `svc_fails` in `Env` may report an error: a registration applied
all the same leaves keys with no entry and no `CreateRevision`
(`RegisterServiceFails`), the stop goes on to its next service
(`StopService`), the start ends (`InitServicesFails`). `unsure` is history: the
services of which such a call was. `UnregisterService` of a service whose key
does not exist panics (`service.go:605`); that is a crash of the process.

### GatewaySession

`ServeClientStream` and `serve` of a session with its three goroutines; a
message is its number. The nil check of `session.stream` and the `Send` on it
are two steps, between which the other goroutine may clear it; so are the
opening and the publication of a new stream. A panic is the end of the
goroutine, with the session's context cancelled by the recover. What the hall
sends is pushed to the client by the goroutine that receives it
(`ProcessStreamMessage`), and like the suspension and the resumption it waits
while the client's `chSend` is full (`clientFull`, which the gate may leave so
for ever). `Send` waits while the hall does not read (`hallFull`).

### GateConn, GateServer

Variables of `GateConn` follow `Conn` and the locals of `serve`. Each
goroutine has its own control variable (`main`, `reader`, `writer`,
`watcher`, `sender`); a channel is a sequence and a closed flag; `cancelled`
is `errCtx`. Packets are reduced to their kind: bytes, the decoder,
encryption, middlewares and logging are left out, and a read that completes no
packet is a stutter. Messages are numbered as they enter `chMessage`, so that
order and loss can be seen. A timer that has expired closes the socket at any
later moment, also after the handshake it guarded has succeeded: the code has
that window between the deadline and the goroutine's `Close`. `quiet` counts
ticks since `lastAt`.

`GateServer` has several connections, each with how far it has come (`at`) and
what its client does to its write goroutine (`client`: reads, is slow, has
filled `chSend`, has left, or the goroutine is jammed in its flush loop by a
failed `Write` or a heartbeat timeout), and whether its read goroutine waits
for a handler that has gone (`stuck`). These are the ways in which `GateConn`
misses the end of a connection (`ServeEnds` there); such a connection does not
end here either. A kick packet on a socket that is still good leaves a jammed
goroutine jammed. `Locked` is `mu` in the hands of
`Kick`. Both TCP, for which `Shutdown` does not wait, and websocket servers
are initial states.

## 3. Properties and runs

| run | instance | checks | shows |
|---|---|---|---|
| `PlayerLock` | 2 halls of one type, 1 user, 3 goroutines (two of them in one hall), no commit errors, `MaxRev = 5` | `HolderUnique`, `LockedUserFindable`, `NormalExitCleansUp`, `WhereFindsHolder`, `ImplementsUserLock` | under crashes, stops and restarts a user has one holder per type, who is where `WhereIsUser` says; a stop leaves no lock behind; the registry implements `UserLock` |
| `PlayerTxnErrors` | 2 peers of 2 types, 3 goroutines (two of them in one peer), commit errors, `MaxRev = 4` | `KeysConsistent`, `UserKeyNamesHolder`, `LockReleasedOnlyByHolder` | what remains when transactions fail before or after they are applied, and when two types lock one user |
| `HallTakeover` | 2 halls, 3 streams of one user, a kick, failing loads, commits of locks and unlocks that report an error, clients that leave with responses unread, crashes and restarts | `HallInv`, `PlayingHoldsLock`, `LockReleasable` | takeover is safe when logins follow each other, wherever a hall crashes or a commit fails |
| `HallReconnect` | 1 hall, 2 streams of one user, a kick, every environment event but commit errors | `HallSingleSession`, `CountMatchesDict` | inside a hall `sessionDict` keeps sessions apart even when the lock has been lost, and `sessionCount` follows it through every order of the two statements |
| `HallProgress` | 2 halls, 2 streams, stops, failing loads, fair | `LoginEnds`, `StopEnds`, `ExitSaves` | logins and stops end, and a stopped hall has logged out its players |
| `HallLoops` | one session, channels of one place, 2 messages, 2 pushers, 2 events, four environments, fair | `LoopInv`, `GoneClientLoggedOut`, `GoroutinesEnd`, `InputsTaken` | a kick's packet is delivered, a client that goes is logged out even when a worker is stuck with the mutex, everything ends except in the ways section 5 names |
| `Upstreams` | a gateway, a hall, a second deployment of that hall, a second hall of a newer build; a stop, crashes, a lost lease, failing commits, 3 starts, fair | `PeersInv`, `StopReleasesKey`, `UpstreamsFollowPeers`, `HallBecomesSelectable`, `LostKeyReclaimed` | the peer key has one owner and is released; the gateway's peers and upstreams follow it; a hall that stays becomes selectable, unless one of a newer build does |
| `Services` | 2 processes, services `hall` and `hall/1`, 2 calls, a stop, a crash and failing calls to etcd of one, 2 starts | `ServicesInv`, `ServicesFound`, `StopReleasesServices` | the two keys of a service agree, views and index catch up, a stop releases what it registered, apart from the races and the failed calls the properties name |
| `GatewaySessions` | a client with 4 messages that may stop reading, halls that go away 3 times or do not read, a stop, fair | `GatewayInv`, `SessionEnds`, `SuspendedResumes` | messages go on in order, none lost or twice, over any number of streams; sessions end, or wait in one of the three ways the property names; a suspended client that reads is resumed |
| `GateSafety` | backlogs of 1, one sender with 2 calls, 2 ticks, every environment event | `RecvDrains`, `SendsFlushed` | received messages are delivered, accepted packets written before the close |
| `GateProgress` | backlogs of 1, a client that is silent or sends more than fits behind its ack, one sender with 3 calls, 2 ticks, a handler that may quit, failing `Write`s, `Shutdown`, fair | `HandshakeEnds`, `SendReturns`, `ServeEnds` | every goroutine ends after a close, from whichever side, except in the three ways `ServeEnds` names |
| `GateShutdown` | 2 connections, TCP and websocket, one `Maintain`, handlers that quit, fair | `ServerInv`, `ShutdownReturns`, `SessionsEnd` | a closed server takes no connection; `Shutdown` returns unless a connection that cannot end holds it up; the others leave the map |

The properties are stated, with the lines they are about, at the end of each
module. A module's main invariant is the conjunction of its type invariant
and its first safety property: `HallInv` has `SingleSession`, `LoopInv`
`FlushDelivers`, `PeersInv` `ViewCaughtUp` and `OneServerPerName`,
`ServicesInv` `ServiceKeysAgree`, `GatewayInv` `ForwardedInOrder`, `ServerInv`
`NoConnAfterShutdown`. `StopReleasesKey` is `StopFindsKey` and
`ExitReleasesKey`, `ServicesFound` is `ServicesCaughtUp` and
`IndexMatchesServices`. The inductive invariants of section 4 (`RegistryInv`,
`StopInv`, `ConnInv`, `DictIInv`, `LockIInv`, `SaveIInv`, `LoopIInv`, `UpIInv`,
`SvcIInv`, `GatewayIInv`, `ServerIInv`) stand after the properties of their modules; TLC
checked them on these instances before they were proved, and no run repeats
that. Properties that are not self-explanatory:

* `LockReleasedOnlyByHolder` is an action property: whatever step removes or
  changes the lock key is an unlock by the holder, with the very revision of
  that lock, or the holder's own stop. The code compares something else (the
  create revision of `/user/u`), and the proof shows why that is enough.
* `HolderUnique` and `WhereFindsHolder` except the window in which the code
  has committed an unlock and not yet deleted the `localPlayers` entry.
* `SingleSession` is about sessions that may write the user's data,
  `PlayingHoldsLock` about the lock being theirs all the while.
* `NormalExitCleansUp` is about stops that no call overlapped and in whose
  process no late `Delete` took the entry of a newer lock (`quiet`); locks
  recovered after a crash are included.
* `StopReleasesServices` is about a process whose registry of services was
  started (`phase` is not "none"). A process that ends before that has
  registered nothing, and what an earlier run of it left stays until the next
  start cleans it up.
* `CountMatchesDict` counts the sessions whose goroutine is between the two
  statements: an increment or decrement that is missing or done twice shows.
* `LockReleasable` excepts one lock: that of a login whose `Commit` was applied
  and reported an error. `newSession` returns before it defers the unlock, and
  the hall has the lock, in no entry, until it is started again.
* `StopReleasesServices` excepts `raced` and `unsure`, the services of which a
  transaction reported an error.
* `SendReturns` and `ServeEnds` are stated for every environment, and except
  what blocks for ever in the code: `chSend` that nobody closes any more
  (`SendLeftOpen`), a read goroutine that waits for a handler that has gone
  (`ReaderStuck`), a silent handshake whose timer `Shutdown` has stopped.
* Properties that name an exception (`Hung`, `Jammed`, `Stranded`, `PushWaits`,
  `SendWaits`, `SendLeftOpen`, `ReaderStuck`, `raced`, `unsure`, `dropped`,
  `trouble`, `reopened`, `Holds`, `CannotEnd`) hold in every other case, and
  fail without it: each exception is a behaviour of the code, in section 5.

### Bounds

* `MaxRev` stops new locks from that revision on; unlocks and deletes go on.
  Five revisions allow two full cycles of lock and unlock and a third lock,
  the shortest history in which a stale revision meets a newer lock of the
  same and of another peer. With three or four, the runs with two users or
  with commit errors still lock, release and lock again.
* Streams: three logins allow a takeover there and back (hall a, hall b, hall
  a), with a crash between any two steps. Every session of one user competes
  for the same keys, so one user is enough; users do not interact.
* Backlogs of 1 are the smallest for which a queue can be full. In
  `GateProgress` three calls are one more than the two that a write goroutine
  with failing `Write`s still takes, so that the last finds `chSend` full, and
  the packets behind the ack are one message more than `chMessage` takes; in
  `GateSafety` a read decodes to two packets. Two ticks suffice for a heartbeat
  timeout because `lastAt` is as old as the connection. Backlog 0 (a
  rendezvous) is not modelled.
* `HallLoop`: channels of one place are full after one message; two messages
  and two pushers make each wait; two ticks, yields, pushes of the player or
  actor calls (`MaxEvents`) let every two of them meet. `MaxReplies` is 1: a
  response and a push after it are sent in the same way. The environments are
  groups of things that interact; all at once is beyond five minutes.
* `Upstreams`: three starts are the gateway, the hall and one more, a restart
  of either, the second deployment or the second hall. One expiry per behaviour,
  of the first deployment's lease. Two halls are enough for the choice of the
  newest build. Only the halls' keys are tracked (`Follows`): the gateway's own
  key has no observer there.
* `Services`: two registrations and a restart allow a service to move from one
  process to the other and a stale view of it; `hall` is a prefix of `hall/1`,
  so that deleting one must leave the other. Leases do not expire there, and a
  single process stops, crashes or gets errors from etcd.
* `GatewaySessions`: four messages, the login among them, allow two pending
  ones and two after; three outages, one more than a repeated reconnection.
* `HallReconnect` has no commit errors: what the lock does inside one hall is
  in `HallTakeover`, and `DictInvariant` is proved with them.
* `GateShutdown`: two connections are one that `Kick` waits for and one that
  registers or leaves meanwhile.
* No symmetry is used: peers and goroutines play different parts in the
  instances.

Deadlock is checked in the registry's runs (a registry can always make a
step). Streams and connections end, so the hall's and the gate's
configurations turn the check off; what must not block there is stated as
liveness.

### Fairness

`HallSession`: weak fairness on every login, closing stream, `Close`, handler
and stop loop: goroutines are scheduled, etcd and `player.Load` answer. None
on clients (they need not leave), kicks, crashes, restarts or new logins.
`LoginEnds` is checked with clients that read: a login waits for a kick, and
the kick for room in the channel of a client that does not.

`HallLoop`: weak fairness on every goroutine, on the ticker that wakes a blind
loop, and on the player's code returning. A select of Go chooses at random
among what is ready, so that an alternative that stays ready is taken; none of
the properties needs more, because what could keep a select busy for ever
(ticks, messages) is bounded. None on clients, callers and other events. That the stream goes on includes that
`client.Send` returns, which gRPC's flow control does not promise for a gateway
that keeps the stream open and does not read it; the four properties are about
the others.

`Upstream`: weak fairness on the watch and notify goroutines of the processes
and on `serve` of the upstreams together (a dial is answered or the hall is
gone): each takes finitely many steps between two starts, stops, crashes or
expiries, on which there is none, so that asking it of their disjunction is
enough. `ServiceRegistry` has safety properties
only.

`GatewaySession`: weak fairness on the three goroutines and on the end of a
login, which has a timeout. None on the client and the halls, not even
that they read what is sent to them: what depends on them says so in the
property.

`GateServer`: weak fairness on `Shutdown`, the waiting in `Kick` being at most
120 seconds, and on every connection (the handshake has a timeout). None on
clients and handlers.

`GateConn`: weak fairness on the disjunction of: the read goroutine once it has
something to process or the socket is closed, the write goroutine (a `Write`
returns, that is, the client reads or is gone), the waiting goroutine, the
handler's `Recv` and its return after `ErrBrokenPipe`, the timers, and
goroutines inside `send` or `Close`. Each takes finitely many steps between two
events of the environment. None on the client's packets, its disconnect, ticks,
new calls, `Shutdown`, or a handler that returns early.

## 4. Proofs

`PlayerRegistryProofs`, for arbitrary `Peers`, `Types`, `Users`, `Procs`,
`HostOf`, `TypeOf`, `MaxRev`, with and without commit errors:

* `TypeCorrect`: `Spec => []TypeOK`.
* `RegistryInvariant`: `Spec => []RegistryInv`.
* `KeysAlwaysConsistent`: `Spec => []KeysConsistent`.
* `HolderIsUnique`: `Spec => []HolderUnique`, if commits do not fail.
* `OnlyHolderReleases`: `Spec => LockReleasedOnlyByHolder`.
* `UserKeyAlwaysNamesHolder`: `Spec => []UserKeyNamesHolder`.
* `StopInvariant`: `Spec => [](RegistryInv /\ StopInv)`.
* `NormalExitAlwaysCleansUp`: `Spec => []NormalExitCleansUp`, if commits do not
  fail.
* `WhereAlwaysFindsHolder`: `Spec => WhereFindsHolder`, if commits do not fail.
* `LockedUserAlwaysFindable`: `Spec => []LockedUserFindable`, if all peers are
  of one type.

Assumptions: every peer has a type, every goroutine a peer, the values for
"no peer" and "no user" are neither (`PlayerKeysAssumption`,
`PlayerRegistryAssumption`, both evaluated by TLC in the runs).

The argument. `KeysConsistent` alone is not inductive: an unlock deletes the
lock of its own type after comparing the create revision of the shared key
`/user/u`. That is only safe if a revision a peer remembers (in `localPlayers`
or in a goroutine inside a call), when it is the present create revision of
`/user/u`, is also that of the peer's own local key: `RevisionIsOwn`. Its
preservation needs that no remembered revision lies in the future
(`RevisionsPast`), or a new key could get it by chance. From `RevisionIsOwn`
and `LocalKeyIsLock`, a successful unlock deletes a lock that names this peer
(`UnlockIsOwn`), which gives both the consistency of the keys and
`OnlyHolderReleases`. For `HolderUnique` the entry in `localPlayers` must be
tied to the key: `EntryBacked`, which rests on `StorePending` (between its
transaction and its `Store`, a goroutine is the only one in its peer that has
the new revision, so nobody can have released it) and on `DownIsClean`,
`StopShape` (a peer that is down has nothing in memory; transactions of the
stop happen only in a stop). `RegistryInv` is the conjunction of all of these.

The orderly stop needs `StopInv` on top of it: while no call has overlapped
the stop (`QuietIsIdle`) and commits do not fail, a lock of the peer is in
`localPlayers` with its revision or in a goroutine about to store it, and
during the stop its user is still to be visited (`LockTracked`). A `Delete`
that is pending after an unlock must find its lock gone from etcd
(`ReleasedIsGone`), or it could take the entry of a lock that is needed.
`WhereFindsHolder` is `EntryBacked` for an answer from memory and
`UserKeyNamesHolder` for one from etcd. `LockedUserFindable` is inductive with
`RegistryInv` for one type: whoever deletes `/user/u` has just released the
only lock of the user. Both restrictions are those of the code (section 5).

The refinement, under the same assumptions: `RegistryImplementsLock`,
`Spec => ImplementsUserLock`. The mapping is `holder` = the value of the lock
key, `running` = the peers that are not down. Initial states map to initial
states (`AbstractInit`), and every step maps to one of `UserLock` or to a
stutter (`AbstractStep`): `StepKinds` sorts the steps of the registry by what
they do to the keys. That an unlock or a stop releases the caller's own lock
comes from `RegistryInv`; that a successful lock finds the lock free needs one
more invariant, a key that does not exist has no value (`AbsentLockIsFree`).

`GateConnProofs`, for any backlogs of at least 1, any batches of packets, any
number of senders, any bounds and any environment:

* `ConnInvariant`: `Spec => []ConnInv`, which contains `TypeOK`.
* `AllSendsFlushed`, `AllMessagesDelivered`: `Spec => []SendsFlushed`,
  `[]RecvDrains`.

The argument. No goroutine runs before the handshake is over, and the count
follows the registration (`Lifecycle`). `SendsFlushed` is not inductive: a sender could put a packet into `chSend`
after the write goroutine has ended. It cannot, because a write goroutine that
ends without a failed `Write` has left the first loop through `close(chSend)`
(`SendQueue`). `RecvDrains` follows from the contents of `chMessage` being
exactly the numbers between `delivered` and `accepted`, in order, and from the
channel being closed by the read goroutine's return alone (`RecvQueue`): a
message cannot be accepted after `Recv` has reported the end.

`HallSessionProofs`, for arbitrary halls, users, streams, kicks, `MaxRev`.
Assumption: a stream has a hall and a user, a kick too, and no stream is a
kick (`HallAssumption`).

* In every environment: `DictInvariant`, `HallKeepsOneSession`,
  `CountAlwaysMatches`: `Spec => []DictIInv`, `[]HallSingleSession`,
  `[]CountMatchesDict`.
* Under `OrderlyEnv` (logins of a user follow each other, none comes to a hall
  that stops or still has the user) and `OneLockType` (all halls are of one
  application type): `LockInvariant`, `UserPlaysOnce`,
  `PlayingAlwaysHoldsLock`, `LockStaysReleasable`: `Spec => []LockIInv`,
  `[]HallInv`, `[]PlayingHoldsLock`, `[]LockReleasable`. Crashes, restarts,
  stops, kicks, failing loads, commits that report an error, clients that leave
  or do not read are all in it; `LockReleasable` itself names the one lock that
  such a commit loses.
* Under `SafeStop` (no crash, no login that runs into a stop):
  `StoppedHallSaves`, `Spec => ExitSaves`.

The argument. Inside a hall everything rests on who may take an entry out of
`sessionDict`: only the `Close` of the entry's own session, which runs once
because of the compare-and-swap on `isClosed`. So from `LoadOrStore` to the
last step of `Close` the entry is the session's (`InDict`), `Close` is only on
served sessions that are marked closed (`SessionShape`). The counter is the
number of entries, less the sessions that are in and not counted yet, plus those
that are out and still counted (`CountMatchesDict`, `DictCounted`, with the
library's facts about cardinality): each of the six statements moves one session
between these sets. Across halls, one session at most *owns*
the user, from the transaction that locks to the one that releases
(`OwnerLocks`). A release by anybody else must fail, and it does for two
different reasons: a revision in memory, wherever an `UnlockLocalUser` has got
to, is not the revision of a lock some other hall has now or later
(`TokensGood`, with `KeysAgree`); and a `UserInstead` unlocks in a hall only
when the hall has no session of the user (`HandlerShape`), and no login that
could be about to make one (`NoOverlap`, `OnePerHall`). `LockReleasable` needs
that a pending `Delete` of `localPlayers` belongs to no lock
(`DeletesNothing`). The environments that `OrderlyEnv` leaves out break
exactly these, as section 5 says. At the exit, the loop leaves only with
`sessionCount` 0, which is an empty `sessionDict` when no login is between the
two statements, as none is in a stop (`DictCounted`, `StopShape`),
and its `Close` does not panic because the sessions it ranges over have their
`clientCancelFunc` (`ToCloseServed`, `ServedBound`).

`HallLoopProofs`, for any buffer sizes of at least 1, any numbers of messages,
pushers and events, any environments (`LoopAssumption`): `LoopInvariant`,
`FlushAlwaysDelivers`: `Spec => []LoopIInv`, `[]LoopInv`. That the queue is
empty at the end is not inductive: a worker could send after the flush. The
flush works on a channel that is closed already, and a stream which leaves it
without an error of `Recv` leaves the channel closed and empty
(`FlushedIsClosed`); that error is reported by a reader that has ended
(`ReaderShape`).

`UpstreamProofs`, for arbitrary processes, names and halls, with and without
leases, any number of starts and expiries, crashes and failing commits:

* `UpstreamInvariant`: `Spec => []UpIInv`.
* `ViewsAndNamesAgree`: `Spec => []PeersInv`.
* `StopAlwaysReleasesKey`: `Spec => []StopReleasesKey`.
* `UpstreamsAlwaysFollowPeers`: `Spec => []UpstreamsFollowPeers`.

Assumptions: a process has a name and an address of its own, one that stops or
loses its lease follows its own key (in the code every process follows all),
the gateway follows the halls and is none (`PeerRegistryAssumption`,
`UpstreamAssumption`).

The argument. `ViewCaughtUp` speaks of processes with no event left, so its
strengthening must say where the events lead: the last event about a name, or
the entry when there is none, shows the key as it is (`Agrees`). A put onto an
entry that already has an address does not call `OnPeerAdd`, so for the
upstreams the events must also alternate: an address follows a deletion or the
same address (`Chained`). Each change of a key is then one lemma about
appending to the queue, each handler one about its tail, for every observer at
once (`Follow`). With this the entry of the map for a hall has the address
that the registry's map has (`Tracked`), event by event, outside the halls in
`raced`. That two processes of a name do not run at once, and that a stop
finds its key, come from `CleanHasKey`: a process without trouble has its own
key, with `selfRevision` as its mod revision. A refused start must be kept
apart (`RefusedHasNone`), and so must the last events of a watch that was
cancelled (`CancelledIsSilent`).

`ServiceRegistryProofs`, for arbitrary processes, names, services, numbers of
starts, expiries and calls. Every theorem but the two about the trie has the
hypothesis `OneDeployment \/ Steady`: every name has one process, or no process
loses its lease or a commit.

* `ServicesInvariant`: `Spec => []SvcIInv`.
* `ServiceKeysStayTogether`: `Spec => []ServicesInv`.
* `ServicesAlwaysFound`: `Spec => []ServicesFound`.
* `StopAlwaysReleasesServices`: `Spec => []StopReleasesServices`.
* `TrieDeleteUnsets`, `TrieSearchFinds`: what `TrieDelete` and `TrieSearch` do,
  in terms of the set of paths of a trie without dead branches (`WellFormed`).

Assumptions: those of `PeerRegistry`; a service has one or two words, a process
follows all names, and `Unknown` is no name (`ServiceRegistryAssumption`).

The hypothesis is needed. A process that has lost its lease goes on with its
services, and a second deployment of its name may register meanwhile: two
processes then act for one name on the same keys. TLC refutes each of the three
properties when both are allowed (section 5). With the hypothesis no two
processes of a name are active (`Alone`): without losses both would need the
one peer key, which has one address (`MembersHaveKey`).

The argument. That a deletion of the two keys is by their owner has a different
reason at each place (`DeletesOwn`): the start deletes what it has listed, which
is what its name still has (`LeftoversOwn`); the stop deletes by a
CreateRevision, and one in memory is never that of another's key
(`RevisionsOwn`, with the numbers of calls growing). `ServicesCaughtUp` speaks
of processes with no event left. Its strengthening has two halves: an owner in
the map, in hands or in an event is the key's, or its deletion comes later
(`NoStaleOwner`); and the owner of a key is in the map, on its way there,
dropped, or in an event, with no deletion after it (`OwnerComes`). For the
index, map and trie have the same services outside the steps between the two,
both of a call and of the watch (`InStep`); a call and the watch work on one
service at once only with the service in `raced`, or when the watch has nothing
to delete (`Tracked`). A service whose registration reported an error has its keys and no call to
finish it (`unsure`); what a start that failed has left of an earlier run is
there too. `Tracked` is also why a stop finds its other services: the
entry has the CreateRevision, and no event in hands or to come replaces it.
Each action is one lemma for the process that takes it (`ProcInv`); for the
others nothing changes, or one event is appended. Lemmas about the peer
registry that are needed here too (its types, its keys) are repeated from
`UpstreamProofs`, which is about another composition.

`GatewaySessionProofs`, for any finite set of clients, numbers of messages,
limit and outages (`GatewaySessionAssumption`): `GatewayInvariant`,
`MessagesStayInOrder`: `Spec => []GatewayIInv`, `[]GatewayInv`. The equation
of `ForwardedInOrder` must hold at every stage, and where the forwarding
goroutine is must tell whether it has a message in hand (`DownShape`):
otherwise a message could be received over one that was not forwarded yet.

`GateServerProofs`, for any finite set of connections and any number of calls
of `Maintain` (`GateServerAssumption`): `ServerInvariant`,
`Spec => []ServerInv`, and `ShutdownStays`,
`Spec => [](GroupHasServed /\ StaysClosed)`. `Shutdown` waits for the error
group, so nothing is served after it if the group has every connection that is
past `handleConn`'s check (`GroupHasServed`), and none passes the check later
because the state stays closed (`StaysClosed`).

Only model-checked is what is outside this prover's reach.
Those are the liveness properties (`LoginEnds`, `StopEnds`,
`GoneClientLoggedOut`, `GoroutinesEnd`, `InputsTaken`,
`HallBecomesSelectable`, `LostKeyReclaimed`, `SessionEnds`,
`SuspendedResumes`, `HandshakeEnds`, `SendReturns`, `ServeEnds`,
`ShutdownReturns`, `SessionsEnd`), which need fairness and ENABLED.

## 5. Where code and comments disagree

Found while modelling. Each is a trace that TLC prints when the exception that
a property makes for it is taken out, or when the named constant is changed.

* `player.go:298`, comment `player.go:5`. `UnlockLocalUser` commits, another
  goroutine of the peer locks the user again and stores its entry, and the
  `Delete` of the first removes it. The stop, which walks `localPlayers`,
  leaves that lock in etcd (`NormalExitCleansUp` without the clause of `quiet`
  in `UnlockDelete`). In the hall the same race locks the user out until the
  process restarts: `HallTakeover` with `same_hall` in `Env` violates
  `LockReleasable`. A commit of a lock that fails after it was applied ends
  likewise (`player.go:245`): `LockReleasable` without its exception of
  `lock_lost` fails in `HallTakeover`.
* `hall.go:149`, comment `session.go:20`. `Instead` unlocks the user when
  `sessionDict` has no session, also while a login is between the lock and
  `LoadOrStore`. That login goes on to play without the lock
  (`PlayingHoldsLock` with `login_overlap` in `Env`).
* `hall.go:118`, comment `hall.go:78`. A session is in `sessionDict` before
  `clientCancelFunc` is set. The stop loop calls the nil function and the
  process ends with its players unsaved (`ExitSaves` with `stop_in_login`).
  For the same reason `UserInstead` may send on a nil channel and never answer
  (`HallProgress` with `login_overlap` violates `LoginEnds`), and a `Kick` in
  that window marks the session closed and releases nothing.
* `conn.go:442`, comment `conn.go:325`. After a failed `Write` or a heartbeat
  timeout (`conn.go:430`) the write goroutine waits on `chSend`, which nobody
  closes: `serve` never returns and the session stays registered (`ServeEnds`
  without `SendLeftOpen`). After two failed `Write`s it has ended with `chSend`
  open, and a sender that finds it full waits for ever (`SendReturns` without
  it). So does the goroutine that sends a heartbeat to its own full channel
  (`conn.go:433`).
* `conn.go:566`. A handler returns while the read goroutine waits for room in
  `chMessage`, and `serve` waits for that goroutine (`ServeEnds` without
  `ReaderStuck`).
* `conn.go:216`. The context that `Shutdown` cancels stops the handshake timer,
  which no longer closes the socket of a silent client (`HandshakeEnds` without
  `cancelled`); `Shutdown` then waits for it (`Silent`).
* `session.go:83`, 96, 116 of the gateway. The goroutine that receives from the
  hall pushes to the client and waits in its full `chSend`, for ever once the
  gate has left the channel open; the session stays (`PushWaits`).
* `session.go:450`, `session.go:359` of the hall. Player code that pushes
  before `ClientStream` has made `chClientResponse` waits for ever with
  `session.mu` (`Hung`); a response that is sent when the stream has returned
  and left the channel open and full does too (`Abandoned`). The workers of
  the session then never end; the player is still logged out in the second
  case (`GoneClientLoggedOut`).
* `server.go:206` of the hall. The reader waits for room in `chClientRequest`
  after the loop has ended (`ReaderOver`).
* `session.go:104` of the gateway. A stream that is opened after the closer
  has run stays open, and the session with it, until the gateway stops
  (`Stranded`).
* `upstream.go:98`. A hall that is announced twice, by the watch and by
  `notify`, has its upstream in the map closed while the new one is served
  outside the map (`raced`).
* `upstream.go:223`. An upstream whose `Info` fails ends and is never dialled
  again; its hall cannot be selected until it registers anew.
* `peer.go:473`. A process that registers over a key it left behind keeps the
  revision of its put and cannot delete the key when it stops. `peer.go:416`
  panics when the key is gone by then.
* `peer.go:142`. The loss of a lease before the `Get` of `initPeers` has no
  event, and the process stays unregistered (`LostKeyReclaimed`).
* `service.go:357`. A service whose event comes before its owner's peer event
  is dropped for good; during the start it ends the start (`service.go:446`).
* `service.go:372`. The event of a service being registered by this process
  replaces its entry by one without `CreateRevision`; the stop leaves its keys.
  So it does after an error of the registration's `Commit` that etcd has applied
  (`service.go:550`) and after an error of its own (`service.go:499`):
  `StopReleasesServices` without `unsure`.
* `upstream.go:46`. `SelectPeer` takes the newest build before it looks whether
  the upstream is open: while one of the newest build is closed and has not
  ended, no hall is found.
* `service.go:429`. Two processes of one name, of which one has lost its lease,
  both act for the services of the name. The second lists a service of the
  first, the first gives it up, a process of another name registers it, and
  the clean-up of the second deletes that key: `ServicesInv` fails with three
  processes, two of one name, and `expire` in `Env`. `ServicesFound` and
  `StopReleasesServices` fail there with the two of one name alone.
* `service.go:396`. A late deletion takes a new registration out of the index
  and leaves it in the map.
* `server.go:311` of the gate. A client that does not read and has its `chSend`
  full holds `Kick`, with the mutex, and so `Shutdown`; `server.go:267`: a
  `Maintain` that set the state after `Shutdown` reopens the server.
* `server.go:61` of the gateway: the comment says that 0 allows logins, the
  code refuses every client at 0. `server.go:42`: the error response to a
  failed login is only built when making it has failed.

With one constant changed, a run that passes shows a further one:

* `LockedUserFindable` on the instance of `PlayerTxnErrors`: two types share
  `/user/u`, and the unlock of one deletes it while the other still holds the
  user (`player.go:290`, comment `player.go:30`).

## 6. Not modelled

* `watchSelfPeerPlayers` is never started (`registry.go:108-111`), and the
  local player callbacks have no subscriber here; neither is modelled.
* The key/value store and user id of a gate session (`Set`, `Remove`,
  `Restore`, `Clear`, `Bind`): no goroutine of the connection reads them.
* Attributes of a peer other than `grpc`, catalog options and the random
  choice among services, the resolver's call into gRPC, `GateStream`,
  `HealthCheck` and the choice of a hall by player count: data, or counters
  that nothing depends on.
* A backlog of 0, which makes a channel a rendezvous; the unlocked parts of
  `word_trie` (`service.go:112`), which a Go runtime may answer by ending the
  process.
* The codec (`gate/packet`, `gate/message`): byte layouts. The gate client: the
  connection's mirror image, for tools. The registry client: the registry's
  look-ups and watches, read only.
* The runtime, apart from the order of start and stop that the registries and
  the hall see: sequential set-up code.
* Configuration, logging, error values, databases, platform SDKs, HTTP and JWT
  helpers, encryption, websocket adapter: no protocol state, or bytes and
  third-party libraries.
* Generators and generated code. They are well over half of the
  repository's lines (protobuf and client stubs, templates that write Go text)
  and have no state that a property could be about, so the share of lines that
  these modules stand for stays small whatever else is modelled.

## 7. Plan

Modelled so far, in this order: `PlayerKeys`, `PlayerRegistry` and `GateConn`
with their proofs; `HallSession`; `UserLock` and the refinement;
`PeerRegistry`, `Upstream`, `ServiceRegistry`; `GatewaySession`, `GateServer`,
`HallLoop`. Then the proofs of section 4, in the order of the modules there.
All invariants and all action properties without liveness that the runs check
are proved. What is left is outside the present models: the codec's cutting of
packets, and the parts of `word_trie` that run without its mutex.
