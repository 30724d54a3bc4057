---------------------------- MODULE PeerRegistry ----------------------------
(* The peer registry (registry/peer.go, with StartAsMember, Watch and Stop   *)
(* of registry/registry.go): a process puts the key                          *)
(* /peer/attribute/<full name>/grpc with its address, on a lease it keeps    *)
(* alive, learns the other peers by a Get and a watch from the revision      *)
(* after it, tells its handlers, registers again when its own key is         *)
(* deleted under it, and deletes the key when it stops.                      *)
(*                                                                           *)
(* A process is a deployment: a full name and an address. Two processes may  *)
(* have one full name (the same server started on another machine). Only the *)
(* grpc attribute is modelled; the others are data of the peer. A key is its *)
(* value, its create and mod revisions and the process whose lease it is on. *)
EXTENDS Integers, Sequences, FiniteSets

CONSTANTS
    Procs,
    Names,          \* full names (appFullName)
    NameOf,         \* the full name of every process
    AddrOf,         \* its address (config.Address)
    NoAddr,         \* "", the address of a peer whose key was deleted
    Unknown,        \* no entry in peers, no key
    NoProc,
    Leased,         \* config.LeaseTimeout > 0
    Follows,        \* the names whose keys are tracked for a process; the
                    \* events of the others change only entries nobody reads
    Observers,      \* the processes with a PeerWatchHandler: notify is a step of
                    \* theirs only, for the others it calls nothing
    Env,            \* what may happen to which process, as <<p, kind>>: it is
                    \* stopped, crashes, loses its lease, a Commit reports an error
                    \* (svc_fails: a call of the service registry does)
    MaxStarts,      \* bound: launches of processes
    MaxExpiries     \* bound: leases that expire under a live process

Addrs == {AddrOf[p] : p \in Procs}

ASSUME PeerRegistryAssumption ==
    /\ NameOf \in [Procs -> Names]
    /\ {NoAddr, Unknown} \cap Addrs = {}
    /\ NoAddr # Unknown
    /\ NoProc \notin Procs
    /\ Leased \in BOOLEAN
    /\ {MaxStarts, MaxExpiries} \subseteq Nat
    /\ Env \subseteq Procs \X {"stop", "crash", "expire", "commit_fails", "svc_fails"}
    /\ Observers \subseteq Procs
    /\ Follows \in [Procs -> SUBSET Names]
    /\ \A p \in Procs : NameOf[p] \in Follows[p] \/ {<<p, "stop">>, <<p, "expire">>} \cap Env = {}
    /\ \A p, q \in Procs : AddrOf[p] = AddrOf[q] => p = q

VARIABLES
    rev,            \* the revision of the etcd store
    peerKey,        \* the key of every full name
    stage,          \* the main goroutine of a process: start, serve, stop
    watch,          \* watchStartRevision is known, then the goroutine of Watch
    toNotify,       \* the entries the Range of notify has yet to visit
    cancelled,      \* peer_registry.ctx is cancelled: the watch has ended
    selfRevision,   \* peer_registry.selfRevision
    reply,          \* a re-registration that is committed, not yet noted
    peers,          \* peer_registry.peers: the address of every entry
    events,         \* what the watch has yet to deliver
    trouble,        \* history: the lease ran out, a commit failed (in this run)
    starts, expiries

storeVars == <<rev, peerKey>>
procVars == <<stage, watch, toNotify, cancelled, selfRevision, reply, peers, trouble>>
budget == <<starts, expiries>>
peerVars == <<storeVars, procVars, events, budget>>

Stages == {"off", "init", "ready", "up", "stop", "unregister", "leave"}

NoKey == [value |-> Unknown, create |-> 0, mod |-> 0, lease |-> NoProc]

\* The shape of the state.
PeersTypeOK ==
    /\ rev \in Nat
    /\ peerKey \in [Names -> [value : Addrs \cup {Unknown}, create : Nat, mod : Nat,
                              lease : Procs \cup {NoProc}]]
    /\ stage \in [Procs -> Stages]
    /\ watch \in [Procs -> {"none", "known", "watching", "notify", "done"}]
    /\ toNotify \in [Procs -> SUBSET Names]
    /\ cancelled \in [Procs -> BOOLEAN]
    /\ trouble \in [Procs -> {"none", "expired", "failed"}]
    /\ selfRevision \in [Procs -> Nat]
    /\ reply \in [Procs -> Nat]
    /\ peers \in [Procs -> [Names -> Addrs \cup {NoAddr, Unknown}]]
    /\ events \in [Procs -> Seq([name : Names, value : Addrs \cup {NoAddr}])]
    /\ \A p \in Procs : watch[p] = "none" => events[p] = <<>> /\ reply[p] = 0
    /\ starts \in 0 .. MaxStarts
    /\ expiries \in 0 .. MaxExpiries

PeersInit ==
    /\ rev = 0 /\ peerKey = [n \in Names |-> NoKey]
    /\ stage = [p \in Procs |-> "off"]
    /\ watch = [p \in Procs |-> "none"]
    /\ toNotify = [p \in Procs |-> {}]
    /\ cancelled = [p \in Procs |-> FALSE]
    /\ trouble = [p \in Procs |-> "none"]
    /\ selfRevision = [p \in Procs |-> 0]
    /\ reply = [p \in Procs |-> 0]
    /\ peers = [p \in Procs |-> [n \in Names |-> Unknown]]
    /\ events = [p \in Procs |-> <<>>]
    /\ starts = 0 /\ expiries = 0

Own(p) == peerKey[NameOf[p]]
Exists(n) == peerKey[n].create # 0

(* ------------------------------------------------------------ the store *)
\* Mutant of Listening: events between the Get and the watch are lost.
ListeningWatch(p) == watch[p] \notin {"none", "known"} /\ ~cancelled[p]

\* The watch delivers what happens after the Get of initPeers
\* (watchStartRevision), also what happened before it was started.
Listening(p) == watch[p] # "none" /\ ~cancelled[p]

\* Name n changes at revision rev + 1 (NoAddr: a deletion); queues are the
\* events without it.
Broadcast(queues, n, v) ==
    events' = [q \in Procs |->
                 IF Listening(q) /\ n \in Follows[q] THEN Append(queues[q], [name |-> n, value |-> v])
                 ELSE queues[q]]

DeleteKey(n) ==
    /\ rev' = rev + 1
    /\ peerKey' = [peerKey EXCEPT ![n] = NoKey]
    /\ Broadcast(events, n, NoAddr)

\* OpPut with the lease of p: the create revision of an existing key stays.
PutKey(p, queues) ==
    /\ rev' = rev + 1
    /\ peerKey' = [peerKey EXCEPT ![NameOf[p]] =
                     [value |-> AddrOf[p],
                      create |-> IF @.create = 0 THEN rev + 1 ELSE @.create,
                      mod |-> rev + 1,
                      lease |-> IF Leased THEN p ELSE NoProc]]
    /\ Broadcast(queues, NameOf[p], AddrOf[p])

\* The condition of registerSelf's transaction.
Taken(p) == Exists(NameOf[p]) /\ Own(p).value # AddrOf[p]

(* ----------------------------------------------------------- start, stop *)
\* The main goroutine goes on and nothing else changes.
Goes(p, from, to) ==
    /\ stage[p] \in from
    /\ stage' = [stage EXCEPT ![p] = to]

memory == <<toNotify, cancelled, selfRevision, reply, peers>>

\* registerSelf at the start; an error ends the start with runtime.stop().
Launch(p, to) ==
    /\ Goes(p, {"off"}, to) /\ starts < MaxStarts
    /\ starts' = starts + 1
    /\ UNCHANGED <<watch, toNotify, cancelled, reply, peers, expiries>>

\* Mutant of RegisterSelf: the revision of the registration is not kept.
RegisterSelfUnnoted(p) ==
    /\ Launch(p, "init") /\ ~Taken(p)
    /\ PutKey(p, events)
    /\ UNCHANGED <<selfRevision, trouble>>

RegisterSelf(p) ==
    /\ Launch(p, "init") /\ ~Taken(p)
    /\ selfRevision' = [selfRevision EXCEPT ![p] = rev + 1]
    /\ PutKey(p, events)
    /\ UNCHANGED trouble

RegisterRefused(p) ==
    /\ Launch(p, "stop") /\ Taken(p)
    /\ UNCHANGED <<storeVars, events, selfRevision, trouble>>

RegisterFails(p) ==
    /\ <<p, "commit_fails">> \in Env /\ Launch(p, "stop") /\ ~Taken(p)
    /\ trouble' = [trouble EXCEPT ![p] = "failed"]
    /\ PutKey(p, events) \/ UNCHANGED <<storeVars, events>>
    /\ UNCHANGED selfRevision

\* initPeers: the Get, and the revision the watch will start from.
InitPeers(p) ==
    /\ Goes(p, {"init"}, "ready")
    /\ watch' = [watch EXCEPT ![p] = "known"]
    /\ peers' = [peers EXCEPT ![p] = [n \in Names |-> IF n \in Follows[p] THEN peerKey[n].value ELSE Unknown]]
    /\ UNCHANGED <<storeVars, toNotify, cancelled, selfRevision, reply,
                   trouble, events, budget>>

\* onStart goes on to the services and the application, and starts the
\* goroutine of Watch, which starts the watch goroutines.
Started(p) ==
    /\ Goes(p, {"ready"}, "up")
    /\ watch' = [watch EXCEPT ![p] = IF p \in Observers THEN "watching" ELSE "done"]
    /\ UNCHANGED <<storeVars, memory, trouble, events, budget>>

\* A failed start, or runtime.stop of a running process.
StopBegin(p) ==
    /\ <<p, "stop">> \in Env /\ Goes(p, {"ready", "up"}, "stop")
    /\ UNCHANGED <<storeVars, watch, memory, trouble, events, budget>>

\* unregisterSelf marks the exit as normal, then commits.
UnregisterBegin(p) ==
    /\ Goes(p, {"stop"}, "unregister")
    /\ UNCHANGED <<storeVars, watch, memory, trouble, events, budget>>

Unregisterable(p) ==
    Own(p).value = AddrOf[p] /\ Own(p).create = selfRevision[p]

UnregisterSelf(p) ==
    /\ Goes(p, {"unregister"}, "leave")
    /\ \/ Unregisterable(p) /\ DeleteKey(NameOf[p])
       \/ ~Unregisterable(p) /\ Exists(NameOf[p]) /\ UNCHANGED <<storeVars, events>>
    /\ UNCHANGED <<watch, memory, trouble, budget>>

UnregisterFails(p) ==
    /\ <<p, "commit_fails">> \in Env /\ Goes(p, {"unregister"}, "leave")
    /\ trouble' = [trouble EXCEPT ![p] = "failed"]
    /\ \/ Unregisterable(p) /\ DeleteKey(NameOf[p])
       \/ UNCHANGED <<storeVars, events>>
    /\ UNCHANGED <<watch, memory, budget>>

\* The process and its memory are gone.
Ends(p) ==
    /\ stage' = [stage EXCEPT ![p] = "off"]
    /\ watch' = [watch EXCEPT ![p] = "none"]
    /\ toNotify' = [toNotify EXCEPT ![p] = {}]
    /\ cancelled' = [cancelled EXCEPT ![p] = FALSE]
    /\ trouble' = [trouble EXCEPT ![p] = "none"]
    /\ selfRevision' = [selfRevision EXCEPT ![p] = 0]
    /\ reply' = [reply EXCEPT ![p] = 0]
    /\ peers' = [peers EXCEPT ![p] = [n \in Names |-> Unknown]]
    /\ events' = [events EXCEPT ![p] = <<>>]
    /\ UNCHANGED <<storeVars, budget>>

\* Without a key the log statement of unregisterSelf indexes an empty slice:
\* the process dies of the panic.
UnregisterPanics(p) == stage[p] = "unregister" /\ ~Exists(NameOf[p]) /\ Ends(p)

Exit(p) == stage[p] = "leave" /\ Ends(p)
Crash(p) == <<p, "crash">> \in Env /\ stage[p] \notin {"off", "leave"} /\ Ends(p)

\* The lease of a dead process runs out; a live one loses its lease when it
\* cannot reach etcd for as long.
LeaseExpires(n) ==
    LET p == peerKey[n].lease IN
    /\ p # NoProc
    /\ \/ stage[p] = "off" /\ UNCHANGED <<expiries, trouble>>
       \/ /\ stage[p] # "off" /\ <<p, "expire">> \in Env /\ expiries < MaxExpiries
          /\ expiries' = expiries + 1
          /\ trouble' = [trouble EXCEPT ![p] = IF @ = "none" THEN "expired" ELSE @]
    /\ DeleteKey(n)
    /\ UNCHANGED <<stage, watch, memory, starts>>

(* ------------------------------------------------------ watch and notify *)
\* Watch has started the watch goroutines; it sets isNotify and ranges over
\* the entries. One that is stored meanwhile may be visited too.
NotifyBegin(p) ==
    /\ watch[p] = "watching"
    /\ watch' = [watch EXCEPT ![p] = "notify"]
    /\ toNotify' = [toNotify EXCEPT ![p] = Follows[p]]
    /\ UNCHANGED <<storeVars, stage, cancelled, selfRevision, reply, peers,
                   trouble, events, budget>>

\* One step of the Range: onPeerAdd for the entry, whatever its address is.
NotifyOne(p, n) ==
    /\ watch[p] = "notify" /\ n \in toNotify[p]
    /\ toNotify' = [toNotify EXCEPT ![p] = @ \ {n}]
    /\ watch' = [watch EXCEPT ![p] = IF toNotify[p] = {n} THEN "done" ELSE @]
    /\ UNCHANGED <<storeVars, stage, cancelled, selfRevision, reply, peers,
                   trouble, events, budget>>

\* The watch goroutine has an event to process.
IsNotify(p) == watch[p] \in {"notify", "done"}
HasEvent(p) == watch[p] \in {"watching", "notify", "done"} /\ reply[p] = 0 /\ events[p] # <<>>
Event(p) == Head(events[p])
IsPut(p) == HasEvent(p) /\ Event(p).value # NoAddr
IsDelete(p) == HasEvent(p) /\ Event(p).value = NoAddr
Consumed(p) == [events EXCEPT ![p] = Tail(@)]

\* The names for which the event calls OnPeerAdd (a new entry, or one whose
\* address was deleted) or OnPeerDelete (whatever isNotify is).
Added(p) == IF IsNotify(p) /\ peers[p][Event(p).name] \in {NoAddr, Unknown}
            THEN {Event(p).name} ELSE {}
Deleted(p) == IF peers[p][Event(p).name] # Unknown THEN {Event(p).name} ELSE {}

\* onKvPut gives a new, a deleted and a changed entry its address.
PutEntry(last, v) == v

OnKvPut(p) ==
    /\ IsPut(p)
    /\ peers' = [peers EXCEPT ![p][Event(p).name] = PutEntry(@, Event(p).value)]
    /\ events' = Consumed(p)
    /\ UNCHANGED <<storeVars, stage, watch, toNotify, cancelled, selfRevision,
                   reply, trouble, budget>>

\* onKvDelete: the entry stays, without an address.
Forget(p) ==
    peers' = [peers EXCEPT ![p][Event(p).name] = IF @ = Unknown THEN @ ELSE NoAddr]

IsNormalUnregisterSelf(p) == stage[p] \in {"unregister", "leave"}
IsOwnDelete(p) == IsDelete(p) /\ Event(p).name = NameOf[p] /\ peers[p][NameOf[p]] # Unknown

OnKvDelete(p) ==
    /\ IsDelete(p) /\ ~IsOwnDelete(p)
    /\ Forget(p)
    /\ events' = Consumed(p)
    /\ UNCHANGED <<storeVars, stage, watch, toNotify, cancelled, selfRevision,
                   reply, trouble, budget>>

\* onPeerDelete of the own name: in a normal exit the watch ends.
OnOwnDelete(p) ==
    /\ IsOwnDelete(p) /\ IsNormalUnregisterSelf(p)
    /\ Forget(p)
    /\ cancelled' = [cancelled EXCEPT ![p] = TRUE]
    /\ events' = [events EXCEPT ![p] = <<>>]
    /\ UNCHANGED <<storeVars, stage, watch, toNotify, selfRevision, reply,
                   trouble, budget>>

\* Mutant of ReRegister: the loss of the key is only logged.
ReRegisterNever(p) ==
    /\ IsOwnDelete(p) /\ ~IsNormalUnregisterSelf(p)
    /\ Forget(p)
    /\ events' = Consumed(p)
    /\ UNCHANGED <<storeVars, stage, watch, toNotify, cancelled, selfRevision,
                   reply, trouble, budget>>

\* Otherwise the watch goroutine registers again. Nothing is retried when
\* another process has the key by then, or when the commit fails.
ReRegister(p) ==
    /\ IsOwnDelete(p) /\ ~IsNormalUnregisterSelf(p)
    /\ Forget(p)
    /\ \/ /\ ~Taken(p) /\ PutKey(p, Consumed(p))
          /\ reply' = [reply EXCEPT ![p] = rev + 1]
          /\ UNCHANGED trouble
       \/ /\ Taken(p) /\ events' = Consumed(p)
          /\ UNCHANGED <<storeVars, reply, trouble>>
       \/ /\ <<p, "commit_fails">> \in Env /\ ~Taken(p)
          /\ trouble' = [trouble EXCEPT ![p] = "failed"]
          /\ PutKey(p, Consumed(p)) \/ (events' = Consumed(p) /\ UNCHANGED storeVars)
          /\ UNCHANGED reply
    /\ UNCHANGED <<stage, watch, toNotify, cancelled, selfRevision, budget>>

\* The response of that commit reaches the process.
NoteRevision(p) ==
    /\ reply[p] # 0 /\ reply' = [reply EXCEPT ![p] = 0]
    /\ selfRevision' = [selfRevision EXCEPT ![p] = reply[p]]
    /\ UNCHANGED <<storeVars, stage, watch, toNotify, cancelled, peers,
                   trouble, events, budget>>

(* ---------------------------------------------------------- properties *)
(* A process that has seen all events of its watch knows exactly the peers   *)
(* that are registered, under their addresses: nothing is lost between the   *)
(* Get of initPeers and the watch (peer.go:348), nor when a key is deleted   *)
(* and put again (peer.go:177).                                              *)
ViewCaughtUp ==
    \A p \in Procs : \A n \in Follows[p] :
        (Listening(p) /\ events[p] = <<>>) =>
            (IF Exists(n) THEN peers[p][n] = peerKey[n].value
             ELSE peers[p][n] \in {NoAddr, Unknown})

Member(p) == stage[p] \in {"init", "ready", "up"}

(* Two processes with one full name do not run at the same time ("peer       *)
(* already regist", peer.go:464), except when the lease of one of them       *)
(* expired while it was running (rule 3 of peer.go:31).                      *)
OneServerPerName ==
    \A p, q \in Procs :
        (p # q /\ NameOf[p] = NameOf[q] /\ Member(p) /\ Member(q)) =>
            trouble[p] # "none" \/ trouble[q] # "none"

(* A process that has stopped in order has deleted its key (peer.go:29),     *)
(* unless it had registered over a key that was there already (mod # create: *)
(* selfRevision is not the create revision then, peer.go:473), its lease ran *)
(* out or a commit failed.                                                   *)
ExitReleasesKey ==
    \A p \in Procs :
        (stage[p] = "leave" /\ Own(p).value = AddrOf[p] /\ trouble[p] = "none") =>
            Own(p).mod # Own(p).create

(* The stop of a process that had registered finds a key, so that it does    *)
(* not panic (peer.go:416), unless the lease ran out or a commit failed.     *)
StopFindsKey ==
    \A p \in Procs :
        (stage[p] = "unregister" /\ selfRevision[p] # 0 /\ trouble[p] = "none") =>
            Exists(NameOf[p])

(* A stop in order finds the key of the process and leaves none (peer.go:381).*)
StopReleasesKey == StopFindsKey /\ ExitReleasesKey

(* A running process whose key is gone registers again, or another process   *)
(* takes its name (peer.go:142). It must have seen its key: when the lease   *)
(* runs out before the Get of initPeers, no event tells of the loss; and no  *)
(* commit may fail: nothing is retried ("TODO", peer.go:31).                 *)
LostKeyReclaimed ==
    \A p \in {q \in Procs : NameOf[q] \in Follows[q]} :
        (stage[p] = "up" /\ ~Exists(NameOf[p]) /\ peers[p][NameOf[p]] # Unknown)
            ~> (stage[p] # "up" \/ Exists(NameOf[p]) \/ trouble[p] = "failed")

(* ------------------------------------------ what the properties rest on *)
PeersNext ==
    \/ \E p \in Procs :
          \/ RegisterSelf(p) \/ RegisterRefused(p) \/ RegisterFails(p) \/ InitPeers(p)
          \/ Started(p) \/ StopBegin(p) \/ UnregisterBegin(p) \/ UnregisterSelf(p)
          \/ UnregisterFails(p) \/ UnregisterPanics(p) \/ Exit(p) \/ Crash(p)
          \/ NotifyBegin(p) \/ (\E n \in Names : NotifyOne(p, n)) \/ OnKvPut(p)
          \/ OnKvDelete(p) \/ OnOwnDelete(p) \/ ReRegister(p) \/ NoteRevision(p)
    \/ \E n \in Names : LeaseExpires(n)

\* A key is that of a process with this name, on its lease if on one.
KeyShape ==
    \A n \in Names :
        \/ peerKey[n] = NoKey
        \/ /\ Exists(n)
           /\ \E p \in Procs : /\ NameOf[p] = n /\ peerKey[n].value = AddrOf[p]
                               /\ peerKey[n].lease \in {p, NoProc}

\* A process knows its revision from its registration to its end, and gets
\* another one only after it has lost its lease or a commit.
StageShape ==
    \A p \in Procs :
        /\ stage[p] \in {"off", "init"} => watch[p] = "none"
        /\ stage[p] = "ready" => watch[p] = "known"
        /\ stage[p] = "off" => selfRevision[p] = 0
        /\ Member(p) \/ watch[p] # "none" => selfRevision[p] # 0
        /\ reply[p] # 0 => trouble[p] # "none"

\* A watch that has ended delivers nothing.
CancelledIsSilent == \A p \in Procs : cancelled[p] => events[p] = <<>>

\* What the last event about a name may say, and an entry that has seen it.
Tells(n) == IF Exists(n) THEN {peerKey[n].value} ELSE {NoAddr}
Shows(n) == IF Exists(n) THEN {peerKey[n].value} ELSE {NoAddr, Unknown}

\* The last event about n in queue is in V; without one, the entry x is in X.
Agrees(queue, n, x, V, X) ==
    /\ \A i \in 1 .. Len(queue) :
          queue[i].name = n /\ (\A j \in 1 .. Len(queue) : j > i => queue[j].name # n)
              => queue[i].value \in V
    /\ (\A i \in 1 .. Len(queue) : queue[i].name # n) => x \in X

\* An address about n follows the same address, or a deletion.
Chained(queue, n, x) ==
    \A i \in 1 .. Len(queue) :
        queue[i].name = n /\ queue[i].value # NoAddr =>
            /\ \A j \in 1 .. Len(queue) :
                  j < i /\ queue[j].name = n
                        /\ (\A k \in 1 .. Len(queue) : j < k /\ k < i => queue[k].name # n)
                      => queue[j].value \in {NoAddr, queue[i].value}
            /\ (\A j \in 1 .. Len(queue) : j < i => queue[j].name # n)
                  => x \in {NoAddr, Unknown, queue[i].value}

\* The entries and the events to come lead to the keys, an address at a time.
Follow(queues, view) ==
    \A p \in Procs : \A n \in Follows[p] :
        Listening(p) => /\ Agrees(queues[p], n, view[p][n], Tells(n), Shows(n))
                        /\ Chained(queues[p], n, view[p][n])

\* A process that has registered, is not gone and had no trouble has its key,
\* as it wrote it, and no event says otherwise.
Clean(p) ==
    /\ stage[p] \in {"init", "ready", "up", "stop", "unregister"}
    /\ selfRevision[p] # 0 /\ trouble[p] = "none"

CleanHasKey ==
    \A p \in Procs : Clean(p) =>
        /\ Own(p).value = AddrOf[p] /\ Own(p).mod = selfRevision[p]
        /\ \A i \in 1 .. Len(events[p]) :
              events[p][i].name = NameOf[p] => events[p][i].value # NoAddr

\* One that was refused has no key.
RefusedHasNone ==
    \A p \in Procs :
        (stage[p] \in {"stop", "unregister"} /\ selfRevision[p] = 0 /\ trouble[p] = "none") =>
            Own(p).value # AddrOf[p]

PeersIInv ==
    /\ PeersTypeOK /\ KeyShape /\ StageShape /\ CancelledIsSilent /\ Follow(events, peers)
    /\ CleanHasKey /\ RefusedHasNone /\ ExitReleasesKey
=============================================================================
