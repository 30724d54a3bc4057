-------------------------- MODULE ServiceRegistry --------------------------
(* The service registry (registry/service.go) on top of the peer registry.   *)
(* A process registers a service by two keys without a lease,                *)
(* /service/<name> with its full name as value and                           *)
(* /peer/service/<full name>/<name>; it cleans up what an earlier run left   *)
(* when it starts, follows the services of all processes by a Get and a      *)
(* watch of its own, and deletes its keys when it stops. A service name is a *)
(* sequence of one or two words.                                             *)
(*                                                                           *)
(* In a process one goroutine at a time registers and unregisters services   *)
(* (OnStart and OnStop); the watch goroutine runs beside it. A call that is  *)
(* refused (ErrServiceLocked) changes nothing and is no step; one that       *)
(* indexes the empty answer for a key that is gone (UnregisterService) kills *)
(* the process, which is a Crash.                                            *)
EXTENDS PeerRegistry, WordTrie

CONSTANTS
    Services,       \* service names
    Offers,         \* the services a process may register
    MaxCalls        \* bound: RegisterService calls

ASSUME ServiceRegistryAssumption ==
    /\ Services \subseteq Seq(STRING)
    /\ \A s \in Services : Len(s) \in 1 .. 2
    /\ Unknown \notin Names
    /\ Offers \in [Procs -> SUBSET Services]
    /\ MaxCalls \in Nat
    /\ \A p \in Procs : Follows[p] = Names

VARIABLES
    svcKey,         \* /service/<name>: the owner and the create revision
    peerSvc,        \* /peer/service/<full name>/: the services of a name
    phase,          \* how far the service registry of a process is
    leftovers,      \* keys of an earlier run that initServices has yet to delete
    services,       \* service_registry.services
    selfServices,   \* service_registry.selfServices: CreateRevision, -1 if none
    prefixIndex,    \* service_registry.prefixIndex
    svcEvents,      \* what the service watch has yet to deliver
    call,           \* the local part of a RegisterService that is committed
    handling,       \* the event in the hands of the service watch
    dropped,        \* history: services whose event came before their owner's
    raced,          \* history: services registered while the watch had an old event
    unsure,         \* history: services that a call with an error may have left
    calls

svcStore == <<svcKey, peerSvc>>
svcMemory == <<phase, leftovers, services, selfServices, prefixIndex, svcEvents, call,
               handling, dropped, raced, unsure>>
svcVars == <<svcStore, svcMemory, calls>>
vars == <<peerVars, svcVars>>

NoService == [peer |-> Unknown, isSelf |-> FALSE]
NoCall == [svc |-> <<>>, create |-> 0, at |-> "none"]
Idle == [svc |-> <<>>, owner |-> Unknown, at |-> "none", isSelf |-> FALSE]
NoSvcKey == [value |-> Unknown, create |-> 0]
Nodes == UNION {NodesTo(s) : s \in Services}
Steps == {"services", "index", "self"}

\* The shape of the state.
TypeOK ==
    /\ PeersTypeOK
    /\ svcKey \in [Services -> [value : Names \cup {Unknown}, create : Nat]]
    /\ peerSvc \in [Names -> SUBSET Services]
    /\ phase \in [Procs -> {"none", "clean", "ready", "stop", "failed"}]
    /\ leftovers \in [Procs -> SUBSET Services]
    /\ services \in [Procs -> [Services -> [peer : Names \cup {Unknown}, isSelf : BOOLEAN]]]
    /\ selfServices \in [Procs -> [Services -> Nat \cup {-1}]]
    /\ prefixIndex \in [Procs -> TriesOver(Nodes)]
    /\ \A p \in Procs : Set(prefixIndex[p]) \subseteq Services
    /\ call \in [Procs -> {NoCall} \cup [svc : Services, create : 1 .. MaxCalls, at : Steps]]
    /\ handling \in [Procs -> {Idle} \cup [svc : Services, owner : Names \cup {Unknown},
                                          at : Steps, isSelf : BOOLEAN]]
    /\ svcEvents \in [Procs -> Seq([svc : Services, owner : Names \cup {Unknown}])]
    /\ dropped \in [Procs -> SUBSET Services]
    /\ raced \in [Procs -> SUBSET Services]
    /\ unsure \in [Procs -> SUBSET Services]
    /\ calls \in 0 .. MaxCalls

SvcInit ==
    /\ svcKey = [s \in Services |-> NoSvcKey]
    /\ peerSvc = [n \in Names |-> {}]
    /\ phase = [p \in Procs |-> "none"]
    /\ leftovers = [p \in Procs |-> {}]
    /\ services = [p \in Procs |-> [s \in Services |-> NoService]]
    /\ selfServices = [p \in Procs |-> [s \in Services |-> -1]]
    /\ prefixIndex = [p \in Procs |-> EmptyTrie]
    /\ svcEvents = [p \in Procs |-> <<>>]
    /\ call = [p \in Procs |-> NoCall]
    /\ handling = [p \in Procs |-> Idle]
    /\ dropped = [p \in Procs |-> {}] /\ raced = [p \in Procs |-> {}]
    /\ unsure = [p \in Procs |-> {}]
    /\ calls = 0

Init == PeersInit /\ SvcInit

(* -------------------------------------------------------------- the store *)
\* The watch starts at the revision after the Get of initServices; its context
\* is not the one that the peer registry cancels.
SvcListening(p) == phase[p] \in {"ready", "stop"}

SvcBroadcast(s, n) ==
    svcEvents' = [q \in Procs |->
        IF SvcListening(q) THEN Append(svcEvents[q], [svc |-> s, owner |-> n])
        ELSE svcEvents[q]]

\* Both keys in one transaction. A create revision is only compared with later
\* ones of the same key: the number of the call stands for it.
PutService(p, s) ==
    /\ svcKey' = [svcKey EXCEPT ![s] = [value |-> NameOf[p], create |-> calls + 1]]
    /\ peerSvc' = [peerSvc EXCEPT ![NameOf[p]] = @ \cup {s}]
    /\ SvcBroadcast(s, NameOf[p])

\* Mutant of DeleteService: the peer's key is forgotten.
DeleteServiceOnly(p, s) ==
    /\ svcKey' = [svcKey EXCEPT ![s] = NoSvcKey]
    /\ SvcBroadcast(s, Unknown)
    /\ UNCHANGED peerSvc

\* The two OpDelete: the service key, whoever owns it, and the own peer key.
DeleteService(p, s) ==
    /\ svcKey' = [svcKey EXCEPT ![s] = NoSvcKey]
    /\ peerSvc' = [peerSvc EXCEPT ![NameOf[p]] = @ \ {s}]
    /\ SvcBroadcast(s, Unknown)

(* ---------------------------------------------------------- start and stop *)
\* initServices: first the list of what an earlier run has left ...
ListLeftovers(p) ==
    /\ stage[p] = "ready" /\ phase[p] = "none"
    /\ phase' = [phase EXCEPT ![p] = "clean"]
    /\ leftovers' = [leftovers EXCEPT ![p] = peerSvc[NameOf[p]]]
    /\ UNCHANGED <<peerVars, svcStore, services, selfServices, prefixIndex, svcEvents,
                   call, handling, dropped, raced, unsure, calls>>

\* ... then one transaction for each (one that is applied and reports an error
\* is this step, and InitServicesFails) ...
CleanLeftover(p, s) ==
    /\ phase[p] = "clean" /\ s \in leftovers[p]
    /\ leftovers' = [leftovers EXCEPT ![p] = @ \ {s}]
    /\ \/ svcKey[s].create # 0 /\ DeleteService(p, s)
       \/ svcKey[s].create = 0 /\ UNCHANGED <<svcStore, svcEvents>>
    /\ UNCHANGED <<peerVars, phase, services, selfServices,
                   prefixIndex, call, handling, dropped, raced, unsure, calls>>

Registered == {s \in Services : svcKey[s].create # 0}
OwnersKnown(p) == \A s \in Registered : peers[p][svcKey[s].value] # Unknown

\* ... then the Get. Entries of the own name are made as if they were found.
InitServices(p) ==
    /\ phase[p] = "clean" /\ leftovers[p] = {} /\ OwnersKnown(p)
    /\ phase' = [phase EXCEPT ![p] = "ready"]
    /\ services' = [services EXCEPT ![p] = [s \in Services |->
            [peer |-> svcKey[s].value, isSelf |-> svcKey[s].value = NameOf[p]]]]
    /\ selfServices' = [selfServices EXCEPT ![p] = [s \in Services |->
            IF svcKey[s].value = NameOf[p] THEN 0 ELSE -1]]
    /\ prefixIndex' = [prefixIndex EXCEPT ![p] =
            [n \in UNION {NodesTo(s) : s \in Registered} |-> n \in Registered]]
    /\ UNCHANGED <<peerVars, svcStore, leftovers, svcEvents, call, handling, dropped, raced,
                   unsure, calls>>

EtcdFails(p) == <<p, "svc_fails">> \in Env

\* A service whose owner is not among the peers ends the start, and so does the
\* error of a Get (that of the list: this step after ListLeftovers) or of a
\* transaction: what is not cleaned up by then stays.
InitServicesFails(p) ==
    /\ phase[p] = "clean"
    /\ \/ leftovers[p] = {} /\ ~OwnersKnown(p) /\ UNCHANGED unsure
       \/ EtcdFails(p) /\ unsure' = [unsure EXCEPT ![p] = peerSvc[NameOf[p]]]
    /\ Goes(p, {"ready"}, "stop")
    /\ phase' = [phase EXCEPT ![p] = "failed"]
    /\ UNCHANGED <<storeVars, watch, memory, trouble, events, budget, svcStore, leftovers,
                   services, selfServices, prefixIndex, svcEvents, call, handling, dropped, raced,
                   calls>>

\* unregisterServices, one entry of selfServices after the other.
StopServices(p) ==
    /\ stage[p] = "stop" /\ phase[p] = "ready" /\ call[p] = NoCall
    /\ phase' = [phase EXCEPT ![p] = "stop"]
    /\ leftovers' = [leftovers EXCEPT ![p] = {s \in Services : selfServices[p][s] # -1}]
    /\ UNCHANGED <<peerVars, svcStore, services, selfServices, prefixIndex, svcEvents,
                   call, handling, dropped, raced, unsure, calls>>

\* The entry is read when the Range comes to it; the transaction compares its
\* CreateRevision, and with 0 it finds only a key that does not exist. The loop
\* goes on after an error, whether the transaction was applied or not.
StopService(p, s) ==
    /\ phase[p] = "stop" /\ s \in leftovers[p]
    /\ leftovers' = [leftovers EXCEPT ![p] = @ \ {s}]
    /\ \/ /\ svcKey[s].create = selfServices[p][s] /\ svcKey[s].create # 0
          /\ DeleteService(p, s) /\ UNCHANGED unsure
       \/ /\ svcKey[s].create # selfServices[p][s] \/ svcKey[s].create = 0
          /\ UNCHANGED <<svcStore, svcEvents, unsure>>
       \/ /\ EtcdFails(p) /\ unsure' = [unsure EXCEPT ![p] = @ \cup {s}]
          /\ UNCHANGED <<svcStore, svcEvents>>
    /\ UNCHANGED <<peerVars, phase, services, selfServices,
                   prefixIndex, call, handling, dropped, raced, calls>>

\* Registry.Stop: the peer is unregistered after its services.
StopPeer(p) ==
    /\ phase[p] \in {"none", "failed"} \/ (phase[p] = "stop" /\ leftovers[p] = {})
    /\ UnregisterBegin(p)
    /\ UNCHANGED svcVars

\* The process is gone, with its memory.
SvcEnds(p) ==
    /\ Exit(p) \/ Crash(p) \/ UnregisterPanics(p)
    /\ phase' = [phase EXCEPT ![p] = "none"]
    /\ leftovers' = [leftovers EXCEPT ![p] = {}]
    /\ services' = [services EXCEPT ![p] = [s \in Services |-> NoService]]
    /\ selfServices' = [selfServices EXCEPT ![p] = [s \in Services |-> -1]]
    /\ prefixIndex' = [prefixIndex EXCEPT ![p] = EmptyTrie]
    /\ svcEvents' = [svcEvents EXCEPT ![p] = <<>>]
    /\ call' = [call EXCEPT ![p] = NoCall]
    /\ handling' = [handling EXCEPT ![p] = Idle]
    /\ dropped' = [dropped EXCEPT ![p] = {}] /\ raced' = [raced EXCEPT ![p] = {}]
    /\ unsure' = [unsure EXCEPT ![p] = {}]
    /\ UNCHANGED <<svcStore, calls>>

(* --------------------------------------------------- register, unregister *)
\* The delete event of an earlier registration is still to be handled.
DeletePending(p, s) ==
    \/ \E i \in DOMAIN svcEvents[p] : svcEvents[p][i] = [svc |-> s, owner |-> Unknown]
    \/ handling[p].svc = s /\ handling[p].owner = Unknown

Registers(p, s) ==
    /\ phase[p] = "ready" /\ stage[p] \in {"ready", "up"} /\ call[p] = NoCall
    /\ s \in Offers[p] /\ svcKey[s].create = 0
    /\ calls < MaxCalls /\ calls' = calls + 1
    /\ PutService(p, s)
    /\ UNCHANGED <<peerVars, phase, leftovers, services,
                   selfServices, prefixIndex, handling, dropped>>

RegisterService(p, s) ==
    /\ Registers(p, s)
    /\ call' = [call EXCEPT ![p] = [svc |-> s, create |-> calls + 1, at |-> "services"]]
    /\ raced' = [raced EXCEPT ![p] = IF DeletePending(p, s) THEN @ \cup {s} ELSE @ \ {s}]
    /\ unsure' = [unsure EXCEPT ![p] = @ \ {s}]

\* The transaction reports an error although it was applied: the call ends, the
\* keys are there, and the process hears of them by its watch only. One that was
\* not applied is no step.
RegisterServiceFails(p, s) ==
    /\ EtcdFails(p) /\ Registers(p, s)
    /\ unsure' = [unsure EXCEPT ![p] = @ \cup {s}]
    /\ UNCHANGED <<call, raced>>

CallAt(p, at) == call[p].at = at

\* The rest of the call: LoadOrStore keeps an entry that is still there ...
RegisterStore(p) ==
    /\ CallAt(p, "services")
    /\ services' = [services EXCEPT ![p][call[p].svc] =
            IF @ = NoService THEN [peer |-> NameOf[p], isSelf |-> TRUE] ELSE @]
    /\ call' = [call EXCEPT ![p].at = "index"]
    /\ UNCHANGED <<peerVars, svcStore, phase, leftovers, selfServices, prefixIndex, svcEvents,
                   handling, dropped, raced, unsure, calls>>

\* ... then the index ...
RegisterIndex(p) ==
    /\ CallAt(p, "index")
    /\ prefixIndex' = [prefixIndex EXCEPT ![p] = TrieAdd(@, call[p].svc)]
    /\ call' = [call EXCEPT ![p].at = "self"]
    /\ UNCHANGED <<peerVars, svcStore, phase, leftovers, services, selfServices, svcEvents,
                   handling, dropped, raced, unsure, calls>>

\* Mutant of RegisterSelfService: only the watch fills in the own services.
RegisterUnnoted(p) ==
    /\ CallAt(p, "self")
    /\ call' = [call EXCEPT ![p] = NoCall]
    /\ UNCHANGED <<peerVars, svcStore, phase, leftovers, services, selfServices, prefixIndex,
                   svcEvents, handling, dropped, raced, unsure, calls>>

\* ... and the own services, with the CreateRevision.
RegisterSelfService(p) ==
    LET s == call[p].svc IN
    /\ CallAt(p, "self")
    /\ selfServices' = [selfServices EXCEPT ![p][s] = call[p].create]
    /\ call' = [call EXCEPT ![p] = NoCall]
    /\ raced' = [raced EXCEPT ![p] = IF handling[p].svc = s THEN @ \cup {s} ELSE @]
    /\ UNCHANGED <<peerVars, svcStore, phase, leftovers, services, prefixIndex, svcEvents,
                   handling, dropped, unsure, calls>>

\* UnregisterService of an own service: only the keys; the entries follow by
\* the watch. A transaction that reports an error is this step or none.
UnregisterService(p, s) ==
    /\ phase[p] = "ready" /\ stage[p] \in {"up", "stop"} /\ call[p] = NoCall
    /\ svcKey[s].value = NameOf[p]
    /\ DeleteService(p, s)
    /\ UNCHANGED <<peerVars, phase, leftovers, services,
                   selfServices, prefixIndex, call, handling, dropped, raced, unsure, calls>>

(* -------------------------------------------------------------- the watch *)
SvcEvent(p) == Head(svcEvents[p])
TakeSvcEvent(p) ==
    /\ watch[p] \in {"watching", "notify", "done"} /\ handling[p] = Idle
    /\ svcEvents[p] # <<>>
    /\ svcEvents' = [svcEvents EXCEPT ![p] = Tail(@)]

\* onKvAdd: an entry that is there stays; the event of an owner that is not
\* among the peers yet is dropped.
SvcPut(p) ==
    LET s == SvcEvent(p).svc
        n == SvcEvent(p).owner
        new == services[p][s] = NoService
        known == peers[p][n] # Unknown
    IN
    /\ TakeSvcEvent(p) /\ n # Unknown
    /\ dropped' = [dropped EXCEPT ![p] = IF new /\ ~known THEN @ \cup {s} ELSE @]
    /\ handling' = [handling EXCEPT ![p] = IF new /\ known
            THEN [svc |-> s, owner |-> n, at |-> "services", isSelf |-> n = NameOf[p]] ELSE Idle]
    /\ UNCHANGED <<peerVars, svcStore, phase, leftovers, services, selfServices, prefixIndex,
                   call, raced, unsure, calls>>

\* onKvDelete: the entry leaves the map first.
SvcDelete(p) ==
    LET s == SvcEvent(p).svc
        last == services[p][s]
    IN
    /\ TakeSvcEvent(p) /\ SvcEvent(p).owner = Unknown
    /\ dropped' = [dropped EXCEPT ![p] = @ \ {s}]
    /\ services' = [services EXCEPT ![p][s] = NoService]
    /\ handling' = [handling EXCEPT ![p] = IF last # NoService
            THEN [svc |-> s, owner |-> Unknown, at |-> "index", isSelf |-> last.isSelf] ELSE Idle]
    /\ UNCHANGED <<peerVars, svcStore, phase, leftovers, selfServices, prefixIndex, call,
                   raced, unsure, calls>>

HandlingAt(p, at) == handling[p].at = at

\* LoadOrStore, as in RegisterService.
WatchStore(p) ==
    LET h == handling[p] IN
    /\ HandlingAt(p, "services")
    /\ services' = [services EXCEPT ![p][h.svc] =
            IF @ = NoService THEN [peer |-> h.owner, isSelf |-> h.isSelf] ELSE @]
    /\ handling' = [handling EXCEPT ![p].at = "index"]
    /\ UNCHANGED <<peerVars, svcStore, phase, leftovers, selfServices, prefixIndex, svcEvents,
                   call, dropped, raced, unsure, calls>>

WatchIndex(p) ==
    LET h == handling[p] IN
    /\ HandlingAt(p, "index")
    /\ prefixIndex' = [prefixIndex EXCEPT ![p] =
            IF h.owner # Unknown THEN TrieAdd(@, h.svc) ELSE TrieDelete(@, h.svc)]
    /\ handling' = [handling EXCEPT ![p] = IF h.isSelf THEN [h EXCEPT !.at = "self"] ELSE Idle]
    /\ UNCHANGED <<peerVars, svcStore, phase, leftovers, services, selfServices, svcEvents,
                   call, dropped, raced, unsure, calls>>

\* The entry of an event has no CreateRevision.
WatchSelf(p) ==
    LET h == handling[p] IN
    /\ HandlingAt(p, "self")
    /\ selfServices' = [selfServices EXCEPT ![p][h.svc] = IF h.owner # Unknown THEN 0 ELSE -1]
    /\ handling' = [handling EXCEPT ![p] = Idle]
    /\ UNCHANGED <<peerVars, svcStore, phase, leftovers, services, prefixIndex, svcEvents,
                   call, dropped, raced, unsure, calls>>

(* ------------------------------------------------------------- the system *)
PeerStep(p) ==
    /\ \/ RegisterSelf(p) \/ RegisterRefused(p) \/ RegisterFails(p) \/ InitPeers(p)
       \/ phase[p] = "ready" /\ call[p] = NoCall /\ Started(p)
       \/ phase[p] = "ready" /\ StopBegin(p)
       \/ UnregisterSelf(p) \/ UnregisterFails(p)
       \/ OnKvPut(p) \/ OnKvDelete(p) \/ OnOwnDelete(p) \/ ReRegister(p) \/ NoteRevision(p)
    /\ UNCHANGED svcVars

ServiceStep(p) ==
    \/ ListLeftovers(p) \/ InitServices(p) \/ InitServicesFails(p)
    \/ StopServices(p) \/ StopPeer(p) \/ SvcEnds(p)
    \/ RegisterStore(p) \/ RegisterIndex(p) \/ RegisterSelfService(p)
    \/ SvcPut(p) \/ SvcDelete(p) \/ WatchStore(p) \/ WatchIndex(p) \/ WatchSelf(p)
    \/ \E s \in Services : \/ CleanLeftover(p, s) \/ StopService(p, s)
                           \/ RegisterService(p, s) \/ RegisterServiceFails(p, s)
                           \/ UnregisterService(p, s)

Next ==
    \/ \E p \in Procs : PeerStep(p) \/ ServiceStep(p)
    \/ \E n \in Names : LeaseExpires(n) /\ UNCHANGED svcVars

Spec == Init /\ [][Next]_vars

(* ------------------------------------------------------------- properties *)
(* The two keys of a service are written and deleted together, whatever      *)
(* crashes, restarts and stops come between (service.go:429, 498, 548, 591): *)
(* a cleanup by the peer's keys finds every service of the peer, and nobody  *)
(* deletes the service of another: a process that has lost a service and     *)
(* stops with a stale entry of it in selfServices would leave the key of the *)
(* new owner's peer behind.                                                  *)
ServiceKeysAgree ==
    \A n \in Names, s \in Services : s \in peerSvc[n] <=> svcKey[s].value = n

(* The shape of the state, and the agreement of the keys (service.go:548).   *)
ServicesInv == TypeOK /\ ServiceKeysAgree

\* A process that has handled all its service events.
Settled(p) == svcEvents[p] = <<>> /\ handling[p] = Idle /\ call[p] = NoCall

(* A process that has seen all service events knows exactly the registered   *)
(* services under their owners (service.go:275), except those whose event    *)
(* came before its owner's peer event: these are dropped (service.go:357).   *)
ServicesCaughtUp ==
    \A p \in Procs : \A s \in Services \ dropped[p] :
        SvcListening(p) /\ Settled(p) => services[p][s].peer = svcKey[s].value

(* WhereIsService by prefix finds exactly the known services below the       *)
(* prefix (service.go:620): the index agrees with the map, except for a      *)
(* service that was registered while the deletion of an earlier registration *)
(* was on its way: that event may take the new name out of the index and     *)
(* leave it in the map (service.go:396-397).                                 *)
IndexMatchesServices ==
    \A p \in Procs : \A path \in Nodes :
        Settled(p) =>
            TrieSearch(prefixIndex[p], path) \ raced[p]
                = {s \in Services \ raced[p] : services[p][s] # NoService /\ IsStrictPrefix(path, s)}

(* A process that has seen all events finds the registered services, by name *)
(* and by prefix (service.go:275, 620).                                      *)
ServicesFound == ServicesCaughtUp /\ IndexMatchesServices

(* A process that stops in order leaves no service behind (service.go:492).  *)
(* The exceptions are one that was registered while an event of the same     *)
(* service was being handled or while the deletion of an earlier             *)
(* registration was on its way: the watch then replaces the entry by one     *)
(* without a CreateRevision (service.go:361-373), which the stop's           *)
(* transaction does not find; and one whose last transaction reported an     *)
(* error, of the registration, of the clean-up or of the stop itself: its    *)
(* keys may be there (service.go:431, 499, 550).                             *)
StopReleasesServices ==
    \A p \in Procs, s \in Services :
        (stage[p] = "unregister" /\ phase[p] # "none" /\ svcKey[s].value = NameOf[p]) =>
            s \in raced[p] \cup unsure[p]

(* ------------------------------------------ what the properties rest on *)
\* Every name has one process, or no process loses its lease or a commit.
OneDeployment == \A p, q \in Procs : NameOf[p] = NameOf[q] => p = q
Steady == Env \cap (Procs \X {"expire", "commit_fails"}) = {}

\* How far the service registry of a process is, and that it has nothing in
\* memory before its Get.
PhaseShape ==
    \A p \in Procs :
        /\ phase[p] = "none" \/ stage[p] \notin {"off", "init"}
        /\ phase[p] = "clean" => stage[p] = "ready"
        /\ phase[p] = "ready" => stage[p] \in {"ready", "up", "stop"}
        /\ phase[p] \in {"stop", "failed"} => stage[p] \in {"stop", "unregister", "leave"}
        /\ phase[p] = "stop" /\ stage[p] # "stop" => leftovers[p] = {}
        /\ phase[p] # "ready" => call[p] = NoCall
        /\ phase[p] \notin {"ready", "stop"} =>
              /\ services[p] = [s \in Services |-> NoService] /\ prefixIndex[p] = EmptyTrie
              /\ svcEvents[p] = <<>> /\ handling[p] = Idle

\* A process with a service registry has registered itself, and still has its
\* key, unless leases and commits are lost.
MembersHaveKey ==
    \A p \in Procs :
        /\ stage[p] = "off" => selfRevision[p] = 0
        /\ Member(p) \/ watch[p] # "none" \/ phase[p] # "none" => selfRevision[p] # 0
        /\ (Steady /\ stage[p] \notin {"off", "leave"} /\ selfRevision[p] # 0) =>
              Own(p).value = AddrOf[p]

Active(p) == phase[p] # "none" /\ stage[p] # "leave"

\* No two of one name: what the two make sure of.
Alone == \A p, q \in Procs : Active(p) /\ Active(q) /\ NameOf[p] = NameOf[q] => p = q

SvcKeyShape ==
    \A s \in Services : /\ svcKey[s].create = 0 <=> svcKey[s].value = Unknown
                        /\ svcKey[s].create <= calls

\* What a start has yet to clean is what the name has; what is left after it
\* is left by an error.
LeftoversOwn ==
    \A p \in Procs : /\ phase[p] = "clean" => leftovers[p] = peerSvc[NameOf[p]]
                     /\ phase[p] = "failed" /\ stage[p] # "leave" =>
                           peerSvc[NameOf[p]] \subseteq unsure[p]

\* A CreateRevision in memory is never that of another process's service, and
\* a call in progress has its service, and knows that it has.
RevisionsOwn ==
    \A p \in Procs, s \in Services :
        LET r == selfServices[p][s]
        IN  r <= calls /\ (r > 0 /\ svcKey[s].create = r => svcKey[s].value = NameOf[p])

CallHolds ==
    \A p \in Procs : call[p] # NoCall =>
        /\ svcKey[call[p].svc] = [value |-> NameOf[p], create |-> call[p].create]
        /\ call[p].svc \notin unsure[p]

\* Why a stop finds the service s of p: its entry has the CreateRevision, and
\* no event that is handled or to come replaces or deletes it.
Tracked(p, s) ==
    /\ ~DeletePending(p, s)
    /\ call[p].svc = s /\ call[p].at # "services" => services[p][s] # NoService
    /\ call[p].svc # s =>
          /\ services[p][s] # NoService /\ handling[p].svc # s
          /\ selfServices[p][s] = svcKey[s].create
          /\ phase[p] = "stop" => s \in leftovers[p]

OwnTracked ==
    \A p \in Procs : \A s \in Services \ (raced[p] \cup unsure[p]) :
        Active(p) /\ phase[p] \in {"ready", "stop"} /\ svcKey[s].value = NameOf[p] => Tracked(p, s)

InIndex(p, s) == s \in Set(prefixIndex[p])
Indexing(p, s) == handling[p].svc = s /\ handling[p].at = "index"

\* Map and index have the same services, outside the steps between the two.
InStep(p, s) ==
    /\ Indexing(p, s) /\ handling[p].owner = Unknown => services[p][s] = NoService
    /\ call[p].svc = s /\ call[p].at = "self" => InIndex(p, s)
    /\ (call[p].svc # s \/ call[p].at = "self") /\ ~Indexing(p, s) =>
          (InIndex(p, s) <=> services[p][s] # NoService)

IndexInStep ==
    \A p \in Procs :
        /\ WellFormed(prefixIndex[p])
        /\ handling[p].at = "services" => handling[p].owner # Unknown
        /\ handling[p].at = "index" /\ handling[p].owner # Unknown =>
              services[p][handling[p].svc] # NoService
        /\ \A s \in Services \ raced[p] : InStep(p, s)

\* A deletion of s comes after the i-th event of the queue.
DeleteAfter(queue, s, i) ==
    \E j \in 1 .. Len(queue) : j > i /\ queue[j] = [svc |-> s, owner |-> Unknown]

Storing(p, s) == handling[p].svc = s /\ handling[p].at = "services"

\* An owner in the map, on its way there or in an event to come is the one of
\* the key, or its deletion comes after it.
NoStaleOwner(p, s) ==
    LET queue == svcEvents[p]
        Good(n, i) == n \in {Unknown, svcKey[s].value} \/ DeleteAfter(queue, s, i)
    IN  /\ Good(services[p][s].peer, 0)
        /\ Storing(p, s) => Good(handling[p].owner, 0)
        /\ \A i \in 1 .. Len(queue) : queue[i].svc = s => Good(queue[i].owner, i)

\* A registered service is in the map, on its way there, or in an event to
\* come, and no deletion comes after it.
OwnerComes(p, s) ==
    LET queue == svcEvents[p]
    IN  svcKey[s].value # Unknown =>
          \/ /\ ~DeleteAfter(queue, s, 0)
             /\ services[p][s] # NoService \/ Storing(p, s) \/ s \in dropped[p]
          \/ \E i \in 1 .. Len(queue) : /\ queue[i].svc = s /\ queue[i].owner # Unknown
                                        /\ ~DeleteAfter(queue, s, i)

ViewFollows ==
    \A p \in Procs, s \in Services :
        /\ services[p][s].peer = Unknown => services[p][s] = NoService
        /\ SvcListening(p) => NoStaleOwner(p, s) /\ OwnerComes(p, s)

\* What every reachable state of the service registries keeps.
SvcIInv ==
    /\ ServicesInv /\ KeyShape /\ PhaseShape /\ MembersHaveKey
    /\ SvcKeyShape /\ LeftoversOwn /\ RevisionsOwn /\ CallHolds
    /\ OwnTracked /\ IndexInStep /\ ViewFollows
=============================================================================
