------------------------------ MODULE Upstream ------------------------------
(* The gateway's view of the halls (gateway/server/upstream.go): the peer    *)
(* registry calls OnPeerAdd and OnPeerDelete, from its watch goroutine and   *)
(* from notify; every add makes an Upstream, which dials the hall, asks for  *)
(* its Info and can then be selected for logins. The module composes the     *)
(* peer registry of all processes with the upstream_map of one gateway.      *)
(*                                                                           *)
(* The map holds one Upstream per hall: its address, how far serve has come, *)
(* and whether its context is still open. An Upstream that is served but not *)
(* in the map is only counted (strays): nothing can close it. One that is    *)
(* closed and not in the map ends by itself and is forgotten. OnPeerUpdate   *)
(* is never called: registerSelf does not change the value of a key.         *)
EXTENDS PeerRegistry

CONSTANTS
    Gateway,        \* the process with the upstream_map
    Halls,          \* the names its configuration lets through (server.go:119)
    BuildOf         \* the build time that a process reports in its Info

ASSUME UpstreamAssumption ==
    /\ Observers = {Gateway} /\ Halls \subseteq Names /\ Halls \subseteq Follows[Gateway]
    /\ NameOf[Gateway] \notin Halls       \* a gateway is no hall
    /\ BuildOf \in [Procs -> Nat]

VARIABLES
    upstreams,      \* upstream_map
    strays,         \* upstreams that are open and not in the map
    raced           \* history: halls that changed before notify came to them

upVars == <<upstreams, strays, raced>>
vars == <<peerVars, upVars>>

NoUpstream == [addr |-> Unknown, at |-> "none", open |-> FALSE]

\* The shape of the state.
TypeOK ==
    /\ PeersTypeOK
    /\ upstreams \in [Halls -> [addr : Addrs \cup {NoAddr, Unknown}, open : BOOLEAN,
                                at : {"none", "stream", "info", "ready", "ended"}]]
    /\ strays \in [Halls -> Nat]
    /\ raced \subseteq Halls

UpInit ==
    /\ upstreams = [h \in Halls |-> NoUpstream]
    /\ strays = [h \in Halls |-> 0]
    /\ raced = {}

Init == PeersInit /\ UpInit

(* -------------------------------------------------------------- handlers *)
InMap(h) == upstreams[h] # NoUpstream

\* newUpstream and LoadOrStore: an upstream that is already in the map is
\* closed and stays there; the new one is served all the same.
OnPeerAdd(h, a) ==
    \/ /\ ~InMap(h)
       /\ upstreams' = [upstreams EXCEPT ![h] = [addr |-> a, at |-> "stream", open |-> TRUE]]
       /\ UNCHANGED strays
    \/ /\ InMap(h)
       /\ upstreams' = [upstreams EXCEPT ![h].open = FALSE]
       /\ strays' = [strays EXCEPT ![h] = @ + 1]

\* Mutant of OnPeerDelete: the upstream is closed and stays in the map.
OnPeerDeleteKeeps(h) ==
    /\ upstreams' = [upstreams EXCEPT ![h] = IF InMap(h) THEN [@ EXCEPT !.open = FALSE] ELSE @]
    /\ UNCHANGED strays

OnPeerDelete(h) ==
    /\ upstreams' = [upstreams EXCEPT ![h] = NoUpstream]
    /\ UNCHANGED strays

\* Did this event of the gateway's watch come before notify's visit?
Early(h) == watch[Gateway] = "watching" \/ h \in toNotify[Gateway]
NoteRace(h) == raced' = IF Early(h) THEN raced \cup {h} ELSE raced

(* The steps of the gateway's watch and notify goroutines, with the handlers *)
(* they call.                                                                *)
WatchPut ==
    /\ OnKvPut(Gateway)
    /\ LET h == Event(Gateway).name IN
       IF h \notin Halls THEN UNCHANGED upVars
       ELSE /\ NoteRace(h)
            /\ IF h \in Added(Gateway) THEN OnPeerAdd(h, Event(Gateway).value)
               ELSE UNCHANGED <<upstreams, strays>>

WatchDelete ==
    /\ OnKvDelete(Gateway)
    /\ LET h == Event(Gateway).name IN
       IF h \notin Halls THEN UNCHANGED upVars
       ELSE /\ NoteRace(h)
            /\ IF h \in Deleted(Gateway) THEN OnPeerDelete(h)
               ELSE UNCHANGED <<upstreams, strays>>

Notify(n) ==
    /\ NotifyOne(Gateway, n)
    /\ IF n \in Halls /\ peers[Gateway][n] # Unknown
       THEN OnPeerAdd(n, peers[Gateway][n]) ELSE UNCHANGED <<upstreams, strays>>
    /\ UNCHANGED raced

Dies(p) == Exit(p) \/ Crash(p) \/ UnregisterPanics(p)

\* The gateway's process ends: nothing is left of its upstreams.
GatewayEnds ==
    /\ Dies(Gateway)
    /\ upstreams' = [h \in Halls |-> NoUpstream]
    /\ strays' = [h \in Halls |-> 0] /\ raced' = {}

(* ------------------------------------------------------------------ serve *)
\* A hall answers from the end of its start (onStart) to the end of its stop.
Reachable(a) == \E p \in Procs : AddrOf[p] = a /\ watch[p] \notin {"none", "known"}

Serves(h, from, to) ==
    /\ upstreams[h].at = from /\ stage[Gateway] # "off"
    /\ upstreams' = [upstreams EXCEPT ![h].at = to, ![h].open = IF to = "ended" THEN FALSE ELSE @]
    /\ UNCHANGED <<peerVars, strays, raced>>

\* The gate stream is retried every second until it can be made.
ServeStream(h) == Serves(h, "stream", "info") /\ upstreams[h].open /\ Reachable(upstreams[h].addr)

\* Info is asked once: client is set when it answers, and serve ends, closing
\* its own context, when it does not.
ServeInfo(h) == Serves(h, "info", "ready") /\ upstreams[h].open /\ Reachable(upstreams[h].addr)
InfoFails(h) == Serves(h, "info", "ended") /\ ~(upstreams[h].open /\ Reachable(upstreams[h].addr))

\* close: every loop of serve ends with the context, and client becomes nil.
ServeClosed(h) ==
    \E from \in {"stream", "ready"} : Serves(h, from, "ended") /\ ~upstreams[h].open

\* The build time of the hall behind an upstream, which Info has answered.
BuildTime(h) == BuildOf[CHOOSE p \in Procs : AddrOf[p] = upstreams[h].addr]

\* The upstreams in the map that have a client, also one that is closed and
\* has not ended.
Candidates == {h \in Halls : upstreams[h].at = "ready"}

\* Mutant of Selectable: the oldest build is kept.
SelectableOldest ==
    {h \in Candidates : upstreams[h].open /\ \A g \in Candidates : BuildTime(g) >= BuildTime(h)}

\* What SelectPeer chooses from: the newest build, and then only upstreams that
\* are open (playerCount decides among them, and then HealthCheck asks the one
\* it chose).
Selectable ==
    {h \in Candidates : upstreams[h].open /\ \A g \in Candidates : BuildTime(g) <= BuildTime(h)}

(* ------------------------------------------------------------- the system *)
Serve(h) == ServeStream(h) \/ ServeInfo(h) \/ InfoFails(h) \/ ServeClosed(h)

OtherWatch(p) == OnKvPut(p) \/ OnKvDelete(p)
WatchSteps(p) == \/ NotifyBegin(p)
                 \/ OnOwnDelete(p) \/ ReRegister(p) \/ NoteRevision(p)
StartStop(p) == \/ RegisterSelf(p) \/ RegisterRefused(p) \/ RegisterFails(p)
                \/ InitPeers(p) \/ Started(p) \/ StopBegin(p)
                \/ UnregisterBegin(p) \/ UnregisterSelf(p) \/ UnregisterFails(p)
GatewayWatch == WatchPut \/ WatchDelete \/ \E n \in Names : Notify(n)

PeerStep(p) == (WatchSteps(p) \/ StartStop(p)) /\ UNCHANGED upVars
OtherStep(p) == p # Gateway /\ (OtherWatch(p) \/ Dies(p)) /\ UNCHANGED upVars

Next ==
    \/ \E p \in Procs : PeerStep(p) \/ OtherStep(p)
    \/ \E n \in Names : LeaseExpires(n) /\ UNCHANGED upVars
    \/ GatewayWatch \/ GatewayEnds
    \/ \E h \in Halls : Serve(h)

Spec == Init /\ [][Next]_vars

(* The watch and notify goroutines of a process run, and so does an upstream's *)
(* serve. Nothing is asked of starts, stops, crashes and leases. Between two *)
(* of those each goroutine takes finitely many steps, so that it is enough   *)
(* to ask that the cluster goes on while one of them can.                    *)
Watches(p) ==
    \/ WatchSteps(p) /\ UNCHANGED upVars
    \/ p # Gateway /\ OtherWatch(p) /\ UNCHANGED upVars
    \/ p = Gateway /\ GatewayWatch

Progress == (\E p \in Procs : Watches(p)) \/ (\E h \in Halls : Serve(h))

Fairness == WF_vars(Progress)

FairSpec == Spec /\ Fairness

(* ------------------------------------------------------------- properties *)
(* The state has its shape, every view of the peers that has seen all events *)
(* is the registered one, and no name has two servers (peer.go:348, 464).    *)
PeersInv == TypeOK /\ ViewCaughtUp /\ OneServerPerName

CaughtUp == Listening(Gateway) /\ watch[Gateway] = "done" /\ events[Gateway] = <<>>

(* When the gateway has seen all events, its map holds an open upstream, at  *)
(* the registered address, for exactly the registered halls, and no stray is *)
(* left that nothing would close (upstream.go:98); an upstream whose Info    *)
(* failed has ended. The exceptions are halls that came or went between the  *)
(* start of the watch and notify's visit: those are announced twice, or      *)
(* after they are gone (registry.go:100-116).                                *)
UpstreamsFollowPeers ==
    \A h \in Halls \ raced :
        CaughtUp =>
            /\ strays[h] = 0
            /\ InMap(h) <=> Exists(h)
            /\ InMap(h) => /\ upstreams[h].addr = peerKey[h].value
                           /\ upstreams[h].open \/ upstreams[h].at = "ended"

HallUp(h) == \E p \in Procs : stage[p] = "up" /\ NameOf[p] = h /\ peerKey[h].value = AddrOf[p]

\* The build of a hall that is registered.
Build(h) == BuildOf[CHOOSE p \in Procs : AddrOf[p] = peerKey[h].value]

(* A gateway that is up and a hall that is up and registered: the hall       *)
(* becomes selectable, or one of the same or a newer build is                *)
(* (upstream.go:46-59), so that logins have somewhere to go. The exceptions  *)
(* are as above, and a hall that went away while it was asked for its Info,  *)
(* which is not asked again (upstream.go:223).                               *)
HallBecomesSelectable ==
    \A h \in Halls :
        (HallUp(h) /\ stage[Gateway] = "up" /\ h \notin raced)
            ~> (\/ ~HallUp(h) \/ stage[Gateway] # "up"
                \/ \E g \in Selectable : BuildTime(g) >= Build(h)
                \/ h \in raced \/ upstreams[h].at = "ended")

(* -------------------------------------------- what the properties rest on *)
\* notify has visited the entry of h, or will not come back to it.
Visited(h) == watch[Gateway] \in {"notify", "done"} /\ h \notin toNotify[Gateway]

\* Before the visit a hall has no upstream, and afterwards it has the one of
\* its entry, if nothing happened to it before.
Tracked(h) ==
    LET a == peers[Gateway][h]
        up == upstreams[h]
    IN  /\ strays[h] = 0
        /\ ~Visited(h) => up = NoUpstream /\ a # NoAddr
        /\ Visited(h) => IF a \in {NoAddr, Unknown} THEN up = NoUpstream
                         ELSE up.addr = a /\ up.at # "none" /\ (up.open \/ up.at = "ended")

UpIInv ==
    /\ TypeOK /\ PeersIInv
    /\ watch[Gateway] # "notify" => toNotify[Gateway] = {}
    /\ \A h \in Halls \ raced : Tracked(h)
=============================================================================
