------------------------ MODULE GatewaySessionProofs ------------------------
(***************************************************************************)
(* Proofs about GatewaySession, for any finite set of clients, any number  *)
(* of messages and hall failures and any configured limit of sessions.     *)
(***************************************************************************)
EXTENDS GatewaySession, SequenceTheorems, FiniteSetTheorems, TLAPS

USE GatewaySessionAssumption

-----------------------------------------------------------------------------
(* Sequences of messages.                                                  *)

\* Moving the first pending message to the forwarded ones changes nothing in
\* what the three hold together.
LEMMA ForwardPending ==
    ASSUME NEW f \in Seq(Nat), NEW p \in Seq(Nat), NEW h \in Seq(Nat), p # <<>>
    PROVE  Append(f, Head(p)) \o Tail(p) \o h = f \o p \o h
<1>1. Append(f, Head(p)) \o Tail(p) = f \o p
  <2>1. Append(f, Head(p)) \o Tail(p) \in Seq(Nat) /\ f \o p \in Seq(Nat)
    OBVIOUS
  <2>2. Len(Append(f, Head(p)) \o Tail(p)) = Len(f \o p)
    OBVIOUS
  <2>3. \A i \in 1 .. Len(f \o p) : (Append(f, Head(p)) \o Tail(p))[i] = (f \o p)[i]
    OBVIOUS
  <2> QED BY <2>1, <2>2, <2>3, SeqEqual
<1> QED BY <1>1

\* So does forwarding the message in hand when none is pending,
LEMMA ForwardHand ==
    ASSUME NEW f \in Seq(Nat), NEW m \in Nat
    PROVE  Append(f, m) \o <<>> \o <<>> = f \o <<>> \o <<m>>
  OBVIOUS

\* and putting the message in hand behind the pending ones.
LEMMA KeepHand ==
    ASSUME NEW f \in Seq(Nat), NEW p \in Seq(Nat), NEW m \in Nat
    PROVE  f \o Append(p, m) \o <<>> = f \o p \o <<m>>
<1>1. f \o Append(p, m) \o <<>> \in Seq(Nat) /\ f \o p \o <<m>> \in Seq(Nat)
  OBVIOUS
<1>2. Len(f \o Append(p, m) \o <<>>) = Len(f \o p \o <<m>>)
  OBVIOUS
<1>3. \A i \in 1 .. Len(f \o p \o <<m>>) : (f \o Append(p, m) \o <<>>)[i] = (f \o p \o <<m>>)[i]
  OBVIOUS
<1> QED BY <1>1, <1>2, <1>3, SeqEqual

\* The next message behind the numbers of all messages so far.
LEMMA NextNumber ==
    ASSUME NEW n \in Nat
    PROVE  [i \in 1 .. n |-> i] \o <<n + 1>> = [i \in 1 .. n + 1 |-> i]
<1> DEFINE q == [i \in 1 .. n |-> i]
           r == [i \in 1 .. n + 1 |-> i]
<1>1. q \in Seq(Nat) /\ Len(q) = n /\ r \in Seq(Nat) /\ Len(r) = n + 1
  OBVIOUS
<1>2. /\ \A i \in 1 .. n : q[i] = i
      /\ \A i \in 1 .. n + 1 : r[i] = i
  OBVIOUS
<1> HIDE DEF q, r
<1>3. q \o <<n + 1>> \in Seq(Nat) /\ Len(q \o <<n + 1>>) = n + 1
  BY <1>1
<1>4. \A i \in 1 .. n + 1 : (q \o <<n + 1>>)[i] = i
  BY <1>1, <1>2
<1>5. q \o <<n + 1>> = r
  BY <1>1, <1>2, <1>3, <1>4, SeqEqual
<1> QED BY <1>5 DEF q, r

\* The numbers of the first n messages.
Upto(n) == [i \in 1 .. n |-> i]

\* With nothing in hand, the next message keeps the order.
LEMMA ReceiveNext ==
    ASSUME NEW f \in Seq(Nat), NEW p \in Seq(Nat), NEW n \in Nat, f \o p \o <<>> = Upto(n)
    PROVE  f \o p \o <<n + 1>> = Upto(n + 1)
<1>1. f \o p = [i \in 1 .. n |-> i]
  BY ConcatEmptySeq, ConcatProperties DEF Upto
<1> QED BY <1>1, NextNumber DEF Upto
-----------------------------------------------------------------------------
(* Types.                                                                  *)

\* TypeOK without the number of sessions, variable by variable.
FlatType ==
    /\ hallUp \in BOOLEAN /\ downs \in 0 .. MaxDowns /\ stopped \in BOOLEAN
    /\ client \in [Clients -> [here : BOOLEAN, sent : Nat]]
    /\ clientFull \in [Clients -> BOOLEAN] /\ hallFull \in [Clients -> BOOLEAN]
    /\ stage \in [Clients -> {"out", "login", "serve", "running", "ended"}]
    /\ ctxDone \in [Clients -> BOOLEAN] /\ closer \in [Clients -> BOOLEAN]
    /\ stream \in [Clients -> BOOLEAN] /\ alive \in [Clients -> BOOLEAN]
    /\ streamCtx \in [Clients -> BOOLEAN]
    /\ up \in [Clients -> {"none", "recv", "push", "suspend", "select", "open", "publish", "resume", "done"}]
    /\ told \in [Clients -> {"none", "suspend", "resume"}]
    /\ down \in [Clients -> {"none", "check", "send", "recv", "done", "panic"}]
    /\ message \in [Clients -> Nat]
    /\ pendingMessages \in [Clients -> Seq(Nat)] /\ forwarded \in [Clients -> Seq(Nat)]

\* TypeOK is FlatType and the type of the number.
LEMMA TypeSplit == TypeOK <=> FlatType /\ sessionCount \in Nat
  BY DEF TypeOK, FlatType

\* Every step keeps the types.
LEMMA FlatStep == FlatType /\ [Next]_vars => FlatType'
<1> SUFFICES ASSUME FlatType, [Next]_vars PROVE FlatType'
  OBVIOUS
<1> USE DEF FlatType, Enters, flowVars, envVars, upVars, downVars
<1>1. CASE HallsGo
  <2>1. hallUp' \in BOOLEAN /\ alive' \in [Clients -> BOOLEAN]
    BY <1>1, Zenon DEF HallsGo
  <2>2. downs' \in 0 .. MaxDowns
    BY <1>1 DEF HallsGo
  <2> QED BY <1>1, <2>1, <2>2 DEF HallsGo
<1>2. CASE HallComes
  BY <1>2 DEF HallComes
<1>3. CASE ServerStops
  BY <1>3 DEF ServerStops
<1>4. ASSUME NEW c \in Clients, StreamEnds(c) \/ ClientFlow(c) \/ HallFlow(c)
      PROVE  FlatType'
  <2>1. CASE StreamEnds(c)
    BY <2>1 DEF StreamEnds
  <2>2. CASE ClientFlow(c)
    BY <2>2 DEF ClientFlow
  <2>3. CASE HallFlow(c)
    BY <2>3 DEF HallFlow
  <2> QED BY <1>4, <2>1, <2>2, <2>3
<1>5. ASSUME NEW c \in Clients, ClientLeaves(c) \/ Connect(c) \/ LoginOk(c) \/ LoginFails(c)
      PROVE  FlatType'
  <2>1. CASE ClientLeaves(c)
    <3>1. client' = [client EXCEPT ![c] = [client[c] EXCEPT !.here = FALSE]]
      BY <2>1, Zenon DEF ClientLeaves
    <3>0. client[c] \in [here : BOOLEAN, sent : Nat]
      OBVIOUS
    <3> HIDE DEF FlatType
    <3>2. [client[c] EXCEPT !.here = FALSE] \in [here : BOOLEAN, sent : Nat]
      BY <3>0
    <3> USE DEF FlatType
    <3>3. client' \in [Clients -> [here : BOOLEAN, sent : Nat]]
      BY <3>1, <3>2
    <3> QED BY <2>1, <3>3 DEF ClientLeaves
  <2>2. CASE Connect(c)
    BY <2>2 DEF Connect
  <2>3. CASE LoginOk(c)
    BY <2>3 DEF LoginOk
  <2>4. CASE LoginFails(c)
    BY <2>4 DEF LoginFails
  <2> QED BY <1>5, <2>1, <2>2, <2>3, <2>4
<1>6. ASSUME NEW c \in Clients, Recv(c)
      PROVE  FlatType'
  <2>0. client[c] \in [here : BOOLEAN, sent : Nat] /\ client[c].sent + 1 \in Nat
    OBVIOUS
  <2>1. client' \in [Clients -> [here : BOOLEAN, sent : Nat]]
    <3>1. [client[c] EXCEPT !.sent = client[c].sent + 1] \in [here : BOOLEAN, sent : Nat]
      BY <2>0
    <3>2. client' = [client EXCEPT ![c] = [client[c] EXCEPT !.sent = client[c].sent + 1]]
      BY <1>6 DEF Recv
    <3> QED BY <3>1, <3>2
  <2>2. message' \in [Clients -> Nat]
    BY <1>6 DEF Recv
  <2> QED BY <1>6, <2>1, <2>2 DEF Recv
<1>7. ASSUME NEW c \in Clients, ServeStep(c)
      PROVE  FlatType'
  <2>1. CASE ServeStart(c)
    BY <2>1 DEF ServeStart
  <2>2. CASE ServeFails(c)
    BY <2>2 DEF ServeFails
  <2>3. CASE ServeReturns(c)
    BY <2>3 DEF ServeReturns
  <2>4. CASE CloserRuns(c)
    BY <2>4 DEF CloserRuns
  <2> QED BY <1>7, <2>1, <2>2, <2>3, <2>4 DEF ServeStep
<1>8. ASSUME NEW c \in Clients, RecvOk(c) \/ UpStep(c)
      PROVE  FlatType'
  <2> USE DEF UpGoes, Pushes
  <2>0. CASE RecvOk(c) \/ ProcessStreamMessage(c)
    BY <2>0 DEF RecvOk, ProcessStreamMessage
  <2>1. CASE RecvFails(c)
    BY <2>1 DEF RecvFails
  <2>2. CASE SendServerSuspend(c)
    BY <2>2 DEF SendServerSuspend
  <2>3. CASE SelectFinds(c)
    BY <2>3 DEF SelectFinds
  <2>4. CASE SelectNone(c)
    BY <2>4 DEF SelectNone
  <2>5. CASE OpenStream(c)
    BY <2>5 DEF OpenStream
  <2>6. CASE OpenFails(c)
    BY <2>6 DEF OpenFails
  <2>7. CASE PublishStream(c)
    BY <2>7 DEF PublishStream
  <2>8. CASE SendServerResume(c)
    BY <2>8 DEF SendServerResume
  <2> QED BY <1>8, <2>0, <2>1, <2>2, <2>3, <2>4, <2>5, <2>6, <2>7, <2>8 DEF UpStep
<1>9. ASSUME NEW c \in Clients, DownStep(c)
      PROVE  FlatType'
  <2> USE DEF DownGoes
  <2>1. CASE CheckStream(c)
    BY <2>1 DEF CheckStream
  <2>2. ASSUME NEW l \in {"check", "send"}, Unforwarded(c, l)
        PROVE  FlatType'
    BY <2>2 DEF Unforwarded, Keep
  <2>3. CASE SendOk(c)
    <3>1. NextToForward(c) \in Nat
      BY DEF NextToForward
    <3>2. forwarded' \in [Clients -> Seq(Nat)]
      BY <2>3, <3>1 DEF SendOk
    <3>3. CASE pendingMessages[c] # <<>>
      <4>1. pendingMessages' \in [Clients -> Seq(Nat)]
        <5>1. Tail(pendingMessages[c]) \in Seq(Nat)
          BY <3>3, HeadTailProperties
        <5> QED BY <2>3, <3>3, <5>1 DEF SendOk
      <4> QED BY <2>3, <3>2, <3>3, <4>1 DEF SendOk
    <3>4. CASE pendingMessages[c] = <<>>
      <4>1. /\ down' = [down EXCEPT ![c] = "recv"] /\ message' = [message EXCEPT ![c] = 0]
            /\ pendingMessages' = pendingMessages
            /\ UNCHANGED <<envVars, sessionCount, stage, closer, stream, upVars, ctxDone>>
        BY <2>3, <3>4, Zenon DEF SendOk
      <4>2. message' \in [Clients -> Nat]
        BY <4>1
      <4> QED BY <3>2, <4>1, <4>2
    <3> QED BY <3>3, <3>4
  <2>4. CASE SendPanics(c)
    BY <2>4 DEF SendPanics
  <2>5. CASE RecvEnds(c)
    BY <2>5 DEF RecvEnds
  <2> QED BY <1>9, <2>1, <2>2, <2>3, <2>4, <2>5 DEF DownStep, CheckNil, SendFails
<1>10. CASE UNCHANGED vars
  BY <1>10 DEF vars
<1> QED BY <1>1, <1>2, <1>3, <1>4, <1>5, <1>6, <1>7, <1>8, <1>9, <1>10 DEF Next

-----------------------------------------------------------------------------
(* The number of sessions.                                                 *)

\* A step in which a client begins or ends serve counts, every other step
\* leaves the number and the set of running sessions alone.
LEMMA CountStep ==
    ASSUME FlatType, SessionsCounted, [Next]_vars
    PROVE  SessionsCounted' /\ sessionCount' \in Nat
<1> DEFINE R == {c \in Clients : stage[c] = "running"}
<1>f. IsFiniteSet(R) /\ Cardinality(R) \in Nat
  BY FS_Subset, FS_CardinalityType
<1>f2. IsFiniteSet(R') /\ Cardinality(R') \in Nat
  BY FS_Subset, FS_CardinalityType
<1>1. ASSUME NEW c \in Clients, ServeStart(c)
      PROVE  Cardinality(R') = sessionCount'
  <2>1. R' = R \cup {c} /\ c \notin R
    BY <1>1 DEF ServeStart, Enters, FlatType
  <2>2. Cardinality(R \cup {c}) = Cardinality(R) + 1
    BY <1>f, <2>1, FS_AddElement
  <2> QED BY <1>1, <2>1, <2>2 DEF ServeStart, SessionsCounted
<1>2. ASSUME NEW c \in Clients, ServeReturns(c)
      PROVE  Cardinality(R') = sessionCount'
  <2>1. R' = R \ {c} /\ c \in R
    BY <1>2 DEF ServeReturns, Enters, FlatType
  <2>2. Cardinality(R \ {c}) = Cardinality(R) - 1
    BY <1>f, <2>1, FS_RemoveElement
  <2> QED BY <1>2, <2>1, <2>2 DEF ServeReturns, SessionsCounted
<1>3. ASSUME R' = R, sessionCount' = sessionCount
      PROVE  Cardinality(R') = sessionCount'
  BY <1>3 DEF SessionsCounted
<1>4. ASSUME NEW c \in Clients, Connect(c) \/ LoginOk(c) \/ LoginFails(c) \/ ServeFails(c)
      PROVE  R' = R /\ sessionCount' = sessionCount
  BY <1>4 DEF Connect, LoginOk, LoginFails, ServeFails, Enters, FlatType
<1>5. ASSUME NEW c \in Clients,
             StreamEnds(c) \/ ClientLeaves(c) \/ ClientFlow(c) \/ HallFlow(c) \/ Recv(c)
                \/ CloserRuns(c) \/ RecvOk(c) \/ UpStep(c)
      PROVE  stage' = stage /\ sessionCount' = sessionCount
  BY <1>5 DEF StreamEnds, ClientLeaves, ClientFlow, HallFlow, Recv, CloserRuns, RecvOk, UpStep,
     UpGoes, Pushes, ProcessStreamMessage, RecvFails, SendServerSuspend, SelectFinds, SelectNone, OpenStream, OpenFails, PublishStream,
     SendServerResume
<1>6. ASSUME NEW c \in Clients, DownStep(c)
      PROVE  stage' = stage /\ sessionCount' = sessionCount
  BY <1>6 DEF DownStep, DownGoes, CheckStream, CheckNil, Unforwarded, SendOk, SendFails,
     SendPanics, RecvEnds
<1>7. CASE HallsGo \/ HallComes \/ ServerStops \/ UNCHANGED vars
  BY <1>7, <1>3, <1>f2 DEF HallsGo, HallComes, ServerStops, vars, SessionsCounted
<1>8. CASE \E c \in Clients : ServeStart(c) \/ ServeReturns(c)
  BY <1>1, <1>2, <1>8, <1>f2 DEF SessionsCounted
<1>9. CASE stage' = stage /\ sessionCount' = sessionCount
  BY <1>9, <1>3, <1>f2 DEF SessionsCounted
<1>10. CASE R' = R /\ sessionCount' = sessionCount
  BY <1>10, <1>3, <1>f2 DEF SessionsCounted
<1> HIDE DEF R
<1> QED BY <1>4, <1>5, <1>6, <1>7, <1>8, <1>9, <1>10 DEF Next, ServeStep
-----------------------------------------------------------------------------
(* The order of the messages.                                              *)

\* What InOrder(c) and DownShape(c) are about, unchanged.
Untouched(c) ==
    /\ forwarded'[c] = forwarded[c] /\ pendingMessages'[c] = pendingMessages[c]
    /\ message'[c] = message[c] /\ client'[c].sent = client[c].sent
    /\ down'[c] = down[c] /\ stage'[c] = stage[c]

\* A client whose messages no step touches keeps its order.
LEMMA UntouchedKeeps ==
    ASSUME NEW c \in Clients, InOrder(c), DownShape(c), Untouched(c)
    PROVE  InOrder(c)' /\ DownShape(c)'
  BY DEF InOrder, DownShape, Untouched, InHand

\* The steps of the halls, of the contexts and of upstream=>client touch no
\* message.
LEMMA QuietStep ==
    ASSUME FlatType, NEW d \in Clients,
           \/ HallsGo \/ HallComes \/ ServerStops \/ UNCHANGED vars
           \/ \E c \in Clients :
                 StreamEnds(c) \/ ClientLeaves(c) \/ ClientFlow(c) \/ HallFlow(c)
                    \/ CloserRuns(c) \/ RecvOk(c) \/ UpStep(c)
    PROVE  Untouched(d)
<1> USE DEF Untouched, flowVars, envVars, downVars
<1>1. CASE HallsGo \/ HallComes \/ ServerStops \/ UNCHANGED vars
  BY <1>1 DEF HallsGo, HallComes, ServerStops, vars
<1>2. ASSUME NEW c \in Clients,
             StreamEnds(c) \/ ClientFlow(c) \/ HallFlow(c) \/ RecvOk(c) \/ UpStep(c)
      PROVE  Untouched(d)
  BY <1>2 DEF StreamEnds, ClientFlow, HallFlow, RecvOk, UpStep, UpGoes, Pushes,
     ProcessStreamMessage, RecvFails, SendServerSuspend, SelectFinds,
     SelectNone, OpenStream, OpenFails, PublishStream, SendServerResume
<1>3. ASSUME NEW c \in Clients, ClientLeaves(c) \/ CloserRuns(c)
      PROVE  Untouched(d)
  <2>1. client' = [client EXCEPT ![c].here = FALSE] /\ UNCHANGED <<stage, downVars>>
    BY <1>3 DEF ClientLeaves, CloserRuns
  <2>2. client'[d].sent = client[d].sent
    BY <2>1 DEF FlatType
  <2> QED BY <2>1, <2>2
<1> QED BY <1>1, <1>2, <1>3

\* A step of serve or of client=>upstream touches the messages of its own
\* client only.
LEMMA OthersUntouched ==
    ASSUME FlatType, NEW c \in Clients, NEW d \in Clients, d # c,
           Connect(c) \/ LoginOk(c) \/ LoginFails(c) \/ Recv(c) \/ ServeStart(c)
              \/ ServeFails(c) \/ ServeReturns(c) \/ DownStep(c)
    PROVE  Untouched(d)
<1> USE DEF Untouched, envVars, downVars, FlatType
<1>1. CASE Connect(c) \/ LoginFails(c) \/ ServeStart(c) \/ ServeFails(c) \/ ServeReturns(c)
  BY <1>1 DEF Connect, LoginFails, ServeStart, ServeFails, ServeReturns, Enters
<1>2. CASE LoginOk(c) \/ Recv(c)
  BY <1>2 DEF LoginOk, Recv, Enters
<1>3. CASE DownStep(c)
  <2>1. CASE SendOk(c)
    BY <2>1 DEF SendOk, DownGoes
  <2>2. CASE CheckStream(c) \/ CheckNil(c) \/ SendFails(c) \/ SendPanics(c) \/ RecvEnds(c)
    BY <2>2 DEF CheckStream, CheckNil, SendFails, SendPanics, RecvEnds, Unforwarded, DownGoes
  <2> QED BY <1>3, <2>1, <2>2 DEF DownStep
<1> QED BY <1>1, <1>2, <1>3

\* Every step keeps the order of every client's messages.
LEMMA OrderStep ==
    ASSUME FlatType, FlatType', \A d \in Clients : InOrder(d) /\ DownShape(d), [Next]_vars
    PROVE  \A d \in Clients : (InOrder(d) /\ DownShape(d))'
<1> SUFFICES ASSUME NEW d \in Clients PROVE InOrder(d)' /\ DownShape(d)'
  OBVIOUS
<1>d. InOrder(d) /\ DownShape(d)
  OBVIOUS
<1>t. /\ forwarded[d] \in Seq(Nat) /\ pendingMessages[d] \in Seq(Nat)
      /\ message[d] \in Nat /\ client[d].sent \in Nat
  BY DEF FlatType
<1>q. CASE Untouched(d)
  BY <1>q, <1>d, UntouchedKeeps
<1>1. CASE Connect(d) \/ LoginFails(d) \/ ServeStart(d) \/ ServeFails(d) \/ ServeReturns(d)
  <2>1. UNCHANGED <<forwarded, pendingMessages, message, client>>
    BY <1>1 DEF Connect, LoginFails, ServeStart, ServeFails, ServeReturns, envVars, downVars
  <2>2. InOrder(d)'
    BY <1>d, <2>1 DEF InOrder, InHand
  <2>3. DownShape(d)'
    BY <1>1, <1>d, <2>1 DEF DownShape, Connect, LoginFails, ServeStart, ServeFails,
       ServeReturns, Enters, downVars, FlatType
  <2> QED BY <2>2, <2>3
<1>2. CASE LoginOk(d)
  <2>1. /\ message[d] = 0 /\ client[d].sent = 0 /\ down[d] = "none"
    BY <1>2, <1>d DEF LoginOk, Enters, DownShape
  <2>2. /\ message'[d] = 1 /\ client'[d].sent = 1 /\ stage'[d] = "serve" /\ down'[d] = down[d]
        /\ UNCHANGED <<forwarded, pendingMessages>>
    BY <1>2 DEF LoginOk, Enters, FlatType
  <2>3. forwarded[d] \o pendingMessages[d] \o <<>> = Upto(client[d].sent)
    BY <1>d, <2>1 DEF InOrder, InHand, Upto
  <2>4. forwarded[d] \o pendingMessages[d] \o <<client[d].sent + 1>> = Upto(client[d].sent + 1)
    BY <1>t, <2>3, ReceiveNext
  <2>5. InOrder(d)'
    <3>1. message'[d] = client[d].sent + 1 /\ client'[d].sent = client[d].sent + 1 /\ message'[d] # 0
      BY <2>1, <2>2
    <3> QED BY <2>2, <2>4, <3>1, Zenon DEF InOrder, InHand, Upto
  <2> QED BY <2>1, <2>2, <2>5 DEF DownShape
<1>3. CASE Recv(d)
  <2>1. message[d] = 0 /\ stage[d] = "running"
    BY <1>3, <1>d DEF Recv, DownShape
  <2>2. /\ message'[d] = client[d].sent + 1 /\ client'[d].sent = client[d].sent + 1
        /\ down'[d] = "check" /\ stage'[d] = stage[d]
        /\ UNCHANGED <<forwarded, pendingMessages>>
    BY <1>3 DEF Recv, FlatType
  <2>3. forwarded[d] \o pendingMessages[d] \o <<>> = Upto(client[d].sent)
    BY <1>d, <2>1 DEF InOrder, InHand, Upto
  <2>4. forwarded[d] \o pendingMessages[d] \o <<client[d].sent + 1>> = Upto(client[d].sent + 1)
    BY <1>t, <2>3, ReceiveNext
  <2>5. message'[d] # 0
    BY <1>t, <2>2
  <2>6. InOrder(d)'
    BY <2>2, <2>4, <2>5 DEF InOrder, InHand, Upto
  <2> QED BY <2>1, <2>2, <2>5, <2>6 DEF DownShape
<1>4. CASE CheckStream(d) \/ SendPanics(d) \/ RecvEnds(d)
  <2>1. UNCHANGED <<forwarded, pendingMessages, message, client, stage>>
    BY <1>4 DEF CheckStream, SendPanics, RecvEnds, DownGoes, envVars
  <2>2. InOrder(d)'
    BY <1>d, <2>1 DEF InOrder, InHand
  <2>3. DownShape(d)'
    BY <1>4, <1>d, <2>1 DEF DownShape, CheckStream, SendPanics, RecvEnds, DownGoes, FlatType
  <2> QED BY <2>2, <2>3
<1>5. ASSUME NEW l \in {"check", "send"}, Unforwarded(d, l)
      PROVE  InOrder(d)' /\ DownShape(d)'
  <2>1. message[d] # 0 /\ stage[d] = "running"
    BY <1>5, <1>d DEF Unforwarded, DownGoes, DownShape
  <2>2. /\ pendingMessages'[d] = Append(pendingMessages[d], message[d]) /\ message'[d] = 0
        /\ down'[d] = "recv" /\ UNCHANGED <<forwarded, client, stage>>
    BY <1>5 DEF Unforwarded, Keep, DownGoes, envVars, FlatType
  <2>3. forwarded[d] \o Append(pendingMessages[d], message[d]) \o <<>>
            = forwarded[d] \o pendingMessages[d] \o <<message[d]>>
    BY <1>t, KeepHand
  <2>4. InOrder(d)'
    BY <1>d, <2>1, <2>2, <2>3 DEF InOrder, InHand
  <2> QED BY <2>1, <2>2, <2>4 DEF DownShape
<1>6. CASE SendOk(d)
  <2>1. message[d] # 0 /\ stage[d] = "running"
    BY <1>6, <1>d DEF SendOk, DownGoes, DownShape
  <2>2. CASE pendingMessages[d] # <<>>
    <3>1. /\ forwarded'[d] = Append(forwarded[d], Head(pendingMessages[d]))
          /\ pendingMessages'[d] = Tail(pendingMessages[d])
          /\ down'[d] = "check" /\ UNCHANGED <<message, client, stage>>
      BY <1>6, <2>2 DEF SendOk, NextToForward, DownGoes, envVars, FlatType
    <3>2. InHand(d) \in Seq(Nat) /\ InHand(d)' = InHand(d)
      BY <1>t, <3>1 DEF InHand
    <3>3. Append(forwarded[d], Head(pendingMessages[d])) \o Tail(pendingMessages[d]) \o InHand(d)
              = forwarded[d] \o pendingMessages[d] \o InHand(d)
      BY <1>t, <2>2, <3>2, ForwardPending
    <3>4. InOrder(d)'
      BY <1>d, <3>1, <3>2, <3>3 DEF InOrder
    <3> QED BY <2>1, <3>1, <3>4 DEF DownShape
  <2>3. CASE pendingMessages[d] = <<>>
    <3>1. /\ forwarded'[d] = Append(forwarded[d], message[d])
          /\ message'[d] = 0 /\ pendingMessages'[d] = <<>>
          /\ down'[d] = "recv" /\ UNCHANGED <<client, stage>>
      BY <1>6, <2>3 DEF SendOk, NextToForward, DownGoes, envVars, FlatType
    <3>2. Append(forwarded[d], message[d]) \o <<>> \o <<>> = forwarded[d] \o <<>> \o <<message[d]>>
      BY <1>t, ForwardHand
    <3>3. InOrder(d)'
      BY <1>d, <2>1, <2>3, <3>1, <3>2 DEF InOrder, InHand
    <3> QED BY <2>1, <3>1, <3>3 DEF DownShape
  <2> QED BY <2>2, <2>3
<1>7. ASSUME NEW c \in Clients, c # d,
             Connect(c) \/ LoginOk(c) \/ LoginFails(c) \/ Recv(c) \/ ServeStart(c)
              \/ ServeFails(c) \/ ServeReturns(c) \/ DownStep(c)
      PROVE  InOrder(d)' /\ DownShape(d)'
  BY <1>7, <1>q, OthersUntouched
<1>8. CASE DownStep(d)
  BY <1>4, <1>5, <1>6, <1>8 DEF DownStep, CheckNil, SendFails
<1>9. CASE \/ HallsGo \/ HallComes \/ ServerStops \/ UNCHANGED vars
           \/ \E c \in Clients :
                 StreamEnds(c) \/ ClientLeaves(c) \/ ClientFlow(c) \/ HallFlow(c)
                    \/ CloserRuns(c) \/ RecvOk(c) \/ UpStep(c)
  BY <1>9, <1>q, QuietStep
<1> QED BY <1>1, <1>2, <1>3, <1>7, <1>8, <1>9 DEF Next, ServeStep

-----------------------------------------------------------------------------
(* The theorems.                                                           *)

\* The initial states.
LEMMA GatewayInit == Init => GatewayIInv
<1> SUFFICES ASSUME Init PROVE GatewayIInv
  OBVIOUS
<1>1. TypeOK
  <2>1. client \in [Clients -> [here : BOOLEAN, sent : Nat]] /\ message \in [Clients -> Nat]
    BY DEF Init
  <2>2. pendingMessages \in [Clients -> Seq(Nat)] /\ forwarded \in [Clients -> Seq(Nat)]
    BY DEF Init
  <2>3. {clientFull, hallFull, ctxDone, closer, stream, alive, streamCtx} \subseteq [Clients -> BOOLEAN]
    BY DEF Init
  <2>4. /\ stage \in [Clients -> {"out", "login", "serve", "running", "ended"}]
        /\ up \in [Clients -> {"none", "recv", "push", "suspend", "select", "open", "publish", "resume", "done"}]
        /\ told \in [Clients -> {"none", "suspend", "resume"}]
        /\ down \in [Clients -> {"none", "check", "send", "recv", "done", "panic"}]
    BY DEF Init
  <2>5. hallUp \in BOOLEAN /\ stopped \in BOOLEAN
    BY Zenon DEF Init
  <2>6. downs \in 0 .. MaxDowns /\ sessionCount \in Nat
    BY DEF Init
  <2> QED BY <2>1, <2>2, <2>3, <2>4, <2>5, <2>6 DEF TypeOK
<1>2. SessionsCounted
  <2>1. {c \in Clients : stage[c] = "running"} = {}
    BY DEF Init
  <2> QED BY <2>1, FS_EmptySet DEF Init, SessionsCounted
<1>3. ASSUME NEW c \in Clients PROVE InOrder(c) /\ DownShape(c)
  <2>1. <<>> \o <<>> \o <<>> = [i \in 1 .. 0 |-> i]
    OBVIOUS
  <2> QED BY <2>1 DEF Init, InOrder, InHand, DownShape
<1> QED BY <1>1, <1>2, <1>3 DEF GatewayIInv

\* What every reachable state of the gateway keeps: the shape of the state,
\* Server.SessionCount is the number of running sessions (server.go), and what
\* was forwarded, is pending and is in hand is all that was received, in order.
THEOREM GatewayInvariant == Spec => []GatewayIInv
<1>1. GatewayIInv /\ [Next]_vars => GatewayIInv'
  <2> SUFFICES ASSUME GatewayIInv, [Next]_vars PROVE GatewayIInv'
    OBVIOUS
  <2>1. FlatType /\ FlatType'
    BY TypeSplit, FlatStep DEF GatewayIInv
  <2>2. SessionsCounted' /\ sessionCount' \in Nat
    BY <2>1, CountStep DEF GatewayIInv
  <2>3. \A d \in Clients : (InOrder(d) /\ DownShape(d))'
    BY <2>1, OrderStep DEF GatewayIInv
  <2>4. TypeOK'
    BY <2>1, <2>2 DEF TypeOK, FlatType
  <2> QED BY <2>2, <2>3, <2>4 DEF GatewayIInv
<1> QED BY <1>1, GatewayInit, PTL DEF Spec

\* The messages of a client reach the streams in the order they came, none left
\* out and none twice, however often the halls go (session.go:152-180).
THEOREM MessagesStayInOrder == Spec => []GatewayInv
<1>1. GatewayIInv => GatewayInv
  BY DEF GatewayIInv, GatewayInv, ForwardedInOrder, InOrder
<1> QED BY <1>1, GatewayInvariant, PTL
=============================================================================
