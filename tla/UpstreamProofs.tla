--------------------------- MODULE UpstreamProofs ---------------------------
(***************************************************************************)
(* Proofs about PeerRegistry and Upstream, for any set of processes, names *)
(* and faults.                                                             *)
(***************************************************************************)
EXTENDS Upstream, SequenceTheorems, TLAPS

Ev == [name : Names, value : Addrs \cup {NoAddr}]

-----------------------------------------------------------------------------
(* Queues of events.                                                       *)

\* Append and Tail by their elements.
LEMMA AppendAt ==
    ASSUME NEW q \in Seq(Ev), NEW e \in Ev
    PROVE  /\ Append(q, e) \in Seq(Ev) /\ Len(Append(q, e)) = Len(q) + 1
           /\ \A i \in 1 .. Len(q) : Append(q, e)[i] = q[i]
           /\ Append(q, e)[Len(q) + 1] = e
           /\ Len(q) \in Nat
  BY AppendProperties, LenProperties

LEMMA TailAt ==
    ASSUME NEW q \in Seq(Ev), q # <<>>
    PROVE  /\ Tail(q) \in Seq(Ev) /\ Len(q) \in Nat \ {0} /\ Len(Tail(q)) = Len(q) - 1
           /\ \A i \in 1 .. Len(q) - 1 : Tail(q)[i] = q[i + 1]
           /\ Head(q) = q[1] /\ Head(q) \in Ev
<1>1. Tail(q) \in Seq(Ev) /\ Len(Tail(q)) = Len(q) - 1 /\ Head(q) = q[1] /\ Head(q) \in Ev
      /\ \A i \in 1 .. Len(Tail(q)) : Tail(q)[i] = q[i + 1]
  BY HeadTailProperties
<1>2. Len(q) \in Nat /\ Len(q) # 0
  BY EmptySeq, LenProperties
<1> QED BY <1>1, <1>2

\* A new event about n is the last one.
LEMMA AgreesAppendSame ==
    ASSUME NEW q \in Seq(Ev), NEW e \in Ev, NEW n, NEW x, NEW V, NEW X, e.name = n, e.value \in V
    PROVE  Agrees(Append(q, e), n, x, V, X)
<1>1. /\ Len(Append(q, e)) = Len(q) + 1 /\ Append(q, e)[Len(q) + 1] = e /\ Len(q) \in Nat
  BY AppendAt
<1> QED BY <1>1 DEF Agrees

\* An event about another name changes nothing.
LEMMA AgreesAppendOther ==
    ASSUME NEW q \in Seq(Ev), NEW e \in Ev, NEW n, NEW x, NEW V, NEW X, e.name # n,
           Agrees(q, n, x, V, X)
    PROVE  Agrees(Append(q, e), n, x, V, X)
<1> DEFINE a == Append(q, e)
<1>1. /\ Len(a) = Len(q) + 1 /\ a[Len(q) + 1] = e /\ Len(q) \in Nat
      /\ \A i \in 1 .. Len(q) : a[i] = q[i]
  BY AppendAt
<1> HIDE DEF a
<1>2. ASSUME NEW i \in 1 .. Len(a), a[i].name = n, \A j \in 1 .. Len(a) : j > i => a[j].name # n
      PROVE  a[i].value \in V
  <2>1. i \in 1 .. Len(q) /\ a[i] = q[i]
    BY <1>1, <1>2
  <2>2. \A j \in 1 .. Len(q) : j > i => q[j].name # n
    BY <1>1, <1>2
  <2> QED BY <1>2, <2>1, <2>2 DEF Agrees
<1>3. ASSUME \A i \in 1 .. Len(a) : a[i].name # n PROVE x \in X
  <2>1. \A i \in 1 .. Len(q) : q[i].name # n
    BY <1>1, <1>3
  <2> QED BY <2>1 DEF Agrees
<1>4. Agrees(a, n, x, V, X)
  BY <1>2, <1>3 DEF Agrees
<1> QED BY <1>4 DEF a

\* The first event about another name, consumed.
LEMMA AgreesTailOther ==
    ASSUME NEW q \in Seq(Ev), q # <<>>, NEW n, NEW x, NEW V, NEW X, Head(q).name # n,
           Agrees(q, n, x, V, X)
    PROVE  Agrees(Tail(q), n, x, V, X)
<1> DEFINE a == Tail(q)
<1>1. /\ Len(q) \in Nat \ {0} /\ Len(a) = Len(q) - 1
      /\ \A i \in 1 .. Len(q) - 1 : a[i] = q[i + 1]
      /\ Head(q) = q[1]
  BY TailAt
<1> HIDE DEF a
<1>2. ASSUME NEW i \in 1 .. Len(a), a[i].name = n, \A j \in 1 .. Len(a) : j > i => a[j].name # n
      PROVE  a[i].value \in V
  <2>1. i + 1 \in 1 .. Len(q) /\ a[i] = q[i + 1]
    BY <1>1
  <2>2. ASSUME NEW j \in 1 .. Len(q), j > i + 1 PROVE q[j].name # n
    <3>1. j - 1 \in 1 .. Len(a) /\ j - 1 > i /\ a[j - 1] = q[j]
      BY <1>1, <2>2
    <3> QED BY <1>2, <3>1
  <2> QED BY <1>2, <2>1, <2>2 DEF Agrees
<1>3. ASSUME \A i \in 1 .. Len(a) : a[i].name # n PROVE x \in X
  <2>1. ASSUME NEW i \in 1 .. Len(q) PROVE q[i].name # n
    <3>1. CASE i = 1
      BY <1>1, <3>1
    <3>2. CASE i # 1
      <4>1. i - 1 \in 1 .. Len(a) /\ a[i - 1] = q[i]
        BY <1>1, <3>2
      <4> QED BY <1>3, <4>1
    <3> QED BY <3>1, <3>2
  <2> QED BY <2>1 DEF Agrees
<1>4. Agrees(a, n, x, V, X)
  BY <1>2, <1>3 DEF Agrees
<1> QED BY <1>4 DEF a

\* The first event about n, consumed: the entry is now y.
LEMMA AgreesTailSame ==
    ASSUME NEW q \in Seq(Ev), q # <<>>, NEW n, NEW x, NEW y, NEW V, NEW X, Head(q).name = n,
           Agrees(q, n, x, V, X), Head(q).value \in V => y \in X
    PROVE  Agrees(Tail(q), n, y, V, X)
<1> DEFINE a == Tail(q)
<1>1. /\ Len(q) \in Nat \ {0} /\ Len(a) = Len(q) - 1
      /\ \A i \in 1 .. Len(q) - 1 : a[i] = q[i + 1]
      /\ Head(q) = q[1]
  BY TailAt
<1> HIDE DEF a
<1>2. ASSUME NEW i \in 1 .. Len(a), a[i].name = n, \A j \in 1 .. Len(a) : j > i => a[j].name # n
      PROVE  a[i].value \in V
  <2>1. i + 1 \in 1 .. Len(q) /\ a[i] = q[i + 1]
    BY <1>1
  <2>2. ASSUME NEW j \in 1 .. Len(q), j > i + 1 PROVE q[j].name # n
    <3>1. j - 1 \in 1 .. Len(a) /\ j - 1 > i /\ a[j - 1] = q[j]
      BY <1>1, <2>2
    <3> QED BY <1>2, <3>1
  <2> QED BY <1>2, <2>1, <2>2 DEF Agrees
<1>3. ASSUME \A i \in 1 .. Len(a) : a[i].name # n PROVE y \in X
  <2>1. ASSUME NEW j \in 1 .. Len(q), j > 1 PROVE q[j].name # n
    <3>1. j - 1 \in 1 .. Len(a) /\ a[j - 1] = q[j]
      BY <1>1, <2>1
    <3> QED BY <1>3, <3>1
  <2>2. 1 \in 1 .. Len(q)
    BY <1>1
  <2>3. q[1].value \in V
    BY <1>1, <2>1, <2>2 DEF Agrees
  <2> QED BY <1>1, <2>3
<1>4. Agrees(a, n, y, V, X)
  BY <1>2, <1>3 DEF Agrees
<1> QED BY <1>4 DEF a

\* Without events the entry is what the keys say.
LEMMA AgreesEmpty ==
    ASSUME NEW n, NEW x, NEW V, NEW X
    PROVE  Agrees(<<>>, n, x, V, X) <=> x \in X
  BY DEF Agrees

\* Another event: one about another name, a deletion, or the address the last
\* event or the entry has.
LEMMA ChainedAppend ==
    ASSUME NEW q \in Seq(Ev), NEW e \in Ev, NEW n, NEW x, NEW V, NEW X, Chained(q, n, x),
           \/ e.name # n
           \/ e.value = NoAddr
           \/ /\ Agrees(q, n, x, V, X)
              /\ V \subseteq {NoAddr, e.value} /\ X \subseteq {NoAddr, Unknown, e.value}
    PROVE  Chained(Append(q, e), n, x)
<1> DEFINE a == Append(q, e)
<1>1. /\ Len(a) = Len(q) + 1 /\ a[Len(q) + 1] = e /\ Len(q) \in Nat
      /\ \A i \in 1 .. Len(q) : a[i] = q[i]
  BY AppendAt
<1> HIDE DEF a
<1> SUFFICES ASSUME NEW i \in 1 .. Len(a), a[i].name = n, a[i].value # NoAddr
             PROVE  /\ \A j \in 1 .. Len(a) :
                          j < i /\ a[j].name = n
                                /\ (\A k \in 1 .. Len(a) : j < k /\ k < i => a[k].name # n)
                              => a[j].value \in {NoAddr, a[i].value}
                    /\ (\A j \in 1 .. Len(a) : j < i => a[j].name # n)
                          => x \in {NoAddr, Unknown, a[i].value}
  BY DEF Chained, a
<1>2. CASE i \in 1 .. Len(q)
  <2>1. a[i] = q[i]
    BY <1>1, <1>2
  <2>2. ASSUME NEW j \in 1 .. Len(a), j < i, a[j].name = n,
               \A k \in 1 .. Len(a) : j < k /\ k < i => a[k].name # n
        PROVE  a[j].value \in {NoAddr, a[i].value}
    <3>1. j \in 1 .. Len(q) /\ a[j] = q[j]
      BY <1>1, <1>2, <2>2
    <3>2. \A k \in 1 .. Len(q) : j < k /\ k < i => q[k].name # n
      BY <1>1, <2>2
    <3> QED BY <1>2, <2>1, <2>2, <3>1, <3>2 DEF Chained
  <2>3. ASSUME \A j \in 1 .. Len(a) : j < i => a[j].name # n
        PROVE  x \in {NoAddr, Unknown, a[i].value}
    <3>1. \A j \in 1 .. Len(q) : j < i => q[j].name # n
      BY <1>1, <2>3
    <3> QED BY <1>2, <2>1, <3>1 DEF Chained
  <2> QED BY <2>2, <2>3
<1>3. CASE i = Len(q) + 1
  <2>1. a[i] = e /\ e.name = n /\ e.value # NoAddr
    BY <1>1, <1>3
  <2>2. /\ Agrees(q, n, x, V, X)
        /\ V \subseteq {NoAddr, e.value} /\ X \subseteq {NoAddr, Unknown, e.value}
    BY <2>1
  <2>3. ASSUME NEW j \in 1 .. Len(a), j < i, a[j].name = n,
               \A k \in 1 .. Len(a) : j < k /\ k < i => a[k].name # n
        PROVE  a[j].value \in {NoAddr, a[i].value}
    <3>1. j \in 1 .. Len(q) /\ a[j] = q[j]
      BY <1>1, <1>3, <2>3
    <3>2. \A k \in 1 .. Len(q) : k > j => q[k].name # n
      BY <1>1, <1>3, <2>3
    <3>3. q[j].value \in V
      BY <2>2, <2>3, <3>1, <3>2 DEF Agrees
    <3> QED BY <2>1, <2>2, <3>1, <3>3
  <2>4. ASSUME \A j \in 1 .. Len(a) : j < i => a[j].name # n
        PROVE  x \in {NoAddr, Unknown, a[i].value}
    <3>1. \A j \in 1 .. Len(q) : q[j].name # n
      BY <1>1, <1>3, <2>4
    <3> QED BY <2>1, <2>2, <3>1 DEF Agrees
  <2> QED BY <2>3, <2>4
<1> QED BY <1>1, <1>2, <1>3

\* The first event, consumed: the entry is y.
LEMMA ChainedTail ==
    ASSUME NEW q \in Seq(Ev), q # <<>>, NEW n, NEW x, NEW y, Chained(q, n, x),
           \/ Head(q).name # n /\ y = x
           \/ Head(q).name = n /\ y \in {Head(q).value, NoAddr, Unknown}
    PROVE  Chained(Tail(q), n, y)
<1> DEFINE a == Tail(q)
<1>1. /\ Len(q) \in Nat \ {0} /\ Len(a) = Len(q) - 1
      /\ \A i \in 1 .. Len(q) - 1 : a[i] = q[i + 1]
      /\ Head(q) = q[1]
  BY TailAt
<1> HIDE DEF a
<1> SUFFICES ASSUME NEW i \in 1 .. Len(a), a[i].name = n, a[i].value # NoAddr
             PROVE  /\ \A j \in 1 .. Len(a) :
                          j < i /\ a[j].name = n
                                /\ (\A k \in 1 .. Len(a) : j < k /\ k < i => a[k].name # n)
                              => a[j].value \in {NoAddr, a[i].value}
                    /\ (\A j \in 1 .. Len(a) : j < i => a[j].name # n)
                          => y \in {NoAddr, Unknown, a[i].value}
  BY DEF Chained, a
<1>2. i + 1 \in 1 .. Len(q) /\ a[i] = q[i + 1]
  BY <1>1
<1>3. ASSUME NEW j \in 1 .. Len(a), j < i, a[j].name = n,
             \A k \in 1 .. Len(a) : j < k /\ k < i => a[k].name # n
      PROVE  a[j].value \in {NoAddr, a[i].value}
  <2>1. j + 1 \in 1 .. Len(q) /\ a[j] = q[j + 1] /\ j + 1 < i + 1
    BY <1>1, <1>3
  <2>2. ASSUME NEW k \in 1 .. Len(q), j + 1 < k, k < i + 1 PROVE q[k].name # n
    <3>1. k - 1 \in 1 .. Len(a) /\ j < k - 1 /\ k - 1 < i /\ a[k - 1] = q[k]
      BY <1>1, <2>2
    <3> QED BY <1>3, <3>1
  <2> QED BY <1>2, <1>3, <2>1, <2>2 DEF Chained
<1>4. ASSUME \A j \in 1 .. Len(a) : j < i => a[j].name # n
      PROVE  y \in {NoAddr, Unknown, a[i].value}
  <2>1. ASSUME NEW k \in 1 .. Len(q), 1 < k, k < i + 1 PROVE q[k].name # n
    <3>1. k - 1 \in 1 .. Len(a) /\ k - 1 < i /\ a[k - 1] = q[k]
      BY <1>1, <2>1
    <3> QED BY <1>4, <3>1
  <2>2. 1 \in 1 .. Len(q) /\ 1 < i + 1
    BY <1>1
  <2>3. CASE Head(q).name = n
    <3>1. q[1].value \in {NoAddr, q[i + 1].value}
      BY <1>1, <1>2, <2>1, <2>2, <2>3 DEF Chained
    <3> QED BY <1>1, <1>2, <2>3, <3>1
  <2>4. CASE Head(q).name # n
    <3>1. \A k \in 1 .. Len(q) : k < i + 1 => q[k].name # n
      BY <1>1, <2>1, <2>4
    <3>2. x \in {NoAddr, Unknown, q[i + 1].value}
      BY <1>2, <3>1 DEF Chained
    <3> QED BY <1>2, <2>4, <3>2
  <2> QED BY <2>3, <2>4
<1> QED BY <1>3, <1>4

\* The entry before a first event that is an address.
LEMMA ChainedHead ==
    ASSUME NEW q \in Seq(Ev), q # <<>>, NEW x, Chained(q, Head(q).name, x), Head(q).value # NoAddr
    PROVE  x \in {NoAddr, Unknown, Head(q).value}
<1>1. Len(q) \in Nat \ {0} /\ Head(q) = q[1]
  BY TailAt
<1> QED BY <1>1 DEF Chained

-----------------------------------------------------------------------------
(* The store.                                                              *)

\* What the proofs use of the constants.
LEMMA ConstantFacts ==
    /\ NameOf \in [Procs -> Names]
    /\ NoAddr \notin Addrs /\ Unknown \notin Addrs /\ NoAddr # Unknown
    /\ NoProc \notin Procs
    /\ \A p \in Procs : AddrOf[p] \in Addrs /\ Follows[p] \in SUBSET Names
    /\ \A p, q \in Procs : AddrOf[p] = AddrOf[q] => p = q
    /\ MaxStarts \in Nat /\ MaxExpiries \in Nat
<1>1. /\ NameOf \in [Procs -> Names] /\ {NoAddr, Unknown} \cap Addrs = {} /\ NoAddr # Unknown
      /\ NoProc \notin Procs /\ Follows \in [Procs -> SUBSET Names]
      /\ {MaxStarts, MaxExpiries} \subseteq Nat
  BY PeerRegistryAssumption, Zenon
<1>2. \A p, q \in Procs : AddrOf[p] = AddrOf[q] => p = q
  BY PeerRegistryAssumption, Zenon
<1>3. \A p \in Procs : AddrOf[p] \in Addrs
  BY DEF Addrs
<1> QED BY <1>1, <1>2, <1>3

KeyType == [value : Addrs \cup {Unknown}, create : Nat, mod : Nat, lease : Procs \cup {NoProc}]
QueuesType == [Procs -> Seq(Ev)]

\* The put of a process that may put, by the keys it leaves.
LEMMA PutKeys ==
    ASSUME rev \in Nat, peerKey \in [Names -> KeyType], KeyShape, NEW p \in Procs, NEW queues,
           PutKey(p, queues)
    PROVE  /\ rev' \in Nat /\ peerKey' \in [Names -> KeyType] /\ KeyShape'
           /\ Own(p)' = [value |-> AddrOf[p], create |-> Own(p)'.create, mod |-> rev + 1, lease |-> Own(p)'.lease]
           /\ \A n \in Names : n # NameOf[p] => peerKey'[n] = peerKey[n]
           /\ peerKey'[NameOf[p]].value = AddrOf[p] /\ peerKey'[NameOf[p]].mod = rev + 1
           /\ peerKey'[NameOf[p]].create # 0
<1> DEFINE n0 == NameOf[p]
           c == IF peerKey[n0].create = 0 THEN rev + 1 ELSE peerKey[n0].create
           k == [value |-> AddrOf[p], create |-> c, mod |-> rev + 1,
                 lease |-> IF Leased THEN p ELSE NoProc]
<1>t. n0 \in Names /\ AddrOf[p] \in Addrs
  BY ConstantFacts
<1>1. rev' = rev + 1 /\ peerKey' = [peerKey EXCEPT ![n0] = k]
  BY DEF PutKey
<1>2. peerKey[n0].create \in Nat
  BY <1>t DEF KeyType
<1>3. c \in Nat /\ c # 0
  BY <1>2
<1>4. k \in KeyType /\ k.value = AddrOf[p] /\ k.mod = rev + 1 /\ k.create = c /\ k.lease \in {p, NoProc}
  BY <1>3, <1>t DEF KeyType
<1>5. peerKey'[n0] = k /\ \A n \in Names : n # n0 => peerKey'[n] = peerKey[n]
  BY <1>t, <1>1
<1> HIDE DEF n0, c, k
<1>6. KeyShape'
  <2> SUFFICES ASSUME NEW n \in Names
               PROVE  \/ peerKey'[n] = NoKey
                      \/ /\ peerKey'[n].create # 0
                         /\ \E q \in Procs : /\ NameOf[q] = n /\ peerKey'[n].value = AddrOf[q]
                                             /\ peerKey'[n].lease \in {q, NoProc}
    BY DEF KeyShape, Exists, NoKey
  <2>1. CASE n = n0
    BY <1>3, <1>4, <1>5, <2>1 DEF n0
  <2>2. CASE n # n0
    BY <1>5, <2>2 DEF KeyShape, Exists
  <2> QED BY <2>1, <2>2
<1>7. peerKey' \in [Names -> KeyType]
  BY <1>t, <1>1, <1>4
<1> QED BY <1>1, <1>3, <1>4, <1>5, <1>6, <1>7 DEF n0, Own, k

\* The deletion of a key.
LEMMA DeleteKeys ==
    ASSUME rev \in Nat, peerKey \in [Names -> KeyType], KeyShape, NEW n \in Names, DeleteKey(n)
    PROVE  /\ rev' \in Nat /\ peerKey' \in [Names -> KeyType] /\ KeyShape'
           /\ \A m \in Names : peerKey'[m] = IF m = n THEN NoKey ELSE peerKey[m]
<1>1. rev' = rev + 1 /\ peerKey' = [peerKey EXCEPT ![n] = NoKey]
  BY DEF DeleteKey
<1>2. NoKey \in KeyType
  BY DEF NoKey, KeyType
<1>3. \A m \in Names : peerKey'[m] = IF m = n THEN NoKey ELSE peerKey[m]
  BY <1>1
<1>4. KeyShape'
  BY <1>3 DEF KeyShape, Exists, NoKey
<1> QED BY <1>1, <1>2, <1>3, <1>4

\* A step changes no key, puts one that may be put, or deletes one.
LEMMA StoreSteps ==
    ASSUME PeersNext
    PROVE  \/ UNCHANGED storeVars
           \/ \E p \in Procs : ~Taken(p) /\ (\E queues : PutKey(p, queues))
           \/ \E n \in Names : DeleteKey(n)
<1>1. ASSUME NEW n \in Names, LeaseExpires(n)
      PROVE  DeleteKey(n)
  BY <1>1 DEF LeaseExpires
<1>2. ASSUME NEW p \in Procs,
             \/ RegisterRefused(p) \/ InitPeers(p) \/ Started(p) \/ StopBegin(p)
             \/ UnregisterBegin(p) \/ UnregisterPanics(p) \/ Exit(p) \/ Crash(p)
             \/ NotifyBegin(p) \/ (\E n \in Names : NotifyOne(p, n)) \/ OnKvPut(p)
             \/ OnKvDelete(p) \/ OnOwnDelete(p) \/ NoteRevision(p)
      PROVE  UNCHANGED storeVars
  BY <1>2 DEF RegisterRefused, InitPeers, Started, StopBegin, UnregisterBegin, UnregisterPanics,
              Exit, Crash, Ends, NotifyBegin, NotifyOne, OnKvPut, OnKvDelete, OnOwnDelete,
              NoteRevision
<1>3. ASSUME NEW p \in Procs, RegisterSelf(p) \/ RegisterFails(p) \/ ReRegister(p)
      PROVE  UNCHANGED storeVars \/ (~Taken(p) /\ (\E queues : PutKey(p, queues)))
  BY <1>3, Zenon DEF RegisterSelf, RegisterFails, ReRegister
<1>4. ASSUME NEW p \in Procs, UnregisterSelf(p) \/ UnregisterFails(p)
      PROVE  UNCHANGED storeVars \/ (NameOf[p] \in Names /\ DeleteKey(NameOf[p]))
  <2>1. NameOf[p] \in Names
    BY ConstantFacts
  <2> QED BY <1>4, <2>1, Zenon DEF UnregisterSelf, UnregisterFails
<1> QED BY <1>1, <1>2, <1>3, <1>4, Zenon DEF PeersNext

\* The keys keep their shape.
LEMMA KeysStep ==
    ASSUME PeersTypeOK, KeyShape, PeersNext
    PROVE  rev' \in Nat /\ peerKey' \in [Names -> KeyType] /\ KeyShape'
<1>1. rev \in Nat /\ peerKey \in [Names -> KeyType]
  BY DEF PeersTypeOK, KeyType
<1>2. CASE UNCHANGED storeVars
  BY <1>1, <1>2 DEF storeVars, KeyShape, Exists
<1>3. ASSUME NEW p \in Procs, NEW queues, PutKey(p, queues) 
      PROVE  rev' \in Nat /\ peerKey' \in [Names -> KeyType] /\ KeyShape'
  BY <1>1, <1>3, PutKeys
<1>4. ASSUME NEW n \in Names, DeleteKey(n) 
      PROVE  rev' \in Nat /\ peerKey' \in [Names -> KeyType] /\ KeyShape'
  BY <1>1, <1>4, DeleteKeys
<1> QED BY <1>2, <1>3, <1>4, StoreSteps

-----------------------------------------------------------------------------
(* The shape of the state.                                                 *)

MainTypes == /\ stage \in [Procs -> Stages]
             /\ watch \in [Procs -> {"none", "known", "watching", "notify", "done"}]
             /\ toNotify \in [Procs -> SUBSET Names]
             /\ trouble \in [Procs -> {"none", "expired", "failed"}]
             /\ selfRevision \in [Procs -> Nat]
             /\ reply \in [Procs -> Nat]
             /\ starts \in 0 .. MaxStarts
             /\ expiries \in 0 .. MaxExpiries

\* The variables of the main goroutine keep their type.
LEMMA MainTypesStep ==
    ASSUME PeersTypeOK, PeersNext
    PROVE  MainTypes'
<1>t. MainTypes /\ rev \in Nat /\ MaxStarts \in Nat /\ MaxExpiries \in Nat
  BY ConstantFacts, Zenon DEF PeersTypeOK, MainTypes
<1>1. ASSUME NEW p \in Procs, RegisterSelf(p) PROVE MainTypes'
  BY <1>t, <1>1 DEF RegisterSelf, Launch, Goes, MainTypes, Stages
<1>2. ASSUME NEW p \in Procs, RegisterRefused(p) PROVE MainTypes'
  BY <1>t, <1>2 DEF RegisterRefused, Launch, Goes, MainTypes, Stages
<1>3. ASSUME NEW p \in Procs, RegisterFails(p) PROVE MainTypes'
  <2>1. Launch(p, "stop") /\ trouble' = [trouble EXCEPT ![p] = "failed"] /\ UNCHANGED selfRevision
    BY <1>3 DEF RegisterFails
  <2> QED BY <1>t, <2>1 DEF Launch, Goes, MainTypes, Stages
<1>4. ASSUME NEW p \in Procs, InitPeers(p) PROVE MainTypes'
  BY <1>t, <1>4 DEF InitPeers, Goes, MainTypes, Stages, budget
<1>5. ASSUME NEW p \in Procs, Started(p) PROVE MainTypes'
  BY <1>t, <1>5 DEF Started, Goes, MainTypes, Stages, budget, memory
<1>6. ASSUME NEW p \in Procs, StopBegin(p) \/ UnregisterBegin(p) PROVE MainTypes'
  BY <1>t, <1>6 DEF StopBegin, UnregisterBegin, Goes, MainTypes, Stages, budget, memory
<1>7. ASSUME NEW p \in Procs, UnregisterSelf(p) PROVE MainTypes'
  <2>1. Goes(p, {"unregister"}, "leave") /\ UNCHANGED <<watch, memory, trouble, budget>>
    BY <1>7 DEF UnregisterSelf
  <2> QED BY <1>t, <2>1 DEF Goes, MainTypes, Stages, budget, memory
<1>8. ASSUME NEW p \in Procs, UnregisterFails(p) PROVE MainTypes'
  <2>1. /\ Goes(p, {"unregister"}, "leave") /\ UNCHANGED <<watch, memory, budget>>
        /\ trouble' = [trouble EXCEPT ![p] = "failed"]
    BY <1>8 DEF UnregisterFails
  <2> QED BY <1>t, <2>1 DEF Goes, MainTypes, Stages, budget, memory
<1>9. ASSUME NEW p \in Procs, Ends(p) PROVE MainTypes'
  BY <1>t, <1>9 DEF Ends, MainTypes, Stages, budget
<1>10. ASSUME NEW p \in Procs, NotifyBegin(p) PROVE MainTypes'
  <2>1. Follows[p] \in SUBSET Names
    BY ConstantFacts
  <2> QED BY <1>t, <1>10, <2>1 DEF NotifyBegin, MainTypes, budget
<1>11. ASSUME NEW p \in Procs, NEW n \in Names, NotifyOne(p, n) PROVE MainTypes'
  <2>1. toNotify' \in [Procs -> SUBSET Names]
    BY <1>t, <1>11, Zenon DEF NotifyOne, MainTypes
  <2>2. watch' \in [Procs -> {"none", "known", "watching", "notify", "done"}]
    BY <1>t, <1>11 DEF NotifyOne, MainTypes
  <2>3. UNCHANGED <<stage, trouble, selfRevision, reply, starts, expiries>>
    BY <1>11 DEF NotifyOne, budget
  <2> QED BY <1>t, <2>1, <2>2, <2>3 DEF MainTypes
<1>12. ASSUME NEW p \in Procs, OnKvPut(p) \/ OnKvDelete(p) \/ OnOwnDelete(p) PROVE MainTypes'
  <2>1. UNCHANGED <<stage, watch, toNotify, trouble, selfRevision, reply, starts, expiries>>
    BY <1>12 DEF OnKvPut, OnKvDelete, OnOwnDelete, budget
  <2> QED BY <1>t, <2>1 DEF MainTypes
<1>13. ASSUME NEW p \in Procs, ReRegister(p) PROVE MainTypes'
  <2>1. UNCHANGED <<stage, watch, toNotify, selfRevision, starts, expiries>>
    BY <1>13 DEF ReRegister, budget
  <2>2. /\ UNCHANGED trouble \/ trouble' = [trouble EXCEPT ![p] = "failed"]
        /\ UNCHANGED reply \/ reply' = [reply EXCEPT ![p] = rev + 1]
    BY <1>13 DEF ReRegister
  <2> QED BY <1>t, <2>1, <2>2 DEF MainTypes
<1>14. ASSUME NEW p \in Procs, NoteRevision(p) PROVE MainTypes'
  BY <1>t, <1>14 DEF NoteRevision, MainTypes, budget
<1>15. ASSUME NEW n \in Names, LeaseExpires(n) PROVE MainTypes'
  <2> DEFINE p == peerKey[n].lease
  <2>1. UNCHANGED <<stage, watch, toNotify, selfRevision, reply, starts>>
    BY <1>15 DEF LeaseExpires, memory
  <2>2. \/ UNCHANGED <<expiries, trouble>>
        \/ /\ expiries < MaxExpiries /\ expiries' = expiries + 1
           /\ trouble' = [trouble EXCEPT ![p] = IF @ = "none" THEN "expired" ELSE @]
    BY <1>15 DEF LeaseExpires
  <2>3. p \in Procs \cup {NoProc}
    BY DEF PeersTypeOK
  <2> HIDE DEF p
  <2> QED BY <1>t, <2>1, <2>2, <2>3 DEF MainTypes
<1>16. \A p \in Procs : UnregisterPanics(p) \/ Exit(p) \/ Crash(p) => Ends(p)
  BY DEF UnregisterPanics, Exit, Crash
<1>17. CASE \E n \in Names : LeaseExpires(n)
  BY <1>15, <1>17
<1>18. ASSUME NEW p \in Procs,
          \/ RegisterSelf(p) \/ RegisterRefused(p) \/ RegisterFails(p) \/ InitPeers(p)
          \/ Started(p) \/ StopBegin(p) \/ UnregisterBegin(p) \/ UnregisterSelf(p)
          \/ UnregisterFails(p) \/ UnregisterPanics(p) \/ Exit(p) \/ Crash(p)
          \/ NotifyBegin(p) \/ (\E n \in Names : NotifyOne(p, n)) \/ OnKvPut(p)
          \/ OnKvDelete(p) \/ OnOwnDelete(p) \/ ReRegister(p) \/ NoteRevision(p)
       PROVE MainTypes'
  BY <1>1, <1>2, <1>3, <1>4, <1>5, <1>6, <1>7, <1>8, <1>9, <1>10, <1>11, <1>12, <1>13, <1>14,
     <1>16, <1>18, Zenon
<1> QED BY <1>17, <1>18, Zenon DEF PeersNext

\* What a change of a key leaves in the queues.
LEMMA BroadcastQueues ==
    ASSUME NEW queues \in QueuesType, NEW n \in Names, NEW v \in Addrs \cup {NoAddr},
           Broadcast(queues, n, v)
    PROVE  /\ events' \in QueuesType /\ [name |-> n, value |-> v] \in Ev
           /\ \A q \in Procs :
                 events'[q] = IF Listening(q) /\ n \in Follows[q]
                              THEN Append(queues[q], [name |-> n, value |-> v]) ELSE queues[q]
<1> DEFINE e == [name |-> n, value |-> v]
           new(q) == IF Listening(q) /\ n \in Follows[q] THEN Append(queues[q], e) ELSE queues[q]
<1>1. e \in Ev
  BY DEF Ev
<1>2. events' = [q \in Procs |-> new(q)]
  BY DEF Broadcast
<1>3. ASSUME NEW q \in Procs PROVE new(q) \in Seq(Ev)
  <2>1. queues[q] \in Seq(Ev)
    BY DEF QueuesType
  <2>2. Append(queues[q], e) \in Seq(Ev)
    BY <1>1, <2>1, AppendAt
  <2> QED BY <2>1, <2>2
<1>4. \A q \in Procs : events'[q] = new(q)
  BY <1>2, Zenon
<1> HIDE DEF new
<1>5. events' \in QueuesType
  BY <1>2, <1>3 DEF QueuesType
<1> QED BY <1>1, <1>4, <1>5 DEF new

\* A consumed event.
LEMMA ConsumedQueues ==
    ASSUME events \in QueuesType, NEW p \in Procs, events[p] # <<>>
    PROVE  /\ Consumed(p) \in QueuesType /\ Event(p) \in Ev
           /\ \A q \in Procs : Consumed(p)[q] = IF q = p THEN Tail(events[p]) ELSE events[q]
<1>1. events[p] \in Seq(Ev)
  BY DEF QueuesType
<1>2. Tail(events[p]) \in Seq(Ev) /\ Event(p) \in Ev
  BY <1>1, TailAt DEF Event
<1> QED BY <1>2 DEF Consumed, QueuesType

\* The changes of the queues: no change, an event about one name more, an event
\* of one process less, both, or all of one process gone.
LEMMA QueueSteps ==
    ASSUME PeersTypeOK, PeersNext
    PROVE  \/ UNCHANGED events
           \/ \E n \in Names, v \in Addrs \cup {NoAddr} : UNCHANGED watch /\ Broadcast(events, n, v)
           \/ \E p \in Procs : watch[p] # "none" /\ events[p] # <<>> /\ events' = Consumed(p)
           \/ \E p \in Procs, n \in Names, v \in Addrs \cup {NoAddr} :
                 /\ UNCHANGED watch
                 /\ watch[p] # "none" /\ events[p] # <<>> /\ Broadcast(Consumed(p), n, v)
           \/ \E p \in Procs : events' = [events EXCEPT ![p] = <<>>]
<1>1. ASSUME NEW n \in Names, LeaseExpires(n)
      PROVE  UNCHANGED watch /\ Broadcast(events, n, NoAddr)
  BY <1>1 DEF LeaseExpires, DeleteKey
<1>2. ASSUME NEW p \in Procs,
             \/ RegisterRefused(p) \/ InitPeers(p) \/ Started(p) \/ StopBegin(p)
             \/ UnregisterBegin(p) \/ NotifyBegin(p) \/ (\E n \in Names : NotifyOne(p, n))
             \/ NoteRevision(p)
      PROVE  UNCHANGED events
  BY <1>2 DEF RegisterRefused, InitPeers, Started, StopBegin, UnregisterBegin, NotifyBegin,
              NotifyOne, NoteRevision
<1>3. ASSUME NEW p \in Procs, \/ UnregisterPanics(p) \/ Exit(p) \/ Crash(p) \/ OnOwnDelete(p)
      PROVE  events' = [events EXCEPT ![p] = <<>>]
  BY <1>3 DEF UnregisterPanics, Exit, Crash, Ends, OnOwnDelete
<1>4. ASSUME NEW p \in Procs, OnKvPut(p) \/ OnKvDelete(p)
      PROVE  watch[p] # "none" /\ events[p] # <<>> /\ events' = Consumed(p)
  BY <1>4 DEF OnKvPut, OnKvDelete, IsPut, IsDelete, HasEvent
<1>5. ASSUME NEW p \in Procs PROVE NameOf[p] \in Names /\ AddrOf[p] \in Addrs \cup {NoAddr}
  BY ConstantFacts
<1>6. ASSUME NEW p \in Procs, RegisterSelf(p) \/ RegisterFails(p)
      PROVE  UNCHANGED events \/ (UNCHANGED watch /\ Broadcast(events, NameOf[p], AddrOf[p]))
  BY <1>6, Zenon DEF RegisterSelf, RegisterFails, PutKey, Launch
<1>7. ASSUME NEW p \in Procs, UnregisterSelf(p) \/ UnregisterFails(p)
      PROVE  UNCHANGED events \/ (UNCHANGED watch /\ Broadcast(events, NameOf[p], NoAddr))
  BY <1>7, Zenon DEF UnregisterSelf, UnregisterFails, DeleteKey
<1>8. ASSUME NEW p \in Procs, ReRegister(p)
      PROVE  /\ watch[p] # "none" /\ events[p] # <<>>
             /\ \/ events' = Consumed(p)
                \/ UNCHANGED watch /\ Broadcast(Consumed(p), NameOf[p], AddrOf[p])
  <2>1. watch[p] # "none" /\ events[p] # <<>> 
    BY <1>8 DEF ReRegister, IsOwnDelete, IsDelete, HasEvent
  <2>2. UNCHANGED watch
    BY <1>8 DEF ReRegister
  <2>3. events' = Consumed(p) \/ Broadcast(Consumed(p), NameOf[p], AddrOf[p])
    BY <1>8, Zenon DEF ReRegister, PutKey
  <2> QED BY <2>1, <2>2, <2>3
<1>9. NoAddr \in Addrs \cup {NoAddr}
  OBVIOUS
<1> QED BY <1>1, <1>2, <1>3, <1>4, <1>5, <1>6, <1>7, <1>8, <1>9, Zenon DEF PeersNext

\* The queues keep their type.
LEMMA QueuesStep ==
    ASSUME PeersTypeOK, PeersNext
    PROVE  events' \in QueuesType
<1>1. events \in QueuesType
  BY DEF PeersTypeOK, QueuesType, Ev
<1>2. ASSUME NEW p \in Procs PROVE [events EXCEPT ![p] = <<>>] \in QueuesType
  <2>1. <<>> \in Seq(Ev)
    BY EmptySeq
  <2> QED BY <1>1, <2>1 DEF QueuesType
<1>3. CASE UNCHANGED events
  BY <1>1, <1>3
<1>4. ASSUME NEW n \in Names, NEW v \in Addrs \cup {NoAddr}, Broadcast(events, n, v)
      PROVE  events' \in QueuesType
  BY <1>1, <1>4, BroadcastQueues
<1>5. ASSUME NEW p \in Procs, events[p] # <<>>
      PROVE  Consumed(p) \in QueuesType
  BY <1>1, <1>5, ConsumedQueues
<1>6. ASSUME NEW p \in Procs, NEW n \in Names, NEW v \in Addrs \cup {NoAddr},
             events[p] # <<>>, Broadcast(Consumed(p), n, v)
      PROVE  events' \in QueuesType
  BY <1>5, <1>6, BroadcastQueues
<1> QED BY <1>1, <1>2, <1>3, <1>4, <1>5, <1>6, QueueSteps, Zenon

\* Who has no watch after a step has ended in it, or had none before.
LEMMA WithoutWatch ==
    ASSUME PeersTypeOK, PeersNext, NEW q \in Procs, watch'[q] = "none"
    PROVE  Ends(q) \/ (watch[q] = "none" /\ reply'[q] = 0)
<1>t. /\ watch \in [Procs -> {"none", "known", "watching", "notify", "done"}]
      /\ reply \in [Procs -> Nat] /\ (watch[q] = "none" => reply[q] = 0)
  BY Zenon DEF PeersTypeOK
<1>1. ASSUME UNCHANGED <<watch, reply>> 
      PROVE  Ends(q) \/ (watch[q] = "none" /\ reply'[q] = 0)
  BY <1>t, <1>1
<1>2. ASSUME NEW n \in Names, LeaseExpires(n) PROVE UNCHANGED <<watch, reply>>
  BY <1>2 DEF LeaseExpires, memory
<1>3. ASSUME NEW p \in Procs,
             \/ RegisterSelf(p) \/ RegisterRefused(p) \/ RegisterFails(p) \/ StopBegin(p)
             \/ UnregisterBegin(p) \/ UnregisterSelf(p) \/ UnregisterFails(p) \/ OnKvPut(p)
             \/ OnKvDelete(p) \/ OnOwnDelete(p)
      PROVE  UNCHANGED <<watch, reply>>
  BY <1>3 DEF RegisterSelf, RegisterRefused, RegisterFails, Launch, StopBegin, UnregisterBegin,
              UnregisterSelf, UnregisterFails, memory, OnKvPut, OnKvDelete, OnOwnDelete
<1>4. ASSUME NEW p \in Procs, InitPeers(p) \/ Started(p) \/ NotifyBegin(p) 
      PROVE  Ends(q) \/ (watch[q] = "none" /\ reply'[q] = 0)
  <2>1. /\ \E w \in {"known", "watching", "notify", "done"} : watch' = [watch EXCEPT ![p] = w]
        /\ UNCHANGED reply
    BY <1>4 DEF InitPeers, Started, memory, NotifyBegin
  <2> QED BY <1>t, <2>1
<1>5. ASSUME NEW p \in Procs, NEW n \in Names, NotifyOne(p, n) 
      PROVE  Ends(q) \/ (watch[q] = "none" /\ reply'[q] = 0)
  <2>1. /\ watch' = [watch EXCEPT ![p] = IF toNotify[p] = {n} THEN "done" ELSE @]
        /\ UNCHANGED reply
    BY <1>5 DEF NotifyOne
  <2> QED BY <1>t, <2>1
<1>6. ASSUME NEW p \in Procs, UnregisterPanics(p) \/ Exit(p) \/ Crash(p) 
      PROVE  Ends(q) \/ (watch[q] = "none" /\ reply'[q] = 0)
  <2>1. Ends(p)
    BY <1>6 DEF UnregisterPanics, Exit, Crash
  <2>2. watch' = [watch EXCEPT ![p] = "none"] /\ reply' = [reply EXCEPT ![p] = 0]
    BY <2>1 DEF Ends
  <2> QED BY <1>t, <2>1, <2>2
<1>7. ASSUME NEW p \in Procs, ReRegister(p) 
      PROVE  Ends(q) \/ (watch[q] = "none" /\ reply'[q] = 0)
  <2>1. UNCHANGED watch /\ watch[p] # "none"
    BY <1>7 DEF ReRegister, IsOwnDelete, IsDelete, HasEvent
  <2>2. UNCHANGED reply \/ reply' = [reply EXCEPT ![p] = rev + 1]
    BY <1>7 DEF ReRegister
  <2> QED BY <1>t, <2>1, <2>2
<1>8. ASSUME NEW p \in Procs, NoteRevision(p) 
      PROVE  Ends(q) \/ (watch[q] = "none" /\ reply'[q] = 0)
  BY <1>t, <1>8 DEF NoteRevision
<1> QED BY <1>1, <1>2, <1>3, <1>4, <1>5, <1>6, <1>7, <1>8, Zenon DEF PeersNext

\* Without a watch there is nothing to deliver or to note.
LEMMA WithoutWatchStep ==
    ASSUME PeersTypeOK, PeersNext, NEW q \in Procs, watch'[q] = "none"
    PROVE  events'[q] = <<>> /\ reply'[q] = 0
<1>t. /\ events \in QueuesType /\ reply \in [Procs -> Nat]
      /\ watch[q] = "none" => events[q] = <<>>
  BY DEF PeersTypeOK, QueuesType, Ev
<1>1. CASE Ends(q)
  BY <1>t, <1>1 DEF Ends, QueuesType
<1>2. CASE watch[q] = "none" /\ reply'[q] = 0
  <2>1. events[q] = <<>> /\ ~Listening(q)
    BY <1>t, <1>2 DEF Listening
  <2>2. CASE UNCHANGED events
    BY <1>2, <2>1, <2>2
  <2>3. ASSUME NEW n \in Names, NEW v \in Addrs \cup {NoAddr}, Broadcast(events, n, v)
        PROVE  events'[q] = <<>>
    <3>1. events'[q] = events[q]
      BY <1>t, <2>1, <2>3, BroadcastQueues
    <3> QED BY <2>1, <3>1
  <2>4. ASSUME NEW p \in Procs, watch[p] # "none", events[p] # <<>>
        PROVE  Consumed(p)[q] = <<>> /\ Consumed(p) \in QueuesType
    BY <1>t, <1>2, <2>1, <2>4, ConsumedQueues
  <2>5. ASSUME NEW p \in Procs, NEW n \in Names, NEW v \in Addrs \cup {NoAddr},
               watch[p] # "none", events[p] # <<>>, Broadcast(Consumed(p), n, v)
        PROVE  events'[q] = <<>>
    <3>1. events'[q] = Consumed(p)[q]
      BY <2>1, <2>4, <2>5, BroadcastQueues
    <3> QED BY <2>4, <2>5, <3>1
  <2>6. ASSUME NEW p \in Procs, events' = [events EXCEPT ![p] = <<>>]
        PROVE  events'[q] = <<>>
    BY <1>t, <2>1, <2>6 DEF QueuesType
  <2>7. events'[q] = <<>>
    BY <2>1, <2>2, <2>3, <2>4, <2>5, <2>6, QueueSteps, Zenon
  <2> QED BY <1>2, <2>7
<1> QED BY <1>1, <1>2, WithoutWatch

ViewType == [Procs -> [Names -> Addrs \cup {NoAddr, Unknown}]]

\* The entries change only with an event, with the Get and at the end.
LEMMA ViewSteps ==
    ASSUME PeersNext
    PROVE  \/ UNCHANGED peers
           \/ \E p \in Procs : OnKvPut(p)
           \/ \E p \in Procs : HasEvent(p) /\ Forget(p)
           \/ \E p \in Procs : InitPeers(p) \/ Ends(p)
<1>1. ASSUME NEW n \in Names, LeaseExpires(n) PROVE UNCHANGED peers
  BY <1>1 DEF LeaseExpires, memory
<1>2. ASSUME NEW p \in Procs,
             \/ RegisterSelf(p) \/ RegisterRefused(p) \/ RegisterFails(p) \/ Started(p)
             \/ StopBegin(p) \/ UnregisterBegin(p) \/ UnregisterSelf(p) \/ UnregisterFails(p)
             \/ NotifyBegin(p) \/ (\E n \in Names : NotifyOne(p, n)) \/ NoteRevision(p)
      PROVE  UNCHANGED peers
  BY <1>2 DEF RegisterSelf, RegisterRefused, RegisterFails, Launch, Started, StopBegin,
              UnregisterBegin, UnregisterSelf, UnregisterFails, memory, NotifyBegin, NotifyOne,
              NoteRevision
<1>3. ASSUME NEW p \in Procs, OnKvDelete(p) \/ OnOwnDelete(p) \/ ReRegister(p)
      PROVE  HasEvent(p) /\ Forget(p)
  BY <1>3, Zenon DEF OnKvDelete, OnOwnDelete, ReRegister, IsOwnDelete, IsDelete
<1>4. ASSUME NEW p \in Procs, UnregisterPanics(p) \/ Exit(p) \/ Crash(p) PROVE Ends(p)
  BY <1>4 DEF UnregisterPanics, Exit, Crash
<1> QED BY <1>1, <1>2, <1>3, <1>4, Zenon DEF PeersNext

\* The entries keep their type.
LEMMA ViewStep ==
    ASSUME PeersTypeOK, PeersNext
    PROVE  peers' \in ViewType
<1>t. peers \in ViewType /\ events \in QueuesType /\ peerKey \in [Names -> KeyType]
  BY DEF PeersTypeOK, ViewType, QueuesType, Ev, KeyType
<1>1. CASE UNCHANGED peers
  BY <1>t, <1>1
<1>2. ASSUME NEW p \in Procs, HasEvent(p)
      PROVE  Event(p).name \in Names /\ Event(p).value \in Addrs \cup {NoAddr}
  <2>1. Event(p) \in Ev
    BY <1>t, <1>2, ConsumedQueues DEF HasEvent
  <2> QED BY <2>1 DEF Ev
<1>3. ASSUME NEW p \in Procs, OnKvPut(p) PROVE peers' \in ViewType
  <2>1. HasEvent(p) /\ peers' = [peers EXCEPT ![p][Event(p).name] = Event(p).value]
    BY <1>3 DEF OnKvPut, IsPut, PutEntry
  <2> QED BY <1>t, <1>2, <2>1 DEF ViewType
<1>4. ASSUME NEW p \in Procs, HasEvent(p), Forget(p) PROVE peers' \in ViewType
  <2>1. peers' = [peers EXCEPT ![p][Event(p).name] = IF @ = Unknown THEN @ ELSE NoAddr]
    BY <1>4 DEF Forget
  <2> QED BY <1>t, <1>2, <1>4, <2>1 DEF ViewType
<1>5. ASSUME NEW p \in Procs, InitPeers(p) PROVE peers' \in ViewType
  <2>1. peers' = [peers EXCEPT ![p] = [n \in Names |-> IF n \in Follows[p] THEN peerKey[n].value ELSE Unknown]]
    BY <1>5 DEF InitPeers
  <2> QED BY <1>t, <2>1 DEF ViewType, KeyType
<1>6. ASSUME NEW p \in Procs, Ends(p) PROVE peers' \in ViewType
  <2>1. peers' = [peers EXCEPT ![p] = [n \in Names |-> Unknown]]
    BY <1>6 DEF Ends
  <2> QED BY <1>t, <2>1 DEF ViewType
<1> QED BY <1>1, <1>3, <1>4, <1>5, <1>6, ViewSteps

\* cancelled changes at the end of a process, and when it sees its own deletion.
LEMMA CancelSteps ==
    ASSUME PeersNext
    PROVE  \/ UNCHANGED cancelled
           \/ \E p \in Procs : Ends(p) /\ cancelled' = [cancelled EXCEPT ![p] = FALSE]
           \/ \E p \in Procs : OnOwnDelete(p) /\ cancelled' = [cancelled EXCEPT ![p] = TRUE]
<1>1. ASSUME NEW n \in Names, LeaseExpires(n) PROVE UNCHANGED cancelled
  BY <1>1 DEF LeaseExpires, memory
<1>2. ASSUME NEW p \in Procs,
             \/ RegisterSelf(p) \/ RegisterRefused(p) \/ RegisterFails(p) \/ InitPeers(p)
             \/ Started(p) \/ StopBegin(p) \/ UnregisterBegin(p) \/ UnregisterSelf(p)
             \/ UnregisterFails(p) \/ NotifyBegin(p) \/ (\E n \in Names : NotifyOne(p, n))
             \/ NoteRevision(p) \/ OnKvPut(p) \/ OnKvDelete(p) \/ ReRegister(p)
      PROVE  UNCHANGED cancelled
  BY <1>2 DEF RegisterSelf, RegisterRefused, RegisterFails, InitPeers, Launch, Started, StopBegin,
              UnregisterBegin, UnregisterSelf, UnregisterFails, memory, NotifyBegin, NotifyOne,
              NoteRevision, OnKvPut, OnKvDelete, ReRegister
<1>3. ASSUME NEW p \in Procs, OnOwnDelete(p)
      PROVE  cancelled' = [cancelled EXCEPT ![p] = TRUE]
  BY <1>3, Zenon DEF OnOwnDelete
<1>4. ASSUME NEW p \in Procs, UnregisterPanics(p) \/ Exit(p) \/ Crash(p)
      PROVE  Ends(p) /\ cancelled' = [cancelled EXCEPT ![p] = FALSE]
  BY <1>4, Zenon DEF UnregisterPanics, Exit, Crash, Ends
<1> QED BY <1>1, <1>2, <1>3, <1>4, Zenon DEF PeersNext

\* The state keeps its shape.
LEMMA PeersTypeStep ==
    ASSUME PeersTypeOK, KeyShape, PeersNext
    PROVE  PeersTypeOK'
<1>1. cancelled' \in [Procs -> BOOLEAN]
  <2>1. cancelled \in [Procs -> BOOLEAN]
    BY Zenon DEF PeersTypeOK
  <2> QED BY <2>1, CancelSteps, Zenon
<1>2. \A q \in Procs : watch'[q] = "none" => events'[q] = <<>> /\ reply'[q] = 0
  BY WithoutWatchStep, Zenon
<1>3. /\ rev' \in Nat /\ peerKey' \in [Names -> KeyType] /\ events' \in QueuesType
      /\ peers' \in ViewType /\ MainTypes'
  BY KeysStep, QueuesStep, ViewStep, MainTypesStep, Zenon
<1> QED BY <1>1, <1>2, <1>3, Zenon DEF PeersTypeOK, KeyType, QueuesType, Ev, ViewType, MainTypes

-----------------------------------------------------------------------------
(* The stages of a process.                                                *)

\* A running process that sees its key deleted has lost its lease or a commit.
LEMMA OwnDeleteTrouble ==
    ASSUME PeersTypeOK, StageShape, CleanHasKey, NEW p \in Procs, IsOwnDelete(p),
           ~IsNormalUnregisterSelf(p)
    PROVE  trouble[p] # "none" /\ stage[p] \in {"ready", "up", "stop"} /\ selfRevision[p] # 0
<1>1. stage[p] \in Stages /\ watch[p] # "none" /\ events[p] # <<>> /\ events[p] \in Seq(Ev)
  BY DEF PeersTypeOK, Ev, IsOwnDelete, IsDelete, HasEvent
<1>2. stage[p] \in {"ready", "up", "stop"} /\ selfRevision[p] # 0
  BY <1>1 DEF StageShape, IsNormalUnregisterSelf, Stages
<1>3. Len(events[p]) \in Nat \ {0} /\ Head(events[p]) = events[p][1]
  BY <1>1, TailAt
<1>4. 1 \in 1 .. Len(events[p]) /\ events[p][1].name = NameOf[p] /\ events[p][1].value = NoAddr
  BY <1>3 DEF IsOwnDelete, IsDelete, Event
<1>5. ~Clean(p)
  BY <1>4, Zenon DEF CleanHasKey
<1> QED BY <1>2, <1>5 DEF Clean

\* The steps of the stages.
LEMMA StageStep ==
    ASSUME PeersIInv, PeersNext
    PROVE  StageShape'
<1>t. /\ MainTypes /\ StageShape /\ rev \in Nat
      /\ \A p \in Procs : watch[p] = "none" => reply[p] = 0
  BY Zenon DEF PeersIInv, PeersTypeOK, MainTypes
<1>1. ASSUME NEW p \in Procs, RegisterSelf(p) PROVE StageShape'
  <2>1. /\ Launch(p, "init") /\ UNCHANGED trouble
        /\ selfRevision' = [selfRevision EXCEPT ![p] = rev + 1]
    BY <1>1 DEF RegisterSelf
  <2> QED BY <1>t, <2>1 DEF Launch, Goes, MainTypes, Stages, StageShape, Member
<1>2. ASSUME NEW p \in Procs, RegisterRefused(p) \/ RegisterFails(p) PROVE StageShape'
  <2>1. /\ Launch(p, "stop") /\ UNCHANGED selfRevision
        /\ UNCHANGED trouble \/ trouble' = [trouble EXCEPT ![p] = "failed"]
    BY <1>2 DEF RegisterRefused, RegisterFails
  <2> QED BY <1>t, <2>1 DEF Launch, Goes, MainTypes, Stages, StageShape, Member
<1>3. ASSUME NEW p \in Procs, InitPeers(p) PROVE StageShape'
  BY <1>t, <1>3 DEF InitPeers, Goes, MainTypes, Stages, StageShape, Member
<1>4. ASSUME NEW p \in Procs, Started(p) PROVE StageShape'
  BY <1>t, <1>4 DEF Started, Goes, MainTypes, Stages, memory, StageShape, Member
<1>5. ASSUME NEW p \in Procs, StopBegin(p) \/ UnregisterBegin(p) PROVE StageShape'
  BY <1>t, <1>5 DEF StopBegin, UnregisterBegin, Goes, MainTypes, Stages, memory, StageShape, Member
<1>6. ASSUME NEW p \in Procs, UnregisterSelf(p) \/ UnregisterFails(p) PROVE StageShape'
  <2>1. /\ Goes(p, {"unregister"}, "leave") /\ UNCHANGED <<watch, selfRevision, reply>>
        /\ UNCHANGED trouble \/ trouble' = [trouble EXCEPT ![p] = "failed"]
    BY <1>6 DEF UnregisterSelf, UnregisterFails, memory
  <2> QED BY <1>t, <2>1 DEF Goes, MainTypes, Stages, StageShape, Member
<1>7. ASSUME NEW p \in Procs, UnregisterPanics(p) \/ Exit(p) \/ Crash(p) PROVE StageShape'
  <2>1. Ends(p)
    BY <1>7 DEF UnregisterPanics, Exit, Crash
  <2> QED BY <1>t, <2>1 DEF Ends, MainTypes, Stages, StageShape, Member
<1>8. ASSUME NEW p \in Procs, NotifyBegin(p) PROVE StageShape'
  BY <1>t, <1>8 DEF NotifyBegin, MainTypes, StageShape, Member
<1>9. ASSUME NEW p \in Procs, NEW n \in Names, NotifyOne(p, n) PROVE StageShape'
  <2>1. /\ watch[p] = "notify" /\ UNCHANGED <<stage, selfRevision, reply, trouble>>
        /\ watch' = [watch EXCEPT ![p] = IF toNotify[p] = {n} THEN "done" ELSE @]
    BY <1>9 DEF NotifyOne
  <2> QED BY <1>t, <2>1 DEF MainTypes, StageShape, Member
<1>10. ASSUME NEW p \in Procs, OnKvPut(p) \/ OnKvDelete(p) \/ OnOwnDelete(p) PROVE StageShape'
  <2>1. UNCHANGED <<stage, watch, selfRevision, reply, trouble>>
    BY <1>10 DEF OnKvPut, OnKvDelete, OnOwnDelete
  <2> QED BY <1>t, <2>1 DEF StageShape, Member
<1>11. ASSUME NEW p \in Procs, ReRegister(p) PROVE StageShape'
  <2>1. UNCHANGED <<stage, watch, selfRevision>> /\ IsOwnDelete(p) /\ ~IsNormalUnregisterSelf(p)
    BY <1>11 DEF ReRegister
  <2>2. /\ UNCHANGED trouble \/ trouble' = [trouble EXCEPT ![p] = "failed"]
        /\ UNCHANGED reply \/ reply' = [reply EXCEPT ![p] = rev + 1]
    BY <1>11 DEF ReRegister
  <2>3. trouble[p] # "none"
    BY <2>1, OwnDeleteTrouble DEF PeersIInv
  <2> QED BY <1>t, <2>1, <2>2, <2>3 DEF MainTypes, StageShape, Member
<1>12. ASSUME NEW p \in Procs, NoteRevision(p) PROVE StageShape'
  BY <1>t, <1>12 DEF NoteRevision, MainTypes, StageShape, Member
<1>13. ASSUME NEW n \in Names, LeaseExpires(n) PROVE StageShape'
  <2> DEFINE p == peerKey[n].lease
  <2>1. UNCHANGED <<stage, watch, selfRevision, reply>>
    BY <1>13 DEF LeaseExpires, memory
  <2>2. \/ UNCHANGED trouble
        \/ trouble' = [trouble EXCEPT ![p] = IF @ = "none" THEN "expired" ELSE @]
    BY <1>13 DEF LeaseExpires
  <2> HIDE DEF p
  <2>3. \A q \in Procs : trouble[q] # "none" => trouble'[q] # "none"
    BY <1>t, <2>2 DEF MainTypes
  <2> QED BY <1>t, <2>1, <2>3 DEF StageShape, Member
<1> QED BY <1>1, <1>2, <1>3, <1>4, <1>5, <1>6, <1>7, <1>8, <1>9, <1>10, <1>11, <1>12, <1>13,
           Zenon DEF PeersNext

-----------------------------------------------------------------------------
(* The entries follow the keys.                                            *)

\* A key that is put: every queue that listens ends with it.
LEMMA FollowPut ==
    ASSUME PeersTypeOK, KeyShape, NEW p \in Procs, ~Taken(p),
           NEW queues \in QueuesType, PutKey(p, queues),
           NEW q \in Procs, NEW n \in Follows[q], NEW x, Listening(q),
           Agrees(queues[q], n, x, Tells(n), Shows(n)), Chained(queues[q], n, x)
    PROVE  Agrees(events'[q], n, x, Tells(n)', Shows(n)') /\ Chained(events'[q], n, x)
<1> DEFINE m == NameOf[p]
           e == [name |-> m, value |-> AddrOf[p]]
<1>t. m \in Names /\ AddrOf[p] \in Addrs /\ n \in Names /\ queues[q] \in Seq(Ev)
      /\ rev \in Nat /\ peerKey \in [Names -> KeyType]
  BY ConstantFacts DEF QueuesType, PeersTypeOK, KeyType
<1>1. Broadcast(queues, m, AddrOf[p])
  BY DEF PutKey
<1>2. e \in Ev /\ events'[q] = IF m \in Follows[q] THEN Append(queues[q], e) ELSE queues[q]
  <2>1. AddrOf[p] \in Addrs \cup {NoAddr}
    BY <1>t
  <2> HIDE DEF m
  <2> QED BY <1>t, <1>1, <2>1, BroadcastQueues
<1>3. e.name = m /\ e.value = AddrOf[p]
  OBVIOUS
<1>4. /\ \A k \in Names : k # m => peerKey'[k] = peerKey[k]
      /\ peerKey'[m].value = AddrOf[p] /\ peerKey'[m].create # 0
  BY <1>t, PutKeys
<1>5. /\ n # m => Tells(n)' = Tells(n) /\ Shows(n)' = Shows(n)
      /\ n = m => Tells(n)' = {AddrOf[p]}
  BY <1>t, <1>4 DEF Tells, Shows, Exists
<1>6. n = m => Tells(n) \subseteq {NoAddr, e.value} /\ Shows(n) \subseteq {NoAddr, Unknown, e.value}
  BY <1>3 DEF Tells, Shows, Taken, Own
<1> HIDE DEF m, e
<1>7. CASE n = m
  <2>1. events'[q] = Append(queues[q], e)
    BY <1>2, <1>7
  <2>2. Chained(Append(queues[q], e), n, x)
    BY <1>t, <1>2, <1>6, <1>7, ChainedAppend
  <2>3. Agrees(Append(queues[q], e), n, x, Tells(n)', Shows(n)')
    BY <1>t, <1>2, <1>3, <1>5, <1>7, AgreesAppendSame
  <2> QED BY <2>1, <2>2, <2>3
<1>8. CASE n # m /\ m \in Follows[q]
  <2>1. events'[q] = Append(queues[q], e) /\ e.name # n
    BY <1>2, <1>3, <1>8
  <2>2. Chained(Append(queues[q], e), n, x)
    BY <1>t, <1>2, <2>1, ChainedAppend
  <2>3. Agrees(Append(queues[q], e), n, x, Tells(n), Shows(n))
    BY <1>t, <1>2, <2>1, AgreesAppendOther
  <2> QED BY <1>5, <1>8, <2>1, <2>2, <2>3
<1>9. CASE n # m /\ m \notin Follows[q]
  BY <1>2, <1>5, <1>9
<1> QED BY <1>7, <1>8, <1>9

\* A key that is deleted.
LEMMA FollowDelete ==
    ASSUME PeersTypeOK, KeyShape, NEW m \in Names, DeleteKey(m),
           NEW q \in Procs, NEW n \in Follows[q], NEW x, Listening(q),
           Agrees(events[q], n, x, Tells(n), Shows(n)), Chained(events[q], n, x)
    PROVE  Agrees(events'[q], n, x, Tells(n)', Shows(n)') /\ Chained(events'[q], n, x)
<1> DEFINE e == [name |-> m, value |-> NoAddr]
<1>t. n \in Names /\ events \in QueuesType /\ events[q] \in Seq(Ev)
      /\ rev \in Nat /\ peerKey \in [Names -> KeyType]
  BY ConstantFacts DEF QueuesType, PeersTypeOK, KeyType, Ev
<1>1. Broadcast(events, m, NoAddr)
  BY DEF DeleteKey
<1>2. e \in Ev /\ events'[q] = IF m \in Follows[q] THEN Append(events[q], e) ELSE events[q]
  <2>1. NoAddr \in Addrs \cup {NoAddr}
    OBVIOUS
  <2> QED BY <1>t, <1>1, <2>1, BroadcastQueues
<1>3. e.name = m /\ e.value = NoAddr
  OBVIOUS
<1>4. \A k \in Names : peerKey'[k] = IF k = m THEN NoKey ELSE peerKey[k]
  BY <1>t, DeleteKeys
<1>5. /\ n # m => Tells(n)' = Tells(n) /\ Shows(n)' = Shows(n)
      /\ n = m => Tells(n)' = {NoAddr}
  <2>1. NoKey.create = 0
    BY DEF NoKey
  <2>2. CASE n # m
    BY <1>t, <1>4, <2>2 DEF Tells, Shows, Exists
  <2>3. CASE n = m
    BY <1>t, <1>4, <2>1, <2>3 DEF Tells, Exists
  <2> QED BY <2>2, <2>3
<1> HIDE DEF e
<1>7. CASE n = m
  <2>1. events'[q] = Append(events[q], e)
    BY <1>2, <1>7
  <2>2. Chained(Append(events[q], e), n, x)
    BY <1>t, <1>2, <1>3, <1>7, ChainedAppend
  <2>3. Agrees(Append(events[q], e), n, x, Tells(n)', Shows(n)')
    BY <1>t, <1>2, <1>3, <1>5, <1>7, AgreesAppendSame
  <2> QED BY <2>1, <2>2, <2>3
<1>8. CASE n # m /\ m \in Follows[q]
  <2>1. events'[q] = Append(events[q], e) /\ e.name # n
    BY <1>2, <1>3, <1>8
  <2>2. Chained(Append(events[q], e), n, x)
    BY <1>t, <1>2, <2>1, ChainedAppend
  <2>3. Agrees(Append(events[q], e), n, x, Tells(n), Shows(n))
    BY <1>t, <1>2, <2>1, AgreesAppendOther
  <2> QED BY <1>5, <1>8, <2>1, <2>2, <2>3
<1>9. CASE n # m /\ m \notin Follows[q]
  BY <1>2, <1>5, <1>9
<1> QED BY <1>7, <1>8, <1>9

\* The entry of n after the first event of p.
Seen(p, n) == IF Event(p).name # n THEN peers[p][n]
              ELSE IF Event(p).value # NoAddr THEN Event(p).value
              ELSE IF peers[p][n] = Unknown THEN Unknown ELSE NoAddr

\* An event that is consumed: its entry is what it says.
LEMMA FollowConsumed ==
    ASSUME PeersTypeOK, KeyShape, Follow(events, peers), NEW p \in Procs, HasEvent(p),
           NEW q \in Procs, NEW n \in Follows[q], Listening(q), NEW x,
           x = IF q = p THEN Seen(p, n) ELSE peers[q][n]
    PROVE  Agrees(Consumed(p)[q], n, x, Tells(n), Shows(n)) /\ Chained(Consumed(p)[q], n, x)
<1>t. events[p] # <<>> /\ events \in QueuesType /\ events[q] \in Seq(Ev)
      /\ Consumed(p)[q] = IF q = p THEN Tail(events[p]) ELSE events[q]
  <2>1. events[p] # <<>> /\ events \in QueuesType
    BY DEF HasEvent, PeersTypeOK, QueuesType, Ev
  <2> QED BY <2>1, ConsumedQueues DEF QueuesType
<1>1. Agrees(events[q], n, peers[q][n], Tells(n), Shows(n)) /\ Chained(events[q], n, peers[q][n])
  BY DEF Follow
<1>2. CASE q # p
  BY <1>t, <1>1, <1>2
<1>3. CASE q = p /\ Head(events[p]).name # n
  <2>1. x = peers[q][n] /\ Consumed(p)[q] = Tail(events[q]) /\ events[q] # <<>>
        /\ Head(events[q]).name # n
    BY <1>t, <1>3 DEF Seen, Event
  <2>2. Agrees(Tail(events[q]), n, x, Tells(n), Shows(n))
    BY <1>t, <1>1, <2>1, AgreesTailOther
  <2>3. Chained(Tail(events[q]), n, x)
    BY <1>t, <1>1, <2>1, ChainedTail
  <2> QED BY <2>1, <2>2, <2>3
<1>4. CASE q = p /\ Head(events[p]).name = n
  <2>1. Consumed(p)[q] = Tail(events[q]) /\ events[q] # <<>> /\ Head(events[q]).name = n
    BY <1>t, <1>4
  <2>2. x = IF Head(events[q]).value # NoAddr THEN Head(events[q]).value
            ELSE IF peers[q][n] = Unknown THEN Unknown ELSE NoAddr
    BY <1>4 DEF Seen, Event
  <2>3. x \in {Head(events[q]).value, NoAddr, Unknown}
    BY <2>2
  <2>4. ASSUME Head(events[q]).value \in Tells(n) PROVE x \in Shows(n)
    <3>1. n \in Names
      BY ConstantFacts
    <3>2. Exists(n) => peerKey[n].value # NoAddr
      <4>1. peerKey[n].value \in Addrs \cup {Unknown}
        BY <3>1 DEF PeersTypeOK
      <4> QED BY <4>1, ConstantFacts
    <3> QED BY <2>2, <2>4, <3>2 DEF Tells, Shows
  <2>5. Agrees(Tail(events[q]), n, x, Tells(n), Shows(n))
    BY <1>t, <1>1, <2>1, <2>4, AgreesTailSame
  <2>6. Chained(Tail(events[q]), n, x)
    BY <1>t, <1>1, <2>1, <2>3, ChainedTail
  <2> QED BY <2>1, <2>5, <2>6
<1> QED BY <1>2, <1>3, <1>4

\* A process listens from the Get of initPeers.
LEMMA ListeningStep ==
    ASSUME PeersTypeOK, StageShape, PeersNext, NEW q \in Procs, Listening(q)'
    PROVE  Listening(q) \/ InitPeers(q)
<1>t. /\ watch \in [Procs -> {"none", "known", "watching", "notify", "done"}]
      /\ cancelled \in [Procs -> BOOLEAN]
  BY Zenon DEF PeersTypeOK
<1>1. watch'[q] # "none" /\ ~cancelled'[q]
  BY Zenon DEF Listening
<1>2. ~Ends(q)
  <2>1. Ends(q) => watch' = [watch EXCEPT ![q] = "none"]
    BY DEF Ends
  <2> QED BY <1>t, <1>1, <2>1
<1>3. ~cancelled[q]
  <2>1. CASE UNCHANGED cancelled
    BY <1>1, <2>1, Zenon
  <2>2. ASSUME NEW p \in Procs, Ends(p), cancelled' = [cancelled EXCEPT ![p] = FALSE]
        PROVE  ~cancelled[q]
    BY <1>t, <1>1, <1>2, <2>2, Zenon
  <2>3. ASSUME NEW p \in Procs, cancelled' = [cancelled EXCEPT ![p] = TRUE]
        PROVE  ~cancelled[q]
    BY <1>t, <1>1, <2>3, Zenon
  <2> QED BY <2>1, <2>2, <2>3, CancelSteps, Zenon
<1>4. watch[q] # "none" \/ InitPeers(q)
  <2>1. ASSUME NEW n \in Names, LeaseExpires(n) PROVE UNCHANGED watch
    BY <2>1 DEF LeaseExpires
  <2>2. ASSUME NEW p \in Procs,
               \/ RegisterSelf(p) \/ RegisterRefused(p) \/ RegisterFails(p) \/ StopBegin(p)
               \/ UnregisterBegin(p) \/ UnregisterSelf(p) \/ UnregisterFails(p) \/ OnKvPut(p)
               \/ OnKvDelete(p) \/ OnOwnDelete(p) \/ ReRegister(p) \/ NoteRevision(p)
        PROVE  UNCHANGED watch
    BY <2>2 DEF RegisterSelf, RegisterRefused, RegisterFails, Launch, StopBegin, UnregisterBegin,
                UnregisterSelf, UnregisterFails, OnKvPut, OnKvDelete, OnOwnDelete,
                ReRegister, NoteRevision
  <2>3. ASSUME NEW p \in Procs, UnregisterPanics(p) \/ Exit(p) \/ Crash(p) PROVE watch[q] # "none"
    <3>1. watch' = [watch EXCEPT ![p] = "none"]
      BY <2>3 DEF UnregisterPanics, Exit, Crash, Ends
    <3> QED BY <1>t, <1>1, <3>1
  <2>4. ASSUME NEW p \in Procs, InitPeers(p) PROVE watch[q] # "none" \/ InitPeers(q)
    <3>1. watch' = [watch EXCEPT ![p] = "known"]
      BY <2>4 DEF InitPeers
    <3> QED BY <1>t, <1>1, <2>4, <3>1
  <2>5. ASSUME NEW p \in Procs, Started(p) PROVE watch[q] # "none"
    <3>1. watch[p] # "none" /\ \A r \in Procs : r # p => watch'[r] = watch[r]
      BY <1>t, <2>5 DEF Started, Goes, StageShape
    <3> QED BY <1>1, <3>1
  <2>6. ASSUME NEW p \in Procs, NotifyBegin(p) \/ \E n \in Names : NotifyOne(p, n)
        PROVE  watch[q] # "none"
    <3>1. watch[p] # "none" /\ \A r \in Procs : r # p => watch'[r] = watch[r]
      BY <1>t, <2>6 DEF NotifyBegin, NotifyOne
    <3> QED BY <1>1, <3>1
  <2> QED BY <1>1, <2>1, <2>2, <2>3, <2>4, <2>5, <2>6, Zenon DEF PeersNext
<1> QED BY <1>3, <1>4, Zenon DEF Listening

\* The entry after an event, for every process and name.
LEMMA SeenEntries ==
    ASSUME PeersTypeOK, NEW p \in Procs, OnKvPut(p) \/ (IsDelete(p) /\ Forget(p)),
           NEW q \in Procs, NEW n \in Names
    PROVE  peers'[q][n] = IF q = p THEN Seen(p, n) ELSE peers[q][n]
<1>t. peers \in ViewType /\ HasEvent(p)
  BY DEF PeersTypeOK, ViewType, OnKvPut, IsPut, IsDelete
<1>1. Event(p).name \in Names
  <2>1. Event(p) \in Ev
    <3>1. events \in QueuesType /\ events[p] # <<>>
      BY <1>t DEF PeersTypeOK, QueuesType, Ev, HasEvent
    <3> QED BY <3>1, ConsumedQueues
  <2> QED BY <2>1 DEF Ev
<1>2. CASE OnKvPut(p)
  <2>1. Event(p).value # NoAddr /\ peers' = [peers EXCEPT ![p][Event(p).name] = Event(p).value]
    BY <1>2 DEF OnKvPut, IsPut, PutEntry
  <2> QED BY <1>t, <1>1, <2>1 DEF ViewType, Seen
<1>3. CASE IsDelete(p) /\ Forget(p)
  <2>1. Event(p).value = NoAddr
        /\ peers' = [peers EXCEPT ![p][Event(p).name] = IF @ = Unknown THEN @ ELSE NoAddr]
    BY <1>3 DEF IsDelete, Forget
  <2> QED BY <1>t, <1>1, <2>1 DEF ViewType, Seen
<1> QED BY <1>2, <1>3

\* The entries and the events to come keep leading to the keys.
LEMMA FollowStep ==
    ASSUME PeersTypeOK, KeyShape, StageShape, Follow(events, peers), PeersNext
    PROVE  Follow(events, peers)'
<1> SUFFICES ASSUME NEW q \in Procs, NEW n \in Follows[q], Listening(q)'
             PROVE  /\ Agrees(events'[q], n, peers'[q][n], Tells(n)', Shows(n)')
                    /\ Chained(events'[q], n, peers'[q][n])
  BY Zenon DEF Follow
<1> DEFINE Goal == /\ Agrees(events'[q], n, peers'[q][n], Tells(n)', Shows(n)')
                   /\ Chained(events'[q], n, peers'[q][n])
<1>t. n \in Names /\ events \in QueuesType /\ peers \in ViewType
  BY ConstantFacts DEF PeersTypeOK, QueuesType, Ev, ViewType
<1>1. UNCHANGED storeVars => Tells(n)' = Tells(n) /\ Shows(n)' = Shows(n)
  BY DEF storeVars, Tells, Shows, Exists
<1>2. CASE InitPeers(q)
  <2>1. /\ UNCHANGED storeVars /\ stage[q] = "init" /\ events' = events
        /\ peers' = [peers EXCEPT ![q] = [m \in Names |-> IF m \in Follows[q] THEN peerKey[m].value ELSE Unknown]]
    BY <1>2 DEF InitPeers, Goes
  <2>2. events'[q] = <<>>
    BY <2>1 DEF StageShape, PeersTypeOK
  <2>3. peers'[q][n] = peerKey[n].value
    BY <1>t, <2>1 DEF ViewType
  <2>4. peers'[q][n] \in Shows(n)
    <3>1. ~Exists(n) => peerKey[n] = NoKey
      BY <1>t, Zenon DEF KeyShape
    <3>2. NoKey.value = Unknown
      BY DEF NoKey
    <3> QED BY <2>3, <3>1, <3>2 DEF Shows
  <2>5. Agrees(<<>>, n, peers'[q][n], Tells(n), Shows(n))
    BY <2>4, AgreesEmpty
  <2>6. Chained(<<>>, n, peers'[q][n])
    BY DEF Chained
  <2> QED BY <1>1, <2>1, <2>2, <2>5, <2>6
<1>3. CASE Listening(q) /\ ~InitPeers(q)
  <2>t. Agrees(events[q], n, peers[q][n], Tells(n), Shows(n)) /\ Chained(events[q], n, peers[q][n])
    BY <1>3 DEF Follow
  <2>0. ASSUME UNCHANGED storeVars, events'[q] = events[q], peers'[q] = peers[q] PROVE Goal
    BY <1>1, <2>t, <2>0
  <2>1. ASSUME NEW m \in Names, DeleteKey(m), UNCHANGED peers PROVE Goal
    BY <1>3, <2>t, <2>1, FollowDelete
  <2>2. ASSUME NEW p \in Procs, ~Taken(p), PutKey(p, events), UNCHANGED peers PROVE Goal
    BY <1>t, <1>3, <2>t, <2>2, FollowPut
  <2>3. ASSUME NEW p \in Procs, OnKvPut(p) \/ OnKvDelete(p) PROVE Goal
    <3>1. /\ HasEvent(p) /\ events' = Consumed(p) /\ UNCHANGED storeVars
          /\ OnKvPut(p) \/ (IsDelete(p) /\ Forget(p))
      BY <2>3, Zenon DEF OnKvPut, OnKvDelete, IsPut, IsDelete
    <3>2. peers'[q][n] = IF q = p THEN Seen(p, n) ELSE peers[q][n]
      BY <1>t, <3>1, SeenEntries
    <3>3. /\ Agrees(Consumed(p)[q], n, peers'[q][n], Tells(n), Shows(n))
          /\ Chained(Consumed(p)[q], n, peers'[q][n])
      BY <1>3, <3>1, <3>2, FollowConsumed
    <3> QED BY <1>1, <3>1, <3>3
  <2>4. ASSUME NEW p \in Procs, ReRegister(p) PROVE Goal
    <3>1. HasEvent(p) /\ events[p] # <<>> /\ IsDelete(p) /\ Forget(p)
      BY <2>4 DEF ReRegister, IsOwnDelete, IsDelete, HasEvent
    <3>2. peers'[q][n] = IF q = p THEN Seen(p, n) ELSE peers[q][n]
      BY <1>t, <3>1, SeenEntries
    <3>3. /\ Agrees(Consumed(p)[q], n, peers'[q][n], Tells(n), Shows(n))
          /\ Chained(Consumed(p)[q], n, peers'[q][n])
      BY <1>3, <3>1, <3>2, FollowConsumed
    <3>4. Consumed(p) \in QueuesType
      BY <1>t, <3>1, ConsumedQueues
    <3>5. \/ ~Taken(p) /\ PutKey(p, Consumed(p))
          \/ UNCHANGED storeVars /\ events' = Consumed(p)
      BY <2>4, Zenon DEF ReRegister
    <3>6. CASE ~Taken(p) /\ PutKey(p, Consumed(p))
      BY <1>t, <1>3, <3>3, <3>4, <3>6, FollowPut
    <3>7. CASE UNCHANGED storeVars /\ events' = Consumed(p)
      BY <1>1, <3>3, <3>7
    <3> QED BY <3>5, <3>6, <3>7
  <2>5. ASSUME NEW p \in Procs, UnregisterPanics(p) \/ Exit(p) \/ Crash(p) PROVE Goal
    <3>1. /\ UNCHANGED storeVars /\ watch' = [watch EXCEPT ![p] = "none"]
          /\ peers' = [peers EXCEPT ![p] = [m \in Names |-> Unknown]]
          /\ events' = [events EXCEPT ![p] = <<>>]
      BY <2>5 DEF UnregisterPanics, Exit, Crash, Ends
    <3>2. p # q
      BY <3>1 DEF Listening, PeersTypeOK
    <3>3. peers'[q] = peers[q] /\ events'[q] = events[q]
      BY <1>t, <3>1, <3>2 DEF ViewType, QueuesType
    <3> QED BY <2>0, <3>1, <3>3
  <2>6. ASSUME NEW p \in Procs, OnOwnDelete(p) PROVE Goal
    <3>1. /\ UNCHANGED storeVars /\ Forget(p)
          /\ events' = [events EXCEPT ![p] = <<>>]
      BY <2>6 DEF OnOwnDelete
    <3>2. p # q
      <4>1. cancelled' = [cancelled EXCEPT ![p] = TRUE] /\ cancelled \in [Procs -> BOOLEAN]
        BY <2>6, Zenon DEF OnOwnDelete, PeersTypeOK
      <4>2. cancelled'[p]
        BY <4>1, Zenon
      <4> QED BY <4>2, Zenon DEF Listening
    <3>3. peers'[q] = peers[q] /\ events'[q] = events[q]
      BY <1>t, <3>1, <3>2 DEF ViewType, QueuesType, Forget
    <3> QED BY <2>0, <3>1, <3>3
  <2>7. ASSUME NEW p \in Procs, InitPeers(p) PROVE Goal
    <3>1. p # q
      BY <1>3, <2>7
    <3>2. /\ UNCHANGED <<storeVars, events>> /\ \E e : peers' = [peers EXCEPT ![p] = e]
      BY <2>7 DEF InitPeers
    <3>3. peers'[q] = peers[q]
      BY <1>t, <3>1, <3>2 DEF ViewType
    <3> QED BY <2>0, <3>2, <3>3
  <2>8. ASSUME NEW p \in Procs,
               \/ RegisterRefused(p) \/ Started(p) \/ StopBegin(p) \/ UnregisterBegin(p)
               \/ NotifyBegin(p) \/ (\E m \in Names : NotifyOne(p, m)) \/ NoteRevision(p)
        PROVE  Goal
    <3>1. UNCHANGED <<storeVars, events, peers>>
      BY <2>8 DEF RegisterRefused, Launch, Started, StopBegin, UnregisterBegin, memory, NotifyBegin,
                  NotifyOne, NoteRevision
    <3> QED BY <2>0, <3>1
  <2>9. ASSUME NEW p \in Procs, RegisterSelf(p) \/ RegisterFails(p) PROVE Goal
    <3>1. UNCHANGED peers /\ ~Taken(p)
      BY <2>9 DEF RegisterSelf, RegisterFails, Launch
    <3>2. PutKey(p, events) \/ UNCHANGED <<storeVars, events>>
      BY <2>9, Zenon DEF RegisterSelf, RegisterFails
    <3> QED BY <2>0, <2>2, <3>1, <3>2
  <2>10. ASSUME NEW p \in Procs, UnregisterSelf(p) \/ UnregisterFails(p) PROVE Goal
    <3>1. UNCHANGED peers /\ NameOf[p] \in Names
      BY <2>10, ConstantFacts DEF UnregisterSelf, UnregisterFails, memory
    <3>2. DeleteKey(NameOf[p]) \/ UNCHANGED <<storeVars, events>>
      BY <2>10, Zenon DEF UnregisterSelf, UnregisterFails
    <3> QED BY <2>0, <2>1, <3>1, <3>2
  <2>11. ASSUME NEW m \in Names, LeaseExpires(m) PROVE Goal
    <3>1. UNCHANGED peers /\ DeleteKey(m)
      BY <2>11 DEF LeaseExpires, memory
    <3> QED BY <2>1, <3>1
  <2> HIDE DEF Goal
  <2>12. Goal
    BY <2>3, <2>4, <2>5, <2>6, <2>7, <2>8, <2>9, <2>10, <2>11, Zenon DEF PeersNext
  <2> QED BY <2>12 DEF Goal
<1> QED BY <1>2, <1>3, ListeningStep

-----------------------------------------------------------------------------
(* A process without trouble keeps its key.                                *)

\* No event of queue says that n is gone.
NoLoss(queue, n) == \A i \in 1 .. Len(queue) : queue[i].name = n => queue[i].value # NoAddr

\* One event more.
LEMMA NoLossAppend ==
    ASSUME NEW q \in Seq(Ev), NEW e \in Ev, NEW n, NoLoss(q, n), e.name # n \/ e.value # NoAddr
    PROVE  NoLoss(Append(q, e), n)
<1> DEFINE a == Append(q, e)
<1>1. /\ Len(a) = Len(q) + 1 /\ a[Len(q) + 1] = e /\ Len(q) \in Nat
      /\ \A i \in 1 .. Len(q) : a[i] = q[i]
  BY AppendAt
<1> HIDE DEF a
<1>2. ASSUME NEW i \in 1 .. Len(a), a[i].name = n PROVE a[i].value # NoAddr
  <2>1. CASE i \in 1 .. Len(q)
    BY <1>1, <1>2, <2>1 DEF NoLoss
  <2>2. CASE i = Len(q) + 1
    BY <1>1, <1>2, <2>2
  <2> QED BY <1>1, <2>1, <2>2
<1>3. NoLoss(a, n)
  BY <1>2 DEF NoLoss
<1> QED BY <1>3 DEF a

\* One event less.
LEMMA NoLossTail ==
    ASSUME NEW q \in Seq(Ev), q # <<>>, NEW n, NoLoss(q, n)
    PROVE  NoLoss(Tail(q), n)
<1> DEFINE a == Tail(q)
<1>1. /\ Len(q) \in Nat \ {0} /\ Len(a) = Len(q) - 1
      /\ \A i \in 1 .. Len(q) - 1 : a[i] = q[i + 1]
  BY TailAt
<1> HIDE DEF a
<1>2. ASSUME NEW i \in 1 .. Len(a), a[i].name = n PROVE a[i].value # NoAddr
  <2>1. i + 1 \in 1 .. Len(q) /\ a[i] = q[i + 1]
    BY <1>1
  <2> QED BY <1>2, <2>1 DEF NoLoss
<1>3. NoLoss(a, n)
  BY <1>2 DEF NoLoss
<1> QED BY <1>3 DEF a

\* Who has its key is the one the key names, and the only one that may put it.
LEMMA KeyOwner ==
    ASSUME PeersTypeOK, KeyShape, NEW q \in Procs, Own(q).value = AddrOf[q]
    PROVE  /\ Exists(NameOf[q])
           /\ Own(q).lease \in {q, NoProc}
           /\ \A p \in Procs : NameOf[p] = NameOf[q] /\ (~Taken(p) \/ Own(p).value = AddrOf[p]) => p = q
<1>1. NameOf[q] \in Names /\ AddrOf[q] # Unknown
  BY ConstantFacts
<1>2. peerKey[NameOf[q]] # NoKey
  BY <1>1 DEF NoKey, Own
<1>3. /\ Exists(NameOf[q])
      /\ \E r \in Procs : Own(q).value = AddrOf[r] /\ Own(q).lease \in {r, NoProc}
  BY <1>1, <1>2 DEF KeyShape, Own
<1>4. Own(q).lease \in {q, NoProc}
  BY <1>3, ConstantFacts
<1>5. ASSUME NEW p \in Procs, NameOf[p] = NameOf[q], ~Taken(p) \/ Own(p).value = AddrOf[p]
      PROVE  p = q
  <2>1. Own(p).value = AddrOf[p] /\ Own(p) = Own(q)
    BY <1>3, <1>5 DEF Taken, Own
  <2> QED BY <2>1, ConstantFacts
<1> QED BY <1>3, <1>4, <1>5

\* A process becomes clean when it registers, and at no other time.
LEMMA CleanBefore ==
    ASSUME PeersIInv, PeersNext, NEW q \in Procs, Clean(q)', ~RegisterSelf(q)
    PROVE  Clean(q) /\ selfRevision'[q] = selfRevision[q]
<1>t. MainTypes /\ StageShape /\ rev \in Nat
  BY Zenon DEF PeersIInv, PeersTypeOK, MainTypes
<1>0. /\ stage'[q] \in {"init", "ready", "up", "stop", "unregister"}
      /\ selfRevision'[q] # 0 /\ trouble'[q] = "none"
  BY DEF Clean
<1> DEFINE Goal == Clean(q) /\ selfRevision'[q] = selfRevision[q]
<1>1. ASSUME NEW p \in Procs, RegisterSelf(p) PROVE Goal
  <2>1. /\ p # q /\ Launch(p, "init") /\ UNCHANGED trouble
        /\ selfRevision' = [selfRevision EXCEPT ![p] = rev + 1]
    BY <1>1 DEF RegisterSelf
  <2> QED BY <1>t, <1>0, <2>1 DEF Launch, Goes, MainTypes, Clean
<1>2. ASSUME NEW p \in Procs, RegisterRefused(p) \/ RegisterFails(p) PROVE Goal
  <2>1. /\ Launch(p, "stop") /\ UNCHANGED selfRevision
        /\ UNCHANGED trouble \/ trouble' = [trouble EXCEPT ![p] = "failed"]
    BY <1>2 DEF RegisterRefused, RegisterFails
  <2> QED BY <1>t, <1>0, <2>1 DEF Launch, Goes, MainTypes, StageShape, Clean
<1>3. ASSUME NEW p \in Procs,
             InitPeers(p) \/ Started(p) \/ StopBegin(p) \/ UnregisterBegin(p)
      PROVE  Goal
  <2>1. /\ stage[p] \in {"init", "ready", "up", "stop"} /\ UNCHANGED <<selfRevision, trouble>>
        /\ \E s : stage' = [stage EXCEPT ![p] = s]
    BY <1>3 DEF InitPeers, Started, StopBegin, UnregisterBegin, Goes, memory
  <2> QED BY <1>t, <1>0, <2>1 DEF MainTypes, Clean
<1>4. ASSUME NEW p \in Procs, UnregisterSelf(p) \/ UnregisterFails(p) PROVE Goal
  <2>1. /\ Goes(p, {"unregister"}, "leave") /\ UNCHANGED selfRevision
        /\ UNCHANGED trouble \/ trouble' = [trouble EXCEPT ![p] = "failed"]
    BY <1>4 DEF UnregisterSelf, UnregisterFails, memory
  <2> QED BY <1>t, <1>0, <2>1 DEF Goes, MainTypes, Clean
<1>5. ASSUME NEW p \in Procs, UnregisterPanics(p) \/ Exit(p) \/ Crash(p) PROVE Goal
  <2>1. Ends(p)
    BY <1>5 DEF UnregisterPanics, Exit, Crash
  <2> QED BY <1>t, <1>0, <2>1 DEF Ends, MainTypes, Clean
<1>6. ASSUME NEW p \in Procs,
             \/ NotifyBegin(p) \/ (\E n \in Names : NotifyOne(p, n))
             \/ OnKvPut(p) \/ OnKvDelete(p) \/ OnOwnDelete(p)
      PROVE  Goal
  <2>1. UNCHANGED <<stage, selfRevision, trouble>>
    BY <1>6 DEF NotifyBegin, NotifyOne, OnKvPut, OnKvDelete, OnOwnDelete
  <2> QED BY <1>0, <2>1 DEF Clean
<1>7. ASSUME NEW p \in Procs, ReRegister(p) PROVE Goal
  <2>1. /\ UNCHANGED <<stage, selfRevision>>
        /\ UNCHANGED trouble \/ trouble' = [trouble EXCEPT ![p] = "failed"]
    BY <1>7 DEF ReRegister
  <2> QED BY <1>t, <1>0, <2>1 DEF MainTypes, Clean
<1>8. ASSUME NEW p \in Procs, NoteRevision(p) PROVE Goal
  BY <1>t, <1>0, <1>8 DEF NoteRevision, MainTypes, StageShape, Clean
<1>9. ASSUME NEW n \in Names, LeaseExpires(n) PROVE Goal
  <2> DEFINE p == peerKey[n].lease
  <2>1. UNCHANGED <<stage, selfRevision>>
    BY <1>9 DEF LeaseExpires, memory
  <2>2. \/ UNCHANGED trouble
        \/ trouble' = [trouble EXCEPT ![p] = IF @ = "none" THEN "expired" ELSE @]
    BY <1>9 DEF LeaseExpires
  <2> HIDE DEF p
  <2>3. trouble[q] # "none" => trouble'[q] # "none"
    BY <1>t, <2>2 DEF MainTypes
  <2> QED BY <1>0, <2>1, <2>3 DEF Clean
<1> HIDE DEF Goal
<1>10. Goal
  BY <1>1, <1>2, <1>3, <1>4, <1>5, <1>6, <1>7, <1>8, <1>9, Zenon DEF PeersNext
<1> QED BY <1>10 DEF Goal

\* The put of another process leaves the key of q as it is.
LEMMA PutByOther ==
    ASSUME PeersTypeOK, KeyShape, NEW q \in Procs, Own(q).value = AddrOf[q],
           NEW p \in Procs, p # q, ~Taken(p), NEW queues \in QueuesType, PutKey(p, queues),
           NoLoss(queues[q], NameOf[q])
    PROVE  Own(q)' = Own(q) /\ NoLoss(events'[q], NameOf[q])
<1> DEFINE m == NameOf[p]
           e == [name |-> m, value |-> AddrOf[p]]
<1>t. /\ m \in Names /\ NameOf[q] \in Names /\ AddrOf[p] \in Addrs /\ AddrOf[p] # NoAddr
      /\ rev \in Nat /\ peerKey \in [Names -> KeyType] /\ queues[q] \in Seq(Ev)
  BY ConstantFacts DEF QueuesType, PeersTypeOK, KeyType
<1>1. m # NameOf[q]
  BY KeyOwner
<1>2. Own(q)' = Own(q)
  <2>1. peerKey'[NameOf[q]] = peerKey[NameOf[q]]
    BY <1>t, <1>1, PutKeys
  <2> QED BY <2>1 DEF Own
<1>3. e \in Ev /\ events'[q] \in {queues[q], Append(queues[q], e)}
  <2>1. Broadcast(queues, m, AddrOf[p]) /\ AddrOf[p] \in Addrs \cup {NoAddr}
    BY <1>t DEF PutKey
  <2> HIDE DEF m
  <2>2. e \in Ev /\ events'[q] = IF Listening(q) /\ m \in Follows[q] THEN Append(queues[q], e) ELSE queues[q]
    BY <1>t, <2>1, BroadcastQueues
  <2> HIDE DEF e
  <2> QED BY <2>2
<1>4. e.value # NoAddr
  BY <1>t
<1> HIDE DEF e
<1>5. NoLoss(Append(queues[q], e), NameOf[q])
  BY <1>t, <1>3, <1>4, NoLossAppend
<1> QED BY <1>2, <1>3, <1>5

\* The deletion of another key too.
LEMMA DeleteOfOther ==
    ASSUME PeersTypeOK, KeyShape, NEW q \in Procs, NEW m \in Names, m # NameOf[q], DeleteKey(m),
           NoLoss(events[q], NameOf[q])
    PROVE  Own(q)' = Own(q) /\ NoLoss(events'[q], NameOf[q])
<1> DEFINE e == [name |-> m, value |-> NoAddr]
<1>t. /\ NameOf[q] \in Names /\ events \in QueuesType /\ events[q] \in Seq(Ev)
      /\ rev \in Nat /\ peerKey \in [Names -> KeyType]
  BY ConstantFacts DEF QueuesType, PeersTypeOK, KeyType, Ev
<1>1. Own(q)' = Own(q)
  <2>1. peerKey'[NameOf[q]] = peerKey[NameOf[q]]
    BY <1>t, DeleteKeys
  <2> QED BY <2>1 DEF Own
<1>2. e \in Ev /\ events'[q] \in {events[q], Append(events[q], e)}
  <2>1. Broadcast(events, m, NoAddr) /\ NoAddr \in Addrs \cup {NoAddr}
    BY DEF DeleteKey
  <2>2. e \in Ev /\ events'[q] = IF Listening(q) /\ m \in Follows[q] THEN Append(events[q], e) ELSE events[q]
    BY <1>t, <2>1, BroadcastQueues
  <2> HIDE DEF e
  <2> QED BY <2>2
<1>3. e.name # NameOf[q]
  OBVIOUS
<1> HIDE DEF e
<1>4. NoLoss(Append(events[q], e), NameOf[q])
  BY <1>t, <1>2, <1>3, NoLossAppend
<1> QED BY <1>1, <1>2, <1>4

\* A process without trouble keeps the key it wrote.
LEMMA CleanStep ==
    ASSUME PeersIInv, PeersNext
    PROVE  CleanHasKey'
<1> SUFFICES ASSUME NEW q \in Procs, Clean(q)'
             PROVE  /\ Own(q)'.value = AddrOf[q] /\ Own(q)'.mod = selfRevision'[q]
                    /\ NoLoss(events'[q], NameOf[q])
  BY DEF CleanHasKey, NoLoss
<1>t. /\ PeersTypeOK /\ KeyShape /\ StageShape /\ CleanHasKey /\ MainTypes
      /\ events \in QueuesType /\ NameOf[q] \in Names
      /\ rev \in Nat /\ peerKey \in [Names -> KeyType]
  BY ConstantFacts, Zenon DEF PeersIInv, PeersTypeOK, MainTypes, QueuesType, Ev, KeyType
<1>q. \A r \in Procs : events[r] \in Seq(Ev)
  BY <1>t DEF QueuesType
<1>1. CASE RegisterSelf(q)
  <2>1. /\ Launch(q, "init") /\ PutKey(q, events)
        /\ selfRevision' = [selfRevision EXCEPT ![q] = rev + 1]
    BY <1>1 DEF RegisterSelf
  <2>2. watch[q] = "none"
    BY <1>t, <2>1 DEF Launch, Goes, StageShape
  <2>3. watch'[q] = "none"
    BY <2>1, <2>2 DEF Launch
  <2>4. events'[q] = <<>>
    BY <1>t, <2>3, WithoutWatchStep
  <2>5. NoLoss(<<>>, NameOf[q])
    BY DEF NoLoss
  <2>6. selfRevision'[q] = rev + 1
    BY <1>t, <2>1 DEF MainTypes
  <2>7. peerKey'[NameOf[q]].value = AddrOf[q] /\ peerKey'[NameOf[q]].mod = rev + 1
    BY <1>t, <2>1, PutKeys
  <2> QED BY <2>4, <2>5, <2>6, <2>7 DEF Own
<1>2. CASE ~RegisterSelf(q)
  <2>t. Clean(q) /\ selfRevision'[q] = selfRevision[q]
    BY <1>2, CleanBefore
  <2>k. /\ Own(q).value = AddrOf[q] /\ Own(q).mod = selfRevision[q] /\ NoLoss(events[q], NameOf[q])
    BY <1>t, <2>t DEF CleanHasKey, NoLoss
  <2>s. stage[q] \notin {"off", "leave"} /\ trouble[q] = "none" /\ trouble'[q] = "none"
        /\ stage'[q] # "leave"
    BY <2>t DEF Clean
  <2> DEFINE Goal == Own(q)' = Own(q) /\ NoLoss(events'[q], NameOf[q])
  <2>0. ASSUME UNCHANGED storeVars, events'[q] = events[q] PROVE Goal
    BY <2>0, <2>k DEF Own, storeVars
  <2>1. ASSUME NEW p \in Procs, p # q, ~Taken(p), PutKey(p, events) PROVE Goal
    BY <1>t, <2>k, <2>1, PutByOther
  <2>2. ASSUME NEW p \in Procs, RegisterSelf(p) \/ RegisterFails(p) PROVE Goal
    <3>1. p # q /\ ~Taken(p)
      BY <2>s, <2>2 DEF RegisterSelf, RegisterFails, Launch, Goes
    <3>2. PutKey(p, events) \/ UNCHANGED <<storeVars, events>>
      BY <2>2, Zenon DEF RegisterSelf, RegisterFails
    <3> QED BY <2>0, <2>1, <3>1, <3>2
  <2>3. ASSUME NEW p \in Procs,
               \/ RegisterRefused(p) \/ InitPeers(p) \/ Started(p) \/ StopBegin(p)
               \/ UnregisterBegin(p) \/ NotifyBegin(p) \/ (\E m \in Names : NotifyOne(p, m))
               \/ NoteRevision(p)
        PROVE  Goal
    <3>1. UNCHANGED <<storeVars, events>>
      BY <2>3 DEF RegisterRefused, InitPeers, Started, StopBegin, UnregisterBegin, NotifyBegin,
                  NotifyOne, NoteRevision
    <3> QED BY <2>0, <3>1
  <2>4. ASSUME NEW p \in Procs, UnregisterSelf(p) \/ UnregisterFails(p) PROVE Goal
    <3>1. Goes(p, {"unregister"}, "leave") /\ NameOf[p] \in Names
      BY <2>4, ConstantFacts DEF UnregisterSelf, UnregisterFails
    <3>2. p # q
      BY <1>t, <2>s, <3>1 DEF Goes, MainTypes
    <3>3. \/ Own(p).value = AddrOf[p] /\ DeleteKey(NameOf[p])
          \/ UNCHANGED <<storeVars, events>>
      BY <2>4, Zenon DEF UnregisterSelf, UnregisterFails, Unregisterable
    <3>4. Own(p).value = AddrOf[p] => NameOf[p] # NameOf[q]
      BY <1>t, <2>k, <3>2, KeyOwner
    <3>5. DeleteKey(NameOf[p]) /\ NameOf[p] # NameOf[q] => Goal
      BY <1>t, <2>k, <3>1, DeleteOfOther
    <3> QED BY <2>0, <3>3, <3>4, <3>5
  <2>5. ASSUME NEW p \in Procs, UnregisterPanics(p) \/ Exit(p) \/ Crash(p) \/ OnOwnDelete(p) PROVE Goal
    <3>1. UNCHANGED storeVars /\ events' = [events EXCEPT ![p] = <<>>]
      BY <2>5 DEF UnregisterPanics, Exit, Crash, Ends, OnOwnDelete
    <3>2. events'[q] \in {events[q], <<>>}
      BY <1>t, <3>1 DEF QueuesType
    <3>3. NoLoss(<<>>, NameOf[q])
      BY DEF NoLoss
    <3> QED BY <2>k, <3>1, <3>2, <3>3 DEF Own, storeVars
  <2>6. ASSUME NEW p \in Procs, events[p] # <<>>
        PROVE  Consumed(p) \in QueuesType /\ NoLoss(Consumed(p)[q], NameOf[q])
    <3>1. /\ Consumed(p) \in QueuesType
          /\ Consumed(p)[q] = IF q = p THEN Tail(events[p]) ELSE events[q]
      BY <1>t, <2>6, ConsumedQueues
    <3>2. CASE q # p
      BY <2>k, <3>1, <3>2
    <3>3. CASE q = p
      <4>1. NoLoss(Tail(events[q]), NameOf[q])
        BY <1>q, <2>k, <2>6, <3>3, NoLossTail
      <4> QED BY <3>1, <3>3, <4>1
    <3> QED BY <3>2, <3>3
  <2>7. ASSUME NEW p \in Procs, OnKvPut(p) \/ OnKvDelete(p) PROVE Goal
    <3>1. UNCHANGED storeVars /\ events[p] # <<>> /\ events' = Consumed(p)
      BY <2>7 DEF OnKvPut, OnKvDelete, IsPut, IsDelete, HasEvent
    <3> QED BY <2>6, <3>1 DEF Own, storeVars
  <2>8. ASSUME NEW p \in Procs, ReRegister(p) PROVE Goal
    <3>1. IsOwnDelete(p) /\ ~IsNormalUnregisterSelf(p) /\ events[p] # <<>>
      BY <2>8 DEF ReRegister, IsOwnDelete, IsDelete, HasEvent
    <3>2. p # q
      BY <1>t, <2>s, <3>1, OwnDeleteTrouble
    <3>3. \/ ~Taken(p) /\ PutKey(p, Consumed(p))
          \/ UNCHANGED storeVars /\ events' = Consumed(p)
      BY <2>8, Zenon DEF ReRegister
    <3>4. CASE ~Taken(p) /\ PutKey(p, Consumed(p))
      BY <1>t, <2>k, <2>6, <3>1, <3>2, <3>4, PutByOther
    <3>5. CASE UNCHANGED storeVars /\ events' = Consumed(p)
      BY <2>6, <3>1, <3>5 DEF Own, storeVars
    <3> QED BY <3>3, <3>4, <3>5
  <2>9. ASSUME NEW m \in Names, LeaseExpires(m) PROVE Goal
    <3> DEFINE p == peerKey[m].lease
    <3>1. /\ DeleteKey(m) /\ p # NoProc
          /\ \/ stage[p] = "off"
             \/ trouble' = [trouble EXCEPT ![p] = IF @ = "none" THEN "expired" ELSE @]
      BY <2>9 DEF LeaseExpires
    <3>2. m # NameOf[q]
      <4> SUFFICES ASSUME m = NameOf[q] PROVE FALSE
        OBVIOUS
      <4>1. p = q
        BY <1>t, <2>k, <3>1, KeyOwner DEF Own
      <4> HIDE DEF p
      <4>2. trouble' = [trouble EXCEPT ![q] = IF @ = "none" THEN "expired" ELSE @]
        BY <2>s, <3>1, <4>1
      <4> QED BY <1>t, <2>s, <4>2 DEF MainTypes
    <3> QED BY <1>t, <2>k, <3>1, <3>2, DeleteOfOther
  <2> HIDE DEF Goal
  <2>10. Goal
    BY <1>2, <2>2, <2>3, <2>4, <2>5, <2>7, <2>8, <2>9, Zenon DEF PeersNext
  <2> QED BY <2>t, <2>k, <2>10 DEF Goal
<1> QED BY <1>1, <1>2

-----------------------------------------------------------------------------
(* The exit of a process.                                                  *)

\* A key becomes that of q only by q's own put.
LEMMA OwnValueStep ==
    ASSUME PeersTypeOK, KeyShape, PeersNext, NEW q \in Procs, Own(q)'.value = AddrOf[q]
    PROVE  \/ Own(q)' = Own(q)
           \/ RegisterSelf(q) \/ RegisterFails(q) \/ ReRegister(q)
<1>t. NameOf[q] \in Names /\ rev \in Nat /\ peerKey \in [Names -> KeyType]
      /\ AddrOf[q] # Unknown
  BY ConstantFacts DEF PeersTypeOK, KeyType
<1>0. UNCHANGED storeVars => Own(q)' = Own(q)
  BY DEF storeVars, Own
<1>1. ASSUME NEW m \in Names, DeleteKey(m) PROVE Own(q)' = Own(q)
  <2>1. \A n \in Names : peerKey'[n] = IF n = m THEN NoKey ELSE peerKey[n]
    BY <1>t, <1>1, DeleteKeys
  <2>2. NameOf[q] # m
    BY <1>t, <2>1 DEF NoKey, Own
  <2> QED BY <1>t, <2>1, <2>2 DEF Own
<1>2. ASSUME NEW p \in Procs, p # q, NEW queues, PutKey(p, queues) PROVE Own(q)' = Own(q)
  <2>1. /\ \A n \in Names : n # NameOf[p] => peerKey'[n] = peerKey[n]
        /\ peerKey'[NameOf[p]].value = AddrOf[p]
    BY <1>t, <1>2, PutKeys
  <2>2. NameOf[q] # NameOf[p]
    BY <1>2, <2>1, ConstantFacts DEF Own
  <2> QED BY <1>t, <2>1, <2>2 DEF Own
<1>3. ASSUME NEW n \in Names, LeaseExpires(n)
      PROVE  DeleteKey(n)
  BY <1>3 DEF LeaseExpires
<1>4. ASSUME NEW p \in Procs,
             \/ RegisterRefused(p) \/ InitPeers(p) \/ Started(p) \/ StopBegin(p)
             \/ UnregisterBegin(p) \/ UnregisterPanics(p) \/ Exit(p) \/ Crash(p)
             \/ NotifyBegin(p) \/ (\E n \in Names : NotifyOne(p, n)) \/ OnKvPut(p)
             \/ OnKvDelete(p) \/ OnOwnDelete(p) \/ NoteRevision(p)
      PROVE  UNCHANGED storeVars
  BY <1>4 DEF RegisterRefused, InitPeers, Started, StopBegin, UnregisterBegin, UnregisterPanics,
              Exit, Crash, Ends, NotifyBegin, NotifyOne, OnKvPut, OnKvDelete, OnOwnDelete,
              NoteRevision
<1>5. ASSUME NEW p \in Procs, RegisterSelf(p) \/ RegisterFails(p) \/ ReRegister(p)
      PROVE  UNCHANGED storeVars \/ (\E queues : PutKey(p, queues))
  BY <1>5, Zenon DEF RegisterSelf, RegisterFails, ReRegister
<1>6. ASSUME NEW p \in Procs, UnregisterSelf(p) \/ UnregisterFails(p)
      PROVE  UNCHANGED storeVars \/ (NameOf[p] \in Names /\ DeleteKey(NameOf[p]))
  <2>1. NameOf[p] \in Names
    BY ConstantFacts
  <2> QED BY <1>6, <2>1, Zenon DEF UnregisterSelf, UnregisterFails
<1>7. ASSUME NEW p \in Procs, p # q, RegisterSelf(p) \/ RegisterFails(p) \/ ReRegister(p)
      PROVE  Own(q)' = Own(q)
  BY <1>0, <1>2, <1>5, <1>7, Zenon
<1> QED BY <1>0, <1>1, <1>3, <1>4, <1>6, <1>7, Zenon DEF PeersNext

\* How a process without trouble got to the stages of its stop.
LEMMA StopsBefore ==
    ASSUME PeersIInv, PeersNext, NEW q \in Procs, stage'[q] \in {"stop", "unregister", "leave"},
           trouble'[q] = "none"
    PROVE  \/ RegisterRefused(q)
           \/ UnregisterSelf(q)
           \/ stage'[q] = "stop" /\ selfRevision'[q] # 0
           \/ /\ trouble[q] = "none" /\ selfRevision'[q] = selfRevision[q]
              /\ stage[q] = stage'[q] \/ (stage[q] = "stop" /\ stage'[q] = "unregister")
<1>t. MainTypes /\ StageShape /\ rev \in Nat
  BY Zenon DEF PeersIInv, PeersTypeOK, MainTypes
<1> DEFINE Stays == /\ trouble[q] = "none" /\ selfRevision'[q] = selfRevision[q]
                    /\ stage[q] = stage'[q] \/ (stage[q] = "stop" /\ stage'[q] = "unregister")
<1>1. ASSUME NEW p \in Procs, RegisterSelf(p) PROVE Stays
  <2>1. /\ Launch(p, "init") /\ UNCHANGED trouble
        /\ selfRevision' = [selfRevision EXCEPT ![p] = rev + 1]
    BY <1>1 DEF RegisterSelf
  <2> QED BY <1>t, <2>1 DEF Launch, Goes, MainTypes
<1>2. ASSUME NEW p \in Procs, RegisterRefused(p), p # q PROVE Stays
  <2>1. /\ Launch(p, "stop") /\ UNCHANGED <<trouble, selfRevision>>
    BY <1>2 DEF RegisterRefused
  <2> QED BY <1>t, <1>2, <2>1 DEF Launch, Goes, MainTypes
<1>3. ASSUME NEW p \in Procs, RegisterFails(p) PROVE Stays
  <2>1. /\ Launch(p, "stop") /\ UNCHANGED selfRevision
        /\ trouble' = [trouble EXCEPT ![p] = "failed"]
    BY <1>3 DEF RegisterFails
  <2> QED BY <1>t, <2>1 DEF Launch, Goes, MainTypes
<1>4. ASSUME NEW p \in Procs, InitPeers(p) \/ Started(p) \/ UnregisterBegin(p) PROVE Stays
  <2>1. /\ UNCHANGED <<selfRevision, trouble>>
        /\ \/ stage' = [stage EXCEPT ![p] = "ready"] \/ stage' = [stage EXCEPT ![p] = "up"]
           \/ stage[p] = "stop" /\ stage' = [stage EXCEPT ![p] = "unregister"]
    BY <1>4 DEF InitPeers, Started, UnregisterBegin, Goes, memory
  <2> QED BY <1>t, <2>1 DEF MainTypes
<1>5. ASSUME NEW p \in Procs, StopBegin(p) PROVE Stays \/ (stage'[q] = "stop" /\ selfRevision'[q] # 0)
  <2>1. /\ stage[p] \in {"ready", "up"} /\ stage' = [stage EXCEPT ![p] = "stop"]
        /\ UNCHANGED <<selfRevision, trouble>>
    BY <1>5 DEF StopBegin, Goes, memory
  <2> QED BY <1>t, <2>1 DEF MainTypes, StageShape, Member
<1>6. ASSUME NEW p \in Procs, UnregisterSelf(p), p # q PROVE Stays
  <2>1. Goes(p, {"unregister"}, "leave") /\ UNCHANGED <<selfRevision, trouble>>
    BY <1>6 DEF UnregisterSelf, memory
  <2> QED BY <1>t, <1>6, <2>1 DEF Goes, MainTypes
<1>7. ASSUME NEW p \in Procs, UnregisterFails(p) PROVE Stays
  <2>1. /\ Goes(p, {"unregister"}, "leave") /\ UNCHANGED selfRevision
        /\ trouble' = [trouble EXCEPT ![p] = "failed"]
    BY <1>7 DEF UnregisterFails, memory
  <2> QED BY <1>t, <2>1 DEF Goes, MainTypes
<1>8. ASSUME NEW p \in Procs, UnregisterPanics(p) \/ Exit(p) \/ Crash(p) PROVE Stays
  <2>1. Ends(p)
    BY <1>8 DEF UnregisterPanics, Exit, Crash
  <2> QED BY <1>t, <2>1 DEF Ends, MainTypes
<1>9. ASSUME NEW p \in Procs,
             \/ NotifyBegin(p) \/ (\E n \in Names : NotifyOne(p, n))
             \/ OnKvPut(p) \/ OnKvDelete(p) \/ OnOwnDelete(p)
      PROVE  Stays
  <2>1. UNCHANGED <<stage, selfRevision, trouble>>
    BY <1>9 DEF NotifyBegin, NotifyOne, OnKvPut, OnKvDelete, OnOwnDelete
  <2> QED BY <2>1
<1>10. ASSUME NEW p \in Procs, ReRegister(p) PROVE Stays
  <2>1. /\ UNCHANGED <<stage, selfRevision>>
        /\ UNCHANGED trouble \/ trouble' = [trouble EXCEPT ![p] = "failed"]
    BY <1>10 DEF ReRegister
  <2> QED BY <1>t, <2>1 DEF MainTypes
<1>11. ASSUME NEW p \in Procs, NoteRevision(p) PROVE Stays
  BY <1>t, <1>11 DEF NoteRevision, MainTypes, StageShape
<1>12. ASSUME NEW n \in Names, LeaseExpires(n) PROVE Stays
  <2> DEFINE p == peerKey[n].lease
  <2>1. UNCHANGED <<stage, selfRevision>>
    BY <1>12 DEF LeaseExpires, memory
  <2>2. \/ UNCHANGED trouble
        \/ trouble' = [trouble EXCEPT ![p] = IF @ = "none" THEN "expired" ELSE @]
    BY <1>12 DEF LeaseExpires
  <2> HIDE DEF p
  <2>3. trouble[q] # "none" => trouble'[q] # "none"
    BY <1>t, <2>2 DEF MainTypes
  <2> QED BY <2>1, <2>3
<1> HIDE DEF Stays
<1>13. Stays \/ RegisterRefused(q) \/ UnregisterSelf(q) \/ (stage'[q] = "stop" /\ selfRevision'[q] # 0)
  BY <1>1, <1>2, <1>3, <1>4, <1>5, <1>6, <1>7, <1>8, <1>9, <1>10, <1>11, <1>12, Zenon DEF PeersNext
<1> QED BY <1>13 DEF Stays

\* A process without trouble does not put its key while it stops.
LEMMA NoPutInStop ==
    ASSUME PeersIInv, PeersNext, NEW q \in Procs, stage'[q] \in {"stop", "unregister", "leave"},
           trouble'[q] = "none", Own(q)'.value = AddrOf[q]
    PROVE  Own(q)' = Own(q)
<1>t. /\ PeersTypeOK /\ KeyShape /\ StageShape /\ CleanHasKey /\ MainTypes /\ rev \in Nat
  BY Zenon DEF PeersIInv, PeersTypeOK, MainTypes
<1>1. ~RegisterSelf(q)
  <2>1. RegisterSelf(q) => stage' = [stage EXCEPT ![q] = "init"]
    BY DEF RegisterSelf, Launch, Goes
  <2> QED BY <1>t, <2>1 DEF MainTypes
<1>2. ~RegisterFails(q)
  <2>1. RegisterFails(q) => trouble' = [trouble EXCEPT ![q] = "failed"]
    BY DEF RegisterFails
  <2> QED BY <1>t, <2>1 DEF MainTypes
<1>3. ~ReRegister(q)
  <2> SUFFICES ASSUME ReRegister(q) PROVE FALSE
    OBVIOUS
  <2>1. IsOwnDelete(q) /\ ~IsNormalUnregisterSelf(q)
        /\ (UNCHANGED trouble \/ trouble' = [trouble EXCEPT ![q] = "failed"])
    BY DEF ReRegister
  <2>2. trouble[q] # "none"
    BY <1>t, <2>1, OwnDeleteTrouble
  <2> QED BY <1>t, <2>1, <2>2 DEF MainTypes
<1> QED BY <1>t, <1>1, <1>2, <1>3, OwnValueStep

\* A process that was refused does not get the key.
LEMMA RefusedStep ==
    ASSUME PeersIInv, PeersNext
    PROVE  RefusedHasNone'
<1> SUFFICES ASSUME NEW q \in Procs, stage'[q] \in {"stop", "unregister"}, selfRevision'[q] = 0,
                    trouble'[q] = "none", Own(q)'.value = AddrOf[q]
             PROVE  FALSE
  BY DEF RefusedHasNone
<1>t. MainTypes /\ RefusedHasNone
  BY Zenon DEF PeersIInv, PeersTypeOK, MainTypes
<1>1. Own(q)' = Own(q)
  BY NoPutInStop
<1>2. ~RegisterRefused(q)
  <2>1. RegisterRefused(q) => Own(q).value # AddrOf[q]
    BY DEF RegisterRefused, Taken
  <2> QED BY <1>1, <2>1
<1>3. ~UnregisterSelf(q)
  <2>1. UnregisterSelf(q) => stage' = [stage EXCEPT ![q] = "leave"]
    BY DEF UnregisterSelf, Goes
  <2> QED BY <1>t, <2>1 DEF MainTypes
<1>4. /\ trouble[q] = "none" /\ selfRevision[q] = 0 /\ stage[q] \in {"stop", "unregister"}
  BY <1>2, <1>3, StopsBefore
<1> QED BY <1>t, <1>1, <1>4 DEF RefusedHasNone

\* An exit in order leaves no key of the process, or one it had written over.
LEMMA ExitStep ==
    ASSUME PeersIInv, PeersNext
    PROVE  ExitReleasesKey'
<1> SUFFICES ASSUME NEW q \in Procs, stage'[q] = "leave", trouble'[q] = "none",
                    Own(q)'.value = AddrOf[q]
             PROVE  Own(q)'.mod # Own(q)'.create
  BY DEF ExitReleasesKey
<1>t. /\ MainTypes /\ PeersTypeOK /\ KeyShape /\ StageShape
      /\ RefusedHasNone /\ CleanHasKey /\ ExitReleasesKey
      /\ rev \in Nat /\ peerKey \in [Names -> KeyType] /\ NameOf[q] \in Names
      /\ AddrOf[q] # Unknown
  BY ConstantFacts, Zenon DEF PeersIInv, PeersTypeOK, MainTypes, KeyType
<1>1. Own(q)' = Own(q)
  BY NoPutInStop
<1>2. ~RegisterRefused(q)
  <2>1. RegisterRefused(q) => stage' = [stage EXCEPT ![q] = "stop"]
    BY DEF RegisterRefused, Launch, Goes
  <2> QED BY <1>t, <2>1 DEF MainTypes
<1>3. CASE UnregisterSelf(q)
  <2>1. /\ stage[q] = "unregister" /\ UNCHANGED trouble
        /\ DeleteKey(NameOf[q]) \/ ~Unregisterable(q)
    BY <1>3 DEF UnregisterSelf, Goes
  <2>2. ~DeleteKey(NameOf[q])
    <3>1. DeleteKey(NameOf[q]) => peerKey'[NameOf[q]] = NoKey
      BY <1>t, DeleteKeys
    <3> QED BY <1>t, <3>1 DEF NoKey, Own
  <2>3. Own(q).create # selfRevision[q]
    BY <1>1, <2>1, <2>2 DEF Unregisterable
  <2>4. selfRevision[q] # 0
    BY <1>t, <1>1, <2>1 DEF RefusedHasNone
  <2>5. Own(q).mod = selfRevision[q]
    BY <1>t, <2>1, <2>4 DEF CleanHasKey, Clean
  <2> QED BY <1>1, <2>3, <2>5
<1>4. CASE ~UnregisterSelf(q)
  <2>1. stage[q] = "leave" /\ trouble[q] = "none"
    BY <1>2, <1>4, StopsBefore
  <2> QED BY <1>t, <1>1, <2>1 DEF ExitReleasesKey
<1> QED BY <1>3, <1>4

\* A watch that has ended stays silent.
LEMMA SilentStep ==
    ASSUME PeersTypeOK, CancelledIsSilent, PeersNext
    PROVE  CancelledIsSilent'
<1> SUFFICES ASSUME NEW q \in Procs, cancelled'[q] PROVE events'[q] = <<>>
  BY Zenon DEF CancelledIsSilent
<1>t. events \in QueuesType /\ cancelled \in [Procs -> BOOLEAN]
  BY Zenon DEF PeersTypeOK, QueuesType, Ev
<1>1. ASSUME NEW p \in Procs, OnOwnDelete(p), ~cancelled[q] PROVE events'[q] = <<>>
  <2>1. cancelled' = [cancelled EXCEPT ![p] = TRUE]
    BY <1>1, Zenon DEF OnOwnDelete
  <2>2. p = q
    BY <1>t, <1>1, <2>1, Zenon
  <2>3. events' = [events EXCEPT ![p] = <<>>]
    BY <1>1 DEF OnOwnDelete
  <2> QED BY <1>t, <2>2, <2>3 DEF QueuesType
<1>2. CASE cancelled[q]
  <2>1. events[q] = <<>> /\ ~Listening(q)
    BY <1>2, Zenon DEF CancelledIsSilent, Listening
  <2>2. CASE UNCHANGED events
    BY <2>1, <2>2
  <2>3. ASSUME NEW n \in Names, NEW v \in Addrs \cup {NoAddr}, Broadcast(events, n, v)
        PROVE  events'[q] = <<>>
    <3>1. events'[q] = events[q]
      BY <1>t, <2>1, <2>3, BroadcastQueues
    <3> QED BY <2>1, <3>1
  <2>4. ASSUME NEW p \in Procs, events[p] # <<>>
        PROVE  Consumed(p)[q] = <<>> /\ Consumed(p) \in QueuesType
    BY <1>t, <2>1, <2>4, ConsumedQueues
  <2>5. ASSUME NEW p \in Procs, NEW n \in Names, NEW v \in Addrs \cup {NoAddr},
               events[p] # <<>>, Broadcast(Consumed(p), n, v)
        PROVE  events'[q] = <<>>
    <3>1. events'[q] = Consumed(p)[q]
      BY <2>1, <2>4, <2>5, BroadcastQueues
    <3> QED BY <2>4, <2>5, <3>1
  <2>6. ASSUME NEW p \in Procs, events' = [events EXCEPT ![p] = <<>>]
        PROVE  events'[q] = <<>>
    BY <1>t, <2>1, <2>6 DEF QueuesType
  <2> QED BY <2>1, <2>2, <2>3, <2>4, <2>5, <2>6, QueueSteps, Zenon
<1>3. CASE ~cancelled[q]
  <2>1. ASSUME NEW p \in Procs, cancelled' = [cancelled EXCEPT ![p] = FALSE] PROVE FALSE
    BY <1>t, <1>3, <2>1, Zenon
  <2>2. \E p \in Procs : OnOwnDelete(p)
    BY <1>3, <2>1, CancelSteps, Zenon
  <2> QED BY <1>1, <1>3, <2>2
<1> QED BY <1>2, <1>3

-----------------------------------------------------------------------------
(* The peer registry.                                                      *)

\* Every step of a process or of the store keeps the invariant.
LEMMA PeersStep ==
    ASSUME PeersIInv, PeersNext \/ UNCHANGED peerVars
    PROVE  PeersIInv'
<1>1. CASE PeersNext
  <2>1. PeersTypeOK /\ KeyShape /\ StageShape /\ CancelledIsSilent /\ Follow(events, peers)
    BY DEF PeersIInv
  <2>2. PeersTypeOK' /\ KeyShape' /\ CancelledIsSilent'
    BY <1>1, <2>1, PeersTypeStep, KeysStep, SilentStep
  <2>3. Follow(events, peers)'
    BY <1>1, <2>1, FollowStep
  <2>4. StageShape' /\ CleanHasKey' /\ RefusedHasNone' /\ ExitReleasesKey'
    BY <1>1, StageStep, CleanStep, RefusedStep, ExitStep
  <2> QED BY <2>2, <2>3, <2>4, Zenon DEF PeersIInv
<1>2. CASE UNCHANGED peerVars
  <2>1. /\ UNCHANGED <<rev, peerKey, stage, watch, toNotify, cancelled, selfRevision, reply, peers>>
        /\ UNCHANGED <<trouble, events, starts, expiries>>
    BY <1>2 DEF peerVars, storeVars, procVars, budget
  <2>2. PeersTypeOK'
    BY <2>1, Zenon DEF PeersIInv, PeersTypeOK
  <2>3. /\ KeyShape' /\ StageShape' /\ RefusedHasNone' /\ ExitReleasesKey' /\ CleanHasKey'
        /\ CancelledIsSilent'
    BY <2>1, Zenon DEF PeersIInv, CancelledIsSilent, KeyShape, Exists, StageShape, Member, RefusedHasNone, Own,
             ExitReleasesKey, CleanHasKey, Clean
  <2>4. Follow(events, peers)'
    BY <2>1, Zenon DEF PeersIInv, Follow, Listening, Tells, Shows, Exists
  <2> QED BY <2>2, <2>3, <2>4, Zenon DEF PeersIInv
<1> QED BY <1>1, <1>2

\* The initial state.
LEMMA PeersStart ==
    ASSUME PeersInit
    PROVE  PeersIInv
<1>1. PeersTypeOK
  <2>1. NoKey \in KeyType
    BY DEF NoKey, KeyType
  <2>2. <<>> \in Seq(Ev)
    BY EmptySeq
  <2>3. cancelled \in [Procs -> BOOLEAN]
    BY Zenon DEF PeersInit
  <2>4. peerKey \in [Names -> KeyType] /\ rev \in Nat /\ events \in QueuesType
    BY <2>1, <2>2 DEF PeersInit, QueuesType
  <2>5. MainTypes /\ peers \in ViewType
    BY ConstantFacts DEF PeersInit, MainTypes, Stages, ViewType
  <2>6. \A p \in Procs : events[p] = <<>> /\ reply[p] = 0
    BY DEF PeersInit
  <2> QED BY <2>3, <2>4, <2>5, <2>6, Zenon DEF PeersTypeOK, KeyType, QueuesType, Ev, ViewType, MainTypes
<1>2. KeyShape
  BY DEF PeersInit, KeyShape
<1>3. StageShape /\ RefusedHasNone /\ ExitReleasesKey /\ CleanHasKey
  BY DEF PeersInit, StageShape, Member, RefusedHasNone, ExitReleasesKey, CleanHasKey, Clean
<1>4. Follow(events, peers) /\ CancelledIsSilent
  BY DEF PeersInit, Follow, Listening, CancelledIsSilent
<1> QED BY <1>1, <1>2, <1>3, <1>4 DEF PeersIInv

-----------------------------------------------------------------------------
(* The gateway.                                                            *)

\* What the proofs use of the constants of the gateway.
LEMMA GatewayFacts ==
    /\ Gateway \in Procs /\ Gateway \in Observers /\ NameOf[Gateway] \notin Halls
    /\ \A h \in Halls : h \in Names /\ h \in Follows[Gateway]
  BY PeerRegistryAssumption, UpstreamAssumption

\* A step of the system is a step of the peer registry, or none of its own.
LEMMA NextPeers ==
    ASSUME Next
    PROVE  PeersNext \/ UNCHANGED peerVars
<1>1. ASSUME NEW p \in Procs, PeerStep(p) \/ OtherStep(p) PROVE PeersNext
  BY <1>1, Zenon DEF PeerStep, OtherStep, WatchSteps, StartStop, OtherWatch, Dies, PeersNext
<1>2. ASSUME NEW n \in Names, LeaseExpires(n) PROVE PeersNext
  BY <1>2, Zenon DEF PeersNext
<1>3. ASSUME GatewayWatch PROVE PeersNext
  BY <1>3, GatewayFacts, Zenon DEF GatewayWatch, WatchPut, WatchDelete, Notify, PeersNext
<1>4. ASSUME GatewayEnds PROVE PeersNext
  BY <1>4, GatewayFacts, Zenon DEF GatewayEnds, Dies, PeersNext
<1>5. ASSUME NEW h \in Halls, Serve(h) PROVE UNCHANGED peerVars
  BY <1>5, Zenon DEF Serve, ServeStream, ServeInfo, InfoFails, ServeClosed, Serves
<1> QED BY <1>1, <1>2, <1>3, <1>4, <1>5, Zenon DEF Next

UpstreamType == [addr : Addrs \cup {NoAddr, Unknown}, open : BOOLEAN,
                 at : {"none", "stream", "info", "ready", "ended"}]

\* The record of an upstream, by its fields.
LEMMA UpstreamFields ==
    /\ NoUpstream \in UpstreamType
    /\ NoUpstream.addr = Unknown /\ NoUpstream.at = "none"
    /\ \A a \in Addrs \cup {NoAddr, Unknown} :
          /\ [addr |-> a, at |-> "stream", open |-> TRUE] \in UpstreamType
          /\ [addr |-> a, at |-> "stream", open |-> TRUE].addr = a
          /\ [addr |-> a, at |-> "stream", open |-> TRUE].at = "stream"
          /\ [addr |-> a, at |-> "stream", open |-> TRUE].open = TRUE
  BY DEF NoUpstream, UpstreamType

UpTypes == upstreams \in [Halls -> UpstreamType] /\ strays \in [Halls -> Nat] /\ raced \in SUBSET Halls

\* OnPeerAdd.
LEMMA AddTypes ==
    ASSUME UpTypes, NEW h \in Halls, NEW a \in Addrs \cup {NoAddr, Unknown}, OnPeerAdd(h, a)
    PROVE  upstreams' \in [Halls -> UpstreamType] /\ strays' \in [Halls -> Nat]
<1>t. upstreams[h] \in UpstreamType /\ strays[h] \in Nat
  BY DEF UpTypes
<1>1. CASE ~InMap(h)
  <2>1. /\ upstreams' = [upstreams EXCEPT ![h] = [addr |-> a, at |-> "stream", open |-> TRUE]]
        /\ UNCHANGED strays
    BY <1>1 DEF OnPeerAdd
  <2>2. [addr |-> a, at |-> "stream", open |-> TRUE] \in UpstreamType
    BY UpstreamFields
  <2> QED BY <2>1, <2>2, Zenon DEF UpTypes
<1>2. CASE InMap(h)
  <2>1. /\ upstreams' = [upstreams EXCEPT ![h].open = FALSE]
        /\ strays' = [strays EXCEPT ![h] = @ + 1]
    BY <1>2 DEF OnPeerAdd
  <2>2. strays' \in [Halls -> Nat]
    BY <1>t, <2>1 DEF UpTypes
  <2>3. upstreams' \in [Halls -> UpstreamType]
    BY <1>t, <2>1 DEF UpTypes, UpstreamType
  <2> QED BY <2>2, <2>3
<1> QED BY <1>1, <1>2

\* The map keeps its type.
LEMMA UpTypesStep ==
    ASSUME UpTypes, PeersTypeOK, Next
    PROVE  UpTypes'
<1>t. /\ \A h \in Halls : upstreams[h] \in UpstreamType
      /\ \A h \in Halls : peers[Gateway][h] \in Addrs \cup {NoAddr, Unknown}
      /\ events \in QueuesType
  BY GatewayFacts DEF UpTypes, PeersTypeOK, QueuesType, Ev
<1>0. ASSUME UNCHANGED upVars PROVE UpTypes'
  BY <1>0 DEF upVars, UpTypes
<1>1. ASSUME NEW h \in Halls, NoteRace(h) PROVE raced' \in SUBSET Halls
  BY <1>1 DEF NoteRace, UpTypes
<1>2. ASSUME WatchPut PROVE UpTypes'
  <2> DEFINE h == Event(Gateway).name
  <2>1. CASE h \notin Halls
    BY <1>0, <1>2, <2>1 DEF WatchPut
  <2>2. CASE h \in Halls
    <3>1. NoteRace(h) /\ (OnPeerAdd(h, Event(Gateway).value) \/ UNCHANGED <<upstreams, strays>>)
      BY <1>2, <2>2 DEF WatchPut
    <3>2. Event(Gateway).value \in Addrs \cup {NoAddr, Unknown}
      <4>1. events[Gateway] # <<>>
        BY <1>2 DEF WatchPut, OnKvPut, IsPut, HasEvent
      <4>2. Event(Gateway) \in Ev
        BY <1>t, <4>1, GatewayFacts, ConsumedQueues
      <4> QED BY <4>2 DEF Ev
    <3> HIDE DEF h
    <3>3. upstreams' \in [Halls -> UpstreamType] /\ strays' \in [Halls -> Nat]
      <4>1. CASE OnPeerAdd(h, Event(Gateway).value)
        BY <2>2, <3>2, <4>1, AddTypes
      <4>2. CASE UNCHANGED <<upstreams, strays>>
        BY <4>2 DEF UpTypes
      <4> QED BY <3>1, <4>1, <4>2
    <3> QED BY <1>1, <2>2, <3>1, <3>3 DEF UpTypes
  <2> QED BY <2>1, <2>2
<1>3. ASSUME WatchDelete PROVE UpTypes'
  <2> DEFINE h == Event(Gateway).name
  <2>1. CASE h \notin Halls
    BY <1>0, <1>3, <2>1 DEF WatchDelete
  <2>2. CASE h \in Halls
    <3>1. NoteRace(h) /\ (OnPeerDelete(h) \/ UNCHANGED <<upstreams, strays>>)
      BY <1>3, <2>2 DEF WatchDelete
    <3> HIDE DEF h
    <3>3. upstreams' \in [Halls -> UpstreamType] /\ strays' \in [Halls -> Nat]
      <4>1. CASE OnPeerDelete(h)
        BY <2>2, <4>1, UpstreamFields, Zenon DEF UpTypes, OnPeerDelete
      <4>2. CASE UNCHANGED <<upstreams, strays>>
        BY <4>2 DEF UpTypes
      <4> QED BY <3>1, <4>1, <4>2
    <3> QED BY <1>1, <2>2, <3>1, <3>3 DEF UpTypes
  <2> QED BY <2>1, <2>2
<1>4. ASSUME NEW n \in Names, Notify(n) PROVE UpTypes'
  <2>1. raced' = raced
    BY <1>4 DEF Notify
  <2>2. CASE n \in Halls /\ OnPeerAdd(n, peers[Gateway][n])
    BY <1>t, <2>1, <2>2, AddTypes DEF UpTypes
  <2>3. CASE UNCHANGED <<upstreams, strays>>
    BY <2>1, <2>3 DEF UpTypes
  <2> QED BY <1>4, <2>2, <2>3 DEF Notify
<1>5. ASSUME GatewayEnds PROVE UpTypes'
  BY <1>5, UpstreamFields DEF GatewayEnds, UpTypes
<1>6. ASSUME NEW h \in Halls, NEW from, NEW to \in {"info", "ready", "ended"}, Serves(h, from, to)
      PROVE  UpTypes'
  <2>1. /\ upstreams' = [upstreams EXCEPT ![h].at = to, ![h].open = IF to = "ended" THEN FALSE ELSE @]
        /\ UNCHANGED <<strays, raced>>
    BY <1>6 DEF Serves
  <2>3. upstreams' \in [Halls -> UpstreamType]
    BY <1>t, <2>1 DEF UpTypes, UpstreamType
  <2> QED BY <2>1, <2>3 DEF UpTypes
<1>7. ASSUME NEW h \in Halls, Serve(h) PROVE UpTypes'
  BY <1>6, <1>7 DEF Serve, ServeStream, ServeInfo, InfoFails, ServeClosed
<1>8. ASSUME NEW p \in Procs, PeerStep(p) \/ OtherStep(p) PROVE UpTypes'
  BY <1>0, <1>8 DEF PeerStep, OtherStep
<1> QED BY <1>0, <1>2, <1>3, <1>4, <1>5, <1>7, <1>8, Zenon DEF Next, GatewayWatch

\* Nothing of hall h changes.
LEMMA TrackedFrame ==
    ASSUME NEW h \in Halls, Tracked(h), upstreams'[h] = upstreams[h], strays'[h] = strays[h],
           peers'[Gateway][h] = peers[Gateway][h], Visited(h)' <=> Visited(h)
    PROVE  Tracked(h)'
  BY Zenon DEF Tracked

\* A step that is not the gateway's.
LEMMA TrackedOther ==
    ASSUME NEW h \in Halls, Tracked(h), UNCHANGED <<upstreams, strays>>,
           peers'[Gateway][h] = peers[Gateway][h],
           watch'[Gateway] = watch[Gateway], toNotify'[Gateway] = toNotify[Gateway]
    PROVE  Tracked(h)'
<1>1. Visited(h)' <=> Visited(h)
  BY DEF Visited
<1> QED BY <1>1, TrackedFrame

\* The memory of the gateway after a step of another process.
LEMMA OtherMemory ==
    ASSUME PeersTypeOK, NEW p \in Procs, p # Gateway, PeerStep(p) \/ OtherStep(p)
    PROVE  /\ peers'[Gateway] = peers[Gateway] /\ watch'[Gateway] = watch[Gateway]
           /\ toNotify'[Gateway] = toNotify[Gateway]
<1>t. /\ Gateway \in Procs /\ peers \in ViewType
      /\ watch \in [Procs -> {"none", "known", "watching", "notify", "done"}]
      /\ toNotify \in [Procs -> SUBSET Names]
  BY GatewayFacts, Zenon DEF PeersTypeOK, ViewType
<1> DEFINE Same == /\ peers'[Gateway] = peers[Gateway] /\ watch'[Gateway] = watch[Gateway]
                   /\ toNotify'[Gateway] = toNotify[Gateway]
<1>1. ASSUME \/ RegisterSelf(p) \/ RegisterRefused(p) \/ RegisterFails(p) \/ StopBegin(p)
             \/ UnregisterBegin(p) \/ UnregisterSelf(p) \/ UnregisterFails(p) \/ NoteRevision(p)
      PROVE  Same
  <2>1. UNCHANGED <<peers, watch, toNotify>>
    BY <1>1 DEF RegisterSelf, RegisterRefused, RegisterFails, Launch, StopBegin, UnregisterBegin,
                UnregisterSelf, UnregisterFails, NoteRevision, memory
  <2> QED BY <2>1
<1>2. ASSUME InitPeers(p) PROVE Same
  <2>1. /\ UNCHANGED toNotify /\ watch' = [watch EXCEPT ![p] = "known"]
        /\ \E e : peers' = [peers EXCEPT ![p] = e]
    BY <1>2 DEF InitPeers
  <2> QED BY <1>t, <2>1 DEF ViewType
<1>3. ASSUME Started(p) PROVE Same
  <2>1. UNCHANGED <<peers, toNotify>> /\ \E e : watch' = [watch EXCEPT ![p] = e]
    BY <1>3 DEF Started, memory
  <2> QED BY <1>t, <2>1
<1>4. ASSUME NotifyBegin(p) PROVE Same
  <2>1. /\ UNCHANGED peers /\ (\E e : watch' = [watch EXCEPT ![p] = e])
        /\ (\E e : toNotify' = [toNotify EXCEPT ![p] = e])
    BY <1>4 DEF NotifyBegin
  <2> QED BY <1>t, <2>1
<1>5. ASSUME Forget(p), UNCHANGED <<watch, toNotify>> PROVE Same
  <2>1. \E e, n : peers' = [peers EXCEPT ![p][n] = e]
    BY <1>5 DEF Forget
  <2>2. peers'[Gateway] = peers[Gateway]
    BY <1>t, <2>1 DEF ViewType
  <2> QED BY <1>5, <2>2
<1>6. ASSUME OnKvPut(p) PROVE Same
  <2>1. UNCHANGED <<watch, toNotify>> /\ \E e, n : peers' = [peers EXCEPT ![p][n] = e]
    BY <1>6 DEF OnKvPut
  <2>2. peers'[Gateway] = peers[Gateway]
    BY <1>t, <2>1 DEF ViewType
  <2> QED BY <2>1, <2>2
<1>7. ASSUME OnKvDelete(p) \/ OnOwnDelete(p) \/ ReRegister(p)
      PROVE  Forget(p) /\ UNCHANGED <<watch, toNotify>>
  BY <1>7, Zenon DEF OnKvDelete, OnOwnDelete, ReRegister
<1>8. ASSUME Dies(p) PROVE Same
  <2>1. /\ watch' = [watch EXCEPT ![p] = "none"] /\ toNotify' = [toNotify EXCEPT ![p] = {}]
        /\ \E e : peers' = [peers EXCEPT ![p] = e]
    BY <1>8 DEF Dies, UnregisterPanics, Exit, Crash, Ends
  <2> QED BY <1>t, <2>1 DEF ViewType
<1> HIDE DEF Same
<1>9. Same
  BY <1>1, <1>2, <1>3, <1>4, <1>5, <1>6, <1>7, <1>8, Zenon
  DEF PeerStep, OtherStep, WatchSteps, StartStop, OtherWatch
<1> QED BY <1>9 DEF Same

\* The gateway's own start, stop, own key and the start of notify.
LEMMA TrackedOwn ==
    ASSUME PeersIInv, NEW h \in Halls, Tracked(h), PeerStep(Gateway)
    PROVE  Tracked(h)'
<1>t. /\ Gateway \in Procs /\ peers \in ViewType /\ h \in Names /\ h \in Follows[Gateway]
      /\ MainTypes /\ PeersTypeOK /\ StageShape /\ NameOf[Gateway] # h /\ Gateway \in Observers
  BY GatewayFacts, Zenon DEF PeersIInv, PeersTypeOK, ViewType, MainTypes
<1>0. UNCHANGED <<upstreams, strays>>
  BY DEF PeerStep, upVars
<1>1. ASSUME \/ RegisterSelf(Gateway) \/ RegisterRefused(Gateway) \/ RegisterFails(Gateway)
             \/ StopBegin(Gateway) \/ UnregisterBegin(Gateway) \/ UnregisterSelf(Gateway)
             \/ UnregisterFails(Gateway) \/ NoteRevision(Gateway)
      PROVE  Tracked(h)'
  <2>1. UNCHANGED <<peers, watch, toNotify>>
    BY <1>1 DEF RegisterSelf, RegisterRefused, RegisterFails, Launch, StopBegin, UnregisterBegin,
                UnregisterSelf, UnregisterFails, NoteRevision, memory
  <2> QED BY <1>0, <2>1, TrackedOther
<1>2. ASSUME InitPeers(Gateway) PROVE Tracked(h)'
  <2>1. /\ stage[Gateway] = "init" /\ watch' = [watch EXCEPT ![Gateway] = "known"]
        /\ peers' = [peers EXCEPT ![Gateway] =
                        [n \in Names |-> IF n \in Follows[Gateway] THEN peerKey[n].value ELSE Unknown]]
    BY <1>2 DEF InitPeers, Goes
  <2>2. peers'[Gateway][h] = peerKey[h].value
    BY <1>t, <2>1 DEF ViewType
  <2>3. peerKey[h].value # NoAddr
    <3>1. peerKey[h].value \in Addrs \cup {Unknown}
      BY <1>t DEF PeersTypeOK
    <3> QED BY <3>1, ConstantFacts
  <2>4. ~Visited(h) /\ ~Visited(h)'
    BY <1>t, <2>1 DEF Visited, StageShape, MainTypes
  <2> QED BY <1>0, <2>2, <2>3, <2>4 DEF Tracked
<1>3. ASSUME Started(Gateway) PROVE Tracked(h)'
  <2>1. /\ stage[Gateway] = "ready" /\ watch' = [watch EXCEPT ![Gateway] = "watching"]
        /\ UNCHANGED peers
    BY <1>t, <1>3 DEF Started, Goes, memory
  <2>2. ~Visited(h) /\ ~Visited(h)'
    BY <1>t, <2>1 DEF Visited, StageShape, MainTypes
  <2> QED BY <1>0, <2>1, <2>2, TrackedFrame
<1>4. ASSUME NotifyBegin(Gateway) PROVE Tracked(h)'
  <2>1. /\ watch[Gateway] = "watching" /\ toNotify' = [toNotify EXCEPT ![Gateway] = Follows[Gateway]]
        /\ UNCHANGED peers
    BY <1>4 DEF NotifyBegin
  <2>2. ~Visited(h) /\ ~Visited(h)'
    BY <1>t, <2>1 DEF Visited, MainTypes
  <2> QED BY <1>0, <2>1, <2>2, TrackedFrame
<1>5. ASSUME OnOwnDelete(Gateway) \/ ReRegister(Gateway) PROVE Tracked(h)'
  <2>1. /\ UNCHANGED <<watch, toNotify>> /\ IsDelete(Gateway) /\ Forget(Gateway)
        /\ Event(Gateway).name = NameOf[Gateway]
    BY <1>5, Zenon DEF OnOwnDelete, ReRegister, IsOwnDelete
  <2>2. peers'[Gateway][h] = Seen(Gateway, h)
    BY <1>t, <2>1, SeenEntries
  <2>3. peers'[Gateway][h] = peers[Gateway][h]
    BY <1>t, <2>1, <2>2 DEF Seen
  <2> QED BY <1>0, <2>1, <2>3, TrackedOther
<1> QED BY <1>1, <1>2, <1>3, <1>4, <1>5, Zenon DEF PeerStep, WatchSteps, StartStop

\* The entry of every hall after an event of the gateway.
LEMMA GatewayEvent ==
    ASSUME PeersTypeOK, OnKvPut(Gateway) \/ OnKvDelete(Gateway), NEW h \in Halls
    PROVE  /\ peers'[Gateway][h] = Seen(Gateway, h)
           /\ UNCHANGED <<watch, toNotify>> /\ HasEvent(Gateway)
           /\ Event(Gateway).value \in Addrs \cup {NoAddr}
           /\ Visited(h)' <=> Visited(h)
           /\ ~Early(h) => Visited(h) /\ IsNotify(Gateway)
<1>1. /\ Gateway \in Procs /\ h \in Names
      /\ OnKvPut(Gateway) \/ (IsDelete(Gateway) /\ Forget(Gateway))
  BY GatewayFacts, Zenon DEF OnKvDelete
<1>2. peers'[Gateway][h] = Seen(Gateway, h)
  BY <1>1, SeenEntries
<1>3. UNCHANGED <<watch, toNotify>> /\ HasEvent(Gateway)
  BY DEF OnKvPut, OnKvDelete, IsPut, IsDelete
<1>4. ~Early(h) => Visited(h) /\ IsNotify(Gateway)
  BY <1>3 DEF Early, Visited, IsNotify, HasEvent
<1>5. Visited(h)' <=> Visited(h)
  BY <1>3 DEF Visited
<1>6. Event(Gateway).value \in Addrs \cup {NoAddr}
  <2>1. events \in QueuesType /\ events[Gateway] # <<>>
    BY <1>3 DEF PeersTypeOK, QueuesType, Ev, HasEvent
  <2>2. Event(Gateway) \in Ev
    BY <1>1, <2>1, ConsumedQueues
  <2> QED BY <2>2 DEF Ev
<1> QED BY <1>2, <1>3, <1>4, <1>5, <1>6

\* A put that the gateway's watch delivers.
LEMMA TrackedPut ==
    ASSUME PeersIInv, UpTypes, NEW h \in Halls, Tracked(h), h \notin raced', WatchPut
    PROVE  Tracked(h)'
<1> DEFINE g == Event(Gateway).name
           v == Event(Gateway).value
<1>t. /\ Gateway \in Procs /\ OnKvPut(Gateway) /\ PeersTypeOK /\ v # NoAddr
      /\ h \in Names /\ h \in Follows[Gateway]
  BY GatewayFacts DEF WatchPut, OnKvPut, IsPut, PeersIInv
<1>1. /\ peers'[Gateway][h] = Seen(Gateway, h) /\ HasEvent(Gateway)
      /\ v \in Addrs \cup {NoAddr}
      /\ Visited(h)' <=> Visited(h)
      /\ ~Early(h) => Visited(h) /\ IsNotify(Gateway)
  BY <1>t, GatewayEvent
<1>2. CASE g # h
  <2>1. peers'[Gateway][h] = peers[Gateway][h]
    BY <1>1, <1>2 DEF Seen
  <2>2. \/ UNCHANGED <<upstreams, strays>>
        \/ g \in Halls /\ OnPeerAdd(g, v)
    BY DEF WatchPut, upVars
  <2>3. upstreams'[h] = upstreams[h] /\ strays'[h] = strays[h]
    BY <1>2, <2>2 DEF OnPeerAdd, UpTypes
  <2> QED BY <1>1, <2>1, <2>3, TrackedFrame
<1>3. CASE g = h
  <2> DEFINE a == peers[Gateway][h]
  <2>1. /\ NoteRace(h)
        /\ IF h \in Added(Gateway) THEN OnPeerAdd(h, v) ELSE UNCHANGED <<upstreams, strays>>
    BY <1>3 DEF WatchPut
  <2>2. ~Early(h)
    BY <2>1 DEF NoteRace
  <2>3. Visited(h) /\ Visited(h)' /\ IsNotify(Gateway)
    BY <1>1, <2>2
  <2>4. peers'[Gateway][h] = v /\ v \notin {NoAddr, Unknown}
    BY <1>t, <1>1, <1>3, ConstantFacts DEF Seen
  <2>5. h \in Added(Gateway) <=> a \in {NoAddr, Unknown}
    BY <1>3, <2>3 DEF Added
  <2>6. CASE a \in {NoAddr, Unknown}
    <3>1. ~InMap(h) /\ strays[h] = 0
      BY <2>3, <2>6 DEF Tracked, InMap
    <3>2. /\ upstreams' = [upstreams EXCEPT ![h] = [addr |-> v, at |-> "stream", open |-> TRUE]]
          /\ UNCHANGED strays
      BY <2>1, <2>5, <2>6, <3>1 DEF OnPeerAdd
    <3>3. upstreams'[h] = [addr |-> v, at |-> "stream", open |-> TRUE]
      BY <3>2 DEF UpTypes
    <3>4. upstreams'[h].addr = v /\ upstreams'[h].at = "stream" /\ upstreams'[h].open = TRUE
      BY <3>3
    <3> HIDE DEF v, g, a
    <3> QED BY <2>3, <2>4, <3>1, <3>2, <3>4 DEF Tracked
  <2>7. CASE a \notin {NoAddr, Unknown}
    <3>1. UNCHANGED <<upstreams, strays>>
      BY <2>1, <2>5, <2>7
    <3>2. a = v
      <4>1. events[Gateway] # <<>> /\ events[Gateway] \in Seq(Ev)
        BY <1>t, <1>1 DEF HasEvent, PeersTypeOK, Ev
      <4>2. Listening(Gateway)
        <5>1. ~cancelled[Gateway]
          BY <1>t, <4>1, Zenon DEF PeersIInv, CancelledIsSilent
        <5> QED BY <1>1, <5>1 DEF Listening, HasEvent
      <4>3. Chained(events[Gateway], h, a)
        BY <1>t, <4>2, Zenon DEF PeersIInv, Follow
      <4>4. a \in {NoAddr, Unknown, v}
        BY <1>t, <1>3, <4>1, <4>3, ChainedHead DEF Event
      <4> QED BY <2>7, <4>4
    <3>3. peers'[Gateway][h] = peers[Gateway][h]
      BY <2>4, <3>2
    <3> QED BY <1>1, <3>1, <3>3, TrackedFrame
  <2> QED BY <2>6, <2>7
<1> QED BY <1>2, <1>3

\* A deletion that it delivers.
LEMMA TrackedDelete ==
    ASSUME PeersIInv, UpTypes, NEW h \in Halls, Tracked(h), h \notin raced', WatchDelete
    PROVE  Tracked(h)'
<1> DEFINE g == Event(Gateway).name
<1>t. /\ Gateway \in Procs /\ OnKvDelete(Gateway) /\ PeersTypeOK /\ Event(Gateway).value = NoAddr
      /\ h \in Names
  BY GatewayFacts DEF WatchDelete, OnKvDelete, IsDelete, PeersIInv
<1>1. /\ peers'[Gateway][h] = Seen(Gateway, h)
      /\ Visited(h)' <=> Visited(h)
      /\ ~Early(h) => Visited(h)
  BY <1>t, GatewayEvent
<1>2. CASE g # h
  <2>1. peers'[Gateway][h] = peers[Gateway][h]
    BY <1>1, <1>2 DEF Seen
  <2>2. \/ UNCHANGED <<upstreams, strays>>
        \/ g \in Halls /\ OnPeerDelete(g)
    BY DEF WatchDelete, upVars
  <2>3. upstreams'[h] = upstreams[h] /\ strays'[h] = strays[h]
    BY <1>2, <2>2 DEF OnPeerDelete, UpTypes
  <2> QED BY <1>1, <2>1, <2>3, TrackedFrame
<1>3. CASE g = h
  <2> DEFINE a == peers[Gateway][h]
  <2>1. /\ NoteRace(h)
        /\ IF a # Unknown THEN OnPeerDelete(h) ELSE UNCHANGED <<upstreams, strays>>
    BY <1>3 DEF WatchDelete, Deleted
  <2>2. ~Early(h)
    BY <2>1 DEF NoteRace
  <2>3. Visited(h) /\ Visited(h)'
    BY <1>1, <2>2
  <2>4. peers'[Gateway][h] = IF a = Unknown THEN Unknown ELSE NoAddr
    BY <1>t, <1>1, <1>3 DEF Seen
  <2>5. CASE a = Unknown
    BY <1>1, <2>1, <2>4, <2>5, TrackedFrame
  <2>6. CASE a # Unknown
    <3>1. upstreams'[h] = NoUpstream /\ strays'[h] = strays[h]
      BY <2>1, <2>6 DEF OnPeerDelete, UpTypes
    <3> QED BY <2>3, <2>4, <2>6, <3>1 DEF Tracked
  <2> QED BY <2>5, <2>6
<1> QED BY <1>2, <1>3

\* A step of notify.
LEMMA TrackedNotify ==
    ASSUME PeersIInv, UpTypes, NEW h \in Halls, Tracked(h), NEW n \in Names, Notify(n)
    PROVE  Tracked(h)'
<1>t. /\ Gateway \in Procs /\ MainTypes /\ NotifyOne(Gateway, n) /\ h \in Names
      /\ peers[Gateway][h] \in Addrs \cup {NoAddr, Unknown}
  BY GatewayFacts DEF PeersIInv, PeersTypeOK, MainTypes, Notify
<1>1. /\ watch[Gateway] = "notify" /\ n \in toNotify[Gateway] /\ UNCHANGED peers
      /\ toNotify'[Gateway] = toNotify[Gateway] \ {n} /\ watch'[Gateway] \in {"notify", "done"}
  BY <1>t DEF NotifyOne, MainTypes
<1>2. CASE h # n
  <2>1. \/ UNCHANGED <<upstreams, strays>>
        \/ n \in Halls /\ OnPeerAdd(n, peers[Gateway][n])
    BY DEF Notify
  <2>2. upstreams'[h] = upstreams[h] /\ strays'[h] = strays[h]
    BY <1>2, <2>1 DEF OnPeerAdd, UpTypes
  <2>3. Visited(h)' <=> Visited(h)
    BY <1>1, <1>2 DEF Visited
  <2> QED BY <1>1, <2>2, <2>3, TrackedFrame
<1>3. CASE h = n
  <2> DEFINE a == peers[Gateway][h]
  <2>1. ~Visited(h) /\ Visited(h)' /\ peers'[Gateway][h] = a
    BY <1>1, <1>3 DEF Visited
  <2>2. upstreams[h] = NoUpstream /\ strays[h] = 0 /\ a # NoAddr
    BY <2>1 DEF Tracked
  <2>3. CASE a = Unknown
    <3>1. UNCHANGED <<upstreams, strays>>
      BY <1>3, <2>3 DEF Notify
    <3> QED BY <2>1, <2>2, <2>3, <3>1 DEF Tracked
  <2>4. CASE a # Unknown
    <3>1. OnPeerAdd(h, a)
      BY <1>3, <2>4 DEF Notify
    <3>2. /\ upstreams' = [upstreams EXCEPT ![h] = [addr |-> a, at |-> "stream", open |-> TRUE]]
          /\ UNCHANGED strays
      BY <2>2, <3>1 DEF OnPeerAdd, InMap
    <3>3. upstreams'[h] = [addr |-> a, at |-> "stream", open |-> TRUE]
      BY <3>2 DEF UpTypes
    <3>4. upstreams'[h].addr = a /\ upstreams'[h].at = "stream" /\ upstreams'[h].open = TRUE
      BY <3>3
    <3> HIDE DEF a
    <3> QED BY <2>1, <2>2, <2>4, <3>2, <3>4 DEF Tracked
  <2> QED BY <2>3, <2>4
<1> QED BY <1>2, <1>3

\* A step of serve.
LEMMA TrackedServe ==
    ASSUME PeersIInv, UpTypes, NEW h \in Halls, Tracked(h), NEW g \in Halls, Serve(g)
    PROVE  Tracked(h)'
<1>1. PICK from \in {"stream", "info", "ready"}, to \in {"info", "ready", "ended"} :
          Serves(g, from, to) /\ (upstreams[g].open \/ to = "ended")
  BY Zenon DEF Serve, ServeStream, ServeInfo, InfoFails, ServeClosed
<1>2. /\ upstreams[g].at = from /\ UNCHANGED <<peers, watch, toNotify, strays>>
      /\ upstreams' = [upstreams EXCEPT ![g].at = to, ![g].open = IF to = "ended" THEN FALSE ELSE @]
  BY <1>1 DEF Serves, peerVars, procVars
<1>3. CASE g # h
  <2>1. upstreams'[h] = upstreams[h]
    BY <1>2, <1>3 DEF UpTypes
  <2> QED BY <1>2, <2>1, TrackedFrame DEF Visited
<1>4. CASE g = h
  <2>1. upstreams[h] # NoUpstream
    BY <1>2, <1>4, UpstreamFields
  <2>2. /\ Visited(h) /\ peers[Gateway][h] \notin {NoAddr, Unknown} /\ strays[h] = 0
        /\ upstreams[h].addr = peers[Gateway][h]
    BY <2>1 DEF Tracked
  <2>3. upstreams[h] \in UpstreamType
    BY DEF UpTypes
  <2>4. /\ upstreams'[h].addr = upstreams[h].addr /\ upstreams'[h].at = to
        /\ to # "ended" => upstreams'[h].open = upstreams[h].open
    BY <1>2, <1>4, <2>3 DEF UpTypes, UpstreamType
  <2>5. upstreams'[h].open \/ upstreams'[h].at = "ended"
    BY <1>1, <1>4, <2>4
  <2>6. Visited(h)'
    BY <1>2, <2>2 DEF Visited
  <2> QED BY <1>2, <2>2, <2>4, <2>5, <2>6 DEF Tracked
<1> QED BY <1>3, <1>4

\* The end of the gateway.
LEMMA TrackedEnds ==
    ASSUME PeersIInv, NEW h \in Halls, GatewayEnds
    PROVE  Tracked(h)' /\ toNotify'[Gateway] = {}
<1>t. /\ Gateway \in Procs /\ h \in Names /\ peers \in ViewType /\ MainTypes
  BY GatewayFacts, Zenon DEF PeersIInv, PeersTypeOK, ViewType, MainTypes
<1>1. /\ upstreams'[h] = NoUpstream /\ strays'[h] = 0 /\ Ends(Gateway)
  BY DEF GatewayEnds, Dies, Exit, Crash, UnregisterPanics
<1>2. peers'[Gateway][h] = Unknown
  BY <1>t, <1>1 DEF Ends, ViewType
<1>3. watch'[Gateway] = "none" /\ toNotify'[Gateway] = {}
  BY <1>t, <1>1 DEF Ends, MainTypes
<1>4. ~Visited(h)'
  BY <1>3 DEF Visited
<1> QED BY <1>1, <1>2, <1>3, <1>4, ConstantFacts DEF Tracked

\* Outside the Range of notify there is nothing to visit.
LEMMA NotifyStep ==
    ASSUME PeersIInv, watch[Gateway] # "notify" => toNotify[Gateway] = {}, Next
    PROVE  watch'[Gateway] # "notify" => toNotify'[Gateway] = {}
<1>t. /\ Gateway \in Procs /\ MainTypes /\ PeersTypeOK /\ StageShape
  BY GatewayFacts, Zenon DEF PeersIInv, PeersTypeOK, MainTypes
<1> DEFINE Goal == watch'[Gateway] # "notify" => toNotify'[Gateway] = {}
<1>0. ASSUME watch'[Gateway] = watch[Gateway], toNotify'[Gateway] = toNotify[Gateway] PROVE Goal
  BY <1>0
<1>1. ASSUME NEW p \in Procs, p # Gateway, PeerStep(p) \/ OtherStep(p) PROVE Goal
  BY <1>t, <1>0, <1>1, OtherMemory
<1>2. ASSUME UNCHANGED <<watch, toNotify>> PROVE Goal
  BY <1>0, <1>2
<1>3. ASSUME \/ RegisterSelf(Gateway) \/ RegisterRefused(Gateway) \/ RegisterFails(Gateway)
             \/ StopBegin(Gateway) \/ UnregisterBegin(Gateway) \/ UnregisterSelf(Gateway)
             \/ UnregisterFails(Gateway) \/ NoteRevision(Gateway) \/ OnKvPut(Gateway)
             \/ OnKvDelete(Gateway) \/ OnOwnDelete(Gateway) \/ ReRegister(Gateway)
      PROVE  UNCHANGED <<watch, toNotify>>
  BY <1>3 DEF RegisterSelf, RegisterRefused, RegisterFails, Launch, StopBegin, UnregisterBegin,
              UnregisterSelf, UnregisterFails, NoteRevision, memory, OnKvPut, OnKvDelete, OnOwnDelete,
              ReRegister
<1>4. ASSUME InitPeers(Gateway) \/ Started(Gateway) PROVE Goal
  <2>1. UNCHANGED toNotify /\ stage[Gateway] \in {"init", "ready"}
    BY <1>4 DEF InitPeers, Started, Goes, memory
  <2>2. watch[Gateway] # "notify"
    BY <1>t, <2>1 DEF StageShape
  <2> QED BY <2>1, <2>2
<1>5. ASSUME NotifyBegin(Gateway) PROVE Goal
  BY <1>t, <1>5 DEF NotifyBegin, MainTypes
<1>6. ASSUME NEW n \in Names, NotifyOne(Gateway, n) PROVE Goal
  <2>1. /\ watch[Gateway] = "notify" /\ toNotify'[Gateway] = toNotify[Gateway] \ {n}
        /\ watch'[Gateway] = IF toNotify[Gateway] = {n} THEN "done" ELSE watch[Gateway]
    BY <1>t, <1>6 DEF NotifyOne, MainTypes
  <2> QED BY <2>1
<1>7. ASSUME Dies(Gateway) PROVE Goal
  <2>1. toNotify' = [toNotify EXCEPT ![Gateway] = {}]
    BY <1>7 DEF Dies, UnregisterPanics, Exit, Crash, Ends
  <2> QED BY <1>t, <2>1 DEF MainTypes
<1>8. ASSUME NEW n \in Names, LeaseExpires(n) PROVE UNCHANGED <<watch, toNotify>>
  BY <1>8 DEF LeaseExpires, memory
<1>9. ASSUME NEW h \in Halls, Serve(h) PROVE UNCHANGED <<watch, toNotify>>
  <2>1. UNCHANGED peerVars
    BY <1>9, Zenon DEF Serve, ServeStream, ServeInfo, InfoFails, ServeClosed, Serves
  <2> QED BY <2>1 DEF peerVars, procVars
<1> HIDE DEF Goal
<1>10. ASSUME PeerStep(Gateway) PROVE Goal
  BY <1>2, <1>3, <1>4, <1>5, <1>10, Zenon DEF PeerStep, WatchSteps, StartStop
<1>11. ASSUME GatewayWatch PROVE Goal
  BY <1>2, <1>3, <1>6, <1>11, Zenon DEF GatewayWatch, WatchPut, WatchDelete, Notify
<1>12. ASSUME GatewayEnds PROVE Goal
  BY <1>7, <1>12, Zenon DEF GatewayEnds
<1>13. ~OtherStep(Gateway)
  BY DEF OtherStep
<1>14. Goal
  BY <1>1, <1>2, <1>8, <1>9, <1>10, <1>11, <1>12, <1>13, Zenon DEF Next
<1> QED BY <1>14 DEF Goal

\* Every hall that did not race with notify stays tracked.
LEMMA TrackedStep ==
    ASSUME PeersIInv, UpTypes, \A h \in Halls \ raced : Tracked(h), Next
    PROVE  \A h \in Halls \ raced' : Tracked(h)'
<1> SUFFICES ASSUME NEW h \in Halls, h \notin raced' PROVE Tracked(h)'
  OBVIOUS
<1>t. PeersTypeOK /\ h \in Names
  BY GatewayFacts DEF PeersIInv
<1>1. CASE GatewayEnds
  BY <1>1, TrackedEnds
<1>2. CASE ~GatewayEnds
  <2>1. raced \subseteq raced'
    <3>1. ASSUME NEW g \in Halls, Serve(g) PROVE UNCHANGED raced
      BY <3>1, Zenon DEF Serve, ServeStream, ServeInfo, InfoFails, ServeClosed, Serves
    <3>2. GatewayWatch => raced \subseteq raced'
      BY DEF GatewayWatch, WatchPut, WatchDelete, Notify, NoteRace, upVars
    <3>3. \A p \in Procs : PeerStep(p) \/ OtherStep(p) => UNCHANGED raced
      BY DEF PeerStep, OtherStep, upVars
    <3>4. UNCHANGED upVars => UNCHANGED raced
      BY DEF upVars
    <3>5. UNCHANGED raced \/ raced \subseteq raced'
      BY <1>2, <3>1, <3>2, <3>3, <3>4, Zenon DEF Next
    <3> QED BY <3>5
  <2>2. Tracked(h)
    BY <2>1
  <2>3. ASSUME NEW p \in Procs, p # Gateway, PeerStep(p) \/ OtherStep(p) PROVE Tracked(h)'
    <3>1. /\ peers'[Gateway] = peers[Gateway] /\ watch'[Gateway] = watch[Gateway]
          /\ toNotify'[Gateway] = toNotify[Gateway]
      BY <1>t, <2>3, OtherMemory
    <3>2. UNCHANGED <<upstreams, strays>>
      BY <2>3 DEF PeerStep, OtherStep, upVars
    <3> QED BY <2>2, <3>1, <3>2, TrackedOther
  <2>4. PeerStep(Gateway) => Tracked(h)'
    BY <2>2, TrackedOwn
  <2>5. ASSUME NEW n \in Names, LeaseExpires(n), UNCHANGED upVars PROVE Tracked(h)'
    <3>1. UNCHANGED <<peers, watch, toNotify, upstreams, strays>>
      BY <2>5 DEF LeaseExpires, memory, upVars
    <3> QED BY <2>2, <3>1, TrackedOther
  <2>6. WatchPut => Tracked(h)'
    BY <2>2, TrackedPut
  <2>7. WatchDelete => Tracked(h)'
    BY <2>2, TrackedDelete
  <2>8. \A n \in Names : Notify(n) => Tracked(h)'
    BY <2>2, TrackedNotify
  <2>9. \A g \in Halls : Serve(g) => Tracked(h)'
    BY <2>2, TrackedServe
  <2>10. ~OtherStep(Gateway)
    BY DEF OtherStep
  <2> QED BY <1>2, <2>3, <2>4, <2>5, <2>6, <2>7, <2>8, <2>9, <2>10, Zenon DEF Next, GatewayWatch
<1> QED BY <1>1, <1>2

-----------------------------------------------------------------------------
(* The theorems.                                                           *)

\* The state has its shape, every key is one that its process wrote, entries
\* and events to come lead to the keys, and a hall that did not race with
\* notify has the upstream of its entry (peer.go, upstream.go).
THEOREM UpstreamInvariant == Spec => []UpIInv
<1>1. Init => UpIInv
  <2> SUFFICES ASSUME Init PROVE UpIInv
    OBVIOUS
  <2>1. PeersIInv /\ PeersTypeOK
    BY PeersStart DEF Init, PeersIInv
  <2>2. UpTypes
    BY UpstreamFields DEF Init, UpInit, UpTypes
  <2>3. watch[Gateway] # "notify" => toNotify[Gateway] = {}
    BY GatewayFacts DEF Init, PeersInit
  <2>4. ASSUME NEW h \in Halls PROVE Tracked(h)
    <3>1. upstreams[h] = NoUpstream /\ strays[h] = 0
      BY DEF Init, UpInit
    <3>2. watch[Gateway] = "none" /\ peers[Gateway][h] = Unknown
      BY GatewayFacts DEF Init, PeersInit
    <3> QED BY <3>1, <3>2, ConstantFacts DEF Tracked, Visited
  <2> QED BY <2>1, <2>2, <2>3, <2>4, Zenon DEF UpIInv, TypeOK, UpTypes, UpstreamType
<1>2. UpIInv /\ [Next]_vars => UpIInv'
  <2> SUFFICES ASSUME UpIInv, [Next]_vars PROVE UpIInv'
    OBVIOUS
  <2>t. /\ PeersIInv /\ PeersTypeOK /\ UpTypes /\ \A h \in Halls \ raced : Tracked(h)
        /\ watch[Gateway] # "notify" => toNotify[Gateway] = {}
    BY Zenon DEF UpIInv, TypeOK, UpTypes, UpstreamType
  <2>1. CASE Next
    <3>1. PeersIInv' /\ PeersTypeOK'
      <4>1. PeersIInv'
        BY <2>t, <2>1, NextPeers, PeersStep
      <4> QED BY <4>1 DEF PeersIInv
    <3>2. UpTypes'
      BY <2>t, <2>1, UpTypesStep
    <3>3. watch'[Gateway] # "notify" => toNotify'[Gateway] = {}
      BY <2>t, <2>1, NotifyStep
    <3>4. \A h \in Halls \ raced' : Tracked(h)'
      BY <2>t, <2>1, TrackedStep
    <3> QED BY <3>1, <3>2, <3>3, <3>4, Zenon DEF UpIInv, TypeOK, UpTypes, UpstreamType
  <2>2. CASE UNCHANGED vars
    <3>0. UNCHANGED peerVars /\ UNCHANGED <<upstreams, strays, raced>>
      BY <2>2 DEF vars, upVars
    <3>1. PeersIInv'
      BY <2>t, <3>0, PeersStep
    <3>2. UNCHANGED <<peers, watch, toNotify>>
      BY <3>0 DEF peerVars, procVars
    <3>3. PeersTypeOK' /\ UpTypes'
      BY <2>t, <3>0, <3>1, Zenon DEF PeersIInv, UpTypes
    <3>4. \A h \in Halls \ raced' : Tracked(h)'
      BY <2>t, <3>0, <3>2, TrackedOther
    <3> QED BY <2>t, <3>1, <3>2, <3>3, <3>4, Zenon DEF UpIInv, TypeOK, UpTypes, UpstreamType
  <2> QED BY <2>1, <2>2
<1> QED BY <1>1, <1>2, PTL DEF Spec

\* A view without events to come is the registered one, and a process without
\* trouble is the only one of its name (peer.go:348, 464).
THEOREM ViewsAndNamesAgree == Spec => []PeersInv
<1>1. UpIInv => PeersInv
  <2> SUFFICES ASSUME UpIInv PROVE PeersInv
    OBVIOUS
  <2>t. /\ TypeOK /\ PeersTypeOK /\ KeyShape /\ StageShape /\ CleanHasKey /\ Follow(events, peers)
    BY DEF UpIInv, PeersIInv
  <2>1. ViewCaughtUp
    <3> SUFFICES ASSUME NEW p \in Procs, NEW n \in Follows[p], Listening(p), events[p] = <<>>
                 PROVE  IF Exists(n) THEN peers[p][n] = peerKey[n].value
                        ELSE peers[p][n] \in {NoAddr, Unknown}
      BY DEF ViewCaughtUp
    <3>1. Agrees(<<>>, n, peers[p][n], Tells(n), Shows(n))
      BY <2>t DEF Follow
    <3>2. peers[p][n] \in Shows(n)
      BY <3>1, AgreesEmpty
    <3> QED BY <3>2 DEF Shows
  <2>2. OneServerPerName
    <3> SUFFICES ASSUME NEW p \in Procs, NEW q \in Procs, NameOf[p] = NameOf[q], Member(p), Member(q),
                        trouble[p] = "none", trouble[q] = "none"
                 PROVE  p = q
      BY DEF OneServerPerName
    <3>1. Clean(p) /\ Clean(q)
      BY <2>t DEF Clean, Member, StageShape
    <3>2. Own(p).value = AddrOf[p] /\ Own(q).value = AddrOf[q]
      BY <2>t, <3>1 DEF CleanHasKey
    <3> QED BY <3>2, ConstantFacts DEF Own
  <2> QED BY <2>t, <2>1, <2>2 DEF PeersInv
<1> QED BY <1>1, UpstreamInvariant, PTL

\* A stop in order finds the key of the process and leaves none (peer.go:381).
THEOREM StopAlwaysReleasesKey == Spec => []StopReleasesKey
<1>1. UpIInv => StopReleasesKey
  <2> SUFFICES ASSUME UpIInv PROVE StopReleasesKey
    OBVIOUS
  <2>t. PeersTypeOK /\ KeyShape /\ CleanHasKey /\ ExitReleasesKey
    BY DEF UpIInv, PeersIInv
  <2>1. ASSUME NEW p \in Procs, stage[p] = "unregister", selfRevision[p] # 0, trouble[p] = "none"
        PROVE  Exists(NameOf[p])
    <3>1. Own(p).value = AddrOf[p]
      BY <2>t, <2>1 DEF CleanHasKey, Clean
    <3> QED BY <2>t, <3>1, KeyOwner
  <2> QED BY <2>t, <2>1 DEF StopReleasesKey, StopFindsKey
<1> QED BY <1>1, UpstreamInvariant, PTL

\* When the gateway has seen all events, its map holds an open upstream at the
\* registered address for exactly the registered halls, but for the halls that
\* raced with notify (upstream.go:98, registry.go:100-116).
THEOREM UpstreamsAlwaysFollowPeers == Spec => []UpstreamsFollowPeers
<1>1. UpIInv => UpstreamsFollowPeers
  <2> SUFFICES ASSUME UpIInv, NEW h \in Halls \ raced, CaughtUp
               PROVE  /\ strays[h] = 0
                      /\ InMap(h) <=> Exists(h)
                      /\ InMap(h) => /\ upstreams[h].addr = peerKey[h].value
                                     /\ upstreams[h].open \/ upstreams[h].at = "ended"
    BY DEF UpstreamsFollowPeers
  <2>t. /\ PeersTypeOK /\ Follow(events, peers) /\ Tracked(h)
        /\ watch[Gateway] # "notify" => toNotify[Gateway] = {}
        /\ Gateway \in Procs /\ h \in Names /\ h \in Follows[Gateway]
    BY GatewayFacts DEF UpIInv, PeersIInv
  <2>1. /\ Listening(Gateway) /\ events[Gateway] = <<>> /\ Visited(h)
    BY <2>t DEF CaughtUp, Visited
  <2>2. Agrees(<<>>, h, peers[Gateway][h], Tells(h), Shows(h))
    BY <2>t, <2>1 DEF Follow
  <2>3. peers[Gateway][h] \in Shows(h)
    BY <2>2, AgreesEmpty
  <2>4. CASE Exists(h)
    <3>1. peers[Gateway][h] = peerKey[h].value
      BY <2>3, <2>4 DEF Shows
    <3>2. peers[Gateway][h] \notin {NoAddr, Unknown}
      <4>1. peerKey[h] # NoKey
        BY <2>4 DEF Exists, NoKey
      <4>2. \E p \in Procs : peerKey[h].value = AddrOf[p]
        BY <2>t, <4>1 DEF UpIInv, PeersIInv, KeyShape
      <4> QED BY <3>1, <4>2, ConstantFacts
    <3>3. /\ upstreams[h].addr = peerKey[h].value /\ upstreams[h].at # "none"
          /\ upstreams[h].open \/ upstreams[h].at = "ended"
          /\ strays[h] = 0
      BY <2>t, <2>1, <3>1, <3>2 DEF Tracked
    <3>4. InMap(h)
      BY <3>3, UpstreamFields DEF InMap
    <3> QED BY <2>4, <3>3, <3>4
  <2>5. CASE ~Exists(h)
    <3>1. peers[Gateway][h] \in {NoAddr, Unknown}
      BY <2>3, <2>5 DEF Shows
    <3>2. upstreams[h] = NoUpstream /\ strays[h] = 0
      BY <2>t, <2>1, <3>1 DEF Tracked
    <3> QED BY <2>5, <3>2 DEF InMap
  <2> QED BY <2>4, <2>5
<1> QED BY <1>1, UpstreamInvariant, PTL
=============================================================================
