----------------------- MODULE ServiceRegistryProofs -----------------------
(* The service registry finds what is registered, and leaves nothing behind. *)
(*                                                                           *)
(* The trie first: what add, delete and search do to the set of paths. Then  *)
(* the peer registry, as far as it carries the services: a process that has  *)
(* a service registry has the key of its name, so that no two of one name    *)
(* are active. Then the invariant SvcIInv, process by process and action by  *)
(* action: a step of a process that changes no key leaves the others as they *)
(* are (OthersSame, ProcFrame), and a step that changes a key sends every    *)
(* listening process an event after all others (ViewPut, ViewRelease).       *)
(*                                                                           *)
(* The theorems are for every set of processes, names and services, and for  *)
(* every bound, where every name has one process (OneDeployment) or no lease *)
(* and no commit is lost (Steady).                                           *)
EXTENDS ServiceRegistry, SequenceTheorems, TLAPS

-----------------------------------------------------------------------------
(* The trie.                                                               *)

\* A prefix, by its words.
LEMMA PrefixAt ==
    ASSUME NEW W, NEW s \in Seq(W), NEW t \in Seq(W)
    PROVE  IsPrefix(s, t) <=> Len(s) <= Len(t) /\ \A i \in 1 .. Len(s) : s[i] = t[i]
<1>1. /\ Len(s) \in Nat /\ Len(t) \in Nat
      /\ \A i \in 1 .. Len(s) : s[i] \in W
      /\ \A i \in 1 .. Len(t) : t[i] \in W
  BY LenProperties, ElementOfSeq
<1>2. SubSeq(s, 1, Len(s)) = s
  BY SubSeqFull
<1>3. ASSUME Len(s) <= Len(t)
      PROVE  /\ SubSeq(t, 1, Len(s)) \in Seq(W) /\ Len(SubSeq(t, 1, Len(s))) = Len(s)
             /\ \A i \in 1 .. Len(s) : SubSeq(t, 1, Len(s))[i] = t[i]
  <2>1. 1 \in Int /\ Len(s) \in Int /\ \A i \in 1 .. Len(s) : t[i] \in W
    BY <1>1, <1>3
  <2> DEFINE u == SubSeq(t, 1, Len(s))
  <2>2. /\ u \in Seq(W) /\ Len(u) = IF 1 <= Len(s) THEN Len(s) - 1 + 1 ELSE 0
        /\ \A i \in 1 .. Len(s) - 1 + 1 : u[i] = t[1 + i - 1]
    BY <2>1, SubSeqProperties
  <2> HIDE DEF u
  <2>3. \A i \in 1 .. Len(s) : 1 + i - 1 = i /\ i \in 1 .. Len(s) - 1 + 1
    BY <1>1
  <2>4. u \in Seq(W) /\ Len(u) = Len(s) /\ \A i \in 1 .. Len(s) : u[i] = t[i]
    BY <1>1, <2>2, <2>3
  <2> QED BY <2>4 DEF u
<1>4. ASSUME Len(s) <= Len(t)
      PROVE  s = SubSeq(t, 1, Len(s)) <=> \A i \in 1 .. Len(s) : s[i] = t[i]
  <2> DEFINE u == SubSeq(t, 1, Len(s))
  <2>1. u \in Seq(W) /\ Len(u) = Len(s) /\ \A i \in 1 .. Len(s) : u[i] = t[i]
    BY <1>3, <1>4
  <2> HIDE DEF u
  <2>2. (\A i \in 1 .. Len(s) : s[i] = t[i]) => s = u
    BY <2>1, SeqEqual
  <2> QED BY <2>1, <2>2 DEF u
<1> QED BY <1>2, <1>4 DEF IsPrefix

\* To be a prefix is a partial order.
LEMMA PrefixOrder ==
    ASSUME NEW W, NEW s \in Seq(W)
    PROVE  /\ IsPrefix(s, s)
           /\ \A t, u \in Seq(W) : IsPrefix(s, t) /\ IsPrefix(t, u) => IsPrefix(s, u)
<1>1. \A t \in Seq(W) : Len(t) \in Nat
  BY LenProperties
<1>2. IsPrefix(s, s)
  BY <1>1, PrefixAt
<1>3. ASSUME NEW t \in Seq(W), NEW u \in Seq(W), IsPrefix(s, t), IsPrefix(t, u)
      PROVE  IsPrefix(s, u)
  <2>1. /\ Len(s) <= Len(t) /\ \A i \in 1 .. Len(s) : s[i] = t[i]
        /\ Len(t) <= Len(u) /\ \A i \in 1 .. Len(t) : t[i] = u[i]
    BY <1>3, PrefixAt
  <2>2. Len(s) <= Len(u) /\ \A i \in 1 .. Len(s) : s[i] = u[i]
    BY <1>1, <2>1
  <2> QED BY <2>2, PrefixAt
<1> QED BY <1>2, <1>3

\* The nodes on the way to a path are its prefixes.
LEMMA NodesAre ==
    ASSUME NEW W, NEW path \in Seq(W), NEW n
    PROVE  n \in NodesTo(path) <=> n \in Seq(W) /\ n # <<>> /\ IsPrefix(n, path)
<1>1. Len(path) \in Nat /\ \A i \in 1 .. Len(path) : path[i] \in W
  BY LenProperties, ElementOfSeq
<1>2. ASSUME NEW l \in 0 .. Len(path)
      PROVE  /\ SubSeq(path, 1, l) \in Seq(W)
             /\ IsPrefix(SubSeq(path, 1, l), path)
  <2>1. 1 \in Int /\ l \in Int /\ \A i \in 1 .. l : path[i] \in W
    BY <1>1
  <2> DEFINE u == SubSeq(path, 1, l)
  <2>2. /\ u \in Seq(W) /\ Len(u) = IF 1 <= l THEN l - 1 + 1 ELSE 0
        /\ \A i \in 1 .. l - 1 + 1 : u[i] = path[1 + i - 1]
    BY <2>1, SubSeqProperties
  <2> HIDE DEF u
  <2>3. \A i \in 1 .. l : 1 + i - 1 = i /\ i \in 1 .. l - 1 + 1
    BY <1>1
  <2>4. u \in Seq(W) /\ Len(u) = l /\ \A i \in 1 .. l : u[i] = path[i]
    BY <1>1, <2>2, <2>3
  <2>5. IsPrefix(u, path)
    BY <1>1, <2>4, PrefixAt
  <2> QED BY <2>4, <2>5 DEF u
<1>3. ASSUME n \in Seq(W), IsPrefix(n, path)
      PROVE  Len(n) \in 0 .. Len(path) /\ n = SubSeq(path, 1, Len(n))
  <2>1. Len(n) \in Nat /\ Len(n) <= Len(path)
    BY <1>3, LenProperties DEF IsPrefix
  <2>2. SubSeq(n, 1, Len(n)) = n
    BY <1>3, SubSeqFull
  <2> QED BY <1>1, <1>3, <2>1, <2>2 DEF IsPrefix
<1>4. n \in Prefixes(path) <=> n \in Seq(W) /\ IsPrefix(n, path)
  BY <1>2, <1>3 DEF Prefixes
<1> QED BY <1>4 DEF NodesTo

\* A set of nodes closed under the way to a node.
Closed(W, nodes) ==
    \A n \in nodes : n \in Seq(W) /\ n # <<>> /\ NodesTo(n) \subseteq nodes

\* A trie is a function to flags.
LEMMA TrieType ==
    ASSUME NEW nodes
    PROVE  /\ \A t \in TriesOver(nodes) : t \in [DOMAIN t -> BOOLEAN] /\ DOMAIN t \subseteq nodes
           /\ \A D \in SUBSET nodes : [D -> BOOLEAN] \subseteq TriesOver(nodes)
<1>1. ASSUME NEW t \in TriesOver(nodes)
      PROVE  t \in [DOMAIN t -> BOOLEAN] /\ DOMAIN t \subseteq nodes
  <2>1. PICK D \in SUBSET nodes : t \in [D -> BOOLEAN]
    BY Zenon DEF TriesOver
  <2>2. DOMAIN t = D
    BY <2>1, Zenon
  <2> QED BY <2>1, <2>2, Zenon
<1>2. \A D \in SUBSET nodes : [D -> BOOLEAN] \subseteq TriesOver(nodes)
  BY Zenon DEF TriesOver
<1> QED BY <1>1, <1>2, Zenon

\* add sets the path and nothing else, and leaves no dead branches
\* (word_trie.add, service.go:60, 165).
LEMMA TrieAddSets ==
    ASSUME NEW W, NEW nodes, Closed(W, nodes), NEW t \in TriesOver(nodes), NEW path \in nodes,
           WellFormed(t)
    PROVE  /\ TrieAdd(t, path) \in TriesOver(nodes)
           /\ Set(TrieAdd(t, path)) = Set(t) \cup {path}
           /\ WellFormed(TrieAdd(t, path))
<1> DEFINE a == TrieAdd(t, path)
           D == DOMAIN t \cup NodesTo(path)
<1>t. t \in [DOMAIN t -> BOOLEAN] /\ DOMAIN t \subseteq nodes
  BY TrieType
<1>p. path \in Seq(W) /\ path # <<>> /\ NodesTo(path) \subseteq nodes
  BY DEF Closed
<1>n. path \in NodesTo(path)
  BY <1>p, NodesAre, PrefixOrder
<1>1. a = [n \in D |-> IF n = path THEN TRUE ELSE IF n \in DOMAIN t THEN t[n] ELSE FALSE]
  BY DEF TrieAdd
<1>2. DOMAIN a = D /\ a \in [D -> BOOLEAN]
      /\ \A n \in D : a[n] = IF n = path THEN TRUE ELSE IF n \in DOMAIN t THEN t[n] ELSE FALSE
  BY <1>1, <1>t, Zenon
<1>3. D \subseteq nodes
  BY <1>t, <1>p
<1>4. a \in TriesOver(nodes)
  BY <1>2, <1>3, TrieType, Zenon
<1> HIDE DEF a
<1>5. Set(a) = Set(t) \cup {path}
  <2>1. ASSUME NEW n PROVE n \in Set(a) <=> n \in Set(t) \cup {path}
    BY <1>2, <1>n, Zenon DEF Set
  <2> QED BY <2>1
<1>6. ASSUME NEW n \in D PROVE NodesTo(n) \subseteq D /\ \E m \in Set(a) : IsPrefix(n, m)
  <2>1. CASE n \in DOMAIN t
    BY <2>1, <1>5 DEF WellFormed
  <2>2. CASE n \in NodesTo(path)
    <3>1. n \in Seq(W) /\ n # <<>> /\ IsPrefix(n, path)
      BY <2>2, <1>p, NodesAre
    <3>2. ASSUME NEW m \in NodesTo(n) PROVE m \in NodesTo(path)
      <4>1. m \in Seq(W) /\ m # <<>> /\ IsPrefix(m, n)
        BY <3>1, <3>2, NodesAre
      <4>2. IsPrefix(m, path)
        BY <1>p, <3>1, <4>1, PrefixOrder
      <4> QED BY <1>p, <4>1, <4>2, NodesAre
    <3> QED BY <1>5, <3>1, <3>2
  <2> QED BY <2>1, <2>2
<1>7. WellFormed(a)
  BY <1>2, <1>6, Zenon DEF WellFormed
<1> QED BY <1>4, <1>5, <1>7 DEF a

\* delete takes the path out and nothing else, whatever is above and below it,
\* and leaves no dead branches (word_trie.delete, service.go:92, 194, 236).
THEOREM TrieDeleteUnsets ==
    ASSUME NEW W, NEW nodes, Closed(W, nodes), NEW t \in TriesOver(nodes), NEW path \in nodes,
           WellFormed(t)
    PROVE  /\ TrieDelete(t, path) \in TriesOver(nodes)
           /\ Set(TrieDelete(t, path)) = Set(t) \ {path}
           /\ WellFormed(TrieDelete(t, path))
<1>t. t \in [DOMAIN t -> BOOLEAN] /\ DOMAIN t \subseteq nodes
  BY TrieType
<1>p. path \in Seq(W) /\ path # <<>> /\ \A n \in DOMAIN t : n \in Seq(W) /\ n # <<>>
  BY <1>t DEF Closed
<1>1. CASE path \notin DOMAIN t
  <2>1. TrieDelete(t, path) = t
    BY <1>1 DEF TrieDelete
  <2>2. Set(t) = Set(t) \ {path}
    BY <1>1 DEF Set
  <2> QED BY <2>1, <2>2
<1>2. CASE path \in DOMAIN t
  <2> DEFINE u == [t EXCEPT ![path] = FALSE]
             kept == {n \in DOMAIN u :
                        IsPrefix(n, path) => \E m \in DOMAIN u : IsPrefix(n, m) /\ u[m]}
             d == [n \in kept |-> u[n]]
  <2>1. TrieDelete(t, path) = d
    BY <1>2 DEF TrieDelete
  <2>2. /\ DOMAIN u = DOMAIN t /\ u \in [DOMAIN t -> BOOLEAN] /\ u[path] = FALSE
        /\ \A n \in DOMAIN t : n # path => u[n] = t[n]
    BY <1>t, <1>2, Zenon
  <2> HIDE DEF u
  <2>3. DOMAIN d = kept /\ kept \subseteq DOMAIN t /\ \A n \in kept : d[n] = u[n]
    BY <2>2, Zenon
  <2>4. d \in [kept -> BOOLEAN]
    BY <2>2, <2>3, Zenon
  <2>5. d \in TriesOver(nodes)
    <3>1. kept \in SUBSET nodes
      BY <1>t, <2>3, Zenon
    <3> QED BY <2>4, <3>1, TrieType, Zenon
  <2>6. ASSUME NEW m \in DOMAIN t, u[m] PROVE m \in kept
    <3>1. IsPrefix(m, m)
      BY <1>p, PrefixOrder
    <3> QED BY <2>2, <2>6, <3>1, Zenon
  <2>7. \A n : n \in kept <=> /\ n \in DOMAIN t
                              /\ IsPrefix(n, path) => \E m \in DOMAIN t : IsPrefix(n, m) /\ u[m]
    BY <2>2, Zenon
  <2> HIDE DEF kept, d
  <2>8. ASSUME NEW n PROVE n \in Set(d) <=> n \in Set(t) \ {path}
    BY <2>2, <2>3, <2>6, Zenon DEF Set
  <2>9. ASSUME NEW n \in kept PROVE \E m \in Set(d) : IsPrefix(n, m)
    <3>1. CASE IsPrefix(n, path)
      <4>1. PICK m \in DOMAIN t : IsPrefix(n, m) /\ u[m]
        BY <2>7, <2>9, <3>1, Zenon
      <4>2. m \in kept /\ d[m] = u[m]
        BY <4>1, <2>6, <2>3
      <4> QED BY <4>1, <4>2, <2>3 DEF Set
    <3>2. CASE ~IsPrefix(n, path)
      <4>1. PICK m \in Set(t) : IsPrefix(n, m)
        BY <2>3, <2>9 DEF WellFormed
      <4>2. m # path
        BY <3>2, <4>1
      <4> QED BY <2>8, <4>1, <4>2
    <3> QED BY <3>1, <3>2
  <2>10. ASSUME NEW n \in kept, NEW k \in NodesTo(n) PROVE k \in kept
    <3>1. n \in DOMAIN t /\ n \in Seq(W) /\ k \in Seq(W) /\ IsPrefix(k, n)
      BY <1>p, <2>3, <2>10, NodesAre
    <3>2. k \in DOMAIN t
      BY <2>10, <3>1 DEF WellFormed
    <3>3. PICK m \in Set(d) : IsPrefix(n, m)
      BY <2>9, <2>10
    <3>4. m \in DOMAIN t /\ u[m]
      BY <2>3, <3>3 DEF Set
    <3>5. IsPrefix(k, m)
      <4>1. m \in Seq(W)
        BY <1>p, <3>4
      <4> QED BY <3>1, <3>3, <4>1, PrefixOrder
    <3> QED BY <2>7, <3>2, <3>4, <3>5, Zenon
  <2>11. WellFormed(d)
    BY <2>3, <2>9, <2>10, Zenon DEF WellFormed
  <2>12. Set(d) = Set(t) \ {path}
    BY <2>8, Zenon
  <2> QED BY <2>1, <2>5, <2>11, <2>12 
<1> QED BY <1>1, <1>2

\* search finds exactly the set paths below a path (word_trie.search,
\* service.go:119, 212): a trie that add and delete have made has a node for
\* every prefix of a set path.
THEOREM TrieSearchFinds ==
    ASSUME NEW W, NEW nodes, Closed(W, nodes), NEW t \in TriesOver(nodes), NEW path \in nodes,
           WellFormed(t)
    PROVE  TrieSearch(t, path) = {n \in Set(t) : IsStrictPrefix(path, n)}
<1>t. DOMAIN t \subseteq nodes
  BY TrieType
<1>1. CASE path \in DOMAIN t
  BY <1>1 DEF TrieSearch, Set
<1>2. CASE path \notin DOMAIN t
  <2>1. ASSUME NEW n \in Set(t), IsStrictPrefix(path, n) PROVE FALSE
    <3>1. n \in DOMAIN t /\ n \in Seq(W) /\ path \in Seq(W) /\ path # <<>> /\ IsPrefix(path, n)
      BY <1>t, <2>1 DEF Set, Closed, IsStrictPrefix
    <3>2. path \in NodesTo(n)
      BY <3>1, NodesAre
    <3> QED BY <1>2, <3>1, <3>2 DEF WellFormed
  <2> QED BY <1>2, <2>1 DEF TrieSearch
<1> QED BY <1>1, <1>2

\* The trie of a set of paths, as a Get builds it.
LEMMA TrieOfPaths ==
    ASSUME NEW W, NEW nodes, Closed(W, nodes), NEW R, R \subseteq nodes,
           NEW t, t = [n \in UNION {NodesTo(s) : s \in R} |-> n \in R]
    PROVE  t \in TriesOver(nodes) /\ Set(t) = R /\ WellFormed(t)
<1> DEFINE D == UNION {NodesTo(s) : s \in R}
<1>1. ASSUME NEW s \in R PROVE s \in Seq(W) /\ s # <<>> /\ s \in NodesTo(s) /\ NodesTo(s) \subseteq nodes
  <2>1. s \in Seq(W) /\ s # <<>> /\ NodesTo(s) \subseteq nodes
    BY DEF Closed
  <2> QED BY <2>1, NodesAre, PrefixOrder
<1>3. \A n : n \in D <=> \E s \in R : n \in NodesTo(s)
  OBVIOUS
<1>d. t = [n \in D |-> n \in R]
  OBVIOUS
<1> HIDE DEF D
<1>2. DOMAIN t = D /\ t \in [D -> BOOLEAN] /\ \A n \in D : t[n] = (n \in R)
  <2>1. DOMAIN t = D /\ \A n \in D : t[n] = (n \in R)
    BY <1>d
  <2>2. t \in [D -> BOOLEAN]
    BY <1>d, SMT
  <2> QED BY <2>1, <2>2, Zenon
<1>4. D \subseteq nodes
  BY <1>1, <1>3
<1>5. t \in TriesOver(nodes)
  <2>1. D \in SUBSET nodes
    BY <1>4
  <2> QED BY <1>2, <2>1, TrieType, Zenon
<1>6. Set(t) = R
  <2>1. ASSUME NEW n PROVE n \in Set(t) <=> n \in R
    BY <1>1, <1>2, <1>3, Zenon DEF Set
  <2> QED BY <2>1
<1>7. ASSUME NEW n \in D
      PROVE  NodesTo(n) \subseteq D /\ \E m \in Set(t) : IsPrefix(n, m)
  <2>1. PICK s \in R : n \in NodesTo(s)
    BY <1>3
  <2>2. n \in Seq(W) /\ IsPrefix(n, s)
    BY <1>1, <2>1, NodesAre
  <2>3. ASSUME NEW k \in NodesTo(n) PROVE k \in NodesTo(s)
    <3>1. k \in Seq(W) /\ k # <<>> /\ IsPrefix(k, n)
      BY <2>2, NodesAre
    <3>2. IsPrefix(k, s)
      BY <1>1, <2>2, <3>1, PrefixOrder
    <3> QED BY <1>1, <3>1, <3>2, NodesAre
  <2> QED BY <1>3, <1>6, <2>1, <2>2, <2>3
<1>8. WellFormed(t)
  BY <1>2, <1>7, Zenon DEF WellFormed
<1> QED BY <1>5, <1>6, <1>8

Ev == [name : Names, value : Addrs \cup {NoAddr}]
SvcEv == [svc : Services, owner : Names \cup {Unknown}]

-----------------------------------------------------------------------------
(* Queues of events.                                                       *)

\* Append and Tail by their elements.
LEMMA AppendAt ==
    ASSUME NEW S, NEW q \in Seq(S), NEW e \in S
    PROVE  /\ Append(q, e) \in Seq(S) /\ Len(Append(q, e)) = Len(q) + 1
           /\ \A i \in 1 .. Len(q) : Append(q, e)[i] = q[i]
           /\ Append(q, e)[Len(q) + 1] = e
           /\ Len(q) \in Nat
  BY AppendProperties, LenProperties

\* The queue after an event less, by its elements.
LEMMA TailAt ==
    ASSUME NEW S, NEW q \in Seq(S), q # <<>>
    PROVE  /\ Tail(q) \in Seq(S) /\ Len(q) \in Nat \ {0} /\ Len(Tail(q)) = Len(q) - 1
           /\ \A i \in 1 .. Len(q) - 1 : Tail(q)[i] = q[i + 1]
           /\ Head(q) = q[1] /\ Head(q) \in S
<1>1. Tail(q) \in Seq(S) /\ Len(Tail(q)) = Len(q) - 1 /\ Head(q) = q[1] /\ Head(q) \in S
      /\ \A i \in 1 .. Len(Tail(q)) : Tail(q)[i] = q[i + 1]
  BY HeadTailProperties
<1>2. Len(q) \in Nat /\ Len(q) # 0
  BY EmptySeq, LenProperties
<1> QED BY <1>1, <1>2

-----------------------------------------------------------------------------
(* The store.                                                              *)

\* What the proofs use of the constants.
LEMMA ConstantFacts ==
    /\ NameOf \in [Procs -> Names]
    /\ NoAddr \notin Addrs /\ Unknown \notin Addrs /\ NoAddr # Unknown
    /\ NoProc \notin Procs
    /\ \A p \in Procs : AddrOf[p] \in Addrs /\ Follows[p] \in SUBSET Names
    /\ \A p, q \in Procs : AddrOf[p] = AddrOf[q] => p = q
    /\ MaxStarts \in Nat /\ MaxExpiries \in Nat
<1>1. /\ NameOf \in [Procs -> Names] /\ {NoAddr, Unknown} \cap Addrs = {} /\ NoAddr # Unknown
      /\ NoProc \notin Procs /\ Follows \in [Procs -> SUBSET Names]
      /\ {MaxStarts, MaxExpiries} \subseteq Nat
  BY PeerRegistryAssumption, Zenon
<1>2. \A p, q \in Procs : AddrOf[p] = AddrOf[q] => p = q
  BY PeerRegistryAssumption, Zenon
<1>3. \A p \in Procs : AddrOf[p] \in Addrs
  BY DEF Addrs
<1> QED BY <1>1, <1>2, <1>3

KeyType == [value : Addrs \cup {Unknown}, create : Nat, mod : Nat, lease : Procs \cup {NoProc}]
QueuesType == [Procs -> Seq(Ev)]

\* The put of a process that may put, by the keys it leaves.
LEMMA PutKeys ==
    ASSUME rev \in Nat, peerKey \in [Names -> KeyType], KeyShape, NEW p \in Procs, NEW queues,
           PutKey(p, queues)
    PROVE  /\ rev' \in Nat /\ peerKey' \in [Names -> KeyType] /\ KeyShape'
           /\ Own(p)' = [value |-> AddrOf[p], create |-> Own(p)'.create, mod |-> rev + 1, lease |-> Own(p)'.lease]
           /\ \A n \in Names : n # NameOf[p] => peerKey'[n] = peerKey[n]
           /\ peerKey'[NameOf[p]].value = AddrOf[p] /\ peerKey'[NameOf[p]].mod = rev + 1
           /\ peerKey'[NameOf[p]].create # 0
<1> DEFINE n0 == NameOf[p]
           c == IF peerKey[n0].create = 0 THEN rev + 1 ELSE peerKey[n0].create
           k == [value |-> AddrOf[p], create |-> c, mod |-> rev + 1,
                 lease |-> IF Leased THEN p ELSE NoProc]
<1>t. n0 \in Names /\ AddrOf[p] \in Addrs
  BY ConstantFacts
<1>1. rev' = rev + 1 /\ peerKey' = [peerKey EXCEPT ![n0] = k]
  BY DEF PutKey
<1>2. peerKey[n0].create \in Nat
  BY <1>t DEF KeyType
<1>3. c \in Nat /\ c # 0
  BY <1>2
<1>4. k \in KeyType /\ k.value = AddrOf[p] /\ k.mod = rev + 1 /\ k.create = c /\ k.lease \in {p, NoProc}
  BY <1>3, <1>t DEF KeyType
<1>5. peerKey'[n0] = k /\ \A n \in Names : n # n0 => peerKey'[n] = peerKey[n]
  BY <1>t, <1>1
<1> HIDE DEF n0, c, k
<1>6. KeyShape'
  <2> SUFFICES ASSUME NEW n \in Names
               PROVE  \/ peerKey'[n] = NoKey
                      \/ /\ peerKey'[n].create # 0
                         /\ \E q \in Procs : /\ NameOf[q] = n /\ peerKey'[n].value = AddrOf[q]
                                             /\ peerKey'[n].lease \in {q, NoProc}
    BY DEF KeyShape, Exists, NoKey
  <2>1. CASE n = n0
    BY <1>3, <1>4, <1>5, <2>1 DEF n0
  <2>2. CASE n # n0
    BY <1>5, <2>2 DEF KeyShape, Exists
  <2> QED BY <2>1, <2>2
<1>7. peerKey' \in [Names -> KeyType]
  BY <1>t, <1>1, <1>4
<1> QED BY <1>1, <1>3, <1>4, <1>5, <1>6, <1>7 DEF n0, Own, k

\* The deletion of a key.
LEMMA DeleteKeys ==
    ASSUME rev \in Nat, peerKey \in [Names -> KeyType], KeyShape, NEW n \in Names, DeleteKey(n)
    PROVE  /\ rev' \in Nat /\ peerKey' \in [Names -> KeyType] /\ KeyShape'
           /\ \A m \in Names : peerKey'[m] = IF m = n THEN NoKey ELSE peerKey[m]
<1>1. rev' = rev + 1 /\ peerKey' = [peerKey EXCEPT ![n] = NoKey]
  BY DEF DeleteKey
<1>2. NoKey \in KeyType
  BY DEF NoKey, KeyType
<1>3. \A m \in Names : peerKey'[m] = IF m = n THEN NoKey ELSE peerKey[m]
  BY <1>1
<1>4. KeyShape'
  BY <1>3 DEF KeyShape, Exists, NoKey
<1> QED BY <1>1, <1>2, <1>3, <1>4

\* A step changes no key, puts one that may be put, or deletes one.
LEMMA StoreSteps ==
    ASSUME PeersNext
    PROVE  \/ UNCHANGED storeVars
           \/ \E p \in Procs : ~Taken(p) /\ (\E queues : PutKey(p, queues))
           \/ \E n \in Names : DeleteKey(n)
<1>1. ASSUME NEW n \in Names, LeaseExpires(n)
      PROVE  DeleteKey(n)
  BY <1>1 DEF LeaseExpires
<1>2. ASSUME NEW p \in Procs,
             \/ RegisterRefused(p) \/ InitPeers(p) \/ Started(p) \/ StopBegin(p)
             \/ UnregisterBegin(p) \/ UnregisterPanics(p) \/ Exit(p) \/ Crash(p)
             \/ NotifyBegin(p) \/ (\E n \in Names : NotifyOne(p, n)) \/ OnKvPut(p)
             \/ OnKvDelete(p) \/ OnOwnDelete(p) \/ NoteRevision(p)
      PROVE  UNCHANGED storeVars
  BY <1>2 DEF RegisterRefused, InitPeers, Started, StopBegin, UnregisterBegin, UnregisterPanics,
              Exit, Crash, Ends, NotifyBegin, NotifyOne, OnKvPut, OnKvDelete, OnOwnDelete,
              NoteRevision
<1>3. ASSUME NEW p \in Procs, RegisterSelf(p) \/ RegisterFails(p) \/ ReRegister(p)
      PROVE  UNCHANGED storeVars \/ (~Taken(p) /\ (\E queues : PutKey(p, queues)))
  BY <1>3, Zenon DEF RegisterSelf, RegisterFails, ReRegister
<1>4. ASSUME NEW p \in Procs, UnregisterSelf(p) \/ UnregisterFails(p)
      PROVE  UNCHANGED storeVars \/ (NameOf[p] \in Names /\ DeleteKey(NameOf[p]))
  <2>1. NameOf[p] \in Names
    BY ConstantFacts
  <2> QED BY <1>4, <2>1, Zenon DEF UnregisterSelf, UnregisterFails
<1> QED BY <1>1, <1>2, <1>3, <1>4, Zenon DEF PeersNext

\* The keys keep their shape.
LEMMA KeysStep ==
    ASSUME PeersTypeOK, KeyShape, PeersNext
    PROVE  rev' \in Nat /\ peerKey' \in [Names -> KeyType] /\ KeyShape'
<1>1. rev \in Nat /\ peerKey \in [Names -> KeyType]
  BY DEF PeersTypeOK, KeyType
<1>2. CASE UNCHANGED storeVars
  BY <1>1, <1>2 DEF storeVars, KeyShape, Exists
<1>3. ASSUME NEW p \in Procs, NEW queues, PutKey(p, queues) 
      PROVE  rev' \in Nat /\ peerKey' \in [Names -> KeyType] /\ KeyShape'
  BY <1>1, <1>3, PutKeys
<1>4. ASSUME NEW n \in Names, DeleteKey(n) 
      PROVE  rev' \in Nat /\ peerKey' \in [Names -> KeyType] /\ KeyShape'
  BY <1>1, <1>4, DeleteKeys
<1> QED BY <1>2, <1>3, <1>4, StoreSteps

-----------------------------------------------------------------------------
(* The shape of the state.                                                 *)

MainTypes == /\ stage \in [Procs -> Stages]
             /\ watch \in [Procs -> {"none", "known", "watching", "notify", "done"}]
             /\ toNotify \in [Procs -> SUBSET Names]
             /\ trouble \in [Procs -> {"none", "expired", "failed"}]
             /\ selfRevision \in [Procs -> Nat]
             /\ reply \in [Procs -> Nat]
             /\ starts \in 0 .. MaxStarts
             /\ expiries \in 0 .. MaxExpiries

\* The variables of the main goroutine keep their type.
LEMMA MainTypesStep ==
    ASSUME PeersTypeOK, PeersNext
    PROVE  MainTypes'
<1>t. MainTypes /\ rev \in Nat /\ MaxStarts \in Nat /\ MaxExpiries \in Nat
  BY ConstantFacts, Zenon DEF PeersTypeOK, MainTypes
<1>1. ASSUME NEW p \in Procs, RegisterSelf(p) PROVE MainTypes'
  BY <1>t, <1>1 DEF RegisterSelf, Launch, Goes, MainTypes, Stages
<1>2. ASSUME NEW p \in Procs, RegisterRefused(p) PROVE MainTypes'
  BY <1>t, <1>2 DEF RegisterRefused, Launch, Goes, MainTypes, Stages
<1>3. ASSUME NEW p \in Procs, RegisterFails(p) PROVE MainTypes'
  <2>1. Launch(p, "stop") /\ trouble' = [trouble EXCEPT ![p] = "failed"] /\ UNCHANGED selfRevision
    BY <1>3 DEF RegisterFails
  <2> QED BY <1>t, <2>1 DEF Launch, Goes, MainTypes, Stages
<1>4. ASSUME NEW p \in Procs, InitPeers(p) PROVE MainTypes'
  BY <1>t, <1>4 DEF InitPeers, Goes, MainTypes, Stages, budget
<1>5. ASSUME NEW p \in Procs, Started(p) PROVE MainTypes'
  BY <1>t, <1>5 DEF Started, Goes, MainTypes, Stages, budget, memory
<1>6. ASSUME NEW p \in Procs, StopBegin(p) \/ UnregisterBegin(p) PROVE MainTypes'
  BY <1>t, <1>6 DEF StopBegin, UnregisterBegin, Goes, MainTypes, Stages, budget, memory
<1>7. ASSUME NEW p \in Procs, UnregisterSelf(p) PROVE MainTypes'
  <2>1. Goes(p, {"unregister"}, "leave") /\ UNCHANGED <<watch, memory, trouble, budget>>
    BY <1>7 DEF UnregisterSelf
  <2> QED BY <1>t, <2>1 DEF Goes, MainTypes, Stages, budget, memory
<1>8. ASSUME NEW p \in Procs, UnregisterFails(p) PROVE MainTypes'
  <2>1. /\ Goes(p, {"unregister"}, "leave") /\ UNCHANGED <<watch, memory, budget>>
        /\ trouble' = [trouble EXCEPT ![p] = "failed"]
    BY <1>8 DEF UnregisterFails
  <2> QED BY <1>t, <2>1 DEF Goes, MainTypes, Stages, budget, memory
<1>9. ASSUME NEW p \in Procs, Ends(p) PROVE MainTypes'
  BY <1>t, <1>9 DEF Ends, MainTypes, Stages, budget
<1>10. ASSUME NEW p \in Procs, NotifyBegin(p) PROVE MainTypes'
  <2>1. Follows[p] \in SUBSET Names
    BY ConstantFacts
  <2> QED BY <1>t, <1>10, <2>1 DEF NotifyBegin, MainTypes, budget
<1>11. ASSUME NEW p \in Procs, NEW n \in Names, NotifyOne(p, n) PROVE MainTypes'
  <2>1. toNotify' \in [Procs -> SUBSET Names]
    BY <1>t, <1>11, Zenon DEF NotifyOne, MainTypes
  <2>2. watch' \in [Procs -> {"none", "known", "watching", "notify", "done"}]
    BY <1>t, <1>11 DEF NotifyOne, MainTypes
  <2>3. UNCHANGED <<stage, trouble, selfRevision, reply, starts, expiries>>
    BY <1>11 DEF NotifyOne, budget
  <2> QED BY <1>t, <2>1, <2>2, <2>3 DEF MainTypes
<1>12. ASSUME NEW p \in Procs, OnKvPut(p) \/ OnKvDelete(p) \/ OnOwnDelete(p) PROVE MainTypes'
  <2>1. UNCHANGED <<stage, watch, toNotify, trouble, selfRevision, reply, starts, expiries>>
    BY <1>12 DEF OnKvPut, OnKvDelete, OnOwnDelete, budget
  <2> QED BY <1>t, <2>1 DEF MainTypes
<1>13. ASSUME NEW p \in Procs, ReRegister(p) PROVE MainTypes'
  <2>1. UNCHANGED <<stage, watch, toNotify, selfRevision, starts, expiries>>
    BY <1>13 DEF ReRegister, budget
  <2>2. /\ UNCHANGED trouble \/ trouble' = [trouble EXCEPT ![p] = "failed"]
        /\ UNCHANGED reply \/ reply' = [reply EXCEPT ![p] = rev + 1]
    BY <1>13 DEF ReRegister
  <2> QED BY <1>t, <2>1, <2>2 DEF MainTypes
<1>14. ASSUME NEW p \in Procs, NoteRevision(p) PROVE MainTypes'
  BY <1>t, <1>14 DEF NoteRevision, MainTypes, budget
<1>15. ASSUME NEW n \in Names, LeaseExpires(n) PROVE MainTypes'
  <2> DEFINE p == peerKey[n].lease
  <2>1. UNCHANGED <<stage, watch, toNotify, selfRevision, reply, starts>>
    BY <1>15 DEF LeaseExpires, memory
  <2>2. \/ UNCHANGED <<expiries, trouble>>
        \/ /\ expiries < MaxExpiries /\ expiries' = expiries + 1
           /\ trouble' = [trouble EXCEPT ![p] = IF @ = "none" THEN "expired" ELSE @]
    BY <1>15 DEF LeaseExpires
  <2>3. p \in Procs \cup {NoProc}
    BY DEF PeersTypeOK
  <2> HIDE DEF p
  <2> QED BY <1>t, <2>1, <2>2, <2>3 DEF MainTypes
<1>16. \A p \in Procs : UnregisterPanics(p) \/ Exit(p) \/ Crash(p) => Ends(p)
  BY DEF UnregisterPanics, Exit, Crash
<1>17. CASE \E n \in Names : LeaseExpires(n)
  BY <1>15, <1>17
<1>18. ASSUME NEW p \in Procs,
          \/ RegisterSelf(p) \/ RegisterRefused(p) \/ RegisterFails(p) \/ InitPeers(p)
          \/ Started(p) \/ StopBegin(p) \/ UnregisterBegin(p) \/ UnregisterSelf(p)
          \/ UnregisterFails(p) \/ UnregisterPanics(p) \/ Exit(p) \/ Crash(p)
          \/ NotifyBegin(p) \/ (\E n \in Names : NotifyOne(p, n)) \/ OnKvPut(p)
          \/ OnKvDelete(p) \/ OnOwnDelete(p) \/ ReRegister(p) \/ NoteRevision(p)
       PROVE MainTypes'
  BY <1>1, <1>2, <1>3, <1>4, <1>5, <1>6, <1>7, <1>8, <1>9, <1>10, <1>11, <1>12, <1>13, <1>14,
     <1>16, <1>18, Zenon
<1> QED BY <1>17, <1>18, Zenon DEF PeersNext

\* What a change of a key leaves in the queues.
LEMMA BroadcastQueues ==
    ASSUME NEW queues \in QueuesType, NEW n \in Names, NEW v \in Addrs \cup {NoAddr},
           Broadcast(queues, n, v)
    PROVE  /\ events' \in QueuesType /\ [name |-> n, value |-> v] \in Ev
           /\ \A q \in Procs :
                 events'[q] = IF Listening(q) /\ n \in Follows[q]
                              THEN Append(queues[q], [name |-> n, value |-> v]) ELSE queues[q]
<1> DEFINE e == [name |-> n, value |-> v]
           new(q) == IF Listening(q) /\ n \in Follows[q] THEN Append(queues[q], e) ELSE queues[q]
<1>1. e \in Ev
  BY DEF Ev
<1>2. events' = [q \in Procs |-> new(q)]
  BY DEF Broadcast
<1>3. ASSUME NEW q \in Procs PROVE new(q) \in Seq(Ev)
  <2>1. queues[q] \in Seq(Ev)
    BY DEF QueuesType
  <2>2. Append(queues[q], e) \in Seq(Ev)
    BY <1>1, <2>1, AppendAt
  <2> QED BY <2>1, <2>2
<1>4. \A q \in Procs : events'[q] = new(q)
  BY <1>2, Zenon
<1> HIDE DEF new
<1>5. events' \in QueuesType
  BY <1>2, <1>3 DEF QueuesType
<1> QED BY <1>1, <1>4, <1>5 DEF new

\* A consumed event.
LEMMA ConsumedQueues ==
    ASSUME events \in QueuesType, NEW p \in Procs, events[p] # <<>>
    PROVE  /\ Consumed(p) \in QueuesType /\ Event(p) \in Ev
           /\ \A q \in Procs : Consumed(p)[q] = IF q = p THEN Tail(events[p]) ELSE events[q]
<1>1. events[p] \in Seq(Ev)
  BY DEF QueuesType
<1>2. Tail(events[p]) \in Seq(Ev) /\ Event(p) \in Ev
  BY <1>1, TailAt DEF Event
<1> QED BY <1>2 DEF Consumed, QueuesType

\* The changes of the queues: no change, an event about one name more, an event
\* of one process less, both, or all of one process gone.
LEMMA QueueSteps ==
    ASSUME PeersTypeOK, PeersNext
    PROVE  \/ UNCHANGED events
           \/ \E n \in Names, v \in Addrs \cup {NoAddr} : UNCHANGED watch /\ Broadcast(events, n, v)
           \/ \E p \in Procs : watch[p] # "none" /\ events[p] # <<>> /\ events' = Consumed(p)
           \/ \E p \in Procs, n \in Names, v \in Addrs \cup {NoAddr} :
                 /\ UNCHANGED watch
                 /\ watch[p] # "none" /\ events[p] # <<>> /\ Broadcast(Consumed(p), n, v)
           \/ \E p \in Procs : events' = [events EXCEPT ![p] = <<>>]
<1>1. ASSUME NEW n \in Names, LeaseExpires(n)
      PROVE  UNCHANGED watch /\ Broadcast(events, n, NoAddr)
  BY <1>1 DEF LeaseExpires, DeleteKey
<1>2. ASSUME NEW p \in Procs,
             \/ RegisterRefused(p) \/ InitPeers(p) \/ Started(p) \/ StopBegin(p)
             \/ UnregisterBegin(p) \/ NotifyBegin(p) \/ (\E n \in Names : NotifyOne(p, n))
             \/ NoteRevision(p)
      PROVE  UNCHANGED events
  BY <1>2 DEF RegisterRefused, InitPeers, Started, StopBegin, UnregisterBegin, NotifyBegin,
              NotifyOne, NoteRevision
<1>3. ASSUME NEW p \in Procs, \/ UnregisterPanics(p) \/ Exit(p) \/ Crash(p) \/ OnOwnDelete(p)
      PROVE  events' = [events EXCEPT ![p] = <<>>]
  BY <1>3 DEF UnregisterPanics, Exit, Crash, Ends, OnOwnDelete
<1>4. ASSUME NEW p \in Procs, OnKvPut(p) \/ OnKvDelete(p)
      PROVE  watch[p] # "none" /\ events[p] # <<>> /\ events' = Consumed(p)
  BY <1>4 DEF OnKvPut, OnKvDelete, IsPut, IsDelete, HasEvent
<1>5. ASSUME NEW p \in Procs PROVE NameOf[p] \in Names /\ AddrOf[p] \in Addrs \cup {NoAddr}
  BY ConstantFacts
<1>6. ASSUME NEW p \in Procs, RegisterSelf(p) \/ RegisterFails(p)
      PROVE  UNCHANGED events \/ (UNCHANGED watch /\ Broadcast(events, NameOf[p], AddrOf[p]))
  BY <1>6, Zenon DEF RegisterSelf, RegisterFails, PutKey, Launch
<1>7. ASSUME NEW p \in Procs, UnregisterSelf(p) \/ UnregisterFails(p)
      PROVE  UNCHANGED events \/ (UNCHANGED watch /\ Broadcast(events, NameOf[p], NoAddr))
  BY <1>7, Zenon DEF UnregisterSelf, UnregisterFails, DeleteKey
<1>8. ASSUME NEW p \in Procs, ReRegister(p)
      PROVE  /\ watch[p] # "none" /\ events[p] # <<>>
             /\ \/ events' = Consumed(p)
                \/ UNCHANGED watch /\ Broadcast(Consumed(p), NameOf[p], AddrOf[p])
  <2>1. watch[p] # "none" /\ events[p] # <<>> 
    BY <1>8 DEF ReRegister, IsOwnDelete, IsDelete, HasEvent
  <2>2. UNCHANGED watch
    BY <1>8 DEF ReRegister
  <2>3. events' = Consumed(p) \/ Broadcast(Consumed(p), NameOf[p], AddrOf[p])
    BY <1>8, Zenon DEF ReRegister, PutKey
  <2> QED BY <2>1, <2>2, <2>3
<1>9. NoAddr \in Addrs \cup {NoAddr}
  OBVIOUS
<1> QED BY <1>1, <1>2, <1>3, <1>4, <1>5, <1>6, <1>7, <1>8, <1>9, Zenon DEF PeersNext

\* The queues keep their type.
LEMMA QueuesStep ==
    ASSUME PeersTypeOK, PeersNext
    PROVE  events' \in QueuesType
<1>1. events \in QueuesType
  BY DEF PeersTypeOK, QueuesType, Ev
<1>2. ASSUME NEW p \in Procs PROVE [events EXCEPT ![p] = <<>>] \in QueuesType
  <2>1. <<>> \in Seq(Ev)
    BY EmptySeq
  <2> QED BY <1>1, <2>1 DEF QueuesType
<1>3. CASE UNCHANGED events
  BY <1>1, <1>3
<1>4. ASSUME NEW n \in Names, NEW v \in Addrs \cup {NoAddr}, Broadcast(events, n, v)
      PROVE  events' \in QueuesType
  BY <1>1, <1>4, BroadcastQueues
<1>5. ASSUME NEW p \in Procs, events[p] # <<>>
      PROVE  Consumed(p) \in QueuesType
  BY <1>1, <1>5, ConsumedQueues
<1>6. ASSUME NEW p \in Procs, NEW n \in Names, NEW v \in Addrs \cup {NoAddr},
             events[p] # <<>>, Broadcast(Consumed(p), n, v)
      PROVE  events' \in QueuesType
  BY <1>5, <1>6, BroadcastQueues
<1> QED BY <1>1, <1>2, <1>3, <1>4, <1>5, <1>6, QueueSteps, Zenon

\* Who has no watch after a step has ended in it, or had none before.
LEMMA WithoutWatch ==
    ASSUME PeersTypeOK, PeersNext, NEW q \in Procs, watch'[q] = "none"
    PROVE  Ends(q) \/ (watch[q] = "none" /\ reply'[q] = 0)
<1>t. /\ watch \in [Procs -> {"none", "known", "watching", "notify", "done"}]
      /\ reply \in [Procs -> Nat] /\ (watch[q] = "none" => reply[q] = 0)
  BY Zenon DEF PeersTypeOK
<1>1. ASSUME UNCHANGED <<watch, reply>> 
      PROVE  Ends(q) \/ (watch[q] = "none" /\ reply'[q] = 0)
  BY <1>t, <1>1
<1>2. ASSUME NEW n \in Names, LeaseExpires(n) PROVE UNCHANGED <<watch, reply>>
  BY <1>2 DEF LeaseExpires, memory
<1>3. ASSUME NEW p \in Procs,
             \/ RegisterSelf(p) \/ RegisterRefused(p) \/ RegisterFails(p) \/ StopBegin(p)
             \/ UnregisterBegin(p) \/ UnregisterSelf(p) \/ UnregisterFails(p) \/ OnKvPut(p)
             \/ OnKvDelete(p) \/ OnOwnDelete(p)
      PROVE  UNCHANGED <<watch, reply>>
  BY <1>3 DEF RegisterSelf, RegisterRefused, RegisterFails, Launch, StopBegin, UnregisterBegin,
              UnregisterSelf, UnregisterFails, memory, OnKvPut, OnKvDelete, OnOwnDelete
<1>4. ASSUME NEW p \in Procs, InitPeers(p) \/ Started(p) \/ NotifyBegin(p) 
      PROVE  Ends(q) \/ (watch[q] = "none" /\ reply'[q] = 0)
  <2>1. /\ \E w \in {"known", "watching", "notify", "done"} : watch' = [watch EXCEPT ![p] = w]
        /\ UNCHANGED reply
    BY <1>4 DEF InitPeers, Started, memory, NotifyBegin
  <2> QED BY <1>t, <2>1
<1>5. ASSUME NEW p \in Procs, NEW n \in Names, NotifyOne(p, n) 
      PROVE  Ends(q) \/ (watch[q] = "none" /\ reply'[q] = 0)
  <2>1. /\ watch' = [watch EXCEPT ![p] = IF toNotify[p] = {n} THEN "done" ELSE @]
        /\ UNCHANGED reply
    BY <1>5 DEF NotifyOne
  <2> QED BY <1>t, <2>1
<1>6. ASSUME NEW p \in Procs, UnregisterPanics(p) \/ Exit(p) \/ Crash(p) 
      PROVE  Ends(q) \/ (watch[q] = "none" /\ reply'[q] = 0)
  <2>1. Ends(p)
    BY <1>6 DEF UnregisterPanics, Exit, Crash
  <2>2. watch' = [watch EXCEPT ![p] = "none"] /\ reply' = [reply EXCEPT ![p] = 0]
    BY <2>1 DEF Ends
  <2> QED BY <1>t, <2>1, <2>2
<1>7. ASSUME NEW p \in Procs, ReRegister(p) 
      PROVE  Ends(q) \/ (watch[q] = "none" /\ reply'[q] = 0)
  <2>1. UNCHANGED watch /\ watch[p] # "none"
    BY <1>7 DEF ReRegister, IsOwnDelete, IsDelete, HasEvent
  <2>2. UNCHANGED reply \/ reply' = [reply EXCEPT ![p] = rev + 1]
    BY <1>7 DEF ReRegister
  <2> QED BY <1>t, <2>1, <2>2
<1>8. ASSUME NEW p \in Procs, NoteRevision(p) 
      PROVE  Ends(q) \/ (watch[q] = "none" /\ reply'[q] = 0)
  BY <1>t, <1>8 DEF NoteRevision
<1> QED BY <1>1, <1>2, <1>3, <1>4, <1>5, <1>6, <1>7, <1>8, Zenon DEF PeersNext

\* Without a watch there is nothing to deliver or to note.
LEMMA WithoutWatchStep ==
    ASSUME PeersTypeOK, PeersNext, NEW q \in Procs, watch'[q] = "none"
    PROVE  events'[q] = <<>> /\ reply'[q] = 0
<1>t. /\ events \in QueuesType /\ reply \in [Procs -> Nat]
      /\ watch[q] = "none" => events[q] = <<>>
  BY DEF PeersTypeOK, QueuesType, Ev
<1>1. CASE Ends(q)
  BY <1>t, <1>1 DEF Ends, QueuesType
<1>2. CASE watch[q] = "none" /\ reply'[q] = 0
  <2>1. events[q] = <<>> /\ ~Listening(q)
    BY <1>t, <1>2 DEF Listening
  <2>2. CASE UNCHANGED events
    BY <1>2, <2>1, <2>2
  <2>3. ASSUME NEW n \in Names, NEW v \in Addrs \cup {NoAddr}, Broadcast(events, n, v)
        PROVE  events'[q] = <<>>
    <3>1. events'[q] = events[q]
      BY <1>t, <2>1, <2>3, BroadcastQueues
    <3> QED BY <2>1, <3>1
  <2>4. ASSUME NEW p \in Procs, watch[p] # "none", events[p] # <<>>
        PROVE  Consumed(p)[q] = <<>> /\ Consumed(p) \in QueuesType
    BY <1>t, <1>2, <2>1, <2>4, ConsumedQueues
  <2>5. ASSUME NEW p \in Procs, NEW n \in Names, NEW v \in Addrs \cup {NoAddr},
               watch[p] # "none", events[p] # <<>>, Broadcast(Consumed(p), n, v)
        PROVE  events'[q] = <<>>
    <3>1. events'[q] = Consumed(p)[q]
      BY <2>1, <2>4, <2>5, BroadcastQueues
    <3> QED BY <2>4, <2>5, <3>1
  <2>6. ASSUME NEW p \in Procs, events' = [events EXCEPT ![p] = <<>>]
        PROVE  events'[q] = <<>>
    BY <1>t, <2>1, <2>6 DEF QueuesType
  <2>7. events'[q] = <<>>
    BY <2>1, <2>2, <2>3, <2>4, <2>5, <2>6, QueueSteps, Zenon
  <2> QED BY <1>2, <2>7
<1> QED BY <1>1, <1>2, WithoutWatch

ViewType == [Procs -> [Names -> Addrs \cup {NoAddr, Unknown}]]

\* The entries change only with an event, with the Get and at the end.
LEMMA ViewSteps ==
    ASSUME PeersNext
    PROVE  \/ UNCHANGED peers
           \/ \E p \in Procs : OnKvPut(p)
           \/ \E p \in Procs : HasEvent(p) /\ Forget(p)
           \/ \E p \in Procs : InitPeers(p) \/ Ends(p)
<1>1. ASSUME NEW n \in Names, LeaseExpires(n) PROVE UNCHANGED peers
  BY <1>1 DEF LeaseExpires, memory
<1>2. ASSUME NEW p \in Procs,
             \/ RegisterSelf(p) \/ RegisterRefused(p) \/ RegisterFails(p) \/ Started(p)
             \/ StopBegin(p) \/ UnregisterBegin(p) \/ UnregisterSelf(p) \/ UnregisterFails(p)
             \/ NotifyBegin(p) \/ (\E n \in Names : NotifyOne(p, n)) \/ NoteRevision(p)
      PROVE  UNCHANGED peers
  BY <1>2 DEF RegisterSelf, RegisterRefused, RegisterFails, Launch, Started, StopBegin,
              UnregisterBegin, UnregisterSelf, UnregisterFails, memory, NotifyBegin, NotifyOne,
              NoteRevision
<1>3. ASSUME NEW p \in Procs, OnKvDelete(p) \/ OnOwnDelete(p) \/ ReRegister(p)
      PROVE  HasEvent(p) /\ Forget(p)
  BY <1>3, Zenon DEF OnKvDelete, OnOwnDelete, ReRegister, IsOwnDelete, IsDelete
<1>4. ASSUME NEW p \in Procs, UnregisterPanics(p) \/ Exit(p) \/ Crash(p) PROVE Ends(p)
  BY <1>4 DEF UnregisterPanics, Exit, Crash
<1> QED BY <1>1, <1>2, <1>3, <1>4, Zenon DEF PeersNext

\* The entries keep their type.
LEMMA ViewStep ==
    ASSUME PeersTypeOK, PeersNext
    PROVE  peers' \in ViewType
<1>t. peers \in ViewType /\ events \in QueuesType /\ peerKey \in [Names -> KeyType]
  BY DEF PeersTypeOK, ViewType, QueuesType, Ev, KeyType
<1>1. CASE UNCHANGED peers
  BY <1>t, <1>1
<1>2. ASSUME NEW p \in Procs, HasEvent(p)
      PROVE  Event(p).name \in Names /\ Event(p).value \in Addrs \cup {NoAddr}
  <2>1. Event(p) \in Ev
    BY <1>t, <1>2, ConsumedQueues DEF HasEvent
  <2> QED BY <2>1 DEF Ev
<1>3. ASSUME NEW p \in Procs, OnKvPut(p) PROVE peers' \in ViewType
  <2>1. HasEvent(p) /\ peers' = [peers EXCEPT ![p][Event(p).name] = Event(p).value]
    BY <1>3 DEF OnKvPut, IsPut, PutEntry
  <2> QED BY <1>t, <1>2, <2>1 DEF ViewType
<1>4. ASSUME NEW p \in Procs, HasEvent(p), Forget(p) PROVE peers' \in ViewType
  <2>1. peers' = [peers EXCEPT ![p][Event(p).name] = IF @ = Unknown THEN @ ELSE NoAddr]
    BY <1>4 DEF Forget
  <2> QED BY <1>t, <1>2, <1>4, <2>1 DEF ViewType
<1>5. ASSUME NEW p \in Procs, InitPeers(p) PROVE peers' \in ViewType
  <2>1. peers' = [peers EXCEPT ![p] = [n \in Names |-> IF n \in Follows[p] THEN peerKey[n].value ELSE Unknown]]
    BY <1>5 DEF InitPeers
  <2> QED BY <1>t, <2>1 DEF ViewType, KeyType
<1>6. ASSUME NEW p \in Procs, Ends(p) PROVE peers' \in ViewType
  <2>1. peers' = [peers EXCEPT ![p] = [n \in Names |-> Unknown]]
    BY <1>6 DEF Ends
  <2> QED BY <1>t, <2>1 DEF ViewType
<1> QED BY <1>1, <1>3, <1>4, <1>5, <1>6, ViewSteps

\* cancelled changes at the end of a process, and when it sees its own deletion.
LEMMA CancelSteps ==
    ASSUME PeersNext
    PROVE  \/ UNCHANGED cancelled
           \/ \E p \in Procs : Ends(p) /\ cancelled' = [cancelled EXCEPT ![p] = FALSE]
           \/ \E p \in Procs : OnOwnDelete(p) /\ cancelled' = [cancelled EXCEPT ![p] = TRUE]
<1>1. ASSUME NEW n \in Names, LeaseExpires(n) PROVE UNCHANGED cancelled
  BY <1>1 DEF LeaseExpires, memory
<1>2. ASSUME NEW p \in Procs,
             \/ RegisterSelf(p) \/ RegisterRefused(p) \/ RegisterFails(p) \/ InitPeers(p)
             \/ Started(p) \/ StopBegin(p) \/ UnregisterBegin(p) \/ UnregisterSelf(p)
             \/ UnregisterFails(p) \/ NotifyBegin(p) \/ (\E n \in Names : NotifyOne(p, n))
             \/ NoteRevision(p) \/ OnKvPut(p) \/ OnKvDelete(p) \/ ReRegister(p)
      PROVE  UNCHANGED cancelled
  BY <1>2 DEF RegisterSelf, RegisterRefused, RegisterFails, InitPeers, Launch, Started, StopBegin,
              UnregisterBegin, UnregisterSelf, UnregisterFails, memory, NotifyBegin, NotifyOne,
              NoteRevision, OnKvPut, OnKvDelete, ReRegister
<1>3. ASSUME NEW p \in Procs, OnOwnDelete(p)
      PROVE  cancelled' = [cancelled EXCEPT ![p] = TRUE]
  BY <1>3, Zenon DEF OnOwnDelete
<1>4. ASSUME NEW p \in Procs, UnregisterPanics(p) \/ Exit(p) \/ Crash(p)
      PROVE  Ends(p) /\ cancelled' = [cancelled EXCEPT ![p] = FALSE]
  BY <1>4, Zenon DEF UnregisterPanics, Exit, Crash, Ends
<1> QED BY <1>1, <1>2, <1>3, <1>4, Zenon DEF PeersNext

\* The state keeps its shape.
LEMMA PeersTypeStep ==
    ASSUME PeersTypeOK, KeyShape, PeersNext
    PROVE  PeersTypeOK'
<1>1. cancelled' \in [Procs -> BOOLEAN]
  <2>1. cancelled \in [Procs -> BOOLEAN]
    BY Zenon DEF PeersTypeOK
  <2> QED BY <2>1, CancelSteps, Zenon
<1>2. \A q \in Procs : watch'[q] = "none" => events'[q] = <<>> /\ reply'[q] = 0
  BY WithoutWatchStep, Zenon
<1>3. /\ rev' \in Nat /\ peerKey' \in [Names -> KeyType] /\ events' \in QueuesType
      /\ peers' \in ViewType /\ MainTypes'
  BY KeysStep, QueuesStep, ViewStep, MainTypesStep, Zenon
<1> QED BY <1>1, <1>2, <1>3, Zenon DEF PeersTypeOK, KeyType, QueuesType, Ev, ViewType, MainTypes

\* The steps of the service registry that leave the peer registry alone.
LocalStep(p) ==
    \/ ListLeftovers(p) \/ InitServices(p) \/ StopServices(p)
    \/ RegisterStore(p) \/ RegisterIndex(p) \/ RegisterSelfService(p)
    \/ SvcPut(p) \/ SvcDelete(p) \/ WatchStore(p) \/ WatchIndex(p) \/ WatchSelf(p)
    \/ \E s \in Services : \/ CleanLeftover(p, s) \/ StopService(p, s)
                           \/ RegisterService(p, s) \/ RegisterServiceFails(p, s)
                           \/ UnregisterService(p, s)

\* They do leave it alone.
LEMMA LocalSteps ==
    ASSUME NEW p \in Procs, LocalStep(p)
    PROVE  UNCHANGED peerVars
  BY Zenon DEF LocalStep, ListLeftovers, InitServices, StopServices, RegisterStore, RegisterIndex,
       RegisterSelfService, SvcPut, SvcDelete, WatchStore, WatchIndex, WatchSelf, CleanLeftover,
       StopService, RegisterService, RegisterServiceFails, Registers, UnregisterService

\* The other steps: of the peer registry, and of both.
LEMMA NextCases ==
    ASSUME Next
    PROVE  \/ \E p \in Procs : PeerStep(p) 
           \/ \E n \in Names : LeaseExpires(n) /\ UNCHANGED svcVars
           \/ \E p \in Procs : StopPeer(p) \/ SvcEnds(p) \/ InitServicesFails(p) \/ LocalStep(p)
  BY Zenon DEF Next, ServiceStep, LocalStep

\* A step of the system is a step of the peer registry, or none of its own, or
\* a start that fails in initServices.
LEMMA NextPeers ==
    ASSUME Next
    PROVE  \/ PeersNext \/ UNCHANGED peerVars
           \/ \E p \in Procs : InitServicesFails(p)
<1>1. ASSUME NEW p \in Procs, PeerStep(p) PROVE PeersNext
  BY <1>1, Zenon DEF PeerStep, PeersNext
<1>2. ASSUME NEW n \in Names, LeaseExpires(n) PROVE PeersNext
  BY <1>2, Zenon DEF PeersNext
<1>3. ASSUME NEW p \in Procs, StopPeer(p) \/ SvcEnds(p) PROVE PeersNext
  BY <1>3, Zenon DEF StopPeer, SvcEnds, PeersNext
<1> QED BY <1>1, <1>2, <1>3, LocalSteps, NextCases, Zenon

\* The state of the peer registry keeps its shape.
LEMMA PeersShapeStep ==
    ASSUME PeersTypeOK, KeyShape, Next
    PROVE  PeersTypeOK' /\ KeyShape'
<1>1. CASE PeersNext
  BY <1>1, PeersTypeStep, KeysStep
<1>2. CASE UNCHANGED peerVars
  BY <1>2, Zenon DEF peerVars, storeVars, procVars, budget, PeersTypeOK, KeyShape, Exists
<1>3. ASSUME NEW p \in Procs, InitServicesFails(p) PROVE PeersTypeOK' /\ KeyShape'
  <2>1. /\ stage' = [stage EXCEPT ![p] = "stop"]
        /\ UNCHANGED <<storeVars, watch, memory, trouble, events, budget>>
    BY <1>3 DEF InitServicesFails, Goes
  <2>2. stage' \in [Procs -> Stages]
    BY <2>1 DEF PeersTypeOK, Stages
  <2> QED BY <2>1, <2>2, Zenon DEF storeVars, memory, budget, PeersTypeOK, KeyShape, Exists
<1> QED BY <1>1, <1>2, <1>3, NextPeers

-----------------------------------------------------------------------------
(* Processes of one name.                                                  *)

\* What the proofs use of the constants.
LEMMA ServiceFacts ==
    /\ Unknown \notin Names /\ MaxCalls \in Nat
    /\ \A p \in Procs : NameOf[p] \in Names /\ NameOf[p] # Unknown /\ Offers[p] \subseteq Services
    /\ \A s \in Services : s \in Seq(STRING) /\ s # <<>>
<1>1. /\ Unknown \notin Names /\ MaxCalls \in Nat /\ Offers \in [Procs -> SUBSET Services]
      /\ Services \subseteq Seq(STRING)
  BY ServiceRegistryAssumption, Zenon
<1>2. \A s \in Services : Len(s) \in 1 .. 2
  BY ServiceRegistryAssumption, Zenon
<1>3. \A s \in Services : s # <<>>
  BY <1>2
<1> QED BY <1>1, <1>3, ConstantFacts

\* The steps of the peer registry that leave the service registry alone: how
\* the main goroutine moves on, and that a watch only ends.
LEMMA PeerFrame ==
    ASSUME PeersTypeOK,
           \/ \E p \in Procs : PeerStep(p)
           \/ \E n \in Names : LeaseExpires(n) /\ UNCHANGED svcVars
    PROVE  /\ UNCHANGED svcVars
           /\ \A q \in Procs :
                 /\ \/ stage'[q] = stage[q]
                    \/ stage[q] = "off" /\ stage'[q] \in {"init", "stop"}
                    \/ stage[q] = "init" /\ stage'[q] = "ready"
                    \/ stage[q] = "unregister" /\ stage'[q] = "leave"
                    \/ /\ phase[q] = "ready" /\ stage[q] \in {"ready", "up"}
                       /\ stage'[q] \in {"up", "stop"}
                 /\ cancelled[q] => cancelled'[q]
<1> DEFINE Moves(q) ==
             \/ stage'[q] = stage[q]
             \/ stage[q] = "off" /\ stage'[q] \in {"init", "stop"}
             \/ stage[q] = "init" /\ stage'[q] = "ready"
             \/ stage[q] = "unregister" /\ stage'[q] = "leave"
             \/ /\ phase[q] = "ready" /\ stage[q] \in {"ready", "up"}
                /\ stage'[q] \in {"up", "stop"}
<1>t. stage \in [Procs -> Stages] /\ cancelled \in [Procs -> BOOLEAN]
  BY Zenon DEF PeersTypeOK
<1>u. UNCHANGED svcVars
  BY Zenon DEF PeerStep
<1>1. ASSUME NEW n \in Names, LeaseExpires(n)
      PROVE  UNCHANGED stage /\ UNCHANGED cancelled
  BY <1>1 DEF LeaseExpires, memory
<1>2. ASSUME NEW p \in Procs,
             OnKvPut(p) \/ OnKvDelete(p) \/ ReRegister(p) \/ NoteRevision(p)
      PROVE  UNCHANGED stage /\ UNCHANGED cancelled
  BY <1>2 DEF OnKvPut, OnKvDelete, ReRegister, NoteRevision
<1>3. ASSUME NEW p \in Procs, OnOwnDelete(p)
      PROVE  UNCHANGED stage /\ cancelled' = [cancelled EXCEPT ![p] = TRUE]
  BY <1>3, Zenon DEF OnOwnDelete
<1>4. ASSUME NEW p \in Procs,
             \/ RegisterSelf(p) \/ RegisterRefused(p) \/ RegisterFails(p) \/ InitPeers(p)
             \/ phase[p] = "ready" /\ call[p] = NoCall /\ Started(p)
             \/ phase[p] = "ready" /\ StopBegin(p)
             \/ UnregisterSelf(p) \/ UnregisterFails(p)
      PROVE  /\ UNCHANGED cancelled
             /\ \/ Goes(p, {"off"}, "init") \/ Goes(p, {"off"}, "stop")
                \/ Goes(p, {"init"}, "ready") \/ Goes(p, {"unregister"}, "leave")
                \/ phase[p] = "ready" /\ Goes(p, {"ready"}, "up")
                \/ phase[p] = "ready" /\ Goes(p, {"ready", "up"}, "stop")
  BY <1>4, Zenon DEF RegisterSelf, RegisterRefused, RegisterFails, InitPeers, Launch, Started,
              StopBegin, UnregisterSelf, UnregisterFails, memory
<1>5. ASSUME NEW p \in Procs,
                \/ Goes(p, {"off"}, "init") \/ Goes(p, {"off"}, "stop")
                \/ Goes(p, {"init"}, "ready") \/ Goes(p, {"unregister"}, "leave")
                \/ phase[p] = "ready" /\ Goes(p, {"ready"}, "up")
                \/ phase[p] = "ready" /\ Goes(p, {"ready", "up"}, "stop")
      PROVE  \A q \in Procs : Moves(q)
  BY <1>5, <1>t DEF Goes
<1>6. UNCHANGED stage => \A q \in Procs : Moves(q)
  BY <1>t
<1> HIDE DEF Moves
<1>7. /\ \A q \in Procs : Moves(q)
      /\ UNCHANGED cancelled \/ \E p \in Procs : cancelled' = [cancelled EXCEPT ![p] = TRUE]
  BY <1>1, <1>2, <1>3, <1>4, <1>5, <1>6, Zenon DEF PeerStep
<1>8. \A q \in Procs : cancelled[q] => cancelled'[q]
  BY <1>7, <1>t, Zenon
<1> QED BY <1>u, <1>7, <1>8 DEF Moves

\* The phase of a process begins when it is ready, and ends with it.
LEMMA PhaseBegins ==
    ASSUME TypeOK, Next, NEW q \in Procs, phase'[q] # "none"
    PROVE  phase[q] # "none" \/ (stage[q] = "ready" /\ UNCHANGED <<stage, selfRevision>>)
<1>t. phase \in [Procs -> {"none", "clean", "ready", "stop", "failed"}]
  BY DEF TypeOK
<1>1. ASSUME NEW p \in Procs, PeerStep(p) \/ StopPeer(p) PROVE UNCHANGED phase
  BY <1>1, Zenon DEF PeerStep, StopPeer, svcVars, svcMemory
<1>2. ASSUME NEW n \in Names, LeaseExpires(n) /\ UNCHANGED svcVars PROVE UNCHANGED phase
  BY <1>2 DEF svcVars, svcMemory
<1>3. ASSUME NEW p \in Procs, ListLeftovers(p)
      PROVE  /\ phase' = [phase EXCEPT ![p] = "clean"] /\ stage[p] = "ready"
             /\ UNCHANGED <<stage, selfRevision>>
  BY <1>3 DEF ListLeftovers, peerVars, procVars
<1>4. ASSUME NEW p \in Procs, SvcEnds(p)
      PROVE  phase' = [phase EXCEPT ![p] = "none"]
  BY <1>4, Zenon DEF SvcEnds
<1>5. ASSUME NEW p \in Procs, InitServices(p) \/ InitServicesFails(p) \/ StopServices(p)
      PROVE  phase[p] # "none" /\ \E x : phase' = [phase EXCEPT ![p] = x]
  BY <1>5 DEF InitServices, InitServicesFails, StopServices
<1>6. ASSUME NEW p \in Procs,
             \/ RegisterStore(p) \/ RegisterIndex(p) \/ RegisterSelfService(p)
             \/ SvcPut(p) \/ SvcDelete(p) \/ WatchStore(p) \/ WatchIndex(p) \/ WatchSelf(p)
             \/ \E s \in Services : \/ CleanLeftover(p, s) \/ StopService(p, s)
                                    \/ RegisterService(p, s) \/ RegisterServiceFails(p, s)
                                    \/ UnregisterService(p, s)
      PROVE  UNCHANGED phase
  BY <1>6, Zenon DEF RegisterStore, RegisterIndex,
       RegisterSelfService, SvcPut, SvcDelete, WatchStore, WatchIndex, WatchSelf, CleanLeftover,
       StopService, RegisterService, RegisterServiceFails, Registers, UnregisterService
<1>7. CASE UNCHANGED phase
  BY <1>7
<1>8. ASSUME NEW p \in Procs, ListLeftovers(p)
      PROVE  phase[q] # "none" \/ (stage[q] = "ready" /\ UNCHANGED <<stage, selfRevision>>)
  BY <1>3, <1>8, <1>t
<1>9. ASSUME NEW p \in Procs, SvcEnds(p) \/ InitServices(p) \/ InitServicesFails(p) \/ StopServices(p)
      PROVE  phase[q] # "none"
  BY <1>4, <1>5, <1>9, <1>t
<1> QED BY <1>1, <1>2, <1>6, <1>7, <1>8, <1>9, Zenon DEF Next, ServiceStep

\* What a step does to the revision, the watch and the stage of a process that
\* matter for its key.
LEMMA MemberSteps ==
    ASSUME PeersTypeOK, Next, NEW q \in Procs
    PROVE  \/ RegisterSelf(q)
           \/ stage'[q] = "off" /\ watch'[q] = "none" /\ selfRevision'[q] = 0
           \/ selfRevision'[q] = selfRevision[q] /\ stage[q] = "off" /\ stage'[q] = "stop"
              /\ watch'[q] = watch[q]
           \/ /\ selfRevision'[q] = selfRevision[q] /\ watch'[q] = watch[q]
              /\ stage'[q] = stage[q]
           \/ /\ selfRevision'[q] = selfRevision[q] /\ Member(q) /\ stage'[q] \notin {"off", "leave"}
           \/ /\ selfRevision'[q] = selfRevision[q] /\ watch'[q] = watch[q]
              /\ stage[q] \in {"stop", "unregister"} /\ stage'[q] \in {"unregister", "leave"}
              /\ stage[q] = "unregister" => stage'[q] = "leave"
           \/ /\ selfRevision'[q] # 0 /\ watch[q] # "none" /\ watch'[q] = watch[q]
              /\ stage'[q] = stage[q]
<1> DEFINE Goal ==
           \/ RegisterSelf(q)
           \/ stage'[q] = "off" /\ watch'[q] = "none" /\ selfRevision'[q] = 0
           \/ selfRevision'[q] = selfRevision[q] /\ stage[q] = "off" /\ stage'[q] = "stop"
              /\ watch'[q] = watch[q]
           \/ /\ selfRevision'[q] = selfRevision[q] /\ watch'[q] = watch[q]
              /\ stage'[q] = stage[q]
           \/ /\ selfRevision'[q] = selfRevision[q] /\ Member(q) /\ stage'[q] \notin {"off", "leave"}
           \/ /\ selfRevision'[q] = selfRevision[q] /\ watch'[q] = watch[q]
              /\ stage[q] \in {"stop", "unregister"} /\ stage'[q] \in {"unregister", "leave"}
              /\ stage[q] = "unregister" => stage'[q] = "leave"
           \/ /\ selfRevision'[q] # 0 /\ watch[q] # "none" /\ watch'[q] = watch[q]
              /\ stage'[q] = stage[q]
<1>t. /\ stage \in [Procs -> Stages] /\ selfRevision \in [Procs -> Nat]
      /\ watch \in [Procs -> {"none", "known", "watching", "notify", "done"}]
      /\ reply[q] # 0 => watch[q] # "none"
  BY DEF PeersTypeOK
<1>1. ASSUME UNCHANGED <<stage, watch, selfRevision>> PROVE Goal
  BY <1>1
<1>2. ASSUME NEW n \in Names, LeaseExpires(n) PROVE UNCHANGED <<stage, watch, selfRevision>>
  BY <1>2 DEF LeaseExpires, memory
<1>3. ASSUME NEW p \in Procs, OnKvPut(p) \/ OnKvDelete(p) \/ OnOwnDelete(p) \/ ReRegister(p)
      PROVE  UNCHANGED <<stage, watch, selfRevision>>
  BY <1>3 DEF OnKvPut, OnKvDelete, OnOwnDelete, ReRegister
<1>4. ASSUME NEW p \in Procs, NoteRevision(p) PROVE Goal
  BY <1>4, <1>t DEF NoteRevision
<1>5. ASSUME NEW p \in Procs, RegisterSelf(p) PROVE Goal
  <2>1. CASE p = q
    BY <1>5, <2>1
  <2>2. CASE p # q
    BY <1>5, <2>2, <1>t DEF RegisterSelf, Launch, Goes
  <2> QED BY <2>1, <2>2
<1>6. ASSUME NEW p \in Procs, RegisterRefused(p) \/ RegisterFails(p) PROVE Goal
  <2>1. Goes(p, {"off"}, "stop") /\ UNCHANGED <<watch, selfRevision>>
    BY <1>6, Zenon DEF RegisterRefused, RegisterFails, Launch
  <2> QED BY <2>1, <1>t DEF Goes
<1>7. ASSUME NEW p \in Procs, InitPeers(p) \/ Started(p) \/ StopBegin(p) \/ InitServicesFails(p) PROVE Goal
  <2>1. \/ Goes(p, {"init"}, "ready") \/ Goes(p, {"ready"}, "up") \/ Goes(p, {"ready", "up"}, "stop")
        \/ Goes(p, {"ready"}, "stop")
    BY <1>7, Zenon DEF InitPeers, Started, StopBegin, InitServicesFails
  <2>2. UNCHANGED selfRevision /\ \E x : watch' = [watch EXCEPT ![p] = x]
    BY <1>7, <1>t DEF InitPeers, Started, StopBegin, InitServicesFails, memory
  <2>3. CASE p = q
    BY <2>1, <2>2, <2>3, <1>t DEF Goes, Member
  <2>4. CASE p # q
    BY <2>1, <2>2, <2>4, <1>t DEF Goes
  <2> QED BY <2>3, <2>4
<1>8. ASSUME NEW p \in Procs, UnregisterBegin(p) \/ UnregisterSelf(p) \/ UnregisterFails(p) PROVE Goal
  <2>1. /\ Goes(p, {"stop"}, "unregister") \/ Goes(p, {"unregister"}, "leave")
        /\ UNCHANGED <<watch, selfRevision>>
    BY <1>8, Zenon DEF UnregisterBegin, UnregisterSelf, UnregisterFails, memory
  <2> QED BY <2>1, <1>t DEF Goes
<1>9. ASSUME NEW p \in Procs, Ends(p) PROVE Goal
  BY <1>9, <1>t DEF Ends
<1>10. UNCHANGED peerVars => UNCHANGED <<stage, watch, selfRevision>>
  BY DEF peerVars, procVars
<1>11. ASSUME NEW p \in Procs, UnregisterPanics(p) \/ Exit(p) \/ Crash(p) PROVE Ends(p)
  BY <1>11 DEF UnregisterPanics, Exit, Crash
<1> HIDE DEF Goal
<1>12. Goal
  <2>1. ASSUME NEW p \in Procs, PeerStep(p) PROVE Goal
    BY <2>1, <1>1, <1>3, <1>4, <1>5, <1>6, <1>7, <1>8, Zenon DEF PeerStep
  <2>2. ASSUME NEW p \in Procs, StopPeer(p) \/ SvcEnds(p) \/ InitServicesFails(p) PROVE Goal
    BY <2>2, <1>7, <1>8, <1>9, <1>11, Zenon DEF StopPeer, SvcEnds
  <2> QED BY <2>1, <2>2, <1>1, <1>2, <1>10, LocalSteps, NextCases, Zenon
<1> QED BY <1>12 DEF Goal

\* The key of a process that is not off stays, without lost leases and commits,
\* until the process leaves: another one may not put it, its lease does not run
\* out, and nobody else deletes it (peer.go:381, 464).
LEMMA OwnKeyStep ==
    ASSUME PeersTypeOK, KeyShape, Next, Steady, NEW q \in Procs, stage[q] # "off",
           Own(q).value = AddrOf[q]
    PROVE  Own(q)'.value = AddrOf[q] \/ stage'[q] = "leave"
<1> DEFINE n == NameOf[q]
<1>t. /\ n \in Names /\ rev \in Nat /\ peerKey \in [Names -> KeyType] /\ AddrOf[q] \in Addrs
      /\ stage \in [Procs -> Stages]
  BY ConstantFacts DEF PeersTypeOK, KeyType
<1>e. Exists(n)
  <2>1. peerKey[n] # NoKey
    BY ConstantFacts DEF Own, NoKey
  <2> QED BY <1>t, <2>1 DEF KeyShape
<1>1. CASE UNCHANGED storeVars
  BY <1>1 DEF storeVars, Own
<1>2. ASSUME NEW p \in Procs, ~Taken(p), NEW queues, PutKey(p, queues)
      PROVE  Own(q)'.value = AddrOf[q]
  <2>1. /\ \A m \in Names : m # NameOf[p] => peerKey'[m] = peerKey[m]
        /\ peerKey'[NameOf[p]].value = AddrOf[p]
    BY <1>t, <1>2, PutKeys
  <2>2. CASE NameOf[p] = n
    BY <1>2, <1>e, <2>1, <2>2 DEF Taken, Own
  <2>3. CASE NameOf[p] # n
    BY <1>t, <2>1, <2>3 DEF Own
  <2> QED BY <2>2, <2>3
<1>3. ASSUME NEW m \in Names, DeleteKey(m), m # n
      PROVE  Own(q)'.value = AddrOf[q]
  BY <1>t, <1>3, DeleteKeys DEF Own
<1>4. ASSUME NEW m \in Names, LeaseExpires(m) PROVE m # n
  <2>1. peerKey[m].lease # NoProc
    BY <1>4 DEF LeaseExpires
  <2>2. <<peerKey[m].lease, "expire">> \in Env \/ stage[peerKey[m].lease] = "off"
    BY <1>4 DEF LeaseExpires
  <2>3. ASSUME m = n PROVE FALSE
    <3>1. PICK p \in Procs : peerKey[m].value = AddrOf[p] /\ peerKey[m].lease \in {p, NoProc}
      BY <1>e, <2>3, <2>1 DEF KeyShape, NoKey, Exists
    <3>2. p = q
      BY <2>3, <3>1, ConstantFacts DEF Own
    <3>3. peerKey[m].lease = q
      BY <2>1, <3>1, <3>2
    <3>4. <<q, "expire">> \notin Env
      BY DEF Steady
    <3> QED BY <2>2, <3>3, <3>4
  <2> QED BY <2>3
<1>5. ASSUME NEW p \in Procs, UnregisterSelf(p) \/ UnregisterFails(p)
      PROVE  \/ UNCHANGED storeVars
             \/ /\ Own(p).value = AddrOf[p] /\ DeleteKey(NameOf[p]) 
                /\ stage' = [stage EXCEPT ![p] = "leave"]
  BY <1>5, Zenon DEF UnregisterSelf, UnregisterFails, Goes, Unregisterable
<1>6. ASSUME NEW p \in Procs, UnregisterSelf(p) \/ UnregisterFails(p)
      PROVE  Own(q)'.value = AddrOf[q] \/ stage'[q] = "leave"
  <2>1. CASE UNCHANGED storeVars
    BY <1>1, <2>1
  <2>2. CASE /\ Own(p).value = AddrOf[p] /\ DeleteKey(NameOf[p]) 
             /\ stage' = [stage EXCEPT ![p] = "leave"]
    <3>1. CASE p = q
      BY <1>t, <2>2, <3>1
    <3>2. CASE p # q
      <4>1. NameOf[p] # n /\ NameOf[p] \in Names
        BY <2>2, <3>2, ConstantFacts DEF Own
      <4> QED BY <1>3, <2>2, <4>1
    <3> QED BY <3>1, <3>2
  <2> QED BY <1>5, <1>6, <2>1, <2>2
<1>7. ASSUME NEW p \in Procs, RegisterSelf(p) \/ RegisterFails(p) \/ ReRegister(p)
      PROVE  UNCHANGED storeVars \/ (~Taken(p) /\ (\E queues : PutKey(p, queues)))
  BY <1>7, Zenon DEF RegisterSelf, RegisterFails, ReRegister
<1>8. ASSUME NEW p \in Procs,
             \/ RegisterRefused(p) \/ InitPeers(p) \/ Started(p) \/ StopBegin(p)
             \/ UnregisterBegin(p) \/ UnregisterPanics(p) \/ Exit(p) \/ Crash(p)
             \/ OnKvPut(p) \/ OnKvDelete(p) \/ OnOwnDelete(p) \/ NoteRevision(p)
             \/ InitServicesFails(p)
      PROVE  UNCHANGED storeVars
  BY <1>8 DEF RegisterRefused, InitPeers, Started, StopBegin, UnregisterBegin, UnregisterPanics,
              Exit, Crash, Ends, OnKvPut, OnKvDelete, OnOwnDelete, NoteRevision, InitServicesFails
<1>9. UNCHANGED peerVars => UNCHANGED storeVars
  BY DEF peerVars
<1>10. ASSUME NEW m \in Names, LeaseExpires(m)
       PROVE  Own(q)'.value = AddrOf[q]
  BY <1>3, <1>4, <1>10 DEF LeaseExpires
<1>11. ASSUME NEW p \in Procs, PeerStep(p)
       PROVE  Own(q)'.value = AddrOf[q] \/ stage'[q] = "leave"
  BY <1>1, <1>2, <1>6, <1>7, <1>8, <1>11, Zenon DEF PeerStep
<1>12. ASSUME NEW p \in Procs, StopPeer(p) \/ SvcEnds(p) \/ InitServicesFails(p)
       PROVE  UNCHANGED storeVars
  BY <1>8, <1>12, Zenon DEF StopPeer, SvcEnds
<1> QED BY <1>1, <1>9, <1>10, <1>11, <1>12, NextCases, LocalSteps, Zenon

\* A process that is off has ended, with its service registry.
LEMMA EndsOff ==
    ASSUME TypeOK, Next, NEW q \in Procs, stage[q] # "off", stage'[q] = "off"
    PROVE  SvcEnds(q)
<1>t. PeersTypeOK /\ stage \in [Procs -> Stages]
  BY DEF TypeOK, PeersTypeOK
<1>1. ASSUME NEW p \in Procs, SvcEnds(p) PROVE p = q
  <2>1. stage' = [stage EXCEPT ![p] = "off"]
    BY <1>1, Zenon DEF SvcEnds, Exit, Crash, UnregisterPanics, Ends
  <2> QED BY <1>t, <2>1
<1>2. ASSUME NEW p \in Procs, StopPeer(p) \/ InitServicesFails(p) PROVE FALSE
  <2>1. \E x \in {"unregister", "stop"} : stage' = [stage EXCEPT ![p] = x]
    BY <1>2 DEF StopPeer, UnregisterBegin, InitServicesFails, Goes
  <2> QED BY <1>t, <2>1
<1>3. ASSUME NEW p \in Procs, LocalStep(p) PROVE FALSE
  <2>1. UNCHANGED stage
    BY <1>3, LocalSteps DEF peerVars, procVars
  <2> QED BY <2>1
<1>4. ~(\E p \in Procs : PeerStep(p)) /\ ~(\E n \in Names : LeaseExpires(n) /\ UNCHANGED svcVars)
  BY <1>t, PeerFrame
<1> QED BY <1>1, <1>2, <1>3, <1>4, NextCases, Zenon

\* Who has a service registry has a revision, and its key.
LEMMA MembersStep ==
    ASSUME TypeOK, KeyShape, MembersHaveKey, Next
    PROVE  MembersHaveKey'
<1> SUFFICES ASSUME NEW q \in Procs
             PROVE  /\ stage'[q] = "off" => selfRevision'[q] = 0
                    /\ Member(q)' \/ watch'[q] # "none" \/ phase'[q] # "none" => selfRevision'[q] # 0
                    /\ (Steady /\ stage'[q] \notin {"off", "leave"} /\ selfRevision'[q] # 0) =>
                          Own(q)'.value = AddrOf[q]
  BY Zenon DEF MembersHaveKey, Steady
<1>t. PeersTypeOK /\ rev \in Nat /\ peerKey \in [Names -> KeyType] /\ stage \in [Procs -> Stages]
      /\ selfRevision \in [Procs -> Nat]
  BY DEF TypeOK, PeersTypeOK, KeyType
<1>i. /\ stage[q] = "off" => selfRevision[q] = 0
      /\ Member(q) \/ watch[q] # "none" \/ phase[q] # "none" => selfRevision[q] # 0
      /\ (Steady /\ stage[q] \notin {"off", "leave"} /\ selfRevision[q] # 0) =>
            Own(q).value = AddrOf[q]
  BY DEF MembersHaveKey
<1>p. phase'[q] # "none" => \/ phase[q] # "none" 
                            \/ stage[q] = "ready" /\ UNCHANGED <<stage, selfRevision>>
  BY PhaseBegins
<1>k. Steady /\ stage[q] \notin {"off", "leave"} /\ selfRevision[q] # 0 =>
        Own(q)'.value = AddrOf[q] \/ stage'[q] = "leave"
  BY <1>t, <1>i, OwnKeyStep
<1>1. CASE RegisterSelf(q)
  <2>1. /\ stage' = [stage EXCEPT ![q] = "init"] /\ PutKey(q, events)
        /\ selfRevision' = [selfRevision EXCEPT ![q] = rev + 1]
    BY <1>1 DEF RegisterSelf, Launch, Goes
  <2>2. Own(q)'.value = AddrOf[q]
    BY <1>t, <2>1, PutKeys DEF Own
  <2> QED BY <1>t, <2>1, <2>2
<1>2. CASE stage'[q] = "off" /\ watch'[q] = "none" /\ selfRevision'[q] = 0
  <2>1. phase'[q] = "none"
    <3>1. CASE stage[q] = "off"
      BY <1>2, <1>i, <1>p, <3>1
    <3>2. CASE stage[q] # "off"
      <4>1. phase' = [phase EXCEPT ![q] = "none"]
        BY <1>2, <3>2, EndsOff DEF SvcEnds
      <4> QED BY <4>1 DEF TypeOK
    <3> QED BY <3>1, <3>2
  <2> QED BY <1>2, <2>1 DEF Member
<1>3. CASE /\ selfRevision'[q] = selfRevision[q] /\ stage[q] = "off" /\ stage'[q] = "stop"
           /\ watch'[q] = watch[q]
  BY <1>3, <1>i, <1>p DEF Member
<1>4. CASE /\ selfRevision'[q] = selfRevision[q] /\ watch'[q] = watch[q] /\ stage'[q] = stage[q]
  BY <1>4, <1>i, <1>p, <1>k DEF Member
<1>5. CASE selfRevision'[q] = selfRevision[q] /\ Member(q) /\ stage'[q] \notin {"off", "leave"}
  BY <1>5, <1>i, <1>k DEF Member
<1>6. CASE /\ selfRevision'[q] = selfRevision[q] /\ watch'[q] = watch[q]
           /\ stage[q] \in {"stop", "unregister"} /\ stage'[q] \in {"unregister", "leave"}
           /\ stage[q] = "unregister" => stage'[q] = "leave"
  BY <1>6, <1>i, <1>p, <1>k DEF Member
<1>7. CASE /\ selfRevision'[q] # 0 /\ watch[q] # "none" /\ watch'[q] = watch[q]
           /\ stage'[q] = stage[q]
  BY <1>7, <1>i, <1>k
<1> QED BY <1>t, <1>1, <1>2, <1>3, <1>4, <1>5, <1>6, <1>7, MemberSteps

\* Two active service registries never have one name.
LEMMA AloneHolds ==
    ASSUME OneDeployment \/ Steady, PhaseShape, MembersHaveKey
    PROVE  Alone
<1>1. CASE OneDeployment
  BY <1>1 DEF OneDeployment, Alone
<1>2. CASE Steady
  <2>1. ASSUME NEW p \in Procs, Active(p) PROVE Own(p).value = AddrOf[p]
    BY <1>2, <2>1 DEF Active, PhaseShape, MembersHaveKey
  <2> QED BY <2>1, ConstantFacts DEF Alone, Own
<1> QED BY <1>1, <1>2

-----------------------------------------------------------------------------
(* The keys of the services.                                               *)

SvcKeyType == [value : Names \cup {Unknown}, create : Nat]
EntryType == [peer : Names \cup {Unknown}, isSelf : BOOLEAN]
CallType == [svc : Services, create : 1 .. MaxCalls, at : Steps]
HandType == [svc : Services, owner : Names \cup {Unknown}, at : Steps, isSelf : BOOLEAN]
SvcQueues == [Procs -> Seq(SvcEv)]

\* What the change of a service key leaves in the queues.
LEMMA SvcBroadcastQueues ==
    ASSUME svcEvents \in SvcQueues, NEW s \in Services, NEW n \in Names \cup {Unknown},
           SvcBroadcast(s, n)
    PROVE  /\ svcEvents' \in SvcQueues /\ [svc |-> s, owner |-> n] \in SvcEv
           /\ \A q \in Procs :
                 svcEvents'[q] = IF SvcListening(q) THEN Append(svcEvents[q], [svc |-> s, owner |-> n])
                                 ELSE svcEvents[q]
<1> DEFINE e == [svc |-> s, owner |-> n]
           new(q) == IF SvcListening(q) THEN Append(svcEvents[q], e) ELSE svcEvents[q]
<1>1. e \in SvcEv
  BY DEF SvcEv
<1>2. svcEvents' = [q \in Procs |-> new(q)]
  BY DEF SvcBroadcast
<1>3. ASSUME NEW q \in Procs PROVE new(q) \in Seq(SvcEv)
  <2>1. svcEvents[q] \in Seq(SvcEv)
    BY DEF SvcQueues
  <2>2. Append(svcEvents[q], e) \in Seq(SvcEv)
    BY <1>1, <2>1, AppendAt
  <2> QED BY <2>1, <2>2
<1>4. \A q \in Procs : svcEvents'[q] = new(q)
  BY <1>2, Zenon
<1> HIDE DEF new
<1>5. svcEvents' \in SvcQueues
  BY <1>2, <1>3 DEF SvcQueues
<1> QED BY <1>1, <1>4, <1>5 DEF new

\* A registration: both keys, and they were free.
LEMMA PutServiceKeys ==
    ASSUME TypeOK, ServiceKeysAgree, SvcKeyShape, NEW p \in Procs, NEW s \in Services,
           PutService(p, s), svcKey[s].create = 0
    PROVE  /\ svcKey' \in [Services -> SvcKeyType] /\ peerSvc' \in [Names -> SUBSET Services]
           /\ svcKey'[s] = [value |-> NameOf[p], create |-> calls + 1]
           /\ \A t \in Services : t # s => svcKey'[t] = svcKey[t]
           /\ \A n \in Names : n # NameOf[p] => peerSvc'[n] = peerSvc[n]
           /\ svcKey[s].value = Unknown
           /\ ServiceKeysAgree'
<1>t. /\ svcKey \in [Services -> SvcKeyType] /\ peerSvc \in [Names -> SUBSET Services]
      /\ calls \in Nat /\ NameOf[p] \in Names
  BY ServiceFacts DEF TypeOK, SvcKeyType
<1> DEFINE k == [value |-> NameOf[p], create |-> calls + 1]
<1>1. /\ svcKey' = [svcKey EXCEPT ![s] = k] /\ k \in SvcKeyType
      /\ peerSvc' = [peerSvc EXCEPT ![NameOf[p]] = @ \cup {s}]
  BY <1>t DEF PutService, SvcKeyType
<1>2. /\ svcKey' \in [Services -> SvcKeyType] /\ svcKey'[s] = k
      /\ \A t \in Services : t # s => svcKey'[t] = svcKey[t]
  BY <1>1, <1>t
<1>3. /\ peerSvc' \in [Names -> SUBSET Services]
      /\ peerSvc'[NameOf[p]] = peerSvc[NameOf[p]] \cup {s}
      /\ \A n \in Names : n # NameOf[p] => peerSvc'[n] = peerSvc[n]
  BY <1>1, <1>t
<1>4. svcKey[s].value = Unknown
  BY DEF SvcKeyShape
<1>5. ServiceKeysAgree'
  <2> SUFFICES ASSUME NEW n \in Names, NEW t \in Services
               PROVE  t \in peerSvc'[n] <=> svcKey'[t].value = n
    BY DEF ServiceKeysAgree
  <2>1. t \in peerSvc[n] <=> svcKey[t].value = n
    BY DEF ServiceKeysAgree
  <2>2. k.value = NameOf[p]
    OBVIOUS
  <2> HIDE DEF k
  <2>3. CASE t = s
    BY <1>2, <1>3, <1>4, <2>1, <2>2, <2>3, ServiceFacts
  <2>4. CASE t # s
    BY <1>2, <1>3, <2>1, <2>4
  <2> QED BY <2>3, <2>4
<1> QED BY <1>2, <1>3, <1>4, <1>5

\* A deletion by the owner: both keys.
LEMMA DeleteServiceKeys ==
    ASSUME TypeOK, ServiceKeysAgree, NEW p \in Procs, NEW s \in Services,
           DeleteService(p, s), svcKey[s].value = NameOf[p]
    PROVE  /\ svcKey' \in [Services -> SvcKeyType] /\ peerSvc' \in [Names -> SUBSET Services]
           /\ svcKey'[s] = NoSvcKey
           /\ \A t \in Services : t # s => svcKey'[t] = svcKey[t]
           /\ peerSvc'[NameOf[p]] = peerSvc[NameOf[p]] \ {s}
           /\ \A n \in Names : n # NameOf[p] => peerSvc'[n] = peerSvc[n]
           /\ ServiceKeysAgree'
<1>t. /\ svcKey \in [Services -> SvcKeyType] /\ peerSvc \in [Names -> SUBSET Services]
      /\ NameOf[p] \in Names /\ NoSvcKey \in SvcKeyType
  BY ServiceFacts DEF TypeOK, SvcKeyType, NoSvcKey
<1>1. /\ svcKey' = [svcKey EXCEPT ![s] = NoSvcKey]
      /\ peerSvc' = [peerSvc EXCEPT ![NameOf[p]] = @ \ {s}]
  BY DEF DeleteService
<1>2. /\ svcKey' \in [Services -> SvcKeyType] /\ svcKey'[s] = NoSvcKey
      /\ \A t \in Services : t # s => svcKey'[t] = svcKey[t]
  BY <1>1, <1>t
<1>3. /\ peerSvc' \in [Names -> SUBSET Services]
      /\ peerSvc'[NameOf[p]] = peerSvc[NameOf[p]] \ {s}
      /\ \A n \in Names : n # NameOf[p] => peerSvc'[n] = peerSvc[n]
  BY <1>1, <1>t
<1>5. ServiceKeysAgree'
  <2> SUFFICES ASSUME NEW n \in Names, NEW t \in Services
               PROVE  t \in peerSvc'[n] <=> svcKey'[t].value = n
    BY DEF ServiceKeysAgree
  <2>1. t \in peerSvc[n] <=> svcKey[t].value = n
    BY DEF ServiceKeysAgree
  <2>2. NoSvcKey.value = Unknown
    BY DEF NoSvcKey
  <2>3. CASE t = s
    BY <1>2, <1>3, <2>1, <2>2, <2>3, ServiceFacts
  <2>4. CASE t # s
    BY <1>2, <1>3, <2>1, <2>4
  <2> QED BY <2>3, <2>4
<1> QED BY <1>2, <1>3, <1>5

\* A deletion of the keys of the service s, by p.
Releases(p, s) ==
    /\ DeleteService(p, s) /\ svcKey[s].value = NameOf[p]
    /\ Active(p) /\ call[p] = NoCall
    /\ \/ phase[p] # "clean" /\ leftovers' = leftovers
       \/ leftovers' = [leftovers EXCEPT ![p] = @ \ {s}]
    /\ UNCHANGED <<peerVars, phase, services, selfServices, prefixIndex, call, handling, dropped,
                   raced, unsure, calls>>

\* The stop leaves the keys of s: they are not those of its entry, or an error.
Leaves(p, s) ==
    \/ /\ svcKey[s].create # selfServices[p][s] \/ svcKey[s].create = 0
       /\ UNCHANGED unsure
    \/ unsure' = [unsure EXCEPT ![p] = @ \cup {s}]

\* A registration that changes the keys, whatever the process is told.
Puts(p, s) == Registers(p, s) /\ (RegisterService(p, s) \/ RegisterServiceFails(p, s))

\* What a call of RegisterService may do.
LEMMA PutCases ==
    ASSUME NEW p \in Procs, NEW s \in Services,
           RegisterService(p, s) \/ RegisterServiceFails(p, s)
    PROVE  Puts(p, s)
  BY Zenon DEF RegisterService, RegisterServiceFails, Puts

\* Whoever deletes the keys of a service is its owner, and is active: the start
\* by what it has listed, the stop by the CreateRevision (service.go:429, 498,
\* 548).
LEMMA DeletesOwn ==
    ASSUME SvcIInv, NEW p \in Procs, NEW s \in Services
    PROVE  /\ CleanLeftover(p, s) => Releases(p, s)
           /\ UnregisterService(p, s) => Releases(p, s)
           /\ StopService(p, s) =>
                 \/ Releases(p, s)
                 \/ /\ Leaves(p, s)
                    /\ leftovers' = [leftovers EXCEPT ![p] = @ \ {s}]
                    /\ phase[p] = "stop" /\ stage[p] = "stop"
                    /\ UNCHANGED <<peerVars, svcStore, svcEvents, phase, services, selfServices,
                                   prefixIndex, call, handling, dropped, raced, calls>>
<1>i. /\ TypeOK /\ PhaseShape /\ SvcKeyShape /\ ServiceKeysAgree /\ LeftoversOwn /\ RevisionsOwn
  BY DEF SvcIInv, ServicesInv
<1>t. /\ svcKey[s].create \in Nat /\ selfServices[p][s] \in Nat \cup {-1}
      /\ NameOf[p] \in Names /\ NameOf[p] # Unknown
  BY <1>i, ServiceFacts DEF TypeOK
<1>a. phase[p] \in {"clean", "ready"} \/ (phase[p] = "stop" /\ leftovers[p] # {}) => Active(p)
  BY <1>i DEF PhaseShape, Active
<1>1. ASSUME CleanLeftover(p, s) PROVE Releases(p, s)
  <2>1. phase[p] = "clean" /\ s \in leftovers[p]
    BY <1>1 DEF CleanLeftover
  <2>2. svcKey[s].value = NameOf[p]
    BY <1>i, <1>t, <2>1 DEF LeftoversOwn, ServiceKeysAgree
  <2>3. svcKey[s].create # 0
    BY <1>i, <1>t, <2>2 DEF SvcKeyShape
  <2>4. Active(p) /\ call[p] = NoCall
    BY <1>a, <1>i, <2>1 DEF PhaseShape
  <2> QED BY <1>1, <2>2, <2>3, <2>4 DEF CleanLeftover, Releases
<1>2. ASSUME UnregisterService(p, s) PROVE Releases(p, s)
  BY <1>a, <1>2 DEF UnregisterService, Releases
<1>3. ASSUME StopService(p, s), svcKey[s].create = selfServices[p][s], svcKey[s].create # 0,
             DeleteService(p, s), UNCHANGED unsure
      PROVE  Releases(p, s)
  <2>1. phase[p] = "stop" /\ s \in leftovers[p] /\ DeleteService(p, s)
        /\ leftovers' = [leftovers EXCEPT ![p] = @ \ {s}]
        /\ UNCHANGED <<peerVars, phase, services, selfServices,
                       prefixIndex, call, handling, dropped, raced, calls>>
    BY <1>3 DEF StopService
  <2>2. svcKey[s].value = NameOf[p]
    BY <1>i, <1>t, <1>3 DEF RevisionsOwn
  <2>3. Active(p) /\ call[p] = NoCall
    BY <1>a, <1>i, <2>1 DEF PhaseShape
  <2> QED BY <1>3, <2>1, <2>2, <2>3 DEF Releases
<1>4. ASSUME StopService(p, s), Leaves(p, s), UNCHANGED <<svcStore, svcEvents>>
      PROVE  /\ leftovers' = [leftovers EXCEPT ![p] = @ \ {s}]
             /\ phase[p] = "stop" /\ stage[p] = "stop"
             /\ UNCHANGED <<peerVars, svcStore, svcEvents, phase, services, selfServices,
                            prefixIndex, call, handling, dropped, raced, calls>>
  <2>1. phase[p] = "stop" /\ s \in leftovers[p]
    BY <1>4 DEF StopService
  <2>2. stage[p] = "stop"
    BY <1>i, <2>1 DEF PhaseShape
  <2> QED BY <1>4, <2>1, <2>2 DEF StopService
<1>5. ASSUME StopService(p, s)
      PROVE  \/ /\ svcKey[s].create = selfServices[p][s] /\ svcKey[s].create # 0
                /\ DeleteService(p, s) /\ UNCHANGED unsure
             \/ Leaves(p, s) /\ UNCHANGED <<svcStore, svcEvents>>
  BY <1>5, Zenon DEF StopService, Leaves
<1> QED BY <1>1, <1>2, <1>3, <1>4, <1>5

-----------------------------------------------------------------------------
(* The shape of the state.                                                 *)

Phases == {"none", "clean", "ready", "stop", "failed"}

SvcTypes ==
    /\ svcKey \in [Services -> SvcKeyType] /\ peerSvc \in [Names -> SUBSET Services]
    /\ phase \in [Procs -> Phases] /\ leftovers \in [Procs -> SUBSET Services]
    /\ services \in [Procs -> [Services -> EntryType]]
    /\ selfServices \in [Procs -> [Services -> Nat \cup {-1}]]
    /\ prefixIndex \in [Procs -> TriesOver(Nodes)]
    /\ \A p \in Procs : Set(prefixIndex[p]) \subseteq Services
    /\ call \in [Procs -> {NoCall} \cup CallType]
    /\ handling \in [Procs -> {Idle} \cup HandType]
    /\ svcEvents \in SvcQueues
    /\ dropped \in [Procs -> SUBSET Services] /\ raced \in [Procs -> SUBSET Services]
    /\ unsure \in [Procs -> SUBSET Services]
    /\ calls \in 0 .. MaxCalls

\* The shape of the state, of both registries.
LEMMA TypesAre == TypeOK <=> PeersTypeOK /\ SvcTypes
  BY Zenon DEF TypeOK, SvcTypes, SvcKeyType, Phases, EntryType, CallType, HandType, SvcQueues, SvcEv

\* The records that stand for nothing, by their fields.
LEMMA NothingFields ==
    /\ NoService \in EntryType /\ NoService.peer = Unknown
    /\ NoCall.svc = <<>> /\ NoCall.at = "none"
    /\ Idle.svc = <<>> /\ Idle.at = "none" /\ Idle.owner = Unknown
    /\ NoSvcKey.value = Unknown /\ NoSvcKey.create = 0
    /\ NoCall \notin CallType /\ Idle \notin HandType
  BY ServiceFacts DEF NoService, NoCall, Idle, NoSvcKey, EntryType, CallType, HandType, Steps

\* An entry with an owner is an entry.
LEMMA EntryFields ==
    ASSUME NEW n \in Names, NEW b \in BOOLEAN
    PROVE  /\ [peer |-> n, isSelf |-> b] \in EntryType
           /\ [peer |-> n, isSelf |-> b].peer = n
           /\ [peer |-> n, isSelf |-> b] # NoService
  BY ServiceFacts DEF EntryType, NoService

\* A call, and an event in hands.
LEMMA CallFields ==
    ASSUME SvcTypes, NEW p \in Procs
    PROVE  /\ call[p].at # "none" <=> call[p] # NoCall
           /\ call[p] # NoCall => 
                 /\ call[p] \in CallType /\ call[p].svc \in Services /\ call[p].svc # <<>>
                 /\ call[p].create \in 1 .. MaxCalls /\ call[p].at \in Steps
           /\ call[p] = NoCall => call[p].svc \notin Services
<1>1. call[p] \in {NoCall} \cup CallType
  BY DEF SvcTypes
<1>2. CASE call[p] = NoCall
  BY <1>2, NothingFields, ServiceFacts
<1>3. CASE call[p] \in CallType
  BY <1>3, NothingFields, ServiceFacts DEF CallType, Steps
<1> QED BY <1>1, <1>2, <1>3

\* An event in hands has a service, an owner or none, and a place.
LEMMA HandFields ==
    ASSUME SvcTypes, NEW p \in Procs
    PROVE  /\ handling[p].at # "none" <=> handling[p] # Idle
           /\ handling[p] # Idle =>
                 /\ handling[p] \in HandType /\ handling[p].svc \in Services
                 /\ handling[p].svc # <<>> /\ handling[p].owner \in Names \cup {Unknown}
                 /\ handling[p].at \in Steps /\ handling[p].isSelf \in BOOLEAN
           /\ handling[p] = Idle => handling[p].svc \notin Services
<1>1. handling[p] \in {Idle} \cup HandType
  BY DEF SvcTypes
<1>2. CASE handling[p] = Idle
  BY <1>2, NothingFields, ServiceFacts
<1>3. CASE handling[p] \in HandType
  BY <1>3, NothingFields, ServiceFacts DEF HandType, Steps
<1> QED BY <1>1, <1>2, <1>3

\* The event that the watch takes.
LEMMA TakeFields ==
    ASSUME SvcTypes, NEW p \in Procs, TakeSvcEvent(p)
    PROVE  /\ svcEvents[p] \in Seq(SvcEv) /\ svcEvents[p] # <<>>
           /\ SvcEvent(p) \in SvcEv /\ SvcEvent(p) = svcEvents[p][1]
           /\ SvcEvent(p).svc \in Services /\ SvcEvent(p).owner \in Names \cup {Unknown}
           /\ svcEvents' = [svcEvents EXCEPT ![p] = Tail(@)]
           /\ svcEvents' \in SvcQueues /\ svcEvents'[p] = Tail(svcEvents[p])
           /\ handling[p] = Idle
<1>1. /\ svcEvents[p] \in Seq(SvcEv) /\ svcEvents[p] # <<>> /\ handling[p] = Idle
      /\ svcEvents' = [svcEvents EXCEPT ![p] = Tail(@)] /\ svcEvents \in [Procs -> Seq(SvcEv)]
  BY DEF SvcTypes, SvcQueues, TakeSvcEvent
<1>2. SvcEvent(p) \in SvcEv /\ SvcEvent(p) = svcEvents[p][1] /\ Tail(svcEvents[p]) \in Seq(SvcEv)
  BY <1>1, TailAt DEF SvcEvent
<1>3. SvcEvent(p).svc \in Services /\ SvcEvent(p).owner \in Names \cup {Unknown}
  BY <1>2 DEF SvcEv
<1>4. svcEvents' \in SvcQueues /\ svcEvents'[p] = Tail(svcEvents[p])
  BY <1>1, <1>2 DEF SvcQueues
<1> QED BY <1>1, <1>2, <1>3, <1>4

\* The nodes of the index are closed under the way to a node, and the services
\* are among them.
LEMMA NodesClosed == Closed(STRING, Nodes) /\ Services \subseteq Nodes
<1>1. \A n : n \in Nodes <=> \E s \in Services : n \in NodesTo(s)
  BY DEF Nodes
<1>2. \A s \in Services : s \in Seq(STRING) /\ s # <<>>
  BY ServiceFacts
<1>3. ASSUME NEW s \in Services PROVE s \in NodesTo(s)
  BY <1>2, NodesAre, PrefixOrder
<1>4. ASSUME NEW n \in Nodes
      PROVE  n \in Seq(STRING) /\ n # <<>> /\ NodesTo(n) \subseteq Nodes
  <2>1. PICK s \in Services : n \in NodesTo(s)
    BY <1>1
  <2>2. n \in Seq(STRING) /\ n # <<>> /\ IsPrefix(n, s)
    BY <1>2, <2>1, NodesAre
  <2>3. ASSUME NEW k \in NodesTo(n) PROVE k \in Nodes
    <3>1. k \in Seq(STRING) /\ k # <<>> /\ IsPrefix(k, n)
      BY <2>2, NodesAre
    <3>2. IsPrefix(k, s)
      BY <1>2, <2>2, <3>1, PrefixOrder
    <3> QED BY <1>1, <1>2, <3>1, <3>2, NodesAre
  <2> QED BY <2>2, <2>3
<1> QED BY <1>1, <1>3, <1>4 DEF Closed

\* The index after an add (service.go:60) ...
LEMMA IndexAdd ==
    ASSUME NEW t \in TriesOver(Nodes), WellFormed(t), Set(t) \subseteq Services, NEW s \in Services
    PROVE  /\ TrieAdd(t, s) \in TriesOver(Nodes) /\ WellFormed(TrieAdd(t, s))
           /\ Set(TrieAdd(t, s)) = Set(t) \cup {s} /\ Set(TrieAdd(t, s)) \subseteq Services
<1>1. s \in Nodes /\ Closed(STRING, Nodes)
  BY NodesClosed
<1>2. TrieAdd(t, s) \in TriesOver(Nodes) /\ WellFormed(TrieAdd(t, s)) 
      /\ Set(TrieAdd(t, s)) = Set(t) \cup {s}
  BY <1>1, TrieAddSets
<1> QED BY <1>2

\* ... a delete (service.go:92) ...
LEMMA IndexDelete ==
    ASSUME NEW t \in TriesOver(Nodes), WellFormed(t), Set(t) \subseteq Services, NEW s \in Services
    PROVE  /\ TrieDelete(t, s) \in TriesOver(Nodes) /\ WellFormed(TrieDelete(t, s))
           /\ Set(TrieDelete(t, s)) = Set(t) \ {s} /\ Set(TrieDelete(t, s)) \subseteq Services
<1>1. s \in Nodes /\ Closed(STRING, Nodes)
  BY NodesClosed
<1>2. TrieDelete(t, s) \in TriesOver(Nodes) /\ WellFormed(TrieDelete(t, s)) 
      /\ Set(TrieDelete(t, s)) = Set(t) \ {s}
  BY <1>1, TrieDeleteUnsets
<1> QED BY <1>2

\* ... and the Get (service.go:408).
LEMMA IndexOfRegistered ==
    ASSUME NEW t, t = [n \in UNION {NodesTo(s) : s \in Registered} |-> n \in Registered]
    PROVE  t \in TriesOver(Nodes) /\ Set(t) = Registered /\ WellFormed(t) /\ Set(t) \subseteq Services
<1>1. Registered \subseteq Services /\ Registered \subseteq Nodes /\ Closed(STRING, Nodes)
  BY NodesClosed DEF Registered
<1>2. t \in TriesOver(Nodes) /\ Set(t) = Registered /\ WellFormed(t)
  BY <1>1, TrieOfPaths
<1> QED BY <1>1, <1>2

\* The index before the Get.
LEMMA EmptyIndex == 
    EmptyTrie \in TriesOver(Nodes) /\ Set(EmptyTrie) = {} /\ WellFormed(EmptyTrie)
<1>1. DOMAIN EmptyTrie = {}
  BY DEF EmptyTrie
<1>2. EmptyTrie \in [{} -> BOOLEAN]
  BY DEF EmptyTrie
<1>3. EmptyTrie \in TriesOver(Nodes)
  <2>1. {} \in SUBSET Nodes
    OBVIOUS
  <2> QED BY <1>2, <2>1, TrieType, Zenon
<1> QED BY <1>1, <1>3 DEF Set, WellFormed

\* The state keeps its shape when a service is registered.
LEMMA PutTypes ==
    ASSUME SvcIInv, NEW p \in Procs, NEW s \in Services, Puts(p, s)
    PROVE  SvcTypes'
<1>i. TypeOK /\ SvcTypes /\ ServiceKeysAgree /\ SvcKeyShape /\ calls \in Nat /\ MaxCalls \in Nat
  BY TypesAre, ServiceFacts DEF SvcIInv, ServicesInv, SvcTypes
<1>1. /\ PutService(p, s) /\ svcKey[s].create = 0 /\ calls < MaxCalls /\ calls' = calls + 1
      /\ UNCHANGED <<phase, leftovers, services, selfServices, prefixIndex, handling, dropped>>
  BY Zenon DEF Puts, Registers
<1>2. svcKey' \in [Services -> SvcKeyType] /\ peerSvc' \in [Names -> SUBSET Services]
  BY <1>i, <1>1, PutServiceKeys
<1>3. svcEvents' \in SvcQueues
  <2>1. SvcBroadcast(s, NameOf[p]) /\ NameOf[p] \in Names \cup {Unknown} /\ svcEvents \in SvcQueues
    BY <1>i, <1>1, ServiceFacts DEF PutService, SvcTypes
  <2> QED BY <2>1, SvcBroadcastQueues
<1>4. call' \in [Procs -> {NoCall} \cup CallType]
  <2> DEFINE c == [svc |-> s, create |-> calls + 1, at |-> "services"]
  <2>1. call' = [call EXCEPT ![p] = c] \/ UNCHANGED call
    BY Zenon DEF Puts, RegisterService, RegisterServiceFails
  <2>2. c \in CallType
    BY <1>i, <1>1 DEF CallType, Steps
  <2> HIDE DEF c
  <2> QED BY <1>i, <2>1, <2>2 DEF SvcTypes
<1>5. raced' \in [Procs -> SUBSET Services] /\ unsure' \in [Procs -> SUBSET Services]
  <2>1. raced \in [Procs -> SUBSET Services] /\ unsure \in [Procs -> SUBSET Services]
    BY <1>i DEF SvcTypes
  <2>2. /\ \/ raced' = [raced EXCEPT ![p] = @ \cup {s}] \/ raced' = [raced EXCEPT ![p] = @ \ {s}]
           \/ raced' = raced
        /\ \/ unsure' = [unsure EXCEPT ![p] = @ \cup {s}]
           \/ unsure' = [unsure EXCEPT ![p] = @ \ {s}]
    BY DEF Puts, RegisterService, RegisterServiceFails
  <2>3. raced' \in [Procs -> SUBSET Services]
    BY <2>1, <2>2
  <2>4. unsure' \in [Procs -> SUBSET Services]
    BY <2>1, <2>2
  <2> QED BY <2>3, <2>4
<1>6. calls' \in 0 .. MaxCalls
  BY <1>i, <1>1
<1> QED BY <1>i, <1>1, <1>2, <1>3, <1>4, <1>5, <1>6, Zenon DEF SvcTypes

\* The state keeps its shape when the keys of a service are deleted.
LEMMA ReleaseTypes ==
    ASSUME SvcIInv, NEW p \in Procs, NEW s \in Services, Releases(p, s)
    PROVE  SvcTypes'
<1>i. TypeOK /\ SvcTypes /\ ServiceKeysAgree
  BY TypesAre DEF SvcIInv, ServicesInv
<1>1. /\ DeleteService(p, s) /\ svcKey[s].value = NameOf[p]
      /\ leftovers' = leftovers \/ leftovers' = [leftovers EXCEPT ![p] = @ \ {s}]
      /\ UNCHANGED <<phase, services, selfServices, prefixIndex, call, handling, dropped,
                     raced, unsure, calls>>
  BY DEF Releases
<1>2. svcKey' \in [Services -> SvcKeyType] /\ peerSvc' \in [Names -> SUBSET Services]
  BY <1>i, <1>1, DeleteServiceKeys
<1>3. svcEvents' \in SvcQueues
  <2>1. SvcBroadcast(s, Unknown) /\ svcEvents \in SvcQueues
    BY <1>i, <1>1 DEF DeleteService, SvcTypes
  <2> QED BY <2>1, SvcBroadcastQueues
<1>4. leftovers' \in [Procs -> SUBSET Services]
  <2>1. leftovers \in [Procs -> SUBSET Services]
    BY <1>i DEF SvcTypes
  <2>2. ASSUME leftovers' = [leftovers EXCEPT ![p] = @ \ {s}]
        PROVE  leftovers' \in [Procs -> SUBSET Services]
    BY <2>1, <2>2
  <2> QED BY <1>1, <2>1, <2>2
<1> QED BY <1>i, <1>1, <1>2, <1>3, <1>4, Zenon DEF SvcTypes

\* The steps that end a service registry or change only what it has to clean.
LEMMA PhaseTypes ==
    ASSUME SvcIInv, NEW p \in Procs
    PROVE  /\ ListLeftovers(p) \/ StopServices(p) \/ InitServicesFails(p) => SvcTypes'
           /\ SvcEnds(p) => SvcTypes'
           /\ InitServices(p) => SvcTypes'
<1>i. TypeOK /\ SvcTypes /\ SvcKeyShape
  BY TypesAre DEF SvcIInv, ServicesInv
<1>1. ASSUME ListLeftovers(p) \/ StopServices(p) \/ InitServicesFails(p) PROVE SvcTypes'
  <2>1. /\ \E x \in Phases : phase' = [phase EXCEPT ![p] = x]
        /\ UNCHANGED <<svcStore, services, selfServices, prefixIndex, svcEvents, call, handling,
                       dropped, raced, calls>>
    BY <1>1 DEF ListLeftovers, StopServices, InitServicesFails, Phases
  <2>2. phase' \in [Procs -> Phases]
    BY <1>i, <2>1 DEF SvcTypes
  <2>3. peerSvc[NameOf[p]] \in SUBSET Services
    BY <1>i, ServiceFacts DEF SvcTypes
  <2>4. \E L \in SUBSET Services : leftovers' = [leftovers EXCEPT ![p] = L] \/ UNCHANGED leftovers
    BY <1>1, <2>3 DEF ListLeftovers, StopServices, InitServicesFails
  <2>5. leftovers' \in [Procs -> SUBSET Services]
    BY <1>i, <2>4 DEF SvcTypes
  <2>6. UNCHANGED unsure \/ unsure' = [unsure EXCEPT ![p] = peerSvc[NameOf[p]]]
    BY <1>1, Zenon DEF ListLeftovers, StopServices, InitServicesFails
  <2>7. unsure' \in [Procs -> SUBSET Services]
    BY <1>i, <2>3, <2>6 DEF SvcTypes
  <2> QED BY <1>i, <2>1, <2>2, <2>5, <2>7, Zenon DEF SvcTypes, svcStore
<1>2. ASSUME SvcEnds(p) PROVE SvcTypes'
  <2>1. /\ phase' = [phase EXCEPT ![p] = "none"]
        /\ leftovers' = [leftovers EXCEPT ![p] = {}]
        /\ call' = [call EXCEPT ![p] = NoCall] /\ handling' = [handling EXCEPT ![p] = Idle]
        /\ dropped' = [dropped EXCEPT ![p] = {}] /\ raced' = [raced EXCEPT ![p] = {}]
        /\ unsure' = [unsure EXCEPT ![p] = {}]
        /\ UNCHANGED <<svcStore, calls>>
    BY <1>2 DEF SvcEnds
  <2>2. /\ phase' \in [Procs -> Phases] /\ leftovers' \in [Procs -> SUBSET Services]
        /\ call' \in [Procs -> {NoCall} \cup CallType]
        /\ handling' \in [Procs -> {Idle} \cup HandType]
        /\ dropped' \in [Procs -> SUBSET Services] /\ raced' \in [Procs -> SUBSET Services]
        /\ unsure' \in [Procs -> SUBSET Services]
    BY <1>i, <2>1 DEF SvcTypes, Phases
  <2>3. services' \in [Procs -> [Services -> EntryType]]
    <3>1. services' = [services EXCEPT ![p] = [s \in Services |-> NoService]]
      BY <1>2 DEF SvcEnds
    <3> QED BY <1>i, <3>1, NothingFields DEF SvcTypes
  <2>4. selfServices' \in [Procs -> [Services -> Nat \cup {-1}]]
    <3>1. selfServices' = [selfServices EXCEPT ![p] = [s \in Services |-> -1]]
      BY <1>2 DEF SvcEnds
    <3> QED BY <1>i, <3>1 DEF SvcTypes
  <2>5. /\ prefixIndex' \in [Procs -> TriesOver(Nodes)]
        /\ \A q \in Procs : Set(prefixIndex'[q]) \subseteq Services
    <3>1. prefixIndex' = [prefixIndex EXCEPT ![p] = EmptyTrie]
      BY <1>2 DEF SvcEnds
    <3>2. \A q \in Procs : prefixIndex'[q] = IF q = p THEN EmptyTrie ELSE prefixIndex[q]
      BY <1>i, <3>1 DEF SvcTypes
    <3> QED BY <1>i, <3>1, <3>2, EmptyIndex DEF SvcTypes
  <2>6. svcEvents' \in SvcQueues
    <3>1. svcEvents' = [svcEvents EXCEPT ![p] = <<>>]
      BY <1>2 DEF SvcEnds
    <3>2. <<>> \in Seq(SvcEv)
      BY EmptySeq
    <3> QED BY <1>i, <3>1, <3>2 DEF SvcTypes, SvcQueues
  <2> QED BY <1>i, <2>1, <2>2, <2>3, <2>4, <2>5, <2>6, Zenon DEF SvcTypes, svcStore
<1>3. ASSUME InitServices(p) PROVE SvcTypes'
  <2>1. /\ phase' = [phase EXCEPT ![p] = "ready"]
        /\ UNCHANGED <<svcStore, leftovers, svcEvents, call, handling, dropped, raced, unsure, calls>>
    BY <1>3 DEF InitServices
  <2>2. phase' \in [Procs -> Phases]
    BY <1>i, <2>1 DEF SvcTypes, Phases
  <2>3. services' \in [Procs -> [Services -> EntryType]]
    <3> DEFINE e(s) == [peer |-> svcKey[s].value, isSelf |-> svcKey[s].value = NameOf[p]]
    <3>1. services' = [services EXCEPT ![p] = [s \in Services |-> e(s)]]
      BY <1>3 DEF InitServices
    <3>2. ASSUME NEW s \in Services PROVE e(s) \in EntryType
      <4>1. svcKey[s].value \in Names \cup {Unknown}
        BY <1>i DEF SvcTypes, SvcKeyType
      <4>2. (svcKey[s].value = NameOf[p]) \in BOOLEAN
        BY Zenon
      <4> QED BY <4>1, <4>2, Zenon DEF EntryType
    <3> HIDE DEF e
    <3>3. [s \in Services |-> e(s)] \in [Services -> EntryType]
      BY <3>2
    <3> QED BY <1>i, <3>1, <3>3 DEF SvcTypes
  <2>4. selfServices' \in [Procs -> [Services -> Nat \cup {-1}]]
    <3>1. selfServices' = [selfServices EXCEPT ![p] = [s \in Services |->
            IF svcKey[s].value = NameOf[p] THEN 0 ELSE -1]]
      BY <1>3 DEF InitServices
    <3> QED BY <1>i, <3>1 DEF SvcTypes
  <2>5. /\ prefixIndex' \in [Procs -> TriesOver(Nodes)]
        /\ \A q \in Procs : Set(prefixIndex'[q]) \subseteq Services
    <3> DEFINE t == [n \in UNION {NodesTo(s) : s \in Registered} |-> n \in Registered]
    <3>1. prefixIndex' = [prefixIndex EXCEPT ![p] = t]
      BY <1>3 DEF InitServices
    <3>2. t \in TriesOver(Nodes) /\ Set(t) \subseteq Services
      BY IndexOfRegistered
    <3> HIDE DEF t
    <3>3. \A q \in Procs : prefixIndex'[q] = IF q = p THEN t ELSE prefixIndex[q]
      BY <1>i, <3>1 DEF SvcTypes
    <3> QED BY <1>i, <3>1, <3>2, <3>3 DEF SvcTypes
  <2> QED BY <1>i, <2>1, <2>2, <2>3, <2>4, <2>5, Zenon DEF SvcTypes, svcStore
<1> QED BY <1>1, <1>2, <1>3

\* The rest of a call.
LEMMA CallTypes ==
    ASSUME SvcIInv, NEW p \in Procs
    PROVE  /\ RegisterStore(p) => SvcTypes'
           /\ RegisterIndex(p) => SvcTypes'
           /\ RegisterSelfService(p) => SvcTypes'
<1>i. TypeOK /\ SvcTypes /\ IndexInStep
  BY TypesAre DEF SvcIInv, ServicesInv
<1> DEFINE c == call[p]
<1>c. c.at # "none" => /\ c \in CallType /\ c.svc \in Services /\ c.create \in 1 .. MaxCalls
  BY <1>i, CallFields
<1>a. ASSUME c.at # "none", NEW x \in Steps, call' = [call EXCEPT ![p].at = x]
      PROVE  call' \in [Procs -> {NoCall} \cup CallType]
  <2>1. call' = [call EXCEPT ![p] = [c EXCEPT !.at = x]]
    BY <1>a
  <2>2. [c EXCEPT !.at = x] \in CallType
    BY <1>c, <1>a DEF CallType
  <2> QED BY <1>i, <2>1, <2>2 DEF SvcTypes
<1> HIDE DEF c
<1>1. ASSUME RegisterStore(p) PROVE SvcTypes'
  <2>1. /\ c.at = "services" /\ call' = [call EXCEPT ![p].at = "index"]
        /\ services' = [services EXCEPT ![p][c.svc] =
               IF @ = NoService THEN [peer |-> NameOf[p], isSelf |-> TRUE] ELSE @]
        /\ UNCHANGED <<svcStore, phase, leftovers, selfServices, prefixIndex, svcEvents, handling,
                       dropped, raced, unsure, calls>>
    BY <1>1 DEF RegisterStore, CallAt, c
  <2>2. call' \in [Procs -> {NoCall} \cup CallType]
    BY <1>a, <2>1 DEF Steps
  <2>3. services' \in [Procs -> [Services -> EntryType]]
    <3>1. [peer |-> NameOf[p], isSelf |-> TRUE] \in EntryType
      BY ServiceFacts, EntryFields
    <3>2. c.svc \in Services
      BY <1>c, <2>1
    <3> QED BY <1>i, <2>1, <3>1, <3>2 DEF SvcTypes
  <2> QED BY <1>i, <2>1, <2>2, <2>3, Zenon DEF SvcTypes, svcStore
<1>2. ASSUME RegisterIndex(p) PROVE SvcTypes'
  <2>1. /\ c.at = "index" /\ call' = [call EXCEPT ![p].at = "self"]
        /\ prefixIndex' = [prefixIndex EXCEPT ![p] = TrieAdd(@, c.svc)]
        /\ UNCHANGED <<svcStore, phase, leftovers, services, selfServices, svcEvents, handling,
                       dropped, raced, unsure, calls>>
    BY <1>2 DEF RegisterIndex, CallAt, c
  <2>2. call' \in [Procs -> {NoCall} \cup CallType]
    BY <1>a, <2>1 DEF Steps
  <2>3. /\ prefixIndex' \in [Procs -> TriesOver(Nodes)]
        /\ \A q \in Procs : Set(prefixIndex'[q]) \subseteq Services
    <3> DEFINE t == TrieAdd(prefixIndex[p], c.svc)
    <3>1. t \in TriesOver(Nodes) /\ Set(t) \subseteq Services
      BY <1>i, <1>c, <2>1, IndexAdd DEF SvcTypes, IndexInStep
    <3>2. prefixIndex' = [prefixIndex EXCEPT ![p] = t]
      BY <2>1
    <3> HIDE DEF t
    <3>3. \A q \in Procs : prefixIndex'[q] = IF q = p THEN t ELSE prefixIndex[q]
      BY <1>i, <3>2 DEF SvcTypes
    <3> QED BY <1>i, <3>1, <3>2, <3>3 DEF SvcTypes
  <2> QED BY <1>i, <2>1, <2>2, <2>3, Zenon DEF SvcTypes, svcStore
<1>3. ASSUME RegisterSelfService(p) PROVE SvcTypes'
  <2>1. /\ c.at = "self" /\ call' = [call EXCEPT ![p] = NoCall]
        /\ selfServices' = [selfServices EXCEPT ![p][c.svc] = c.create]
        /\ raced' = [raced EXCEPT ![p] = IF handling[p].svc = c.svc THEN @ \cup {c.svc} ELSE @]
        /\ UNCHANGED <<svcStore, phase, leftovers, services, prefixIndex, svcEvents, handling,
                       dropped, unsure, calls>>
    BY <1>3 DEF RegisterSelfService, CallAt, c
  <2>2. call' \in [Procs -> {NoCall} \cup CallType]
    BY <1>i, <2>1 DEF SvcTypes
  <2>3. c.svc \in Services /\ c.create \in Nat
    BY <1>c, <2>1, ServiceFacts
  <2>4. selfServices' \in [Procs -> [Services -> Nat \cup {-1}]]
    BY <1>i, <2>1, <2>3 DEF SvcTypes
  <2>5. raced' \in [Procs -> SUBSET Services]
    BY <1>i, <2>1, <2>3 DEF SvcTypes
  <2> QED BY <1>i, <2>1, <2>2, <2>4, <2>5, Zenon DEF SvcTypes, svcStore
<1> QED BY <1>1, <1>2, <1>3

\* The watch takes an event.
LEMMA TakeTypes ==
    ASSUME SvcIInv, NEW p \in Procs
    PROVE  /\ SvcPut(p) => SvcTypes'
           /\ SvcDelete(p) => SvcTypes'
<1>i. TypeOK /\ SvcTypes
  BY TypesAre DEF SvcIInv, ServicesInv
<1> DEFINE s == SvcEvent(p).svc
           n == SvcEvent(p).owner
<1>e. TakeSvcEvent(p) => s \in Services /\ n \in Names \cup {Unknown} /\ svcEvents' \in SvcQueues
  BY <1>i, TakeFields
<1>h. ASSUME NEW h \in {Idle} \cup HandType, handling' = [handling EXCEPT ![p] = h]
      PROVE  handling' \in [Procs -> {Idle} \cup HandType]
  BY <1>i, <1>h DEF SvcTypes
<1> HIDE DEF s, n
<1>1. ASSUME SvcPut(p) PROVE SvcTypes'
  <2>1. /\ TakeSvcEvent(p) /\ n # Unknown
        /\ \E D \in {dropped[p], dropped[p] \cup {s}} : dropped' = [dropped EXCEPT ![p] = D]
        /\ \E h \in {[svc |-> s, owner |-> n, at |-> "services", isSelf |-> n = NameOf[p]], Idle} :
              handling' = [handling EXCEPT ![p] = h]
        /\ UNCHANGED <<svcStore, phase, leftovers, services, selfServices, prefixIndex, call, raced,
                       unsure, calls>>
    BY <1>1 DEF SvcPut, s, n
  <2>2. dropped' \in [Procs -> SUBSET Services]
    BY <1>i, <1>e, <2>1 DEF SvcTypes
  <2>3. [svc |-> s, owner |-> n, at |-> "services", isSelf |-> n = NameOf[p]] \in HandType
    <3>1. (n = NameOf[p]) \in BOOLEAN /\ "services" \in Steps
      BY Zenon DEF Steps
    <3> QED BY <1>e, <2>1, <3>1, Zenon DEF HandType
  <2>4. handling' \in [Procs -> {Idle} \cup HandType]
    BY <1>h, <2>1, <2>3, Zenon
  <2> QED BY <1>i, <1>e, <2>1, <2>2, <2>4, Zenon DEF SvcTypes, svcStore
<1>2. ASSUME SvcDelete(p) PROVE SvcTypes'
  <2>1. /\ TakeSvcEvent(p)
        /\ dropped' = [dropped EXCEPT ![p] = @ \ {s}]
        /\ services' = [services EXCEPT ![p][s] = NoService]
        /\ \E h \in {[svc |-> s, owner |-> Unknown, at |-> "index", isSelf |-> services[p][s].isSelf],
                     Idle} :
              handling' = [handling EXCEPT ![p] = h]
        /\ UNCHANGED <<svcStore, phase, leftovers, selfServices, prefixIndex, call, raced, unsure, calls>>
    BY <1>2 DEF SvcDelete, s, n
  <2>2. dropped' \in [Procs -> SUBSET Services]
    BY <1>i, <1>e, <2>1 DEF SvcTypes
  <2>3. [svc |-> s, owner |-> Unknown, at |-> "index", isSelf |-> services[p][s].isSelf] \in HandType
    <3>1. services[p][s].isSelf \in BOOLEAN /\ "index" \in Steps
      <4>1. services[p][s] \in EntryType
        BY <1>i, <1>e, <2>1 DEF SvcTypes
      <4> QED BY <4>1, Zenon DEF EntryType, Steps
    <3> QED BY <1>e, <2>1, <3>1, Zenon DEF HandType
  <2>4. handling' \in [Procs -> {Idle} \cup HandType]
    BY <1>h, <2>1, <2>3, Zenon
  <2>5. services' \in [Procs -> [Services -> EntryType]]
    BY <1>i, <1>e, <2>1, NothingFields DEF SvcTypes
  <2> QED BY <1>i, <1>e, <2>1, <2>2, <2>4, <2>5, Zenon DEF SvcTypes, svcStore
<1> QED BY <1>1, <1>2

\* The rest of an event.
LEMMA WatchTypes ==
    ASSUME SvcIInv, NEW p \in Procs
    PROVE  /\ WatchStore(p) => SvcTypes'
           /\ WatchIndex(p) => SvcTypes'
           /\ WatchSelf(p) => SvcTypes'
<1>i. TypeOK /\ SvcTypes /\ IndexInStep
  BY TypesAre DEF SvcIInv, ServicesInv
<1> DEFINE h == handling[p]
<1>c. h.at # "none" => /\ h \in HandType /\ h.svc \in Services /\ h.owner \in Names \cup {Unknown}
                       /\ h.isSelf \in BOOLEAN
  BY <1>i, HandFields
<1>h. ASSUME NEW x \in {Idle} \cup HandType, handling' = [handling EXCEPT ![p] = x]
      PROVE  handling' \in [Procs -> {Idle} \cup HandType]
  BY <1>i, <1>h DEF SvcTypes
<1>a. ASSUME h.at # "none", NEW x \in Steps PROVE [h EXCEPT !.at = x] \in HandType
  BY <1>c, <1>a DEF HandType
<1>1. ASSUME WatchStore(p) PROVE SvcTypes'
  <2>1. /\ h.at = "services" /\ handling' = [handling EXCEPT ![p] = [h EXCEPT !.at = "index"]]
        /\ services' = [services EXCEPT ![p][h.svc] =
               IF @ = NoService THEN [peer |-> h.owner, isSelf |-> h.isSelf] ELSE @]
        /\ UNCHANGED <<svcStore, phase, leftovers, selfServices, prefixIndex, svcEvents, call,
                       dropped, raced, unsure, calls>>
    BY <1>1 DEF WatchStore, HandlingAt
  <2> HIDE DEF h
  <2>2. handling' \in [Procs -> {Idle} \cup HandType]
    <3>1. [h EXCEPT !.at = "index"] \in HandType
      BY <1>a, <2>1 DEF Steps
    <3> QED BY <1>h, <2>1, <3>1
  <2>3. services' \in [Procs -> [Services -> EntryType]]
    <3>1. [peer |-> h.owner, isSelf |-> h.isSelf] \in EntryType /\ h.svc \in Services
      BY <1>c, <2>1 DEF EntryType
    <3> QED BY <1>i, <2>1, <3>1 DEF SvcTypes
  <2> QED BY <1>i, <2>1, <2>2, <2>3, Zenon DEF SvcTypes, svcStore
<1>2. ASSUME WatchIndex(p) PROVE SvcTypes'
  <2> DEFINE t == IF h.owner # Unknown THEN TrieAdd(prefixIndex[p], h.svc)
                  ELSE TrieDelete(prefixIndex[p], h.svc)
  <2>1. /\ h.at = "index"
        /\ \E x \in {[h EXCEPT !.at = "self"], Idle} : handling' = [handling EXCEPT ![p] = x]
        /\ prefixIndex' = [prefixIndex EXCEPT ![p] = t]
        /\ UNCHANGED <<svcStore, phase, leftovers, services, selfServices, svcEvents, call,
                       dropped, raced, unsure, calls>>
    BY <1>2 DEF WatchIndex, HandlingAt
  <2>2. handling' \in [Procs -> {Idle} \cup HandType]
    <3>1. [h EXCEPT !.at = "self"] \in HandType
      BY <1>a, <2>1 DEF Steps
    <3> HIDE DEF h
    <3> QED BY <1>h, <2>1, <3>1, Zenon
  <2>3. /\ prefixIndex' \in [Procs -> TriesOver(Nodes)]
        /\ \A q \in Procs : Set(prefixIndex'[q]) \subseteq Services
    <3> HIDE DEF h
    <3>1. t \in TriesOver(Nodes) /\ Set(t) \subseteq Services
      BY <1>i, <1>c, <2>1, IndexAdd, IndexDelete DEF SvcTypes, IndexInStep
    <3>2. prefixIndex' = [prefixIndex EXCEPT ![p] = t]
      BY <2>1
    <3> HIDE DEF t
    <3>3. \A q \in Procs : prefixIndex'[q] = IF q = p THEN t ELSE prefixIndex[q]
      BY <1>i, <3>2 DEF SvcTypes
    <3> QED BY <1>i, <3>1, <3>2, <3>3 DEF SvcTypes
  <2> HIDE DEF t, h
  <2> QED BY <1>i, <2>1, <2>2, <2>3, Zenon DEF SvcTypes, svcStore
<1>3. ASSUME WatchSelf(p) PROVE SvcTypes'
  <2>1. /\ h.at = "self" /\ handling' = [handling EXCEPT ![p] = Idle]
        /\ selfServices' = [selfServices EXCEPT ![p][h.svc] = IF h.owner # Unknown THEN 0 ELSE -1]
        /\ UNCHANGED <<svcStore, phase, leftovers, services, prefixIndex, svcEvents, call,
                       dropped, raced, unsure, calls>>
    BY <1>3 DEF WatchSelf, HandlingAt
  <2> HIDE DEF h
  <2>2. handling' \in [Procs -> {Idle} \cup HandType]
    BY <1>h, <2>1
  <2>3. selfServices' \in [Procs -> [Services -> Nat \cup {-1}]]
    BY <1>i, <1>c, <2>1 DEF SvcTypes
  <2> QED BY <1>i, <2>1, <2>2, <2>3, Zenon DEF SvcTypes, svcStore
<1> QED BY <1>1, <1>2, <1>3

\* The state keeps its shape.
LEMMA TypesStep ==
    ASSUME SvcIInv, Next
    PROVE  TypeOK'
<1>i. TypeOK /\ SvcTypes /\ PeersTypeOK /\ KeyShape
  BY TypesAre DEF SvcIInv, ServicesInv
<1>1. ASSUME UNCHANGED svcVars PROVE SvcTypes'
  BY <1>i, <1>1, Zenon DEF svcVars, svcStore, svcMemory, SvcTypes
<1>2. ASSUME NEW p \in Procs, NEW s \in Services,
             CleanLeftover(p, s) \/ UnregisterService(p, s) \/ StopService(p, s)
      PROVE  SvcTypes'
  <2>1. CASE Releases(p, s)
    BY <2>1, ReleaseTypes
  <2>2. CASE /\ Leaves(p, s)
             /\ leftovers' = [leftovers EXCEPT ![p] = @ \ {s}]
             /\ UNCHANGED <<peerVars, svcStore, svcEvents, phase, services, selfServices,
                            prefixIndex, call, handling, dropped, raced, calls>>
    <3>1. leftovers' \in [Procs -> SUBSET Services]
      BY <1>i, <2>2 DEF SvcTypes
    <3>2. unsure' \in [Procs -> SUBSET Services]
      <4>1. UNCHANGED unsure \/ unsure' = [unsure EXCEPT ![p] = @ \cup {s}]
        BY <2>2, Zenon DEF Leaves
      <4>2. unsure \in [Procs -> SUBSET Services]
        BY <1>i DEF SvcTypes
      <4>3. [unsure EXCEPT ![p] = @ \cup {s}] \in [Procs -> SUBSET Services]
        BY <1>2, <4>2
      <4> QED BY <4>1, <4>2, <4>3, Zenon
    <3> QED BY <1>i, <2>2, <3>1, <3>2, Zenon DEF SvcTypes, svcStore
  <2> QED BY <1>2, <2>1, <2>2, DeletesOwn
<1>3. ASSUME NEW p \in Procs, LocalStep(p) PROVE SvcTypes'
  BY <1>2, <1>3, PutCases, PutTypes, PhaseTypes, CallTypes, TakeTypes, WatchTypes,
     Zenon DEF LocalStep
<1>4. ASSUME NEW p \in Procs, StopPeer(p) \/ SvcEnds(p) \/ InitServicesFails(p) PROVE SvcTypes'
  BY <1>1, <1>4, PhaseTypes, Zenon DEF StopPeer
<1>5. ASSUME NEW p \in Procs, PeerStep(p) PROVE SvcTypes'
  BY <1>1, <1>5, Zenon DEF PeerStep
<1>6. SvcTypes'
  BY <1>1, <1>3, <1>4, <1>5, NextCases, Zenon
<1>7. PeersTypeOK'
  BY <1>i, PeersShapeStep
<1> QED BY <1>6, <1>7, TypesAre, PTL

-----------------------------------------------------------------------------
(* The invariant, process by process.                                      *)

PhaseOf(p) ==
    /\ phase[p] = "none" \/ stage[p] \notin {"off", "init"}
    /\ phase[p] = "clean" => stage[p] = "ready"
    /\ phase[p] = "ready" => stage[p] \in {"ready", "up", "stop"}
    /\ phase[p] \in {"stop", "failed"} => stage[p] \in {"stop", "unregister", "leave"}
    /\ phase[p] = "stop" /\ stage[p] # "stop" => leftovers[p] = {}
    /\ phase[p] # "ready" => call[p] = NoCall
    /\ phase[p] \notin {"ready", "stop"} =>
          /\ services[p] = [s \in Services |-> NoService] /\ prefixIndex[p] = EmptyTrie
          /\ svcEvents[p] = <<>> /\ handling[p] = Idle

LeftoversOf(p) ==
    /\ phase[p] = "clean" => leftovers[p] = peerSvc[NameOf[p]]
    /\ phase[p] = "failed" /\ stage[p] # "leave" => peerSvc[NameOf[p]] \subseteq unsure[p]

RevisionsOf(p) ==
    \A s \in Services :
        /\ selfServices[p][s] <= calls
        /\ selfServices[p][s] > 0 /\ svcKey[s].create = selfServices[p][s] =>
              svcKey[s].value = NameOf[p]

CallOf(p) ==
    call[p] # NoCall =>
        /\ svcKey[call[p].svc] = [value |-> NameOf[p], create |-> call[p].create]
        /\ call[p].svc \notin unsure[p]

TrackedOf(p) ==
    \A s \in Services \ (raced[p] \cup unsure[p]) :
        Active(p) /\ phase[p] \in {"ready", "stop"} /\ svcKey[s].value = NameOf[p] => Tracked(p, s)

IndexOf(p) ==
    /\ WellFormed(prefixIndex[p])
    /\ handling[p].at = "services" => handling[p].owner # Unknown
    /\ handling[p].at = "index" /\ handling[p].owner # Unknown =>
          services[p][handling[p].svc] # NoService
    /\ \A s \in Services \ raced[p] : InStep(p, s)

View(p, s) ==
    /\ services[p][s].peer = Unknown => services[p][s] = NoService
    /\ SvcListening(p) => NoStaleOwner(p, s) /\ OwnerComes(p, s)

ProcInv(p) ==
    /\ PhaseOf(p) /\ LeftoversOf(p) /\ RevisionsOf(p) /\ CallOf(p) /\ TrackedOf(p) /\ IndexOf(p)
    /\ \A s \in Services : View(p, s)

\* The invariant is that of the keys and that of every process.
LEMMA PartsAre ==
    SvcIInv <=> /\ ServicesInv /\ KeyShape /\ MembersHaveKey /\ SvcKeyShape
                /\ \A p \in Procs : ProcInv(p)
<1>1. PhaseShape <=> \A p \in Procs : PhaseOf(p)
  BY Zenon DEF PhaseShape, PhaseOf
<1>2. LeftoversOwn <=> \A p \in Procs : LeftoversOf(p)
  BY Zenon DEF LeftoversOwn, LeftoversOf
<1>3. RevisionsOwn <=> \A p \in Procs : RevisionsOf(p)
  BY Zenon DEF RevisionsOwn, RevisionsOf
<1>4. CallHolds <=> \A p \in Procs : CallOf(p)
  BY Zenon DEF CallHolds, CallOf
<1>5. OwnTracked <=> \A p \in Procs : TrackedOf(p)
  BY Zenon DEF OwnTracked, TrackedOf
<1>6. IndexInStep <=> \A p \in Procs : IndexOf(p)
  BY Zenon DEF IndexInStep, IndexOf
<1>7. ViewFollows <=> \A p \in Procs, s \in Services : View(p, s)
  BY Zenon DEF ViewFollows, View
<1> QED BY <1>1, <1>2, <1>3, <1>4, <1>5, <1>6, <1>7, Zenon DEF SvcIInv, ProcInv

\* The memory of q is as it was.
SameIndex(q) ==
    /\ services'[q] = services[q] /\ prefixIndex'[q] = prefixIndex[q] /\ call'[q] = call[q]
    /\ handling'[q] = handling[q] /\ raced'[q] = raced[q]

Same(q) ==
    /\ SameIndex(q)
    /\ stage'[q] = stage[q] /\ cancelled'[q] = cancelled[q] /\ phase'[q] = phase[q]
    /\ leftovers'[q] = leftovers[q] /\ selfServices'[q] = selfServices[q]
    /\ svcEvents'[q] = svcEvents[q] /\ dropped'[q] = dropped[q]
    /\ \/ unsure'[q] = unsure[q]
       \/ call[q] = NoCall /\ unsure[q] \subseteq unsure'[q]

\* Map and index do not depend on the keys and the events.
LEMMA IndexFrame ==
    ASSUME NEW q \in Procs, SameIndex(q), IndexOf(q)
    PROVE  IndexOf(q)'
  BY DEF SameIndex, IndexOf, InStep, InIndex, Indexing

\* What a process knows of a service stays right, unless the entry, the key, the
\* events or the event in hands change.
LEMMA ViewFrame ==
    ASSUME NEW q \in Procs, NEW s \in Services, View(q, s),
           services'[q][s] = services[q][s], svcKey'[s] = svcKey[s],
           svcEvents'[q] = svcEvents[q],
           Storing(q, s)' <=> Storing(q, s), Storing(q, s) => handling'[q].owner = handling[q].owner,
           s \in dropped[q] => s \in dropped'[q],
           SvcListening(q)' => SvcListening(q)
    PROVE  View(q, s)'
<1>1. ASSUME SvcListening(q)' PROVE NoStaleOwner(q, s)' /\ OwnerComes(q, s)'
  <2>1. NoStaleOwner(q, s) /\ OwnerComes(q, s)
    BY <1>1 DEF View
  <2>2. NoStaleOwner(q, s)'
    BY <2>1 DEF NoStaleOwner
  <2>3. OwnerComes(q, s)'
    BY <2>1 DEF OwnerComes
  <2> QED BY <2>2, <2>3
<1>2. services'[q][s].peer = Unknown => services'[q][s] = NoService
  BY DEF View
<1> QED BY <1>1, <1>2 DEF View

\* What a stop finds of a service, unless its key or the events about it change.
LEMMA TrackedFrame ==
    ASSUME NEW q \in Procs, NEW s \in Services, Tracked(q, s),
           services[q][s] # NoService => services'[q][s] # NoService, svcKey'[s] = svcKey[s],
           call[q].svc # s => selfServices'[q][s] = selfServices[q][s],
           call'[q].svc = s <=> call[q].svc = s,
           call[q].svc = s => call'[q].at = call[q].at,
           handling'[q].svc = s => handling[q].svc = s /\ handling'[q].owner = handling[q].owner,
           svcEvents'[q] = svcEvents[q],
           phase'[q] = "stop" => phase[q] = "stop", s \in leftovers[q] => s \in leftovers'[q]
    PROVE  Tracked(q, s)'
<1>1. ~DeletePending(q, s)'
  BY DEF Tracked, DeletePending
<1> QED BY <1>1 DEF Tracked

\* A process whose memory, and whose keys, stay the same keeps all of it.
LEMMA ProcFrame ==
    ASSUME NEW q \in Procs, Same(q), UNCHANGED <<svcStore, calls>>, ProcInv(q)
    PROVE  ProcInv(q)'
<1>u. UNCHANGED <<svcKey, peerSvc, calls>>
  BY DEF svcStore
<1>1. PhaseOf(q)'
  BY DEF ProcInv, PhaseOf, Same, SameIndex
<1>2. LeftoversOf(q)' /\ RevisionsOf(q)' /\ CallOf(q)'
  BY <1>u DEF ProcInv, LeftoversOf, RevisionsOf, CallOf, Same, SameIndex
<1>3. IndexOf(q)'
  BY IndexFrame DEF ProcInv, Same
<1>4. TrackedOf(q)'
  <2> SUFFICES ASSUME NEW s \in Services \ (raced'[q] \cup unsure'[q]),
                      Active(q)', phase'[q] \in {"ready", "stop"}, svcKey'[s].value = NameOf[q]
               PROVE  Tracked(q, s)'
    BY DEF TrackedOf
  <2>1. Tracked(q, s)
    BY <1>u DEF ProcInv, TrackedOf, Same, SameIndex, Active
  <2> QED BY <1>u, <2>1, TrackedFrame DEF Same, SameIndex
<1>5. ASSUME NEW s \in Services PROVE View(q, s)'
  <2>1. View(q, s)
    BY DEF ProcInv
  <2>2. SvcListening(q)' = SvcListening(q) /\ Storing(q, s)' = Storing(q, s)
    BY DEF Same, SameIndex, SvcListening, Storing
  <2> QED BY <1>u, <2>1, <2>2, ViewFrame DEF Same, SameIndex
<1> QED BY <1>1, <1>2, <1>3, <1>4, <1>5 DEF ProcInv

\* A step of p changes only the memory of p, unless it changes keys.
LEMMA OthersSame ==
    ASSUME TypeOK, NEW p \in Procs, NEW q \in Procs, p # q,
           \/ StopPeer(p) \/ SvcEnds(p) \/ InitServicesFails(p)
           \/ ListLeftovers(p) \/ InitServices(p) \/ StopServices(p)
           \/ RegisterStore(p) \/ RegisterIndex(p) \/ RegisterSelfService(p)
           \/ SvcPut(p) \/ SvcDelete(p) \/ WatchStore(p) \/ WatchIndex(p) \/ WatchSelf(p)
    PROVE  Same(q) /\ UNCHANGED <<svcStore, calls>>
<1>t. SvcTypes /\ stage \in [Procs -> Stages] /\ cancelled \in [Procs -> BOOLEAN]
  BY TypesAre, Zenon DEF TypeOK, PeersTypeOK
<1> DEFINE Goal == Same(q) /\ UNCHANGED <<svcStore, calls>>
<1>1. ASSUME StopPeer(p) PROVE Goal
  BY <1>t, <1>1 DEF StopPeer, UnregisterBegin, Goes, memory, svcVars, svcMemory, Same, SameIndex
<1>2. ASSUME SvcEnds(p) PROVE Goal
  <2>1. stage' = [stage EXCEPT ![p] = "off"] /\ cancelled' = [cancelled EXCEPT ![p] = FALSE]
    BY <1>2, Zenon DEF SvcEnds, Exit, Crash, UnregisterPanics, Ends
  <2> QED BY <1>t, <1>2, <2>1 DEF SvcEnds, Same, SameIndex, SvcTypes, SvcQueues
<1>3. ASSUME InitServicesFails(p) PROVE Goal
  BY <1>t, <1>3 DEF InitServicesFails, Goes, memory, Same, SameIndex, SvcTypes
<1>p. UNCHANGED peerVars => stage'[q] = stage[q] /\ cancelled'[q] = cancelled[q]
  BY DEF peerVars, procVars
<1>4. ASSUME ListLeftovers(p) \/ StopServices(p) PROVE Goal
  BY <1>t, <1>p, <1>4 DEF ListLeftovers, StopServices, Same, SameIndex, SvcTypes
<1>5. ASSUME InitServices(p) PROVE Goal
  BY <1>t, <1>p, <1>5 DEF InitServices, Same, SameIndex, SvcTypes
<1>6. ASSUME RegisterStore(p) PROVE Goal
  BY <1>t, <1>p, <1>6 DEF RegisterStore, Same, SameIndex, SvcTypes
<1>7. ASSUME RegisterIndex(p) PROVE Goal
  BY <1>t, <1>p, <1>7 DEF RegisterIndex, Same, SameIndex, SvcTypes
<1>8. ASSUME RegisterSelfService(p) PROVE Goal
  BY <1>t, <1>p, <1>8 DEF RegisterSelfService, Same, SameIndex, SvcTypes
<1>9. ASSUME SvcPut(p) PROVE Goal
  BY <1>t, <1>p, <1>9 DEF SvcPut, TakeSvcEvent, Same, SameIndex, SvcTypes, SvcQueues
<1>10. ASSUME SvcDelete(p) PROVE Goal
  BY <1>t, <1>p, <1>10 DEF SvcDelete, TakeSvcEvent, Same, SameIndex, SvcTypes, SvcQueues
<1>11. ASSUME WatchStore(p) PROVE Goal
  BY <1>t, <1>p, <1>11 DEF WatchStore, Same, SameIndex, SvcTypes
<1>12. ASSUME WatchIndex(p) PROVE Goal
  BY <1>t, <1>p, <1>12 DEF WatchIndex, Same, SameIndex, SvcTypes
<1>13. ASSUME WatchSelf(p) PROVE Goal
  BY <1>t, <1>p, <1>13 DEF WatchSelf, Same, SameIndex, SvcTypes
<1> HIDE DEF Goal
<1>14. Goal
  BY <1>1, <1>2, <1>3, <1>4, <1>5, <1>6, <1>7, <1>8, <1>9, <1>10, <1>11, <1>12, <1>13
<1> QED BY <1>14 DEF Goal

-----------------------------------------------------------------------------
(* The steps between the phases.                                           *)

\* A process outside its serving phases knows nothing.
Quiet ==
    \A p \in Procs : PhaseOf(p) /\ phase[p] \notin {"ready", "stop"} =>
        CallOf(p) /\ TrackedOf(p) /\ IndexOf(p) /\ \A s \in Services : View(p, s)

\* All of it is the initial memory, which is right whatever the keys are.
LEMMA QuietProc == Quiet
<1> SUFFICES ASSUME NEW p \in Procs, PhaseOf(p), phase[p] \notin {"ready", "stop"}
             PROVE  CallOf(p) /\ TrackedOf(p) /\ IndexOf(p) /\ \A s \in Services : View(p, s)
  BY DEF Quiet
<1>1. /\ call[p] = NoCall /\ handling[p] = Idle /\ prefixIndex[p] = EmptyTrie
      /\ \A s \in Services : services[p][s] = NoService
  BY DEF PhaseOf
<1>2. CallOf(p) /\ TrackedOf(p)
  BY <1>1 DEF CallOf, TrackedOf
<1>3. ASSUME NEW s \in Services PROVE InStep(p, s)
  <2>1. ~Indexing(p, s) /\ call[p].at = "none" /\ ~InIndex(p, s)
    BY <1>1, NothingFields, EmptyIndex DEF Indexing, InIndex
  <2> QED BY <1>1, <2>1 DEF InStep
<1>4. IndexOf(p)
  BY <1>1, <1>3, NothingFields, EmptyIndex DEF IndexOf
<1>5. ASSUME NEW s \in Services PROVE View(p, s)
  BY <1>1 DEF View, SvcListening
<1> QED BY <1>2, <1>4, <1>5

\* A step of the peer registry: the service registry stays as it is.
LEMMA StageFrame ==
    ASSUME NEW q \in Procs, ProcInv(q), UNCHANGED svcVars, PhaseOf(q)',
           stage[q] = "leave" => stage'[q] = "leave", cancelled[q] => cancelled'[q]
    PROVE  ProcInv(q)'
<1>u. UNCHANGED <<svcKey, peerSvc, calls, phase, leftovers, services, selfServices, prefixIndex,
                  svcEvents, call, handling, dropped, raced, unsure>>
  BY DEF svcVars, svcStore, svcMemory
<1>2. LeftoversOf(q)' /\ RevisionsOf(q)' /\ CallOf(q)'
  BY <1>u DEF ProcInv, LeftoversOf, RevisionsOf, CallOf
<1>3. IndexOf(q)'
  BY <1>u, IndexFrame DEF ProcInv, SameIndex
<1>4. TrackedOf(q)'
  <2> SUFFICES ASSUME NEW s \in Services \ (raced'[q] \cup unsure'[q]),
                      Active(q)', phase'[q] \in {"ready", "stop"}, svcKey'[s].value = NameOf[q]
               PROVE  Tracked(q, s)'
    BY DEF TrackedOf
  <2>1. Tracked(q, s)
    BY <1>u DEF ProcInv, TrackedOf, Active
  <2> QED BY <1>u, <2>1, TrackedFrame
<1>5. ASSUME NEW s \in Services PROVE View(q, s)'
  <2>1. View(q, s)
    BY DEF ProcInv
  <2>2. SvcListening(q)' => SvcListening(q)
    BY <1>u, Zenon DEF SvcListening
  <2>3. Storing(q, s)' = Storing(q, s)
    BY <1>u DEF Storing
  <2> QED BY <1>u, <2>1, <2>2, <2>3, ViewFrame
<1> QED BY <1>2, <1>3, <1>4, <1>5 DEF ProcInv

\* The steps of the peer registry keep what every process has: the main
\* goroutine only moves on, and a watch only ends.
LEMMA PeerProc ==
    ASSUME SvcIInv, NEW q \in Procs,
           \/ \E p \in Procs : PeerStep(p)
           \/ \E n \in Names : LeaseExpires(n) /\ UNCHANGED svcVars
    PROVE  ProcInv(q)'
<1>i. PeersTypeOK /\ ProcInv(q)
  BY PartsAre, TypesAre DEF SvcIInv, ServicesInv
<1>1. /\ UNCHANGED svcVars
      /\ \/ stage'[q] = stage[q]
         \/ stage[q] = "off" /\ stage'[q] \in {"init", "stop"}
         \/ stage[q] = "init" /\ stage'[q] = "ready"
         \/ stage[q] = "unregister" /\ stage'[q] = "leave"
         \/ /\ phase[q] = "ready" /\ stage[q] \in {"ready", "up"}
            /\ stage'[q] \in {"up", "stop"}
      /\ cancelled[q] => cancelled'[q]
  BY <1>i, PeerFrame
<1>2. PhaseOf(q)'
  <2>1. PhaseOf(q) /\ UNCHANGED <<phase, leftovers, services, prefixIndex, svcEvents, call, handling>>
    BY <1>i, <1>1 DEF ProcInv, svcVars, svcMemory
  <2> QED BY <1>1, <2>1 DEF PhaseOf
<1>3. stage[q] = "leave" => stage'[q] = "leave"
  BY <1>1
<1> QED BY <1>i, <1>1, <1>2, <1>3, StageFrame

\* The peer is unregistered when no service is left to release.
LEMMA StopPeerProc ==
    ASSUME SvcIInv, NEW p \in Procs, StopPeer(p)
    PROVE  ProcInv(p)'
<1>i. PeersTypeOK /\ ProcInv(p)
  BY PartsAre, TypesAre DEF SvcIInv, ServicesInv
<1>1. /\ UNCHANGED svcVars /\ UNCHANGED cancelled
      /\ stage[p] = "stop" /\ stage'[p] = "unregister"
      /\ phase[p] \in {"none", "failed"} \/ (phase[p] = "stop" /\ leftovers[p] = {})
  BY <1>i DEF StopPeer, UnregisterBegin, Goes, memory, PeersTypeOK
<1>2. PhaseOf(p)'
  <2>1. PhaseOf(p) /\ UNCHANGED <<phase, leftovers, services, prefixIndex, svcEvents, call, handling>>
    BY <1>i, <1>1 DEF ProcInv, svcVars, svcMemory
  <2> QED BY <1>1, <2>1 DEF PhaseOf
<1> QED BY <1>i, <1>1, <1>2, StageFrame

\* The process is gone, with its memory.
LEMMA EndsProc ==
    ASSUME SvcIInv, NEW p \in Procs, SvcEnds(p)
    PROVE  ProcInv(p)'
<1>i. SvcTypes /\ calls \in Nat
  BY TypesAre, ServiceFacts DEF SvcIInv, ServicesInv, SvcTypes
<1>1. /\ phase'[p] = "none" /\ leftovers'[p] = {} /\ call'[p] = NoCall /\ handling'[p] = Idle
      /\ services'[p] = [s \in Services |-> NoService] /\ prefixIndex'[p] = EmptyTrie
      /\ svcEvents'[p] = <<>> /\ selfServices'[p] = [s \in Services |-> -1]
      /\ calls' = calls
  BY <1>i DEF SvcEnds, SvcTypes, SvcQueues
<1>2. PhaseOf(p)'
  BY <1>1 DEF PhaseOf
<1>3. LeftoversOf(p)' /\ RevisionsOf(p)'
  BY <1>i, <1>1 DEF LeftoversOf, RevisionsOf
<1>4. Quiet'
  BY QuietProc, PTL
<1>5. (CallOf(p) /\ TrackedOf(p) /\ IndexOf(p) /\ \A s \in Services : View(p, s))'
  BY <1>1, <1>2, <1>4 DEF Quiet
<1> QED BY <1>2, <1>3, <1>5 DEF ProcInv

\* The list of what is left, and a start that fails.
LEMMA ListProc ==
    ASSUME SvcIInv, NEW p \in Procs, ListLeftovers(p) \/ InitServicesFails(p)
    PROVE  ProcInv(p)'
<1>i. SvcTypes /\ PeersTypeOK /\ ProcInv(p) /\ calls \in Nat /\ NameOf[p] \in Names
  BY PartsAre, TypesAre, ServiceFacts DEF SvcIInv, ServicesInv, SvcTypes
<1>u. UNCHANGED <<svcKey, peerSvc, services, selfServices, prefixIndex, svcEvents, call, handling,
                  calls>>
  BY DEF ListLeftovers, InitServicesFails, svcStore
<1>1. \/ /\ phase[p] = "none" /\ phase'[p] = "clean" /\ stage'[p] = "ready"
         /\ leftovers'[p] = peerSvc[NameOf[p]]
      \/ /\ phase[p] = "clean" /\ phase'[p] = "failed" /\ stage'[p] = "stop"
         /\ leftovers'[p] = leftovers[p]
         /\ leftovers[p] = {} \/ unsure'[p] = peerSvc[NameOf[p]]
  <2>1. CASE ListLeftovers(p)
    BY <1>i, <2>1 DEF ListLeftovers, SvcTypes, peerVars, procVars
  <2>2. CASE InitServicesFails(p)
    BY <1>i, <2>2 DEF InitServicesFails, Goes, SvcTypes, PeersTypeOK
  <2> QED BY <2>1, <2>2
<1>2. PhaseOf(p)'
  BY <1>i, <1>u, <1>1 DEF ProcInv, PhaseOf
<1>3. LeftoversOf(p)' /\ RevisionsOf(p)'
  BY <1>i, <1>u, <1>1 DEF ProcInv, LeftoversOf, RevisionsOf
<1>4. Quiet'
  BY QuietProc, PTL
<1>5. (CallOf(p) /\ TrackedOf(p) /\ IndexOf(p) /\ \A s \in Services : View(p, s))'
  BY <1>1, <1>2, <1>4 DEF Quiet
<1> QED BY <1>2, <1>3, <1>5 DEF ProcInv

\* The Get: the map and the index are those of the keys, and none is its own.
LEMMA InitServicesProc ==
    ASSUME SvcIInv, NEW p \in Procs, InitServices(p)
    PROVE  ProcInv(p)'
<1>i. /\ SvcTypes /\ ProcInv(p) /\ calls \in Nat /\ NameOf[p] \in Names /\ NameOf[p] # Unknown
      /\ SvcKeyShape /\ ServiceKeysAgree
  BY PartsAre, TypesAre, ServiceFacts DEF SvcIInv, ServicesInv, SvcTypes
<1>u. UNCHANGED <<stage, cancelled, svcKey, peerSvc, leftovers, svcEvents, call, handling, calls>>
  BY DEF InitServices, svcStore, peerVars, procVars
<1>1. /\ phase[p] = "clean" /\ leftovers[p] = {} /\ phase'[p] = "ready" 
      /\ selfServices'[p] = [s \in Services |-> IF svcKey[s].value = NameOf[p] THEN 0 ELSE -1]
  BY <1>i DEF InitServices, SvcTypes
<1>2. /\ stage[p] = "ready" /\ svcEvents[p] = <<>> /\ call[p] = NoCall /\ handling[p] = Idle
  BY <1>i, <1>1 DEF ProcInv, PhaseOf
<1>3. \A s \in Services : svcKey[s].value # NameOf[p]
  BY <1>i, <1>1 DEF ProcInv, LeftoversOf, ServiceKeysAgree
<1>4. ASSUME NEW s \in Services
      PROVE  /\ services'[p][s].peer = svcKey[s].value
             /\ services'[p][s] = NoService <=> svcKey[s].value = Unknown
  <2>1. services'[p][s] = [peer |-> svcKey[s].value, isSelf |-> svcKey[s].value = NameOf[p]]
    BY <1>i DEF InitServices, SvcTypes
  <2>2. (svcKey[s].value = NameOf[p]) = FALSE
    BY <1>3
  <2>3. services'[p][s] = [peer |-> svcKey[s].value, isSelf |-> FALSE]
    BY <2>1, <2>2, Zenon
  <2>4. services'[p][s].peer = svcKey[s].value
    BY <2>3
  <2>5. svcKey[s].value = Unknown => services'[p][s] = NoService
    BY <2>3, Zenon DEF NoService
  <2> QED BY <2>4, <2>5, NothingFields
<1>5. PhaseOf(p)'
  BY <1>u, <1>1, <1>2 DEF PhaseOf
<1>6. LeftoversOf(p)' /\ CallOf(p)'
  BY <1>u, <1>1, <1>2 DEF LeftoversOf, CallOf
<1>7. RevisionsOf(p)'
  BY <1>i, <1>u, <1>1 DEF RevisionsOf
<1>8. TrackedOf(p)'
  BY <1>u, <1>3 DEF TrackedOf
<1>9. IndexOf(p)'
  <2> DEFINE t == [n \in UNION {NodesTo(s) : s \in Registered} |-> n \in Registered]
  <2>1. prefixIndex'[p] = t
    BY <1>i DEF InitServices, SvcTypes
  <2>2. WellFormed(t) /\ Set(t) = Registered
    BY IndexOfRegistered
  <2> HIDE DEF t
  <2>3. ASSUME NEW s \in Services PROVE InStep(p, s)'
    <3>1. InIndex(p, s)' <=> svcKey[s].value # Unknown
      BY <1>i, <2>1, <2>2 DEF InIndex, Registered, SvcKeyShape
    <3>2. ~Indexing(p, s)' /\ call'[p].at # "self"
      BY <1>u, <1>2, NothingFields DEF Indexing
    <3> QED BY <1>4, <3>1, <3>2 DEF InStep
  <2> QED BY <1>u, <1>2, <2>1, <2>2, <2>3, NothingFields DEF IndexOf
<1>10. ASSUME NEW s \in Services PROVE View(p, s)'
  <2>1. ~Storing(p, s)' /\ svcEvents'[p] = <<>> /\ Len(<<>>) = 0
    BY <1>u, <1>2, NothingFields DEF Storing
  <2>2. NoStaleOwner(p, s)'
    BY <1>u, <1>4, <2>1 DEF NoStaleOwner
  <2>3. OwnerComes(p, s)'
    BY <1>u, <1>4, <2>1 DEF OwnerComes, DeleteAfter
  <2> QED BY <1>4, <1>u, <2>2, <2>3 DEF View
<1> QED BY <1>5, <1>6, <1>7, <1>8, <1>9, <1>10 DEF ProcInv

\* The stop lists the own services: those with a CreateRevision are among them.
LEMMA StopServicesProc ==
    ASSUME SvcIInv, NEW p \in Procs, StopServices(p)
    PROVE  ProcInv(p)'
<1>i. /\ SvcTypes /\ ProcInv(p)
  BY PartsAre, TypesAre DEF SvcIInv, ServicesInv
<1>u. UNCHANGED <<stage, cancelled, svcKey, peerSvc, services, selfServices, prefixIndex, svcEvents,
                  call, handling, dropped, raced, unsure, calls>>
  BY DEF StopServices, svcStore, peerVars, procVars
<1>1. /\ stage[p] = "stop" /\ phase[p] = "ready" /\ phase'[p] = "stop" /\ call[p] = NoCall
      /\ leftovers'[p] = {s \in Services : selfServices[p][s] # -1}
  BY <1>i DEF StopServices, SvcTypes
<1>2. PhaseOf(p)' /\ LeftoversOf(p)' /\ RevisionsOf(p)' /\ CallOf(p)'
  BY <1>i, <1>u, <1>1 DEF ProcInv, PhaseOf, LeftoversOf, RevisionsOf, CallOf
<1>3. IndexOf(p)'
  BY <1>i, <1>u, IndexFrame DEF ProcInv, SameIndex
<1>4. TrackedOf(p)'
  <2> SUFFICES ASSUME NEW s \in Services \ (raced'[p] \cup unsure'[p]),
                      Active(p)', phase'[p] \in {"ready", "stop"}, svcKey'[s].value = NameOf[p]
               PROVE  Tracked(p, s)'
    BY DEF TrackedOf
  <2>1. Tracked(p, s)
    BY <1>i, <1>u, <1>1 DEF ProcInv, TrackedOf, Active
  <2>2. selfServices[p][s] = svcKey[s].create /\ svcKey[s].create \in Nat
    BY <1>i, <1>1, <2>1, CallFields DEF Tracked, SvcTypes, SvcKeyType
  <2>3. s \in leftovers'[p]
    BY <1>1, <2>2
  <2>4. ~DeletePending(p, s)'
    BY <1>u, <2>1 DEF Tracked, DeletePending
  <2> QED BY <1>u, <2>1, <2>3, <2>4 DEF Tracked
<1>5. ASSUME NEW s \in Services PROVE View(p, s)'
  <2>1. View(p, s)
    BY <1>i DEF ProcInv
  <2>2. SvcListening(p)' => SvcListening(p)
    BY <1>u, <1>1, Zenon DEF SvcListening
  <2>3. Storing(p, s)' = Storing(p, s)
    BY <1>u DEF Storing
  <2> QED BY <1>u, <2>1, <2>2, <2>3, ViewFrame
<1> QED BY <1>2, <1>3, <1>4, <1>5 DEF ProcInv

-----------------------------------------------------------------------------
(* The events to come.                                                     *)

Deletion(s) == [svc |-> s, owner |-> Unknown]

\* A deletion to come, after an event more ...
LEMMA AfterAppend ==
    ASSUME NEW q \in Seq(SvcEv), NEW e \in SvcEv, NEW s \in Services, NEW i \in 0 .. Len(q)
    PROVE  DeleteAfter(Append(q, e), s, i) <=> DeleteAfter(q, s, i) \/ e = Deletion(s)
<1> DEFINE a == Append(q, e)
<1>1. /\ Len(a) = Len(q) + 1 /\ a[Len(q) + 1] = e /\ Len(q) \in Nat
      /\ \A j \in 1 .. Len(q) : a[j] = q[j]
  BY AppendAt
<1> HIDE DEF a
<1>2. ASSUME DeleteAfter(a, s, i), e # Deletion(s) PROVE DeleteAfter(q, s, i)
  <2>1. PICK j \in 1 .. Len(a) : j > i /\ a[j] = Deletion(s)
    BY <1>2 DEF DeleteAfter, Deletion
  <2>2. j \in 1 .. Len(q) /\ q[j] = Deletion(s)
    BY <1>1, <1>2, <2>1
  <2> QED BY <2>1, <2>2 DEF DeleteAfter, Deletion
<1>3. ASSUME DeleteAfter(q, s, i) PROVE DeleteAfter(a, s, i)
  <2>1. PICK j \in 1 .. Len(q) : j > i /\ q[j] = Deletion(s)
    BY <1>3 DEF DeleteAfter, Deletion
  <2>2. j \in 1 .. Len(a) /\ a[j] = Deletion(s)
    BY <1>1, <2>1
  <2> QED BY <2>1, <2>2 DEF DeleteAfter, Deletion
<1>4. ASSUME e = Deletion(s) PROVE DeleteAfter(a, s, i)
  <2>1. Len(q) + 1 \in 1 .. Len(a) /\ Len(q) + 1 > i /\ a[Len(q) + 1] = Deletion(s)
    BY <1>1, <1>4
  <2> QED BY <2>1 DEF DeleteAfter, Deletion
<1> QED BY <1>2, <1>3, <1>4 DEF a

\* ... and an event less ...
LEMMA AfterTail ==
    ASSUME NEW q \in Seq(SvcEv), q # <<>>, NEW s \in Services, NEW i \in 0 .. Len(q) - 1
    PROVE  DeleteAfter(Tail(q), s, i) <=> DeleteAfter(q, s, i + 1)
<1> DEFINE a == Tail(q)
<1>1. /\ Len(a) = Len(q) - 1 /\ Len(q) \in Nat \ {0}
      /\ \A j \in 1 .. Len(q) - 1 : a[j] = q[j + 1]
  BY TailAt
<1> HIDE DEF a
<1>2. ASSUME DeleteAfter(a, s, i) PROVE DeleteAfter(q, s, i + 1)
  <2>1. PICK j \in 1 .. Len(a) : j > i /\ a[j] = Deletion(s)
    BY <1>2 DEF DeleteAfter, Deletion
  <2>2. j + 1 \in 1 .. Len(q) /\ q[j + 1] = Deletion(s) /\ j + 1 > i + 1
    BY <1>1, <2>1
  <2> QED BY <2>2 DEF DeleteAfter, Deletion
<1>3. ASSUME DeleteAfter(q, s, i + 1) PROVE DeleteAfter(a, s, i)
  <2>1. PICK j \in 1 .. Len(q) : j > i + 1 /\ q[j] = Deletion(s)
    BY <1>3 DEF DeleteAfter, Deletion
  <2>2. j - 1 \in 1 .. Len(a) /\ a[j - 1] = Deletion(s) /\ j - 1 > i
    BY <1>1, <2>1
  <2> QED BY <2>2 DEF DeleteAfter, Deletion
<1> QED BY <1>2, <1>3 DEF a

\* ... which was the deletion, or the deletion is still to come.
LEMMA AfterHead ==
    ASSUME NEW q \in Seq(SvcEv), q # <<>>, NEW s \in Services
    PROVE  DeleteAfter(q, s, 0) <=> q[1] = Deletion(s) \/ DeleteAfter(Tail(q), s, 0)
<1>1. Len(q) \in Nat \ {0}
  BY TailAt
<1>2. DeleteAfter(Tail(q), s, 0) <=> DeleteAfter(q, s, 1)
  <2>1. 0 \in 0 .. Len(q) - 1 /\ 0 + 1 = 1
    BY <1>1
  <2> QED BY <2>1, AfterTail
<1>3. DeleteAfter(q, s, 0) <=> q[1] = Deletion(s) \/ DeleteAfter(q, s, 1)
  <2>1. ASSUME DeleteAfter(q, s, 0), q[1] # Deletion(s) PROVE DeleteAfter(q, s, 1)
    <3>1. PICK j \in 1 .. Len(q) : j > 0 /\ q[j] = Deletion(s)
      BY <2>1 DEF DeleteAfter, Deletion
    <3>2. j > 1
      BY <2>1, <3>1, <1>1
    <3> QED BY <3>1, <3>2 DEF DeleteAfter, Deletion
  <2>2. ASSUME q[1] = Deletion(s) PROVE DeleteAfter(q, s, 0)
    <3>1. 1 \in 1 .. Len(q)
      BY <1>1
    <3> QED BY <2>2, <3>1 DEF DeleteAfter, Deletion
  <2>3. ASSUME DeleteAfter(q, s, 1) PROVE DeleteAfter(q, s, 0)
    BY <1>1, <2>3 DEF DeleteAfter
  <2> QED BY <2>1, <2>2, <2>3
<1> QED BY <1>2, <1>3

Pending ==
    \A p \in Procs, s \in Services : svcEvents \in SvcQueues =>
        (DeletePending(p, s) <=> \/ DeleteAfter(svcEvents[p], s, 0)
                                 \/ handling[p].svc = s /\ handling[p].owner = Unknown)

\* A deletion that is pending is to come or in hands.
LEMMA PendingIs == Pending
<1> SUFFICES ASSUME NEW p \in Procs, NEW s \in Services, svcEvents \in SvcQueues
             PROVE  DeletePending(p, s) <=> \/ DeleteAfter(svcEvents[p], s, 0)
                                            \/ handling[p].svc = s /\ handling[p].owner = Unknown
  BY Zenon DEF Pending
<1>1. svcEvents[p] \in Seq(SvcEv) /\ Len(svcEvents[p]) \in Nat
      /\ DOMAIN svcEvents[p] = 1 .. Len(svcEvents[p])
  BY LenProperties DEF SvcQueues
<1>2. (\E i \in DOMAIN svcEvents[p] : svcEvents[p][i] = [svc |-> s, owner |-> Unknown])
        <=> DeleteAfter(svcEvents[p], s, 0)
  BY <1>1 DEF DeleteAfter
<1> QED BY <1>2 DEF DeletePending

-----------------------------------------------------------------------------
(* A process knows what is registered.                                     *)

\* A registration of t: every listening process gets the event.
LEMMA ViewPut ==
    ASSUME SvcIInv, NEW p \in Procs, NEW s \in Services, Puts(p, s),
           NEW q \in Procs, NEW t \in Services
    PROVE  View(q, t)'
<1>i. /\ SvcTypes /\ View(q, t) /\ SvcKeyShape /\ ServiceKeysAgree /\ TypeOK
      /\ NameOf[p] \in Names /\ NameOf[p] # Unknown
  BY PartsAre, TypesAre, ServiceFacts DEF SvcIInv, ServicesInv, ProcInv
<1>u. /\ UNCHANGED <<cancelled, phase, services, handling, dropped>>
      /\ PutService(p, s) /\ svcKey[s].create = 0
  BY DEF Puts, Registers, peerVars, procVars
<1> DEFINE e == [svc |-> s, owner |-> NameOf[p]]
           Q == svcEvents[q]
           R == svcEvents'[q]
<1>k. /\ svcKey[s].value = Unknown /\ svcKey'[s].value = NameOf[p]
      /\ t # s => svcKey'[t] = svcKey[t]
  <2>1. /\ svcKey'[s] = [value |-> NameOf[p], create |-> calls + 1]
        /\ svcKey[s].value = Unknown
        /\ t # s => svcKey'[t] = svcKey[t]
    BY <1>i, <1>u, PutServiceKeys
  <2> QED BY <2>1
<1>b. e \in SvcEv /\ R = IF SvcListening(q) THEN Append(Q, e) ELSE Q
  <2>1. SvcBroadcast(s, NameOf[p]) /\ svcEvents \in SvcQueues
    BY <1>i, <1>u DEF PutService, SvcTypes
  <2> QED BY <1>i, <2>1, SvcBroadcastQueues
<1>l. SvcListening(q)' <=> SvcListening(q)
  BY <1>u DEF SvcListening
<1>s. Storing(q, t)' <=> Storing(q, t)
  BY <1>u DEF Storing
<1>1. CASE ~SvcListening(q)
  BY <1>i, <1>u, <1>l, <1>1 DEF View
<1>2. CASE SvcListening(q)
  <2>q. Q \in Seq(SvcEv)
    BY <1>i DEF SvcTypes, SvcQueues
  <2>e. e # Deletion(t) /\ e.svc = s /\ e.owner = NameOf[p]
    BY <1>i DEF Deletion
  <2>a. /\ Len(R) = Len(Q) + 1 /\ R[Len(Q) + 1] = e /\ Len(Q) \in Nat
        /\ \A i \in 1 .. Len(Q) : R[i] = Q[i]
    BY <1>b, <1>2, <2>q, AppendAt
  <2>d. \A i \in 0 .. Len(Q) : DeleteAfter(R, t, i) <=> DeleteAfter(Q, t, i)
    BY <1>b, <1>2, <2>q, <2>e, AfterAppend
  <2>n. NoStaleOwner(q, t) /\ OwnerComes(q, t)
    BY <1>i, <1>2 DEF View
  <2> HIDE DEF e, Q, R
  <2>z. 0 \in 0 .. Len(Q)
    BY <2>a
  <2>1. NoStaleOwner(q, t)'
    <3>1. ASSUME NEW n, NEW i \in 0 .. Len(Q),
                 n \in {Unknown, svcKey[t].value} \/ DeleteAfter(Q, t, i)
          PROVE  n \in {Unknown, svcKey'[t].value} \/ DeleteAfter(R, t, i)
      BY <1>k, <2>d, <3>1
    <3>2. /\ services[q][t].peer \in {Unknown, svcKey[t].value} \/ DeleteAfter(Q, t, 0)
          /\ Storing(q, t) => handling[q].owner \in {Unknown, svcKey[t].value} \/ DeleteAfter(Q, t, 0)
          /\ \A i \in 1 .. Len(Q) : Q[i].svc = t =>
                Q[i].owner \in {Unknown, svcKey[t].value} \/ DeleteAfter(Q, t, i)
      BY <2>n DEF NoStaleOwner, Q
    <3>3. ASSUME NEW i \in 1 .. Len(R), R[i].svc = t
          PROVE  R[i].owner \in {Unknown, svcKey'[t].value} \/ DeleteAfter(R, t, i)
      <4>1. CASE i = Len(Q) + 1
        BY <1>k, <2>a, <2>e, <3>3, <4>1
      <4>2. CASE i \in 1 .. Len(Q)
        <5>1. i \in 0 .. Len(Q) /\ Q[i].svc = t /\ R[i].owner = Q[i].owner
          BY <2>a, <3>3, <4>2
        <5> QED BY <3>1, <3>2, <4>2, <5>1
      <4> QED BY <2>a, <4>1, <4>2
    <3>4. services[q][t].peer \in {Unknown, svcKey'[t].value} \/ DeleteAfter(R, t, 0)
      BY <2>z, <3>1, <3>2
    <3>5. Storing(q, t) => handling[q].owner \in {Unknown, svcKey'[t].value} \/ DeleteAfter(R, t, 0)
      BY <2>z, <3>1, <3>2
    <3> QED BY <1>u, <1>s, <3>3, <3>4, <3>5 DEF NoStaleOwner, R
  <2>2. OwnerComes(q, t)'
    <3>1. CASE t = s
      <4>1. Len(Q) + 1 \in 1 .. Len(R) /\ R[Len(Q) + 1].svc = t /\ R[Len(Q) + 1].owner # Unknown
        BY <1>i, <2>a, <2>e, <3>1
      <4>2. ~DeleteAfter(R, t, Len(Q) + 1)
        BY <2>a DEF DeleteAfter
      <4> QED BY <4>1, <4>2 DEF OwnerComes, R
    <3>2. CASE t # s
      <4>1. svcKey[t].value # Unknown =>
              \/ /\ ~DeleteAfter(Q, t, 0)
                 /\ services[q][t] # NoService \/ Storing(q, t) \/ t \in dropped[q]
              \/ \E i \in 1 .. Len(Q) : /\ Q[i].svc = t /\ Q[i].owner # Unknown
                                        /\ ~DeleteAfter(Q, t, i)
        BY <2>n DEF OwnerComes, Q
      <4>2. ASSUME NEW i \in 1 .. Len(Q), Q[i].svc = t, Q[i].owner # Unknown, ~DeleteAfter(Q, t, i)
            PROVE  i \in 1 .. Len(R) /\ R[i].svc = t /\ R[i].owner # Unknown /\ ~DeleteAfter(R, t, i)
        BY <2>a, <2>d, <4>2
      <4>3. svcKey[t].value # Unknown =>
              \/ /\ ~DeleteAfter(R, t, 0)
                 /\ services[q][t] # NoService \/ Storing(q, t) \/ t \in dropped[q]
              \/ \E i \in 1 .. Len(R) : /\ R[i].svc = t /\ R[i].owner # Unknown
                                        /\ ~DeleteAfter(R, t, i)
        BY <2>d, <2>z, <4>1, <4>2
      <4> QED BY <1>k, <1>u, <1>s, <3>2, <4>3 DEF OwnerComes, R
    <3> QED BY <3>1, <3>2
  <2> QED BY <1>i, <1>u, <2>1, <2>2 DEF View
<1> QED BY <1>1, <1>2

\* A deletion: every listening process gets the event, after all others.
LEMMA ViewRelease ==
    ASSUME SvcIInv, NEW p \in Procs, NEW s \in Services, Releases(p, s),
           NEW q \in Procs, NEW t \in Services
    PROVE  View(q, t)'
<1>i. /\ SvcTypes /\ View(q, t) /\ ServiceKeysAgree /\ TypeOK
  BY PartsAre, TypesAre DEF SvcIInv, ServicesInv, ProcInv
<1>u. /\ UNCHANGED <<cancelled, phase, services, handling, dropped>>
      /\ DeleteService(p, s) /\ svcKey[s].value = NameOf[p]
  BY DEF Releases, peerVars, procVars
<1> DEFINE e == Deletion(s)
           Q == svcEvents[q]
           R == svcEvents'[q]
<1>k. svcKey'[s].value = Unknown /\ (t # s => svcKey'[t] = svcKey[t])
  BY <1>i, <1>u, DeleteServiceKeys, NothingFields
<1>b. e \in SvcEv /\ R = IF SvcListening(q) THEN Append(Q, e) ELSE Q
  <2>1. SvcBroadcast(s, Unknown) /\ svcEvents \in SvcQueues
    BY <1>i, <1>u DEF DeleteService, SvcTypes
  <2> QED BY <1>i, <2>1, SvcBroadcastQueues DEF Deletion
<1>l. SvcListening(q)' <=> SvcListening(q)
  BY <1>u DEF SvcListening
<1>s. Storing(q, t)' <=> Storing(q, t)
  BY <1>u DEF Storing
<1>1. CASE ~SvcListening(q)
  BY <1>i, <1>u, <1>l, <1>1 DEF View
<1>2. CASE SvcListening(q)
  <2>q. Q \in Seq(SvcEv)
    BY <1>i DEF SvcTypes, SvcQueues
  <2>e. (e = Deletion(t) <=> t = s) /\ e.svc = s /\ e.owner = Unknown
    BY DEF Deletion
  <2>a. /\ Len(R) = Len(Q) + 1 /\ R[Len(Q) + 1] = e /\ Len(Q) \in Nat
        /\ \A i \in 1 .. Len(Q) : R[i] = Q[i]
    BY <1>b, <1>2, <2>q, AppendAt
  <2>d. \A i \in 0 .. Len(Q) : DeleteAfter(R, t, i) <=> DeleteAfter(Q, t, i) \/ t = s
    BY <1>b, <1>2, <2>q, <2>e, AfterAppend
  <2>n. NoStaleOwner(q, t) /\ OwnerComes(q, t)
    BY <1>i, <1>2 DEF View
  <2> HIDE DEF e, Q, R
  <2>z. 0 \in 0 .. Len(Q)
    BY <2>a
  <2>1. NoStaleOwner(q, t)'
    <3>1. ASSUME NEW n, NEW i \in 0 .. Len(Q),
                 n \in {Unknown, svcKey[t].value} \/ DeleteAfter(Q, t, i)
          PROVE  n \in {Unknown, svcKey'[t].value} \/ DeleteAfter(R, t, i)
      BY <1>k, <2>d, <3>1
    <3>2. /\ services[q][t].peer \in {Unknown, svcKey[t].value} \/ DeleteAfter(Q, t, 0)
          /\ Storing(q, t) => handling[q].owner \in {Unknown, svcKey[t].value} \/ DeleteAfter(Q, t, 0)
          /\ \A i \in 1 .. Len(Q) : Q[i].svc = t =>
                Q[i].owner \in {Unknown, svcKey[t].value} \/ DeleteAfter(Q, t, i)
      BY <2>n DEF NoStaleOwner, Q
    <3>3. ASSUME NEW i \in 1 .. Len(R), R[i].svc = t
          PROVE  R[i].owner \in {Unknown, svcKey'[t].value} \/ DeleteAfter(R, t, i)
      <4>1. CASE i = Len(Q) + 1
        BY <1>k, <2>a, <2>e, <3>3, <4>1
      <4>2. CASE i \in 1 .. Len(Q)
        <5>1. i \in 0 .. Len(Q) /\ Q[i].svc = t /\ R[i].owner = Q[i].owner
          BY <2>a, <3>3, <4>2
        <5> QED BY <3>1, <3>2, <4>2, <5>1
      <4> QED BY <2>a, <4>1, <4>2
    <3>4. services[q][t].peer \in {Unknown, svcKey'[t].value} \/ DeleteAfter(R, t, 0)
      BY <2>z, <3>1, <3>2
    <3>5. Storing(q, t) => handling[q].owner \in {Unknown, svcKey'[t].value} \/ DeleteAfter(R, t, 0)
      BY <2>z, <3>1, <3>2
    <3> QED BY <1>u, <1>s, <3>3, <3>4, <3>5 DEF NoStaleOwner, R
  <2>2. OwnerComes(q, t)'
    <3>1. CASE t = s
      BY <1>k, <3>1 DEF OwnerComes
    <3>2. CASE t # s
      <4>1. svcKey[t].value # Unknown =>
              \/ /\ ~DeleteAfter(Q, t, 0)
                 /\ services[q][t] # NoService \/ Storing(q, t) \/ t \in dropped[q]
              \/ \E i \in 1 .. Len(Q) : /\ Q[i].svc = t /\ Q[i].owner # Unknown
                                        /\ ~DeleteAfter(Q, t, i)
        BY <2>n DEF OwnerComes, Q
      <4>2. ASSUME NEW i \in 1 .. Len(Q), Q[i].svc = t, Q[i].owner # Unknown, ~DeleteAfter(Q, t, i)
            PROVE  i \in 1 .. Len(R) /\ R[i].svc = t /\ R[i].owner # Unknown /\ ~DeleteAfter(R, t, i)
        BY <2>a, <2>d, <3>2, <4>2
      <4>3. svcKey[t].value # Unknown =>
              \/ /\ ~DeleteAfter(R, t, 0)
                 /\ services[q][t] # NoService \/ Storing(q, t) \/ t \in dropped[q]
              \/ \E i \in 1 .. Len(R) : /\ R[i].svc = t /\ R[i].owner # Unknown
                                        /\ ~DeleteAfter(R, t, i)
        BY <2>d, <2>z, <3>2, <4>1, <4>2
      <4> QED BY <1>k, <1>u, <1>s, <3>2, <4>3 DEF OwnerComes, R
    <3> QED BY <3>1, <3>2
  <2> QED BY <1>i, <1>u, <2>1, <2>2 DEF View
<1> QED BY <1>1, <1>2

-----------------------------------------------------------------------------
(* The call and the watch of a process.                                    *)

\* The next place of a call, and of the event in hands.
LEMMA NextPlace ==
    ASSUME SvcTypes, NEW p \in Procs, NEW x \in Steps
    PROVE  /\ call[p] # NoCall /\ call' = [call EXCEPT ![p].at = x] =>
                 /\ call'[p].svc = call[p].svc /\ call'[p].create = call[p].create
                 /\ call'[p].at = x
           /\ handling[p] # Idle /\ handling' = [handling EXCEPT ![p].at = x] =>
                 /\ handling'[p].svc = handling[p].svc /\ handling'[p].owner = handling[p].owner
                 /\ handling'[p].at = x
<1>1. ASSUME call[p] # NoCall, call' = [call EXCEPT ![p].at = x]
      PROVE  /\ call'[p].svc = call[p].svc /\ call'[p].create = call[p].create
             /\ call'[p].at = x
  <2>1. call[p] \in CallType /\ call'[p] = [call[p] EXCEPT !.at = x]
    BY <1>1, CallFields DEF SvcTypes
  <2> QED BY <2>1 DEF CallType
<1>2. ASSUME handling[p] # Idle, handling' = [handling EXCEPT ![p].at = x]
      PROVE  /\ handling'[p].svc = handling[p].svc /\ handling'[p].owner = handling[p].owner
             /\ handling'[p].at = x
  <2>1. handling[p] \in HandType /\ handling'[p] = [handling[p] EXCEPT !.at = x]
    BY <1>2, HandFields DEF SvcTypes
  <2> QED BY <2>1 DEF HandType
<1> QED BY <1>1, <1>2

\* A process with a call or an event in hands is serving, and goes on.
LEMMA ServingStep ==
    ASSUME SvcTypes, NEW p \in Procs, ProcInv(p),
           UNCHANGED <<stage, phase, leftovers, svcKey, peerSvc, calls>>,
           \/ call[p] # NoCall
           \/ call'[p] = call[p] /\ (handling[p] # Idle \/ svcEvents[p] # <<>>)
    PROVE  /\ PhaseOf(p)' /\ LeftoversOf(p)' /\ Active(p)' = Active(p)
           /\ phase[p] \in {"ready", "stop"}
<1>1. PhaseOf(p) /\ LeftoversOf(p) /\ phase[p] \in Phases
  BY DEF ProcInv, SvcTypes
<1>2. phase[p] \in {"ready", "stop"} /\ (call[p] # NoCall => phase[p] = "ready")
  BY <1>1 DEF PhaseOf, Phases
<1>3. PhaseOf(p)'
  BY <1>1, <1>2 DEF PhaseOf
<1>4. LeftoversOf(p)' /\ Active(p)' = Active(p)
  BY <1>1, <1>2 DEF LeftoversOf, Active
<1> QED BY <1>2, <1>3, <1>4

\* The service of a call is the process's, and the process is active.
LEMMA CallOwns ==
    ASSUME SvcTypes, NEW p \in Procs, ProcInv(p), call[p] # NoCall
    PROVE  /\ call[p].svc \in Services /\ phase[p] = "ready" /\ Active(p)
           /\ svcKey[call[p].svc].value = NameOf[p]
           /\ svcKey[call[p].svc].create = call[p].create
           /\ call[p].svc \notin raced[p] => Tracked(p, call[p].svc)
<1>1. phase[p] = "ready" /\ stage[p] # "leave"
  BY DEF ProcInv, PhaseOf
<1>2. call[p].svc \in Services
  BY CallFields
<1>3. svcKey[call[p].svc].value = NameOf[p] /\ svcKey[call[p].svc].create = call[p].create
     /\ call[p].svc \notin unsure[p]
  BY DEF ProcInv, CallOf
<1> QED BY <1>1, <1>2, <1>3 DEF ProcInv, TrackedOf, Active

\* LoadOrStore: the entry that was there, or one with the right owner.
LEMMA ViewStore ==
    ASSUME NEW q \in Procs, NEW s \in Services, View(q, s),
           svcKey'[s] = svcKey[s], svcEvents'[q] = svcEvents[q],
           s \in dropped[q] => s \in dropped'[q], SvcListening(q)' => SvcListening(q),
           services'[q][s] # NoService, services'[q][s].peer # Unknown,
           \/ services'[q][s] = services[q][s]
           \/ services'[q][s].peer = svcKey[s].value
           \/ Storing(q, s) /\ services'[q][s].peer = handling[q].owner,
           Storing(q, s)' => Storing(q, s) /\ handling'[q].owner = handling[q].owner
    PROVE  View(q, s)'
<1>1. ASSUME SvcListening(q)' PROVE NoStaleOwner(q, s)' /\ OwnerComes(q, s)'
  <2>1. NoStaleOwner(q, s) /\ OwnerComes(q, s)
    BY <1>1 DEF View
  <2>2. NoStaleOwner(q, s)'
    BY <2>1 DEF NoStaleOwner
  <2>3. OwnerComes(q, s)'
    BY <2>1 DEF OwnerComes
  <2> QED BY <2>2, <2>3
<1> QED BY <1>1 DEF View

\* The first LoadOrStore of RegisterService: the key is already its own, so the
\* entry it makes is the right one (service.go:525).
LEMMA RegisterStoreProc ==
    ASSUME SvcIInv, NEW p \in Procs, RegisterStore(p)
    PROVE  ProcInv(p)'
<1>i. SvcTypes /\ ProcInv(p)
  BY PartsAre, TypesAre DEF SvcIInv, ServicesInv
<1>u. UNCHANGED <<stage, cancelled, svcKey, peerSvc, phase, leftovers, selfServices, prefixIndex,
                  svcEvents, handling, dropped, raced, unsure, calls>>
  BY DEF RegisterStore, svcStore, peerVars, procVars
<1> DEFINE s == call[p].svc
<1>c. call[p] # NoCall /\ call[p].at = "services"
  BY <1>i, CallFields DEF RegisterStore, CallAt
<1>d. /\ s \in Services /\ phase[p] = "ready" /\ Active(p) /\ svcKey[s].value = NameOf[p]
      /\ svcKey[s].create = call[p].create /\ (s \notin raced[p] => Tracked(p, s))
  BY <1>i, <1>c, CallOwns
<1>n. call'[p].svc = s /\ call'[p].create = call[p].create /\ call'[p].at = "index"
  BY <1>i, <1>c, NextPlace DEF RegisterStore, Steps
<1>e. /\ services'[p][s] # NoService /\ services'[p][s].peer # Unknown
      /\ services'[p][s] = services[p][s] \/ services'[p][s].peer = NameOf[p]
      /\ \A t \in Services : t # s => services'[p][t] = services[p][t]
  <2>1. /\ services'[p][s] = IF services[p][s] = NoService
                             THEN [peer |-> NameOf[p], isSelf |-> TRUE] ELSE services[p][s]
        /\ \A t \in Services : t # s => services'[p][t] = services[p][t]
    BY <1>i, <1>d DEF RegisterStore, SvcTypes
  <2>2. /\ [peer |-> NameOf[p], isSelf |-> TRUE].peer = NameOf[p] /\ NameOf[p] # Unknown
        /\ [peer |-> NameOf[p], isSelf |-> TRUE] # NoService
    BY EntryFields, ServiceFacts
  <2>3. services[p][s].peer = Unknown => services[p][s] = NoService
    BY <1>i, <1>d DEF ProcInv, View
  <2> QED BY <2>1, <2>2, <2>3
<1> HIDE DEF s
<1>1. PhaseOf(p)' /\ LeftoversOf(p)' /\ Active(p)' = Active(p)
  BY <1>i, <1>u, <1>c, ServingStep
<1>2. RevisionsOf(p)'
  BY <1>i, <1>u DEF ProcInv, RevisionsOf
<1>3. CallOf(p)'
  BY <1>i, <1>u, <1>c, <1>n DEF ProcInv, CallOf, s
<1>4. TrackedOf(p)'
  <2> SUFFICES ASSUME NEW t \in Services \ (raced'[p] \cup unsure'[p]),
                      Active(p)', phase'[p] \in {"ready", "stop"}, svcKey'[t].value = NameOf[p]
               PROVE  Tracked(p, t)'
    BY DEF TrackedOf
  <2>1. Tracked(p, t)
    BY <1>i, <1>u, <1>1 DEF ProcInv, TrackedOf
  <2>2. CASE t = s
    <3>1. ~DeletePending(p, t)'
      BY <1>u, <2>1 DEF Tracked, DeletePending
    <3> QED BY <1>n, <1>e, <2>2, <3>1 DEF Tracked
  <2>3. CASE t # s
    BY <1>u, <1>n, <1>e, <2>1, <2>3, TrackedFrame DEF s
  <2> QED BY <2>2, <2>3
<1>5. IndexOf(p)'
  <2>1. ASSUME NEW t \in Services \ raced'[p] PROVE InStep(p, t)'
    <3>1. InStep(p, t)
      BY <1>i, <1>u, <2>1 DEF ProcInv, IndexOf
    <3>2. CASE t = s
      <4>1. ~(handling[p].svc = s /\ handling[p].owner = Unknown)
        BY <1>d, <1>u, <2>1, <3>2 DEF Tracked, DeletePending
      <4> QED BY <1>u, <1>n, <3>2, <4>1 DEF InStep, Indexing
    <3>3. CASE t # s
      BY <1>u, <1>n, <1>e, <3>1, <3>3 DEF InStep, Indexing, InIndex, s
    <3> QED BY <3>2, <3>3
  <2>2. handling[p].at = "index" => handling[p].svc \in Services
    BY <1>i, HandFields
  <2> QED BY <1>i, <1>u, <1>e, <2>1, <2>2 DEF ProcInv, IndexOf
<1>6. ASSUME NEW t \in Services PROVE View(p, t)'
  <2>1. View(p, t) /\ SvcListening(p)' = SvcListening(p) /\ Storing(p, t)' = Storing(p, t)
    BY <1>i, <1>u DEF ProcInv, SvcListening, Storing
  <2>2. CASE t = s
    BY <1>u, <1>d, <1>e, <2>1, <2>2, ViewStore
  <2>3. CASE t # s
    BY <1>u, <1>e, <2>1, <2>3, ViewFrame
  <2> QED BY <2>2, <2>3
<1> QED BY <1>1, <1>2, <1>3, <1>4, <1>5, <1>6 DEF ProcInv

\* The index follows the map (service.go:525).
LEMMA RegisterIndexProc ==
    ASSUME SvcIInv, NEW p \in Procs, RegisterIndex(p)
    PROVE  ProcInv(p)'
<1>i. SvcTypes /\ ProcInv(p)
  BY PartsAre, TypesAre DEF SvcIInv, ServicesInv
<1>u. UNCHANGED <<stage, cancelled, svcKey, peerSvc, phase, leftovers, services, selfServices,
                  svcEvents, handling, dropped, raced, unsure, calls>>
  BY DEF RegisterIndex, svcStore, peerVars, procVars
<1> DEFINE s == call[p].svc
<1>c. call[p] # NoCall /\ call[p].at = "index"
  BY <1>i, CallFields DEF RegisterIndex, CallAt
<1>d. /\ s \in Services /\ phase[p] = "ready" /\ Active(p) /\ svcKey[s].value = NameOf[p]
      /\ svcKey[s].create = call[p].create /\ (s \notin raced[p] => Tracked(p, s))
  BY <1>i, <1>c, CallOwns
<1>n. call'[p].svc = s /\ call'[p].create = call[p].create /\ call'[p].at = "self"
  BY <1>i, <1>c, NextPlace DEF RegisterIndex, Steps
<1>e. WellFormed(prefixIndex'[p]) /\ Set(prefixIndex'[p]) = Set(prefixIndex[p]) \cup {s}
  <2>1. /\ prefixIndex[p] \in TriesOver(Nodes) /\ WellFormed(prefixIndex[p])
        /\ Set(prefixIndex[p]) \subseteq Services
    BY <1>i DEF ProcInv, IndexOf, SvcTypes
  <2>2. prefixIndex'[p] = TrieAdd(prefixIndex[p], s)
    BY <1>i DEF RegisterIndex, SvcTypes
  <2> QED BY <1>d, <2>1, <2>2, IndexAdd
<1> HIDE DEF s
<1>1. PhaseOf(p)' /\ LeftoversOf(p)' /\ Active(p)' = Active(p)
  BY <1>i, <1>u, <1>c, ServingStep
<1>2. RevisionsOf(p)'
  BY <1>i, <1>u DEF ProcInv, RevisionsOf
<1>3. CallOf(p)'
  BY <1>i, <1>u, <1>c, <1>n DEF ProcInv, CallOf, s
<1>4. TrackedOf(p)'
  <2> SUFFICES ASSUME NEW t \in Services \ (raced'[p] \cup unsure'[p]),
                      Active(p)', phase'[p] \in {"ready", "stop"}, svcKey'[t].value = NameOf[p]
               PROVE  Tracked(p, t)'
    BY DEF TrackedOf
  <2>1. Tracked(p, t)
    BY <1>i, <1>u, <1>1 DEF ProcInv, TrackedOf
  <2>2. CASE t = s
    <3>1. ~DeletePending(p, t)'
      BY <1>u, <2>1 DEF Tracked, DeletePending
    <3>2. services'[p][t] # NoService
      BY <1>u, <1>c, <2>1, <2>2 DEF Tracked, s
    <3> QED BY <1>n, <2>2, <3>1, <3>2 DEF Tracked
  <2>3. CASE t # s
    BY <1>u, <1>n, <2>1, <2>3, TrackedFrame DEF s
  <2> QED BY <2>2, <2>3
<1>5. IndexOf(p)'
  <2>1. ASSUME NEW t \in Services \ raced'[p] PROVE InStep(p, t)'
    <3>1. InStep(p, t)
      BY <1>i, <1>u, <2>1 DEF ProcInv, IndexOf
    <3>2. CASE t = s
      <4>1. services[p][t] # NoService
        BY <1>u, <1>c, <1>d, <2>1, <3>2 DEF Tracked, s
      <4>2. InIndex(p, t)'
        BY <1>e, <3>2 DEF InIndex
      <4> QED BY <1>u, <3>1, <4>1, <4>2 DEF InStep, Indexing
    <3>3. CASE t # s
      BY <1>u, <1>n, <1>e, <3>1, <3>3 DEF InStep, Indexing, InIndex, s
    <3> QED BY <3>2, <3>3
  <2> QED BY <1>i, <1>u, <1>e, <2>1 DEF ProcInv, IndexOf
<1>6. ASSUME NEW t \in Services PROVE View(p, t)'
  <2>1. View(p, t) /\ SvcListening(p)' = SvcListening(p) /\ Storing(p, t)' = Storing(p, t)
    BY <1>i, <1>u DEF ProcInv, SvcListening, Storing
  <2> QED BY <1>u, <2>1, ViewFrame
<1> QED BY <1>1, <1>2, <1>3, <1>4, <1>5, <1>6 DEF ProcInv

\* The own services get the CreateRevision of the key: the stop will find it
\* (service.go:525).
LEMMA RegisterSelfServiceProc ==
    ASSUME SvcIInv, NEW p \in Procs, RegisterSelfService(p)
    PROVE  ProcInv(p)'
<1>i. SvcTypes /\ ProcInv(p) /\ SvcKeyShape /\ calls \in Nat
  BY PartsAre, TypesAre, ServiceFacts DEF SvcIInv, ServicesInv, SvcTypes
<1>u. UNCHANGED <<stage, cancelled, svcKey, peerSvc, phase, leftovers, services, prefixIndex,
                  svcEvents, handling, dropped, unsure, calls>>
  BY DEF RegisterSelfService, svcStore, peerVars, procVars
<1> DEFINE s == call[p].svc
<1>c. call[p] # NoCall /\ call[p].at = "self"
  BY <1>i, CallFields DEF RegisterSelfService, CallAt
<1>d. /\ s \in Services /\ phase[p] = "ready" /\ Active(p) /\ svcKey[s].value = NameOf[p]
      /\ svcKey[s].create = call[p].create /\ (s \notin raced[p] => Tracked(p, s))
  BY <1>i, <1>c, CallOwns
<1>n. call'[p] = NoCall /\ call'[p].svc \notin Services /\ call'[p].at = "none"
  <2>1. call'[p] = NoCall
    BY <1>i DEF RegisterSelfService, SvcTypes
  <2>2. NoCall.svc \notin Services /\ NoCall.at = "none"
    BY NothingFields, ServiceFacts
  <2> QED BY <2>1, <2>2
<1>e. /\ selfServices'[p][s] = call[p].create
      /\ \A t \in Services : t # s => selfServices'[p][t] = selfServices[p][t]
      /\ raced[p] \subseteq raced'[p] /\ (handling[p].svc = s => s \in raced'[p])
  BY <1>i, <1>d DEF RegisterSelfService, SvcTypes
<1> HIDE DEF s
<1>1. PhaseOf(p)' /\ LeftoversOf(p)' /\ Active(p)' = Active(p)
  BY <1>i, <1>u, <1>c, ServingStep
<1>2. RevisionsOf(p)'
  <2>1. svcKey[s].create <= calls
    BY <1>i, <1>d DEF SvcKeyShape
  <2> QED BY <1>i, <1>u, <1>d, <1>e, <2>1 DEF ProcInv, RevisionsOf
<1>3. CallOf(p)'
  BY <1>n DEF CallOf
<1>4. TrackedOf(p)'
  <2> SUFFICES ASSUME NEW t \in Services \ (raced'[p] \cup unsure'[p]),
                      Active(p)', phase'[p] \in {"ready", "stop"}, svcKey'[t].value = NameOf[p]
               PROVE  Tracked(p, t)'
    BY DEF TrackedOf
  <2>1. Tracked(p, t)
    BY <1>i, <1>u, <1>e, <1>1 DEF ProcInv, TrackedOf
  <2>2. CASE t = s
    <3>1. ~DeletePending(p, t)'
      BY <1>u, <2>1 DEF Tracked, DeletePending
    <3>2. services'[p][t] # NoService /\ handling'[p].svc # t
      BY <1>u, <1>c, <1>e, <2>1, <2>2 DEF Tracked, s
    <3>3. selfServices'[p][t] = svcKey'[t].create /\ phase'[p] # "stop"
      BY <1>u, <1>d, <1>e, <2>2
    <3> QED BY <1>n, <2>2, <3>1, <3>2, <3>3 DEF Tracked
  <2>3. CASE t # s
    BY <1>u, <1>n, <1>e, <2>1, <2>3, TrackedFrame DEF s
  <2> QED BY <2>2, <2>3
<1>5. IndexOf(p)'
  <2>1. ASSUME NEW t \in Services \ raced'[p] PROVE InStep(p, t)'
    <3>1. InStep(p, t)
      BY <1>i, <1>e, <2>1 DEF ProcInv, IndexOf
    <3> QED BY <1>u, <1>c, <1>n, <3>1 DEF InStep, Indexing, InIndex, s
  <2> QED BY <1>i, <1>u, <2>1 DEF ProcInv, IndexOf
<1>6. ASSUME NEW t \in Services PROVE View(p, t)'
  <2>1. View(p, t) /\ SvcListening(p)' = SvcListening(p) /\ Storing(p, t)' = Storing(p, t)
    BY <1>i, <1>u DEF ProcInv, SvcListening, Storing
  <2> QED BY <1>u, <2>1, ViewFrame
<1> QED BY <1>1, <1>2, <1>3, <1>4, <1>5, <1>6 DEF ProcInv

\* The watch takes an event: what it says of the owner is in the map, on its way
\* there or dropped, and a deletion empties the entry.
LEMMA ViewTake ==
    ASSUME SvcTypes, NEW p \in Procs, NEW t \in Services, View(p, t), TakeSvcEvent(p),
           svcKey' = svcKey, SvcListening(p)' => SvcListening(p),
           SvcEvent(p) # Deletion(t) =>
              services'[p][t] = services[p][t] /\ (t \in dropped[p] => t \in dropped'[p]),
           SvcEvent(p) = Deletion(t) => services'[p][t] = NoService,
           Storing(p, t)' => SvcEvent(p).svc = t /\ handling'[p].owner = SvcEvent(p).owner,
           SvcEvent(p).svc = t /\ SvcEvent(p).owner # Unknown =>
              services'[p][t] # NoService \/ Storing(p, t)' \/ t \in dropped'[p]
    PROVE  View(p, t)'
<1> DEFINE Q == svcEvents[p]
           R == svcEvents'[p]
<1>1. /\ Q \in Seq(SvcEv) /\ Q # <<>> /\ SvcEvent(p) = Q[1] /\ R = Tail(Q) /\ handling[p] = Idle
      /\ Q[1] \in SvcEv
  BY TakeFields
<1>2. /\ Len(R) = Len(Q) - 1 /\ Len(Q) \in Nat \ {0}
      /\ \A j \in 1 .. Len(Q) - 1 : R[j] = Q[j + 1]
  BY <1>1, TailAt
<1>3. \A i \in 0 .. Len(Q) - 1 : DeleteAfter(R, t, i) <=> DeleteAfter(Q, t, i + 1)
  BY <1>1, AfterTail
<1>4. DeleteAfter(Q, t, 0) <=> Q[1] = Deletion(t) \/ DeleteAfter(R, t, 0)
  BY <1>1, AfterHead
<1>5. ~Storing(p, t)
  BY <1>1, NothingFields DEF Storing
<1>6. Q[1].svc = t /\ Q[1].owner = Unknown <=> Q[1] = Deletion(t)
  BY <1>1 DEF SvcEv, Deletion
<1>7. services'[p][t].peer = Unknown => services'[p][t] = NoService
  BY <1>1 DEF View
<1>8. ASSUME SvcListening(p)' PROVE NoStaleOwner(p, t)' /\ OwnerComes(p, t)'
  <2>1. /\ services[p][t].peer \in {Unknown, svcKey[t].value} \/ DeleteAfter(Q, t, 0)
        /\ \A i \in 1 .. Len(Q) : Q[i].svc = t =>
              Q[i].owner \in {Unknown, svcKey[t].value} \/ DeleteAfter(Q, t, i)
    BY <1>8 DEF View, NoStaleOwner
  <2>2. svcKey[t].value # Unknown =>
              \/ /\ ~DeleteAfter(Q, t, 0)
                 /\ services[p][t] # NoService \/ t \in dropped[p]
              \/ \E i \in 1 .. Len(Q) : /\ Q[i].svc = t /\ Q[i].owner # Unknown
                                        /\ ~DeleteAfter(Q, t, i)
    BY <1>5, <1>8 DEF View, OwnerComes
  <2> HIDE DEF Q, R
  <2>0. /\ DeleteAfter(R, t, 0) <=> DeleteAfter(Q, t, 1) 
        /\ 1 \in 1 .. Len(Q)
    <3>1. 0 \in 0 .. Len(Q) - 1 /\ 0 + 1 = 1 /\ 1 \in 1 .. Len(Q)
      BY <1>2
    <3> QED BY <1>3, <3>1
  <2>3. services'[p][t].peer \in {Unknown, svcKey[t].value} \/ DeleteAfter(R, t, 0)
    BY <1>1, <1>4, <2>1, NothingFields
  <2>4. Storing(p, t)' => handling'[p].owner \in {Unknown, svcKey[t].value} \/ DeleteAfter(R, t, 0)
    BY <1>1, <2>0, <2>1
  <2>5. ASSUME NEW i \in 1 .. Len(R), R[i].svc = t
        PROVE  R[i].owner \in {Unknown, svcKey[t].value} \/ DeleteAfter(R, t, i)
    <3>1. i + 1 \in 1 .. Len(Q) /\ i \in 0 .. Len(Q) - 1 /\ R[i] = Q[i + 1]
      BY <1>2, <2>5
    <3>2. DeleteAfter(R, t, i) <=> DeleteAfter(Q, t, i + 1)
      BY <1>3, <3>1
    <3> QED BY <2>1, <2>5, <3>1, <3>2
  <2>6. NoStaleOwner(p, t)'
    BY <2>3, <2>4, <2>5 DEF NoStaleOwner, R
  <2>7. ASSUME svcKey[t].value # Unknown
        PROVE  \/ /\ ~DeleteAfter(R, t, 0)
                  /\ services'[p][t] # NoService \/ Storing(p, t)' \/ t \in dropped'[p]
               \/ \E i \in 1 .. Len(R) : /\ R[i].svc = t /\ R[i].owner # Unknown
                                         /\ ~DeleteAfter(R, t, i)
    <3>1. CASE ~DeleteAfter(Q, t, 0) /\ (services[p][t] # NoService \/ t \in dropped[p])
      BY <1>1, <1>4, <3>1
    <3>2. ASSUME NEW i \in 1 .. Len(Q), Q[i].svc = t, Q[i].owner # Unknown, ~DeleteAfter(Q, t, i)
          PROVE  \/ /\ ~DeleteAfter(R, t, 0)
                    /\ services'[p][t] # NoService \/ Storing(p, t)' \/ t \in dropped'[p]
                 \/ \E j \in 1 .. Len(R) : /\ R[j].svc = t /\ R[j].owner # Unknown
                                           /\ ~DeleteAfter(R, t, j)
      <4>1. CASE i = 1
        BY <1>1, <2>0, <3>2, <4>1
      <4>2. CASE i # 1
        <5>1. i - 1 \in 1 .. Len(R) /\ i - 1 \in 0 .. Len(Q) - 1 /\ (i - 1) + 1 = i /\ R[i - 1] = Q[i]
          BY <1>2, <3>2, <4>2
        <5>2. DeleteAfter(R, t, i - 1) <=> DeleteAfter(Q, t, i)
          BY <1>3, <5>1
        <5> QED BY <3>2, <5>1, <5>2
      <4> QED BY <4>1, <4>2
    <3> QED BY <2>2, <2>7, <3>1, <3>2
  <2>8. OwnerComes(p, t)'
    BY <2>7 DEF OwnerComes, R
  <2> QED BY <2>6, <2>8
<1> QED BY <1>7, <1>8 DEF View

\* An event of a registration is taken: the entry that is there stays
\* (service.go:331).
LEMMA SvcPutProc ==
    ASSUME SvcIInv, NEW p \in Procs, SvcPut(p)
    PROVE  ProcInv(p)'
<1>i. SvcTypes /\ ProcInv(p)
  BY PartsAre, TypesAre DEF SvcIInv, ServicesInv
<1>u. UNCHANGED <<stage, cancelled, svcKey, peerSvc, phase, leftovers, services, selfServices,
                  prefixIndex, call, raced, unsure, calls>>
  BY DEF SvcPut, svcStore, peerVars, procVars
<1> DEFINE s == SvcEvent(p).svc
           n == SvcEvent(p).owner
           Q == svcEvents[p]
<1>k. TakeSvcEvent(p) /\ n # Unknown
  BY DEF SvcPut
<1>q. /\ Q \in Seq(SvcEv) /\ Q # <<>> /\ SvcEvent(p) = Q[1] /\ svcEvents'[p] = Tail(Q)
      /\ handling[p] = Idle /\ s \in Services /\ n \in Names \cup {Unknown}
      /\ svcEvents \in SvcQueues /\ svcEvents' \in SvcQueues
  BY <1>i, <1>k, TakeFields DEF SvcTypes
<1>h. \/ /\ handling'[p].svc = s /\ handling'[p].owner = n /\ handling'[p].at = "services"
         /\ services[p][s] = NoService
      \/ /\ handling'[p] = Idle /\ handling'[p].svc \notin Services /\ handling'[p].at = "none"
         /\ services[p][s] # NoService \/ s \in dropped'[p]
  <2>1. handling'[p] = IF services[p][s] = NoService /\ peers[p][n] # Unknown
            THEN [svc |-> s, owner |-> n, at |-> "services", isSelf |-> n = NameOf[p]] ELSE Idle
    BY <1>i DEF SvcPut, SvcTypes
  <2>2. dropped'[p] = IF services[p][s] = NoService /\ ~(peers[p][n] # Unknown)
            THEN dropped[p] \cup {s} ELSE dropped[p]
    BY <1>i DEF SvcPut, SvcTypes
  <2>3. Idle.svc \notin Services /\ Idle.at = "none"
    BY NothingFields, ServiceFacts
  <2>4. CASE services[p][s] = NoService /\ peers[p][n] # Unknown
    <3>1. handling'[p] = [svc |-> s, owner |-> n, at |-> "services", isSelf |-> n = NameOf[p]]
      BY <2>1, <2>4
    <3>2. handling'[p].svc = s /\ handling'[p].owner = n /\ handling'[p].at = "services"
      BY <3>1
    <3> QED BY <2>4, <3>2
  <2>5. CASE ~(services[p][s] = NoService /\ peers[p][n] # Unknown)
    BY <2>1, <2>2, <2>3, <2>5
  <2> QED BY <2>4, <2>5
<1>m. dropped[p] \subseteq dropped'[p]
  BY <1>i DEF SvcPut, SvcTypes
<1> HIDE DEF s, n
<1>1. PhaseOf(p)' /\ LeftoversOf(p)' /\ Active(p)' = Active(p)
  BY <1>i, <1>u, <1>q, ServingStep
<1>2. RevisionsOf(p)' /\ CallOf(p)'
  BY <1>i, <1>u DEF ProcInv, RevisionsOf, CallOf
<1>4. TrackedOf(p)'
  <2> SUFFICES ASSUME NEW t \in Services \ (raced'[p] \cup unsure'[p]),
                      Active(p)', phase'[p] \in {"ready", "stop"}, svcKey'[t].value = NameOf[p]
               PROVE  Tracked(p, t)'
    BY DEF TrackedOf
  <2>1. Tracked(p, t)
    BY <1>i, <1>u, <1>1 DEF ProcInv, TrackedOf
  <2>2. ~DeletePending(p, t)'
    <3>1. Pending /\ Pending'
      BY PendingIs, PTL
    <3>2. ~DeleteAfter(Q, t, 0)
      BY <1>q, <2>1, <3>1 DEF Tracked, Pending
    <3>3. ~DeleteAfter(Tail(Q), t, 0)
      BY <1>q, <3>2, AfterHead
    <3>4. ~(handling'[p].svc = t /\ handling'[p].owner = Unknown)
      BY <1>h, <1>k DEF n
    <3> QED BY <1>q, <3>1, <3>3, <3>4 DEF Pending
  <2>3. services[p][t] # NoService => handling'[p].svc # t
    BY <1>h
  <2> QED BY <1>u, <2>1, <2>2, <2>3 DEF Tracked
<1>5. IndexOf(p)'
  <2>1. ASSUME NEW t \in Services \ raced'[p] PROVE InStep(p, t)'
    <3>1. InStep(p, t)
      BY <1>i, <1>u, <2>1 DEF ProcInv, IndexOf
    <3>2. ~Indexing(p, t) /\ ~Indexing(p, t)'
      BY <1>q, <1>h, NothingFields DEF Indexing
    <3> QED BY <1>u, <3>1, <3>2 DEF InStep, InIndex
  <2>2. handling'[p].at # "index" /\ (handling'[p].at = "services" => handling'[p].owner # Unknown)
    BY <1>h, <1>k DEF n
  <2> QED BY <1>i, <1>u, <2>1, <2>2 DEF ProcInv, IndexOf
<1>6. ASSUME NEW t \in Services PROVE View(p, t)'
  <2>1. View(p, t) /\ SvcListening(p)' = SvcListening(p)
    BY <1>i, <1>u DEF ProcInv, SvcListening
  <2>2. SvcEvent(p) # Deletion(t)
    BY <1>k DEF Deletion, n
  <2>3. Storing(p, t)' => SvcEvent(p).svc = t /\ handling'[p].owner = SvcEvent(p).owner
    BY <1>h DEF Storing, s, n
  <2>4. SvcEvent(p).svc = t =>
              services'[p][t] # NoService \/ Storing(p, t)' \/ t \in dropped'[p]
    BY <1>h, <1>u DEF Storing, s
  <2> QED BY <1>i, <1>u, <1>k, <1>m, <2>1, <2>2, <2>3, <2>4, ViewTake
<1> QED BY <1>1, <1>2, <1>4, <1>5, <1>6 DEF ProcInv

\* An event of a deletion is taken: it is none of a service that is tracked, as
\* no deletion of one is to come (service.go:379).
LEMMA SvcDeleteProc ==
    ASSUME SvcIInv, NEW p \in Procs, SvcDelete(p)
    PROVE  ProcInv(p)'
<1>i. SvcTypes /\ ProcInv(p)
  BY PartsAre, TypesAre DEF SvcIInv, ServicesInv
<1>u. UNCHANGED <<stage, cancelled, svcKey, peerSvc, phase, leftovers, selfServices,
                  prefixIndex, call, raced, unsure, calls>>
  BY DEF SvcDelete, svcStore, peerVars, procVars
<1> DEFINE s == SvcEvent(p).svc
           Q == svcEvents[p]
<1>k. TakeSvcEvent(p) /\ SvcEvent(p).owner = Unknown
  BY DEF SvcDelete
<1>q. /\ Q \in Seq(SvcEv) /\ Q # <<>> /\ SvcEvent(p) = Q[1] /\ svcEvents'[p] = Tail(Q)
      /\ handling[p] = Idle /\ s \in Services /\ SvcEvent(p) \in SvcEv
      /\ svcEvents \in SvcQueues /\ svcEvents' \in SvcQueues
  BY <1>i, <1>k, TakeFields DEF SvcTypes
<1>v. Q[1] = Deletion(s) /\ \A t \in Services : Q[1] = Deletion(t) <=> t = s
  BY <1>k, <1>q DEF SvcEv, Deletion
<1>h. \/ /\ handling'[p].svc = s /\ handling'[p].owner = Unknown /\ handling'[p].at = "index"
         /\ services[p][s] # NoService
      \/ /\ handling'[p] = Idle /\ handling'[p].svc \notin Services /\ handling'[p].at = "none"
         /\ services[p][s] = NoService
  <2>1. handling'[p] = IF services[p][s] # NoService
            THEN [svc |-> s, owner |-> Unknown, at |-> "index", isSelf |-> services[p][s].isSelf]
            ELSE Idle
    BY <1>i DEF SvcDelete, SvcTypes
  <2>3. Idle.svc \notin Services /\ Idle.at = "none"
    BY NothingFields, ServiceFacts
  <2>4. CASE services[p][s] # NoService
    <3>1. handling'[p] = [svc |-> s, owner |-> Unknown, at |-> "index",
                          isSelf |-> services[p][s].isSelf]
      BY <2>1, <2>4
    <3>2. handling'[p].svc = s /\ handling'[p].owner = Unknown /\ handling'[p].at = "index"
      BY <3>1
    <3> QED BY <2>4, <3>2
  <2>5. CASE services[p][s] = NoService
    BY <2>1, <2>3, <2>5
  <2> QED BY <2>4, <2>5
<1>m. /\ services'[p][s] = NoService
      /\ \A t \in Services : t # s => services'[p][t] = services[p][t]
      /\ \A t \in Services : t # s /\ t \in dropped[p] => t \in dropped'[p]
  BY <1>i, <1>q DEF SvcDelete, SvcTypes
<1> HIDE DEF s
<1>1. PhaseOf(p)' /\ LeftoversOf(p)' /\ Active(p)' = Active(p)
  BY <1>i, <1>u, <1>q, ServingStep
<1>2. RevisionsOf(p)' /\ CallOf(p)'
  BY <1>i, <1>u DEF ProcInv, RevisionsOf, CallOf
<1>4. TrackedOf(p)'
  <2> SUFFICES ASSUME NEW t \in Services \ (raced'[p] \cup unsure'[p]),
                      Active(p)', phase'[p] \in {"ready", "stop"}, svcKey'[t].value = NameOf[p]
               PROVE  Tracked(p, t)'
    BY DEF TrackedOf
  <2>1. Tracked(p, t)
    BY <1>i, <1>u, <1>1 DEF ProcInv, TrackedOf
  <2>p. Pending /\ Pending'
    BY PendingIs, PTL
  <2>d. ~DeleteAfter(Q, t, 0)
    BY <1>q, <2>1, <2>p DEF Tracked, Pending
  <2>e. t # s /\ ~DeleteAfter(Tail(Q), t, 0)
    BY <1>q, <1>v, <2>d, AfterHead
  <2>3. handling'[p].svc # t
    BY <1>h, <2>e
  <2>2. ~DeletePending(p, t)'
    BY <1>q, <2>p, <2>e, <2>3 DEF Pending
  <2> QED BY <1>u, <1>m, <2>1, <2>2, <2>3, <2>e DEF Tracked
<1>5. IndexOf(p)'
  <2>1. ASSUME NEW t \in Services \ raced'[p] PROVE InStep(p, t)'
    <3>1. InStep(p, t)
      BY <1>i, <1>u, <2>1 DEF ProcInv, IndexOf
    <3>2. ~Indexing(p, t)
      BY <1>q, NothingFields DEF Indexing
    <3>3. CASE t = s
      BY <1>u, <1>h, <1>m, <3>1, <3>2, <3>3 DEF InStep, InIndex, Indexing
    <3>4. CASE t # s
      <4>1. ~Indexing(p, t)'
        BY <1>h, <3>4 DEF Indexing
      <4> QED BY <1>u, <1>m, <3>1, <3>2, <3>4, <4>1 DEF InStep, InIndex
    <3> QED BY <3>3, <3>4
  <2>2. /\ handling'[p].at # "services"
        /\ handling'[p].at = "index" => handling'[p].owner = Unknown
    BY <1>h
  <2> QED BY <1>i, <1>u, <2>1, <2>2 DEF ProcInv, IndexOf
<1>6. ASSUME NEW t \in Services PROVE View(p, t)'
  <2>1. View(p, t) /\ SvcListening(p)' = SvcListening(p)
    BY <1>i, <1>u DEF ProcInv, SvcListening
  <2>2. SvcEvent(p) = Deletion(t) <=> t = s
    BY <1>v, <1>q
  <2>3. ~Storing(p, t)'
    BY <1>h DEF Storing
  <2> QED BY <1>i, <1>u, <1>k, <1>m, <2>1, <2>2, <2>3, ViewTake
<1> QED BY <1>1, <1>2, <1>4, <1>5, <1>6 DEF ProcInv

\* The LoadOrStore of onKvAdd: the owner of the event is the one of the key, or
\* its deletion is to come (service.go:331).
LEMMA WatchStoreProc ==
    ASSUME SvcIInv, NEW p \in Procs, WatchStore(p)
    PROVE  ProcInv(p)'
<1>i. SvcTypes /\ ProcInv(p)
  BY PartsAre, TypesAre DEF SvcIInv, ServicesInv
<1>u. UNCHANGED <<stage, cancelled, svcKey, peerSvc, phase, leftovers, selfServices, prefixIndex,
                  svcEvents, call, dropped, raced, unsure, calls>>
  BY DEF WatchStore, svcStore, peerVars, procVars
<1> DEFINE s == handling[p].svc
           n == handling[p].owner
<1>h. handling[p] # Idle /\ handling[p].at = "services"
  BY <1>i, HandFields DEF WatchStore, HandlingAt
<1>d. s \in Services /\ n \in Names /\ n # Unknown /\ handling[p].isSelf \in BOOLEAN
  BY <1>i, <1>h, HandFields, ServiceFacts DEF ProcInv, IndexOf
<1>n. handling'[p].svc = s /\ handling'[p].owner = n /\ handling'[p].at = "index"
  BY <1>i, <1>h, NextPlace DEF WatchStore, Steps
<1>e. /\ services'[p][s] # NoService /\ services'[p][s].peer # Unknown
      /\ services'[p][s] = services[p][s] \/ services'[p][s].peer = n
      /\ \A t \in Services : t # s => services'[p][t] = services[p][t]
  <2> DEFINE new == [peer |-> n, isSelf |-> handling[p].isSelf]
  <2>1. /\ services'[p][s] = IF services[p][s] = NoService THEN new ELSE services[p][s]
        /\ \A t \in Services : t # s => services'[p][t] = services[p][t]
    BY <1>i, <1>d DEF WatchStore, SvcTypes
  <2>2. new.peer = n /\ new # NoService
    BY <1>d, EntryFields
  <2>3. services[p][s].peer = Unknown => services[p][s] = NoService
    BY <1>i, <1>d DEF ProcInv, View
  <2> HIDE DEF new
  <2> QED BY <1>d, <2>1, <2>2, <2>3
<1> HIDE DEF s, n
<1>1. PhaseOf(p)' /\ LeftoversOf(p)' /\ Active(p)' = Active(p)
  BY <1>i, <1>u, <1>h, ServingStep
<1>2. RevisionsOf(p)' /\ CallOf(p)'
  BY <1>i, <1>u DEF ProcInv, RevisionsOf, CallOf
<1>4. TrackedOf(p)'
  <2> SUFFICES ASSUME NEW t \in Services \ (raced'[p] \cup unsure'[p]),
                      Active(p)', phase'[p] \in {"ready", "stop"}, svcKey'[t].value = NameOf[p]
               PROVE  Tracked(p, t)'
    BY DEF TrackedOf
  <2>1. Tracked(p, t)
    BY <1>i, <1>u, <1>1 DEF ProcInv, TrackedOf
  <2>2. services[p][t] # NoService => services'[p][t] # NoService
    BY <1>e
  <2>3. handling'[p].svc = t => handling[p].svc = t /\ handling'[p].owner = handling[p].owner
    BY <1>n DEF s, n
  <2> QED BY <1>u, <2>1, <2>2, <2>3, TrackedFrame
<1>5. IndexOf(p)'
  <2>1. ASSUME NEW t \in Services \ raced'[p] PROVE InStep(p, t)'
    <3>1. InStep(p, t)
      BY <1>i, <1>u, <2>1 DEF ProcInv, IndexOf
    <3>2. CASE t = s
      <4>1. Indexing(p, t)' /\ ~Indexing(p, t)
        BY <1>h, <1>n, <3>2 DEF Indexing
      <4>2. handling'[p].owner # Unknown
        BY <1>d, <1>n
      <4> QED BY <1>u, <3>1, <4>1, <4>2 DEF InStep, InIndex
    <3>3. CASE t # s
      <4>1. ~Indexing(p, t)' /\ ~Indexing(p, t)
        BY <1>h, <1>n, <3>3 DEF Indexing
      <4> QED BY <1>u, <1>e, <3>1, <3>3, <4>1 DEF InStep, InIndex
    <3> QED BY <3>2, <3>3
  <2> QED BY <1>i, <1>u, <1>n, <1>e, <2>1 DEF ProcInv, IndexOf
<1>6. ASSUME NEW t \in Services PROVE View(p, t)'
  <2>1. View(p, t) /\ SvcListening(p)' = SvcListening(p) /\ ~Storing(p, t)'
    BY <1>i, <1>u, <1>n DEF ProcInv, SvcListening, Storing
  <2>2. CASE t = s
    <3>1. Storing(p, t) /\ n = handling[p].owner
      BY <1>h, <2>2 DEF Storing, s, n
    <3> QED BY <1>u, <1>e, <2>1, <2>2, <3>1, ViewStore
  <2>3. CASE t # s
    <3>1. ~Storing(p, t)
      BY <2>3 DEF Storing, s
    <3> QED BY <1>u, <1>e, <2>1, <2>3, <3>1, ViewFrame
  <2> QED BY <2>2, <2>3
<1> QED BY <1>1, <1>2, <1>4, <1>5, <1>6 DEF ProcInv

\* The index follows the map, for an add and for a delete (service.go:331, 379).
LEMMA WatchIndexProc ==
    ASSUME SvcIInv, NEW p \in Procs, WatchIndex(p)
    PROVE  ProcInv(p)'
<1>i. SvcTypes /\ ProcInv(p)
  BY PartsAre, TypesAre DEF SvcIInv, ServicesInv
<1>u. UNCHANGED <<stage, cancelled, svcKey, peerSvc, phase, leftovers, services, selfServices,
                  svcEvents, call, dropped, raced, unsure, calls>>
  BY DEF WatchIndex, svcStore, peerVars, procVars
<1> DEFINE s == handling[p].svc
           n == handling[p].owner
<1>h. handling[p] # Idle /\ handling[p].at = "index" /\ s \in Services
  BY <1>i, HandFields DEF WatchIndex, HandlingAt
<1>n. /\ handling'[p].at \in {"self", "none"}
      /\ \A t \in Services : handling'[p].svc = t => s = t /\ handling'[p].owner = n
  <2>1. handling[p] \in HandType /\ Idle.svc \notin Services /\ Idle.at = "none"
    BY <1>i, <1>h, HandFields, NothingFields, ServiceFacts
  <2>2. handling'[p] = IF handling[p].isSelf THEN [handling[p] EXCEPT !.at = "self"] ELSE Idle
    BY <1>i DEF WatchIndex, SvcTypes
  <2>3. CASE handling[p].isSelf
    <3>1. handling'[p] = [handling[p] EXCEPT !.at = "self"]
      BY <2>2, <2>3
    <3>2. handling'[p].svc = s /\ handling'[p].owner = n /\ handling'[p].at = "self"
      BY <2>1, <3>1 DEF HandType
    <3> QED BY <3>2
  <2>4. CASE ~handling[p].isSelf
    BY <2>1, <2>2, <2>4
  <2> QED BY <2>3, <2>4
<1>e. /\ WellFormed(prefixIndex'[p])
      /\ n # Unknown => Set(prefixIndex'[p]) = Set(prefixIndex[p]) \cup {s}
      /\ n = Unknown => Set(prefixIndex'[p]) = Set(prefixIndex[p]) \ {s}
  <2>1. /\ prefixIndex[p] \in TriesOver(Nodes) /\ WellFormed(prefixIndex[p])
        /\ Set(prefixIndex[p]) \subseteq Services
    BY <1>i DEF ProcInv, IndexOf, SvcTypes
  <2>2. prefixIndex'[p] = IF n # Unknown THEN TrieAdd(prefixIndex[p], s)
                          ELSE TrieDelete(prefixIndex[p], s)
    BY <1>i DEF WatchIndex, SvcTypes
  <2> QED BY <1>h, <2>1, <2>2, IndexAdd, IndexDelete
<1> HIDE DEF s, n
<1>1. PhaseOf(p)' /\ LeftoversOf(p)' /\ Active(p)' = Active(p)
  BY <1>i, <1>u, <1>h, ServingStep
<1>2. RevisionsOf(p)' /\ CallOf(p)'
  BY <1>i, <1>u DEF ProcInv, RevisionsOf, CallOf
<1>4. TrackedOf(p)'
  <2> SUFFICES ASSUME NEW t \in Services \ (raced'[p] \cup unsure'[p]),
                      Active(p)', phase'[p] \in {"ready", "stop"}, svcKey'[t].value = NameOf[p]
               PROVE  Tracked(p, t)'
    BY DEF TrackedOf
  <2>1. Tracked(p, t)
    BY <1>i, <1>u, <1>1 DEF ProcInv, TrackedOf
  <2>3. handling'[p].svc = t => handling[p].svc = t /\ handling'[p].owner = handling[p].owner
    BY <1>n DEF s, n
  <2> QED BY <1>u, <2>1, <2>3, TrackedFrame
<1>5. IndexOf(p)'
  <2>1. ASSUME NEW t \in Services \ raced'[p] PROVE InStep(p, t)'
    <3>1. InStep(p, t) /\ ~Indexing(p, t)'
      BY <1>i, <1>u, <1>n, <2>1 DEF ProcInv, IndexOf, Indexing
    <3>2. CASE t = s
      <4>1. CASE n # Unknown
        <5>1. InIndex(p, t)' /\ services'[p][t] # NoService
          BY <1>i, <1>u, <1>h, <1>e, <3>2, <4>1 DEF InIndex, ProcInv, IndexOf, s, n
        <5> QED BY <3>1, <5>1 DEF InStep
      <4>2. CASE n = Unknown
        <5>1. ~InIndex(p, t)' /\ services'[p][t] = NoService
          BY <1>u, <1>h, <1>e, <3>1, <3>2, <4>2 DEF InIndex, InStep, Indexing, s, n
        <5>2. ~(call[p].svc = t /\ call[p].at = "self")
          <6>1. ASSUME call[p].svc = t PROVE Tracked(p, t)
            BY <1>i, <1>u, <2>1, <6>1, CallFields, CallOwns
          <6>2. DeletePending(p, t)
            BY <3>2, <4>2 DEF DeletePending, s, n
          <6> QED BY <6>1, <6>2 DEF Tracked
        <5> QED BY <1>u, <3>1, <5>1, <5>2 DEF InStep
      <4> QED BY <4>1, <4>2
    <3>3. CASE t # s
      <4>1. ~Indexing(p, t) /\ (InIndex(p, t)' <=> InIndex(p, t))
        BY <1>e, <3>3 DEF Indexing, InIndex, s
      <4> QED BY <1>u, <3>1, <3>3, <4>1 DEF InStep
    <3> QED BY <3>2, <3>3
  <2> QED BY <1>n, <1>e, <2>1 DEF IndexOf
<1>6. ASSUME NEW t \in Services PROVE View(p, t)'
  <2>1. View(p, t) /\ SvcListening(p)' = SvcListening(p) /\ ~Storing(p, t)' /\ ~Storing(p, t)
    BY <1>i, <1>u, <1>n, <1>h DEF ProcInv, SvcListening, Storing
  <2> QED BY <1>u, <2>1, ViewFrame
<1> QED BY <1>1, <1>2, <1>4, <1>5, <1>6 DEF ProcInv

\* The own services without a CreateRevision: the service is none of the
\* tracked ones (service.go:331, 379).
LEMMA WatchSelfProc ==
    ASSUME SvcIInv, NEW p \in Procs, WatchSelf(p)
    PROVE  ProcInv(p)'
<1>i. SvcTypes /\ ProcInv(p) /\ calls \in Nat
  BY PartsAre, TypesAre, ServiceFacts DEF SvcIInv, ServicesInv, SvcTypes
<1>u. UNCHANGED <<stage, cancelled, svcKey, peerSvc, phase, leftovers, services, prefixIndex,
                  svcEvents, call, dropped, raced, unsure, calls>>
  BY DEF WatchSelf, svcStore, peerVars, procVars
<1> DEFINE s == handling[p].svc
<1>h. handling[p] # Idle /\ handling[p].at = "self" /\ s \in Services
  BY <1>i, HandFields DEF WatchSelf, HandlingAt
<1>n. handling'[p] = Idle /\ handling'[p].at = "none" /\ handling'[p].svc \notin Services
  <2>1. handling'[p] = Idle
    BY <1>i DEF WatchSelf, SvcTypes
  <2> QED BY <2>1, NothingFields, ServiceFacts
<1>e. /\ selfServices'[p][s] \in {0, -1}
      /\ \A t \in Services : t # s => selfServices'[p][t] = selfServices[p][t]
  BY <1>i, <1>h DEF WatchSelf, SvcTypes
<1> HIDE DEF s
<1>1. PhaseOf(p)' /\ LeftoversOf(p)' /\ Active(p)' = Active(p)
  BY <1>i, <1>u, <1>h, ServingStep
<1>2. RevisionsOf(p)' /\ CallOf(p)'
  <2>1. ASSUME NEW t \in Services
        PROVE  /\ selfServices'[p][t] <= calls
               /\ selfServices'[p][t] > 0 /\ svcKey[t].create = selfServices'[p][t] =>
                     svcKey[t].value = NameOf[p]
    <3>1. CASE t = s
      BY <1>i, <1>e, <3>1
    <3>2. CASE t # s
      BY <1>i, <1>e, <3>2 DEF ProcInv, RevisionsOf
    <3> QED BY <3>1, <3>2
  <2> QED BY <1>i, <1>u, <2>1 DEF ProcInv, RevisionsOf, CallOf
<1>4. TrackedOf(p)'
  <2> SUFFICES ASSUME NEW t \in Services \ (raced'[p] \cup unsure'[p]),
                      Active(p)', phase'[p] \in {"ready", "stop"}, svcKey'[t].value = NameOf[p]
               PROVE  Tracked(p, t)'
    BY DEF TrackedOf
  <2>1. Tracked(p, t)
    BY <1>i, <1>u, <1>1 DEF ProcInv, TrackedOf
  <2>2. call[p].svc # t => selfServices'[p][t] = selfServices[p][t]
    BY <1>e, <2>1 DEF Tracked, s
  <2>3. handling'[p].svc # t
    BY <1>n
  <2> QED BY <1>u, <2>1, <2>2, <2>3, TrackedFrame
<1>5. IndexOf(p)'
  <2>1. ASSUME NEW t \in Services \ raced'[p] PROVE InStep(p, t)'
    <3>1. InStep(p, t) /\ ~Indexing(p, t)' /\ ~Indexing(p, t)
      BY <1>i, <1>u, <1>n, <1>h, <2>1 DEF ProcInv, IndexOf, Indexing
    <3> QED BY <1>u, <3>1 DEF InStep, InIndex
  <2> QED BY <1>i, <1>u, <1>n, <2>1 DEF ProcInv, IndexOf
<1>6. ASSUME NEW t \in Services PROVE View(p, t)'
  <2>1. View(p, t) /\ SvcListening(p)' = SvcListening(p) /\ ~Storing(p, t)' /\ ~Storing(p, t)
    BY <1>i, <1>u, <1>n, <1>h DEF ProcInv, SvcListening, Storing
  <2> QED BY <1>u, <2>1, ViewFrame
<1> QED BY <1>1, <1>2, <1>4, <1>5, <1>6 DEF ProcInv

-----------------------------------------------------------------------------
(* The steps that change keys.                                             *)

\* What the change of a key leaves of the events to come.
LEMMA QueueChange ==
    ASSUME SvcTypes, NEW s \in Services, NEW n \in Names \cup {Unknown}, SvcBroadcast(s, n),
           handling' = handling, NEW q \in Procs
    PROVE  /\ svcEvents' \in SvcQueues
           /\ phase[q] \notin {"ready", "stop"} => svcEvents'[q] = svcEvents[q]
           /\ \A t \in Services : t # s \/ n # Unknown =>
                 (~DeletePending(q, t) => ~DeletePending(q, t)')
<1> DEFINE e == [svc |-> s, owner |-> n]
<1>1. /\ svcEvents \in SvcQueues /\ svcEvents' \in SvcQueues /\ e \in SvcEv
      /\ svcEvents'[q] = IF SvcListening(q) THEN Append(svcEvents[q], e) ELSE svcEvents[q]
  <2>1. svcEvents \in SvcQueues
    BY DEF SvcTypes
  <2> QED BY <2>1, SvcBroadcastQueues
<1>2. phase[q] \notin {"ready", "stop"} => svcEvents'[q] = svcEvents[q]
  BY <1>1 DEF SvcListening
<1>3. ASSUME NEW t \in Services, t # s \/ n # Unknown, ~DeletePending(q, t)
      PROVE  ~DeletePending(q, t)'
  <2>1. e # Deletion(t)
    BY <1>3 DEF Deletion
  <2> HIDE DEF e
  <2>2. Pending /\ Pending'
    BY PendingIs, PTL
  <2>3. /\ ~DeleteAfter(svcEvents[q], t, 0)
        /\ ~(handling[q].svc = t /\ handling[q].owner = Unknown)
    BY <1>1, <1>3, <2>2 DEF Pending
  <2>4. ~DeleteAfter(svcEvents'[q], t, 0)
    <3>1. svcEvents[q] \in Seq(SvcEv) /\ 0 \in 0 .. Len(svcEvents[q])
      BY <1>1, LenProperties DEF SvcQueues
    <3>2. CASE SvcListening(q)
      BY <1>1, <2>1, <2>3, <3>1, <3>2, AfterAppend
    <3>3. CASE ~SvcListening(q)
      BY <1>1, <2>3, <3>3
    <3> QED BY <3>2, <3>3
  <2> QED BY <1>1, <2>2, <2>3, <2>4 DEF Pending
<1> QED BY <1>1, <1>2, <1>3

\* A registration keeps what every process has.
LEMMA RegisterServiceProc ==
    ASSUME SvcIInv, Alone, NEW p \in Procs, NEW s \in Services, Puts(p, s),
           NEW q \in Procs
    PROVE  ProcInv(q)'
<1>i. /\ SvcTypes /\ ProcInv(p) /\ ProcInv(q) /\ SvcKeyShape /\ ServiceKeysAgree /\ TypeOK
      /\ calls \in Nat
  BY PartsAre, TypesAre, ServiceFacts DEF SvcIInv, ServicesInv, SvcTypes
<1>f. NameOf[p] \in Names /\ NameOf[p] # Unknown /\ NameOf[q] \in Names /\ NameOf[q] # Unknown
  BY ServiceFacts
<1>u. /\ UNCHANGED <<stage, cancelled, phase, leftovers, services, selfServices, prefixIndex,
                     handling, dropped>>
      /\ PutService(p, s) /\ svcKey[s].create = 0 /\ calls' = calls + 1
      /\ phase[p] = "ready" /\ stage[p] \in {"ready", "up"} /\ call[p] = NoCall
  BY DEF Puts, Registers, peerVars, procVars
<1>k. /\ svcKey'[s] = [value |-> NameOf[p], create |-> calls + 1]
      /\ \A t \in Services : t # s => svcKey'[t] = svcKey[t]
      /\ \A n \in Names : n # NameOf[p] => peerSvc'[n] = peerSvc[n]
  BY <1>i, <1>u, PutServiceKeys
<1>v. svcKey'[s].value = NameOf[p] /\ svcKey'[s].create = calls + 1
  BY <1>k
<1>a. Active(p) /\ (Active(q) /\ NameOf[q] = NameOf[p] => q = p)
  <2>1. Active(p)
    BY <1>u DEF Active
  <2> QED BY <2>1 DEF Alone
<1>b. /\ phase[q] \notin {"ready", "stop"} => svcEvents'[q] = svcEvents[q]
      /\ \A t \in Services : ~DeletePending(q, t) => ~DeletePending(q, t)'
  <2>1. SvcBroadcast(s, NameOf[p])
    BY <1>u DEF PutService
  <2> QED BY <1>i, <1>f, <1>u, <2>1, QueueChange
<1>c. /\ q # p => call'[q] = call[q] /\ raced'[q] = raced[q] /\ unsure'[q] = unsure[q]
      /\ \/ /\ call'[p] = [svc |-> s, create |-> calls + 1, at |-> "services"]
            /\ raced'[p] = IF DeletePending(p, s) THEN raced[p] \cup {s} ELSE raced[p] \ {s}
            /\ unsure'[p] = unsure[p] \ {s}
         \/ call'[p] = call[p] /\ raced'[p] = raced[p] /\ unsure'[p] = unsure[p] \cup {s}
  <2>0. call \in [Procs -> {NoCall} \cup CallType] /\ raced \in [Procs -> SUBSET Services]
        /\ unsure \in [Procs -> SUBSET Services]
    BY <1>i DEF SvcTypes
  <2>1. CASE RegisterService(p, s)
    BY <2>0, <2>1 DEF RegisterService
  <2>2. CASE RegisterServiceFails(p, s)
    BY <2>0, <2>2 DEF RegisterServiceFails
  <2> QED BY <2>1, <2>2 DEF Puts
<1>d. /\ \/ /\ call'[p].svc = s /\ call'[p].create = calls + 1 /\ call'[p].at = "services"
            /\ raced'[p] = IF DeletePending(p, s) THEN raced[p] \cup {s} ELSE raced[p] \ {s}
            /\ s \notin unsure'[p]
         \/ call'[p] = NoCall /\ call'[p] = call[p] /\ raced'[p] = raced[p] /\ s \in unsure'[p]
      /\ call[p].svc \notin Services
  BY <1>c, <1>i, <1>u, CallFields
<1>e. \A t \in Services : t # s => /\ (t \in raced'[q] <=> t \in raced[q])
                                   /\ (t \in unsure'[q] <=> t \in unsure[q])
  BY <1>c
<1>1. PhaseOf(q)'
  <2>1. PhaseOf(q)
    BY <1>i DEF ProcInv
  <2>2. phase[q] # "ready" => call'[q] = NoCall
    BY <1>u, <1>c, <2>1 DEF PhaseOf
  <2> QED BY <1>u, <1>b, <2>1, <2>2 DEF PhaseOf
<1>2. LeftoversOf(q)'
  <2>1. ASSUME phase[q] = "clean" \/ (phase[q] = "failed" /\ stage[q] # "leave")
        PROVE  NameOf[q] # NameOf[p]
    <3>1. Active(q) /\ q # p
      BY <1>i, <1>u, <2>1 DEF ProcInv, PhaseOf, Active
    <3> QED BY <1>a, <3>1
  <2>2. LeftoversOf(q)
    BY <1>i DEF ProcInv
  <2>3. ~(phase[p] \in {"clean", "failed"}) /\ (q # p => unsure'[q] = unsure[q])
    BY <1>u, <1>c
  <2> QED BY <1>u, <1>f, <1>k, <2>1, <2>2, <2>3 DEF LeftoversOf
<1>3. RevisionsOf(q)'
  <2>1. ASSUME NEW t \in Services
        PROVE  /\ selfServices[q][t] <= calls + 1
               /\ selfServices[q][t] > 0 /\ svcKey'[t].create = selfServices[q][t] =>
                     svcKey'[t].value = NameOf[q]
    <3>1. /\ selfServices[q][t] <= calls /\ selfServices[q][t] \in Int
          /\ selfServices[q][t] > 0 /\ svcKey[t].create = selfServices[q][t] =>
                svcKey[t].value = NameOf[q]
      BY <1>i DEF ProcInv, RevisionsOf, SvcTypes
    <3>2. CASE t = s
      BY <1>i, <1>v, <3>1, <3>2
    <3>3. CASE t # s
      BY <1>i, <1>k, <3>1, <3>3
    <3> QED BY <3>2, <3>3
  <2> QED BY <1>u, <2>1 DEF RevisionsOf
<1>4. CallOf(q)'
  <2>1. CASE q = p
    <3>1. \/ /\ call'[p] = [svc |-> s, create |-> calls + 1, at |-> "services"]
             /\ s \notin unsure'[p]
          \/ call'[p] = NoCall
      BY <1>c, <1>d
    <3> QED BY <1>k, <1>d, <2>1, <3>1 DEF CallOf
  <2>2. CASE q # p
    <3>1. ASSUME call[q] # NoCall PROVE call[q].svc \in Services /\ call[q].svc # s
      <4>1. call[q].svc \in Services /\ call[q].create \in 1 .. MaxCalls
            /\ svcKey[call[q].svc].create = call[q].create
        BY <1>i, <3>1, CallFields, CallOwns
      <4> QED BY <1>u, <4>1
    <3>2. CallOf(q)
      BY <1>i DEF ProcInv
    <3> QED BY <1>c, <1>k, <2>2, <3>1, <3>2 DEF CallOf
  <2> QED BY <2>1, <2>2
<1>5. TrackedOf(q)'
  <2> SUFFICES ASSUME NEW t \in Services \ (raced'[q] \cup unsure'[q]),
                      Active(q)', phase'[q] \in {"ready", "stop"}, svcKey'[t].value = NameOf[q]
               PROVE  Tracked(q, t)'
    BY DEF TrackedOf
  <2>0. Active(q)
    BY <1>u DEF Active
  <2>1. CASE t = s
    <3>1. q = p
      BY <1>v, <1>a, <2>0, <2>1
    <3>0. call'[p].svc = s /\ call'[p].at = "services"
      BY <1>d, <2>1, <3>1
    <3>2. ~DeletePending(p, s)
      BY <1>d, <2>1, <3>1
    <3>3. ~DeletePending(q, t)'
      BY <1>b, <2>1, <3>1, <3>2
    <3> QED BY <2>1, <3>0, <3>1, <3>3 DEF Tracked
  <2>2. CASE t # s
    <3>1. svcKey'[t] = svcKey[t] /\ t \notin raced[q] /\ t \notin unsure[q]
      BY <1>k, <1>e, <2>2
    <3>2. Tracked(q, t)
      BY <1>i, <1>u, <2>0, <3>1 DEF ProcInv, TrackedOf
    <3>3. ~DeletePending(q, t)'
      BY <1>b, <3>2 DEF Tracked
    <3>4. \/ q # p /\ call'[q] = call[q]
          \/ q = p /\ call[q].svc # t /\ call'[q].svc # t
      BY <1>c, <1>d, <2>2, NothingFields, ServiceFacts
    <3> QED BY <1>u, <3>1, <3>2, <3>3, <3>4 DEF Tracked
  <2> QED BY <2>1, <2>2
<1>6. IndexOf(q)'
  <2>1. CASE q # p
    BY <1>i, <1>u, <1>c, <2>1, IndexFrame DEF ProcInv, SameIndex
  <2>2. CASE q = p
    <3>1. ASSUME NEW t \in Services \ raced'[q] PROVE InStep(q, t)'
      <4>1. CASE t = s /\ call'[p].svc = s
        <5>1. call'[p].at = "services"
          BY <1>d, <1>i, <4>1
        <5>2. ~(handling[p].svc = s /\ handling[p].owner = Unknown)
          BY <1>d, <2>2, <3>1, <4>1 DEF DeletePending
        <5> QED BY <1>u, <2>2, <4>1, <5>1, <5>2 DEF InStep, Indexing
      <4>2. CASE t # s \/ call'[p].svc # s
        <5>1. t \notin raced[q] /\ call[q].svc # t /\ call'[q].svc # t
          BY <1>e, <1>d, <2>2, <3>1, <4>2
        <5>2. InStep(q, t)
          BY <1>i, <5>1 DEF ProcInv, IndexOf
        <5> QED BY <1>u, <5>1, <5>2 DEF InStep, Indexing, InIndex
      <4> QED BY <4>1, <4>2
    <3> QED BY <1>i, <1>u, <3>1 DEF ProcInv, IndexOf
  <2> QED BY <2>1, <2>2
<1>7. \A t \in Services : View(q, t)'
  BY ViewPut
<1> QED BY <1>1, <1>2, <1>3, <1>4, <1>5, <1>6, <1>7 DEF ProcInv

\* A deletion keeps what every process has.
LEMMA ReleasesProc ==
    ASSUME SvcIInv, Alone, NEW p \in Procs, NEW s \in Services, Releases(p, s), NEW q \in Procs
    PROVE  ProcInv(q)'
<1>i. /\ SvcTypes /\ ProcInv(p) /\ ProcInv(q) /\ ServiceKeysAgree /\ TypeOK /\ calls \in Nat
  BY PartsAre, TypesAre, ServiceFacts DEF SvcIInv, ServicesInv, SvcTypes
<1>f. NameOf[p] \in Names /\ NameOf[p] # Unknown /\ NameOf[q] \in Names /\ NameOf[q] # Unknown
  BY ServiceFacts
<1>u. /\ UNCHANGED <<stage, cancelled, phase, services, selfServices, prefixIndex, call,
                     handling, dropped, raced, unsure, calls>>
      /\ DeleteService(p, s) /\ svcKey[s].value = NameOf[p]
      /\ Active(p) /\ call[p] = NoCall
      /\ \/ phase[p] # "clean" /\ leftovers' = leftovers
         \/ leftovers' = [leftovers EXCEPT ![p] = @ \ {s}]
  BY DEF Releases, peerVars, procVars
<1>k. /\ svcKey'[s] = NoSvcKey
      /\ \A t \in Services : t # s => svcKey'[t] = svcKey[t]
      /\ peerSvc'[NameOf[p]] = peerSvc[NameOf[p]] \ {s}
      /\ \A n \in Names : n # NameOf[p] => peerSvc'[n] = peerSvc[n]
  BY <1>i, <1>u, DeleteServiceKeys
<1>v. svcKey'[s].value = Unknown /\ svcKey'[s].create = 0
  BY <1>k, NothingFields
<1>a. Active(q) /\ NameOf[q] = NameOf[p] => q = p
  BY <1>u DEF Alone
<1>b. /\ phase[q] \notin {"ready", "stop"} => svcEvents'[q] = svcEvents[q]
      /\ \A t \in Services : t # s /\ ~DeletePending(q, t) => ~DeletePending(q, t)'
  <2>1. SvcBroadcast(s, Unknown)
    BY <1>u DEF DeleteService
  <2> QED BY <1>i, <1>u, <2>1, QueueChange
<1>l. /\ leftovers'[q] \subseteq leftovers[q]
      /\ \A t \in Services : t # s /\ t \in leftovers[q] => t \in leftovers'[q]
      /\ q # p => leftovers'[q] = leftovers[q]
      /\ phase[p] = "clean" => leftovers'[p] = leftovers[p] \ {s}
  BY <1>i, <1>u DEF SvcTypes
<1>1. PhaseOf(q)'
  <2>1. PhaseOf(q)
    BY <1>i DEF ProcInv
  <2> QED BY <1>u, <1>b, <1>l, <2>1 DEF PhaseOf
<1>2. LeftoversOf(q)'
  <2>0. LeftoversOf(q)
    BY <1>i DEF ProcInv
  <2>1. phase[q] = "clean" => q = p \/ NameOf[q] # NameOf[p]
    BY <1>a, <1>i DEF ProcInv, PhaseOf, Active
  <2>2. phase[q] = "clean" => leftovers'[q] = peerSvc'[NameOf[q]]
    BY <1>f, <1>k, <1>l, <2>0, <2>1 DEF LeftoversOf
  <2>3. phase[q] = "failed" /\ stage[q] # "leave" => peerSvc'[NameOf[q]] \subseteq unsure[q]
    BY <1>f, <1>k, <2>0 DEF LeftoversOf
  <2> QED BY <1>u, <2>2, <2>3 DEF LeftoversOf
<1>3. RevisionsOf(q)'
  <2>1. ASSUME NEW t \in Services
        PROVE  /\ selfServices[q][t] <= calls
               /\ selfServices[q][t] > 0 /\ svcKey'[t].create = selfServices[q][t] =>
                     svcKey'[t].value = NameOf[q]
    <3>1. /\ selfServices[q][t] <= calls /\ selfServices[q][t] \in Int
          /\ selfServices[q][t] > 0 /\ svcKey[t].create = selfServices[q][t] =>
                svcKey[t].value = NameOf[q]
      BY <1>i DEF ProcInv, RevisionsOf, SvcTypes
    <3>2. CASE t = s
      BY <1>v, <3>1, <3>2
    <3>3. CASE t # s
      BY <1>k, <3>1, <3>3
    <3> QED BY <3>2, <3>3
  <2> QED BY <1>u, <2>1 DEF RevisionsOf
<1>4. CallOf(q)'
  <2>1. ASSUME call[q] # NoCall PROVE call[q].svc \in Services /\ call[q].svc # s
    <3>1. call[q].svc \in Services /\ Active(q) /\ svcKey[call[q].svc].value = NameOf[q]
      BY <1>i, <2>1, CallOwns
    <3> QED BY <1>u, <1>a, <2>1, <3>1
  <2>2. CallOf(q)
    BY <1>i DEF ProcInv
  <2> QED BY <1>u, <1>k, <2>1, <2>2 DEF CallOf
<1>5. TrackedOf(q)'
  <2> SUFFICES ASSUME NEW t \in Services \ (raced'[q] \cup unsure'[q]),
                      Active(q)', phase'[q] \in {"ready", "stop"}, svcKey'[t].value = NameOf[q]
               PROVE  Tracked(q, t)'
    BY DEF TrackedOf
  <2>1. t # s /\ svcKey'[t] = svcKey[t]
    BY <1>f, <1>k, <1>v
  <2>2. Tracked(q, t)
    BY <1>i, <1>u, <2>1 DEF ProcInv, TrackedOf, Active
  <2>3. ~DeletePending(q, t)'
    BY <1>b, <2>1, <2>2 DEF Tracked
  <2> QED BY <1>u, <1>l, <2>1, <2>2, <2>3 DEF Tracked
<1>6. IndexOf(q)'
  BY <1>i, <1>u, IndexFrame DEF ProcInv, SameIndex
<1>7. \A t \in Services : View(q, t)'
  BY ViewRelease
<1> QED BY <1>1, <1>2, <1>3, <1>4, <1>5, <1>6, <1>7 DEF ProcInv

\* An entry that the stop's transaction does not find is none of its services.
LEMMA StopSkipProc ==
    ASSUME SvcIInv, NEW p \in Procs, NEW s \in Services,
           Leaves(p, s),
           leftovers' = [leftovers EXCEPT ![p] = @ \ {s}], phase[p] = "stop", stage[p] = "stop",
           UNCHANGED <<peerVars, svcStore, svcEvents, phase, services, selfServices,
                       prefixIndex, call, handling, dropped, raced, calls>>,
           NEW q \in Procs
    PROVE  ProcInv(q)'
<1>i. /\ SvcTypes /\ ProcInv(p) /\ ProcInv(q) /\ SvcKeyShape
  BY PartsAre, TypesAre DEF SvcIInv, ServicesInv
<1>u. /\ UNCHANGED <<stage, cancelled, svcKey, peerSvc>> 
      /\ leftovers'[p] = leftovers[p] \ {s} /\ (q # p => leftovers'[q] = leftovers[q])
  BY <1>i DEF peerVars, procVars, svcStore, SvcTypes
<1>n. /\ unsure[q] \subseteq unsure'[q] /\ (q # p => unsure'[q] = unsure[q])
      /\ \/ svcKey[s].create # selfServices[p][s] \/ svcKey[s].create = 0
         \/ s \in unsure'[p]
  <2>1. \/ /\ svcKey[s].create # selfServices[p][s] \/ svcKey[s].create = 0
           /\ unsure' = unsure
        \/ unsure' = [unsure EXCEPT ![p] = unsure[p] \cup {s}]
    BY Zenon DEF Leaves
  <2> QED BY <1>i, <2>1 DEF SvcTypes
<1>1. CASE q # p
  <2>1. Same(q)
    BY <1>u, <1>n, <1>1 DEF Same, SameIndex
  <2> QED BY <1>i, <2>1, ProcFrame
<1>2. CASE q = p
  <2>1. PhaseOf(p)' /\ LeftoversOf(p)' /\ RevisionsOf(p)' /\ CallOf(p)'
    BY <1>i, <1>u, <1>n, <1>2 DEF ProcInv, PhaseOf, LeftoversOf, RevisionsOf, CallOf
  <2>2. TrackedOf(p)'
    <3> SUFFICES ASSUME NEW t \in Services \ (raced'[p] \cup unsure'[p]),
                        Active(p)', phase'[p] \in {"ready", "stop"}, svcKey'[t].value = NameOf[p]
                 PROVE  Tracked(p, t)'
      BY DEF TrackedOf
    <3>1. Tracked(p, t)
      BY <1>i, <1>u, <1>n, <1>2 DEF ProcInv, TrackedOf, Active
    <3>2. call[p].svc # t
      BY <1>i, CallFields DEF ProcInv, PhaseOf
    <3>3. svcKey[t].create # 0 /\ selfServices[p][t] = svcKey[t].create
      BY <1>i, <1>u, <3>1, <3>2, ServiceFacts DEF Tracked, SvcKeyShape
    <3>4. t # s
      BY <1>n, <3>3
    <3> QED BY <1>u, <3>1, <3>4, TrackedFrame
  <2>3. IndexOf(p)'
    BY <1>i, IndexFrame DEF ProcInv, SameIndex
  <2>4. ASSUME NEW t \in Services PROVE View(p, t)'
    <3>1. View(p, t) /\ SvcListening(p)' = SvcListening(p) /\ (Storing(p, t)' <=> Storing(p, t))
      BY <1>i, <1>u DEF ProcInv, SvcListening, Storing
    <3> QED BY <1>u, <3>1, ViewFrame
  <2> QED BY <1>2, <2>1, <2>2, <2>3, <2>4 DEF ProcInv
<1> QED BY <1>1, <1>2

-----------------------------------------------------------------------------
(* The system.                                                             *)

\* The two keys of a service stay together, and a create revision is the number
\* of a call.
LEMMA ServiceKeysStep ==
    ASSUME SvcIInv, Next
    PROVE  ServiceKeysAgree' /\ SvcKeyShape'
<1>i. /\ TypeOK /\ SvcTypes /\ ServiceKeysAgree /\ SvcKeyShape /\ calls \in Nat
  BY TypesAre, ServiceFacts DEF SvcIInv, ServicesInv, SvcTypes
<1> DEFINE Goal == ServiceKeysAgree' /\ SvcKeyShape'
<1>1. ASSUME UNCHANGED <<svcStore, calls>> PROVE Goal
  BY <1>i, <1>1 DEF svcStore, ServiceKeysAgree, SvcKeyShape
<1>2. ASSUME NEW p \in Procs, NEW s \in Services, Puts(p, s) PROVE Goal
  <2>1. PutService(p, s) /\ svcKey[s].create = 0 /\ calls' = calls + 1
    BY <1>2, Zenon DEF Puts, Registers
  <2>2. /\ svcKey'[s] = [value |-> NameOf[p], create |-> calls + 1]
        /\ \A t \in Services : t # s => svcKey'[t] = svcKey[t]
        /\ ServiceKeysAgree'
    BY <1>i, <2>1, PutServiceKeys
  <2>3. svcKey'[s].value # Unknown /\ svcKey'[s].create = calls + 1
    BY <2>2, ServiceFacts
  <2>4. ASSUME NEW t \in Services
        PROVE  /\ svcKey'[t].create = 0 <=> svcKey'[t].value = Unknown
               /\ svcKey'[t].create <= calls + 1
    <3>1. CASE t = s
      BY <1>i, <2>3, <3>1
    <3>2. CASE t # s
      <4>1. svcKey'[t] = svcKey[t] /\ svcKey[t].create \in Nat
        BY <1>i, <2>2, <3>2 DEF SvcTypes, SvcKeyType
      <4> QED BY <1>i, <4>1 DEF SvcKeyShape
    <3> QED BY <3>1, <3>2
  <2> QED BY <2>1, <2>2, <2>4 DEF SvcKeyShape
<1>3. ASSUME NEW p \in Procs, NEW s \in Services, Releases(p, s) PROVE Goal
  <2>1. DeleteService(p, s) /\ svcKey[s].value = NameOf[p] /\ calls' = calls
    BY <1>3 DEF Releases
  <2>2. /\ svcKey'[s] = NoSvcKey
        /\ \A t \in Services : t # s => svcKey'[t] = svcKey[t]
        /\ ServiceKeysAgree'
    BY <1>i, <2>1, DeleteServiceKeys
  <2>3. svcKey'[s].value = Unknown /\ svcKey'[s].create = 0
    BY <2>2, NothingFields
  <2> QED BY <1>i, <2>1, <2>2, <2>3 DEF SvcKeyShape
<1>4. ASSUME NEW p \in Procs, NEW s \in Services,
             CleanLeftover(p, s) \/ UnregisterService(p, s) \/ StopService(p, s)
      PROVE  Goal
  BY <1>1, <1>3, <1>4, DeletesOwn
<1>5. ASSUME NEW p \in Procs, LocalStep(p) PROVE Goal
  <2>1. \/ UNCHANGED <<svcStore, calls>>
        \/ \E s \in Services : \/ Puts(p, s) \/ CleanLeftover(p, s)
                               \/ UnregisterService(p, s) \/ StopService(p, s)
    BY <1>5, PutCases, Zenon DEF LocalStep, ListLeftovers, InitServices, StopServices, RegisterStore,
       RegisterIndex, RegisterSelfService, SvcPut, SvcDelete, WatchStore, WatchIndex, WatchSelf
  <2> HIDE DEF Goal
  <2> QED BY <1>1, <1>2, <1>4, <2>1, Zenon
<1>6. ASSUME NEW p \in Procs, StopPeer(p) \/ SvcEnds(p) \/ InitServicesFails(p) \/ PeerStep(p)
      PROVE  UNCHANGED <<svcStore, calls>>
  BY <1>6, Zenon DEF StopPeer, SvcEnds, InitServicesFails, PeerStep, svcVars
<1>7. UNCHANGED svcVars => UNCHANGED <<svcStore, calls>>
  BY DEF svcVars
<1> HIDE DEF Goal
<1>8. Goal
  BY <1>1, <1>5, <1>6, <1>7, NextCases, Zenon
<1> QED BY <1>8 DEF Goal

\* Every process keeps what it has, whoever takes the step.
LEMMA ProcStep ==
    ASSUME SvcIInv, Alone, Next, NEW q \in Procs
    PROVE  ProcInv(q)'
<1>i. TypeOK /\ ProcInv(q)
  BY PartsAre DEF SvcIInv, ServicesInv
<1>1. ASSUME NEW p \in Procs,
             \/ StopPeer(p) \/ SvcEnds(p) \/ InitServicesFails(p)
             \/ ListLeftovers(p) \/ InitServices(p) \/ StopServices(p)
             \/ RegisterStore(p) \/ RegisterIndex(p) \/ RegisterSelfService(p)
             \/ SvcPut(p) \/ SvcDelete(p) \/ WatchStore(p) \/ WatchIndex(p) \/ WatchSelf(p)
      PROVE  ProcInv(q)'
  <2>1. CASE p = q
    <3>1. ProcInv(p)'
      BY <1>1, StopPeerProc, EndsProc, ListProc, InitServicesProc, StopServicesProc,
         RegisterStoreProc, RegisterIndexProc, RegisterSelfServiceProc, SvcPutProc,
         SvcDeleteProc, WatchStoreProc, WatchIndexProc, WatchSelfProc, Zenon
    <3> QED BY <2>1, <3>1
  <2>2. CASE p # q
    <3>1. Same(q) /\ UNCHANGED <<svcStore, calls>>
      BY <1>i, <1>1, <2>2, OthersSame
    <3> QED BY <1>i, <3>1, ProcFrame
  <2> QED BY <2>1, <2>2
<1>2. ASSUME NEW p \in Procs, NEW s \in Services,
             CleanLeftover(p, s) \/ UnregisterService(p, s) \/ StopService(p, s)
      PROVE  ProcInv(q)'
  <2>1. CASE Releases(p, s)
    BY <2>1, ReleasesProc
  <2>2. CASE /\ Leaves(p, s)
             /\ leftovers' = [leftovers EXCEPT ![p] = @ \ {s}]
             /\ phase[p] = "stop" /\ stage[p] = "stop"
             /\ UNCHANGED <<peerVars, svcStore, svcEvents, phase, services, selfServices,
                            prefixIndex, call, handling, dropped, raced, calls>>
    BY <2>2, StopSkipProc
  <2> QED BY <1>2, <2>1, <2>2, DeletesOwn
<1>3. ASSUME NEW p \in Procs, LocalStep(p) PROVE ProcInv(q)'
  <2> QED BY <1>1, <1>2, <1>3, PutCases, RegisterServiceProc, Zenon DEF LocalStep
<1> QED BY <1>1, <1>3, NextCases, PeerProc, Zenon

\* The initial state of the peer registry.
LEMMA PeersStart ==
    ASSUME PeersInit
    PROVE  PeersTypeOK /\ KeyShape
<1>1. PeersTypeOK
  <2>1. NoKey \in KeyType
    BY DEF NoKey, KeyType
  <2>2. <<>> \in Seq(Ev)
    BY EmptySeq
  <2>3. cancelled \in [Procs -> BOOLEAN]
    BY Zenon DEF PeersInit
  <2>4. peerKey \in [Names -> KeyType] /\ rev \in Nat /\ events \in QueuesType
    BY <2>1, <2>2 DEF PeersInit, QueuesType
  <2>5. MainTypes /\ peers \in ViewType
    BY ConstantFacts DEF PeersInit, MainTypes, Stages, ViewType
  <2>6. \A p \in Procs : events[p] = <<>> /\ reply[p] = 0
    BY DEF PeersInit
  <2> QED BY <2>3, <2>4, <2>5, <2>6, Zenon DEF PeersTypeOK, KeyType, QueuesType, Ev, ViewType,
          MainTypes
<1>2. KeyShape
  BY DEF PeersInit, KeyShape
<1> QED BY <1>1, <1>2

\* What holds initially.
LEMMA ServicesStart ==
    ASSUME Init
    PROVE  SvcIInv
<1>p. PeersTypeOK /\ KeyShape
  BY PeersStart DEF Init
<1>s. SvcInit /\ PeersInit
  BY DEF Init
<1>1. SvcTypes
  <2>1. /\ NoSvcKey \in SvcKeyType /\ NoService \in EntryType
        /\ "none" \in Phases /\ MaxCalls \in Nat /\ -1 \in Nat \cup {-1}
    BY NothingFields, ServiceFacts DEF NoSvcKey, SvcKeyType, Phases
  <2>2. svcKey \in [Services -> SvcKeyType] /\ peerSvc \in [Names -> SUBSET Services]
    BY <1>s, <2>1 DEF SvcInit
  <2>3. phase \in [Procs -> Phases] /\ leftovers \in [Procs -> SUBSET Services]
        /\ services \in [Procs -> [Services -> EntryType]]
    BY <1>s, <2>1 DEF SvcInit
  <2>4. selfServices \in [Procs -> [Services -> Nat \cup {-1}]]
    BY <1>s, <2>1 DEF SvcInit
  <2>5. /\ prefixIndex \in [Procs -> TriesOver(Nodes)]
        /\ \A p \in Procs : Set(prefixIndex[p]) \subseteq Services
    BY <1>s, EmptyIndex DEF SvcInit
  <2>6. call \in [Procs -> {NoCall} \cup CallType] /\ handling \in [Procs -> {Idle} \cup HandType]
    BY <1>s DEF SvcInit
  <2>7. svcEvents \in SvcQueues
    BY <1>s DEF SvcInit, SvcQueues
  <2>8. dropped \in [Procs -> SUBSET Services] /\ raced \in [Procs -> SUBSET Services]
        /\ unsure \in [Procs -> SUBSET Services] /\ calls \in 0 .. MaxCalls
    BY <1>s, <2>1 DEF SvcInit
  <2> QED BY <2>2, <2>3, <2>4, <2>5, <2>6, <2>7, <2>8, Zenon DEF SvcTypes
<1>2. ServicesInv
  <2>1. ServiceKeysAgree
    BY <1>s, NothingFields, ServiceFacts DEF SvcInit, ServiceKeysAgree
  <2> QED BY <1>p, <1>1, <2>1, TypesAre DEF ServicesInv
<1>3. SvcKeyShape
  BY <1>s, NothingFields DEF SvcInit, SvcKeyShape
<1>4. MembersHaveKey
  BY <1>s DEF PeersInit, SvcInit, MembersHaveKey, Member
<1>5. ASSUME NEW p \in Procs PROVE ProcInv(p)
  <2>1. /\ phase[p] = "none" /\ call[p] = NoCall /\ handling[p] = Idle /\ svcEvents[p] = <<>>
        /\ services[p] = [s \in Services |-> NoService] /\ prefixIndex[p] = EmptyTrie
        /\ \A s \in Services : selfServices[p][s] = -1
        /\ calls = 0
    BY <1>s DEF SvcInit
  <2>2. PhaseOf(p)
    BY <2>1 DEF PhaseOf
  <2>3. LeftoversOf(p) /\ RevisionsOf(p)
    BY <2>1 DEF LeftoversOf, RevisionsOf
  <2>4. CallOf(p) /\ TrackedOf(p) /\ IndexOf(p) /\ \A s \in Services : View(p, s)
    BY <2>1, <2>2, QuietProc DEF Quiet
  <2> QED BY <2>2, <2>3, <2>4 DEF ProcInv
<1> QED BY <1>p, <1>2, <1>3, <1>4, <1>5, PartsAre

ProcsInv == \A p \in Procs : ProcInv(p)

\* The invariant: the keys, and every process.
LEMMA WholeIs ==
    SvcIInv <=> ServicesInv /\ KeyShape /\ MembersHaveKey /\ SvcKeyShape /\ ProcsInv
  BY PartsAre, Zenon DEF ProcsInv

\* ... and after every step.
LEMMA ServicesStep ==
    ASSUME OneDeployment \/ Steady, SvcIInv, [Next]_vars
    PROVE  SvcIInv'
<1>1. CASE Next
  <2>1. TypeOK /\ PeersTypeOK /\ KeyShape /\ MembersHaveKey /\ PhaseShape
    BY TypesAre DEF SvcIInv, ServicesInv
  <2>2. TypeOK' /\ KeyShape' /\ MembersHaveKey' /\ ServiceKeysAgree' /\ SvcKeyShape'
    BY <1>1, <2>1, TypesStep, PeersShapeStep, MembersStep, ServiceKeysStep
  <2>3. Alone
    BY <2>1, AloneHolds
  <2>4. ProcsInv'
    BY <1>1, <2>3, ProcStep DEF ProcsInv
  <2>5. ServicesInv'
    BY <2>2 DEF ServicesInv
  <2> QED BY <2>2, <2>4, <2>5, WholeIs, PTL
<1>2. CASE UNCHANGED vars
  <2>1. UNCHANGED <<rev, peerKey, stage, watch, selfRevision, cancelled>> /\ UNCHANGED svcVars
    BY <1>2 DEF vars, peerVars, procVars, storeVars
  <2>2. UNCHANGED svcVars /\ UNCHANGED peerVars
    BY <1>2 DEF vars
  <2>3. PeersTypeOK' /\ KeyShape'
    BY <2>2, TypesAre, Zenon DEF SvcIInv, ServicesInv, peerVars, storeVars, procVars, budget,
       PeersTypeOK, KeyShape, Exists
  <2>4. SvcTypes'
    BY <2>2, TypesAre, Zenon DEF SvcIInv, ServicesInv, svcVars, svcStore, svcMemory, SvcTypes
  <2>5. MembersHaveKey'
    BY <2>1, <2>2 DEF SvcIInv, svcVars, svcMemory, MembersHaveKey, Member, Own
  <2>6. ServiceKeysAgree' /\ SvcKeyShape' 
    BY <2>2 DEF SvcIInv, ServicesInv, svcVars, svcStore, ServiceKeysAgree, SvcKeyShape
  <2>7. ASSUME NEW q \in Procs PROVE ProcInv(q)'
    <3>1. ProcInv(q)
      BY PartsAre
    <3>2. Same(q) /\ UNCHANGED <<svcStore, calls>>
      BY <2>1, <2>2 DEF svcVars, svcMemory, Same, SameIndex
    <3> QED BY <3>1, <3>2, ProcFrame
  <2>8. TypeOK'
    BY <2>3, <2>4, TypesAre, PTL
  <2>9. ProcsInv' /\ ServicesInv'
    BY <2>6, <2>7, <2>8 DEF ServicesInv, ProcsInv
  <2> QED BY <2>3, <2>5, <2>6, <2>9, WholeIs, PTL
<1> QED BY <1>1, <1>2

\* What a process has in memory and the events to come lead to the keys, its
\* index has the services of its map, and the stop of a process will find the
\* services it has registered (service.go:313-612): with every name deployed
\* once, or with no lease and no commit lost.
THEOREM ServicesInvariant ==
    ASSUME OneDeployment \/ Steady
    PROVE  Spec => []SvcIInv
<1>1. Init => SvcIInv
  BY ServicesStart
<1>2. SvcIInv /\ [Next]_vars => SvcIInv'
  BY ServicesStep
<1> QED BY <1>1, <1>2, PTL DEF Spec

\* The two keys of a service are written and deleted together, and nobody
\* deletes the service of another (service.go:429, 498, 548, 591).
THEOREM ServiceKeysStayTogether ==
    ASSUME OneDeployment \/ Steady
    PROVE  Spec => []ServicesInv
<1>1. SvcIInv => ServicesInv
  BY DEF SvcIInv
<1> QED BY <1>1, ServicesInvariant, PTL

\* A process that has seen all events finds the registered services under their
\* owners, by name and by prefix (service.go:275, 620), except the dropped and
\* the raced ones.
THEOREM ServicesAlwaysFound ==
    ASSUME OneDeployment \/ Steady
    PROVE  Spec => []ServicesFound
<1>1. SvcIInv => ServicesFound
  <2> SUFFICES ASSUME SvcIInv PROVE ServicesCaughtUp /\ IndexMatchesServices
    BY DEF ServicesFound
  <2>i. SvcTypes /\ \A p \in Procs : ProcInv(p)
    BY PartsAre, TypesAre DEF SvcIInv, ServicesInv
  <2>1. ServicesCaughtUp
    <3> SUFFICES ASSUME NEW p \in Procs, NEW s \in Services \ dropped[p], SvcListening(p),
                        Settled(p)
                 PROVE  services[p][s].peer = svcKey[s].value
      BY DEF ServicesCaughtUp
    <3>1. svcEvents[p] = <<>> /\ Len(<<>>) = 0 /\ ~Storing(p, s)
      BY NothingFields DEF Settled, Storing
    <3>2. NoStaleOwner(p, s) /\ OwnerComes(p, s)
          /\ (services[p][s].peer = Unknown => services[p][s] = NoService)
      BY <2>i DEF ProcInv, View
    <3>3. \A i : ~DeleteAfter(svcEvents[p], s, i)
      BY <3>1 DEF DeleteAfter
    <3>4. services[p][s].peer \in {Unknown, svcKey[s].value}
      BY <3>2, <3>3 DEF NoStaleOwner
    <3>5. svcKey[s].value # Unknown => services[p][s] # NoService
      BY <3>1, <3>2, <3>3 DEF OwnerComes
    <3> QED BY <3>2, <3>4, <3>5
  <2>2. IndexMatchesServices
    <3> SUFFICES ASSUME NEW p \in Procs, NEW path \in Nodes, Settled(p)
                 PROVE  TrieSearch(prefixIndex[p], path) \ raced[p]
                          = {s \in Services \ raced[p] :
                                services[p][s] # NoService /\ IsStrictPrefix(path, s)}
      BY DEF IndexMatchesServices
    <3>1. /\ prefixIndex[p] \in TriesOver(Nodes) /\ WellFormed(prefixIndex[p])
          /\ Set(prefixIndex[p]) \subseteq Services
      BY <2>i DEF ProcInv, IndexOf, SvcTypes
    <3>2. TrieSearch(prefixIndex[p], path) = {n \in Set(prefixIndex[p]) : IsStrictPrefix(path, n)}
      BY <3>1, NodesClosed, TrieSearchFinds
    <3>3. ASSUME NEW s \in Services \ raced[p]
          PROVE  s \in Set(prefixIndex[p]) <=> services[p][s] # NoService
      <4>1. InStep(p, s)
        BY <2>i DEF ProcInv, IndexOf
      <4>2. call[p].svc # s /\ ~Indexing(p, s)
        BY NothingFields, ServiceFacts DEF Settled, Indexing
      <4> QED BY <4>1, <4>2 DEF InStep, InIndex
    <3> QED BY <3>1, <3>2, <3>3, Zenon
  <2> QED BY <2>1, <2>2
<1> QED BY <1>1, ServicesInvariant, PTL

\* A process that stops in order has released every service it had, except the
\* raced ones and those whose last transaction reported an error: the entry in
\* selfServices of each of the others has had the CreateRevision of its key
\* (service.go:492).
THEOREM StopAlwaysReleasesServices ==
    ASSUME OneDeployment \/ Steady
    PROVE  Spec => []StopReleasesServices
<1>1. SvcIInv => StopReleasesServices
  <2> SUFFICES ASSUME SvcIInv, NEW p \in Procs, NEW s \in Services,
                      stage[p] = "unregister", phase[p] # "none", svcKey[s].value = NameOf[p],
                      s \notin raced[p] \cup unsure[p]
               PROVE  FALSE
    BY DEF StopReleasesServices
  <2>i. SvcTypes /\ ProcInv(p) /\ ServiceKeysAgree
    BY PartsAre, TypesAre DEF SvcIInv, ServicesInv
  <2>1. Active(p) /\ phase[p] \in {"stop", "failed"}
    BY <2>i DEF ProcInv, PhaseOf, Active, SvcTypes, Phases
  <2>2. CASE phase[p] = "failed"
    BY <2>i, <2>2, ServiceFacts DEF ProcInv, LeftoversOf, ServiceKeysAgree
  <2>3. CASE phase[p] = "stop"
    <3>1. leftovers[p] = {} /\ call[p] = NoCall
      BY <2>i, <2>3 DEF ProcInv, PhaseOf
    <3>2. Tracked(p, s) /\ call[p].svc # s
      BY <2>i, <2>1, <2>3, <3>1, CallFields DEF ProcInv, TrackedOf
    <3> QED BY <2>3, <3>1, <3>2 DEF Tracked
  <2> QED BY <2>1, <2>2, <2>3
<1> QED BY <1>1, ServicesInvariant, PTL
=============================================================================
