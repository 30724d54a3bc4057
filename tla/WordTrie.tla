------------------------------ MODULE WordTrie ------------------------------
(* The prefix index of the service registry (word_trie, service.go:26-270).  *)
(* A path is a sequence of words, a trie the function from the paths of its  *)
(* nodes to their set flag; the headers are the nodes of length 1.           *)
EXTENDS Integers, Sequences, SequencesExt

EmptyTrie == <<>>

\* The nodes on the way to a path, itself included.
NodesTo(path) == Prefixes(path) \ {<<>>}

\* add: the nodes on the way are made as needed, the last one is set.
TrieAdd(t, path) ==
    [n \in DOMAIN t \cup NodesTo(path) |->
        IF n = path THEN TRUE ELSE IF n \in DOMAIN t THEN t[n] ELSE FALSE]

\* Mutant of TrieDelete: the node goes with everything below it.
TrieDeleteBelow(t, path) ==
    [n \in {m \in DOMAIN t : ~IsPrefix(path, m)} |-> t[n]]

\* delete: the node is no longer set; on the way back every node without
\* children that is not set is removed.
TrieDelete(t, path) ==
    IF path \notin DOMAIN t THEN t
    ELSE LET u == [t EXCEPT ![path] = FALSE]
             kept == {n \in DOMAIN u :
                        IsPrefix(n, path) => \E m \in DOMAIN u : IsPrefix(n, m) /\ u[m]}
         IN  [n \in kept |-> u[n]]

\* search: the set nodes below the node of the path, the node itself left out;
\* nothing when there is no such node.
TrieSearch(t, path) ==
    IF path \notin DOMAIN t THEN {}
    ELSE {n \in DOMAIN t : t[n] /\ IsStrictPrefix(path, n)}

\* Tries over a set of nodes, and the paths that are set in one.
TriesOver(nodes) == UNION {[D -> BOOLEAN] : D \in SUBSET nodes}
Set(t) == {n \in DOMAIN t : t[n]}

\* Every node is reached from its header, and leads to a path that is set:
\* delete leaves no dead branches.
WellFormed(t) ==
    \A n \in DOMAIN t : NodesTo(n) \subseteq DOMAIN t /\ (\E m \in Set(t) : IsPrefix(n, m))
=============================================================================
