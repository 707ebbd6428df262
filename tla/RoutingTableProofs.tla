------------------------- MODULE RoutingTableProofs -------------------------
(***************************************************************************)
(* The routing table for ids of any length, buckets of any size and any    *)
(* set of addresses.                                                       *)
(*                                                                         *)
(* The table changes in three ways only: a node is stored in a leaf, a     *)
(* leaf is split, and an address is removed.  Each has a lemma that says   *)
(* what it leaves true of the tree and of the cache; the walk of insert    *)
(* and the two lists of prune then need an invariant each, which say how   *)
(* far the walk and the list have got.                                     *)
(***************************************************************************)
EXTENDS RoutingTable, FiniteSetTheorems, SequenceTheorems, TLAPS

Id == [1 .. MaxPrefix -> {0, 1}]

Bucket == [nodes : SUBSET Node, cands : Seq(Node)]

\* The tree is well formed.
Tree ==
    /\ DOMAIN bucket \subseteq Prefixes
    /\ \A p \in DOMAIN bucket :
         /\ bucket[p] \in Bucket
         /\ IsFiniteSet(bucket[p].nodes)
         /\ \A n \in bucket[p].nodes : n.last <= clock
    /\ LeafPartition
    /\ BucketShape

\* So is the cache, and it agrees with the tree.
Cache ==
    /\ DOMAIN cached \subseteq Addr /\ IsFiniteSet(DOMAIN cached)
    /\ \A a \in DOMAIN cached : cached[a] \in Node /\ cached[a].addr = a
    /\ CopiesAgree

Control ==
    /\ clock \in 0 .. MaxClock
    /\ pc \in {"idle", "insert", "stale", "excess"}
    /\ pending \subseteq Node
    /\ at \in Prefixes
    /\ doomed \subseteq Addr

\* The walk of insert is on its node's way and not past a leaf.
WalkInv ==
    pc = "insert" =>
        \E n \in Node :
            /\ pending = {n}
            /\ n.last <= clock
            /\ Matches(at, n.id)
            /\ \A p \in DOMAIN bucket : Matches(p, n.id) => Len(at) <= Len(p)

\* What prune has still to remove is enough.
PruneInv ==
    /\ pc \in {"stale", "excess"} => doomed \subseteq DOMAIN cached
    /\ pc = "stale" => \A a \in DOMAIN cached : Stale(cached[a]) => a \in doomed
    /\ pc = "excess" => /\ \A a \in DOMAIN cached : ~ Stale(cached[a])
                        /\ Size - Cardinality(doomed) <= MaxNodes

TableInv == Tree /\ Cache /\ Control /\ WalkInv /\ PruneInv

-----------------------------------------------------------------------------
(* Prefixes. *)

LEMMA PrefixIsSeq ==
    ASSUME NEW p \in Prefixes
    PROVE  /\ p \in Seq({0, 1}) /\ Len(p) \in Nat /\ Len(p) <= MaxPrefix
           /\ DOMAIN p = 1 .. Len(p)
           /\ \A i \in 1 .. Len(p) : p[i] \in {0, 1}
<1>1. PICK n \in 0 .. MaxPrefix : p \in [1 .. n -> {0, 1}]
  BY DEF Prefixes
<1>2. n \in Nat /\ n <= MaxPrefix
  BY <1>1, PrefixAssumption
<1>3. p \in Seq({0, 1}) /\ Len(p) = n
  BY <1>1, <1>2
<1> QED
  BY <1>2, <1>3, LenProperties

LEMMA SeqIsPrefix ==
    ASSUME NEW p \in Seq({0, 1}), Len(p) <= MaxPrefix
    PROVE  p \in Prefixes
<1>1. Len(p) \in Nat /\ p \in [1 .. Len(p) -> {0, 1}]
  BY LenProperties
<1>2. Len(p) \in 0 .. MaxPrefix
  BY <1>1, PrefixAssumption
<1> QED
  BY <1>1, <1>2 DEF Prefixes

\* One bit more.
LEMMA Extended ==
    ASSUME NEW p \in Prefixes, Len(p) < MaxPrefix, NEW b \in {0, 1}
    PROVE  /\ Append(p, b) \in Prefixes /\ Len(Append(p, b)) = Len(p) + 1
           /\ Append(p, b)[Len(p) + 1] = b
           /\ \A i \in 1 .. Len(p) : Append(p, b)[i] = p[i]
           /\ \A id \in Id : Matches(Append(p, b), id) <=>
                                 Matches(p, id) /\ id[Len(p) + 1] = b
<1>1. p \in Seq({0, 1}) /\ Len(p) \in Nat
  BY PrefixIsSeq
<1>2. /\ Append(p, b) \in Seq({0, 1}) /\ Len(Append(p, b)) = Len(p) + 1
      /\ Append(p, b)[Len(p) + 1] = b
      /\ \A i \in 1 .. Len(p) : Append(p, b)[i] = p[i]
  BY <1>1, AppendProperties
<1>3. Append(p, b) \in Prefixes
  <2>1. Len(Append(p, b)) <= MaxPrefix
    BY <1>1, <1>2, PrefixAssumption
  <2> QED
    BY <1>2, <2>1, SeqIsPrefix
<1>4. 1 .. Len(p) + 1 = 1 .. Len(p) \cup {Len(p) + 1}
  BY <1>1
<1>5. ASSUME NEW id \in Id
      PROVE  Matches(Append(p, b), id) <=> Matches(p, id) /\ id[Len(p) + 1] = b
  BY <1>2, <1>4 DEF Matches
<1> QED
  BY <1>2, <1>3, <1>5

\* A leaf is told from another by the ids that match both.
LEMMA SameLength ==
    ASSUME NEW p \in Prefixes, NEW q \in Prefixes, NEW id \in Id,
           Matches(p, id), Matches(q, id), Len(p) = Len(q)
    PROVE  p = q
<1>1. p \in Seq({0, 1}) /\ q \in Seq({0, 1})
  BY PrefixIsSeq
<1>2. \A i \in 1 .. Len(p) : p[i] = q[i]
  BY DEF Matches
<1> QED
  BY <1>1, <1>2, SeqEqual

LEMMA NodeId ==
    ASSUME NEW n \in Node
    PROVE  n.id \in Ids /\ n.id \in Id /\ n.addr \in Addr /\ n.last \in 0 .. MaxClock
BY IdsAssumption DEF Node, Id

LEMMA BitOf ==
    ASSUME NEW id \in Id, NEW p \in Prefixes, Len(p) < MaxPrefix
    PROVE  id[Len(p) + 1] \in {0, 1}
<1>1. Len(p) + 1 \in 1 .. MaxPrefix
  BY PrefixIsSeq, PrefixAssumption
<1> QED
  BY <1>1 DEF Id

\* The leaf of an id.
LEMMA LeafOfMatches ==
    ASSUME Tree, NEW id \in Id
    PROVE  LeafOf(id) \in DOMAIN bucket /\ Matches(LeafOf(id), id)
BY DEF Tree, LeafPartition, LeafOf, Id

LEMMA SameLeaves ==
    ASSUME LeafPartition, DOMAIN bucket' = DOMAIN bucket
    PROVE  LeafPartition'
BY Zenon DEF LeafPartition

LEMMA OneLeaf ==
    ASSUME Tree, NEW id \in Id, NEW p \in DOMAIN bucket, NEW q \in DOMAIN bucket,
           Matches(p, id), Matches(q, id)
    PROVE  p = q
BY DEF Tree, LeafPartition, Id

-----------------------------------------------------------------------------
(* Storing a node in its leaf. *)

\* What With does to the nodes of a bucket that has room for n, or its id.
LEMMA WithOK ==
    ASSUME NEW b \in Bucket, IsFiniteSet(b.nodes), NEW n \in Node,
           \A m, o \in b.nodes : m.id = o.id => m = o,
           Cardinality(b.nodes) <= K, Room(b) \/ Holds(b, n.id)
    PROVE  /\ With(b, n) \in Bucket /\ With(b, n).cands = b.cands
           /\ With(b, n).nodes = {m \in b.nodes : m.id # n.id} \cup {n}
           /\ IsFiniteSet(With(b, n).nodes)
           /\ Cardinality(With(b, n).nodes) <= K
<1> DEFINE rest == {m \in b.nodes : m.id # n.id}
<1>1. /\ With(b, n) \in Bucket /\ With(b, n).cands = b.cands
      /\ With(b, n).nodes = rest \cup {n}
  BY DEF With, Bucket
<1>2. /\ rest \subseteq b.nodes /\ IsFiniteSet(rest)
      /\ Cardinality(rest) <= Cardinality(b.nodes)
      /\ (Cardinality(rest) = Cardinality(b.nodes) <=> rest = b.nodes)
  BY FS_Subset
<1>3. Cardinality(rest) \in Nat /\ Cardinality(b.nodes) \in Nat
  BY <1>2, FS_CardinalityType
<1>4. Cardinality(rest) < K
  <2>1. CASE Room(b)
    BY <1>2, <1>3, <2>1, KAssumption DEF Room
  <2>2. CASE Holds(b, n.id)
    <3>1. rest # b.nodes
      BY <2>2 DEF Holds
    <3> QED
      BY <1>2, <1>3, <3>1, KAssumption
  <2> QED
    BY <2>1, <2>2
<1>5. /\ IsFiniteSet(rest \cup {n})
      /\ Cardinality(rest \cup {n}) =
            IF n \in rest THEN Cardinality(rest) ELSE Cardinality(rest) + 1
  BY <1>2, FS_AddElement
<1>6. Cardinality(rest \cup {n}) <= K
  BY <1>3, <1>4, <1>5, KAssumption
<1> QED
  BY <1>1, <1>5, <1>6

\* The cache and the tree agree after both have the node.
LEMMA StoreAgrees ==
    ASSUME Tree, Cache, NEW n \in Node, at \in DOMAIN bucket, Matches(at, n.id),
           DOMAIN bucket' = DOMAIN bucket,
           bucket'[at].nodes = {m \in bucket[at].nodes : m.id # n.id} \cup {n},
           \A p \in DOMAIN bucket \ {at} : bucket'[p] = bucket[p],
           DOMAIN cached' = DOMAIN cached \cup {n.addr},
           cached'[n.addr] = n,
           \A a \in DOMAIN cached \ {n.addr} : cached'[a] = cached[a]
    PROVE  CopiesAgree'
<1> SUFFICES ASSUME NEW a \in DOMAIN cached', NEW p \in DOMAIN bucket',
                    NEW m \in bucket'[p].nodes, m.addr = a, m.id = cached'[a].id
             PROVE  m = cached'[a]
  BY DEF CopiesAgree
<1>0. p \in DOMAIN bucket /\ n.id \in Id
  BY NodeId
<1>1. CASE p = at /\ m = n
  BY <1>1
<1>2. CASE ~ (p = at /\ m = n)
  <2>1. m \in bucket[p].nodes /\ (p = at => m.id # n.id)
    BY <1>0, <1>2
  <2>2. m \in Node /\ Matches(p, m.id)
    BY <1>0, <2>1 DEF Tree, BucketShape, Bucket
  <2>3. m.id # n.id
    BY <1>0, <2>1, <2>2, OneLeaf
  <2>4. a # n.addr
    BY <2>3
  <2> QED
    BY <1>0, <2>1, <2>4 DEF Cache, CopiesAgree
<1> QED
  BY <1>1, <1>2

LEMMA StoreOK ==
    ASSUME Tree, Cache, Control, NEW n \in Node, n.last <= clock,
           at \in DOMAIN bucket, Matches(at, n.id),
           Room(bucket[at]) \/ Holds(bucket[at], n.id),
           bucket' = [bucket EXCEPT ![at] = With(@, n)],
           cached' = [a \in DOMAIN cached \cup {n.addr} |->
                         IF a = n.addr THEN n ELSE cached[a]],
           clock' = clock
    PROVE  Tree' /\ Cache'
<1>1. /\ bucket[at] \in Bucket /\ IsFiniteSet(bucket[at].nodes)
      /\ Cardinality(bucket[at].nodes) <= K
      /\ \A m, o \in bucket[at].nodes : m.id = o.id => m = o
      /\ \A m \in bucket[at].nodes : Matches(at, m.id) /\ m.last <= clock
      /\ bucket[at].cands = <<>>
  BY DEF Tree, BucketShape
<1>2. /\ With(bucket[at], n) \in Bucket /\ With(bucket[at], n).cands = <<>>
      /\ With(bucket[at], n).nodes = {m \in bucket[at].nodes : m.id # n.id} \cup {n}
      /\ IsFiniteSet(With(bucket[at], n).nodes)
      /\ Cardinality(With(bucket[at], n).nodes) <= K
  BY <1>1, WithOK
<1>3. /\ DOMAIN bucket' = DOMAIN bucket
      /\ bucket'[at] = With(bucket[at], n)
      /\ \A p \in DOMAIN bucket \ {at} : bucket'[p] = bucket[p]
  OBVIOUS
<1>4. Tree'
  <2>1. DOMAIN bucket' \subseteq Prefixes
    BY <1>3 DEF Tree
  <2>2. ASSUME NEW p \in DOMAIN bucket
        PROVE  /\ bucket'[p] \in Bucket /\ IsFiniteSet(bucket'[p].nodes)
               /\ \A m \in bucket'[p].nodes : m.last <= clock'
               /\ Cardinality(bucket'[p].nodes) <= K
               /\ \A m \in bucket'[p].nodes : Matches(p, m.id)
               /\ \A m, o \in bucket'[p].nodes : m.id = o.id => m = o
               /\ bucket'[p].cands = <<>>
    <3>1. CASE p = at
      BY <1>1, <1>2, <1>3, <3>1
    <3>2. CASE p # at
      BY <1>3, <3>2 DEF Tree, BucketShape
    <3> QED
      BY <3>1, <3>2
  <2>3. LeafPartition'
    BY <1>3, SameLeaves DEF Tree
  <2>4. BucketShape'
    BY <1>3, <2>2 DEF BucketShape, Matches
  <2> QED
    BY <1>3, <2>1, <2>2, <2>3, <2>4 DEF Tree
<1>5. /\ n.addr \in Addr /\ n.id \in Id
      /\ DOMAIN cached' = DOMAIN cached \cup {n.addr}
      /\ cached'[n.addr] = n
      /\ \A a \in DOMAIN cached \ {n.addr} : cached'[a] = cached[a]
  BY NodeId
<1>6. DOMAIN cached' \subseteq Addr /\ IsFiniteSet(DOMAIN cached')
  BY <1>5, FS_AddElement DEF Cache
<1>7. \A a \in DOMAIN cached' : cached'[a] \in Node /\ cached'[a].addr = a
  BY <1>5 DEF Cache
<1>8. CopiesAgree'
  BY <1>2, <1>3, <1>5, StoreAgrees
<1> QED
  BY <1>4, <1>6, <1>7, <1>8 DEF Cache

-----------------------------------------------------------------------------
(* Splitting a leaf. *)

LEMMA SplitOK ==
    ASSUME Tree, Cache, Control, at \in DOMAIN bucket, Len(at) < MaxPrefix,
           SplitLeaves, clock' = clock, cached' = cached
    PROVE  /\ Tree' /\ Cache'
           /\ DOMAIN bucket' = (DOMAIN bucket \ {at}) \cup {Append(at, 0), Append(at, 1)}
<1> DEFINE l(b) == Append(at, b)
<1>1. /\ at \in Prefixes /\ Len(at) \in Nat
      /\ bucket[at] \in Bucket /\ IsFiniteSet(bucket[at].nodes)
      /\ Cardinality(bucket[at].nodes) <= K
      /\ \A m, o \in bucket[at].nodes : m.id = o.id => m = o
      /\ \A m \in bucket[at].nodes : Matches(at, m.id) /\ m.last <= clock
      /\ bucket[at].cands = <<>>
  BY PrefixIsSeq DEF Tree, BucketShape
<1>2. ASSUME NEW b \in {0, 1}
      PROVE  /\ l(b) \in Prefixes /\ Len(l(b)) = Len(at) + 1 /\ l(b)[Len(at) + 1] = b
             /\ \A id \in Id : Matches(l(b), id) <=> Matches(at, id) /\ id[Len(at) + 1] = b
  BY <1>1, Extended
<1>3. DOMAIN Halves = {l(0), l(1)}
  BY DEF Halves
<1>4. ASSUME NEW b \in {0, 1}
      PROVE  Halves[l(b)] = [nodes |-> {n \in bucket[at].nodes : n.id[Len(at) + 1] = b},
                             cands |-> <<>>]
  <2>1. Halves[l(b)] = Half(bucket[at], l(b)[Len(l(b))])
    BY <1>3 DEF Halves
  <2> QED
    BY <1>1, <1>2, <2>1 DEF Half
<1>5. /\ DOMAIN bucket' = (DOMAIN bucket \ {at}) \cup {l(0), l(1)}
      /\ \A p \in {l(0), l(1)} : bucket'[p] = Halves[p]
      /\ \A p \in DOMAIN bucket \ {at, l(0), l(1)} : bucket'[p] = bucket[p]
  BY <1>3 DEF SplitLeaves
<1>6. ASSUME NEW b \in {0, 1}
      PROVE  /\ bucket'[l(b)] \in Bucket /\ IsFiniteSet(bucket'[l(b)].nodes)
             /\ bucket'[l(b)].nodes \subseteq bucket[at].nodes
             /\ Cardinality(bucket'[l(b)].nodes) <= K
             /\ \A m \in bucket'[l(b)].nodes : Matches(l(b), m.id)
             /\ bucket'[l(b)].cands = <<>>
  <2> DEFINE half == {n \in bucket[at].nodes : n.id[Len(at) + 1] = b}
  <2>1. bucket'[l(b)] = [nodes |-> half, cands |-> <<>>]
    BY <1>4, <1>5
  <2>2. half \subseteq bucket[at].nodes /\ half \subseteq Node
    BY <1>1 DEF Bucket
  <2>3. IsFiniteSet(half) /\ Cardinality(half) <= Cardinality(bucket[at].nodes)
    BY <1>1, <2>2, FS_Subset
  <2>4. Cardinality(half) <= K
    BY <1>1, <2>3, FS_CardinalityType, KAssumption
  <2>5. \A m \in half : Matches(l(b), m.id)
    BY <1>1, <1>2, <2>2, NodeId
  <2>6. <<>> \in Seq(Node)
    BY EmptySeq
  <2> QED
    BY <2>1, <2>2, <2>3, <2>4, <2>5, <2>6 DEF Bucket
<1>7. LeafPartition'
  <2> SUFFICES ASSUME NEW id \in Id
               PROVE  /\ \E p \in DOMAIN bucket' : Matches(p, id)
                      /\ \A p, q \in DOMAIN bucket' :
                            Matches(p, id) /\ Matches(q, id) => p = q
    BY DEF LeafPartition, Id, Matches
  <2>0. id[Len(at) + 1] \in {0, 1}
    BY <1>1, BitOf
  <2>1. PICK leaf \in DOMAIN bucket : Matches(leaf, id)
    BY DEF Tree, LeafPartition, Id
  <2>2. \A p \in DOMAIN bucket : Matches(p, id) => p = leaf
    BY <2>1, OneLeaf
  <2>3. CASE leaf = at
    BY <1>2, <1>5, <2>0, <2>1, <2>2, <2>3
  <2>4. CASE leaf # at
    <3>1. ~ Matches(at, id)
      BY <2>2, <2>4
    <3>2. ~ Matches(l(0), id) /\ ~ Matches(l(1), id)
      BY <1>2, <3>1
    <3> QED
      BY <1>5, <2>1, <2>2, <2>4, <3>2
  <2> QED
    BY <2>3, <2>4
<1>8. Tree'
  <2>1. DOMAIN bucket' \subseteq Prefixes
    BY <1>2, <1>5 DEF Tree
  <2>2. ASSUME NEW p \in DOMAIN bucket'
        PROVE  /\ bucket'[p] \in Bucket /\ IsFiniteSet(bucket'[p].nodes)
               /\ \A m \in bucket'[p].nodes : m.last <= clock'
               /\ Cardinality(bucket'[p].nodes) <= K
               /\ \A m \in bucket'[p].nodes : Matches(p, m.id)
               /\ \A m, o \in bucket'[p].nodes : m.id = o.id => m = o
               /\ bucket'[p].cands = <<>>
    <3>1. CASE p \in {l(0), l(1)}
      BY <1>1, <1>6, <3>1
    <3>2. CASE p \notin {l(0), l(1)}
      BY <1>5, <3>2 DEF Tree, BucketShape
    <3> QED
      BY <3>1, <3>2
  <2>3. BucketShape'
    BY <2>2 DEF BucketShape, Matches
  <2> QED
    BY <1>7, <2>1, <2>2, <2>3 DEF Tree
<1>9. CopiesAgree'
  <2> SUFFICES ASSUME NEW a \in DOMAIN cached, NEW p \in DOMAIN bucket',
                      NEW m \in bucket'[p].nodes, m.addr = a, m.id = cached[a].id
               PROVE  m = cached[a]
    BY DEF CopiesAgree
  <2>1. \E q \in DOMAIN bucket : m \in bucket[q].nodes
    BY <1>5, <1>6
  <2> QED
    BY <2>1 DEF Cache, CopiesAgree
<1> QED
  BY <1>5, <1>8, <1>9 DEF Cache

-----------------------------------------------------------------------------
(* Removing an address. *)

LEMMA RemoveOK ==
    ASSUME Tree, Cache, Control, NEW a, Remove(a), clock' = clock
    PROVE  /\ Tree' /\ Cache'
           /\ DOMAIN cached' = DOMAIN cached \ {a}
           /\ \A b \in DOMAIN cached' : cached'[b] = cached[b]
<1>1. CASE a \notin DOMAIN cached
  <2>1. UNCHANGED <<cached, bucket, clock>>
    BY <1>1 DEF Remove
  <2>2. LeafPartition'
    BY <2>1, SameLeaves DEF Tree
  <2>3. BucketShape'
    BY <2>1 DEF Tree, BucketShape, Matches
  <2>4. CopiesAgree'
    BY <2>1 DEF Cache, CopiesAgree
  <2> QED
    BY <1>1, <2>1, <2>2, <2>3, <2>4 DEF Tree, Cache
<1>2. CASE a \in DOMAIN cached
  <2> DEFINE id == cached[a].id
             leaf == LeafOf(id)
             rest == {n \in bucket[leaf].nodes : n.id # id}
  <2>1. /\ cached' = Restrict(cached, DOMAIN cached \ {a})
        /\ bucket' = [bucket EXCEPT ![leaf] = Without(@, id)]
    BY <1>2 DEF Remove
  <2>2. id \in Id
    BY <1>2, NodeId DEF Cache
  <2>3. leaf \in DOMAIN bucket
    BY <2>2, LeafOfMatches
  <2>4. /\ bucket[leaf] \in Bucket /\ IsFiniteSet(bucket[leaf].nodes)
        /\ bucket[leaf].cands = <<>>
        /\ Cardinality(bucket[leaf].nodes) <= K
    BY <2>3 DEF Tree, BucketShape
  <2>5. /\ Without(bucket[leaf], id) \in Bucket
        /\ Without(bucket[leaf], id).nodes \subseteq bucket[leaf].nodes
        /\ Without(bucket[leaf], id).cands = <<>>
    <3>1. CASE ~ Holds(bucket[leaf], id)
      BY <2>4, <3>1 DEF Without
    <3>2. CASE Holds(bucket[leaf], id)
      <4>1. Without(bucket[leaf], id) = [bucket[leaf] EXCEPT !.nodes = rest]
        BY <2>4, <3>2 DEF Without
      <4> QED
        BY <2>4, <4>1 DEF Bucket
    <3> QED
      BY <3>1, <3>2
  <2>6. /\ IsFiniteSet(Without(bucket[leaf], id).nodes)
        /\ Cardinality(Without(bucket[leaf], id).nodes) <= Cardinality(bucket[leaf].nodes)
    BY <2>4, <2>5, FS_Subset
  <2>7. Cardinality(Without(bucket[leaf], id).nodes) <= K
    BY <2>4, <2>6, FS_CardinalityType, KAssumption
  <2>8. /\ DOMAIN bucket' = DOMAIN bucket
        /\ bucket'[leaf] = Without(bucket[leaf], id)
        /\ \A p \in DOMAIN bucket \ {leaf} : bucket'[p] = bucket[p]
    BY <2>1, <2>3
  <2>9. \A p \in DOMAIN bucket : bucket'[p].nodes \subseteq bucket[p].nodes
    BY <2>5, <2>8
  <2>10. Tree'
    <3>1. ASSUME NEW p \in DOMAIN bucket
          PROVE  /\ bucket'[p] \in Bucket /\ IsFiniteSet(bucket'[p].nodes)
                 /\ Cardinality(bucket'[p].nodes) <= K
                 /\ bucket'[p].cands = <<>>
      <4>1. CASE p = leaf
        BY <2>5, <2>6, <2>7, <2>8, <4>1
      <4>2. CASE p # leaf
        BY <2>8, <4>2 DEF Tree, BucketShape
      <4> QED
        BY <4>1, <4>2
    <3>2. LeafPartition'
      BY <2>8, SameLeaves DEF Tree
    <3>3. BucketShape'
      BY <2>8, <2>9, <3>1 DEF Tree, BucketShape, Matches
    <3> QED
      BY <2>8, <2>9, <3>1, <3>2, <3>3 DEF Tree
  <2>11. /\ DOMAIN cached' = DOMAIN cached \ {a}
         /\ \A b \in DOMAIN cached' : cached'[b] = cached[b]
    BY <2>1 DEF Restrict
  <2>12. IsFiniteSet(DOMAIN cached')
    BY <2>11, FS_Subset DEF Cache
  <2>13. CopiesAgree'
    BY <2>8, <2>9, <2>11 DEF Cache, CopiesAgree
  <2> QED
    BY <2>10, <2>11, <2>12, <2>13 DEF Cache
<1> QED
  BY <1>1, <1>2

-----------------------------------------------------------------------------
(* The steps. *)

\* A step that leaves tree and cache alone; time may have gone on.
LEMMA SameTable ==
    ASSUME Tree, Cache, Control, UNCHANGED <<bucket, cached>>, clock' \in 0 .. MaxClock,
           clock <= clock'
    PROVE  Tree' /\ Cache'
<1>1. LeafPartition'
  BY SameLeaves DEF Tree
<1>2. BucketShape'
  BY DEF Tree, BucketShape, Matches
<1>3. CopiesAgree'
  BY DEF Cache, CopiesAgree
<1>4. ASSUME NEW p \in DOMAIN bucket, NEW n \in bucket[p].nodes PROVE n.last <= clock'
  <2>1. n \in Node /\ n.last <= clock
    BY <1>4 DEF Tree, Bucket
  <2>2. n.last \in 0 .. MaxClock /\ clock \in 0 .. MaxClock
    BY <2>1, NodeId DEF Control
  <2> QED
    BY <2>1, <2>2, LimitsAssumption
<1> QED
  BY <1>1, <1>2, <1>3, <1>4 DEF Tree, Cache

LEMMA EmptyPrefix == <<>> \in Prefixes /\ Len(<<>>) = 0
<1>1. <<>> \in Seq({0, 1}) /\ Len(<<>>) = 0
  BY EmptySeq
<1>2. 0 <= MaxPrefix
  BY PrefixAssumption
<1> QED
  BY <1>1, <1>2, SeqIsPrefix

LEMMA ClockStays == ASSUME Control PROVE clock <= clock /\ clock \in Nat
BY LimitsAssumption DEF Control

LEMMA InitTable == Init => TableInv
<1> SUFFICES ASSUME Init PROVE TableInv
  OBVIOUS
<1>1. /\ DOMAIN bucket = {<<>>} /\ bucket[<<>>] = [nodes |-> {}, cands |-> <<>>]
      /\ cached = <<>> /\ clock = 0 /\ pc = "idle" /\ pending = {} /\ at = <<>>
      /\ doomed = {}
  BY DEF Init
<1>2. <<>> \in Seq({0, 1}) /\ Len(<<>>) = 0 /\ <<>> \in Seq(Node) /\ DOMAIN <<>> = {}
  BY EmptySeq
<1>3. <<>> \in Prefixes
  BY EmptyPrefix
<1>4. IsFiniteSet({}) /\ Cardinality({}) = 0
  BY FS_EmptySet
<1>5. \A id \in Id : Matches(<<>>, id)
  BY <1>2 DEF Matches
<1>6. LeafPartition
  BY <1>1, <1>5 DEF LeafPartition, Id
<1>7. BucketShape
  BY <1>1, <1>4, KAssumption DEF BucketShape
<1>8. Tree
  <2>1. bucket[<<>>] \in Bucket /\ bucket[<<>>].nodes = {}
    BY <1>1, <1>2 DEF Bucket
  <2>2. DOMAIN bucket \subseteq Prefixes
    BY <1>1, <1>3
  <2> QED
    BY <1>1, <1>4, <1>6, <1>7, <2>1, <2>2 DEF Tree
<1>9. DOMAIN cached = {}
  BY <1>1, <1>2
<1>10. Cache
  BY <1>4, <1>9 DEF Cache, CopiesAgree
<1>11. Control
  BY <1>1, <1>3, LimitsAssumption DEF Control
<1> QED
  BY <1>1, <1>8, <1>10, <1>11 DEF TableInv, WalkInv, PruneInv

LEMMA InsertBeginInv == ASSUME TableInv, InsertBegin PROVE TableInv'
<1> USE DEF TableInv
<1>1. PICK id \in Ids, a \in Addr : pending' = {NewNode(id, a)}
  BY DEF InsertBegin
<1>2. /\ at' = <<>> /\ pc' = "insert" /\ UNCHANGED <<bucket, cached, clock, doomed>>
  BY DEF InsertBegin
<1>3. NewNode(id, a) \in Node /\ NewNode(id, a).last = clock /\ clock <= clock
  BY ClockStays DEF NewNode, Node, Control
<1>4. Tree' /\ Cache'
  BY <1>2, ClockStays, SameTable DEF Control
<1>5. <<>> \in Prefixes /\ Len(<<>>) = 0
  BY EmptyPrefix
<1>7. Control'
  BY <1>1, <1>2, <1>3, <1>5 DEF Control
<1>8. WalkInv'
  <2> DEFINE n == NewNode(id, a)
  <2>1. Matches(<<>>, n.id)
    BY <1>5 DEF Matches
  <2>2. \A p \in DOMAIN bucket : Len(<<>>) <= Len(p)
    BY <1>5, PrefixIsSeq DEF Tree
  <2>3. /\ pending' = {n} /\ n.last <= clock' /\ Matches(at', n.id)
        /\ \A p \in DOMAIN bucket' : Matches(p, n.id) => Len(at') <= Len(p)
    BY <1>1, <1>2, <1>3, <2>1, <2>2
  <2> HIDE DEF n
  <2> QED
    BY <1>3, <2>3 DEF WalkInv, n
<1> QED
  BY <1>2, <1>4, <1>7, <1>8 DEF PruneInv

LEMMA DescendInv == ASSUME TableInv, Descend PROVE TableInv'
<1> USE DEF TableInv
<1>1. /\ pc = "insert" /\ at \notin DOMAIN bucket
      /\ UNCHANGED <<bucket, cached, clock, pc, pending, doomed>>
  BY DEF Descend, Leaf
<1>2. PICK n \in Node : /\ pending = {n} /\ n.last <= clock /\ Matches(at, n.id)
                        /\ \A p \in DOMAIN bucket : Matches(p, n.id) => Len(at) <= Len(p)
  BY <1>1 DEF WalkInv
<1>3. at' = Append(at, n.id[Len(at) + 1])
  BY <1>2 DEF Descend, Child
<1>4. n.id \in Id
  BY NodeId
<1>5. ASSUME NEW p \in DOMAIN bucket, Matches(p, n.id)
      PROVE  Len(at) + 1 <= Len(p) /\ Len(at) < MaxPrefix
  <2>1. p \in Prefixes /\ at \in Prefixes /\ Len(at) <= Len(p)
    BY <1>2, <1>5 DEF Tree, Control
  <2>2. Len(p) # Len(at)
    BY <1>1, <1>2, <1>4, <1>5, <2>1, SameLength
  <2> QED
    BY <2>1, <2>2, PrefixIsSeq, PrefixAssumption
<1>6. Len(at) < MaxPrefix
  BY <1>4, <1>5, LeafOfMatches
<1>7. /\ at' \in Prefixes /\ Len(at') = Len(at) + 1 /\ Matches(at', n.id)
  BY <1>2, <1>3, <1>4, <1>6, BitOf, Extended DEF Control
<1>8. Tree' /\ Cache'
  BY <1>1, ClockStays, SameTable DEF Control
<1>9. Control'
  BY <1>1, <1>7 DEF Control
<1>10. \A p \in DOMAIN bucket' : Matches(p, n.id) => Len(at') <= Len(p)
  BY <1>1, <1>5, <1>7
<1>11. WalkInv'
  BY <1>1, <1>2, <1>7, <1>10 DEF WalkInv
<1> QED
  BY <1>1, <1>8, <1>9, <1>11 DEF PruneInv

LEMMA StoreInv == ASSUME TableInv, Store PROVE TableInv'
<1> USE DEF TableInv
<1>1. /\ pc = "insert" /\ at \in DOMAIN bucket /\ pc' = "idle" /\ pending' = {}
      /\ at' = <<>> /\ UNCHANGED <<clock, doomed>>
  BY DEF Store, InsertEnd, Leaf
<1>2. PICK n \in Node : pending = {n} /\ n.last <= clock /\ Matches(at, n.id)
  BY <1>1 DEF WalkInv
<1>3. /\ Room(bucket[at]) \/ Holds(bucket[at], n.id)
      /\ bucket' = [bucket EXCEPT ![at] = With(@, n)]
      /\ cached' = [a \in DOMAIN cached \cup {n.addr} |->
                       IF a = n.addr THEN n ELSE cached[a]]
  BY <1>2 DEF Store
<1>4. Tree' /\ Cache'
  BY <1>1, <1>2, <1>3, StoreOK
<1>5. <<>> \in Prefixes
  BY EmptyPrefix
<1>6. Control'
  BY <1>1, <1>5 DEF Control
<1> QED
  BY <1>1, <1>4, <1>6 DEF WalkInv, PruneInv

LEMMA OverflowInv == ASSUME TableInv, Overflow PROVE TableInv'
<1> USE DEF TableInv
<1>1. /\ pc = "insert" /\ at \in DOMAIN bucket /\ Len(at) < MaxPrefix
      /\ UNCHANGED <<cached, clock, doomed>>
  BY DEF Overflow, Leaf
<1>2. PICK n \in Node : pending = {n} /\ n.last <= clock /\ Matches(at, n.id)
  BY <1>1 DEF WalkInv
<1>3. /\ SplitLeaves /\ at' = Append(at, n.id[Len(at) + 1])
      /\ IF Len(at') < MaxPrefix THEN UNCHANGED <<pc, pending>>
                                 ELSE pc' = "idle" /\ pending' = {}
  BY <1>2 DEF Overflow, Child
<1>4. /\ Tree' /\ Cache'
      /\ DOMAIN bucket' = (DOMAIN bucket \ {at}) \cup {Append(at, 0), Append(at, 1)}
  BY <1>1, <1>3, SplitOK
<1>5. n.id \in Id /\ n.id[Len(at) + 1] \in {0, 1}
  BY <1>1, NodeId, BitOf DEF Control
<1>6. /\ at' \in Prefixes /\ Len(at') = Len(at) + 1 /\ Matches(at', n.id)
  BY <1>1, <1>2, <1>3, <1>5, Extended DEF Control
<1>7. at' \in DOMAIN bucket'
  BY <1>3, <1>4, <1>5
<1>8. Control'
  BY <1>1, <1>3, <1>6 DEF Control
<1>9. \A p \in DOMAIN bucket' : Matches(p, n.id) => Len(at') <= Len(p)
  <2> SUFFICES ASSUME NEW p \in DOMAIN bucket', Matches(p, n.id) PROVE Len(at') <= Len(p)
    OBVIOUS
  <2>1. p = at'
    BY <1>4, <1>5, <1>6, <1>7 DEF Tree, LeafPartition, Id
  <2>2. Len(at') \in Nat
    BY <1>6, PrefixIsSeq
  <2> QED
    BY <2>1, <2>2
<1>10. WalkInv'
  <2>1. CASE Len(at') < MaxPrefix
    <3>1. pending' = {n} /\ n.last <= clock'
      BY <1>1, <1>2, <1>3, <2>1
    <3> QED
      BY <1>6, <1>9, <3>1 DEF WalkInv
  <2>2. CASE ~ (Len(at') < MaxPrefix)
    BY <1>3, <2>2 DEF WalkInv
  <2> QED
    BY <2>1, <2>2
<1>11. pc' \in {"insert", "idle"}
  BY <1>1, <1>3
<1> QED
  BY <1>4, <1>8, <1>10, <1>11 DEF PruneInv

LEMMA ForgetInv == ASSUME TableInv, Forget PROVE TableInv'
<1> USE DEF TableInv
<1>1. pc = "idle" /\ UNCHANGED <<clock, pc, pending, at, doomed>>
  BY DEF Forget
<1>2. Tree' /\ Cache'
  BY <1>1, RemoveOK DEF Forget
<1>3. Control'
  BY <1>1 DEF Control
<1> QED
  BY <1>1, <1>2, <1>3 DEF WalkInv, PruneInv

LEMMA PruneOneInv == ASSUME TableInv, PruneOne PROVE TableInv'
<1> USE DEF TableInv
<1>1. pc \in {"stale", "excess"} /\ UNCHANGED <<clock, pc, pending, at>>
  BY DEF PruneOne
<1>2. PICK a \in doomed : Remove(a) /\ doomed' = doomed \ {a}
  BY DEF PruneOne
<1>3. /\ Tree' /\ Cache' /\ DOMAIN cached' = DOMAIN cached \ {a}
      /\ \A b \in DOMAIN cached' : cached'[b] = cached[b]
  BY <1>1, <1>2, RemoveOK
<1>4. Control'
  BY <1>1, <1>2 DEF Control
<1>5. doomed \subseteq DOMAIN cached /\ doomed' \subseteq DOMAIN cached'
  BY <1>1, <1>2, <1>3 DEF PruneInv
<1>6. PruneInv'
  <2>1. CASE pc = "stale"
    BY <1>1, <1>2, <1>3, <1>5, <2>1 DEF PruneInv, Stale
  <2>2. CASE pc = "excess"
    <3>1. IsFiniteSet(DOMAIN cached) /\ IsFiniteSet(doomed)
      BY <1>5, FS_Subset DEF Cache
    <3>2. /\ Cardinality(DOMAIN cached') = Cardinality(DOMAIN cached) - 1
          /\ Cardinality(doomed') = Cardinality(doomed) - 1
      BY <1>2, <1>3, <1>5, <3>1, FS_RemoveElement
    <3>3. Cardinality(DOMAIN cached) \in Nat /\ Cardinality(doomed) \in Nat
      BY <3>1, FS_CardinalityType
    <3>4. Size' - Cardinality(doomed') <= MaxNodes
      BY <2>2, <3>2, <3>3, LimitsAssumption DEF Size, PruneInv
    <3>5. \A b \in DOMAIN cached' : ~ (clock' - cached'[b].last > NodeExpiry)
      BY <1>1, <1>3, <2>2 DEF PruneInv, Stale
    <3> QED
      BY <1>1, <1>5, <2>2, <3>4, <3>5 DEF PruneInv, Stale
  <2> QED
    BY <1>1, <2>1, <2>2
<1> QED
  BY <1>1, <1>3, <1>4, <1>6 DEF WalkInv

LEMMA PruneExcessInv == ASSUME TableInv, PruneExcess PROVE TableInv'
<1> USE DEF TableInv
<1>1. /\ pc = "stale" /\ doomed = {} /\ pc' = "excess"
      /\ UNCHANGED <<bucket, cached, clock, pending, at>>
  BY DEF PruneExcess
<1>2. PICK A \in SUBSET DOMAIN cached :
        /\ Cardinality(A) = IF Size > MaxNodes THEN Size - MaxNodes ELSE 0
        /\ doomed' = A
  BY DEF PruneExcess
<1>3. Tree' /\ Cache'
  BY <1>1, ClockStays, SameTable DEF Control
<1>4. Control'
  BY <1>1, <1>2 DEF Control, Cache
<1>5. Size \in Nat
  BY FS_CardinalityType DEF Cache, Size
<1>6. Size' - Cardinality(doomed') <= MaxNodes
  <2>1. Size' = Size
    BY <1>1 DEF Size
  <2> QED
    BY <1>2, <1>5, <2>1, LimitsAssumption
<1>7. \A b \in DOMAIN cached' : ~ (clock' - cached'[b].last > NodeExpiry)
  BY <1>1 DEF PruneInv, Stale
<1>8. PruneInv'
  BY <1>1, <1>2, <1>6, <1>7 DEF PruneInv, Stale
<1> QED
  BY <1>1, <1>3, <1>4, <1>8 DEF WalkInv

LEMMA NextTable == TableInv /\ [Next]_vars => TableInv'
<1> SUFFICES ASSUME TableInv, [Next]_vars PROVE TableInv'
  OBVIOUS
<1>1. CASE InsertBegin
  BY <1>1, InsertBeginInv
<1>2. CASE Descend
  BY <1>2, DescendInv
<1>3. CASE Store
  BY <1>3, StoreInv
<1>4. CASE Overflow
  BY <1>4, OverflowInv
<1>5. CASE Forget
  BY <1>5, ForgetInv
<1>6. CASE PruneBegin
  <2>1. /\ doomed' = {a \in DOMAIN cached : Stale(cached[a])} /\ pc' = "stale"
        /\ UNCHANGED <<bucket, cached, clock, pending, at>>
    BY <1>6 DEF PruneBegin
  <2>2. Tree' /\ Cache'
    BY <2>1, ClockStays, SameTable DEF TableInv, Control
  <2>3. Control'
    BY <2>1 DEF TableInv, Control, Cache
  <2>4. PruneInv'
    BY <2>1 DEF PruneInv, Stale
  <2> QED
    BY <2>1, <2>2, <2>3, <2>4 DEF TableInv, WalkInv
<1>7. CASE PruneOne
  BY <1>7, PruneOneInv
<1>8. CASE PruneExcess
  BY <1>8, PruneExcessInv
<1>9. CASE PruneEnd \/ Pass \/ UNCHANGED vars
  <2>1. /\ UNCHANGED <<bucket, cached, pending, at, doomed>>
        /\ clock' \in 0 .. MaxClock /\ clock <= clock'
    BY <1>9, LimitsAssumption DEF PruneEnd, Pass, vars, TableInv, Control
  <2>2. Tree' /\ Cache'
    BY <2>1, SameTable DEF TableInv
  <2>3. CASE pc' = "idle"
    BY <2>1, <2>2, <2>3 DEF TableInv, Control, WalkInv, PruneInv
  <2>4. CASE UNCHANGED vars
    BY <2>2, <2>4 DEF TableInv, Control, WalkInv, PruneInv, Stale, Size, vars
  <2> QED
    BY <1>9, <2>3, <2>4 DEF PruneEnd, Pass
<1> QED
  BY <1>1, <1>2, <1>3, <1>4, <1>5, <1>6, <1>7, <1>8, <1>9 DEF Next

-----------------------------------------------------------------------------
(* Theorems. *)

\* The inductive invariant, of every state.
THEOREM TableInvariance == Spec => []TableInv
BY InitTable, NextTable, PTL DEF Spec

\* Tree, cache and loops stay well formed, whatever is inserted and removed.
THEOREM TableTypeCorrect == Spec => []TypeOK
<1>1. TableInv => TypeOK
  BY DEF TableInv, Tree, Cache, Control, TypeOK, Bucket
<1> QED
  BY <1>1, TableInvariance, PTL

\* However often and in whatever order leaves are split, each id has exactly
\* one leaf, the one both walks end at.
THEOREM LeavesPartition == Spec => []LeafPartition
<1>1. TableInv => LeafPartition
  BY DEF TableInv, Tree
<1> QED
  BY <1>1, TableInvariance, PTL

\* No bucket overflows, holds a foreign node or an id twice, or ever has a
\* candidate.
THEOREM BucketsKeepShape == Spec => []BucketShape
<1>1. TableInv => BucketShape
  BY DEF TableInv, Tree
<1> QED
  BY <1>1, TableInvariance, PTL

\* Cache and tree agree on a node both have under one id and one address.
THEOREM CopiesKeepAgreeing == Spec => []CopiesAgree
<1>1. TableInv => CopiesAgree
  BY DEF TableInv, Cache
<1> QED
  BY <1>1, TableInvariance, PTL

\* prune leaves a cache without stale nodes and within max_nodes, however its
\* removals are ordered.
THEOREM PruneCleans == Spec => PruneCleansCache
<1> DEFINE Clean == pc = "excess" /\ pc' = "idle" =>
                       /\ \A a \in DOMAIN cached' : clock - cached'[a].last <= NodeExpiry
                       /\ Size <= MaxNodes
<1>1. TableInv /\ [Next]_vars => Clean
  <2> SUFFICES ASSUME TableInv, [Next]_vars, pc = "excess", pc' = "idle"
               PROVE  /\ \A a \in DOMAIN cached' : clock - cached'[a].last <= NodeExpiry
                      /\ Size <= MaxNodes
    OBVIOUS
  <2>1. doomed = {} /\ cached' = cached
    BY DEF Next, vars, InsertBegin, Descend, Store, Overflow, Forget, PruneBegin,
           PruneOne, PruneExcess, PruneEnd, Pass
  <2>2. Cardinality({}) = 0 /\ Size \in Nat
    BY FS_EmptySet, FS_CardinalityType DEF TableInv, Cache, Size
  <2>3. Size <= MaxNodes
    BY <2>1, <2>2, LimitsAssumption DEF TableInv, PruneInv
  <2>4. ASSUME NEW a \in DOMAIN cached PROVE clock - cached[a].last <= NodeExpiry
    <3>1. cached[a].last \in 0 .. MaxClock /\ clock \in 0 .. MaxClock
      BY NodeId DEF TableInv, Cache, Control
    <3>2. ~ (clock - cached[a].last > NodeExpiry)
      BY DEF TableInv, PruneInv, Stale
    <3> QED
      BY <3>1, <3>2, LimitsAssumption
  <2> QED
    BY <2>1, <2>3, <2>4
<1>2. TableInv /\ [Next]_vars => [Clean]_vars
  BY <1>1
<1> QED
  BY <1>2, TableInvariance, PTL DEF Spec, PruneCleansCache

\* A bucket one bit above the ids has room for an id it does not hold.
LEMMA DeepestHasRoom ==
    ASSUME Tree, at \in DOMAIN bucket, Len(at) + 1 = MaxPrefix, NEW id \in Id,
           Matches(at, id), ~ Holds(bucket[at], id)
    PROVE  Room(bucket[at])
<1>1. /\ at \in Prefixes /\ Len(at) \in Nat
      /\ bucket[at] \in Bucket /\ IsFiniteSet(bucket[at].nodes)
      /\ \A m \in bucket[at].nodes : Matches(at, m.id)
      /\ \A m, o \in bucket[at].nodes : m.id = o.id => m = o
  BY PrefixIsSeq DEF Tree, BucketShape
<1>2. 1 .. MaxPrefix = 1 .. Len(at) \cup {MaxPrefix}
  BY <1>1
<1>3. ASSUME NEW i \in Id, NEW j \in Id, Matches(at, i), Matches(at, j),
             i[MaxPrefix] = j[MaxPrefix]
      PROVE  i = j
  <2>1. \A x \in 1 .. MaxPrefix : i[x] = j[x]
    BY <1>2, <1>3 DEF Matches
  <2> QED
    BY <2>1 DEF Id
<1>4. ASSUME NEW m \in bucket[at].nodes
      PROVE  m.id \in Id /\ m.id[MaxPrefix] # id[MaxPrefix] /\ m.id[MaxPrefix] \in {0, 1}
  <2>1. m.id \in Id /\ m.id # id
    BY <1>1, NodeId DEF Bucket, Holds
  <2>2. MaxPrefix \in 1 .. MaxPrefix
    BY PrefixAssumption
  <2> QED
    BY <1>1, <1>3, <2>1, <2>2 DEF Id
<1>5. id[MaxPrefix] \in {0, 1}
  <2>1. MaxPrefix \in 1 .. MaxPrefix
    BY PrefixAssumption
  <2> QED
    BY <2>1 DEF Id
<1>6. \A m, o \in bucket[at].nodes : m = o
  BY <1>1, <1>3, <1>4, <1>5
<1>7. CASE bucket[at].nodes = {}
  BY <1>7, FS_EmptySet, KAssumption DEF Room
<1>8. CASE bucket[at].nodes # {}
  <2>1. PICK m \in bucket[at].nodes : bucket[at].nodes = {m}
    BY <1>6, <1>8
  <2>2. Cardinality({m}) = 1
    BY FS_Singleton
  <2> QED
    BY <2>1, <2>2, KAssumption DEF Room
<1> QED
  BY <1>7, <1>8

\* insert never loses its node, however often it splits on the way.
THEOREM InsertsPlace == Spec => InsertPlaces
<1> DEFINE Placed == pc = "insert" /\ pc' = "idle" =>
                        \A n \in pending :
                           /\ n.addr \in DOMAIN cached' /\ cached'[n.addr] = n
                           /\ \E p \in DOMAIN bucket' : Matches(p, n.id) /\ n \in bucket'[p].nodes
<1>1. TableInv /\ [Next]_vars => Placed
  <2> SUFFICES ASSUME TableInv, [Next]_vars, pc = "insert", pc' = "idle",
                      NEW n \in pending
               PROVE  /\ n.addr \in DOMAIN cached' /\ cached'[n.addr] = n
                      /\ \E p \in DOMAIN bucket' : Matches(p, n.id) /\ n \in bucket'[p].nodes
    OBVIOUS
  <2>1. Store \/ Overflow
    BY DEF Next, vars, InsertBegin, Descend, Forget, PruneBegin, PruneOne, PruneExcess,
           PruneEnd, Pass
  <2>2. pending = {n} /\ n \in Node /\ Matches(at, n.id)
    BY DEF TableInv, WalkInv
  <2>3. CASE Store
    <3>1. /\ at \in DOMAIN bucket
          /\ bucket' = [bucket EXCEPT ![at] = With(@, n)]
          /\ cached' = [a \in DOMAIN cached \cup {n.addr} |->
                           IF a = n.addr THEN n ELSE cached[a]]
      BY <2>2, <2>3 DEF Store, Leaf
    <3>2. n \in With(bucket[at], n).nodes
      BY <3>1 DEF With, TableInv, Tree, Bucket
    <3>3. at \in DOMAIN bucket' /\ bucket'[at] = With(bucket[at], n)
      BY <3>1
    <3>4. n.addr \in DOMAIN cached' /\ cached'[n.addr] = n
      BY <3>1
    <3> QED
      BY <2>2, <3>2, <3>3, <3>4
  <2>4. CASE Overflow
    <3>1. /\ at \in DOMAIN bucket /\ Len(at) < MaxPrefix
          /\ ~ Room(bucket[at]) /\ ~ Holds(bucket[at], n.id)
      BY <2>2, <2>4 DEF Overflow, Leaf
    <3>2. at' = Append(at, n.id[Len(at) + 1]) /\ ~ (Len(at') < MaxPrefix)
      BY <2>2, <2>4 DEF Overflow, Child
    <3>3. at \in Prefixes /\ n.id \in Id
      BY <2>2, NodeId DEF TableInv, Control
    <3>4. Len(at') = Len(at) + 1 /\ Len(at) \in Nat
      BY <3>1, <3>2, <3>3, BitOf, Extended, PrefixIsSeq
    <3>5. Len(at) + 1 = MaxPrefix
      BY <3>1, <3>2, <3>4, PrefixAssumption
    <3> QED
      BY <2>2, <3>1, <3>3, <3>5, DeepestHasRoom DEF TableInv
  <2> QED
    BY <2>1, <2>3, <2>4
<1>2. TableInv /\ [Next]_vars => [Placed]_vars
  BY <1>1
<1> QED
  BY <1>2, TableInvariance, PTL DEF Spec, InsertPlaces
=============================================================================
