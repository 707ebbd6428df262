---------------------------- MODULE RoutingTable ----------------------------
(***************************************************************************)
(* RoutingTable (src/routing.rs): the binary tree of buckets that splits   *)
(* as it fills, beside a cache of nodes by address.  Every operation       *)
(* changes both, the tree by node id and the cache by address, and nothing *)
(* but this code keeps the two in agreement.                               *)
(*                                                                         *)
(* insert walks down the tree, splitting full buckets on its way, and      *)
(* prune removes one address after the other: each is a loop here too.     *)
(*                                                                         *)
(* Abstractions.  An id is a sequence of MaxPrefix bits (160 in the code); *)
(* a bucket is named by its prefix, and an interior node of the tree is a  *)
(* prefix without a bucket.  A bucket's nodes are a set: their order is    *)
(* only ever used to cut a list at refresh_node_num, which is the bucket   *)
(* size.  The drained buckets of split leaves, which cached_buckets still  *)
(* lists, are empty for ever and are left out.                             *)
(***************************************************************************)
EXTENDS Integers, FiniteSets, Sequences, Functions

CONSTANTS
    Addr,        \* socket addresses
    MaxPrefix,   \* MAX_PREFIX, the length of an id (160)
    Ids,         \* the node ids that occur
    K,           \* Config::kbucket_size (8)
    MaxNodes,    \* Config::max_nodes, asked by the callers of insert (5000)
    NodeExpiry,  \* Config::node_expired_after
    MaxClock     \* bound: how far time goes

ASSUME PrefixAssumption == MaxPrefix \in Nat \ {0}
ASSUME IdsAssumption    == Ids \subseteq [1 .. MaxPrefix -> {0, 1}]
ASSUME KAssumption      == K \in Nat \ {0, 1}
ASSUME LimitsAssumption == MaxNodes \in Nat /\ NodeExpiry \in Nat /\ MaxClock \in Nat

VARIABLES
    bucket,   \* prefix of a leaf -> its bucket
    cached,   \* cached_nodes: address -> node
    clock,
    pc,       \* the loop being run: insert, prune's first or second, or none
    pending,  \* insert: the node, in a set; empty when none is being inserted
    at,       \* insert: the prefix of the tree node the walk has reached
    doomed    \* prune: the addresses left to remove

vars == <<bucket, cached, clock, pc, pending, at, doomed>>

Node == [id : Ids, addr : Addr, last : 0 .. MaxClock]

Prefixes == UNION {[1 .. n -> {0, 1}] : n \in 0 .. MaxPrefix}

TypeOK ==
    /\ DOMAIN bucket \subseteq Prefixes
    /\ \A p \in DOMAIN bucket :
         /\ bucket[p].nodes \subseteq Node
         /\ bucket[p].cands \in Seq(Node)
         /\ \A n \in bucket[p].nodes : n.last <= clock
    /\ DOMAIN cached \subseteq Addr
    /\ \A a \in DOMAIN cached : cached[a] \in Node /\ cached[a].addr = a
    /\ clock \in 0 .. MaxClock
    /\ pc \in {"idle", "insert", "stale", "excess"}
    /\ pending \subseteq Node
    /\ at \in Prefixes
    /\ doomed \subseteq Addr

Init ==
    /\ bucket = [p \in {<<>>} |-> [nodes |-> {}, cands |-> <<>>]]
    /\ cached = <<>>
    /\ clock = 0
    /\ pc = "idle"
    /\ pending = {}
    /\ at = <<>>
    /\ doomed = {}

-----------------------------------------------------------------------------
(* The tree. *)

\* matches_id_prefix
Matches(p, id) == \A i \in 1 .. Len(p) : p[i] = id[i]

\* Mutant: the bits of an id are read from its other end.
ChildMirrored(p, id) == Append(p, id[MaxPrefix - Len(p)])

\* The child of p on the way to id (bit_of, child).
Child(p, id) == Append(p, id[Len(p) + 1])

Leaf(p) == p \in DOMAIN bucket

\* Where the walk of remove_from_buckets ends.
LeafOf(id) == CHOOSE p \in DOMAIN bucket : Matches(p, id)

Holds(b, id) == \E n \in b.nodes : n.id = id

\* Mutant: one node too many.
RoomLate(b) == Cardinality(b.nodes) <= K

Room(b) == Cardinality(b.nodes) < K

Size == Cardinality(DOMAIN cached)

-----------------------------------------------------------------------------
(* insert *)

\* Mutant: last_active is stamped ahead of time.
NewNodeAhead(id, a) == [id |-> id, addr |-> a, last |-> clock + 1]

\* The node a caller has just heard of.
NewNode(id, a) == [id |-> id, addr |-> a, last |-> clock]

\* The callers in dht.rs ask first whether the table is below max_nodes.
InsertBegin ==
    /\ pc = "idle"
    /\ Size < MaxNodes
    /\ \E id \in Ids, a \in Addr : pending' = {NewNode(id, a)}
    /\ at' = <<>>
    /\ pc' = "insert"
    /\ UNCHANGED <<bucket, cached, clock, doomed>>

InsertEnd == pc' = "idle" /\ pending' = {} /\ at' = <<>>

Descend ==
    /\ pc = "insert"
    /\ ~ Leaf(at)
    /\ \E n \in pending : at' = Child(at, n.id)
    /\ UNCHANGED <<bucket, cached, clock, pc, pending, doomed>>

\* Mutant: a node already in the bucket is left as it was.
WithKept(b, n) == IF Holds(b, n.id) THEN b ELSE [b EXCEPT !.nodes = @ \cup {n}]

\* KBucketInner::insert, given that there is room or the id is there: a node
\* with the id is overwritten, its address included.
With(b, n) == [b EXCEPT !.nodes = {m \in @ : m.id # n.id} \cup {n}]

Store ==
    /\ pc = "insert"
    /\ Leaf(at) /\ Len(at) < MaxPrefix
    /\ \E n \in pending :
        /\ Room(bucket[at]) \/ Holds(bucket[at], n.id)
        /\ bucket' = [bucket EXCEPT ![at] = With(@, n)]
        /\ cached' = [a \in DOMAIN cached \cup {n.addr} |->
                         IF a = n.addr THEN n ELSE cached[a]]
    /\ InsertEnd
    /\ UNCHANGED <<clock, doomed>>

\* The part of bucket b that belongs to the child with the given bit.
Half(b, bit) ==
    LET i == Len(at) + 1
    IN  [nodes |-> {n \in b.nodes : n.id[i] = bit},
         cands |-> IF b.cands = <<>> THEN <<>>
                   ELSE SelectSeq(b.cands, LAMBDA n : n.id[i] = bit)]

Halves == [p \in {Append(at, 0), Append(at, 1)} |-> Half(bucket[at], p[Len(p)])]

\* Mutant: the bucket that was split stays.
SplitLeavesStale ==
    bucket' = [p \in DOMAIN bucket \cup DOMAIN Halves |->
                 IF p \in DOMAIN Halves THEN Halves[p] ELSE bucket[p]]

SplitLeaves ==
    bucket' = [p \in (DOMAIN bucket \ {at}) \cup DOMAIN Halves |->
                 IF p \in DOMAIN Halves THEN Halves[p] ELSE bucket[p]]

\* A full bucket without the id.  It is split when it covers the id, and the
\* node becomes a candidate otherwise.
Overflow ==
    /\ pc = "insert"
    /\ Leaf(at) /\ Len(at) < MaxPrefix
    /\ \E n \in pending :
        /\ ~ Room(bucket[at]) /\ ~ Holds(bucket[at], n.id)
        /\ IF Matches(at, n.id)
           THEN /\ SplitLeaves
                /\ at' = Child(at, n.id)
                /\ IF Len(at') < MaxPrefix
                   THEN UNCHANGED <<pc, pending>>
                   ELSE pc' = "idle" /\ pending' = {}
           ELSE /\ bucket' = [bucket EXCEPT ![at].cands =
                     LET q == Append(@, n) IN IF Len(q) > K THEN Tail(q) ELSE q]
                /\ InsertEnd
    /\ UNCHANGED <<cached, clock, doomed>>

-----------------------------------------------------------------------------
(* remove_by_addr *)

\* KBucketInner::replace: the last candidate takes the place of the node.
Without(b, id) ==
    IF ~ Holds(b, id) THEN b
    ELSE LET rest == {n \in b.nodes : n.id # id} IN
         IF b.cands = <<>>
         THEN [b EXCEPT !.nodes = rest]
         ELSE [nodes |-> rest \cup {b.cands[Len(b.cands)]},
               cands |-> SubSeq(b.cands, 1, Len(b.cands) - 1)]

\* The bucket is searched for the id the cache has for the address.
Remove(a) ==
    IF a \in DOMAIN cached
    THEN /\ cached' = Restrict(cached, DOMAIN cached \ {a})
         /\ bucket' = [bucket EXCEPT ![LeafOf(cached[a].id)] =
                          Without(@, cached[a].id)]
    ELSE UNCHANGED <<cached, bucket>>

\* The event loop removes an address it collected earlier: of a node Crawl mode has
\* just refreshed, or of one that let a ping run out.  It may be gone by now.
Forget ==
    /\ pc = "idle"
    /\ \E a \in Addr : Remove(a)
    /\ UNCHANGED <<clock, pc, pending, at, doomed>>

-----------------------------------------------------------------------------
(* prune *)

\* Mutant: a node gets one unit of time more.
StaleLate(n) == clock - n.last > NodeExpiry + 1

Stale(n) == clock - n.last > NodeExpiry

PruneBegin ==
    /\ pc = "idle"
    /\ doomed' = {a \in DOMAIN cached : Stale(cached[a])}
    /\ pc' = "stale"
    /\ UNCHANGED <<bucket, cached, clock, pending, at>>

PruneOne ==
    /\ pc \in {"stale", "excess"}
    /\ \E a \in doomed : Remove(a) /\ doomed' = doomed \ {a}
    /\ UNCHANGED <<clock, pc, pending, at>>

\* The oldest nodes beyond max_nodes are next.
PruneExcess ==
    /\ pc = "stale"
    /\ doomed = {}
    /\ \E A \in SUBSET DOMAIN cached :
        /\ Cardinality(A) = IF Size > MaxNodes THEN Size - MaxNodes ELSE 0
        /\ \A a \in A, b \in DOMAIN cached \ A : cached[a].last <= cached[b].last
        /\ doomed' = A
    /\ pc' = "excess"
    /\ UNCHANGED <<bucket, cached, clock, pending, at>>

PruneEnd ==
    /\ pc = "excess"
    /\ doomed = {}
    /\ pc' = "idle"
    /\ UNCHANGED <<bucket, cached, clock, pending, at, doomed>>

-----------------------------------------------------------------------------

Pass ==
    /\ pc = "idle"
    /\ clock < MaxClock
    /\ clock' = clock + 1
    /\ UNCHANGED <<bucket, cached, pc, pending, at, doomed>>

Next ==
    \/ InsertBegin \/ Descend \/ Store \/ Overflow
    \/ Forget
    \/ PruneBegin \/ PruneOne \/ PruneExcess \/ PruneEnd
    \/ Pass

Spec == Init /\ [][Next]_vars

-----------------------------------------------------------------------------
(* Properties. *)

\* The leaves partition the ids: whatever was split in whatever order, the walk
\* of insert and the walk of remove_from_buckets end at the same one bucket.
LeafPartition ==
    \A id \in [1 .. MaxPrefix -> {0, 1}] :
        /\ \E p \in DOMAIN bucket : Matches(p, id)
        /\ \A p, q \in DOMAIN bucket : Matches(p, id) /\ Matches(q, id) => p = q

\* A bucket holds at most K nodes, of its own part of the id space, no two with
\* one id.  It has no candidates: the walk ends at a bucket that covers the id,
\* so the branch that stores one, and the promotion in replace, are dead.
BucketShape ==
    \A p \in DOMAIN bucket :
        /\ Cardinality(bucket[p].nodes) <= K
        /\ \A n \in bucket[p].nodes : Matches(p, n.id)
        /\ \A m, n \in bucket[p].nodes : m.id = n.id => m = n
        /\ bucket[p].cands = <<>>

\* insert never loses its node, however often it splits on the way: when it
\* returns the node is in the cache and in the bucket that covers its id.
InsertPlaces ==
    [][pc = "insert" /\ pc' = "idle" =>
          \A n \in pending :
             /\ n.addr \in DOMAIN cached' /\ cached'[n.addr] = n
             /\ \E p \in DOMAIN bucket' : Matches(p, n.id) /\ n \in bucket'[p].nodes
      ]_vars

\* Where the cache and a bucket hold a node with the same id and address they
\* agree on when it was last active, so collect_expired_nodes (which reads the
\* buckets) and prune (which reads the cache) judge it alike.
CopiesAgree ==
    \A a \in DOMAIN cached, p \in DOMAIN bucket : \A n \in bucket[p].nodes :
        n.addr = a /\ n.id = cached[a].id => n = cached[a]

\* When prune returns nothing in the cache is stale, and it is within max_nodes,
\* although prune collects the addresses first and removes them afterwards.
PruneCleansCache ==
    [][pc = "excess" /\ pc' = "idle" =>
          /\ \A a \in DOMAIN cached' : clock - cached'[a].last <= NodeExpiry
          /\ Size <= MaxNodes]_vars
=============================================================================
