------------------------------ MODULE DhtClient ------------------------------
(***************************************************************************)
(* The event loop of the DHT node, Dht::start in src/dht.rs, with every    *)
(* handler that sends queries, receives answers or changes the table of    *)
(* known nodes.                                                            *)
(*                                                                         *)
(* One task runs the loop: tokio::select! picks a ready branch (the tick,  *)
(* a command, a datagram) at random and runs its handler to the end.  A    *)
(* handler is a sequence of steps here, with pc naming the step it is at,  *)
(* because its effects on transactions, table and blacklist are ordered.   *)
(*                                                                         *)
(* The network is unconstrained: any answer to any id ever issued, from    *)
(* any address, may arrive at any time, twice, late or not at all.         *)
(*                                                                         *)
(* Abstractions.  `cached' is the key set of the routing table's node      *)
(* cache.  The buckets, which the cache may disagree with (RoutingTable    *)
(* models them), appear as what they can hold: any of the addresses ever   *)
(* given to the table.  Which nodes are expired or stale at a tick is a    *)
(* free choice.  The target of a find_node and the payload of a datagram   *)
(* are left out.                                                           *)
(***************************************************************************)
EXTENDS Transactions

CONSTANTS
    Prime,     \* the addresses Config::prime_nodes can resolve to
    MaxNodes,  \* Config::max_nodes (5000)
    BlackMax,  \* Config::blacklist_max_size (65536)
    Crawl      \* Config::mode is Crawl

ASSUME PrimeAssumption == Prime \subseteq Addr
ASSUME SizesAssumption ==
    /\ MaxNodes \in Nat
    /\ BlackMax \in Nat
    /\ Crawl \in BOOLEAN

VARIABLES
    cached,  \* addresses in RoutingTable::cached_nodes
    seen,    \* addresses ever inserted in the routing table
    black,   \* address -> its blacklist entry: none, live or expired
    pc,      \* the step the loop is at; "idle" while select! waits
    todo,    \* what is left of the list the current step iterates over
    gone,    \* what is left of to_remove in the timeout scan
    cur      \* the locals of the handler being run

lvars == <<cached, seen, black>>
hvars == <<pc, todo, gone, cur>>
vars  == <<cursor, txs, index, cached, seen, black, pc, todo, gone, cur>>

\* Locals of handle_response and of the command handlers.  `clear' is
\* fresh_plan's second result.
NoWork == [tid |-> 0, peer |-> {}, ih |-> NoHash, find |-> FALSE,
           announce |-> FALSE, values |-> FALSE, token |-> FALSE, clear |-> {}]

Work == [tid : 0 .. MaxCursor, peer : SUBSET Addr, ih : InfoHash \cup {NoHash},
         find : BOOLEAN, announce : BOOLEAN, values : BOOLEAN,
         token : BOOLEAN, clear : SUBSET Addr]

Step == {"idle", "join", "giveup", "refresh", "ping", "query",
         "nodes", "values", "announce", "finish", "stopped"}

TypeOK ==
    /\ TransactionsTypeOK
    /\ cached \subseteq Addr
    /\ seen \subseteq Addr
    /\ black \in [Addr -> {"none", "live", "expired"}]
    /\ pc \in Step
    /\ todo \subseteq Addr
    /\ gone \subseteq Nat
    /\ cur \in Work

Init ==
    /\ cursor = 0
    /\ txs = <<>>
    /\ index = <<>>
    /\ cached = {}
    /\ seen = {}
    /\ black = [a \in Addr |-> "none"]
    /\ pc = "idle"
    /\ todo = {}
    /\ gone = {}
    /\ cur = NoWork

-----------------------------------------------------------------------------
(* The blacklist and the routing table, as the handlers use them. *)

Listed == {a \in Addr : black[a] # "none"}

\* BlackList::contains: an entry past its hour no longer counts.
Blocked(a) == black[a] = "live"

\* BlackList::insert: refused in silence once the list is full, even for an
\* address it already holds.
BlackInsert(a) ==
    black' = IF Cardinality(Listed) >= BlackMax
             THEN black
             ELSE [black EXCEPT ![a] = "live"]

\* The guard every caller puts before RoutingTable::insert.  At max_nodes a
\* node already in the table is not refreshed either.
TableInsert(a) ==
    IF Cardinality(cached) < MaxNodes
    THEN cached' = cached \cup {a} /\ seen' = seen \cup {a}
    ELSE UNCHANGED <<cached, seen>>

-----------------------------------------------------------------------------
(* Steps that end a handler or move it to its next loop. *)

Return ==
    /\ pc' = "idle"
    /\ todo' = {}
    /\ gone' = {}
    /\ cur' = NoWork

Goto(step, list) ==
    /\ pc' = step
    /\ todo' = list
    /\ UNCHANGED <<gone, cur>>

\* A list of find_node destinations may name an address twice: an address
\* sits in two buckets under two ids, or two prime hosts resolve to it.
NextDestination(a) ==
    /\ \/ todo' = todo \ {a}
       \/ todo' = todo /\ Cardinality(todo) < Budget
    /\ UNCHANGED <<pc, gone, cur>>

-----------------------------------------------------------------------------
(* The tick. *)

\* With an empty table a tick only rejoins: nothing is scanned or cleaned.
TickJoin ==
    /\ pc = "idle"
    /\ cached = {}
    /\ \E A \in SUBSET Prime : Cardinality(A) <= Budget /\ Goto("join", A)
    /\ UNCHANGED <<tvars, lvars>>

JoinOne ==
    /\ pc = "join"
    /\ \E a \in todo : Issue("find_node", a, NoHash, FALSE) /\ NextDestination(a)
    /\ UNCHANGED lvars

JoinEnd ==
    /\ pc = "join"
    /\ todo = {}
    /\ Return
    /\ UNCHANGED <<tvars, lvars>>

\* The scan; then the retries, which only these two query kinds get.
RetriedKinds == {"get_peers", "find_node"}

TickScan ==
    /\ pc = "idle"
    /\ cached # {}
    /\ MarkRetry({t \in ToRetry : txs[t].qtype \in RetriedKinds})
    /\ gone' = ToRemove
    /\ pc' = "giveup"
    /\ UNCHANGED <<lvars, todo, cur>>

\* A ping that was given up removes its node; any other query blacklists it.
GiveUp ==
    /\ pc = "giveup"
    /\ \E t \in gone :
        /\ IF txs[t].qtype = "ping"
           THEN cached' = cached \ {txs[t].addr} /\ UNCHANGED black
           ELSE BlackInsert(txs[t].addr) /\ UNCHANGED cached
        /\ Finish(t)
        /\ gone' = gone \ {t}
    /\ UNCHANGED <<seen, pc, todo, cur>>

\* fresh_plan, asked only when no transaction is open.
TickRefresh ==
    /\ pc = "giveup"
    /\ gone = {}
    /\ \E A \in SUBSET seen :
        /\ Cardinality(A) <= Budget
        /\ Live # {} => A = {}
        /\ todo' = A
        /\ cur' = [cur EXCEPT !.clear = IF Crawl THEN A ELSE {}]
    /\ pc' = "refresh"
    /\ UNCHANGED <<tvars, lvars, gone>>

RefreshOne ==
    /\ pc = "refresh"
    /\ \E a \in todo : Issue("find_node", a, NoHash, FALSE) /\ NextDestination(a)
    /\ UNCHANGED lvars

\* Crawl mode forgets the nodes it just queried; then the expired nodes of
\* all buckets are collected.
TickExpired ==
    /\ pc = "refresh"
    /\ todo = {}
    /\ cached' = cached \ cur.clear
    /\ \E A \in SUBSET seen : Cardinality(A) <= Budget /\ Goto("ping", A)
    /\ UNCHANGED <<tvars, seen, black>>

PingOne ==
    /\ pc = "ping"
    /\ \E a \in todo :
        /\ IF InFlight("ping", a)
           THEN UNCHANGED tvars
           ELSE Issue("ping", a, NoHash, FALSE)
        /\ todo' = todo \ {a}
    /\ UNCHANGED <<lvars, pc, gone, cur>>

\* The cleaning that ends a tick: the expired blacklist entries, and prune,
\* which drops the stale nodes and then the oldest beyond max_nodes.
TickClean ==
    /\ pc = "ping"
    /\ todo = {}
    /\ black' = [a \in Addr |-> IF black[a] = "expired" THEN "none" ELSE black[a]]
    /\ \E keep \in SUBSET cached : Cardinality(keep) <= MaxNodes /\ cached' = keep
    /\ Return
    /\ UNCHANGED <<tvars, seen>>

-----------------------------------------------------------------------------
(* The commands of a DhtHandle. *)

\* GetPeers (announcing = FALSE) and AnnouncePeer (TRUE): both ask every
\* neighbour, and both skip one that has a get_peers in flight.
Command ==
    /\ pc = "idle"
    /\ Cardinality(cached) <= Budget
    /\ \E h \in InfoHash, announcing \in BOOLEAN :
        cur' = [NoWork EXCEPT !.ih = h, !.announce = announcing]
    /\ pc' = "query"
    /\ todo' = cached
    /\ UNCHANGED <<tvars, lvars, gone>>

QueryOne ==
    /\ pc = "query"
    /\ \E a \in todo :
        /\ IF InFlight("get_peers", a)
           THEN UNCHANGED tvars
           ELSE Issue("get_peers", a, cur.ih, cur.announce)
        /\ todo' = todo \ {a}
    /\ UNCHANGED <<lvars, pc, gone, cur>>

QueryEnd ==
    /\ pc = "query"
    /\ todo = {}
    /\ Return
    /\ UNCHANGED <<tvars, lvars>>

Shutdown ==
    /\ pc = "idle"
    /\ Goto("stopped", {})
    /\ UNCHANGED <<tvars, lvars>>

-----------------------------------------------------------------------------
(* Datagrams. *)

\* handle_response up to its first loop.  The answer may carry the id of an
\* open transaction, of a concluded one, or one never issued (t = cursor);
\* for an open one the sender must be the address that was asked.
RecvResponse ==
    /\ pc = "idle"
    /\ \E t \in 0 .. cursor, a \in Addr, nodes \in SUBSET Addr,
          values \in BOOLEAN, token \in BOOLEAN :
        /\ ~ Blocked(a)
        /\ Cardinality(nodes) + (IF token THEN 1 ELSE 0) <= Budget
        /\ t \in Live => txs[t].addr = a
        /\ cur' = [tid |-> t, peer |-> {a},
                   ih |-> IF t \in Live THEN txs[t].ih ELSE NoHash,
                   find |-> t \in Live /\ txs[t].qtype = "find_node",
                   announce |-> /\ t \in Live
                                /\ txs[t].qtype = "get_peers"
                                /\ txs[t].announce,
                   values |-> values, token |-> token, clear |-> {}]
        /\ todo' = nodes
    /\ pc' = "nodes"
    /\ UNCHANGED <<tvars, lvars, gone>>

\* One node of the answer.  A blacklisted node, or any node while the table
\* is full, is skipped whole: it is not queried either.
NodeOne ==
    /\ pc = "nodes"
    /\ \E a \in todo :
        /\ IF Blocked(a) \/ Cardinality(cached) >= MaxNodes
           THEN UNCHANGED <<tvars, cached, seen>>
           ELSE /\ TableInsert(a)
                /\ IF cur.ih # NoHash /\ ~ InFlight("get_peers", a)
                   THEN Issue("get_peers", a, cur.ih, FALSE)
                   ELSE IF cur.find /\ ~ InFlight("find_node", a)
                   THEN Issue("find_node", a, NoHash, FALSE)
                   ELSE UNCHANGED tvars
        /\ todo' = todo \ {a}
    /\ UNCHANGED <<black, pc, gone, cur>>

NodesEnd ==
    /\ pc = "nodes"
    /\ todo = {}
    /\ Goto("values", {})
    /\ UNCHANGED <<tvars, lvars>>

\* An answer with peers concludes a query for an info hash.
Values ==
    /\ pc = "values"
    /\ IF cur.values /\ cur.ih # NoHash
       THEN Finish(cur.tid)
       ELSE UNCHANGED tvars
    /\ Goto("announce", {})
    /\ UNCHANGED lvars

\* The answer to an announcing get_peers brings the token to announce with.
Announce ==
    /\ pc = "announce"
    /\ IF cur.announce /\ cur.token
       THEN \E a \in cur.peer : Issue("announce_peer", a, cur.ih, FALSE)
       ELSE UNCHANGED tvars
    /\ Goto("finish", {})
    /\ UNCHANGED lvars

\* Mutant: an answered find_node waits for the scan.
ConcludesAnnouncing == cur.announce

\* What handle_response concludes before it returns: a find_node, and a
\* get_peers that was to announce.
Concludes == cur.announce \/ (cur.find /\ cur.ih = NoHash)

FinishAnswered ==
    /\ pc = "finish"
    /\ IF Concludes
       THEN Finish(cur.tid)
       ELSE UNCHANGED tvars
    /\ Return
    /\ UNCHANGED lvars

\* An error message concludes the transaction it names, whoever sent it.
RecvError ==
    /\ pc = "idle"
    /\ \E a \in Addr : ~ Blocked(a)
    /\ \E t \in Live : Finish(t)
    /\ UNCHANGED <<lvars, hvars>>

\* A query other than ping, served to its end, puts the sender in the table.
RecvRequest ==
    /\ pc = "idle"
    /\ \E a \in Addr : ~ Blocked(a) /\ TableInsert(a)
    /\ UNCHANGED <<tvars, black, hvars>>

-----------------------------------------------------------------------------
(* Time, outside the loop. *)

\* A timeout period passes while the loop waits.
Pass ==
    /\ pc = "idle"
    /\ Elapse
    /\ UNCHANGED <<lvars, hvars>>

\* The hour of a blacklist entry runs out.
BlackExpire ==
    /\ pc = "idle"
    /\ \E a \in Addr : Blocked(a) /\ black' = [black EXCEPT ![a] = "expired"]
    /\ UNCHANGED <<tvars, cached, seen, hvars>>

\* The task has ended.
Stopped == pc = "stopped" /\ UNCHANGED vars

-----------------------------------------------------------------------------

Tick == TickJoin \/ TickScan

\* The steps of a handler that is running.
Handler ==
    \/ JoinOne \/ JoinEnd
    \/ GiveUp \/ TickRefresh \/ RefreshOne \/ TickExpired \/ PingOne \/ TickClean
    \/ QueryOne \/ QueryEnd
    \/ NodeOne \/ NodesEnd \/ Values \/ Announce \/ FinishAnswered

\* What others do to the node.
Environment == Command \/ Shutdown \/ RecvResponse \/ RecvError \/ RecvRequest

Next == Tick \/ Handler \/ Environment \/ Pass \/ BlackExpire \/ Stopped

Spec == Init /\ [][Next]_vars

\* A handler awaits nothing that can block for ever, so it runs to its end.
\* The interval fires again and again, and select! picks among the ready
\* branches at random, so a tick is not passed over for ever.  Time passes.
Fairness == WF_vars(Handler) /\ SF_vars(Tick) /\ SF_vars(Pass)

FairSpec == Spec /\ Fairness

-----------------------------------------------------------------------------
(* Properties. *)

\* No address has two open pings, or two open get_peers, whatever the order of
\* answers, scans and commands: the index, which keeps the entries of
\* concluded transactions and loses those of refused ones, never hides an
\* open one from the guards in start and handle_response.
NoDuplicateQuery ==
    \A s, t \in Live :
        /\ txs[s].qtype \in GuardedKinds
        /\ txs[s].qtype = txs[t].qtype
        /\ txs[s].addr = txs[t].addr
        => s = t

\* The three capacities hold at every step: MAX_TRANSACTIONS, max_nodes and
\* blacklist_max_size, although each is guarded at the call site only.
Capacity ==
    /\ Cardinality(Live) <= MaxTransactions
    /\ Cardinality(cached) <= MaxNodes
    /\ Cardinality(Listed) <= BlackMax

\* An address is blacklisted only for a query that was sent MaxRetries times
\* again and was left unanswered for its whole last period, and that query is
\* concluded with it: nothing the loop does between the scan and the use of
\* its result makes the result stale.
BlacklistEarned ==
    [][\A a \in Addr :
          black[a] # "live" /\ black'[a] = "live" =>
            \E t \in Live :
                /\ txs[t].addr = a
                /\ txs[t].qtype # "ping"
                /\ txs[t].retries = MaxRetries
                /\ Due(t)
                /\ t \notin DOMAIN txs']_vars

\* While it is open a transaction stays the query it was created as, and it
\* is sent again only after a wait that doubles with every retry (up to
\* the 31st), at most MaxRetries times, and the next wait starts then and is
\* never begun anew without a retry: an id is never given to a second query.
RetryBacksOff ==
    [][\A t \in Live \cap DOMAIN txs' :
          /\ [txs[t] EXCEPT !.age = 0, !.retries = 0] =
             [txs'[t] EXCEPT !.age = 0, !.retries = 0]
          /\ \/ txs'[t].retries = txs[t].retries /\ txs'[t].age >= txs[t].age
             \/ /\ txs'[t].retries = txs[t].retries + 1
                /\ txs'[t].retries <= MaxRetries
                /\ txs'[t].age = 0
                /\ txs[t].age >= 2 ^ (IF txs[t].retries < 31 THEN txs[t].retries ELSE 31)]_vars

\* When handle_response returns, an answered find_node, an answered get_peers
\* that was to announce, and any query answered with peers are concluded: a
\* duplicate of the answer finds no transaction, so it neither continues the
\* search nor announces again.
AnsweredConcludes ==
    [][pc = "finish" /\ pc' = "idle"
         /\ (cur.find \/ cur.announce \/ (cur.values /\ cur.ih # NoHash))
       => cur.tid \notin DOMAIN txs']_vars

\* From some point on the loop runs and ticks find a node in the table.
KeepsServing == <>[](cached # {} /\ pc # "stopped")

Open(t, kinds) == t \in Live /\ txs[t].qtype \in kinds

\* Every get_peers and every find_node is concluded some day, answered or not:
\* the scan retries it, and gives it up when its retries are used.
RetriedConcludes ==
    KeepsServing => \A t \in Tid : Open(t, RetriedKinds) ~> ~ Open(t, RetriedKinds)

\* README.md:119 promises timeouts and retries for transactions, and dht.rs:340
\* says pings validate liveness.  So a ping should be concluded as well.
PingConcludes ==
    KeepsServing => \A t \in Tid : Open(t, {"ping"}) ~> ~ Open(t, {"ping"})
=============================================================================
