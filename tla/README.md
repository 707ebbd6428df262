# dht-spider in TLA+

A verification development of dht-spider, a BitTorrent DHT crawler in Rust
(`src/src/`). TLA+ modules model its components, TLC checks them on small
instances, and TLAPS proves the main safety properties for every value of the
constants. `PROJECT.json` lists components, runs, hazards, findings and
theorems, and maps every definition to the source lines it stands for.

    tlc -workers 2 -config ClientSafety.cfg MCDhtClient.tla
    tlapm DhtClientProofs.tla

## 1. Inventory of the system

The program is one process with a tokio runtime (`main.rs`). A DHT node finds
peers of torrents; its callbacks ask the wire pool to download metadata from
them; a subscriber of the pool stores what was downloaded, and a web panel shows
the store and asks the DHT for more.

| component | state | operations | interacts with |
|---|---|---|---|
| transactions (`transaction.rs`) | counter, map id → query, index kind:address → id | gen_id, insert, get_by_index, finish, scan_timeouts, mark_retry | owned by the event loop |
| event loop (`dht.rs`) | transactions, routing table, blacklist, tokens, peers | tick, three commands, datagrams (query, response, error) | UDP, command channel, callbacks |
| routing table (`routing.rs`, `bitmap.rs`) | tree of k-buckets by id, cache of nodes by address | insert with splits, remove_by_addr, prune, fresh_plan, collect_expired_nodes, neighbours | called by the event loop |
| blacklist (`blacklist.rs`) | map ip:port → creation time, one hour | insert, contains, clear_expired | one for the event loop, one for the wire pool |
| tokens (`token.rs`) | ip → token and time | token, check, clear_expired | answering side of the event loop |
| peers (`peers.rs`) | info hash → last k peers | insert, get | both sides of the event loop |
| wire pool (`wire.rs`) | bounded request channel, map of known requests, semaphore of permits, blacklist | request, receive, spawn, clean | callbacks, downloads, broadcast |
| download (`wire.rs`) | one TCP connection, the pieces | connect, handshakes, messages, peer exchange | the pool's channel and blacklist |
| pipeline (`main.rs`) | two broadcast subscribers, spawned inserts | store metadata, print peers | pool, storage |
| storage (`storage.rs`) | one SQLite connection behind a mutex | insert or ignore, list, count, get_by_infohash | pipeline, web server |
| web server (`web.rs`, Rust) | the secret key | auth, list, stats, start a query, ask for its result | storage, DHT commands |
| web panel (`web.rs`, script) | key in localStorage, page and search, two timers, the dialog | log in, browse, refresh, query a row, poll | web server |
| codecs (`bencode.rs`, `krpc.rs`, `util.rs`, `types.rs`) | none | pure functions | everyone |
| logger (`logger.rs`) | current file | log, hour_key | pipeline |

What is hard here, and what makes each part correct:

* **Transactions and event loop.** Answers are late, duplicated, lost or forged;
  the tick's scan and its use are separate steps; the index keeps entries of
  concluded queries and misses refused ones. Correct means: no second ping or
  get_peers to an address while one is open; an address is blacklisted only
  after a full schedule of retries; what was answered is concluded and what was
  not is given up; the limits hold although each is guarded at a call site.
* **Routing table.** Two structures under two keys, changed together by code
  that looks up one through the other. Correct means: the leaves partition the
  id space, a bucket holds its own ids only, insert never loses its node on the
  way through splits, both structures judge a node's age alike.
* **Wire pool.** Tasks that hold a permit feed the channel that feeds the tasks.
  Correct means: nobody waits in a circle, no two tasks at one time have the same
  request, permits come back.
* **Download.** The peer may send anything, in any order. Correct means: the
  metadata is reported, once, as soon as the last piece is there, whichever that
  is; an honest peer is served; a peer that stops talking does not keep its permit.

* **Answering side.** Tokens are per ip, consumed by a check, and replaced when
  they are old; lists of peers and the table of lists are bounded. Correct means:
  one get_peers earns at most one announce and does earn one for ten minutes; an
  answer lists who was listed last; a full table goes on serving what it has.
* **Pipeline and storage.** The channel overwrites what a slow subscriber has not
  read, inserts run in any order and may fail, a panic poisons the lock, the
  process or the machine may stop. Correct means: metadata is lost only for a
  named reason, also across a crash, a row never changes, pages show each row once.
* **Web panel.** Every callback of the script runs between the two halves of
  others. Correct means: the table settles on the view chosen last, the dialog is
  about its row and ends, no interval outlives what started it.

The full list of hazards, each at its line and with the properties that cover
it, is in `PROJECT.json`.

## 2. Modules

| module | models | built on |
|---|---|---|
| `Transactions` | `transaction.rs` | |
| `DhtClient` | `Dht::start` in `dht.rs`: tick, commands, datagrams | `Transactions` |
| `RoutingTable` | `routing.rs` with `bitmap.rs` | |
| `FetchTask` | the steps of one download as its pool sees them | |
| `FetchSpec` | abstract specification of a download | `FetchTask` |
| `MetadataFetch` | `fetch_metadata`, `read_message`, `send_message` | implements `FetchSpec` |
| `WirePool` | `WireRunner::run`, its tasks and cleaner, `WireHandle::request` | `FetchTask` |
| `DhtServer` | `handle_request` in `dht.rs`, `token.rs`, `peers.rs` | |
| `Pipeline` | the subscriber in `main.rs`, `storage.rs`, the list handler of `web.rs` | |
| `WebPanel` | the script of `web.rs` against its handlers | |
| `MC*` | instances for TLC: short ids, symmetry | |
| `*Proofs` | theorems | the module they are named after (`DhtLoopProofs`: `DhtClient`) |

How the modules rest on each other: `WirePool` assumes of a download what
`FetchSpec` says, and `MetadataFetch` implements it; `Pipeline` takes from the
pool that one process never fetches a request again, which holds because known
requests are never forgotten (finding 2; `OneTask` in `WirePoolProofs`), and from
the download that only what has the digest is reported (`wire.rs:209`); `WebPanel`
takes from `Pipeline` that a row may be gone or the storage out of order.

**DhtClient.** One task runs the loop, so the steps of a handler never interleave
with another handler; `pc` names the step, `todo` what is left of the list a
step iterates over, `gone` what is left of the scan's `to_remove`, and `cur` the
handler's locals. `TickScan`, `GiveUp`, `TickRefresh`, `RefreshOne`,
`TickExpired`, `PingOne` and `TickClean` are lines 335-346 in order; `Command`,
`QueryOne`, `QueryEnd` the two commands; `RecvResponse`, `NodeOne`, `NodesEnd`,
`Values`, `Announce`, `FinishAnswered` are handle_response. The routing table
appears as the key set of its cache (`cached`) and the set of addresses its
buckets may still hold (`seen`: any address ever inserted); which nodes are
expired at a tick is a free choice. The network is unconstrained: an answer with
any id ever issued may come from any address at any time.

**RoutingTable.** An id is a sequence of bits, a bucket is named by its prefix.
The walk of `insert` and the loop of `prune` are loops of the model. `Forget`
removes any address: the event loop collected it earlier.

**WirePool.** A clone of a `DashMap` is a copy, so what the cleaner and the tasks
remove from their clones of the map of known requests is not removed from the
map the loop asks: `known` only grows. A task is its request and a `FetchTask`
state, or waits for a permit.

**MetadataFetch.** The state is that of the function's locals. `honest` is fixed
at the start: an honest peer announces the real size and sends the pieces asked
for in order; any other peer may send every message, and may fall silent or
close the connection. `sent` is history: the places for which the last piece the
peer sent was the real one. `FetchSpecified` maps the phases to `FetchTask` and says
that a download is no more than `FetchSpec`, which is what `WirePool` assumes of
its tasks; `ForwardsEnd` in turn discharges what `MetadataFetch` assumes of the
pool, that there is room for what it forwards some day.

**DhtServer.** A handler is one step: it awaits nothing but its own sends. A
token's age is "fresh" or "old"; a new token is any token, since the five random
bytes go through `from_utf8_lossy` and may collide. The port goes through i32
and u16 as in the code, with small widths. `given`, `pledge` and `recent` are
history: the tokens an ip was given since it last announced, those of them not
ten minutes old, and everyone ever listed for an info hash in order (a peer that a
full table of info hashes refused is not listed). Both modes
are initial states; `Tick` may take any nodes from the table, which is what
`RoutingTable` shows of prune.

**Pipeline.** `Publish` is `resp_tx.send` at the end of a download; `Send` is
tokio's broadcast: the oldest message goes when the channel is full, and the
subscriber is told so at its next `recv`, which ends its `while let Ok`. Each
insert is a job of its own (`spawn_blocking`) and jobs run in any order. The
write-ahead log is reduced to `synced`, the rows a loss of power cannot take.
The list handler changes nothing unless its offset overflows in a debug build,
so its pages are operators over `rows`, and `PagesCover` asks all of them in
every state, as long as no offset wraps (a wrapped offset and the panic of a
debug build are in the model, but no doc bounds the page, so no property is about
them). Rows of one second keep the order of insertion, because the index
on created_at is scanned backwards.

**WebPanel.** `flight` is a bag of requests; each action is one callback of the
script up to its next await. `polls` are the intervals of `queryRow`, each with
its closure's row and attempts, `pollTimer` the one the variable refers to.
`Restart` gives the server any key. `Quiet` lets a finished behaviour stutter,
so that deadlock can be checked.

## 3. Runs

| run | instance | what it shows |
|---|---|---|
| client_safety | 2 addresses, 1 info hash, 2 transactions, 3 ids, 1 retry, 2 nodes, 1 blacklist place, Crawl | index precise, no duplicate query, blacklisting earned, back-off, answered queries concluded |
| client_liveness | the same with 1 transaction, 2 ids, 2 retries, 1 node | limits hold when all tables are full; get_peers and find_node are concluded |
| routing | 3 addresses, 4 ids of 3 bits, buckets of 2, 3 nodes | partition, bucket shape, agreement, insert and prune |
| wire_pool | 3 peers, 1 info hash, 1 worker, channel of 1 | no two live tasks for one request, no circular wait, permits return |
| fetch | blocks of 2, limit 7, real size 5 (3 pieces), 2 exchanged peers | the real pieces in any order suffice, honest peer served, silent peer dropped, `FetchSpec` implemented |
| dht_server | 2 ips, 2 tokens, 2 info hashes with room for 1, lists of 2, 1 node, ports that wrap a u16 of 4 and an i32 of 16, both modes | announces earned, tokens honoured, answers up to date, a full table serves on |
| pipeline | 3 info hashes, 2 of them storable, 2 peers, channel of 2, pages of up to 3, u32 of 8 | metadata accounted for and stored, losses in a crash have a reason, rows kept, pages complete |
| web_panel | 2 keys, 2 views, 2 rows, 2 requests in flight, 2 attempts, 4 moves of user and operator | the panel settles, the dialog shows its row and ends, no interval is lost |
| client_ping, wire_forgets, fetch_whole, fetch_closed | small | the findings of section 6 |

Why the bounds are enough for what they are asked: duplicate queries need two
open transactions and one id more; blacklisting needs a retry and the scan after
it; a full table, a full blacklist and a refused transaction all occur; the four
ids make one insert split twice, three nodes against buckets of two make it split
without help from a stale copy, and three addresses over four ids let addresses
change ids and ids change addresses; one place in the channel and one permit are
the tightest the pool can be; a size of 5 over blocks of 2 has a short last
piece and two before it, so that pieces come in every order, and every announced size up to one beyond the limit is tried. Bounds of
the models that the program lacks: `MaxCursor` (ids issued; the counter wraps at
2^63) and `MaxClock`. An age stops growing where the scan can no longer tell it
apart.

Two info hashes and room for one make the table of peers full, two entries and
four endpoints make a list overflow, and two tokens are enough for one that is
wrong. Three hashes and two peers make six publications against a channel of two,
so it overflows, and a job, a message and a row of one info hash exist at a time;
with a u32 of 8 offsets wrap. Two requests in flight are the least that can cross;
with three in flight and one attempt (642,568 states) the panel's properties hold
as well. Two attempts tell an interval that counts from one that ends at once.
Four moves let a user ask for a row, close the dialog, ask again and the operator
change the key. `MaxFlight` and `MaxMoves` bound the model, not the program.

Symmetry is used for safety only.

## 4. Fairness

* Event loop: `WF(Handler)`: no handler awaits anything that blocks for ever.
  `SF(Tick)`: the interval keeps firing and `tokio::select!` picks a random ready
  branch. `SF(Pass)`: time passes. Nothing is assumed of the network. The liveness
  property assumes that the table is not empty from some point on, because with an
  empty table a tick scans nothing (`dht.rs:335`; no
  property says what becomes of open transactions then), and that nobody shuts the node
  down.
* Pool: the loop and the cleaner run; channel and semaphore of tokio are first
  come, first served (`SF` for each waiting task); connecting has a timeout. How
  long a conversation lasts is up to the peer, so `EveryTaskStarts` has the
  premise that conversations end.
* Download: every await before the loop and every read has a timeout; an honest
  peer sends what it was asked for. A timeout is forced only on a peer that is
  silent: a message restarts the clock.
* Pipeline: the subscriber is woken by what it waits for (`WF(Receive)`,
  `WF(Lag)`), and the blocking threads run every job or fail it (`WF` for each).
  Nobody has to publish, to list or to crash.
* Web panel: requests are answered or fail (`WF(Answer)`), those of the dialog
  too (`WF(AnswerQuery \/ FailQuery)`). A browser's intervals fire again and
  again: `SF(Refresh)` and, for the intervals of the dialog, `SF(Poll)` of one of
  them, strong because a full flight, which is a bound of the model only, may
  disable them. `SF(ListGetsThrough)`: not every request for the list of the
  current view fails for ever.

## 5. Proofs

All theorems are proved by TLAPS from the named assumptions on the constants.

* `DhtClientProofs`: `TypeCorrect`, `IndexIsPrecise`, `NoDuplicateQueries`. The
  inductive invariant is `TypeOK /\ IndexPrecise`: the guard `InFlight` asks the
  index, so a precise index keeps a second query out, and because none gets in
  the index stays precise. Its first part has one lemma per operation of the
  transaction manager.
* `DhtLoopProofs`: `CapacityHolds`: each step is classified by what it does to
  each of the three tables, and each table's bound follows from its class.
  `BlacklistIsEarned` needs that the scan's list stays true while it is used
  (`GoneInv`); `AnsweredAreConcluded` that the locals of handle_response still
  describe the transaction they were read from (`OpenInv`, `AnswerInv`).
  `RetriesBackOff`: ids are only ever given from the counter, above every open
  one, so a transaction that is there before and after a step is the same one,
  and only time and mark_retry touch it, the latter restarting its clock; before the 31st retry the factor is a
  power of two, and from then on the largest u32, which is no less.
* `RoutingTableProofs`: all six properties of the run. The invariant joins
  `LeafPartition`, `BucketShape` and `CopiesAgree` (`Tree`, `Cache`) with what the
  walk of insert knows, `WalkInv`: it stands at a prefix of the pending id, never
  below the leaf for it; and with `PruneInv`: what prune has still to remove is
  all that is stale, then enough to come down to max_nodes. Splitting a leaf keeps
  the partition because two siblings match exactly what their parent did.
* `DhtServerProofs`: `ServerTypeCorrect`, `AnswersAreLatest`,
  `AnnouncesAreEarned`, `PledgesAreKept`, `TrackedAreServed`. The invariant says
  that each bounded list is the end of the unbounded one (`recent`), which
  survives moving a peer to the back because a list without repetition has it at
  one place; and that a kept token is one that was given, a pledge the fresh one
  that is kept.
* `PipelineProofs`: `PipelineTypeCorrect`, `PublishedIsAccounted`,
  `StoreOnlyGrows`, each inductive with the type invariant and
  with the fact that the subscriber ends only after a lag. `LossesHaveReasons`
  looks at each step by which something published is in neither the process nor
  the table any more: only a restart or a loss of power is one, what was not stored
  is excused by `Accounted` of the state before, and what was stored lies beyond
  the checkpoint. `PagesCoverTheTable` follows from the type invariant and from
  the primary key (`StoredOnce`) alone: numbering the rows found
  by how many are newer gives each place to one of them (`AboveNumbers`), so a
  page, an interval of places, holds a row exactly when the row's number falls in
  it; and n pages, n the rounded quotient, are just enough (`RoundUp`). It holds
  for tables, page sizes and widths of the offset of any size.
* `WirePoolProofs`: `PoolTypeCorrect`, `NoRequestFetchedTwice` (of tasks alive at
  one time), with the strengthening that every task's request is known and, since
  nothing is forgotten, that no request has two tasks at all. `PermitsNeverOverdrawn`: the
  tasks that hold a permit are never more than the permits. `FairnessReachesAll`:
  if the requests are finitely many, the tasks are never more than they, so the
  fairness and the liveness properties, which speak of so many tasks, speak of
  every one.
* `WebPanelProofs`: `PanelTypeCorrect`, `NoIntervalLost`, `DialogShowsItsRow`. The
  two safety properties are proved together, by `OneRow`: as long as no queries
  cross, every interval, every request of the dialog in flight and what the dialog
  shows are about the row asked for last, and a query that is still to be answered
  is alone, with no interval beside it, for its answer may start one. Why each part
  is needed: a poll's answer is shown whatever the dialog was opened for
  since, and setInterval overwrites the number of the interval before.
* `MetadataFetchProofs`: `FetchTypeCorrect`, `FetchImplementsSpec` (refinement:
  initial state and every step), and, *when the size is no multiple of the block
  length*, `HonestHeard`: an honest peer is never refused, and
  `RightPiecesReported`: whoever has sent the real piece last for every place has
  had the metadata reported. The second rests on `Sending`: while the task runs,
  each place whose last piece was the real one has it, because a real piece is never
  refused (`RealLengthAccepted`) and one that is refused ends the task. The run
  fetch_whole shows that the premise is needed.

Every invariant and every action property of the passing runs is stated by one of
these theorems, and so is the refinement. `FetchImplementsSpec` speaks of steps;
`FetchSpec` has no fairness.

Only model-checked are the liveness properties, which are out of the prover's
reach, as are fairness and ENABLED: `RetriedConcludes`, `ForwardsEnd`,
`EveryTaskStarts`, `HonestServed`, `SilentDropped`, `StoredAtLast`, `PanelSettles`
and `DialogEnds`. `HonestHeard` and `RightPiecesReported` keep a premise that the code does not
guarantee; the run fetch_whole shows what happens without it.

## 6. Where code and documentation disagree

Each of these is a run TLC finds violated; `PROJECT.json` quotes the lines.

1. An open ping is never retried, given up or concluded (client_ping).
2. A request is remembered for ever, not for 600 s (wire_forgets).
3. Metadata whose size is a multiple of the block length is refused (fetch_whole).
4. A download whose peer closed the connection keeps its worker (fetch_closed).

Seen while modelling, in the models but not runs of their own:

* find_node is sent again to nodes already queried: the guard sees open
  transactions only (`dht.rs:227`).
* An announce skips neighbours with any get_peers in flight (`dht.rs:371`).
* prune leaves in the buckets stale copies of a node whose address has come back
  with another id (`routing.rs:216`).
* The dialog of the panel: without the condition `~ crossed`, TLC finds `OnePoll`
  and `DialogShowsRow` violated. A row asked for while the answer for another is
  still to come may be shown the other's result, and two queries in flight leave
  an interval that is never stopped (`web.rs:456-471`).
* Today's log files are named after a year 54 (`logger.rs:30`).

## 7. Not modelled

* `bencode.rs`, `krpc.rs`, `util.rs`, `types.rs`: pure functions of one input. The
  models leave free whether a message parses and which order neighbours come in;
  what a recursive decoder computes is out of the prover's reach.
* `logger.rs`: one file handle with one writer, and date arithmetic.
* `storage.rs`: count, db_size and get_by_infohash only read. `web.rs`: markup,
  formatting, the clipboard, and parse_infohash, whose input on the page is an
  info hash the server sent.
* The peer subscriber of `main.rs`, which only prints.
* The two id spaces of the extension protocol (`wire.rs:156`, `wire.rs:217`):
  `MetadataFetch` lets any exchange be recognised.
* `Dht::run` and `Dht::get_peers` are superseded by `Dht::start` and not called.
* Ages in `DhtClient`: which nodes are expired at a tick is a free choice there;
  `RoutingTable` has them.
