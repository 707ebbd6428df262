----------------------------- MODULE DhtServer -----------------------------
(***************************************************************************)
(* The answering side of the DHT node: handle_request of src/dht.rs with   *)
(* the announce tokens (src/token.rs) and the peers it lists               *)
(* (src/peers.rs).                                                         *)
(*                                                                         *)
(* A peer asks for the peers of an info hash and is given a token; with    *)
(* the token it may announce that it has the torrent.  In Standard mode    *)
(* the announce is stored and answered; in Crawl mode, the one main.rs     *)
(* runs, it is only reported.  The loop runs one handler at a time.        *)
(*                                                                         *)
(* Abstractions.  A new token is any token: five random bytes are turned   *)
(* into a string that maps every invalid byte to the same character, so    *)
(* two of them may well be equal.  A query without an id, a get_peers      *)
(* without a good info hash, an announce without its three keys and a      *)
(* ping change nothing and are left out.  Neighbours in an answer are not  *)
(* modelled.                                                               *)
(***************************************************************************)
EXTENDS Integers, FiniteSets, Sequences

CONSTANTS
    Ip,
    Token,
    InfoHash,
    NoHash,         \* the info_hash of a query when it has not 20 bytes
    Int32, UInt16,  \* how many values an i32 and a u16 have (2^32, 2^16)
    SendPort,       \* the ports datagrams come from
    NamedPort,      \* the integers peers name as their port
    PeersKept,      \* Config::k (8)
    MaxInfoHashes,  \* MAX_INFOHASHES (50000)
    MaxNodes        \* Config::max_nodes (5000)

ASSUME ServerAssumption ==
    /\ NoHash \notin InfoHash
    /\ UInt16 \in Nat \ {0}
    /\ Int32 \in Nat /\ Int32 % 2 = 0 /\ UInt16 <= Int32 \div 2
    /\ SendPort \subseteq 0 .. UInt16 - 1
    /\ NamedPort \subseteq Int
    /\ PeersKept \in Nat \ {0}
    /\ MaxInfoHashes \in Nat
    /\ MaxNodes \in Nat

VARIABLES
    crawl,   \* Config::mode is Crawl
    tokens,  \* TokenManager::map: what is kept for an ip
    peers,   \* PeersManager::table, the latest peer last
    cached,  \* addresses in the routing table's node cache
    out,     \* what the last handler answered or reported
    given,   \* history: the tokens an ip was given since it last announced
    pledge,  \* history: those of them whose ten minutes are not over
    recent   \* history: everyone listed for an info hash, the latest last

vars == <<crawl, tokens, peers, cached, out, given, pledge, recent>>

Port == 0 .. UInt16 - 1

Endpoint == [ip : Ip, port : Port]

Sender == [ip : Ip, port : SendPort]

\* No entry for an ip, or a token and whether its ten minutes are over.
NoEntry == [state |-> "none"]
Entry   == [state : {"fresh", "old"}, tok : Token]

Silence == [kind |-> "silence"]

Event ==
    {Silence}
    \cup [kind : {"given"}, ip : Ip, tok : Token, h : InfoHash,
          values : Seq(Endpoint)]
    \cup [kind : {"refused"}, ip : Ip, tok : Token]
    \cup [kind : {"heard"}, peer : Endpoint, tok : Token, h : InfoHash,
          from : Sender, named : Int, implied : BOOLEAN]

TypeOK ==
    /\ crawl \in BOOLEAN
    /\ tokens \in [Ip -> {NoEntry} \cup Entry]
    /\ peers \in [InfoHash -> Seq(Endpoint)]
    /\ \A h \in InfoHash : Len(peers[h]) <= PeersKept
    /\ cached \subseteq Sender
    /\ out \in Event
    /\ given \in [Ip -> SUBSET Token]
    /\ pledge \in [Ip -> SUBSET Token]
    /\ recent \in [InfoHash -> Seq(Endpoint)]

Init ==
    /\ crawl \in BOOLEAN
    /\ tokens = [i \in Ip |-> NoEntry]
    /\ peers = [h \in InfoHash |-> <<>>]
    /\ cached = {}
    /\ out = Silence
    /\ given = [i \in Ip |-> {}]
    /\ pledge = [i \in Ip |-> {}]
    /\ recent = [h \in InfoHash |-> <<>>]

-----------------------------------------------------------------------------
(* The peers of an info hash. *)

Has(s, p) == \E i \in DOMAIN s : s[i] = p

\* The list without its first p.
Drop(s, p) ==
    LET i == CHOOSE i \in DOMAIN s : s[i] = p /\ \A j \in 1 .. i - 1 : s[j] # p
    IN  IF Has(s, p) THEN SubSeq(s, 1, i - 1) \o SubSeq(s, i + 1, Len(s)) ELSE s

\* The last n of a list.
Latest(s, n) == SubSeq(s, (IF Len(s) > n THEN Len(s) - n ELSE 0) + 1, Len(s))

MoveToBack(s, p) == Append(Drop(s, p), p)

\* Mutant: nobody is dropped from a list that is too long.
RefreshedUncut(s, p) == MoveToBack(s, p)

\* Mutant: a peer that comes again is listed again.
RefreshedTwice(s, p) == Latest(Append(s, p), PeersKept)

\* The update in PeersManager::insert: a peer that is listed already becomes
\* the latest, and the first of too many goes.
Refreshed(s, p) == Latest(MoveToBack(s, p), PeersKept)

\* The keys of the table.  An info hash it holds has a peer.
Tracked == {h \in InfoHash : peers[h] # <<>>}

\* Mutant: a full table refuses the info hashes it holds, too.
FullRefusesAll(h) == Cardinality(Tracked) < MaxInfoHashes

\* The guard of PeersManager::insert: a full table takes no new info hash.
Takes(h) == Cardinality(Tracked) < MaxInfoHashes \/ h \in Tracked

\* PeersManager::insert
InsertPeer(h, p) ==
    /\ peers' = IF Takes(h) THEN [peers EXCEPT ![h] = Refreshed(@, p)] ELSE peers
    /\ recent' = IF Takes(h) THEN [recent EXCEPT ![h] = MoveToBack(@, p)] ELSE recent

\* PeersManager::get, asked for k peers
Listed(h) == Latest(peers[h], PeersKept)

-----------------------------------------------------------------------------
(* Helpers of the handlers. *)

\* Node of the sender; at max_nodes nothing is inserted.
TableInsert(e) ==
    cached' = IF Cardinality(cached) < MaxNodes THEN cached \cup {e} ELSE cached

\* `n as i32', then 0 if that is negative, else `as u16'.
PortOf(n) ==
    LET i == ((n + Int32 \div 2) % Int32) - (Int32 \div 2)
    IN  IF i < 0 THEN 0 ELSE i % UInt16

\* Mutant: the token stays after it was compared.
TakeKept(i) == tokens' = tokens

\* TokenManager::check removes the entry it compares, right or wrong.
Take(i) == tokens' = [tokens EXCEPT ![i] = NoEntry]

\* What TokenManager::check answers: it does not ask how old the token is.
Matches(i, t) == tokens[i] # NoEntry /\ tokens[i].tok = t

\* Mutant: every get_peers makes a new token.
GivesNew(i, t) == t \in Token

\* The tokens TokenManager::token may return: the one it keeps while that is
\* fresh, else a new one.
Gives(i, t) == tokens[i].state = "fresh" => t = tokens[i].tok

-----------------------------------------------------------------------------
(* Requests. *)

\* find_node: answered in Standard mode only; a bad target ends it there.
FindNode ==
    /\ \E e \in Sender, good \in BOOLEAN :
        /\ crawl \/ good
        /\ TableInsert(e)
    /\ out' = Silence
    /\ UNCHANGED <<crawl, tokens, peers, given, pledge, recent>>

\* get_peers: the answer has a token, and in Standard mode the peers known.
GetPeers ==
    /\ \E e \in Sender, h \in InfoHash, t \in Token :
        /\ Gives(e.ip, t)
        /\ tokens' = [tokens EXCEPT ![e.ip] = [state |-> "fresh", tok |-> t]]
        /\ given' = [given EXCEPT ![e.ip] = @ \cup {t}]
        /\ pledge' = [pledge EXCEPT ![e.ip] = @ \cup {t}]
        /\ out' = [kind |-> "given", ip |-> e.ip, tok |-> t, h |-> h,
                   values |-> IF crawl THEN <<>> ELSE Listed(h)]
        /\ TableInsert(e)
    /\ UNCHANGED <<crawl, peers, recent>>

\* The peer an announce is about.
Announced(e, n, implied) ==
    [ip |-> e.ip, port |-> IF implied THEN e.port ELSE PortOf(n)]

\* announce_peer of h from e with token t.  A token that does not match ends
\* the handler, and so does, once the token is taken, a bad info hash.
Announce(e, h, t, n, implied) ==
    /\ Take(e.ip)
    /\ given' = [given EXCEPT ![e.ip] = {}]
    /\ pledge' = [pledge EXCEPT ![e.ip] = {}]
    /\ \/ /\ ~ Matches(e.ip, t)
          /\ out' = [kind |-> "refused", ip |-> e.ip, tok |-> t]
          /\ UNCHANGED <<peers, recent, cached>>
       \/ /\ Matches(e.ip, t)
          /\ h = NoHash
          /\ out' = Silence
          /\ UNCHANGED <<peers, recent, cached>>
       \/ /\ Matches(e.ip, t)
          /\ h # NoHash
          /\ out' = [kind |-> "heard", peer |-> Announced(e, n, implied), tok |-> t,
                     h |-> h, from |-> e, named |-> n, implied |-> implied]
          /\ IF crawl THEN UNCHANGED <<peers, recent>>
                      ELSE InsertPeer(h, Announced(e, n, implied))
          /\ TableInsert(e)
    /\ UNCHANGED crawl

AnnouncePeer ==
    \E e \in Sender, h \in InfoHash \cup {NoHash}, t \in Token,
       n \in NamedPort, implied \in BOOLEAN : Announce(e, h, t, n, implied)

\* A peer of an answer to the node's own get_peers, which handle_response
\* lists in both modes; an answer with several is as many of these steps.
Learn ==
    /\ \E h \in InfoHash, p \in Sender : InsertPeer(h, p)
    /\ out' = Silence
    /\ UNCHANGED <<crawl, tokens, cached, given, pledge>>

-----------------------------------------------------------------------------
(* Time. *)

Aged(m, i) == [m EXCEPT ![i] = [@ EXCEPT !.state = "old"]]

\* The ten minutes of a token run out.
Expire ==
    /\ \E i \in Ip :
        /\ tokens[i].state = "fresh"
        /\ tokens' = Aged(tokens, i)
        /\ pledge' = [pledge EXCEPT ![i] = {}]
    /\ out' = Silence
    /\ UNCHANGED <<crawl, peers, cached, given, recent>>

\* The entries clear_expired removes.
Swept(i) == tokens[i].state = "old"

\* A tick with nodes in the table: clear_expired, and whatever else it does
\* to the table.  With an empty table a tick cleans nothing.
Tick ==
    /\ cached # {}
    /\ tokens' = [i \in Ip |-> IF Swept(i) THEN NoEntry ELSE tokens[i]]
    /\ \E keep \in SUBSET cached : cached' = keep
    /\ out' = Silence
    /\ UNCHANGED <<crawl, peers, given, pledge, recent>>

Next == FindNode \/ GetPeers \/ AnnouncePeer \/ Learn \/ Expire \/ Tick

Spec == Init /\ [][Next]_vars

-----------------------------------------------------------------------------
(* Properties. *)

\* An announce is reported, and stored, only with a token its ip was given
\* since it last announced: one get_peers earns at most one announce, however
\* tokens are kept, expire and are swept.  The port reported is the sender's
\* when the announce says so, else the one it names if that is a port.
AnnounceEarned ==
    [][out'.kind = "heard" =>
          /\ out'.tok \in given[out'.from.ip]
          /\ given'[out'.from.ip] = {}
          /\ out'.peer.ip = out'.from.ip
          /\ out'.implied => out'.peer.port = out'.from.port
          /\ ~ out'.implied /\ out'.named \in Port => out'.peer.port = out'.named]_vars

\* A token given to an ip is honoured until it is ten minutes old or the ip
\* has announced: asking again, other ips and the cleaning in between do not
\* replace it.
PledgeKept ==
    [][out'.kind = "refused" => out'.tok \notin pledge[out'.ip]]_vars

\* A get_peers in Standard mode is answered with the last PeersKept peers that
\* were listed for the info hash, the latest last and none of them twice: the
\* bounded lists lose only who was listed longest ago.  A peer that came for a new
\* info hash when MAX_INFOHASHES were known was never listed.
AnswersLatest ==
    out.kind = "given" /\ ~ crawl => out.values = Latest(recent[out.h], PeersKept)

\* A full table takes no new info hash but goes on serving those it has.
KeepsServingTracked ==
    [][out'.kind = "heard" /\ ~ crawl =>
          \/ out'.h \in Tracked' /\ peers'[out'.h][Len(peers'[out'.h])] = out'.peer
          \/ out'.h \notin Tracked /\ ~ (Cardinality(Tracked) < MaxInfoHashes)]_vars
=============================================================================
