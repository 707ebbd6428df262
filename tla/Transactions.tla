---------------------------- MODULE Transactions ----------------------------
(***************************************************************************)
(* TransactionManager (src/transaction.rs): the table of the queries this  *)
(* node has sent and still waits for.                                      *)
(*                                                                         *)
(* A transaction is found by its id, or through an index by query kind and *)
(* address.  Two facts about the code shape everything built on top of it: *)
(* concluding a transaction leaves its index entry behind, and inserting   *)
(* into a full table is refused in silence.                                *)
(*                                                                         *)
(* Abstractions.  An id is the counter value it is printed from: int2bytes *)
(* is injective, and the counter wraps at u64::MAX / 2 (MaxCursor bounds   *)
(* it).  An age is a number of whole timeouts (10 s) since the query was   *)
(* last sent, counted only as far as the scan can tell ages apart.         *)
(* info_hash is NoHash for ping and find_node; `announce' says whether     *)
(* announce_port is set.  The two mutexes are not modelled: the manager is *)
(* private to the one task that runs the event loop.                       *)
(***************************************************************************)
EXTENDS Integers, FiniteSets, Functions

CONSTANTS
    Addr,             \* socket addresses of remote nodes
    InfoHash,         \* info hashes somebody asks for
    NoHash,           \* "no info hash"
    MaxTransactions,  \* MAX_TRANSACTIONS (10000 in the code)
    MaxRetries,       \* Config::try_times (2 by default)
    MaxCursor         \* bound: how many ids a behaviour may generate

ASSUME NoHashAssumption == NoHash \notin InfoHash
ASSUME BoundsAssumption ==
    /\ MaxTransactions \in Nat \ {0}
    /\ MaxRetries \in 0 .. 255
    /\ MaxCursor \in Nat

VARIABLES
    cursor,  \* the id the next transaction gets
    txs,     \* id -> transaction, for the transactions still open
    index    \* <<query kind, address>> -> the id last inserted for it

tvars == <<cursor, txs, index>>

QType == {"ping", "find_node", "get_peers", "announce_peer"}

Tid == 0 .. MaxCursor - 1

Transaction ==
    [addr : Addr, qtype : QType, ih : InfoHash \cup {NoHash},
     announce : BOOLEAN, age : Nat, retries : Nat]

TransactionsTypeOK ==
    /\ cursor \in 0 .. MaxCursor
    /\ txs \in [DOMAIN txs -> Transaction]
    /\ DOMAIN txs \subseteq 0 .. cursor - 1
    /\ index \in [DOMAIN index -> 0 .. cursor - 1]
    /\ DOMAIN index \subseteq QType \X Addr

-----------------------------------------------------------------------------

Live == DOMAIN txs

\* How many more ids this behaviour may generate.
Budget == MaxCursor - cursor

\* Mutant: an index keyed by the address alone.
IndexKeyByAddress(q, a) == <<"ping", a>>

\* gen_index_key
IndexKey(q, a) == <<q, a>>

\* get_by_index: the index entry counts only while its transaction is open.
InFlight(q, a) ==
    /\ IndexKey(q, a) \in DOMAIN index
    /\ index[IndexKey(q, a)] \in Live

\* HashMap::insert
Put(map, key, value) ==
    [k \in DOMAIN map \cup {key} |-> IF k = key THEN value ELSE map[k]]

NewTransaction(q, a, h, announcing) ==
    [addr |-> a, qtype |-> q, ih |-> h, announce |-> announcing,
     age |-> 0, retries |-> 0]

\* Mutant: one transaction too many.
FullLate == Cardinality(Live) > MaxTransactions

Full == Cardinality(Live) >= MaxTransactions

\* Mutant: the counter is read but not advanced.
IssueStaleId(q, a, h, announcing) ==
    /\ Budget > 0
    /\ txs' = Put(txs, cursor, NewTransaction(q, a, h, announcing))
    /\ UNCHANGED <<cursor, index>>

\* gen_id, and insert with its refusal of a full table.  Every call site
\* generates the id and inserts at once, and ignores what insert returns.
Issue(q, a, h, announcing) ==
    /\ Budget > 0
    /\ cursor' = cursor + 1
    /\ IF Full
       THEN UNCHANGED <<txs, index>>
       ELSE /\ txs' = Put(txs, cursor, NewTransaction(q, a, h, announcing))
            /\ index' = Put(index, IndexKey(q, a), cursor)

\* finish_by_trans_id: nothing happens to an id that is not open, and the
\* index keeps its entry.
Finish(t) ==
    /\ txs' = Restrict(txs, Live \ {t})
    /\ UNCHANGED <<cursor, index>>

\* The multiple of the timeout a transaction waits: 1u32 << retries, and the
\* largest u32 once the shift would leave the word.
Factor(r) == IF r >= 31 THEN 2^32 - 1 ELSE 2^r

Due(t) == txs[t].age >= Factor(txs[t].retries)

\* Mutants: no regard to the retries left; one retry too many before giving up.
ToRemoveAllDue == {t \in Live : Due(t)}
ToRemoveLate == {t \in Live : Due(t) /\ txs[t].retries > MaxRetries}

\* scan_timeouts: the due transactions with no retry left, and the others.
ToRemove == {t \in Live : Due(t) /\ txs[t].retries >= MaxRetries}
ToRetry  == {t \in Live : Due(t) /\ txs[t].retries <  MaxRetries}

\* Also a mutant of what follows: the clock runs on.
Retried(tx) == [tx EXCEPT !.retries = @ + 1]

\* mark_retry counts the retry and restarts the clock.
Resent(tx) == [Retried(tx) EXCEPT !.age = 0]

\* mark_retry is called for each member of T.
MarkRetry(T) ==
    /\ txs' = [t \in Live |-> IF t \in T THEN Resent(txs[t]) ELSE txs[t]]
    /\ UNCHANGED <<cursor, index>>

Older(tx) == [tx EXCEPT !.age = @ + 1]

\* One timeout period goes by.  An age stops where the transaction is due.
Elapse ==
    /\ \E t \in Live : ~ Due(t)
    /\ txs' = [t \in Live |-> IF Due(t) THEN txs[t] ELSE Older(txs[t])]
    /\ UNCHANGED <<cursor, index>>

-----------------------------------------------------------------------------
(* Properties. *)

\* The query kinds whose every call site in dht.rs first looks for one in
\* flight.
GuardedKinds == {"ping", "get_peers"}

\* The index finds every open transaction of a guarded kind, although entries of
\* concluded transactions are left in it and those of refused ones never get in:
\* a guard that asks get_by_index cannot miss an open one.
IndexPrecise ==
    \A t \in Live :
        txs[t].qtype \in GuardedKinds =>
            /\ IndexKey(txs[t].qtype, txs[t].addr) \in DOMAIN index
            /\ index[IndexKey(txs[t].qtype, txs[t].addr)] = t
=============================================================================
