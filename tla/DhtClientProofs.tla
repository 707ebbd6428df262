-------------------------- MODULE DhtClientProofs --------------------------
(***************************************************************************)
(* Theorems about the event loop, for every value of the constants.        *)
(*                                                                         *)
(* The type invariant is inductive together with IndexPrecise: the guard   *)
(* InFlight is what keeps the index precise, and a precise index is what   *)
(* makes the guard exclude a second query.                                 *)
(***************************************************************************)
EXTENDS DhtClient, FiniteSetTheorems, TLAPS

(* What each operation of the TransactionManager preserves; the lemmas are
   cited once for every step of the event loop that uses the operation. *)

\* A new transaction keeps the types and the index precise, provided that a
\* guarded kind was found not to be in flight (gen_id and insert).
LEMMA IssueStep ==
    ASSUME TransactionsTypeOK, IndexPrecise,
           NEW q \in QType, NEW a \in Addr, NEW h \in InfoHash \cup {NoHash},
           NEW ann \in BOOLEAN,
           q \in GuardedKinds => ~ InFlight(q, a),
           Issue(q, a, h, ann)
    PROVE  TransactionsTypeOK' /\ IndexPrecise'
<1> DEFINE new == NewTransaction(q, a, h, ann)
<1>1. new \in Transaction
  BY DEF NewTransaction, Transaction
<1>2. /\ cursor \in Nat /\ cursor' = cursor + 1
      /\ cursor' \in 0 .. MaxCursor
  BY BoundsAssumption DEF TransactionsTypeOK, Issue, Budget
<1>3. CASE Full
  <2>1. UNCHANGED <<txs, index>>
    BY <1>3 DEF Issue
  <2> QED
    BY <1>2, <2>1 DEF TransactionsTypeOK, IndexPrecise, Live
<1>4. CASE ~ Full
  <2>1. /\ txs' = Put(txs, cursor, new)
        /\ index' = Put(index, IndexKey(q, a), cursor)
    BY <1>4 DEF Issue
  <2>2. /\ DOMAIN txs' = Live \cup {cursor}
        /\ txs'[cursor] = new
        /\ \A t \in Live : t # cursor /\ txs'[t] = txs[t]
    BY <1>2, <2>1 DEF Put, Live, TransactionsTypeOK
  <2>3. /\ DOMAIN index' = DOMAIN index \cup {IndexKey(q, a)}
        /\ index'[IndexKey(q, a)] = cursor
        /\ \A k \in DOMAIN index : k # IndexKey(q, a) => index'[k] = index[k]
    BY <2>1 DEF Put
  <2>4. TransactionsTypeOK'
    <3>1. txs' \in [DOMAIN txs' -> Transaction]
      BY <1>1, <2>1, <2>2 DEF Put, TransactionsTypeOK, Live
    <3>2. DOMAIN txs' \subseteq 0 .. cursor' - 1
      BY <1>2, <2>2 DEF TransactionsTypeOK, Live
    <3>3. index' \in [DOMAIN index' -> 0 .. cursor' - 1]
      BY <1>2, <2>1, <2>3 DEF Put, TransactionsTypeOK
    <3>4. DOMAIN index' \subseteq QType \X Addr
      BY <2>3 DEF IndexKey, TransactionsTypeOK
    <3> QED
      BY <1>2, <3>1, <3>2, <3>3, <3>4 DEF TransactionsTypeOK
  <2>5. IndexPrecise'
    <3> SUFFICES ASSUME NEW t \in DOMAIN txs', txs'[t].qtype \in GuardedKinds
                 PROVE  LET k == IndexKey(txs'[t].qtype, txs'[t].addr)
                        IN  k \in DOMAIN index' /\ index'[k] = t
      BY DEF IndexPrecise, Live, IndexKey
    <3>1. CASE t = cursor
      BY <3>1, <2>2, <2>3 DEF NewTransaction
    <3>2. CASE t \in Live
      <4> DEFINE k == IndexKey(txs[t].qtype, txs[t].addr)
      <4>1. k \in DOMAIN index /\ index[k] = t
        BY <3>2, <2>2 DEF IndexPrecise
      <4>2. k # IndexKey(q, a)
        <5> SUFFICES ASSUME k = IndexKey(q, a) PROVE FALSE
          OBVIOUS
        <5>1. q \in GuardedKinds
          BY <3>2, <2>2 DEF IndexKey
        <5> QED
          BY <3>2, <4>1, <5>1 DEF InFlight
      <4> QED
        BY <3>2, <2>2, <2>3, <4>1, <4>2
    <3> QED
      BY <2>2, <3>1, <3>2
  <2> QED
    BY <2>4, <2>5
<1> QED
  BY <1>3, <1>4

\* Concluding a transaction leaves its index entry behind, and that is harmless.
LEMMA FinishStep ==
    ASSUME TransactionsTypeOK, IndexPrecise, NEW t, Finish(t)
    PROVE  TransactionsTypeOK' /\ IndexPrecise'
<1>1. /\ DOMAIN txs' = Live \ {t}
      /\ \A s \in DOMAIN txs' : txs'[s] = txs[s]
      /\ txs' = [s \in DOMAIN txs' |-> txs'[s]]
  BY DEF Finish, Restrict, Live
<1>2. UNCHANGED <<cursor, index>>
  BY DEF Finish
<1> QED
  BY <1>1, <1>2 DEF TransactionsTypeOK, IndexPrecise, Live, IndexKey

\* Sending a query again, and its growing older, leave it the query it was.
LEMMA SameQuery ==
    ASSUME NEW tx \in Transaction
    PROVE  \A new \in {Resent(tx), Older(tx)} :
               /\ new \in Transaction
               /\ new.qtype = tx.qtype
               /\ new.addr = tx.addr
<1>1. /\ Older(tx) \in Transaction
      /\ Older(tx).qtype = tx.qtype
      /\ Older(tx).addr = tx.addr
  BY DEF Transaction, Older
<1>2. /\ Resent(tx) \in Transaction
      /\ Resent(tx).qtype = tx.qtype
      /\ Resent(tx).addr = tx.addr
  <2>1. /\ Retried(tx) \in Transaction
        /\ Retried(tx).qtype = tx.qtype
        /\ Retried(tx).addr = tx.addr
    BY DEF Transaction, Retried
  <2> QED
    BY <2>1 DEF Transaction, Resent
<1> QED
  BY <1>1, <1>2

\* A retry changes how often and how long ago the query was sent, nothing else.
LEMMA MarkRetryStep ==
    ASSUME TransactionsTypeOK, IndexPrecise, NEW T, MarkRetry(T)
    PROVE  TransactionsTypeOK' /\ IndexPrecise'
<1>1. /\ DOMAIN txs' = Live
      /\ \A t \in Live : /\ txs'[t] \in Transaction
                         /\ txs'[t].qtype = txs[t].qtype
                         /\ txs'[t].addr = txs[t].addr
      /\ txs' = [t \in Live |-> txs'[t]]
  BY SameQuery DEF MarkRetry, Live, TransactionsTypeOK
<1>2. UNCHANGED <<cursor, index>>
  BY DEF MarkRetry
<1> QED
  BY <1>1, <1>2 DEF TransactionsTypeOK, IndexPrecise, Live, IndexKey

\* Nor does the passing of time.
LEMMA ElapseStep ==
    ASSUME TransactionsTypeOK, IndexPrecise, Elapse
    PROVE  TransactionsTypeOK' /\ IndexPrecise'
<1>1. /\ DOMAIN txs' = Live
      /\ \A t \in Live : /\ txs'[t] \in Transaction
                         /\ txs'[t].qtype = txs[t].qtype
                         /\ txs'[t].addr = txs[t].addr
      /\ txs' = [t \in Live |-> txs'[t]]
  BY SameQuery DEF Elapse, Live, TransactionsTypeOK
<1>2. UNCHANGED <<cursor, index>>
  BY DEF Elapse
<1> QED
  BY <1>1, <1>2 DEF TransactionsTypeOK, IndexPrecise, Live, IndexKey

-----------------------------------------------------------------------------
(* The event loop. *)

IInv == TypeOK /\ IndexPrecise

\* The transactions' part of IInv survives a step that leaves them alone.
LEMMA TransactionsStutter ==
    ASSUME TransactionsTypeOK, IndexPrecise, UNCHANGED tvars
    PROVE  TransactionsTypeOK' /\ IndexPrecise'
BY DEF tvars, TransactionsTypeOK, IndexPrecise, Live, IndexKey

\* An unguarded kind needs no look at the index.
LEMMA IssueFindNode ==
    ASSUME TransactionsTypeOK, IndexPrecise, NEW a \in Addr,
           Issue("find_node", a, NoHash, FALSE)
    PROVE  TransactionsTypeOK' /\ IndexPrecise'
<1>1. "find_node" \in QType /\ "find_node" \notin GuardedKinds
  BY DEF QType, GuardedKinds
<1> QED
  BY <1>1, IssueStep

LEMMA InitIInv == Init => IInv
<1> SUFFICES ASSUME Init PROVE IInv
  OBVIOUS
<1>1. TransactionsTypeOK /\ IndexPrecise
  BY BoundsAssumption DEF Init, TransactionsTypeOK, IndexPrecise, Live
<1>2. cur \in Work
  BY BoundsAssumption DEF Init, NoWork, Work
<1> QED
  BY <1>1, <1>2 DEF Init, IInv, TypeOK, Step

\* Each step of the loop preserves IInv.
LEMMA NextIInv == IInv /\ [Next]_vars => IInv'
<1> SUFFICES ASSUME IInv, [Next]_vars PROVE IInv'
  OBVIOUS
<1> USE DEF IInv
<1> DEFINE Txs == TransactionsTypeOK' /\ IndexPrecise'
           Table == cached' \subseteq Addr /\ seen' \subseteq Addr
                    /\ black' \in [Addr -> {"none", "live", "expired"}]
           Locals == pc' \in Step /\ todo' \subseteq Addr /\ gone' \subseteq Nat
                     /\ cur' \in Work
<1>0. NoWork \in Work
  BY BoundsAssumption DEF NoWork, Work
<1>1. CASE TickJoin
  <2>1. Txs
    BY <1>1, TransactionsStutter DEF TickJoin, TypeOK
  <2>2. Table /\ Locals
    BY <1>1, PrimeAssumption DEF TickJoin, Goto, lvars, TypeOK, Step
  <2> QED
    BY <2>1, <2>2 DEF TypeOK
<1>2. CASE JoinOne
  <2>1. Txs
    BY <1>2, IssueFindNode DEF JoinOne, TypeOK
  <2>2. Table /\ Locals
    BY <1>2 DEF JoinOne, NextDestination, lvars, TypeOK
  <2> QED
    BY <2>1, <2>2 DEF TypeOK
<1>3. CASE JoinEnd
  <2>1. Txs
    BY <1>3, TransactionsStutter DEF JoinEnd, TypeOK
  <2>2. Table /\ Locals
    BY <1>0, <1>3 DEF JoinEnd, Return, lvars, TypeOK, Step
  <2> QED
    BY <2>1, <2>2 DEF TypeOK
<1>4. CASE TickScan
  <2>1. Txs
    BY <1>4, MarkRetryStep DEF TickScan, TypeOK
  <2>2. ToRemove \subseteq Nat
    BY DEF ToRemove, Live, TypeOK, TransactionsTypeOK
  <2>3. Table /\ Locals
    BY <1>4, <2>2 DEF TickScan, lvars, TypeOK, Step
  <2> QED
    BY <2>1, <2>3 DEF TypeOK
<1>5. CASE GiveUp
  <2>1. Txs
    BY <1>5, FinishStep DEF GiveUp, TypeOK
  <2>2. Table
    BY <1>5 DEF GiveUp, BlackInsert, TypeOK
  <2>3. Locals
    BY <1>5 DEF GiveUp, TypeOK
  <2> QED
    BY <2>1, <2>2, <2>3 DEF TypeOK
<1>6. CASE TickRefresh
  <2>1. Txs
    BY <1>6, TransactionsStutter DEF TickRefresh, TypeOK
  <2>2. cur' \in Work
    BY <1>6 DEF TickRefresh, TypeOK, Work
  <2>3. Table /\ Locals
    BY <1>6, <2>2 DEF TickRefresh, lvars, TypeOK, Step
  <2> QED
    BY <2>1, <2>3 DEF TypeOK
<1>7. CASE RefreshOne
  <2>1. Txs
    BY <1>7, IssueFindNode DEF RefreshOne, TypeOK
  <2>2. Table /\ Locals
    BY <1>7 DEF RefreshOne, NextDestination, lvars, TypeOK
  <2> QED
    BY <2>1, <2>2 DEF TypeOK
<1>8. CASE TickExpired
  <2>1. Txs
    BY <1>8, TransactionsStutter DEF TickExpired, TypeOK
  <2>2. Table /\ Locals
    BY <1>8 DEF TickExpired, Goto, TypeOK, Step
  <2> QED
    BY <2>1, <2>2 DEF TypeOK
<1>9. CASE PingOne
  <2>1. Txs
    <3>1. PICK a \in todo : IF InFlight("ping", a)
                            THEN UNCHANGED tvars
                            ELSE Issue("ping", a, NoHash, FALSE)
      BY <1>9 DEF PingOne
    <3>2. "ping" \in QType /\ a \in Addr
      BY DEF QType, TypeOK
    <3> QED
      BY <3>1, <3>2, IssueStep, TransactionsStutter DEF TypeOK
  <2>2. Table /\ Locals
    BY <1>9 DEF PingOne, lvars, TypeOK
  <2> QED
    BY <2>1, <2>2 DEF TypeOK
<1>10. CASE TickClean
  <2>1. Txs
    BY <1>10, TransactionsStutter DEF TickClean, TypeOK
  <2>2. Table /\ Locals
    BY <1>0, <1>10 DEF TickClean, Return, TypeOK, Step
  <2> QED
    BY <2>1, <2>2 DEF TypeOK
<1>11. CASE Command
  <2>1. Txs
    BY <1>11, TransactionsStutter DEF Command, TypeOK
  <2>2. cur' \in Work
    BY <1>0, <1>11 DEF Command, Work
  <2>3. Table /\ Locals
    BY <1>11, <2>2 DEF Command, lvars, TypeOK, Step
  <2> QED
    BY <2>1, <2>3 DEF TypeOK
<1>12. CASE QueryOne
  <2>1. Txs
    <3>1. PICK a \in todo : IF InFlight("get_peers", a)
                            THEN UNCHANGED tvars
                            ELSE Issue("get_peers", a, cur.ih, cur.announce)
      BY <1>12 DEF QueryOne
    <3>2. /\ "get_peers" \in QType /\ a \in Addr
          /\ cur.ih \in InfoHash \cup {NoHash} /\ cur.announce \in BOOLEAN
      BY DEF QType, TypeOK, Work
    <3> QED
      BY <3>1, <3>2, IssueStep, TransactionsStutter DEF TypeOK
  <2>2. Table /\ Locals
    BY <1>12 DEF QueryOne, lvars, TypeOK
  <2> QED
    BY <2>1, <2>2 DEF TypeOK
<1>13. CASE QueryEnd
  <2>1. Txs
    BY <1>13, TransactionsStutter DEF QueryEnd, TypeOK
  <2>2. Table /\ Locals
    BY <1>0, <1>13 DEF QueryEnd, Return, lvars, TypeOK, Step
  <2> QED
    BY <2>1, <2>2 DEF TypeOK
<1>14. CASE Shutdown
  <2>1. Txs
    BY <1>14, TransactionsStutter DEF Shutdown, TypeOK
  <2>2. Table /\ Locals
    BY <1>14 DEF Shutdown, Goto, lvars, TypeOK, Step
  <2> QED
    BY <2>1, <2>2 DEF TypeOK
<1>15. CASE RecvResponse
  <2>1. Txs
    BY <1>15, TransactionsStutter DEF RecvResponse, TypeOK
  <2>2. cur' \in Work /\ todo' \subseteq Addr
    <3>1. PICK t \in 0 .. cursor, a \in Addr, nodes \in SUBSET Addr,
               values \in BOOLEAN, token \in BOOLEAN :
            /\ ~ Blocked(a)
            /\ Cardinality(nodes) + (IF token THEN 1 ELSE 0) <= Budget
            /\ t \in Live => txs[t].addr = a
            /\ cur' = [tid |-> t, peer |-> {a},
                       ih |-> IF t \in Live THEN txs[t].ih ELSE NoHash,
                       find |-> t \in Live /\ txs[t].qtype = "find_node",
                       announce |-> /\ t \in Live
                                    /\ txs[t].qtype = "get_peers"
                                    /\ txs[t].announce,
                       values |-> values, token |-> token, clear |-> {}]
            /\ todo' = nodes
      BY <1>15, ZenonT(30) DEF RecvResponse
    <3>2. t \in 0 .. MaxCursor
      BY BoundsAssumption DEF TypeOK, TransactionsTypeOK
    <3>3. t \in Live => /\ txs[t].ih \in InfoHash \cup {NoHash}
                        /\ txs[t].announce \in BOOLEAN
      BY DEF Live, TypeOK, TransactionsTypeOK, Transaction
    <3>4. (IF t \in Live THEN txs[t].ih ELSE NoHash) \in InfoHash \cup {NoHash}
      BY <3>3
    <3>5. /\ (t \in Live /\ txs[t].qtype = "find_node") \in BOOLEAN
          /\ (t \in Live /\ txs[t].qtype = "get_peers" /\ txs[t].announce) \in BOOLEAN
      BY <3>3
    <3> QED
      BY <3>1, <3>2, <3>4, <3>5 DEF Work
  <2>3. Table /\ Locals
    BY <1>15, <2>2 DEF RecvResponse, lvars, TypeOK, Step
  <2> QED
    BY <2>1, <2>3 DEF TypeOK
<1>16. CASE NodeOne
  <2>1. PICK a \in todo :
           /\ IF Blocked(a) \/ Cardinality(cached) >= MaxNodes
              THEN UNCHANGED <<tvars, cached, seen>>
              ELSE /\ TableInsert(a)
                   /\ IF cur.ih # NoHash /\ ~ InFlight("get_peers", a)
                      THEN Issue("get_peers", a, cur.ih, FALSE)
                      ELSE IF cur.find /\ ~ InFlight("find_node", a)
                      THEN Issue("find_node", a, NoHash, FALSE)
                      ELSE UNCHANGED tvars
           /\ todo' = todo \ {a}
    BY <1>16 DEF NodeOne
  <2>2. /\ "get_peers" \in QType /\ a \in Addr
        /\ cur.ih \in InfoHash \cup {NoHash}
    BY DEF QType, TypeOK, Work
  <2>3. Txs
    <3>1. CASE UNCHANGED tvars
      BY <3>1, TransactionsStutter DEF TypeOK
    <3>2. CASE ~ InFlight("get_peers", a) /\ Issue("get_peers", a, cur.ih, FALSE)
      BY <2>2, <3>2, IssueStep DEF TypeOK
    <3>3. CASE Issue("find_node", a, NoHash, FALSE)
      BY <2>2, <3>3, IssueFindNode DEF TypeOK
    <3> QED
      BY <2>1, <3>1, <3>2, <3>3
  <2>4. Table /\ Locals
    BY <1>16, <2>1, <2>2 DEF NodeOne, TableInsert, TypeOK
  <2> QED
    BY <2>3, <2>4 DEF TypeOK
<1>17. CASE NodesEnd
  <2>1. Txs
    BY <1>17, TransactionsStutter DEF NodesEnd, TypeOK
  <2>2. Table /\ Locals
    BY <1>17 DEF NodesEnd, Goto, lvars, TypeOK, Step
  <2> QED
    BY <2>1, <2>2 DEF TypeOK
<1>18. CASE Values
  <2>1. Txs
    BY <1>18, FinishStep, TransactionsStutter DEF Values, TypeOK
  <2>2. Table /\ Locals
    BY <1>18 DEF Values, Goto, lvars, TypeOK, Step
  <2> QED
    BY <2>1, <2>2 DEF TypeOK
<1>19. CASE Announce
  <2>1. Txs
    <3>1. CASE UNCHANGED tvars
      BY <3>1, TransactionsStutter DEF TypeOK
    <3>2. CASE \E a \in cur.peer : Issue("announce_peer", a, cur.ih, FALSE)
      <4>1. PICK a \in cur.peer : Issue("announce_peer", a, cur.ih, FALSE)
        BY <3>2
      <4>2. /\ "announce_peer" \in QType /\ "announce_peer" \notin GuardedKinds
            /\ a \in Addr /\ cur.ih \in InfoHash \cup {NoHash}
        BY DEF QType, GuardedKinds, TypeOK, Work
      <4> QED
        BY <4>1, <4>2, IssueStep DEF TypeOK
    <3> QED
      BY <1>19, <3>1, <3>2 DEF Announce
  <2>2. Table /\ Locals
    BY <1>19 DEF Announce, Goto, lvars, TypeOK, Step
  <2> QED
    BY <2>1, <2>2 DEF TypeOK
<1>20. CASE FinishAnswered
  <2>1. Txs
    BY <1>20, FinishStep, TransactionsStutter DEF FinishAnswered, TypeOK
  <2>2. Table /\ Locals
    BY <1>0, <1>20 DEF FinishAnswered, Return, lvars, TypeOK, Step
  <2> QED
    BY <2>1, <2>2 DEF TypeOK
<1>21. CASE RecvError
  <2>1. Txs
    BY <1>21, FinishStep DEF RecvError, TypeOK
  <2>2. Table /\ Locals
    BY <1>21 DEF RecvError, lvars, hvars, TypeOK
  <2> QED
    BY <2>1, <2>2 DEF TypeOK
<1>22. CASE RecvRequest
  <2>1. Txs
    BY <1>22, TransactionsStutter DEF RecvRequest, TypeOK
  <2>2. Table /\ Locals
    BY <1>22 DEF RecvRequest, TableInsert, hvars, TypeOK
  <2> QED
    BY <2>1, <2>2 DEF TypeOK
<1>23. CASE Pass
  <2>1. Txs
    BY <1>23, ElapseStep DEF Pass, TypeOK
  <2>2. Table /\ Locals
    BY <1>23 DEF Pass, lvars, hvars, TypeOK
  <2> QED
    BY <2>1, <2>2 DEF TypeOK
<1>24. CASE BlackExpire
  <2>1. Txs
    BY <1>24, TransactionsStutter DEF BlackExpire, TypeOK
  <2>2. Table /\ Locals
    BY <1>24 DEF BlackExpire, hvars, TypeOK
  <2> QED
    BY <2>1, <2>2 DEF TypeOK
<1>25. CASE UNCHANGED vars
  <2>1. UNCHANGED <<tvars, lvars, hvars>>
    BY <1>25 DEF vars, tvars, lvars, hvars
  <2>2. Txs
    BY <2>1, TransactionsStutter DEF TypeOK
  <2>3. Table /\ Locals
    BY <2>1 DEF lvars, hvars, TypeOK
  <2> QED
    BY <2>2, <2>3 DEF TypeOK
<1> QED
  BY <1>1, <1>2, <1>3, <1>4, <1>5, <1>6, <1>7, <1>8, <1>9, <1>10, <1>11,
     <1>12, <1>13, <1>14, <1>15, <1>16, <1>17, <1>18, <1>19, <1>20, <1>21,
     <1>22, <1>23, <1>24, <1>25
     DEF Next, Tick, Handler, Environment, Stopped

THEOREM Invariance == Spec => []IInv
<1>1. Init => IInv
  BY InitIInv
<1>2. IInv /\ [Next]_vars => IInv'
  BY NextIInv
<1> QED
  BY <1>1, <1>2, PTL DEF Spec

\* Every variable keeps its type, and every id its place below the cursor.
THEOREM TypeCorrect == Spec => []TypeOK
<1>1. IInv => TypeOK
  BY DEF IInv
<1> QED
  BY <1>1, Invariance, PTL

\* The index never misses an open ping or get_peers (TransactionManager::insert
\* and get_by_index, under every caller in dht.rs).
THEOREM IndexIsPrecise == Spec => []IndexPrecise
<1>1. IInv => IndexPrecise
  BY DEF IInv
<1> QED
  BY <1>1, Invariance, PTL

\* No address ever has two open pings or two open get_peers from this node.
THEOREM NoDuplicateQueries == Spec => []NoDuplicateQuery
<1>1. IndexPrecise => NoDuplicateQuery
  BY DEF IndexPrecise, NoDuplicateQuery, IndexKey
<1> QED
  BY <1>1, IndexIsPrecise, PTL
=============================================================================
