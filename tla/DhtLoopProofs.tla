--------------------------- MODULE DhtLoopProofs ---------------------------
(***************************************************************************)
(* The client's capacities, and three action properties of its loop, for   *)
(* every value of the constants.                                           *)
(*                                                                         *)
(* Each of the three tables is changed in few ways.  The first lemmas say  *)
(* which, whatever step the loop takes; the capacity proof then looks at   *)
(* those ways instead of at every action.                                  *)
(*                                                                         *)
(* The second part is about who is blacklisted and which answered          *)
(* transactions are concluded.  Both speak of the end of a handler and of  *)
(* what an earlier step of it saw, so their invariants carry that across   *)
(* the steps between.  The last part is the life of a transaction: how it  *)
(* is sent again, and that an id is never given twice.                     *)
(***************************************************************************)
EXTENDS DhtClientProofs

IssuesOne ==
    \E q, a, h, ann : Issue(q, a, h, ann) /\ (q = "find_node" => h = NoHash)

RetriesSome == \E T : MarkRetry(T) /\ T \subseteq ToRetry

LEMMA IssuesOneOf ==
    ASSUME NEW q, NEW a, NEW h, NEW ann, Issue(q, a, h, ann),
           q = "find_node" => h = NoHash
    PROVE  IssuesOne
BY DEF IssuesOne

\* A step leaves the transactions alone, issues one (a find_node without an
\* info hash), concludes one, retries some that have a retry left, or lets
\* them grow older.
LEMMA TransactionStep ==
    ASSUME [Next]_vars
    PROVE  \/ UNCHANGED tvars
           \/ IssuesOne
           \/ \E t : Finish(t)
           \/ RetriesSome
           \/ Elapse
<1>1. CASE Tick \/ Pass
  BY <1>1 DEF Tick, TickJoin, TickScan, Pass, RetriesSome, ToRetry
<1>2. CASE JoinOne \/ RefreshOne \/ PingOne \/ QueryOne \/ NodeOne
  <2>1. "get_peers" # "find_node" /\ "ping" # "find_node"
    OBVIOUS
  <2> QED
    BY <1>2, <2>1, IssuesOneOf DEF JoinOne, RefreshOne, PingOne, QueryOne, NodeOne
<1>3. CASE JoinEnd \/ TickRefresh \/ TickExpired \/ TickClean \/ QueryEnd \/ NodesEnd
  BY <1>3 DEF JoinEnd, TickRefresh, TickExpired, TickClean, QueryEnd, NodesEnd
<1>4. CASE GiveUp \/ Values \/ Announce \/ FinishAnswered
  <2>1. "announce_peer" # "find_node"
    OBVIOUS
  <2> QED
    BY <1>4, <2>1, IssuesOneOf DEF GiveUp, Values, Announce, FinishAnswered
<1>5. CASE Environment
  BY <1>5 DEF Environment, Command, Shutdown, RecvResponse, RecvError, RecvRequest
<1>6. CASE BlackExpire \/ Stopped \/ UNCHANGED vars
  BY <1>6 DEF BlackExpire, Stopped, vars, tvars
<1> QED
  BY <1>1, <1>2, <1>3, <1>4, <1>5, <1>6 DEF Next, Handler

\* A step only takes addresses out of the table, or adds one to a table that
\* has room.
LEMMA TableStep ==
    ASSUME [Next]_vars
    PROVE  \/ cached' \subseteq cached
           \/ /\ Cardinality(cached) < MaxNodes
              /\ \E a : cached' = cached \cup {a}
<1>1. CASE Tick \/ Pass \/ BlackExpire \/ Stopped \/ UNCHANGED vars
  BY <1>1 DEF Tick, TickJoin, TickScan, Pass, BlackExpire, Stopped, lvars, vars
<1>2. CASE JoinOne \/ JoinEnd \/ RefreshOne \/ PingOne \/ QueryOne \/ QueryEnd
  BY <1>2 DEF JoinOne, JoinEnd, RefreshOne, PingOne, QueryOne, QueryEnd, lvars
<1>3. CASE GiveUp \/ TickRefresh \/ TickExpired \/ TickClean
  BY <1>3 DEF GiveUp, TickRefresh, TickExpired, TickClean, lvars
<1>4. CASE NodeOne
  BY <1>4 DEF NodeOne, TableInsert
<1>5. CASE NodesEnd \/ Values \/ Announce \/ FinishAnswered
  BY <1>5 DEF NodesEnd, Values, Announce, FinishAnswered, lvars
<1>6. CASE Environment
  BY <1>6 DEF Environment, Command, Shutdown, RecvResponse, RecvError,
              RecvRequest, TableInsert, lvars
<1> QED
  BY <1>1, <1>2, <1>3, <1>4, <1>5, <1>6 DEF Next, Handler

\* A step only takes entries off the blacklist, or inserts one address.
LEMMA BlackStep ==
    ASSUME TypeOK, [Next]_vars
    PROVE  \/ Listed' \subseteq Listed
           \/ \E a : BlackInsert(a)
<1>1. CASE UNCHANGED black
  BY <1>1 DEF Listed
<1>2. CASE GiveUp
  BY <1>1, <1>2 DEF GiveUp, BlackInsert, Listed
<1>3. CASE TickClean
  BY <1>3 DEF TickClean, Listed, TypeOK
<1>4. CASE BlackExpire
  BY <1>4 DEF BlackExpire, Blocked, Listed, TypeOK
<1>5. CASE Tick \/ Environment \/ Pass \/ Stopped \/ UNCHANGED vars
  BY <1>1, <1>5 DEF Tick, TickJoin, TickScan, Environment, Command, Shutdown,
       RecvResponse, RecvError, RecvRequest, Pass, Stopped, lvars, vars
<1>6. CASE JoinOne \/ JoinEnd \/ TickRefresh \/ RefreshOne \/ TickExpired
  BY <1>1, <1>6 DEF JoinOne, JoinEnd, TickRefresh, RefreshOne, TickExpired, lvars
<1>7. CASE PingOne \/ QueryOne \/ QueryEnd
  BY <1>1, <1>7 DEF PingOne, QueryOne, QueryEnd, lvars
<1>8. CASE NodeOne \/ NodesEnd \/ Values \/ Announce \/ FinishAnswered
  BY <1>1, <1>8 DEF NodeOne, NodesEnd, Values, Announce, FinishAnswered, lvars
<1> QED
  BY <1>2, <1>3, <1>4, <1>5, <1>6, <1>7, <1>8 DEF Next, Handler

-----------------------------------------------------------------------------

\* Capacity is inductive once the two sets that types do not bound are finite.
CapacityInv ==
    /\ Capacity
    /\ IsFiniteSet(cached)
    /\ IsFiniteSet(Listed)

\* The open transactions are finitely many, their ids being below the cursor.
LEMMA LiveFinite == ASSUME TransactionsTypeOK PROVE IsFiniteSet(Live)
<1>1. cursor \in Nat /\ Live \subseteq 0 .. cursor - 1
  BY BoundsAssumption DEF TransactionsTypeOK, Live
<1> QED
  BY <1>1, FS_Interval, FS_Subset, cursor - 1 \in Int, 0 \in Int

\* A subset of a finite set is no larger than the set,
LEMMA FiniteShrink ==
    ASSUME NEW S, IsFiniteSet(S), NEW T, T \subseteq S
    PROVE  /\ IsFiniteSet(T) /\ Cardinality(T) \in Nat
           /\ Cardinality(T) <= Cardinality(S)
BY FS_Subset, FS_CardinalityType

\* and one that may hold one more element is larger by one at most.
LEMMA FiniteGrow ==
    ASSUME NEW S, IsFiniteSet(S), NEW x, NEW T, T \subseteq S \cup {x}
    PROVE  /\ IsFiniteSet(T) /\ Cardinality(T) \in Nat
           /\ Cardinality(T) <= Cardinality(S) + 1
<1>1. /\ IsFiniteSet(S \cup {x}) /\ Cardinality(S) \in Nat
      /\ Cardinality(S \cup {x}) \in Nat
      /\ Cardinality(S \cup {x}) <= Cardinality(S) + 1
  <2>1. /\ IsFiniteSet(S \cup {x})
        /\ Cardinality(S \cup {x}) = IF x \in S THEN Cardinality(S) ELSE Cardinality(S) + 1
    BY FS_AddElement
  <2>2. Cardinality(S) \in Nat /\ Cardinality(S \cup {x}) \in Nat
    BY <2>1, FS_CardinalityType
  <2> QED
    BY <2>1, <2>2
<1>2. /\ IsFiniteSet(T) /\ Cardinality(T) \in Nat
      /\ Cardinality(T) <= Cardinality(S \cup {x})
  BY <1>1, FiniteShrink
<1> QED
  BY <1>1, <1>2

LEMMA InitCapacity == Init => CapacityInv
<1> SUFFICES ASSUME Init PROVE CapacityInv
  OBVIOUS
<1>1. Live = {} /\ cached = {} /\ Listed = {}
  BY DEF Init, Live, Listed
<1> QED
  BY <1>1, FS_EmptySet, BoundsAssumption, SizesAssumption DEF CapacityInv, Capacity

LEMMA NextCapacity == IInv /\ CapacityInv /\ [Next]_vars => CapacityInv'
<1> SUFFICES ASSUME IInv, CapacityInv, [Next]_vars PROVE CapacityInv'
  OBVIOUS
<1>0. TransactionsTypeOK /\ TypeOK /\ IsFiniteSet(Live)
  BY LiveFinite DEF IInv, TypeOK
<1>1. Cardinality(Live') <= MaxTransactions
  <2>1. CASE IssuesOne
    <3>1. CASE Live' = Live
      BY <3>1 DEF CapacityInv, Capacity
    <3>2. CASE Live' = Live \cup {cursor} /\ ~ Full
      <4>1. Cardinality(Live) < MaxTransactions /\ Cardinality(Live) \in Nat
        BY <1>0, <3>2, FS_CardinalityType, BoundsAssumption DEF Full
      <4>2. Cardinality(Live') <= Cardinality(Live) + 1
        BY <1>0, <3>2, <4>1, FS_AddElement
      <4>3. Cardinality(Live') \in Nat
        BY <1>0, <3>2, FS_AddElement, FS_CardinalityType
      <4> QED
        BY <4>1, <4>2, <4>3, BoundsAssumption
    <3> QED
      BY <2>1, <3>1, <3>2 DEF IssuesOne, Issue, Put, Live
  <2>2. CASE Live' \subseteq Live
    <3>1. Cardinality(Live') <= Cardinality(Live)
      BY <1>0, <2>2, FS_Subset
    <3>2. Cardinality(Live') \in Nat /\ Cardinality(Live) \in Nat
      BY <1>0, <2>2, FS_Subset, FS_CardinalityType
    <3> QED
      BY <3>1, <3>2, BoundsAssumption DEF CapacityInv, Capacity
  <2>3. UNCHANGED tvars => Live' \subseteq Live
    BY DEF tvars, Live
  <2>4. (\E t : Finish(t)) => Live' \subseteq Live
    BY DEF Finish, Restrict, Live
  <2>5. RetriesSome \/ Elapse => Live' \subseteq Live
    BY DEF RetriesSome, MarkRetry, Elapse, Live
  <2> QED
    BY <2>1, <2>2, <2>3, <2>4, <2>5, TransactionStep
<1>2. Cardinality(cached') <= MaxNodes /\ IsFiniteSet(cached')
  <2>0. /\ IsFiniteSet(cached) /\ Cardinality(cached) \in Nat
        /\ Cardinality(cached) <= MaxNodes
    BY FS_CardinalityType DEF CapacityInv, Capacity
  <2>1. CASE cached' \subseteq cached
    <3>1. /\ IsFiniteSet(cached') /\ Cardinality(cached') \in Nat
          /\ Cardinality(cached') <= Cardinality(cached)
      BY <2>0, <2>1, FiniteShrink
    <3> QED
      BY <2>0, <3>1, SizesAssumption
  <2>2. CASE /\ Cardinality(cached) < MaxNodes
             /\ \E a : cached' = cached \cup {a}
    <3>1. /\ IsFiniteSet(cached') /\ Cardinality(cached') \in Nat
          /\ Cardinality(cached') <= Cardinality(cached) + 1
      BY <2>0, <2>2, FiniteGrow
    <3> QED
      BY <2>0, <2>2, <3>1, SizesAssumption
  <2> QED
    BY <2>1, <2>2, TableStep
<1>3. Cardinality(Listed') <= BlackMax /\ IsFiniteSet(Listed')
  <2>0. /\ IsFiniteSet(Listed) /\ Cardinality(Listed) \in Nat
        /\ Cardinality(Listed) <= BlackMax
    BY FS_CardinalityType DEF CapacityInv, Capacity
  <2>1. CASE Listed' \subseteq Listed
    <3>1. /\ IsFiniteSet(Listed') /\ Cardinality(Listed') \in Nat
          /\ Cardinality(Listed') <= Cardinality(Listed)
      BY <2>0, <2>1, FiniteShrink
    <3> QED
      BY <2>0, <3>1, SizesAssumption
  <2>2. CASE \E a : BlackInsert(a)
    <3>1. PICK a : BlackInsert(a)
      BY <2>2
    <3>2. CASE Cardinality(Listed) >= BlackMax
      BY <2>0, <3>1, <3>2 DEF BlackInsert, Listed
    <3>3. CASE ~ (Cardinality(Listed) >= BlackMax)
      <4>1. Listed' \subseteq Listed \cup {a}
        BY <1>0, <3>1, <3>3 DEF BlackInsert, Listed, TypeOK
      <4>2. /\ IsFiniteSet(Listed') /\ Cardinality(Listed') \in Nat
            /\ Cardinality(Listed') <= Cardinality(Listed) + 1
        BY <2>0, <4>1, FiniteGrow
      <4> QED
        BY <2>0, <3>3, <4>2, SizesAssumption
    <3> QED
      BY <3>2, <3>3
  <2> QED
    BY <1>0, <2>1, <2>2, BlackStep
<1>4. Capacity'
  BY <1>1, <1>2, <1>3 DEF Capacity
<1> QED
  BY <1>2, <1>3, <1>4 DEF CapacityInv

\* The transaction table, the routing table and the blacklist never outgrow
\* MAX_TRANSACTIONS, max_nodes and blacklist_max_size.
THEOREM CapacityHolds == Spec => []Capacity
<1>1. Init => CapacityInv
  BY InitCapacity
<1>2. IInv /\ CapacityInv /\ [Next]_vars => CapacityInv'
  BY NextCapacity
<1>3. CapacityInv => Capacity
  BY DEF CapacityInv
<1> QED
  BY <1>1, <1>2, <1>3, Invariance, PTL DEF Spec

-----------------------------------------------------------------------------
\* What the open transactions look like, whichever step created them.
OpenInv ==
    \A t \in Live : /\ txs[t].retries <= MaxRetries
                    /\ txs[t].qtype = "find_node" => txs[t].ih = NoHash

\* The result of the scan stays true while it is being worked off.
GoneInv ==
    pc = "giveup" =>
        \A t \in gone : t \in Live /\ Due(t) /\ txs[t].retries = MaxRetries

Answering == {"nodes", "values", "announce", "finish"}

\* What handle_response copied from the transaction stays true until it
\* returns: the id was issued before, and values have concluded it.
AnswerInv ==
    /\ pc \in Answering =>
        /\ cur.find => cur.ih = NoHash
        /\ cur.find \/ cur.announce \/ cur.ih # NoHash => cur.tid < cursor
    /\ pc \in {"announce", "finish"} /\ cur.values /\ cur.ih # NoHash =>
        cur.tid \notin Live

LEMMA SentAgain ==
    ASSUME NEW tx \in Transaction
    PROVE  /\ Older(tx).retries = tx.retries /\ Older(tx).ih = tx.ih
           /\ Resent(tx).retries = tx.retries + 1 /\ Resent(tx).ih = tx.ih
<1>1. Older(tx).retries = tx.retries /\ Older(tx).ih = tx.ih
  BY DEF Transaction, Older
<1>2. Retried(tx).retries = tx.retries + 1 /\ Retried(tx).ih = tx.ih
  BY DEF Transaction, Retried
<1>3. Retried(tx) \in Transaction
  BY DEF Transaction, Retried
<1>4. Resent(tx).retries = Retried(tx).retries /\ Resent(tx).ih = Retried(tx).ih
  BY <1>3 DEF Transaction, Resent
<1> QED
  BY <1>1, <1>2, <1>4

LEMMA NextOpen == IInv /\ OpenInv /\ [Next]_vars => OpenInv'
<1> SUFFICES ASSUME IInv, OpenInv, [Next]_vars PROVE OpenInv'
  OBVIOUS
<1>0. /\ \A t \in Live : txs[t] \in Transaction /\ txs[t].retries \in Nat
      /\ MaxRetries \in Nat
  BY BoundsAssumption DEF IInv, TypeOK, TransactionsTypeOK, Transaction, Live
<1>1. CASE UNCHANGED tvars
  BY <1>1 DEF tvars, OpenInv, Live
<1>2. CASE IssuesOne
  <2>1. PICK q, a, h, ann : Issue(q, a, h, ann) /\ (q = "find_node" => h = NoHash)
    BY <1>2 DEF IssuesOne
  <2>2. CASE UNCHANGED txs
    BY <2>2 DEF OpenInv, Live
  <2>3. CASE txs' = Put(txs, cursor, NewTransaction(q, a, h, ann))
    BY <1>0, <2>1, <2>3 DEF OpenInv, Live, Put, NewTransaction
  <2> QED
    BY <2>1, <2>2, <2>3 DEF Issue
<1>3. CASE \E t : Finish(t)
  BY <1>3 DEF Finish, Restrict, OpenInv, Live
<1>4. CASE RetriesSome
  <2>1. PICK T : MarkRetry(T) /\ T \subseteq ToRetry
    BY <1>4 DEF RetriesSome
  <2>2. DOMAIN txs' = Live
    BY <2>1 DEF MarkRetry
  <2>3. ASSUME NEW t \in Live
        PROVE  /\ txs'[t].retries <= MaxRetries
               /\ txs'[t].qtype = "find_node" => txs'[t].ih = NoHash
    <3>1. CASE t \in T
      <4>1. txs'[t] = Resent(txs[t]) /\ txs[t].retries < MaxRetries
        BY <2>1, <3>1 DEF MarkRetry, ToRetry
      <4>2. /\ txs'[t].retries = txs[t].retries + 1
            /\ txs'[t].ih = txs[t].ih /\ txs'[t].qtype = txs[t].qtype
        BY <1>0, <4>1, SentAgain, SameQuery
      <4> QED
        BY <1>0, <4>1, <4>2 DEF OpenInv
    <3>2. CASE t \notin T
      BY <2>1, <3>2 DEF MarkRetry, OpenInv
    <3> QED
      BY <3>1, <3>2
  <2> QED
    BY <2>2, <2>3 DEF OpenInv, Live
<1>5. CASE Elapse
  <2>1. /\ DOMAIN txs' = Live
        /\ \A t \in Live : txs'[t] = txs[t] \/ txs'[t] = Older(txs[t])
    BY <1>5 DEF Elapse
  <2>2. \A t \in Live : /\ txs'[t].retries = txs[t].retries
                        /\ txs'[t].ih = txs[t].ih
                        /\ txs'[t].qtype = txs[t].qtype
    BY <1>0, <2>1, SentAgain, SameQuery
  <2> QED
    BY <2>1, <2>2 DEF OpenInv, Live
<1> QED
  BY <1>1, <1>2, <1>3, <1>4, <1>5, TransactionStep

\* Where the loop can be after a step, seen from where it was.
LEMMA GiveUpSteps ==
    ASSUME [Next]_vars, pc' = "giveup"
    PROVE  TickScan \/ GiveUp \/ UNCHANGED vars
<1>1. Tick => TickScan
  BY DEF Tick, TickJoin, Goto
<1>2. Handler => GiveUp
  BY DEF Handler, JoinOne, JoinEnd, GiveUp, TickRefresh, RefreshOne, TickExpired,
         PingOne, TickClean, QueryOne, QueryEnd, NodeOne, NodesEnd, Values,
         Announce, FinishAnswered, NextDestination, Goto, Return
<1>3. ~ Environment
  BY DEF Environment, Command, Shutdown, RecvResponse, RecvError, RecvRequest,
         Goto, hvars
<1>4. ~ Pass /\ ~ BlackExpire
  BY DEF Pass, BlackExpire, hvars
<1> QED
  BY <1>1, <1>2, <1>3, <1>4 DEF Next, Stopped

LEMMA NextGone == IInv /\ OpenInv /\ GoneInv /\ [Next]_vars => GoneInv'
<1> SUFFICES ASSUME IInv, OpenInv, GoneInv, [Next]_vars, pc' = "giveup",
                    NEW t \in gone'
             PROVE  t \in DOMAIN txs' /\ Due(t)' /\ txs'[t].retries = MaxRetries
  BY DEF GoneInv, Live
<1>0. /\ \A s \in Live : txs[s].retries \in Nat
      /\ MaxRetries \in Nat
  BY BoundsAssumption DEF IInv, TypeOK, TransactionsTypeOK, Transaction, Live
<1>1. CASE TickScan
  <2>1. t \in Live /\ Due(t) /\ txs[t].retries >= MaxRetries
    BY <1>1 DEF TickScan, ToRemove
  <2>2. txs[t].retries = MaxRetries
    BY <1>0, <2>1 DEF OpenInv
  <2>3. t \notin ToRetry
    BY <1>0, <2>2 DEF ToRetry
  <2>4. t \in DOMAIN txs' /\ txs'[t] = txs[t]
    BY <1>1, <2>1, <2>3 DEF TickScan, MarkRetry
  <2> QED
    BY <2>1, <2>2, <2>4 DEF Due
<1>2. CASE GiveUp
  <2>1. t \in Live /\ Due(t) /\ txs[t].retries = MaxRetries
    BY <1>2 DEF GiveUp, GoneInv
  <2>2. t \in DOMAIN txs' /\ txs'[t] = txs[t]
    BY <1>2, <2>1 DEF GiveUp, Finish, Restrict
  <2> QED
    BY <2>1, <2>2 DEF Due
<1>3. CASE UNCHANGED vars
  BY <1>3 DEF vars, GoneInv, Live, Due
<1> QED
  BY <1>1, <1>2, <1>3, GiveUpSteps

-----------------------------------------------------------------------------

LEMMA InitAnswer == Init => OpenInv /\ GoneInv /\ AnswerInv
BY DEF Init, OpenInv, GoneInv, AnswerInv, Answering, Live

LEMMA EarnedInv == Spec => [](IInv /\ OpenInv /\ GoneInv)
<1>1. Init => OpenInv /\ GoneInv
  BY InitAnswer
<1>2. IInv /\ (OpenInv /\ GoneInv) /\ [Next]_vars => (OpenInv /\ GoneInv)'
  BY NextOpen, NextGone
<1> QED
  BY <1>1, <1>2, Invariance, PTL DEF Spec

\* The blacklist grows in one place only.
LEMMA BlackSteps ==
    ASSUME [Next]_vars, TypeOK, NEW a \in Addr, black[a] # "live", black'[a] = "live"
    PROVE  GiveUp
<1>1. black' # black
  OBVIOUS
<1>2. ~ Tick /\ ~ Pass /\ ~ Stopped /\ ~ UNCHANGED vars
  BY <1>1 DEF Tick, TickJoin, TickScan, Pass, Stopped, lvars, vars
<1>3. ~ Environment
  BY <1>1 DEF Environment, Command, Shutdown, RecvResponse, RecvError,
              RecvRequest, lvars
<1>4. ~ BlackExpire
  BY DEF BlackExpire, TypeOK
<1>5. ~ TickClean
  BY DEF TickClean
<1>6. Handler => GiveUp
  BY <1>1, <1>5 DEF Handler, JoinOne, JoinEnd, TickRefresh, RefreshOne,
       TickExpired, PingOne, QueryOne, QueryEnd, NodeOne, NodesEnd, Values,
       Announce, FinishAnswered, lvars
<1> QED
  BY <1>2, <1>3, <1>4, <1>6 DEF Next

\* An address is blacklisted only for a query sent MaxRetries times again and
\* unanswered for its whole last period (the timeout scan of Dht::start).
THEOREM BlacklistIsEarned == Spec => BlacklistEarned
<1> DEFINE Earned(a) ==
        \E t \in Live : /\ txs[t].addr = a
                        /\ txs[t].qtype # "ping"
                        /\ txs[t].retries = MaxRetries
                        /\ Due(t)
                        /\ t \notin DOMAIN txs'
<1>1. ASSUME IInv, GoneInv, [Next]_vars, NEW a \in Addr,
             black[a] # "live", black'[a] = "live"
      PROVE  Earned(a)
  <2>1. GiveUp
    BY <1>1, BlackSteps DEF IInv
  <2>2. PICK t \in gone :
           /\ IF txs[t].qtype = "ping"
              THEN cached' = cached \ {txs[t].addr} /\ UNCHANGED black
              ELSE BlackInsert(txs[t].addr) /\ UNCHANGED cached
           /\ Finish(t)
    BY <2>1 DEF GiveUp
  <2>3. t \in Live /\ Due(t) /\ txs[t].retries = MaxRetries
    BY <1>1, <2>1 DEF GoneInv, GiveUp
  <2>4. txs[t].qtype # "ping" /\ txs[t].addr = a
    BY <1>1, <2>2 DEF BlackInsert, IInv, TypeOK
  <2>5. t \notin DOMAIN txs'
    BY <2>2 DEF Finish, Restrict
  <2> QED
    BY <2>3, <2>4, <2>5
<1>2. IInv /\ GoneInv /\ [Next]_vars
      => [\A a \in Addr : black[a] # "live" /\ black'[a] = "live" => Earned(a)]_vars
  BY <1>1
<1> QED
  BY <1>2, EarnedInv, PTL DEF Spec, BlacklistEarned

-----------------------------------------------------------------------------

LEMMA AnsweringSteps ==
    ASSUME [Next]_vars, pc' \in Answering
    PROVE  RecvResponse \/ NodeOne \/ NodesEnd \/ Values \/ Announce
           \/ UNCHANGED vars
<1>1. ~ Tick
  BY DEF Tick, TickJoin, TickScan, Goto, Answering
<1>2. Handler => NodeOne \/ NodesEnd \/ Values \/ Announce
  BY DEF Handler, JoinOne, JoinEnd, GiveUp, TickRefresh, RefreshOne, TickExpired,
         PingOne, TickClean, QueryOne, QueryEnd, FinishAnswered,
         NextDestination, Goto, Return, Answering
<1>3. Environment => RecvResponse
  BY DEF Environment, Command, Shutdown, RecvError, RecvRequest, Goto, hvars,
         Answering
<1>4. ~ Pass /\ ~ BlackExpire
  BY DEF Pass, BlackExpire, hvars, Answering
<1> QED
  BY <1>1, <1>2, <1>3, <1>4 DEF Next, Stopped

LEMMA NextAnswer == IInv /\ OpenInv /\ AnswerInv /\ [Next]_vars => AnswerInv'
<1> SUFFICES ASSUME IInv, OpenInv, AnswerInv, [Next]_vars, pc' \in Answering
             PROVE  AnswerInv'
  BY DEF AnswerInv, Answering
<1>0. /\ cursor \in Int /\ cur.tid \in Int
      /\ \A t \in Live : t < cursor
  BY BoundsAssumption DEF IInv, TypeOK, TransactionsTypeOK, Work, Live
<1>1. CASE RecvResponse
  <2>1. PICK t \in 0 .. cursor : 
           /\ cur'.tid = t
           /\ cur'.ih = IF t \in Live THEN txs[t].ih ELSE NoHash
           /\ cur'.find = (t \in Live /\ txs[t].qtype = "find_node")
           /\ cur'.announce => t \in Live
    BY <1>1 DEF RecvResponse
  <2>2. pc' = "nodes" /\ cursor' = cursor
    BY <1>1 DEF RecvResponse, tvars
  <2> QED
    BY <1>0, <2>1, <2>2 DEF AnswerInv, OpenInv
<1>2. CASE NodeOne
  <2>1. pc = "nodes" /\ pc' = pc /\ cur' = cur
    BY <1>2 DEF NodeOne
  <2>2. cursor' = cursor \/ cursor' = cursor + 1
    BY <1>2 DEF NodeOne, Issue, tvars
  <2> QED
    BY <1>0, <2>1, <2>2 DEF AnswerInv, Answering
<1>3. CASE NodesEnd
  BY <1>3 DEF NodesEnd, Goto, tvars, AnswerInv, Answering
<1>4. CASE Values
  <2>1. pc = "values" /\ pc' = "announce" /\ cur' = cur /\ cursor' = cursor
    BY <1>4 DEF Values, Goto, Finish, tvars
  <2>2. cur.values /\ cur.ih # NoHash => cur.tid \notin DOMAIN txs'
    BY <1>4 DEF Values, Finish, Restrict
  <2> QED
    BY <2>1, <2>2 DEF AnswerInv, Answering, Live
<1>5. CASE Announce
  <2>1. pc = "announce" /\ pc' = "finish" /\ cur' = cur
    BY <1>5 DEF Announce, Goto
  <2>2. /\ cursor' = cursor \/ cursor' = cursor + 1
        /\ DOMAIN txs' \subseteq Live \cup {cursor}
    BY <1>5 DEF Announce, Issue, Put, tvars, Live
  <2> QED
    BY <1>0, <2>1, <2>2 DEF AnswerInv, Answering, Live
<1>6. CASE UNCHANGED vars
  BY <1>6 DEF vars, AnswerInv, Answering, Live
<1> QED
  BY <1>1, <1>2, <1>3, <1>4, <1>5, <1>6, AnsweringSteps

LEMMA FinishSteps ==
    ASSUME [Next]_vars, pc = "finish", pc' = "idle"
    PROVE  FinishAnswered
<1>1. ~ Tick /\ ~ Environment /\ ~ Pass /\ ~ BlackExpire /\ ~ Stopped
  BY DEF Tick, TickJoin, TickScan, Environment, Command, Shutdown, RecvResponse,
         RecvError, RecvRequest, Pass, BlackExpire, Stopped
<1>2. ~ UNCHANGED vars
  BY DEF vars
<1>3. Handler => FinishAnswered
  BY DEF Handler, JoinOne, JoinEnd, GiveUp, TickRefresh, RefreshOne, TickExpired,
         PingOne, TickClean, QueryOne, QueryEnd, NodeOne, NodesEnd, Values,
         Announce
<1> QED
  BY <1>1, <1>2, <1>3 DEF Next

\* When handle_response returns, an answered find_node, an answered get_peers
\* that was to announce, and any query answered with peers are concluded, so a
\* duplicate of the answer finds no transaction.
THEOREM AnsweredAreConcluded == Spec => AnsweredConcludes
<1> DEFINE Answered == cur.find \/ cur.announce \/ (cur.values /\ cur.ih # NoHash)
<1>1. ASSUME IInv, AnswerInv, [Next]_vars, pc = "finish", pc' = "idle", Answered
      PROVE  cur.tid \notin DOMAIN txs'
  <2>1. FinishAnswered
    BY <1>1, FinishSteps
  <2>2. CASE Concludes
    BY <2>1, <2>2 DEF FinishAnswered, Finish, Restrict
  <2>3. CASE ~ Concludes
    <3>1. cur.values /\ cur.ih # NoHash
      BY <1>1, <2>3 DEF Concludes, AnswerInv, Answering
    <3>2. cur.tid \notin Live
      BY <1>1, <3>1 DEF AnswerInv
    <3> QED
      BY <2>1, <2>3, <3>2 DEF FinishAnswered, tvars, Live
  <2> QED
    BY <2>2, <2>3
<1>2. IInv /\ AnswerInv /\ [Next]_vars
      => [pc = "finish" /\ pc' = "idle" /\ Answered => cur.tid \notin DOMAIN txs']_vars
  BY <1>1
<1>3. Init => AnswerInv
  BY InitAnswer
<1>4. IInv /\ OpenInv /\ AnswerInv /\ [Next]_vars => AnswerInv'
  BY NextAnswer
<1> QED
  BY <1>2, <1>3, <1>4, EarnedInv, PTL DEF Spec, AnsweredConcludes

-----------------------------------------------------------------------------
\* What a query keeps when it is sent again, and when it grows older.
SameButForTime(old, new) ==
    [old EXCEPT !.age = 0, !.retries = 0] = [new EXCEPT !.age = 0, !.retries = 0]

LEMMA OnlyTimeChanges ==
    ASSUME NEW tx \in Transaction
    PROVE  SameButForTime(tx, Older(tx)) /\ SameButForTime(tx, Resent(tx))
<1>1. SameButForTime(tx, Older(tx))
  BY DEF Transaction, Older, SameButForTime
<1>2. Retried(tx) \in Transaction /\ SameButForTime(tx, Retried(tx))
  <2>1. Retried(tx) \in Transaction
    BY DEF Transaction, Retried
  <2>2. SameButForTime(tx, Retried(tx))
    BY DEF Transaction, Retried, SameButForTime
  <2> QED
    BY <2>1, <2>2
<1>3. SameButForTime(Retried(tx), Resent(tx))
  BY <1>2 DEF Transaction, Resent, SameButForTime
<1> QED
  BY <1>2, <1>1, <1>3 DEF SameButForTime

\* The wait before a retry is the power of two, up to the 31st: the largest
\* u32, which stands in for the shifts that leave the word, is above it.
LEMMA FactorDoubles ==
    ASSUME NEW r \in Nat, NEW age \in Nat, age >= Factor(r)
    PROVE  age >= 2 ^ (IF r < 31 THEN r ELSE 31)
<1>1. CASE r < 31
  <2>1. ~ (r >= 31)
    BY <1>1
  <2> QED
    BY <1>1, <2>1, Zenon DEF Factor
<1>2. CASE r >= 31
  <2>1. age >= 2^32 - 1
    BY <1>2 DEF Factor
  <2>2. age >= 2^31
    BY <2>1
  <2> QED
    BY <1>2, <2>2
<1> QED
  BY <1>1, <1>2

\* A retry restarts the clock, and nothing else turns it back.
LEMMA ClockRestarts ==
    ASSUME NEW tx \in Transaction
    PROVE  Resent(tx).age = 0 /\ Older(tx).age = tx.age + 1
<1>1. Retried(tx) \in Transaction
  BY DEF Transaction, Retried
<1> QED
  BY <1>1 DEF Transaction, Resent, Older

\* While it is open a transaction stays the query it was created as, and it is
\* sent again only after a wait that doubles with every retry, at most
\* MaxRetries times, from when the next wait starts; nothing else starts it anew
\* (gen_id, scan_timeouts and mark_retry).
THEOREM RetriesBackOff == Spec => RetryBacksOff
<1> DEFINE Kept(t) == txs'[t].retries = txs[t].retries /\ txs'[t].age >= txs[t].age
           Waited(t) ==
               /\ txs'[t].retries = txs[t].retries + 1
               /\ txs'[t].retries <= MaxRetries
               /\ txs'[t].age = 0
               /\ txs[t].age >= 2 ^ (IF txs[t].retries < 31 THEN txs[t].retries ELSE 31)
<1>1. ASSUME IInv, [Next]_vars, NEW t \in Live \cap DOMAIN txs'
      PROVE  SameButForTime(txs[t], txs'[t]) /\ (Kept(t) \/ Waited(t))
  <2>0. /\ txs[t] \in Transaction
        /\ txs[t].retries \in Nat /\ txs[t].age \in Nat /\ MaxRetries \in Nat
        /\ t < cursor /\ t \in Int /\ cursor \in Int
    BY <1>1, BoundsAssumption DEF IInv, TypeOK, TransactionsTypeOK, Transaction, Live
  <2>1. CASE txs'[t] = txs[t]
    BY <2>0, <2>1 DEF SameButForTime
  <2>2. CASE UNCHANGED tvars \/ \E s : Finish(s)
    BY <1>1, <2>1, <2>2 DEF tvars, Finish, Restrict
  <2>3. CASE IssuesOne
    <3>1. PICK q, a, h, ann : Issue(q, a, h, ann)
      BY <2>3 DEF IssuesOne
    <3>2. txs'[t] = txs[t]
      BY <1>1, <2>0, <3>1 DEF Issue, Put, Live
    <3> QED
      BY <2>1, <3>2
  <2>4. CASE RetriesSome
    <3>1. PICK T : MarkRetry(T) /\ T \subseteq ToRetry
      BY <2>4 DEF RetriesSome
    <3>2. CASE t \in T
      <4>1. /\ txs'[t] = Resent(txs[t])
            /\ txs[t].retries < MaxRetries
            /\ txs[t].age >= Factor(txs[t].retries)
        BY <1>1, <3>1, <3>2 DEF MarkRetry, ToRetry, Due
      <4>2. txs'[t].retries = txs[t].retries + 1
        BY <2>0, <4>1, SentAgain
      <4>3. txs'[t].retries <= MaxRetries /\ txs'[t].age = 0
        BY <2>0, <4>1, <4>2, ClockRestarts
      <4>4. Waited(t)
        BY <2>0, <4>1, <4>2, <4>3, FactorDoubles
      <4> QED
        BY <2>0, <4>1, <4>4, OnlyTimeChanges
    <3>3. CASE t \notin T
      BY <1>1, <2>1, <3>1, <3>3 DEF MarkRetry
    <3> QED
      BY <3>2, <3>3
  <2>5. CASE Elapse
    <3>1. txs'[t] = txs[t] \/ txs'[t] = Older(txs[t])
      BY <1>1, <2>5 DEF Elapse
    <3> QED
      BY <2>0, <2>1, <3>1, SentAgain, ClockRestarts, OnlyTimeChanges
  <2> QED
    BY <1>1, <2>2, <2>3, <2>4, <2>5, TransactionStep
<1>2. IInv /\ [Next]_vars
      => [\A t \in Live \cap DOMAIN txs' :
             /\ [txs[t] EXCEPT !.age = 0, !.retries = 0] =
                [txs'[t] EXCEPT !.age = 0, !.retries = 0]
             /\ \/ txs'[t].retries = txs[t].retries /\ txs'[t].age >= txs[t].age
                \/ /\ txs'[t].retries = txs[t].retries + 1
                   /\ txs'[t].retries <= MaxRetries
                   /\ txs'[t].age = 0
                   /\ txs[t].age >= 2 ^ (IF txs[t].retries < 31 THEN txs[t].retries ELSE 31)]_vars
  BY <1>1 DEF SameButForTime
<1> QED
  BY <1>2, EarnedInv, PTL DEF Spec, RetryBacksOff
=============================================================================
