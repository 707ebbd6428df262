--------------------------- MODULE WirePoolProofs ---------------------------
(***************************************************************************)
(* No two tasks alive at one time have the same request, for any number of *)
(* peers, workers and places in the channel.  What makes it inductive is   *)
(* stronger: as nothing ever leaves the map of known requests, no request  *)
(* has two tasks at all.  The permits are counted separately, and the      *)
(* tasks by their requests.                                                *)
(***************************************************************************)
EXTENDS WirePool, SequenceTheorems, FiniteSetTheorems, TLAPS

AllKnown == \A i \in DOMAIN tasks : tasks[i].req \in known

\* A consequence of known requests never being forgotten, which the code does not
\* mean: a request has one task in the life of the process.
OneTask == \A i, j \in DOMAIN tasks : tasks[i].req = tasks[j].req => i = j

PoolInv == TypeOK /\ AllKnown /\ OneTask

\* A task has its fields.
LEMMA TaskTyped ==
    ASSUME tasks \in Seq(Task), NEW i \in DOMAIN tasks
    PROVE  tasks[i] \in Task /\ tasks[i].req \in Request
<1>1. tasks[i] \in Task
  BY ElementOfSeq, LenProperties
<1> QED
  BY <1>1 DEF Task

\* A step of one task changes nobody's request.
LEMMA StepsKeep ==
    ASSUME PoolInv, UNCHANGED known, NEW i \in DOMAIN tasks,
           NEW t \in TaskState, Steps(i, t)
    PROVE  tasks' \in Seq(Task) /\ AllKnown' /\ OneTask'
<1>1. tasks[i] \in Task /\ [tasks[i] EXCEPT !.s = t] \in Task
  BY TaskTyped DEF PoolInv, TypeOK, Task
<1>2. tasks' = [tasks EXCEPT ![i] = [tasks[i] EXCEPT !.s = t]]
  BY DEF Steps
<1>3. tasks' \in Seq(Task)
  BY <1>1, <1>2, ExceptSeq DEF PoolInv, TypeOK
<1>4. DOMAIN tasks' = DOMAIN tasks
  BY <1>2
<1>5. \A j \in DOMAIN tasks : tasks'[j].req = tasks[j].req
  <2> SUFFICES ASSUME NEW j \in DOMAIN tasks PROVE tasks'[j].req = tasks[j].req
    OBVIOUS
  <2>1. tasks[j] \in Task
    BY TaskTyped DEF PoolInv, TypeOK
  <2> QED
    BY <1>1, <1>2, <2>1 DEF Task
<1> QED
  BY <1>3, <1>4, <1>5 DEF PoolInv, AllKnown, OneTask

\* A request put in a channel with room.
LEMMA ChannelAppend ==
    ASSUME TypeOK, Room, NEW r \in Request, chan' = Append(chan, r)
    PROVE  chan' \in Seq(Request) /\ Len(chan') <= QueueSize
BY PoolAssumption DEF TypeOK, Room

LEMMA StatesAreTasks ==
    Started \in TaskState /\ Talking \in TaskState /\ Ended \in TaskState
BY DEF Started, Talking, Ended, TaskState, At

LEMMA InitPool == Init => PoolInv
BY PoolAssumption DEF Init, PoolInv, TypeOK, AllKnown, OneTask

LEMMA BlackInsertOK ==
    ASSUME TypeOK, NEW p \in Peer, BlackInsert(p)
    PROVE  black' \in [Peer -> {"none", "live", "expired"}]
BY DEF TypeOK, BlackInsert

LEMMA TaskStepPool ==
    ASSUME PoolInv, NEW i \in DOMAIN tasks, TaskStep(i) PROVE PoolInv'
<1> USE StatesAreTasks DEF PoolInv
<1>0. tasks[i] \in Task /\ tasks[i].req \in Request
  BY TaskTyped DEF TypeOK
<1>1. CASE Acquire(i)
  BY <1>1, StepsKeep DEF Acquire, TypeOK
<1>2. CASE Fail(i)
  <2>1. PeerOf(tasks[i].req) \in Peer
    BY <1>0 DEF PeerOf, Request
  <2>2. black' \in [Peer -> {"none", "live", "expired"}]
    BY <1>2, <2>1, BlackInsertOK DEF Fail
  <2> QED
    BY <1>2, <2>2, StepsKeep DEF Fail, TypeOK
<1>3. CASE Connect(i)
  BY <1>3, StepsKeep DEF Connect, TypeOK
<1>4. CASE Hear(i)
  BY <1>4, StepsKeep DEF Hear, TypeOK
<1>5. CASE Forward(i)
  <2>1. PICK p \in tasks[i].s.left, t \in TaskState :
          Forwards(tasks[i].s, t, p) /\ Steps(i, t)
            /\ chan' = Append(chan, <<tasks[i].req[1], p>>)
    BY <1>5 DEF Forward
  <2>2. p \in Peer
    BY <1>0, <2>1 DEF Task, TaskState, Waiting
  <2>3. <<tasks[i].req[1], p>> \in Request
    BY <1>0, <2>2 DEF Request
  <2>4. chan' \in Seq(Request) /\ Len(chan') <= QueueSize
    BY <1>5, <2>1, <2>3, ChannelAppend DEF Forward
  <2> QED
    BY <1>5, <2>1, <2>4, StepsKeep DEF Forward, TypeOK
<1>6. CASE Finish(i)
  BY <1>6, StepsKeep DEF Finish, TypeOK
<1> QED
  BY <1>1, <1>2, <1>3, <1>4, <1>5, <1>6 DEF TaskStep, Attempt

LEMMA NextPool == PoolInv /\ [Next]_vars => PoolInv'
<1> SUFFICES ASSUME PoolInv, [Next]_vars PROVE PoolInv'
  OBVIOUS
<1> USE DEF PoolInv
<1>1. CASE Ask
  <2>1. chan' \in Seq(Request) /\ Len(chan') <= QueueSize
    BY <1>1, ChannelAppend DEF Ask
  <2> QED
    BY <1>1, <2>1 DEF Ask, TypeOK, AllKnown, OneTask
<1>2. CASE Receive
  <2> DEFINE r == Head(chan)
  <2>1. r \in Request /\ chan' \in Seq(Request) /\ Len(chan') <= QueueSize
    BY <1>2, PoolAssumption DEF Receive, Receives, TypeOK
  <2>2. CASE Refused(r)
    BY <1>2, <2>1, <2>2 DEF Receive, TypeOK, AllKnown, OneTask
  <2>3. CASE ~ Refused(r)
    <3> DEFINE new == [req |-> r, s |-> Waiting]
    <3>1. r \notin known
      BY <2>3 DEF Refused
    <3>2. known' = known \cup {r} /\ tasks' = Append(tasks, new)
      BY <1>2, <2>3 DEF Receive
    <3>3. new \in Task
      BY <2>1 DEF Task
    <3>4. tasks' \in Seq(Task) /\ Len(tasks') = Len(tasks) + 1
          /\ DOMAIN tasks = 1 .. Len(tasks) /\ DOMAIN tasks' = 1 .. Len(tasks')
          /\ tasks'[Len(tasks) + 1] = new
          /\ \A i \in 1 .. Len(tasks) : tasks'[i] = tasks[i]
      BY <3>2, <3>3 DEF TypeOK
    <3>5. AllKnown'
      BY <3>2, <3>4 DEF AllKnown, TypeOK
    <3>6. OneTask'
      <4>1. \A i \in 1 .. Len(tasks) : tasks'[i].req # r
        BY <3>1, <3>4 DEF AllKnown
      <4>2. tasks'[Len(tasks) + 1].req = r
        BY <3>4
      <4>3. \A i \in DOMAIN tasks' : i = Len(tasks) + 1 \/ i \in 1 .. Len(tasks)
        BY <3>4 DEF TypeOK
      <4>4. \A i, j \in 1 .. Len(tasks) : tasks'[i].req = tasks'[j].req => i = j
        BY <3>4 DEF OneTask
      <4> HIDE DEF r, new
      <4> QED
        BY <4>1, <4>2, <4>3, <4>4 DEF OneTask
    <3>7. known' \subseteq Request
      BY <2>1, <3>2 DEF TypeOK
    <3>8. UNCHANGED black
      BY <1>2 DEF Receive
    <3>9. TypeOK'
      BY <2>1, <3>4, <3>7, <3>8 DEF TypeOK
    <3> QED
      BY <3>5, <3>6, <3>9
  <2> QED
    BY <2>2, <2>3
<1>3. ASSUME NEW i \in DOMAIN tasks, TaskStep(i) PROVE PoolInv'
  BY <1>3, TaskStepPool
<1>4. CASE BlackExpire
  BY <1>4 DEF BlackExpire, TypeOK, AllKnown, OneTask
<1>5. CASE Clean
  BY <1>5 DEF Clean, TypeOK, AllKnown, OneTask
<1>6. CASE UNCHANGED vars
  BY <1>6 DEF vars, TypeOK, AllKnown, OneTask
<1> QED
  BY <1>1, <1>2, <1>3, <1>4, <1>5, <1>6 DEF Next

THEOREM PoolInvariance == Spec => []PoolInv
<1> QED
  BY InitPool, NextPool, PTL DEF Spec

\* Every state of the pool is well typed; the channel keeps its bound.
THEOREM PoolTypeCorrect == Spec => []TypeOK
<1>1. PoolInv => TypeOK
  BY DEF PoolInv
<1> QED
  BY <1>1, PoolInvariance, PTL

\* No two live tasks have the same request (WireRunner::run's look at the map of
\* known requests, which its callers and its own tasks both feed).
THEOREM NoRequestFetchedTwice == Spec => []NoTwinFetches
<1>1. PoolInv => NoTwinFetches
  BY DEF PoolInv, OneTask, NoTwinFetches
<1> QED
  BY <1>1, PoolInvariance, PTL

-----------------------------------------------------------------------------
(* The permits.  A task holds one from its start to its end, and no step   *)
(* but Acquire begins to hold.                                             *)

\* The states of a task that has a permit.
Holds(s) == s.at \in {"connect", "talk", "forward"}

\* There are never more permits out than the semaphore was made with.
PermitsKept == IsFiniteSet(Holding) /\ Cardinality(Holding) <= Workers

\* A step of one task changes its own hold only.
LEMMA HoldingStep ==
    ASSUME PoolInv, NEW i \in DOMAIN tasks, NEW t \in TaskState, Steps(i, t)
    PROVE  /\ Holding' \subseteq Holding \cup {i}
           /\ ~ Holds(t) => Holding' \subseteq Holding
<1>1. tasks[i] \in Task
  BY TaskTyped DEF PoolInv, TypeOK
<1>2. /\ DOMAIN tasks' = DOMAIN tasks
      /\ \A j \in DOMAIN tasks : j # i => tasks'[j] = tasks[j]
  BY DEF Steps
<1>3. tasks'[i].s = t
  BY <1>1 DEF Steps, Task
<1> QED
  BY <1>2, <1>3 DEF Holding, Holds

\* What is within Holding is no more than the permits.
LEMMA FewerPermits ==
    ASSUME PermitsKept, Holding' \subseteq Holding PROVE PermitsKept'
<1>1. IsFiniteSet(Holding') /\ Cardinality(Holding') <= Cardinality(Holding)
  BY FS_Subset DEF PermitsKept
<1>2. Cardinality(Holding) \in Nat /\ Cardinality(Holding') \in Nat
  BY <1>1, FS_CardinalityType DEF PermitsKept
<1> QED
  BY <1>1, <1>2, PoolAssumption DEF PermitsKept

\* A permit is given out only when one is left.
LEMMA OneMorePermit ==
    ASSUME PermitsKept, Free, NEW i, Holding' \subseteq Holding \cup {i}
    PROVE  PermitsKept'
<1>0. IsFiniteSet(Holding) /\ Cardinality(Holding) \in Nat
  BY FS_CardinalityType DEF PermitsKept
<1>1. /\ IsFiniteSet(Holding \cup {i})
      /\ Cardinality(Holding \cup {i}) <= Cardinality(Holding) + 1
  <2>1. /\ IsFiniteSet(Holding \cup {i})
        /\ Cardinality(Holding \cup {i}) =
             IF i \in Holding THEN Cardinality(Holding) ELSE Cardinality(Holding) + 1
    BY <1>0, FS_AddElement
  <2> QED
    BY <1>0, <2>1
<1>2. /\ IsFiniteSet(Holding')
      /\ Cardinality(Holding') <= Cardinality(Holding \cup {i})
  BY <1>1, FS_Subset
<1>3. /\ Cardinality(Holding) \in Nat /\ Cardinality(Holding') \in Nat
      /\ Cardinality(Holding \cup {i}) \in Nat
  BY <1>0, <1>1, <1>2, FS_CardinalityType
<1> QED
  BY <1>1, <1>2, <1>3, PoolAssumption DEF PermitsKept, Free

LEMMA TaskStepPermits ==
    ASSUME PoolInv, PermitsKept, NEW i \in DOMAIN tasks, TaskStep(i)
    PROVE  PermitsKept'
<1> USE StatesAreTasks
<1>1. CASE Acquire(i)
  BY <1>1, HoldingStep, OneMorePermit DEF Acquire
<1>2. ASSUME NEW t \in TaskState, Steps(i, t), Holds(tasks[i].s) \/ ~ Holds(t)
      PROVE  PermitsKept'
  <2>1. Holds(tasks[i].s) => i \in Holding
    BY DEF Holding, Holds
  <2>2. Holding' \subseteq Holding
    BY <1>2, <2>1, HoldingStep
  <2> QED
    BY <2>2, FewerPermits
<1>3. CASE Attempt(i)
  BY <1>2, <1>3 DEF Attempt, Fail, Connect, Unreachable, Reached, Holds
<1>4. CASE Hear(i)
  BY <1>2, <1>4 DEF Hear, Hears, Holds
<1>5. CASE Forward(i)
  BY <1>2, <1>5 DEF Forward, Forwards, Holds
<1>6. CASE Finish(i)
  BY <1>2, <1>6 DEF Finish, Finishes, Holds
<1> QED
  BY <1>1, <1>3, <1>4, <1>5, <1>6 DEF TaskStep

LEMMA NextPermits == PoolInv /\ PermitsKept /\ [Next]_vars => PermitsKept'
<1> SUFFICES ASSUME PoolInv, PermitsKept, [Next]_vars PROVE PermitsKept'
  OBVIOUS
<1>1. CASE UNCHANGED tasks
  BY <1>1, FewerPermits DEF Holding
<1>2. CASE Receive
  <2> DEFINE new == [req |-> Head(chan), s |-> Waiting]
  <2>1. CASE tasks' = Append(tasks, new)
    <3>1. tasks \in Seq(Task)
      BY DEF PoolInv, TypeOK
    <3>2. /\ DOMAIN tasks = 1 .. Len(tasks)
          /\ DOMAIN tasks' = 1 .. Len(tasks) + 1
          /\ \A i \in 1 .. Len(tasks) : tasks'[i] = tasks[i]
          /\ tasks'[Len(tasks) + 1] = new
      BY <2>1, <3>1
    <3>3. \A i \in DOMAIN tasks' : i \in DOMAIN tasks \/ tasks'[i].s.at = "wait"
      BY <3>1, <3>2, LenProperties DEF Waiting
    <3>4. Holding' \subseteq Holding
      BY <3>2, <3>3 DEF Holding
    <3> QED
      BY <3>4, FewerPermits
  <2>2. CASE UNCHANGED tasks
    BY <1>1, <2>2
  <2> QED
    BY <1>2, <2>1, <2>2 DEF Receive
<1>3. ASSUME NEW i \in DOMAIN tasks, TaskStep(i) PROVE PermitsKept'
  BY <1>3, TaskStepPermits
<1> QED
  BY <1>1, <1>2, <1>3 DEF Next, Ask, BlackExpire, Clean, vars

LEMMA InitPermits == Init => PermitsKept
<1> SUFFICES ASSUME Init PROVE PermitsKept
  OBVIOUS
<1>1. Holding = {}
  BY DEF Init, Holding
<1> QED
  BY <1>1, FS_EmptySet, PoolAssumption DEF PermitsKept

\* However tasks fail, end and are spawned, no more of them fetch at a time than
\* the semaphore has permits (run: worker_queue_size, sem.acquire()).
THEOREM PermitsNeverOverdrawn == Spec => []PermitsKept
<1> QED
  BY InitPermits, NextPermits, PoolInvariance, PTL DEF Spec

-----------------------------------------------------------------------------
(* The number of tasks.                                                    *)

\* The tasks have an index each.
EveryTaskIndexed == DOMAIN tasks \subseteq Index

\* Fairness and the two liveness properties speak of the tasks in Index.  There
\* are no others: no request has two tasks, so the requests number the tasks.
\* There are finitely many addresses and info hashes of twenty bytes.
THEOREM FairnessReachesAll ==
    ASSUME IsFiniteSet(Request) PROVE Spec => []EveryTaskIndexed
<1>1. ASSUME PoolInv PROVE EveryTaskIndexed
  <2> DEFINE n == Len(tasks)
             reqOf == [i \in 1 .. n |-> tasks[i].req]
  <2>1. n \in Nat /\ DOMAIN tasks = 1 .. n
    BY <1>1, LenProperties DEF PoolInv, TypeOK
  <2>2. reqOf \in [1 .. n -> Request]
    BY <1>1, <2>1, TaskTyped DEF PoolInv, TypeOK
  <2>3. reqOf \in Injection(1 .. n, Request)
    BY <1>1, <2>1, <2>2 DEF PoolInv, OneTask, Injection, IsInjective
  <2> HIDE DEF n, reqOf
  <2>4. Cardinality(1 .. n) <= Cardinality(Request)
    BY <2>3, FS_Injection
  <2>5. Cardinality(1 .. n) = n
    BY <2>1, FS_Interval
  <2>6. Cardinality(Request) \in Nat
    BY FS_CardinalityType
  <2> QED
    BY <2>1, <2>4, <2>5, <2>6 DEF EveryTaskIndexed, Index
<1> QED
  BY <1>1, PoolInvariance, PTL
=============================================================================
