------------------------------ MODULE WirePool ------------------------------
(***************************************************************************)
(* WireRunner::run (src/wire.rs): a loop receives requests from a bounded  *)
(* channel and spawns a task for each one it has not seen; a semaphore     *)
(* lets only so many of the tasks fetch at a time.  The tasks feed the     *)
(* channel themselves, with the peers other peers tell them of, and share  *)
(* a blacklist with the loop.  Callers ask through WireHandle::request,    *)
(* each from a task of its own that waits for room in the channel.         *)
(*                                                                         *)
(* The map of known requests is cloned for the cleaner and for every task, *)
(* and a clone of a DashMap is a copy: what cleaner and tasks remove, they *)
(* remove from copies nobody reads.  The copies are left out, so `known'   *)
(* only grows.                                                             *)
(*                                                                         *)
(* Abstractions.  What a fetch does is FetchTask.  The age of an entry is  *)
(* whether its hour in the blacklist is over.  Broadcasting to subscribers *)
(* never waits and is left out.  The loop never ends: it holds a sender of *)
(* its own channel.                                                        *)
(***************************************************************************)
EXTENDS FetchTask, Integers, Sequences

CONSTANTS
    InfoHash,
    Workers,    \* worker_queue_size, the permits (256)
    QueueSize,  \* request_queue_size, the channel (4096)
    BlackMax    \* blacklist_size (65536)

ASSUME PoolAssumption ==
    /\ Workers \in Nat \ {0}
    /\ QueueSize \in Nat \ {0}
    /\ BlackMax \in Nat

VARIABLES
    chan,   \* the requests in the channel
    known,  \* the run loop's map of known requests
    tasks,  \* the spawned tasks, in the order they were spawned
    black   \* peer -> its blacklist entry: none, live or expired

vars == <<chan, known, tasks, black>>

Request == InfoHash \X Peer

PeerOf(r) == r[2]

\* A task before it has its permit.
Waiting == [at |-> "wait", left |-> {}]

Task == [req : Request, s : TaskState \cup {Waiting}]

TypeOK ==
    /\ chan \in Seq(Request) /\ Len(chan) <= QueueSize
    /\ known \subseteq Request
    /\ tasks \in Seq(Task)
    /\ black \in [Peer -> {"none", "live", "expired"}]

Init ==
    /\ chan = <<>>
    /\ known = {}
    /\ tasks = <<>>
    /\ black = [p \in Peer |-> "none"]

-----------------------------------------------------------------------------
(* The channel and the receiving loop. *)

\* Mutant: room for one request too many.
RoomLate == Len(chan) <= QueueSize

Room == Len(chan) < QueueSize

\* WireHandle::request
Ask ==
    /\ Room
    /\ \E r \in Request : chan' = Append(chan, r)
    /\ UNCHANGED <<known, tasks, black>>

\* The indices of the tasks that hold a permit.
Holding == {i \in DOMAIN tasks : tasks[i].s.at \in {"connect", "talk", "forward"}}

\* Mutant: a permit is not given back when the task ends.
FreeLeaky == Cardinality({i \in DOMAIN tasks : tasks[i].s # Waiting}) < Workers

Free == Cardinality(Holding) < Workers

\* Mutant: a request is noticed only once its task has a permit.
RefusedLate(r) ==
    \/ black[PeerOf(r)] = "live"
    \/ \E i \in Holding : tasks[i].req = r

\* A request is dropped when its peer is blacklisted or it is known.
Refused(r) == black[PeerOf(r)] = "live" \/ r \in known

\* Mutant: the loop waits for a permit before it takes a request.
ReceivesWithPermit == chan # <<>> /\ Free

\* The loop waits for nothing but a request.
Receives == chan # <<>>

Receive ==
    /\ Receives
    /\ chan' = Tail(chan)
    /\ LET r == Head(chan) IN
       IF Refused(r)
       THEN UNCHANGED <<known, tasks>>
       ELSE /\ known' = known \cup {r}
            /\ tasks' = Append(tasks, [req |-> r, s |-> Waiting])
    /\ UNCHANGED black

-----------------------------------------------------------------------------
(* The tasks. *)

\* Task i has its step; t is its state after it.
Steps(i, t) == tasks' = [tasks EXCEPT ![i].s = t]

\* The semaphore gives task i a permit.
Acquire(i) ==
    /\ tasks[i].s = Waiting
    /\ Free
    /\ Steps(i, Started)
    /\ UNCHANGED <<chan, known, black>>

Listed == {p \in Peer : black[p] # "none"}

\* BlackList::insert
BlackInsert(p) ==
    black' = IF Cardinality(Listed) >= BlackMax
             THEN black
             ELSE [black EXCEPT ![p] = "live"]

Fail(i) ==
    /\ Unreachable(tasks[i].s, Ended)
    /\ Steps(i, Ended)
    /\ BlackInsert(PeerOf(tasks[i].req))
    /\ UNCHANGED <<chan, known>>

Connect(i) ==
    /\ Reached(tasks[i].s, Talking)
    /\ Steps(i, Talking)
    /\ UNCHANGED <<chan, known, black>>

Hear(i) ==
    /\ \E t \in TaskState : Hears(tasks[i].s, t) /\ Steps(i, t)
    /\ UNCHANGED <<chan, known, black>>

\* The task waits for room, its permit in hand.
Forward(i) ==
    /\ Room
    /\ \E p \in tasks[i].s.left, t \in TaskState :
        /\ Forwards(tasks[i].s, t, p)
        /\ Steps(i, t)
        /\ chan' = Append(chan, <<tasks[i].req[1], p>>)
    /\ UNCHANGED <<known, black>>

Finish(i) ==
    /\ Finishes(tasks[i].s, Ended)
    /\ Steps(i, Ended)
    /\ UNCHANGED <<chan, known, black>>

-----------------------------------------------------------------------------
(* Time, and the cleaner. *)

BlackExpire ==
    /\ \E p \in Peer : black[p] = "live" /\ black' = [black EXCEPT ![p] = "expired"]
    /\ UNCHANGED <<chan, known, tasks>>

\* Every three minutes.  The cleaner's copy of the known requests was made when
\* there were none.
Clean ==
    /\ black' = [p \in Peer |-> IF black[p] = "expired" THEN "none" ELSE black[p]]
    /\ UNCHANGED <<chan, known, tasks>>

-----------------------------------------------------------------------------

Attempt(i) == Fail(i) \/ Connect(i)

TaskStep(i) == Acquire(i) \/ Attempt(i) \/ Hear(i) \/ Forward(i) \/ Finish(i)

Next ==
    \/ Ask \/ Receive
    \/ \E i \in DOMAIN tasks : TaskStep(i)
    \/ BlackExpire \/ Clean

Spec == Init /\ [][Next]_vars

Index == 1 .. Cardinality(Request)

\* The loop runs whenever it can, and the cleaner wakes up again and again.
\* Semaphore and channel serve those who wait in turn, and an attempt to connect
\* ends within fifteen seconds.  How long a conversation goes on is up to the peer.
Fairness ==
    /\ WF_vars(Receive)
    /\ WF_vars(Clean)
    /\ \A i \in Index :
        /\ SF_vars(i \in DOMAIN tasks /\ Acquire(i))
        /\ WF_vars(i \in DOMAIN tasks /\ Attempt(i))
        /\ SF_vars(i \in DOMAIN tasks /\ Forward(i))

FairSpec == Spec /\ Fairness

-----------------------------------------------------------------------------
(* Properties. *)

TaskAt(i, steps) == i \in DOMAIN tasks /\ tasks[i].s.at \in steps

\* Two tasks alive at one time, waiting for a permit or holding one, never have
\* the same request, although a callback asks again while the task of the first
\* request still waits, a peer exchange names the peer once more, or the peer's
\* blacklist entry has expired in between.
NoTwinFetches ==
    \A i, j \in DOMAIN tasks :
        tasks[i].req = tasks[j].req /\ tasks[i].s # Ended /\ tasks[j].s # Ended => i = j

\* A task that forwards peers gets them all into the channel, although it feeds
\* the loop that feeds the tasks and keeps its permit meanwhile: the loop never
\* waits for a permit, so the two do not wait for each other.
ForwardsEnd ==
    \A i \in Index : TaskAt(i, {"forward"}) ~> ~ TaskAt(i, {"forward"})

\* If no conversation goes on for ever then every task gets its permit: however
\* a fetch ended, its permit is back.
EveryTaskStarts ==
    <>[](\A i \in Index : ~ TaskAt(i, {"talk", "forward"})) =>
        \A i \in Index : TaskAt(i, {"wait"}) ~> ~ TaskAt(i, {"wait"})

\* README.md:105 gives an entry of the queue a time to live of 600 s, and run has
\* a cleaner and every task remove entries: a request is forgotten some day.
RequestsForgotten == \A r \in Request : r \in known ~> r \notin known
=============================================================================
