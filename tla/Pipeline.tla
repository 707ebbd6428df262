------------------------------ MODULE Pipeline ------------------------------
(***************************************************************************)
(* From a finished download to the page of the web panel: the broadcast    *)
(* channel of src/wire.rs, the subscriber in src/main.rs that reads it,    *)
(* the blocking jobs it starts, the SQLite table of src/storage.rs and the *)
(* list handler of src/web.rs.  The process may crash between any two of   *)
(* these steps and start again; the machine may lose power.                *)
(*                                                                         *)
(* A function of Storage locks the one connection for all of its body, so  *)
(* each call is one step here; a panic in it poisons the lock for good.    *)
(*                                                                         *)
(* Abstractions.  Metadata is determined by its info hash, as only what    *)
(* has that digest is reported (wire.rs:209); Listable are those with a    *)
(* name and at least one file.  A request is fetched once in the life of   *)
(* the process, since the pool never forgets one; several peers' requests  *)
(* for one info hash are each fetched.  created_at grows with the row's    *)
(* number.  A search is the set of info hashes whose name matches.         *)
(***************************************************************************)
EXTENDS Integers, FiniteSets, SequencesExt

CONSTANTS
    InfoHash,
    Peer,
    Listable,     \* info hashes whose metadata main.rs stores
    Capacity,     \* of the broadcast channel (1024)
    MaxPageSize,  \* the clamp in api_torrents (200)
    UInt32        \* how many values a u32 has (2^32)

ASSUME PipelineAssumption ==
    /\ Listable \subseteq InfoHash
    /\ Capacity \in Nat \ {0}
    /\ MaxPageSize \in Nat \ {0}
    /\ UInt32 \in Nat \ {0}

VARIABLES
    checked,   \* a debug build: arithmetic overflow panics
    fetched,   \* requests whose metadata was published by this process
    air,       \* what the subscriber has still to read
    lagged,    \* the channel overwrote a message before it was read
    sub,       \* the subscriber's task is "running" or "ended"
    jobs,      \* inserts spawned and not yet run
    poisoned,  \* the storage lock
    rows,      \* the table, in the order of insertion
    synced,    \* how many rows the last checkpoint wrote
    failed     \* history: info hashes an insert of which failed in this process

vars == <<checked, fetched, air, lagged, sub, jobs, poisoned, rows, synced, failed>>

Request == InfoHash \X Peer

HashOf(r) == r[1]

TypeOK ==
    /\ checked \in BOOLEAN
    /\ fetched \subseteq Request
    /\ air \in Seq(Request) /\ Len(air) <= Capacity
    /\ lagged \in BOOLEAN
    /\ sub \in {"running", "ended"}
    /\ jobs \subseteq Request
    /\ poisoned \in BOOLEAN
    /\ rows \in Seq(InfoHash)
    /\ synced \in 0 .. Len(rows)
    /\ failed \subseteq InfoHash

Init ==
    /\ checked \in BOOLEAN
    /\ fetched = {}
    /\ air = <<>>
    /\ lagged = FALSE
    /\ sub = "running"
    /\ jobs = {}
    /\ poisoned = FALSE
    /\ failed = {}
    /\ rows = <<>>
    /\ synced = 0

-----------------------------------------------------------------------------
(* From the download to the table. *)

Stored(h) == \E i \in DOMAIN rows : rows[i] = h

\* Mutant: a channel without a capacity.
SendUnbounded(r) == air' = Append(air, r) /\ lagged' = lagged

\* Mutant: the reader is not told what it missed.
SendOver(r) ==
    /\ air' = IF Len(air) = Capacity THEN Append(Tail(air), r) ELSE Append(air, r)
    /\ lagged' = lagged

\* broadcast::Sender::send: in a full channel the oldest message is lost.
Send(r) ==
    IF Len(air) = Capacity
    THEN air' = Append(Tail(air), r) /\ lagged' = TRUE
    ELSE air' = Append(air, r) /\ lagged' = lagged

\* A download ends with the metadata asked for.
Publish ==
    /\ \E r \in Request \ fetched :
        /\ fetched' = fetched \cup {r}
        /\ IF sub = "running" THEN Send(r) ELSE UNCHANGED <<air, lagged>>
    /\ UNCHANGED <<checked, sub, jobs, poisoned, rows, synced, failed>>

\* Mutant: messages are read by the channel full.
ReceiveInBatches ==
    /\ sub = "running"
    /\ Len(air) = Capacity
    /\ ~ lagged
    /\ air' = Tail(air)
    /\ jobs' = IF HashOf(Head(air)) \in Listable THEN jobs \cup {Head(air)} ELSE jobs
    /\ UNCHANGED <<checked, fetched, lagged, sub, poisoned, rows, synced, failed>>

\* One message read: what has a name and files becomes a job.
Receive ==
    /\ sub = "running"
    /\ air # <<>>
    /\ ~ lagged
    /\ air' = Tail(air)
    /\ jobs' = IF HashOf(Head(air)) \in Listable THEN jobs \cup {Head(air)} ELSE jobs
    /\ UNCHANGED <<checked, fetched, lagged, sub, poisoned, rows, synced, failed>>

\* recv answers Lagged and `while let Ok' is over: the receiver is dropped.
Lag ==
    /\ sub = "running"
    /\ lagged
    /\ sub' = "ended"
    /\ air' = <<>>
    /\ UNCHANGED <<checked, fetched, lagged, jobs, poisoned, rows, synced, failed>>

\* Mutant: INSERT OR REPLACE, the row is a new one.
InsertReplacing(h) == rows' = Append(SelectSeq(rows, LAMBDA g : g # h), h)

\* INSERT OR IGNORE
Insert(h) == rows' = IF Stored(h) THEN rows ELSE Append(rows, h)

\* A job inserts; the jobs run in any order.
RunJob(r) ==
    /\ r \in jobs
    /\ ~ poisoned
    /\ Insert(HashOf(r))
    /\ jobs' = jobs \ {r}
    /\ UNCHANGED <<checked, fetched, air, lagged, sub, poisoned, synced, failed>>

\* The lock is poisoned and the job panics, or SQLite answers an error, which
\* the job ignores.
FailJob(r) ==
    /\ r \in jobs
    /\ jobs' = jobs \ {r}
    /\ failed' = failed \cup {HashOf(r)}
    /\ UNCHANGED <<checked, fetched, air, lagged, sub, poisoned, rows, synced>>

\* SQLite moves the write-ahead log into the table and syncs it.
Checkpoint ==
    /\ ~ poisoned
    /\ synced' = Len(rows)
    /\ UNCHANGED <<checked, fetched, air, lagged, sub, jobs, poisoned, rows, failed>>

-----------------------------------------------------------------------------
(* The list handler. *)

PageSize == 1 .. MaxPageSize

Page == 1 .. UInt32 - 1

\* Mutant: the first page starts after one page.
OffsetLate(page, size) == (page * size) % UInt32

\* The offset as a u32; a debug build does not get past an overflow.
Offset(page, size) == ((page - 1) * size) % UInt32

\* The places of the rows a search matches.
Matching(search) == {i \in DOMAIN rows : rows[i] \in search}

\* ORDER BY created_at DESC: the k-th row found has k - 1 newer ones.
Found(search) ==
    LET P == Matching(search) IN
    [k \in 1 .. Cardinality(P) |->
        rows[CHOOSE i \in P : Cardinality({j \in P : j > i}) = k - 1]]

LeastOf(m, n) == IF m < n THEN m ELSE n

\* LIMIT size OFFSET offset
PageOf(search, page, size) ==
    SubSeq(Found(search), Offset(page, size) + 1,
           LeastOf(Offset(page, size) + size, Len(Found(search))))

TotalPages(search, size) == (Len(Found(search)) + size - 1) \div size

\* A list whose offset overflows panics in a debug build, holding the lock.
ListOverflows ==
    /\ checked
    /\ \E page \in Page, size \in PageSize : (page - 1) * size >= UInt32
    /\ poisoned' = TRUE
    /\ UNCHANGED <<checked, fetched, air, lagged, sub, jobs, rows, synced, failed>>

-----------------------------------------------------------------------------
(* Crashes. *)

\* What a new process starts with.
Start ==
    /\ fetched' = {}
    /\ air' = <<>>
    /\ lagged' = FALSE
    /\ sub' = "running"
    /\ jobs' = {}
    /\ poisoned' = FALSE
    /\ failed' = {}

\* The process ends and a new one opens the table: what is committed is there.
Restart ==
    /\ Start
    /\ UNCHANGED <<checked, rows, synced>>

\* Mutant: synchronous=OFF, any of the rows may be lost.
PowerLossUnsynced ==
    /\ Start
    /\ \E n \in 0 .. Len(rows) :
        /\ rows' = SubSeq(rows, 1, n)
        /\ synced' = LeastOf(synced, n)
    /\ UNCHANGED checked

\* The machine stops: with synchronous=NORMAL the last commits may be lost.
PowerLoss ==
    /\ Start
    /\ \E n \in synced .. Len(rows) : rows' = SubSeq(rows, 1, n)
    /\ UNCHANGED <<checked, synced>>

-----------------------------------------------------------------------------

Next ==
    \/ Publish \/ Receive \/ Lag
    \/ \E r \in Request : RunJob(r) \/ FailJob(r)
    \/ Checkpoint \/ ListOverflows \/ Restart \/ PowerLoss

Spec == Init /\ [][Next]_vars

\* The subscriber is woken by what it waits for, and the blocking threads run
\* every job.  Nobody has to publish, list or crash.
Fairness ==
    /\ WF_vars(Receive)
    /\ WF_vars(Lag)
    /\ \A r \in Request : WF_vars(RunJob(r) \/ FailJob(r))

FairSpec == Spec /\ Fairness

-----------------------------------------------------------------------------
(* Properties. *)

\* Metadata on its way: read by nobody yet, or in a job not yet run.
Underway(h) ==
    \/ \E i \in DOMAIN air : HashOf(air[i]) = h
    \/ \E r \in jobs : HashOf(r) = h

Published(h) == \E r \in fetched : HashOf(r) = h

\* Metadata that was published is on its way, stored, or lost to a failure of
\* its own insert, as long as the subscriber has not lagged: neither unusable
\* metadata in between, nor a job that overtakes, nor several peers' copies,
\* nor the failure of another insert loses it.
Accounted ==
    ~ lagged => \A h \in Listable :
        Published(h) => Underway(h) \/ Stored(h) \/ h \in failed

\* What has been published is lost, even when the process or the machine stops at
\* any point, only if it was still on its way, if its own insert had failed, if the
\* subscriber had lagged, or if the machine stopped and it was among the rows that
\* the last checkpoint had not written.
LossHasReason ==
    [][\A h \in Listable :
          (Published(h) \/ Stored(h)) /\ ~ (Published(h) \/ Stored(h))' =>
             \/ Underway(h) \/ h \in failed \/ lagged
             \/ /\ \E i \in synced + 1 .. Len(rows) : rows[i] = h
                /\ Len(rows') < Len(rows)]_vars

\* A row once stored is never replaced, moved or removed, in this process or
\* a later one; only a loss of power takes rows, the latest, and none that a
\* checkpoint has written.
StoreKeeps ==
    [][\/ IsPrefix(rows, rows')
       \/ fetched' = {} /\ IsPrefix(rows', rows) /\ synced <= Len(rows')]_vars

\* The panel's pages, as many as it is told there are, show every row that a
\* search matches on exactly one of them, no page of them is empty and the
\* next one is, whatever the page size, as long as the offset fits.
PagesCover ==
    \A search \in SUBSET InfoHash, size \in PageSize :
        LET n == TotalPages(search, size)
            On(page) == {PageOf(search, page, size)[i] :
                            i \in DOMAIN PageOf(search, page, size)}
        IN  n * size < UInt32 =>
                /\ \A h \in search : Stored(h) =>
                      Cardinality({page \in 1 .. n : h \in On(page)}) = 1
                /\ \A page \in 1 .. n : On(page) # {} /\ On(page) \subseteq search
                /\ On(n + 1) = {}

\* Published metadata that has a name and files is stored some day, unless its
\* insert fails, the subscriber lags or the process ends.
StoredAtLast ==
    \A h \in Listable :
        Published(h) ~> (Stored(h) \/ h \in failed \/ lagged \/ ~ Published(h))
=============================================================================
