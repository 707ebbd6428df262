--------------------------- MODULE PipelineProofs ---------------------------
(***************************************************************************)
(* Theorems about the way from a download to the table, for any number of  *)
(* torrents and peers and any capacity of the channel, and about the pages *)
(* the table is shown in.                                                  *)
(*                                                                         *)
(* What makes Accounted inductive is that the subscriber ends for one      *)
(* reason only, having lagged; the four ways a message can move (sent,     *)
(* read, run, failed) are one lemma each.                                  *)
(***************************************************************************)
EXTENDS Pipeline, SequenceTheorems, FiniteSetTheorems, TLAPS

\* The table has an info hash once, which the pages rest on: its primary key.
StoredOnce == \A i, j \in DOMAIN rows : rows[i] = rows[j] => i = j

PipeInv == TypeOK /\ Accounted /\ StoredOnce /\ (sub = "ended" => lagged)

\* A request is in the channel.
InAir(r) == \E i \in DOMAIN air : air[i] = r

\* A message the subscriber reads.
LEMMA HeadOfAir ==
    ASSUME air \in Seq(Request), air # <<>>
    PROVE  /\ Head(air) \in Request
           /\ Tail(air) \in Seq(Request)
           /\ Len(air) \in Nat \ {0}
           /\ Len(Tail(air)) = Len(air) - 1
           /\ \A i \in DOMAIN air :
                 air[i] = Head(air) \/ \E j \in DOMAIN Tail(air) : Tail(air)[j] = air[i]
<1>1. /\ Head(air) \in Request /\ Tail(air) \in Seq(Request)
      /\ Len(air) \in Nat \ {0} /\ Len(Tail(air)) = Len(air) - 1
      /\ \A i \in 1 .. Len(Tail(air)) : Tail(air)[i] = air[i + 1]
  BY EmptySeq, HeadTailProperties
<1>2. Head(air) = air[1]
  BY <1>1
<1>3. DOMAIN air = 1 .. Len(air) /\ DOMAIN Tail(air) = 1 .. Len(air) - 1
  BY <1>1, LenProperties
<1>4. ASSUME NEW i \in 1 .. Len(air), i # 1
      PROVE  i - 1 \in 1 .. Len(air) - 1 /\ Tail(air)[i - 1] = air[i]
  <2>1. i - 1 \in 1 .. Len(air) - 1 /\ (i - 1) + 1 = i
    BY <1>1, <1>4
  <2> QED
    BY <1>1, <2>1
<1> QED
  BY <1>1, <1>2, <1>3, <1>4

\* What sending does to the channel.
LEMMA SendOK ==
    ASSUME TypeOK, NEW r \in Request, Send(r)
    PROVE  /\ air' \in Seq(Request) /\ Len(air') <= Capacity
           /\ lagged' \in BOOLEAN
           /\ ~ lagged' =>
                 /\ ~ lagged
                 /\ \E i \in DOMAIN air' : air'[i] = r
                 /\ \A i \in DOMAIN air : \E j \in DOMAIN air' : air'[j] = air[i]
<1>0. air \in Seq(Request) /\ Len(air) \in Nat /\ Len(air) <= Capacity
      /\ Capacity \in Nat \ {0}
  BY LenProperties, PipelineAssumption DEF TypeOK
<1>1. CASE Len(air) = Capacity
  <2>1. air' = Append(Tail(air), r) /\ lagged'
    BY <1>1 DEF Send
  <2>2. air # <<>>
    BY <1>0, <1>1, EmptySeq
  <2>3. Tail(air) \in Seq(Request) /\ Len(Tail(air)) = Len(air) - 1
    BY <1>0, <2>2, HeadOfAir
  <2>4. air' \in Seq(Request) /\ Len(air') = Len(Tail(air)) + 1
    BY <2>1, <2>3, AppendProperties
  <2>5. Len(air') <= Capacity
    BY <1>0, <1>1, <2>3, <2>4
  <2>6. lagged' = TRUE
    BY <1>1 DEF Send
  <2> QED
    BY <2>4, <2>5, <2>6
<1>2. CASE Len(air) # Capacity
  <2>1. air' = Append(air, r) /\ lagged' = lagged
    BY <1>2 DEF Send
  <2>2. /\ air' \in Seq(Request) /\ Len(air') = Len(air) + 1
        /\ air'[Len(air) + 1] = r /\ \A i \in 1 .. Len(air) : air'[i] = air[i]
    BY <1>0, <2>1, AppendProperties
  <2>3. DOMAIN air' = 1 .. Len(air) + 1 /\ DOMAIN air = 1 .. Len(air)
    BY <1>0, <2>2, LenProperties
  <2>4. Len(air) + 1 \in DOMAIN air' /\ DOMAIN air \subseteq DOMAIN air'
    BY <1>0, <2>3
  <2>5. Len(air') <= Capacity
    BY <1>0, <1>2, <2>2
  <2>6. lagged' \in BOOLEAN /\ (~ lagged' => ~ lagged)
    BY <2>1 DEF TypeOK
  <2>7. \E i \in DOMAIN air' : air'[i] = r
    BY <2>2, <2>4
  <2>8. \A i \in DOMAIN air : \E j \in DOMAIN air' : air'[j] = air[i]
    BY <2>2, <2>3, <2>4
  <2> QED
    BY <2>2, <2>5, <2>6, <2>7, <2>8
<1> QED
  BY <1>1, <1>2

\* What inserting does to the table.
LEMMA InsertOK ==
    ASSUME TypeOK, StoredOnce, NEW h \in InfoHash, Insert(h)
    PROVE  /\ rows' \in Seq(InfoHash) /\ Len(rows) <= Len(rows')
           /\ StoredOnce' /\ Stored(h)'
           /\ \A g \in InfoHash : Stored(g) => Stored(g)'
           /\ \A i \in 1 .. Len(rows) : rows'[i] = rows[i]
<1>0. rows \in Seq(InfoHash) /\ Len(rows) \in Nat /\ DOMAIN rows = 1 .. Len(rows)
  BY LenProperties DEF TypeOK
<1>1. CASE Stored(h)
  <2>1. rows' = rows
    BY <1>1 DEF Insert
  <2> QED
    BY <1>0, <1>1, <2>1 DEF Stored, StoredOnce
<1>2. CASE ~ Stored(h)
  <2>1. rows' = Append(rows, h)
    BY <1>2 DEF Insert
  <2>2. /\ rows' \in Seq(InfoHash) /\ Len(rows') = Len(rows) + 1
        /\ rows'[Len(rows) + 1] = h /\ \A i \in 1 .. Len(rows) : rows'[i] = rows[i]
    BY <1>0, <2>1, AppendProperties
  <2>3. DOMAIN rows' = 1 .. Len(rows) + 1
    BY <1>0, <2>2, LenProperties
  <2>4. \A i \in 1 .. Len(rows) : rows[i] # h
    BY <1>0, <1>2 DEF Stored
  <2>5. StoredOnce'
    <3> SUFFICES ASSUME NEW i \in 1 .. Len(rows) + 1, NEW j \in 1 .. Len(rows) + 1,
                        rows'[i] = rows'[j] PROVE i = j
      BY <2>3 DEF StoredOnce
    <3>1. i \in 1 .. Len(rows) \/ i = Len(rows) + 1
      BY <1>0
    <3>2. j \in 1 .. Len(rows) \/ j = Len(rows) + 1
      BY <1>0
    <3> QED
      BY <1>0, <2>2, <2>4, <3>1, <3>2 DEF StoredOnce
  <2>6. Len(rows) + 1 \in DOMAIN rows' /\ DOMAIN rows \subseteq DOMAIN rows'
    BY <1>0, <2>3
  <2>7. Stored(h)'
    BY <2>2, <2>6 DEF Stored
  <2>8. \A g \in InfoHash : Stored(g) => Stored(g)'
    BY <1>0, <2>2, <2>6 DEF Stored
  <2> QED
    BY <1>0, <2>2, <2>5, <2>7, <2>8
<1> QED
  BY <1>1, <1>2

LEMMA InitPipeInv == Init => PipeInv
<1> SUFFICES ASSUME Init PROVE PipeInv
  OBVIOUS
<1>1. <<>> \in Seq(Request) /\ <<>> \in Seq(InfoHash) /\ Len(<<>>) = 0
  BY EmptySeq
<1>2. TypeOK
  <2>1. 0 <= Capacity /\ 0 \in 0 .. 0
    BY PipelineAssumption
  <2>2. air \in Seq(Request) /\ Len(air) <= Capacity
    BY <1>1, <2>1 DEF Init
  <2>3. rows \in Seq(InfoHash) /\ synced \in 0 .. Len(rows)
    BY <1>1, <2>1 DEF Init
  <2> QED
    BY <2>2, <2>3 DEF Init, TypeOK
<1> QED
  BY <1>2 DEF Init, PipeInv, Accounted, Published, StoredOnce

LEMMA PublishInv == ASSUME PipeInv, Publish PROVE PipeInv'
<1> USE DEF PipeInv
<1>1. PICK r \in Request \ fetched :
        /\ fetched' = fetched \cup {r}
        /\ IF sub = "running" THEN Send(r) ELSE UNCHANGED <<air, lagged>>
  BY DEF Publish
<1>2. UNCHANGED <<checked, sub, jobs, poisoned, rows, synced, failed>>
  BY DEF Publish
<1>3. CASE sub = "running"
  <2>1. /\ air' \in Seq(Request) /\ Len(air') <= Capacity /\ lagged' \in BOOLEAN
        /\ ~ lagged' =>
              /\ ~ lagged
              /\ \E i \in DOMAIN air' : air'[i] = r
              /\ \A i \in DOMAIN air : \E j \in DOMAIN air' : air'[j] = air[i]
    BY <1>1, <1>3, SendOK
  <2>2. TypeOK'
    BY <1>1, <1>2, <2>1 DEF TypeOK
  <2>3. Accounted'
    <3> SUFFICES ASSUME ~ lagged', NEW h \in Listable, Published(h)'
                 PROVE  Underway(h)' \/ Stored(h)' \/ h \in failed'
      BY DEF Accounted
    <3>1. CASE HashOf(r) = h
      BY <2>1, <3>1 DEF Underway
    <3>2. CASE HashOf(r) # h
      <4>1. Published(h)
        BY <1>1, <3>2 DEF Published
      <4>2. Underway(h) => Underway(h)'
        BY <1>2, <2>1 DEF Underway
      <4>3. Stored(h) => Stored(h)'
        BY <1>2 DEF Stored
      <4> QED
        BY <1>2, <2>1, <4>1, <4>2, <4>3 DEF Accounted
    <3> QED
      BY <3>1, <3>2
  <2> QED
    BY <1>2, <1>3, <2>2, <2>3 DEF StoredOnce
<1>4. CASE sub # "running"
  <2>1. lagged /\ UNCHANGED <<air, lagged>>
    BY <1>1, <1>4 DEF TypeOK
  <2> QED
    BY <1>1, <1>2, <2>1 DEF TypeOK, Accounted, StoredOnce
<1> QED
  BY <1>3, <1>4

LEMMA ReceiveInv == ASSUME PipeInv, Receive PROVE PipeInv'
<1> USE DEF PipeInv
<1>1. /\ air # <<>> /\ air' = Tail(air)
      /\ jobs' = IF HashOf(Head(air)) \in Listable THEN jobs \cup {Head(air)} ELSE jobs
      /\ UNCHANGED <<checked, fetched, lagged, sub, poisoned, rows, synced, failed>>
  BY DEF Receive
<1>2. /\ Head(air) \in Request /\ Tail(air) \in Seq(Request)
      /\ Len(air) \in Nat \ {0} /\ Len(Tail(air)) = Len(air) - 1
      /\ \A i \in DOMAIN air :
            air[i] = Head(air) \/ \E j \in DOMAIN Tail(air) : Tail(air)[j] = air[i]
  BY <1>1, HeadOfAir DEF TypeOK
<1>3. TypeOK'
  BY <1>1, <1>2, PipelineAssumption DEF TypeOK
<1>4. Accounted'
  <2> SUFFICES ASSUME ~ lagged, NEW h \in Listable, Published(h)
               PROVE  Underway(h)' \/ Stored(h) \/ h \in failed
    BY <1>1 DEF Accounted, Published, Stored
  <2>1. Underway(h) => Underway(h)'
    <3>1. ASSUME NEW i \in DOMAIN air, HashOf(air[i]) = h PROVE Underway(h)'
      <4>1. CASE air[i] = Head(air)
        BY <1>1, <3>1, <4>1 DEF Underway
      <4>2. CASE \E j \in DOMAIN Tail(air) : Tail(air)[j] = air[i]
        BY <1>1, <3>1, <4>2 DEF Underway
      <4> QED
        BY <1>2, <4>1, <4>2
    <3>2. ASSUME NEW r \in jobs, HashOf(r) = h PROVE Underway(h)'
      BY <1>1, <3>2 DEF Underway
    <3> QED
      BY <3>1, <3>2 DEF Underway
  <2> QED
    BY <2>1 DEF Accounted
<1> QED
  BY <1>1, <1>3, <1>4 DEF StoredOnce

LEMMA RunJobInv == ASSUME PipeInv, NEW r \in Request, RunJob(r) PROVE PipeInv'
<1> USE DEF PipeInv
<1>1. /\ Insert(HashOf(r)) /\ jobs' = jobs \ {r}
      /\ UNCHANGED <<checked, fetched, air, lagged, sub, poisoned, synced, failed>>
  BY DEF RunJob
<1>2. HashOf(r) \in InfoHash
  BY DEF Request, HashOf
<1>3. /\ rows' \in Seq(InfoHash) /\ Len(rows) <= Len(rows')
      /\ StoredOnce' /\ Stored(HashOf(r))'
      /\ \A g \in InfoHash : Stored(g) => Stored(g)'
  BY <1>1, <1>2, InsertOK
<1>4. TypeOK'
  <2>1. Len(rows) \in Nat /\ Len(rows') \in Nat
    BY <1>3, LenProperties DEF TypeOK
  <2>2. synced \in 0 .. Len(rows')
    BY <1>3, <2>1 DEF TypeOK
  <2> QED
    BY <1>1, <1>3, <2>2 DEF TypeOK
<1>5. Accounted'
  <2> SUFFICES ASSUME ~ lagged, NEW h \in Listable, Published(h)
               PROVE  Underway(h)' \/ Stored(h)' \/ h \in failed
    BY <1>1 DEF Accounted, Published
  <2>1. h \in InfoHash
    BY PipelineAssumption
  <2>2. CASE h = HashOf(r)
    BY <1>3, <2>2
  <2>3. CASE h # HashOf(r)
    <3>1. Underway(h) => Underway(h)'
      BY <1>1, <2>3 DEF Underway
    <3> QED
      BY <1>3, <2>1, <3>1 DEF Accounted
  <2> QED
    BY <2>2, <2>3
<1> QED
  BY <1>1, <1>3, <1>4, <1>5

LEMMA FailJobInv == ASSUME PipeInv, NEW r \in Request, FailJob(r) PROVE PipeInv'
<1> USE DEF PipeInv
<1>1. /\ jobs' = jobs \ {r} /\ failed' = failed \cup {HashOf(r)}
      /\ UNCHANGED <<checked, fetched, air, lagged, sub, poisoned, rows, synced>>
  BY DEF FailJob
<1>2. HashOf(r) \in InfoHash
  BY DEF Request, HashOf
<1>3. TypeOK'
  BY <1>1, <1>2 DEF TypeOK
<1>4. Accounted'
  <2> SUFFICES ASSUME ~ lagged, NEW h \in Listable, Published(h), h # HashOf(r)
               PROVE  Underway(h)' \/ Stored(h) \/ h \in failed
    BY <1>1 DEF Accounted, Published, Stored
  <2>1. Underway(h) => Underway(h)'
    BY <1>1 DEF Underway
  <2> QED
    BY <2>1 DEF Accounted
<1> QED
  BY <1>1, <1>3, <1>4 DEF StoredOnce

\* A process that starts has nothing published.
LEMMA StartInv ==
    ASSUME PipeInv, Start, UNCHANGED checked, rows' \in Seq(InfoHash), StoredOnce',
           synced' \in 0 .. Len(rows')
    PROVE  PipeInv'
<1>1. <<>> \in Seq(Request) /\ Len(<<>>) = 0
  BY EmptySeq
<1>2. TypeOK'
  <2>1. 0 <= Capacity
    BY PipelineAssumption
  <2>2. air' \in Seq(Request) /\ Len(air') <= Capacity
    BY <1>1, <2>1 DEF Start
  <2> QED
    BY <2>2 DEF Start, PipeInv, TypeOK
<1>3. Accounted'
  BY DEF Start, Accounted, Published
<1> QED
  BY <1>2, <1>3 DEF PipeInv, Start

\* The part of the table that a loss of power leaves.
LEMMA PowerLossKeeps ==
    ASSUME PipeInv, NEW n \in synced .. Len(rows), rows' = SubSeq(rows, 1, n)
    PROVE  /\ rows' \in Seq(InfoHash) /\ Len(rows') = n /\ StoredOnce'
           /\ \A i \in 1 .. n : rows'[i] = rows[i]
           /\ n \in Nat /\ synced <= n /\ n <= Len(rows)
<1>0. /\ rows \in Seq(InfoHash) /\ Len(rows) \in Nat /\ DOMAIN rows = 1 .. Len(rows)
      /\ synced \in Nat
  BY LenProperties DEF PipeInv, TypeOK
<1>1. n \in Nat /\ n <= Len(rows) /\ synced <= n
  BY <1>0
<1>2. \A i \in 1 .. n : rows[i] \in InfoHash
  BY <1>0, <1>1, ElementOfSeq
<1>3. /\ rows' \in Seq(InfoHash)
      /\ Len(rows') = IF 1 <= n THEN n - 1 + 1 ELSE 0
      /\ \A i \in 1 .. n - 1 + 1 : rows'[i] = rows[1 + i - 1]
  BY <1>1, <1>2, SubSeqProperties
<1>4. Len(rows') = n
  BY <1>1, <1>3
<1>5. \A i \in 1 .. n : rows'[i] = rows[i]
  BY <1>1, <1>3
<1>6. DOMAIN rows' = 1 .. n
  BY <1>3, <1>4, LenProperties
<1>7. StoredOnce'
  <2>1. 1 .. n \subseteq DOMAIN rows
    BY <1>0, <1>1
  <2> QED
    BY <1>5, <1>6, <2>1 DEF PipeInv, StoredOnce
<1> QED
  BY <1>1, <1>3, <1>4, <1>5, <1>7

LEMMA NextPipeInv == PipeInv /\ [Next]_vars => PipeInv'
<1> SUFFICES ASSUME PipeInv, [Next]_vars PROVE PipeInv'
  OBVIOUS
<1>1. CASE Publish
  BY <1>1, PublishInv
<1>2. CASE Receive
  BY <1>2, ReceiveInv
<1>3. CASE Lag
  <2>1. <<>> \in Seq(Request) /\ Len(<<>>) = 0
    BY EmptySeq
  <2> QED
    BY <1>3, <2>1, PipelineAssumption
       DEF Lag, PipeInv, TypeOK, Accounted, StoredOnce
<1>4. ASSUME NEW r \in Request, RunJob(r) PROVE PipeInv'
  BY <1>4, RunJobInv
<1>5. ASSUME NEW r \in Request, FailJob(r) PROVE PipeInv'
  BY <1>5, FailJobInv
<1>6. CASE Checkpoint
  <2>1. Len(rows) \in Nat
    BY LenProperties DEF PipeInv, TypeOK
  <2> QED
    BY <1>6, <2>1 DEF Checkpoint, PipeInv, TypeOK, Accounted, Underway, Stored,
                      Published, StoredOnce
<1>7. CASE ListOverflows
  BY <1>7 DEF ListOverflows, PipeInv, TypeOK, Accounted, Underway, Stored,
              Published, StoredOnce
<1>8. CASE Restart
  BY <1>8, StartInv DEF Restart, PipeInv, TypeOK, StoredOnce
<1>9. CASE PowerLoss
  <2>1. PICK n \in synced .. Len(rows) : rows' = SubSeq(rows, 1, n)
    BY <1>9 DEF PowerLoss
  <2>2. /\ rows' \in Seq(InfoHash) /\ Len(rows') = n /\ StoredOnce'
        /\ n \in Nat /\ synced <= n
    BY <2>1, PowerLossKeeps
  <2>3. synced' \in 0 .. Len(rows')
    BY <1>9, <2>2 DEF PowerLoss, PipeInv, TypeOK
  <2> QED
    BY <1>9, <2>2, <2>3, StartInv DEF PowerLoss
<1>10. CASE UNCHANGED vars
  BY <1>10 DEF vars, PipeInv, TypeOK, Accounted, Underway, Stored, Published,
               StoredOnce
<1> QED
  BY <1>1, <1>2, <1>3, <1>4, <1>5, <1>6, <1>7, <1>8, <1>9, <1>10 DEF Next

\* The inductive invariant, of every state.
THEOREM PipelineInvariance == Spec => []PipeInv
BY InitPipeInv, NextPipeInv, PTL DEF Spec

\* The channel never holds more than its capacity and no checkpoint has
\* written more rows than there are, whatever crashes.
THEOREM PipelineTypeCorrect == Spec => []TypeOK
<1>1. PipeInv => TypeOK
  BY DEF PipeInv
<1> QED
  BY <1>1, PipelineInvariance, PTL

\* As long as the subscriber has not lagged, metadata that was published is on
\* its way, stored, or lost to a failure of its own insert.
THEOREM PublishedIsAccounted == Spec => []Accounted
<1>1. PipeInv => Accounted
  BY DEF PipeInv
<1> QED
  BY <1>1, PipelineInvariance, PTL

\* A sequence is a prefix of one that agrees with it all along.
LEMMA PrefixWhenAgree ==
    ASSUME NEW s \in Seq(InfoHash), NEW t \in Seq(InfoHash), Len(s) <= Len(t),
           \A i \in 1 .. Len(s) : t[i] = s[i]
    PROVE  IsPrefix(s, t)
<1>0. Len(s) \in Nat /\ Len(t) \in Nat
  BY LenProperties
<1>1. /\ \A i \in 1 .. Len(s) : s[i] \in InfoHash
      /\ \A i \in 1 .. Len(s) : t[i] \in InfoHash
  BY <1>0, ElementOfSeq
<1>2. /\ SubSeq(s, 1, Len(s)) \in Seq(InfoHash)
      /\ Len(SubSeq(s, 1, Len(s))) = IF 1 <= Len(s) THEN Len(s) - 1 + 1 ELSE 0
      /\ \A i \in 1 .. Len(s) - 1 + 1 : SubSeq(s, 1, Len(s))[i] = s[1 + i - 1]
  BY <1>0, <1>1, SubSeqProperties
<1>3. /\ SubSeq(t, 1, Len(s)) \in Seq(InfoHash)
      /\ Len(SubSeq(t, 1, Len(s))) = IF 1 <= Len(s) THEN Len(s) - 1 + 1 ELSE 0
      /\ \A i \in 1 .. Len(s) - 1 + 1 : SubSeq(t, 1, Len(s))[i] = t[1 + i - 1]
  BY <1>0, <1>1, SubSeqProperties
<1>4. Len(SubSeq(s, 1, Len(s))) = Len(s) /\ Len(SubSeq(t, 1, Len(s))) = Len(s)
  BY <1>0, <1>2, <1>3
<1>5. \A i \in 1 .. Len(s) : SubSeq(s, 1, Len(s))[i] = SubSeq(t, 1, Len(s))[i]
  BY <1>0, <1>2, <1>3
<1>6. SubSeq(s, 1, Len(s)) = SubSeq(t, 1, Len(s))
  BY <1>2, <1>3, <1>4, <1>5, SeqEqual
<1> QED
  BY <1>6 DEF IsPrefix

\* A row once stored stays where it is; only a loss of power takes rows, the
\* latest, and none that a checkpoint has written.
THEOREM StoreOnlyGrows == Spec => StoreKeeps
<1> DEFINE Keeps ==
        \/ IsPrefix(rows, rows')
        \/ fetched' = {} /\ IsPrefix(rows', rows) /\ synced <= Len(rows')
<1>1. ASSUME PipeInv, [Next]_vars PROVE Keeps \/ UNCHANGED vars
  <2>0. rows \in Seq(InfoHash) /\ Len(rows) \in Nat
    BY <1>1, LenProperties DEF PipeInv, TypeOK
  <2>1. ASSUME UNCHANGED rows PROVE Keeps
    BY <2>0, <2>1, PrefixWhenAgree
  <2>2. ASSUME NEW r \in Request, RunJob(r) PROVE Keeps
    <3>1. HashOf(r) \in InfoHash /\ Insert(HashOf(r))
      BY <2>2 DEF RunJob, Request, HashOf
    <3>2. /\ rows' \in Seq(InfoHash) /\ Len(rows) <= Len(rows')
          /\ \A i \in 1 .. Len(rows) : rows'[i] = rows[i]
      BY <1>1, <3>1, InsertOK DEF PipeInv
    <3> QED
      BY <2>0, <3>2, PrefixWhenAgree
  <2>3. ASSUME PowerLoss PROVE Keeps
    <3>1. PICK n \in synced .. Len(rows) : rows' = SubSeq(rows, 1, n)
      BY <2>3 DEF PowerLoss
    <3>2. /\ rows' \in Seq(InfoHash) /\ Len(rows') = n
          /\ \A i \in 1 .. n : rows'[i] = rows[i]
          /\ n \in Nat /\ synced <= n /\ n <= Len(rows)
      BY <1>1, <3>1, PowerLossKeeps
    <3>3. IsPrefix(rows', rows)
      BY <2>0, <3>2, PrefixWhenAgree
    <3> QED
      BY <2>3, <3>2, <3>3 DEF PowerLoss, Start
  <2> QED
    BY <1>1, <2>1, <2>2, <2>3
       DEF Next, vars, Publish, Receive, Lag, FailJob, Checkpoint, ListOverflows, Restart
<1>2. PipeInv /\ [Next]_vars => [Keeps]_vars
  BY <1>1
<1> QED
  BY <1>2, PipelineInvariance, PTL DEF Spec, StoreKeeps

\* The reasons for which an info hash can be lost in a step.
Excused(h) ==
    \/ Underway(h) \/ h \in failed \/ lagged
    \/ /\ \E i \in synced + 1 .. Len(rows) : rows[i] = h
       /\ Len(rows') < Len(rows)

\* A process that starts has published nothing; what an earlier one had published
\* and that is not in the table has a reason.
LEMMA UnstoredExcused ==
    ASSUME PipeInv, NEW h \in Listable, Published(h), ~ Stored(h) PROVE Excused(h)
BY DEF PipeInv, Accounted, Excused

\* Nothing that was published is lost without a reason, whenever the process or
\* the machine stops.
THEOREM LossesHaveReasons == Spec => LossHasReason
<1>1. ASSUME PipeInv, [Next]_vars, NEW h \in Listable,
             Published(h) \/ Stored(h), ~ (Published(h) \/ Stored(h))'
      PROVE  Excused(h)
  <2>0. rows \in Seq(InfoHash) /\ Len(rows) \in Nat /\ DOMAIN rows = 1 .. Len(rows)
        /\ synced \in Nat /\ h \in InfoHash
    BY <1>1, LenProperties, PipelineAssumption DEF PipeInv, TypeOK
  <2>1. CASE UNCHANGED <<fetched, rows>>
    BY <1>1, <2>1 DEF Published, Stored
  <2>2. CASE Publish
    BY <1>1, <2>2 DEF Publish, Published, Stored
  <2>3. ASSUME NEW r \in Request, RunJob(r) PROVE FALSE
    <3>1. HashOf(r) \in InfoHash /\ Insert(HashOf(r)) /\ UNCHANGED fetched
      BY <2>3 DEF RunJob, Request, HashOf
    <3>2. Stored(h) => Stored(h)'
      BY <1>1, <2>0, <3>1, InsertOK DEF PipeInv
    <3> QED
      BY <1>1, <3>1, <3>2 DEF Published
  <2>4. CASE Restart
    <3>1. ~ Stored(h)
      BY <1>1, <2>4 DEF Restart, Stored
    <3> QED
      BY <1>1, <3>1, UnstoredExcused
  <2>5. CASE PowerLoss
    <3>1. PICK n \in synced .. Len(rows) : rows' = SubSeq(rows, 1, n)
      BY <2>5 DEF PowerLoss
    <3>2. /\ rows' \in Seq(InfoHash) /\ Len(rows') = n
          /\ \A i \in 1 .. n : rows'[i] = rows[i]
          /\ n \in Nat /\ synced <= n /\ n <= Len(rows)
      BY <1>1, <3>1, PowerLossKeeps
    <3>3. CASE Stored(h)
      <4>1. PICK i \in 1 .. Len(rows) : rows[i] = h
        BY <2>0, <3>3 DEF Stored
      <4>2. DOMAIN rows' = 1 .. n
        BY <3>2, LenProperties
      <4>3. ~ (i <= n)
        <5> SUFFICES ASSUME i <= n PROVE FALSE
          OBVIOUS
        <5>1. i \in DOMAIN rows' /\ rows'[i] = h
          BY <3>2, <4>1, <4>2
        <5> QED
          BY <1>1, <5>1 DEF Stored
      <4>4. i \in synced + 1 .. Len(rows) /\ Len(rows') < Len(rows)
        BY <2>0, <3>2, <4>1, <4>3
      <4> QED
        BY <4>1, <4>4 DEF Excused
    <3>4. CASE ~ Stored(h)
      BY <1>1, <3>4, UnstoredExcused
    <3> QED
      BY <3>3, <3>4
  <2> QED
    BY <1>1, <2>1, <2>2, <2>3, <2>4, <2>5
       DEF Next, vars, Receive, Lag, FailJob, Checkpoint, ListOverflows
<1>2. PipeInv /\ [Next]_vars =>
        [\A h \in Listable :
            (Published(h) \/ Stored(h)) /\ ~ (Published(h) \/ Stored(h))' =>
               \/ Underway(h) \/ h \in failed \/ lagged
               \/ /\ \E i \in synced + 1 .. Len(rows) : rows[i] = h
                  /\ Len(rows') < Len(rows)]_vars
  BY <1>1 DEF Excused
<1> QED
  BY <1>2, PipelineInvariance, PTL DEF Spec, LossHasReason

-----------------------------------------------------------------------------
(* The pages of the list handler. *)

\* How many elements of P are above i numbers the elements of P from the
\* largest down, 0, 1, ..., each number given once.
Above(P, i) == {j \in P : j > i}

LEMMA AboveOrders ==
    ASSUME NEW P \in SUBSET Nat, IsFiniteSet(P), NEW i \in P, NEW j \in P, i < j
    PROVE  Cardinality(Above(P, i)) # Cardinality(Above(P, j))
<1>0. i \in Nat /\ j \in Nat /\ \A x \in P : x \in Nat
  OBVIOUS
<1>1. /\ Above(P, j) \subseteq Above(P, i)
      /\ j \in Above(P, i) /\ j \notin Above(P, j)
  <2>1. \A x \in P : x > j => x > i
    BY <1>0
  <2>2. j > i /\ ~ (j > j)
    BY <1>0
  <2> QED
    BY <2>1, <2>2 DEF Above
<1>2. IsFiniteSet(Above(P, i))
  <2>1. Above(P, i) \subseteq P
    BY DEF Above
  <2> QED
    BY <2>1, FS_Subset
<1> QED
  BY <1>1, <1>2, FS_Subset

LEMMA AboveNumbers ==
    ASSUME NEW P \in SUBSET Nat, IsFiniteSet(P)
    PROVE  /\ Cardinality(P) \in Nat
           /\ \A k \in 1 .. Cardinality(P) :
                 \E i \in P : Cardinality(Above(P, i)) = k - 1
           /\ \A i \in P : \E k \in 1 .. Cardinality(P) : Cardinality(Above(P, i)) = k - 1
           /\ \A i, j \in P : Cardinality(Above(P, i)) = Cardinality(Above(P, j)) => i = j
<1> DEFINE n == Cardinality(P)
           T == 1 .. n
           f == [i \in P |-> Cardinality(Above(P, i)) + 1]
<1>1. n \in Nat
  BY FS_CardinalityType
<1>2. ASSUME NEW i \in P
      PROVE  Cardinality(Above(P, i)) \in Nat /\ Cardinality(Above(P, i)) + 1 \in T
  <2>1. Above(P, i) \subseteq P \ {i}
    BY DEF Above
  <2>2. IsFiniteSet(P \ {i}) /\ Cardinality(P \ {i}) = n - 1
    BY FS_RemoveElement
  <2>3. IsFiniteSet(Above(P, i)) /\ Cardinality(Above(P, i)) <= n - 1
    BY <2>1, <2>2, FS_Subset
  <2>4. Cardinality(Above(P, i)) \in Nat
    BY <2>3, FS_CardinalityType
  <2> QED
    BY <1>1, <2>3, <2>4
<1>3. ASSUME NEW i \in P, NEW j \in P,
             Cardinality(Above(P, i)) = Cardinality(Above(P, j))
      PROVE  i = j
  <2>1. ~ (i < j) /\ ~ (j < i)
    BY <1>3, AboveOrders
  <2> QED
    BY <2>1, i \in Nat, j \in Nat
<1>4. f \in Injection(P, T)
  <2>1. f \in [P -> T]
    BY <1>2
  <2>2. ASSUME NEW i \in P, NEW j \in P, f[i] = f[j] PROVE i = j
    BY <1>2, <1>3, <2>2
  <2> QED
    BY <2>1, <2>2 DEF Injection, IsInjective
<1>5. IsFiniteSet(T) /\ Cardinality(T) = n
  BY <1>1, FS_Interval
<1>6. f \in Surjection(P, T)
  BY <1>4, <1>5, FS_Injection
<1>7. \A k \in T : \E i \in P : f[i] = k
  BY <1>6 DEF Surjection
<1>8. ASSUME NEW k \in T PROVE \E i \in P : Cardinality(Above(P, i)) = k - 1
  <2>1. PICK i \in P : f[i] = k
    BY <1>7
  <2>2. Cardinality(Above(P, i)) + 1 = k /\ Cardinality(Above(P, i)) \in Nat
    BY <1>2, <2>1
  <2> QED
    BY <1>1, <2>2
<1>9. ASSUME NEW i \in P PROVE \E k \in T : Cardinality(Above(P, i)) = k - 1
  <2>1. /\ Cardinality(Above(P, i)) + 1 \in T
        /\ Cardinality(Above(P, i)) = (Cardinality(Above(P, i)) + 1) - 1
    BY <1>2
  <2> QED
    BY <2>1
<1> QED
  BY <1>1, <1>3, <1>8, <1>9

\* The answer to a search has every stored row that matches, and no other; as
\* the table has a row once, so has the answer.
LEMMA FoundOK ==
    ASSUME TypeOK, NEW search \in SUBSET InfoHash
    PROVE  /\ Found(search) \in Seq(search)
           /\ \A h \in search : Stored(h) => \E k \in DOMAIN Found(search) : Found(search)[k] = h
           /\ StoredOnce =>
                 \A k, l \in DOMAIN Found(search) : Found(search)[k] = Found(search)[l] => k = l
<1> DEFINE P == Matching(search)
           F == Found(search)
           Place(k) == CHOOSE i \in P : Cardinality(Above(P, i)) = k - 1
<1>1. P \in SUBSET Nat /\ IsFiniteSet(P) /\ P \subseteq DOMAIN rows
  <2>1. rows \in Seq(InfoHash) /\ DOMAIN rows = 1 .. Len(rows) /\ Len(rows) \in Nat
    BY LenProperties DEF TypeOK
  <2>2. IsFiniteSet(1 .. Len(rows))
    BY <2>1, FS_Interval
  <2> QED
    BY <2>1, <2>2, FS_Subset DEF Matching
<1>2. F = [k \in 1 .. Cardinality(P) |-> rows[Place(k)]]
  BY DEF Found, Above
<1> HIDE DEF P, F
<1>3. /\ Cardinality(P) \in Nat
      /\ \A k \in 1 .. Cardinality(P) : \E i \in P : Cardinality(Above(P, i)) = k - 1
      /\ \A i \in P : \E k \in 1 .. Cardinality(P) : Cardinality(Above(P, i)) = k - 1
      /\ \A i, j \in P : Cardinality(Above(P, i)) = Cardinality(Above(P, j)) => i = j
  BY <1>1, AboveNumbers
<1>4. ASSUME NEW k \in 1 .. Cardinality(P)
      PROVE  Place(k) \in P /\ Cardinality(Above(P, Place(k))) = k - 1
  BY <1>3
<1> HIDE DEF Place
<1>5. DOMAIN F = 1 .. Cardinality(P) /\ \A k \in DOMAIN F : F[k] = rows[Place(k)]
  BY <1>2
<1>6. \A i \in P : rows[i] \in search
  BY DEF P, Matching
<1>7. F \in Seq(search)
  BY <1>2, <1>3, <1>4, <1>6
<1>8. ASSUME NEW h \in search, Stored(h) PROVE \E k \in DOMAIN F : F[k] = h
  <2>1. PICK i \in DOMAIN rows : rows[i] = h
    BY <1>8 DEF Stored
  <2>2. i \in P
    BY <2>1 DEF P, Matching
  <2>3. PICK k \in 1 .. Cardinality(P) : Cardinality(Above(P, i)) = k - 1
    BY <1>3, <2>2
  <2>4. Place(k) = i
    BY <1>3, <1>4, <2>2, <2>3
  <2> QED
    BY <1>5, <2>1, <2>4
<1>9. ASSUME StoredOnce, NEW k \in DOMAIN F, NEW l \in DOMAIN F, F[k] = F[l]
      PROVE  k = l
  <2>1. Place(k) = Place(l)
    BY <1>1, <1>4, <1>5, <1>9 DEF StoredOnce
  <2>2. k - 1 = l - 1
    BY <1>4, <1>5, <2>1
  <2> QED
    BY <1>3, <1>5, <2>2
<1> QED
  BY <1>7, <1>8, <1>9 DEF F

\* Products with a page size.
LEMMA TimesMonotonic ==
    ASSUME NEW a \in Int, NEW b \in Int, NEW s \in Nat, a <= b
    PROVE  a * s <= b * s
OBVIOUS

\* How many pages L rows make, rounding up.
LEMMA RoundUp ==
    ASSUME NEW L \in Nat, NEW s \in Nat \ {0}
    PROVE  LET n == (L + s - 1) \div s
           IN  n \in Nat /\ L <= n * s /\ (n - 1) * s < L
<1> DEFINE n == (L + s - 1) \div s
<1>1. L + s - 1 \in Nat
  OBVIOUS
<1>2. n \in Nat /\ n * s <= L + s - 1 /\ L + s - 1 < n * s + s
  BY <1>1
<1> HIDE DEF n
<1>3. (n - 1) * s = n * s - s /\ n * s \in Nat
  BY <1>2
<1>4. L <= n * s /\ (n - 1) * s < L
  BY <1>2, <1>3
<1> QED
  BY <1>2, <1>4 DEF n

\* The place k lies on one page, the one that rounding up k gives.
LEMMA OnePage ==
    ASSUME NEW s \in Nat \ {0}, NEW k \in Int, NEW p \in Int, NEW q \in Int,
           (p - 1) * s < k, k <= p * s, (q - 1) * s < k, k <= q * s
    PROVE  p = q
<1>0. /\ p * s \in Int /\ q * s \in Int
      /\ (p - 1) * s \in Int /\ (q - 1) * s \in Int
  OBVIOUS
<1>1. ~ (p <= q - 1)
  <2> SUFFICES ASSUME p <= q - 1 PROVE FALSE
    OBVIOUS
  <2>1. p * s <= (q - 1) * s
    BY TimesMonotonic
  <2> QED
    BY <1>0, <2>1
<1>2. ~ (q <= p - 1)
  <2> SUFFICES ASSUME q <= p - 1 PROVE FALSE
    OBVIOUS
  <2>1. q * s <= (p - 1) * s
    BY TimesMonotonic
  <2> QED
    BY <1>0, <2>1
<1> QED
  BY <1>1, <1>2

Rows(s) == {s[i] : i \in DOMAIN s}

\* A page has the places that belong to it, as long as its offset fits a u32.
LEMMA PageHas ==
    ASSUME TypeOK, NEW search \in SUBSET InfoHash, NEW size \in PageSize,
           NEW page \in Nat \ {0}, (page - 1) * size < UInt32
    PROVE  Rows(PageOf(search, page, size)) =
              {Found(search)[k] : k \in {k \in DOMAIN Found(search) :
                                           (page - 1) * size < k /\ k <= page * size}}
<1> DEFINE F == Found(search)
           L == Len(F)
           o == (page - 1) * size
           e == LeastOf(o + size, L)
           s == SubSeq(F, o + 1, e)
<1>1. F \in Seq(search) /\ L \in Nat /\ DOMAIN F = 1 .. L
  <2>1. F \in Seq(search)
    BY FoundOK
  <2> QED
    BY <2>1, LenProperties
<1>2. size \in Nat \ {0}
  BY PipelineAssumption DEF PageSize
<1>3. o \in Nat /\ page * size = o + size
  BY <1>2
<1>4. Offset(page, size) = o
  BY <1>3, PipelineAssumption DEF Offset
<1>5. PageOf(search, page, size) = s
  BY <1>4 DEF PageOf
<1> HIDE DEF F, o
<1>6. e \in Nat /\ e <= L /\ e <= o + size /\ (e = L \/ e = o + size)
  <2>1. o + size \in Nat /\ L \in Nat
    BY <1>1, <1>2, <1>3
  <2> QED
    BY <2>1 DEF LeastOf
<1> HIDE DEF e, L
<1>7. /\ DOMAIN s = 1 .. e - o
      /\ \A i \in 1 .. e - o : s[i] = F[o + i]
  <2>1. \A i \in o + 1 .. e : F[i] \in search
    <3>1. \A i \in o + 1 .. e : i \in 1 .. L
      BY <1>1, <1>3, <1>6
    <3> QED
      BY <1>1, <3>1, ElementOfSeq DEF L
  <2>2. o + 1 \in Int /\ e \in Int
    BY <1>3, <1>6
  <2>3. /\ s \in Seq(search)
        /\ Len(s) = IF o + 1 <= e THEN e - (o + 1) + 1 ELSE 0
        /\ \A i \in 1 .. e - (o + 1) + 1 : s[i] = F[o + 1 + i - 1]
    BY <2>1, <2>2, SubSeqProperties
  <2>4. DOMAIN s = 1 .. Len(s)
    BY <2>3, LenProperties
  <2>5. 1 .. Len(s) = 1 .. e - o /\ e - (o + 1) + 1 = e - o
    BY <1>3, <1>6, <2>3
  <2>6. ASSUME NEW i \in 1 .. e - o PROVE s[i] = F[o + i]
    <3>1. o + 1 + i - 1 = o + i
      BY <1>3, <1>6
    <3> QED
      BY <2>3, <2>5, <3>1
  <2> QED
    BY <2>4, <2>5, <2>6
<1> HIDE DEF s
<1> DEFINE K == {k \in DOMAIN F : o < k /\ k <= o + size}
<1>8. ASSUME NEW i \in 1 .. e - o PROVE o + i \in K
  BY <1>1, <1>2, <1>3, <1>6
<1>9. ASSUME NEW k \in K PROVE k - o \in 1 .. e - o /\ o + (k - o) = k
  BY <1>1, <1>2, <1>3, <1>6
<1>10. Rows(s) = {F[k] : k \in K}
  <2>1. Rows(s) \subseteq {F[k] : k \in K}
    BY <1>7, <1>8 DEF Rows
  <2>2. ASSUME NEW k \in K PROVE F[k] \in Rows(s)
    <3>1. s[k - o] = F[k] /\ k - o \in DOMAIN s
      BY <1>7, <1>9
    <3> QED
      BY <3>1 DEF Rows
  <2> QED
    BY <2>1, <2>2
<1>11. Rows(PageOf(search, page, size)) = {F[k] : k \in {k \in DOMAIN F : o < k /\ k <= page * size}}
  BY <1>3, <1>5, <1>10
<1> QED
  BY <1>11 DEF F, o

\* PagesCover for one search and one page size.
LEMMA SearchCovered ==
    ASSUME TypeOK, StoredOnce, NEW search \in SUBSET InfoHash, NEW size \in PageSize,
           TotalPages(search, size) * size < UInt32
    PROVE  LET n == TotalPages(search, size)
               On(page) == Rows(PageOf(search, page, size))
           IN  /\ \A h \in search : Stored(h) =>
                     Cardinality({page \in 1 .. n : h \in On(page)}) = 1
               /\ \A page \in 1 .. n : On(page) # {} /\ On(page) \subseteq search
               /\ On(n + 1) = {}
<1> DEFINE F == Found(search)
           L == Len(F)
           n == TotalPages(search, size)
           On(page) == Rows(PageOf(search, page, size))
           Places(page) == {k \in DOMAIN F : (page - 1) * size < k /\ k <= page * size}
<1>1. /\ F \in Seq(search) /\ L \in Nat /\ DOMAIN F = 1 .. L
      /\ \A h \in search : Stored(h) => \E k \in DOMAIN F : F[k] = h
      /\ \A k, l \in DOMAIN F : F[k] = F[l] => k = l
  <2>1. F \in Seq(search)
    BY FoundOK
  <2> QED
    BY <2>1, FoundOK, LenProperties
<1>2. size \in Nat \ {0} /\ UInt32 \in Nat
  BY PipelineAssumption DEF PageSize
<1>3. n \in Nat /\ L <= n * size /\ (n - 1) * size < L
  BY <1>1, <1>2, RoundUp DEF TotalPages
<1>4. n * size < UInt32
  OBVIOUS
<1> HIDE DEF F, L, n
\* Which places a page has.
<1>5. ASSUME NEW page \in 1 .. n + 1
      PROVE  On(page) = {F[k] : k \in Places(page)}
  <2>1. page \in Nat \ {0} /\ page - 1 \in Int /\ page - 1 <= n
    BY <1>3
  <2>2. (page - 1) * size <= n * size
    BY <1>2, <1>3, <2>1, TimesMonotonic
  <2>3. (page - 1) * size < UInt32
    BY <1>2, <1>3, <1>4, <2>1, <2>2
  <2> QED
    BY <2>1, <2>3, PageHas DEF F
\* The page of a place.
<1>6. ASSUME NEW k \in DOMAIN F
      PROVE  \E p \in 1 .. n : {page \in 1 .. n : k \in Places(page)} = {p}
  <2> DEFINE p == (k + size - 1) \div size
  <2>1. k \in Nat /\ 1 <= k /\ k <= L
    BY <1>1
  <2>2. p \in Nat /\ k <= p * size /\ (p - 1) * size < k
    BY <1>2, <2>1, RoundUp
  <2> HIDE DEF p
  <2>3. 1 <= p
    <3>1. p = 0 => p * size = 0
      BY <1>2
    <3> QED
      BY <2>1, <2>2, <3>1
  <2>4. p <= n
    <3> SUFFICES ASSUME n <= p - 1 PROVE FALSE
      BY <1>3, <2>2
    <3>1. n * size <= (p - 1) * size
      BY <1>2, <1>3, <2>2, TimesMonotonic
    <3>2. n * size \in Int /\ (p - 1) * size \in Int
      BY <1>2, <1>3, <2>2
    <3> QED
      BY <1>1, <1>3, <2>1, <2>2, <3>1, <3>2
  <2>5. p \in 1 .. n /\ k \in Places(p)
    BY <1>3, <2>2, <2>3, <2>4
  <2>6. ASSUME NEW q \in 1 .. n, k \in Places(q) PROVE q = p
    BY <1>2, <1>3, <2>1, <2>2, <2>6, OnePage
  <2> QED
    BY <2>5, <2>6
<1>7. ASSUME NEW h \in search, Stored(h)
      PROVE  Cardinality({page \in 1 .. n : h \in On(page)}) = 1
  <2>1. PICK k \in DOMAIN F : F[k] = h
    BY <1>1, <1>7
  <2>2. ASSUME NEW page \in 1 .. n PROVE h \in On(page) <=> k \in Places(page)
    <3>1. page \in 1 .. n + 1
      BY <1>3
    <3>2. On(page) = {F[l] : l \in Places(page)}
      BY <1>5, <3>1
    <3>3. \A l \in Places(page) : F[l] = h => l = k
      BY <1>1, <2>1
    <3> HIDE DEF On, Places
    <3> QED
      BY <2>1, <3>2, <3>3
  <2>3. {page \in 1 .. n : h \in On(page)} = {page \in 1 .. n : k \in Places(page)}
    BY <2>2
  <2>4. PICK p \in 1 .. n : {page \in 1 .. n : k \in Places(page)} = {p}
    BY <1>6
  <2> QED
    BY <2>3, <2>4, FS_Singleton
<1>8. ASSUME NEW page \in 1 .. n
      PROVE  On(page) # {} /\ On(page) \subseteq search
  <2>1. page \in 1 .. n + 1 /\ page \in Int /\ page - 1 \in Int /\ page - 1 <= n - 1
    BY <1>3
  <2>2. On(page) = {F[k] : k \in Places(page)}
    BY <1>5, <2>1
  <2>3. (page - 1) * size <= (n - 1) * size
    BY <1>2, <1>3, <2>1, TimesMonotonic
  <2>4. /\ (page - 1) * size \in Nat /\ (n - 1) * size \in Int
        /\ page * size = (page - 1) * size + size
    BY <1>2, <1>3, <2>1
  <2>5. (page - 1) * size + 1 \in Places(page)
    BY <1>1, <1>2, <1>3, <2>3, <2>4
  <2>6. \A k \in DOMAIN F : F[k] \in search
    BY <1>1
  <2> QED
    BY <2>2, <2>5, <2>6
<1>9. On(n + 1) = {}
  <2>1. n + 1 \in 1 .. n + 1 /\ (n + 1) - 1 = n
    BY <1>3
  <2>2. Places(n + 1) = {}
    BY <1>1, <1>2, <1>3, <2>1
  <2> QED
    BY <1>5, <2>1, <2>2
<1> QED
  BY <1>7, <1>8, <1>9 DEF n

\* The pages, as many as the panel is told there are, show every row a search
\* matches on exactly one of them, none of them is empty and the next one is,
\* for any table, page size and width of the offset (list, api_torrents).
THEOREM PagesCoverTheTable == Spec => []PagesCover
<1>1. PipeInv => PagesCover
  BY SearchCovered DEF PipeInv, PagesCover, Rows
<1> QED
  BY <1>1, PipelineInvariance, PTL
=============================================================================
