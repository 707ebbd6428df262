-------------------------- MODULE DhtServerProofs --------------------------
(***************************************************************************)
(* Theorems about the answering side, for every number of peers, tokens    *)
(* and info hashes and for every bound on the lists.                       *)
(*                                                                         *)
(* The lists first: refreshing the last k of a list gives the last k of    *)
(* the refreshed list, so what PeersManager throws away never matters.     *)
(* Then the invariant: the token kept for an ip is one it was given since  *)
(* it last announced, a fresh pledge is the token that is kept, and every  *)
(* bounded list is the end of the history it was cut from.                 *)
(***************************************************************************)
EXTENDS DhtServer, SequenceTheorems, TLAPS

\* No peer twice.
Distinct(s) == \A i, j \in DOMAIN s : s[i] = s[j] => i = j

\* What Drop returns: the list when it has no p.
LEMMA DropNone ==
    ASSUME NEW s, NEW p, ~ Has(s, p) PROVE Drop(s, p) = s
BY DEF Drop

\* What Drop returns when p is at m.
LEMMA DropAt ==
    ASSUME NEW s \in Seq(Endpoint), Distinct(s), NEW p, NEW m \in 1 .. Len(s), s[m] = p
    PROVE  /\ Drop(s, p) \in Seq(Endpoint)
           /\ Len(Drop(s, p)) = Len(s) - 1
           /\ \A i \in 1 .. Len(s) - 1 :
                 Drop(s, p)[i] = IF i < m THEN s[i] ELSE s[i + 1]
<1>0. DOMAIN s = 1 .. Len(s) /\ Len(s) \in Nat
  BY LenProperties
<1>1. Has(s, p)
  BY <1>0 DEF Has
<1> DEFINE first == CHOOSE i \in DOMAIN s : s[i] = p /\ \A j \in 1 .. i - 1 : s[j] # p
           left  == SubSeq(s, 1, m - 1)
           right == SubSeq(s, m + 1, Len(s))
<1>2. first = m
  <2>1. \A j \in 1 .. m - 1 : s[j] # p
    BY <1>0 DEF Distinct
  <2>2. \A i \in DOMAIN s : s[i] = p => i = m
    BY <1>0 DEF Distinct
  <2> QED
    BY <1>0, <2>1, <2>2
<1>3. Drop(s, p) = left \o right
  BY <1>1, <1>2 DEF Drop
<1>4. \A i \in 1 .. Len(s) : s[i] \in Endpoint
  BY ElementOfSeq
<1>5. /\ left \in Seq(Endpoint) /\ Len(left) = m - 1
      /\ \A i \in 1 .. m - 1 : left[i] = s[i]
  <2>1. \A i \in 1 .. m - 1 : s[i] \in Endpoint
    BY <1>0, <1>4
  <2>2. /\ SubSeq(s, 1, m - 1) \in Seq(Endpoint)
        /\ Len(SubSeq(s, 1, m - 1)) = IF 1 <= m - 1 THEN m - 1 - 1 + 1 ELSE 0
        /\ \A i \in 1 .. m - 1 - 1 + 1 : SubSeq(s, 1, m - 1)[i] = s[1 + i - 1]
    BY <1>0, <2>1, SubSeqProperties
  <2> QED
    BY <1>0, <2>2
<1>6. /\ right \in Seq(Endpoint) /\ Len(right) = Len(s) - m
      /\ \A i \in 1 .. Len(s) - m : right[i] = s[m + i]
  <2>1. \A i \in m + 1 .. Len(s) : s[i] \in Endpoint
    BY <1>0, <1>4
  <2>2. /\ right \in Seq(Endpoint)
        /\ Len(right) = IF m + 1 <= Len(s) THEN Len(s) - (m + 1) + 1 ELSE 0
        /\ \A i \in 1 .. Len(s) - (m + 1) + 1 : right[i] = s[(m + 1) + i - 1]
    BY <1>0, <2>1, SubSeqProperties
  <2> HIDE DEF right
  <2>3. Len(s) - (m + 1) + 1 = Len(s) - m
    BY <1>0
  <2>4. Len(right) = Len(s) - m
    <3>1. CASE m + 1 <= Len(s)
      BY <2>2, <2>3, <3>1
    <3>2. CASE m = Len(s)
      <4>1. ~ (m + 1 <= Len(s)) /\ Len(s) - m = 0
        BY <1>0, <3>2
      <4>2. Len(right) = 0
        BY <2>2, <4>1
      <4> QED
        BY <4>1, <4>2
    <3>3. m + 1 <= Len(s) \/ m = Len(s)
      <4>1. m \in Int /\ m <= Len(s) /\ Len(s) \in Int
        BY <1>0
      <4> QED
        BY <4>1
    <3> QED
      BY <3>1, <3>2, <3>3
  <2>5. ASSUME NEW i \in 1 .. Len(s) - m PROVE right[i] = s[m + i]
    <3>1. (m + 1) + i - 1 = m + i
      BY <1>0
    <3> QED
      BY <2>2, <2>3, <3>1
  <2> QED
    BY <2>2, <2>4, <2>5
<1>7. /\ left \o right \in Seq(Endpoint)
      /\ Len(left \o right) = Len(s) - 1
      /\ \A i \in 1 .. Len(s) - 1 :
            (left \o right)[i] = IF i <= m - 1 THEN left[i] ELSE right[i - (m - 1)]
  <2> HIDE DEF left, right
  <2>1. Len(left) + Len(right) = Len(s) - 1
    BY <1>0, <1>5, <1>6
  <2>2. /\ left \o right \in Seq(Endpoint)
        /\ Len(left \o right) = Len(left) + Len(right)
        /\ \A i \in 1 .. Len(left) + Len(right) :
              (left \o right)[i] = IF i <= Len(left) THEN left[i] ELSE right[i - Len(left)]
    BY <1>5, <1>6, ConcatProperties
  <2> QED
    BY <1>5, <2>1, <2>2
<1>8. \A i \in 1 .. Len(s) - 1 :
         (left \o right)[i] = IF i < m THEN s[i] ELSE s[i + 1]
  <2> HIDE DEF left, right
  <2> QED
    BY <1>0, <1>5, <1>6, <1>7
<1> QED
  BY <1>3, <1>7, <1>8

\* Moving to the back keeps a list without repetition, p last.
LEMMA MoveToBackOK ==
    ASSUME NEW s \in Seq(Endpoint), Distinct(s), NEW p \in Endpoint
    PROVE  LET t == MoveToBack(s, p)
           IN  /\ t \in Seq(Endpoint)
               /\ Distinct(t)
               /\ Len(t) = IF Has(s, p) THEN Len(s) ELSE Len(s) + 1
               /\ t[Len(t)] = p
               /\ \A i \in 1 .. Len(t) - 1 : t[i] = Drop(s, p)[i]
<1> DEFINE t == MoveToBack(s, p)  d == Drop(s, p)
<1>0. DOMAIN s = 1 .. Len(s) /\ Len(s) \in Nat
  BY LenProperties
<1>1. /\ d \in Seq(Endpoint)
      /\ Len(d) = IF Has(s, p) THEN Len(s) - 1 ELSE Len(s)
      /\ \A i \in 1 .. Len(d) : d[i] # p
      /\ Distinct(d)
  <2>1. CASE ~ Has(s, p)
    BY <2>1, <1>0, DropNone DEF Has
  <2>2. CASE Has(s, p)
    <3>1. PICK m \in 1 .. Len(s) : s[m] = p
      BY <2>2, <1>0 DEF Has
    <3>2. /\ d \in Seq(Endpoint)
          /\ Len(d) = Len(s) - 1
          /\ \A i \in 1 .. Len(s) - 1 : d[i] = IF i < m THEN s[i] ELSE s[i + 1]
      BY <3>1, DropAt
    <3> HIDE DEF d
    <3>3. DOMAIN d = 1 .. Len(s) - 1
      BY <3>2, LenProperties
    <3>4. \A i \in 1 .. Len(s) : s[i] = p => i = m
      BY <3>1, <1>0 DEF Distinct
    <3>5. \A i \in 1 .. Len(s) - 1 : d[i] # p
      <4> SUFFICES ASSUME NEW i \in 1 .. Len(s) - 1 PROVE d[i] # p
        OBVIOUS
      <4>1. i \in 1 .. Len(s) /\ i + 1 \in 1 .. Len(s)
        BY <1>0
      <4>2. i < m => i # m
        BY <1>0
      <4>3. ~ i < m => i + 1 # m
        BY <1>0
      <4> QED
        BY <3>2, <3>4, <4>1, <4>2, <4>3
    <3>6. Distinct(d)
      <4> SUFFICES ASSUME NEW i \in 1 .. Len(s) - 1, NEW j \in 1 .. Len(s) - 1,
                          d[i] = d[j] PROVE i = j
        BY <3>3 DEF Distinct
      <4>1. /\ i \in 1 .. Len(s) /\ i + 1 \in 1 .. Len(s)
            /\ j \in 1 .. Len(s) /\ j + 1 \in 1 .. Len(s)
        BY <1>0
      <4>2. \A k, l \in 1 .. Len(s) : s[k] = s[l] => k = l
        BY <1>0 DEF Distinct
      <4>3. /\ d[i] = IF i < m THEN s[i] ELSE s[i + 1]
            /\ d[j] = IF j < m THEN s[j] ELSE s[j + 1]
        BY <3>2
      <4> DEFINE k == IF i < m THEN i ELSE i + 1
                 l == IF j < m THEN j ELSE j + 1
      <4>4. k \in 1 .. Len(s) /\ l \in 1 .. Len(s) /\ s[k] = s[l]
        BY <4>1, <4>3
      <4>5. k = l
        BY <4>2, <4>4
      <4> QED
        BY <4>5, <1>0
    <3> QED
      BY <2>2, <3>2, <3>5, <3>6
  <2> QED
    BY <2>1, <2>2
<1> HIDE DEF d
<1>2. t = Append(d, p)
  BY DEF d, MoveToBack
<1>3. /\ t \in Seq(Endpoint) /\ Len(t) = Len(d) + 1 /\ t[Len(d) + 1] = p
      /\ \A i \in 1 .. Len(d) : t[i] = d[i]
  BY <1>1, <1>2, AppendProperties
<1> HIDE DEF t
<1>4. /\ DOMAIN d = 1 .. Len(d) /\ Len(d) \in Nat
      /\ DOMAIN t = 1 .. Len(t)
  BY <1>1, <1>3, LenProperties
<1>5. Distinct(t)
  <2> SUFFICES ASSUME NEW i \in 1 .. Len(d) + 1, NEW j \in 1 .. Len(d) + 1,
                      t[i] = t[j] PROVE i = j
    BY <1>3, <1>4 DEF Distinct
  <2>1. \A k, l \in 1 .. Len(d) : d[k] = d[l] => k = l
    BY <1>1, <1>4 DEF Distinct
  <2>2. i \in 1 .. Len(d) \/ i = Len(d) + 1
    BY <1>4
  <2>3. j \in 1 .. Len(d) \/ j = Len(d) + 1
    BY <1>4
  <2> QED
    BY <1>1, <1>3, <2>1, <2>2, <2>3
<1>6. Len(t) = IF Has(s, p) THEN Len(s) ELSE Len(s) + 1
  <2>1. CASE Has(s, p)
    BY <2>1, <1>0, <1>1, <1>3
  <2>2. CASE ~ Has(s, p)
    BY <2>2, <1>0, <1>1, <1>3
  <2> QED
    BY <2>1, <2>2
<1>7. \A i \in 1 .. Len(t) - 1 : t[i] = d[i]
  <2>1. Len(t) - 1 = Len(d)
    BY <1>3, <1>4
  <2> QED
    BY <1>3, <2>1
<1> QED
  BY <1>3, <1>5, <1>6, <1>7 DEF t, d

\* The last n of a list.
LEMMA LatestOK ==
    ASSUME NEW s \in Seq(Endpoint), NEW n \in Nat \ {0}
    PROVE  LET c == IF Len(s) > n THEN Len(s) - n ELSE 0
           IN  /\ Latest(s, n) \in Seq(Endpoint)
               /\ Len(Latest(s, n)) = Len(s) - c
               /\ Len(Latest(s, n)) <= n
               /\ \A i \in 1 .. Len(s) - c : Latest(s, n)[i] = s[c + i]
<1> DEFINE c == IF Len(s) > n THEN Len(s) - n ELSE 0
<1>0. Len(s) \in Nat /\ c \in Nat /\ c <= Len(s) /\ Len(s) - c <= n
  BY LenProperties
<1>1. \A i \in 1 .. Len(s) : s[i] \in Endpoint
  BY ElementOfSeq
<1>2. Latest(s, n) = SubSeq(s, c + 1, Len(s))
  BY DEF Latest
<1> HIDE DEF c
<1>3. \A i \in c + 1 .. Len(s) : s[i] \in Endpoint
  BY <1>0, <1>1
<1>4. /\ Latest(s, n) \in Seq(Endpoint)
      /\ Len(Latest(s, n)) = IF c + 1 <= Len(s) THEN Len(s) - (c + 1) + 1 ELSE 0
      /\ \A i \in 1 .. Len(s) - (c + 1) + 1 : Latest(s, n)[i] = s[(c + 1) + i - 1]
  BY <1>0, <1>2, <1>3, SubSeqProperties
<1>5. /\ Len(Latest(s, n)) = Len(s) - c
      /\ \A i \in 1 .. Len(s) - c : Latest(s, n)[i] = s[c + i]
  BY <1>0, <1>4
<1> QED
  BY <1>0, <1>4, <1>5 DEF c

\* The last n of a list that is longer, or no longer, than that.
LEMMA LatestCuts ==
    ASSUME NEW s \in Seq(Endpoint), NEW n \in Nat \ {0}
    PROVE  /\ Len(s) > n => /\ Len(Latest(s, n)) = n
                            /\ \A i \in 1 .. n : Latest(s, n)[i] = s[Len(s) - n + i]
           /\ Len(s) <= n => /\ Len(Latest(s, n)) = Len(s)
                             /\ \A i \in 1 .. Len(s) : Latest(s, n)[i] = s[i]
<1>0. Len(s) \in Nat
  BY LenProperties
<1>1. ASSUME Len(s) > n
      PROVE  /\ Len(Latest(s, n)) = n
             /\ \A i \in 1 .. n : Latest(s, n)[i] = s[Len(s) - n + i]
  <2>1. Len(s) - (Len(s) - n) = n
    BY <1>0
  <2>2. /\ Len(Latest(s, n)) = Len(s) - (Len(s) - n)
        /\ \A i \in 1 .. Len(s) - (Len(s) - n) :
              Latest(s, n)[i] = s[Len(s) - n + i]
    BY <1>1, LatestOK
  <2> QED
    BY <2>1, <2>2
<1>2. ASSUME Len(s) <= n
      PROVE  /\ Len(Latest(s, n)) = Len(s)
             /\ \A i \in 1 .. Len(s) : Latest(s, n)[i] = s[i]
  <2>1. ~ (Len(s) > n) /\ Len(s) - 0 = Len(s)
    BY <1>0, <1>2
  <2>2. /\ Len(Latest(s, n)) = Len(s) - 0
        /\ \A i \in 1 .. Len(s) - 0 : Latest(s, n)[i] = s[0 + i]
    BY <2>1, LatestOK
  <2> QED
    BY <1>0, <2>1, <2>2
<1> QED
  BY <1>1, <1>2

\* Having a peer, for a list and for its end.
LEMMA DistinctPositions ==
    ASSUME NEW s \in Seq(Endpoint), Distinct(s)
    PROVE  \A k, l \in 1 .. Len(s) : s[k] = s[l] => k = l
BY LenProperties DEF Distinct

\* Refreshing the end of a list gives the end of the refreshed list.
LEMMA RefreshLatest ==
    ASSUME NEW r \in Seq(Endpoint), Distinct(r), NEW p \in Endpoint
    PROVE  Refreshed(Latest(r, PeersKept), p) = Latest(MoveToBack(r, p), PeersKept)
<1> DEFINE K == PeersKept
           n == Len(r)
           s == Latest(r, K)
           S == MoveToBack(s, p)
           R == MoveToBack(r, p)
<1>0. n \in Nat /\ DOMAIN r = 1 .. n /\ K \in Nat \ {0}
  BY LenProperties, ServerAssumption
<1>1. CASE n <= K
  <2>1. s = r
    <3>1. /\ s \in Seq(Endpoint) /\ Len(s) = n
          /\ \A i \in 1 .. n : s[i] = r[i]
      BY <1>0, <1>1, LatestOK
    <3> QED
      BY <3>1, SeqEqual
  <2> QED
    BY <2>1 DEF Refreshed
<1>2. CASE n > K
  <2>1. /\ s \in Seq(Endpoint) /\ Len(s) = K
        /\ \A i \in 1 .. K : s[i] = r[n - K + i]
    BY <1>0, <1>2, LatestOK, LatestCuts
  <2> HIDE DEF s
  <2>2. \A k, l \in 1 .. n : r[k] = r[l] => k = l
    BY DistinctPositions
  <2>3. Distinct(s)
    <3> SUFFICES ASSUME NEW k \in 1 .. K, NEW l \in 1 .. K, s[k] = s[l] PROVE k = l
      BY <2>1, LenProperties DEF Distinct
    <3>1. n - K + k \in 1 .. n /\ n - K + l \in 1 .. n
      BY <1>0, <1>2
    <3>2. n - K + k = n - K + l
      BY <2>1, <2>2, <3>1
    <3> QED
      BY <1>0, <3>2
  <2>4. /\ S \in Seq(Endpoint) /\ S[Len(S)] = p
        /\ Len(S) = IF Has(s, p) THEN K ELSE K + 1
        /\ \A i \in 1 .. Len(S) - 1 : S[i] = Drop(s, p)[i]
    BY <2>1, <2>3, MoveToBackOK
  <2>5. /\ R \in Seq(Endpoint) /\ R[Len(R)] = p
        /\ Len(R) = IF Has(r, p) THEN n ELSE n + 1
        /\ \A i \in 1 .. Len(R) - 1 : R[i] = Drop(r, p)[i]
    BY MoveToBackOK
  <2> DEFINE L == Latest(S, K)  M == Latest(R, K)
  <2> HIDE DEF S, R
  <2>6. L \in Seq(Endpoint) /\ M \in Seq(Endpoint)
    BY <1>0, <2>4, <2>5, LatestOK
  <2>10. Len(S) = K + 1 => Len(L) = K /\ \A i \in 1 .. K : L[i] = S[1 + i]
    <3> SUFFICES ASSUME Len(S) = K + 1
                 PROVE  Len(L) = K /\ \A i \in 1 .. K : L[i] = S[1 + i]
      OBVIOUS
    <3>1. Len(S) > K /\ Len(S) - K = 1
      BY <1>0
    <3>2. /\ Len(L) = K
          /\ \A i \in 1 .. K : L[i] = S[Len(S) - K + i]
      BY <1>0, <2>4, <3>1, LatestCuts
    <3> QED
      BY <3>1, <3>2
  \* p is not in the list.
  <2>7. ASSUME ~ Has(r, p) PROVE L = M
    <3>1. \A i \in 1 .. n : r[i] # p
      BY <1>0, <2>7 DEF Has
    <3>2. \A i \in 1 .. K : s[i] # p
      BY <1>0, <1>2, <2>1, <3>1
    <3>3. ~ Has(s, p)
      BY <2>1, <3>2, LenProperties DEF Has
    <3>4. Len(S) = K + 1 /\ \A i \in 1 .. K : S[i] = s[i]
      BY <1>0, <2>4, <3>3, DropNone
    <3>5. Len(R) = n + 1 /\ \A i \in 1 .. n : R[i] = r[i]
      BY <1>0, <2>5, <2>7, DropNone
    <3>6. /\ Len(L) = K
          /\ \A i \in 1 .. K : L[i] = S[1 + i]
      BY <2>10, <3>4
    <3>7. /\ Len(M) = K
          /\ \A i \in 1 .. K : M[i] = R[n + 1 - K + i]
      <4>1. Len(R) > K
        BY <1>0, <1>2, <3>5
      <4>2. /\ Len(M) = K
            /\ \A i \in 1 .. K : M[i] = R[Len(R) - K + i]
        BY <1>0, <2>5, <4>1, LatestCuts
      <4> QED
        BY <3>5, <4>2
    <3>8. ASSUME NEW i \in 1 .. K PROVE L[i] = M[i]
      <4>1. CASE i = K
        <5>1. 1 + i = Len(S) /\ n + 1 - K + i = Len(R)
          BY <1>0, <3>4, <3>5, <4>1
        <5> QED
          BY <2>4, <2>5, <3>6, <3>7, <5>1
      <4>2. CASE i # K
        <5>1. /\ 1 + i \in 1 .. K /\ n + 1 - K + i \in 1 .. n
              /\ n - K + (1 + i) = n + 1 - K + i
          BY <1>0, <1>2, <4>2
        <5>2. L[i] = s[1 + i]
          BY <3>4, <3>6, <5>1
        <5>3. s[1 + i] = r[n - K + (1 + i)]
          BY <2>1, <5>1
        <5>4. M[i] = R[n + 1 - K + i]
          BY <3>7
        <5>5. R[n + 1 - K + i] = r[n + 1 - K + i]
          BY <3>5, <5>1
        <5> QED
          BY <5>1, <5>2, <5>3, <5>4, <5>5
      <4> QED
        BY <4>1, <4>2
    <3> QED
      BY <2>6, <3>6, <3>7, <3>8, SeqEqual
  \* p is in the list, before its end s or in it.
  <2>8. ASSUME Has(r, p) PROVE L = M
    <3>1. PICK m \in 1 .. n : r[m] = p
      BY <1>0, <2>8 DEF Has
    <3>2. /\ Len(R) = n
          /\ \A i \in 1 .. n - 1 : R[i] = IF i < m THEN r[i] ELSE r[i + 1]
      <4>1. Len(R) = n
        BY <2>5, <2>8
      <4>2. \A i \in 1 .. n - 1 : Drop(r, p)[i] = IF i < m THEN r[i] ELSE r[i + 1]
        BY <3>1, DropAt
      <4> QED
        BY <2>5, <4>1, <4>2
    <3>3. /\ Len(M) = K
          /\ \A i \in 1 .. K : M[i] = R[n - K + i]
      <4>1. Len(R) > K
        BY <1>0, <1>2, <3>2
      <4>2. /\ Len(M) = K
            /\ \A i \in 1 .. K : M[i] = R[Len(R) - K + i]
        BY <1>0, <2>5, <4>1, LatestCuts
      <4> QED
        BY <3>2, <4>2
    <3>4. M[K] = p
      <4>1. K \in 1 .. K /\ n - K + K = n
        BY <1>0
      <4> QED
        BY <2>5, <3>2, <3>3, <4>1
    <3>5. ASSUME m <= n - K PROVE L = M
      <4>1. \A i \in 1 .. K : s[i] # p
        <5> SUFFICES ASSUME NEW i \in 1 .. K PROVE s[i] # p
          OBVIOUS
        <5>1. n - K + i \in 1 .. n /\ n - K + i # m
          BY <1>0, <1>2, <3>5
        <5> QED
          BY <2>1, <2>2, <3>1, <5>1
      <4>2. ~ Has(s, p)
        BY <2>1, <4>1, LenProperties DEF Has
      <4>3. Len(S) = K + 1 /\ \A i \in 1 .. K : S[i] = s[i]
        BY <1>0, <2>4, <4>2, DropNone
      <4>4. /\ Len(L) = K
            /\ \A i \in 1 .. K : L[i] = S[1 + i]
        BY <2>10, <4>3
      <4>5. ASSUME NEW i \in 1 .. K PROVE L[i] = M[i]
        <5>1. CASE i = K
          <6>1. 1 + i = Len(S)
            BY <1>0, <4>3, <5>1
          <6> QED
            BY <2>4, <3>4, <4>4, <5>1, <6>1
        <5>2. CASE i # K
          <6>1. /\ 1 + i \in 1 .. K /\ n - K + i \in 1 .. n - 1
                /\ ~ (n - K + i < m)
                /\ n - K + (1 + i) = n - K + i + 1
            BY <1>0, <1>2, <3>5, <5>2
          <6>2. L[i] = r[n - K + (1 + i)]
            BY <2>1, <4>3, <4>4, <6>1
          <6>3. M[i] = r[n - K + i + 1]
            BY <3>2, <3>3, <6>1
          <6> QED
            BY <6>1, <6>2, <6>3
        <5> QED
          BY <5>1, <5>2
      <4> QED
        BY <2>6, <3>3, <4>4, <4>5, SeqEqual
    <3>6. ASSUME m > n - K PROVE L = M
      <4> DEFINE q == m - (n - K)
      <4>1. q \in 1 .. K /\ n - K + q = m
        BY <1>0, <1>2, <3>6
      <4>2. s[q] = p
        BY <2>1, <3>1, <4>1
      <4>3. Has(s, p)
        BY <2>1, <4>1, <4>2, LenProperties DEF Has
      <4>4. /\ Len(S) = K
            /\ \A i \in 1 .. K - 1 : S[i] = IF i < q THEN s[i] ELSE s[i + 1]
        <5>1. Len(S) = K
          BY <2>4, <4>3
        <5> HIDE DEF q
        <5>2. \A i \in 1 .. K - 1 : Drop(s, p)[i] = IF i < q THEN s[i] ELSE s[i + 1]
          BY <2>1, <2>3, <4>1, <4>2, DropAt
        <5> QED
          BY <2>4, <5>1, <5>2
      <4>5. Len(L) = K /\ \A i \in 1 .. K : L[i] = S[i]
        <5>1. Len(S) <= K
          BY <1>0, <4>4
        <5> QED
          BY <1>0, <2>4, <4>4, <5>1, LatestCuts
      <4>6. ASSUME NEW i \in 1 .. K PROVE L[i] = M[i]
        <5>1. CASE i = K
          BY <2>4, <3>4, <4>4, <4>5, <5>1
        <5>2. CASE i # K
          <6>1. /\ i \in 1 .. K - 1 /\ i + 1 \in 1 .. K
                /\ n - K + i \in 1 .. n - 1
                /\ n - K + i < m <=> i < q
                /\ n - K + (i + 1) = n - K + i + 1
            BY <1>0, <1>2, <3>6, <5>2
          <6> HIDE DEF q
          <6>2. L[i] = IF i < q THEN s[i] ELSE s[i + 1]
            BY <4>4, <4>5, <6>1
          <6>3. M[i] = IF i < q THEN r[n - K + i] ELSE r[n - K + (i + 1)]
            BY <3>2, <3>3, <6>1
          <6> QED
            BY <2>1, <6>1, <6>2, <6>3
        <5> QED
          BY <5>1, <5>2
      <4> QED
        BY <2>6, <3>3, <4>5, <4>6, SeqEqual
    <3> QED
      BY <1>0, <3>5, <3>6
  <2>9. L = M
    BY <2>7, <2>8
  <2> QED
    BY <2>9 DEF Refreshed, S, R, s
<1> QED
  BY <1>0, <1>1, <1>2

-----------------------------------------------------------------------------

\* The token kept for an ip is one it was given since it last announced.
TokensGiven == \A i \in Ip : tokens[i] # NoEntry => tokens[i].tok \in given[i]

\* A token given within its ten minutes is the one kept.
PledgesHeld ==
    \A i \in Ip : \A t \in pledge[i] : tokens[i] = [state |-> "fresh", tok |-> t]

\* Every list of peers is the end of its history.
ListsLatest ==
    \A h \in InfoHash :
        Distinct(recent[h]) /\ peers[h] = Latest(recent[h], PeersKept)

ServerInv == TypeOK /\ TokensGiven /\ PledgesHeld /\ ListsLatest /\ AnswersLatest

\* The port an announce names, converted, is a port; a port is left as it is.
LEMMA PortOfOK ==
    ASSUME NEW n \in Int
    PROVE  PortOf(n) \in Port /\ (n \in Port => PortOf(n) = n)
<1> DEFINE half == Int32 \div 2
<1>1. /\ UInt16 \in Nat \ {0} /\ half \in Nat /\ Int32 = half + half
      /\ UInt16 <= half /\ Int32 \in Nat \ {0}
  BY ServerAssumption
<1> HIDE DEF half
<1>2. \A a \in Nat, b \in Nat \ {0} : a < b => a % b = a
  OBVIOUS
<1>3. \A a \in Int, b \in Nat \ {0} : a % b \in 0 .. b - 1
  OBVIOUS
<1> DEFINE i == ((n + half) % Int32) - half
<1>4. PortOf(n) = IF i < 0 THEN 0 ELSE i % UInt16
  BY DEF PortOf, half
<1>5. i \in Int
  BY <1>1, <1>3
<1>6. PortOf(n) \in Port
  BY <1>1, <1>3, <1>4, <1>5 DEF Port
<1>7. ASSUME n \in Port PROVE PortOf(n) = n
  <2>1. n \in Nat /\ n < UInt16 /\ n + half \in Nat /\ n + half < Int32
    BY <1>1, <1>7 DEF Port
  <2>2. (n + half) % Int32 = n + half
    BY <1>1, <1>2, <2>1
  <2>3. i = n
    BY <1>1, <2>1, <2>2
  <2>4. n % UInt16 = n
    BY <1>1, <1>2, <2>1
  <2> QED
    BY <1>4, <2>1, <2>3, <2>4
<1> QED
  BY <1>6, <1>7

\* What PeersManager::insert does to the lists and their histories.
LEMMA InsertPeerOK ==
    ASSUME TypeOK, ListsLatest, NEW h \in InfoHash, NEW p \in Endpoint,
           InsertPeer(h, p)
    PROVE  /\ peers' \in [InfoHash -> Seq(Endpoint)]
           /\ \A g \in InfoHash : Len(peers'[g]) <= PeersKept
           /\ recent' \in [InfoHash -> Seq(Endpoint)]
           /\ ListsLatest'
           /\ Takes(h) => peers'[h] # <<>> /\ peers'[h][Len(peers'[h])] = p
<1> DEFINE r == recent[h]  R == MoveToBack(r, p)  L == Latest(R, PeersKept)
<1>0. r \in Seq(Endpoint) /\ Distinct(r) /\ peers[h] = Latest(r, PeersKept)
      /\ PeersKept \in Nat \ {0}
  BY ServerAssumption DEF TypeOK, ListsLatest
<1>1. R \in Seq(Endpoint) /\ Distinct(R) /\ R[Len(R)] = p /\ Len(R) \in Nat \ {0}
  <2>1. R \in Seq(Endpoint) /\ Distinct(R) /\ R[Len(R)] = p
        /\ Len(R) = IF Has(r, p) THEN Len(r) ELSE Len(r) + 1
    BY <1>0, MoveToBackOK
  <2>2. Len(r) \in Nat /\ (Has(r, p) => Len(r) # 0)
    BY <1>0, LenProperties DEF Has
  <2>3. CASE Has(r, p)
    BY <2>1, <2>2, <2>3
  <2>4. CASE ~ Has(r, p)
    BY <2>1, <2>2, <2>4
  <2> QED
    BY <2>1, <2>3, <2>4
<1>2. Refreshed(peers[h], p) = L
  BY <1>0, RefreshLatest
<1> HIDE DEF r, R
<1>3. /\ L \in Seq(Endpoint) /\ Len(L) <= PeersKept
      /\ Len(L) \in Nat \ {0} /\ L[Len(L)] = p
  <2>1. L \in Seq(Endpoint) /\ Len(L) <= PeersKept
    BY <1>0, <1>1, LatestOK
  <2>2. CASE Len(R) > PeersKept
    <3>1. Len(L) = PeersKept /\ \A i \in 1 .. PeersKept : L[i] = R[Len(R) - PeersKept + i]
      BY <1>0, <1>1, <2>2, LatestCuts
    <3>2. PeersKept \in 1 .. PeersKept /\ Len(R) - PeersKept + PeersKept = Len(R)
      BY <1>0, <1>1
    <3> QED
      BY <1>0, <1>1, <2>1, <3>1, <3>2
  <2>3. CASE Len(R) <= PeersKept
    <3>1. Len(L) = Len(R) /\ \A i \in 1 .. Len(R) : L[i] = R[i]
      BY <1>0, <1>1, <2>3, LatestCuts
    <3> QED
      BY <1>1, <2>1, <3>1
  <2> QED
    BY <1>0, <1>1, <2>2, <2>3
<1> HIDE DEF L
<1>4. CASE Takes(h)
  <2>1. peers' = [peers EXCEPT ![h] = L] /\ recent' = [recent EXCEPT ![h] = R]
    BY <1>2, <1>4 DEF InsertPeer, R, r
  <2>2. ListsLatest'
    <3> SUFFICES ASSUME NEW g \in InfoHash
                 PROVE  Distinct(recent'[g]) /\ peers'[g] = Latest(recent'[g], PeersKept)
      BY DEF ListsLatest, Latest
    <3>1. CASE g = h
      BY <1>1, <2>1, <3>1 DEF TypeOK, L
    <3>2. CASE g # h
      BY <2>1, <3>2 DEF TypeOK, ListsLatest
    <3> QED
      BY <3>1, <3>2
  <2>3. peers'[h] # <<>> /\ peers'[h][Len(peers'[h])] = p
    <3>1. peers'[h] = L
      BY <2>1 DEF TypeOK
    <3>2. L # <<>>
      BY <1>3, EmptySeq
    <3> QED
      BY <1>3, <3>1, <3>2
  <2> QED
    BY <1>1, <1>3, <2>1, <2>2, <2>3 DEF TypeOK
<1>5. CASE ~ Takes(h)
  <2>1. peers' = peers /\ recent' = recent
    BY <1>5 DEF InsertPeer
  <2> QED
    BY <1>5, <2>1 DEF TypeOK, ListsLatest, Latest
<1> QED
  BY <1>4, <1>5

LEMMA EmptyLatest == Latest(<<>>, PeersKept) = <<>>
BY SubSeqEmpty, ServerAssumption DEF Latest

LEMMA InitServerInv == Init => ServerInv
<1> SUFFICES ASSUME Init PROVE ServerInv
  OBVIOUS
<1>1. <<>> \in Seq(Endpoint) /\ Len(<<>>) = 0
  BY EmptySeq
<1>2. TypeOK
  BY <1>1, ServerAssumption DEF Init, TypeOK, Event
<1>3. ListsLatest
  BY EmptyLatest DEF Init, ListsLatest, Distinct
<1> QED
  BY <1>2, <1>3 DEF Init, ServerInv, TokensGiven, PledgesHeld, AnswersLatest, Silence

\* Cutting a list twice cuts no more.
LEMMA LatestShort ==
    ASSUME NEW s \in Seq(Endpoint), Len(s) <= PeersKept
    PROVE  Latest(s, PeersKept) = s
<1>1. PeersKept \in Nat \ {0}
  BY ServerAssumption
<1>2. Latest(s, PeersKept) \in Seq(Endpoint)
  BY <1>1, LatestOK
<1> QED
  BY <1>1, <1>2, LatestCuts, SeqEqual

\* Forgetting or keeping nodes keeps the cache's type.
LEMMA TableInsertOK ==
    ASSUME cached \subseteq Sender, NEW e \in Sender, TableInsert(e)
    PROVE  cached' \subseteq Sender
BY DEF TableInsert

\* The peers and their histories survive a step that leaves them alone.
LEMMA ListsStutter ==
    ASSUME TypeOK, ListsLatest, UNCHANGED <<peers, recent>>
    PROVE  /\ peers' \in [InfoHash -> Seq(Endpoint)]
           /\ \A h \in InfoHash : Len(peers'[h]) <= PeersKept
           /\ recent' \in [InfoHash -> Seq(Endpoint)]
           /\ ListsLatest'
BY DEF TypeOK, ListsLatest, Latest

LEMMA GetPeersInv == ASSUME ServerInv, GetPeers PROVE ServerInv'
<1> USE DEF ServerInv
<1>1. PICK e \in Sender, h \in InfoHash, t \in Token :
        /\ Gives(e.ip, t)
        /\ tokens' = [tokens EXCEPT ![e.ip] = [state |-> "fresh", tok |-> t]]
        /\ given' = [given EXCEPT ![e.ip] = @ \cup {t}]
        /\ pledge' = [pledge EXCEPT ![e.ip] = @ \cup {t}]
        /\ out' = [kind |-> "given", ip |-> e.ip, tok |-> t, h |-> h,
                   values |-> IF crawl THEN <<>> ELSE Listed(h)]
        /\ TableInsert(e)
  BY DEF GetPeers
<1>2. e.ip \in Ip /\ UNCHANGED <<crawl, peers, recent>>
  BY DEF Sender, GetPeers
<1>3. [state |-> "fresh", tok |-> t] \in Entry
  BY DEF Entry
<1>4. Listed(h) \in Seq(Endpoint) /\ Listed(h) = Latest(recent[h], PeersKept)
  BY LatestShort DEF Listed, ListsLatest, TypeOK
<1>5. out' \in Event
  <2>1. (IF crawl THEN <<>> ELSE Listed(h)) \in Seq(Endpoint)
    BY <1>4, EmptySeq
  <2> QED
    BY <1>1, <1>2, <2>1 DEF Event
<1>6. TypeOK'
  <2>1. cached' \subseteq Sender
    BY <1>1, TableInsertOK DEF TypeOK
  <2> QED
    BY <1>1, <1>2, <1>3, <1>5, <2>1, ListsStutter DEF TypeOK
<1>7. TokensGiven'
  BY <1>1, <1>2 DEF TypeOK, TokensGiven
<1>8. PledgesHeld'
  <2> SUFFICES ASSUME NEW i \in Ip, NEW u \in pledge'[i]
               PROVE  tokens'[i] = [state |-> "fresh", tok |-> u]
    BY DEF PledgesHeld
  <2>1. CASE i # e.ip
    BY <1>1, <1>2, <2>1 DEF TypeOK, PledgesHeld
  <2>2. CASE i = e.ip
    <3>1. tokens'[i] = [state |-> "fresh", tok |-> t]
      BY <1>1, <1>2, <2>2 DEF TypeOK
    <3>2. CASE u = t
      BY <3>1, <3>2
    <3>3. CASE u \in pledge[i]
      <4>1. tokens[i] = [state |-> "fresh", tok |-> u]
        BY <3>3 DEF PledgesHeld
      <4>2. t = u
        BY <1>1, <2>2, <4>1 DEF Gives
      <4> QED
        BY <3>1, <4>2
    <3> QED
      BY <1>1, <1>2, <2>2, <3>2, <3>3 DEF TypeOK
  <2> QED
    BY <2>1, <2>2
<1>9. AnswersLatest'
  BY <1>1, <1>2, <1>4 DEF AnswersLatest, Latest
<1> QED
  BY <1>2, <1>6, <1>7, <1>8, <1>9, ListsStutter

LEMMA AnnounceInv == ASSUME ServerInv, AnnouncePeer PROVE ServerInv'
<1> USE DEF ServerInv
<1>1. PICK e \in Sender, h \in InfoHash \cup {NoHash}, t \in Token,
           n \in NamedPort, implied \in BOOLEAN : Announce(e, h, t, n, implied)
  BY DEF AnnouncePeer
<1> DEFINE p == Announced(e, n, implied)
<1>2. e.ip \in Ip /\ e.port \in Port /\ n \in Int
  BY ServerAssumption DEF Sender, Port
<1>3. p \in Endpoint
  BY <1>2, PortOfOK DEF Endpoint, Announced
<1> HIDE DEF p
<1>4. /\ tokens' \in [Ip -> {NoEntry} \cup Entry]
      /\ given' \in [Ip -> SUBSET Token]
      /\ pledge' \in [Ip -> SUBSET Token]
      /\ TokensGiven' /\ PledgesHeld'
  BY <1>1, <1>2 DEF Announce, TypeOK, Take, TokensGiven, PledgesHeld
<1>5. out' \in Event /\ AnswersLatest'
  BY <1>1, <1>2, <1>3 DEF Announce, Event, AnswersLatest, Silence, p
<1>6. cached' \subseteq Sender
  BY <1>1, TableInsertOK DEF Announce, TypeOK
<1>7. /\ peers' \in [InfoHash -> Seq(Endpoint)]
      /\ \A g \in InfoHash : Len(peers'[g]) <= PeersKept
      /\ recent' \in [InfoHash -> Seq(Endpoint)]
      /\ ListsLatest'
  <2>1. CASE UNCHANGED <<peers, recent>>
    BY <2>1, ListsStutter
  <2>2. CASE h # NoHash /\ InsertPeer(h, p)
    BY <1>3, <2>2, InsertPeerOK
  <2> QED
    BY <1>1, <2>1, <2>2 DEF Announce, p
<1> QED
  BY <1>1, <1>4, <1>5, <1>6, <1>7 DEF Announce, TypeOK

LEMMA NextServerInv == ServerInv /\ [Next]_vars => ServerInv'
<1> SUFFICES ASSUME ServerInv, [Next]_vars PROVE ServerInv'
  OBVIOUS
<1> USE DEF ServerInv
<1>0. Silence \in Event
  BY DEF Event
<1>1. CASE FindNode
  <2>1. UNCHANGED <<crawl, tokens, peers, given, pledge, recent>> /\ out' = Silence
    BY <1>1 DEF FindNode
  <2>2. cached' \subseteq Sender
    BY <1>1, TableInsertOK DEF FindNode, TypeOK
  <2> QED
    BY <1>0, <2>1, <2>2, ListsStutter
       DEF TypeOK, TokensGiven, PledgesHeld, AnswersLatest, Silence
<1>2. CASE GetPeers
  BY <1>2, GetPeersInv
<1>3. CASE AnnouncePeer
  BY <1>3, AnnounceInv
<1>4. CASE Learn
  <2>1. UNCHANGED <<crawl, tokens, cached, given, pledge>> /\ out' = Silence
    BY <1>4 DEF Learn
  <2>2. PICK h \in InfoHash, p \in Sender : InsertPeer(h, p)
    BY <1>4 DEF Learn
  <2>3. p \in Endpoint
    BY ServerAssumption DEF Sender, Endpoint, Port
  <2>4. /\ peers' \in [InfoHash -> Seq(Endpoint)]
        /\ \A g \in InfoHash : Len(peers'[g]) <= PeersKept
        /\ recent' \in [InfoHash -> Seq(Endpoint)]
        /\ ListsLatest'
    BY <2>2, <2>3, InsertPeerOK
  <2> QED
    BY <1>0, <2>1, <2>4
       DEF TypeOK, TokensGiven, PledgesHeld, AnswersLatest, Silence
<1>5. CASE Expire
  <2>1. UNCHANGED <<crawl, peers, cached, given, recent>> /\ out' = Silence
    BY <1>5 DEF Expire
  <2>2. PICK i \in Ip : /\ tokens[i].state = "fresh"
                        /\ tokens' = Aged(tokens, i)
                        /\ pledge' = [pledge EXCEPT ![i] = {}]
    BY <1>5 DEF Expire
  <2>3. tokens[i] \in Entry
    BY <2>2 DEF TypeOK, NoEntry
  <2>4. [tokens[i] EXCEPT !.state = "old"] = [state |-> "old", tok |-> tokens[i].tok]
    BY <2>3 DEF Entry
  <2>5. tokens' = [tokens EXCEPT ![i] = [state |-> "old", tok |-> tokens[i].tok]]
    BY <2>2, <2>4 DEF Aged
  <2>6. [state |-> "old", tok |-> tokens[i].tok] \in Entry
    BY <2>3 DEF Entry
  <2>7. tokens' \in [Ip -> {NoEntry} \cup Entry] /\ pledge' \in [Ip -> SUBSET Token]
    BY <2>2, <2>5, <2>6 DEF TypeOK
  <2>8. tokens[i] # NoEntry
    BY <2>2 DEF NoEntry
  <2>9. TokensGiven' /\ PledgesHeld'
    BY <2>1, <2>2, <2>5, <2>8 DEF TypeOK, TokensGiven, PledgesHeld
  <2> QED
    BY <1>0, <2>1, <2>7, <2>9, ListsStutter DEF TypeOK, AnswersLatest, Silence
<1>6. CASE Tick
  <2>1. /\ UNCHANGED <<crawl, peers, given, pledge, recent>> /\ out' = Silence
        /\ tokens' = [i \in Ip |-> IF Swept(i) THEN NoEntry ELSE tokens[i]]
        /\ cached' \subseteq cached
    BY <1>6 DEF Tick
  <2>2. TokensGiven' /\ PledgesHeld'
    <3>1. TokensGiven'
      BY <2>1 DEF TokensGiven
    <3>2. PledgesHeld'
      <4> SUFFICES ASSUME NEW i \in Ip, NEW t \in pledge[i]
                   PROVE  tokens'[i] = [state |-> "fresh", tok |-> t]
        BY <2>1 DEF PledgesHeld
      <4>1. tokens[i] = [state |-> "fresh", tok |-> t]
        BY DEF PledgesHeld
      <4>2. ~ Swept(i)
        BY <4>1 DEF Swept
      <4> QED
        BY <2>1, <4>1, <4>2
    <3> QED
      BY <3>1, <3>2
  <2>3. tokens' \in [Ip -> {NoEntry} \cup Entry]
    BY <2>1 DEF TypeOK
  <2> QED
    BY <1>0, <2>1, <2>2, <2>3, ListsStutter DEF TypeOK, AnswersLatest, Silence
<1>7. CASE UNCHANGED vars
  BY <1>7, ListsStutter
     DEF vars, TypeOK, TokensGiven, PledgesHeld, AnswersLatest, Latest
<1> QED
  BY <1>1, <1>2, <1>3, <1>4, <1>5, <1>6, <1>7 DEF Next

\* The invariant holds of every behaviour of the answering side.
THEOREM ServerInvariance == Spec => []ServerInv
BY InitServerInv, NextServerInv, PTL DEF Spec

\* Types, and no list of peers longer than Config::k.
THEOREM ServerTypeCorrect == Spec => []TypeOK
<1>1. ServerInv => TypeOK
  BY DEF ServerInv
<1> QED
  BY <1>1, ServerInvariance, PTL

\* A get_peers is answered with the latest peers listed, none of them twice.
THEOREM AnswersAreLatest == Spec => []AnswersLatest
<1>1. ServerInv => AnswersLatest
  BY DEF ServerInv
<1> QED
  BY <1>1, ServerInvariance, PTL

\* Announces alone are reported or refused.
LEMMA OnlyAnnounces ==
    ASSUME Next, out'.kind \in {"heard", "refused"} PROVE AnnouncePeer
<1>1. ~ FindNode
  BY DEF FindNode, Silence
<1>2. ~ GetPeers
  <2> SUFFICES ASSUME GetPeers PROVE out'.kind = "given"
    OBVIOUS
  <2>1. PICK e \in Sender, h \in InfoHash, t \in Token :
          out' = [kind |-> "given", ip |-> e.ip, tok |-> t, h |-> h,
                  values |-> IF crawl THEN <<>> ELSE Listed(h)]
    BY DEF GetPeers
  <2> HIDE DEF Listed
  <2> QED
    BY <2>1
<1>3. ~ Learn
  BY DEF Learn, Silence
<1>4. ~ Expire
  BY DEF Expire, Silence
<1>5. ~ Tick
  BY DEF Tick, Silence
<1> QED
  BY <1>1, <1>2, <1>3, <1>4, <1>5 DEF Next

\* An announce is reported only with a token that its ip was given since it
\* last announced, and with the port it asked for.
THEOREM AnnouncesAreEarned == Spec => AnnounceEarned
<1> DEFINE Earned == out'.kind = "heard" =>
             /\ out'.tok \in given[out'.from.ip]
             /\ given'[out'.from.ip] = {}
             /\ out'.peer.ip = out'.from.ip
             /\ out'.implied => out'.peer.port = out'.from.port
             /\ ~ out'.implied /\ out'.named \in Port => out'.peer.port = out'.named
<1>1. ServerInv /\ [Next]_vars => [Earned]_vars
  <2> SUFFICES ASSUME ServerInv, Next, out'.kind = "heard" PROVE Earned
    BY DEF vars
  <2>1. AnnouncePeer
    BY OnlyAnnounces
  <2>2. PICK e \in Sender, h \in InfoHash \cup {NoHash}, t \in Token,
             n \in NamedPort, implied \in BOOLEAN : Announce(e, h, t, n, implied)
    BY <2>1 DEF AnnouncePeer
  <2>7. /\ given' = [given EXCEPT ![e.ip] = {}]
        /\ Matches(e.ip, t)
        /\ out' = [kind |-> "heard", peer |-> Announced(e, n, implied), tok |-> t,
                   h |-> h, from |-> e, named |-> n, implied |-> implied]
    BY <2>2 DEF Announce, Silence
  <2>3. e.ip \in Ip /\ n \in Int
    BY ServerAssumption DEF Sender
  <2>4. t \in given[e.ip]
    BY <2>7, <2>3 DEF ServerInv, TokensGiven, Matches
  <2>5. n \in Port => PortOf(n) = n
    BY <2>3, PortOfOK
  <2>6. given'[e.ip] = {}
    BY <2>7, <2>3 DEF ServerInv, TypeOK
  <2> QED
    BY <2>7, <2>4, <2>5, <2>6 DEF Announced
<1> QED
  BY <1>1, ServerInvariance, PTL DEF Spec, AnnounceEarned

\* A token is honoured while it is fresh and not yet used.
THEOREM PledgesAreKept == Spec => PledgeKept
<1> DEFINE Kept == out'.kind = "refused" => out'.tok \notin pledge[out'.ip]
<1>1. ServerInv /\ [Next]_vars => [Kept]_vars
  <2> SUFFICES ASSUME ServerInv, Next, out'.kind = "refused" PROVE Kept
    BY DEF vars
  <2>1. AnnouncePeer
    BY OnlyAnnounces
  <2>2. PICK e \in Sender, h \in InfoHash \cup {NoHash}, t \in Token,
             n \in NamedPort, implied \in BOOLEAN : Announce(e, h, t, n, implied)
    BY <2>1 DEF AnnouncePeer
  <2>3. ~ Matches(e.ip, t) /\ out' = [kind |-> "refused", ip |-> e.ip, tok |-> t]
    BY <2>2 DEF Announce, Silence
  <2>4. ASSUME t \in pledge[e.ip] PROVE Matches(e.ip, t)
    <3>1. e.ip \in Ip
      BY DEF Sender
    <3>2. tokens[e.ip] = [state |-> "fresh", tok |-> t]
      BY <2>4, <3>1 DEF ServerInv, PledgesHeld
    <3> QED
      BY <3>2 DEF Matches, NoEntry
  <2> QED
    BY <2>3, <2>4
<1> QED
  BY <1>1, ServerInvariance, PTL DEF Spec, PledgeKept

\* A full table goes on serving the info hashes it has.
THEOREM TrackedAreServed == Spec => KeepsServingTracked
<1> DEFINE Served == out'.kind = "heard" /\ ~ crawl =>
             \/ out'.h \in Tracked' /\ peers'[out'.h][Len(peers'[out'.h])] = out'.peer
             \/ out'.h \notin Tracked /\ ~ (Cardinality(Tracked) < MaxInfoHashes)
<1>1. ServerInv /\ [Next]_vars => [Served]_vars
  <2> SUFFICES ASSUME ServerInv, Next, out'.kind = "heard", ~ crawl PROVE Served
    BY DEF vars
  <2>1. AnnouncePeer
    BY OnlyAnnounces
  <2>2. PICK e \in Sender, h \in InfoHash \cup {NoHash}, t \in Token,
             n \in NamedPort, implied \in BOOLEAN : Announce(e, h, t, n, implied)
    BY <2>1 DEF AnnouncePeer
  <2> DEFINE p == Announced(e, n, implied)
  <2>3. p \in Endpoint
    BY ServerAssumption, PortOfOK DEF Endpoint, Sender, Port, Announced
  <2>7. h \in InfoHash /\ out'.h = h /\ out'.peer = p /\ InsertPeer(h, p)
    BY <2>2 DEF Announce, Silence
  <2> HIDE DEF p
  <2>4. Takes(h) => peers'[h] # <<>> /\ peers'[h][Len(peers'[h])] = p
    BY <2>3, <2>7, InsertPeerOK DEF ServerInv
  <2>5. CASE Takes(h)
    BY <2>4, <2>5, <2>7 DEF Tracked
  <2>6. CASE ~ Takes(h)
    BY <2>6, <2>7 DEF Takes
  <2> QED
    BY <2>5, <2>6
<1> QED
  BY <1>1, ServerInvariance, PTL DEF Spec, KeepsServingTracked
=============================================================================
