------------------------ MODULE MetadataFetchProofs ------------------------
(***************************************************************************)
(* Theorems about one metadata download, for every block length, size      *)
(* limit and size of the metadata.  When the size is not a multiple of the *)
(* block length, an honest peer is never refused, and a peer that has sent *)
(* every real piece, whatever else it sent, has had the metadata reported. *)
(* That is exactly the case the code gets right: see HonestNotRefused.     *)
(***************************************************************************)
EXTENDS MetadataFetch, TLAPS

Contents == {"empty", "right", "wrong"}

\* The pieces before and after the peer's extended handshake.
PiecesOK == pieces \in {None} \cup [0 .. Count(size) - 1 -> Contents]

\* What is settled once the function has returned, and while it has not.
Returned ==
    /\ result # "none" => pc = "ended"
    /\ pc = "forward" <=> left # {}

FetchInv == TypeOK /\ Returned

LEMMA CountNat == ASSUME NEW s \in Nat PROVE Count(s) \in Nat
BY BlockAssumption, SMTT(30) DEF Count

\* Pieces of a handshake are not None: None has a piece of index -1.
LEMMA NotNone ==
    ASSUME NEW s \in Nat, NEW p \in [0 .. Count(s) - 1 -> Contents]
    PROVE  p # None
<1>1. DOMAIN p = 0 .. Count(s) - 1 /\ DOMAIN None = {-1}
  BY DEF None
<1>2. -1 \notin 0 .. Count(s) - 1
  BY CountNat
<1> QED
  BY <1>1, <1>2

LEMMA InitFetch == Init => FetchInv
<1> SUFFICES ASSUME Init PROVE FetchInv
  OBVIOUS
<1>1. size \in 0 .. MaxSize
  BY SizeAssumption DEF Init
<1>2. TypeOK
  BY <1>1 DEF Init, TypeOK
<1>3. Returned
  BY DEF Init, Returned
<1> QED
  BY <1>2, <1>3 DEF FetchInv

\* A function that ends with another result than "ok".
LEMMA EndInv ==
    ASSUME FetchInv, NEW r \in {"refused", "lost"}, End(r), blamed' \in BOOLEAN,
           sent' \subseteq Place, pc # "ended", pc # "forward"
    PROVE  FetchInv'
BY DEF FetchInv, TypeOK, Returned, End, None, Count, Place

LEMMA PeerHelloInv == FetchInv /\ PeerHello => FetchInv'
<1> SUFFICES ASSUME FetchInv, PeerHello PROVE FetchInv'
  OBVIOUS
<1>1. PICK s \in 0 .. MaxSize + 1, offers \in BOOLEAN, exchanges \in BOOLEAN :
        IF pieces # None \/ TooLarge(s)
        THEN End("refused")
        ELSE /\ size' = s
             /\ pieces' = [i \in 0 .. Count(s) - 1 |-> "empty"]
             /\ asked' = offers
             /\ pex' = exchanges
             /\ UNCHANGED <<pc, left, result, honest, conn>>
  BY DEF PeerHello
<1>2. pc = "read" /\ UNCHANGED <<blamed, sent>> /\ UNCHANGED Place
  BY DEF PeerHello, Hearing, Place, Count
<1>3. CASE pieces # None \/ TooLarge(s)
  BY <1>1, <1>2, <1>3, EndInv DEF FetchInv, TypeOK
<1>4. CASE ~ (pieces # None \/ TooLarge(s))
  <2>1. s \in 0 .. MaxSize
    BY <1>4, SizeAssumption DEF TooLarge
  <2>2. pieces' \in [0 .. Count(size') - 1 -> Contents]
    BY <1>1, <1>4 DEF Contents
  <2>3. TypeOK'
    BY <1>1, <1>2, <1>4, <2>1, <2>2 DEF FetchInv, TypeOK, Contents
  <2> QED
    BY <1>1, <1>2, <1>4, <2>3 DEF FetchInv, Returned
<1> QED
  BY <1>3, <1>4

\* A piece put in its place leaves the pieces what they are.
LEMMA StoredPieces ==
    ASSUME TypeOK, pieces # None, NEW piece, NEW content \in Contents
    PROVE  Stored(piece, content) \in [0 .. Count(size) - 1 -> Contents]
BY DEF TypeOK, Stored, Contents

LEMMA DataInv == FetchInv /\ Data => FetchInv'
<1> SUFFICES ASSUME FetchInv, Data PROVE FetchInv'
  OBVIOUS
<1>0. pc = "read" /\ UNCHANGED blamed /\ UNCHANGED Place
  BY DEF Data, Hearing, Place, Count
<1>1. PICK piece \in -1 .. MaxSize, len \in 0 .. Block + 1, right \in BOOLEAN :
        Take(piece, len, right) /\ Note(piece, len, right)
  BY DEF Data
<1>4. sent' \subseteq Place
  BY <1>1 DEF Note, FetchInv, TypeOK
<1>2. CASE pieces = None \/ ~ Length(piece, len)
  BY <1>0, <1>4, <1>1, <1>2, EndInv DEF Take, FetchInv, TypeOK
<1>3. CASE ~ (pieces = None \/ ~ Length(piece, len))
  <2> DEFINE content == IF len = 0 THEN "empty" ELSE IF right THEN "right" ELSE "wrong"
             all == Stored(piece, content)
  <2>1. all \in [0 .. Count(size) - 1 -> Contents]
    BY <1>3, StoredPieces DEF FetchInv, Contents
  <2>2. pieces' = all /\ UNCHANGED <<size, asked, pex, left, honest, conn>>
    BY <1>1, <1>3 DEF Take
  <2>3. \/ pc' = "ended" /\ result' = "ok" /\ Authentic(all)
        \/ pc' = "ended" /\ result' = "refused"
        \/ UNCHANGED <<pc, result>>
    BY <1>1, <1>3 DEF Take
  <2> HIDE DEF all
  <2>4. TypeOK'
    BY <1>0, <1>4, <2>1, <2>2, <2>3 DEF FetchInv, TypeOK, Contents
  <2>5. Returned'
    BY <1>0, <2>2, <2>3 DEF FetchInv, Returned
  <2> QED
    BY <2>4, <2>5 DEF FetchInv
<1> QED
  BY <1>2, <1>3

LEMMA NextFetch == FetchInv /\ [Next]_vars => FetchInv'
<1> SUFFICES ASSUME FetchInv, [Next]_vars PROVE FetchInv'
  OBVIOUS
<1>0. blamed \in BOOLEAN /\ sent \subseteq Place /\ UNCHANGED Place
  BY DEF FetchInv, TypeOK, Place, Count
<1>1. CASE Connect \/ Handshake \/ Hello
  BY <1>0, <1>1 DEF Connect, Handshake, Hello, Proceed, FetchInv, TypeOK, Returned, None,
              Count
<1>2. CASE ConnectFails \/ HandshakeFails \/ HelloFails
  BY <1>0, <1>2, EndInv DEF ConnectFails, HandshakeFails, HelloFails, Blames
<1>3. CASE Garbage
  BY <1>0, <1>3, EndInv DEF Garbage, Hearing
<1>4. CASE PeerHello
  BY <1>4, PeerHelloInv
<1>5. CASE Data
  BY <1>5, DataInv
<1>6. CASE Exchange
  <2>1. CASE pieces = None
    BY <1>0, <1>6, <2>1, EndInv DEF Exchange, Hearing
  <2>2. CASE pieces # None
    BY <1>0, <1>6, <2>2 DEF Exchange, Hearing, FetchInv, TypeOK, Returned, None,
                      Count
  <2> QED
    BY <2>1, <2>2
<1>7. CASE Forward
  BY <1>0, <1>7 DEF Forward, FetchInv, TypeOK, Returned, None, Count
<1>8. CASE Hush \/ Close
  BY <1>0, <1>8 DEF Hush, Close, Leave, Hearing, FetchInv, TypeOK, Returned, None,
              Count
<1>9. CASE Timeout
  BY <1>0, <1>9, EndInv DEF Timeout
<1>10. CASE UNCHANGED vars
  BY <1>0, <1>10 DEF vars, FetchInv, TypeOK, Returned, None, Count
<1> QED
  BY <1>1, <1>2, <1>3, <1>4, <1>5, <1>6, <1>7, <1>8, <1>9, <1>10
     DEF Next, Setup, Skip, Ended

THEOREM FetchInvariance == Spec => []FetchInv
<1> QED
  BY InitFetch, NextFetch, PTL DEF Spec

\* Every state of a download is well typed.
THEOREM FetchTypeCorrect == Spec => []TypeOK
<1>1. FetchInv => TypeOK
  BY DEF FetchInv
<1> QED
  BY <1>1, FetchInvariance, PTL

-----------------------------------------------------------------------------
(* The honest peer. *)

\* An honest peer has neither left nor sent a wrong piece, and is asked for pieces
\* only once it has announced the real size.
HonestInv ==
    honest =>
        /\ result # "refused"
        /\ conn = "open"
        /\ asked => pieces # None
        /\ pieces # None =>
             /\ size = Real
             /\ \A i \in DOMAIN pieces : pieces[i] \in {"empty", "right"}

\* Division of the size by the block length, when something is left over.
LEMMA RestOfReal ==
    ASSUME Real % Block # 0
    PROVE  /\ Count(Real) - 1 = Real \div Block
           /\ Real % Block = Real - (Real \div Block) * Block
           /\ Real % Block > 0
<1> DEFINE q == Real \div Block
           m == Real % Block
<1>1. Real \in Nat /\ Block \in Nat /\ Block > 0
  BY BlockAssumption, SizeAssumption
<1>2. Real = Block * q + m /\ q \in Int /\ m \in 0 .. Block - 1
  BY <1>1, SMTT(30)
<1>3. Count(Real) = q + 1
  BY <1>2 DEF Count
<1> HIDE DEF q, m
<1>4. Block * q = q * Block
  BY <1>1, <1>2, SMTT(30)
<1>5. m = Real - q * Block /\ q * Block \in Int
  BY <1>1, <1>2, <1>4, SMTT(30)
<1> QED
  BY <1>2, <1>3, <1>5 DEF q, m

\* The real length of a piece is the one that is accepted, and is not 0.
LEMMA RealLengthAccepted ==
    ASSUME Real % Block # 0, size = Real, NEW piece
    PROVE  Length(piece, RealLength(piece)) /\ RealLength(piece) # 0
<1>1. Last = Real \div Block /\ Last = Count(Real) - 1
  BY RestOfReal DEF Last
<1>2. CASE piece = Last
  BY <1>1, <1>2, RestOfReal DEF Length, RealLength
<1>3. CASE piece # Last
  BY <1>1, <1>3, BlockAssumption DEF Length, RealLength
<1> QED
  BY <1>2, <1>3

LEMMA HonestData ==
    ASSUME Real % Block # 0, TypeOK, HonestInv, Data, honest
    PROVE  HonestInv'
<1>1. PICK piece \in -1 .. MaxSize, len \in 0 .. Block + 1, right \in BOOLEAN :
        Honest(piece, len, right) /\ Take(piece, len, right)
  BY DEF Data
<1> DEFINE all == Stored(piece, "right")
<1>2. asked /\ len = RealLength(piece) /\ right
  BY <1>1 DEF Honest
<1>3. pieces # None /\ size = Real
      /\ \A i \in DOMAIN pieces : pieces[i] \in {"empty", "right"}
  BY <1>2 DEF HonestInv
<1>4. Length(piece, len) /\ len # 0
  BY <1>2, <1>3, RealLengthAccepted
<1>5. /\ pieces' = all
      /\ IF \A i \in DOMAIN all : all[i] # "empty"
         THEN /\ pc' = "ended"
              /\ result' = IF Authentic(all) THEN "ok" ELSE "refused"
         ELSE UNCHANGED <<pc, result>>
      /\ UNCHANGED <<size, asked, pex, left, honest, conn>>
  BY <1>1, <1>2, <1>3, <1>4 DEF Take
<1>6. all \in [0 .. Count(size) - 1 -> Contents]
  BY <1>3, StoredPieces DEF Contents
<1>7. \A i \in DOMAIN all : all[i] \in {"empty", "right"}
  BY <1>3 DEF Stored
<1>8. all # None
  BY <1>6, NotNone DEF TypeOK
<1>9. result' # "refused"
  BY <1>3, <1>5, <1>7 DEF Authentic, HonestInv
<1> QED
  BY <1>3, <1>5, <1>7, <1>8, <1>9 DEF HonestInv

LEMMA HonestHello ==
    ASSUME TypeOK, HonestInv, PeerHello, honest PROVE HonestInv'
<1>1. PICK s \in 0 .. MaxSize + 1, offers \in BOOLEAN, exchanges \in BOOLEAN :
        /\ pieces = None /\ s = Real
        /\ IF pieces # None \/ TooLarge(s)
           THEN End("refused")
           ELSE /\ size' = s
                /\ pieces' = [i \in 0 .. Count(s) - 1 |-> "empty"]
                /\ asked' = offers
                /\ pex' = exchanges
                /\ UNCHANGED <<pc, left, result, honest, conn>>
  BY DEF PeerHello
<1>2. ~ TooLarge(s)
  BY <1>1, SizeAssumption DEF TooLarge
<1>3. /\ size' = Real
      /\ pieces' = [i \in 0 .. Count(Real) - 1 |-> "empty"]
      /\ UNCHANGED <<result, conn>>
  BY <1>1, <1>2
<1>4. pieces' \in [0 .. Count(Real) - 1 -> Contents]
  BY <1>3 DEF Contents
<1>5. pieces' # None
  BY <1>4, NotNone, SizeAssumption
<1> QED
  BY <1>3, <1>5 DEF HonestInv

LEMMA NextHonest ==
    ASSUME Real % Block # 0, TypeOK, HonestInv, [Next]_vars PROVE HonestInv'
<1>0. UNCHANGED honest
  BY DEF Next, Setup, Connect, ConnectFails, Handshake, HandshakeFails, Hello,
         HelloFails, Proceed, End, Garbage, PeerHello, Data, Take, Exchange, Forward,
         Hush, Close, Leave, Timeout, Skip, Ended, vars
<1>1. CASE ~ honest
  BY <1>0, <1>1 DEF HonestInv
<1>2. CASE honest
  <2>1. CASE PeerHello
    BY <1>2, <2>1, HonestHello
  <2>2. CASE Data
    BY <1>2, <2>2, HonestData
  <2>3. CASE Setup \/ Garbage \/ Forward \/ Hush \/ Close \/ Timeout \/ UNCHANGED vars
    BY <1>2, <2>3 DEF HonestInv, Setup, Connect, ConnectFails, Handshake,
       HandshakeFails, Hello, HelloFails, Proceed, End, Garbage, Forward, Hush,
       Close, Leave, Timeout, GivesUp, vars
  <2>4. CASE Exchange
    BY <1>2, <2>4 DEF HonestInv, Exchange
  <2> QED
    BY <2>1, <2>2, <2>3, <2>4 DEF Next, Skip, Ended
<1> QED
  BY <1>1, <1>2

\* An honest peer is never refused, if the size of the metadata is no multiple of
\* the block length.  (The code refuses the last piece when it is: wire.rs:201.)
THEOREM HonestHeard ==
    ASSUME Real % Block # 0 PROVE Spec => []HonestNotRefused
<1>1. Init => HonestInv
  BY DEF Init, HonestInv
<1>2. TypeOK /\ HonestInv /\ [Next]_vars => HonestInv'
  BY NextHonest
<1>3. HonestInv => HonestNotRefused
  BY DEF HonestInv, HonestNotRefused
<1> QED
  BY <1>1, <1>2, <1>3, FetchTypeCorrect, PTL DEF Spec

-----------------------------------------------------------------------------
(* Any peer.  What it has sent last for a place is what is in the place. *)

\* Of the history: nothing was heard before the extended handshake; while the task
\* runs, each place whose last piece was the real one has it.
Sending ==
    /\ pieces = None => size = 0
    /\ pieces = None /\ pc # "ended" => sent = {}
    /\ pieces # None /\ pc # "ended" /\ size = Real => \A i \in sent : pieces[i] = "right"
    /\ RightPiecesSuffice

\* The real metadata has a piece.
LEMMA SomePlace == 0 \in Place
<1>1. Real \in Nat /\ Real > 0 /\ Block \in Nat /\ Block > 0
  BY BlockAssumption, SizeAssumption
<1>2. Real \div Block > 0 \/ Real % Block # 0
  BY <1>1, SMTT(30)
<1>3. Count(Real) > 0 /\ Count(Real) \in Nat
  BY <1>1, <1>2, CountNat DEF Count
<1> QED
  BY <1>3 DEF Place

\* A running task has not heard every real piece of the announced metadata.
LEMMA SomethingMissing ==
    ASSUME FetchInv, Sending, pc # "ended", size = Real
    PROVE  ~ (Place \subseteq sent)
BY DEF FetchInv, Returned, Sending, RightPiecesSuffice

LEMMA DataSending ==
    ASSUME Real % Block # 0, FetchInv, Sending, Data PROVE Sending'
<1>0. pc = "read"
  BY DEF Data, Hearing
<1>1. PICK piece \in -1 .. MaxSize, len \in 0 .. Block + 1, right \in BOOLEAN :
        Take(piece, len, right) /\ Note(piece, len, right)
  BY DEF Data
<1>2. UNCHANGED <<size, Place>>
  BY <1>1 DEF Take, End, Place, Count
<1>3. CASE pieces = None
  <2>1. pc' = "ended" /\ UNCHANGED pieces
    BY <1>1, <1>3 DEF Take, End
  <2>2. size' # Real
    BY <1>2, <1>3, SizeAssumption DEF Sending
  <2> QED
    BY <1>2, <1>3, <2>1, <2>2 DEF Sending, RightPiecesSuffice
<1>4. CASE pieces # None /\ ~ Length(piece, len)
  <2>1. pc' = "ended" /\ UNCHANGED pieces
    BY <1>1, <1>4 DEF Take, End
  <2>2. CASE size = Real
    <3>1. len # RealLength(piece)
      BY <1>4, <2>2, RealLengthAccepted
    <3>2. sent' = sent \ {piece}
      BY <1>1, <3>1 DEF Note
    <3>3. ~ (Place \subseteq sent')
      BY <1>0, <2>2, <3>2, SomethingMissing
    <3> QED
      BY <1>2, <1>4, <2>1, <3>3 DEF Sending, RightPiecesSuffice
  <2>3. CASE size # Real
    BY <1>2, <1>4, <2>1, <2>3 DEF Sending, RightPiecesSuffice
  <2> QED
    BY <2>2, <2>3
<1>5. CASE pieces # None /\ Length(piece, len)
  <2> DEFINE content == IF len = 0 THEN "empty" ELSE IF right THEN "right" ELSE "wrong"
             all == Stored(piece, content)
  <2>1. /\ pieces' = all
        /\ IF \A i \in DOMAIN all : all[i] # "empty"
           THEN /\ pc' = "ended"
                /\ result' = IF Authentic(all) THEN "ok" ELSE "refused"
           ELSE UNCHANGED <<pc, result>>
    BY <1>1, <1>5 DEF Take
  <2>2. pieces \in [0 .. Count(size) - 1 -> Contents]
        /\ all \in [0 .. Count(size) - 1 -> Contents]
    BY <1>5, StoredPieces DEF FetchInv, TypeOK, Contents
  <2>3. all # None
    BY <2>2, NotNone DEF FetchInv, TypeOK
  <2>4. CASE size # Real
    BY <1>2, <2>1, <2>3, <2>4 DEF Sending, RightPiecesSuffice
  <2>5. CASE size = Real
    <3>1. DOMAIN pieces = Place /\ DOMAIN all = Place
      BY <2>2, <2>5 DEF Place
    <3>2. ASSUME NEW i \in sent' PROVE all[i] = "right"
      <4>1. i \in Place
        BY <1>1 DEF Note, FetchInv, TypeOK
      <4>2. CASE i = piece
        <5>1. right /\ len = RealLength(piece)
          BY <1>1, <4>2 DEF Note
        <5>2. content = "right"
          BY <2>5, <5>1, RealLengthAccepted
        <5> QED
          BY <3>1, <4>1, <4>2, <5>2 DEF Stored
      <4>3. CASE i # piece
        <5>1. i \in sent
          BY <1>1, <4>3 DEF Note
        <5>2. pieces[i] = "right"
          BY <1>0, <1>5, <2>5, <5>1 DEF Sending
        <5> QED
          BY <3>1, <4>1, <4>3, <5>2 DEF Stored
      <4> QED
        BY <4>2, <4>3
    <3> HIDE DEF all
    <3>3. ASSUME Place \subseteq sent' PROVE result' = "ok"
      <4>1. \A i \in DOMAIN all : all[i] = "right"
        BY <3>1, <3>2, <3>3
      <4>2. Authentic(all)
        BY <2>5, <4>1 DEF Authentic
      <4> QED
        BY <2>1, <4>1, <4>2
    <3> QED
      BY <1>2, <2>1, <2>3, <3>2, <3>3 DEF Sending, RightPiecesSuffice
  <2> QED
    BY <2>4, <2>5
<1> QED
  BY <1>3, <1>4, <1>5

LEMMA HelloSending ==
    ASSUME FetchInv, Sending, PeerHello PROVE Sending'
<1>0. pc = "read" /\ UNCHANGED <<sent, Place>>
  BY DEF PeerHello, Hearing, Place, Count
<1>1. PICK s \in 0 .. MaxSize + 1, offers \in BOOLEAN, exchanges \in BOOLEAN :
        IF pieces # None \/ TooLarge(s)
        THEN End("refused")
        ELSE /\ size' = s
             /\ pieces' = [i \in 0 .. Count(s) - 1 |-> "empty"]
             /\ asked' = offers
             /\ pex' = exchanges
             /\ UNCHANGED <<pc, left, result, honest, conn>>
  BY DEF PeerHello
<1>2. CASE pieces # None \/ TooLarge(s)
  <2>1. pc' = "ended" /\ UNCHANGED <<pieces, size>>
    BY <1>1, <1>2 DEF End
  <2> QED
    BY <1>0, <2>1, SomethingMissing DEF Sending, RightPiecesSuffice
<1>3. CASE ~ (pieces # None \/ TooLarge(s))
  <2>1. sent' = {}
    BY <1>0, <1>3 DEF Sending
  <2>2. pieces' \in [0 .. Count(s) - 1 -> Contents] /\ s \in Nat
    BY <1>1, <1>3, SizeAssumption DEF Contents
  <2>3. pieces' # None
    BY <2>2, NotNone
  <2> QED
    BY <1>0, <2>1, <2>3, SomePlace DEF Sending, RightPiecesSuffice
<1> QED
  BY <1>2, <1>3

LEMMA NextSending ==
    ASSUME Real % Block # 0, FetchInv, Sending, [Next]_vars PROVE Sending'
<1>1. CASE PeerHello
  BY <1>1, HelloSending
<1>2. CASE Data
  BY <1>2, DataSending
<1>3. CASE ~ PeerHello /\ ~ Data
  <2>1. UNCHANGED <<pieces, size, sent, Place>>
    BY <1>3 DEF Next, Setup, Connect, ConnectFails, Handshake, HandshakeFails, Hello,
       HelloFails, Proceed, End, Garbage, Exchange, Forward, Hush, Close, Leave,
       Timeout, Skip, Ended, vars, Place, Count
  <2>2. pc = "ended" => UNCHANGED <<pc, result>>
    BY <1>3 DEF Next, Setup, Connect, ConnectFails, Handshake, HandshakeFails, Hello,
       HelloFails, Proceed, Garbage, Exchange, Forward, Hush, Close, Leave,
       Hearing, Timeout, Skip, Ended, vars
  <2>3. CASE pc = "ended"
    BY <2>1, <2>2, <2>3 DEF Sending, RightPiecesSuffice
  <2>4. CASE pc # "ended"
    BY <2>1, <2>4, SomethingMissing DEF Sending, RightPiecesSuffice
  <2> QED
    BY <2>3, <2>4
<1> QED
  BY <1>1, <1>2, <1>3

\* Whatever else a peer sends and in whatever order, once the last piece it sent for
\* every place is the real one the metadata has been reported, if its size is no
\* multiple of the block length.  (Otherwise the last piece is refused:
\* wire.rs:201.)
THEOREM RightPiecesReported ==
    ASSUME Real % Block # 0 PROVE Spec => []RightPiecesSuffice
<1>1. Init => Sending
  BY SizeAssumption DEF Init, Sending, RightPiecesSuffice
<1>2. FetchInv /\ Sending /\ [Next]_vars => Sending'
  BY NextSending
<1>3. Sending => RightPiecesSuffice
  BY DEF Sending
<1> QED
  BY <1>1, <1>2, <1>3, FetchInvariance, PTL DEF Spec

-----------------------------------------------------------------------------
(* The abstract specification. *)

LEMMA InitRefines == Init => Abs!Init
BY DEF Init, Abs!Init, AbsTask, Abs!Started

\* Every step is a step of FetchSpec or changes nothing the pool can see.
LEMMA NextRefines ==
    ASSUME FetchInv, [Next]_vars
    PROVE  [Abs!Blame \/ Abs!Report \/ Abs!Quiet]_(Abs!avars)
<1> USE DEF FetchInv, Returned, AbsTask, Abs!avars, Abs!Started, Abs!Talking,
            Abs!Ended, Abs!Unreachable, Abs!Reached, Abs!Hears, Abs!Forwards,
            Abs!Finishes, Abs!Blame, Abs!Report, Abs!Quiet
<1>1. CASE Connect
  BY <1>1 DEF Connect, Proceed
<1>2. CASE Handshake \/ Hello
  BY <1>2 DEF Handshake, Hello, Proceed
<1>3. CASE ConnectFails
  BY <1>3 DEF ConnectFails, End
<1>4. CASE HandshakeFails \/ HelloFails \/ Garbage \/ Timeout
  BY <1>4 DEF HandshakeFails, HelloFails, Garbage, Hearing, Timeout, Blames, End
<1>5. CASE PeerHello
  BY <1>5 DEF PeerHello, Hearing, End
<1>6. CASE Data
  <2>1. pc = "read" /\ UNCHANGED <<blamed, left>>
    BY <1>6 DEF Data, Take, Hearing, End
  <2>2. \/ pc' = "ended"
        \/ UNCHANGED <<pc, result>>
    BY <1>6 DEF Data, Take, End
  <2>3. AbsTask = Abs!Talking /\ result # "ok"
    BY <2>1
  <2>4. CASE pc' = "ended" /\ result' = "ok"
    BY <2>1, <2>3, <2>4
  <2>5. CASE pc' = "ended" /\ result' # "ok"
    BY <2>1, <2>3, <2>5
  <2>6. CASE UNCHANGED <<pc, result>>
    BY <2>1, <2>6
  <2> QED
    BY <2>2, <2>4, <2>5, <2>6
<1>7. CASE Exchange
  BY <1>7 DEF Exchange, Hearing, End
<1>8. CASE Forward
  <2>1. PICK p \in left : left' = left \ {p}
    BY <1>8 DEF Forward
  <2>2. p \in Peer /\ pc = "forward"
    BY <1>8, <2>1 DEF Forward, TypeOK
  <2>3. pc' = (IF left' = {} THEN "read" ELSE "forward") /\ UNCHANGED <<blamed, result>>
    BY <1>8 DEF Forward
  <2>4. Abs!Forwards(AbsTask, AbsTask', p)
    BY <2>1, <2>2, <2>3
  <2> QED
    BY <2>2, <2>3, <2>4
<1>9. CASE Hush \/ Close
  BY <1>9 DEF Hush, Close, Leave
<1>10. CASE UNCHANGED vars
  BY <1>10 DEF vars
<1> QED
  BY <1>1, <1>2, <1>3, <1>4, <1>5, <1>6, <1>7, <1>8, <1>9, <1>10
     DEF Next, Setup, Skip, Ended

\* A download does no more than FetchSpec promises the pool.
THEOREM FetchImplementsSpec == Spec => FetchSpecified
<1>1. FetchInv /\ [Next]_vars => [Abs!Blame \/ Abs!Report \/ Abs!Quiet]_(Abs!avars)
  BY NextRefines
<1> QED
  BY <1>1, InitRefines, FetchInvariance, PTL DEF Spec, FetchSpecified, Abs!Spec
=============================================================================
