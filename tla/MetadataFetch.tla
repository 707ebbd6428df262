--------------------------- MODULE MetadataFetch ---------------------------
(***************************************************************************)
(* fetch_metadata (src/wire.rs): one connection to one peer, from the TCP  *)
(* handshake to metadata whose digest is the info hash asked for.          *)
(*                                                                         *)
(* The peer may send anything: a piece nobody asked for, twice, of another *)
(* length or with other bytes, a second handshake, peers to exchange.  It  *)
(* may fall silent or close the connection.  An honest peer sends the size *)
(* of the metadata and then each piece asked for, in order.                *)
(*                                                                         *)
(* Abstractions.  A piece is right when its bytes are those of the real    *)
(* metadata, and the digest is the info hash when all of them are and the  *)
(* size is (SHA-1 does not collide).  A message cut short by the end of    *)
(* the stream is padded with zeros and handled: it is one of the messages  *)
(* here followed by Close.  The PEX id the peer announced is kept as       *)
(* whether it announced one; an exchange comes under that id.  Where a     *)
(* debug build would panic, on the index of the last of no pieces, the     *)
(* wrapped index of a release build is taken.                              *)
(***************************************************************************)
EXTENDS Integers, FiniteSets

CONSTANTS
    Peer,     \* endpoints that may be exchanged
    Block,    \* BLOCK, the length of every piece but the last (16384)
    MaxSize,  \* MAX_METADATA_SIZE (1000 * BLOCK)
    Real      \* the size of the metadata that has the info hash

ASSUME BlockAssumption == Block \in Nat \ {0}
ASSUME SizeAssumption  == MaxSize \in Nat /\ Real \in 1 .. MaxSize

VARIABLES
    pc,      \* the await the task is at
    pieces,  \* Option<Vec<Vec<u8>>>, each piece "empty", "right" or "wrong"
    size,    \* metadata_size
    asked,   \* the requests for the pieces were sent
    pex,     \* ut_pex_id is set
    left,    \* the exchanged peers still to be forwarded
    blamed,  \* the peer was blacklisted
    result,  \* what the function returned, with "lost" for a timeout
    honest,  \* how the peer behaves
    conn,    \* "open", "silent" for ever or "closed", as the peer left it
    sent     \* history: the places for which the last piece sent was the real one

vars == <<pc, pieces, size, asked, pex, left, blamed, result, honest, conn, sent>>

\* pieces before the peer's extended handshake, None in the code.
None == [i \in {-1} |-> "empty"]

Count(s) == s \div Block + (IF s % Block # 0 THEN 1 ELSE 0)

\* The places of the real metadata's pieces.
Place == 0 .. Count(Real) - 1

TypeOK ==
    /\ pc \in {"connect", "handshake", "hello", "read", "forward", "ended"}
    /\ pieces \in {None} \cup
          [0 .. Count(size) - 1 -> {"empty", "right", "wrong"}]
    /\ size \in 0 .. MaxSize
    /\ asked \in BOOLEAN /\ pex \in BOOLEAN
    /\ left \subseteq Peer
    /\ blamed \in BOOLEAN
    /\ result \in {"none", "ok", "refused", "lost"}
    /\ honest \in BOOLEAN
    /\ conn \in {"open", "silent", "closed"}
    /\ sent \subseteq Place

Init ==
    /\ pc = "connect"
    /\ pieces = None
    /\ size = 0
    /\ asked = FALSE
    /\ pex = FALSE
    /\ left = {}
    /\ blamed = FALSE
    /\ result = "none"
    /\ honest \in BOOLEAN
    /\ conn = "open"
    /\ sent = {}

End(r) ==
    /\ pc' = "ended"
    /\ result' = r
    /\ UNCHANGED <<pieces, size, asked, pex, left, honest, conn>>

-----------------------------------------------------------------------------
(* Until the loop. *)

Proceed(from, to) ==
    /\ pc = from
    /\ pc' = to
    /\ UNCHANGED <<pieces, size, asked, pex, left, blamed, result, honest, conn, sent>>

Connect == Proceed("connect", "handshake")

ConnectFails ==
    /\ pc = "connect"
    /\ ~ honest
    /\ blamed' = TRUE
    /\ End("lost")
    /\ UNCHANGED sent

\* Handshakes cross; the peer's must name the protocol and the extension bit.
Handshake == Proceed("handshake", "hello")

\* Mutant: whatever goes wrong blacklists the peer.
BlamesAlways == blamed' = TRUE

\* Once connected a peer is not blamed.
Blames == UNCHANGED blamed

HandshakeFails ==
    /\ pc = "handshake"
    /\ ~ honest
    /\ \E r \in {"refused", "lost"} : End(r)
    /\ Blames
    /\ UNCHANGED sent

\* The extended handshake of this side.
Hello == Proceed("hello", "read")

HelloFails ==
    /\ pc = "hello"
    /\ ~ honest
    /\ End("lost")
    /\ UNCHANGED <<blamed, sent>>

-----------------------------------------------------------------------------
(* The messages of the loop. *)

Hearing == pc = "read" /\ conn = "open"

\* A message too short or not decodable, or a handshake without a size.
Garbage ==
    /\ Hearing
    /\ ~ honest
    /\ End("refused")
    /\ UNCHANGED <<blamed, sent>>

\* Mutant: one byte more than the limit.
TooLargeLate(s) == s > MaxSize + 1

TooLarge(s) == s > MaxSize

\* The peer's extended handshake: its size s, and whether it announces
\* ut_metadata and ut_pex.  The pieces are asked for at once, all of them.
PeerHello ==
    /\ Hearing
    /\ \E s \in 0 .. MaxSize + 1, offers \in BOOLEAN, exchanges \in BOOLEAN :
        /\ honest => pieces = None /\ s = Real /\ offers
        /\ IF pieces # None \/ TooLarge(s)
           THEN End("refused")
           ELSE /\ size' = s
                /\ pieces' = [i \in 0 .. Count(s) - 1 |-> "empty"]
                /\ asked' = offers
                /\ pex' = exchanges
                /\ UNCHANGED <<pc, left, result, honest, conn>>
    /\ UNCHANGED <<blamed, sent>>

\* The index of the last piece, a usize: none for an empty metadata, where it
\* wraps to usize::MAX, which is also what a piece number of -1 becomes.
Last == Count(size) - 1

\* Mutant: all pieces are whole blocks.
LengthWhole(piece, len) == len = Block

\* The lengths that are accepted.
Length(piece, len) == len = IF piece = Last THEN size % Block ELSE Block

\* Mutant: the last piece is dropped.
StoredShort(piece, content) ==
    [i \in DOMAIN pieces |-> IF i = piece /\ i < Last THEN content ELSE pieces[i]]

\* Mutant: a place that is taken keeps what it has.
StoredFirst(piece, content) ==
    [i \in DOMAIN pieces |-> IF i = piece /\ pieces[i] = "empty" THEN content ELSE pieces[i]]

\* A piece is put in its place, over an earlier one, or nowhere.
Stored(piece, content) ==
    [i \in DOMAIN pieces |-> IF i = piece THEN content ELSE pieces[i]]

Authentic(all) == size = Real /\ \A i \in DOMAIN all : all[i] = "right"

\* The length of a piece of the real metadata.
RealLength(piece) ==
    IF piece = Count(Real) - 1 THEN Real - (Count(Real) - 1) * Block ELSE Block

\* The piece an honest peer sends next.
Honest(piece, len, right) ==
    /\ asked
    /\ piece \in DOMAIN pieces
    /\ \A i \in DOMAIN pieces : i < piece <=> pieces[i] # "empty"
    /\ len = RealLength(piece)
    /\ right

\* What the code does with a piece.
Take(piece, len, right) ==
    LET content == IF len = 0 THEN "empty"
                   ELSE IF right THEN "right" ELSE "wrong"
        all     == Stored(piece, content)
        done    == \A i \in DOMAIN all : all[i] # "empty"
    IN
    IF pieces = None \/ ~ Length(piece, len)
    THEN End("refused")
    ELSE /\ pieces' = all
         /\ IF done
            THEN /\ pc' = "ended"
                 /\ result' = IF Authentic(all) THEN "ok" ELSE "refused"
            ELSE UNCHANGED <<pc, result>>
         /\ UNCHANGED <<size, asked, pex, left, honest, conn>>

\* The history of a piece.
Note(piece, len, right) ==
    sent' = IF piece \in Place /\ right /\ len = RealLength(piece)
            THEN sent \cup {piece}
            ELSE sent \ {piece}

Data ==
    /\ Hearing
    /\ \E piece \in -1 .. MaxSize, len \in 0 .. Block + 1, right \in BOOLEAN :
        /\ honest => Honest(piece, len, right)
        /\ Take(piece, len, right)
        /\ Note(piece, len, right)
    /\ UNCHANGED blamed

\* Peers the peer names.  Before its extended handshake any message but that
\* ends the fetch.
Exchange ==
    /\ Hearing
    /\ honest => pieces # None
    /\ IF pieces = None
       THEN End("refused")
       ELSE /\ pex
            /\ left' \in (SUBSET Peer) \ {{}}
            /\ pc' = "forward"
            /\ UNCHANGED <<pieces, size, asked, pex, result, honest, conn>>
    /\ UNCHANGED <<blamed, sent>>

\* One of them is sent to subscribers and into the request channel, when that
\* has room.
Forward ==
    /\ pc = "forward"
    /\ \E p \in left : left' = left \ {p}
    /\ pc' = IF left' = {} THEN "read" ELSE "forward"
    /\ UNCHANGED <<pieces, size, asked, pex, blamed, result, honest, conn, sent>>

-----------------------------------------------------------------------------
(* The peer leaves. *)

Leave(c) ==
    /\ Hearing
    /\ ~ honest
    /\ conn' = c
    /\ UNCHANGED <<pc, pieces, size, asked, pex, left, blamed, result, honest, sent>>

Hush  == Leave("silent")
Close == Leave("closed")

\* Mutant: only a peer that has not shown up yet is given up.
GivesUpEarly == conn = "silent" /\ pieces = None

\* read_message waits fifteen seconds for each part of a message.
GivesUp == conn = "silent"

Timeout ==
    /\ pc = "read"
    /\ GivesUp
    /\ End("lost")
    /\ UNCHANGED <<blamed, sent>>

\* A message the loop skips.  A closed stream gives one after the other: as
\* read_message drops the error, each read returns a message of length 0.
Skip == pc = "read" /\ UNCHANGED vars

Ended == pc = "ended" /\ UNCHANGED vars

-----------------------------------------------------------------------------

Setup == Connect \/ ConnectFails \/ Handshake \/ HandshakeFails \/ Hello \/ HelloFails

Next ==
    \/ Setup
    \/ Garbage \/ PeerHello \/ Data \/ Exchange \/ Forward
    \/ Hush \/ Close \/ Timeout \/ Skip \/ Ended

Spec == Init /\ [][Next]_vars

\* Every await until the loop has a timeout, and so has each read.  The pool
\* always makes room for what is forwarded (ForwardsEnd in WirePool).  An honest
\* peer sends what it is asked for.
Fairness ==
    /\ WF_vars(Setup)
    /\ WF_vars(Timeout)
    /\ WF_vars(Forward)
    /\ SF_vars(honest /\ PeerHello)
    /\ SF_vars(honest /\ Data)

FairSpec == Spec /\ Fairness

-----------------------------------------------------------------------------
(* Properties. *)

\* The pool's view of the conversation.
AbsTask ==
    [at   |-> IF pc \in {"handshake", "hello", "read"} THEN "talk" ELSE pc,
     left |-> left]

Abs == INSTANCE FetchSpec WITH
          task <- AbsTask, blamed <- blamed, reported <- (result = "ok")

\* A conversation is no more than FetchSpec promises: at most one report, which
\* ends it, a peer blamed only for a failed connection, and forwarding only of
\* peers that were named, one after the other.
FetchSpecified == Abs!Spec

\* A peer that has announced the real size and sent the real piece for every
\* place, last of all it sent for that place, has had the metadata reported:
\* in whatever order the pieces came, twice or unasked, with pieces beyond the end
\* between them, and also where a wrong one came first.  It is the last piece
\* missing, not the last in order, that completes the metadata (wire.rs:202).
RightPiecesSuffice == size = Real /\ Place \subseteq sent => result = "ok"

\* An honest peer is never refused.  (README.md:32: the complete metadata of a
\* torrent is downloaded from its peers.)
HonestNotRefused == honest => result # "refused"

\* An honest peer that is not asked in vain is heard to the end: its metadata is
\* reported some day.
HonestServed == honest ~> result = "ok"

\* A peer that falls silent loses the connection, wherever the loop is, so that its
\* permit returns to the pool.
SilentDropped == conn = "silent" ~> pc = "ended"

\* README.md:105 gives the downloads 256 workers at a time: one whose peer has
\* closed the connection is free again some day.
ClosedDropped == conn = "closed" ~> pc = "ended"
=============================================================================
