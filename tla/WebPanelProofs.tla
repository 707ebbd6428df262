--------------------------- MODULE WebPanelProofs ---------------------------
(***************************************************************************)
(* Theorems about the script of the page, for every value of the           *)
(* constants: any number of requests in flight, of moves and of attempts.  *)
(*                                                                         *)
(* Neither OnePoll nor DialogShowsRow is inductive.  The dialog shows a    *)
(* row because of an answer, the answer was asked for by an interval or by *)
(* queryRow, and all of them must be about the row the dialog was opened   *)
(* for last; and a lookup that is still to be answered must be the only    *)
(* one, for its answer starts an interval.  OneRow says this of everything *)
(* that is pending, and holds until a row is asked for with an answer      *)
(* still to come.                                                          *)
(***************************************************************************)
EXTENDS WebPanel, FiniteSetTheorems, TLAPS

FlightOK == IsABag(flight) /\ DOMAIN flight \subseteq Request

PollsOK ==
    /\ DOMAIN polls \subseteq Nat \ {0}
    /\ IsFiniteSet(DOMAIN polls)
    /\ \A i \in DOMAIN polls : polls[i] \in [row : Row, attempts : 0 .. MaxAttempts]
    /\ pollTimer \in {0} \cup DOMAIN polls

DialogOK ==
    dialog \in [open : BOOLEAN, asked : Row \cup {NoRow}, result : Row \cup {NoRow},
                status : {"", "asking", "timeout", "network"}]

PageOK ==
    /\ secret \in Key /\ key \in Key \cup {NoKey}
    /\ gate \in BOOLEAN /\ auto \in BOOLEAN /\ ticking \in BOOLEAN
    /\ ticking => auto
    /\ view \in View
    /\ table \in [rows : View \cup {NoView}, numbers : View \cup {NoView}]
    /\ moves \in 0 .. MaxMoves
    /\ refused \in BOOLEAN /\ crossed \in BOOLEAN

Typed == PageOK /\ FlightOK /\ DialogOK /\ PollsOK

\* Everything that is pending is about the row the dialog was opened for last.
OneRow ==
    /\ DOMAIN polls \subseteq {pollTimer}
    /\ dialog.result \in {NoRow, dialog.asked}
    /\ \A i \in DOMAIN polls : polls[i].row = dialog.asked
    /\ \A q \in Queries : q.of = dialog.asked
    /\ \A q \in Queries :
           q.kind = "query" => flight[q] = 1 /\ Queries = {q} /\ DOMAIN polls = {}

PanelInv == Typed /\ (~ crossed => OneRow)

-----------------------------------------------------------------------------
(* Bags. *)

LEMMA AddToBag ==
    ASSUME NEW B, IsABag(B), NEW x
    PROVE  /\ IsABag(BagAdd(B, x))
           /\ DOMAIN BagAdd(B, x) = DOMAIN B \cup {x}
           /\ x \notin DOMAIN B => BagAdd(B, x)[x] = 1
           /\ \A y \in DOMAIN B : y # x => BagAdd(B, x)[y] = B[y]
<1>1. CASE x \in DOMAIN B
  <2>1. BagAdd(B, x) = [e \in DOMAIN B |-> IF e = x THEN B[e] + 1 ELSE B[e]]
    BY <1>1 DEF BagAdd
  <2>2. \A e \in DOMAIN B : BagAdd(B, x)[e] \in {n \in Nat : n > 0}
    BY <2>1 DEF IsABag
  <2> QED
    BY <1>1, <2>1, <2>2 DEF IsABag
<1>2. CASE x \notin DOMAIN B
  <2>1. BagAdd(B, x) = [e \in DOMAIN B \cup {x} |-> IF e = x THEN 1 ELSE B[e]]
    BY <1>2 DEF BagAdd
  <2>2. \A e \in DOMAIN B \cup {x} : BagAdd(B, x)[e] \in {n \in Nat : n > 0}
    BY <2>1 DEF IsABag
  <2> QED
    BY <1>2, <2>1, <2>2 DEF IsABag
<1> QED
  BY <1>1, <1>2

LEMMA RemoveFromBag ==
    ASSUME NEW B, IsABag(B), NEW x \in DOMAIN B
    PROVE  /\ IsABag(BagRemove(B, x))
           /\ DOMAIN BagRemove(B, x) =
                  IF B[x] = 1 THEN DOMAIN B \ {x} ELSE DOMAIN B
           /\ \A y \in DOMAIN BagRemove(B, x) : y # x => BagRemove(B, x)[y] = B[y]
<1>1. B[x] \in Nat /\ B[x] > 0
  BY DEF IsABag
<1>2. CASE B[x] = 1
  BY <1>2 DEF BagRemove, IsABag
<1>3. CASE B[x] # 1
  BY <1>1, <1>3 DEF BagRemove, IsABag
<1> QED
  BY <1>2, <1>3

LEMMA BagOfOne ==
    ASSUME NEW x
    PROVE  /\ IsABag(SetToBag({x})) /\ DOMAIN SetToBag({x}) = {x}
           /\ IsABag(EmptyBag) /\ DOMAIN EmptyBag = {}
BY DEF IsABag, SetToBag, EmptyBag

-----------------------------------------------------------------------------
(* What the pieces of the actions do. *)

LEMMA AskTyped ==
    /\ \A k \in Key, kind \in {"enter", "resume"} : Ask(kind, k, NoView) \in Request
    /\ \A k \in Key \cup {NoKey}, v \in View : Ask("list", k, v) \in Request
    /\ \A k \in Key \cup {NoKey}, r \in Row, kind \in {"query", "poll"} :
           Ask(kind, k, r) \in Request
BY DEF Ask, Request

LEMMA RequestFields ==
    ASSUME NEW q \in Request
    PROVE  /\ q.kind \in {"enter", "resume", "list", "query", "poll"}
           /\ q.kind \in {"enter", "resume"} => q.key \in Key
           /\ q.kind = "list" => q.of \in View
           /\ q.kind \in {"query", "poll"} => q.of \in Row
BY DEF Request

\* A request sent and an answer taken keep the bag of requests well formed.
LEMMA SendTyped ==
    ASSUME FlightOK, NEW x \in Request, flight' = BagAdd(flight, x)
    PROVE  FlightOK'
<1>1. IsABag(BagAdd(flight, x)) /\ DOMAIN BagAdd(flight, x) = DOMAIN flight \cup {x}
  BY AddToBag DEF FlightOK
<1> QED
  BY <1>1 DEF FlightOK, IsABag

LEMMA AnsweredTyped ==
    ASSUME FlightOK, NEW q \in DOMAIN flight
    PROVE  /\ IsABag(BagRemove(flight, q))
           /\ DOMAIN BagRemove(flight, q) \subseteq Request
BY RemoveFromBag DEF FlightOK

LEMMA LoadedTyped ==
    ASSUME NEW k \in Key \cup {NoKey}
    PROVE  /\ IsABag(LoadedWith(k))
           /\ DOMAIN LoadedWith(k) \subseteq Request
           /\ \A q \in DOMAIN LoadedWith(k) : q.kind = "resume"
<1>1. CASE k = NoKey
  BY <1>1, BagOfOne DEF LoadedWith
<1>2. CASE k # NoKey
  <2> DEFINE r == Ask("resume", k, NoView)
  <2>1. k \in Key /\ LoadedWith(k) = SetToBag({r})
    BY <1>2 DEF LoadedWith
  <2>2. r \in Request /\ r.kind = "resume"
    BY <2>1, AskTyped DEF Ask
  <2> HIDE DEF r
  <2>3. IsABag(SetToBag({r})) /\ DOMAIN SetToBag({r}) = {r}
    BY BagOfOne
  <2> QED
    BY <2>1, <2>2, <2>3
<1> QED
  BY <1>1, <1>2

\* clearInterval takes the interval that pollTimer refers to, and no other.
LEMMA StopPollTyped ==
    ASSUME PollsOK, StopPoll
    PROVE  PollsOK' /\ DOMAIN polls' = DOMAIN polls \ {pollTimer}
<1>1. /\ DOMAIN polls' = DOMAIN polls \ {pollTimer}
      /\ \A i \in DOMAIN polls' : polls'[i] = polls[i]
      /\ pollTimer' = 0
  BY DEF StopPoll, Restrict
<1>2. IsFiniteSet(DOMAIN polls')
  BY <1>1, FS_Subset DEF PollsOK
<1> QED
  BY <1>1, <1>2 DEF PollsOK

\* There is always a number for another interval.
LEMMA NewIntervalFree ==
    ASSUME PollsOK
    PROVE  NewInterval \in Nat \ {0} /\ NewInterval \notin DOMAIN polls
<1> DEFINE n == Cardinality(DOMAIN polls)
<1>1. n \in Nat
  BY FS_CardinalityType DEF PollsOK
<1>2. \E i \in 1 .. n + 1 : i \notin DOMAIN polls
  <2> SUFFICES ASSUME 1 .. n + 1 \subseteq DOMAIN polls PROVE FALSE
    OBVIOUS
  <2>1. Cardinality(1 .. n + 1) = n + 1
    BY <1>1, FS_Interval
  <2>2. Cardinality(1 .. n + 1) <= n
    BY FS_Subset DEF PollsOK
  <2> QED
    BY <1>1, <2>1, <2>2
<1>3. NewInterval \in 1 .. n + 1 /\ NewInterval \notin DOMAIN polls
  BY <1>2 DEF NewInterval
<1> QED
  BY <1>1, <1>3

\* setInterval adds one interval, and pollTimer refers to it.
LEMMA NewPollTyped ==
    ASSUME PollsOK, NEW r \in Row, pollTimer' = NewInterval,
           polls' = [i \in DOMAIN polls \cup {pollTimer'} |->
                        IF i = pollTimer' THEN [row |-> r, attempts |-> 0] ELSE polls[i]]
    PROVE  /\ PollsOK'
           /\ DOMAIN polls' = DOMAIN polls \cup {pollTimer'}
           /\ polls'[pollTimer'].row = r
<1>1. pollTimer' \in Nat \ {0} /\ pollTimer' \notin DOMAIN polls
  BY NewIntervalFree
<1>2. /\ DOMAIN polls' = DOMAIN polls \cup {pollTimer'}
      /\ polls'[pollTimer'] = [row |-> r, attempts |-> 0]
      /\ \A i \in DOMAIN polls : polls'[i] = polls[i]
  BY <1>1
<1>3. IsFiniteSet(DOMAIN polls')
  BY <1>2, FS_AddElement DEF PollsOK
<1>4. \A i \in DOMAIN polls' : polls'[i] \in [row : Row, attempts : 0 .. MaxAttempts]
  BY <1>2, PanelAssumption DEF PollsOK
<1> QED
  BY <1>1, <1>2, <1>3, <1>4 DEF PollsOK

\* The key was right: one request is answered, one for the list is sent.
LEMMA LetInTyped ==
    ASSUME FlightOK, NEW q \in DOMAIN flight, LetIn(q),
           key' \in Key \cup {NoKey}, view \in View
    PROVE  /\ FlightOK'
           /\ DOMAIN flight' \subseteq DOMAIN flight \cup {Ask("list", key', view)}
<1> DEFINE B == BagRemove(flight, q)
           x == Ask("list", key', view)
<1>1. IsABag(B) /\ DOMAIN B \subseteq Request /\ DOMAIN B \subseteq DOMAIN flight
  BY AnsweredTyped, RemoveFromBag DEF FlightOK
<1>2. x \in Request
  BY AskTyped
<1>3. flight' = BagAdd(B, x)
  BY DEF LetIn
<1> HIDE DEF B, x
<1>4. IsABag(BagAdd(B, x)) /\ DOMAIN BagAdd(B, x) = DOMAIN B \cup {x}
  BY <1>1, AddToBag
<1>5. IsABag(flight') /\ DOMAIN flight' = DOMAIN B \cup {x}
  BY <1>3, <1>4
<1> QED
  BY <1>1, <1>2, <1>5 DEF FlightOK, x

-----------------------------------------------------------------------------
(* Types. *)

LEMMA InitTyped == Init => Typed
<1> SUFFICES ASSUME Init PROVE Typed
  OBVIOUS
<1>1. FlightOK
  BY LoadedTyped DEF Init, FlightOK
<1>2. PollsOK
  BY FS_EmptySet DEF Init, PollsOK
<1>3. PageOK
  <2>1. table \in [rows : View \cup {NoView}, numbers : View \cup {NoView}]
    BY DEF Init, Blank
  <2>2. /\ gate \in BOOLEAN /\ auto \in BOOLEAN /\ ticking \in BOOLEAN
        /\ refused \in BOOLEAN /\ crossed \in BOOLEAN
        /\ ticking => auto
    BY DEF Init
  <2>3. /\ secret \in Key /\ key \in Key \cup {NoKey}
        /\ view \in View /\ moves \in 0 .. MaxMoves
    BY PanelAssumption DEF Init
  <2> QED
    BY <2>1, <2>2, <2>3 DEF PageOK
<1>4. DialogOK
  BY DEF Init, DialogOK, NoDialog
<1> QED
  BY <1>1, <1>2, <1>3, <1>4 DEF Typed

\* What a step leaves alone keeps its type.
LEMMA Untouched ==
    ASSUME Typed
    PROVE  /\ UNCHANGED flight => FlightOK'
           /\ UNCHANGED dvars => DialogOK' /\ PollsOK'
           /\ UNCHANGED dialog => DialogOK'
           /\ UNCHANGED <<polls, pollTimer>> => PollsOK'
BY DEF Typed, FlightOK, DialogOK, PollsOK, dvars, IsABag

\* A move taken leaves a number of moves.
LEMMA MoveTyped == ASSUME PageOK, Move PROVE moves' \in 0 .. MaxMoves
BY PanelAssumption DEF PageOK, Move

\* The steps of the user.
LEMMA UserTyped == ASSUME Typed, User \/ Restart PROVE Typed'
<1> USE DEF Typed
<1>1. CASE TryAuth
  <2>1. FlightOK'
    BY <1>1, SendTyped, AskTyped DEF TryAuth
  <2>2. PageOK'
    BY <1>1, MoveTyped DEF TryAuth, PageOK, gvars, hvars
  <2> QED
    BY <1>1, <2>1, <2>2, Untouched DEF TryAuth
<1>2. CASE Reload
  <2>1. FlightOK'
    BY <1>2, LoadedTyped DEF Reload, FlightOK, PageOK
  <2>2. PageOK'
    BY <1>2, MoveTyped, PanelAssumption DEF Reload, PageOK, Blank
  <2>3. PollsOK'
    BY <1>2, FS_EmptySet DEF Reload, PollsOK
  <2>4. DialogOK'
    BY <1>2 DEF Reload, DialogOK, NoDialog
  <2> QED
    BY <2>1, <2>2, <2>3, <2>4
<1>3. CASE Browse
  <2>1. FlightOK'
    BY <1>3, SendTyped, AskTyped DEF Browse, PageOK
  <2>2. PageOK'
    BY <1>3, MoveTyped DEF Browse, PageOK, gvars, hvars
  <2> QED
    BY <1>3, <2>1, <2>2, Untouched DEF Browse
<1>4. CASE Toggle
  <2>1. PageOK'
    BY <1>4, MoveTyped DEF Toggle, PageOK, hvars
  <2> QED
    BY <1>4, <2>1, Untouched DEF Toggle
<1>5. CASE QueryRow
  <2>1. PICK r \in Row :
           /\ dialog' = [open |-> TRUE, asked |-> r, result |-> NoRow, status |-> "asking"]
           /\ flight' = BagAdd(flight, Ask("query", key, r))
    BY <1>5 DEF QueryRow
  <2>2. FlightOK'
    BY <2>1, SendTyped, AskTyped DEF PageOK
  <2>3. PageOK'
    BY <1>5, MoveTyped DEF QueryRow, PageOK, gvars
  <2>4. PollsOK'
    BY <1>5, StopPollTyped DEF QueryRow
  <2>5. DialogOK'
    BY <2>1 DEF DialogOK
  <2> QED
    BY <2>2, <2>3, <2>4, <2>5
<1>6. CASE CloseModal
  <2>1. PageOK'
    BY <1>6, MoveTyped DEF CloseModal, PageOK, gvars, hvars
  <2>2. PollsOK'
    BY <1>6, StopPollTyped DEF CloseModal
  <2>3. DialogOK'
    BY <1>6 DEF CloseModal, DialogOK
  <2> QED
    BY <1>6, <2>1, <2>2, <2>3, Untouched DEF CloseModal
<1>7. CASE Restart
  <2>1. PageOK'
    BY <1>7, MoveTyped DEF Restart, PageOK, gvars, hvars
  <2> QED
    BY <1>7, <2>1, Untouched DEF Restart
<1> QED
  BY <1>1, <1>2, <1>3, <1>4, <1>5, <1>6, <1>7 DEF User

\* The timers, and nothing at all.
LEMMA TimerTyped ==
    ASSUME Typed, Refresh \/ (\E i \in DOMAIN polls : Poll(i)) \/ Quiet \/ UNCHANGED vars
    PROVE  Typed'
<1> USE DEF Typed
<1>1. CASE Refresh
  <2>1. FlightOK'
    BY <1>1, SendTyped, AskTyped DEF Refresh, PageOK
  <2>2. PageOK'
    BY <1>1 DEF Refresh, PageOK, gvars, hvars
  <2> QED
    BY <1>1, <2>1, <2>2, Untouched DEF Refresh
<1>2. ASSUME NEW i \in DOMAIN polls, Poll(i) PROVE Typed'
  <2>1. PageOK'
    BY <1>2 DEF Poll, PageOK, gvars, hvars
  <2>2. CASE polls[i].attempts < MaxAttempts
    <3>1. /\ polls' = [polls EXCEPT ![i].attempts = @ + 1]
          /\ flight' = BagAdd(flight, Ask("poll", key, polls[i].row))
          /\ UNCHANGED <<dialog, pollTimer>>
      BY <1>2, <2>2 DEF Poll
    <3>2. polls[i] \in [row : Row, attempts : 0 .. MaxAttempts]
      BY DEF PollsOK
    <3>3. FlightOK'
      BY <3>1, <3>2, SendTyped, AskTyped DEF PageOK
    <3>4. /\ DOMAIN polls' = DOMAIN polls
          /\ \A j \in DOMAIN polls : j # i => polls'[j] = polls[j]
          /\ polls'[i] = [polls[i] EXCEPT !.attempts = @ + 1]
      BY <3>1
    <3>5. polls'[i] \in [row : Row, attempts : 0 .. MaxAttempts]
      BY <2>2, <3>2, <3>4, PanelAssumption
    <3>6. PollsOK'
      BY <3>1, <3>4, <3>5 DEF PollsOK
    <3> QED
      BY <2>1, <3>1, <3>3, <3>6, Untouched
  <2>3. CASE ~ (polls[i].attempts < MaxAttempts)
    <3>1. StopPoll /\ dialog' = [dialog EXCEPT !.status = "timeout"] /\ UNCHANGED flight
      BY <1>2, <2>3 DEF Poll
    <3>2. DialogOK'
      BY <3>1 DEF DialogOK
    <3> QED
      BY <2>1, <3>1, <3>2, StopPollTyped, Untouched
  <2> QED
    BY <2>2, <2>3
<1>3. CASE Quiet \/ UNCHANGED vars
  BY <1>3, Untouched DEF Quiet, vars, PageOK, dvars
<1> QED
  BY <1>1, <1>2, <1>3

\* The answers, right, refused or failed.
LEMMA AnswerTyped == ASSUME Typed, Answer PROVE Typed'
<1> USE DEF Typed
<1>0. ASSUME NEW q \in DOMAIN flight, Answered(q) PROVE FlightOK'
  BY <1>0, AnsweredTyped DEF Answered, FlightOK
<1>1. ASSUME NEW q \in DOMAIN flight PROVE q \in Request
  BY <1>1 DEF FlightOK
<1>2. CASE AnswerEnter \/ AnswerResume
  <2>1. PICK q \in DOMAIN flight :
           /\ q.kind \in {"enter", "resume"}
           /\ \/ Answered(q) /\ UNCHANGED <<gate, ticking>> /\ key' \in {key, NoKey}
              \/ key' \in {key, q.key} /\ LetIn(q)
           /\ UNCHANGED <<secret, auto, view, table, dvars, moves, hvars>>
    BY <1>2 DEF AnswerEnter, AnswerResume
  <2>2. key' \in Key \cup {NoKey}
    BY <1>1, <2>1, RequestFields DEF PageOK
  <2>3. FlightOK'
    BY <1>0, <2>1, <2>2, LetInTyped DEF PageOK
  <2>4. PageOK'
    <3>1. /\ gate' \in {gate, FALSE} /\ ticking' \in {ticking, auto}
          /\ UNCHANGED <<secret, auto, view, table, moves, refused, crossed>>
      BY <2>1 DEF LetIn, hvars
    <3>2. /\ gate' \in BOOLEAN /\ ticking' \in BOOLEAN /\ auto' \in BOOLEAN
          /\ ticking' => auto'
      <4>1. gate' \in BOOLEAN /\ auto' \in BOOLEAN
        BY <3>1 DEF PageOK
      <4>2. CASE ticking' = ticking
        BY <3>1, <4>1, <4>2 DEF PageOK
      <4>3. CASE ticking' = auto
        BY <3>1, <4>1, <4>3 DEF PageOK
      <4> QED
        BY <3>1, <4>1, <4>2, <4>3
    <3> QED
      BY <2>2, <3>1, <3>2 DEF PageOK
  <2> QED
    BY <2>1, <2>3, <2>4, Untouched
<1>3. ASSUME NEW q \in DOMAIN flight, AnswerList(q) PROVE Typed'
  <2>1. FlightOK'
    BY <1>0, <1>3 DEF AnswerList
  <2>2. q.of \in View
    BY <1>1, <1>3, RequestFields DEF AnswerList
  <2>3. PageOK'
    <3>1. table' \in [rows : View \cup {NoView}, numbers : View \cup {NoView}]
      BY <1>3, <2>2 DEF AnswerList, PageOK
    <3>2. /\ key' \in {key, NoKey} /\ gate' \in {gate, TRUE} /\ refused' \in {refused, TRUE}
          /\ UNCHANGED <<secret, view, auto, ticking, moves, crossed>>
      BY <1>3 DEF AnswerList, HandleUnauthorized
    <3> QED
      BY <3>1, <3>2 DEF PageOK
  <2> QED
    BY <1>3, <2>1, <2>3, Untouched DEF AnswerList
<1>4. CASE FailQuietly
  <2>1. FlightOK'
    BY <1>0, <1>4 DEF FailQuietly
  <2>2. PageOK'
    BY <1>4 DEF FailQuietly, PageOK, gvars, hvars
  <2> QED
    BY <1>4, <2>1, <2>2, Untouched DEF FailQuietly
<1>5. CASE AnswerQuery
  <2>1. PICK q \in DOMAIN flight :
           /\ q.kind = "query"
           /\ Answered(q)
           /\ \/ HandleUnauthorized /\ UNCHANGED dvars
              \/ Render(q.of) /\ UNCHANGED <<key, gate, refused, polls, pollTimer>>
              \/ /\ pollTimer' = NewInterval
                 /\ polls' = [i \in DOMAIN polls \cup {pollTimer'} |->
                                  IF i = pollTimer' THEN [row |-> q.of, attempts |-> 0]
                                  ELSE polls[i]]
                 /\ UNCHANGED <<key, gate, refused, dialog>>
           /\ UNCHANGED <<secret, view, auto, ticking, table, moves, crossed>>
    BY <1>5 DEF AnswerQuery
  <2>2. q.of \in Row
    BY <1>1, <2>1, RequestFields
  <2>3. FlightOK'
    BY <1>0, <2>1
  <2>4. PageOK'
    BY <2>1 DEF PageOK, HandleUnauthorized
  <2>5. PollsOK'
    BY <2>1, <2>2, NewPollTyped, Untouched DEF dvars
  <2>6. DialogOK'
    <3>1. CASE UNCHANGED dialog
      BY <3>1, Untouched
    <3>2. CASE Render(q.of)
      BY <2>2, <3>2 DEF Render, DialogOK
    <3> QED
      BY <2>1, <3>1, <3>2 DEF dvars
  <2> QED
    BY <2>3, <2>4, <2>5, <2>6
<1>6. CASE FailQuery
  <2>1. FlightOK'
    BY <1>0, <1>6 DEF FailQuery
  <2>2. PageOK'
    BY <1>6 DEF FailQuery, PageOK, gvars, hvars
  <2>3. DialogOK'
    BY <1>6 DEF FailQuery, DialogOK
  <2> QED
    BY <1>6, <2>1, <2>2, <2>3, Untouched DEF FailQuery
<1>7. CASE AnswerPoll
  <2>1. PICK q \in DOMAIN flight :
           /\ q.kind = "poll"
           /\ Answered(q)
           /\ \/ HandleUnauthorized /\ StopPoll /\ dialog' = dialog
              \/ StopPoll /\ Render(q.of) /\ UNCHANGED <<key, gate, refused>>
              \/ UNCHANGED <<dvars, key, gate, refused>>
           /\ UNCHANGED <<secret, view, auto, ticking, table, moves, crossed>>
    BY <1>7 DEF AnswerPoll
  <2>2. q.of \in Row
    BY <1>1, <2>1, RequestFields
  <2>3. FlightOK'
    BY <1>0, <2>1
  <2>4. PageOK'
    BY <2>1 DEF PageOK, HandleUnauthorized
  <2>5. PollsOK'
    BY <2>1, StopPollTyped, Untouched
  <2>6. DialogOK'
    <3>1. CASE UNCHANGED dialog
      BY <3>1, Untouched
    <3>2. CASE Render(q.of)
      BY <2>2, <3>2 DEF Render, DialogOK
    <3> QED
      BY <2>1, <3>1, <3>2 DEF dvars
  <2> QED
    BY <2>3, <2>4, <2>5, <2>6
<1> QED
  BY <1>2, <1>3, <1>4, <1>5, <1>6, <1>7 DEF Answer

LEMMA NextTyped == Typed /\ [Next]_vars => Typed'
BY UserTyped, TimerTyped, AnswerTyped DEF Next

LEMMA AlwaysTyped == Spec => []Typed
BY InitTyped, NextTyped, PTL DEF Spec

\* Every variable of the script keeps its type; in particular pollTimer is
\* null or refers to an interval that runs, and no interval asks more often
\* than it may (queryRow's attempts).
THEOREM PanelTypeCorrect == Spec => []TypeOK
<1>1. Typed => TypeOK
  BY DEF Typed, PageOK, FlightOK, DialogOK, PollsOK, TypeOK
<1> QED
  BY <1>1, AlwaysTyped, PTL

-----------------------------------------------------------------------------
(* One row. *)

\* No lookup of a row is added, and one that was sent once is not doubled.
QueriesShrink ==
    /\ Queries' \subseteq Queries
    /\ \A q \in Queries' : flight[q] = 1 => flight'[q] = 1

\* OneRow survives what only takes away: lookups, intervals, a result.
LEMMA OneRowShrinks ==
    ASSUME OneRow, QueriesShrink,
           dialog'.asked = dialog.asked,
           dialog'.result \in {NoRow, dialog.result, dialog.asked},
           DOMAIN polls' \subseteq DOMAIN polls, DOMAIN polls' \subseteq {pollTimer'},
           \A i \in DOMAIN polls' : polls'[i] = polls[i]
    PROVE  OneRow'
<1>1. \A q \in Queries' : q.of = dialog'.asked
  BY DEF OneRow, QueriesShrink
<1>2. \A i \in DOMAIN polls' : polls'[i].row = dialog'.asked
  BY DEF OneRow
<1>3. ASSUME NEW q \in Queries', q.kind = "query"
      PROVE  flight'[q] = 1 /\ Queries' = {q} /\ DOMAIN polls' = {}
  BY <1>3 DEF OneRow, QueriesShrink
<1> QED
  BY <1>1, <1>2, <1>3 DEF OneRow

\* An answer takes a request out of flight,
LEMMA AnsweredShrinks ==
    ASSUME FlightOK, NEW q \in DOMAIN flight, Answered(q)
    PROVE  /\ QueriesShrink
           /\ flight[q] = 1 => q \notin Queries'
<1>1. /\ DOMAIN flight' = IF flight[q] = 1 THEN DOMAIN flight \ {q} ELSE DOMAIN flight
      /\ \A y \in DOMAIN flight' : y # q => flight'[y] = flight[y]
  BY RemoveFromBag DEF FlightOK, Answered
<1> QED
  BY <1>1 DEF QueriesShrink, Queries

\* a request of another kind adds no lookup,
LEMMA SentShrinks ==
    ASSUME FlightOK, NEW x, x.kind \notin {"query", "poll"}, flight' = BagAdd(flight, x)
    PROVE  QueriesShrink
<1>1. /\ DOMAIN BagAdd(flight, x) = DOMAIN flight \cup {x}
      /\ \A y \in DOMAIN flight : y # x => BagAdd(flight, x)[y] = flight[y]
  BY AddToBag DEF FlightOK
<1> QED
  BY <1>1 DEF QueriesShrink, Queries

\* nor do the two together.
LEMMA LetInShrinks ==
    ASSUME FlightOK, NEW q \in DOMAIN flight, LetIn(q)
    PROVE  QueriesShrink
<1> DEFINE B == BagRemove(flight, q)
           x == Ask("list", key', view)
<1>1. /\ IsABag(B)
      /\ DOMAIN B = IF flight[q] = 1 THEN DOMAIN flight \ {q} ELSE DOMAIN flight
      /\ \A y \in DOMAIN B : y # q => B[y] = flight[y]
  BY RemoveFromBag DEF FlightOK
<1>2. x.kind = "list"
  BY DEF Ask
<1>3. flight' = BagAdd(B, x)
  BY DEF LetIn
<1> HIDE DEF B, x
<1>4. /\ DOMAIN flight' = DOMAIN B \cup {x}
      /\ \A y \in DOMAIN B : y # x => flight'[y] = B[y]
  BY <1>1, <1>3, AddToBag
<1>5. \A y \in Queries' : y \in DOMAIN B /\ y # x
  BY <1>2, <1>4 DEF Queries
<1> QED
  BY <1>1, <1>4, <1>5 DEF QueriesShrink, Queries

\* A dialog that is closed and a page that is new have nothing pending.
LEMMA NothingPending ==
    ASSUME Queries' = {}, DOMAIN polls' = {}, dialog'.result = NoRow
    PROVE  OneRow'
BY DEF OneRow

LEMMA InitOneRow == Init => (~ crossed => OneRow)
<1> SUFFICES ASSUME Init PROVE OneRow
  OBVIOUS
<1>1. Queries = {}
  BY LoadedTyped DEF Init, Queries
<1>2. polls = <<>> /\ dialog = NoDialog
  BY DEF Init
<1>3. DOMAIN polls = {}
  BY <1>2
<1>4. dialog.result = NoRow
  BY <1>2 DEF NoDialog
<1> QED
  BY <1>1, <1>3, <1>4 DEF OneRow

\* What the user does: only opening the dialog starts a lookup.
LEMMA UserOneRow ==
    ASSUME Typed, ~ crossed => OneRow, User \/ Restart
    PROVE  ~ crossed' => OneRow'
<1> USE DEF Typed
<1>0. OneRow => DOMAIN polls \subseteq {pollTimer}
  BY DEF OneRow
<1>1. CASE TryAuth \/ Browse
  <2>1. PICK x : x.kind \in {"enter", "list"} /\ flight' = BagAdd(flight, x)
    <3>1. CASE TryAuth
      <4>1. PICK k \in Key : flight' = BagAdd(flight, Ask("enter", k, NoView))
        BY <3>1 DEF TryAuth
      <4>2. Ask("enter", k, NoView).kind = "enter"
        BY DEF Ask
      <4> QED
        BY <4>1, <4>2
    <3>2. CASE Browse
      <4>1. PICK v \in View : flight' = BagAdd(flight, Ask("list", key, v))
        BY <3>2 DEF Browse
      <4>2. Ask("list", key, v).kind = "list"
        BY DEF Ask
      <4> QED
        BY <4>1, <4>2
    <3> QED
      BY <1>1, <3>1, <3>2
  <2>2. QueriesShrink
    BY <2>1, SentShrinks
  <2>3. UNCHANGED <<dialog, polls, pollTimer, crossed>>
    BY <1>1 DEF TryAuth, Browse, dvars, hvars
  <2> QED
    BY <1>0, <2>2, <2>3, OneRowShrinks
<1>2. CASE Reload
  <2>1. Queries' = {}
    BY <1>2, LoadedTyped DEF Reload, Queries, PageOK
  <2>2. polls' = <<>> /\ dialog' = NoDialog
    BY <1>2 DEF Reload
  <2>3. DOMAIN polls' = {}
    BY <2>2
  <2>4. dialog'.result = NoRow
    BY <2>2 DEF NoDialog
  <2> QED
    BY <2>1, <2>3, <2>4, NothingPending
<1>3. CASE Toggle \/ Restart
  BY <1>3 DEF Toggle, Restart, dvars, hvars, OneRow, Queries
<1>4. CASE QueryRow
  <2>1. PICK r \in Row :
           /\ dialog' = [open |-> TRUE, asked |-> r, result |-> NoRow, status |-> "asking"]
           /\ flight' = BagAdd(flight, Ask("query", key, r))
    BY <1>4 DEF QueryRow
  <2>2. SUFFICES ASSUME ~ crossed' PROVE OneRow'
    OBVIOUS
  <2>3. ~ crossed /\ Queries = {}
    BY <1>4, <2>2 DEF QueryRow
  <2> DEFINE x == Ask("query", key, r)
  <2>4. x.kind = "query" /\ x.of = r
    BY DEF Ask
  <2>5. flight' = BagAdd(flight, x)
    BY <2>1
  <2> HIDE DEF x
  <2>6. x \notin DOMAIN flight
    BY <2>3, <2>4 DEF Queries
  <2>7. DOMAIN flight' = DOMAIN flight \cup {x} /\ flight'[x] = 1
    BY <2>5, <2>6, AddToBag DEF FlightOK
  <2>8. Queries' = {x}
    BY <2>3, <2>4, <2>7 DEF Queries
  <2>9. DOMAIN polls' = {}
    BY <1>0, <1>4, <2>3, StopPollTyped DEF QueryRow
  <2> QED
    BY <2>1, <2>4, <2>7, <2>8, <2>9 DEF OneRow
<1>5. CASE CloseModal
  <2>1. /\ dialog'.asked = dialog.asked /\ dialog'.result = dialog.result
        /\ UNCHANGED <<flight, crossed>>
    BY <1>5 DEF CloseModal, DialogOK, hvars
  <2>2. DOMAIN polls' = DOMAIN polls \ {pollTimer}
    BY <1>5, StopPollTyped DEF CloseModal
  <2>3. \A i \in DOMAIN polls' : polls'[i] = polls[i]
    BY <1>5 DEF CloseModal, StopPoll, Restrict
  <2>4. QueriesShrink
    BY <2>1 DEF QueriesShrink, Queries
  <2> QED
    BY <1>0, <2>1, <2>2, <2>3, <2>4, OneRowShrinks
<1> QED
  BY <1>1, <1>2, <1>3, <1>4, <1>5 DEF User

\* The interval that fires asks for its own row.
LEMMA TimerOneRow ==
    ASSUME Typed, ~ crossed => OneRow,
           Refresh \/ (\E i \in DOMAIN polls : Poll(i)) \/ Quiet \/ UNCHANGED vars
    PROVE  ~ crossed' => OneRow'
<1> USE DEF Typed
<1>0. OneRow => DOMAIN polls \subseteq {pollTimer}
  BY DEF OneRow
<1>1. CASE Refresh
  <2>1. PICK x : x.kind = "list" /\ flight' = BagAdd(flight, x)
    BY <1>1 DEF Refresh, Ask
  <2>2. QueriesShrink
    BY <2>1, SentShrinks
  <2>3. UNCHANGED <<dialog, polls, pollTimer, crossed>>
    BY <1>1 DEF Refresh, dvars, hvars
  <2> QED
    BY <1>0, <2>2, <2>3, OneRowShrinks
<1>2. ASSUME NEW i \in DOMAIN polls, Poll(i), OneRow PROVE OneRow'
  <2>1. CASE polls[i].attempts < MaxAttempts
    <3> DEFINE x == Ask("poll", key, polls[i].row)
    <3>1. /\ polls' = [polls EXCEPT ![i].attempts = @ + 1]
          /\ flight' = BagAdd(flight, x)
          /\ UNCHANGED <<dialog, pollTimer>>
      BY <1>2, <2>1 DEF Poll
    <3>2. x.kind = "poll" /\ x.of = dialog.asked
      BY <1>2 DEF Ask, OneRow
    <3> HIDE DEF x
    <3>3. /\ DOMAIN polls' = DOMAIN polls
          /\ \A j \in DOMAIN polls : polls'[j].row = polls[j].row
      BY <3>1 DEF PollsOK
    <3>4. DOMAIN flight' = DOMAIN flight \cup {x}
      BY <3>1, AddToBag DEF FlightOK
    <3>5. Queries' = Queries \cup {x}
      BY <3>2, <3>4 DEF Queries
    <3>6. \A q \in Queries' : q.kind # "query" /\ q.of = dialog.asked
      BY <1>2, <3>2, <3>5 DEF OneRow
    <3> QED
      BY <1>2, <3>1, <3>3, <3>6 DEF OneRow
  <2>2. CASE ~ (polls[i].attempts < MaxAttempts)
    <3>1. StopPoll /\ dialog' = [dialog EXCEPT !.status = "timeout"] /\ UNCHANGED flight
      BY <1>2, <2>2 DEF Poll
    <3>2. dialog'.asked = dialog.asked /\ dialog'.result = dialog.result
      BY <3>1 DEF DialogOK
    <3>3. DOMAIN polls' = DOMAIN polls \ {pollTimer}
      BY <3>1, StopPollTyped
    <3>4. \A j \in DOMAIN polls' : polls'[j] = polls[j]
      BY <3>1 DEF StopPoll, Restrict
    <3>5. QueriesShrink
      BY <3>1 DEF QueriesShrink, Queries
    <3> QED
      BY <1>0, <1>2, <3>2, <3>3, <3>4, <3>5, OneRowShrinks
  <2> QED
    BY <2>1, <2>2
<1>3. CASE Quiet \/ UNCHANGED vars
  BY <1>3 DEF Quiet, vars, OneRow, Queries
<1>4. (\E i \in DOMAIN polls : Poll(i)) => UNCHANGED crossed
  BY DEF Poll, hvars
<1> QED
  BY <1>1, <1>2, <1>3, <1>4

\* Every answer is about the row asked for last, and one to a lookup that is
\* the only one may start an interval.
LEMMA AnswerOneRow ==
    ASSUME Typed, ~ crossed => OneRow, Answer
    PROVE  ~ crossed' => OneRow'
<1> USE DEF Typed
<1>0. OneRow => DOMAIN polls \subseteq {pollTimer}
  BY DEF OneRow
<1>1. CASE AnswerEnter \/ AnswerResume
  <2>1. PICK q \in DOMAIN flight : Answered(q) \/ LetIn(q)
    BY <1>1 DEF AnswerEnter, AnswerResume
  <2>2. QueriesShrink
    BY <2>1, AnsweredShrinks, LetInShrinks
  <2>3. UNCHANGED <<dialog, polls, pollTimer, crossed>>
    BY <1>1 DEF AnswerEnter, AnswerResume, dvars, hvars
  <2> QED
    BY <1>0, <2>2, <2>3, OneRowShrinks
<1>2. CASE (\E q \in DOMAIN flight : AnswerList(q)) \/ FailQuietly
  <2>1. PICK q \in DOMAIN flight : Answered(q)
    BY <1>2 DEF AnswerList, FailQuietly
  <2>2. QueriesShrink
    BY <2>1, AnsweredShrinks
  <2>3. UNCHANGED <<dialog, polls, pollTimer, crossed>>
    BY <1>2 DEF AnswerList, FailQuietly, dvars, hvars
  <2> QED
    BY <1>0, <2>2, <2>3, OneRowShrinks
<1>3. CASE FailQuery
  <2>1. PICK q \in DOMAIN flight : Answered(q)
    BY <1>3 DEF FailQuery
  <2>2. QueriesShrink
    BY <2>1, AnsweredShrinks
  <2>3. /\ dialog' = [dialog EXCEPT !.status = "network"]
        /\ UNCHANGED <<polls, pollTimer, crossed>>
    BY <1>3 DEF FailQuery, hvars
  <2>4. dialog'.asked = dialog.asked /\ dialog'.result = dialog.result
    BY <2>3 DEF DialogOK
  <2> QED
    BY <1>0, <2>2, <2>3, <2>4, OneRowShrinks
<1>4. ASSUME NEW q \in Queries, OneRow, Render(q.of)
      PROVE  dialog'.asked = dialog.asked /\ dialog'.result = dialog.asked
  <2>1. q.of = dialog.asked
    BY <1>4 DEF OneRow
  <2> QED
    BY <1>4, <2>1 DEF Render, DialogOK
<1>5. CASE AnswerQuery
  <2>1. PICK q \in DOMAIN flight :
           /\ q.kind = "query"
           /\ Answered(q)
           /\ \/ UNCHANGED dvars
              \/ Render(q.of) /\ UNCHANGED <<polls, pollTimer>>
              \/ /\ pollTimer' = NewInterval
                 /\ polls' = [i \in DOMAIN polls \cup {pollTimer'} |->
                                  IF i = pollTimer' THEN [row |-> q.of, attempts |-> 0]
                                  ELSE polls[i]]
                 /\ UNCHANGED dialog
           /\ UNCHANGED crossed
    BY <1>5 DEF AnswerQuery
  <2> SUFFICES ASSUME OneRow PROVE OneRow'
    BY <2>1
  <2>2. q \in Queries /\ q \in Request
    BY <2>1 DEF Queries, FlightOK
  <2>3. QueriesShrink
    BY <2>1, AnsweredShrinks
  <2>4. CASE UNCHANGED dvars
    BY <1>0, <2>3, <2>4, OneRowShrinks DEF dvars
  <2>5. CASE Render(q.of) /\ UNCHANGED <<polls, pollTimer>>
    BY <1>0, <1>4, <2>2, <2>3, <2>5, OneRowShrinks
  <2>6. CASE /\ pollTimer' = NewInterval
             /\ polls' = [i \in DOMAIN polls \cup {pollTimer'} |->
                              IF i = pollTimer' THEN [row |-> q.of, attempts |-> 0]
                              ELSE polls[i]]
             /\ UNCHANGED dialog
    <3>1. flight[q] = 1 /\ Queries = {q} /\ DOMAIN polls = {} /\ q.of = dialog.asked
      BY <2>1, <2>2 DEF OneRow
    <3>2. Queries' = {}
      BY <2>1, <2>3, <3>1, AnsweredShrinks DEF QueriesShrink
    <3>3. DOMAIN polls' = {pollTimer'} /\ polls'[pollTimer'].row = dialog'.asked
      BY <2>2, <2>6, <2>1, <3>1, NewPollTyped, RequestFields
    <3>4. dialog'.result \in {NoRow, dialog'.asked}
      BY <2>6 DEF OneRow
    <3> QED
      BY <3>2, <3>3, <3>4 DEF OneRow
  <2> QED
    BY <2>1, <2>4, <2>5, <2>6
<1>6. CASE AnswerPoll
  <2>1. PICK q \in DOMAIN flight :
           /\ q.kind = "poll"
           /\ Answered(q)
           /\ \/ StopPoll /\ UNCHANGED dialog
              \/ StopPoll /\ Render(q.of)
              \/ UNCHANGED dvars
           /\ UNCHANGED crossed
    BY <1>6 DEF AnswerPoll
  <2> SUFFICES ASSUME OneRow PROVE OneRow'
    BY <2>1
  <2>2. q \in Queries
    BY <2>1 DEF Queries
  <2>3. QueriesShrink
    BY <2>1, AnsweredShrinks
  <2>4. CASE UNCHANGED dvars
    BY <1>0, <2>3, <2>4, OneRowShrinks DEF dvars
  <2>5. CASE StopPoll /\ (UNCHANGED dialog \/ Render(q.of))
    <3>1. DOMAIN polls' = DOMAIN polls \ {pollTimer}
      BY <2>5, StopPollTyped
    <3>2. \A i \in DOMAIN polls' : polls'[i] = polls[i]
      BY <2>5 DEF StopPoll, Restrict
    <3>3. /\ dialog'.asked = dialog.asked
          /\ dialog'.result \in {dialog.result, dialog.asked}
      BY <1>4, <2>2, <2>5
    <3> QED
      BY <1>0, <2>3, <3>1, <3>2, <3>3, OneRowShrinks
  <2> QED
    BY <2>1, <2>4, <2>5
<1> QED
  BY <1>1, <1>2, <1>3, <1>5, <1>6 DEF Answer

LEMMA AlwaysPanelInv == Spec => []PanelInv
<1>1. Init => PanelInv
  BY InitTyped, InitOneRow DEF PanelInv
<1>2. PanelInv /\ [Next]_vars => PanelInv'
  BY NextTyped, UserOneRow, TimerOneRow, AnswerOneRow DEF PanelInv, Next
<1> QED
  BY <1>1, <1>2, PTL DEF Spec

\* As long as no row is asked for with an earlier answer still to come, every
\* interval that runs is the one that pollTimer stops (queryRow, closeModal).
THEOREM NoIntervalLost == Spec => []OnePoll
<1>1. PanelInv => OnePoll
  BY DEF PanelInv, OneRow, OnePoll
<1> QED
  BY <1>1, AlwaysPanelInv, PTL

\* Under the same condition the open dialog shows no row but the one it was
\* opened for (queryRow, renderResult).
THEOREM DialogShowsItsRow == Spec => []DialogShowsRow
<1>1. PanelInv => DialogShowsRow
  BY DEF PanelInv, OneRow, DialogShowsRow
<1> QED
  BY <1>1, AlwaysPanelInv, PTL
=============================================================================
