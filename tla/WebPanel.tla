------------------------------ MODULE WebPanel ------------------------------
(***************************************************************************)
(* The web panel of src/web.rs: the script of the page against the server. *)
(* The script runs one callback at a time; between two of them its         *)
(* requests are in flight and are answered in any order, its timers fire,  *)
(* the user acts, and the server may be started again with another key.    *)
(*                                                                         *)
(* Abstractions.  A page number and a search are one View.  A request is   *)
(* answered by the server as it is when the answer arrives, and the body   *)
(* of an answer arrives with its status.  loadStats fills in a number; the *)
(* refusal of its request does what that of the list's does, and is not a  *)
(* request of its own here.  The lookup of a row can fail although the     *)
(* list showed it: the lock of the storage may be poisoned, or the row     *)
(* lost with the power.                                                    *)
(***************************************************************************)
EXTENDS Naturals, FiniteSets, BagsExt, Functions, Bags

CONSTANTS
    Key,          \* what the server can be started with
    NoKey,        \* localStorage has none
    View,         \* pages and searches
    FirstView,    \* page 1 without a search
    NoView,       \* the table is still empty
    Row,
    NoRow,
    MaxAttempts,  \* of a poll (60)
    MaxFlight,    \* bound: requests in flight
    MaxMoves      \* bound: what the user and the operator do

ASSUME PanelAssumption ==
    /\ NoKey \notin Key
    /\ FirstView \in View /\ NoView \notin View
    /\ NoRow \notin Row
    /\ MaxAttempts \in Nat /\ MaxFlight \in Nat /\ MaxMoves \in Nat

VARIABLES
    secret,    \* the server's secret_key
    key,       \* dht_access_key in localStorage
    gate,      \* authGate covers the page
    view,      \* curPage and curSearch
    auto,      \* the checkbox
    ticking,   \* refreshTimer is set
    table,     \* whose rows it shows, and by which view they are numbered
    flight,    \* the bag of requests not answered
    dialog,    \* modalOverlay, queryStatus, queryResult; the row it is open for
    polls,     \* the intervals of queries: row and attempts
    pollTimer, \* the interval it refers to, or 0
    moves,     \* moves left
    refused,   \* history: a request of this page was refused
    crossed    \* history: a row was asked for with an answer still to come

vars == <<secret, key, gate, view, auto, ticking, table, flight, dialog, polls,
          pollTimer, moves, refused, crossed>>

gvars == <<gate, auto, ticking>>
dvars == <<dialog, polls, pollTimer>>
hvars == <<refused, crossed>>

Request ==
    [kind : {"enter", "resume"}, key : Key, of : {NoView}]
        \cup [kind : {"list"}, key : Key \cup {NoKey}, of : View]
        \cup [kind : {"query", "poll"}, key : Key \cup {NoKey}, of : Row]

TypeOK ==
    /\ secret \in Key /\ key \in Key \cup {NoKey}
    /\ gate \in BOOLEAN /\ auto \in BOOLEAN /\ ticking \in BOOLEAN
    /\ ticking => auto
    /\ view \in View
    /\ table \in [rows : View \cup {NoView}, numbers : View \cup {NoView}]
    /\ IsABag(flight) /\ DOMAIN flight \subseteq Request
    /\ dialog \in [open : BOOLEAN, asked : Row \cup {NoRow}, result : Row \cup {NoRow},
                   status : {"", "asking", "timeout", "network"}]
    /\ DOMAIN polls \subseteq Nat \ {0}
    /\ \A i \in DOMAIN polls : polls[i] \in [row : Row, attempts : 0 .. MaxAttempts]
    /\ pollTimer \in {0} \cup DOMAIN polls
    /\ moves \in 0 .. MaxMoves
    /\ refused \in BOOLEAN /\ crossed \in BOOLEAN

-----------------------------------------------------------------------------
(* Requests. *)

Room == BagCardinality(flight) < MaxFlight

Ask(kind, k, of) == [kind |-> kind, key |-> k, of |-> of]

Refused(q) == q.key # secret

\* A request of the page is refused: handleUnauthorized.  The timers go on.
HandleUnauthorized ==
    /\ key' = NoKey
    /\ gate' = TRUE
    /\ refused' = TRUE

\* Mutant: the variable is reset, the interval goes on.
StopPollKeeps == polls' = polls /\ pollTimer' = 0

\* clearInterval(pollTimer); pollTimer = null
StopPoll ==
    /\ polls' = Restrict(polls, DOMAIN polls \ {pollTimer})
    /\ pollTimer' = 0

Answered(q) == flight' = BagRemove(flight, q)

-----------------------------------------------------------------------------
(* The gate. *)

Blank == [rows |-> NoView, numbers |-> NoView]

NoDialog == [open |-> FALSE, asked |-> NoRow, result |-> NoRow, status |-> ""]

\* The page is loaded: a key in localStorage is tried at once.
LoadedWith(k) == IF k = NoKey THEN EmptyBag ELSE SetToBag({Ask("resume", k, NoView)})

Init ==
    /\ secret \in Key /\ key \in Key \cup {NoKey}
    /\ gate = TRUE /\ view = FirstView /\ auto = TRUE /\ ticking = FALSE
    /\ table = Blank
    /\ flight = LoadedWith(key)
    /\ dialog = NoDialog /\ polls = <<>> /\ pollTimer = 0
    /\ moves = MaxMoves
    /\ refused = FALSE /\ crossed = FALSE

Move == moves > 0 /\ moves' = moves - 1

Reload ==
    /\ Move
    /\ gate' = TRUE /\ view' = FirstView /\ auto' = TRUE /\ ticking' = FALSE
    /\ table' = Blank
    /\ flight' = LoadedWith(key)
    /\ dialog' = NoDialog /\ polls' = <<>> /\ pollTimer' = 0
    /\ refused' = FALSE /\ crossed' = FALSE
    /\ UNCHANGED <<secret, key>>

\* The user types a key: tryAuth.
TryAuth ==
    /\ Move /\ gate /\ Room
    /\ \E k \in Key : flight' = BagAdd(flight, Ask("enter", k, NoView))
    /\ UNCHANGED <<secret, key, gvars, view, table, dvars, hvars>>

\* The key of q is right: the application is shown, loads and refreshes.
LetIn(q) ==
    /\ gate' = FALSE
    /\ ticking' = auto
    /\ flight' = BagAdd(BagRemove(flight, q), Ask("list", key', view))

AnswerEnter ==
    \E q \in DOMAIN flight :
        /\ q.kind = "enter"
        /\ IF Refused(q)
           THEN Answered(q) /\ UNCHANGED <<key, gate, ticking>>
           ELSE key' = q.key /\ LetIn(q)
        /\ UNCHANGED <<secret, auto, view, table, dvars, moves, hvars>>

AnswerResume ==
    \E q \in DOMAIN flight :
        /\ q.kind = "resume"
        /\ IF Refused(q)
           THEN Answered(q) /\ key' = NoKey /\ UNCHANGED <<gate, ticking>>
           ELSE key' = key /\ LetIn(q)
        /\ UNCHANGED <<secret, auto, view, table, dvars, moves, hvars>>

-----------------------------------------------------------------------------
(* The table. *)

\* A page button, a search, or the refresh button: loadData.
Browse ==
    /\ Move /\ ~ gate /\ Room
    /\ \E v \in View :
        /\ view' = v
        /\ flight' = BagAdd(flight, Ask("list", key, v))
    /\ UNCHANGED <<secret, key, gvars, table, dvars, hvars>>

\* Mutant: the timer loads the view the page began with.
RefreshFirst ==
    /\ ticking /\ Room
    /\ flight' = BagAdd(flight, Ask("list", key, FirstView))
    /\ UNCHANGED <<secret, key, gvars, view, table, dvars, moves, hvars>>

\* The refresh timer, which nothing stops when the gate comes back.
Refresh ==
    /\ ticking /\ Room
    /\ flight' = BagAdd(flight, Ask("list", key, view))
    /\ UNCHANGED <<secret, key, gvars, view, table, dvars, moves, hvars>>

\* startAutoRefresh, on a change of the checkbox.
Toggle ==
    /\ Move /\ ~ gate
    /\ auto' = ~ auto
    /\ ticking' = auto'
    /\ UNCHANGED <<secret, key, gate, view, table, flight, dvars, hvars>>

\* The list asked for with q arrives: the rows are q's, and are numbered by
\* the view of now.
AnswerList(q) ==
    /\ q \in DOMAIN flight /\ q.kind = "list"
    /\ Answered(q)
    /\ IF Refused(q)
       THEN HandleUnauthorized /\ table' = table
       ELSE /\ table' = [rows |-> q.of, numbers |-> view]
            /\ UNCHANGED <<key, gate, refused>>
    /\ UNCHANGED <<secret, view, auto, ticking, dvars, moves, crossed>>

\* The connection fails, or the storage reports an error.
FailQuietly ==
    /\ \E q \in DOMAIN flight : q.kind # "query" /\ Answered(q)
    /\ UNCHANGED <<secret, key, gvars, view, table, dvars, moves, hvars>>

-----------------------------------------------------------------------------
(* The dialog. *)

Queries == {q \in DOMAIN flight : q.kind \in {"query", "poll"}}

\* Mutant: the result of the row before stays.
QueryRowKeeps ==
    /\ Move /\ ~ gate /\ table # Blank /\ Room
    /\ \E r \in Row :
        /\ dialog' = [dialog EXCEPT !.open = TRUE, !.asked = r, !.status = "asking"]
        /\ flight' = BagAdd(flight, Ask("query", key, r))
    /\ StopPoll
    /\ crossed' = (crossed \/ Queries # {})
    /\ UNCHANGED <<secret, key, gvars, view, table, refused>>

\* The user opens the details of a row: queryRow, up to its first await.  The
\* overlay keeps the mouse from the table, not the keyboard.
QueryRow ==
    /\ Move /\ ~ gate /\ table # Blank /\ Room
    /\ \E r \in Row :
        /\ dialog' = [open |-> TRUE, asked |-> r, result |-> NoRow, status |-> "asking"]
        /\ flight' = BagAdd(flight, Ask("query", key, r))
    /\ StopPoll
    /\ crossed' = (crossed \/ Queries # {})
    /\ UNCHANGED <<secret, key, gvars, view, table, refused>>

\* closeModal, by the button, beside the dialog or by Escape.
CloseModal ==
    /\ Move
    /\ dialog' = [dialog EXCEPT !.open = FALSE]
    /\ StopPoll
    /\ UNCHANGED <<secret, key, gvars, view, table, flight, hvars>>

\* setInterval: a number no interval has.  Only pollTimer remembers a number, and
\* none of an interval that has ended, so numbers may be given again.
NewInterval == CHOOSE i \in 1 .. Cardinality(DOMAIN polls) + 1 : i \notin DOMAIN polls

Render(r) == dialog' = [dialog EXCEPT !.status = "", !.result = r]

\* queryRow after its await: refused, found, or searched for by the DHT and
\* polled from now on.
AnswerQuery ==
    \E q \in DOMAIN flight :
        /\ q.kind = "query"
        /\ Answered(q)
        /\ \/ /\ Refused(q)
              /\ HandleUnauthorized
              /\ UNCHANGED dvars
           \/ /\ ~ Refused(q)
              /\ Render(q.of)
              /\ UNCHANGED <<key, gate, refused, polls, pollTimer>>
           \/ /\ ~ Refused(q)
              /\ pollTimer' = NewInterval
              /\ polls' = [i \in DOMAIN polls \cup {pollTimer'} |->
                               IF i = pollTimer' THEN [row |-> q.of, attempts |-> 0] ELSE polls[i]]
              /\ UNCHANGED <<key, gate, refused, dialog>>
        /\ UNCHANGED <<secret, view, auto, ticking, table, moves, crossed>>

FailQuery ==
    /\ \E q \in DOMAIN flight : q.kind = "query" /\ Answered(q)
    /\ dialog' = [dialog EXCEPT !.status = "network"]
    /\ UNCHANGED <<secret, key, gvars, view, table, polls, pollTimer, moves, hvars>>

\* Mutant: an interval that never gives up.
PollForever(i) ==
    /\ i \in DOMAIN polls /\ Room
    /\ polls' = [polls EXCEPT ![i].attempts = @ + 1]
    /\ flight' = BagAdd(flight, Ask("poll", key, polls[i].row))
    /\ UNCHANGED <<dialog, pollTimer>>
    /\ UNCHANGED <<secret, key, gvars, view, table, moves, hvars>>

\* Mutant: the interval ends without a word.
PollEndsSilently(i) ==
    /\ i \in DOMAIN polls
    /\ IF polls[i].attempts < MaxAttempts
       THEN /\ Room
            /\ polls' = [polls EXCEPT ![i].attempts = @ + 1]
            /\ flight' = BagAdd(flight, Ask("poll", key, polls[i].row))
            /\ UNCHANGED <<dialog, pollTimer>>
       ELSE StopPoll /\ UNCHANGED <<flight, dialog>>
    /\ UNCHANGED <<secret, key, gvars, view, table, moves, hvars>>

\* The interval i fires.  When its attempts are used it stops the interval
\* that pollTimer refers to, which need not be itself.
Poll(i) ==
    /\ i \in DOMAIN polls
    /\ IF polls[i].attempts < MaxAttempts
       THEN /\ Room
            /\ polls' = [polls EXCEPT ![i].attempts = @ + 1]
            /\ flight' = BagAdd(flight, Ask("poll", key, polls[i].row))
            /\ UNCHANGED <<dialog, pollTimer>>
       ELSE /\ StopPoll
            /\ dialog' = [dialog EXCEPT !.status = "timeout"]
            /\ flight' = flight
    /\ UNCHANGED <<secret, key, gvars, view, table, moves, hvars>>

\* The answer to a poll: refused, found, or pending.
AnswerPoll ==
    \E q \in DOMAIN flight :
        /\ q.kind = "poll"
        /\ Answered(q)
        /\ \/ Refused(q) /\ HandleUnauthorized /\ StopPoll /\ dialog' = dialog
           \/ ~ Refused(q) /\ StopPoll /\ Render(q.of) /\ UNCHANGED <<key, gate, refused>>
           \/ ~ Refused(q) /\ UNCHANGED <<dvars, key, gate, refused>>
        /\ UNCHANGED <<secret, view, auto, ticking, table, moves, crossed>>

-----------------------------------------------------------------------------

\* The server is started again, with this key or another.
Restart ==
    /\ Move
    /\ secret' \in Key
    /\ UNCHANGED <<key, gvars, view, table, flight, dvars, hvars>>

\* Nothing in flight, no timer, nobody there.
Quiet ==
    /\ moves = 0 /\ flight = EmptyBag /\ ~ ticking /\ polls = <<>>
    /\ UNCHANGED vars

User == TryAuth \/ Reload \/ Browse \/ Toggle \/ QueryRow \/ CloseModal

Answer ==
    \/ AnswerEnter \/ AnswerResume
    \/ \E q \in DOMAIN flight : AnswerList(q)
    \/ FailQuietly
    \/ AnswerQuery \/ FailQuery \/ AnswerPoll

Next ==
    \/ User \/ Restart
    \/ Answer
    \/ Refresh \/ \E i \in DOMAIN polls : Poll(i)
    \/ Quiet

Spec == Init /\ [][Next]_vars

\* A request for the list as the page is now gets an answer.
ListGetsThrough == AnswerList(Ask("list", key, view))

\* A browser's timers fire again and again (a full flight is a bound of the
\* model), requests are answered or fail, and not every list fails for ever.
Fairness ==
    /\ WF_vars(Answer)
    /\ WF_vars(AnswerQuery \/ FailQuery)
    /\ SF_vars(Refresh)
    /\ SF_vars(\E i \in DOMAIN polls : Poll(i))
    /\ SF_vars(ListGetsThrough)

FairSpec == Spec /\ Fairness

-----------------------------------------------------------------------------
(* Properties. *)

\* When the user and the operator let it be, the panel either covers itself
\* because its key is not the server's, or, unless its refreshing was turned
\* off, shows the view chosen last under that view's numbers: late answers of
\* other views and of other keys are made good by the next refresh.
PanelSettles ==
    <>[](\/ gate \/ ~ ticking
         \/ key = secret /\ table = [rows |-> view, numbers |-> view])

\* As long as no row is asked for with an earlier answer still to come, no
\* interval is lost: every one that runs is the one that pollTimer stops.
OnePoll == ~ crossed => DOMAIN polls \subseteq {pollTimer}

\* Under the same condition the open dialog shows no row but its own,
\* whatever was answered, polled or closed before.
DialogShowsRow ==
    dialog.open /\ dialog.result # NoRow /\ ~ crossed => dialog.result = dialog.asked

\* A dialog that says it is asking gets an answer, a timeout or an error, even
\* where intervals were lost, as long as no request is refused.
DialogEnds ==
    (dialog.open /\ dialog.status = "asking" /\ ~ refused)
        ~> (~ dialog.open \/ dialog.status # "asking" \/ refused)
=============================================================================
