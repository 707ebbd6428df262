----------------------------- MODULE FetchTask -----------------------------
(***************************************************************************)
(* One call of fetch_metadata (src/wire.rs), as the pool that spawned it   *)
(* sees it: it connects, talks to the peer, at times forwards the peers it *)
(* was told of, and ends.  Each operator relates the task before a step to *)
(* the task after it.  WirePool runs many of these tasks; FetchSpec says   *)
(* what one may do, and MetadataFetch, the conversation itself, is shown   *)
(* to do no more.                                                          *)
(***************************************************************************)
EXTENDS FiniteSets

CONSTANT Peer  \* endpoints, ip:port

At == {"connect", "talk", "forward", "ended"}

\* `left' are the exchanged peers still to be forwarded.
TaskState == [at : At, left : SUBSET Peer]

Started == [at |-> "connect", left |-> {}]
Talking == [at |-> "talk", left |-> {}]
Ended   == [at |-> "ended", left |-> {}]

\* The connection attempt fails or takes too long.
Unreachable(s, t) == s.at = "connect" /\ t = Ended

Reached(s, t) == s.at = "connect" /\ t = Talking

\* A peer exchange message names some peers.
Hears(s, t) ==
    /\ s.at = "talk"
    /\ \E A \in SUBSET Peer : A # {} /\ t = [at |-> "forward", left |-> A]

\* Peer p is put in the request channel; after the last one the talk goes on.
Forwards(s, t, p) ==
    /\ s.at = "forward"
    /\ p \in s.left
    /\ t = IF s.left = {p} THEN Talking ELSE [s EXCEPT !.left = @ \ {p}]

\* The conversation is over, with or without the metadata.
Finishes(s, t) == s.at = "talk" /\ t = Ended
=============================================================================
