----------------------------- MODULE FetchSpec -----------------------------
(***************************************************************************)
(* What a call of fetch_metadata promises the pool: it reports metadata at *)
(* most once and only as its last act, it blames a peer only for an        *)
(* attempt to connect that failed, it forwards only peers it was told of,  *)
(* and a task that has ended does nothing more.                            *)
(***************************************************************************)
EXTENDS FetchTask

VARIABLES
    task,      \* the task, a TaskState
    blamed,    \* the peer was put on the blacklist
    reported   \* metadata was broadcast

avars == <<task, blamed, reported>>

Init == task = Started /\ blamed = FALSE /\ reported = FALSE

Blame   == Unreachable(task, task') /\ blamed' = TRUE /\ UNCHANGED reported
Report  == Finishes(task, task') /\ reported' = TRUE /\ UNCHANGED blamed
Quiet   == /\ \/ Reached(task, task')
              \/ Hears(task, task')
              \/ \E p \in Peer : Forwards(task, task', p)
              \/ Finishes(task, task')
           /\ UNCHANGED <<blamed, reported>>

Spec == Init /\ [][Blame \/ Report \/ Quiet]_avars
=============================================================================
