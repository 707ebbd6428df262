----------------------------- MODULE MCWebPanel -----------------------------
(* WebPanel with two keys, two views and two rows. *)
EXTENDS WebPanel
=============================================================================
