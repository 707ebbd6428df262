---------------------------- MODULE MCDhtClient ----------------------------
(* DhtClient on small instances. *)
EXTENDS DhtClient, TLC

\* Addresses are interchangeable where each of them is a prime node.
AddrSymmetry == Permutations(Addr)
=============================================================================
