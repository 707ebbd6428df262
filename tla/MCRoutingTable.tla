--------------------------- MODULE MCRoutingTable ---------------------------
(* RoutingTable with short ids.  Three of the four ids share their first bit
   and two their first two bits, so that one insert can split twice. *)
EXTENDS RoutingTable, TLC

MCIds == {<<0, 0, 0>>, <<0, 0, 1>>, <<0, 1, 0>>, <<1, 0, 0>>}

AddrSymmetry == Permutations(Addr)
=============================================================================
