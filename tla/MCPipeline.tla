----------------------------- MODULE MCPipeline -----------------------------
(* Pipeline on a small instance. *)
EXTENDS Pipeline

CONSTANTS h1, h2, h3

MCInfoHash == {h1, h2, h3}
MCListable == {h1, h2}
=============================================================================
