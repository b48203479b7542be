---------------------------- MODULE MCPipeline ----------------------------
(***************************************************************************)
(* Pipeline for TLC: messages and requests are interchangeable.            *)
(***************************************************************************)
EXTENDS Pipeline, TLC

Symmetry == Permutations(Deliveries) \cup Permutations(Requests)
===========================================================================
