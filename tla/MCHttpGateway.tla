--------------------------- MODULE MCHttpGateway ---------------------------
(***************************************************************************)
(* Instances of HttpGateway: threads and callers are interchangeable.      *)
(***************************************************************************)
EXTENDS HttpGateway, TLC

MCSymmetry == Permutations(Clients) \cup Permutations(Callers)
=============================================================================
