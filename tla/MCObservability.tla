-------------------------- MODULE MCObservability --------------------------
(***************************************************************************)
(* Two turns, one of them escalated, and a request for the metrics.        *)
(***************************************************************************)
EXTENDS Observability

MCKind == [r \in Requests |-> r]
=============================================================================
