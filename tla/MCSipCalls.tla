----------------------------- MODULE MCSipCalls -----------------------------
(***************************************************************************)
(* Instances of SipCalls: call objects and threads are interchangeable.    *)
(***************************************************************************)
EXTENDS SipCalls, TLC

MCSymmetry == Permutations(Calls) \cup Permutations(Clients)
=============================================================================
