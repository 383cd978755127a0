-------------------------- MODULE MCSessionService --------------------------
(***************************************************************************)
(* Instances of SessionService: objects, threads and sessions are          *)
(* interchangeable.                                                        *)
(***************************************************************************)
EXTENDS SessionService, TLC

MCSymmetry == Permutations(Objects) \cup Permutations(Clients) \cup Permutations(Sessions)
=============================================================================
