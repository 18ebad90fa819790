---------------------------- MODULE MCSupervisor ----------------------------
(* Supervisor with a few reload requests, which are interchangeable.       *)
EXTENDS Supervisor, TLC

Symmetry == Permutations(Requests)
=============================================================================
