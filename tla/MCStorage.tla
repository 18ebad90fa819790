------------------------------ MODULE MCStorage ------------------------------
(* Storage with a few daemons, clients and users; the first two are interchangeable. *)
EXTENDS Storage, TLC

Symmetry ==
  UNION {Permutations(S) : S \in {Clients, Daemons, Secrets}}
=============================================================================
