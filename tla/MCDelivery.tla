----------------------------- MODULE MCDelivery -----------------------------
(* Delivery with a few requests and writers; both are interchangeable.     *)
EXTENDS Delivery, TLC

Symmetry == Permutations(Requests) \cup Permutations(Writers)
=============================================================================
