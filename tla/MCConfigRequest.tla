-------------------------- MODULE MCConfigRequest --------------------------
(* ConfigRequest for TLC: the requesters are interchangeable.              *)
EXTENDS ConfigRequest, TLC

Symmetry == Permutations(Requesters)
=============================================================================
