------------------------------- MODULE MCEIPTCP -------------------------------
(* Instances of EIPTCP for TLC.  The goroutines are interchangeable. *)
EXTENDS EIPTCP, TLC

Symmetry == Permutations(Clients)
==============================================================================
