-------------------------- MODULE MCDatabaseCache ---------------------------
(* Clients of DatabaseCache's instances are interchangeable. *)
EXTENDS DatabaseCache, TLC

ClientSymmetry == Permutations(Clients)
=============================================================================
