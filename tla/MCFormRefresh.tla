--------------------------- MODULE MCFormRefresh ---------------------------
(***************************************************************************)
(* FormRefresh on small instances: requests of a form are interchangeable. *)
(***************************************************************************)
EXTENDS FormRefresh, TLC

ThreadSymmetry == Permutations(Threads)
=============================================================================
