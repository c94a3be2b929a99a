------------------------------- MODULE MCPool -------------------------------
(* Goroutines, items and pointers are interchangeable. *)
EXTENDS Pool, TLC

Symmetry == Permutations(Procs) \cup Permutations(Item) \cup Permutations(Pointer)
=============================================================================
