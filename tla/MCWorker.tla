------------------------------ MODULE MCWorker ------------------------------
(* Model checking of Worker: requests and tasks are interchangeable.        *)
EXTENDS Worker, TLC

Symmetry == Permutations(Conns) \cup Permutations(Tasks)
=============================================================================
