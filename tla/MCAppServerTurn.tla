-------------------------- MODULE MCAppServerTurn --------------------------
(***************************************************************************)
(* An instance of AppServerTurn for TLC: two threads, two turns, two hooks *)
(* of which one also guards a file change.                                 *)
(***************************************************************************)
EXTENDS AppServerTurn, TLC

Symmetry == Permutations(Threads) \union Permutations(Runs)
=============================================================================
