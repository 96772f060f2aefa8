----------------------------- MODULE MCTakeover -----------------------------
(* An instance of Takeover for TLC: the root channel and a thread.  The    *)
(* takeovers differ in nothing but their receipts' names.                  *)
EXTENDS Takeover, TLC

MCChannel == [m \in 1..N |-> IF m = 1 THEN "thread" ELSE "root"]
Symmetry == Permutations(Receipts)
=============================================================================
