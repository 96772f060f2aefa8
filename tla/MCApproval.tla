----------------------------- MODULE MCApproval -----------------------------
(* An instance of Approval for TLC.  Requests and routers are told apart by  *)
(* nothing but their names.                                                  *)
EXTENDS Approval, TLC

Symmetry == Permutations(Requests) \cup Permutations(Routers)
=============================================================================
