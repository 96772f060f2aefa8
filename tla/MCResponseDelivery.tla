------------------------- MODULE MCResponseDelivery -------------------------
(* An instance of ResponseDelivery for TLC: two calls that may overlap, two *)
(* texts a worker may hand over, and enough POSTs for a retry, a refusal    *)
(* and a late arrival.                                                      *)
EXTENDS ResponseDelivery, TLC

Symmetry == Permutations(Callers) \cup Permutations(Responses)
=============================================================================
