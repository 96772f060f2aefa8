--------------------------- MODULE MCCodexDelivery ---------------------------
(* An instance of CodexDelivery for TLC: an answer of several chunks.       *)
EXTENDS CodexDelivery
=============================================================================
