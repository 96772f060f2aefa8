--------------------------- MODULE MCCodexIngress ---------------------------
(* Instances of CodexIngress for TLC: a root message and replies in the     *)
(* thread it opens, with pages of one message so that a scan has several.   *)
EXTENDS CodexIngress, TLC

CONSTANTS root1, root2, reply1, reply2, thread1, thread2

MCThreadOf == [e \in Events |-> IF e = root2 THEN thread2 ELSE thread1]
=============================================================================
