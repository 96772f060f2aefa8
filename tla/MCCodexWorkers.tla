--------------------------- MODULE MCCodexWorkers ---------------------------
(* Instances of CodexWorkers for TLC: a root message and a reply in the     *)
(* thread it opens, contended for by two slots.                             *)
EXTENDS CodexWorkers, TLC

CONSTANTS root1, root2, reply1, reply2, thread1, thread2

MCThreadOf == [e \in Events |-> IF e = root2 THEN thread2 ELSE thread1]

Symmetry == Permutations(Slots) \cup Permutations(Policies)
=============================================================================
