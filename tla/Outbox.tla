------------------------------- MODULE Outbox -------------------------------
(***************************************************************************)
(* What the Codex bridge promises of one message that it freezes before it *)
(* sends it, whatever the number of its parts: the message is called sent  *)
(* only when it is complete in Discord, what was sent can only be          *)
(* quarantined, and what is quarantined stays so.  A message may be        *)
(* complete before the bridge knows it, or although it never will.         *)
(***************************************************************************)

VARIABLES
  st,        \* "none", "prepared", "sent" or "ambiguous"
  complete   \* every part is in Discord as it was frozen

Init == st = "none" /\ complete = FALSE

Prepare ==
  /\ st = "none"
  /\ st' = "prepared"
  /\ UNCHANGED complete

Appear ==
  /\ st # "none"
  /\ ~complete
  /\ complete' = TRUE
  /\ UNCHANGED st

Confirm ==
  /\ st = "prepared"
  /\ complete
  /\ st' = "sent"
  /\ UNCHANGED complete

Quarantine ==
  /\ st \in {"prepared", "sent"}
  /\ st' = "ambiguous"
  /\ UNCHANGED complete

Next == Prepare \/ Appear \/ Confirm \/ Quarantine

Spec == Init /\ [][Next]_<<st, complete>>
=============================================================================
