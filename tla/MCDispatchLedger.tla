-------------------------- MODULE MCDispatchLedger --------------------------
(* An instance of DispatchLedger for TLC: a top-level message, and a reply  *)
(* in the thread it opens.                                                  *)
EXTENDS DispatchLedger

CONSTANTS top, reply

MCThreadOf == [m \in Messages |-> top]
=============================================================================
