---------------------------- MODULE MCClaudeQueue ----------------------------
(***************************************************************************)
(* A small instance of ClaudeQueue: two top-level messages (one chat, so   *)
(* they queue behind each other) and a reply in the thread that the first  *)
(* of them opens.                                                          *)
(***************************************************************************)
EXTENDS ClaudeQueue

CONSTANTS top1, top2, reply1, thread1, thread2

MCThreadOf ==
  [m \in Messages |-> CASE m = top1 -> thread1
                        [] m = top2 -> thread2
                        [] m = reply1 -> thread1]
=============================================================================
