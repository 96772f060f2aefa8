----------------------------- MODULE ClaudeProofs -----------------------------
(***************************************************************************)
(* Proofs about the Claude message queue and its takeover, for any set of  *)
(* messages, threads, channels, command processes and takeovers, and any   *)
(* number of lost sessions, kills and failures.                            *)
(*                                                                         *)
(* The queue comes first, each theorem with its own invariant.  Of the     *)
(* takeover the six theorems at the end follow from one invariant,         *)
(* TakeoverInv; the parts before them show that every step keeps it.       *)
(***************************************************************************)
EXTENDS ClaudeQueue, Takeover, FiniteSetTheorems, WellFoundedInduction, TLAPS


-----------------------------------------------------------------------------
(* The queue: types *)

\* The places in which the listener and a command hold a message.
HoldsMessage ==
  /\ listener.pc \in {"claimed", "dispatching", "bound", "authorized"} =>
       listener.msg \in Messages
  /\ \A p \in Procs :
       proc[p].op \in {"check", "running", "failed", "succeeded"} =>
         proc[p].msg \in Messages

Typed == TypeOK /\ HoldsMessage

LEMMA Types == Spec => []Typed
<1>1. Init => Typed
  BY ConstantsAssumption DEF Init, Typed, TypeOK, HoldsMessage, RowStates, InFlight,
     Terminal, ListenerPc, ProcOps, Idle, Down
<1>2. Typed /\ [Next]_vars => Typed'
  <2> SUFFICES ASSUME Typed, [Next]_vars
               PROVE  Typed'
    OBVIOUS
  <2> USE DEF Typed, TypeOK, HoldsMessage, RowStates, InFlight, Terminal,
              ListenerPc, ProcOps, Idle, Down, Ready, rowVars, ledgerVars
  <2>1. ASSUME NEW m \in Messages, Intake(m) PROVE Typed'
    BY <2>1 DEF Intake
  <2>2. ASSUME NEW m \in Messages, DrainOne(m) PROVE Typed'
    BY <2>2 DEF DrainOne
  <2>3. CASE RejectUnowned
    BY <2>3 DEF RejectUnowned, DeadLetter
  <2>4. ASSUME NEW p \in Procs, StartDispatch(p) PROVE Typed'
    BY <2>4 DEF StartDispatch
  <2>5. CASE MarkSpawned
    BY <2>5 DEF MarkSpawned
  <2>6. CASE SpawnWorker
    BY <2>6 DEF SpawnWorker
  <2>7. CASE SpawnFails
    BY <2>7 DEF SpawnFails, DeadLetter
  <2>8. ASSUME NEW p \in Procs, StartReplay(p) PROVE Typed'
    BY <2>8 DEF StartReplay
  <2>9. CASE Restart
    BY <2>9 DEF Restart
  <2>10. ASSUME NEW p \in Procs, CheckClaim(p) PROVE Typed'
    BY <2>10 DEF CheckClaim
  <2>11. ASSUME NEW p \in Procs, DispatchOpens(p) PROVE Typed'
    BY <2>11 DEF DispatchOpens
  <2>12. ASSUME NEW p \in Procs, DispatchSucceeds(p) PROVE Typed'
    BY <2>12 DEF DispatchSucceeds
  <2>13. ASSUME NEW p \in Procs, DispatchFails(p) PROVE Typed'
    BY <2>13 DEF DispatchFails
  <2>14. ASSUME NEW p \in Procs, DispatchTimesOut(p) PROVE Typed'
    BY <2>14 DEF DispatchTimesOut, Exit
  <2>15. ASSUME NEW p \in Procs, ReleaseClaim(p) PROVE Typed'
    BY <2>15 DEF ReleaseClaim, Exit
  <2>16. ASSUME NEW p \in Procs, MarkDispatched(p) PROVE Typed'
    <3>1. CASE state[proc[p].msg] \in {"claimed", "dispatched"}
      BY <2>16, <3>1 DEF MarkDispatched, Exit
    <3>2. CASE state[proc[p].msg] \notin {"claimed", "dispatched"}
      BY <2>16, <3>2 DEF MarkDispatched, Exit
    <3> QED
      BY <3>1, <3>2
  <2>17. ASSUME NEW p \in Procs, NEW m \in Messages, RearmOne(p, m) PROVE Typed'
    BY <2>17 DEF RearmOne
  <2>18. ASSUME NEW p \in Procs, EndReplay(p) PROVE Typed'
    BY <2>18 DEF EndReplay, Exit
  <2>19. ASSUME NEW m \in Messages, Age(m) PROVE Typed'
    BY <2>19 DEF Age
  <2>20. CASE Crash
    BY <2>20 DEF Crash
  <2>21. ASSUME NEW p \in Procs, KillOrphan(p) PROVE Typed'
    BY <2>21 DEF KillOrphan
  <2>22. ASSUME NEW m \in Messages, WorkerCompletes(m) PROVE Typed'
    BY <2>22 DEF WorkerCompletes
  <2>23. ASSUME NEW m \in Messages, OperatorErrors(m) PROVE Typed'
    BY <2>23 DEF OperatorErrors, DeadLetter
  <2>24. CASE UNCHANGED vars
    BY <2>24 DEF vars
  <2> QED
    BY <2>1, <2>2, <2>3, <2>4, <2>5, <2>6, <2>7, <2>8, <2>9, <2>10, <2>11,
       <2>12, <2>13, <2>14, <2>15, <2>16, <2>17, <2>18, <2>19, <2>20, <2>21,
       <2>22, <2>23, <2>24 DEF Next, ListenerStep, ProcStep, Environment
<1> QED
  BY <1>1, <1>2, PTL DEF Spec

\* Every row, stamp and process keeps its type, whatever is killed when.
THEOREM Typing == Spec => []TypeOK
<1>1. Typed => TypeOK
  BY DEF Typed
<1> QED
  BY <1>1, Types, PTL

-----------------------------------------------------------------------------
(* One row in flight per chat *)

\* A row enters the in-flight states only through claim_next, whose guard
\* sees every other row of the chat; all later writes keep a row in flight or
\* end it.
THEOREM ChatExclusion == Spec => []OneInFlightPerChat
<1>1. Init => OneInFlightPerChat
  BY DEF Init, OneInFlightPerChat, InFlight
<1>2. Typed /\ OneInFlightPerChat /\ [Next]_vars => OneInFlightPerChat'
  <2> SUFFICES ASSUME Typed, OneInFlightPerChat, [Next]_vars
               PROVE  OneInFlightPerChat'
    OBVIOUS
  <2> USE DEF Typed, TypeOK, HoldsMessage, OneInFlightPerChat, InFlight,
              Terminal, rowVars, ChatOf
  <2>1. ASSUME NEW m \in Messages, Intake(m) PROVE OneInFlightPerChat'
    BY <2>1 DEF Intake
  <2>2. ASSUME NEW m \in Messages, DrainOne(m) PROVE OneInFlightPerChat'
    BY <2>2 DEF DrainOne, Claimable, Busy
  <2>3. CASE RejectUnowned
    BY <2>3 DEF RejectUnowned, DeadLetter
  <2>4. ASSUME NEW p \in Procs, StartDispatch(p) PROVE OneInFlightPerChat'
    BY <2>4 DEF StartDispatch
  <2>5. CASE MarkSpawned
    BY <2>5 DEF MarkSpawned
  <2>6. CASE SpawnWorker
    BY <2>6 DEF SpawnWorker
  <2>7. CASE SpawnFails
    BY <2>7 DEF SpawnFails, DeadLetter
  <2>8. ASSUME NEW p \in Procs, StartReplay(p) PROVE OneInFlightPerChat'
    BY <2>8 DEF StartReplay
  <2>9. CASE Restart
    BY <2>9 DEF Restart
  <2>10. ASSUME NEW p \in Procs, CheckClaim(p) PROVE OneInFlightPerChat'
    BY <2>10 DEF CheckClaim
  <2>11. ASSUME NEW p \in Procs, DispatchOpens(p) PROVE OneInFlightPerChat'
    BY <2>11 DEF DispatchOpens
  <2>12. ASSUME NEW p \in Procs, DispatchSucceeds(p) PROVE OneInFlightPerChat'
    BY <2>12 DEF DispatchSucceeds
  <2>13. ASSUME NEW p \in Procs, DispatchFails(p) PROVE OneInFlightPerChat'
    BY <2>13 DEF DispatchFails
  <2>14. ASSUME NEW p \in Procs, DispatchTimesOut(p) PROVE OneInFlightPerChat'
    BY <2>14 DEF DispatchTimesOut, Exit
  <2>15. ASSUME NEW p \in Procs, ReleaseClaim(p) PROVE OneInFlightPerChat'
    BY <2>15 DEF ReleaseClaim, Exit
  <2>16. ASSUME NEW p \in Procs, MarkDispatched(p) PROVE OneInFlightPerChat'
    BY <2>16 DEF MarkDispatched, Exit
  <2>17. ASSUME NEW p \in Procs, NEW m \in Messages, RearmOne(p, m) PROVE OneInFlightPerChat'
    BY <2>17 DEF RearmOne
  <2>18. ASSUME NEW p \in Procs, EndReplay(p) PROVE OneInFlightPerChat'
    BY <2>18 DEF EndReplay, Exit
  <2>19. ASSUME NEW m \in Messages, Age(m) PROVE OneInFlightPerChat'
    BY <2>19 DEF Age
  <2>20. CASE Crash
    BY <2>20 DEF Crash
  <2>21. ASSUME NEW p \in Procs, KillOrphan(p) PROVE OneInFlightPerChat'
    BY <2>21 DEF KillOrphan
  <2>22. ASSUME NEW m \in Messages, WorkerCompletes(m) PROVE OneInFlightPerChat'
    BY <2>22 DEF WorkerCompletes
  <2>23. ASSUME NEW m \in Messages, OperatorErrors(m) PROVE OneInFlightPerChat'
    BY <2>23 DEF OperatorErrors, DeadLetter
  <2>24. CASE UNCHANGED vars
    BY <2>24 DEF vars
  <2> QED
    BY <2>1, <2>2, <2>3, <2>4, <2>5, <2>6, <2>7, <2>8, <2>9, <2>10, <2>11,
       <2>12, <2>13, <2>14, <2>15, <2>16, <2>17, <2>18, <2>19, <2>20,
       <2>21, <2>22, <2>23, <2>24 DEF Next, ListenerStep, ProcStep,
       Environment
<1> QED
  BY <1>1, <1>2, Types, PTL DEF Spec

-----------------------------------------------------------------------------
(* Order within a chat *)

\* rowid numbers the rows in the order of their intake.
Numbered ==
  /\ \A m \in Messages : rowid[m] < nextRow
  /\ \A m \in Messages : state[m] = "absent" => rowid[m] = 0

\* Every older row of n's chat has ended.
OlderEnded(n) ==
  \A m \in Messages :
    /\ ChatOf(m) = ChatOf(n)
    /\ state[m] # "absent"
    /\ rowid[m] < rowid[n]
    /\ m \notin rewound
    => state[m] \in Terminal

\* That holds for the listener's row too, which an orphaned replay may have
\* put back to "received" and mark-errored may still end.
HeldInOrder ==
  listener.pc \in {"claimed", "dispatching", "bound", "authorized"} =>
    state[listener.msg] # "absent" /\ OlderEnded(listener.msg)

OrderInv == Numbered /\ HeldInOrder /\ PerChatOrder

\* When a row is claimed, an older row of its chat that has not ended is
\* either in flight, and the chat is busy, or claimable, and comes first.
THEOREM ChatOrder == Spec => []PerChatOrder
<1>1. Init => OrderInv
  BY DEF Init, Down, OrderInv, Numbered, HeldInOrder, OlderEnded, PerChatOrder
<1>2. Typed /\ OrderInv /\ [Next]_vars => OrderInv'
  <2> SUFFICES ASSUME Typed, OrderInv, [Next]_vars
               PROVE  OrderInv'
    OBVIOUS
  <2> USE DEF Typed, TypeOK, HoldsMessage, OrderInv, Numbered, HeldInOrder,
              OlderEnded, PerChatOrder, RowStates, InFlight, Terminal,
              rowVars, ChatOf, Ready, Down
  <2>1. ASSUME NEW m \in Messages, Intake(m) PROVE OrderInv'
    BY <2>1 DEF Intake
  <2>2. ASSUME NEW m \in Messages, DrainOne(m) PROVE OrderInv'
    BY <2>2 DEF DrainOne, Claimable, Busy
  <2>3. CASE RejectUnowned
    BY <2>3 DEF RejectUnowned, DeadLetter
  <2>4. ASSUME NEW p \in Procs, StartDispatch(p) PROVE OrderInv'
    BY <2>4 DEF StartDispatch
  <2>5. CASE MarkSpawned
    BY <2>5 DEF MarkSpawned
  <2>6. CASE SpawnWorker
    BY <2>6 DEF SpawnWorker
  <2>7. CASE SpawnFails
    BY <2>7 DEF SpawnFails, DeadLetter
  <2>8. ASSUME NEW p \in Procs, StartReplay(p) PROVE OrderInv'
    BY <2>8 DEF StartReplay
  <2>9. CASE Restart
    BY <2>9 DEF Restart
  <2>10. ASSUME NEW p \in Procs, CheckClaim(p) PROVE OrderInv'
    BY <2>10 DEF CheckClaim
  <2>11. ASSUME NEW p \in Procs, DispatchOpens(p) PROVE OrderInv'
    BY <2>11 DEF DispatchOpens
  <2>12. ASSUME NEW p \in Procs, DispatchSucceeds(p) PROVE OrderInv'
    BY <2>12 DEF DispatchSucceeds
  <2>13. ASSUME NEW p \in Procs, DispatchFails(p) PROVE OrderInv'
    BY <2>13 DEF DispatchFails
  <2>14. ASSUME NEW p \in Procs, DispatchTimesOut(p) PROVE OrderInv'
    BY <2>14 DEF DispatchTimesOut, Exit
  <2>15. ASSUME NEW p \in Procs, ReleaseClaim(p) PROVE OrderInv'
    <3>1. proc[p].msg \in Messages
      BY <2>15 DEF ReleaseClaim
    <3>2. /\ Numbered' /\ PerChatOrder'
          /\ \A n \in Messages :
               state[n] # "absent" /\ OlderEnded(n) => (state[n] # "absent" /\ OlderEnded(n))'
      BY <2>15, <3>1 DEF ReleaseClaim
    <3>3. listener' = Ready \/ UNCHANGED listener
      BY <2>15 DEF ReleaseClaim, Exit
    <3> QED
      BY <3>2, <3>3
  <2>16. ASSUME NEW p \in Procs, MarkDispatched(p) PROVE OrderInv'
    <3>1. CASE state[proc[p].msg] \in {"claimed", "dispatched"}
      <4> DEFINE m == proc[p].msg
      <4>1. /\ m \in Messages
            /\ state' = [state EXCEPT ![m] = "dispatched"]
            /\ UNCHANGED <<rowid, nextRow, rewound>>
        BY <2>16, <3>1 DEF MarkDispatched
      <4>2. listener' \in {listener, [pc |-> "bound", msg |-> m, cmd |-> None]}
        BY <2>16, <3>1 DEF MarkDispatched, Exit
      <4>3. /\ Numbered' /\ PerChatOrder'
            /\ \A n \in Messages :
                 state[n] # "absent" /\ OlderEnded(n) => (state[n] # "absent" /\ OlderEnded(n))'
        BY <3>1, <4>1
      <4>4. state[m] # "absent" /\ OlderEnded(m)
        BY <3>1, <4>1
      <4> QED
        BY <4>1, <4>2, <4>3, <4>4
    <3>2. CASE state[proc[p].msg] \notin {"claimed", "dispatched"}
      BY <2>16, <3>2 DEF MarkDispatched, Exit
    <3> QED
      BY <3>1, <3>2
  <2>17. ASSUME NEW p \in Procs, NEW m \in Messages, RearmOne(p, m) PROVE OrderInv'
    BY <2>17 DEF RearmOne
  <2>18. ASSUME NEW p \in Procs, EndReplay(p) PROVE OrderInv'
    BY <2>18 DEF EndReplay, Exit
  <2>19. ASSUME NEW m \in Messages, Age(m) PROVE OrderInv'
    BY <2>19 DEF Age
  <2>20. CASE Crash
    BY <2>20 DEF Crash
  <2>21. ASSUME NEW p \in Procs, KillOrphan(p) PROVE OrderInv'
    BY <2>21 DEF KillOrphan
  <2>22. ASSUME NEW m \in Messages, WorkerCompletes(m) PROVE OrderInv'
    BY <2>22 DEF WorkerCompletes
  <2>23. ASSUME NEW m \in Messages, OperatorErrors(m) PROVE OrderInv'
    BY <2>23 DEF OperatorErrors, DeadLetter
  <2>24. CASE UNCHANGED vars
    BY <2>24 DEF vars
  <2> QED
    BY <2>1, <2>2, <2>3, <2>4, <2>5, <2>6, <2>7, <2>8, <2>9, <2>10, <2>11,
       <2>12, <2>13, <2>14, <2>15, <2>16, <2>17, <2>18, <2>19, <2>20,
       <2>21, <2>22, <2>23, <2>24 DEF Next, ListenerStep, ProcStep,
       Environment
<1>3. OrderInv => PerChatOrder
  BY DEF OrderInv
<1> QED
  BY <1>1, <1>2, <1>3, Types, PTL DEF Spec

-----------------------------------------------------------------------------
(* At most one worker *)

\* No worker before the durable authorization, one at most after it, and
\* while the listener is between MarkDispatched and the launch the row is
\* where the listener believes it to be, or ended.
WorkerInv ==
  /\ LaunchIsDurable
  /\ AtMostOneWorker
  /\ listener.pc = "bound" /\ listener.msg \notin rewound =>
       state[listener.msg] \in {"dispatched"} \cup Terminal
  /\ listener.pc = "authorized" /\ listener.msg \notin rewound =>
       /\ state[listener.msg] \in {"spawned"} \cup Terminal
       /\ workers[listener.msg] = 0

LEMMA Workers == Spec => []WorkerInv
<1>1. Init => WorkerInv
  BY DEF Init, Down, WorkerInv, LaunchIsDurable, AtMostOneWorker
<1>2. Typed /\ WorkerInv /\ [Next]_vars => WorkerInv'
  <2> SUFFICES ASSUME Typed, WorkerInv, [Next]_vars
               PROVE  WorkerInv'
    OBVIOUS
  <2> USE DEF Typed, TypeOK, HoldsMessage, WorkerInv, LaunchIsDurable,
              AtMostOneWorker, RowStates, InFlight, Terminal, rowVars, Ready,
              Down
  <2>1. ASSUME NEW m \in Messages, Intake(m) PROVE WorkerInv'
    BY <2>1 DEF Intake
  <2>2. ASSUME NEW m \in Messages, DrainOne(m) PROVE WorkerInv'
    BY <2>2 DEF DrainOne, Claimable
  <2>3. CASE RejectUnowned
    BY <2>3 DEF RejectUnowned, DeadLetter
  <2>4. ASSUME NEW p \in Procs, StartDispatch(p) PROVE WorkerInv'
    BY <2>4 DEF StartDispatch
  <2>5. CASE MarkSpawned
    BY <2>5 DEF MarkSpawned
  <2>6. CASE SpawnWorker
    BY <2>6 DEF SpawnWorker
  <2>7. CASE SpawnFails
    BY <2>7 DEF SpawnFails, DeadLetter
  <2>8. ASSUME NEW p \in Procs, StartReplay(p) PROVE WorkerInv'
    BY <2>8 DEF StartReplay
  <2>9. CASE Restart
    BY <2>9 DEF Restart
  <2>10. ASSUME NEW p \in Procs, CheckClaim(p) PROVE WorkerInv'
    BY <2>10 DEF CheckClaim
  <2>11. ASSUME NEW p \in Procs, DispatchOpens(p) PROVE WorkerInv'
    BY <2>11 DEF DispatchOpens
  <2>12. ASSUME NEW p \in Procs, DispatchSucceeds(p) PROVE WorkerInv'
    BY <2>12 DEF DispatchSucceeds
  <2>13. ASSUME NEW p \in Procs, DispatchFails(p) PROVE WorkerInv'
    BY <2>13 DEF DispatchFails
  <2>14. ASSUME NEW p \in Procs, DispatchTimesOut(p) PROVE WorkerInv'
    BY <2>14 DEF DispatchTimesOut, Exit
  <2>15. ASSUME NEW p \in Procs, ReleaseClaim(p) PROVE WorkerInv'
    BY <2>15 DEF ReleaseClaim, Exit
  <2>16. ASSUME NEW p \in Procs, MarkDispatched(p) PROVE WorkerInv'
    BY <2>16 DEF MarkDispatched, Exit
  <2>17. ASSUME NEW p \in Procs, NEW m \in Messages, RearmOne(p, m) PROVE WorkerInv'
    BY <2>17 DEF RearmOne
  <2>18. ASSUME NEW p \in Procs, EndReplay(p) PROVE WorkerInv'
    BY <2>18 DEF EndReplay, Exit
  <2>19. ASSUME NEW m \in Messages, Age(m) PROVE WorkerInv'
    BY <2>19 DEF Age
  <2>20. CASE Crash
    BY <2>20 DEF Crash
  <2>21. ASSUME NEW p \in Procs, KillOrphan(p) PROVE WorkerInv'
    BY <2>21 DEF KillOrphan
  <2>22. ASSUME NEW m \in Messages, WorkerCompletes(m) PROVE WorkerInv'
    BY <2>22 DEF WorkerCompletes
  <2>23. ASSUME NEW m \in Messages, OperatorErrors(m) PROVE WorkerInv'
    BY <2>23 DEF OperatorErrors, DeadLetter
  <2>24. CASE UNCHANGED vars
    BY <2>24 DEF vars
  <2> QED
    BY <2>1, <2>2, <2>3, <2>4, <2>5, <2>6, <2>7, <2>8, <2>9, <2>10, <2>11,
       <2>12, <2>13, <2>14, <2>15, <2>16, <2>17, <2>18, <2>19, <2>20,
       <2>21, <2>22, <2>23, <2>24 DEF Next, ListenerStep, ProcStep,
       Environment
<1> QED
  BY <1>1, <1>2, Types, PTL DEF Spec

\* A second worker would need a second pass of a row through "authorized",
\* and only a replay that resets a row past "claimed" allows one.
THEOREM SingleWorker == Spec => []AtMostOneWorker
<1>1. WorkerInv => AtMostOneWorker
  BY DEF WorkerInv
<1> QED
  BY <1>1, Workers, PTL

\* A row with a worker is spawned or ended.
THEOREM DurableLaunch == Spec => []LaunchIsDurable
<1>1. WorkerInv => LaunchIsDurable
  BY DEF WorkerInv
<1> QED
  BY <1>1, Workers, PTL

-----------------------------------------------------------------------------
(* The row and the dispatch ledger *)

\* dispatch-claimed writes the row only after dispatch.py has completed the
\* operation.
BindingInv ==
  /\ BoundBeforeDispatched
  /\ \A p \in Procs : proc[p].op = "succeeded" => proc[p].msg \in bound

\* The row is marked dispatched only when the dispatch operation bound its
\* thread and conversation.
THEOREM Binding == Spec => []BoundBeforeDispatched
<1>1. Init => BindingInv
  BY DEF Init, Idle, BindingInv, BoundBeforeDispatched
<1>2. Typed /\ BindingInv /\ [Next]_vars => BindingInv'
  <2> SUFFICES ASSUME Typed, BindingInv, [Next]_vars
               PROVE  BindingInv'
    OBVIOUS
  <2> USE DEF Typed, TypeOK, HoldsMessage, BindingInv, BoundBeforeDispatched,
              RowStates, InFlight, Terminal, rowVars, ledgerVars, Idle
  <2>1. ASSUME NEW m \in Messages, Intake(m) PROVE BindingInv'
    BY <2>1 DEF Intake
  <2>2. ASSUME NEW m \in Messages, DrainOne(m) PROVE BindingInv'
    BY <2>2 DEF DrainOne
  <2>3. CASE RejectUnowned
    BY <2>3 DEF RejectUnowned, DeadLetter
  <2>4. ASSUME NEW p \in Procs, StartDispatch(p) PROVE BindingInv'
    BY <2>4 DEF StartDispatch
  <2>5. CASE MarkSpawned
    BY <2>5 DEF MarkSpawned
  <2>6. CASE SpawnWorker
    BY <2>6 DEF SpawnWorker
  <2>7. CASE SpawnFails
    BY <2>7 DEF SpawnFails, DeadLetter
  <2>8. ASSUME NEW p \in Procs, StartReplay(p) PROVE BindingInv'
    BY <2>8 DEF StartReplay
  <2>9. CASE Restart
    BY <2>9 DEF Restart
  <2>10. ASSUME NEW p \in Procs, CheckClaim(p) PROVE BindingInv'
    BY <2>10 DEF CheckClaim
  <2>11. ASSUME NEW p \in Procs, DispatchOpens(p) PROVE BindingInv'
    BY <2>11 DEF DispatchOpens
  <2>12. ASSUME NEW p \in Procs, DispatchSucceeds(p) PROVE BindingInv'
    BY <2>12 DEF DispatchSucceeds
  <2>13. ASSUME NEW p \in Procs, DispatchFails(p) PROVE BindingInv'
    BY <2>13 DEF DispatchFails
  <2>14. ASSUME NEW p \in Procs, DispatchTimesOut(p) PROVE BindingInv'
    BY <2>14 DEF DispatchTimesOut, Exit
  <2>15. ASSUME NEW p \in Procs, ReleaseClaim(p) PROVE BindingInv'
    BY <2>15 DEF ReleaseClaim, Exit
  <2>16. ASSUME NEW p \in Procs, MarkDispatched(p) PROVE BindingInv'
    BY <2>16 DEF MarkDispatched, Exit
  <2>17. ASSUME NEW p \in Procs, NEW m \in Messages, RearmOne(p, m) PROVE BindingInv'
    BY <2>17 DEF RearmOne
  <2>18. ASSUME NEW p \in Procs, EndReplay(p) PROVE BindingInv'
    BY <2>18 DEF EndReplay, Exit
  <2>19. ASSUME NEW m \in Messages, Age(m) PROVE BindingInv'
    BY <2>19 DEF Age
  <2>20. CASE Crash
    BY <2>20 DEF Crash
  <2>21. ASSUME NEW p \in Procs, KillOrphan(p) PROVE BindingInv'
    BY <2>21 DEF KillOrphan
  <2>22. ASSUME NEW m \in Messages, WorkerCompletes(m) PROVE BindingInv'
    BY <2>22 DEF WorkerCompletes
  <2>23. ASSUME NEW m \in Messages, OperatorErrors(m) PROVE BindingInv'
    BY <2>23 DEF OperatorErrors, DeadLetter
  <2>24. CASE UNCHANGED vars
    BY <2>24 DEF vars
  <2> QED
    BY <2>1, <2>2, <2>3, <2>4, <2>5, <2>6, <2>7, <2>8, <2>9, <2>10, <2>11,
       <2>12, <2>13, <2>14, <2>15, <2>16, <2>17, <2>18, <2>19, <2>20,
       <2>21, <2>22, <2>23, <2>24 DEF Next, ListenerStep, ProcStep,
       Environment
<1>3. BindingInv => BoundBeforeDispatched
  BY DEF BindingInv
<1> QED
  BY <1>1, <1>2, <1>3, Types, PTL DEF Spec

-----------------------------------------------------------------------------
(* Terminal rows *)

\* The steps that write a row's state keep a terminal one, but for replay,
\* which then marks the row as rewound.
KeepsTerminal ==
  \A m \in Messages :
    state[m] \in Terminal /\ m \notin rewound' => state'[m] = state[m]

\* Done, dead-lettered and errored rows stay what they are, except for a
\* replay that resets one.
THEOREM Finality == Spec => TerminalIsFinal
<1>1. Typed /\ [Next]_vars => [KeepsTerminal]_vars
  <2> SUFFICES ASSUME Typed, [Next]_vars
               PROVE  KeepsTerminal
    OBVIOUS
  <2> USE DEF Typed, TypeOK, HoldsMessage, KeepsTerminal, RowStates, InFlight,
              Terminal, rowVars
  <2>1. ASSUME NEW m \in Messages, Intake(m) PROVE KeepsTerminal
    BY <2>1 DEF Intake
  <2>2. ASSUME NEW m \in Messages, DrainOne(m) PROVE KeepsTerminal
    BY <2>2 DEF DrainOne, Claimable
  <2>3. CASE RejectUnowned
    BY <2>3 DEF RejectUnowned, DeadLetter
  <2>4. ASSUME NEW p \in Procs, StartDispatch(p) PROVE KeepsTerminal
    BY <2>4 DEF StartDispatch
  <2>5. CASE MarkSpawned
    BY <2>5 DEF MarkSpawned
  <2>6. CASE SpawnWorker
    BY <2>6 DEF SpawnWorker
  <2>7. CASE SpawnFails
    BY <2>7 DEF SpawnFails, DeadLetter
  <2>8. ASSUME NEW p \in Procs, StartReplay(p) PROVE KeepsTerminal
    BY <2>8 DEF StartReplay
  <2>9. CASE Restart
    BY <2>9 DEF Restart
  <2>10. ASSUME NEW p \in Procs, CheckClaim(p) PROVE KeepsTerminal
    BY <2>10 DEF CheckClaim
  <2>11. ASSUME NEW p \in Procs, DispatchOpens(p) PROVE KeepsTerminal
    BY <2>11 DEF DispatchOpens
  <2>12. ASSUME NEW p \in Procs, DispatchSucceeds(p) PROVE KeepsTerminal
    BY <2>12 DEF DispatchSucceeds
  <2>13. ASSUME NEW p \in Procs, DispatchFails(p) PROVE KeepsTerminal
    BY <2>13 DEF DispatchFails
  <2>14. ASSUME NEW p \in Procs, DispatchTimesOut(p) PROVE KeepsTerminal
    BY <2>14 DEF DispatchTimesOut, Exit
  <2>15. ASSUME NEW p \in Procs, ReleaseClaim(p) PROVE KeepsTerminal
    BY <2>15 DEF ReleaseClaim, Exit
  <2>16. ASSUME NEW p \in Procs, MarkDispatched(p) PROVE KeepsTerminal
    BY <2>16 DEF MarkDispatched, Exit
  <2>17. ASSUME NEW p \in Procs, NEW m \in Messages, RearmOne(p, m) PROVE KeepsTerminal
    BY <2>17 DEF RearmOne
  <2>18. ASSUME NEW p \in Procs, EndReplay(p) PROVE KeepsTerminal
    BY <2>18 DEF EndReplay, Exit
  <2>19. ASSUME NEW m \in Messages, Age(m) PROVE KeepsTerminal
    BY <2>19 DEF Age
  <2>20. CASE Crash
    BY <2>20 DEF Crash
  <2>21. ASSUME NEW p \in Procs, KillOrphan(p) PROVE KeepsTerminal
    BY <2>21 DEF KillOrphan
  <2>22. ASSUME NEW m \in Messages, WorkerCompletes(m) PROVE KeepsTerminal
    BY <2>22 DEF WorkerCompletes
  <2>23. ASSUME NEW m \in Messages, OperatorErrors(m) PROVE KeepsTerminal
    BY <2>23 DEF OperatorErrors, DeadLetter
  <2>24. CASE UNCHANGED vars
    BY <2>24 DEF vars
  <2> QED
    BY <2>1, <2>2, <2>3, <2>4, <2>5, <2>6, <2>7, <2>8, <2>9, <2>10, <2>11,
       <2>12, <2>13, <2>14, <2>15, <2>16, <2>17, <2>18, <2>19, <2>20,
       <2>21, <2>22, <2>23, <2>24 DEF Next, ListenerStep, ProcStep,
       Environment
<1>2. TerminalIsFinal <=> [][KeepsTerminal]_vars
  BY DEF TerminalIsFinal, KeepsTerminal
<1> QED
  BY <1>1, <1>2, Types, PTL DEF Spec

-----------------------------------------------------------------------------
(* The takeover: its invariant *)

Plans == UNION {[S -> Row] : S \in SUBSET Posts}
Commands == {"idle", "prepare", "finalize", "abort"}
\* The steps of prepare while nothing has failed; the legacy runtime is stopped in
\* the later ones.
StoppedSteps == {"backup", "recheck", "quarantine", "window", "reconcile", "fresh", "prepared"}
PrepareSteps == {"acknowledged", "stop", "prove"} \cup StoppedSteps
FinishSteps == {"window", "reconcile", "issue", "drain", "backlog", "commit"}
RollbackSteps == {"restore", "restart", "save"}
StopSteps == {"capture", "unload"}

Steps == {"idle"} \cup PrepareSteps \cup FinishSteps \cup RollbackSteps \cup StopSteps

Bases == [max : SUBSET Posts, frozen : Plans]
Receipt ==
  [phase : Phases, plan : Plans, backup : BOOLEAN, gateway : {"none", "prior"},
   lower : 0..N, upper : 0..N, base : Bases]
Tool ==
  [cmd : Commands, r : Receipts \cup {NoTakeover},
   pc : Steps,
   plan : Plans, todo : SUBSET Posts, at : 0..N, upper : 0..N,
   backup : BOOLEAN, captured : BOOLEAN]

ToolTyped == tool \in Tool
ReceiptTyped == receipt \in [Receipts -> Receipt]
QueueTyped ==
  /\ rows \in [Posts -> Row]
  /\ quarantine \in [Posts -> [by : Receipts \cup {NoTakeover}, row : Row]]
  /\ recorded \in [Posts -> {"none", "original", "edited"}]
RuntimesTyped ==
  /\ legacy \in [loaded : SUBSET Services, up : BOOLEAN, seen : 0..N]
  /\ repl \in [loaded : SUBSET Services, up : BOOLEAN, seen : 0..N]
  /\ session \in {"none", "prior", "own"}
OthersTyped ==
  /\ posted \in 0..N /\ edited \subseteq Posts
  /\ installer \in Receipts \cup {NoTakeover}
  /\ accepted \subseteq Posts /\ heard \subseteq Posts
  /\ faults \in 0..MaxFaults
TakeoverTyped ==
  /\ ToolTyped /\ ReceiptTyped /\ QueueTyped /\ RuntimesTyped /\ OthersTyped

Preparing == tool.cmd = "prepare" /\ tool.pc \in PrepareSteps
Stopping == tool.cmd = "abort" /\ tool.pc \in StopSteps
Finishing == tool.cmd = "finalize"
Begun == tool.cmd # "idle" /\ tool.pc # "acknowledged"

\* A command stands at one of its own steps.
StepsFit ==
  \/ tool = NoCommand
  \/ /\ tool.r \in Receipts
     /\ \/ tool.cmd = "prepare" /\ tool.pc \in PrepareSteps \cup RollbackSteps
        \/ tool.cmd = "finalize" /\ tool.pc \in FinishSteps
        \/ tool.cmd = "abort" /\ tool.pc \in StopSteps \cup RollbackSteps

\* The phase of a command's receipt.
PhasesFit ==
  /\ \A q \in Unfinished, r \in Unfinished : q = r
  /\ tool.pc = "acknowledged" => Unfinished = {} /\ receipt[tool.r].phase = "absent"
  /\ tool.cmd = "prepare" /\ Begun => receipt[tool.r].phase \in EarlyPhases
  /\ Finishing => receipt[tool.r].phase \in StartedPhases
  /\ tool.cmd = "abort" =>
       receipt[tool.r].phase \in EarlyPhases \cup StartedPhases \cup {"prepared"}
  /\ Stopping => receipt[tool.r].phase \in StartedPhases
  /\ (\E q \in Receipts : receipt[q].phase = "committed") => Unfinished = {}

\* The installer is the one whose command runs, or waits between two commands.
InstallerFits ==
  /\ Preparing \/ Finishing => installer = tool.r
  /\ installer # NoTakeover =>
       \/ Preparing \/ Finishing
       \/ tool = NoCommand /\ receipt[installer].phase \in {"prepared", "replacement-starting"}

Unbacked == {"absent", "legacy-validated", "legacy-quiesced"}
BackupsFit ==
  /\ \A q \in Receipts :
       /\ receipt[q].phase \in Unbacked => ~receipt[q].backup
       /\ receipt[q].phase \in (EarlyPhases \cup StartedPhases \cup {"prepared"}) \ Unbacked
            => receipt[q].backup
  /\ tool.cmd = "prepare" => tool.backup = receipt[tool.r].backup
  /\ Preparing => (tool.backup <=> tool.pc \in StoppedSteps \ {"backup"})

ControlInv == StepsFit /\ PhasesFit /\ InstallerFits /\ BackupsFit

\* The phases that a replacement may run in.
ServedPhases == StartedPhases \cup {"committed", "manual-recovery-required"}
Served == \E q \in Receipts : receipt[q].phase \in ServedPhases

RuntimeInv ==
  /\ OneRuntime
  /\ RollingBack => ~ReplacementRuns
  /\ ReplacementRuns => Served
  /\ (\E q \in Receipts : receipt[q].phase = "committed") => repl.loaded = Services
  /\ tool.cmd = "prepare" /\ tool.pc \in StoppedSteps => ~LegacyRuns
  /\ installer # NoTakeover /\ receipt[installer].phase \in StartedPhases \cup {"prepared"}
       => ~LegacyRuns

LegacyLoaded == legacy.loaded = Services
SessionInv ==
  /\ session = "own" => Served
  /\ tool.pc \in {"restart", "save"} =>
       /\ session # "own"
       /\ receipt[tool.r].backup => session = receipt[tool.r].gateway
  /\ tool.pc = "save" => LegacyLoaded

QuarantineInv ==
  /\ QuarantineIsAcknowledged
  /\ \A m \in Posts : quarantine[m].by # NoTakeover =>
       receipt[quarantine[m].by].phase \notin Unbacked \cup {"rolled-back"}
  /\ tool.pc \in {"restart", "save"} => \A m \in Posts : quarantine[m].by # tool.r
  /\ tool.pc = "quarantine" => Snapshot = receipt[tool.r].plan

\* A message that no listener enqueued before it enqueued a later one of its channel.
Missed(m) == \E n \in heard : n > m /\ Channel[n] = Channel[m]

\* Before a row its channel has no gap, but for what was missed.
GapInv ==
  \A n \in Present, m \in Posts :
    m < n /\ Channel[m] = Channel[n] /\ m \notin Present => Missed(m)

Bounded == {"gap-reconciling", "gateway-resetting", "prepared", "committed"} \cup StartedPhases
UpperBound == IF tool.cmd = "prepare" THEN receipt[tool.r].upper ELSE tool.upper

RowsFit ==
  /\ \A m \in Posts : rows[m].state = "absent" => rows[m] = NoRow
  /\ Present \subseteq Posted
  /\ legacy.seen <= posted /\ repl.seen <= posted
  /\ \A q \in Receipts : receipt[q].lower <= posted

\* Below a lower bound nothing is waiting, and the replacement's listener is past it.
BoundsFit ==
  /\ \A q \in Receipts : receipt[q].phase \in Bounded =>
       \A m \in 1..receipt[q].lower : m \notin Present => Missed(m)
  /\ \A q \in Receipts : receipt[q].phase \in StartedPhases \cup {"committed"} /\ repl.up
       => receipt[q].lower <= repl.seen
  /\ \A q \in Receipts : receipt[q].phase = "committed" =>
       Window(receipt[q].lower, receipt[q].upper) \subseteq Present

\* What is left of a window is still to do.
ReconcileFits ==
  /\ tool.at # 0 => tool.pc \in {"reconcile"} \cup RollbackSteps
  /\ tool.pc \in {"reconcile", "fresh", "prepared"} => receipt[tool.r].phase \in Bounded
  /\ tool.pc = "reconcile" =>
       /\ tool.todo \subseteq Window(receipt[tool.r].lower, UpperBound)
       /\ UpperBound <= posted
       /\ Window(receipt[tool.r].lower, UpperBound) \ tool.todo \subseteq Present
       /\ tool.at # 0 => tool.at \in tool.todo \cap Present

\* A takeover commits when its window is in the queue and served.
CommitFits ==
  /\ tool.pc \in {"issue", "drain", "backlog", "commit"} =>
       Window(receipt[tool.r].lower, receipt[tool.r].upper) \subseteq Present
  /\ tool.pc = "commit" =>
       \A m \in Present : m <= receipt[tool.r].upper => rows[m].state \in Ended \cup {"spawned"}
  /\ WindowIsServed

WindowInv == BoundsFit /\ ReconcileFits /\ CommitFits

Rank == [s \in RowState |->
  CASE s = "absent" -> 0 [] s = "received" -> 1 [] s = "claimed" -> 2
    [] s = "dispatched" -> 3 [] s = "spawned" -> 4 [] OTHER -> 5]

\* What the replacement has done since the baseline shows in the queue.
Accepts(q) ==
  LET base == receipt[q].base
  IN  /\ base.max \subseteq Present
      /\ DOMAIN base.frozen \subseteq base.max
      /\ \A m \in DOMAIN base.frozen :
           Rank[base.frozen[m].state] <= Rank[rows[m].state]
      /\ \A m \in accepted :
           /\ m \in Present
           /\ m \notin base.max \/ /\ m \in DOMAIN base.frozen
                                   /\ Rank[base.frozen[m].state] < Rank[rows[m].state]
      /\ ReplacementRuns \/ installer # NoTakeover =>
           \A m \in base.max \ DOMAIN base.frozen : rows[m].state \in Ended
      /\ \A m \in Posts :
           quarantine[m].by = q => m \in base.max /\ m \notin DOMAIN base.frozen

AcceptedInv == \A q \in Receipts : receipt[q].phase \in StartedPhases => Accepts(q)


SessionFits == tool.pc = "backup" => session # "own"

\* What a row and a plan are made of.
LEMMA RowKinds ==
  /\ NoRow \in Row /\ NewRow \in Row
  /\ \A f \in [Posts -> Row], S \in SUBSET Posts : [m \in S |-> f[m]] \in Plans
  BY DEF NoRow, NewRow, Row, RowState, Ended, Plans

\* A takeover without rows has the empty plan.
LEMMA EmptyPlan == NoPlan \in Plans
  BY RowKinds DEF Plans, NoPlan

\* The snapshot and the baseline of a typed queue are typed.
LEMMA QueuePlans ==
  ASSUME TakeoverTyped
  PROVE  /\ Snapshot \in Plans
         /\ Baseline(rows) \in Bases
<1>1. Snapshot \in Plans
  BY RowKinds DEF TakeoverTyped, QueueTyped, Snapshot, Nonterminal, Present
<1>2. Baseline(rows) \in Bases
  BY RowKinds DEF TakeoverTyped, QueueTyped, Baseline, Bases
<1> QED
  BY <1>1, <1>2

\* A receipt that is not written yet is one.
LEMMA NoReceiptTyped == NoReceipt \in Receipt
  BY EmptyPlan, TakeoverAssumption DEF NoReceipt, Receipt, Bases, Phases

\* The lemmas of this part say what an update of tool or receipt leaves in each field.
LEMMA EndsTo ==
  ASSUME Ends
  PROVE  /\ ToolTyped' /\ tool'.cmd = "idle" /\ tool'.pc = "idle"
         /\ tool'.r = NoTakeover /\ tool'.todo = {} /\ tool'.at = 0
         /\ tool'.upper = 0 /\ tool'.backup = FALSE /\ tool'.plan = NoPlan
         /\ tool' = NoCommand
  BY TakeoverAssumption, EmptyPlan DEF Ends, NoCommand, ToolTyped, Tool, Commands, Steps

\* A command goes on to step p.
LEMMA GoesTo ==
  ASSUME ToolTyped, NEW p \in Steps, Goes(p)
  PROVE  /\ ToolTyped' /\ tool'.pc = p /\ tool'.cmd = tool.cmd
         /\ tool'.r = tool.r /\ tool'.plan = tool.plan
         /\ tool'.todo = tool.todo /\ tool'.at = tool.at
         /\ tool'.upper = tool.upper /\ tool'.backup = tool.backup
         /\ tool'.captured = tool.captured
  BY DEF ToolTyped, Tool, Goes

\* A receipt takes phase p.
LEMMA PhaseTo ==
  ASSUME ReceiptTyped, NEW r \in Receipts, NEW p \in Phases, Phase(r, p)
  PROVE  /\ ReceiptTyped' /\ receipt'[r].phase = p
         /\ receipt'[r].plan = receipt[r].plan
         /\ receipt'[r].backup = receipt[r].backup
         /\ receipt'[r].gateway = receipt[r].gateway
         /\ receipt'[r].lower = receipt[r].lower
         /\ receipt'[r].upper = receipt[r].upper
         /\ receipt'[r].base = receipt[r].base
         /\ \A q \in Receipts \ {r} : receipt'[q] = receipt[q]
  BY DEF ReceiptTyped, Receipt, Phase

\* No command runs.
LEMMA NoCommandTyped ==
  /\ NoCommand \in Tool /\ NoCommand.cmd = "idle"
  /\ NoCommand.pc = "idle" /\ NoCommand.r = NoTakeover
  /\ NoCommand.todo = {} /\ NoCommand.at = 0 /\ NoCommand.upper = 0
  /\ NoCommand.backup = FALSE /\ NoCommand.plan = NoPlan
  BY TakeoverAssumption, EmptyPlan DEF NoCommand, Tool, Commands, Steps

\* plan and prepare begin.
LEMMA PlanDoes ==
  ASSUME TakeoverTyped, NEW r \in Receipts, Plan(r)
  PROVE  /\ ToolTyped' /\ tool'.cmd = "prepare" /\ tool'.r = r
         /\ tool'.pc = "acknowledged" /\ tool'.plan = Snapshot
         /\ tool'.todo = {} /\ tool'.at = 0 /\ tool'.upper = 0
         /\ tool'.backup = FALSE
  BY NoCommandTyped, QueuePlans DEF Plan, ToolTyped, Tool, Commands, Steps, PrepareSteps

\* finalize begins.
LEMMA FinalizeDoes ==
  ASSUME NEW r \in Receipts, Finalize(r)
  PROVE  /\ ToolTyped' /\ tool'.cmd = "finalize" /\ tool'.r = r
         /\ tool'.pc = "window" /\ tool'.todo = {} /\ tool'.at = 0
         /\ tool'.upper = 0 /\ tool'.backup = FALSE
  BY NoCommandTyped DEF Finalize, ToolTyped, Tool, Commands, Steps, FinishSteps

\* abort begins at step p.
LEMMA AbortDoes ==
  ASSUME NEW r \in Receipts, NEW p \in Steps, tool' = [NoCommand EXCEPT !.cmd = "abort", !.r = r, !.pc = p]
  PROVE  /\ ToolTyped' /\ tool'.cmd = "abort" /\ tool'.r = r /\ tool'.pc = p
         /\ tool'.todo = {} /\ tool'.at = 0 /\ tool'.upper = 0
         /\ tool'.backup = FALSE
  BY NoCommandTyped DEF ToolTyped, Tool, Commands

\* A command fails.
LEMMA RaisesTo ==
  ASSUME ToolTyped, Raises
  PROVE  /\ ToolTyped' /\ installer' = NoTakeover
         /\ (tool.cmd = "prepare" => Goes("restore"))
         /\ (tool.cmd # "prepare" => Ends)
  BY EndsTo, GoesTo DEF Raises, Steps, RollbackSteps

\* finalize opens its window.
LEMMA ReopenWindowDoes ==
  ASSUME ToolTyped, tool.r \in Receipts, ReceiptTyped, ReopenWindow,
         NEW u, u = Upper(receipt[tool.r].lower), u \in 0..N, Window(receipt[tool.r].lower, u) \subseteq Posts
  PROVE  /\ ToolTyped' /\ tool'.pc = "reconcile" /\ tool'.upper = u
         /\ tool'.todo = Window(receipt[tool.r].lower, u)
         /\ tool'.cmd = tool.cmd /\ tool'.r = tool.r /\ tool'.plan = tool.plan
         /\ tool'.at = tool.at /\ tool'.backup = tool.backup
         /\ tool'.captured = tool.captured
  BY DEF ReopenWindow, ToolTyped, Tool, Steps, PrepareSteps, StoppedSteps

\* A message is enqueued and waits for its reaction.
LEMMA ReconcileDoes ==
  ASSUME ToolTyped, NEW m \in Posts, tool' = [tool EXCEPT !.at = m]
  PROVE  /\ ToolTyped' /\ tool'.at = m /\ tool'.cmd = tool.cmd
         /\ tool'.r = tool.r /\ tool'.pc = tool.pc /\ tool'.plan = tool.plan
         /\ tool'.todo = tool.todo /\ tool'.upper = tool.upper
         /\ tool'.backup = tool.backup /\ tool'.captured = tool.captured
  BY TakeoverAssumption DEF ToolTyped, Tool, Posts

\* A message has its reaction.
LEMMA AcknowledgeDoes ==
  ASSUME ToolTyped, tool' = [tool EXCEPT !.todo = @ \ {tool.at}, !.at = 0]
  PROVE  /\ ToolTyped' /\ tool'.at = 0 /\ tool'.todo = tool.todo \ {tool.at}
         /\ tool'.cmd = tool.cmd /\ tool'.r = tool.r /\ tool'.pc = tool.pc
         /\ tool'.plan = tool.plan /\ tool'.upper = tool.upper
         /\ tool'.backup = tool.backup /\ tool'.captured = tool.captured
<1>1. 0 \in 0..N /\ tool.todo \ {tool.at} \subseteq Posts
  BY TakeoverAssumption DEF ToolTyped, Tool
<1> QED
  BY <1>1 DEF ToolTyped, Tool

\* abort looks at the session.
LEMMA CaptureDoes ==
  ASSUME ToolTyped, repl.up \in BOOLEAN, CaptureReplacement
  PROVE  /\ ToolTyped' /\ tool'.pc = "unload" /\ tool'.captured = repl.up
         /\ tool'.cmd = tool.cmd /\ tool'.r = tool.r /\ tool'.plan = tool.plan
         /\ tool'.todo = tool.todo /\ tool'.at = tool.at
         /\ tool'.upper = tool.upper /\ tool'.backup = tool.backup
  BY DEF CaptureReplacement, ToolTyped, Tool, Steps, StopSteps

\* The receipt is written.
LEMMA ValidateDoes ==
  ASSUME ReceiptTyped, ToolTyped, tool.r \in Receipts,
         receipt' = [receipt EXCEPT ![tool.r].phase = "legacy-validated",
                                       ![tool.r].plan = tool.plan]
  PROVE  /\ ReceiptTyped' /\ receipt'[tool.r].phase = "legacy-validated"
         /\ receipt'[tool.r].plan = tool.plan
         /\ receipt'[tool.r].backup = receipt[tool.r].backup
         /\ receipt'[tool.r].gateway = receipt[tool.r].gateway
         /\ receipt'[tool.r].lower = receipt[tool.r].lower
         /\ receipt'[tool.r].upper = receipt[tool.r].upper
         /\ receipt'[tool.r].base = receipt[tool.r].base
         /\ \A q \in Receipts \ {tool.r} : receipt'[q] = receipt[q]
  BY DEF Validate, ReceiptTyped, Receipt, ToolTyped, Tool, Phases, EarlyPhases

\* The backup is recorded.
LEMMA BackupDoes ==
  ASSUME ReceiptTyped, ToolTyped, tool.r \in Receipts, session \in {"none", "prior"}, Backup
  PROVE  /\ ReceiptTyped' /\ receipt'[tool.r].phase = "backup-complete"
         /\ receipt'[tool.r].backup = TRUE
         /\ receipt'[tool.r].gateway = session
         /\ receipt'[tool.r].plan = receipt[tool.r].plan
         /\ receipt'[tool.r].lower = receipt[tool.r].lower
         /\ receipt'[tool.r].upper = receipt[tool.r].upper
         /\ receipt'[tool.r].base = receipt[tool.r].base
         /\ \A q \in Receipts \ {tool.r} : receipt'[q] = receipt[q]
         /\ ToolTyped' /\ tool'.pc = "recheck" /\ tool'.backup = TRUE
         /\ tool'.cmd = tool.cmd /\ tool'.r = tool.r /\ tool'.plan = tool.plan
         /\ tool'.todo = tool.todo /\ tool'.at = tool.at
         /\ tool'.upper = tool.upper /\ tool'.captured = tool.captured
<1>1. /\ ReceiptTyped' /\ receipt'[tool.r].phase = "backup-complete"
      /\ receipt'[tool.r].backup = TRUE /\ receipt'[tool.r].gateway = session
  BY DEF Backup, ReceiptTyped, Receipt, Phases, EarlyPhases
  <1>2. /\ receipt'[tool.r].plan = receipt[tool.r].plan
        /\ receipt'[tool.r].lower = receipt[tool.r].lower
        /\ receipt'[tool.r].upper = receipt[tool.r].upper
        /\ receipt'[tool.r].base = receipt[tool.r].base
        /\ \A q \in Receipts \ {tool.r} : receipt'[q] = receipt[q]
  BY DEF Backup, ReceiptTyped, Receipt
  <1>3. /\ ToolTyped' /\ tool'.pc = "recheck" /\ tool'.backup = TRUE /\ tool'.cmd = tool.cmd
        /\ tool'.r = tool.r /\ tool'.plan = tool.plan /\ tool'.todo = tool.todo
        /\ tool'.at = tool.at /\ tool'.upper = tool.upper /\ tool'.captured = tool.captured
  BY DEF Backup, ToolTyped, Tool, Steps, PrepareSteps, StoppedSteps
  <1> QED
    BY <1>1, <1>2, <1>3

\* prepare opens its window.
LEMMA OpenWindowDoes ==
  ASSUME ReceiptTyped, ToolTyped, tool.r \in Receipts, OpenWindow,
         Lower \in 0..N, Upper(Lower) \in 0..N, Window(Lower, Upper(Lower)) \subseteq Posts
  PROVE  /\ ReceiptTyped' /\ receipt'[tool.r].phase = "gap-reconciling"
         /\ receipt'[tool.r].lower = Lower
         /\ receipt'[tool.r].upper = Upper(Lower)
         /\ receipt'[tool.r].plan = receipt[tool.r].plan
         /\ receipt'[tool.r].backup = receipt[tool.r].backup
         /\ receipt'[tool.r].gateway = receipt[tool.r].gateway
         /\ receipt'[tool.r].base = receipt[tool.r].base
         /\ \A q \in Receipts \ {tool.r} : receipt'[q] = receipt[q]
         /\ ToolTyped' /\ tool'.pc = "reconcile"
         /\ tool'.todo = Window(Lower, Upper(Lower)) /\ tool'.cmd = tool.cmd
         /\ tool'.r = tool.r /\ tool'.plan = tool.plan /\ tool'.at = tool.at
         /\ tool'.upper = tool.upper /\ tool'.backup = tool.backup
         /\ tool'.captured = tool.captured
<1>1. /\ ReceiptTyped' /\ receipt'[tool.r].phase = "gap-reconciling"
      /\ receipt'[tool.r].lower = Lower /\ receipt'[tool.r].upper = Upper(Lower)
  BY DEF OpenWindow, ReceiptTyped, Receipt, Phases, EarlyPhases
  <1>2. /\ receipt'[tool.r].plan = receipt[tool.r].plan
        /\ receipt'[tool.r].backup = receipt[tool.r].backup
        /\ receipt'[tool.r].gateway = receipt[tool.r].gateway
        /\ receipt'[tool.r].base = receipt[tool.r].base
        /\ \A q \in Receipts \ {tool.r} : receipt'[q] = receipt[q]
  BY DEF OpenWindow, ReceiptTyped, Receipt
  <1>3. /\ ToolTyped' /\ tool'.pc = "reconcile" /\ tool'.todo = Window(Lower, Upper(Lower))
        /\ tool'.cmd = tool.cmd /\ tool'.r = tool.r /\ tool'.plan = tool.plan
        /\ tool'.at = tool.at /\ tool'.upper = tool.upper /\ tool'.backup = tool.backup
        /\ tool'.captured = tool.captured
  BY DEF OpenWindow, ToolTyped, Tool, Steps, PrepareSteps, StoppedSteps
  <1> QED
    BY <1>1, <1>2, <1>3

\* A baseline is frozen.
LEMMA BaseDoes ==
  ASSUME ReceiptTyped, NEW r \in Receipts, NEW p \in Phases, Baseline(rows) \in Bases,
         receipt' = [receipt EXCEPT ![r].phase = p, ![r].base = Baseline(rows)]
  PROVE  /\ ReceiptTyped' /\ receipt'[r].phase = p
         /\ receipt'[r].base = Baseline(rows)
         /\ receipt'[r].plan = receipt[r].plan
         /\ receipt'[r].backup = receipt[r].backup
         /\ receipt'[r].gateway = receipt[r].gateway
         /\ receipt'[r].lower = receipt[r].lower
         /\ receipt'[r].upper = receipt[r].upper
         /\ \A q \in Receipts \ {r} : receipt'[q] = receipt[q]
  BY DEF ReceiptTyped, Receipt

\* The final boundary is recorded.
LEMMA ReconciledDoes ==
  ASSUME ReceiptTyped, ToolTyped, NEW r \in Receipts, NEW p \in Phases,
         receipt' = [receipt EXCEPT ![r].phase = p, ![r].upper = tool.upper]
  PROVE  /\ ReceiptTyped' /\ receipt'[r].phase = p
         /\ receipt'[r].upper = tool.upper
         /\ receipt'[r].plan = receipt[r].plan
         /\ receipt'[r].backup = receipt[r].backup
         /\ receipt'[r].gateway = receipt[r].gateway
         /\ receipt'[r].lower = receipt[r].lower
         /\ receipt'[r].base = receipt[r].base
         /\ \A q \in Receipts \ {r} : receipt'[q] = receipt[q]
  BY DEF ReceiptTyped, Receipt, ToolTyped, Tool

\* A receipt is closed.
LEMMA RolledBackDoes ==
  ASSUME ReceiptTyped, tool.r \in Receipts, RolledBack
  PROVE  /\ ReceiptTyped' /\ receipt'[tool.r].phase = "rolled-back"
         /\ receipt'[tool.r].backup = FALSE /\ receipt'[tool.r].lower = 0
         /\ \A q \in Receipts \ {tool.r} : receipt'[q] = receipt[q]
  BY NoReceiptTyped DEF RolledBack, ReceiptTyped, Receipt, Phases, FinalPhases, NoReceipt

\* The upper bound and the window are messages.
LEMMA UpperTyped ==
  ASSUME TakeoverTyped, NEW l \in 0..N
  PROVE  Upper(l) \in 0..N /\ Window(l, Upper(l)) \subseteq Posts
  BY TakeoverAssumption DEF TakeoverTyped, OthersTyped, Upper, Window, Posts

\* A set of numbers has a least one, as < is well-founded on them.
LEMMA LeastElement ==
  ASSUME NEW T \in SUBSET Nat, T # {}
  PROVE  \E x \in T : \A y \in T : x <= y
<1> DEFINE below == {pair \in Nat \X Nat : pair[1] < pair[2]}
<1>1. IsWellFoundedOn(below, Nat)
  <2>1. below = OpToRel(<, Nat)
    BY DEF OpToRel
  <2>2. QED
    BY <2>1, NatLessThanWellFounded
<1> HIDE DEF below
<1>2. PICK x \in T : \A y \in T : ~(<<y, x>> \in below)
  BY <1>1, WFMin
<1>3. ASSUME NEW y \in T PROVE x <= y
  <2>1. x \in Nat /\ y \in Nat /\ ~(<<y, x>> \in below)
    BY <1>2
  <2>2. ~(y < x)
    BY <2>1 DEF below
  <2>3. QED
    BY <2>1, <2>2
<1>4. QED
  BY <1>3

\* A bounded set has a greatest one.
LEMMA GreatestElement ==
  ASSUME NEW S \in SUBSET (0..N), S # {}
  PROVE  \E x \in S : \A y \in S : y <= x
<1> DEFINE T == {k \in 0..N : N - k \in S}
<1>1. T \in SUBSET Nat
  BY TakeoverAssumption
<1>2. \A y \in S : N - y \in T
  BY TakeoverAssumption
<1>3. T # {}
  BY <1>2
<1>4. PICK k \in T : \A j \in T : k <= j
  BY <1>1, <1>3, LeastElement
<1>5. N - k \in S
  OBVIOUS
<1>6. ASSUME NEW y \in S PROVE y <= N - k
  <2>1. k <= N - y
    BY <1>2, <1>4
  <2> QED
    BY <2>1, TakeoverAssumption
<1> QED
  BY <1>5, <1>6

\* The newest row of a channel, and the oldest of the newest.
LEMMA NewestIs ==
  ASSUME QueueTyped, NEW c \in Channels
  PROVE  /\ Newest(c) \in 0..N
         /\ \A m \in Present : Channel[m] = c => m <= Newest(c)
         /\ Newest(c) # 0 => Newest(c) \in Present /\ Channel[Newest(c)] = c
<1> DEFINE own == {m \in Present : Channel[m] = c}
<1>1. Present \subseteq 0..N /\ Present \subseteq Posts
  BY TakeoverAssumption DEF Present, Posts
<1>2. CASE own = {}
  <2>1. Newest(c) = 0
    BY <1>2 DEF Newest
  <2> QED
    BY <1>2, <2>1, TakeoverAssumption
<1>3. CASE own # {}
  <2>1. own \in SUBSET (0..N)
    BY <1>1
  <2>2. PICK m \in own : \A n \in own : n <= m
    BY <1>3, <2>1, GreatestElement
  <2>3. Newest(c) = CHOOSE k \in own : \A n \in own : n <= k
    BY <1>3 DEF Newest
  <2>4. Newest(c) \in own /\ \A n \in own : n <= Newest(c)
    BY <2>2, <2>3
  <2> QED
    BY <2>4, <1>1
<1> QED
  BY <1>2, <1>3

\* The lower bound is the oldest of the channels' newest rows.
LEMMA LowerIs ==
  ASSUME QueueTyped
  PROVE  /\ Lower \in 0..N
         /\ \A c \in Channels : Lower <= Newest(c)
<1> DEFINE all == {Newest(c) : c \in Channels}
<1>1. all \in SUBSET Nat /\ all \subseteq 0..N
  BY NewestIs, TakeoverAssumption
<1>2. all # {}
  BY TakeoverAssumption
<1>3. PICK n \in all : \A k \in all : n <= k
  BY <1>1, <1>2, LeastElement
<1>4. n \in all /\ \A c \in Channels : n <= Newest(c)
  BY <1>3
<1>5. Lower \in all /\ \A c \in Channels : Lower <= Newest(c)
  BY <1>4 DEF Lower
<1> QED
  BY <1>1, <1>5

\* Every window is within the messages.
LEMMA WindowBounds ==
  ASSUME TakeoverTyped
  PROVE  /\ Lower \in 0..N
         /\ \A l \in 0..N : Upper(l) \in 0..N /\ Window(l, Upper(l)) \subseteq Posts
  BY UpperTyped, LowerIs DEF TakeoverTyped

\* The same of the final window.
LEMMA ReopenDoes ==
  ASSUME TakeoverTyped, tool.r \in Receipts, ReopenWindow
  PROVE  /\ ToolTyped' /\ tool'.pc = "reconcile"
         /\ tool'.upper = Upper(receipt[tool.r].lower)
         /\ tool'.todo = Window(receipt[tool.r].lower, Upper(receipt[tool.r].lower))
         /\ tool'.cmd = tool.cmd /\ tool'.r = tool.r /\ tool'.plan = tool.plan
         /\ tool'.at = tool.at /\ tool'.backup = tool.backup
         /\ tool'.captured = tool.captured
<1>1. receipt[tool.r].lower \in 0..N
  BY DEF TakeoverTyped, ReceiptTyped, Receipt
<1> QED
  BY <1>1, ReopenWindowDoes, UpperTyped DEF TakeoverTyped, ToolTyped, ReceiptTyped

\* What an update leaves of a row.
LEMMA RowSteps ==
  /\ \A x \in Row, st \in RowState, op \in {"none", "known", "unknown"} :
        /\ [x EXCEPT !.state = st] \in Row
        /\ [x EXCEPT !.state = st, !.op = op] \in Row
        /\ [x EXCEPT !.acked = TRUE] \in Row
  /\ {"absent", "received", "claimed", "dispatched", "spawned", "done", "errored"} \subseteq RowState
  BY DEF Row, RowState, Ended

\* Every step keeps the command typed.
LEMMA ToolTyping ==
  ASSUME TakeoverTyped, StepsFit, SessionFits, TakeoverNext
  PROVE  ToolTyped'
<1> USE TakeoverAssumption, NoCommandTyped DEF SessionFits, TakeoverTyped, At, Steps,
        PrepareSteps, FinishSteps, RollbackSteps, StopSteps, StoppedSteps, ToolTyped,
        StepsFit, discordVars, queueVars, runtimeVars, historyVars
<1>1. ASSUME NEW r \in Receipts, Plan(r) PROVE ToolTyped'
  BY <1>1, PlanDoes DEF Plan
<1>2. ASSUME NEW r \in Receipts, Finalize(r) PROVE ToolTyped'
  BY <1>2, FinalizeDoes DEF Finalize
<1>3. ASSUME NEW r \in Receipts, Abort(r) PROVE ToolTyped'
  BY <1>3, AbortDoes DEF Abort
<1>4. CASE Validate
  BY <1>4, EndsTo, GoesTo DEF Validate
<1>5. CASE StopLegacySession
  BY <1>5, GoesTo DEF StopLegacySession
<1>6. CASE ProveLegacyStopped
  BY <1>6, GoesTo, EndsTo, RaisesTo DEF ProveLegacyStopped
<1>7. CASE Backup
  <2>1. session \in {"none", "prior"} /\ tool.r \in Receipts
    BY <1>7 DEF Backup, RuntimesTyped
  <2> QED
    BY <1>7, <2>1, BackupDoes
<1>8. CASE Authorize
  BY <1>8, GoesTo, EndsTo, RaisesTo DEF Authorize
<1>9. CASE Quarantine
  BY <1>9, GoesTo, EndsTo, RaisesTo DEF Quarantine
<1>10. CASE OpenWindow
  BY <1>10, OpenWindowDoes, WindowBounds DEF OpenWindow
<1>11. CASE ResetGateway
  BY <1>11, GoesTo DEF ResetGateway
<1>12. CASE MarkFresh
  BY <1>12, GoesTo DEF MarkFresh
<1>13. CASE Prepared
  BY <1>13, EndsTo DEF Prepared
<1>14. ASSUME NEW m \in Posts, Reconcile(m) PROVE ToolTyped'
  BY <1>14, GoesTo, EndsTo, RaisesTo, ReconcileDoes DEF Reconcile
<1>15. CASE Acknowledge
  BY <1>15, AcknowledgeDoes DEF Acknowledge
<1>16. CASE ReopenWindow
  BY <1>16, ReopenDoes, WindowBounds DEF ReopenWindow
<1>17. CASE Reconciled
  BY <1>17, GoesTo DEF Reconciled
<1>18. CASE IssueDrain
  BY <1>18, GoesTo DEF IssueDrain
<1>19. CASE DrainAnswers
  BY <1>19, GoesTo DEF DrainAnswers
<1>20. CASE CheckBacklog
  BY <1>20, GoesTo, EndsTo, RaisesTo DEF CheckBacklog
<1>21. CASE Commit
  BY <1>21, EndsTo DEF Commit
<1>22. CASE CaptureReplacement
  <2>1. repl.up \in BOOLEAN
    BY DEF RuntimesTyped
  <2> QED
    BY <1>22, <2>1, CaptureDoes
<1>23. CASE StopReplacementSession
  BY <1>23, GoesTo, EndsTo, RaisesTo DEF StopReplacementSession
<1>24. CASE Restore
  BY <1>24, GoesTo DEF Restore, Session
<1>25. CASE RestartLegacy
  BY <1>25, GoesTo DEF RestartLegacy
<1>26. CASE RolledBack
  BY <1>26, EndsTo DEF RolledBack
<1>27. CASE Fails
  BY <1>27, GoesTo, EndsTo, RaisesTo DEF Fails, Fault, RollingBack
<1>28. CASE Killed
  BY <1>28, EndsTo DEF Killed, Fault
<1>29. CASE UNCHANGED tool
  BY <1>29
<1> QED
  BY <1>1, <1>2, <1>3, <1>4, <1>5, <1>6, <1>7, <1>8, <1>9, <1>10, <1>11, <1>12, <1>13,
     <1>14, <1>15, <1>16, <1>17, <1>18, <1>19, <1>20, <1>21, <1>22, <1>23, <1>24, <1>25,
     <1>26, <1>27, <1>28, <1>29 DEF TakeoverNext, Command, Prepare, Finish, RollBack,
     Runtimes, discordVars, queueVars, runtimeVars, historyVars, Begin, StopLabel,
     UnloadReplacement, LegacyStarts, LegacyStops, LegacyMisses, LegacyReceives,
     LegacyWorks, InstallerLoads, ReplacementStarts, ReplacementStops, ReplacementMisses,
     ReplacementConnects, ReplacementReceives, ReplacementWorks, Post, Edit

\* Every step keeps the receipts typed.
LEMMA ReceiptTyping ==
  ASSUME TakeoverTyped, StepsFit, SessionFits, TakeoverNext
  PROVE  ReceiptTyped'
<1> USE TakeoverAssumption, NoCommandTyped DEF TakeoverTyped, At, Phases, EarlyPhases,
        StartedPhases, FinalPhases, StepsFit, ReceiptTyped, SessionFits, discordVars,
        queueVars, runtimeVars, historyVars
<1>1. ASSUME NEW r \in Receipts, Begin(r) PROVE ReceiptTyped'
  BY <1>1, BaseDoes, QueuePlans DEF Begin
<1>2. ASSUME NEW r \in Receipts, Abort(r) PROVE ReceiptTyped'
  BY <1>2, PhaseTo DEF Abort
<1>3. CASE Validate
  BY <1>3, ValidateDoes DEF Validate
<1>4. CASE ProveLegacyStopped
  BY <1>4, PhaseTo DEF ProveLegacyStopped
<1>5. CASE Backup
  <2>1. session \in {"none", "prior"} /\ tool.r \in Receipts
    BY <1>5 DEF Backup, RuntimesTyped
  <2> QED
    BY <1>5, <2>1, BackupDoes
<1>6. CASE Authorize
  BY <1>6, PhaseTo DEF Authorize
<1>7. CASE OpenWindow
  BY <1>7, OpenWindowDoes, WindowBounds DEF OpenWindow
<1>8. CASE ResetGateway
  BY <1>8, BaseDoes, QueuePlans DEF ResetGateway
<1>9. CASE Prepared
  BY <1>9, PhaseTo DEF Prepared
<1>10. CASE Reconciled
  BY <1>10, ReconciledDoes DEF Reconciled
<1>11. CASE IssueDrain
  BY <1>11, PhaseTo DEF IssueDrain
<1>12. CASE Commit
  BY <1>12, PhaseTo DEF Commit
<1>13. CASE RolledBack
  BY <1>13, RolledBackDoes DEF RolledBack
<1>14. CASE Fails
  BY <1>14, PhaseTo DEF Fails, Fault, RollingBack
<1>15. CASE UNCHANGED receipt
  BY <1>15
<1> QED
  BY <1>1, <1>2, <1>3, <1>4, <1>5, <1>6, <1>7, <1>8, <1>9, <1>10, <1>11, <1>12, <1>13,
     <1>14, <1>15 DEF TakeoverNext, Command, Prepare, Finish, RollBack, Runtimes,
     discordVars, queueVars, runtimeVars, historyVars, Plan, Finalize, StopLabel,
     StopLegacySession, Quarantine, MarkFresh, Reconcile, Acknowledge, ReopenWindow,
     DrainAnswers, CheckBacklog, CaptureReplacement, UnloadReplacement,
     StopReplacementSession, Restore, RestartLegacy, Killed, LegacyStarts, LegacyStops,
     LegacyMisses, LegacyReceives, LegacyWorks, InstallerLoads, ReplacementStarts,
     ReplacementStops, ReplacementMisses, ReplacementConnects, ReplacementReceives,
     ReplacementWorks, Post, Edit

\* What the steps do to the rows.
LEMMA WorkedTo ==
  ASSUME QueueTyped, NEW m \in Posts, NEW ops \in SUBSET {"none", "known", "unknown"},
         Worked(m, ops)
  PROVE  /\ rows' \in [Posts -> Row]
         /\ \A n \in Posts \ {m} : rows'[n] = rows[n]
         /\ \/ rows[m].state = "received" /\ rows'[m].state = "claimed"
            \/ rows[m].state = "claimed" /\ rows'[m].state = "dispatched"
            \/ rows[m].state = "dispatched" /\ rows'[m].state = "spawned"
            \/ rows[m].state = "spawned" /\ rows'[m].state = "done"
<1>1. ASSUME NEW x \in Row PROVE rows' = [rows EXCEPT ![m] = x] => rows' \in [Posts -> Row]
  BY <1>1 DEF QueueTyped
<1>2. CASE rows[m].state = "received"
  <2>1. PICK op \in ops : rows' = [rows EXCEPT ![m].state = "claimed", ![m].op = op]
    BY <1>2 DEF Worked
  <2>2. [rows[m] EXCEPT !.state = "claimed", !.op = op] \in Row
    BY RowSteps DEF QueueTyped
  <2>3. rows' = [rows EXCEPT ![m] = [rows[m] EXCEPT !.state = "claimed", !.op = op]]
    BY <2>1 DEF QueueTyped, Row
  <2>4. rows' \in [Posts -> Row] /\ \A n \in Posts \ {m} : rows'[n] = rows[n]
    BY <2>2, <2>3, <1>1 DEF QueueTyped
  <2>5. rows'[m].state = "claimed"
    BY <2>3 DEF QueueTyped, Row
  <2> QED
    BY <1>2, <2>4, <2>5
<1>3. CASE rows[m].state = "claimed"
  <2>1. rows' = [rows EXCEPT ![m].state = "dispatched", ![m].op = "none"]
    BY <1>3 DEF Worked
  <2>2. [rows[m] EXCEPT !.state = "dispatched", !.op = "none"] \in Row
    BY RowSteps DEF QueueTyped
  <2>3. rows' = [rows EXCEPT ![m] = [rows[m] EXCEPT !.state = "dispatched", !.op = "none"]]
    BY <2>1 DEF QueueTyped, Row
  <2>4. rows' \in [Posts -> Row] /\ \A n \in Posts \ {m} : rows'[n] = rows[n]
    BY <2>2, <2>3, <1>1 DEF QueueTyped
  <2>5. rows'[m].state = "dispatched"
    BY <2>3 DEF QueueTyped, Row
  <2> QED
    BY <1>3, <2>4, <2>5
<1>4. ASSUME NEW s \in {"dispatched", "spawned"}, rows[m].state = s,
             NEW u \in {"spawned", "done"}, rows' = [rows EXCEPT ![m].state = u]
      PROVE  /\ rows' \in [Posts -> Row] /\ rows'[m].state = u
             /\ \A n \in Posts \ {m} : rows'[n] = rows[n]
  <2>1. [rows[m] EXCEPT !.state = u] \in Row
    BY RowSteps DEF QueueTyped
  <2>2. rows' = [rows EXCEPT ![m] = [rows[m] EXCEPT !.state = u]]
    BY <1>4 DEF QueueTyped, Row
  <2> QED
    BY <2>1, <2>2, <1>1 DEF QueueTyped, Row
<1>5. CASE rows[m].state = "dispatched"
  BY <1>5, <1>4 DEF Worked
<1>6. CASE rows[m].state = "spawned"
  BY <1>6, <1>4 DEF Worked
<1> QED
  BY <1>2, <1>3, <1>5, <1>6 DEF Worked

\* A message that a listener enqueues is received, or its row stays.
LEMMA EnqueuedTo ==
  ASSUME QueueTyped, NEW m \in Posts, Enqueued(m)
  PROVE  /\ rows' \in [Posts -> Row]
         /\ \A n \in Posts \ {m} : rows'[n] = rows[n]
         /\ rows[m] = NoRow => rows'[m].state = "received"
         /\ rows[m] # NoRow => rows'[m] = rows[m]
<1>1. /\ [NewRow EXCEPT !.acked = TRUE] \in Row
      /\ [NewRow EXCEPT !.acked = TRUE].state = "received"
  BY RowKinds, RowSteps DEF NewRow, Row
<1>2. rows' = [rows EXCEPT ![m] = IF rows[m] = NoRow THEN [NewRow EXCEPT !.acked = TRUE] ELSE rows[m]]
  BY DEF Enqueued, QueueTyped
<1> QED
  BY <1>1, <1>2 DEF QueueTyped

\* A reconciled message is received, or its row stays.
LEMMA ReconciledRowTo ==
  ASSUME QueueTyped, NEW m \in Posts, rows' = [rows EXCEPT ![m] = IF @ = NoRow THEN NewRow ELSE @]
  PROVE  /\ rows' \in [Posts -> Row]
         /\ \A n \in Posts \ {m} : rows'[n] = rows[n]
         /\ rows[m] = NoRow => rows'[m].state = "received"
         /\ rows[m] # NoRow => rows'[m] = rows[m]
<1>1. rows' = [rows EXCEPT ![m] = IF rows[m] = NoRow THEN NewRow ELSE rows[m]]
  BY DEF QueueTyped
<1>2. NewRow \in Row /\ NewRow.state = "received"
  BY RowKinds DEF NewRow
<1> QED
  BY <1>1, <1>2 DEF QueueTyped

\* An acknowledgment leaves the state.
LEMMA AcknowledgedTo ==
  ASSUME QueueTyped, NEW m \in Posts, rows' = [rows EXCEPT ![m].acked = TRUE]
  PROVE  /\ rows' \in [Posts -> Row]
         /\ \A n \in Posts : rows'[n].state = rows[n].state
         /\ \A n \in Posts \ {m} : rows'[n] = rows[n]
<1>1. rows' = [rows EXCEPT ![m] = [rows[m] EXCEPT !.acked = TRUE]]
  BY DEF QueueTyped, Row
<1>2. [rows[m] EXCEPT !.acked = TRUE] \in Row
  BY RowSteps DEF QueueTyped
<1>3. [rows[m] EXCEPT !.acked = TRUE].state = rows[m].state
  BY DEF QueueTyped, Row
<1> QED
  BY <1>1, <1>2, <1>3 DEF QueueTyped

Doubtful == {m \in Nonterminal : Ambiguous(rows[m])}

\* The doubtful rows are set aside, or the command fails.
LEMMA QuarantineDoes ==
  ASSUME QueueTyped, tool.r \in Receipts, Quarantine
  PROVE  \/ Raises /\ rows' = rows /\ quarantine' = quarantine
         \/ /\ \A m \in Doubtful : quarantine[m].by = NoTakeover
            /\ Goes("window") /\ UNCHANGED installer
            /\ rows' \in [Posts -> Row]
            /\ quarantine' \in [Posts -> [by : Receipts \cup {NoTakeover}, row : Row]]
            /\ \A m \in Doubtful : /\ quarantine'[m].by = tool.r
                                   /\ quarantine'[m].row = rows[m]
                                   /\ rows'[m].state = "errored"
            /\ \A m \in Posts \ Doubtful : rows'[m] = rows[m] /\ quarantine'[m] = quarantine[m]
<1>1. Doubtful \subseteq Posts
  BY DEF Doubtful, Nonterminal, Present
<1>2. CASE Blockers # {} \/ {m \in Doubtful : quarantine[m].by # NoTakeover} # {}
  BY <1>2 DEF Quarantine, Doubtful
<1>3. CASE ~(Blockers # {} \/ {m \in Doubtful : quarantine[m].by # NoTakeover} # {})
  <2>1. /\ quarantine' = [m \in Posts |->
              IF m \in Doubtful THEN [by |-> tool.r, row |-> rows[m]] ELSE quarantine[m]]
        /\ rows' = [m \in Posts |->
              IF m \in Doubtful THEN [rows[m] EXCEPT !.state = "errored"] ELSE rows[m]]
        /\ Goes("window") /\ UNCHANGED installer
    BY <1>3 DEF Quarantine, Doubtful
  <2>2. \A m \in Posts : [rows[m] EXCEPT !.state = "errored"] \in Row
    BY RowSteps DEF QueueTyped
  <2>3. \A m \in Posts : [rows[m] EXCEPT !.state = "errored"].state = "errored"
    BY DEF QueueTyped, Row
  <2>4. rows' \in [Posts -> Row]
    BY <2>1, <2>2 DEF QueueTyped
  <2>5. quarantine' \in [Posts -> [by : Receipts \cup {NoTakeover}, row : Row]]
    BY <2>1 DEF QueueTyped
  <2>6. ASSUME NEW m \in Doubtful
        PROVE  /\ quarantine'[m].by = tool.r /\ quarantine'[m].row = rows[m]
               /\ rows'[m].state = "errored"
    BY <1>1, <2>1, <2>3
  <2>7. ASSUME NEW m \in Posts \ Doubtful
        PROVE  rows'[m] = rows[m] /\ quarantine'[m] = quarantine[m]
    BY <2>1
  <2>8. \A m \in Doubtful : quarantine[m].by = NoTakeover
    BY <1>3
  <2> QED
    BY <2>1, <2>4, <2>5, <2>6, <2>7, <2>8
<1> QED
  BY <1>2, <1>3

Mine == {m \in Posts : quarantine[m].by = tool.r}
Restores == tool.cmd = "abort" \/ tool.backup

\* The rows that were set aside are put back.
LEMMA RestoreDoes ==
  ASSUME QueueTyped, Restore
  PROVE  /\ rows' \in [Posts -> Row]
         /\ quarantine' \in [Posts -> [by : Receipts \cup {NoTakeover}, row : Row]]
         /\ Restores => /\ \A m \in Mine : /\ rows'[m] = quarantine[m].row
                                           /\ quarantine'[m].by = NoTakeover
                        /\ \A m \in Posts \ Mine : /\ rows'[m] = rows[m]
                                                   /\ quarantine'[m] = quarantine[m]
                        /\ session' = IF receipt[tool.r].backup THEN Session(tool.r) ELSE session
         /\ ~Restores => rows' = rows /\ quarantine' = quarantine /\ session' = session
<1>1. CASE ~Restores
  BY <1>1 DEF Restore, Restores, QueueTyped
<1>2. CASE Restores
  <2>1. /\ rows' = [m \in Posts |-> IF m \in Mine THEN quarantine[m].row ELSE rows[m]]
        /\ quarantine' = [m \in Posts |->
             IF m \in Mine THEN [by |-> NoTakeover, row |-> NoRow] ELSE quarantine[m]]
        /\ session' = IF receipt[tool.r].backup THEN Session(tool.r) ELSE session
    BY <1>2 DEF Restore, Restores, Mine
  <2>2. rows' \in [Posts -> Row]
    BY <2>1 DEF QueueTyped
  <2>3. quarantine' \in [Posts -> [by : Receipts \cup {NoTakeover}, row : Row]]
    BY <2>1, RowKinds DEF QueueTyped
  <2>4. \A m \in Mine : rows'[m] = quarantine[m].row /\ quarantine'[m].by = NoTakeover
    BY <2>1 DEF Mine
  <2>5. \A m \in Posts \ Mine : rows'[m] = rows[m] /\ quarantine'[m] = quarantine[m]
    BY <2>1
  <2> QED
    BY <1>2, <2>1, <2>2, <2>3, <2>4, <2>5
<1> QED
  BY <1>1, <1>2

\* Every step keeps the queue typed.
LEMMA QueueTyping ==
  ASSUME TakeoverTyped, StepsFit, TakeoverNext
  PROVE  QueueTyped'
<1> USE TakeoverAssumption, NoCommandTyped DEF QueueTyped, OthersTyped, RuntimesTyped, At,
        TakeoverTyped, Posts, Text, StepsFit, discordVars, queueVars, runtimeVars,
        historyVars
<1>1. CASE Quarantine
  BY <1>1, QuarantineDoes DEF Quarantine
<1>2. ASSUME NEW m \in Posts, Reconcile(m) PROVE QueueTyped'
  BY <1>2, ReconciledRowTo DEF Reconcile
<1>3. CASE Acknowledge
  BY <1>3, AcknowledgedTo DEF Acknowledge
<1>4. CASE Restore
  BY <1>4, RestoreDoes DEF Restore
<1>5. CASE LegacyReceives
  <2>1. legacy.seen + 1 \in Posts
    BY <1>5 DEF LegacyReceives
  <2>2. Enqueued(legacy.seen + 1) /\ UNCHANGED <<quarantine, recorded>>
    BY <1>5 DEF LegacyReceives
  <2>3. rows' \in [Posts -> Row]
    BY <2>1, <2>2, EnqueuedTo
  <2> QED
    BY <2>2, <2>3
<1>6. ASSUME NEW m \in Posts, LegacyWorks(m) PROVE QueueTyped'
  BY <1>6, WorkedTo DEF LegacyWorks
<1>7. CASE ReplacementReceives
  <2>1. repl.seen + 1 \in Posts
    BY <1>7 DEF ReplacementReceives
  <2>2. Enqueued(repl.seen + 1) /\ UNCHANGED <<quarantine, recorded>>
    BY <1>7 DEF ReplacementReceives
  <2>3. rows' \in [Posts -> Row]
    BY <2>1, <2>2, EnqueuedTo
  <2> QED
    BY <2>2, <2>3
<1>8. ASSUME NEW m \in Posts, ReplacementWorks(m) PROVE QueueTyped'
  BY <1>8, WorkedTo DEF ReplacementWorks
<1>9. CASE UNCHANGED <<rows, quarantine, recorded>>
  BY <1>9
<1> QED
  BY <1>1, <1>2, <1>3, <1>4, <1>5, <1>6, <1>7, <1>8, <1>9 DEF TakeoverNext, Command,
     Prepare, Finish, RollBack, Runtimes, discordVars, queueVars, runtimeVars,
     historyVars, Plan, Begin, Finalize, Abort, Validate, StopLabel, StopLegacySession,
     ProveLegacyStopped, Backup, Authorize, OpenWindow, ResetGateway, MarkFresh, Prepared,
     ReopenWindow, Reconciled, IssueDrain, DrainAnswers, CheckBacklog, Commit,
     CaptureReplacement, UnloadReplacement, StopReplacementSession, RestartLegacy,
     RolledBack, Fails, Killed, LegacyStarts, LegacyStops, LegacyMisses, InstallerLoads,
     ReplacementStarts, ReplacementStops, ReplacementMisses, ReplacementConnects, Post,
     Edit

\* Every step keeps the runtimes typed.
LEMMA RuntimesTyping ==
  ASSUME TakeoverTyped, StepsFit, TakeoverNext
  PROVE  RuntimesTyped'
<1> USE TakeoverAssumption DEF OthersTyped, Posts, RuntimesTyped, Services, At,
        TakeoverTyped, Enqueued, discordVars, queueVars, runtimeVars, historyVars
<1>1. ASSUME NEW s \in Services, StopLabel(s) PROVE RuntimesTyped'
  BY <1>1 DEF StopLabel
<1>2. CASE StopLegacySession
  BY <1>2 DEF StopLegacySession
<1>3. CASE MarkFresh
  BY <1>3 DEF MarkFresh
<1>4. ASSUME NEW s \in Services, UnloadReplacement(s) PROVE RuntimesTyped'
  BY <1>4 DEF UnloadReplacement
<1>5. CASE StopReplacementSession
  BY <1>5 DEF StopReplacementSession
<1>6. CASE Restore
  BY <1>6 DEF Restore, Session
<1>7. CASE RestartLegacy
  BY <1>7 DEF RestartLegacy, Listening
<1>8. CASE Fails
  BY <1>8 DEF Fails, Fault, RollingBack
<1>9. CASE LegacyStarts
  BY <1>9 DEF LegacyStarts, Listening
<1>17. CASE LegacyStops
  BY <1>17 DEF LegacyStops, Fault
<1>18. CASE LegacyMisses
  BY <1>18 DEF LegacyMisses, Fault
<1>10. CASE LegacyReceives
  BY <1>10 DEF LegacyReceives, Enqueued
<1>11. ASSUME NEW s \in Services, InstallerLoads(s) PROVE RuntimesTyped'
  BY <1>11 DEF InstallerLoads
<1>12. CASE ReplacementStarts
  BY <1>12 DEF ReplacementStarts, Listening
<1>13. CASE ReplacementStops
  BY <1>13 DEF ReplacementStops, Fault
<1>19. CASE ReplacementMisses
  BY <1>19 DEF ReplacementMisses, Fault
<1>14. CASE ReplacementConnects
  BY <1>14 DEF ReplacementConnects
<1>15. CASE ReplacementReceives
  BY <1>15 DEF ReplacementReceives, Enqueued
<1>16. CASE UNCHANGED <<legacy, repl, session>>
  BY <1>16
<1> QED
  BY <1>1, <1>2, <1>3, <1>4, <1>5, <1>6, <1>7, <1>8, <1>9, <1>10, <1>11, <1>12, <1>13,
     <1>14, <1>15, <1>16, <1>17, <1>18, <1>19 DEF TakeoverNext, Command, Prepare, Finish,
     RollBack, Runtimes, discordVars, queueVars, runtimeVars, historyVars, Plan, Begin,
     Finalize, Abort, Validate, ProveLegacyStopped, Backup, Authorize, Quarantine, OpenWindow, ResetGateway,
     Prepared, Reconcile, Acknowledge, ReopenWindow, Reconciled, IssueDrain, DrainAnswers,
     CheckBacklog, Commit, CaptureReplacement, RolledBack, Killed, LegacyWorks,
     ReplacementWorks, Post, Edit

\* Every step keeps the rest typed.
LEMMA OthersTyping ==
  ASSUME TakeoverTyped, StepsFit, TakeoverNext
  PROVE  OthersTyped'
<1> USE TakeoverAssumption DEF TakeoverTyped, RuntimesTyped, OthersTyped, At, Raises, Fault,
        Posts, discordVars, queueVars, runtimeVars, historyVars
<1>1. ASSUME NEW r \in Receipts, Plan(r) PROVE OthersTyped'
  BY <1>1 DEF Plan
<1>2. ASSUME NEW r \in Receipts, Begin(r) PROVE OthersTyped'
  BY <1>2 DEF Begin
<1>3. ASSUME NEW r \in Receipts, Abort(r) PROVE OthersTyped'
  BY <1>3 DEF Abort
<1>4. CASE Validate
  BY <1>4 DEF Validate
<1>5. CASE ProveLegacyStopped
  BY <1>5 DEF ProveLegacyStopped
<1>6. CASE Authorize
  BY <1>6 DEF Authorize
<1>7. CASE Quarantine
  BY <1>7 DEF Quarantine
<1>8. ASSUME NEW m \in Posts, Reconcile(m) PROVE OthersTyped'
  BY <1>8 DEF Reconcile
<1>9. CASE CheckBacklog
  BY <1>9 DEF CheckBacklog
<1>10. CASE Commit
  BY <1>10 DEF Commit
<1>11. CASE StopReplacementSession
  BY <1>11 DEF StopReplacementSession
<1>12. CASE RolledBack
  BY <1>12 DEF RolledBack
<1>13. CASE Fails
  BY <1>13 DEF Fails, Fault, RollingBack
<1>14. CASE Killed
  BY <1>14 DEF Killed, Fault
<1>15. CASE ReplacementStops
  BY <1>15 DEF ReplacementStops, Fault
<1>16. CASE ReplacementReceives
  BY <1>16 DEF ReplacementReceives, Enqueued
<1>21. CASE LegacyStops
  BY <1>21 DEF LegacyStops, Fault
<1>22. CASE LegacyMisses
  BY <1>22 DEF LegacyMisses, Fault
<1>23. CASE LegacyReceives
  BY <1>23 DEF LegacyReceives, Enqueued
<1>24. CASE ReplacementMisses
  BY <1>24 DEF ReplacementMisses, Fault
<1>17. ASSUME NEW m \in Posts, ReplacementWorks(m) PROVE OthersTyped'
  BY <1>17 DEF ReplacementWorks, Worked
<1>18. CASE Post
  BY <1>18 DEF Post
<1>19. ASSUME NEW m \in Editable, Edit(m) PROVE OthersTyped'
  BY <1>19 DEF Edit
<1>20. CASE UNCHANGED <<posted, edited, installer, accepted, heard, faults>>
  BY <1>20
<1> QED
  BY <1>1, <1>2, <1>3, <1>4, <1>5, <1>6, <1>7, <1>8, <1>9, <1>10, <1>11, <1>12, <1>13,
     <1>14, <1>15, <1>16, <1>17, <1>18, <1>19, <1>20, <1>21, <1>22, <1>23, <1>24
     DEF TakeoverNext, Command, Prepare, Finish, RollBack, Runtimes, discordVars, queueVars,
     runtimeVars, historyVars, Finalize, StopLabel, StopLegacySession, Backup, OpenWindow,
     ResetGateway, MarkFresh, Prepared, Acknowledge, ReopenWindow, Reconciled, IssueDrain,
     DrainAnswers, CaptureReplacement, UnloadReplacement, Restore, RestartLegacy,
     LegacyStarts, LegacyWorks, InstallerLoads, ReplacementStarts, ReplacementConnects

-----------------------------------------------------------------------------
(* The command and the receipts' phases *)

\* The ways in which a step changes them.
Stays == tool' = tool /\ receipt' = receipt /\ installer' = installer
Ended0 == tool' = NoCommand /\ receipt' = receipt /\ installer' = NoTakeover
ToolAt(c, r, p) == tool'.cmd = c /\ tool'.r = r /\ tool'.pc = p
PhaseBecomes(r, p) ==
  /\ receipt'[r].phase = p
  /\ \A q \in Receipts \ {r} : receipt'[q] = receipt[q]
SameBackup == receipt'[tool.r].backup = receipt[tool.r].backup
Working == tool.cmd = "prepare" /\ tool.pc \in PrepareSteps \ {"acknowledged"}
MovesTo(p) ==
  /\ ToolAt(tool.cmd, tool.r, p) /\ tool'.backup = tool.backup
  /\ receipt' = receipt /\ installer' = installer

\* The kinds of phases exclude one another.
LEMMA PhaseSets ==
  /\ EarlyPhases \cap (StartedPhases \cup FinalPhases) = {}
  /\ StartedPhases \cap FinalPhases = {}
  /\ "absent" \notin EarlyPhases \cup StartedPhases \cup FinalPhases
  /\ "prepared" \notin EarlyPhases \cup StartedPhases \cup FinalPhases
  /\ "manual-recovery-required" \notin EarlyPhases \cup StartedPhases \cup FinalPhases
  /\ FinalPhases = {"committed", "rolled-back"}
  /\ Unbacked \ {"absent"} \subseteq EarlyPhases
  BY DEF EarlyPhases, StartedPhases, FinalPhases, Unbacked

\* A command that ends leaves the control as it should be.
LEMMA ControlEnds ==
  ASSUME ControlInv, Ended0
  PROVE  ControlInv'
<1> USE NoCommandTyped DEF ControlInv, Ended0
<1>1. StepsFit'
  BY DEF StepsFit
<1>2. PhasesFit'
  BY DEF PhasesFit, Begun, Finishing, Stopping, Unfinished
<1>3. InstallerFits'
  BY DEF InstallerFits, Preparing, Finishing
<1>4. BackupsFit'
  BY DEF BackupsFit, Preparing, PrepareSteps
<1> QED
  BY <1>1, <1>2, <1>3, <1>4

\* So does a step that is none of its business.
LEMMA ControlStays ==
  ASSUME ControlInv, Stays
  PROVE  ControlInv'
<1> USE DEF ControlInv, Stays
<1>1. StepsFit'
  BY DEF StepsFit
<1>2. PhasesFit'
  BY DEF PhasesFit, Begun, Finishing, Stopping, Unfinished
<1>3. InstallerFits'
  BY DEF InstallerFits, Preparing, Finishing
<1>4. BackupsFit'
  BY DEF BackupsFit, Preparing, PrepareSteps
<1> QED
  BY <1>1, <1>2, <1>3, <1>4

\* A command goes on to another of its steps.
LEMMA ControlMoves ==
  ASSUME ControlInv, NEW p, MovesTo(p),
         \/ /\ Working /\ p \in PrepareSteps \ {"acknowledged"}
            /\ p \in StoppedSteps \ {"backup"} <=> tool.pc \in StoppedSteps \ {"backup"}
         \/ Finishing /\ p \in FinishSteps
         \/ Stopping /\ p \in StopSteps \cup {"restore"}
         \/ tool.cmd \in {"prepare", "abort"} /\ tool.pc \in RollbackSteps /\ p \in RollbackSteps
  PROVE  ControlInv'
<1> USE NoCommandTyped DEF ControlInv, MovesTo, ToolAt
<1>1. tool.r \in Receipts /\ tool # NoCommand
  BY DEF StepsFit, Working, Finishing, Stopping
<1>2. StepsFit'
  BY <1>1 DEF StepsFit, Working, Finishing, Stopping, RollbackSteps
<1>3. PhasesFit'
  BY <1>1 DEF PhasesFit, Begun, Finishing, Stopping, Working, Unfinished, PrepareSteps,
     StoppedSteps, StopSteps, FinishSteps, RollbackSteps
<1>4. InstallerFits'
  BY <1>1 DEF InstallerFits, Preparing, Finishing, Working, Stopping, PrepareSteps,
     StoppedSteps, RollbackSteps, StopSteps
<1>5. BackupsFit'
  BY <1>1 DEF BackupsFit, Preparing, Working, Finishing, Stopping, RollbackSteps,
     PrepareSteps, StoppedSteps
<1> QED
  BY <1>2, <1>3, <1>4, <1>5

\* A step of a command fails.
LEMMA ControlRaises ==
  ASSUME ControlInv, ToolTyped, Raises, receipt' = receipt,
         tool # NoCommand, tool.pc # "acknowledged"
  PROVE  ControlInv'
<1>1. CASE tool.cmd = "prepare"
  <2>1. /\ ToolAt("prepare", tool.r, "restore") /\ tool'.backup = tool.backup
        /\ installer' = NoTakeover
    BY <1>1, RaisesTo, GoesTo DEF Steps, RollbackSteps, ToolAt
  <2> USE <2>1, NoCommandTyped, <1>1 DEF ControlInv, ToolAt
  <2>2. tool.r \in Receipts
    BY DEF StepsFit
  <2>3. StepsFit'
    BY <2>2 DEF StepsFit, RollbackSteps
  <2>4. PhasesFit'
    BY <2>2 DEF PhasesFit, Begun, Finishing, Stopping, Unfinished, StopSteps
  <2>5. InstallerFits'
    BY DEF InstallerFits, Preparing, Finishing, PrepareSteps, StoppedSteps
  <2>6. BackupsFit'
    BY DEF BackupsFit, Preparing, RollbackSteps, PrepareSteps, StoppedSteps
  <2> QED
    BY <2>3, <2>4, <2>5, <2>6
<1>2. CASE tool.cmd # "prepare"
  BY <1>2, RaisesTo, ControlEnds DEF Ends, Ended0
<1> QED
  BY <1>1, <1>2

\* prepare goes on and saves the phase it reached.
LEMMA ControlAdvances ==
  ASSUME ControlInv, ToolTyped, NEW p, p \in PrepareSteps \ {"acknowledged"}, NEW ph \in EarlyPhases,
         Working,
         ToolAt("prepare", tool.r, p), installer' = installer, PhaseBecomes(tool.r, ph),
         ph \in Unbacked => ~receipt'[tool.r].backup,
         ph \notin Unbacked => receipt'[tool.r].backup,
         tool'.backup = receipt'[tool.r].backup,
         tool'.backup <=> p \in StoppedSteps \ {"backup"}
  PROVE  ControlInv'
<1> USE NoCommandTyped, PhaseSets DEF ControlInv, ToolAt, PhaseBecomes, Working
<1>1. tool.r \in Receipts /\ tool # NoCommand
  BY DEF StepsFit
<1>2. StepsFit'
  BY <1>1 DEF StepsFit
<1>3. Unfinished' = Unfinished /\ tool.r \in Unfinished
  BY <1>1 DEF PhasesFit, Begun, Unfinished
<1>4. PhasesFit'
  BY <1>1, <1>3 DEF PhasesFit, Begun, Finishing, Stopping
<1>5. InstallerFits'
  BY <1>1 DEF InstallerFits, Preparing, Finishing
<1>6. BackupsFit'
  BY <1>1 DEF BackupsFit, Preparing, Working, Finishing, Stopping, RollbackSteps,
     PrepareSteps, StoppedSteps
<1> QED
  BY <1>2, <1>4, <1>5, <1>6

\* Every step keeps the control: commands, receipts, installer and backups.
LEMMA ControlStep ==
  ASSUME TakeoverTyped, ControlInv, RuntimeInv, SessionFits, TakeoverNext
  PROVE  ControlInv'
<1> USE NoCommandTyped, PhaseSets DEF At, ToolAt, PhaseBecomes, TakeoverTyped
<1>1. tool # NoCommand => tool.r \in Receipts
  BY DEF ControlInv, StepsFit
<1>2. ASSUME NEW r \in Receipts, Plan(r) PROVE ControlInv'
  <2>1. /\ ToolAt("prepare", r, "acknowledged") /\ tool'.backup = FALSE
        /\ receipt' = receipt /\ installer' = r /\ tool = NoCommand
        /\ Unfinished = {} /\ receipt[r].phase = "absent"
    BY <1>2, PlanDoes DEF Plan
  <2> HIDE DEF At
  <2>2. StepsFit'
    BY <2>1 DEF StepsFit, PrepareSteps
  <2>3. PhasesFit'
    BY <2>1 DEF PhasesFit, Begun, Finishing, Stopping, Unfinished
  <2>4. InstallerFits'
    BY <2>1 DEF InstallerFits, Preparing, Finishing, PrepareSteps
  <2>5. BackupsFit'
    BY <2>1 DEF ControlInv, BackupsFit, Preparing, Finishing, PrepareSteps, StoppedSteps,
       Unbacked, ReceiptTyped, Receipt
  <2> QED
    BY <2>2, <2>3, <2>4, <2>5 DEF ControlInv
<1>3. ASSUME NEW r \in Receipts, Begin(r) PROVE ControlInv'
  <2>1. /\ tool = NoCommand /\ installer = r /\ receipt[r].phase = "prepared"
        /\ PhaseBecomes(r, "replacement-starting") /\ receipt'[r].backup = receipt[r].backup
        /\ tool' = tool /\ installer' = installer
    BY <1>3, BaseDoes, QueuePlans DEF Begin, Phases, StartedPhases
  <2>2. StepsFit'
    BY <2>1 DEF StepsFit
  <2>3. Unfinished' = Unfinished /\ r \in Unfinished
    BY <2>1 DEF Unfinished, StartedPhases
  <2>4. PhasesFit'
    BY <2>1, <2>3 DEF ControlInv, PhasesFit, Begun, Finishing, Stopping
  <2>5. InstallerFits'
    BY <2>1 DEF InstallerFits, Preparing, Finishing
  <2>6. BackupsFit'
    BY <2>1 DEF ControlInv, BackupsFit, Preparing, Finishing, PrepareSteps, StoppedSteps,
       Unbacked, StartedPhases
  <2> QED
    BY <2>2, <2>4, <2>5, <2>6 DEF ControlInv
<1>4. ASSUME NEW r \in Receipts, Finalize(r) PROVE ControlInv'
  <2>1. /\ tool = NoCommand /\ installer = r /\ receipt[r].phase = "replacement-starting"
        /\ ToolAt("finalize", r, "window")
        /\ receipt' = receipt /\ installer' = installer
    BY <1>4, FinalizeDoes DEF Finalize
  <2>2. StepsFit'
    BY <2>1 DEF StepsFit, FinishSteps
  <2>3. PhasesFit'
    BY <2>1 DEF ControlInv, PhasesFit, Begun, Finishing, Stopping, Unfinished, StartedPhases
  <2>4. InstallerFits'
    BY <2>1 DEF InstallerFits, Preparing, Finishing
  <2>5. BackupsFit'
    BY <2>1 DEF ControlInv, BackupsFit, Preparing, Finishing, PrepareSteps, StoppedSteps
  <2> QED
    BY <2>2, <2>3, <2>4, <2>5 DEF ControlInv
<1>5. ASSUME NEW r \in Receipts, Abort(r) PROVE ControlInv'
  <2>1. /\ tool = NoCommand
        /\ receipt[r].phase \in EarlyPhases \cup StartedPhases \cup {"prepared"}
        /\ installer' = NoTakeover
    BY <1>5 DEF Abort
  <2>2. r \in Unfinished
    BY <2>1 DEF Unfinished
  <2>3. CASE AcceptedWork(receipt[r].base) /\ receipt[r].phase \notin EarlyPhases
    <3>1. /\ PhaseBecomes(r, "manual-recovery-required") /\ tool' = tool
          /\ receipt'[r].backup = receipt[r].backup
      BY <1>5, <2>3, PhaseTo DEF Abort, Phases
    <3>2. StepsFit'
      BY <2>1, <3>1 DEF StepsFit
    <3>3. Unfinished' = Unfinished
      BY <2>2, <3>1 DEF Unfinished
    <3>4. PhasesFit'
      BY <2>1, <2>2, <3>1, <3>3 DEF ControlInv, PhasesFit, Begun, Finishing, Stopping
    <3>5. InstallerFits'
      BY <2>1, <3>1 DEF InstallerFits, Preparing, Finishing
    <3>6. BackupsFit'
      BY <2>1, <3>1 DEF ControlInv, BackupsFit, Preparing, Finishing, PrepareSteps,
         StoppedSteps, Unbacked
    <3> QED
      BY <3>2, <3>4, <3>5, <3>6 DEF ControlInv
  <2>4. CASE ~(AcceptedWork(receipt[r].base) /\ receipt[r].phase \notin EarlyPhases)
    <3>1. PICK p \in {"capture", "restore"} :
            /\ p = "capture" <=> receipt[r].phase \in StartedPhases
            /\ tool' = [NoCommand EXCEPT !.cmd = "abort", !.r = r, !.pc = p]
            /\ receipt' = receipt
      BY <1>5, <2>4 DEF Abort
    <3>2. ToolAt("abort", r, p)
      BY <3>1, AbortDoes DEF Steps, StopSteps, RollbackSteps
    <3>3. StepsFit'
      BY <3>1, <3>2 DEF StepsFit, StopSteps, RollbackSteps
    <3>4. PhasesFit'
      BY <2>1, <3>1, <3>2 DEF ControlInv, PhasesFit, Begun, Finishing, Stopping, Unfinished,
         StopSteps
    <3>5. InstallerFits'
      BY <2>1, <3>1, <3>2 DEF InstallerFits, Preparing, Finishing
    <3>6. BackupsFit'
      BY <2>1, <3>1, <3>2 DEF ControlInv, BackupsFit, Preparing, Finishing, PrepareSteps,
         StoppedSteps
    <3> QED
      BY <3>3, <3>4, <3>5, <3>6 DEF ControlInv
  <2> QED
    BY <2>3, <2>4
<1>6. CASE Validate
  <2>1. tool.cmd = "prepare" /\ tool.pc = "acknowledged" /\ tool.r \in Receipts
    BY <1>6, <1>1 DEF Validate
  <2>2. Unfinished = {} /\ receipt[tool.r].phase = "absent" /\ installer = tool.r
        /\ tool.backup = FALSE /\ ~receipt[tool.r].backup
    BY <2>1 DEF ControlInv, PhasesFit, InstallerFits, Preparing, PrepareSteps, BackupsFit,
       Unbacked, ToolTyped, Tool
  <2>3. CASE Ends
    BY <1>6, <2>1, <2>3, ControlEnds, GoesTo DEF Validate, Ended0, Ends, Steps, PrepareSteps
  <2>4. CASE ~Ends
    <3>1. /\ Goes("stop") /\ installer' = installer
          /\ receipt' = [receipt EXCEPT ![tool.r].phase = "legacy-validated",
                                        ![tool.r].plan = tool.plan]
      BY <1>6, <2>4 DEF Validate
    <3>2. ToolAt("prepare", tool.r, "stop") /\ tool'.backup = tool.backup
      BY <2>1, <3>1, GoesTo DEF Steps, PrepareSteps
    <3>3. /\ PhaseBecomes(tool.r, "legacy-validated")
          /\ receipt'[tool.r].backup = receipt[tool.r].backup
      BY <2>1, <3>1, ValidateDoes
    <3>4. StepsFit'
      BY <2>1, <3>2 DEF StepsFit, PrepareSteps
    <3>5. Unfinished' = {tool.r}
      BY <2>1, <2>2, <3>3 DEF Unfinished, EarlyPhases
    <3>6. \A q \in Receipts : receipt'[q].phase # "committed"
      <4>1. ~ReplacementRuns
        BY <1>6, <2>4 DEF Validate
      <4>2. receipt'[tool.r].phase # "committed"
        BY <3>3
      <4>3. \A q \in Receipts : receipt[q].phase # "committed"
        BY <4>1 DEF RuntimeInv, ReplacementRuns, Services
      <4> QED
        BY <4>2, <4>3, <3>3
    <3>7. PhasesFit'
      BY <2>1, <2>2, <3>2, <3>3, <3>5, <3>6 DEF ControlInv, PhasesFit, Begun, Finishing,
         Stopping, EarlyPhases
    <3>8. InstallerFits'
      BY <2>1, <2>2, <3>1, <3>2 DEF InstallerFits, Preparing, Finishing, PrepareSteps
    <3>9. BackupsFit'
      BY <2>1, <2>2, <3>2, <3>3 DEF ControlInv, BackupsFit, Preparing, Finishing,
         PrepareSteps, StoppedSteps, Unbacked
    <3> QED
      BY <3>4, <3>7, <3>8, <3>9 DEF ControlInv
  <2> QED
    BY <2>3, <2>4
<1>7. CASE StopLegacySession
  <2>1. tool.cmd = "prepare" /\ tool.pc = "stop" /\ tool # NoCommand
    BY <1>7 DEF StopLegacySession
  <2>2. MovesTo("prove")
    BY <1>7, <2>1, GoesTo DEF StopLegacySession, MovesTo, Steps, PrepareSteps, StoppedSteps,
       FinishSteps, StopSteps, RollbackSteps
  <2> QED
    BY <2>1, <2>2, ControlMoves DEF Working, Finishing, Stopping, PrepareSteps,
       StoppedSteps, FinishSteps, StopSteps, RollbackSteps
<1>8. CASE ProveLegacyStopped
  <2>1. tool.cmd = "prepare" /\ tool.pc = "prove" /\ tool.r \in Receipts /\ tool # NoCommand
    BY <1>8, <1>1 DEF ProveLegacyStopped
  <2>2. tool.backup = receipt[tool.r].backup /\ (tool.backup <=> "prove" \in StoppedSteps \ {"backup"})
    BY <2>1 DEF ControlInv, BackupsFit, Preparing, PrepareSteps, StoppedSteps
  <2>3. Working
    BY <2>1 DEF Working, PrepareSteps, StoppedSteps
  <2>4. CASE Raises /\ receipt' = receipt
    BY <2>1, <2>4, ControlRaises
  <2>5. CASE Phase(tool.r, "legacy-quiesced") /\ Goes("backup") /\ installer' = installer
    <3>1. ToolAt("prepare", tool.r, "backup") /\ tool'.backup = tool.backup
      BY <2>1, <2>5, GoesTo DEF Steps, PrepareSteps, StoppedSteps
    <3>2. /\ PhaseBecomes(tool.r, "legacy-quiesced")
          /\ receipt'[tool.r].backup = receipt[tool.r].backup
      BY <2>1, <2>5, PhaseTo DEF Phases, EarlyPhases
    <3> QED
      BY <2>1, <2>2, <2>3, <2>5, <3>1, <3>2, ControlAdvances DEF PrepareSteps, StoppedSteps,
         EarlyPhases, Unbacked
  <2> QED
    BY <1>8, <2>4, <2>5 DEF ProveLegacyStopped
<1>9. CASE Backup
  <2>1. /\ tool.cmd = "prepare" /\ tool.pc = "backup" /\ tool.r \in Receipts
        /\ tool # NoCommand
    BY <1>9, <1>1 DEF Backup
  <2>2. tool.backup = receipt[tool.r].backup /\ (tool.backup <=> "backup" \in StoppedSteps \ {"backup"})
    BY <2>1 DEF ControlInv, BackupsFit, Preparing, PrepareSteps, StoppedSteps
  <2>3. Working
    BY <2>1 DEF Working, PrepareSteps, StoppedSteps
  <2>4. /\ ToolAt("prepare", tool.r, "recheck") /\ PhaseBecomes(tool.r, "backup-complete")
        /\ installer' = installer
        /\ tool'.backup /\ receipt'[tool.r].backup
    BY <1>9, <2>1, BackupDoes DEF Backup, RuntimesTyped, SessionFits
  <2> QED
    BY <2>1, <2>2, <2>3, <2>4, ControlAdvances DEF PrepareSteps, StoppedSteps, EarlyPhases,
       Unbacked
<1>10. CASE Authorize
  <2>1. /\ tool.cmd = "prepare" /\ tool.pc = "recheck" /\ tool.r \in Receipts
        /\ tool # NoCommand
    BY <1>10, <1>1 DEF Authorize
  <2>2. tool.backup = receipt[tool.r].backup /\ (tool.backup <=> "recheck" \in StoppedSteps \ {"backup"})
    BY <2>1 DEF ControlInv, BackupsFit, Preparing, PrepareSteps, StoppedSteps
  <2>3. Working
    BY <2>1 DEF Working, PrepareSteps, StoppedSteps
  <2>4. CASE Raises /\ receipt' = receipt
    BY <2>1, <2>4, ControlRaises
  <2>5. CASE Phase(tool.r, "quarantine-authorized") /\ Goes("quarantine") /\ installer' = installer
    <3>1. ToolAt("prepare", tool.r, "quarantine") /\ tool'.backup = tool.backup
      BY <2>1, <2>5, GoesTo DEF Steps, PrepareSteps, StoppedSteps
    <3>2. /\ PhaseBecomes(tool.r, "quarantine-authorized")
          /\ receipt'[tool.r].backup = receipt[tool.r].backup
      BY <2>1, <2>5, PhaseTo DEF Phases, EarlyPhases
    <3> QED
      BY <2>1, <2>2, <2>3, <2>5, <3>1, <3>2, ControlAdvances DEF PrepareSteps, StoppedSteps,
         EarlyPhases, Unbacked
  <2> QED
    BY <1>10, <2>4, <2>5 DEF Authorize
<1>11. CASE Quarantine
  <2>1. tool.cmd = "prepare" /\ tool.pc = "quarantine" /\ tool # NoCommand
    BY <1>11 DEF Quarantine
  <2>2. CASE Raises /\ receipt' = receipt
    BY <2>1, <2>2, ControlRaises
  <2>3. CASE ~Raises
    <3>1. MovesTo("window")
      BY <1>11, <2>1, <2>3, QuarantineDoes, <1>1, GoesTo DEF Quarantine, MovesTo, Steps,
         PrepareSteps, StoppedSteps
    <3> QED
      BY <2>1, <3>1, ControlMoves DEF Working, Finishing, Stopping, PrepareSteps,
         StoppedSteps, FinishSteps, StopSteps, RollbackSteps
  <2> QED
    BY <1>11, <2>2, <2>3 DEF Quarantine
<1>12. CASE OpenWindow
  <2>1. /\ tool.cmd = "prepare" /\ tool.pc = "window" /\ tool.r \in Receipts
        /\ tool # NoCommand
    BY <1>12, <1>1 DEF OpenWindow
  <2>2. tool.backup = receipt[tool.r].backup /\ (tool.backup <=> "window" \in StoppedSteps \ {"backup"})
    BY <2>1 DEF ControlInv, BackupsFit, Preparing, PrepareSteps, StoppedSteps
  <2>3. Working
    BY <2>1 DEF Working, PrepareSteps, StoppedSteps
  <2>4. /\ ToolAt("prepare", tool.r, "reconcile") /\ PhaseBecomes(tool.r, "gap-reconciling")
        /\ installer' = installer
        /\ tool'.backup = tool.backup /\ receipt'[tool.r].backup = receipt[tool.r].backup
    BY <1>12, <2>1, OpenWindowDoes, WindowBounds DEF OpenWindow
  <2> QED
    BY <2>1, <2>2, <2>3, <2>4, ControlAdvances DEF PrepareSteps, StoppedSteps, EarlyPhases,
       Unbacked
<1>13. CASE ReopenWindow
  <2>1. tool.cmd = "finalize" /\ tool.pc = "window" /\ tool # NoCommand
    BY <1>13 DEF ReopenWindow
  <2>2. MovesTo("reconcile")
    BY <1>13, <2>1, <1>1, ReopenDoes DEF ReopenWindow, MovesTo
  <2> QED
    BY <2>1, <2>2, ControlMoves DEF Working, Finishing, Stopping, PrepareSteps,
       StoppedSteps, FinishSteps, StopSteps, RollbackSteps
<1>14. ASSUME NEW m \in Posts, Reconcile(m) PROVE ControlInv'
  <2>1. tool.cmd \in {"prepare", "finalize"} /\ tool.pc = "reconcile" /\ tool # NoCommand
    BY <1>14 DEF Reconcile, Reconciling
  <2>2. CASE Raises /\ receipt' = receipt
    BY <2>1, <2>2, ControlRaises
  <2>3. CASE ~Raises
    <3>1. MovesTo("reconcile")
      BY <1>14, <2>1, <2>3, ReconcileDoes DEF Reconcile, MovesTo
    <3> QED
      BY <2>1, <3>1, ControlMoves DEF Working, Finishing, Stopping, PrepareSteps,
         StoppedSteps, FinishSteps, StopSteps, RollbackSteps
  <2> QED
    BY <1>14, <2>2, <2>3 DEF Reconcile
<1>15. CASE Acknowledge
  <2>1. tool.cmd \in {"prepare", "finalize"} /\ tool.pc = "reconcile" /\ tool # NoCommand
    BY <1>15 DEF Acknowledge, Reconciling
  <2>2. MovesTo("reconcile")
    BY <1>15, <2>1, AcknowledgeDoes DEF Acknowledge, MovesTo
  <2> QED
    BY <2>1, <2>2, ControlMoves DEF Working, Finishing, Stopping, PrepareSteps,
       StoppedSteps, FinishSteps, StopSteps, RollbackSteps
<1>16. CASE ResetGateway
  <2>1. /\ tool.cmd = "prepare" /\ tool.pc = "reconcile" /\ tool.r \in Receipts
        /\ tool # NoCommand
    BY <1>16, <1>1 DEF ResetGateway
  <2>2. tool.backup = receipt[tool.r].backup /\ (tool.backup <=> "reconcile" \in StoppedSteps \ {"backup"})
    BY <2>1 DEF ControlInv, BackupsFit, Preparing, PrepareSteps, StoppedSteps
  <2>3. Working
    BY <2>1 DEF Working, PrepareSteps, StoppedSteps
  <2>4. /\ ToolAt("prepare", tool.r, "fresh") /\ PhaseBecomes(tool.r, "gateway-resetting")
        /\ installer' = installer
        /\ tool'.backup = tool.backup /\ receipt'[tool.r].backup = receipt[tool.r].backup
    BY <1>16, <2>1, BaseDoes, QueuePlans, GoesTo DEF ResetGateway, Phases, EarlyPhases,
       Steps, PrepareSteps, StoppedSteps
  <2> QED
    BY <2>1, <2>2, <2>3, <2>4, ControlAdvances DEF PrepareSteps, StoppedSteps, EarlyPhases,
       Unbacked
<1>17. CASE MarkFresh
  <2>1. tool.cmd = "prepare" /\ tool.pc = "fresh" /\ tool # NoCommand
    BY <1>17 DEF MarkFresh
  <2>2. MovesTo("prepared")
    BY <1>17, <2>1, GoesTo DEF MarkFresh, MovesTo, Steps, PrepareSteps, StoppedSteps,
       FinishSteps, StopSteps, RollbackSteps
  <2> QED
    BY <2>1, <2>2, ControlMoves DEF Working, Finishing, Stopping, PrepareSteps,
       StoppedSteps, FinishSteps, StopSteps, RollbackSteps
<1>18. CASE DrainAnswers
  <2>1. tool.cmd = "finalize" /\ tool.pc = "drain" /\ tool # NoCommand
    BY <1>18 DEF DrainAnswers
  <2>2. MovesTo("backlog")
    BY <1>18, <2>1, GoesTo DEF DrainAnswers, MovesTo, Steps, PrepareSteps, StoppedSteps,
       FinishSteps, StopSteps, RollbackSteps
  <2> QED
    BY <2>1, <2>2, ControlMoves DEF Working, Finishing, Stopping, PrepareSteps,
       StoppedSteps, FinishSteps, StopSteps, RollbackSteps
<1>19. CASE CheckBacklog
  <2>1. tool.cmd = "finalize" /\ tool.pc = "backlog" /\ tool # NoCommand
    BY <1>19 DEF CheckBacklog
  <2>2. CASE Raises /\ receipt' = receipt
    BY <2>1, <2>2, ControlRaises
  <2>3. CASE ~Raises
    <3>1. MovesTo("commit")
      BY <1>19, <2>1, <2>3, GoesTo DEF CheckBacklog, MovesTo, Steps, PrepareSteps,
         StoppedSteps, FinishSteps, StopSteps, RollbackSteps
    <3> QED
      BY <2>1, <3>1, ControlMoves DEF Working, Finishing, Stopping, PrepareSteps,
         StoppedSteps, FinishSteps, StopSteps, RollbackSteps
  <2> QED
    BY <1>19, <2>2, <2>3 DEF CheckBacklog
<1>20. CASE CaptureReplacement
  <2>1. tool.cmd = "abort" /\ tool.pc = "capture" /\ tool # NoCommand
    BY <1>20 DEF CaptureReplacement
  <2>2. MovesTo("unload")
    BY <1>20, <2>1, CaptureDoes DEF CaptureReplacement, MovesTo, RuntimesTyped
  <2> QED
    BY <2>1, <2>2, ControlMoves DEF Working, Finishing, Stopping, PrepareSteps,
       StoppedSteps, FinishSteps, StopSteps, RollbackSteps
<1>21. CASE StopReplacementSession
  <2>1. tool.cmd = "abort" /\ tool.pc = "unload" /\ tool # NoCommand
    BY <1>21 DEF StopReplacementSession
  <2>2. CASE Raises /\ receipt' = receipt
    BY <2>1, <2>2, ControlRaises
  <2>3. CASE ~Raises
    <3>1. MovesTo("restore")
      BY <1>21, <2>1, <2>3, GoesTo DEF StopReplacementSession, MovesTo, Steps, PrepareSteps,
         StoppedSteps, FinishSteps, StopSteps, RollbackSteps
    <3> QED
      BY <2>1, <3>1, ControlMoves DEF Working, Finishing, Stopping, PrepareSteps,
         StoppedSteps, FinishSteps, StopSteps, RollbackSteps
  <2> QED
    BY <1>21, <2>2, <2>3 DEF StopReplacementSession
<1>22. CASE Restore
  <2>1. tool.cmd \in {"prepare", "abort"} /\ tool.pc = "restore" /\ tool # NoCommand
    BY <1>22 DEF Restore, ControlInv, StepsFit, PrepareSteps, FinishSteps, StopSteps,
       StoppedSteps
  <2>2. MovesTo("restart")
    BY <1>22, <2>1, GoesTo DEF Restore, MovesTo, Steps, PrepareSteps, StoppedSteps,
       FinishSteps, StopSteps, RollbackSteps
  <2> QED
    BY <2>1, <2>2, ControlMoves DEF Working, Finishing, Stopping, PrepareSteps,
       StoppedSteps, FinishSteps, StopSteps, RollbackSteps
<1>23. CASE RestartLegacy
  <2>1. tool.cmd \in {"prepare", "abort"} /\ tool.pc = "restart" /\ tool # NoCommand
    BY <1>23 DEF RestartLegacy, ControlInv, StepsFit, PrepareSteps, FinishSteps, StopSteps,
       StoppedSteps
  <2>2. MovesTo("save")
    BY <1>23, <2>1, GoesTo DEF RestartLegacy, MovesTo, Steps, PrepareSteps, StoppedSteps,
       FinishSteps, StopSteps, RollbackSteps
  <2> QED
    BY <2>1, <2>2, ControlMoves DEF Working, Finishing, Stopping, PrepareSteps,
       StoppedSteps, FinishSteps, StopSteps, RollbackSteps
<1>24. CASE Prepared
  <2>1. tool.cmd = "prepare" /\ tool.pc = "prepared" /\ tool.r \in Receipts
    BY <1>24, <1>1 DEF Prepared
  <2>2. /\ tool' = NoCommand /\ PhaseBecomes(tool.r, "prepared") /\ installer' = installer
        /\ receipt'[tool.r].backup = receipt[tool.r].backup
    BY <1>24, <2>1, PhaseTo DEF Prepared, Ends, Phases
  <2>3. /\ receipt[tool.r].backup /\ installer = tool.r
        /\ receipt[tool.r].phase \in EarlyPhases
    BY <2>1 DEF ControlInv, BackupsFit, Preparing, PrepareSteps, StoppedSteps,
       InstallerFits, PhasesFit, Begun
  <2>4. StepsFit'
    BY <2>2 DEF StepsFit
  <2>5. Unfinished' = Unfinished /\ tool.r \in Unfinished
    BY <2>1, <2>2, <2>3 DEF Unfinished
  <2>6. PhasesFit'
    BY <2>1, <2>2, <2>5 DEF ControlInv, PhasesFit, Begun, Finishing, Stopping
  <2>7. InstallerFits'
    BY <2>2, <2>3 DEF InstallerFits, Preparing, Finishing
  <2>8. BackupsFit'
    BY <2>1, <2>2, <2>3 DEF ControlInv, BackupsFit, Unbacked, Preparing, PrepareSteps
  <2> QED
    BY <2>4, <2>6, <2>7, <2>8 DEF ControlInv
<1>25. CASE Reconciled \/ IssueDrain
  <2>1. tool.cmd = "finalize" /\ tool.r \in Receipts /\ tool # NoCommand
    BY <1>25, <1>1 DEF Reconciled, IssueDrain
  <2>2. PICK p \in {"issue", "drain"}, ph \in StartedPhases :
          /\ ToolAt("finalize", tool.r, p) /\ PhaseBecomes(tool.r, ph)
          /\ receipt'[tool.r].backup = receipt[tool.r].backup /\ installer' = installer
    <3>1. CASE Reconciled
      BY <2>1, <3>1, GoesTo, ReconciledDoes DEF Reconciled, Phases, StartedPhases, Steps,
         FinishSteps
    <3>2. CASE IssueDrain
      BY <2>1, <3>2, GoesTo, PhaseTo DEF IssueDrain, Phases, StartedPhases, Steps,
         FinishSteps
    <3> QED
      BY <1>25, <3>1, <3>2
  <2>3. receipt[tool.r].phase \in StartedPhases
    BY <2>1 DEF ControlInv, PhasesFit, Finishing
  <2>4. StepsFit'
    BY <2>1, <2>2 DEF StepsFit, FinishSteps
  <2>5. Unfinished' = Unfinished /\ tool.r \in Unfinished
    BY <2>1, <2>2, <2>3 DEF Unfinished
  <2>6. PhasesFit'
    BY <2>1, <2>2, <2>5 DEF ControlInv, PhasesFit, Begun, Finishing, Stopping
  <2>7. InstallerFits'
    BY <2>1, <2>2 DEF ControlInv, InstallerFits, Preparing, Finishing
  <2>8. BackupsFit'
    BY <2>1, <2>2, <2>3 DEF ControlInv, BackupsFit, Unbacked, Preparing, StartedPhases
  <2> QED
    BY <2>4, <2>6, <2>7, <2>8 DEF ControlInv
<1>26. CASE Commit
  <2>1. /\ tool.cmd = "finalize" /\ tool.r \in Receipts /\ tool' = NoCommand
        /\ installer' = NoTakeover
    BY <1>26, <1>1 DEF Commit, Ends
  <2>2. CASE receipt' = receipt
    BY <2>1, <2>2, ControlEnds DEF Ended0
  <2>3. CASE Phase(tool.r, "committed")
    <3>1. /\ PhaseBecomes(tool.r, "committed")
          /\ receipt'[tool.r].backup = receipt[tool.r].backup
      BY <2>1, <2>3, PhaseTo DEF Phases, FinalPhases
    <3>2. receipt[tool.r].phase \in StartedPhases
      BY <2>1 DEF ControlInv, PhasesFit, Finishing
    <3>3. StepsFit'
      BY <2>1 DEF StepsFit
    <3>4. Unfinished' = {}
      BY <2>1, <3>1, <3>2 DEF ControlInv, PhasesFit, Unfinished
    <3>5. PhasesFit'
      BY <2>1, <3>4 DEF PhasesFit, Begun, Finishing, Stopping
    <3>6. InstallerFits'
      BY <2>1 DEF InstallerFits, Preparing, Finishing
    <3>7. BackupsFit'
      BY <2>1, <3>1, <3>2 DEF ControlInv, BackupsFit, Unbacked, Preparing, StartedPhases
    <3> QED
      BY <3>3, <3>5, <3>6, <3>7 DEF ControlInv
  <2> QED
    BY <1>26, <2>2, <2>3 DEF Commit
<1>27. CASE RolledBack
  <2>1. tool.r \in Receipts /\ tool.pc = "save"
    BY <1>27, <1>1, TakeoverAssumption DEF RolledBack
  <2>2. tool.cmd \in {"prepare", "abort"}
    BY <2>1 DEF ControlInv, StepsFit, FinishSteps
  <2>3. /\ tool' = NoCommand /\ PhaseBecomes(tool.r, "rolled-back")
        /\ installer' = installer
        /\ receipt'[tool.r].backup = FALSE
    BY <1>27, <2>1, RolledBackDoes DEF RolledBack, Ends
  <2>4. installer = NoTakeover
    BY <2>1, <2>2 DEF ControlInv, InstallerFits, Preparing, Finishing, PrepareSteps,
       StoppedSteps
  <2>5. StepsFit'
    BY <2>3 DEF StepsFit
  <2>6. Unfinished' = Unfinished \ {tool.r}
    BY <2>1, <2>3 DEF Unfinished
  <2>7. PhasesFit'
    BY <2>1, <2>3, <2>6 DEF ControlInv, PhasesFit, Begun, Finishing, Stopping
  <2>8. InstallerFits'
    BY <2>3, <2>4 DEF InstallerFits, Preparing, Finishing
  <2>9. BackupsFit'
    BY <2>1, <2>3 DEF ControlInv, BackupsFit, Unbacked, Preparing
  <2> QED
    BY <2>5, <2>7, <2>8, <2>9 DEF ControlInv
<1>28. CASE Fails
  <2>1. tool # NoCommand /\ tool.r \in Receipts
    BY <1>28, <1>1 DEF Fails
  <2>2. CASE ~(RollingBack \/ tool.pc = "acknowledged")
    BY <1>28, <2>1, <2>2, ControlRaises DEF Fails
  <2>3. CASE (RollingBack \/ tool.pc = "acknowledged") /\ ~(tool.cmd = "prepare" /\ RollingBack)
    BY <1>28, <2>3, ControlEnds DEF Fails, Ends, Ended0
  <2>4. CASE tool.cmd = "prepare" /\ RollingBack
    <3>1. /\ tool' = NoCommand /\ installer' = NoTakeover
          /\ PhaseBecomes(tool.r, "manual-recovery-required")
          /\ receipt'[tool.r].backup = receipt[tool.r].backup
      BY <1>28, <2>1, <2>4, PhaseTo DEF Fails, Ends, Phases
    <3>2. receipt[tool.r].phase \in EarlyPhases
      BY <2>4, <2>1 DEF ControlInv, PhasesFit, Begun, RollingBack, StepsFit
    <3>3. StepsFit'
      BY <3>1 DEF StepsFit
    <3>4. Unfinished' = Unfinished /\ tool.r \in Unfinished
      BY <2>1, <3>1, <3>2 DEF Unfinished
    <3>5. PhasesFit'
      BY <2>1, <3>1, <3>4 DEF ControlInv, PhasesFit, Begun, Finishing, Stopping
    <3>6. InstallerFits'
      BY <3>1 DEF InstallerFits, Preparing, Finishing
    <3>7. BackupsFit'
      BY <2>1, <3>1, <3>2 DEF ControlInv, BackupsFit, Unbacked, Preparing
    <3> QED
      BY <3>3, <3>5, <3>6, <3>7 DEF ControlInv
  <2> QED
    BY <2>2, <2>3, <2>4
<1>29. CASE Killed
  BY <1>29, ControlEnds DEF Killed, Ends, Ended0
<1>30. CASE UNCHANGED <<tool, receipt, installer>>
  BY <1>30, ControlStays DEF Stays
<1> QED
  BY <1>2, <1>3, <1>4, <1>5, <1>6, <1>7, <1>8, <1>9, <1>10, <1>11, <1>12, <1>13, <1>14,
     <1>15, <1>16, <1>17, <1>18, <1>19, <1>20, <1>21, <1>22, <1>23, <1>24, <1>25, <1>26,
     <1>27, <1>28, <1>29, <1>30 DEF TakeoverNext, Command, Prepare, Finish, RollBack,
     Runtimes, StopLabel, UnloadReplacement, LegacyStarts, LegacyStops, LegacyMisses,
     LegacyReceives, LegacyWorks, InstallerLoads, ReplacementStarts, ReplacementStops,
     ReplacementMisses, ReplacementConnects, ReplacementReceives, ReplacementWorks, Post,
     Edit

-----------------------------------------------------------------------------
(* The receipts, step by step *)

\* Of a receipt whose takeover is not begun, or of another one's, nothing runs.
LEMMA NotServed ==
  ASSUME ControlInv, NEW r \in Receipts,
         receipt[r].phase \in EarlyPhases \cup {"prepared"}
  PROVE  ~Served
<1>1. r \in Unfinished
  BY PhaseSets DEF Unfinished
<1>2. ASSUME NEW q \in Receipts, receipt[q].phase \in ServedPhases PROVE FALSE
  <2>1. CASE receipt[q].phase = "committed"
    BY <1>1, <2>1 DEF ControlInv, PhasesFit
  <2>2. CASE receipt[q].phase # "committed"
    <3>1. q \in Unfinished
      BY <1>2, <2>2, PhaseSets DEF Unfinished, ServedPhases
    <3>2. q = r
      BY <1>1, <3>1 DEF ControlInv, PhasesFit
    <3> QED
      BY <1>2, <3>2, PhaseSets DEF ServedPhases
  <2> QED
    BY <2>1, <2>2
<1> QED
  BY <1>2 DEF Served

\* What a command finds.
LEMMA CommandFinds ==
  ASSUME ControlInv
  PROVE  /\ tool # NoCommand => tool.r \in Receipts
         /\ tool.cmd = "prepare" /\ tool.pc # "acknowledged" =>
              receipt[tool.r].phase \in EarlyPhases /\ ~Served
         /\ tool.cmd = "finalize" => receipt[tool.r].phase \in StartedPhases
         /\ tool.cmd = "abort" =>
              receipt[tool.r].phase \in EarlyPhases \cup StartedPhases \cup {"prepared"}
         /\ tool.cmd = "idle" <=> tool = NoCommand
<1>1. tool # NoCommand => tool.r \in Receipts
  BY DEF ControlInv, StepsFit
<1>2. tool.cmd = "idle" <=> tool = NoCommand
  BY NoCommandTyped DEF ControlInv, StepsFit
<1>3. tool.cmd = "prepare" /\ tool.pc # "acknowledged" => receipt[tool.r].phase \in EarlyPhases
  BY DEF ControlInv, PhasesFit, Begun
<1>4. tool.cmd = "prepare" /\ tool.pc # "acknowledged" => ~Served
  BY <1>1, <1>2, <1>3, NotServed
<1> QED
  BY <1>1, <1>2, <1>3, <1>4 DEF ControlInv, PhasesFit, Finishing

\* Where a command begins.
LEMMA AbortTo ==
  ASSUME NEW r \in Receipts, Abort(r)
  PROVE  tool'.pc \in {"idle", "capture", "restore"} /\ tool'.at = 0
<1>1. \/ tool = NoCommand /\ UNCHANGED tool
      \/ tool' = [NoCommand EXCEPT !.cmd = "abort", !.r = r,
             !.pc = IF receipt[r].phase \in StartedPhases THEN "capture" ELSE "restore"]
  BY DEF Abort
<1>2. CASE tool = NoCommand /\ UNCHANGED tool
  BY <1>2, NoCommandTyped
<1>3. ASSUME NEW p \in {"capture", "restore"},
             tool' = [NoCommand EXCEPT !.cmd = "abort", !.r = r, !.pc = p]
      PROVE  tool'.pc = p /\ tool'.at = 0
  BY <1>3, AbortDoes DEF Steps, StopSteps, RollbackSteps
<1> QED
  BY <1>1, <1>2, <1>3

\* Where prepare goes from its validation.
LEMMA ValidateTo ==
  ASSUME ToolTyped, Validate
  PROVE  tool'.pc \in {"stop", "idle"} /\ tool'.at \in {0, tool.at}
<1>1. Goes("stop") \/ Ends
  BY DEF Validate
<1> QED
  BY <1>1, GoesTo, EndsTo DEF Steps, PrepareSteps

Unbound(r) ==
  /\ receipt'[r].lower = receipt[r].lower /\ receipt'[r].upper = receipt[r].upper
  /\ receipt'[r].base = receipt[r].base

\* A step changes one receipt at most.
ReceiptStep ==
  \/ receipt' = receipt
  \/ /\ Validate /\ tool.r \in Receipts /\ receipt[tool.r].phase = "absent"
     /\ PhaseBecomes(tool.r, "legacy-validated") /\ receipt'[tool.r].plan = tool.plan
     /\ Unbound(tool.r)
     /\ receipt'[tool.r].backup = receipt[tool.r].backup
     /\ receipt'[tool.r].gateway = receipt[tool.r].gateway
  \/ /\ tool.cmd = "prepare" /\ tool.pc # "acknowledged" /\ tool.r \in Receipts
     /\ receipt[tool.r].phase \in EarlyPhases
     /\ \E ph \in EarlyPhases \cup {"prepared"} : PhaseBecomes(tool.r, ph)
     /\ receipt'[tool.r].phase = "prepared" => tool.pc = "prepared"
     /\ receipt'[tool.r].plan = receipt[tool.r].plan
     /\ receipt[tool.r].backup => receipt'[tool.r].backup
     /\ \/ OpenWindow /\ receipt'[tool.r].lower = Lower /\ receipt'[tool.r].upper = Upper(Lower)
        \/ /\ receipt'[tool.r].lower = receipt[tool.r].lower
           /\ receipt'[tool.r].upper = receipt[tool.r].upper
           /\ \/ receipt'[tool.r].phase \notin Bounded
              \/ tool.pc \in {"reconcile", "prepared"}
     /\ ProveLegacyStopped \/ Backup \/ Authorize \/ OpenWindow \/ ResetGateway \/ Prepared
  \/ \E r \in Receipts :
       /\ Begin(r) /\ receipt[r].phase = "prepared"
       /\ PhaseBecomes(r, "replacement-starting")
       /\ receipt'[r].base = Baseline(rows)
       /\ receipt'[r].lower = receipt[r].lower /\ receipt'[r].upper = receipt[r].upper
       /\ receipt'[r].plan = receipt[r].plan
       /\ receipt'[r].backup = receipt[r].backup /\ receipt'[r].gateway = receipt[r].gateway
  \/ /\ tool.cmd = "finalize" /\ tool.r \in Receipts /\ receipt[tool.r].phase \in StartedPhases
     /\ \/ Reconciled /\ receipt'[tool.r].upper = tool.upper
        \/ IssueDrain /\ receipt'[tool.r].upper = receipt[tool.r].upper
     /\ \E ph \in StartedPhases : PhaseBecomes(tool.r, ph)
     /\ receipt'[tool.r].lower = receipt[tool.r].lower /\ receipt'[tool.r].base = receipt[tool.r].base
     /\ receipt'[tool.r].plan = receipt[tool.r].plan
     /\ receipt'[tool.r].backup = receipt[tool.r].backup
     /\ receipt'[tool.r].gateway = receipt[tool.r].gateway
  \/ /\ Commit /\ ReplacementReady /\ tool.r \in Receipts /\ receipt[tool.r].phase \in StartedPhases
     /\ PhaseBecomes(tool.r, "committed") /\ Unbound(tool.r)
     /\ receipt'[tool.r].plan = receipt[tool.r].plan
     /\ receipt'[tool.r].backup = receipt[tool.r].backup
     /\ receipt'[tool.r].gateway = receipt[tool.r].gateway
  \/ \E r \in Receipts :
       /\ Abort(r) \/ (Fails /\ r = tool.r /\ tool.cmd = "prepare" /\ RollingBack)
       /\ receipt[r].phase \in EarlyPhases \cup StartedPhases \cup {"prepared"}
       /\ PhaseBecomes(r, "manual-recovery-required") /\ Unbound(r)
       /\ receipt'[r].plan = receipt[r].plan
       /\ receipt'[r].backup = receipt[r].backup /\ receipt'[r].gateway = receipt[r].gateway
  \/ /\ RolledBack /\ tool.r \in Receipts
     /\ receipt[tool.r].phase \in EarlyPhases \cup StartedPhases \cup {"prepared"}
     /\ PhaseBecomes(tool.r, "rolled-back") /\ receipt'[tool.r].lower = 0

\* Every step does to the receipts what ReceiptStep says.
LEMMA ReceiptSteps ==
  ASSUME TakeoverTyped, ControlInv, SessionFits, TakeoverNext
  PROVE  ReceiptStep
<1> USE DEF TakeoverTyped, PhaseBecomes, Unbound
<1>1. tool.cmd # "idle" => tool.r \in Receipts
  BY CommandFinds
<1>2. CASE Validate
  <2>1. tool.r \in Receipts /\ receipt[tool.r].phase = "absent"
    BY <1>1, <1>2 DEF Validate, At, ControlInv, PhasesFit
  <2>2. \/ receipt' = receipt
        \/ receipt' = [receipt EXCEPT ![tool.r].phase = "legacy-validated",
                                      ![tool.r].plan = tool.plan]
    BY <1>2 DEF Validate
  <2> QED
    BY <1>2, <2>1, <2>2, ValidateDoes DEF ReceiptStep
<1>3. CASE ProveLegacyStopped \/ Authorize
  <2>1. tool.cmd = "prepare" /\ tool.pc # "acknowledged"
    BY <1>3 DEF ProveLegacyStopped, Authorize, At
  <2>2. /\ tool.cmd = "prepare" /\ tool.pc # "acknowledged" /\ tool.r \in Receipts
        /\ receipt[tool.r].phase \in EarlyPhases
    BY <2>1, CommandFinds
  <2>3. \/ receipt' = receipt
        \/ \E ph \in EarlyPhases \ Bounded : Phase(tool.r, ph)
    BY <1>3 DEF ProveLegacyStopped, Authorize, EarlyPhases, Bounded, StartedPhases
  <2>4. CASE receipt' = receipt
    BY <2>4 DEF ReceiptStep
  <2>5. ASSUME NEW ph \in EarlyPhases \ Bounded, Phase(tool.r, ph) PROVE ReceiptStep
    <3>1. /\ PhaseBecomes(tool.r, ph) /\ Unbound(tool.r)
          /\ receipt'[tool.r].plan = receipt[tool.r].plan
          /\ receipt'[tool.r].backup = receipt[tool.r].backup
      BY <2>2, <2>5, PhaseTo DEF Phases
    <3>2. ph # "prepared"
      BY PhaseSets
    <3> QED
      BY <1>3, <2>2, <2>5, <3>1, <3>2 DEF ReceiptStep
  <2> QED
    BY <2>3, <2>4, <2>5
<1>4. CASE Backup
  <2>1. tool.cmd = "prepare" /\ tool.pc = "backup" /\ session \in {"none", "prior"}
    BY <1>4 DEF Backup, At, SessionFits, RuntimesTyped
  <2>2. /\ tool.cmd = "prepare" /\ tool.pc # "acknowledged" /\ tool.r \in Receipts
        /\ receipt[tool.r].phase \in EarlyPhases /\ session \in {"none", "prior"}
    BY <2>1, CommandFinds
  <2> QED
    BY <1>4, <2>2, BackupDoes DEF ReceiptStep, EarlyPhases, Bounded, StartedPhases
<1>5. CASE OpenWindow
  <2>1. tool.cmd = "prepare" /\ tool.pc = "window"
    BY <1>5 DEF OpenWindow, At
  <2>2. /\ tool.cmd = "prepare" /\ tool.pc # "acknowledged" /\ tool.r \in Receipts
        /\ receipt[tool.r].phase \in EarlyPhases
    BY <2>1, CommandFinds
  <2> QED
    BY <1>5, <2>2, OpenWindowDoes, WindowBounds DEF ReceiptStep, EarlyPhases
<1>6. CASE ResetGateway
  <2>1. tool.cmd = "prepare" /\ tool.pc = "reconcile"
    BY <1>6 DEF ResetGateway, At
  <2>2. /\ tool.cmd = "prepare" /\ tool.pc # "acknowledged" /\ tool.r \in Receipts
        /\ receipt[tool.r].phase \in EarlyPhases
    BY <2>1, CommandFinds
  <2>3. "gateway-resetting" \in EarlyPhases /\ "gateway-resetting" \in Phases
    BY DEF EarlyPhases, Phases
  <2>4. receipt' = [receipt EXCEPT ![tool.r].phase = "gateway-resetting",
                                   ![tool.r].base = Baseline(rows)]
    BY <1>6 DEF ResetGateway
  <2> QED
    <3>1. /\ PhaseBecomes(tool.r, "gateway-resetting")
          /\ receipt'[tool.r].plan = receipt[tool.r].plan
          /\ receipt'[tool.r].backup = receipt[tool.r].backup
          /\ receipt'[tool.r].lower = receipt[tool.r].lower
          /\ receipt'[tool.r].upper = receipt[tool.r].upper
      BY <2>2, <2>3, <2>4, BaseDoes, QueuePlans
    <3> QED
      BY <1>6, <2>1, <2>2, <2>3, <3>1 DEF ReceiptStep
<1>7. CASE Prepared
  <2>1. tool.cmd = "prepare" /\ tool.pc = "prepared" /\ Phase(tool.r, "prepared")
    BY <1>7 DEF Prepared, At
  <2>2. /\ tool.cmd = "prepare" /\ tool.pc # "acknowledged" /\ tool.r \in Receipts
        /\ receipt[tool.r].phase \in EarlyPhases /\ Phase(tool.r, "prepared")
        /\ tool.pc = "prepared"
    BY <2>1, CommandFinds
  <2> QED
    BY <1>7, <2>2, PhaseTo DEF ReceiptStep, Phases
<1>8. ASSUME NEW r \in Receipts, Begin(r) PROVE ReceiptStep
  <2>1. receipt[r].phase = "prepared" /\ receipt' = [receipt EXCEPT
             ![r].phase = "replacement-starting", ![r].base = Baseline(rows)]
    BY <1>8 DEF Begin
  <2>2. "replacement-starting" \in Phases
    BY DEF Phases, StartedPhases
  <2>3. /\ PhaseBecomes(r, "replacement-starting")
        /\ receipt'[r].base = Baseline(rows)
        /\ receipt'[r].lower = receipt[r].lower /\ receipt'[r].upper = receipt[r].upper
        /\ receipt'[r].plan = receipt[r].plan
        /\ receipt'[r].backup = receipt[r].backup /\ receipt'[r].gateway = receipt[r].gateway
    BY <2>1, <2>2, BaseDoes, QueuePlans
  <2> QED
    BY <1>8, <2>1, <2>3 DEF ReceiptStep
<1>9. CASE Reconciled \/ IssueDrain
  <2>1. tool.cmd = "finalize"
    BY <1>9 DEF Reconciled, IssueDrain, At
  <2>2. /\ tool.cmd = "finalize" /\ tool.r \in Receipts
        /\ receipt[tool.r].phase \in StartedPhases
    BY <2>1, CommandFinds
  <2>3. CASE Reconciled
    <3>1. receipt' = [receipt EXCEPT ![tool.r].phase = "replacement-reconciled",
                                     ![tool.r].upper = tool.upper]
      BY <2>3 DEF Reconciled
    <3>2. "replacement-reconciled" \in StartedPhases /\ "replacement-reconciled" \in Phases
      BY DEF StartedPhases, Phases
    <3>3. /\ PhaseBecomes(tool.r, "replacement-reconciled")
          /\ receipt'[tool.r].upper = tool.upper
          /\ receipt'[tool.r].lower = receipt[tool.r].lower
          /\ receipt'[tool.r].base = receipt[tool.r].base
          /\ receipt'[tool.r].plan = receipt[tool.r].plan
          /\ receipt'[tool.r].backup = receipt[tool.r].backup
          /\ receipt'[tool.r].gateway = receipt[tool.r].gateway
      BY <2>2, <3>1, <3>2, ReconciledDoes
    <3> QED
      BY <2>2, <2>3, <3>2, <3>3 DEF ReceiptStep
  <2>4. CASE IssueDrain
    BY <2>2, <2>4, PhaseTo DEF IssueDrain, ReceiptStep, Phases, StartedPhases
  <2> QED
    BY <1>9, <2>3, <2>4
<1>10. CASE Commit
  <2>1. tool.cmd = "finalize"
    BY <1>10 DEF Commit, At
  <2>2. /\ tool.cmd = "finalize" /\ tool.r \in Receipts
        /\ receipt[tool.r].phase \in StartedPhases
    BY <2>1, CommandFinds
  <2>3. receipt' = receipt \/ (ReplacementReady /\ Phase(tool.r, "committed"))
    <3>1. CASE ReplacementReady
      BY <1>10, <3>1 DEF Commit
    <3>2. CASE ~ReplacementReady
      BY <1>10, <3>2 DEF Commit
    <3> QED
      BY <3>1, <3>2
  <2> QED
    <3>1. CASE receipt' = receipt
      BY <3>1 DEF ReceiptStep
    <3>2. CASE ReplacementReady /\ Phase(tool.r, "committed")
      <4>1. /\ PhaseBecomes(tool.r, "committed") /\ Unbound(tool.r)
            /\ receipt'[tool.r].plan = receipt[tool.r].plan
            /\ receipt'[tool.r].backup = receipt[tool.r].backup
            /\ receipt'[tool.r].gateway = receipt[tool.r].gateway
        BY <2>2, <3>2, PhaseTo DEF Phases, FinalPhases
      <4> QED
        BY <1>10, <2>2, <3>2, <4>1 DEF ReceiptStep
    <3> QED
      BY <2>3, <3>1, <3>2
<1>11. ASSUME NEW r \in Receipts, Abort(r) PROVE ReceiptStep
  <2>1. receipt[r].phase \in EarlyPhases \cup StartedPhases \cup {"prepared"}
    BY <1>11 DEF Abort
  <2>2. receipt' = receipt \/ Phase(r, "manual-recovery-required")
    BY <1>11 DEF Abort
  <2>3. CASE Phase(r, "manual-recovery-required")
    <3>1. /\ PhaseBecomes(r, "manual-recovery-required") /\ Unbound(r)
          /\ receipt'[r].plan = receipt[r].plan
          /\ receipt'[r].backup = receipt[r].backup /\ receipt'[r].gateway = receipt[r].gateway
      BY <2>3, PhaseTo DEF Phases
    <3> QED
      BY <1>11, <2>1, <3>1 DEF ReceiptStep
  <2> QED
    BY <2>2, <2>3 DEF ReceiptStep
<1>12. CASE Fails
  <2>1. \/ receipt' = receipt
        \/ tool.cmd = "prepare" /\ RollingBack /\ Phase(tool.r, "manual-recovery-required")
    BY <1>12 DEF Fails
  <2>2. tool # NoCommand => tool.r \in Receipts
    BY CommandFinds
  <2>3. tool.cmd = "prepare" /\ RollingBack => receipt[tool.r].phase \in EarlyPhases
    BY CommandFinds DEF RollingBack
  <2>4. tool.r \in Receipts
    BY <1>12, <2>2 DEF Fails
  <2> QED
    BY <1>12, <2>1, <2>3, <2>4, PhaseTo DEF ReceiptStep, Phases, RollingBack
<1>13. CASE RolledBack
  <2>1. tool.pc = "save"
    BY <1>13 DEF RolledBack
  <2>2. tool.cmd \in {"prepare", "abort"}
    BY <2>1, NoCommandTyped DEF ControlInv, StepsFit, FinishSteps
  <2>3. /\ tool.r \in Receipts
        /\ receipt[tool.r].phase \in EarlyPhases \cup StartedPhases \cup {"prepared"}
    BY <2>1, <2>2, CommandFinds
  <2> QED
    BY <1>13, <2>3, RolledBackDoes DEF ReceiptStep
<1>14. CASE receipt' = receipt
  BY <1>14 DEF ReceiptStep
<1> QED
  BY <1>2, <1>3, <1>4, <1>5, <1>6, <1>7, <1>8, <1>9, <1>10, <1>11, <1>12, <1>13, <1>14 DEF
     TakeoverNext, Command, Prepare, Finish, RollBack, Runtimes, Plan, Finalize,
     StopLabel, StopLegacySession, Quarantine, MarkFresh, Reconcile, Acknowledge,
     ReopenWindow, DrainAnswers, CheckBacklog, CaptureReplacement, UnloadReplacement,
     StopReplacementSession, Restore, RestartLegacy, Killed, LegacyStarts, LegacyStops,
     LegacyMisses, LegacyReceives, LegacyWorks, InstallerLoads, ReplacementStarts,
     ReplacementStops, ReplacementMisses, ReplacementConnects, ReplacementReceives,
     ReplacementWorks, Post, Edit

-----------------------------------------------------------------------------
(* The runtimes *)

\* The frames of the runtimes' parts.
LEMMA LegacyRises ==
  ASSUME TakeoverTyped, TakeoverNext
  PROVE  LegacyRuns' => LegacyRuns \/ tool.pc = "restart"
<1> USE DEF LegacyRuns, TakeoverTyped, RuntimesTyped, At
<1>1. ASSUME NEW s \in Services, StopLabel(s) PROVE LegacyRuns' => LegacyRuns \/ tool.pc = "restart"
  BY <1>1 DEF StopLabel
<1>2. CASE StopLegacySession
  BY <1>2 DEF StopLegacySession
<1>3. CASE RestartLegacy
  BY <1>3 DEF RestartLegacy
<1>4. CASE Fails
  BY <1>4 DEF Fails
<1>5. CASE LegacyStarts
  BY <1>5 DEF LegacyStarts, Listening
<1>6. CASE LegacyReceives
  BY <1>6 DEF LegacyReceives
<1>7. CASE LegacyStops
  BY <1>7 DEF LegacyStops
<1>8. CASE LegacyMisses
  BY <1>8 DEF LegacyMisses
<1>9. CASE UNCHANGED legacy
  BY <1>9
<1> QED
  BY <1>1, <1>2, <1>3, <1>4, <1>5, <1>6, <1>7, <1>8, <1>9 DEF TakeoverNext, Command, Prepare, Finish,
     RollBack, Runtimes, discordVars, queueVars, runtimeVars, historyVars, Plan, Begin,
     Finalize, Abort, Validate, ProveLegacyStopped, Backup, Authorize, Quarantine,
     OpenWindow, ResetGateway, MarkFresh, Prepared, Reconcile, Acknowledge, ReopenWindow,
     Reconciled, IssueDrain, DrainAnswers, CheckBacklog, Commit, CaptureReplacement,
     UnloadReplacement, StopReplacementSession, Restore, RolledBack, Killed, LegacyWorks,
     InstallerLoads, ReplacementStarts, ReplacementStops, ReplacementMisses,
     ReplacementConnects, ReplacementReceives, ReplacementWorks, Post, Edit

\* Only the installer loads the replacement.
LEMMA ReplacementRises ==
  ASSUME TakeoverTyped, TakeoverNext
  PROVE  ReplacementRuns' =>
           \/ ReplacementRuns
           \/ /\ tool = NoCommand /\ installer # NoTakeover
              /\ receipt[installer].phase = "replacement-starting"
              /\ UNCHANGED <<tool, installer, receipt>>
<1> USE DEF ReplacementRuns, TakeoverTyped, RuntimesTyped, At
<1>1. ASSUME NEW s \in Services, UnloadReplacement(s) PROVE ReplacementRuns' =>
           \/ ReplacementRuns
           \/ /\ tool = NoCommand /\ installer # NoTakeover
              /\ receipt[installer].phase = "replacement-starting"
              /\ UNCHANGED <<tool, installer, receipt>>
  BY <1>1 DEF UnloadReplacement
<1>2. CASE StopReplacementSession
  BY <1>2 DEF StopReplacementSession
<1>3. ASSUME NEW s \in Services, InstallerLoads(s) PROVE ReplacementRuns' =>
           \/ ReplacementRuns
           \/ /\ tool = NoCommand /\ installer # NoTakeover
              /\ receipt[installer].phase = "replacement-starting"
              /\ UNCHANGED <<tool, installer, receipt>>
  BY <1>3 DEF InstallerLoads
<1>4. CASE ReplacementStarts
  BY <1>4 DEF ReplacementStarts, Listening
<1>5. CASE ReplacementStops
  BY <1>5 DEF ReplacementStops
<1>6. CASE ReplacementMisses
  BY <1>6 DEF ReplacementMisses
<1>7. CASE ReplacementReceives
  BY <1>7 DEF ReplacementReceives
<1>8. CASE UNCHANGED repl
  BY <1>8 DEF ReplacementConnects
<1> QED
  BY <1>1, <1>2, <1>3, <1>4, <1>5, <1>6, <1>7, <1>8 DEF TakeoverNext, Command, Prepare,
     Finish, RollBack, Runtimes, discordVars, queueVars, runtimeVars, historyVars, Plan,
     Begin, Finalize, Abort, Validate, StopLabel, StopLegacySession, ProveLegacyStopped,
     Backup, Authorize, Quarantine, OpenWindow, ResetGateway, MarkFresh, Prepared,
     Reconcile, Acknowledge, ReopenWindow, Reconciled, IssueDrain, DrainAnswers,
     CheckBacklog, Commit, CaptureReplacement, Restore, RestartLegacy, RolledBack, Fails,
     Killed, LegacyStarts, LegacyStops, LegacyMisses, LegacyReceives, LegacyWorks,
     ReplacementConnects, ReplacementWorks, Post, Edit

\* Where a rollback begins, nothing of the replacement runs.
LEMMA RollbackBegins ==
  ASSUME TakeoverTyped, ControlInv, TakeoverNext, RollingBack'
  PROVE  \/ RollingBack
         \/ tool.cmd = "prepare" /\ tool.pc # "acknowledged"
         \/ \E r \in Receipts : /\ Abort(r) /\ receipt[r].phase \in EarlyPhases \cup {"prepared"}
                                /\ UNCHANGED receipt
         \/ StopReplacementSession /\ ~ReplacementRuns' /\ ~Raises
<1> USE NoCommandTyped DEF TakeoverTyped
<1> DEFINE Begins ==
      \/ RollingBack
      \/ tool.cmd = "prepare" /\ tool.pc # "acknowledged"
      \/ \E r \in Receipts : /\ Abort(r) /\ receipt[r].phase \in EarlyPhases \cup {"prepared"}
                             /\ UNCHANGED receipt
      \/ StopReplacementSession /\ ~ReplacementRuns' /\ ~Raises
<1>1. ASSUME NEW r \in Receipts, Plan(r) PROVE Begins
  BY <1>1, PlanDoes DEF Plan, At, RollingBack, Steps, PrepareSteps, FinishSteps,
     StoppedSteps, RollbackSteps, StopSteps
<1>2. ASSUME NEW r \in Receipts, Finalize(r) PROVE Begins
  BY <1>2, FinalizeDoes DEF Finalize, At, RollingBack, Steps, PrepareSteps, FinishSteps,
     StoppedSteps, RollbackSteps, StopSteps
<1>3. ASSUME NEW r \in Receipts, Abort(r) PROVE Begins
  <2>1. receipt[r].phase \in EarlyPhases \cup StartedPhases \cup {"prepared"}
    BY <1>3 DEF Abort
  <2>2. \/ UNCHANGED tool
        \/ /\ receipt' = receipt
           /\ tool' = [NoCommand EXCEPT !.cmd = "abort", !.r = r,
                  !.pc = IF receipt[r].phase \in StartedPhases THEN "capture" ELSE "restore"]
    BY <1>3 DEF Abort
  <2>3. CASE UNCHANGED tool
    BY <2>3 DEF RollingBack
  <2>4. CASE receipt[r].phase \in StartedPhases /\ ~UNCHANGED tool
    <3>1. tool' = [NoCommand EXCEPT !.cmd = "abort", !.r = r, !.pc = "capture"]
      BY <2>2, <2>4
    <3>2. tool'.pc = "capture"
      BY <3>1, AbortDoes DEF Steps, StopSteps
    <3> QED
      BY <3>2 DEF RollingBack
  <2>5. CASE receipt[r].phase \notin StartedPhases /\ ~UNCHANGED tool
    BY <1>3, <2>1, <2>2, <2>5
  <2> QED
    BY <2>3, <2>4, <2>5
<1>4. CASE Validate
  <2>1. Goes("stop") \/ Ends
    BY <1>4 DEF Validate
  <2>2. tool'.pc \in {"stop", "idle"}
    BY <2>1, GoesTo, EndsTo DEF Steps, PrepareSteps
  <2> QED
    BY <2>2 DEF RollingBack
<1>5. CASE StopLegacySession
  BY <1>5, GoesTo DEF StopLegacySession, At, RollingBack, Steps, PrepareSteps, FinishSteps,
     StoppedSteps, RollbackSteps, StopSteps
<1>6. CASE ProveLegacyStopped
  BY <1>6, GoesTo, EndsTo, RaisesTo, PhaseTo DEF ProveLegacyStopped, At, RollingBack, Steps,
     PrepareSteps, FinishSteps, StoppedSteps, RollbackSteps, StopSteps
<1>7. CASE Backup
  BY <1>7, BackupDoes DEF Backup, At, RollingBack, Steps, PrepareSteps, FinishSteps,
     StoppedSteps, RollbackSteps, StopSteps
<1>8. CASE Authorize
  BY <1>8, GoesTo, EndsTo, RaisesTo, PhaseTo DEF Authorize, At, RollingBack, Steps,
     PrepareSteps, FinishSteps, StoppedSteps, RollbackSteps, StopSteps
<1>9. CASE Quarantine
  BY <1>9, GoesTo, EndsTo, RaisesTo, QuarantineDoes DEF Quarantine, At, RollingBack, Steps,
     PrepareSteps, FinishSteps, StoppedSteps, RollbackSteps, StopSteps
<1>10. CASE OpenWindow
  BY <1>10, OpenWindowDoes, WindowBounds DEF OpenWindow, At, RollingBack, Steps,
     PrepareSteps, FinishSteps, StoppedSteps, RollbackSteps, StopSteps
<1>11. CASE ResetGateway
  BY <1>11, GoesTo, BaseDoes, QueuePlans DEF ResetGateway, At, RollingBack, Steps,
     PrepareSteps, FinishSteps, StoppedSteps, RollbackSteps, StopSteps
<1>12. CASE MarkFresh
  BY <1>12, GoesTo DEF MarkFresh, At, RollingBack, Steps, PrepareSteps, FinishSteps,
     StoppedSteps, RollbackSteps, StopSteps
<1>13. CASE Prepared
  BY <1>13, EndsTo, PhaseTo DEF Prepared, At, RollingBack, Steps, PrepareSteps, FinishSteps,
     StoppedSteps, RollbackSteps, StopSteps
<1>14. ASSUME NEW m \in Posts, Reconcile(m) PROVE Begins
  BY <1>14, GoesTo, EndsTo, RaisesTo, ReconcileDoes DEF Reconcile, At, RollingBack, Steps,
     PrepareSteps, FinishSteps, StoppedSteps, RollbackSteps, StopSteps, Reconciling
<1>15. CASE Acknowledge
  BY <1>15, AcknowledgeDoes DEF Acknowledge, At, RollingBack, Steps, PrepareSteps,
     FinishSteps, StoppedSteps, RollbackSteps, StopSteps, Reconciling
<1>16. CASE ReopenWindow
  BY <1>16, ReopenDoes DEF ReopenWindow, At, RollingBack, Steps, PrepareSteps, FinishSteps,
     StoppedSteps, RollbackSteps, StopSteps
<1>17. CASE Reconciled
  BY <1>17, GoesTo, ReconciledDoes DEF Reconciled, At, RollingBack, Steps, PrepareSteps,
     FinishSteps, StoppedSteps, RollbackSteps, StopSteps
<1>18. CASE IssueDrain
  BY <1>18, GoesTo, PhaseTo DEF IssueDrain, At, RollingBack, Steps, PrepareSteps,
     FinishSteps, StoppedSteps, RollbackSteps, StopSteps
<1>19. CASE DrainAnswers
  BY <1>19, GoesTo DEF DrainAnswers, At, RollingBack, Steps, PrepareSteps, FinishSteps,
     StoppedSteps, RollbackSteps, StopSteps
<1>20. CASE CheckBacklog
  <2>1. tool.cmd = "finalize" /\ (Raises \/ Goes("commit"))
    BY <1>20 DEF CheckBacklog, At
  <2>2. tool'.pc \in {"commit", "idle"}
    BY <2>1, RaisesTo, GoesTo, EndsTo DEF Steps, FinishSteps
  <2> QED
    BY <2>2 DEF RollingBack
<1>21. CASE Commit
  BY <1>21, EndsTo, PhaseTo DEF Commit, At, RollingBack, Steps, PrepareSteps, FinishSteps,
     StoppedSteps, RollbackSteps, StopSteps
<1>22. CASE CaptureReplacement
  BY <1>22, CaptureDoes DEF CaptureReplacement, At, RollingBack, Steps, PrepareSteps,
     FinishSteps, StoppedSteps, RollbackSteps, StopSteps
<1>23. CASE StopReplacementSession
  <2>1. tool.cmd = "abort"
    BY <1>23 DEF StopReplacementSession, At
  <2>2. CASE Raises
    BY <2>1, <2>2, RaisesTo, EndsTo DEF RollingBack
  <2>3. CASE ~Raises
    <3>1. repl.loaded = {} /\ repl' = [repl EXCEPT !.up = FALSE]
      BY <1>23, <2>3 DEF StopReplacementSession
    <3>2. ~ReplacementRuns'
      BY <3>1 DEF ReplacementRuns, RuntimesTyped
    <3> QED
      BY <1>23, <2>3, <3>2
  <2> QED
    BY <2>2, <2>3
<1>24. CASE Restore
  BY <1>24, GoesTo DEF Restore, At, RollingBack, Steps, PrepareSteps, FinishSteps,
     StoppedSteps, RollbackSteps, StopSteps
<1>25. CASE RestartLegacy
  BY <1>25, GoesTo DEF RestartLegacy, At, RollingBack, Steps, PrepareSteps, FinishSteps,
     StoppedSteps, RollbackSteps, StopSteps
<1>26. CASE RolledBack
  BY <1>26, EndsTo, RolledBackDoes DEF RolledBack, At, RollingBack, Steps, PrepareSteps,
     FinishSteps, StoppedSteps, RollbackSteps, StopSteps
<1>27. CASE Fails
  BY <1>27, GoesTo, EndsTo, RaisesTo, PhaseTo DEF Fails, At, RollingBack, Steps,
     PrepareSteps, FinishSteps, StoppedSteps, RollbackSteps, StopSteps
<1>28. CASE Killed
  BY <1>28, EndsTo DEF Killed, At, RollingBack, Steps, PrepareSteps, FinishSteps,
     StoppedSteps, RollbackSteps, StopSteps
<1>29. CASE UNCHANGED tool
  BY <1>29 DEF RollingBack
<1> QED
  BY <1>1, <1>2, <1>3, <1>4, <1>5, <1>6, <1>7, <1>8, <1>9, <1>10, <1>11, <1>12, <1>13,
     <1>14, <1>15, <1>16, <1>17, <1>18, <1>19, <1>20, <1>21, <1>22, <1>23, <1>24, <1>25,
     <1>26, <1>27, <1>28, <1>29 DEF TakeoverNext, Command, Prepare, Finish, RollBack,
     Runtimes, discordVars, queueVars, runtimeVars, historyVars, Begin, StopLabel,
     UnloadReplacement, LegacyStarts, LegacyStops, LegacyMisses, LegacyReceives,
     LegacyWorks, InstallerLoads, ReplacementStarts, ReplacementStops, ReplacementMisses,
     ReplacementConnects, ReplacementReceives, ReplacementWorks, Post, Edit

\* Served ends with the rollback.
LEMMA ServedStays ==
  ASSUME TakeoverTyped, ControlInv, SessionFits, TakeoverNext, Served, ~RolledBack
  PROVE  Served'
<1>1. PICK q \in Receipts : receipt[q].phase \in ServedPhases
  BY DEF Served
<1>2. receipt'[q].phase \in ServedPhases
  BY <1>1, ReceiptSteps, NotServed, PhaseSets DEF ReceiptStep, PhaseBecomes, ServedPhases,
     Served
<1> QED
  BY <1>2 DEF Served

\* A receipt is prepared by prepare's last step, and only such a one is started.
LEMMA PreparedBefore ==
  ASSUME TakeoverTyped, ControlInv, SessionFits, TakeoverNext, NEW q \in Receipts,
         receipt'[q].phase \in StartedPhases \cup {"prepared"}
  PROVE  \/ receipt[q].phase \in StartedPhases \cup {"prepared"}
         \/ q = tool.r /\ tool.cmd = "prepare" /\ tool.pc = "prepared"
<1> USE PhaseSets DEF PhaseBecomes
<1>1. "legacy-validated" \in EarlyPhases
  BY DEF EarlyPhases
<1>2. ReceiptStep
  BY ReceiptSteps
<1>3. CASE q # tool.r
  BY <1>1, <1>2, <1>3 DEF ReceiptStep
<1>4. CASE q = tool.r
  BY <1>1, <1>2, <1>4 DEF ReceiptStep
<1> QED
  BY <1>3, <1>4

\* Every step keeps what the runtimes may do.
LEMMA RuntimeStep ==
  ASSUME TakeoverTyped, ControlInv, ControlInv', RuntimeInv, SessionFits, TakeoverNext
  PROVE  RuntimeInv'
<1>1. NoCommand.pc = "idle" /\ (RollingBack => tool # NoCommand)
      /\ (tool.pc = "restart" => RollingBack)
  BY NoCommandTyped DEF RollingBack
<1>2. OneRuntime'
  BY <1>1, LegacyRises, ReplacementRises DEF RuntimeInv, OneRuntime, StartedPhases
<1>4. RollingBack' => ~ReplacementRuns'
  <2> SUFFICES ASSUME RollingBack' PROVE ~ReplacementRuns'
    OBVIOUS
  <2>1. tool'.pc # "idle"
    BY DEF RollingBack
  <2>2. ASSUME ReplacementRuns', ~ReplacementRuns PROVE FALSE
    BY <1>1, <2>1, <2>2, ReplacementRises
  <2>3. CASE RollingBack
    BY <2>2, <2>3 DEF RuntimeInv
  <2>4. CASE tool.cmd = "prepare" /\ tool.pc # "acknowledged"
    BY <2>2, <2>4, CommandFinds DEF RuntimeInv
  <2>5. ASSUME NEW r \in Receipts, receipt[r].phase \in EarlyPhases \cup {"prepared"}
        PROVE  ~ReplacementRuns'
    BY <2>2, <2>5, NotServed DEF RuntimeInv
  <2> QED
    BY <2>3, <2>4, <2>5, RollbackBegins
<1>5. ReplacementRuns' => Served'
  <2> SUFFICES ASSUME ReplacementRuns' PROVE Served'
    OBVIOUS
  <2>1. CASE ReplacementRuns
    <3>1. ~RolledBack
      BY <2>1 DEF RuntimeInv, RolledBack, RollingBack
    <3> QED
      BY <2>1, <3>1, ServedStays DEF RuntimeInv
  <2>2. CASE ~ReplacementRuns
    <3>1. /\ installer \in Receipts /\ receipt[installer].phase = "replacement-starting"
          /\ receipt' = receipt
      BY <2>2, ReplacementRises DEF TakeoverTyped, OthersTyped
    <3> QED
      BY <3>1 DEF Served, ServedPhases, StartedPhases
  <2> QED
    BY <2>1, <2>2
<1>6. (\E q \in Receipts : receipt[q].phase = "committed")' => repl'.loaded = Services
  <2> SUFFICES ASSUME NEW q \in Receipts, receipt'[q].phase = "committed"
               PROVE  repl'.loaded = Services
    OBVIOUS
  <2>1. repl.loaded = Services
    <3>1. receipt[q].phase = "committed" \/ ReplacementReady
      BY ReceiptSteps, PhaseSets DEF ReceiptStep, PhaseBecomes
    <3> QED
      BY <3>1 DEF RuntimeInv, ReplacementReady
  <2>2. ~Stopping
    <3>1. Stopping => tool.r \in Receipts /\ receipt[tool.r].phase \in StartedPhases
      BY CommandFinds, NoCommandTyped DEF Stopping, ControlInv, PhasesFit
    <3>2. Stopping => receipt' = receipt
      <4>1. ASSUME NEW r \in Receipts, Begin(r) PROVE Stopping => receipt' = receipt
        BY <4>1, NoCommandTyped DEF Begin, At, Stopping, StopSteps
      <4>2. ASSUME NEW r \in Receipts, Abort(r) PROVE Stopping => receipt' = receipt
        BY <4>2, NoCommandTyped DEF Abort, At, Stopping, StopSteps
      <4>3. CASE Validate
        BY <4>3, NoCommandTyped DEF Validate, At, Stopping, StopSteps
      <4>4. CASE ProveLegacyStopped
        BY <4>4, NoCommandTyped DEF ProveLegacyStopped, At, Stopping, StopSteps
      <4>5. CASE Backup
        BY <4>5, NoCommandTyped DEF Backup, At, Stopping, StopSteps
      <4>6. CASE Authorize
        BY <4>6, NoCommandTyped DEF Authorize, At, Stopping, StopSteps
      <4>7. CASE OpenWindow
        BY <4>7, NoCommandTyped DEF OpenWindow, At, Stopping, StopSteps
      <4>8. CASE ResetGateway
        BY <4>8, NoCommandTyped DEF ResetGateway, At, Stopping, StopSteps
      <4>9. CASE Prepared
        BY <4>9, NoCommandTyped DEF Prepared, At, Stopping, StopSteps
      <4>10. CASE Reconciled
        BY <4>10, NoCommandTyped DEF Reconciled, At, Stopping, StopSteps
      <4>11. CASE IssueDrain
        BY <4>11, NoCommandTyped DEF IssueDrain, At, Stopping, StopSteps
      <4>12. CASE Commit
        BY <4>12, NoCommandTyped DEF Commit, At, Stopping, StopSteps
      <4>13. CASE RolledBack
        BY <4>13, NoCommandTyped DEF RolledBack, At, Stopping, StopSteps
      <4>14. CASE Fails
        BY <4>14, NoCommandTyped DEF Fails, At, Stopping, StopSteps, RollingBack
      <4>15. CASE UNCHANGED receipt
        BY <4>15, NoCommandTyped
      <4> QED
        BY <4>1, <4>2, <4>3, <4>4, <4>5, <4>6, <4>7, <4>8, <4>9, <4>10, <4>11, <4>12, <4>13,
           <4>14, <4>15 DEF TakeoverNext, Command, Prepare, Finish, RollBack, Runtimes,
           discordVars, queueVars, runtimeVars, historyVars, Plan, Finalize, StopLabel,
           StopLegacySession, Quarantine, MarkFresh, Reconcile, Acknowledge, ReopenWindow,
           DrainAnswers, CheckBacklog, CaptureReplacement, UnloadReplacement,
           StopReplacementSession, Restore, RestartLegacy, Killed, LegacyStarts,
           LegacyStops, LegacyMisses, LegacyReceives, LegacyWorks, InstallerLoads,
           ReplacementStarts, ReplacementStops, ReplacementMisses, ReplacementConnects,
           ReplacementReceives, ReplacementWorks, Post, Edit
    <3> QED
      BY <3>1, <3>2, PhaseSets DEF ControlInv, PhasesFit, Unfinished
  <2>3. Services \subseteq repl'.loaded
    <3>1. ASSUME NEW s \in Services, UnloadReplacement(s) PROVE Services \subseteq repl'.loaded
      BY <3>1, <2>1, <2>2 DEF UnloadReplacement, TakeoverTyped, RuntimesTyped, At, Stopping,
         StopSteps
    <3>2. CASE StopReplacementSession
      BY <3>2, <2>1, <2>2 DEF StopReplacementSession, TakeoverTyped, RuntimesTyped, At
    <3>3. ASSUME NEW s \in Services, InstallerLoads(s) PROVE Services \subseteq repl'.loaded
      BY <3>3, <2>1, <2>2 DEF InstallerLoads, TakeoverTyped, RuntimesTyped, At
    <3>4. CASE ReplacementStarts
      BY <3>4, <2>1, <2>2 DEF ReplacementStarts, Listening, TakeoverTyped, RuntimesTyped, At
    <3>5. CASE ReplacementStops
      BY <3>5, <2>1, <2>2 DEF ReplacementStops, TakeoverTyped, RuntimesTyped, At
    <3>6. CASE ReplacementMisses
      BY <3>6, <2>1, <2>2 DEF ReplacementMisses, TakeoverTyped, RuntimesTyped, At
    <3>7. CASE ReplacementReceives
      BY <3>7, <2>1, <2>2 DEF ReplacementReceives, TakeoverTyped, RuntimesTyped, At
    <3>8. CASE UNCHANGED repl
      BY <3>8, <2>1, <2>2
    <3> QED
      BY <3>1, <3>2, <3>3, <3>4, <3>5, <3>6, <3>7, <3>8 DEF TakeoverNext, Command,
         Prepare, Finish, RollBack, Runtimes, discordVars, queueVars, runtimeVars,
         historyVars, Plan, Begin, Finalize, Abort, Validate, StopLabel,
         StopLegacySession, ProveLegacyStopped, Backup, Authorize, Quarantine, OpenWindow,
         ResetGateway, MarkFresh, Prepared, Reconcile, Acknowledge, ReopenWindow,
         Reconciled, IssueDrain, DrainAnswers, CheckBacklog, Commit, CaptureReplacement,
         Restore, RestartLegacy, RolledBack, Fails, Killed, LegacyStarts, LegacyStops,
         LegacyMisses, LegacyReceives, LegacyWorks,
         ReplacementConnects, ReplacementWorks, Post, Edit
  <2> QED
    BY <2>3, RuntimesTyping DEF ControlInv, RuntimesTyped
<1>7. tool'.cmd = "prepare" /\ tool'.pc \in StoppedSteps => ~LegacyRuns'
  <2>1. tool'.cmd = "prepare" /\ tool'.pc \in StoppedSteps =>
          \/ tool.cmd = "prepare" /\ tool.pc \in StoppedSteps
          \/ ProveLegacyStopped /\ ~LegacyRuns /\ legacy' = legacy
    <3>1. ASSUME NEW r \in Receipts, Plan(r) PROVE tool'.cmd = "prepare" /\ tool'.pc \in StoppedSteps =>
               \/ tool.cmd = "prepare" /\ tool.pc \in StoppedSteps
               \/ ProveLegacyStopped /\ ~LegacyRuns /\ legacy' = legacy
      BY <3>1, NoCommandTyped, PlanDoes DEF Plan, At, Steps, TakeoverTyped, PrepareSteps,
         FinishSteps, StoppedSteps, RollbackSteps, StopSteps
    <3>2. ASSUME NEW r \in Receipts, Finalize(r) PROVE tool'.cmd = "prepare" /\ tool'.pc \in StoppedSteps =>
               \/ tool.cmd = "prepare" /\ tool.pc \in StoppedSteps
               \/ ProveLegacyStopped /\ ~LegacyRuns /\ legacy' = legacy
      BY <3>2, NoCommandTyped, FinalizeDoes DEF Finalize, At, Steps, TakeoverTyped,
         PrepareSteps, FinishSteps, StoppedSteps, RollbackSteps, StopSteps
    <3>3. ASSUME NEW r \in Receipts, Abort(r) PROVE tool'.cmd = "prepare" /\ tool'.pc \in StoppedSteps =>
               \/ tool.cmd = "prepare" /\ tool.pc \in StoppedSteps
               \/ ProveLegacyStopped /\ ~LegacyRuns /\ legacy' = legacy
      BY <3>3, NoCommandTyped, AbortDoes, PhaseTo DEF Abort, At, Steps, TakeoverTyped,
         PrepareSteps, FinishSteps, StoppedSteps, RollbackSteps, StopSteps
    <3>4. CASE Validate
      BY <3>4, NoCommandTyped, GoesTo, EndsTo, ValidateDoes DEF Validate, At, Steps,
         TakeoverTyped, PrepareSteps, FinishSteps, StoppedSteps, RollbackSteps, StopSteps
    <3>5. CASE StopLegacySession
      BY <3>5, NoCommandTyped, GoesTo DEF StopLegacySession, At, Steps, TakeoverTyped,
         PrepareSteps, FinishSteps, StoppedSteps, RollbackSteps, StopSteps
    <3>6. CASE ProveLegacyStopped
      BY <3>6, NoCommandTyped, GoesTo, EndsTo, RaisesTo, PhaseTo DEF ProveLegacyStopped, At,
         Steps, TakeoverTyped, PrepareSteps, FinishSteps, StoppedSteps, RollbackSteps,
         StopSteps, runtimeVars
    <3>7. CASE Backup
      BY <3>7, NoCommandTyped, BackupDoes DEF Backup, At, Steps, TakeoverTyped,
         PrepareSteps, FinishSteps, StoppedSteps, RollbackSteps, StopSteps
    <3>8. CASE Authorize
      BY <3>8, NoCommandTyped, GoesTo, EndsTo, RaisesTo, PhaseTo DEF Authorize, At, Steps,
         TakeoverTyped, PrepareSteps, FinishSteps, StoppedSteps, RollbackSteps, StopSteps
    <3>9. CASE Quarantine
      BY <3>9, NoCommandTyped, GoesTo, EndsTo, RaisesTo, QuarantineDoes DEF Quarantine, At,
         Steps, TakeoverTyped, PrepareSteps, FinishSteps, StoppedSteps, RollbackSteps,
         StopSteps
    <3>10. CASE OpenWindow
      BY <3>10, NoCommandTyped, OpenWindowDoes, WindowBounds DEF OpenWindow, At, Steps,
         TakeoverTyped, PrepareSteps, FinishSteps, StoppedSteps, RollbackSteps, StopSteps
    <3>11. CASE ResetGateway
      BY <3>11, NoCommandTyped, GoesTo, BaseDoes, QueuePlans DEF ResetGateway, At, Steps,
         TakeoverTyped, PrepareSteps, FinishSteps, StoppedSteps, RollbackSteps, StopSteps
    <3>12. CASE MarkFresh
      BY <3>12, NoCommandTyped, GoesTo DEF MarkFresh, At, Steps, TakeoverTyped,
         PrepareSteps, FinishSteps, StoppedSteps, RollbackSteps, StopSteps
    <3>13. CASE Prepared
      BY <3>13, NoCommandTyped, EndsTo, PhaseTo DEF Prepared, At, Steps, TakeoverTyped,
         PrepareSteps, FinishSteps, StoppedSteps, RollbackSteps, StopSteps
    <3>14. ASSUME NEW m \in Posts, Reconcile(m) PROVE tool'.cmd = "prepare" /\ tool'.pc \in StoppedSteps =>
               \/ tool.cmd = "prepare" /\ tool.pc \in StoppedSteps
               \/ ProveLegacyStopped /\ ~LegacyRuns /\ legacy' = legacy
      BY <3>14, NoCommandTyped, GoesTo, EndsTo, RaisesTo, ReconcileDoes DEF Reconcile, At,
         Steps, TakeoverTyped, PrepareSteps, FinishSteps, StoppedSteps, RollbackSteps,
         StopSteps, Reconciling
    <3>15. CASE Acknowledge
      BY <3>15, NoCommandTyped, AcknowledgeDoes DEF Acknowledge, At, Steps, TakeoverTyped,
         PrepareSteps, FinishSteps, StoppedSteps, RollbackSteps, StopSteps, Reconciling
    <3>16. CASE ReopenWindow
      BY <3>16, NoCommandTyped, ReopenDoes DEF ReopenWindow, At, Steps, TakeoverTyped,
         PrepareSteps, FinishSteps, StoppedSteps, RollbackSteps, StopSteps
    <3>17. CASE Reconciled
      BY <3>17, NoCommandTyped, GoesTo, ReconciledDoes DEF Reconciled, At, Steps,
         TakeoverTyped, PrepareSteps, FinishSteps, StoppedSteps, RollbackSteps, StopSteps
    <3>18. CASE IssueDrain
      BY <3>18, NoCommandTyped, GoesTo, PhaseTo DEF IssueDrain, At, Steps, TakeoverTyped,
         PrepareSteps, FinishSteps, StoppedSteps, RollbackSteps, StopSteps
    <3>19. CASE DrainAnswers
      BY <3>19, NoCommandTyped, GoesTo DEF DrainAnswers, At, Steps, TakeoverTyped,
         PrepareSteps, FinishSteps, StoppedSteps, RollbackSteps, StopSteps
    <3>20. CASE CheckBacklog
      BY <3>20, NoCommandTyped, GoesTo, EndsTo, RaisesTo DEF CheckBacklog, At, Steps,
         TakeoverTyped, PrepareSteps, FinishSteps, StoppedSteps, RollbackSteps, StopSteps
    <3>21. CASE Commit
      BY <3>21, NoCommandTyped, EndsTo, PhaseTo DEF Commit, At, Steps, TakeoverTyped,
         PrepareSteps, FinishSteps, StoppedSteps, RollbackSteps, StopSteps
    <3>22. CASE CaptureReplacement
      BY <3>22, NoCommandTyped, CaptureDoes DEF CaptureReplacement, At, Steps,
         TakeoverTyped, PrepareSteps, FinishSteps, StoppedSteps, RollbackSteps, StopSteps
    <3>23. CASE StopReplacementSession
      BY <3>23, NoCommandTyped, GoesTo, EndsTo, RaisesTo DEF StopReplacementSession, At,
         Steps, TakeoverTyped, PrepareSteps, FinishSteps, StoppedSteps, RollbackSteps,
         StopSteps
    <3>24. CASE Restore
      BY <3>24, NoCommandTyped, GoesTo DEF Restore, At, Steps, TakeoverTyped, PrepareSteps,
         FinishSteps, StoppedSteps, RollbackSteps, StopSteps
    <3>25. CASE RestartLegacy
      BY <3>25, NoCommandTyped, GoesTo DEF RestartLegacy, At, Steps, TakeoverTyped,
         PrepareSteps, FinishSteps, StoppedSteps, RollbackSteps, StopSteps
    <3>26. CASE RolledBack
      BY <3>26, NoCommandTyped, EndsTo, RolledBackDoes DEF RolledBack, At, Steps,
         TakeoverTyped, PrepareSteps, FinishSteps, StoppedSteps, RollbackSteps, StopSteps
    <3>27. CASE Fails
      BY <3>27, NoCommandTyped, GoesTo, EndsTo, RaisesTo, PhaseTo DEF Fails, At, Steps,
         TakeoverTyped, PrepareSteps, FinishSteps, StoppedSteps, RollbackSteps, StopSteps
    <3>28. CASE Killed
      BY <3>28, NoCommandTyped, EndsTo DEF Killed, At, Steps, TakeoverTyped, PrepareSteps,
         FinishSteps, StoppedSteps, RollbackSteps, StopSteps
    <3>29. CASE UNCHANGED tool
      BY <3>29, NoCommandTyped
    <3> QED
      BY <3>1, <3>2, <3>3, <3>4, <3>5, <3>6, <3>7, <3>8, <3>9, <3>10, <3>11, <3>12, <3>13,
         <3>14, <3>15, <3>16, <3>17, <3>18, <3>19, <3>20, <3>21, <3>22, <3>23, <3>24, <3>25,
         <3>26, <3>27, <3>28, <3>29 DEF TakeoverNext, Command, Prepare, Finish, RollBack,
         Runtimes, discordVars, queueVars, runtimeVars, historyVars, Begin, StopLabel,
         UnloadReplacement, LegacyStarts, LegacyStops, LegacyMisses, LegacyReceives,
         LegacyWorks, InstallerLoads, ReplacementStarts, ReplacementStops,
         ReplacementMisses, ReplacementConnects, ReplacementReceives, ReplacementWorks,
         Post, Edit
  <2> QED
    BY <2>1, LegacyRises DEF RuntimeInv, StoppedSteps, LegacyRuns
<1>8. installer' # NoTakeover /\ receipt'[installer'].phase \in StartedPhases \cup {"prepared"}
        => ~LegacyRuns'
  <2> DEFINE Kept ==
        \/ installer' \in {installer, NoTakeover}
        \/ \E r \in Receipts : Plan(r) /\ installer' = r /\ receipt' = receipt
  <2>1. Kept
    <3>1. ASSUME NEW r \in Receipts, Plan(r) PROVE Kept
      BY <3>1 DEF Plan
    <3>2. ASSUME NEW r \in Receipts, Begin(r) PROVE Kept
      BY <3>2 DEF Begin
    <3>3. ASSUME NEW r \in Receipts, Finalize(r) PROVE Kept
      BY <3>3 DEF Finalize
    <3>4. ASSUME NEW r \in Receipts, Abort(r) PROVE Kept
      BY <3>4 DEF Abort
    <3>5. CASE Validate
      BY <3>5 DEF Validate
    <3>6. CASE StopLegacySession
      BY <3>6 DEF StopLegacySession
    <3>7. CASE ProveLegacyStopped
      BY <3>7 DEF ProveLegacyStopped, Raises
    <3>8. CASE Backup
      BY <3>8 DEF Backup
    <3>9. CASE Authorize
      BY <3>9 DEF Authorize, Raises
    <3>10. CASE Quarantine
      BY <3>10 DEF Quarantine, Raises
    <3>11. CASE OpenWindow
      BY <3>11 DEF OpenWindow
    <3>12. CASE ResetGateway
      BY <3>12 DEF ResetGateway
    <3>13. CASE MarkFresh
      BY <3>13 DEF MarkFresh
    <3>14. CASE Prepared
      BY <3>14 DEF Prepared
    <3>15. ASSUME NEW m \in Posts, Reconcile(m) PROVE Kept
      BY <3>15 DEF Reconcile, Raises
    <3>16. CASE Acknowledge
      BY <3>16 DEF Acknowledge
    <3>17. CASE ReopenWindow
      BY <3>17 DEF ReopenWindow
    <3>18. CASE Reconciled
      BY <3>18 DEF Reconciled
    <3>19. CASE IssueDrain
      BY <3>19 DEF IssueDrain
    <3>20. CASE DrainAnswers
      BY <3>20 DEF DrainAnswers
    <3>21. CASE CheckBacklog
      BY <3>21 DEF CheckBacklog, Raises
    <3>22. CASE Commit
      BY <3>22 DEF Commit
    <3>23. CASE CaptureReplacement
      BY <3>23 DEF CaptureReplacement
    <3>24. CASE StopReplacementSession
      BY <3>24 DEF StopReplacementSession, Raises
    <3>25. CASE Restore
      BY <3>25 DEF Restore
    <3>26. CASE RestartLegacy
      BY <3>26 DEF RestartLegacy
    <3>27. CASE RolledBack
      BY <3>27 DEF RolledBack
    <3>28. CASE Fails
      BY <3>28 DEF Fails, Raises
    <3>29. CASE Killed
      BY <3>29 DEF Killed
    <3>30. CASE UNCHANGED installer
      BY <3>30
    <3> QED
      BY <3>1, <3>2, <3>3, <3>4, <3>5, <3>6, <3>7, <3>8, <3>9, <3>10, <3>11, <3>12, <3>13,
         <3>14, <3>15, <3>16, <3>17, <3>18, <3>19, <3>20, <3>21, <3>22, <3>23, <3>24, <3>25,
         <3>26, <3>27, <3>28, <3>29, <3>30 DEF TakeoverNext, Command, Prepare, Finish,
         RollBack, Runtimes, discordVars, queueVars, runtimeVars, historyVars, StopLabel,
         UnloadReplacement, LegacyStarts, LegacyStops, LegacyMisses, LegacyReceives,
         LegacyWorks, InstallerLoads, ReplacementStarts, ReplacementStops,
         ReplacementMisses, ReplacementConnects, ReplacementReceives, ReplacementWorks,
         Post, Edit
  <2> SUFFICES ASSUME installer' # NoTakeover,
                      receipt'[installer'].phase \in StartedPhases \cup {"prepared"}
               PROVE  ~LegacyRuns'
    OBVIOUS
  <2>2. installer' = installer
    BY <2>1, PhaseSets DEF Plan
  <2>3. installer \in Receipts
    BY <2>2 DEF TakeoverTyped, OthersTyped
  <2>4. \/ receipt[installer].phase \in StartedPhases \cup {"prepared"}
        \/ tool.cmd = "prepare" /\ tool.pc = "prepared"
    BY <2>2, <2>3, PreparedBefore
  <2>5. ~LegacyRuns
    BY <2>2, <2>4 DEF RuntimeInv, StoppedSteps
  <2>6. tool.pc # "restart"
    BY <2>2, NoCommandTyped DEF ControlInv, InstallerFits, StepsFit, Preparing, Finishing,
       PrepareSteps, StoppedSteps, FinishSteps
  <2> QED
    BY <2>5, <2>6, LegacyRises
<1> QED
  BY <1>2, <1>4, <1>5, <1>6, <1>7, <1>8 DEF RuntimeInv

-----------------------------------------------------------------------------
(* The queue, step by step *)

OthersSame(m) == \A n \in Posts \ {m} : rows'[n] = rows[n]
Added(m) ==
  /\ OthersSame(m)
  /\ rows[m] = NoRow => rows'[m].state = "received"
  /\ rows[m] # NoRow => rows'[m] = rows[m]
Advanced(m) ==
  /\ OthersSame(m)
  /\ \/ rows[m].state = "received" /\ rows'[m].state = "claimed"
     \/ rows[m].state = "claimed" /\ rows'[m].state = "dispatched"
     \/ rows[m].state = "dispatched" /\ rows'[m].state = "spawned"
     \/ rows[m].state = "spawned" /\ rows'[m].state = "done"
SetAside ==
  /\ tool.cmd = "prepare" /\ tool.pc = "quarantine" /\ tool.r \in Receipts
  /\ \A m \in Doubtful : /\ quarantine'[m].by = tool.r /\ quarantine'[m].row = rows[m]
                         /\ rows'[m].state = "errored"
  /\ \A m \in Posts \ Doubtful : rows'[m] = rows[m] /\ quarantine'[m] = quarantine[m]
PutBack ==
  /\ Restore /\ Restores
  /\ \A m \in Mine : rows'[m] = quarantine[m].row /\ quarantine'[m].by = NoTakeover
  /\ \A m \in Posts \ Mine : rows'[m] = rows[m] /\ quarantine'[m] = quarantine[m]

QueueStep ==
  \/ rows' = rows /\ quarantine' = quarantine
  \/ Quarantine /\ SetAside /\ receipt' = receipt
  \/ PutBack /\ receipt' = receipt
  \/ /\ quarantine' = quarantine /\ receipt' = receipt
     /\ \E m \in Posts :
          \/ Reconcile(m) /\ Added(m)
          \/ LegacyReceives /\ LegacyRuns /\ m = legacy.seen + 1 /\ Added(m)
          \/ ReplacementReceives /\ repl.up /\ m = repl.seen + 1 /\ Added(m)
          \/ Acknowledge /\ m = tool.at /\ OthersSame(m) /\ rows'[m].state = rows[m].state
          \/ LegacyWorks(m) /\ LegacyRuns /\ Advanced(m)
          \/ ReplacementWorks(m) /\ ReplacementRuns /\ Advanced(m)

\* Every step does to the queue what QueueStep says.
LEMMA QueueSteps ==
  ASSUME TakeoverTyped, ControlInv, TakeoverNext
  PROVE  QueueStep
<1> USE TakeoverAssumption DEF TakeoverTyped
<1>1. CASE Quarantine
  <2>1. tool.cmd = "prepare" /\ tool.pc = "quarantine" /\ receipt' = receipt
    BY <1>1 DEF Quarantine, At
  <2>2. tool.r \in Receipts
    BY <2>1, CommandFinds
  <2> QED
    BY <1>1, <2>1, <2>2, QuarantineDoes DEF QueueStep, SetAside
<1>2. CASE Restore
  <2>1. receipt' = receipt
    BY <1>2 DEF Restore
  <2> QED
    BY <1>2, <2>1, RestoreDoes DEF QueueStep, PutBack
<1>3. ASSUME NEW m \in Posts, Reconcile(m) PROVE QueueStep
  <2>1. quarantine' = quarantine /\ receipt' = receipt
    BY <1>3 DEF Reconcile
  <2>2. rows' = rows \/ rows' = [rows EXCEPT ![m] = IF @ = NoRow THEN NewRow ELSE @]
    BY <1>3 DEF Reconcile
  <2> QED
    BY <1>3, <2>1, <2>2, ReconciledRowTo DEF QueueStep, Added, OthersSame
<1>4. CASE Acknowledge
  <2>1. tool.at \in Posts
    BY <1>4 DEF Acknowledge, ToolTyped, Tool, Posts
  <2>2. /\ quarantine' = quarantine /\ receipt' = receipt
        /\ rows' = [rows EXCEPT ![tool.at].acked = TRUE]
    BY <1>4 DEF Acknowledge
  <2> QED
    BY <1>4, <2>1, <2>2, AcknowledgedTo DEF QueueStep, OthersSame
<1>5. CASE LegacyReceives
  <2>1. legacy.seen + 1 \in Posts
    BY <1>5 DEF LegacyReceives, RuntimesTyped, OthersTyped, Posts
  <2>2. /\ quarantine' = quarantine /\ receipt' = receipt /\ LegacyRuns
        /\ Enqueued(legacy.seen + 1)
    BY <1>5 DEF LegacyReceives, LegacyRuns
  <2> QED
    BY <1>5, <2>1, <2>2, EnqueuedTo DEF QueueStep, Added, OthersSame
<1>6. CASE ReplacementReceives
  <2>1. repl.seen + 1 \in Posts
    BY <1>6 DEF ReplacementReceives, RuntimesTyped, OthersTyped, Posts
  <2>2. /\ quarantine' = quarantine /\ receipt' = receipt /\ repl.up
        /\ Enqueued(repl.seen + 1)
    BY <1>6 DEF ReplacementReceives
  <2> QED
    BY <1>6, <2>1, <2>2, EnqueuedTo DEF QueueStep, Added, OthersSame
<1>7. ASSUME NEW m \in Posts, LegacyWorks(m) PROVE QueueStep
  <2>1. quarantine' = quarantine /\ receipt' = receipt /\ LegacyRuns /\ Worked(m, LegacyOps)
    BY <1>7 DEF LegacyWorks, LegacyRuns
  <2> QED
    BY <1>7, <2>1, WorkedTo DEF QueueStep, Advanced, OthersSame
<1>8. ASSUME NEW m \in Posts, ReplacementWorks(m) PROVE QueueStep
  <2>1. /\ quarantine' = quarantine /\ receipt' = receipt /\ ReplacementRuns
        /\ Worked(m, {"known"})
    BY <1>8 DEF ReplacementWorks, ReplacementRuns
  <2> QED
    BY <1>8, <2>1, WorkedTo DEF QueueStep, Advanced, OthersSame
<1>9. CASE UNCHANGED <<rows, quarantine>>
  BY <1>9 DEF QueueStep
<1> QED
  BY <1>1, <1>2, <1>3, <1>4, <1>5, <1>6, <1>7, <1>8, <1>9 DEF TakeoverNext, Command,
     Prepare, Finish, RollBack, Runtimes, discordVars, queueVars, runtimeVars,
     historyVars, Plan, Begin, Finalize, Abort, Validate, StopLabel, StopLegacySession,
     ProveLegacyStopped, Backup, Authorize, OpenWindow, ResetGateway, MarkFresh, Prepared,
     ReopenWindow, Reconciled, IssueDrain, DrainAnswers, CheckBacklog, Commit,
     CaptureReplacement, UnloadReplacement, StopReplacementSession, RestartLegacy,
     RolledBack, Fails, Killed, LegacyStarts, LegacyStops, LegacyMisses, InstallerLoads,
     ReplacementStarts, ReplacementStops, ReplacementMisses, ReplacementConnects, Post,
     Edit

-----------------------------------------------------------------------------
(* The Gateway's session and the rows set aside *)

\* prepare backs up a Gateway session that is not the replacement's own.
LEMMA BackupFinds ==
  ASSUME ControlInv, SessionInv
  PROVE  SessionFits
<1>1. tool.pc = "backup" => tool.cmd = "prepare"
  BY NoCommandTyped DEF ControlInv, StepsFit, FinishSteps, StopSteps, RollbackSteps
<1> QED
  BY <1>1, CommandFinds DEF SessionInv, SessionFits

\* What a rollback finds when it restores.
LEMMA RestoreFinds ==
  ASSUME TakeoverTyped, ControlInv, Restore
  PROVE  /\ tool.r \in Receipts /\ tool.cmd \in {"prepare", "abort"}
         /\ ~receipt[tool.r].backup => receipt[tool.r].phase \in Unbacked /\ ~Served
         /\ ~Restores => ~receipt[tool.r].backup
<1>1. tool.pc = "restore" /\ tool.cmd \in {"prepare", "abort"} /\ tool.r \in Receipts
  BY NoCommandTyped DEF Restore, ControlInv, StepsFit, FinishSteps
<1>2. receipt[tool.r].phase \in EarlyPhases \cup StartedPhases \cup {"prepared"}
  BY <1>1, CommandFinds
<1>3. ~receipt[tool.r].backup => receipt[tool.r].phase \in Unbacked \ {"absent"}
  BY <1>1, <1>2, PhaseSets DEF ControlInv, BackupsFit
<1>4. ~receipt[tool.r].backup => ~Served
  BY <1>1, <1>3, PhaseSets, NotServed
<1>5. ~Restores => tool.cmd = "prepare" /\ ~receipt[tool.r].backup
  BY <1>1 DEF Restores, ControlInv, BackupsFit
<1> QED
  BY <1>1, <1>3, <1>4, <1>5

\* Every step keeps the Gateway session's owner.
LEMMA SessionStep ==
  ASSUME TakeoverTyped, ControlInv, RuntimeInv, SessionInv, TakeoverNext
  PROVE  SessionInv'
<1>1. SessionFits
  BY BackupFinds
<1>2. session' = "own" => Served'
  <2>1. CASE ReplacementConnects
    BY <2>1 DEF ReplacementConnects, RuntimeInv, ReplacementRuns, Served
  <2>2. CASE Restore
    <3>1. session' = "own" => session = "own"
      BY <2>2, RestoreDoes DEF TakeoverTyped, Session
    <3> QED
      BY <2>2, <3>1 DEF Restore, SessionInv, Served
  <2>3. CASE MarkFresh
    BY <2>3 DEF MarkFresh
  <2>4. CASE RolledBack
    BY <2>4 DEF RolledBack, runtimeVars, SessionInv
  <2>5. CASE UNCHANGED session /\ ~RolledBack
    BY <1>1, <2>5, ServedStays DEF SessionInv
  <2> QED
    BY <2>1, <2>2, <2>3, <2>4, <2>5 DEF TakeoverNext, Command, Prepare, Finish, RollBack,
       Runtimes, discordVars, queueVars, runtimeVars, historyVars, Plan, Begin, Finalize,
       Abort, Validate, StopLabel, StopLegacySession, ProveLegacyStopped, Backup,
       Authorize, Quarantine, OpenWindow, ResetGateway, Prepared, Reconcile, Acknowledge,
       ReopenWindow, Reconciled, IssueDrain, DrainAnswers, CheckBacklog, Commit,
       CaptureReplacement, UnloadReplacement, StopReplacementSession, RestartLegacy,
       Fails, Killed, LegacyStarts, LegacyStops, LegacyMisses, LegacyReceives,
       LegacyWorks, InstallerLoads, ReplacementStarts, ReplacementStops,
       ReplacementMisses, ReplacementReceives, ReplacementWorks, Post, Edit
<1>3. tool'.pc \in {"restart", "save"} =>
        /\ session' # "own"
        /\ receipt'[tool'.r].backup => session' = receipt'[tool'.r].gateway
  <2> SUFFICES ASSUME tool'.pc \in {"restart", "save"}
               PROVE  /\ session' # "own"
                      /\ receipt'[tool'.r].backup => session' = receipt'[tool'.r].gateway
    OBVIOUS
  <2>1. CASE Restore
    <3>1. tool'.r = tool.r /\ receipt' = receipt
      BY <2>1, GoesTo DEF Restore, Steps, RollbackSteps, TakeoverTyped
    <3>2. CASE receipt[tool.r].backup
      <4>1. session' = Session(tool.r)
        BY <2>1, <3>2, RestoreFinds, RestoreDoes DEF TakeoverTyped
      <4>2. receipt[tool.r].gateway \in {"none", "prior"}
        BY <2>1, RestoreFinds DEF TakeoverTyped, ReceiptTyped, Receipt
      <4> QED
        BY <3>1, <4>1, <4>2 DEF Session
    <3>3. CASE ~receipt[tool.r].backup
      <4>1. session' = session /\ ~Served
        BY <2>1, <3>3, RestoreFinds, RestoreDoes DEF TakeoverTyped
      <4> QED
        BY <3>1, <3>3, <4>1 DEF SessionInv
    <3> QED
      BY <3>2, <3>3
  <2>2. CASE ~Restore
    <3>1. tool.pc \in {"restart", "save"} /\ tool'.r = tool.r /\ receipt' = receipt
      <4> DEFINE Kept == tool.pc \in {"restart", "save"} /\ tool'.r = tool.r /\ receipt' = receipt
      <4>1. ASSUME NEW r \in Receipts, Plan(r) PROVE Kept
        BY <4>1, <2>2, NoCommandTyped, PlanDoes DEF Plan, At, Steps, TakeoverTyped,
           PrepareSteps, FinishSteps, StoppedSteps, RollbackSteps, StopSteps
      <4>2. ASSUME NEW r \in Receipts, Begin(r) PROVE Kept
        BY <4>2, <2>2, NoCommandTyped, BaseDoes, QueuePlans DEF Begin
      <4>3. ASSUME NEW r \in Receipts, Finalize(r) PROVE Kept
        BY <4>3, <2>2, NoCommandTyped, FinalizeDoes DEF Finalize, At, Steps, TakeoverTyped,
           PrepareSteps, FinishSteps, StoppedSteps, RollbackSteps, StopSteps
      <4>4. ASSUME NEW r \in Receipts, Abort(r) PROVE Kept
        BY <4>4, <2>2, NoCommandTyped, AbortTo DEF Abort, At, Steps, TakeoverTyped,
           PrepareSteps, FinishSteps, StoppedSteps, RollbackSteps, StopSteps
      <4>5. CASE Validate
        BY <4>5, <2>2, NoCommandTyped, ValidateTo DEF Validate, At, Steps, TakeoverTyped,
           PrepareSteps, FinishSteps, StoppedSteps, RollbackSteps, StopSteps
      <4>6. CASE StopLegacySession
        BY <4>6, <2>2, NoCommandTyped, GoesTo DEF StopLegacySession, At, Steps,
           TakeoverTyped, PrepareSteps, FinishSteps, StoppedSteps, RollbackSteps, StopSteps
      <4>7. CASE ProveLegacyStopped
        BY <4>7, <2>2, NoCommandTyped, GoesTo, EndsTo, RaisesTo, PhaseTo DEF
           ProveLegacyStopped, At, Steps, TakeoverTyped, PrepareSteps, FinishSteps,
           StoppedSteps, RollbackSteps, StopSteps
      <4>8. CASE Backup
        BY <4>8, <2>2, NoCommandTyped, BackupDoes DEF Backup, At, Steps, TakeoverTyped,
           PrepareSteps, FinishSteps, StoppedSteps, RollbackSteps, StopSteps
      <4>9. CASE Authorize
        BY <4>9, <2>2, NoCommandTyped, GoesTo, EndsTo, RaisesTo, PhaseTo DEF Authorize, At,
           Steps, TakeoverTyped, PrepareSteps, FinishSteps, StoppedSteps, RollbackSteps,
           StopSteps
      <4>10. CASE Quarantine
        BY <4>10, <2>2, NoCommandTyped, GoesTo, EndsTo, RaisesTo, QuarantineDoes DEF
           Quarantine, At, Steps, TakeoverTyped, PrepareSteps, FinishSteps, StoppedSteps,
           RollbackSteps, StopSteps
      <4>11. CASE OpenWindow
        BY <4>11, <2>2, NoCommandTyped, OpenWindowDoes, WindowBounds DEF OpenWindow, At,
           Steps, TakeoverTyped, PrepareSteps, FinishSteps, StoppedSteps, RollbackSteps,
           StopSteps
      <4>12. CASE ResetGateway
        BY <4>12, <2>2, NoCommandTyped, GoesTo, BaseDoes, QueuePlans DEF ResetGateway, At,
           Steps, TakeoverTyped, PrepareSteps, FinishSteps, StoppedSteps, RollbackSteps,
           StopSteps
      <4>13. CASE MarkFresh
        BY <4>13, <2>2, NoCommandTyped, GoesTo DEF MarkFresh, At, Steps, TakeoverTyped,
           PrepareSteps, FinishSteps, StoppedSteps, RollbackSteps, StopSteps
      <4>14. CASE Prepared
        BY <4>14, <2>2, NoCommandTyped, EndsTo, PhaseTo DEF Prepared, At, Steps,
           TakeoverTyped, PrepareSteps, FinishSteps, StoppedSteps, RollbackSteps, StopSteps
      <4>15. ASSUME NEW m \in Posts, Reconcile(m) PROVE Kept
        BY <4>15, <2>2, NoCommandTyped, GoesTo, EndsTo, RaisesTo, ReconcileDoes DEF
           Reconcile, At, Steps, TakeoverTyped, PrepareSteps, FinishSteps, StoppedSteps,
           RollbackSteps, StopSteps, Reconciling
      <4>16. CASE Acknowledge
        BY <4>16, <2>2, NoCommandTyped, AcknowledgeDoes DEF Acknowledge, At, Steps,
           TakeoverTyped, PrepareSteps, FinishSteps, StoppedSteps, RollbackSteps, StopSteps,
           Reconciling
      <4>17. CASE ReopenWindow
        BY <4>17, <2>2, NoCommandTyped, ReopenDoes DEF ReopenWindow, At, Steps,
           TakeoverTyped, PrepareSteps, FinishSteps, StoppedSteps, RollbackSteps, StopSteps
      <4>18. CASE Reconciled
        BY <4>18, <2>2, NoCommandTyped, GoesTo, ReconciledDoes DEF Reconciled, At, Steps,
           TakeoverTyped, PrepareSteps, FinishSteps, StoppedSteps, RollbackSteps, StopSteps
      <4>19. CASE IssueDrain
        BY <4>19, <2>2, NoCommandTyped, GoesTo, PhaseTo DEF IssueDrain, At, Steps,
           TakeoverTyped, PrepareSteps, FinishSteps, StoppedSteps, RollbackSteps, StopSteps
      <4>20. CASE DrainAnswers
        BY <4>20, <2>2, NoCommandTyped, GoesTo DEF DrainAnswers, At, Steps, TakeoverTyped,
           PrepareSteps, FinishSteps, StoppedSteps, RollbackSteps, StopSteps
      <4>21. CASE CheckBacklog
        BY <4>21, <2>2, NoCommandTyped, GoesTo, EndsTo, RaisesTo DEF CheckBacklog, At,
           Steps, TakeoverTyped, PrepareSteps, FinishSteps, StoppedSteps, RollbackSteps,
           StopSteps
      <4>22. CASE Commit
        BY <4>22, <2>2, NoCommandTyped, EndsTo, PhaseTo DEF Commit, At, Steps,
           TakeoverTyped, PrepareSteps, FinishSteps, StoppedSteps, RollbackSteps, StopSteps
      <4>23. CASE CaptureReplacement
        BY <4>23, <2>2, NoCommandTyped, CaptureDoes DEF CaptureReplacement, At, Steps,
           TakeoverTyped, PrepareSteps, FinishSteps, StoppedSteps, RollbackSteps, StopSteps
      <4>24. CASE StopReplacementSession
        BY <4>24, <2>2, NoCommandTyped, GoesTo, EndsTo, RaisesTo DEF StopReplacementSession,
           At, Steps, TakeoverTyped, PrepareSteps, FinishSteps, StoppedSteps, RollbackSteps,
           StopSteps
      <4>25. CASE Restore
        BY <4>25, <2>2, NoCommandTyped, GoesTo DEF Restore, At, Steps, TakeoverTyped,
           PrepareSteps, FinishSteps, StoppedSteps, RollbackSteps, StopSteps
      <4>26. CASE RestartLegacy
        BY <4>26, <2>2, NoCommandTyped, GoesTo DEF RestartLegacy, At, Steps, TakeoverTyped,
           PrepareSteps, FinishSteps, StoppedSteps, RollbackSteps, StopSteps
      <4>27. CASE RolledBack
        BY <4>27, <2>2, NoCommandTyped, EndsTo, RolledBackDoes DEF RolledBack, At, Steps,
           TakeoverTyped, PrepareSteps, FinishSteps, StoppedSteps, RollbackSteps, StopSteps
      <4>28. CASE Fails
        BY <4>28, <2>2, NoCommandTyped, GoesTo, EndsTo, RaisesTo, PhaseTo DEF Fails, At,
           Steps, TakeoverTyped, PrepareSteps, FinishSteps, StoppedSteps, RollbackSteps,
           StopSteps
      <4>29. CASE Killed
        BY <4>29, <2>2, NoCommandTyped, EndsTo DEF Killed, At, Steps, TakeoverTyped,
           PrepareSteps, FinishSteps, StoppedSteps, RollbackSteps, StopSteps
      <4>30. CASE UNCHANGED <<tool, receipt>>
        BY <4>30, <2>2, NoCommandTyped
      <4> QED
        BY <4>1, <4>2, <4>3, <4>4, <4>5, <4>6, <4>7, <4>8, <4>9, <4>10, <4>11, <4>12, <4>13,
           <4>14, <4>15, <4>16, <4>17, <4>18, <4>19, <4>20, <4>21, <4>22, <4>23, <4>24,
           <4>25, <4>26, <4>27, <4>28, <4>29, <4>30 DEF TakeoverNext, Command, Prepare,
           Finish, RollBack, Runtimes, discordVars, queueVars, runtimeVars, historyVars,
           StopLabel, UnloadReplacement, LegacyStarts, LegacyStops, LegacyMisses,
           LegacyReceives, LegacyWorks, InstallerLoads, ReplacementStarts, ReplacementStops,
           ReplacementMisses, ReplacementConnects, ReplacementReceives, ReplacementWorks,
           Post, Edit
    <3>2. session' = session
      <4>1. CASE MarkFresh
        BY <4>1, <2>2, <3>1 DEF MarkFresh, At
      <4>2. CASE Restore
        BY <4>2, <2>2, <3>1 DEF Restore
      <4>3. CASE ReplacementConnects
        BY <4>3, <2>2, <3>1 DEF ReplacementConnects, RuntimeInv, RollingBack,
           ReplacementRuns
      <4>4. CASE UNCHANGED session
        BY <4>4, <2>2, <3>1
      <4> QED
        BY <4>1, <4>2, <4>3, <4>4 DEF TakeoverNext, Command, Prepare, Finish, RollBack,
           Runtimes, discordVars, queueVars, runtimeVars, historyVars, Plan, Begin,
           Finalize, Abort, Validate, StopLabel, StopLegacySession, ProveLegacyStopped,
           Backup, Authorize, Quarantine, OpenWindow, ResetGateway, Prepared, Reconcile,
           Acknowledge, ReopenWindow, Reconciled, IssueDrain, DrainAnswers, CheckBacklog,
           Commit, CaptureReplacement, UnloadReplacement, StopReplacementSession,
           RestartLegacy, RolledBack, Fails, Killed, LegacyStarts, LegacyStops,
           LegacyMisses, LegacyReceives, LegacyWorks, InstallerLoads, ReplacementStarts,
           ReplacementStops, ReplacementMisses, ReplacementReceives, ReplacementWorks,
           Post, Edit
    <3> QED
      BY <3>1, <3>2 DEF SessionInv
  <2> QED
    BY <2>1, <2>2
<1>4. tool'.pc = "save" => LegacyLoaded'
  <2> SUFFICES ASSUME tool'.pc = "save" PROVE LegacyLoaded'
    OBVIOUS
  <2>1. CASE RestartLegacy
    BY <2>1 DEF RestartLegacy, Listening, LegacyLoaded, TakeoverTyped, RuntimesTyped
  <2>2. CASE ~RestartLegacy
    <3>1. tool.pc = "save"
      <4>1. ASSUME NEW r \in Receipts, Plan(r) PROVE tool.pc = "save"
        BY <4>1, <2>2, NoCommandTyped, PlanDoes DEF Plan, At, Steps, TakeoverTyped,
           PrepareSteps, FinishSteps, StoppedSteps, RollbackSteps, StopSteps
      <4>2. ASSUME NEW r \in Receipts, Finalize(r) PROVE tool.pc = "save"
        BY <4>2, <2>2, NoCommandTyped, FinalizeDoes DEF Finalize, At, Steps, TakeoverTyped,
           PrepareSteps, FinishSteps, StoppedSteps, RollbackSteps, StopSteps
      <4>3. ASSUME NEW r \in Receipts, Abort(r) PROVE tool.pc = "save"
        BY <4>3, <2>2, NoCommandTyped, AbortTo DEF Abort, At, Steps, TakeoverTyped,
           PrepareSteps, FinishSteps, StoppedSteps, RollbackSteps, StopSteps
      <4>4. CASE Validate
        BY <4>4, <2>2, NoCommandTyped, ValidateTo DEF Validate, At, Steps, TakeoverTyped,
           PrepareSteps, FinishSteps, StoppedSteps, RollbackSteps, StopSteps
      <4>5. CASE StopLegacySession
        BY <4>5, <2>2, NoCommandTyped, GoesTo DEF StopLegacySession, At, Steps,
           TakeoverTyped, PrepareSteps, FinishSteps, StoppedSteps, RollbackSteps, StopSteps
      <4>6. CASE ProveLegacyStopped
        BY <4>6, <2>2, NoCommandTyped, GoesTo, EndsTo, RaisesTo, PhaseTo DEF
           ProveLegacyStopped, At, Steps, TakeoverTyped, PrepareSteps, FinishSteps,
           StoppedSteps, RollbackSteps, StopSteps
      <4>7. CASE Backup
        BY <4>7, <2>2, NoCommandTyped, BackupDoes DEF Backup, At, Steps, TakeoverTyped,
           PrepareSteps, FinishSteps, StoppedSteps, RollbackSteps, StopSteps
      <4>8. CASE Authorize
        BY <4>8, <2>2, NoCommandTyped, GoesTo, EndsTo, RaisesTo, PhaseTo DEF Authorize, At,
           Steps, TakeoverTyped, PrepareSteps, FinishSteps, StoppedSteps, RollbackSteps,
           StopSteps
      <4>9. CASE Quarantine
        BY <4>9, <2>2, NoCommandTyped, GoesTo, EndsTo, RaisesTo, QuarantineDoes DEF
           Quarantine, At, Steps, TakeoverTyped, PrepareSteps, FinishSteps, StoppedSteps,
           RollbackSteps, StopSteps
      <4>10. CASE OpenWindow
        BY <4>10, <2>2, NoCommandTyped, OpenWindowDoes, WindowBounds DEF OpenWindow, At,
           Steps, TakeoverTyped, PrepareSteps, FinishSteps, StoppedSteps, RollbackSteps,
           StopSteps
      <4>11. CASE ResetGateway
        BY <4>11, <2>2, NoCommandTyped, GoesTo, BaseDoes, QueuePlans DEF ResetGateway, At,
           Steps, TakeoverTyped, PrepareSteps, FinishSteps, StoppedSteps, RollbackSteps,
           StopSteps
      <4>12. CASE MarkFresh
        BY <4>12, <2>2, NoCommandTyped, GoesTo DEF MarkFresh, At, Steps, TakeoverTyped,
           PrepareSteps, FinishSteps, StoppedSteps, RollbackSteps, StopSteps
      <4>13. CASE Prepared
        BY <4>13, <2>2, NoCommandTyped, EndsTo, PhaseTo DEF Prepared, At, Steps,
           TakeoverTyped, PrepareSteps, FinishSteps, StoppedSteps, RollbackSteps, StopSteps
      <4>14. ASSUME NEW m \in Posts, Reconcile(m) PROVE tool.pc = "save"
        BY <4>14, <2>2, NoCommandTyped, GoesTo, EndsTo, RaisesTo, ReconcileDoes DEF
           Reconcile, At, Steps, TakeoverTyped, PrepareSteps, FinishSteps, StoppedSteps,
           RollbackSteps, StopSteps, Reconciling
      <4>15. CASE Acknowledge
        BY <4>15, <2>2, NoCommandTyped, AcknowledgeDoes DEF Acknowledge, At, Steps,
           TakeoverTyped, PrepareSteps, FinishSteps, StoppedSteps, RollbackSteps, StopSteps,
           Reconciling
      <4>16. CASE ReopenWindow
        BY <4>16, <2>2, NoCommandTyped, ReopenDoes DEF ReopenWindow, At, Steps,
           TakeoverTyped, PrepareSteps, FinishSteps, StoppedSteps, RollbackSteps, StopSteps
      <4>17. CASE Reconciled
        BY <4>17, <2>2, NoCommandTyped, GoesTo, ReconciledDoes DEF Reconciled, At, Steps,
           TakeoverTyped, PrepareSteps, FinishSteps, StoppedSteps, RollbackSteps, StopSteps
      <4>18. CASE IssueDrain
        BY <4>18, <2>2, NoCommandTyped, GoesTo, PhaseTo DEF IssueDrain, At, Steps,
           TakeoverTyped, PrepareSteps, FinishSteps, StoppedSteps, RollbackSteps, StopSteps
      <4>19. CASE DrainAnswers
        BY <4>19, <2>2, NoCommandTyped, GoesTo DEF DrainAnswers, At, Steps, TakeoverTyped,
           PrepareSteps, FinishSteps, StoppedSteps, RollbackSteps, StopSteps
      <4>20. CASE CheckBacklog
        BY <4>20, <2>2, NoCommandTyped, GoesTo, EndsTo, RaisesTo DEF CheckBacklog, At,
           Steps, TakeoverTyped, PrepareSteps, FinishSteps, StoppedSteps, RollbackSteps,
           StopSteps
      <4>21. CASE Commit
        BY <4>21, <2>2, NoCommandTyped, EndsTo, PhaseTo DEF Commit, At, Steps,
           TakeoverTyped, PrepareSteps, FinishSteps, StoppedSteps, RollbackSteps, StopSteps
      <4>22. CASE CaptureReplacement
        BY <4>22, <2>2, NoCommandTyped, CaptureDoes DEF CaptureReplacement, At, Steps,
           TakeoverTyped, PrepareSteps, FinishSteps, StoppedSteps, RollbackSteps, StopSteps
      <4>23. CASE StopReplacementSession
        BY <4>23, <2>2, NoCommandTyped, GoesTo, EndsTo, RaisesTo DEF StopReplacementSession,
           At, Steps, TakeoverTyped, PrepareSteps, FinishSteps, StoppedSteps, RollbackSteps,
           StopSteps
      <4>24. CASE Restore
        BY <4>24, <2>2, NoCommandTyped, GoesTo DEF Restore, At, Steps, TakeoverTyped,
           PrepareSteps, FinishSteps, StoppedSteps, RollbackSteps, StopSteps
      <4>25. CASE RestartLegacy
        BY <4>25, <2>2, NoCommandTyped, GoesTo DEF RestartLegacy, At, Steps, TakeoverTyped,
           PrepareSteps, FinishSteps, StoppedSteps, RollbackSteps, StopSteps
      <4>26. CASE RolledBack
        BY <4>26, <2>2, NoCommandTyped, EndsTo, RolledBackDoes DEF RolledBack, At, Steps,
           TakeoverTyped, PrepareSteps, FinishSteps, StoppedSteps, RollbackSteps, StopSteps
      <4>27. CASE Fails
        BY <4>27, <2>2, NoCommandTyped, GoesTo, EndsTo, RaisesTo, PhaseTo DEF Fails, At,
           Steps, TakeoverTyped, PrepareSteps, FinishSteps, StoppedSteps, RollbackSteps,
           StopSteps
      <4>28. CASE Killed
        BY <4>28, <2>2, NoCommandTyped, EndsTo DEF Killed, At, Steps, TakeoverTyped,
           PrepareSteps, FinishSteps, StoppedSteps, RollbackSteps, StopSteps
      <4>29. CASE UNCHANGED tool
        BY <4>29, <2>2, NoCommandTyped
      <4> QED
        BY <4>1, <4>2, <4>3, <4>4, <4>5, <4>6, <4>7, <4>8, <4>9, <4>10, <4>11, <4>12, <4>13,
           <4>14, <4>15, <4>16, <4>17, <4>18, <4>19, <4>20, <4>21, <4>22, <4>23, <4>24,
           <4>25, <4>26, <4>27, <4>28, <4>29 DEF TakeoverNext, Command, Prepare, Finish,
           RollBack, Runtimes, discordVars, queueVars, runtimeVars, historyVars, Begin,
           StopLabel, UnloadReplacement, LegacyStarts, LegacyStops, LegacyMisses,
           LegacyReceives, LegacyWorks, InstallerLoads, ReplacementStarts, ReplacementStops,
           ReplacementMisses, ReplacementConnects, ReplacementReceives, ReplacementWorks,
           Post, Edit
    <3>2. LegacyLoaded
      BY <3>1 DEF SessionInv
    <3>3. LegacyLoaded'
      <4>1. ASSUME NEW s \in Services, StopLabel(s) PROVE LegacyLoaded'
        BY <4>1, <2>2, <3>1, <3>2 DEF StopLabel, At, LegacyLoaded, TakeoverTyped,
           RuntimesTyped
      <4>2. CASE StopLegacySession
        BY <4>2, <2>2, <3>1, <3>2 DEF StopLegacySession, At, LegacyLoaded, TakeoverTyped,
           RuntimesTyped
      <4>3. CASE RestartLegacy
        BY <4>3, <2>2, <3>1, <3>2 DEF RestartLegacy, At, LegacyLoaded, TakeoverTyped,
           RuntimesTyped
      <4>4. CASE Fails
        BY <4>4, <2>2, <3>1, <3>2 DEF Fails, At, LegacyLoaded, TakeoverTyped, RuntimesTyped,
           RollingBack
      <4>5. CASE LegacyStarts
        BY <4>5, <2>2, <3>1, <3>2 DEF LegacyStarts, Listening, LegacyLoaded, TakeoverTyped,
           RuntimesTyped
      <4>6. CASE LegacyReceives
        BY <4>6, <2>2, <3>1, <3>2 DEF LegacyReceives, At, LegacyLoaded, TakeoverTyped,
           RuntimesTyped
      <4>7. CASE LegacyStops
        BY <4>7, <2>2, <3>1, <3>2 DEF LegacyStops, LegacyLoaded, TakeoverTyped, RuntimesTyped
      <4>8. CASE LegacyMisses
        BY <4>8, <2>2, <3>1, <3>2 DEF LegacyMisses, LegacyLoaded, TakeoverTyped,
           RuntimesTyped
      <4>9. CASE UNCHANGED legacy
        BY <4>9, <2>2, <3>1, <3>2 DEF LegacyLoaded
      <4> QED
        BY <4>1, <4>2, <4>3, <4>4, <4>5, <4>6, <4>7, <4>8, <4>9 DEF TakeoverNext, Command, Prepare,
           Finish, RollBack, Runtimes, discordVars, queueVars, runtimeVars, historyVars,
           Plan, Begin, Finalize, Abort, Validate, ProveLegacyStopped, Backup, Authorize,
           Quarantine, OpenWindow, ResetGateway, MarkFresh, Prepared, Reconcile,
           Acknowledge, ReopenWindow, Reconciled, IssueDrain, DrainAnswers, CheckBacklog,
           Commit, CaptureReplacement, UnloadReplacement, StopReplacementSession, Restore,
           RolledBack, Killed, LegacyWorks, InstallerLoads, ReplacementStarts,
           ReplacementStops, ReplacementMisses, ReplacementConnects, ReplacementReceives,
           ReplacementWorks, Post, Edit
    <3> QED
      BY <3>3
  <2> QED
    BY <2>1, <2>2
<1> QED
  BY <1>2, <1>3, <1>4 DEF SessionInv

\* While prepare works on a queue that nobody else serves, nothing else changes it.
LEMMA QueueIsQuiet ==
  ASSUME TakeoverTyped, ControlInv, RuntimeInv, TakeoverNext,
         tool.cmd = "prepare", tool.pc \in StoppedSteps
  PROVE  ~LegacyRuns /\ ~ReplacementRuns
<1>1. tool.pc # "acknowledged"
  BY DEF StoppedSteps
<1>2. ~Served
  BY <1>1, CommandFinds
<1> QED
  BY <1>2 DEF RuntimeInv, ReplacementRuns

\* A receipt keeps its plan while rows are set aside by it.
LEMMA PlanStays ==
  ASSUME TakeoverTyped, ControlInv, ControlInv', SessionFits, TakeoverNext,
         NEW q \in Receipts,
         receipt[q].phase \notin Unbacked \cup {"rolled-back"}, ~(RolledBack /\ q = tool.r)
  PROVE  /\ receipt'[q].plan = receipt[q].plan
         /\ receipt'[q].phase \notin Unbacked \cup {"rolled-back"}
<1>1. ReceiptStep
  BY ReceiptSteps
<1>2. "legacy-validated" \in Unbacked /\ "absent" \in Unbacked
  BY DEF Unbacked
<1>3. CASE receipt'[q] = receipt[q]
  BY <1>3
<1>4. CASE receipt'[q] # receipt[q]
  <2>1. receipt'[q].plan = receipt[q].plan
    BY <1>1, <1>2, <1>4 DEF ReceiptStep, PhaseBecomes
  <2>2. receipt'[q].phase # "rolled-back"
    BY <1>1, <1>2, <1>4, PhaseSets DEF ReceiptStep, PhaseBecomes
  <2>3. receipt[q].phase \in EarlyPhases \cup StartedPhases \cup {"prepared"}
    BY <1>1, <1>2, <1>4 DEF ReceiptStep, PhaseBecomes
  <2>4. receipt[q].backup => receipt'[q].backup
    BY <1>1, <1>2, <1>4 DEF ReceiptStep, PhaseBecomes
  <2>5. receipt[q].backup /\ (receipt'[q].phase \in Unbacked => ~receipt'[q].backup)
    BY <2>3 DEF ControlInv, BackupsFit
  <2> QED
    BY <2>1, <2>2, <2>4, <2>5
<1> QED
  BY <1>3, <1>4

\* Where a rollback stands after its restore, it stood before.
LEMMA RestartFollows ==
  ASSUME TakeoverTyped, ControlInv, TakeoverNext, ~Restore, tool'.pc \in {"restart", "save"}
  PROVE  tool.pc \in {"restart", "save"} /\ tool'.r = tool.r /\ receipt' = receipt
<1> DEFINE Kept == tool.pc \in {"restart", "save"} /\ tool'.r = tool.r /\ receipt' = receipt
<1>1. ASSUME NEW r \in Receipts, Plan(r) PROVE Kept
  BY <1>1, NoCommandTyped, PlanDoes DEF Plan, At, Steps, TakeoverTyped, PrepareSteps,
     FinishSteps, StoppedSteps, RollbackSteps, StopSteps
<1>2. ASSUME NEW r \in Receipts, Begin(r) PROVE Kept
  BY <1>2, NoCommandTyped, BaseDoes, QueuePlans DEF Begin, At, Steps, TakeoverTyped,
     PrepareSteps, FinishSteps, StoppedSteps, RollbackSteps, StopSteps
<1>3. ASSUME NEW r \in Receipts, Finalize(r) PROVE Kept
  BY <1>3, NoCommandTyped, FinalizeDoes DEF Finalize, At, Steps, TakeoverTyped,
     PrepareSteps, FinishSteps, StoppedSteps, RollbackSteps, StopSteps
<1>4. ASSUME NEW r \in Receipts, Abort(r) PROVE Kept
  BY <1>4, NoCommandTyped, AbortTo DEF Abort, At, Steps, TakeoverTyped, PrepareSteps,
     FinishSteps, StoppedSteps, RollbackSteps, StopSteps
<1>5. CASE Validate
  BY <1>5, NoCommandTyped, ValidateTo DEF Validate, At, Steps, TakeoverTyped, PrepareSteps,
     FinishSteps, StoppedSteps, RollbackSteps, StopSteps
<1>6. CASE StopLegacySession
  BY <1>6, NoCommandTyped, GoesTo DEF StopLegacySession, At, Steps, TakeoverTyped,
     PrepareSteps, FinishSteps, StoppedSteps, RollbackSteps, StopSteps
<1>7. CASE ProveLegacyStopped
  BY <1>7, NoCommandTyped, GoesTo, EndsTo, RaisesTo, PhaseTo DEF ProveLegacyStopped, At,
     Steps, TakeoverTyped, PrepareSteps, FinishSteps, StoppedSteps, RollbackSteps, StopSteps
<1>8. CASE Backup
  BY <1>8, NoCommandTyped, BackupDoes DEF Backup, At, Steps, TakeoverTyped, PrepareSteps,
     FinishSteps, StoppedSteps, RollbackSteps, StopSteps
<1>9. CASE Authorize
  BY <1>9, NoCommandTyped, GoesTo, EndsTo, RaisesTo, PhaseTo DEF Authorize, At, Steps,
     TakeoverTyped, PrepareSteps, FinishSteps, StoppedSteps, RollbackSteps, StopSteps
<1>10. CASE Quarantine
  BY <1>10, NoCommandTyped, GoesTo, EndsTo, RaisesTo, QuarantineDoes DEF Quarantine, At,
     Steps, TakeoverTyped, PrepareSteps, FinishSteps, StoppedSteps, RollbackSteps, StopSteps
<1>11. CASE OpenWindow
  BY <1>11, NoCommandTyped, OpenWindowDoes, WindowBounds DEF OpenWindow, At, Steps,
     TakeoverTyped, PrepareSteps, FinishSteps, StoppedSteps, RollbackSteps, StopSteps
<1>12. CASE ResetGateway
  BY <1>12, NoCommandTyped, GoesTo, BaseDoes, QueuePlans DEF ResetGateway, At, Steps,
     TakeoverTyped, PrepareSteps, FinishSteps, StoppedSteps, RollbackSteps, StopSteps
<1>13. CASE MarkFresh
  BY <1>13, NoCommandTyped, GoesTo DEF MarkFresh, At, Steps, TakeoverTyped, PrepareSteps,
     FinishSteps, StoppedSteps, RollbackSteps, StopSteps
<1>14. CASE Prepared
  BY <1>14, NoCommandTyped, EndsTo, PhaseTo DEF Prepared, At, Steps, TakeoverTyped,
     PrepareSteps, FinishSteps, StoppedSteps, RollbackSteps, StopSteps
<1>15. ASSUME NEW m \in Posts, Reconcile(m) PROVE Kept
  BY <1>15, NoCommandTyped, GoesTo, EndsTo, RaisesTo, ReconcileDoes DEF Reconcile, At,
     Steps, TakeoverTyped, PrepareSteps, FinishSteps, StoppedSteps, RollbackSteps,
     StopSteps, Reconciling
<1>16. CASE Acknowledge
  BY <1>16, NoCommandTyped, AcknowledgeDoes DEF Acknowledge, At, Steps, TakeoverTyped,
     PrepareSteps, FinishSteps, StoppedSteps, RollbackSteps, StopSteps, Reconciling
<1>17. CASE ReopenWindow
  BY <1>17, NoCommandTyped, ReopenDoes DEF ReopenWindow, At, Steps, TakeoverTyped,
     PrepareSteps, FinishSteps, StoppedSteps, RollbackSteps, StopSteps
<1>18. CASE Reconciled
  BY <1>18, NoCommandTyped, GoesTo, ReconciledDoes DEF Reconciled, At, Steps, TakeoverTyped,
     PrepareSteps, FinishSteps, StoppedSteps, RollbackSteps, StopSteps
<1>19. CASE IssueDrain
  BY <1>19, NoCommandTyped, GoesTo, PhaseTo DEF IssueDrain, At, Steps, TakeoverTyped,
     PrepareSteps, FinishSteps, StoppedSteps, RollbackSteps, StopSteps
<1>20. CASE DrainAnswers
  BY <1>20, NoCommandTyped, GoesTo DEF DrainAnswers, At, Steps, TakeoverTyped, PrepareSteps,
     FinishSteps, StoppedSteps, RollbackSteps, StopSteps
<1>21. CASE CheckBacklog
  BY <1>21, NoCommandTyped, GoesTo, EndsTo, RaisesTo DEF CheckBacklog, At, Steps,
     TakeoverTyped, PrepareSteps, FinishSteps, StoppedSteps, RollbackSteps, StopSteps
<1>22. CASE Commit
  BY <1>22, NoCommandTyped, EndsTo, PhaseTo DEF Commit, At, Steps, TakeoverTyped,
     PrepareSteps, FinishSteps, StoppedSteps, RollbackSteps, StopSteps
<1>23. CASE CaptureReplacement
  BY <1>23, NoCommandTyped, CaptureDoes DEF CaptureReplacement, At, Steps, TakeoverTyped,
     PrepareSteps, FinishSteps, StoppedSteps, RollbackSteps, StopSteps
<1>24. CASE StopReplacementSession
  BY <1>24, NoCommandTyped, GoesTo, EndsTo, RaisesTo DEF StopReplacementSession, At, Steps,
     TakeoverTyped, PrepareSteps, FinishSteps, StoppedSteps, RollbackSteps, StopSteps
<1>25. CASE RestartLegacy
  BY <1>25, NoCommandTyped, GoesTo DEF RestartLegacy, At, Steps, TakeoverTyped,
     PrepareSteps, FinishSteps, StoppedSteps, RollbackSteps, StopSteps
<1>26. CASE RolledBack
  BY <1>26, NoCommandTyped, EndsTo, RolledBackDoes DEF RolledBack, At, Steps, TakeoverTyped,
     PrepareSteps, FinishSteps, StoppedSteps, RollbackSteps, StopSteps
<1>27. CASE Fails
  BY <1>27, NoCommandTyped, GoesTo, EndsTo, RaisesTo, PhaseTo DEF Fails, At, Steps,
     TakeoverTyped, PrepareSteps, FinishSteps, StoppedSteps, RollbackSteps, StopSteps
<1>28. CASE Killed
  BY <1>28, NoCommandTyped, EndsTo DEF Killed, At, Steps, TakeoverTyped, PrepareSteps,
     FinishSteps, StoppedSteps, RollbackSteps, StopSteps
<1>29. CASE UNCHANGED <<tool, receipt>>
  BY <1>29, NoCommandTyped
<1> QED
  BY <1>1, <1>2, <1>3, <1>4, <1>5, <1>6, <1>7, <1>8, <1>9, <1>10, <1>11, <1>12, <1>13,
     <1>14, <1>15, <1>16, <1>17, <1>18, <1>19, <1>20, <1>21, <1>22, <1>23, <1>24, <1>25,
     <1>26, <1>27, <1>28, <1>29 DEF TakeoverNext, Command, Prepare, Finish, RollBack,
     Runtimes, discordVars, queueVars, runtimeVars, historyVars, StopLabel,
     UnloadReplacement, Restore, LegacyStarts, LegacyStops, LegacyMisses, LegacyReceives,
     LegacyWorks, InstallerLoads, ReplacementStarts, ReplacementStops, ReplacementMisses,
     ReplacementConnects, ReplacementReceives, ReplacementWorks, Post, Edit

\* While prepare stands before the quarantine, its receipt stays.
LEMMA QuarantineWaits ==
  ASSUME TakeoverTyped, ControlInv, TakeoverNext, ~Authorize, tool'.pc = "quarantine"
  PROVE  tool' = tool /\ receipt' = receipt /\ ~Quarantine
<1>1. tool' = tool /\ receipt' = receipt
  <2> DEFINE Kept == tool' = tool /\ receipt' = receipt
  <2>1. ASSUME NEW r \in Receipts, Plan(r) PROVE Kept
    BY <2>1, NoCommandTyped, PlanDoes DEF Plan, At, Steps, TakeoverTyped, PrepareSteps,
       FinishSteps, StoppedSteps, RollbackSteps, StopSteps
  <2>2. ASSUME NEW r \in Receipts, Begin(r) PROVE Kept
    BY <2>2, NoCommandTyped, BaseDoes, QueuePlans DEF Begin, At, Steps, TakeoverTyped,
       PrepareSteps, FinishSteps, StoppedSteps, RollbackSteps, StopSteps
  <2>3. ASSUME NEW r \in Receipts, Finalize(r) PROVE Kept
    BY <2>3, NoCommandTyped, FinalizeDoes DEF Finalize, At, Steps, TakeoverTyped,
       PrepareSteps, FinishSteps, StoppedSteps, RollbackSteps, StopSteps
  <2>4. ASSUME NEW r \in Receipts, Abort(r) PROVE Kept
    BY <2>4, NoCommandTyped, AbortTo DEF Abort, At, Steps, TakeoverTyped, PrepareSteps,
       FinishSteps, StoppedSteps, RollbackSteps, StopSteps
  <2>5. CASE Validate
    BY <2>5, NoCommandTyped, ValidateTo DEF Validate, At, Steps, TakeoverTyped,
       PrepareSteps, FinishSteps, StoppedSteps, RollbackSteps, StopSteps
  <2>6. CASE StopLegacySession
    BY <2>6, NoCommandTyped, GoesTo DEF StopLegacySession, At, Steps, TakeoverTyped,
       PrepareSteps, FinishSteps, StoppedSteps, RollbackSteps, StopSteps
  <2>7. CASE ProveLegacyStopped
    BY <2>7, NoCommandTyped, GoesTo, EndsTo, RaisesTo, PhaseTo DEF ProveLegacyStopped, At,
       Steps, TakeoverTyped, PrepareSteps, FinishSteps, StoppedSteps, RollbackSteps,
       StopSteps
  <2>8. CASE Backup
    BY <2>8, NoCommandTyped, BackupDoes DEF Backup, At, Steps, TakeoverTyped, PrepareSteps,
       FinishSteps, StoppedSteps, RollbackSteps, StopSteps
  <2>9. CASE Quarantine
    BY <2>9, NoCommandTyped, GoesTo, EndsTo, RaisesTo, QuarantineDoes DEF Quarantine, At,
       Steps, TakeoverTyped, PrepareSteps, FinishSteps, StoppedSteps, RollbackSteps,
       StopSteps
  <2>10. CASE OpenWindow
    BY <2>10, NoCommandTyped, OpenWindowDoes, WindowBounds DEF OpenWindow, At, Steps,
       TakeoverTyped, PrepareSteps, FinishSteps, StoppedSteps, RollbackSteps, StopSteps
  <2>11. CASE ResetGateway
    BY <2>11, NoCommandTyped, GoesTo, BaseDoes, QueuePlans DEF ResetGateway, At, Steps,
       TakeoverTyped, PrepareSteps, FinishSteps, StoppedSteps, RollbackSteps, StopSteps
  <2>12. CASE MarkFresh
    BY <2>12, NoCommandTyped, GoesTo DEF MarkFresh, At, Steps, TakeoverTyped, PrepareSteps,
       FinishSteps, StoppedSteps, RollbackSteps, StopSteps
  <2>13. CASE Prepared
    BY <2>13, NoCommandTyped, EndsTo, PhaseTo DEF Prepared, At, Steps, TakeoverTyped,
       PrepareSteps, FinishSteps, StoppedSteps, RollbackSteps, StopSteps
  <2>14. ASSUME NEW m \in Posts, Reconcile(m) PROVE Kept
    BY <2>14, NoCommandTyped, GoesTo, EndsTo, RaisesTo, ReconcileDoes DEF Reconcile, At,
       Steps, TakeoverTyped, PrepareSteps, FinishSteps, StoppedSteps, RollbackSteps,
       StopSteps, Reconciling
  <2>15. CASE Acknowledge
    BY <2>15, NoCommandTyped, AcknowledgeDoes DEF Acknowledge, At, Steps, TakeoverTyped,
       PrepareSteps, FinishSteps, StoppedSteps, RollbackSteps, StopSteps, Reconciling
  <2>16. CASE ReopenWindow
    BY <2>16, NoCommandTyped, ReopenDoes DEF ReopenWindow, At, Steps, TakeoverTyped,
       PrepareSteps, FinishSteps, StoppedSteps, RollbackSteps, StopSteps
  <2>17. CASE Reconciled
    BY <2>17, NoCommandTyped, GoesTo, ReconciledDoes DEF Reconciled, At, Steps,
       TakeoverTyped, PrepareSteps, FinishSteps, StoppedSteps, RollbackSteps, StopSteps
  <2>18. CASE IssueDrain
    BY <2>18, NoCommandTyped, GoesTo, PhaseTo DEF IssueDrain, At, Steps, TakeoverTyped,
       PrepareSteps, FinishSteps, StoppedSteps, RollbackSteps, StopSteps
  <2>19. CASE DrainAnswers
    BY <2>19, NoCommandTyped, GoesTo DEF DrainAnswers, At, Steps, TakeoverTyped,
       PrepareSteps, FinishSteps, StoppedSteps, RollbackSteps, StopSteps
  <2>20. CASE CheckBacklog
    BY <2>20, NoCommandTyped, GoesTo, EndsTo, RaisesTo DEF CheckBacklog, At, Steps,
       TakeoverTyped, PrepareSteps, FinishSteps, StoppedSteps, RollbackSteps, StopSteps
  <2>21. CASE Commit
    BY <2>21, NoCommandTyped, EndsTo, PhaseTo DEF Commit, At, Steps, TakeoverTyped,
       PrepareSteps, FinishSteps, StoppedSteps, RollbackSteps, StopSteps
  <2>22. CASE CaptureReplacement
    BY <2>22, NoCommandTyped, CaptureDoes DEF CaptureReplacement, At, Steps, TakeoverTyped,
       PrepareSteps, FinishSteps, StoppedSteps, RollbackSteps, StopSteps
  <2>23. CASE StopReplacementSession
    BY <2>23, NoCommandTyped, GoesTo, EndsTo, RaisesTo DEF StopReplacementSession, At,
       Steps, TakeoverTyped, PrepareSteps, FinishSteps, StoppedSteps, RollbackSteps,
       StopSteps
  <2>24. CASE Restore
    BY <2>24, NoCommandTyped, GoesTo DEF Restore, At, Steps, TakeoverTyped, PrepareSteps,
       FinishSteps, StoppedSteps, RollbackSteps, StopSteps
  <2>25. CASE RestartLegacy
    BY <2>25, NoCommandTyped, GoesTo DEF RestartLegacy, At, Steps, TakeoverTyped,
       PrepareSteps, FinishSteps, StoppedSteps, RollbackSteps, StopSteps
  <2>26. CASE RolledBack
    BY <2>26, NoCommandTyped, EndsTo, RolledBackDoes DEF RolledBack, At, Steps,
       TakeoverTyped, PrepareSteps, FinishSteps, StoppedSteps, RollbackSteps, StopSteps
  <2>27. CASE Fails
    BY <2>27, NoCommandTyped, GoesTo, EndsTo, RaisesTo, PhaseTo DEF Fails, At, Steps,
       TakeoverTyped, PrepareSteps, FinishSteps, StoppedSteps, RollbackSteps, StopSteps
  <2>28. CASE Killed
    BY <2>28, NoCommandTyped, EndsTo DEF Killed, At, Steps, TakeoverTyped, PrepareSteps,
       FinishSteps, StoppedSteps, RollbackSteps, StopSteps
  <2>29. CASE UNCHANGED <<tool, receipt>>
    BY <2>29, NoCommandTyped
  <2> QED
    BY <2>1, <2>2, <2>3, <2>4, <2>5, <2>6, <2>7, <2>8, <2>9, <2>10, <2>11, <2>12, <2>13,
       <2>14, <2>15, <2>16, <2>17, <2>18, <2>19, <2>20, <2>21, <2>22, <2>23, <2>24, <2>25,
       <2>26, <2>27, <2>28, <2>29 DEF TakeoverNext, Command, Prepare, Finish, RollBack,
       Runtimes, discordVars, queueVars, runtimeVars, historyVars, StopLabel, Authorize,
       UnloadReplacement, LegacyStarts, LegacyStops, LegacyMisses, LegacyReceives,
       LegacyWorks, InstallerLoads, ReplacementStarts, ReplacementStops, ReplacementMisses,
       ReplacementConnects, ReplacementReceives, ReplacementWorks, Post, Edit
<1>2. ~Quarantine
  <2> SUFFICES ASSUME Quarantine PROVE FALSE
    OBVIOUS
  <2>1. Raises \/ Goes("window")
    BY DEF Quarantine
  <2>2. tool.cmd = "prepare"
    BY DEF Quarantine, At
  <2> QED
    BY <2>1, <2>2, RaisesTo, GoesTo DEF Steps, PrepareSteps, StoppedSteps, RollbackSteps,
       TakeoverTyped
<1> QED
  BY <1>1, <1>2

\* Every step keeps what is known of the rows set aside.
LEMMA QuarantineStep ==
  ASSUME TakeoverTyped, TakeoverTyped', ControlInv, ControlInv', RuntimeInv, SessionInv,
         QuarantineInv, TakeoverNext
  PROVE  QuarantineInv'
<1>1. SessionFits
  BY BackupFinds
<1>2. QueueStep
  BY QueueSteps
<1> DEFINE Fits(m) ==
      quarantine[m].by # NoTakeover =>
        LET plan == receipt[quarantine[m].by].plan
        IN  /\ m \in DOMAIN plan
            /\ plan[m] = quarantine[m].row
            /\ Ambiguous(plan[m])
            /\ rows[m].state = "errored"
            /\ receipt[quarantine[m].by].phase \notin Unbacked \cup {"rolled-back"}
<1>3. \A m \in Posts : Fits(m)
  BY DEF QuarantineInv, QuarantineIsAcknowledged
<1>4. ASSUME NEW m \in Posts PROVE Fits(m)'
  <2> SUFFICES ASSUME quarantine'[m].by # NoTakeover PROVE Fits(m)'
    OBVIOUS
  <2>1. CASE SetAside /\ m \in Doubtful /\ receipt' = receipt
    <3>1. /\ quarantine'[m].by = tool.r /\ quarantine'[m].row = rows[m]
          /\ rows'[m].state = "errored"
      BY <2>1 DEF SetAside
    <3>2. Snapshot = receipt[tool.r].plan
      BY <2>1 DEF SetAside, QuarantineInv
    <3>3. m \in Nonterminal /\ Ambiguous(rows[m])
      BY <2>1 DEF Doubtful
    <3>4. m \in DOMAIN receipt[tool.r].plan /\ receipt[tool.r].plan[m] = rows[m]
      BY <3>2, <3>3 DEF Snapshot
    <3>5. tool.r \in Receipts /\ receipt[tool.r].phase \notin Unbacked \cup {"rolled-back"}
      <4>1. /\ tool.r \in Receipts /\ tool.cmd = "prepare" /\ tool.pc = "quarantine"
        BY <2>1 DEF SetAside
      <4>2. receipt[tool.r].backup /\ receipt[tool.r].phase \in EarlyPhases
        BY <4>1, CommandFinds DEF ControlInv, BackupsFit, Preparing, PrepareSteps,
           StoppedSteps
      <4> QED
        BY <4>1, <4>2, PhaseSets DEF ControlInv, BackupsFit
    <3> QED
      BY <2>1, <3>1, <3>3, <3>4, <3>5
  <2>2. CASE ~(SetAside /\ m \in Doubtful /\ receipt' = receipt)
    <3>1. quarantine'[m] = quarantine[m]
      BY <1>2, <2>2 DEF QueueStep, SetAside, PutBack
    <3>2. /\ quarantine[m].by \in Receipts
          /\ rows[m].state = "errored"
          /\ receipt[quarantine[m].by].phase \notin Unbacked \cup {"rolled-back"}
      BY <1>3, <3>1 DEF TakeoverTyped, QueueTyped
    <3>3. rows'[m].state = "errored"
      BY <1>2, <2>2, <3>1, <3>2 DEF QueueStep, SetAside, PutBack, Added, Advanced,
         OthersSame, NoRow
    <3>4. ~(RolledBack /\ quarantine[m].by = tool.r)
      BY DEF RolledBack, QuarantineInv
    <3>5. /\ receipt'[quarantine[m].by].plan = receipt[quarantine[m].by].plan
          /\ receipt'[quarantine[m].by].phase \notin Unbacked \cup {"rolled-back"}
      BY <1>1, <3>2, <3>4, PlanStays
    <3> QED
      BY <1>3, <3>1, <3>2, <3>3, <3>5
  <2> QED
    BY <2>1, <2>2
<1>5. QuarantineIsAcknowledged'
  BY <1>4 DEF QuarantineIsAcknowledged
<1>6. ASSUME NEW m \in Posts, quarantine'[m].by # NoTakeover
      PROVE  receipt'[quarantine'[m].by].phase \notin Unbacked \cup {"rolled-back"}
  BY <1>4, <1>6
<1>7. tool'.pc \in {"restart", "save"} => \A m \in Posts : quarantine'[m].by # tool'.r
  <2> SUFFICES ASSUME tool'.pc \in {"restart", "save"}, NEW m \in Posts
               PROVE  quarantine'[m].by # tool'.r
    OBVIOUS
  <2>1. CASE Restore
    <3>1. tool'.r = tool.r
      BY <2>1, GoesTo DEF Restore, Steps, RollbackSteps, TakeoverTyped
    <3>2. tool.r \in Receipts
      BY <2>1, RestoreFinds
    <3>3. CASE Restores
      BY <2>1, <3>1, <3>2, <3>3, RestoreDoes, TakeoverAssumption DEF Mine, TakeoverTyped
    <3>4. CASE ~Restores
      <4>1. quarantine' = quarantine /\ receipt[tool.r].phase \in Unbacked
        BY <2>1, <3>4, RestoreFinds, RestoreDoes DEF TakeoverTyped
      <4> QED
        BY <3>1, <3>2, <4>1, TakeoverAssumption DEF QuarantineInv
    <3> QED
      BY <3>3, <3>4
  <2>2. CASE ~Restore
    <3>1. tool.pc \in {"restart", "save"} /\ tool'.r = tool.r
      BY <2>2, RestartFollows
    <3>2. quarantine' = quarantine
      BY <1>2, <2>2, <3>1 DEF QueueStep, SetAside, PutBack
    <3> QED
      BY <3>1, <3>2 DEF QuarantineInv
  <2> QED
    BY <2>1, <2>2
<1>8. tool'.pc = "quarantine" => Snapshot' = receipt'[tool'.r].plan
  <2> SUFFICES ASSUME tool'.pc = "quarantine" PROVE Snapshot' = receipt'[tool'.r].plan
    OBVIOUS
  <2>1. CASE Authorize
    <3>1. tool.cmd = "prepare" /\ tool.pc = "recheck" /\ tool.r \in Receipts
      BY <2>1, CommandFinds DEF Authorize, At
    <3>2. /\ Snapshot = receipt[tool.r].plan /\ Phase(tool.r, "quarantine-authorized")
          /\ Goes("quarantine")
      <4>1. ~Raises
        BY <3>1, RaisesTo, GoesTo DEF Steps, RollbackSteps, TakeoverTyped
      <4> QED
        BY <2>1, <4>1 DEF Authorize
    <3>3. rows' = rows
      BY <2>1 DEF Authorize, queueVars
    <3>4. receipt'[tool.r].plan = receipt[tool.r].plan /\ tool'.r = tool.r
      BY <3>1, <3>2, PhaseTo, GoesTo DEF Phases, EarlyPhases, Steps, PrepareSteps,
         StoppedSteps, TakeoverTyped
    <3> QED
      BY <3>2, <3>3, <3>4 DEF Snapshot, Nonterminal, Present
  <2>2. CASE ~Authorize
    <3>1. tool' = tool /\ receipt' = receipt /\ ~Quarantine
      BY <2>2, QuarantineWaits
    <3>2. tool.cmd = "prepare" /\ tool.pc = "quarantine"
      BY <3>1, NoCommandTyped DEF ControlInv, StepsFit, FinishSteps, StopSteps,
         RollbackSteps
    <3>3. ~LegacyRuns /\ ~ReplacementRuns
      BY <3>2, QueueIsQuiet DEF StoppedSteps
    <3>4. rows' = rows
      BY <1>2, <3>1, <3>2, <3>3 DEF QueueStep, Restore, Reconcile, Reconciling, Acknowledge,
         PutBack, ReplacementRuns
    <3> QED
      BY <3>1, <3>4 DEF Snapshot, Nonterminal, Present, QuarantineInv
  <2> QED
    BY <2>1, <2>2
<1> QED
  BY <1>5, <1>6, <1>7, <1>8 DEF QuarantineInv

-----------------------------------------------------------------------------
(* The rows, the gaps and the windows *)

TakeoverInv ==
  /\ TakeoverTyped /\ ControlInv /\ RuntimeInv /\ SessionInv /\ QuarantineInv
  /\ RowsFit /\ GapInv /\ WindowInv /\ AcceptedInv

\* What a step does to the rows of TakeoverInv.
LEMMA InvSteps ==
  ASSUME TakeoverInv, TakeoverNext
  PROVE  /\ SessionFits /\ TakeoverTyped /\ ControlInv /\ RuntimeInv /\ QuarantineInv
         /\ TakeoverTyped' /\ ControlInv' /\ RuntimeInv'
         /\ ReceiptStep /\ QueueStep
<1>1. SessionFits
  BY BackupFinds DEF TakeoverInv
<1>2. StepsFit
  BY DEF TakeoverInv, ControlInv
<1>3. TakeoverTyped'
  <2>1. ToolTyped'
    BY <1>1, <1>2, ToolTyping DEF TakeoverInv
  <2>2. ReceiptTyped'
    BY <1>1, <1>2, ReceiptTyping DEF TakeoverInv
  <2>3. QueueTyped'
    BY <1>1, <1>2, QueueTyping DEF TakeoverInv
  <2>4. RuntimesTyped'
    BY <1>1, <1>2, RuntimesTyping DEF TakeoverInv
  <2>5. OthersTyped'
    BY <1>1, <1>2, OthersTyping DEF TakeoverInv
  <2> QED
    BY <2>1, <2>2, <2>3, <2>4, <2>5 DEF TakeoverTyped
<1>4. ControlInv'
  BY <1>1, ControlStep DEF TakeoverInv
<1>5. RuntimeInv'
  BY <1>1, <1>4, RuntimeStep DEF TakeoverInv
<1>6. ReceiptStep
  BY <1>1, ReceiptSteps DEF TakeoverInv
<1>7. QueueStep
  BY QueueSteps DEF TakeoverInv
<1> QED
  BY <1>1, <1>3, <1>4, <1>5, <1>6, <1>7 DEF TakeoverInv

\* What was posted stays posted.
LEMMA PostedSteps ==
  ASSUME TakeoverTyped, TakeoverNext
  PROVE  posted <= posted' /\ Posted \subseteq Posted'
<1>1. posted \in 0..N /\ posted' \in {posted, posted + 1}
  <2>1. CASE Post
    BY <2>1 DEF Post, TakeoverTyped, OthersTyped
  <2>2. CASE UNCHANGED posted
    BY <2>2 DEF TakeoverTyped, OthersTyped
  <2> QED
    BY <2>1, <2>2 DEF TakeoverNext, Command, Prepare, Finish, RollBack, Runtimes,
       discordVars, queueVars, runtimeVars, historyVars, Plan, Begin, Finalize, Abort,
       Validate, StopLabel, StopLegacySession, ProveLegacyStopped, Backup, Authorize,
       Quarantine, OpenWindow, ResetGateway, MarkFresh, Prepared, Reconcile, Acknowledge,
       ReopenWindow, Reconciled, IssueDrain, DrainAnswers, CheckBacklog, Commit,
       CaptureReplacement, UnloadReplacement, StopReplacementSession, Restore,
       RestartLegacy, RolledBack, Fails, Killed, LegacyStarts, LegacyStops, LegacyMisses,
       LegacyReceives, LegacyWorks, InstallerLoads, ReplacementStarts, ReplacementStops,
       ReplacementMisses, ReplacementConnects, ReplacementReceives, ReplacementWorks, Edit
<1> QED
  BY <1>1, TakeoverAssumption DEF Posted

\* What a listener enqueued is remembered.
LEMMA HeardSteps ==
  ASSUME TakeoverTyped, TakeoverNext
  PROVE  /\ heard \subseteq heard'
         /\ \A m \in Posts : Missed(m) => Missed(m)'
<1>1. heard \subseteq heard'
  <2>1. CASE LegacyReceives
    BY <2>1 DEF LegacyReceives, Enqueued
  <2>2. CASE ReplacementReceives
    BY <2>2 DEF ReplacementReceives, Enqueued
  <2>3. CASE UNCHANGED heard
    BY <2>3
  <2> QED
    BY <2>1, <2>2, <2>3 DEF TakeoverNext, Command, Prepare, Finish, RollBack, Runtimes,
       discordVars, queueVars, runtimeVars, historyVars, Plan, Begin, Finalize, Abort,
       Validate, StopLabel, StopLegacySession, ProveLegacyStopped, Backup, Authorize,
       Quarantine, OpenWindow, ResetGateway, MarkFresh, Prepared, Reconcile, Acknowledge,
       ReopenWindow, Reconciled, IssueDrain, DrainAnswers, CheckBacklog, Commit,
       CaptureReplacement, UnloadReplacement, StopReplacementSession, Restore,
       RestartLegacy, RolledBack, Fails, Killed, LegacyStarts, LegacyStops, LegacyMisses,
       LegacyWorks, InstallerLoads, ReplacementStarts, ReplacementStops,
       ReplacementMisses, ReplacementConnects, ReplacementWorks, Post, Edit
<1> QED
  BY <1>1 DEF Missed

\* A row that is there stays there; one that comes comes in order.
LEMMA PresentSteps ==
  ASSUME TakeoverInv, TakeoverNext
  PROVE  /\ Present \subseteq Present'
         /\ \A m \in Present' \ Present :
              /\ rows'[m].state = "received" /\ receipt' = receipt /\ rows' # rows
              /\ \/ Reconcile(m)
                 \/ LegacyReceives /\ LegacyRuns /\ m = legacy.seen + 1
                 \/ ReplacementReceives /\ repl.up /\ m = repl.seen + 1
<1>1. QueueStep /\ TakeoverTyped /\ TakeoverTyped'
  BY InvSteps
<1>2. ASSUME NEW m \in Posts, rows[m].state # "absent" PROVE rows'[m].state # "absent"
  <2>1. rows[m] # NoRow
    BY <1>2 DEF NoRow
  <2>2. CASE SetAside
    BY <1>2, <2>2 DEF SetAside
  <2>3. CASE PutBack
    <3>1. m \in Mine => quarantine[m].by # NoTakeover
      BY <2>3, RestoreFinds, TakeoverAssumption DEF PutBack, Mine, TakeoverInv
    <3>2. m \in Mine => quarantine[m].row.state # "absent"
      BY <3>1 DEF TakeoverInv, QuarantineInv, QuarantineIsAcknowledged, Ambiguous
    <3> QED
      BY <1>2, <2>3, <3>2 DEF PutBack
  <2> QED
    BY <1>1, <1>2, <2>1, <2>2, <2>3 DEF QueueStep, Added, Advanced, OthersSame
<1>3. ASSUME NEW m \in Posts, rows[m].state = "absent", rows'[m].state # "absent"
      PROVE  /\ rows'[m].state = "received" /\ receipt' = receipt /\ rows' # rows
             /\ \/ Reconcile(m)
                \/ LegacyReceives /\ LegacyRuns /\ m = legacy.seen + 1
                \/ ReplacementReceives /\ repl.up /\ m = repl.seen + 1
  <2>1. rows[m] = NoRow
    BY <1>3 DEF TakeoverInv, RowsFit
  <2>2. rows'[m] # rows[m]
    BY <1>3
  <2>3. CASE SetAside
    <3>1. m \in Doubtful
      BY <2>2, <2>3 DEF SetAside
    <3> QED
      BY <1>3, <3>1 DEF Doubtful, Nonterminal, Present
  <2>4. CASE PutBack
    <3>1. m \in Mine
      BY <2>2, <2>4 DEF PutBack
    <3>2. quarantine[m].by # NoTakeover
      BY <2>4, <3>1, RestoreFinds, TakeoverAssumption DEF PutBack, Mine, TakeoverInv
    <3> QED
      BY <1>3, <3>2 DEF TakeoverInv, QuarantineInv, QuarantineIsAcknowledged
  <2> QED
    BY <1>1, <1>3, <2>1, <2>2, <2>3, <2>4 DEF QueueStep, Added, Advanced, OthersSame
<1> QED
  BY <1>2, <1>3 DEF Present

\* A listener goes on, or begins with what is posted from now on.
LEMMA LegacySeen ==
  ASSUME TakeoverTyped, TakeoverNext
  PROVE  \/ legacy'.seen \in {legacy.seen, posted}
         \/ legacy'.seen = legacy.seen + 1 /\ legacy.seen < posted
<1> DEFINE Goal == \/ legacy'.seen \in {legacy.seen, posted}
                   \/ legacy'.seen = legacy.seen + 1 /\ legacy.seen < posted
<1>1. ASSUME NEW s \in Services, StopLabel(s) PROVE Goal
  BY <1>1 DEF StopLabel, TakeoverTyped, RuntimesTyped
<1>2. CASE StopLegacySession
  BY <1>2 DEF StopLegacySession, TakeoverTyped, RuntimesTyped
<1>3. CASE RestartLegacy
  BY <1>3 DEF RestartLegacy, Listening, TakeoverTyped, RuntimesTyped
<1>4. CASE Fails
  BY <1>4 DEF Fails, TakeoverTyped, RuntimesTyped
<1>5. CASE LegacyStarts
  BY <1>5 DEF LegacyStarts, Listening, TakeoverTyped, RuntimesTyped
<1>6. CASE LegacyReceives
  BY <1>6 DEF LegacyReceives, TakeoverTyped, RuntimesTyped
<1>7. CASE LegacyStops
  BY <1>7 DEF LegacyStops, TakeoverTyped, RuntimesTyped
<1>8. CASE LegacyMisses
  BY <1>8 DEF LegacyMisses, TakeoverTyped, RuntimesTyped
<1>9. CASE UNCHANGED legacy
  BY <1>9
<1>10. Goal
  BY <1>1, <1>2, <1>3, <1>4, <1>5, <1>6, <1>7, <1>8, <1>9 DEF TakeoverNext, Command,
     Prepare, Finish, RollBack, Runtimes, discordVars, queueVars, runtimeVars, historyVars,
     Plan, Begin, Finalize, Abort, Validate, ProveLegacyStopped, Backup, Authorize,
     Quarantine, OpenWindow, ResetGateway, MarkFresh, Prepared, Reconcile, Acknowledge,
     ReopenWindow, Reconciled, IssueDrain, DrainAnswers, CheckBacklog, Commit,
     CaptureReplacement, UnloadReplacement, StopReplacementSession, Restore, RolledBack,
     Killed, LegacyWorks, InstallerLoads, ReplacementStarts, ReplacementStops,
     ReplacementMisses, ReplacementConnects, ReplacementReceives, ReplacementWorks, Post,
     Edit
<1> QED
  BY <1>10

\* The same of the replacement's.
LEMMA ReplacementSeen ==
  ASSUME TakeoverTyped, TakeoverNext
  PROVE  \/ repl'.seen = repl.seen /\ (repl'.up => repl.up)
         \/ repl'.seen = posted
         \/ repl.seen < posted /\ repl'.seen = repl.seen + 1 /\ repl.up
<1> DEFINE Goal == \/ repl'.seen = repl.seen /\ (repl'.up => repl.up)
                   \/ repl'.seen = posted
                   \/ repl.seen < posted /\ repl'.seen = repl.seen + 1 /\ repl.up
<1>1. ASSUME NEW s \in Services, UnloadReplacement(s) PROVE Goal
  BY <1>1 DEF UnloadReplacement, TakeoverTyped, RuntimesTyped
<1>2. CASE StopReplacementSession
  BY <1>2 DEF StopReplacementSession, TakeoverTyped, RuntimesTyped
<1>3. ASSUME NEW s \in Services, InstallerLoads(s) PROVE Goal
  BY <1>3 DEF InstallerLoads, TakeoverTyped, RuntimesTyped
<1>4. CASE ReplacementStarts
  BY <1>4 DEF ReplacementStarts, Listening, TakeoverTyped, RuntimesTyped
<1>5. CASE ReplacementStops
  BY <1>5 DEF ReplacementStops, TakeoverTyped, RuntimesTyped
<1>6. CASE ReplacementMisses
  BY <1>6 DEF ReplacementMisses, TakeoverTyped, RuntimesTyped
<1>7. CASE ReplacementReceives
  BY <1>7 DEF ReplacementReceives, TakeoverTyped, RuntimesTyped
<1>8. CASE UNCHANGED repl
  BY <1>8
<1> QED
  BY <1>1, <1>2, <1>3, <1>4, <1>5, <1>6, <1>7, <1>8 DEF TakeoverNext, Command, Prepare,
     Finish, RollBack, Runtimes, discordVars, queueVars, runtimeVars, historyVars, Plan,
     Begin, Finalize, Abort, Validate, StopLabel, StopLegacySession, ProveLegacyStopped,
     Backup, Authorize, Quarantine, OpenWindow, ResetGateway, MarkFresh, Prepared,
     Reconcile, Acknowledge, ReopenWindow, Reconciled, IssueDrain, DrainAnswers,
     CheckBacklog, Commit, CaptureReplacement, Restore, RestartLegacy, RolledBack, Fails,
     Killed, LegacyStarts, LegacyStops, LegacyMisses, LegacyReceives, LegacyWorks,
     ReplacementConnects, ReplacementWorks, Post, Edit

\* A step of the first reconciliation, or the last.
LEMMA ReconcileFinds ==
  ASSUME TakeoverInv, NEW m \in Posts, Reconcile(m)
  PROVE  /\ tool.r \in Receipts /\ receipt[tool.r].phase \in Bounded
         /\ receipt[tool.r].lower \in 0..N /\ UpperBound \in 0..N /\ UpperBound <= posted
         /\ receipt[tool.r].lower < m /\ m <= UpperBound
         /\ \A n \in Posts :
              receipt[tool.r].lower < n /\ n < m /\ Channel[n] = Channel[m] => n \in Present
<1>1. tool.pc = "reconcile" /\ tool.cmd \in {"prepare", "finalize"}
  BY DEF Reconcile, Reconciling
<1>2. tool.r \in Receipts
  BY <1>1, CommandFinds DEF TakeoverInv
<1>3. receipt[tool.r].lower \in 0..N /\ UpperBound \in 0..N
  BY <1>1, <1>2 DEF UpperBound, TakeoverInv, TakeoverTyped, ToolTyped, Tool, ReceiptTyped,
     Receipt
<1>4. receipt[tool.r].phase \in Bounded /\ UpperBound <= posted
  BY <1>1 DEF TakeoverInv, WindowInv, ReconcileFits
<1>5. receipt[tool.r].lower < m /\ m <= UpperBound
  <2>1. m \in Window(receipt[tool.r].lower, UpperBound)
    BY <1>1 DEF TakeoverInv, WindowInv, ReconcileFits, Reconcile
  <2> QED
    BY <1>3, <2>1, TakeoverAssumption DEF Window
<1>6. ASSUME NEW n \in Posts, receipt[tool.r].lower < n, n < m, Channel[n] = Channel[m]
      PROVE  n \in Present
  <2>1. n \in Window(receipt[tool.r].lower, UpperBound)
    BY <1>3, <1>5, <1>6, TakeoverAssumption DEF Window, Posts
  <2>2. n \notin tool.todo
    BY <1>6, TakeoverAssumption DEF Reconcile, Posts
  <2> QED
    BY <1>1, <2>1, <2>2 DEF TakeoverInv, WindowInv, ReconcileFits
<1> QED
  BY <1>2, <1>3, <1>4, <1>5, <1>6

\* The lower bound has been posted.
LEMMA LowerPosted ==
  ASSUME TakeoverInv
  PROVE  Lower <= posted /\ Lower \in 0..N
<1>1. PICK c \in Channels : TRUE
  BY TakeoverAssumption
<1>2. QueueTyped /\ posted \in 0..N
  BY DEF TakeoverInv, TakeoverTyped, OthersTyped
<1>3. Lower \in 0..N /\ Lower <= Newest(c) /\ Newest(c) \in 0..N
  BY <1>2, LowerIs, NewestIs
<1>4. Newest(c) # 0 => Newest(c) \in Posted
  BY <1>2, NewestIs DEF TakeoverInv, RowsFit
<1> QED
  BY <1>2, <1>3, <1>4, TakeoverAssumption DEF Posted

\* Every step keeps the rows within what was posted and seen.
LEMMA RowsStep ==
  ASSUME TakeoverInv, TakeoverNext
  PROVE  RowsFit'
<1>1. QueueStep /\ ReceiptStep /\ TakeoverTyped /\ TakeoverTyped' /\ RowsFit
  BY InvSteps DEF TakeoverInv
<1>2. posted \in 0..N /\ posted' \in 0..N /\ posted <= posted' /\ Posted \subseteq Posted'
  BY <1>1, PostedSteps DEF TakeoverTyped, OthersTyped
<1>3. /\ legacy.seen \in 0..N /\ legacy'.seen \in 0..N
       /\ repl.seen \in 0..N /\ repl'.seen \in 0..N
  BY <1>1 DEF TakeoverTyped, RuntimesTyped
<1>4. ASSUME NEW m \in Posts, rows'[m].state = "absent" PROVE rows'[m] = NoRow
  <2>1. rows[m].state = "absent" /\ rows[m] = NoRow
    BY <1>1, <1>4, PresentSteps DEF Present, RowsFit
  <2>2. CASE SetAside
    BY <1>4, <2>1, <2>2 DEF SetAside
  <2>3. CASE PutBack
    <3>1. m \in Mine => quarantine[m].by # NoTakeover
      BY <2>3, RestoreFinds, TakeoverAssumption DEF PutBack, Mine, TakeoverInv
    <3>2. m \notin Mine
      BY <2>1, <3>1 DEF TakeoverInv, QuarantineInv, QuarantineIsAcknowledged
    <3> QED
      BY <2>1, <2>3, <3>2 DEF PutBack
  <2>4. CASE Acknowledge /\ quarantine' = quarantine /\ OthersSame(tool.at)
    <3>1. tool.at \in Present
      BY <2>4 DEF Acknowledge, Reconciling, TakeoverInv, WindowInv, ReconcileFits
    <3>2. m # tool.at
      BY <2>1, <3>1 DEF Present
    <3> QED
      BY <2>1, <2>4, <3>2 DEF OthersSame
  <2> QED
    BY <1>1, <1>4, <2>1, <2>2, <2>3, <2>4 DEF QueueStep, Added, Advanced, OthersSame
<1>5. Present' \subseteq Posted'
  <2> SUFFICES ASSUME NEW m \in Present', m \notin Present PROVE m \in Posted'
    BY <1>1, <1>2 DEF RowsFit
  <2>1. m \in Posts
    BY DEF Present
  <2>2. CASE Reconcile(m)
    BY <1>2, <2>1, <2>2, ReconcileFinds, TakeoverAssumption DEF Posted, Posts
  <2>3. CASE LegacyReceives /\ m = legacy.seen + 1
    BY <1>2, <1>3, <2>3, TakeoverAssumption DEF LegacyReceives, Posted
  <2>4. CASE ReplacementReceives /\ m = repl.seen + 1
    BY <1>2, <1>3, <2>4, TakeoverAssumption DEF ReplacementReceives, Posted
  <2> QED
    BY <2>2, <2>3, <2>4, PresentSteps
<1>6. legacy'.seen <= posted'
  BY <1>1, <1>2, <1>3, LegacySeen, TakeoverAssumption DEF RowsFit
<1>7. repl'.seen <= posted'
  BY <1>1, <1>2, <1>3, ReplacementSeen, TakeoverAssumption DEF RowsFit
<1>8. ASSUME NEW q \in Receipts PROVE receipt'[q].lower <= posted'
  <2>1. /\ receipt[q].lower \in 0..N /\ receipt[q].lower <= posted
        /\ Lower \in 0..N /\ Lower <= posted
    BY <1>1, LowerPosted DEF RowsFit, TakeoverTyped, ReceiptTyped, Receipt
  <2>2. receipt'[q].lower \in {receipt[q].lower, Lower, 0}
    BY <1>1 DEF ReceiptStep, PhaseBecomes, Unbound
  <2> QED
    BY <1>2, <2>1, <2>2, TakeoverAssumption
<1> QED
  BY <1>4, <1>5, <1>6, <1>7, <1>8 DEF RowsFit

\* A takeover is started by begin-replacement, and keeps its baseline.
LEMMA StartedSteps ==
  ASSUME ReceiptStep, NEW q \in Receipts, receipt'[q].phase \in StartedPhases
  PROVE  /\ receipt'[q].lower = receipt[q].lower
         /\ \/ receipt[q].phase \in StartedPhases /\ receipt'[q].base = receipt[q].base
            \/ /\ Begin(q) /\ receipt[q].phase = "prepared"
               /\ receipt'[q].base = Baseline(rows)
<1>1. /\ "legacy-validated" \notin StartedPhases /\ "committed" \notin StartedPhases
      /\ "rolled-back" \notin StartedPhases /\ "prepared" \notin StartedPhases
      /\ "manual-recovery-required" \notin StartedPhases
      /\ \A ph \in EarlyPhases \cup {"prepared"} : ph \notin StartedPhases
  BY DEF StartedPhases, EarlyPhases
<1> QED
  BY <1>1 DEF ReceiptStep, PhaseBecomes, Unbound

\* An abort begins with what it read of the queue.
LEMMA AbortBegins ==
  ASSUME TakeoverTyped, StepsFit, TakeoverNext, tool.cmd # "abort", tool'.cmd = "abort"
  PROVE  \E r \in Receipts :
           /\ Abort(r) /\ tool'.r = r /\ rows' = rows /\ receipt' = receipt
           /\ receipt[r].phase \in EarlyPhases \cup StartedPhases \cup {"prepared"}
           /\ receipt[r].phase \in StartedPhases => ~AcceptedWork(receipt[r].base)
<1>1. \E r \in Receipts : Abort(r)
  <2>1. ASSUME NEW r \in Receipts, Plan(r) PROVE \E q \in Receipts : Abort(q)
    BY <2>1, NoCommandTyped, PlanDoes DEF Plan, At, Steps, TakeoverTyped, PrepareSteps,
       FinishSteps, StoppedSteps, RollbackSteps, StopSteps
  <2>2. ASSUME NEW r \in Receipts, Finalize(r) PROVE \E q \in Receipts : Abort(q)
    BY <2>2, NoCommandTyped, FinalizeDoes DEF Finalize, At, Steps, TakeoverTyped,
       PrepareSteps, FinishSteps, StoppedSteps, RollbackSteps, StopSteps
  <2>3. ASSUME NEW r \in Receipts, Abort(r) PROVE \E q \in Receipts : Abort(q)
    BY <2>3, NoCommandTyped DEF Abort, At, Steps, TakeoverTyped, PrepareSteps, FinishSteps,
       StoppedSteps, RollbackSteps, StopSteps
  <2>4. CASE Validate
    <3>1. (Goes("stop") \/ Ends) /\ tool.cmd = "prepare"
      BY <2>4 DEF Validate, At
    <3> QED
      BY <3>1, GoesTo, EndsTo DEF Steps, PrepareSteps, TakeoverTyped
  <2>5. CASE StopLegacySession
    BY <2>5, NoCommandTyped, GoesTo DEF StopLegacySession, At, Steps, TakeoverTyped,
       PrepareSteps, FinishSteps, StoppedSteps, RollbackSteps, StopSteps
  <2>6. CASE ProveLegacyStopped
    BY <2>6, NoCommandTyped, GoesTo, EndsTo, RaisesTo, PhaseTo DEF ProveLegacyStopped, At,
       Steps, TakeoverTyped, PrepareSteps, FinishSteps, StoppedSteps, RollbackSteps,
       StopSteps
  <2>7. CASE Backup
    BY <2>7, NoCommandTyped, BackupDoes DEF Backup, At, Steps, TakeoverTyped, PrepareSteps,
       FinishSteps, StoppedSteps, RollbackSteps, StopSteps
  <2>8. CASE Authorize
    BY <2>8, NoCommandTyped, GoesTo, EndsTo, RaisesTo, PhaseTo DEF Authorize, At, Steps,
       TakeoverTyped, PrepareSteps, FinishSteps, StoppedSteps, RollbackSteps, StopSteps
  <2>9. CASE Quarantine
    BY <2>9, NoCommandTyped, GoesTo, EndsTo, RaisesTo, QuarantineDoes DEF Quarantine, At,
       Steps, TakeoverTyped, PrepareSteps, FinishSteps, StoppedSteps, RollbackSteps,
       StopSteps
  <2>10. CASE OpenWindow
    BY <2>10, NoCommandTyped, OpenWindowDoes, WindowBounds DEF OpenWindow, At, Steps,
       TakeoverTyped, PrepareSteps, FinishSteps, StoppedSteps, RollbackSteps, StopSteps
  <2>11. CASE ResetGateway
    BY <2>11, NoCommandTyped, GoesTo, BaseDoes, QueuePlans DEF ResetGateway, At, Steps,
       TakeoverTyped, PrepareSteps, FinishSteps, StoppedSteps, RollbackSteps, StopSteps
  <2>12. CASE MarkFresh
    BY <2>12, NoCommandTyped, GoesTo DEF MarkFresh, At, Steps, TakeoverTyped, PrepareSteps,
       FinishSteps, StoppedSteps, RollbackSteps, StopSteps
  <2>13. CASE Prepared
    BY <2>13, NoCommandTyped, EndsTo, PhaseTo DEF Prepared, At, Steps, TakeoverTyped,
       PrepareSteps, FinishSteps, StoppedSteps, RollbackSteps, StopSteps
  <2>14. ASSUME NEW m \in Posts, Reconcile(m) PROVE \E q \in Receipts : Abort(q)
    BY <2>14, NoCommandTyped, GoesTo, EndsTo, RaisesTo, ReconcileDoes DEF Reconcile, At,
       Steps, TakeoverTyped, PrepareSteps, FinishSteps, StoppedSteps, RollbackSteps,
       StopSteps, Reconciling
  <2>15. CASE Acknowledge
    BY <2>15, NoCommandTyped, AcknowledgeDoes DEF Acknowledge, At, Steps, TakeoverTyped,
       PrepareSteps, FinishSteps, StoppedSteps, RollbackSteps, StopSteps, Reconciling
  <2>16. CASE ReopenWindow
    BY <2>16, NoCommandTyped, ReopenDoes DEF ReopenWindow, At, Steps, TakeoverTyped,
       PrepareSteps, FinishSteps, StoppedSteps, RollbackSteps, StopSteps
  <2>17. CASE Reconciled
    BY <2>17, NoCommandTyped, GoesTo, ReconciledDoes DEF Reconciled, At, Steps,
       TakeoverTyped, PrepareSteps, FinishSteps, StoppedSteps, RollbackSteps, StopSteps
  <2>18. CASE IssueDrain
    BY <2>18, NoCommandTyped, GoesTo, PhaseTo DEF IssueDrain, At, Steps, TakeoverTyped,
       PrepareSteps, FinishSteps, StoppedSteps, RollbackSteps, StopSteps
  <2>19. CASE DrainAnswers
    BY <2>19, NoCommandTyped, GoesTo DEF DrainAnswers, At, Steps, TakeoverTyped,
       PrepareSteps, FinishSteps, StoppedSteps, RollbackSteps, StopSteps
  <2>20. CASE CheckBacklog
    BY <2>20, NoCommandTyped, GoesTo, EndsTo, RaisesTo DEF CheckBacklog, At, Steps,
       TakeoverTyped, PrepareSteps, FinishSteps, StoppedSteps, RollbackSteps, StopSteps
  <2>21. CASE Commit
    BY <2>21, NoCommandTyped, EndsTo, PhaseTo DEF Commit, At, Steps, TakeoverTyped,
       PrepareSteps, FinishSteps, StoppedSteps, RollbackSteps, StopSteps
  <2>22. CASE CaptureReplacement
    BY <2>22, NoCommandTyped, CaptureDoes DEF CaptureReplacement, At, Steps, TakeoverTyped,
       PrepareSteps, FinishSteps, StoppedSteps, RollbackSteps, StopSteps
  <2>23. CASE StopReplacementSession
    BY <2>23, NoCommandTyped, GoesTo, EndsTo, RaisesTo DEF StopReplacementSession, At,
       Steps, TakeoverTyped, PrepareSteps, FinishSteps, StoppedSteps, RollbackSteps,
       StopSteps
  <2>24. CASE Restore
    BY <2>24, NoCommandTyped, GoesTo DEF Restore, At, Steps, TakeoverTyped, PrepareSteps,
       FinishSteps, StoppedSteps, RollbackSteps, StopSteps
  <2>25. CASE RestartLegacy
    BY <2>25, NoCommandTyped, GoesTo DEF RestartLegacy, At, Steps, TakeoverTyped,
       PrepareSteps, FinishSteps, StoppedSteps, RollbackSteps, StopSteps
  <2>26. CASE RolledBack
    BY <2>26, NoCommandTyped, EndsTo, RolledBackDoes DEF RolledBack, At, Steps,
       TakeoverTyped, PrepareSteps, FinishSteps, StoppedSteps, RollbackSteps, StopSteps
  <2>27. CASE Fails
    BY <2>27, NoCommandTyped, GoesTo, EndsTo, RaisesTo, PhaseTo DEF Fails, At, Steps,
       TakeoverTyped, PrepareSteps, FinishSteps, StoppedSteps, RollbackSteps, StopSteps
  <2>28. CASE Killed
    BY <2>28, NoCommandTyped, EndsTo DEF Killed, At, Steps, TakeoverTyped, PrepareSteps,
       FinishSteps, StoppedSteps, RollbackSteps, StopSteps
  <2>29. CASE UNCHANGED tool
    BY <2>29, NoCommandTyped
  <2> QED
    BY <2>1, <2>2, <2>3, <2>4, <2>5, <2>6, <2>7, <2>8, <2>9, <2>10, <2>11, <2>12, <2>13,
       <2>14, <2>15, <2>16, <2>17, <2>18, <2>19, <2>20, <2>21, <2>22, <2>23, <2>24, <2>25,
       <2>26, <2>27, <2>28, <2>29 DEF TakeoverNext, Command, Prepare, Finish, RollBack,
       Runtimes, discordVars, queueVars, runtimeVars, historyVars, Begin, StopLabel,
       UnloadReplacement, LegacyStarts, LegacyStops, LegacyMisses, LegacyReceives,
       LegacyWorks, InstallerLoads, ReplacementStarts, ReplacementStops, ReplacementMisses,
       ReplacementConnects, ReplacementReceives, ReplacementWorks, Post, Edit
<1>2. PICK r \in Receipts : Abort(r)
  BY <1>1
<1>3. tool = NoCommand /\ tool' # tool
  BY <1>2, NoCommandTyped DEF Abort
<1>4. /\ receipt[r].phase \in EarlyPhases \cup StartedPhases \cup {"prepared"}
      /\ receipt[r].phase \in EarlyPhases \/ ~AcceptedWork(receipt[r].base)
      /\ receipt' = receipt /\ rows' = rows
      /\ tool' = [NoCommand EXCEPT !.cmd = "abort", !.r = r,
             !.pc = IF receipt[r].phase \in StartedPhases THEN "capture" ELSE "restore"]
  BY <1>2, <1>3 DEF Abort, queueVars
<1>5. tool'.r = r
  <2>1. ASSUME NEW p \in {"capture", "restore"},
               tool' = [NoCommand EXCEPT !.cmd = "abort", !.r = r, !.pc = p]
        PROVE  tool'.r = r
    BY <2>1, AbortDoes DEF Steps, StopSteps, RollbackSteps
  <2> QED
    BY <1>4, <2>1
<1> QED
  BY <1>2, <1>4, <1>5, PhaseSets

\* Every step keeps the queue without gaps, but for what is missed.
LEMMA GapStep ==
  ASSUME TakeoverInv, TakeoverNext
  PROVE  GapInv'
<1>1. TakeoverTyped /\ GapInv
  BY DEF TakeoverInv
<1>2. ASSUME NEW n \in Posts, NEW m \in Present', m \notin Present,
             n < m, Channel[n] = Channel[m], n \notin Present'
      PROVE  Missed(n)'
  <2>1. m \in Posts /\ n \notin Present /\ rows[m].state = "absent"
    BY <1>2, PresentSteps DEF Present
  <2>2. CASE Reconcile(m)
    <3>1. /\ tool.r \in Receipts /\ receipt[tool.r].phase \in Bounded
          /\ receipt[tool.r].lower \in 0..N /\ ~(receipt[tool.r].lower < n)
      BY <1>2, <2>1, <2>2, ReconcileFinds
    <3>2. n \in 1..receipt[tool.r].lower
      BY <3>1, TakeoverAssumption DEF Posts
    <3>3. Missed(n)
      BY <2>1, <3>1, <3>2 DEF TakeoverInv, WindowInv, BoundsFit
    <3> QED
      BY <1>1, <3>3, HeardSteps
  <2>3. rows[m] = NoRow
    BY <2>1 DEF TakeoverInv, RowsFit
  <2>4. CASE LegacyReceives /\ m = legacy.seen + 1
    <3>1. m \in heard'
      BY <2>3, <2>4 DEF LegacyReceives, Enqueued
    <3> QED
      BY <1>2, <3>1 DEF Missed
  <2>5. CASE ReplacementReceives /\ m = repl.seen + 1
    <3>1. m \in heard'
      BY <2>3, <2>5 DEF ReplacementReceives, Enqueued
    <3> QED
      BY <1>2, <3>1 DEF Missed
  <2> QED
    BY <1>2, <2>2, <2>4, <2>5, PresentSteps
<1>3. ASSUME NEW n \in Posts, NEW m \in Present,
             n < m, Channel[n] = Channel[m], n \notin Present'
      PROVE  Missed(n)'
  <2>1. n \notin Present
    BY <1>3, PresentSteps
  <2>2. Missed(n)
    BY <1>1, <1>3, <2>1 DEF GapInv
  <2> QED
    BY <1>1, <2>2, HeardSteps
<1> QED
  BY <1>2, <1>3 DEF GapInv

\* A lower bound is set once, before anything is served.
LEMMA BoundedSteps ==
  ASSUME TakeoverInv, TakeoverNext, NEW q \in Receipts, receipt'[q].phase \in Bounded
  PROVE  \/ receipt[q].phase \in Bounded /\ receipt'[q].lower = receipt[q].lower
         \/ receipt'[q].lower = Lower /\ ~Served /\ rows' = rows
<1>1. ReceiptStep /\ ControlInv /\ ReconcileFits
  BY InvSteps DEF TakeoverInv, WindowInv
<1>2. /\ "legacy-validated" \notin Bounded /\ "rolled-back" \notin Bounded
      /\ "manual-recovery-required" \notin Bounded
      /\ "prepared" \in Bounded /\ StartedPhases \subseteq Bounded
  BY DEF Bounded, StartedPhases
<1>3. CASE OpenWindow
  <2>1. tool.cmd = "prepare" /\ tool.pc = "window" /\ rows' = rows
    BY <1>3 DEF OpenWindow, At, queueVars
  <2>2. ~Served
    BY <1>1, <2>1, CommandFinds
  <2> QED
    BY <1>1, <1>2, <2>1, <2>2 DEF ReceiptStep, PhaseBecomes, Unbound
<1>4. CASE ~OpenWindow
  BY <1>1, <1>2, <1>4 DEF ReceiptStep, PhaseBecomes, Unbound, ReconcileFits
<1> QED
  BY <1>3, <1>4

\* How a takeover comes to be committed.
LEMMA CommittedSteps ==
  ASSUME ReceiptStep, NEW q \in Receipts, receipt'[q].phase = "committed"
  PROVE  \/ receipt'[q] = receipt[q]
         \/ /\ Commit /\ q = tool.r /\ tool.pc = "commit" /\ receipt[q].phase \in StartedPhases
            /\ receipt'[q].lower = receipt[q].lower /\ receipt'[q].upper = receipt[q].upper
<1>1. "committed" \notin EarlyPhases \cup StartedPhases \cup {"prepared"}
  BY DEF EarlyPhases, StartedPhases
<1> QED
  BY <1>1 DEF ReceiptStep, PhaseBecomes, Unbound, Commit, At

\* Every step keeps the lower bounds.
LEMMA BoundsStep ==
  ASSUME TakeoverInv, TakeoverNext
  PROVE  BoundsFit'
<1>1. /\ ReceiptStep /\ TakeoverTyped /\ TakeoverTyped' /\ ControlInv /\ RuntimeInv
      /\ GapInv /\ RowsFit /\ BoundsFit /\ CommitFits
  BY InvSteps DEF TakeoverInv, WindowInv
<1>2. ASSUME NEW q \in Receipts, receipt'[q].phase \in Bounded,
             NEW m \in 1..receipt'[q].lower, m \notin Present'
      PROVE  Missed(m)'
  <2>1. m \in Posts /\ receipt'[q].lower \in 0..N /\ m \notin Present
    BY <1>1, <1>2, PresentSteps, TakeoverAssumption DEF TakeoverTyped, ReceiptTyped,
       Receipt, Posts
  <2>2. CASE receipt[q].phase \in Bounded /\ receipt'[q].lower = receipt[q].lower
    <3>1. Missed(m)
      BY <1>1, <1>2, <2>1, <2>2 DEF BoundsFit
    <3> QED
      BY <1>1, <2>1, <3>1, HeardSteps
  <2>3. CASE receipt'[q].lower = Lower /\ ~Served
    <3> DEFINE n == Newest(Channel[m])
    <3>1. Channel[m] \in Channels
      BY <2>1, TakeoverAssumption DEF Posts
    <3>2. Lower <= n /\ n \in 0..N /\ Lower \in 0..N /\ (n # 0 => n \in Present /\ Channel[n] = Channel[m])
      BY <1>1, <3>1, NewestIs, LowerIs DEF TakeoverTyped
    <3>3. m <= n
      BY <1>2, <2>3, <3>2, TakeoverAssumption
    <3>4. n \in Present /\ Channel[n] = Channel[m] /\ m < n
      BY <2>1, <3>2, <3>3, TakeoverAssumption DEF Posts
    <3>5. Missed(m)
      BY <1>1, <2>1, <2>3, <3>4 DEF GapInv
    <3> QED
      BY <1>1, <2>1, <3>5, HeardSteps
  <2> QED
    BY <1>2, <2>2, <2>3, BoundedSteps
<1>3. ASSUME NEW q \in Receipts, receipt'[q].phase \in StartedPhases \cup {"committed"}, repl'.up
      PROVE  receipt'[q].lower <= repl'.seen
  <2>1. /\ receipt'[q].lower = receipt[q].lower
        /\ \/ receipt[q].phase \in StartedPhases \cup {"committed"}
           \/ Begin(q) /\ receipt[q].phase = "prepared"
    BY <1>1, <1>3, StartedSteps, CommittedSteps
  <2>2. repl.up => receipt[q].phase # "prepared"
    BY <1>1, NotServed DEF RuntimeInv, ReplacementRuns
  <2>3. /\ receipt[q].lower \in 0..N /\ receipt[q].lower <= posted /\ posted \in 0..N
        /\ repl.seen \in 0..N
    BY <1>1 DEF RowsFit, TakeoverTyped, ReceiptTyped, Receipt, OthersTyped, RuntimesTyped
  <2>4. repl.up => receipt[q].lower <= repl.seen
    BY <1>1, <2>1, <2>2 DEF BoundsFit
  <2>5. CASE repl'.seen = repl.seen /\ repl.up
    BY <2>1, <2>4, <2>5
  <2>6. CASE repl'.seen = posted
    BY <2>1, <2>3, <2>6
  <2>7. CASE repl'.seen = repl.seen + 1 /\ repl.up
    BY <2>1, <2>3, <2>4, <2>7, TakeoverAssumption
  <2> QED
    BY <1>1, <1>3, <2>5, <2>6, <2>7, ReplacementSeen
<1>4. ASSUME NEW q \in Receipts, receipt'[q].phase = "committed"
      PROVE  Window(receipt'[q].lower, receipt'[q].upper) \subseteq Present'
  <2>1. Window(receipt[q].lower, receipt[q].upper) \subseteq Present
    BY <1>1, <1>4, CommittedSteps DEF BoundsFit, CommitFits
  <2> QED
    BY <1>1, <1>4, <2>1, CommittedSteps, PresentSteps
<1> QED
  BY <1>2, <1>3, <1>4 DEF BoundsFit

\* How a command comes to reconcile, and goes on.
LEMMA ReconcileSteps ==
  ASSUME TakeoverTyped, ControlInv, SessionFits, TakeoverNext, tool'.pc = "reconcile"
  PROVE  \/ tool' = tool /\ receipt' = receipt
         \/ OpenWindow \/ ReopenWindow
         \/ \E m \in Posts : Reconcile(m) /\ tool' = [tool EXCEPT !.at = m]
         \/ Acknowledge
<1> DEFINE Goal == \/ tool' = tool /\ receipt' = receipt
                   \/ OpenWindow \/ ReopenWindow
                   \/ \E m \in Posts : Reconcile(m) /\ tool' = [tool EXCEPT !.at = m]
                   \/ Acknowledge
<1>1. ASSUME NEW r \in Receipts, Plan(r) PROVE Goal
  BY <1>1, NoCommandTyped, PlanDoes DEF Plan, At, Steps, TakeoverTyped, PrepareSteps,
     FinishSteps, StoppedSteps, RollbackSteps, StopSteps
<1>2. ASSUME NEW r \in Receipts, Begin(r) PROVE Goal
  BY <1>2, NoCommandTyped, BaseDoes, QueuePlans DEF Begin, At, Steps, TakeoverTyped,
     PrepareSteps, FinishSteps, StoppedSteps, RollbackSteps, StopSteps
<1>3. ASSUME NEW r \in Receipts, Finalize(r) PROVE Goal
  BY <1>3, NoCommandTyped, FinalizeDoes DEF Finalize, At, Steps, TakeoverTyped,
     PrepareSteps, FinishSteps, StoppedSteps, RollbackSteps, StopSteps
<1>4. ASSUME NEW r \in Receipts, Abort(r) PROVE Goal
  BY <1>4, NoCommandTyped, AbortTo DEF Abort, At, Steps, TakeoverTyped, PrepareSteps,
     FinishSteps, StoppedSteps, RollbackSteps, StopSteps
<1>5. CASE Validate
  BY <1>5, NoCommandTyped, ValidateTo DEF Validate, At, Steps, TakeoverTyped, PrepareSteps,
     FinishSteps, StoppedSteps, RollbackSteps, StopSteps
<1>6. CASE StopLegacySession
  BY <1>6, NoCommandTyped, GoesTo DEF StopLegacySession, At, Steps, TakeoverTyped,
     PrepareSteps, FinishSteps, StoppedSteps, RollbackSteps, StopSteps
<1>7. CASE ProveLegacyStopped
  BY <1>7, NoCommandTyped, GoesTo, EndsTo, RaisesTo, PhaseTo DEF ProveLegacyStopped, At,
     Steps, TakeoverTyped, PrepareSteps, FinishSteps, StoppedSteps, RollbackSteps, StopSteps
<1>8. CASE Backup
  BY <1>8, NoCommandTyped, BackupDoes DEF Backup, At, Steps, TakeoverTyped, PrepareSteps,
     FinishSteps, StoppedSteps, RollbackSteps, StopSteps
<1>9. CASE Authorize
  BY <1>9, NoCommandTyped, GoesTo, EndsTo, RaisesTo, PhaseTo DEF Authorize, At, Steps,
     TakeoverTyped, PrepareSteps, FinishSteps, StoppedSteps, RollbackSteps, StopSteps
<1>10. CASE Quarantine
  BY <1>10, NoCommandTyped, GoesTo, EndsTo, RaisesTo, QuarantineDoes DEF Quarantine, At,
     Steps, TakeoverTyped, PrepareSteps, FinishSteps, StoppedSteps, RollbackSteps, StopSteps
<1>11. CASE OpenWindow
  BY <1>11, NoCommandTyped, OpenWindowDoes, WindowBounds DEF OpenWindow, At, Steps,
     TakeoverTyped, PrepareSteps, FinishSteps, StoppedSteps, RollbackSteps, StopSteps
<1>12. CASE ResetGateway
  BY <1>12, NoCommandTyped, GoesTo, BaseDoes, QueuePlans DEF ResetGateway, At, Steps,
     TakeoverTyped, PrepareSteps, FinishSteps, StoppedSteps, RollbackSteps, StopSteps
<1>13. CASE MarkFresh
  BY <1>13, NoCommandTyped, GoesTo DEF MarkFresh, At, Steps, TakeoverTyped, PrepareSteps,
     FinishSteps, StoppedSteps, RollbackSteps, StopSteps
<1>14. CASE Prepared
  BY <1>14, NoCommandTyped, EndsTo, PhaseTo DEF Prepared, At, Steps, TakeoverTyped,
     PrepareSteps, FinishSteps, StoppedSteps, RollbackSteps, StopSteps
<1>15. ASSUME NEW m \in Posts, Reconcile(m) PROVE Goal
  <2>1. tool.cmd \in {"prepare", "finalize"} /\ (Raises \/ tool' = [tool EXCEPT !.at = m])
    BY <1>15 DEF Reconcile, Reconciling
  <2>2. ~Raises
    BY <2>1, RaisesTo, GoesTo, EndsTo, NoCommandTyped DEF Steps, RollbackSteps,
       TakeoverTyped
  <2> QED
    BY <1>15, <2>1, <2>2
<1>16. CASE Acknowledge
  BY <1>16, NoCommandTyped, AcknowledgeDoes DEF Acknowledge, At, Steps, TakeoverTyped,
     PrepareSteps, FinishSteps, StoppedSteps, RollbackSteps, StopSteps, Reconciling
<1>17. CASE ReopenWindow
  BY <1>17, NoCommandTyped, ReopenDoes DEF ReopenWindow, At, Steps, TakeoverTyped,
     PrepareSteps, FinishSteps, StoppedSteps, RollbackSteps, StopSteps
<1>18. CASE Reconciled
  BY <1>18, NoCommandTyped, GoesTo, ReconciledDoes DEF Reconciled, At, Steps, TakeoverTyped,
     PrepareSteps, FinishSteps, StoppedSteps, RollbackSteps, StopSteps
<1>19. CASE IssueDrain
  BY <1>19, NoCommandTyped, GoesTo, PhaseTo DEF IssueDrain, At, Steps, TakeoverTyped,
     PrepareSteps, FinishSteps, StoppedSteps, RollbackSteps, StopSteps
<1>20. CASE DrainAnswers
  BY <1>20, NoCommandTyped, GoesTo DEF DrainAnswers, At, Steps, TakeoverTyped, PrepareSteps,
     FinishSteps, StoppedSteps, RollbackSteps, StopSteps
<1>21. CASE CheckBacklog
  BY <1>21, NoCommandTyped, GoesTo, EndsTo, RaisesTo DEF CheckBacklog, At, Steps,
     TakeoverTyped, PrepareSteps, FinishSteps, StoppedSteps, RollbackSteps, StopSteps
<1>22. CASE Commit
  BY <1>22, NoCommandTyped, EndsTo, PhaseTo DEF Commit, At, Steps, TakeoverTyped,
     PrepareSteps, FinishSteps, StoppedSteps, RollbackSteps, StopSteps
<1>23. CASE CaptureReplacement
  BY <1>23, NoCommandTyped, CaptureDoes DEF CaptureReplacement, At, Steps, TakeoverTyped,
     PrepareSteps, FinishSteps, StoppedSteps, RollbackSteps, StopSteps
<1>24. CASE StopReplacementSession
  BY <1>24, NoCommandTyped, GoesTo, EndsTo, RaisesTo DEF StopReplacementSession, At, Steps,
     TakeoverTyped, PrepareSteps, FinishSteps, StoppedSteps, RollbackSteps, StopSteps
<1>25. CASE Restore
  BY <1>25, NoCommandTyped, GoesTo DEF Restore, At, Steps, TakeoverTyped, PrepareSteps,
     FinishSteps, StoppedSteps, RollbackSteps, StopSteps
<1>26. CASE RestartLegacy
  BY <1>26, NoCommandTyped, GoesTo DEF RestartLegacy, At, Steps, TakeoverTyped,
     PrepareSteps, FinishSteps, StoppedSteps, RollbackSteps, StopSteps
<1>27. CASE RolledBack
  BY <1>27, NoCommandTyped, EndsTo, RolledBackDoes DEF RolledBack, At, Steps, TakeoverTyped,
     PrepareSteps, FinishSteps, StoppedSteps, RollbackSteps, StopSteps
<1>28. CASE Fails
  BY <1>28, NoCommandTyped, GoesTo, EndsTo, RaisesTo, PhaseTo DEF Fails, At, Steps,
     TakeoverTyped, PrepareSteps, FinishSteps, StoppedSteps, RollbackSteps, StopSteps
<1>29. CASE Killed
  BY <1>29, NoCommandTyped, EndsTo DEF Killed, At, Steps, TakeoverTyped, PrepareSteps,
     FinishSteps, StoppedSteps, RollbackSteps, StopSteps
<1>30. CASE UNCHANGED <<tool, receipt>>
  BY <1>30, NoCommandTyped
<1> QED
  BY <1>1, <1>2, <1>3, <1>4, <1>5, <1>6, <1>7, <1>8, <1>9, <1>10, <1>11, <1>12, <1>13,
     <1>14, <1>15, <1>16, <1>17, <1>18, <1>19, <1>20, <1>21, <1>22, <1>23, <1>24, <1>25,
     <1>26, <1>27, <1>28, <1>29, <1>30 DEF TakeoverNext, Command, Prepare, Finish, RollBack,
     Runtimes, discordVars, queueVars, runtimeVars, historyVars, StopLabel,
     UnloadReplacement, LegacyStarts, LegacyStops, LegacyMisses, LegacyReceives,
     LegacyWorks, InstallerLoads, ReplacementStarts, ReplacementStops, ReplacementMisses,
     ReplacementConnects, ReplacementReceives, ReplacementWorks, Post, Edit

\* A reaction is waited for only while a window is reconciled.
LEMMA AtSteps ==
  ASSUME TakeoverInv, TakeoverNext, tool'.at # 0
  PROVE  tool'.pc \in {"reconcile"} \cup RollbackSteps
<1>1. TakeoverTyped /\ ControlInv /\ SessionFits /\ ReconcileFits
  BY InvSteps DEF TakeoverInv, WindowInv
<1> DEFINE Goal == tool'.pc \in {"reconcile"} \cup RollbackSteps
<1>2. RollbackSteps = {"restore", "restart", "save"}
  BY DEF RollbackSteps
<1>3. ASSUME NEW r \in Receipts, Plan(r) PROVE Goal
  BY <1>3, <1>1, NoCommandTyped, PlanDoes DEF Plan, At, Steps, TakeoverTyped, PrepareSteps,
     FinishSteps, StoppedSteps, RollbackSteps, StopSteps, ReconcileFits
<1>4. ASSUME NEW r \in Receipts, Finalize(r) PROVE Goal
  BY <1>4, <1>1, NoCommandTyped, FinalizeDoes DEF Finalize, At, Steps, TakeoverTyped,
     PrepareSteps, FinishSteps, StoppedSteps, RollbackSteps, StopSteps, ReconcileFits
<1>5. ASSUME NEW r \in Receipts, Abort(r) PROVE Goal
  BY <1>5, <1>1, NoCommandTyped, AbortTo DEF Abort, At, Steps, TakeoverTyped, PrepareSteps,
     FinishSteps, StoppedSteps, RollbackSteps, StopSteps, ReconcileFits
<1>6. CASE Validate
  BY <1>6, <1>1, NoCommandTyped, ValidateTo DEF Validate, At, Steps, TakeoverTyped,
     PrepareSteps, FinishSteps, StoppedSteps, RollbackSteps, StopSteps, ReconcileFits
<1>7. CASE StopLegacySession
  BY <1>7, <1>1, NoCommandTyped, GoesTo DEF StopLegacySession, At, Steps, TakeoverTyped,
     PrepareSteps, FinishSteps, StoppedSteps, RollbackSteps, StopSteps, ReconcileFits
<1>8. CASE ProveLegacyStopped
  BY <1>8, <1>1, NoCommandTyped, GoesTo, EndsTo, RaisesTo, PhaseTo DEF ProveLegacyStopped,
     At, Steps, TakeoverTyped, PrepareSteps, FinishSteps, StoppedSteps, RollbackSteps,
     StopSteps, ReconcileFits
<1>9. CASE Backup
  BY <1>9, <1>1, NoCommandTyped, BackupDoes DEF Backup, At, Steps, TakeoverTyped,
     PrepareSteps, FinishSteps, StoppedSteps, RollbackSteps, StopSteps, ReconcileFits
<1>10. CASE Authorize
  BY <1>10, <1>1, NoCommandTyped, GoesTo, EndsTo, RaisesTo, PhaseTo DEF Authorize, At, Steps,
     TakeoverTyped, PrepareSteps, FinishSteps, StoppedSteps, RollbackSteps, StopSteps,
     ReconcileFits
<1>11. CASE Quarantine
  BY <1>11, <1>1, NoCommandTyped, GoesTo, EndsTo, RaisesTo, QuarantineDoes DEF Quarantine,
     At, Steps, TakeoverTyped, PrepareSteps, FinishSteps, StoppedSteps, RollbackSteps,
     StopSteps, ReconcileFits
<1>12. CASE OpenWindow
  BY <1>12, <1>1, NoCommandTyped, OpenWindowDoes, WindowBounds DEF OpenWindow, At, Steps,
     TakeoverTyped, PrepareSteps, FinishSteps, StoppedSteps, RollbackSteps, StopSteps,
     ReconcileFits
<1>13. CASE ResetGateway
  BY <1>13, <1>1, NoCommandTyped, GoesTo, BaseDoes, QueuePlans DEF ResetGateway, At, Steps,
     TakeoverTyped, PrepareSteps, FinishSteps, StoppedSteps, RollbackSteps, StopSteps,
     ReconcileFits
<1>14. CASE MarkFresh
  BY <1>14, <1>1, NoCommandTyped, GoesTo DEF MarkFresh, At, Steps, TakeoverTyped,
     PrepareSteps, FinishSteps, StoppedSteps, RollbackSteps, StopSteps, ReconcileFits
<1>15. CASE Prepared
  BY <1>15, <1>1, NoCommandTyped, EndsTo, PhaseTo DEF Prepared, At, Steps, TakeoverTyped,
     PrepareSteps, FinishSteps, StoppedSteps, RollbackSteps, StopSteps, ReconcileFits
<1>16. ASSUME NEW m \in Posts, Reconcile(m) PROVE Goal
  BY <1>16, <1>1, NoCommandTyped, GoesTo, EndsTo, RaisesTo, ReconcileDoes DEF Reconcile, At,
     Steps, TakeoverTyped, PrepareSteps, FinishSteps, StoppedSteps, RollbackSteps,
     StopSteps, Reconciling, ReconcileFits
<1>17. CASE Acknowledge
  BY <1>17, <1>1, NoCommandTyped, AcknowledgeDoes DEF Acknowledge, At, Steps, TakeoverTyped,
     PrepareSteps, FinishSteps, StoppedSteps, RollbackSteps, StopSteps, Reconciling,
     ReconcileFits
<1>18. CASE ReopenWindow
  BY <1>18, <1>1, NoCommandTyped, ReopenDoes DEF ReopenWindow, At, Steps, TakeoverTyped,
     PrepareSteps, FinishSteps, StoppedSteps, RollbackSteps, StopSteps, ReconcileFits
<1>19. CASE Reconciled
  BY <1>19, <1>1, NoCommandTyped, GoesTo, ReconciledDoes DEF Reconciled, At, Steps,
     TakeoverTyped, PrepareSteps, FinishSteps, StoppedSteps, RollbackSteps, StopSteps,
     ReconcileFits
<1>20. CASE IssueDrain
  BY <1>20, <1>1, NoCommandTyped, GoesTo, PhaseTo DEF IssueDrain, At, Steps, TakeoverTyped,
     PrepareSteps, FinishSteps, StoppedSteps, RollbackSteps, StopSteps, ReconcileFits
<1>21. CASE DrainAnswers
  BY <1>21, <1>1, NoCommandTyped, GoesTo DEF DrainAnswers, At, Steps, TakeoverTyped,
     PrepareSteps, FinishSteps, StoppedSteps, RollbackSteps, StopSteps, ReconcileFits
<1>22. CASE CheckBacklog
  BY <1>22, <1>1, NoCommandTyped, GoesTo, EndsTo, RaisesTo DEF CheckBacklog, At, Steps,
     TakeoverTyped, PrepareSteps, FinishSteps, StoppedSteps, RollbackSteps, StopSteps,
     ReconcileFits
<1>23. CASE Commit
  BY <1>23, <1>1, NoCommandTyped, EndsTo, PhaseTo DEF Commit, At, Steps, TakeoverTyped,
     PrepareSteps, FinishSteps, StoppedSteps, RollbackSteps, StopSteps, ReconcileFits
<1>24. CASE CaptureReplacement
  BY <1>24, <1>1, NoCommandTyped, CaptureDoes DEF CaptureReplacement, At, Steps,
     TakeoverTyped, PrepareSteps, FinishSteps, StoppedSteps, RollbackSteps, StopSteps,
     ReconcileFits
<1>25. CASE StopReplacementSession
  BY <1>25, <1>1, NoCommandTyped, GoesTo, EndsTo, RaisesTo DEF StopReplacementSession, At,
     Steps, TakeoverTyped, PrepareSteps, FinishSteps, StoppedSteps, RollbackSteps,
     StopSteps, ReconcileFits
<1>26. CASE Restore
  BY <1>26, <1>1, NoCommandTyped, GoesTo DEF Restore, At, Steps, TakeoverTyped,
     PrepareSteps, FinishSteps, StoppedSteps, RollbackSteps, StopSteps, ReconcileFits
<1>27. CASE RestartLegacy
  BY <1>27, <1>1, NoCommandTyped, GoesTo DEF RestartLegacy, At, Steps, TakeoverTyped,
     PrepareSteps, FinishSteps, StoppedSteps, RollbackSteps, StopSteps, ReconcileFits
<1>28. CASE RolledBack
  BY <1>28, <1>1, NoCommandTyped, EndsTo, RolledBackDoes DEF RolledBack, At, Steps,
     TakeoverTyped, PrepareSteps, FinishSteps, StoppedSteps, RollbackSteps, StopSteps,
     ReconcileFits
<1>29. CASE Fails
  BY <1>29, <1>1, NoCommandTyped, GoesTo, EndsTo, RaisesTo, PhaseTo DEF Fails, At, Steps,
     TakeoverTyped, PrepareSteps, FinishSteps, StoppedSteps, RollbackSteps, StopSteps,
     ReconcileFits
<1>30. CASE Killed
  BY <1>30, <1>1, NoCommandTyped, EndsTo DEF Killed, At, Steps, TakeoverTyped, PrepareSteps,
     FinishSteps, StoppedSteps, RollbackSteps, StopSteps, ReconcileFits
<1>31. CASE UNCHANGED tool
  BY <1>31, <1>1, NoCommandTyped DEF ReconcileFits
<1> QED
  BY <1>3, <1>4, <1>5, <1>6, <1>7, <1>8, <1>9, <1>10, <1>11, <1>12, <1>13, <1>14, <1>15,
     <1>16, <1>17, <1>18, <1>19, <1>20, <1>21, <1>22, <1>23, <1>24, <1>25, <1>26, <1>27,
     <1>28, <1>29, <1>30, <1>31 DEF TakeoverNext, Command, Prepare, Finish, RollBack,
     Runtimes, discordVars, queueVars, runtimeVars, historyVars, Begin, StopLabel,
     UnloadReplacement, LegacyStarts, LegacyStops, LegacyMisses, LegacyReceives,
     LegacyWorks, InstallerLoads, ReplacementStarts, ReplacementStops, ReplacementMisses,
     ReplacementConnects, ReplacementReceives, ReplacementWorks, Post, Edit

\* Where a failure leads.
LEMMA RaisesEnds ==
  ASSUME TakeoverTyped, Raises
  PROVE  tool'.pc \in {"restore", "idle"}
  BY RaisesTo, GoesTo, EndsTo DEF Steps, RollbackSteps, TakeoverTyped

\* How a command comes to reset the gateway, and goes on.
LEMMA ResetSteps ==
  ASSUME TakeoverTyped, ControlInv, SessionFits, TakeoverNext, tool'.pc \in {"fresh", "prepared"}
  PROVE  (tool' = tool /\ receipt' = receipt) \/ ResetGateway \/ MarkFresh
<1> DEFINE Goal == (tool' = tool /\ receipt' = receipt) \/ ResetGateway \/ MarkFresh
<1>1. ASSUME NEW r \in Receipts, Plan(r) PROVE Goal
  BY <1>1, NoCommandTyped, PlanDoes DEF Plan, At, Steps, TakeoverTyped, PrepareSteps,
     FinishSteps, StoppedSteps, RollbackSteps, StopSteps
<1>2. ASSUME NEW r \in Receipts, Begin(r) PROVE Goal
  BY <1>2, NoCommandTyped, BaseDoes, QueuePlans DEF Begin, At, Steps, TakeoverTyped,
     PrepareSteps, FinishSteps, StoppedSteps, RollbackSteps, StopSteps
<1>3. ASSUME NEW r \in Receipts, Finalize(r) PROVE Goal
  BY <1>3, NoCommandTyped, FinalizeDoes DEF Finalize, At, Steps, TakeoverTyped,
     PrepareSteps, FinishSteps, StoppedSteps, RollbackSteps, StopSteps
<1>4. ASSUME NEW r \in Receipts, Abort(r) PROVE Goal
  BY <1>4, NoCommandTyped, AbortTo DEF Abort, At, Steps, TakeoverTyped, PrepareSteps,
     FinishSteps, StoppedSteps, RollbackSteps, StopSteps
<1>5. CASE Validate
  BY <1>5, NoCommandTyped, ValidateTo DEF Validate, At, Steps, TakeoverTyped, PrepareSteps,
     FinishSteps, StoppedSteps, RollbackSteps, StopSteps
<1>6. CASE StopLegacySession
  BY <1>6, NoCommandTyped, GoesTo DEF StopLegacySession, At, Steps, TakeoverTyped,
     PrepareSteps, FinishSteps, StoppedSteps, RollbackSteps, StopSteps
<1>7. CASE ProveLegacyStopped
  BY <1>7, NoCommandTyped, GoesTo, EndsTo, RaisesTo, PhaseTo DEF ProveLegacyStopped, At,
     Steps, TakeoverTyped, PrepareSteps, FinishSteps, StoppedSteps, RollbackSteps, StopSteps
<1>8. CASE Backup
  BY <1>8, NoCommandTyped, BackupDoes DEF Backup, At, Steps, TakeoverTyped, PrepareSteps,
     FinishSteps, StoppedSteps, RollbackSteps, StopSteps
<1>9. CASE Authorize
  BY <1>9, NoCommandTyped, GoesTo, EndsTo, RaisesTo, PhaseTo DEF Authorize, At, Steps,
     TakeoverTyped, PrepareSteps, FinishSteps, StoppedSteps, RollbackSteps, StopSteps
<1>10. CASE Quarantine
  BY <1>10, NoCommandTyped, GoesTo, EndsTo, RaisesTo, QuarantineDoes DEF Quarantine, At,
     Steps, TakeoverTyped, PrepareSteps, FinishSteps, StoppedSteps, RollbackSteps, StopSteps
<1>11. CASE OpenWindow
  BY <1>11, NoCommandTyped, OpenWindowDoes, WindowBounds DEF OpenWindow, At, Steps,
     TakeoverTyped, PrepareSteps, FinishSteps, StoppedSteps, RollbackSteps, StopSteps
<1>12. CASE ResetGateway
  BY <1>12, NoCommandTyped, GoesTo, BaseDoes, QueuePlans DEF ResetGateway, At, Steps,
     TakeoverTyped, PrepareSteps, FinishSteps, StoppedSteps, RollbackSteps, StopSteps
<1>13. CASE MarkFresh
  BY <1>13, NoCommandTyped, GoesTo DEF MarkFresh, At, Steps, TakeoverTyped, PrepareSteps,
     FinishSteps, StoppedSteps, RollbackSteps, StopSteps
<1>14. CASE Prepared
  BY <1>14, NoCommandTyped, EndsTo, PhaseTo DEF Prepared, At, Steps, TakeoverTyped,
     PrepareSteps, FinishSteps, StoppedSteps, RollbackSteps, StopSteps
<1>15. ASSUME NEW m \in Posts, Reconcile(m) PROVE Goal
  BY <1>15, NoCommandTyped, RaisesEnds, ReconcileDoes DEF Reconcile, At, Steps,
     TakeoverTyped, PrepareSteps, FinishSteps, StoppedSteps, RollbackSteps, StopSteps,
     Reconciling
<1>16. CASE Acknowledge
  BY <1>16, NoCommandTyped, AcknowledgeDoes DEF Acknowledge, At, Steps, TakeoverTyped,
     PrepareSteps, FinishSteps, StoppedSteps, RollbackSteps, StopSteps, Reconciling
<1>17. CASE ReopenWindow
  BY <1>17, NoCommandTyped, ReopenDoes DEF ReopenWindow, At, Steps, TakeoverTyped,
     PrepareSteps, FinishSteps, StoppedSteps, RollbackSteps, StopSteps
<1>18. CASE Reconciled
  BY <1>18, NoCommandTyped, GoesTo, ReconciledDoes DEF Reconciled, At, Steps, TakeoverTyped,
     PrepareSteps, FinishSteps, StoppedSteps, RollbackSteps, StopSteps
<1>19. CASE IssueDrain
  BY <1>19, NoCommandTyped, GoesTo, PhaseTo DEF IssueDrain, At, Steps, TakeoverTyped,
     PrepareSteps, FinishSteps, StoppedSteps, RollbackSteps, StopSteps
<1>20. CASE DrainAnswers
  BY <1>20, NoCommandTyped, GoesTo DEF DrainAnswers, At, Steps, TakeoverTyped, PrepareSteps,
     FinishSteps, StoppedSteps, RollbackSteps, StopSteps
<1>21. CASE CheckBacklog
  BY <1>21, NoCommandTyped, RaisesEnds, GoesTo DEF CheckBacklog, At, Steps, TakeoverTyped,
     PrepareSteps, FinishSteps, StoppedSteps, RollbackSteps, StopSteps
<1>22. CASE Commit
  BY <1>22, NoCommandTyped, EndsTo, PhaseTo DEF Commit, At, Steps, TakeoverTyped,
     PrepareSteps, FinishSteps, StoppedSteps, RollbackSteps, StopSteps
<1>23. CASE CaptureReplacement
  BY <1>23, NoCommandTyped, CaptureDoes DEF CaptureReplacement, At, Steps, TakeoverTyped,
     PrepareSteps, FinishSteps, StoppedSteps, RollbackSteps, StopSteps
<1>24. CASE StopReplacementSession
  BY <1>24, NoCommandTyped, RaisesEnds, GoesTo DEF StopReplacementSession, At, Steps,
     TakeoverTyped, PrepareSteps, FinishSteps, StoppedSteps, RollbackSteps, StopSteps
<1>25. CASE Restore
  BY <1>25, NoCommandTyped, GoesTo DEF Restore, At, Steps, TakeoverTyped, PrepareSteps,
     FinishSteps, StoppedSteps, RollbackSteps, StopSteps
<1>26. CASE RestartLegacy
  BY <1>26, NoCommandTyped, GoesTo DEF RestartLegacy, At, Steps, TakeoverTyped,
     PrepareSteps, FinishSteps, StoppedSteps, RollbackSteps, StopSteps
<1>27. CASE RolledBack
  BY <1>27, NoCommandTyped, EndsTo, RolledBackDoes DEF RolledBack, At, Steps, TakeoverTyped,
     PrepareSteps, FinishSteps, StoppedSteps, RollbackSteps, StopSteps
<1>28. CASE Fails
  BY <1>28, NoCommandTyped, RaisesEnds, EndsTo DEF Fails, At, Steps, TakeoverTyped,
     PrepareSteps, FinishSteps, StoppedSteps, RollbackSteps, StopSteps
<1>29. CASE Killed
  BY <1>29, NoCommandTyped, EndsTo DEF Killed, At, Steps, TakeoverTyped, PrepareSteps,
     FinishSteps, StoppedSteps, RollbackSteps, StopSteps
<1>30. CASE UNCHANGED <<tool, receipt>>
  BY <1>30, NoCommandTyped
<1> QED
  BY <1>1, <1>2, <1>3, <1>4, <1>5, <1>6, <1>7, <1>8, <1>9, <1>10, <1>11, <1>12, <1>13,
     <1>14, <1>15, <1>16, <1>17, <1>18, <1>19, <1>20, <1>21, <1>22, <1>23, <1>24, <1>25,
     <1>26, <1>27, <1>28, <1>29, <1>30 DEF TakeoverNext, Command, Prepare, Finish, RollBack,
     Runtimes, discordVars, queueVars, runtimeVars, historyVars, StopLabel,
     UnloadReplacement, LegacyStarts, LegacyStops, LegacyMisses, LegacyReceives,
     LegacyWorks, InstallerLoads, ReplacementStarts, ReplacementStops, ReplacementMisses,
     ReplacementConnects, ReplacementReceives, ReplacementWorks, Post, Edit

\* A window that is reconciled, or was, has its lower bound.
LEMMA BoundedStays ==
  ASSUME TakeoverInv, TakeoverNext, tool'.pc \in {"reconcile", "fresh", "prepared"}
  PROVE  receipt'[tool'.r].phase \in Bounded
<1>1. TakeoverTyped /\ ControlInv /\ SessionFits /\ ReconcileFits
  BY InvSteps DEF TakeoverInv, WindowInv
<1>2. /\ "gap-reconciling" \in Bounded /\ "gateway-resetting" \in Bounded
      /\ StartedPhases \subseteq Bounded
  BY DEF Bounded
<1>3. CASE tool' = tool /\ receipt' = receipt
  BY <1>1, <1>3 DEF ReconcileFits
<1>4. CASE OpenWindow
  <2>1. tool.r \in Receipts
    BY <1>1, <1>4, CommandFinds, NoCommandTyped DEF OpenWindow, At
  <2> QED
    BY <1>1, <1>2, <1>4, <2>1, OpenWindowDoes, WindowBounds DEF TakeoverTyped
<1>5. CASE ReopenWindow
  <2>1. tool.cmd = "finalize" /\ receipt' = receipt
    BY <1>5 DEF ReopenWindow, At
  <2>2. tool.r \in Receipts /\ receipt[tool.r].phase \in StartedPhases
    BY <1>1, <2>1, CommandFinds, NoCommandTyped
  <2> QED
    BY <1>1, <1>2, <1>5, <2>1, <2>2, ReopenDoes
<1>6. ASSUME NEW m \in Posts, Reconcile(m), tool' = [tool EXCEPT !.at = m]
      PROVE  receipt'[tool'.r].phase \in Bounded
  <2>1. tool.pc = "reconcile" /\ receipt' = receipt
    BY <1>6 DEF Reconcile, Reconciling
  <2> QED
    BY <1>1, <1>6, <2>1, ReconcileDoes DEF ReconcileFits, TakeoverTyped
<1>7. CASE Acknowledge
  <2>1. tool.pc = "reconcile" /\ receipt' = receipt
    BY <1>7 DEF Acknowledge, Reconciling
  <2> QED
    BY <1>1, <1>7, <2>1, AcknowledgeDoes DEF Acknowledge, ReconcileFits, TakeoverTyped
<1>8. CASE ResetGateway
  <2>1. tool.r \in Receipts /\ "gateway-resetting" \in Phases
    BY <1>1, <1>8, CommandFinds, NoCommandTyped DEF ResetGateway, At, Phases, EarlyPhases
  <2>2. tool'.r = tool.r
    BY <1>1, <1>8, GoesTo DEF ResetGateway, Steps, PrepareSteps, StoppedSteps, TakeoverTyped
  <2>3. receipt' = [receipt EXCEPT ![tool.r].phase = "gateway-resetting",
                                   ![tool.r].base = Baseline(rows)]
    BY <1>8 DEF ResetGateway
  <2>4. receipt'[tool.r].phase = "gateway-resetting"
    BY <1>1, <2>1, <2>3, BaseDoes, QueuePlans DEF TakeoverTyped
  <2> QED
    BY <1>2, <2>2, <2>4
<1>9. CASE MarkFresh
  <2>1. tool.pc = "fresh" /\ receipt' = receipt /\ tool'.r = tool.r
    BY <1>1, <1>9, GoesTo DEF MarkFresh, At, Steps, PrepareSteps, StoppedSteps,
       TakeoverTyped
  <2> QED
    BY <1>1, <2>1 DEF ReconcileFits
<1> QED
  BY <1>1, <1>3, <1>4, <1>5, <1>6, <1>7, <1>8, <1>9, ReconcileSteps, ResetSteps

\* The upper bound has been posted.
LEMMA UpperPosted ==
  ASSUME TakeoverInv, NEW l \in 0..N, l <= posted
  PROVE  Upper(l) <= posted
  BY DEF Upper, TakeoverInv, TakeoverTyped, OthersTyped

WindowFits ==
  /\ tool.todo \subseteq Window(receipt[tool.r].lower, UpperBound)
  /\ UpperBound <= posted
  /\ Window(receipt[tool.r].lower, UpperBound) \ tool.todo \subseteq Present
  /\ tool.at # 0 => tool.at \in tool.todo \cap Present

\* Every step keeps what is done of the window and what is left.
LEMMA WindowFitsStep ==
  ASSUME TakeoverInv, TakeoverNext, tool'.pc = "reconcile"
  PROVE  WindowFits'
<1>1. /\ TakeoverTyped /\ TakeoverTyped' /\ ControlInv /\ SessionFits /\ ReconcileFits
      /\ RowsFit /\ TakeoverNext
  BY InvSteps DEF TakeoverInv, WindowInv
<1>2. posted \in 0..N /\ posted' \in 0..N /\ posted <= posted'
  BY <1>1, PostedSteps DEF TakeoverTyped, OthersTyped
<1>3. Present \subseteq Present'
  BY PresentSteps
<1>4. CASE tool' = tool /\ receipt' = receipt
  <2>1. WindowFits
    BY <1>1, <1>4 DEF ReconcileFits, WindowFits
  <2>2. UpperBound' = UpperBound
    BY <1>4 DEF UpperBound
  <2>3. UpperBound <= posted'
    <3>1. UpperBound \in 0..N
      <4>1. tool.r \in Receipts
        BY <1>1, <1>4, CommandFinds, NoCommandTyped
      <4> QED
        BY <1>1, <4>1 DEF UpperBound, TakeoverTyped, ToolTyped, Tool, ReceiptTyped, Receipt
    <3> QED
      BY <1>2, <2>1, <3>1, TakeoverAssumption DEF WindowFits
  <2> QED
    BY <1>3, <1>4, <2>1, <2>2, <2>3 DEF WindowFits
<1>5. CASE OpenWindow
  <2>1. /\ tool.cmd = "prepare" /\ tool.pc = "window" /\ tool.r \in Receipts
        /\ posted' = posted
    BY <1>1, <1>5, CommandFinds, NoCommandTyped DEF OpenWindow, At, discordVars
  <2>2. tool.at = 0
    BY <1>1, <2>1 DEF ReconcileFits, RollbackSteps
  <2>3. /\ receipt'[tool.r].lower = Lower /\ receipt'[tool.r].upper = Upper(Lower)
        /\ tool'.todo = Window(Lower, Upper(Lower)) /\ tool'.at = 0
        /\ tool'.r = tool.r /\ tool'.cmd = "prepare"
    BY <1>1, <1>5, <2>1, <2>2, OpenWindowDoes, WindowBounds DEF TakeoverTyped
  <2>4. UpperBound' = Upper(Lower)
    BY <2>3 DEF UpperBound
  <2>5. Upper(Lower) <= posted
    BY LowerPosted, UpperPosted
  <2> QED
    BY <2>1, <2>3, <2>4, <2>5 DEF WindowFits
<1>6. CASE ReopenWindow
  <2>1. /\ tool.cmd = "finalize" /\ tool.pc = "window" /\ tool.r \in Receipts
        /\ posted' = posted /\ receipt' = receipt
    BY <1>1, <1>6, CommandFinds, NoCommandTyped DEF ReopenWindow, At, discordVars
  <2>2. tool.at = 0
    BY <1>1, <2>1 DEF ReconcileFits, RollbackSteps
  <2> DEFINE l == receipt[tool.r].lower
  <2>3. /\ tool'.todo = Window(l, Upper(l)) /\ tool'.at = 0 /\ tool'.upper = Upper(l)
        /\ tool'.r = tool.r /\ tool'.cmd = "finalize"
    BY <1>1, <1>6, <2>1, <2>2, ReopenDoes
  <2>4. UpperBound' = Upper(l) /\ receipt'[tool'.r].lower = l
    BY <2>1, <2>3 DEF UpperBound
  <2>5. Upper(l) <= posted
    BY <1>1, <2>1, UpperPosted DEF RowsFit, TakeoverTyped, ReceiptTyped, Receipt
  <2> QED
    BY <2>1, <2>3, <2>4, <2>5 DEF WindowFits
<1>7. ASSUME NEW m \in Posts, Reconcile(m), tool' = [tool EXCEPT !.at = m]
      PROVE  WindowFits'
  <2>1. /\ tool.pc = "reconcile" /\ receipt' = receipt /\ posted' = posted
        /\ m \in tool.todo
        /\ WindowFits
    BY <1>1, <1>7 DEF Reconcile, Reconciling, discordVars, ReconcileFits, WindowFits
  <2>2. /\ tool'.at = m /\ tool'.todo = tool.todo /\ tool'.r = tool.r
        /\ tool'.cmd = tool.cmd
        /\ tool'.upper = tool.upper
    BY <1>1, <1>7, ReconcileDoes DEF TakeoverTyped
  <2>3. m \in Present'
    <3>1. ~Raises
      BY <1>1, <1>7, <2>1, <2>2, RaisesTo, GoesTo, EndsTo, NoCommandTyped DEF Reconcile,
         Reconciling, Steps, RollbackSteps, TakeoverTyped
    <3>2. rows' = [rows EXCEPT ![m] = IF @ = NoRow THEN NewRow ELSE @]
      BY <1>7, <3>1 DEF Reconcile
    <3>3. rows'[m].state # "absent"
      BY <1>1, <1>7, <3>2, ReconciledRowTo DEF RowsFit, TakeoverTyped
    <3> QED
      BY <3>3 DEF Present
  <2>4. UpperBound' = UpperBound
    BY <2>1, <2>2 DEF UpperBound
  <2> QED
    BY <1>3, <2>1, <2>2, <2>3, <2>4 DEF WindowFits
<1>8. CASE Acknowledge
  <2>1. /\ tool.pc = "reconcile" /\ receipt' = receipt /\ posted' = posted /\ tool.at # 0
        /\ WindowFits /\ tool' = [tool EXCEPT !.todo = @ \ {tool.at}, !.at = 0]
    BY <1>1, <1>8 DEF Acknowledge, Reconciling, discordVars, ReconcileFits, WindowFits
  <2>2. /\ tool'.at = 0 /\ tool'.todo = tool.todo \ {tool.at} /\ tool'.r = tool.r
        /\ tool'.cmd = tool.cmd /\ tool'.upper = tool.upper
    BY <1>1, <2>1, AcknowledgeDoes DEF TakeoverTyped
  <2>3. UpperBound' = UpperBound
    BY <2>1, <2>2 DEF UpperBound
  <2> QED
    BY <1>3, <2>1, <2>2, <2>3 DEF WindowFits
<1> QED
  BY <1>1, <1>4, <1>5, <1>6, <1>7, <1>8, ReconcileSteps

\* The last three together.
LEMMA ReconcileFitsStep ==
  ASSUME TakeoverInv, TakeoverNext
  PROVE  ReconcileFits'
  BY AtSteps, BoundedStays, WindowFitsStep DEF ReconcileFits, WindowFits

\* How a command comes to its last steps.
LEMMA FinishMoves ==
  ASSUME TakeoverTyped, ControlInv, SessionFits, TakeoverNext,
         tool'.pc \in {"issue", "drain", "backlog", "commit"}
  PROVE  \/ tool' = tool /\ receipt' = receipt
         \/ Reconciled \/ IssueDrain \/ DrainAnswers
         \/ CheckBacklog /\ Goes("commit")
<1> DEFINE Goal == \/ tool' = tool /\ receipt' = receipt
                   \/ Reconciled \/ IssueDrain \/ DrainAnswers
                   \/ CheckBacklog /\ Goes("commit")
<1>1. ASSUME NEW r \in Receipts, Plan(r) PROVE Goal
  BY <1>1, NoCommandTyped, PlanDoes DEF Plan, At, Steps, TakeoverTyped, PrepareSteps,
     FinishSteps, StoppedSteps, RollbackSteps, StopSteps
<1>2. ASSUME NEW r \in Receipts, Begin(r) PROVE Goal
  BY <1>2, NoCommandTyped, BaseDoes, QueuePlans DEF Begin, At, Steps, TakeoverTyped,
     PrepareSteps, FinishSteps, StoppedSteps, RollbackSteps, StopSteps
<1>3. ASSUME NEW r \in Receipts, Finalize(r) PROVE Goal
  BY <1>3, NoCommandTyped, FinalizeDoes DEF Finalize, At, Steps, TakeoverTyped,
     PrepareSteps, FinishSteps, StoppedSteps, RollbackSteps, StopSteps
<1>4. ASSUME NEW r \in Receipts, Abort(r) PROVE Goal
  BY <1>4, NoCommandTyped, AbortTo DEF Abort, At, Steps, TakeoverTyped, PrepareSteps,
     FinishSteps, StoppedSteps, RollbackSteps, StopSteps
<1>5. CASE Validate
  BY <1>5, NoCommandTyped, ValidateTo DEF Validate, At, Steps, TakeoverTyped, PrepareSteps,
     FinishSteps, StoppedSteps, RollbackSteps, StopSteps
<1>6. CASE StopLegacySession
  BY <1>6, NoCommandTyped, GoesTo DEF StopLegacySession, At, Steps, TakeoverTyped,
     PrepareSteps, FinishSteps, StoppedSteps, RollbackSteps, StopSteps
<1>7. CASE ProveLegacyStopped
  BY <1>7, NoCommandTyped, GoesTo, EndsTo, RaisesTo, PhaseTo DEF ProveLegacyStopped, At,
     Steps, TakeoverTyped, PrepareSteps, FinishSteps, StoppedSteps, RollbackSteps, StopSteps
<1>8. CASE Backup
  BY <1>8, NoCommandTyped, BackupDoes DEF Backup, At, Steps, TakeoverTyped, PrepareSteps,
     FinishSteps, StoppedSteps, RollbackSteps, StopSteps
<1>9. CASE Authorize
  BY <1>9, NoCommandTyped, GoesTo, EndsTo, RaisesTo, PhaseTo DEF Authorize, At, Steps,
     TakeoverTyped, PrepareSteps, FinishSteps, StoppedSteps, RollbackSteps, StopSteps
<1>10. CASE Quarantine
  BY <1>10, NoCommandTyped, GoesTo, EndsTo, RaisesTo, QuarantineDoes DEF Quarantine, At,
     Steps, TakeoverTyped, PrepareSteps, FinishSteps, StoppedSteps, RollbackSteps, StopSteps
<1>11. CASE OpenWindow
  BY <1>11, NoCommandTyped, OpenWindowDoes, WindowBounds DEF OpenWindow, At, Steps,
     TakeoverTyped, PrepareSteps, FinishSteps, StoppedSteps, RollbackSteps, StopSteps
<1>12. CASE ResetGateway
  BY <1>12, NoCommandTyped, GoesTo, BaseDoes, QueuePlans DEF ResetGateway, At, Steps,
     TakeoverTyped, PrepareSteps, FinishSteps, StoppedSteps, RollbackSteps, StopSteps
<1>13. CASE MarkFresh
  BY <1>13, NoCommandTyped, GoesTo DEF MarkFresh, At, Steps, TakeoverTyped, PrepareSteps,
     FinishSteps, StoppedSteps, RollbackSteps, StopSteps
<1>14. CASE Prepared
  BY <1>14, NoCommandTyped, EndsTo, PhaseTo DEF Prepared, At, Steps, TakeoverTyped,
     PrepareSteps, FinishSteps, StoppedSteps, RollbackSteps, StopSteps
<1>15. ASSUME NEW m \in Posts, Reconcile(m) PROVE Goal
  BY <1>15, NoCommandTyped, RaisesEnds, ReconcileDoes DEF Reconcile, At, Steps,
     TakeoverTyped, PrepareSteps, FinishSteps, StoppedSteps, RollbackSteps, StopSteps,
     Reconciling
<1>16. CASE Acknowledge
  BY <1>16, NoCommandTyped, AcknowledgeDoes DEF Acknowledge, At, Steps, TakeoverTyped,
     PrepareSteps, FinishSteps, StoppedSteps, RollbackSteps, StopSteps, Reconciling
<1>17. CASE ReopenWindow
  BY <1>17, NoCommandTyped, ReopenDoes DEF ReopenWindow, At, Steps, TakeoverTyped,
     PrepareSteps, FinishSteps, StoppedSteps, RollbackSteps, StopSteps
<1>18. CASE Reconciled
  BY <1>18, NoCommandTyped, GoesTo, ReconciledDoes DEF Reconciled, At, Steps, TakeoverTyped,
     PrepareSteps, FinishSteps, StoppedSteps, RollbackSteps, StopSteps
<1>19. CASE IssueDrain
  BY <1>19, NoCommandTyped, GoesTo, PhaseTo DEF IssueDrain, At, Steps, TakeoverTyped,
     PrepareSteps, FinishSteps, StoppedSteps, RollbackSteps, StopSteps
<1>20. CASE DrainAnswers
  BY <1>20, NoCommandTyped, GoesTo DEF DrainAnswers, At, Steps, TakeoverTyped, PrepareSteps,
     FinishSteps, StoppedSteps, RollbackSteps, StopSteps
<1>21. CASE CheckBacklog
  BY <1>21, NoCommandTyped, RaisesEnds, GoesTo DEF CheckBacklog, At, Steps, TakeoverTyped,
     PrepareSteps, FinishSteps, StoppedSteps, RollbackSteps, StopSteps
<1>22. CASE Commit
  BY <1>22, NoCommandTyped, EndsTo, PhaseTo DEF Commit, At, Steps, TakeoverTyped,
     PrepareSteps, FinishSteps, StoppedSteps, RollbackSteps, StopSteps
<1>23. CASE CaptureReplacement
  BY <1>23, NoCommandTyped, CaptureDoes DEF CaptureReplacement, At, Steps, TakeoverTyped,
     PrepareSteps, FinishSteps, StoppedSteps, RollbackSteps, StopSteps
<1>24. CASE StopReplacementSession
  BY <1>24, NoCommandTyped, RaisesEnds, GoesTo DEF StopReplacementSession, At, Steps,
     TakeoverTyped, PrepareSteps, FinishSteps, StoppedSteps, RollbackSteps, StopSteps
<1>25. CASE Restore
  BY <1>25, NoCommandTyped, GoesTo DEF Restore, At, Steps, TakeoverTyped, PrepareSteps,
     FinishSteps, StoppedSteps, RollbackSteps, StopSteps
<1>26. CASE RestartLegacy
  BY <1>26, NoCommandTyped, GoesTo DEF RestartLegacy, At, Steps, TakeoverTyped,
     PrepareSteps, FinishSteps, StoppedSteps, RollbackSteps, StopSteps
<1>27. CASE RolledBack
  BY <1>27, NoCommandTyped, EndsTo, RolledBackDoes DEF RolledBack, At, Steps, TakeoverTyped,
     PrepareSteps, FinishSteps, StoppedSteps, RollbackSteps, StopSteps
<1>28. CASE Fails
  BY <1>28, NoCommandTyped, RaisesEnds, EndsTo DEF Fails, At, Steps, TakeoverTyped,
     PrepareSteps, FinishSteps, StoppedSteps, RollbackSteps, StopSteps
<1>29. CASE Killed
  BY <1>29, NoCommandTyped, EndsTo DEF Killed, At, Steps, TakeoverTyped, PrepareSteps,
     FinishSteps, StoppedSteps, RollbackSteps, StopSteps
<1>30. CASE UNCHANGED <<tool, receipt>>
  BY <1>30, NoCommandTyped
<1> QED
  BY <1>1, <1>2, <1>3, <1>4, <1>5, <1>6, <1>7, <1>8, <1>9, <1>10, <1>11, <1>12, <1>13,
     <1>14, <1>15, <1>16, <1>17, <1>18, <1>19, <1>20, <1>21, <1>22, <1>23, <1>24, <1>25,
     <1>26, <1>27, <1>28, <1>29, <1>30 DEF TakeoverNext, Command, Prepare, Finish, RollBack,
     Runtimes, discordVars, queueVars, runtimeVars, historyVars, StopLabel,
     UnloadReplacement, LegacyStarts, LegacyStops, LegacyMisses, LegacyReceives,
     LegacyWorks, InstallerLoads, ReplacementStarts, ReplacementStops, ReplacementMisses,
     ReplacementConnects, ReplacementReceives, ReplacementWorks, Post, Edit

\* A row that is served stays so; one that is missed behind the replacement's listener
\* is not received again.
LEMMA ServedRowsStay ==
  ASSUME TakeoverInv, TakeoverNext, NEW q \in Receipts,
         receipt[q].phase \in StartedPhases \cup {"committed"}, ~LegacyRuns,
         Window(receipt[q].lower, receipt[q].upper) \subseteq Present,
         tool.pc \notin {"quarantine", "restore", "reconcile"},
         NEW m \in 1..receipt[q].upper
  PROVE  /\ rows[m].state = "absent" => rows'[m].state = "absent"
         /\ rows[m].state \in Ended \cup {"spawned"} => rows'[m].state \in Ended \cup {"spawned"}
<1>1. /\ QueueStep /\ TakeoverTyped /\ BoundsFit
      /\ receipt[q].lower \in 0..N /\ receipt[q].upper \in 0..N /\ repl.seen \in 0..N
  BY InvSteps DEF TakeoverInv, WindowInv, TakeoverTyped, ReceiptTyped, Receipt,
     RuntimesTyped
<1>2. m \in Posts
  BY <1>1, TakeoverAssumption DEF Posts
<1>3. ~SetAside /\ ~PutBack /\ ~Acknowledge /\ \A n \in Posts : ~Reconcile(n)
  BY DEF SetAside, PutBack, Restore, Acknowledge, Reconcile, Reconciling
<1>4. CASE rows[m].state = "absent"
  <2> SUFFICES ASSUME rows'[m].state # "absent" PROVE FALSE
    BY <1>4 DEF Ended
  <2>1. m \in Present' \ Present
    BY <1>2, <1>4 DEF Present
  <2>2. repl.up /\ m = repl.seen + 1
    BY <1>2, <1>3, <2>1, PresentSteps
  <2>3. m \in Window(receipt[q].lower, receipt[q].upper)
    BY <1>1, <2>2, TakeoverAssumption DEF BoundsFit, Window
  <2> QED
    BY <2>1, <2>3
<1>5. CASE rows[m].state \in Ended \cup {"spawned"}
  <2>1. rows[m] # NoRow
    BY <1>5 DEF Ended, NoRow
  <2> QED
    BY <1>1, <1>2, <1>3, <1>5, <2>1 DEF QueueStep, Added, Advanced, OthersSame, Ended
<1> QED
  BY <1>4, <1>5

\* Every step keeps what a commit needs.
LEMMA CommitStep ==
  ASSUME TakeoverInv, TakeoverNext
  PROVE  CommitFits'
<1>1. /\ ReceiptStep /\ TakeoverTyped /\ TakeoverTyped' /\ ControlInv /\ RuntimeInv
      /\ SessionFits
      /\ BoundsFit /\ ReconcileFits /\ CommitFits
  BY InvSteps DEF TakeoverInv, WindowInv
<1>2. ASSUME tool'.pc \in {"issue", "drain", "backlog", "commit"}
      PROVE  Window(receipt'[tool'.r].lower, receipt'[tool'.r].upper) \subseteq Present'
  <2>1. CASE tool' = tool /\ receipt' = receipt
    BY <1>1, <1>2, <2>1, PresentSteps DEF CommitFits
  <2>2. CASE Reconciled
    <3>1. /\ tool.cmd = "finalize" /\ tool.pc = "reconcile" /\ tool.todo = {}
          /\ tool.r \in Receipts
      BY <1>1, <2>2, CommandFinds, NoCommandTyped DEF Reconciled, At
    <3>2. tool'.r = tool.r
      BY <1>1, <2>2, GoesTo DEF Reconciled, Steps, FinishSteps, TakeoverTyped
    <3>3. /\ receipt' = [receipt EXCEPT ![tool.r].phase = "replacement-reconciled",
                                        ![tool.r].upper = tool.upper]
          /\ "replacement-reconciled" \in Phases
      BY <2>2 DEF Reconciled, Phases, StartedPhases
    <3>4. /\ receipt'[tool.r].lower = receipt[tool.r].lower
          /\ receipt'[tool.r].upper = tool.upper
      BY <1>1, <3>1, <3>3, ReconciledDoes DEF TakeoverTyped
    <3>5. Window(receipt[tool.r].lower, tool.upper) \subseteq Present
      BY <1>1, <3>1 DEF ReconcileFits, UpperBound
    <3> QED
      BY <3>2, <3>4, <3>5, PresentSteps
  <2>3. CASE IssueDrain
    <3>1. tool.cmd = "finalize" /\ tool.pc = "issue" /\ tool.r \in Receipts
      BY <1>1, <2>3, CommandFinds, NoCommandTyped DEF IssueDrain, At
    <3>2. tool'.r = tool.r
      BY <1>1, <2>3, GoesTo DEF IssueDrain, Steps, FinishSteps, TakeoverTyped
    <3>3. /\ receipt'[tool.r].lower = receipt[tool.r].lower
          /\ receipt'[tool.r].upper = receipt[tool.r].upper
      BY <1>1, <2>3, <3>1, PhaseTo DEF IssueDrain, Phases, StartedPhases, TakeoverTyped
    <3> QED
      BY <1>1, <3>1, <3>2, <3>3, PresentSteps DEF CommitFits
  <2>4. CASE DrainAnswers
    <3>1. tool.pc = "drain" /\ tool'.r = tool.r /\ receipt' = receipt
      BY <1>1, <2>4, GoesTo DEF DrainAnswers, At, Steps, FinishSteps, TakeoverTyped
    <3> QED
      BY <1>1, <3>1, PresentSteps DEF CommitFits
  <2>5. CASE CheckBacklog /\ Goes("commit")
    <3>1. tool.pc = "backlog" /\ tool'.r = tool.r /\ receipt' = receipt
      BY <1>1, <2>5, GoesTo DEF CheckBacklog, At, Steps, FinishSteps, TakeoverTyped
    <3> QED
      BY <1>1, <3>1, PresentSteps DEF CommitFits
  <2> QED
    BY <1>1, <1>2, <2>1, <2>2, <2>3, <2>4, <2>5, FinishMoves
<1>3. ASSUME tool'.pc = "commit", NEW m \in Present', m <= receipt'[tool'.r].upper
      PROVE  rows'[m].state \in Ended \cup {"spawned"}
  <2>1. m \in Posts
    BY DEF Present
  <2>2. CASE CheckBacklog /\ Goes("commit")
    <3>1. ~Raises
      BY <1>1, <1>3, RaisesEnds
    <3>2. Backlog = {} /\ rows' = rows
      BY <2>2, <3>1 DEF CheckBacklog, queueVars
    <3> QED
      BY <2>1, <3>2 DEF Backlog, Nonterminal, Present
  <2>3. CASE tool' = tool /\ receipt' = receipt
    <3>1. /\ tool.cmd = "finalize" /\ tool.r \in Receipts
          /\ receipt[tool.r].phase \in StartedPhases
      <4>1. tool.cmd = "finalize"
        BY <1>1, <1>3, <2>3, NoCommandTyped DEF ControlInv, StepsFit, PrepareSteps,
           StoppedSteps, RollbackSteps, StopSteps
      <4> QED
        BY <1>1, <4>1, CommandFinds, NoCommandTyped
    <3>2. ~LegacyRuns
      BY <1>1, <3>1, TakeoverAssumption DEF ControlInv, InstallerFits, Finishing, RuntimeInv
    <3>3. Window(receipt[tool.r].lower, receipt[tool.r].upper) \subseteq Present
      BY <1>1, <1>3, <2>3 DEF CommitFits
    <3>4. m \in 1..receipt[tool.r].upper
      BY <1>1, <1>3, <2>1, <2>3, <3>1, TakeoverAssumption DEF Posts, TakeoverTyped,
         ReceiptTyped, Receipt
    <3>5. rows'[m].state # "absent"
      BY DEF Present
    <3>6. rows[m].state # "absent"
      BY <1>3, <2>3, <3>1, <3>2, <3>3, <3>4, <3>5, ServedRowsStay
    <3>7. rows[m].state \in Ended \cup {"spawned"}
      BY <1>1, <1>3, <2>1, <2>3, <3>6 DEF CommitFits, Present
    <3> QED
      BY <1>3, <2>3, <3>1, <3>2, <3>3, <3>4, <3>7, ServedRowsStay
  <2> QED
    <3>1. ~Reconciled /\ ~IssueDrain /\ ~DrainAnswers
      BY <1>1, <1>3, GoesTo DEF Reconciled, IssueDrain, DrainAnswers, Steps, FinishSteps,
         TakeoverTyped
    <3> QED
      BY <1>1, <1>3, <2>2, <2>3, <3>1, FinishMoves
<1>4. ASSUME NEW q \in Receipts, receipt'[q].phase = "committed",
             NEW m \in 1..receipt'[q].upper
      PROVE  \/ rows'[m].state \in Ended \cup {"spawned"}
             \/ rows'[m].state = "absent" /\ m <= receipt'[q].lower /\ Missed(m)'
  <2>1. receipt'[q].upper \in 0..N /\ m \in Posts
    <3>1. receipt'[q].upper \in 0..N
      BY <1>1 DEF TakeoverTyped, ReceiptTyped, Receipt
    <3> QED
      BY <3>1, TakeoverAssumption DEF Posts
  <2>2. CASE receipt'[q] = receipt[q]
    <3>1. /\ Window(receipt[q].lower, receipt[q].upper) \subseteq Present
          /\ \/ rows[m].state \in Ended \cup {"spawned"}
             \/ rows[m].state = "absent" /\ m <= receipt[q].lower /\ Missed(m)
      BY <1>1, <1>4, <2>2 DEF BoundsFit, CommitFits, WindowIsServed, Missed
    <3>2. ~LegacyRuns
      BY <1>1, <1>4, <2>2 DEF RuntimeInv, OneRuntime, ReplacementRuns, Services
    <3>3. Unfinished = {}
      BY <1>1, <1>4, <2>2 DEF ControlInv, PhasesFit
    <3>4. tool.cmd # "idle" => tool.pc = "acknowledged"
      BY <1>1, <3>3, CommandFinds, NoCommandTyped, PhaseSets DEF Unfinished, ControlInv,
         StepsFit
    <3>5. tool.pc \notin {"quarantine", "restore", "reconcile"}
      BY <1>1, <3>4, NoCommandTyped, CommandFinds
    <3> QED
      BY <1>1, <1>4, <2>1, <2>2, <3>1, <3>2, <3>5, ServedRowsStay, HeardSteps
  <2>3. CASE /\ Commit /\ q = tool.r /\ tool.pc = "commit" /\ receipt[q].phase \in StartedPhases
             /\ receipt'[q].lower = receipt[q].lower /\ receipt'[q].upper = receipt[q].upper
    <3>1. rows' = rows /\ heard' = heard
      BY <2>3 DEF Commit, queueVars, historyVars
    <3>2. CASE m \in Present
      BY <1>1, <1>4, <2>1, <2>3, <3>1, <3>2 DEF CommitFits
    <3>3. CASE m \notin Present
      <4>1. m \notin Window(receipt[q].lower, receipt[q].upper)
        BY <1>1, <2>3, <3>3 DEF CommitFits
      <4>2. receipt[q].lower \in 0..N /\ receipt[q].upper \in 0..N
        BY <1>1 DEF TakeoverTyped, ReceiptTyped, Receipt
      <4>3. m \in 1..receipt[q].lower
        BY <1>4, <2>3, <4>1, <4>2, TakeoverAssumption DEF Window
      <4>4. Missed(m)
        BY <1>1, <2>3, <3>3, <4>3 DEF BoundsFit, Bounded
      <4> QED
        BY <2>1, <2>3, <3>1, <3>3, <4>2, <4>3, <4>4 DEF Present, Missed
    <3> QED
      BY <3>2, <3>3
  <2> QED
    BY <1>1, <1>4, <2>2, <2>3, CommittedSteps
<1>5. WindowIsServed'
  BY <1>4 DEF WindowIsServed, Missed
<1> QED
  BY <1>2, <1>3, <1>5 DEF CommitFits

-----------------------------------------------------------------------------
(* What the replacement has accepted *)

\* The order of the states.
LEMMA RankIs ==
  /\ Rank["absent"] = 0 /\ Rank["received"] = 1 /\ Rank["claimed"] = 2 /\ Rank["dispatched"] = 3
  /\ Rank["spawned"] = 4 /\ Rank["done"] = 5 /\ Rank["errored"] = 5
  /\ \A s \in RowState : Rank[s] \in 0..5
<1>1. /\ "absent" \in RowState /\ "received" \in RowState /\ "claimed" \in RowState
      /\ "dispatched" \in RowState /\ "spawned" \in RowState /\ "done" \in RowState
      /\ "errored" \in RowState
  BY DEF RowState, Ended
<1>2. \A s \in RowState : Rank[s] =
        CASE s = "absent" -> 0 [] s = "received" -> 1 [] s = "claimed" -> 2
          [] s = "dispatched" -> 3 [] s = "spawned" -> 4 [] OTHER -> 5
  BY DEF Rank
<1>3. /\ Rank["absent"] = 0 /\ Rank["received"] = 1 /\ Rank["claimed"] = 2
      /\ Rank["dispatched"] = 3 /\ Rank["spawned"] = 4 /\ Rank["done"] = 5
      /\ Rank["errored"] = 5
  BY <1>1, <1>2
<1>4. \A s \in RowState : Rank[s] \in 0..5
  BY <1>3 DEF RowState, Ended
<1> QED
  BY <1>1, <1>3, <1>4

\* Between begin-replacement and its end, a takeover sets nothing aside.
LEMMA StartedFinds ==
  ASSUME TakeoverInv, TakeoverNext, NEW q \in Receipts, receipt[q].phase \in StartedPhases
  PROVE  /\ tool.cmd # "prepare" /\ ~SetAside
         /\ PutBack => tool.r = q /\ tool.cmd = "abort" /\ installer = NoTakeover
                       /\ ~ReplacementRuns
<1>1. /\ TakeoverTyped /\ ControlInv /\ RuntimeInv
  BY InvSteps
<1>2. q \in Unfinished /\ Served
  BY PhaseSets DEF Unfinished, Served, ServedPhases
<1>3. tool.cmd # "prepare"
  BY <1>1, <1>2, CommandFinds DEF ControlInv, PhasesFit
<1>4. ASSUME PutBack
      PROVE  tool.r = q /\ tool.cmd = "abort" /\ installer = NoTakeover /\ ~ReplacementRuns
  <2>1. tool.r \in Receipts /\ tool.cmd = "abort" /\ tool.pc = "restore"
    BY <1>1, <1>3, <1>4, RestoreFinds DEF PutBack, Restore
  <2>2. tool.r \in Unfinished
    BY <1>1, <2>1, CommandFinds, PhaseSets DEF Unfinished
  <2>3. tool.r = q
    BY <1>1, <1>2, <2>1, <2>2 DEF ControlInv, PhasesFit
  <2>4. installer = NoTakeover
    BY <1>1, <2>1, NoCommandTyped DEF ControlInv, InstallerFits, Preparing, Finishing
  <2>5. ~ReplacementRuns
    BY <1>1, <2>1 DEF RuntimeInv, RollingBack
  <2> QED
    BY <2>1, <2>3, <2>4, <2>5
<1> QED
  BY <1>3, <1>4 DEF SetAside

\* A row goes on, unless it is put back.
LEMMA RanksRise ==
  ASSUME TakeoverInv, TakeoverNext, ~SetAside, NEW m \in Posts, ~(PutBack /\ m \in Mine)
  PROVE  /\ Rank[rows[m].state] <= Rank[rows'[m].state]
         /\ rows[m].state \in Ended => rows'[m].state \in Ended
<1>1. QueueStep /\ TakeoverTyped
  BY InvSteps
<1>2. rows[m].state \in RowState
  BY <1>1 DEF TakeoverTyped, QueueTyped, Row
<1>3. CASE rows'[m].state = rows[m].state
  BY <1>2, <1>3, RankIs
<1>4. CASE rows[m] = NoRow /\ rows'[m].state = "received"
  BY <1>4, RankIs DEF NoRow, Ended
<1>5. CASE Advanced(m)
  BY <1>5, RankIs DEF Advanced, Ended
<1> QED
  BY <1>1, <1>3, <1>4, <1>5 DEF QueueStep, PutBack, Added, Advanced, OthersSame

\* What the replacement has accepted is work on a row, or a new one.
LEMMA AcceptedSteps ==
  ASSUME TakeoverTyped, TakeoverNext, NEW m \in accepted', m \notin accepted
  PROVE  \/ ReplacementWorks(m)
         \/ ReplacementReceives /\ rows' # rows /\ m = repl.seen + 1
<1> DEFINE Goal == \/ ReplacementWorks(m)
                   \/ ReplacementReceives /\ rows' # rows /\ m = repl.seen + 1
<1>1. ASSUME NEW r \in Receipts, Begin(r) PROVE Goal
  BY <1>1 DEF Begin
<1>2. CASE RolledBack
  BY <1>2 DEF RolledBack
<1>3. CASE ReplacementReceives
  BY <1>3 DEF ReplacementReceives, historyVars
<1>4. ASSUME NEW k \in Posts, ReplacementWorks(k) PROVE Goal
  BY <1>4 DEF ReplacementWorks
<1>5. CASE UNCHANGED accepted
  BY <1>5
<1> QED
  BY <1>1, <1>2, <1>3, <1>4, <1>5 DEF TakeoverNext, Command, Prepare, Finish, RollBack,
     Runtimes, discordVars, queueVars, runtimeVars, historyVars, Plan, Finalize, Abort,
     Validate, StopLabel, StopLegacySession, ProveLegacyStopped, Backup, Authorize,
     Quarantine, OpenWindow, ResetGateway, MarkFresh, Prepared, Reconcile, Acknowledge,
     ReopenWindow, Reconciled, IssueDrain, DrainAnswers, CheckBacklog, Commit,
     CaptureReplacement, UnloadReplacement, StopReplacementSession, Restore,
     RestartLegacy, Fails, Killed, LegacyStarts, LegacyStops, LegacyMisses,
     LegacyReceives, LegacyWorks, InstallerLoads, ReplacementStarts, ReplacementStops,
     ReplacementMisses, ReplacementConnects, Post, Edit

\* An installer begins with its plan.
LEMMA InstallerSteps ==
  ASSUME TakeoverNext, installer' # NoTakeover
  PROVE  installer' = installer \/ \E r \in Receipts : Plan(r)
<1> DEFINE Goal == installer' = installer \/ \E r \in Receipts : Plan(r)
<1>1. ASSUME NEW r \in Receipts, Plan(r) PROVE Goal
  BY <1>1 DEF Plan, Raises
<1>2. ASSUME NEW r \in Receipts, Abort(r) PROVE Goal
  BY <1>2 DEF Abort, Raises
<1>3. CASE Validate
  BY <1>3 DEF Validate, Raises
<1>4. CASE ProveLegacyStopped
  BY <1>4 DEF ProveLegacyStopped, Raises
<1>5. CASE Authorize
  BY <1>5 DEF Authorize, Raises
<1>6. CASE Quarantine
  BY <1>6 DEF Quarantine, Raises
<1>7. ASSUME NEW m \in Posts, Reconcile(m) PROVE Goal
  BY <1>7 DEF Reconcile, Raises
<1>8. CASE CheckBacklog
  BY <1>8 DEF CheckBacklog, Raises
<1>9. CASE Commit
  BY <1>9 DEF Commit, Raises
<1>10. CASE StopReplacementSession
  BY <1>10 DEF StopReplacementSession, Raises
<1>11. CASE Fails
  BY <1>11 DEF Fails, Raises
<1>12. CASE Killed
  BY <1>12 DEF Killed, Raises
<1>13. CASE UNCHANGED installer
  BY <1>13
<1> QED
  BY <1>1, <1>2, <1>3, <1>4, <1>5, <1>6, <1>7, <1>8, <1>9, <1>10, <1>11, <1>12, <1>13 DEF
     TakeoverNext, Command, Prepare, Finish, RollBack, Runtimes, discordVars, queueVars,
     runtimeVars, historyVars, Begin, Finalize, StopLabel, StopLegacySession, Backup,
     OpenWindow, ResetGateway, MarkFresh, Prepared, Acknowledge, ReopenWindow, Reconciled,
     IssueDrain, DrainAnswers, CaptureReplacement, UnloadReplacement, Restore,
     RestartLegacy, RolledBack, LegacyStarts, LegacyStops, LegacyMisses, LegacyReceives,
     LegacyWorks, InstallerLoads, ReplacementStarts, ReplacementStops, ReplacementMisses,
     ReplacementConnects, ReplacementReceives, ReplacementWorks, Post, Edit

\* Every step keeps what the baseline tells of the accepted work.
LEMMA AcceptedStep ==
  ASSUME TakeoverInv, TakeoverNext
  PROVE  AcceptedInv'
<1>1. /\ QueueStep /\ ReceiptStep /\ TakeoverTyped /\ TakeoverTyped' /\ ControlInv
      /\ RuntimeInv
      /\ AcceptedInv
  BY InvSteps DEF TakeoverInv
<1> SUFFICES ASSUME NEW q \in Receipts, receipt'[q].phase \in StartedPhases
    PROVE  Accepts(q)'
  BY DEF AcceptedInv
<1>2. CASE Begin(q) /\ receipt'[q].base = Baseline(rows)
  <2>1. rows' = rows /\ quarantine' = quarantine /\ accepted' = {}
    BY <1>2 DEF Begin, queueVars
  <2> DEFINE base == receipt'[q].base
  <2>2. /\ base.max = Present /\ DOMAIN base.frozen = Nonterminal
        /\ \A m \in Nonterminal : base.frozen[m] = rows[m]
    BY <1>2 DEF Baseline, Present, Nonterminal
  <2>3. Nonterminal \subseteq Present /\ Present' = Present /\ Present \subseteq Posts
    BY <2>1 DEF Nonterminal, Present
  <2>4. \A m \in Posts : rows[m].state \in RowState
    BY <1>1 DEF TakeoverTyped, QueueTyped, Row
  <2>5. \A m \in DOMAIN base.frozen : Rank[base.frozen[m].state] <= Rank[rows[m].state]
    BY <2>2, <2>3, <2>4, RankIs
  <2>6. \A m \in base.max \ DOMAIN base.frozen : rows[m].state \in Ended
    BY <2>2 DEF Nonterminal
  <2>7. ASSUME NEW m \in Posts, quarantine[m].by = q
        PROVE  m \in base.max /\ m \notin DOMAIN base.frozen
    <3>1. rows[m].state = "errored"
      BY <2>7, TakeoverAssumption DEF TakeoverInv, QuarantineInv, QuarantineIsAcknowledged
    <3> QED
      BY <2>2, <3>1 DEF Present, Nonterminal, Ended
  <2> QED
    BY <2>1, <2>2, <2>3, <2>5, <2>6, <2>7 DEF Accepts
<1>3. CASE receipt[q].phase \in StartedPhases /\ receipt'[q].base = receipt[q].base
  <2> DEFINE base == receipt[q].base
  <2>1. Accepts(q) /\ base \in Bases
    BY <1>1, <1>3 DEF AcceptedInv, TakeoverTyped, ReceiptTyped, Receipt
  <2>2. /\ tool.cmd # "prepare" /\ ~SetAside
        /\ PutBack => tool.r = q /\ installer = NoTakeover /\ ~ReplacementRuns
    BY <1>3, StartedFinds
  <2>3. PutBack => \A m \in Mine : m \in base.max /\ m \notin DOMAIN base.frozen
    BY <2>1, <2>2 DEF Accepts, Mine
  <2>4. \A m \in DOMAIN base.frozen : m \in base.max /\ m \in Posts /\ m \in Present
    BY <2>1 DEF Accepts, Present
  <2>5. /\ \A m \in Posts : Rank[rows[m].state] \in 0..5 /\ Rank[rows'[m].state] \in 0..5
        /\ \A m \in DOMAIN base.frozen : Rank[base.frozen[m].state] \in 0..5
    <3>1. \A m \in Posts : rows[m].state \in RowState /\ rows'[m].state \in RowState
      BY <1>1 DEF TakeoverTyped, QueueTyped, Row
    <3>2. ASSUME NEW m \in DOMAIN base.frozen PROVE base.frozen[m].state \in RowState
      BY <2>1 DEF Bases, Plans, Row
    <3> QED
      BY <3>1, <3>2, RankIs
  <2>6. \A m \in DOMAIN base.frozen :
          /\ Rank[base.frozen[m].state] <= Rank[rows'[m].state]
          /\ Rank[base.frozen[m].state] < Rank[rows[m].state]
               => Rank[base.frozen[m].state] < Rank[rows'[m].state]
    <3> SUFFICES ASSUME NEW m \in DOMAIN base.frozen
                 PROVE  /\ Rank[base.frozen[m].state] <= Rank[rows'[m].state]
                        /\ Rank[base.frozen[m].state] < Rank[rows[m].state]
                             => Rank[base.frozen[m].state] < Rank[rows'[m].state]
      OBVIOUS
    <3>1. Rank[rows[m].state] <= Rank[rows'[m].state]
      BY <2>2, <2>3, <2>4, RanksRise
    <3>2. Rank[base.frozen[m].state] <= Rank[rows[m].state]
      BY <2>1 DEF Accepts
    <3> QED
      BY <2>4, <2>5, <3>1, <3>2
  <2>7. ASSUME NEW m \in accepted'
        PROVE  /\ m \in Present'
               /\ m \notin base.max \/ /\ m \in DOMAIN base.frozen
                                       /\ Rank[base.frozen[m].state] < Rank[rows'[m].state]
    <3>1. m \in Posts
      BY <1>1 DEF TakeoverTyped, OthersTyped
    <3>2. CASE m \in accepted
      BY <2>1, <2>6, <3>2, PresentSteps DEF Accepts
    <3>3. CASE m \notin accepted /\ ReplacementWorks(m)
      <4>1. ReplacementRuns /\ Worked(m, {"known"})
        BY <3>3 DEF ReplacementWorks, ReplacementRuns
      <4>2. /\ rows[m].state # "absent" /\ rows[m].state \notin Ended
            /\ Rank[rows[m].state] < Rank[rows'[m].state]
        BY <1>1, <3>1, <4>1, WorkedTo, RankIs DEF TakeoverTyped, Ended
      <4>3. m \in Present'
        BY <3>1, <4>2, PresentSteps DEF Present
      <4>4. m \in base.max => m \in DOMAIN base.frozen
        BY <2>1, <4>1, <4>2 DEF Accepts
      <4>5. m \in DOMAIN base.frozen => Rank[base.frozen[m].state] <= Rank[rows[m].state]
        BY <2>1 DEF Accepts
      <4> QED
        BY <2>5, <3>1, <4>2, <4>3, <4>4, <4>5
    <3>4. CASE m \notin accepted /\ ReplacementReceives /\ rows' # rows /\ m = repl.seen + 1
      <4>1. rows[m] = NoRow
        <5>1. Enqueued(m) /\ rows' # rows /\ QueueTyped
          BY <1>1, <3>4 DEF ReplacementReceives, TakeoverTyped
        <5>2. rows[m] # NoRow => \A n \in Posts : rows'[n] = rows[n]
          BY <3>1, <5>1, EnqueuedTo
        <5>3. rows' \in [Posts -> Row] /\ rows \in [Posts -> Row]
          BY <3>1, <5>1, EnqueuedTo DEF QueueTyped
        <5> QED
          BY <5>1, <5>2, <5>3
      <4>2. rows'[m].state = "received"
        BY <1>1, <3>1, <3>4, <4>1, EnqueuedTo DEF ReplacementReceives, TakeoverTyped
      <4> QED
        BY <2>1, <3>1, <4>1, <4>2 DEF Present, NoRow, Accepts
    <3> QED
      BY <1>1, <3>2, <3>3, <3>4, AcceptedSteps
  <2>8. ReplacementRuns' \/ installer' # NoTakeover =>
          \A m \in base.max \ DOMAIN base.frozen : rows'[m].state \in Ended
    <3> SUFFICES ASSUME ReplacementRuns' \/ installer' # NoTakeover,
                        NEW m \in base.max \ DOMAIN base.frozen
                 PROVE  rows'[m].state \in Ended
      OBVIOUS
    <3>1. \A r \in Receipts : ~Plan(r)
      BY <1>3, PhaseSets DEF Plan, Unfinished
    <3>2. ReplacementRuns \/ installer # NoTakeover
      BY <1>1, <3>1, InstallerSteps, ReplacementRises DEF TakeoverTyped
    <3>3. ~PutBack /\ m \in Posts
      BY <2>1, <2>2, <3>2 DEF Bases
    <3>4. rows[m].state \in Ended
      BY <2>1, <3>2 DEF Accepts
    <3> QED
      BY <2>2, <3>3, <3>4, RanksRise
  <2>9. ASSUME NEW m \in Posts, quarantine'[m].by = q
        PROVE  m \in base.max /\ m \notin DOMAIN base.frozen
    <3>1. quarantine[m].by = q
      BY <1>1, <2>2, <2>9, TakeoverAssumption DEF QueueStep, PutBack
    <3> QED
      BY <2>1, <3>1 DEF Accepts
  <2> QED
    BY <1>3, <2>1, <2>6, <2>7, <2>8, <2>9, PresentSteps DEF Accepts
<1> QED
  BY <1>1, <1>2, <1>3, StartedSteps

-----------------------------------------------------------------------------
(* The theorems *)

\* The invariant holds at first.
LEMMA TypedInit == TakeoverInit => TakeoverTyped
<1> SUFFICES ASSUME TakeoverInit PROVE TakeoverTyped
  OBVIOUS
<1>1. ToolTyped
  BY NoCommandTyped DEF TakeoverInit, ToolTyped
<1>2. ReceiptTyped
  BY NoReceiptTyped DEF TakeoverInit, ReceiptTyped
<1>3. QueueTyped
  BY RowKinds DEF TakeoverInit, QueueTyped
<1>4. RuntimesTyped
  BY TakeoverAssumption DEF TakeoverInit, RuntimesTyped, Services
<1>5. OthersTyped
  BY TakeoverAssumption DEF TakeoverInit, OthersTyped
<1> QED
  BY <1>1, <1>2, <1>3, <1>4, <1>5 DEF TakeoverTyped

\* All of it.
LEMMA InvInit == TakeoverInit => TakeoverInv
<1> SUFFICES ASSUME TakeoverInit PROVE TakeoverInv
  OBVIOUS
<1>1. TakeoverTyped
  BY TypedInit
<1>2. /\ tool = NoCommand /\ tool.cmd = "idle" /\ tool.pc = "idle" /\ tool.at = 0
      /\ installer = NoTakeover
  BY NoCommandTyped DEF TakeoverInit
<1>3. \A q \in Receipts : /\ receipt[q].phase = "absent" /\ ~receipt[q].backup
                          /\ receipt[q].lower = 0
  BY DEF TakeoverInit, NoReceipt
<1>4. /\ "absent" \notin StartedPhases /\ "absent" \notin Bounded /\ "absent" \in Unbacked
      /\ "absent" \notin ServedPhases /\ Unfinished = {} /\ ~Served
  <2>1. "absent" \notin StartedPhases /\ "absent" \in Unbacked
    BY DEF StartedPhases, Unbacked
  <2> QED
    BY <1>3, <2>1 DEF Bounded, ServedPhases, Unfinished, Served
<1>5. ControlInv
  <2>1. StepsFit
    BY <1>2 DEF StepsFit
  <2>2. PhasesFit
    BY <1>2, <1>3, <1>4 DEF PhasesFit, Finishing, Stopping
  <2>3. InstallerFits
    BY <1>2 DEF InstallerFits, Preparing, Finishing
  <2>4. BackupsFit
    BY <1>2, <1>3, <1>4 DEF BackupsFit, Preparing
  <2> QED
    BY <2>1, <2>2, <2>3, <2>4 DEF ControlInv
<1>6. repl = [loaded |-> {}, up |-> FALSE, seen |-> 0] /\ ~ReplacementRuns
  BY DEF TakeoverInit, ReplacementRuns
<1>7. RuntimeInv
  BY <1>2, <1>3, <1>6 DEF RuntimeInv, OneRuntime
<1>8. SessionInv
  BY <1>2, TakeoverAssumption DEF TakeoverInit, SessionInv
<1>9. \A m \in Posts : /\ quarantine[m].by = NoTakeover /\ rows[m] = NoRow
                       /\ rows[m].state = "absent"
  BY DEF TakeoverInit, NoRow
<1>10. QuarantineInv
  BY <1>2, <1>9 DEF QuarantineInv, QuarantineIsAcknowledged
<1>11. Present = {}
  BY <1>9 DEF Present
<1>12. RowsFit
  BY <1>3, <1>9, <1>11 DEF RowsFit, TakeoverInit
<1>13. GapInv
  BY <1>2, <1>3, <1>4, <1>11 DEF GapInv
<1>14. BoundsFit
  BY <1>3, <1>4 DEF BoundsFit
<1>15. ReconcileFits
  BY <1>2 DEF ReconcileFits
<1>16. CommitFits
  BY <1>2, <1>3 DEF CommitFits, WindowIsServed
<1>17. AcceptedInv
  BY <1>3, <1>4 DEF AcceptedInv
<1> QED
  BY <1>1, <1>5, <1>7, <1>8, <1>10, <1>12, <1>13, <1>14, <1>15, <1>16, <1>17 DEF
     TakeoverInv, WindowInv

\* A step that changes nothing of this.
LEMMA InvStutters ==
  ASSUME TakeoverInv, UNCHANGED takeoverVars
  PROVE  TakeoverInv'
<1> USE DEF takeoverVars, discordVars, queueVars, runtimeVars, historyVars
<1>1. TakeoverTyped'
  BY DEF TakeoverInv, TakeoverTyped, ToolTyped, ReceiptTyped, QueueTyped, RuntimesTyped,
     OthersTyped
<1>2. /\ Unfinished' = Unfinished /\ Present' = Present /\ Snapshot' = Snapshot
      /\ Served' = Served
  BY DEF Unfinished, Present, Snapshot, Nonterminal, Served
<1>3. /\ (LegacyRuns' = LegacyRuns) /\ (ReplacementRuns' = ReplacementRuns)
      /\ (LegacyLoaded' = LegacyLoaded)
      /\ (RollingBack' = RollingBack)
  BY DEF LegacyRuns, ReplacementRuns, LegacyLoaded, RollingBack
<1>4. ControlInv'
  BY <1>2 DEF TakeoverInv, ControlInv, StepsFit, PhasesFit, InstallerFits, BackupsFit,
     Begun, Preparing, Stopping, Finishing
<1>5. RuntimeInv'
  BY <1>2, <1>3 DEF TakeoverInv, RuntimeInv, OneRuntime
<1>6. SessionInv'
  BY <1>2, <1>3 DEF TakeoverInv, SessionInv
<1>7. QuarantineInv'
  BY <1>2 DEF TakeoverInv, QuarantineInv, QuarantineIsAcknowledged
<1>8. RowsFit'
  BY <1>2 DEF TakeoverInv, RowsFit, Posted
<1>9. GapInv'
  BY <1>2 DEF TakeoverInv, GapInv, Missed
<1>10. WindowInv'
  BY <1>2 DEF TakeoverInv, WindowInv, BoundsFit, ReconcileFits, CommitFits, WindowIsServed,
     Missed, UpperBound
<1>11. AcceptedInv'
  BY <1>2, <1>3 DEF TakeoverInv, AcceptedInv, Accepts
<1> QED
  BY <1>1, <1>4, <1>5, <1>6, <1>7, <1>8, <1>9, <1>10, <1>11 DEF TakeoverInv

\* Every step keeps the invariant.
LEMMA InvKeeps == TakeoverInv /\ [TakeoverNext]_takeoverVars => TakeoverInv'
<1> SUFFICES ASSUME TakeoverInv, TakeoverNext PROVE TakeoverInv'
  BY InvStutters
<1>1. TakeoverTyped' /\ ControlInv' /\ RuntimeInv'
  BY InvSteps
<1>2. SessionInv'
  BY SessionStep DEF TakeoverInv
<1>3. QuarantineInv'
  BY <1>1, QuarantineStep DEF TakeoverInv
<1>4. WindowInv'
  BY BoundsStep, ReconcileFitsStep, CommitStep DEF WindowInv
<1> QED
  BY <1>1, <1>2, <1>3, <1>4, RowsStep, GapStep, AcceptedStep DEF TakeoverInv

\* The invariant holds in every reachable state.
LEMMA TakeoverInvariant == TakeoverSpec => []TakeoverInv
  BY InvInit, InvKeeps, PTL DEF TakeoverSpec

\* Type correctness of the takeover.
THEOREM TakeoverTypes == TakeoverSpec => []TakeoverTypeOK
<1>1. TakeoverInv => TakeoverTypeOK
  <2> SUFFICES ASSUME TakeoverInv PROVE TakeoverTypeOK
    OBVIOUS
  <2>1. /\ DOMAIN tool = DOMAIN NoCommand
        /\ tool.r \in Receipts \cup {NoTakeover}
        /\ tool.todo \subseteq Posts /\ tool.at \in 0..N
    BY DEF TakeoverInv, TakeoverTyped, ToolTyped, Tool, NoCommand
  <2>2. DOMAIN receipt = Receipts
    BY DEF TakeoverInv, TakeoverTyped, ReceiptTyped
  <2>3. ASSUME NEW r \in Receipts
        PROVE  /\ DOMAIN receipt[r] = DOMAIN NoReceipt
               /\ receipt[r].phase \in Phases
               /\ receipt[r].lower \in 0..N /\ receipt[r].upper \in 0..N
               /\ receipt[r].base.max \subseteq Posts
    <3>1. receipt[r] \in Receipt
      BY DEF TakeoverInv, TakeoverTyped, ReceiptTyped
    <3>2. receipt[r].base \in Bases
      BY <3>1 DEF Receipt
    <3>3. DOMAIN receipt[r] = DOMAIN NoReceipt
      BY <3>1 DEF Receipt, NoReceipt
    <3> QED
      BY <3>1, <3>2, <3>3 DEF Receipt, Bases
  <2> QED
    BY <2>1, <2>2, <2>3 DEF TakeoverInv, TakeoverTyped, QueueTyped, RuntimesTyped,
       OthersTyped, TakeoverTypeOK
<1>2. QED
  BY <1>1, TakeoverInvariant, PTL

\* The legacy runtime and the replacement never run together: a command stops one
\* and sees it stopped before another loads the other, also across kills, failures
\* and rollbacks.
THEOREM RuntimesExclude == TakeoverSpec => []OneRuntime
<1>1. TakeoverInv => OneRuntime
  BY DEF TakeoverInv, RuntimeInv
<1>2. QED
  BY <1>1, TakeoverInvariant, PTL

\* When a takeover is committed, every message up to its final boundary has been
\* handed to a worker, ended or set aside, or is below the gap: its listener missed it,
\* and a listener enqueued a later message of its channel.
THEOREM WindowsAreServed == TakeoverSpec => []WindowIsServed
<1>1. TakeoverInv => WindowIsServed
  BY DEF TakeoverInv, WindowInv, CommitFits
<1>2. QED
  BY <1>1, TakeoverInvariant, PTL

\* The rows that are set aside are those, and as, the operator acknowledged.
THEOREM QuarantinesAreAcknowledged == TakeoverSpec => []QuarantineIsAcknowledged
<1>1. TakeoverInv => QuarantineIsAcknowledged
  BY DEF TakeoverInv, QuarantineInv
<1>2. QED
  BY <1>1, TakeoverInvariant, PTL

\* An abort of a started takeover goes ahead only if the replacement has done nothing
\* since its baseline: a new row shows by its number, a step of an old one by its
\* state, which only goes up.
THEOREM AbortsSeeWork == TakeoverSpec => AbortSeesWork
<1>1. ASSUME TakeoverInv, [TakeoverNext]_takeoverVars
      PROVE  [tool.cmd # "abort" /\ tool'.cmd = "abort"
                /\ receipt[tool'.r].phase \in StartedPhases => accepted = {}]_takeoverVars
  <2> SUFFICES ASSUME TakeoverNext, tool.cmd # "abort", tool'.cmd = "abort",
                      receipt[tool'.r].phase \in StartedPhases
               PROVE  accepted = {}
    BY <1>1
  <2>1. TakeoverTyped /\ StepsFit /\ AcceptedInv
    BY <1>1 DEF TakeoverInv, ControlInv
  <2>2. tool'.r \in Receipts /\ ~AcceptedWork(receipt[tool'.r].base)
    BY <2>1, AbortBegins
  <2> DEFINE base == receipt[tool'.r].base
  <2>3. Present \subseteq base.max /\ \A m \in DOMAIN base.frozen : rows[m] = base.frozen[m]
    BY <2>2 DEF AcceptedWork
  <2>4. ASSUME NEW m \in accepted PROVE FALSE
    <3>1. Accepts(tool'.r)
      BY <2>1, <2>2 DEF AcceptedInv
    <3>2. m \in DOMAIN base.frozen /\ Rank[base.frozen[m].state] < Rank[rows[m].state]
      BY <2>3, <2>4, <3>1 DEF Accepts
    <3>3. Rank[rows[m].state] \in 0..5
      <4>1. m \in Posts
        BY <2>1, <2>4 DEF TakeoverTyped, OthersTyped
      <4> QED
        BY <2>1, <4>1, RankIs DEF TakeoverTyped, QueueTyped, Row
    <3> QED
      BY <2>3, <3>2, <3>3
  <2> QED
    BY <2>4
<1>2. QED
  BY <1>1, TakeoverInvariant, PTL DEF AbortSeesWork, TakeoverSpec

\* A receipt that says rolled-back tells the truth of the rows, of the Gateway session
\* and of both runtimes.
THEOREM RollbacksAreExact == TakeoverSpec => RollbackIsExact
<1>1. ASSUME TakeoverInv, [TakeoverNext]_takeoverVars
      PROVE  [\A r \in Receipts :
                receipt[r].phase # "rolled-back" /\ receipt'[r].phase = "rolled-back" =>
                  /\ \A m \in Posts : quarantine[m].by # r
                  /\ session # "own"
                  /\ receipt[r].backup => session = receipt[r].gateway
                  /\ legacy.loaded = Services /\ ~ReplacementRuns]_takeoverVars
  <2> SUFFICES ASSUME TakeoverNext, NEW r \in Receipts,
                      receipt[r].phase # "rolled-back", receipt'[r].phase = "rolled-back"
               PROVE  /\ \A m \in Posts : quarantine[m].by # r
                      /\ session # "own"
                      /\ receipt[r].backup => session = receipt[r].gateway
                      /\ legacy.loaded = Services /\ ~ReplacementRuns
    BY <1>1
  <2>1. ReceiptStep
    BY <1>1, InvSteps
  <2>2. "rolled-back" \notin EarlyPhases \cup StartedPhases \cup {"prepared"}
    BY DEF EarlyPhases, StartedPhases
  <2>3. RolledBack /\ r = tool.r
    BY <2>1, <2>2 DEF ReceiptStep, PhaseBecomes
  <2>4. tool.pc = "save"
    BY <2>3 DEF RolledBack
  <2> QED
    BY <1>1, <2>3, <2>4 DEF TakeoverInv, QuarantineInv, SessionInv, LegacyLoaded, RuntimeInv,
       RollingBack
<1>2. QED
  BY <1>1, TakeoverInvariant, PTL DEF RollbackIsExact, TakeoverSpec

=============================================================================
