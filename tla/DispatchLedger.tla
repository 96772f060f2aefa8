--------------------------- MODULE DispatchLedger ---------------------------
(***************************************************************************)
(* How a claimed queue row gets its Discord thread, its conversation file  *)
(* and its one input turn.                                                 *)
(*                                                                         *)
(*   conversations/dispatch.py           one process per dispatch          *)
(*   conversations/queue/idempotency.py  the operation ledger (SQLite) and *)
(*                                       the lock the processes take turns *)
(*                                       with                              *)
(*   approval/create_thread.py           the helper process that talks to  *)
(*                                       Discord                           *)
(*   conversations/lib.py                conversation files                *)
(*                                                                         *)
(* A dispatch can be killed between any two steps (the drainer's timeout,  *)
(* a crash).  The lock is then released, but the helper it started goes on *)
(* without it, and a request may be on the wire when both are gone.        *)
(* Discord is external: the thread of a message has the identifier of that *)
(* message, a second creation is refused, and a read may lag behind.       *)
(*                                                                         *)
(* Abstracted: titles, digests, error texts, the archived folder.          *)
(***************************************************************************)
EXTENDS Naturals, Sequences, FiniteSets

CONSTANTS
  Messages,     \* claimed queue rows
  ThreadOf,     \* the thread of a message, named by its starter message
  Sessions,     \* session identifiers (uuid4)
  Dispatchers,  \* dispatch.py processes alive at once
  Helpers,      \* create_thread.py processes alive at once
  None,         \* no process, no message, no session, no thread
  MaxPosts,     \* bound: creations sent to Discord
  MaxKills      \* bound: how many dispatches are killed

TopLevel == {m \in Messages : ThreadOf[m] = m}

ASSUME ConstantsAssumption ==
  /\ ThreadOf \in [Messages -> Messages]
  /\ \A m \in Messages : ThreadOf[m] \in TopLevel
  /\ None \notin Messages \cup Sessions \cup Dispatchers \cup Helpers
  /\ MaxPosts \in Nat
  /\ MaxKills \in Nat

VARIABLES
  op,        \* dispatch_operations: state and frozen session of a message
  files,     \* conversation files: the thread a session's file is bound to
  turns,     \* the input turns in a session's transcript
  dispatch,  \* dispatch.py processes
  lock,      \* who holds .dispatch.lock
  helper,    \* create_thread.py processes
  wire,      \* creations Discord has not answered
  posted,    \* every creation that was sent (history)
  exists,    \* threads in Discord
  visible,   \* the ones a GET finds
  kills      \* dispatches killed so far

vars == <<op, files, turns, dispatch, lock, helper, wire, posted, exists,
          visible, kills>>

private == <<files, turns>>
discord == <<wire, posted, exists, visible>>

-----------------------------------------------------------------------------
(* States and types *)

OpStates == {"none", "prepared", "thread_create_attempted",
             "thread_absence_confirmed", "thread_confirmed",
             "conversation_ready", "turn_appended", "completed"}

\* The thread is confirmed in these states.
Bound == {"thread_confirmed", "conversation_ready", "turn_appended",
          "completed"}

NoDispatch == [pc |-> "idle", msg |-> None]
NoHelper == [pc |-> "idle", kind |-> "none", msg |-> None, owner |-> None, id |-> 0]

StateOf(d) == op[dispatch[d].msg].state
Holds(d, pc) == dispatch[d].pc = pc /\ lock = d
Resume(d) == dispatch' = [dispatch EXCEPT ![d].pc = "run"]
Advance(d, to) == op' = [op EXCEPT ![dispatch[d].msg].state = to]

\* The process ends and its lock is released.
Leave(d) ==
  /\ dispatch' = [dispatch EXCEPT ![d] = NoDispatch]
  /\ lock' = IF lock = d THEN None ELSE lock

\* by_thread of the registry, rebuilt from the files.
Registered(t) == \E s \in Sessions : files[s] = t
SessionOf(t) == CHOOSE s \in Sessions : files[s] = t

Init ==
  /\ op = [m \in Messages |-> [state |-> "none", session |-> None]]
  /\ files = [s \in Sessions |-> None]
  /\ turns = [s \in Sessions |-> <<>>]
  /\ dispatch = [d \in Dispatchers |-> NoDispatch]
  /\ lock = None
  /\ helper = [h \in Helpers |-> NoHelper]
  /\ wire = {}
  /\ posted = {}
  /\ exists = {}
  /\ visible = {}
  /\ kills = 0

-----------------------------------------------------------------------------
(* dispatch.py *)

\* dispatch-claimed starts a process for a claimed row.  A reply needs the
\* conversation its thread is registered for.
Start(d, m) ==
  /\ dispatch[d].pc = "idle"
  /\ m \in TopLevel \/ Registered(ThreadOf[m])
  /\ dispatch' = [dispatch EXCEPT ![d] = [pc |-> "blocked", msg |-> m]]
  /\ UNCHANGED <<op, private, lock, helper, discord, kills>>

\* A session identifier no operation has.
Fresh(s) == \A m \in Messages : op[m].session # s

\* operation_lock is taken and prepare inserts the operation, or finds it
\* with everything frozen.
Acquire(d) ==
  /\ dispatch[d].pc = "blocked"
  /\ lock = None
  /\ lock' = d
  /\ Resume(d)
  /\ LET m == dispatch[d].msg IN
       IF op[m].state # "none"
         THEN UNCHANGED op
         ELSE \E s \in Sessions :
                /\ IF m \in TopLevel THEN Fresh(s) ELSE s = SessionOf(ThreadOf[m])
                /\ op' = [op EXCEPT ![m] = [state |-> "prepared", session |-> s]]
  /\ UNCHANGED <<private, helper, discord, kills>>

\* mark_thread_attempted, before the first creation is sent.
MarkAttempted(d) ==
  /\ Holds(d, "run")
  /\ dispatch[d].msg \in TopLevel
  /\ StateOf(d) = "prepared"
  /\ Advance(d, "thread_create_attempted")
  /\ dispatch' = [dispatch EXCEPT ![d].pc = "create"]
  /\ UNCHANGED <<private, lock, helper, discord, kills>>

\* Mutant: a run that finds the absence on record only reconciles.
LaunchNeverRecovers(d, h) ==
  /\ Holds(d, "run") \/ Holds(d, "create")
  /\ StateOf(d) = "thread_create_attempted"
  /\ helper[h].pc = "idle"
  /\ helper' = [helper EXCEPT ![h] =
       [pc |-> "look", msg |-> dispatch[d].msg, owner |-> d, id |-> 0,
        kind |-> IF dispatch[d].pc = "create" THEN "create" ELSE "reconcile"]]
  /\ dispatch' = [dispatch EXCEPT ![d].pc = "helping"]
  /\ UNCHANGED <<op, private, lock, discord, kills>>

\* _run_json_helper: the state found decides what the helper has to do.
Launch(d, h) ==
  /\ Holds(d, "run") \/ Holds(d, "create")
  /\ StateOf(d) \in {"thread_create_attempted", "thread_absence_confirmed"}
  /\ helper[h].pc = "idle"
  /\ helper' = [helper EXCEPT ![h] =
       [pc |-> "look", msg |-> dispatch[d].msg, owner |-> d, id |-> 0,
        kind |-> IF dispatch[d].pc = "create" THEN "create"
                 ELSE IF StateOf(d) = "thread_create_attempted" THEN "reconcile"
                 ELSE "recover"]]
  /\ dispatch' = [dispatch EXCEPT ![d].pc = "helping"]
  /\ UNCHANGED <<op, private, lock, discord, kills>>

\* The helper's answer: mark_thread_absence_confirmed (the recovery follows),
\* confirm_thread, or an exception that ends the process.
Collect(d, h) ==
  /\ Holds(d, "helping")
  /\ helper[h].owner = d
  /\ helper[h].pc \in {"absent", "got", "failed"}
  /\ helper' = [helper EXCEPT ![h] = NoHelper]
  /\ IF helper[h].pc = "failed"
       THEN /\ Leave(d)
            /\ UNCHANGED op
       ELSE /\ Advance(d, IF helper[h].pc = "absent"
                            THEN "thread_absence_confirmed"
                            ELSE "thread_confirmed")
            /\ Resume(d)
            /\ UNCHANGED lock
  /\ UNCHANGED <<private, discord, kills>>

\* ensure_conversation writes the file, or verifies the one it finds.
EnsureConversation(d) ==
  /\ Holds(d, "run")
  /\ StateOf(d) = "thread_confirmed"
  /\ LET m == dispatch[d].msg IN files' = [files EXCEPT ![op[m].session] = m]
  /\ dispatch' = [dispatch EXCEPT ![d].pc = "ensured"]
  /\ UNCHANGED <<op, turns, lock, helper, discord, kills>>

MarkConversationReady(d) ==
  /\ Holds(d, "ensured")
  /\ Advance(d, "conversation_ready")
  /\ Resume(d)
  /\ UNCHANGED <<private, lock, helper, discord, kills>>

HasTurn(s, m) == \E i \in DOMAIN turns[s] : turns[s][i] = m

\* The input turn is due: a reply needs no thread and no file of its own.
TurnIsDue(d) ==
  \/ StateOf(d) = "conversation_ready"
  \/ StateOf(d) = "prepared" /\ dispatch[d].msg \notin TopLevel

\* Mutant: the transcript is appended to without looking for the marker.
AppendTurnAgain(d) ==
  /\ Holds(d, "run")
  /\ TurnIsDue(d)
  /\ LET m == dispatch[d].msg IN
       turns' = [turns EXCEPT ![op[m].session] = Append(@, m)]
  /\ dispatch' = [dispatch EXCEPT ![d].pc = "appended"]
  /\ UNCHANGED <<op, files, lock, helper, discord, kills>>

\* append_turn_once: nothing is written when the operation's marker is there.
AppendTurn(d) ==
  /\ Holds(d, "run")
  /\ TurnIsDue(d)
  /\ LET m == dispatch[d].msg
         s == op[m].session
     IN turns' = IF HasTurn(s, m) THEN turns
                 ELSE [turns EXCEPT ![s] = Append(@, m)]
  /\ dispatch' = [dispatch EXCEPT ![d].pc = "appended"]
  /\ UNCHANGED <<op, files, lock, helper, discord, kills>>

MarkTurnAppended(d) ==
  /\ Holds(d, "appended")
  /\ Advance(d, "turn_appended")
  /\ Resume(d)
  /\ UNCHANGED <<private, lock, helper, discord, kills>>

Complete(d) ==
  /\ Holds(d, "run")
  /\ StateOf(d) = "turn_appended"
  /\ Advance(d, "completed")
  /\ Resume(d)
  /\ UNCHANGED <<private, lock, helper, discord, kills>>

\* The stored result is printed; a completed operation changes nothing.
Return(d) ==
  /\ Holds(d, "run")
  /\ StateOf(d) = "completed"
  /\ Leave(d)
  /\ UNCHANGED <<op, private, helper, discord, kills>>

\* The process is killed: its helper goes on alone.
Kill(d) ==
  /\ dispatch[d].pc # "idle"
  /\ kills < MaxKills
  /\ kills' = kills + 1
  /\ Leave(d)
  /\ helper' = [h \in Helpers |->
       IF helper[h].owner = d THEN [helper[h] EXCEPT !.owner = None] ELSE helper[h]]
  /\ UNCHANGED <<op, private, discord>>

-----------------------------------------------------------------------------
(* create_thread.py *)

HelperGo(h, pc) == helper' = [helper EXCEPT ![h].pc = pc]

\* The first GET of the thread.
Look(h) ==
  /\ helper[h].pc = "look"
  /\ HelperGo(h, IF helper[h].msg \in visible THEN "got"
                 ELSE IF helper[h].kind = "create" THEN "post" ELSE "probe")
  /\ UNCHANGED <<op, private, dispatch, lock, discord, kills>>

\* _bounded_absence_probe, as one more GET.
Probe(h) ==
  /\ helper[h].pc = "probe"
  /\ HelperGo(h, IF helper[h].msg \in visible THEN "got"
                 ELSE IF helper[h].kind = "reconcile" THEN "absent" ELSE "post")
  /\ UNCHANGED <<op, private, dispatch, lock, discord, kills>>

\* _create_once sends the creation.
Post(h) ==
  /\ helper[h].pc = "post"
  /\ Cardinality(posted) < MaxPosts
  /\ LET q == [id |-> Cardinality(posted) + 1, msg |-> helper[h].msg] IN
       /\ posted' = posted \cup {q}
       /\ wire' = wire \cup {q}
       /\ helper' = [helper EXCEPT ![h].pc = "posting", ![h].id = q.id]
  /\ UNCHANGED <<op, private, dispatch, lock, exists, visible, kills>>

\* After an error of the creation, one GET decides.
Recheck(h) ==
  /\ helper[h].pc = "recheck"
  /\ HelperGo(h, IF helper[h].msg \in visible THEN "got" ELSE "failed")
  /\ UNCHANGED <<op, private, dispatch, lock, discord, kills>>

\* No answer to the creation in time.
PostTimesOut(h) ==
  /\ helper[h].pc = "posting"
  /\ HelperGo(h, "recheck")
  /\ UNCHANGED <<op, private, dispatch, lock, discord, kills>>

\* Any other error, or the dispatch's timeout for its helper.
HelperFails(h) ==
  /\ helper[h].pc \in {"look", "probe", "post", "posting", "recheck"}
  /\ HelperGo(h, "failed")
  /\ UNCHANGED <<op, private, dispatch, lock, discord, kills>>

\* Nobody reads the answer of a helper whose dispatch is gone.
HelperEnds(h) ==
  /\ helper[h].pc \in {"got", "absent", "failed"}
  /\ helper[h].owner = None
  /\ helper' = [helper EXCEPT ![h] = NoHelper]
  /\ UNCHANGED <<op, private, dispatch, lock, discord, kills>>

-----------------------------------------------------------------------------
(* Discord *)

Answer(q, pc) ==
  helper' = [h \in Helpers |->
    IF helper[h].pc = "posting" /\ helper[h].id = q.id
      THEN [helper[h] EXCEPT !.pc = pc] ELSE helper[h]]

\* The thread is created, unless the message has one already.
Accept(q) ==
  /\ wire' = wire \ {q}
  /\ exists' = exists \cup {q.msg}
  /\ Answer(q, IF q.msg \in exists THEN "recheck" ELSE "got")
  /\ UNCHANGED <<op, private, dispatch, lock, posted, visible, kills>>

\* The creation is lost or refused; the last one the bound allows is not.
Lose(q) ==
  /\ Cardinality(posted) < MaxPosts
  /\ wire' = wire \ {q}
  /\ Answer(q, "recheck")
  /\ UNCHANGED <<op, private, dispatch, lock, posted, exists, visible, kills>>

\* Reads catch up with a thread that was created.
Appear(m) ==
  /\ m \in exists \ visible
  /\ visible' = visible \cup {m}
  /\ UNCHANGED <<op, private, dispatch, lock, helper, wire, posted, exists, kills>>

-----------------------------------------------------------------------------
(* Specification *)

DispatchStep(d) ==
  \/ Acquire(d)
  \/ MarkAttempted(d)
  \/ \E h \in Helpers : Launch(d, h)
  \/ \E h \in Helpers : Collect(d, h)
  \/ EnsureConversation(d)
  \/ MarkConversationReady(d)
  \/ AppendTurn(d)
  \/ MarkTurnAppended(d)
  \/ Complete(d)
  \/ Return(d)

HelperStep(h) ==
  \/ Look(h)
  \/ Probe(h)
  \/ Post(h)
  \/ Recheck(h)
  \/ HelperEnds(h)

Next ==
  \/ \E d \in Dispatchers, m \in Messages : Start(d, m)
  \/ \E d \in Dispatchers : DispatchStep(d) \/ Kill(d)
  \/ \E h \in Helpers : HelperStep(h) \/ PostTimesOut(h) \/ HelperFails(h)
  \/ \E q \in wire : Accept(q) \/ Lose(q)
  \/ \E m \in TopLevel : Appear(m)

Spec == Init /\ [][Next]_vars

\* The drain loop dispatches an unfinished row again and again, a process
\* that waits for the lock gets it, every process goes on or fails within its
\* timeout, no step of a helper fails for ever, and Discord answers.
Fairness ==
  /\ \A m \in Messages : SF_vars(\E d \in Dispatchers : Start(d, m))
  /\ \A d \in Dispatchers : WF_vars(DispatchStep(d)) /\ SF_vars(Acquire(d))
  /\ \A h \in Helpers :
       WF_vars(HelperStep(h) \/ PostTimesOut(h) \/ HelperFails(h))
  /\ SF_vars(\E h \in Helpers : Look(h))
  /\ SF_vars(\E h \in Helpers : Probe(h))
  /\ SF_vars(\E h \in Helpers : Post(h))
  /\ WF_vars(\E q \in wire : Accept(q))
  /\ WF_vars(\E m \in TopLevel : Appear(m))

FairSpec == Spec /\ Fairness

-----------------------------------------------------------------------------
(* Properties *)

TypeOK ==
  /\ op \in [Messages -> [state : OpStates, session : Sessions \cup {None}]]
  /\ files \in [Sessions -> TopLevel \cup {None}]
  /\ turns \in [Sessions -> Seq(Messages)]
  /\ dispatch \in [Dispatchers ->
       [pc : {"idle", "blocked", "run", "create", "helping", "ensured", "appended"},
        msg : Messages \cup {None}]]
  /\ lock \in Dispatchers \cup {None}
  /\ helper \in [Helpers ->
       [pc : {"idle", "look", "probe", "post", "posting", "recheck", "got",
              "absent", "failed"},
        kind : {"none", "create", "reconcile", "recover"},
        msg : TopLevel \cup {None}, owner : Dispatchers \cup {None}, id : Nat]]
  /\ posted \subseteq [id : Nat, msg : TopLevel]
  /\ wire \subseteq posted
  /\ exists \subseteq TopLevel
  /\ visible \subseteq exists
  /\ kills \in Nat

\* A message's input turn is in the transcripts at most once, although a
\* dispatch can be killed after the file is written and before the ledger
\* says so.
OneInputTurn ==
  \A s, t \in Sessions : \A i \in DOMAIN turns[s], j \in DOMAIN turns[t] :
    turns[s][i] = turns[t][j] => s = t /\ i = j

\* A thread never gets two conversation files, however often its dispatch is
\* repeated.
OneConversationPerThread ==
  \A s, t \in Sessions : files[s] # None /\ files[s] = files[t] => s = t

\* A creation that may have reached Discord is on record in the ledger before
\* it leaves, whoever sends it, and also when its sender is an orphan.
CreationIsRecorded ==
  \A m \in Messages :
    (\E q \in posted : q.msg = m) => op[m].state \notin {"none", "prepared"}

\* A completed operation means what the drainer and the worker rely on: the
\* thread exists, its one conversation belongs to the session, and the
\* session's transcript has the message.
CompletedIsBound ==
  \A m \in Messages :
    op[m].state = "completed" =>
      /\ ThreadOf[m] \in exists
      /\ files[op[m].session] = ThreadOf[m]
      /\ HasTurn(op[m].session, m)

\* Every dispatched message is completed at last: no kill, orphaned helper,
\* lost creation or lagging read leaves an operation that cannot go on.
EveryDispatchCompletes ==
  \A m \in Messages :
    op[m].state = "prepared" ~> op[m].state = "completed"
=============================================================================
