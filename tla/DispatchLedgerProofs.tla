------------------------ MODULE DispatchLedgerProofs ------------------------
(***************************************************************************)
(* Theorems about DispatchLedger, for any number of messages, sessions,    *)
(* processes, requests and kills.                                          *)
(***************************************************************************)
EXTENDS DispatchLedger, FiniteSetTheorems, TLAPS

-----------------------------------------------------------------------------
(* The types, by their owners *)

DispatchPc == {"idle", "blocked", "run", "create", "helping", "ensured", "appended"}
HelperPc == {"idle", "look", "probe", "post", "posting", "recheck", "got", "absent",
             "failed"}
HelperKind == {"none", "create", "reconcile", "recover"}

OpRecord == [state : OpStates, session : Sessions \cup {None}]
DispatchRecord == [pc : DispatchPc, msg : Messages \cup {None}]
HelperRecord == [pc : HelperPc, kind : HelperKind, msg : TopLevel \cup {None},
                 owner : Dispatchers \cup {None}, id : Nat]

FilesTyped ==
  /\ files \in [Sessions -> TopLevel \cup {None}]
  /\ turns \in [Sessions -> Seq(Messages)]
DiscordTyped ==
  /\ posted \subseteq [id : Nat, msg : TopLevel] /\ wire \subseteq posted
  /\ exists \subseteq TopLevel /\ visible \subseteq exists

Typed ==
  /\ op \in [Messages -> OpRecord] /\ FilesTyped
  /\ dispatch \in [Dispatchers -> DispatchRecord] /\ lock \in Dispatchers \cup {None}
  /\ helper \in [Helpers -> HelperRecord] /\ DiscordTyped /\ kills \in Nat

\* The parts are the type invariant.
LEMMA TypesOK == Typed => TypeOK
BY DEF Typed, TypeOK, FilesTyped, DiscordTyped, OpRecord, DispatchRecord, HelperRecord,
   DispatchPc, HelperPc, HelperKind

-----------------------------------------------------------------------------
(* The invariant *)

Unsent == {"none", "prepared"}
InTranscript == {"turn_appended", "completed"}
HasFile == InTranscript \cup {"conversation_ready"}
Working == {"run", "create", "helping", "ensured", "appended"}

\* A process works on its operation while it has the lock, and only then.
LockIsHeld == \A d \in Dispatchers : dispatch[d].pc \in Working <=> lock = d

\* Where a process is says how far its operation has come.
ProcessFollows(d) ==
  LET m == dispatch[d].msg  pc == dispatch[d].pc IN
    /\ pc # "idle" => m \in Messages /\ (m \in TopLevel \/ Registered(ThreadOf[m]))
    /\ pc \in Working => op[m].state # "none"
    /\ pc = "create" => m \in TopLevel /\ op[m].state = "thread_create_attempted"
    /\ pc = "helping" =>
         /\ m \in TopLevel
         /\ op[m].state \in {"thread_create_attempted", "thread_absence_confirmed"}
    /\ pc = "ensured" =>
         /\ m \in TopLevel
         /\ op[m].state = "thread_confirmed" /\ files[op[m].session] = m
    /\ pc = "appended" => HasTurn(op[m].session, m) /\ TurnIsDue(d)

ProcessesFollowOps == \A d \in Dispatchers : ProcessFollows(d)

\* What an operation's state stands for.
OpIsTrue(m) ==
  /\ op[m].state = "none" <=> op[m].session = None
  /\ op[m].state \in InTranscript => HasTurn(op[m].session, m)
  /\ m \in TopLevel =>
       /\ op[m].state \in HasFile => files[op[m].session] = m
       /\ op[m].state \in Bound => m \in exists
  /\ m \notin TopLevel =>
       /\ op[m].state \in {"none", "prepared"} \cup InTranscript
       /\ op[m].state # "none" => files[op[m].session] = ThreadOf[m]

OpsAreTrue == \A m \in Messages : OpIsTrue(m)

\* A thread's operation owns the session it froze, and the session's file.
SessionsAreOwn ==
  /\ \A m, n \in TopLevel :
       op[m].session = op[n].session /\ op[m].session # None => m = n
  /\ \A s \in Sessions :
       files[s] # None => op[files[s]].session = s /\ op[files[s]].state \in Bound

\* A turn is in the transcript of its message's session, once.
TurnsAreOwn ==
  \A s \in Sessions :
    /\ \A i \in DOMAIN turns[s] : op[turns[s][i]].session = s
    /\ \A i, j \in DOMAIN turns[s] : turns[s][i] = turns[s][j] => i = j

\* Requests have numbers of their own, and are on record.
PostsAreNumbered ==
  /\ IsFiniteSet(posted)
  /\ \A q \in posted : q.id <= Cardinality(posted) /\ op[q.msg].state \notin Unsent
  /\ \A q, r \in posted : q.id = r.id => q = r

\* A helper works for the operation it was started for; its dispatch, while it
\* lives, waits for it alone.
HelpersFollowOps ==
  /\ \A h \in Helpers :
       /\ helper[h].pc # "idle" =>
            helper[h].msg \in TopLevel /\ op[helper[h].msg].state \notin Unsent
       /\ helper[h].owner # None =>
            /\ helper[h].pc # "idle"
            /\ dispatch[helper[h].owner].pc = "helping"
            /\ dispatch[helper[h].owner].msg = helper[h].msg
       /\ helper[h].pc = "posting" =>
            \E q \in posted : q.id = helper[h].id /\ q.msg = helper[h].msg
       /\ helper[h].pc = "got" => helper[h].msg \in exists
  /\ \A g, h \in Helpers :
       helper[g].owner = helper[h].owner /\ helper[g].owner # None => g = h

Inv ==
  /\ Typed /\ LockIsHeld /\ ProcessesFollowOps /\ OpsAreTrue /\ SessionsAreOwn
  /\ TurnsAreOwn /\ PostsAreNumbered /\ HelpersFollowOps

-----------------------------------------------------------------------------
(* What the steps do *)

\* The operation of message m alone advances.
Advances(m, to) ==
  /\ op' \in [Messages -> OpRecord]
  /\ op'[m].state = to
  /\ \A n \in Messages : op'[n].session = op[n].session
  /\ \A n \in Messages \ {m} : op'[n].state = op[n].state

LEMMA Advancing ==
  ASSUME Typed, NEW d \in Dispatchers, dispatch[d].msg \in Messages,
         NEW to \in OpStates, Advance(d, to)
  PROVE  Advances(dispatch[d].msg, to)
BY DEF Typed, OpRecord, Advance, Advances

\* Process d alone moves, to p.
Moves(d, p) ==
  /\ dispatch' \in [Dispatchers -> DispatchRecord]
  /\ dispatch'[d] = [pc |-> p, msg |-> dispatch[d].msg]
  /\ \A e \in Dispatchers \ {d} : dispatch'[e] = dispatch[e]

LEMMA Moving ==
  ASSUME Typed, NEW d \in Dispatchers, NEW p \in DispatchPc,
         dispatch' = [dispatch EXCEPT ![d].pc = p]
  PROVE  Moves(d, p)
BY DEF Typed, DispatchRecord, Moves

\* Process d ends.
Ends(d) ==
  /\ dispatch' \in [Dispatchers -> DispatchRecord]
  /\ dispatch'[d] = NoDispatch
  /\ \A e \in Dispatchers \ {d} : dispatch'[e] = dispatch[e]
  /\ lock' = IF lock = d THEN None ELSE lock

LEMMA Ending ==
  ASSUME Typed, NEW d \in Dispatchers, Leave(d)
  PROVE  Ends(d)
BY DEF Typed, DispatchRecord, DispatchPc, NoDispatch, Leave, Ends

\* Helper h alone becomes r.
Becomes(h, r) ==
  /\ helper' \in [Helpers -> HelperRecord]
  /\ helper'[h] = r
  /\ \A g \in Helpers \ {h} : helper'[g] = helper[g]

\* Helper h at p.
At(h, p) == [helper[h] EXCEPT !.pc = p]

LEMMA HelperGoing ==
  ASSUME Typed, NEW h \in Helpers, NEW p \in HelperPc, HelperGo(h, p)
  PROVE  Becomes(h, At(h, p))
BY DEF Typed, HelperRecord, HelperGo, Becomes, At

LEMMA HelperDone ==
  ASSUME Typed, NEW h \in Helpers, helper' = [helper EXCEPT ![h] = NoHelper]
  PROVE  Becomes(h, NoHelper)
BY DEF Typed, HelperRecord, HelperPc, HelperKind, NoHelper, Becomes

\* A process that waits, or does not run, is not concerned by the operations.
LEMMA WaitingFollows ==
  ASSUME NEW e \in Dispatchers, ProcessFollows(e), dispatch'[e] = dispatch[e],
         dispatch[e].pc \notin Working,
         \A t \in Messages : Registered(t) => Registered(t)'
  PROVE  ProcessFollows(e)'
BY ConstantsAssumption DEF ProcessFollows, Working, TopLevel

\* Nor is a helper by the moves of a process it does not work for.
LEMMA HelpersStay ==
  ASSUME Typed, HelpersFollowOps, NEW d \in Dispatchers, dispatch[d].pc # "helping",
         \A e \in Dispatchers \ {d} : dispatch'[e] = dispatch[e],
         UNCHANGED <<helper, posted, exists>>,
         \A n \in Messages : op[n].state \notin Unsent => op'[n].state \notin Unsent
  PROVE  HelpersFollowOps'
BY DEF Typed, HelperRecord, HelpersFollowOps, TopLevel

\* An operation that advances stays true, when what its new state stands for holds.
LEMMA AdvancingIsTrue ==
  ASSUME Typed, OpsAreTrue, NEW m \in Messages, NEW to, Advances(m, to),
         UNCHANGED <<files, turns, exists>>,
         op[m].state # "none", to # "none",
         to \in InTranscript => HasTurn(op[m].session, m),
         m \in TopLevel /\ to \in HasFile => files[op[m].session] = m,
         m \in TopLevel /\ to \in Bound => m \in exists,
         m \notin TopLevel => to \in {"prepared"} \cup InTranscript
  PROVE  OpsAreTrue'
<1>. SUFFICES ASSUME NEW n \in Messages PROVE OpIsTrue(n)'
  BY DEF OpsAreTrue
<1>1. op'[n].session = op[n].session /\ OpIsTrue(n)
  BY DEF Advances, OpsAreTrue
<1>2. HasTurn(op[n].session, n)' <=> HasTurn(op[n].session, n)
  BY <1>1 DEF HasTurn
<1>3. CASE n = m
  BY <1>1, <1>2, <1>3 DEF Advances, OpIsTrue, TopLevel
<1>4. CASE n # m
  <2>1. op'[n].state = op[n].state
    BY <1>4 DEF Advances
  <2>. QED BY <1>1, <1>2, <2>1 DEF OpIsTrue, TopLevel
<1>. QED BY <1>3, <1>4

LEMMA AdvancingKeepsOwners ==
  ASSUME Typed, SessionsAreOwn, NEW m \in Messages, NEW to, Advances(m, to),
         UNCHANGED files, op[m].state \in Bound => to \in Bound
  PROVE  SessionsAreOwn'
<1>1. \A n \in Messages : op[n].state \in Bound => op'[n].state \in Bound
  BY DEF Advances
<1>2. \A n \in Messages : op'[n].session = op[n].session
  BY DEF Advances
<1>3. \A s \in Sessions : files[s] # None => files[s] \in Messages
  BY DEF Typed, FilesTyped, TopLevel
<1>. QED BY <1>1, <1>2, <1>3 DEF SessionsAreOwn, TopLevel, Bound

\* Message m is in the transcript of session s, at its end if it was not there.
Appends(m, s) ==
  /\ turns' \in [Sessions -> Seq(Messages)]
  /\ \E i \in DOMAIN turns'[s] : turns'[s][i] = m
  /\ \A r \in Sessions : \A i \in DOMAIN turns[r] :
       i \in DOMAIN turns'[r] /\ turns'[r][i] = turns[r][i]
  /\ \A r \in Sessions : \A i \in DOMAIN turns'[r] \ DOMAIN turns[r] :
       r = s /\ turns'[r][i] = m /\ i = Len(turns[s]) + 1 /\ ~HasTurn(s, m)

LEMMA Appending ==
  ASSUME Typed, NEW m \in Messages, NEW s \in Sessions,
         turns' = IF HasTurn(s, m) THEN turns ELSE [turns EXCEPT ![s] = Append(@, m)]
  PROVE  Appends(m, s)
<1>1. CASE HasTurn(s, m)
  BY <1>1 DEF Typed, FilesTyped, Appends, HasTurn
<1>2. CASE ~HasTurn(s, m)
  <2>1. turns[s] \in Seq(Messages) /\ turns' \in [Sessions -> Seq(Messages)]
    BY <1>2 DEF Typed, FilesTyped
  <2>2. turns'[s] = Append(turns[s], m) /\ \A r \in Sessions \ {s} : turns'[r] = turns[r]
    BY <1>2 DEF Typed, FilesTyped
  <2>3. /\ Len(turns'[s]) = Len(turns[s]) + 1 /\ Len(turns[s]) \in Nat
        /\ DOMAIN turns[s] = 1..Len(turns[s]) /\ DOMAIN turns'[s] = 1..Len(turns[s]) + 1
        /\ \A i \in 1..Len(turns[s]) : turns'[s][i] = turns[s][i]
        /\ turns'[s][Len(turns[s]) + 1] = m
    BY <2>1, <2>2
  <2>. QED BY <1>2, <2>1, <2>2, <2>3 DEF Appends
<1>. QED BY <1>1, <1>2

\* What was in a transcript still is.
LEMMA AppendingKeepsTurns ==
  ASSUME NEW m \in Messages, NEW s \in Sessions, Appends(m, s)
  PROVE  HasTurn(s, m)' /\ \A r \in Sessions, n \in Messages : HasTurn(r, n) => HasTurn(r, n)'
BY DEF Appends, HasTurn

LEMMA StartKeeps ==
  ASSUME Inv, NEW d \in Dispatchers, NEW m \in Messages, Start(d, m)
  PROVE  Inv'
<1>1. /\ dispatch' \in [Dispatchers -> DispatchRecord]
      /\ dispatch'[d].pc = "blocked" /\ dispatch'[d].msg = m
      /\ \A e \in Dispatchers \ {d} : dispatch'[e] = dispatch[e]
  BY DEF Start, Inv, Typed, DispatchRecord, DispatchPc
<1>2. /\ dispatch[d].pc = "idle" /\ (m \in TopLevel \/ Registered(ThreadOf[m]))
      /\ UNCHANGED <<op, files, turns, lock, helper, discord, kills>>
  BY DEF Start, private
<1>3. Typed' /\ LockIsHeld'
  <2>1. Typed'
    BY <1>1, <1>2 DEF Inv, Typed, FilesTyped, DiscordTyped, discord
  <2>2. LockIsHeld'
    BY <1>1, <1>2 DEF Inv, LockIsHeld, Working
  <2>. QED BY <2>1, <2>2
<1>4. ProcessesFollowOps'
  BY <1>1, <1>2 DEF Inv, ProcessesFollowOps, ProcessFollows, HasTurn, TurnIsDue, StateOf,
     Registered, Working
<1>5. OpsAreTrue' /\ SessionsAreOwn' /\ TurnsAreOwn' /\ PostsAreNumbered'
  <2>1. OpsAreTrue'
    BY <1>2 DEF Inv, OpsAreTrue, OpIsTrue, HasTurn, discord
  <2>. QED BY <1>2, <2>1 DEF Inv, SessionsAreOwn, TurnsAreOwn, PostsAreNumbered, discord
<1>6. HelpersFollowOps'
  BY <1>1, <1>2, HelpersStay DEF Inv, discord
<1>. QED BY <1>3, <1>4, <1>5, <1>6 DEF Inv

\* A process that has the lock, and no helper, advances its operation.
LEMMA AdvancingKeeps ==
  ASSUME Inv, NEW d \in Dispatchers, NEW to \in OpStates \ {"none"}, NEW p \in Working,
         lock = d, dispatch[d].pc # "helping",
         Advance(d, to), dispatch' = [dispatch EXCEPT ![d].pc = p],
         UNCHANGED <<files, turns, lock, helper, discord, kills>>,
         op[dispatch[d].msg].state \in Bound => to \in Bound,
         op[dispatch[d].msg].state \notin Unsent => to \notin Unsent,
         to \in InTranscript => HasTurn(op[dispatch[d].msg].session, dispatch[d].msg),
         dispatch[d].msg \in TopLevel =>
           /\ to \in HasFile => files[op[dispatch[d].msg].session] = dispatch[d].msg
           /\ to \in Bound => dispatch[d].msg \in exists,
         dispatch[d].msg \notin TopLevel => to \in {"prepared"} \cup InTranscript,
         p = "run" \/ /\ p = "create" /\ dispatch[d].msg \in TopLevel
                      /\ to = "thread_create_attempted"
  PROVE  Inv'
<1>. DEFINE m == dispatch[d].msg
<1>1. /\ m \in Messages /\ op[m].state # "none"
      /\ m \in TopLevel \/ Registered(ThreadOf[m])
  BY DEF Inv, LockIsHeld, ProcessesFollowOps, ProcessFollows, Working
<1>2. Advances(m, to) /\ Moves(d, p)
  BY <1>1, Advancing, Moving DEF Inv, Working, DispatchPc
<1>3. /\ \A e \in Dispatchers \ {d} : dispatch'[e] = dispatch[e] /\ dispatch[e].pc \notin Working
      /\ dispatch'[d].pc = p /\ dispatch'[d].msg = m
  BY <1>2 DEF Inv, LockIsHeld, Moves
<1>. HIDE DEF m
<1>4. Typed' /\ LockIsHeld'
  <2>1. Typed'
    BY <1>2 DEF Inv, Typed, FilesTyped, DiscordTyped, discord, Advances, Moves
  <2>2. LockIsHeld'
    BY <1>3 DEF LockIsHeld
  <2>. QED BY <2>1, <2>2
<1>5. OpsAreTrue'
  BY <1>1, <1>2, AdvancingIsTrue DEF Inv, discord, m
<1>6. SessionsAreOwn'
  BY <1>1, <1>2, AdvancingKeepsOwners DEF Inv, m
<1>7. TurnsAreOwn'
  BY <1>2 DEF Inv, Typed, FilesTyped, TurnsAreOwn, Advances
<1>8. \A n \in Messages : op[n].state \notin Unsent => op'[n].state \notin Unsent
  BY <1>2 DEF Advances, m
<1>9. PostsAreNumbered'
  BY <1>8 DEF Inv, Typed, DiscordTyped, PostsAreNumbered, discord, TopLevel
<1>10. ProcessesFollowOps'
  <2>1. ProcessFollows(d)'
    BY <1>1, <1>2, <1>3 DEF ProcessFollows, Advances, Registered, m
  <2>. QED BY <1>3, <2>1, WaitingFollows DEF Inv, ProcessesFollowOps, Registered
<1>11. HelpersFollowOps'
  BY <1>3, <1>8, HelpersStay DEF Inv, discord
<1>. QED BY <1>4, <1>5, <1>6, <1>7, <1>9, <1>10, <1>11 DEF Inv

\* What a process at work knows.
LEMMA WorkingKnows ==
  ASSUME Inv, NEW d \in Dispatchers, dispatch[d].pc \in Working
  PROVE  /\ dispatch[d].msg \in Messages
         /\ ProcessFollows(d) /\ OpIsTrue(dispatch[d].msg)
BY DEF Inv, ProcessesFollowOps, ProcessFollows, OpsAreTrue, Working

LEMMA MarkAttemptedKeeps ==
  ASSUME Inv, NEW d \in Dispatchers, MarkAttempted(d)
  PROVE  Inv'
BY AdvancingKeeps
DEF MarkAttempted, Holds, StateOf, private, OpStates, Working, Bound, Unsent, InTranscript, HasFile

LEMMA MarkConversationReadyKeeps ==
  ASSUME Inv, NEW d \in Dispatchers, MarkConversationReady(d)
  PROVE  Inv'
<1>1. /\ dispatch[d].msg \in TopLevel /\ op[dispatch[d].msg].state = "thread_confirmed"
      /\ files[op[dispatch[d].msg].session] = dispatch[d].msg /\ dispatch[d].msg \in exists
  BY WorkingKnows
  DEF MarkConversationReady, Holds, ProcessFollows, OpIsTrue, Working, Bound, TopLevel
<1>. QED BY <1>1, AdvancingKeeps
     DEF MarkConversationReady, Holds, Resume, private, OpStates, Working, Bound, Unsent,
         InTranscript

LEMMA MarkTurnAppendedKeeps ==
  ASSUME Inv, NEW d \in Dispatchers, MarkTurnAppended(d)
  PROVE  Inv'
<1>1. /\ HasTurn(op[dispatch[d].msg].session, dispatch[d].msg)
      /\ dispatch[d].msg \in TopLevel =>
           /\ files[op[dispatch[d].msg].session] = dispatch[d].msg
           /\ dispatch[d].msg \in exists
  BY WorkingKnows
  DEF MarkTurnAppended, Holds, ProcessFollows, OpIsTrue, TurnIsDue, StateOf, Working, Bound,
      HasFile
<1>. QED BY <1>1, AdvancingKeeps
     DEF MarkTurnAppended, Holds, Resume, private, OpStates, Working, Bound, Unsent,
         InTranscript

LEMMA CompleteKeeps ==
  ASSUME Inv, NEW d \in Dispatchers, Complete(d)
  PROVE  Inv'
<1>1. /\ op[dispatch[d].msg].state = "turn_appended"
      /\ HasTurn(op[dispatch[d].msg].session, dispatch[d].msg)
      /\ dispatch[d].msg \in TopLevel =>
           /\ files[op[dispatch[d].msg].session] = dispatch[d].msg
           /\ dispatch[d].msg \in exists
  BY WorkingKnows DEF Complete, Holds, OpIsTrue, StateOf, Working, Bound, HasFile, InTranscript
<1>. QED BY <1>1, AdvancingKeeps
     DEF Complete, Holds, Resume, private, OpStates, Working, Bound, Unsent, InTranscript

LEMMA EndingKeeps ==
  ASSUME Inv, NEW d \in Dispatchers, Ends(d),
         UNCHANGED <<op, files, turns, discord>>, kills' \in Nat,
         helper' \in [Helpers -> HelperRecord],
         \A h \in Helpers :
           IF helper[h].owner = d THEN helper'[h] = [helper[h] EXCEPT !.owner = None]
                                  ELSE helper'[h] = helper[h]
  PROVE  Inv'
<1>1. Typed' /\ LockIsHeld'
  <2>1. Typed'
    BY DEF Inv, Typed, FilesTyped, DiscordTyped, discord, Ends
  <2>2. LockIsHeld'
    BY ConstantsAssumption DEF Inv, LockIsHeld, Ends, NoDispatch, Working
  <2>. QED BY <2>1, <2>2
<1>2. ProcessesFollowOps'
  BY DEF Inv, ProcessesFollowOps, ProcessFollows, HasTurn, TurnIsDue, StateOf, Registered,
     Working, Ends, NoDispatch
<1>3. OpsAreTrue' /\ SessionsAreOwn' /\ TurnsAreOwn' /\ PostsAreNumbered'
  <2>1. OpsAreTrue'
    BY DEF Inv, OpsAreTrue, OpIsTrue, HasTurn, discord
  <2>. QED BY <2>1 DEF Inv, SessionsAreOwn, TurnsAreOwn, PostsAreNumbered, discord
<1>4. HelpersFollowOps'
  <2>1. \A h \in Helpers :
          /\ helper'[h].pc = helper[h].pc /\ helper'[h].msg = helper[h].msg
          /\ helper'[h].id = helper[h].id
          /\ helper'[h].owner = IF helper[h].owner = d THEN None ELSE helper[h].owner
    BY DEF Inv, Typed, HelperRecord
  <2>2. \A h \in Helpers : helper[h].owner \in Dispatchers \cup {None}
    BY DEF Inv, Typed, HelperRecord
  <2>. QED BY <2>1, <2>2 DEF Inv, HelpersFollowOps, Ends, discord
<1>. QED BY <1>1, <1>2, <1>3, <1>4 DEF Inv

LEMMA ReturnKeeps ==
  ASSUME Inv, NEW d \in Dispatchers, Return(d)
  PROVE  Inv'
<1>1. Ends(d) /\ dispatch[d].pc = "run"
      /\ UNCHANGED <<op, files, turns, helper, discord, kills>>
  BY Ending DEF Return, Holds, Inv, private
<1>2. \A h \in Helpers : helper[h].owner # d
  BY <1>1, ConstantsAssumption DEF Inv, HelpersFollowOps
<1>. QED BY <1>1, <1>2, EndingKeeps DEF Inv, Typed

LEMMA KillKeeps ==
  ASSUME Inv, NEW d \in Dispatchers, Kill(d)
  PROVE  Inv'
<1>1. Ends(d) /\ UNCHANGED <<op, files, turns, discord>> /\ kills' \in Nat
  BY Ending DEF Kill, Inv, Typed, private
<1>2. helper' \in [Helpers -> HelperRecord]
  BY DEF Kill, Inv, Typed, HelperRecord
<1>. QED BY <1>1, <1>2, EndingKeeps DEF Kill

LEMMA EnsureConversationKeeps ==
  ASSUME Inv, NEW d \in Dispatchers, EnsureConversation(d)
  PROVE  Inv'
<1>. DEFINE m == dispatch[d].msg
            s == op[m].session
<1>1. m \in TopLevel /\ m \in Messages /\ op[m].state = "thread_confirmed" /\ s \in Sessions
  <2>1. m \in Messages /\ OpIsTrue(m) /\ op[m] \in OpRecord /\ op[m].state = "thread_confirmed"
    BY DEF EnsureConversation, Inv, Typed, LockIsHeld, ProcessesFollowOps, ProcessFollows,
       OpsAreTrue, Holds, StateOf, Working
  <2>. QED BY <2>1 DEF OpIsTrue, OpRecord, InTranscript
<1>2. files[s] \in {None, m}
  BY <1>1, ConstantsAssumption DEF Inv, Typed, FilesTyped, SessionsAreOwn, TopLevel
<1>3. files' = [files EXCEPT ![s] = m] /\ Moves(d, "ensured")
  BY Moving DEF EnsureConversation, Inv, DispatchPc
<1>4. UNCHANGED <<op, turns, lock, helper, discord, kills>>
  BY DEF EnsureConversation
<1>5. files' \in [Sessions -> TopLevel \cup {None}] /\ files'[s] = m
  BY <1>1, <1>3 DEF Inv, Typed, FilesTyped
<1>6. \A r \in Sessions : files'[r] # files[r] => r = s /\ files[s] = None
  BY <1>1, <1>2, <1>3 DEF Inv, Typed, FilesTyped
<1>. HIDE DEF m, s
<1>7. Typed'
  BY <1>3, <1>4, <1>5 DEF Inv, Typed, FilesTyped, DiscordTyped, discord, Moves
<1>8. LockIsHeld'
  BY <1>3, <1>4 DEF EnsureConversation, Holds, Inv, LockIsHeld, Moves, Working
<1>9. ProcessesFollowOps'
  <2>1. \A t \in Messages : Registered(t) => Registered(t)'
    BY <1>6, ConstantsAssumption DEF Registered, TopLevel
  <2>2. \A e \in Dispatchers \ {d} : dispatch'[e] = dispatch[e] /\ dispatch[e].pc \notin Working
    BY <1>3 DEF EnsureConversation, Holds, Inv, LockIsHeld, Moves, Working
  <2>3. dispatch'[d].pc = "ensured" /\ dispatch'[d].msg = m
    BY <1>3 DEF Moves, m
  <2>4. ProcessFollows(d)'
    BY <1>1, <1>4, <1>5, <2>3 DEF ProcessFollows, s
  <2>. QED BY <2>1, <2>2, <2>4, WaitingFollows DEF Inv, ProcessesFollowOps
<1>10. OpsAreTrue'
  <2>. SUFFICES ASSUME NEW n \in Messages PROVE OpIsTrue(n)'
    BY DEF OpsAreTrue
  <2>1. OpIsTrue(n) /\ HasTurn(op[n].session, n)' = HasTurn(op[n].session, n)
    BY <1>4 DEF Inv, OpsAreTrue, HasTurn
  <2>2. ThreadOf[n] # None /\ n # None
    BY ConstantsAssumption DEF TopLevel
  <2>3. op[n].session \in Sessions \cup {None}
    BY DEF Inv, Typed, OpRecord
  <2>4. \A t : t # None /\ files[op[n].session] = t /\ op[n].session # None
               => files'[op[n].session] = t
    BY <1>6, <2>3
  <2>. QED BY <1>4, <2>1, <2>2, <2>4 DEF OpIsTrue, HasFile, InTranscript, Bound, discord
<1>11. SessionsAreOwn'
  BY <1>1, <1>4, <1>5, <1>6 DEF Inv, SessionsAreOwn, s, Bound
<1>12. TurnsAreOwn' /\ PostsAreNumbered'
  BY <1>4 DEF Inv, TurnsAreOwn, PostsAreNumbered, discord
<1>13. HelpersFollowOps'
  BY <1>3, <1>4, HelpersStay DEF EnsureConversation, Holds, Inv, discord, Moves
<1>. QED BY <1>7, <1>8, <1>9, <1>10, <1>11, <1>12, <1>13 DEF Inv

LEMMA AppendTurnKeeps ==
  ASSUME Inv, NEW d \in Dispatchers, AppendTurn(d)
  PROVE  Inv'
<1>. DEFINE m == dispatch[d].msg
            s == op[m].session
<1>1. m \in Messages /\ s \in Sessions /\ op[m].state # "none" /\ TurnIsDue(d)
  <2>1. m \in Messages /\ OpIsTrue(m) /\ op[m] \in OpRecord /\ op[m].state # "none"
    BY DEF AppendTurn, Inv, Typed, LockIsHeld, ProcessesFollowOps, ProcessFollows,
       OpsAreTrue, Holds, Working
  <2>. QED BY <2>1 DEF OpIsTrue, OpRecord, AppendTurn
<1>2. Appends(m, s) /\ Moves(d, "appended")
  BY <1>1, Appending, Moving DEF AppendTurn, Inv, DispatchPc
<1>3. UNCHANGED <<op, files, lock, helper, discord, kills>>
  BY DEF AppendTurn
<1>4. HasTurn(s, m)' /\ \A r \in Sessions, n \in Messages : HasTurn(r, n) => HasTurn(r, n)'
  <2>. HIDE DEF m, s
  <2>1. /\ \E i \in DOMAIN turns'[s] : turns'[s][i] = m
        /\ \A r \in Sessions, n \in Messages : HasTurn(r, n) =>
             \E i \in DOMAIN turns'[r] : turns'[r][i] = n
    BY <1>1, <1>2 DEF Appends, HasTurn
  <2>2. m' = m /\ s' = s
    BY <1>2, <1>3 DEF Moves, m, s
  <2>. QED BY <2>1, <2>2 DEF HasTurn
<1>. HIDE DEF m, s
<1>5. Typed'
  BY <1>2, <1>3 DEF Inv, Typed, FilesTyped, DiscordTyped, discord, Moves, Appends
<1>6. LockIsHeld'
  BY <1>2, <1>3 DEF AppendTurn, Holds, Inv, LockIsHeld, Moves, Working
<1>7. ProcessesFollowOps'
  <2>1. \A e \in Dispatchers \ {d} : dispatch'[e] = dispatch[e] /\ dispatch[e].pc \notin Working
    BY <1>2 DEF AppendTurn, Holds, Inv, LockIsHeld, Moves, Working
  <2>2. dispatch'[d].pc = "appended" /\ dispatch'[d].msg = m
    BY <1>2 DEF Moves, m
  <2>3. m \in TopLevel \/ Registered(ThreadOf[m])
    BY DEF AppendTurn, Holds, Inv, ProcessesFollowOps, ProcessFollows, m
  <2>4. HasTurn(op[m].session, m)'
    BY <1>1, <1>2, <1>3, <2>2 DEF Appends, HasTurn, Moves, m, s
  <2>5. TurnIsDue(d)'
    BY <1>1, <1>3, <2>2 DEF TurnIsDue, StateOf, m
  <2>6. ProcessFollows(d)'
    BY <1>1, <1>3, <2>2, <2>3, <2>4, <2>5 DEF ProcessFollows, Registered, m
  <2>. QED BY <1>3, <2>1, <2>6, WaitingFollows DEF Inv, ProcessesFollowOps, Registered
<1>8. OpsAreTrue'
  <2>. SUFFICES ASSUME NEW n \in Messages PROVE OpIsTrue(n)'
    BY DEF OpsAreTrue
  <2>1. OpIsTrue(n) /\ op[n].session \in Sessions \cup {None}
    BY DEF Inv, Typed, OpRecord, OpsAreTrue
  <2>2. op[n].session # None /\ HasTurn(op[n].session, n) => HasTurn(op[n].session, n)'
    <3>1. op'[n].session = op[n].session
      BY <1>3
    <3>. QED BY <1>2, <2>1, <3>1 DEF HasTurn, Appends
  <2>. QED BY <1>3, <2>1, <2>2 DEF OpIsTrue, InTranscript, discord
<1>9. SessionsAreOwn' /\ PostsAreNumbered'
  BY <1>3 DEF Inv, SessionsAreOwn, PostsAreNumbered, discord
<1>10. TurnsAreOwn'
  <2>. SUFFICES ASSUME NEW r \in Sessions
       PROVE  /\ \A i \in DOMAIN turns'[r] : op[turns'[r][i]].session = r
              /\ \A i, j \in DOMAIN turns'[r] : turns'[r][i] = turns'[r][j] => i = j
    BY <1>3 DEF TurnsAreOwn
  <2>1. \A i \in DOMAIN turns'[r] \ DOMAIN turns[r] :
          r = s /\ turns'[r][i] = m /\ i = Len(turns[s]) + 1
          /\ \A j \in DOMAIN turns[s] : turns[s][j] # m
    BY <1>2 DEF Appends, HasTurn
  <2>2. \A i \in DOMAIN turns[r] : turns'[r][i] = turns[r][i]
    BY <1>2 DEF Appends
  <2>3. /\ \A i \in DOMAIN turns[r] : op[turns[r][i]].session = r
        /\ \A i, j \in DOMAIN turns[r] : turns[r][i] = turns[r][j] => i = j
    BY DEF Inv, TurnsAreOwn
  <2>. QED BY <2>1, <2>2, <2>3 DEF s
<1>11. HelpersFollowOps'
  BY <1>2, <1>3, HelpersStay DEF AppendTurn, Holds, Inv, discord, Moves
<1>. QED BY <1>5, <1>6, <1>7, <1>8, <1>9, <1>10, <1>11 DEF Inv

LEMMA AcquireKeeps ==
  ASSUME Inv, NEW d \in Dispatchers, Acquire(d)
  PROVE  Inv'
<1>. DEFINE m == dispatch[d].msg
<1>1. /\ m \in Messages /\ Moves(d, "run") /\ lock = None /\ lock' = d
      /\ m \in TopLevel \/ Registered(ThreadOf[m])
      /\ dispatch[d].pc = "blocked"
  BY Moving DEF Acquire, Resume, Inv, DispatchPc, ProcessesFollowOps, ProcessFollows
<1>2. UNCHANGED <<files, turns, helper, discord, kills>>
  BY DEF Acquire, private
<1>3. /\ \A e \in Dispatchers \ {d} : dispatch'[e] = dispatch[e] /\ dispatch[e].pc \notin Working
      /\ dispatch'[d].pc = "run" /\ dispatch'[d].msg = m
  BY <1>1, ConstantsAssumption DEF Inv, LockIsHeld, Moves
<1>4. LockIsHeld'
  BY <1>1, <1>3 DEF LockIsHeld, Working
<1>5. CASE op[m].state # "none"
  <2>1. op' = op
    BY <1>5 DEF Acquire
  <2>2. Typed' /\ OpsAreTrue' /\ SessionsAreOwn' /\ TurnsAreOwn' /\ PostsAreNumbered'
    <3>1. Typed'
      BY <1>1, <1>2, <2>1 DEF Inv, Typed, FilesTyped, DiscordTyped, discord, Moves
    <3>2. OpsAreTrue'
      BY <1>2, <2>1 DEF Inv, OpsAreTrue, OpIsTrue, HasTurn, discord
    <3>. QED
      BY <1>2, <2>1, <3>1, <3>2 DEF Inv, SessionsAreOwn, TurnsAreOwn, PostsAreNumbered, discord
  <2>3. ProcessFollows(d)'
    BY <1>1, <1>2, <1>3, <1>5, <2>1 DEF ProcessFollows, Registered
  <2>4. ProcessesFollowOps'
    BY <1>2, <1>3, <2>3, WaitingFollows DEF Inv, ProcessesFollowOps, Registered
  <2>5. HelpersFollowOps'
    BY <1>1, <1>2, <1>3, <2>1, HelpersStay DEF Inv, discord
  <2>. QED BY <1>4, <2>2, <2>4, <2>5 DEF Inv
<1>6. CASE op[m].state = "none"
  <2>1. PICK s \in Sessions :
          /\ IF m \in TopLevel THEN Fresh(s) ELSE s = SessionOf(ThreadOf[m])
          /\ op' = [op EXCEPT ![m] = [state |-> "prepared", session |-> s]]
    BY <1>6 DEF Acquire
  <2>2. /\ op' \in [Messages -> OpRecord]
        /\ op'[m].state = "prepared" /\ op'[m].session = s
        /\ \A n \in Messages \ {m} : op'[n] = op[n]
    BY <1>1, <2>1 DEF Inv, Typed, OpRecord, OpStates
  <2>3. /\ s # None /\ op[m].session = None
        /\ m \notin TopLevel => files[s] = ThreadOf[m]
        /\ m \in TopLevel => \A n \in Messages : op[n].session # s
    BY <1>1, <1>6, <2>1, ConstantsAssumption
    DEF Inv, OpsAreTrue, OpIsTrue, Fresh, SessionOf, Registered
  <2>4. Typed'
    BY <1>1, <1>2, <2>2 DEF Inv, Typed, FilesTyped, DiscordTyped, discord, Moves
  <2>5. OpsAreTrue'
    <3>. SUFFICES ASSUME NEW n \in Messages PROVE OpIsTrue(n)'
      BY DEF OpsAreTrue
    <3>1. CASE n = m
      BY <1>2, <2>2, <2>3, <3>1 DEF OpIsTrue, InTranscript, HasFile, Bound
    <3>2. CASE n # m
      BY <1>2, <2>2, <3>2 DEF Inv, OpsAreTrue, OpIsTrue, HasTurn, discord
    <3>. QED BY <3>1, <3>2
  <2>6. SessionsAreOwn'
    <3>1. \A t \in Sessions : files[t] # None => files[t] \in TopLevel /\ files[t] # m
      BY <1>6 DEF Inv, Typed, FilesTyped, SessionsAreOwn, Bound
    <3>2. \A n \in TopLevel : n \in Messages
      BY DEF TopLevel
    <3>. QED BY <1>1, <1>2, <2>2, <2>3, <3>1, <3>2 DEF Inv, SessionsAreOwn
  <2>7. TurnsAreOwn'
    <3>1. \A t \in Sessions : \A i \in DOMAIN turns[t] :
            turns[t][i] \in Messages \ {m}
      BY <2>3, ConstantsAssumption DEF Inv, Typed, FilesTyped, TurnsAreOwn
    <3>. QED BY <1>2, <2>2, <3>1 DEF Inv, TurnsAreOwn
  <2>8. \A n \in Messages : op[n].state \notin Unsent => op'[n].state \notin Unsent
    BY <1>6, <2>2 DEF Unsent
  <2>9. PostsAreNumbered'
    BY <1>2, <2>8 DEF Inv, Typed, DiscordTyped, PostsAreNumbered, discord, TopLevel
  <2>10. ProcessFollows(d)'
    BY <1>1, <1>2, <1>3, <2>2 DEF ProcessFollows, Registered, Working
  <2>11. ProcessesFollowOps'
    BY <1>2, <1>3, <2>10, WaitingFollows DEF Inv, ProcessesFollowOps, Registered
  <2>12. HelpersFollowOps'
    BY <1>1, <1>2, <1>3, <2>8, HelpersStay DEF Inv, discord
  <2>. QED BY <1>4, <2>4, <2>5, <2>6, <2>7, <2>9, <2>11, <2>12 DEF Inv
<1>. QED BY <1>5, <1>6

LEMMA LaunchKeeps ==
  ASSUME Inv, NEW d \in Dispatchers, NEW h \in Helpers, Launch(d, h)
  PROVE  Inv'
<1>. DEFINE m == dispatch[d].msg
<1>1. /\ Moves(d, "helping") /\ lock = d
      /\ dispatch[d].pc \in {"run", "create"} /\ helper[h].pc = "idle"
      /\ op[m].state \in {"thread_create_attempted", "thread_absence_confirmed"}
  BY Moving DEF Launch, Holds, StateOf, Inv, DispatchPc
<1>2. UNCHANGED <<op, files, turns, lock, discord, kills>>
  BY DEF Launch, private
<1>3. m \in TopLevel /\ m \in Messages
  BY <1>1 DEF Inv, ProcessesFollowOps, ProcessFollows, OpsAreTrue, OpIsTrue, Working,
     InTranscript
<1>4. PICK k \in HelperKind :
        helper' = [helper EXCEPT ![h] =
                     [pc |-> "look", msg |-> m, owner |-> d, id |-> 0, kind |-> k]]
  BY DEF Launch, HelperKind
<1>5. Becomes(h, [pc |-> "look", msg |-> m, owner |-> d, id |-> 0, kind |-> k])
  BY <1>3, <1>4 DEF Inv, Typed, HelperRecord, HelperPc, Becomes
<1>6. \A e \in Dispatchers \ {d} : dispatch'[e] = dispatch[e] /\ dispatch[e].pc \notin Working
  BY <1>1 DEF Inv, LockIsHeld, Moves
<1>7. dispatch'[d].pc = "helping" /\ dispatch'[d].msg = m
  BY <1>1 DEF Moves
<1>. HIDE DEF m
<1>8. Typed' /\ OpsAreTrue' /\ LockIsHeld'
  <2>1. Typed'
    BY <1>1, <1>2, <1>5 DEF Inv, Typed, FilesTyped, DiscordTyped, discord, Moves, Becomes
  <2>2. OpsAreTrue'
    BY <1>2 DEF Inv, OpsAreTrue, OpIsTrue, HasTurn, discord
  <2>3. LockIsHeld'
    BY <1>1, <1>2, <1>6, <1>7 DEF Inv, LockIsHeld, Working
  <2>. QED BY <2>1, <2>2, <2>3
<1>9. SessionsAreOwn' /\ TurnsAreOwn' /\ PostsAreNumbered'
  BY <1>2 DEF Inv, SessionsAreOwn, TurnsAreOwn, PostsAreNumbered, discord
<1>10. ProcessesFollowOps'
  <2>1. ProcessFollows(d)'
    BY <1>1, <1>2, <1>3, <1>7 DEF ProcessFollows, m
  <2>. QED BY <1>2, <1>6, <2>1, WaitingFollows DEF Inv, ProcessesFollowOps, Registered
<1>11. HelpersFollowOps'
  <2>1. \A g \in Helpers \ {h} : helper[g].owner # d
    BY <1>1, ConstantsAssumption DEF Inv, HelpersFollowOps
  <2>2. \A g \in Helpers \ {h} : helper[g].owner \in Dispatchers \cup {None}
    BY DEF Inv, Typed, HelperRecord
  <2>. QED BY <1>1, <1>2, <1>3, <1>5, <1>6, <1>7, <2>1, <2>2, ConstantsAssumption
       DEF Inv, HelpersFollowOps, Becomes, discord, Unsent
<1>. QED BY <1>8, <1>9, <1>10, <1>11 DEF Inv

LEMMA CollectKeeps ==
  ASSUME Inv, NEW d \in Dispatchers, NEW h \in Helpers, Collect(d, h)
  PROVE  Inv'
<1>. DEFINE m == dispatch[d].msg
<1>1. /\ dispatch[d].pc = "helping" /\ lock = d /\ helper[h].owner = d
      /\ Becomes(h, NoHelper) /\ helper[h].msg = m
  BY HelperDone, ConstantsAssumption DEF Collect, Holds, Inv, HelpersFollowOps
<1>2. UNCHANGED <<files, turns, discord, kills>>
  BY DEF Collect, private
<1>3. /\ m \in TopLevel /\ m \in Messages
      /\ op[m].state \in {"thread_create_attempted", "thread_absence_confirmed"}
  BY <1>1 DEF Inv, ProcessesFollowOps, ProcessFollows
<1>4. /\ \A e \in Dispatchers \ {d} : dispatch[e].pc \notin Working
      /\ \A g \in Helpers \ {h} : helper[g].owner \in (Dispatchers \ {d}) \cup {None}
  <2>1. \A e \in Dispatchers \ {d} : dispatch[e].pc \notin Working
    BY <1>1 DEF Inv, LockIsHeld
  <2>. QED BY <1>1, <2>1, ConstantsAssumption DEF Inv, Typed, HelperRecord, HelpersFollowOps
<1>5. CASE helper[h].pc = "failed"
  <2>1. Ends(d) /\ op' = op /\ lock' = None
    BY <1>1, <1>5, Ending DEF Collect, Inv, Ends
  <2>2. Typed' /\ LockIsHeld'
    <3>1. Typed'
      BY <1>1, <1>2, <2>1 DEF Inv, Typed, FilesTyped, DiscordTyped, discord, Ends, Becomes
    <3>2. LockIsHeld'
      BY <1>4, <2>1, ConstantsAssumption DEF LockIsHeld, Working, Ends, NoDispatch
    <3>. QED BY <3>1, <3>2
  <2>3. OpsAreTrue' /\ SessionsAreOwn' /\ TurnsAreOwn' /\ PostsAreNumbered'
    <3>1. OpsAreTrue'
      BY <1>2, <2>1 DEF Inv, OpsAreTrue, OpIsTrue, HasTurn, discord
    <3>. QED BY <1>2, <2>1, <3>1 DEF Inv, SessionsAreOwn, TurnsAreOwn, PostsAreNumbered, discord
  <2>4. ProcessesFollowOps'
    <3>1. ProcessFollows(d)'
      BY <2>1 DEF Ends, NoDispatch, ProcessFollows, Working
    <3>. QED BY <1>2, <1>4, <2>1, <3>1, WaitingFollows
         DEF Inv, ProcessesFollowOps, Registered, Ends
  <2>5. HelpersFollowOps'
    BY <1>1, <1>2, <1>4, <2>1, ConstantsAssumption
    DEF Inv, HelpersFollowOps, Becomes, Ends, NoHelper, discord
  <2>. QED BY <2>2, <2>3, <2>4, <2>5 DEF Inv
<1>6. CASE helper[h].pc \in {"absent", "got"}
  <2>1. PICK to \in {"thread_absence_confirmed", "thread_confirmed"} :
          /\ Advance(d, to)
          /\ to = "thread_confirmed" => helper[h].pc = "got"
    BY <1>6 DEF Collect
  <2>2. Advances(m, to) /\ Moves(d, "run") /\ lock' = lock
    BY <1>3, <1>6, <2>1, Advancing, Moving DEF Collect, Resume, Inv, OpStates, DispatchPc
  <2>3. to = "thread_confirmed" => m \in exists
    BY <1>1, <2>1 DEF Inv, HelpersFollowOps
  <2>4. dispatch'[d].pc = "run" /\ dispatch'[d].msg = m
    BY <2>2 DEF Moves
  <2>. HIDE DEF m
  <2>5. Typed' /\ LockIsHeld'
    <3>1. Typed'
      BY <1>1, <1>2, <2>2 DEF Inv, Typed, FilesTyped, DiscordTyped, discord, Moves, Becomes,
         Advances
    <3>2. LockIsHeld'
      BY <1>1, <1>4, <2>2, <2>4 DEF LockIsHeld, Working, Moves
    <3>. QED BY <3>1, <3>2
  <2>6. OpsAreTrue'
    BY <1>2, <1>3, <2>2, <2>3, AdvancingIsTrue
    DEF Inv, InTranscript, HasFile, Bound, discord
  <2>7. SessionsAreOwn'
    BY <1>2, <1>3, <2>2, AdvancingKeepsOwners DEF Inv, Bound
  <2>8. TurnsAreOwn'
    BY <1>2, <2>2 DEF Inv, Typed, FilesTyped, TurnsAreOwn, Advances
  <2>9. \A n \in Messages : op[n].state \notin Unsent => op'[n].state \notin Unsent
    BY <2>2 DEF Advances, Unsent
  <2>10. PostsAreNumbered'
    BY <1>2, <2>9 DEF Inv, Typed, DiscordTyped, PostsAreNumbered, discord, TopLevel
  <2>11. ProcessesFollowOps'
    <3>1. ProcessFollows(d)'
      BY <1>3, <2>2, <2>4 DEF ProcessFollows, Advances, Working
    <3>. QED BY <1>2, <1>4, <2>2, <3>1, WaitingFollows
         DEF Inv, ProcessesFollowOps, Registered, Moves
  <2>12. HelpersFollowOps'
    BY <1>1, <1>2, <1>4, <2>2, <2>9, ConstantsAssumption
    DEF Inv, HelpersFollowOps, Becomes, Moves, NoHelper, discord, TopLevel
  <2>. QED BY <2>5, <2>6, <2>7, <2>8, <2>10, <2>11, <2>12 DEF Inv
<1>. QED BY <1>5, <1>6 DEF Collect

\* A step of a helper leaves the operations and their processes alone.
LEMMA OpsStay ==
  ASSUME Inv, UNCHANGED <<op, files, turns, dispatch, lock>>,
         \A m \in TopLevel : m \in exists => m \in exists'
  PROVE  LockIsHeld' /\ ProcessesFollowOps' /\ OpsAreTrue' /\ SessionsAreOwn' /\ TurnsAreOwn'
<1>1. LockIsHeld' /\ SessionsAreOwn' /\ TurnsAreOwn'
  BY DEF Inv, LockIsHeld, SessionsAreOwn, TurnsAreOwn
<1>2. ProcessesFollowOps'
  BY DEF Inv, ProcessesFollowOps, ProcessFollows, HasTurn, Registered, TurnIsDue, StateOf
<1>3. OpsAreTrue'
  BY DEF Inv, OpsAreTrue, OpIsTrue, HasTurn
<1>. QED BY <1>1, <1>2, <1>3

\* A helper that goes on, and finds a thread only if there is one.
LEMMA GoingKeeps ==
  ASSUME Inv, NEW h \in Helpers, NEW p \in HelperPc, HelperGo(h, p),
         UNCHANGED <<op, files, turns, dispatch, lock, wire, posted, exists, visible, kills>>,
         helper[h].pc # "idle", p \notin {"idle", "posting"},
         p = "got" => helper[h].msg \in exists
  PROVE  Inv'
<1>1. Becomes(h, At(h, p))
  BY HelperGoing DEF Inv
<1>2. /\ helper'[h].pc = p /\ helper'[h].msg = helper[h].msg
      /\ helper'[h].owner = helper[h].owner
  BY <1>1 DEF Becomes, At, Inv, Typed, HelperRecord
<1>3. Typed'
  BY <1>1 DEF Inv, Typed, FilesTyped, DiscordTyped, Becomes
<1>4. PostsAreNumbered'
  BY DEF Inv, PostsAreNumbered
<1>5. HelpersFollowOps'
  BY <1>1, <1>2 DEF Inv, HelpersFollowOps, Becomes
<1>. QED BY <1>3, <1>4, <1>5, OpsStay DEF Inv

LEMMA LookKeeps ==
  ASSUME Inv, NEW h \in Helpers, Look(h)
  PROVE  Inv'
BY GoingKeeps DEF Look, Inv, Typed, DiscordTyped, HelperPc, private, discord

LEMMA ProbeKeeps ==
  ASSUME Inv, NEW h \in Helpers, Probe(h)
  PROVE  Inv'
BY GoingKeeps DEF Probe, Inv, Typed, DiscordTyped, HelperPc, private, discord

LEMMA RecheckKeeps ==
  ASSUME Inv, NEW h \in Helpers, Recheck(h)
  PROVE  Inv'
BY GoingKeeps DEF Recheck, Inv, Typed, DiscordTyped, HelperPc, private, discord

LEMMA PostTimesOutKeeps ==
  ASSUME Inv, NEW h \in Helpers, PostTimesOut(h)
  PROVE  Inv'
BY GoingKeeps DEF PostTimesOut, HelperPc, private, discord

LEMMA HelperFailsKeeps ==
  ASSUME Inv, NEW h \in Helpers, HelperFails(h)
  PROVE  Inv'
BY GoingKeeps DEF HelperFails, HelperPc, private, discord

LEMMA HelperEndsKeeps ==
  ASSUME Inv, NEW h \in Helpers, HelperEnds(h)
  PROVE  Inv'
<1>1. Becomes(h, NoHelper) /\ UNCHANGED <<op, files, turns, dispatch, lock, discord, kills>>
  BY HelperDone DEF HelperEnds, Inv, private
<1>2. Typed'
  BY <1>1 DEF Inv, Typed, FilesTyped, DiscordTyped, Becomes, discord
<1>3. PostsAreNumbered' /\ HelpersFollowOps'
  BY <1>1 DEF Inv, PostsAreNumbered, HelpersFollowOps, Becomes, NoHelper, discord
<1>. QED BY <1>1, <1>2, <1>3, OpsStay DEF Inv, discord

LEMMA PostKeeps ==
  ASSUME Inv, NEW h \in Helpers, Post(h)
  PROVE  Inv'
<1>. DEFINE q == [id |-> Cardinality(posted) + 1, msg |-> helper[h].msg]
<1>1. /\ posted' = posted \cup {q} /\ wire' = wire \cup {q} /\ helper[h].pc = "post"
      /\ UNCHANGED <<op, files, turns, dispatch, lock, exists, visible, kills>>
  BY DEF Post, private
<1>2. IsFiniteSet(posted) /\ Cardinality(posted) \in Nat
  BY FS_CardinalityType DEF Inv, PostsAreNumbered
<1>3. helper[h].msg \in TopLevel /\ op[helper[h].msg].state \notin Unsent
  BY <1>1 DEF Inv, HelpersFollowOps
<1>4. q \notin posted /\ \A r \in posted : r.id \in Nat /\ r.id < q.id
  BY <1>2 DEF Inv, PostsAreNumbered, Typed, DiscordTyped
<1>5. IsFiniteSet(posted') /\ Cardinality(posted') = Cardinality(posted) + 1
  BY <1>1, <1>2, <1>4, FS_AddElement
<1>6. /\ helper' \in [Helpers -> HelperRecord]
      /\ helper'[h].pc = "posting" /\ helper'[h].id = q.id /\ helper'[h].msg = helper[h].msg
      /\ helper'[h].owner = helper[h].owner
      /\ \A g \in Helpers \ {h} : helper'[g] = helper[g]
  <2>1. helper' = [helper EXCEPT ![h].pc = "posting", ![h].id = q.id] /\ q.id \in Nat
    BY <1>2 DEF Post
  <2>. HIDE DEF q
  <2>. QED BY <2>1 DEF Inv, Typed, HelperRecord, HelperPc
<1>7. q.id = Cardinality(posted) + 1 /\ q.msg = helper[h].msg /\ q \in [id : Nat, msg : TopLevel]
  BY <1>2, <1>3
<1>. HIDE DEF q
<1>8. Typed'
  BY <1>1, <1>6, <1>7 DEF Inv, Typed, FilesTyped, DiscordTyped
<1>9. PostsAreNumbered'
  <2>1. \A r \in posted : r.id <= Cardinality(posted')
    BY <1>2, <1>4, <1>5, <1>7
  <2>2. q.id <= Cardinality(posted') /\ \A r \in posted : r.id # q.id
    BY <1>2, <1>4, <1>5, <1>7
  <2>. QED BY <1>1, <1>3, <1>5, <1>7, <2>1, <2>2 DEF Inv, PostsAreNumbered
<1>10. HelpersFollowOps'
  BY <1>1, <1>3, <1>6, <1>7 DEF Inv, HelpersFollowOps
<1>. QED BY <1>1, <1>8, <1>9, <1>10, OpsStay DEF Inv

LEMMA AcceptKeeps ==
  ASSUME Inv, NEW q \in wire, Accept(q)
  PROVE  Inv'
<1>1. /\ wire' = wire \ {q} /\ exists' = exists \cup {q.msg}
      /\ UNCHANGED <<op, files, turns, dispatch, lock, posted, visible, kills>>
  BY DEF Accept, private
<1>2. q \in posted /\ q.msg \in TopLevel
  BY DEF Inv, Typed, DiscordTyped
<1>3. PICK p \in {"recheck", "got"} :
        helper' = [g \in Helpers |->
          IF helper[g].pc = "posting" /\ helper[g].id = q.id
            THEN [helper[g] EXCEPT !.pc = p] ELSE helper[g]]
  BY DEF Accept, Answer
<1>4. helper' \in [Helpers -> HelperRecord]
  BY <1>3 DEF Inv, Typed, HelperRecord, HelperPc
<1>5. \A g \in Helpers :
        /\ helper'[g].msg = helper[g].msg /\ helper'[g].owner = helper[g].owner
        /\ \/ helper'[g] = helper[g]
           \/ /\ helper[g].pc = "posting" /\ helper'[g].pc = p
              /\ helper[g].id = q.id
  BY <1>3 DEF Inv, Typed, HelperRecord
<1>6. \A g \in Helpers :
        helper[g].pc = "posting" /\ helper[g].id = q.id => helper[g].msg = q.msg
  BY <1>2 DEF Inv, HelpersFollowOps, PostsAreNumbered
<1>7. Typed'
  BY <1>1, <1>2, <1>4 DEF Inv, Typed, FilesTyped, DiscordTyped
<1>8. PostsAreNumbered'
  BY <1>1 DEF Inv, PostsAreNumbered
<1>9. HelpersFollowOps'
  BY <1>1, <1>5, <1>6 DEF Inv, HelpersFollowOps
<1>. QED BY <1>1, <1>7, <1>8, <1>9, OpsStay DEF Inv

LEMMA LoseKeeps ==
  ASSUME Inv, NEW q \in wire, Lose(q)
  PROVE  Inv'
<1>1. /\ wire' = wire \ {q}
      /\ UNCHANGED <<op, files, turns, dispatch, lock, posted, exists, visible, kills>>
  BY DEF Lose, private
<1>2. helper' = [g \in Helpers |->
        IF helper[g].pc = "posting" /\ helper[g].id = q.id
          THEN [helper[g] EXCEPT !.pc = "recheck"] ELSE helper[g]]
  BY DEF Lose, Answer
<1>3. helper' \in [Helpers -> HelperRecord]
  BY <1>2 DEF Inv, Typed, HelperRecord, HelperPc
<1>4. \A g \in Helpers :
        /\ helper'[g].msg = helper[g].msg /\ helper'[g].owner = helper[g].owner
        /\ \/ helper'[g] = helper[g]
           \/ helper[g].pc = "posting" /\ helper'[g].pc = "recheck"
  <2>. TAKE g \in Helpers
  <2>1. CASE helper[g].pc = "posting" /\ helper[g].id = q.id
    BY <1>2, <2>1 DEF Inv, Typed, HelperRecord
  <2>2. CASE ~(helper[g].pc = "posting" /\ helper[g].id = q.id)
    BY <1>2, <2>2
  <2>. QED BY <2>1, <2>2
<1>5. Typed'
  BY <1>1, <1>3 DEF Inv, Typed, FilesTyped, DiscordTyped
<1>6. PostsAreNumbered' /\ HelpersFollowOps'
  BY <1>1, <1>4 DEF Inv, PostsAreNumbered, HelpersFollowOps
<1>. QED BY <1>1, <1>5, <1>6, OpsStay DEF Inv

LEMMA AppearKeeps ==
  ASSUME Inv, NEW m \in TopLevel, Appear(m)
  PROVE  Inv'
<1>1. Typed'
  BY DEF Appear, Inv, Typed, FilesTyped, DiscordTyped, private
<1>2. PostsAreNumbered' /\ HelpersFollowOps'
  BY DEF Appear, Inv, PostsAreNumbered, HelpersFollowOps, private
<1>. QED BY <1>1, <1>2, OpsStay DEF Appear, Inv, private

-----------------------------------------------------------------------------
(* The theorems *)

LEMMA Invariance == Spec => []Inv
<1>1. Init => Inv
  <2>. SUFFICES ASSUME Init PROVE Inv
    OBVIOUS
  <2>1. Typed
    BY DEF Init, Typed, FilesTyped, DiscordTyped, OpRecord, OpStates, DispatchRecord,
       DispatchPc, NoDispatch, HelperRecord, HelperPc, HelperKind, NoHelper
  <2>2. LockIsHeld /\ ProcessesFollowOps
    BY ConstantsAssumption
    DEF Init, LockIsHeld, ProcessesFollowOps, ProcessFollows, NoDispatch, Working
  <2>3. OpsAreTrue /\ SessionsAreOwn /\ TurnsAreOwn
    <3>1. OpsAreTrue
      BY DEF Init, OpsAreTrue, OpIsTrue, InTranscript, HasFile, Bound
    <3>2. SessionsAreOwn /\ TurnsAreOwn
      BY DEF Init, SessionsAreOwn, TurnsAreOwn, TopLevel
    <3>. QED BY <3>1, <3>2
  <2>4. PostsAreNumbered /\ HelpersFollowOps
    BY FS_EmptySet DEF Init, PostsAreNumbered, HelpersFollowOps, NoHelper
  <2>. QED BY <2>1, <2>2, <2>3, <2>4 DEF Inv
<1>2. Inv /\ [Next]_vars => Inv'
  <2>. SUFFICES ASSUME Inv, [Next]_vars PROVE Inv'
    OBVIOUS
  <2>1. CASE \E d \in Dispatchers, m \in Messages : Start(d, m)
    BY <2>1, StartKeeps
  <2>2. CASE \E d \in Dispatchers : DispatchStep(d) \/ Kill(d)
    BY <2>2, AcquireKeeps, MarkAttemptedKeeps, LaunchKeeps, CollectKeeps,
       EnsureConversationKeeps, MarkConversationReadyKeeps, AppendTurnKeeps,
       MarkTurnAppendedKeeps, CompleteKeeps, ReturnKeeps, KillKeeps DEF DispatchStep
  <2>3. CASE \E h \in Helpers : HelperStep(h) \/ PostTimesOut(h) \/ HelperFails(h)
    BY <2>3, LookKeeps, ProbeKeeps, PostKeeps, RecheckKeeps, HelperEndsKeeps,
       PostTimesOutKeeps, HelperFailsKeeps DEF HelperStep
  <2>4. CASE \E q \in wire : Accept(q) \/ Lose(q)
    BY <2>4, AcceptKeeps, LoseKeeps
  <2>5. CASE \E m \in TopLevel : Appear(m)
    BY <2>5, AppearKeeps
  <2>6. CASE UNCHANGED vars
    <3>1. Typed'
      BY <2>6 DEF vars, private, discord, Inv, Typed, FilesTyped, DiscordTyped
    <3>2. PostsAreNumbered' /\ HelpersFollowOps'
      BY <2>6 DEF vars, private, discord, Inv, PostsAreNumbered, HelpersFollowOps
    <3>. QED BY <2>6, <3>1, <3>2, OpsStay DEF vars, private, discord, Inv
  <2>. QED BY <2>1, <2>2, <2>3, <2>4, <2>5, <2>6 DEF Next
<1>. QED BY <1>1, <1>2, PTL DEF Spec

\* The ledger, the processes and Discord are in the states the code gives them.
THEOREM Typing == Spec => []TypeOK
BY Invariance, TypesOK, PTL DEF Inv

\* A message's input turn is appended at most once, whoever is killed when.
THEOREM TurnsDoNotRepeat == Spec => []OneInputTurn
<1>1. Inv => OneInputTurn
  BY DEF Inv, TurnsAreOwn, OneInputTurn
<1>. QED BY <1>1, Invariance, PTL

\* No thread gets a second conversation file.
THEOREM ThreadsHaveOneConversation == Spec => []OneConversationPerThread
<1>1. Inv => OneConversationPerThread
  BY DEF Inv, SessionsAreOwn, OneConversationPerThread
<1>. QED BY <1>1, Invariance, PTL

\* Every creation that was sent is on record, also one of an orphaned helper.
THEOREM CreationsAreRecorded == Spec => []CreationIsRecorded
<1>1. Inv => CreationIsRecorded
  BY DEF Inv, PostsAreNumbered, CreationIsRecorded, Unsent
<1>. QED BY <1>1, Invariance, PTL

\* A completed operation has its thread, its conversation file and its turn.
THEOREM CompletionIsBound == Spec => []CompletedIsBound
<1>1. ASSUME Inv, NEW m \in Messages, op[m].state = "completed"
      PROVE  /\ ThreadOf[m] \in exists
             /\ files[op[m].session] = ThreadOf[m]
             /\ HasTurn(op[m].session, m)
  <2>1. OpIsTrue(m) /\ op[m].session \in Sessions
    BY <1>1 DEF Inv, OpsAreTrue, OpIsTrue, Typed, OpRecord
  <2>2. HasTurn(op[m].session, m) /\ files[op[m].session] = ThreadOf[m]
    BY <1>1, <2>1 DEF OpIsTrue, InTranscript, HasFile, TopLevel
  <2>3. ThreadOf[m] \in TopLevel /\ ThreadOf[m] \in Messages /\ ThreadOf[m] # None
    BY ConstantsAssumption DEF TopLevel
  <2>4. op[ThreadOf[m]].state \in Bound
    BY <1>1, <2>1, <2>2, <2>3 DEF Inv, SessionsAreOwn
  <2>5. ThreadOf[m] \in exists
    BY <1>1, <2>3, <2>4 DEF Inv, OpsAreTrue, OpIsTrue
  <2>. QED BY <2>2, <2>5
<1>2. Inv => CompletedIsBound
  BY <1>1 DEF CompletedIsBound
<1>. QED BY <1>2, Invariance, PTL
=============================================================================
