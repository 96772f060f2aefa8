-------------------------- MODULE CodexAnswerProofs --------------------------
(***************************************************************************)
(* Proofs about how the Codex bridge comes to an answer and shows it:      *)
(* AppServerTurn, for any number of threads, hooks, turns and lines, then  *)
(* CodexDelivery, for any number of chunks, of retries after a rate limit  *)
(* and of POSTs.                                                           *)
(***************************************************************************)
EXTENDS AppServerTurn, CodexDelivery, WellFoundedInduction, TLAPS

-----------------------------------------------------------------------------
(* Types *)

Places == Threads \cup {None}
Texts == Nat \X Nat
Positive == Nat \ {0}

HookLines ==
  [method : {"hook/started", "hook/completed"}, thread : Places,
   turn : Positive, run : Runs, order : Orders,
   status : {"running", "completed", "blocked", "failed"}]
ToolLines ==
  [method : {"item/started"}, thread : Places, turn : Positive,
   tool : {"commandExecution", "fileChange"}]
AnswerLines ==
  [method : {"item/completed"}, thread : Places, turn : Positive,
   text : Texts]
EndLines ==
  [method : {"turn/completed"}, thread : Places, turn : Positive,
   status : {"completed", "interrupted"}]
ErrorLines == [method : {"error"}, thread : Places, turn : Positive]
NewsLines ==
  [method : {"warning", "thread/status/changed"}, thread : Places,
   turn : {NoTurn}]

Message == HookLines \cup ToolLines \cup AnswerLines \cup EndLines
             \cup ErrorLines \cup NewsLines \cup {ReaderStopped}

Jobs == [thread : Places, turn : Nat, answer : Texts \cup {None}]
HookStates == [active : [Runs -> Orders \cup {None}],
               credits : [Orders -> Nat]]
Ledgers ==
  [spare : [Orders -> Int],
   open : [Runs -> Orders \cup {None, "reused", "failed"}],
   thread : Places, lines : Nat, said : Texts \cup {None}, hooked : BOOLEAN,
   ended : {None, "completed", "interrupted"}]
Pasts == [fresh : BOOLEAN, claim : SUBSET Parts, end : SUBSET Parts]

Early == {"create", "created", "ensure", "resumed", "begin"}
Goals == Early \cup {"claim", "take", "deliver", "failing"}

\* A job is being prepared for its turn.
Preparing == pc \in Early \/ (pc = "check" /\ goal \in Early)

\* Its thread has been saved.
Ensuring ==
  \/ pc \in {"ensure", "resumed"}
  \/ (pc = "check" /\ goal \in {"ensure", "resumed"})

SlotTyped ==
  /\ pc \in Steps /\ goal \in Steps \cup {None} /\ todo \in Seq(Parts)
  /\ pc = "check" => goal \in Goals
  /\ job \in Jobs
  /\ Preparing => job.thread \in Threads
  /\ Ensuring => job.thread \in known
  /\ known \subseteq Threads
  /\ loaded \subseteq known
  /\ past \in Pasts

ClientTyped ==
  /\ reader \in {None, "running", "stopped"}
  /\ queue \in Seq(Message)
  /\ buffer \in Seq(Message)
  /\ hooks \in HookStates

ServerTyped ==
  /\ turns \in Nat
  /\ stdin \in Places
  /\ running \in {NoTurn, turns}
  /\ reply \in 0 .. turns
  /\ job.turn \in 0 .. turns
  /\ ledger \in Ledgers
  /\ drifted \subseteq Parts
  /\ warned \in BOOLEAN

TurnTyped == SlotTyped /\ ClientTyped /\ ServerTyped

LEMMA MessageKinds ==
  ASSUME NEW m \in Message
  PROVE  /\ m.method \in {"hook/started", "hook/completed"} =>
              m.run \in Runs /\ m.order \in Orders
         /\ m.method = "item/started" =>
              m.tool \in {"commandExecution", "fileChange"}
         /\ m.method = "item/completed" => m.text \in Texts
         /\ m.method = "turn/completed" =>
              m.status \in {"completed", "interrupted"}
         /\ m.method # "_protocol/error" => m.turn \in Nat /\ m.thread \in Places
         /\ m.method \in {"warning", "thread/status/changed"} =>
              m.turn = NoTurn
         /\ m.method \in {"hook/started", "hook/completed", "item/started",
                          "item/completed", "turn/completed", "error"} =>
              m.turn \in Positive
         /\ m.method \in {"hook/started", "hook/completed", "item/started",
                          "item/completed", "turn/completed", "error",
                          "warning", "thread/status/changed",
                          "_protocol/error"}
         /\ m.method = "_protocol/error" => m = ReaderStopped
<1>1. CASE m \in HookLines
  BY <1>1 DEF HookLines, Positive
<1>2. CASE m \in ToolLines
  BY <1>2 DEF ToolLines, Positive
<1>3. CASE m \in AnswerLines
  BY <1>3 DEF AnswerLines, Positive
<1>4. CASE m \in EndLines
  BY <1>4 DEF EndLines, Positive
<1>5. CASE m \in ErrorLines
  BY <1>5 DEF ErrorLines, Positive
<1>6. CASE m \in NewsLines
  BY <1>6 DEF NewsLines, NoTurn
<1>7. CASE m = ReaderStopped
  BY <1>7 DEF ReaderStopped
<1>8. QED
  BY <1>1, <1>2, <1>3, <1>4, <1>5, <1>6, <1>7 DEF Message

\* What is left of a sequence without one of its elements.
LEMMA RemoveAtLeaves ==
  ASSUME NEW S, NEW q \in Seq(S), NEW i \in DOMAIN q
  PROVE  /\ RemoveAt(q, i) \in Seq(S)
         /\ Len(RemoveAt(q, i)) = Len(q) - 1
         /\ \A j \in DOMAIN RemoveAt(q, i) :
              \E k \in DOMAIN q : RemoveAt(q, i)[j] = q[k]
<1> DEFINE before == SubSeq(q, 1, i - 1)
           after == SubSeq(q, i + 1, Len(q))
<1>1. i \in 1 .. Len(q)
  OBVIOUS
<1>2. /\ before \in Seq(S) /\ Len(before) = i - 1
      /\ \A j \in 1 .. i - 1 : before[j] = q[j]
  BY <1>1
<1>3. /\ after \in Seq(S) /\ Len(after) = Len(q) - i
      /\ \A j \in 1 .. Len(q) - i : after[j] = q[i + j]
  BY <1>1
<1> HIDE DEF before, after
<1>4. /\ before \o after \in Seq(S)
      /\ Len(before \o after) = Len(q) - 1
      /\ \A j \in 1 .. Len(q) - 1 :
           (before \o after)[j] = IF j < i THEN q[j] ELSE q[j + 1]
  BY <1>1, <1>2, <1>3
<1>5. RemoveAt(q, i) = before \o after
  BY DEF RemoveAt, before, after
<1> HIDE DEF before, after
<1>6. ASSUME NEW j \in DOMAIN RemoveAt(q, i)
      PROVE  \E k \in DOMAIN q : RemoveAt(q, i)[j] = q[k]
  <2>1. j \in 1 .. Len(q) - 1
    <3>1. RemoveAt(q, i) \in Seq(S) /\ Len(RemoveAt(q, i)) = Len(q) - 1
      BY <1>4, <1>5
    <3>2. DOMAIN RemoveAt(q, i) = 1 .. Len(q) - 1
      BY <3>1
    <3>3. QED
      BY <1>6, <3>2
  <2>2. CASE j < i
    <3>1. RemoveAt(q, i)[j] = q[j]
      BY <1>4, <1>5, <2>1, <2>2
    <3>2. j \in DOMAIN q
      BY <1>1, <2>1
    <3>3. QED
      BY <3>1, <3>2
  <2>3. CASE ~(j < i)
    <3>1. RemoveAt(q, i)[j] = q[j + 1] /\ j + 1 \in DOMAIN q
      BY <1>1, <1>4, <1>5, <2>1, <2>3
    <3>2. QED
      BY <3>1
  <2>4. QED
    BY <2>2, <2>3
<1>7. QED
  BY <1>4, <1>5, <1>6

-----------------------------------------------------------------------------
(* One notification *)

\* What the client knows of the turn, and what the App Server did in it.
ClientView ==
  [said |-> job.answer, spare |-> hooks.credits, open |-> hooks.active,
   hooked |-> TRUE, ended |-> None]
LedgerView ==
  [said |-> ledger.said, spare |-> ledger.spare, open |-> ledger.open,
   hooked |-> ledger.hooked, ended |-> ledger.ended]

\* What a notification adds to it.
Effect(m, v) ==
  CASE m.method = "hook/started" ->
         [v EXCEPT !.open[m.run] = IF @ = None THEN m.order ELSE "reused"]
    [] m.method = "hook/completed" ->
         [v EXCEPT !.open[m.run] =
                     IF @ = m.order /\ m.status # "failed" THEN None
                     ELSE "failed",
                   !.spare[m.order] =
                     IF m.status = "completed" THEN @ + 1 ELSE @]
    [] m.method = "item/started" ->
         [v EXCEPT !.hooked =
                     @ /\ \A o \in Required(m.tool) : v.spare[o] > 0,
                   !.spare = [o \in Orders |->
                                IF o \in Required(m.tool) THEN @[o] - 1
                                ELSE @[o]]]
    [] m.method = "item/completed" -> [v EXCEPT !.said = m.text]
    [] m.method = "turn/completed" -> [v EXCEPT !.ended = m.status]
    [] OTHER -> v

\* A turn goes on with a notification only if it takes its effect.
LEMMA HandlesOutcome ==
  ASSUME TurnTyped, NEW m \in Message, Handles(m)
  PROVE  \/ Raises
         \/ /\ Returns
            /\ m.method = "turn/completed" /\ m.status = "completed"
            /\ job.answer # None
            /\ \A r \in Runs : hooks.active[r] = None
         \/ /\ Continues
            /\ m.method \notin {"turn/completed", "_protocol/error", "error",
                                "warning"}
            /\ job' = [job EXCEPT !.answer = job'.answer]
            /\ job'.answer \in Texts \cup {None}
            /\ hooks' \in HookStates
            /\ ClientView' = Effect(m, ClientView)
<1>1. /\ job \in Jobs
      /\ hooks \in HookStates
  BY DEF TurnTyped, SlotTyped, ClientTyped
<1>2. CASE m.method = "hook/started"
  <2>1. CASE Raises
    BY <2>1
  <2>2. CASE ~Raises
    <3>1. /\ hooks.active[m.run] = None
          /\ hooks' = [hooks EXCEPT !.active[m.run] = m.order]
          /\ Continues /\ job' = job
      BY <1>2, <2>2 DEF Handles, HookStarts
    <3>2. m.run \in Runs /\ m.order \in Orders
      BY <1>2, MessageKinds
    <3>3. hooks' \in HookStates
      BY <1>1, <3>1, <3>2 DEF HookStates
    <3>4. ClientView' = Effect(m, ClientView)
      BY <1>1, <1>2, <3>1, <3>2 DEF ClientView, Effect, HookStates
    <3>5. /\ job' = [job EXCEPT !.answer = job'.answer]
          /\ job'.answer \in Texts \cup {None}
      BY <1>1, <3>1 DEF Jobs
    <3>6. QED
      BY <1>2, <3>1, <3>3, <3>4, <3>5
  <2>3. QED
    BY <2>1, <2>2
<1>3. CASE m.method = "hook/completed"
  <2>1. CASE Raises
    BY <2>1
  <2>2. CASE ~Raises
    <3>1. /\ m.status \in {"completed", "blocked"}
          /\ hooks.active[m.run] = m.order
          /\ hooks' = [active |-> [hooks.active EXCEPT ![m.run] = None],
                       credits |-> IF m.status = "completed"
                                   THEN [hooks.credits EXCEPT ![m.order] = @ + 1]
                                   ELSE hooks.credits]
          /\ Continues /\ job' = job
      BY <1>3, <2>2 DEF Handles, HookCompletes
    <3>2. m.run \in Runs /\ m.order \in Orders
      BY <1>3, MessageKinds
    <3>3. hooks' \in HookStates
      BY <1>1, <3>1, <3>2 DEF HookStates
    <3>4. ClientView' = Effect(m, ClientView)
      BY <1>1, <1>3, <3>1, <3>2 DEF ClientView, Effect, HookStates
    <3>5. /\ job' = [job EXCEPT !.answer = job'.answer]
          /\ job'.answer \in Texts \cup {None}
      BY <1>1, <3>1 DEF Jobs
    <3>6. QED
      BY <1>3, <3>1, <3>3, <3>4, <3>5
  <2>3. QED
    BY <2>1, <2>2
<1>4. CASE m.method = "item/started"
  <2>1. CASE Raises
    BY <2>1
  <2>2. CASE ~Raises
    <3>1. /\ \A o \in Required(m.tool) : hooks.credits[o] > 0
          /\ hooks' = [hooks EXCEPT !.credits =
               [o \in Orders |-> IF o \in Required(m.tool) THEN @[o] - 1 ELSE @[o]]]
          /\ Continues /\ job' = job
      BY <1>4, <2>2 DEF Handles, ToolStarts
    <3>2. Required(m.tool) \subseteq Orders
      BY BoundsAssumption DEF Required
    <3>3. hooks' \in HookStates
      BY <1>1, <3>1, <3>2 DEF HookStates
    <3>4. ClientView' = Effect(m, ClientView)
      BY <1>1, <1>4, <3>1, <3>2 DEF ClientView, Effect, HookStates
    <3>5. /\ job' = [job EXCEPT !.answer = job'.answer]
          /\ job'.answer \in Texts \cup {None}
      BY <1>1, <3>1 DEF Jobs
    <3>6. QED
      BY <1>4, <3>1, <3>3, <3>4, <3>5
  <2>3. QED
    BY <2>1, <2>2
<1>5. CASE m.method = "item/completed"
  <2>1. job' = [job EXCEPT !.answer = m.text] /\ Continues /\ hooks' = hooks
    BY <1>5 DEF Handles, Answers
  <2>2. m.text \in Texts
    BY <1>5, MessageKinds
  <2>3. job' = [job EXCEPT !.answer = job'.answer] /\ job'.answer = m.text
    BY <1>1, <2>1 DEF Jobs
  <2>4. ClientView' = Effect(m, ClientView)
    BY <1>1, <1>5, <2>1, <2>3 DEF ClientView, Effect
  <2>5. QED
    BY <1>1, <1>5, <2>1, <2>2, <2>3, <2>4
<1>6. CASE m.method = "turn/completed"
  BY <1>6 DEF Handles, Completes
<1>7. CASE m.method \in {"_protocol/error", "error", "warning"}
  BY <1>7 DEF Handles
<1>8. CASE m.method = "thread/status/changed"
  <2>1. Continues /\ job' = job /\ hooks' = hooks
    BY <1>8 DEF Handles
  <2>2. ClientView' = Effect(m, ClientView)
    BY <1>8, <2>1 DEF ClientView, Effect
  <2>3. /\ job' = [job EXCEPT !.answer = job'.answer]
        /\ job'.answer \in Texts \cup {None}
    BY <1>1, <2>1 DEF Jobs
  <2>4. QED
    BY <1>1, <1>8, <2>1, <2>2, <2>3
<1>9. QED
  BY <1>2, <1>3, <1>4, <1>5, <1>6, <1>7, <1>8, MessageKinds


-----------------------------------------------------------------------------
(* Types are kept *)

LEMMA ChecksTyped ==
  /\ StartChecks \in Seq(Parts) /\ LoopChecks \in Seq(Parts)
  /\ CreateChecks \in Seq(Parts) /\ LoadChecks \in Seq(Parts)
  /\ EnterChecks \in Seq(Parts) /\ TurnChecks \in Seq(Parts)
  /\ LeaveChecks \in Seq(Parts) /\ <<>> \in Seq(Parts)
<1>1. {VaultPolicy, Principal, Requirements, ConfigFile, Effective, Model, Profile, Response,
       HookFiles, HookList, SkillFiles, SkillList, NoMCP} \subseteq Parts
  BY DEF Parts
<1>2. HookChecks \in Seq(Parts) /\ SkillChecks \in Seq(Parts)
  BY <1>1 DEF HookChecks, SkillChecks
<1>3. \A s, t \in Seq(Parts) : s \o t \in Seq(Parts)
  OBVIOUS
<1>4. /\ <<ConfigFile, VaultPolicy, HookFiles, Principal, Requirements, Effective, Model,
           Profile>> \in Seq(Parts)
      /\ <<VaultPolicy, HookFiles, Principal>> \in Seq(Parts)
      /\ <<Response, Requirements, Effective>> \in Seq(Parts)
      /\ <<NoMCP, VaultPolicy, HookFiles, Principal>> \in Seq(Parts)
      /\ <<Requirements, Effective>> \in Seq(Parts)
      /\ <<SkillFiles>> \in Seq(Parts) /\ <<VaultPolicy, Principal>> \in Seq(Parts)
  BY <1>1
<1>5. StartChecks \in Seq(Parts)
  BY <1>2, <1>3, <1>4 DEF StartChecks
<1>6. LoadChecks \in Seq(Parts)
  BY <1>2, <1>3, <1>4 DEF LoadChecks
<1>7. TurnChecks \in Seq(Parts) /\ LeaveChecks \in Seq(Parts)
  BY <1>2, <1>3, <1>4 DEF TurnChecks, LeaveChecks
<1>8. /\ LoopChecks \in Seq(Parts) /\ CreateChecks \in Seq(Parts)
      /\ EnterChecks \in Seq(Parts) /\ <<>> \in Seq(Parts)
  BY <1>1 DEF LoopChecks, CreateChecks, EnterChecks
<1>9. QED
  BY <1>5, <1>6, <1>7, <1>8

LEMMA EmptyTyped ==
  /\ NoHooks \in HookStates /\ NoJob \in Jobs /\ NewLedger \in Ledgers
  /\ Unseen \in Pasts /\ <<>> \in Seq(Message)
BY DEF NoHooks, HookStates, NoJob, Jobs, NewLedger, Ledgers, Unseen, Pasts,
   Places, NoTurn

LEMMA LedgersTyped ==
  ASSUME TurnTyped, NEW t \in Places
  PROVE  /\ [NewLedger EXCEPT !.lines = ledger.lines] \in Ledgers
         /\ [NewLedger EXCEPT !.lines = ledger.lines, !.thread = t]
              \in Ledgers
         /\ [NewLedger EXCEPT !.lines = ledger.lines,
                              !.thread = ledger.thread,
                              !.ended = ledger.ended] \in Ledgers
BY EmptyTyped DEF TurnTyped, ServerTyped, Ledgers

LEMMA ClosedTyped ==
  ASSUME Closed
  PROVE  /\ ClientTyped' /\ loaded' = {} /\ turns' = turns
         /\ stdin' \in Places /\ running' = NoTurn /\ reply' = NoTurn
         /\ warned' \in BOOLEAN
BY EmptyTyped DEF Closed, ClientTyped, Places

LEMMA Bounded == TurnTyped => turns \in Nat /\ NoTurn \in 0 .. turns
BY DEF TurnTyped, ServerTyped, NoTurn

\* The steps of the slot before and after its turn.
SlotStep ==
  \/ Start \/ CheckPasses \/ CheckRaises \/ ChecksMade
  \/ Loop \/ TakeNothing \/ (\E t \in Threads : Take(t))
  \/ Create \/ Created \/ Ensure \/ Resumed \/ BeginTurn \/ Begun \/ RequestFails
  \/ Interrupt \/ LeaseLost \/ Deliver \/ FailJob

FollowStep == FollowBuffered \/ FollowQueued \/ Deadline

ServerStep ==
  \/ StartTurn \/ WriteMessage \/ WriteError \/ WriteLate \/ WriteWarning
  \/ \E r \in Runs, o \in Orders : WriteHookStarted(r, o)
  \/ \E r \in Runs, o \in Orders, s \in {"completed", "blocked", "failed"} :
       WriteHookCompleted(r, o, s)
  \/ \E tool \in {"commandExecution", "fileChange"} : WriteToolStarted(tool)
  \/ \E s \in {"completed", "interrupted"} : WriteCompleted(s)
  \/ \E t \in Threads : WriteNews(t)

LEMMA Division ==
  ASSUME TurnNext
  PROVE  SlotStep \/ FollowStep \/ ServerStep \/ ReaderStops
         \/ \E part \in Parts : Drift(part)
BY DEF TurnNext, SlotStep, FollowStep, ServerStep

LEMMA SlotStepTyped ==
  ASSUME TurnTyped, SlotStep
  PROVE  TurnTyped'
<1> USE DEF TurnTyped
<1>1. /\ Early \subseteq Steps /\ Goals \subseteq Steps
      /\ {"start", "check", "claim", "starting", "follow", "interrupt",
          "failing", "stopped"} \subseteq Steps
  BY DEF Early, Goals, Steps
<1>2. /\ past \in Pasts /\ job \in Jobs /\ ledger \in Ledgers
      /\ drifted \in SUBSET Parts
  BY DEF SlotTyped, ServerTyped
<1>3. /\ [job EXCEPT !.answer = None] \in Jobs
      /\ [job EXCEPT !.answer = None].thread = job.thread
      /\ [job EXCEPT !.answer = None].turn = job.turn
  BY <1>2 DEF Jobs
<1>4. NoJob.turn = NoTurn
  BY DEF NoJob
<1>5. CASE Start
  BY <1>1, <1>5, ChecksTyped
  DEF Start, Checks, SlotTyped, ClientTyped, ServerTyped, Preparing, Ensuring, Early,
      Goals, client, server, policy, history
<1>6. CASE CheckPasses
  BY <1>6 DEF CheckPasses, SlotTyped, ClientTyped, ServerTyped, Preparing, Ensuring,
      client, server, policy, history
<1>7. CASE CheckRaises
  <2>1. SlotTyped'
    <3>1. RaisesTo \in {"stopped", "failing"} /\ loaded' \subseteq loaded
      BY <1>7 DEF CheckRaises, RaisesTo, Closed, client
    <3>2. QED
      BY <1>1, <1>3, <1>7, <3>1, ChecksTyped
      DEF CheckRaises, SlotTyped, Preparing, Ensuring, Early, history
  <2>2. CASE RaisesTo = "stopped"
    BY <1>3, <1>7, <2>1, <2>2, ClosedTyped, Bounded
    DEF CheckRaises, ServerTyped, history
  <2>3. CASE RaisesTo # "stopped"
    BY <1>3, <1>7, <2>1, <2>3
    DEF CheckRaises, ServerTyped, ClientTyped, client, server, history
  <2>4. QED
    BY <2>2, <2>3
<1>8. CASE ChecksMade
  BY <1>1, <1>8
  DEF ChecksMade, SlotTyped, ClientTyped, ServerTyped, Preparing, Ensuring,
      Early, Goals, client, server, policy, history
<1>9. CASE Loop
  <2>1. CASE reader = "stopped"
    BY <1>1, <1>9, <2>1, ClosedTyped, Bounded
    DEF Loop, GoesTo, SlotTyped, ServerTyped, Preparing, Ensuring, Early, history
  <2>2. CASE reader # "stopped"
    BY <1>1, <1>9, <2>2, ChecksTyped
    DEF Loop, Checks, SlotTyped, ClientTyped, ServerTyped, Preparing, Ensuring, Early,
        Goals, client, server, history
  <2>3. QED
    BY <2>1, <2>2
<1>10. CASE TakeNothing
  BY <1>1, <1>10 DEF TakeNothing, GoesTo, SlotTyped, ClientTyped, ServerTyped,
      Preparing, Ensuring, Early, client, server, policy, history
<1>11. ASSUME NEW t \in Threads, Take(t) PROVE TurnTyped'
  <2>1. /\ [NoJob EXCEPT !.thread = t] \in Jobs
        /\ [NoJob EXCEPT !.thread = t].thread = t
        /\ [NoJob EXCEPT !.thread = t].turn = NoTurn
    BY EmptyTyped DEF NoJob, Jobs, Places
  <2>2. [fresh |-> t \notin loaded, claim |-> drifted, end |-> {}] \in Pasts
    BY <1>2 DEF Pasts
  <2>3. QED
    BY <1>1, <1>11, <2>1, <2>2, ChecksTyped, Bounded
    DEF Take, Checks, SlotTyped, ClientTyped, ServerTyped, Preparing, Ensuring, Early,
        Goals, client, server, policy
<1>12. CASE Create
  BY <1>1, <1>12, ChecksTyped
  DEF Create, Checks, SlotTyped, ClientTyped, ServerTyped, Preparing, Ensuring, Early,
      Goals, client, server, policy, history
<1>13. CASE Created \/ Resumed
  BY <1>1, <1>13, ChecksTyped
  DEF Created, Resumed, Checks, SlotTyped, ClientTyped, ServerTyped,
      Preparing, Ensuring, Early, Goals, client, server, policy, history
<1>14. CASE Ensure
  BY <1>1, <1>14, ChecksTyped
  DEF Ensure, Checks, SlotTyped, ClientTyped, ServerTyped, Preparing, Ensuring, Early,
      Goals, client, server, policy, history
<1>15. CASE BeginTurn
  BY <1>1, <1>2, <1>15, Bounded
  DEF BeginTurn, GoesTo, SlotTyped, ClientTyped, ServerTyped, Preparing, Ensuring, Early,
      Jobs, client, server, policy, history
<1>16. CASE Begun
  <2>1. /\ [job EXCEPT !.turn = reply] \in Jobs
        /\ [job EXCEPT !.turn = reply].turn = reply
    BY <1>2 DEF Jobs, ServerTyped
  <2>2. QED
    BY <1>1, <1>16, <2>1, Bounded
    DEF Begun, GoesTo, SlotTyped, ClientTyped, ServerTyped, Preparing, Ensuring, Early,
        client, server, policy, history
<1>17. CASE RequestFails
  BY <1>1, <1>17
  DEF RequestFails, GoesTo, SlotTyped, ClientTyped, ServerTyped, Preparing, Ensuring,
      Early, client, server, policy, history
<1>18. CASE Interrupt
  <2>1. SlotTyped' /\ ServerTyped'
    <3>1. loaded' \subseteq loaded
      BY <1>18 DEF Interrupt, Closed, client
    <3>2. QED
      BY <1>1, <1>18, <3>1, ChecksTyped, ClosedTyped, Bounded
      DEF Interrupt, Checks, SlotTyped, ServerTyped, Preparing, Ensuring, Early, Goals,
          client, server, policy, history
  <2>2. ClientTyped'
    BY <1>18, ClosedTyped DEF Interrupt, ClientTyped, client
  <2>3. QED
    BY <2>1, <2>2
<1>19. CASE LeaseLost
  BY <1>1, <1>2, <1>3, <1>19, ChecksTyped, EmptyTyped, LedgersTyped
  DEF LeaseLost, SlotTyped, ClientTyped, ServerTyped, Preparing, Ensuring, Early,
      server, policy
<1>20. CASE Deliver
  BY <1>1, <1>4, <1>20, EmptyTyped, LedgersTyped, Bounded
  DEF Deliver, GoesTo, SlotTyped, ClientTyped, ServerTyped, Preparing, Ensuring, Early,
      client, server, policy, Places
<1>21. CASE FailJob
  BY <1>1, <1>4, <1>21, EmptyTyped, LedgersTyped, ClosedTyped, Bounded
  DEF FailJob, GoesTo, SlotTyped, ServerTyped, Preparing, Ensuring, Early, Places
<1>22. QED
  BY <1>5, <1>6, <1>7, <1>8, <1>9, <1>10, <1>11, <1>12, <1>13, <1>14, <1>15,
     <1>16, <1>17, <1>18, <1>19, <1>20, <1>21 DEF SlotStep

\* What the loop of a turn leaves alone.
FollowFrame == UNCHANGED <<known, loaded, reader, reply, server, policy>>

LEMMA RaisesTyped ==
  ASSUME TurnTyped, Raises, FollowFrame,
         queue' \in Seq(Message), buffer' \in Seq(Message)
  PROVE  TurnTyped'
<1>1. /\ [job EXCEPT !.answer = None] \in Jobs
      /\ [job EXCEPT !.answer = None].turn = job.turn
  BY DEF TurnTyped, SlotTyped, Jobs
<1>2. QED
  BY <1>1, EmptyTyped, LedgersTyped
  DEF Raises, GoesTo, FollowFrame, TurnTyped, SlotTyped, ClientTyped, ServerTyped,
      Preparing, Ensuring, Early, Steps, server, policy

LEMMA HandlesTyped ==
  ASSUME TurnTyped, NEW m \in Message, Handles(m), FollowFrame,
         queue' \in Seq(Message), buffer' \in Seq(Message)
  PROVE  TurnTyped'
<1>1. job \in Jobs /\ past \in Pasts /\ drifted \in SUBSET Parts
  BY DEF TurnTyped, SlotTyped, ServerTyped
<1>2. CASE Raises
  BY <1>2, RaisesTyped
<1>3. CASE Returns
  <2>1. past' \in Pasts
    BY <1>1, <1>3 DEF Returns, Pasts, Parts
  <2>2. QED
    BY <1>3, <2>1, EmptyTyped, ChecksTyped
    DEF Returns, Checks, FollowFrame, TurnTyped, SlotTyped, ClientTyped,
        ServerTyped, Preparing, Ensuring, Early, Goals, Steps, server, policy
<1>4. CASE /\ Continues
           /\ job' = [job EXCEPT !.answer = job'.answer]
           /\ job'.answer \in Texts \cup {None}
           /\ hooks' \in HookStates
  <2>1. job' \in Jobs /\ job'.turn = job.turn
    BY <1>1, <1>4 DEF Jobs
  <2>2. QED
    BY <1>4, <2>1
    DEF Continues, GoesTo, FollowFrame, TurnTyped, SlotTyped, ClientTyped,
        ServerTyped, Preparing, Ensuring, Early, Steps, server, policy, history
<1>5. QED
  BY <1>2, <1>3, <1>4, HandlesOutcome

\* Every set of natural numbers that is not empty has a least element.
LEMMA LeastElement ==
  ASSUME NEW T \in SUBSET Nat, T # {}
  PROVE  \E x \in T : \A y \in T : x <= y
<1> DEFINE below == {pair \in Nat \X Nat : pair[1] < pair[2]}
<1>1. IsWellFoundedOn(below, Nat)
  <2>1. below = OpToRel(<, Nat)
    BY DEF OpToRel
  <2>2. QED
    BY <2>1, NatLessThanWellFounded
<1> HIDE DEF below
<1>2. PICK x \in T : \A y \in T : ~(<<y, x>> \in below)
  BY <1>1, WFMin
<1>3. ASSUME NEW y \in T PROVE x <= y
  <2>1. x \in Nat /\ y \in Nat /\ ~(<<y, x>> \in below)
    BY <1>2
  <2>2. ~(y < x)
    BY <2>1 DEF below
  <2>3. QED
    BY <2>1, <2>2
<1>4. QED
  BY <1>3

\* The first wanted message is a message of the buffer.
LEMMA WantedIsThere ==
  ASSUME TurnTyped, Wanted # {},
         NEW i, i = CHOOSE k \in Wanted : \A j \in Wanted : k <= j
  PROVE  i \in Wanted
<1>1. Wanted \in SUBSET Nat
  BY DEF Wanted, TurnTyped, ClientTyped
<1>2. \E k \in Wanted : \A j \in Wanted : k <= j
  BY <1>1, LeastElement
<1>3. QED
  BY <1>2

LEMMA FollowStepTyped ==
  ASSUME TurnTyped, FollowStep
  PROVE  TurnTyped'
<1>1. queue \in Seq(Message) /\ buffer \in Seq(Message)
  BY DEF TurnTyped, ClientTyped
<1>2. CASE FollowBuffered
  <2>1. PICK i : /\ i = CHOOSE k \in Wanted : \A j \in Wanted : k <= j
                 /\ Handles(buffer[i]) /\ buffer' = RemoveAt(buffer, i)
    BY <1>2 DEF FollowBuffered
  <2>2. i \in DOMAIN buffer
    BY <1>2, <2>1, WantedIsThere DEF FollowBuffered, Wanted
  <2>3. buffer[i] \in Message /\ buffer' \in Seq(Message)
    BY <1>1, <2>1, <2>2, RemoveAtLeaves
  <2>4. FollowFrame /\ queue' = queue
    BY <1>2 DEF FollowBuffered, FollowFrame
  <2>5. QED
    BY <1>1, <2>1, <2>3, <2>4, HandlesTyped
<1>3. CASE FollowQueued
  <2>1. FollowFrame /\ Head(queue) \in Message /\ queue' \in Seq(Message)
    BY <1>1, <1>3 DEF FollowQueued, FollowFrame
  <2>2. CASE Matches(Head(queue), job.thread, job.turn)
    BY <1>1, <1>3, <2>1, <2>2, HandlesTyped DEF FollowQueued
  <2>3. CASE ~Matches(Head(queue), job.thread, job.turn)
    <3>1. buffer' \in Seq(Message)
      BY <1>1, <1>3, <2>1, <2>3 DEF FollowQueued
    <3>2. CASE Raises
      BY <2>1, <3>1, <3>2, RaisesTyped
    <3>3. CASE UNCHANGED <<pc, todo, goal, job, hooks, history>>
      BY <2>1, <3>1, <3>3
      DEF FollowFrame, TurnTyped, SlotTyped, ClientTyped, ServerTyped, Preparing,
          Ensuring, server, policy, history
    <3>4. QED
      BY <1>3, <2>3, <3>2, <3>3 DEF FollowQueued
  <2>4. QED
    BY <2>2, <2>3
<1>4. CASE Deadline
  BY <1>1, <1>4, RaisesTyped DEF Deadline, FollowFrame
<1>5. QED
  BY <1>2, <1>3, <1>4 DEF FollowStep

\* A line that the App Server writes, and its account of the turn.
LEMMA ReadsTyped ==
  ASSUME TurnTyped, NEW m \in Message, Reads(m), ledger' \in Ledgers,
         running' \in {running, NoTurn}, warned' \in BOOLEAN
  PROVE  TurnTyped'
BY DEF Reads, TurnTyped, SlotTyped, ClientTyped, ServerTyped, Preparing, Ensuring

\* What a line may be: one of the running turn, which has its effect, or one
\* that changes nothing in the account of the latest turn, of a turn that is
\* over or of none.
WrittenLine(m) ==
  /\ Reads(m) /\ m # ReaderStopped /\ m.turn <= turns
  /\ running' \in {running, NoTurn} /\ warned' \in BOOLEAN
  /\ ledger' \in Ledgers /\ ledger'.thread = ledger.thread
  /\ \/ /\ running # NoTurn /\ pc \in {"starting", "follow"}
        /\ m.turn = turns /\ m.thread = job.thread
        /\ LedgerView' = Effect(m, LedgerView)
        /\ ledger'.ended # ledger.ended => running' = NoTurn
     \/ /\ LedgerView' = LedgerView /\ running' = running
        /\ m.turn = turns =>
             turns = 0 \/ (ledger.ended # None /\ m.thread = ledger.thread)

LEMMA ServerWrites ==
  ASSUME TurnTyped, ServerStep, ~StartTurn
  PROVE  \E m \in Message : WrittenLine(m)
<1> DEFINE Line1(m) == m \in Message /\ WrittenLine(m)
<1>1. /\ ledger \in Ledgers /\ job.thread \in Places /\ turns \in Nat
      /\ ledger.thread \in Places /\ Written \in Nat /\ warned \in BOOLEAN
      /\ running # NoTurn => running \in Positive /\ running = turns
      /\ ledger.open \in [Runs -> Orders \cup {None, "reused", "failed"}]
      /\ ledger.spare \in [Orders -> Int]
  BY DEF TurnTyped, SlotTyped, ServerTyped, Jobs, Ledgers, Positive, NoTurn,
         Written
<1>2. ASSUME NEW m \in Message, m.method # "_protocol/error", Writes(m),
             m.turn = running, m.thread = job.thread,
             running' \in {running, NoTurn}, ledger' \in Ledgers,
             ledger'.thread = ledger.thread,
             LedgerView' = Effect(m, LedgerView),
             ledger'.ended # ledger.ended => running' = NoTurn
      PROVE  Line1(m)
  BY <1>1, <1>2 DEF Writes, WrittenLine, ReaderStopped
<1>3. CASE WriteMessage
  <2> DEFINE m == [method |-> "item/completed", thread |-> job.thread,
                   turn |-> running, text |-> Text]
  <2>1. m \in Message
    BY <1>1, <1>3 DEF WriteMessage, Writes, Message, AnswerLines, Text, Texts,
       Positive
  <2>2. /\ ledger' \in Ledgers /\ ledger'.thread = ledger.thread
        /\ ledger'.ended = ledger.ended
    BY <1>1, <1>3 DEF WriteMessage, Writes, Ledgers, Text, Texts, Positive
  <2>3. LedgerView' = Effect(m, LedgerView)
    BY <1>1, <1>3 DEF WriteMessage, LedgerView, Effect, Ledgers
  <2>4. QED
    BY <1>2, <1>3, <2>1, <2>2, <2>3 DEF WriteMessage
<1>4. CASE WriteError
  <2> DEFINE m == Line("error", job.thread, running)
  <2>1. m \in Message
    BY <1>1, <1>4 DEF WriteError, Writes, Message, ErrorLines, Line
  <2>2. /\ ledger' \in Ledgers /\ ledger'.thread = ledger.thread
        /\ ledger'.ended = ledger.ended
    BY <1>1, <1>4 DEF WriteError, Ledgers
  <2>3. LedgerView' = Effect(m, LedgerView)
    BY <1>1, <1>4 DEF WriteError, LedgerView, Effect, Ledgers, Line
  <2>4. m.method = "error" /\ m.turn = running /\ m.thread = job.thread
    BY DEF Line
  <2>5. QED
    BY <1>2, <1>4, <2>1, <2>2, <2>3, <2>4 DEF WriteError
<1>5. CASE WriteLate
  <2>1. turns \in Positive
    BY <1>1, <1>5 DEF WriteLate, Positive
  <2>2. PICK m :
          /\ m \in {[method |-> "item/completed", thread |-> ledger.thread,
                     turn |-> turns, text |-> <<turns, Written>>],
                    Line("error", ledger.thread, turns)}
          /\ Reads(m)
    BY <1>5 DEF WriteLate
  <2>3. m \in Message
    BY <1>1, <2>1, <2>2 DEF Message, AnswerLines, ErrorLines, Line, Texts
  <2>4. /\ m.method # "_protocol/error" /\ m.turn = turns
        /\ m.thread = ledger.thread
    BY <2>2 DEF Line
  <2>5. /\ ledger' \in Ledgers /\ LedgerView' = LedgerView
        /\ ledger'.thread = ledger.thread
    BY <1>1, <1>5 DEF WriteLate, Ledgers, LedgerView
  <2>6. QED
    BY <1>1, <1>5, <2>2, <2>3, <2>4, <2>5
    DEF WriteLate, WrittenLine, ReaderStopped
<1>6. CASE WriteWarning
  <2>1. Warning \in Message /\ Warning.turn = 0 /\ Warning # ReaderStopped
    BY DEF Warning, Line, Message, NewsLines, Places, NoTurn, ReaderStopped
  <2>2. LedgerView' = LedgerView
    BY <1>6 DEF WriteWarning, LedgerView
  <2>3. QED
    BY <1>1, <1>6, <2>1, <2>2 DEF WriteWarning, WrittenLine
<1>7. ASSUME NEW r \in Runs, NEW o \in Orders, WriteHookStarted(r, o)
      PROVE  \E m : Line1(m)
  <2> DEFINE m == HookLine("hook/started", job.thread, running, r, o, "running")
  <2>1. m \in Message
    BY <1>1, <1>7 DEF WriteHookStarted, Writes, HookLine, Message, HookLines
  <2>2. /\ ledger' \in Ledgers /\ ledger'.thread = ledger.thread
        /\ ledger'.ended = ledger.ended
    BY <1>1, <1>7 DEF WriteHookStarted, Ledgers
  <2>3. LedgerView' = Effect(m, LedgerView)
    BY <1>1, <1>7 DEF WriteHookStarted, LedgerView, Effect, Ledgers, HookLine
  <2>4. /\ m.method # "_protocol/error" /\ m.turn = running
        /\ m.thread = job.thread
    BY DEF HookLine
  <2>5. QED
    BY <1>2, <1>7, <2>1, <2>2, <2>3, <2>4 DEF WriteHookStarted
<1>8. ASSUME NEW r \in Runs, NEW o \in Orders,
             NEW c \in {"completed", "blocked", "failed"},
             WriteHookCompleted(r, o, c)
      PROVE  \E m : Line1(m)
  <2> DEFINE m == HookLine("hook/completed", job.thread, running, r, o, c)
             opened == [ledger.open EXCEPT
                          ![r] = IF @ = o /\ c # "failed" THEN None
                                 ELSE "failed"]
             spared == [ledger.spare EXCEPT
                          ![o] = IF c = "completed" THEN @ + 1 ELSE @]
  <2>1. m \in Message
    BY <1>1, <1>8 DEF WriteHookCompleted, Writes, HookLine, Message, HookLines
  <2>2. /\ opened \in [Runs -> Orders \cup {None, "reused", "failed"}]
        /\ spared \in [Orders -> Int]
    BY <1>1
  <2>3. ledger' = [ledger EXCEPT !.lines = Written, !.open = opened,
                                 !.spare = spared]
    BY <1>1, <1>8 DEF WriteHookCompleted, Ledgers
  <2>4. /\ ledger' \in Ledgers /\ ledger'.thread = ledger.thread
        /\ ledger'.ended = ledger.ended
    BY <1>1, <2>2, <2>3 DEF Ledgers
  <2>5. LedgerView' = Effect(m, LedgerView)
    BY <1>1, <2>3 DEF LedgerView, Effect, Ledgers, HookLine
  <2>6. /\ m.method # "_protocol/error" /\ m.turn = running
        /\ m.thread = job.thread
    BY DEF HookLine
  <2>7. QED
    BY <1>2, <1>8, <2>1, <2>4, <2>5, <2>6 DEF WriteHookCompleted
<1>9. ASSUME NEW tool \in {"commandExecution", "fileChange"},
             WriteToolStarted(tool)
      PROVE  \E m : Line1(m)
  <2> DEFINE m == [method |-> "item/started", thread |-> job.thread,
                   turn |-> running, tool |-> tool]
             all == ledger.hooked /\ \A o \in Required(tool) : ledger.spare[o] > 0
             spared == [o \in Orders |-> IF o \in Required(tool)
                                         THEN ledger.spare[o] - 1
                                         ELSE ledger.spare[o]]
  <2>1. m \in Message
    BY <1>1, <1>9 DEF WriteToolStarted, Writes, Message, ToolLines
  <2>2. spared \in [Orders -> Int] /\ all \in BOOLEAN
    BY <1>1 DEF Ledgers
  <2>3. ledger' = [ledger EXCEPT !.lines = Written, !.hooked = all,
                                 !.spare = spared]
    BY <1>1, <1>9 DEF WriteToolStarted, Ledgers
  <2>4. /\ ledger' \in Ledgers /\ ledger'.thread = ledger.thread
        /\ ledger'.ended = ledger.ended
    BY <1>1, <2>2, <2>3 DEF Ledgers
  <2>5. LedgerView' = Effect(m, LedgerView)
    BY <1>1, <2>3 DEF LedgerView, Effect, Ledgers
  <2>6. QED
    BY <1>2, <1>9, <2>1, <2>4, <2>5 DEF WriteToolStarted
<1>10. ASSUME NEW c \in {"completed", "interrupted"}, WriteCompleted(c)
       PROVE  \E m : Line1(m)
  <2> DEFINE m == [method |-> "turn/completed", thread |-> job.thread,
                   turn |-> running, status |-> c]
  <2>1. m \in Message
    BY <1>1, <1>10 DEF WriteCompleted, Writes, Message, EndLines
  <2>2. ledger' \in Ledgers /\ ledger'.thread = ledger.thread
    BY <1>1, <1>10 DEF WriteCompleted, Ledgers
  <2>3. LedgerView' = Effect(m, LedgerView)
    BY <1>1, <1>10 DEF WriteCompleted, LedgerView, Effect, Ledgers
  <2>4. QED
    BY <1>2, <1>10, <2>1, <2>2, <2>3 DEF WriteCompleted
<1>11. ASSUME NEW t \in Threads, WriteNews(t) PROVE \E m : Line1(m)
  <2> DEFINE m == Line("thread/status/changed", t, NoTurn)
  <2>1. m \in Message /\ m.turn = 0 /\ m # ReaderStopped
    BY DEF Line, Message, NewsLines, Places, NoTurn, ReaderStopped
  <2>2. /\ ledger' \in Ledgers /\ ledger'.thread = ledger.thread
        /\ LedgerView' = LedgerView
    BY <1>1, <1>11 DEF WriteNews, Ledgers, LedgerView
  <2>3. QED
    BY <1>1, <1>11, <2>1, <2>2 DEF WriteNews, WrittenLine
<1>12. QED
  BY <1>3, <1>4, <1>5, <1>6, <1>7, <1>8, <1>9, <1>10, <1>11 DEF ServerStep

LEMMA StartTurnTyped ==
  ASSUME TurnTyped, StartTurn
  PROVE  TurnTyped'
<1>1. [NewLedger EXCEPT !.lines = ledger.lines, !.thread = stdin] \in Ledgers
  BY LedgersTyped DEF TurnTyped, ServerTyped
<1>2. QED
  BY <1>1
  DEF StartTurn, TurnTyped, SlotTyped, ClientTyped, ServerTyped, Preparing,
      Ensuring, client, policy, Places

LEMMA ServerStepTyped ==
  ASSUME TurnTyped, ServerStep
  PROVE  TurnTyped'
<1>1. ASSUME NEW m \in Message, WrittenLine(m) PROVE TurnTyped'
  BY <1>1, ReadsTyped DEF WrittenLine
<1>2. QED
  BY <1>1, ServerWrites, StartTurnTyped

LEMMA ReaderStopsTyped ==
  ASSUME TurnTyped, ReaderStops
  PROVE  TurnTyped'
<1>1. ReaderStopped \in Message
  BY DEF Message
<1>2. QED
  BY <1>1
  DEF ReaderStops, TurnTyped, SlotTyped, ClientTyped, ServerTyped, Preparing,
      Ensuring, policy, history

LEMMA DriftTyped ==
  ASSUME TurnTyped, NEW part \in Parts, Drift(part)
  PROVE  TurnTyped'
BY DEF Drift, TurnTyped, SlotTyped, ClientTyped, ServerTyped, Preparing, Ensuring,
   client, server, history

LEMMA InitTyped == TurnInit => TurnTyped
<1> SUFFICES ASSUME TurnInit PROVE TurnTyped
  OBVIOUS
<1>1. job.turn = NoTurn
  BY DEF TurnInit, NoJob
<1>2. SlotTyped
  BY EmptyTyped, ChecksTyped
  DEF TurnInit, SlotTyped, Preparing, Ensuring, Early, Steps
<1>3. ClientTyped
  BY EmptyTyped DEF TurnInit, ClientTyped
<1>4. ServerTyped
  <2>1. turns = 0 /\ running = 0 /\ reply = 0 /\ job.turn = 0
    BY <1>1 DEF TurnInit, NoTurn
  <2>2. turns \in Nat /\ {running, reply, job.turn} \subseteq 0 .. turns
    BY <2>1
  <2>3. stdin \in Places /\ ledger \in Ledgers
    BY EmptyTyped DEF TurnInit, Places
  <2>4. drifted \subseteq Parts /\ warned \in BOOLEAN
    BY DEF TurnInit
  <2>5. QED
    BY <2>1, <2>2, <2>3, <2>4 DEF ServerTyped
<1>5. QED
  BY <1>2, <1>3, <1>4 DEF TurnTyped

LEMMA StutterTyped == TurnTyped /\ UNCHANGED turnVars => TurnTyped'
BY DEF turnVars, client, server, policy, history, TurnTyped, SlotTyped, ClientTyped,
   ServerTyped, Preparing, Ensuring

LEMMA TypedInvariant == TurnSpec => []TurnTyped
<1>1. TurnTyped /\ [TurnNext]_turnVars => TurnTyped'
  BY Division, SlotStepTyped, FollowStepTyped, ServerStepTyped,
     ReaderStopsTyped, DriftTyped, StutterTyped
<1>2. QED
  BY <1>1, InitTyped, PTL DEF TurnSpec


-----------------------------------------------------------------------------
(* The slot and its client *)

\* The job fails in any case, and the client will be closed.
Doomed ==
  \/ pc \in {"interrupt", "failing"}
  \/ (pc = "check" /\ goal = "failing")

Mark == \E i \in DOMAIN queue : queue[i] = ReaderStopped

\* Without a client there is nothing to read and no turn; a client whose reader
\* has stopped has its mark in the queue until the job is given up.
ClientInv ==
  /\ pc = "start" => reader = None
  /\ reader = None => /\ pc \in {"start", "stopped"} \/ Doomed
                      /\ queue = <<>> /\ buffer = <<>>
                      /\ running = NoTurn /\ stdin = None
  /\ reader = "running" => Len(queue) <= MaxQueue
  /\ Len(queue) <= MaxQueue + 1
  /\ ~Doomed => Len(buffer) <= MaxBuffer
  /\ Len(buffer) <= MaxBuffer + 1
  /\ reader = "stopped" => Mark \/ Doomed
  /\ pc # "follow" => hooks = NoHooks

LEMMA BoundsAreNatural ==
  /\ MaxQueue \in Nat /\ MaxBuffer \in Nat /\ MaxTurns \in Nat
  /\ None # "running" /\ None # "stopped" /\ None # "completed"
  /\ None # "interrupted"
BY BoundsAssumption, NoneAssumption

LEMMA QueueMark == queue' = queue => (Mark' <=> Mark)
BY DEF Mark

LEMMA ClosedClient ==
  ASSUME Closed, pc' \in {"start", "stopped"} \/ Doomed'
  PROVE  ClientInv'
BY BoundsAreNatural DEF Closed, ClientInv

\* A step that leaves the client alone, and does not pretend that it is gone.
LEMMA ClientKept ==
  ASSUME TurnTyped, ClientInv,
         UNCHANGED <<reader, queue, buffer, hooks, running>>,
         stdin' = stdin \/ ~(reader = None),
         pc' # "start" \/ reader = None,
         pc' # "follow" => pc # "follow",
         reader = None => Doomed',
         Doomed => Doomed'
  PROVE  ClientInv'
BY QueueMark DEF ClientInv

LEMMA SlotStepClient ==
  ASSUME TurnTyped, ClientInv, SlotStep
  PROVE  ClientInv'
<1>1. CASE Start
  <2>1. /\ reader = None /\ reader' = "running" /\ pc' = "check"
        /\ goal' = "claim" /\ UNCHANGED <<queue, buffer, hooks>>
        /\ pc = "start"
    BY <1>1 DEF Start, Checks, ClientInv, client
  <2>2. queue = <<>> /\ buffer = <<>> /\ hooks = NoHooks
    BY <2>1 DEF ClientInv
  <2>3. QED
    BY <2>1, <2>2, BoundsAreNatural DEF ClientInv
<1>2. CASE CheckPasses
  BY <1>2, ClientKept
  DEF CheckPasses, ClientInv, Doomed, Serving, client, server
<1>3. CASE CheckRaises
  <2>1. CASE RaisesTo = "stopped"
    BY <1>3, <2>1, ClosedClient DEF CheckRaises
  <2>2. CASE RaisesTo # "stopped"
    <3>1. pc' = "failing" /\ pc = "check"
      BY <1>3, <2>2 DEF CheckRaises, RaisesTo
    <3>2. Doomed'
      BY <3>1 DEF Doomed
    <3>3. QED
      BY <1>3, <2>2, <3>1, <3>2, ClientKept DEF CheckRaises, client, server
  <2>3. QED
    BY <2>1, <2>2
<1>4. CASE ChecksMade
  <2>1. pc = "check" /\ pc' = goal /\ goal \in Goals
    BY <1>4 DEF ChecksMade, TurnTyped, SlotTyped
  <2>2. pc' # "start" /\ pc' # "follow" /\ (Doomed => Doomed')
    BY <2>1 DEF Goals, Early, Doomed
  <2>3. reader = None => Doomed'
    BY <2>1, <2>2 DEF ClientInv
  <2>4. QED
    BY <1>4, <2>1, <2>2, <2>3, ClientKept DEF ChecksMade, client, server
<1>5. CASE Loop
  <2>1. CASE reader = "stopped"
    BY <1>5, <2>1, ClosedClient DEF Loop, GoesTo
  <2>2. CASE reader # "stopped"
    BY <1>5, <2>2, ClientKept
    DEF Loop, Checks, ClientInv, Doomed, client, server
  <2>3. QED
    BY <2>1, <2>2
<1>6. CASE TakeNothing
  BY <1>6, ClientKept
  DEF TakeNothing, GoesTo, ClientInv, Doomed, client, server
<1>7. ASSUME NEW t \in Threads, Take(t) PROVE ClientInv'
  BY <1>7, ClientKept DEF Take, Checks, ClientInv, Doomed, client, server
<1>8. CASE Create
  BY <1>8, ClientKept DEF Create, Checks, ClientInv, Doomed, client, server
<1>9. CASE Created \/ Resumed
  BY <1>9, ClientKept
  DEF Created, Resumed, Checks, ClientInv, Doomed, server
<1>10. CASE Ensure
  BY <1>10, ClientKept DEF Ensure, Checks, ClientInv, Doomed, client, server
<1>11. CASE BeginTurn
  BY <1>11, ClientKept DEF BeginTurn, GoesTo, ClientInv, Doomed, client
<1>12. CASE Begun
  <2>1. pc = "starting" /\ reader # None /\ ~Doomed
    BY <1>12 DEF Begun, ClientInv, Doomed
  <2>2. pc' \in {"follow", "interrupt"}
    BY <1>12 DEF Begun, GoesTo
  <2>3. QED
    BY <1>12, <2>1, <2>2, ClientKept DEF Begun, client, server
<1>13. CASE RequestFails
  BY <1>13, ClientKept
  DEF RequestFails, GoesTo, ClientInv, Doomed, client, server
<1>14. CASE Interrupt
  <2>1. pc = "interrupt" /\ pc' = "check" /\ Doomed'
    BY <1>14 DEF Interrupt, Checks, Doomed
  <2>2. CASE Closed
    BY <2>1, <2>2, ClosedClient
  <2>3. CASE ~Closed
    <3>1. reader = "running" /\ UNCHANGED <<reader, queue, buffer, hooks, stdin>>
      BY <1>14, <2>3 DEF Interrupt, Serving, client
    <3>2. QED
      BY <2>1, <3>1, QueueMark, BoundsAreNatural DEF ClientInv
  <2>4. QED
    BY <2>2, <2>3
<1>15. CASE LeaseLost
  <2>1. /\ Doomed' /\ pc' \in {"interrupt", "failing"} /\ hooks' = NoHooks
        /\ UNCHANGED <<reader, queue, buffer, running, stdin>>
    BY <1>15 DEF LeaseLost, Doomed, server
  <2>2. QED
    BY <2>1, QueueMark DEF ClientInv
<1>16. CASE Deliver
  BY <1>16, ClientKept
  DEF Deliver, GoesTo, ClientInv, Doomed, client, server
<1>17. CASE FailJob
  BY <1>17, ClosedClient DEF FailJob, GoesTo
<1>18. QED
  BY <1>1, <1>2, <1>3, <1>4, <1>5, <1>6, <1>7, <1>8, <1>9, <1>10, <1>11,
     <1>12, <1>13, <1>14, <1>15, <1>16, <1>17 DEF SlotStep

\* The loop of a turn goes on, returns or raises.
LEMMA HandlesGoes ==
  ASSUME TurnTyped, NEW m \in Message, Handles(m)
  PROVE  /\ \/ pc' = "interrupt"
            \/ pc' = "check" /\ goal' = "deliver"
            \/ pc' = "follow" /\ m # ReaderStopped
         /\ pc' # "follow" => hooks' = NoHooks
BY HandlesOutcome
DEF Raises, Returns, Continues, GoesTo, Checks, ReaderStopped

LEMMA FollowStepClient ==
  ASSUME TurnTyped, ClientInv, FollowStep
  PROVE  ClientInv'
<1>1. /\ queue \in Seq(Message) /\ buffer \in Seq(Message) /\ pc = "follow"
      /\ UNCHANGED <<reader, stdin, running>>
  BY DEF TurnTyped, ClientTyped, FollowStep, FollowBuffered, FollowQueued,
         Deadline, server
<1>2. reader # None /\ ~Doomed /\ Len(buffer) <= MaxBuffer
  BY <1>1 DEF ClientInv, Doomed
<1>3. CASE FollowBuffered
  <2>1. PICK i : /\ i = CHOOSE k \in Wanted : \A j \in Wanted : k <= j
                 /\ Handles(buffer[i]) /\ buffer' = RemoveAt(buffer, i)
    BY <1>3 DEF FollowBuffered
  <2>2. i \in DOMAIN buffer
    BY <1>3, <2>1, WantedIsThere DEF FollowBuffered, Wanted
  <2>3. buffer[i] \in Message /\ Len(buffer') = Len(buffer) - 1
    BY <1>1, <2>1, <2>2, RemoveAtLeaves
  <2>4. UNCHANGED queue
    BY <1>3 DEF FollowBuffered
  <2>5. /\ pc' # "start" /\ (pc' # "follow" => hooks' = NoHooks)
    BY <2>1, <2>3, HandlesGoes
  <2>6. Len(buffer) \in Nat
    BY <1>1
  <2>7. QED
    BY <1>1, <1>2, <2>3, <2>4, <2>5, <2>6, QueueMark, BoundsAreNatural
    DEF ClientInv
<1>4. CASE FollowQueued
  <2>1. /\ queue # <<>> /\ queue' = Tail(queue) /\ Head(queue) \in Message
        /\ Len(queue') = Len(queue) - 1 /\ Len(queue) \in Nat
    BY <1>1, <1>4 DEF FollowQueued
  <2>2. Mark /\ Head(queue) # ReaderStopped => Mark'
    <3>1. SUFFICES ASSUME NEW i \in DOMAIN queue, queue[i] = ReaderStopped,
                          Head(queue) # ReaderStopped
                   PROVE  Mark'
      BY DEF Mark
    <3>2. i \in 2 .. Len(queue)
      BY <1>1, <2>1, <3>1
    <3>3. i - 1 \in DOMAIN queue' /\ queue'[i - 1] = queue[i]
      BY <1>1, <2>1, <3>2
    <3>4. QED
      BY <3>1, <3>3 DEF Mark
  <2>3. CASE Matches(Head(queue), job.thread, job.turn)
    <3>1. Handles(Head(queue)) /\ UNCHANGED buffer
      BY <1>4, <2>3 DEF FollowQueued
    <3>2. /\ pc' # "start" /\ (pc' # "follow" => hooks' = NoHooks)
          /\ Head(queue) = ReaderStopped => ~(pc' = "follow") /\
               (pc' = "interrupt" \/ (pc' = "check" /\ goal' = "deliver"))
      BY <2>1, <3>1, HandlesGoes
    <3>3. Head(queue) = ReaderStopped => Doomed'
      BY <2>1, <3>1, HandlesOutcome
      DEF Doomed, Raises, Continues, GoesTo, ReaderStopped
    <3>4. QED
      BY <1>1, <1>2, <2>1, <2>2, <3>1, <3>2, <3>3, BoundsAreNatural
      DEF ClientInv
  <2>4. CASE ~Matches(Head(queue), job.thread, job.turn)
    <3>1. buffer' = Append(buffer, Head(queue)) /\ Head(queue) # ReaderStopped
      BY <1>4, <2>4 DEF FollowQueued, Matches, ReaderStopped
    <3>2. Len(buffer') = Len(buffer) + 1 /\ Len(buffer) \in Nat
      BY <1>1, <2>1, <3>1
    <3>3. CASE Len(buffer) < MaxBuffer
      BY <1>1, <1>2, <1>4, <2>1, <2>2, <2>4, <3>1, <3>2, <3>3,
         BoundsAreNatural DEF FollowQueued, ClientInv, Doomed
    <3>4. CASE ~(Len(buffer) < MaxBuffer)
      <4>1. pc' = "interrupt" /\ hooks' = NoHooks /\ Doomed'
        BY <1>4, <2>4, <3>4 DEF FollowQueued, Raises, GoesTo, Doomed
      <4>2. QED
        BY <1>1, <1>2, <2>1, <3>1, <3>2, <4>1, BoundsAreNatural DEF ClientInv
    <3>5. QED
      BY <3>3, <3>4
  <2>5. QED
    BY <2>3, <2>4
<1>5. CASE Deadline
  <2>1. pc' = "interrupt" /\ hooks' = NoHooks /\ Doomed' /\ UNCHANGED <<queue, buffer>>
    BY <1>5 DEF Deadline, Raises, GoesTo, Doomed
  <2>2. QED
    BY <1>1, <1>2, <2>1, BoundsAreNatural DEF ClientInv
<1>6. QED
  BY <1>3, <1>4, <1>5 DEF FollowStep

\* The App Server writes a line, or handles turn/start.
LEMMA ReadsClient ==
  ASSUME TurnTyped, ClientInv, NEW m, Reads(m)
  PROVE  ClientInv'
<1>1. queue \in Seq(Message) /\ Len(queue) < MaxQueue /\ reader = "running"
  BY DEF TurnTyped, ClientTyped, Reads, Serving
<1>2. Len(queue') = Len(queue) + 1 /\ Len(queue) \in Nat
  BY <1>1 DEF Reads
<1>3. QED
  BY <1>1, <1>2, BoundsAreNatural DEF Reads, ClientInv, Doomed

LEMMA ServerStepReads ==
  ASSUME ServerStep
  PROVE  \/ StartTurn
         \/ \E m : Reads(m) /\ UNCHANGED turns
BY DEF ServerStep, Writes, WriteMessage, WriteError, WriteLate, WriteWarning,
       WriteHookStarted, WriteHookCompleted, WriteToolStarted, WriteCompleted,
       WriteNews, Reads

LEMMA ServerStepClient ==
  ASSUME TurnTyped, ClientInv, ServerStep
  PROVE  ClientInv'
<1>1. CASE StartTurn
  BY <1>1, QueueMark DEF StartTurn, ClientInv, Doomed, client
<1>2. ASSUME NEW m, Reads(m) PROVE ClientInv'
  BY <1>2, ReadsClient
<1>3. QED
  BY <1>1, <1>2, ServerStepReads

LEMMA ReaderStopsClient ==
  ASSUME TurnTyped, ClientInv, ReaderStops
  PROVE  ClientInv'
<1>1. queue \in Seq(Message) /\ ReaderStopped \in Message
  BY DEF TurnTyped, ClientTyped, Message
<1>2. /\ Len(queue') = Len(queue) + 1 /\ Len(queue) \in Nat
      /\ Len(queue') \in DOMAIN queue'
      /\ queue'[Len(queue')] = ReaderStopped
  BY <1>1 DEF ReaderStops
<1>3. Mark'
  BY <1>2 DEF Mark
<1>4. QED
  BY <1>2, <1>3, BoundsAreNatural DEF ReaderStops, ClientInv, Doomed

LEMMA ClientInvariant == TurnSpec => []ClientInv
<1>1. TurnTyped /\ ClientInv /\ [TurnNext]_turnVars => ClientInv'
  <2>1. SUFFICES ASSUME TurnTyped, ClientInv, [TurnNext]_turnVars PROVE ClientInv'
    OBVIOUS
  <2>2. ASSUME NEW part \in Parts, Drift(part) PROVE ClientInv'
    BY <2>1, <2>2, QueueMark DEF Drift, ClientInv, Doomed, client, server
  <2>3. CASE UNCHANGED turnVars
    BY <2>1, <2>3, QueueMark DEF turnVars, ClientInv, Doomed, client, server
  <2>4. QED
    BY <2>1, <2>2, <2>3, Division, SlotStepClient, FollowStepClient,
       ServerStepClient, ReaderStopsClient
<1>2. TurnInit => ClientInv
  BY BoundsAreNatural DEF TurnInit, ClientInv
<1>3. QED
  BY <1>1, <1>2, TypedInvariant, PTL DEF TurnSpec

\* The mark of a reader that has stopped is ahead of a turn that is followed,
\* whatever other turns took from the queue and the buffer.
THEOREM StopsReachTurns == TurnSpec => []StopReachesTurn
<1>1. ClientInv => StopReachesTurn
  BY DEF ClientInv, StopReachesTurn, Doomed, Mark
<1>2. QED
  BY <1>1, ClientInvariant, PTL

-----------------------------------------------------------------------------
(* The turn that is followed *)

\* The slot follows a turn, or has its identity; it has an answer to deliver.
Follows == pc = "follow" \/ (pc = "starting" /\ reply # NoTurn)
Answered == pc = "deliver" \/ (pc = "check" /\ goal = "deliver")

\* A turn is sent only within the bound, with an empty answer.
SlotInv ==
  /\ Preparing => turns < MaxTurns /\ job.answer = None
  /\ stdin # None => turns < MaxTurns
  /\ turns <= MaxTurns
  /\ pc = "starting" => job.answer = None /\ (stdin # None => stdin = job.thread)

\* The turn that the slot follows is the latest one.
TurnInv ==
  Follows => /\ turns >= 1 /\ stdin = None
             /\ ledger.thread = job.thread
             /\ ledger.ended # None => running = NoTurn
             /\ pc = "follow" => job.turn = turns
             /\ pc = "starting" => reply = turns

\* A message is of a turn up to n, or of no turn.
UpTo(m, n) == m # ReaderStopped => m.turn <= n

\* No message is of a turn to come.  While a turn is followed, those of it are
\* of its thread and in the queue: none of them was put aside.
MessagesInv ==
  /\ \A i \in DOMAIN queue : UpTo(queue[i], turns)
  /\ \A i \in DOMAIN buffer : UpTo(buffer[i], turns)
  /\ Follows => \A i \in DOMAIN queue :
       queue[i] # ReaderStopped /\ queue[i].turn = turns
         => queue[i].thread = job.thread
  /\ Follows => \A i \in DOMAIN buffer :
       buffer[i] # ReaderStopped => buffer[i].turn < turns

\* A step of the slot outside its turn drops the messages or leaves them, begins
\* to follow a turn only with the response, and keeps the answer it delivers.
Outside ==
  /\ turns' = turns
  /\ \/ queue' = queue /\ buffer' = buffer
     \/ queue' = <<>> /\ buffer' = <<>>
  /\ Follows' => Begun
  /\ Answered' => Answered /\ UNCHANGED <<job, ledger>>

LEMMA SlotStepOutside ==
  ASSUME TurnTyped, SlotStep
  PROVE  Outside
<1> USE DEF Outside
<1>1. CASE Start \/ Create \/ Ensure
  BY <1>1 DEF Start, Create, Ensure, Checks, client, server, Follows, Answered
<1>2. CASE CheckPasses \/ TakeNothing
  BY <1>2
  DEF CheckPasses, TakeNothing, GoesTo, client, server, history, Follows, Answered
<1>3. CASE CheckRaises
  BY <1>3
  DEF CheckRaises, RaisesTo, Closed, client, server, Follows, Answered
<1>4. CASE ChecksMade
  <2>1. pc = "check" /\ pc' = goal /\ goal \in Goals
    BY <1>4 DEF ChecksMade, TurnTyped, SlotTyped
  <2>2. pc' # "follow" /\ pc' # "starting" /\ pc' # "check"
    BY <2>1 DEF Goals, Early
  <2>3. QED
    BY <1>4, <2>1, <2>2
    DEF ChecksMade, client, server, history, Follows, Answered
<1>5. CASE Loop
  BY <1>5
  DEF Loop, GoesTo, Checks, Closed, client, server, Follows, Answered
<1>6. ASSUME NEW t \in Threads, Take(t) PROVE Outside
  BY <1>6 DEF Take, Checks, client, server, Follows, Answered
<1>7. CASE Created \/ Resumed
  BY <1>7 DEF Created, Resumed, Checks, server, Follows, Answered
<1>8. CASE BeginTurn \/ RequestFails
  BY <1>8
  DEF BeginTurn, RequestFails, GoesTo, client, server, Follows, Answered
<1>9. CASE Begun
  BY <1>9 DEF Begun, GoesTo, client, server, Follows, Answered
<1>10. CASE Interrupt
  BY <1>10 DEF Interrupt, Checks, Closed, client, Follows, Answered
<1>11. CASE LeaseLost
  BY <1>11 DEF LeaseLost, server, Follows, Answered
<1>12. CASE Deliver \/ FailJob
  BY <1>12
  DEF Deliver, FailJob, GoesTo, Closed, client, server, Follows, Answered
<1>13. QED
  BY <1>1, <1>2, <1>3, <1>4, <1>5, <1>6, <1>7, <1>8, <1>9, <1>10, <1>11,
     <1>12 DEF SlotStep

LEMMA SlotStepSlot ==
  ASSUME TurnTyped, SlotInv, NoTurnIsLeft, SlotStep
  PROVE  SlotInv' /\ NoTurnIsLeft'
<1>1. turns' = turns /\ turns \in Nat
  BY SlotStepOutside DEF Outside, TurnTyped, ServerTyped
<1> DEFINE Kept == SlotInv' /\ NoTurnIsLeft'
<1>2. CASE Start
  BY <1>1, <1>2
  DEF Start, Checks, SlotInv, NoTurnIsLeft, Preparing, Early, server
<1>3. CASE CheckPasses
  BY <1>1, <1>3
  DEF CheckPasses, SlotInv, NoTurnIsLeft, Preparing, server
<1>4. CASE CheckRaises
  <2>1. ~Preparing' /\ pc' \in {"stopped", "failing"}
    BY <1>4 DEF CheckRaises, RaisesTo, Preparing, Early
  <2>2. CASE pc' = "stopped"
    BY <1>1, <1>4, <2>1, <2>2
    DEF CheckRaises, Closed, SlotInv, NoTurnIsLeft
  <2>3. CASE pc' = "failing"
    BY <1>1, <1>4, <2>1, <2>3
    DEF CheckRaises, Closed, SlotInv, NoTurnIsLeft, server
  <2>4. QED
    BY <2>1, <2>2, <2>3
<1>5. CASE ChecksMade
  <2>1. pc = "check" /\ pc' = goal /\ goal \in Goals
    BY <1>5 DEF ChecksMade, TurnTyped, SlotTyped
  <2>2. pc' # "starting" /\ (Preparing' => Preparing)
    BY <2>1 DEF Goals, Early, Preparing
  <2>3. QED
    BY <1>1, <1>5, <2>1, <2>2
    DEF ChecksMade, SlotInv, NoTurnIsLeft, server
<1>6. CASE Loop
  BY <1>1, <1>6
  DEF Loop, GoesTo, Checks, Closed, SlotInv, NoTurnIsLeft, Preparing, Early,
      server
<1>7. CASE TakeNothing
  BY <1>1, <1>7
  DEF TakeNothing, GoesTo, SlotInv, NoTurnIsLeft, Preparing, Early, server
<1>8. ASSUME NEW t \in Threads, Take(t) PROVE Kept
  <2>1. job'.answer = None
    BY <1>8 DEF Take, NoJob
  <2>2. QED
    BY <1>1, <1>8, <2>1
    DEF Take, Checks, SlotInv, NoTurnIsLeft, Preparing, Early, server
<1>9. CASE Create \/ Ensure
  BY <1>1, <1>9
  DEF Create, Ensure, Checks, SlotInv, NoTurnIsLeft, Preparing, Early, server
<1>10. CASE Created \/ Resumed
  BY <1>1, <1>10
  DEF Created, Resumed, Checks, SlotInv, NoTurnIsLeft, Preparing, Early, server
<1>11. CASE BeginTurn
  BY <1>1, <1>11 DEF BeginTurn, GoesTo, SlotInv, NoTurnIsLeft, Preparing, Early
<1>12. CASE Begun
  BY <1>1, <1>12 DEF Begun, GoesTo, SlotInv, NoTurnIsLeft, Preparing, Early,
     server
<1>13. CASE RequestFails
  BY <1>1, <1>13
  DEF RequestFails, GoesTo, SlotInv, NoTurnIsLeft, Preparing, Early, server
<1>14. CASE Interrupt
  BY <1>1, <1>14
  DEF Interrupt, Checks, Closed, SlotInv, NoTurnIsLeft, Preparing, Early
<1>15. CASE LeaseLost
  BY <1>1, <1>15
  DEF LeaseLost, SlotInv, NoTurnIsLeft, Preparing, Early, server
<1>16. CASE Deliver \/ FailJob
  BY <1>1, <1>16
  DEF Deliver, FailJob, GoesTo, Closed, SlotInv, NoTurnIsLeft, Preparing, Early,
      server
<1>17. QED
  BY <1>2, <1>3, <1>4, <1>5, <1>6, <1>7, <1>8, <1>9, <1>10, <1>11, <1>12,
     <1>13, <1>14, <1>15, <1>16 DEF SlotStep

LEMMA SlotStepTurn ==
  ASSUME TurnTyped, SlotInv, TurnInv, MessagesInv, SlotStep
  PROVE  TurnInv' /\ MessagesInv'
<1>1. Outside /\ turns \in Nat
  BY SlotStepOutside DEF TurnTyped, ServerTyped
<1>2. CASE Begun
  <2>1. /\ Follows /\ reply = turns /\ pc' # "starting"
        /\ job' = [job EXCEPT !.turn = reply]
        /\ UNCHANGED <<ledger, queue, buffer, stdin, running, turns>>
    BY <1>2 DEF Begun, GoesTo, Follows, TurnInv, client, server, history
  <2>2. job'.turn = turns /\ job'.thread = job.thread
    BY <2>1 DEF TurnTyped, SlotTyped, Jobs
  <2>3. TurnInv'
    BY <2>1, <2>2 DEF TurnInv
  <2>4. QED
    BY <2>1, <2>2, <2>3 DEF MessagesInv
<1>3. CASE ~Begun
  <2>1. ~Follows'
    BY <1>1, <1>3 DEF Outside
  <2>2. QED
    BY <1>1, <2>1 DEF Outside, TurnInv, MessagesInv
<1>4. QED
  BY <1>2, <1>3

-----------------------------------------------------------------------------
(* The account of a turn *)

\* What a message adds to an account of the turn n: nothing, if the turn is
\* over or if it is no message of that turn.
After(m, v, n) ==
  IF m = ReaderStopped \/ v.ended # None \/ m.turn # n THEN v
  ELSE Effect(m, v)

\* The messages q lead from the one account to the other, by those in s.
Explains(s, q, from, to, n) ==
  /\ s[0] = from /\ s[Len(q)] = to
  /\ \A i \in 1 .. Len(q) : s[i] = After(q[i], s[i - 1], n)
  /\ \A i, j \in 0 .. Len(q) : i <= j /\ s[i].ended # None => s[j] = s[i]

LEMMA AppendExplained ==
  ASSUME NEW S, NEW q \in Seq(S), NEW m \in S, NEW n,
         NEW s, NEW from, NEW to, Explains(s, q, from, to, n)
  PROVE  \E z : Explains(z, Append(q, m), from, After(m, to, n), n)
<1> DEFINE last == Len(q) + 1
           more == Append(q, m)
           z == [i \in 0 .. last |-> IF i = last THEN After(m, to, n) ELSE s[i]]
<1>1. /\ Len(q) \in Nat /\ Len(more) = last /\ more[last] = m
      /\ \A i \in 1 .. Len(q) : more[i] = q[i]
  OBVIOUS
<1>2. /\ z[last] = After(m, to, n)
      /\ \A i \in 0 .. Len(q) : z[i] = s[i]
  BY <1>1
<1>3. /\ s[Len(q)] = to /\ s[0] = from
      /\ \A i \in 1 .. Len(q) : s[i] = After(q[i], s[i - 1], n)
      /\ \A i, j \in 0 .. Len(q) : i <= j /\ s[i].ended # None => s[j] = s[i]
  BY DEF Explains
<1> HIDE DEF z, more
<1>4. \A i \in 1 .. last : z[i] = After(more[i], z[i - 1], n)
  <2>1. ASSUME NEW i \in 1 .. Len(q) PROVE z[i] = After(more[i], z[i - 1], n)
    <3>1. i - 1 \in 0 .. Len(q) /\ i \in 0 .. Len(q)
      BY <1>1
    <3>2. QED
      BY <1>1, <1>2, <1>3, <3>1
  <2>2. z[last] = After(more[last], z[last - 1], n)
    BY <1>1, <1>2, <1>3
  <2>3. QED
    BY <1>1, <2>1, <2>2
<1>5. ASSUME NEW i \in 0 .. last, NEW j \in 0 .. last, i <= j,
             z[i].ended # None
      PROVE  z[j] = z[i]
  <2>1. CASE j \in 0 .. Len(q)
    <3>1. i \in 0 .. Len(q)
      BY <1>1, <1>5, <2>1
    <3>2. QED
      BY <1>2, <1>3, <1>5, <2>1, <3>1
  <2>2. CASE j = last /\ i \in 0 .. Len(q)
    <3>1. s[i].ended # None /\ s[i] = s[Len(q)]
      BY <1>1, <1>2, <1>3, <1>5, <2>2
    <3>2. After(m, to, n) = to
      BY <1>3, <3>1 DEF After
    <3>3. QED
      BY <1>2, <1>3, <2>2, <3>1, <3>2
  <2>3. CASE i = last
    BY <1>1, <1>5, <2>3
  <2>4. QED
    BY <1>1, <2>1, <2>2, <2>3
<1>6. Explains(z, more, from, After(m, to, n), n)
  BY <1>1, <1>2, <1>3, <1>4, <1>5 DEF Explains
<1>7. QED
  BY <1>6 DEF more

LEMMA TailExplained ==
  ASSUME NEW S, NEW q \in Seq(S), q # <<>>, NEW n,
         NEW s, NEW from, NEW to, Explains(s, q, from, to, n)
  PROVE  /\ \E z : Explains(z, Tail(q), After(Head(q), from, n), to, n)
         /\ After(Head(q), from, n).ended # None
              => to = After(Head(q), from, n)
<1> DEFINE rest == Tail(q)
           z == [i \in 0 .. Len(q) - 1 |-> s[i + 1]]
<1>1. /\ Len(q) \in Nat /\ Len(q) >= 1 /\ Len(rest) = Len(q) - 1
      /\ Head(q) = q[1]
      /\ \A i \in 1 .. Len(q) - 1 : rest[i] = q[i + 1]
  OBVIOUS
<1>2. \A i \in 0 .. Len(q) - 1 : z[i] = s[i + 1]
  OBVIOUS
<1>3. /\ s[Len(q)] = to /\ s[0] = from
      /\ \A i \in 1 .. Len(q) : s[i] = After(q[i], s[i - 1], n)
      /\ \A i, j \in 0 .. Len(q) : i <= j /\ s[i].ended # None => s[j] = s[i]
  BY DEF Explains
<1> HIDE DEF z, rest
<1>4. s[1] = After(Head(q), from, n)
  <2>1. 1 \in 1 .. Len(q) /\ 1 - 1 = 0
    BY <1>1
  <2>2. QED
    BY <1>1, <1>3, <2>1
<1>5. z[0] = After(Head(q), from, n) /\ z[Len(rest)] = to
  BY <1>1, <1>2, <1>3, <1>4
<1>6. ASSUME NEW i \in 1 .. Len(rest)
      PROVE  z[i] = After(rest[i], z[i - 1], n)
  <2>1. /\ i \in 0 .. Len(q) - 1 /\ i - 1 \in 0 .. Len(q) - 1
        /\ i + 1 \in 1 .. Len(q) /\ (i + 1) - 1 = i /\ (i - 1) + 1 = i
    BY <1>1
  <2>2. s[i + 1] = After(q[i + 1], s[i], n)
    BY <1>3, <2>1
  <2>3. QED
    BY <1>1, <1>2, <2>1, <2>2
<1>7. ASSUME NEW i \in 0 .. Len(rest), NEW j \in 0 .. Len(rest), i <= j,
             z[i].ended # None
      PROVE  z[j] = z[i]
  <2>1. /\ i + 1 \in 0 .. Len(q) /\ j + 1 \in 0 .. Len(q) /\ i + 1 <= j + 1
        /\ i \in 0 .. Len(q) - 1 /\ j \in 0 .. Len(q) - 1
    BY <1>1, <1>7
  <2>2. QED
    BY <1>2, <1>3, <1>7, <2>1
<1>8. Explains(z, rest, After(Head(q), from, n), to, n)
  BY <1>5, <1>6, <1>7 DEF Explains
<1>9. s[1].ended # None => s[Len(q)] = s[1]
  BY <1>1, <1>3
<1>10. QED
  BY <1>3, <1>4, <1>8, <1>9 DEF rest

\* Messages of other turns explain nothing.
LEMMA OthersExplain ==
  ASSUME NEW S, NEW q \in Seq(S), NEW n, NEW v,
         \A i \in DOMAIN q : q[i] = ReaderStopped \/ q[i].turn # n
  PROVE  \E z : Explains(z, q, v, v, n)
<1> DEFINE z == [i \in 0 .. Len(q) |-> v]
<1>1. Len(q) \in Nat /\ DOMAIN q = 1 .. Len(q)
  OBVIOUS
<1>2. \A i \in 0 .. Len(q) : z[i] = v
  OBVIOUS
<1> HIDE DEF z
<1>3. \A i \in 1 .. Len(q) : z[i] = After(q[i], z[i - 1], n)
  <2>1. SUFFICES ASSUME NEW i \in 1 .. Len(q)
                 PROVE  z[i] = After(q[i], z[i - 1], n)
    OBVIOUS
  <2>2. z[i] = v /\ z[i - 1] = v
    BY <1>1, <1>2
  <2>3. After(q[i], v, n) = v
    BY <1>1 DEF After
  <2>4. QED
    BY <2>2, <2>3
<1>4. Explains(z, q, v, v, n)
  BY <1>1, <1>2, <1>3 DEF Explains
<1>5. QED
  BY <1>4

-----------------------------------------------------------------------------
(* The client's account of the turn agrees with what the App Server did *)

\* While a turn is followed, the messages in the queue lead from what the client
\* knows of the turn to what the App Server did in it.
Explained ==
  Follows => \E s : Explains(s, queue, ClientView, LedgerView, turns)

\* An answer that is about to be delivered is that of its turn.
Own ==
  Answered =>
    /\ job.answer = ledger.said /\ job.answer # None
    /\ ledger.thread = job.thread /\ ledger.ended = "completed"
    /\ ledger.hooked /\ \A r \in Runs : ledger.open[r] = None

Accounts ==
  SlotInv /\ NoTurnIsLeft /\ TurnInv /\ MessagesInv /\ Explained /\ Own

LEMMA ViewsFollowState ==
  /\ UNCHANGED <<job, hooks>> => ClientView' = ClientView
  /\ UNCHANGED ledger => LedgerView' = LedgerView
BY DEF ClientView, LedgerView

LEMMA SlotStepExplained ==
  ASSUME TurnTyped, Explained, Own, SlotStep
  PROVE  Explained' /\ Own'
<1>1. Outside
  BY SlotStepOutside
<1>2. CASE Begun
  <2>1. /\ Follows /\ job' = [job EXCEPT !.turn = reply]
        /\ UNCHANGED <<ledger, queue, hooks, turns>>
    BY <1>2 DEF Begun, GoesTo, Follows, client, server, history
  <2>2. job'.answer = job.answer
    BY <2>1 DEF TurnTyped, SlotTyped, Jobs
  <2>3. ClientView' = ClientView /\ LedgerView' = LedgerView
    BY <2>1, <2>2 DEF ClientView, LedgerView
  <2>4. PICK s : Explains(s, queue, ClientView, LedgerView, turns)
    BY <2>1 DEF Explained
  <2>5. Explains(s, queue', ClientView', LedgerView', turns')
    BY <2>1, <2>3, <2>4
  <2>6. ~Answered'
    BY <1>2 DEF Begun, GoesTo, Answered
  <2>7. QED
    BY <2>5, <2>6 DEF Explained, Own
<1>3. CASE ~Begun
  BY <1>1, <1>3 DEF Outside, Explained, Own
<1>4. QED
  BY <1>2, <1>3

\* The loop of a turn raises: nothing is followed any more.
LEMMA RaisesAccounts ==
  ASSUME TurnTyped, Accounts, pc = "follow", Raises, FollowFrame,
         \A i \in DOMAIN queue' : UpTo(queue'[i], turns),
         \A i \in DOMAIN buffer' : UpTo(buffer'[i], turns)
  PROVE  Accounts'
<1>1. pc' = "interrupt" /\ UNCHANGED <<stdin, running, turns>>
  BY DEF Raises, GoesTo, FollowFrame, server
<1>2. ~Follows' /\ ~Answered' /\ ~Preparing'
  BY <1>1 DEF Follows, Answered, Preparing, Early
<1>3. QED
  BY <1>1, <1>2
  DEF Accounts, SlotInv, NoTurnIsLeft, TurnInv, MessagesInv, Explained, Own

\* It goes on: the client's account has advanced by the message at the head.
LEMMA ContinuesAccounts ==
  ASSUME TurnTyped, Accounts, pc = "follow", pc' = "follow", FollowFrame,
         UNCHANGED ledger,
         job'.thread = job.thread, job'.turn = job.turn,
         \A i \in DOMAIN queue' : \E k \in DOMAIN queue : queue'[i] = queue[k],
         \A i \in DOMAIN buffer' : \/ \E k \in DOMAIN buffer : buffer'[i] = buffer[k]
                                   \/ /\ buffer'[i].turn \in Nat
                                      /\ buffer'[i].turn < turns,
         \E s : Explains(s, queue', ClientView', LedgerView', turns)
  PROVE  Accounts'
<1>1. UNCHANGED <<stdin, running, turns, reply>> /\ turns \in Nat
  BY DEF FollowFrame, server, TurnTyped, ServerTyped
<1>2. Follows /\ Follows' /\ ~Answered' /\ ~Preparing'
  BY DEF Follows, Answered, Preparing, Early
<1>3. SlotInv' /\ NoTurnIsLeft' /\ TurnInv' /\ Explained' /\ Own'
  BY <1>1, <1>2 DEF Accounts, SlotInv, NoTurnIsLeft, TurnInv, Explained, Own
<1>4. \A i \in DOMAIN queue' :
        /\ UpTo(queue'[i], turns)
        /\ queue'[i] # ReaderStopped /\ queue'[i].turn = turns
             => queue'[i].thread = job.thread
  BY <1>2 DEF Accounts, MessagesInv
<1>5. ASSUME NEW i \in DOMAIN buffer'
      PROVE  /\ UpTo(buffer'[i], turns)
             /\ buffer'[i] # ReaderStopped => buffer'[i].turn < turns
  <2>1. CASE \E k \in DOMAIN buffer : buffer'[i] = buffer[k]
    BY <1>2, <2>1 DEF Accounts, MessagesInv
  <2>2. CASE buffer'[i].turn \in Nat /\ buffer'[i].turn < turns
    BY <1>1, <2>2 DEF UpTo
  <2>3. QED
    BY <2>1, <2>2
<1>6. MessagesInv'
  BY <1>1, <1>4, <1>5 DEF MessagesInv
<1>7. QED
  BY <1>3, <1>6 DEF Accounts

\* A message of the turn has its effect; one of no turn has none.
LEMMA MatchedEffect ==
  ASSUME TurnTyped, Accounts, pc = "follow", NEW m \in Message,
         Matches(m, job.thread, job.turn), m.method # "_protocol/error"
  PROVE  /\ job.turn = turns /\ turns \in Nat /\ turns >= 1
         /\ m.method \in {"item/completed", "turn/completed"} => m.turn = turns
         /\ m.turn \in {NoTurn, turns}
         /\ m.turn = NoTurn => /\ m.method \in {"warning", "thread/status/changed"}
                               /\ Effect(m, ClientView) = ClientView
         /\ After(m, ClientView, turns) = Effect(m, ClientView)
<1>1. job.turn = turns /\ turns \in Nat /\ turns >= 1
  BY DEF Accounts, TurnInv, Follows, TurnTyped, ServerTyped
<1>2. /\ m.method \in {"item/completed", "turn/completed"} => m.turn = turns
      /\ m.turn \in {NoTurn, turns}
  BY <1>1 DEF Matches
<1>3. ASSUME m.turn = NoTurn
      PROVE  /\ m.method \in {"warning", "thread/status/changed"}
             /\ Effect(m, ClientView) = ClientView
  <2>1. m.method \in {"warning", "thread/status/changed"}
    BY <1>3, MessageKinds DEF Positive, NoTurn
  <2>2. QED
    BY <2>1 DEF Effect
<1>4. After(m, ClientView, turns) = Effect(m, ClientView)
  <2>1. m # ReaderStopped /\ ClientView.ended = None
    BY DEF ReaderStopped, ClientView
  <2>2. CASE m.turn = turns
    BY <2>1, <2>2 DEF After
  <2>3. CASE m.turn # turns
    BY <1>2, <1>3, <2>1, <2>3 DEF After
  <2>4. QED
    BY <2>2, <2>3
<1>5. QED
  BY <1>1, <1>2, <1>3, <1>4

\* It returns: the answer is the turn's, and all its tools had their hooks.
LEMMA ReturnsAccounts ==
  ASSUME TurnTyped, Accounts, pc = "follow", Returns, FollowFrame,
         NEW m \in Message, Matches(m, job.thread, job.turn),
         m.method = "turn/completed", m.status = "completed",
         job.answer # None, \A r \in Runs : hooks.active[r] = None,
         After(m, ClientView, turns).ended # None
           => LedgerView = After(m, ClientView, turns),
         \A i \in DOMAIN queue' : UpTo(queue'[i], turns),
         \A i \in DOMAIN buffer' : UpTo(buffer'[i], turns)
  PROVE  Accounts'
<1>1. /\ pc' = "check" /\ goal' = "deliver"
      /\ UNCHANGED <<stdin, running, turns, job, ledger>>
  BY DEF Returns, Checks, FollowFrame, server
<1>2. ~Follows' /\ ~Preparing' /\ Follows
  BY <1>1 DEF Follows, Preparing, Early
<1>3. LedgerView = [ClientView EXCEPT !.ended = "completed"]
  <2>1. After(m, ClientView, turns) = [ClientView EXCEPT !.ended = "completed"]
    BY MatchedEffect DEF Effect
  <2>2. [ClientView EXCEPT !.ended = "completed"].ended # None
    BY BoundsAreNatural DEF ClientView
  <2>3. QED
    BY <2>1, <2>2
<1>4. /\ ledger.said = job.answer /\ ledger.hooked /\ ledger.ended = "completed"
      /\ ledger.open = hooks.active
  BY <1>3 DEF LedgerView, ClientView
<1>5. running = NoTurn /\ stdin = None /\ ledger.thread = job.thread
  BY <1>2, <1>4, BoundsAreNatural DEF Accounts, TurnInv
<1>6. Own'
  BY <1>1, <1>4, <1>5 DEF Own
<1>7. QED
  BY <1>1, <1>2, <1>5, <1>6
  DEF Accounts, SlotInv, NoTurnIsLeft, TurnInv, MessagesInv, Explained

LEMMA FollowBufferedAccounts ==
  ASSUME TurnTyped, Accounts, FollowBuffered
  PROVE  Accounts'
<1>1. buffer \in Seq(Message) /\ pc = "follow" /\ Follows
  BY DEF TurnTyped, ClientTyped, FollowBuffered, Follows
<1>2. PICK i : /\ i = CHOOSE k \in Wanted : \A j \in Wanted : k <= j
               /\ Handles(buffer[i]) /\ buffer' = RemoveAt(buffer, i)
  BY DEF FollowBuffered
<1>3. i \in DOMAIN buffer /\ Matches(buffer[i], job.thread, job.turn)
  BY <1>2, WantedIsThere DEF FollowBuffered, Wanted
<1>4. /\ buffer[i] \in Message
      /\ \A j \in DOMAIN buffer' : \E k \in DOMAIN buffer : buffer'[j] = buffer[k]
  <2>1. buffer[i] \in Message
    BY <1>1, <1>3
  <2>2. \A j \in DOMAIN RemoveAt(buffer, i) :
          \E k \in DOMAIN buffer : RemoveAt(buffer, i)[j] = buffer[k]
    BY <1>1, <1>3, RemoveAtLeaves
  <2>3. QED
    BY <1>2, <2>1, <2>2
<1>5. FollowFrame /\ queue' = queue
  BY DEF FollowBuffered, FollowFrame
<1>6. ASSUME buffer[i].method # "_protocol/error"
      PROVE  /\ buffer[i].method \in {"warning", "thread/status/changed"}
             /\ Effect(buffer[i], ClientView) = ClientView
  <2>1. buffer[i].turn < turns
    BY <1>1, <1>3, <1>6 DEF Accounts, MessagesInv, ReaderStopped
  <2>2. QED
    BY <1>1, <1>3, <1>4, <1>6, <2>1, MatchedEffect
<1>7. CASE Raises
  <2>1. /\ \A j \in DOMAIN queue' : UpTo(queue'[j], turns)
        /\ \A j \in DOMAIN buffer' : UpTo(buffer'[j], turns)
    BY <1>4, <1>5 DEF Accounts, MessagesInv
  <2>2. QED
    BY <1>1, <1>5, <1>7, <2>1, RaisesAccounts
<1>8. CASE ~Raises
  <2>1. /\ Continues /\ buffer[i].method # "_protocol/error"
        /\ job' = [job EXCEPT !.answer = job'.answer]
        /\ ClientView' = Effect(buffer[i], ClientView)
    BY <1>2, <1>4, <1>6, <1>8, HandlesOutcome
  <2>2. pc' = "follow" /\ UNCHANGED ledger
    BY <2>1 DEF Continues, GoesTo, history
  <2>3. job'.thread = job.thread /\ job'.turn = job.turn
    BY <2>1 DEF TurnTyped, SlotTyped, Jobs
  <2>4. ClientView' = ClientView /\ LedgerView' = LedgerView
    BY <1>6, <2>1, <2>2, ViewsFollowState
  <2>5. \E s : Explains(s, queue', ClientView', LedgerView', turns)
    BY <1>1, <1>5, <2>4 DEF Accounts, Explained
  <2>6. QED
    BY <1>1, <1>4, <1>5, <2>2, <2>3, <2>5, ContinuesAccounts
<1>9. QED
  BY <1>7, <1>8

LEMMA FollowQueuedAccounts ==
  ASSUME TurnTyped, Accounts, FollowQueued
  PROVE  Accounts'
<1> DEFINE m == Head(queue)
<1>1. /\ queue \in Seq(Message) /\ buffer \in Seq(Message) /\ queue # <<>>
      /\ queue' = Tail(queue) /\ pc = "follow" /\ FollowFrame /\ Follows
  BY DEF TurnTyped, ClientTyped, FollowQueued, FollowFrame, Follows
<1>2. /\ m \in Message /\ m = queue[1] /\ 1 \in DOMAIN queue
      /\ \A i \in DOMAIN queue' : \E k \in DOMAIN queue : queue'[i] = queue[k]
  <2>1. /\ Len(queue) \in Nat /\ Len(queue) >= 1 /\ Len(queue') = Len(queue) - 1
        /\ queue' \in Seq(Message)
    BY <1>1
  <2>2. ASSUME NEW i \in DOMAIN queue'
        PROVE  i + 1 \in DOMAIN queue /\ queue'[i] = queue[i + 1]
    BY <1>1, <2>1
  <2>3. QED
    BY <1>1, <2>1, <2>2
<1>3. PICK s : Explains(s, queue, ClientView, LedgerView, turns)
  BY <1>1 DEF Accounts, Explained
<1>4. /\ \E z : Explains(z, queue', After(m, ClientView, turns), LedgerView, turns)
      /\ After(m, ClientView, turns).ended # None
           => LedgerView = After(m, ClientView, turns)
  BY <1>1, <1>3, TailExplained
<1>5. \A i \in DOMAIN queue' : UpTo(queue'[i], turns)
  BY <1>2 DEF Accounts, MessagesInv
<1>6. CASE Matches(m, job.thread, job.turn)
  <2>1. Handles(m) /\ buffer' = buffer
    BY <1>6 DEF FollowQueued
  <2>2. \A i \in DOMAIN buffer' : UpTo(buffer'[i], turns)
    BY <2>1 DEF Accounts, MessagesInv
  <2>3. CASE Raises
    BY <1>1, <1>5, <2>2, <2>3, RaisesAccounts
  <2>4. CASE /\ Returns
             /\ m.method = "turn/completed" /\ m.status = "completed"
             /\ job.answer # None
             /\ \A r \in Runs : hooks.active[r] = None
    <3> HIDE DEF m
    <3>1. QED
      BY <1>1, <1>2, <1>4, <1>5, <1>6, <2>2, <2>4, ReturnsAccounts
  <2>5. CASE /\ Continues /\ m.method # "_protocol/error"
             /\ job' = [job EXCEPT !.answer = job'.answer]
             /\ ClientView' = Effect(m, ClientView)
    <3>1. pc' = "follow" /\ UNCHANGED ledger
      BY <2>5 DEF Continues, GoesTo, history
    <3>2. job'.thread = job.thread /\ job'.turn = job.turn
      BY <2>5 DEF TurnTyped, SlotTyped, Jobs
    <3>3. ClientView' = After(m, ClientView, turns) /\ LedgerView' = LedgerView
      BY <1>1, <1>2, <1>6, <2>5, <3>1, MatchedEffect, ViewsFollowState
    <3>4. \E z : Explains(z, queue', ClientView', LedgerView', turns)
      BY <1>4, <3>3
    <3>5. \A i \in DOMAIN buffer' : \E k \in DOMAIN buffer : buffer'[i] = buffer[k]
      BY <2>1
    <3>6. QED
      BY <1>1, <1>2, <3>1, <3>2, <3>4, <3>5, ContinuesAccounts
  <2>6. QED
    BY <1>2, <2>1, <2>3, <2>4, <2>5, HandlesOutcome
<1>7. CASE ~Matches(m, job.thread, job.turn)
  <2>1. buffer' = Append(buffer, m) /\ m.method # "_protocol/error"
    BY <1>7 DEF FollowQueued, Matches
  <2>2. /\ turns \in Nat /\ job.turn = turns
        /\ m.turn \in Nat /\ m.turn <= turns /\ m # ReaderStopped
        /\ m.turn = turns => m.thread = job.thread
    <3>1. m # ReaderStopped /\ m.turn \in Nat
      BY <1>2, <2>1, MessageKinds DEF ReaderStopped
    <3>2. QED
      BY <1>1, <1>2, <3>1
      DEF Accounts, MessagesInv, TurnInv, UpTo, TurnTyped, ServerTyped
  <2>3. m.turn # turns
    BY <1>7, <2>2 DEF Matches
  <2>4. m.turn < turns
    BY <2>2, <2>3
  <2>5. \A i \in DOMAIN buffer' : \/ \E k \in DOMAIN buffer : buffer'[i] = buffer[k]
                                  \/ buffer'[i] = m
    <3>1. SUFFICES ASSUME NEW i \in DOMAIN buffer'
                   PROVE  \/ \E k \in DOMAIN buffer : buffer'[i] = buffer[k]
                          \/ buffer'[i] = m
      OBVIOUS
    <3>2. CASE i \in DOMAIN buffer
      <4>1. buffer'[i] = buffer[i]
        BY <1>1, <1>2, <2>1, <3>2
      <4>2. QED
        BY <3>2, <4>1
    <3>3. CASE i \notin DOMAIN buffer
      <4>1. i = Len(buffer) + 1
        BY <1>1, <1>2, <2>1, <3>1, <3>3
      <4>2. QED
        BY <1>1, <1>2, <2>1, <4>1
    <3>4. QED
      BY <3>2, <3>3
  <2> HIDE DEF m
  <2>6. CASE Raises
    <3>1. \A i \in DOMAIN buffer' : UpTo(buffer'[i], turns)
      BY <2>2, <2>5 DEF Accounts, MessagesInv, UpTo
    <3>2. QED
      BY <1>1, <1>5, <2>6, <3>1, RaisesAccounts
  <2>7. CASE UNCHANGED <<pc, todo, goal, job, hooks, history>>
    <3>1. After(m, ClientView, turns) = ClientView
      BY <2>3 DEF After
    <3>2. ClientView' = ClientView /\ LedgerView' = LedgerView
      BY <2>7, ViewsFollowState DEF history
    <3>3. \E z : Explains(z, queue', ClientView', LedgerView', turns)
      BY <1>4, <3>1, <3>2
    <3>4. \A i \in DOMAIN buffer' :
            \/ \E k \in DOMAIN buffer : buffer'[i] = buffer[k]
            \/ buffer'[i].turn \in Nat /\ buffer'[i].turn < turns
      BY <2>2, <2>4, <2>5
    <3>5. pc' = "follow" /\ job' = job /\ ledger' = ledger
      BY <1>1, <2>7 DEF history
    <3>6. QED
      BY <1>1, <1>2, <3>3, <3>4, <3>5, ContinuesAccounts
  <2>8. QED
    BY <1>7, <2>6, <2>7 DEF FollowQueued, m
<1>8. QED
  BY <1>6, <1>7

LEMMA FollowStepAccounts ==
  ASSUME TurnTyped, Accounts, FollowStep
  PROVE  Accounts'
<1>1. CASE Deadline
  <2>1. /\ pc = "follow" /\ Raises /\ FollowFrame
        /\ UNCHANGED <<queue, buffer>>
    BY <1>1 DEF Deadline, FollowFrame
  <2>2. /\ \A j \in DOMAIN queue' : UpTo(queue'[j], turns)
        /\ \A j \in DOMAIN buffer' : UpTo(buffer'[j], turns)
    BY <2>1 DEF Accounts, MessagesInv
  <2>3. QED
    BY <2>1, <2>2, RaisesAccounts
<1>2. QED
  BY <1>1, FollowBufferedAccounts, FollowQueuedAccounts DEF FollowStep

\* A line is appended to the queue, and to the account of its turn.
LEMMA WrittenAccounts ==
  ASSUME TurnTyped, Accounts, NEW m \in Message, WrittenLine(m)
  PROVE  Accounts'
<1>1. /\ queue \in Seq(Message) /\ queue' = Append(queue, m)
      /\ UNCHANGED <<pc, todo, goal, job, buffer, hooks, reply, stdin, turns>>
  BY DEF TurnTyped, ClientTyped, WrittenLine, Reads
<1>2. /\ (Follows' <=> Follows) /\ (Answered' <=> Answered)
      /\ (Preparing' <=> Preparing)
  BY <1>1 DEF Follows, Answered, Preparing
<1>3. /\ m # ReaderStopped /\ m.turn <= turns
      /\ running' \in {running, NoTurn} /\ ledger'.thread = ledger.thread
  BY DEF WrittenLine
<1>4. SlotInv' /\ NoTurnIsLeft'
  BY <1>1, <1>2, <1>3 DEF Accounts, SlotInv, NoTurnIsLeft
<1>5. \A i \in DOMAIN queue' : queue'[i] = m \/
                               (i \in DOMAIN queue /\ queue'[i] = queue[i])
  <2>1. SUFFICES ASSUME NEW i \in DOMAIN queue', i \notin DOMAIN queue
                 PROVE  queue'[i] = m
    BY <1>1
  <2>2. i = Len(queue) + 1
    BY <1>1, <2>1
  <2>3. QED
    BY <1>1, <2>2
<1>6. ASSUME Follows
      PROVE  /\ m.turn = turns => m.thread = job.thread
             /\ LedgerView' = After(m, LedgerView, turns)
             /\ ledger'.ended # None => running' = NoTurn
             /\ ledger.thread = job.thread
  <2>1. /\ turns >= 1 /\ turns \in Nat /\ ledger.thread = job.thread
        /\ ledger.ended # None => running = NoTurn
    BY <1>6 DEF Accounts, TurnInv, TurnTyped, ServerTyped
  <2>2. CASE /\ running # NoTurn /\ pc \in {"starting", "follow"}
             /\ m.turn = turns /\ m.thread = job.thread
             /\ LedgerView' = Effect(m, LedgerView)
             /\ ledger'.ended # ledger.ended => running' = NoTurn
    <3>1. ledger.ended = None
      BY <2>1, <2>2
    <3>2. LedgerView.ended = None
      BY <3>1 DEF LedgerView
    <3>3. After(m, LedgerView, turns) = Effect(m, LedgerView)
      BY <1>3, <2>2, <3>2 DEF After
    <3>4. QED
      BY <2>1, <2>2, <3>1, <3>3
  <2>3. CASE /\ LedgerView' = LedgerView /\ running' = running
             /\ m.turn = turns =>
                  turns = 0 \/ (ledger.ended # None /\ m.thread = ledger.thread)
    <3>1. LedgerView.ended = ledger.ended /\ ledger'.ended = ledger.ended
      BY <2>3 DEF LedgerView
    <3>2. After(m, LedgerView, turns) = LedgerView
      BY <2>1, <2>3, <3>1 DEF After
    <3>3. QED
      BY <2>1, <2>3, <3>1, <3>2
  <2>4. QED
    BY <2>2, <2>3 DEF WrittenLine
<1>7. TurnInv'
  BY <1>1, <1>2, <1>3, <1>6 DEF Accounts, TurnInv
<1>8. MessagesInv'
  BY <1>1, <1>2, <1>3, <1>5, <1>6 DEF Accounts, MessagesInv, UpTo
<1>9. Explained'
  <2>1. SUFFICES ASSUME Follows
                 PROVE  \E z : Explains(z, queue', ClientView', LedgerView', turns')
    BY <1>2 DEF Explained
  <2>2. PICK s : Explains(s, queue, ClientView, LedgerView, turns)
    BY <2>1 DEF Accounts, Explained
  <2>3. \E z : Explains(z, Append(queue, m), ClientView,
                        After(m, LedgerView, turns), turns)
    BY <1>1, <2>2, AppendExplained
  <2>4. QED
    BY <1>1, <1>6, <2>1, <2>3, ViewsFollowState
<1>10. Own'
  <2>1. SUFFICES ASSUME Answered PROVE Own'
    BY <1>2 DEF Own
  <2>2. LedgerView' = LedgerView
    BY <2>1 DEF Answered, WrittenLine
  <2>3. /\ ledger'.said = ledger.said /\ ledger'.open = ledger.open
        /\ ledger'.hooked = ledger.hooked /\ ledger'.ended = ledger.ended
    BY <2>2 DEF LedgerView
  <2>4. QED
    BY <1>1, <1>2, <1>3, <2>1, <2>3 DEF Accounts, Own
<1>11. QED
  BY <1>4, <1>7, <1>8, <1>9, <1>10 DEF Accounts

\* A turn starts: none of the messages is of it, and both accounts are new.
LEMMA StartTurnAccounts ==
  ASSUME TurnTyped, ClientInv, Accounts, StartTurn
  PROVE  Accounts'
<1>1. /\ queue \in Seq(Message) /\ buffer \in Seq(Message) /\ turns \in Nat
      /\ stdin # None /\ turns' = turns + 1 /\ running' = turns + 1
      /\ stdin' = None
      /\ ledger' = [NewLedger EXCEPT !.lines = ledger.lines, !.thread = stdin]
      /\ reply' = IF pc = "starting" /\ Serving THEN turns + 1 ELSE reply
      /\ UNCHANGED <<pc, goal, job, queue, buffer, hooks>>
  BY DEF TurnTyped, ClientTyped, ServerTyped, StartTurn, client
<1>2. ~Follows /\ turns < MaxTurns
  BY <1>1 DEF Accounts, SlotInv, TurnInv
<1>3. pc \in {"starting", "interrupt", "failing"} \/ (pc = "check" /\ goal = "failing")
  BY <1>1, <1>2 DEF Accounts, NoTurnIsLeft, Follows
<1>4. ~Preparing' /\ ~Answered'
  BY <1>1, <1>3 DEF Preparing, Answered, Early
<1>5. NoTurnIsLeft'
  BY <1>1, <1>3 DEF NoTurnIsLeft
<1>6. SlotInv'
  BY <1>1, <1>2, <1>4, BoundsAreNatural DEF Accounts, SlotInv
<1>7. ASSUME Follows'
      PROVE  /\ pc = "starting" /\ reply' = turns + 1
             /\ job.thread = stdin /\ job.answer = None /\ hooks = NoHooks
  <2>1. pc = "starting"
    BY <1>1, <1>2, <1>3, <1>7 DEF Follows
  <2>2. reply = NoTurn
    BY <1>2, <2>1 DEF Follows
  <2>3. reply' = turns + 1
    BY <1>1, <1>7, <2>1, <2>2 DEF Follows
  <2>4. QED
    BY <1>1, <2>1, <2>3 DEF Accounts, SlotInv, ClientInv
<1>8. /\ ledger'.thread = stdin /\ ledger'.ended = None
      /\ LedgerView' = [said |-> None, spare |-> [o \in Orders |-> 0],
                        open |-> [r \in Runs |-> None], hooked |-> TRUE,
                        ended |-> None]
  BY <1>1 DEF NewLedger, LedgerView
<1>9. TurnInv'
  BY <1>1, <1>7, <1>8 DEF TurnInv
<1>10. /\ \A i \in DOMAIN queue : queue[i] # ReaderStopped =>
             queue[i].turn \in Nat /\ queue[i].turn <= turns
       /\ \A i \in DOMAIN buffer : buffer[i] # ReaderStopped =>
             buffer[i].turn \in Nat /\ buffer[i].turn <= turns
  BY <1>1, MessageKinds DEF Accounts, MessagesInv, UpTo
<1>11. MessagesInv'
  <2>1. \A k \in Nat : k <= turns => k <= turns + 1 /\ k < turns + 1 /\ k # turns + 1
    BY <1>1
  <2>2. QED
    BY <1>1, <1>10, <2>1 DEF MessagesInv, UpTo
<1>12. Explained'
  <2>1. SUFFICES ASSUME Follows'
                 PROVE  \E z : Explains(z, queue', ClientView', LedgerView', turns')
    BY DEF Explained
  <2>2. ClientView' = LedgerView'
    <3>1. /\ job'.answer = None
          /\ hooks'.credits = [o \in Orders |-> 0]
          /\ hooks'.active = [r \in Runs |-> None]
      BY <1>1, <1>7, <2>1 DEF NoHooks
    <3>2. QED
      BY <1>8, <3>1 DEF ClientView
  <2>3. \A i \in DOMAIN queue : queue[i] = ReaderStopped \/ queue[i].turn # turns + 1
    BY <1>1, <1>10
  <2>4. \E z : Explains(z, queue, LedgerView', LedgerView', turns + 1)
    BY <1>1, <2>3, OthersExplain
  <2>5. QED
    BY <1>1, <2>2, <2>4
<1>13. QED
  BY <1>4, <1>5, <1>6, <1>9, <1>11, <1>12 DEF Accounts, Own

LEMMA ReaderStopsAccounts ==
  ASSUME TurnTyped, Accounts, ReaderStops
  PROVE  Accounts'
<1>1. /\ queue \in Seq(Message) /\ ReaderStopped \in Message
      /\ queue' = Append(queue, ReaderStopped)
      /\ running' \in {running, NoTurn}
      /\ UNCHANGED <<pc, goal, job, buffer, hooks, reply, stdin, turns, ledger>>
  BY DEF TurnTyped, ClientTyped, Message, ReaderStops, history
<1>2. /\ (Follows' <=> Follows) /\ (Answered' <=> Answered)
      /\ (Preparing' <=> Preparing)
  BY <1>1 DEF Follows, Answered, Preparing
<1>3. \A i \in DOMAIN queue' : queue'[i] = ReaderStopped \/
                               (i \in DOMAIN queue /\ queue'[i] = queue[i])
  <2>1. SUFFICES ASSUME NEW i \in DOMAIN queue', i \notin DOMAIN queue
                 PROVE  queue'[i] = ReaderStopped
    BY <1>1
  <2>2. i = Len(queue) + 1
    BY <1>1, <2>1
  <2>3. QED
    BY <1>1, <2>2
<1>4. Explained'
  <2>1. SUFFICES ASSUME Follows
                 PROVE  \E z : Explains(z, queue', ClientView', LedgerView', turns')
    BY <1>2 DEF Explained
  <2>2. PICK s : Explains(s, queue, ClientView, LedgerView, turns)
    BY <2>1 DEF Accounts, Explained
  <2>3. \E z : Explains(z, Append(queue, ReaderStopped), ClientView,
                        After(ReaderStopped, LedgerView, turns), turns)
    BY <1>1, <2>2, AppendExplained
  <2>4. After(ReaderStopped, LedgerView, turns) = LedgerView
    BY DEF After
  <2>5. QED
    BY <1>1, <2>3, <2>4, ViewsFollowState
<1>5. MessagesInv'
  BY <1>1, <1>2, <1>3 DEF Accounts, MessagesInv, UpTo
<1>6. SlotInv' /\ NoTurnIsLeft' /\ TurnInv' /\ Own'
  BY <1>1, <1>2 DEF Accounts, SlotInv, NoTurnIsLeft, TurnInv, Own
<1>7. QED
  BY <1>4, <1>5, <1>6 DEF Accounts

\* Neither a change of the policy nor standing still touches the accounts.
LEMMA AccountsKept ==
  ASSUME Accounts,
         UNCHANGED <<pc, goal, job, queue, buffer, hooks, reply, stdin, running,
                     turns, ledger>>
  PROVE  Accounts'
<1>1. /\ (Follows' <=> Follows) /\ (Answered' <=> Answered)
      /\ (Preparing' <=> Preparing)
  BY DEF Follows, Answered, Preparing
<1>2. Explained'
  BY <1>1, ViewsFollowState DEF Accounts, Explained
<1>3. QED
  BY <1>1, <1>2
  DEF Accounts, SlotInv, NoTurnIsLeft, TurnInv, MessagesInv, Own, UpTo

LEMMA AccountsInvariant == TurnSpec => []Accounts
<1>1. TurnTyped /\ ClientInv /\ Accounts /\ [TurnNext]_turnVars => Accounts'
  <2>1. SUFFICES ASSUME TurnTyped, ClientInv, Accounts, [TurnNext]_turnVars PROVE Accounts'
    OBVIOUS
  <2>2. CASE SlotStep
    BY <2>1, <2>2, SlotStepSlot, SlotStepTurn, SlotStepExplained DEF Accounts
  <2>3. CASE ServerStep
    BY <2>1, <2>3, ServerWrites, WrittenAccounts, StartTurnAccounts
  <2>4. ASSUME NEW part \in Parts, Drift(part) PROVE Accounts'
    BY <2>1, <2>4, AccountsKept DEF Drift, client, server, history
  <2>5. CASE UNCHANGED turnVars
    BY <2>1, <2>5, AccountsKept DEF turnVars, client, server, history
  <2>6. QED
    BY <2>1, <2>2, <2>3, <2>4, <2>5, Division, FollowStepAccounts,
       ReaderStopsAccounts
<1>2. TurnInit => Accounts
  <2>1. SUFFICES ASSUME TurnInit PROVE Accounts
    OBVIOUS
  <2>2. ~Follows /\ ~Answered /\ ~Preparing
    BY <2>1 DEF TurnInit, Follows, Answered, Preparing, Early
  <2>3. /\ turns = 0 /\ queue = <<>> /\ buffer = <<>> /\ running = NoTurn /\ stdin = None
        /\ pc = "start"
    BY <2>1 DEF TurnInit
  <2>4. QED
    BY <2>2, <2>3, BoundsAreNatural
    DEF Accounts, SlotInv, NoTurnIsLeft, TurnInv, MessagesInv, Explained, Own
<1>3. QED
  BY <1>1, <1>2, TypedInvariant, ClientInvariant, PTL DEF TurnSpec

\* Every variable keeps its type, the queue and the buffer their bounds, and the
\* credits of the hooks never go below zero.
THEOREM TurnTyping == TurnSpec => []TurnTypeOK
<1>1. TurnTyped /\ ClientInv /\ Accounts => TurnTypeOK
  <2>1. SUFFICES ASSUME TurnTyped, ClientInv, Accounts PROVE TurnTypeOK
    OBVIOUS
  <2>2. turns \in 0 .. MaxTurns
    BY <2>1, BoundsAreNatural DEF TurnTyped, ServerTyped, Accounts, SlotInv
  <2>3. QED
    BY <2>1, <2>2
    DEF TurnTypeOK, TurnTyped, SlotTyped, ClientTyped, ServerTyped, ClientInv, Jobs,
        HookStates, Places
<1>2. QED
  BY <1>1, TypedInvariant, ClientInvariant, AccountsInvariant, PTL

\* The answer that is delivered is the last message of the very turn that was
\* started for the job: no late line of another turn can pass for it, in
\* whatever order queue and buffer hold them.
THEOREM AnswersAreOwn == TurnSpec => []AnswerIsOwn
<1>1. Accounts => AnswerIsOwn
  BY DEF Accounts, Own, Answered, AnswerIsOwn
<1>2. QED
  BY <1>1, AccountsInvariant, PTL

\* Every tool of an answered turn started after its hooks had let it pass, and
\* no run of a hook was left open, whatever the App Server wrote.
THEOREM AnswersWereHooked == TurnSpec => []AnswerWasHooked
<1>1. Accounts => AnswerWasHooked
  BY DEF Accounts, Own, Answered, AnswerWasHooked
<1>2. QED
  BY <1>1, AccountsInvariant, PTL

\* Between jobs no turn is running or on its way.
THEOREM NoTurnsAreLeft == TurnSpec => []NoTurnIsLeft
BY AccountsInvariant, PTL DEF Accounts

-----------------------------------------------------------------------------
(* The policy under which a job runs *)

\* Where the slot is, or will be when its checks are made; what is left to check.
AtStep == IF pc = "check" THEN goal ELSE pc
Members(s) == {s[i] : i \in DOMAIN s}
Left == IF pc = "check" THEN Members(todo) ELSE {}

EnterParts == {VaultPolicy, Principal, ConfigFile, HookFiles}
TurnParts == EnterParts \cup {Requirements, Effective, HookList, SkillFiles, SkillList}
ThreadParts == {Response, NoMCP}
LeaveParts == {VaultPolicy, Principal, HookFiles, HookList, SkillFiles}

InTurn == {"begin", "starting", "follow", "deliver"}

\* What no longer held when the job was claimed is still to be checked, as long
\* as the job has not failed; so is what no longer held when its turn ended.
PolicyInv ==
  /\ past.claim \subseteq drifted
  /\ AtStep \in {"ensure", "resumed"} \cup InTurn
       => past.claim \cap EnterParts \subseteq Left
  /\ AtStep \in InTurn => past.claim \cap TurnParts \subseteq Left
  /\ past.fresh /\ AtStep \in {"created", "resumed"}
       => past.claim \cap ThreadParts \subseteq Left
  /\ past.fresh /\ AtStep \in InTurn => past.claim \cap ThreadParts = {}
  /\ past.fresh /\ AtStep = "ensure" /\ job.thread \in loaded
       => past.claim \cap ThreadParts = {}
  /\ AtStep = "deliver" =>
       /\ past.end \subseteq drifted \cup (IF warned THEN {HookList} ELSE {})
       /\ past.end \cap LeaveParts \subseteq Left

\* What is checked first, and then.
LEMMA MembersOfBoth ==
  ASSUME NEW S, NEW s \in Seq(S), NEW t \in Seq(S)
  PROVE  Members(s) \cup Members(t) \subseteq Members(s \o t)
<1>1. ASSUME NEW i \in DOMAIN s PROVE s[i] \in Members(s \o t)
  <2>1. i \in DOMAIN (s \o t) /\ (s \o t)[i] = s[i]
    BY <1>1
  <2>2. QED
    BY <2>1 DEF Members
<1>2. ASSUME NEW i \in DOMAIN t PROVE t[i] \in Members(s \o t)
  <2>1. /\ Len(s) + i \in DOMAIN (s \o t)
        /\ (s \o t)[Len(s) + i] = t[i]
    BY <1>2
  <2>2. QED
    BY <2>1 DEF Members
<1>3. QED
  BY <1>1, <1>2 DEF Members

LEMMA WhatIsChecked ==
  /\ EnterParts \subseteq Members(EnterChecks)
  /\ TurnParts \ EnterParts \subseteq Members(TurnChecks)
  /\ ThreadParts \subseteq Members(LoadChecks)
  /\ LeaveParts \subseteq Members(LeaveChecks)
<1>1. \A s : \A i \in DOMAIN s : s[i] \in Members(s)
  BY DEF Members
<1>2. PICK S : S = {VaultPolicy, Principal, Requirements, ConfigFile, Effective, Response,
                    HookFiles, HookList, SkillFiles, SkillList, NoMCP}
  OBVIOUS
<1>3. \A s, t \in Seq(S) : Members(s) \cup Members(t) \subseteq Members(s \o t)
  BY MembersOfBoth
<1>4. \A s, t \in Seq(S) : s \o t \in Seq(S)
  OBVIOUS
<1>5. /\ HookChecks \in Seq(S) /\ SkillChecks \in Seq(S)
      /\ HookFiles \in Members(HookChecks) /\ HookList \in Members(HookChecks)
      /\ SkillFiles \in Members(SkillChecks) /\ SkillList \in Members(SkillChecks)
  <2>1. HookChecks \in Seq(S) /\ SkillChecks \in Seq(S)
    BY <1>2 DEF HookChecks, SkillChecks
  <2>2. /\ 1 \in DOMAIN HookChecks /\ HookChecks[1] = HookFiles
        /\ 2 \in DOMAIN HookChecks /\ HookChecks[2] = HookList
        /\ 1 \in DOMAIN SkillChecks /\ SkillChecks[1] = SkillFiles
        /\ 2 \in DOMAIN SkillChecks /\ SkillChecks[2] = SkillList
    BY DEF HookChecks, SkillChecks
  <2>3. QED
    BY <1>1, <2>1, <2>2
<1>6. EnterParts \subseteq Members(EnterChecks)
  <2>1. /\ 1 \in DOMAIN EnterChecks /\ EnterChecks[1] = ConfigFile
        /\ 2 \in DOMAIN EnterChecks /\ EnterChecks[2] = VaultPolicy
        /\ 3 \in DOMAIN EnterChecks /\ EnterChecks[3] = Principal
        /\ 5 \in DOMAIN EnterChecks /\ EnterChecks[5] = HookFiles
    BY DEF EnterChecks
  <2>2. QED
    BY <1>1, <2>1 DEF EnterParts
<1>7. TurnParts \ EnterParts \subseteq Members(TurnChecks)
  <2>1. PICK first : first = <<Requirements, Effective>>
    OBVIOUS
  <2>2. /\ first \in Seq(S)
        /\ 1 \in DOMAIN first /\ first[1] = Requirements
        /\ 2 \in DOMAIN first /\ first[2] = Effective
    BY <1>2, <2>1
  <2>3. TurnChecks = (first \o HookChecks) \o SkillChecks
    BY <2>1 DEF TurnChecks
  <2>4. /\ Members(first) \cup Members(HookChecks) \subseteq Members(first \o HookChecks)
        /\ Members(first \o HookChecks) \cup Members(SkillChecks) \subseteq Members(TurnChecks)
    BY <1>3, <1>4, <1>5, <2>2, <2>3
  <2>5. Requirements \in Members(first) /\ Effective \in Members(first)
    BY <1>1, <2>2
  <2>6. QED
    BY <1>5, <2>4, <2>5 DEF TurnParts
<1>8. ThreadParts \subseteq Members(LoadChecks)
  <2>1. PICK first, last : /\ first = <<Response, Requirements, Effective>>
                           /\ last = <<NoMCP, VaultPolicy, HookFiles, Principal>>
    OBVIOUS
  <2>2. /\ first \in Seq(S) /\ 1 \in DOMAIN first /\ first[1] = Response
        /\ last \in Seq(S) /\ 1 \in DOMAIN last /\ last[1] = NoMCP
    BY <1>2, <2>1
  <2>3. PICK a, b : /\ a = first \o HookChecks /\ b = a \o SkillChecks
    OBVIOUS
  <2>4. LoadChecks = b \o last
    BY <2>1, <2>3 DEF LoadChecks
  <2>5. a \in Seq(S) /\ b \in Seq(S)
    BY <1>4, <1>5, <2>2, <2>3
  <2>6. /\ Members(first) \subseteq Members(a) /\ Members(a) \subseteq Members(b)
        /\ Members(b) \cup Members(last) \subseteq Members(LoadChecks)
    BY <1>3, <1>5, <2>2, <2>3, <2>4, <2>5
  <2>7. Response \in Members(first) /\ NoMCP \in Members(last)
    BY <1>1, <2>2
  <2>8. QED
    BY <2>6, <2>7 DEF ThreadParts
<1>9. LeaveParts \subseteq Members(LeaveChecks)
  <2>1. PICK first, last : first = <<SkillFiles>> /\ last = <<VaultPolicy, Principal>>
    OBVIOUS
  <2>2. /\ first \in Seq(S) /\ 1 \in DOMAIN first /\ first[1] = SkillFiles
        /\ last \in Seq(S) /\ 1 \in DOMAIN last /\ last[1] = VaultPolicy
        /\ 2 \in DOMAIN last /\ last[2] = Principal
    BY <1>2, <2>1
  <2>3. LeaveChecks = (first \o HookChecks) \o last
    BY <2>1 DEF LeaveChecks
  <2>4. /\ Members(first) \cup Members(HookChecks) \subseteq Members(first \o HookChecks)
        /\ Members(first \o HookChecks) \cup Members(last) \subseteq Members(LeaveChecks)
    BY <1>3, <1>4, <1>5, <2>2, <2>3
  <2>5. /\ SkillFiles \in Members(first)
        /\ VaultPolicy \in Members(last) /\ Principal \in Members(last)
    BY <1>1, <2>2
  <2>6. QED
    BY <1>5, <2>4, <2>5 DEF LeaveParts
<1>10. QED
  BY <1>6, <1>7, <1>8, <1>9

\* A part that passes its check has not drifted, so nothing is missed.
LEMMA CheckPassesPolicy ==
  ASSUME TurnTyped, PolicyInv, CheckPasses
  PROVE  PolicyInv'
<1>1. /\ pc = "check" /\ todo \in Seq(Parts) /\ todo # <<>> /\ todo' = Tail(todo)
      /\ Holds(Head(todo))
      /\ UNCHANGED <<pc, goal, job, loaded, drifted, warned, past>>
  BY DEF CheckPasses, TurnTyped, SlotTyped, client, policy, history
<1>2. Left \subseteq Left' \cup {Head(todo)}
  <2>1. SUFFICES ASSUME NEW i \in DOMAIN todo
                 PROVE  todo[i] = Head(todo) \/ todo[i] \in Members(todo')
    BY <1>1 DEF Left, Members
  <2>2. CASE i = 1
    BY <1>1, <2>2
  <2>3. CASE i # 1
    <3>1. i - 1 \in DOMAIN todo' /\ todo'[i - 1] = todo[i]
      BY <1>1, <2>1, <2>3
    <3>2. QED
      BY <3>1 DEF Members
  <2>4. QED
    BY <2>2, <2>3
<1>3. Head(todo) \notin past.claim
  BY <1>1 DEF PolicyInv, Holds
<1>4. AtStep' = AtStep
  BY <1>1 DEF AtStep
<1>5. past.end \subseteq drifted \cup (IF warned THEN {HookList} ELSE {})
        => Head(todo) \notin past.end
  BY <1>1 DEF Holds
<1>6. ASSUME NEW P, past.claim \cap P \subseteq Left
      PROVE  past'.claim \cap P \subseteq Left'
  BY <1>1, <1>2, <1>3, <1>6
<1>7. ASSUME past.end \cap LeaveParts \subseteq Left, Head(todo) \notin past.end
      PROVE  past'.end \cap LeaveParts \subseteq Left'
  BY <1>1, <1>2, <1>7
<1>8. QED
  BY <1>1, <1>4, <1>5, <1>6, <1>7 DEF PolicyInv

\* When no check is left, nothing had drifted.
LEMMA ChecksMadePolicy ==
  ASSUME TurnTyped, PolicyInv, ChecksMade
  PROVE  PolicyInv'
<1>1. /\ pc = "check" /\ pc' = goal /\ goal \in Goals /\ todo = <<>>
      /\ UNCHANGED <<job, loaded, drifted, warned, past>>
  BY DEF ChecksMade, TurnTyped, SlotTyped, client, policy, history
<1>2. pc' # "check" /\ AtStep' = AtStep
  BY <1>1 DEF AtStep, Goals, Early
<1>3. Left = {} /\ Left' = {}
  BY <1>1, <1>2 DEF Left, Members
<1>4. QED
  BY <1>1, <1>2, <1>3 DEF PolicyInv

\* A job that fails, or is over, has nothing left to show.
LEMMA FailedPolicy ==
  ASSUME PolicyInv, AtStep' \in {"start", "claim", "take", "create", "failing",
                                 "interrupt", "stopped"},
         past'.claim \subseteq drifted'
  PROVE  PolicyInv'
BY DEF PolicyInv, InTurn

LEMMA SlotStepPolicy ==
  ASSUME TurnTyped, PolicyInv, SlotStep
  PROVE  PolicyInv'
<1>1. past.claim \subseteq drifted
  BY DEF PolicyInv
<1>2. CASE Start \/ Loop \/ TakeNothing \/ Interrupt
  <2>1. AtStep' \in {"start", "claim", "take", "failing"}
    BY <1>2 DEF Start, Loop, TakeNothing, Interrupt, Checks, GoesTo, AtStep
  <2>2. UNCHANGED <<past, drifted>>
    BY <1>2 DEF Start, Loop, TakeNothing, Interrupt, policy, history
  <2>3. QED
    BY <1>1, <2>1, <2>2, FailedPolicy
<1>3. CASE CheckRaises \/ RequestFails \/ LeaseLost
  <2>1. AtStep' \in {"failing", "interrupt", "stopped"}
    BY <1>3 DEF CheckRaises, RaisesTo, RequestFails, LeaseLost, GoesTo, AtStep
  <2>2. UNCHANGED <<past, drifted>>
    BY <1>3 DEF CheckRaises, RequestFails, LeaseLost, policy, history
  <2>3. QED
    BY <1>1, <2>1, <2>2, FailedPolicy
<1>4. CASE Deliver \/ FailJob
  <2>1. AtStep' \in {"claim", "failing", "start"} /\ past' = Unseen
    BY <1>4 DEF Deliver, FailJob, GoesTo, AtStep
  <2>2. QED
    BY <2>1, FailedPolicy DEF Unseen
<1>5. ASSUME NEW t \in Threads, Take(t) PROVE PolicyInv'
  <2>1. /\ past' = [fresh |-> t \notin loaded, claim |-> drifted, end |-> {}]
        /\ UNCHANGED <<loaded, drifted>> /\ pc' = "check" /\ job'.thread = t
    BY <1>5 DEF Take, Checks, NoJob, client, policy
  <2>2. CASE t \in known
    <3>1. AtStep' = "ensure" /\ Left' = Members(EnterChecks)
      BY <1>5, <2>2 DEF Take, Checks, AtStep, Left
    <3>2. QED
      BY <2>1, <3>1, WhatIsChecked DEF PolicyInv, InTurn
  <2>3. CASE t \notin known
    BY <1>5, <2>1, <2>3, FailedPolicy DEF Take, Checks, AtStep
  <2>4. QED
    BY <2>2, <2>3
<1>6. CASE Create
  <2>1. /\ AtStep' = "created" /\ Left' = Members(LoadChecks)
        /\ UNCHANGED <<past, drifted>>
    BY <1>6 DEF Create, Checks, AtStep, Left, policy, history
  <2>2. QED
    BY <1>1, <2>1, WhatIsChecked DEF PolicyInv, InTurn
<1>7. CASE Created
  <2>1. /\ AtStep = "created" /\ Left = {} /\ AtStep' = "ensure"
        /\ Left' = Members(EnterChecks) /\ UNCHANGED <<past, drifted>>
    BY <1>7 DEF Created, Checks, AtStep, Left, policy, history
  <2>2. QED
    BY <2>1, WhatIsChecked DEF PolicyInv, InTurn
<1>8. CASE Ensure
  <2>1. AtStep = "ensure" /\ Left = {} /\ UNCHANGED <<past, drifted, loaded, job>>
    BY <1>8 DEF Ensure, AtStep, Left, client, policy, history
  <2>2. past.claim \cap EnterParts = {}
    BY <2>1 DEF PolicyInv
  <2>3. CASE job.thread \in loaded
    <3>1. AtStep' = "begin" /\ Left' = Members(TurnChecks)
      BY <1>8, <2>3 DEF Ensure, Checks, AtStep, Left
    <3>2. past.claim \cap TurnParts \subseteq Left'
      BY <2>2, <3>1, WhatIsChecked DEF TurnParts
    <3>3. past.fresh => past.claim \cap ThreadParts = {}
      BY <2>1, <2>3 DEF PolicyInv
    <3>4. QED
      BY <1>1, <2>1, <2>2, <3>1, <3>2, <3>3 DEF PolicyInv, InTurn
  <2>4. CASE job.thread \notin loaded
    <3>1. AtStep' = "resumed" /\ Left' = Members(LoadChecks)
      BY <1>8, <2>4 DEF Ensure, Checks, AtStep, Left
    <3>2. QED
      BY <1>1, <2>1, <2>2, <3>1, WhatIsChecked DEF PolicyInv, InTurn
  <2>5. QED
    BY <2>3, <2>4
<1>9. CASE Resumed
  <2>1. /\ AtStep = "resumed" /\ Left = {} /\ AtStep' = "begin"
        /\ Left' = Members(TurnChecks) /\ UNCHANGED <<past, drifted>>
    BY <1>9 DEF Resumed, Checks, AtStep, Left, policy, history
  <2>2. /\ past.claim \cap EnterParts = {}
        /\ (past.fresh => past.claim \cap ThreadParts = {})
    BY <2>1 DEF PolicyInv
  <2>3. past.claim \cap TurnParts \subseteq Left'
    BY <2>1, <2>2, WhatIsChecked DEF TurnParts
  <2>4. QED
    BY <1>1, <2>1, <2>2, <2>3 DEF PolicyInv, InTurn
<1>10. CASE BeginTurn
  <2>1. /\ AtStep = "begin" /\ Left = {} /\ AtStep' = "starting" /\ Left' = {}
        /\ UNCHANGED <<past, drifted>>
    BY <1>10 DEF BeginTurn, GoesTo, AtStep, Left, policy, history
  <2>2. QED
    BY <2>1 DEF PolicyInv, InTurn
<1>11. CASE Begun
  <2>1. /\ AtStep = "starting" /\ Left = {} /\ AtStep' \in {"follow", "interrupt"}
        /\ Left' = {} /\ UNCHANGED <<past, drifted>>
    BY <1>11 DEF Begun, GoesTo, AtStep, Left, policy, history
  <2>2. QED
    BY <2>1 DEF PolicyInv, InTurn
<1>12. QED
  BY <1>2, <1>3, <1>4, <1>5, <1>6, <1>7, <1>8, <1>9, <1>10, <1>11,
     CheckPassesPolicy, ChecksMadePolicy DEF SlotStep

\* The loop of a turn.
LEMMA LoopPolicy ==
  ASSUME PolicyInv, pc = "follow", UNCHANGED <<drifted, warned>>,
         past \in Pasts,
         \/ Raises
         \/ Returns
         \/ pc' = "follow" /\ past' = past
  PROVE  PolicyInv'
<1>1. AtStep = "follow" /\ Left = {}
  BY DEF AtStep, Left
<1>2. CASE Raises
  BY <1>2, FailedPolicy DEF Raises, GoesTo, AtStep, PolicyInv
<1>3. CASE Returns
  <2>1. /\ AtStep' = "deliver" /\ Left' = Members(LeaveChecks)
        /\ past' = [past EXCEPT !.end = drifted \cup
                                        (IF warned THEN {HookList} ELSE {})]
    BY <1>3 DEF Returns, Checks, AtStep, Left
  <2>2. /\ past'.claim = past.claim /\ past'.fresh = past.fresh
        /\ past'.end = drifted \cup (IF warned THEN {HookList} ELSE {})
    BY <2>1 DEF Pasts
  <2>3. /\ past.claim \subseteq drifted
        /\ past.claim \cap EnterParts = {} /\ past.claim \cap TurnParts = {}
        /\ past.fresh => past.claim \cap ThreadParts = {}
    BY <1>1 DEF PolicyInv, InTurn
  <2>4. QED
    BY <2>1, <2>2, <2>3, WhatIsChecked DEF PolicyInv, InTurn
<1>4. CASE pc' = "follow" /\ past' = past
  <2>1. AtStep' = "follow" /\ Left' = {}
    BY <1>4 DEF AtStep, Left
  <2>2. QED
    BY <1>1, <1>4, <2>1 DEF PolicyInv, InTurn
<1>5. QED
  BY <1>2, <1>3, <1>4

LEMMA FollowStepPolicy ==
  ASSUME TurnTyped, PolicyInv, FollowStep
  PROVE  PolicyInv'
<1>1. /\ pc = "follow" /\ UNCHANGED <<drifted, warned>> /\ past \in Pasts
      /\ queue \in Seq(Message) /\ buffer \in Seq(Message)
  BY DEF FollowStep, FollowBuffered, FollowQueued, Deadline, policy, TurnTyped,
         SlotTyped, ClientTyped
<1>2. ASSUME NEW m \in Message, Handles(m)
      PROVE  Raises \/ Returns \/ (pc' = "follow" /\ past' = past)
  BY <1>2, HandlesOutcome DEF Continues, GoesTo, history
<1>3. CASE FollowBuffered
  <2>1. PICK i : /\ i = CHOOSE k \in Wanted : \A j \in Wanted : k <= j
                 /\ Handles(buffer[i])
    BY <1>3 DEF FollowBuffered
  <2>2. i \in DOMAIN buffer
    BY <1>3, <2>1, WantedIsThere DEF FollowBuffered, Wanted
  <2>3. buffer[i] \in Message
    BY <1>1, <2>2
  <2>4. QED
    BY <1>1, <1>2, <2>1, <2>3, LoopPolicy
<1>4. CASE FollowQueued
  <2>1. \/ Handles(Head(queue))
        \/ Raises
        \/ UNCHANGED <<pc, todo, goal, job, hooks, history>>
    BY <1>4 DEF FollowQueued
  <2>2. Head(queue) \in Message
    BY <1>1, <1>4 DEF FollowQueued
  <2>3. Raises \/ Returns \/ (pc' = "follow" /\ past' = past)
    BY <1>1, <1>2, <2>1, <2>2 DEF history
  <2>4. QED
    BY <1>1, <2>3, LoopPolicy
<1>5. CASE Deadline
  BY <1>1, <1>5, LoopPolicy DEF Deadline
<1>6. QED
  BY <1>3, <1>4, <1>5 DEF FollowStep

\* Beside the slot the policy may only get worse.
LEMMA OthersPolicy ==
  ASSUME PolicyInv, UNCHANGED <<pc, todo, goal, job, loaded, past>>,
         drifted \subseteq drifted', warned => warned'
  PROVE  PolicyInv'
<1>1. AtStep' = AtStep /\ Left' = Left
  BY DEF AtStep, Left
<1>2. QED
  BY <1>1 DEF PolicyInv

LEMMA PolicyInvariant == TurnSpec => []PolicyInv
<1>1. TurnTyped /\ PolicyInv /\ [TurnNext]_turnVars => PolicyInv'
  <2>1. SUFFICES ASSUME TurnTyped, PolicyInv, [TurnNext]_turnVars PROVE PolicyInv'
    OBVIOUS
  <2>2. CASE ServerStep
    <3>1. StartTurn => UNCHANGED <<pc, todo, goal, job, loaded, past, drifted, warned>>
      BY DEF StartTurn, client, policy
    <3>2. ~StartTurn => /\ UNCHANGED <<pc, todo, goal, job, loaded, past, drifted>>
                        /\ warned => warned'
      BY <2>2
      DEF ServerStep, Reads, Writes, WriteMessage, WriteError, WriteLate,
          WriteWarning, WriteHookStarted, WriteHookCompleted,
          WriteToolStarted, WriteCompleted, WriteNews
    <3>3. QED
      BY <2>1, <3>1, <3>2, OthersPolicy
  <2>3. CASE ReaderStops
    BY <2>1, <2>3, OthersPolicy DEF ReaderStops, policy, history
  <2>4. ASSUME NEW part \in Parts, Drift(part) PROVE PolicyInv'
    BY <2>1, <2>4, OthersPolicy DEF Drift, client, history
  <2>5. CASE UNCHANGED turnVars
    BY <2>1, <2>5, OthersPolicy DEF turnVars, client, policy, history
  <2>6. QED
    BY <2>1, <2>2, <2>3, <2>4, <2>5, Division, SlotStepPolicy,
       FollowStepPolicy
<1>2. TurnInit => PolicyInv
  BY DEF TurnInit, PolicyInv, Unseen, AtStep, InTurn
<1>3. QED
  BY <1>1, <1>2, TypedInvariant, PTL DEF TurnSpec

\* No answer is delivered unless the policy held when its job was claimed, and
\* what guards the turn still held when it ended, whatever drifted meanwhile.
THEOREM AnswersAreUnderPolicy == TurnSpec => []AnswerUnderPolicy
<1>1. PolicyInv => AnswerUnderPolicy
  <2>1. SUFFICES ASSUME PolicyInv, pc = "deliver"
                 PROVE  AnswerUnderPolicy
    BY DEF AnswerUnderPolicy
  <2>2. AtStep = "deliver" /\ Left = {}
    BY <2>1 DEF AtStep, Left
  <2>3. QED
    BY <2>1, <2>2
    DEF PolicyInv, AnswerUnderPolicy, InTurn, TurnParts, EnterParts,
        ThreadParts, LeaveParts
<1>2. QED
  BY <1>1, PolicyInvariant, PTL

-----------------------------------------------------------------------------
(* What a step does to the call and to the rows *)

CallRecord == [pc : CallPc, at : 0..Count, first : BOOLEAN, id : Nat,
               retries : Nat, asked : SUBSET Chunks, scanned : BOOLEAN,
               matches : [Chunks -> Nat]]

RowRecord == [state : {"prepared", "sent"}, attempted : BOOLEAN,
              aged : BOOLEAN, ambiguous : BOOLEAN, id : Nat]

CallTyped == call \in CallRecord
RowsTyped == row \in [Chunks -> RowRecord]

\* The call goes to place with these fields.
Becomes(place, at, first, id, matches) ==
  /\ CallTyped'
  /\ call'.pc = place
  /\ call'.at = at
  /\ call'.first = first
  /\ call'.id = id
  /\ call'.matches = matches

Moves(place) == Becomes(place, call.at, call.first, call.id, call.matches)

Stops ==
  /\ CallTyped'
  /\ call'.pc = "idle"
  /\ \A i \in Chunks : call'.matches[i] = 0

\* It goes on to the next chunk, or to the end after the last one.
Advances(matches) ==
  \/ call.at = Count /\ Becomes("end", call.at, call.first, call.id, matches)
  \/ /\ call.at + 1 \in Chunks
     /\ Becomes("row", call.at + 1, call.first, call.id, matches)

\* Chunk i gets these fields and no other chunk changes.
Marks(i, state, attempted, aged, ambiguous, id) ==
  /\ RowsTyped'
  /\ row'[i].state = state
  /\ row'[i].attempted = attempted
  /\ row'[i].aged = aged
  /\ row'[i].ambiguous = ambiguous
  /\ row'[i].id = id
  /\ \A j \in Chunks : j # i => row'[j] = row[j]

Confirms(i, m) ==
  Marks(i, "sent", row[i].attempted, row[i].aged, row[i].ambiguous, m)
Quarantines(i) ==
  Marks(i, row[i].state, TRUE, row[i].aged, TRUE, row[i].id)
Stamps(i) ==
  Marks(i, row[i].state, TRUE, row[i].aged, row[i].ambiguous, row[i].id)
Unstamps(i) ==
  Marks(i, row[i].state, FALSE, FALSE, row[i].ambiguous, row[i].id)

\* A call that goes to p keeps its chunk, its request and its matches.
LEMMA Going ==
  ASSUME CallTyped, NEW p \in CallPc, Goes(p)
  PROVE  Moves(p)
BY DEF CallTyped, CallRecord, Goes, Moves, Becomes

\* No call is a call record like any other.
LEMMA EmptyCall == NoCall \in CallRecord
<1>1. 0 \in 0..Count
  BY DeliveryAssumption
<1>2. [i \in Chunks |-> 0] \in [Chunks -> Nat]
  OBVIOUS
<1> QED
  BY <1>1, <1>2 DEF NoCall, CallRecord, CallPc

\* A call that ends leaves an idle call.
LEMMA Ending ==
  ASSUME Ends
  PROVE  Stops
BY EmptyCall DEF Ends, NoCall, Stops, CallTyped

\* Advancing from a scan moves the call to the chunk after its own, or on to the
\* last step, with the matches it was given.
LEMMA Advancing ==
  ASSUME CallTyped, call.at \in Chunks, NEW ms \in [Chunks -> Nat], NEW s \in BOOLEAN,
         call' = [call EXCEPT !.pc = IF call.at = Count THEN "end" ELSE "row",
                              !.at = IF call.at = Count THEN @ ELSE @ + 1,
                              !.retries = 0, !.scanned = s, !.matches = ms]
  PROVE  Advances(ms)
<1> DEFINE p == IF call.at = Count THEN "end" ELSE "row"
           n == IF call.at = Count THEN call.at ELSE call.at + 1
           r == [call EXCEPT !.pc = p, !.at = n, !.retries = 0]
<1>1. p \in CallPc
  BY DEF CallPc
<1>2. n \in Chunks /\ n \in 0..Count
  BY DeliveryAssumption DEF Chunks
<1>3. call' = [call EXCEPT !.pc = p, !.at = n, !.retries = 0, !.scanned = s,
                           !.matches = ms]
  OBVIOUS
<1> HIDE DEF p, n
<1>4. r \in CallRecord
  BY <1>1, <1>2 DEF CallTyped, CallRecord
<1>5. r.pc = p /\ r.at = n /\ r.first = call.first /\ r.id = call.id
  BY DEF CallTyped, CallRecord
<1>6. call' = [r EXCEPT !.scanned = s, !.matches = ms]
  BY <1>3
<1> HIDE DEF r
<1>7. Becomes(p, n, call.first, call.id, ms)
  BY <1>4, <1>5, <1>6 DEF CallTyped, CallRecord, Becomes
<1> QED
  BY <1>2, <1>7 DEF p, n, Advances

\* Outside a scan the matches stay those of the call.
LEMMA NextChunkAdvances ==
  ASSUME CallTyped, call.at \in Chunks, NextChunk
  PROVE  Advances(call.matches)
<1>1. call' = [call EXCEPT !.pc = IF call.at = Count THEN "end" ELSE "row",
                           !.at = IF call.at = Count THEN @ ELSE @ + 1,
                           !.retries = 0, !.scanned = call.scanned,
                           !.matches = call.matches]
  BY DEF NextChunk, CallTyped, CallRecord
<1>2. call.matches \in [Chunks -> Nat] /\ call.scanned \in BOOLEAN
  BY DEF CallTyped, CallRecord
<1> QED
  BY <1>1, <1>2, Advancing

\* A beginning call is at its first chunk.
LEMMA Beginning ==
  ASSUME Begin
  PROVE  Becomes("row", 1, FALSE, 0, [i \in Chunks |-> 0])
<1> DEFINE asked == {i \in Chunks : row[i].state = "prepared" /\ row[i].attempted}
<1>1. call' = [NoCall EXCEPT !.pc = "row", !.at = 1, !.asked = asked]
  BY DEF Begin
<1>2. 1 \in 0..Count /\ "row" \in CallPc /\ asked \in SUBSET Chunks
  BY DeliveryAssumption DEF CallPc
<1> HIDE DEF asked
<1>3. call' \in CallRecord
  BY <1>1, <1>2, EmptyCall DEF CallRecord
<1>4. /\ call'.pc = "row"
      /\ call'.at = 1
      /\ call'.first = NoCall.first
      /\ call'.id = NoCall.id
      /\ call'.matches = NoCall.matches
  BY <1>1, EmptyCall DEF CallRecord
<1> QED
  BY <1>3, <1>4 DEF NoCall, Becomes, CallTyped

\* A chunk that may be posted keeps the call's request and matches.
LEMMA ToPost ==
  ASSUME CallTyped, NEW f \in BOOLEAN,
         call' = [call EXCEPT !.pc = "post", !.first = f]
  PROVE  Becomes("post", call.at, f, call.id, call.matches)
BY DEF CallTyped, CallRecord, CallPc, Becomes

\* A call at Discord changes its step and its message alone.
LEMMA Posting ==
  ASSUME CallTyped, NEW n \in Nat, NEW p \in CallPc,
         call' = [call EXCEPT !.pc = p, !.id = n]
  PROVE  Becomes(p, call.at, call.first, n, call.matches)
BY DEF CallTyped, CallRecord, CallPc, Becomes

\* A retried request goes back to the step before its POST.
LEMMA Retrying ==
  ASSUME CallTyped, call' = [call EXCEPT !.pc = "row", !.retries = @ + 1]
  PROVE  Moves("row")
<1>1. call.retries + 1 \in Nat /\ "row" \in CallPc
  BY DEF CallTyped, CallRecord, CallPc
<1>2. call' = [call EXCEPT !.pc = "row", !.retries = call.retries + 1]
  OBVIOUS
<1>3. call' \in CallRecord
  BY <1>1, <1>2 DEF CallTyped, CallRecord
<1> QED
  BY <1>2, <1>3 DEF CallTyped, CallRecord, Moves, Becomes

\* Confirming a chunk writes the message's id beside it.
LEMMA Confirming ==
  ASSUME RowsTyped, NEW i \in Chunks, NEW m \in Nat, row' = Confirmed(i, m)
  PROVE  Confirms(i, m)
BY DEF RowsTyped, RowRecord, Confirmed, Confirms, Marks

\* Quarantining a chunk marks its row ambiguous.
LEMMA Quarantining ==
  ASSUME RowsTyped, NEW i \in Chunks, row' = Quarantined(i)
  PROVE  Quarantines(i)
BY DEF RowsTyped, RowRecord, Quarantined, Quarantines, Marks

\* Stamping a chunk marks its row attempted.
LEMMA Stamping ==
  ASSUME RowsTyped, NEW i \in Chunks,
         row' = [row EXCEPT ![i].attempted = TRUE]
  PROVE  Stamps(i)
BY DEF RowsTyped, RowRecord, Stamps, Marks

\* A refused first request clears its row's stamp.
LEMMA Unstamping ==
  ASSUME RowsTyped, NEW i \in Chunks,
         row' = [row EXCEPT ![i].attempted = FALSE, ![i].aged = FALSE]
  PROVE  Unstamps(i)
BY DEF RowsTyped, RowRecord, Unstamps, Marks

\* Aging touches no more than one row's age.
LEMMA Aging ==
  ASSUME RowsTyped, NEW i \in Chunks, Age(i)
  PROVE  Marks(i, row[i].state, row[i].attempted, TRUE, row[i].ambiguous, row[i].id)
BY DEF RowsTyped, RowRecord, Age, Marks

-----------------------------------------------------------------------------
(* What each action of a call does *)

MessageRecord == [chunk : Chunks, exact : BOOLEAN]

NetworkTyped ==
  /\ wire \subseteq [chunk : Chunks, id : 1..posts]
  /\ posts \in 0..MaxPosts
  /\ discord \in Seq(MessageRecord)
  /\ remembered \in [Chunks -> Nat]

CallHasChunk == call.pc # "idle" => call.at \in Chunks

Typed ==
  /\ manifest \in {"none", "prepared", "sent"}
  /\ RowsTyped /\ CallTyped /\ NetworkTyped /\ CallHasChunk

\* The types by their parts imply the type invariant.
LEMMA TypesOK == Typed => TypeOK
BY DEF Typed, TypeOK, RowsTyped, RowRecord, CallTyped, CallRecord, NetworkTyped,
   MessageRecord

\* What a sequence's elements are.
LEMMA Elements ==
  ASSUME NEW S, NEW s \in Seq(S)
  PROVE  /\ Len(s) \in Nat
         /\ DOMAIN s = 1..Len(s)
         /\ \A n \in DOMAIN s : n \in Nat \ {0} /\ s[n] \in S
OBVIOUS

\* An exact message is known by its chunk.
LEMMA ExactMessage ==
  ASSUME NEW m \in MessageRecord, m.exact
  PROVE  m = [chunk |-> m.chunk, exact |-> TRUE]
<1>1. m.exact = TRUE
  BY DEF MessageRecord
<1> QED
  BY <1>1 DEF MessageRecord

\* Reading a chunk back moves on or quarantines it.
LEMMA ReadBackEffect ==
  ASSUME Typed, ReadBack
  PROVE  \/ Advances(call.matches) /\ UNCHANGED row
         \/ Stops /\ Quarantines(call.at)
<1>1. call.at \in Chunks
  BY DEF Typed, CallHasChunk, ReadBack, Pc
<1> QED
  BY <1>1, NextChunkAdvances, Ending, Quarantining DEF Typed, ReadBack

\* An attempt posts, scans, moves on or quarantines.
LEMMA AttemptEffect ==
  ASSUME Typed, Attempt
  PROVE  LET i == call.at IN
           \/ /\ row[i].attempted /\ call.matches[i] # 0
              /\ Confirms(i, call.matches[i]) /\ Advances(call.matches)
           \/ Quarantines(i) /\ Stops
           \/ Stamps(i) /\ Moves("scan")
           \/ /\ row[i].attempted => ~row[i].aged
              /\ Stamps(i)
              /\ Becomes("post", i, ~row[i].attempted, call.id, call.matches)
<1> DEFINE i == call.at
           first == ~row[i].attempted
           proved == ~first /\ call.scanned /\ call.matches[i] # 0
           old == ~first /\ ~proved /\ row[i].aged
<1>1. i \in Chunks /\ first \in BOOLEAN /\ call.matches[i] \in Nat
  BY DEF Typed, CallHasChunk, Attempt, Pc, CallTyped, CallRecord
<1>2. CASE proved
  <2>1. row' = Confirmed(i, call.matches[i]) /\ NextChunk
    BY <1>2 DEF Attempt
  <2> QED
    BY <1>1, <1>2, <2>1, Confirming, NextChunkAdvances DEF Typed
<1>3. CASE old /\ call.scanned
  <2>1. row' = Quarantined(i) /\ Ends
    BY <1>3 DEF Attempt
  <2> QED
    BY <1>1, <2>1, Quarantining, Ending DEF Typed
<1>4. CASE old /\ ~call.scanned
  <2>1. row' = [row EXCEPT ![i].attempted = TRUE] /\ Goes("scan")
    BY <1>4 DEF Attempt
  <2> QED
    BY <1>1, <2>1, Stamping, Going DEF Typed, CallPc
<1>5. CASE ~proved /\ ~old
  <2>1. /\ row' = [row EXCEPT ![i].attempted = TRUE]
        /\ call' = [call EXCEPT !.pc = "post", !.first = first]
    BY <1>5 DEF Attempt
  <2>2. row[i].attempted => ~row[i].aged
    BY <1>5
  <2> QED
    BY <1>1, <2>1, <2>2, Stamping, ToPost DEF Typed
<1> QED
  BY <1>2, <1>3, <1>4, <1>5

\* A rate limit lets the call repeat its request or ends it.
LEMMA LimitedEffect ==
  ASSUME Typed, Limited
  PROVE  /\ call.at \in Chunks
         /\ Stops \/ Moves("row")
         /\ IF call.first THEN Unstamps(call.at) ELSE UNCHANGED row
         /\ call.pc = "limited"
         /\ UNCHANGED <<manifest, wire, posts, discord, remembered>>
<1>1. call.at \in Chunks
  BY DEF Typed, CallHasChunk, Limited, Pc
<1> QED
  <2>1. Stops \/ Moves("row")
    BY Ending, Retrying DEF Typed, Limited
  <2>2. IF call.first THEN Unstamps(call.at) ELSE UNCHANGED row
    <3>1. CASE call.first
      <4>1. row' = [row EXCEPT ![call.at].attempted = FALSE, ![call.at].aged = FALSE]
        BY <3>1 DEF Limited
      <4>2. Unstamps(call.at)
        BY <1>1, <4>1, Unstamping DEF Typed
      <4> QED
        BY <3>1, <4>2
    <3>2. CASE ~call.first
      BY <3>2 DEF Limited
    <3> QED
      BY <3>1, <3>2
  <2> QED
    BY <1>1, <2>1, <2>2 DEF Limited, Pc, network

\* An answer is confirmed when exact, and otherwise quarantined.
LEMMA AnswerEffect ==
  ASSUME Typed, Answer
  PROVE  \/ /\ Exact(call.at, call.id)
            /\ Confirms(call.at, call.id) /\ Advances(call.matches)
         \/ Stops /\ Quarantines(call.at)
<1>1. call.at \in Chunks /\ call.id \in Nat
  BY DEF Typed, CallHasChunk, Answer, Pc, CallTyped, CallRecord
<1> QED
  BY <1>1, NextChunkAdvances, Ending, Confirming, Quarantining DEF Typed, Answer

\* The matches of a scan are messages with the chunks' contents.
Sound(ms) ==
  \A i \in Chunks : ms[i] # 0 => ms[i] \in DOMAIN discord /\ Exact(i, ms[i])

\* A scan confirms the one exact match of a chunk, or quarantines.
LEMMA ScanEffect ==
  ASSUME Typed, Scan
  PROVE  \/ Stops /\ Quarantines(call.at)
         \/ \E ms \in [Chunks -> Nat] :
              /\ Sound(ms)
              /\ ms[call.at] # 0
              /\ Confirms(call.at, ms[call.at])
              /\ Advances(ms)
<1>1. call.at \in Chunks
  BY DEF Typed, CallHasChunk, Scan, Pc
<1>2. CASE row' = Quarantined(call.at) /\ Ends
  BY <1>1, <1>2, Quarantining, Ending DEF Typed
<1>3. ASSUME NEW found \in SUBSET {i \in call.asked : MessagesOf(i) # {}},
             call.at \in found,
             \A i \in call.asked, m \in DOMAIN discord :
               discord[m].chunk = i => discord[m].exact,
             NEW ms,
             ms = [i \in Chunks |-> IF i \in found THEN CHOOSE m \in MessagesOf(i) : TRUE
                                    ELSE 0],
             row' = Confirmed(call.at, ms[call.at]),
             call' = [call EXCEPT
                        !.pc = IF call.at = Count THEN "end" ELSE "row",
                        !.at = IF call.at = Count THEN @ ELSE @ + 1,
                        !.retries = 0, !.scanned = TRUE, !.matches = ms]
      PROVE  /\ Confirms(call.at, ms[call.at]) /\ Advances(ms)
             /\ ms \in [Chunks -> Nat]
             /\ ms[call.at] # 0
             /\ Sound(ms)
  <2>1. call.asked \subseteq Chunks
    BY DEF Typed, CallTyped, CallRecord
  <2>2. \A i \in found : ms[i] \in MessagesOf(i)
    BY <1>3, <2>1
  <2>3. \A i \in Chunks : i \notin found => ms[i] = 0
    BY <1>3
  <2>4. \A m \in DOMAIN discord : m \in Nat \ {0} /\ discord[m] \in MessageRecord
    BY Elements DEF Typed, NetworkTyped
  <2>5. ASSUME NEW i \in found
        PROVE  ms[i] \in DOMAIN discord /\ Exact(i, ms[i])
    <3>1. ms[i] \in DOMAIN discord /\ discord[ms[i]].chunk = i
      BY <2>2 DEF MessagesOf
    <3>2. discord[ms[i]].exact
      BY <1>3, <3>1
    <3> QED
      BY <2>4, <3>1, <3>2, ExactMessage DEF Exact
  <2>6. ms \in [Chunks -> Nat]
    BY <1>3, <2>2, <2>4 DEF MessagesOf
  <2>7. Confirms(call.at, ms[call.at])
    BY <1>1, <1>3, <2>6, Confirming DEF Typed
  <2>8. Advances(ms)
    BY <1>1, <1>3, <2>6, Advancing DEF Typed
  <2> QED
    BY <1>3, <2>3, <2>4, <2>5, <2>6, <2>7, <2>8 DEF Sound
<1> QED
  BY <1>2, <1>3 DEF Scan

\* A POST is one more request on the wire.
LEMMA PostEffect ==
  ASSUME Typed, Post
  PROVE  /\ call.at \in Chunks
         /\ posts + 1 \in Nat
         /\ Becomes("posting", call.at, call.first, posts + 1, call.matches)
<1>1. call.at \in Chunks /\ posts + 1 \in Nat
  BY DEF Typed, CallHasChunk, NetworkTyped, Post, Pc
<1> QED
  BY <1>1, Posting DEF Typed, Post, CallPc

\* Discord takes a request off the wire, and adds a message at most.
LEMMA AcceptEffect ==
  ASSUME Typed, NEW q \in wire, Accept(q)
  PROVE  /\ q.chunk \in Chunks
         /\ discord' \in Seq(MessageRecord)
         /\ remembered' \in [Chunks -> Nat]
         /\ \/ UNCHANGED <<discord, remembered>> /\ remembered[q.chunk] # 0
            \/ /\ remembered[q.chunk] = 0
               /\ Len(discord') = Len(discord) + 1
               /\ discord'[Len(discord) + 1].chunk = q.chunk
               /\ \A n \in DOMAIN discord : discord'[n] = discord[n]
               /\ remembered' = [remembered EXCEPT ![q.chunk] = Len(discord) + 1]
         /\ IF Waiting(q)
              THEN Becomes("answered", call.at, call.first, remembered'[q.chunk],
                           call.matches)
              ELSE UNCHANGED call
<1> USE DEF Typed, NetworkTyped
<1>1. q.chunk \in Chunks /\ Len(discord) \in Nat
  OBVIOUS
<1>2. \/ UNCHANGED <<discord, remembered>> /\ remembered[q.chunk] # 0
      \/ /\ remembered[q.chunk] = 0
         /\ discord' \in Seq(MessageRecord)
         /\ Len(discord') = Len(discord) + 1
         /\ discord'[Len(discord) + 1].chunk = q.chunk
         /\ \A n \in DOMAIN discord : discord'[n] = discord[n]
         /\ remembered' = [remembered EXCEPT ![q.chunk] = Len(discord) + 1]
  <2>1. CASE remembered[q.chunk] # 0
    BY <2>1 DEF Accept
  <2>2. CASE remembered[q.chunk] = 0
    <3>1. PICK e \in BOOLEAN :
            discord' = Append(discord, [chunk |-> q.chunk, exact |-> e])
      BY <2>2 DEF Accept
    <3>2. [chunk |-> q.chunk, exact |-> e] \in MessageRecord
      BY <1>1 DEF MessageRecord
    <3> DEFINE m == [chunk |-> q.chunk, exact |-> e]
    <3>3. m.chunk = q.chunk
      OBVIOUS
    <3> HIDE DEF m
    <3>4. /\ discord' \in Seq(MessageRecord)
          /\ Len(discord') = Len(discord) + 1
          /\ discord'[Len(discord) + 1] = m
          /\ \A n \in DOMAIN discord : discord'[n] = discord[n]
      BY <3>1, <3>2 DEF m
    <3> QED
      BY <2>2, <3>3, <3>4 DEF Accept
  <2> QED
    BY <2>1, <2>2, <1>1
<1>3. remembered' \in [Chunks -> Nat]
  BY <1>1, <1>2
<1>4. CASE Waiting(q)
  <2>1. remembered'[q.chunk] \in Nat
    BY <1>1, <1>3
  <2>2. call' = [call EXCEPT !.pc = "answered", !.id = remembered'[q.chunk]]
    BY <1>4 DEF Accept
  <2> QED
    BY <1>1, <1>2, <1>3, <1>4, <2>1, <2>2, Posting DEF CallPc
<1>5. CASE ~Waiting(q)
  BY <1>1, <1>2, <1>3, <1>5 DEF Accept
<1> QED
  BY <1>4, <1>5

\* A refusal takes a request off the wire and nothing else.
LEMMA RefuseEffect ==
  ASSUME Typed, NEW q \in wire, Refuse(q)
  PROVE  IF Waiting(q) THEN Moves("limited") ELSE UNCHANGED call
<1>1. CASE Waiting(q)
  <2>1. Goes("limited")
    BY <1>1 DEF Refuse, Goes
  <2> QED
    BY <1>1, <2>1, Going DEF Typed, CallPc
<1>2. CASE ~Waiting(q)
  BY <1>2 DEF Refuse
<1> QED
  BY <1>1, <1>2

\* A lost request leaves the wire and nothing else.
LEMMA LoseEffect ==
  ASSUME Typed, NEW q \in wire, Lose(q)
  PROVE  IF Waiting(q) THEN Stops ELSE UNCHANGED call
<1>1. CASE Waiting(q)
  BY <1>1, Ending DEF Lose, Ends
<1>2. CASE ~Waiting(q)
  BY <1>2 DEF Lose
<1> QED
  BY <1>1, <1>2

-----------------------------------------------------------------------------
(* Types *)

\* The program starts with the types.
LEMMA TypedInit == Init => Typed
<1> SUFFICES ASSUME Init PROVE Typed
  OBVIOUS
<1>1. RowsTyped
  BY DEF Init, RowsTyped, RowRecord, Unsent
<1>2. CallTyped /\ CallHasChunk
  BY EmptyCall DEF Init, CallTyped, CallHasChunk, NoCall
<1>3. NetworkTyped
  BY DeliveryAssumption DEF Init, NetworkTyped
<1> QED
  BY <1>1, <1>2, <1>3 DEF Init, Typed

\* Every step keeps the types.
LEMMA TypedStep ==
  ASSUME Typed, [Next]_vars
  PROVE  Typed'
<1> USE DEF Typed, NetworkTyped, CallHasChunk, CallTyped, RowsTyped
<1>1. CASE Prepare
  BY <1>1 DEF Prepare, network
<1>2. CASE Begin
  <2>1. 1 \in Chunks
    BY DeliveryAssumption DEF Chunks
  <2> QED
    BY <1>2, <2>1, Beginning DEF Begin, Becomes, network
<1>3. CASE ReadBack
  BY <1>3, ReadBackEffect DEF ReadBack, Advances, Moves, Becomes, Stops, Confirms,
     Quarantines, Stamps, Unstamps, Marks, Pc, network
<1>4. CASE Attempt
  BY <1>4, AttemptEffect DEF Attempt, Advances, Moves, Becomes, Stops, Confirms,
     Quarantines, Stamps, Unstamps, Marks, Pc, network
<1>5. CASE Post
  <2>1. NetworkTyped'
    BY <1>5, PostEffect, DeliveryAssumption DEF Post
  <2> QED
    BY <1>5, <2>1, PostEffect DEF Post, Becomes
<1>6. CASE Limited
  BY <1>6, LimitedEffect DEF Limited, Advances, Moves, Becomes, Stops, Confirms,
     Quarantines, Stamps, Unstamps, Marks, Pc, network
<1>7. CASE Answer
  BY <1>7, AnswerEffect DEF Answer, Advances, Moves, Becomes, Stops, Confirms,
     Quarantines, Stamps, Unstamps, Marks, Pc, network
<1>8. CASE Scan
  BY <1>8, ScanEffect DEF Scan, Advances, Moves, Becomes, Stops, Confirms, Quarantines,
     Stamps, Unstamps, Marks, Pc, network
<1>9. CASE Finish
  BY <1>9, Ending DEF Finish, Stops, network
<1>10. CASE Fail
  BY <1>10, Ending DEF Fail, Stops, network
<1>11. ASSUME NEW q \in wire, Accept(q) PROVE Typed'
  BY <1>11, AcceptEffect DEF Accept, Becomes, Waiting, Pc
<1>12. ASSUME NEW q \in wire, Refuse(q) PROVE Typed'
  BY <1>12, RefuseEffect DEF Refuse, Moves, Becomes, Waiting, Pc
<1>13. ASSUME NEW q \in wire, Lose(q) PROVE Typed'
  BY <1>13, LoseEffect DEF Lose, Stops
<1>14. ASSUME NEW i \in Chunks, Age(i) PROVE Typed'
  BY <1>14, Aging DEF Age, Marks, network
<1>15. ASSUME NEW i \in Chunks, Forget(i) PROVE Typed'
  <2>1. remembered' \in [Chunks -> Nat]
    BY <1>15 DEF Forget
  <2> QED
    BY <1>15, <2>1 DEF Forget
<1>16. CASE UNCHANGED vars
  BY <1>16 DEF vars, network
<1> QED
  BY <1>1, <1>2, <1>3, <1>4, <1>5, <1>6, <1>7, <1>8,
     <1>9, <1>10, <1>11, <1>12, <1>13, <1>14, <1>15, <1>16
     DEF Next, Call, Environment

-----------------------------------------------------------------------------
(* The inductive invariant *)

Busy == {"post", "posting", "limited", "answered", "scan"}

\* A call works on a manifest without a quarantined chunk; the chunks before
\* the one in hand are sent, and the one in hand is stamped once it is tried.
CallInv ==
  call.pc # "idle" =>
    /\ manifest # "none"
    /\ \A i \in Chunks : ~row[i].ambiguous
    /\ \A i \in Chunks : i < call.at \/ call.pc = "end" => row[i].state = "sent"
    /\ call.pc \in Busy => row[call.at].attempted

\* A chunk is tried only after all chunks before it are sent.
TriedInOrder ==
  \A i, j \in Chunks : row[j].attempted /\ i < j => row[i].state = "sent"

Manifested ==
  \A i \in Chunks : row[i].attempted \/ row[i].ambiguous => manifest # "none"

\* What was sent stays in Discord as it is.
Shown ==
  \A i \in Chunks :
    row[i].state = "sent" => row[i].id \in DOMAIN discord /\ Exact(i, row[i].id)

\* The request that the call waits for is on the wire, and each is sent once.
RequestsDiffer ==
  /\ \A q, r \in wire : q.id = r.id => q = r
  /\ call.pc = "posting" => \E q \in wire : q.id = call.id /\ q.chunk = call.at

\* The call that stamped a chunk may take the stamp back: nothing else is on
\* its way.
FirstIsAlone ==
  call.first /\ call.pc \in {"post", "posting", "limited"} =>
    /\ MessagesOf(call.at) = {}
    /\ \A q \in wire : q.chunk = call.at => call.pc = "posting" /\ q.id = call.id

\* A nonce is forgotten only when no request with it can follow.
ForgettingIsSafe ==
  \A i \in Chunks :
    /\ remembered[i] # 0 => remembered[i] \in MessagesOf(i)
    /\ remembered[i] = 0 /\ MessagesOf(i) # {} =>
         /\ row[i].aged
         /\ \A q \in wire : q.chunk # i
         /\ ~(call.pc = "post" /\ call.at = i)

\* What the call was answered and what its scan found is in Discord.
Found ==
  /\ call.pc = "answered" => call.id \in MessagesOf(call.at)
  /\ Sound(call.matches)

Inv ==
  /\ Typed /\ CallInv /\ TriedInOrder /\ Manifested /\ Shown /\ RequestsDiffer
  /\ PostIsRecorded /\ FirstIsAlone /\ ForgettingIsSafe /\ Found /\ ShowsPrefix


-----------------------------------------------------------------------------
(* The steps that decide about the chunk in hand *)

Handle == ReadBack \/ Attempt \/ Answer \/ Scan

IsRead == row[call.at].state = "sent" /\ UNCHANGED row /\ Advances(call.matches)
IsQuarantined == Quarantines(call.at) /\ Stops
IsConfirmed(m, ms) ==
  /\ m \in DOMAIN discord /\ Exact(call.at, m) /\ Sound(ms)
  /\ row[call.at].attempted
  /\ Confirms(call.at, m) /\ Advances(ms)
IsScanned == Stamps(call.at) /\ Moves("scan")
IsPosted ==
  /\ row[call.at].attempted => ~row[call.at].aged
  /\ Stamps(call.at)
  /\ Becomes("post", call.at, ~row[call.at].attempted, call.id, call.matches)

\* The four steps that handle a chunk have one of a few outcomes.
LEMMA Handling ==
  ASSUME Inv, Handle
  PROVE  /\ UNCHANGED <<manifest, wire, posts, discord, remembered>>
         /\ call.pc # "idle" /\ call.at \in Chunks
         /\ call.pc # "end"
         /\ \/ IsRead
            \/ IsQuarantined
            \/ \E m \in DOMAIN discord, ms \in [Chunks -> Nat] : IsConfirmed(m, ms)
            \/ IsScanned
            \/ IsPosted
<1>1. /\ UNCHANGED <<manifest, wire, posts, discord, remembered>>
      /\ call.pc # "idle" /\ call.pc # "end"
  BY DEF Handle, ReadBack, Attempt, Answer, Scan, network, Pc
<1>2. call.at \in Chunks /\ Typed /\ Sound(call.matches) /\ call.matches \in [Chunks -> Nat]
  BY <1>1 DEF Inv, Typed, CallHasChunk, Found, CallTyped, CallRecord
<1>3. CASE ReadBack
  <2>1. row[call.at].state = "sent"
    BY <1>3 DEF ReadBack
  <2> QED
    BY <1>1, <1>2, <1>3, <2>1, ReadBackEffect DEF IsRead, IsQuarantined
<1>4. CASE Attempt
  <2>1. CASE /\ row[call.at].attempted /\ call.matches[call.at] # 0
             /\ Confirms(call.at, call.matches[call.at]) /\ Advances(call.matches)
    <3>1. IsConfirmed(call.matches[call.at], call.matches)
      BY <1>2, <2>1 DEF IsConfirmed, Sound
    <3> QED
      BY <1>1, <1>2, <3>1 DEF IsConfirmed
  <2>2. CASE ~(/\ row[call.at].attempted /\ call.matches[call.at] # 0
               /\ Confirms(call.at, call.matches[call.at]) /\ Advances(call.matches))
    BY <1>1, <1>2, <1>4, <2>2, AttemptEffect DEF IsQuarantined, IsScanned, IsPosted
  <2> QED
    BY <2>1, <2>2
<1>5. row[call.at].attempted \/ ~(Answer \/ Scan)
  BY DEF Inv, CallInv, Answer, Scan, Pc, Busy
<1>6. CASE Answer
  <2>1. call.id \in DOMAIN discord
    BY <1>6 DEF Inv, Found, Answer, Pc, MessagesOf
  <2>2. CASE Exact(call.at, call.id) /\ Confirms(call.at, call.id) /\ Advances(call.matches)
    <3>1. IsConfirmed(call.id, call.matches)
      BY <1>2, <1>5, <1>6, <2>1, <2>2 DEF IsConfirmed
    <3> QED
      BY <1>1, <1>2, <2>1, <3>1
  <2> QED
    BY <1>1, <1>2, <1>6, <2>2, AnswerEffect DEF IsQuarantined
<1>7. CASE Scan
  <2>1. ASSUME NEW ms \in [Chunks -> Nat], Sound(ms), ms[call.at] # 0,
               Confirms(call.at, ms[call.at]), Advances(ms)
        PROVE  IsConfirmed(ms[call.at], ms) /\ ms[call.at] \in DOMAIN discord
    BY <1>2, <1>5, <1>7, <2>1 DEF IsConfirmed, Sound
  <2> QED
    BY <1>1, <1>2, <1>7, <2>1, ScanEffect DEF IsQuarantined
<1> QED
  BY <1>1, <1>2, <1>3, <1>4, <1>6, <1>7 DEF Handle

-----------------------------------------------------------------------------
(* Discord's messages *)

\* With the messages unchanged, so is what they show of each chunk.
LEMMA SameMessages ==
  ASSUME UNCHANGED discord
  PROVE  /\ \A i \in Chunks : MessagesOf(i)' = MessagesOf(i)
         /\ \A i \in Chunks, m \in DOMAIN discord : Exact(i, m)' <=> Exact(i, m)
BY DEF MessagesOf, Exact

\* Accepting a request adds at most one message, and that under its chunk.
LEMMA NewMessage ==
  ASSUME Typed, NEW q \in wire, Accept(q)
  PROVE  /\ \A n \in DOMAIN discord : n \in DOMAIN discord' /\ discord'[n] = discord[n]
         /\ \A i \in Chunks : i # q.chunk => MessagesOf(i)' = MessagesOf(i)
         /\ remembered'[q.chunk] # 0
         /\ \A i \in Chunks : i # q.chunk => remembered'[i] = remembered[i]
         /\ remembered[q.chunk] = 0 => remembered'[q.chunk] \in MessagesOf(q.chunk)'
         /\ remembered[q.chunk] # 0 =>
              UNCHANGED <<discord, remembered>>
<1> USE DEF Typed, NetworkTyped
<1>1. /\ DOMAIN discord = 1..Len(discord)
      /\ Len(discord) \in Nat
      /\ DOMAIN discord' = 1..Len(discord')
  BY AcceptEffect, Elements
<1>2. CASE remembered[q.chunk] # 0
  BY <1>1, <1>2, AcceptEffect, SameMessages
<1>3. CASE remembered[q.chunk] = 0
  <2>1. /\ Len(discord') = Len(discord) + 1
        /\ discord'[Len(discord) + 1].chunk = q.chunk
        /\ \A n \in DOMAIN discord : discord'[n] = discord[n]
        /\ remembered' = [remembered EXCEPT ![q.chunk] = Len(discord) + 1]
        /\ q.chunk \in Chunks
    BY <1>3, AcceptEffect
  <2>2. DOMAIN discord' = DOMAIN discord \cup {Len(discord) + 1}
    BY <1>1, <2>1
  <2>3. \A i \in Chunks : i # q.chunk => MessagesOf(i)' = MessagesOf(i)
    BY <2>1, <2>2 DEF MessagesOf
  <2>4. remembered'[q.chunk] = Len(discord) + 1 /\ Len(discord) + 1 \in MessagesOf(q.chunk)'
    BY <2>1, <2>2 DEF MessagesOf
  <2> QED
    BY <1>1, <1>3, <2>1, <2>2, <2>3, <2>4
<1> QED
  BY <1>2, <1>3

\* No step changes or removes a message.
LEMMA MessagesStay ==
  ASSUME Typed, [Next]_vars
  PROVE  /\ \A n \in DOMAIN discord : n \in DOMAIN discord' /\ discord'[n] = discord[n]
         /\ \A i \in Chunks : MessagesOf(i) \subseteq MessagesOf(i)'
         /\ \A i \in Chunks, m \in DOMAIN discord :
              Exact(i, m) => m \in DOMAIN discord' /\ Exact(i, m)'
<1>1. \A n \in DOMAIN discord : n \in DOMAIN discord' /\ discord'[n] = discord[n]
  <2>1. ASSUME NEW q \in wire, Accept(q)
        PROVE  \A n \in DOMAIN discord : n \in DOMAIN discord' /\ discord'[n] = discord[n]
    BY <2>1, NewMessage
  <2>2. UNCHANGED discord \/ \E q \in wire : Accept(q)
    BY DEF Next, Call, Environment, Prepare, Begin, ReadBack, Attempt, Post, Limited,
           Answer, Scan, Finish, Fail, Refuse, Lose, Age, Forget, vars, network
  <2> QED
    BY <2>1, <2>2
<1> QED
  BY <1>1 DEF MessagesOf, Exact

\* Every step keeps a call's chunk and its step in accord.
LEMMA CallStep ==
  ASSUME Inv, [Next]_vars
  PROVE  CallInv'
<1> USE DEF Inv, Typed, CallHasChunk, CallInv, Busy, Chunks
<1>1. CASE Handle
  <2>1. CASE IsRead
    BY <1>1, <2>1, Handling DEF IsRead, Advances, Becomes
  <2>2. CASE IsQuarantined
    BY <1>1, <2>2, Handling DEF IsQuarantined, Quarantines, Marks, Stops
  <2>3. ASSUME NEW m \in DOMAIN discord, NEW ms \in [Chunks -> Nat], IsConfirmed(m, ms)
        PROVE  CallInv'
    BY <1>1, <2>3, Handling DEF IsConfirmed, Confirms, Marks, Advances, Becomes
  <2>4. CASE IsScanned
    BY <1>1, <2>4, Handling DEF IsScanned, Stamps, Marks, Moves, Becomes
  <2>5. CASE IsPosted
    BY <1>1, <2>5, Handling DEF IsPosted, Stamps, Marks, Becomes
  <2> QED
    BY <1>1, <2>1, <2>2, <2>3, <2>4, <2>5, Handling
<1>2. CASE Prepare
  BY <1>2 DEF Prepare, network
<1>3. CASE Begin
  BY <1>3, Beginning DEF Begin, Becomes, network
<1>4. CASE Post
  BY <1>4, PostEffect DEF Post, Becomes, Pc
<1>5. CASE Limited
  BY <1>5, LimitedEffect DEF Moves, Becomes, Stops, Unstamps, Marks
<1>6. CASE Finish
  BY <1>6, Ending DEF Finish, Stops, network
<1>7. CASE Fail
  BY <1>7, Ending DEF Fail, Stops, network
<1>8. ASSUME NEW q \in wire, Accept(q) PROVE CallInv'
  BY <1>8, AcceptEffect, NewMessage DEF Accept, Becomes, Waiting, Pc
<1>9. ASSUME NEW q \in wire, Refuse(q) PROVE CallInv'
  BY <1>9, RefuseEffect DEF Refuse, Moves, Becomes, Waiting, Pc
<1>10. ASSUME NEW q \in wire, Lose(q) PROVE CallInv'
  BY <1>10, LoseEffect DEF Lose, Stops, Waiting, Pc
<1>11. ASSUME NEW i \in Chunks, Age(i) PROVE CallInv'
  BY <1>11, Aging DEF Age, Marks, network
<1>12. ASSUME NEW i \in Chunks, Forget(i) PROVE CallInv'
  BY <1>12 DEF Forget
<1>13. CASE UNCHANGED vars
  BY <1>13 DEF vars, network
<1> QED
  BY <1>1, <1>2, <1>3, <1>4, <1>5, <1>6, <1>7, <1>8,
     <1>9, <1>10, <1>11, <1>12, <1>13
     DEF Next, Call, Environment, Handle

\* Every step keeps the order in which the chunks are tried.
LEMMA OrderStep ==
  ASSUME Inv, [Next]_vars
  PROVE  TriedInOrder'
<1> USE DEF Inv, Typed, CallHasChunk, CallInv, Busy, TriedInOrder, Chunks
<1>1. CASE Handle
  <2>1. CASE IsRead
    BY <1>1, <2>1, Handling DEF IsRead, Advances, Becomes
  <2>2. CASE IsQuarantined
    BY <1>1, <2>2, Handling DEF IsQuarantined, Quarantines, Marks, Stops
  <2>3. ASSUME NEW m \in DOMAIN discord, NEW ms \in [Chunks -> Nat], IsConfirmed(m, ms)
        PROVE  TriedInOrder'
    BY <1>1, <2>3, Handling DEF IsConfirmed, Confirms, Marks, Advances, Becomes
  <2>4. CASE IsScanned
    BY <1>1, <2>4, Handling DEF IsScanned, Stamps, Marks, Moves, Becomes
  <2>5. CASE IsPosted
    BY <1>1, <2>5, Handling DEF IsPosted, Stamps, Marks, Becomes
  <2> QED
    BY <1>1, <2>1, <2>2, <2>3, <2>4, <2>5, Handling
<1>2. CASE Prepare
  BY <1>2 DEF Prepare, network
<1>3. CASE Begin
  BY <1>3, Beginning DEF Begin, Becomes, network
<1>4. CASE Post
  BY <1>4, PostEffect DEF Post, Becomes, Pc
<1>5. CASE Limited
  BY <1>5, LimitedEffect DEF Moves, Becomes, Stops, Unstamps, Marks
<1>6. CASE Finish
  BY <1>6, Ending DEF Finish, Stops, network
<1>7. CASE Fail
  BY <1>7, Ending DEF Fail, Stops, network
<1>8. ASSUME NEW q \in wire, Accept(q) PROVE TriedInOrder'
  BY <1>8, AcceptEffect, NewMessage DEF Accept, Becomes, Waiting, Pc
<1>9. ASSUME NEW q \in wire, Refuse(q) PROVE TriedInOrder'
  BY <1>9, RefuseEffect DEF Refuse, Moves, Becomes, Waiting, Pc
<1>10. ASSUME NEW q \in wire, Lose(q) PROVE TriedInOrder'
  BY <1>10, LoseEffect DEF Lose, Stops, Waiting, Pc
<1>11. ASSUME NEW i \in Chunks, Age(i) PROVE TriedInOrder'
  BY <1>11, Aging DEF Age, Marks, network
<1>12. ASSUME NEW i \in Chunks, Forget(i) PROVE TriedInOrder'
  BY <1>12 DEF Forget
<1>13. CASE UNCHANGED vars
  BY <1>13 DEF vars, network
<1> QED
  BY <1>1, <1>2, <1>3, <1>4, <1>5, <1>6, <1>7, <1>8,
     <1>9, <1>10, <1>11, <1>12, <1>13
     DEF Next, Call, Environment, Handle

\* Every step keeps the manifest ahead of the chunks.
LEMMA ManifestedStep ==
  ASSUME Inv, [Next]_vars
  PROVE  Manifested'
<1> USE DEF Inv, Typed, CallHasChunk, CallInv, Manifested
<1>1. CASE Handle
  <2>1. CASE IsRead
    BY <1>1, <2>1, Handling DEF IsRead, Advances, Becomes
  <2>2. CASE IsQuarantined
    BY <1>1, <2>2, Handling DEF IsQuarantined, Quarantines, Marks, Stops
  <2>3. ASSUME NEW m \in DOMAIN discord, NEW ms \in [Chunks -> Nat], IsConfirmed(m, ms)
        PROVE  Manifested'
    BY <1>1, <2>3, Handling DEF IsConfirmed, Confirms, Marks, Advances, Becomes
  <2>4. CASE IsScanned
    BY <1>1, <2>4, Handling DEF IsScanned, Stamps, Marks, Moves, Becomes
  <2>5. CASE IsPosted
    BY <1>1, <2>5, Handling DEF IsPosted, Stamps, Marks, Becomes
  <2> QED
    BY <1>1, <2>1, <2>2, <2>3, <2>4, <2>5, Handling
<1>2. CASE Prepare
  BY <1>2 DEF Prepare, network
<1>3. CASE Begin
  BY <1>3, Beginning DEF Begin, Becomes, network
<1>4. CASE Post
  BY <1>4, PostEffect DEF Post, Becomes, Pc
<1>5. CASE Limited
  BY <1>5, LimitedEffect DEF Moves, Becomes, Stops, Unstamps, Marks
<1>6. CASE Finish
  BY <1>6, Ending DEF Finish, Stops, network
<1>7. CASE Fail
  BY <1>7, Ending DEF Fail, Stops, network
<1>8. ASSUME NEW q \in wire, Accept(q) PROVE Manifested'
  BY <1>8, AcceptEffect, NewMessage DEF Accept, Becomes, Waiting, Pc
<1>9. ASSUME NEW q \in wire, Refuse(q) PROVE Manifested'
  BY <1>9, RefuseEffect DEF Refuse, Moves, Becomes, Waiting, Pc
<1>10. ASSUME NEW q \in wire, Lose(q) PROVE Manifested'
  BY <1>10, LoseEffect DEF Lose, Stops, Waiting, Pc
<1>11. ASSUME NEW i \in Chunks, Age(i) PROVE Manifested'
  BY <1>11, Aging DEF Age, Marks, network
<1>12. ASSUME NEW i \in Chunks, Forget(i) PROVE Manifested'
  BY <1>12 DEF Forget
<1>13. CASE UNCHANGED vars
  BY <1>13 DEF vars, network
<1> QED
  BY <1>1, <1>2, <1>3, <1>4, <1>5, <1>6, <1>7, <1>8,
     <1>9, <1>10, <1>11, <1>12, <1>13
     DEF Next, Call, Environment, Handle

\* Every step keeps each sent chunk shown.
LEMMA ShownStep ==
  ASSUME Inv, [Next]_vars
  PROVE  Shown'
<1> USE DEF Inv, Typed, CallHasChunk, CallInv, Shown
<1>a. UNCHANGED discord =>
        /\ \A i \in Chunks : MessagesOf(i)' = MessagesOf(i)
        /\ \A i \in Chunks, m \in DOMAIN discord : Exact(i, m)' <=> Exact(i, m)
  BY SameMessages
<1>b. /\ \A i \in Chunks : MessagesOf(i) \subseteq MessagesOf(i)'
      /\ \A i \in Chunks, m \in DOMAIN discord :
           Exact(i, m) => m \in DOMAIN discord' /\ Exact(i, m)'
  BY MessagesStay
<1> USE <1>a, <1>b
<1>1. CASE Handle
  <2>1. CASE IsRead
    BY <1>1, <2>1, Handling DEF IsRead, Advances, Becomes
  <2>2. CASE IsQuarantined
    BY <1>1, <2>2, Handling DEF IsQuarantined, Quarantines, Marks, Stops
  <2>3. ASSUME NEW m \in DOMAIN discord, NEW ms \in [Chunks -> Nat], IsConfirmed(m, ms)
        PROVE  Shown'
    BY <1>1, <2>3, Handling DEF IsConfirmed, Confirms, Marks, Advances, Becomes
  <2>4. CASE IsScanned
    BY <1>1, <2>4, Handling DEF IsScanned, Stamps, Marks, Moves, Becomes
  <2>5. CASE IsPosted
    BY <1>1, <2>5, Handling DEF IsPosted, Stamps, Marks, Becomes
  <2> QED
    BY <1>1, <2>1, <2>2, <2>3, <2>4, <2>5, Handling
<1>2. CASE Prepare
  BY <1>2 DEF Prepare, network
<1>3. CASE Begin
  BY <1>3, Beginning DEF Begin, Becomes, network
<1>4. CASE Post
  BY <1>4, PostEffect DEF Post, Becomes, Pc
<1>5. CASE Limited
  <2>1. UNCHANGED discord
    BY <1>5, LimitedEffect
  <2>2. \A i \in Chunks : row'[i].state = row[i].state /\ row'[i].id = row[i].id
    BY <1>5, LimitedEffect DEF Unstamps, Marks
  <2> QED
    BY <2>1, <2>2
<1>6. CASE Finish
  BY <1>6, Ending DEF Finish, Stops, network
<1>7. CASE Fail
  BY <1>7, Ending DEF Fail, Stops, network
<1>8. ASSUME NEW q \in wire, Accept(q) PROVE Shown'
  BY <1>8, AcceptEffect, NewMessage DEF Accept, Becomes, Waiting, Pc
<1>9. ASSUME NEW q \in wire, Refuse(q) PROVE Shown'
  BY <1>9, RefuseEffect DEF Refuse, Moves, Becomes, Waiting, Pc
<1>10. ASSUME NEW q \in wire, Lose(q) PROVE Shown'
  BY <1>10, LoseEffect DEF Lose, Stops, Waiting, Pc
<1>11. ASSUME NEW i \in Chunks, Age(i) PROVE Shown'
  BY <1>11, Aging DEF Age, Marks, network
<1>12. ASSUME NEW i \in Chunks, Forget(i) PROVE Shown'
  BY <1>12 DEF Forget
<1>13. CASE UNCHANGED vars
  BY <1>13 DEF vars, network
<1> QED
  BY <1>1, <1>2, <1>3, <1>4, <1>5, <1>6, <1>7, <1>8,
     <1>9, <1>10, <1>11, <1>12, <1>13
     DEF Next, Call, Environment, Handle

\* Every step keeps the requests on the wire distinct.
LEMMA RequestsStep ==
  ASSUME Inv, [Next]_vars
  PROVE  RequestsDiffer'
<1> USE DEF Inv, Typed, CallHasChunk, CallInv, NetworkTyped, RequestsDiffer
<1>1. CASE Handle
  <2>1. CASE IsRead
    BY <1>1, <2>1, Handling DEF IsRead, Advances, Becomes
  <2>2. CASE IsQuarantined
    BY <1>1, <2>2, Handling DEF IsQuarantined, Quarantines, Marks, Stops
  <2>3. ASSUME NEW m \in DOMAIN discord, NEW ms \in [Chunks -> Nat], IsConfirmed(m, ms)
        PROVE  RequestsDiffer'
    BY <1>1, <2>3, Handling DEF IsConfirmed, Confirms, Marks, Advances, Becomes
  <2>4. CASE IsScanned
    BY <1>1, <2>4, Handling DEF IsScanned, Stamps, Marks, Moves, Becomes
  <2>5. CASE IsPosted
    BY <1>1, <2>5, Handling DEF IsPosted, Stamps, Marks, Becomes
  <2> QED
    BY <1>1, <2>1, <2>2, <2>3, <2>4, <2>5, Handling
<1>2. CASE Prepare
  BY <1>2 DEF Prepare, network
<1>3. CASE Begin
  BY <1>3, Beginning DEF Begin, Becomes, network
<1>4. CASE Post
  <2> DEFINE new == [chunk |-> call.at, id |-> posts + 1]
  <2>1. wire' = wire \cup {new} /\ new.id = posts + 1 /\ new.chunk = call.at
    BY <1>4 DEF Post
  <2>2. \A q \in wire : q.id # posts + 1
    OBVIOUS
  <2>3. call'.id = posts + 1 /\ call'.at = call.at
    BY <1>4, PostEffect DEF Becomes
  <2> HIDE DEF new
  <2> QED
    BY <2>1, <2>2, <2>3
<1>5. CASE Limited
  BY <1>5, LimitedEffect DEF Moves, Becomes, Stops, Unstamps, Marks
<1>6. CASE Finish
  BY <1>6, Ending DEF Finish, Stops, network
<1>7. CASE Fail
  BY <1>7, Ending DEF Fail, Stops, network
<1>8. ASSUME NEW q \in wire, Accept(q) PROVE RequestsDiffer'
  BY <1>8, AcceptEffect, NewMessage DEF Accept, Becomes, Waiting, Pc
<1>9. ASSUME NEW q \in wire, Refuse(q) PROVE RequestsDiffer'
  BY <1>9, RefuseEffect DEF Refuse, Moves, Becomes, Waiting, Pc
<1>10. ASSUME NEW q \in wire, Lose(q) PROVE RequestsDiffer'
  BY <1>10, LoseEffect DEF Lose, Stops, Waiting, Pc
<1>11. ASSUME NEW i \in Chunks, Age(i) PROVE RequestsDiffer'
  BY <1>11, Aging DEF Age, Marks, network
<1>12. ASSUME NEW i \in Chunks, Forget(i) PROVE RequestsDiffer'
  BY <1>12 DEF Forget
<1>13. CASE UNCHANGED vars
  BY <1>13 DEF vars, network
<1> QED
  BY <1>1, <1>2, <1>3, <1>4, <1>5, <1>6, <1>7, <1>8,
     <1>9, <1>10, <1>11, <1>12, <1>13
     DEF Next, Call, Environment, Handle

\* Every step keeps the requests and the messages recorded.
LEMMA RecordedStep ==
  ASSUME Inv, [Next]_vars
  PROVE  PostIsRecorded'
<1> USE DEF Inv, Typed, CallHasChunk, CallInv, Busy, NetworkTyped, PostIsRecorded,
   FirstIsAlone
<1>a. UNCHANGED discord =>
        /\ \A i \in Chunks : MessagesOf(i)' = MessagesOf(i)
        /\ \A i \in Chunks, m \in DOMAIN discord : Exact(i, m)' <=> Exact(i, m)
  BY SameMessages
<1>b. /\ \A i \in Chunks : MessagesOf(i) \subseteq MessagesOf(i)'
      /\ \A i \in Chunks, m \in DOMAIN discord :
           Exact(i, m) => m \in DOMAIN discord' /\ Exact(i, m)'
  BY MessagesStay
<1> USE <1>a, <1>b
<1>1. CASE Handle
  <2>1. CASE IsRead
    BY <1>1, <2>1, Handling DEF IsRead, Advances, Becomes
  <2>2. CASE IsQuarantined
    BY <1>1, <2>2, Handling DEF IsQuarantined, Quarantines, Marks, Stops
  <2>3. ASSUME NEW m \in DOMAIN discord, NEW ms \in [Chunks -> Nat], IsConfirmed(m, ms)
        PROVE  PostIsRecorded'
    BY <1>1, <2>3, Handling DEF IsConfirmed, Confirms, Marks, Advances, Becomes
  <2>4. CASE IsScanned
    BY <1>1, <2>4, Handling DEF IsScanned, Stamps, Marks, Moves, Becomes
  <2>5. CASE IsPosted
    BY <1>1, <2>5, Handling DEF IsPosted, Stamps, Marks, Becomes
  <2> QED
    BY <1>1, <2>1, <2>2, <2>3, <2>4, <2>5, Handling
<1>2. CASE Prepare
  BY <1>2 DEF Prepare, network
<1>3. CASE Begin
  BY <1>3, Beginning DEF Begin, Becomes, network
<1>4. CASE Post
  BY <1>4, PostEffect DEF Post, Becomes, Pc
<1>5. CASE Limited
  BY <1>5, LimitedEffect DEF Moves, Becomes, Stops, Unstamps, Marks
<1>6. CASE Finish
  BY <1>6, Ending DEF Finish, Stops, network
<1>7. CASE Fail
  BY <1>7, Ending DEF Fail, Stops, network
<1>8. ASSUME NEW q \in wire, Accept(q) PROVE PostIsRecorded'
  <2>1. UNCHANGED row /\ wire' = wire \ {q} /\ q.chunk \in Chunks /\ row[q.chunk].attempted
    BY <1>8 DEF Accept
  <2>2. \A i \in Chunks : i # q.chunk => MessagesOf(i)' = MessagesOf(i)
    BY <1>8, NewMessage
  <2> QED
    BY <2>1, <2>2
<1>9. ASSUME NEW q \in wire, Refuse(q) PROVE PostIsRecorded'
  BY <1>9, RefuseEffect DEF Refuse, Moves, Becomes, Waiting, Pc
<1>10. ASSUME NEW q \in wire, Lose(q) PROVE PostIsRecorded'
  BY <1>10, LoseEffect DEF Lose, Stops, Waiting, Pc
<1>11. ASSUME NEW i \in Chunks, Age(i) PROVE PostIsRecorded'
  BY <1>11, Aging DEF Age, Marks, network
<1>12. ASSUME NEW i \in Chunks, Forget(i) PROVE PostIsRecorded'
  BY <1>12 DEF Forget
<1>13. CASE UNCHANGED vars
  BY <1>13 DEF vars, network
<1> QED
  BY <1>1, <1>2, <1>3, <1>4, <1>5, <1>6, <1>7, <1>8,
     <1>9, <1>10, <1>11, <1>12, <1>13
     DEF Next, Call, Environment, Handle

\* Every step keeps a stamping call alone with its chunk.
LEMMA FirstStep ==
  ASSUME Inv, [Next]_vars
  PROVE  FirstIsAlone'
<1> USE DEF Inv, Typed, CallHasChunk, NetworkTyped, RequestsDiffer, PostIsRecorded,
   FirstIsAlone
<1>a. UNCHANGED discord =>
        /\ \A i \in Chunks : MessagesOf(i)' = MessagesOf(i)
        /\ \A i \in Chunks, m \in DOMAIN discord : Exact(i, m)' <=> Exact(i, m)
  BY SameMessages
<1>b. /\ \A i \in Chunks : MessagesOf(i) \subseteq MessagesOf(i)'
      /\ \A i \in Chunks, m \in DOMAIN discord :
           Exact(i, m) => m \in DOMAIN discord' /\ Exact(i, m)'
  BY MessagesStay
<1> USE <1>a, <1>b
<1>1. CASE Handle
  <2>1. CASE IsRead
    BY <1>1, <2>1, Handling DEF IsRead, Advances, Becomes
  <2>2. CASE IsQuarantined
    BY <1>1, <2>2, Handling DEF IsQuarantined, Quarantines, Marks, Stops
  <2>3. ASSUME NEW m \in DOMAIN discord, NEW ms \in [Chunks -> Nat], IsConfirmed(m, ms)
        PROVE  FirstIsAlone'
    BY <1>1, <2>3, Handling DEF IsConfirmed, Confirms, Marks, Advances, Becomes
  <2>4. CASE IsScanned
    BY <1>1, <2>4, Handling DEF IsScanned, Stamps, Marks, Moves, Becomes
  <2>5. CASE IsPosted
    BY <1>1, <2>5, Handling DEF IsPosted, Stamps, Marks, Becomes
  <2> QED
    BY <1>1, <2>1, <2>2, <2>3, <2>4, <2>5, Handling
<1>2. CASE Prepare
  BY <1>2 DEF Prepare, network
<1>3. CASE Begin
  BY <1>3, Beginning DEF Begin, Becomes, network
<1>4. CASE Post
  BY <1>4, PostEffect DEF Post, Becomes, Pc
<1>5. CASE Limited
  BY <1>5, LimitedEffect DEF Moves, Becomes, Stops, Unstamps, Marks
<1>6. CASE Finish
  BY <1>6, Ending DEF Finish, Stops, network
<1>7. CASE Fail
  BY <1>7, Ending DEF Fail, Stops, network
<1>8. ASSUME NEW q \in wire, Accept(q) PROVE FirstIsAlone'
  BY <1>8, AcceptEffect, NewMessage DEF Accept, Becomes, Waiting, Pc
<1>9. ASSUME NEW q \in wire, Refuse(q) PROVE FirstIsAlone'
  BY <1>9, RefuseEffect DEF Refuse, Moves, Becomes, Waiting, Pc
<1>10. ASSUME NEW q \in wire, Lose(q) PROVE FirstIsAlone'
  BY <1>10, LoseEffect DEF Lose, Stops, Waiting, Pc
<1>11. ASSUME NEW i \in Chunks, Age(i) PROVE FirstIsAlone'
  BY <1>11, Aging DEF Age, Marks, network
<1>12. ASSUME NEW i \in Chunks, Forget(i) PROVE FirstIsAlone'
  BY <1>12 DEF Forget
<1>13. CASE UNCHANGED vars
  BY <1>13 DEF vars, network
<1> QED
  BY <1>1, <1>2, <1>3, <1>4, <1>5, <1>6, <1>7, <1>8,
     <1>9, <1>10, <1>11, <1>12, <1>13
     DEF Next, Call, Environment, Handle

\* Every step keeps a forgotten nonce harmless.
LEMMA ForgettingStep ==
  ASSUME Inv, [Next]_vars
  PROVE  ForgettingIsSafe'
<1> USE DEF Inv, Typed, CallHasChunk, NetworkTyped, FirstIsAlone, PostIsRecorded,
   ForgettingIsSafe
<1>a. UNCHANGED discord =>
        /\ \A i \in Chunks : MessagesOf(i)' = MessagesOf(i)
        /\ \A i \in Chunks, m \in DOMAIN discord : Exact(i, m)' <=> Exact(i, m)
  BY SameMessages
<1>b. /\ \A i \in Chunks : MessagesOf(i) \subseteq MessagesOf(i)'
      /\ \A i \in Chunks, m \in DOMAIN discord :
           Exact(i, m) => m \in DOMAIN discord' /\ Exact(i, m)'
  BY MessagesStay
<1> USE <1>a, <1>b
<1>1. CASE Handle
  <2>1. CASE IsRead
    BY <1>1, <2>1, Handling DEF IsRead, Advances, Becomes
  <2>2. CASE IsQuarantined
    BY <1>1, <2>2, Handling DEF IsQuarantined, Quarantines, Marks, Stops
  <2>3. ASSUME NEW m \in DOMAIN discord, NEW ms \in [Chunks -> Nat], IsConfirmed(m, ms)
        PROVE  ForgettingIsSafe'
    <3>1. \A i \in Chunks : row'[i].aged = row[i].aged
      BY <2>3 DEF IsConfirmed, Confirms, Marks
    <3>2. call'.pc # "post"
      BY <2>3 DEF IsConfirmed, Advances, Becomes
    <3> QED
      BY <1>1, <3>1, <3>2, Handling
  <2>4. CASE IsScanned
    <3>1. \A i \in Chunks : row'[i].aged = row[i].aged
      BY <2>4 DEF IsScanned, Stamps, Marks
    <3>2. call'.pc # "post"
      BY <2>4 DEF IsScanned, Moves, Becomes
    <3> QED
      BY <1>1, <3>1, <3>2, Handling
  <2>5. CASE IsPosted
    <3>1. \A i \in Chunks : row'[i].aged = row[i].aged
      BY <2>5 DEF IsPosted, Stamps, Marks
    <3>2. call'.at = call.at
      BY <2>5 DEF IsPosted, Becomes
    <3>3. row[call.at].attempted => ~row[call.at].aged
      BY <2>5 DEF IsPosted
    <3>4. UNCHANGED <<wire, remembered, discord>> /\ call.at \in Chunks
      BY <1>1, Handling
    <3>5. ~(remembered[call.at] = 0 /\ MessagesOf(call.at) # {})
      BY <3>3, <3>4
    <3> QED
      BY <3>1, <3>2, <3>4, <3>5
  <2> QED
    BY <1>1, <2>1, <2>2, <2>3, <2>4, <2>5, Handling
<1>2. CASE Prepare
  BY <1>2 DEF Prepare, network
<1>3. CASE Begin
  BY <1>3, Beginning DEF Begin, Becomes, network
<1>4. CASE Post
  BY <1>4, PostEffect DEF Post, Becomes, Pc
<1>5. CASE Limited
  BY <1>5, LimitedEffect DEF Moves, Becomes, Stops, Unstamps, Marks
<1>6. CASE Finish
  BY <1>6, Ending DEF Finish, Stops, network
<1>7. CASE Fail
  BY <1>7, Ending DEF Fail, Stops, network
<1>8. ASSUME NEW q \in wire, Accept(q) PROVE ForgettingIsSafe'
  <2>1. /\ UNCHANGED row /\ wire' = wire \ {q} /\ q.chunk \in Chunks
        /\ call'.pc # "post" \/ UNCHANGED call
    BY <1>8, AcceptEffect DEF Accept, Becomes
  <2>2. ASSUME NEW i \in Chunks, i # q.chunk
        PROVE  MessagesOf(i)' = MessagesOf(i) /\ remembered'[i] = remembered[i]
    BY <1>8, <2>2, NewMessage
  <2>3. remembered'[q.chunk] # 0 /\ remembered'[q.chunk] \in MessagesOf(q.chunk)'
    BY <1>8, <2>1, NewMessage
  <2> QED
    BY <2>1, <2>2, <2>3
<1>9. ASSUME NEW q \in wire, Refuse(q) PROVE ForgettingIsSafe'
  BY <1>9, RefuseEffect DEF Refuse, Moves, Becomes, Waiting, Pc
<1>10. ASSUME NEW q \in wire, Lose(q) PROVE ForgettingIsSafe'
  BY <1>10, LoseEffect DEF Lose, Stops, Waiting, Pc
<1>11. ASSUME NEW i \in Chunks, Age(i) PROVE ForgettingIsSafe'
  BY <1>11, Aging DEF Age, Marks, network
<1>12. ASSUME NEW i \in Chunks, Forget(i) PROVE ForgettingIsSafe'
  <2>1. /\ UNCHANGED <<row, wire, call, discord>>
        /\ row[i].aged /\ \A q \in wire : q.chunk # i
        /\ ~(call.pc = "post" /\ call.at = i)
    BY <1>12 DEF Forget, Pc
  <2>2. remembered'[i] = 0 /\ \A j \in Chunks : j # i => remembered'[j] = remembered[j]
    BY <1>12 DEF Forget
  <2> QED
    BY <2>1, <2>2
<1>13. CASE UNCHANGED vars
  BY <1>13 DEF vars, network
<1> QED
  BY <1>1, <1>2, <1>3, <1>4, <1>5, <1>6, <1>7, <1>8,
     <1>9, <1>10, <1>11, <1>12, <1>13
     DEF Next, Call, Environment, Handle

\* Every step keeps a scan's matches sound.
LEMMA FoundStep ==
  ASSUME Inv, [Next]_vars
  PROVE  Found'
<1> USE DEF Inv, Typed, CallHasChunk, NetworkTyped, RequestsDiffer, ForgettingIsSafe,
   Found, Sound
<1>a. UNCHANGED discord =>
        /\ \A i \in Chunks : MessagesOf(i)' = MessagesOf(i)
        /\ \A i \in Chunks, m \in DOMAIN discord : Exact(i, m)' <=> Exact(i, m)
  BY SameMessages
<1>b. /\ \A i \in Chunks : MessagesOf(i) \subseteq MessagesOf(i)'
      /\ \A i \in Chunks, m \in DOMAIN discord :
           Exact(i, m) => m \in DOMAIN discord' /\ Exact(i, m)'
  BY MessagesStay
<1> USE <1>a, <1>b
<1>1. CASE Handle
  <2>1. CASE IsRead
    BY <1>1, <2>1, Handling DEF IsRead, Advances, Becomes
  <2>2. CASE IsQuarantined
    BY <1>1, <2>2, Handling DEF IsQuarantined, Quarantines, Marks, Stops
  <2>3. ASSUME NEW m \in DOMAIN discord, NEW ms \in [Chunks -> Nat], IsConfirmed(m, ms)
        PROVE  Found'
    BY <1>1, <2>3, Handling DEF IsConfirmed, Confirms, Marks, Advances, Becomes
  <2>4. CASE IsScanned
    BY <1>1, <2>4, Handling DEF IsScanned, Stamps, Marks, Moves, Becomes
  <2>5. CASE IsPosted
    BY <1>1, <2>5, Handling DEF IsPosted, Stamps, Marks, Becomes
  <2> QED
    BY <1>1, <2>1, <2>2, <2>3, <2>4, <2>5, Handling
<1>2. CASE Prepare
  BY <1>2 DEF Prepare, network
<1>3. CASE Begin
  <2>1. call'.pc # "answered" /\ \A i \in Chunks : call'.matches[i] = 0
    BY <1>3, Beginning DEF Becomes
  <2> QED
    BY <2>1
<1>4. CASE Post
  BY <1>4, PostEffect DEF Post, Becomes, Pc
<1>5. CASE Limited
  BY <1>5, LimitedEffect DEF Moves, Becomes, Stops, Unstamps, Marks
<1>6. CASE Finish
  BY <1>6, Ending DEF Finish, Stops, network
<1>7. CASE Fail
  BY <1>7, Ending DEF Fail, Stops, network
<1>8. ASSUME NEW q \in wire, Accept(q) PROVE Found'
  <2>1. \A i \in Chunks : call'.matches[i] = call.matches[i]
    BY <1>8, AcceptEffect DEF Becomes
  <2>2. CASE Waiting(q)
    <3>1. q.chunk = call.at /\ q.chunk \in Chunks
      BY <2>2 DEF Waiting, Pc
    <3>2. call'.id = remembered'[q.chunk] /\ call'.at = call.at
      BY <1>8, <2>2, AcceptEffect DEF Becomes
    <3>3. remembered'[q.chunk] \in MessagesOf(q.chunk)'
      BY <1>8, <3>1, NewMessage
    <3> QED
      BY <2>1, <3>1, <3>2, <3>3
  <2>3. CASE ~Waiting(q)
    <3>1. UNCHANGED call
      BY <1>8, <2>3, AcceptEffect
    <3> QED
      BY <2>1, <3>1
  <2> QED
    BY <2>2, <2>3
<1>9. ASSUME NEW q \in wire, Refuse(q) PROVE Found'
  BY <1>9, RefuseEffect DEF Refuse, Moves, Becomes, Waiting, Pc
<1>10. ASSUME NEW q \in wire, Lose(q) PROVE Found'
  BY <1>10, LoseEffect DEF Lose, Stops, Waiting, Pc
<1>11. ASSUME NEW i \in Chunks, Age(i) PROVE Found'
  BY <1>11, Aging DEF Age, Marks, network
<1>12. ASSUME NEW i \in Chunks, Forget(i) PROVE Found'
  BY <1>12 DEF Forget
<1>13. CASE UNCHANGED vars
  BY <1>13 DEF vars, network
<1> QED
  BY <1>1, <1>2, <1>3, <1>4, <1>5, <1>6, <1>7, <1>8,
     <1>9, <1>10, <1>11, <1>12, <1>13
     DEF Next, Call, Environment, Handle

\* A chunk is accepted when all before it are in Discord and it is not, nor is
\* one after it.
LEMMA PrefixStep ==
  ASSUME Inv, [Next]_vars
  PROVE  ShowsPrefix'
<1> USE DEF Inv
<1>1. ASSUME NEW q \in wire, Accept(q) PROVE ShowsPrefix'
  <2> DEFINE k == q.chunk
             n == Len(discord)
  <2>1. /\ k \in Chunks /\ n \in Nat
        /\ DOMAIN discord = 1..n /\ DOMAIN discord' = 1..Len(discord')
    BY <1>1, AcceptEffect, Elements DEF Typed, NetworkTyped
  <2>2. CASE remembered[k] # 0
    BY <1>1, <2>2, NewMessage DEF ShowsPrefix
  <2>3. CASE remembered[k] = 0
    <3>1. MessagesOf(k) = {}
      BY <2>1, <2>3 DEF ForgettingIsSafe
    <3>2. k \notin DOMAIN discord
      BY <3>1 DEF ShowsPrefix, MessagesOf
    <3>3. row[k].attempted
      BY <2>1 DEF PostIsRecorded
    <3>4. ASSUME NEW j \in Chunks, j < k
          PROVE  j \in DOMAIN discord
      <4>1. row[j].id \in DOMAIN discord /\ Exact(j, row[j].id)
        BY <2>1, <3>3, <3>4 DEF TriedInOrder, Shown
      <4>2. discord[row[j].id].chunk = j
        BY <4>1 DEF Exact
      <4> QED
        BY <4>1, <4>2 DEF ShowsPrefix
    <3>5. k = n + 1
      <4>1. k \in Nat \ {0} /\ \A j \in Nat \ {0} : j < k => j \in Chunks
        BY <2>1, DeliveryAssumption DEF Chunks
      <4>2. k > n
        BY <2>1, <3>2, <4>1
      <4>3. ~(n + 1 < k)
        BY <2>1, <3>4, <4>1
      <4> QED
        BY <2>1, <4>1, <4>2, <4>3
    <3>6. /\ Len(discord') = n + 1
          /\ discord'[n + 1].chunk = k
          /\ \A m \in DOMAIN discord : discord'[m] = discord[m]
      BY <1>1, <2>3, AcceptEffect
    <3> QED
      BY <2>1, <3>5, <3>6 DEF ShowsPrefix
  <2> QED
    BY <2>2, <2>3
<1>2. UNCHANGED discord => ShowsPrefix'
  BY DEF ShowsPrefix
<1>3. UNCHANGED discord \/ \E q \in wire : Accept(q)
  BY DEF Next, Call, Environment, Prepare, Begin, ReadBack, Attempt, Post, Limited,
         Answer, Scan, Finish, Fail, Refuse, Lose, Age, Forget, vars, network
<1> QED
  BY <1>1, <1>2, <1>3

\* The program starts in the inductive invariant.
LEMMA InvInit == Init => Inv
<1> SUFFICES ASSUME Init PROVE Inv
  OBVIOUS
<1> USE DEF Init
<1>1. Typed
  BY TypedInit
<1>2. \A i \in Chunks : row[i] = Unsent /\ MessagesOf(i) = {}
  BY DEF MessagesOf
<1>3. CallInv /\ RequestsDiffer /\ FirstIsAlone /\ Found
  BY DEF CallInv, RequestsDiffer, FirstIsAlone, Found, Sound, NoCall
<1>4. TriedInOrder /\ Manifested /\ Shown /\ PostIsRecorded /\ ForgettingIsSafe
  BY <1>2 DEF TriedInOrder, Manifested, Shown, PostIsRecorded, ForgettingIsSafe, Unsent
<1>5. ShowsPrefix
  BY DEF ShowsPrefix
<1> QED
  BY <1>1, <1>3, <1>4, <1>5 DEF Inv

\* Every step keeps the inductive invariant.
LEMMA InvStep == Inv /\ [Next]_vars => Inv'
<1> SUFFICES ASSUME Inv, [Next]_vars PROVE Inv'
  OBVIOUS
<1>1. Typed'
  BY TypedStep DEF Inv
<1>2. CallInv' /\ TriedInOrder' /\ Manifested' /\ Shown' /\ RequestsDiffer'
  BY CallStep, OrderStep, ManifestedStep, ShownStep, RequestsStep
<1>3. PostIsRecorded' /\ FirstIsAlone' /\ ForgettingIsSafe' /\ Found' /\ ShowsPrefix'
  BY RecordedStep, FirstStep, ForgettingStep, FoundStep, PrefixStep
<1> QED
  BY <1>1, <1>2, <1>3 DEF Inv

\* Every reachable state is in the inductive invariant.
LEMMA Invariance == Spec => []Inv
BY InvInit, InvStep, PTL DEF Spec

-----------------------------------------------------------------------------
(* Theorems *)

\* The state has its type.
THEOREM Typing == Spec => []TypeOK
<1>1. Inv => TypeOK
  BY TypesOK DEF Inv
<1> QED
  BY <1>1, Invariance, PTL

\* Discord shows the beginning of the answer, each chunk once, in order.
THEOREM PrefixIsShown == Spec => []ShowsPrefix
<1>1. Inv => ShowsPrefix
  BY DEF Inv
<1> QED
  BY <1>1, Invariance, PTL

\* What may be or may become a message has a recorded attempt.
THEOREM PostsAreRecorded == Spec => []PostIsRecorded
<1>1. Inv => PostIsRecorded
  BY DEF Inv
<1> QED
  BY <1>1, Invariance, PTL

\* A chunk that counts as sent names a message with its content.
THEOREM SentMessagesAreExact == Spec => []SentIsExact
<1>1. Inv => SentIsExact
  BY DEF Inv, Shown, SentIsExact
<1> QED
  BY <1>1, Invariance, PTL

KeepsQuarantine ==
  \A i \in Chunks : row[i].ambiguous =>
    /\ row'[i].ambiguous
    /\ row'[i].state = row[i].state
    /\ posts' = posts

\* No call runs while a chunk is quarantined, and no other step writes a row's
\* state or posts.
THEOREM QuarantineIsFinal == Spec => QuarantineHolds
<1>1. ASSUME Inv, [Next]_vars PROVE KeepsQuarantine
  <2>1. SUFFICES ASSUME NEW i \in Chunks, row[i].ambiguous
                 PROVE  /\ row'[i].ambiguous
                        /\ row'[i].state = row[i].state
                        /\ posts' = posts
    BY DEF KeepsQuarantine
  <2>2. call.pc = "idle"
    BY <1>1, <2>1 DEF Inv, CallInv
  <2>3. ASSUME NEW j \in Chunks, Age(j)
        PROVE  /\ row'[i].ambiguous = row[i].ambiguous
               /\ row'[i].state = row[i].state
               /\ posts' = posts
    BY <1>1, <2>3, Aging DEF Inv, Typed, Marks, Age, network
  <2>4. \/ UNCHANGED <<row, posts>>
        \/ \E j \in Chunks : Age(j)
    BY <1>1, <2>2 DEF Next, Call, Environment, Prepare, Begin, ReadBack, Attempt, Post,
       Limited, Answer, Scan, Finish, Fail, Accept, Refuse, Lose, Forget, vars, network, Pc
  <2> QED
    BY <2>1, <2>3, <2>4
<1>2. Inv /\ [Next]_vars => [KeepsQuarantine]_vars
  BY <1>1
<1> QED
  BY <1>2, Invariance, PTL DEF Spec, QuarantineHolds, KeepsQuarantine

-----------------------------------------------------------------------------
(* The chunks implement Outbox *)

SomeQuarantined == \E i \in Chunks : row[i].ambiguous
St == IF SomeQuarantined THEN "ambiguous" ELSE manifest
Complete == \A i \in Chunks : \E m \in DOMAIN discord : Exact(i, m)

\* A step of the chunks is a step of Outbox or none: only the steps that
\* quarantine, prepare, finish and accept can be seen there.
AbstractStep ==
  \/ St = "none" /\ St' = "prepared" /\ Complete' = Complete
  \/ St # "none" /\ ~Complete /\ Complete' /\ St' = St
  \/ St = "prepared" /\ Complete /\ St' = "sent" /\ Complete' = Complete
  \/ St \in {"prepared", "sent"} /\ St' = "ambiguous" /\ Complete' = Complete
  \/ St' = St /\ Complete' = Complete

\* A complete message stays complete, and only Discord completes it.
LEMMA CompleteStays ==
  ASSUME Inv, [Next]_vars
  PROVE  /\ Complete => Complete'
         /\ UNCHANGED discord => Complete' = Complete
<1>1. Complete => Complete'
  BY MessagesStay DEF Inv, Complete
<1>2. UNCHANGED discord => Complete' = Complete
  BY DEF Complete, Exact
<1> QED
  BY <1>1, <1>2

\* The abstract state changes only with the manifest or a quarantine.
LEMMA SameFlags ==
  ASSUME UNCHANGED manifest,
         \A i \in Chunks : row'[i].ambiguous = row[i].ambiguous
  PROVE  St' = St
BY DEF St, SomeQuarantined

\* Every step is one of Outbox's steps, or leaves its variables alone.
LEMMA StepIsAbstract ==
  ASSUME Inv, [Next]_vars
  PROVE  AbstractStep
<1> USE DEF Inv
<1>1. CASE Handle
  <2>1. UNCHANGED <<manifest, discord>> /\ call.at \in Chunks /\ call.pc # "idle"
    BY <1>1, Handling
  <2>2. Complete' = Complete
    BY <2>1, CompleteStays
  <2>3. CASE IsQuarantined
    <3>1. row'[call.at].ambiguous
      BY <2>3 DEF IsQuarantined, Quarantines, Marks
    <3>2. ~SomeQuarantined /\ manifest # "none"
      BY <2>1 DEF CallInv, SomeQuarantined
    <3>3. St' = "ambiguous" /\ St \in {"prepared", "sent"}
      BY <2>1, <3>1, <3>2 DEF St, SomeQuarantined, Typed
    <3> QED
      BY <2>2, <3>3 DEF AbstractStep
  <2>4. CASE \A i \in Chunks : row'[i].ambiguous = row[i].ambiguous
    BY <2>1, <2>2, <2>4, SameFlags DEF AbstractStep
  <2>5. CASE IsRead
    BY <2>4, <2>5 DEF IsRead
  <2>6. ASSUME NEW m \in DOMAIN discord, NEW ms \in [Chunks -> Nat], IsConfirmed(m, ms)
        PROVE  AbstractStep
    BY <2>4, <2>6 DEF IsConfirmed, Confirms, Marks
  <2>7. CASE IsScanned
    BY <2>4, <2>7 DEF IsScanned, Stamps, Marks
  <2>8. CASE IsPosted
    BY <2>4, <2>8 DEF IsPosted, Stamps, Marks
  <2> QED
    BY <1>1, <2>3, <2>5, <2>6, <2>7, <2>8, Handling
<1>2. CASE Prepare
  <2>1. ~SomeQuarantined /\ ~SomeQuarantined'
    BY <1>2 DEF Prepare, Manifested, SomeQuarantined
  <2>2. St = "none" /\ St' = "prepared"
    BY <1>2, <2>1 DEF Prepare, St
  <2>3. Complete' = Complete
    BY <1>2, CompleteStays DEF Prepare, network
  <2> QED
    BY <2>2, <2>3 DEF AbstractStep
<1>3. CASE Finish
  <2>1. UNCHANGED <<row, discord>> /\ call.pc = "end"
    BY <1>3 DEF Finish, network, Pc
  <2>2. ~SomeQuarantined /\ ~SomeQuarantined' /\ manifest # "none"
    BY <2>1 DEF CallInv, SomeQuarantined
  <2>3. Complete
    BY <2>1 DEF CallInv, Shown, Complete
  <2>4. manifest' \in {"sent", manifest}
    BY <1>3 DEF Finish
  <2>5. Complete' = Complete
    BY <2>1, CompleteStays
  <2> QED
    BY <2>2, <2>3, <2>4, <2>5 DEF AbstractStep, St, Typed
<1>4. ASSUME NEW q \in wire, Accept(q) PROVE AbstractStep
  <2>1. UNCHANGED <<manifest, row>> /\ row[q.chunk].attempted /\ q.chunk \in Chunks
    BY <1>4 DEF Accept, PostIsRecorded, Typed, NetworkTyped
  <2>2. St' = St
    BY <2>1, SameFlags
  <2>3. St # "none"
    BY <2>1 DEF St, Manifested
  <2>4. Complete => Complete'
    BY CompleteStays
  <2>5. Complete \in BOOLEAN /\ Complete' \in BOOLEAN
    BY DEF Complete
  <2> QED
    BY <2>2, <2>3, <2>4, <2>5 DEF AbstractStep
<1>5. ASSUME NEW i \in Chunks, Age(i) PROVE AbstractStep
  <2>1. UNCHANGED <<manifest,
     discord>> /\ \A j \in Chunks : row'[j].ambiguous = row[j].ambiguous
    BY <1>5, Aging DEF Typed, Marks, Age, network
  <2> QED
    BY <2>1, SameFlags, CompleteStays DEF AbstractStep
<1>6. CASE Limited
  <2>1. UNCHANGED <<manifest, discord>>
    BY <1>6, LimitedEffect
  <2>2. \A j \in Chunks : row'[j].ambiguous = row[j].ambiguous
    BY <1>6, LimitedEffect DEF Unstamps, Marks
  <2> QED
    BY <2>1, <2>2, SameFlags, CompleteStays DEF AbstractStep
<1>7. CASE UNCHANGED <<manifest, row, discord>>
  BY <1>7, SameFlags, CompleteStays DEF AbstractStep
<1>8. \/ Handle \/ Prepare \/ Finish \/ Limited
      \/ \E q \in wire : Accept(q)
      \/ \E i \in Chunks : Age(i)
      \/ UNCHANGED <<manifest, row, discord>>
  BY DEF Next, Call, Environment, Handle, Begin, Post, Fail, Refuse, Lose, Forget,
     vars, network
<1> QED
  BY <1>1, <1>2, <1>3, <1>4, <1>5, <1>6, <1>7, <1>8

\* However many chunks there are, the message as a whole is sent only when it
\* is complete, and its quarantine is final: the behaviours are Outbox's.
THEOREM ChunksImplementOutbox == Spec => ImplementsOutbox
<1>1. Init => Whole!Init
  <2> SUFFICES ASSUME Init PROVE Whole!Init
    OBVIOUS
  <2>1. 1 \in Chunks
    BY DeliveryAssumption DEF Chunks
  <2>2. ~Complete /\ ~SomeQuarantined
    BY <2>1 DEF Init, Complete, SomeQuarantined, Unsent
  <2> QED
    BY <2>2 DEF Init, Whole!Init, Complete, SomeQuarantined
<1>2. Inv /\ [Next]_vars => [Whole!Next]_<<St, Complete>>
  BY StepIsAbstract DEF AbstractStep, Whole!Next, Whole!Prepare, Whole!Appear,
     Whole!Confirm, Whole!Quarantine, St, Complete, SomeQuarantined
<1> QED
  BY <1>1, <1>2, Invariance, PTL DEF Spec, ImplementsOutbox, Whole!Spec, St, Complete,
     SomeQuarantined

=============================================================================
