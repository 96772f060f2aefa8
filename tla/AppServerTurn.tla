--------------------------- MODULE AppServerTurn ---------------------------
(***************************************************************************)
(* One worker slot of the Codex bridge and the App Server it drives        *)
(* (src/codex_discord_bridge/appserver.py, and the loop of                 *)
(* src/codex_discord_bridge/main.py worker that owns the client).          *)
(*                                                                         *)
(* The slot keeps one CodexAppServer: a child process, the task that reads *)
(* its output, the queue of notifications and the buffer of the ones that  *)
(* a turn did not want.  For a claimed job it creates or resumes a thread, *)
(* checks the policy, starts a turn and follows its notifications until    *)
(* turn/completed.  Any exception ends with the client closed and a new    *)
(* one for the next job; after a success the client is used again, with    *)
(* whatever its queue and buffer still hold.                               *)
(*                                                                         *)
(* The App Server is external and is not trusted to behave: it runs hooks  *)
(* and tools, answers or not, and writes its notifications in any order.   *)
(* The jobs' rows, leases and deliveries are in CodexWorkers.              *)
(***************************************************************************)
EXTENDS Integers, Sequences, FiniteSets, SequencesExt

CONSTANTS
  Threads,     \* the App Server threads of the destinations
  Orders,      \* the display orders of the bound PreToolUse hooks
  FileOrder,   \* the hook that also guards a file change
  Runs,        \* identities of hook runs
  None,        \* no thread, turn identity, hook or process
  MaxTurns,    \* bound on the turns the App Server starts
  MaxLines,    \* bound on the notifications of all turns
  MaxBuffer,   \* the most notifications the buffer may hold (10,000)
  MaxQueue,    \* bound on the notifications waiting in the client
  Drifting,    \* the parts of the policy that may change
  MaxDrifts    \* bound on the changes of the policy's surroundings

VARIABLES
  pc,       \* where the slot's coroutine is
  todo,     \* the policy checks it has still to make before it goes on
  goal,     \* what it does when they are made
  job,      \* the job's thread and the turn's answer
  known,    \* the threads the store has saved for a destination
  loaded,   \* the threads this App Server process has loaded
  reader,   \* the client's task that reads the App Server's output; none, no client
  queue,    \* CodexAppServer.notifications
  buffer,   \* CodexAppServer.notification_buffer
  hooks,    \* the turn's active_hook_runs and hook_credits
  stdin,    \* a turn/start the App Server has not handled yet
  running,  \* the turn the App Server is running
  reply,    \* the turn whose identity the response to turn/start carries
  turns,    \* the number of turns started so far
  ledger,   \* history: what the App Server did in its latest turn
  drifted,  \* the parts of the policy that no longer hold
  warned,   \* whether the App Server has warned of a hook
  past      \* history: what no longer held when the job was claimed and when its turn ended

client   == <<loaded, queue, buffer, hooks>>
server   == <<stdin, running, turns>>
policy   == <<drifted, warned>>
history  == <<ledger, past>>
turnVars == <<pc, todo, goal, job, known, client, reader, reply, server, policy, history>>

NoTurn == 0

(***************************************************************************)
(* The policy.  A part holds or has drifted; the checks of a part raise    *)
(* when it has.                                                            *)
(***************************************************************************)
VaultPolicy  == "vault"          \* the sealed policy is the canonical one
Principal    == "principal"      \* the ChatGPT account is the bound one
Requirements == "requirements"   \* no administrator requirements
ConfigFile   == "configFile"     \* the isolated config.toml is the reviewed one
Effective    == "config"         \* so is the effective configuration the App Server reports
Model        == "model"          \* the model and its provider are offered
Profile      == "profile"        \* the permission profile is offered
Response     == "response"       \* a loaded thread keeps the requested policy
HookFiles    == "hookFiles"      \* the hooks' files are the sealed ones
HookList     == "hookList"       \* so are the hooks the App Server lists, without a warning
SkillFiles   == "skillFiles"     \* the skills' files are the bound ones
SkillList    == "skillList"      \* so are the skills the App Server lists
NoMCP        == "mcp"            \* the thread has no MCP server

Parts == {VaultPolicy, Principal, Requirements, ConfigFile, Effective, Model, Profile, Response,
          HookFiles, HookList, SkillFiles, SkillList, NoMCP}

\* The parts that the App Server is asked about; the others are looked at in files.
Asked == {Principal, Requirements, Effective, Model, Profile, HookList, SkillList, NoMCP}

ASSUME BoundsAssumption ==
  /\ FileOrder \in Orders
  /\ Drifting \subseteq Parts
  /\ {MaxTurns, MaxLines, MaxBuffer, MaxQueue, MaxDrifts} \subseteq Nat

\* None is no text: neither the state of a reader nor the status of a turn.
ASSUME NoneAssumption == None \notin {"running", "stopped", "completed", "interrupted"}

\* _require_shared_hooks and _require_shared_skills: the files are compared around
\* the list that the App Server gives.
HookChecks  == <<HookFiles, HookList, HookFiles>>
SkillChecks == <<SkillFiles, SkillList, SkillFiles>>
\* start: before the process, after initialize, and once more at its end.
StartChecks == <<ConfigFile, VaultPolicy, HookFiles, Principal, Requirements, Effective, Model,
                 Profile>> \o HookChecks \o SkillChecks \o <<VaultPolicy, HookFiles, Principal>>
\* worker: at the top of its loop.
LoopChecks  == <<VaultPolicy, HookFiles, Principal>>
\* create_thread: before thread/start; and after it, like ensure_thread after
\* thread/resume, once the response has been validated.
CreateChecks == <<ConfigFile, VaultPolicy, HookFiles, Principal>>
LoadChecks  == <<Response, Requirements, Effective>> \o HookChecks \o SkillChecks
                 \o <<NoMCP, VaultPolicy, HookFiles, Principal>>
\* turn: around ensure_thread; and in its finally clause, where the skills that the
\* App Server lists are not looked at again.
EnterChecks == <<ConfigFile, VaultPolicy, Principal, VaultPolicy, HookFiles, Principal>>
TurnChecks  == <<Requirements, Effective>> \o HookChecks \o SkillChecks
\* Mutant: the finally clause does not look at the skills' files.
LeaveChecksLess == HookChecks \o <<VaultPolicy, Principal>>
LeaveChecks == <<SkillFiles>> \o HookChecks \o <<VaultPolicy, Principal>>

\* Whether a part passes its check.
Holds(part) == part \notin drifted /\ (part = HookList => ~warned)

(***************************************************************************)
(* Notifications.                                                          *)
(***************************************************************************)
\* A line of the turn n on the thread t.
Line(method, t, n) == [method |-> method, thread |-> t, turn |-> n]
HookLine(method, t, n, run, order, status) ==
  [method |-> method, thread |-> t, turn |-> n, run |-> run, order |-> order, status |-> status]
ReaderStopped == [method |-> "_protocol/error"]
Warning == Line("warning", None, NoTurn)

\* Mutant: a message of any turn on the thread is one for the turn.
MatchesThread(m, t, n) == m.method = "_protocol/error" \/ m.thread \in {None, t}

\* Whether a message is one for the turn n on the thread t.
Matches(m, t, n) ==
  \/ m.method = "_protocol/error"
  \/ IF m.method \in {"item/completed", "turn/completed"}
     THEN m.thread = t /\ m.turn = n
     ELSE m.thread \in {None, t} /\ m.turn \in {NoTurn, n}

\* The hooks that must have run before a tool.
Required(tool) == IF tool = "commandExecution" THEN Orders ELSE {FileOrder}

Unseen == [fresh |-> FALSE, claim |-> {}, end |-> {}]
NoHooks == [active |-> [r \in Runs |-> None], credits |-> [o \in Orders |-> 0]]
NoJob   == [thread |-> None, turn |-> NoTurn, answer |-> None]
\* What the App Server did in a turn: the completed hook runs no tool has used,
\* the runs under way, its last message, and whether every tool had its hooks.
NewLedger == [spare |-> [o \in Orders |-> 0], open |-> [r \in Runs |-> None],
              thread |-> None, lines |-> 0, said |-> None, hooked |-> TRUE, ended |-> None]

TurnInit ==
  /\ pc = "start" /\ todo = <<>> /\ goal = None
  /\ job = NoJob /\ known = {} /\ loaded = {}
  /\ reader = None
  /\ queue = <<>> /\ buffer = <<>> /\ hooks = NoHooks
  /\ stdin = None /\ running = NoTurn /\ reply = NoTurn
  /\ turns = 0 /\ ledger = NewLedger
  /\ drifted = {} /\ warned = FALSE
  /\ past = Unseen

(***************************************************************************)
(* The slot.                                                               *)
(***************************************************************************)
\* Makes the checks, then goes on to the step next.
Checks(parts, next) == pc' = "check" /\ todo' = parts /\ goal' = next

GoesTo(next) == pc' = next /\ UNCHANGED <<todo, goal>>

\* worker and start: a new client, a new process, initialize and the checks.
Start ==
  /\ pc = "start"
  /\ reader' = "running"
  /\ Checks(StartChecks, "claim")
  /\ UNCHANGED <<job, known, client, reply, server, policy, history>>

\* close: the process group is terminated, or killed, and the tasks end; what the
\* client had received is dropped with it.
Closed ==
  /\ reader' = None
  /\ stdin' = None /\ running' = NoTurn /\ reply' = NoTurn
  /\ loaded' = {} /\ queue' = <<>> /\ buffer' = <<>> /\ hooks' = NoHooks /\ warned' = FALSE
  /\ UNCHANGED turns

\* What a request to a process that answers would find.
Serving == reader = "running"

\* One check passes: the part holds, and the App Server answered if it was asked.
CheckPasses ==
  /\ pc = "check" /\ todo # <<>>
  /\ Head(todo) \in Asked => Serving
  /\ Holds(Head(todo))
  /\ todo' = Tail(todo)
  /\ UNCHANGED <<pc, goal, job, known, client, reader, reply, server, policy, history>>

\* Where an exception leads: out of start or of the top of the loop to the end of
\* the worker, and with it of the service; out of a job to its except clause.
RaisesTo == IF goal \in {"claim", "take"} THEN "stopped" ELSE "failing"

\* One check raises: the part has drifted, or the request failed or timed out.
CheckRaises ==
  /\ pc = "check" /\ todo # <<>>
  /\ pc' = RaisesTo /\ todo' = <<>> /\ goal' = None
  /\ job' = [job EXCEPT !.answer = None]
  /\ IF RaisesTo = "stopped"
     THEN Closed
     ELSE UNCHANGED <<client, reader, reply, server, warned>>
  /\ UNCHANGED <<known, drifted, history>>

ChecksMade ==
  /\ pc = "check" /\ todo = <<>>
  /\ pc' = goal /\ goal' = None
  /\ UNCHANGED <<todo, job, known, client, reader, reply, server, policy, history>>

\* worker: a client whose reader has stopped is closed; else the checks of the loop.
Loop ==
  /\ pc = "claim"
  /\ IF reader = "stopped"
     THEN GoesTo("start") /\ Closed
     ELSE Checks(LoopChecks, "take") /\ UNCHANGED <<client, reader, reply, server, warned>>
  /\ UNCHANGED <<job, known, drifted, history>>

\* worker: a job is claimed; its destination has a thread, or gets one.
Take(t) ==
  /\ pc = "take" /\ turns < MaxTurns
  /\ job' = [NoJob EXCEPT !.thread = t]
  /\ past' = [fresh |-> t \notin loaded, claim |-> drifted, end |-> {}]
  /\ IF t \in known THEN Checks(EnterChecks, "ensure") ELSE Checks(CreateChecks, "create")
  /\ UNCHANGED <<known, client, reader, reply, server, policy, ledger>>

\* worker: there is no job to claim.
TakeNothing ==
  /\ pc = "take" /\ GoesTo("claim")
  /\ UNCHANGED <<job, known, client, reader, reply, server, policy, history>>

\* create_thread: thread/start is answered, and the checks are made.
Create ==
  /\ pc = "create" /\ Serving
  /\ Checks(LoadChecks, "created")
  /\ UNCHANGED <<job, known, client, reader, reply, server, policy, history>>

\* create_thread and save_thread; the turn then begins.
Created ==
  /\ pc = "created"
  /\ loaded' = loaded \union {job.thread}
  /\ known' = known \union {job.thread}
  /\ Checks(EnterChecks, "ensure")
  /\ UNCHANGED <<job, queue, buffer, hooks, reader, reply, server, policy, history>>

\* ensure_thread: a thread this process has not loaded is resumed and checked.
Ensure ==
  /\ pc = "ensure"
  /\ IF job.thread \in loaded
     THEN Checks(TurnChecks, "begin")
     ELSE Serving /\ Checks(LoadChecks, "resumed")
  /\ UNCHANGED <<job, known, client, reader, reply, server, policy, history>>

Resumed ==
  /\ pc = "resumed"
  /\ loaded' = loaded \union {job.thread}
  /\ Checks(TurnChecks, "begin")
  /\ UNCHANGED <<job, known, queue, buffer, hooks, reader, reply, server, policy, history>>

\* turn: turn/start is sent.
BeginTurn ==
  /\ pc = "begin"
  /\ GoesTo("starting")
  /\ stdin' = job.thread /\ reply' = NoTurn
  /\ UNCHANGED <<job, known, client, reader, running, turns, policy, history>>

\* turn: the response has come; the skills' files are compared once more.
Begun ==
  /\ pc = "starting" /\ reply # NoTurn
  /\ job' = [job EXCEPT !.turn = reply] /\ reply' = NoTurn
  /\ GoesTo(IF Holds(SkillFiles) THEN "follow" ELSE "interrupt")
  /\ UNCHANGED <<known, client, reader, server, policy, history>>

\* A request of a job fails: the process is gone, the reader stopped and failed
\* it, or its time is over.  A turn/start that nobody waits for is still handled.
RequestFails ==
  /\ pc \in {"create", "ensure", "begin", "starting"}
  /\ pc = "ensure" => job.thread \notin loaded
  /\ pc = "starting" => reply = NoTurn
  /\ GoesTo("failing")
  /\ UNCHANGED <<job, known, client, reader, reply, server, policy, history>>

\* turn: the loop ends with an answer (the finally clause checks before it is
\* returned), or with an exception (the turn is interrupted first).
Returns ==
  /\ Checks(LeaveChecks, "deliver")
  /\ past' = [past EXCEPT !.end = drifted \union (IF warned THEN {HookList} ELSE {})]
  /\ hooks' = NoHooks
  /\ UNCHANGED <<job, ledger>>
Raises ==
  /\ GoesTo("interrupt")
  /\ hooks' = NoHooks /\ job' = [job EXCEPT !.answer = None]
  /\ ledger' = [NewLedger EXCEPT !.lines = ledger.lines]
  /\ UNCHANGED past
Continues == GoesTo("follow") /\ UNCHANGED history

(***************************************************************************)
(* turn: what the loop does with one notification.                         *)
(***************************************************************************)
HookStarts(m) ==
  IF HookFiles \notin drifted /\ hooks.active[m.run] = None
  THEN /\ hooks' = [hooks EXCEPT !.active[m.run] = m.order]
       /\ Continues /\ UNCHANGED job
  ELSE Raises

\* Mutant: a hook that blocked its tool counts as one that let it pass.
HookCompletesBlind(m) ==
  IF m.status \in {"completed", "blocked"} /\ hooks.active[m.run] = m.order
  THEN /\ hooks' = [active |-> [hooks.active EXCEPT ![m.run] = None],
                    credits |-> [hooks.credits EXCEPT ![m.order] = @ + 1]]
       /\ Continues /\ UNCHANGED job
  ELSE Raises

HookCompletes(m) ==
  IF /\ HookFiles \notin drifted
     /\ m.status \in {"completed", "blocked"}
     /\ hooks.active[m.run] = m.order
  THEN /\ hooks' = [active |-> [hooks.active EXCEPT ![m.run] = None],
                    credits |-> IF m.status = "completed"
                                THEN [hooks.credits EXCEPT ![m.order] = @ + 1]
                                ELSE hooks.credits]
       /\ Continues /\ UNCHANGED job
  ELSE Raises

ToolStarts(m) ==
  IF \A o \in Required(m.tool) : hooks.credits[o] > 0
  THEN /\ hooks' = [hooks EXCEPT !.credits =
              [o \in Orders |-> IF o \in Required(m.tool) THEN @[o] - 1 ELSE @[o]]]
       /\ Continues /\ UNCHANGED job
  ELSE Raises

Answers(m) ==
  /\ job' = [job EXCEPT !.answer = m.text]
  /\ Continues /\ UNCHANGED hooks

Completes(m) ==
  IF /\ m.status = "completed"
     /\ job.answer # None
     /\ \A r \in Runs : hooks.active[r] = None
  THEN Returns
  ELSE Raises

Handles(m) ==
  CASE m.method = "hook/started"   -> HookStarts(m)
    [] m.method = "hook/completed" -> HookCompletes(m)
    [] m.method = "item/started"   -> ToolStarts(m)
    [] m.method = "item/completed" -> Answers(m)
    [] m.method = "turn/completed" -> Completes(m)
    [] m.method \in {"_protocol/error", "error", "warning"} -> Raises
    [] m.method = "thread/status/changed" -> Continues /\ UNCHANGED <<job, hooks>>

\* The buffered messages that the turn wants.
Wanted == {i \in DOMAIN buffer : Matches(buffer[i], job.thread, job.turn)}

\* _next_notification: the first wanted message of the buffer.
FollowBuffered ==
  /\ pc = "follow" /\ Wanted # {}
  /\ LET i == CHOOSE i \in Wanted : \A j \in Wanted : i <= j
     IN Handles(buffer[i]) /\ buffer' = RemoveAt(buffer, i)
  /\ UNCHANGED <<known, loaded, queue, reader, reply, server, policy>>

\* _next_notification: the next message of the queue, handled or put aside.
FollowQueued ==
  /\ pc = "follow" /\ Wanted = {} /\ queue # <<>>
  /\ queue' = Tail(queue)
  /\ IF Matches(Head(queue), job.thread, job.turn)
     THEN Handles(Head(queue)) /\ UNCHANGED buffer
     ELSE /\ buffer' = Append(buffer, Head(queue))
          /\ IF Len(buffer) < MaxBuffer
             THEN UNCHANGED <<pc, todo, goal, job, hooks, history>>
             ELSE Raises
  /\ UNCHANGED <<known, loaded, reader, reply, server, policy>>

\* turn: its deadline is over.
Deadline ==
  /\ pc = "follow"
  /\ Raises
  /\ UNCHANGED <<known, loaded, queue, buffer, reader, reply, server, policy>>

\* interrupt_turn: the App Server ends the turn, or the client is closed; the
\* checks of the finally clause follow (where there is one: the job fails in any
\* case), and the exception goes on.
Interrupt ==
  /\ pc = "interrupt"
  /\ Checks(LeaveChecks, "failing")
  /\ \/ /\ Serving
        /\ running' = NoTurn
        /\ UNCHANGED <<client, reader, reply, stdin, turns, warned>>
     \/ Closed
  /\ UNCHANGED <<job, known, drifted, history>>

\* worker: the job's lease is lost while its turn task is under way, which is
\* cancelled: a turn that is followed is interrupted, a request is given up.
LeaseLost ==
  /\ \/ pc \in {"ensure", "begin", "starting", "follow", "interrupt"}
     \/ pc = "check" /\ goal \in {"ensure", "resumed", "begin", "deliver", "failing"}
  /\ job' = [job EXCEPT !.answer = None]
  /\ pc' = IF pc = "follow" THEN "interrupt" ELSE "failing"
  /\ todo' = <<>> /\ goal' = None
  /\ hooks' = NoHooks /\ ledger' = [NewLedger EXCEPT !.lines = ledger.lines]
  /\ UNCHANGED <<known, loaded, queue, buffer, reader, reply, server, policy, past>>

\* worker: the answer is posted and the job finished, or that fails.
Deliver ==
  /\ pc = "deliver"
  /\ \/ GoesTo("claim")
     \/ GoesTo("failing")
  /\ job' = NoJob
  /\ ledger' = [NewLedger EXCEPT !.lines = ledger.lines, !.thread = ledger.thread,
                                 !.ended = ledger.ended]
  /\ past' = Unseen
  /\ UNCHANGED <<known, client, reader, reply, server, policy>>

\* Mutant: the client is kept for the next job.
FailJobKeeps ==
  /\ pc = "failing"
  /\ GoesTo("claim")
  /\ job' = NoJob /\ ledger' = [NewLedger EXCEPT !.lines = ledger.lines] /\ past' = Unseen
  /\ UNCHANGED <<known, client, reader, reply, server, policy>>

\* worker: the job is marked uncertain and noticed, and the client is closed.
FailJob ==
  /\ pc = "failing"
  /\ GoesTo("start") /\ Closed
  /\ job' = NoJob /\ ledger' = [NewLedger EXCEPT !.lines = ledger.lines] /\ past' = Unseen
  /\ UNCHANGED <<known, drifted>>

(***************************************************************************)
(* The reader, and the App Server whose lines it reads.                    *)
(***************************************************************************)
\* The reader puts a notification into the queue.
Reads(m) ==
  /\ Serving /\ Len(queue) < MaxQueue
  /\ queue' = Append(queue, m)
  /\ UNCHANGED <<pc, todo, goal, job, known, loaded, buffer, hooks, reader, reply,
                 stdin, turns, drifted, past>>

\* The App Server handles turn/start; the reader resolves the request, if it is
\* still pending.
StartTurn ==
  /\ stdin # None /\ running = NoTurn
  /\ turns' = turns + 1 /\ running' = turns + 1 /\ stdin' = None
  /\ ledger' = [NewLedger EXCEPT !.lines = ledger.lines, !.thread = stdin]
  /\ reply' = IF pc = "starting" /\ Serving THEN turns + 1 ELSE reply
  /\ UNCHANGED <<pc, todo, goal, job, known, client, reader, policy, past>>

\* A line of the turn that the slot follows.
Writes(m) ==
  /\ running # NoTurn /\ ledger.lines < MaxLines
  /\ pc \in {"starting", "follow"}
  /\ Reads(m) /\ UNCHANGED warned

Written == ledger.lines + 1

\* A hook run starts: one more run under way, unless the identity is in use.
WriteHookStarted(r, o) ==
  /\ Writes(HookLine("hook/started", job.thread, running, r, o, "running"))
  /\ ledger' = [ledger EXCEPT !.lines = Written, !.open[r] = IF @ = None THEN o ELSE "reused"]
  /\ UNCHANGED running

\* A hook run ends well, or blocks its tool, or fails.
WriteHookCompleted(r, o, status) ==
  /\ Writes(HookLine("hook/completed", job.thread, running, r, o, status))
  /\ ledger' = [ledger EXCEPT !.lines = Written, !.open[r] = IF @ = o /\ status # "failed" THEN None ELSE "failed",
                              !.spare[o] = IF status = "completed" THEN @ + 1 ELSE @]
  /\ UNCHANGED running

\* A tool starts, with or without its hooks.
WriteToolStarted(tool) ==
  /\ Writes([method |-> "item/started", thread |-> job.thread, turn |-> running, tool |-> tool])
  /\ ledger' = [ledger EXCEPT !.lines = Written,
                   !.hooked = @ /\ \A o \in Required(tool) : ledger.spare[o] > 0,
                   !.spare = [o \in Orders |-> IF o \in Required(tool) THEN @[o] - 1 ELSE @[o]]]
  /\ UNCHANGED running

\* An agent message: its text is told apart by the turn and the line.
Text == <<running, Written>>
WriteMessage ==
  /\ Writes([method |-> "item/completed", thread |-> job.thread, turn |-> running, text |-> Text])
  /\ ledger' = [ledger EXCEPT !.lines = Written, !.said = Text]
  /\ UNCHANGED running

\* The turn ends.
WriteCompleted(status) ==
  /\ Writes([method |-> "turn/completed", thread |-> job.thread, turn |-> running,
             status |-> status])
  /\ ledger' = [ledger EXCEPT !.lines = Written, !.ended = status]
  /\ running' = NoTurn

\* An error that is not retried.
WriteError ==
  /\ Writes(Line("error", job.thread, running))
  /\ ledger' = [ledger EXCEPT !.lines = Written]
  /\ UNCHANGED running

\* Lines of a turn that is over: its last hook, tool or message, late.
WriteLate ==
  /\ running = NoTurn /\ turns > 0 /\ ledger.ended # None /\ ledger.lines < MaxLines
  /\ \/ Reads([method |-> "item/completed", thread |-> ledger.thread, turn |-> turns,
                text |-> <<turns, Written>>])
     \/ Reads(Line("error", ledger.thread, turns))
  /\ ledger' = [ledger EXCEPT !.lines = Written]
  /\ UNCHANGED <<running, warned>>

\* News of a loaded thread, with no turn; the turn's loop ignores it.
WriteNews(t) ==
  /\ t \in loaded /\ ledger.lines < MaxLines
  /\ Reads(Line("thread/status/changed", t, NoTurn))
  /\ ledger' = [ledger EXCEPT !.lines = Written]
  /\ UNCHANGED <<running, warned>>

\* A warning that names a hook, with no thread: counted for good by the reader.
WriteWarning ==
  /\ ~warned /\ Reads(Warning)
  /\ warned' = TRUE
  /\ UNCHANGED <<running, ledger>>

\* Mutant: only the pending request learns that the reader stopped.
ReaderStopsQuietly ==
  /\ reader = "running"
  /\ reader' = "stopped"
  /\ running' \in {running, NoTurn}
  /\ UNCHANGED <<pc, todo, goal, job, known, client, reply, stdin, turns, policy, history>>

\* The output ends, is malformed, or asks for what the bridge refuses: the reader
\* fails the pending request, leaves its mark in the queue and stops.  The App
\* Server may be gone, or go on unread.
ReaderStops ==
  /\ reader = "running"
  /\ reader' = "stopped"
  /\ running' \in {running, NoTurn}
  /\ queue' = Append(queue, ReaderStopped)
  /\ UNCHANGED <<pc, todo, goal, job, known, loaded, buffer, hooks, reply, stdin, turns,
                 policy, history>>

\* A part of the policy changes under the running service.
Drift(part) ==
  /\ part \in Drifting /\ Cardinality(drifted) < MaxDrifts /\ part \notin drifted
  /\ drifted' = drifted \union {part}
  /\ UNCHANGED <<pc, todo, goal, job, known, client, reader, reply, server, history, warned>>

TurnNext ==
  \/ Start \/ CheckPasses \/ CheckRaises \/ ChecksMade
  \/ Loop \/ TakeNothing \/ (\E t \in Threads : Take(t))
  \/ Create \/ Created \/ Ensure \/ Resumed \/ BeginTurn \/ Begun \/ RequestFails
  \/ FollowBuffered \/ FollowQueued \/ Deadline \/ Interrupt \/ LeaseLost \/ Deliver \/ FailJob
  \/ StartTurn \/ WriteMessage \/ WriteError \/ WriteLate \/ WriteWarning \/ ReaderStops
  \/ \E r \in Runs, o \in Orders : WriteHookStarted(r, o)
  \/ \E r \in Runs, o \in Orders, s \in {"completed", "blocked", "failed"} :
       WriteHookCompleted(r, o, s)
  \/ \E tool \in {"commandExecution", "fileChange"} : WriteToolStarted(tool)
  \/ \E s \in {"completed", "interrupted"} : WriteCompleted(s)
  \/ \E t \in Threads : WriteNews(t)
  \/ \E part \in Parts : Drift(part)

TurnSpec == TurnInit /\ [][TurnNext]_turnVars

(***************************************************************************)
(* Properties.                                                             *)
(***************************************************************************)
Steps == {"start", "check", "claim", "take", "create", "created", "ensure", "resumed", "begin",
          "starting", "follow", "interrupt", "deliver", "failing", "stopped"}

\* The slot, its client and its App Server are in the states the code gives them,
\* and the client's account of the hooks counts no tool without its hooks.
TurnTypeOK ==
  /\ pc \in Steps /\ goal \in Steps \union {None} /\ todo \in Seq(Parts)
  /\ job.thread \in Threads \union {None} /\ job.turn \in 0 .. turns
  /\ loaded \subseteq known /\ known \subseteq Threads
  /\ reader \in {None, "running", "stopped"}
  /\ Len(queue) <= MaxQueue + 1 /\ Len(buffer) <= MaxBuffer + 1
  /\ hooks.credits \in [Orders -> Nat]
  /\ hooks.active \in [Runs -> Orders \union {None}]
  /\ stdin \in Threads \union {None} /\ running \in {NoTurn, turns} /\ turns \in 0 .. MaxTurns
  /\ drifted \subseteq Parts /\ warned \in BOOLEAN

\* The answer the slot delivers is the last message the App Server wrote in the
\* very turn the slot started for the job, and that turn was completed: whatever
\* late lines of the turn before still were in the queue and the buffer.
AnswerIsOwn ==
  pc = "deliver" =>
    /\ job.answer = ledger.said /\ job.answer # None
    /\ ledger.thread = job.thread /\ ledger.ended = "completed"

\* An answer is delivered only if every tool of its turn started after as many
\* successful runs of each of its hooks as tools had used them, and no hook run
\* was left open, reused, mismatched or failed: the client's account of the
\* notifications agrees with what the App Server did.
AnswerWasHooked ==
  pc = "deliver" => ledger.hooked /\ \A r \in Runs : ledger.open[r] = None

\* An answer is delivered only if the policy the job began under held when the
\* job was claimed (with a thread the process had to load, the thread's own
\* policy and its MCP servers too), and what guards the turn still held when it
\* ended.  The skills that the App Server lists are of the first kind only: the
\* code compares their files when the turn ends, and does not ask for the list.
AnswerUnderPolicy ==
  pc = "deliver" =>
    /\ past.claim \intersect {VaultPolicy, Principal, Requirements, ConfigFile, Effective,
                              HookFiles, HookList, SkillFiles, SkillList} = {}
    /\ past.fresh => past.claim \intersect {Response, NoMCP} = {}
    /\ past.end \intersect {VaultPolicy, Principal, HookFiles, HookList, SkillFiles} = {}

\* A slot that is between jobs, or is preparing one, has no turn running in its
\* App Server and none on the way there: a turn that it gave up, and even one
\* whose start nobody waited for, has ended with its client.
NoTurnIsLeft ==
  \/ pc \in {"starting", "follow", "interrupt", "failing"}
  \/ pc = "check" /\ goal = "failing"
  \/ running = NoTurn /\ stdin = None

\* A turn that is followed after the output of the App Server has ended, or has
\* broken the protocol, does not have to wait for its hour to pass: the reader's
\* mark is still ahead of it, neither taken by another turn nor put aside.
StopReachesTurn ==
  pc = "follow" /\ reader = "stopped" => \E i \in DOMAIN queue : queue[i] = ReaderStopped
=============================================================================
