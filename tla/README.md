# Verification of threadkeep

threadkeep runs two independent orchestrators that turn messages of one owner
on Discord into work of a coding agent: the **Claude runtime** (a listener
session, a SQLite queue, command processes, worker agents) and the **Codex
bridge** (one asyncio process with a Gateway session, a SQLite job table and a
pool of worker slots). Both promise the same kind of thing: no message is
lost, none is worked twice, messages of one thread are worked in order and
alone, and an answer appears once. Around them an approval Gateway takes the
owner's clicks, two verifiers watch that the Discord guild grants no more than
it should, and a takeover moves an old installation to a new one. Processes
stop anywhere, Discord answers late or never, and nothing but files and SQLite
rows survives. This directory holds the TLA+ modules that model those promises,
the TLC runs that check them on small instances, and TLAPS proofs of most of
them for every instance.

## Inventory

| Component (code) | State | Operations | Hard behaviour | What makes it correct |
|---|---|---|---|---|
| Claude message queue (`conversations/queue/mq.py`, `drainer.py`, `intake.py`, `agent/cx-chat.md`) | one row per message with a state, the listener's place in its protocol | intake, drain, classify, dispatch, mark-spawned, spawn, release, replay, dead-letter | listener sessions that die, commands that outlive them, dispatch timeouts, replay beside both | one row of a chat in flight, order per chat, one worker per message, authorisation before launch |
| Response delivery (`drainer.py`, `mq.py`, `lib.py`) | frozen text, attempt stamp, confirmation, quarantine, transcript | prepare, attempt, POST, prove, confirm, append, finish, quarantine | overlapping calls, lost and late POSTs, a nonce that is forgotten | at most one copy, exact confirmation, one transcript turn |
| Dispatch operation ledger (`dispatch.py`, `queue/idempotency.py`, `approval/create_thread.py`) | operation state and frozen session, lock, threads of Discord | prepare, create or reconcile the thread, bind conversation, append the input turn, complete | kills with the lock released and the helper alive, lagging reads | one conversation per thread, one input turn per message, a repeated dispatch completes |
| Conversation store (`conversations/lib.py`, `cli.py`) | one Markdown file per session, `by_thread` registry | ensure, append once, status changes, archive, reopen, gc | some writers hold `registry_lock`, some do not | no lost turn, the registry agrees with the files |
| Queue monitor (`queue/monitor.py`) | acknowledgement marks | alert, acknowledge dead letters | crash between alert and mark | every dead letter is alerted |
| Codex job store (`codex_discord_bridge/store.py`) | jobs, leases and generations, mappings, cursors, manifests | reserve with pruning, make ready, claim, finish, reclaim, quarantine, prune | two slots, restarts, policy changes, retention | destinations exclusive and ordered, no second turn |
| Codex bridge service (`main.py`) | process, startup phase, worker slots | lock, quarantine, reconcile, open, work, recover, stop | a stop at any step, a failed step of the exception handler | a completed job is shown; a released one is claimed |
| Codex Discord I/O (`discord_io.py`, `ingress.py`) | Gateway session, dispatch queue, handler, scan, verification timer | identify, resume, scan, handle, acknowledge, open thread, send chunks, verify | replayed, missed and edited messages, lost answers, four separate routing writes, a timer that belongs to a connection | nothing skipped or reordered; routing complete before release; readiness rests on a verification |
| Codex App Server client (`appserver.py`) | child process, reader task, notifications and their buffer, hook credits | start, create or resume a thread, check policy, turn, interrupt, close | late lines of an earlier turn, a reader that dies, a policy that drifts, a lost lease | an answer is its turn's own, hooked and under policy; no turn outlives its job |
| Approval gateway (`discord-gateway/client.py`, `interaction_store.py`, `router.py`) | session and checkpoint, inbox of clicks, router process | identify, resume, enqueue, acknowledge, claim, route, retry, dead-letter | a stop between acceptance, acknowledgement and checkpoint; a router that outlives its client; 12 attempts | no click is passed over or handled twice; a decision is never replaced |
| Gateway identify budget (`identify_budget.py`, `client.py`) | ledger file of IDENTIFY times | reserve, refuse, wait | restarts, a file that is unreadable, unavailable or lost | never more than the windows allow while the file exists; a wait ends with a slot |
| Approval requests (`approval/request_approval*.py`) | binding and marker files named by the draft, prompts in Discord | post, bind, arm, wait, decide, expire, clean up | an answer that races the timeout, a marker or a prompt of an earlier request for the draft | a decision is never taken for another prompt |
| Takeover (`conversations/claude_takeover.py`) | receipts, quarantine, reconciled messages, both runtimes | prepare, begin-replacement, finalize, abort | a kill between any two steps, work that goes on until it is stopped, a second takeover | the runtimes never overlap, the gap is served, a rollback is exact |
| Listener healthcheck (`launchd/cx-chat-healthcheck.sh`, `discord_permissions.py`) | tmux session, fault marker | verify, stop, restart, mark | it reads files and Discord with no lock while dispatches open threads | no stranger is passed, no refusal without cause, the listener returns |
| Discord access checks (`discord_permissions.py` of both, `discord_access.py`) | none | compute permissions, accept or refuse a guild | overwrites of @everyone, roles and member; four configurations of who may see what | accepted exactly when the effective permissions are the policy's |
| Configuration, authentication, exchange files, approval helpers, marker watcher, hooks, installers | none that a modelled protocol depends on | validation at start, filters | none, or covered where they are called | sequential functions |

How they interact: `intake` and the listener share the queue's rows; the
listener starts drainer commands, `dispatch-claimed` starts `dispatch.py`, and
that starts `create_thread.py`; a worker agent calls `complete-response`. All
of them share SQLite databases and conversation files, none shares memory. The
healthcheck reads the same files and the threads that dispatches open in
Discord. In the approval flow a request and a router meet only in two files,
and the client hands clicks to the router through its inbox. In the Codex
bridge the Gateway task and the slots share one process and the job table;
startup reconciliation runs before either; each slot owns one App Server. The
takeover shares the Claude queue with two runtimes. A start script or
`launchd` restarts each of them. `PROJECT.json` lists every component with its
status and every hazard at its line.

## Modules

| Module | Code | Composition |
|---|---|---|
| `ClaudeQueue` | queue, drainer commands, listener protocol | uses one step for dispatch and one for the worker's delivery |
| `ResponseDelivery` | `complete-response`, `reconcile-response`, `mark-errored` on one row | what `ClaudeQueue` takes as `WorkerCompletes` |
| `DispatchLedger` | `dispatch.py`, ledger, helper | what `ClaudeQueue` takes as one dispatch |
| `JobStore` | the jobs table, one operator per transaction | no variables; extended by the next two |
| `CodexWorkers` | the bridge process, slots, delivery outcomes, retention | extends `JobStore`; admission is one step |
| `CodexIngress` | Gateway session, scan, message handler, cursors | extends `JobStore`; a job's work is one step |
| `CodexDelivery` | `reconcile_delivery` and its tables, chunk by chunk | what `CodexWorkers` takes as one step of delivery; implements `Outbox` (checked and proved) |
| `Outbox` | none: the promise made of one frozen message | abstract |
| `AppServerTurn` | one slot's App Server client and the worker loop around it | what `CodexWorkers` takes as one turn |
| `Approval` | approval requests, the draining of the interaction inbox, router and responder | the session that fills the inbox is one step |
| `IdentifyBudget` | the budget's file, as operators | extended by `GatewaySession` |
| `GatewaySession` | the approval client's session, checkpoint and inbox | what fills the inbox of `Approval`; the router is one step |
| `Takeover` | the four commands over both runtimes | a runtime's work on the queue is one step per row |
| `DiscordPermissions` | how Discord computes permissions, and what each verifier demands | no variables; extended by the next two |
| `Healthcheck` | the listener's healthcheck and verifier beside the writers of files and threads | extends `DiscordPermissions` |
| `PostureWatch` | when the Codex bridge verifies its guild | extends `DiscordPermissions`; READY's scan is in `CodexIngress` |
| `ClaudeProofs`, `ResponseDeliveryProofs`, `DispatchLedgerProofs`, `CodexJobsProofs`, `CodexAnswerProofs`, `ApprovalProofs`, `GatewaySessionProofs`, `HealthcheckProofs` | theorems | extend their component and `TLAPS`; `ClaudeProofs` is about `ClaudeQueue` and `Takeover`, `CodexAnswerProofs` is about `AppServerTurn` and `CodexDelivery`, `CodexWorkersProofs` begins with the lemmas on `JobStore`, `HealthcheckProofs` with the theorems on `DiscordPermissions`, and it ends with those about `PostureWatch`, of which it takes an instance (`Bridge`) |
| `MC*` | instances for TLC | extend their component |

"What X takes as one step" is a statement about scope: the two modules name
the same rows and outcomes, but that mapping is not checked as a property (see
the plan). "Implements" is one that is.

### Correspondence

*ClaudeQueue.* A drainer command is a process record in `proc`. An action is
one SQLite transaction or one autocommit UPDATE of `mq.py`, or one decision of
the listener as `agent/cx-chat.md` prescribes it. `dispatch-claimed` and
`replay` read and write in different statements, so they have several actions
(`CheckClaim`, `DispatchOpens`, `DispatchSucceeds`, `ReleaseClaim`, ...;
`StartReplay`, `RearmOne`, `EndReplay`). `Crash` loses the session; its
command stays as an orphan until it ends or `KillOrphan` takes it. `aged` is
the fact that a claim is older than `STALE_CLAIM_SECONDS`, `bound` that the
row's dispatch operation completed. `rewound` records rows that a replay put
back although they had moved on, `workers` how many workers a row got.

*ResponseDelivery.* `rowState`, `content`, `attempted`, `ambiguous` and
`confirmed` are the `response_*` columns of one spawned row; `aged` says that
the stamp left the window in which a nonce may be used again. `caller` holds
the command processes; `wire` the POSTs Discord has not answered, which
outlive their caller; `discord` the messages under the row's nonce.

*DispatchLedger.* `op` is the table `dispatch_operations`, `lock` the flock of
the operation, `helper` the `create_thread.py` processes. `exists` and
`visible` are apart because a GET may lag behind a creation.

*JobStore.* A row has the columns the code decides on. `updated_at` is the
flag `old` (past the retention horizon) and `created_at, event_id` the number
`at`. `lease_until` is left out: its only reader, `reclaim_expired`, runs
after `reclaim_abandoned` has taken every row it could find.

*CodexWorkers.* `proc` is the process (its startup phase, policy fingerprint
and run), `actor` the slots and the startup reconciliation, `manifest` and
`shown` the two messages a job may send (the answer, the error notice) as the
table and as Discord have them. One action is one store call and what follows
up to the next `await`. `Stop` cancels every task at any step: the job of a
cancelled worker stays `running`, as in the code.

*CodexIngress.* `log`, `version`, `open` are Discord; `session`, `resumable`,
`passed` the Gateway session; `handler` the message in hand and the write it
has reached; `recon` the scan. The four routing writes of a root are four
actions. `process_dispatches` handles one dispatch at a time, so there is one
handler.

*CodexDelivery.* `row` is the table `deliveries`, one row per chunk, `manifest`
the row of `delivery_manifests`. `call` holds the local variables of
`reconcile_delivery`: the chunk in hand, `first_attempt`, the scan's candidates
and matches, the retries after a 429. An action goes up to the next `await`.
`aged` says that `attempted_at` is more than `NONCE_RETRY_WINDOW_SECONDS` ago.

*AppServerTurn.* `pc` is the worker's coroutine, `reader` the task that reads
the child's output, `queue` and `buffer` are `notifications` and
`notification_buffer`, `hooks` the open hook runs and the credits. `todo` and
`goal` are the policy checks a step still has to make, one request each, and
what it does after them. The App Server is an adversary that runs hooks and
tools in any order, writes late and unrelated lines, stops, and may lose a part
of the policy; `ledger` records what it really did in its latest turn, `past`
what no longer held when the job was claimed and when its turn ended.

*Approval.* `binding` and `marker` are the two files named by the draft's
digest, `request` the processes that share them, `prompts` and `armed` what
Discord shows. A binding is identified by the request that wrote it
(`binding_sha256` covers `created_at` and `expires_at`), a decision by that
and the click. `inbox` and `drainer` are the rows and the client's drain loop,
`router` the router processes with their responder; each read, link, unlink
and request to Discord is one action. `PostPrompt` may return the message of
an earlier request, as the nonce is computed from the draft. A row that was
tried before may be passed over: its `next_attempt_at` may lie ahead.

*GatewaySession.* `disk` is `client_state.json` and `mem` the state the client
holds: the session, the sequence to resume from, whether the guild is known.
`session.log` is Discord's numbered events, `pos` the next one received.
Receiving a click, acknowledging it and committing the checkpoint are three
actions, and a connection may be lost or the process stop after each. `ledger`
is `identify_budget.json`; `identified` records when IDENTIFY was really sent
since that file was last lost, `sleep` the wait a refusal asked for. A client
that waits asks when its sleep is over; `Unavailable` is the day it sleeps after
an OSError, `SendFails` a slot that is spent on a closed connection.

*Takeover.* `receipt` is the file of a takeover with its phase, plan, bounds
and backup; `tool` the command that holds `.takeover.lock` with its local
variables; `legacy` and `repl` what is loaded and running of each runtime;
`quarantine` and `recorded` the two tables the tool adds to the queue. An
action is one transaction, one receipt write, or one start or stop of a part.
`Killed` leaves only the receipt; `installer` says that the installer goes on
only while no command failed. Rows come from a listener's session, whose Discord
plugin delivers what is posted while the session is up and which runs
`queue/intake.py` for it (`agent/cx-chat.md:65-85`): `seen` is the last message
the session dealt with, a session that starts begins with what is posted from
then on (`Listening`), and an intake may fail (`LegacyMisses`,
`ReplacementMisses`). Nothing catches up but a takeover's reconciliation. The
gateway service only holds a Gateway session for the clicks on approvals. Two
history variables: `accepted` has the rows the replacement worked on since its
baseline, `heard` those that a session enqueued. Definitions have names of
their own (`TakeoverInit`, `Posts`, `Ended`), so that one module of proofs can
extend both this module and `ClaudeQueue`.

*DiscordPermissions.* A guild is a record: the permissions of @everyone and
the roles, who has which, the owner, and per channel the overwrites of
@everyone, roles and members. `InChannel` is the verifiers' calculation, three
overwrites applied in order; `Granted` is the reference beside it, each
permission decided by the most specific overwrite that mentions it.
`ClaudeAccepts` and `BridgeAccepts` are what the two verifiers demand;
`LeastPrivilege` states the policy in terms of `Granted`.

*Healthcheck.* `check.pc` walks through the verifier's reads: the two folders,
the registry, and its requests to Discord one by one (root channels, guild with
roles, member, channels, active threads, archived threads); then the pass or
the refusal, the marker, the restart. `writer` holds the worker that opens and
registers threads (under `registry_lock`) and the operator's command that moves
a conversation (without it). `still`, `steady`, `touched` and `unknown` record
what happened while the verifier read.

*PostureWatch.* `link`, `resumes`, `got` are the connection, the known session
and how far the dispatch queue got into `sent`; `watch` is the task
`permission_watch`, created at READY only; `check` says which verification is
under way and whether the guild changed since it began.

## Runs

Bounds are constants named in the modules (`MaxCrashes`, `MaxPosts`,
`MaxKills`, `MaxStops`, `MaxAges`, `MaxFaults`, `MaxExpiries`, `MaxClicks`,
`MaxTurns`, `MaxLines`, `MaxBuffer`, `MaxQueue`, `MaxDrifts`, `MaxSessions`,
`MaxTime`, `MaxEvents`, `MaxChanges`) or the sizes of the sets in the `.cfg`.

| Run | Checks | Bounds, and why they are enough |
|---|---|---|
| `claude_queue` | `OneInFlightPerChat`, `PerChatOrder`, `AtMostOneWorker`, `ReadyRowIsClaimed` under `FairSpec` | two top-level messages that queue behind each other and a reply in the first one's thread; two processes (an orphan and a command of the next session); one crash. 332,000 states. The proofs lift the bounds |
| `response_delivery` | `AtMostOneCopy`, `ConfirmedIsExact`, `TranscribedOnce` | two calls, two texts, three POSTs: a lost one, a retry and a late arrival. The proofs lift the bounds |
| `dispatch_ledger` | `OneInputTurn`, `EveryDispatchCompletes` under `FairSpec` | a top-level message and a reply to it, two dispatches, two helpers, one kill, two creations: a killed dispatch with a live helper beside its successor. 53,000 states. The proof of `OneInputTurn` lifts the bounds |
| `codex_workers` | `TurnsNeverRepeat`, `AloneInDestination`, `StrictOrder`, `CompletedIsShown`, `NeverRunsAcrossPolicies`, `ReleasedJobIsClaimed` under `FairSpec` | a root and a reply in its thread, two slots that contend for that thread, two policies and two stops (a policy that is replaced and comes back), one retention period. The proofs lift the bounds |
| `codex_ingress` | `NothingIsSkipped`, `InPostingOrder`, `ReleasedIsRouted`, `EveryMessageIsHandled` under `IngressFairSpec` | a root and two replies, pages of one message (a scan needs several), one fault, one invalidated session, edits and deletions, and a pending limit of one, so that a reply can be refused for it. 250,000 states. The proofs lift the bounds for the three safety properties |
| `codex_delivery` | `ImplementsOutbox` | three chunks (one before and one after any other) and five POSTs, so that chunks are repeated, lost or late; two rate limits per chunk instead of four. The proofs lift the bounds |
| `approval` | `DecisionIsClicked` | two requests for one draft, two clicks, two routers (an orphan and a successor), two attempts instead of twelve, one fault anywhere. The proofs lift the bounds |
| `takeover` | `OneRuntime`, `WindowIsServed`, `QuarantineIsAcknowledged`, `AbortSeesWork`, `RollbackIsExact` | two messages in a root channel and a registered thread (a busy and a quiet one), one of which may be edited; two takeovers, the second over what the first left; one fault anywhere: a kill or failure of a command, a session that ends, an intake that fails. 2.4 million states. Two messages do not reach the exception in `WindowIsServed`: that takes three, the first missed, the second a later row of its channel, the third a row of the other. The proofs lift the bounds for all five |
| `appserver_turn` | `AnswerIsOwn`, `AnswerWasHooked`, `AnswerUnderPolicy`, `NoTurnIsLeft`, `StopReachesTurn` | three jobs on two threads (a thread that is created, one that is resumed, one that is loaded already), two hooks of which one guards file changes, two hook runs, seven notifications, one buffered and one queued; one part of the policy that may change: one looked at before a thread (`mcp`), before a turn (`skillList`), and around one (`skillFiles`). 3.1 million states |
| `gateway_session` | `CheckpointIsDurable`, `HandledOnce`, `BudgetHolds`, `WaitIsExact`, `ClickIsHandled` under the fairness in `Spec` | two clicks and a denied one, an inbox of one row (so that it is full), three sessions, two faults, a clock of five ticks with windows of two and five and a least wait of two. 972,000 states. Proofs lift the bounds for the four safety properties |
| `healthcheck` | `StrangerIsCaught`, `RefusalHasCause`, `PassIsLeastPrivilege`, `ListenerReturns` under `FairSpec` | one dispatched thread and one stranger, four configurations of the guild (the installation's, a channel the bot should not see, @everyone opening threads, an administrator role), two events, one fault; a verification has nine reads, and two events suffice to change what lies on either side of one. 835,000 states |
| `bridge_posture` | `VerifiesAgain` under `FairSpec`, refuted | three unprocessed events, two changes between a private guild and one that leaks. See "Where code and documents disagree" |

`TypeOK` of each module whose theorem `Typing` is proved is not repeated in
the runs. The same holds for the other invariants that are proved and not in a run (see
"Proofs"). Runs that share an instance with a property are one run.

`CHECK_DEADLOCK FALSE` is set where the system really may rest: a queue whose
rows have all ended, a delivered answer, a takeover that is over, a bridge with
nothing posted once the bounds on faults are used up. The dispatch ledger,
the healthcheck and the bridge's verification never rest and keep the deadlock
check; the Gateway session rests when its clock and its sessions are used up.

### What the properties say about the hazards

The order and exclusion properties hold although commands of a dead session
run beside the next one, because every transition of `mq.py` that an orphan
can make is guarded by the state it left; the exception is `recover_stale`,
and the properties name it (`rewound`). At most one copy of an answer appears
although a POST may be accepted after its caller is gone, because the stamp is
written before the POST leaves and the nonce is the same for every attempt of
the row; the exception is a 4xx reset that undercuts another call
(`undercut`). A dispatch can be killed between any two steps because the
ledger records the possible creation before the helper starts. In the Codex
bridge a job that was running when the process stopped becomes uncertain under
a new generation and is never queued again, which is why a turn is started at
most once, and why its destination stays closed until somebody reviews it.
Nothing is skipped on ingress because the sequence a RESUME names is set only
after the message was handled, and the first READY scans from durable cursors.
An approval is decided only by a marker that carries the digest of the binding
the router checked against the clicked message, so a late router cannot decide
another request; that a marker is linked, never renamed into place, settles the
race of two.

The App Server client is used again after a success with what its queue and
buffer still hold; `AnswerIsOwn` and `AnswerWasHooked` hold because every
notification is matched by thread and turn, and the buffer is searched before
the queue. `NoTurnIsLeft` holds because every exception closes the client, and
with it a turn whose identity nobody knows. The takeover's runtimes do not
overlap because a stage stops and looks before the next one starts, and because
the receipt is written first: an abort reads the phase and undoes what may have
been done, not what was. `WindowIsServed` depends on the lower bound being taken
per channel; what it excepts is lost in the code too (see the observations): a
message that the listeners missed, when one of them enqueued a later message of
its channel before the window was opened. The approval client's checkpoint moves only after the row is in
the inbox, and the row's key is the interaction, so a replay neither loses a
click nor runs it again. A verifier that reads without a lock can still not pass
a thread that stayed open and unregistered all the while, because it reads the
registry before it asks Discord; the price is that a verification which overlaps
an ordinary thread creation refuses, stops the listener, and lets the next one
start it again.

### Fairness

- `ClaudeQueue.FairSpec`: the listener goes on, and so does some command while
  one runs (an orphan has only finitely many steps; the healthcheck in
  `launchd/cx-chat-healthcheck.sh` restarts a lost session). Nothing is assumed
  of workers, of the operator or of Discord, nor that a dispatch ever succeeds:
  `ReadyRowIsClaimed` exempts a chat whose rows wait behind an older row of
  another chat that fails for ever (`Starves`), and that alone.
- `DispatchLedger.FairSpec`: an unfinished row is dispatched again and again
  (the drain loop does that for a row that was released; for one left claimed
  see the observations), a waiting process gets the lock, every process goes on
  or fails within its timeout, no step of a helper fails for ever, Discord
  answers.
- `CodexWorkers.FairSpec`: `launchd` restarts the process, a slot keeps
  claiming, a turn ends at its deadline of 3600 seconds at the latest, a
  request to Discord returns or raises. How a request ends is free. Admission,
  stops and policy changes are not fair.
- `CodexIngress.IngressFairSpec`: `launchd` restarts the process, a request that does
  not fail returns, slots work off released jobs. Posts, changes and faults
  are not fair. `EveryMessageIsHandled` exempts executions in which the owner
  edits or deletes a message: see the observations below.
- `GatewaySession.Spec`: the client goes on (`launchd` restarts it, a
  connection attempt is repeated after a pause, requests have timeouts), and
  the drain loop works off each row. Clicks, outages, losses and crashes are
  not fair.
- `Healthcheck.FairSpec`: `launchd` starts the healthcheck every 300 seconds,
  a verification goes on to its end (each request has a timeout), and the
  script acts on its result. Nothing is assumed of dispatches, operators,
  Discord's users or the administrator.
- `PostureWatch.FairSpec`: the bridge connects and processes what it received,
  and the timer, where one is set, fires. Events and losses are not fair.
- `AppServerTurn` and `Takeover` state safety only: an operator runs the
  stages of a takeover, and a turn is bounded by deadlines.

## Proofs

The theorems hold for every value of the constants that the named assumptions
allow (each module names its own; TLC evaluates it in each run).

`ClaudeProofs`, first part, about `ClaudeQueue`: `Typing`, `ChatExclusion`, `ChatOrder`, `SingleWorker`,
`DurableLaunch`, `Binding`, `Finality`. The type invariant is strengthened by
`HoldsMessage` (a process or listener step that works on a message has one).
Exclusion is inductive with it. Order needs `OrderInv`: row numbers are below
`nextRow` and absent rows have 0 (`Numbered`), and the row the listener holds
has no unfinished elder in its chat (`HeldInOrder`); a claim takes the oldest,
and a released row is again the oldest. `WorkerInv` says that the row is
dispatched or ended while the listener is at "bound", and spawned or ended,
with no worker yet, while it is at "authorized". `BindingInv` says that a
dispatch process which reports success, and a row past `claimed`, have a
completed operation. Finality is an action property proved from the types.

The second part, about `Takeover`: `TakeoverTypes`, `RuntimesExclude`,
`WindowsAreServed`, `QuarantinesAreAcknowledged`, `AbortsSeeWork`,
`RollbacksAreExact`, from `TakeoverAssumption`: for any number of takeovers,
messages, channels, kills and failures. `TakeoverInv` has one part per question
the stages leave to a later one:

- `ControlInv`: one receipt is unfinished at a time, a command stands at steps
  that its receipt's phase allows, the installer goes on only with the receipt
  it began, and a receipt has a backup from the phase on that needs one. A kill
  keeps it because it keeps the receipts.
- `RuntimeInv`: besides the exclusion, that the replacement runs only under a
  receipt that went as far as to serve it, that a rollback begins with the
  replacement gone, and that prepare has no legacy runtime once it proved it
  stopped. `RuntimesExclude` is the first conjunct.
- `SessionInv`: the replacement's own Gateway session exists only in such a
  phase, and a rollback has put the saved one back before it restarts, and the
  legacy services are loaded before it is saved.
- `QuarantineInv`: a row is set aside as the plan has it, under a receipt that
  may still put it back. Between the second look and the setting aside the
  queue stands still, because nothing of the legacy runtime is left.
- `RowsFit` and `GapInv`: what is in the queue was posted, and in each channel
  there is nothing missing before a row but what is `Missed`: a listener
  enqueued a later message of that channel. A row that a reconciliation adds
  leaves no gap, because below it is its window, in order, and below that only
  what was missed. This is why one lower bound, the oldest of the channels'
  newest rows, finds everything else.
- `WindowInv`: what is done of a window is in the queue and what is left is in
  `todo`; below a lower bound is only what was missed; the replacement's listener
  is past it; a takeover commits with its window served.
- `AcceptedInv`: states only rise (`Rank`), so a row of the baseline that the
  replacement worked on has risen above what the baseline says of it, and a new
  row is outside. `AbortsSeeWork` follows: no difference, nothing accepted.

Lemmas reduce the 45 actions to what they do to one part of the state (`RowSteps`,
`ReceiptSteps`, `QueueSteps`, `BoundsStep` and the like), and the parts are kept one
lemma each. `RollbacksAreExact` and `AbortsSeeWork` are action properties
proved from the invariant at the step's beginning. The lower bound needs the
least and the greatest element of a set of numbers (`LeastElement`), by the
well-foundedness of < on the natural numbers.

`ResponseDeliveryProofs`: `Typing`, `OneCopy`, `Recorded`, `Exactness`,
`Transcription`, `Quarantining`. One copy is the conjunction `Once`:
`Len(discord) <= 1`; what is on the wire or in Discord has a recorded attempt
(`AttemptIsRecorded`); a call that is about to POST holds a stamp
(`PostsAreAttempts`); Discord forgets a nonce only when no POST can follow
(`ForgettingIsSafe`); and the call that may reset the stamp is alone with it
(`OwnerAlone`), unless `undercut`. That stamps and requests differ are
invariants of their own (`StampsDiffer`, `RequestsDiffer`). Exactness needs
that a frozen text never changes and that a call which found a match found
the frozen text (`ExactInv`); the transcript follows from that (`WriteInv`).

`DispatchLedgerProofs`: `Typing`, `TurnsDoNotRepeat`,
`ThreadsHaveOneConversation`, `CreationsAreRecorded`, `CompletionIsBound`.
`ProcessesFollowOps` says for each place of a dispatch what its operation has
reached: only the holder of the lock moves it. `OpsAreTrue` says what a state
stands for (a file, a thread, a turn in the transcript); the turn may be there
before its mark, which is what a kill between the two needs. `SessionsAreOwn`
and `TurnsAreOwn` say that a file and a turn belong to the operation that froze
the session, `HelpersFollowOps` that a helper, also one whose dispatch was
killed, finds the attempt on record. Lemmas first say what an action that
advances an operation, a dispatch or a helper leaves alone.

`CodexJobsProofs`, first part, about `CodexWorkers`: `Typing`, `NoTurnRepeats`, `SlotsAreAlone`,
`DestinationsAreOrdered`, `CompletionIsShown`, `PoliciesDoNotMix`, from
`StoreAssumption` (a root's thread is its own, the channel is no thread, SQL's
NULL is no number) and `WorkersAssumption`. Its first section says what each operation of `JobStore`
does to the rows; `RowSteps` then reduces the 25 actions to the six things
a step can do to them: admit, route, take, end, quarantine, or leave them.
The table's own invariants are proved over those: `TableInv` (a reply has a
row only after its root was routed, and admission numbers follow `seen`), which
`StrictOrder` needs when a root's destination changes from the channel to its
thread; `Exclusive` (nothing running or uncertain shares a destination);
`CrossInv`. `ActorInv` ties the actors to the table: a slot at work owns its
row under the current process, policy and generation; a slot that recovers or
reports a job left it uncertain and young, so that no pruning takes it; the
startup reconciliation is over when the slots begin; no two actors have one
job. With it `TurnInv` (who is about to start a turn holds the only claim the
event ever got) and `ShownInv` (who is about to complete a job has a confirmed
answer, which nobody else can take back) are inductive. `Inv` is their
conjunction.

The second part, about `CodexIngress`: `IngressTypes`, `MessagesAreNotSkipped`,
`PostingOrderIsKept`, `ReleasedRootsAreRouted`, from `StoreAssumption` and
`IngressAssumption` (a page has at least one message): for any events, threads,
page sizes, pending limits, faults and expired sessions. The types are not
enough for any of the three: what a cursor may have passed depends on which
session may be resumed, which roots are unfinished and how far a scan is.
`IngressInv` has these parts:

- `LogInv`, `AdmittedInv`, `ConnectionInv`: a thread exists only after its root
  was admitted, so that its messages come later than the root; the rows are of
  this policy and none is old; what connection, scan and message in hand are at
  together (`HandInv`).
- `RouteInv`: `ReleasedIsRouted`, and what each of the four routing writes has
  behind it (`DoneInv`). Nothing takes the mappings of a released root back:
  only a root that is reserved and deleted is cancelled.
- `StuckInv`: nothing was read yet in the thread of a reserved root (`Fresh`),
  unless its author changed it into one that the rules refuse (`Stuck`). When
  a session can be resumed, the one reserved root that is not stuck is the
  dispatch that will be replayed. So a root that is released sees all replies.
- `SkipInv`: `NothingIsSkipped`, with the account of what is missing. With a
  session to resume, a message of a channel that is read and neither admitted
  nor refused is one of the dispatches to come (`Future`). During a scan it is
  on the page, or later than the page while more pages or dispatches follow
  (`Scanned`). A cursor moves only over a page sorted by age, and an empty or
  short page says that only dispatches are missing: that a page is the oldest
  `PageSize` messages after the cursor is proved by cardinality
  (of the messages left off a short page,
  `WellFoundedInduction` gives the oldest).
- `PostingInv`: `InPostingOrder`, with what makes it inductive: whatever was
  posted before an admitted message of its thread was admitted or refused, so a
  message that gets a number now is later than all that have one.

`HandlerMoves`, `MissingMoves` and the `...Does` lemmas reduce the actions to
the few things one can do to the message in hand, to what is missing and to the
record of the scan.

`CodexAnswerProofs`, first part, about `AppServerTurn`: `TurnTyping`,
`StopsReachTurns`, `AnswersAreOwn`, `AnswersWereHooked`, `NoTurnsAreLeft`,
`AnswersAreUnderPolicy`, from `BoundsAssumption` and `NoneAssumption` (None is
no text). `ClientInv` keeps the mark of a stopped reader in the queue until the
job is given up, and says that a slot without a client has no turn.
`Accounts` is the argument about answers. While a turn is followed it is the
latest one (`TurnInv`), its lines are all still in the queue (`MessagesInv`:
only lines of turns that are over are ever put aside), and `Explained`: there
is a sequence of accounts, one between any two messages of the queue, that
leads from what the client knows of the turn (answer, credits, open runs) to
what the App Server did in it, each by the effect of one message, and is
constant once the turn has ended. A line appended to the queue extends that
sequence, one taken from it shifts it, and a start of a turn begins a constant
one; these are lemmas about any queue. At `turn/completed` the sequence has
only one value left, so the client's account is the App Server's, and the
turn has ended. `PolicyInv` says that what no longer held when the job was
claimed is among the checks that are still to be made, and what no longer held
when the turn ended among the checks of its `finally`; the list of skills is not
among those, and the theorem does not speak of it there. That the buffer's first
wanted message exists needs the least element of a set of positions, by the
well-foundedness of < on the natural numbers.

The second part, about `CodexDelivery`: `Typing`, `PrefixIsShown`,
`PostsAreRecorded`, `SentMessagesAreExact`, `QuarantineIsFinal`, `ChunksImplementOutbox`, from
`DeliveryAssumption` (at least one chunk). Lemmas first say what each action
writes, in terms of a few operators on rows and on the call; `Handling` then
reduces the four steps that decide about a chunk to five outcomes: it was
read as sent, it is quarantined, it is confirmed by an exact message, it is to
be scanned for, or it is to be posted. `Inv` holds the ordering argument: the
chunks before the one in hand are sent (`CallInv`), and a chunk is tried only
after those (`TriedInOrder`), so a request that Discord accepts late still
extends a prefix. That it cannot add a second copy needs that a nonce is
forgotten only when no request with it can follow (`ForgettingIsSafe`) and
that the call which may take its stamp back has nothing else on its way
(`FirstIsAlone`). `Shown` and `Found` tie the ids in the table and in the
scan's matches to exact messages, which Discord keeps. For the refinement,
`StepIsAbstract` shows that every step is one of `Outbox`'s or changes neither
of its variables: the abstract state is the manifest's, or ambiguous as soon as
one chunk is, and the message is complete when every chunk is shown.

`ApprovalProofs`: `Typing`, `DecisionsAreClicked`, `DecisionsStand`, from
`ApprovalAssumption`. Lemmas reduce the steps to three effects, one for each
kind of process (`RequestEffect`, `RouterEffect`, `ClientEffect`). The
invariant's core is `BoundToPrompt`: a request that has its prompt keeps it, so
what a router read in a binding, and what a marker says, stays true of that
request even when both files are gone. `ClicksAreMade` and `PromptIsPosted`
say that rows, routers and prompts stand for something that happened.

`GatewaySessionProofs`: `Typing`, `CheckpointsAreDurable`,
`SessionsAreVerified`, `ClicksAreHandledOnce`, `BudgetsHold`, `WaitsAreExact`,
from `GatewayAssumption`. The
core is `Follows`: a state that names Discord's latest session has a sequence
within its log, everything up to it is durable (a click is in the inbox), and
the session's READY was accepted if it goes past it. It is proved of `mem` and
of `disk` alike, so that a crash, which replaces one by the other, needs no
argument of its own. `ConnFollows` says what a connection at each step may rely
on (an enqueued click is in the inbox before it is acknowledged), `LogFollows`
that a log has one READY, at its beginning, and that a click follows an event
that brought the guild. `InboxIsBounded` is the cap. 

`BudgetsHold` and `WaitsAreExact` are about the budget, for any limits and
windows. `BudgetInv` says that the file's reservations are in order, that the k
latest of them are no earlier than the k latest IDENTIFY operations, and that
one the file does not tell of any more is a day old or covered by its block
(`Covers`); so of any limit + 1 IDENTIFY operations in a row, the last is a
window after the first (`Spaced`). `SleepInv` carries a sleep from the refusal
that began it (`RefusalIsExact`) to its end, whatever happens to the file. The ledger's operators filter and sort
sequences: lemmas state which elements a result has and in which order, not
how the fold computes it, and find the oldest reservation of a window as the
least element of a set of positions.

`HealthcheckProofs`: first six theorems about `DiscordPermissions`, for any
set of roles, members and channels and any overwrites. `CalculationDecides`:
applying the overwrites in order grants what the most specific one decides.
`ClaudeEnforcesPolicy`: the Claude verifier, which looks at overwrites and
computed permissions, accepts exactly the guilds whose effective permissions
are the policy's. `OnlyBotOpensThreads`, `BotIsConfined`, `OthersSeeNothing`,
`RolesDoNotOpen`: what a guild the bridge accepted grants to whom, also to a
member who is given any role without the administrator's permission later.

Then `Typing`, `StrangersAreCaught`, `RefusalsHaveCauses` and
`PassesAreLeastPrivilege` of `Healthcheck`. `Watched` follows the threads that
are open and unregistered since the verification began: they are not among
those it knows, and when it has read both lists they are in none it accepted.
`Grounded` ties what it read to what is there: while nobody changed the guild,
each answer it holds is the guild's (`Unchanged`), while nobody touched
anything, the files it read are the files there are (`Undisturbed`). The
actors beside the verifier are one lemma: each leaves what it read alone, or
spoils the history variable that says so (`Meanwhile`). `BridgeTyping` and
`BridgeReadiness` (a ready bridge stands on a verification of its own
connection) are about `PostureWatch`: a verification whose guild changed under
it was overtaken in this connection, as no verification outlives one (`Earned`).

Model-checked only: the liveness properties (`ReadyRowIsClaimed`,
`EveryDispatchCompletes`, `ReleasedJobIsClaimed`, `EveryMessageIsHandled`,
`ClickIsHandled`, `ListenerReturns`), which are out of the prover's reach, and
the refuted statement. Every safety property of the passing runs is proved.
Proved and in no run: `TypeOK` in each of the modules that have theorems, `LaunchIsDurable`, `TerminalIsFinal`,
`BoundBeforeDispatched`, `PostIsRecorded` of both deliveries,
`QuarantineHolds`, `SentIsExact`, `ShowsPrefix`, `OneConversationPerThread`,
`CreationIsRecorded`, `CompletedIsBound`, `DecisionStands`,
`SessionIsVerified`, `ReadyIsEarned`.

## Where code and documents disagree

`bridge_posture`: `permission_watch`, the task that verifies the guild every
300 seconds, is created when READY arrives and cancelled with its connection.
A connection that was resumed verifies once, at RESUMED, and sets no timer;
while no security event arrives the bridge serves without ever verifying again.
`docs/ARCHITECTURE.md:189` and `docs/SECURITY.md:174` say it verifies every
300 seconds.

Observations made while modelling, which no run states.

Claude queue and conversations:

- `recover_stale` runs once, when a session starts, and takes only claims older
  than 300 s (`mq.py:689`). A claim left by a dispatch that timed out later, or
  by a crash just before the restart, stays `claimed` and blocks its chat; the
  header (`mq.py:11`) says anything stuck is re-armed. Its UPDATE (`mq.py:707`)
  has no state in its WHERE and runs outside its SELECT, so a row an orphan
  moved on in between is put back and worked again (`rewound`).
- Exclusion is by `chat_id` (`mq.py:315`). The message that opened a thread has
  the channel's, its replies have the thread's, so both are worked at once.
- `claim_next` hands out the oldest claimable row of all chats (`mq.py:311`), a
  failed dispatch releases it (`drainer.py:110`) and attempts are not capped. A
  row whose dispatch fails for good, as one of an archived conversation does
  (`lib.py:359`), starves every younger row of the other chats.
- A reply in a thread that Discord has opened, but whose conversation is not
  registered yet, is dead-lettered (`drainer.py:59`).
- `clear_response_attempt` resets a stamp that a second call holds too, so a
  4xx answer to the first call can clear the attempt of the second
  (`undercut`); its docstring speaks of "only this call's first attempt".
- `mark_errored` checks for an unresolved POST in one statement and writes in
  the next (`mq.py:615`); an attempt that begins in between ends in an errored
  row. The nonce's age is computed before the POST leaves (`drainer.py:282`).
- After a reconciliation that found no thread, dispatch sends the creation
  again although the first may be on its way; Discord refuses the second one,
  so one thread results. `queue/README.md` says the POST is never repeated.
- Status changes, archive, reopen and gc change a transcript without
  `registry_lock` (`lib.py:467`), which can lose a turn; `ensure_conversation`
  refuses a conversation archived between two dispatches of one operation
  (`lib.py:359`).

Codex bridge:

- `enqueue_limited` prunes before it inserts (`store.py:299`). The first reply
  after the retention period deletes its own root, the thread's mapping,
  session and cursor; later replies in the thread are ignored.
- A reserved root that its author edits before the recovery makes
  `reconcile_recent` raise on every READY (`discord_io.py:1239`); no later
  message is read. A message edited between IDENTIFY and the scan, or deleted
  before its reaction (`discord_io.py:678`), makes the handler raise, and
  RESUME replays the dispatch until Discord drops the session. Such a message
  can be admitted after younger ones; `InPostingOrder` is about messages the
  owner leaves alone.
- A message refused for the pending limit leaves no trace (`discord_io.py:1189`,
  `:1222`). When a READY scan met it first, its dispatch, which waits behind the
  scan, offers it again; if the limit has room by then it is admitted, behind
  later replies of its thread. `InPostingOrder` leaves out the refused.
- A root that the rules refuse after an edit stays unready for ever and counts
  against `max_pending_jobs` (`store.py:312`), as an uncertain job does.
- The notice that a worker stopped is posted before the client is closed, so a
  turn whose start timed out may still be running when it appears. Hook credits
  are counted per hook, not per tool call. A hook warning that is read while the
  slot is idle fails the next job, which becomes uncertain although its turn
  never started. When the reader has stopped and the process has not, every
  later request waits its 60 seconds.
- The `finally` of a turn compares the files of the skills
  (`appserver.py:1350`) and does not ask for `skills/list` again, as it does for
  the hooks: a list that the App Server changes while a turn runs is noticed
  before the next turn only. `AnswerUnderPolicy` is stated accordingly.
- A security error raised by the reader of a connection can be masked by an
  ordinary exception of another task in `receive_forever`: the bridge then
  reconnects instead of stopping, and finds the error again in the replay.
  Messages replayed after a RESUME are handled before the check at RESUMED.

Approval:

- A click can decide two requests for one draft: its router is stopped after
  the marker was linked, the request returns and ends, the next request gets
  the same message by its nonce, and the retry finds that request's binding
  valid for the clicked message. `docs/ARCHITECTURE.md` says the reference
  proves a review "completed during that request".
- A request removes its marker before its buttons and its binding
  (`request_approval.py:629`). A second, opposite click that was queued finds
  the binding and no marker, and is recorded and shown in Discord although the
  first one was returned; the next request for the draft removes that marker.
- A READY that was refused for an extra guild leaves its session in memory; the
  RESUME that follows has no sequence and is refused, which costs an IDENTIFY.
  An outage of the guild followed by a lost connection also ends in an
  IDENTIFY, and clicks of the old session are lost.
- A budget file that is missing reads as an empty one (`client.py:151`,
  `identify_budget.py:66`), so whoever loses it gets another full limit, while
  `client.py:222` says "Unknown prior usage must not be treated as zero" of one
  that is there and cannot be read. `BudgetHolds` counts from the last loss.
- An OSError around the file denies for a full day (`client.py:293`) although a
  slot may be free a second later, and may have spent one; Codex's `acquire`
  sleeps an hour at most and lets the error pass. A transient read error counts
  as a corrupt file and overwrites it with a day's block (`client.py:155`).
- Nothing sends a heartbeat while the client waits for a slot (`client.py:847`),
  so Discord closes the connection during any longer wait: the slot is then
  reserved, IDENTIFY cannot be sent, and the next connection asks for another
  slot. Where slots come free further apart than Discord waits, every one of
  them is spent in this way (`SendFails`).

Takeover:

- `abort` compares the queue with the baseline before it stops the
  replacement, so work accepted in between is not seen; the header
  (`claude_takeover.py:23`) says it restarts the legacy runtime "only while the
  queue proves that the replacement has accepted no work". `AbortSeesWork` is
  about the moment of the comparison, and a row taken in between stays when the
  abort rolls back.
- What is posted while no listener's session is up, and what its intake fails
  on, has no row, and nothing looks for it but a takeover. The takeover looks
  only above the oldest of the channels' newest rows (`_global_lower`,
  `claude_takeover.py:1000-1007`): once a session has enqueued a later message
  of that channel, and the other channels have one too, the missed message is
  below the window and stays without an answer. An abort restarts the legacy
  runtime without reconciling what was posted meanwhile, so a second takeover
  may meet this. `WindowIsServed` excepts exactly these messages, by `heard`.
  Intake refuses a message by its content (`queue/intake.py:93`), the
  reconciliation does not look at it, so one that was refused may be enqueued.
- An abort that failed half-way in `restart_legacy` does not keep an operator
  from `begin-replacement`. `prepare` looks at the other receipts before it
  takes the lock. `finalize` enqueues and acknowledges rows after the baseline,
  so a later abort takes them for accepted work. A message posted after the final
  bound that the replacement's listener misses is not reconciled.

Listener healthcheck:

- The listener can stay down for good: the healthcheck stops it between a
  dispatch's creation of a thread and its registration (or between the file and
  the registry), every later verification refuses, and nobody repairs the
  difference while the listener is down. `docs/ARCHITECTURE.md:403` says the
  healthcheck recreates the session. `ListenerReturns` therefore exempts states
  in which there is something to object to (`Clean`).
- A session of that name that the launcher did not start is refused in every pass
  (`cx-chat-healthcheck.sh:254`), and no listener is started beside it.
- A verification that overlaps an ordinary thread creation refuses, because the
  registered threads are read first. A thread that is reopened between the two
  listings is missed.
- `append_turn` (locked) beside archive (unlocked), or an archive that is
  killed between its copy and its unlink, leaves a conversation in both
  folders, which every verification refuses. An unlocked rebuild of the
  registry may drop a new registration.
- The Claude verifier judges the bot and the baseline of @everyone; the bridge
  judges every overwrite of the channel.

## Not modelled, and why

Configuration, authentication, digests, exchange files and preflight checks are
sequential validation with no protocol state. Wording, titles, text filters,
metrics and logging do not reach a property. The rate limits of ingress leave
no trace when they refuse; the pending limit is modelled. Installers and hooks
are shell scripts without shared state. The repository retains the marker
watcher as a reference and runs it nowhere. The queue monitor reads metrics,
posts alerts and acknowledges dead letters: an open item of the plan.
`discord_access.py` edits an allowlist under a lock. Retention of the interaction inbox is
left out. Clocks that step back are outside: `rowid`, `at` and `clock` stand for
the order the timestamps give.

Named abstractions. `GatewaySession` takes the reservation of an IDENTIFY and
its sending as one step, after which a crash may still burn it, and the
rejection of a denied click that raises as a lost connection. `Takeover` leaves
out `launchd` loading services at a login, takes a message's row and its
reaction at intake as one step, and begins a replacement only for the installer
that prepared it, in the order of `install.sh` (1099, 1113); the command itself
checks the phase alone (`claude_takeover.py:2545-2548`). `Healthcheck` takes the pages of
archived threads as one answer and has no alerts; its sessions are those the
launcher started, which `stop_cx_chat` may refuse to stop for once
(`StopRefuses`), but not in every pass. `AppServerTurn` has one turn
at a time, as a slot does.

An assumption of `ResponseDelivery` and `CodexDelivery` that the code does not
bound: Discord forgets a nonce (`Forget`) only when no call that found the
window open still has its POST to send or on the wire. A process suspended
between that check and the request for minutes would break it. Messages that
somebody deletes from Discord are left out of both.

## Plan

In order.

1. Abstract specifications: a work queue with exactly-once authorisation that
   `ClaudeQueue` and `CodexWorkers` implement, `Outbox` implemented by
   `ResponseDelivery`, and the inbox of `Approval` by `GatewaySession`.
2. `Transcript`: locked and unlocked writers of one conversation file, and the
   queue monitor's marks.

A module of proofs holds one component; the smaller ones of the list join the
module of a component they extend.
