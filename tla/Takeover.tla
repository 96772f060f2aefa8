------------------------------ MODULE Takeover ------------------------------
(***************************************************************************)
(* conversations/claude_takeover.py: the migration from the legacy runtime *)
(* (launchd services, a tmux session and its listener) to a replacement    *)
(* that serves the same queue.  prepare stops the legacy runtime, backs    *)
(* up, quarantines the rows whose side effects are unknown and enqueues    *)
(* what Discord shows of the gap; begin-replacement freezes a baseline;    *)
(* finalize reconciles the gap again, has the replacement drain the queue  *)
(* and commits; abort restores the legacy runtime unless the replacement   *)
(* has accepted work.                                                      *)
(*                                                                         *)
(* One command runs at a time (an installer, or its operator); it may be   *)
(* killed between any two steps, when its receipt is all that remains.     *)
(* Both runtimes work on the queue while their parts are up.               *)
(*                                                                         *)
(* The listener's session is told of what is posted while it is up, and    *)
(* runs intake.py for each message (agent/cx-chat.md); nothing catches up  *)
(* on what is posted while it is down, or on an intake that failed.        *)
(*                                                                         *)
(* Abstracted: of each runtime's services the healthcheck, which starts    *)
(* the session, and the gateway, which keeps its Discord session in        *)
(* gateway.json; a row's updated_at by its state and acknowledgment, as no *)
(* row here returns to a state it left; the digest of a plan by the rows   *)
(* it digests; the files' checks.  Messages are the owner's, numbered as   *)
(* they are posted.                                                        *)
(***************************************************************************)
EXTENDS Naturals, FiniteSets

CONSTANTS
  N,           \* bound: messages 1..N
  Channels,    \* the root channel and the registered threads
  Channel,     \* the channel of each message
  Editable,    \* bound: the messages that may be edited, once
  LegacyOps,   \* ledger entries that a claim of the legacy runtime may have
  Session0,    \* gateway.json of the replacement at first: "none" or "prior"
  Receipts,    \* bound: takeovers
  NoTakeover,
  MaxFaults    \* bound: kills and failures of a command, sessions that end,
               \* intakes that fail

ASSUME TakeoverAssumption ==
  /\ N \in Nat
  /\ Channels # {} /\ Channel \in [1..N -> Channels]
  /\ Editable \subseteq 1..N
  /\ LegacyOps \subseteq {"none", "known", "unknown"}
  /\ Session0 \in {"none", "prior"}
  /\ NoTakeover \notin Receipts
  /\ MaxFaults \in Nat

VARIABLES
  posted,      \* Discord: the messages 1..posted have been posted
  edited,      \* Discord: the messages that were edited
  rows,        \* messages and dispatch_operations, by message
  quarantine,  \* takeover_quarantine: the receipt and the frozen row
  recorded,    \* takeover_reconciled_messages: the text that was bound
  receipt,     \* the receipts under state/takeover
  tool,        \* the command that holds .takeover.lock
  installer,   \* the receipt of the install.sh under way: its first failure
               \* ends it
  legacy,      \* its loaded services, its listener's session, the last message
               \* that session dealt with
  repl,        \* the same of the replacement
  session,     \* the replacement's gateway.json: "none", "prior" or "own"
  accepted,    \* history: rows the replacement worked on since its baseline
  heard,       \* history: the rows that a listener's session enqueued
  faults

queueVars == <<rows, quarantine, recorded>>
discordVars == <<posted, edited>>
runtimeVars == <<legacy, repl, session>>
historyVars == <<accepted, heard>>
takeoverVars == <<discordVars, queueVars, receipt, tool, installer, runtimeVars,
                  historyVars, faults>>

Posts == 1..N
Services == {"healthcheck", "gateway"}
Ended == {"done", "errored"}
RowState == {"absent", "received", "claimed", "dispatched", "spawned"} \cup Ended
Row == [state : RowState, op : {"none", "known", "unknown"}, acked : BOOLEAN]
NoRow == [state |-> "absent", op |-> "none", acked |-> FALSE]
NewRow == [state |-> "received", op |-> "none", acked |-> FALSE]
NoPlan == [m \in {} |-> NoRow]

NoCommand == [cmd |-> "idle", r |-> NoTakeover, pc |-> "idle", plan |-> NoPlan,
         todo |-> {}, at |-> 0, upper |-> 0, backup |-> FALSE,
         captured |-> FALSE]
NoReceipt == [phase |-> "absent", plan |-> NoPlan, backup |-> FALSE,
              gateway |-> "none", lower |-> 0, upper |-> 0,
              base |-> [max |-> {}, frozen |-> NoPlan]]

EarlyPhases == {"legacy-validated", "legacy-quiesced", "backup-complete",
                "quarantine-authorized", "gap-reconciling", "gateway-resetting"}
StartedPhases == {"replacement-starting", "replacement-reconciled",
                  "replacement-draining"}
FinalPhases == {"committed", "rolled-back"}
Phases == EarlyPhases \cup StartedPhases \cup FinalPhases
            \cup {"absent", "prepared", "manual-recovery-required"}

Posted == 1..posted
Text(m) == IF m \in edited THEN "edited" ELSE "original"
Phase(r, p) == receipt' = [receipt EXCEPT ![r].phase = p]
Fault == faults < MaxFaults /\ faults' = faults + 1

TakeoverInit ==
  /\ posted = 0
  /\ edited = {}
  /\ rows = [m \in Posts |-> NoRow]
  /\ quarantine = [m \in Posts |-> [by |-> NoTakeover, row |-> NoRow]]
  /\ recorded = [m \in Posts |-> "none"]
  /\ receipt = [r \in Receipts |-> NoReceipt]
  /\ tool = NoCommand
  /\ installer = NoTakeover
  /\ legacy = [loaded |-> Services, up |-> TRUE, seen |-> 0]
  /\ repl = [loaded |-> {}, up |-> FALSE, seen |-> 0]
  /\ session = Session0
  /\ accepted = {} /\ heard = {}
  /\ faults = 0

-----------------------------------------------------------------------------
(* The queue as the takeover reads it *)

Present == {m \in Posts : rows[m].state # "absent"}
Nonterminal == {m \in Present : rows[m].state \notin Ended}

\* queue_takeover_plan: the digest covers every nonterminal row.
Snapshot == [m \in Nonterminal |-> rows[m]]

\* classify_queue
Ambiguous(row) ==
  \/ row.state = "dispatched"
  \/ row.state = "claimed" /\ row.op = "none"
Blocking(row) ==
  \/ row.state = "spawned"
  \/ row.state = "claimed" /\ row.op = "unknown"
Blockers == {m \in Nonterminal : Blocking(rows[m])}

\* _global_lower: a channel without rows counts with its own snowflake, which
\* is older than any message.
Newest(c) ==
  LET own == {m \in Present : Channel[m] = c}
  IN  IF own = {} THEN 0 ELSE CHOOSE m \in own : \A n \in own : n <= m

\* Mutant: the newest row of all channels.
LowerNewest ==
  CHOOSE n \in {Newest(c) : c \in Channels} : \A c \in Channels : n >= Newest(c)

\* The oldest of the channels' newest rows.
Lower ==
  CHOOSE n \in {Newest(c) : c \in Channels} : \A c \in Channels : n <= Newest(c)

\* DiscordREST.capture_upper
Upper(lower) == IF posted > lower THEN posted ELSE lower

\* DiscordREST.messages_between, over all channels.
Window(lower, upper) == (lower + 1)..upper

\* queue_baseline and replacement_accepted_work
Baseline(q) ==
  LET there == {m \in Posts : q[m].state # "absent"}
  IN  [max |-> there,
       frozen |-> [m \in {n \in there : q[n].state \notin Ended} |-> q[m]]]

\* Mutant: only new rows count.
AcceptedRows(base) == Present \ base.max # {}

AcceptedWork(base) ==
  \/ Present \ base.max # {}
  \/ \E m \in DOMAIN base.frozen : rows[m] # base.frozen[m]

\* safe_pre_dispatch_backlog
Backlog == {m \in Nonterminal : rows[m].state # "spawned"}

LegacyRuns == legacy.loaded # {} \/ legacy.up
ReplacementRuns == repl.loaded # {} \/ repl.up

\* inspect_legacy and verify_replacement: every service is loaded and the
\* session is up.  A loaded gateway need not be connected.
LegacyExact == legacy.loaded = Services /\ legacy.up
ReplacementReady == repl.loaded = Services /\ repl.up

-----------------------------------------------------------------------------
(* A command's steps *)

At(c, p) == tool.cmd = c /\ tool.pc = p
Goes(p) == tool' = [tool EXCEPT !.pc = p]
Ends == tool' = NoCommand

\* An exception: prepare rolls back by itself, the others leave the receipt.
Raises ==
  /\ IF tool.cmd = "prepare" THEN Goes("restore") ELSE Ends
  /\ installer' = NoTakeover

Unfinished == {r \in Receipts : receipt[r].phase \notin FinalPhases \cup {"absent"}}

\* The plan command shows the queue, and the operator acknowledges it; an
\* unfinished takeover refuses the next.
Plan(r) ==
  /\ tool = NoCommand
  /\ receipt[r].phase = "absent"
  /\ Unfinished = {}
  /\ Blockers = {}
  /\ tool' = [NoCommand EXCEPT !.cmd = "prepare", !.r = r, !.pc = "acknowledged",
                          !.plan = Snapshot]
  /\ installer' = r
  /\ UNCHANGED <<discordVars, queueVars, receipt, runtimeVars, historyVars, faults>>

\* The queue is as planned, the replacement is absent and the legacy runtime
\* complete, or nothing is begun.
Validate ==
  /\ At("prepare", "acknowledged")
  /\ IF Snapshot = tool.plan /\ Blockers = {} /\ ~ReplacementRuns /\ LegacyExact
     THEN /\ Goes("stop")
          /\ receipt' = [receipt EXCEPT ![tool.r].phase = "legacy-validated",
                                        ![tool.r].plan = tool.plan]
          /\ UNCHANGED installer
     ELSE Ends /\ installer' = NoTakeover /\ UNCHANGED receipt
  /\ UNCHANGED <<discordVars, queueVars, runtimeVars, historyVars, faults>>

\* stop_label, the healthcheck first.
StopLabel(s) ==
  /\ At("prepare", "stop")
  /\ s \in legacy.loaded
  /\ s = "gateway" => "healthcheck" \notin legacy.loaded
  /\ legacy' = [legacy EXCEPT !.loaded = @ \ {s}]
  /\ UNCHANGED <<discordVars, queueVars, receipt, tool, installer, repl, session,
                 historyVars, faults>>

StopLegacySession ==
  /\ At("prepare", "stop")
  /\ legacy.loaded = {}
  /\ legacy' = [legacy EXCEPT !.up = FALSE]
  /\ Goes("prove")
  /\ UNCHANGED <<discordVars, queueVars, receipt, installer, repl, session,
                 historyVars, faults>>

ProveLegacyStopped ==
  /\ At("prepare", "prove")
  /\ IF LegacyRuns
     THEN Raises /\ UNCHANGED receipt
     ELSE /\ Phase(tool.r, "legacy-quiesced")
          /\ Goes("backup")
          /\ UNCHANGED installer
  /\ UNCHANGED <<discordVars, queueVars, runtimeVars, historyVars, faults>>

\* create_backup and verify_backup.  The gateway's file is copied with the
\* rest.
Backup ==
  /\ At("prepare", "backup")
  /\ receipt' = [receipt EXCEPT ![tool.r].phase = "backup-complete",
                                ![tool.r].backup = TRUE,
                                ![tool.r].gateway = session]
  /\ tool' = [tool EXCEPT !.pc = "recheck", !.backup = TRUE]
  /\ UNCHANGED <<discordVars, queueVars, installer, runtimeVars, historyVars, faults>>

\* Mutant: what was acknowledged is not compared again.
AuthorizeUnchecked ==
  /\ At("prepare", "recheck")
  /\ Phase(tool.r, "quarantine-authorized")
  /\ Goes("quarantine")
  /\ UNCHANGED <<discordVars, queueVars, installer, runtimeVars, historyVars, faults>>

\* The queue has changed since the acknowledgment, or the rows that will be
\* quarantined are exactly those the operator read about.
Authorize ==
  /\ At("prepare", "recheck")
  /\ IF Snapshot # receipt[tool.r].plan
     THEN Raises /\ UNCHANGED receipt
     ELSE /\ Phase(tool.r, "quarantine-authorized")
          /\ Goes("quarantine")
          /\ UNCHANGED installer
  /\ UNCHANGED <<discordVars, queueVars, runtimeVars, historyVars, faults>>

\* quarantine_ambiguous, one transaction.
Quarantine ==
  /\ At("prepare", "quarantine")
  /\ LET doubtful == {m \in Nonterminal : Ambiguous(rows[m])}
         bound == {m \in doubtful : quarantine[m].by # NoTakeover}
     IN  IF Blockers # {} \/ bound # {}
         THEN Raises /\ UNCHANGED <<rows, quarantine>>
         ELSE /\ quarantine' = [m \in Posts |->
                   IF m \in doubtful THEN [by |-> tool.r, row |-> rows[m]]
                                     ELSE quarantine[m]]
              /\ rows' = [m \in Posts |->
                   IF m \in doubtful THEN [rows[m] EXCEPT !.state = "errored"]
                                     ELSE rows[m]]
              /\ Goes("window")
              /\ UNCHANGED installer
  /\ UNCHANGED <<discordVars, recorded, receipt, runtimeVars, historyVars, faults>>

\* The window of the first reconciliation; finalize takes the same lower
\* bound and a later upper one.
OpenWindow ==
  /\ At("prepare", "window")
  /\ receipt' = [receipt EXCEPT ![tool.r].phase = "gap-reconciling",
                                ![tool.r].lower = Lower,
                                ![tool.r].upper = Upper(Lower)]
  /\ tool' = [tool EXCEPT !.pc = "reconcile", !.todo = Window(Lower, Upper(Lower))]
  /\ UNCHANGED <<discordVars, queueVars, installer, runtimeVars, historyVars, faults>>

ReopenWindow ==
  /\ At("finalize", "window")
  /\ LET upper == Upper(receipt[tool.r].lower)
     IN  tool' = [tool EXCEPT !.pc = "reconcile", !.upper = upper,
                              !.todo = Window(receipt[tool.r].lower, upper)]
  /\ UNCHANGED <<discordVars, queueVars, receipt, installer, runtimeVars,
                 historyVars, faults>>

Reconciling == tool.cmd \in {"prepare", "finalize"} /\ tool.pc = "reconcile"

\* _enqueue_reconciled: channel by channel, each in order; a message whose
\* recorded text differs ends the command.
Reconcile(m) ==
  /\ Reconciling
  /\ tool.at = 0
  /\ m \in tool.todo
  /\ \A n \in tool.todo : Channel[n] = Channel[m] => m <= n
  /\ IF recorded[m] \notin {"none", Text(m)}
     THEN Raises /\ UNCHANGED <<rows, recorded>>
     ELSE /\ rows' = [rows EXCEPT ![m] = IF @ = NoRow THEN NewRow ELSE @]
          /\ recorded' = [recorded EXCEPT ![m] = Text(m)]
          /\ tool' = [tool EXCEPT !.at = m]
          /\ UNCHANGED installer
  /\ UNCHANGED <<discordVars, quarantine, receipt, runtimeVars, historyVars, faults>>

\* The reaction, and then the row's acked_at.
Acknowledge ==
  /\ Reconciling
  /\ tool.at # 0
  /\ rows' = [rows EXCEPT ![tool.at].acked = TRUE]
  /\ tool' = [tool EXCEPT !.todo = @ \ {tool.at}, !.at = 0]
  /\ UNCHANGED <<discordVars, quarantine, recorded, receipt, installer,
                 runtimeVars, historyVars, faults>>

ResetGateway ==
  /\ At("prepare", "reconcile")
  /\ tool.todo = {}
  /\ receipt' = [receipt EXCEPT ![tool.r].phase = "gateway-resetting",
                                ![tool.r].base = Baseline(rows)]
  /\ Goes("fresh")
  /\ UNCHANGED <<discordVars, queueVars, installer, runtimeVars, historyVars, faults>>

\* mark_gateway_session_fresh
MarkFresh ==
  /\ At("prepare", "fresh")
  /\ session' = "none"
  /\ Goes("prepared")
  /\ UNCHANGED <<discordVars, queueVars, receipt, installer, legacy, repl,
                 historyVars, faults>>

Prepared ==
  /\ At("prepare", "prepared")
  /\ Phase(tool.r, "prepared")
  /\ Ends
  /\ UNCHANGED <<discordVars, queueVars, installer, runtimeVars, historyVars, faults>>

\* begin-replacement, before the installer loads the replacement.
Begin(r) ==
  /\ tool = NoCommand
  /\ installer = r
  /\ receipt[r].phase = "prepared"
  /\ receipt' = [receipt EXCEPT ![r].phase = "replacement-starting",
                                ![r].base = Baseline(rows)]
  /\ accepted' = {}
  /\ UNCHANGED <<discordVars, queueVars, tool, installer, runtimeVars, heard, faults>>

\* finalize begins with verify_replacement.
Finalize(r) ==
  /\ tool = NoCommand
  /\ installer = r
  /\ receipt[r].phase = "replacement-starting"
  /\ ReplacementReady
  /\ tool' = [NoCommand EXCEPT !.cmd = "finalize", !.r = r, !.pc = "window"]
  /\ UNCHANGED <<discordVars, queueVars, receipt, installer, runtimeVars,
                 historyVars, faults>>

Reconciled ==
  /\ At("finalize", "reconcile")
  /\ tool.todo = {}
  /\ receipt' = [receipt EXCEPT ![tool.r].phase = "replacement-reconciled",
                                ![tool.r].upper = tool.upper]
  /\ Goes("issue")
  /\ UNCHANGED <<discordVars, queueVars, installer, runtimeVars, historyVars, faults>>

\* The challenge is saved before it is sent.
IssueDrain ==
  /\ At("finalize", "issue")
  /\ Phase(tool.r, "replacement-draining")
  /\ Goes("drain")
  /\ UNCHANGED <<discordVars, queueVars, installer, runtimeVars, historyVars, faults>>

\* run_takeover_drain: the listener answers with the challenge's token, which
\* proves nothing about the queue.  No answer in time is a failure.
DrainAnswers ==
  /\ At("finalize", "drain")
  /\ Goes("backlog")
  /\ UNCHANGED <<discordVars, queueVars, receipt, installer, runtimeVars,
                 historyVars, faults>>

CheckBacklog ==
  /\ At("finalize", "backlog")
  /\ IF Backlog = {} THEN Goes("commit") /\ UNCHANGED installer ELSE Raises
  /\ UNCHANGED <<discordVars, queueVars, receipt, runtimeVars, historyVars, faults>>

\* The replacement is proven once more.
Commit ==
  /\ At("finalize", "commit")
  /\ IF ReplacementReady THEN Phase(tool.r, "committed") ELSE UNCHANGED receipt
  /\ Ends
  /\ installer' = NoTakeover
  /\ UNCHANGED <<discordVars, queueVars, runtimeVars, historyVars, faults>>

\* Mutant: the replacement is stopped only while it is starting.
AbortForgets(r) ==
  /\ tool = NoCommand
  /\ receipt[r].phase \in EarlyPhases \cup StartedPhases \cup {"prepared"}
  /\ IF receipt[r].phase \notin EarlyPhases /\ AcceptedWork(receipt[r].base)
     THEN Phase(r, "manual-recovery-required") /\ UNCHANGED tool
     ELSE /\ tool' = [NoCommand EXCEPT !.cmd = "abort", !.r = r,
                        !.pc = IF receipt[r].phase = "replacement-starting"
                               THEN "capture" ELSE "restore"]
          /\ UNCHANGED receipt
  /\ installer' = NoTakeover
  /\ UNCHANGED <<discordVars, queueVars, runtimeVars, historyVars, faults>>

\* abort, from the installer's exit trap or by the operator: what the queue
\* says of the replacement decides, before the replacement is stopped.
Abort(r) ==
  /\ tool = NoCommand
  /\ receipt[r].phase \in EarlyPhases \cup StartedPhases \cup {"prepared"}
  /\ IF receipt[r].phase \notin EarlyPhases /\ AcceptedWork(receipt[r].base)
     THEN Phase(r, "manual-recovery-required") /\ UNCHANGED tool
     ELSE /\ tool' = [NoCommand EXCEPT !.cmd = "abort", !.r = r,
                        !.pc = IF receipt[r].phase \in StartedPhases
                               THEN "capture" ELSE "restore"]
          /\ UNCHANGED receipt
  /\ installer' = NoTakeover
  /\ UNCHANGED <<discordVars, queueVars, runtimeVars, historyVars, faults>>

\* stop_replacement: the session as it is now, the services, the healthcheck
\* first, and the session.  One that was started in between stays, and ends
\* the abort.
CaptureReplacement ==
  /\ At("abort", "capture")
  /\ tool' = [tool EXCEPT !.pc = "unload", !.captured = repl.up]
  /\ UNCHANGED <<discordVars, queueVars, receipt, installer, runtimeVars,
                 historyVars, faults>>

UnloadReplacement(s) ==
  /\ At("abort", "unload")
  /\ s \in repl.loaded
  /\ s = "gateway" => "healthcheck" \notin repl.loaded
  /\ repl' = [repl EXCEPT !.loaded = @ \ {s}]
  /\ UNCHANGED <<discordVars, queueVars, receipt, tool, installer, legacy, session,
                 historyVars, faults>>

StopReplacementSession ==
  /\ At("abort", "unload")
  /\ repl.loaded = {}
  /\ IF repl.up /\ ~tool.captured
     THEN Raises /\ UNCHANGED repl
     ELSE /\ repl' = [repl EXCEPT !.up = FALSE]
          /\ Goes("restore")
          /\ UNCHANGED installer
  /\ UNCHANGED <<discordVars, queueVars, receipt, legacy, session, historyVars,
                 faults>>

\* restore_gateway_state
Session(r) == IF receipt[r].gateway = "prior" THEN "prior" ELSE "none"

\* Mutant: an abort leaves the rows as the killed prepare left them.
RestoreOwn ==
  /\ tool.pc = "restore"
  /\ LET mine == {m \in Posts : quarantine[m].by = tool.r}
     IN  IF tool.backup
         THEN /\ rows' = [m \in Posts |->
                   IF m \in mine THEN quarantine[m].row ELSE rows[m]]
              /\ quarantine' = [m \in Posts |->
                   IF m \in mine THEN [by |-> NoTakeover, row |-> NoRow]
                                 ELSE quarantine[m]]
              /\ session' = Session(tool.r)
         ELSE UNCHANGED <<rows, quarantine, session>>
  /\ Goes("restart")
  /\ UNCHANGED <<discordVars, recorded, receipt, installer, legacy, repl,
                 historyVars, faults>>

\* restore_quarantine and restore_gateway_state; prepare calls them once it
\* has a backup.
Restore ==
  /\ tool.pc = "restore"
  /\ LET mine == {m \in Posts : quarantine[m].by = tool.r}
     IN  IF tool.cmd = "abort" \/ tool.backup
         THEN /\ rows' = [m \in Posts |->
                   IF m \in mine THEN quarantine[m].row ELSE rows[m]]
              /\ quarantine' = [m \in Posts |->
                   IF m \in mine THEN [by |-> NoTakeover, row |-> NoRow]
                                 ELSE quarantine[m]]
              /\ session' = IF receipt[tool.r].backup THEN Session(tool.r)
                                                      ELSE session
         ELSE UNCHANGED <<rows, quarantine, session>>
  /\ Goes("restart")
  /\ UNCHANGED <<discordVars, recorded, receipt, installer, legacy, repl,
                 historyVars, faults>>

\* A session is told of what is posted from now on.
Listening(runtime) ==
  [runtime EXCEPT !.up = TRUE, !.seen = IF runtime.up THEN @ ELSE posted]

\* restart_legacy: the healthcheck, which starts the session, is loaded last.
RestartLegacy ==
  /\ tool.pc = "restart"
  /\ legacy' = [Listening(legacy) EXCEPT !.loaded = Services]
  /\ Goes("save")
  /\ UNCHANGED <<discordVars, queueVars, receipt, installer, repl, session,
                 historyVars, faults>>

\* Of a receipt that is rolled back only the phase is read again.
RolledBack ==
  /\ tool.pc = "save"
  /\ receipt' = [receipt EXCEPT ![tool.r] = [NoReceipt EXCEPT !.phase = "rolled-back"]]
  /\ Ends
  /\ accepted' = {}
  /\ UNCHANGED <<discordVars, queueVars, installer, runtimeVars, heard, faults>>

RollingBack == tool.pc \in {"restore", "restart", "save"}

\* A call of launchctl, SQLite or Discord fails.  A rollback of prepare that
\* fails leaves the rest to the operator, an abort may be repeated.
Fails ==
  /\ tool # NoCommand
  /\ Fault
  /\ IF RollingBack \/ tool.pc = "acknowledged"
     THEN /\ Ends
          /\ installer' = NoTakeover
          /\ IF tool.cmd = "prepare" /\ RollingBack
             THEN Phase(tool.r, "manual-recovery-required") ELSE UNCHANGED receipt
     ELSE Raises /\ UNCHANGED receipt
  /\ IF tool.pc = "restart"
     THEN \E s \in {{}, {"gateway"}, Services} :
            legacy' = [legacy EXCEPT !.loaded = @ \cup s]
     ELSE UNCHANGED legacy
  /\ UNCHANGED <<discordVars, queueVars, repl, session, historyVars>>

\* The lock goes with the process, and the installer goes too.
Killed ==
  /\ tool # NoCommand
  /\ Fault
  /\ Ends
  /\ installer' = NoTakeover
  /\ UNCHANGED <<discordVars, queueVars, receipt, runtimeVars, historyVars>>

-----------------------------------------------------------------------------
(* The runtimes and Discord *)

\* intake.py, run by a listener's session for the message m: the row, and the
\* reaction; a row that is there already stays.
Enqueued(m) ==
  /\ rows' = [rows EXCEPT ![m] = IF @ = NoRow THEN [NewRow EXCEPT !.acked = TRUE]
                                             ELSE @]
  /\ heard' = IF rows[m] = NoRow THEN heard \cup {m} ELSE heard

\* A listener claims a row, dispatches it, spawns its worker and ends it.  The
\* ledger entry is kept while the row is claimed, when it tells.
Worked(m, ops) ==
  \/ /\ rows[m].state = "received"
     /\ \E op \in ops : rows' = [rows EXCEPT ![m].state = "claimed", ![m].op = op]
  \/ /\ rows[m].state = "claimed"
     /\ rows' = [rows EXCEPT ![m].state = "dispatched", ![m].op = "none"]
  \/ rows[m].state = "dispatched" /\ rows' = [rows EXCEPT ![m].state = "spawned"]
  \/ rows[m].state = "spawned" /\ rows' = [rows EXCEPT ![m].state = "done"]

LegacyStarts ==
  /\ "healthcheck" \in legacy.loaded /\ ~legacy.up
  /\ legacy' = Listening(legacy)
  /\ UNCHANGED <<discordVars, queueVars, receipt, tool, installer, repl, session,
                 historyVars, faults>>

\* The session ends, by itself or by a healthcheck that objects to it.
LegacyStops ==
  /\ legacy.up
  /\ Fault
  /\ legacy' = [legacy EXCEPT !.up = FALSE]
  /\ UNCHANGED <<discordVars, queueVars, receipt, tool, installer, repl, session,
                 historyVars>>

LegacyReceives ==
  /\ legacy.up
  /\ legacy.seen < posted
  /\ legacy' = [legacy EXCEPT !.seen = @ + 1]
  /\ Enqueued(legacy.seen + 1)
  /\ UNCHANGED <<discordVars, quarantine, recorded, receipt, tool, installer,
                 repl, session, accepted, faults>>

\* The intake of a message fails, refuses it, or is never run.
LegacyMisses ==
  /\ legacy.up
  /\ legacy.seen < posted
  /\ Fault
  /\ legacy' = [legacy EXCEPT !.seen = @ + 1]
  /\ UNCHANGED <<discordVars, queueVars, receipt, tool, installer, repl, session,
                 historyVars>>

LegacyWorks(m) ==
  /\ legacy.up
  /\ Worked(m, LegacyOps)
  /\ UNCHANGED <<discordVars, quarantine, recorded, receipt, tool, installer,
                 runtimeVars, historyVars, faults>>

\* install.sh, between begin-replacement and finalize.
InstallerLoads(s) ==
  /\ tool = NoCommand
  /\ installer # NoTakeover
  /\ receipt[installer].phase = "replacement-starting"
  /\ s \notin repl.loaded
  /\ s = "gateway" => "healthcheck" \in repl.loaded
  /\ repl' = [repl EXCEPT !.loaded = @ \cup {s}]
  /\ UNCHANGED <<discordVars, queueVars, receipt, tool, installer, legacy, session,
                 historyVars, faults>>

ReplacementStarts ==
  /\ "healthcheck" \in repl.loaded /\ ~repl.up
  /\ repl' = Listening(repl)
  /\ UNCHANGED <<discordVars, queueVars, receipt, tool, installer, legacy, session,
                 historyVars, faults>>

ReplacementStops ==
  /\ repl.up
  /\ Fault
  /\ repl' = [repl EXCEPT !.up = FALSE]
  /\ UNCHANGED <<discordVars, queueVars, receipt, tool, installer, legacy, session,
                 historyVars>>

\* The gateway, which takes the clicks on approvals, begins a session of its own.
ReplacementConnects ==
  /\ "gateway" \in repl.loaded
  /\ session # "own"
  /\ session' = "own"
  /\ UNCHANGED <<discordVars, queueVars, receipt, tool, installer, legacy, repl,
                 historyVars, faults>>

ReplacementReceives ==
  /\ repl.up
  /\ repl.seen < posted
  /\ repl' = [repl EXCEPT !.seen = @ + 1]
  /\ Enqueued(repl.seen + 1)
  /\ accepted' = IF rows' = rows THEN accepted ELSE accepted \cup {repl.seen + 1}
  /\ UNCHANGED <<discordVars, quarantine, recorded, receipt, tool, installer,
                 legacy, session, faults>>

ReplacementMisses ==
  /\ repl.up
  /\ repl.seen < posted
  /\ Fault
  /\ repl' = [repl EXCEPT !.seen = @ + 1]
  /\ UNCHANGED <<discordVars, queueVars, receipt, tool, installer, legacy, session,
                 historyVars>>

ReplacementWorks(m) ==
  /\ repl.up
  /\ Worked(m, {"known"})
  /\ accepted' = accepted \cup {m}
  /\ UNCHANGED <<discordVars, quarantine, recorded, receipt, tool, installer,
                 runtimeVars, heard, faults>>

Post ==
  /\ posted < N
  /\ posted' = posted + 1
  /\ UNCHANGED <<edited, queueVars, receipt, tool, installer, runtimeVars,
                 historyVars, faults>>

\* An edit before its message is recorded makes no difference.
Edit(m) ==
  /\ recorded[m] = "original" /\ m \notin edited
  /\ edited' = edited \cup {m}
  /\ UNCHANGED <<posted, queueVars, receipt, tool, installer, runtimeVars,
                 historyVars, faults>>

-----------------------------------------------------------------------------
Prepare ==
  \/ Validate \/ StopLegacySession \/ ProveLegacyStopped \/ Backup \/ Authorize
  \/ Quarantine \/ OpenWindow \/ ResetGateway \/ MarkFresh \/ Prepared
  \/ \E s \in Services : StopLabel(s)
Finish ==
  \/ ReopenWindow \/ Reconciled \/ IssueDrain \/ DrainAnswers \/ CheckBacklog
  \/ Commit
RollBack ==
  \/ CaptureReplacement \/ StopReplacementSession \/ Restore \/ RestartLegacy
  \/ RolledBack
  \/ \E s \in Services : UnloadReplacement(s)
Command ==
  \/ \E r \in Receipts : Plan(r) \/ Begin(r) \/ Finalize(r) \/ Abort(r)
  \/ Prepare \/ Finish \/ RollBack \/ Acknowledge
  \/ \E m \in Posts : Reconcile(m)
Runtimes ==
  \/ LegacyStarts \/ LegacyStops \/ LegacyReceives \/ LegacyMisses
  \/ ReplacementStarts \/ ReplacementStops \/ ReplacementConnects
  \/ ReplacementReceives \/ ReplacementMisses
  \/ \E m \in Posts : LegacyWorks(m) \/ ReplacementWorks(m)
  \/ \E s \in Services : InstallerLoads(s)
TakeoverNext ==
  \/ Command \/ Runtimes \/ Fails \/ Killed
  \/ Post \/ \E m \in Editable : Edit(m)

TakeoverSpec == TakeoverInit /\ [][TakeoverNext]_takeoverVars

-----------------------------------------------------------------------------
TakeoverTypeOK ==
  /\ posted \in 0..N /\ edited \subseteq Posts
  /\ rows \in [Posts -> Row]
  /\ quarantine \in [Posts -> [by : Receipts \cup {NoTakeover}, row : Row]]
  /\ recorded \in [Posts -> {"none", "original", "edited"}]
  /\ DOMAIN receipt = Receipts
  /\ \A r \in Receipts :
       /\ DOMAIN receipt[r] = DOMAIN NoReceipt
       /\ receipt[r].phase \in Phases
       /\ receipt[r].lower \in 0..N /\ receipt[r].upper \in 0..N
       /\ receipt[r].base.max \subseteq Posts
  /\ DOMAIN tool = DOMAIN NoCommand
  /\ tool.r \in Receipts \cup {NoTakeover}
  /\ tool.todo \subseteq Posts /\ tool.at \in 0..N
  /\ installer \in Receipts \cup {NoTakeover}
  /\ legacy \in [loaded : SUBSET Services, up : BOOLEAN, seen : 0..N]
  /\ repl \in [loaded : SUBSET Services, up : BOOLEAN, seen : 0..N]
  /\ session \in {"none", "prior", "own"}
  /\ accepted \subseteq Posts /\ heard \subseteq Posts
  /\ faults \in 0..MaxFaults

\* The two runtimes never run together, whatever was killed or failed: of the
\* consumers of one queue, one is stopped before the other is started.
OneRuntime == ~(LegacyRuns /\ ReplacementRuns)

\* What was posted up to the final boundary is in the queue when a takeover
\* commits, in a quiet channel too, and has been handed to a worker, ended,
\* or set aside: nothing of the gap is lost or left waiting.  A message that
\* both listeners missed is below the gap only if one of them enqueued a later
\* one of the same channel: the lower bound is the channel's newest row.
WindowIsServed ==
  \A r \in Receipts :
    receipt[r].phase = "committed" =>
      \A m \in 1..receipt[r].upper :
        \/ rows[m].state \in Ended \cup {"spawned"}
        \/ /\ rows[m].state = "absent" /\ m <= receipt[r].lower
           /\ \E n \in heard : n > m /\ Channel[n] = Channel[m]

\* A row is set aside only if the operator read about it as it was: the queue
\* may go on changing until the legacy runtime is stopped.
QuarantineIsAcknowledged ==
  \A m \in Posts :
    quarantine[m].by # NoTakeover =>
      LET plan == receipt[quarantine[m].by].plan
      IN  /\ m \in DOMAIN plan
          /\ plan[m] = quarantine[m].row
          /\ Ambiguous(plan[m])
          /\ rows[m].state = "errored"

\* An abort that goes ahead saw a queue on which the replacement had done
\* nothing since its baseline: no new row, and no step of an old one.
AbortSeesWork ==
  [][tool.cmd # "abort" /\ tool'.cmd = "abort"
       /\ receipt[tool'.r].phase \in StartedPhases => accepted = {}]_takeoverVars

\* A receipt that says rolled-back tells the truth: no row is left set aside,
\* the replacement is gone with its Gateway session, the legacy services are
\* loaded, of which the healthcheck keeps the listener's session up.
RollbackIsExact ==
  [][\A r \in Receipts :
       receipt[r].phase # "rolled-back" /\ receipt'[r].phase = "rolled-back" =>
         /\ \A m \in Posts : quarantine[m].by # r
         /\ session # "own"
         /\ receipt[r].backup => session = receipt[r].gateway
         /\ legacy.loaded = Services /\ ~ReplacementRuns]_takeoverVars

=============================================================================
