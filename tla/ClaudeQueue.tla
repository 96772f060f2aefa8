----------------------------- MODULE ClaudeQueue -----------------------------
(***************************************************************************)
(* The durable inbound queue of the Claude runtime and the actors that     *)
(* drive it.                                                               *)
(*                                                                         *)
(*   conversations/queue/mq.py       one SQLite row per Discord message    *)
(*   conversations/queue/intake.py   records a message and reacts to it    *)
(*   conversations/queue/drainer.py  one operating system process per      *)
(*                                   drainer command                       *)
(*   agent/cx-chat.md                the protocol the single listener      *)
(*                                   session follows between commands      *)
(*                                                                         *)
(* One action is one SQLite transaction (or one autocommit UPDATE), or one *)
(* decision of the listener.  A command that reads and later writes        *)
(* (dispatch-claimed, replay) is a process with several steps: when the    *)
(* listener session is lost in between, the process may live on as an      *)
(* orphan beside the next session's commands.                              *)
(*                                                                         *)
(* Abstracted: message text, users, titles, session identifiers.  What     *)
(* dispatch.py does between its start and its exit is module               *)
(* DispatchLedger; what a worker does to deliver its answer is module      *)
(* ResponseDelivery.  Here they are one step each.                         *)
(***************************************************************************)
EXTENDS Naturals, FiniteSets

CONSTANTS
  Messages,     \* Discord messages of the owner
  TopLevel,     \* the ones posted in the listen channel
  Threads,      \* Discord threads
  ThreadOf,     \* the thread a message belongs to, or will open
  Listen,       \* the listen channel: CONFIG.discord.chat_channel_id
  Procs,        \* drainer command processes that can be alive at once
  None,         \* "no message" and "no process"
  MaxCrashes    \* bound: how often the listener session is lost

ASSUME ConstantsAssumption ==
  /\ TopLevel \subseteq Messages
  /\ ThreadOf \in [Messages -> Threads]
  /\ Listen \notin Threads
  /\ None \notin Messages \cup Procs
  /\ MaxCrashes \in Nat

VARIABLES
  state,        \* messages.state of every row, "absent" before intake
  rowid,        \* the order ORDER BY received_at, rowid gives; 0 if absent
  nextRow,      \* the next value of rowid
  aged,         \* claimed rows whose claim is older than STALE_CLAIM_SECONDS
  opened,       \* top-level messages whose Discord thread exists
  bound,        \* messages whose dispatch operation is "completed"
  listener,     \* the one listener session
  proc,         \* the drainer command processes
  workers,      \* how many workers were launched for a message (history)
  rewound,      \* rows that replay reset although they had left "claimed"
                \* (history)
  crashes       \* listener sessions lost so far

vars == <<state, rowid, nextRow, aged, opened, bound, listener, proc,
          workers, rewound, crashes>>

rowVars == <<state, rowid, nextRow, aged>>
ledgerVars == <<opened, bound>>

-----------------------------------------------------------------------------
(* States and types *)

InFlight == {"claimed", "dispatched", "spawned"}
Terminal == {"done", "errored"}
RowStates == {"absent", "received"} \cup InFlight \cup Terminal

ListenerPc == {"down", "starting", "replaying", "ready", "claimed",
               "dispatching", "bound", "authorized"}
ProcOps == {"idle", "rearm", "check", "running", "failed", "succeeded"}

Idle == [op |-> "idle", msg |-> None, ids |-> {}]
Down == [pc |-> "down", msg |-> None, cmd |-> None]
Ready == [pc |-> "ready", msg |-> None, cmd |-> None]

ChatOf(m) == IF m \in TopLevel THEN Listen ELSE ThreadOf[m]

\* A reply's thread is registered once a top-level message opened it.
Owned(m) ==
  \/ m \in TopLevel
  \/ \E t \in TopLevel \cap bound : ThreadOf[t] = ThreadOf[m]

\* Where a new command process is kept: processes have no identity of their own.
Free == CHOOSE p \in Procs : proc[p].op = "idle"

Busy(chat) == \E b \in Messages : ChatOf(b) = chat /\ state[b] \in InFlight

\* Mutant: the NOT EXISTS clause on the chat is missing.
ClaimableIgnoringChat(m) == state[m] = "received"

Claimable(m) == state[m] = "received" /\ ~Busy(ChatOf(m))

Init ==
  /\ state = [m \in Messages |-> "absent"]
  /\ rowid = [m \in Messages |-> 0]
  /\ nextRow = 1
  /\ aged = {}
  /\ opened = {}
  /\ bound = {}
  /\ listener = Down
  /\ proc = [p \in Procs |-> Idle]
  /\ workers = [m \in Messages |-> 0]
  /\ rewound = {}
  /\ crashes = 0

-----------------------------------------------------------------------------
(* Intake *)

\* handle_inbound records the message before anything else.  A repeated
\* delivery finds the row (INSERT OR IGNORE) and changes nothing.  The eye
\* reaction and acked_at, which only the monitor reads, are left out.
\* A reply is only posted in a thread that exists.
Intake(m) ==
  /\ listener.pc # "down"
  /\ m \in TopLevel \/ \E t \in opened : ThreadOf[t] = ThreadOf[m]
  /\ state[m] = "absent"
  /\ state' = [state EXCEPT ![m] = "received"]
  /\ rowid' = [rowid EXCEPT ![m] = nextRow]
  /\ nextRow' = nextRow + 1
  /\ UNCHANGED <<aged, ledgerVars, listener, proc, workers, rewound, crashes>>

-----------------------------------------------------------------------------
(* The listener's drain loop *)

\* Mutant: ORDER BY ... DESC.
DrainNewest(m) ==
  /\ listener.pc = "ready"
  /\ Claimable(m)
  /\ \A n \in Messages : Claimable(n) => rowid[n] <= rowid[m]
  /\ state' = [state EXCEPT ![m] = "claimed"]
  /\ aged' = aged \ {m}
  /\ listener' = [listener EXCEPT !.pc = "claimed", !.msg = m]
  /\ UNCHANGED <<rowid, nextRow, ledgerVars, proc, workers, rewound, crashes>>

\* drain-one: claim_next hands back the oldest claimable row.
DrainOne(m) ==
  /\ listener.pc = "ready"
  /\ Claimable(m)
  /\ \A n \in Messages : Claimable(n) => rowid[m] <= rowid[n]
  /\ state' = [state EXCEPT ![m] = "claimed"]
  /\ aged' = aged \ {m}
  /\ listener' = [listener EXCEPT !.pc = "claimed", !.msg = m]
  /\ UNCHANGED <<rowid, nextRow, ledgerVars, proc, workers, rewound, crashes>>

\* mark_errored's UPDATE.  The read that precedes it only matters while a
\* response POST is unresolved, which module ResponseDelivery models.
DeadLetter(m) ==
  /\ state' = [state EXCEPT ![m] = IF @ \in Terminal THEN @ ELSE "errored"]
  /\ aged' = aged \ {m}

\* kind = "unowned": mark-errored and stop.
RejectUnowned ==
  /\ listener.pc = "claimed"
  /\ ~Owned(listener.msg)
  /\ DeadLetter(listener.msg)
  /\ listener' = Ready
  /\ UNCHANGED <<rowid, nextRow, ledgerVars, proc, workers, rewound,
                 crashes>>

\* dispatch-claimed is launched for the claimed row.
StartDispatch(p) ==
  /\ listener.pc = "claimed"
  /\ Owned(listener.msg)
  /\ proc[p].op = "idle" /\ p = Free
  /\ proc' = [proc EXCEPT ![p] = [op |-> "check", msg |-> listener.msg, ids |-> {}]]
  /\ listener' = [listener EXCEPT !.pc = "dispatching", !.cmd = p]
  /\ UNCHANGED <<rowVars, ledgerVars, workers, rewound, crashes>>

\* mark-spawned, idempotent once the row is spawned.
MarkSpawned ==
  /\ listener.pc = "bound"
  /\ LET m == listener.msg IN
       IF state[m] \in {"dispatched", "spawned"}
         THEN /\ state' = [state EXCEPT ![m] = "spawned"]
              /\ listener' = [listener EXCEPT !.pc = "authorized"]
         ELSE /\ listener' = Ready
              /\ UNCHANGED state
  /\ UNCHANGED <<rowid, nextRow, aged, ledgerVars, proc, workers, rewound,
                 crashes>>

\* The Agent call that launches one background worker.
SpawnWorker ==
  /\ listener.pc = "authorized"
  /\ workers' = [workers EXCEPT ![listener.msg] = @ + 1]
  /\ listener' = Ready
  /\ UNCHANGED <<rowVars, ledgerVars, proc, rewound, crashes>>

\* The Agent call failed and no worker was created.
SpawnFails ==
  /\ listener.pc = "authorized"
  /\ DeadLetter(listener.msg)
  /\ listener' = Ready
  /\ UNCHANGED <<rowid, nextRow, ledgerVars, proc, workers, rewound,
                 crashes>>

-----------------------------------------------------------------------------
(* Command processes *)

\* The process ends; the listener learns of it only if it still waits for it.
Exit(p, next) ==
  /\ proc' = [proc EXCEPT ![p] = Idle]
  /\ listener' = IF listener.cmd = p THEN next ELSE listener

\* dispatch.py refuses a row that is not claimed when it starts.
CheckClaim(p) ==
  /\ proc[p].op = "check"
  /\ proc' = [proc EXCEPT ![p].op =
                IF state[proc[p].msg] = "claimed" THEN "running" ELSE "failed"]
  /\ UNCHANGED <<rowVars, ledgerVars, listener, workers, rewound, crashes>>

\* create_thread.py opens the thread of a top-level message.
DispatchOpens(p) ==
  /\ proc[p].op = "running"
  /\ proc[p].msg \in TopLevel \ opened
  /\ opened' = opened \cup {proc[p].msg}
  /\ UNCHANGED <<rowVars, bound, listener, proc, workers, rewound, crashes>>

\* dispatch.py exits with 0: thread, conversation and input turn exist.
DispatchSucceeds(p) ==
  /\ proc[p].op = "running"
  /\ proc[p].msg \in TopLevel => proc[p].msg \in opened
  /\ bound' = bound \cup {proc[p].msg}
  /\ proc' = [proc EXCEPT ![p].op = "succeeded"]
  /\ UNCHANGED <<rowVars, opened, listener, workers, rewound, crashes>>

\* dispatch.py exits with an error.
DispatchFails(p) ==
  /\ proc[p].op = "running"
  /\ proc' = [proc EXCEPT ![p].op = "failed"]
  /\ UNCHANGED <<rowVars, ledgerVars, listener, workers, rewound, crashes>>

\* subprocess.TimeoutExpired: dispatch.py is killed, perhaps after its last
\* write, and the row stays claimed.
DispatchTimesOut(p) ==
  /\ proc[p].op = "running"
  /\ bound' \in {bound, IF proc[p].msg \in TopLevel \ opened
                        THEN bound ELSE bound \cup {proc[p].msg}}
  /\ Exit(p, Ready)
  /\ UNCHANGED <<rowVars, opened, workers, rewound, crashes>>

\* Mutant: the UPDATE's WHERE names only the message.
ReleaseAnyRow(p) ==
  /\ proc[p].op = "failed"
  /\ state' = [state EXCEPT ![proc[p].msg] = "received"]
  /\ aged' = aged \ {proc[p].msg}
  /\ Exit(p, Ready)
  /\ UNCHANGED <<rowid, nextRow, ledgerVars, workers, rewound, crashes>>

\* release_claim after a failed dispatch, guarded by state = 'claimed'.
ReleaseClaim(p) ==
  /\ proc[p].op = "failed"
  /\ LET m == proc[p].msg IN
       IF state[m] = "claimed"
         THEN /\ state' = [state EXCEPT ![m] = "received"]
              /\ aged' = aged \ {m}
         ELSE UNCHANGED <<state, aged>>
  /\ Exit(p, Ready)
  /\ UNCHANGED <<rowid, nextRow, ledgerVars, workers, rewound, crashes>>

\* mark_dispatched: binds a claimed row, accepts a replay of the same
\* binding, refuses every other state.
MarkDispatched(p) ==
  /\ proc[p].op = "succeeded"
  /\ LET m == proc[p].msg IN
       IF state[m] \in {"claimed", "dispatched"}
         THEN /\ state' = [state EXCEPT ![m] = "dispatched"]
              /\ aged' = aged \ {m}
              /\ Exit(p, [pc |-> "bound", msg |-> m, cmd |-> None])
         ELSE /\ Exit(p, Ready)
              /\ UNCHANGED <<state, aged>>
  /\ UNCHANGED <<rowid, nextRow, ledgerVars, workers, rewound, crashes>>

\* replay: recover_stale's SELECT of the claims older than the cutoff.
StartReplay(p) ==
  /\ listener.pc = "starting"
  /\ proc[p].op = "idle" /\ p = Free
  /\ proc' = [proc EXCEPT ![p] =
                [op |-> "rearm", msg |-> None,
                 ids |-> {m \in Messages : state[m] = "claimed" /\ m \in aged}]]
  /\ listener' = [listener EXCEPT !.pc = "replaying", !.cmd = p]
  /\ UNCHANGED <<rowVars, ledgerVars, workers, rewound, crashes>>

\* recover_stale's UPDATE of one selected row.  Its WHERE names only the
\* message, whatever state the row is in by now.
RearmOne(p, m) ==
  /\ proc[p].op = "rearm"
  /\ m \in proc[p].ids
  /\ state' = [state EXCEPT ![m] = "received"]
  /\ aged' = aged \ {m}
  /\ rewound' = IF state[m] \in {"claimed", "received"} THEN rewound
                ELSE rewound \cup {m}
  /\ proc' = [proc EXCEPT ![p].ids = @ \ {m}]
  /\ UNCHANGED <<rowid, nextRow, ledgerVars, listener, workers, crashes>>

\* replay prints what is pending; the listener resumes its drain loop.
EndReplay(p) ==
  /\ proc[p].op = "rearm"
  /\ proc[p].ids = {}
  /\ Exit(p, Ready)
  /\ UNCHANGED <<rowVars, ledgerVars, workers, rewound, crashes>>

-----------------------------------------------------------------------------
(* Environment: time, crashes, workers, the operator *)

\* A claim becomes older than STALE_CLAIM_SECONDS.
Age(m) ==
  /\ state[m] = "claimed"
  /\ m \notin aged
  /\ aged' = aged \cup {m}
  /\ UNCHANGED <<state, rowid, nextRow, ledgerVars, listener, proc, workers,
                 rewound, crashes>>

\* The listener session is lost (tmux session gone, compaction, reboot).
Crash ==
  /\ listener.pc # "down"
  /\ crashes < MaxCrashes
  /\ listener' = Down
  /\ crashes' = crashes + 1
  /\ UNCHANGED <<rowVars, ledgerVars, proc, workers, rewound>>

\* A command whose listener is gone may also be killed.
KillOrphan(p) ==
  /\ proc[p].op # "idle"
  /\ listener.cmd # p
  /\ proc' = [proc EXCEPT ![p] = Idle]
  /\ UNCHANGED <<rowVars, ledgerVars, listener, workers, rewound, crashes>>

\* The healthcheck starts a session; its first command is replay.
Restart ==
  /\ listener.pc = "down"
  /\ listener' = [Down EXCEPT !.pc = "starting"]
  /\ UNCHANGED <<rowVars, ledgerVars, proc, workers, rewound, crashes>>

\* complete-response ends with finish_response_completion.
WorkerCompletes(m) ==
  /\ workers[m] > 0
  /\ state[m] = "spawned"
  /\ state' = [state EXCEPT ![m] = "done"]
  /\ aged' = aged \ {m}
  /\ UNCHANGED <<rowid, nextRow, ledgerVars, listener, proc, workers,
                 rewound, crashes>>

\* The operator dead-letters a row in flight.
OperatorErrors(m) ==
  /\ state[m] \in InFlight
  /\ DeadLetter(m)
  /\ UNCHANGED <<rowid, nextRow, ledgerVars, listener, proc, workers,
                 rewound, crashes>>

-----------------------------------------------------------------------------
(* Specification *)

ListenerStep ==
  \/ \E m \in Messages : DrainOne(m)
  \/ RejectUnowned
  \/ \E p \in Procs : StartDispatch(p)
  \/ MarkSpawned
  \/ SpawnWorker
  \/ SpawnFails
  \/ \E p \in Procs : StartReplay(p)
  \/ Restart

ProcStep(p) ==
  \/ CheckClaim(p)
  \/ DispatchOpens(p)
  \/ DispatchSucceeds(p)
  \/ DispatchFails(p)
  \/ DispatchTimesOut(p)
  \/ ReleaseClaim(p)
  \/ MarkDispatched(p)
  \/ \E m \in Messages : RearmOne(p, m)
  \/ EndReplay(p)

Environment ==
  \/ \E m \in Messages : Intake(m)
  \/ \E m \in Messages : Age(m)
  \/ Crash
  \/ \E p \in Procs : KillOrphan(p)
  \/ \E m \in Messages : WorkerCompletes(m)
  \/ \E m \in Messages : OperatorErrors(m)

Next ==
  \/ ListenerStep
  \/ \E p \in Procs : ProcStep(p)
  \/ Environment

Spec == Init /\ [][Next]_vars

\* The listener goes on, some command goes on while one runs (an orphan takes
\* only finitely many steps), and a lost session is restarted by the
\* healthcheck.  No dispatch is promised to succeed, however often it is
\* retried, and nothing is promised for workers, the operator or Discord.
Fairness ==
  /\ WF_vars(ListenerStep)
  /\ WF_vars(\E p \in Procs : ProcStep(p))

FairSpec == Spec /\ Fairness

-----------------------------------------------------------------------------
(* Properties *)

TypeOK ==
  /\ state \in [Messages -> RowStates]
  /\ rowid \in [Messages -> Nat]
  /\ nextRow \in Nat \ {0}
  /\ aged \subseteq Messages
  /\ opened \subseteq TopLevel
  /\ bound \subseteq Messages
  /\ listener \in [pc : ListenerPc, msg : Messages \cup {None},
                   cmd : Procs \cup {None}]
  /\ proc \in [Procs -> [op : ProcOps, msg : Messages \cup {None},
                         ids : SUBSET Messages]]
  /\ workers \in [Messages -> Nat]
  /\ rewound \subseteq Messages
  /\ crashes \in Nat

\* claim_next: a chat never has two rows in flight at once, whatever stale
\* release, replay or orphaned dispatch runs beside the drain loop.
OneInFlightPerChat ==
  \A m, n \in Messages :
    /\ ChatOf(m) = ChatOf(n)
    /\ state[m] \in InFlight
    /\ state[n] \in InFlight
    => m = n

\* Per-chat order: a row leaves "received" for good only after every older
\* row of its chat ended, also when claims are released and re-armed.
PerChatOrder ==
  \A m, n \in Messages :
    /\ ChatOf(m) = ChatOf(n)
    /\ state[m] # "absent"
    /\ rowid[m] < rowid[n]
    /\ state[n] # "received"
    /\ m \notin rewound
    => state[m] \in Terminal

\* A message gets at most one worker: across listener crashes, orphaned
\* dispatches, re-armed claims and the idempotent mark-spawned.  The one
\* exception is a row that replay reset after it had left "claimed".
AtMostOneWorker == \A m \in Messages \ rewound : workers[m] <= 1

\* The authorization is durable before the launch: a launched worker's row is
\* never claimable again, so a new session cannot launch a second one.
LaunchIsDurable ==
  \A m \in Messages \ rewound :
    workers[m] > 0 => state[m] \in {"spawned"} \cup Terminal

\* A row is past "claimed" only when its thread, conversation and input turn
\* are durably bound, although the row and the operation ledger are two
\* databases written by two processes.
BoundBeforeDispatched ==
  \A m \in Messages : state[m] \in {"dispatched", "spawned", "done"} => m \in bound

\* A terminal row stays as it is: no release, replay, operator command or
\* repeated delivery reopens it, unless replay reset it.
TerminalIsFinal ==
  [][\A m \in Messages :
       state[m] \in Terminal /\ m \notin rewound' => state'[m] = state[m]]_vars

Received(chat) == \E m \in Messages : ChatOf(m) = chat /\ state[m] = "received"

\* The dispatch of o failed once more, while every row the chat waits with is
\* younger than o and of another chat: claim_next hands o out first again.
Starves(o, chat) ==
  /\ ChatOf(o) # chat
  /\ \E p \in Procs : proc[p].op = "failed" /\ proc[p].msg = o
  /\ \A m \in Messages :
       ChatOf(m) = chat /\ state[m] = "received" => rowid[o] < rowid[m]

\* A chat with received rows and nothing in flight gets a row claimed at last,
\* whatever crashes, time-outs and orphans do, unless one older row of another
\* chat fails for ever: rows are handed out oldest first, a failed dispatch
\* releases its row and attempts are not capped, so such a row starves every
\* younger chat.  Nothing else does: not a younger row that fails for ever, nor
\* a failing row of the same chat, nor a dispatch that timed out.
ReadyRowIsClaimed ==
  \A chat \in {ChatOf(m) : m \in Messages} :
    \/ Received(chat) ~> ~Received(chat) \/ Busy(chat)
    \/ \E o \in Messages : []<>Starves(o, chat)

=============================================================================
