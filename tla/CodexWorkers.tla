---------------------------- MODULE CodexWorkers ----------------------------
(***************************************************************************)
(* The Codex bridge process (codex_discord_bridge/main.py): admission of   *)
(* owner events, the startup reconciliation, the pool of worker slots, the *)
(* delivery of each job's answer or error notice, the retention of old     *)
(* rows, and a process that may stop between any two steps and come back   *)
(* under another policy fingerprint.                                       *)
(*                                                                         *)
(* The slots are asyncio tasks of one process; one action is one JobStore  *)
(* call together with what follows it up to the next await.  A runtime     *)
(* flock keeps a second process out, so there is one process at a time.    *)
(*                                                                         *)
(* Abstracted: the App Server protocol (a turn ends, fails, or is cut by a *)
(* lost lease), the Codex session of a thread, and the chunks of a message *)
(* (a manifest is prepared, sent or ambiguous as a whole).  How an event   *)
(* reaches admission is module CodexIngress.  An event that a rate limit   *)
(* refuses leaves no trace in this state and is not an action.             *)
(***************************************************************************)
EXTENDS JobStore

CONSTANTS
  Slots,        \* worker slots: config.max_concurrent_workers
  Startup,      \* the startup reconciliation, an actor like the slots
  MaxStops,     \* bound: how often the process stops
  MaxAges       \* bound: how often a whole retention period passes

ASSUME WorkersAssumption ==
  /\ Startup \notin Slots
  /\ None \notin Slots
  /\ MaxStops \in Nat
  /\ MaxAges \in Nat

VARIABLES
  jobs,       \* the jobs table
  managed,    \* threads with a "managed" mapping of the current policy
  manifest,   \* delivery_manifests: one for the answer, one for the notice
  shown,      \* the messages that are complete in Discord
  seen,       \* events the gateway's cursor has passed
  proc,       \* the bridge process
  todo,       \* what the startup reconciliation still has to look at
  actor,      \* the slots and the startup reconciliation
  turns,      \* Codex turns started for an event (history)
  crossed,    \* events whose policy was replaced while they had a row
              \* (history)
  stops,
  ages

vars == <<jobs, managed, manifest, shown, seen, proc, todo, actor, turns,
          crossed, stops, ages>>
outbox == <<manifest, shown>>
service == <<proc, todo>>
history == <<turns, crossed>>
bounds == <<stops, ages>>

Kinds == {"answer", "notice"}
Keys == Events \X Kinds
Actors == Slots \cup {Startup}

NoManifest == [st |-> "none", policy |-> None, old |-> FALSE]
ManifestStates == {"none", "prepared", "ambiguous", "sent"}

\* A slot works on its job up to the finish that completes it.
WorkingPc == {"claimed", "turn", "answered", "sending", "sent"}
ActorPc == {"idle", "failed", "recover", "recovered", "notify", "noticing"}
             \cup WorkingPc
Idle == [pc |-> "idle", event |-> None, gen |-> 0]
ProcPc == {"down", "fencing", "delivering", "settling", "up"}

Up == proc.pc = "up"
OwnerOf(a) == <<a, proc.run>>
At(a, pc) == actor[a].pc = pc
Goes(a, pc) == actor' = [actor EXCEPT ![a].pc = pc]
Rests(a) == actor' = [actor EXCEPT ![a] = Idle]

Init ==
  /\ jobs = [e \in Events |-> NoRow]
  /\ managed = {}
  /\ manifest = [k \in Keys |-> NoManifest]
  /\ shown = {}
  /\ seen = {}
  /\ proc = [pc |-> "down", policy |-> None, run |-> 0]
  /\ todo = {}
  /\ actor = [a \in Actors |-> Idle]
  /\ turns = [e \in Events |-> 0]
  /\ crossed = {}
  /\ stops = 0
  /\ ages = 0

-----------------------------------------------------------------------------
(* Delivery: send_result and reconcile_delivery *)

\* delivery_manifest returns only a manifest of the current policy.
HasManifest(k) == manifest[k].st # "none" /\ manifest[k].policy = proc.policy

\* prepare_delivery_manifest: inserts once.  A second call must repeat the
\* first one; a manifest of another policy refuses it.
MayPrepare(k) == manifest[k].st = "none" \/ manifest[k].policy = proc.policy
Prepared(k) ==
  IF manifest[k].st # "none" THEN manifest
  ELSE [manifest EXCEPT ![k] = [st |-> "prepared", policy |-> proc.policy,
                                old |-> FALSE]]

\* What reconcile_delivery can come to, from a manifest in state st: its new
\* state, whether it returns, and whether the message is complete in Discord
\* when it was not before.  A POST whose answer is lost leaves the message in
\* Discord and the manifest prepared; a read back that differs, or an aged
\* attempt that cannot be proved, quarantines it.
Outcomes(st) ==
  {o \in [st : ManifestStates, ok : BOOLEAN, shows : BOOLEAN] :
     \/ st = "prepared" /\ o.st = "sent" /\ o.ok /\ o.shows
     \/ st = "prepared" /\ o.st \in {"prepared", "ambiguous"} /\ ~o.ok
     \/ /\ st = "sent"
        /\ o.st \in {"sent", "ambiguous"}
        /\ o.ok => o.st = "sent"
        /\ ~o.shows
     \/ st \notin {"prepared", "sent"} /\ o.st = st /\ ~o.ok /\ ~o.shows}

Delivers(k, o) ==
  /\ manifest' = [manifest EXCEPT
                    ![k].st = o.st,
                    ![k].old = @ /\ ~o.ok]   \* confirm_manifest touches it
  /\ shown' = IF o.shows THEN shown \cup {k} ELSE shown

-----------------------------------------------------------------------------
(* Starting and stopping the process *)

\* The process takes the flock and cancels or quarantines what an earlier
\* policy left.  Old mappings of other policies go with it.
Start(p) ==
  /\ proc.pc = "down"
  /\ jobs' = Quarantined(jobs, p)
  /\ managed' = IF p = proc.policy THEN managed ELSE {}
  /\ proc' = [pc |-> "fencing", policy |-> p, run |-> proc.run + 1]
  /\ crossed' = crossed \cup {e \in Present(jobs) : jobs[e].policy # p}
  /\ UNCHANGED <<outbox, seen, todo, actor, turns, bounds>>

\* reconcile_startup_state, while there are rows to reclaim.
Fence(e) ==
  /\ proc.pc = "fencing"
  /\ e \in Abandoned(jobs, OwnerOf(Startup), proc.policy)
  /\ jobs' = Reclaimed(jobs, e, OwnerOf(Startup))
  /\ UNCHANGED <<managed, outbox, seen, service, actor, history, bounds>>

\* incomplete_manifest_ids
Incomplete == {k \in Keys : manifest[k].st = "prepared"
                            /\ manifest[k].policy = proc.policy}

Fenced ==
  /\ proc.pc = "fencing"
  /\ Abandoned(jobs, OwnerOf(Startup), proc.policy) = {}
  /\ proc' = [proc EXCEPT !.pc = "delivering"]
  /\ todo' = Incomplete
  /\ UNCHANGED <<jobs, managed, outbox, seen, actor, history, bounds>>

DeliverPrepared(k) ==
  /\ proc.pc = "delivering"
  /\ k \in todo
  /\ \E o \in Outcomes(manifest[k].st) : Delivers(k, o)
  /\ todo' = todo \ {k}
  /\ UNCHANGED <<jobs, managed, seen, proc, actor, history, bounds>>

ListUncertain ==
  /\ proc.pc = "delivering"
  /\ todo = {}
  /\ proc' = [proc EXCEPT !.pc = "settling"]
  /\ todo' = InState(jobs, "uncertain", proc.policy)
  /\ UNCHANGED <<jobs, managed, outbox, seen, actor, history, bounds>>

\* An uncertain job with a manifest is delivered, one without gets a notice.
Settle(e) ==
  /\ proc.pc = "settling"
  /\ At(Startup, "idle")
  /\ e \in todo
  /\ todo' = todo \ {e}
  /\ actor' = [actor EXCEPT
                 ![Startup] = [pc |-> IF HasManifest(<<e, "answer">>)
                                      THEN "recover" ELSE "notify",
                               event |-> e, gen |-> jobs[e].gen]]
  /\ UNCHANGED <<jobs, managed, outbox, seen, proc, history, bounds>>

\* Only now are the gateway task and the worker slots created.
Open ==
  /\ proc.pc = "settling"
  /\ At(Startup, "idle")
  /\ todo = {}
  /\ proc' = [proc EXCEPT !.pc = "up"]
  /\ UNCHANGED <<jobs, managed, outbox, seen, todo, actor, history, bounds>>

\* A crash, a signal, or any service task that ends: every task is cancelled
\* and the job of a cancelled worker stays "running".
Stop ==
  /\ stops < MaxStops
  /\ proc.pc # "down"
  /\ proc' = [proc EXCEPT !.pc = "down"]
  /\ todo' = {}
  /\ actor' = [a \in Actors |-> Idle]
  /\ stops' = stops + 1
  /\ UNCHANGED <<jobs, managed, outbox, seen, history, ages>>

-----------------------------------------------------------------------------
(* Admission and retention *)

\* What enqueue_limited's pruning takes with the rows: their manifests, the
\* mappings of their threads, and every old manifest that has no row of its
\* own.  An error notice's key never names a row.
PruneRouting ==
  /\ managed' = managed \ PrunedThreads(jobs)
  /\ manifest' = [k \in Keys |->
                    IF \/ k[2] = "answer" /\ Prunable(jobs, k[1])
                       \/ k[2] = "notice" /\ manifest[k].old
                    THEN NoManifest ELSE manifest[k]]

\* Every admission is an event of its own, and later than the ones before it.
Now == Cardinality(seen) + 1

\* A message in the configured channel is reserved with ready=0.
AdmitRoot(e) ==
  /\ Up
  /\ e \in Roots \ seen
  /\ Admissible(jobs, proc.policy, MaxPending)
  /\ jobs' = Enqueued(jobs, e, FALSE, proc.policy, Now)
  /\ seen' = seen \cup {e}
  /\ PruneRouting
  /\ UNCHANGED <<shown, service, actor, history, bounds>>

\* Its response thread exists: the mapping is saved and the row released.
RouteRoot(e) ==
  /\ Up
  /\ e \in UnreadyRoots(jobs, proc.policy)
  /\ MakesReady(jobs, e, proc.policy)
  /\ jobs' = MadeReady(jobs, e)
  /\ managed' = managed \cup {ThreadOf[e]}
  /\ UNCHANGED <<outbox, seen, service, actor, history, bounds>>

\* The message is gone before its thread was opened: cancel_unready_root.
CancelRoot(e) ==
  /\ Up
  /\ e \in UnreadyRoots(jobs, proc.policy)
  /\ jobs' = Moved(jobs, e, "cancelled")
  /\ managed' = managed \ {ThreadOf[e]}
  /\ UNCHANGED <<outbox, seen, service, actor, history, bounds>>

\* A message in a thread the bridge manages, whose root row is of this policy.
AdmitReply(e) ==
  /\ Up
  /\ e \in (Events \ Roots) \ seen
  /\ ThreadOf[e] \in managed
  /\ \E r \in Roots : /\ jobs[r].thread = ThreadOf[e]
                      /\ jobs[r].policy = proc.policy
  /\ Admissible(jobs, proc.policy, MaxPending)
  /\ jobs' = Enqueued(jobs, e, TRUE, proc.policy, Now)
  /\ seen' = seen \cup {e}
  /\ PruneRouting
  /\ UNCHANGED <<shown, service, actor, history, bounds>>

\* retention_days pass in which the bridge had nothing to do.
Age ==
  /\ ages < MaxAges
  /\ \A a \in Actors : At(a, "idle")
  /\ proc.pc \in {"down", "up"}
  /\ jobs' = [e \in Events |-> IF jobs[e].state = "absent" THEN jobs[e]
                               ELSE [jobs[e] EXCEPT !.old = TRUE]]
  /\ manifest' = [k \in Keys |-> IF manifest[k].st = "none" THEN manifest[k]
                                 ELSE [manifest[k] EXCEPT !.old = TRUE]]
  /\ ages' = ages + 1
  /\ UNCHANGED <<managed, shown, seen, service, actor, history, stops>>

-----------------------------------------------------------------------------
(* A worker slot *)

Claim(s, e) ==
  /\ Up
  /\ At(s, "idle")
  /\ NextClaimable(jobs, e, proc.policy)
  /\ jobs' = Claimed(jobs, e, OwnerOf(s))
  /\ actor' = [actor EXCEPT ![s] = [pc |-> "claimed", event |-> e,
                                    gen |-> jobs[e].gen + 1]]
  /\ UNCHANGED <<managed, outbox, seen, service, history, bounds>>

\* The Codex session of the thread is found or created; the turn starts.
StartTurn(s) ==
  /\ At(s, "claimed")
  /\ turns' = [turns EXCEPT ![actor[s].event] = @ + 1]
  /\ Goes(s, "turn")
  /\ UNCHANGED <<jobs, managed, outbox, seen, service, crossed, bounds>>

EndTurn(s) ==
  /\ At(s, "turn")
  /\ Goes(s, "answered")
  /\ UNCHANGED <<jobs, managed, outbox, seen, service, history, bounds>>

\* send_result freezes the answer before its first POST.
PrepareAnswer(s) ==
  /\ At(s, "answered")
  /\ MayPrepare(<<actor[s].event, "answer">>)
  /\ manifest' = Prepared(<<actor[s].event, "answer">>)
  /\ Goes(s, "sending")
  /\ UNCHANGED <<jobs, managed, shown, seen, service, history, bounds>>

SendAnswer(s) ==
  /\ At(s, "sending")
  /\ LET k == <<actor[s].event, "answer">>
     IN \E o \in Outcomes(manifest[k].st) :
          /\ Delivers(k, o)
          /\ Goes(s, IF o.ok THEN "sent" ELSE "failed")
  /\ UNCHANGED <<jobs, managed, seen, service, history, bounds>>

\* finish(..., "completed"): refused when the lease is not this slot's.
Finish(s) ==
  /\ At(s, "sent")
  /\ LET e == actor[s].event
         mine == Owns(jobs, e, OwnerOf(s), actor[s].gen, proc.policy)
     IN /\ jobs' = IF mine THEN Moved(jobs, e, "completed") ELSE jobs
        /\ IF mine THEN Rests(s) ELSE Goes(s, "failed")
  /\ UNCHANGED <<managed, outbox, seen, service, history, bounds>>

\* A session, turn, renewal or preparation that raises.
Fail(s) ==
  /\ actor[s].pc \in {"claimed", "turn", "answered"}
  /\ Goes(s, "failed")
  /\ UNCHANGED <<jobs, managed, outbox, seen, service, history, bounds>>

\* Mutant: the failed job is finished as completed.
MarkCompleted(s) ==
  /\ At(s, "failed")
  /\ LET e == actor[s].event
     IN IF Owns(jobs, e, OwnerOf(s), actor[s].gen, proc.policy)
        THEN /\ jobs' = Moved(jobs, e, "completed")
             /\ Goes(s, IF HasManifest(<<e, "answer">>) THEN "recover"
                        ELSE "notify")
        ELSE /\ jobs' = jobs
             /\ Rests(s)
  /\ UNCHANGED <<managed, outbox, seen, service, history, bounds>>

\* The exception handler: finish(..., "uncertain"), then one attempt to
\* deliver what was frozen.
MarkUncertain(s) ==
  /\ At(s, "failed")
  /\ LET e == actor[s].event
     IN IF Owns(jobs, e, OwnerOf(s), actor[s].gen, proc.policy)
        THEN /\ jobs' = Moved(jobs, e, "uncertain")
             /\ Goes(s, IF HasManifest(<<e, "answer">>) THEN "recover"
                        ELSE "notify")
        ELSE /\ jobs' = jobs
             /\ Rests(s)
  /\ UNCHANGED <<managed, outbox, seen, service, history, bounds>>

-----------------------------------------------------------------------------
(* Recovery of an uncertain job, by its slot or at startup *)

Recover(a) ==
  /\ At(a, "recover")
  /\ LET k == <<actor[a].event, "answer">>
     IN \E o \in Outcomes(manifest[k].st) :
          /\ Delivers(k, o)
          /\ Goes(a, IF o.ok THEN "recovered" ELSE "notify")
  /\ UNCHANGED <<jobs, managed, seen, service, history, bounds>>

CompleteUncertain(a) ==
  /\ At(a, "recovered")
  /\ LET e == actor[a].event
         may == MayComplete(jobs, e, actor[a].gen, proc.policy)
     IN /\ jobs' = IF may THEN Moved(jobs, e, "completed") ELSE jobs
        /\ IF may THEN Rests(a) ELSE Goes(a, "notify")
  /\ UNCHANGED <<managed, outbox, seen, service, history, bounds>>

\* send_result of the error notice: prepared, or refused and logged.
PrepareNotice(a) ==
  /\ At(a, "notify")
  /\ LET k == <<actor[a].event, "notice">>
     IN \/ /\ MayPrepare(k)
           /\ manifest' = Prepared(k)
           /\ Goes(a, "noticing")
        \/ /\ manifest' = manifest
           /\ Rests(a)
  /\ UNCHANGED <<jobs, managed, shown, seen, service, history, bounds>>

SendNotice(a) ==
  /\ At(a, "noticing")
  /\ LET k == <<actor[a].event, "notice">>
     IN \E o \in Outcomes(manifest[k].st) : Delivers(k, o)
  /\ Rests(a)
  /\ UNCHANGED <<jobs, managed, seen, service, history, bounds>>

-----------------------------------------------------------------------------
Startups ==
  \/ \E p \in Policies : Start(p)
  \/ \E e \in Events : Fence(e)
  \/ Fenced
  \/ \E k \in Keys : DeliverPrepared(k)
  \/ ListUncertain
  \/ \E e \in Events : Settle(e)
  \/ Open

Admissions ==
  \E e \in Events :
    AdmitRoot(e) \/ RouteRoot(e) \/ CancelRoot(e) \/ AdmitReply(e)

Works(s) ==
  \/ \E e \in Events : Claim(s, e)
  \/ StartTurn(s) \/ EndTurn(s) \/ PrepareAnswer(s) \/ SendAnswer(s)
  \/ Finish(s) \/ Fail(s) \/ MarkUncertain(s)

Recovers(a) ==
  Recover(a) \/ CompleteUncertain(a) \/ PrepareNotice(a) \/ SendNotice(a)

Next ==
  \/ Startups
  \/ Admissions
  \/ \E s \in Slots : Works(s)
  \/ \E a \in Actors : Recovers(a)
  \/ Age
  \/ Stop

Spec == Init /\ [][Next]_vars

\* launchd restarts the process; a slot keeps claiming, a turn ends at its
\* deadline at the latest, and every request to Discord returns or raises.
Fairness ==
  /\ WF_vars(Startups)
  /\ \A s \in Slots : WF_vars(Works(s))
  /\ \A a \in Actors : WF_vars(Recovers(a))

FairSpec == Spec /\ Fairness

-----------------------------------------------------------------------------
(* Properties *)

\* TypeOK: the type of the state.
TypeOK ==
  /\ jobs \in [Events -> Row(Actors \X Nat)]
  /\ managed \subseteq Threads
  /\ manifest \in [Keys -> [st : ManifestStates,
                            policy : Policies \cup {None}, old : BOOLEAN]]
  /\ shown \subseteq Keys
  /\ seen \subseteq Events
  /\ proc \in [pc : ProcPc, policy : Policies \cup {None}, run : Nat]
  /\ todo \subseteq Events \cup Keys
  /\ actor \in [Actors -> [pc : ActorPc, event : Events \cup {None},
                           gen : Nat]]
  /\ turns \in [Events -> Nat]
  /\ crossed \subseteq Events
  /\ stops \in 0..MaxStops
  /\ ages \in 0..MaxAges

Working(s) == actor[s].pc \in WorkingPc

\* No event's turn is started twice, whatever stops, restarts, policy changes
\* and reconciliations come between: an abandoned job is never queued again.
TurnsNeverRepeat == \A e \in Events : turns[e] <= 1

\* A slot that works on a job is alone in its destination: no other slot
\* works there, and nothing uncertain is waiting for review there.
AloneInDestination ==
  \A s \in Slots : Working(s) =>
    \A e \in Events \ {actor[s].event} :
      /\ jobs[e].state \in {"running", "uncertain"}
      /\ jobs[e].policy = proc.policy
      => Destination(jobs, e) # Destination(jobs, actor[s].event)

\* A destination is strictly ordered: while a released job waits, no job
\* admitted after it in the same destination has left the queue.
StrictOrder ==
  \A e, f \in Events :
    /\ jobs[e].state = "queued" /\ jobs[e].ready
    /\ jobs[f].state # "absent" /\ jobs[f].policy = jobs[e].policy
    /\ Destination(jobs, e) = Destination(jobs, f)
    /\ jobs[e].at < jobs[f].at
    => jobs[f].state = "queued"

\* A completed job's answer was confirmed and is complete in Discord, whether
\* its slot, the exception handler or a later process completed it.
CompletedIsShown ==
  \A e \in Events : jobs[e].state = "completed" =>
    manifest[<<e, "answer">>].st = "sent" /\ <<e, "answer">> \in shown

\* A job that was reserved before a policy change is not worked on after it,
\* not even when the old policy is back.
NeverRunsAcrossPolicies ==
  \A s \in Slots : Working(s) => actor[s].event \notin crossed

UncertainAhead(e) ==
  \E f \in Events \ {e} :
    /\ jobs[f].state = "uncertain"
    /\ jobs[f].policy = jobs[e].policy
    /\ Destination(jobs, f) = Destination(jobs, e)

\* A released job is claimed at last, unless an uncertain job blocks its
\* destination: no restart, failure or retention strands it.
ReleasedJobIsClaimed ==
  \A e \in Events :
    (jobs[e].state = "queued" /\ jobs[e].ready)
      ~> (jobs[e].state # "queued" \/ UncertainAhead(e))
=============================================================================
