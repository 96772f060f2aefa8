------------------------------ MODULE JobStore ------------------------------
(***************************************************************************)
(* The jobs table of the Codex bridge (codex_discord_bridge/store.py) as a *)
(* data type: one function from Discord events to rows, and one operator   *)
(* per statement or transaction that the bridge runs on it.                *)
(*                                                                         *)
(* Every method of JobStore opens its own connection and commits before it *)
(* returns, so each operator is one atomic step.  What the methods'        *)
(* callers do between the calls is in CodexWorkers and CodexIngress.       *)
(*                                                                         *)
(* Abstracted: message content, authors, guild, and time.  lease_until is  *)
(* left out: reclaim_expired, its only reader, runs after                  *)
(* reclaim_abandoned has taken every running row.  updated_at is the flag  *)
(* "old" (before the retention horizon) and created_at, event_id is the    *)
(* order "at" in which the rows were inserted.                             *)
(***************************************************************************)
EXTENDS Naturals, FiniteSets

CONSTANTS
  Events,     \* Discord messages of the owner, by event_id
  Roots,      \* the ones posted in the configured channel
  Threads,    \* Discord threads
  ThreadOf,   \* the thread a root event opens, or a reply is posted in
  Listen,     \* the configured channel: config.channel_id
  Policies,   \* policy fingerprints: JobStore.policy_binding
  MaxPending, \* config.max_pending_jobs
  None

ASSUME StoreAssumption ==
  /\ Roots \subseteq Events
  /\ ThreadOf \in [Events -> Threads]
  /\ \A r, s \in Roots : ThreadOf[r] = ThreadOf[s] => r = s
  /\ Listen \notin Threads
  /\ MaxPending \in Nat
  /\ None \notin Nat
  /\ None \notin Events \cup Threads \cup Policies \cup {Listen}

JobStates == {"absent", "queued", "running", "completed", "cancelled",
              "uncertain"}
\* "failed" is in the code's lists, but nothing ever writes it.
TerminalStates == {"completed", "cancelled", "uncertain"}
PendingStates == {"queued", "running", "uncertain"}

\* A row.  Owners are the values of lease_owner.
Row(Owners) ==
  [state : JobStates, ready : BOOLEAN, thread : Threads \cup {None},
   owner : Owners \cup {None}, gen : Nat, policy : Policies \cup {None},
   at : Nat, old : BOOLEAN]

NoRow == [state |-> "absent", ready |-> FALSE, thread |-> None,
          owner |-> None, gen |-> 0, policy |-> None, at |-> 0, old |-> FALSE]

Channel(e) == IF e \in Roots THEN Listen ELSE ThreadOf[e]

\* COALESCE(discord_thread_id, channel_id): what a claim excludes on.
Destination(jobs, e) ==
  IF jobs[e].thread # None THEN jobs[e].thread ELSE Channel(e)

Present(jobs) == {e \in Events : jobs[e].state # "absent"}
InState(jobs, s, p) == {e \in Events : jobs[e].state = s /\ jobs[e].policy = p}
Pending(jobs, p) == {e \in Events : jobs[e].state \in PendingStates
                                    /\ jobs[e].policy = p}

\* UPDATE jobs SET state=..., updated_at=now WHERE event_id=e
Moved(jobs, e, s) == [jobs EXCEPT ![e].state = s, ![e].old = FALSE]

-----------------------------------------------------------------------------
(* Admission *)

\* _prune_terminal_in_transaction: a terminal row past its retention, unless
\* a row of the thread it opened is recent or active.
Prunable(jobs, e) ==
  /\ jobs[e].state \in TerminalStates
  /\ jobs[e].old
  /\ \/ jobs[e].thread = None
     \/ ~\E c \in Present(jobs) :
           /\ Channel(c) = jobs[e].thread
           /\ ~jobs[c].old \/ jobs[c].state \in {"queued", "running"}

Pruned(jobs) ==
  [e \in Events |-> IF Prunable(jobs, e) THEN NoRow ELSE jobs[e]]

\* The threads whose mapping, session and cursor go with a pruned row.
PrunedThreads(jobs) ==
  {jobs[e].thread : e \in {x \in Events : Prunable(jobs, x)}} \ {None}

\* enqueue_limited rolls back, the pruning included, when too much is pending.
Admissible(jobs, p, max) == Cardinality(Pending(Pruned(jobs), p)) < max

\* now is created_at, here the number of the admission.
Enqueued(jobs, e, rdy, p, now) ==
  [Pruned(jobs) EXCEPT
     ![e] = [NoRow EXCEPT !.state = "queued", !.ready = rdy, !.policy = p,
                          !.at = now]]

\* make_ready: binds the response thread and releases the row to the workers.
MakesReady(jobs, e, p) == jobs[e].state = "queued" /\ jobs[e].policy = p
MadeReady(jobs, e) ==
  [jobs EXCEPT ![e].thread = ThreadOf[e], ![e].ready = TRUE, ![e].old = FALSE]

\* cancel_unready_root
UnreadyRoots(jobs, p) ==
  {e \in Roots \cap InState(jobs, "queued", p) : ~jobs[e].ready}

-----------------------------------------------------------------------------
(* Work *)

\* Mutant: the NOT EXISTS clause looks at running jobs only.
ClaimableDespiteUncertain(jobs, e, p) ==
  /\ e \in InState(jobs, "queued", p)
  /\ jobs[e].ready
  /\ \A a \in InState(jobs, "running", p) :
       Destination(jobs, a) # Destination(jobs, e)

\* Mutant: the NOT EXISTS clause compares channel_id alone.
ClaimableByChannel(jobs, e, p) ==
  /\ e \in InState(jobs, "queued", p)
  /\ jobs[e].ready
  /\ \A a \in InState(jobs, "running", p) \cup InState(jobs, "uncertain", p) :
       Channel(a) # Channel(e)

\* claim: ready, of this policy, and nothing running or uncertain in the
\* same destination.
Claimable(jobs, e, p) ==
  /\ e \in InState(jobs, "queued", p)
  /\ jobs[e].ready
  /\ \A a \in InState(jobs, "running", p) \cup InState(jobs, "uncertain", p) :
       Destination(jobs, a) # Destination(jobs, e)

\* Mutant: ORDER BY created_at DESC.
LastClaimable(jobs, e, p) ==
  /\ Claimable(jobs, e, p)
  /\ \A f \in Events : Claimable(jobs, f, p) => jobs[f].at <= jobs[e].at

\* ORDER BY created_at, event_id LIMIT 1
NextClaimable(jobs, e, p) ==
  /\ Claimable(jobs, e, p)
  /\ \A f \in Events : Claimable(jobs, f, p) => jobs[e].at <= jobs[f].at

Claimed(jobs, e, o) ==
  [jobs EXCEPT ![e].state = "running", ![e].owner = o, ![e].gen = @ + 1,
               ![e].old = FALSE]

\* finish and complete_uncertain are fenced by owner and generation.
Owns(jobs, e, o, g, p) ==
  /\ e \in InState(jobs, "running", p)
  /\ jobs[e].owner = o
  /\ jobs[e].gen = g

MayComplete(jobs, e, g, p) ==
  e \in InState(jobs, "uncertain", p) /\ jobs[e].gen = g

\* Mutant: the jobs of an earlier process are not looked for.
NothingAbandoned(jobs, o, p) == {}

\* Mutant: an abandoned job goes back to the queue.
RequeuedAbandoned(jobs, e, o) ==
  [jobs EXCEPT ![e].state = "queued", ![e].owner = o, ![e].gen = @ + 1,
               ![e].old = FALSE]

\* reclaim_abandoned: a running job of an earlier process becomes uncertain
\* under a new generation.
Abandoned(jobs, o, p) == {e \in InState(jobs, "running", p) : jobs[e].owner # o}
Reclaimed(jobs, e, o) ==
  [jobs EXCEPT ![e].state = "uncertain", ![e].owner = o, ![e].gen = @ + 1,
               ![e].old = FALSE]

\* Mutant: queued jobs of another policy are left in the queue.
QuarantinedRunning(jobs, p) ==
  [e \in Events |->
     IF jobs[e].policy # p /\ jobs[e].state = "running"
     THEN [jobs[e] EXCEPT !.state = "uncertain", !.old = FALSE]
     ELSE jobs[e]]

\* quarantine_stale_jobs: what another policy reserved does not run under
\* this one.
Quarantined(jobs, p) ==
  [e \in Events |->
     IF jobs[e].policy = p THEN jobs[e]
     ELSE IF jobs[e].state = "queued"
     THEN [jobs[e] EXCEPT !.state = "cancelled", !.old = FALSE]
     ELSE IF jobs[e].state = "running"
     THEN [jobs[e] EXCEPT !.state = "uncertain", !.old = FALSE]
     ELSE jobs[e]]
=============================================================================
