-------------------------- MODULE CodexJobsProofs ---------------------------
(***************************************************************************)
(* Theorems about the Codex bridge's jobs.  CodexWorkers: how they are     *)
(* worked on, for every set of events, slots and policies, and any number  *)
(* of stops and retention periods.  CodexIngress: how Discord's messages   *)
(* get into the table, for every set of events, every page size and limit, *)
(* and any number of faults and expired sessions.                          *)
(***************************************************************************)
EXTENDS CodexWorkers, CodexIngress, FiniteSetTheorems, WellFoundedInduction,
TLAPS

-----------------------------------------------------------------------------
(* What each operation of JobStore does to the rows, field by field; J is a *)
(* jobs table.                                                            *)

\* The fields of a row on which an event's destination, its age in the queue
\* and its policy depend.
SameOrigin(r, s) ==
  r.thread = s.thread /\ r.ready = s.ready /\ r.policy = s.policy /\ r.at = s.at

\* An empty row is a row.
LEMMA EmptyRow == ASSUME NEW Owners PROVE NoRow \in Row(Owners)
BY DEF NoRow, Row, JobStates

\* A destination is a matter of the row's thread.
LEMMA DestinationIsThread ==
  ASSUME NEW J, NEW K, NEW e, J[e].thread = K[e].thread
  PROVE  Destination(J, e) = Destination(K, e)
BY DEF Destination

\* finish, cancel and their kin change one row's state and touch it.
LEMMA MovedRows ==
  ASSUME NEW Owners, NEW J \in [Events -> Row(Owners)], NEW e \in Events,
         NEW s \in JobStates
  PROVE  /\ Moved(J, e, s) \in [Events -> Row(Owners)]
         /\ \A f \in Events \ {e} : Moved(J, e, s)[f] = J[f]
         /\ Moved(J, e, s)[e].state = s
         /\ ~Moved(J, e, s)[e].old
         /\ Moved(J, e, s)[e].owner = J[e].owner
         /\ Moved(J, e, s)[e].gen = J[e].gen
         /\ SameOrigin(Moved(J, e, s)[e], J[e])
BY DEF Moved, Row, SameOrigin

\* A row that changes hands.
LEMMA TakenRow ==
  ASSUME NEW Owners, NEW r \in Row(Owners), NEW s \in JobStates,
         NEW o \in Owners, NEW n \in Nat
  PROVE  [r EXCEPT !.state = s, !.owner = o, !.gen = n, !.old = FALSE]
           \in Row(Owners)
BY DEF Row

\* claim makes a queued row a running one under the next generation.
LEMMA ClaimedRows ==
  ASSUME NEW Owners, NEW J \in [Events -> Row(Owners)], NEW e \in Events,
         NEW o \in Owners
  PROVE  /\ Claimed(J, e, o) \in [Events -> Row(Owners)]
         /\ \A f \in Events \ {e} : Claimed(J, e, o)[f] = J[f]
         /\ Claimed(J, e, o)[e].state = "running"
         /\ ~Claimed(J, e, o)[e].old
         /\ Claimed(J, e, o)[e].owner = o
         /\ Claimed(J, e, o)[e].gen = J[e].gen + 1
         /\ SameOrigin(Claimed(J, e, o)[e], J[e])
<1> DEFINE new == [J[e] EXCEPT !.state = "running", !.owner = o,
                            !.gen = J[e].gen + 1, !.old = FALSE]
<1>1. Claimed(J, e, o) = [J EXCEPT ![e] = new]
  BY Zenon DEF Claimed
<1>2. J[e].gen + 1 \in Nat
  BY DEF Row
<1>3. new \in Row(Owners)
  BY <1>2, TakenRow DEF JobStates
<1>4. /\ new.state = "running"
      /\ ~new.old
      /\ new.owner = o
      /\ new.gen = J[e].gen + 1
      /\ SameOrigin(new, J[e])
  BY DEF Row, SameOrigin
<1> HIDE DEF new
<1> QED
  BY <1>1, <1>3, <1>4

\* reclaim_abandoned makes a running row an uncertain one.
LEMMA ReclaimedRows ==
  ASSUME NEW Owners, NEW J \in [Events -> Row(Owners)], NEW e \in Events,
         NEW o \in Owners
  PROVE  /\ Reclaimed(J, e, o) \in [Events -> Row(Owners)]
         /\ \A f \in Events \ {e} : Reclaimed(J, e, o)[f] = J[f]
         /\ Reclaimed(J, e, o)[e].state = "uncertain"
         /\ SameOrigin(Reclaimed(J, e, o)[e], J[e])
<1> DEFINE new == [J[e] EXCEPT !.state = "uncertain", !.owner = o,
                            !.gen = J[e].gen + 1, !.old = FALSE]
<1>1. Reclaimed(J, e, o) = [J EXCEPT ![e] = new]
  BY Zenon DEF Reclaimed
<1>2. J[e].gen + 1 \in Nat
  BY DEF Row
<1>3. new \in Row(Owners)
  BY <1>2, TakenRow DEF JobStates
<1>4. /\ new.state = "uncertain"
      /\ ~new.old
      /\ new.owner = o
      /\ new.gen = J[e].gen + 1
      /\ SameOrigin(new, J[e])
  BY DEF Row, SameOrigin
<1> HIDE DEF new
<1> QED
  BY <1>1, <1>3, <1>4

\* make_ready binds the thread and releases the row.
LEMMA MadeReadyRows ==
  ASSUME NEW Owners, NEW J \in [Events -> Row(Owners)], NEW e \in Events
  PROVE  /\ MadeReady(J, e) \in [Events -> Row(Owners)]
         /\ \A f \in Events \ {e} : MadeReady(J, e)[f] = J[f]
         /\ MadeReady(J, e)[e].state = J[e].state
         /\ MadeReady(J, e)[e].policy = J[e].policy
         /\ MadeReady(J, e)[e].at = J[e].at
         /\ MadeReady(J, e)[e].thread = ThreadOf[e]
         /\ MadeReady(J, e)[e].ready
         /\ ~MadeReady(J, e)[e].old
<1>1. [J[e] EXCEPT !.thread = ThreadOf[e], !.ready = TRUE, !.old = FALSE]
        \in Row(Owners)
  BY StoreAssumption DEF Row
<1> QED
  BY <1>1 DEF MadeReady, Row

\* quarantine_stale_jobs ends the queued and running rows of other policies
\* and leaves the others alone.
LEMMA QuarantinedRows ==
  ASSUME NEW Owners, NEW J \in [Events -> Row(Owners)], NEW p
  PROVE  /\ Quarantined(J, p) \in [Events -> Row(Owners)]
         /\ \A f \in Events :
              /\ SameOrigin(Quarantined(J, p)[f], J[f])
              /\ Quarantined(J, p)[f].state =
                   IF J[f].policy # p /\ J[f].state = "queued" THEN "cancelled"
                   ELSE IF J[f].policy # p /\ J[f].state = "running"
                   THEN "uncertain" ELSE J[f].state
BY DEF Quarantined, Row, SameOrigin, JobStates

\* Pruning removes terminal rows and leaves the others alone.
LEMMA PrunedRows ==
  ASSUME NEW Owners, NEW J \in [Events -> Row(Owners)]
  PROVE  /\ Pruned(J) \in [Events -> Row(Owners)]
         /\ \A f \in Events : Pruned(J)[f] = IF Prunable(J, f) THEN NoRow ELSE J[f]
BY EmptyRow DEF Pruned

\* enqueue_limited prunes, and adds one queued row.
LEMMA EnqueuedRows ==
  ASSUME NEW Owners, NEW J \in [Events -> Row(Owners)], NEW e \in Events,
         NEW rdy \in BOOLEAN, NEW p \in Policies \cup {None}, NEW now \in Nat
  PROVE  /\ Enqueued(J, e, rdy, p, now) \in [Events -> Row(Owners)]
         /\ \A f \in Events \ {e} :
              Enqueued(J, e, rdy, p, now)[f] =
                IF Prunable(J, f) THEN NoRow ELSE J[f]
         /\ Enqueued(J, e, rdy, p, now)[e].state = "queued"
         /\ Enqueued(J, e, rdy, p, now)[e].thread = None
         /\ Enqueued(J, e, rdy, p, now)[e].ready = rdy
         /\ Enqueued(J, e, rdy, p, now)[e].policy = p
         /\ Enqueued(J, e, rdy, p, now)[e].at = now
<1>1. Pruned(J) \in [Events -> Row(Owners)]
  BY PrunedRows
<1>2. [NoRow EXCEPT !.state = "queued", !.ready = rdy, !.policy = p, !.at = now]
        \in Row(Owners)
  BY DEF NoRow, Row, JobStates
<1>3. \A f \in Events : Pruned(J)[f] = IF Prunable(J, f) THEN NoRow ELSE J[f]
  BY PrunedRows
<1> QED
  BY <1>1, <1>2, <1>3 DEF Enqueued, NoRow

\* A row just admitted is not old.
LEMMA EnqueuedIsYoung ==
  ASSUME NEW Owners, NEW J \in [Events -> Row(Owners)], NEW e \in Events,
         NEW rdy \in BOOLEAN, NEW p \in Policies \cup {None}, NEW now \in Nat
  PROVE  ~Enqueued(J, e, rdy, p, now)[e].old
<1>1. Pruned(J) \in [Events -> Row(Owners)]
  BY PrunedRows
<1> QED
  BY <1>1 DEF Enqueued, NoRow

-----------------------------------------------------------------------------
(* The inductive invariants *)

\* The actors that are not idle have an event.
HasEvent == \A a \in Actors : actor[a].pc # "idle" => actor[a].event \in Events

Typed == TypeOK /\ HasEvent /\ IsFiniteSet(seen)

\* What an event's row says about when and how it came into the table.
RowOK(e) ==
  /\ jobs[e].state = "absent" => jobs[e].thread = None /\ ~jobs[e].ready
  /\ jobs[e].state # "absent" => e \in seen /\ jobs[e].at <= Cardinality(seen)
  /\ jobs[e].thread # None => e \in Roots /\ jobs[e].thread = ThreadOf[e]
  /\ e \in Roots /\ jobs[e].ready => jobs[e].thread # None
  /\ e \in Roots /\ jobs[e].state = "queued" /\ ~jobs[e].ready =>
       jobs[e].thread = None
  /\ e \notin Roots /\ jobs[e].state # "absent" => jobs[e].ready

\* A reply is in the table only when the root of its thread was routed.
RootFirst ==
  \A f \in Events \ Roots, r \in Roots :
    jobs[f].state # "absent" /\ ThreadOf[r] = ThreadOf[f] =>
      r \in seen /\ (jobs[r].state = "absent" \/ jobs[r].thread # None)

TableInv == (\A e \in Events : RowOK(e)) /\ RootFirst

\* A slot that works on a job owns its row; one that recovers or reports a
\* job left it uncertain, and not long ago.
RecoveryPc == {"recover", "recovered", "notify", "noticing"}

SlotHolds(s) ==
  /\ actor[s].pc # "idle" => Up
  /\ actor[s].pc \in WorkingPc \cup {"failed"} =>
       Owns(jobs, actor[s].event, OwnerOf(s), actor[s].gen, proc.policy)
  /\ actor[s].pc \in RecoveryPc =>
       /\ jobs[actor[s].event].state = "uncertain"
       /\ ~jobs[actor[s].event].old

StartupHolds ==
  /\ actor[Startup].pc \in {"idle"} \cup RecoveryPc
  /\ actor[Startup].pc # "idle" =>
       /\ proc.pc = "settling"
       /\ jobs[actor[Startup].event].state = "uncertain"
       /\ actor[Startup].event \notin todo
  /\ proc.pc = "settling" =>
       \A e \in todo \cap Events : jobs[e].state = "uncertain"
  /\ proc.pc = "delivering" =>
       \A k \in todo : k \in Keys /\ manifest[k].st = "prepared"

OneSlotPerJob ==
  \A s, t \in Slots :
    /\ actor[s].pc # "idle"
    /\ actor[t].pc # "idle"
    /\ actor[s].event = actor[t].event
    => s = t

ActorInv == (\A s \in Slots : SlotHolds(s)) /\ StartupHolds /\ OneSlotPerJob

\* Nothing running or uncertain shares a destination.
Exclusive ==
  \A e, f \in Events :
    /\ e # f
    /\ jobs[e].state \in {"running", "uncertain"}
    /\ jobs[f].state \in {"running", "uncertain"}
    /\ jobs[e].policy = jobs[f].policy
    => Destination(jobs, e) # Destination(jobs, f)

\* A turn is started for a job that has left the queue, by the slot that
\* claimed it.
TurnInv ==
  \A e \in Events :
    /\ turns[e] <= 1
    /\ turns[e] > 0 =>
         /\ e \in seen
         /\ jobs[e].state # "queued"
         /\ \A s \in Slots : actor[s].event = e => actor[s].pc # "claimed"

\* A policy change ends what was queued or running.
CrossInv ==
  \A e \in crossed : e \in seen /\ jobs[e].state \notin {"queued", "running"}

\* Who is about to complete a job has confirmed its answer.
ShownInv ==
  /\ CompletedIsShown
  /\ \A k \in Keys : manifest[k].st = "sent" => k \in shown
  /\ \A a \in Actors : actor[a].pc \in {"sent", "recovered"} =>
       manifest[<<actor[a].event, "answer">>].st = "sent"

-----------------------------------------------------------------------------
(* Manifests *)

Manifests ==
  [st : ManifestStates, policy : Policies \cup {None}, old : BOOLEAN]

\* What a delivery may come to.
LEMMA OutcomeFacts ==
  ASSUME NEW st \in ManifestStates, NEW o \in Outcomes(st)
  PROVE  /\ o.st \in ManifestStates
         /\ o.ok \in BOOLEAN
         /\ o.ok => o.st = "sent"
         /\ o.st = "sent" => o.shows \/ st = "sent"
BY DEF Outcomes

\* A delivery changes one manifest; one that ends as sent is shown.
LEMMA Delivering ==
  ASSUME TypeOK, NEW k \in Keys, NEW o \in Outcomes(manifest[k].st),
         Delivers(k, o)
  PROVE  /\ manifest' \in [Keys -> Manifests]
         /\ \A j \in Keys \ {k} : manifest'[j] = manifest[j]
         /\ manifest'[k].st = o.st
         /\ shown \subseteq shown'
         /\ shown' \subseteq Keys
         /\ o.ok => o.st = "sent"
         /\ o.st = "sent" => k \in shown' \/ manifest[k].st = "sent"
<1>1. manifest \in [Keys -> Manifests] /\ shown \subseteq Keys
  BY DEF TypeOK, Manifests
<1>2. manifest[k].st \in ManifestStates
  BY <1>1 DEF Manifests
<1>3. /\ o.st \in ManifestStates
      /\ o.ok \in BOOLEAN
      /\ o.ok => o.st = "sent"
      /\ o.st = "sent" => o.shows \/ manifest[k].st = "sent"
  BY <1>2, OutcomeFacts
<1>4. manifest[k].old \in BOOLEAN
  BY <1>1 DEF Manifests
<1>5. (manifest[k].old /\ ~o.ok) \in BOOLEAN
  OBVIOUS
<1>6. /\ manifest' \in [Keys -> Manifests]
      /\ \A j \in Keys \ {k} : manifest'[j] = manifest[j]
      /\ manifest'[k].st = o.st
  BY <1>1, <1>3, <1>5 DEF Delivers, Manifests
<1>7. /\ shown \subseteq shown'
      /\ shown' \subseteq Keys
      /\ o.shows => k \in shown'
  BY <1>1 DEF Delivers
<1> QED
  BY <1>3, <1>6, <1>7

\* Preparing a manifest creates it, or leaves it as it is.
LEMMA Preparing ==
  ASSUME TypeOK, NEW k \in Keys, proc.policy \in Policies \cup {None}
  PROVE  /\ Prepared(k) \in [Keys -> Manifests]
         /\ \A j \in Keys \ {k} : Prepared(k)[j] = manifest[j]
         /\ Prepared(k)[k].st = "sent" => manifest[k].st = "sent"
BY DEF TypeOK, Prepared, Manifests, ManifestStates

-----------------------------------------------------------------------------
(* Actors *)

ActorRecord == [pc : ActorPc, event : Events \cup {None}, gen : Nat]

LEMMA Going ==
  ASSUME TypeOK, NEW a \in Actors, NEW to \in ActorPc, Goes(a, to)
  PROVE  /\ actor' \in [Actors -> ActorRecord]
         /\ \A b \in Actors \ {a} : actor'[b] = actor[b]
         /\ actor'[a].pc = to
         /\ actor'[a].event = actor[a].event
         /\ actor'[a].gen = actor[a].gen
BY DEF TypeOK, ActorRecord, Goes

LEMMA Resting ==
  ASSUME TypeOK, NEW a \in Actors, Rests(a)
  PROVE  /\ actor' \in [Actors -> ActorRecord]
         /\ \A b \in Actors \ {a} : actor'[b] = actor[b]
         /\ actor'[a].pc = "idle"
BY DEF TypeOK, ActorRecord, Rests, Idle, ActorPc

\* A new task of an actor.
LEMMA Taking ==
  ASSUME TypeOK, NEW a \in Actors, NEW to \in ActorPc, NEW e \in Events,
         NEW g \in Nat,
         actor' = [actor EXCEPT ![a] = [pc |-> to, event |-> e, gen |-> g]]
  PROVE  /\ actor' \in [Actors -> ActorRecord]
         /\ \A b \in Actors \ {a} : actor'[b] = actor[b]
         /\ actor'[a].pc = to
         /\ actor'[a].event = e
         /\ actor'[a].gen = g
BY DEF TypeOK, ActorRecord

-----------------------------------------------------------------------------
(* Types *)

Owners == Actors \X Nat

LEMMA Owning ==
  ASSUME TypeOK, NEW a \in Actors
  PROVE  OwnerOf(a) \in Owners
BY DEF TypeOK, Owners, OwnerOf

LEMMA Now1 ==
  ASSUME IsFiniteSet(seen)
  PROVE  Now \in Nat /\ Cardinality(seen) \in Nat
BY FS_CardinalityType DEF Now


\* TypeOK, variable by variable.
JobsTyped == jobs \in [Events -> Row(Owners)]
ManifestsTyped == manifest \in [Keys -> Manifests]
ActorsTyped == actor \in [Actors -> ActorRecord]
ProcTyped == proc \in [pc : ProcPc, policy : Policies \cup {None}, run : Nat]
SetsTyped ==
  /\ managed \subseteq Threads
  /\ shown \subseteq Keys
  /\ seen \subseteq Events
  /\ todo \subseteq Events \cup Keys
  /\ crossed \subseteq Events
CountsTyped ==
  /\ turns \in [Events -> Nat]
  /\ stops \in 0..MaxStops
  /\ ages \in 0..MaxAges

LEMMA TypeParts ==
  TypeOK <=> /\ JobsTyped /\ ManifestsTyped /\ ActorsTyped
             /\ ProcTyped /\ SetsTyped /\ CountsTyped
BY DEF TypeOK, JobsTyped, ManifestsTyped, ActorsTyped, ProcTyped, SetsTyped,
       CountsTyped, Owners, Manifests, ActorRecord

LEMMA TypePartsNext ==
  TypeOK' <=> /\ JobsTyped' /\ ManifestsTyped' /\ ActorsTyped'
              /\ ProcTyped' /\ SetsTyped' /\ CountsTyped'
BY DEF TypeOK, JobsTyped, ManifestsTyped, ActorsTyped, ProcTyped, SetsTyped,
       CountsTyped, Owners, Manifests, ActorRecord

LEMMA JobsStep ==
  ASSUME JobsTyped, ProcTyped, IsFiniteSet(seen), TypeOK, [Next]_vars
  PROVE  JobsTyped'
<1> USE DEF JobsTyped
<1>1. ASSUME NEW p \in Policies, Start(p) PROVE JobsTyped'
  BY <1>1, QuarantinedRows DEF Start
<1>2. ASSUME NEW e \in Events, Fence(e) PROVE JobsTyped'
  <2>1. OwnerOf(Startup) \in Owners
    BY Owning DEF Actors
  <2> QED
    BY <1>2, <2>1, ReclaimedRows DEF Fence
<1>3. ASSUME NEW e \in Events, AdmitRoot(e) \/ AdmitReply(e) PROVE JobsTyped'
  <2>1. proc.policy \in Policies \cup {None} /\ Now \in Nat
    BY Now1 DEF ProcTyped
  <2>2. PICK rdy \in BOOLEAN : jobs' = Enqueued(jobs, e, rdy, proc.policy, Now)
    BY <1>3 DEF AdmitRoot, AdmitReply
  <2> QED
    BY <2>1, <2>2, EnqueuedRows
<1>4. ASSUME NEW e \in Events, RouteRoot(e) PROVE JobsTyped'
  BY <1>4, MadeReadyRows DEF RouteRoot
<1>5. ASSUME NEW e \in Events, CancelRoot(e) PROVE JobsTyped'
  BY <1>5, MovedRows DEF CancelRoot, JobStates
<1>6. ASSUME NEW s \in Slots, NEW e \in Events, Claim(s, e) PROVE JobsTyped'
  <2>1. OwnerOf(s) \in Owners
    BY Owning DEF Actors
  <2> QED
    BY <1>6, <2>1, ClaimedRows DEF Claim
<1>7. ASSUME NEW s \in Slots, Finish(s) \/ MarkUncertain(s) PROVE JobsTyped'
  <2>1. CASE jobs' = jobs
    BY <2>1
  <2>2. CASE jobs' # jobs
    <3>1. actor[s].event \in Events
      BY <1>7, <2>2 DEF Finish, MarkUncertain, Owns, InState
    <3> QED
      BY <1>7, <3>1, MovedRows DEF Finish, MarkUncertain, JobStates
  <2> QED
    BY <2>1, <2>2
<1>8. ASSUME NEW a \in Actors, CompleteUncertain(a) PROVE JobsTyped'
  <2>1. CASE jobs' = jobs
    BY <2>1
  <2>2. CASE jobs' # jobs
    <3>1. actor[a].event \in Events
      BY <1>8, <2>2 DEF CompleteUncertain, MayComplete, InState
    <3> QED
      BY <1>8, <3>1, MovedRows DEF CompleteUncertain, JobStates
  <2> QED
    BY <2>1, <2>2
<1>9. CASE Age
  BY <1>9 DEF Age, Row
<1>10. CASE UNCHANGED jobs
  BY <1>10
<1> QED
  BY <1>1, <1>2, <1>3, <1>4, <1>5, <1>6, <1>7, <1>8, <1>9, <1>10
     DEF Next, Startups, Admissions, Works, Recovers, vars, Fenced,
         DeliverPrepared, ListUncertain, Settle, Open, StartTurn, EndTurn,
         PrepareAnswer, SendAnswer, Fail, Recover, PrepareNotice, SendNotice,
         Stop

LEMMA ManifestsStep ==
  ASSUME TypeOK, HasEvent, [Next]_vars
  PROVE  ManifestsTyped'
<1>0. ManifestsTyped /\ ProcTyped /\ \A a \in Actors : At(a, "idle") \/ actor[a].event \in Events
  BY TypeParts DEF HasEvent, At
<1>1. ASSUME NEW k \in Keys, DeliverPrepared(k) PROVE ManifestsTyped'
  BY <1>1, Delivering DEF DeliverPrepared, ManifestsTyped
<1>2. ASSUME NEW a \in Actors, SendAnswer(a) \/ Recover(a) \/ SendNotice(a)
      PROVE  ManifestsTyped'
  <2>1. <<actor[a].event, "answer">> \in Keys /\ <<actor[a].event, "notice">> \in Keys
    BY <1>0, <1>2 DEF SendAnswer, Recover, SendNotice, At, Keys, Kinds
  <2> QED
    BY <1>2, <2>1, Delivering DEF SendAnswer, Recover, SendNotice,
       ManifestsTyped
<1>3. ASSUME NEW a \in Actors, PrepareAnswer(a) \/ PrepareNotice(a)
      PROVE  ManifestsTyped'
  <2>1. <<actor[a].event, "answer">> \in Keys /\ <<actor[a].event, "notice">> \in Keys
    BY <1>0, <1>3 DEF PrepareAnswer, PrepareNotice, At, Keys, Kinds
  <2>2. proc.policy \in Policies \cup {None}
    BY <1>0 DEF ProcTyped
  <2> QED
    BY <1>0, <1>3, <2>1, <2>2, Preparing DEF PrepareAnswer, PrepareNotice,
       ManifestsTyped
<1>4. CASE PruneRouting
  BY <1>0, <1>4 DEF PruneRouting, ManifestsTyped, Manifests, NoManifest,
     ManifestStates
<1>5. CASE Age
  BY <1>0, <1>5 DEF Age, ManifestsTyped, Manifests
<1>6. CASE UNCHANGED manifest
  BY <1>0, <1>6 DEF ManifestsTyped
<1> QED
  BY <1>1, <1>2, <1>3, <1>4, <1>5, <1>6
     DEF Next, Startups, Admissions, Works, Recovers, vars, outbox, Actors,
         Start, Fence, Fenced, ListUncertain, Settle, Open, AdmitRoot,
         RouteRoot, CancelRoot, AdmitReply, Claim, StartTurn, EndTurn, Finish,
         Fail, MarkUncertain, CompleteUncertain, Stop

LEMMA ActorsStep ==
  ASSUME TypeOK, [Next]_vars
  PROVE  ActorsTyped'
<1>0. ActorsTyped /\ JobsTyped /\ SetsTyped
  BY TypeParts
<1>1. ASSUME NEW a \in Actors, NEW to \in ActorPc, Goes(a, to) PROVE ActorsTyped'
  BY <1>1, Going DEF ActorsTyped
<1>2. ASSUME NEW a \in Actors, Rests(a) PROVE ActorsTyped'
  BY <1>2, Resting DEF ActorsTyped
<1>3. ASSUME NEW e \in Events, Settle(e) PROVE ActorsTyped'
  <2>1. jobs[e].gen \in Nat
    BY <1>0 DEF JobsTyped, Row
  <2>2. PICK to \in ActorPc :
          actor' = [actor EXCEPT ![Startup] = [pc |-> to, event |-> e, gen |-> jobs[e].gen]]
    BY <1>3 DEF Settle, ActorPc
  <2> QED
    BY <2>1, <2>2, Taking DEF ActorsTyped, Actors
<1>4. ASSUME NEW s \in Slots, NEW e \in Events, Claim(s, e) PROVE ActorsTyped'
  <2>1. jobs[e].gen + 1 \in Nat
    BY <1>0 DEF JobsTyped, Row
  <2> QED
    BY <1>4, <2>1, Taking DEF Claim, ActorsTyped, Actors, ActorPc, WorkingPc
<1>5. CASE Stop
  BY <1>5 DEF Stop, ActorsTyped, ActorRecord, Idle, ActorPc
<1>6. CASE UNCHANGED actor
  BY <1>0, <1>6 DEF ActorsTyped
<1>7. ASSUME NEW a \in Actors,
             \/ StartTurn(a) \/ EndTurn(a) \/ PrepareAnswer(a) \/ SendAnswer(a)
             \/ Finish(a) \/ Fail(a) \/ MarkUncertain(a) \/ Recovers(a)
      PROVE  ActorsTyped'
  <2>1. Rests(a) \/ \E to \in ActorPc : Goes(a, to)
    BY <1>7 DEF StartTurn, EndTurn, PrepareAnswer, SendAnswer, Finish, Fail,
                MarkUncertain, Recovers, Recover, CompleteUncertain,
                PrepareNotice, SendNotice, ActorPc, WorkingPc
  <2> QED
    BY <1>1, <1>2, <2>1
<1> QED
  BY <1>3, <1>4, <1>5, <1>6, <1>7
     DEF Next, Startups, Admissions, Works, vars, Actors, Start, Fence, Fenced,
         DeliverPrepared, ListUncertain, Open, AdmitRoot, RouteRoot,
         CancelRoot, AdmitReply, Age

LEMMA SetsStep ==
  ASSUME TypeOK, HasEvent, [Next]_vars
  PROVE  SetsTyped'
<1>0. SetsTyped /\ \A a \in Actors : At(a, "idle") \/ actor[a].event \in Events
  BY TypeParts DEF HasEvent, At
<1>1. managed' \subseteq Threads
  <2>1. ASSUME NEW e \in Events, AdmitRoot(e) \/ AdmitReply(e)
        PROVE  managed' \subseteq managed
    BY <2>1 DEF AdmitRoot, AdmitReply, PruneRouting
  <2>2. ASSUME NEW e \in Events, RouteRoot(e) \/ CancelRoot(e)
        PROVE  managed' \subseteq managed \cup {ThreadOf[e]}
    BY <2>2 DEF RouteRoot, CancelRoot
  <2>3. ASSUME NEW p \in Policies, Start(p) PROVE managed' \subseteq managed
    BY <2>3 DEF Start
  <2>4. \A e \in Events : ThreadOf[e] \in Threads
    BY StoreAssumption
  <2> QED
    BY <1>0, <2>1, <2>2, <2>3, <2>4
       DEF SetsTyped, Next, Startups, Admissions, Works, Recovers, vars,
           Fence, Fenced, DeliverPrepared, ListUncertain, Settle, Open, Claim,
           StartTurn, EndTurn, PrepareAnswer, SendAnswer, Finish, Fail,
           MarkUncertain, Recover, CompleteUncertain, PrepareNotice,
           SendNotice, Age, Stop
<1>2. shown' \subseteq Keys
  <2>1. ASSUME NEW k \in Keys, DeliverPrepared(k) PROVE shown' \subseteq Keys
    BY <2>1, Delivering DEF DeliverPrepared
  <2>2. ASSUME NEW a \in Actors, SendAnswer(a) \/ Recover(a) \/ SendNotice(a)
        PROVE  shown' \subseteq Keys
    <3>1. <<actor[a].event, "answer">> \in Keys /\ <<actor[a].event, "notice">> \in Keys
      BY <1>0, <2>2 DEF SendAnswer, Recover, SendNotice, At, Keys, Kinds
    <3> QED
      BY <2>2, <3>1, Delivering DEF SendAnswer, Recover, SendNotice
  <2> QED
    BY <1>0, <2>1, <2>2
       DEF SetsTyped, Next, Startups, Admissions, Works, Recovers, vars,
           outbox, Actors, Start, Fence, Fenced, ListUncertain, Settle, Open,
           AdmitRoot, RouteRoot, CancelRoot, AdmitReply, Claim, StartTurn,
           EndTurn, PrepareAnswer, Finish, Fail, MarkUncertain,
           CompleteUncertain, PrepareNotice, Age, Stop
<1>3. seen' \subseteq Events /\ crossed' \subseteq Events
  BY <1>0
     DEF SetsTyped, Next, Startups, Admissions, Works, Recovers, vars, history,
         Present, Start, Fence, Fenced, DeliverPrepared, ListUncertain, Settle,
         Open, AdmitRoot, RouteRoot, CancelRoot, AdmitReply, Claim, StartTurn,
         EndTurn, PrepareAnswer, SendAnswer, Finish, Fail, MarkUncertain,
         Recover, CompleteUncertain, PrepareNotice, SendNotice, Age, Stop
<1>4. todo' \subseteq Events \cup Keys
  BY <1>0
     DEF SetsTyped, Next, Startups, Admissions, Works, Recovers, vars, service,
         Incomplete, InState, Start, Fence, Fenced, DeliverPrepared,
         ListUncertain, Settle, Open, AdmitRoot, RouteRoot, CancelRoot,
         AdmitReply, Claim, StartTurn, EndTurn, PrepareAnswer, SendAnswer,
         Finish, Fail, MarkUncertain, Recover, CompleteUncertain,
         PrepareNotice, SendNotice, Age, Stop
<1> QED
  BY <1>1, <1>2, <1>3, <1>4 DEF SetsTyped

LEMMA ProcStep ==
  ASSUME TypeOK, [Next]_vars
  PROVE  ProcTyped'
<1>0. ProcTyped
  BY TypeParts
<1>1. ASSUME NEW p \in Policies, Start(p) PROVE ProcTyped'
  BY <1>0, <1>1 DEF Start, ProcTyped, ProcPc
<1>2. CASE Fenced \/ ListUncertain \/ Open \/ Stop
  BY <1>0, <1>2 DEF Fenced, ListUncertain, Open, Stop, ProcTyped, ProcPc
<1>3. CASE UNCHANGED proc
  BY <1>0, <1>3 DEF ProcTyped
<1> QED
  BY <1>1, <1>2, <1>3
     DEF Next, Startups, Admissions, Works, Recovers, vars, service, Fence,
         DeliverPrepared, Settle, AdmitRoot, RouteRoot, CancelRoot, AdmitReply,
         Claim, StartTurn, EndTurn, PrepareAnswer, SendAnswer, Finish, Fail,
         MarkUncertain, Recover, CompleteUncertain, PrepareNotice, SendNotice,
         Age

LEMMA CountsStep ==
  ASSUME TypeOK, HasEvent, [Next]_vars
  PROVE  CountsTyped'
<1>0. CountsTyped
  BY TypeParts
<1>1. ASSUME NEW s \in Slots, StartTurn(s) PROVE CountsTyped'
  <2>1. turns' \in [Events -> Nat]
    <3>1. actor[s].event \in Events
      BY <1>1 DEF StartTurn, HasEvent, At, Actors
    <3>2. turns[actor[s].event] + 1 \in Nat
      BY <1>0, <3>1 DEF CountsTyped
    <3> QED
      BY <1>0, <1>1, <3>1, <3>2, Zenon DEF StartTurn, CountsTyped
  <2> QED
    BY <1>0, <1>1, <2>1 DEF StartTurn, CountsTyped, bounds
<1>2. CASE Stop \/ Age
  BY <1>0, <1>2, WorkersAssumption DEF Stop, Age, CountsTyped, history
<1>3. CASE UNCHANGED <<turns, bounds>>
  BY <1>0, <1>3 DEF CountsTyped, bounds
<1> QED
  BY <1>1, <1>2, <1>3
     DEF Next, Startups, Admissions, Works, Recovers, vars, history, bounds,
         Start, Fence, Fenced, DeliverPrepared, ListUncertain, Settle, Open,
         AdmitRoot, RouteRoot, CancelRoot, AdmitReply, Claim, EndTurn,
         PrepareAnswer, SendAnswer, Finish, Fail, MarkUncertain, Recover,
         CompleteUncertain, PrepareNotice, SendNotice

\* What is not a type of a variable: who is at work has an event, and only
\* finitely many events were seen.
LEMMA HoldsStep ==
  ASSUME Typed, [Next]_vars
  PROVE  HasEvent' /\ IsFiniteSet(seen)'
<1>0. TypeOK /\ HasEvent /\ IsFiniteSet(seen)
  BY DEF Typed
<1>1. IsFiniteSet(seen')
  <2>1. seen' = seen \/ \E e \in Events : seen' = seen \cup {e}
    BY DEF Next, Startups, Admissions, Works, Recovers, vars, Start, Fence,
           Fenced, DeliverPrepared, ListUncertain, Settle, Open, AdmitRoot,
           RouteRoot, CancelRoot, AdmitReply, Claim, StartTurn, EndTurn,
           PrepareAnswer, SendAnswer, Finish, Fail, MarkUncertain, Recover,
           CompleteUncertain, PrepareNotice, SendNotice, Age, Stop
  <2> QED
    BY <1>0, <2>1, FS_AddElement
<1>2. ASSUME NEW a \in Actors, NEW to \in ActorPc, Goes(a, to), ~At(a, "idle")
      PROVE  HasEvent'
  BY <1>0, <1>2, Going DEF HasEvent, At
<1>3. ASSUME NEW a \in Actors, Rests(a) PROVE HasEvent'
  BY <1>0, <1>3, Resting DEF HasEvent
<1>4. ASSUME NEW e \in Events, Settle(e) PROVE HasEvent'
  BY <1>0, <1>4 DEF Settle, HasEvent, TypeOK
<1>5. ASSUME NEW s \in Slots, NEW e \in Events, Claim(s, e) PROVE HasEvent'
  BY <1>0, <1>5 DEF Claim, HasEvent, TypeOK
<1>6. ASSUME Stop PROVE HasEvent'
  BY <1>6 DEF Stop, HasEvent, Idle
<1>7. ASSUME UNCHANGED actor PROVE HasEvent'
  BY <1>0, <1>7 DEF HasEvent
<1>8. ASSUME NEW a \in Actors,
             \/ StartTurn(a) \/ EndTurn(a) \/ PrepareAnswer(a) \/ SendAnswer(a)
             \/ Finish(a) \/ Fail(a) \/ MarkUncertain(a) \/ Recovers(a)
      PROVE  HasEvent'
  <2>1. /\ ~At(a, "idle")
        /\ Rests(a) \/ \E to \in ActorPc : Goes(a, to)
    BY <1>8 DEF StartTurn, EndTurn, PrepareAnswer, SendAnswer, Finish, Fail,
                MarkUncertain, Recovers, Recover, CompleteUncertain,
                PrepareNotice, SendNotice, ActorPc, WorkingPc, At
  <2> QED
    BY <1>2, <1>3, <2>1
<1>9. HasEvent'
  BY <1>4, <1>5, <1>6, <1>7, <1>8
     DEF Next, Startups, Admissions, Works, vars, Actors, Start, Fence, Fenced,
         DeliverPrepared, ListUncertain, Open, AdmitRoot, RouteRoot,
         CancelRoot, AdmitReply, Age
<1> QED
  BY <1>1, <1>9

LEMMA TypedInit ==
  ASSUME Init
  PROVE  Typed
BY FS_EmptySet, WorkersAssumption
   DEF Init, Typed, TypeOK, HasEvent, NoRow, Row, JobStates, NoManifest,
       ManifestStates, Idle, ActorPc, ProcPc

LEMMA TypedStep ==
  ASSUME Typed, [Next]_vars
  PROVE  Typed'
<1>1. TypeOK /\ HasEvent /\ IsFiniteSet(seen)
  BY DEF Typed
<1>2. JobsTyped' /\ ManifestsTyped' /\ ActorsTyped'
  BY <1>1, TypeParts, JobsStep, ManifestsStep, ActorsStep
<1>3. ProcTyped' /\ SetsTyped' /\ CountsTyped'
  BY <1>1, ProcStep, SetsStep, CountsStep
<1>4. TypeOK'
  BY <1>2, <1>3, TypePartsNext
<1> QED
  BY <1>4, HoldsStep DEF Typed

-----------------------------------------------------------------------------
(* What a step does to the rows *)

KeepsOthers(e) == \A f \in Events \ {e} : jobs'[f] = jobs[f]

Admits(e) ==
  /\ Up
  /\ e \notin seen
  /\ seen' = seen \cup {e}
  /\ \A f \in Events \ {e} :
       jobs'[f] = IF Prunable(jobs, f) THEN NoRow ELSE jobs[f]
  /\ jobs'[e].state = "queued"
  /\ jobs'[e].thread = None
  /\ jobs'[e].ready <=> e \notin Roots
  /\ jobs'[e].policy = proc.policy
  /\ jobs'[e].at = Now
  /\ e \notin Roots => \E r \in Roots : jobs[r].thread = ThreadOf[e]
  /\ UNCHANGED <<proc, actor, turns, crossed>>

Routes(e) ==
  /\ KeepsOthers(e)
  /\ e \in Roots
  /\ jobs[e].state = "queued" /\ jobs'[e].state = "queued"
  /\ ~jobs[e].ready /\ jobs'[e].ready
  /\ jobs'[e].thread = ThreadOf[e]
  /\ jobs'[e].policy = jobs[e].policy
  /\ jobs'[e].at = jobs[e].at
  /\ UNCHANGED <<seen, crossed>>

TakesRow(e) ==
  /\ KeepsOthers(e)
  /\ NextClaimable(jobs, e, proc.policy)
  /\ jobs'[e].state = "running"
  /\ SameOrigin(jobs'[e], jobs[e])
  /\ UNCHANGED <<seen, crossed>>

Ends(e) ==
  /\ KeepsOthers(e)
  /\ SameOrigin(jobs'[e], jobs[e])
  /\ \/ /\ e \in Roots /\ jobs[e].state = "queued" /\ ~jobs[e].ready
        /\ jobs'[e].state = "cancelled"
     \/ jobs[e].state = "running" /\ jobs'[e].state \in {"completed", "uncertain"}
     \/ jobs[e].state = "uncertain" /\ jobs'[e].state = "completed"
  /\ UNCHANGED <<seen, crossed>>

Quarantines(p) ==
  /\ \A f \in Events :
       /\ SameOrigin(jobs'[f], jobs[f])
       /\ jobs'[f].state =
            IF jobs[f].policy # p /\ jobs[f].state = "queued" THEN "cancelled"
            ELSE IF jobs[f].policy # p /\ jobs[f].state = "running"
            THEN "uncertain" ELSE jobs[f].state
  /\ crossed' = crossed \cup {e \in Present(jobs) : jobs[e].policy # p}
  /\ UNCHANGED seen

Stays ==
  /\ \A f \in Events : /\ SameOrigin(jobs'[f], jobs[f])
                       /\ jobs'[f].state = jobs[f].state
  /\ UNCHANGED <<seen, crossed>>

RowStep ==
  \/ \E e \in Events : Admits(e) \/ Routes(e) \/ TakesRow(e) \/ Ends(e)
  \/ \E p \in Policies : Quarantines(p)
  \/ Stays

LEMMA RowSteps ==
  ASSUME Typed, [Next]_vars
  PROVE  RowStep
<1>0. /\ jobs \in [Events -> Row(Owners)]
      /\ Now \in Nat
      /\ proc.policy \in Policies \cup {None}
      /\ \A a \in Actors : OwnerOf(a) \in Owners
      /\ Startup \in Actors /\ Slots \subseteq Actors
  BY Now1, Owning DEF Typed, TypeOK, Owners, Actors
<1>1. ASSUME NEW p \in Policies, Start(p) PROVE Quarantines(p)
  BY <1>0, <1>1, QuarantinedRows DEF Start, Quarantines
<1>2. ASSUME NEW e \in Events, Fence(e) PROVE Ends(e)
  <2>1. jobs[e].state = "running"
    BY <1>2 DEF Fence, Abandoned, InState
  <2> QED
    BY <1>0, <1>2, <2>1, ReclaimedRows
       DEF Fence, Ends, KeepsOthers, history
<1>3. ASSUME NEW e \in Events, AdmitRoot(e) PROVE Admits(e)
  <2>1. PICK rdy \in BOOLEAN :
          /\ ~rdy
          /\ jobs' = Enqueued(jobs, e, rdy, proc.policy, Now)
    BY <1>3 DEF AdmitRoot
  <2> DEFINE K == Enqueued(jobs, e, rdy, proc.policy, Now)
  <2>3. /\ \A f \in Events \ {e} :
             K[f] = IF Prunable(jobs, f) THEN NoRow ELSE jobs[f]
        /\ K[e].state = "queued"
        /\ K[e].thread = None
        /\ K[e].ready = rdy
        /\ K[e].policy = proc.policy
        /\ K[e].at = Now
    BY <1>0, EnqueuedRows
  <2> HIDE DEF K
  <2> QED
    BY <1>3, <2>1, <2>3 DEF AdmitRoot, K, Admits, service, history
<1>4. ASSUME NEW e \in Events, AdmitReply(e) PROVE Admits(e)
  <2>1. PICK rdy \in BOOLEAN :
          /\ rdy
          /\ jobs' = Enqueued(jobs, e, rdy, proc.policy, Now)
    BY <1>4 DEF AdmitReply
  <2> DEFINE K == Enqueued(jobs, e, rdy, proc.policy, Now)
  <2>3. /\ \A f \in Events \ {e} :
             K[f] = IF Prunable(jobs, f) THEN NoRow ELSE jobs[f]
        /\ K[e].state = "queued"
        /\ K[e].thread = None
        /\ K[e].ready = rdy
        /\ K[e].policy = proc.policy
        /\ K[e].at = Now
    BY <1>0, EnqueuedRows
  <2> HIDE DEF K
  <2> QED
    BY <1>4, <2>1, <2>3 DEF AdmitReply, K, Admits, service, history
<1>5. ASSUME NEW e \in Events, RouteRoot(e) PROVE Routes(e)
  BY <1>0, <1>5, MadeReadyRows
     DEF RouteRoot, Routes, KeepsOthers, UnreadyRoots, InState, history
<1>6. ASSUME NEW e \in Events, CancelRoot(e) PROVE Ends(e)
  BY <1>0, <1>6, MovedRows
     DEF CancelRoot, Ends, KeepsOthers, UnreadyRoots, InState, JobStates,
         history
<1>7. ASSUME NEW s \in Slots, NEW e \in Events, Claim(s, e) PROVE TakesRow(e)
  BY <1>0, <1>7, ClaimedRows DEF Claim, TakesRow, KeepsOthers, history
<1>8. ASSUME NEW a \in Actors, Finish(a) \/ MarkUncertain(a) \/ CompleteUncertain(a)
      PROVE  Stays \/ \E e \in Events : Ends(e)
  <2> DEFINE e == actor[a].event
  <2>1. UNCHANGED <<seen, crossed>>
    BY <1>8 DEF Finish, MarkUncertain, CompleteUncertain, history
  <2>2. CASE jobs' = jobs
    BY <2>1, <2>2 DEF Stays, SameOrigin
  <2>3. CASE jobs' # jobs
    <3>1. /\ e \in Events
          /\ \/ /\ jobs[e].state = "running"
                /\ jobs' = Moved(jobs, e, "completed") \/ jobs' = Moved(jobs, e, "uncertain")
             \/ jobs[e].state = "uncertain" /\ jobs' = Moved(jobs, e, "completed")
      BY <1>8, <2>3 DEF Finish, MarkUncertain, CompleteUncertain, Owns,
         MayComplete, InState
    <3>2. "completed" \in JobStates /\ "uncertain" \in JobStates
      BY DEF JobStates
    <3>3. Ends(e)
      BY <1>0, <2>1, <3>1, <3>2, MovedRows DEF Ends, KeepsOthers
    <3> QED
      BY <3>1, <3>3
  <2> QED
    BY <2>2, <2>3
<1>9. ASSUME Age PROVE Stays
  BY <1>0, <1>9 DEF Age, Stays, SameOrigin, Row, history
<1>10. ASSUME UNCHANGED <<jobs, seen, crossed>> PROVE Stays
  BY <1>10 DEF Stays, SameOrigin
<1> QED
  BY <1>0, <1>1, <1>2, <1>3, <1>4, <1>5, <1>6, <1>7, <1>8, <1>9, <1>10
     DEF RowStep, Next, Startups, Admissions, Works, Recovers, vars, history,
         Fenced, DeliverPrepared, ListUncertain, Settle, Open, StartTurn,
         EndTurn, PrepareAnswer, SendAnswer, Fail, Recover, PrepareNotice,
         SendNotice, Stop

-----------------------------------------------------------------------------
(* The table *)

\* Only a root has a response thread, and no two roots have the same.
LEMMA RootOfThread ==
  ASSUME NEW e \in Roots, NEW f \in Roots, ThreadOf[e] = ThreadOf[f]
  PROVE  e = f
BY StoreAssumption

LEMMA TableStep ==
  ASSUME Typed, TableInv, RowStep
  PROVE  TableInv'
<1>0. /\ IsFiniteSet(seen)
      /\ \A e \in Events : RowOK(e) /\ jobs[e].at \in Nat
      /\ RootFirst
      /\ Roots \subseteq Events
  BY StoreAssumption DEF Typed, TypeOK, Row, TableInv
<1>1. ASSUME NEW e \in Events, Admits(e) PROVE TableInv'
  <2>1. /\ Cardinality(seen) \in Nat
        /\ Now = Cardinality(seen) + 1
        /\ Cardinality(seen') = Cardinality(seen) + 1
    BY <1>0, <1>1, FS_AddElement, FS_CardinalityType DEF Admits, Now
  <2>2. ASSUME NEW f \in Events PROVE RowOK(f)'
    <3>1. CASE f = e
      BY <1>1, <2>1, <3>1 DEF Admits, RowOK
    <3>2. CASE f # e /\ Prunable(jobs, f)
      BY <1>1, <3>2 DEF Admits, RowOK, NoRow
    <3>3. CASE f # e /\ ~Prunable(jobs, f)
      BY <1>0, <1>1, <2>1, <3>3 DEF Admits, RowOK
    <3> QED
      BY <3>1, <3>2, <3>3
  <2>3. ASSUME NEW f \in Events \ Roots, NEW r \in Roots,
               jobs'[f].state # "absent", ThreadOf[r] = ThreadOf[f]
        PROVE  r \in seen' /\ (jobs'[r].state = "absent" \/ jobs'[r].thread # None)
    <3>1. r \in seen /\ (jobs[r].state = "absent" \/ jobs[r].thread # None)
      <4>1. CASE f = e
        <5>1. PICK q \in Roots : jobs[q].thread = ThreadOf[e]
          BY <1>1, <2>3, <4>1 DEF Admits
        <5>2. ThreadOf[e] # None
          BY StoreAssumption
        <5>3. jobs[q].state # "absent" /\ jobs[q].thread = ThreadOf[q]
          BY <1>0, <5>1, <5>2 DEF RowOK
        <5>4. q = r
          BY <2>3, <4>1, <5>1, <5>3, RootOfThread
        <5> QED
          BY <1>0, <5>1, <5>2, <5>3, <5>4 DEF RowOK
      <4>2. CASE f # e
        <5>1. jobs[f].state # "absent"
          BY <1>1, <2>3, <4>2 DEF Admits, NoRow
        <5> QED
          BY <1>0, <2>3, <5>1 DEF RootFirst
      <4> QED
        BY <4>1, <4>2
    <3>2. r # e /\ r \in Events
      BY <1>0, <1>1, <3>1 DEF Admits
    <3> QED
      BY <1>1, <3>1, <3>2 DEF Admits, NoRow
  <2> QED
    BY <2>2, <2>3 DEF TableInv, RootFirst
<1>2. ASSUME NEW e \in Events, Routes(e) PROVE TableInv'
  <2>1. ThreadOf[e] # None
    BY StoreAssumption
  <2> QED
    BY <1>0, <1>2, <2>1 DEF Routes, KeepsOthers, TableInv, RowOK, RootFirst
<1>3. ASSUME NEW e \in Events, TakesRow(e) PROVE TableInv'
  <2>1. jobs[e].state = "queued" /\ jobs[e].ready
    BY <1>3 DEF TakesRow, NextClaimable, Claimable, InState
  <2>2. \A f \in Events : /\ SameOrigin(jobs'[f], jobs[f])
                          /\ jobs'[f].state = "absent" <=> jobs[f].state = "absent"
                          /\ jobs'[f].state = "queued" => jobs[f].state = "queued"
    BY <1>3, <2>1 DEF TakesRow, KeepsOthers, SameOrigin
  <2>3. seen' = seen
    BY <1>3 DEF TakesRow
  <2> QED
    BY <1>0, <2>2, <2>3 DEF SameOrigin, TableInv, RowOK, RootFirst
<1>4. ASSUME NEW e \in Events, Ends(e) PROVE TableInv'
  BY <1>0, <1>4 DEF Ends, KeepsOthers, SameOrigin, TableInv, RowOK, RootFirst
<1>5. ASSUME NEW p \in Policies, Quarantines(p) PROVE TableInv'
  BY <1>0, <1>5 DEF Quarantines, SameOrigin, TableInv, RowOK, RootFirst
<1>6. ASSUME Stays PROVE TableInv'
  BY <1>0, <1>6 DEF Stays, SameOrigin, TableInv, RowOK, RootFirst
<1> QED
  BY <1>1, <1>2, <1>3, <1>4, <1>5, <1>6 DEF RowStep

LEMMA ExclusiveStep ==
  ASSUME Typed, TableInv, Exclusive, RowStep
  PROVE  Exclusive'
<1> DEFINE Occupied(J, e) == J[e].state \in {"running", "uncertain"}
<1>0. Roots \subseteq Events
  BY StoreAssumption
<1>1. ASSUME NEW e \in Events, Admits(e) PROVE Exclusive'
  <2>1. \A f \in Events : Occupied(jobs', f) => jobs'[f] = jobs[f] /\ f # e
    BY <1>1 DEF Admits, NoRow
  <2> QED
    BY <2>1, DestinationIsThread DEF Exclusive, Destination
<1>2. ASSUME NEW e \in Events, Routes(e) PROVE Exclusive'
  <2>1. \A f \in Events : Occupied(jobs', f) => jobs'[f] = jobs[f] /\ f # e
    BY <1>2 DEF Routes, KeepsOthers
  <2> QED
    BY <2>1 DEF Exclusive, Destination
<1>3. ASSUME NEW e \in Events, TakesRow(e) PROVE Exclusive'
  <2>1. /\ jobs[e].policy = proc.policy
        /\ \A a \in Events : Occupied(jobs, a) /\ jobs[a].policy = proc.policy =>
             Destination(jobs, a) # Destination(jobs, e)
    BY <1>3 DEF TakesRow, NextClaimable, Claimable, InState
  <2>2. \A f \in Events : Occupied(jobs', f) => f = e \/ Occupied(jobs, f)
    BY <1>3 DEF TakesRow, KeepsOthers
  <2>3. \A f \in Events : /\ Destination(jobs', f) = Destination(jobs, f)
                          /\ jobs'[f].policy = jobs[f].policy
    BY <1>3 DEF TakesRow, KeepsOthers, SameOrigin, Destination
  <2> QED
    BY <2>1, <2>2, <2>3 DEF Exclusive
<1>4. ASSUME /\ \A f \in Events : Occupied(jobs', f) => Occupied(jobs, f)
             /\ \A f \in Events : SameOrigin(jobs'[f], jobs[f])
      PROVE  Exclusive'
  <2>1. \A f \in Events : /\ Destination(jobs', f) = Destination(jobs, f)
                          /\ jobs'[f].policy = jobs[f].policy
    BY <1>4 DEF SameOrigin, Destination
  <2> QED
    BY <1>4, <2>1 DEF Exclusive
<1>5. ASSUME NEW e \in Events, Ends(e) PROVE Exclusive'
  BY <1>4, <1>5 DEF Ends, KeepsOthers, SameOrigin
<1>6. ASSUME NEW p \in Policies, Quarantines(p) PROVE Exclusive'
  BY <1>4, <1>6 DEF Quarantines
<1>7. ASSUME Stays PROVE Exclusive'
  BY <1>4, <1>7 DEF Stays
<1> QED
  BY <1>1, <1>2, <1>3, <1>5, <1>6, <1>7 DEF RowStep

\* What is queued and released cannot be overtaken.
LEMMA OrderStep ==
  ASSUME Typed, TableInv, StrictOrder, RowStep
  PROVE  StrictOrder'
<1> DEFINE Waits(J, e) == J[e].state = "queued" /\ J[e].ready
           Elder(J, e, f) == /\ J[f].policy = J[e].policy
                             /\ Destination(J, e) = Destination(J, f)
                             /\ J[e].at < J[f].at
<1>0. /\ IsFiniteSet(seen) /\ Cardinality(seen) \in Nat
      /\ \A e \in Events : RowOK(e) /\ jobs[e].at \in Nat
      /\ RootFirst
      /\ Roots \subseteq Events
  BY StoreAssumption, FS_CardinalityType DEF Typed, TypeOK, Row, TableInv
<1>1. SUFFICES ASSUME NEW e \in Events, NEW f \in Events,
                      Waits(jobs', e), Elder(jobs', e, f),
                      jobs'[f].state # "absent", jobs'[f].state # "queued"
               PROVE  FALSE
  BY DEF StrictOrder
<1>2. Waits(jobs, e) /\ Elder(jobs, e, f) /\ jobs[f].state # "absent" =>
        jobs[f].state = "queued"
  BY DEF StrictOrder
<1>3. ASSUME NEW g \in Events, Admits(g) PROVE FALSE
  <2>1. f # g /\ jobs'[f] = jobs[f] /\ f \in seen /\ jobs[f].at <= Cardinality(seen)
    BY <1>0, <1>1, <1>3 DEF Admits, NoRow, RowOK
  <2>2. e # g
    BY <1>0, <1>1, <1>3, <2>1 DEF Admits, Now
  <2>3. jobs'[e] = jobs[e]
    BY <1>1, <1>3, <2>2 DEF Admits, NoRow
  <2> QED
    BY <1>1, <1>2, <2>1, <2>3 DEF Destination
<1>4. ASSUME NEW g \in Events, Routes(g) PROVE FALSE
  <2>1. f # g /\ jobs'[f] = jobs[f]
    BY <1>1, <1>4 DEF Routes, KeepsOthers
  <2>2. CASE e # g
    BY <1>1, <1>2, <1>4, <2>1, <2>2 DEF Routes, KeepsOthers, Destination
  <2>3. CASE e = g
    <3>1. /\ e \in Roots /\ jobs[e].state = "queued" /\ jobs[e].thread = None
          /\ ThreadOf[e] \in Threads /\ ThreadOf[e] # None
          /\ Destination(jobs', e) = ThreadOf[e]
      BY <1>0, <1>4, <2>3, StoreAssumption DEF Routes, RowOK, Destination
    <3>2. Destination(jobs, f) = ThreadOf[e]
      BY <1>1, <2>1, <3>1 DEF Destination
    <3>3. CASE f \notin Roots
      <4>1. ThreadOf[f] = ThreadOf[e]
        BY <1>0, <3>2, <3>3 DEF Destination, Channel, RowOK
      <4> QED
        BY <1>0, <1>1, <2>1, <3>1, <3>3, <4>1 DEF RootFirst
    <3>4. CASE f \in Roots
      <4>1. ThreadOf[f] = ThreadOf[e]
        BY <1>0, <3>1, <3>2, <3>4, StoreAssumption
        DEF Destination, Channel, RowOK
      <4> QED
        BY <2>1, <2>3, <3>1, <3>4, <4>1, RootOfThread
    <3> QED
      BY <3>3, <3>4
  <2> QED
    BY <2>2, <2>3
<1>5. ASSUME NEW g \in Events, TakesRow(g) PROVE FALSE
  <2>1. /\ jobs[g].state = "queued" /\ jobs[g].ready /\ jobs[g].policy = proc.policy
        /\ \A a \in InState(jobs, "running", proc.policy)
                      \cup InState(jobs, "uncertain", proc.policy) :
             Destination(jobs, a) # Destination(jobs, g)
        /\ \A h \in Events : Claimable(jobs, h, proc.policy) => jobs[g].at <= jobs[h].at
    BY <1>5 DEF TakesRow, NextClaimable, Claimable, InState
  <2>2. e # g /\ jobs'[e] = jobs[e]
    BY <1>1, <1>5 DEF TakesRow, KeepsOthers
  <2>3. Waits(jobs, e) /\ Elder(jobs, e, f) /\ jobs[f].state # "absent"
    BY <1>1, <1>5, <2>1, <2>2 DEF TakesRow, KeepsOthers, SameOrigin, Destination
  <2>4. f = g
    BY <1>1, <1>2, <1>5, <2>3 DEF TakesRow, KeepsOthers
  <2>5. Claimable(jobs, e, proc.policy)
    BY <2>1, <2>3, <2>4 DEF Claimable, InState
  <2>6. jobs[g].at <= jobs[e].at
    BY <2>1, <2>5
  <2> QED
    BY <1>0, <2>3, <2>4, <2>6
<1>6. ASSUME NEW g \in Events, Ends(g) PROVE FALSE
  <2>1. e # g /\ jobs'[e] = jobs[e]
    BY <1>1, <1>6 DEF Ends, KeepsOthers
  <2>2. Waits(jobs, e) /\ Elder(jobs, e, f) /\ jobs[f].state # "absent"
    BY <1>1, <1>6, <2>1 DEF Ends, KeepsOthers, SameOrigin, Destination
  <2>3. f = g /\ f \in Roots /\ jobs[f].state = "queued" /\ ~jobs[f].ready
    BY <1>1, <1>2, <1>6, <2>2 DEF Ends, KeepsOthers
  <2>4. Destination(jobs, f) = Listen
    BY <1>0, <2>3 DEF RowOK, Destination, Channel
  <2>5. Destination(jobs, e) \in Threads
    BY <1>0, <2>2, StoreAssumption DEF RowOK, Destination, Channel
  <2> QED
    BY <2>2, <2>4, <2>5, StoreAssumption
<1>7. ASSUME NEW p \in Policies, Quarantines(p) PROVE FALSE
  <2>1. Waits(jobs, e) /\ jobs[e].policy = p
    BY <1>1, <1>7 DEF Quarantines, SameOrigin
  <2>2. /\ Elder(jobs, e, f)
        /\ jobs[f].state # "absent" /\ jobs[f].state # "queued"
    BY <1>1, <1>7, <2>1 DEF Quarantines, SameOrigin, Destination
  <2> QED
    BY <1>2, <2>1, <2>2
<1>8. ASSUME Stays PROVE FALSE
  BY <1>1, <1>2, <1>8 DEF Stays, SameOrigin, Destination
<1> QED
  BY <1>3, <1>4, <1>5, <1>6, <1>7, <1>8 DEF RowStep

LEMMA CrossStep ==
  ASSUME Typed, TableInv, CrossInv, RowStep
  PROVE  CrossInv'
<1>0. crossed \subseteq Events /\ \A e \in Events : RowOK(e)
  BY DEF Typed, TypeOK, TableInv
<1>1. ASSUME NEW e \in Events, Admits(e) PROVE CrossInv'
  BY <1>0, <1>1 DEF Admits, CrossInv, NoRow
<1>2. ASSUME NEW e \in Events, Routes(e) \/ Ends(e) PROVE CrossInv'
  BY <1>0, <1>2 DEF Routes, Ends, KeepsOthers, CrossInv
<1>3. ASSUME NEW e \in Events, TakesRow(e) PROVE CrossInv'
  <2>1. jobs[e].state = "queued"
    BY <1>3 DEF TakesRow, NextClaimable, Claimable, InState
  <2> QED
    BY <1>0, <1>3, <2>1 DEF TakesRow, KeepsOthers, CrossInv
<1>4. ASSUME NEW p \in Policies, Quarantines(p) PROVE CrossInv'
  <2>1. \A e \in crossed' :
          \/ e \in crossed
          \/ e \in Events /\ jobs[e].state # "absent" /\ jobs[e].policy # p
    BY <1>4 DEF Quarantines, Present
  <2> QED
    BY <1>0, <1>4, <2>1 DEF Quarantines, CrossInv, RowOK
<1>5. ASSUME Stays PROVE CrossInv'
  BY <1>0, <1>5 DEF Stays, CrossInv
<1> QED
  BY <1>1, <1>2, <1>3, <1>4, <1>5 DEF RowStep

-----------------------------------------------------------------------------
(* The actors *)

LEMMA OwnsRow ==
  ASSUME NEW J, NEW e \in Events, NEW o, NEW g, NEW p
  PROVE  Owns(J, e, o, g, p) <=> /\ J[e].state = "running" /\ J[e].policy = p
                                 /\ J[e].owner = o /\ J[e].gen = g
BY DEF Owns, InState

\* A slot's part of the invariant is kept as long as its row is.
LEMMA SlotKept ==
  ASSUME Typed, NEW s \in Slots, SlotHolds(s),
         actor'[s] = actor[s], proc' = proc,
         actor[s].pc # "idle" => jobs'[actor[s].event] = jobs[actor[s].event]
  PROVE  SlotHolds(s)'
<1>1. actor[s].pc # "idle" => actor[s].event \in Events
  BY DEF Typed, HasEvent, Actors
<1>2. "idle" \notin WorkingPc \cup {"failed"} /\ "idle" \notin RecoveryPc
  BY DEF WorkingPc, RecoveryPc
<1> QED
  BY <1>1, <1>2, OwnsRow DEF SlotHolds, Up, OwnerOf

\* Before the workers are created no slot is at work; afterwards the startup
\* reconciliation is over.
LEMMA Phases ==
  ASSUME ActorInv
  PROVE  /\ ~Up => \A s \in Slots : actor[s].pc = "idle"
         /\ proc.pc # "settling" => actor[Startup].pc = "idle"
BY DEF ActorInv, SlotHolds, StartupHolds

\* An idle slot holds nothing.
LEMMA AllIdle ==
  ASSUME \A s \in Slots : actor'[s].pc = "idle"
  PROVE  (\A s \in Slots : SlotHolds(s)') /\ OneSlotPerJob'
BY DEF SlotHolds, OneSlotPerJob, WorkingPc, RecoveryPc

\* While the bridge starts.
LEMMA StartupsKeepActors ==
  ASSUME Typed, ActorInv, Startups
  PROVE  ActorInv'
<1>0. /\ ~Up
      /\ \A s \in Slots : actor[s].pc = "idle"
      /\ proc.pc # "settling" => actor[Startup].pc = "idle"
      /\ StartupHolds
      /\ actor \in [Actors -> ActorRecord]
      /\ \A s \in Slots : s \in Actors /\ s # Startup
      /\ Startup \in Actors
      /\ \A a \in Actors : actor[a].pc # "idle" => actor[a].event \in Events
  <2>1. ~Up
    BY DEF Startups, Start, Fence, Fenced, DeliverPrepared, ListUncertain,
           Settle, Open, Up
  <2> QED
    BY <2>1, Phases, WorkersAssumption
       DEF ActorInv, Actors, Typed, TypeOK, HasEvent, ActorRecord
<1>1. \A s \in Slots : actor'[s].pc = "idle"
  BY <1>0 DEF Startups, Start, Fence, Fenced, DeliverPrepared, ListUncertain,
              Settle, Open, ActorRecord
<1>2. StartupHolds'
  <2>1. ASSUME NEW p \in Policies, Start(p) PROVE StartupHolds'
    BY <1>0, <2>1 DEF Start, StartupHolds
  <2>2. ASSUME NEW e \in Events, Fence(e) PROVE StartupHolds'
    BY <1>0, <2>2 DEF Fence, StartupHolds, service
  <2>3. ASSUME Fenced PROVE StartupHolds'
    <3>1. proc'.pc = "delivering"
      BY <2>3 DEF Fenced, Typed, TypeOK
    <3> QED
      BY <1>0, <2>3, <3>1 DEF Fenced, StartupHolds, Incomplete, outbox
  <2>4. ASSUME NEW k \in Keys, DeliverPrepared(k) PROVE StartupHolds'
    <3>1. PICK o \in Outcomes(manifest[k].st) : Delivers(k, o)
      BY <2>4 DEF DeliverPrepared
    <3>2. \A j \in Keys \ {k} : manifest'[j] = manifest[j]
      BY <3>1, Delivering DEF Typed
    <3> QED
      BY <1>0, <2>4, <3>2 DEF DeliverPrepared, StartupHolds
  <2>5. ASSUME ListUncertain PROVE StartupHolds'
    <3>1. proc'.pc = "settling"
      BY <2>5 DEF ListUncertain, Typed, TypeOK
    <3> QED
      BY <1>0, <2>5, <3>1 DEF ListUncertain, StartupHolds, InState
  <2>6. ASSUME NEW e \in Events, Settle(e) PROVE StartupHolds'
    <3>1. /\ actor'[Startup].pc \in RecoveryPc
          /\ actor'[Startup].event = e
      BY <1>0, <2>6 DEF Settle, RecoveryPc
    <3>2. jobs[e].state = "uncertain"
      BY <1>0, <2>6 DEF Settle, StartupHolds
    <3> QED
      BY <1>0, <2>6, <3>1, <3>2 DEF Settle, StartupHolds
  <2>7. ASSUME Open PROVE StartupHolds'
    <3>1. proc'.pc = "up"
      BY <2>7 DEF Open, Typed, TypeOK
    <3> QED
      BY <1>0, <2>7, <3>1 DEF Open, StartupHolds, At
  <2> QED
    BY <2>1, <2>2, <2>3, <2>4, <2>5, <2>6, <2>7 DEF Startups
<1> QED
  BY <1>1, <1>2, AllIdle DEF ActorInv

\* An actor that keeps its job leaves the others alone.
LEMMA SameJobs ==
  ASSUME OneSlotPerJob,
         \A s \in Slots : actor'[s].pc # "idle" =>
           actor[s].pc # "idle" /\ actor'[s].event = actor[s].event
  PROVE  OneSlotPerJob'
BY DEF OneSlotPerJob

LEMMA AdmissionsKeepActors ==
  ASSUME Typed, TableInv, ActorInv, [Next]_vars, Admissions
  PROVE  ActorInv'
<1>1. /\ Up /\ proc' = proc /\ actor' = actor
      /\ \A s \in Slots : s \in Actors
      /\ actor[Startup].pc = "idle"
  BY Phases DEF Admissions, AdmitRoot, RouteRoot, CancelRoot, AdmitReply,
                service, Up, Actors
<1>2. ASSUME NEW s \in Slots, actor[s].pc # "idle"
      PROVE  jobs'[actor[s].event] = jobs[actor[s].event]
  <2> DEFINE f == actor[s].event
  <2>1. /\ f \in Events
        /\ actor[s].pc \in ActorPc
        /\ SlotHolds(s)
        /\ jobs \in [Events -> Row(Owners)]
    BY <1>1, <1>2 DEF Typed, TypeOK, HasEvent, ActorInv, Owners
  <2>2. \/ jobs[f].state = "running"
        \/ jobs[f].state = "uncertain" /\ ~jobs[f].old
    BY <1>2, <2>1, OwnsRow DEF SlotHolds, ActorPc, RecoveryPc
  <2>3. f \in seen /\ ~Prunable(jobs, f)
    BY <2>1, <2>2 DEF TableInv, RowOK, Prunable, TerminalStates
  <2>4. ASSUME NEW e \in Events, AdmitRoot(e) \/ AdmitReply(e)
        PROVE  jobs'[f] = jobs[f]
    <3>1. e # f
      BY <2>3, <2>4 DEF AdmitRoot, AdmitReply
    <3>2. Now \in Nat /\ proc.policy \in Policies \cup {None}
      BY Now1 DEF Typed, TypeOK
    <3>3. PICK rdy \in BOOLEAN : jobs' = Enqueued(jobs, e, rdy, proc.policy, Now)
      BY <2>4 DEF AdmitRoot, AdmitReply
    <3> QED
      BY <2>1, <2>3, <3>1, <3>2, <3>3, EnqueuedRows
  <2>5. ASSUME NEW e \in Events, RouteRoot(e) \/ CancelRoot(e)
        PROVE  jobs'[f] = jobs[f]
    <3>1. e # f
      BY <2>2, <2>5 DEF RouteRoot, CancelRoot, UnreadyRoots, InState
    <3>2. "cancelled" \in JobStates
      BY DEF JobStates
    <3> QED
      BY <2>1, <2>5, <3>1, <3>2, MadeReadyRows, MovedRows
      DEF RouteRoot, CancelRoot
  <2> QED
    BY <2>4, <2>5 DEF Admissions
<1>3. \A s \in Slots : SlotHolds(s)'
  BY <1>1, <1>2, SlotKept DEF ActorInv
<1>4. StartupHolds'
  BY <1>1 DEF StartupHolds, Up
<1> QED
  BY <1>1, <1>3, <1>4, SameJobs DEF ActorInv

LEMMA ClaimKeepsActors ==
  ASSUME Typed, ActorInv, NEW s \in Slots, NEW e \in Events, Claim(s, e)
  PROVE  ActorInv'
<1>0. /\ jobs \in [Events -> Row(Owners)]
      /\ jobs[e].gen \in Nat /\ jobs[e].gen + 1 \in Nat
      /\ s \in Actors /\ Startup \in Actors /\ Startup # s
      /\ \A t \in Slots : t \in Actors
      /\ OwnerOf(s) \in Owners
      /\ "claimed" \in ActorPc
  BY Owning, WorkersAssumption
     DEF Typed, TypeOK, Owners, Row, Actors, ActorPc, WorkingPc
<1>1. /\ Up /\ proc' = proc
      /\ actor[Startup].pc = "idle" /\ actor[s].pc = "idle"
      /\ jobs[e].state = "queued" /\ jobs[e].policy = proc.policy
  BY Phases DEF Claim, service, Up, At, NextClaimable, Claimable, InState
<1>2. /\ \A b \in Actors \ {s} : actor'[b] = actor[b]
      /\ actor'[s].pc = "claimed"
      /\ actor'[s].event = e
      /\ actor'[s].gen = jobs[e].gen + 1
  BY <1>0, Taking DEF Claim, Typed
<1>3. /\ \A f \in Events \ {e} : jobs'[f] = jobs[f]
      /\ jobs'[e].state = "running"
      /\ jobs'[e].owner = OwnerOf(s)
      /\ jobs'[e].gen = jobs[e].gen + 1
      /\ jobs'[e].policy = proc.policy
  BY <1>0, <1>1, ClaimedRows DEF Claim, SameOrigin
<1>4. ASSUME NEW t \in Slots, t # s, actor[t].pc # "idle"
      PROVE  actor[t].event \in Events \ {e}
  <2>1. actor[t].event \in Events /\ SlotHolds(t) /\ actor[t].pc \in ActorPc
    BY <1>0, <1>4 DEF Typed, TypeOK, HasEvent, ActorInv
  <2>2. jobs[actor[t].event].state \in {"running", "uncertain"}
    BY <1>4, <2>1, OwnsRow DEF SlotHolds, ActorPc, RecoveryPc
  <2> QED
    BY <1>1, <2>1, <2>2
<1>5. ASSUME NEW t \in Slots PROVE SlotHolds(t)'
  <2>1. CASE t = s
    <3>1. Owns(jobs', e, OwnerOf(s)', actor'[s].gen, proc'.policy)
      BY <1>1, <1>2, <1>3, OwnsRow DEF OwnerOf
    <3> QED
      BY <1>1, <1>2, <2>1, <3>1 DEF SlotHolds, Up, RecoveryPc
  <2>2. CASE t # s
    <3>1. actor'[t] = actor[t] /\ SlotHolds(t)
      BY <1>0, <1>2, <2>2 DEF ActorInv
    <3> QED
      BY <1>1, <1>3, <1>4, <2>2, <3>1, SlotKept
  <2> QED
    BY <2>1, <2>2
<1>6. StartupHolds'
  BY <1>0, <1>1, <1>2 DEF StartupHolds, Up
<1>7. OneSlotPerJob'
  BY <1>0, <1>2, <1>4 DEF ActorInv, OneSlotPerJob
<1> QED
  BY <1>5, <1>6, <1>7 DEF ActorInv

\* A slot goes on with its job, or gives it up, and the rows stay.
LEMMA SlotGoesOn ==
  ASSUME Typed, ActorInv, NEW s \in Slots, UNCHANGED <<jobs, proc>>,
         \/ Rests(s)
         \/ \E to \in WorkingPc \cup {"failed"} :
              actor[s].pc \in WorkingPc \cup {"failed"} /\ Goes(s, to)
         \/ \E to \in RecoveryPc : actor[s].pc \in RecoveryPc /\ Goes(s, to),
         actor[s].pc # "idle"
  PROVE  ActorInv'
<1>0. /\ s \in Actors /\ Startup \in Actors /\ Startup # s
      /\ \A t \in Slots : t \in Actors
      /\ WorkingPc \cup {"failed"} \subseteq ActorPc
      /\ RecoveryPc \subseteq ActorPc
  BY WorkersAssumption DEF Actors, ActorPc, RecoveryPc
<1>1. /\ \A b \in Actors \ {s} : actor'[b] = actor[b]
      /\ actor'[s].pc # "idle" =>
           /\ actor'[s].event = actor[s].event
           /\ actor'[s].gen = actor[s].gen
           /\ \/ /\ actor'[s].pc \in WorkingPc \cup {"failed"}
                 /\ actor[s].pc \in WorkingPc \cup {"failed"}
              \/ actor'[s].pc \in RecoveryPc /\ actor[s].pc \in RecoveryPc
  BY <1>0, Going, Resting DEF Typed
<1>2. Up /\ SlotHolds(s) /\ actor[s].event \in Events
  BY <1>0 DEF ActorInv, SlotHolds, Typed, HasEvent
<1>3. SlotHolds(s)'
  <2>1. CASE actor'[s].pc = "idle"
    BY <2>1 DEF SlotHolds, WorkingPc, RecoveryPc
  <2>2. CASE actor'[s].pc # "idle"
    <3>1. \A to \in RecoveryPc : to \notin WorkingPc \cup {"failed"}
      BY DEF RecoveryPc, WorkingPc
    <3> QED
      BY <1>1, <1>2, <2>2, <3>1, OwnsRow DEF SlotHolds, Up, OwnerOf
  <2> QED
    BY <2>1, <2>2
<1>4. ASSUME NEW t \in Slots, t # s PROVE SlotHolds(t)'
  <2>1. actor'[t] = actor[t] /\ SlotHolds(t) /\ proc' = proc /\ jobs' = jobs
    BY <1>0, <1>1, <1>4 DEF ActorInv
  <2> QED
    BY <2>1, SlotKept
<1>5. StartupHolds'
  <2>1. actor'[Startup].pc = "idle" /\ proc'.pc = "up"
    BY <1>0, <1>1, <1>2, Phases DEF Up
  <2> QED
    BY <2>1 DEF StartupHolds
<1>6. OneSlotPerJob'
  <2>1. \A t \in Slots : actor'[t].pc # "idle" =>
          actor[t].pc # "idle" /\ actor'[t].event = actor[t].event
    BY <1>0, <1>1
  <2> QED
    BY <2>1, SameJobs DEF ActorInv
<1> QED
  BY <1>3, <1>4, <1>5, <1>6 DEF ActorInv

\* A slot moves its row to a terminal state, and rests or goes on to recover
\* or report an uncertain job.
LEMMA SlotEnds ==
  ASSUME Typed, ActorInv, NEW s \in Slots, UNCHANGED proc,
         actor[s].pc # "idle",
         NEW st \in TerminalStates, jobs' = Moved(jobs, actor[s].event, st),
         \/ Rests(s)
         \/ st = "uncertain" /\ \E to \in RecoveryPc : Goes(s, to)
  PROVE  ActorInv'
<1> DEFINE e == actor[s].event
<1>0. /\ s \in Actors /\ Startup \in Actors /\ Startup # s
      /\ \A t \in Slots : t \in Actors
      /\ RecoveryPc \subseteq ActorPc
      /\ e \in Events /\ Up
      /\ jobs \in [Events -> Row(Owners)]
      /\ st \in JobStates
  BY WorkersAssumption
     DEF Actors, ActorPc, RecoveryPc, Typed, TypeOK, HasEvent, ActorInv,
         SlotHolds, Owners, TerminalStates, JobStates
<1>1. /\ \A b \in Actors \ {s} : actor'[b] = actor[b]
      /\ actor'[s].pc # "idle" =>
           actor'[s].event = e /\ actor'[s].pc \in RecoveryPc /\ st = "uncertain"
  BY <1>0, Going, Resting DEF Typed
<1>2. /\ \A f \in Events \ {e} : jobs'[f] = jobs[f]
      /\ jobs'[e].state = st
      /\ ~jobs'[e].old
  BY <1>0, MovedRows
<1>3. SlotHolds(s)'
  <2>1. \A to \in RecoveryPc : to \notin WorkingPc \cup {"failed"}
    BY DEF RecoveryPc, WorkingPc
  <2> QED
    BY <1>0, <1>1, <1>2, <2>1 DEF SlotHolds, Up, WorkingPc, RecoveryPc
<1>4. ASSUME NEW t \in Slots, t # s PROVE SlotHolds(t)'
  <2>1. actor'[t] = actor[t] /\ SlotHolds(t) /\ proc' = proc
    BY <1>0, <1>1, <1>4 DEF ActorInv
  <2>2. actor[t].pc # "idle" => actor[t].event \in Events \ {e}
    BY <1>0, <1>4 DEF ActorInv, OneSlotPerJob, Typed, HasEvent
  <2> QED
    BY <1>2, <2>1, <2>2, SlotKept
<1>5. StartupHolds'
  <2>1. actor'[Startup].pc = "idle" /\ proc'.pc = "up"
    BY <1>0, <1>1, Phases DEF Up
  <2> QED
    BY <2>1 DEF StartupHolds
<1>6. OneSlotPerJob'
  <2>1. \A t \in Slots : actor'[t].pc # "idle" =>
          actor[t].pc # "idle" /\ actor'[t].event = actor[t].event
    BY <1>0, <1>1
  <2> QED
    BY <2>1, SameJobs DEF ActorInv
<1> QED
  BY <1>3, <1>4, <1>5, <1>6 DEF ActorInv

LEMMA SlotsKeepActors ==
  ASSUME Typed, ActorInv, NEW s \in Slots,
         \/ StartTurn(s) \/ EndTurn(s) \/ PrepareAnswer(s) \/ SendAnswer(s)
         \/ Finish(s) \/ Fail(s) \/ MarkUncertain(s) \/ Recovers(s)
  PROVE  ActorInv'
<1>1. actor[s].pc # "idle" /\ proc' = proc
  BY DEF StartTurn, EndTurn, PrepareAnswer, SendAnswer, Finish, Fail,
         MarkUncertain, Recovers, Recover, CompleteUncertain, PrepareNotice,
         SendNotice, service, At
<1>2. ASSUME StartTurn(s) \/ EndTurn(s) \/ PrepareAnswer(s) \/ SendAnswer(s) \/ Fail(s)
      PROVE  ActorInv'
  <2>1. /\ jobs' = jobs
        /\ \E to \in WorkingPc \cup {"failed"} :
             actor[s].pc \in WorkingPc \cup {"failed"} /\ Goes(s, to)
    BY <1>2 DEF StartTurn, EndTurn, PrepareAnswer, SendAnswer, Fail, At,
       WorkingPc
  <2> QED
    BY <1>1, <2>1, SlotGoesOn
<1>3. ASSUME Finish(s) PROVE ActorInv'
  <2>1. CASE jobs' = Moved(jobs, actor[s].event, "completed") /\ Rests(s)
    <3>1. "completed" \in TerminalStates
      BY DEF TerminalStates
    <3> QED
      BY <1>1, <2>1, <3>1, SlotEnds
  <2>2. CASE jobs' = jobs /\ Goes(s, "failed")
    <3>1. actor[s].pc \in WorkingPc
      BY <1>3 DEF Finish, At, WorkingPc
    <3> QED
      BY <1>1, <2>2, <3>1, SlotGoesOn
  <2> QED
    BY <1>3, <2>1, <2>2 DEF Finish
<1>4. ASSUME MarkUncertain(s) PROVE ActorInv'
  <2>1. CASE /\ jobs' = Moved(jobs, actor[s].event, "uncertain")
             /\ \E to \in RecoveryPc : Goes(s, to)
    <3>1. "uncertain" \in TerminalStates
      BY DEF TerminalStates
    <3> QED
      BY <1>1, <2>1, <3>1, SlotEnds
  <2>2. CASE jobs' = jobs /\ Rests(s)
    BY <1>1, <2>2, SlotGoesOn
  <2> QED
    BY <1>4, <2>1, <2>2 DEF MarkUncertain, RecoveryPc
<1>5. ASSUME Recover(s) \/ PrepareNotice(s) \/ SendNotice(s) PROVE ActorInv'
  <2>1. /\ jobs' = jobs
        /\ \/ Rests(s)
           \/ \E to \in RecoveryPc : actor[s].pc \in RecoveryPc /\ Goes(s, to)
    BY <1>5 DEF Recover, PrepareNotice, SendNotice, At, RecoveryPc
  <2> QED
    BY <1>1, <2>1, SlotGoesOn
<1>6. ASSUME CompleteUncertain(s) PROVE ActorInv'
  <2>1. CASE jobs' = Moved(jobs, actor[s].event, "completed") /\ Rests(s)
    <3>1. "completed" \in TerminalStates
      BY DEF TerminalStates
    <3> QED
      BY <1>1, <2>1, <3>1, SlotEnds
  <2>2. CASE jobs' = jobs /\ Goes(s, "notify")
    <3>1. actor[s].pc \in RecoveryPc /\ "notify" \in RecoveryPc
      BY <1>6 DEF CompleteUncertain, At, RecoveryPc
    <3> QED
      BY <1>1, <2>2, <3>1, SlotGoesOn
  <2> QED
    BY <1>6, <2>1, <2>2 DEF CompleteUncertain
<1> QED
  BY <1>2, <1>3, <1>4, <1>5, <1>6 DEF Recovers

LEMMA StartupRecoveryKeepsActors ==
  ASSUME Typed, ActorInv, Recovers(Startup)
  PROVE  ActorInv'
<1> DEFINE e == actor[Startup].event
<1>0. /\ Startup \in Actors
      /\ \A t \in Slots : t \in Actors \ {Startup}
      /\ RecoveryPc \subseteq ActorPc
      /\ jobs \in [Events -> Row(Owners)]
      /\ "completed" \in JobStates
  BY WorkersAssumption
     DEF Actors, ActorPc, RecoveryPc, Typed, TypeOK, Owners, JobStates
<1>1. /\ actor[Startup].pc # "idle" /\ proc' = proc /\ todo' = todo
      /\ Rests(Startup) \/ \E to \in RecoveryPc : Goes(Startup, to)
      /\ \/ jobs' = jobs
         \/ jobs' = Moved(jobs, e, "completed") /\ Rests(Startup)
  BY DEF Recovers, Recover, CompleteUncertain, PrepareNotice, SendNotice, At,
         RecoveryPc, service
<1>2. /\ e \in Events
      /\ proc.pc = "settling"
      /\ jobs[e].state = "uncertain"
      /\ e \notin todo
      /\ \A f \in todo \cap Events : jobs[f].state = "uncertain"
  BY <1>0, <1>1 DEF ActorInv, StartupHolds, Typed, HasEvent
<1>3. /\ \A b \in Actors \ {Startup} : actor'[b] = actor[b]
      /\ actor'[Startup].pc # "idle" =>
           actor'[Startup].event = e /\ actor'[Startup].pc \in RecoveryPc
      /\ Rests(Startup) => actor'[Startup].pc = "idle"
  BY <1>0, <1>1, Going, Resting DEF Typed
<1>4. \A f \in Events \ {e} : jobs'[f] = jobs[f]
  BY <1>0, <1>1, <1>2, MovedRows
<1>5. \A s \in Slots : actor'[s].pc = "idle"
  BY <1>0, <1>2, <1>3, Phases DEF Up
<1>6. StartupHolds'
  <2>1. actor'[Startup].pc # "idle" => jobs' = jobs
    BY <1>1, <1>3
  <2> QED
    BY <1>1, <1>2, <1>3, <1>4, <2>1 DEF StartupHolds
<1> QED
  BY <1>5, <1>6, AllIdle DEF ActorInv

LEMMA ActorStep ==
  ASSUME Typed, TableInv, ActorInv, [Next]_vars
  PROVE  ActorInv'
<1>0. \A s \in Slots : s \in Actors
  BY DEF Actors
<1>1. ASSUME Age PROVE ActorInv'
  <2>1. /\ \A s \in Slots : actor'[s].pc = "idle"
        /\ actor'[Startup].pc = "idle"
        /\ proc' = proc /\ proc.pc \in {"down", "up"}
    BY <1>1 DEF Age, At, Actors, service
  <2>2. StartupHolds'
    BY <2>1 DEF StartupHolds
  <2> QED
    BY <2>1, <2>2, AllIdle DEF ActorInv
<1>2. ASSUME Stop PROVE ActorInv'
  <2>1. /\ \A s \in Slots : actor'[s].pc = "idle"
        /\ actor'[Startup].pc = "idle"
    BY <1>0, <1>2 DEF Stop, Idle, Actors
  <2>2. proc'.pc = "down"
    BY <1>2 DEF Stop, Typed, TypeOK
  <2>3. StartupHolds'
    BY <2>1, <2>2 DEF StartupHolds
  <2> QED
    BY <2>1, <2>3, AllIdle DEF ActorInv
<1>3. ASSUME UNCHANGED vars PROVE ActorInv'
  BY <1>3 DEF vars, ActorInv, SlotHolds, StartupHolds, OneSlotPerJob, Owns,
              InState, Up, OwnerOf
<1>4. ASSUME NEW a \in Actors, Recovers(a) PROVE ActorInv'
  BY <1>4, SlotsKeepActors, StartupRecoveryKeepsActors DEF Actors
<1>5. ASSUME NEW s \in Slots, Works(s) PROVE ActorInv'
  BY <1>5, ClaimKeepsActors, SlotsKeepActors DEF Works
<1> QED
  BY <1>1, <1>2, <1>3, <1>4, <1>5, StartupsKeepActors, AdmissionsKeepActors
     DEF Next

-----------------------------------------------------------------------------
(* Turns *)

\* No step but Claim puts a slot at "claimed".
LEMMA NobodyElseClaims ==
  ASSUME Typed, [Next]_vars,
         ~\E s \in Slots, e \in Events : Claim(s, e)
  PROVE  \A s \in Slots : actor'[s].pc = "claimed" => actor'[s] = actor[s]
<1>0. /\ \A s \in Slots : s \in Actors
      /\ "claimed" # "idle"
  BY DEF Actors
<1>1. ASSUME NEW a \in Actors, Rests(a)
      PROVE  \A s \in Slots : actor'[s].pc = "claimed" => actor'[s] = actor[s]
  BY <1>0, <1>1, Resting DEF Typed
<1>2. ASSUME NEW a \in Actors, NEW to \in ActorPc \ {"claimed"}, Goes(a, to)
      PROVE  \A s \in Slots : actor'[s].pc = "claimed" => actor'[s] = actor[s]
  BY <1>0, <1>2, Going DEF Typed
<1>3. ASSUME NEW a \in Actors,
             \/ StartTurn(a) \/ EndTurn(a) \/ PrepareAnswer(a) \/ SendAnswer(a)
             \/ Finish(a) \/ Fail(a) \/ MarkUncertain(a) \/ Recovers(a)
      PROVE  \A s \in Slots : actor'[s].pc = "claimed" => actor'[s] = actor[s]
  <2>1. Rests(a) \/ \E to \in ActorPc \ {"claimed"} : Goes(a, to)
    BY <1>3 DEF StartTurn, EndTurn, PrepareAnswer, SendAnswer, Finish, Fail,
                MarkUncertain, Recovers, Recover, CompleteUncertain,
                PrepareNotice, SendNotice, ActorPc, WorkingPc
  <2> QED
    BY <1>1, <1>2, <2>1
<1>4. ASSUME NEW e \in Events, Settle(e)
      PROVE  \A s \in Slots : actor'[s].pc = "claimed" => actor'[s] = actor[s]
  BY <1>0, <1>4, WorkersAssumption DEF Settle, Typed, TypeOK
<1>5. ASSUME Stop
      PROVE  \A s \in Slots : actor'[s].pc = "claimed" => actor'[s] = actor[s]
  BY <1>0, <1>5 DEF Stop, Idle
<1> QED
  BY <1>0, <1>3, <1>4, <1>5
     DEF Next, Startups, Admissions, Works, vars, Start, Fence, Fenced,
         DeliverPrepared, ListUncertain, Open, AdmitRoot, RouteRoot,
         CancelRoot, AdmitReply, Age

\* No row goes back to the queue.
LEMMA NobodyRequeues ==
  ASSUME RowStep, NEW e \in Events, jobs'[e].state = "queued"
  PROVE  jobs[e].state = "queued" \/ Admits(e)
<1>1. ASSUME NEW f \in Events, Admits(f), f # e PROVE jobs[e].state = "queued"
  BY <1>1 DEF Admits, NoRow
<1>2. ASSUME NEW f \in Events, Routes(f) \/ TakesRow(f) \/ Ends(f)
      PROVE  jobs[e].state = "queued"
  BY <1>2 DEF Routes, TakesRow, Ends, KeepsOthers
<1>3. ASSUME NEW p \in Policies, Quarantines(p) PROVE jobs[e].state = "queued"
  BY <1>3 DEF Quarantines
<1>4. ASSUME Stays PROVE jobs[e].state = "queued"
  BY <1>4 DEF Stays
<1> QED
  BY <1>1, <1>2, <1>3, <1>4 DEF RowStep

LEMMA TurnStep ==
  ASSUME Typed, TableInv, ActorInv, TurnInv, RowStep, [Next]_vars
  PROVE  TurnInv'
<1>0. /\ \A s \in Slots : s \in Actors
      /\ turns \in [Events -> Nat]
      /\ \A e \in Events : RowOK(e)
  BY DEF Typed, TypeOK, TableInv, Actors
<1>1. seen \subseteq seen'
  BY DEF RowStep, Admits, Routes, TakesRow, Ends, Quarantines, Stays
<1>2. ASSUME NEW e \in Events, turns[e] > 0 PROVE jobs'[e].state # "queued"
  BY <1>0, <1>2, NobodyRequeues DEF TurnInv, Admits
<1>3. ASSUME NEW s \in Slots, NEW e \in Events, Claim(s, e) PROVE TurnInv'
  <2>1. /\ turns' = turns
        /\ ~(turns[e] > 0)
        /\ \A t \in Slots \ {s} : actor'[t] = actor[t]
        /\ actor'[s].event = e
    BY <1>0, <1>3 DEF Claim, history, NextClaimable, Claimable, InState,
                      TurnInv, Typed, TypeOK
  <2> QED
    BY <1>1, <1>2, <2>1 DEF TurnInv
<1>4. ASSUME NEW s \in Slots, StartTurn(s) PROVE TurnInv'
  <2> DEFINE e == actor[s].event
  <2>1. /\ e \in Events /\ actor[s].pc = "claimed"
        /\ jobs[e].state = "running" /\ e \in seen
        /\ jobs' = jobs /\ seen' = seen
    <3>1. e \in Events /\ actor[s].pc = "claimed" /\ SlotHolds(s)
      BY <1>0, <1>4 DEF StartTurn, At, Typed, HasEvent, ActorInv
    <3>2. jobs[e].state = "running"
      BY <3>1, OwnsRow DEF SlotHolds, WorkingPc
    <3> QED
      BY <1>0, <1>4, <3>1, <3>2 DEF StartTurn, RowOK
  <2>2. turns[e] = 0
    <3>1. ~(turns[e] > 0)
      BY <2>1 DEF TurnInv
    <3>2. turns[e] \in Nat
      BY <1>0, <2>1
    <3> QED
      BY <3>1, <3>2
  <2>3. turns'[e] = 1 /\ \A f \in Events \ {e} : turns'[f] = turns[f]
    <3>1. turns' = [turns EXCEPT ![e] = turns[e] + 1]
      BY <1>4, Zenon DEF StartTurn
    <3> QED
      BY <1>0, <2>1, <2>2, <3>1
  <2>4. ASSUME NEW t \in Slots, actor'[t].pc = "claimed"
        PROVE  actor'[t] = actor[t] /\ actor[t].event # e
    <3>1. /\ actor'[s].pc = "turn"
          /\ \A b \in Actors \ {s} : actor'[b] = actor[b]
      BY <1>0, <1>4, Going DEF StartTurn, Typed, ActorPc, WorkingPc
    <3>2. t # s /\ actor'[t] = actor[t]
      BY <1>0, <2>4, <3>1
    <3> QED
      BY <2>1, <2>4, <3>2 DEF ActorInv, OneSlotPerJob
  <2> QED
    BY <2>1, <2>2, <2>3, <2>4 DEF TurnInv
<1>5. ASSUME ~\E s \in Slots, e \in Events : Claim(s, e),
             ~\E s \in Slots : StartTurn(s)
      PROVE  TurnInv'
  <2>1. turns' = turns
    BY <1>5
       DEF Next, Startups, Admissions, Works, Recovers, vars, history, Start,
           Fence, Fenced, DeliverPrepared, ListUncertain, Settle, Open,
           AdmitRoot, RouteRoot, CancelRoot, AdmitReply, EndTurn,
           PrepareAnswer, SendAnswer, Finish, Fail, MarkUncertain, Recover,
           CompleteUncertain, PrepareNotice, SendNotice, Age, Stop
  <2>2. \A s \in Slots : actor'[s].pc = "claimed" => actor'[s] = actor[s]
    BY <1>5, NobodyElseClaims
  <2> QED
    BY <1>1, <1>2, <2>1, <2>2 DEF TurnInv
<1> QED
  BY <1>3, <1>4, <1>5

-----------------------------------------------------------------------------
(* What is shown *)

AnswerOf(e) == <<e, "answer">>

LEMMA AnswerKeys ==
  /\ \A e \in Events : AnswerOf(e) \in Keys /\ <<e, "notice">> \in Keys
  /\ \A e, f \in Events : AnswerOf(e) # <<f, "notice">>
  /\ \A e, f \in Events : AnswerOf(e) = AnswerOf(f) => e = f
BY DEF AnswerOf, Keys, Kinds

\* A manifest that a step leaves as sent was sent, or is now shown.
LEMMA SentIsShown ==
  ASSUME Typed, [Next]_vars
  PROVE  /\ shown \subseteq shown'
         /\ \A k \in Keys :
              manifest'[k].st = "sent" => manifest[k].st = "sent" \/ k \in shown'
<1> DEFINE Goal == /\ shown \subseteq shown'
                   /\ \A k \in Keys : manifest'[k].st = "sent" =>
                        manifest[k].st = "sent" \/ k \in shown'
<1>0. /\ TypeOK
      /\ manifest \in [Keys -> Manifests]
      /\ proc.policy \in Policies \cup {None}
      /\ \A a \in Actors : actor[a].pc # "idle" =>
           <<actor[a].event, "answer">> \in Keys /\ <<actor[a].event, "notice">> \in Keys
  BY DEF Typed, TypeOK, HasEvent, Manifests, Keys, Kinds
<1>1. ASSUME NEW k \in Keys, NEW o \in Outcomes(manifest[k].st), Delivers(k, o)
      PROVE  Goal
  BY <1>0, <1>1, Delivering
<1>2. ASSUME NEW k \in Keys, manifest' = Prepared(k), shown' = shown PROVE Goal
  BY <1>0, <1>2, Preparing
<1>3. ASSUME PruneRouting \/ Age, shown' = shown PROVE Goal
  BY <1>0, <1>3 DEF PruneRouting, Age, NoManifest, Manifests
<1>4. ASSUME UNCHANGED outbox PROVE Goal
  BY <1>4 DEF outbox
<1>5. ASSUME NEW k \in Keys, DeliverPrepared(k) PROVE Goal
  BY <1>1, <1>5 DEF DeliverPrepared
<1>6. ASSUME NEW a \in Actors, SendAnswer(a) \/ Recover(a) \/ SendNotice(a)
      PROVE  Goal
  BY <1>0, <1>1, <1>6 DEF SendAnswer, Recover, SendNotice, At
<1>7. ASSUME NEW a \in Actors, PrepareAnswer(a) \/ PrepareNotice(a) PROVE Goal
  BY <1>0, <1>2, <1>4, <1>7 DEF PrepareAnswer, PrepareNotice, At, outbox
<1>8. ASSUME NEW e \in Events, AdmitRoot(e) \/ AdmitReply(e) PROVE Goal
  BY <1>3, <1>8 DEF AdmitRoot, AdmitReply
<1>9. ASSUME Age PROVE Goal
  BY <1>3, <1>9 DEF Age
<1> QED
  BY <1>4, <1>5, <1>6, <1>7, <1>8, <1>9
     DEF Next, Startups, Admissions, Works, Recovers, vars, outbox, Actors,
         Start, Fence, Fenced, ListUncertain, Settle, Open, RouteRoot,
         CancelRoot, Claim, StartTurn, EndTurn, Finish, Fail, MarkUncertain,
         CompleteUncertain, Stop

\* What can take the confirmation of an answer back: another read back, or
\* the pruning of the job's row.
LEMMA SentStays ==
  ASSUME Typed, ActorInv, [Next]_vars, NEW e \in Events,
         manifest[AnswerOf(e)].st = "sent"
  PROVE  \/ manifest'[AnswerOf(e)].st = "sent"
         \/ \E a \in Actors : /\ SendAnswer(a) \/ Recover(a)
                              /\ actor[a].event = e
         \/ Up /\ Prunable(jobs, e) /\ jobs'[e].state # "completed"
<1> DEFINE k == AnswerOf(e)
           Goal == \/ manifest'[k].st = "sent"
                   \/ \E a \in Actors : /\ SendAnswer(a) \/ Recover(a)
                                        /\ actor[a].event = e
                   \/ Up /\ Prunable(jobs, e) /\ jobs'[e].state # "completed"
<1>0. /\ TypeOK
      /\ manifest \in [Keys -> Manifests]
      /\ k \in Keys
      /\ manifest[k].st = "sent"
      /\ \A a \in Actors : actor[a].pc # "idle" =>
           /\ actor[a].event \in Events
           /\ <<actor[a].event, "answer">> \in Keys
           /\ <<actor[a].event, "notice">> \in Keys
           /\ k # <<actor[a].event, "notice">>
           /\ k = <<actor[a].event, "answer">> => actor[a].event = e
  BY AnswerKeys DEF Typed, TypeOK, HasEvent, Manifests, AnswerOf
<1>1. ASSUME NEW j \in Keys, DeliverPrepared(j) PROVE Goal
  <2>1. j # k
    BY <1>0, <1>1 DEF ActorInv, StartupHolds, DeliverPrepared
  <2> QED
    BY <1>0, <1>1, <2>1, Delivering DEF DeliverPrepared
<1>2. ASSUME NEW a \in Actors, SendAnswer(a) \/ Recover(a) PROVE Goal
  <2>1. actor[a].pc # "idle" /\ <<actor[a].event, "answer">> \in Keys
    BY <1>0, <1>2 DEF SendAnswer, Recover, At
  <2>2. CASE k # <<actor[a].event, "answer">>
    BY <1>0, <1>2, <2>1, <2>2, Delivering DEF SendAnswer, Recover
  <2> QED
    BY <1>0, <1>2, <2>1, <2>2
<1>3. ASSUME NEW a \in Actors, SendNotice(a) PROVE Goal
  <2>1. /\ <<actor[a].event, "notice">> \in Keys
        /\ k # <<actor[a].event, "notice">>
    BY <1>0, <1>3 DEF SendNotice, At
  <2> QED
    BY <1>0, <1>3, <2>1, Delivering DEF SendNotice
<1>4. ASSUME NEW a \in Actors, PrepareAnswer(a) \/ PrepareNotice(a) PROVE Goal
  <2>1. \/ manifest' = manifest
        \/ \E j \in Keys : manifest' = Prepared(j)
    BY <1>0, <1>4 DEF PrepareAnswer, PrepareNotice, At
  <2>2. ASSUME NEW j \in Keys, manifest' = Prepared(j) PROVE Goal
    <3>1. CASE j = k
      BY <1>0, <2>2, <3>1 DEF Prepared
    <3>2. CASE j # k
      BY <1>0, <2>2, <3>2 DEF Prepared, Manifests
    <3> QED
      BY <3>1, <3>2
  <2> QED
    BY <1>0, <2>1, <2>2
<1>5. ASSUME NEW f \in Events, AdmitRoot(f) \/ AdmitReply(f) PROVE Goal
  <2>1. manifest' = [j \in Keys |->
                       IF \/ j[2] = "answer" /\ Prunable(jobs, j[1])
                          \/ j[2] = "notice" /\ manifest[j].old
                       THEN NoManifest ELSE manifest[j]]
    BY <1>5 DEF AdmitRoot, AdmitReply, PruneRouting
  <2>2. CASE ~Prunable(jobs, e)
    <3>1. k[1] = e /\ k[2] = "answer"
      BY DEF AnswerOf
    <3> QED
      BY <1>0, <2>1, <2>2, <3>1
  <2>3. CASE Prunable(jobs, e)
    <3>1. Up
      BY <1>5 DEF AdmitRoot, AdmitReply
    <3>2. PICK rdy \in BOOLEAN : jobs' = Enqueued(jobs, f, rdy, proc.policy, Now)
      BY <1>5 DEF AdmitRoot, AdmitReply
    <3>3. /\ jobs \in [Events -> Row(Owners)]
          /\ Now \in Nat /\ proc.policy \in Policies \cup {None}
      BY Now1 DEF Typed, TypeOK, Owners
    <3>4. IF e = f THEN jobs'[e].state = "queued" ELSE jobs'[e] = NoRow
      BY <2>3, <3>2, <3>3, EnqueuedRows
    <3>5. jobs'[e].state # "completed"
      BY <3>4 DEF NoRow
    <3> QED
      BY <2>3, <3>1, <3>5
  <2> QED
    BY <2>2, <2>3
<1>6. ASSUME Age PROVE Goal
  BY <1>0, <1>6 DEF Age, Manifests
<1>7. ASSUME UNCHANGED manifest PROVE Goal
  BY <1>0, <1>7
<1> QED
  BY <1>1, <1>2, <1>3, <1>4, <1>5, <1>6, <1>7
     DEF Next, Startups, Admissions, Works, Recovers, vars, outbox, Actors,
         Start, Fence, Fenced, ListUncertain, Settle, Open, RouteRoot,
         CancelRoot, Claim, StartTurn, EndTurn, Finish, Fail, MarkUncertain,
         CompleteUncertain, Stop

\* Only a step of who has confirmed the answer completes a job.
LEMMA WhoCompletes ==
  ASSUME Typed, [Next]_vars, NEW e \in Events,
         jobs'[e].state = "completed", jobs[e].state # "completed"
  PROVE  \E a \in Actors : /\ actor[a].pc \in {"sent", "recovered"}
                           /\ actor[a].event = e
                           /\ manifest' = manifest
<1> DEFINE Goal == \E a \in Actors : /\ actor[a].pc \in {"sent", "recovered"}
                                     /\ actor[a].event = e
                                     /\ manifest' = manifest
<1>0. /\ jobs \in [Events -> Row(Owners)]
      /\ Now \in Nat /\ proc.policy \in Policies \cup {None}
      /\ \A a \in Actors : OwnerOf(a) \in Owners
      /\ Startup \in Actors /\ Slots \subseteq Actors
      /\ {"cancelled", "uncertain", "completed"} \subseteq JobStates
  BY Now1, Owning DEF Typed, TypeOK, Owners, Actors, JobStates
<1>1. ASSUME NEW p \in Policies, Start(p) PROVE FALSE
  BY <1>0, <1>1, QuarantinedRows DEF Start
<1>2. ASSUME NEW f \in Events, Fence(f) PROVE FALSE
  BY <1>0, <1>2, ReclaimedRows DEF Fence
<1>3. ASSUME NEW f \in Events, AdmitRoot(f) \/ AdmitReply(f) PROVE FALSE
  <2>1. PICK rdy \in BOOLEAN : jobs' = Enqueued(jobs, f, rdy, proc.policy, Now)
    BY <1>3 DEF AdmitRoot, AdmitReply
  <2>2. IF e = f THEN jobs'[e].state = "queued"
        ELSE jobs'[e] = NoRow \/ jobs'[e] = jobs[e]
    BY <1>0, <2>1, EnqueuedRows
  <2> QED
    BY <2>2 DEF NoRow
<1>4. ASSUME NEW f \in Events, RouteRoot(f) PROVE FALSE
  BY <1>0, <1>4, MadeReadyRows DEF RouteRoot
<1>5. ASSUME NEW f \in Events, CancelRoot(f) PROVE FALSE
  <2>1. jobs' = Moved(jobs, f, "cancelled") /\ "cancelled" \in JobStates
    BY <1>5 DEF CancelRoot, JobStates
  <2>2. IF e = f THEN jobs'[e].state = "cancelled" ELSE jobs'[e] = jobs[e]
    BY <1>0, <2>1, MovedRows
  <2> QED
    BY <2>2
<1>6. ASSUME NEW s \in Slots, NEW f \in Events, Claim(s, f) PROVE FALSE
  <2>1. jobs' = Claimed(jobs, f, OwnerOf(s)) /\ OwnerOf(s) \in Owners
    BY <1>0, <1>6 DEF Claim
  <2>2. IF e = f THEN jobs'[e].state = "running" ELSE jobs'[e] = jobs[e]
    BY <1>0, <2>1, ClaimedRows
  <2> QED
    BY <2>2
<1>7. ASSUME NEW s \in Slots, MarkUncertain(s) PROVE FALSE
  <2>1. /\ actor[s].event \in Events
        /\ jobs' = Moved(jobs, actor[s].event, "uncertain")
    BY <1>7 DEF MarkUncertain, Owns, InState
  <2> QED
    BY <1>0, <2>1, MovedRows
<1>8. ASSUME NEW a \in Actors, Finish(a) \/ CompleteUncertain(a) PROVE Goal
  <2>1. /\ actor[a].event \in Events
        /\ jobs' = Moved(jobs, actor[a].event, "completed")
        /\ actor[a].pc \in {"sent", "recovered"}
        /\ manifest' = manifest
    BY <1>8 DEF Finish, CompleteUncertain, Owns, MayComplete, InState, At,
       outbox
  <2>2. actor[a].event = e
    BY <1>0, <2>1, MovedRows
  <2> QED
    BY <2>1, <2>2
<1>9. ASSUME Age PROVE FALSE
  BY <1>0, <1>9 DEF Age, Row
<1>10. ASSUME UNCHANGED jobs PROVE FALSE
  BY <1>10
<1> QED
  BY <1>0, <1>1, <1>2, <1>3, <1>4, <1>5, <1>6, <1>7, <1>8, <1>9, <1>10
     DEF Next, Startups, Admissions, Works, Recovers, vars, Fenced,
         DeliverPrepared, ListUncertain, Settle, Open, StartTurn, EndTurn,
         PrepareAnswer, SendAnswer, Fail, Recover, PrepareNotice, SendNotice,
         Stop

\* An actor comes to "sent" or "recovered" only with a confirmed answer.
LEMMA WhoConfirms ==
  ASSUME Typed, [Next]_vars, NEW a \in Actors,
         actor'[a].pc \in {"sent", "recovered"}
  PROVE  \/ actor'[a] = actor[a]
         \/ manifest'[AnswerOf(actor'[a].event)].st = "sent"
<1> DEFINE Goal == \/ actor'[a] = actor[a]
                   \/ manifest'[AnswerOf(actor'[a].event)].st = "sent"
<1>0. /\ TypeOK
      /\ Slots \subseteq Actors /\ Startup \in Actors
      /\ \A b \in Actors : actor[b].pc # "idle" =>
           <<actor[b].event, "answer">> \in Keys
  BY DEF Typed, TypeOK, HasEvent, Actors, Keys, Kinds
<1>1. ASSUME NEW b \in Actors, Rests(b) PROVE Goal
  BY <1>0, <1>1, Resting
<1>2. ASSUME NEW b \in Actors, NEW to \in ActorPc \ {"sent", "recovered"}, Goes(b, to)
      PROVE  Goal
  BY <1>0, <1>2, Going
<1>3. ASSUME NEW b \in Actors, SendAnswer(b) \/ Recover(b) PROVE Goal
  <2> DEFINE k == <<actor[b].event, "answer">>
  <2>1. PICK o \in Outcomes(manifest[k].st), to \in ActorPc :
          /\ Delivers(k, o)
          /\ Goes(b, to)
          /\ to \in {"sent", "recovered"} => o.ok
    BY <1>3 DEF SendAnswer, Recover, ActorPc, WorkingPc
  <2>2. k \in Keys
    BY <1>0, <1>3 DEF SendAnswer, Recover, At
  <2>3. o.ok => manifest'[k].st = "sent"
    BY <1>0, <2>1, <2>2, Delivering
  <2>4. /\ \A c \in Actors \ {b} : actor'[c] = actor[c]
        /\ actor'[b].pc = to
        /\ actor'[b].event = actor[b].event
    BY <1>0, <2>1, Going
  <2> QED
    BY <2>1, <2>3, <2>4 DEF AnswerOf
<1>4. ASSUME NEW b \in Actors,
             \/ StartTurn(b) \/ EndTurn(b) \/ PrepareAnswer(b) \/ Finish(b)
             \/ Fail(b) \/ MarkUncertain(b) \/ CompleteUncertain(b)
             \/ PrepareNotice(b) \/ SendNotice(b)
      PROVE  Goal
  <2>1. Rests(b) \/ \E to \in ActorPc \ {"sent", "recovered"} : Goes(b, to)
    BY <1>4 DEF StartTurn, EndTurn, PrepareAnswer, Finish, Fail,
                MarkUncertain, CompleteUncertain, PrepareNotice, SendNotice,
                ActorPc, WorkingPc
  <2> QED
    BY <1>1, <1>2, <2>1
<1>5. ASSUME NEW e \in Events, Settle(e) PROVE Goal
  BY <1>0, <1>5 DEF Settle, Typed, TypeOK
<1>6. ASSUME NEW s \in Slots, NEW e \in Events, Claim(s, e) PROVE Goal
  BY <1>0, <1>6 DEF Claim, Typed, TypeOK
<1>7. ASSUME Stop PROVE FALSE
  BY <1>0, <1>7 DEF Stop, Idle
<1>8. ASSUME UNCHANGED actor PROVE Goal
  BY <1>8
<1> QED
  BY <1>0, <1>3, <1>4, <1>5, <1>6, <1>7, <1>8
     DEF Next, Startups, Admissions, Works, Recovers, vars, Start, Fence,
         Fenced, DeliverPrepared, ListUncertain, Open, AdmitRoot, RouteRoot,
         CancelRoot, AdmitReply, Age

\* Two actors never have the same job.
LEMMA OneActorPerJob ==
  ASSUME ActorInv, NEW a \in Actors, NEW b \in Actors,
         actor[a].pc # "idle", actor[b].pc # "idle",
         actor[a].event = actor[b].event
  PROVE  a = b
<1>1. CASE a \in Slots /\ b \in Slots
  BY <1>1 DEF ActorInv, OneSlotPerJob
<1>2. CASE a = Startup \/ b = Startup
  BY <1>2 DEF ActorInv, SlotHolds, StartupHolds, Up, Actors
<1> QED
  BY <1>1, <1>2 DEF Actors

LEMMA ShownStep ==
  ASSUME Typed, ActorInv, ShownInv, [Next]_vars
  PROVE  ShownInv'
<1>0. /\ Slots \subseteq Actors /\ Startup \in Actors
      /\ \A a \in Actors : actor[a].pc # "idle" => actor[a].event \in Events
  BY DEF Typed, HasEvent, Actors
<1>1. \A k \in Keys : manifest'[k].st = "sent" => k \in shown'
  BY SentIsShown DEF ShownInv
<1>2. ASSUME NEW e \in Events, jobs'[e].state = "completed"
      PROVE  manifest'[AnswerOf(e)].st = "sent"
  <2>1. CASE jobs[e].state = "completed"
    <3>1. manifest[AnswerOf(e)].st = "sent"
      BY <2>1 DEF ShownInv, CompletedIsShown, AnswerOf
    <3>2. ASSUME NEW a \in Actors, SendAnswer(a) \/ Recover(a), actor[a].event = e
          PROVE  FALSE
      <4>1. actor[a].pc \in {"sending", "recover"}
        BY <3>2 DEF SendAnswer, Recover, At
      <4>2. CASE a \in Slots
        <5>1. SlotHolds(a)
          BY <4>2 DEF ActorInv
        <5> QED
          BY <2>1, <3>2, <4>1, <5>1, OwnsRow
          DEF SlotHolds, WorkingPc, RecoveryPc
      <4>3. CASE a = Startup
        BY <2>1, <3>2, <4>1, <4>3 DEF ActorInv, StartupHolds
      <4> QED
        BY <4>2, <4>3 DEF Actors
    <3> QED
      BY <1>2, <3>1, <3>2, SentStays
  <2>2. CASE jobs[e].state # "completed"
    BY <1>2, <2>2, WhoCompletes DEF ShownInv, AnswerOf
  <2> QED
    BY <2>1, <2>2
<1>3. ASSUME NEW a \in Actors, actor'[a].pc \in {"sent", "recovered"}
      PROVE  manifest'[AnswerOf(actor'[a].event)].st = "sent"
  <2>1. CASE actor'[a] # actor[a]
    BY <1>3, <2>1, WhoConfirms
  <2>2. CASE actor'[a] = actor[a]
    <3> DEFINE e == actor[a].event
    <3>1. /\ actor[a].pc \in {"sent", "recovered"}
          /\ e \in Events
          /\ manifest[AnswerOf(e)].st = "sent"
      BY <1>0, <1>3, <2>2 DEF ShownInv, AnswerOf
    <3>2. ASSUME NEW b \in Actors, SendAnswer(b) \/ Recover(b), actor[b].event = e
          PROVE  FALSE
      <4>1. actor[b].pc \in {"sending", "recover"}
        BY <3>2 DEF SendAnswer, Recover, At
      <4>2. a = b
        BY <3>1, <3>2, <4>1, OneActorPerJob
      <4> QED
        BY <3>1, <4>1, <4>2
    <3>3. ASSUME Up, Prunable(jobs, e) PROVE FALSE
      <4>1. a \in Slots /\ SlotHolds(a)
        BY <3>1, <3>3 DEF ActorInv, StartupHolds, Up, Actors
      <4>2. \/ jobs[e].state = "running"
            \/ jobs[e].state = "uncertain" /\ ~jobs[e].old
        BY <3>1, <4>1, OwnsRow DEF SlotHolds, WorkingPc, RecoveryPc
      <4> QED
        BY <3>3, <4>2 DEF Prunable, TerminalStates
    <3> QED
      BY <2>2, <3>1, <3>2, <3>3, SentStays
  <2> QED
    BY <2>1, <2>2
<1> QED
  <2>1. CompletedIsShown'
    BY <1>1, <1>2, AnswerKeys DEF CompletedIsShown, AnswerOf
  <2> QED
    BY <1>1, <1>3, <2>1 DEF ShownInv, AnswerOf

-----------------------------------------------------------------------------
(* The invariant and what follows from it *)

Inv ==
  /\ Typed
  /\ TableInv
  /\ ActorInv
  /\ Exclusive
  /\ StrictOrder
  /\ TurnInv
  /\ CrossInv
  /\ ShownInv

LEMMA InvInit == Init => Inv
<1> SUFFICES ASSUME Init PROVE Inv
  OBVIOUS
<1>1. Typed
  BY TypedInit
<1>2. /\ \A e \in Events : jobs[e] = NoRow
      /\ \A a \in Actors : actor[a].pc = "idle"
      /\ \A k \in Keys : manifest[k] = NoManifest
      /\ \A e \in Events : turns[e] = 0
      /\ crossed = {} /\ proc.pc = "down" /\ Slots \subseteq Actors
      /\ Startup \in Actors
  BY DEF Init, Idle, Actors
<1>3. TableInv
  BY <1>2, StoreAssumption DEF TableInv, RowOK, RootFirst, NoRow
<1>4. (\A s \in Slots : SlotHolds(s)) /\ OneSlotPerJob
  BY <1>2 DEF SlotHolds, OneSlotPerJob, WorkingPc, RecoveryPc
<1>5. StartupHolds
  BY <1>2 DEF StartupHolds
<1>6. Exclusive /\ StrictOrder
  BY <1>2 DEF Exclusive, StrictOrder, NoRow
<1>7. TurnInv /\ CrossInv
  BY <1>2 DEF TurnInv, CrossInv
<1>8. ShownInv
  BY <1>2 DEF ShownInv, CompletedIsShown, NoRow, NoManifest
<1> QED
  BY <1>1, <1>3, <1>4, <1>5, <1>6, <1>7, <1>8 DEF Inv, ActorInv

LEMMA InvStep == Inv /\ [Next]_vars => Inv'
<1> SUFFICES ASSUME Inv, [Next]_vars PROVE Inv'
  OBVIOUS
<1>1. RowStep
  BY RowSteps DEF Inv
<1>2. Typed'
  BY TypedStep DEF Inv
<1>3. TableInv' /\ Exclusive' /\ StrictOrder' /\ CrossInv'
  BY <1>1, TableStep, ExclusiveStep, OrderStep, CrossStep DEF Inv
<1>4. ActorInv' /\ TurnInv' /\ ShownInv'
  BY <1>1, ActorStep, TurnStep, ShownStep DEF Inv
<1> QED
  BY <1>2, <1>3, <1>4 DEF Inv

LEMMA Invariance == Spec => []Inv
BY InvInit, InvStep, PTL DEF Spec

\* A job that a slot works on is running, under the current policy.
LEMMA WorkedOn ==
  ASSUME ActorInv, Typed, NEW s \in Slots, Working(s)
  PROVE  /\ actor[s].event \in Events
         /\ jobs[actor[s].event].state = "running"
         /\ jobs[actor[s].event].policy = proc.policy
<1>1. SlotHolds(s) /\ actor[s].pc \in WorkingPc
  BY DEF ActorInv, Working
<1>2. actor[s].event \in Events
  BY <1>1 DEF Typed, HasEvent, WorkingPc, Actors
<1> QED
  BY <1>1, <1>2, OwnsRow DEF SlotHolds

\* Every variable of the bridge keeps its type.
THEOREM Typing == Spec => []TypeOK
BY Invariance, PTL DEF Inv, Typed

\* No event's turn is started twice: the claim takes it out of the queue, and
\* neither the fence of a restart nor the quarantine of a policy change nor a
\* failure of its slot puts it back.
THEOREM NoTurnRepeats == Spec => []TurnsNeverRepeat
<1>1. Inv => TurnsNeverRepeat
  BY DEF Inv, TurnInv, TurnsNeverRepeat
<1> QED
  BY <1>1, Invariance, PTL

\* A slot that works on a job is alone in its destination: claim's exclusion,
\* kept by everything that happens while the slot is at work.
THEOREM SlotsAreAlone == Spec => []AloneInDestination
<1>1. Inv => AloneInDestination
  BY WorkedOn DEF Inv, Exclusive, AloneInDestination
<1> QED
  BY <1>1, Invariance, PTL

\* The jobs of a destination leave the queue in the order of their admission.
THEOREM DestinationsAreOrdered == Spec => []StrictOrder
BY Invariance, PTL DEF Inv

\* A completed job's answer is confirmed and complete in Discord.
THEOREM CompletionIsShown == Spec => []CompletedIsShown
<1>1. Inv => CompletedIsShown
  BY DEF Inv, ShownInv
<1> QED
  BY <1>1, Invariance, PTL

\* What was reserved before a policy change is not worked on after it.
THEOREM PoliciesDoNotMix == Spec => []NeverRunsAcrossPolicies
<1>1. Inv => NeverRunsAcrossPolicies
  BY WorkedOn DEF Inv, CrossInv, NeverRunsAcrossPolicies
<1> QED
  BY <1>1, Invariance, PTL

-----------------------------------------------------------------------------
(* The ingress: its invariant *)

Pages == UNION {[S -> Versions] : S \in SUBSET Events}
Recon ==
  [ids : SUBSET Roots, channels : SUBSET Channels, at : Channels \cup {None},
   rows : Pages, more : BOOLEAN]
Handler ==
  [pc : HandlerPc, event : Events \cup {None}, ver : Versions,
   from : {"live", "unready", "scan"}]

\* Workers who are left out of this module own rows as nobody.
Nobody == {None}
StoreTyped ==
  /\ admitted \in [Events -> Row(Nobody)]
  /\ content \in [Events -> Versions \cup {None}]
  /\ mapped \subseteq Roots /\ managedThreads \subseteq Threads
  /\ cursor \in [Channels -> (0..Len(log)) \cup {None}]
DiscordTyped ==
  /\ log \in Seq(Events) /\ version \in [Events -> Versions] /\ open \subseteq Threads
ClientTyped ==
  /\ session \in BOOLEAN
  /\ pc \in {"down", "connecting", "unready", "scan", "live"}
  /\ resumable \in BOOLEAN /\ passed \in 0..Len(log)
  /\ handler \in Handler /\ recon \in Recon
HistoryTyped ==
  /\ boundary \subseteq Events /\ declined \subseteq Events
  /\ faults \in 0..MaxFaults /\ expiries \in 0..MaxExpiries
IngressTyped == StoreTyped /\ DiscordTyped /\ ClientTyped /\ HistoryTyped

Unready == UnreadyRoots(admitted, Policy)
Handled == Present(admitted) \cup declined
Replies == Events \ Roots
Routing == {"open", "saveThread", "saveManaged", "saveCursor", "makeReady"}
Busy == handler.pc # "idle"

\* Discord: every message is posted once, a thread is opened from a root that is in
\* the table, and what is posted in it comes later.
LogInv ==
  /\ \A i, j \in 1..Len(log) : log[i] = log[j] => i = j
  /\ \A t \in open : \E r \in Roots \cap Present(admitted) : ThreadOf[r] = t
  /\ \A e \in Posted \cap Replies :
       /\ ThreadOf[e] \in open
       /\ \A r \in Roots \cap Posted : ThreadOf[r] = ThreadOf[e] => IdOf(r) < IdOf(e)

\* Rows are of this policy and young; a root has its thread once it is released.
AdmittedInv ==
  /\ IsFiniteSet(Present(admitted)) /\ Present(admitted) \subseteq Posted
  /\ \A e \in Events :
       /\ ~admitted[e].old
       /\ e \in Present(admitted) => admitted[e].policy = Policy
       /\ admitted[e].thread = IF e \in Roots /\ admitted[e].ready THEN ThreadOf[e] ELSE None
       /\ e \in Present(admitted) => admitted[e].at <= Cardinality(Present(admitted))
       /\ e \notin Present(admitted) => ~admitted[e].ready

\* What the process, the connection and the handler are at together.
HandInv ==
  /\ handler.event \in Posted
  /\ handler.from = pc
  /\ pc = "live" => /\ passed < Len(log) /\ handler.event = log[passed + 1]
                    /\ handler.ver = "original"
  /\ pc = "unready" =>
       handler.event \in Roots \cap Present(admitted) /\ handler.event \notin recon.ids
  /\ pc = "scan" =>
       /\ handler.event \in DOMAIN recon.rows
       /\ handler.ver = recon.rows[handler.event]
       /\ \A e \in DOMAIN recon.rows : IdOf(handler.event) <= IdOf(e)
  /\ handler.ver = "refused" => version[handler.event] = "refused"
ConnectionInv ==
  /\ pc \in {"down", "unready", "scan"} => ~resumable
  /\ pc = "live" => resumable
  /\ pc # "down" => cursor[Listen] # None
  /\ cursor[Listen] = None => open = {} /\ boundary = {}
  /\ boundary \subseteq Roots
  /\ Busy => HandInv
  /\ pc = "unready" =>
       recon.ids \subseteq Unready /\ recon.at = None /\ DOMAIN recon.rows = {}
  /\ pc = "scan" =>
       /\ DOMAIN recon.rows \subseteq Posted
       /\ recon.at = None => DOMAIN recon.rows = {}
       /\ recon.at \notin recon.channels
       /\ \A e \in DOMAIN recon.rows :
            Channel(e) = recon.at /\ (recon.rows[e] = "refused" => version[e] = "refused")

\* What has been done for the message in hand.
DoneInv ==
  /\ handler.pc = "ack" => handler.event \in Present(admitted)
  /\ handler.pc \in Routing \cup {"ack"} => handler.ver # "refused"
  /\ handler.pc \in Routing \/ (handler.pc = "ack" /\ IsRoot) => handler.event \in Unready
  /\ handler.pc \in Routing \ {"open"} => Thread \in open
  /\ handler.pc \in {"saveManaged", "saveCursor", "makeReady"} => handler.event \in mapped
  /\ handler.pc \in {"saveCursor", "makeReady"} => Thread \in managedThreads
  /\ handler.pc = "makeReady" => cursor[Thread] # None
  /\ handler.pc = "done" =>
       /\ handler.event \in Handled \/ (~IsRoot /\ ~ManagedHere)
       /\ handler.event \in Unready => handler.ver = "refused"
RouteInv ==
  /\ ReleasedIsRouted
  /\ \A r \in mapped : ThreadOf[r] \in open
  /\ mapped \subseteq Present(admitted)
  /\ \A t \in managedThreads : t \in open
  /\ \A t \in Threads : cursor[t] # None => t \in open
  /\ DoneInv

\* A reserved root that the owner changed so that it will never be released.
Stuck(r) == version[r] = "refused" /\ IdOf(r) <= passed
\* Nothing has been read in the thread of a reserved root.
Fresh(r) == cursor[ThreadOf[r]] \in {None, IdOf(r)}
InHand(r) == handler.event = r /\ handler.pc \in Routing \cup {"ack"}
StuckInv ==
  /\ \A r \in Unready : Fresh(r) \/ Stuck(r)
  /\ Busy /\ handler.event \in Unready /\ handler.ver # "refused" => Fresh(handler.event)
  /\ pc = "unready" => \A r \in Unready :
       /\ IdOf(r) <= passed
       /\ r \in recon.ids \/ version[r] = "refused" \/ (Busy /\ handler.event = r)
  /\ pc = "scan" => \A r \in Unready :
       \/ Stuck(r) /\ (r \in DOMAIN recon.rows => recon.rows[r] = "refused")
       \/ InHand(r)
  /\ pc = "scan" /\ IsRoot /\ handler.pc \in Routing \cup {"ack"} =>
       \A e \in Posted \cap Replies : ThreadOf[e] = Thread => IdOf(e) > passed
  /\ resumable => \A r \in Unready :
       Stuck(r) \/ (passed < Len(log) /\ r = log[passed + 1])

\* The channels that are read: the configured one, and threads of released roots.
Read(c) == c = Listen \/ \E r \in Roots : admitted[r].thread = c
\* What is still to do in a channel.
Missing(c) ==
  {e \in Posted \ boundary :
     Channel(e) = c /\ version[e] # "deleted" /\ e \notin Handled}
Future(c) == \A e \in Missing(c) : IdOf(e) > passed
Scanned(c) ==
  \/ c \in recon.channels
  \/ recon.at # c /\ Future(c)
  \/ /\ recon.at = c
     /\ \A e \in Missing(c) :
          \/ e \in DOMAIN recon.rows
          \/ /\ \A f \in DOMAIN recon.rows : IdOf(f) < IdOf(e)
             /\ recon.more \/ IdOf(e) > passed
SkipInv ==
  /\ NothingIsSkipped
  /\ resumable => \A c \in Channels : Read(c) => Future(c)
  /\ pc = "scan" => \A c \in Channels : Read(c) => Scanned(c)

\* What came before an admitted message was admitted, or was refused.
PostingInv ==
  /\ InPostingOrder
  /\ \A e \in Present(admitted), f \in Posted :
       ThreadOf[f] = ThreadOf[e] /\ IdOf(f) < IdOf(e) /\ version[f] = "original"
         => f \in Handled

IngressInv ==
  /\ IngressTyped /\ LogInv /\ AdmittedInv /\ ConnectionInv /\ RouteInv
  /\ StuckInv /\ SkipInv /\ PostingInv

\* An operator's step in the record of the message in hand.
LEMMA StepTo ==
  ASSUME handler \in Handler, NEW p \in HandlerPc, Step(p)
  PROVE  /\ handler' \in Handler /\ handler'.pc = p /\ handler'.event = handler.event
         /\ handler'.ver = handler.ver /\ handler'.from = handler.from
  BY DEF Step, Handler

\* A message is taken in hand.
LEMMA TakesTo ==
  ASSUME NEW e \in Events, NEW v \in Versions, NEW f \in {"live", "unready", "scan"},
         Takes(e, v, f)
  PROVE  /\ handler' \in Handler /\ handler'.pc = "check" /\ handler'.event = e
         /\ handler'.ver = v /\ handler'.from = f
  BY DEF Takes, Handler, HandlerPc

\* Nothing is in hand.
LEMMA NoMessageIs ==
  /\ NoMessage \in Handler /\ NoMessage.pc = "idle" /\ NoMessage.event = None
  /\ NoMessage.ver = "original" /\ NoMessage.from = "live"
  BY DEF NoMessage, Handler, HandlerPc, Versions

\* Nothing is reconciled.
LEMMA NoReconIs ==
  /\ NoRecon \in Recon /\ NoRecon.ids = {} /\ NoRecon.channels = {}
  /\ NoRecon.at = None /\ NoRecon.rows = NoRows
<1>1. NoRows \in Pages /\ {} \in SUBSET Roots /\ {} \in SUBSET Channels
  BY DEF NoRows, Pages
<1> QED
  BY <1>1 DEF NoRecon, Recon

\* An abort leaves nothing in hand.
LEMMA AbortsTo ==
  ASSUME Aborts
  PROVE  /\ pc' = "connecting" /\ handler' \in Handler /\ handler'.pc = "idle"
         /\ handler'.event = None /\ handler'.ver = "original" /\ recon' \in Recon
  BY NoMessageIs, NoReconIs DEF Aborts

\* A message's place in Discord's log.
LEMMA IdIs ==
  ASSUME LogInv, log \in Seq(Events)
  PROVE  /\ \A i \in 1..Len(log) : log[i] \in Posted /\ IdOf(log[i]) = i
         /\ \A e \in Posted : e \in Events /\ IdOf(e) \in 1..Len(log) /\ log[IdOf(e)] = e
         /\ \A e \in Posted, f \in Posted : IdOf(e) = IdOf(f) => e = f
<1>1. ASSUME NEW i \in 1..Len(log) PROVE log[i] \in Posted /\ IdOf(log[i]) = i
  <2>1. \E j \in 1..Len(log) : log[j] = log[i]
    OBVIOUS
  <2>2. IdOf(log[i]) \in 1..Len(log) /\ log[IdOf(log[i])] = log[i]
    BY <2>1 DEF IdOf
  <2> QED
    BY <2>2 DEF LogInv, Posted
<1>2. ASSUME NEW e \in Posted
      PROVE  e \in Events /\ IdOf(e) \in 1..Len(log) /\ log[IdOf(e)] = e
  BY <1>1 DEF Posted
<1> QED
  BY <1>1, <1>2

\* What is posted comes last, and moves nothing.
LEMMA PostDoes ==
  ASSUME LogInv, log \in Seq(Events), NEW x \in Events, Post(x)
  PROVE  /\ log' \in Seq(Events) /\ Len(log') = Len(log) + 1 /\ log'[Len(log) + 1] = x
         /\ \A i \in 1..Len(log) : log'[i] = log[i]
         /\ Posted' = Posted \cup {x} /\ x \notin Posted
         /\ \A i, j \in 1..Len(log') : log'[i] = log'[j] => i = j
         /\ \A e \in Posted : IdOf(e)' = IdOf(e)
         /\ IdOf(x)' = Len(log) + 1
<1>1. /\ log' \in Seq(Events) /\ Len(log') = Len(log) + 1 /\ log'[Len(log) + 1] = x
      /\ \A i \in 1..Len(log) : log'[i] = log[i]
  BY DEF Post
<1>2. x \notin Posted
  BY DEF Post
<1>3. Posted' = Posted \cup {x}
  <2>1. Posted' = {log'[i] : i \in 1..Len(log')}
    BY DEF Posted
  <2>2. ASSUME NEW i \in 1..Len(log') PROVE log'[i] \in Posted \cup {x}
    BY <1>1 DEF Posted
  <2>3. ASSUME NEW i \in 1..Len(log) PROVE log[i] \in Posted'
    BY <1>1, <2>1
  <2>4. x \in Posted'
    BY <1>1, <2>1
  <2> QED
    BY <2>1, <2>2, <2>3, <2>4 DEF Posted
<1>4. \A i, j \in 1..Len(log') : log'[i] = log'[j] => i = j
  BY <1>1, <1>2 DEF LogInv, Posted
<1>5. ASSUME NEW e, NEW k \in 1..Len(log'), log'[k] = e PROVE IdOf(e)' = k
  <2>1. IdOf(e)' = CHOOSE i \in 1..Len(log') : log'[i] = e
    BY DEF IdOf
  <2>2. \A i \in 1..Len(log') : log'[i] = e => i = k
    BY <1>4, <1>5
  <2> QED
    BY <1>5, <2>1, <2>2
<1>6. ASSUME NEW e \in Posted PROVE IdOf(e)' = IdOf(e)
  BY <1>1, <1>5, IdIs
<1>7. IdOf(x)' = Len(log) + 1
  BY <1>1, <1>5
<1> QED
  BY <1>1, <1>2, <1>3, <1>4, <1>6, <1>7

\* A row is taken from a page.
LEMMA RowIn ==
  ASSUME recon \in Recon, NEW e \in DOMAIN recon.rows
  PROVE  e \in Events /\ recon.rows[e] \in Versions
  BY DEF Recon, Pages

\* The pages of a channel.
LEMMA PageIs ==
  ASSUME DiscordTyped, LogInv, NEW c \in Channels
  PROVE  /\ Page(c) \in Pages
         /\ \A e \in DOMAIN Page(c) :
              /\ e \in Posted /\ Channel(e) = c /\ version[e] # "deleted"
              /\ Page(c)[e] = version[e]
              /\ cursor[c] = None \/ IdOf(e) > cursor[c]
<1> DEFINE new == {e \in Posted : /\ Channel(e) = c /\ version[e] # "deleted"
                                  /\ cursor[c] = None \/ IdOf(e) > cursor[c]}
           ahead(e) == IF cursor[c] = None THEN {f \in new : IdOf(f) > IdOf(e)}
                       ELSE {f \in new : IdOf(f) < IdOf(e)}
           D == {e \in new : Cardinality(ahead(e)) < PageSize}
<1>1. Page(c) = [e \in D |-> version[e]]
  BY DEF Page
<1>2. D \subseteq new /\ new \subseteq Events
  BY IdIs DEF DiscordTyped
<1>3. [e \in D |-> version[e]] \in [D -> Versions]
  BY <1>2 DEF DiscordTyped
<1> HIDE DEF D
<1> QED
  BY <1>1, <1>2, <1>3 DEF Pages

\* What the steps of the reconciliation leave of its record.
LEMMA NextUnreadyDoes ==
  ASSUME recon \in Recon, NEW e, recon' = [recon EXCEPT !.ids = @ \ {e}]
  PROVE  /\ recon' \in Recon /\ recon'.ids = recon.ids \ {e}
         /\ recon'.channels = recon.channels /\ recon'.at = recon.at
         /\ recon'.rows = recon.rows /\ recon'.more = recon.more
  BY DEF Recon

LEMMA IdentifyDoes ==
  ASSUME recon' = [NoRecon EXCEPT !.ids = UnreadyRoots(admitted, Policy)]
  PROVE  /\ recon' \in Recon /\ recon'.ids = Unready
         /\ recon'.channels = {} /\ recon'.at = None /\ recon'.rows = NoRows
<1>1. UnreadyRoots(admitted, Policy) \in SUBSET Roots
  BY DEF UnreadyRoots
<1> QED
  BY <1>1, NoReconIs DEF Recon, Unready

LEMMA ScanStartsDoes ==
  ASSUME recon \in Recon, managedThreads \subseteq Threads,
         recon' = [recon EXCEPT !.channels = {Listen} \cup managedThreads]
  PROVE  /\ recon' \in Recon /\ recon'.channels = {Listen} \cup managedThreads
         /\ recon'.ids = recon.ids /\ recon'.at = recon.at
         /\ recon'.rows = recon.rows /\ recon'.more = recon.more
  BY DEF Recon, Channels

LEMMA ReadPageDoes ==
  ASSUME recon \in Recon, NEW c \in Channels, DiscordTyped, LogInv, ReadPage(c)
  PROVE  /\ recon' \in Recon /\ recon'.channels = recon.channels \ {c}
         /\ recon'.rows = Page(c) /\ recon'.ids = recon.ids
         /\ recon'.at = IF Page(c) = NoRows THEN None ELSE c
         /\ recon'.more = (Cardinality(DOMAIN Page(c)) >= PageSize)
<1> DEFINE p == Page(c)
           a == IF p = NoRows THEN None ELSE c
           m == Cardinality(DOMAIN p) >= PageSize
<1>1. p \in Pages /\ a \in Channels \cup {None} /\ m \in BOOLEAN
  BY PageIs
<1>2. recon' = [recon EXCEPT !.channels = @ \ {c}, !.rows = p, !.at = a, !.more = m]
  BY Zenon DEF ReadPage
<1> HIDE DEF p, a, m
<1>3. /\ recon' \in Recon /\ recon'.channels = recon.channels \ {c}
      /\ recon'.rows = p /\ recon'.ids = recon.ids /\ recon'.at = a /\ recon'.more = m
  BY <1>1, <1>2 DEF Recon
<1> QED
  BY <1>3 DEF p, a, m

LEMMA RowDoneDoes ==
  ASSUME recon \in Recon, RowDone
  PROVE  /\ recon' \in Recon /\ recon'.channels = recon.channels /\ recon'.ids = recon.ids
         /\ recon'.more = recon.more
         /\ DOMAIN recon'.rows = DOMAIN recon.rows \ {handler.event}
         /\ \A e \in DOMAIN recon'.rows : recon'.rows[e] = recon.rows[e]
         /\ recon'.at = IF DOMAIN recon.rows \ {handler.event} = {} /\ ~recon.more
                        THEN None ELSE recon.at
<1> DEFINE left == DOMAIN recon.rows \ {handler.event}
           rest == [e \in left |-> recon.rows[e]]
<1>1. recon' = [recon EXCEPT !.rows = rest,
                             !.at = IF left = {} /\ ~recon.more THEN None ELSE @]
  BY DEF RowDone
<1>2. rest \in Pages /\ DOMAIN rest = left /\ \A e \in left : rest[e] = recon.rows[e]
  BY RowIn DEF Pages, Recon
<1> HIDE DEF rest
<1> QED
  BY <1>1, <1>2 DEF Recon

\* No row is old, so that none is pruned here.
LEMMA NothingPruned ==
  ASSUME NEW J, \A e \in Events : ~J[e].old
  PROVE  \A e \in Events : ~Prunable(J, e)
  BY DEF Prunable

\* What reserving a message does to the table.
LEMMA ReserveDoes ==
  ASSUME StoreTyped, AdmittedInv, handler \in Handler, handler.event \in Events, Reserve
  PROVE  /\ admitted' \in [Events -> Row(Nobody)]
         /\ \A e \in Events \ {handler.event} : admitted'[e] = admitted[e]
         /\ admitted'[handler.event].state = "queued"
         /\ admitted'[handler.event].thread = None
         /\ admitted'[handler.event].ready = ~IsRoot
         /\ admitted'[handler.event].policy = Policy
         /\ admitted'[handler.event].at = Cardinality(Present(admitted)) + 1
         /\ ~admitted'[handler.event].old
         /\ handler.event \notin Present(admitted)
         /\ Present(admitted') = Present(admitted) \cup {handler.event}
<1> DEFINE n == Cardinality(Present(admitted)) + 1
           e0 == handler.event
           rdy == ~IsRoot
<1>1. n \in Nat
  BY FS_CardinalityType DEF AdmittedInv
<1>2. Policy \in Policies \cup {None} /\ rdy \in BOOLEAN /\ e0 \in Events
  BY IngressAssumption
<1>7. admitted' = Enqueued(admitted, e0, rdy, Policy, n)
  BY DEF Reserve
<1>3. /\ admitted' \in [Events -> Row(Nobody)]
      /\ \A e \in Events \ {handler.event} :
           admitted'[e] = IF Prunable(admitted, e) THEN NoRow ELSE admitted[e]
      /\ admitted'[handler.event].state = "queued"
      /\ admitted'[handler.event].thread = None
      /\ admitted'[handler.event].ready = ~IsRoot
      /\ admitted'[handler.event].policy = Policy
      /\ admitted'[handler.event].at = Cardinality(Present(admitted)) + 1
      /\ ~admitted'[handler.event].old
  <2> DEFINE E == Enqueued(admitted, e0, rdy, Policy, n)
  <2> HIDE DEF n, e0, rdy
  <2>2. /\ E \in [Events -> Row(Nobody)]
        /\ \A f \in Events \ {e0} : E[f] = IF Prunable(admitted, f) THEN NoRow ELSE admitted[f]
        /\ E[e0].state = "queued" /\ E[e0].thread = None
        /\ E[e0].ready = rdy /\ E[e0].policy = Policy /\ E[e0].at = n /\ ~E[e0].old
    <3>1. admitted \in [Events -> Row(Nobody)]
      BY DEF StoreTyped
    <3>2. Enqueued(admitted, e0, rdy, Policy, n) \in [Events -> Row(Nobody)]
      BY <1>1, <1>2, <3>1, EnqueuedRows
    <3>3. \A f \in Events \ {e0} :
            Enqueued(admitted, e0, rdy, Policy, n)[f] =
              IF Prunable(admitted, f) THEN NoRow ELSE admitted[f]
      BY <1>1, <1>2, <3>1, EnqueuedRows
    <3>4. /\ Enqueued(admitted, e0, rdy, Policy, n)[e0].state = "queued"
          /\ Enqueued(admitted, e0, rdy, Policy, n)[e0].thread = None
          /\ Enqueued(admitted, e0, rdy, Policy, n)[e0].ready = rdy
          /\ Enqueued(admitted, e0, rdy, Policy, n)[e0].policy = Policy
          /\ Enqueued(admitted, e0, rdy, Policy, n)[e0].at = n
      BY <1>1, <1>2, <3>1, EnqueuedRows
    <3>5. ~Enqueued(admitted, e0, rdy, Policy, n)[e0].old
      BY <1>1, <1>2, <3>1, EnqueuedIsYoung
    <3> QED
      BY <3>2, <3>3, <3>4, <3>5
  <2>3. admitted' = E
    BY <1>7
  <2> HIDE DEF E
  <2>1. /\ admitted' \in [Events -> Row(Nobody)]
        /\ \A e \in Events \ {e0} :
             admitted'[e] = IF Prunable(admitted, e) THEN NoRow ELSE admitted[e]
        /\ admitted'[e0].state = "queued" /\ admitted'[e0].thread = None
        /\ admitted'[e0].ready = rdy /\ admitted'[e0].policy = Policy
        /\ admitted'[e0].at = n /\ ~admitted'[e0].old
    BY <2>2, <2>3, Zenon
  <2> QED
    BY <2>1 DEF n, e0, rdy
<1>4. \A e \in Events \ {handler.event} : admitted'[e] = admitted[e]
  BY <1>3, NothingPruned DEF AdmittedInv
<1>5. handler.event \notin Present(admitted)
  BY DEF Reserve
<1>6. Present(admitted') = Present(admitted) \cup {handler.event}
  BY <1>3, <1>4 DEF Present
<1> QED
  BY <1>3, <1>4, <1>5, <1>6

\* What releasing a root does to it.
LEMMA MakeReadyDoes ==
  ASSUME StoreTyped, handler.event \in Unready, MakeReady
  PROVE  /\ admitted' \in [Events -> Row(Nobody)]
         /\ \A e \in Events \ {handler.event} : admitted'[e] = admitted[e]
         /\ admitted'[handler.event].state = "queued"
         /\ admitted'[handler.event].policy = admitted[handler.event].policy
         /\ admitted'[handler.event].at = admitted[handler.event].at
         /\ admitted'[handler.event].thread = ThreadOf[handler.event]
         /\ admitted'[handler.event].ready
         /\ ~admitted'[handler.event].old
         /\ Present(admitted') = Present(admitted)
<1>1. handler.event \in Events /\ admitted[handler.event].state = "queued"
  BY DEF Unready, UnreadyRoots, InState
<1>2. /\ admitted' \in [Events -> Row(Nobody)]
      /\ \A e \in Events \ {handler.event} : admitted'[e] = admitted[e]
      /\ admitted'[handler.event].state = "queued"
      /\ admitted'[handler.event].policy = admitted[handler.event].policy
      /\ admitted'[handler.event].at = admitted[handler.event].at
      /\ admitted'[handler.event].thread = ThreadOf[handler.event]
      /\ admitted'[handler.event].ready
      /\ ~admitted'[handler.event].old
  BY <1>1, MadeReadyRows DEF MakeReady, StoreTyped
<1>3. Present(admitted') = Present(admitted)
  BY <1>1, <1>2 DEF Present
<1> QED
  BY <1>2, <1>3

\* What a worker does to a row.
LEMMA WorkDoes ==
  ASSUME StoreTyped, NEW e \in Events, Work(e)
  PROVE  /\ admitted' \in [Events -> Row(Nobody)]
         /\ \A f \in Events \ {e} : admitted'[f] = admitted[f]
         /\ admitted'[e].state = "completed" /\ admitted[e].state = "queued"
         /\ admitted[e].ready /\ ~admitted'[e].old
         /\ SameOrigin(admitted'[e], admitted[e])
         /\ Present(admitted') = Present(admitted)
<1>1. admitted[e].state = "queued" /\ admitted[e].ready
  BY DEF Work, NextClaimable, Claimable, InState
<1> DEFINE K == Claimed(admitted, e, None)
<1>2. /\ K \in [Events -> Row(Nobody)]
      /\ \A f \in Events \ {e} : K[f] = admitted[f]
      /\ SameOrigin(K[e], admitted[e])
  <2>1. None \in Nobody
    BY DEF Nobody
  <2> QED
    BY <2>1, ClaimedRows DEF StoreTyped
<1>3. admitted' = Moved(K, e, "completed")
  BY DEF Work
<1> HIDE DEF K
<1>4. /\ admitted' \in [Events -> Row(Nobody)]
      /\ \A f \in Events \ {e} : admitted'[f] = K[f]
      /\ admitted'[e].state = "completed" /\ ~admitted'[e].old
      /\ SameOrigin(admitted'[e], K[e])
  BY <1>2, <1>3, MovedRows DEF JobStates
<1>5. SameOrigin(admitted'[e], admitted[e])
  BY <1>2, <1>4 DEF SameOrigin
<1>6. Present(admitted') = Present(admitted)
  BY <1>1, <1>2, <1>4 DEF Present
<1> QED
  BY <1>1, <1>2, <1>4, <1>5, <1>6

\* What taking a deleted root back does to it.
LEMMA CancelDoes ==
  ASSUME StoreTyped, NEW e \in Unready, CancelUnready(e)
  PROVE  /\ admitted' \in [Events -> Row(Nobody)]
         /\ \A f \in Events \ {e} : admitted'[f] = admitted[f]
         /\ admitted'[e].state = "cancelled" /\ ~admitted'[e].old
         /\ SameOrigin(admitted'[e], admitted[e])
         /\ Present(admitted') = Present(admitted)
<1>1. e \in Events /\ admitted[e].state = "queued"
  BY DEF Unready, UnreadyRoots, InState
<1>2. /\ admitted' \in [Events -> Row(Nobody)]
      /\ \A f \in Events \ {e} : admitted'[f] = admitted[f]
      /\ admitted'[e].state = "cancelled" /\ ~admitted'[e].old
      /\ SameOrigin(admitted'[e], admitted[e])
  BY <1>1, MovedRows DEF CancelUnready, StoreTyped, JobStates
<1> QED
  BY <1>1, <1>2 DEF Present

\* A handler at work has a message in hand.
LEMMA InHandIs ==
  ASSUME IngressInv, Busy
  PROVE  /\ HandInv /\ handler.event \in Posted /\ handler.event \in Events
         /\ handler.event # None /\ IdOf(handler.event) \in 1..Len(log)
<1>1. HandInv
  BY DEF IngressInv, ConnectionInv
<1>2. log \in Seq(Events) /\ LogInv
  BY DEF IngressInv, IngressTyped, DiscordTyped
<1> QED
  BY <1>1, <1>2, IdIs, StoreAssumption DEF HandInv

\* A cursor moves to a message's place.
LEMMA CursorMoves ==
  ASSUME StoreTyped, NEW c, NEW n \in 1..Len(log)
  PROVE  [cursor EXCEPT ![c] = n] \in [Channels -> (0..Len(log)) \cup {None}]
<1> DEFINE S == (0..Len(log)) \cup {None}
<1>1. cursor \in [Channels -> S] /\ n \in S
  BY DEF StoreTyped
<1> HIDE DEF S
<1>2. [cursor EXCEPT ![c] = n] \in [Channels -> S]
  BY <1>1
<1> QED
  BY <1>2 DEF S

\* The typing is kept.
LEMMA IngressTypedStep ==
  ASSUME IngressInv, [IngressNext]_ingressVars
  PROVE  IngressTyped'
<1> USE DEF IngressInv, IngressTyped, StoreTyped, DiscordTyped, ClientTyped,
HistoryTyped,
            Busy
<1>1. ASSUME NEW e \in Events, Post(e) PROVE IngressTyped'
  BY <1>1, PostDoes DEF Post, ingressVars, storeVars, table, routing,
     discordVars, clientVars, auxVars, others
<1>2. ASSUME NEW e \in Events, NEW v \in Changes, Change(e, v) PROVE IngressTyped'
  BY <1>2, IngressAssumption DEF Change, Versions, ingressVars, storeVars,
     table, routing,
     discordVars, clientVars, auxVars, others
<1>3. CASE Expire
  <2>1. expiries' \in 0..MaxExpiries
    BY <1>3, IngressAssumption DEF Expire
  <2> QED
    BY <1>3, <2>1 DEF Expire, ingressVars, storeVars, table, routing,
     discordVars, clientVars, auxVars, others
<1>4. CASE StartBridge
  <2>1. CASE cursor[Listen] = None
    <3>1. cursor' \in [Channels -> (0..Len(log)) \cup {None}] /\ boundary' \subseteq Events
      BY <1>4, <2>1, IdIs DEF StartBridge, Channels
    <3> QED
      BY <1>4, <3>1 DEF StartBridge, ingressVars, storeVars, table, routing,
     discordVars, clientVars, auxVars, others
  <2>2. CASE cursor[Listen] # None
    BY <1>4, <2>2 DEF StartBridge, ingressVars, storeVars, table, routing,
     discordVars, clientVars, auxVars, others
  <2> QED
    BY <2>1, <2>2
<1>5. CASE Resume
  BY <1>5 DEF Resume, ingressVars, storeVars, table, routing,
     discordVars, clientVars, auxVars, others
<1>6. CASE ResumeRefused
  BY <1>6 DEF ResumeRefused, ingressVars, storeVars, table, routing,
     discordVars, clientVars, auxVars, others
<1>7. CASE Identify
  BY <1>7, IdentifyDoes DEF Identify, ingressVars, storeVars, table, routing,
     discordVars, clientVars, auxVars, others
<1>8. CASE Disconnect
  <2>1. handler' \in Handler /\ recon' \in Recon /\ pc' = "connecting"
    BY <1>8, AbortsTo DEF Disconnect
  <2>2. open' \subseteq Threads
    BY <1>8, InHandIs, StoreAssumption DEF Disconnect, Thread, discordVars
  <2> QED
    BY <1>8, <2>1, <2>2, IngressAssumption
    DEF Disconnect, ingressVars, storeVars, table, routing,
     discordVars, clientVars, auxVars, others
<1>9. CASE Crash
  <2>1. faults' \in 0..MaxFaults
    BY <1>9, IngressAssumption DEF Crash
  <2> QED
    BY <1>9, <2>1, NoMessageIs, NoReconIs
    DEF Crash, ingressVars, storeVars, table, routing,
     discordVars, clientVars, auxVars, others
<1>10. CASE NextDispatch
  <2>1. log[passed + 1] \in Events /\ "original" \in Versions
    BY <1>10 DEF NextDispatch, Versions
  <2> QED
    BY <1>10, <2>1, TakesTo DEF NextDispatch, ingressVars, storeVars, table,
       routing,
     discordVars, clientVars, auxVars, others
<1>11. ASSUME NEW e \in Events, NextUnready(e) PROVE IngressTyped'
  <2>1. recon' \in Recon
    BY <1>11, NextUnreadyDoes DEF NextUnready
  <2>2. handler' \in Handler
    BY <1>11, TakesTo DEF NextUnready
  <2> QED
    BY <1>11, <2>1, <2>2 DEF NextUnready, ingressVars, storeVars, table,
       routing,
     discordVars, clientVars, auxVars, others
<1>12. ASSUME NEW e \in Events, CancelUnready(e) PROVE IngressTyped'
  <2>1. recon' \in Recon
    BY <1>12, NextUnreadyDoes DEF CancelUnready
  <2>2. e \in Unready
    BY <1>12 DEF CancelUnready, ConnectionInv
  <2>3. admitted' \in [Events -> Row(Nobody)]
    BY <1>12, <2>2, CancelDoes
  <2>4. /\ managedThreads' \subseteq Threads
        /\ cursor' \in [Channels -> (0..Len(log)) \cup {None}]
    BY <1>12 DEF CancelUnready
  <2> QED
    BY <1>12, <2>1, <2>3, <2>4 DEF CancelUnready, ingressVars, storeVars,
       table, routing,
     discordVars, clientVars, auxVars, others
<1>13. CASE ScanStarts
  BY <1>13, ScanStartsDoes DEF ScanStarts, ingressVars, storeVars, table,
     routing,
     discordVars, clientVars, auxVars, others
<1>14. ASSUME NEW c \in Channels, ReadPage(c) PROVE IngressTyped'
  <2>1. recon' \in Recon
    BY <1>14, ReadPageDoes
  <2> QED
    BY <1>14, <2>1 DEF ReadPage, ingressVars, storeVars, table, routing,
     discordVars, clientVars, auxVars, others
<1>15. CASE NextRow
  <2>1. PICK e \in DOMAIN recon.rows : Takes(e, recon.rows[e], "scan")
    BY <1>15 DEF NextRow
  <2>2. handler' \in Handler
    BY <2>1, RowIn, TakesTo
  <2> QED
    BY <1>15, <2>2 DEF NextRow, ingressVars, storeVars, table, routing,
     discordVars, clientVars, auxVars, others
<1>16. CASE ScanEnds
  BY <1>16 DEF ScanEnds, ingressVars, storeVars, table, routing,
     discordVars, clientVars, auxVars, others
<1>17. CASE Ignore
  <2>1. handler' \in Handler
    BY <1>17, StepTo DEF Ignore, HandlerPc
  <2> QED
    BY <1>17, <2>1 DEF Ignore, ingressVars, storeVars, table, routing,
     discordVars, clientVars, auxVars, others
<1>18. CASE Decline
  <2>1. handler' \in Handler
    BY <1>18, StepTo DEF Decline, HandlerPc
  <2>2. declined' \subseteq Events
    BY <1>18, InHandIs DEF Decline
  <2> QED
    BY <1>18, <2>1, <2>2 DEF Decline, ingressVars, storeVars, table, routing,
     discordVars, clientVars, auxVars, others
<1>19. CASE Reserve
  <2>1. handler' \in Handler
    BY <1>19, StepTo DEF Reserve, HandlerPc
  <2>2. handler.event \in Events
    BY <1>19, InHandIs DEF Reserve, Accepts
  <2>3. admitted' \in [Events -> Row(Nobody)]
    BY <1>19, <2>2, ReserveDoes
  <2>4. content' \in [Events -> Versions \cup {None}]
    BY <1>19, <2>2 DEF Reserve, Handler
  <2> QED
    BY <1>19, <2>1, <2>3, <2>4 DEF Reserve, ingressVars, storeVars, table,
       routing,
     discordVars, clientVars, auxVars, others
<1>20. CASE Repeat
  <2>1. handler' \in Handler
    BY <1>20, StepTo DEF Repeat, HandlerPc
  <2> QED
    BY <1>20, <2>1 DEF Repeat, ingressVars, storeVars, table, routing,
     discordVars, clientVars, auxVars, others
<1>21. CASE Conflict
  BY <1>21, AbortsTo DEF Conflict, ingressVars, storeVars, table, routing,
     discordVars, clientVars, auxVars, others
<1>22. CASE Acknowledge
  <2>1. handler' \in Handler
    BY <1>22, StepTo DEF Acknowledge, HandlerPc
  <2> QED
    BY <1>22, <2>1 DEF Acknowledge, ingressVars, storeVars, table, routing,
     discordVars, clientVars, auxVars, others
<1>23. CASE Gone
  BY <1>23, AbortsTo DEF Gone, ingressVars, storeVars, table, routing,
     discordVars, clientVars, auxVars, others
<1>24. CASE OpenThread
  <2>1. handler' \in Handler
    BY <1>24, StepTo DEF OpenThread, HandlerPc
  <2>2. open' \subseteq Threads
    BY <1>24, InHandIs, StoreAssumption DEF OpenThread, Thread
  <2> QED
    BY <1>24, <2>1, <2>2 DEF OpenThread, ingressVars, storeVars, table,
       routing,
     discordVars, clientVars, auxVars, others
<1>25. CASE OpenThreadUnheard
  <2>1. handler' \in Handler /\ recon' \in Recon /\ pc' = "connecting"
    BY <1>25, AbortsTo DEF OpenThreadUnheard
  <2>2. open' \subseteq Threads
    BY <1>25, InHandIs, StoreAssumption DEF OpenThreadUnheard, Thread,
       discordVars
  <2> QED
    BY <1>25, <2>1, <2>2, IngressAssumption
    DEF OpenThreadUnheard, ingressVars, storeVars, table, routing,
     discordVars, clientVars, auxVars, others
<1>26. CASE SaveThread
  <2>1. handler' \in Handler
    BY <1>26, StepTo DEF SaveThread, HandlerPc
  <2>2. mapped' \subseteq Roots
    BY <1>26 DEF SaveThread, RouteInv, DoneInv, Routing, Unready, UnreadyRoots
  <2> QED
    BY <1>26, <2>1, <2>2 DEF SaveThread, ingressVars, storeVars, table,
       routing,
     discordVars, clientVars, auxVars, others
<1>27. CASE SaveManaged
  <2>1. handler' \in Handler
    BY <1>27, StepTo DEF SaveManaged, HandlerPc
  <2>2. managedThreads' \subseteq Threads
    BY <1>27, InHandIs, StoreAssumption DEF SaveManaged, Thread
  <2> QED
    BY <1>27, <2>1, <2>2 DEF SaveManaged, ingressVars, storeVars, table,
       routing,
     discordVars, clientVars, auxVars, others
<1>28. CASE SaveThreadCursor
  <2>1. handler' \in Handler
    BY <1>28, StepTo DEF SaveThreadCursor, HandlerPc
  <2>2. IdOf(handler.event) \in 1..Len(log)
    BY <1>28, InHandIs, IdIs DEF SaveThreadCursor
  <2>3. cursor' \in [Channels -> (0..Len(log)) \cup {None}]
    BY <1>28, <2>2, CursorMoves DEF SaveThreadCursor
  <2> QED
    BY <1>28, <2>1, <2>3 DEF SaveThreadCursor, ingressVars, storeVars, table,
       routing,
     discordVars, clientVars, auxVars, others
<1>29. CASE MakeReady
  <2>1. handler' \in Handler
    BY <1>29, StepTo DEF MakeReady, HandlerPc
  <2>2. handler.event \in Unready
    BY <1>29 DEF MakeReady, RouteInv, DoneInv, Routing
  <2>3. admitted' \in [Events -> Row(Nobody)]
    BY <1>29, <2>2, MakeReadyDoes
  <2> QED
    BY <1>29, <2>1, <2>3 DEF MakeReady, ingressVars, storeVars, table, routing,
     discordVars, clientVars, auxVars, others
<1>30. CASE DispatchDone
  <2>1. handler' \in Handler
    BY <1>30, NoMessageIs DEF DispatchDone
  <2>2. passed' \in 0..Len(log) /\ IdOf(handler.event) \in 1..Len(log)
    BY <1>30, InHandIs, IdIs DEF DispatchDone, HandInv
  <2>3. cursor' \in [Channels -> (0..Len(log)) \cup {None}]
    BY <1>30, <2>2, CursorMoves DEF DispatchDone, Advanced
  <2> QED
    BY <1>30, <2>1, <2>2, <2>3 DEF DispatchDone, ingressVars, storeVars,
       table, routing,
     discordVars, clientVars, auxVars, others
<1>31. CASE UnreadyDone
  BY <1>31, NoMessageIs DEF UnreadyDone, ingressVars, storeVars, table,
     routing,
     discordVars, clientVars, auxVars, others
<1>32. CASE RowDone
  <2>1. handler' \in Handler /\ recon' \in Recon
    BY <1>32, NoMessageIs, RowDoneDoes DEF RowDone
  <2>2. IdOf(handler.event) \in 1..Len(log)
    BY <1>32, InHandIs, IdIs DEF RowDone, HandInv
  <2>3. cursor' \in [Channels -> (0..Len(log)) \cup {None}]
    BY <1>32, <2>2, CursorMoves DEF RowDone, Advanced
  <2> QED
    BY <1>32, <2>1, <2>3 DEF RowDone, ingressVars, storeVars, table, routing,
     discordVars, clientVars, auxVars, others
<1>33. ASSUME NEW e \in Events, Work(e) PROVE IngressTyped'
  <2>1. admitted' \in [Events -> Row(Nobody)]
    BY <1>33, WorkDoes
  <2> QED
    BY <1>33, <2>1 DEF Work, ingressVars, storeVars, table, routing,
     discordVars, clientVars, auxVars, others
<1>34. CASE UNCHANGED ingressVars
  BY <1>34 DEF ingressVars, storeVars, table, routing,
     discordVars, clientVars, auxVars, others
<1> QED
  BY <1>1, <1>2, <1>3, <1>4, <1>5, <1>6, <1>7, <1>8, <1>9, <1>10, <1>11,
     <1>12, <1>13, <1>14, <1>15, <1>16, <1>17, <1>18, <1>19, <1>20, <1>21,
     <1>22, <1>23, <1>24, <1>25, <1>26, <1>27, <1>28, <1>29, <1>30, <1>31,
     <1>32, <1>33, <1>34 DEF IngressNext, Owner, Connects,
     Reads, Handles, WorkerSteps, Faults

\* Who moves what.
LEMMA Movers ==
  ASSUME [IngressNext]_ingressVars
  PROVE  /\ log' = log \/ \E e \in Events : Post(e)
         /\ version' = version \/ \E e \in Events, v \in Changes : Change(e, v)
         /\ open' = open \/ OpenThread \/ OpenThreadUnheard
         /\ admitted' = admitted \/ Reserve \/ MakeReady
            \/ \E e \in Events : CancelUnready(e) \/ Work(e)
         /\ mapped' = mapped \/ SaveThread \/ \E e \in Events : CancelUnready(e)
         /\ managedThreads' = managedThreads \/ SaveManaged
            \/ \E e \in Events : CancelUnready(e)
         /\ cursor' = cursor \/ StartBridge \/ SaveThreadCursor \/ DispatchDone \/ RowDone
            \/ \E e \in Events : CancelUnready(e)
         /\ declined' = declined \/ Decline
         /\ boundary' = boundary \/ StartBridge
         /\ passed' = passed \/ Identify \/ DispatchDone
<1> DEFINE Goal ==
  /\ log' = log \/ \E e \in Events : Post(e)
  /\ version' = version \/ \E e \in Events, v \in Changes : Change(e, v)
  /\ open' = open \/ OpenThread \/ OpenThreadUnheard
  /\ admitted' = admitted \/ Reserve \/ MakeReady
     \/ \E e \in Events : CancelUnready(e) \/ Work(e)
  /\ mapped' = mapped \/ SaveThread \/ \E e \in Events : CancelUnready(e)
  /\ managedThreads' = managedThreads \/ SaveManaged
     \/ \E e \in Events : CancelUnready(e)
  /\ cursor' = cursor \/ StartBridge \/ SaveThreadCursor \/ DispatchDone \/ RowDone
     \/ \E e \in Events : CancelUnready(e)
  /\ declined' = declined \/ Decline
  /\ boundary' = boundary \/ StartBridge
  /\ passed' = passed \/ Identify \/ DispatchDone
<1> SUFFICES Goal
  BY DEF Goal
<1>1. ASSUME NEW e \in Events, Post(e) PROVE Goal
  BY <1>1 DEF Post, ingressVars, storeVars, table, routing,
     discordVars, clientVars, auxVars, others
<1>2. ASSUME NEW e \in Events, NEW v \in Changes, Change(e, v) PROVE Goal
  BY <1>2 DEF Change, ingressVars, storeVars, table, routing,
     discordVars, clientVars, auxVars, others
<1>3. CASE Expire
  BY <1>3 DEF Expire, ingressVars, storeVars, table, routing,
     discordVars, clientVars, auxVars, others
<1>4. CASE StartBridge
  BY <1>4 DEF StartBridge, ingressVars, storeVars, table, routing,
     discordVars, clientVars, auxVars, others
<1>5. CASE Resume
  BY <1>5 DEF Resume, ingressVars, storeVars, table, routing,
     discordVars, clientVars, auxVars, others
<1>6. CASE ResumeRefused
  BY <1>6 DEF ResumeRefused, ingressVars, storeVars, table, routing,
     discordVars, clientVars, auxVars, others
<1>7. CASE Identify
  BY <1>7 DEF Identify, ingressVars, storeVars, table, routing,
     discordVars, clientVars, auxVars, others
<1>8. CASE Disconnect
  BY <1>8 DEF Disconnect, ingressVars, storeVars, table, routing,
     discordVars, clientVars, auxVars, others
<1>9. CASE Crash
  BY <1>9 DEF Crash, ingressVars, storeVars, table, routing,
     discordVars, clientVars, auxVars, others
<1>10. CASE NextDispatch
  BY <1>10 DEF NextDispatch, ingressVars, storeVars, table, routing,
     discordVars, clientVars, auxVars, others
<1>11. ASSUME NEW e \in Events, NextUnready(e) PROVE Goal
  BY <1>11 DEF NextUnready, ingressVars, storeVars, table, routing,
     discordVars, clientVars, auxVars, others
<1>12. ASSUME NEW e \in Events, CancelUnready(e) PROVE Goal
  BY <1>12 DEF CancelUnready, ingressVars, storeVars, table, routing,
     discordVars, clientVars, auxVars, others
<1>13. CASE ScanStarts
  BY <1>13 DEF ScanStarts, ingressVars, storeVars, table, routing,
     discordVars, clientVars, auxVars, others
<1>14. ASSUME NEW c \in Channels, ReadPage(c) PROVE Goal
  BY <1>14 DEF ReadPage, ingressVars, storeVars, table, routing,
     discordVars, clientVars, auxVars, others
<1>15. CASE NextRow
  BY <1>15 DEF NextRow, ingressVars, storeVars, table, routing,
     discordVars, clientVars, auxVars, others
<1>16. CASE ScanEnds
  BY <1>16 DEF ScanEnds, ingressVars, storeVars, table, routing,
     discordVars, clientVars, auxVars, others
<1>17. CASE Ignore
  BY <1>17 DEF Ignore, ingressVars, storeVars, table, routing,
     discordVars, clientVars, auxVars, others
<1>18. CASE Decline
  BY <1>18 DEF Decline, ingressVars, storeVars, table, routing,
     discordVars, clientVars, auxVars, others
<1>19. CASE Reserve
  BY <1>19 DEF Reserve, ingressVars, storeVars, table, routing,
     discordVars, clientVars, auxVars, others
<1>20. CASE Repeat
  BY <1>20 DEF Repeat, ingressVars, storeVars, table, routing,
     discordVars, clientVars, auxVars, others
<1>21. CASE Conflict
  BY <1>21 DEF Conflict, ingressVars, storeVars, table, routing,
     discordVars, clientVars, auxVars, others
<1>22. CASE Acknowledge
  BY <1>22 DEF Acknowledge, ingressVars, storeVars, table, routing,
     discordVars, clientVars, auxVars, others
<1>23. CASE Gone
  BY <1>23 DEF Gone, ingressVars, storeVars, table, routing,
     discordVars, clientVars, auxVars, others
<1>24. CASE OpenThread
  BY <1>24 DEF OpenThread, ingressVars, storeVars, table, routing,
     discordVars, clientVars, auxVars, others
<1>25. CASE OpenThreadUnheard
  BY <1>25 DEF OpenThreadUnheard, ingressVars, storeVars, table, routing,
     discordVars, clientVars, auxVars, others
<1>26. CASE SaveThread
  BY <1>26 DEF SaveThread, ingressVars, storeVars, table, routing,
     discordVars, clientVars, auxVars, others
<1>27. CASE SaveManaged
  BY <1>27 DEF SaveManaged, ingressVars, storeVars, table, routing,
     discordVars, clientVars, auxVars, others
<1>28. CASE SaveThreadCursor
  BY <1>28 DEF SaveThreadCursor, ingressVars, storeVars, table, routing,
     discordVars, clientVars, auxVars, others
<1>29. CASE MakeReady
  BY <1>29 DEF MakeReady, ingressVars, storeVars, table, routing,
     discordVars, clientVars, auxVars, others
<1>30. CASE DispatchDone
  BY <1>30 DEF DispatchDone, ingressVars, storeVars, table, routing,
     discordVars, clientVars, auxVars, others
<1>31. CASE UnreadyDone
  BY <1>31 DEF UnreadyDone, ingressVars, storeVars, table, routing,
     discordVars, clientVars, auxVars, others
<1>32. CASE RowDone
  BY <1>32 DEF RowDone, ingressVars, storeVars, table, routing,
     discordVars, clientVars, auxVars, others
<1>33. ASSUME NEW e \in Events, Work(e) PROVE Goal
  BY <1>33 DEF Work, ingressVars, storeVars, table, routing,
     discordVars, clientVars, auxVars, others
<1>34. CASE UNCHANGED ingressVars
  BY <1>34 DEF ingressVars, storeVars, table, routing,
     discordVars, clientVars, auxVars, others
<1> QED
  BY <1>1, <1>2, <1>3, <1>4, <1>5, <1>6, <1>7, <1>8, <1>9, <1>10, <1>11,
     <1>12, <1>13, <1>14, <1>15, <1>16, <1>17, <1>18, <1>19, <1>20, <1>21,
     <1>22, <1>23, <1>24, <1>25, <1>26, <1>27, <1>28, <1>29, <1>30, <1>31,
     <1>32, <1>33, <1>34 DEF IngressNext, Owner, Connects,
     Reads, Handles, WorkerSteps, Faults

\* Rows come by reservation, and keep their origin, their thread and their release.
LEMMA TableGrows ==
  ASSUME IngressInv, [IngressNext]_ingressVars
  PROVE  /\ Present(admitted) \subseteq Present(admitted')
         /\ \A e \in Present(admitted') \ Present(admitted) : Reserve /\ e = handler.event
         /\ \A e \in Present(admitted) :
              /\ admitted'[e].at = admitted[e].at /\ admitted'[e].policy = admitted[e].policy
              /\ admitted[e].ready => /\ admitted'[e].ready
                                      /\ admitted'[e].thread = admitted[e].thread
              /\ admitted'[e].ready # admitted[e].ready => MakeReady /\ e = handler.event
              /\ admitted'[e].thread # admitted[e].thread => MakeReady /\ e = handler.event
<1> USE DEF IngressInv, IngressTyped
<1>1. CASE admitted' = admitted
  BY <1>1 DEF Present
<1>2. CASE Reserve
  <2>1. handler.event \in Events
    BY <1>2, InHandIs DEF Reserve, Accepts, Busy
  <2>2. /\ \A e \in Events \ {handler.event} : admitted'[e] = admitted[e]
        /\ handler.event \notin Present(admitted)
        /\ Present(admitted') = Present(admitted) \cup {handler.event}
    BY <1>2, <2>1, ReserveDoes DEF ClientTyped
  <2> QED
    BY <1>2, <2>2 DEF Present
<1>3. CASE MakeReady
  <2>1. handler.event \in Unready
    BY <1>3 DEF MakeReady, RouteInv, DoneInv, Routing
  <2>2. ~admitted[handler.event].ready
    BY <2>1 DEF Unready, UnreadyRoots
  <2> QED
    BY <1>3, <2>1, <2>2, MakeReadyDoes DEF Present
<1>4. ASSUME NEW x \in Events, CancelUnready(x) PROVE x \in Unready
  BY <1>4 DEF CancelUnready, ConnectionInv
<1>5. ASSUME NEW x \in Events, CancelUnready(x)
      PROVE  /\ Present(admitted') = Present(admitted)
             /\ \A e \in Present(admitted) : SameOrigin(admitted'[e], admitted[e])
  BY <1>4, <1>5, CancelDoes DEF Present, SameOrigin
<1>6. ASSUME NEW x \in Events, Work(x)
      PROVE  /\ Present(admitted') = Present(admitted)
             /\ \A e \in Present(admitted) : SameOrigin(admitted'[e], admitted[e])
  BY <1>6, WorkDoes DEF Present, SameOrigin
<1> QED
  BY <1>1, <1>2, <1>3, <1>5, <1>6, Movers DEF SameOrigin

\* Discord's log, its changes and the histories only grow.
LEMMA HistoryGrows ==
  ASSUME IngressInv, [IngressNext]_ingressVars
  PROVE  /\ Posted \subseteq Posted'
         /\ \A e \in Posted : IdOf(e)' = IdOf(e)
         /\ \A e \in Posted' \ Posted : Post(e) /\ IdOf(e)' = Len(log) + 1
         /\ Len(log') \in {Len(log), Len(log) + 1}
         /\ \A i \in 1..Len(log) : log'[i] = log[i]
         /\ \A e \in Events : version[e] # "original" => version'[e] = version[e]
         /\ open \subseteq open' /\ declined \subseteq declined'
<1> USE DEF IngressInv, IngressTyped, DiscordTyped
<1>1. CASE log' = log
  <2>1. Posted' = Posted /\ \A e \in Posted : IdOf(e)' = IdOf(e)
    BY <1>1 DEF Posted, IdOf
  <2> QED
    BY <1>1, <2>1, Movers DEF Change, OpenThread, OpenThreadUnheard, Decline
<1>2. ASSUME NEW x \in Events, Post(x) PROVE UNCHANGED <<version, open, declined>>
  BY <1>2 DEF Post, auxVars
<1>3. ASSUME NEW x \in Events, Post(x)
      PROVE  /\ Posted \subseteq Posted' /\ \A e \in Posted : IdOf(e)' = IdOf(e)
             /\ \A e \in Posted' \ Posted : Post(e) /\ IdOf(e)' = Len(log) + 1
             /\ Len(log') \in {Len(log), Len(log) + 1}
             /\ \A i \in 1..Len(log) : log'[i] = log[i]
  BY <1>3, PostDoes
<1> QED
  BY <1>1, <1>2, <1>3, Movers

\* Discord's side is kept.
LEMMA LogStep ==
  ASSUME IngressInv, [IngressNext]_ingressVars
  PROVE  LogInv'
<1> USE DEF IngressInv, IngressTyped
<1>1. \A i, j \in 1..Len(log') : log'[i] = log'[j] => i = j
  BY Movers, PostDoes DEF LogInv, DiscordTyped
<1>2. \A t \in open' : \E r \in Roots \cap Present(admitted') : ThreadOf[r] = t
  <2>1. \A t \in open : \E r \in Roots \cap Present(admitted') : ThreadOf[r] = t
    BY TableGrows DEF LogInv
  <2>2. CASE OpenThread \/ OpenThreadUnheard
    <3>1. handler.event \in Unready
      BY <2>2 DEF OpenThread, OpenThreadUnheard, RouteInv, DoneInv, Routing
    <3>2. handler.event \in Roots \cap Present(admitted')
      BY <3>1, TableGrows DEF Unready, UnreadyRoots, InState, Present
    <3>3. open' = open \cup {ThreadOf[handler.event]}
      BY <2>2 DEF OpenThread, OpenThreadUnheard, Thread
    <3> QED
      BY <2>1, <3>2, <3>3
  <2> QED
    BY <2>1, <2>2, Movers
<1>3. ASSUME NEW e \in Posted' \cap Replies PROVE ThreadOf[e] \in open'
  <2>1. CASE e \in Posted
    BY <2>1, <1>3, HistoryGrows DEF LogInv
  <2>2. CASE e \notin Posted
    <3>1. Post(e) /\ e \notin Roots
      BY <1>3, <2>2, HistoryGrows DEF Replies
    <3> QED
      BY <3>1 DEF Post
  <2> QED
    BY <2>1, <2>2
<1>4. ASSUME NEW e \in Posted' \cap Replies, NEW r \in Roots \cap Posted',
             ThreadOf[r] = ThreadOf[e]
      PROVE  IdOf(r)' < IdOf(e)'
  <2>1. r \in Posted
    <3>1. CASE r \notin Posted
      <4>1. Post(r) /\ e # r
        BY <1>4, <3>1, HistoryGrows DEF Replies
      <4>2. e \in Posted
        BY <4>1, PostDoes, StoreAssumption, <1>4 DEF DiscordTyped, Replies
      <4>3. PICK s \in Roots \cap Present(admitted) : ThreadOf[s] = ThreadOf[e]
        BY <1>4, <4>2 DEF LogInv
      <4>4. s = r /\ s \in Posted
        BY <1>4, <4>3, StoreAssumption DEF AdmittedInv
      <4> QED
        BY <3>1, <4>4
    <3> QED
      BY <3>1
  <2>2. IdOf(r)' = IdOf(r) /\ IdOf(r) \in 1..Len(log)
    BY <2>1, HistoryGrows, IdIs DEF LogInv, DiscordTyped
  <2>3. CASE e \in Posted
    BY <1>4, <2>1, <2>2, <2>3, HistoryGrows DEF LogInv
  <2>4. CASE e \notin Posted
    <3>1. IdOf(e)' = Len(log) + 1 /\ Len(log) \in Nat
      BY <1>4, <2>4, HistoryGrows DEF DiscordTyped
    <3> QED
      BY <2>2, <3>1
  <2> QED
    BY <2>3, <2>4
<1> QED
  BY <1>1, <1>2, <1>3, <1>4 DEF LogInv

\* The table is kept.
LEMMA AdmittedStep ==
  ASSUME IngressInv, [IngressNext]_ingressVars
  PROVE  AdmittedInv'
<1> USE DEF IngressInv, IngressTyped
<1> DEFINE Good(J, e) ==
      /\ ~J[e].old
      /\ e \in Present(J) => J[e].policy = Policy
      /\ J[e].thread = IF e \in Roots /\ J[e].ready THEN ThreadOf[e] ELSE None
      /\ e \in Present(J) => J[e].at <= Cardinality(Present(J))
      /\ e \notin Present(J) => ~J[e].ready
<1>0. \A e \in Events : Good(admitted, e)
  BY DEF AdmittedInv
<1>1. ASSUME \/ admitted' = admitted
             \/ /\ Present(admitted') = Present(admitted)
                /\ \A e \in Events : Good(admitted', e)
      PROVE  AdmittedInv'
  <2>1. Present(admitted') = Present(admitted) /\ \A e \in Events : Good(admitted', e)
    BY <1>0, <1>1
  <2> QED
    BY <2>1, HistoryGrows DEF AdmittedInv
<1>2. CASE Reserve
  <2>1. handler.event \in Posted /\ handler.event \in Events
    BY <1>2, InHandIs DEF Reserve, Accepts, Busy
  <2>2. IsFiniteSet(Present(admitted))
    BY DEF AdmittedInv
  <2>3. /\ \A e \in Events \ {handler.event} : admitted'[e] = admitted[e]
        /\ admitted'[handler.event].state = "queued"
        /\ admitted'[handler.event].thread = None
        /\ admitted'[handler.event].ready = ~IsRoot
        /\ admitted'[handler.event].policy = Policy
        /\ admitted'[handler.event].at = Cardinality(Present(admitted)) + 1
        /\ ~admitted'[handler.event].old
        /\ handler.event \notin Present(admitted)
        /\ Present(admitted') = Present(admitted) \cup {handler.event}
    BY <1>2, <2>1, ReserveDoes DEF ClientTyped
  <2>4. /\ IsFiniteSet(Present(admitted'))
        /\ Cardinality(Present(admitted')) = Cardinality(Present(admitted)) + 1
        /\ Cardinality(Present(admitted)) \in Nat
    BY <2>2, <2>3, FS_AddElement, FS_CardinalityType
  <2>5. Good(admitted', handler.event)
    <3>1. admitted'[handler.event].at <= Cardinality(Present(admitted'))
      BY <2>3, <2>4
    <3>2. handler.event \in Present(admitted')
      BY <2>3
    <3>3. admitted'[handler.event].thread =
            IF handler.event \in Roots /\ admitted'[handler.event].ready
            THEN ThreadOf[handler.event] ELSE None
      BY <2>3 DEF IsRoot
    <3> QED
      BY <2>3, <3>1, <3>2, <3>3
  <2>6. \A e \in Events : admitted[e].at \in Nat
    BY DEF StoreTyped, Row
  <2>7. ASSUME NEW e \in Events \ {handler.event} PROVE Good(admitted', e)
    BY <1>0, <2>3, <2>4, <2>6
  <2>8. Present(admitted') \subseteq Posted'
    BY <2>1, <2>3, HistoryGrows DEF AdmittedInv
  <2> QED
    BY <2>4, <2>5, <2>7, <2>8 DEF AdmittedInv
<1>3. CASE MakeReady
  <2>1. handler.event \in Unready
    BY <1>3 DEF MakeReady, RouteInv, DoneInv, Routing
  <2>2. handler.event \in Roots \cap Events /\ handler.event \in Present(admitted)
    BY <2>1 DEF Unready, UnreadyRoots, InState, Present
  <2> QED
    BY <1>0, <1>1, <1>3, <2>1, <2>2, MakeReadyDoes
<1>4. ASSUME NEW x \in Events, CancelUnready(x) PROVE AdmittedInv'
  <2>1. x \in Unready
    BY <1>4 DEF CancelUnready, ConnectionInv
  <2> QED
    BY <1>0, <1>1, <1>4, <2>1, CancelDoes DEF SameOrigin
<1>5. ASSUME NEW x \in Events, Work(x) PROVE AdmittedInv'
  BY <1>0, <1>1, <1>5, WorkDoes DEF SameOrigin
<1> QED
  BY <1>1, <1>2, <1>3, <1>4, <1>5, Movers

\* What is reserved and not released.
LEMMA UnreadyIs ==
  ASSUME IngressInv
  PROVE  /\ \A r \in Unready : /\ r \in Roots /\ r \in Events /\ r \in Present(admitted)
                               /\ r \in Posted /\ ~admitted[r].ready
         /\ \A r \in Events :
              r \in Unready <=> /\ r \in Roots /\ ~admitted[r].ready
                                /\ admitted[r].state = "queued"
                                /\ admitted[r].policy = Policy
BY DEF Unready, UnreadyRoots, InState, Present, IngressInv, AdmittedInv

\* Workers take no reserved root.
LEMMA UnreadyStays ==
  ASSUME IngressInv, admitted' = admitted \/ \E e \in Events : Work(e)
  PROVE  Unready' = Unready
<1>1. /\ Unready' = {r \in Roots \cap Events : /\ ~admitted'[r].ready
                                              /\ admitted'[r].state = "queued"
                                              /\ admitted'[r].policy = Policy}
      /\ Unready = {r \in Roots \cap Events : /\ ~admitted[r].ready
                                             /\ admitted[r].state = "queued"
                                             /\ admitted[r].policy = Policy}
  BY DEF Unready, UnreadyRoots, InState
<1>2. ASSUME NEW x \in Events, Work(x) PROVE Unready' = Unready
  <2>1. /\ \A e \in Events \ {x} : admitted'[e] = admitted[e]
        /\ admitted'[x].state = "completed" /\ admitted[x].ready
    BY <1>2, WorkDoes DEF IngressInv, IngressTyped
  <2>2. \A r \in Events : /\ ~admitted'[r].ready
                          /\ admitted'[r].state = "queued"
                          /\ admitted'[r].policy = Policy
                         <=> /\ ~admitted[r].ready
                             /\ admitted[r].state = "queued"
                             /\ admitted[r].policy = Policy
    BY <2>1
  <2> QED
    BY <1>1, <2>2
<1> QED
  BY <1>1, <1>2

\* Which roots become reserved, and which are no longer.
LEMMA UnreadyMoves ==
  ASSUME IngressInv, [IngressNext]_ingressVars
  PROVE  /\ \A r \in Unready' : r \in Unready \/ (Reserve /\ r = handler.event)
         /\ \A r \in Unready :
              r \in Unready' \/ (MakeReady /\ r = handler.event) \/ CancelUnready(r)
<1> USE DEF IngressInv, IngressTyped
<1>1. \A r \in Events :
        r \in Unready' <=> /\ r \in Roots /\ ~admitted'[r].ready
                           /\ admitted'[r].state = "queued"
                           /\ admitted'[r].policy = Policy
  BY DEF Unready, UnreadyRoots, InState
<1>2. Unready \subseteq Events /\ Unready' \subseteq Events
  BY <1>1, StoreAssumption DEF Unready, UnreadyRoots, InState
<1>4. CASE Reserve
  <2>1. handler.event \in Events
    BY <1>4, InHandIs DEF Reserve, Accepts, Busy
  <2>2. /\ \A e \in Events \ {handler.event} : admitted'[e] = admitted[e]
        /\ handler.event \notin Present(admitted)
    BY <1>4, <2>1, ReserveDoes DEF ClientTyped
  <2> QED
    BY <1>1, <1>2, <1>4, <2>2, UnreadyIs
<1>5. CASE MakeReady
  <2>1. handler.event \in Unready
    BY <1>5 DEF MakeReady, RouteInv, DoneInv, Routing
  <2> QED
    BY <1>1, <1>2, <1>5, <2>1, MakeReadyDoes, UnreadyIs
<1>6. ASSUME NEW x \in Events, CancelUnready(x)
      PROVE  /\ \A e \in Events \ {x} : admitted'[e] = admitted[e]
             /\ admitted'[x].state = "cancelled"
  <2>1. x \in Unready
    BY <1>6 DEF CancelUnready, ConnectionInv
  <2> QED
    BY <1>6, <2>1, CancelDoes
<1>7. ASSUME NEW x \in Events, CancelUnready(x)
      PROVE  /\ \A r \in Unready' : r \in Unready
             /\ \A r \in Unready : r \in Unready' \/ CancelUnready(r)
  BY <1>1, <1>2, <1>6, <1>7, UnreadyIs
<1> QED
  BY <1>4, <1>5, <1>7, UnreadyStays, Movers

\* Between connections nothing is in hand.
LEMMA IdleIsFree ==
  ASSUME IngressInv, pc \in {"down", "connecting"}
  PROVE  handler.pc = "idle"
<1>1. handler.from \in {"live", "unready", "scan"}
  BY DEF IngressInv, IngressTyped, ClientTyped, Handler
<1> QED
  BY <1>1 DEF IngressInv, ConnectionInv, Busy, HandInv

\* What becomes of the message in hand.
HandlerSteps ==
  \/ Ignore \/ Decline \/ Reserve \/ Repeat \/ Acknowledge \/ OpenThread
  \/ SaveThread \/ SaveManaged \/ SaveThreadCursor \/ MakeReady
Reading == NextDispatch \/ NextRow \/ \E e \in Events : NextUnready(e)
Waits ==
  /\ handler' = handler
  /\ UNCHANGED <<content, routing, open, declined, recon, clientVars, boundary>>
  /\ admitted' = admitted \/ \E e \in Events : Work(e)
\* A step works on a message, reads the next one, waits, or ends the reading.
LEMMA HandlerMoves ==
  ASSUME IngressInv, [IngressNext]_ingressVars
  PROVE  \/ /\ handler'.pc = "idle"
            /\ handler.pc \in {"idle", "done"} \/ pc' \in {"connecting", "down"}
         \/ Reading \/ Waits \/ HandlerSteps
<1> DEFINE Goal == \/ /\ handler'.pc = "idle"
                      /\ handler.pc \in {"idle", "done"} \/ pc' \in {"connecting", "down"}
                   \/ Reading \/ Waits \/ HandlerSteps
<1>1. ASSUME NEW e \in Events, Post(e) PROVE Goal
  BY <1>1 DEF Waits, Post, ingressVars, storeVars, table, routing,
     discordVars, clientVars, auxVars, others
<1>2. ASSUME NEW e \in Events, NEW v \in Changes, Change(e, v) PROVE Goal
  BY <1>2 DEF Waits, Change, ingressVars, storeVars, table, routing,
     discordVars, clientVars, auxVars, others
<1>3. CASE Expire
  BY <1>3 DEF Waits, Expire, ingressVars, storeVars, table, routing,
     discordVars, clientVars, auxVars, others
<1>4. CASE StartBridge
  BY <1>4, IdleIsFree DEF StartBridge, clientVars, others
<1>5. CASE Resume
  BY <1>5, IdleIsFree DEF Resume, clientVars, others
<1>6. CASE ResumeRefused
  BY <1>6, IdleIsFree DEF ResumeRefused, clientVars, others
<1>7. CASE Identify
  BY <1>7, IdleIsFree DEF Identify, clientVars, others
<1>8. CASE Disconnect
  BY <1>8, AbortsTo DEF Disconnect
<1>9. CASE Crash
  BY <1>9, NoMessageIs DEF Crash
<1>10. CASE NextDispatch
  BY <1>10 DEF Reading
<1>11. ASSUME NEW e \in Events, NextUnready(e) PROVE Goal
  BY <1>11 DEF Reading
<1>12. ASSUME NEW e \in Events, CancelUnready(e) PROVE Goal
  BY <1>12 DEF CancelUnready, HandlerFree
<1>13. CASE ScanStarts
  BY <1>13 DEF ScanStarts, HandlerFree
<1>14. ASSUME NEW c \in Channels, ReadPage(c) PROVE Goal
  BY <1>14 DEF ReadPage, HandlerFree
<1>15. CASE NextRow
  BY <1>15 DEF Reading
<1>16. CASE ScanEnds
  BY <1>16 DEF ScanEnds, HandlerFree
<1>17. CASE Ignore
  BY <1>17 DEF HandlerSteps
<1>18. CASE Decline
  BY <1>18 DEF HandlerSteps
<1>19. CASE Reserve
  BY <1>19 DEF HandlerSteps
<1>20. CASE Repeat
  BY <1>20 DEF HandlerSteps
<1>21. CASE Conflict
  BY <1>21, AbortsTo DEF Conflict
<1>22. CASE Acknowledge
  BY <1>22 DEF HandlerSteps
<1>23. CASE Gone
  BY <1>23, AbortsTo DEF Gone
<1>24. CASE OpenThread
  BY <1>24 DEF HandlerSteps
<1>25. CASE OpenThreadUnheard
  BY <1>25, AbortsTo DEF OpenThreadUnheard
<1>26. CASE SaveThread
  BY <1>26 DEF HandlerSteps
<1>27. CASE SaveManaged
  BY <1>27 DEF HandlerSteps
<1>28. CASE SaveThreadCursor
  BY <1>28 DEF HandlerSteps
<1>29. CASE MakeReady
  BY <1>29 DEF HandlerSteps
<1>30. CASE DispatchDone
  BY <1>30, NoMessageIs DEF DispatchDone
<1>31. CASE UnreadyDone
  BY <1>31, NoMessageIs DEF UnreadyDone
<1>32. CASE RowDone
  BY <1>32, NoMessageIs DEF RowDone
<1>33. ASSUME NEW e \in Events, Work(e) PROVE Goal
  BY <1>33 DEF Waits, Work, ingressVars, storeVars, table, routing,
     discordVars, clientVars, auxVars, others
<1>34. CASE UNCHANGED ingressVars
  BY <1>34 DEF Waits, ingressVars, storeVars, table, routing,
     discordVars, clientVars, auxVars, others
<1> QED
  BY <1>1, <1>2, <1>3, <1>4, <1>5, <1>6, <1>7, <1>8, <1>9, <1>10, <1>11,
     <1>12, <1>13, <1>14, <1>15, <1>16, <1>17, <1>18, <1>19, <1>20, <1>21,
     <1>22, <1>23, <1>24, <1>25, <1>26, <1>27, <1>28, <1>29, <1>30, <1>31,
     <1>32, <1>33, <1>34 DEF IngressNext, Owner, Connects,
     Reads, Handles, WorkerSteps, Faults

\* The place of a message is not None.
LEMMA PlaceIsPlace ==
  ASSUME NEW n \in Nat PROVE n # None
BY StoreAssumption

\* What has been done for the message in hand stays done.
LEMMA DoneStep ==
  ASSUME IngressInv, [IngressNext]_ingressVars
  PROVE  DoneInv'
<1> USE DEF IngressInv, IngressTyped
<1>0. /\ Routing = {"open", "saveThread", "saveManaged", "saveCursor", "makeReady"}
      /\ DoneInv /\ handler \in Handler
  BY DEF Routing, RouteInv, ClientTyped
<1>1. CASE handler'.pc = "idle" \/ Reading
  BY <1>0, <1>1 DEF DoneInv, Reading, NextDispatch, NextRow, NextUnready, Takes
<1>2. CASE Waits
  <2>1. Unready' = Unready
    BY <1>2, UnreadyStays DEF Waits
  <2>2. UNCHANGED <<handler, mapped, managedThreads, cursor, declined, open>>
    BY <1>2 DEF Waits, routing
  <2> QED
    BY <1>0, <2>1, <2>2, TableGrows DEF DoneInv, Handled, IsRoot, Thread,
       ManagedHere
<1> DEFINE e == handler.event
<1>3. ASSUME HandlerSteps
      PROVE  /\ handler'.event = e /\ handler'.ver = handler.ver
             /\ IsRoot' = IsRoot /\ Thread' = Thread
  <2>1. \E p \in HandlerPc : Step(p)
    BY <1>3 DEF HandlerSteps, Ignore, Decline, Reserve, Repeat, Acknowledge,
       OpenThread,
       SaveThread, SaveManaged, SaveThreadCursor, MakeReady, HandlerPc
  <2> QED
    BY <1>0, <2>1, StepTo DEF IsRoot, Thread
<1>4. ASSUME HandlerSteps PROVE e \in Events /\ Thread \in Threads
  BY <1>4, InHandIs, StoreAssumption DEF HandlerSteps, Ignore, Decline,
     Reserve, Repeat,
     Acknowledge, OpenThread, SaveThread, SaveManaged, SaveThreadCursor,
     MakeReady, Accepts, Busy,
     Thread
<1>5. CASE Ignore
  <2>1. handler'.pc = "done"
    BY <1>0, <1>5, StepTo DEF Ignore, HandlerPc
  <2>2. admitted' = admitted /\ managedThreads' = managedThreads
    BY <1>5 DEF Ignore, storeVars, table, routing
  <2>3. e \notin Unready' /\ ~IsRoot' /\ ~ManagedHere'
    BY <1>3, <1>5, <2>2 DEF Ignore, HandlerSteps, Unready, UnreadyRoots,
       IsRoot, ManagedHere
  <2> QED
    BY <1>0, <1>3, <1>5, <2>1, <2>3 DEF DoneInv, HandlerSteps
<1>6. CASE Decline
  <2>1. handler'.pc = "done"
    BY <1>0, <1>6, StepTo DEF Decline, HandlerPc
  <2>2. e \in Handled' /\ Unready' = Unready
    BY <1>6, UnreadyStays DEF Decline, Handled, storeVars, table
  <2>3. e \in Unready => handler.ver = "refused"
    BY <1>6, UnreadyIs DEF Decline, IsRoot
  <2> QED
    BY <1>0, <1>3, <1>6, <2>1, <2>2, <2>3 DEF DoneInv, HandlerSteps
<1>7. CASE Reserve
  <2>1. handler'.pc = "ack"
    BY <1>0, <1>7, StepTo DEF Reserve, HandlerPc
  <2>2. /\ admitted'[e].state = "queued" /\ admitted'[e].policy = Policy
        /\ admitted'[e].ready = ~IsRoot
    BY <1>4, <1>7, ReserveDoes DEF ClientTyped, HandlerSteps
  <2>3. e \in Present(admitted') /\ (IsRoot => e \in Unready')
    BY <1>4, <1>7, <2>2 DEF HandlerSteps, Present, Unready, UnreadyRoots,
       InState, IsRoot
  <2> QED
    BY <1>0, <1>3, <1>7, <2>1, <2>3 DEF DoneInv, HandlerSteps, Reserve, Accepts
<1>8. CASE Repeat
  <2>1. /\ handler'.pc = IF IsRoot /\ e \notin Unready THEN "done" ELSE "ack"
        /\ admitted' = admitted /\ e \in Present(admitted)
    BY <1>0, <1>8, StepTo DEF Repeat, HandlerPc, Unready, storeVars, table
  <2>2. Unready' = Unready /\ e \in Handled'
    BY <2>1, UnreadyStays DEF Handled
  <2> QED
    BY <1>0, <1>3, <1>8, <2>1, <2>2 DEF DoneInv, HandlerSteps, Repeat, Accepts
<1>9. CASE Acknowledge
  <2>1. /\ handler'.pc = IF ~IsRoot THEN "done" ELSE IF e \in mapped THEN "saveThread" ELSE "open"
        /\ admitted' = admitted /\ open' = open
    BY <1>0, <1>9, StepTo DEF Acknowledge, HandlerPc, storeVars, table,
       others, discordVars
  <2>2. /\ Unready' = Unready /\ e \in Present(admitted) /\ (IsRoot => e \in Unready)
        /\ (~IsRoot => e \notin Unready) /\ (e \in mapped => Thread \in open)
    BY <1>0, <1>9, <2>1, UnreadyIs, UnreadyStays
    DEF Acknowledge, DoneInv, RouteInv, IsRoot, Thread
  <2> QED
    BY <1>0, <1>3, <1>9, <2>1, <2>2 DEF DoneInv, HandlerSteps, Acknowledge,
       Handled
<1>10. CASE OpenThread
  <2>1. /\ handler'.pc = "saveThread" /\ admitted' = admitted /\ Thread \in open'
    BY <1>0, <1>10, StepTo DEF OpenThread, HandlerPc, storeVars, table
  <2>2. Unready' = Unready /\ e \in Unready
    BY <1>0, <1>10, <2>1, UnreadyStays DEF OpenThread, DoneInv
  <2> QED
    BY <1>0, <1>3, <1>10, <2>1, <2>2 DEF DoneInv, HandlerSteps, OpenThread
<1>11. CASE SaveThread
  <2>1. /\ handler'.pc = "saveManaged" /\ admitted' = admitted /\ open' = open /\ e \in mapped'
    BY <1>0, <1>11, StepTo DEF SaveThread, HandlerPc, table, others,
       discordVars
  <2>2. Unready' = Unready /\ e \in Unready /\ Thread \in open
    BY <1>0, <1>11, <2>1, UnreadyStays DEF SaveThread, DoneInv
  <2> QED
    BY <1>0, <1>3, <1>11, <2>1, <2>2 DEF DoneInv, HandlerSteps, SaveThread
<1>12. CASE SaveManaged
  <2>1. /\ handler'.pc = "saveCursor" /\ admitted' = admitted /\ open' = open
        /\ mapped' = mapped /\ Thread \in managedThreads'
    BY <1>0, <1>12, StepTo DEF SaveManaged, HandlerPc, table, others,
       discordVars
  <2>2. Unready' = Unready /\ e \in Unready /\ Thread \in open /\ e \in mapped
    BY <1>0, <1>12, <2>1, UnreadyStays DEF SaveManaged, DoneInv
  <2> QED
    BY <1>0, <1>3, <1>12, <2>1, <2>2 DEF DoneInv, HandlerSteps, SaveManaged
<1>13. CASE SaveThreadCursor
  <2>1. /\ handler'.pc = "makeReady" /\ admitted' = admitted /\ open' = open
        /\ mapped' = mapped /\ managedThreads' = managedThreads
    BY <1>0, <1>13, StepTo DEF SaveThreadCursor, HandlerPc, table, others,
       discordVars
  <2>2. /\ Unready' = Unready /\ e \in Unready /\ Thread \in open /\ e \in mapped
        /\ Thread \in managedThreads
    BY <1>0, <1>13, <2>1, UnreadyStays DEF SaveThreadCursor, DoneInv
  <2>3. IdOf(e) # None /\ Thread \in Channels
    BY <1>4, <1>13, InHandIs, PlaceIsPlace
    DEF Channels, HandlerSteps, SaveThreadCursor, Busy
  <2>4. cursor'[Thread] # None
    BY <1>13, <2>3 DEF SaveThreadCursor, StoreTyped
  <2> QED
    BY <1>0, <1>3, <1>13, <2>1, <2>2, <2>4
    DEF DoneInv, HandlerSteps, SaveThreadCursor
<1>14. CASE MakeReady
  <2>1. handler'.pc = "done"
    BY <1>0, <1>14, StepTo DEF MakeReady, HandlerPc
  <2>2. e \in Unready
    BY <1>0, <1>14 DEF MakeReady, DoneInv
  <2>3. admitted'[e].ready /\ e \in Present(admitted')
    BY <1>14, <2>2, MakeReadyDoes, UnreadyIs
  <2>4. e \notin Unready' /\ e \in Handled'
    BY <2>3 DEF Unready, UnreadyRoots, Handled
  <2> QED
    BY <1>0, <1>3, <1>14, <2>1, <2>4 DEF DoneInv, HandlerSteps
<1> QED
  BY <1>1, <1>2, <1>5, <1>6, <1>7, <1>8, <1>9, <1>10, <1>11, <1>12, <1>13,
     <1>14, HandlerMoves
  DEF HandlerSteps

\* What a released root needs stays there.
LEMMA RouteStep ==
  ASSUME IngressInv, [IngressNext]_ingressVars
  PROVE  RouteInv'
<1> USE DEF IngressInv, IngressTyped
<1>0. RouteInv /\ LogInv /\ handler \in Handler
  BY DEF ClientTyped
<1>1. ASSUME NEW x \in Events, CancelUnready(x)
      PROVE  /\ x \in Unready /\ mapped' = mapped \ {x}
             /\ managedThreads \ {ThreadOf[x]} \subseteq managedThreads'
             /\ managedThreads' \subseteq managedThreads
             /\ \A c \in Channels \ {ThreadOf[x]} : cursor'[c] = cursor[c]
             /\ \A c \in Channels : cursor'[c] # None => cursor[c] # None
  <2>1. x \in Unready
    BY <1>1 DEF CancelUnready, ConnectionInv
  <2>2. CASE x \in mapped
    BY <1>1, <2>1, <2>2 DEF CancelUnready, StoreTyped
  <2>3. CASE x \notin mapped
    BY <1>1, <2>1, <2>3 DEF CancelUnready, StoreTyped
  <2> QED
    BY <2>2, <2>3
<1>2. ASSUME NEW c \in Channels, cursor[c] # None
      PROVE  cursor'[c] # None \/ \E x \in Events : CancelUnready(x) /\ ThreadOf[x] = c
  <2>1. ASSUME SaveThreadCursor \/ DispatchDone \/ RowDone PROVE IdOf(handler.event) # None
    BY <2>1, InHandIs, PlaceIsPlace DEF SaveThreadCursor, DispatchDone,
       RowDone, Busy
  <2>2. Len(log) # None
    BY PlaceIsPlace DEF DiscordTyped
  <2> QED
    BY <1>1, <1>2, <2>1, <2>2, Movers
    DEF StoreTyped, StartBridge, SaveThreadCursor, DispatchDone, RowDone,
        Advanced
<1>3. ReleasedIsRouted'
  <2> SUFFICES ASSUME NEW r \in Roots, admitted'[r].ready
               PROVE  /\ ThreadOf[r] \in open' \cap managedThreads' /\ r \in mapped'
                      /\ cursor'[ThreadOf[r]] # None
    BY DEF ReleasedIsRouted
  <2>0. r \in Events /\ ThreadOf[r] \in Channels
    BY StoreAssumption DEF Channels
  <2>1. CASE admitted[r].ready
    <3>1. /\ ThreadOf[r] \in open /\ ThreadOf[r] \in managedThreads /\ r \in mapped
          /\ cursor[ThreadOf[r]] # None
      BY <2>1, <1>0 DEF RouteInv, ReleasedIsRouted
    <3>2. ASSUME NEW x \in Events, CancelUnready(x) PROVE ThreadOf[r] # ThreadOf[x] /\ r # x
      BY <1>1, <2>1, <3>2, StoreAssumption, UnreadyIs
    <3>3. r \in mapped'
      BY <1>1, <3>1, <3>2, Movers DEF SaveThread
    <3>4. ThreadOf[r] \in managedThreads'
      BY <1>1, <3>1, <3>2, Movers DEF SaveManaged
    <3>5. cursor'[ThreadOf[r]] # None
      BY <1>2, <2>0, <3>1, <3>2
    <3> QED
      BY <3>1, <3>3, <3>4, <3>5, HistoryGrows
  <2>2. CASE ~admitted[r].ready
    <3>1. r \in Present(admitted')
      BY <2>0, AdmittedStep DEF AdmittedInv
    <3>2. ~Reserve \/ r # handler.event
      <4>1. ASSUME Reserve, r = handler.event PROVE FALSE
        BY <2>0, <4>1, ReserveDoes DEF ClientTyped, IsRoot
      <4> QED
        BY <4>1
    <3>3. r \in Present(admitted)
      BY <3>1, <3>2, TableGrows
    <3>4. MakeReady /\ r = handler.event
      BY <2>2, <3>3, TableGrows
    <3>5. UNCHANGED <<open, managedThreads, mapped, cursor>>
      BY <3>4 DEF MakeReady, routing, others, discordVars
    <3> QED
      BY <1>0, <3>4, <3>5 DEF RouteInv, DoneInv, MakeReady, Routing, Thread
  <2> QED
    BY <2>1, <2>2
<1>4. \A r \in mapped' : ThreadOf[r] \in open' /\ r \in Present(admitted')
  <2>1. CASE SaveThread
    <3>1. handler.event \in Present(admitted) /\ ThreadOf[handler.event] \in open
      BY <1>0, <2>1, UnreadyIs DEF SaveThread, RouteInv, DoneInv, Routing,
         Thread
    <3> QED
      BY <1>0, <2>1, <3>1, TableGrows, HistoryGrows DEF SaveThread, RouteInv
  <2> QED
    BY <1>0, <1>1, <2>1, Movers, TableGrows, HistoryGrows DEF RouteInv
<1>5. \A t \in managedThreads' : t \in open'
  BY <1>0, <1>1, Movers, HistoryGrows DEF SaveManaged, RouteInv, DoneInv,
     Routing
<1>6. ASSUME NEW t \in Threads, cursor'[t] # None PROVE t \in open'
  <2>0. t \in Channels /\ t # Listen
    BY StoreAssumption DEF Channels
  <2>1. CASE cursor[t] # None
    BY <1>0, <2>1, HistoryGrows DEF RouteInv
  <2>2. CASE cursor[t] = None
    <3>1. ~\E x \in Events : CancelUnready(x)
      BY <1>1, <1>6, <2>0, <2>2
    <3>2. cursor' # cursor
      BY <1>6, <2>2
    <3>3. CASE StartBridge
      BY <1>6, <2>0, <2>2, <3>3 DEF StartBridge, StoreTyped
    <3>4. CASE SaveThreadCursor
      BY <1>0, <1>6, <2>0, <2>2, <3>4, HistoryGrows
      DEF SaveThreadCursor, StoreTyped, RouteInv, DoneInv, Routing
    <3>5. CASE DispatchDone
      BY <1>0, <1>6, <2>0, <2>2, <3>5, HistoryGrows
      DEF DispatchDone, Advanced, StoreTyped, RouteInv
    <3>6. CASE RowDone
      <4>1. t = Channel(handler.event)
        BY <1>6, <2>0, <2>2, <3>6 DEF RowDone, Advanced, StoreTyped
      <4>2. handler.event \in Posted \cap Replies /\ t = ThreadOf[handler.event]
        BY <2>0, <3>6, <4>1, InHandIs DEF Channel, Replies, RowDone, Busy
      <4> QED
        BY <1>0, <4>2, HistoryGrows DEF LogInv
    <3> QED
      BY <3>1, <3>2, <3>3, <3>4, <3>5, <3>6, Movers
  <2> QED
    BY <2>1, <2>2
<1> QED
  BY <1>3, <1>4, <1>5, <1>6, DoneStep DEF RouteInv

\* Who moves the connection and the reconciliation.
LEMMA ClientMovers ==
  ASSUME IngressInv, [IngressNext]_ingressVars
  PROVE  /\ \/ UNCHANGED <<pc, resumable>>
            \/ /\ pc' = "connecting" /\ handler'.pc = "idle"
               /\ (resumable' => resumable) /\ (StartBridge \/ pc # "down")
            \/ pc' = "down" /\ ~resumable' /\ handler'.pc = "idle"
            \/ Resume \/ Identify \/ ScanStarts \/ ScanEnds
         /\ \/ recon' = recon \/ pc' \in {"connecting", "down"} \/ Identify \/ ScanStarts \/ RowDone
            \/ \E e \in Events : NextUnready(e) \/ CancelUnready(e)
            \/ \E c \in Channels : ReadPage(c)
<1> DEFINE Goal ==
  /\ \/ UNCHANGED <<pc, resumable>>
     \/ /\ pc' = "connecting" /\ handler'.pc = "idle"
        /\ (resumable' => resumable) /\ (StartBridge \/ pc # "down")
     \/ pc' = "down" /\ ~resumable' /\ handler'.pc = "idle"
     \/ Resume \/ Identify \/ ScanStarts \/ ScanEnds
  /\ \/ recon' = recon \/ pc' \in {"connecting", "down"} \/ Identify \/ ScanStarts \/ RowDone
     \/ \E e \in Events : NextUnready(e) \/ CancelUnready(e)
     \/ \E c \in Channels : ReadPage(c)
<1> SUFFICES Goal
  BY DEF Goal
<1>1. ASSUME NEW e \in Events, Post(e) PROVE Goal
  BY <1>1 DEF Post, ingressVars, storeVars, table, routing,
     discordVars, clientVars, auxVars, others
<1>2. ASSUME NEW e \in Events, NEW v \in Changes, Change(e, v) PROVE Goal
  BY <1>2 DEF Change, ingressVars, storeVars, table, routing,
     discordVars, clientVars, auxVars, others
<1>3. CASE Expire
  BY <1>3 DEF Expire, ingressVars, storeVars, table, routing,
     discordVars, clientVars, auxVars, others
<1>4. CASE StartBridge
  BY <1>4, IdleIsFree DEF StartBridge, clientVars, others
<1>5. CASE Resume
  BY <1>5 DEF Resume, ingressVars, storeVars, table, routing,
     discordVars, clientVars, auxVars, others
<1>6. CASE ResumeRefused
  BY <1>6, IdleIsFree DEF ResumeRefused, clientVars, others
<1>7. CASE Identify
  BY <1>7 DEF Identify, ingressVars, storeVars, table, routing,
     discordVars, clientVars, auxVars, others
<1>8. CASE Disconnect
  BY <1>8, AbortsTo, IdleIsFree DEF Disconnect
<1>9. CASE Crash
  BY <1>9, NoMessageIs DEF Crash
<1>10. CASE NextDispatch
  BY <1>10 DEF NextDispatch, ingressVars, storeVars, table, routing,
     discordVars, clientVars, auxVars, others
<1>11. ASSUME NEW e \in Events, NextUnready(e) PROVE Goal
  BY <1>11 DEF NextUnready, ingressVars, storeVars, table, routing,
     discordVars, clientVars, auxVars, others
<1>12. ASSUME NEW e \in Events, CancelUnready(e) PROVE Goal
  BY <1>12 DEF CancelUnready, ingressVars, storeVars, table, routing,
     discordVars, clientVars, auxVars, others
<1>13. CASE ScanStarts
  BY <1>13 DEF ScanStarts, ingressVars, storeVars, table, routing,
     discordVars, clientVars, auxVars, others
<1>14. ASSUME NEW c \in Channels, ReadPage(c) PROVE Goal
  BY <1>14 DEF ReadPage, ingressVars, storeVars, table, routing,
     discordVars, clientVars, auxVars, others
<1>15. CASE NextRow
  BY <1>15 DEF NextRow, ingressVars, storeVars, table, routing,
     discordVars, clientVars, auxVars, others
<1>16. CASE ScanEnds
  BY <1>16 DEF ScanEnds, ingressVars, storeVars, table, routing,
     discordVars, clientVars, auxVars, others
<1>17. CASE Ignore
  BY <1>17 DEF Ignore, ingressVars, storeVars, table, routing,
     discordVars, clientVars, auxVars, others
<1>18. CASE Decline
  BY <1>18 DEF Decline, ingressVars, storeVars, table, routing,
     discordVars, clientVars, auxVars, others
<1>19. CASE Reserve
  BY <1>19 DEF Reserve, ingressVars, storeVars, table, routing,
     discordVars, clientVars, auxVars, others
<1>20. CASE Repeat
  BY <1>20 DEF Repeat, ingressVars, storeVars, table, routing,
     discordVars, clientVars, auxVars, others
<1>21. CASE Conflict
  BY <1>21, AbortsTo, IdleIsFree DEF Conflict, Accepts
<1>22. CASE Acknowledge
  BY <1>22 DEF Acknowledge, ingressVars, storeVars, table, routing,
     discordVars, clientVars, auxVars, others
<1>23. CASE Gone
  BY <1>23, AbortsTo, IdleIsFree DEF Gone
<1>24. CASE OpenThread
  BY <1>24 DEF OpenThread, ingressVars, storeVars, table, routing,
     discordVars, clientVars, auxVars, others
<1>25. CASE OpenThreadUnheard
  BY <1>25, AbortsTo, IdleIsFree DEF OpenThreadUnheard
<1>26. CASE SaveThread
  BY <1>26 DEF SaveThread, ingressVars, storeVars, table, routing,
     discordVars, clientVars, auxVars, others
<1>27. CASE SaveManaged
  BY <1>27 DEF SaveManaged, ingressVars, storeVars, table, routing,
     discordVars, clientVars, auxVars, others
<1>28. CASE SaveThreadCursor
  BY <1>28 DEF SaveThreadCursor, ingressVars, storeVars, table, routing,
     discordVars, clientVars, auxVars, others
<1>29. CASE MakeReady
  BY <1>29 DEF MakeReady, ingressVars, storeVars, table, routing,
     discordVars, clientVars, auxVars, others
<1>30. CASE DispatchDone
  BY <1>30 DEF DispatchDone, ingressVars, storeVars, table, routing,
     discordVars, clientVars, auxVars, others
<1>31. CASE UnreadyDone
  BY <1>31 DEF UnreadyDone, ingressVars, storeVars, table, routing,
     discordVars, clientVars, auxVars, others
<1>32. CASE RowDone
  BY <1>32 DEF RowDone, ingressVars, storeVars, table, routing,
     discordVars, clientVars, auxVars, others
<1>33. ASSUME NEW e \in Events, Work(e) PROVE Goal
  BY <1>33 DEF Work, ingressVars, storeVars, table, routing,
     discordVars, clientVars, auxVars, others
<1>34. CASE UNCHANGED ingressVars
  BY <1>34 DEF ingressVars, storeVars, table, routing,
     discordVars, clientVars, auxVars, others
<1> QED
  BY <1>1, <1>2, <1>3, <1>4, <1>5, <1>6, <1>7, <1>8, <1>9, <1>10, <1>11,
     <1>12, <1>13, <1>14, <1>15, <1>16, <1>17, <1>18, <1>19, <1>20, <1>21,
     <1>22, <1>23, <1>24, <1>25, <1>26, <1>27, <1>28, <1>29, <1>30, <1>31,
     <1>32, <1>33, <1>34 DEF IngressNext, Owner, Connects,
     Reads, Handles, WorkerSteps, Faults

\* None is no channel.
LEMMA NoneIsNoChannel == None \notin Channels
BY StoreAssumption DEF Channels

\* The message in hand is the one that is due.
LEMMA HandStep ==
  ASSUME IngressInv, [IngressNext]_ingressVars, Busy'
  PROVE  HandInv'
<1> USE DEF IngressInv, IngressTyped
<1> DEFINE e == handler.event
<1>0. handler \in Handler /\ recon \in Recon /\ log \in Seq(Events) /\ Len(log) \in Nat
      /\ passed \in Nat
  BY DEF ClientTyped, DiscordTyped
<1>1. CASE NextDispatch
  <2>1. /\ log[passed + 1] \in Posted /\ log[passed + 1] \in Events
        /\ Takes(log[passed + 1], "original", "live") /\ pc = "live" /\ passed < Len(log)
    BY <1>0, <1>1, IdIs DEF NextDispatch
  <2>2. handler'.event = log[passed + 1] /\ handler'.from = "live" /\ handler'.ver = "original"
    BY <2>1, TakesTo DEF Versions
  <2>3. UNCHANGED <<pc, passed, log, version>>
    BY <1>1 DEF NextDispatch, others, clientVars, discordVars
  <2> QED
    BY <2>1, <2>2, <2>3 DEF HandInv, Posted
<1>2. ASSUME NEW x \in Events, NextUnready(x) PROVE HandInv'
  <2>1. /\ x \in Present(admitted) /\ x \in Roots /\ x \in Posted /\ version[x] \in Versions
        /\ pc = "unready"
    BY <1>2, UnreadyIs DEF NextUnready, ConnectionInv, DiscordTyped
  <2>2. /\ handler'.event = x /\ handler'.from = "unready" /\ handler'.ver = version[x]
        /\ recon'.ids = recon.ids \ {x}
    BY <1>0, <1>2, <2>1, TakesTo, NextUnreadyDoes DEF NextUnready
  <2>3. UNCHANGED <<pc, log, version>>
    BY <1>2 DEF NextUnready, clientVars, discordVars
  <2> QED
    BY <2>1, <2>2, <2>3, HistoryGrows, TableGrows DEF HandInv
<1>3. CASE NextRow
  <2>1. PICK x \in DOMAIN recon.rows : /\ \A f \in DOMAIN recon.rows : IdOf(x) <= IdOf(f)
                                       /\ Takes(x, recon.rows[x], "scan")
    BY <1>3 DEF NextRow
  <2>2. x \in Posted /\ pc = "scan" /\ (recon.rows[x] = "refused" => version[x] = "refused")
    BY <1>3 DEF NextRow, ConnectionInv
  <2>3. handler'.event = x /\ handler'.from = "scan" /\ handler'.ver = recon.rows[x]
    BY <1>0, <2>1, RowIn, TakesTo
  <2>4. UNCHANGED <<pc, log, version, recon>>
    BY <1>3 DEF NextRow, others, clientVars, discordVars
  <2>5. Posted' = Posted /\ \A f : IdOf(f)' = IdOf(f)
    BY <2>4 DEF Posted, IdOf
  <2> QED
    BY <2>1, <2>2, <2>3, <2>4, <2>5 DEF HandInv
<1>4. ASSUME Busy, UNCHANGED <<pc, passed, recon>>, handler'.event = e,
             handler'.ver = handler.ver, handler'.from = handler.from
      PROVE  HandInv'
  <2>1. HandInv
    BY <1>4 DEF ConnectionInv
  <2>2. e \in Posted' /\ (handler.ver = "refused" => version'[e] = "refused")
    BY <1>4, <2>1, InHandIs, HistoryGrows DEF HandInv
  <2>3. pc = "live" => /\ passed < Len(log') /\ e = log'[passed + 1]
    BY <1>0, <2>1, HistoryGrows DEF HandInv
  <2>4. pc = "scan" => \A f \in DOMAIN recon.rows : IdOf(e)' <= IdOf(f)'
    <3>1. ASSUME pc = "scan", NEW f \in DOMAIN recon.rows
          PROVE  IdOf(e) <= IdOf(f) /\ f \in Posted
      BY <2>1, <3>1 DEF HandInv, ConnectionInv
    <3> QED
      BY <1>4, <3>1, InHandIs, HistoryGrows
  <2> QED
    BY <1>4, <2>1, <2>2, <2>3, <2>4, TableGrows DEF HandInv
<1>5. CASE Waits
  BY <1>4, <1>5 DEF Waits, clientVars, Busy
<1>6. CASE HandlerSteps
  <2>1. Busy /\ \E p \in HandlerPc : Step(p)
    BY <1>6 DEF HandlerSteps, Ignore, Decline, Reserve, Repeat, Acknowledge,
       OpenThread,
       SaveThread, SaveManaged, SaveThreadCursor, MakeReady, HandlerPc, Busy,
       Accepts
  <2>2. UNCHANGED <<pc, passed, recon>>
    BY <1>6 DEF HandlerSteps, Ignore, Decline, Reserve, Repeat, Acknowledge,
       OpenThread,
       SaveThread, SaveManaged, SaveThreadCursor, MakeReady, others, clientVars
  <2> QED
    BY <1>0, <1>4, <2>1, <2>2, StepTo
<1> QED
  BY <1>1, <1>2, <1>3, <1>5, <1>6, HandlerMoves DEF Reading, Busy

\* The connection is kept.
LEMMA ConnectionStep ==
  ASSUME IngressInv, [IngressNext]_ingressVars
  PROVE  ConnectionInv'
<1> USE DEF IngressInv, IngressTyped
<1>0. /\ handler \in Handler /\ recon \in Recon /\ Listen \in Channels /\ ConnectionInv
      /\ cursor \in [Channels -> (0..Len(log)) \cup {None}]
  BY DEF ClientTyped, Channels, StoreTyped
<1>1. pc' \in {"down", "unready", "scan"} => ~resumable'
  BY <1>0, ClientMovers DEF ConnectionInv, Resume, Identify, ScanStarts,
     ScanEnds
<1>2. pc' = "live" => resumable'
  BY <1>0, ClientMovers DEF ConnectionInv, Resume, Identify, ScanStarts,
     ScanEnds
<1>3. cursor[Listen] # None => cursor'[Listen] # None
  <2>1. ASSUME SaveThreadCursor \/ DispatchDone \/ RowDone PROVE IdOf(handler.event) # None
    BY <2>1, InHandIs, PlaceIsPlace DEF SaveThreadCursor, DispatchDone,
       RowDone, Busy
  <2>2. ASSUME NEW x \in Events, CancelUnready(x) PROVE cursor'[Listen] = cursor[Listen]
    BY <1>0, <2>2, StoreAssumption DEF CancelUnready
  <2> QED
    BY <1>0, <2>1, <2>2, Movers
    DEF StartBridge, SaveThreadCursor, DispatchDone, RowDone, Advanced
<1>4. StartBridge => cursor'[Listen] # None
  BY <1>0, PlaceIsPlace DEF StartBridge, DiscordTyped
<1>5. pc' # "down" => cursor'[Listen] # None
  <2>1. CASE pc # "down"
    BY <1>0, <1>3, <2>1 DEF ConnectionInv
  <2>2. CASE pc = "down" /\ pc' # "down"
    <3>1. StartBridge
      BY <2>2, ClientMovers DEF Resume, Identify, ScanStarts, ScanEnds
    <3> QED
      BY <1>4, <3>1
  <2> QED
    BY <2>1, <2>2
<1>6. cursor'[Listen] = None => open' = {} /\ boundary' = {}
  <2>1. ASSUME cursor'[Listen] = None PROVE cursor[Listen] = None /\ pc = "down" /\ ~StartBridge
    BY <1>0, <1>3, <1>4, <2>1 DEF ConnectionInv
  <2>2. ASSUME OpenThread \/ OpenThreadUnheard PROVE pc # "down"
    BY <2>2, IdleIsFree DEF OpenThread, OpenThreadUnheard
  <2> QED
    BY <1>0, <2>1, <2>2, Movers DEF ConnectionInv
<1>7. boundary' \subseteq Roots
  <2>1. CASE StartBridge /\ cursor[Listen] = None
    <3>1. open = {} /\ boundary' = Posted
      BY <1>0, <2>1 DEF ConnectionInv, StartBridge
    <3>2. Posted \subseteq Events
      BY IdIs DEF DiscordTyped
    <3> QED
      BY <3>1, <3>2 DEF LogInv, Replies
  <2> QED
    BY <1>0, <2>1, Movers DEF ConnectionInv, StartBridge
<1>8. pc' = "unready" =>
        recon'.ids \subseteq Unready' /\ recon'.at = None /\ DOMAIN recon'.rows = {}
  <2> SUFFICES ASSUME pc' = "unready"
               PROVE  recon'.ids \subseteq Unready' /\ recon'.at = None /\ DOMAIN recon'.rows = {}
    OBVIOUS
  <2>1. CASE Identify
    <3>1. Unready' = Unready
      BY <2>1, UnreadyStays DEF Identify, storeVars, table
    <3> QED
      BY <2>1, <3>1, IdentifyDoes DEF Identify, NoRows
  <2>2. CASE ~Identify
    <3>1. pc = "unready"
      BY <2>2, ClientMovers DEF Resume, ScanStarts, ScanEnds
    <3>2. recon.ids \subseteq Unready /\ recon.at = None /\ DOMAIN recon.rows = {}
      BY <1>0, <3>1 DEF ConnectionInv
    <3>3. recon'.at = recon.at /\ recon'.rows = recon.rows /\ recon'.ids \subseteq recon.ids
      BY <1>0, <2>2, <3>1, ClientMovers, NextUnreadyDoes
      DEF ScanStarts, RowDone, NextUnready, CancelUnready, ReadPage,
          ConnectionInv, Busy, HandInv
    <3>4. ASSUME NEW r \in recon'.ids PROVE r \in Unready'
      <4>1. CASE MakeReady
        BY <1>0, <3>1, <3>2, <3>3, <4>1, UnreadyMoves
        DEF MakeReady, ConnectionInv, Busy, HandInv, CancelUnready, HandlerFree
      <4>2. ASSUME CancelUnready(r) PROVE FALSE
        BY <1>0, <3>4, <4>2, NextUnreadyDoes DEF CancelUnready
      <4> QED
        BY <3>2, <3>3, <4>1, <4>2, UnreadyMoves
    <3> QED
      BY <3>2, <3>3, <3>4
  <2> QED
    BY <2>1, <2>2
<1>9. pc' = "scan" =>
        /\ DOMAIN recon'.rows \subseteq Posted'
        /\ recon'.at = None => DOMAIN recon'.rows = {}
        /\ recon'.at \notin recon'.channels
        /\ \A f \in DOMAIN recon'.rows :
             Channel(f) = recon'.at /\ (recon'.rows[f] = "refused" => version'[f] = "refused")
  <2> SUFFICES ASSUME pc' = "scan"
               PROVE  /\ DOMAIN recon'.rows \subseteq Posted'
                      /\ recon'.at = None => DOMAIN recon'.rows = {}
                      /\ recon'.at \notin recon'.channels
                      /\ \A f \in DOMAIN recon'.rows :
                           /\ Channel(f) = recon'.at
                           /\ recon'.rows[f] = "refused" => version'[f] = "refused"
    OBVIOUS
  <2>1. CASE ScanStarts
    <3>1. recon'.channels \subseteq Channels /\ None \notin Channels
      BY <1>0, <2>1, ScanStartsDoes, NoneIsNoChannel
      DEF ScanStarts, StoreTyped, Channels
    <3> QED
      BY <1>0, <2>1, <3>1, ScanStartsDoes
      DEF ScanStarts, ConnectionInv, StoreTyped
  <2>2. CASE ~ScanStarts
    <3>1. pc = "scan"
      BY <2>2, ClientMovers DEF Resume, Identify, ScanEnds
    <3>2. ASSUME NEW c \in Channels, ReadPage(c)
          PROVE  /\ DOMAIN recon'.rows \subseteq Posted'
                 /\ recon'.at = None => DOMAIN recon'.rows = {}
                 /\ recon'.at \notin recon'.channels
                 /\ \A f \in DOMAIN recon'.rows :
                      /\ Channel(f) = recon'.at
                      /\ recon'.rows[f] = "refused" => version'[f] = "refused"
      <4>1. /\ recon'.rows = Page(c)
            /\ recon'.at = IF Page(c) = NoRows THEN None ELSE c
            /\ recon'.channels = recon.channels \ {c} /\ None \notin recon.channels
        BY <1>0, <3>2, ReadPageDoes, NoneIsNoChannel DEF Recon
      <4>2. UNCHANGED version
        BY <3>2 DEF ReadPage, discordVars
      <4>3. DOMAIN NoRows = {} /\ c # None
        BY StoreAssumption DEF NoRows, Channels
      <4> QED
        BY <4>1, <4>2, <4>3, PageIs, HistoryGrows
    <3>3. ASSUME NEW f \in DOMAIN recon.rows
          PROVE  /\ f \in Posted' /\ Channel(f) = recon.at
                 /\ recon.rows[f] = "refused" => version'[f] = "refused"
      <4>1. /\ f \in Posted /\ Channel(f) = recon.at
            /\ recon.rows[f] = "refused" => version[f] = "refused"
        BY <1>0, <3>1, <3>3 DEF ConnectionInv
      <4> QED
        BY <1>0, <3>3, <4>1, RowIn, HistoryGrows
    <3>4. CASE RowDone
      <4>1. /\ DOMAIN recon'.rows = DOMAIN recon.rows \ {handler.event}
            /\ \A f \in DOMAIN recon'.rows : recon'.rows[f] = recon.rows[f]
            /\ recon'.at = IF DOMAIN recon.rows \ {handler.event} = {} /\ ~recon.more
                           THEN None ELSE recon.at
        BY <1>0, <3>4, RowDoneDoes
      <4>2. recon.at # None \/ DOMAIN recon.rows = {}
        BY <1>0, <3>1 DEF ConnectionInv
      <4>3. /\ recon.at \notin recon.channels /\ None \notin recon.channels
            /\ recon'.channels = recon.channels
        BY <1>0, <3>1, <3>4, RowDoneDoes, NoneIsNoChannel
        DEF ConnectionInv, Recon
      <4> QED
        BY <3>3, <4>1, <4>2, <4>3
    <3>5. CASE recon' = recon
      BY <1>0, <3>1, <3>3, <3>5 DEF ConnectionInv
    <3> QED
      BY <2>2, <3>1, <3>2, <3>4, <3>5, ClientMovers
      DEF Identify, NextUnready, CancelUnready
  <2> QED
    BY <2>1, <2>2
<1> QED
  BY <1>1, <1>2, <1>5, <1>6, <1>7, <1>8, <1>9, HandStep DEF ConnectionInv

\* What is passed stays passed.
LEMMA PassedGrows ==
  ASSUME IngressInv, [IngressNext]_ingressVars
  PROVE  /\ passed \in Nat /\ passed <= Len(log) /\ passed' \in Nat /\ passed <= passed'
         /\ passed' <= Len(log')
<1> USE DEF IngressInv, IngressTyped, ClientTyped, DiscordTyped
<1>1. passed \in 0..Len(log) /\ Len(log) \in Nat
  OBVIOUS
<1>2. passed' \in 0..Len(log') /\ Len(log') \in Nat
  BY IngressTypedStep
<1>3. passed' \in {passed, Len(log), passed + 1}
  BY Movers DEF Identify, DispatchDone
<1> QED
  BY <1>1, <1>2, <1>3

\* How a channel's cursor moves.
LEMMA CursorSteps ==
  ASSUME IngressInv, [IngressNext]_ingressVars, NEW c \in Channels
  PROVE  \/ cursor'[c] = cursor[c]
         \/ /\ StartBridge /\ c = Listen
            /\ cursor[c] = None /\ cursor'[c] = Len(log) /\ boundary' = Posted
         \/ /\ SaveThreadCursor /\ c = Thread
            /\ cursor[c] = None /\ cursor'[c] = IdOf(handler.event)
         \/ (\E x \in Events : CancelUnready(x) /\ c = ThreadOf[x]) /\ cursor'[c] = None
         \/ /\ DispatchDone \/ RowDone
            /\ c = Channel(handler.event) /\ cursor'[c] = IdOf(handler.event)
<1>1. cursor \in [Channels -> (0..Len(log)) \cup {None}]
  BY DEF IngressInv, IngressTyped, StoreTyped
<1>2. CASE StartBridge
  BY <1>1, <1>2 DEF StartBridge
<1>3. CASE SaveThreadCursor
  BY <1>1, <1>3 DEF SaveThreadCursor
<1>4. ASSUME NEW x \in Events, CancelUnready(x)
      PROVE  cursor'[c] = cursor[c] \/ (c = ThreadOf[x] /\ cursor'[c] = None)
  BY <1>1, <1>4 DEF CancelUnready
<1>5. CASE DispatchDone \/ RowDone
  BY <1>1, <1>5 DEF DispatchDone, RowDone, Advanced
<1> QED
  BY <1>2, <1>3, <1>4, <1>5, Movers

\* A root that is reserved now has no thread yet.
LEMMA ReservedIsNew ==
  ASSUME IngressInv, Reserve, IsRoot
  PROVE  cursor[Thread] = None /\ Thread \notin open
<1>1. handler.event \in Events /\ handler.event \notin Present(admitted)
  BY InHandIs DEF Reserve, Accepts, Busy
<1>2. Thread \in Threads
  BY <1>1, StoreAssumption DEF Thread
<1>3. ASSUME Thread \in open PROVE FALSE
  <2>1. PICK r \in Roots \cap Present(admitted) : ThreadOf[r] = Thread
    BY <1>3 DEF IngressInv, LogInv
  <2> QED
    BY <1>1, <2>1, StoreAssumption DEF Thread, IsRoot
<1> QED
  BY <1>2, <1>3 DEF IngressInv, RouteInv

\* A stuck root stays stuck.
LEMMA StuckStays ==
  ASSUME IngressInv, [IngressNext]_ingressVars, NEW r \in Posted, Stuck(r)
  PROVE  Stuck(r)'
<1>1. r \in Events /\ IdOf(r) \in Nat
  BY IdIs DEF IngressInv, IngressTyped, DiscordTyped
<1> QED
  BY <1>1, PassedGrows, HistoryGrows DEF Stuck

\* A root that is fresh stays so until a reply in its thread is done.
LEMMA FreshStays ==
  ASSUME IngressInv, [IngressNext]_ingressVars, NEW r \in Posted, r \in Roots, Fresh(r)
  PROVE  \/ Fresh(r)'
         \/ /\ DispatchDone \/ RowDone
            /\ handler.event \in Replies /\ ThreadOf[handler.event] = ThreadOf[r]
<1>1. /\ r \in Events /\ IdOf(r)' = IdOf(r) /\ ThreadOf[r] \in Threads
      /\ ThreadOf[r] \in Channels /\ ThreadOf[r] # Listen
  BY HistoryGrows, IdIs, StoreAssumption DEF IngressInv, IngressTyped,
     DiscordTyped, Channels
<1>2. ASSUME SaveThreadCursor \/ DispatchDone \/ RowDone PROVE handler.event \in Events
  BY <1>2, InHandIs DEF SaveThreadCursor, DispatchDone, RowDone, Busy
<1>3. ASSUME SaveThreadCursor, ThreadOf[r] = Thread PROVE r = handler.event
  <2>1. handler.event \in Unready
    BY <1>3 DEF SaveThreadCursor, IngressInv, RouteInv, DoneInv, Routing
  <2> QED
    BY <1>1, <1>3, <2>1, UnreadyIs, StoreAssumption DEF Thread
<1> QED
  BY <1>1, <1>2, <1>3, CursorSteps DEF Fresh, Channel, Replies

\* Reserved roots: a reserved root is fresh, or the owner changed it.
LEMMA ReservedStep ==
  ASSUME IngressInv, [IngressNext]_ingressVars, NEW r \in Unready'
  PROVE  Fresh(r)' \/ Stuck(r)'
<1> USE DEF IngressInv
<1>1. CASE Reserve /\ r = handler.event
  <2>1. IsRoot
    BY <1>1 DEF Unready, UnreadyRoots, IsRoot
  <2>2. UNCHANGED cursor
    BY <1>1 DEF Reserve, routing
  <2> QED
    BY <1>1, <2>1, <2>2, ReservedIsNew DEF Fresh, Thread
<1>2. CASE r \in Unready
  <2>1. r \in Posted /\ r \in Roots /\ (Fresh(r) \/ Stuck(r))
    BY <1>2, UnreadyIs DEF StuckInv
  <2>2. ASSUME DispatchDone \/ RowDone, handler.event \in Replies PROVE Stuck(r)
    <3>1. Busy /\ HandInv /\ handler.event # r /\ handler.pc = "done"
      BY <2>1, <2>2, InHandIs DEF DispatchDone, RowDone, Busy, Replies
    <3>2. CASE pc = "live"
      BY <1>2, <3>1, <3>2 DEF StuckInv, HandInv, ConnectionInv
    <3>3. CASE pc = "scan"
      BY <1>2, <3>1, <3>3 DEF StuckInv, InHand
    <3> QED
      BY <2>2, <3>1, <3>2, <3>3 DEF DispatchDone, RowDone, HandInv
  <2> QED
    BY <2>1, <2>2, FreshStays, StuckStays
<1> QED
  BY <1>1, <1>2, UnreadyMoves

\* What the steps of the handler leave alone.
LEMMA HandlerKeeps ==
  ASSUME IngressInv, HandlerSteps
  PROVE  /\ Busy /\ HandInv /\ handler.event \in Posted /\ handler.event \in Events
         /\ handler'.event = handler.event /\ handler'.ver = handler.ver
         /\ IsRoot' = IsRoot /\ Thread' = Thread
         /\ UNCHANGED <<log, version, pc, resumable, passed, recon, boundary>>
<1>1. \E p \in HandlerPc : Step(p)
  BY DEF HandlerSteps, Ignore, Decline, Reserve, Repeat, Acknowledge,
     OpenThread,
     SaveThread, SaveManaged, SaveThreadCursor, MakeReady, HandlerPc
<1>2. handler \in Handler
  BY DEF IngressInv, IngressTyped, ClientTyped
<1>3. handler'.event = handler.event /\ handler'.ver = handler.ver
  BY <1>1, <1>2, StepTo
<1>4. Busy
  BY DEF HandlerSteps, Ignore, Decline, Reserve, Repeat, Acknowledge,
     OpenThread,
     SaveThread, SaveManaged, SaveThreadCursor, MakeReady, Accepts, Busy
<1>5. UNCHANGED <<log, version, pc, resumable, passed, recon, boundary>>
  BY DEF HandlerSteps, Ignore, Decline, Reserve, Repeat, Acknowledge,
     OpenThread,
     SaveThread, SaveManaged, SaveThreadCursor, MakeReady, others,
     discordVars, clientVars,
     auxVars
<1> QED
  BY <1>3, <1>4, <1>5, InHandIs DEF IsRoot, Thread

\* While a root is on its way, the next step of the handler is on its way.
LEMMA OnItsWay ==
  ASSUME IngressInv, [IngressNext]_ingressVars, NEW r \in Unready', r \in Unready, InHand(r),
         pc' = "scan"
  PROVE  InHand(r)'
<1>0. /\ handler.event = r /\ handler.pc \in Routing \cup {"ack"} /\ r \in Roots
      /\ handler \in Handler
  BY UnreadyIs DEF InHand, IngressInv, IngressTyped, ClientTyped
<1>1. CASE Waits
  BY <1>1 DEF Waits, InHand
<1>2. CASE HandlerSteps
  <2>1. ~MakeReady
    <3>1. ASSUME MakeReady PROVE admitted'[r].ready
      BY <1>0, <3>1, MakeReadyDoes DEF IngressInv, IngressTyped
    <3> QED
      BY <3>1 DEF Unready, UnreadyRoots
  <2>2. \E p \in Routing : Step(p)
    BY <1>0, <1>2, <2>1 DEF HandlerSteps, Ignore, Decline, Reserve, Repeat,
       Acknowledge,
       OpenThread, SaveThread, SaveManaged, SaveThreadCursor, Accepts,
       Routing, IsRoot
  <2> QED
    BY <1>0, <1>2, <2>2, StepTo, HandlerKeeps DEF InHand, Routing, HandlerPc
<1>3. CASE Reading
  BY <1>0, <1>3 DEF Reading, NextDispatch, NextRow, NextUnready, HandlerFree,
     Routing
<1> QED
  BY <1>1, <1>2, <1>3, <1>0, HandlerMoves DEF Routing

\* A root in hand that is not refused is fresh.
LEMMA InHandIsFresh ==
  ASSUME IngressInv, [IngressNext]_ingressVars,
         Busy', handler'.event \in Unready', handler'.ver # "refused"
  PROVE  Fresh(handler.event)'
<1> USE DEF IngressInv
<1>0. /\ log \in Seq(Events) /\ LogInv /\ handler \in Handler /\ recon \in Recon
      /\ passed \in Nat /\ Len(log) \in Nat
  BY PassedGrows DEF IngressTyped, DiscordTyped, ClientTyped
<1> DEFINE r == handler'.event
<1>1. CASE NextDispatch
  <2>1. r = log[passed + 1] /\ passed < Len(log)
    BY <1>0, <1>1 DEF NextDispatch, Takes
  <2>2. IdOf(r) = passed + 1
    BY <1>0, <2>1, IdIs
  <2>3. UNCHANGED <<cursor, log, admitted>>
    BY <1>1 DEF NextDispatch, storeVars, table, routing, others, discordVars
  <2>4. r \in Unready
    BY <2>3, UnreadyStays
  <2>5. Fresh(r)
    BY <1>0, <2>2, <2>4 DEF StuckInv, Stuck
  <2> QED
    BY <2>3, <2>5 DEF Fresh, IdOf
<1>2. ASSUME NEW x \in Events, NextUnready(x) PROVE Fresh(handler.event)'
  <2>1. handler'.event = x /\ handler'.ver = version[x]
    BY <1>2 DEF NextUnready, Takes
  <2>2. UNCHANGED <<cursor, log, admitted>>
    BY <1>2 DEF NextUnready, storeVars, table, routing, discordVars
  <2>3. x \in Unready
    BY <2>1, <2>2, UnreadyStays
  <2>4. Fresh(x)
    BY <2>1, <2>3 DEF StuckInv, Stuck
  <2> QED
    BY <2>1, <2>2, <2>4 DEF Fresh, IdOf
<1>3. CASE NextRow
  <2>1. PICK x \in DOMAIN recon.rows : Takes(x, recon.rows[x], "scan")
    BY <1>3 DEF NextRow
  <2>2. handler'.event = x /\ handler'.ver = recon.rows[x]
    BY <2>1 DEF Takes
  <2>3. UNCHANGED <<cursor, log, admitted>>
    BY <1>3 DEF NextRow, storeVars, table, routing, others, discordVars
  <2>4. x \in Unready
    BY <2>2, <2>3, UnreadyStays
  <2>5. FALSE
    BY <1>3, <2>1, <2>2, <2>4 DEF NextRow, HandlerFree, StuckInv, InHand,
       Routing
  <2> QED
    BY <2>5
<1>4. ASSUME Busy, handler'.event = handler.event, handler'.ver = handler.ver, ~RowDone,
             ~DispatchDone
      PROVE  Fresh(handler.event)'
  <2>1. CASE Reserve
    <3>1. IsRoot /\ UNCHANGED cursor
      BY <1>4, <2>1 DEF Unready, UnreadyRoots, IsRoot, Reserve, routing
    <3> QED
      BY <1>4, <2>1, <3>1, ReservedIsNew DEF Fresh, Thread
  <2>2. CASE r \in Unready
    <3>1. Fresh(r)
      BY <1>4, <2>2 DEF StuckInv
    <3> QED
      BY <1>4, <2>2, <3>1, FreshStays, UnreadyIs DEF Fresh
  <2> QED
    BY <1>4, <2>1, <2>2, UnreadyMoves
<1>5. CASE Waits
  <2>1. ~RowDone /\ ~DispatchDone
    BY <1>5, NoMessageIs DEF Waits, RowDone, DispatchDone
  <2> QED
    BY <1>4, <1>5, <2>1 DEF Waits, Busy
<1>6. CASE HandlerSteps
  <2>1. ~RowDone /\ ~DispatchDone
    BY <1>6, HandlerKeeps, NoMessageIs DEF RowDone, DispatchDone, Busy
  <2> QED
    BY <1>4, <1>6, <2>1, HandlerKeeps
<1> QED
  BY <1>1, <1>2, <1>3, <1>5, <1>6, HandlerMoves DEF Reading, Busy

\* While reserved roots are finished, each is still listed, in hand, or refused.
LEMMA UnreadyStep ==
  ASSUME IngressInv, [IngressNext]_ingressVars, pc' = "unready", NEW r \in Unready'
  PROVE  /\ IdOf(r)' <= passed'
         /\ r \in recon'.ids \/ version'[r] = "refused" \/ (Busy' /\ handler'.event = r)
<1> USE DEF IngressInv
<1>0. /\ log \in Seq(Events) /\ LogInv /\ handler \in Handler /\ recon \in Recon
      /\ Len(log) \in Nat
  BY PassedGrows DEF IngressTyped, DiscordTyped, ClientTyped
<1>1. CASE Identify
  <2>1. Unready' = Unready
    BY <1>1, UnreadyStays DEF Identify, storeVars, table
  <2>2. r \in Posted /\ passed' = Len(log) /\ recon'.ids = Unready
    BY <1>1, <2>1, UnreadyIs, IdentifyDoes DEF Identify
  <2>3. IdOf(r)' = IdOf(r) /\ IdOf(r) \in 1..Len(log)
    BY <1>0, <2>2, IdIs, HistoryGrows
  <2> QED
    BY <1>0, <2>1, <2>2, <2>3
<1>2. CASE ~Identify
  <2>1. pc = "unready"
    BY <1>2, ClientMovers DEF Resume, ScanStarts, ScanEnds
  <2>2. passed' = passed
    BY <1>2, <2>1, Movers DEF DispatchDone, ConnectionInv, Busy, HandInv
  <2>3. r \in Unready
    BY <2>1, UnreadyMoves DEF Reserve, Accepts, ConnectionInv, Busy, HandInv
  <2>4. /\ r \in Posted /\ r \in Events /\ IdOf(r)' = IdOf(r) /\ IdOf(r) <= passed
        /\ r \in recon.ids \/ version[r] = "refused" \/ (Busy /\ handler.event = r)
    BY <2>1, <2>3, UnreadyIs, HistoryGrows DEF StuckInv
  <2>5. CASE version[r] = "refused"
    BY <2>2, <2>4, <2>5, HistoryGrows
  <2>6. CASE r \in recon.ids
    <3>1. ASSUME NEW x \in Events, NextUnready(x)
          PROVE  r \in recon'.ids \/ (Busy' /\ handler'.event = r)
      BY <1>0, <2>6, <3>1, NextUnreadyDoes DEF NextUnready, Takes, Busy
    <3>2. ASSUME NEW x \in Events, CancelUnready(x) PROVE r \in recon'.ids
      <4>1. x # r
        <5>1. x \in Unready
          BY <3>2 DEF CancelUnready, ConnectionInv
        <5>2. admitted'[x].state = "cancelled"
          BY <3>2, <5>1, CancelDoes DEF IngressTyped
        <5> QED
          BY <5>2 DEF Unready, UnreadyRoots, InState
      <4> QED
        BY <1>0, <2>6, <3>2, <4>1, NextUnreadyDoes DEF CancelUnready
    <3>3. r \in recon'.ids \/ (Busy' /\ handler'.event = r)
      BY <1>2, <2>1, <2>6, <3>1, <3>2, ClientMovers
      DEF ScanStarts, RowDone, ReadPage, ConnectionInv, Busy, HandInv
    <3> QED
      BY <2>2, <2>4, <3>3
  <2>7. CASE Busy /\ handler.event = r
    <3>1. handler.pc = "done" => version[r] = "refused"
      BY <2>3, <2>7 DEF RouteInv, DoneInv, ConnectionInv, HandInv
    <3>2. Reading => FALSE
      BY <2>7 DEF Reading, NextDispatch, NextRow, NextUnready, HandlerFree,
         Busy
    <3>3. CASE handler.pc # "done"
      <4>1. CASE HandlerSteps
        <5>1. \E p \in HandlerPc \ {"idle"} : Step(p)
          BY <4>1 DEF HandlerSteps, Ignore, Decline, Reserve, Repeat,
             Acknowledge, OpenThread,
             SaveThread, SaveManaged, SaveThreadCursor, MakeReady, HandlerPc
        <5> QED
          BY <1>0, <2>2, <2>4, <2>7, <5>1, StepTo DEF Busy
      <4> QED
        BY <2>2, <2>4, <2>7, <3>2, <3>3, <4>1, HandlerMoves DEF Waits, Busy
    <3> QED
      BY <2>2, <2>4, <3>1, <3>3, HistoryGrows
  <2> QED
    BY <2>4, <2>5, <2>6, <2>7
<1> QED
  BY <1>1, <1>2

\* During the scan a reserved root is stuck, or on its way.
LEMMA ScanRootStep ==
  ASSUME IngressInv, [IngressNext]_ingressVars, pc' = "scan", NEW r \in Unready'
  PROVE  \/ Stuck(r)' /\ (r \in DOMAIN recon'.rows => recon'.rows[r] = "refused")
         \/ InHand(r)'
<1> USE DEF IngressInv
<1>0. handler \in Handler /\ recon \in Recon /\ DiscordTyped
  BY DEF IngressTyped, ClientTyped
<1>1. CASE Reserve /\ r = handler.event
  BY <1>0, <1>1, StepTo DEF Reserve, InHand, HandlerPc
<1>2. CASE r \in Unready /\ ScanStarts
  <2>1. Stuck(r)
    BY <1>2, UnreadyIs DEF ScanStarts, StuckInv, Stuck, HandlerFree, Busy
  <2>2. DOMAIN recon'.rows = {}
    BY <1>0, <1>2, ScanStartsDoes DEF ScanStarts, ConnectionInv,
       IngressTyped, StoreTyped
  <2> QED
    BY <1>2, <2>1, <2>2, StuckStays, UnreadyIs
<1>3. CASE r \in Unready /\ ~ScanStarts
  <2>1. pc = "scan"
    BY <1>3, ClientMovers DEF Resume, Identify, ScanEnds
  <2>2. CASE InHand(r)
    BY <1>3, <2>2, OnItsWay
  <2>3. CASE Stuck(r) /\ (r \in DOMAIN recon.rows => recon.rows[r] = "refused")
    <3>1. ASSUME NEW c \in Channels, ReadPage(c), r \in DOMAIN recon'.rows
          PROVE  recon'.rows[r] = "refused"
      BY <1>0, <2>3, <3>1, ReadPageDoes, PageIs DEF Stuck
    <3>2. ASSUME RowDone, r \in DOMAIN recon'.rows PROVE recon'.rows[r] = "refused"
      BY <1>0, <2>3, <3>2, RowDoneDoes
    <3>3. r \in DOMAIN recon'.rows => recon'.rows[r] = "refused"
      BY <1>3, <2>1, <2>3, <3>1, <3>2, ClientMovers
      DEF Identify, NextUnready, CancelUnready
    <3> QED
      BY <1>3, <2>3, <3>3, StuckStays, UnreadyIs
  <2> QED
    BY <1>3, <2>1, <2>2, <2>3 DEF StuckInv
<1> QED
  BY <1>1, <1>2, <1>3, UnreadyMoves

\* Replies to a root that the scan reserves come after the scan.
LEMMA LaterRepliesStep ==
  ASSUME IngressInv, [IngressNext]_ingressVars, pc' = "scan", IsRoot',
         handler'.pc \in Routing \cup {"ack"},
         NEW e \in Posted' \cap Replies, ThreadOf[e] = Thread'
  PROVE  IdOf(e)' > passed'
<1> USE DEF IngressInv
<1>0. handler \in Handler /\ Len(log) \in Nat
  BY DEF IngressTyped, ClientTyped, DiscordTyped
<1>1. HandlerSteps \/ Waits
  BY <1>0, HandlerMoves DEF Reading, NextDispatch, NextRow, NextUnready,
     Takes, Routing
<1>2. /\ pc = "scan" /\ passed' = passed /\ IsRoot /\ Thread' = Thread
      /\ handler'.event = handler.event
  BY <1>1, HandlerKeeps DEF Waits, clientVars, IsRoot, Thread
<1>3. CASE e \in Posted
  <2>1. CASE handler.pc \in Routing \cup {"ack"}
    BY <1>2, <1>3, <2>1, HistoryGrows DEF StuckInv
  <2>2. CASE handler.pc \notin Routing \cup {"ack"}
    <3>1. CASE Reserve
      BY <1>2, <1>3, <3>1, ReservedIsNew DEF LogInv
    <3>2. CASE Repeat
      <4>1. handler.event \in Unready /\ Busy /\ handler.pc = "check"
        BY <1>0, <1>2, <3>2, StepTo DEF Repeat, Accepts, Unready, HandlerPc,
           Routing, Busy
      <4>2. handler.ver = "refused"
        BY <1>2, <4>1 DEF StuckInv, InHand, Routing, ConnectionInv, HandInv
      <4> QED
        BY <3>2, <4>2 DEF Repeat, Accepts
    <3>3. ~Waits
      BY <2>2 DEF Waits
    <3> QED
      BY <1>0, <1>1, <2>2, <3>1, <3>2, <3>3, StepTo
      DEF HandlerSteps, Ignore, Decline, Acknowledge, OpenThread, SaveThread,
          SaveManaged, SaveThreadCursor, MakeReady, HandlerPc, Routing
  <2> QED
    BY <2>1, <2>2
<1>4. CASE e \notin Posted
  BY <1>0, <1>2, <1>4, HistoryGrows, PassedGrows
<1> QED
  BY <1>3, <1>4

\* Once a session can be resumed, what is still reserved was refused, or is next.
LEMMA ResumableStep ==
  ASSUME IngressInv, [IngressNext]_ingressVars, resumable', NEW r \in Unready'
  PROVE  Stuck(r)' \/ (passed' < Len(log') /\ r = log'[passed' + 1])
<1> USE DEF IngressInv
<1>0. handler \in Handler /\ Len(log) \in Nat /\ passed \in Nat
  BY PassedGrows DEF IngressTyped, ClientTyped, DiscordTyped
<1>1. CASE ScanEnds
  <2>1. r \in Unready
    BY <1>1, UnreadyStays DEF ScanEnds, storeVars, table
  <2>2. Stuck(r)
    BY <1>1, <2>1 DEF ScanEnds, StuckInv, InHand, HandlerFree, Routing
  <2> QED
    BY <2>1, <2>2, StuckStays, UnreadyIs
<1>2. CASE ~ScanEnds
  <2>1. resumable /\ ~Identify
    BY <1>2, ClientMovers DEF Resume, Identify, ScanStarts
  <2>2. CASE Reserve /\ r = handler.event
    <3>1. HandInv /\ UNCHANGED <<log, passed>>
      BY <2>2, HandlerKeeps DEF HandlerSteps
    <3>2. pc = "live"
      BY <1>0, <2>1, <3>1 DEF HandInv, ConnectionInv, Handler
    <3> QED
      BY <2>2, <3>1, <3>2 DEF HandInv
  <2>3. CASE r \in Unready
    <3>1. CASE Stuck(r)
      BY <2>3, <3>1, StuckStays, UnreadyIs
    <3>2. CASE passed < Len(log) /\ r = log[passed + 1]
      <4>1. ~DispatchDone
        <5>1. ASSUME DispatchDone PROVE FALSE
          <6>1. HandInv /\ pc = "live" /\ handler.pc = "done"
            BY <5>1, InHandIs DEF DispatchDone, Busy, HandInv
          <6> QED
            BY <2>3, <3>2, <6>1 DEF HandInv, RouteInv, DoneInv
        <5> QED
          BY <5>1
      <4>2. passed' = passed
        BY <2>1, <4>1, Movers
      <4> QED
        BY <1>0, <3>2, <4>2, HistoryGrows
    <3> QED
      BY <2>1, <2>3, <3>1, <3>2 DEF StuckInv
  <2> QED
    BY <2>2, <2>3, UnreadyMoves
<1> QED
  BY <1>1, <1>2

\* What the owner changed does not hold up anything else.
LEMMA StuckStep ==
  ASSUME IngressInv, [IngressNext]_ingressVars
  PROVE  StuckInv'
BY ReservedStep, InHandIsFresh, UnreadyStep, ScanRootStep, LaterRepliesStep,
   ResumableStep
DEF StuckInv

\* The least of a set of numbers.
LEMMA LeastElement ==
  ASSUME NEW T \in SUBSET Nat, T # {}
  PROVE  \E x \in T : \A y \in T : x <= y
<1> DEFINE below == {pair \in Nat \X Nat : pair[1] < pair[2]}
<1>1. IsWellFoundedOn(below, Nat)
  <2>1. below = OpToRel(<, Nat)
    BY DEF OpToRel
  <2> QED
    BY <2>1, NatLessThanWellFounded
<1> HIDE DEF below
<1>2. PICK x \in T : \A y \in T : ~(<<y, x>> \in below)
  BY <1>1, WFMin
<1>3. ASSUME NEW y \in T PROVE x <= y
  <2>1. x \in Nat /\ y \in Nat /\ ~(<<y, x>> \in below)
    BY <1>2
  <2>2. ~(y < x)
    BY <2>1 DEF below
  <2> QED
    BY <2>1, <2>2
<1> QED
  BY <1>3

\* Discord's log is finite.
LEMMA PostedIsFinite ==
  ASSUME DiscordTyped
  PROVE  IsFiniteSet(Posted)
<1> DEFINE D == 1..Len(log)
           f == [i \in D |-> log[i]]
<1>1. IsFiniteSet(D)
  BY FS_Interval DEF DiscordTyped
<1>2. f \in Surjection(D, Posted)
  BY DEF Surjection, Posted
<1> HIDE DEF D, f
<1> QED
  BY <1>1, <1>2, FS_Surjection

\* A page after a cursor is the oldest part of what is new in the channel.
LEMMA PageIsComplete ==
  ASSUME DiscordTyped, LogInv, NEW c \in Channels, cursor[c] # None,
         NEW e \in Posted, Channel(e) = c, version[e] # "deleted", IdOf(e) > cursor[c],
         e \notin DOMAIN Page(c)
  PROVE  /\ \A f \in DOMAIN Page(c) : IdOf(f) < IdOf(e)
         /\ Cardinality(DOMAIN Page(c)) >= PageSize
<1> DEFINE new == {x \in Posted : /\ Channel(x) = c /\ version[x] # "deleted"
                                  /\ cursor[c] = None \/ IdOf(x) > cursor[c]}
           ahead(x) == {y \in new : IdOf(y) < IdOf(x)}
           D == {x \in new : Cardinality(ahead(x)) < PageSize}
<1>1. DOMAIN Page(c) = D
  BY DEF Page
<1>2. IsFiniteSet(new)
  BY PostedIsFinite, FS_Subset
<1>3. \A x \in new : x \in Posted /\ IdOf(x) \in Nat
  BY IdIs DEF DiscordTyped
<1>4. \A x \in new : IsFiniteSet(ahead(x)) /\ Cardinality(ahead(x)) \in Nat
  BY <1>2, FS_Subset, FS_CardinalityType
<1>5. PageSize \in Nat
  BY IngressAssumption
<1>6. e \in new \ D
  BY <1>1
<1> HIDE DEF new
<1>7. ASSUME NEW x \in new \ D PROVE \A f \in D : IdOf(f) < IdOf(x)
  <2> SUFFICES ASSUME NEW f \in D, ~(IdOf(f) < IdOf(x)) PROVE FALSE
    OBVIOUS
  <2>1. ahead(x) \subseteq ahead(f)
    BY <1>3
  <2>2. Cardinality(ahead(x)) <= Cardinality(ahead(f))
    BY <1>4, <2>1, FS_Subset
  <2>3. Cardinality(ahead(f)) < PageSize /\ ~(Cardinality(ahead(x)) < PageSize)
    OBVIOUS
  <2> QED
    BY <1>4, <1>5, <2>2, <2>3
<1>8. PICK m \in new \ D : \A y \in new \ D : IdOf(m) <= IdOf(y)
  <2> DEFINE T == {IdOf(x) : x \in new \ D}
  <2>1. T \in SUBSET Nat /\ T # {}
    BY <1>3, <1>6
  <2>2. \A x \in new \ D : IdOf(x) \in T
    OBVIOUS
  <2>3. \A n \in T : \E x \in new \ D : n = IdOf(x)
    OBVIOUS
  <2> HIDE DEF T, D
  <2>4. PICK n \in T : \A y \in T : n <= y
    BY <2>1, LeastElement
  <2> QED
    BY <2>2, <2>3, <2>4
<1>9. ahead(m) \subseteq D
  BY <1>3, <1>8
<1>10. Cardinality(ahead(m)) <= Cardinality(D)
  <2>1. IsFiniteSet(D)
    BY <1>2, FS_Subset
  <2> QED
    BY <1>9, <2>1, FS_Subset
<1>11. Cardinality(D) >= PageSize
  <2>1. ~(Cardinality(ahead(m)) < PageSize) /\ Cardinality(ahead(m)) \in Nat
    BY <1>4, <1>8
  <2>2. Cardinality(D) \in Nat
    BY <1>2, FS_Subset, FS_CardinalityType
  <2> QED
    BY <1>5, <1>10, <2>1, <2>2
<1> QED
  BY <1>1, <1>6, <1>7, <1>11

\* The channels that are read have a cursor.
LEMMA ReadHasCursor ==
  ASSUME IngressInv, NEW c \in Channels, Read(c), pc # "down"
  PROVE  cursor[c] # None
<1>1. CASE c = Listen
  BY <1>1 DEF IngressInv, ConnectionInv
<1>2. ASSUME NEW r \in Roots, admitted[r].thread = c, c # Listen PROVE cursor[c] # None
  <2>1. c # None /\ r \in Events
    BY NoneIsNoChannel, StoreAssumption
  <2>2. admitted[r].ready /\ c = ThreadOf[r]
    BY <1>2, <2>1 DEF IngressInv, AdmittedInv
  <2> QED
    BY <1>2, <2>2 DEF IngressInv, RouteInv, ReleasedIsRouted
<1> QED
  BY <1>1, <1>2 DEF Read

\* They are managed, too.
LEMMA ReadIsManaged ==
  ASSUME IngressInv, NEW c \in Channels, Read(c), c # Listen
  PROVE  c \in managedThreads
<1>1. PICK r \in Roots : admitted[r].thread = c
  BY DEF Read
<1>2. c # None /\ r \in Events
  BY NoneIsNoChannel, StoreAssumption
<1>3. admitted[r].ready /\ c = ThreadOf[r]
  BY <1>1, <1>2 DEF IngressInv, AdmittedInv
<1> QED
  BY <1>1, <1>3 DEF IngressInv, RouteInv, ReleasedIsRouted

\* What the bridge is done with, in a channel it reads, was admitted or refused.
LEMMA DoneIsHandled ==
  ASSUME IngressInv, handler.pc = "done", Read(Channel(handler.event))
  PROVE  handler.event \in Handled
<1>1. handler.event \in Events
  BY InHandIs DEF Busy
<1>2. CASE IsRoot
  BY <1>2 DEF IngressInv, RouteInv, DoneInv
<1>3. CASE ~IsRoot
  <2>1. Channel(handler.event) = Thread /\ Thread \in Channels /\ Thread # Listen
    BY <1>1, <1>3, StoreAssumption DEF IsRoot, Channel, Thread, Channels
  <2>2. ManagedHere
    BY <2>1, ReadIsManaged DEF ManagedHere
  <2> QED
    BY <2>2 DEF IngressInv, RouteInv, DoneInv
<1> QED
  BY <1>2, <1>3

\* What is missing in a channel was missing before, or is the last message.
LEMMA MissingMoves ==
  ASSUME IngressInv, [IngressNext]_ingressVars, NEW c \in Channels, NEW e \in Missing(c)'
  PROVE  /\ e \in Posted' /\ Channel(e) = c /\ e \notin Handled /\ e \notin Handled'
         /\ \/ e \in Missing(c) /\ IdOf(e)' = IdOf(e) /\ IdOf(e) \in 1..Len(log)
            \/ e \notin Posted /\ IdOf(e)' = Len(log) + 1
<1> USE DEF IngressInv, IngressTyped
<1>1. /\ e \in Posted' /\ e \notin boundary' /\ Channel(e) = c /\ version'[e] # "deleted"
      /\ e \notin Handled'
  BY DEF Missing
<1>2. Handled \subseteq Handled'
  BY TableGrows, HistoryGrows DEF Handled
<1>3. e \notin Posted => IdOf(e)' = Len(log) + 1
  BY <1>1, HistoryGrows
<1>4. boundary \subseteq boundary'
  BY Movers DEF StartBridge, ConnectionInv
<1>5. CASE e \in Posted
  <2>1. e \in Events /\ IdOf(e)' = IdOf(e) /\ IdOf(e) \in 1..Len(log)
    BY <1>5, IdIs, HistoryGrows DEF DiscordTyped
  <2>2. version[e] # "deleted"
    BY <1>1, <2>1, HistoryGrows
  <2> QED
    BY <1>1, <1>2, <1>4, <1>5, <2>1, <2>2 DEF Missing
<1> QED
  BY <1>1, <1>2, <1>3, <1>5

\* A channel that is read was read before, or is the thread of the root in hand.
LEMMA ReadMoves ==
  ASSUME IngressInv, [IngressNext]_ingressVars, NEW c \in Channels, Read(c)'
  PROVE  \/ Read(c)
         \/ /\ MakeReady /\ IsRoot /\ c = Thread /\ c # Listen /\ Fresh(handler.event)
            /\ handler.event \in Unready /\ cursor[c] = IdOf(handler.event)
            /\ Busy /\ HandInv
            /\ \A e \in Missing(c) : IdOf(handler.event) < IdOf(e)
<1> USE DEF IngressInv, IngressTyped
<1> SUFFICES ASSUME ~Read(c)
             PROVE  /\ MakeReady /\ IsRoot /\ c = Thread /\ c # Listen /\ Fresh(handler.event)
                    /\ handler.event \in Unready /\ cursor[c] = IdOf(handler.event)
                    /\ Busy /\ HandInv
                    /\ \A e \in Missing(c) : IdOf(handler.event) < IdOf(e)
  OBVIOUS
<1>1. c # Listen /\ c # None
  BY NoneIsNoChannel DEF Read
<1>2. PICK r \in Roots : admitted'[r].thread = c
  BY <1>1 DEF Read
<1>3. r \in Events /\ admitted'[r].ready /\ c = ThreadOf[r]
  BY <1>1, <1>2, StoreAssumption, AdmittedStep DEF AdmittedInv
<1>4. admitted[r].thread # c
  BY DEF Read
<1>5. r \in Present(admitted')
  BY <1>3, AdmittedStep DEF AdmittedInv
<1>6. r \in Present(admitted)
  <2>1. ASSUME Reserve, r = handler.event PROVE FALSE
    BY <1>3, <2>1, ReserveDoes DEF ClientTyped, IsRoot
  <2> QED
    BY <1>5, <2>1, TableGrows
<1>7. MakeReady /\ r = handler.event
  BY <1>2, <1>4, <1>6, TableGrows
<1>8. Busy /\ HandInv
  BY <1>7, InHandIs DEF MakeReady, Busy
<1>9. r \in Unready /\ handler.ver # "refused" /\ cursor[Thread] # None
  BY <1>7 DEF MakeReady, RouteInv, DoneInv, Routing
<1>10. Fresh(r) /\ cursor[c] = IdOf(r)
  BY <1>3, <1>7, <1>8, <1>9 DEF StuckInv, Fresh, Thread
<1>11. ASSUME NEW e \in Missing(c) PROVE IdOf(r) < IdOf(e)
  <2>1. e \in Posted /\ e \in Events /\ Channel(e) = c
    BY IdIs DEF Missing, DiscordTyped
  <2>2. e \in Replies /\ ThreadOf[e] = ThreadOf[r]
    BY <1>1, <1>3, <2>1 DEF Channel, Replies
  <2> QED
    BY <1>9, <2>1, <2>2, UnreadyIs DEF LogInv
<1> QED
  BY <1>1, <1>3, <1>7, <1>8, <1>9, <1>10, <1>11 DEF IsRoot, Thread

\* What the bridge is done with is not missing any more, so that it moves on.
LEMMA DispatchPasses ==
  ASSUME IngressInv, DispatchDone, NEW c \in Channels, Read(c), NEW e \in Missing(c)
  PROVE  IdOf(e) > passed + 1 /\ IdOf(handler.event) = passed + 1
<1> USE DEF IngressInv, IngressTyped
<1>0. handler \in Handler /\ LogInv /\ log \in Seq(Events) /\ passed \in Nat
  BY DEF ClientTyped, DiscordTyped
<1>1. Busy /\ HandInv /\ pc = "live" /\ resumable /\ handler.pc = "done"
  BY InHandIs DEF DispatchDone, Busy, HandInv, ConnectionInv
<1>2. passed < Len(log) /\ handler.event = log[passed + 1]
  BY <1>1 DEF HandInv
<1>3. e \in Posted /\ Channel(e) = c /\ e \notin Handled /\ IdOf(e) > passed
  BY <1>1 DEF SkipInv, Future, Missing
<1>4. IdOf(e) \in Nat /\ log[IdOf(e)] = e
  BY <1>0, <1>3, IdIs
<1>5. IdOf(e) # passed + 1
  <2>1. ASSUME IdOf(e) = passed + 1 PROVE FALSE
    <3>1. e = handler.event
      BY <1>2, <1>4, <2>1
    <3> QED
      BY <1>1, <1>3, <3>1, DoneIsHandled
  <2> QED
    BY <2>1
<1>6. IdOf(handler.event) = passed + 1
  BY <1>0, <1>2, IdIs
<1> QED
  BY <1>0, <1>3, <1>4, <1>5, <1>6

\* When a message of a page is done with, one still missing is later, and is
\* on the page or on one still to come.
LEMMA RowPasses ==
  ASSUME IngressInv, RowDone, NEW e \in Missing(recon.at), Read(recon.at)
  PROVE  /\ recon.at = Channel(handler.event) /\ recon.at \in Channels
         /\ IdOf(handler.event) < IdOf(e)
         /\ \/ e \in DOMAIN recon.rows \ {handler.event}
            \/ /\ \A f \in DOMAIN recon.rows : IdOf(f) < IdOf(e)
               /\ recon.more \/ IdOf(e) > passed
<1> USE DEF IngressInv, IngressTyped
<1>1. Busy /\ HandInv /\ pc = "scan" /\ handler.pc = "done" /\ handler.event \in DOMAIN recon.rows
  BY InHandIs DEF RowDone, Busy, HandInv
<1>2. /\ recon.at = Channel(handler.event) /\ recon.at \notin recon.channels
      /\ handler.event \in Posted /\ DOMAIN recon.rows \subseteq Posted
  BY <1>1 DEF ConnectionInv, HandInv
<1>3. recon.at \in Channels
  BY <1>1, <1>2, InHandIs, StoreAssumption DEF Channel, Channels
<1>4. e \in Posted /\ e \notin Handled /\ handler.event \in Handled
  BY <1>1, <1>2, DoneIsHandled DEF Missing
<1>5. \/ e \in DOMAIN recon.rows
      \/ /\ \A f \in DOMAIN recon.rows : IdOf(f) < IdOf(e)
         /\ recon.more \/ IdOf(e) > passed
  BY <1>1, <1>2, <1>3 DEF SkipInv, Scanned
<1>6. IdOf(handler.event) \in Nat /\ IdOf(e) \in Nat /\ IdOf(handler.event) # IdOf(e)
  BY <1>2, <1>4, IdIs DEF DiscordTyped
<1>7. e \in DOMAIN recon.rows => IdOf(handler.event) <= IdOf(e)
  BY <1>1 DEF HandInv
<1> QED
  BY <1>1, <1>2, <1>3, <1>4, <1>5, <1>6, <1>7

\* The cursor of a channel that is read passes nothing that is missing.
LEMMA NothingSkippedStep ==
  ASSUME IngressInv, [IngressNext]_ingressVars
  PROVE  NothingIsSkipped'
<1> USE DEF IngressInv, IngressTyped
<1> SUFFICES ASSUME NEW c \in Channels, Read(c)', NEW e \in Missing(c)', cursor'[c] # None,
                    cursor'[c] >= IdOf(e)'
             PROVE  FALSE
  <2> SUFFICES ASSUME NEW e \in Posted' \ boundary',
                      Channel(e) = Listen \/ \E r \in Roots : admitted'[r].thread = Channel(e),
                      cursor'[Channel(e)] # None, cursor'[Channel(e)] >= IdOf(e)',
                      version'[e] # "deleted", e \notin Handled'
               PROVE  FALSE
    BY DEF NothingIsSkipped, Handled
  <2>1. e \in Events /\ Channel(e) \in Channels
    <3>1. e \in Events
      BY IngressTypedStep DEF DiscordTyped, Posted
    <3> QED
      BY <3>1, StoreAssumption DEF Channel, Channels
  <2> QED
    BY <2>1 DEF Read, Missing
<1>0. /\ Len(log) \in Nat /\ log \in Seq(Events)
      /\ cursor[c] \in (0..Len(log)) \cup {None}
  BY DEF DiscordTyped, StoreTyped
<1>1. /\ e \notin Handled
      /\ \/ e \in Missing(c) /\ IdOf(e)' = IdOf(e) /\ IdOf(e) \in 1..Len(log)
         \/ e \notin Posted /\ IdOf(e)' = Len(log) + 1
  BY MissingMoves
<1>2. IdOf(e)' \in Nat
  BY <1>0, <1>1
<1>3. cursor'[c] # cursor[c]
  <2> SUFFICES ASSUME cursor'[c] = cursor[c] PROVE FALSE
    OBVIOUS
  <2>1. e \in Missing(c) /\ IdOf(e)' = IdOf(e)
    BY <1>0, <1>1
  <2>2. CASE Read(c)
    BY <1>0, <1>1, <2>1, <2>2 DEF SkipInv, NothingIsSkipped, Read, Missing,
       Handled
  <2>3. CASE ~Read(c)
    <3>1. cursor[c] = IdOf(handler.event) /\ IdOf(handler.event) < IdOf(e)
      BY <2>1, <2>3, ReadMoves
    <3>2. IdOf(handler.event) \in Nat
      BY <2>1, <2>3, ReadMoves, InHandIs
    <3> QED
      BY <1>2, <2>1, <3>1, <3>2
  <2> QED
    BY <2>2, <2>3
<1>4. CASE StartBridge
  <2>0. pc = "down" /\ handler.pc = "idle"
    BY <1>4, IdleIsFree DEF StartBridge
  <2>1. boundary' = Posted
    BY <1>3, <2>0, CursorSteps DEF SaveThreadCursor, DispatchDone, RowDone,
       CancelUnready
  <2>2. Posted' = Posted
    BY <1>4 DEF StartBridge, discordVars, Posted
  <2> QED
    BY <2>1, <2>2 DEF Missing
<1>5. CASE SaveThreadCursor /\ c = Thread
  <2>1. handler.event \in Unready /\ handler.event \in Events
    BY <1>5, UnreadyIs DEF SaveThreadCursor, RouteInv, DoneInv, Routing
  <2>2. c # Listen /\ c # None
    BY <1>5, <2>1, NoneIsNoChannel, StoreAssumption DEF Thread
  <2>3. Read(c) /\ UNCHANGED admitted
    BY <1>5 DEF SaveThreadCursor, table, Read
  <2>4. PICK r \in Roots : admitted[r].thread = c
    BY <2>2, <2>3 DEF Read
  <2>5. r = handler.event /\ admitted[r].ready
    BY <1>5, <2>1, <2>2, <2>4, UnreadyIs, StoreAssumption
    DEF AdmittedInv, Thread
  <2> QED
    BY <2>1, <2>5, UnreadyIs
<1>6. CASE DispatchDone /\ cursor'[c] = IdOf(handler.event)
  <2>1. Read(c) /\ UNCHANGED log
    BY <1>6 DEF DispatchDone, table, discordVars, Read
  <2>2. e \in Missing(c) /\ IdOf(e)' = IdOf(e)
    BY <1>1, <2>1 DEF Missing, Posted
  <2>3. IdOf(e) > passed + 1 /\ IdOf(handler.event) = passed + 1
    BY <1>6, <2>1, <2>2, DispatchPasses
  <2>4. IdOf(handler.event) \in Nat
    BY <1>6, InHandIs DEF DispatchDone, Busy
  <2> QED
    BY <1>2, <1>6, <2>2, <2>3, <2>4
<1>7. CASE RowDone /\ c = Channel(handler.event) /\ cursor'[c] = IdOf(handler.event)
  <2>1. Read(c) /\ UNCHANGED log
    BY <1>7 DEF RowDone, table, discordVars, Read
  <2>2. e \in Missing(c) /\ IdOf(e)' = IdOf(e)
    BY <1>1, <2>1 DEF Missing, Posted
  <2>3. c = recon.at
    BY <1>7, InHandIs DEF RowDone, Busy, HandInv, ConnectionInv
  <2>4. IdOf(handler.event) < IdOf(e)
    BY <1>7, <2>1, <2>2, <2>3, RowPasses
  <2>5. IdOf(handler.event) \in Nat
    BY <1>7, InHandIs DEF RowDone, Busy
  <2> QED
    BY <1>2, <1>7, <2>2, <2>4, <2>5
<1> QED
  BY <1>3, <1>4, <1>5, <1>6, <1>7, CursorSteps

\* What is missing in a channel that is read comes after the session's last dispatch.
LEMMA FutureStep ==
  ASSUME IngressInv, [IngressNext]_ingressVars, resumable', NEW c \in Channels, Read(c)'
  PROVE  Future(c)'
<1> USE DEF IngressInv, IngressTyped
<1> SUFFICES ASSUME NEW e \in Missing(c)' PROVE IdOf(e)' > passed'
  BY DEF Future
<1>0. Len(log) \in Nat /\ passed \in Nat /\ passed <= Len(log)
  BY PassedGrows
<1>1. \/ e \in Missing(c) /\ IdOf(e)' = IdOf(e) /\ IdOf(e) \in 1..Len(log)
      \/ e \notin Posted /\ IdOf(e)' = Len(log) + 1 /\ Post(e)
  BY MissingMoves, HistoryGrows
<1>2. CASE ScanEnds
  <2>1. Read(c) /\ e \in Missing(c) /\ passed' = passed
    BY <1>1, <1>2 DEF ScanEnds, storeVars, table, Read, Post, clientVars
  <2>2. c # None
    BY NoneIsNoChannel
  <2>3. Scanned(c)
    BY <1>2, <2>1 DEF ScanEnds, SkipInv
  <2>4. Future(c)
    BY <1>2, <2>2, <2>3 DEF ScanEnds, Scanned
  <2>5. IdOf(e)' = IdOf(e)
    BY <1>1, <2>1 DEF Missing
  <2> QED
    BY <2>1, <2>4, <2>5 DEF Future
<1>3. CASE ~ScanEnds
  <2>1. resumable /\ ~Identify
    BY <1>3, ClientMovers DEF Resume, Identify, ScanStarts
  <2>2. CASE e \notin Posted
    <3>1. IdOf(e)' = Len(log) + 1 /\ passed' = passed
      BY <1>1, <2>2 DEF Post, clientVars, Missing
    <3> QED
      BY <1>0, <3>1
  <2>3. CASE e \in Missing(c) /\ Read(c)
    <3>1. IdOf(e) > passed
      BY <2>1, <2>3 DEF SkipInv, Future
    <3>2. DispatchDone => IdOf(e) > passed + 1 /\ passed' = passed + 1
      BY <2>3, DispatchPasses DEF DispatchDone
    <3> QED
      BY <1>1, <2>1, <2>3, <3>1, <3>2, Movers DEF Missing
  <2>4. CASE e \in Missing(c) /\ ~Read(c)
    <3>1. MakeReady /\ Busy /\ HandInv /\ IdOf(handler.event) < IdOf(e)
      BY <2>4, ReadMoves
    <3>2. pc = "live"
      BY <2>1, <3>1 DEF HandInv, ConnectionInv, ClientTyped, Handler
    <3>3. IdOf(handler.event) = passed + 1
      BY <1>0, <3>1, <3>2, IdIs DEF HandInv, DiscordTyped
    <3>4. passed' = passed
      BY <3>1 DEF MakeReady, others, clientVars
    <3> QED
      BY <1>0, <1>1, <2>4, <3>1, <3>3, <3>4 DEF Missing
  <2> QED
    BY <1>1, <2>2, <2>3, <2>4
<1> QED
  BY <1>2, <1>3

\* A page that is read holds what is missing, or more pages follow.
LEMMA ReadPageScans ==
  ASSUME IngressInv, [IngressNext]_ingressVars, NEW c \in Channels, ReadPage(c), Read(c)
  PROVE  Scanned(c)'
<1> USE DEF IngressInv, IngressTyped
<1>0. /\ recon'.rows = Page(c)
      /\ recon'.at = IF Page(c) = NoRows THEN None ELSE c
      /\ recon'.more = (Cardinality(DOMAIN Page(c)) >= PageSize)
  BY ReadPageDoes DEF ClientTyped
<1>1. UNCHANGED <<admitted, log, version, passed, boundary, declined, cursor>> /\ pc = "scan"
  BY DEF ReadPage, storeVars, table, routing, discordVars, clientVars, auxVars
<1>2. /\ Missing(c)' = Missing(c) /\ \A x : IdOf(x)' = IdOf(x)
  BY <1>1 DEF Missing, Handled, Posted, IdOf
<1>3. cursor[c] # None
  BY <1>1, ReadHasCursor
<1>4. ASSUME NEW e \in Missing(c), e \notin DOMAIN Page(c)
      PROVE  /\ \A f \in DOMAIN Page(c) : IdOf(f) < IdOf(e)
             /\ recon'.more
  <2>1. e \in Posted /\ Channel(e) = c /\ version[e] # "deleted"
    BY DEF Missing
  <2>2. IdOf(e) > cursor[c]
    <3>1. cursor[c] < IdOf(e) \/ ~(cursor[c] >= IdOf(e))
      BY <1>3, <1>4, <2>1 DEF SkipInv, NothingIsSkipped, Read, Missing, Handled
    <3>2. cursor[c] \in Nat /\ IdOf(e) \in Nat
      BY <1>3, <2>1, IdIs DEF StoreTyped, DiscordTyped
    <3> QED
      BY <3>1, <3>2
  <2> QED
    BY <1>0, <1>3, <1>4, <2>1, <2>2, PageIsComplete
<1>5. CASE Page(c) = NoRows
  <2>1. Missing(c) = {}
    <3>1. ASSUME NEW e \in Missing(c) PROVE FALSE
      <4>1. recon'.more /\ DOMAIN Page(c) = {}
        BY <1>4, <1>5, <3>1 DEF NoRows
      <4>2. Cardinality(DOMAIN Page(c)) = 0
        BY <4>1, FS_EmptySet
      <4>3. 0 >= PageSize
        BY <1>0, <4>1, <4>2
      <4> QED
        BY <4>3, IngressAssumption
    <3> QED
      BY <3>1
  <2>2. recon'.at # c
    BY <1>0, <1>5, NoneIsNoChannel
  <2> QED
    BY <1>2, <2>1, <2>2 DEF Scanned, Future
<1>6. CASE Page(c) # NoRows
  <2>1. recon'.at = c
    BY <1>0, <1>6
  <2> QED
    BY <1>0, <1>2, <1>4, <2>1 DEF Scanned
<1> QED
  BY <1>5, <1>6

\* What is done of a page leaves the rest to do.
LEMMA RowDoneScans ==
  ASSUME IngressInv, [IngressNext]_ingressVars, NEW c \in Channels, RowDone, Read(c)
  PROVE  Scanned(c)'
<1> USE DEF IngressInv, IngressTyped
<1>0. /\ recon'.channels = recon.channels /\ recon'.more = recon.more
      /\ DOMAIN recon'.rows = DOMAIN recon.rows \ {handler.event}
      /\ recon'.at = IF DOMAIN recon.rows \ {handler.event} = {} /\ ~recon.more
                     THEN None ELSE recon.at
  BY RowDoneDoes DEF ClientTyped
<1>1. UNCHANGED <<admitted, log, version, passed, boundary, declined>>
  BY DEF RowDone, table, discordVars, clientVars, auxVars
<1>2. /\ Missing(c)' = Missing(c) /\ \A x : IdOf(x)' = IdOf(x)
  BY <1>1 DEF Missing, Handled, Posted, IdOf
<1>3. pc = "scan" /\ Scanned(c) /\ recon.at \notin recon.channels /\ c # None
  BY InHandIs, NoneIsNoChannel DEF RowDone, Busy, HandInv, SkipInv,
     ConnectionInv
<1>4. CASE recon.at # c
  BY <1>0, <1>1, <1>2, <1>3, <1>4 DEF Scanned, Future
<1>5. CASE recon.at = c
  <2>1. ASSUME NEW e \in Missing(c)
        PROVE  \/ e \in DOMAIN recon'.rows
               \/ /\ \A f \in DOMAIN recon'.rows : IdOf(f) < IdOf(e)
                  /\ recon'.more \/ IdOf(e) > passed
    BY <1>0, <1>5, RowPasses
  <2>2. CASE recon'.at = c
    BY <1>1, <1>2, <2>1, <2>2 DEF Scanned
  <2>3. CASE recon'.at # c
    BY <1>0, <1>1, <1>2, <1>5, <2>1, <2>3 DEF Scanned, Future
  <2> QED
    BY <2>2, <2>3
<1> QED
  BY <1>4, <1>5

\* The scan has what is missing still before it.
LEMMA ScannedStep ==
  ASSUME IngressInv, [IngressNext]_ingressVars, pc' = "scan", NEW c \in Channels, Read(c)'
  PROVE  Scanned(c)'
<1> USE DEF IngressInv, IngressTyped
<1>0. /\ recon \in Recon /\ c # None /\ Len(log) \in Nat /\ passed \in Nat
      /\ passed <= Len(log)
  BY NoneIsNoChannel, PassedGrows DEF ClientTyped
<1>1. CASE ScanStarts
  <2>1. Read(c) /\ recon'.channels = {Listen} \cup managedThreads
    BY <1>0, <1>1, ScanStartsDoes DEF ScanStarts, storeVars, table, Read,
       StoreTyped
  <2> QED
    BY <2>1, ReadIsManaged DEF Scanned
<1>2. CASE ~ScanStarts
  <2>1. pc = "scan"
    BY <1>2, ClientMovers DEF Resume, Identify, ScanEnds
  <2>2. ASSUME NEW x \in Channels, ReadPage(x) PROVE Scanned(c)'
    <3>1. Read(c)
      BY <2>2 DEF ReadPage, storeVars, table, Read
    <3>2. CASE x = c
      BY <2>2, <3>1, <3>2, ReadPageScans
    <3>3. CASE x # c
      <4>1. /\ recon'.channels = recon.channels \ {x} /\ recon'.at \in {None, x}
        BY <1>0, <2>2, ReadPageDoes
      <4>2. recon.at # c
        BY <1>0, <2>2, <3>3 DEF ReadPage
      <4>3. UNCHANGED <<admitted, log, version, passed, boundary, declined>>
        BY <2>2 DEF ReadPage, storeVars, table, discordVars, clientVars,
           auxVars
      <4>4. Future(c)' = Future(c)
        BY <4>3 DEF Future, Missing, Handled, Posted, IdOf
      <4> QED
        BY <1>0, <2>1, <3>1, <3>3, <4>1, <4>2, <4>4 DEF SkipInv, Scanned
    <3> QED
      BY <3>2, <3>3
  <2>3. CASE RowDone
    <3>1. Read(c)
      BY <2>3 DEF RowDone, table, Read
    <3> QED
      BY <2>3, <3>1, RowDoneScans
  <2>4. CASE recon' = recon
    <3>1. passed' = passed
      BY <1>0, <1>2, <2>1, Movers DEF Identify, DispatchDone, ConnectionInv,
         HandInv, Busy
    <3>2. ASSUME NEW e \in Missing(c)'
          PROVE  \/ e \in Missing(c) /\ IdOf(e)' = IdOf(e)
                 \/ /\ IdOf(e)' > passed'
                    /\ \A f \in Posted : IdOf(f)' < IdOf(e)'
      <4>1. \A f \in Posted : IdOf(f)' = IdOf(f) /\ IdOf(f) \in 1..Len(log)
        BY IdIs, HistoryGrows DEF DiscordTyped
      <4> QED
        BY <1>0, <3>1, <4>1, MissingMoves
    <3>3. \A f \in DOMAIN recon.rows : f \in Posted /\ IdOf(f)' = IdOf(f)
      BY <2>1, HistoryGrows DEF ConnectionInv
    <3>4. CASE Read(c)
      <4>1. CASE c \in recon.channels
        BY <2>4, <4>1 DEF Scanned
      <4>2. CASE recon.at # c /\ Future(c)
        <5>1. Future(c)'
          BY <3>1, <3>2, <4>2 DEF Future
        <5> QED
          BY <2>4, <4>2, <5>1 DEF Scanned
      <4>3. CASE /\ recon.at = c
                 /\ \A e \in Missing(c) :
                      \/ e \in DOMAIN recon.rows
                      \/ /\ \A f \in DOMAIN recon.rows : IdOf(f) < IdOf(e)
                         /\ recon.more \/ IdOf(e) > passed
        <5>1. ASSUME NEW e \in Missing(c)'
              PROVE  \/ e \in DOMAIN recon.rows
                     \/ /\ \A f \in DOMAIN recon.rows : IdOf(f)' < IdOf(e)'
                        /\ recon.more \/ IdOf(e)' > passed
          BY <3>1, <3>2, <3>3, <4>3
        <5> QED
          BY <2>4, <3>1, <4>3, <5>1 DEF Scanned
      <4> QED
        BY <2>1, <3>4, <4>1, <4>2, <4>3 DEF SkipInv, Scanned
    <3>5. CASE ~Read(c)
      <4>1. /\ MakeReady /\ IsRoot /\ c = Thread /\ c # Listen /\ Busy /\ HandInv
            /\ handler.event \in Unready
        BY <3>5, ReadMoves
      <4>2. recon.at # c
        BY <2>1, <4>1 DEF HandInv, ConnectionInv, Channel, IsRoot
      <4>3. ASSUME NEW e \in Missing(c) PROVE IdOf(e) > passed
        <5>1. e \in Posted \cap Replies /\ ThreadOf[e] = Thread
          BY <4>1, IdIs DEF Missing, Channel, Replies, DiscordTyped
        <5> QED
          BY <2>1, <4>1, <5>1 DEF StuckInv, MakeReady, Routing
      <4>4. Future(c)'
        BY <3>1, <3>2, <4>3 DEF Future
      <4> QED
        BY <2>4, <4>2, <4>4 DEF Scanned
    <3> QED
      BY <3>4, <3>5
  <2> QED
    BY <1>2, <2>1, <2>2, <2>3, <2>4, ClientMovers
    DEF Identify, NextUnready, CancelUnready
<1> QED
  BY <1>1, <1>2

\* Nothing is skipped.
LEMMA SkipStep ==
  ASSUME IngressInv, [IngressNext]_ingressVars
  PROVE  SkipInv'
BY NothingSkippedStep, FutureStep, ScannedStep DEF SkipInv

\* What was posted before a message that is reserved now was admitted, or was refused.
LEMMA EarlierIsHandled ==
  ASSUME IngressInv, Reserve, NEW f \in Posted, ThreadOf[f] = Thread,
         IdOf(f) < IdOf(handler.event), version[f] = "original"
  PROVE  f \in Handled
<1> USE DEF IngressInv, IngressTyped
<1> DEFINE e == handler.event
           c == Channel(f)
<1>0. /\ handler \in Handler /\ log \in Seq(Events) /\ Len(log) \in Nat /\ passed \in Nat
      /\ f \in Events /\ LogInv
  BY IdIs DEF ClientTyped, DiscordTyped
<1>1. /\ Busy /\ HandInv /\ e \in Posted /\ e \in Events
  BY InHandIs DEF Reserve, Accepts, Busy
<1>2. IdOf(e) \in Nat /\ IdOf(f) \in Nat /\ e # f
  BY <1>0, <1>1, IdIs
<1>3. ~IsRoot
  <2>1. ASSUME IsRoot PROVE FALSE
    <3>1. f \notin Roots
      BY <1>2, <2>1, StoreAssumption DEF IsRoot, Thread
    <3> QED
      BY <1>0, <1>1, <1>2, <2>1, <3>1 DEF LogInv, IsRoot, Thread, Replies
  <2> QED
    BY <2>1
<1>4. PICK s \in Roots : admitted[s].thread = Thread
  BY <1>3 DEF Reserve, Accepts, BoundHere
<1>5. Thread \in Threads /\ Thread \in Channels /\ Thread # Listen /\ Thread # None
  BY <1>1, NoneIsNoChannel, StoreAssumption DEF Thread, Channels
<1>6. admitted[s].ready /\ ThreadOf[s] = Thread /\ s \in Present(admitted)
  BY <1>4, <1>5, StoreAssumption DEF AdmittedInv
<1>7. CASE f \in Roots
  <2>1. f = s
    BY <1>6, <1>7, StoreAssumption
  <2> QED
    BY <1>6, <2>1 DEF Handled
<1>8. CASE f \notin Roots
  <2> SUFFICES ASSUME f \notin Handled PROVE FALSE
    OBVIOUS
  <2>1. c = Thread /\ Read(c)
    BY <1>4, <1>8 DEF Channel, Read
  <2>2. f \in Missing(c)
    BY <1>8 DEF Missing, ConnectionInv
  <2>3. CASE pc = "live"
    <3>1. IdOf(f) > passed
      BY <1>5, <2>1, <2>2, <2>3 DEF SkipInv, Future, ConnectionInv
    <3>2. IdOf(e) = passed + 1
      BY <1>0, <1>1, <2>3, IdIs DEF HandInv
    <3> QED
      BY <1>0, <1>2, <3>1, <3>2
  <2>4. CASE pc = "scan"
    <3>1. /\ recon.at = c /\ recon.at \notin recon.channels /\ e \in DOMAIN recon.rows
          /\ \A x \in DOMAIN recon.rows : IdOf(e) <= IdOf(x)
      BY <1>1, <1>3, <2>1, <2>4 DEF HandInv, ConnectionInv, Channel, IsRoot,
         Thread
    <3> QED
      BY <1>2, <1>5, <2>1, <2>2, <2>4, <3>1 DEF SkipInv, Scanned
  <2>5. pc \in {"live", "scan"}
    BY <1>0, <1>1, <1>3 DEF HandInv, Handler, IsRoot
  <2> QED
    BY <2>3, <2>4, <2>5
<1> QED
  BY <1>7, <1>8

\* Messages are admitted in the order they were posted.
LEMMA PostingStep ==
  ASSUME IngressInv, [IngressNext]_ingressVars
  PROVE  PostingInv'
<1> USE DEF IngressInv, IngressTyped
<1>0. /\ Len(log) \in Nat /\ DiscordTyped /\ LogInv
      /\ \A e \in Events : version'[e] = "original" => version[e] = "original"
      /\ declined \subseteq declined' /\ Handled \subseteq Handled'
  BY HistoryGrows, TableGrows DEF DiscordTyped, Handled
<1>1. \A e \in Present(admitted) : e \in Posted /\ e \in Events
  BY DEF AdmittedInv, Present
<1>2. \A e \in Posted : IdOf(e)' = IdOf(e) /\ IdOf(e) \in 1..Len(log) /\ e \in Events
  BY <1>0, IdIs, HistoryGrows DEF DiscordTyped
<1>3. ASSUME NEW e \in Present(admitted'), e \notin Present(admitted)
      PROVE  Reserve /\ e = handler.event /\ e \in Posted /\ Posted' = Posted
             /\ admitted'[e].at = Cardinality(Present(admitted)) + 1
             /\ ThreadOf[e] = Thread
  <2>1. Reserve /\ e = handler.event
    BY <1>3, TableGrows
  <2>2. e \in Posted /\ e \in Events
    BY <2>1, InHandIs DEF Reserve, Accepts, Busy
  <2>3. Posted' = Posted
    BY <2>1 DEF Reserve, others, discordVars, Posted
  <2> QED
    BY <2>1, <2>2, <2>3, ReserveDoes DEF ClientTyped, Thread
<1>4. ASSUME NEW e \in Present(admitted'), NEW f \in Posted',
             ThreadOf[f] = ThreadOf[e], IdOf(f)' < IdOf(e)', version'[f] = "original"
      PROVE  f \in Handled'
  <2>1. CASE e \in Present(admitted)
    <3>1. f \in Posted
      BY <1>0, <1>1, <1>2, <1>4, <2>1, HistoryGrows
    <3> QED
      BY <1>0, <1>1, <1>2, <1>4, <2>1, <3>1 DEF PostingInv
  <2>2. CASE e \notin Present(admitted)
    <3>1. Reserve /\ e = handler.event /\ e \in Posted /\ f \in Posted /\ ThreadOf[f] = Thread
      BY <1>3, <1>4, <2>2
    <3>2. IdOf(f) < IdOf(e) /\ version[f] = "original"
      BY <1>0, <1>2, <1>4, <3>1
    <3> QED
      BY <1>0, <3>1, <3>2, EarlierIsHandled
  <2> QED
    BY <2>1, <2>2
<1>5. ASSUME NEW e \in Present(admitted') \ (Changed' \cup declined'),
             NEW f \in Present(admitted') \ (Changed' \cup declined'),
             ThreadOf[e] = ThreadOf[f], IdOf(e)' < IdOf(f)'
      PROVE  admitted'[e].at < admitted'[f].at
  <2>0. /\ e \in Events /\ f \in Events /\ version[e] = "original" /\ version[f] = "original"
        /\ e \notin declined /\ f \notin declined
    BY <1>0, <1>5 DEF Present, Changed
  <2>1. CASE e \in Present(admitted) /\ f \in Present(admitted)
    <3>1. IdOf(e) < IdOf(f)
      BY <1>1, <1>2, <1>5, <2>1
    <3>2. admitted[e].at < admitted[f].at
      BY <1>5, <2>0, <2>1, <3>1 DEF PostingInv, InPostingOrder, Changed
    <3> QED
      BY <2>1, <3>2, TableGrows
  <2>2. CASE f \notin Present(admitted)
    <3>1. e \in Present(admitted)
      BY <1>0, <1>2, <1>3, <1>5, <2>2
    <3>2. admitted[e].at <= Cardinality(Present(admitted)) /\ admitted'[e].at = admitted[e].at
      BY <2>0, <3>1, TableGrows DEF AdmittedInv
    <3>3. admitted[e].at \in Nat /\ Cardinality(Present(admitted)) \in Nat
      BY <2>0, FS_CardinalityType DEF StoreTyped, Row, AdmittedInv
    <3> QED
      BY <1>3, <2>2, <3>2, <3>3
  <2>3. CASE e \notin Present(admitted) /\ f \in Present(admitted)
    <3>1. e \in Posted /\ f \in Posted
      BY <1>1, <1>3, <2>3
    <3>2. IdOf(e) < IdOf(f)
      BY <1>2, <1>5, <3>1
    <3>3. e \in Handled
      BY <1>5, <2>0, <2>3, <3>1, <3>2 DEF PostingInv
    <3> QED
      BY <2>0, <2>3, <3>3 DEF Handled
  <2> QED
    BY <2>1, <2>2, <2>3
<1>6. InPostingOrder'
  BY <1>5 DEF InPostingOrder
<1> QED
  BY <1>4, <1>6 DEF PostingInv

\* The first state: nothing is posted, and the bridge has never run.
LEMMA IngressStarts == IngressInit => IngressInv
<1> SUFFICES ASSUME IngressInit PROVE IngressInv
  OBVIOUS
<1>1. /\ log = <<>> /\ Len(log) = 0 /\ log \in Seq(Events) /\ Posted = {}
      /\ admitted = [e \in Events |-> NoRow] /\ Present(admitted) = {} /\ open = {}
      /\ mapped = {} /\ managedThreads = {} /\ boundary = {} /\ declined = {}
      /\ cursor = [c \in Channels |-> None]
  BY DEF IngressInit, Posted, Present, NoRow
<1>2. /\ handler.pc = "idle" /\ ~Busy /\ pc = "down" /\ resumable = FALSE
      /\ handler \in Handler /\ recon \in Recon
  BY NoMessageIs, NoReconIs DEF IngressInit, Busy
<1>3. Unready = {}
  BY <1>1 DEF Unready, UnreadyRoots, InState, NoRow
<1>4. IngressTyped
  <2>1. admitted \in [Events -> Row(Nobody)]
    BY <1>1, EmptyRow
  <2>2. 0 \in 0..MaxFaults /\ 0 \in 0..MaxExpiries
    BY IngressAssumption
  <2>3. StoreTyped /\ DiscordTyped
    BY <1>1, <2>1 DEF IngressInit, StoreTyped, DiscordTyped, Versions
  <2>4. ClientTyped
    <3>1. passed \in 0..Len(log)
      BY <1>1 DEF IngressInit
    <3>2. session = FALSE
      BY DEF IngressInit
    <3> QED
      BY <1>2, <3>1, <3>2 DEF ClientTyped
  <2>5. HistoryTyped
    BY <2>2 DEF IngressInit, HistoryTyped
  <2> QED
    BY <2>3, <2>4, <2>5 DEF IngressTyped
<1>5. LogInv
  BY <1>1 DEF LogInv
<1>6. AdmittedInv
  BY <1>1, FS_EmptySet DEF AdmittedInv, NoRow
<1>7. ConnectionInv
  BY <1>1, <1>2 DEF ConnectionInv
<1>8. RouteInv
  <2>1. \A t \in Threads : cursor[t] = None
    BY <1>1 DEF Channels
  <2>2. \A r \in Roots : ~admitted[r].ready
    BY <1>1, StoreAssumption DEF NoRow
  <2> QED
    BY <1>1, <1>2, <2>1, <2>2 DEF RouteInv, ReleasedIsRouted, DoneInv, Routing
<1>9. StuckInv
  BY <1>2, <1>3 DEF StuckInv
<1>10. SkipInv /\ PostingInv
  BY <1>1, <1>2 DEF SkipInv, NothingIsSkipped, PostingInv, InPostingOrder
<1> QED
  BY <1>4, <1>5, <1>6, <1>7, <1>8, <1>9, <1>10 DEF IngressInv

\* The invariant holds in every reachable state.
LEMMA IngressInvariant == IngressSpec => []IngressInv
<1>1. IngressInv /\ [IngressNext]_ingressVars => IngressInv'
  BY IngressTypedStep, LogStep, AdmittedStep, ConnectionStep, RouteStep,
     StuckStep, SkipStep,
     PostingStep
  DEF IngressInv
<1> QED
  BY IngressStarts, <1>1, PTL DEF IngressSpec

\* The state has the types its declarations give it.
THEOREM IngressTypes == IngressSpec => []IngressTypeOK
<1>1. IngressInv => IngressTypeOK
  <2> SUFFICES ASSUME IngressInv PROVE IngressTypeOK
    OBVIOUS
  <2>1. /\ DOMAIN admitted = Events
        /\ \A e \in Events : admitted[e].state \in JobStates
                             /\ admitted[e].thread \in {None, ThreadOf[e]}
    BY DEF IngressInv, IngressTyped, StoreTyped, Row, AdmittedInv
  <2>2. Posted \subseteq Events
    BY DEF IngressInv, IngressTyped, DiscordTyped, Posted
  <2>3. recon.ids \subseteq Roots /\ recon.channels \subseteq Channels
        /\ recon.at \in Channels \cup {None}
    BY DEF IngressInv, IngressTyped, ClientTyped, Recon
  <2> QED
    BY <2>1, <2>2, <2>3
    DEF IngressTypeOK, IngressInv, IngressTyped, StoreTyped, DiscordTyped,
        ClientTyped,
        HistoryTyped, Handler
<1> QED
  BY <1>1, IngressInvariant, PTL

\* A cursor passes no message that is neither in the table nor refused
\* (reconcile_recent, save_cursor).
THEOREM MessagesAreNotSkipped == IngressSpec => []NothingIsSkipped
<1>1. IngressInv => NothingIsSkipped
  BY DEF IngressInv, SkipInv
<1> QED
  BY <1>1, IngressInvariant, PTL

\* The messages of a thread are admitted in the order they were posted
\* (enqueue_limited, under the dispatches, the replays and the scans).
THEOREM PostingOrderIsKept == IngressSpec => []InPostingOrder
<1>1. IngressInv => InPostingOrder
  BY DEF IngressInv, PostingInv
<1> QED
  BY <1>1, IngressInvariant, PTL

\* A root is released once its thread, both mappings and the thread's cursor are
\* durable (ensure_response_thread, make_ready).
THEOREM ReleasedRootsAreRouted == IngressSpec => []ReleasedIsRouted
<1>1. IngressInv => ReleasedIsRouted
  BY DEF IngressInv, RouteInv
<1> QED
  BY <1>1, IngressInvariant, PTL

=============================================================================
