--------------------------- MODULE GatewaySession ---------------------------
(***************************************************************************)
(* The approval Gateway client: its session with Discord, the checkpoint   *)
(* that RESUME starts from, the durable inbox of the clicks, and the       *)
(* budget of IDENTIFY operations (src/discord-gateway/client.py and        *)
(* src/discord-gateway/interaction_store.py).                              *)
(*                                                                         *)
(* Discord numbers the events of a session.  The client handles them in    *)
(* order: an approval click is written into the inbox, acknowledged, and   *)
(* made ready for the drainer; only then does the checkpoint move past it. *)
(* After a lost connection, an error or a restart the client RESUMEs from  *)
(* the checkpoint and Discord sends the later events again; without a      *)
(* session it can trust it reserves an IDENTIFY and starts a new one.      *)
(*                                                                         *)
(* What the router does with a click is in Approval.                       *)
(***************************************************************************)
EXTENDS IdentifyBudget

CONSTANTS
  Clicks,       \* the owner's clicks on approval buttons
  Strays,       \* clicks that are denied: another user's, a foreign message's
  Cap,          \* the most rows that may be active in the inbox (256)
  MaxSessions,  \* bound on the sessions Discord opens
  MaxFaults,    \* bound on losses, errors, crashes and outages
  MaxTime       \* bound on the clock

ASSUME GatewayAssumption ==
  /\ IsFiniteSet(Clicks) /\ Clicks \intersect Strays = {}
  /\ Cap \in Nat \ {0}
  /\ {MaxSessions, MaxFaults, MaxTime} \subseteq Nat

VARIABLES
  clock,
  ledger,      \* identify_budget.json
  identified,  \* history: the times of the IDENTIFY operations since the file was
               \* last lost
  sleep,       \* the wait for the budget: since when, until when, and what for
  disk,        \* client_state.json
  mem,         \* the state of the running client
  conn,        \* what the session's coroutine is doing
  pos,         \* the event of the session it receives next
  session,     \* Discord: the latest session, its events, and whether it can be resumed
  inbox,       \* interaction_inbox: the state of each click's row
  faults

vars == <<clock, ledger, identified, sleep, disk, mem, conn, pos, session, inbox, faults>>
budgetVars == <<ledger, identified, sleep>>

\* A state without a session.  seq is the checkpoint, 0 when there is none; guild
\* says that the configured guild is among guild_ids.
NoState == [id |-> 0, seq |-> 0, guild |-> FALSE]

\* The client does not wait for the budget.
NoSleep == [at |-> 0, until |-> 0, reason |-> "none"]

\* The events of a session.
Ready(exact)   == [type |-> "READY", exact |-> exact]
GuildCreate    == [type |-> "GUILD_CREATE"]
GuildDelete    == [type |-> "GUILD_DELETE"]
Interaction(c) == [type |-> "INTERACTION_CREATE", click |-> c]

Clicked(c) == \E i \in DOMAIN session.log : session.log[i] = Interaction(c)
Event == session.log[pos]
Active == {c \in Clicks : inbox[c] \in {"received", "pending", "processing"}}

Init ==
  /\ clock = 0 /\ ledger = EmptyLedger /\ identified = <<>> /\ sleep = NoSleep
  /\ disk = NoState /\ mem = NoState
  /\ conn = "down" /\ pos = 0
  /\ session = [id |-> 0, log |-> <<>>, alive |-> FALSE]
  /\ inbox = [c \in Clicks |-> "absent"]
  /\ faults = 0

Fault == faults < MaxFaults /\ faults' = faults + 1

(***************************************************************************)
(* The session.                                                            *)
(***************************************************************************)
\* gateway_session: the state says that a verified session can be resumed.
ShouldResume == mem.id # 0 /\ mem.guild

\* run_forever and gateway_session: a connection and its HELLO; a state that does
\* not allow RESUME is forgotten.
Connect ==
  /\ conn = "down"
  /\ conn' = IF ShouldResume THEN "resuming" ELSE "waiting"
  /\ mem' = IF ShouldResume THEN mem ELSE NoState
  /\ UNCHANGED <<clock, budgetVars, disk, pos, session, inbox, faults>>

\* RESUME: Discord sends what follows the checkpoint, or refuses: the session is
\* over, or no event of it was named.
Resume ==
  /\ conn = "resuming"
  /\ mem.id = session.id /\ session.alive /\ mem.seq > 0
  /\ conn' = "live" /\ pos' = mem.seq + 1
  /\ UNCHANGED <<clock, budgetVars, disk, mem, session, inbox, faults>>

\* INVALID_SESSION, not resumable: the session is forgotten, in the file too.
InvalidSession ==
  /\ conn = "resuming"
  /\ ~(mem.id = session.id /\ session.alive /\ mem.seq > 0)
  /\ mem' = [mem EXCEPT !.id = 0, !.seq = 0]
  /\ disk' = mem'
  /\ conn' = "down"
  /\ UNCHANGED <<clock, budgetVars, pos, session, inbox, faults>>

\* wait_for_identify_budget calls reserve_identify_slot: at once, and after its sleep.
Asks == conn = "waiting" /\ clock >= sleep.until

\* A slot is reserved and IDENTIFY follows at once: Discord opens a session.  Its
\* READY names the configured guild alone, or another one too.
Identify(exact) ==
  /\ Asks /\ MayReserve(ledger, clock)
  /\ session.id < MaxSessions
  /\ ledger' = Reserved(ledger, clock)
  /\ identified' = Append(identified, clock)
  /\ sleep' = NoSleep
  /\ session' = [id |-> session.id + 1, log |-> <<Ready(exact)>>, alive |-> TRUE]
  /\ conn' = "live" /\ pos' = 1
  /\ UNCHANGED <<clock, disk, mem, inbox, faults>>

\* reserve_identify_slot refuses and says how long to wait.
Refuse ==
  /\ Asks /\ ~MayReserve(ledger, clock)
  /\ ledger' = Refused(ledger, clock)
  /\ sleep' = [at |-> clock, until |-> clock + Delay(ledger, clock), reason |-> "budget"]
  /\ UNCHANGED <<clock, identified, disk, mem, conn, pos, session, inbox, faults>>

\* The checkpoint moves past the event, in memory and in the file.
Commit(m) ==
  /\ mem' = [m EXCEPT !.seq = pos]
  /\ disk' = mem'
  /\ pos' = pos + 1 /\ conn' = "live"

Receiving == conn = "live" /\ pos \in DOMAIN session.log

\* READY: the session is noted before its guilds are looked at.
ReceiveReady ==
  /\ Receiving /\ Event.type = "READY"
  /\ LET noted == [mem EXCEPT !.id = session.id, !.guild = TRUE]
     IN IF Event.exact
        THEN Commit(noted)
        ELSE mem' = noted /\ conn' = "down" /\ UNCHANGED <<disk, pos>>
  /\ UNCHANGED <<clock, budgetVars, session, inbox, faults>>

ReceiveGuild ==
  /\ Receiving /\ Event.type \in {"GUILD_CREATE", "GUILD_DELETE"}
  /\ Commit([mem EXCEPT !.guild = Event.type = "GUILD_CREATE"])
  /\ UNCHANGED <<clock, budgetVars, session, inbox, faults>>

\* A click that is not the owner's, or fails validate_interaction_ingress.
Denied(c) == c \in Strays \/ ~mem.guild

\* Mutant: a denied click ends the session's coroutine.
ReceiveDeniedRaises ==
  /\ Receiving /\ Event.type = "INTERACTION_CREATE" /\ Denied(Event.click)
  /\ conn' = "down"
  /\ UNCHANGED <<clock, budgetVars, disk, mem, pos, session, inbox, faults>>

\* A denied click is checkpointed.
ReceiveDenied ==
  /\ Receiving /\ Event.type = "INTERACTION_CREATE" /\ Denied(Event.click)
  /\ Commit(mem)
  /\ UNCHANGED <<clock, budgetVars, session, inbox, faults>>

\* Mutant: only an active row keeps a replay from being inserted.
EnqueuedAgain(c) ==
  IF inbox[c] \in {"absent", "done"} THEN [inbox EXCEPT ![c] = "received"] ELSE inbox

\* enqueue: the first receipt inserts the row; a replay finds it.
Enqueued(c) == IF inbox[c] = "absent" THEN [inbox EXCEPT ![c] = "received"] ELSE inbox

\* Mutant: a click that finds the inbox full is passed over.
EnqueueDrops ==
  /\ Receiving /\ Event.type = "INTERACTION_CREATE" /\ ~Denied(Event.click)
  /\ IF inbox[Event.click] = "absent" /\ Cardinality(Active) >= Cap
     THEN Commit(mem) /\ UNCHANGED inbox
     ELSE conn' = "enqueued" /\ inbox' = Enqueued(Event.click) /\ UNCHANGED <<disk, mem, pos>>
  /\ UNCHANGED <<clock, budgetVars, session, faults>>

Enqueue ==
  /\ Receiving /\ Event.type = "INTERACTION_CREATE" /\ ~Denied(Event.click)
  /\ IF inbox[Event.click] = "absent" /\ Cardinality(Active) >= Cap
     THEN conn' = "down" /\ UNCHANGED inbox
     ELSE conn' = "enqueued" /\ inbox' = Enqueued(Event.click)
  /\ UNCHANGED <<clock, budgetVars, disk, mem, pos, session, faults>>

\* acknowledge_approval_interaction: accepted, or it was before, or too late.
Acknowledge ==
  /\ conn = "enqueued" /\ conn' = "acknowledged"
  /\ UNCHANGED <<clock, budgetVars, disk, mem, pos, session, inbox, faults>>

\* mark_ready.
MarkReady ==
  /\ conn = "acknowledged" /\ conn' = "ready"
  /\ inbox' = [inbox EXCEPT ![Event.click] = IF @ = "received" THEN "pending" ELSE @]
  /\ UNCHANGED <<clock, budgetVars, disk, mem, pos, session, faults>>

CommitClick ==
  /\ conn = "ready" /\ Commit(mem)
  /\ UNCHANGED <<clock, budgetVars, session, inbox, faults>>

(***************************************************************************)
(* The drainer.                                                            *)
(***************************************************************************)
\* activate_stale_received: the row's acknowledgement is overdue.
ActivateStale(c) ==
  /\ inbox[c] = "received"
  /\ inbox' = [inbox EXCEPT ![c] = "pending"]
  /\ UNCHANGED <<clock, budgetVars, disk, mem, conn, pos, session, faults>>

\* claim_next: the drainer handles one row at a time.
Claim(c) ==
  /\ inbox[c] = "pending" /\ \A d \in Clicks : inbox[d] # "processing"
  /\ inbox' = [inbox EXCEPT ![c] = "processing"]
  /\ UNCHANGED <<clock, budgetVars, disk, mem, conn, pos, session, faults>>

\* The router has answered, or was tried often enough: mark_done.
Finish(c) ==
  /\ inbox[c] = "processing"
  /\ inbox' = [inbox EXCEPT ![c] = "done"]
  /\ UNCHANGED <<clock, budgetVars, disk, mem, conn, pos, session, faults>>

\* The router fails, or the client is told to stop: release_for_retry.
Release(c) ==
  /\ Fault /\ inbox[c] = "processing"
  /\ inbox' = [inbox EXCEPT ![c] = "pending"]
  /\ UNCHANGED <<clock, budgetVars, disk, mem, conn, pos, session>>

(***************************************************************************)
(* Failures, and the rest of the world.                                    *)
(***************************************************************************)
\* The connection is lost, a heartbeat is not answered, Discord asks to reconnect,
\* an acknowledgement or a transaction fails: the session's coroutine ends.
Drop ==
  /\ Fault /\ conn \notin {"down", "waiting"}
  /\ conn' = "down"
  /\ UNCHANGED <<clock, budgetVars, disk, mem, pos, session, inbox>>

\* The file cannot be written: the checkpoint has moved in memory only.
CommitFails ==
  /\ Fault /\ conn = "ready"
  /\ mem' = [mem EXCEPT !.seq = pos] /\ conn' = "down"
  /\ UNCHANGED <<clock, budgetVars, disk, pos, session, inbox>>

\* The client is killed and started again, perhaps between a reservation and its
\* IDENTIFY; recover_processing returns the claim it had.
Crash ==
  /\ Fault
  /\ mem' = disk /\ conn' = "down"
  /\ inbox' = [c \in Clicks |-> IF inbox[c] = "processing" THEN "pending" ELSE inbox[c]]
  /\ sleep' = NoSleep
  /\ \/ ledger' = ledger
     \/ Asks /\ MayReserve(ledger, clock) /\ ledger' = Reserved(ledger, clock)
  /\ UNCHANGED <<clock, identified, disk, pos, session>>

\* The connection was closed during the wait, in which nothing sends a heartbeat: a
\* slot is reserved and IDENTIFY cannot be sent.
SendFails ==
  /\ Fault /\ Asks /\ MayReserve(ledger, clock)
  /\ ledger' = Reserved(ledger, clock)
  /\ sleep' = NoSleep /\ conn' = "down"
  /\ UNCHANGED <<clock, identified, disk, mem, pos, session, inbox>>

\* An OSError of the lock, the read or the write denies for a full day, whatever the
\* file says.  The write may have replaced the file before it failed.
Unavailable ==
  /\ Fault /\ Asks
  /\ ledger' \in {ledger} \union
       (IF MayReserve(ledger, clock) THEN {Reserved(ledger, clock)} ELSE {Refused(ledger, clock)})
  /\ sleep' = [at |-> clock, until |-> clock + DayWindow, reason |-> "outage"]
  /\ UNCHANGED <<clock, identified, disk, mem, conn, pos, session, inbox>>

\* The budget's file becomes unreadable.
Corrupt ==
  /\ Fault /\ ledger.readable
  /\ ledger' = [times |-> <<>>, blocked |-> 0, readable |-> FALSE]
  /\ UNCHANGED <<clock, identified, sleep, disk, mem, conn, pos, session, inbox>>

\* The budget's file disappears, and with it the account of what was used.
Lose ==
  /\ Fault /\ ledger # EmptyLedger
  /\ ledger' = EmptyLedger /\ identified' = <<>>
  /\ UNCHANGED <<clock, sleep, disk, mem, conn, pos, session, inbox>>

\* Discord forgets a session that nobody is connected to.
Expire ==
  /\ Fault /\ session.alive /\ conn \in {"down", "resuming", "waiting"}
  /\ session' = [session EXCEPT !.alive = FALSE]
  /\ UNCHANGED <<clock, budgetVars, disk, mem, conn, pos, inbox>>

Emit(event) ==
  /\ session.alive
  /\ session' = [session EXCEPT !.log = Append(@, event)]
  /\ UNCHANGED <<clock, budgetVars, disk, mem, conn, pos, inbox>>

\* Whether the guild is available, by the session's last event about it.
Available ==
  \E i \in DOMAIN session.log :
    /\ session.log[i].type \in {"READY", "GUILD_CREATE"}
    /\ \A j \in i + 1 .. Len(session.log) : session.log[j].type = "INTERACTION_CREATE"

\* A button is clicked.
Click(c) == ~Clicked(c) /\ (c \in Clicks => inbox[c] = "absent") /\ Available
            /\ Emit(Interaction(c)) /\ UNCHANGED faults

\* The guild has an outage, and comes back.
Outage == Fault /\ Available /\ Emit(GuildDelete)
Recover == session.log # <<>> /\ ~Available /\ Emit(GuildCreate) /\ UNCHANGED faults

\* Time passes while the client waits: nothing else reads the clock, so that what
\* passes before could as well pass then.
Tick ==
  /\ conn = "waiting" /\ clock < MaxTime /\ clock' = clock + 1
  /\ UNCHANGED <<budgetVars, disk, mem, conn, pos, session, inbox, faults>>

Client == \/ Connect \/ Resume \/ InvalidSession \/ ReceiveReady \/ ReceiveGuild \/ ReceiveDenied
          \/ Enqueue \/ Acknowledge \/ MarkReady \/ CommitClick
Drainer(c) == ActivateStale(c) \/ Claim(c) \/ Finish(c)

Next ==
  \/ Client \/ Refuse \/ (\E exact \in BOOLEAN : Identify(exact))
  \/ \E c \in Clicks : Drainer(c) \/ Release(c)
  \/ Drop \/ CommitFails \/ Crash \/ SendFails \/ Unavailable \/ Corrupt \/ Lose \/ Expire
  \/ \E c \in Clicks \union Strays : Click(c)
  \/ Outage \/ Recover \/ Tick

\* The client's coroutines and the drainer's are run; Discord lets a client
\* connect.  Nothing is assumed of the budget, nor of the owner.
Fairness == WF_vars(Client) /\ \A c \in Clicks : WF_vars(Drainer(c))

Spec == Init /\ [][Next]_vars /\ Fairness

(***************************************************************************)
(* Properties.                                                             *)
(***************************************************************************)
States == [id : 0 .. MaxSessions, seq : Nat, guild : BOOLEAN]

\* The client, its checkpoint file and the inbox are in the states the code gives
\* them, and the inbox holds no more active rows than it may.
TypeOK ==
  /\ clock \in 0 .. MaxTime /\ faults \in 0 .. MaxFaults
  /\ sleep \in [at : Nat, until : Nat, reason : {"none", "budget", "outage"}]
  /\ disk \in States /\ mem \in States
  /\ conn \in {"down", "resuming", "waiting", "live", "enqueued", "acknowledged", "ready"}
  /\ pos \in 0 .. Len(session.log) + 1
  /\ inbox \in [Clicks -> {"absent", "received", "pending", "processing", "done"}]
  /\ Cardinality(Active) <= Cap

\* The checkpoint, in memory and in the file, never passes an owner's click that is
\* not in the inbox: whatever is lost between receipt and checkpoint is sent again.
\* (A click that follows an outage the client saw the end of is one of these.)
CheckpointIsDurable ==
  \A state \in {mem, disk} :
    state.id = session.id =>
      \A i \in 1 .. state.seq, c \in Clicks :
        session.log[i] = Interaction(c) => inbox[c] # "absent"

\* A click that has been handled is not taken up again, however often Discord sends
\* it again and wherever the client was stopped.
HandledOnce ==
  [][\A c \in Clicks : inbox[c] = "done" => inbox'[c] = "done"]_vars

\* A click is taken into the inbox only from a session whose READY was accepted:
\* one that was refused is not resumed into service.
SessionIsVerified ==
  \A c \in Clicks : Clicked(c) /\ inbox[c] # "absent" => session.log[1].exact

\* No window of an hour or of a day sees more IDENTIFY operations than its limit,
\* across restarts, crashes between a reservation and its IDENTIFY, failed writes and
\* a file that cannot be read.  A file that is missing counts as nothing used, so
\* that the count begins anew where the file was lost.
BudgetHolds ==
  \A t \in 0 .. MaxTime :
    LET within(window) ==
          Cardinality({i \in DOMAIN identified : identified[i] \in t - window + 1 .. t})
    IN within(HourWindow) <= HourLimit /\ within(DayWindow) <= DayLimit

\* A client that waits because the budget refused it wakes up to a slot, and could
\* have had none earlier, but for the second it waits at least: it does not poll, and
\* does not lose a slot.  Exempt are a file that was lost or damaged while it slept,
\* and a wait for a file that was unavailable, which lasts a full day even though a
\* slot may be free.
WaitIsExact ==
  conn = "waiting" /\ sleep.reason = "budget" =>
    /\ ledger.readable => MayReserve(ledger, sleep.until)
    /\ ledger # EmptyLedger =>
         \A t \in sleep.at + MinWait .. sleep.until - 1 : ~MayReserve(ledger, t)

\* A click is handled, unless the session it was made in ends, was refused, or is
\* given up for a new IDENTIFY: denied clicks, a full inbox, lost acknowledgements
\* and replays do not keep the client from it.
ClickIsHandled ==
  \A c \in Clicks :
    Clicked(c) ~> \/ inbox[c] = "done"
                  \/ ~Clicked(c) \/ ~session.alive \/ ~session.log[1].exact
                  \/ conn = "waiting"
=============================================================================
