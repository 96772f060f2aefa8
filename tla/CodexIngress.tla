---------------------------- MODULE CodexIngress ----------------------------
(***************************************************************************)
(* How a Discord message becomes a job of the Codex bridge                 *)
(* (codex_discord_bridge/discord_io.py): the Gateway session with RESUME   *)
(* and IDENTIFY, the reconciliation that a READY starts, the handling of   *)
(* one message with its requests to Discord, and the durable cursors.      *)
(*                                                                         *)
(* One coroutine, process_dispatches, handles READY and the messages in    *)
(* order, so there is one handler.  It can fail at each request and the    *)
(* process can stop between any two writes; the owner posts, edits and     *)
(* deletes meanwhile.  A message that raises is not passed: the connection *)
(* is aborted and RESUME replays it, or a new READY reads it again.        *)
(*                                                                         *)
(* Abstracted: identities, permissions and their checks, heartbeats, the   *)
(* IDENTIFY budget, the rate limits (the pending limit is kept), and the   *)
(* workers, who claim and complete a job in one step here.                 *)
(***************************************************************************)
EXTENDS JobStore, Sequences

CONSTANTS
  Changes,     \* what the owner may do to a message after posting it
  Policy,      \* the fingerprint of this bridge
  PageSize,    \* messages per page of history (100 in the code)
  MaxFaults,   \* bound: failed requests, lost connections and crashes
  MaxExpiries  \* bound: sessions that Discord invalidates

ASSUME IngressAssumption ==
  /\ Changes \subseteq {"edited", "refused", "deleted"}
  /\ Policy \in Policies
  /\ PageSize \in Nat \ {0}
  /\ MaxFaults \in Nat
  /\ MaxExpiries \in Nat

VARIABLES
  admitted,   \* the jobs table
  content,    \* the content each row was reserved with
  mapped,     \* roots with a "discord:<event>" mapping to their thread
  managedThreads,  \* threads with a "managed" mapping
  cursor,     \* channel_cursors: the last message passed in a channel
  log,        \* Discord: the messages in the order of their identifiers
  version,    \* Discord: what each message looks like now
  open,       \* Discord: the threads that exist
  session,    \* Discord: whether the Gateway session can be resumed
  pc,         \* the bridge process and its connection
  resumable,  \* resume_sequence is known
  passed,     \* the dispatches of the session that were processed
  handler,    \* the message in hand
  recon,      \* reconcile_recent
  boundary,   \* messages that existed when the bridge first ran (history)
  declined,   \* messages the code refused (history)
  faults,
  expiries

table == <<admitted, content>>
routing == <<mapped, managedThreads, cursor>>
storeVars == <<table, routing>>
discordVars == <<log, version, open>>
clientVars == <<pc, resumable, passed>>
auxVars == <<boundary, declined, faults, expiries>>
ingressVars == <<storeVars, discordVars, session, clientVars, handler, recon,
          auxVars>>

\* All but the store and the handler.
others == <<discordVars, session, clientVars, recon, auxVars>>

Channels == {Listen} \cup Threads
Versions == {"original", "edited", "refused", "deleted"}

Posted == {log[i] : i \in 1..Len(log)}
IdOf(e) == CHOOSE i \in 1..Len(log) : log[i] = e

\* No message of a page is left to work on.
NoRows == [e \in {} |-> "original"]
\* What the handler works on: who asked for it, and the content it was given.
NoMessage == [pc |-> "idle", event |-> None, ver |-> "original",
              from |-> "live"]
HandlerPc == {"idle", "check", "ack", "open", "saveThread", "saveManaged",
              "saveCursor", "makeReady", "done"}
NoRecon == [ids |-> {}, channels |-> {}, at |-> None, rows |-> NoRows,
            more |-> FALSE]

IngressInit ==
  /\ admitted = [e \in Events |-> NoRow]
  /\ content = [e \in Events |-> None]
  /\ mapped = {}
  /\ managedThreads = {}
  /\ cursor = [c \in Channels |-> None]
  /\ log = <<>>
  /\ version = [e \in Events |-> "original"]
  /\ open = {}
  /\ session = FALSE
  /\ pc = "down"
  /\ resumable = FALSE
  /\ passed = 0
  /\ handler = NoMessage
  /\ recon = NoRecon
  /\ boundary = {}
  /\ declined = {}
  /\ faults = 0
  /\ expiries = 0

-----------------------------------------------------------------------------
(* Discord and its owner *)

Post(e) ==
  /\ e \notin Posted
  /\ e \in Roots \/ ThreadOf[e] \in open
  /\ log' = Append(log, e)
  /\ UNCHANGED <<storeVars, version, open, session, clientVars, handler,
                 recon, auxVars>>

\* An edit the bridge would accept, one it would refuse, or a deletion.
Change(e, v) ==
  /\ e \in Posted
  /\ version[e] = "original"
  /\ version' = [version EXCEPT ![e] = v]
  /\ UNCHANGED <<storeVars, log, open, session, clientVars, handler, recon,
                 auxVars>>

\* Discord will answer the next RESUME with an invalid session.
Expire ==
  /\ expiries < MaxExpiries
  /\ session
  /\ pc \in {"connecting", "down"}
  /\ session' = FALSE
  /\ expiries' = expiries + 1
  /\ UNCHANGED <<storeVars, discordVars, clientVars, handler, recon, boundary,
                 declined, faults>>

-----------------------------------------------------------------------------
(* The process and its connection *)

\* run: the first start puts the cursor of the channel behind its history
\* (bootstrap_root_cursor).
StartBridge ==
  /\ pc = "down"
  /\ pc' = "connecting"
  /\ IF cursor[Listen] = None
     THEN /\ cursor' = [cursor EXCEPT ![Listen] = Len(log)]
          /\ boundary' = Posted
     ELSE UNCHANGED <<cursor, boundary>>
  /\ UNCHANGED <<table, mapped, managedThreads, discordVars, session, resumable,
                 passed, handler, recon, declined, faults, expiries>>

\* receive_forever resumes when it knows a processed sequence ...
Resume ==
  /\ pc = "connecting"
  /\ resumable
  /\ session
  /\ pc' = "live"
  /\ UNCHANGED <<storeVars, discordVars, session, resumable, passed, handler,
                 recon, auxVars>>

\* Mutant: the invalid session is not forgotten.
ResumeAgain ==
  /\ pc = "connecting"
  /\ resumable
  /\ ~session
  /\ UNCHANGED ingressVars

\* ... forgets it when Discord calls the session invalid (opcode 9) ...
ResumeRefused ==
  /\ pc = "connecting"
  /\ resumable
  /\ ~session
  /\ resumable' = FALSE
  /\ UNCHANGED <<storeVars, discordVars, session, pc, passed, handler, recon,
                 auxVars>>

\* Mutant: READY starts no reconciliation.
IdentifyWithoutScan ==
  /\ pc = "connecting"
  /\ ~resumable
  /\ session' = TRUE
  /\ passed' = Len(log)
  /\ pc' = "live"
  /\ resumable' = TRUE
  /\ UNCHANGED <<storeVars, discordVars, handler, recon, auxVars>>

\* ... and identifies otherwise: READY starts a reconciliation, and the
\* dispatches of the new session wait behind it.
Identify ==
  /\ pc = "connecting"
  /\ ~resumable
  /\ session' = TRUE
  /\ passed' = Len(log)
  /\ pc' = "unready"
  /\ recon' = [NoRecon EXCEPT !.ids = UnreadyRoots(admitted, Policy)]
  /\ UNCHANGED <<storeVars, discordVars, resumable, handler, auxVars>>

\* An exception in the dispatch worker aborts the connection.
Aborts ==
  /\ pc' = "connecting"
  /\ handler' = NoMessage
  /\ recon' = NoRecon

Disconnect ==
  /\ faults < MaxFaults
  /\ pc \in {"unready", "scan", "live"}
  /\ Aborts
  /\ faults' = faults + 1
  /\ UNCHANGED <<storeVars, discordVars, session, resumable, passed, boundary,
                 declined, expiries>>

Crash ==
  /\ faults < MaxFaults
  /\ pc # "down"
  /\ pc' = "down"
  /\ resumable' = FALSE
  /\ handler' = NoMessage
  /\ recon' = NoRecon
  /\ faults' = faults + 1
  /\ UNCHANGED <<storeVars, discordVars, session, passed, boundary, declined,
                 expiries>>

-----------------------------------------------------------------------------
(* What is handed to the handler *)

HandlerFree == handler.pc = "idle"
Takes(e, v, f) ==
  handler' = [pc |-> "check", event |-> e, ver |-> v, from |-> f]

\* Mutant: messages are handled as they come, not from a queue.
NextDispatchAny ==
  /\ pc = "live"
  /\ HandlerFree
  /\ \E i \in (passed + 1)..Len(log) : Takes(log[i], "original", "live")
  /\ UNCHANGED <<storeVars, others>>

\* A MESSAGE_CREATE, with the content it had when it was posted.
NextDispatch ==
  /\ pc = "live"
  /\ HandlerFree
  /\ passed < Len(log)
  /\ Takes(log[passed + 1], "original", "live")
  /\ UNCHANGED <<storeVars, others>>

\* reconcile_recent first finishes the reserved roots: each is read again.
NextUnready(e) ==
  /\ pc = "unready"
  /\ HandlerFree
  /\ e \in recon.ids
  /\ version[e] # "deleted"
  /\ recon' = [recon EXCEPT !.ids = @ \ {e}]
  /\ Takes(e, version[e], "unready")
  /\ UNCHANGED <<storeVars, discordVars, session, clientVars, auxVars>>

\* A 404: cancel_unready_root takes back the row and its partial routing.
CancelUnready(e) ==
  /\ pc = "unready"
  /\ HandlerFree
  /\ e \in recon.ids
  /\ version[e] = "deleted"
  /\ recon' = [recon EXCEPT !.ids = @ \ {e}]
  /\ admitted' = Moved(admitted, e, "cancelled")
  /\ mapped' = mapped \ {e}
  /\ IF e \in mapped
     THEN /\ managedThreads' = managedThreads \ {ThreadOf[e]}
          /\ cursor' = [cursor EXCEPT ![ThreadOf[e]] = None]
     ELSE UNCHANGED <<managedThreads, cursor>>
  /\ UNCHANGED <<content, discordVars, session, clientVars, handler, auxVars>>

\* Then it reads every channel from its cursor, the configured one first.
ScanStarts ==
  /\ pc = "unready"
  /\ HandlerFree
  /\ recon.ids = {}
  /\ pc' = "scan"
  /\ recon' = [recon EXCEPT !.channels = {Listen} \cup managedThreads]
  /\ UNCHANGED <<storeVars, discordVars, session, resumable, passed, handler,
                 auxVars>>

\* GET /channels/<c>/messages?limit=<PageSize>&after=<cursor>: the oldest after
\* the cursor, the newest without one, as they look now.
Page(c) ==
  LET new == {e \in Posted : /\ Channel(e) = c /\ version[e] # "deleted"
                             /\ cursor[c] = None \/ IdOf(e) > cursor[c]}
      ahead(e) == IF cursor[c] = None THEN {f \in new : IdOf(f) > IdOf(e)}
                  ELSE {f \in new : IdOf(f) < IdOf(e)}
  IN [e \in {e \in new : Cardinality(ahead(e)) < PageSize} |-> version[e]]

ReadPage(c) ==
  /\ pc = "scan"
  /\ HandlerFree
  /\ recon.rows = NoRows
  /\ \/ /\ recon.at = None
        /\ c \in recon.channels
        /\ c = Listen \/ Listen \notin recon.channels
     \/ recon.at = c
  /\ recon' = [recon EXCEPT
                 !.channels = @ \ {c},
                 !.rows = Page(c),
                 !.at = IF Page(c) = NoRows THEN None ELSE c,
                 !.more = Cardinality(DOMAIN Page(c)) >= PageSize]
  /\ UNCHANGED <<storeVars, discordVars, session, clientVars, handler,
                 auxVars>>

\* A page is sorted before it is handled.
NextRow ==
  /\ pc = "scan"
  /\ HandlerFree
  /\ \E e \in DOMAIN recon.rows :
       /\ \A f \in DOMAIN recon.rows : IdOf(e) <= IdOf(f)
       /\ Takes(e, recon.rows[e], "scan")
  /\ UNCHANGED <<storeVars, others>>

\* The READY dispatch is processed: from now on the session can be resumed.
ScanEnds ==
  /\ pc = "scan"
  /\ HandlerFree
  /\ recon.channels = {}
  /\ recon.at = None
  /\ pc' = "live"
  /\ resumable' = TRUE
  /\ UNCHANGED <<storeVars, discordVars, session, passed, handler, recon,
                 auxVars>>

-----------------------------------------------------------------------------
(* handle_message_data *)

Step(next) == handler' = [handler EXCEPT !.pc = next]
IsRoot == handler.event \in Roots
Thread == ThreadOf[handler.event]

\* The managed mapping names a root row that is bound to this thread.
ManagedHere == Thread \in managedThreads
BoundHere ==
  \E r \in Roots : admitted[r].thread = Thread /\ admitted[r].policy = Policy

\* A message in a thread nobody manages is not for the bridge.
Ignore ==
  /\ handler.pc = "check"
  /\ ~IsRoot /\ ~ManagedHere
  /\ Step("done")
  /\ UNCHANGED <<storeVars, others>>

\* An invalid binding, a refused content, or a limit.
Decline ==
  /\ handler.pc = "check"
  /\ IsRoot \/ ManagedHere
  /\ \/ ~IsRoot /\ ~BoundHere
     \/ handler.ver = "refused"
     \/ /\ handler.event \notin Present(admitted)
        /\ ~Admissible(admitted, Policy, MaxPending)
  /\ declined' = declined \cup {handler.event}
  /\ Step("done")
  /\ UNCHANGED <<storeVars, discordVars, session, clientVars, recon, boundary,
                 faults, expiries>>

Accepts ==
  /\ handler.pc = "check"
  /\ IsRoot \/ (ManagedHere /\ BoundHere)
  /\ handler.ver # "refused"

\* enqueue_limited reserves the event with its content; a root is not ready.
Reserve ==
  /\ Accepts
  /\ handler.event \notin Present(admitted)
  /\ Admissible(admitted, Policy, MaxPending)
  /\ admitted' = Enqueued(admitted, handler.event, ~IsRoot, Policy,
                      Cardinality(Present(admitted)) + 1)
  /\ content' = [content EXCEPT ![handler.event] = handler.ver]
  /\ Step("ack")
  /\ UNCHANGED <<routing, others>>

\* The event is known: what is still to do for it is done again.
Repeat ==
  /\ Accepts
  /\ handler.event \in Present(admitted)
  /\ content[handler.event] = handler.ver
  /\ Step(IF IsRoot /\ handler.event \notin UnreadyRoots(admitted, Policy)
          THEN "done" ELSE "ack")
  /\ UNCHANGED <<storeVars, others>>

\* "Discord event ID replayed with different immutable content"
Conflict ==
  /\ Accepts
  /\ handler.event \in Present(admitted)
  /\ content[handler.event] # handler.ver
  /\ Aborts
  /\ UNCHANGED <<storeVars, discordVars, session, resumable, passed, auxVars>>

\* The eyes reaction.  Nothing can react to a message that is gone, or open
\* a thread from it.
Acknowledge ==
  /\ handler.pc = "ack"
  /\ version[handler.event] # "deleted"
  /\ Step(IF ~IsRoot THEN "done"
          ELSE IF handler.event \in mapped THEN "saveThread" ELSE "open")
  /\ UNCHANGED <<storeVars, others>>

Gone ==
  /\ \/ handler.pc = "ack"
     \/ handler.pc = "open" /\ Thread \notin open
  /\ version[handler.event] = "deleted"
  /\ Aborts
  /\ UNCHANGED <<storeVars, discordVars, session, resumable, passed, auxVars>>

\* ensure_response_thread finds the thread or opens it.  The answer to the
\* request may be lost although the thread is there now.
OpenThread ==
  /\ handler.pc = "open"
  /\ Thread \in open \/ version[handler.event] # "deleted"
  /\ open' = open \cup {Thread}
  /\ Step("saveThread")
  /\ UNCHANGED <<storeVars, log, version, session, clientVars, recon,
                 auxVars>>

OpenThreadUnheard ==
  /\ faults < MaxFaults
  /\ handler.pc = "open"
  /\ version[handler.event] # "deleted"
  /\ open' = open \cup {Thread}
  /\ Aborts
  /\ faults' = faults + 1
  /\ UNCHANGED <<storeVars, log, version, session, resumable, passed,
                 boundary, declined, expiries>>

\* Mutant: the managed mapping is not written.
SaveThreadOnly ==
  /\ handler.pc = "saveThread"
  /\ mapped' = mapped \cup {handler.event}
  /\ Step("saveCursor")
  /\ UNCHANGED <<table, managedThreads, cursor, others>>

\* Four writes, each committed on its own.
SaveThread ==
  /\ handler.pc = "saveThread"
  /\ mapped' = mapped \cup {handler.event}
  /\ Step("saveManaged")
  /\ UNCHANGED <<table, managedThreads, cursor, others>>

SaveManaged ==
  /\ handler.pc = "saveManaged"
  /\ managedThreads' = managedThreads \cup {Thread}
  /\ Step("saveCursor")
  /\ UNCHANGED <<table, mapped, cursor, others>>

SaveThreadCursor ==
  /\ handler.pc = "saveCursor"
  /\ cursor' = IF cursor[Thread] = None
               THEN [cursor EXCEPT ![Thread] = IdOf(handler.event)] ELSE cursor
  /\ Step("makeReady")
  /\ UNCHANGED <<table, mapped, managedThreads, others>>

MakeReady ==
  /\ handler.pc = "makeReady"
  /\ MakesReady(admitted, handler.event, Policy)
  /\ admitted' = MadeReady(admitted, handler.event)
  /\ Step("done")
  /\ UNCHANGED <<content, routing, others>>

-----------------------------------------------------------------------------
(* After the handler *)

\* save_cursor only moves forward.
Advanced(c, n) ==
  IF cursor[c] = None \/ cursor[c] < n THEN [cursor EXCEPT ![c] = n] ELSE cursor

\* A live message moves the cursor of a channel the bridge reads, and counts
\* as processed for RESUME.
DispatchDone ==
  /\ handler.pc = "done"
  /\ handler.from = "live"
  /\ LET c == Channel(handler.event)
     IN cursor' = IF c = Listen \/ c \in managedThreads
                  THEN Advanced(c, IdOf(handler.event)) ELSE cursor
  /\ passed' = passed + 1
  /\ handler' = NoMessage
  /\ UNCHANGED <<table, mapped, managedThreads, discordVars, session, pc,
                 resumable, recon, auxVars>>

UnreadyDone ==
  /\ handler.pc = "done"
  /\ handler.from = "unready"
  /\ handler' = NoMessage
  /\ UNCHANGED <<storeVars, others>>

\* A full page is followed by another.
RowDone ==
  /\ handler.pc = "done"
  /\ handler.from = "scan"
  /\ cursor' = Advanced(Channel(handler.event), IdOf(handler.event))
  /\ LET left == DOMAIN recon.rows \ {handler.event}
     IN recon' = [recon EXCEPT
                    !.rows = [e \in left |-> recon.rows[e]],
                    !.at = IF left = {} /\ ~recon.more THEN None ELSE @]
  /\ handler' = NoMessage
  /\ UNCHANGED <<table, mapped, managedThreads, discordVars, session,
                 clientVars, auxVars>>

\* A worker claims a job and completes it (CodexWorkers has the steps).
Work(e) ==
  /\ pc # "down"
  /\ NextClaimable(admitted, e, Policy)
  /\ admitted' = Moved(Claimed(admitted, e, None), e, "completed")
  /\ UNCHANGED <<content, routing, others, handler>>

-----------------------------------------------------------------------------
Owner == \E e \in Events : Post(e) \/ \E v \in Changes : Change(e, v)

Connects == StartBridge \/ Resume \/ ResumeRefused \/ Identify

Reads ==
  \/ NextDispatch
  \/ \E e \in Events : NextUnready(e) \/ CancelUnready(e)
  \/ ScanStarts
  \/ \E c \in Channels : ReadPage(c)
  \/ NextRow
  \/ ScanEnds

Handles ==
  \/ Ignore \/ Decline \/ Reserve \/ Repeat \/ Conflict
  \/ Acknowledge \/ Gone \/ OpenThread
  \/ SaveThread \/ SaveManaged \/ SaveThreadCursor \/ MakeReady
  \/ DispatchDone \/ UnreadyDone \/ RowDone

WorkerSteps == \E e \in Events : Work(e)

Faults == Disconnect \/ Crash \/ OpenThreadUnheard \/ Expire

IngressNext == Owner \/ Connects \/ Reads \/ Handles \/ WorkerSteps \/ Faults

IngressSpec == IngressInit /\ [][IngressNext]_ingressVars

\* launchd restarts the process, and a request that does not fail returns.
IngressFairSpec ==
  IngressSpec /\ WF_ingressVars(Connects) /\ WF_ingressVars(Reads)
              /\ WF_ingressVars(Handles) /\ WF_ingressVars(WorkerSteps)

-----------------------------------------------------------------------------
(* Properties *)

\* IngressTypeOK: the type of the state.
IngressTypeOK ==
  /\ DOMAIN admitted = Events
  /\ \A e \in Events : admitted[e].state \in JobStates
                       /\ admitted[e].thread \in {None, ThreadOf[e]}
  /\ content \in [Events -> Versions \cup {None}]
  /\ mapped \subseteq Roots
  /\ managedThreads \subseteq Threads
  /\ cursor \in [Channels -> (0..Len(log)) \cup {None}]
  /\ Posted \subseteq Events
  /\ version \in [Events -> Versions]
  /\ open \subseteq Threads
  /\ session \in BOOLEAN
  /\ pc \in {"down", "connecting", "unready", "scan", "live"}
  /\ resumable \in BOOLEAN
  /\ passed \in 0..Len(log)
  /\ handler \in [pc : HandlerPc, event : Events \cup {None}, ver : Versions,
                  from : {"live", "unready", "scan"}]
  /\ recon.ids \subseteq Roots
  /\ recon.channels \subseteq Channels
  /\ recon.at \in Channels \cup {None}
  /\ boundary \subseteq Events
  /\ declined \subseteq Events
  /\ faults \in 0..MaxFaults
  /\ expiries \in 0..MaxExpiries

Changed == {e \in Events : version[e] # "original"}

\* No message is skipped: once the cursor of its channel has passed a
\* message, it is in the table or was refused, unless it was posted before
\* the bridge first ran, deleted, or posted in a thread that its root was
\* never bound to.
NothingIsSkipped ==
  \A e \in Posted \ boundary :
    LET c == Channel(e) IN
    /\ c = Listen \/ \E r \in Roots : admitted[r].thread = c
    /\ cursor[c] # None /\ cursor[c] >= IdOf(e)
    /\ version[e] # "deleted"
    => e \in Present(admitted) \cup declined

\* Messages of one thread that the owner leaves alone get into the table in
\* the order they were posted, the root first, through every mix of live
\* dispatches, replays and scans.  One that was refused for a limit may still
\* get in when its dispatch comes after the scan, behind later ones.
InPostingOrder ==
  \A e, f \in Present(admitted) \ (Changed \cup declined) :
    ThreadOf[e] = ThreadOf[f] /\ IdOf(e) < IdOf(f)
      => admitted[e].at < admitted[f].at

\* SECURITY.md: workers claim only what is ready "after the reaction, public
\* thread, and managed-thread mapping are durable".  A released root has its
\* thread, both mappings and the cursor from which its replies are read.
ReleasedIsRouted ==
  \A r \in Roots : admitted[r].ready =>
    /\ ThreadOf[r] \in open \cap managedThreads
    /\ r \in mapped
    /\ cursor[ThreadOf[r]] # None

\* Every posted message is admitted or refused at last, if the owner leaves
\* the messages as they are: crashes, lost answers, lost connections and
\* invalidated sessions lose nothing.
EveryMessageIsHandled ==
  \A e \in Events :
    (e \in Posted)
      ~> (e \in Present(admitted) \cup declined \cup boundary \/ Changed # {})

=============================================================================
