---------------------------- MODULE Healthcheck ----------------------------
(***************************************************************************)
(* The healthcheck of the Claude listener (launchd/cx-chat-healthcheck.sh) *)
(* with the verifier it calls (conversations/discord_permissions.py), and  *)
(* what goes on meanwhile: dispatches that open threads and register them, *)
(* turns that are appended, an operator who archives and reopens           *)
(* conversations, Discord, and its administrator.                          *)
(*                                                                         *)
(* The verifier takes no lock.  It reads the files, then the registry,     *)
(* then Discord in seven requests, and anything may change between two     *)
(* reads.  A refusal stops the listener; a pass restarts a missing one.    *)
(*                                                                         *)
(* Abstracted: a conversation is named by its thread; what its file says   *)
(* besides that; identities and the pages of archived threads.  Programs   *)
(* that hold registry_lock do not overlap, so one worker stands for them.  *)
(***************************************************************************)
EXTENDS DiscordPermissions, Naturals

CONSTANTS
  Threads,    \* threads that dispatches open, one for each conversation
  Strangers,  \* threads that somebody else opens
  Config,     \* the configurations of the guild that occur, by their name
  MaxEvents,  \* bound: conversations moved, turns appended, threads archived,
              \*   reopened or deleted, and changes of the guild
  MaxFaults   \* bound: crashes, and requests and starts that fail

ASSUME HealthcheckAssumption ==
  /\ Threads \cap Strangers = {}
  /\ \A g \in DOMAIN Config : Config[g] \in Guild
  /\ {MaxEvents, MaxFaults} \subseteq Nat

VARIABLES
  thread,    \* Discord: the list each thread is in
  guild,     \* Discord: the configuration of roles, members and overwrites
  file,      \* the folders that hold a conversation's file
  registry,  \* _registry.json: the threads it maps
  writer,    \* the worker and the operator's command
  listener,  \* the tmux session
  marker,    \* the fault marker
  check,     \* the healthcheck
  touched,   \* a file changed since the verifier began its read (history)
  still,     \* nothing changed since the verification began (history)
  steady,    \* the guild did not (history)
  unknown,   \* threads open and unregistered since then (history)
  events, faults  \* how much of the bounds is used

discordVars == <<thread, guild>>
hostVars == <<file, registry>>
history == <<touched, still, steady, unknown>>
vars == <<discordVars, hostVars, writer, listener, marker, check, history,
          events, faults>>

Guilds == DOMAIN Config
NotRead == CHOOSE g \in Guilds : TRUE
Visible == Threads \cup Strangers
Lists == {"none", "active", "archived"}
Folders == {"active", "archived"}
ReadsFiles == {"active", "archived", "registry"}
Requests == {"roots", "guild", "member", "channels", "live", "closed"}

NoWriter == [pc |-> "idle", on |-> {}, folder |-> "active", found |-> {}]
NoCheck == [pc |-> "off", bound |-> {}, known |-> {}, seen |-> {},
            roots |-> NotRead, roles |-> NotRead, has |-> NotRead]

\* The threads that Discord lists, and those with a file in a folder.
Listed(l) == {t \in Visible : thread[t] = l}
Stored(f) == {t \in Threads : f \in file[t]}

bounds == <<events, faults>>

Event == events < MaxEvents /\ events' = events + 1 /\ UNCHANGED faults
Fault == faults < MaxFaults /\ faults' = faults + 1 /\ UNCHANGED events

Init ==
  /\ thread = [t \in Visible |-> "none"]
  /\ guild \in Guilds
  /\ file = [t \in Threads |-> {}]
  /\ registry = {}
  /\ writer = [w \in {"worker", "operator"} |-> NoWriter]
  /\ listener = "down"
  /\ marker = FALSE
  /\ check = NoCheck
  /\ touched = FALSE
  /\ still = FALSE
  /\ steady = FALSE
  /\ unknown = {}
  /\ events = 0
  /\ faults = 0

-----------------------------------------------------------------------------
(* What a step changes, and what it leaves *)

\* A step of Discord or its users puts thread t in list l.
Puts(t, l) ==
  /\ thread' = [thread EXCEPT ![t] = l]
  /\ still' = FALSE
  /\ unknown' = unknown \ {t}
  /\ UNCHANGED <<guild, touched, steady>>

DiscordStays == UNCHANGED <<discordVars, steady>>

\* A program replaces or removes a file.
Files(f, r) ==
  /\ file' = f
  /\ registry' = r
  /\ touched' = (check.pc \in ReadsFiles)
  /\ still' = FALSE
  /\ unknown' = unknown \ r
  /\ DiscordStays

HostStays == UNCHANGED hostVars
NothingChanges == UNCHANGED <<discordVars, hostVars, history>>

Goes(w, pc) == writer' = [writer EXCEPT ![w].pc = pc]
Ends(w) == writer' = [writer EXCEPT ![w] = NoWriter]

-----------------------------------------------------------------------------
(* Discord and its users *)

Intrude(s) ==
  /\ thread[s] = "none"
  /\ Puts(s, "active")
  /\ UNCHANGED <<hostVars, writer, listener, marker, check, bounds>>

\* The administrator deletes it.
Expel(s) ==
  /\ thread[s] # "none"
  /\ Puts(s, "none")
  /\ Event
  /\ UNCHANGED <<hostVars, writer, listener, marker, check>>

\* Discord archives an idle thread; a message in it reopens it.
Shift(t) ==
  /\ thread[t] # "none"
  /\ Puts(t, IF thread[t] = "active" THEN "archived" ELSE "active")
  /\ Event
  /\ UNCHANGED <<hostVars, writer, listener, marker, check>>

Reconfigure(g) ==
  /\ g # guild
  /\ guild' = g
  /\ still' = FALSE
  /\ steady' = FALSE
  /\ Event
  /\ UNCHANGED <<thread, hostVars, writer, listener, marker, check, touched,
                 unknown>>

-----------------------------------------------------------------------------
(* The worker: a dispatch, and append_turn_once *)

\* A session that the healthcheck has not found ready may work already.
Dispatch(t) ==
  /\ listener # "down"
  /\ writer["worker"].pc = "idle"
  /\ writer' = [writer EXCEPT !["worker"].pc = "open", !["worker"].on = {t}]
  /\ NothingChanges
  /\ UNCHANGED <<listener, marker, check, bounds>>

\* The thread is opened, or found when an earlier dispatch opened it.
OpenThread(t) ==
  /\ writer["worker"].pc = "open"
  /\ t \in writer["worker"].on
  /\ Goes("worker", "bind")
  /\ IF thread[t] = "none"
     THEN Puts(t, "active") /\ HostStays
     ELSE NothingChanges
  /\ UNCHANGED <<listener, marker, check, bounds>>

\* ensure_conversation: a file in active/ is found again, one that was
\* archived conflicts.
Bind(t) ==
  /\ writer["worker"].pc = "bind"
  /\ t \in writer["worker"].on
  /\ \/ /\ file[t] = {}
        /\ Files([file EXCEPT ![t] = {"active"}], registry)
        /\ Goes("worker", "walkActive")
     \/ /\ "active" \in file[t]
        /\ Goes("worker", "walkActive")
        /\ NothingChanges
     \/ /\ file[t] = {"archived"}
        /\ Ends("worker")
        /\ NothingChanges
  /\ UNCHANGED <<listener, marker, check, bounds>>

\* load_conversation prefers active/ ...
Found(t) == IF "active" \in file[t] THEN "active" ELSE "archived"

LoadTurn(t) ==
  /\ writer["worker"].pc = "idle"
  /\ file[t] # {}
  /\ Event
  /\ writer' = [writer EXCEPT !["worker"].pc = "append",
                              !["worker"].on = {t},
                              !["worker"].folder = Found(t)]
  /\ NothingChanges
  /\ UNCHANGED <<listener, marker, check>>

\* ... and save_conversation writes to the path that was found.
AppendTurn(t) ==
  /\ writer["worker"].pc = "append"
  /\ t \in writer["worker"].on
  /\ Files([file EXCEPT ![t] = @ \cup {writer["worker"].folder}], registry)
  /\ Goes("worker", "walkActive")
  /\ UNCHANGED <<listener, marker, check, bounds>>

-----------------------------------------------------------------------------
(* The operator's command: archive and reopen take no lock *)

Copy(t, to) ==
  /\ writer["operator"].pc = "idle"
  /\ file[t] # {}
  /\ Event
  /\ Files([file EXCEPT ![t] = @ \cup {to}], registry)
  /\ writer' = [writer EXCEPT
       !["operator"].pc = IF Found(t) = to THEN "walkActive" ELSE "unlink",
       !["operator"].on = {t},
       !["operator"].folder = Found(t)]
  /\ UNCHANGED <<listener, marker, check>>

Unlink(t) ==
  /\ writer["operator"].pc = "unlink"
  /\ t \in writer["operator"].on
  /\ Files([file EXCEPT ![t] = @ \ {writer["operator"].folder}], registry)
  /\ Goes("operator", "walkActive")
  /\ UNCHANGED <<listener, marker, check, bounds>>

-----------------------------------------------------------------------------
(* regen_registry_from_disk walks active/, then archived/, then saves *)

WalkActive(w) ==
  /\ writer[w].pc = "walkActive"
  /\ writer' = [writer EXCEPT ![w].pc = "walkArchived",
                              ![w].found = Stored("active")]
  /\ NothingChanges
  /\ UNCHANGED <<listener, marker, check, bounds>>

WalkArchived(w) ==
  /\ writer[w].pc = "walkArchived"
  /\ writer' = [writer EXCEPT ![w].pc = "save",
                              ![w].found = @ \cup Stored("archived")]
  /\ NothingChanges
  /\ UNCHANGED <<listener, marker, check, bounds>>

Save(w) ==
  /\ writer[w].pc = "save"
  /\ Files(file, writer[w].found)
  /\ Ends(w)
  /\ UNCHANGED <<listener, marker, check, bounds>>

\* A program is killed, or fails at a file that was moved under its walk.
Die(w) ==
  /\ writer[w].pc # "idle"
  /\ Fault
  /\ Ends(w)
  /\ NothingChanges
  /\ UNCHANGED <<listener, marker, check>>

-----------------------------------------------------------------------------
(* The verifier *)

\* A step of the healthcheck; the next read starts with an untouched file.
Step(c) ==
  /\ check' = c
  /\ touched' = FALSE
  /\ UNCHANGED <<discordVars, hostVars, writer, listener, marker, still,
                 steady, unknown, bounds>>

Refused == [NoCheck EXCEPT !.pc = "refused"]

\* launchd starts one healthcheck at a time.
Begin ==
  /\ check.pc = "off"
  /\ check' = [NoCheck EXCEPT !.pc = "active"]
  /\ touched' = FALSE
  /\ still' = TRUE
  /\ steady' = TRUE
  /\ unknown' = {t \in Visible \ registry : thread[t] # "none"}
  /\ UNCHANGED <<discordVars, hostVars, writer, listener, marker, bounds>>

\* load_registered_threads
ReadActive ==
  /\ check.pc = "active"
  /\ Step([check EXCEPT !.pc = "archived", !.bound = Stored("active")])

\* Mutant: the archived conversations do not count.
ForgetsArchived ==
  /\ check.pc = "archived"
  /\ Step(IF check.bound \cap Stored("archived") # {} THEN Refused
          ELSE [check EXCEPT !.pc = "registry"])

ReadArchived ==
  /\ check.pc = "archived"
  /\ Step(IF check.bound \cap Stored("archived") # {} THEN Refused
          ELSE [check EXCEPT !.pc = "registry",
                             !.bound = @ \cup Stored("archived")])

ReadRegistry ==
  /\ check.pc = "registry"
  /\ Step(IF registry # check.bound THEN Refused
          ELSE [check EXCEPT !.pc = "roots", !.bound = {},
                             !.known = registry])

\* _stable_private_read: a file changed while it was read.
ReadIsDisturbed ==
  /\ check.pc \in ReadsFiles
  /\ touched
  /\ Step(Refused)

\* The requests for the channels, the guild, the member, and the inventory.
ReadRoots ==
  /\ check.pc = "roots"
  /\ Step([check EXCEPT !.pc = "guild", !.roots = guild])

ReadGuild ==
  /\ check.pc = "guild"
  /\ Step([check EXCEPT !.pc = "member", !.roles = guild])

\* The guild as it was read: its roles, who has them, and its channels.
Pieced(roles, has, channels) ==
  [Config[roles] EXCEPT !.has = Config[has].has,
                        !.channel = Config[channels].channel]

ReadMember ==
  /\ check.pc = "member"
  /\ Step(IF BotIsLimited(Pieced(check.roles, guild, guild))
          THEN [check EXCEPT !.pc = "channels", !.has = guild]
          ELSE Refused)

\* The inventory repeats the channels; a difference refuses.
ReadChannels ==
  /\ check.pc = "channels"
  /\ Step(IF /\ \A c \in {Chat, Errors} :
                  Config[guild].channel[c] = Config[check.roots].channel[c]
             /\ ClaudeAccepts(Pieced(check.roles, check.has, guild))
          THEN [check EXCEPT !.pc = "live", !.roots = NotRead,
                             !.roles = NotRead, !.has = NotRead]
          ELSE Refused)

\* The active threads, then the archived ones: each registered, none twice.
ListActive ==
  /\ check.pc = "live"
  /\ Step(IF Listed("active") \subseteq check.known
          THEN [check EXCEPT !.pc = "closed", !.seen = Listed("active")]
          ELSE Refused)

\* Mutant: the archived threads are looked at for duplicates only.
OnlyDuplicates ==
  /\ check.pc = "closed"
  /\ Step(IF Listed("archived") \cap check.seen = {}
          THEN [NoCheck EXCEPT !.pc = "passed"]
          ELSE Refused)

ListArchived ==
  /\ check.pc = "closed"
  /\ Step(IF /\ Listed("archived") \subseteq check.known
             /\ Listed("archived") \cap check.seen = {}
          THEN [NoCheck EXCEPT !.pc = "passed"]
          ELSE Refused)

\* A request that fails fails the verification.
RequestFails ==
  /\ check.pc \in Requests
  /\ Fault
  /\ check' = Refused
  /\ still' = FALSE
  /\ UNCHANGED <<discordVars, hostVars, writer, listener, marker, touched,
                 steady, unknown>>

-----------------------------------------------------------------------------
(* The healthcheck *)

\* What was read, and the history of the verification, end with it.
CheckGoes(pc) ==
  /\ check' = [NoCheck EXCEPT !.pc = pc]
  /\ touched' = FALSE
  /\ still' = FALSE
  /\ steady' = FALSE
  /\ unknown' = {}
  /\ UNCHANGED <<discordVars, hostVars>>

\* A command that the listener runs ends with it, or outlives it.
WorkerMayEnd == writer' \in {writer, [writer EXCEPT !["worker"] = NoWriter]}

\* stop_cx_chat
Stop ==
  /\ check.pc = "refused"
  /\ listener' = "down"
  /\ WorkerMayEnd
  /\ CheckGoes("mark")
  /\ UNCHANGED <<marker, bounds>>

Mark ==
  /\ check.pc = "mark"
  /\ marker' = TRUE
  /\ CheckGoes("off")
  /\ UNCHANGED <<writer, listener, bounds>>

Recover ==
  /\ check.pc = "passed"
  /\ marker' = FALSE
  /\ CheckGoes("main")
  /\ UNCHANGED <<writer, listener, bounds>>

\* main: nothing to do, or a session that is not ready is replaced.
Healthy ==
  /\ check.pc = "main"
  /\ listener = "ready"
  /\ CheckGoes("off")
  /\ UNCHANGED <<writer, listener, marker, bounds>>

\* Mutant: a session that is not ready is left to itself.
StartMissing ==
  /\ check.pc = "main"
  /\ listener = "down"
  /\ listener' = "starting"
  /\ CheckGoes("wait")
  /\ UNCHANGED <<writer, marker, bounds>>

StartListener ==
  /\ check.pc = "main"
  /\ listener # "ready"
  /\ listener' = "starting"
  /\ IF listener = "down" THEN UNCHANGED writer ELSE WorkerMayEnd
  /\ CheckGoes("wait")
  /\ UNCHANGED <<marker, bounds>>

\* start_cx_chat waits for the readiness token; without it the session is
\* stopped.
Ready ==
  /\ check.pc = "wait"
  /\ listener = "starting"
  /\ listener' = "ready"
  /\ CheckGoes("off")
  /\ UNCHANGED <<writer, marker, bounds>>

StartFails ==
  /\ check.pc = "wait"
  /\ listener = "starting"
  /\ Fault
  /\ listener' = "down"
  /\ WorkerMayEnd
  /\ CheckGoes("off")
  /\ UNCHANGED marker

StartIsLost ==
  /\ check.pc = "wait"
  /\ listener = "down"
  /\ CheckGoes("off")
  /\ UNCHANGED <<writer, listener, marker, bounds>>

\* stop_cx_chat refuses a session whose pane or process it does not recognise
\* at this moment; the healthcheck tries again in its next pass.
StopRefuses ==
  /\ \/ check.pc = "refused" /\ listener # "down" /\ CheckGoes("mark")
     \/ check.pc = "main" /\ listener = "starting" /\ CheckGoes("off")
  /\ Fault
  /\ UNCHANGED <<writer, listener, marker>>

CheckDies ==
  /\ check.pc # "off"
  /\ Fault
  /\ CheckGoes("off")
  /\ UNCHANGED <<writer, listener, marker>>

\* The session or its process ends by itself.
Crash ==
  /\ listener # "down"
  /\ Fault
  /\ listener' = "down"
  /\ WorkerMayEnd
  /\ NothingChanges
  /\ UNCHANGED <<marker, check>>

-----------------------------------------------------------------------------
Verify ==
  \/ ReadActive \/ ReadArchived \/ ReadRegistry \/ ReadRoots \/ ReadGuild
  \/ ReadMember \/ ReadChannels \/ ListActive \/ ListArchived

Act ==
  \/ Stop \/ Mark \/ Recover \/ Healthy \/ StartListener \/ Ready
  \/ StartIsLost

Next ==
  \/ \E s \in Strangers : Intrude(s) \/ Expel(s)
  \/ \E t \in Visible : Shift(t)
  \/ \E g \in Guilds : Reconfigure(g)
  \/ \E t \in Threads :
       \/ Dispatch(t) \/ OpenThread(t) \/ Bind(t)
       \/ LoadTurn(t) \/ AppendTurn(t) \/ Unlink(t)
       \/ \E to \in Folders : Copy(t, to)
  \/ \E w \in {"worker", "operator"} :
       WalkActive(w) \/ WalkArchived(w) \/ Save(w) \/ Die(w)
  \/ Begin \/ Verify \/ ReadIsDisturbed \/ RequestFails
  \/ Act \/ StartFails \/ StopRefuses \/ CheckDies \/ Crash

Spec == Init /\ [][Next]_vars

\* launchd runs the healthcheck every five minutes, and it gets on.
Fairness == WF_vars(Begin) /\ WF_vars(Verify) /\ WF_vars(Act)

FairSpec == Spec /\ Fairness

-----------------------------------------------------------------------------
(* Properties *)

\* Every variable keeps its type.
TypeOK ==
  /\ thread \in [Visible -> Lists]
  /\ guild \in Guilds
  /\ file \in [Threads -> SUBSET Folders]
  /\ registry \subseteq Threads
  /\ listener \in {"down", "starting", "ready"}
  /\ marker \in BOOLEAN
  /\ check.pc \in ReadsFiles \cup Requests
                    \cup {"off", "refused", "mark", "passed", "main", "wait"}
  /\ check.known \subseteq Threads
  /\ unknown \subseteq Visible
  /\ {events, faults} \subseteq Nat

Fit == {g \in Guilds : LeastPrivilege(Config[g])}

\* Nothing for the verifier to object to.
Clean ==
  /\ Listed("active") \cup Listed("archived") \subseteq registry
  /\ \A t \in Threads : file[t] # Folders /\ (t \in registry <=> file[t] # {})
  /\ guild \in Fit

\* A verification that passes has seen every thread that was open and
\* unregistered all the while, unless it moved between the two lists
\* (discord_permissions.py, load_registered_threads to the archived pages).
StrangerIsCaught == check.pc = "passed" => unknown = {}

\* A verification refuses only for a cause: something was wrong when it
\* began, a request failed, or something changed while it read.
RefusalHasCause == check.pc = "refused" /\ still => ~Clean

\* The guild that a verification passed, pieced together from four answers,
\* grants the bot and @everyone what the policy demands and no more, if
\* nobody changed it meanwhile.
PassIsLeastPrivilege == check.pc = "passed" /\ steady => guild \in Fit

\* While there is nothing to object to, the listener comes back: only a
\* thread without its registration, files that disagree or an unfit guild
\* can keep it down for good.  A session that is refused in every pass, one
\* that the launcher did not start, is outside.
ListenerReturns == []<>(listener = "ready" \/ ~Clean)

=============================================================================
