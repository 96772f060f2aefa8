-------------------------- MODULE HealthcheckProofs --------------------------
(***************************************************************************)
(* Theorems about DiscordPermissions, Healthcheck and PostureWatch.  What  *)
(* the verifiers accept means for every guild, whatever its roles,         *)
(* members, channels and overwrites.  The healthcheck's verdict means what *)
(* it says for any number of threads, strangers, configurations, events    *)
(* and faults, although it reads everything without a lock.  A ready       *)
(* bridge stands on a verification of its own connection.                  *)
(*                                                                         *)
(* The calculation and what Discord grants are defined apart: the first    *)
(* applies overwrites in an order, the second asks which overwrite is the  *)
(* most specific one that mentions a permission.                           *)
(***************************************************************************)
EXTENDS Healthcheck, Sequences, TLAPS

-----------------------------------------------------------------------------
(* The calculation *)

\* Applying the overwrites of @everyone, the roles and the member in this
\* order decides each permission as the most specific overwrite does.
THEOREM CalculationDecides ==
  ASSUME NEW g, NEW o, NEW m, NEW p
  PROVE  p \in InChannel(g, o, m) <=> Decided(g, o, m, p)
BY DEF InChannel, Decided, Apply, OfRoles

\* Who is neither owner nor administrator has what was calculated, once the
\* channel is visible.
LEMMA GrantedToPlain ==
  ASSUME NEW g, NEW o, NEW m,
         m # g.owner, "administrator" \notin Base(g, m)
  PROVE  Granted(g, o, m) =
           {p \in Permissions : p \in InChannel(g, o, m)
                                /\ "view" \in InChannel(g, o, m)}
BY CalculationDecides DEF Granted

\* The bot of an accepted guild is such a member.
LEMMA BotIsPlain ==
  ASSUME NEW g, BotIsLimited(g)
  PROVE  Bot # g.owner /\ "administrator" \notin Base(g, Bot)
BY DEF BotIsLimited, ForbiddenInGuild

-----------------------------------------------------------------------------
(* Claude *)

\* The Claude verifier accepts a guild exactly when Discord grants the bot and
\* @everyone what the policy demands and no more.
THEOREM ClaudeEnforcesPolicy ==
  ASSUME NEW g PROVE ClaudeAccepts(g) <=> LeastPrivilege(g)
<1> SUFFICES ASSUME BotIsLimited(g)
             PROVE  ClaudeAccepts(g) <=> LeastPrivilege(g)
  BY DEF ClaudeAccepts, LeastPrivilege
<1> DEFINE Calculated(c) == InChannel(g, g.channel[c], Bot)
           Has(c) == Granted(g, g.channel[c], Bot)
<1>1. \A c : Has(c) = {p \in Permissions : p \in Calculated(c)
                                           /\ "view" \in Calculated(c)}
  BY BotIsPlain, GrantedToPlain
<1>2. /\ ForbiddenInChannel \subseteq Permissions
      /\ "view" \in Permissions
  BY DEF ForbiddenInChannel, ForbiddenInGuild, Permissions
<1>3. \A c : /\ ClaudeRequired(c) \subseteq Permissions
             /\ c \in {Chat, Errors} => "view" \in ClaudeRequired(c)
  BY DEF ClaudeRequired, Permissions
<1> HIDE DEF Calculated, Has
<1>4. \A c : "view" \notin Calculated(c) <=> Has(c) = {}
  BY <1>1, <1>2
<1>5. \A c : ("view" \in Calculated(c)
                => Calculated(c) \cap ForbiddenInChannel = {})
             <=> Has(c) \cap ForbiddenInChannel = {}
  BY <1>1, <1>2
<1>6. \A c \in {Chat, Errors} :
        ClaudeRequired(c) \subseteq Calculated(c)
          <=> ClaudeRequired(c) \subseteq Has(c)
  BY <1>1, <1>3
<1>7. QED
  BY <1>4, <1>5, <1>6
  DEF ClaudeAccepts, LeastPrivilege, SeesOnly, Restrained, Calculated, Has

-----------------------------------------------------------------------------
(* Codex *)

\* In a guild that the bridge accepts nobody but the bot, the owner of the
\* guild and its administrators opens, moderates or hides threads in the
\* channel, whatever roles a member has.
THEOREM OnlyBotOpensThreads ==
  ASSUME NEW g, NEW trust, BridgeAccepts(g, trust), NEW m \in Members \ {Bot},
         m # g.owner, "administrator" \notin Base(g, m),
         g.has[m] \subseteq Roles
  PROVE  Granted(g, g.channel[Chat], m) \cap ThreadPowers = {}
<1> DEFINE o == g.channel[Chat]
<1>1. OnlyBotRestores(o)
  BY DEF BridgeAccepts
<1>2. \A p \in ThreadPowers : p \notin InChannel(g, o, m)
  BY <1>1 DEF OnlyBotRestores, InChannel, Apply, OfRoles
<1>3. QED
  BY <1>2, GrantedToPlain

\* The bot itself can do what it needs in the channel, and neither moderate
\* nor manage, nor open private threads.
THEOREM BotIsConfined ==
  ASSUME NEW g, NEW trust, BridgeAccepts(g, trust)
  PROVE  /\ {"view", "converse", "react", "public_threads"}
              \subseteq Granted(g, g.channel[Chat], Bot)
         /\ Granted(g, g.channel[Chat], Bot)
              \cap (ForbiddenInChannel \cup {"attach"}) = {}
<1>1. Bot # g.owner /\ "administrator" \notin Base(g, Bot)
  BY BotIsPlain DEF BridgeAccepts
<1>2. {"view", "converse", "react", "public_threads"} \subseteq Permissions
  BY DEF Permissions
<1>3. QED
  BY <1>1, <1>2, GrantedToPlain DEF BridgeAccepts

\* A private channel that the bridge accepts shows nothing to any other
\* member ...
THEOREM OthersSeeNothing ==
  ASSUME NEW g, BridgeAccepts(g, "owner_private"),
         NEW m \in Members \ {Owner, Bot}
  PROVE  Granted(g, g.channel[Chat], m) = {}
<1>1. ~MayView(g, g.channel[Chat], m)
  BY DEF BridgeAccepts, AudienceIsPrivate
<1>2. QED
  BY <1>1, GrantedToPlain DEF MayView

\* ... and goes on so when roles without the administrator's permission are
\* given to members, or taken from them: no such role can open it.
THEOREM RolesDoNotOpen ==
  ASSUME NEW g, BridgeAccepts(g, "owner_private"),
         NEW h, h.channel = g.channel, h.owner = g.owner,
         NEW m \in Members \ {Owner, Bot}, h.has[m] \subseteq Roles,
         "administrator" \notin Base(h, m)
  PROVE  Granted(h, h.channel[Chat], m) = {}
<1> DEFINE o == g.channel[Chat]
<1>1. AudienceIsPrivate(g, o)
  BY DEF BridgeAccepts
<1>2. m # h.owner
  BY <1>1 DEF AudienceIsPrivate
<1>3. "view" \notin InChannel(h, o, m)
  BY <1>1 DEF AudienceIsPrivate, InChannel, Apply, OfRoles
<1>4. QED
  BY <1>2, <1>3, GrantedToPlain

-----------------------------------------------------------------------------
(* What the others do while the verifier reads *)

WriterPc == {"idle", "open", "bind", "append", "unlink", "walkActive",
             "walkArchived", "save"}
CheckPc == ReadsFiles \cup Requests
             \cup {"off", "refused", "mark", "passed", "main", "wait"}
Writer == [pc : WriterPc, on : SUBSET Threads, folder : Folders,
           found : SUBSET Threads]
Check == [pc : CheckPc, bound : SUBSET Threads, known : SUBSET Threads,
          seen : SUBSET Visible, roots : Guilds, roles : Guilds, has : Guilds]

WritersTyped == writer \in [{"worker", "operator"} -> Writer]
HostTyped == file \in [Threads -> SUBSET Folders] /\ registry \subseteq Threads

\* Every variable keeps its type, the programs and what they read included.
Typed ==
  /\ thread \in [Visible -> Lists]
  /\ guild \in Guilds
  /\ HostTyped
  /\ WritersTyped
  /\ listener \in {"down", "starting", "ready"}
  /\ marker \in BOOLEAN
  /\ check \in Check
  /\ unknown \subseteq Visible
  /\ {events, faults} \subseteq Nat

LEMMA TypesOK == Typed => TypeOK
BY DEF Typed, HostTyped, TypeOK, Check, CheckPc

\* A step of Discord, its users or a writer: what the verifier has read stays,
\* and the history says whether it still is so.
Meanwhile ==
  /\ check' = check
  /\ unknown' \subseteq unknown
  /\ \A t \in unknown' :
       thread'[t] = thread[t] /\ (t \in registry' => t \in registry)
  /\ steady' => steady /\ guild' = guild
  /\ still' => still /\ UNCHANGED <<thread, guild, file, registry, steady>>
  /\ touched' => touched \/ ~still'

OthersStep ==
  \/ \E s \in Strangers : Intrude(s) \/ Expel(s)
  \/ \E t \in Visible : Shift(t)
  \/ \E g \in Guilds : Reconfigure(g)
  \/ \E t \in Threads :
       \/ Dispatch(t) \/ OpenThread(t) \/ Bind(t)
       \/ LoadTurn(t) \/ AppendTurn(t) \/ Unlink(t)
       \/ \E to \in Folders : Copy(t, to)
  \/ \E w \in {"worker", "operator"} :
       WalkActive(w) \/ WalkArchived(w) \/ Save(w) \/ Die(w)
  \/ Crash

LEMMA PutsIsMeanwhile ==
  ASSUME Typed, NEW t \in Visible, NEW l \in Lists, Puts(t, l),
         UNCHANGED <<file, registry, check>>
  PROVE  Meanwhile
BY DEF Puts, Meanwhile, Typed

LEMMA FilesIsMeanwhile ==
  ASSUME NEW f, NEW r, Files(f, r), UNCHANGED check
  PROVE  Meanwhile
BY DEF Files, Meanwhile, DiscordStays, discordVars

LEMMA NothingIsMeanwhile ==
  ASSUME NothingChanges, UNCHANGED check
  PROVE  Meanwhile
BY DEF NothingChanges, Meanwhile, discordVars, hostVars, history

\* What everybody but the healthcheck does is such a step.
LEMMA OthersMeanwhile ==
  ASSUME Typed, OthersStep
  PROVE  Meanwhile
<1> USE DEF hostVars, bounds
<1>1. ASSUME NEW s \in Strangers, Intrude(s) \/ Expel(s)
      PROVE  Meanwhile
  BY <1>1, PutsIsMeanwhile DEF Intrude, Expel, Visible, Lists
<1>2. ASSUME NEW t \in Visible, Shift(t)
      PROVE  Meanwhile
  BY <1>2, PutsIsMeanwhile DEF Shift, Lists
<1>3. ASSUME NEW g \in Guilds, Reconfigure(g)
      PROVE  Meanwhile
  BY <1>3 DEF Reconfigure, Meanwhile
<1>4. ASSUME NEW t \in Threads, Dispatch(t) \/ LoadTurn(t)
      PROVE  Meanwhile
  BY <1>4, NothingIsMeanwhile DEF Dispatch, LoadTurn
<1>5. ASSUME NEW t \in Threads, OpenThread(t)
      PROVE  Meanwhile
  <2>1. CASE thread[t] = "none"
    BY <1>5, <2>1, PutsIsMeanwhile DEF OpenThread, HostStays, Visible, Lists
  <2>2. CASE thread[t] # "none"
    BY <1>5, <2>2, NothingIsMeanwhile DEF OpenThread
  <2>3. QED
    BY <2>1, <2>2
<1>6. ASSUME NEW t \in Threads, Bind(t)
      PROVE  Meanwhile
  BY <1>6, FilesIsMeanwhile, NothingIsMeanwhile DEF Bind
<1>7. ASSUME NEW t \in Threads, NEW to \in Folders,
             AppendTurn(t) \/ Unlink(t) \/ Copy(t, to)
      PROVE  Meanwhile
  BY <1>7, FilesIsMeanwhile DEF AppendTurn, Unlink, Copy
<1>8. ASSUME NEW w \in {"worker", "operator"},
             WalkActive(w) \/ WalkArchived(w) \/ Save(w) \/ Die(w)
      PROVE  Meanwhile
  BY <1>8, FilesIsMeanwhile, NothingIsMeanwhile
  DEF WalkActive, WalkArchived, Save, Die
<1>9. CASE Crash
  BY <1>9, NothingIsMeanwhile DEF Crash
<1>10. QED
  BY <1>1, <1>2, <1>3, <1>4, <1>5, <1>6, <1>7, <1>8, <1>9
  DEF OthersStep, Folders

-----------------------------------------------------------------------------
(* Types *)

LEMMA NoneHasType ==
  ASSUME guild \in Guilds
  PROVE  /\ NotRead \in Guilds
         /\ NoCheck \in Check /\ NoWriter \in Writer
         /\ \A pc \in CheckPc : [NoCheck EXCEPT !.pc = pc] \in Check
<1>1. NotRead \in Guilds
  BY DEF NotRead
<1>2. QED
  BY <1>1 DEF NoCheck, NoWriter, Check, Writer, CheckPc, WriterPc, Folders

LEMMA InitTyped == Init => Typed
<1> SUFFICES ASSUME Init PROVE Typed
  OBVIOUS
<1>1. NoCheck \in Check /\ NoWriter \in Writer
  BY NoneHasType DEF Init
<1>2. QED
  <2>1. /\ thread \in [Visible -> Lists] /\ HostTyped
        /\ {events, faults} \subseteq Nat
    BY DEF Init, Lists, HostTyped
  <2>2. WritersTyped
    BY <1>1 DEF Init, WritersTyped
  <2>3. QED
    BY <1>1, <2>1, <2>2 DEF Init, Typed

\* The other programs' variables keep their types ...
LEMMA BoundsTyped ==
  ASSUME Typed, Event \/ Fault \/ UNCHANGED bounds
  PROVE  ({events, faults} \subseteq Nat)'
BY DEF Typed, Event, Fault, bounds

LEMMA OthersTyped ==
  ASSUME Typed, OthersStep
  PROVE  Typed'
<1>1. check' = check /\ unknown' \subseteq unknown
  BY OthersMeanwhile DEF Meanwhile
<1>2. ({events, faults} \subseteq Nat)'
  <2>1. Event \/ Fault \/ UNCHANGED bounds
    BY DEF OthersStep, Intrude, Expel, Shift, Reconfigure, Dispatch,
       OpenThread, Bind, LoadTurn, AppendTurn, Unlink, Copy, WalkActive,
       WalkArchived, Save, Die, Crash
  <2>2. QED
    BY <2>1, BoundsTyped
<1>3. thread' \in [Visible -> Lists] /\ guild' \in Guilds
  BY DEF Typed, OthersStep, Intrude, Expel, Shift, Reconfigure, Dispatch,
     OpenThread, Bind, LoadTurn, AppendTurn, Unlink, Copy, WalkActive,
     WalkArchived, Save, Die, Crash, NothingChanges, Files, DiscordStays,
     discordVars, Puts, Visible, Lists
<1>4. HostTyped'
  <2>1. /\ file \in [Threads -> SUBSET Folders] /\ registry \subseteq Threads
        /\ \A w \in {"worker", "operator"} :
             writer[w].folder \in Folders /\ writer[w].found \subseteq Threads
    BY DEF Typed, HostTyped, WritersTyped, Writer
  <2>2. ASSUME UNCHANGED hostVars PROVE HostTyped'
    BY <2>1, <2>2 DEF HostTyped, hostVars
  <2>3. ASSUME NEW t \in Threads, Bind(t) \/ AppendTurn(t) \/ Unlink(t)
        PROVE  HostTyped'
    BY <2>1, <2>3 DEF HostTyped, Bind, AppendTurn, Unlink, Files, Folders,
       NothingChanges,
       hostVars
  <2>4. ASSUME NEW t \in Threads, NEW to \in Folders, Copy(t, to)
        PROVE  HostTyped'
    BY <2>1, <2>4 DEF HostTyped, Copy, Files
  <2>5. ASSUME NEW w \in {"worker", "operator"}, Save(w) PROVE HostTyped'
    BY <2>1, <2>5 DEF HostTyped, Save, Files
  <2>6. QED
    BY <2>2, <2>3, <2>4, <2>5
    DEF HostTyped, OthersStep, Intrude, Expel, Shift, Reconfigure, Dispatch,
        OpenThread,
        LoadTurn, WalkActive, WalkArchived, Die, Crash, NothingChanges,
        HostStays
<1>5. WritersTyped'
  <2>1. \A t \in Threads : {t} \in SUBSET Threads /\ Found(t) \in Folders
    BY DEF Found, Folders
  <2>2. \A f \in Folders : Stored(f) \in SUBSET Threads
    BY DEF Stored
  <2>3. \A w \in {"worker", "operator"} : writer[w].found \in SUBSET Threads
    BY DEF Typed, WritersTyped, Writer
  <2>4. WritersTyped
    BY DEF Typed
  <2>5. NoWriter \in Writer
    BY NoneHasType DEF Typed
  <2>6. ASSUME NEW t \in Threads, Dispatch(t) \/ OpenThread(t) \/ Bind(t)
        PROVE  WritersTyped'
    <3>1. CASE Dispatch(t)
      BY <2>4, <3>1 DEF WritersTyped, Writer, WriterPc, Dispatch
    <3>2. CASE OpenThread(t)
      BY <2>4, <3>2 DEF WritersTyped, Writer, WriterPc, OpenThread, Goes
    <3>3. CASE Bind(t)
      BY <2>4, <2>5, <3>3 DEF WritersTyped, Writer, WriterPc, Bind, Goes, Ends
    <3>4. QED
      BY <2>6, <3>1, <3>2, <3>3
  <2>7. ASSUME NEW t \in Threads, LoadTurn(t) \/ AppendTurn(t) \/ Unlink(t)
        PROVE  WritersTyped'
    BY <2>1, <2>4, <2>7
    DEF WritersTyped, Writer, WriterPc, LoadTurn, AppendTurn, Unlink, Goes
  <2>8. ASSUME NEW t \in Threads, NEW to \in Folders, Copy(t, to)
        PROVE  WritersTyped'
    BY <2>1, <2>4, <2>8 DEF WritersTyped, Writer, WriterPc, Copy
  <2>9. ASSUME NEW w \in {"worker", "operator"},
               WalkActive(w) \/ WalkArchived(w) \/ Save(w) \/ Die(w)
        PROVE  WritersTyped'
    <3>1. Stored("active") \in SUBSET Threads
          /\ (writer[w].found \cup Stored("archived")) \in SUBSET Threads
      BY <2>2, <2>3 DEF Folders
    <3>2. CASE WalkActive(w) \/ WalkArchived(w)
      BY <2>4, <3>1, <3>2
      DEF WritersTyped, Writer, WriterPc, WalkActive, WalkArchived
    <3>3. CASE Save(w) \/ Die(w)
      BY <2>4, <2>5, <3>3 DEF WritersTyped, Save, Die, Ends
    <3>4. QED
      BY <2>9, <3>2, <3>3
  <2>10. CASE Crash
    BY <2>4, <2>5, <2>10 DEF WritersTyped, Crash, WorkerMayEnd
  <2>11. QED
    BY <2>4, <2>6, <2>7, <2>8, <2>9, <2>10
    DEF WritersTyped, OthersStep, Intrude, Expel, Shift, Reconfigure
<1>6. /\ listener' \in {"down", "starting", "ready"}
      /\ marker' \in BOOLEAN
  BY DEF Typed, OthersStep, Intrude, Expel, Shift, Reconfigure, Dispatch,
     OpenThread, Bind, LoadTurn, AppendTurn, Unlink, Copy, WalkActive,
     WalkArchived, Save, Die, Crash
<1>7. QED
  BY <1>1, <1>2, <1>3, <1>4, <1>5, <1>6 DEF Typed

\* ... and so do the healthcheck's.
LEMMA StepTyped ==
  ASSUME Typed, NEW c \in Check, Step(c)
  PROVE  Typed'
BY DEF Typed, HostTyped, WritersTyped, Step, discordVars, hostVars, bounds

LEMMA VerifyTyped ==
  ASSUME Typed, Verify \/ ReadIsDisturbed
  PROVE  Typed'
<1>1. /\ check \in Check /\ guild \in Guilds /\ registry \in SUBSET Threads
      /\ Stored("active") \in SUBSET Threads
      /\ Stored("archived") \in SUBSET Threads
      /\ Listed("active") \in SUBSET Visible
  BY DEF Typed, HostTyped, Stored, Listed
<1>2. NotRead \in Guilds /\ Refused \in Check /\ NoCheck \in Check
      /\ [NoCheck EXCEPT !.pc = "passed"] \in Check
  BY <1>1, NoneHasType DEF Refused, CheckPc
<1>3. CASE ReadActive \/ ReadArchived \/ ReadRegistry
  <2>1. /\ [check EXCEPT !.pc = "archived", !.bound = Stored("active")]
             \in Check
        /\ [check EXCEPT !.pc = "registry", !.bound = @ \cup Stored("archived")]
             \in Check
        /\ [check EXCEPT !.pc = "roots", !.bound = {}, !.known = registry]
             \in Check
    BY <1>1 DEF Check, CheckPc, ReadsFiles, Requests
  <2>2. QED
    BY <1>2, <1>3, <2>1, StepTyped DEF ReadActive, ReadArchived, ReadRegistry
<1>4. CASE ReadRoots \/ ReadGuild \/ ReadMember \/ ReadChannels
  <2>1. /\ [check EXCEPT !.pc = "guild", !.roots = guild] \in Check
        /\ [check EXCEPT !.pc = "member", !.roles = guild] \in Check
        /\ [check EXCEPT !.pc = "channels", !.has = guild] \in Check
        /\ [check EXCEPT !.pc = "live", !.roots = NotRead, !.roles = NotRead,
                         !.has = NotRead] \in Check
    BY <1>1, <1>2 DEF Check, CheckPc, ReadsFiles, Requests
  <2>2. QED
    BY <1>2, <1>4, <2>1, StepTyped
    DEF ReadRoots, ReadGuild, ReadMember, ReadChannels
<1>5. CASE ListActive \/ ListArchived
  <2>1. [check EXCEPT !.pc = "closed", !.seen = Listed("active")] \in Check
    BY <1>1 DEF Check, CheckPc, ReadsFiles, Requests
  <2>2. QED
    BY <1>2, <1>5, <2>1, StepTyped DEF ListActive, ListArchived
<1>6. CASE ReadIsDisturbed
  BY <1>2, <1>6, StepTyped DEF ReadIsDisturbed
<1>7. QED
  BY <1>3, <1>4, <1>5, <1>6 DEF Verify

\* The healthcheck goes on after a verdict.
CheckStep ==
  \/ Stop \/ Mark \/ Recover \/ Healthy \/ StartListener \/ Ready
  \/ StartIsLost \/ StartFails \/ StopRefuses \/ CheckDies

LEMMA CheckStepGoes ==
  ASSUME CheckStep
  PROVE  \E pc \in {"off", "mark", "main", "wait"} : CheckGoes(pc)
BY DEF CheckStep, Stop, Mark, Recover, Healthy, StartListener, Ready,
   StartIsLost, StartFails, StopRefuses, CheckDies

LEMMA CheckStepTyped ==
  ASSUME Typed, CheckStep
  PROVE  Typed'
<1>1. PICK pc \in {"off", "mark", "main", "wait"} : CheckGoes(pc)
  BY CheckStepGoes
<1>2. check' \in Check /\ unknown' \subseteq Visible
      /\ UNCHANGED <<thread, guild, file, registry>>
  BY <1>1, NoneHasType DEF CheckGoes, CheckPc, Typed, discordVars, hostVars
<1>3. ({events, faults} \subseteq Nat)'
  <2>1. Event \/ Fault \/ UNCHANGED bounds
    BY DEF CheckStep, Stop, Mark, Recover, Healthy, StartListener, Ready,
       StartIsLost, StartFails, StopRefuses, CheckDies
  <2>2. QED
    BY <2>1, BoundsTyped
<1>4. writer' \in [{"worker", "operator"} -> Writer]
  <2>1. WorkerMayEnd \/ UNCHANGED writer
    BY DEF CheckStep, Stop, Mark, Recover, Healthy, StartListener, Ready,
       StartIsLost, StartFails, StopRefuses, CheckDies
  <2>2. [writer EXCEPT !["worker"] = NoWriter]
          \in [{"worker", "operator"} -> Writer]
    BY NoneHasType DEF Typed, WritersTyped
  <2>3. QED
    BY <2>1, <2>2 DEF WorkerMayEnd, Typed, WritersTyped
<1>5. /\ listener' \in {"down", "starting", "ready"}
      /\ marker' \in BOOLEAN
  BY DEF Typed, CheckStep, Stop, Mark, Recover, Healthy, StartListener, Ready,
     StartIsLost, StartFails, StopRefuses, CheckDies
<1>6. QED
  BY <1>2, <1>3, <1>4, <1>5 DEF Typed, HostTyped, WritersTyped

LEMMA BeginTyped ==
  ASSUME Typed, Begin
  PROVE  Typed'
<1>1. [NoCheck EXCEPT !.pc = "active"] \in Check
  BY NoneHasType DEF Typed, CheckPc, ReadsFiles
<1>2. QED
  BY <1>1 DEF Typed, HostTyped, WritersTyped, Begin, discordVars, hostVars,
     bounds

LEMMA RequestFailsTyped ==
  ASSUME Typed, RequestFails
  PROVE  Typed'
<1>1. Refused \in Check
  BY NoneHasType DEF Typed, CheckPc, Refused
<1>2. ({events, faults} \subseteq Nat)'
  BY BoundsTyped DEF RequestFails
<1>3. QED
  BY <1>1, <1>2 DEF Typed, HostTyped, WritersTyped, RequestFails,
     discordVars, hostVars

\* The steps of a behavior, by who takes them.
LEMMA Steps ==
  ASSUME [Next]_vars
  PROVE  \/ OthersStep \/ Begin \/ Verify \/ ReadIsDisturbed \/ RequestFails
         \/ CheckStep \/ UNCHANGED vars
BY DEF Next, OthersStep, CheckStep, Act

LEMMA TypedInvariant == Spec => []Typed
<1>1. Typed /\ [Next]_vars => Typed'
  <2> SUFFICES ASSUME Typed, [Next]_vars PROVE Typed'
    OBVIOUS
  <2>1. CASE UNCHANGED vars
    BY <2>1 DEF Typed, HostTyped, WritersTyped, vars, discordVars, hostVars,
       history
  <2>2. QED
    BY <2>1, Steps, OthersTyped, BeginTyped, VerifyTyped, RequestFailsTyped,
       CheckStepTyped
<1>2. QED
  BY <1>1, InitTyped, PTL DEF Spec

\* Every variable of Healthcheck keeps its type.
THEOREM Typing == Spec => []TypeOK
BY TypedInvariant, TypesOK, PTL

-----------------------------------------------------------------------------
(* Strangers *)

\* The threads of the history are open and unregistered, and the verifier has
\* not yet seen them in a list that it accepted.
Watched ==
  /\ \A t \in unknown : thread[t] # "none" /\ t \notin registry
  /\ check.pc \in Requests => check.known \cap unknown = {}
  /\ check.pc = "closed" => \A t \in unknown : thread[t] # "active"
  /\ check.pc = "passed" => unknown = {}

LEMMA OthersWatched ==
  ASSUME Watched, Meanwhile
  PROVE  Watched'
BY DEF Watched, Meanwhile

\* A read takes nothing away from the history.
LEMMA StepKeepsThreads ==
  ASSUME Watched, NEW c, Step(c)
  PROVE  /\ \A t \in unknown' : thread'[t] # "none" /\ t \notin registry'
         /\ check' = c /\ unknown' = unknown /\ thread' = thread
BY DEF Watched, Step, discordVars, hostVars

LEMMA PcOfRefused == NoCheck.pc = "off" /\ Refused.pc = "refused"
BY DEF NoCheck, Refused

LEMMA VerifyWatched ==
  ASSUME Typed, Watched, Verify \/ ReadIsDisturbed
  PROVE  Watched'
<1>1. /\ check \in Check /\ thread \in [Visible -> Lists]
      /\ unknown \subseteq Visible
  BY DEF Typed
<1>2. ASSUME NEW c \in {Refused}, Step(c) PROVE Watched'
  BY <1>2, StepKeepsThreads, PcOfRefused DEF Watched, Requests
<1>3. CASE ReadActive \/ ReadArchived
  <2>1. check'.pc \in {"refused", "archived", "registry"}
    BY <1>1, <1>3, PcOfRefused DEF ReadActive, ReadArchived, Step, Check
  <2>2. QED
    BY <1>3, <2>1, StepKeepsThreads DEF ReadActive, ReadArchived, Watched,
       Requests
<1>4. CASE ReadRegistry
  <2>1. CASE registry = check.bound
    <3>1. check'.pc = "roots" /\ check'.known = registry
      BY <1>1, <1>4, <2>1 DEF ReadRegistry, Step, Check
    <3>2. QED
      BY <1>4, <3>1, StepKeepsThreads DEF ReadRegistry, Watched
  <2>2. QED
    BY <1>2, <1>4, <2>1 DEF ReadRegistry
<1>5. CASE ReadRoots \/ ReadGuild \/ ReadMember \/ ReadChannels
  <2>1. ASSUME NEW c, Step(c), c.known = check.known,
               c.pc \in {"guild", "member", "channels", "live"}
        PROVE  Watched'
    <3>1. check.pc \in Requests
      BY <1>5 DEF ReadRoots, ReadGuild, ReadMember, ReadChannels, Requests
    <3>2. QED
      BY <2>1, <3>1, StepKeepsThreads DEF Watched
  <2>2. CASE ReadRoots \/ ReadGuild
    BY <1>1, <2>1, <2>2 DEF ReadRoots, ReadGuild, Check
  <2>3. CASE ReadMember
    BY <1>1, <1>2, <2>1, <2>3 DEF ReadMember, Check
  <2>4. CASE ReadChannels
    BY <1>1, <1>2, <2>1, <2>4 DEF ReadChannels, Check
  <2>5. QED
    BY <1>5, <2>2, <2>3, <2>4
<1>6. CASE ListActive
  <2>1. CASE Listed("active") \subseteq check.known
    <3>1. /\ check.known \cap unknown = {}
          /\ check'.pc = "closed" /\ check'.known = check.known
      BY <1>1, <1>6, <2>1 DEF ListActive, Step, Watched, Requests, Check
    <3>2. \A t \in unknown : thread[t] # "active"
      BY <1>1, <2>1, <3>1 DEF Listed
    <3>3. QED
      BY <1>6, <3>1, <3>2, StepKeepsThreads DEF ListActive, Watched
  <2>2. QED
    BY <1>2, <1>6, <2>1 DEF ListActive
<1>7. CASE ListArchived
  <2>1. CASE /\ Listed("archived") \subseteq check.known
             /\ Listed("archived") \cap check.seen = {}
    <3>1. /\ check.known \cap unknown = {}
          /\ \A t \in unknown : thread[t] \notin {"none", "active"}
      BY <1>7 DEF ListArchived, Watched, Requests
    <3>2. \A t \in unknown : thread[t] = "archived"
      BY <1>1, <3>1 DEF Lists
    <3>3. unknown = {}
      BY <1>1, <2>1, <3>1, <3>2 DEF Listed
    <3>4. check'.pc = "passed"
      BY <1>7, <2>1 DEF ListArchived, Step, NoCheck
    <3>5. QED
      BY <1>7, <3>3, <3>4, StepKeepsThreads DEF ListArchived, Watched, Requests
  <2>2. QED
    BY <1>2, <1>7, <2>1 DEF ListArchived
<1>8. CASE ReadIsDisturbed
  BY <1>2, <1>8 DEF ReadIsDisturbed
<1>9. QED
  BY <1>3, <1>4, <1>5, <1>6, <1>7, <1>8 DEF Verify

LEMMA BeginPc == Begin => check'.pc = "active"
BY DEF Begin, NoCheck

LEMMA RequestFailsPc == RequestFails => check'.pc = "refused"
BY PcOfRefused DEF RequestFails

LEMMA CheckStepEnds ==
  ASSUME CheckStep
  PROVE  /\ check'.pc \in {"off", "mark", "main", "wait"}
         /\ unknown' = {} /\ ~touched' /\ ~still' /\ ~steady'
         /\ UNCHANGED <<thread, guild, file, registry>>
<1>1. PICK pc \in {"off", "mark", "main", "wait"} : CheckGoes(pc)
  BY CheckStepGoes
<1>2. QED
  BY <1>1 DEF CheckGoes, NoCheck, discordVars, hostVars

LEMMA WatchedInvariant == Spec => []Watched
<1>1. Init => Watched
  BY PcOfRefused DEF Init, Watched, Requests
<1>2. Typed /\ Watched /\ [Next]_vars => Watched'
  <2> SUFFICES ASSUME Typed, Watched, [Next]_vars PROVE Watched'
    OBVIOUS
  <2>1. CASE OthersStep
    BY <2>1, OthersMeanwhile, OthersWatched
  <2>2. CASE Begin
    BY <2>2, BeginPc DEF Begin, Watched, Requests, discordVars, hostVars
  <2>3. CASE Verify \/ ReadIsDisturbed
    BY <2>3, VerifyWatched
  <2>4. CASE RequestFails
    BY <2>4, RequestFailsPc
    DEF RequestFails, Watched, Requests, discordVars, hostVars
  <2>5. CASE CheckStep
    BY <2>5, CheckStepEnds DEF Watched, Requests
  <2>6. CASE UNCHANGED vars
    BY <2>6 DEF Watched, vars, discordVars, hostVars, history
  <2>7. QED
    BY <2>1, <2>2, <2>3, <2>4, <2>5, <2>6, Steps
<1>3. QED
  BY <1>1, <1>2, TypedInvariant, PTL DEF Spec

\* A verification that passes has seen every thread that was open and
\* unregistered since it began, however dispatches, turns and the operator's
\* commands came between its reads, unless somebody moved that thread.
THEOREM StrangersAreCaught == Spec => []StrangerIsCaught
<1>1. Watched => StrangerIsCaught
  BY DEF Watched, StrangerIsCaught
<1>2. QED
  BY <1>1, WatchedInvariant, PTL

-----------------------------------------------------------------------------
(* Refusals, and passes *)

\* While nothing has changed, what the verifier has read is so ...
Undisturbed ==
  /\ check.pc = "archived" => check.bound = Stored("active")
  /\ check.pc = "registry" =>
       check.bound = Stored("active") \cup Stored("archived")
  /\ check.pc \in Requests => check.known = registry
  /\ check.pc = "closed" => check.seen = Listed("active")
  /\ check.pc = "refused" => ~Clean

\* ... and while nobody has changed the guild, so is what it read of the guild.
Unchanged ==
  /\ check.pc \in {"guild", "member", "channels"} => check.roots = guild
  /\ check.pc \in {"member", "channels"} => check.roles = guild
  /\ check.pc = "channels" => check.has = guild
  /\ check.pc \in {"live", "closed", "passed"} => guild \in Fit

Grounded ==
  /\ touched => ~still
  /\ still => steady /\ Undisturbed
  /\ steady => Unchanged

LEMMA OthersGrounded ==
  ASSUME Grounded, Meanwhile
  PROVE  Grounded'
<1>1. touched' => ~still'
  BY DEF Grounded, Meanwhile
<1>2. ASSUME still' PROVE steady' /\ Undisturbed'
  BY <1>2 DEF Grounded, Undisturbed, Meanwhile, Clean, Stored, Listed
<1>3. ASSUME steady' PROVE Unchanged'
  BY <1>3 DEF Grounded, Unchanged, Meanwhile
<1>4. QED
  BY <1>1, <1>2, <1>3 DEF Grounded

\* A read has only to be true to what is there.
LEMMA StepGrounded ==
  ASSUME Grounded, NEW c, Step(c),
         still => /\ c.pc = "archived" => c.bound = Stored("active")
                  /\ c.pc = "registry" =>
                       c.bound = Stored("active") \cup Stored("archived")
                  /\ c.pc \in Requests => c.known = registry
                  /\ c.pc = "closed" => c.seen = Listed("active")
                  /\ c.pc = "refused" => ~Clean,
         steady =>
           /\ c.pc \in {"guild", "member", "channels"} => c.roots = guild
           /\ c.pc \in {"member", "channels"} => c.roles = guild
           /\ c.pc = "channels" => c.has = guild
           /\ c.pc \in {"live", "closed", "passed"} => guild \in Fit
  PROVE  Grounded'
<1>1. /\ check' = c /\ ~touched' /\ still' = still /\ steady' = steady
      /\ UNCHANGED <<thread, guild, file, registry>>
  BY DEF Step, discordVars, hostVars
<1>2. still => steady' /\ Undisturbed'
  BY <1>1 DEF Grounded, Undisturbed, Clean, Stored, Listed
<1>3. steady => Unchanged'
  BY <1>1 DEF Unchanged
<1>4. QED
  BY <1>1, <1>2, <1>3 DEF Grounded

\* A refusal has only to find something wrong.
LEMMA RefusedGrounded ==
  ASSUME Grounded, Step(Refused), still => ~Clean
  PROVE  Grounded'
BY StepGrounded, PcOfRefused DEF Requests

LEMMA FilesGrounded ==
  ASSUME Typed, Grounded, ReadActive \/ ReadArchived \/ ReadRegistry
  PROVE  Grounded'
<1>1. check \in Check /\ file \in [Threads -> SUBSET Folders]
      /\ registry \subseteq Threads
  BY DEF Typed, HostTyped
<1>2. CASE ReadActive
  <2> DEFINE c == [check EXCEPT !.pc = "archived", !.bound = Stored("active")]
  <2>1. c.pc = "archived" /\ c.bound = Stored("active")
    BY <1>1 DEF Check
  <2>2. Step(c)
    BY <1>2 DEF ReadActive
  <2> HIDE DEF c
  <2>3. QED
    BY <2>1, <2>2, StepGrounded DEF Requests
<1>3. CASE ReadArchived
  <2>1. still => check.bound = Stored("active")
    BY <1>3 DEF ReadArchived, Grounded, Undisturbed
  <2>2. CASE check.bound \cap Stored("archived") # {}
    <3>1. still => \E t \in Threads : file[t] = Folders
      BY <1>1, <2>1, <2>2 DEF Stored, Folders
    <3>2. QED
      BY <1>3, <2>2, <3>1, RefusedGrounded DEF ReadArchived, Clean
  <2>3. CASE check.bound \cap Stored("archived") = {}
    <3> DEFINE c == [check EXCEPT !.pc = "registry",
                                  !.bound = @ \cup Stored("archived")]
    <3>1. c.pc = "registry" /\ c.bound = check.bound \cup Stored("archived")
      BY <1>1 DEF Check
    <3>2. Step(c)
      BY <1>3, <2>3 DEF ReadArchived
    <3> HIDE DEF c
    <3>3. QED
      BY <2>1, <3>1, <3>2, StepGrounded DEF Requests
  <2>4. QED
    BY <2>2, <2>3
<1>4. CASE ReadRegistry
  <2>1. still => check.bound = Stored("active") \cup Stored("archived")
    BY <1>4 DEF ReadRegistry, Grounded, Undisturbed
  <2>2. CASE registry # check.bound
    <3>1. \A t \in Threads :
            t \in Stored("active") \cup Stored("archived") <=> file[t] # {}
      BY <1>1 DEF Stored, Folders
    <3>2. still => \E t \in Threads : ~(t \in registry <=> file[t] # {})
      BY <1>1, <2>1, <2>2, <3>1 DEF Stored
    <3>3. QED
      BY <1>4, <2>2, <3>2, RefusedGrounded DEF ReadRegistry, Clean
  <2>3. CASE registry = check.bound
    <3> DEFINE c == [check EXCEPT !.pc = "roots", !.bound = {},
                                  !.known = registry]
    <3>1. c.pc = "roots" /\ c.known = registry
      BY <1>1 DEF Check
    <3>2. Step(c)
      BY <1>4, <2>3 DEF ReadRegistry
    <3> HIDE DEF c
    <3>3. QED
      BY <3>1, <3>2, StepGrounded
  <2>4. QED
    BY <2>2, <2>3
<1>5. QED
  BY <1>2, <1>3, <1>4

\* Four answers about one configuration are that configuration.
LEMMA PiecesFit ==
  ASSUME NEW g \in Guilds
  PROVE  Pieced(g, g, g) = Config[g]
BY HealthcheckAssumption DEF Pieced, Guild, Guilds

LEMMA CleanIsAccepted ==
  ASSUME Typed
  PROVE  /\ guild \in Fit <=> ClaudeAccepts(Pieced(guild, guild, guild))
         /\ guild \in Fit => BotIsLimited(Pieced(guild, guild, guild))
         /\ Clean => guild \in Fit
<1>1. guild \in Guilds /\ Pieced(guild, guild, guild) = Config[guild]
  BY PiecesFit DEF Typed
<1>2. guild \in Fit <=> ClaudeAccepts(Pieced(guild, guild, guild))
  BY <1>1, ClaudeEnforcesPolicy DEF Fit
<1>3. guild \in Fit => BotIsLimited(Pieced(guild, guild, guild))
  BY <1>1 DEF Fit, LeastPrivilege
<1>4. QED
  BY <1>2, <1>3 DEF Clean

LEMMA GuildGrounded ==
  ASSUME Typed, Grounded, ReadRoots \/ ReadGuild \/ ReadMember \/ ReadChannels
  PROVE  Grounded'
<1>1. check \in Check
  BY DEF Typed
<1>2. /\ check.pc \in Requests
      /\ still => steady /\ check.known = registry
      /\ steady => Unchanged
  BY DEF ReadRoots, ReadGuild, ReadMember, ReadChannels, Requests, Grounded,
     Undisturbed
<1>3. CASE ReadRoots
  <2> DEFINE c == [check EXCEPT !.pc = "guild", !.roots = guild]
  <2>1. c.pc = "guild" /\ c.roots = guild /\ c.known = check.known
    BY <1>1 DEF Check
  <2>2. Step(c)
    BY <1>3 DEF ReadRoots
  <2> HIDE DEF c
  <2>3. QED
    BY <1>2, <2>1, <2>2, StepGrounded
<1>4. CASE ReadGuild
  <2> DEFINE c == [check EXCEPT !.pc = "member", !.roles = guild]
  <2>1. /\ c.pc = "member" /\ c.roles = guild
        /\ c.known = check.known /\ c.roots = check.roots
    BY <1>1 DEF Check
  <2>2. Step(c) /\ (steady => check.roots = guild)
    BY <1>2, <1>4 DEF ReadGuild, Unchanged
  <2> HIDE DEF c
  <2>3. QED
    BY <1>2, <2>1, <2>2, StepGrounded
<1>5. CASE ReadMember
  <2>1. steady => check.roots = guild /\ check.roles = guild
    BY <1>2, <1>5 DEF ReadMember, Unchanged
  <2>2. CASE BotIsLimited(Pieced(check.roles, guild, guild))
    <3> DEFINE c == [check EXCEPT !.pc = "channels", !.has = guild]
    <3>1. /\ c.pc = "channels" /\ c.has = guild /\ c.known = check.known
          /\ c.roots = check.roots /\ c.roles = check.roles
      BY <1>1 DEF Check
    <3>2. Step(c)
      BY <1>5, <2>2 DEF ReadMember
    <3> HIDE DEF c
    <3>3. QED
      BY <1>2, <2>1, <3>1, <3>2, StepGrounded
  <2>3. CASE ~BotIsLimited(Pieced(check.roles, guild, guild))
    <3>1. still => ~Clean
      BY <1>2, <2>1, <2>3, CleanIsAccepted
    <3>2. QED
      BY <1>5, <2>3, <3>1, RefusedGrounded DEF ReadMember
  <2>4. QED
    BY <2>2, <2>3
<1>6. CASE ReadChannels
  <2> DEFINE Same == \A k \in {Chat, Errors} :
                       Config[guild].channel[k]
                         = Config[check.roots].channel[k]
             Accepted == ClaudeAccepts(Pieced(check.roles, check.has, guild))
  <2>1. steady => /\ check.roots = guild /\ check.roles = guild
                  /\ check.has = guild
    BY <1>2, <1>6 DEF ReadChannels, Unchanged
  <2>2. steady => Same /\ (Accepted <=> guild \in Fit)
    BY <2>1, CleanIsAccepted
  <2>3. CASE Same /\ Accepted
    <3> DEFINE c == [check EXCEPT !.pc = "live", !.roots = NotRead,
                                  !.roles = NotRead, !.has = NotRead]
    <3>1. c.pc = "live" /\ c.known = check.known
      BY <1>1 DEF Check
    <3>2. Step(c)
      BY <1>6, <2>3 DEF ReadChannels
    <3> HIDE DEF c
    <3>3. QED
      BY <1>2, <2>2, <2>3, <3>1, <3>2, StepGrounded
  <2>4. CASE ~(Same /\ Accepted)
    <3>1. still => ~Clean
      BY <1>2, <2>2, <2>4, CleanIsAccepted
    <3>2. Step(Refused)
      BY <1>6, <2>4 DEF ReadChannels
    <3>3. QED
      BY <3>1, <3>2, RefusedGrounded
  <2>5. QED
    BY <2>3, <2>4
<1>7. QED
  BY <1>3, <1>4, <1>5, <1>6

LEMMA ListsGrounded ==
  ASSUME Typed, Grounded, ListActive \/ ListArchived
  PROVE  Grounded'
<1>1. check \in Check
  BY DEF Typed
<1>2. /\ still => check.known = registry
      /\ steady => guild \in Fit
  BY DEF ListActive, ListArchived, Requests, Grounded, Undisturbed, Unchanged
<1>3. CASE ListActive
  <2>1. CASE Listed("active") \subseteq check.known
    <3> DEFINE c == [check EXCEPT !.pc = "closed", !.seen = Listed("active")]
    <3>1. /\ c.pc = "closed" /\ c.seen = Listed("active")
          /\ c.known = check.known
      BY <1>1 DEF Check
    <3>2. Step(c)
      BY <1>3, <2>1 DEF ListActive
    <3> HIDE DEF c
    <3>3. QED
      BY <1>2, <3>1, <3>2, StepGrounded
  <2>2. CASE ~(Listed("active") \subseteq check.known)
    BY <1>2, <1>3, <2>2, RefusedGrounded DEF ListActive, Clean
  <2>3. QED
    BY <2>1, <2>2
<1>4. CASE ListArchived
  <2>1. still => check.seen = Listed("active")
    BY <1>4 DEF ListArchived, Grounded, Undisturbed
  <2>2. Listed("archived") \cap Listed("active") = {}
    BY DEF Listed
  <2>3. CASE /\ Listed("archived") \subseteq check.known
             /\ Listed("archived") \cap check.seen = {}
    <3> DEFINE c == [NoCheck EXCEPT !.pc = "passed"]
    <3>1. c.pc = "passed"
      BY DEF NoCheck
    <3>2. Step(c)
      BY <1>4, <2>3 DEF ListArchived
    <3> HIDE DEF c
    <3>3. QED
      BY <1>2, <3>1, <3>2, StepGrounded DEF Requests
  <2>4. CASE ~(/\ Listed("archived") \subseteq check.known
               /\ Listed("archived") \cap check.seen = {})
    <3>1. still => ~(Listed("archived") \subseteq registry)
      BY <1>2, <2>1, <2>2, <2>4
    <3>2. QED
      BY <1>4, <2>4, <3>1, RefusedGrounded DEF ListArchived, Clean
  <2>5. QED
    BY <2>3, <2>4
<1>5. QED
  BY <1>3, <1>4

LEMMA GroundedInvariant == Spec => []Grounded
<1>1. Init => Grounded
  BY PcOfRefused DEF Init, Grounded
<1>2. Typed /\ Grounded /\ [Next]_vars => Grounded'
  <2> SUFFICES ASSUME Typed, Grounded, [Next]_vars PROVE Grounded'
    OBVIOUS
  <2>1. CASE OthersStep
    BY <2>1, OthersMeanwhile, OthersGrounded
  <2>2. CASE Begin
    BY <2>2, BeginPc DEF Begin, Grounded, Undisturbed, Unchanged, Requests
  <2>3. CASE Verify
    BY <2>3, FilesGrounded, GuildGrounded, ListsGrounded DEF Verify
  <2>4. CASE ReadIsDisturbed
    BY <2>4, RefusedGrounded DEF ReadIsDisturbed, Grounded
  <2>5. CASE RequestFails
    BY <2>5, RequestFailsPc DEF RequestFails, Grounded, Unchanged
  <2>6. CASE CheckStep
    BY <2>6, CheckStepEnds DEF Grounded
  <2>7. CASE UNCHANGED vars
    BY <2>7 DEF Grounded, Undisturbed, Unchanged, Clean, Stored, Listed, vars,
       discordVars, hostVars, history
  <2>8. QED
    BY <2>1, <2>2, <2>3, <2>4, <2>5, <2>6, <2>7, Steps
<1>3. QED
  BY <1>1, <1>2, TypedInvariant, PTL DEF Spec

\* A verification refuses only for a cause: unless a request failed or
\* something changed while it read, there was something to object to.
THEOREM RefusalsHaveCauses == Spec => []RefusalHasCause
<1>1. Grounded => RefusalHasCause
  BY DEF Grounded, Undisturbed, RefusalHasCause
<1>2. QED
  BY <1>1, GroundedInvariant, PTL

\* The guild that was pieced together from four answers grants the bot and
\* @everyone what the policy demands and no more, unless somebody changed it
\* between the answers.
THEOREM PassesAreLeastPrivilege == Spec => []PassIsLeastPrivilege
<1>1. Grounded => PassIsLeastPrivilege
  BY DEF Grounded, Unchanged, PassIsLeastPrivilege
<1>2. QED
  BY <1>1, GroundedInvariant, PTL

-----------------------------------------------------------------------------
(* The connection of the Codex bridge, and its readiness *)

CONSTANTS
  Trust,      \* config.channel_trust
  MaxChanges  \* bound: changes of the guild

VARIABLES sent, link, resumes, got, checks, watch, ready, settled, changes

Bridge == INSTANCE PostureWatch WITH check <- checks


\* The dispatcher has an event in its hands, and the queue is the connection's.
BridgeTyped ==
  /\ Bridge!TypeOK
  /\ Bridge!Runs("dispatcher") => got > 0
  /\ link # "open" => got = 0
  /\ Bridge!Runs("startup") => link = "starting"

\* The queue without RESUMED is a queue.
LEMMA RestIsQueue ==
  ASSUME sent \in Seq(Bridge!Events)
  PROVE  Bridge!WithoutResumed \in Seq(Bridge!Events)
<1> DEFINE resumed == {i \in 1..Len(sent) : sent[i] = "RESUMED"}
           at == CHOOSE i \in resumed : TRUE
<1>1. CASE resumed = {}
  BY <1>1 DEF Bridge!WithoutResumed
<1>2. CASE resumed # {}
  <2>1. at \in 1..Len(sent)
    BY <1>2
  <2> HIDE DEF at
  <2>2. /\ SubSeq(sent, 1, at - 1) \in Seq(Bridge!Events)
        /\ SubSeq(sent, at + 1, Len(sent)) \in Seq(Bridge!Events)
    BY <2>1
  <2>3. SubSeq(sent, 1, at - 1) \o SubSeq(sent, at + 1, Len(sent))
          \in Seq(Bridge!Events)
    BY <2>2
  <2>4. QED
    BY <1>2, <2>3 DEF Bridge!WithoutResumed, at
<1>3. QED
  BY <1>1, <1>2

\* What the dispatcher's end of an event does to the queue.
LEMMA RestOfQueue ==
  ASSUME sent \in Seq(Bridge!Events), got \in Nat, got > 0, got <= Len(sent)
  PROVE  /\ Tail(sent) \in Seq(Bridge!Events)
         /\ Len(Tail(sent)) = Len(sent) - 1
         /\ got - 1 \in Nat
         /\ got - 1 <= Len(Tail(sent))
BY Z3

\* Every variable of PostureWatch keeps its type.
THEOREM BridgeTyping == Bridge!Spec => []Bridge!TypeOK
<1> USE DEF BridgeTyped, Bridge!TypeOK, Bridge!Runs
<1>1. /\ <<>> \in Seq(Bridge!Events) /\ Len(<<>>) = 0
      /\ <<"READY">> \in Seq(Bridge!Events) /\ Len(<<"READY">>) = 1
      /\ {"VERIFY_PERMISSIONS", "RESUMED", "MESSAGE_CREATE"}
           \subseteq Bridge!Events
  BY DEF Bridge!Events, Bridge!Rechecked
<1>2. /\ Bridge!Idle \in [Bridge!Checkers -> {"idle", "steady", "shaken"}]
      /\ Bridge!Idle["dispatcher"] = "idle" /\ Bridge!Idle["startup"] = "idle"
  BY DEF Bridge!Idle, Bridge!Checkers
<1>3. Bridge!Init => BridgeTyped
  <2> SUFFICES ASSUME Bridge!Init PROVE BridgeTyped
    OBVIOUS
  <2>1. sent \in Seq(Bridge!Events) /\ got <= Len(sent) /\ got \in Nat
    BY <1>1 DEF Bridge!Init
  <2>2. checks \in [Bridge!Checkers -> {"idle", "steady", "shaken"}]
        /\ ~Bridge!Runs("dispatcher") /\ ~Bridge!Runs("startup")
    BY <1>2 DEF Bridge!Init
  <2>3. QED
    BY <2>1, <2>2 DEF Bridge!Init
<1>4. BridgeTyped /\ [Bridge!Next]_Bridge!vars => BridgeTyped'
  <2> SUFFICES ASSUME BridgeTyped, [Bridge!Next]_Bridge!vars PROVE BridgeTyped'
    OBVIOUS
  <2>0. \A e \in Bridge!Events : /\ Append(sent, e) \in Seq(Bridge!Events)
                          /\ Len(Append(sent, e)) = Len(sent) + 1
    OBVIOUS
  <2>1. CASE UNCHANGED Bridge!vars
    BY <2>1 DEF Bridge!vars
  <2>2. ASSUME NEW g \in DOMAIN Config, Bridge!Reconfigure(g) PROVE BridgeTyped'
    <3>1. sent' \in Seq(Bridge!Events) /\ got' \in Nat /\ got' <= Len(sent')
      BY <2>2, <2>0, <1>1 DEF Bridge!Reconfigure
    <3>2. checks' \in [Bridge!Checkers -> {"idle", "steady", "shaken"}]
          /\ (Bridge!Runs("dispatcher")' => got' > 0)
          /\ (Bridge!Runs("startup")' => link' = "starting")
      BY <2>2 DEF Bridge!Reconfigure, Bridge!Checkers
    <3>3. guild' \in DOMAIN Config /\ settled' \in BOOLEAN
      BY <2>2, Zenon DEF Bridge!Reconfigure
    <3>4. changes' \in Nat
      <4>1. changes' = changes + 1
        BY <2>2 DEF Bridge!Reconfigure
      <4>2. QED
        BY <4>1
    <3>5. UNCHANGED <<link, resumes, got, watch, ready>>
      BY <2>2 DEF Bridge!Reconfigure
    <3>6. Bridge!TypeOK'
      BY <3>1, <3>2, <3>3, <3>4, <3>5
    <3>7. QED
      BY <3>2, <3>5, <3>6
  <2>3. CASE Bridge!Post
    BY <2>3, <2>0, <1>1 DEF Bridge!Post
  <2>4. CASE Bridge!Launch
    BY <2>4 DEF Bridge!Launch, Bridge!Checkers
  <2>5. CASE Bridge!Started
    BY <2>5, <1>2 DEF Bridge!Started, Bridge!MayPass
  <2>6. CASE Bridge!Refuse
    <3>1. sent' \in Seq(Bridge!Events) /\ got' \in Nat /\ got' <= Len(sent')
      BY <2>6, <1>1 DEF Bridge!Refuse
    <3>2. checks' \in [Bridge!Checkers -> {"idle", "steady", "shaken"}]
          /\ (Bridge!Runs("dispatcher")' => got' > 0)
          /\ (Bridge!Runs("startup")' => link' = "starting")
      BY <2>6, <1>2 DEF Bridge!Refuse
    <3>3. QED
      BY <3>1, <3>2, <2>6 DEF Bridge!Refuse
  <2>7. CASE Bridge!Connect
    <3>1. sent' \in Seq(Bridge!Events) /\ got' \in Nat /\ got' <= Len(sent')
      BY <2>7, <2>0, <1>1 DEF Bridge!Connect
    <3>2. checks' \in [Bridge!Checkers -> {"idle", "steady", "shaken"}]
          /\ (Bridge!Runs("dispatcher")' => got' > 0)
          /\ (Bridge!Runs("startup")' => link' = "starting")
      BY <2>7 DEF Bridge!Connect
    <3>3. QED
      BY <3>1, <3>2, <2>7 DEF Bridge!Connect
  <2>8. CASE Bridge!Receive
    BY <2>8 DEF Bridge!Receive
  <2>9. CASE Bridge!Take
    BY <2>9 DEF Bridge!Take, Bridge!Checkers
  <2>10. CASE Bridge!Verified
    <3>1. Bridge!Runs("dispatcher")
      BY <2>10 DEF Bridge!Verified, Bridge!MayPass
    <3>2. QED
      BY <3>1, <2>10, RestOfQueue DEF Bridge!Verified, Bridge!Processed,
         Bridge!Checkers
  <2>11. CASE Bridge!HandleMessage
    BY <2>11, RestOfQueue DEF Bridge!HandleMessage, Bridge!Processed
  <2>12. CASE Bridge!WatchFires
    BY <2>12 DEF Bridge!WatchFires, Bridge!Checkers
  <2>13. CASE Bridge!WatchPasses
    BY <2>13 DEF Bridge!WatchPasses, Bridge!Checkers
  <2>14. CASE Bridge!Drop
    <3>1. sent' \in Seq(Bridge!Events) /\ got' \in Nat /\ got' <= Len(sent')
      BY <2>14, RestIsQueue, <1>1 DEF Bridge!Drop
    <3>2. checks' \in [Bridge!Checkers -> {"idle", "steady", "shaken"}]
          /\ (Bridge!Runs("dispatcher")' => got' > 0)
          /\ (Bridge!Runs("startup")' => link' = "starting")
      BY <2>14, <1>2 DEF Bridge!Drop
    <3>3. QED
      BY <3>1, <3>2, <2>14 DEF Bridge!Drop
  <2>15. QED
    BY <2>1, <2>2, <2>3, <2>4, <2>5, <2>6, <2>7, <2>8, <2>9, <2>10, <2>11,
       <2>12, <2>13, <2>14 DEF Bridge!Next, Bridge!Proceed, Bridge!Timer
<1>5. QED
  BY <1>3, <1>4, PTL DEF Bridge!Spec

-----------------------------------------------------------------------------
(* BridgeReadiness *)

\* A verification whose guild changed under it was overtaken in this
\* connection, as no verification outlives one.
Earned ==
  /\ Bridge!ReadyIsEarned
  /\ checks \in [Bridge!Checkers -> {"idle", "steady", "shaken"}]
  /\ Bridge!Runs("startup") => link = "starting"
  /\ Bridge!Runs("dispatcher") \/ Bridge!Runs("watch")
       \/ ready \/ watch \/ got # 0
       => link = "open"
  /\ settled /\ link = "open" =>
       checks["dispatcher"] # "shaken" /\ checks["watch"] # "shaken"

\* A ready bridge stands on a verification of its own connection, for any
\* number of lost connections, resumed sessions, changes and restarts.
THEOREM BridgeReadiness == Bridge!Spec => []Bridge!ReadyIsEarned
<1> USE DEF Earned, Bridge!ReadyIsEarned, Bridge!Runs, Bridge!Checkers
<1>1. Bridge!Init => Earned
  BY DEF Bridge!Init, Bridge!Idle
<1>2. Bridge!TypeOK /\ Earned /\ [Bridge!Next]_Bridge!vars => Earned'
  <2> SUFFICES ASSUME Bridge!TypeOK, Earned, [Bridge!Next]_Bridge!vars
               PROVE  Earned'
    OBVIOUS
  <2>0. got \in Nat
    BY DEF Bridge!TypeOK
  <2>1. CASE UNCHANGED Bridge!vars
    BY <2>1 DEF Bridge!vars, Bridge!Acceptable
  <2>2. ASSUME NEW g \in DOMAIN Config, Bridge!Reconfigure(g) PROVE Earned'
    BY <2>2 DEF Bridge!Reconfigure
  <2>3. CASE Bridge!Post
    BY <2>3 DEF Bridge!Post
  <2>4. CASE Bridge!Launch
    BY <2>4 DEF Bridge!Launch
  <2>5. CASE Bridge!Started
    BY <2>5 DEF Bridge!Started, Bridge!MayPass, Bridge!Idle
  <2>6. CASE Bridge!Refuse
    BY <2>6 DEF Bridge!Refuse, Bridge!Idle
  <2>7. CASE Bridge!Connect
    BY <2>7 DEF Bridge!Connect
  <2>8. CASE Bridge!Receive
    BY <2>8 DEF Bridge!Receive
  <2>9. CASE Bridge!Take
    BY <2>9, <2>0 DEF Bridge!Take
  <2>10. CASE Bridge!Verified
    BY <2>10, <2>0 DEF Bridge!Verified, Bridge!Processed, Bridge!MayPass
  <2>11. CASE Bridge!HandleMessage
    BY <2>11, <2>0 DEF Bridge!HandleMessage, Bridge!Processed
  <2>12. CASE Bridge!WatchFires
    BY <2>12 DEF Bridge!WatchFires
  <2>13. CASE Bridge!WatchPasses
    BY <2>13 DEF Bridge!WatchPasses
  <2>14. CASE Bridge!Drop
    BY <2>14 DEF Bridge!Drop, Bridge!Idle
  <2>15. QED
    BY <2>1, <2>2, <2>3, <2>4, <2>5, <2>6, <2>7, <2>8, <2>9, <2>10, <2>11,
       <2>12, <2>13, <2>14 DEF Bridge!Next, Bridge!Proceed, Bridge!Timer
<1>3. Earned => Bridge!ReadyIsEarned
  OBVIOUS
<1>4. QED
  BY <1>1, <1>2, <1>3, BridgeTyping, PTL DEF Bridge!Spec

=============================================================================
