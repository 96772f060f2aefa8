---------------------------- MODULE PostureWatch ----------------------------
(***************************************************************************)
(* When the Codex bridge verifies its Discord posture: before it connects, *)
(* at READY, at RESUMED, after each security event, and by a timer of each *)
(* connection (main.py run, discord_io.py receive_forever).                *)
(*                                                                         *)
(* Discord keeps the events that the bridge has not processed, and replays *)
(* them when the session is resumed.  A verification makes several         *)
(* requests: what it finds is certain only if nobody changed the guild     *)
(* meanwhile.  What a message or READY does to the job store is modelled   *)
(* in CodexIngress.                                                        *)
(***************************************************************************)
EXTENDS DiscordPermissions, Naturals, Sequences

CONSTANTS
  Config,     \* the configurations of the guild that occur, by their name
  Trust,      \* config.channel_trust
  MaxEvents,  \* bound: events of a session that are not processed
  MaxChanges  \* bound: changes of the guild

VARIABLES
  guild,    \* Discord: the configuration of roles, members and overwrites
  sent,     \* Discord: the session's events that are not processed, in order
  link,     \* "off", "starting", "waiting" to connect, or "open"
  resumes,  \* a processed event of the session is known
  got,      \* how many of sent are in dispatch_queue
  check,    \* the verifications: "idle", or whether the guild is unchanged
            \*   since this one began ("steady") or not ("shaken")
  watch,    \* the connection's timer is set
  ready,    \* ready_event
  settled,  \* the guild is unchanged since this connection (history)
  changes   \* how much of the bound is used

vars == <<guild, sent, link, resumes, got, check, watch, ready, settled,
          changes>>

Checkers == {"startup", "dispatcher", "watch"}
Idle == [c \in Checkers |-> "idle"]
Rechecked == {"READY", "RESUMED", "VERIFY_PERMISSIONS"}
Events == Rechecked \cup {"MESSAGE_CREATE"}
Acceptable == {g \in DOMAIN Config : BridgeAccepts(Config[g], Trust)}

Init ==
  /\ guild \in DOMAIN Config
  /\ sent = <<>>
  /\ link = "off"
  /\ resumes = FALSE
  /\ got = 0
  /\ check = Idle
  /\ watch = FALSE
  /\ ready = FALSE
  /\ settled = FALSE
  /\ changes = 0

-----------------------------------------------------------------------------
(* Discord *)

\* There is a session that Discord keeps events for.
InSession == link = "open" \/ resumes

Reconfigure(g) ==
  /\ changes < MaxChanges
  /\ g # guild
  /\ InSession => Len(sent) < MaxEvents
  /\ guild' = g
  /\ sent' = IF InSession THEN Append(sent, "VERIFY_PERMISSIONS") ELSE sent
  /\ check' = [c \in Checkers |->
                 IF check[c] = "idle" THEN "idle" ELSE "shaken"]
  /\ settled' = FALSE
  /\ changes' = changes + 1
  /\ UNCHANGED <<link, resumes, got, watch, ready>>

Post ==
  /\ InSession
  /\ Len(sent) < MaxEvents
  /\ sent' = Append(sent, "MESSAGE_CREATE")
  /\ UNCHANGED <<guild, link, resumes, got, check, watch, ready, settled,
                 changes>>

-----------------------------------------------------------------------------
(* The service *)

\* A verification of the guild passes or fails; what it finds is the guild's
\* state if that did not change.
MayPass(c) ==
  \/ check[c] = "shaken"
  \/ check[c] = "steady" /\ guild \in Acceptable

Runs(c) == check[c] # "idle"

Launch ==
  /\ link = "off"
  /\ link' = "starting"
  /\ check' = [check EXCEPT !["startup"] = "steady"]
  /\ UNCHANGED <<guild, sent, resumes, got, watch, ready, settled, changes>>

Started ==
  /\ MayPass("startup")
  /\ link' = "waiting"
  /\ check' = Idle
  /\ UNCHANGED <<guild, sent, resumes, got, watch, ready, settled, changes>>

\* Any verification that fails, for whatever reason, ends the service; the
\* session is known to this process only.
Refuse ==
  /\ \E c \in Checkers : Runs(c)
  /\ link' = "off"
  /\ sent' = <<>>
  /\ resumes' = FALSE
  /\ got' = 0
  /\ check' = Idle
  /\ watch' = FALSE
  /\ ready' = FALSE
  /\ UNCHANGED <<guild, settled, changes>>

-----------------------------------------------------------------------------
(* receive_forever *)

\* Discord answers RESUME with the events that are left and RESUMED, and
\* IDENTIFY with READY.
Connect ==
  /\ link = "waiting"
  /\ link' = "open"
  /\ sent' = IF resumes THEN Append(sent, "RESUMED") ELSE <<"READY">>
  /\ settled' = TRUE
  /\ UNCHANGED <<guild, resumes, got, check, watch, ready, changes>>

\* READY sets the timer.
Receive ==
  /\ link = "open"
  /\ got < Len(sent)
  /\ got' = got + 1
  /\ watch' = (watch \/ sent[got + 1] = "READY")
  /\ UNCHANGED <<guild, sent, link, resumes, check, ready, settled, changes>>

\* process_dispatches takes an event that asks for a verification ...
Take ==
  /\ got > 0
  /\ ~Runs("dispatcher")
  /\ Head(sent) \in Rechecked
  /\ check' = [check EXCEPT !["dispatcher"] = "steady"]
  /\ UNCHANGED <<guild, sent, link, resumes, got, watch, ready, settled,
                 changes>>

Processed ==
  /\ sent' = Tail(sent)
  /\ got' = got - 1
  /\ resumes' = TRUE

Verified ==
  /\ MayPass("dispatcher")
  /\ Processed
  /\ ready' = (ready \/ Head(sent) \in {"READY", "RESUMED"})
  /\ check' = [check EXCEPT !["dispatcher"] = "idle"]
  /\ UNCHANGED <<guild, link, watch, settled, changes>>

\* ... or a message.
HandleMessage ==
  /\ got > 0
  /\ ~Runs("dispatcher")
  /\ Head(sent) = "MESSAGE_CREATE"
  /\ Processed
  /\ UNCHANGED <<guild, link, check, watch, ready, settled, changes>>

WatchFires ==
  /\ watch
  /\ ~Runs("watch")
  /\ check' = [check EXCEPT !["watch"] = "steady"]
  /\ UNCHANGED <<guild, sent, link, resumes, got, watch, ready, settled,
                 changes>>

WatchPasses ==
  /\ MayPass("watch")
  /\ check' = [check EXCEPT !["watch"] = "idle"]
  /\ UNCHANGED <<guild, sent, link, resumes, got, watch, ready, settled,
                 changes>>

\* RESUMED belongs to the connection.
WithoutResumed ==
  LET resumed == {i \in 1..Len(sent) : sent[i] = "RESUMED"}
      at == CHOOSE i \in resumed : TRUE
  IN  IF resumed = {} THEN sent
      ELSE SubSeq(sent, 1, at - 1) \o SubSeq(sent, at + 1, Len(sent))

\* The connection ends, with its tasks and its queue; Discord may also forget
\* the session (opcode 9, some close codes).
Drop ==
  /\ link = "open"
  /\ link' = "waiting"
  /\ resumes' \in {FALSE, resumes}
  /\ sent' = IF resumes' THEN WithoutResumed ELSE <<>>
  /\ got' = 0
  /\ check' = Idle
  /\ watch' = FALSE
  /\ ready' = FALSE
  /\ UNCHANGED <<guild, settled, changes>>

-----------------------------------------------------------------------------
Proceed ==
  \/ Launch \/ Started \/ Connect \/ Receive \/ Take \/ Verified
  \/ HandleMessage

Timer == WatchFires \/ WatchPasses

Next ==
  \/ \E g \in DOMAIN Config : Reconfigure(g)
  \/ Post \/ Proceed \/ Timer \/ Refuse \/ Drop

Spec == Init /\ [][Next]_vars

\* The event loop gets on with what it can do, and the timer with its own.
FairSpec == Spec /\ WF_vars(Proceed) /\ WF_vars(Timer)

-----------------------------------------------------------------------------
(* Properties *)

\* Every variable keeps its type.
TypeOK ==
  /\ guild \in DOMAIN Config
  /\ sent \in Seq(Events)
  /\ link \in {"off", "starting", "waiting", "open"}
  /\ got \in Nat /\ got <= Len(sent)
  /\ check \in [Checkers -> {"idle", "steady", "shaken"}]
  /\ resumes \in BOOLEAN
  /\ watch \in BOOLEAN
  /\ ready \in BOOLEAN
  /\ settled \in BOOLEAN
  /\ changes \in Nat

\* A ready bridge stands on a verification of its own connection: if the
\* guild is as it was when the bridge connected, the guild is acceptable.
ReadyIsEarned == ready /\ settled => guild \in Acceptable

\* While it is ready, the bridge verifies its posture again and again, as
\* docs/ARCHITECTURE.md says: "at READY, at RESUMED, and every 300 seconds".
\* A resumed connection never sets the timer.
VerifiesAgain == []<>(~ready \/ \E c \in Checkers : Runs(c))

=============================================================================
