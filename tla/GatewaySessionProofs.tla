------------------------ MODULE GatewaySessionProofs ------------------------
(***************************************************************************)
(* Proofs about GatewaySession, for any number of clicks, sessions, faults *)
(* and any limits: its typing, that no checkpoint passes a click that is   *)
(* not in the inbox, that a refused session never serves a click, and that *)
(* a handled click stays handled; and that the budget of IDENTIFY          *)
(* operations is kept and its waits are exact.                             *)
(*                                                                         *)
(* The argument: a checkpoint of the present session names a prefix of its *)
(* events whose clicks are in the inbox (Durable), and notes that the      *)
(* guild is there whenever the events up to it say so (Up); the connected  *)
(* client stands right behind its own checkpoint; a click is only posted   *)
(* where the guild is there, so that the client does not deny it.          *)
(***************************************************************************)
EXTENDS GatewaySession, FiniteSetTheorems, SequenceTheorems, WellFoundedInduction, TLAPS

Events ==
  {Ready(exact) : exact \in BOOLEAN} \union {GuildCreate, GuildDelete}
    \union {Interaction(c) : c \in Clicks \union Strays}

RowStates == {"absent", "received", "pending", "processing", "done"}
ConnStates == {"down", "resuming", "waiting", "live", "enqueued", "acknowledged", "ready"}

InClick == conn \in {"enqueued", "acknowledged", "ready"}
Connected == conn = "live" \/ InClick

\* The guild is there after the first n events.
Up(n) ==
  \E i \in 1 .. n :
    /\ session.log[i].type \in {"READY", "GUILD_CREATE"}
    /\ \A j \in i + 1 .. n : session.log[j].type = "INTERACTION_CREATE"

\* The owner's clicks among the first n events are in the inbox.
Durable(n) ==
  \A i \in 1 .. n, c \in Clicks : session.log[i] = Interaction(c) => inbox[c] # "absent"

Typed ==
  /\ clock \in 0 .. MaxTime /\ faults \in 0 .. MaxFaults
  /\ disk \in States /\ mem \in States
  /\ conn \in ConnStates
  /\ session \in [id : 0 .. MaxSessions, log : Seq(Events), alive : BOOLEAN]
  /\ pos \in 0 .. Len(session.log) + 1
  /\ inbox \in [Clicks -> RowStates]

InboxIsBounded == Cardinality(Active) <= Cap

SleepTyped == sleep \in [at : Nat, until : Nat, reason : {"none", "budget", "outage"}]

LogFollows ==
  /\ \A i \in 1 .. Len(session.log) : session.log[i].type = "READY" <=> i = 1
  /\ \A i \in 1 .. Len(session.log), c \in Clicks :
       session.log[i] = Interaction(c) => Up(i - 1)

LogIsOpen == session.id = 0 => session.log = <<>>

\* What a checkpoint says about the present session.
Follows(s) ==
  /\ s.id <= session.id
  /\ s.id = session.id /\ s.seq > 0 =>
       /\ s.seq <= Len(session.log)
       /\ Durable(s.seq)
       /\ Up(s.seq) => s.guild
       /\ session.log[1].exact

ConnFollows ==
  /\ conn = "waiting" => mem = NoState
  /\ Connected => pos > 0 /\ session.id > 0
  /\ Connected /\ pos = 1 => mem = NoState
  /\ Connected /\ pos > 1 => mem.id = session.id /\ mem.seq = pos - 1
  /\ InClick =>
       /\ pos > 1 /\ pos <= Len(session.log)
       /\ \E c \in Clicks : session.log[pos] = Interaction(c) /\ inbox[c] # "absent"

Inv ==
  /\ Typed /\ InboxIsBounded
  /\ LogIsOpen /\ LogFollows /\ Follows(mem) /\ Follows(disk) /\ ConnFollows
  /\ SessionIsVerified

-----------------------------------------------------------------------------
(* Events *)

LEMMA EventFacts ==
  ASSUME NEW e \in Events
  PROVE  /\ e.type \in {"READY", "GUILD_CREATE", "GUILD_DELETE", "INTERACTION_CREATE"}
         /\ e.type = "INTERACTION_CREATE" =>
              e.click \in Clicks \union Strays /\ e = Interaction(e.click)
BY DEF Events, Ready, GuildCreate, GuildDelete, Interaction

LEMMA InteractionFacts ==
  ASSUME NEW c, NEW d
  PROVE  /\ Interaction(c).type = "INTERACTION_CREATE" /\ Interaction(c).click = c
         /\ Interaction(c) = Interaction(d) => c = d
BY DEF Interaction

\* Typing alone, as the module states it.
LEMMA TypesOK == Typed /\ InboxIsBounded /\ SleepTyped => TypeOK
BY DEF Typed, InboxIsBounded, SleepTyped, TypeOK, RowStates, ConnStates
-----------------------------------------------------------------------------
(* Steps that leave a part of the state alone *)

\* Up and Durable look at the events and the inbox only.
LEMMA PrefixesStay ==
  ASSUME UNCHANGED session, NEW n
  PROVE  /\ Up(n)' <=> Up(n)
         /\ (\A c \in Clicks : inbox[c] # "absent" => inbox'[c] # "absent") =>
              (Durable(n) => Durable(n)')
BY DEF Up, Durable

LEMMA LogStays ==
  ASSUME LogFollows, UNCHANGED session
  PROVE  LogFollows'
BY PrefixesStay DEF LogFollows

\* A checkpoint that does not change.
LEMMA FollowsStays ==
  ASSUME NEW s, Follows(s), UNCHANGED session,
         \A c \in Clicks : inbox[c] # "absent" => inbox'[c] # "absent"
  PROVE  s.id <= session'.id /\
         (s.id = session'.id /\ s.seq > 0 =>
           /\ s.seq <= Len(session'.log) /\ Durable(s.seq)' /\ (Up(s.seq)' => s.guild)
           /\ session'.log[1].exact)
BY PrefixesStay DEF Follows

\* A step after which the client is down, or as it was, and only the inbox has
\* gone on.
LEMMA InboxSteps ==
  ASSUME Inv, UNCHANGED <<session, mem, disk, pos>>,
         conn' = conn \/ conn' = "down",
         \A c \in Clicks : inbox[c] # "absent" <=> inbox'[c] # "absent"
  PROVE  LogFollows' /\ Follows(mem)' /\ Follows(disk)' /\ ConnFollows' /\ SessionIsVerified'
<1>1. LogFollows'
  BY LogStays DEF Inv
<1>2. Follows(mem)' /\ Follows(disk)'
  BY FollowsStays DEF Inv, Follows
<1>3. ConnFollows'
  BY DEF Inv, ConnFollows, Connected, InClick
<1>4. SessionIsVerified'
  BY DEF Inv, SessionIsVerified, Clicked
<1>. QED BY <1>1, <1>2, <1>3, <1>4

\* The checkpoint moves past an event that is dealt with.
LEMMA CommitKeeps ==
  ASSUME Inv, Connected, pos \in DOMAIN session.log, UNCHANGED <<session, inbox>>,
         NEW m \in States, Commit(m), m.id = session.id,
         Durable(pos), Up(pos) => m.guild, session.log[1].exact,
         UNCHANGED <<clock, faults>> 
  PROVE  Inv'
<1>1. /\ mem' = [m EXCEPT !.seq = pos] /\ disk' = mem' /\ pos' = pos + 1 /\ conn' = "live"
  BY DEF Commit
<1>2. pos \in Nat /\ pos > 0 /\ pos <= Len(session.log) /\ session.id > 0
  BY DEF Inv, Typed, ConnFollows
<1>3. /\ mem' \in States /\ mem'.id = m.id /\ mem'.seq = pos /\ mem'.guild = m.guild
  BY <1>1, <1>2 DEF States
<1>4. Typed' /\ InboxIsBounded'
  BY <1>1, <1>2, <1>3 DEF Inv, Typed, InboxIsBounded, Active, ConnStates
<1>5. LogFollows'
  BY LogStays DEF Inv
<1>6. Follows(mem)' /\ Follows(disk)'
  <2>1. PICK n : n = pos
    OBVIOUS
  <2>2. Durable(n)' /\ (Up(n)' => m.guild)
    BY <2>1, PrefixesStay
  <2>3. mem'.seq = n /\ n <= Len(session'.log)
    BY <1>2, <1>3, <2>1
  <2>4. session'.id \in Nat /\ session'.id = m.id /\ session'.log[1].exact
    BY DEF Inv, Typed
  <2>5. Follows(mem)'
    BY <1>3, <2>2, <2>3, <2>4 DEF Follows, Durable, Up
  <2>. QED BY <1>1, <2>5 DEF Follows, Durable, Up
<1>7. ConnFollows'
  BY <1>1, <1>2, <1>3 DEF ConnFollows, Connected, InClick
<1>8. SessionIsVerified'
  BY DEF Inv, SessionIsVerified, Clicked
<1>. QED BY <1>4, <1>5, <1>6, <1>7, <1>8 DEF Inv, LogIsOpen

\* The state that the client has where it stands.
LEMMA Standing ==
  ASSUME Inv, Connected, pos \in DOMAIN session.log
  PROVE  /\ pos \in Nat \ {0} /\ pos <= Len(session.log) /\ session.log[pos] \in Events
         /\ pos = 1 => session.log[pos].type = "READY" /\ mem = NoState
         /\ pos > 1 =>
              /\ session.log[pos].type # "READY"
              /\ mem.id = session.id /\ Durable(pos - 1) /\ (Up(pos - 1) => mem.guild)
              /\ session.log[1].exact
<1>1. pos \in Nat \ {0} /\ pos <= Len(session.log) /\ session.log[pos] \in Events
  BY DEF Inv, Typed, ConnFollows
<1>2. session.log[pos].type = "READY" <=> pos = 1
  BY <1>1 DEF Inv, LogFollows
<1>3. CASE pos = 1
  BY <1>1, <1>2, <1>3 DEF Inv, ConnFollows
<1>4. CASE pos > 1
  <2>1. mem.id = session.id /\ mem.seq = pos - 1 /\ mem.seq > 0
    BY <1>1, <1>4 DEF Inv, ConnFollows
  <2>. QED BY <1>1, <1>2, <1>4, <2>1 DEF Inv, Follows
<1>. QED BY <1>1, <1>3, <1>4
-----------------------------------------------------------------------------
(* The client's session *)

LEMMA ConnectKeeps ==
  ASSUME Inv, Connect
  PROVE  Inv'
<1>1. /\ conn = "down" /\ conn' \in {"resuming", "waiting"}
      /\ mem' = mem \/ mem' = NoState
      /\ conn' = "waiting" => mem' = NoState
      /\ UNCHANGED <<clock, disk, pos, session, inbox, faults>>
  BY DEF Connect
<1>2. NoState \in States /\ NoState.seq = 0 /\ NoState.id = 0
  BY GatewayAssumption DEF NoState, States
<1>3. Typed' /\ InboxIsBounded'
  BY <1>1, <1>2 DEF Inv, Typed, InboxIsBounded, Active, ConnStates
<1>4. LogFollows' /\ Follows(disk)' /\ SessionIsVerified' /\ LogIsOpen'
  BY <1>1, LogStays, FollowsStays DEF Inv, Follows, SessionIsVerified, Clicked, LogIsOpen
<1>5. Follows(mem)'
  <2>1. CASE mem' = mem
    BY <1>1, <2>1, FollowsStays DEF Inv, Follows
  <2>2. CASE mem' = NoState
    BY <1>1, <1>2, <2>2 DEF Inv, Typed, Follows
  <2>. QED BY <1>1, <2>1, <2>2
<1>6. ConnFollows'
  BY <1>1 DEF ConnFollows, Connected, InClick
<1>. QED BY <1>3, <1>4, <1>5, <1>6 DEF Inv

LEMMA ResumeKeeps ==
  ASSUME Inv, Resume
  PROVE  Inv'
<1>1. /\ conn = "resuming" /\ mem.id = session.id /\ mem.seq > 0
      /\ conn' = "live" /\ pos' = mem.seq + 1
      /\ UNCHANGED <<clock, disk, mem, session, inbox, faults>>
  BY DEF Resume
<1>2. /\ mem.seq \in Nat /\ mem.seq <= Len(session.log) /\ Len(session.log) \in Nat
      /\ session.id \in Nat
  BY <1>1 DEF Inv, Typed, States, Follows
<1>3. session.id > 0
  BY <1>1, <1>2 DEF Inv, LogIsOpen
<1>4. Typed' /\ InboxIsBounded'
  BY <1>1, <1>2 DEF Inv, Typed, InboxIsBounded, Active, ConnStates
<1>5. LogFollows' /\ Follows(disk)' /\ Follows(mem)' /\ SessionIsVerified' /\ LogIsOpen'
  BY <1>1, LogStays, FollowsStays DEF Inv, Follows, SessionIsVerified, Clicked, LogIsOpen
<1>6. ConnFollows'
  BY <1>1, <1>2, <1>3 DEF ConnFollows, Connected, InClick
<1>. QED BY <1>4, <1>5, <1>6 DEF Inv

LEMMA InvalidSessionKeeps ==
  ASSUME Inv, InvalidSession
  PROVE  Inv'
<1>1. /\ mem' = [mem EXCEPT !.id = 0, !.seq = 0] /\ disk' = mem' /\ conn' = "down"
      /\ UNCHANGED <<clock, pos, session, inbox, faults>>
  BY DEF InvalidSession
<1>2. mem' \in States /\ mem'.seq = 0 /\ mem'.id = 0
  <2>1. 0 \in 0 .. MaxSessions
    BY GatewayAssumption
  <2>2. mem \in States
    BY DEF Inv, Typed
  <2>. QED BY <1>1, <2>1, <2>2 DEF States
<1>3. Typed' /\ InboxIsBounded'
  BY <1>1, <1>2 DEF Inv, Typed, InboxIsBounded, Active, ConnStates
<1>4. LogFollows' /\ SessionIsVerified' /\ LogIsOpen'
  BY <1>1, LogStays DEF Inv, SessionIsVerified, Clicked, LogIsOpen
<1>5. Follows(mem)' /\ Follows(disk)'
  BY <1>1, <1>2 DEF Inv, Typed, Follows
<1>6. ConnFollows'
  BY <1>1 DEF ConnFollows, Connected, InClick
<1>. QED BY <1>3, <1>4, <1>5, <1>6 DEF Inv

LEMMA IdentifyKeeps ==
  ASSUME Inv, NEW exact \in BOOLEAN, Identify(exact)
  PROVE  Inv'
<1>1. /\ conn = "waiting" /\ session.id < MaxSessions
      /\ session' = [id |-> session.id + 1, log |-> <<Ready(exact)>>, alive |-> TRUE]
      /\ conn' = "live" /\ pos' = 1
      /\ UNCHANGED <<clock, disk, mem, inbox, faults>>
  BY DEF Identify, Asks
<1>2. Ready(exact) \in Events /\ Ready(exact).type = "READY"
  BY DEF Events, Ready
<1>3. /\ session'.log \in Seq(Events) /\ Len(session'.log) = 1
      /\ session'.log[1] = Ready(exact)
      /\ session'.id = session.id + 1 /\ session.id + 1 \in 0 .. MaxSessions
      /\ session' \in [id : 0 .. MaxSessions, log : Seq(Events), alive : BOOLEAN]
  BY <1>1, <1>2, GatewayAssumption DEF Inv, Typed
<1>4. Typed' /\ InboxIsBounded'
  BY <1>1, <1>3 DEF Inv, Typed, InboxIsBounded, Active, ConnStates
<1>5. \A c : session'.log[1] # Interaction(c)
  BY <1>2, <1>3, InteractionFacts
<1>6. LogFollows' /\ SessionIsVerified' /\ LogIsOpen'
  <2>1. \A i \in DOMAIN session'.log : i = 1
    BY <1>3
  <2>. QED BY <1>2, <1>3, <1>5, <2>1 DEF Inv, Typed, LogFollows, SessionIsVerified, Clicked, LogIsOpen
<1>7. Follows(mem)' /\ Follows(disk)'
  BY <1>1, <1>3 DEF Inv, Typed, States, Follows
<1>8. ConnFollows'
  BY <1>1, <1>3 DEF Inv, Typed, ConnFollows, Connected, InClick
<1>. QED BY <1>4, <1>6, <1>7, <1>8 DEF Inv

\* Steps that only touch the budget and the clock.
LEMMA BudgetKeeps ==
  ASSUME Inv, Refuse \/ Unavailable \/ Corrupt \/ Lose \/ Tick \/ UNCHANGED vars
  PROVE  Inv'
<1>1. /\ UNCHANGED <<disk, mem, conn, pos, session, inbox>>
      /\ clock' \in 0 .. MaxTime /\ faults' \in 0 .. MaxFaults
  BY GatewayAssumption DEF Refuse, Unavailable, Corrupt, Lose, Tick, vars, Fault, Inv, Typed
<1>2. Typed' /\ InboxIsBounded' /\ LogIsOpen'
  BY <1>1 DEF Inv, Typed, InboxIsBounded, Active, LogIsOpen
<1>. QED BY <1>1, <1>2, InboxSteps DEF Inv

\* The event at hand is no click of the owner's, or one whose row is there.
LEMMA EventIsDurable ==
  ASSUME Inv, Connected, pos \in DOMAIN session.log,
         \A c \in Clicks : session.log[pos] = Interaction(c) => inbox[c] # "absent"
  PROVE  Durable(pos)
<1>1. pos \in Nat \ {0} /\ (pos > 1 => Durable(pos - 1))
  BY Standing
<1>. QED BY <1>1 DEF Durable

\* An event that does not change whether the guild is there.
LEMMA UpStays ==
  ASSUME Inv, Connected, pos \in DOMAIN session.log,
         session.log[pos].type = "INTERACTION_CREATE", Up(pos)
  PROVE  pos > 1 /\ Up(pos - 1)
<1>1. pos \in Nat \ {0} /\ (pos = 1 => session.log[pos].type = "READY")
  BY Standing
<1>2. PICK i \in 1 .. pos :
        /\ session.log[i].type \in {"READY", "GUILD_CREATE"}
        /\ \A j \in i + 1 .. pos : session.log[j].type = "INTERACTION_CREATE"
  BY DEF Up
<1>3. i # pos
  BY <1>2
<1>. QED BY <1>1, <1>2, <1>3 DEF Up

LEMMA ReceiveReadyKeeps ==
  ASSUME Inv, ReceiveReady
  PROVE  Inv'
<1>1. /\ conn = "live" /\ Connected /\ pos \in DOMAIN session.log
      /\ session.log[pos].type = "READY"
      /\ UNCHANGED <<clock, session, inbox, faults>>
  BY DEF ReceiveReady, Receiving, Event, Connected
<1>2. pos = 1 /\ mem = NoState
  BY <1>1, Standing
<1> DEFINE noted == [mem EXCEPT !.id = session.id, !.guild = TRUE]
<1>3. noted \in States /\ noted.id = session.id /\ noted.guild /\ noted.seq = 0
  BY <1>2, GatewayAssumption DEF NoState, States, Inv, Typed
<1>4. CASE session.log[pos].exact
  <2>1. Commit(noted)
    BY <1>4 DEF ReceiveReady, Event
  <2>2. Durable(pos)
    BY <1>1, EventIsDurable, InteractionFacts
  <2>. HIDE DEF noted
  <2>. QED BY <1>1, <1>2, <1>3, <1>4, <2>1, <2>2, CommitKeeps
<1>5. CASE ~session.log[pos].exact
  <2>1. mem' = noted /\ conn' = "down" /\ UNCHANGED <<disk, pos>>
    BY <1>5 DEF ReceiveReady, Event
  <2>. HIDE DEF noted
  <2>2. Typed' /\ InboxIsBounded' /\ LogIsOpen'
    BY <1>1, <1>3, <2>1 DEF Inv, Typed, InboxIsBounded, Active, ConnStates, LogIsOpen
  <2>3. LogFollows' /\ SessionIsVerified' /\ Follows(disk)'
    BY <1>1, <2>1, LogStays, FollowsStays DEF Inv, Follows, SessionIsVerified, Clicked, LogIsOpen
  <2>4. Follows(mem)'
    BY <1>1, <1>3, <2>1 DEF Inv, Typed, Follows
  <2>5. ConnFollows'
    BY <2>1 DEF ConnFollows, Connected, InClick
  <2>. QED BY <2>2, <2>3, <2>4, <2>5 DEF Inv
<1>. QED BY <1>4, <1>5
\* Three receipts that leave the guild, or the event, as they are.
LEMMA ReceiveGuildKeeps ==
  ASSUME Inv, ReceiveGuild
  PROVE  Inv'
<1> DEFINE there == session.log[pos].type = "GUILD_CREATE"
           noted == [mem EXCEPT !.guild = there]
<1>1. /\ conn = "live" /\ Connected /\ pos \in DOMAIN session.log
      /\ session.log[pos].type \in {"GUILD_CREATE", "GUILD_DELETE"}
      /\ Commit(noted)
      /\ UNCHANGED <<clock, session, inbox, faults>>
  BY DEF ReceiveGuild, Receiving, Event, Connected
<1>2. pos > 1 /\ pos \in Nat /\ mem.id = session.id /\ session.log[1].exact
  BY <1>1, Standing
<1>3. noted \in States /\ noted.id = session.id /\ noted.guild = there
  BY <1>2 DEF States, Inv, Typed
<1>4. Durable(pos)
  BY <1>1, EventIsDurable, InteractionFacts
<1>5. Up(pos) => there
  BY <1>1, <1>2 DEF Up
<1>. HIDE DEF noted, there
<1>. QED BY <1>1, <1>2, <1>3, <1>4, <1>5, CommitKeeps

\* A click of the owner finds the guild noted.
LEMMA ClickIsServed ==
  ASSUME Inv, Connected, pos \in DOMAIN session.log,
         NEW c \in Clicks, session.log[pos] = Interaction(c)
  PROVE  mem.guild
<1>1. pos \in Nat \ {0} /\ pos <= Len(session.log)
  BY Standing
<1>2. pos > 1 /\ Up(pos - 1)
  <2>1. Up(pos - 1)
    BY <1>1 DEF Inv, LogFollows
  <2>2. pos # 1
    BY Standing, InteractionFacts
  <2>. QED BY <1>1, <2>1, <2>2
<1>. QED BY <1>2, Standing

LEMMA ReceiveDeniedKeeps ==
  ASSUME Inv, ReceiveDenied
  PROVE  Inv'
<1>1. /\ conn = "live" /\ Connected /\ pos \in DOMAIN session.log
      /\ session.log[pos].type = "INTERACTION_CREATE"
      /\ session.log[pos].click \in Strays \/ ~mem.guild
      /\ Commit(mem)
      /\ UNCHANGED <<clock, session, inbox, faults>>
  BY DEF ReceiveDenied, Receiving, Event, Denied, Connected
<1>2. /\ pos > 1 /\ pos \in Nat /\ mem.id = session.id /\ session.log[1].exact
      /\ Up(pos - 1) => mem.guild
  BY <1>1, Standing
<1>3. \A c \in Clicks : session.log[pos] # Interaction(c)
  BY <1>1, ClickIsServed, InteractionFacts, GatewayAssumption
<1>4. Durable(pos)
  BY <1>1, <1>3, EventIsDurable
<1>5. Up(pos) => mem.guild
  BY <1>1, <1>2, UpStays
<1>6. mem \in States
  BY DEF Inv, Typed
<1>. QED BY <1>1, <1>2, <1>4, <1>5, <1>6, CommitKeeps

LEMMA CommitClickKeeps ==
  ASSUME Inv, CommitClick
  PROVE  Inv'
<1>1. /\ Connected /\ InClick /\ Commit(mem) /\ UNCHANGED <<clock, session, inbox, faults>>
  BY DEF CommitClick, Connected, InClick
<1>2. PICK c \in Clicks :
        pos > 1 /\ pos <= Len(session.log) /\ session.log[pos] = Interaction(c) /\ inbox[c] # "absent"
  BY <1>1 DEF Inv, ConnFollows
<1>3. pos \in DOMAIN session.log
  BY <1>2 DEF Inv, Typed
<1>4. /\ pos \in Nat /\ mem.id = session.id /\ session.log[1].exact
      /\ Up(pos - 1) => mem.guild
  BY <1>1, <1>2, <1>3, Standing
<1>5. Durable(pos)
  BY <1>1, <1>2, <1>3, EventIsDurable, InteractionFacts
<1>6. Up(pos) => mem.guild
  BY <1>1, <1>2, <1>3, ClickIsServed
<1>7. mem \in States
  BY DEF Inv, Typed
<1>. QED BY <1>1, <1>3, <1>4, <1>5, <1>6, <1>7, CommitKeeps

-----------------------------------------------------------------------------
(* The inbox *)

\* What is active is finite, and a row that is taken in counts once.
LEMMA ActiveGrows ==
  ASSUME InboxIsBounded, NEW c \in Clicks, Cardinality(Active) < Cap,
         Active' \subseteq Active \union {c}
  PROVE  InboxIsBounded'
<1>1. IsFiniteSet(Active)
  BY GatewayAssumption, FS_Subset DEF Active
<1> DEFINE larger == Active \union {c}
<1>2. Cardinality(Active) \in Nat
  BY <1>1, FS_CardinalityType
<1>3. /\ IsFiniteSet(larger)
      /\ Cardinality(larger) = Cardinality(Active) \/ Cardinality(larger) = Cardinality(Active) + 1
  BY <1>1, FS_AddElement
<1>4. Active' \subseteq larger
  OBVIOUS
<1>. HIDE DEF larger
<1>5. Cardinality(Active') <= Cardinality(larger) /\ IsFiniteSet(Active')
  BY <1>3, <1>4, FS_Subset
<1>6. Cardinality(Active') \in Nat
  BY <1>5, FS_CardinalityType
<1>7. Cardinality(Active') <= Cap
  BY <1>2, <1>3, <1>5, <1>6, GatewayAssumption
<1>. QED BY <1>7 DEF InboxIsBounded

LEMMA ActiveShrinks ==
  ASSUME InboxIsBounded, Active' \subseteq Active
  PROVE  InboxIsBounded'
<1>1. IsFiniteSet(Active)
  BY GatewayAssumption, FS_Subset DEF Active
<1>2. Cardinality(Active') <= Cardinality(Active) /\ Cardinality(Active') \in Nat
      /\ Cardinality(Active) \in Nat
  BY <1>1, FS_Subset, FS_CardinalityType
<1>. QED BY <1>2, GatewayAssumption DEF InboxIsBounded

LEMMA EnqueueKeeps ==
  ASSUME Inv, Enqueue
  PROVE  Inv'
<1>1. /\ conn = "live" /\ Connected /\ pos \in DOMAIN session.log
      /\ session.log[pos].type = "INTERACTION_CREATE"
      /\ session.log[pos].click \notin Strays
      /\ UNCHANGED <<clock, disk, mem, pos, session, faults>>
  BY DEF Enqueue, Receiving, Event, Denied, Connected
<1>2. /\ pos > 1 /\ pos \in Nat /\ pos <= Len(session.log)
      /\ mem.id = session.id /\ session.log[1].exact
  BY <1>1, Standing
<1> DEFINE c == session.log[pos].click
<1>3. c \in Clicks /\ session.log[pos] = Interaction(c)
  BY <1>1, Standing, EventFacts
<1>. HIDE DEF c
<1>4. CASE UNCHANGED inbox /\ conn' = "down"
  <2>1. Typed' /\ InboxIsBounded' /\ LogIsOpen'
    BY <1>1, <1>4 DEF Inv, Typed, InboxIsBounded, Active, ConnStates, LogIsOpen
  <2>. QED BY <1>1, <1>4, <2>1, InboxSteps DEF Inv
<1>5. CASE /\ ~(inbox[c] = "absent" /\ Cardinality(Active) >= Cap)
           /\ conn' = "enqueued" /\ inbox' = Enqueued(c)
  <2>1. /\ inbox' \in [Clicks -> RowStates] /\ inbox'[c] # "absent"
        /\ \A d \in Clicks : inbox[d] # "absent" => inbox'[d] = inbox[d]
        /\ \A d \in Clicks : d # c => inbox'[d] = inbox[d]
    BY <1>3, <1>5 DEF Enqueued, Inv, Typed, RowStates
  <2>2. InboxIsBounded'
    <3>1. CASE inbox[c] = "absent"
      <4>1. Active' \subseteq Active \union {c}
        BY <2>1 DEF Active
      <4>2. Cardinality(Active) < Cap
        <5>1. IsFiniteSet(Active)
          BY GatewayAssumption, FS_Subset DEF Active
        <5>. QED BY <1>5, <3>1, <5>1, FS_CardinalityType, GatewayAssumption
      <4>. QED BY <1>3, <4>1, <4>2, ActiveGrows DEF Inv
    <3>2. CASE inbox[c] # "absent"
      BY <1>5, <3>2 DEF Enqueued, Inv, InboxIsBounded, Active
    <3>. QED BY <3>1, <3>2
  <2>3. Typed' /\ LogIsOpen'
    BY <1>1, <1>5, <2>1 DEF Inv, Typed, ConnStates, LogIsOpen
  <2>4. LogFollows' /\ Follows(mem)' /\ Follows(disk)'
    BY <1>1, <2>1, LogStays, FollowsStays DEF Inv, Follows
  <2>5. SessionIsVerified'
    BY <1>1, <1>2, <2>1 DEF Inv, SessionIsVerified, Clicked
  <2>6. ConnFollows'
    BY <1>1, <1>2, <1>3, <1>5, <2>1 DEF Inv, ConnFollows, Connected, InClick
  <2>. QED BY <2>2, <2>3, <2>4, <2>5, <2>6 DEF Inv
<1>. QED BY <1>4, <1>5 DEF Enqueue, Event, c

\* The rows and the acknowledgement go on, no row comes or goes.
LEMMA RowStepKeeps ==
  ASSUME Inv, UNCHANGED <<clock, disk, mem, pos, session>>,
         faults' \in 0 .. MaxFaults,
         conn' = conn \/ conn' = "down",
         inbox' \in [Clicks -> RowStates], Active' \subseteq Active,
         \A c \in Clicks : inbox[c] # "absent" <=> inbox'[c] # "absent"
  PROVE  Inv'
<1>1. Typed' /\ LogIsOpen'
  BY DEF Inv, Typed, ConnStates, LogIsOpen
<1>2. InboxIsBounded'
  BY ActiveShrinks DEF Inv
<1>. QED BY <1>1, <1>2, InboxSteps DEF Inv

LEMMA DrainerKeeps ==
  ASSUME Inv, NEW c \in Clicks, Drainer(c) \/ Release(c)
  PROVE  Inv'
<1>1. /\ UNCHANGED <<clock, disk, mem, pos, session, conn>>
      /\ faults' \in 0 .. MaxFaults
  BY GatewayAssumption DEF Drainer, ActivateStale, Claim, Finish, Release, Fault, Inv, Typed
<1>2. /\ inbox[c] \in {"received", "pending", "processing"}
      /\ \E s \in {"pending", "processing", "done"} : inbox' = [inbox EXCEPT ![c] = s]
  BY DEF Drainer, ActivateStale, Claim, Finish, Release
<1>3. PICK s \in {"pending", "processing", "done"} : inbox' = [inbox EXCEPT ![c] = s]
  BY <1>2
<1>4. /\ inbox \in [Clicks -> RowStates] /\ inbox' \in [Clicks -> RowStates]
      /\ inbox'[c] = s /\ \A d \in Clicks : d # c => inbox'[d] = inbox[d]
  BY <1>3 DEF Inv, Typed, RowStates
<1>5. /\ Active' \subseteq Active
      /\ \A d \in Clicks : inbox[d] # "absent" <=> inbox'[d] # "absent"
  BY <1>2, <1>4 DEF Active
<1>. QED BY <1>1, <1>4, <1>5, RowStepKeeps

LEMMA AcknowledgeKeeps ==
  ASSUME Inv, Acknowledge \/ MarkReady
  PROVE  Inv'
<1>1. /\ UNCHANGED <<clock, disk, mem, pos, session, faults>>
      /\ InClick /\ Connected /\ conn' \in {"acknowledged", "ready"}
  BY DEF Acknowledge, MarkReady, InClick, Connected
<1>2. PICK c \in Clicks :
        pos > 1 /\ pos <= Len(session.log) /\ session.log[pos] = Interaction(c) /\ inbox[c] # "absent"
  BY <1>1 DEF Inv, ConnFollows
<1>3. /\ inbox' \in [Clicks -> RowStates] /\ Active' \subseteq Active
      /\ \A d \in Clicks : inbox[d] # "absent" <=> inbox'[d] # "absent"
  <2>1. CASE Acknowledge
    BY <2>1 DEF Acknowledge, Inv, Typed, Active
  <2>2. CASE MarkReady
    <3>1. Event.click = c
      BY <1>2, InteractionFacts DEF Event
    <3>2. inbox' = [inbox EXCEPT ![c] = IF inbox[c] = "received" THEN "pending" ELSE inbox[c]]
      BY <2>2, <3>1 DEF MarkReady
    <3>. QED BY <3>2 DEF Inv, Typed, RowStates, Active
  <2>. QED BY <2>1, <2>2
<1>4. Typed' /\ LogIsOpen'
  BY <1>1, <1>3 DEF Inv, Typed, ConnStates, LogIsOpen
<1>5. InboxIsBounded'
  BY <1>3, ActiveShrinks DEF Inv
<1>6. LogFollows' /\ Follows(mem)' /\ Follows(disk)' /\ SessionIsVerified'
  BY <1>1, <1>3, LogStays, FollowsStays DEF Inv, Follows, SessionIsVerified, Clicked
<1>7. ConnFollows'
  BY <1>1, <1>2, <1>3 DEF Inv, ConnFollows, Connected, InClick
<1>. QED BY <1>4, <1>5, <1>6, <1>7 DEF Inv
-----------------------------------------------------------------------------
(* Failures, and the rest of the world *)

LEMMA DropKeeps ==
  ASSUME Inv, Drop
  PROVE  Inv'
BY RowStepKeeps, GatewayAssumption DEF Drop, Fault, Inv, Typed, Active

LEMMA SendFailsKeeps ==
  ASSUME Inv, SendFails
  PROVE  Inv'
<1>1. /\ UNCHANGED <<clock, disk, mem, pos, session, inbox>> /\ conn' = "down"
      /\ faults' \in 0 .. MaxFaults
  BY GatewayAssumption DEF SendFails, Fault, Inv, Typed
<1>2. Typed' /\ InboxIsBounded' /\ LogIsOpen'
  BY <1>1 DEF Inv, Typed, InboxIsBounded, Active, LogIsOpen, ConnStates
<1>. QED BY <1>1, <1>2, InboxSteps DEF Inv

LEMMA CommitFailsKeeps ==
  ASSUME Inv, CommitFails
  PROVE  Inv'
<1>1. /\ Connected /\ InClick /\ mem' = [mem EXCEPT !.seq = pos] /\ conn' = "down"
      /\ UNCHANGED <<clock, disk, pos, session, inbox>>
      /\ faults' \in 0 .. MaxFaults
  BY GatewayAssumption DEF CommitFails, Connected, InClick, Fault, Inv, Typed
<1>2. PICK c \in Clicks :
        pos > 1 /\ pos <= Len(session.log) /\ session.log[pos] = Interaction(c) /\ inbox[c] # "absent"
  BY <1>1 DEF Inv, ConnFollows
<1>3. pos \in DOMAIN session.log /\ pos \in Nat
  BY <1>2 DEF Inv, Typed
<1>4. mem.id = session.id /\ session.log[1].exact
  BY <1>1, <1>2, <1>3, Standing
<1>5. Durable(pos)
  BY <1>1, <1>2, <1>3, EventIsDurable, InteractionFacts
<1>6. mem.guild
  BY <1>1, <1>2, <1>3, ClickIsServed
<1>7. mem' \in States /\ mem'.id = session.id /\ mem'.seq = pos /\ mem'.guild = mem.guild
  BY <1>1, <1>3, <1>4 DEF Inv, Typed, States
<1>8. Typed' /\ InboxIsBounded' /\ LogIsOpen'
  BY <1>1, <1>7 DEF Inv, Typed, InboxIsBounded, Active, ConnStates, LogIsOpen
<1>9. LogFollows' /\ Follows(disk)' /\ SessionIsVerified'
  BY <1>1, LogStays, FollowsStays DEF Inv, Follows, SessionIsVerified, Clicked
<1>10. Follows(mem)'
  BY <1>1, <1>2, <1>4, <1>5, <1>6, <1>7 DEF Inv, Typed, Follows, Durable, Up
<1>11. ConnFollows'
  BY <1>1 DEF ConnFollows, Connected, InClick
<1>. QED BY <1>8, <1>9, <1>10, <1>11 DEF Inv

LEMMA CrashKeeps ==
  ASSUME Inv, Crash
  PROVE  Inv'
<1>1. /\ mem' = disk /\ conn' = "down"
      /\ inbox' = [c \in Clicks |-> IF inbox[c] = "processing" THEN "pending" ELSE inbox[c]]
      /\ UNCHANGED <<clock, disk, pos, session>>
      /\ faults' \in 0 .. MaxFaults
  BY GatewayAssumption DEF Crash, Fault, Inv, Typed
<1>2. /\ inbox' \in [Clicks -> RowStates]
      /\ \A c \in Clicks : inbox[c] # "absent" <=> inbox'[c] # "absent"
  BY <1>1 DEF Inv, Typed, RowStates
<1>3. Active' \subseteq Active
  BY <1>1 DEF Active
<1>4. Typed' /\ InboxIsBounded' /\ LogIsOpen'
  BY <1>1, <1>2, <1>3, ActiveShrinks DEF Inv, Typed, ConnStates, LogIsOpen
<1>5. LogFollows' /\ Follows(disk)' /\ SessionIsVerified'
  BY <1>1, <1>2, LogStays, FollowsStays DEF Inv, Follows, SessionIsVerified, Clicked
<1>6. Follows(mem)'
  BY <1>1, <1>5 DEF Follows, Durable, Up
<1>7. ConnFollows'
  BY <1>1 DEF ConnFollows, Connected, InClick
<1>. QED BY <1>4, <1>5, <1>6, <1>7 DEF Inv

LEMMA ExpireKeeps ==
  ASSUME Inv, Expire
  PROVE  Inv'
<1>1. /\ session' = [session EXCEPT !.alive = FALSE]
      /\ UNCHANGED <<clock, disk, mem, conn, pos, inbox>>
      /\ faults' \in 0 .. MaxFaults
  BY GatewayAssumption DEF Expire, Fault, Inv, Typed
<1>2. /\ session' \in [id : 0 .. MaxSessions, log : Seq(Events), alive : BOOLEAN]
      /\ session'.id = session.id /\ session'.log = session.log
  BY <1>1 DEF Inv, Typed
<1>3. Typed' /\ InboxIsBounded' /\ LogIsOpen'
  BY <1>1, <1>2 DEF Inv, Typed, InboxIsBounded, Active, LogIsOpen
<1>4. LogFollows' /\ Follows(mem)' /\ Follows(disk)'
  BY <1>1, <1>2 DEF Inv, LogFollows, Follows, Durable, Up
<1>5. ConnFollows' /\ SessionIsVerified'
  BY <1>1, <1>2 DEF Inv, ConnFollows, Connected, InClick, SessionIsVerified, Clicked
<1>. QED BY <1>3, <1>4, <1>5 DEF Inv

\* Discord appends an event that keeps to LogFollows.
LEMMA EmitKeeps ==
  ASSUME Inv, NEW e \in Events, Emit(e), faults' \in 0 .. MaxFaults,
         session.log # <<>>, e.type # "READY",
         \A c \in Clicks : e = Interaction(c) => inbox[c] = "absent" /\ Up(Len(session.log))
  PROVE  Inv'
<1>1. /\ session' = [session EXCEPT !.log = Append(session.log, e)]
      /\ UNCHANGED <<clock, disk, mem, conn, pos, inbox>>
  BY DEF Emit
<1>2. PICK n : n = Len(session.log)
  OBVIOUS
<1>3. /\ session.log \in Seq(Events) /\ n \in Nat /\ DOMAIN session.log = 1 .. n
      /\ session'.id = session.id /\ session'.log = Append(session.log, e)
      /\ session'.alive = session.alive
      /\ session' \in [id : 0 .. MaxSessions, log : Seq(Events), alive : BOOLEAN]
  <2>1. session \in [id : 0 .. MaxSessions, log : Seq(Events), alive : BOOLEAN]
    BY DEF Inv, Typed
  <2>2. Append(session.log, e) \in Seq(Events) /\ session.log \in Seq(Events)
    BY <2>1
  <2>3. n \in Nat /\ DOMAIN session.log = 1 .. n
    BY <1>2, <2>2
  <2>. QED BY <1>1, <2>1, <2>2, <2>3
<1>4. /\ n > 0 /\ Len(session'.log) = n + 1 /\ session'.log[n + 1] = e
      /\ \A i \in 1 .. n : session'.log[i] = session.log[i]
      /\ DOMAIN session'.log = 1 .. n + 1
  BY <1>2, <1>3
<1>5. Typed' /\ InboxIsBounded' /\ LogIsOpen'
  BY <1>1, <1>2, <1>3, <1>4 DEF Inv, Typed, InboxIsBounded, Active, LogIsOpen
<1>6. ASSUME NEW k \in 0 .. n PROVE Up(k)' <=> Up(k)
  <2>1. \A i \in 1 .. k : session'.log[i] = session.log[i] /\ \A j \in i + 1 .. k : session'.log[j] = session.log[j]
    BY <1>3, <1>4
  <2>. QED BY <2>1 DEF Up
<1>7. ASSUME NEW k \in 0 .. n PROVE Durable(k)' <=> Durable(k)
  <2>1. \A i \in 1 .. k : session'.log[i] = session.log[i]
    BY <1>3, <1>4
  <2>. QED BY <1>1, <2>1 DEF Durable
<1>8. LogFollows'
  <2>1. \A i \in 1 .. n + 1 : session'.log[i].type = "READY" <=> i = 1
    BY <1>2, <1>3, <1>4 DEF Inv, LogFollows
  <2>2. ASSUME NEW i \in 1 .. n + 1, NEW c \in Clicks, session'.log[i] = Interaction(c)
        PROVE  Up(i - 1)'
    <3>1. i - 1 \in 0 .. n
      BY <1>3
    <3>2. Up(i - 1)
      <4>1. CASE i \in 1 .. n
        BY <1>2, <1>4, <2>2, <4>1 DEF Inv, LogFollows
      <4>2. CASE i = n + 1
        <5>1. i - 1 = n /\ Up(n)
          BY <1>2, <1>3, <1>4, <2>2, <4>2
        <5>. QED BY <5>1
      <4>. QED BY <1>3, <4>1, <4>2
    <3>. QED BY <1>6, <3>1, <3>2
  <2>. QED BY <1>4, <2>1, <2>2 DEF LogFollows
<1>9. Follows(mem)' /\ Follows(disk)'
  <2>1. ASSUME NEW s \in States, Follows(s) PROVE Follows(s)'
    <3>1. CASE ~(s.id = session.id /\ s.seq > 0)
      BY <1>3, <2>1, <3>1 DEF Follows
    <3>2. CASE s.id = session.id /\ s.seq > 0
      <4>1. s.seq \in 0 .. n /\ Durable(s.seq) /\ (Up(s.seq) => s.guild) /\ session.log[1].exact
        BY <1>2, <1>3, <2>1, <3>2 DEF Follows, States
      <4>2. Durable(s.seq)' /\ (Up(s.seq)' => s.guild)
        BY <1>6, <1>7, <4>1
      <4>3. s.id <= session'.id /\ s.seq <= Len(session'.log) /\ session'.log[1].exact
        BY <1>3, <1>4, <2>1, <4>1 DEF Follows
      <4>. QED BY <4>2, <4>3 DEF Follows
    <3>. QED BY <3>1, <3>2
  <2>. QED BY <1>1, <2>1 DEF Inv, Typed
<1>10. ConnFollows'
  BY <1>1, <1>2, <1>3, <1>4 DEF Inv, Typed, ConnFollows, Connected, InClick
<1>11. SessionIsVerified'
  <2>1. \A c \in Clicks : inbox[c] # "absent" => (Clicked(c)' => Clicked(c))
    BY <1>2, <1>3, <1>4 DEF Clicked
  <2>. QED BY <1>1, <1>3, <1>4, <2>1 DEF Inv, SessionIsVerified
<1>. QED BY <1>5, <1>8, <1>9, <1>10, <1>11 DEF Inv

LEMMA AvailableIsUp ==
  ASSUME Inv, Available
  PROVE  session.log # <<>> /\ Up(Len(session.log))
BY DEF Available, Up, Inv, Typed

LEMMA ClickKeeps ==
  ASSUME Inv, NEW c \in Clicks \union Strays, Click(c)
  PROVE  Inv'
<1>1. /\ Emit(Interaction(c)) /\ UNCHANGED faults /\ Available
      /\ c \in Clicks => inbox[c] = "absent"
  BY DEF Click
<1>2. Interaction(c) \in Events /\ Interaction(c).type # "READY"
  BY InteractionFacts DEF Events
<1>3. session.log # <<>> /\ Up(Len(session.log))
  BY <1>1, AvailableIsUp
<1>4. \A d \in Clicks : Interaction(c) = Interaction(d) => inbox[d] = "absent"
  BY <1>1, InteractionFacts
<1>5. faults' \in 0 .. MaxFaults
  BY <1>1 DEF Inv, Typed
<1>. QED BY <1>1, <1>2, <1>3, <1>4, <1>5, EmitKeeps

LEMMA GuildKeeps ==
  ASSUME Inv, Outage \/ Recover
  PROVE  Inv'
<1>1. PICK e \in {GuildCreate, GuildDelete} : Emit(e)
  BY DEF Outage, Recover
<1>2. session.log # <<>> /\ faults' \in 0 .. MaxFaults
  BY AvailableIsUp, GatewayAssumption DEF Outage, Recover, Fault, Inv, Typed
<1>3. e \in Events /\ e.type # "READY" /\ \A c : e # Interaction(c)
  BY InteractionFacts DEF Events, GuildCreate, GuildDelete
<1>. QED BY <1>1, <1>2, <1>3, EmitKeeps

-----------------------------------------------------------------------------
(* The theorems *)

LEMMA InvInit == Init => Inv
<1>. SUFFICES ASSUME Init PROVE Inv
  OBVIOUS
<1>1. /\ disk = NoState /\ mem = NoState /\ NoState \in States
      /\ session = [id |-> 0, log |-> <<>>, alive |-> FALSE]
      /\ conn = "down" /\ pos = 0 /\ clock = 0 /\ faults = 0
      /\ inbox = [c \in Clicks |-> "absent"]
  BY GatewayAssumption DEF Init, NoState, States
<1>2. session \in [id : 0 .. MaxSessions, log : Seq(Events), alive : BOOLEAN]
      /\ Len(session.log) = 0 /\ session.log = <<>> /\ session.id = 0
  BY <1>1, GatewayAssumption
<1>3. Typed
  BY <1>1, <1>2, GatewayAssumption DEF Typed, ConnStates, RowStates
<1>4. InboxIsBounded
  <2>1. Active = {}
    BY <1>1 DEF Active
  <2>. QED BY <2>1, FS_EmptySet, GatewayAssumption DEF InboxIsBounded
<1>5. LogIsOpen /\ LogFollows /\ Follows(mem) /\ Follows(disk)
  BY <1>1, <1>2 DEF LogIsOpen, LogFollows, Follows, NoState
<1>6. ConnFollows /\ SessionIsVerified
  BY <1>1, <1>2 DEF ConnFollows, Connected, InClick, SessionIsVerified
<1>. QED BY <1>3, <1>4, <1>5, <1>6 DEF Inv

LEMMA InvStep == Inv /\ [Next]_vars => Inv'
<1>. SUFFICES ASSUME Inv, [Next]_vars PROVE Inv'
  OBVIOUS
<1>1. CASE Client
  BY <1>1, ConnectKeeps, ResumeKeeps, InvalidSessionKeeps, ReceiveReadyKeeps, ReceiveGuildKeeps,
     ReceiveDeniedKeeps, EnqueueKeeps, AcknowledgeKeeps, CommitClickKeeps DEF Client
<1>2. CASE Refuse \/ Unavailable \/ Corrupt \/ Lose \/ Tick \/ UNCHANGED vars
  BY <1>2, BudgetKeeps
<1>3. CASE \E exact \in BOOLEAN : Identify(exact)
  BY <1>3, IdentifyKeeps
<1>4. CASE \E c \in Clicks : Drainer(c) \/ Release(c)
  BY <1>4, DrainerKeeps
<1>5. CASE Drop \/ CommitFails \/ Crash \/ SendFails \/ Expire
  BY <1>5, DropKeeps, CommitFailsKeeps, CrashKeeps, SendFailsKeeps, ExpireKeeps
<1>6. CASE (\E c \in Clicks \union Strays : Click(c)) \/ Outage \/ Recover
  BY <1>6, ClickKeeps, GuildKeeps
<1>. QED BY <1>1, <1>2, <1>3, <1>4, <1>5, <1>6 DEF Next

LEMMA Invariance == Spec => []Inv
BY InvInit, InvStep, PTL DEF Spec

\* No checkpoint passes a click of the owner's that is not in the inbox.
THEOREM CheckpointsAreDurable == Spec => []CheckpointIsDurable
<1>1. ASSUME Inv, NEW s \in {mem, disk}, s.id = session.id,
             NEW i \in 1 .. s.seq, NEW c \in Clicks, session.log[i] = Interaction(c)
      PROVE  inbox[c] # "absent"
  <2>1. Follows(s) /\ s.seq > 0
    BY <1>1 DEF Inv, Typed, States
  <2>. QED BY <1>1, <2>1 DEF Follows, Durable
<1>2. Inv => CheckpointIsDurable
  BY <1>1 DEF CheckpointIsDurable
<1>. QED BY <1>2, Invariance, PTL

\* A session whose READY was refused serves no click.
THEOREM SessionsAreVerified == Spec => []SessionIsVerified
<1>1. Inv => SessionIsVerified
  BY DEF Inv
<1>. QED BY <1>1, Invariance, PTL

\* A click that was handled is never handled again.
THEOREM ClicksAreHandledOnce == Spec => HandledOnce
<1>1. ASSUME Inv, [Next]_vars, NEW c \in Clicks, inbox[c] = "done"
      PROVE  inbox'[c] = "done"
  <2>1. inbox \in [Clicks -> RowStates]
    BY <1>1 DEF Inv, Typed
  <2>2. CASE Enqueue
    BY <1>1, <2>1, <2>2 DEF Enqueue, Enqueued
  <2>3. CASE MarkReady
    BY <1>1, <2>1, <2>3 DEF MarkReady
  <2>4. CASE \E d \in Clicks : Drainer(d) \/ Release(d)
    BY <1>1, <2>1, <2>4 DEF Drainer, ActivateStale, Claim, Finish, Release
  <2>5. CASE Crash
    BY <1>1, <2>5 DEF Crash
  <2>6. CASE UNCHANGED inbox
    BY <1>1, <2>6
  <2>7. Client => Enqueue \/ MarkReady \/ UNCHANGED inbox
    BY DEF Client, Connect, Resume, InvalidSession, ReceiveReady, ReceiveGuild, ReceiveDenied,
       Acknowledge, CommitClick
  <2>8. (\E d \in Clicks \union Strays : Click(d)) \/ Outage \/ Recover => UNCHANGED inbox
    BY DEF Click, Outage, Recover, Emit
  <2>9. /\ Refuse \/ Unavailable \/ Corrupt \/ Lose \/ Tick \/ UNCHANGED vars => UNCHANGED inbox
        /\ (\E exact \in BOOLEAN : Identify(exact)) => UNCHANGED inbox
        /\ Drop \/ CommitFails \/ SendFails \/ Expire => UNCHANGED inbox
    BY DEF Refuse, Unavailable, Corrupt, Lose, Tick, vars, Identify, Drop, CommitFails, SendFails,
       Expire
  <2>. QED BY <1>1, <2>2, <2>3, <2>4, <2>5, <2>6, <2>7, <2>8, <2>9 DEF Next
<1>2. Inv /\ [Next]_vars => [\A c \in Clicks : inbox[c] = "done" => inbox'[c] = "done"]_vars
  BY <1>1
<1>. QED BY <1>2, Invariance, PTL DEF Spec, HandledOnce

(***************************************************************************)
(* The budget.  A file in order: the k latest reservations are no earlier  *)
(* than the k latest IDENTIFY operations (Covers), so that a window whose  *)
(* limit-th latest reservation has left it has room for one more.          *)
(***************************************************************************)
Ascending(times) ==
  \A i, j \in DOMAIN times : i <= j => times[i] <= times[j]

Times(now) == {times \in Seq(0 .. now) : Ascending(times)}

\* The k latest IDENTIFY operations are no later than the k latest reservations; one
\* the file does not tell of any more is a day old, or the file's block covers it.
Covers(l, times, now) ==
  \A k \in 1 .. Len(times) :
    LET latest(s) == s[Len(s) - k + 1]
    IN IF k <= Len(l.times)
       THEN latest(times) <= latest(l.times)
       ELSE latest(times) + DayWindow <= now \/ latest(times) + DayWindow <= l.blocked

\* Of any limit + 1 IDENTIFY operations in a row, the last is a window after the first.
Spaced(times, limit, window) ==
  \A i \in 1 .. Len(times) - limit : times[i] + window <= times[i + limit]

LedgerTyped(l, now) ==
  /\ l.times \in Times(now) /\ l.blocked \in Nat /\ l.readable \in BOOLEAN
  /\ l.blocked > 0 \/ ~l.readable => l.times = <<>>

BudgetInv ==
  /\ clock \in Nat
  /\ LedgerTyped(ledger, clock)
  /\ identified \in Times(clock)
  /\ ledger.readable => Covers(ledger, identified, clock)
  /\ Spaced(identified, HourLimit, HourWindow)
  /\ Spaced(identified, DayLimit, DayWindow)

(***************************************************************************)
(* The windows of a file.                                                  *)
(***************************************************************************)
LEMMA LeastElement ==
  ASSUME NEW T \in SUBSET Nat, T # {}
  PROVE  \E x \in T : \A y \in T : x <= y
<1> DEFINE below == {pair \in Nat \X Nat : pair[1] < pair[2]}
<1>1. IsWellFoundedOn(below, Nat)
  <2>1. below = OpToRel(<, Nat)
    BY DEF OpToRel
  <2>2. QED
    BY <2>1, NatLessThanWellFounded
<1> HIDE DEF below
<1>2. PICK x \in T : \A y \in T : ~(<<y, x>> \in below)
  BY <1>1, WFMin
<1>3. ASSUME NEW y \in T PROVE x <= y
  <2>1. x \in Nat /\ y \in Nat /\ ~(<<y, x>> \in below)
    BY <1>2
  <2>2. ~(y < x)
    BY <2>1 DEF below
  <2>3. QED
    BY <2>1, <2>2
<1>4. QED
  BY <1>3

\* What lies before a window is a prefix of a file in order, and Recent drops it.
LEMMA RecentIsRest ==
  ASSUME NEW now \in Nat, NEW times \in Times(now), NEW t \in Int, NEW window \in Nat
  PROVE  \E n \in 0 .. Len(times) :
           /\ \A i \in DOMAIN times : times[i] <= t - window <=> i <= n
           /\ Recent(times, t, window) = SubSeq(times, n + 1, Len(times))
<1> DEFINE stale == {i \in DOMAIN times : times[i] <= t - window}
           fresh == {i \in 1 .. Len(times) + 1 : i \notin stale}
<1>1. times \in Seq(0 .. now) /\ Len(times) \in Nat /\ DOMAIN times = 1 .. Len(times)
  BY DEF Times
<1>2. \A i \in DOMAIN times : times[i] \in Int
  BY <1>1
<1>3. \A i, j \in DOMAIN times : i <= j => times[i] <= times[j]
  BY DEF Times, Ascending
<1>4. Len(times) + 1 \in fresh /\ fresh \in SUBSET Nat
  BY <1>1
<1>5. PICK m \in fresh : \A i \in fresh : m <= i
  BY <1>4, LeastElement
<1>6. m \in 1 .. Len(times) + 1
  BY <1>5
<1>7. ASSUME NEW i \in DOMAIN times PROVE i \in stale <=> i <= m - 1
  <2>1. CASE i <= m - 1
    BY <1>1, <1>5, <1>6, <1>7, <2>1
  <2>2. CASE ~(i <= m - 1)
    <3>1. m \in DOMAIN times /\ m <= i
      BY <1>1, <1>6, <1>7, <2>2
    <3>2. times[m] <= times[i]
      BY <1>3, <1>7, <3>1
    <3>3. ~(times[m] <= t - window)
      BY <1>5, <3>1
    <3>4. QED
      BY <1>2, <1>7, <2>2, <3>1, <3>3, <3>2
  <2>3. QED
    BY <2>1, <2>2
<1>8. stale = 1 .. m - 1
  <2>1. stale \subseteq DOMAIN times
    OBVIOUS
  <2>2. 1 .. m - 1 \subseteq DOMAIN times
    BY <1>1, <1>6
  <2>3. QED
    BY <1>1, <1>6, <1>7, <2>1, <2>2
<1>9. Cardinality(stale) = m - 1
  <2>1. m - 1 \in Int /\ m - 1 >= 0
    BY <1>1, <1>6
  <2>2. Cardinality(1 .. m - 1) = IF 1 > m - 1 THEN 0 ELSE (m - 1) - 1 + 1
    BY <2>1, FS_Interval
  <2>3. (IF 1 > m - 1 THEN 0 ELSE (m - 1) - 1 + 1) = m - 1
    BY <2>1
  <2>4. QED
    BY <1>8, <2>2, <2>3, Zenon
<1>10. Recent(times, t, window) = SubSeq(times, (m - 1) + 1, Len(times))
  BY <1>9 DEF Recent
<1>11. m - 1 \in 0 .. Len(times)
  BY <1>1, <1>6
<1>12. \A i \in DOMAIN times : times[i] <= t - window <=> i <= m - 1
  BY <1>7
<1>13. QED
  BY <1>10, <1>11, <1>12

\* What Recent leaves is in order, holds the file's latest times, and of these the
\* ones in the window.
LEMMA RecentKeeps ==
  ASSUME NEW now \in Nat, NEW times \in Times(now), NEW t \in Int, NEW window \in Nat,
         NEW kept, kept = Recent(times, t, window)
  PROVE  /\ kept \in Times(now) /\ Len(kept) <= Len(times)
         /\ \A k \in 1 .. Len(kept) :
              kept[Len(kept) - k + 1] = times[Len(times) - k + 1]
         /\ \A k \in 1 .. Len(times) :
              times[Len(times) - k + 1] <= t - window <=> k > Len(kept)
<1>1. PICK n \in 0 .. Len(times) :
           /\ \A i \in DOMAIN times : times[i] <= t - window <=> i <= n
           /\ kept = SubSeq(times, n + 1, Len(times))
  BY RecentIsRest
<1>2. times \in Seq(0 .. now) /\ Len(times) \in Nat /\ DOMAIN times = 1 .. Len(times)
  BY DEF Times
<1>3. /\ kept \in Seq(0 .. now) /\ Len(kept) = Len(times) - n
      /\ \A i \in 1 .. Len(kept) : kept[i] = times[i + n]
  <2>1. n \in Nat /\ Len(times) \in Nat /\ n <= Len(times)
    BY <1>2
  <2>2. CASE n = Len(times)
    BY <1>1, <1>2, <2>2
  <2>3. CASE n < Len(times)
    <3>1. \A i \in n + 1 .. Len(times) : times[i] \in 0 .. now
      BY <1>2, <2>1
    <3>2. /\ kept \in Seq(0 .. now) /\ Len(kept) = Len(times) - (n + 1) + 1
          /\ \A i \in 1 .. Len(times) - (n + 1) + 1 : kept[i] = times[(n + 1) + i - 1]
      <4>1. n + 1 \in Int /\ Len(times) \in Int /\ n + 1 <= Len(times)
        BY <1>2, <2>1, <2>3
      <4>2. QED
        BY <1>1, <3>1, <4>1, SubSeqProperties
    <3>3. ASSUME NEW i \in 1 .. Len(kept) PROVE kept[i] = times[i + n]
      <4>1. i \in 1 .. Len(times) - (n + 1) + 1 /\ (n + 1) + i - 1 = i + n
        BY <1>2, <2>1, <3>2
      <4>2. QED
        BY <3>2, <4>1
    <3>4. QED
      BY <1>2, <2>1, <3>2, <3>3
  <2>4. n = Len(times) \/ n < Len(times)
    BY <2>1
  <2>5. QED
    BY <2>2, <2>3, <2>4
<1>4. Ascending(kept)
  <2>1. SUFFICES ASSUME NEW i \in DOMAIN kept, NEW j \in DOMAIN kept, i <= j
                 PROVE  kept[i] <= kept[j]
    BY DEF Ascending
  <2>2. i + n \in DOMAIN times /\ j + n \in DOMAIN times /\ i + n <= j + n
    <3>1. kept \in Seq(0 .. now) /\ Len(kept) = Len(times) - n /\ n \in Nat
      BY <1>2, <1>3
    <3>2. DOMAIN kept = 1 .. Len(times) - n
      BY <3>1
    <3>3. i \in 1 .. Len(times) - n /\ j \in 1 .. Len(times) - n
      BY <2>1, <3>2
    <3>4. n \in Nat /\ Len(times) \in Nat
      BY <1>2, <3>1
    <3>5. i + n \in 1 .. Len(times)
      BY <3>3, <3>4
    <3>6. j + n \in 1 .. Len(times)
      BY <3>3, <3>4
    <3>7. i + n <= j + n
      BY <2>1, <3>3, <3>4
    <3>8. i + n \in 1 .. Len(times) /\ j + n \in 1 .. Len(times) /\ i + n <= j + n
      BY <3>5, <3>6, <3>7
    <3>9. QED
      BY <1>2, <3>8
  <2>3. \A a, b \in DOMAIN times : a <= b => times[a] <= times[b]
    BY DEF Times, Ascending
  <2>4. kept[i] = times[i + n] /\ kept[j] = times[j + n]
    <3>1. DOMAIN kept = 1 .. Len(kept)
      BY <1>3
    <3>2. QED
      BY <1>3, <2>1, <3>1
  <2>5. times[i + n] <= times[j + n]
    BY <2>2, <2>3
  <2>6. QED
    BY <2>4, <2>5
<1>5. \A k \in 1 .. Len(kept) : kept[Len(kept) - k + 1] = times[Len(times) - k + 1]
  <2>1. TAKE k \in 1 .. Len(kept)
  <2>2. Len(kept) - k + 1 \in 1 .. Len(kept) /\ (Len(kept) - k + 1) + n = Len(times) - k + 1
    BY <1>2, <1>3
  <2>3. QED
    BY <1>3, <2>2
<1>6. \A k \in 1 .. Len(times) : times[Len(times) - k + 1] <= t - window <=> k > Len(kept)
  <2>1. TAKE k \in 1 .. Len(times)
  <2>2. Len(times) - k + 1 \in DOMAIN times /\ (Len(times) - k + 1 <= n <=> k > Len(kept))
    BY <1>2, <1>3
  <2>3. QED
    BY <1>1, <2>2
<1>7. QED
  BY <1>2, <1>3, <1>4, <1>5, <1>6 DEF Times

\* A window is full when its limit-th latest time is in it.
LEMMA FullIs ==
  ASSUME NEW now \in Nat, NEW times \in Times(now), NEW t \in Int, NEW window \in Nat,
         NEW limit \in Nat \ {0}
  PROVE  Len(Recent(times, t, window)) < limit <=>
           \/ Len(times) < limit
           \/ times[Len(times) - limit + 1] <= t - window
<1>1. PICK kept : kept = Recent(times, t, window)
  OBVIOUS
<1>2. /\ kept \in Times(now) /\ Len(kept) <= Len(times)
      /\ \A k \in 1 .. Len(times) :
           times[Len(times) - k + 1] <= t - window <=> k > Len(kept)
  BY <1>1, RecentKeeps
<1>3. Len(kept) \in Nat /\ Len(times) \in Nat
  BY <1>2 DEF Times
<1>4. CASE limit \in 1 .. Len(times)
  BY <1>2, <1>3, <1>4, <1>1
<1>5. CASE ~(limit \in 1 .. Len(times))
  BY <1>2, <1>3, <1>5, <1>1
<1>6. QED
  BY <1>4, <1>5

(***************************************************************************)
(* Reservations.                                                           *)
(***************************************************************************)
\* A time appended to a file in order is its latest; the others come after it.
LEMMA AppendLatest ==
  ASSUME NEW now \in Nat, NEW times \in Times(now), NEW more, more = Append(times, now)
  PROVE  /\ more \in Times(now) /\ Len(more) = Len(times) + 1
         /\ \A i \in 1 .. Len(times) : more[i] = times[i]
         /\ more[Len(times) + 1] = now
         /\ more[Len(more) - 1 + 1] = now
         /\ \A k \in 2 .. Len(more) :
              more[Len(more) - k + 1] = times[Len(times) - (k - 1) + 1]
<1>1. times \in Seq(0 .. now) /\ Len(times) \in Nat /\ DOMAIN times = 1 .. Len(times)
  BY DEF Times
<1>2. /\ more \in Seq(0 .. now) /\ Len(more) = Len(times) + 1
      /\ \A i \in 1 .. Len(times) : more[i] = times[i]
      /\ more[Len(times) + 1] = now
  BY <1>1, AppendProperties
<1>3. DOMAIN more = 1 .. Len(times) + 1
  BY <1>2
<1>4. Ascending(more)
  <2>1. SUFFICES ASSUME NEW i \in 1 .. Len(times) + 1, NEW j \in 1 .. Len(times) + 1, i <= j
                 PROVE  more[i] <= more[j]
    BY <1>3 DEF Ascending
  <2>2. CASE j = Len(times) + 1
    <3>1. more[i] \in 0 .. now
      BY <1>2, <1>3
    <3>2. QED
      BY <1>2, <2>2, <3>1
  <2>3. CASE j # Len(times) + 1
    <3>1. i \in DOMAIN times /\ j \in DOMAIN times
      BY <1>1, <2>1, <2>3
    <3>2. \A a, b \in DOMAIN times : a <= b => times[a] <= times[b]
      BY DEF Times, Ascending
    <3>3. times[i] <= times[j]
      BY <2>1, <3>1, <3>2
    <3>4. QED
      BY <1>1, <1>2, <3>1, <3>3
  <2>4. QED
    BY <2>2, <2>3
<1>5. more[Len(more) - 1 + 1] = now
  <2>1. Len(more) - 1 + 1 = Len(times) + 1
    BY <1>1, <1>2
  <2>2. QED
    BY <1>2, <2>1
<1>6. ASSUME NEW k \in 2 .. Len(more)
      PROVE  more[Len(more) - k + 1] = times[Len(times) - (k - 1) + 1]
  <2>1. /\ Len(more) - k + 1 = Len(times) - (k - 1) + 1
        /\ Len(more) - k + 1 \in 1 .. Len(times)
    BY <1>1, <1>2, <1>6
  <2>2. QED
    BY <1>2, <2>1
<1>7. QED
  BY <1>2, <1>4, <1>5, <1>6 DEF Times

\* The latest times of a file in order are times, the older the further back.
LEMMA LatestAre ==
  ASSUME NEW now \in Nat, NEW times \in Times(now), NEW k \in 1 .. Len(times)
  PROVE  /\ times[Len(times) - k + 1] \in 0 .. now
         /\ \A j \in k .. Len(times) :
              times[Len(times) - j + 1] <= times[Len(times) - k + 1]
<1>1. times \in Seq(0 .. now) /\ Len(times) \in Nat /\ DOMAIN times = 1 .. Len(times)
  BY DEF Times
<1>2. Len(times) - k + 1 \in DOMAIN times
  BY <1>1
<1>3. ASSUME NEW j \in k .. Len(times)
      PROVE  times[Len(times) - j + 1] <= times[Len(times) - k + 1]
  <2>1. Len(times) - j + 1 \in DOMAIN times /\ Len(times) - j + 1 <= Len(times) - k + 1
    BY <1>1, <1>3
  <2>2. \A a, b \in DOMAIN times : a <= b => times[a] <= times[b]
    BY DEF Times, Ascending
  <2>3. QED
    BY <1>2, <2>1, <2>2
<1>4. QED
  BY <1>1, <1>2, <1>3

\* A reservation is the latest time of the file, which covers what it covered and,
\* if it comes to that, the IDENTIFY operation it was made for.
LEMMA ReservedCovers ==
  ASSUME NEW now \in Nat, NEW l, LedgerTyped(l, now), MayReserve(l, now),
         NEW times \in Times(now), Covers(l, times, now)
  PROVE  /\ LedgerTyped(Reserved(l, now), now)
         /\ Covers(Reserved(l, now), times, now)
         /\ Covers(Reserved(l, now), Append(times, now), now)
<1>1. /\ DayWindow \in Nat \ {0} /\ l.times \in Times(now)
      /\ l.blocked \in Nat /\ l.blocked <= now
  BY BudgetAssumption DEF LedgerTyped, MayReserve
<1>2. PICK kept : kept = Recent(l.times, now, DayWindow)
  OBVIOUS
<1>3. PICK next : next = Append(kept, now)
  OBVIOUS
<1>4. Reserved(l, now) = [times |-> next, blocked |-> 0, readable |-> TRUE]
  BY <1>2, <1>3 DEF Reserved
<1>5. /\ kept \in Times(now) /\ Len(kept) <= Len(l.times)
      /\ \A k \in 1 .. Len(kept) :
           kept[Len(kept) - k + 1] = l.times[Len(l.times) - k + 1]
      /\ \A k \in 1 .. Len(l.times) :
           l.times[Len(l.times) - k + 1] <= now - DayWindow <=> k > Len(kept)
  <2>1. now \in Int /\ DayWindow \in Nat /\ l.times \in Times(now)
    BY <1>1
  <2>2. kept \in Times(now) /\ Len(kept) <= Len(l.times)
    BY <1>2, <2>1, RecentKeeps
  <2>3. \A k \in 1 .. Len(kept) :
          kept[Len(kept) - k + 1] = l.times[Len(l.times) - k + 1]
    BY <1>2, <2>1, RecentKeeps
  <2>4. \A k \in 1 .. Len(l.times) :
          l.times[Len(l.times) - k + 1] <= now - DayWindow <=> k > Len(kept)
    BY <1>2, <2>1, RecentKeeps
  <2>5. QED
    BY <2>2, <2>3, <2>4
<1>6. /\ next \in Times(now) /\ Len(next) = Len(kept) + 1
      /\ next[Len(next) - 1 + 1] = now
      /\ \A k \in 2 .. Len(next) :
           next[Len(next) - k + 1] = kept[Len(kept) - (k - 1) + 1]
  <2>1. kept \in Times(now)
    BY <1>5
  <2>2. /\ next \in Times(now) /\ Len(next) = Len(kept) + 1
        /\ next[Len(next) - 1 + 1] = now
    BY <1>3, <2>1, AppendLatest
  <2>3. \A k \in 2 .. Len(next) :
          next[Len(next) - k + 1] = kept[Len(kept) - (k - 1) + 1]
    BY <1>3, <2>1, AppendLatest
  <2>4. QED
    BY <2>2, <2>3
<1>7. Len(kept) \in Nat /\ Len(l.times) \in Nat /\ Len(times) \in Nat /\ Len(next) \in Nat
  <2>1. \A s \in Times(now) : Len(s) \in Nat
    BY DEF Times
  <2>2. QED
    BY <1>1, <1>5, <1>6, <2>1
<1>8. LedgerTyped(Reserved(l, now), now)
  BY <1>4, <1>6 DEF LedgerTyped
\* Whatever the k-th latest is, the file names one as late after a reservation, and
\* one as late as the k-th latest is the next one in the file.
<1>9. ASSUME NEW k \in 1 .. Len(times), NEW t, t = times[Len(times) - k + 1]
      PROVE  /\ IF k <= Len(next) THEN t <= next[Len(next) - k + 1] ELSE t + DayWindow <= now
             /\ IF k + 1 <= Len(next)
                THEN t <= next[Len(next) - (k + 1) + 1] ELSE t + DayWindow <= now
  <2>1. k \in Nat \ {0} /\ t \in 0 .. now
    BY <1>9, LatestAre
  <2>2. IF k <= Len(l.times)
        THEN t <= l.times[Len(l.times) - k + 1]
        ELSE t + DayWindow <= now \/ t + DayWindow <= l.blocked
    BY <1>9 DEF Covers
  <2>3. k > Len(kept) => t + DayWindow <= now
    <3>1. CASE k <= Len(l.times) /\ k > Len(kept)
      <4>1. k \in 1 .. Len(l.times)
        BY <1>7, <2>1, <3>1
      <4>2. l.times[Len(l.times) - k + 1] <= now - DayWindow
        BY <1>5, <3>1, <4>1
      <4>3. l.times[Len(l.times) - k + 1] \in 0 .. now
        BY <1>1, <4>1, LatestAre
      <4>4. QED
        BY <1>1, <2>1, <2>2, <3>1, <4>2, <4>3
    <3>2. CASE ~(k <= Len(l.times))
      BY <1>1, <2>1, <2>2, <3>2
    <3>3. QED
      BY <3>1, <3>2
  <2>4. ASSUME k <= Len(kept) PROVE t <= next[Len(next) - (k + 1) + 1]
    <3>1. k + 1 \in 2 .. Len(next) /\ (k + 1) - 1 = k /\ k \in 1 .. Len(kept)
      BY <1>6, <1>7, <2>1, <2>4
    <3>2. next[Len(next) - (k + 1) + 1] = kept[Len(kept) - ((k + 1) - 1) + 1]
      BY <1>6, <3>1, Zenon
    <3>3. (k + 1) - 1 = k
      BY <2>1
    <3>4. kept[Len(kept) - k + 1] = l.times[Len(l.times) - k + 1]
      BY <1>5, <3>1
    <3>5. k <= Len(l.times)
      BY <1>5, <1>7, <2>1, <2>4
    <3>6. QED
      BY <2>2, <3>2, <3>4, <3>5, <3>3
  <2>5. IF k + 1 <= Len(next)
        THEN t <= next[Len(next) - (k + 1) + 1] ELSE t + DayWindow <= now
    BY <1>6, <1>7, <2>1, <2>3, <2>4
  <2>6. ASSUME k <= Len(next) PROVE t <= next[Len(next) - k + 1]
    <3>1. k \in 1 .. Len(next)
      BY <1>7, <2>1, <2>6
    <3>2. CASE k = 1
      BY <1>6, <2>1, <3>2
    <3>3. CASE k = Len(next) /\ k # 1
      <4>1. next[Len(next) - k + 1] = kept[Len(kept) - (k - 1) + 1]
        BY <1>6, <1>7, <2>1, <3>1, <3>3
      <4>2. k - 1 \in 1 .. Len(kept) /\ k - 1 \in 1 .. Len(l.times)
        BY <1>5, <1>6, <1>7, <2>1, <3>3
      <4>3. /\ kept[Len(kept) - (k - 1) + 1] = l.times[Len(l.times) - (k - 1) + 1]
            /\ l.times[Len(l.times) - (k - 1) + 1] \in 0 .. now
            /\ ~(l.times[Len(l.times) - (k - 1) + 1] <= now - DayWindow)
        <5>1. ~(k - 1 > Len(kept))
          BY <1>7, <4>2
        <5>2. QED
          BY <1>1, <1>5, <4>2, <5>1, LatestAre
      <4>4. t + DayWindow <= now
        BY <1>6, <1>7, <2>1, <2>3, <3>3
      <4>5. QED
        BY <1>1, <2>1, <4>1, <4>3, <4>4
    <3>4. CASE k < Len(next) /\ k # 1
      <4>1. k \in 1 .. Len(kept) /\ k + 1 \in k .. Len(next)
        BY <1>6, <1>7, <2>1, <3>4
      <4>2. t <= next[Len(next) - (k + 1) + 1]
        BY <1>7, <2>1, <2>4, <4>1
      <4>3. /\ next[Len(next) - (k + 1) + 1] <= next[Len(next) - k + 1]
            /\ next[Len(next) - k + 1] \in 0 .. now
        BY <1>6, <3>1, <4>1, LatestAre
      <4>4. next[Len(next) - (k + 1) + 1] \in 0 .. now
        <5>1. k + 1 \in 1 .. Len(next)
          BY <1>7, <2>1, <3>4
        <5>2. QED
          BY <1>6, <5>1, LatestAre
      <4>5. QED
        BY <2>1, <4>2, <4>3, <4>4
    <3>5. QED
      BY <1>7, <2>1, <2>6, <3>2, <3>3, <3>4
  <2>7. IF k <= Len(next) THEN t <= next[Len(next) - k + 1] ELSE t + DayWindow <= now
    BY <1>6, <1>7, <2>1, <2>3, <2>6
  <2>8. QED
    BY <2>5, <2>7
<1>10. Covers(Reserved(l, now), times, now)
  BY <1>4, <1>9 DEF Covers
<1>11. Covers(Reserved(l, now), Append(times, now), now)
  <2>1. PICK more : more = Append(times, now)
    OBVIOUS
  <2>2. /\ Len(more) = Len(times) + 1 /\ more[Len(more) - 1 + 1] = now
        /\ \A k \in 2 .. Len(more) :
             more[Len(more) - k + 1] = times[Len(times) - (k - 1) + 1]
    BY <2>1, AppendLatest
  <2>3. SUFFICES ASSUME NEW k \in 1 .. Len(more)
                 PROVE  IF k <= Len(next)
                        THEN more[Len(more) - k + 1] <= next[Len(next) - k + 1]
                        ELSE more[Len(more) - k + 1] + DayWindow <= now
    BY <1>4, <2>1 DEF Covers
  <2>4. CASE k = 1
    BY <1>6, <1>7, <2>2, <2>4
  <2>5. CASE k # 1
    <3>1. k \in 2 .. Len(more) /\ k - 1 \in 1 .. Len(times) /\ (k - 1) + 1 = k
      BY <1>7, <2>2, <2>5
    <3>2. more[Len(more) - k + 1] = times[Len(times) - (k - 1) + 1]
      BY <2>2, <3>1
    <3>3. QED
      BY <1>9, <3>1, <3>2
  <2>6. QED
    BY <2>4, <2>5
<1>12. QED
  BY <1>8, <1>10, <1>11

\* A refusal drops what the windows do not need, or replaces what cannot be read by a
\* block that covers every IDENTIFY operation there can have been.
LEMMA RefusedCovers ==
  ASSUME NEW now \in Nat, NEW l, LedgerTyped(l, now), NEW times \in Times(now),
         l.readable => Covers(l, times, now)
  PROVE  LedgerTyped(Refused(l, now), now) /\ Covers(Refused(l, now), times, now)
<1>1. /\ DayWindow \in Nat \ {0} /\ l.times \in Times(now)
      /\ l.blocked \in Nat /\ l.readable \in BOOLEAN
  BY BudgetAssumption DEF LedgerTyped
<1>2. <<>> \in Times(now)
  BY DEF Times, Ascending
<1>3. CASE ~l.readable
  <2>1. Refused(l, now) = [times |-> <<>>, blocked |-> now + DayWindow, readable |-> TRUE]
    BY <1>3 DEF Refused
  <2>2. LedgerTyped(Refused(l, now), now)
    BY <1>1, <1>2, <2>1 DEF LedgerTyped
  <2>3. ASSUME NEW k \in 1 .. Len(times)
        PROVE  times[Len(times) - k + 1] + DayWindow <= now + DayWindow
    <3>1. times[Len(times) - k + 1] \in 0 .. now
      BY LatestAre
    <3>2. QED
      BY <1>1, <3>1
  <2>4. \A k \in 1 .. Len(times) : ~(k <= Len(<<>>))
    OBVIOUS
  <2>5. QED
    BY <2>1, <2>2, <2>3, <2>4 DEF Covers
<1>4. CASE l.readable /\ l.blocked > now
  BY <1>4 DEF Refused
<1>5. CASE l.readable /\ ~(l.blocked > now)
  <2>1. PICK kept : kept = Recent(l.times, now, DayWindow)
    OBVIOUS
  <2>2. Refused(l, now) = [times |-> kept, blocked |-> 0, readable |-> TRUE]
    BY <1>5, <2>1 DEF Refused
  <2>3. now \in Int /\ DayWindow \in Nat /\ l.times \in Times(now)
    BY <1>1
  <2>4. kept \in Times(now) /\ Len(kept) <= Len(l.times)
    BY <2>1, <2>3, RecentKeeps
  <2>5. \A k \in 1 .. Len(kept) :
          kept[Len(kept) - k + 1] = l.times[Len(l.times) - k + 1]
    <3>1. PICK old : old = l.times
      OBVIOUS
    <3>2. old \in Times(now) /\ kept = Recent(old, now, DayWindow)
      BY <2>1, <2>3, <3>1
    <3>3. \A k \in 1 .. Len(kept) : kept[Len(kept) - k + 1] = old[Len(old) - k + 1]
      BY <2>3, <3>2, RecentKeeps
    <3>4. QED
      BY <3>1, <3>3
  <2>6. \A k \in 1 .. Len(l.times) :
          l.times[Len(l.times) - k + 1] <= now - DayWindow <=> k > Len(kept)
    BY <2>1, <2>3, RecentKeeps
  <2>7. LedgerTyped(Refused(l, now), now)
    BY <2>2, <2>4 DEF LedgerTyped
  <2>8. Len(kept) \in Nat /\ Len(l.times) \in Nat
    <3>1. \A s \in Times(now) : Len(s) \in Nat
      BY DEF Times
    <3>2. QED
      BY <1>1, <2>4, <3>1
  <2>9. ASSUME NEW k \in 1 .. Len(times), NEW t, t = times[Len(times) - k + 1]
        PROVE  IF k <= Len(kept) THEN t <= kept[Len(kept) - k + 1] ELSE t + DayWindow <= now
    <3>1. k \in Nat \ {0} /\ t \in 0 .. now
      BY <2>9, LatestAre
    <3>2. IF k <= Len(l.times)
          THEN t <= l.times[Len(l.times) - k + 1]
          ELSE t + DayWindow <= now \/ t + DayWindow <= l.blocked
      BY <1>5, <2>9 DEF Covers
    <3>3. CASE k <= Len(kept)
      <4>1. k \in 1 .. Len(kept) /\ k <= Len(l.times)
        BY <2>4, <2>8, <3>1, <3>3
      <4>2. QED
        BY <2>5, <3>2, <3>3, <4>1
    <3>4. CASE k > Len(kept) /\ k <= Len(l.times)
      <4>1. k \in 1 .. Len(l.times)
        BY <2>8, <3>1, <3>4
      <4>2. l.times[Len(l.times) - k + 1] <= now - DayWindow
        BY <2>6, <3>4, <4>1
      <4>3. l.times[Len(l.times) - k + 1] \in 0 .. now
        BY <1>1, <4>1, LatestAre
      <4>4. ~(k <= Len(kept))
        BY <2>8, <3>1, <3>4
      <4>5. QED
        BY <1>1, <3>1, <3>2, <3>4, <4>2, <4>3, <4>4
    <3>5. CASE ~(k <= Len(l.times))
      <4>1. ~(k <= Len(kept))
        BY <2>4, <2>8, <3>1, <3>5
      <4>2. QED
        BY <1>1, <1>5, <3>1, <3>2, <3>5, <4>1
    <3>6. QED
      BY <2>8, <3>1, <3>3, <3>4, <3>5
  <2>10. Covers(Refused(l, now), times, now)
    BY <2>2, <2>9 DEF Covers
  <2>11. QED
    BY <2>7, <2>10
<1>6. QED
  BY <1>1, <1>3, <1>4, <1>5

\* What a file allows keeps the windows: the limit-th latest IDENTIFY operation is a
\* window ago.
LEMMA SpacedGrows ==
  ASSUME NEW now \in Nat, NEW l, LedgerTyped(l, now), MayReserve(l, now),
         NEW times \in Times(now), Covers(l, times, now),
         NEW limit, NEW window, <<limit, window>> \in {<<HourLimit, HourWindow>>, <<DayLimit, DayWindow>>},
         Spaced(times, limit, window)
  PROVE  Spaced(Append(times, now), limit, window)
<1>1. /\ limit \in Nat \ {0} /\ window \in Nat \ {0} /\ DayWindow \in Nat \ {0}
      /\ window <= DayWindow
  BY BudgetAssumption
<1>2. /\ l.times \in Times(now) /\ l.blocked \in Nat /\ l.blocked <= now
      /\ Len(Recent(l.times, now, window)) < limit
  BY DEF LedgerTyped, MayReserve
<1>3. Len(l.times) < limit \/ l.times[Len(l.times) - limit + 1] <= now - window
  <2>1. now \in Int /\ window \in Nat
    BY <1>1
  <2>2. QED
    BY <1>1, <1>2, <2>1, FullIs
<1>4. PICK more : more = Append(times, now)
  OBVIOUS
<1>5. /\ Len(more) = Len(times) + 1 /\ more[Len(times) + 1] = now
      /\ \A i \in 1 .. Len(times) : more[i] = times[i]
  BY <1>4, AppendLatest
<1>6. Len(times) \in Nat /\ Len(l.times) \in Nat
  BY <1>2 DEF Times
<1>7. SUFFICES ASSUME NEW i \in 1 .. Len(more) - limit
               PROVE  more[i] + window <= more[i + limit]
  BY <1>4 DEF Spaced
<1>8. CASE i + limit <= Len(times)
  <2>1. i \in 1 .. Len(times) - limit /\ i \in 1 .. Len(times) /\ i + limit \in 1 .. Len(times)
    BY <1>1, <1>5, <1>6, <1>8
  <2>2. QED
    BY <1>5, <2>1 DEF Spaced
<1>9. CASE ~(i + limit <= Len(times))
  <2>1. /\ i + limit = Len(times) + 1 /\ limit \in 1 .. Len(times)
        /\ i = Len(times) - limit + 1 /\ i \in 1 .. Len(times)
    BY <1>1, <1>5, <1>6, <1>9
  <2>2. times[i] \in 0 .. now
    BY <2>1, LatestAre
  <2>3. IF limit <= Len(l.times)
        THEN times[i] <= l.times[Len(l.times) - limit + 1]
        ELSE times[i] + DayWindow <= now \/ times[i] + DayWindow <= l.blocked
    BY <2>1 DEF Covers
  <2>4. times[i] + window <= now
    <3>1. CASE limit <= Len(l.times)
      <4>1. limit \in 1 .. Len(l.times)
        BY <1>1, <1>6, <3>1
      <4>2. l.times[Len(l.times) - limit + 1] \in 0 .. now
        BY <1>2, <4>1, LatestAre
      <4>3. l.times[Len(l.times) - limit + 1] <= now - window
        BY <1>1, <1>3, <1>6, <3>1
      <4>4. QED
        BY <1>1, <2>2, <2>3, <3>1, <4>2, <4>3
    <3>2. CASE ~(limit <= Len(l.times))
      BY <1>1, <1>2, <2>2, <2>3, <3>2
    <3>3. QED
      BY <3>1, <3>2
  <2>5. QED
    BY <1>5, <2>1, <2>4
<1>10. QED
  BY <1>8, <1>9

\* IDENTIFY operations that are spaced leave no window with more than its limit.
LEMMA SpacedHolds ==
  ASSUME NEW now \in Nat, NEW times \in Times(now), NEW limit \in Nat \ {0},
         NEW window \in Nat, Spaced(times, limit, window), NEW t \in Nat
  PROVE  Cardinality({i \in DOMAIN times : times[i] \in t - window + 1 .. t}) <= limit
<1> DEFINE within == {i \in DOMAIN times : times[i] \in t - window + 1 .. t}
<1>1. times \in Seq(0 .. now) /\ Len(times) \in Nat /\ DOMAIN times = 1 .. Len(times)
  BY DEF Times
<1>2. CASE within = {}
  BY <1>2, FS_EmptySet
<1>3. CASE within # {}
  <2>1. within \in SUBSET Nat
    BY <1>1
  <2>2. PICK a \in within : \A i \in within : a <= i
    BY <1>3, <2>1, LeastElement
  <2>3. ASSUME NEW i \in within PROVE i \in a .. a + limit - 1
    <3>1. SUFFICES ASSUME i > a + limit - 1 PROVE FALSE
      BY <2>1, <2>2, <2>3
    <3>2. i \in 1 .. Len(times) /\ a \in 1 .. Len(times)
      BY <1>1, <2>2, <2>3
    <3>3. a + limit \in 1 .. Len(times) /\ a + limit <= i /\ a \in 1 .. Len(times) - limit
      <4>1. i \in Nat /\ a \in Nat \ {0} /\ limit \in Nat \ {0} /\ Len(times) \in Nat /\ i <= Len(times)
        BY <1>1, <3>2
      <4>2. a + limit <= i
        BY <3>1, <4>1
      <4>3. QED
        BY <4>1, <4>2
    <3>4. /\ a + limit \in DOMAIN times /\ a + limit <= i /\ a \in 1 .. Len(times) - limit
          /\ i \in DOMAIN times
      BY <1>1, <3>2, <3>3
    <3>5. \A k, j \in DOMAIN times : k <= j => times[k] <= times[j]
      BY DEF Times, Ascending
    <3>6. times[a + limit] <= times[i]
      BY <3>4, <3>5
    <3>7. times[a] + window <= times[a + limit]
      BY <3>4 DEF Spaced
    <3>8. times[i] \in 0 .. now /\ times[a + limit] \in 0 .. now /\ times[a] \in 0 .. now
      BY <1>1, <2>2, <3>4
    <3>9. times[i] <= t /\ times[a] >= t - window + 1
      BY <2>2, <2>3, <3>8
    <3>10. QED
      BY <3>6, <3>7, <3>8, <3>9
  <2>4. IsFiniteSet(a .. a + limit - 1) /\ Cardinality(a .. a + limit - 1) = limit
    <3>1. a \in Int /\ a + limit - 1 \in Int
      BY <2>1, <2>2
    <3>2. /\ IsFiniteSet(a .. a + limit - 1)
          /\ Cardinality(a .. a + limit - 1)
               = IF a > a + limit - 1 THEN 0 ELSE (a + limit - 1) - a + 1
      BY <3>1, FS_Interval
    <3>3. (IF a > a + limit - 1 THEN 0 ELSE (a + limit - 1) - a + 1) = limit
      BY <3>1
    <3>4. QED
      BY <3>2, <3>3
  <2>5. within \in SUBSET (a .. a + limit - 1)
    BY <2>3
  <2>6. Cardinality(within) <= Cardinality(a .. a + limit - 1)
    BY <2>4, <2>5, FS_Subset
  <2>7. QED
    BY <2>4, <2>6
<1>4. QED
  BY <1>2, <1>3

(***************************************************************************)
(* The wait.                                                               *)
(***************************************************************************)
Limits == {<<HourLimit, HourWindow>>, <<DayLimit, DayWindow>>}

\* A time is free in a window: the limit-th latest reservation is not in it.
Free(times, limit, window, t) ==
  Len(times) < limit \/ times[Len(times) - limit + 1] <= t - window

LEMMA LimitsAre ==
  /\ \A pair \in Limits : pair = <<pair[1], pair[2]>>
  /\ \A pair \in Limits :
       pair[1] \in Nat \ {0} /\ pair[2] \in Nat \ {0} /\ pair[2] <= DayWindow
  /\ DayWindow \in Nat \ {0}
BY BudgetAssumption DEF Limits

LEMMA MayReserveIs ==
  ASSUME NEW now \in Nat, NEW l, l.times \in Times(now), NEW t \in Int
  PROVE  MayReserve(l, t) <=>
           /\ l.readable /\ l.blocked <= t
           /\ \A pair \in Limits : Free(l.times, pair[1], pair[2], t)
<1>1. ASSUME NEW limit \in Nat \ {0}, NEW window \in Nat
      PROVE  Len(Recent(l.times, t, window)) < limit <=> Free(l.times, limit, window, t)
  BY <1>1, FullIs DEF Free
<1>2. /\ HourLimit \in Nat \ {0} /\ DayLimit \in Nat \ {0}
      /\ HourWindow \in Nat /\ DayWindow \in Nat
  BY BudgetAssumption
<1>3. (\A pair \in Limits : Free(l.times, pair[1], pair[2], t)) <=>
        Free(l.times, HourLimit, HourWindow, t) /\ Free(l.times, DayLimit, DayWindow, t)
  BY DEF Limits
<1>4. MayReserve(l, t) <=>
        /\ l.readable /\ l.blocked <= t
        /\ Free(l.times, HourLimit, HourWindow, t) /\ Free(l.times, DayLimit, DayWindow, t)
  BY <1>1, <1>2 DEF MayReserve
<1>5. QED
  BY <1>3, <1>4

\* A slot of a full window comes free a window after its limit-th latest time.
LEMMA ReadyTimesAre ==
  ASSUME NEW now \in Nat, NEW l, l.times \in Times(now)
  PROVE  ReadyTimes(l, now) =
           {l.times[Len(l.times) - pair[1] + 1] + pair[2] :
              pair \in {p \in Limits : ~Free(l.times, p[1], p[2], now)}}
<1>1. PICK old \in Times(now) : old = l.times
  OBVIOUS
<1> DEFINE freed(limit, window) ==
             LET recent == Recent(old, now, window)
             IN IF Len(recent) < limit THEN {} ELSE {recent[Len(recent) - limit + 1] + window}
           ready(limit, window) == old[Len(old) - limit + 1] + window
<1>2. ASSUME NEW limit \in Nat \ {0}, NEW window \in Nat
      PROVE  freed(limit, window) =
               IF Free(old, limit, window, now) THEN {} ELSE {ready(limit, window)}
  <2>1. PICK kept : kept = Recent(old, now, window)
    OBVIOUS
  <2>2. kept \in Times(now) /\ Len(kept) \in Nat
    <3>1. now \in Int
      OBVIOUS
    <3>2. kept \in Times(now)
      BY <1>2, <2>1, <3>1, RecentKeeps
    <3>3. QED
      BY <3>2 DEF Times
  <2>3. Len(kept) < limit <=> Free(old, limit, window, now)
    BY <1>2, <2>1, FullIs DEF Free
  <2>4. ASSUME ~(Len(kept) < limit)
        PROVE  kept[Len(kept) - limit + 1] = old[Len(old) - limit + 1]
    <3>1. limit \in 1 .. Len(kept) /\ now \in Int
      BY <1>2, <2>2, <2>4
    <3>2. \A k \in 1 .. Len(kept) : kept[Len(kept) - k + 1] = old[Len(old) - k + 1]
      BY <1>2, <2>1, <3>1, RecentKeeps
    <3>3. QED
      BY <3>1, <3>2
  <2>5. QED
    BY <2>1, <2>3, <2>4
<1>3. ReadyTimes(l, now) = freed(HourLimit, HourWindow) \union freed(DayLimit, DayWindow)
  BY <1>1 DEF ReadyTimes
<1> HIDE DEF freed, ready
<1>4. freed(HourLimit, HourWindow)
        = IF Free(old, HourLimit, HourWindow, now) THEN {} ELSE {ready(HourLimit, HourWindow)}
  BY <1>2, BudgetAssumption
<1>5. freed(DayLimit, DayWindow)
        = IF Free(old, DayLimit, DayWindow, now) THEN {} ELSE {ready(DayLimit, DayWindow)}
  BY <1>2, BudgetAssumption
<1>6. {ready(pair[1], pair[2]) : pair \in {p \in Limits : ~Free(old, p[1], p[2], now)}}
        = freed(HourLimit, HourWindow) \union freed(DayLimit, DayWindow)
  <2>1. PICK hour, day : hour = <<HourLimit, HourWindow>> /\ day = <<DayLimit, DayWindow>>
    OBVIOUS
  <2>2. /\ Limits = {hour, day}
        /\ hour[1] = HourLimit /\ hour[2] = HourWindow
        /\ day[1] = DayLimit /\ day[2] = DayWindow
    BY <2>1 DEF Limits
  <2>3. QED
    BY <1>4, <1>5, <2>2
<1>7. QED
  BY <1>3, <1>6, <1>1 DEF ready

\* After a refusal for want of a slot, the wait ends when the last of the full windows
\* has one.
LEMMA SlotWaitIsExact ==
  ASSUME NEW now \in Nat, NEW l, LedgerTyped(l, now), l.readable, ~(l.blocked > now),
         ~MayReserve(l, now), NEW wait, wait = SlotWait(l, now)
  PROVE  /\ wait \in Nat /\ wait > 0
         /\ Refused(l, now).times \in Times(now)
         /\ MayReserve(Refused(l, now), now + wait)
         /\ \A t \in now .. now + wait - 1 : ~MayReserve(Refused(l, now), t)
<1>1. /\ DayWindow \in Nat \ {0} /\ l.times \in Times(now) /\ l.blocked \in Nat
      /\ now \in Int
  BY BudgetAssumption DEF LedgerTyped
<1>2. PICK old \in Times(now) : old = l.times
  BY <1>1
<1>3. PICK kept : kept = Recent(old, now, DayWindow)
  OBVIOUS
<1>4. Refused(l, now) = [times |-> kept, blocked |-> 0, readable |-> TRUE]
  BY <1>2, <1>3 DEF Refused
<1>5. kept \in Times(now) /\ Len(kept) <= Len(old)
  BY <1>1, <1>3, RecentKeeps
<1>6. \A k \in 1 .. Len(kept) : kept[Len(kept) - k + 1] = old[Len(old) - k + 1]
  BY <1>1, <1>3, RecentKeeps
<1>7. \A k \in 1 .. Len(old) : old[Len(old) - k + 1] <= now - DayWindow <=> k > Len(kept)
  BY <1>1, <1>3, RecentKeeps
<1>8. Len(kept) \in Nat /\ Len(old) \in Nat
  BY <1>5 DEF Times
<1> DEFINE full == {p \in Limits : ~Free(old, p[1], p[2], now)}
           ready(p) == old[Len(old) - p[1] + 1] + p[2]
<1>9. ReadyTimes(l, now) = {ready(p) : p \in full}
  BY <1>1, <1>2, ReadyTimesAre
<1>10. ASSUME NEW p \in full
       PROVE  /\ p[1] \in Nat \ {0} /\ p[2] \in Nat \ {0} /\ p[2] <= DayWindow
              /\ p[1] \in 1 .. Len(old) /\ old[Len(old) - p[1] + 1] \in 0 .. now
              /\ ready(p) \in Nat /\ ready(p) > now
  <2>1. p[1] \in Nat \ {0} /\ p[2] \in Nat \ {0} /\ p[2] <= DayWindow
    BY LimitsAre
  <2>2. ~(Len(old) < p[1]) /\ ~(old[Len(old) - p[1] + 1] <= now - p[2])
    BY DEF Free
  <2>3. p[1] \in 1 .. Len(old)
    BY <1>8, <2>1, <2>2
  <2>4. old[Len(old) - p[1] + 1] \in 0 .. now
    BY <2>3, LatestAre
  <2>5. QED
    BY <2>1, <2>2, <2>3, <2>4
<1>11. full # {}
  <2>1. l.blocked <= now
    BY <1>1
  <2>2. QED
    BY <1>1, <1>2, <2>1, MayReserveIs
<1> HIDE DEF full, ready
<1>12. PICK r \in ReadyTimes(l, now) : \A u \in ReadyTimes(l, now) : u <= r
  <2>1. full \subseteq Limits
    BY DEF full
  <2>2. PICK p \in full : \A q \in full : ready(q) <= ready(p)
    <3>1. PICK a, b : Limits = {a, b}
      BY DEF Limits
    <3>2. CASE full = {a}
      BY <1>10, <3>2
    <3>3. CASE full = {b}
      BY <1>10, <3>3
    <3>4. CASE a \in full /\ b \in full
      <4>1. ready(a) \in Nat /\ ready(b) \in Nat
        BY <1>10, <3>4
      <4>2. full = {a, b}
        BY <2>1, <3>1, <3>4
      <4>3. CASE ready(a) <= ready(b)
        BY <4>1, <4>2, <4>3
      <4>4. CASE ready(b) <= ready(a)
        BY <4>1, <4>2, <4>4
      <4>5. QED
        BY <4>1, <4>3, <4>4
    <3>5. QED
      BY <1>11, <2>1, <3>1, <3>2, <3>3, <3>4
  <2>3. QED
    BY <1>9, <2>2
<1>13. ReadyTimes(l, now) \subseteq Nat
  BY <1>9, <1>10
<1>14. wait = r - now
  <2>1. wait = (CHOOSE t \in ReadyTimes(l, now) : \A u \in ReadyTimes(l, now) : u <= t) - now
    BY DEF SlotWait
  <2>2. PICK last : last = CHOOSE t \in ReadyTimes(l, now) : \A u \in ReadyTimes(l, now) : u <= t
    OBVIOUS
  <2>3. last \in ReadyTimes(l, now) /\ \A u \in ReadyTimes(l, now) : u <= last
    BY <1>12, <2>2
  <2>4. last = r
    BY <1>12, <1>13, <2>3
  <2>5. QED
    BY <2>1, <2>2, <2>4
<1>15. wait \in Nat /\ wait > 0 /\ now + wait = r
  BY <1>9, <1>10, <1>12, <1>14
<1>16. ASSUME NEW t \in Int
       PROVE  MayReserve(Refused(l, now), t) <=>
                0 <= t /\ \A pair \in Limits : Free(kept, pair[1], pair[2], t)
  BY <1>4, <1>5, MayReserveIs
<1>17. MayReserve(Refused(l, now), now + wait)
  <2>1. SUFFICES ASSUME NEW p \in Limits PROVE Free(kept, p[1], p[2], r)
    BY <1>13, <1>15, <1>16
  <2>2. p[1] \in Nat \ {0} /\ p[2] \in Nat \ {0}
    BY LimitsAre
  <2>3. SUFFICES ASSUME ~(Len(kept) < p[1]) PROVE kept[Len(kept) - p[1] + 1] <= r - p[2]
    BY DEF Free
  <2>4. p[1] \in 1 .. Len(kept) /\ p[1] \in 1 .. Len(old)
    BY <1>5, <1>8, <2>2, <2>3
  <2>5. /\ kept[Len(kept) - p[1] + 1] = old[Len(old) - p[1] + 1]
        /\ old[Len(old) - p[1] + 1] \in 0 .. now
    BY <1>6, <2>4, LatestAre
  <2>6. r \in Nat
    BY <1>12, <1>13
  <2>7. CASE p \in full
    <3>1. ready(p) <= r
      BY <1>9, <1>12, <2>7
    <3>2. QED
      BY <2>2, <2>5, <2>6, <3>1 DEF ready
  <2>8. CASE p \notin full
    <3>1. Free(old, p[1], p[2], now)
      BY <2>8 DEF full
    <3>2. old[Len(old) - p[1] + 1] <= now - p[2]
      BY <1>8, <2>4, <3>1 DEF Free
    <3>3. QED
      <4>1. PICK x : x = old[Len(old) - p[1] + 1]
        OBVIOUS
      <4>2. x \in 0 .. now /\ x <= now - p[2]
        BY <2>5, <3>2, <4>1
      <4>3. now < r
        BY <1>15
      <4>4. x <= r - p[2]
        BY <2>2, <2>6, <4>2, <4>3
      <4>5. QED
        BY <2>5, <4>1, <4>4
  <2>9. QED
    BY <2>7, <2>8
<1>18. ASSUME NEW t \in now .. now + wait - 1 PROVE ~MayReserve(Refused(l, now), t)
  <2>1. PICK p \in full : r = ready(p)
    BY <1>9, <1>12
  <2>2. /\ p[1] \in Nat \ {0} /\ p[2] \in Nat \ {0} /\ p[2] <= DayWindow
        /\ p[1] \in 1 .. Len(old) /\ old[Len(old) - p[1] + 1] \in 0 .. now
        /\ ready(p) \in Nat /\ ready(p) > now
    BY <1>10
  <2>3. ~(old[Len(old) - p[1] + 1] <= now - DayWindow)
    BY <1>1, <2>2 DEF ready
  <2>4. p[1] \in 1 .. Len(kept)
    BY <1>7, <1>8, <2>2, <2>3
  <2>5. kept[Len(kept) - p[1] + 1] = old[Len(old) - p[1] + 1]
    BY <1>6, <2>4
  <2>6. t \in Int /\ t < r
    BY <1>15, <1>18
  <2>7. ~(kept[Len(kept) - p[1] + 1] <= t - p[2])
    BY <2>1, <2>2, <2>5, <2>6 DEF ready
  <2>8. ~Free(kept, p[1], p[2], t)
    BY <1>8, <2>4, <2>7 DEF Free
  <2>9. p \in Limits
    BY DEF full
  <2>10. QED
    BY <1>16, <2>6, <2>8, <2>9
<1>19. Refused(l, now).times \in Times(now)
  BY <1>4, <1>5
<1>20. QED
  BY <1>15, <1>17, <1>18, <1>19

\* A slot that is free stays free while the file stays as it is.
LEMMA MayReserveLater ==
  ASSUME NEW now \in Nat, NEW l, l.times \in Times(now), l.blocked \in Nat,
         NEW t \in Int, NEW u \in Int, t <= u, MayReserve(l, t)
  PROVE  MayReserve(l, u)
<1>1. l.readable /\ l.blocked <= t /\ \A pair \in Limits : Free(l.times, pair[1], pair[2], t)
  BY MayReserveIs
<1>2. l.blocked <= u
  BY <1>1
<1>3. ASSUME NEW p \in Limits, ~(Len(l.times) < p[1])
      PROVE  l.times[Len(l.times) - p[1] + 1] <= u - p[2]
  <2>1. l.times[Len(l.times) - p[1] + 1] <= t - p[2]
    BY <1>1, <1>3 DEF Free
  <2>2. p[1] \in Nat \ {0} /\ p[2] \in Nat \ {0} /\ Len(l.times) \in Nat
    BY LimitsAre DEF Times
  <2>3. p[1] \in 1 .. Len(l.times)
    BY <1>3, <2>2
  <2>4. l.times[Len(l.times) - p[1] + 1] \in 0 .. now
    BY <2>3, LatestAre
  <2>5. QED
    BY <2>1, <2>2, <2>4
<1>4. \A pair \in Limits : Free(l.times, pair[1], pair[2], u)
  BY <1>3 DEF Free
<1>5. QED
  BY <1>1, <1>2, <1>4, MayReserveIs

\* An empty file always has a slot.
LEMMA EmptyHasSlot ==
  ASSUME NEW l, l.times = <<>>, l.readable, NEW t \in Int
  PROVE  MayReserve(l, t) <=> l.blocked <= t
<1>1. <<>> \in Times(0)
  BY DEF Times, Ascending
<1>2. \A pair \in Limits : Free(l.times, pair[1], pair[2], t)
  <2>1. Len(l.times) = 0
    OBVIOUS
  <2>2. QED
    BY <2>1, LimitsAre DEF Free
<1>3. QED
  BY <1>1, <1>2, MayReserveIs

\* After any refusal the wait ends with a slot, and but for the least wait there is
\* none before.
LEMMA RefusalIsExact ==
  ASSUME NEW now \in Nat, NEW l, LedgerTyped(l, now), ~MayReserve(l, now),
         NEW wait, wait = Delay(l, now), NEW next, next = Refused(l, now)
  PROVE  /\ wait \in Nat
         /\ MayReserve(next, now + wait)
         /\ \A t \in now + MinWait .. now + wait - 1 : ~MayReserve(next, t)
<1>1. DayWindow \in Nat \ {0} /\ MinWait \in Nat \ {0} /\ l.blocked \in Nat
  BY BudgetAssumption DEF LedgerTyped
<1>2. CASE ~l.readable
  <2>1. next = [times |-> <<>>, blocked |-> now + DayWindow, readable |-> TRUE]
    BY <1>2 DEF Refused
  <2>2. wait = DayWindow
    BY <1>2 DEF Delay
  <2>3. QED
    BY <1>1, <2>1, <2>2, EmptyHasSlot
<1>3. CASE l.readable /\ l.blocked > now
  <2>1. next = l /\ wait = l.blocked - now
    BY <1>3 DEF Refused, Delay
  <2>2. l.times = <<>>
    BY <1>1, <1>3 DEF LedgerTyped
  <2>3. QED
    BY <1>1, <1>3, <2>1, <2>2, EmptyHasSlot
<1>4. CASE l.readable /\ ~(l.blocked > now)
  <2>1. PICK slot : slot = SlotWait(l, now)
    OBVIOUS
  <2>2. /\ slot \in Nat /\ next.times \in Times(now)
        /\ MayReserve(next, now + slot)
        /\ \A t \in now .. now + slot - 1 : ~MayReserve(next, t)
    BY <1>4, <2>1, SlotWaitIsExact
  <2>3. wait = IF slot > MinWait THEN slot ELSE MinWait
    BY <1>4, <2>1 DEF Delay
  <2>4. wait \in Nat /\ slot <= wait
    BY <1>1, <2>2, <2>3
  <2>5. next.blocked \in Nat
    BY <1>4 DEF Refused
  <2>6. MayReserve(next, now + wait)
    <3>1. now + slot \in Int /\ now + wait \in Int /\ now + slot <= now + wait
      BY <2>2, <2>4
    <3>2. QED
      BY <2>2, <2>5, <3>1, MayReserveLater
  <2>7. ASSUME NEW t \in now + MinWait .. now + wait - 1
        PROVE  ~MayReserve(next, t)
    <3>1. t \in now .. now + slot - 1
      BY <1>1, <2>2, <2>3, <2>7
    <3>2. QED
      BY <2>2, <3>1
  <2>8. QED
    BY <2>4, <2>6, <2>7
<1>5. QED
  BY <1>2, <1>3, <1>4

(***************************************************************************)
(* The budget's invariant.                                                 *)
(***************************************************************************)
LEMMA TimesGrow ==
  ASSUME NEW now \in Nat, NEW later \in Nat, now <= later, NEW times \in Times(now)
  PROVE  times \in Times(later)
<1>1. times \in Seq(0 .. now) /\ Ascending(times)
  BY DEF Times
<1>2. 0 .. now \subseteq 0 .. later
  OBVIOUS
<1>3. times \in Seq(0 .. later)
  BY <1>1, <1>2
<1>4. QED
  BY <1>1, <1>3 DEF Times

\* Nothing used, nothing on file.
LEMMA EmptyBudget ==
  ASSUME clock' \in Nat, identified' = <<>>,
         ledger' = [times |-> <<>>, blocked |-> 0, readable |-> TRUE]
  PROVE  BudgetInv'
<1>1. <<>> \in Times(clock') /\ Len(<<>>) = 0
  BY DEF Times, Ascending
<1>2. Covers(ledger', identified', clock')
  BY DEF Covers
<1>3. Spaced(identified', HourLimit, HourWindow) /\ Spaced(identified', DayLimit, DayWindow)
  BY BudgetAssumption DEF Spaced
<1>4. QED
  BY <1>1, <1>2, <1>3 DEF BudgetInv, LedgerTyped

LEMMA RefusalKeeps ==
  ASSUME BudgetInv, ~MayReserve(ledger, clock), ledger' = Refused(ledger, clock),
         clock' = clock, identified' = identified
  PROVE  BudgetInv'
<1>1. /\ clock \in Nat /\ LedgerTyped(ledger, clock) /\ identified \in Times(clock)
      /\ ledger.readable => Covers(ledger, identified, clock)
  BY DEF BudgetInv
<1>2. LedgerTyped(ledger', clock) /\ Covers(ledger', identified, clock)
  BY <1>1, RefusedCovers
<1>3. QED
  BY <1>1, <1>2 DEF BudgetInv

LEMMA BudgetInit == Init => BudgetInv
<1> SUFFICES ASSUME Init PROVE BudgetInv
  OBVIOUS
<1>1. /\ clock = 0 /\ identified = <<>>
      /\ ledger = [times |-> <<>>, blocked |-> 0, readable |-> TRUE]
  BY DEF Init, EmptyLedger
<1>2. <<>> \in Times(0) /\ Len(<<>>) = 0
  BY DEF Times, Ascending
<1>3. Covers(ledger, identified, clock)
  BY <1>1 DEF Covers
<1>4. Spaced(identified, HourLimit, HourWindow) /\ Spaced(identified, DayLimit, DayWindow)
  BY <1>1, BudgetAssumption DEF Spaced
<1>5. QED
  BY <1>1, <1>2, <1>3, <1>4 DEF BudgetInv, LedgerTyped

\* A reservation, with its IDENTIFY or without, keeps the invariant.
LEMMA ReservationKeeps ==
  ASSUME BudgetInv, MayReserve(ledger, clock), ledger' = Reserved(ledger, clock),
         clock' = clock, identified' \in {identified, Append(identified, clock)}
  PROVE  BudgetInv'
<1>1. /\ clock \in Nat /\ LedgerTyped(ledger, clock) /\ identified \in Times(clock)
      /\ Covers(ledger, identified, clock)
  BY DEF BudgetInv, MayReserve
<1>2. /\ LedgerTyped(ledger', clock)
      /\ Covers(ledger', identified, clock) /\ Covers(ledger', Append(identified, clock), clock)
  BY <1>1, ReservedCovers
<1>3. identified' \in Times(clock)
  BY <1>1, AppendLatest
<1>4. /\ Spaced(identified, HourLimit, HourWindow) /\ Spaced(identified, DayLimit, DayWindow)
      /\ Spaced(Append(identified, clock), HourLimit, HourWindow)
      /\ Spaced(Append(identified, clock), DayLimit, DayWindow)
  BY <1>1, SpacedGrows DEF BudgetInv
<1>5. QED
  BY <1>1, <1>2, <1>3, <1>4 DEF BudgetInv

LEMMA BudgetStep == BudgetInv /\ [Next]_vars => BudgetInv'
<1> SUFFICES ASSUME BudgetInv, [Next]_vars PROVE BudgetInv'
  OBVIOUS
<1>1. /\ clock \in Nat /\ LedgerTyped(ledger, clock) /\ identified \in Times(clock)
      /\ ledger.readable => Covers(ledger, identified, clock)
      /\ Spaced(identified, HourLimit, HourWindow) /\ Spaced(identified, DayLimit, DayWindow)
  BY DEF BudgetInv
<1>2. CASE UNCHANGED <<clock, ledger, identified>>
  BY <1>1, <1>2 DEF BudgetInv
<1>3. CASE \E exact \in BOOLEAN : Identify(exact)
  BY <1>3, ReservationKeeps DEF Identify
<1>4. CASE Refuse
  <2>1. ledger' = Refused(ledger, clock) /\ clock' = clock /\ identified' = identified
    BY <1>4 DEF Refuse
  <2>2. ~MayReserve(ledger, clock)
    BY <1>4 DEF Refuse
  <2>3. QED
    BY <2>1, <2>2, RefusalKeeps
<1>5. CASE Crash
  <2>1. clock' = clock /\ identified' = identified
    BY <1>5 DEF Crash
  <2>2. ledger' = ledger \/ (MayReserve(ledger, clock) /\ ledger' = Reserved(ledger, clock))
    BY <1>5 DEF Crash
  <2>3. QED
    BY <1>2, <2>1, <2>2, ReservationKeeps
<1>12. CASE SendFails
  <2>1. MayReserve(ledger, clock) /\ ledger' = Reserved(ledger, clock)
    BY <1>12 DEF SendFails
  <2>2. clock' = clock /\ identified' = identified
    BY <1>12 DEF SendFails
  <2>3. QED
    BY <2>1, <2>2, ReservationKeeps
<1>13. CASE Unavailable
  <2>1. clock' = clock /\ identified' = identified
    BY <1>13 DEF Unavailable
  <2>2. \/ ledger' = ledger
        \/ MayReserve(ledger, clock) /\ ledger' = Reserved(ledger, clock)
        \/ ledger' = Refused(ledger, clock) /\ ~MayReserve(ledger, clock)
    BY <1>13 DEF Unavailable
  <2>3. QED
    BY <1>2, <2>1, <2>2, ReservationKeeps, RefusalKeeps
<1>14. CASE Lose
  <2>1. /\ ledger' = [times |-> <<>>, blocked |-> 0, readable |-> TRUE]
        /\ clock' = clock /\ identified' = <<>>
    BY <1>14 DEF Lose, EmptyLedger
  <2>2. QED
    BY <1>1, <2>1, EmptyBudget
<1>6. CASE Corrupt
  <2>1. /\ ledger' = [times |-> <<>>, blocked |-> 0, readable |-> FALSE]
        /\ clock' = clock /\ identified' = identified
    BY <1>6 DEF Corrupt
  <2>2. <<>> \in Times(clock)
    BY DEF Times, Ascending
  <2>3. LedgerTyped(ledger', clock) /\ ~ledger'.readable
    BY <2>1, <2>2 DEF LedgerTyped
  <2>4. QED
    BY <1>1, <2>1, <2>3 DEF BudgetInv
<1>7. CASE Tick
  <2>1. clock' = clock + 1 /\ ledger' = ledger /\ identified' = identified
    BY <1>7 DEF Tick, budgetVars
  <2>2. clock' \in Nat /\ clock <= clock'
    BY <1>1, <2>1
  <2>3. ledger.times \in Times(clock)
    BY <1>1 DEF LedgerTyped
  <2>4. ledger.times \in Times(clock') /\ identified \in Times(clock')
    BY <1>1, <2>2, <2>3, TimesGrow
  <2>5. LedgerTyped(ledger', clock')
    BY <1>1, <2>1, <2>4 DEF LedgerTyped
  <2>6. ASSUME ledger.readable, NEW k \in 1 .. Len(identified), NEW t,
               t = identified[Len(identified) - k + 1]
        PROVE  IF k <= Len(ledger.times)
               THEN t <= ledger.times[Len(ledger.times) - k + 1]
               ELSE t + DayWindow <= clock' \/ t + DayWindow <= ledger.blocked
    <3>1. IF k <= Len(ledger.times)
          THEN t <= ledger.times[Len(ledger.times) - k + 1]
          ELSE t + DayWindow <= clock \/ t + DayWindow <= ledger.blocked
      BY <1>1, <2>6 DEF Covers
    <3>2. t \in 0 .. clock
      BY <1>1, <2>6, LatestAre
    <3>3. DayWindow \in Nat
      BY BudgetAssumption
    <3>4. QED
      BY <1>1, <2>2, <3>1, <3>2, <3>3
  <2>7. ledger'.readable => Covers(ledger', identified', clock')
    BY <2>1, <2>6 DEF Covers
  <2>8. QED
    BY <1>1, <2>1, <2>2, <2>4, <2>5, <2>7 DEF BudgetInv
<1>8. Client => UNCHANGED <<clock, ledger, identified>>
  BY DEF Client, Connect, Resume, InvalidSession, ReceiveReady, ReceiveGuild, ReceiveDenied,
         Enqueue, Acknowledge, MarkReady, CommitClick, budgetVars
<1>9. (\E c \in Clicks : Drainer(c) \/ Release(c)) => UNCHANGED <<clock, ledger, identified>>
  BY DEF Drainer, ActivateStale, Claim, Finish, Release, budgetVars
<1>10. (Drop \/ CommitFails \/ Expire \/ (\E c \in Clicks \union Strays : Click(c))
          \/ Outage \/ Recover \/ UNCHANGED vars)
         => UNCHANGED <<clock, ledger, identified>>
  BY DEF Drop, CommitFails, Expire, Click, Outage, Recover, Emit, vars, budgetVars
<1>11. QED
  BY <1>2, <1>3, <1>4, <1>5, <1>6, <1>7, <1>8, <1>9, <1>10, <1>12, <1>13, <1>14 DEF Next

LEMMA BudgetInvariance == Spec => []BudgetInv
BY BudgetInit, BudgetStep, PTL DEF Spec

\* Since the file was last lost no hour and no day has seen more IDENTIFY operations
\* than its limit: neither a restart between a reservation and its IDENTIFY nor a file
\* that cannot be read or written makes room for one.
THEOREM BudgetsHold == Spec => []BudgetHolds
<1>1. BudgetInv => BudgetHolds
  <2>1. SUFFICES ASSUME BudgetInv, NEW t \in 0 .. MaxTime,
                        NEW limit, NEW window, <<limit, window>> \in Limits
                 PROVE  Cardinality({i \in DOMAIN identified :
                                       identified[i] \in t - window + 1 .. t}) <= limit
    BY DEF BudgetHolds, Limits
  <2>2. /\ clock \in Nat /\ identified \in Times(clock) /\ t \in Nat
        /\ limit \in Nat \ {0} /\ window \in Nat
    BY <2>1, GatewayAssumption, BudgetAssumption DEF BudgetInv, Limits
  <2>3. Spaced(identified, limit, window)
    BY <2>1 DEF BudgetInv, Limits
  <2>4. QED
    BY <2>2, <2>3, SpacedHolds
<1>2. QED
  BY <1>1, BudgetInvariance, PTL

(***************************************************************************)
(* The sleep.                                                              *)
(***************************************************************************)
SleepInv ==
  /\ SleepTyped
  /\ conn # "waiting" => sleep = NoSleep
  /\ WaitIsExact

LEMMA NoSleepIs ==
  /\ NoSleep \in [at : Nat, until : Nat, reason : {"none", "budget", "outage"}]
  /\ NoSleep.reason = "none"
BY DEF NoSleep

\* A step after which nobody waits for a budget that refused.
LEMMA SleepEnds ==
  ASSUME sleep' = NoSleep
  PROVE  SleepInv'
BY NoSleepIs DEF SleepInv, SleepTyped, WaitIsExact

\* A step that leaves the file and the sleep alone.
LEMMA SleepStays ==
  ASSUME SleepInv, UNCHANGED <<ledger, sleep>>, conn' # "waiting" => sleep = NoSleep
  PROVE  SleepInv'
<1>1. CASE conn = "waiting"
  BY <1>1 DEF SleepInv, SleepTyped, WaitIsExact
<1>2. CASE conn # "waiting"
  <2>1. sleep' = NoSleep
    BY <1>2 DEF SleepInv
  <2>2. QED
    BY <2>1, SleepEnds
<1>3. QED
  BY <1>1, <1>2

LEMMA SleepStep == BudgetInv /\ SleepInv /\ [Next]_vars => SleepInv'
<1> SUFFICES ASSUME BudgetInv, SleepInv, [Next]_vars PROVE SleepInv'
  OBVIOUS
<1>1. clock \in Nat /\ LedgerTyped(ledger, clock) /\ DayWindow \in Nat \ {0}
  BY BudgetAssumption DEF BudgetInv
<1>2. CASE (\E exact \in BOOLEAN : Identify(exact)) \/ Crash \/ SendFails
  <2>1. sleep' = NoSleep
    BY <1>2 DEF Identify, Crash, SendFails
  <2>2. QED
    BY <2>1, SleepEnds
<1>3. CASE Refuse
  <2>1. PICK wait : wait = Delay(ledger, clock)
    OBVIOUS
  <2>2. /\ conn' = "waiting" /\ ~MayReserve(ledger, clock) /\ ledger' = Refused(ledger, clock)
        /\ sleep' = [at |-> clock, until |-> clock + wait, reason |-> "budget"]
    BY <1>3, <2>1 DEF Refuse, Asks
  <2>3. /\ wait \in Nat
        /\ MayReserve(ledger', clock + wait)
        /\ \A t \in clock + MinWait .. clock + wait - 1 : ~MayReserve(ledger', t)
    BY <1>1, <2>1, <2>2, RefusalIsExact
  <2>4. sleep'.at = clock /\ sleep'.until = clock + wait
    BY <2>2
  <2>5. SleepTyped'
    BY <1>1, <2>2, <2>3 DEF SleepTyped
  <2>6. WaitIsExact'
    <3>1. PICK at, until : at = clock /\ until = clock + wait
      OBVIOUS
    <3>2. sleep'.at = at /\ sleep'.until = until
      BY <2>4, <3>1
    <3>3. MayReserve(ledger', until)
      BY <2>3, <3>1
    <3>4. \A t \in at + MinWait .. until - 1 : ~MayReserve(ledger', t)
      <4>1. clock \in Nat /\ wait \in Nat /\ MinWait \in Nat
        BY <1>1, <2>3, BudgetAssumption
      <4>2. at + MinWait .. until - 1 = clock + MinWait .. clock + wait - 1
        BY <3>1, <4>1
      <4>3. QED
        BY <2>3, <4>2
    <3>5. QED
      BY <3>2, <3>3, <3>4 DEF WaitIsExact
  <2>7. QED
    BY <2>2, <2>5, <2>6 DEF SleepInv
<1>4. CASE Unavailable
  <2>1. /\ conn' = "waiting"
        /\ sleep' = [at |-> clock, until |-> clock + DayWindow, reason |-> "outage"]
    BY <1>4 DEF Unavailable, Asks
  <2>2. SleepTyped' /\ sleep'.reason = "outage"
    BY <1>1, <2>1 DEF SleepTyped
  <2>3. QED
    BY <2>1, <2>2 DEF SleepInv, WaitIsExact
<1>5. CASE Corrupt
  <2>1. /\ UNCHANGED <<conn, sleep>>
        /\ ledger' = [times |-> <<>>, blocked |-> 0, readable |-> FALSE]
    BY <1>5 DEF Corrupt
  <2>2. ~ledger'.readable /\ \A t : ~MayReserve(ledger', t)
    BY <2>1 DEF MayReserve
  <2>3. QED
    BY <2>1, <2>2 DEF SleepInv, SleepTyped, WaitIsExact
<1>6. CASE Lose
  <2>1. /\ UNCHANGED <<conn, sleep>>
        /\ ledger' = EmptyLedger
    BY <1>6 DEF Lose
  <2>2. sleep.until \in Nat
    BY DEF SleepInv, SleepTyped
  <2>3. MayReserve(EmptyLedger, sleep.until)
    BY <2>2, EmptyHasSlot DEF EmptyLedger
  <2>4. QED
    BY <2>1, <2>3 DEF SleepInv, SleepTyped, WaitIsExact
<1>7. CASE Client
  BY <1>7, SleepStays
    DEF Client, Connect, Resume, InvalidSession, ReceiveReady, ReceiveGuild, ReceiveDenied,
        Commit, Receiving, Enqueue, Acknowledge, MarkReady, CommitClick, budgetVars, SleepInv
<1>8. CASE Drop \/ CommitFails
  BY <1>8, SleepStays DEF Drop, CommitFails, budgetVars, SleepInv
<1>9. CASE UNCHANGED <<ledger, sleep, conn>>
  BY <1>9, SleepStays DEF SleepInv
<1>10. (\E c \in Clicks : Drainer(c) \/ Release(c)) => UNCHANGED <<ledger, sleep, conn>>
  BY DEF Drainer, ActivateStale, Claim, Finish, Release, budgetVars
<1>11. (Expire \/ (\E c \in Clicks \union Strays : Click(c)) \/ Outage \/ Recover \/ Tick
          \/ UNCHANGED vars)
         => UNCHANGED <<ledger, sleep, conn>>
  BY DEF Expire, Click, Outage, Recover, Emit, Tick, vars, budgetVars
<1>12. QED
  BY <1>2, <1>3, <1>4, <1>5, <1>6, <1>7, <1>8, <1>9, <1>10, <1>11 DEF Next

LEMMA SleepInvariance == Spec => []SleepInv
<1>1. Init => SleepInv
  <2>1. Init => sleep = NoSleep
    BY DEF Init
  <2>2. sleep = NoSleep => SleepInv
    BY NoSleepIs DEF SleepInv, SleepTyped, WaitIsExact
  <2>3. QED
    BY <2>1, <2>2
<1>2. QED
  BY <1>1, SleepStep, BudgetInvariance, PTL DEF Spec

\* A client that the budget refused sleeps until both windows have a slot and, but for
\* the least wait, no longer.
THEOREM WaitsAreExact == Spec => []WaitIsExact
<1>1. SleepInv => WaitIsExact
  BY DEF SleepInv
<1>2. QED
  BY <1>1, SleepInvariance, PTL

\* The client, its checkpoint and the inbox are in the states the code gives them,
\* and the inbox keeps its cap.
THEOREM Typing == Spec => []TypeOK
<1>1. Inv /\ SleepInv => TypeOK
  BY TypesOK DEF Inv, SleepInv
<1>. QED BY <1>1, Invariance, SleepInvariance, PTL
=============================================================================
