------------------------- MODULE DiscordPermissions -------------------------
(***************************************************************************)
(* What Discord lets a member do in a channel, and what the two verifiers  *)
(* accept: conversations/discord_permissions.py for the Claude bot, and    *)
(* codex_discord_bridge/discord_permissions.py with the audience check of  *)
(* codex_discord_bridge/discord_io.py for the Codex bot.                   *)
(*                                                                         *)
(* A bitfield is the set of its permissions, and permissions that all      *)
(* policies treat alike share a name: "manage" stands for the other        *)
(* management permissions, "polls" for the others forbidden in a channel   *)
(* only, "converse" for sending and reading, "react" for reactions and     *)
(* sending in threads.  An overwrite that a channel does not have is one   *)
(* that allows and denies nothing.                                         *)
(***************************************************************************)

CONSTANTS
  Roles,     \* the roles of the guild besides @everyone
  Members,   \* the members of the guild
  Channels,  \* its channels and categories
  Bot,       \* the bot that is verified
  Owner,     \* the configured owner
  Chat,      \* the channel it works in
  Errors,    \* the channel of Claude's error messages; may be Chat
  Parents    \* the declared categories of these channels

Permissions ==
  {"administrator", "manage", "manage_threads", "public_threads",
   "private_threads", "view", "converse", "react", "attach", "polls"}

ThreadPowers == {"manage_threads", "public_threads", "private_threads"}
ForbiddenInGuild == {"administrator", "manage", "manage_threads"}
ForbiddenInChannel == ForbiddenInGuild \cup {"private_threads", "polls"}

Overwrite == [allow : SUBSET Permissions, deny : SUBSET Permissions]
Overwrites == [everyone : Overwrite, role : [Roles -> Overwrite],
               member : [Members -> Overwrite]]
Guild == [everyone : SUBSET Permissions, role : [Roles -> SUBSET Permissions],
          has : [Members -> SUBSET Roles], owner : Members,
          channel : [Channels -> Overwrites]]

-----------------------------------------------------------------------------
(* The calculation *)

Apply(permissions, overwrite) ==
  (permissions \ overwrite.deny) \cup overwrite.allow

\* The permissions a member has in the guild.
Base(g, m) == g.everyone \cup UNION {g.role[r] : r \in g.has[m]}

\* The overwrites of a member's roles, taken together.
OfRoles(o, roles) ==
  [allow |-> UNION {o.role[r].allow : r \in roles},
   deny |-> UNION {o.role[r].deny : r \in roles}]

\* Mutant: the roles' overwrites are applied before @everyone's.
RolesFirst(g, o, m) ==
  Apply(Apply(Apply(Base(g, m), OfRoles(o, g.has[m])), o.everyone),
        o.member[m])

\* _bot_permissions: @everyone, then the roles, then the member.
InChannel(g, o, m) ==
  Apply(Apply(Apply(Base(g, m), o.everyone), OfRoles(o, g.has[m])),
        o.member[m])

\* _public_everyone_permissions: a member without roles.
Baseline(g, o) ==
  IF "administrator" \in g.everyone
  THEN g.everyone \cup {"view"}
  ELSE Apply(g.everyone, o.everyone)

\* _effective_view_channel
MayView(g, o, m) ==
  \/ m = g.owner
  \/ "administrator" \in Base(g, m)
  \/ "view" \in InChannel(g, o, m)

\* What Discord grants.  The most specific overwrite that mentions a
\* permission decides, and within one kind an allow; the guild's owner and
\* administrators have everything, and who cannot see a channel can do nothing
\* in it.
Decided(g, o, m, p) ==
  LET roles == g.has[m]
      ByMember == p \in o.member[m].allow \cup o.member[m].deny
      ByRole == \E r \in roles : p \in o.role[r].allow \cup o.role[r].deny
      ByEveryone == p \in o.everyone.allow \cup o.everyone.deny
  IN  \/ p \in o.member[m].allow
      \/ ~ByMember /\ \E r \in roles : p \in o.role[r].allow
      \/ ~ByMember /\ ~ByRole /\ p \in o.everyone.allow
      \/ ~ByMember /\ ~ByRole /\ ~ByEveryone /\ p \in Base(g, m)

Granted(g, o, m) ==
  IF m = g.owner \/ "administrator" \in Base(g, m) THEN Permissions
  ELSE {p \in Permissions : Decided(g, o, m, p) /\ Decided(g, o, m, "view")}

-----------------------------------------------------------------------------
(* What both verifiers ask of the guild *)

BotIsLimited(g) ==
  /\ g.owner # Bot
  /\ Base(g, Bot) \cap ForbiddenInGuild = {}

\* The bot sees no channel but the configured ones and their categories.
SeesOnly(g, channels) ==
  \A c \in Channels \ (channels \cup Parents) :
    "view" \notin InChannel(g, g.channel[c], Bot)

-----------------------------------------------------------------------------
(* Claude: verify_discord_permissions *)

ClaudeRequired(c) ==
  (IF c = Chat THEN {"view", "converse", "react", "attach", "public_threads"}
   ELSE {})
    \cup (IF c = Errors THEN {"view", "converse"} ELSE {})

\* What a channel or category that the bot sees may grant it.
Restrained(g, c) ==
  LET granted == InChannel(g, g.channel[c], Bot)
  IN  "view" \in granted => granted \cap ForbiddenInChannel = {}

ClaudeAccepts(g) ==
  /\ BotIsLimited(g)
  /\ SeesOnly(g, {Chat, Errors})
  /\ \A c \in {Chat, Errors} \cup Parents : Restrained(g, c)
  /\ "view" \in Baseline(g, g.channel[Chat])
  /\ Baseline(g, g.channel[Chat]) \cap ThreadPowers = {}
  /\ \A c \in {Chat, Errors} :
       ClaudeRequired(c) \subseteq InChannel(g, g.channel[c], Bot)

\* What the policy of the Claude bot demands, by what Discord grants.
LeastPrivilege(g) ==
  /\ BotIsLimited(g)
  /\ \A c \in Channels \ ({Chat, Errors} \cup Parents) :
       Granted(g, g.channel[c], Bot) = {}
  /\ \A c \in {Chat, Errors} \cup Parents :
       Granted(g, g.channel[c], Bot) \cap ForbiddenInChannel = {}
  /\ \A c \in {Chat, Errors} :
       ClaudeRequired(c) \subseteq Granted(g, g.channel[c], Bot)
  /\ "view" \in Baseline(g, g.channel[Chat])
  /\ Baseline(g, g.channel[Chat]) \cap ThreadPowers = {}

-----------------------------------------------------------------------------
(* The Codex bridge: verify_runtime_security_posture *)

\* _validate_public_thread_overwrite_topology
OnlyBotRestores(o) ==
  /\ ThreadPowers \subseteq o.everyone.deny
  /\ "public_threads" \in o.member[Bot].allow \ o.member[Bot].deny
  /\ o.everyone.allow \cap ThreadPowers = {}
  /\ \A r \in Roles : o.role[r].allow \cap ThreadPowers = {}
  /\ \A m \in Members :
       o.member[m].allow \cap ThreadPowers
         \subseteq IF m = Bot THEN {"public_threads"} ELSE {}

\* _verify_private_channel_audience
AudienceIsPrivate(g, o) ==
  /\ "view" \in o.everyone.deny \ o.everyone.allow
  /\ \A r \in Roles : "view" \notin o.role[r].allow
  /\ \A m \in {Owner, Bot} : "view" \in o.member[m].allow \ o.member[m].deny
  /\ \A m \in Members \ {Owner, Bot} : "view" \notin o.member[m].allow
  /\ g.owner = Owner
  /\ \A m \in Members : MayView(g, o, m) <=> m \in {Owner, Bot}

BridgeAccepts(g, trust) ==
  LET o == g.channel[Chat]
      granted == InChannel(g, o, Bot)
  IN  /\ BotIsLimited(g)
      /\ SeesOnly(g, {Chat})
      /\ "view" \in Baseline(g, o) <=> trust = "public"
      /\ Baseline(g, o) \cap ThreadPowers = {}
      /\ granted \cap (ForbiddenInChannel \cup {"attach"}) = {}
      /\ {"view", "converse", "react", "public_threads"} \subseteq granted
      /\ OnlyBotRestores(o)
      /\ trust = "owner_private" => AudienceIsPrivate(g, o)

=============================================================================
