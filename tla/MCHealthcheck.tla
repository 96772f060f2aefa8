--------------------------- MODULE MCHealthcheck ---------------------------
EXTENDS Healthcheck

Nothing == [allow |-> {}, deny |-> {}]
Grants(p) == [allow |-> p, deny |-> {}]
Denies(p) == [allow |-> {}, deny |-> p]

RolesC == {"helper"}
MembersC == {"bot", "owner"}
ChannelsC == {"chat", "errors", "category", "lounge"}

Plain == [everyone |-> Nothing, role |-> [r \in RolesC |-> Nothing],
          member |-> [m \in MembersC |-> Nothing]]

\* The guild as the installation sets it up: @everyone sees the chat, the bot
\* opens threads in it, and the lounge is closed to the bot.
Sound ==
  [everyone |-> {"view", "converse", "react", "public_threads"},
   role |-> [r \in RolesC |-> {"attach"}],
   has |-> [m \in MembersC |-> {"helper"}],
   owner |-> "owner",
   channel |->
     [c \in ChannelsC |->
        CASE c = "chat" ->
               [Plain EXCEPT !.everyone = Denies(ThreadPowers),
                             !.member["bot"] = Grants({"public_threads"})]
          [] c = "lounge" -> [Plain EXCEPT !.member["bot"] = Denies({"view"})]
          [] OTHER -> Plain]]

\* The lounge shows itself to the bot's role; @everyone may open threads; the
\* role is an administrator's.
Curious == [Sound EXCEPT !.channel["lounge"] =
              [Plain EXCEPT !.everyone = Denies({"view"}),
                            !.role["helper"] = Grants({"view"})]]
Loose == [Sound EXCEPT !.channel["chat"].everyone = Denies({"manage_threads"})]
Mighty == [Sound EXCEPT !.role["helper"] = {"attach", "administrator"}]

ConfigC == [sound |-> Sound, curious |-> Curious, loose |-> Loose,
            mighty |-> Mighty]
ParentsC == {"category"}
=============================================================================
