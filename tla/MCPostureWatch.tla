--------------------------- MODULE MCPostureWatch ---------------------------
EXTENDS PostureWatch

Nothing == [allow |-> {}, deny |-> {}]
Grants(p) == [allow |-> p, deny |-> {}]
Denies(p) == [allow |-> {}, deny |-> p]

MembersC == {"bot", "owner", "guest"}
ChannelsC == {"chat", "category"}

\* An owner_private channel, and the same where a guest was let in.
Private ==
  [everyone |-> {"view", "converse", "react"},
   role |-> <<>>,
   has |-> [m \in MembersC |-> {}],
   owner |-> "owner",
   channel |->
     [c \in ChannelsC |->
        [everyone |-> Denies({"view"} \cup ThreadPowers),
         role |-> <<>>,
         member |-> [m \in MembersC |->
                       CASE m = "bot" -> Grants({"view", "public_threads"})
                         [] m = "owner" -> Grants({"view"})
                         [] OTHER -> Nothing]]]]
Leaky == [Private EXCEPT !.channel["chat"].member["guest"] = Grants({"view"})]

ConfigC == [private |-> Private, leaky |-> Leaky]
RolesC == {}
ParentsC == {"category"}
=============================================================================
