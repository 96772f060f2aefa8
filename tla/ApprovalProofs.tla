--------------------------- MODULE ApprovalProofs ---------------------------
(***************************************************************************)
(* Theorems about Approval, for any number of requests, routers, clicks    *)
(* and faults.                                                             *)
(***************************************************************************)
EXTENDS Approval, TLAPS

-----------------------------------------------------------------------------
(* The types, by their owners *)

RouterRecord == [pc : RouterPc, click : 0..MaxClicks, for : Requests \cup {None}]
RowRecord ==
  [state : {"absent", "pending", "processing", "done"}, attempts : Nat]
ClickRecord == [on : Requests, choice : Choices]

RequestsTyped ==
  /\ request \in [Requests -> RequestRecord]
  /\ binding \in Requests \cup {None}
  /\ marker \in Decisions \cup {None}
DiscordTyped ==
  /\ expired \subseteq Requests /\ prompts \subseteq Requests /\ armed \subseteq Requests
InboxTyped ==
  /\ clicks \in Seq(ClickRecord) /\ Len(clicks) <= MaxClicks
  /\ inbox \in [1..MaxClicks -> RowRecord]
RoutersTyped ==
  /\ router \in [Routers -> RouterRecord]
  /\ drainer \in Routers \cup {None}
  /\ client \in {"up", "down"}

Typed ==
  RequestsTyped /\ DiscordTyped /\ InboxTyped /\ RoutersTyped /\ faults \in 0..MaxFaults

\* The parts are the type invariant.
LEMMA TypesOK == Typed => TypeOK
BY DEF Typed, TypeOK, RequestsTyped, DiscordTyped, InboxTyped, RoutersTyped,
   RouterRecord, RowRecord, ClickRecord

-----------------------------------------------------------------------------
(* The invariant *)

Early == {"new", "unlink", "clear", "post"}

\* A request that has its prompt keeps it.
Prompted(r) == r \in Requests /\ request[r].pc \notin Early

\* Click n is on the prompt of request r.
Matches(n, r) ==
  /\ n \in 1..Len(clicks)
  /\ Prompted(r)
  /\ clicks[n].on = request[r].prompt

\* Only clicks that were made have rows and routers, and the drainer waits for
\* a router that is under way.
ClicksAreMade ==
  /\ \A n \in 1..MaxClicks : inbox[n].state # "absent" => n \in 1..Len(clicks)
  /\ \A k \in Routers : router[k].pc # "none" => router[k].click \in 1..Len(clicks)
  /\ drainer # None => router[drainer].pc # "none"

\* What a router read in a binding, and what a marker says, stays true of the
\* request, whether or not the binding is still there.
BoundToPrompt ==
  /\ binding # None => Prompted(binding)
  /\ marker # None => Matches(marker.click, marker.for)
  /\ \A k \in Routers :
       router[k].pc \in {"read", "link"} => Matches(router[k].click, router[k].for)

\* A prompt that is about to be bound or armed was posted.
PromptIsPosted ==
  \A r \in Requests : request[r].pc \in {"bind", "arm"} => request[r].prompt \in Requests

\* A request that returned a decision has its prompt.
DecidedOnPrompt ==
  \A r \in Requests : request[r].result \in Choices => Prompted(r)

Inv ==
  /\ Typed /\ ClicksAreMade /\ BoundToPrompt /\ PromptIsPosted
  /\ DecidedOnPrompt /\ DecisionIsClicked

-----------------------------------------------------------------------------
(* What the steps do *)

\* Request r alone is written.
Writes(r, p, m, what) ==
  /\ request' \in [Requests -> RequestRecord]
  /\ \A q \in Requests \ {r} : request'[q] = request[q]
  /\ request'[r].pc = p /\ request'[r].prompt = m /\ request'[r].result = what

LEMMA Going ==
  ASSUME RequestsTyped, NEW r \in Requests, NEW p \in RequestPc, Goes(r, p)
  PROVE  Writes(r, p, request[r].prompt, request[r].result)
BY DEF RequestsTyped, RequestRecord, Goes, Writes

LEMMA Returning ==
  ASSUME RequestsTyped, NEW r \in Requests, NEW p \in RequestPc, NEW what \in Results,
         Returns(r, p, what)
  PROVE  Writes(r, p, request[r].prompt, what)
BY DEF RequestsTyped, RequestRecord, Returns, Writes

LEMMA Prompting ==
  ASSUME RequestsTyped, NEW r \in Requests, NEW p \in RequestPc, NEW m \in Requests,
         request' = [request EXCEPT ![r].pc = p, ![r].prompt = m]
  PROVE  Writes(r, p, m, request[r].result)
BY DEF RequestsTyped, RequestRecord, Writes

\* Router k alone is written.
Leaves(k, p, n, r) ==
  /\ router' \in [Routers -> RouterRecord]
  /\ \A l \in Routers \ {k} : router'[l] = router[l]
  /\ router'[k].pc = p /\ router'[k].click = n /\ router'[k].for = r

LEMMA Turning ==
  ASSUME RoutersTyped, NEW k \in Routers, NEW p \in RouterPc, Turns(k, p)
  PROVE  Leaves(k, p, router[k].click, router[k].for)
BY DEF RoutersTyped, RouterRecord, Turns, Leaves

LEMMA Binding ==
  ASSUME RoutersTyped, NEW k \in Routers, NEW p \in RouterPc, NEW r \in Requests,
         router' = [router EXCEPT ![k].pc = p, ![k].for = r]
  PROVE  Leaves(k, p, router[k].click, r)
BY DEF RoutersTyped, RouterRecord, Leaves

LEMMA Starting ==
  ASSUME RoutersTyped, NEW k \in Routers, NEW p \in RouterPc, NEW n \in 0..MaxClicks,
         router' = [router EXCEPT ![k] = [pc |-> p, click |-> n, for |-> None]]
  PROVE  Leaves(k, p, n, None)
BY DEF RoutersTyped, RouterRecord, Leaves

LEMMA Freeing ==
  ASSUME RoutersTyped, NEW k \in Routers, router' = [router EXCEPT ![k] = NoRouter]
  PROVE  Leaves(k, "none", 0, None)
<1>1. "none" \in RouterPc /\ 0 \in 0..MaxClicks
  BY ApprovalAssumption DEF RouterPc
<1>2. router' = [router EXCEPT ![k] = [pc |-> "none", click |-> 0, for |-> None]]
  BY DEF NoRouter
<1> QED
  BY <1>1, <1>2, Starting

-----------------------------------------------------------------------------
(* The steps of a request *)

\* It keeps its prompt once it has it, takes no decision but that of a marker
\* bound to it, binds only itself and writes no marker.
RequestEffect(r) ==
  /\ RequestsTyped'
  /\ \A q \in Requests \ {r} : request'[q] = request[q]
  /\ Prompted(r) => Prompted(r)' /\ request'[r].prompt = request[r].prompt
  /\ request'[r].pc \in {"bind", "arm"} => request'[r].prompt \in Requests
  /\ \/ request'[r].result = request[r].result
     \/ request'[r].result \notin Choices
     \/ /\ marker # None /\ marker.for = r
        /\ request'[r].result = clicks[marker.click].choice
  /\ binding' \in {binding, None} \/ (binding' = r /\ Prompted(r)')
  /\ marker' \in {marker, None}
  /\ UNCHANGED <<inboxVars, clientVars, router>>

\* It writes its own record and neither file.
LEMMA Moving ==
  ASSUME RequestsTyped, NEW r \in Requests, NEW p \in RequestPc, NEW m, NEW what,
         Writes(r, p, m, what),
         m = request[r].prompt \/ ~Prompted(r),
         Prompted(r) => p \notin Early,
         p \in {"bind", "arm"} => m \in Requests,
         what = request[r].result \/ what \notin Choices,
         binding' \in {binding, None} \/ (binding' = r /\ p \notin Early),
         marker' \in {marker, None},
         UNCHANGED <<inboxVars, clientVars, router>>
  PROVE  RequestEffect(r)
<1>1. RequestsTyped'
  BY DEF RequestsTyped, Writes
<1>2. p \notin Early => Prompted(r)'
  BY DEF Prompted, Writes
<1> QED
  BY <1>1, <1>2 DEF RequestEffect, Writes

LEMMA RequestSteps ==
  ASSUME Typed, BoundToPrompt, PromptIsPosted, NEW r \in Requests, RequestStep(r)
  PROVE  RequestEffect(r)
<1> USE DEF Typed, Prompted, At, files, discordVars
<1>0. /\ Early \cup {"bind", "arm", "poll", "consume", "strip", "unbind", "exit", "killed"}
        = RequestPc
      /\ {"refused", "failed", "timeout"} \subseteq Results \ Choices
  BY DEF RequestPc, Early, Results, Choices
<1>1. CASE ClearMarker(r)
  BY <1>0, <1>1, Going, Moving DEF ClearMarker, Early
<1>2. CASE Arm(r)
  BY <1>0, <1>2, Going, Moving DEF Arm, Early
<1>3. CASE Consume(r)
  BY <1>0, <1>3, Going, Moving DEF Consume, Early
<1>4. CASE Strip(r)
  BY <1>0, <1>4, Going, Moving DEF Strip, Early
<1>5. CASE Unbind(r)
  BY <1>0, <1>5, Going, Moving DEF Unbind, Early
<1>6. CASE KillRequest(r)
  BY <1>0, <1>6, Going, Moving DEF KillRequest, Early
<1>7. CASE PostFails(r)
  <2>1. Writes(r, "exit", request[r].prompt, "failed")
    BY <1>0, <1>7, Returning DEF PostFails
  <2> QED
    BY <1>0, <1>7, <2>1, Moving DEF PostFails, Early
<1>8. CASE ArmFails(r)
  BY <1>0, <1>8, Returning, Moving DEF ArmFails, Early
<1>9. CASE Timeout(r)
  BY <1>0, <1>9, Returning, Moving DEF Timeout, Early
<1>10. CASE Ensure(r)
  BY <1>0, <1>10, Going, Returning, Moving DEF Ensure, Early
<1>11. CASE Unlink(r)
  BY <1>0, <1>11, Going, Returning, Moving DEF Unlink, Early
<1>12. CASE Bind(r)
  <2>1. CASE binding = None
    BY <1>0, <1>12, <2>1, Going, Moving DEF Bind, Early, PromptIsPosted
  <2>2. CASE binding # None
    BY <1>0, <1>12, <2>2, Returning, Moving DEF Bind, Early
  <2> QED
    BY <2>1, <2>2
<1>13. CASE PostPrompt(r)
  <2>1. PICK m \in prompts \cup {r} :
          request' = [request EXCEPT ![r].pc = "bind", ![r].prompt = m]
    BY <1>13 DEF PostPrompt
  <2>2. m \in Requests /\ ~Prompted(r)
    BY <1>13, <2>1 DEF PostPrompt, DiscordTyped, Early
  <2>3. Writes(r, "bind", m, request[r].result)
    BY <1>0, <2>1, <2>2, Prompting
  <2> QED
    BY <1>0, <1>13, <2>2, <2>3, Moving DEF PostPrompt, Early
<1>14. CASE Poll(r)
  <2>1. CASE marker.for = r
    <3>1. marker.click \in 1..Len(clicks)
      BY <1>14 DEF Poll, BoundToPrompt, Matches
    <3>2. clicks[marker.click] \in ClickRecord
      BY <3>1 DEF InboxTyped
    <3>3. clicks[marker.click].choice \in Results
      BY <3>2 DEF ClickRecord, Results
    <3> QED
      BY <1>0, <1>14, <2>1, <3>3, Returning DEF Poll, Writes, RequestEffect, RequestsTyped, Early
  <2>2. CASE marker.for # r
    BY <1>0, <1>14, <2>2, Returning, Moving DEF Poll, Early
  <2> QED
    BY <2>1, <2>2
<1> QED
  BY <1>1, <1>2, <1>3, <1>4, <1>5, <1>6, <1>7, <1>8, <1>9, <1>10, <1>11, <1>12, <1>13, <1>14
     DEF RequestStep

-----------------------------------------------------------------------------
(* The steps of a router *)

\* It keeps its click, reads only a binding to the message that was clicked, and
\* writes a marker only where there is none.
RouterEffect(k) ==
  /\ RoutersTyped'
  /\ \A l \in Routers \ {k} : router'[l] = router[l]
  /\ router'[k].pc # "none" =>
       router[k].pc # "none" /\ router'[k].click = router[k].click
  /\ router'[k].pc = "none" => drainer # k
  /\ router'[k].pc \in {"read", "link"} =>
       \/ router[k].pc \in {"read", "link"} /\ router'[k].for = router[k].for
       \/ Matches(router'[k].click, router'[k].for)
  /\ \/ marker' = marker
     \/ marker = None /\ marker' = Decision(k) /\ router[k].pc = "link"
  /\ UNCHANGED <<request, binding, inboxVars, clientVars>>

\* It goes to a step after its decision is made.
LEMMA GoingOn ==
  ASSUME RoutersTyped, NEW k \in Routers, NEW p \in RouterPc,
         router[k].pc # "none", p # "none", Turns(k, p),
         p \in {"read", "link"} => router[k].pc \in {"read", "link"},
         \/ marker' = marker
         \/ marker = None /\ marker' = Decision(k) /\ router[k].pc = "link",
         UNCHANGED <<request, binding, inboxVars, clientVars>>
  PROVE  RouterEffect(k)
<1>1. Leaves(k, p, router[k].click, router[k].for)
  BY Turning
<1>2. RoutersTyped'
  BY <1>1 DEF RoutersTyped, Leaves, clientVars
<1> QED
  BY <1>1, <1>2 DEF RouterEffect, Leaves

LEMMA RouterSteps ==
  ASSUME Typed, ClicksAreMade, BoundToPrompt, NEW k \in Routers, RouterStep(k)
  PROVE  RouterEffect(k)
<1> USE DEF Typed, Runs, files, discordVars
<1>0. RouterPc = {"none", "load", "read", "link", "patch", "strip"} \cup Ended
      /\ Ended = {"ok", "rejected", "retry"}
  BY DEF RouterPc, Ended
<1>1. CASE Load(k)
  <2>1. CASE router' = [router EXCEPT ![k].pc = "read", ![k].for = binding]
             /\ binding # None /\ request[binding].prompt = clicks[router[k].click].on
    <3>1. Leaves(k, "read", router[k].click, binding)
      BY <1>0, <2>1, Binding DEF RequestsTyped
    <3>2. Matches(router[k].click, binding)
      BY <1>1, <2>1 DEF Load, ClicksAreMade, BoundToPrompt, Matches
    <3>3. request' = request /\ clicks' = clicks
      BY <1>1 DEF Load, inboxVars
    <3>4. Matches(router'[k].click, router'[k].for)
      BY <3>1, <3>2 DEF Leaves
    <3>5. RoutersTyped'
      BY <1>1, <3>1 DEF Load, RoutersTyped, Leaves, clientVars
    <3> QED
      BY <1>1, <3>1, <3>4, <3>5 DEF Load, RouterEffect, Leaves
  <2>2. CASE Turns(k, "rejected")
    BY <1>0, <1>1, <2>2, GoingOn DEF Load
  <2> QED
    BY <1>1, <2>1, <2>2 DEF Load
<1>2. CASE ReadMarker(k)
  BY <1>0, <1>2, GoingOn DEF ReadMarker, Meets
<1>3. CASE LinkMarker(k)
  BY <1>0, <1>3, GoingOn DEF LinkMarker, Meets
<1>4. CASE RouterFails(k)
  BY <1>0, <1>4, GoingOn DEF RouterFails
<1>5. CASE Patch(k)
  BY <1>0, <1>5, GoingOn DEF Patch
<1>6. CASE StripPrompt(k)
  BY <1>0, <1>6, GoingOn DEF StripPrompt
<1>7. CASE PatchFails(k)
  BY <1>0, <1>7, GoingOn DEF PatchFails
<1>8. CASE OrphanEnds(k)
  <2>1. Leaves(k, "none", 0, None)
    BY <1>8, Freeing DEF OrphanEnds
  <2>2. RoutersTyped'
    BY <1>8, <2>1 DEF OrphanEnds, RoutersTyped, Leaves, clientVars
  <2> QED
    BY <1>8, <2>1, <2>2 DEF OrphanEnds, RouterEffect, Leaves
<1> QED
  BY <1>1, <1>2, <1>3, <1>4, <1>5, <1>6, <1>7, <1>8 DEF RouterStep

-----------------------------------------------------------------------------
(* The steps of the client *)

\* It starts a router only for a click that was made, and waits only for a
\* router that it started.
ClientEffect ==
  /\ RoutersTyped' /\ inbox' \in [1..MaxClicks -> RowRecord]
  /\ \A n \in 1..MaxClicks :
       inbox'[n].state # "absent" => inbox[n].state # "absent" \/ n \in 1..Len(clicks)
  /\ \A k \in Routers :
       \/ router'[k] = router[k]
       \/ router'[k].pc = "none"
       \/ router'[k].pc = "load" /\ router'[k].click \in 1..Len(clicks)
  /\ drainer' # None => router'[drainer'].pc # "none"
  /\ UNCHANGED <<request, files, discordVars, clicks>>

\* What becomes of the rows: none appears but that of a click.
RowsKept(rows) ==
  /\ rows \in [1..MaxClicks -> RowRecord]
  /\ \A n \in 1..MaxClicks :
       rows[n].state # "absent" => inbox[n].state # "absent" \/ n \in 1..Len(clicks)

LEMMA Settling ==
  ASSUME InboxTyped, NEW n \in 1..Len(clicks), NEW s \in {"pending", "done"}
  PROVE  RowsKept([inbox EXCEPT ![n].state = s])
BY DEF InboxTyped, RowRecord, RowsKept

LEMMA Releasing ==
  ASSUME InboxTyped, NEW n \in 1..Len(clicks)
  PROVE  RowsKept(Released(n))
<1> DEFINE s == IF inbox[n].attempts >= MaxAttempts THEN "done" ELSE "pending"
<1>1. s \in {"pending", "done"}
  OBVIOUS
<1>2. Released(n) = [inbox EXCEPT ![n].state = s]
  BY DEF Released
<1> HIDE DEF s
<1> QED
  BY <1>1, <1>2, Settling

\* The client stops waiting for its router, which is gone.
LEMMA Reaping ==
  ASSUME Typed, drainer # None, Reap(drainer), RowsKept(inbox'),
         client' \in {"up", "down"}, UNCHANGED <<request, files, discordVars, clicks>>
  PROVE  ClientEffect
<1>1. drainer \in Routers
  BY DEF Typed, RoutersTyped
<1>2. Leaves(drainer, "none", 0, None)
  BY <1>1, Freeing DEF Typed, Reap
<1>3. RoutersTyped'
  BY <1>2 DEF Reap, RoutersTyped, Leaves
<1> QED
  BY <1>1, <1>2, <1>3 DEF Reap, RowsKept, Leaves, ClientEffect

LEMMA ClientSteps ==
  ASSUME Typed, ClicksAreMade, ClientStep
  PROVE  ClientEffect
<1>0. drainer # None => drainer \in Routers /\ router[drainer].click \in 1..Len(clicks)
  BY DEF Typed, RoutersTyped, ClicksAreMade
<1>1. ASSUME NEW n \in 1..MaxClicks, NEW k \in Routers, Claim(n, k)
      PROVE  ClientEffect
  <2>1. n \in 1..Len(clicks)
    BY <1>1 DEF Claim, ClicksAreMade
  <2>2. RowsKept(inbox')
    BY <1>1, <2>1 DEF Claim, Typed, InboxTyped, RowRecord, RowsKept
  <2>3. n \in 0..MaxClicks /\ "load" \in RouterPc
    BY DEF RouterPc
  <2>4. Leaves(k, "load", n, None)
    BY <1>1, <2>3, Starting DEF Claim, Typed
  <2>5. RoutersTyped'
    BY <1>1, <2>4 DEF Claim, Leaves, RoutersTyped, Typed
  <2> QED
    BY <1>1, <2>1, <2>2, <2>4, <2>5 DEF Claim, RowsKept, Leaves, ClientEffect
<1>2. CASE HandleExit
  <2>1. RowsKept(inbox')
    BY <1>0, <1>2, Settling, Releasing DEF HandleExit, Typed
  <2> QED
    BY <1>2, <2>1, Reaping DEF HandleExit, Typed, RoutersTyped
<1>3. CASE RouterTimesOut
  <2>1. RowsKept(inbox')
    BY <1>0, <1>3, Releasing DEF RouterTimesOut, Typed
  <2> QED
    BY <1>3, <2>1, Reaping DEF RouterTimesOut, Typed, RoutersTyped
<1>4. CASE ClientStops
  <2>1. CASE drainer = None
    BY <1>4, <2>1 DEF ClientStops, Typed, InboxTyped, RoutersTyped, ClientEffect
  <2>2. CASE drainer # None
    <3>1. RowsKept(inbox')
      BY <1>0, <1>4, <2>2, Releasing DEF ClientStops, Typed
    <3> QED
      BY <1>4, <2>2, <3>1, Reaping DEF ClientStops
  <2> QED
    BY <2>1, <2>2
<1>5. CASE ClientCrashes
  BY <1>5 DEF ClientCrashes, Typed, InboxTyped, inboxVars, RoutersTyped, ClientEffect
<1>6. CASE ClientStarts
  <2>1. RowsKept(inbox')
    BY <1>6 DEF ClientStarts, Typed, InboxTyped, RowRecord, RowsKept
  <2> QED
    BY <1>6, <2>1 DEF ClientStarts, Typed, RoutersTyped, ClicksAreMade, RowsKept, ClientEffect
<1> QED
  BY <1>1, <1>2, <1>3, <1>4, <1>5, <1>6 DEF ClientStep

-----------------------------------------------------------------------------
(* The invariant is kept *)

\* Discord's messages and the bounds, which few steps write.
RestTyped == DiscordTyped /\ faults \in 0..MaxFaults

LEMMA Faulting == Typed /\ Fault => faults' \in 0..MaxFaults
BY ApprovalAssumption DEF Typed, Fault

LEMMA RequestRest ==
  ASSUME Typed, PromptIsPosted, NEW r \in Requests, RequestStep(r)
  PROVE  RestTyped'
<1> USE Faulting DEF Typed, DiscordTyped, RestTyped, files, discordVars
<1>1. CASE Ensure(r) \/ Unlink(r) \/ ClearMarker(r) \/ Poll(r) \/ Timeout(r) \/ Consume(r)
  BY <1>1 DEF Ensure, Unlink, ClearMarker, Poll, Timeout, Consume
<1>2. CASE PostPrompt(r) \/ PostFails(r) \/ Bind(r) \/ Unbind(r) \/ KillRequest(r)
  BY <1>2 DEF PostPrompt, PostFails, Bind, Unbind, KillRequest
<1>3. CASE Arm(r) \/ ArmFails(r)
  BY <1>3 DEF Arm, ArmFails, At, PromptIsPosted
<1>4. CASE Strip(r)
  BY <1>4 DEF Strip
<1> QED
  BY <1>1, <1>2, <1>3, <1>4 DEF RequestStep

LEMMA RouterRest ==
  ASSUME Typed, NEW k \in Routers, RouterStep(k)
  PROVE  RestTyped'
<1> USE Faulting DEF Typed, DiscordTyped, RestTyped, files, discordVars
<1>1. CASE Load(k) \/ ReadMarker(k) \/ LinkMarker(k) \/ RouterFails(k) \/ OrphanEnds(k)
  BY <1>1 DEF Load, ReadMarker, LinkMarker, RouterFails, OrphanEnds
<1>2. CASE Patch(k) \/ StripPrompt(k) \/ PatchFails(k)
  BY <1>2 DEF Patch, StripPrompt, PatchFails
<1> QED
  BY <1>1, <1>2 DEF RouterStep

LEMMA ClientRest ==
  ASSUME Typed, ClientStep
  PROVE  RestTyped'
BY Faulting DEF ClientStep, Claim, HandleExit, RouterTimesOut, ClientStops, ClientCrashes,
   ClientStarts, Typed, DiscordTyped, RestTyped, files, discordVars

\* A step of a request keeps the invariant.
LEMMA RequestKeeps ==
  ASSUME Inv, NEW r \in Requests, RequestStep(r)
  PROVE  Inv'
<1>1. RequestEffect(r) /\ RestTyped'
  BY RequestSteps, RequestRest DEF Inv
<1>2. UNCHANGED <<clicks, inbox, client, drainer, router>>
  BY <1>1 DEF RequestEffect, inboxVars, clientVars
<1>3. \A q \in Requests :
        Prompted(q) => Prompted(q)' /\ request'[q].prompt = request[q].prompt
  BY <1>1 DEF RequestEffect, Prompted
<1>4. \A n, q : Matches(n, q) => Matches(n, q)'
  BY <1>2, <1>3 DEF Matches, Prompted
<1>5. Typed'
  BY <1>1, <1>2 DEF Inv, Typed, RequestEffect, RestTyped, InboxTyped, RoutersTyped
<1>6. ClicksAreMade'
  BY <1>2 DEF Inv, ClicksAreMade
<1>7. BoundToPrompt'
  <2>1. (binding # None => Prompted(binding))'
    BY <1>1, <1>3 DEF Inv, BoundToPrompt, RequestEffect, Prompted
  <2>2. (marker # None => Matches(marker.click, marker.for))'
    BY <1>1, <1>4 DEF Inv, BoundToPrompt, RequestEffect
  <2>3. (\A k \in Routers :
           router[k].pc \in {"read", "link"} => Matches(router[k].click, router[k].for))'
    BY <1>2, <1>4 DEF Inv, BoundToPrompt
  <2> QED
    BY <2>1, <2>2, <2>3 DEF BoundToPrompt
<1>8. ASSUME NEW q \in Requests, request'[q].result \in Choices
      PROVE  /\ Prompted(q)'
             /\ \E n \in 1..Len(clicks) :
                  clicks[n] = [on |-> request'[q].prompt, choice |-> request'[q].result]
  <2>1. CASE request'[q].result = request[q].result
    BY <1>3, <1>8, <2>1 DEF Inv, DecidedOnPrompt, DecisionIsClicked
  <2>2. CASE request'[q].result # request[q].result
    <3>1. /\ q = r /\ marker # None /\ marker.for = r
          /\ request'[r].result = clicks[marker.click].choice
      BY <1>1, <1>8, <2>2 DEF RequestEffect
    <3>2. Matches(marker.click, r)
      BY <3>1 DEF Inv, BoundToPrompt
    <3>3. clicks[marker.click] \in ClickRecord
      BY <3>2 DEF Matches, Inv, Typed, InboxTyped
    <3>4. clicks[marker.click] = [on |-> request'[r].prompt, choice |-> request'[r].result]
      BY <1>3, <3>1, <3>2, <3>3 DEF Matches, ClickRecord
    <3> QED
      BY <1>3, <3>1, <3>2, <3>4 DEF Matches
  <2> QED
    BY <2>1, <2>2
<1>9. PromptIsPosted'
  BY <1>1 DEF RequestEffect, Inv, PromptIsPosted
<1> QED
  BY <1>2, <1>5, <1>6, <1>7, <1>8, <1>9 DEF Inv, DecidedOnPrompt, DecisionIsClicked

\* So does a step of a router.
LEMMA RouterKeeps ==
  ASSUME Inv, NEW k \in Routers, RouterStep(k)
  PROVE  Inv'
<1>1. RouterEffect(k) /\ RestTyped'
  BY RouterSteps, RouterRest DEF Inv
<1>2. UNCHANGED <<request, binding, clicks, inbox, client, drainer>>
  BY <1>1 DEF RouterEffect, inboxVars, clientVars
<1>3. \A n, q : Matches(n, q) <=> Matches(n, q)'
  BY <1>2 DEF Matches, Prompted
<1>4. marker' = marker \/ (marker' = Decision(k) /\ Matches(marker'.click, marker'.for))
  BY <1>1 DEF RouterEffect, Decision, Inv, BoundToPrompt
<1>5. marker' \in Decisions \cup {None}
  <2>1. Len(clicks) <= MaxClicks /\ Len(clicks) \in Nat
    BY DEF Inv, Typed, InboxTyped
  <2>2. CASE marker' = marker
    BY <2>2 DEF Inv, Typed, RequestsTyped
  <2>3. CASE marker' = Decision(k) /\ Matches(marker'.click, marker'.for)
    <3>1. marker' = [for |-> router[k].for, click |-> router[k].click]
      BY <2>3 DEF Decision
    <3>2. router[k].for \in Requests /\ router[k].click \in 1..Len(clicks)
      BY <2>3, <3>1 DEF Matches, Prompted
    <3>3. router[k].click \in 1..MaxClicks
      BY <2>1, <3>2, ApprovalAssumption
    <3> QED
      BY <3>1, <3>2, <3>3 DEF Decisions
  <2> QED
    BY <1>4, <2>2, <2>3
<1>6. Typed'
  BY <1>1, <1>2, <1>5 DEF Inv, Typed, RouterEffect, RestTyped, InboxTyped, RequestsTyped
<1>7. ClicksAreMade'
  BY <1>1, <1>2 DEF Inv, Typed, RoutersTyped, ClicksAreMade, RouterEffect
<1>8. BoundToPrompt'
  <2>1. (binding # None => Prompted(binding))'
    BY <1>2 DEF Inv, BoundToPrompt, Prompted
  <2>2. (marker # None => Matches(marker.click, marker.for))'
    BY <1>3, <1>4 DEF Inv, BoundToPrompt
  <2>3. \A l \in Routers :
          router'[l].pc \in {"read", "link"} => Matches(router'[l].click, router'[l].for)
    BY <1>1 DEF RouterEffect, Inv, BoundToPrompt
  <2> QED
    BY <1>3, <2>1, <2>2, <2>3 DEF BoundToPrompt
<1> QED
  BY <1>2, <1>6, <1>7, <1>8 DEF Inv, PromptIsPosted, DecidedOnPrompt, DecisionIsClicked, Prompted

\* And a step of the client.
LEMMA ClientKeeps ==
  ASSUME Inv, ClientStep
  PROVE  Inv'
<1>1. ClientEffect /\ RestTyped'
  BY ClientSteps, ClientRest DEF Inv
<1>2. UNCHANGED <<request, binding, marker, clicks>>
  BY <1>1 DEF ClientEffect, files
<1>3. \A n, q : Matches(n, q) <=> Matches(n, q)'
  BY <1>2 DEF Matches, Prompted
<1>4. Typed'
  BY <1>1, <1>2 DEF Inv, Typed, ClientEffect, RestTyped, InboxTyped, RequestsTyped
<1>5. ClicksAreMade'
  BY <1>1, <1>2 DEF Inv, ClicksAreMade, ClientEffect
<1>6. BoundToPrompt'
  BY <1>1, <1>2, <1>3 DEF Inv, BoundToPrompt, ClientEffect, Prompted
<1> QED
  BY <1>2, <1>4, <1>5, <1>6 DEF Inv, PromptIsPosted, DecidedOnPrompt, DecisionIsClicked, Prompted

\* A click is appended, so what was clicked before stays.
LEMMA ClickKeeps ==
  ASSUME Inv, NEW m \in Requests, NEW c \in Choices, Click(m, c)
  PROVE  Inv'
<1> DEFINE n == Len(clicks) + 1
           click == [on |-> m, choice |-> c]
<1>1. /\ clicks' = Append(clicks, click) /\ n \in 1..MaxClicks
      /\ inbox' = [inbox EXCEPT ![n].state = "pending"]
      /\ UNCHANGED <<request, files, discordVars, clientVars, router, faults>>
  BY ApprovalAssumption DEF Click, Inv, Typed, InboxTyped
<1>2. clicks \in Seq(ClickRecord) /\ click \in ClickRecord
  BY DEF Inv, Typed, InboxTyped, ClickRecord
<1>3. /\ clicks' \in Seq(ClickRecord) /\ Len(clicks') = n
      /\ \A i \in 1..Len(clicks) : i \in 1..Len(clicks') /\ clicks'[i] = clicks[i]
  BY <1>1, <1>2
<1> HIDE DEF click
<1>4. \A i, q : Matches(i, q) => Matches(i, q)'
  BY <1>1, <1>3 DEF Matches, Prompted
<1>5. Typed'
  <2>1. InboxTyped'
    BY <1>1, <1>3 DEF Inv, Typed, InboxTyped, RowRecord
  <2> QED
    BY <1>1, <2>1 DEF Inv, Typed, RequestsTyped, DiscordTyped, RoutersTyped, files,
       discordVars, clientVars
<1>6. ClicksAreMade'
  <2>1. Len(clicks') \in Nat /\ n \in 1..Len(clicks')
    BY <1>1, <1>3
  <2>2. \A i \in 1..MaxClicks : inbox'[i].state # "absent" => i \in 1..Len(clicks')
    BY <1>1, <1>3, <2>1 DEF Inv, Typed, InboxTyped, ClicksAreMade
  <2>3. \A k \in Routers : router'[k].pc # "none" => router'[k].click \in 1..Len(clicks')
    BY <1>1, <1>3 DEF Inv, ClicksAreMade
  <2> QED
    BY <1>1, <2>2, <2>3 DEF Inv, ClicksAreMade, clientVars
<1>7. BoundToPrompt'
  BY <1>1, <1>4 DEF Inv, BoundToPrompt, Prompted, files
<1>8. DecisionIsClicked'
  BY <1>1, <1>3 DEF Inv, DecisionIsClicked
<1> QED
  BY <1>1, <1>5, <1>6, <1>7, <1>8 DEF Inv, PromptIsPosted, DecidedOnPrompt, Prompted

LEMMA ExpireKeeps ==
  ASSUME Inv, Expire
  PROVE  Inv'
<1>1. UNCHANGED <<request, binding, marker, clicks, inbox, client, drainer, router>>
  BY DEF Expire, discordVars, inboxVars, clientVars
<1>2. Typed'
  BY <1>1 DEF Expire, Inv, Typed, RequestsTyped, DiscordTyped, InboxTyped, RoutersTyped,
     discordVars
<1> QED
  BY <1>1, <1>2 DEF Inv, ClicksAreMade, BoundToPrompt, Matches, Prompted, PromptIsPosted,
     DecidedOnPrompt, DecisionIsClicked

LEMMA StutterKeeps ==
  ASSUME Inv, UNCHANGED vars
  PROVE  Inv'
<1>1. UNCHANGED <<request, binding, expired, marker, prompts, armed, clicks, inbox, client,
                  drainer, router, faults>>
  BY DEF vars, files, discordVars, inboxVars, clientVars
<1> QED
  BY <1>1 DEF Inv, Typed, RequestsTyped, DiscordTyped, InboxTyped, RoutersTyped,
     ClicksAreMade, BoundToPrompt, Matches, Prompted, PromptIsPosted, DecidedOnPrompt,
     DecisionIsClicked

LEMMA Initially == Init => Inv
<1> SUFFICES ASSUME Init PROVE Inv
  OBVIOUS
<1>1. RequestsTyped /\ RoutersTyped
  BY ApprovalAssumption DEF Init, RequestsTyped, RequestRecord, RequestPc, Results,
     RoutersTyped, RouterRecord, RouterPc, NoRouter
<1>2. DiscordTyped /\ faults \in 0..MaxFaults
  BY ApprovalAssumption DEF Init, DiscordTyped
<1>3. InboxTyped
  BY ApprovalAssumption DEF Init, InboxTyped, RowRecord, NoRow
<1>4. \A r \in Requests : request[r].pc = "new" /\ request[r].result = "none"
  BY DEF Init
<1>5. ClicksAreMade /\ BoundToPrompt
  BY DEF Init, NoRow, NoRouter, ClicksAreMade, BoundToPrompt
<1>6. PromptIsPosted /\ DecidedOnPrompt /\ DecisionIsClicked
  BY <1>4 DEF PromptIsPosted, DecidedOnPrompt, DecisionIsClicked, Choices
<1> QED
  BY <1>1, <1>2, <1>3, <1>5, <1>6 DEF Inv, Typed

LEMMA Keeps == Inv /\ [Next]_vars => Inv'
BY RequestKeeps, RouterKeeps, ClientKeeps, ClickKeeps, ExpireKeeps, StutterKeeps DEF Next

LEMMA Invariance == Spec => []Inv
BY Initially, Keeps, PTL DEF Spec

-----------------------------------------------------------------------------
(* Theorems *)

\* Every state has its type.
THEOREM Typing == Spec => []TypeOK
<1>1. Inv => TypeOK
  BY TypesOK DEF Inv
<1> QED
  BY <1>1, Invariance, PTL

\* A request returns only a decision that the owner made on its own prompt,
\* however many requests, routers and crashes there are: the marker it accepts
\* is bound to it, and a router binds a marker to a request only after it has
\* found the clicked message in the request's binding.
THEOREM DecisionsAreClicked == Spec => []DecisionIsClicked
<1>1. Inv => DecisionIsClicked
  BY DEF Inv
<1> QED
  BY <1>1, Invariance, PTL

\* No step replaces a marker: a request only removes it, and a router's link
\* fails when there is one.
THEOREM DecisionsStand == Spec => DecisionStands
<1>1. ASSUME Inv, [Next]_vars
      PROVE  [marker # None => marker' \in {marker, None}]_vars
  <2>1. ASSUME NEW r \in Requests, RequestStep(r)
        PROVE  marker' \in {marker, None}
    BY <1>1, <2>1, RequestSteps DEF Inv, RequestEffect
  <2>2. ASSUME NEW k \in Routers, RouterStep(k)
        PROVE  marker # None => marker' = marker
    BY <1>1, <2>2, RouterSteps DEF Inv, RouterEffect
  <2>3. CASE ClientStep
    BY <1>1, <2>3, ClientSteps DEF Inv, ClientEffect, files
  <2>4. CASE Expire
    BY <2>4 DEF Expire
  <2>5. ASSUME NEW m \in Requests, NEW c \in Choices, Click(m, c)
        PROVE  marker' = marker
    BY <2>5 DEF Click, files
  <2> QED
    BY <1>1, <2>1, <2>2, <2>3, <2>4, <2>5 DEF Next
<1> QED
  BY <1>1, Invariance, PTL DEF Spec, DecisionStands
=============================================================================
