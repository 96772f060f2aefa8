------------------------------ MODULE Approval ------------------------------
(***************************************************************************)
(* The owner's approval of a draft: request_approval.py posts it with two  *)
(* buttons and polls for a decision; a click goes through the interaction  *)
(* inbox of discord-gateway/client.py to a router process, whose responder *)
(* writes the decision as a marker file.                                   *)
(*                                                                         *)
(* The requests here are for one draft: the binding and the marker are     *)
(* named by its digest, so requests for one draft share both files, and    *)
(* requests for different drafts share neither.  A retry may bind to the   *)
(* message of an earlier request, as the nonce is computed from the draft. *)
(*                                                                         *)
(* A router belongs to the client that waits for it, but outlives a crash  *)
(* of the client (it runs in a session of its own), so two routers can be  *)
(* under way.  Every step of a process is an action: a read, a link, an    *)
(* unlink, or a request to Discord.                                        *)
(*                                                                         *)
(* Abstracted: principals and permissions (every click here is the         *)
(* owner's, on a message of the bot), the callback and the session that    *)
(* bring a click into the inbox, and other drafts' interactions.           *)
(***************************************************************************)
EXTENDS Naturals, Sequences

CONSTANTS
  Requests,     \* request_approval.py processes for the draft
  Routers,      \* router processes
  None,
  MaxClicks,    \* bound: clicks of the owner
  MaxAttempts,  \* MAX_DELIVERY_ATTEMPTS (12 in the code)
  MaxFaults     \* bound: crashes, kills, timeouts and failed requests

ASSUME ApprovalAssumption ==
  /\ None \notin Requests \cup Routers
  /\ MaxClicks \in Nat
  /\ MaxAttempts \in Nat \ {0}
  /\ MaxFaults \in Nat

VARIABLES
  request,  \* the requests: their step, their prompt and what they return
  binding,  \* approval-bindings/<sha>.json: the request that wrote it
  expired,  \* requests whose binding has passed its expires_at
  marker,   \* approvals/<sha>.json: the request and the click it is bound to
  prompts,  \* Discord: the prompts, each named by the request it was made for
  armed,    \* Discord: the prompts that show buttons
  clicks,   \* the clicks, in order
  inbox,    \* interaction_inbox: the row of each click
  client,   \* discord-gateway/client.py: "up" or "down"
  drainer,  \* the router that the drainer waits for
  router,   \* the router processes
  faults

files == <<binding, expired, marker>>
discordVars == <<prompts, armed>>
inboxVars == <<clicks, inbox>>
clientVars == <<client, drainer>>
vars == <<request, files, discordVars, inboxVars, clientVars, router, faults>>

Choices == {"approve", "reject"}
Results == Choices \cup {"none", "refused", "failed", "timeout"}
RequestPc == {"new", "unlink", "clear", "post", "bind", "arm", "poll",
              "consume", "strip", "unbind", "exit", "killed"}
RouterPc == {"none", "load", "read", "link", "patch", "strip", "ok", "rejected",
             "retry"}
NoRouter == [pc |-> "none", click |-> 0, for |-> None]
NoRow == [state |-> "absent", attempts |-> 0]
Ended == {"ok", "rejected", "retry"}

Init ==
  /\ request = [r \in Requests |-> [pc |-> "new", prompt |-> None, result |-> "none"]]
  /\ binding = None
  /\ expired = {}
  /\ marker = None
  /\ prompts = {}
  /\ armed = {}
  /\ clicks = <<>>
  /\ inbox = [n \in 1..MaxClicks |-> NoRow]
  /\ client = "up"
  /\ drainer = None
  /\ router = [k \in Routers |-> NoRouter]
  /\ faults = 0

Fault == faults < MaxFaults /\ faults' = faults + 1

-----------------------------------------------------------------------------
(* request_approval.py *)

At(r, p) == request[r].pc = p
Goes(r, p) == request' = [request EXCEPT ![r].pc = p]
Returns(r, p, what) ==
  request' = [request EXCEPT ![r].pc = p, ![r].result = what]

\* ensure_binding_slot_available: a binding that has not expired refuses.
Ensure(r) ==
  /\ At(r, "new")
  /\ CASE binding = None -> Goes(r, "clear")
       [] binding \in expired -> Goes(r, "unlink")
       [] OTHER -> Returns(r, "exit", "refused")
  /\ UNCHANGED <<files, discordVars, inboxVars, clientVars, router, faults>>

\* It removes an expired one by its path, whatever is there by now.
Unlink(r) ==
  /\ At(r, "unlink")
  /\ IF binding = None THEN Returns(r, "exit", "refused") ELSE Goes(r, "clear")
  /\ binding' = None
  /\ UNCHANGED <<expired, marker, discordVars, inboxVars, clientVars, router,
                 faults>>

\* clear_button_marker, before the prompt.
ClearMarker(r) ==
  /\ At(r, "clear")
  /\ Goes(r, "post")
  /\ marker' = None
  /\ UNCHANGED <<binding, expired, discordVars, inboxVars, clientVars, router,
                 faults>>

\* send_approval_prompt: a new message, or that of a request whose nonce
\* Discord remembers.
PostPrompt(r) ==
  /\ At(r, "post")
  /\ \E m \in prompts \cup {r} :
       /\ request' = [request EXCEPT ![r].pc = "bind", ![r].prompt = m]
       /\ prompts' = prompts \cup {m}
  /\ UNCHANGED <<files, armed, inboxVars, clientVars, router, faults>>

\* The POST failed or its outcome is unknown; the message may exist.
PostFails(r) ==
  /\ At(r, "post")
  /\ Fault
  /\ Returns(r, "exit", "failed")
  /\ \E ms \in {{}, {r}} : prompts' = prompts \cup ms
  /\ UNCHANGED <<files, armed, inboxVars, clientVars, router>>

\* write_approval_binding links its file, so it never replaces another.
Bind(r) ==
  /\ At(r, "bind")
  /\ IF binding = None
     THEN Goes(r, "arm") /\ binding' = r
     ELSE Returns(r, "exit", "failed") /\ UNCHANGED binding
  /\ UNCHANGED <<expired, marker, discordVars, inboxVars, clientVars, router,
                 faults>>

\* attach_components
Arm(r) ==
  /\ At(r, "arm")
  /\ Goes(r, "poll")
  /\ armed' = armed \cup {request[r].prompt}
  /\ UNCHANGED <<files, prompts, inboxVars, clientVars, router, faults>>

ArmFails(r) ==
  /\ At(r, "arm")
  /\ Fault
  /\ Returns(r, "unbind", "failed")
  /\ \E ms \in {{}, {request[r].prompt}} : armed' = armed \cup ms
  /\ UNCHANGED <<files, prompts, inboxVars, clientVars, router>>

\* Mutant: any marker of the draft decides.
PollUnbound(r) ==
  /\ At(r, "poll")
  /\ r \notin expired
  /\ marker # None
  /\ Returns(r, "consume", clicks[marker.click].choice)
  /\ UNCHANGED <<files, discordVars, inboxVars, clientVars, router, faults>>

\* The loop of main finds a marker before its deadline.  validate_button_marker
\* raises when the marker is bound to another request.
Poll(r) ==
  /\ At(r, "poll")
  /\ r \notin expired
  /\ marker # None
  /\ IF marker.for = r
     THEN Returns(r, "consume", clicks[marker.click].choice)
     ELSE Returns(r, "strip", "failed")
  /\ UNCHANGED <<files, discordVars, inboxVars, clientVars, router, faults>>

Timeout(r) ==
  /\ At(r, "poll")
  /\ Returns(r, "strip", "timeout")
  /\ UNCHANGED <<files, discordVars, inboxVars, clientVars, router, faults>>

\* clear_button_marker, after the result was printed.
Consume(r) ==
  /\ At(r, "consume")
  /\ Goes(r, "strip")
  /\ marker' = None
  /\ UNCHANGED <<binding, expired, discordVars, inboxVars, clientVars, router,
                 faults>>

\* remove_components_best_effort
Strip(r) ==
  /\ At(r, "strip")
  /\ Goes(r, "unbind")
  /\ \/ armed' = armed \ {request[r].prompt} /\ UNCHANGED faults
     \/ Fault /\ UNCHANGED armed
  /\ UNCHANGED <<files, prompts, inboxVars, clientVars, router>>

\* clear_approval_binding leaves another request's binding alone.
Unbind(r) ==
  /\ At(r, "unbind")
  /\ Goes(r, "exit")
  /\ binding' = IF binding = r THEN None ELSE binding
  /\ UNCHANGED <<expired, marker, discordVars, inboxVars, clientVars, router,
                 faults>>

\* The worker is killed with its request; nothing is cleaned up.
KillRequest(r) ==
  /\ ~At(r, "new") /\ ~At(r, "exit") /\ ~At(r, "killed")
  /\ Fault
  /\ Goes(r, "killed")
  /\ UNCHANGED <<files, discordVars, inboxVars, clientVars, router>>

Expire ==
  /\ binding # None
  /\ binding \notin expired
  /\ expired' = expired \cup {binding}
  /\ UNCHANGED <<request, binding, marker, discordVars, inboxVars, clientVars,
                 router, faults>>

RequestStep(r) ==
  \/ Ensure(r) \/ Unlink(r) \/ ClearMarker(r)
  \/ PostPrompt(r) \/ PostFails(r) \/ Bind(r)
  \/ Arm(r) \/ ArmFails(r)
  \/ Poll(r) \/ Timeout(r)
  \/ Consume(r) \/ Strip(r) \/ Unbind(r)
  \/ KillRequest(r)

-----------------------------------------------------------------------------
(* The owner and the interaction inbox *)

\* The owner clicks a button; the session enqueues the interaction,
\* acknowledges it and marks it ready (one step here).
Click(m, choice) ==
  /\ m \in armed
  /\ Len(clicks) < MaxClicks
  /\ clicks' = Append(clicks, [on |-> m, choice |-> choice])
  /\ inbox' = [inbox EXCEPT ![Len(clicks) + 1].state = "pending"]
  /\ UNCHANGED <<request, files, discordVars, clientVars, router, faults>>

\* claim_next takes the oldest row that is due, and the drainer starts a
\* router for it.  A row that was tried before may not be due yet.
Claim(n, k) ==
  /\ client = "up"
  /\ drainer = None
  /\ inbox[n].state = "pending"
  /\ \A m \in 1..(n - 1) : inbox[m].state = "pending" => inbox[m].attempts > 0
  /\ router[k] = NoRouter
  /\ inbox' = [inbox EXCEPT ![n].state = "processing", ![n].attempts = @ + 1]
  /\ router' = [router EXCEPT ![k] = [pc |-> "load", click |-> n, for |-> None]]
  /\ drainer' = k
  /\ UNCHANGED <<request, files, discordVars, clicks, client, faults>>

\* release_for_retry: a row that was tried too often is dead-lettered.
Released(n) ==
  [inbox EXCEPT ![n].state = IF inbox[n].attempts >= MaxAttempts THEN "done"
                             ELSE "pending"]

Reap(k) == router' = [router EXCEPT ![k] = NoRouter] /\ drainer' = None

\* dispatch_interaction returns, and the drainer completes or releases the row.
HandleExit ==
  /\ drainer # None
  /\ LET n == router[drainer].click
     IN  \/ /\ router[drainer].pc \in {"ok", "rejected"}
            /\ inbox' = [inbox EXCEPT ![n].state = "done"]
         \/ /\ router[drainer].pc = "retry"
            /\ inbox' = Released(n)
  /\ Reap(drainer)
  /\ UNCHANGED <<request, files, discordVars, clicks, client, faults>>

\* ROUTER_TIMEOUT_SECONDS: the process group is killed and reaped.
RouterTimesOut ==
  /\ drainer # None
  /\ router[drainer].pc \notin Ended
  /\ Fault
  /\ inbox' = Released(router[drainer].click)
  /\ Reap(drainer)
  /\ UNCHANGED <<request, files, discordVars, clicks, client>>

\* The client is told to stop: the cancelled drainer kills its router and
\* releases its row.
ClientStops ==
  /\ client = "up"
  /\ Fault
  /\ client' = "down"
  /\ IF drainer = None THEN UNCHANGED <<inbox, router, drainer>>
     ELSE inbox' = Released(router[drainer].click) /\ Reap(drainer)
  /\ UNCHANGED <<request, files, discordVars, clicks>>

\* A crash leaves the row processing and its router running.
ClientCrashes ==
  /\ client = "up"
  /\ Fault
  /\ client' = "down"
  /\ drainer' = None
  /\ UNCHANGED <<request, files, discordVars, inboxVars, router>>

\* recover_processing
ClientStarts ==
  /\ client = "down"
  /\ client' = "up"
  /\ inbox' = [n \in DOMAIN inbox |->
                 IF inbox[n].state = "processing"
                 THEN [inbox[n] EXCEPT !.state = "pending"] ELSE inbox[n]]
  /\ UNCHANGED <<request, files, discordVars, clicks, drainer, router, faults>>

-----------------------------------------------------------------------------
(* router.py and request_approval_responder.py *)

Runs(k, p) == router[k].pc = p
Turns(k, p) == router' = [router EXCEPT ![k].pc = p]

\* _validate_request_binding: the binding must name the clicked message.
Load(k) ==
  /\ Runs(k, "load")
  /\ IF /\ binding # None
        /\ binding \notin expired
        /\ request[binding].prompt = clicks[router[k].click].on
     THEN router' = [router EXCEPT ![k].pc = "read", ![k].for = binding]
     ELSE Turns(k, "rejected")
  /\ UNCHANGED <<request, files, discordVars, inboxVars, clientVars, faults>>

Decision(k) == [for |-> router[k].for, click |-> router[k].click]

\* write_marker on a marker that exists: its own decision is confirmed, any
\* other is a conflict.
Meets(k) == Turns(k, IF marker = Decision(k) THEN "patch" ELSE "strip")

ReadMarker(k) ==
  /\ Runs(k, "read")
  /\ IF marker = None THEN Turns(k, "link") ELSE Meets(k)
  /\ UNCHANGED <<request, files, discordVars, inboxVars, clientVars, faults>>

\* os.link: the first of two writers wins.
LinkMarker(k) ==
  /\ Runs(k, "link")
  /\ IF marker = None
     THEN Turns(k, "patch") /\ marker' = Decision(k)
     ELSE Meets(k) /\ UNCHANGED marker
  /\ UNCHANGED <<request, binding, expired, discordVars, inboxVars, clientVars,
                 faults>>

\* The token cannot be loaded, or the responder fails.
RouterFails(k) ==
  /\ router[k].pc \in {"load", "read", "link"}
  /\ Fault
  /\ Turns(k, "retry")
  /\ UNCHANGED <<request, files, discordVars, inboxVars, clientVars>>

Prompt(k) == clicks[router[k].click].on

\* patch_message shows the decision in the prompt and removes its buttons.
Patch(k) ==
  /\ Runs(k, "patch")
  /\ Turns(k, "ok")
  /\ armed' = armed \ {Prompt(k)}
  /\ UNCHANGED <<request, files, prompts, inboxVars, clientVars, faults>>

\* clear_message_components, after a conflict
StripPrompt(k) ==
  /\ Runs(k, "strip")
  /\ Turns(k, "rejected")
  /\ armed' = armed \ {Prompt(k)}
  /\ UNCHANGED <<request, files, prompts, inboxVars, clientVars, faults>>

\* A PATCH that fails for good is terminal; one that fails otherwise is
\* retried, and may have been applied.
PatchFails(k) ==
  /\ router[k].pc \in {"patch", "strip"}
  /\ Fault
  /\ \/ Turns(k, "rejected") /\ UNCHANGED armed
     \/ /\ Turns(k, "retry")
        /\ \/ UNCHANGED armed
           \/ armed' = armed \ {Prompt(k)}
  /\ UNCHANGED <<request, files, prompts, inboxVars, clientVars>>

\* Nobody waits for a router whose client crashed.
OrphanEnds(k) ==
  /\ router[k].pc \in Ended
  /\ drainer # k
  /\ router' = [router EXCEPT ![k] = NoRouter]
  /\ UNCHANGED <<request, files, discordVars, inboxVars, clientVars, faults>>

RouterStep(k) ==
  \/ Load(k) \/ ReadMarker(k) \/ LinkMarker(k)
  \/ RouterFails(k)
  \/ Patch(k) \/ StripPrompt(k) \/ PatchFails(k)
  \/ OrphanEnds(k)

-----------------------------------------------------------------------------
ClientStep ==
  \/ \E n \in 1..MaxClicks, k \in Routers : Claim(n, k)
  \/ HandleExit \/ RouterTimesOut
  \/ ClientStops \/ ClientCrashes \/ ClientStarts

Next ==
  \/ \E r \in Requests : RequestStep(r)
  \/ Expire
  \/ \E m \in Requests, c \in Choices : Click(m, c)
  \/ ClientStep
  \/ \E k \in Routers : RouterStep(k)

Spec == Init /\ [][Next]_vars

-----------------------------------------------------------------------------
(* Properties *)

RequestRecord ==
  [pc : RequestPc, prompt : Requests \cup {None}, result : Results]
Decisions == [for : Requests, click : 1..MaxClicks]

\* The state has its type: files are absent or bound to a request, a prompt is
\* named by a request, and every click has a row.
TypeOK ==
  /\ request \in [Requests -> RequestRecord]
  /\ binding \in Requests \cup {None}
  /\ expired \subseteq Requests
  /\ marker \in Decisions \cup {None}
  /\ prompts \subseteq Requests
  /\ armed \subseteq Requests
  /\ clicks \in Seq([on : Requests, choice : Choices])
  /\ Len(clicks) <= MaxClicks
  /\ inbox \in [1..MaxClicks ->
                  [state : {"absent", "pending", "processing", "done"},
                   attempts : Nat]]
  /\ client \in {"up", "down"}
  /\ drainer \in Routers \cup {None}
  /\ router \in [Routers -> [pc : RouterPc, click : 0..MaxClicks,
                             for : Requests \cup {None}]]
  /\ faults \in 0..MaxFaults

\* A request returns a decision only if the owner made it on its own prompt:
\* late markers, those of an earlier request, and those that a router writes
\* after its client is gone never decide another one (validate_button_marker).
DecisionIsClicked ==
  \A r \in Requests : request[r].result \in Choices =>
    \E n \in 1..Len(clicks) :
      clicks[n] = [on |-> request[r].prompt, choice |-> request[r].result]

\* A decision is never replaced: a marker stays as it is until a request removes
\* it, although two routers may be about to write one (os.link in write_marker).
DecisionStands == [][marker # None => marker' \in {marker, None}]_vars
=============================================================================
