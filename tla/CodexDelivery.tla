---------------------------- MODULE CodexDelivery ----------------------------
(***************************************************************************)
(* How one frozen message of the Codex bridge reaches Discord in chunks:   *)
(* send_result and reconcile_delivery (codex_discord_bridge/discord_io.py) *)
(* over the tables delivery_manifests and deliveries (store.py).  In       *)
(* CodexWorkers all of it is one step with an outcome.                     *)
(*                                                                         *)
(* A call handles the chunks in order.  It may raise at every request, and *)
(* the process may be killed at every step; a later call, of the exception *)
(* handler or of the next process, begins at the first chunk again.  There *)
(* is one call at a time: a job is worked on by one actor (CodexWorkers).  *)
(* A POST whose call is gone stays on the wire and may still be accepted.  *)
(*                                                                         *)
(* Discord is external.  It answers a POST whose nonce it remembers        *)
(* (enforce_nonce) with the message it already has.  Every chunk has a     *)
(* nonce of its own.                                                       *)
(*                                                                         *)
(* Abstracted: hashes (equal exactly when the contents are), the policy of *)
(* the manifest and its pruning (both in CodexWorkers), deleted messages.  *)
(***************************************************************************)
EXTENDS Naturals, Sequences, FiniteSets

CONSTANTS
  Count,       \* chunk_count
  MaxRetries,  \* DELIVERY_RATE_LIMIT_MAX_RETRIES
  MaxPosts     \* bound: how many POSTs are sent

ASSUME DeliveryAssumption ==
  /\ Count \in Nat \ {0}
  /\ MaxRetries \in Nat \ {0}
  /\ MaxPosts \in Nat

VARIABLES
  manifest,    \* delivery_manifests.state, "none" when there is no row
  row,         \* deliveries, one row per chunk
  call,        \* the call that is under way
  wire,        \* POSTs that Discord has not answered
  posts,       \* how many POSTs were sent
  discord,     \* the bot's messages with a nonce of this manifest
  remembered   \* per chunk, the message Discord knows its nonce of, or 0

network == <<wire, posts, discord, remembered>>
vars == <<manifest, row, call, network>>

Chunks == 1..Count

\* id is message_id, 0 for NULL; aged: attempted_at is not within the last
\* NONCE_RETRY_WINDOW_SECONDS.
Unsent == [state |-> "prepared", attempted |-> FALSE, aged |-> FALSE,
           ambiguous |-> FALSE, id |-> 0]

CallPc == {"idle", "row", "post", "posting", "limited", "answered", "scan",
           "end"}

\* at: the chunk in hand.  first: this call stamped its attempt.  id: the POST
\* that is waited for, later the message it was answered with.  asked: the
\* history_candidates.  matches: what the history scan proved, per chunk, once
\* it was made (scanned).
NoCall == [pc |-> "idle", at |-> 0, first |-> FALSE, id |-> 0, retries |-> 0,
           asked |-> {}, scanned |-> FALSE, matches |-> [i \in Chunks |-> 0]]

Init ==
  /\ manifest = "none"
  /\ row = [i \in Chunks |-> Unsent]
  /\ call = NoCall
  /\ wire = {}
  /\ posts = 0
  /\ discord = <<>>
  /\ remembered = [i \in Chunks |-> 0]

Goes(pc) == call' = [call EXCEPT !.pc = pc]
Ends == call' = NoCall
Pc(pc) == call.pc = pc
Exact(i, m) == discord[m] = [chunk |-> i, exact |-> TRUE]

\* The loop goes on with the next chunk.
NextChunk ==
  call' = [call EXCEPT !.pc = IF call.at = Count THEN "end" ELSE "row",
                       !.at = IF call.at = Count THEN @ ELSE @ + 1,
                       !.retries = 0]

\* confirm_delivery and mark_delivery_ambiguous
Confirmed(i, m) == [row EXCEPT ![i].state = "sent", ![i].id = m]
Quarantined(i) == [row EXCEPT ![i].attempted = TRUE, ![i].ambiguous = TRUE]

-----------------------------------------------------------------------------
(* The steps of a call *)

\* prepare_delivery_manifest: all chunks in one transaction, before the first
\* POST.
Prepare ==
  /\ manifest = "none"
  /\ manifest' = "prepared"
  /\ UNCHANGED <<row, call, network>>

\* reconcile_delivery reads the manifest; a quarantined chunk refuses the call.
\* What was attempted before is what a scan of the history will ask for.
Begin ==
  /\ Pc("idle")
  /\ manifest # "none"
  /\ \A i \in Chunks : ~row[i].ambiguous
  /\ call' = [NoCall EXCEPT
       !.pc = "row", !.at = 1,
       !.asked = {i \in Chunks : row[i].state = "prepared" /\ row[i].attempted}]
  /\ UNCHANGED <<manifest, row, network>>

\* A chunk that was sent is read back.
ReadBack ==
  /\ Pc("row")
  /\ row[call.at].state = "sent"
  /\ IF Exact(call.at, row[call.at].id)
       THEN NextChunk /\ UNCHANGED row
       ELSE Ends /\ row' = Quarantined(call.at)
  /\ UNCHANGED <<manifest, network>>

\* begin_delivery_attempt and the choice its result decides.  A first attempt
\* and a recent one POST; what an earlier scan of this call proved needs none;
\* an old one needs the history, and is lost when that was scanned in vain.
Attempt ==
  /\ Pc("row")
  /\ row[call.at].state = "prepared"
  /\ LET i == call.at
         first == ~row[i].attempted
         proved == ~first /\ call.scanned /\ call.matches[i] # 0
         old == ~first /\ ~proved /\ row[i].aged
     IN /\ row' = IF proved THEN Confirmed(i, call.matches[i])
                  ELSE IF old /\ call.scanned THEN Quarantined(i)
                  ELSE [row EXCEPT ![i].attempted = TRUE]
        /\ \/ proved /\ NextChunk
           \/ old /\ call.scanned /\ Ends
           \/ old /\ ~call.scanned /\ Goes("scan")
           \/ ~proved /\ ~old /\ call' = [call EXCEPT !.pc = "post", !.first = first]
  /\ UNCHANGED <<manifest, network>>

\* The POST leaves.  discord_request makes one attempt only.
Post ==
  /\ Pc("post")
  /\ posts < MaxPosts
  /\ posts' = posts + 1
  /\ wire' = wire \cup {[chunk |-> call.at, id |-> posts + 1]}
  /\ call' = [call EXCEPT !.pc = "posting", !.id = posts + 1]
  /\ UNCHANGED <<manifest, row, discord, remembered>>

\* A 429 rejected this very request: clear_delivery_attempt, if this call
\* stamped it.  Then the call waits and tries again, at most MaxRetries times,
\* or raises at once.
Limited ==
  /\ Pc("limited")
  /\ row' = IF call.first
            THEN [row EXCEPT ![call.at].attempted = FALSE, ![call.at].aged = FALSE]
            ELSE row
  /\ \/ Ends
     \/ /\ call.retries + 1 < MaxRetries
        /\ call' = [call EXCEPT !.pc = "row", !.retries = @ + 1]
  /\ UNCHANGED <<manifest, network>>

\* Mutant: the message is not compared with the chunk.
AnswerUnchecked ==
  /\ Pc("answered")
  /\ row' = Confirmed(call.at, call.id)
  /\ NextChunk
  /\ UNCHANGED <<manifest, network>>

\* The message that answered the POST is read back, then confirmed.
Answer ==
  /\ Pc("answered")
  /\ IF Exact(call.at, call.id)
       THEN NextChunk /\ row' = Confirmed(call.at, call.id)
       ELSE Ends /\ row' = Quarantined(call.at)
  /\ UNCHANGED <<manifest, network>>

MessagesOf(i) == {m \in DOMAIN discord : discord[m].chunk = i}

\* _find_deliveries_by_nonce, over all chunks asked for.  A message of
\* another content or a second one spoils the scan, and so may a page limit or a
\* malformed page at any time.  What arrives while the pages are read is
\* missed, so any part of what is there may be matched.
Scan ==
  /\ Pc("scan")
  /\ \/ /\ \A i \in call.asked, m, n \in DOMAIN discord :
             /\ discord[m].chunk = i => discord[m].exact
             /\ discord[m].chunk = i /\ discord[n].chunk = i => m = n
        /\ \E found \in SUBSET {i \in call.asked : MessagesOf(i) # {}} :
             LET matches == [i \in Chunks |->
                               IF i \in found THEN CHOOSE m \in MessagesOf(i) : TRUE
                               ELSE 0]
             IN IF call.at \in found
                THEN /\ row' = Confirmed(call.at, matches[call.at])
                     /\ call' = [call EXCEPT
                          !.pc = IF call.at = Count THEN "end" ELSE "row",
                          !.at = IF call.at = Count THEN @ ELSE @ + 1,
                          !.retries = 0, !.scanned = TRUE, !.matches = matches]
                ELSE row' = Quarantined(call.at) /\ Ends
     \/ row' = Quarantined(call.at) /\ Ends
  /\ UNCHANGED <<manifest, network>>

\* confirm_manifest, when every chunk is sent.
Finish ==
  /\ Pc("end")
  /\ manifest' = IF \A i \in Chunks : row[i].state = "sent" /\ ~row[i].ambiguous
                 THEN "sent" ELSE manifest
  /\ Ends
  /\ UNCHANGED <<row, network>>

\* A request fails, the answer is malformed, or the process stops.
Fail ==
  /\ ~Pc("idle")
  /\ Ends
  /\ UNCHANGED <<manifest, row, network>>

-----------------------------------------------------------------------------
(* Discord and time *)

Waiting(q) == Pc("posting") /\ call.id = q.id

\* Discord accepts a POST, as it was written or altered, unless it remembers
\* the nonce; it answers with the message's identifier.
Accept(q) ==
  /\ wire' = wire \ {q}
  /\ IF remembered[q.chunk] # 0
       THEN UNCHANGED <<discord, remembered>>
       ELSE /\ \E exact \in BOOLEAN :
                 discord' = Append(discord, [chunk |-> q.chunk, exact |-> exact])
            /\ remembered' = [remembered EXCEPT ![q.chunk] = Len(discord) + 1]
  /\ call' = IF Waiting(q)
             THEN [call EXCEPT !.pc = "answered", !.id = remembered'[q.chunk]]
             ELSE call
  /\ UNCHANGED <<manifest, row, posts>>

\* 429: the POST is refused.
Refuse(q) ==
  /\ wire' = wire \ {q}
  /\ call' = IF Waiting(q) THEN [call EXCEPT !.pc = "limited"] ELSE call
  /\ UNCHANGED <<manifest, row, posts, discord, remembered>>

\* Another error status, or the POST is lost: the call raises.
Lose(q) ==
  /\ wire' = wire \ {q}
  /\ call' = IF Waiting(q) THEN NoCall ELSE call
  /\ UNCHANGED <<manifest, row, posts, discord, remembered>>

Age(i) ==
  /\ row[i].attempted
  /\ ~row[i].aged
  /\ row' = [row EXCEPT ![i].aged = TRUE]
  /\ UNCHANGED <<manifest, call, network>>

\* Discord forgets a nonce.  It remembers it for longer than the retry window
\* and the life of a request together, so no POST decided on within the window
\* is still to be sent or on the wire.
Forget(i) ==
  /\ remembered[i] # 0
  /\ row[i].aged
  /\ \A q \in wire : q.chunk # i
  /\ ~(Pc("post") /\ call.at = i)
  /\ remembered' = [remembered EXCEPT ![i] = 0]
  /\ UNCHANGED <<manifest, row, call, wire, posts, discord>>

-----------------------------------------------------------------------------
Call ==
  \/ Prepare \/ Begin \/ ReadBack \/ Attempt \/ Post \/ Limited \/ Answer
  \/ Scan \/ Finish \/ Fail

Environment ==
  \/ \E q \in wire : Accept(q) \/ Refuse(q) \/ Lose(q)
  \/ \E i \in Chunks : Age(i) \/ Forget(i)

Next == Call \/ Environment

Spec == Init /\ [][Next]_vars

-----------------------------------------------------------------------------
(* Properties *)

\* TypeOK: the type of the state.
TypeOK ==
  /\ manifest \in {"none", "prepared", "sent"}
  /\ row \in [Chunks -> [state : {"prepared", "sent"}, attempted : BOOLEAN,
                         aged : BOOLEAN, ambiguous : BOOLEAN, id : Nat]]
  /\ call \in [pc : CallPc, at : 0..Count, first : BOOLEAN, id : Nat,
               retries : Nat, asked : SUBSET Chunks, scanned : BOOLEAN,
               matches : [Chunks -> Nat]]
  /\ wire \subseteq [chunk : Chunks, id : 1..posts]
  /\ posts \in 0..MaxPosts
  /\ discord \in Seq([chunk : Chunks, exact : BOOLEAN])
  /\ remembered \in [Chunks -> Nat]

\* What Discord shows is the beginning of the answer, each chunk once and in
\* order, whatever calls fail, are repeated or cut, and however late a POST is
\* accepted.
ShowsPrefix == \A n \in DOMAIN discord : discord[n].chunk = n

\* A chunk that may be, or may still become, a message has a recorded attempt:
\* a stop at any point leaves the next call a warning.
PostIsRecorded ==
  \A i \in Chunks :
    (MessagesOf(i) # {} \/ \E q \in wire : q.chunk = i) => row[i].attempted

\* A chunk that counts as sent names a message with exactly its content.
SentIsExact ==
  \A i \in Chunks :
    row[i].state = "sent" /\ ~row[i].ambiguous =>
      row[i].id \in DOMAIN discord /\ Exact(i, row[i].id)

\* A quarantined chunk is never retried, confirmed or released, and no other
\* chunk of the message is posted after it.
QuarantineHolds ==
  [][\A i \in Chunks : row[i].ambiguous =>
       /\ row'[i].ambiguous
       /\ row'[i].state = row[i].state
       /\ posts' = posts]_vars

\* The chunks together keep the promise that CodexWorkers relies on: a
\* manifest that is sent is complete in Discord, and a quarantine is final.
\* A manifest counts as quarantined when one of its chunks is.
Whole ==
  INSTANCE Outbox WITH
    st <- IF \E i \in Chunks : row[i].ambiguous THEN "ambiguous" ELSE manifest,
    complete <- \A i \in Chunks : \E m \in DOMAIN discord : Exact(i, m)
ImplementsOutbox == Whole!Spec
=============================================================================
