-------------------------- MODULE ResponseDelivery --------------------------
(***************************************************************************)
(* How the answer of one spawned queue row reaches Discord and the         *)
(* transcript.                                                             *)
(*                                                                         *)
(*   conversations/queue/drainer.py  complete-response, reconcile-response *)
(*   conversations/queue/mq.py       the row's response_* columns          *)
(*   conversations/lib.py            append_turn_once                      *)
(*                                                                         *)
(* Every call of complete-response or reconcile-response is a process.  It *)
(* may fail, time out or be killed at every step, and a second call may    *)
(* run beside it.  One action is one SQLite transaction, one Discord       *)
(* request sent or answered, or one locked write of the transcript.  A     *)
(* POST whose caller is gone stays on the wire and may still be accepted.  *)
(*                                                                         *)
(* Discord is external: a message it accepts gets an identifier, and a     *)
(* POST with a nonce it still remembers (enforce_nonce) is answered with   *)
(* the message it already has.  The nonce is derived from the row's        *)
(* completion token, so every POST of the row carries the same one.        *)
(*                                                                         *)
(* Abstracted: digests (equal exactly when the texts are), credentials,    *)
(* the exchange files.                                                     *)
(***************************************************************************)
EXTENDS Naturals, Sequences, FiniteSets

CONSTANTS
  Callers,    \* command processes that can be alive at once
  Responses,  \* filtered texts that workers hand over
  NoText,     \* response_content IS NULL
  Altered,    \* a text that Discord did not keep as it was written
  MaxPosts    \* bound: how many POSTs are sent

ASSUME ConstantsAssumption ==
  /\ NoText \notin Responses
  /\ Altered \notin Responses \cup {NoText}
  /\ MaxPosts \in Nat

VARIABLES
  rowState,   \* messages.state
  content,    \* response_content (and its digest, nonce and token)
  attempted,  \* response_attempted_at: number of the stamp, 0 for NULL
  stamps,     \* how many stamps were given out
  aged,       \* the stamp is older than NONCE_RETRY_WINDOW_SECONDS
  ambiguous,  \* response_ambiguous_at is set
  confirmed,  \* response_message_id, 0 for NULL
  transcript, \* turns in the transcript under the row's marker
  caller,     \* the command processes
  wire,       \* POSTs that Discord has not answered
  posts,      \* how many POSTs were sent
  discord,    \* texts of the bot's messages with the row's nonce
  remembered, \* the message Discord still knows the nonce of, or 0
  shared,     \* the stamp was handed to a second call for its POST (history)
  undercut    \* such a stamp was reset (history)

row == <<rowState, content, attempted, stamps, aged, ambiguous, confirmed>>
network == <<wire, posts, discord, remembered>>
history == <<shared, undercut>>
vars == <<row, transcript, caller, network, history>>

-----------------------------------------------------------------------------
(* States and types *)

CallerPc == {"idle", "prepared", "post", "posting", "rejected", "answered",
             "scan", "found", "unproven", "append", "finish", "erring"}

\* own: the stamp this call gave out, 0 if it found one.
\* id: the POST it waits for, later the message that answers it.
Idle == [pc |-> "idle", text |-> NoText, own |-> 0, id |-> 0]

Request(c) == [from |-> c, id |-> posts + 1, text |-> caller[c].text]

Go(c, pc) == caller' = [caller EXCEPT ![c].pc = pc]
Stop(c) == caller' = [caller EXCEPT ![c] = Idle]

Unresolved == attempted # 0 /\ confirmed = 0

Init ==
  /\ rowState = "spawned"
  /\ content = NoText
  /\ attempted = 0
  /\ stamps = 0
  /\ aged = FALSE
  /\ ambiguous = FALSE
  /\ confirmed = 0
  /\ transcript = <<>>
  /\ caller = [c \in Callers |-> Idle]
  /\ wire = {}
  /\ posts = 0
  /\ discord = <<>>
  /\ remembered = 0
  /\ shared = FALSE
  /\ undercut = FALSE

-----------------------------------------------------------------------------
(* Steps of one call *)

\* Mutant: the text is not compared with the frozen one.
PrepareAnyText(c, r) ==
  /\ caller[c].pc = "idle"
  /\ rowState = "spawned"
  /\ content' = r
  /\ caller' = [caller EXCEPT ![c] = [Idle EXCEPT !.pc = "prepared", !.text = r]]
  /\ UNCHANGED <<rowState, attempted, stamps, aged, ambiguous, confirmed,
                 transcript, network, history>>

\* prepare_response_completion freezes the text; a call with another text is
\* refused.  reconcile-response brings the stored text itself.  A row that is
\* done already answers the call without a change.
Prepare(c, r) ==
  /\ caller[c].pc = "idle"
  /\ rowState = "spawned"
  /\ content \in {NoText, r}
  /\ content' = r
  /\ caller' = [caller EXCEPT ![c] = [Idle EXCEPT !.pc = "prepared", !.text = r]]
  /\ UNCHANGED <<rowState, attempted, stamps, aged, ambiguous, confirmed,
                 transcript, network, history>>

\* A delivery that is confirmed already goes straight to the transcript.
Resume(c) ==
  /\ caller[c].pc = "prepared"
  /\ ~ambiguous
  /\ confirmed # 0
  /\ caller' = [caller EXCEPT ![c].pc = "append", ![c].id = confirmed]
  /\ UNCHANGED <<row, transcript, network, history>>

\* Mutant: an old attempt is repeated like a recent one.
AttemptAtAnyAge(c) ==
  /\ caller[c].pc = "prepared"
  /\ rowState = "spawned"
  /\ ~ambiguous
  /\ confirmed = 0
  /\ IF attempted = 0
       THEN /\ attempted' = stamps + 1
            /\ stamps' = stamps + 1
            /\ caller' = [caller EXCEPT ![c].pc = "post", ![c].own = stamps + 1]
       ELSE /\ Go(c, "post")
            /\ UNCHANGED <<attempted, stamps>>
  /\ shared' = (attempted # 0)
  /\ UNCHANGED <<rowState, content, aged, ambiguous, confirmed,
                 transcript, network, undercut>>

\* begin_response_attempt, and the choice its result decides: the first
\* attempt and a recent one POST, an older one looks into the history.
Attempt(c) ==
  /\ caller[c].pc = "prepared"
  /\ rowState = "spawned"
  /\ ~ambiguous
  /\ confirmed = 0
  /\ IF attempted = 0
       THEN /\ attempted' = stamps + 1
            /\ stamps' = stamps + 1
            /\ caller' = [caller EXCEPT ![c].pc = "post", ![c].own = stamps + 1]
       ELSE /\ Go(c, IF aged THEN "scan" ELSE "post")
            /\ UNCHANGED <<attempted, stamps>>
  /\ shared' = (attempted # 0 /\ (shared \/ ~aged))
  /\ UNCHANGED <<rowState, content, aged, ambiguous, confirmed,
                 transcript, network, undercut>>

\* The one POST of this call leaves.
Post(c) ==
  /\ caller[c].pc = "post"
  /\ posts < MaxPosts
  /\ wire' = wire \cup {Request(c)}
  /\ posts' = posts + 1
  /\ caller' = [caller EXCEPT ![c].pc = "posting", ![c].id = posts + 1]
  /\ UNCHANGED <<row, transcript, discord, remembered, history>>

\* A 4xx answer: clear_response_attempt if this call gave the stamp out.
Reset(c) ==
  /\ caller[c].pc = "rejected"
  /\ IF /\ rowState = "spawned"
        /\ attempted # 0
        /\ attempted = caller[c].own
        /\ ~ambiguous
        /\ confirmed = 0
       THEN /\ attempted' = 0
            /\ aged' = FALSE
            /\ undercut' = (undercut \/ shared)
       ELSE UNCHANGED <<attempted, aged, undercut>>
  /\ Stop(c)
  /\ UNCHANGED <<rowState, content, stamps, ambiguous, confirmed,
                 transcript, network, shared>>

\* The answer to the POST and the GET of the message it names must both be
\* exact.
CheckAnswer(c) ==
  /\ caller[c].pc = "answered"
  /\ Go(c, IF discord[caller[c].id] = caller[c].text THEN "found" ELSE "unproven")
  /\ UNCHANGED <<row, transcript, network, history>>

\* Mutant: the first match is taken, duplicates and contents are not checked.
ScanTakesFirst(c) ==
  /\ caller[c].pc = "scan"
  /\ caller' = [caller EXCEPT
       ![c].pc = IF discord = <<>> THEN "unproven" ELSE "found",
       ![c].id = IF discord = <<>> THEN 0 ELSE 1]
  /\ UNCHANGED <<row, transcript, network, history>>

\* _find_response_in_history: exactly one exact message, or no proof.  The
\* page limit and malformed pages can spoil the proof at any time.
Scan(c) ==
  /\ caller[c].pc = "scan"
  /\ \/ /\ discord = <<caller[c].text>>
        /\ caller' = [caller EXCEPT ![c].pc = "found", ![c].id = 1]
     \/ Go(c, "unproven")
  /\ UNCHANGED <<row, transcript, network, history>>

\* mark_response_ambiguous; the call ends with an error.
Quarantine(c) ==
  /\ caller[c].pc = "unproven"
  /\ ambiguous' = (ambiguous \/ (rowState = "spawned" /\ Unresolved))
  /\ Stop(c)
  /\ UNCHANGED <<rowState, content, attempted, stamps, aged, confirmed,
                 transcript, network, history>>

\* confirm_response_delivery: the row takes the message id, or has the same
\* one already, or the call fails.
Confirm(c) ==
  /\ caller[c].pc = "found"
  /\ IF /\ rowState = "spawned"
        /\ content = caller[c].text
        /\ Unresolved
        /\ ~ambiguous
       THEN confirmed' = caller[c].id
       ELSE UNCHANGED confirmed
  /\ IF /\ confirmed' = caller[c].id
        /\ content = caller[c].text
        /\ rowState # "errored"
        /\ ~ambiguous
       THEN Go(c, "append")
       ELSE Stop(c)
  /\ UNCHANGED <<rowState, content, attempted, stamps, aged, ambiguous,
                 transcript, network, history>>

\* Mutant: append_turn, without the marker.
AppendAgain(c) ==
  /\ caller[c].pc = "append"
  /\ transcript' = Append(transcript, caller[c].text)
  /\ Go(c, "finish")
  /\ UNCHANGED <<row, network, history>>

\* append_turn_once, under the registry lock: a turn that is there already is
\* not repeated, another text under the marker is refused.
AppendTurn(c) ==
  /\ caller[c].pc = "append"
  /\ IF transcript = <<>>
       THEN /\ transcript' = <<caller[c].text>>
            /\ Go(c, "finish")
       ELSE /\ IF transcript[1] = caller[c].text THEN Go(c, "finish") ELSE Stop(c)
            /\ UNCHANGED transcript
  /\ UNCHANGED <<row, network, history>>

\* finish_response_completion.
Finish(c) ==
  /\ caller[c].pc = "finish"
  /\ rowState' = IF /\ rowState = "spawned"
                    /\ content = caller[c].text
                    /\ confirmed = caller[c].id
                    /\ ~ambiguous
                   THEN "done" ELSE rowState
  /\ Stop(c)
  /\ UNCHANGED <<content, attempted, stamps, aged, ambiguous, confirmed,
                 transcript, network, history>>

\* A network error, a timeout, a check that fails, or the process is killed.
Fail(c) ==
  /\ caller[c].pc # "idle"
  /\ Stop(c)
  /\ UNCHANGED <<row, transcript, network, history>>

\* mark-errored reads the row ...
CheckDeadLetter(c) ==
  /\ caller[c].pc = "idle"
  /\ rowState = "spawned"
  /\ ~Unresolved
  /\ Go(c, "erring")
  /\ UNCHANGED <<row, transcript, network, history>>

\* ... and writes it in another statement, which only looks at the state.
DeadLetter(c) ==
  /\ caller[c].pc = "erring"
  /\ rowState' = IF rowState = "spawned" THEN "errored" ELSE rowState
  /\ Stop(c)
  /\ UNCHANGED <<content, attempted, stamps, aged, ambiguous, confirmed,
                 transcript, network, history>>

-----------------------------------------------------------------------------
(* Discord and time *)

\* The caller that still waits for request q.
Waiting(q) == caller[q.from].pc = "posting" /\ caller[q.from].id = q.id

\* Discord accepts a POST, as it was written or altered, unless it remembers
\* the nonce; it answers with the message's identifier.
Accept(q) ==
  /\ wire' = wire \ {q}
  /\ IF remembered # 0
       THEN UNCHANGED <<discord, remembered>>
       ELSE /\ \E text \in {q.text, Altered} : discord' = Append(discord, text)
            /\ remembered' = Len(discord')
  /\ IF Waiting(q)
       THEN caller' = [caller EXCEPT ![q.from].pc = "answered",
                                     ![q.from].id = remembered']
       ELSE UNCHANGED caller
  /\ UNCHANGED <<row, transcript, posts, history>>

\* Discord refuses a POST with a 4xx status.
Refuse(q) ==
  /\ wire' = wire \ {q}
  /\ IF Waiting(q) THEN Go(q.from, "rejected") ELSE UNCHANGED caller
  /\ UNCHANGED <<row, transcript, posts, discord, remembered, history>>

\* A POST is lost, or ends in a 5xx status; its caller fails.
Lose(q) ==
  /\ wire' = wire \ {q}
  /\ IF Waiting(q) THEN Stop(q.from) ELSE UNCHANGED caller
  /\ UNCHANGED <<row, transcript, posts, discord, remembered, history>>

\* The retry window of the nonce has passed.
Age ==
  /\ attempted # 0
  /\ ~aged
  /\ aged' = TRUE
  /\ UNCHANGED <<rowState, content, attempted, stamps, ambiguous, confirmed,
                 transcript, caller, network, history>>

\* Discord forgets the nonce.  It remembers it for longer than the retry
\* window and the life of a request together, so no POST decided on within
\* the window is still to be sent or on the wire.
Forget ==
  /\ remembered # 0
  /\ attempted = 0 \/ aged
  /\ wire = {}
  /\ \A c \in Callers : caller[c].pc # "post"
  /\ remembered' = 0
  /\ UNCHANGED <<row, transcript, caller, wire, posts, discord, history>>

-----------------------------------------------------------------------------
(* Specification *)

Call(c) ==
  \/ \E r \in Responses : Prepare(c, r)
  \/ Resume(c)
  \/ Attempt(c)
  \/ Post(c)
  \/ Reset(c)
  \/ CheckAnswer(c)
  \/ Scan(c)
  \/ Quarantine(c)
  \/ Confirm(c)
  \/ AppendTurn(c)
  \/ Finish(c)
  \/ Fail(c)
  \/ CheckDeadLetter(c)
  \/ DeadLetter(c)

Environment ==
  \/ \E q \in wire : Accept(q) \/ Refuse(q) \/ Lose(q)
  \/ Age
  \/ Forget

Next == (\E c \in Callers : Call(c)) \/ Environment

Spec == Init /\ [][Next]_vars

-----------------------------------------------------------------------------
(* Properties *)

TypeOK ==
  /\ rowState \in {"spawned", "done", "errored"}
  /\ content \in Responses \cup {NoText}
  /\ attempted \in 0..stamps
  /\ stamps \in Nat
  /\ aged \in BOOLEAN
  /\ ambiguous \in BOOLEAN
  /\ confirmed \in 0..Len(discord)
  /\ transcript \in Seq(Responses)
  /\ caller \in [Callers -> [pc : CallerPc, text : Responses \cup {NoText},
                             own : Nat, id : Nat]]
  /\ wire \subseteq [from : Callers, id : Nat, text : Responses]
  /\ posts \in Nat
  /\ discord \in Seq(Responses \cup {Altered})
  /\ remembered \in 0..Len(discord)
  /\ shared \in BOOLEAN
  /\ undercut \in BOOLEAN

\* The answer appears in Discord at most once, whatever calls fail, are
\* repeated or overlap and however late a POST is accepted, except after a
\* reset that undercut another call's attempt.
AtMostOneCopy == ~undercut => Len(discord) <= 1

\* The row records an attempt as long as a POST of it may still be, or become,
\* a message: a crash at any point leaves the next call a warning.
PostIsRecorded ==
  ~undercut /\ (wire # {} \/ discord # <<>>) => attempted # 0

\* A confirmed delivery is a message that exists, with the text the row froze,
\* also when different workers hand over different texts.
ConfirmedIsExact ==
  confirmed # 0 => discord[confirmed] = content

\* The transcript has the answer at most once, only after Discord has it, and
\* the row is done only after both.
TranscribedOnce ==
  /\ transcript \in {<<>>, <<content>>}
  /\ transcript # <<>> => confirmed # 0
  /\ rowState = "done" => transcript # <<>>

\* A quarantined delivery is not completed behind the operator's back by a
\* call that was under way.
QuarantineHolds == ambiguous => confirmed = 0 /\ rowState # "done"
=============================================================================
