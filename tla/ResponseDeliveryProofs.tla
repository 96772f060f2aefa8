------------------------ MODULE ResponseDeliveryProofs ------------------------
(***************************************************************************)
(* Proofs about ResponseDelivery, for any number of calls, any texts and   *)
(* any bound on the POSTs.                                                 *)
(***************************************************************************)
EXTENDS ResponseDelivery, TLAPS

-----------------------------------------------------------------------------
(* What a step does to its caller *)

CallerRecord == [pc : CallerPc, text : Responses \cup {NoText}, own : Nat, id : Nat]

CallerTyped == caller \in [Callers -> CallerRecord]

\* Caller c gets these fields and no other caller changes.
Becomes(c, pc, text, own, id) ==
  /\ CallerTyped'
  /\ caller'[c].pc = pc
  /\ caller'[c].text = text
  /\ caller'[c].own = own
  /\ caller'[c].id = id
  /\ \A d \in Callers : d # c => caller'[d] = caller[d]

LEMMA Records ==
  ASSUME CallerTyped, NEW c \in Callers
  PROVE  /\ caller[c].pc \in CallerPc
         /\ caller[c].text \in Responses \cup {NoText}
         /\ caller[c].own \in Nat
         /\ caller[c].id \in Nat
BY DEF CallerTyped, CallerRecord

LEMMA Going ==
  ASSUME CallerTyped, NEW c \in Callers, NEW p \in CallerPc, Go(c, p)
  PROVE  Becomes(c, p, caller[c].text, caller[c].own, caller[c].id)
BY DEF CallerTyped, CallerRecord, Go, Becomes

LEMMA Stopping ==
  ASSUME CallerTyped, NEW c \in Callers, Stop(c)
  PROVE  Becomes(c, "idle", NoText, 0, 0)
BY DEF CallerTyped, CallerRecord, CallerPc, Stop, Idle, Becomes

LEMMA Preparing ==
  ASSUME CallerTyped, NEW c \in Callers, NEW r \in Responses, Prepare(c, r)
  PROVE  Becomes(c, "prepared", r, 0, 0)
BY DEF CallerTyped, CallerRecord, CallerPc, Prepare, Idle, Becomes

LEMMA Owning ==
  ASSUME CallerTyped, NEW c \in Callers, NEW n \in Nat,
         caller' = [caller EXCEPT ![c].pc = "post", ![c].own = n]
  PROVE  Becomes(c, "post", caller[c].text, n, caller[c].id)
BY DEF CallerTyped, CallerRecord, CallerPc, Becomes

LEMMA Naming ==
  ASSUME CallerTyped, NEW c \in Callers, NEW p \in CallerPc, NEW n \in Nat,
         caller' = [caller EXCEPT ![c].pc = p, ![c].id = n]
  PROVE  Becomes(c, p, caller[c].text, caller[c].own, n)
BY DEF CallerTyped, CallerRecord, Becomes

LEMMA Attempting ==
  ASSUME CallerTyped, stamps \in Nat, NEW c \in Callers, Attempt(c)
  PROVE  IF attempted = 0
           THEN Becomes(c, "post", caller[c].text, stamps + 1, caller[c].id)
           ELSE Becomes(c, IF aged THEN "scan" ELSE "post",
                        caller[c].text, caller[c].own, caller[c].id)
<1>1. CASE attempted = 0
  <2>1. stamps + 1 \in Nat
    OBVIOUS
  <2>2. caller' = [caller EXCEPT ![c].pc = "post", ![c].own = stamps + 1]
    BY <1>1 DEF Attempt
  <2> QED
    BY <1>1, <2>1, <2>2, Owning
<1>2. CASE attempted # 0
  <2>1. (IF aged THEN "scan" ELSE "post") \in CallerPc
    BY DEF CallerPc
  <2>2. Go(c, IF aged THEN "scan" ELSE "post")
    BY <1>2 DEF Attempt
  <2> QED
    BY <1>2, <2>1, <2>2, Going
<1> QED
  BY <1>1, <1>2

LEMMA Resuming ==
  ASSUME CallerTyped, confirmed \in Nat, NEW c \in Callers, Resume(c)
  PROVE  Becomes(c, "append", caller[c].text, caller[c].own, confirmed)
BY Naming DEF Resume, CallerPc

LEMMA Posting ==
  ASSUME CallerTyped, posts \in Nat, NEW c \in Callers, Post(c)
  PROVE  Becomes(c, "posting", caller[c].text, caller[c].own, posts + 1)
<1>1. posts + 1 \in Nat
  OBVIOUS
<1> QED
  BY <1>1, Naming DEF Post, CallerPc

LEMMA Checking ==
  ASSUME CallerTyped, NEW c \in Callers, CheckAnswer(c)
  PROVE  IF discord[caller[c].id] = caller[c].text
           THEN Becomes(c, "found", caller[c].text, caller[c].own, caller[c].id)
           ELSE Becomes(c, "unproven", caller[c].text, caller[c].own, caller[c].id)
BY Going DEF CheckAnswer, CallerPc

LEMMA Scanning ==
  ASSUME CallerTyped, NEW c \in Callers, Scan(c)
  PROVE  \/ /\ discord = <<caller[c].text>>
            /\ Becomes(c, "found", caller[c].text, caller[c].own, 1)
         \/ Becomes(c, "unproven", caller[c].text, caller[c].own, caller[c].id)
BY Going, Naming DEF Scan, CallerPc

LEMMA Confirming ==
  ASSUME CallerTyped, NEW c \in Callers, Confirm(c)
  PROVE  \/ Becomes(c, "idle", NoText, 0, 0)
         \/ /\ confirmed' = caller[c].id
            /\ Becomes(c, "append", caller[c].text, caller[c].own, caller[c].id)
BY Going, Stopping DEF Confirm, CallerPc

LEMMA Appending ==
  ASSUME CallerTyped, NEW c \in Callers, AppendTurn(c)
  PROVE  \/ Becomes(c, "idle", NoText, 0, 0) /\ transcript' = transcript
         \/ /\ Becomes(c, "finish", caller[c].text, caller[c].own, caller[c].id)
            /\ transcript' # <<>>
            /\ transcript' \in {transcript, <<caller[c].text>>}
BY Going, Stopping DEF AppendTurn, CallerPc

LEMMA Erring ==
  ASSUME CallerTyped, NEW c \in Callers, CheckDeadLetter(c)
  PROVE  Becomes(c, "erring", caller[c].text, caller[c].own, caller[c].id)
BY Going DEF CheckDeadLetter, CallerPc

LEMMA Ending ==
  ASSUME CallerTyped, NEW c \in Callers,
         Reset(c) \/ Quarantine(c) \/ Finish(c) \/ Fail(c) \/ DeadLetter(c)
  PROVE  Becomes(c, "idle", NoText, 0, 0)
BY Stopping DEF Reset, Quarantine, Finish, Fail, DeadLetter

\* Discord's answers reach the caller that still waits.
LEMMA Accepting ==
  ASSUME CallerTyped, NEW q \in wire, q.from \in Callers, remembered' \in Nat, Accept(q)
  PROVE  IF Waiting(q)
           THEN Becomes(q.from, "answered", caller[q.from].text, caller[q.from].own, remembered')
           ELSE UNCHANGED caller
BY Naming DEF Accept, CallerPc

LEMMA Refusing ==
  ASSUME CallerTyped, NEW q \in wire, q.from \in Callers, Refuse(q)
  PROVE  IF Waiting(q)
           THEN Becomes(q.from, "rejected", caller[q.from].text, caller[q.from].own, caller[q.from].id)
           ELSE UNCHANGED caller
BY Going DEF Refuse, CallerPc

LEMMA Losing ==
  ASSUME CallerTyped, NEW q \in wire, q.from \in Callers, Lose(q)
  PROVE  IF Waiting(q)
           THEN Becomes(q.from, "idle", NoText, 0, 0)
           ELSE UNCHANGED caller
BY Stopping DEF Lose

-----------------------------------------------------------------------------
(* Types *)

\* TypeOK in parts.
CountersTyped == stamps \in Nat /\ attempted \in 0..stamps /\ posts \in Nat

WireTyped == wire \subseteq [from : Callers, id : Nat, text : Responses]

DiscordTyped ==
  /\ discord \in Seq(Responses \cup {Altered})
  /\ remembered \in 0..Len(discord)
  /\ confirmed \in 0..Len(discord)

RowTyped ==
  /\ rowState \in {"spawned", "done", "errored"}
  /\ content \in Responses \cup {NoText}
  /\ transcript \in Seq(Responses)

FlagsTyped ==
  /\ aged \in BOOLEAN
  /\ ambiguous \in BOOLEAN
  /\ shared \in BOOLEAN
  /\ undercut \in BOOLEAN

\* A call that passed prepare_response_completion has a text; one that found
\* the answer, or was told of it, holds the identifier of an existing message.
CallerHolds ==
  \A c \in Callers :
    /\ caller[c].pc \notin {"idle", "erring"} => caller[c].text \in Responses
    /\ caller[c].pc \in {"answered", "found"} => caller[c].id \in 1..Len(discord)

Typed ==
  CountersTyped /\ WireTyped /\ DiscordTyped /\ RowTyped /\ FlagsTyped
  /\ CallerTyped /\ CallerHolds

\* What the leaves below use of it.
LEMMA Numbers ==
  ASSUME Typed
  PROVE  /\ CallerTyped
         /\ stamps \in Nat /\ attempted \in Nat /\ posts \in Nat
         /\ Len(discord) \in Nat /\ remembered \in Nat /\ confirmed \in Nat
         /\ \A q \in wire : q.from \in Callers /\ q.id \in Nat /\ q.text \in Responses
<1>1. CallerTyped /\ stamps \in Nat /\ attempted \in Nat /\ posts \in Nat
  BY DEF Typed, CountersTyped
<1>2. Len(discord) \in Nat /\ remembered \in Nat /\ confirmed \in Nat
  BY DEF Typed, DiscordTyped
<1>3. \A q \in wire : q.from \in Callers /\ q.id \in Nat /\ q.text \in Responses
  BY DEF Typed, WireTyped
<1> QED
  BY <1>1, <1>2, <1>3

\* Discord's history only grows, by one message at a time.
LEMMA Growing ==
  ASSUME DiscordTyped, NEW q \in wire, q.text \in Responses, Accept(q)
  PROVE  /\ remembered # 0 => UNCHANGED <<discord, remembered>>
         /\ remembered = 0 =>
              /\ discord' \in Seq(Responses \cup {Altered})
              /\ Len(discord') = Len(discord) + 1
              /\ remembered' = Len(discord) + 1
              /\ \A i \in 1..Len(discord) : discord'[i] = discord[i]
<1>1. CASE remembered # 0
  BY <1>1 DEF Accept
<1>2. CASE remembered = 0
  <2>1. PICK text \in {q.text, Altered} : discord' = Append(discord, text)
    BY <1>2 DEF Accept
  <2>2. /\ discord' \in Seq(Responses \cup {Altered})
        /\ Len(discord') = Len(discord) + 1
        /\ \A i \in 1..Len(discord) : discord'[i] = discord[i]
    BY <2>1 DEF DiscordTyped
  <2>3. remembered' = Len(discord) + 1
    BY <1>2, <2>2 DEF Accept
  <2> QED
    BY <1>2, <2>2, <2>3
<1> QED
  BY <1>1, <1>2

LEMMA Types == Spec => []Typed
<1>1. Init => Typed
  <2> SUFFICES ASSUME Init PROVE Typed
    OBVIOUS
  <2> USE DEF Init
  <2>1. CountersTyped /\ WireTyped
    BY DEF CountersTyped, WireTyped
  <2>2. DiscordTyped /\ RowTyped
    BY DEF DiscordTyped, RowTyped
  <2>3. FlagsTyped
    BY DEF FlagsTyped
  <2>4. CallerTyped /\ CallerHolds
    BY DEF CallerTyped, CallerRecord, CallerHolds, CallerPc, Idle
  <2> QED
    BY <2>1, <2>2, <2>3, <2>4 DEF Typed
<1>2. Typed /\ [Next]_vars => CountersTyped'
  <2> SUFFICES ASSUME Typed, [Next]_vars
               PROVE  CountersTyped'
    OBVIOUS
  <2> CountersTyped
    BY DEF Typed
  <2> USE DEF CountersTyped, row, network, history
  <2>1. ASSUME NEW c \in Callers, NEW r \in Responses,
                Prepare(c, r)
         PROVE  CountersTyped'
    BY <2>1 DEF Prepare
  <2>2. ASSUME NEW c \in Callers,
                Resume(c) \/ Attempt(c) \/ Post(c) \/ Reset(c)
                \/ CheckAnswer(c) \/ Scan(c) \/ Quarantine(c)
                \/ Confirm(c) \/ AppendTurn(c) \/ Finish(c) \/ Fail(c)
                \/ CheckDeadLetter(c) \/ DeadLetter(c)
         PROVE  CountersTyped'
    BY <2>2 DEF Resume, Attempt, Post, Reset, CheckAnswer, Scan, Quarantine,
                Confirm, AppendTurn, Finish, Fail, CheckDeadLetter, DeadLetter
  <2>3. ASSUME NEW q \in wire,
                Accept(q) \/ Refuse(q) \/ Lose(q)
         PROVE  CountersTyped'
    BY <2>3 DEF Accept, Refuse, Lose
  <2>4. CASE Age \/ Forget
    BY <2>4 DEF Age, Forget
  <2>5. CASE UNCHANGED vars
    BY <2>5 DEF vars, row, network, history
  <2> QED
    BY <2>1, <2>2, <2>3, <2>4, <2>5
    DEF Next, Call, Environment
<1>3. Typed /\ [Next]_vars => WireTyped'
  <2> SUFFICES ASSUME Typed, [Next]_vars
               PROVE  WireTyped'
    OBVIOUS
  <2> WireTyped
    BY DEF Typed
  <2> USE Numbers DEF WireTyped, row, network, history
  <2>1. ASSUME NEW c \in Callers, NEW r \in Responses,
                Prepare(c, r)
         PROVE  WireTyped'
    BY <2>1 DEF Prepare
  <2>2. ASSUME NEW c \in Callers,
                Resume(c) \/ Attempt(c) \/ Reset(c) \/ CheckAnswer(c)
                \/ Scan(c) \/ Quarantine(c) \/ Confirm(c)
                \/ AppendTurn(c) \/ Finish(c) \/ Fail(c)
                \/ CheckDeadLetter(c) \/ DeadLetter(c)
         PROVE  WireTyped'
    BY <2>2 DEF Resume, Attempt, Reset, CheckAnswer, Scan, Quarantine,
                Confirm, AppendTurn, Finish, Fail, CheckDeadLetter, DeadLetter
  <2>3. ASSUME NEW q \in wire,
                Accept(q) \/ Refuse(q) \/ Lose(q)
         PROVE  WireTyped'
    BY <2>3 DEF Accept, Refuse, Lose
  <2>4. CASE Age \/ Forget
    BY <2>4 DEF Age, Forget
  <2>5. ASSUME NEW c \in Callers, Post(c) PROVE WireTyped'
    <3>1. caller[c].text \in Responses
      BY <2>5 DEF Typed, CallerHolds, Post
    <3> QED
      BY <2>5, <3>1 DEF Post, Request
  <2>6. CASE UNCHANGED vars
    BY <2>6 DEF vars, row, network, history
  <2> QED
    BY <2>1, <2>2, <2>3, <2>4, <2>5, <2>6
    DEF Next, Call, Environment
<1>4. Typed /\ [Next]_vars => DiscordTyped'
  <2> SUFFICES ASSUME Typed, [Next]_vars
               PROVE  DiscordTyped'
    OBVIOUS
  <2> DiscordTyped
    BY DEF Typed
  <2> USE DEF DiscordTyped, row, network, history
  <2>1. ASSUME NEW c \in Callers, NEW r \in Responses,
                Prepare(c, r)
         PROVE  DiscordTyped'
    BY <2>1 DEF Prepare
  <2>2. ASSUME NEW c \in Callers,
                Resume(c) \/ Attempt(c) \/ Post(c) \/ Reset(c)
                \/ CheckAnswer(c) \/ Scan(c) \/ Quarantine(c)
                \/ AppendTurn(c) \/ Finish(c) \/ Fail(c)
                \/ CheckDeadLetter(c) \/ DeadLetter(c)
         PROVE  DiscordTyped'
    BY <2>2 DEF Resume, Attempt, Post, Reset, CheckAnswer, Scan, Quarantine,
                AppendTurn, Finish, Fail, CheckDeadLetter, DeadLetter
  <2>3. ASSUME NEW q \in wire, Refuse(q) \/ Lose(q) PROVE DiscordTyped'
    BY <2>3 DEF Refuse, Lose
  <2>4. CASE Age \/ Forget
    BY <2>4 DEF Age, Forget
  <2>5. ASSUME NEW c \in Callers, Confirm(c) PROVE DiscordTyped'
    <3>1. caller[c].id \in 1..Len(discord)
      BY <2>5 DEF Typed, CallerHolds, Confirm
    <3> QED
      BY <2>5, <3>1 DEF Confirm
  <2>6. ASSUME NEW q \in wire, Accept(q) PROVE DiscordTyped'
    <3>1. q.text \in Responses
      BY Numbers
    <3> QED
      BY <2>6, <3>1, Growing DEF Accept
  <2>7. CASE UNCHANGED vars
    BY <2>7 DEF vars, row, network, history
  <2> QED
    BY <2>1, <2>2, <2>3, <2>4, <2>5, <2>6, <2>7
    DEF Next, Call, Environment
<1>5. Typed /\ [Next]_vars => RowTyped'
  <2> SUFFICES ASSUME Typed, [Next]_vars
               PROVE  RowTyped'
    OBVIOUS
  <2> RowTyped
    BY DEF Typed
  <2> USE DEF RowTyped, row, network, history
  <2>1. ASSUME NEW c \in Callers, NEW r \in Responses,
                Prepare(c, r)
         PROVE  RowTyped'
    BY <2>1 DEF Prepare
  <2>2. ASSUME NEW c \in Callers,
                Resume(c) \/ Attempt(c) \/ Post(c) \/ Reset(c)
                \/ CheckAnswer(c) \/ Scan(c) \/ Quarantine(c)
                \/ Confirm(c) \/ Finish(c) \/ Fail(c)
                \/ CheckDeadLetter(c) \/ DeadLetter(c)
         PROVE  RowTyped'
    BY <2>2 DEF Resume, Attempt, Post, Reset, CheckAnswer, Scan, Quarantine,
                Confirm, Finish, Fail, CheckDeadLetter, DeadLetter
  <2>3. ASSUME NEW q \in wire,
                Accept(q) \/ Refuse(q) \/ Lose(q)
         PROVE  RowTyped'
    BY <2>3 DEF Accept, Refuse, Lose
  <2>4. CASE Age \/ Forget
    BY <2>4 DEF Age, Forget
  <2>5. ASSUME NEW c \in Callers, AppendTurn(c) PROVE RowTyped'
    <3>1. caller[c].text \in Responses
      BY <2>5 DEF Typed, CallerHolds, AppendTurn
    <3>2. transcript' \in {transcript, <<caller[c].text>>}
      BY <2>5 DEF AppendTurn
    <3>3. <<caller[c].text>> \in Seq(Responses)
      BY <3>1
    <3>4. transcript' \in Seq(Responses)
      BY <3>2, <3>3
    <3> QED
      BY <2>5, <3>4 DEF AppendTurn
  <2>6. CASE UNCHANGED vars
    BY <2>6 DEF vars, row, network, history
  <2> QED
    BY <2>1, <2>2, <2>3, <2>4, <2>5, <2>6
    DEF Next, Call, Environment
<1>6. Typed /\ [Next]_vars => FlagsTyped'
  <2> SUFFICES ASSUME Typed, [Next]_vars
               PROVE  FlagsTyped'
    OBVIOUS
  <2> FlagsTyped
    BY DEF Typed
  <2> USE DEF FlagsTyped, row, network, history
  <2>1. ASSUME NEW c \in Callers, NEW r \in Responses,
                Prepare(c, r)
         PROVE  FlagsTyped'
    BY <2>1 DEF Prepare
  <2>2. ASSUME NEW c \in Callers,
                Resume(c) \/ Attempt(c) \/ Post(c) \/ Reset(c)
                \/ CheckAnswer(c) \/ Scan(c) \/ Quarantine(c)
                \/ Confirm(c) \/ AppendTurn(c) \/ Finish(c) \/ Fail(c)
                \/ CheckDeadLetter(c) \/ DeadLetter(c)
         PROVE  FlagsTyped'
    BY <2>2 DEF Resume, Attempt, Post, Reset, CheckAnswer, Scan, Quarantine,
                Confirm, AppendTurn, Finish, Fail, CheckDeadLetter, DeadLetter
  <2>3. ASSUME NEW q \in wire,
                Accept(q) \/ Refuse(q) \/ Lose(q)
         PROVE  FlagsTyped'
    BY <2>3 DEF Accept, Refuse, Lose
  <2>4. CASE Age \/ Forget
    BY <2>4 DEF Age, Forget
  <2>5. CASE UNCHANGED vars
    BY <2>5 DEF vars, row, network, history
  <2> QED
    BY <2>1, <2>2, <2>3, <2>4, <2>5
    DEF Next, Call, Environment
<1>7. Typed /\ [Next]_vars => CallerTyped'
  <2> SUFFICES ASSUME Typed, [Next]_vars
               PROVE  CallerTyped'
    OBVIOUS
  <2> USE Numbers DEF row, network, history, Becomes
  <2>1. ASSUME NEW c \in Callers, NEW r \in Responses, Prepare(c, r) PROVE CallerTyped'
    BY <2>1, Preparing DEF Prepare
  <2>2. ASSUME NEW c \in Callers, Resume(c) PROVE CallerTyped'
    BY <2>2, Resuming DEF Resume
  <2>3. ASSUME NEW c \in Callers, Attempt(c) PROVE CallerTyped'
    BY <2>3, Attempting DEF Attempt
  <2>4. ASSUME NEW c \in Callers, Post(c) PROVE CallerTyped'
    BY <2>4, Posting DEF Post
  <2>5. ASSUME NEW c \in Callers, Reset(c) PROVE CallerTyped'
    BY <2>5, Ending DEF Reset
  <2>6. ASSUME NEW c \in Callers, CheckAnswer(c) PROVE CallerTyped'
    BY <2>6, Checking DEF CheckAnswer
  <2>7. ASSUME NEW c \in Callers, Scan(c) PROVE CallerTyped'
    BY <2>7, Scanning DEF Scan
  <2>8. ASSUME NEW c \in Callers, Quarantine(c) PROVE CallerTyped'
    BY <2>8, Ending DEF Quarantine
  <2>9. ASSUME NEW c \in Callers, Confirm(c) PROVE CallerTyped'
    BY <2>9, Confirming DEF Confirm
  <2>10. ASSUME NEW c \in Callers, AppendTurn(c) PROVE CallerTyped'
    BY <2>10, Appending DEF AppendTurn
  <2>11. ASSUME NEW c \in Callers, Finish(c) PROVE CallerTyped'
    BY <2>11, Ending DEF Finish
  <2>12. ASSUME NEW c \in Callers, Fail(c) PROVE CallerTyped'
    BY <2>12, Ending DEF Fail
  <2>13. ASSUME NEW c \in Callers, CheckDeadLetter(c) PROVE CallerTyped'
    BY <2>13, Erring DEF CheckDeadLetter
  <2>14. ASSUME NEW c \in Callers, DeadLetter(c) PROVE CallerTyped'
    BY <2>14, Ending DEF DeadLetter
  <2>15. ASSUME NEW q \in wire, Accept(q) PROVE CallerTyped'
    <3>1. q.text \in Responses
      OBVIOUS
    <3>2. remembered' \in Nat
      BY <2>15, <3>1, Growing DEF Typed
    <3> QED
      BY <2>15, <3>2, Accepting DEF CallerTyped
  <2>16. ASSUME NEW q \in wire, Refuse(q) PROVE CallerTyped'
    BY <2>16, Refusing DEF Refuse, CallerTyped
  <2>17. ASSUME NEW q \in wire, Lose(q) PROVE CallerTyped'
    BY <2>17, Losing DEF Lose, CallerTyped
  <2>18. CASE Age
    BY <2>18 DEF Age, CallerTyped
  <2>19. CASE Forget
    BY <2>19 DEF Forget, CallerTyped
  <2>20. CASE UNCHANGED vars
    BY <2>20 DEF vars, CallerTyped
  <2> QED
    BY <2>1, <2>2, <2>3, <2>4, <2>5, <2>6, <2>7, <2>8, <2>9, <2>10, <2>11,
       <2>12, <2>13, <2>14, <2>15, <2>16, <2>17, <2>18, <2>19, <2>20
    DEF Next, Call, Environment
<1>8. Typed /\ [Next]_vars => CallerHolds'
  <2> SUFFICES ASSUME Typed, [Next]_vars
               PROVE  CallerHolds'
    OBVIOUS
  <2> CallerHolds
    BY DEF Typed
  <2> USE Numbers DEF CallerHolds, row, network, history, Becomes
  <2>1. ASSUME NEW c \in Callers, NEW r \in Responses, Prepare(c, r) PROVE CallerHolds'
    <3>1. discord' = discord
      BY <2>1 DEF Prepare
    <3> QED
      BY <2>1, <3>1, Preparing
  <2>2. ASSUME NEW c \in Callers, Resume(c) PROVE CallerHolds'
    BY <2>2, Resuming DEF Resume
  <2>3. ASSUME NEW c \in Callers, Attempt(c) PROVE CallerHolds'
    BY <2>3, Attempting DEF Attempt
  <2>4. ASSUME NEW c \in Callers, Post(c) PROVE CallerHolds'
    BY <2>4, Posting DEF Post
  <2>5. ASSUME NEW c \in Callers, Reset(c) PROVE CallerHolds'
    BY <2>5, Ending DEF Reset
  <2>6. ASSUME NEW c \in Callers, CheckAnswer(c) PROVE CallerHolds'
    BY <2>6, Checking DEF CheckAnswer
  <2>7. ASSUME NEW c \in Callers, Scan(c) PROVE CallerHolds'
    <3>1. discord' = discord /\ caller[c].pc = "scan"
      BY <2>7 DEF Scan
    <3>2. discord = <<caller[c].text>> => Len(discord) = 1
      OBVIOUS
    <3>3. \/ /\ discord = <<caller[c].text>>
             /\ Becomes(c, "found", caller[c].text, caller[c].own, 1)
          \/ Becomes(c, "unproven", caller[c].text, caller[c].own, caller[c].id)
      BY <2>7, Scanning
    <3>4. 1 \in 1..1
      OBVIOUS
    <3> QED
      BY <3>1, <3>2, <3>3, <3>4
  <2>8. ASSUME NEW c \in Callers, Quarantine(c) PROVE CallerHolds'
    BY <2>8, Ending DEF Quarantine
  <2>9. ASSUME NEW c \in Callers, Confirm(c) PROVE CallerHolds'
    BY <2>9, Confirming DEF Confirm
  <2>10. ASSUME NEW c \in Callers, AppendTurn(c) PROVE CallerHolds'
    BY <2>10, Appending DEF AppendTurn
  <2>11. ASSUME NEW c \in Callers, Finish(c) PROVE CallerHolds'
    BY <2>11, Ending DEF Finish
  <2>12. ASSUME NEW c \in Callers, Fail(c) PROVE CallerHolds'
    BY <2>12, Ending DEF Fail
  <2>13. ASSUME NEW c \in Callers, CheckDeadLetter(c) PROVE CallerHolds'
    BY <2>13, Erring DEF CheckDeadLetter
  <2>14. ASSUME NEW c \in Callers, DeadLetter(c) PROVE CallerHolds'
    BY <2>14, Ending DEF DeadLetter
  <2>15. ASSUME NEW q \in wire, Accept(q) PROVE CallerHolds'
    <3>1. q.text \in Responses /\ DiscordTyped
      BY DEF Typed
    <3>2. remembered' \in 1..Len(discord') /\ Len(discord') \in Nat /\ Len(discord) <= Len(discord')
      BY <2>15, <3>1, Growing DEF DiscordTyped
    <3> QED
      BY <2>15, <3>2, Accepting DEF Waiting
  <2>16. ASSUME NEW q \in wire, Refuse(q) PROVE CallerHolds'
    <3>1. discord' = discord
      BY <2>16 DEF Refuse
    <3>2. CASE Waiting(q)
      <4>1. Becomes(q.from, "rejected", caller[q.from].text, caller[q.from].own, caller[q.from].id)
        BY <2>16, <3>2, Refusing
      <4> QED
        BY <3>1, <3>2, <4>1 DEF Waiting
    <3>3. CASE ~Waiting(q)
      <4>1. UNCHANGED caller
        BY <2>16, <3>3 DEF Refuse
      <4> QED
        BY <3>1, <4>1
    <3> QED
      BY <3>2, <3>3
  <2>17. ASSUME NEW q \in wire, Lose(q) PROVE CallerHolds'
    BY <2>17, Losing DEF Lose
  <2>18. CASE Age
    BY <2>18 DEF Age
  <2>19. CASE Forget
    BY <2>19 DEF Forget
  <2>20. CASE UNCHANGED vars
    BY <2>20 DEF vars, row, network, history
  <2> QED
    BY <2>1, <2>2, <2>3, <2>4, <2>5, <2>6, <2>7, <2>8, <2>9, <2>10, <2>11,
       <2>12, <2>13, <2>14, <2>15, <2>16, <2>17, <2>18, <2>19, <2>20
    DEF Next, Call, Environment
<1> QED
  BY <1>1, <1>2, <1>3, <1>4, <1>5, <1>6, <1>7, <1>8, PTL DEF Spec, Typed

\* Every variable keeps the type its column or object has in the code.
THEOREM Typing == Spec => []TypeOK
<1>1. Typed => TypeOK
  <2> SUFFICES ASSUME Typed PROVE TypeOK
    OBVIOUS
  <2>1. CountersTyped /\ WireTyped /\ DiscordTyped /\ RowTyped /\ FlagsTyped /\ CallerTyped
    BY DEF Typed
  <2> QED
    BY <2>1 DEF TypeOK, CountersTyped, WireTyped, DiscordTyped, RowTyped, FlagsTyped,
                CallerTyped, CallerRecord
<1> QED
  BY <1>1, Types, PTL

-----------------------------------------------------------------------------
(* At most one copy *)

\* A call about to POST has left its attempt in the row.
PostsAreAttempts == \A c \in Callers : caller[c].pc = "post" => attempted # 0

\* Every request on the wire is another one.
RequestsDiffer ==
  /\ \A q \in wire : q.id <= posts
  /\ \A q, s \in wire : q.id = s.id => q = s

\* A stamp is given out to one call.
StampsDiffer ==
  /\ \A c \in Callers : caller[c].own <= stamps
  /\ \A c, d \in Callers : caller[c].own = caller[d].own /\ caller[c].own # 0 => c = d

\* When Discord has forgotten the nonce of a message, no POST can follow.
ForgettingIsSafe ==
  discord # <<>> /\ remembered = 0 =>
    /\ attempted # 0
    /\ aged
    /\ wire = {}
    /\ \A c \in Callers : caller[c].pc # "post"

\* Until another call joins an attempt, the call that owns it is the only one
\* that POSTs, and nothing of the row is in Discord while it may still be
\* refused.
OwnerAlone ==
  ~shared /\ attempted # 0 =>
    \A c \in Callers :
      /\ caller[c].pc = "post" => caller[c].own = attempted
      /\ caller[c].own = attempted =>
           /\ caller[c].pc \in {"post", "rejected"} => wire = {} /\ discord = <<>>
           /\ caller[c].pc = "posting" =>
                /\ discord = <<>>
                /\ \A q \in wire : q.from = c /\ q.id = caller[c].id

\* The row records an attempt while one of its POSTs may become a message.
AttemptIsRecorded == wire # {} \/ discord # <<>> => attempted # 0

Once ==
  Len(discord) <= 1 /\ AttemptIsRecorded /\ PostsAreAttempts /\ ForgettingIsSafe /\ OwnerAlone

OnceInv == undercut \/ Once

LEMMA Requests == Spec => []RequestsDiffer
<1>1. Init => RequestsDiffer
  BY DEF Init, RequestsDiffer, Idle
<1>2. Typed /\ RequestsDiffer /\ [Next]_vars => RequestsDiffer'
  <2> SUFFICES ASSUME Typed, RequestsDiffer, [Next]_vars
               PROVE  RequestsDiffer'
    OBVIOUS
  <2> USE Numbers DEF RequestsDiffer, row, network, history
  <2>1. ASSUME NEW c \in Callers, NEW r \in Responses,
                Prepare(c, r)
         PROVE  RequestsDiffer'
    BY <2>1 DEF Prepare
  <2>2. ASSUME NEW c \in Callers,
                Resume(c) \/ Attempt(c) \/ Reset(c) \/ CheckAnswer(c)
                \/ Scan(c) \/ Quarantine(c) \/ Confirm(c)
                \/ AppendTurn(c) \/ Finish(c) \/ Fail(c)
                \/ CheckDeadLetter(c) \/ DeadLetter(c)
         PROVE  RequestsDiffer'
    BY <2>2 DEF Resume, Attempt, Reset, CheckAnswer, Scan, Quarantine,
                Confirm, AppendTurn, Finish, Fail, CheckDeadLetter, DeadLetter
  <2>3. ASSUME NEW q \in wire,
                Accept(q) \/ Refuse(q) \/ Lose(q)
         PROVE  RequestsDiffer'
    BY <2>3 DEF Accept, Refuse, Lose
  <2>4. CASE Age \/ Forget
    BY <2>4 DEF Age, Forget
  <2>5. ASSUME NEW c \in Callers, Post(c) PROVE RequestsDiffer'
    BY <2>5 DEF Post, Request
  <2>6. CASE UNCHANGED vars
    BY <2>6 DEF vars, row, network, history
  <2> QED
    BY <2>1, <2>2, <2>3, <2>4, <2>5, <2>6
    DEF Next, Call, Environment
<1> QED
  BY <1>1, <1>2, Types, PTL DEF Spec

LEMMA Stamps == Spec => []StampsDiffer
<1>1. Init => StampsDiffer
  BY DEF Init, StampsDiffer, Idle
<1>2. Typed /\ StampsDiffer /\ [Next]_vars => StampsDiffer'
  <2> SUFFICES ASSUME Typed, StampsDiffer, [Next]_vars
               PROVE  StampsDiffer'
    OBVIOUS
  <2> /\ CallerTyped
      /\ stamps \in Nat /\ posts \in Nat /\ confirmed \in Nat
      /\ Len(discord) \in Nat /\ remembered \in Nat
      /\ \A q \in wire : q.from \in Callers /\ q.text \in Responses
      /\ \A d \in Callers : caller[d].own \in Nat
    BY Numbers, Records
  <2> USE DEF StampsDiffer, row, network, history, Becomes
  <2>1. ASSUME NEW c \in Callers, NEW r \in Responses, Prepare(c, r) PROVE StampsDiffer'
    <3>1. UNCHANGED stamps
      BY <2>1 DEF Prepare
    <3> QED
      BY <2>1, <3>1, Preparing
  <2>2. ASSUME NEW c \in Callers, Resume(c) PROVE StampsDiffer'
    <3>1. UNCHANGED stamps
      BY <2>2 DEF Resume
    <3> QED
      BY <2>2, <3>1, Resuming
  <2>3. ASSUME NEW c \in Callers, Attempt(c) PROVE StampsDiffer'
    <3>1. IF attempted = 0 THEN stamps' = stamps + 1 ELSE UNCHANGED stamps
      BY <2>3 DEF Attempt
    <3> QED
      BY <2>3, <3>1, Attempting
  <2>4. ASSUME NEW c \in Callers, Post(c) PROVE StampsDiffer'
    <3>1. UNCHANGED stamps
      BY <2>4 DEF Post
    <3> QED
      BY <2>4, <3>1, Posting
  <2>5. ASSUME NEW c \in Callers, Reset(c) PROVE StampsDiffer'
    <3>1. UNCHANGED stamps
      BY <2>5 DEF Reset
    <3> QED
      BY <2>5, <3>1, Ending
  <2>6. ASSUME NEW c \in Callers, CheckAnswer(c) PROVE StampsDiffer'
    <3>1. UNCHANGED stamps
      BY <2>6 DEF CheckAnswer
    <3> QED
      BY <2>6, <3>1, Checking
  <2>7. ASSUME NEW c \in Callers, Scan(c) PROVE StampsDiffer'
    <3>1. UNCHANGED stamps
      BY <2>7 DEF Scan
    <3> QED
      BY <2>7, <3>1, Scanning
  <2>8. ASSUME NEW c \in Callers, Quarantine(c) PROVE StampsDiffer'
    <3>1. UNCHANGED stamps
      BY <2>8 DEF Quarantine
    <3> QED
      BY <2>8, <3>1, Ending
  <2>9. ASSUME NEW c \in Callers, Confirm(c) PROVE StampsDiffer'
    <3>1. UNCHANGED stamps
      BY <2>9 DEF Confirm
    <3> QED
      BY <2>9, <3>1, Confirming
  <2>10. ASSUME NEW c \in Callers, AppendTurn(c) PROVE StampsDiffer'
    <3>1. UNCHANGED stamps
      BY <2>10 DEF AppendTurn
    <3> QED
      BY <2>10, <3>1, Appending
  <2>11. ASSUME NEW c \in Callers, Finish(c) PROVE StampsDiffer'
    <3>1. UNCHANGED stamps
      BY <2>11 DEF Finish
    <3> QED
      BY <2>11, <3>1, Ending
  <2>12. ASSUME NEW c \in Callers, Fail(c) PROVE StampsDiffer'
    <3>1. UNCHANGED stamps
      BY <2>12 DEF Fail
    <3> QED
      BY <2>12, <3>1, Ending
  <2>13. ASSUME NEW c \in Callers, CheckDeadLetter(c) PROVE StampsDiffer'
    <3>1. UNCHANGED stamps
      BY <2>13 DEF CheckDeadLetter
    <3> QED
      BY <2>13, <3>1, Erring
  <2>14. ASSUME NEW c \in Callers, DeadLetter(c) PROVE StampsDiffer'
    <3>1. UNCHANGED stamps
      BY <2>14 DEF DeadLetter
    <3> QED
      BY <2>14, <3>1, Ending
  <2>15. ASSUME NEW q \in wire, Accept(q) PROVE StampsDiffer'
    <3>1. UNCHANGED stamps
      BY <2>15 DEF Accept
    <3>2. remembered' \in Nat
      BY <2>15, Growing DEF Typed
    <3> QED
      BY <2>15, <3>1, <3>2, Accepting
  <2>16. ASSUME NEW q \in wire, Refuse(q) PROVE StampsDiffer'
    <3>1. UNCHANGED stamps
      BY <2>16 DEF Refuse
    <3> QED
      BY <2>16, <3>1, Refusing
  <2>17. ASSUME NEW q \in wire, Lose(q) PROVE StampsDiffer'
    <3>1. UNCHANGED stamps
      BY <2>17 DEF Lose
    <3> QED
      BY <2>17, <3>1, Losing
  <2>18. CASE Age
    BY <2>18 DEF Age
  <2>19. CASE Forget
    BY <2>19 DEF Forget
  <2>20. CASE UNCHANGED vars
    BY <2>20 DEF vars, row, network, history
  <2> QED
    BY <2>1, <2>2, <2>3, <2>4, <2>5, <2>6, <2>7, <2>8, <2>9, <2>10, <2>11,
       <2>12, <2>13, <2>14, <2>15, <2>16, <2>17, <2>18, <2>19, <2>20
    DEF Next, Call, Environment
<1> QED
  BY <1>1, <1>2, Types, PTL DEF Spec

\* A step that neither sends nor hears a POST keeps Once.
Quiet(c) ==
  /\ UNCHANGED <<attempted, aged, wire, discord, remembered, shared, undercut>>
  /\ caller'[c].pc \notin {"post", "posting", "rejected"}
  /\ \A d \in Callers : d # c => caller'[d] = caller[d]

LEMMA QuietSteps ==
  ASSUME CallerTyped, confirmed \in Nat, NEW c \in Callers, Call(c)
  PROVE  Attempt(c) \/ Post(c) \/ Reset(c) \/ Quiet(c)
<1> USE DEF Quiet, Becomes, row, network, history
<1>1. ASSUME NEW r \in Responses, Prepare(c, r) PROVE Quiet(c)
  BY <1>1, Preparing DEF Prepare
<1>2. CASE Resume(c)
  BY <1>2, Resuming DEF Resume
<1>3. CASE CheckAnswer(c)
  BY <1>3, Checking DEF CheckAnswer
<1>4. CASE Scan(c)
  BY <1>4, Scanning DEF Scan
<1>5. CASE Quarantine(c)
  BY <1>5, Ending DEF Quarantine
<1>6. CASE Confirm(c)
  BY <1>6, Confirming DEF Confirm
<1>7. CASE AppendTurn(c)
  BY <1>7, Appending DEF AppendTurn
<1>8. CASE Finish(c)
  BY <1>8, Ending DEF Finish
<1>9. CASE Fail(c)
  BY <1>9, Ending DEF Fail
<1>10. CASE CheckDeadLetter(c)
  BY <1>10, Erring DEF CheckDeadLetter
<1>11. CASE DeadLetter(c)
  BY <1>11, Ending DEF DeadLetter
<1> QED
  BY <1>1, <1>2, <1>3, <1>4, <1>5, <1>6, <1>7, <1>8, <1>9, <1>10, <1>11 DEF Call

LEMMA QuietKeepsOnce ==
  ASSUME Once, NEW c \in Callers, Quiet(c)
  PROVE  Once'
BY DEF Once, Quiet, AttemptIsRecorded, PostsAreAttempts, ForgettingIsSafe, OwnerAlone

\* A new attempt starts when nothing of the row is on the wire or in Discord;
\* joining an attempt is recorded, and an aged one is not repeated.
LEMMA AttemptKeepsOnce ==
  ASSUME Typed, StampsDiffer, Once, NEW c \in Callers, Attempt(c)
  PROVE  Once'
<1>1. /\ CallerTyped /\ stamps \in Nat /\ attempted \in Nat
      /\ \A d \in Callers : caller[d].own \in Nat
  BY Numbers, Records
<1>2. UNCHANGED <<aged, wire, discord, remembered>>
  BY DEF Attempt, network
<1> USE DEF Once, AttemptIsRecorded, PostsAreAttempts, ForgettingIsSafe, OwnerAlone,
            Becomes, StampsDiffer
<1>3. CASE attempted = 0
  <2>1. attempted' = stamps + 1 /\ wire = {} /\ discord = <<>>
    BY <1>3 DEF Attempt
  <2>2. /\ caller'[c].pc = "post" /\ caller'[c].own = stamps + 1
        /\ \A d \in Callers : d # c => caller'[d] = caller[d]
    BY <1>1, <1>3, Attempting
  <2> QED
    BY <1>1, <1>2, <1>3, <2>1, <2>2
<1>4. CASE attempted # 0
  <2>1. /\ UNCHANGED attempted
        /\ ~shared' => aged /\ ~shared
    BY <1>4 DEF Attempt
  <2>2. /\ caller'[c].pc = IF aged THEN "scan" ELSE "post"
        /\ caller'[c].own = caller[c].own
        /\ \A d \in Callers : d # c => caller'[d] = caller[d]
    BY <1>1, <1>4, Attempting
  <2> QED
    BY <1>2, <1>4, <2>1, <2>2
<1> QED
  BY <1>3, <1>4

LEMMA PostKeepsOnce ==
  ASSUME Typed, StampsDiffer, Once, NEW c \in Callers, Post(c)
  PROVE  Once'
<1>1. CallerTyped /\ posts \in Nat
  BY Numbers
<1>2. /\ UNCHANGED <<attempted, aged, discord, remembered, shared>>
      /\ caller[c].pc = "post"
      /\ wire' = wire \cup {Request(c)}
      /\ Request(c).from = c /\ Request(c).id = posts + 1
  BY DEF Post, row, history, Request
<1>3. /\ caller'[c].pc = "posting" /\ caller'[c].own = caller[c].own
      /\ caller'[c].id = posts + 1
      /\ \A d \in Callers : d # c => caller'[d] = caller[d]
  BY <1>1, Posting DEF Becomes
<1> USE DEF Once, AttemptIsRecorded, PostsAreAttempts, ForgettingIsSafe, OwnerAlone
<1>4. AttemptIsRecorded' /\ PostsAreAttempts' /\ ForgettingIsSafe'
  BY <1>2, <1>3
<1>5. ASSUME ~shared, attempted # 0 PROVE OwnerAlone'
  <2>1. caller[c].own = attempted /\ wire = {} /\ discord = <<>>
    BY <1>2, <1>5
  <2>2. \A d \in Callers : d # c => caller[d].own # attempted
    BY <1>5, <2>1 DEF StampsDiffer
  <2> QED
    BY <1>2, <1>3, <1>5, <2>1, <2>2
<1> QED
  BY <1>2, <1>4, <1>5

\* A reset that undercuts nobody finds nothing on the wire and nothing in
\* Discord.
LEMMA ResetKeepsOnce ==
  ASSUME Typed, StampsDiffer, Once, NEW c \in Callers, Reset(c), ~undercut'
  PROVE  Once'
<1>1. /\ caller'[c].pc = "idle"
      /\ \A d \in Callers : d # c => caller'[d] = caller[d]
  BY Numbers, Ending DEF Becomes
<1>2. UNCHANGED <<wire, discord, remembered, shared>> /\ caller[c].pc = "rejected"
  BY DEF Reset, network
<1> USE DEF Once, AttemptIsRecorded, PostsAreAttempts, ForgettingIsSafe, OwnerAlone
<1>3. CASE UNCHANGED <<attempted, aged>>
  BY <1>1, <1>2, <1>3
<1>4. CASE attempted # 0 /\ attempted = caller[c].own /\ attempted' = 0 /\ ~shared
  <2>1. wire = {} /\ discord = <<>>
    BY <1>2, <1>4
  <2>2. \A d \in Callers : caller[d].pc = "post" => d = c
    BY <1>4 DEF StampsDiffer
  <2> QED
    BY <1>1, <1>2, <1>4, <2>1, <2>2
<1> QED
  BY <1>3, <1>4 DEF Reset

\* Discord adds a message only while it has none.
LEMMA AcceptKeepsOnce ==
  ASSUME Typed, RequestsDiffer, Once, NEW q \in wire, Accept(q)
  PROVE  Once'
<1>1. /\ CallerTyped /\ q.from \in Callers /\ q.text \in Responses
      /\ DiscordTyped /\ Len(discord) \in Nat
  BY Numbers DEF Typed
<1>2. /\ UNCHANGED <<attempted, aged, shared>>
      /\ wire' = wire \ {q}
  BY DEF Accept, row, history
<1> USE DEF Once, AttemptIsRecorded, PostsAreAttempts, ForgettingIsSafe, OwnerAlone
<1>3. attempted # 0
  OBVIOUS
<1>4. remembered' # 0 /\ remembered' \in Nat /\ Len(discord') <= 1
  <2>1. CASE remembered # 0
    BY <1>1, <2>1, Growing DEF DiscordTyped
  <2>2. CASE remembered = 0
    <3>1. discord = <<>> /\ Len(discord) = 0
      BY <2>2
    <3>2. Len(discord') = Len(discord) + 1 /\ remembered' = Len(discord) + 1
      BY <1>1, <2>2, Growing
    <3> HIDE DEF Once
    <3> QED
      BY <3>1, <3>2
  <2> QED
    BY <2>1, <2>2
<1>5. IF Waiting(q)
        THEN /\ caller'[q.from].pc = "answered"
             /\ \A d \in Callers : d # q.from => caller'[d] = caller[d]
        ELSE UNCHANGED caller
  BY <1>1, <1>4, Accepting DEF Becomes
<1>6. AttemptIsRecorded' /\ PostsAreAttempts' /\ ForgettingIsSafe'
  BY <1>2, <1>3, <1>4, <1>5
<1>7. ASSUME ~shared PROVE OwnerAlone'
  <2>1. \A d \in Callers : caller[d].own = attempted =>
          /\ caller[d].pc \notin {"post", "rejected"}
          /\ caller[d].pc = "posting" => d = q.from /\ Waiting(q)
    BY <1>3, <1>7 DEF Waiting
  <2>2. \A d \in Callers : caller[d].pc # "post"
    BY <1>3, <1>7, <2>1
  <2> QED
    BY <1>1, <1>2, <1>5, <2>1, <2>2
<1> QED
  BY <1>2, <1>4, <1>6, <1>7

LEMMA RefuseKeepsOnce ==
  ASSUME Typed, RequestsDiffer, Once, NEW q \in wire, Refuse(q)
  PROVE  Once'
<1>1. CallerTyped /\ q.from \in Callers
  BY Numbers
<1>2. /\ UNCHANGED <<attempted, aged, shared, discord, remembered>>
      /\ wire' = wire \ {q}
  BY DEF Refuse, row, history
<1>3. IF Waiting(q)
        THEN /\ caller'[q.from].pc = "rejected"
             /\ caller'[q.from].own = caller[q.from].own
             /\ \A d \in Callers : d # q.from => caller'[d] = caller[d]
        ELSE UNCHANGED caller
  BY <1>1, Refusing DEF Becomes
<1> USE DEF Once, AttemptIsRecorded, PostsAreAttempts, ForgettingIsSafe, OwnerAlone
<1>4. attempted # 0
  OBVIOUS
<1>5. AttemptIsRecorded' /\ PostsAreAttempts' /\ ForgettingIsSafe'
  BY <1>2, <1>3, <1>4
<1>6. ASSUME ~shared PROVE OwnerAlone'
  <2>1. ASSUME NEW d \in Callers, caller[d].own = attempted
        PROVE  /\ caller[d].pc \notin {"post", "rejected"}
               /\ caller[d].pc = "posting" =>
                    d = q.from /\ Waiting(q) /\ wire = {q} /\ discord = <<>>
    <3>1. caller[d].pc \notin {"post", "rejected"}
      BY <1>4, <1>6, <2>1
    <3>2. CASE caller[d].pc = "posting"
      <4>1. discord = <<>> /\ \A s \in wire : s.from = d /\ s.id = caller[d].id
        BY <1>4, <1>6, <2>1, <3>2
      <4>2. \A s \in wire : s = q
        BY <4>1 DEF RequestsDiffer
      <4> QED
        BY <3>1, <3>2, <4>1, <4>2 DEF Waiting
    <3> QED
      BY <3>1, <3>2
  <2>2. \A d \in Callers : caller[d].pc # "post"
    BY <1>4, <1>6, <2>1
  <2>3. CASE Waiting(q)
    <3>1. caller[q.from].pc = "posting"
      BY <2>3 DEF Waiting
    <3>2. caller[q.from].own = attempted => wire' = {} /\ discord' = <<>>
      BY <1>1, <1>2, <2>1, <3>1
    <3>3. \A d \in Callers : d # q.from /\ caller[d].own = attempted =>
            caller[d].pc \notin {"post", "rejected", "posting"}
      BY <2>1
    <3> QED
      BY <1>1, <1>2, <1>3, <2>2, <2>3, <3>2, <3>3
  <2>4. CASE ~Waiting(q)
    <3>1. \A d \in Callers : caller[d].own = attempted =>
            caller[d].pc \notin {"post", "rejected", "posting"}
      BY <2>1, <2>4
    <3> QED
      BY <1>2, <1>3, <2>2, <2>4, <3>1
  <2> QED
    BY <2>3, <2>4
<1> QED
  BY <1>2, <1>5, <1>6

LEMMA LoseKeepsOnce ==
  ASSUME Typed, Once, NEW q \in wire, Lose(q)
  PROVE  Once'
<1>1. CallerTyped /\ q.from \in Callers
  BY Numbers
<1>2. /\ UNCHANGED <<attempted, aged, shared, discord, remembered>>
      /\ wire' = wire \ {q}
  BY DEF Lose, row, history
<1>3. IF Waiting(q)
        THEN /\ caller'[q.from].pc = "idle"
             /\ \A d \in Callers : d # q.from => caller'[d] = caller[d]
        ELSE UNCHANGED caller
  BY <1>1, Losing DEF Becomes
<1> QED
  BY <1>2, <1>3 DEF Once, AttemptIsRecorded, PostsAreAttempts, ForgettingIsSafe, OwnerAlone

LEMMA TimeKeepsOnce ==
  ASSUME Once, Age \/ Forget
  PROVE  Once'
<1> USE DEF Once, AttemptIsRecorded, PostsAreAttempts, ForgettingIsSafe, OwnerAlone,
            row, network, history
<1>1. CASE Age
  BY <1>1 DEF Age
<1>2. CASE Forget
  BY <1>2 DEF Forget
<1> QED
  BY <1>1, <1>2

LEMMA OnlyOnce == Spec => []OnceInv
<1>1. Init => OnceInv
  BY DEF Init, OnceInv, Once, AttemptIsRecorded, PostsAreAttempts, ForgettingIsSafe,
         OwnerAlone, Idle
<1>2. Typed /\ RequestsDiffer /\ StampsDiffer /\ OnceInv /\ [Next]_vars => OnceInv'
  <2> SUFFICES ASSUME Typed, RequestsDiffer, StampsDiffer, OnceInv, [Next]_vars, ~undercut'
               PROVE  Once'
    BY DEF OnceInv
  <2>1. undercut => undercut'
    BY DEF Next, Call, Environment, Prepare, Resume, Attempt, Post, Reset, CheckAnswer, Scan,
           Quarantine, Confirm, AppendTurn, Finish, Fail, CheckDeadLetter, DeadLetter,
           Accept, Refuse, Lose, Age, Forget, history, vars
  <2>2. Once /\ CallerTyped /\ confirmed \in Nat
    BY <2>1, Numbers DEF OnceInv
  <2>3. ASSUME NEW c \in Callers, Call(c) PROVE Once'
    BY <2>2, <2>3, QuietSteps, QuietKeepsOnce, AttemptKeepsOnce, PostKeepsOnce, ResetKeepsOnce
  <2>4. ASSUME NEW q \in wire, Accept(q) \/ Refuse(q) \/ Lose(q) PROVE Once'
    BY <2>2, <2>4, AcceptKeepsOnce, RefuseKeepsOnce, LoseKeepsOnce
  <2>5. CASE Age \/ Forget
    BY <2>2, <2>5, TimeKeepsOnce
  <2>6. CASE UNCHANGED vars
    BY <2>2, <2>6 DEF vars, row, network, history, Once, AttemptIsRecorded,
                      PostsAreAttempts, ForgettingIsSafe, OwnerAlone
  <2> QED
    BY <2>3, <2>4, <2>5, <2>6 DEF Next, Environment
<1> QED
  BY <1>1, <1>2, Types, Requests, Stamps, PTL DEF Spec

\* However calls of complete-response fail, overlap and are repeated, and
\* however late Discord accepts their POSTs, it has at most one copy of the
\* answer, unless a reset undercut another call's attempt.
THEOREM OneCopy == Spec => []AtMostOneCopy
<1>1. OnceInv => AtMostOneCopy
  BY DEF OnceInv, Once, AtMostOneCopy
<1> QED
  BY <1>1, OnlyOnce, PTL

\* As long as a POST may become a message, or became one, the row says so to
\* the next call, unless a reset undercut another call's attempt.
THEOREM Recorded == Spec => []PostIsRecorded
<1>1. OnceInv => PostIsRecorded
  BY DEF OnceInv, Once, AttemptIsRecorded, PostIsRecorded
<1> QED
  BY <1>1, OnlyOnce, PTL

-----------------------------------------------------------------------------
(* The confirmed message and the transcript *)

\* Every call that is under way carries the text the row froze.
TextIsFrozen ==
  \A c \in Callers : caller[c].pc \notin {"idle", "erring"} => caller[c].text = content

\* A call that found the answer has read the frozen text in it.
FoundIsExact ==
  \A c \in Callers : caller[c].pc = "found" => discord[caller[c].id] = content

ExactInv == TextIsFrozen /\ FoundIsExact /\ ConfirmedIsExact

\* A call that writes the transcript works for the confirmed message.
WritesAreConfirmed ==
  \A c \in Callers :
    /\ caller[c].pc \in {"append", "finish"} => confirmed # 0 /\ confirmed = caller[c].id
    /\ caller[c].pc = "finish" => transcript # <<>>

WriteInv == WritesAreConfirmed /\ TranscribedOnce

\* Nothing is under way before the first text is frozen.
LEMMA NothingFrozen ==
  ASSUME Typed, ExactInv, content = NoText
  PROVE  confirmed = 0 /\ \A c \in Callers : caller[c].pc \in {"idle", "erring"}
<1>1. \A c \in Callers : caller[c].pc \in {"idle", "erring"}
  BY ConstantsAssumption DEF Typed, CallerHolds, ExactInv, TextIsFrozen
<1>2. confirmed = 0
  <2>1. \A i \in 1..Len(discord) : discord[i] # NoText
    BY ConstantsAssumption DEF Typed, DiscordTyped
  <2>2. confirmed # 0 => confirmed \in 1..Len(discord)
    BY DEF Typed, DiscordTyped
  <2> QED
    BY <2>1, <2>2 DEF ExactInv, ConfirmedIsExact
<1> QED
  BY <1>1, <1>2

\* Every step of a call but these leaves the text, the history and the
\* confirmed message alone.
Plain(c) ==
  /\ UNCHANGED <<content, discord, confirmed>>
  /\ caller'[c].pc # "found"
  /\ caller'[c].pc \notin {"idle", "erring"} =>
       /\ caller[c].pc \notin {"idle", "erring"}
       /\ caller'[c].text = caller[c].text
  /\ \A d \in Callers : d # c => caller'[d] = caller[d]

LEMMA PlainSteps ==
  ASSUME Typed, NEW c \in Callers, Call(c)
  PROVE  \/ \E r \in Responses : Prepare(c, r)
         \/ CheckAnswer(c) \/ Scan(c) \/ Confirm(c) \/ Plain(c)
<1> CallerTyped /\ stamps \in Nat /\ posts \in Nat /\ confirmed \in Nat
  BY Numbers
<1> USE DEF Plain, Becomes, row, network, history
<1>1. CASE Resume(c)
  BY <1>1, Resuming DEF Resume
<1>2. CASE Attempt(c)
  <2>1. /\ caller'[c].pc \in {"post", "scan"} /\ caller'[c].text = caller[c].text
        /\ \A d \in Callers : d # c => caller'[d] = caller[d]
    BY <1>2, Attempting
  <2> QED
    BY <1>2, <2>1 DEF Attempt
<1>3. CASE Post(c)
  BY <1>3, Posting DEF Post
<1>4. CASE Reset(c) \/ Quarantine(c) \/ Finish(c) \/ Fail(c) \/ DeadLetter(c)
  <2>1. UNCHANGED <<content, discord, confirmed>>
    BY <1>4 DEF Reset, Quarantine, Finish, Fail, DeadLetter
  <2> QED
    BY <1>4, <2>1, Ending
<1>5. CASE AppendTurn(c)
  BY <1>5, Appending DEF AppendTurn
<1>6. CASE CheckDeadLetter(c)
  BY <1>6, Erring DEF CheckDeadLetter
<1> QED
  BY <1>1, <1>2, <1>3, <1>4, <1>5, <1>6 DEF Call

\* An answer moves at most the caller that waits for it.
LEMMA Answers ==
  ASSUME Typed, NEW q \in wire, Accept(q) \/ Refuse(q) \/ Lose(q)
  PROVE  \A d \in Callers :
           \/ caller'[d] = caller[d]
           \/ caller'[d].pc = "idle"
           \/ /\ caller'[d].pc \in {"answered", "rejected"} /\ caller[d].pc = "posting"
              /\ caller'[d].text = caller[d].text
<1> CallerTyped /\ q.from \in Callers /\ q.text \in Responses
  BY Numbers
<1> USE DEF Becomes, Waiting
<1>1. CASE Accept(q)
  <2>1. remembered' \in Nat
    BY <1>1, Numbers, Growing DEF Typed
  <2> QED
    BY <1>1, <2>1, Accepting
<1>2. CASE Refuse(q)
  BY <1>2, Refusing
<1>3. CASE Lose(q)
  BY <1>3, Losing
<1> QED
  BY <1>1, <1>2, <1>3

LEMMA Exact == Spec => []ExactInv
<1>1. Init => ExactInv
  BY DEF Init, ExactInv, TextIsFrozen, FoundIsExact, ConfirmedIsExact, Idle
<1>2. Typed /\ ExactInv /\ [Next]_vars => ExactInv'
  <2> SUFFICES ASSUME Typed, ExactInv, [Next]_vars
               PROVE  ExactInv'
    OBVIOUS
  <2> CallerTyped /\ DiscordTyped /\ CallerHolds
    BY DEF Typed
  <2> USE DEF ExactInv, TextIsFrozen, FoundIsExact, ConfirmedIsExact, Becomes,
              row, network, history
  <2>1. ASSUME NEW c \in Callers, NEW r \in Responses, Prepare(c, r) PROVE ExactInv'
    <3>1. /\ caller'[c].pc = "prepared" /\ caller'[c].text = r
          /\ \A d \in Callers : d # c => caller'[d] = caller[d]
      BY <2>1, Preparing
    <3>2. content \in {NoText, r} /\ content' = r /\ UNCHANGED <<discord, confirmed>>
      BY <2>1 DEF Prepare
    <3>3. CASE content = NoText
      BY <3>1, <3>2, <3>3, NothingFrozen
    <3>4. CASE content = r
      BY <3>1, <3>2, <3>4
    <3> QED
      BY <3>2, <3>3, <3>4
  <2>2. ASSUME NEW c \in Callers, CheckAnswer(c) PROVE ExactInv'
    <3>1. UNCHANGED <<content, discord, confirmed>> /\ caller[c].pc = "answered"
      BY <2>2 DEF CheckAnswer
    <3> QED
      BY <2>2, <3>1, Checking
  <2>3. ASSUME NEW c \in Callers, Scan(c) PROVE ExactInv'
    <3>1. UNCHANGED <<content, discord, confirmed>> /\ caller[c].pc = "scan"
      BY <2>3 DEF Scan
    <3>2. discord = <<caller[c].text>> => discord[1] = caller[c].text
      OBVIOUS
    <3> QED
      BY <2>3, <3>1, <3>2, Scanning
  <2>4. ASSUME NEW c \in Callers, Confirm(c) PROVE ExactInv'
    <3>1. /\ UNCHANGED <<content, discord>> /\ caller[c].pc = "found"
          /\ confirmed' \in {confirmed, caller[c].id}
      BY <2>4 DEF Confirm
    <3> QED
      BY <2>4, <3>1, Confirming
  <2>5. ASSUME NEW c \in Callers, Plain(c) PROVE ExactInv'
    BY <2>5 DEF Plain
  <2>6. ASSUME NEW q \in wire, Accept(q) \/ Refuse(q) \/ Lose(q) PROVE ExactInv'
    <3>1. q.from \in Callers /\ q.text \in Responses
      BY Numbers
    <3>2. UNCHANGED <<content, confirmed>>
      BY <2>6 DEF Accept, Refuse, Lose
    <3>3. \A i \in 1..Len(discord) : discord'[i] = discord[i]
      BY <2>6, <3>1, Growing DEF Refuse, Lose
    <3>4. \A d \in Callers :
            \/ caller'[d] = caller[d]
            \/ caller'[d].pc = "idle"
            \/ /\ caller'[d].pc \in {"answered", "rejected"} /\ caller[d].pc = "posting"
               /\ caller'[d].text = caller[d].text
      BY <2>6, Answers
    <3>5. confirmed # 0 => confirmed \in 1..Len(discord)
      BY DEF DiscordTyped
    <3>6. \A d \in Callers : caller'[d].pc = "found" =>
            caller'[d] = caller[d] /\ caller[d].id \in 1..Len(discord)
      BY <3>4 DEF CallerHolds
    <3>7. TextIsFrozen'
      BY <3>2, <3>4
    <3>8. FoundIsExact' /\ ConfirmedIsExact'
      BY <3>2, <3>3, <3>5, <3>6
    <3> QED
      BY <3>7, <3>8
  <2>7. CASE Age \/ Forget
    BY <2>7 DEF Age, Forget
  <2>8. CASE UNCHANGED vars
    BY <2>8 DEF vars
  <2> QED
    BY <2>1, <2>2, <2>3, <2>4, <2>5, <2>6, <2>7, <2>8, PlainSteps DEF Next, Environment
<1> QED
  BY <1>1, <1>2, Types, PTL DEF Spec

\* Whatever texts different workers hand over, the message a row confirms
\* exists and holds the text the row froze.
THEOREM Exactness == Spec => []ConfirmedIsExact
<1>1. ExactInv => ConfirmedIsExact
  BY DEF ExactInv
<1> QED
  BY <1>1, Exact, PTL

LEMMA Writing == Spec => []WriteInv
<1>1. Init => WriteInv
  BY DEF Init, WriteInv, WritesAreConfirmed, TranscribedOnce, Idle
<1>2. Typed /\ ExactInv /\ WriteInv /\ [Next]_vars => WriteInv'
  <2> SUFFICES ASSUME Typed, ExactInv, WriteInv, [Next]_vars
               PROVE  WriteInv'
    OBVIOUS
  <2> /\ CallerTyped /\ CallerHolds
      /\ stamps \in Nat /\ posts \in Nat /\ confirmed \in Nat
    BY Numbers DEF Typed
  <2> USE DEF WriteInv, WritesAreConfirmed, TranscribedOnce, Becomes, row, network, history
  <2>1. ASSUME NEW c \in Callers, NEW r \in Responses, Prepare(c, r) PROVE WriteInv'
    <3>1. /\ content \in {NoText, r} /\ content' = r
          /\ UNCHANGED <<rowState, confirmed, transcript>>
      BY <2>1 DEF Prepare
    <3>2. content = NoText => transcript = <<>>
      BY NothingFrozen
    <3> QED
      BY <2>1, <3>1, <3>2, Preparing
  <2>2. ASSUME NEW c \in Callers, Resume(c) PROVE WriteInv'
    <3>1. UNCHANGED <<rowState, content, confirmed, transcript>> /\ confirmed # 0
      BY <2>2 DEF Resume
    <3> QED
      BY <2>2, <3>1, Resuming
  <2>3. ASSUME NEW c \in Callers, Attempt(c) PROVE WriteInv'
    <3>1. UNCHANGED <<rowState, content, confirmed, transcript>>
      BY <2>3 DEF Attempt
    <3>2. /\ caller'[c].pc \in {"post", "scan"}
          /\ \A d \in Callers : d # c => caller'[d] = caller[d]
      BY <2>3, Attempting
    <3> QED
      BY <3>1, <3>2
  <2>4. ASSUME NEW c \in Callers, Post(c) PROVE WriteInv'
    <3>1. UNCHANGED <<rowState, content, confirmed, transcript>>
      BY <2>4 DEF Post
    <3> QED
      BY <2>4, <3>1, Posting
  <2>5. ASSUME NEW c \in Callers, Reset(c) \/ Quarantine(c) \/ Fail(c) PROVE WriteInv'
    <3>1. UNCHANGED <<rowState, content, confirmed, transcript>>
      BY <2>5 DEF Reset, Quarantine, Fail
    <3> QED
      BY <2>5, <3>1, Ending
  <2>6. ASSUME NEW c \in Callers, CheckAnswer(c) PROVE WriteInv'
    <3>1. UNCHANGED <<rowState, content, confirmed, transcript>>
      BY <2>6 DEF CheckAnswer
    <3> QED
      BY <2>6, <3>1, Checking
  <2>7. ASSUME NEW c \in Callers, Scan(c) PROVE WriteInv'
    <3>1. UNCHANGED <<rowState, content, confirmed, transcript>>
      BY <2>7 DEF Scan
    <3> QED
      BY <2>7, <3>1, Scanning
  <2>8. ASSUME NEW c \in Callers, Confirm(c) PROVE WriteInv'
    <3>1. /\ UNCHANGED <<rowState, content, transcript>>
          /\ caller[c].pc = "found"
          /\ confirmed' # confirmed => confirmed = 0 /\ confirmed' = caller[c].id
      BY <2>8 DEF Confirm, Unresolved
    <3>2. caller[c].id # 0
      BY <3>1 DEF CallerHolds
    <3> QED
      BY <2>8, <3>1, <3>2, Confirming
  <2>9. ASSUME NEW c \in Callers, AppendTurn(c) PROVE WriteInv'
    <3>1. UNCHANGED <<rowState, content, confirmed>> /\ caller[c].pc = "append"
      BY <2>9 DEF AppendTurn
    <3>2. caller[c].text = content
      BY <3>1 DEF ExactInv, TextIsFrozen
    <3>3. confirmed # 0 /\ confirmed = caller[c].id
      BY <3>1
    <3>4. CASE transcript' = transcript
      BY <2>9, <3>1, <3>3, <3>4, Appending
    <3>5. CASE transcript' = <<content>>
      BY <2>9, <3>1, <3>3, <3>5, Appending
    <3> QED
      BY <2>9, <3>2, <3>4, <3>5, Appending
  <2>10. ASSUME NEW c \in Callers, Finish(c) PROVE WriteInv'
    <3>1. UNCHANGED <<content, confirmed, transcript>> /\ caller[c].pc = "finish"
      BY <2>10 DEF Finish
    <3> QED
      BY <2>10, <3>1, Ending
  <2>11. ASSUME NEW c \in Callers, CheckDeadLetter(c) PROVE WriteInv'
    <3>1. UNCHANGED <<rowState, content, confirmed, transcript>>
      BY <2>11 DEF CheckDeadLetter
    <3> QED
      BY <2>11, <3>1, Erring
  <2>12. ASSUME NEW c \in Callers, DeadLetter(c) PROVE WriteInv'
    <3>1. /\ UNCHANGED <<content, confirmed, transcript>>
          /\ rowState' = "done" => rowState = "done"
      BY <2>12 DEF DeadLetter
    <3> QED
      BY <2>12, <3>1, Ending
  <2>13. ASSUME NEW q \in wire, Accept(q) \/ Refuse(q) \/ Lose(q) PROVE WriteInv'
    <3>1. UNCHANGED <<rowState, content, confirmed, transcript>>
      BY <2>13 DEF Accept, Refuse, Lose
    <3>2. \A d \in Callers :
            caller'[d] = caller[d] \/ caller'[d].pc \in {"idle", "answered", "rejected"}
      BY <2>13, Answers
    <3> QED
      BY <3>1, <3>2
  <2>14. CASE Age \/ Forget
    BY <2>14 DEF Age, Forget
  <2>15. CASE UNCHANGED vars
    BY <2>15 DEF vars
  <2> QED
    BY <2>1, <2>2, <2>3, <2>4, <2>5, <2>6, <2>7, <2>8, <2>9, <2>10, <2>11,
       <2>12, <2>13, <2>14, <2>15
    DEF Next, Call, Environment
<1> QED
  BY <1>1, <1>2, Types, Exact, PTL DEF Spec

\* The transcript gets the frozen text at most once, after Discord confirmed
\* it, and the row is done after both.
THEOREM Transcription == Spec => []TranscribedOnce
<1>1. WriteInv => TranscribedOnce
  BY DEF WriteInv
<1> QED
  BY <1>1, Writing, PTL

\* No call that was under way completes a quarantined delivery.
THEOREM Quarantining == Spec => []QuarantineHolds
<1>1. Init => QuarantineHolds
  BY DEF Init, QuarantineHolds
<1>2. QuarantineHolds /\ [Next]_vars => QuarantineHolds'
  <2> SUFFICES ASSUME QuarantineHolds, [Next]_vars
               PROVE  QuarantineHolds'
    OBVIOUS
  <2> USE DEF QuarantineHolds, row, network, history
  <2>1. ASSUME NEW c \in Callers, NEW r \in Responses, Prepare(c, r) PROVE QuarantineHolds'
    BY <2>1 DEF Prepare
  <2>2. ASSUME NEW c \in Callers, Resume(c) \/ Attempt(c) \/ Post(c) \/ Reset(c)
        PROVE  QuarantineHolds'
    BY <2>2 DEF Resume, Attempt, Post, Reset
  <2>3. ASSUME NEW c \in Callers, CheckAnswer(c) \/ Scan(c) \/ AppendTurn(c)
                                  \/ CheckDeadLetter(c) \/ Fail(c)
        PROVE  QuarantineHolds'
    BY <2>3 DEF CheckAnswer, Scan, AppendTurn, CheckDeadLetter, Fail
  <2>4. ASSUME NEW c \in Callers, Quarantine(c) PROVE QuarantineHolds'
    BY <2>4 DEF Quarantine, Unresolved
  <2>5. ASSUME NEW c \in Callers, Confirm(c) PROVE QuarantineHolds'
    BY <2>5 DEF Confirm
  <2>6. ASSUME NEW c \in Callers, Finish(c) PROVE QuarantineHolds'
    BY <2>6 DEF Finish
  <2>7. ASSUME NEW c \in Callers, DeadLetter(c) PROVE QuarantineHolds'
    BY <2>7 DEF DeadLetter
  <2>8. ASSUME NEW q \in wire, Accept(q) \/ Refuse(q) \/ Lose(q) PROVE QuarantineHolds'
    BY <2>8 DEF Accept, Refuse, Lose
  <2>9. CASE Age \/ Forget
    BY <2>9 DEF Age, Forget
  <2>10. CASE UNCHANGED vars
    BY <2>10 DEF vars
  <2> QED
    BY <2>1, <2>2, <2>3, <2>4, <2>5, <2>6, <2>7, <2>8, <2>9, <2>10
    DEF Next, Call, Environment
<1> QED
  BY <1>1, <1>2, PTL DEF Spec
=============================================================================
