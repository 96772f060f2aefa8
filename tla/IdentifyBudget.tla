--------------------------- MODULE IdentifyBudget ---------------------------
(***************************************************************************)
(* The persisted budget of Gateway IDENTIFY operations, as both adapters   *)
(* keep it (src/discord-gateway/client.py reserve_identify_slot and        *)
(* src/codex_discord_bridge/identify_budget.py): a file with the times of  *)
(* the reservations of the last day and a time before which everything is  *)
(* refused.  Operators on the file's content; GatewaySession keeps the     *)
(* file.                                                                   *)
(***************************************************************************)
EXTENDS Integers, Sequences, FiniteSets

CONSTANTS
  HourLimit,   \* IDENTIFY operations in a rolling hour (20)
  HourWindow,  \* the length of an hour
  DayLimit,    \* IDENTIFY operations in a rolling day (400)
  DayWindow,   \* the length of a day
  MinWait      \* the least a caller that is refused a slot waits (a second)

ASSUME BudgetAssumption ==
  /\ {HourLimit, HourWindow, DayLimit, DayWindow, MinWait} \subseteq Nat \ {0}
  /\ HourWindow <= DayWindow

\* A file that does not exist reads as this one.
EmptyLedger == [times |-> <<>>, blocked |-> 0, readable |-> TRUE]

\* The reservations of a window that ends now.  The times are in order (_load sorts
\* them), oldest first: what lies before the window is a prefix.
Recent(times, now, window) ==
  LET stale == {i \in DOMAIN times : times[i] <= now - window}
  IN SubSeq(times, Cardinality(stale) + 1, Len(times))

\* Whether a reservation may be made now.
MayReserve(ledger, now) ==
  /\ ledger.readable
  /\ ledger.blocked <= now
  /\ Len(Recent(ledger.times, now, HourWindow)) < HourLimit
  /\ Len(Recent(ledger.times, now, DayWindow)) < DayLimit

\* The file with one more reservation: what is older than a day is dropped.
Reserved(ledger, now) ==
  [times |-> Append(Recent(ledger.times, now, DayWindow), now), blocked |-> 0, readable |-> TRUE]

\* Mutant: what cannot be read counts as no reservation.
RefusedForgets(ledger, now) ==
  CASE ~ledger.readable -> EmptyLedger
    [] ledger.readable /\ ledger.blocked > now -> ledger
    [] OTHER -> [times |-> Recent(ledger.times, now, DayWindow), blocked |-> 0, readable |-> TRUE]

\* The file after a refusal: one that cannot be read is replaced by a full day's
\* block, for what was reserved is not known.
Refused(ledger, now) ==
  CASE ~ledger.readable -> [times |-> <<>>, blocked |-> now + DayWindow, readable |-> TRUE]
    [] ledger.readable /\ ledger.blocked > now -> ledger
    [] OTHER -> [times |-> Recent(ledger.times, now, DayWindow), blocked |-> 0, readable |-> TRUE]

\* The times at which a slot of each window that is full comes free.
ReadyTimes(ledger, now) ==
  LET freed(limit, window) ==
        LET recent == Recent(ledger.times, now, window)
        IN IF Len(recent) < limit THEN {} ELSE {recent[Len(recent) - limit + 1] + window}
  IN freed(HourLimit, HourWindow) \union freed(DayLimit, DayWindow)

\* Mutant: the first slot that comes free, of either window.
SlotWaitFirst(ledger, now) ==
  (CHOOSE t \in ReadyTimes(ledger, now) : \A u \in ReadyTimes(ledger, now) : t <= u) - now

\* How long it is until both windows have a slot.
SlotWait(ledger, now) ==
  (CHOOSE t \in ReadyTimes(ledger, now) : \A u \in ReadyTimes(ledger, now) : u <= t) - now

\* How long a caller that is refused waits before it asks again.
Delay(ledger, now) ==
  CASE ~ledger.readable -> DayWindow
    [] ledger.readable /\ ledger.blocked > now -> ledger.blocked - now
    [] OTHER -> IF SlotWait(ledger, now) > MinWait THEN SlotWait(ledger, now) ELSE MinWait
=============================================================================
