----------------------------- MODULE RateLimiter -----------------------------
(***************************************************************************)
(* The start-rate limit on LLM calls: reserve_rate_limit_slot of           *)
(* src/src/mars/store.py and the part of call_llm in                       *)
(* src/src/mars/llm/client.py that precedes the call itself.  The callers  *)
(* are the LLM workers and the controller, which calls the LLM directly    *)
(* to distill lessons and to review them for duplicates; they share one    *)
(* SQLite file.  Time is counted in whole units; a process may be delayed  *)
(* for any time between two steps.  A limiter that is switched off (an     *)
(* interval of 0) returns before its first step and is not modelled.       *)
(***************************************************************************)
EXTENDS Integers, Sequences

CONSTANTS Caller,      \* the processes that call the LLM
          Interval,    \* llm.min_call_interval_sec
          MaxTime,     \* bound: the clock
          MaxSlots     \* bound: reservations

ASSUME LimiterAssumption ==
  /\ Interval \in Nat \ {0}
  /\ MaxTime \in Nat /\ MaxSlots \in Nat

VARIABLES
  now,          \* the wall clock
  nextAllowed,  \* best_state["rate_limit.llm_global.next_allowed_at"]
  pc,           \* where each caller is in call_llm
  stamp,        \* the caller's `now`, read before its transaction
  slot,         \* the slot reserved
  wakeAt,       \* when time.sleep(wait_sec) returns
  slots,        \* history: every slot reserved, in order
  starts        \* history: the slot and the time of every call started

caller == <<pc, stamp, slot, wakeAt>>
vars == <<now, nextAllowed, caller, slots, starts>>

PC == {"idle", "reserve", "reserved", "asleep", "busy"}

TypeOK ==
  /\ now \in Nat /\ nextAllowed \in Nat
  /\ pc \in [Caller -> PC]
  /\ stamp \in [Caller -> Nat]
  /\ slot \in [Caller -> Nat]
  /\ wakeAt \in [Caller -> Nat]
  /\ slots \in Seq(Nat)
  /\ starts \in Seq([slot : Nat, at : Nat])

Init ==
  /\ now = 0 /\ nextAllowed = 0
  /\ pc = [c \in Caller |-> "idle"]
  /\ stamp = [c \in Caller |-> 0]
  /\ slot = [c \in Caller |-> 0]
  /\ wakeAt = [c \in Caller |-> 0]
  /\ slots = <<>>
  /\ starts = <<>>

-----------------------------------------------------------------------------

Goto(c, s) == pc' = [pc EXCEPT ![c] = s]

\* The clock is read before the transaction begins.
Begin(c) ==
  /\ pc[c] = "idle"
  /\ stamp' = [stamp EXCEPT ![c] = now]
  /\ Goto(c, "reserve")
  /\ UNCHANGED <<now, nextAllowed, slot, wakeAt, slots, starts>>

\* The database stayed locked for as long as SQLite waits: roll back, read the
\* clock again and retry.
Retry(c) ==
  /\ pc[c] = "reserve"
  /\ stamp' = [stamp EXCEPT ![c] = now]
  /\ UNCHANGED <<now, nextAllowed, pc, slot, wakeAt, slots, starts>>

\* Mutant: a caller that asks late ignores the reservations before it.
LaterIgnoresTable(s, t) == s

\* The later of two instants.
Later(s, t) == IF s >= t THEN s ELSE t

\* Mutant: the limiter remembers the slot, not the end of its interval.
NextSlotNoInterval(s) == s

NextSlot(s) == s + Interval

\* BEGIN IMMEDIATE ... COMMIT.
Reserve(c) ==
  /\ pc[c] = "reserve" /\ Len(slots) < MaxSlots
  /\ LET s == Later(stamp[c], nextAllowed) IN
       /\ slot' = [slot EXCEPT ![c] = s]
       /\ nextAllowed' = NextSlot(s)
       /\ slots' = Append(slots, s)
  /\ Goto(c, "reserved")
  /\ UNCHANGED <<now, stamp, wakeAt, starts>>

\* Mutant: the wait is truncated to the unit below.
SleepTruncated(c) ==
  /\ pc[c] = "reserved"
  /\ wakeAt' = [wakeAt EXCEPT ![c] = now + ((slot[c] - stamp[c]) \div 2) * 2]
  /\ Goto(c, "asleep")
  /\ UNCHANGED <<now, nextAllowed, stamp, slot, slots, starts>>

\* Mutant: the wait is the wrong way round.
SleepBackwards(c) ==
  /\ pc[c] = "reserved"
  /\ wakeAt' = [wakeAt EXCEPT ![c] = now + (stamp[c] - slot[c])]
  /\ Goto(c, "asleep")
  /\ UNCHANGED <<now, nextAllowed, stamp, slot, slots, starts>>

\* The wait was computed from the stamp; the sleep begins now.
Sleep(c) ==
  /\ pc[c] = "reserved"
  /\ wakeAt' = [wakeAt EXCEPT ![c] = now + (slot[c] - stamp[c])]
  /\ Goto(c, "asleep")
  /\ UNCHANGED <<now, nextAllowed, stamp, slot, slots, starts>>

\* Forget the local variables of the call.
Return(c) ==
  /\ pc' = [pc EXCEPT ![c] = "idle"]
  /\ stamp' = [stamp EXCEPT ![c] = 0]
  /\ slot' = [slot EXCEPT ![c] = 0]
  /\ wakeAt' = [wakeAt EXCEPT ![c] = 0]

\* The sleep is over; the call is recorded in llm_calls, which may take any time
\* and may fail without consequence, and the CLI is started.
StartCall(c) ==
  /\ pc[c] = "asleep" /\ now >= wakeAt[c]
  /\ starts' = Append(starts, [slot |-> slot[c], at |-> now])
  /\ Goto(c, "busy")
  /\ UNCHANGED <<now, nextAllowed, stamp, slot, wakeAt, slots>>

EndCall(c) ==
  /\ pc[c] = "busy"
  /\ Return(c)
  /\ UNCHANGED <<now, nextAllowed, slots, starts>>

\* The process is killed, or an error of the database other than a lock ends the
\* call.  A slot it has reserved stays reserved.
Abandon(c) ==
  /\ pc[c] \notin {"idle", "busy"}
  /\ Return(c)
  /\ UNCHANGED <<now, nextAllowed, slots, starts>>

Tick ==
  /\ now < MaxTime
  /\ now' = now + 1
  /\ UNCHANGED <<nextAllowed, caller, slots, starts>>

Step(c) ==
  \/ Begin(c) \/ Retry(c) \/ Reserve(c) \/ Sleep(c)
  \/ StartCall(c) \/ EndCall(c) \/ Abandon(c)

Next == Tick \/ \E c \in Caller : Step(c)

Spec == Init /\ [][Next]_vars

-----------------------------------------------------------------------------
(* Properties.                                                             *)

\* Two reservations are never closer than the interval, although every caller
\* decides with a clock it read before it had the lock.
SlotsSpaced ==
  \A i, j \in 1 .. Len(slots) : i < j => slots[i] + Interval <= slots[j]

\* No call starts before its slot, however long its process is held up between
\* the reservation, the sleep and the call.
NeverEarly == \A i \in 1 .. Len(starts) : starts[i].slot <= starts[i].at

\* What the limit amounts to in the long run: by time t at most t \div Interval + 1
\* calls have been started.
RateBounded == (Len(starts) - 1) * Interval <= now

=============================================================================
