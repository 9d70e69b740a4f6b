----------------------------- MODULE LLMFailover -----------------------------
(***************************************************************************)
(* How the controller chooses the LLM profile of each call, waits out the  *)
(* cooldowns and survives a restart: _ensure_llm_profile_state_keys,       *)
(* _select_ready_profile_index, _request_llm and what they call, in        *)
(* src/src/mars/controller.py.                                             *)
(*                                                                         *)
(* A cooldown is stored in the code as the instant it ends and compared    *)
(* with the clock; here it is the time left, counted down by Tick, so the  *)
(* clock itself is not needed.  A profile's index is its position in the   *)
(* configuration.  Each write to best_state is a transaction of its own,   *)
(* and the controller may die between any two.                             *)
(***************************************************************************)
EXTENDS Integers, Sequences

CONSTANTS Profile,      \* the configured backends
          Configs,      \* the orders of llm.profiles that a session may find
          Hint,         \* the waits that a usage-limit answer may ask for
          DefaultWait,  \* llm.usage_limit_wait_sec
          Backoff,      \* llm.auth_retry_backoff_sec
          Healthy       \* profiles that answer, so that one may ask for progress

ASSUME FailoverAssumption ==
  /\ Configs # {} /\ \A c \in Configs : c \in Seq(Profile) /\ c # <<>>
  /\ Hint \subseteq Nat \ {0} /\ DefaultWait \in Nat \ {0} /\ Backoff \in Nat \ {0}
  /\ Healthy \subseteq Profile

Index == UNION {DOMAIN c : c \in Configs}
Mode == {"sticky", "round_robin"}
Wait == UNION {0 .. w : w \in Hint \cup {DefaultWait, Backoff}}
None == <<>>   \* no llm_profile.signature yet

VARIABLES
  pc,         \* where the controller is
  conf,       \* llm.profiles as this controller read them
  mode,       \* best_state["llm_profile.selection_mode"], which the user may set
  signature,  \* best_state["llm_profile.signature"]
  ready,      \* best_state["llm_profile.<i>.next_ready_unix"], as time left
  active,     \* best_state["llm_profile.active_index"]
  cursor,     \* best_state["llm_profile.rr_cursor"]
  changed,    \* the controller's signature_changed
  todo,       \* the indices whose ready key the controller has still to visit
  mem,        \* the controller's copies of ready, active and cursor
  chosen,     \* its profile_index
  timer,      \* time left of the time.sleep it is in
  owner,      \* history: whose failure each ready key was written for
  barred,     \* history: time left of the wait each profile was last given
  overtaken   \* history: indices used since an index was used or not ready

table == <<signature, ready, active, cursor>>
local == <<conf, changed, todo, mem, chosen, timer>>
history == <<owner, barred, overtaken>>
vars == <<pc, mode, table, local, history>>

PC == {"down", "reset", "cursor", "idle", "select", "save", "send", "sent", "asleep"}

TypeOK ==
  /\ pc \in PC /\ mode \in Mode
  /\ conf \in Configs /\ signature \in Configs \cup {None}
  /\ ready \in [Index -> Wait] /\ active \in Index /\ cursor \in Index
  /\ changed \in BOOLEAN /\ todo \subseteq Index
  /\ mem \in [ready : [Index -> Wait], active : Index, cursor : Index]
  /\ pc \in {"select", "asleep"} => {mem.active, mem.cursor} \subseteq DOMAIN conf
  /\ chosen \in Index /\ timer \in Wait
  /\ owner \in [Index -> Profile \cup {None}] /\ barred \in [Profile -> Wait]
  /\ overtaken \in [Index -> SUBSET Index]

Init ==
  /\ pc = "down" /\ mode \in Mode
  /\ conf \in Configs /\ signature = None
  /\ ready = [i \in Index |-> 0] /\ active = 1 /\ cursor = 1
  /\ changed = FALSE /\ todo = {}
  /\ mem = [ready |-> ready, active |-> 1, cursor |-> 1]
  /\ chosen = 1 /\ timer = 0
  /\ owner = [i \in Index |-> None]
  /\ barred = [p \in Profile |-> 0]
  /\ overtaken = [i \in Index |-> {}]

-----------------------------------------------------------------------------
(* A controller comes up: _ensure_llm_profile_state_keys.                  *)

\* A session finds the profiles in an order, maybe not that of the last one, and
\* records their signature before anything else.
Boot(c) ==
  /\ pc = "down"
  /\ conf' = c /\ changed' = (signature # c) /\ signature' = c
  /\ todo' = DOMAIN c
  /\ overtaken' = [i \in Index |-> {}]
  /\ barred' = IF signature # c THEN [p \in Profile |-> 0] ELSE barred
  /\ pc' = "reset"
  /\ UNCHANGED <<mode, ready, active, cursor, mem, chosen, timer, owner>>

\* Cooldown keys are cleared one by one, when the signature has changed.
ResetReady ==
  /\ pc = "reset" /\ todo # {}
  /\ LET i == CHOOSE i \in todo : \A j \in todo : i <= j IN
       /\ todo' = todo \ {i}
       /\ ready' = IF changed THEN [ready EXCEPT ![i] = 0] ELSE ready
  /\ UNCHANGED <<pc, mode, signature, active, cursor, conf, changed, mem, chosen, timer,
                 history>>

\* Mutant: an index is taken as it is.
ClampNothing(i) == i

\* min(max(0, idx), profile_count - 1)
Clamp(i) == IF i \in DOMAIN conf THEN i ELSE Len(conf)

ResetActive ==
  /\ pc = "reset" /\ todo = {}
  /\ active' = IF changed THEN 1 ELSE Clamp(active)
  /\ pc' = "cursor"
  /\ UNCHANGED <<mode, signature, ready, cursor, local, history>>

ResetCursor ==
  /\ pc = "cursor"
  /\ cursor' = IF changed THEN 1 ELSE Clamp(cursor)
  /\ pc' = "idle"
  /\ UNCHANGED <<mode, signature, ready, active, local, history>>

-----------------------------------------------------------------------------
(* One request: _request_llm.                                              *)

\* The controller needs an answer and loads what the table says of the profiles.
Request ==
  /\ pc = "idle"
  /\ mem' = [ready |-> ready, active |-> Clamp(active), cursor |-> Clamp(cursor)]
  /\ pc' = "select"
  /\ UNCHANGED <<mode, table, conf, changed, todo, chosen, timer, history>>

ReadyNow == {i \in DOMAIN conf : mem.ready[i] = 0}

\* The k-th profile at or after i, the list being closed to a ring.
Around(i, k) == 1 + ((i - 1 + k) % Len(conf))

\* The first ready profile from i on.
NearestReady(i) ==
  LET distance == CHOOSE k \in 0 .. Len(conf) - 1 :
        /\ Around(i, k) \in ReadyNow
        /\ \A j \in 0 .. k - 1 : Around(i, j) \notin ReadyNow
  IN Around(i, distance)

\* History: who has been passed over, in round robin, by the choice of i.
PassedOver(i) ==
  [j \in Index |-> IF mode = "round_robin" /\ j \in ReadyNow \ {i}
                    THEN overtaken[j] \cup {i} ELSE {}]

\* Sticky selection tries the current profile, those after it and those before it;
\* round robin starts from its cursor.
Select ==
  /\ pc = "select" /\ ReadyNow # {}
  /\ LET i == NearestReady(IF mode = "round_robin" THEN mem.cursor ELSE mem.active) IN
       /\ chosen' = i
       /\ mem' = [mem EXCEPT !.active = i,
                             !.cursor = IF mode = "round_robin" THEN Around(i, 1) ELSE i]
       /\ active' = IF i # mem.active THEN i ELSE active
       /\ overtaken' = PassedOver(i)
  /\ pc' = "save"
  /\ UNCHANGED <<mode, signature, ready, cursor, conf, changed, todo, timer, owner,
                 barred>>

\* Mutant: the cursor stays on the profile in use.
SaveCursorInPlace ==
  /\ pc = "save"
  /\ cursor' = chosen
  /\ mem' = [mem EXCEPT !.cursor = chosen]
  /\ pc' = "send"
  /\ UNCHANGED <<mode, signature, ready, active, conf, changed, todo, chosen, timer, history>>

SaveCursor ==
  /\ pc = "save"
  /\ cursor' = mem.cursor
  /\ pc' = "send"
  /\ UNCHANGED <<mode, signature, ready, active, local, history>>

\* enqueue: the job carries the profile's command.
Send ==
  /\ pc = "send"
  /\ pc' = "sent"
  /\ UNCHANGED <<mode, table, local, history>>

Least(S) == CHOOSE x \in S : \A y \in S : x <= y

\* Every profile cools down: sleep until the first of them is ready.
SleepAllLimited ==
  /\ pc = "select" /\ ReadyNow = {}
  /\ timer' = Least({mem.ready[i] : i \in DOMAIN conf})
  /\ pc' = "asleep"
  /\ UNCHANGED <<mode, table, conf, changed, todo, mem, chosen, history>>

Wake ==
  /\ pc = "asleep" /\ timer = 0
  /\ pc' = "select"
  /\ UNCHANGED <<mode, table, local, history>>

\* An answer.  The counters of consecutive failures go back to zero; clearing a
\* cooldown that has run out changes nothing here.
AnswerOk ==
  /\ pc = "sent"
  /\ pc' = "idle"
  /\ UNCHANGED <<mode, table, local, history>>

Longer(a, b) == IF a >= b THEN a ELSE b

\* Mutant: the cooldown is kept in memory only.
AnswerLimitedUnsaved(w) ==
  /\ pc = "sent" /\ conf[chosen] \notin Healthy
  /\ mem' = [mem EXCEPT !.ready[chosen] = Longer(@, w)]
  /\ owner' = [owner EXCEPT ![chosen] = conf[chosen]]
  /\ barred' = [barred EXCEPT ![conf[chosen]] = Longer(@, w)]
  /\ pc' = "select"
  /\ UNCHANGED <<mode, table, conf, changed, todo, chosen, timer, overtaken>>

\* A failure other than 401: a usage limit, with or without a hint when to retry,
\* or any other failure, which waits as long as a limit without a hint.
AnswerLimited(w) ==
  /\ pc = "sent" /\ conf[chosen] \notin Healthy
  /\ mem' = [mem EXCEPT !.ready[chosen] = Longer(@, w)]
  /\ ready' = [ready EXCEPT ![chosen] = mem'.ready[chosen]]
  /\ owner' = [owner EXCEPT ![chosen] = conf[chosen]]
  /\ barred' = [barred EXCEPT ![conf[chosen]] = Longer(@, w)]
  /\ pc' = "select"
  /\ UNCHANGED <<mode, signature, active, cursor, conf, changed, todo, chosen, timer, overtaken>>

\* A 401: back off and select again; the profile gets no cooldown.
AnswerUnauthorised ==
  /\ pc = "sent" /\ conf[chosen] \notin Healthy
  /\ timer' = Backoff
  /\ pc' = "asleep"
  /\ UNCHANGED <<mode, table, conf, changed, todo, mem, chosen, history>>

-----------------------------------------------------------------------------
(* The surroundings.                                                       *)

\* The controller is killed, or wait_for_result raises TimeoutError, which nothing
\* catches.
Crash ==
  /\ pc # "down"
  /\ pc' = "down"
  /\ UNCHANGED <<mode, table, local, history>>

\* The user overrides the mode in the database of a running controller.
SetMode(m) ==
  /\ mode # m
  /\ mode' = m
  /\ UNCHANGED <<pc, table, local, history>>

Less(n) == IF n = 0 THEN 0 ELSE n - 1

Tick ==
  /\ timer' = Less(timer)
  /\ ready' = [i \in Index |-> Less(ready[i])]
  /\ mem' = [mem EXCEPT !.ready = [i \in Index |-> Less(mem.ready[i])]]
  /\ barred' = [p \in Profile |-> Less(barred[p])]
  /\ UNCHANGED <<pc, mode, signature, active, cursor, conf, changed, todo, chosen, owner, overtaken>>

Controller ==
  \/ \E c \in Configs : Boot(c)
  \/ ResetReady \/ ResetActive \/ ResetCursor
  \/ Request \/ Select \/ SaveCursor \/ Send \/ SleepAllLimited \/ Wake

Worker ==
  \/ AnswerOk \/ AnswerUnauthorised
  \/ \E w \in Hint \cup {DefaultWait} : AnswerLimited(w)

Next == Controller \/ Worker \/ Crash \/ Tick \/ \E m \in Mode : SetMode(m)

Spec == Init /\ [][Next]_vars

\* The controller runs, a worker answers and time passes.
FairSpec == Spec /\ WF_vars(Controller) /\ WF_vars(Worker) /\ WF_vars(Tick)

-----------------------------------------------------------------------------
(* Properties.                                                             *)

\* No job is sent to a profile while a wait it was given is running, across mode
\* changes and restarts that keep the order of the profiles.
CooldownRespected == pc \in {"save", "send", "sent"} => barred[conf[chosen]] = 0

\* "Rotate across ready profiles": within a session no profile is used twice while
\* another that is ready waits for its turn.
Rotates ==
  [][ pc = "select" /\ pc' = "save" /\ mode = "round_robin"
        => \A j \in ReadyNow \ {chosen'} : chosen' \notin overtaken[j] ]_vars

\* "Index-based cooldown keys are invalid when profile ordering changes": a
\* controller at work applies a cooldown only to the profile it was written for.
CooldownsOwned ==
  pc \notin {"down", "reset"} =>
    \A i \in DOMAIN conf : ready[i] > 0 => owner[i] = conf[i]

\* In round robin one profile that answers is enough: a request is answered,
\* whatever the other profiles do, unless the controller dies for good.
RequestAnswered ==
  (<>[](mode = "round_robin")) => (pc = "select" ~> pc \in {"idle", "down"})

=============================================================================
