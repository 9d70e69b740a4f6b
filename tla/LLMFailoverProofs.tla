------------------------- MODULE LLMFailoverProofs -------------------------
(***************************************************************************)
(* Theorems about LLMFailover, for any profiles, orders of profiles and    *)
(* waits.                                                                  *)
(***************************************************************************)
EXTENDS LLMFailover, WellFoundedInduction, TLAPS

-----------------------------------------------------------------------------
(* Waits and configurations.                                               *)

\* A set of numbers that is not empty has a least member.
LEMMA LeastIs ==
  ASSUME NEW S \in SUBSET Nat, S # {}
  PROVE  Least(S) \in S /\ \A x \in S : Least(S) <= x
<1>1. PICK x \in S : \A y \in S : ~(<<y, x>> \in OpToRel(<, Nat))
  BY NatLessThanWellFounded, WFMin
<1>2. ASSUME NEW y \in S PROVE ~(y < x)
  <2>1. <<y, x>> \in Nat \X Nat /\ <<y, x>>[1] = y /\ <<y, x>>[2] = x
    OBVIOUS
  <2>2. y < x => <<y, x>> \in OpToRel(<, Nat)
    BY <2>1 DEF OpToRel
  <2>3. QED
    BY <1>1, <2>2
<1>3. \A y \in S : x <= y
  BY <1>2
<1>4. QED
  BY <1>3 DEF Least

\* What may be left of a wait: a number, which time, a longer wait and a reset keep one.
LEMMA Waits ==
  /\ Wait \subseteq Nat /\ 0 \in Wait
  /\ Hint \cup {DefaultWait, Backoff} \subseteq Wait
  /\ \A w \in Wait : Less(w) \in Wait
  /\ \A v, w \in Wait : Longer(v, w) \in Wait
<1>1. Hint \cup {DefaultWait, Backoff} \subseteq Nat
  BY FailoverAssumption
<1>2. \A w \in Hint \cup {DefaultWait, Backoff} : w \in 0 .. w /\ 0 \in 0 .. w
  BY <1>1
<1>3. Wait \subseteq Nat /\ 0 \in Wait /\ Hint \cup {DefaultWait, Backoff} \subseteq Wait
  BY <1>1, <1>2 DEF Wait
<1>4. ASSUME NEW w \in Wait PROVE Less(w) \in Wait
  <2>1. PICK v \in Hint \cup {DefaultWait, Backoff} : w \in 0 .. v
    BY DEF Wait
  <2>2. Less(w) \in 0 .. v
    BY <1>1, <2>1 DEF Less
  <2>3. QED
    BY <2>2 DEF Wait
<1>5. QED
  BY <1>3, <1>4 DEF Longer

\* The profiles of a session are numbered from 1.
LEMMA Sessions ==
  ASSUME NEW c \in Configs
  PROVE  /\ c \in Seq(Profile) /\ Len(c) \in Nat /\ Len(c) > 0
         /\ DOMAIN c = 1 .. Len(c) /\ 1 \in DOMAIN c /\ Len(c) \in DOMAIN c
         /\ DOMAIN c \subseteq Index /\ \A i \in DOMAIN c : c[i] \in Profile
<1>1. c \in Seq(Profile) /\ c # <<>>
  BY FailoverAssumption
<1>2. DOMAIN c \subseteq Index
  BY DEF Index
<1>3. QED
  BY <1>1, <1>2

\* Stored indices are brought into the range of the session's profiles.
LEMMA ClampIs ==
  ASSUME conf \in Configs, NEW i
  PROVE  Clamp(i) \in DOMAIN conf /\ Clamp(i) \in Index /\ (i \in DOMAIN conf => Clamp(i) = i)
BY Sessions DEF Clamp

-----------------------------------------------------------------------------
(* The ring of profiles.                                                   *)

\* How far j is ahead of i in a ring of n.
Distance(i, j, n) == IF j >= i THEN j - i ELSE j - i + n

\* Counting on from i in a ring of n, before the end and past it.
LEMMA Onwards ==
  ASSUME NEW n \in Nat, n > 0, NEW i \in 1 .. n, NEW k \in 0 .. n - 1, i + k <= n
  PROVE  1 + ((i - 1 + k) % n) = i + k
OBVIOUS

LEMMA Wrapped ==
  ASSUME NEW n \in Nat, n > 0, NEW i \in 1 .. n, NEW k \in 0 .. n - 1, i + k > n
  PROVE  1 + ((i - 1 + k) % n) = i + k - n
OBVIOUS

\* Around goes that far.
LEMMA AroundIs ==
  ASSUME conf \in Configs, NEW i \in DOMAIN conf
  PROVE  /\ \A k \in 0 .. Len(conf) - 1 :
              Around(i, k) = (IF i + k <= Len(conf) THEN i + k ELSE i + k - Len(conf))
              /\ Around(i, k) \in DOMAIN conf /\ Distance(i, Around(i, k), Len(conf)) = k
         /\ \A j \in DOMAIN conf :
              /\ Distance(i, j, Len(conf)) \in 0 .. Len(conf) - 1
              /\ Around(i, Distance(i, j, Len(conf))) = j
<1> DEFINE n == Len(conf)
<1>1. n \in Nat /\ n > 0 /\ DOMAIN conf = 1 .. n /\ i \in 1 .. n
  BY Sessions
<1>2. ASSUME NEW k \in 0 .. n - 1
      PROVE  Around(i, k) = (IF i + k <= n THEN i + k ELSE i + k - n)
  <2> HIDE DEF n
  <2>1. 1 + ((i - 1 + k) % n) = (IF i + k <= n THEN i + k ELSE i + k - n)
    <3>1. CASE i + k <= n
      BY <1>1, <3>1, Onwards
    <3>2. CASE i + k > n
      <4>1. 1 + ((i - 1 + k) % n) = i + k - n
        BY <1>1, <3>2, Wrapped
      <4>2. QED
        BY <1>1, <3>2, <4>1
    <3>3. QED
      BY <1>1, <3>1, <3>2
  <2>2. QED
    BY <2>1 DEF Around, n
<1>3. ASSUME NEW k \in 0 .. n - 1
      PROVE  Around(i, k) \in 1 .. n /\ Distance(i, Around(i, k), n) = k
  <2> HIDE DEF n
  <2>1. QED
    BY <1>1, <1>2 DEF Distance
<1>4. ASSUME NEW j \in 1 .. n
      PROVE  Distance(i, j, n) \in 0 .. n - 1 /\ Around(i, Distance(i, j, n)) = j
  <2> HIDE DEF n
  <2>1. Distance(i, j, n) \in 0 .. n - 1
    BY <1>1 DEF Distance
  <2>2. i + Distance(i, j, n) = IF j >= i THEN j ELSE j + n
    BY <1>1 DEF Distance
  <2>3. QED
    BY <1>1, <1>2, <2>1, <2>2
<1>5. QED
  BY <1>1, <1>2, <1>3, <1>4

\* The next profile is one of the session's, also when there is only one.
LEMMA NextIs ==
  ASSUME conf \in Configs, NEW i \in DOMAIN conf
  PROVE  Around(i, 1) \in DOMAIN conf
<1> DEFINE n == Len(conf)
<1>1. n \in Nat /\ n > 0 /\ DOMAIN conf = 1 .. n
  BY Sessions
<1>2. CASE n = 1
  <2> HIDE DEF n
  <2>1. i = 1 /\ 1 + ((i - 1 + 1) % n) = 1
    BY <1>1, <1>2
  <2>2. QED
    BY <1>1, <1>2, <2>1 DEF Around, n
<1>3. CASE n > 1
  BY <1>1, <1>3, AroundIs
<1>4. QED
  BY <1>1, <1>2, <1>3

\* The profile selected is ready, and no other that is ready is nearer.
LEMMA NearestIs ==
  ASSUME conf \in Configs, NEW i \in DOMAIN conf, ReadyNow # {}
  PROVE  /\ NearestReady(i) \in ReadyNow /\ NearestReady(i) \in DOMAIN conf
         /\ \A j \in ReadyNow \ {NearestReady(i)} :
              Distance(i, NearestReady(i), Len(conf)) < Distance(i, j, Len(conf))
<1> DEFINE n == Len(conf)
           D == {k \in 0 .. n - 1 : Around(i, k) \in ReadyNow}
           Is(k) == /\ Around(i, k) \in ReadyNow
                    /\ \A j \in 0 .. k - 1 : Around(i, j) \notin ReadyNow
           d == CHOOSE k \in 0 .. n - 1 : Is(k)
<1>1. ReadyNow \subseteq DOMAIN conf /\ n \in Nat /\ n > 0
  BY Sessions DEF ReadyNow
<1>2. \A j \in ReadyNow : Distance(i, j, n) \in 0 .. n - 1 /\ Around(i, Distance(i, j, n)) = j
  BY <1>1, AroundIs
<1>3. D \in SUBSET Nat /\ D # {}
  BY <1>1, <1>2
<1>4. Least(D) \in D /\ \A k \in D : Least(D) <= k
  <2> HIDE DEF D
  <2>1. QED
    BY <1>3, LeastIs
<1>5. \E k \in 0 .. n - 1 : Is(k)
  <2>1. Least(D) \in 0 .. n - 1 /\ Around(i, Least(D)) \in ReadyNow
    BY <1>4
  <2>2. \A j \in 0 .. Least(D) - 1 : j \in 0 .. n - 1 /\ ~(Least(D) <= j)
    <3> HIDE DEF D
    <3>1. QED
      BY <1>1, <2>1
  <2>3. \A j \in 0 .. Least(D) - 1 : Around(i, j) \notin ReadyNow
    BY <1>4, <2>2
  <2>4. QED
    BY <2>1, <2>3
<1>6. d \in 0 .. n - 1 /\ Is(d)
  <2> HIDE DEF Is
  <2>1. QED
    BY <1>5
<1>7. NearestReady(i) = Around(i, d)
  BY DEF NearestReady
<1>8. Distance(i, Around(i, d), n) = d
  <2> HIDE DEF d
  <2>1. QED
    BY <1>6, AroundIs
<1>9. ASSUME NEW j \in ReadyNow, j # Around(i, d)
      PROVE  d < Distance(i, j, n)
  <2> HIDE DEF d, n
  <2>1. Distance(i, j, n) \in 0 .. n - 1 /\ Around(i, Distance(i, j, n)) = j
    BY <1>2
  <2>2. Distance(i, j, n) \notin 0 .. d - 1 /\ Distance(i, j, n) # d
    BY <1>6, <1>9, <2>1
  <2>3. QED
    BY <1>1, <1>6, <2>1, <2>2
<1>10. QED
  BY <1>1, <1>6, <1>7, <1>8, <1>9

\* From the profile after i, what is met before j was met before j from c too, and is not
\* i, as long as i was met before j.
LEMMA Passing ==
  ASSUME conf \in Configs, NEW c \in DOMAIN conf, NEW i \in DOMAIN conf, NEW j \in DOMAIN conf,
         NEW x \in DOMAIN conf, Distance(c, i, Len(conf)) < Distance(c, j, Len(conf)),
         Distance(Around(i, 1), x, Len(conf)) < Distance(Around(i, 1), j, Len(conf))
  PROVE  x # i /\ Distance(c, x, Len(conf)) < Distance(c, j, Len(conf))
<1> DEFINE n == Len(conf)
<1>1. n \in Nat /\ DOMAIN conf = 1 .. n
  BY Sessions
<1>2. n > 1
  BY <1>1 DEF Distance
<1>3. Around(i, 1) = IF i + 1 <= n THEN i + 1 ELSE i + 1 - n
  BY <1>1, <1>2, AroundIs
<1>4. QED
  <2> HIDE DEF n
  <2> DEFINE s == Around(i, 1)
  <2>1. s = (IF i + 1 <= n THEN i + 1 ELSE 1) /\ Distance(s, x, n) < Distance(s, j, n)
        /\ Distance(c, i, n) < Distance(c, j, n)
    BY <1>1, <1>3 DEF n
  <2>2. x # i /\ Distance(c, x, n) < Distance(c, j, n)
    <3> HIDE DEF s
    <3>1. CASE i + 1 <= n
      BY <1>1, <2>1, <3>1, SMTT(60) DEF Distance
    <3>2. CASE i + 1 > n
      BY <1>1, <2>1, <3>2 DEF Distance
    <3>3. QED
      BY <1>1, <3>1, <3>2
  <2>3. QED
    BY <2>2 DEF n

-----------------------------------------------------------------------------
(* Type correctness.                                                       *)

\* The controller is about a request.
Working == {"select", "save", "send", "sent", "asleep"}

\* A controller that is up has recorded its profiles; at work, its indices are those of
\* profiles, and the profile it uses was ready when it was selected and still is.
Settled == pc # "down" => signature = conf
InRange == pc \in Working => {mem.active, mem.cursor} \subseteq DOMAIN conf
Sending == pc \in {"save", "send", "sent"} => chosen \in DOMAIN conf /\ mem.ready[chosen] = 0

IInv == TypeOK /\ Settled /\ InRange /\ Sending

LEMMA InitIInv == Init => IInv
<1>1. 1 \in Index
  BY Sessions, FailoverAssumption
<1>2. ASSUME Init PROVE TypeOK
  <2>1. ready \in [Index -> Wait] /\ barred \in [Profile -> Wait] /\ timer \in Wait
    BY <1>2, Waits DEF Init
  <2>2. /\ mem \in [ready : [Index -> Wait], active : Index, cursor : Index]
        /\ owner \in [Index -> Profile \cup {None}] /\ overtaken \in [Index -> SUBSET Index]
    BY <1>1, <1>2, <2>1 DEF Init
  <2>3. QED
    BY <1>1, <1>2, <2>1, <2>2 DEF Init, TypeOK, PC
<1>3. QED
  BY <1>2 DEF Init, IInv, Settled, InRange, Sending, Working

\* What the selection does, in either mode.
LEMMA SelectIs ==
  ASSUME IInv, Select
  PROVE  /\ chosen' \in ReadyNow /\ chosen' \in DOMAIN conf /\ Around(chosen', 1) \in DOMAIN conf
         /\ mem' = [mem EXCEPT !.active = chosen',
                               !.cursor = IF mode = "round_robin" THEN Around(chosen', 1)
                                                                  ELSE chosen']
         /\ active' = (IF chosen' # mem.active THEN chosen' ELSE active)
         /\ overtaken' = PassedOver(chosen')
         /\ mode = "round_robin" =>
              \A j \in ReadyNow \ {chosen'} :
                Distance(mem.cursor, chosen', Len(conf)) < Distance(mem.cursor, j, Len(conf))
<1> DEFINE c == IF mode = "round_robin" THEN mem.cursor ELSE mem.active
<1>1. conf \in Configs /\ c \in DOMAIN conf /\ ReadyNow # {}
  BY DEF IInv, TypeOK, InRange, Working, Select
<1>2. chosen' = NearestReady(c)
  BY DEF Select
<1>3. /\ chosen' \in ReadyNow /\ chosen' \in DOMAIN conf
      /\ \A j \in ReadyNow \ {chosen'} : Distance(c, chosen', Len(conf)) < Distance(c, j, Len(conf))
  <2> HIDE DEF c
  <2>1. QED
    BY <1>1, <1>2, NearestIs
<1>4. Around(chosen', 1) \in DOMAIN conf
  BY <1>1, <1>3, NextIs
<1>5. QED
  BY <1>3, <1>4 DEF Select

LEMMA StepIInv == ASSUME IInv, Next PROVE IInv'
<1>0. /\ conf \in Configs /\ DOMAIN conf \subseteq Index /\ 1 \in Index
      /\ \A i \in DOMAIN conf : conf[i] \in Profile
  BY Sessions DEF IInv, TypeOK
<1> USE DEF IInv, TypeOK, Settled, InRange, Sending, Working, PC, Mode
<1>1. ASSUME NEW c \in Configs, Boot(c) PROVE IInv'
  <2>1. DOMAIN c \subseteq Index
    BY Sessions
  <2>2. barred' \in [Profile -> Wait]
    BY <1>1, Waits DEF Boot
  <2>3. QED
    BY <1>1, <2>1, <2>2 DEF Boot
<1>2. CASE ResetReady
  <2>1. ready' \in [Index -> Wait] /\ todo' \subseteq Index
    BY <1>2, Waits DEF ResetReady
  <2>2. QED
    BY <1>2, <2>1 DEF ResetReady, history
<1>3. CASE ResetActive
  <2>1. active' \in Index
    BY <1>0, <1>3, ClampIs DEF ResetActive
  <2>2. QED
    BY <1>3, <2>1 DEF ResetActive, local, history
<1>4. CASE ResetCursor
  <2>1. cursor' \in Index
    BY <1>0, <1>4, ClampIs DEF ResetCursor
  <2>2. QED
    BY <1>4, <2>1 DEF ResetCursor, local, history
<1>5. CASE Request
  <2>1. Clamp(active) \in DOMAIN conf /\ Clamp(cursor) \in DOMAIN conf
    BY <1>0, ClampIs
  <2>2. QED
    BY <1>0, <1>5, <2>1 DEF Request, table, history
<1>6. CASE Select
  <2>1. /\ mem'.active = chosen' /\ mem'.cursor \in DOMAIN conf /\ mem'.ready = mem.ready
        /\ mem' \in [ready : [Index -> Wait], active : Index, cursor : Index]
    BY <1>0, <1>6, SelectIs
  <2>2. chosen' \in DOMAIN conf /\ mem.ready[chosen'] = 0 /\ active' \in Index
    BY <1>0, <1>6, SelectIs DEF ReadyNow
  <2>3. overtaken' \in [Index -> SUBSET Index]
    BY <1>0, <1>6, <2>2, SelectIs DEF PassedOver
  <2>4. QED
    BY <1>0, <1>6, <2>1, <2>2, <2>3 DEF Select
<1>7. CASE SaveCursor
  BY <1>0, <1>7 DEF SaveCursor, local, history
<1>8. CASE Send
  BY <1>8 DEF Send, table, local, history
<1>9. CASE SleepAllLimited
  <2> DEFINE S == {mem.ready[i] : i \in DOMAIN conf}
  <2>1. S \subseteq Wait /\ S # {}
    BY <1>0, Sessions
  <2>2. Least(S) \in Wait
    <3> HIDE DEF S
    <3>1. QED
      BY <2>1, Waits, LeastIs
  <2>3. timer' \in Wait
    BY <1>9, <2>2 DEF SleepAllLimited
  <2>4. QED
    BY <1>9, <2>3 DEF SleepAllLimited, table, history
<1>10. CASE Wake
  BY <1>10 DEF Wake, table, local, history
<1>11. CASE AnswerOk
  BY <1>11 DEF AnswerOk, table, local, history
<1>12. CASE AnswerUnauthorised
  BY <1>12, Waits DEF AnswerUnauthorised, table, history
<1>13. ASSUME NEW w \in Hint \cup {DefaultWait}, AnswerLimited(w) PROVE IInv'
  <2>1. w \in Wait /\ chosen \in DOMAIN conf /\ conf[chosen] \in Profile
    BY <1>0, <1>13, Waits DEF AnswerLimited
  <2>2. Longer(mem.ready[chosen], w) \in Wait /\ Longer(barred[conf[chosen]], w) \in Wait
    BY <1>0, <2>1, Waits
  <2>3. /\ mem' = [mem EXCEPT !.ready = [mem.ready EXCEPT ![chosen] = Longer(mem.ready[chosen], w)]]
        /\ barred' \in [Profile -> Wait] /\ owner' \in [Index -> Profile \cup {None}]
    BY <1>0, <1>13, <2>1, <2>2 DEF AnswerLimited
  <2>4. /\ mem' \in [ready : [Index -> Wait], active : Index, cursor : Index]
        /\ mem'.active = mem.active /\ mem'.cursor = mem.cursor
        /\ mem'.ready[chosen] \in Wait
    BY <1>0, <2>1, <2>2, <2>3
  <2>5. ready' \in [Index -> Wait]
    BY <1>13, <2>4 DEF AnswerLimited
  <2>6. QED
    BY <1>0, <1>13, <2>3, <2>4, <2>5 DEF AnswerLimited
<1>14. CASE Crash
  BY <1>14 DEF Crash, table, local, history
<1>15. CASE Tick
  <2>1. /\ ready' \in [Index -> Wait] /\ barred' \in [Profile -> Wait] /\ timer' \in Wait
        /\ mem'.ready \in [Index -> Wait]
    BY <1>15, Waits DEF Tick
  <2>2. /\ mem' \in [ready : [Index -> Wait], active : Index, cursor : Index]
        /\ mem'.active = mem.active /\ mem'.cursor = mem.cursor
        /\ \A i \in DOMAIN conf : mem.ready[i] = 0 => mem'.ready[i] = 0
    BY <1>0, <1>15, <2>1 DEF Tick, Less
  <2>3. QED
    BY <1>0, <1>15, <2>1, <2>2 DEF Tick
<1>16. ASSUME NEW m \in Mode, SetMode(m) PROVE IInv'
  BY <1>16 DEF SetMode, table, local, history
<1>17. QED
  BY <1>1, <1>2, <1>3, <1>4, <1>5, <1>6, <1>7, <1>8, <1>9, <1>10, <1>11, <1>12, <1>13,
     <1>14, <1>15, <1>16 DEF Next, Controller, Worker

LEMMA StutterIInv == ASSUME IInv, UNCHANGED vars PROVE IInv'
BY DEF IInv, TypeOK, Settled, InRange, Sending, vars, table, local, history

THEOREM FailoverInvariance == Spec => []IInv
<1>1. IInv /\ [Next]_vars => IInv'
  BY StepIInv, StutterIInv
<1>2. QED
  BY InitIInv, <1>1, PTL DEF Spec

\* For any profiles and waits the variables keep their types, and no selection leaves
\* the list of profiles.
THEOREM FailoverTyping == Spec => []TypeOK
<1>1. IInv => TypeOK
  BY DEF IInv
<1>2. QED
  BY <1>1, FailoverInvariance, PTL

-----------------------------------------------------------------------------
(* Cooldowns.                                                              *)

\* No profile is listed twice.
Distinct == \A c \in Configs : \A i, j \in DOMAIN c : c[i] = c[j] => i = j

\* The key of each profile is as long as the wait it was given: in the table, in the
\* controller's copy, and while the keys of another order are being cleared.
Cool ==
  /\ \A i \in DOMAIN signature : barred[signature[i]] <= ready[i]
  /\ pc = "reset" /\ changed => \A p \in Profile : barred[p] = 0
  /\ pc \in Working => \A i \in DOMAIN conf : barred[conf[i]] <= mem.ready[i]

LEMMA StepCool == ASSUME Distinct, IInv, Cool, Next PROVE Cool'
<1>0. /\ conf \in Configs /\ DOMAIN conf \subseteq Index
      /\ \A i \in DOMAIN conf : conf[i] \in Profile
      /\ ready \in [Index -> Nat] /\ barred \in [Profile -> Nat]
      /\ mem.ready \in [Index -> Nat]
  BY Sessions, Waits DEF IInv, TypeOK
<1>1. ASSUME NEW c \in Configs, Boot(c) PROVE Cool'
  <2>1. DOMAIN c \subseteq Index /\ \A i \in DOMAIN c : c[i] \in Profile
    BY Sessions
  <2>2. CASE signature # c
    <3>1. /\ signature' = c /\ ready' = ready /\ pc' = "reset"
          /\ \A p \in Profile : barred'[p] = 0
      BY <1>1, <2>2 DEF Boot
    <3>2. \A i \in DOMAIN c : ready[i] \in Nat
      BY <1>0, <2>1
    <3>3. QED
      BY <2>1, <3>1, <3>2 DEF Cool, Working
  <2>3. CASE signature = c
    BY <1>1, <2>3 DEF Boot, Cool, Working
  <2>4. QED
    BY <2>2, <2>3
<1>2. CASE ResetReady
  <2>1. CASE ~changed
    BY <1>2, <2>1 DEF ResetReady, history, Cool, Working
  <2>2. CASE changed
    <3>1. /\ \A p \in Profile : barred'[p] = 0
          /\ signature' = conf /\ pc' = "reset"
      BY <1>2, <2>2 DEF ResetReady, history, Cool, IInv, Settled
    <3>2. \A i \in Index : ready'[i] \in Nat
      BY <1>0, <1>2 DEF ResetReady
    <3>3. QED
      BY <1>0, <3>1, <3>2 DEF Cool, Working
  <2>3. QED
    BY <2>1, <2>2
<1>3. CASE ResetActive \/ ResetCursor
  BY <1>3 DEF ResetActive, ResetCursor, local, history, Cool, Working
<1>4. CASE Request
  <2>1. mem'.ready = ready /\ signature = conf
    BY <1>4 DEF Request, IInv, Settled
  <2>2. QED
    BY <1>4, <2>1 DEF Request, table, history, Cool
<1>5. CASE Select
  <2>1. mem'.ready = mem.ready
    BY <1>5 DEF Select, IInv, TypeOK
  <2>2. QED
    BY <1>5, <2>1 DEF Select, Cool, Working
<1>6. CASE SaveCursor \/ Send \/ SleepAllLimited \/ Wake \/ AnswerOk \/ AnswerUnauthorised
  BY <1>6 DEF SaveCursor, Send, SleepAllLimited, Wake, AnswerOk, AnswerUnauthorised, table,
     local, history, Cool, Working
<1>7. ASSUME NEW w \in Hint \cup {DefaultWait}, AnswerLimited(w) PROVE Cool'
  <2> DEFINE b == Longer(barred[conf[chosen]], w)
             r == Longer(mem.ready[chosen], w)
  <2>1. chosen \in DOMAIN conf /\ signature = conf /\ w \in Nat
        /\ barred[conf[chosen]] <= mem.ready[chosen]
    BY <1>7, Waits DEF AnswerLimited, IInv, Sending, Settled, Cool, Working
  <2>2. b <= r
    BY <1>0, <2>1 DEF Longer
  <2>3. /\ barred' = [barred EXCEPT ![conf[chosen]] = b]
        /\ mem'.ready = [mem.ready EXCEPT ![chosen] = r]
    BY <1>7 DEF AnswerLimited, IInv, TypeOK
  <2>4. ready' = [ready EXCEPT ![chosen] = r]
    BY <1>0, <1>7, <2>1, <2>3 DEF AnswerLimited
  <2>5. \A i \in DOMAIN conf : i # chosen => conf[i] # conf[chosen]
    BY <1>0, <2>1 DEF Distinct
  <2>6. ASSUME NEW i \in DOMAIN conf
        PROVE  barred'[conf[i]] <= ready'[i] /\ barred'[conf[i]] <= mem'.ready[i]
    <3> HIDE DEF b, r
    <3>1. CASE i = chosen
      BY <1>0, <2>1, <2>2, <2>3, <2>4, <3>1
    <3>2. CASE i # chosen
      <4>1. barred'[conf[i]] = barred[conf[i]] /\ ready'[i] = ready[i]
            /\ mem'.ready[i] = mem.ready[i]
        BY <1>0, <2>1, <2>3, <2>4, <2>5, <3>2
      <4>2. QED
        BY <1>7, <2>1, <4>1 DEF AnswerLimited, Cool, Working
    <3>3. QED
      BY <3>1, <3>2
  <2>7. QED
    BY <1>7, <2>1, <2>6 DEF AnswerLimited, Cool
<1>8. CASE Crash
  BY <1>8 DEF Crash, table, local, history, Cool, Working
<1>9. CASE Tick
  <2>1. \A m, n \in Nat : m <= n => Less(m) <= Less(n)
    BY DEF Less
  <2>2. /\ \A i \in Index : ready'[i] = Less(ready[i]) /\ mem'.ready[i] = Less(mem.ready[i])
        /\ \A p \in Profile : barred'[p] = Less(barred[p])
    BY <1>9 DEF Tick, IInv, TypeOK
  <2>3. DOMAIN signature \subseteq Index /\ \A i \in DOMAIN signature : signature[i] \in Profile
    BY Sessions DEF IInv, TypeOK, None
  <2>4. UNCHANGED <<pc, signature, conf, changed>>
    BY <1>9 DEF Tick
  <2>5. \A i \in DOMAIN signature : barred'[signature[i]] <= ready'[i]
    BY <1>0, <2>1, <2>2, <2>3 DEF Cool
  <2>6. pc \in Working => \A i \in DOMAIN conf : barred'[conf[i]] <= mem'.ready[i]
    BY <1>0, <2>1, <2>2 DEF Cool
  <2>7. pc = "reset" /\ changed => \A p \in Profile : barred'[p] = 0
    BY <2>2 DEF Cool, Less
  <2>8. QED
    BY <2>4, <2>5, <2>6, <2>7 DEF Cool
<1>10. ASSUME NEW m \in Mode, SetMode(m) PROVE Cool'
  BY <1>10 DEF SetMode, table, local, history, Cool
<1>11. QED
  BY <1>1, <1>2, <1>3, <1>4, <1>5, <1>6, <1>7, <1>8, <1>9, <1>10
     DEF Next, Controller, Worker

\* Where no profile is listed twice, no job goes to a profile while a wait it was given is
\* running, whatever the controller lived through since, restarts included.
THEOREM CooldownSafety == ASSUME Distinct PROVE Spec => []CooldownRespected
<1>1. Init => Cool
  BY Waits DEF Init, Cool, Working, None
<1>2. IInv /\ Cool /\ [Next]_vars => Cool'
  BY StepCool DEF Cool, vars, table, local, history
<1>3. IInv /\ Cool => CooldownRespected
  <2> SUFFICES ASSUME IInv, Cool, pc \in {"save", "send", "sent"}
               PROVE  barred[conf[chosen]] = 0
    BY DEF CooldownRespected
  <2>1. /\ chosen \in DOMAIN conf /\ mem.ready[chosen] = 0
        /\ barred[conf[chosen]] <= mem.ready[chosen]
    BY DEF IInv, Sending, Cool, Working
  <2>2. barred[conf[chosen]] \in Nat
    BY <2>1, Sessions, Waits DEF IInv, TypeOK
  <2>3. QED
    BY <2>1, <2>2
<1>4. QED
  BY <1>1, <1>2, <1>3, FailoverInvariance, PTL DEF Spec

-----------------------------------------------------------------------------
(* Rotation.                                                               *)

\* Where the next selection starts, between two requests and within one.
Position == IF pc = "idle" THEN cursor ELSE mem.cursor

\* The table keeps the place: it is in range between requests, and the controller's
\* copy but while it has a new one to save.
Kept ==
  /\ pc = "idle" => cursor \in DOMAIN conf
  /\ pc \in Working \ {"save"} => cursor = mem.cursor

\* A profile that was used while j was ready is not met again before j.
Behind ==
  /\ pc \in {"reset", "cursor"} => \A j \in Index : overtaken[j] = {}
  /\ pc \in Working \cup {"idle"} =>
       \A j \in DOMAIN conf : \A x \in overtaken[j] :
         /\ x \in DOMAIN conf
         /\ ~(Distance(Position, x, Len(conf)) < Distance(Position, j, Len(conf)))

Turns == Kept /\ Behind

LEMMA StepTurns == ASSUME IInv, Turns, Next PROVE Turns'
<1>0. conf \in Configs /\ DOMAIN conf \subseteq Index /\ 1 \in DOMAIN conf
  BY Sessions DEF IInv, TypeOK
<1>1. ASSUME NEW c \in Configs, Boot(c) PROVE Turns'
  BY <1>1 DEF Boot, Turns, Kept, Behind, Working
<1>2. CASE ResetReady
  BY <1>2 DEF ResetReady, history, Turns, Kept, Behind, Working
<1>3. CASE ResetActive
  BY <1>3 DEF ResetActive, local, history, Turns, Kept, Behind, Working
<1>4. CASE ResetCursor
  <2>1. cursor' \in DOMAIN conf
    BY <1>0, <1>4, ClampIs DEF ResetCursor
  <2>2. \A j \in DOMAIN conf : overtaken'[j] = {}
    BY <1>0, <1>4 DEF ResetCursor, history, Turns, Behind
  <2>3. QED
    BY <1>4, <2>1, <2>2 DEF ResetCursor, local, Turns, Kept, Behind, Working
<1>5. CASE Request
  <2>1. mem'.cursor = cursor
    BY <1>0, <1>5, ClampIs DEF Request, Turns, Kept
  <2>2. Position' = Position
    BY <1>5, <2>1 DEF Request, Position
  <2>3. QED
    BY <1>5, <2>1, <2>2 DEF Request, table, history, Turns, Kept, Behind
<1>6. CASE Select
  <2> DEFINE i == chosen'
             s == mem'.cursor
             n == Len(conf)
  <2>1. /\ pc = "select" /\ pc' = "save" /\ conf' = conf
        /\ i \in DOMAIN conf /\ overtaken' = PassedOver(i)
    BY <1>6, SelectIs DEF Select
  <2>2. ASSUME NEW j \in DOMAIN conf, NEW x \in overtaken'[j]
        PROVE  x \in DOMAIN conf /\ ~(Distance(s, x, n) < Distance(s, j, n))
    <3>1. mode = "round_robin" /\ j \in ReadyNow \ {i} /\ x \in overtaken[j] \cup {i}
      BY <1>0, <2>1, <2>2 DEF PassedOver
    <3>2. s = Around(i, 1) /\ mem.cursor \in DOMAIN conf
      BY <1>6, <2>1, <3>1, SelectIs DEF IInv, TypeOK, InRange, Working
    <3>3. Distance(mem.cursor, i, n) < Distance(mem.cursor, j, n)
      BY <1>6, <3>1, SelectIs
    <3>4. x # i => /\ x \in DOMAIN conf
                   /\ ~(Distance(mem.cursor, x, n) < Distance(mem.cursor, j, n))
      BY <2>1, <3>1 DEF Turns, Behind, Position, Working
    <3>5. x \in DOMAIN conf
      BY <2>1, <3>4
    <3>6. QED
      <4> HIDE DEF i, s, n
      <4>1. SUFFICES ASSUME Distance(s, x, n) < Distance(s, j, n) PROVE FALSE
        BY <3>5
      <4>2. x # i /\ Distance(mem.cursor, x, n) < Distance(mem.cursor, j, n)
        BY <1>0, <2>1, <3>2, <3>3, <3>5, <4>1, Passing DEF n
      <4>3. QED
        BY <3>4, <4>2
  <2>3. Position' = s
    BY <2>1 DEF Position
  <2>4. QED
    BY <2>1, <2>2, <2>3 DEF Turns, Kept, Behind, Working
<1>7. CASE SaveCursor
  <2>1. Position' = Position
    BY <1>7 DEF SaveCursor, local, Position
  <2>2. QED
    BY <1>7, <2>1 DEF SaveCursor, local, history, Turns, Kept, Behind, Working
<1>8. CASE Send \/ SleepAllLimited \/ Wake \/ AnswerUnauthorised
  <2>1. /\ pc \in Working \ {"save"} /\ pc' \in Working \ {"save"}
        /\ UNCHANGED <<cursor, mem, conf, overtaken>>
    BY <1>8 DEF Send, SleepAllLimited, Wake, AnswerUnauthorised, table, local, history, Working
  <2>2. Position' = Position
    BY <2>1 DEF Position, Working
  <2>3. QED
    BY <2>1, <2>2 DEF Turns, Kept, Behind, Working
<1>9. CASE AnswerOk
  <2>1. cursor = mem.cursor /\ mem.cursor \in DOMAIN conf
    BY <1>9 DEF AnswerOk, Turns, Kept, IInv, InRange, Working
  <2>2. Position' = Position
    BY <1>9, <2>1 DEF AnswerOk, table, local, Position
  <2>3. QED
    BY <1>9, <2>1, <2>2 DEF AnswerOk, table, local, history, Turns, Kept, Behind, Working
<1>10. ASSUME NEW w \in Hint \cup {DefaultWait}, AnswerLimited(w) PROVE Turns'
  <2>1. /\ pc \in Working \ {"save"} /\ pc' \in Working \ {"save"}
        /\ mem'.cursor = mem.cursor /\ UNCHANGED <<cursor, conf, overtaken>>
    BY <1>10 DEF AnswerLimited, Working, IInv, TypeOK
  <2>2. Position' = Position
    BY <2>1 DEF Position, Working
  <2>3. QED
    BY <2>1, <2>2 DEF Turns, Kept, Behind, Working
<1>11. CASE Crash
  BY <1>11 DEF Crash, table, local, history, Turns, Kept, Behind, Working
<1>12. CASE Tick
  <2>1. mem'.cursor = mem.cursor /\ UNCHANGED <<pc, cursor, conf, overtaken>>
    BY <1>12 DEF Tick, IInv, TypeOK
  <2>2. Position' = Position
    BY <2>1 DEF Position
  <2>3. QED
    BY <2>1, <2>2 DEF Turns, Kept, Behind
<1>13. ASSUME NEW m \in Mode, SetMode(m) PROVE Turns'
  BY <1>13 DEF SetMode, table, local, history, Turns, Kept, Behind, Position
<1>14. QED
  BY <1>1, <1>2, <1>3, <1>4, <1>5, <1>6, <1>7, <1>8, <1>9, <1>10, <1>11, <1>12, <1>13
     DEF Next, Controller, Worker

\* For any number of profiles, in any order, round robin uses no profile twice while
\* another that is ready waits for its turn, whatever waits and restarts come between.
THEOREM RotationSafety == Spec => Rotates
<1> DEFINE Turn == pc = "select" /\ pc' = "save" /\ mode = "round_robin"
                     => \A j \in ReadyNow \ {chosen'} : chosen' \notin overtaken[j]
<1>1. Init => Turns
  BY DEF Init, Turns, Kept, Behind, Working
<1>2. IInv /\ Turns /\ [Next]_vars => Turns'
  BY StepTurns DEF Turns, Kept, Behind, Position, vars, table, local, history
<1>3. IInv /\ Turns /\ [Next]_vars => [Turn]_vars
  <2> SUFFICES ASSUME IInv, Turns, [Next]_vars, pc = "select", pc' = "save",
                      mode = "round_robin", NEW j \in ReadyNow \ {chosen'},
                      chosen' \in overtaken[j]
               PROVE  FALSE
    OBVIOUS
  <2>1. Select
    BY DEF Next, Controller, Worker, Boot, ResetReady, ResetActive, ResetCursor, Request,
           SaveCursor, Send, SleepAllLimited, Wake, AnswerOk, AnswerUnauthorised,
           AnswerLimited, Crash, Tick, SetMode, vars
  <2>2. Distance(mem.cursor, chosen', Len(conf)) < Distance(mem.cursor, j, Len(conf))
    BY <2>1, SelectIs
  <2>3. j \in DOMAIN conf
    BY DEF ReadyNow
  <2>4. QED
    BY <2>2, <2>3 DEF Turns, Behind, Position, Working
<1>4. QED
  BY <1>1, <1>2, <1>3, FailoverInvariance, PTL DEF Spec, Rotates

-----------------------------------------------------------------------------
(* Cooldowns and the order of the profiles.                                *)

\* No controller dies between the step that records a new order of the profiles and
\* the last one that clears the cooldowns of the old.
ResetCompletes == [][pc = "reset" /\ changed => pc' # "down"]_vars

\* A cooldown belongs to the profile that the recorded order has in its place, but for
\* those that are still to be cleared.
Owned ==
  \A i \in DOMAIN signature :
    ready[i] = 0 \/ owner[i] = signature[i] \/ (pc = "reset" /\ changed /\ i \in todo)

\* Only the end of a controller that is clearing cooldowns leaves one of another order.
LEMMA StepOwned ==
  ASSUME IInv, Owned, Next, pc = "reset" /\ changed => pc' # "down"
  PROVE  Owned'
<1>0. /\ conf \in Configs /\ DOMAIN conf \subseteq Index /\ DOMAIN signature \subseteq Index
      /\ ready \in [Index -> Nat] /\ owner \in [Index -> Profile \cup {None}]
      /\ pc # "down" => signature = conf
  <2>1. conf \in Configs /\ DOMAIN conf \subseteq Index
    BY Sessions DEF IInv, TypeOK
  <2>2. DOMAIN signature \subseteq Index
    <3>1. CASE signature = None
      BY <3>1 DEF None
    <3>2. CASE signature \in Configs
      BY <3>2, Sessions
    <3>3. QED
      BY <3>1, <3>2 DEF IInv, TypeOK
  <2>3. ready \in [Index -> Nat] /\ owner \in [Index -> Profile \cup {None}]
    BY Waits DEF IInv, TypeOK
  <2>4. QED
    BY <2>1, <2>2, <2>3 DEF IInv, Settled
<1>1. ASSUME NEW c \in Configs, Boot(c) PROVE Owned'
  <2>1. CASE signature = c
    BY <1>1, <2>1 DEF Boot, Owned
  <2>2. CASE signature # c
    BY <1>1, <2>2 DEF Boot, Owned
  <2>3. QED
    BY <2>1, <2>2
<1>2. CASE ResetReady
  <2>1. PICK i \in Index : /\ todo' = todo \ {i}
                           /\ ready' = IF changed THEN [ready EXCEPT ![i] = 0] ELSE ready
    <3> DEFINE i == CHOOSE i \in todo : \A j \in todo : i <= j
    <3>1. todo # {} /\ todo \in SUBSET Nat /\ todo \subseteq Index
      <4>1. Index \subseteq Nat
        <5>1. \A c \in Configs : DOMAIN c \subseteq Nat
          BY Sessions
        <5>2. QED
          BY <5>1 DEF Index
      <4>2. QED
        BY <1>2, <4>1 DEF ResetReady, IInv, TypeOK
    <3>2. i \in todo
      BY <3>1, LeastIs DEF Least
    <3>3. QED
      BY <1>2, <3>1, <3>2 DEF ResetReady
  <2>2. UNCHANGED <<pc, signature, owner, changed>>
    BY <1>2 DEF ResetReady, history
  <2>3. \A j \in Index : j # i => ready'[j] = ready[j] /\ (j \in todo' <=> j \in todo)
    BY <1>0, <2>1
  <2>4. changed => ready'[i] = 0
    BY <1>0, <2>1
  <2>5. ~changed => ready' = ready
    BY <2>1
  <2>6. QED
    BY <1>0, <2>2, <2>3, <2>4, <2>5 DEF Owned
<1>3. CASE ResetActive
  BY <1>3 DEF ResetActive, local, history, Owned
<1>4. CASE ResetCursor \/ Request \/ Select \/ SaveCursor \/ Send \/ SleepAllLimited \/ Wake
           \/ AnswerOk \/ AnswerUnauthorised
  BY <1>4 DEF ResetCursor, Request, Select, SaveCursor, Send, SleepAllLimited, Wake, AnswerOk,
     AnswerUnauthorised, table, local, history, Owned
<1>5. ASSUME NEW w \in Hint \cup {DefaultWait}, AnswerLimited(w) PROVE Owned'
  <2>1. /\ pc = "sent" /\ chosen \in DOMAIN conf /\ signature = conf /\ signature' = signature
        /\ \A i \in Index : i # chosen => ready'[i] = ready[i] /\ owner'[i] = owner[i]
        /\ owner'[chosen] = conf[chosen]
    BY <1>0, <1>5 DEF AnswerLimited, IInv, Sending
  <2>2. QED
    BY <1>0, <2>1 DEF Owned
<1>6. CASE Crash
  BY <1>6 DEF Crash, table, local, history, Owned
<1>7. CASE Tick
  <2>1. \A i \in Index : ready[i] = 0 => ready'[i] = 0
    BY <1>7 DEF Tick, Less
  <2>2. UNCHANGED <<pc, signature, owner, changed, todo>>
    BY <1>7 DEF Tick
  <2>3. QED
    BY <1>0, <2>1, <2>2 DEF Owned
<1>8. ASSUME NEW m \in Mode, SetMode(m) PROVE Owned'
  BY <1>8 DEF SetMode, table, local, history, Owned
<1>9. QED
  BY <1>1, <1>2, <1>3, <1>4, <1>5, <1>6, <1>7, <1>8 DEF Next, Controller, Worker

\* "Index-based cooldown keys are invalid when profile ordering changes", and a
\* controller at work never applies one to another profile than it was written for, in
\* any number of sessions with any orders and any other crashes, as long as none dies
\* while it clears them: the step that records the new order before they are cleared is
\* the only one that makes CooldownsOwned false.
THEOREM ResetOwnsCooldowns == Spec /\ ResetCompletes => []CooldownsOwned
<1>1. Init => Owned
  BY DEF Init, Owned, None
<1>2. IInv /\ Owned /\ [Next]_vars /\ [pc = "reset" /\ changed => pc' # "down"]_vars => Owned'
  <2>1. ASSUME Owned, UNCHANGED vars PROVE Owned'
    BY <2>1 DEF Owned, vars, table, local, history
  <2>2. QED
    BY <2>1, StepOwned DEF vars, table, local, history
<1>3. IInv /\ Owned => CooldownsOwned
  <2> SUFFICES ASSUME IInv, Owned, pc \notin {"down", "reset"}, NEW i \in DOMAIN conf,
                      ready[i] > 0
               PROVE  owner[i] = conf[i]
    BY DEF CooldownsOwned
  <2>1. signature = conf /\ ready[i] # 0
    BY DEF IInv, Settled
  <2>2. QED
    BY <2>1 DEF Owned
<1>4. QED
  BY <1>1, <1>2, <1>3, FailoverInvariance, PTL DEF Spec, ResetCompletes

=============================================================================
