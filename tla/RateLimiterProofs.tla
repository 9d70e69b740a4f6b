-------------------------- MODULE RateLimiterProofs --------------------------
(***************************************************************************)
(* Theorems about RateLimiter, for any number of callers, any interval and *)
(* any bounds.                                                             *)
(***************************************************************************)
EXTENDS RateLimiter, FiniteSetTheorems, TLAPS

\* The table is ahead of every slot it has given away.
TableAhead == \A i \in 1 .. Len(slots) : slots[i] + Interval <= nextAllowed

\* A caller's clock reading is old, its slot not before it, and it sleeps at least
\* until its slot.
CallersPatient ==
  \A c \in Caller :
    /\ pc[c] \in {"reserve", "reserved", "asleep"} => stamp[c] <= now
    /\ pc[c] = "reserved" => stamp[c] <= slot[c]
    /\ pc[c] = "asleep" => slot[c] <= wakeAt[c]

IInv == TypeOK /\ TableAhead /\ SlotsSpaced /\ CallersPatient /\ NeverEarly

\* An empty table satisfies the inductive invariant.
LEMMA InitIInv == Init => IInv
  BY DEF Init, IInv, TypeOK, PC, TableAhead, SlotsSpaced, CallersPatient, NeverEarly

\* A reservation lies an interval after the ones before it, however old the clock
\* reading it is made with.
LEMMA ReserveKeepsIInv ==
  ASSUME IInv, NEW c \in Caller, Reserve(c)
  PROVE  IInv'
<1> USE LimiterAssumption DEF IInv, Reserve, Goto
<1> DEFINE s == Later(stamp[c], nextAllowed)
<1>1. s \in Nat /\ nextAllowed <= s /\ stamp[c] <= s
  BY DEF TypeOK, Later
<1>2. /\ slots' = Append(slots, s) /\ slots \in Seq(Nat)
      /\ nextAllowed' = s + Interval /\ nextAllowed \in Nat
  BY DEF NextSlot, TypeOK
<1>3. /\ Len(slots') = Len(slots) + 1
      /\ slots'[Len(slots) + 1] = s
      /\ \A i \in 1 .. Len(slots) : slots'[i] = slots[i] /\ slots[i] \in Nat
  BY <1>1, <1>2
<1>4. TypeOK'
  BY <1>1, <1>2 DEF TypeOK, PC, NextSlot
<1>5. TableAhead'
  BY <1>1, <1>2, <1>3 DEF TableAhead
<1>6. SlotsSpaced'
  <2>1. SUFFICES ASSUME NEW i \in 1 .. Len(slots'), NEW j \in 1 .. Len(slots'), i < j
                 PROVE  slots'[i] + Interval <= slots'[j]
    BY DEF SlotsSpaced
  <2>2. Len(slots) \in Nat /\ i \in 1 .. Len(slots)
    <3>1. Len(slots) \in Nat /\ Len(slots') = Len(slots) + 1
      BY <1>2, <1>3
    <3>2. QED
      BY ONLY <3>1, <2>1
  <2>3. CASE j = Len(slots) + 1
    <3>1. slots[i] + Interval <= nextAllowed /\ slots[i] \in Nat /\ slots'[i] = slots[i]
      BY <2>2, <1>3 DEF TableAhead
    <3>2. slots'[j] = s
      BY <2>3, <1>3
    <3>3. QED
      BY ONLY <1>1, <1>2, <3>1, <3>2, LimiterAssumption, SMTT(60)
  <2>4. CASE j \in 1 .. Len(slots)
    <3>1. slots'[i] = slots[i] /\ slots'[j] = slots[j]
      BY ONLY <2>2, <2>4, <1>3
    <3>2. SlotsSpaced
      OBVIOUS
    <3>3. slots[i] + Interval <= slots[j]
      BY ONLY <3>2, <2>1, <2>2, <2>4 DEF SlotsSpaced
    <3>4. QED
      BY ONLY <3>1, <3>3
  <2>5. QED
    BY ONLY <2>1, <2>2, <2>3, <2>4, <1>3
<1>7. CallersPatient'
  BY <1>1 DEF CallersPatient, TypeOK
<1>8. NeverEarly'
  BY DEF NeverEarly
<1>9. QED
  BY <1>4, <1>5, <1>6, <1>7, <1>8

\* A caller that has slept until its time is not before its slot.
LEMMA StartKeepsIInv ==
  ASSUME IInv, NEW c \in Caller, StartCall(c)
  PROVE  IInv'
<1> USE DEF IInv, StartCall, Goto
<1> DEFINE r == [slot |-> slot[c], at |-> now]
<1>1. r \in [slot : Nat, at : Nat] /\ r.slot <= r.at
  BY DEF TypeOK, CallersPatient
<1>2. starts' = Append(starts, r) /\ starts \in Seq([slot : Nat, at : Nat])
  BY DEF TypeOK
<1>3. /\ Len(starts') = Len(starts) + 1
      /\ starts'[Len(starts) + 1] = r
      /\ \A i \in 1 .. Len(starts) : starts'[i] = starts[i]
  BY <1>1, <1>2
<1>4. TypeOK'
  BY <1>1, <1>2 DEF TypeOK, PC
<1>5. TableAhead' /\ SlotsSpaced'
  BY DEF TableAhead, SlotsSpaced
<1>6. CallersPatient'
  BY DEF CallersPatient, TypeOK
<1>7. NeverEarly'
  BY <1>1, <1>2, <1>3 DEF NeverEarly
<1>8. QED
  BY <1>4, <1>5, <1>6, <1>7

\* Steps that touch neither the slots given away nor the calls started.
LEMMA QuietKeepsIInv ==
  ASSUME IInv,
         \/ Tick
         \/ UNCHANGED vars
         \/ \E c \in Caller : Begin(c) \/ Retry(c) \/ Sleep(c) \/ EndCall(c) \/ Abandon(c)
  PROVE  IInv'
<1> USE DEF IInv, Tick, Begin, Retry, Sleep, EndCall, Abandon, Return, Goto, vars, caller
<1>1. TypeOK'
  <2>1. CASE Tick \/ UNCHANGED vars
    BY <2>1 DEF TypeOK
  <2>2. ASSUME NEW c \in Caller, Begin(c) \/ Retry(c) \/ EndCall(c) \/ Abandon(c)
        PROVE  TypeOK'
    <3>1. CASE Begin(c) \/ Retry(c)
      <4>1. /\ pc' \in [Caller -> PC] /\ stamp' \in [Caller -> Nat]
            /\ UNCHANGED <<now, nextAllowed, slot, wakeAt, slots, starts>>
        BY <3>1, ZenonT(60) DEF TypeOK, PC
      <4>2. QED
        BY ONLY <4>1, IInv DEF IInv, TypeOK
    <3>2. CASE EndCall(c) \/ Abandon(c)
      <4>1. /\ pc' \in [Caller -> PC] /\ stamp' \in [Caller -> Nat]
            /\ slot' \in [Caller -> Nat] /\ wakeAt' \in [Caller -> Nat]
            /\ UNCHANGED <<now, nextAllowed, slots, starts>>
        <5>1. CASE EndCall(c)
          BY <5>1 DEF TypeOK, PC
        <5>2. CASE Abandon(c)
          BY <5>2 DEF TypeOK, PC
        <5>3. QED
          BY ONLY <3>2, <5>1, <5>2
      <4>2. QED
        BY ONLY <4>1, IInv DEF IInv, TypeOK
    <3>3. QED
      BY <2>2, <3>1, <3>2
  <2>3. ASSUME NEW c \in Caller, Sleep(c) PROVE TypeOK'
    <3>1. now + (slot[c] - stamp[c]) \in Nat
      <4>1. pc[c] = "reserved"
        BY ONLY <2>3 DEF Sleep
      <4>2. stamp[c] <= slot[c]
        BY ONLY <4>1, IInv DEF IInv, CallersPatient
      <4>3. now \in Nat /\ stamp[c] \in Nat /\ slot[c] \in Nat
        BY ONLY IInv DEF IInv, TypeOK
      <4>4. QED
        BY ONLY <4>2, <4>3
    <3>2. QED
      BY <2>3, <3>1 DEF TypeOK, PC
  <2>4. QED
    BY <2>1, <2>2, <2>3
<1>2. UNCHANGED <<slots, starts, nextAllowed>>
  OBVIOUS
<1>3. TableAhead' /\ SlotsSpaced' /\ NeverEarly'
  BY <1>2 DEF TableAhead, SlotsSpaced, NeverEarly
<1>4. CallersPatient'
  <2>1. CASE Tick \/ UNCHANGED vars
    BY <2>1 DEF TypeOK, CallersPatient
  <2>2. ASSUME NEW c \in Caller,
               Begin(c) \/ Retry(c) \/ Sleep(c) \/ EndCall(c) \/ Abandon(c)
        PROVE  CallersPatient'
    <3>1. CASE Begin(c) \/ Retry(c)
      BY <3>1, SMTT(60) DEF TypeOK, CallersPatient
    <3>2. CASE EndCall(c) \/ Abandon(c)
      BY <3>2, SMTT(60) DEF TypeOK, CallersPatient
    <3>3. CASE Sleep(c)
      <4>1. stamp[c] <= now /\ stamp[c] <= slot[c] /\ now \in Nat /\ slot[c] \in Nat /\ stamp[c] \in Nat
        BY <3>3 DEF TypeOK, CallersPatient
      <4>2. slot[c] <= now + (slot[c] - stamp[c])
        BY ONLY <4>1
      <4>3. /\ wakeAt'[c] = now + (slot[c] - stamp[c]) /\ pc'[c] = "asleep"
            /\ \A d \in Caller \ {c} : wakeAt'[d] = wakeAt[d] /\ pc'[d] = pc[d]
            /\ UNCHANGED <<now, stamp, slot>>
        BY <3>3 DEF TypeOK
      <4>4. CallersPatient
        OBVIOUS
      <4>5. QED
        <5>1. SUFFICES ASSUME NEW d \in Caller
                       PROVE  /\ pc'[d] \in {"reserve", "reserved", "asleep"} => stamp'[d] <= now'
                              /\ pc'[d] = "reserved" => stamp'[d] <= slot'[d]
                              /\ pc'[d] = "asleep" => slot'[d] <= wakeAt'[d]
          BY ONLY <5>1 DEF CallersPatient
        <5>2. CASE d = c
          BY ONLY <5>2, <4>1, <4>2, <4>3
        <5>3. CASE d # c
          BY ONLY <5>3, <4>3, <4>4 DEF CallersPatient
        <5>4. QED
          BY ONLY <5>2, <5>3
    <3>4. QED
      BY <2>2, <3>1, <3>2, <3>3
  <2>3. QED
    BY <2>1, <2>2
<1>5. QED
  BY <1>1, <1>3, <1>4

\* The inductive invariant holds throughout.
THEOREM Invariance == Spec => []IInv
<1>1. IInv /\ [Next]_vars => IInv'
  BY ReserveKeepsIInv, StartKeepsIInv, QuietKeepsIInv DEF Next, Step
<1>2. QED
  BY InitIInv, <1>1, PTL DEF Spec

\* Every variable keeps its type: above all, no instant a caller waits for is
\* negative, although it is computed from a clock reading that is out of date.
THEOREM LimiterTyping == Spec => []TypeOK
<1>1. IInv => TypeOK
  BY DEF IInv
<1>2. QED
  BY <1>1, Invariance, PTL

\* Slots of the shared table are an interval apart for any number of processes,
\* stale clock readings and retries.
THEOREM Spacing == Spec => []SlotsSpaced
<1>1. IInv => SlotsSpaced
  BY DEF IInv
<1>2. QED
  BY <1>1, Invariance, PTL

\* A process that waits as told never starts its call before its slot.
THEOREM Patience == Spec => []NeverEarly
<1>1. IInv => NeverEarly
  BY DEF IInv
<1>2. QED
  BY <1>1, Invariance, PTL

-----------------------------------------------------------------------------
(* The rate in the long run.                                               *)

Awaiting(c) == pc[c] \in {"reserved", "asleep"}

IsSlot(t, ss) == \E k \in 1 .. Len(ss) : ss[k] = t

Started(t, ss) == \E i \in 1 .. Len(ss) : ss[i].slot = t

\* The k-th slot lies k - 1 intervals after the beginning, at least.
Ranked ==
  /\ \A k \in 1 .. Len(slots) : (k - 1) * Interval <= slots[k]
  /\ Len(slots) * Interval <= nextAllowed

\* Who waits for a slot has reserved it, alone, and has not started yet.
Reserved ==
  /\ \A c \in Caller : Awaiting(c) => IsSlot(slot[c], slots) /\ ~Started(slot[c], starts)
  /\ \A c, d \in Caller : Awaiting(c) /\ Awaiting(d) /\ c # d => slot[c] # slot[d]

\* Each call has been started in a slot of its own.
Single ==
  /\ \A i \in 1 .. Len(starts) : IsSlot(starts[i].slot, slots) /\ starts[i].at <= now
  /\ \A i, j \in 1 .. Len(starts) : i # j => starts[i].slot # starts[j].slot

Accounted == Ranked /\ Reserved /\ Single

\* A new slot is later than all others.
LEMMA ReserveAccounted ==
  ASSUME IInv, Accounted, NEW c \in Caller, Reserve(c)
  PROVE  Accounted'
<1> DEFINE s == Later(stamp[c], nextAllowed)
           n == Len(slots)
<1>1. /\ slots \in Seq(Nat) /\ n \in Nat /\ nextAllowed \in Nat /\ stamp[c] \in Nat
      /\ Interval \in Nat /\ Interval > 0
  BY LimiterAssumption DEF IInv, TypeOK
<1>2. s \in Nat /\ nextAllowed <= s
  BY <1>1 DEF Later
<1>3. /\ Len(slots') = n + 1 /\ slots'[n + 1] = s
      /\ \A k \in 1 .. n : slots'[k] = slots[k] /\ slots[k] \in Nat /\ slots[k] < s
  <2> HIDE DEF s
  <2>1. slots' = Append(slots, s)
    BY DEF Reserve, s
  <2>2. \A k \in 1 .. n : slots[k] + Interval <= nextAllowed
    BY DEF IInv, TableAhead
  <2>3. QED
    BY <1>1, <1>2, <2>1, <2>2
<1>4. /\ nextAllowed' = s + Interval /\ starts' = starts /\ now' = now
      /\ slot' = [slot EXCEPT ![c] = s] /\ pc' = [pc EXCEPT ![c] = "reserved"]
      /\ pc[c] = "reserve"
  BY DEF Reserve, Goto, NextSlot
<1>5. slot \in [Caller -> Nat] /\ pc \in [Caller -> PC]
  BY DEF IInv, TypeOK
<1> HIDE DEF s, n
<1>6. \A t : IsSlot(t, slots) => IsSlot(t, slots') /\ t # s
  BY <1>1, <1>3 DEF IsSlot, n
<1>7. IsSlot(s, slots')
  BY <1>1, <1>3 DEF IsSlot
<1>8. Ranked'
  <2>1. n * Interval <= nextAllowed /\ \A k \in 1 .. n : (k - 1) * Interval <= slots[k]
    BY DEF Accounted, Ranked, n
  <2>2. n * Interval <= s
    BY <1>1, <1>2, <2>1
  <2>3. (n + 1) * Interval <= s + Interval
    BY <1>1, <1>2, <2>2
  <2>4. ASSUME NEW k \in 1 .. n + 1 PROVE (k - 1) * Interval <= slots'[k]
    <3>1. CASE k \in 1 .. n
      BY <1>3, <2>1, <3>1
    <3>2. CASE k = n + 1
      <4>1. k - 1 = n
        BY <1>1, <3>2
      <4>2. QED
        BY <1>3, <2>2, <3>2, <4>1
    <3>3. QED
      BY <1>1, <3>1, <3>2
  <2>5. QED
    BY <1>3, <1>4, <2>3, <2>4 DEF Ranked
<1>9. \A d \in Caller : d # c => (Awaiting(d)' <=> Awaiting(d)) /\ slot'[d] = slot[d]
  BY <1>4, <1>5 DEF Awaiting
<1>10. slot'[c] = s /\ ~Awaiting(c)
  BY <1>4, <1>5 DEF Awaiting
<1>11. \A t : Started(t, starts') <=> Started(t, starts)
  BY <1>4 DEF Started
<1>12. \A t : Started(t, starts) => IsSlot(t, slots)
  BY DEF Accounted, Single, Started
<1>13. Reserved'
  <2>1. \A d \in Caller : Awaiting(d)' => IsSlot(slot'[d], slots') /\ ~Started(slot'[d], starts')
    <3> SUFFICES ASSUME NEW d \in Caller, Awaiting(d)'
                 PROVE  IsSlot(slot'[d], slots') /\ ~Started(slot'[d], starts')
      OBVIOUS
    <3>1. CASE d = c
      BY <1>6, <1>7, <1>10, <1>11, <1>12, <3>1
    <3>2. CASE d # c
      BY <1>6, <1>9, <1>11, <3>2 DEF Accounted, Reserved
    <3>3. QED
      BY <3>1, <3>2
  <2>2. \A d, e \in Caller : Awaiting(d)' /\ Awaiting(e)' /\ d # e => slot'[d] # slot'[e]
    BY <1>6, <1>9, <1>10 DEF Accounted, Reserved
  <2>3. QED
    BY <2>1, <2>2 DEF Reserved
<1>14. Single'
  BY <1>4, <1>6 DEF Accounted, Single
<1>15. QED
  BY <1>8, <1>13, <1>14 DEF Accounted

\* A call uses up the slot its caller has waited for.
LEMMA StartAccounted ==
  ASSUME IInv, Accounted, NEW c \in Caller, StartCall(c)
  PROVE  Accounted'
<1> DEFINE r == [slot |-> slot[c], at |-> now]
           n == Len(starts)
<1>1. /\ starts \in Seq([slot : Nat, at : Nat]) /\ n \in Nat
      /\ now \in Nat /\ slot \in [Caller -> Nat] /\ pc \in [Caller -> PC]
  BY DEF IInv, TypeOK
<1>2. starts' = Append(starts, r) /\ r \in [slot : Nat, at : Nat]
  BY <1>1 DEF StartCall
<1>3. /\ Len(starts') = n + 1 /\ starts'[n + 1] = r
      /\ \A i \in 1 .. n : starts'[i] = starts[i]
  <2> HIDE DEF r
  <2>1. QED
    BY <1>1, <1>2
<1>4. /\ UNCHANGED <<now, nextAllowed, slot, slots>>
      /\ pc' = [pc EXCEPT ![c] = "busy"] /\ pc[c] = "asleep"
  BY DEF StartCall, Goto
<1>5. /\ \A d \in Caller \ {c} : Awaiting(d)' <=> Awaiting(d)
      /\ Awaiting(c) /\ ~Awaiting(c)'
  BY <1>1, <1>4 DEF Awaiting
<1>6. \A t : IsSlot(t, slots') <=> IsSlot(t, slots)
  BY <1>4 DEF IsSlot
<1>7. IsSlot(slot[c], slots) /\ ~Started(slot[c], starts)
  BY <1>5 DEF Accounted, Reserved
<1>8. \A t : Started(t, starts') => Started(t, starts) \/ t = slot[c]
  BY <1>1, <1>3 DEF Started
<1>9. Ranked'
  BY <1>4 DEF Accounted, Ranked
<1>10. Reserved'
  BY <1>4, <1>5, <1>6, <1>8 DEF Accounted, Reserved
<1>11. Single'
  <2>1. \A i \in 1 .. n + 1 : IsSlot(starts'[i].slot, slots') /\ starts'[i].at <= now'
    <3> SUFFICES ASSUME NEW i \in 1 .. n + 1
                 PROVE  IsSlot(starts'[i].slot, slots') /\ starts'[i].at <= now'
      OBVIOUS
    <3>1. CASE i \in 1 .. n
      BY <1>3, <1>4, <1>6, <3>1 DEF Accounted, Single
    <3>2. CASE i = n + 1
      BY <1>1, <1>3, <1>4, <1>6, <1>7, <3>2
    <3>3. QED
      BY <1>1, <3>1, <3>2
  <2>2. \A i \in 1 .. n : starts'[i].slot # slot[c]
    BY <1>3, <1>7 DEF Started
  <2>3. \A i, j \in 1 .. n : i # j => starts'[i].slot # starts'[j].slot
    BY <1>3 DEF Accounted, Single
  <2>4. starts'[n + 1].slot = slot[c] /\ \A i \in 1 .. n + 1 : i \in 1 .. n \/ i = n + 1
    BY <1>1, <1>3
  <2>5. \A i, j \in 1 .. n + 1 : i # j => starts'[i].slot # starts'[j].slot
    BY <2>2, <2>3, <2>4
  <2>6. QED
    BY <1>3, <2>1, <2>5 DEF Single
<1>12. QED
  BY <1>9, <1>10, <1>11 DEF Accounted

\* What is known of the calls started, one by one.
LEMMA StartsTyped ==
  ASSUME TypeOK
  PROVE  /\ Len(starts) \in Nat
         /\ \A i \in 1 .. Len(starts) : starts[i].slot \in Nat /\ starts[i].at \in Nat
<1> DEFINE R == [slot : Nat, at : Nat]
<1>1. starts \in Seq(R)
  BY DEF TypeOK
<1>2. Len(starts) \in Nat /\ \A i \in 1 .. Len(starts) : starts[i] \in R
  <2> HIDE DEF R
  <2>1. QED
    BY <1>1
<1>3. QED
  BY <1>2

\* Nobody else gets hold of a slot or starts a call.
LEMMA QuietAccounted ==
  ASSUME IInv, Accounted,
         \/ Tick
         \/ UNCHANGED vars
         \/ \E c \in Caller : Begin(c) \/ Retry(c) \/ Sleep(c) \/ EndCall(c) \/ Abandon(c)
  PROVE  Accounted'
<1>1. UNCHANGED <<nextAllowed, slots, starts>> /\ now <= now'
  BY DEF IInv, TypeOK, Tick, vars, Begin, Retry, Sleep, EndCall, Abandon
<1>2. \A c \in Caller : Awaiting(c)' => Awaiting(c) /\ slot'[c] = slot[c]
  <2> USE DEF IInv, TypeOK, Awaiting
  <2>1. CASE Tick \/ UNCHANGED vars
    BY <2>1 DEF Tick, vars, caller
  <2>2. ASSUME NEW c \in Caller, Begin(c) \/ Retry(c) \/ Sleep(c)
        PROVE  \A d \in Caller : Awaiting(d)' => Awaiting(d) /\ slot'[d] = slot[d]
    BY <2>2 DEF Begin, Retry, Sleep, Goto
  <2>3. ASSUME NEW c \in Caller, EndCall(c) \/ Abandon(c)
        PROVE  \A d \in Caller : Awaiting(d)' => Awaiting(d) /\ slot'[d] = slot[d]
    BY <2>3 DEF EndCall, Abandon, Return
  <2>4. QED
    BY <2>1, <2>2, <2>3
<1>3. (\A t : IsSlot(t, slots') <=> IsSlot(t, slots)) /\ \A t : Started(t, starts') <=> Started(t, starts)
  BY <1>1 DEF IsSlot, Started
<1>4. Ranked'
  BY <1>1 DEF Accounted, Ranked
<1>5. Reserved'
  BY <1>2, <1>3 DEF Accounted, Reserved
<1>6. Single'
  <2>1. \A i \in 1 .. Len(starts) : starts[i].at <= now => starts[i].at <= now'
    <3>1. now \in Nat /\ now' \in Nat
      BY DEF IInv, TypeOK, Tick, vars, Begin, Retry, Sleep, EndCall, Abandon
    <3>2. \A i \in 1 .. Len(starts) : starts[i].at \in Nat
      BY StartsTyped DEF IInv
    <3>3. QED
      BY <1>1, <3>1, <3>2
  <2>2. QED
    BY <1>1, <1>3, <2>1 DEF Accounted, Single
<1>7. QED
  BY <1>4, <1>5, <1>6 DEF Accounted

\* Of n different positive indices one is n or more.
LEMMA SomeIndexIsLarge ==
  ASSUME NEW n \in Nat, n > 0, NEW f \in [1 .. n -> Nat \ {0}],
         \A i, j \in 1 .. n : i # j => f[i] # f[j]
  PROVE  \E i \in 1 .. n : n <= f[i]
<1>1. SUFFICES ASSUME \A i \in 1 .. n : f[i] < n PROVE FALSE
  OBVIOUS
<1>2. f \in [1 .. n -> 1 .. n - 1]
  BY <1>1
<1>3. IsFiniteSet(1 .. n) /\ Cardinality(1 .. n) = n
  <2>1. 1 \in Int /\ n \in Int /\ ~(1 > n) /\ n - 1 + 1 = n
    OBVIOUS
  <2>2. QED
    BY <2>1, FS_Interval
<1>4. IsFiniteSet(1 .. n - 1) /\ Cardinality(1 .. n - 1) < n
  <2> DEFINE m == n - 1
  <2>1. 1 \in Int /\ m \in Int /\ 0 < n /\ (1 > m \/ m - 1 + 1 < n)
    OBVIOUS
  <2> HIDE DEF m
  <2>2. IsFiniteSet(1 .. m) /\ Cardinality(1 .. m) = IF 1 > m THEN 0 ELSE m - 1 + 1
    BY <2>1, FS_Interval
  <2>3. Cardinality(1 .. m) < n
    BY <2>1, <2>2
  <2>4. QED
    BY <2>2, <2>3 DEF m
<1>5. \E x, y \in 1 .. n : x # y /\ f[x] = f[y]
  <2> DEFINE T == 1 .. n - 1
  <2>1. f \in [1 .. n -> T] /\ IsFiniteSet(T) /\ Cardinality(T) < Cardinality(1 .. n)
    BY <1>2, <1>3, <1>4
  <2> HIDE DEF T
  <2>2. QED
    BY <1>3, <2>1, FS_PigeonHole
<1>6. QED
  BY <1>5

\* More intervals take no less time.
LEMMA MoreTakeLonger ==
  ASSUME NEW a \in Int, NEW b \in Int, a <= b, NEW k \in Nat
  PROVE  a * k <= b * k
<1> DEFINE d == b - a
<1>1. d \in Nat /\ b = a + d
  OBVIOUS
<1> HIDE DEF d
<1>2. (a + d) * k = a * k + d * k
  BY <1>1
<1>3. d * k \in Nat
  BY <1>1
<1>4. QED
  BY <1>1, <1>2, <1>3

\* For any number of callers and any interval, whatever they are delayed by: by the time
\* t at most t \div Interval + 1 calls have been started.
THEOREM RateSafety == Spec => []RateBounded
<1>1. Init => Accounted
  BY LimiterAssumption DEF Init, Accounted, Ranked, Reserved, Single, Awaiting
<1>2. IInv /\ Accounted /\ [Next]_vars => Accounted'
  BY ReserveAccounted, StartAccounted, QuietAccounted DEF Next, Step
<1>3. ASSUME IInv, Accounted PROVE RateBounded
  <2> DEFINE n == Len(starts)
             f == [i \in 1 .. n |-> CHOOSE k \in 1 .. Len(slots) : slots[k] = starts[i].slot]
  <2>1. /\ n \in Nat /\ now \in Nat /\ Interval \in Nat /\ Interval > 0
        /\ Len(slots) \in Nat /\ \A k \in 1 .. Len(slots) : slots[k] \in Nat
        /\ \A i \in 1 .. n : starts[i].at \in Nat /\ starts[i].slot \in Nat
    <3>1. slots \in Seq(Nat) /\ now \in Nat
      BY <1>3 DEF IInv, TypeOK
    <3>2. n \in Nat /\ \A i \in 1 .. n : starts[i].at \in Nat /\ starts[i].slot \in Nat
      BY <1>3, StartsTyped DEF IInv
    <3>3. QED
      BY <3>1, <3>2, LimiterAssumption
  <2>2. CASE n = 0
    BY <2>1, <2>2 DEF RateBounded
  <2>3. CASE n > 0
    <3>1. \A i \in 1 .. n : f[i] \in 1 .. Len(slots) /\ slots[f[i]] = starts[i].slot
      BY <1>3 DEF Accounted, Single, IsSlot
    <3>2. \A i, j \in 1 .. n : i # j => f[i] # f[j]
      <4> HIDE DEF f
      <4>1. QED
        BY <1>3, <3>1 DEF Accounted, Single
    <3>3. f \in [1 .. n -> Nat \ {0}]
      BY <2>1, <3>1
    <3>4. PICK i \in 1 .. n : n <= f[i]
      <4> HIDE DEF f, n
      <4>1. QED
        BY <2>1, <2>3, <3>2, <3>3, SomeIndexIsLarge
    <3>5. (f[i] - 1) * Interval <= now
      <4> HIDE DEF f
      <4>1. (f[i] - 1) * Interval <= slots[f[i]]
        BY <1>3, <3>1 DEF Accounted, Ranked
      <4>2. starts[i].slot <= starts[i].at /\ starts[i].at <= now
        BY <1>3 DEF IInv, NeverEarly, Accounted, Single
      <4>3. f[i] \in Nat /\ (f[i] - 1) * Interval \in Int
        BY <2>1, <3>1
      <4>4. QED
        BY <2>1, <3>1, <4>1, <4>2, <4>3
    <3>6. (n - 1) * Interval <= (f[i] - 1) * Interval
      <4> HIDE DEF f, n
      <4>1. f[i] \in Nat
        BY <3>3
      <4>2. n - 1 \in Int /\ f[i] - 1 \in Int /\ n - 1 <= f[i] - 1
        BY <2>1, <3>4, <4>1
      <4>3. QED
        BY <2>1, <4>2, MoreTakeLonger
    <3>7. QED
      <4> HIDE DEF f
      <4>1. f[i] \in Nat
        BY <3>3
      <4>2. (f[i] - 1) * Interval \in Int /\ (n - 1) * Interval \in Int
        BY <2>1, <4>1
      <4>3. QED
        BY <2>1, <3>5, <3>6, <4>2 DEF RateBounded
  <2>4. QED
    BY <2>1, <2>2, <2>3
<1>4. QED
  BY <1>1, <1>2, <1>3, Invariance, PTL DEF Spec
=============================================================================
