----------------------------- MODULE TimerProofs -----------------------------
(***************************************************************************)
(* Proofs about Timer, for any finite number of timers and any clock that  *)
(* keeps the timestamps below UINT64_MAX.                                  *)
(***************************************************************************)
EXTENDS Timer, FiniteSetTheorems, WellFoundedInduction, TLAPS

-----------------------------------------------------------------------------
(* The heap and its minimum                                                *)

\* A set of naturals that is not empty has a least element.
LEMMA LeastNatural ==
  ASSUME NEW N \in SUBSET Nat, N # {}
  PROVE  \E n \in N : \A m \in N : n <= m
<1> DEFINE less == OpToRel(<, Nat)
<1>1. \E n \in N : \A m \in N : <<m, n>> \notin less
  <2>1. IsWellFoundedOn(less, Nat)
    BY NatLessThanWellFounded
  <2> HIDE DEF less
  <2> QED
    BY <2>1, WFMin
<1>2. \A m, n \in Nat : m < n => <<m, n>> \in less
  BY DEF OpToRel
<1> HIDE DEF less
<1>3. PICK n \in N : \A m \in N : <<m, n>> \notin less
  BY <1>1
<1>4. ASSUME NEW m \in N PROVE n <= m
  <2>1. m \in Nat /\ n \in Nat
    OBVIOUS
  <2>2. m < n => <<m, n>> \in less
    BY <1>2, <2>1
  <2>3. ~(m < n)
    BY <1>3, <2>2
  <2> QED
    BY <2>1, <2>3
<1> QED
  BY <1>4

\* What run() stores in nearest_expire_timestamp_ after it has popped the due
\* timers: a timestamp of the heap that none is below, or UINT64_MAX.
LEMMA EarliestFacts ==
  ASSUME TypeOK, NEW heap \in SUBSET Timers
  PROVE  /\ EarliestOf(heap) \in Nat
         /\ heap = {} => EarliestOf(heap) = UINT64_MAX
         /\ heap # {} => /\ \A t \in heap : EarliestOf(heap) <= stamp[t]
                         /\ \E t \in heap : EarliestOf(heap) = stamp[t]
<1>1. CASE heap = {}
  BY <1>1, TimersAssumption DEF EarliestOf
<1>2. CASE heap # {}
  <2> DEFINE stamps == {stamp[t] : t \in heap}
  <2>1. stamps \in SUBSET Nat /\ stamps # {}
    BY <1>2 DEF TypeOK
  <2>2. \E n \in stamps : \A m \in stamps : n <= m
    <3> HIDE DEF stamps
    <3> QED
      BY <2>1, LeastNatural
  <2>3. \E n \in stamps : \A t \in heap : n <= stamp[t]
    BY <2>2
  <2>4. EarliestOf(heap) = CHOOSE n \in stamps : \A t \in heap : n <= stamp[t]
    BY <1>2 DEF EarliestOf
  <2>5. EarliestOf(heap) \in stamps /\ \A t \in heap : EarliestOf(heap) <= stamp[t]
    <3> HIDE DEF stamps
    <3> QED
      BY <2>3, <2>4
  <2> QED
    BY <1>2, <2>1, <2>5
<1> QED
  BY <1>1, <1>2

\* The due timers come off the heap each once, whatever order the priority
\* queue gives to those with the same timestamp.
LEMMA PopFacts ==
  ASSUME NEW due \in SUBSET Timers, NEW order \in PopOrders(due)
  PROVE  /\ order \in Seq(Timers)
         /\ \A i \in 1 .. Len(order) : order[i] \in due
         /\ \A i, j \in 1 .. Len(order) : order[i] = order[j] => i = j
<1> DEFINE n == Cardinality(due)
<1>1. n \in Nat
  BY TimersAssumption, FS_Subset, FS_CardinalityType
<1> HIDE DEF n
<1>2. /\ order \in [1 .. n -> due]
      /\ \A i, j \in 1 .. n : i < j => order[i] # order[j]
  BY DEF PopOrders, n
<1>3. order \in Seq(Timers) /\ Len(order) = n
  BY <1>1, <1>2
<1>4. ASSUME NEW i \in 1 .. n, NEW j \in 1 .. n, order[i] = order[j]
      PROVE  i = j
  <2>1. ~(i < j) /\ ~(j < i)
    BY <1>2, <1>4
  <2> QED
    BY <1>1, <2>1
<1> QED
  BY <1>2, <1>3, <1>4

\* get_timestamp of a timeval is a natural number, and so is what it means.
LEMMA TimestampType ==
  ASSUME NEW tv \in Timeval
  PROVE  Timestamp(tv) \in Nat /\ Micros(tv) \in Nat
BY DEF Timeval, Timestamp, Micros

\* The clock shows timevals.
LEMMA InstantType == Instants \subseteq Timeval
<1> SUFFICES ASSUME NEW i \in Instants PROVE i \in Timeval
  OBVIOUS
<1>1. Seconds \subseteq Nat /\ Usecs \subseteq {u \in Nat : u < 1000000}
  BY ClockAssumption
<1>2. i = [sec |-> i.sec, usec |-> i.usec] /\ i.sec \in Seconds /\ i.usec \in Usecs
  BY DEF Instants
<1>3. i.sec \in Nat /\ i.usec \in {u \in Nat : u < 1000000}
  BY <1>1, <1>2
<1> QED
  BY <1>2, <1>3 DEF Timeval

-----------------------------------------------------------------------------
(* The inductive invariant                                                 *)

\* timeout_list_ holds timers that have been popped and not called, each once.
TimeoutsPending ==
  /\ \A i \in 1 .. Len(timeouts) : stage[timeouts[i]] = "timeout"
  /\ \A i, j \in 1 .. Len(timeouts) : timeouts[i] = timeouts[j] => i = j

\* The request of a call of set_timer_after for less than a second.
Short(t) == request[t].api = "after" /\ request[t].sec = 0

\* Such a request differs from its timestamp by 999000 for every full second
\* that the clock showed when the caller read it, and the clock has not gone
\* back since.  Once the timer is popped its time has come.
ShortPromise(t) ==
  Short(t) =>
    /\ stage[t] \in {"computed", "heap"} =>
         \E s \in Nat : s <= clock.sec /\ request[t].expiry = stamp[t] + 999000 * s
    /\ stage[t] = "timeout" => request[t].expiry <= Micros(clock)
    /\ stage[t] = "fired" => request[t].expiry <= firedAt[t]

Promises == \A t \in Timers : ShortPromise(t)

TimerInv == TypeOK /\ NearestIsMin /\ TimeoutsPending /\ Promises

\* Nothing is set in the initial state.
LEMMA InitTimer == Init => TimerInv
<1> SUFFICES ASSUME Init PROVE TimerInv
  OBVIOUS
<1>1. TypeOK
  BY TimersAssumption DEF Init, TypeOK, Stages, NoRequest
<1>2. NearestIsMin
  BY DEF Init, NearestIsMin, Heap
<1>3. TimeoutsPending /\ Promises
  BY DEF Init, TimeoutsPending, Promises, ShortPromise, Short, NoRequest
<1> QED
  BY <1>1, <1>2, <1>3 DEF TimerInv

\* timeout_list_ is not disturbed by a step that leaves its timers alone.
LEMMA TimeoutsStay ==
  ASSUME TypeOK, TimeoutsPending, timeouts' = timeouts,
         \A u \in Timers : stage[u] = "timeout" => stage'[u] = "timeout"
  PROVE  TimeoutsPending'
<1>1. \A i \in 1 .. Len(timeouts) : timeouts[i] \in Timers
  BY DEF TypeOK
<1> QED
  BY <1>1 DEF TimeoutsPending

\* Time passes: the seconds do not go back.
LEMMA TickTimer ==
  ASSUME TimerInv, Tick
  PROVE  TimerInv'
<1>1. TypeOK /\ NearestIsMin /\ TimeoutsPending /\ Promises
  BY DEF TimerInv
<1>2. /\ clock' \in Instants /\ Micros(clock') > Micros(clock)
      /\ UNCHANGED <<stage, stamp, request, firedAt, nearest, timeouts, running>>
  BY DEF Tick
<1>3. clock \in Timeval /\ clock' \in Timeval
  BY <1>1, <1>2, InstantType DEF TypeOK
<1>4. clock.sec <= clock'.sec /\ clock.sec \in Nat /\ clock'.sec \in Nat
  BY <1>2, <1>3 DEF Timeval, Micros
<1>5. TypeOK' /\ NearestIsMin' /\ TimeoutsPending'
  BY <1>1, <1>2 DEF TypeOK, NearestIsMin, TimeoutsPending, Heap
<1>6. ASSUME NEW t \in Timers PROVE ShortPromise(t)'
  <2>1. ShortPromise(t) /\ request[t].expiry \in Nat
    BY <1>1 DEF Promises, TypeOK
  <2>2. Micros(clock) \in Nat /\ Micros(clock') \in Nat
    BY <1>3, TimestampType
  <2> QED
    BY <1>2, <1>4, <2>1, <2>2 DEF ShortPromise, Short
<1> QED
  BY <1>5, <1>6 DEF TimerInv, Promises

\* A caller computes the timestamp of its timer.
LEMMA RequestTimer ==
  ASSUME TimerInv, NEW t \in Timers,
         \/ \E d \in Durations : SetTimerAfter(t, d)
         \/ \E p \in Points : SetTimerUntil(t, p)
  PROVE  TimerInv'
<1>1. TypeOK /\ NearestIsMin /\ TimeoutsPending /\ Promises
  BY DEF TimerInv
<1>2. /\ stage[t] = "idle"
      /\ \E new \in {"computed", "rejected"} : stage' = [stage EXCEPT ![t] = new]
      /\ UNCHANGED <<clock, firedAt, nearest, timeouts, running>>
  BY DEF SetTimerAfter, SetTimerUntil
<1>3. clock \in Timeval /\ Timestamp(clock) \in Nat /\ Micros(clock) \in Nat
  BY <1>1, InstantType, TimestampType DEF TypeOK
<1> DEFINE Requests == [api : {"after", "until"}, sec : Nat, expiry : Nat]
           Computes(n, r) ==
             /\ stamp' = [stamp EXCEPT ![t] = n]
             /\ request' = [request EXCEPT ![t] = r]
             /\ r.api = "after" /\ r.sec = 0 =>
                  \E s \in Nat : s <= clock.sec /\ r.expiry = n + 999000 * s
<1>4. \E n \in Nat, r \in Requests : Computes(n, r)
  <2>1. ASSUME NEW d \in Durations, SetTimerAfter(t, d)
        PROVE  \E n \in Nat, r \in Requests : Computes(n, r)
    <3>1. d \in Timeval /\ Micros(d) \in Nat
      BY ClockAssumption, TimestampType
    <3> DEFINE n == Timestamp(clock) + d.sec * 1000 + d.usec
               r == [api |-> "after", sec |-> d.sec, expiry |-> Micros(clock) + Micros(d)]
    <3>2. n \in Nat /\ r \in Requests
      BY <1>3, <3>1 DEF Timeval
    <3>3. stamp' = [stamp EXCEPT ![t] = n] /\ request' = [request EXCEPT ![t] = r]
      BY <2>1 DEF SetTimerAfter
    <3>4. ASSUME r.sec = 0
          PROVE  clock.sec \in Nat /\ r.expiry = n + 999000 * clock.sec
      BY <1>3, <3>1, <3>4 DEF Timeval, Timestamp, Micros
    <3>5. clock.sec <= clock.sec
      BY <1>3 DEF Timeval
    <3> HIDE DEF n, r
    <3>6. Computes(n, r)
      BY <3>3, <3>4, <3>5
    <3> HIDE DEF Computes, Requests
    <3> QED
      BY <3>2, <3>6
  <2>2. ASSUME NEW p \in Points, SetTimerUntil(t, p)
        PROVE  \E n \in Nat, r \in Requests : Computes(n, r)
    <3>1. p \in Timeval /\ Timestamp(p) \in Nat /\ Micros(p) \in Nat
      BY ClockAssumption, TimestampType
    <3> DEFINE r == [api |-> "until", sec |-> p.sec, expiry |-> Micros(p)]
    <3>2. r \in Requests /\ r.api # "after"
      BY <3>1 DEF Timeval
    <3>3. stamp' = [stamp EXCEPT ![t] = Timestamp(p)] /\ request' = [request EXCEPT ![t] = r]
      BY <2>2 DEF SetTimerUntil
    <3> HIDE DEF r
    <3>4. Computes(Timestamp(p), r)
      BY <3>2, <3>3
    <3> HIDE DEF Computes, Requests
    <3> QED
      BY <3>1, <3>2, <3>4
  <2> HIDE DEF Computes, Requests
  <2> QED
    BY <2>1, <2>2
<1> HIDE DEF Computes, Requests
<1>5. PICK n \in Nat, r \in Requests : Computes(n, r)
  BY <1>4
<1> USE DEF Computes, Requests
<1>6. TypeOK'
  BY <1>1, <1>2, <1>5 DEF TypeOK, Stages
<1>7. NearestIsMin'
  <2>1. Heap' = Heap /\ t \notin Heap
    BY <1>1, <1>2 DEF Heap, TypeOK
  <2>2. \A u \in Heap : stamp'[u] = stamp[u]
    BY <1>1, <1>5, <2>1 DEF Heap, TypeOK
  <2> QED
    BY <1>1, <1>2, <2>1, <2>2 DEF NearestIsMin
<1>8. TimeoutsPending'
  <2>1. \A u \in Timers : stage[u] = "timeout" => stage'[u] = "timeout"
    BY <1>1, <1>2 DEF TypeOK
  <2> QED
    BY <1>1, <1>2, <2>1, TimeoutsStay
<1>9. ASSUME NEW u \in Timers PROVE ShortPromise(u)'
  <2>1. CASE u = t
    BY <1>1, <1>2, <1>5, <2>1 DEF ShortPromise, Short, TypeOK
  <2>2. CASE u # t
    BY <1>1, <1>2, <1>5, <2>2 DEF Promises, ShortPromise, Short, TypeOK
  <2> QED
    BY <2>1, <2>2
<1> QED
  BY <1>6, <1>7, <1>8, <1>9 DEF TimerInv, Promises

\* set_timer puts the timer into the heap and lowers the cached expiry.
LEMMA SetTimerTimer ==
  ASSUME TimerInv, NEW t \in Timers, SetTimer(t)
  PROVE  TimerInv'
<1>1. TypeOK /\ NearestIsMin /\ TimeoutsPending /\ Promises
  BY DEF TimerInv
<1>2. /\ stage[t] = "computed"
      /\ stage' = [stage EXCEPT ![t] = "heap"]
      /\ nearest' = IF nearest > stamp[t] THEN stamp[t] ELSE nearest
      /\ UNCHANGED <<clock, stamp, request, firedAt, timeouts, running>>
  BY DEF SetTimer
<1>3. TypeOK'
  BY <1>1, <1>2 DEF TypeOK, Stages
<1>4. NearestIsMin'
  <2>1. Heap' = Heap \cup {t}
    BY <1>1, <1>2 DEF Heap, TypeOK
  <2>2. stamp[t] \in Nat /\ nearest \in Nat /\ \A u \in Heap : stamp[u] \in Nat
    BY <1>1 DEF TypeOK, Heap
  <2> QED
    BY <1>1, <1>2, <2>1, <2>2 DEF NearestIsMin
<1>5. TimeoutsPending'
  <2>1. \A u \in Timers : stage[u] = "timeout" => stage'[u] = "timeout"
    BY <1>1, <1>2 DEF TypeOK
  <2> QED
    BY <1>1, <1>2, <2>1, TimeoutsStay
<1>6. Promises'
  <2> SUFFICES ASSUME NEW u \in Timers PROVE ShortPromise(u)'
    BY DEF Promises
  <2>1. ShortPromise(u)
    BY <1>1 DEF Promises
  <2>2. stage'[u] = stage[u] \/ (stage[u] = "computed" /\ stage'[u] = "heap")
    BY <1>1, <1>2 DEF TypeOK
  <2> QED
    BY <1>2, <2>1, <2>2 DEF ShortPromise, Short
<1> QED
  BY <1>3, <1>4, <1>5, <1>6 DEF TimerInv

\* The locked part of a round: the due timers leave the heap, and the time of
\* every short request among them has come.
LEMMA PollTimer ==
  ASSUME TimerInv, Poll
  PROVE  TimerInv'
<1>1. TypeOK /\ NearestIsMin /\ TimeoutsPending /\ Promises
  BY DEF TimerInv
<1>2. /\ timeouts' \in PopOrders(Due)
      /\ stage' = [t \in Timers |-> IF t \in Due THEN "timeout" ELSE stage[t]]
      /\ nearest' = EarliestOf(Heap \ Due)
      /\ timeouts = <<>>
      /\ UNCHANGED <<clock, stamp, request, firedAt, running>>
  BY DEF Poll
<1>3. Due \in SUBSET Timers /\ Heap \ Due \in SUBSET Timers
  BY DEF Due, Heap
<1>4. /\ timeouts' \in Seq(Timers)
      /\ \A i \in 1 .. Len(timeouts') : timeouts'[i] \in Due
      /\ \A i, j \in 1 .. Len(timeouts') : timeouts'[i] = timeouts'[j] => i = j
  BY <1>2, <1>3, PopFacts
<1>5. /\ nearest' \in Nat
      /\ Heap \ Due = {} => nearest' = UINT64_MAX
      /\ Heap \ Due # {} => /\ \A t \in Heap \ Due : nearest' <= stamp[t]
                            /\ \E t \in Heap \ Due : nearest' = stamp[t]
  BY <1>1, <1>2, <1>3, EarliestFacts
<1>6. TypeOK'
  BY <1>1, <1>2, <1>4, <1>5 DEF TypeOK, Stages
<1>7. NearestIsMin'
  <2>1. Heap' = Heap \ Due
    BY <1>2 DEF Heap
  <2>2. CASE Heap \ Due = {}
    BY <1>5, <2>1, <2>2 DEF NearestIsMin
  <2>3. CASE Heap \ Due # {}
    <3>1. PICK t \in Heap \ Due : nearest' = stamp[t]
      BY <1>5, <2>3
    <3>2. t \in Heap' /\ nearest' = stamp'[t]
      BY <1>2, <2>1, <3>1
    <3>3. \A u \in Heap' : nearest' <= stamp'[u]
      BY <1>2, <1>5, <2>1, <2>3
    <3> QED
      BY <3>2, <3>3 DEF NearestIsMin
  <2> QED
    BY <2>2, <2>3
<1>8. TimeoutsPending'
  BY <1>2, <1>3, <1>4 DEF TimeoutsPending
<1>9. ASSUME NEW t \in Timers PROVE ShortPromise(t)'
  <2>1. ShortPromise(t)
    BY <1>1 DEF Promises
  <2>2. CASE t \in Due
    <3> SUFFICES ASSUME Short(t) PROVE request[t].expiry <= Micros(clock)
      BY <1>2, <2>2 DEF ShortPromise, Short
    <3>1. stage[t] = "heap" /\ stamp[t] < Timestamp(clock)
      BY <2>2 DEF Due, Heap
    <3>2. PICK s \in Nat : s <= clock.sec /\ request[t].expiry = stamp[t] + 999000 * s
      BY <2>1, <3>1 DEF ShortPromise
    <3>3. clock \in Timeval /\ stamp[t] \in Nat
      BY <1>1, InstantType DEF TypeOK
    <3> QED
      BY <3>1, <3>2, <3>3 DEF Timeval, Timestamp, Micros
  <2>3. CASE t \notin Due
    BY <1>2, <2>1, <2>3 DEF ShortPromise, Short
  <2> QED
    BY <2>2, <2>3
<1> QED
  BY <1>6, <1>7, <1>8, <1>9 DEF TimerInv, Promises

\* run() calls the callback of the head of timeout_list_.
LEMMA CallbackTimer ==
  ASSUME TimerInv, RunCallback
  PROVE  TimerInv'
<1>1. TypeOK /\ NearestIsMin /\ TimeoutsPending /\ Promises
  BY DEF TimerInv
<1>2. PICK h \in Timers : h = Head(timeouts) /\ h = timeouts[1] /\ stage[h] = "timeout"
  BY <1>1 DEF RunCallback, TypeOK, TimeoutsPending
<1>3. /\ timeouts # <<>>
      /\ stage' = [stage EXCEPT ![h] = "fired"]
      /\ firedAt' = [firedAt EXCEPT ![h] = Micros(clock)]
      /\ timeouts' = Tail(timeouts)
      /\ UNCHANGED <<clock, stamp, request, nearest, running>>
  BY <1>2 DEF RunCallback
<1>4. Micros(clock) \in Nat
  BY <1>1, InstantType, TimestampType DEF TypeOK
<1>5. /\ timeouts' \in Seq(Timers)
      /\ Len(timeouts') = Len(timeouts) - 1
      /\ Len(timeouts) \in Nat \ {0}
      /\ \A i \in 1 .. Len(timeouts') : timeouts'[i] = timeouts[i + 1]
  BY <1>1, <1>3 DEF TypeOK
<1>6. TypeOK'
  BY <1>1, <1>2, <1>3, <1>4, <1>5 DEF TypeOK, Stages
<1>7. NearestIsMin'
  <2>1. Heap' = Heap
    BY <1>1, <1>2, <1>3 DEF Heap, TypeOK
  <2> QED
    BY <1>1, <1>3, <2>1 DEF NearestIsMin
<1>8. TimeoutsPending'
  <2>1. \A i \in 1 .. Len(timeouts') : i + 1 \in 1 .. Len(timeouts) /\ i + 1 # 1
    BY <1>5
  <2>2. \A i \in 1 .. Len(timeouts') : timeouts'[i] # h /\ timeouts'[i] \in Timers
    <3> TAKE i \in 1 .. Len(timeouts')
    <3>1. 1 \in 1 .. Len(timeouts) /\ i + 1 \in 1 .. Len(timeouts) /\ i + 1 # 1
      BY <1>5, <2>1
    <3>2. timeouts[i + 1] # timeouts[1]
      BY <1>1, <3>1 DEF TimeoutsPending
    <3>3. timeouts[i + 1] \in Timers
      BY <1>1, <3>1 DEF TypeOK
    <3> QED
      BY <1>2, <1>5, <3>2, <3>3
  <2>3. \A i \in 1 .. Len(timeouts') : stage'[timeouts'[i]] = "timeout"
    BY <1>1, <1>3, <1>5, <2>1, <2>2 DEF TimeoutsPending, TypeOK
  <2>4. ASSUME NEW i \in 1 .. Len(timeouts'), NEW j \in 1 .. Len(timeouts'),
               timeouts'[i] = timeouts'[j]
        PROVE  i = j
    <3>1. i + 1 = j + 1
      BY <1>1, <1>5, <2>1, <2>4 DEF TimeoutsPending
    <3> QED
      BY <3>1
  <2> QED
    BY <2>3, <2>4 DEF TimeoutsPending
<1>9. Promises'
  <2> SUFFICES ASSUME NEW t \in Timers PROVE ShortPromise(t)'
    BY DEF Promises
  <2>1. ShortPromise(t)
    BY <1>1 DEF Promises
  <2>2. CASE t = h
    BY <1>1, <1>2, <1>3, <2>1, <2>2 DEF ShortPromise, Short, TypeOK
  <2>3. CASE t # h
    BY <1>1, <1>3, <2>1, <2>3 DEF ShortPromise, Short, TypeOK
  <2> QED
    BY <2>2, <2>3
<1> QED
  BY <1>6, <1>7, <1>8, <1>9 DEF TimerInv

\* Every step of the timer keeps the inductive invariant.
LEMMA NextTimer == TimerInv /\ [Next]_vars => TimerInv'
<1> SUFFICES ASSUME TimerInv, [Next]_vars PROVE TimerInv'
  OBVIOUS
<1>1. ASSUME UNCHANGED <<clock, stage, stamp, request, firedAt, nearest, timeouts>>,
             running' \in BOOLEAN
      PROVE  TimerInv'
  BY <1>1 DEF TimerInv, TypeOK, NearestIsMin, Heap, TimeoutsPending, Promises,
              ShortPromise, Short
<1>2. CASE UNCHANGED vars
  <2>1. running' \in BOOLEAN
    BY <1>2 DEF vars, TimerInv, TypeOK
  <2> QED
    BY <1>1, <1>2, <2>1 DEF vars
<1>3. CASE RunFails
  <2>1. running' \in BOOLEAN
    BY <1>3 DEF RunFails
  <2> QED
    BY <1>1, <1>3, <2>1 DEF RunFails
<1> QED
  BY <1>2, <1>3, TickTimer, PollTimer, CallbackTimer, RequestTimer, SetTimerTimer
     DEF Next, Request

-----------------------------------------------------------------------------
(* Theorems                                                                *)

\* Type correctness of the timer.
THEOREM TimerTypeCorrect == Spec => []TypeOK
<1>1. TimerInv => TypeOK
  BY DEF TimerInv
<1> QED
  BY <1>1, InitTimer, NextTimer, PTL DEF Spec

\* The cached nearest expiry is the minimum of the heap after every insertion
\* and every round of run(): no timer that is due is passed over.
THEOREM NearestTheorem == Spec => []NearestIsMin
<1>1. TimerInv => NearestIsMin
  BY DEF TimerInv
<1> QED
  BY <1>1, InitTimer, NextTimer, PTL DEF Spec

\* set_timer_after never calls back early for a duration below a second, at
\* whatever microsecond it is called and however often the timestamps have
\* jumped back in between.
THEOREM SubSecondTheorem == Spec => []SubSecondNotEarly
<1>1. TimerInv => SubSecondNotEarly
  BY DEF TimerInv, Promises, ShortPromise, Short, SubSecondNotEarly
<1> QED
  BY <1>1, InitTimer, NextTimer, PTL DEF Spec

=============================================================================
