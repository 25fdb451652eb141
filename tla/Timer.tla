-------------------------------- MODULE Timer --------------------------------
(***************************************************************************)
(* SmartTimer: a heap of timers behind a mutex, a cached nearest expiry    *)
(* and one thread that polls the clock, moves what is due to timeout_list_ *)
(* under the lock and runs the callbacks after releasing it.               *)
(*                                                                         *)
(* Callers are any threads, the timer thread inside a callback included.   *)
(* They read the clock before they take the lock, so a timer is inserted   *)
(* in two steps.  Time is the struct timeval that gettimeofday returns;    *)
(* the timer works on get_timestamp of it, tv_sec * 1000 + tv_usec.        *)
(***************************************************************************)
EXTENDS Integers, Sequences, FiniteSets

CONSTANTS
  Timers,       \* the calls of set_timer_after and set_timer_until
  Seconds,      \* bound: the tv_sec values the clock takes, a set of naturals
  Usecs,        \* sample of the tv_usec values the clock takes
  Durations,    \* arguments of set_timer_after, as timevals
  Points,       \* arguments of set_timer_until, as timevals
  UINT64_MAX    \* stands for no timer in nearest_expire_timestamp_

\* struct timeval
Timeval == [sec : Nat, usec : {u \in Nat : u < 1000000}]

Instants == [sec : Seconds, usec : Usecs]

\* SmartTimer::get_timestamp
Timestamp(tv) == tv.sec * 1000 + tv.usec

\* What a timeval means, in microseconds.
Micros(tv) == tv.sec * 1000000 + tv.usec

ASSUME TimersAssumption == IsFiniteSet(Timers) /\ UINT64_MAX \in Nat

ASSUME ClockAssumption ==
  /\ Seconds \subseteq Nat
  /\ Usecs \subseteq {u \in Nat : u < 1000000}
  /\ Durations \subseteq Timeval
  /\ Points \subseteq Timeval

\* No timestamp overflows its uint64_t.
ASSUME RangeAssumption ==
  /\ \A i \in Instants : /\ Timestamp(i) < UINT64_MAX
                         /\ \A d \in Durations : Timestamp(i) + Timestamp(d) < UINT64_MAX
  /\ \A p \in Points : Timestamp(p) < UINT64_MAX

VARIABLES
  clock,        \* the time of day
  stage,        \* of each timer: "idle", "computed", "heap", "timeout",
                \* "fired" or "rejected"
  stamp,        \* timestamp_ of each timer
  request,      \* history: what each caller asked for
  firedAt,      \* history: when each callback ran, in microseconds
  nearest,      \* nearest_expire_timestamp_
  timeouts,     \* timeout_list_, oldest first
  running       \* the timer thread is in run()

vars == <<clock, stage, stamp, request, firedAt, nearest, timeouts, running>>

Stages == {"idle", "computed", "heap", "timeout", "fired", "rejected"}

\* A request is the function called, the seconds of its argument and the time
\* at which the callback is due, in microseconds.
NoRequest == [api |-> "none", sec |-> 0, expiry |-> 0]

Heap == {t \in Timers : stage[t] = "heap"}

Init ==
  /\ clock \in Instants
  /\ \A i \in Instants : Micros(clock) <= Micros(i)
  /\ stage = [t \in Timers |-> "idle"]
  /\ stamp = [t \in Timers |-> 0]
  /\ request = [t \in Timers |-> NoRequest]
  /\ firedAt = [t \in Timers |-> 0]
  /\ nearest = UINT64_MAX
  /\ timeouts = <<>>
  /\ running = TRUE

-----------------------------------------------------------------------------
\* Time passes.
Tick ==
  /\ \E i \in Instants : Micros(i) > Micros(clock) /\ clock' = i
  /\ UNCHANGED <<stage, stamp, request, firedAt, nearest, timeouts, running>>

\* Mutant of SetTimerAfter: the duration is subtracted.
BugSetTimerAfterSubtracts(t, duration) ==
  /\ stage[t] = "idle"
  /\ stage' = [stage EXCEPT ![t] = "computed"]
  /\ stamp' = [stamp EXCEPT ![t] =
                 Timestamp(clock) - duration.sec * 1000 - duration.usec]
  /\ request' = [request EXCEPT ![t] =
                   [api |-> "after", sec |-> duration.sec,
                    expiry |-> Micros(clock) + Micros(duration)]]
  /\ UNCHANGED <<clock, firedAt, nearest, timeouts, running>>

\* Mutant of SetTimerAfter: tv_usec of the duration is forgotten.
BugSetTimerAfterDropsUsec(t, duration) ==
  /\ stage[t] = "idle"
  /\ stage' = [stage EXCEPT ![t] = "computed"]
  /\ stamp' = [stamp EXCEPT ![t] = Timestamp(clock) + duration.sec * 1000]
  /\ request' = [request EXCEPT ![t] =
                   [api |-> "after", sec |-> duration.sec,
                    expiry |-> Micros(clock) + Micros(duration)]]
  /\ UNCHANGED <<clock, firedAt, nearest, timeouts, running>>

\* set_timer_after up to the call of set_timer.
SetTimerAfter(t, duration) ==
  /\ stage[t] = "idle"
  /\ stage' = [stage EXCEPT ![t] = "computed"]
  /\ stamp' = [stamp EXCEPT ![t] =
                 Timestamp(clock) + duration.sec * 1000 + duration.usec]
  /\ request' = [request EXCEPT ![t] =
                   [api |-> "after", sec |-> duration.sec,
                    expiry |-> Micros(clock) + Micros(duration)]]
  /\ UNCHANGED <<clock, firedAt, nearest, timeouts, running>>

\* set_timer_until up to the call of set_timer; a time point in the past, by
\* its timestamp, is refused.
SetTimerUntil(t, point) ==
  /\ stage[t] = "idle"
  /\ stage' = [stage EXCEPT ![t] = IF Timestamp(point) < Timestamp(clock)
                                   THEN "rejected" ELSE "computed"]
  /\ stamp' = [stamp EXCEPT ![t] = Timestamp(point)]
  /\ request' = [request EXCEPT ![t] =
                   [api |-> "until", sec |-> point.sec, expiry |-> Micros(point)]]
  /\ UNCHANGED <<clock, firedAt, nearest, timeouts, running>>

\* Mutant of SetTimer: the cached expiry is not lowered.
BugSetTimerKeepsNearest(t) ==
  /\ stage[t] = "computed"
  /\ stage' = [stage EXCEPT ![t] = "heap"]
  /\ nearest' = IF Heap = {} THEN stamp[t] ELSE nearest
  /\ UNCHANGED <<clock, stamp, request, firedAt, timeouts, running>>

\* set_timer, under timer_heap_lock_.
SetTimer(t) ==
  /\ stage[t] = "computed"
  /\ stage' = [stage EXCEPT ![t] = "heap"]
  /\ nearest' = IF nearest > stamp[t] THEN stamp[t] ELSE nearest
  /\ UNCHANGED <<clock, stamp, request, firedAt, timeouts, running>>

-----------------------------------------------------------------------------
\* The timers the loop in run() pops: those whose timestamp has passed.
Due == {t \in Heap : stamp[t] < Timestamp(clock)}

\* nearest_expire_timestamp_ for what is left in the heap.
EarliestOf(heap) ==
  IF heap = {} THEN UINT64_MAX
  ELSE CHOOSE n \in {stamp[t] : t \in heap} : \A t \in heap : n <= stamp[t]

\* The orders in which a priority_queue may give out a set of timers.
PopOrders(due) ==
  {order \in [1 .. Cardinality(due) -> due] :
     \A i, j \in 1 .. Cardinality(due) :
       i < j => order[i] # order[j] /\ stamp[order[i]] <= stamp[order[j]]}

\* epoll_create or epoll_wait fails with something else than EINTR: run()
\* returns and no timer fires any more.
RunFails ==
  /\ running
  /\ timeouts = <<>>
  /\ running' = FALSE
  /\ UNCHANGED <<clock, stage, stamp, request, firedAt, nearest, timeouts>>

\* The locked part of one round of run().  When nearest is not passed the round
\* changes nothing.
Poll ==
  /\ running
  /\ timeouts = <<>>
  /\ nearest < Timestamp(clock)
  /\ timeouts' \in PopOrders(Due)
  /\ stage' = [t \in Timers |-> IF t \in Due THEN "timeout" ELSE stage[t]]
  /\ nearest' = EarliestOf(Heap \ Due)
  /\ UNCHANGED <<clock, stamp, request, firedAt, running>>

\* Mutant of RunCallback: timeout_list_ is cleared inside the loop.
BugRunCallbackClears ==
  /\ timeouts # <<>>
  /\ stage' = [stage EXCEPT ![Head(timeouts)] = "fired"]
  /\ firedAt' = [firedAt EXCEPT ![Head(timeouts)] = Micros(clock)]
  /\ timeouts' = <<>>
  /\ UNCHANGED <<clock, stamp, request, nearest, running>>

\* run() calls the callback of the next timer of timeout_list_.
RunCallback ==
  /\ timeouts # <<>>
  /\ stage' = [stage EXCEPT ![Head(timeouts)] = "fired"]
  /\ firedAt' = [firedAt EXCEPT ![Head(timeouts)] = Micros(clock)]
  /\ timeouts' = Tail(timeouts)
  /\ UNCHANGED <<clock, stamp, request, nearest, running>>

-----------------------------------------------------------------------------
Request(t) ==
  \/ \E d \in Durations : SetTimerAfter(t, d)
  \/ \E p \in Points : SetTimerUntil(t, p)
  \/ SetTimer(t)

Next == Tick \/ RunFails \/ Poll \/ RunCallback \/ \E t \in Timers : Request(t)

Spec == Init /\ [][Next]_vars

\* The timer thread wakes up every millisecond, callers finish their call and
\* time goes on to the end of the bounded clock.
FairSpec ==
  /\ Spec
  /\ WF_vars(Tick)
  /\ WF_vars(Poll)
  /\ WF_vars(RunCallback)
  /\ \A t \in Timers : WF_vars(SetTimer(t))

-----------------------------------------------------------------------------
(* Properties                                                              *)

\* The type of every variable.
TypeOK ==
  /\ clock \in Instants
  /\ stage \in [Timers -> Stages]
  /\ stamp \in [Timers -> Nat]
  /\ request \in [Timers -> [api : {"none", "after", "until"},
                              sec : Nat, expiry : Nat]]
  /\ firedAt \in [Timers -> Nat]
  /\ nearest \in Nat
  /\ timeouts \in Seq(Timers)
  /\ running \in BOOLEAN

\* nearest_expire_timestamp_ is the smallest timestamp in the heap, and
\* UINT64_MAX when the heap is empty: the poll that looks only at the cached
\* value never passes over a timer that is due, and never finds nothing to pop.
NearestIsMin ==
  /\ \A t \in Heap : nearest <= stamp[t]
  /\ nearest = UINT64_MAX \/ \E t \in Heap : nearest = stamp[t]

\* "call callback after at least expire_time_duration has passed from now" and
\* "call callback when expire_time_point has been reached": no callback runs
\* before its time.
NotEarly ==
  \A t \in Timers : stage[t] = "fired" => request[t].expiry <= firedAt[t]

\* The promise of set_timer_after holds for durations below a second, although
\* the timestamps jump back at every full second.
SubSecondNotEarly ==
  \A t \in Timers :
    stage[t] = "fired" /\ request[t].api = "after" /\ request[t].sec = 0 =>
      request[t].expiry <= firedAt[t]

ClockStopped == \A i \in Instants : Micros(i) <= Micros(clock)

\* A timer whose timestamp the clock has passed for good runs its callback,
\* whatever was inserted before, after or between the rounds of run(), unless
\* run() gives up.
DueFires ==
  \A t \in Timers :
    (t \in Due /\ ClockStopped) ~> (stage[t] = "fired" \/ ~running)

=============================================================================
