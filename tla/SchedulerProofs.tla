--------------------------- MODULE SchedulerProofs ---------------------------
(***************************************************************************)
(* Proofs about Scheduler, for any number of workers and coroutines and    *)
(* any queue length, batch size and number of suspensions.                 *)
(***************************************************************************)
EXTENDS Scheduler, SequenceTheorems, TLAPS

-----------------------------------------------------------------------------
(* Queues as sequences without repetition                                  *)

\* Appending to a queue what it does not hold (BoundedQueue::push,
\* list::push_back) adds that element and repeats none.
LEMMA AppendOnce ==
  ASSUME NEW S, NEW s \in Seq(S), NEW e \in S, e \notin Range(s), IsInjective(s)
  PROVE  /\ Append(s, e) \in Seq(S)
         /\ IsInjective(Append(s, e))
         /\ Range(Append(s, e)) = Range(s) \cup {e}
<1> DEFINE a == Append(s, e)
<1>1. /\ a \in Seq(S)
      /\ DOMAIN a = 1 .. Len(s) + 1
      /\ \A i \in 1 .. Len(s) : a[i] = s[i]
      /\ a[Len(s) + 1] = e
      /\ DOMAIN s = 1 .. Len(s)
      /\ Len(s) \in Nat
  BY AppendProperties, LenProperties
<1>2. \A i \in DOMAIN s : s[i] # e
  BY DEF Range
<1> HIDE DEF a
<1>3. IsInjective(a)
  BY <1>1, <1>2 DEF IsInjective
<1>4. Range(a) = Range(s) \cup {e}
  BY <1>1 DEF Range
<1> QED
  BY <1>1, <1>3, <1>4 DEF a

\* Popping the front of a queue takes exactly that element out.
LEMMA TailWithoutHead ==
  ASSUME NEW S, NEW s \in Seq(S), s # <<>>, IsInjective(s)
  PROVE  /\ Tail(s) \in Seq(S)
         /\ IsInjective(Tail(s))
         /\ Head(s) \in Range(s)
         /\ Range(Tail(s)) = Range(s) \ {Head(s)}
<1> DEFINE t == Tail(s)
<1>1. /\ t \in Seq(S)
      /\ DOMAIN s = 1 .. Len(s)
      /\ DOMAIN t = 1 .. Len(s) - 1
      /\ Len(s) \in Nat \ {0}
      /\ \A i \in 1 .. Len(s) - 1 : t[i] = s[i + 1]
      /\ Head(s) = s[1]
  BY HeadTailProperties, LenProperties, EmptySeq
<1> HIDE DEF t
<1>2. IsInjective(t)
  <2> SUFFICES ASSUME NEW i \in 1 .. Len(s) - 1, NEW j \in 1 .. Len(s) - 1, t[i] = t[j]
               PROVE  i = j
    BY <1>1 DEF IsInjective
  <2>1. i + 1 \in DOMAIN s /\ j + 1 \in DOMAIN s /\ s[i + 1] = s[j + 1]
    BY <1>1
  <2>2. i + 1 = j + 1
    BY <2>1 DEF IsInjective
  <2> QED
    BY <2>2
<1>3. Head(s) \in Range(s)
  BY <1>1 DEF Range
<1>4. ASSUME NEW x \in Range(t)
      PROVE  x \in Range(s) \ {Head(s)}
  <2>1. PICK i \in 1 .. Len(s) - 1 : x = s[i + 1]
    BY <1>1, <1>4 DEF Range
  <2>2. i + 1 \in DOMAIN s /\ 1 \in DOMAIN s /\ i + 1 # 1
    BY <1>1
  <2> QED
    BY <1>1, <2>1, <2>2 DEF Range, IsInjective
<1>5. ASSUME NEW x \in Range(s) \ {Head(s)}
      PROVE  x \in Range(t)
  <2>1. PICK i \in 1 .. Len(s) : x = s[i]
    BY <1>1 DEF Range
  <2>2. i - 1 \in DOMAIN t /\ t[i - 1] = x
    BY <1>1, <2>1
  <2> QED
    BY <2>2 DEF Range
<1> QED
  BY <1>1, <1>2, <1>3, <1>4, <1>5 DEF t

\* A stretch of a queue holds what stands between its bounds, once.
LEMMA Stretch ==
  ASSUME NEW S, NEW s \in Seq(S), IsInjective(s),
         NEW m \in Nat \ {0}, NEW n \in Nat, n <= Len(s)
  PROVE  /\ SubSeq(s, m, n) \in Seq(S)
         /\ IsInjective(SubSeq(s, m, n))
         /\ Range(SubSeq(s, m, n)) = {s[i] : i \in m .. n}
<1> DEFINE t == SubSeq(s, m, n)
           k == IF m <= n THEN n - m + 1 ELSE 0
<1>1. DOMAIN s = 1 .. Len(s) /\ Len(s) \in Nat /\ \A i \in m .. n : i \in 1 .. Len(s)
  BY LenProperties
<1>2. \A i \in m .. n : s[i] \in S
  BY <1>1, ElementOfSeq
<1>3. /\ t \in Seq(S)
      /\ Len(t) = k
      /\ \A i \in 1 .. n - m + 1 : t[i] = s[m + i - 1]
  <2>1. m \in Int /\ n \in Int
    OBVIOUS
  <2> QED
    BY <1>2, <2>1, SubSeqProperties
<1>4. DOMAIN t = 1 .. k
  BY <1>3, LenProperties
<1> HIDE DEF t
<1>5. k \in Nat /\ \A i \in 1 .. k : m + i - 1 \in m .. n /\ t[i] = s[m + i - 1]
  BY <1>3
<1> HIDE DEF k
<1>6. IsInjective(t)
  <2> SUFFICES ASSUME NEW i \in 1 .. k, NEW j \in 1 .. k, t[i] = t[j]
               PROVE  i = j
    BY <1>4 DEF IsInjective
  <2>1. m + i - 1 = m + j - 1
    BY <1>1, <1>5 DEF IsInjective
  <2> QED
    BY <2>1, <1>5
<1>7. ASSUME NEW x \in Range(t)
      PROVE  x \in {s[i] : i \in m .. n}
  BY <1>4, <1>5 DEF Range
<1>8. ASSUME NEW i \in m .. n
      PROVE  s[i] \in Range(t)
  <2>1. i - m + 1 \in 1 .. k /\ m + (i - m + 1) - 1 = i
    BY DEF k
  <2>2. t[i - m + 1] = s[i]
    BY <1>5, <2>1
  <2> QED
    BY <1>4, <2>1, <2>2 DEF Range
<1> QED
  BY <1>3, <1>6, <1>7, <1>8 DEF t

\* Taking a batch of n off the front of a queue: the head, what follows it up to
\* the k-th, and the rest beyond the n-th hold no element in common.
LEMMA SplitOff ==
  ASSUME NEW S, NEW s \in Seq(S), IsInjective(s),
         NEW n \in 1 .. Len(s), NEW k \in 1 .. n
  PROVE  LET front == SubSeq(s, 2, k)
             rest == SubSeq(s, n + 1, Len(s))
         IN  /\ front \in Seq(S) /\ IsInjective(front)
             /\ rest \in Seq(S) /\ IsInjective(rest)
             /\ Head(s) \in S
             /\ Head(s) \in Range(s)
             /\ Head(s) \notin Range(front) \cup Range(rest)
             /\ Range(front) \cup Range(rest) \subseteq Range(s)
             /\ Range(front) \cap Range(rest) = {}
<1> DEFINE front == SubSeq(s, 2, k)
           rest == SubSeq(s, n + 1, Len(s))
<1>1. Len(s) \in Nat /\ n \in Nat /\ k \in Nat /\ n <= Len(s) /\ k <= n /\ 1 <= k
  BY LenProperties
<1>2. /\ front \in Seq(S) /\ IsInjective(front)
      /\ Range(front) = {s[i] : i \in 2 .. k}
  BY <1>1, Stretch
<1>3. /\ rest \in Seq(S) /\ IsInjective(rest)
      /\ Range(rest) = {s[i] : i \in n + 1 .. Len(s)}
  BY <1>1, Stretch
<1>4. DOMAIN s = 1 .. Len(s) /\ Head(s) = s[1] /\ s[1] \in S /\ s[1] \in Range(s)
  BY <1>1, LenProperties, ElementOfSeq DEF Range
<1>5. \A i, j \in 1 .. Len(s) : s[i] = s[j] => i = j
  BY <1>4 DEF IsInjective
<1> HIDE DEF front, rest
<1>6. ASSUME NEW x \in Range(front)
      PROVE  x \in Range(s) /\ x # s[1] /\ x \notin Range(rest)
  <2>1. PICK i \in 2 .. k : x = s[i]
    BY <1>2
  <2>2. i \in 1 .. Len(s) /\ 1 \in 1 .. Len(s) /\ i # 1
    BY <1>1
  <2>3. \A j \in n + 1 .. Len(s) : j \in 1 .. Len(s) /\ i # j
    BY <1>1
  <2> QED
    BY <1>3, <1>4, <1>5, <2>1, <2>2, <2>3 DEF Range
<1>7. ASSUME NEW x \in Range(rest)
      PROVE  x \in Range(s) /\ x # s[1]
  <2>1. PICK i \in n + 1 .. Len(s) : x = s[i]
    BY <1>3
  <2>2. i \in 1 .. Len(s) /\ 1 \in 1 .. Len(s) /\ i # 1
    BY <1>1
  <2> QED
    BY <1>4, <1>5, <2>1, <2>2 DEF Range
<1> QED
  BY <1>2, <1>3, <1>4, <1>6, <1>7 DEF front, rest

-----------------------------------------------------------------------------
(* What the queue operations do to the sets of coroutines they hold        *)

\* SmartRuntime::push_task of a coroutine that is not in the list.
LEMMA RuntimePushSets ==
  ASSUME TypeOK, Exclusive, NEW c \in Coros, c \notin Listed,
         taskList' = Append(taskList, c)
  PROVE  /\ taskList' \in Seq(Coros)
         /\ IsInjective(taskList')
         /\ Listed' = Listed \cup {c}
<1>1. taskList \in Seq(Coros) /\ IsInjective(taskList) /\ c \notin Range(taskList)
  BY DEF TypeOK, Exclusive, Listed
<1> QED
  BY <1>1, AppendOnce DEF Listed

\* SmartThread::push_task: the coroutine is then in the worker's queue or in
\* the runtime's list, and nothing else has moved.
LEMMA ThreadPushSets ==
  ASSUME TypeOK, Exclusive, NEW w \in Workers, NEW c \in Coros, NEW pos,
         c \notin Listed, c \notin Queued(w), ThreadPush(w, c, pos)
  PROVE  /\ taskList' \in Seq(Coros)
         /\ queue' \in [Workers -> Seq(Coros)]
         /\ IsInjective(taskList')
         /\ \A v \in Workers : IsInjective(queue'[v])
         /\ \/ /\ Listed' = Listed
               /\ Queued(w)' = Queued(w) \cup {c}
            \/ /\ Listed' = Listed \cup {c}
               /\ Queued(w)' = Queued(w)
         /\ \A v \in Workers \ {w} : Queued(v)' = Queued(v)
<1>1. CASE Len(queue[w]) < QueueLength
  <2>1. taskList' = taskList /\ queue' = [queue EXCEPT ![w] = Append(@, c)]
    BY <1>1, ConstantsAssumption DEF ThreadPush, TypeOK
  <2>2. queue[w] \in Seq(Coros) /\ IsInjective(queue[w]) /\ c \notin Range(queue[w])
    BY DEF TypeOK, Exclusive, Queued
  <2>3. /\ Append(queue[w], c) \in Seq(Coros)
        /\ IsInjective(Append(queue[w], c))
        /\ Range(Append(queue[w], c)) = Range(queue[w]) \cup {c}
    BY <2>2, AppendOnce
  <2> QED
    BY <2>1, <2>3 DEF TypeOK, Exclusive, Listed, Queued
<1>2. CASE ~(Len(queue[w]) < QueueLength)
  <2>1. taskList' = Append(taskList, c) /\ queue' = queue
    BY <1>2 DEF ThreadPush, RuntimePush
  <2> QED
    BY <2>1, RuntimePushSets DEF TypeOK, Exclusive, Queued
<1> QED
  BY <1>1, <1>2

\* SmartThread::get_task: the coroutine it returns leaves the worker's queue or
\* the runtime's list, others may move from the list to the queue.
LEMMA GetTaskSets ==
  ASSUME TypeOK, Exclusive, NEW w \in Workers, TaskAvailable(w), GetTask(w)
  PROVE  /\ taskList' \in Seq(Coros)
         /\ queue' \in [Workers -> Seq(Coros)]
         /\ IsInjective(taskList')
         /\ \A v \in Workers : IsInjective(queue'[v])
         /\ NextTask(w) \in Coros
         /\ NextTask(w) \in Listed \cup Queued(w)
         /\ NextTask(w) \notin Listed' \cup Queued(w)'
         /\ Listed' \subseteq Listed
         /\ Queued(w)' \subseteq Listed \cup Queued(w)
         /\ Queued(w)' \cap Listed' = {}
         /\ \A v \in Workers \ {w} : Queued(v)' = Queued(v)
<1> USE DEF Listed, Queued
<1>1. /\ queue[w] \in Seq(Coros) /\ IsInjective(queue[w])
      /\ taskList \in Seq(Coros) /\ IsInjective(taskList)
      /\ queue \in [Workers -> Seq(Coros)]
      /\ \A v \in Workers : IsInjective(queue[v])
  BY DEF TypeOK, Exclusive
<1>4. Queued(w) \cap Listed = {}
  <2>1. Queued(w) \subseteq Coros
    BY <1>1, RangeOfSeq
  <2> QED
    BY <2>1 DEF Exclusive, Alone
<1>2. CASE queue[w] # <<>>
  <2>1. /\ queue' = [queue EXCEPT ![w] = Tail(@)]
        /\ taskList' = taskList
        /\ NextTask(w) = Head(queue[w])
    BY <1>2 DEF GetTask, NextTask
  <2>2. /\ Tail(queue[w]) \in Seq(Coros)
        /\ IsInjective(Tail(queue[w]))
        /\ Head(queue[w]) \in Range(queue[w])
        /\ Range(Tail(queue[w])) = Range(queue[w]) \ {Head(queue[w])}
        /\ Head(queue[w]) \in Coros
    BY <1>1, <1>2, TailWithoutHead, HeadTailProperties
  <2> QED
    BY <1>1, <1>4, <2>1, <2>2
<1>3. CASE queue[w] = <<>>
  <2> DEFINE n == BatchCount
             k == Least(n, QueueLength)
             front == SubSeq(taskList, 2, k)
             rest == SubSeq(taskList, n + 1, Len(taskList))
  <2>1. /\ queue' = [queue EXCEPT ![w] = front]
        /\ taskList' = rest
        /\ NextTask(w) = Head(taskList)
    BY <1>3 DEF GetTask, NextTask
  <2>2. /\ Len(taskList) \in Nat
        /\ n \in 1 .. Len(taskList)
        /\ k \in 1 .. n
    BY <1>1, <1>3, ConstantsAssumption, LenProperties
       DEF TaskAvailable, BatchCount, Least
  <2> HIDE DEF n, k
  <2>3. /\ front \in Seq(Coros) /\ IsInjective(front)
        /\ rest \in Seq(Coros) /\ IsInjective(rest)
        /\ Head(taskList) \in Coros
        /\ Head(taskList) \in Range(taskList)
        /\ Head(taskList) \notin Range(front) \cup Range(rest)
        /\ Range(front) \cup Range(rest) \subseteq Range(taskList)
        /\ Range(front) \cap Range(rest) = {}
    BY <1>1, <2>2, SplitOff
  <2> HIDE DEF front, rest
  <2> QED
    BY <1>1, <1>4, <2>1, <2>3
<1> QED
  BY <1>2, <1>3

-----------------------------------------------------------------------------
(* The inductive invariant                                                 *)

\* What ties the position of a worker and its delayed callback to the contexts:
\* a function runs as a coroutine, a worker that has not left
\* wait_on_task_list is on its own stack, and a pending callback names a
\* coroutine that has left through yield() or whose function has returned.
Booked(w) ==
  /\ at[w] = "fn" => current[w] \in Coros
  /\ at[w] \in {"init", "waiting"} => current[w] = Main
  /\ \/ delay[w].fn = "nullptr" /\ delay[w].args = NoCoro
     \/ /\ delay[w].fn \in {"add_back_to_queue", "enable_epoll"}
        /\ delay[w].args \in Coros
        /\ ctx[delay[w].args] = "yield"
     \/ /\ delay[w].fn = "destroy_coro"
        /\ delay[w].args \in Coros
        /\ ctx[delay[w].args] = "finished"

Bookkeeping == \A w \in Workers : Booked(w)

SafetyInv == TypeOK /\ Bookkeeping /\ Exclusive /\ ResumableIsSaved /\ StackAlive

\* The initial state has empty queues and idle workers.
LEMMA InitSafety == Init => SafetyInv
<1> SUFFICES ASSUME Init PROVE SafetyInv
  OBVIOUS
<1>1. TypeOK
  BY ConstantsAssumption DEF Init, TypeOK, NoDelay, Callbacks, Positions, Contexts
<1>2. /\ Listed = {} /\ parked = {}
      /\ \A w \in Workers : /\ Queued(w) = {} /\ delay[w].args = NoCoro
                            /\ current[w] = Main /\ at[w] = "init"
                            /\ IsInjective(queue[w])
      /\ IsInjective(taskList)
  BY ConstantsAssumption
     DEF Init, Listed, Queued, NoDelay, Range, IsInjective
<1>3. Bookkeeping
  BY <1>2 DEF Init, NoDelay, Bookkeeping, Booked
<1>4. Exclusive
  BY <1>2, ConstantsAssumption DEF Exclusive, Alone
<1>5. ResumableIsSaved /\ StackAlive
  BY <1>2 DEF ResumableIsSaved, StackAlive, InQueue
<1> QED
  BY <1>1, <1>3, <1>4, <1>5 DEF SafetyInv

\* notify_one changes no position but that of one waiter.
LEMMA NotifyPositions ==
  ASSUME NEW pos \in [Workers -> Positions], NotifyOne(pos)
  PROVE  /\ at' \in [Workers -> Positions]
         /\ \A v \in Workers :
              at'[v] = pos[v] \/ (pos[v] = "waiting" /\ at'[v] = "init")
BY DEF NotifyOne, Positions

\* ... and neither does a push by a worker.
LEMMA PushPositions ==
  ASSUME NEW pos \in [Workers -> Positions], NEW w, NEW c, ThreadPush(w, c, pos)
  PROVE  /\ at' \in [Workers -> Positions]
         /\ \A v \in Workers :
              at'[v] = pos[v] \/ (pos[v] = "waiting" /\ at'[v] = "init")
BY NotifyPositions DEF ThreadPush, RuntimePush

\* The coroutine on a worker runs, or has finished and lends its stack.
LEMMA CurrentContext ==
  ASSUME TypeOK, Bookkeeping, StackAlive, NEW v \in Workers, current[v] \in Coros
  PROVE  ctx[current[v]] \in {"running", "finished"}
<1>1. current[v] # Main
  BY ConstantsAssumption
<1>2. at[v] \in Positions \ {"init", "waiting"}
  BY <1>1 DEF TypeOK, Bookkeeping, Booked
<1> QED
  BY <1>1, <1>2 DEF StackAlive, Positions

\* Bringing a new coroutine into the runtime's list or a worker's queue.
LEMMA StartFromCoroSafety ==
  ASSUME SafetyInv, NEW w \in Workers, NEW c \in Coros, StartFromCoro(w, c)
  PROVE  SafetyInv'
<1> USE DEF Listed, Queued, InQueue
<1>1. /\ TypeOK /\ Bookkeeping /\ Exclusive /\ ResumableIsSaved /\ StackAlive
  BY DEF SafetyInv
<1>2. /\ ctx[c] = "unborn" /\ ctx' = [ctx EXCEPT ![c] = "fresh"]
      /\ ThreadPush(w, c, at)
      /\ UNCHANGED <<current, delay, tlsSt, parked, suspends>>
  BY DEF StartFromCoro
<1>3. /\ c \notin Listed /\ c \notin parked
      /\ \A v \in Workers : c \notin Queued(v)
  BY <1>1, <1>2 DEF ResumableIsSaved, InQueue
<1>4. \A v \in Workers : c # delay[v].args
  BY <1>1, <1>2, ConstantsAssumption DEF Bookkeeping, Booked
<1>5. \A v \in Workers : c # current[v]
  BY <1>1, <1>2, CurrentContext
<1>6. /\ at' \in [Workers -> Positions]
      /\ \A v \in Workers :
           at'[v] = at[v] \/ (at[v] = "waiting" /\ at'[v] = "init")
  BY <1>1, <1>2, PushPositions DEF TypeOK
<1>7. /\ taskList' \in Seq(Coros)
      /\ queue' \in [Workers -> Seq(Coros)]
      /\ IsInjective(taskList')
      /\ \A v \in Workers : IsInjective(queue'[v])
      /\ \/ Listed' = Listed /\ Queued(w)' = Queued(w) \cup {c}
         \/ Listed' = Listed \cup {c} /\ Queued(w)' = Queued(w)
      /\ \A v \in Workers \ {w} : Queued(v)' = Queued(v)
  BY <1>1, <1>2, <1>3, ThreadPushSets
<1>8. TypeOK'
  BY <1>1, <1>2, <1>6, <1>7 DEF TypeOK, Contexts
<1>9. Bookkeeping'
  BY <1>1, <1>2, <1>6 DEF Bookkeeping, Booked, TypeOK
<1>10. Exclusive'
  <2> SUFFICES ASSUME NEW d \in Coros PROVE Alone(d)'
    BY <1>7 DEF Exclusive
  <2>1. Alone(d)
    BY <1>1 DEF Exclusive
  <2>2. CASE d = c
    BY <1>2, <1>3, <1>4, <1>5, <1>7, <2>2 DEF Alone
  <2>3. CASE d # c
    BY <1>2, <1>6, <1>7, <2>1, <2>3 DEF Alone
  <2> QED
    BY <2>2, <2>3
<1>11. ResumableIsSaved'
  BY <1>1, <1>2, <1>7 DEF ResumableIsSaved, InQueue, TypeOK
<1>12. StackAlive'
  BY <1>1, <1>2, <1>5, <1>6 DEF StackAlive, TypeOK
<1> QED
  BY <1>8, <1>9, <1>10, <1>11, <1>12 DEF SafetyInv

\* smart_routine_start outside the workers.
LEMMA StartFromOutsideSafety ==
  ASSUME SafetyInv, NEW c \in Coros, StartFromOutside(c)
  PROVE  SafetyInv'
<1> USE DEF Listed, Queued, InQueue
<1>1. /\ TypeOK /\ Bookkeeping /\ Exclusive /\ ResumableIsSaved /\ StackAlive
  BY DEF SafetyInv
<1>2. /\ ctx[c] = "unborn" /\ ctx' = [ctx EXCEPT ![c] = "fresh"]
      /\ taskList' = Append(taskList, c)
      /\ NotifyOne(at)
      /\ UNCHANGED <<queue, current, delay, tlsSt, parked, suspends>>
  BY DEF StartFromOutside, RuntimePush
<1>3. /\ c \notin Listed /\ c \notin parked
      /\ \A v \in Workers : c \notin Queued(v)
  BY <1>1, <1>2 DEF ResumableIsSaved
<1>4. \A v \in Workers : c # delay[v].args
  BY <1>1, <1>2, ConstantsAssumption DEF Bookkeeping, Booked
<1>5. \A v \in Workers : c # current[v]
  BY <1>1, <1>2, CurrentContext
<1>6. /\ at' \in [Workers -> Positions]
      /\ \A v \in Workers :
           at'[v] = at[v] \/ (at[v] = "waiting" /\ at'[v] = "init")
  BY <1>1, <1>2, NotifyPositions DEF TypeOK
<1>7. /\ taskList' \in Seq(Coros)
      /\ IsInjective(taskList')
      /\ Listed' = Listed \cup {c}
  BY <1>1, <1>2, <1>3, RuntimePushSets
<1>8. TypeOK'
  BY <1>1, <1>2, <1>6, <1>7 DEF TypeOK, Contexts
<1>9. Bookkeeping'
  BY <1>1, <1>2, <1>6 DEF Bookkeeping, Booked, TypeOK
<1>10. Exclusive'
  <2> SUFFICES ASSUME NEW d \in Coros PROVE Alone(d)'
    BY <1>1, <1>2, <1>7 DEF Exclusive
  <2>1. Alone(d)
    BY <1>1 DEF Exclusive
  <2>2. CASE d = c
    BY <1>2, <1>3, <1>4, <1>5, <1>7, <2>2 DEF Alone
  <2>3. CASE d # c
    BY <1>2, <1>6, <1>7, <2>1, <2>3 DEF Alone
  <2> QED
    BY <2>2, <2>3
<1>11. ResumableIsSaved'
  BY <1>1, <1>2, <1>7 DEF ResumableIsSaved, TypeOK
<1>12. StackAlive'
  BY <1>1, <1>2, <1>5, <1>6 DEF StackAlive, TypeOK
<1> QED
  BY <1>8, <1>9, <1>10, <1>11, <1>12 DEF SafetyInv

\* The epoller hands a coroutine from its interest list to the runtime.
LEMMA EpollResumeSafety ==
  ASSUME SafetyInv, NEW c \in Coros, EpollResume(c)
  PROVE  SafetyInv'
<1> USE DEF Listed, Queued, InQueue
<1>1. /\ TypeOK /\ Bookkeeping /\ Exclusive /\ ResumableIsSaved /\ StackAlive
  BY DEF SafetyInv
<1>2. /\ c \in parked /\ parked' = parked \ {c}
      /\ taskList' = Append(taskList, c)
      /\ NotifyOne(at)
      /\ UNCHANGED <<queue, current, delay, ctx, tlsSt, suspends>>
  BY DEF EpollResume, RuntimePush
<1>3. Alone(c) /\ ctx[c] \in {"fresh", "yield"}
  BY <1>1, <1>2 DEF Exclusive, ResumableIsSaved
<1>4. /\ c \notin Listed
      /\ \A v \in Workers : c \notin Queued(v) /\ c # delay[v].args /\ c # current[v]
  BY <1>2, <1>3 DEF Alone
<1>5. /\ at' \in [Workers -> Positions]
      /\ \A v \in Workers :
           at'[v] = at[v] \/ (at[v] = "waiting" /\ at'[v] = "init")
  BY <1>1, <1>2, NotifyPositions DEF TypeOK
<1>6. /\ taskList' \in Seq(Coros)
      /\ IsInjective(taskList')
      /\ Listed' = Listed \cup {c}
  BY <1>1, <1>2, <1>4, RuntimePushSets
<1>7. TypeOK'
  BY <1>1, <1>2, <1>5, <1>6 DEF TypeOK
<1>8. Bookkeeping'
  BY <1>1, <1>2, <1>5 DEF Bookkeeping, Booked, TypeOK
<1>9. Exclusive'
  <2> SUFFICES ASSUME NEW d \in Coros PROVE Alone(d)'
    BY <1>1, <1>2, <1>6 DEF Exclusive
  <2>1. Alone(d)
    BY <1>1 DEF Exclusive
  <2>2. CASE d = c
    BY <1>2, <1>4, <1>6, <2>2 DEF Alone
  <2>3. CASE d # c
    BY <1>2, <1>5, <1>6, <2>1, <2>3 DEF Alone
  <2> QED
    BY <2>2, <2>3
<1>10. ResumableIsSaved'
  BY <1>1, <1>2, <1>3, <1>6 DEF ResumableIsSaved, TypeOK
<1>11. StackAlive'
  BY <1>1, <1>2, <1>5 DEF StackAlive, TypeOK
<1> QED
  BY <1>7, <1>8, <1>9, <1>10, <1>11 DEF SafetyInv

\* The steps of wait_on_task_list and the idle main_loop move no coroutine.
LEMMA WaitingSafety ==
  ASSUME SafetyInv, NEW w \in Workers,
         WaitOnTaskList(w) \/ SpuriousWakeup(w) \/ MainLoopIdle(w)
  PROVE  SafetyInv'
<1> USE DEF Listed, Queued, InQueue
<1>1. /\ TypeOK /\ Bookkeeping /\ Exclusive /\ ResumableIsSaved /\ StackAlive
  BY DEF SafetyInv
<1>2. /\ UNCHANGED <<taskList, queue, current, delay, ctx, tlsSt, parked, suspends>>
      /\ at' \in [Workers -> Positions]
      /\ \A v \in Workers :
           \/ at'[v] = at[v]
           \/ /\ at[v] \in {"init", "waiting"}
              /\ at'[v] \in {"init", "waiting", "main_loop"}
  BY <1>1 DEF WaitOnTaskList, SpuriousWakeup, MainLoopIdle, vars, TypeOK, Positions
<1>3. TypeOK'
  BY <1>1, <1>2 DEF TypeOK
<1>4. Bookkeeping'
  BY <1>1, <1>2 DEF Bookkeeping, Booked, TypeOK
<1>5. Exclusive'
  BY <1>1, <1>2 DEF Exclusive, Alone
<1>6. ResumableIsSaved'
  BY <1>1, <1>2 DEF ResumableIsSaved
<1>7. StackAlive'
  BY <1>1, <1>2 DEF StackAlive, Bookkeeping, Booked
<1> QED
  BY <1>3, <1>4, <1>5, <1>6, <1>7 DEF SafetyInv

\* After a jump the worker is back in main_loop or in the coroutine's function,
\* and its callback is cleared.
LEMMA LandingFacts ==
  ASSUME TypeOK, NEW w \in Workers, at[w] = "landed", AfterLanding(w)
  PROVE  /\ Landed(w) \in [Workers -> Positions]
         /\ \A v \in Workers \ {w} : Landed(w)[v] = at[v]
         /\ \/ Landed(w)[w] = "main_loop" /\ current[w] = Main
            \/ Landed(w)[w] = "fn" /\ current[w] \in Coros
         /\ delay' \in [Workers -> [fn : Callbacks, args : Coros \cup {NoCoro}]]
         /\ delay'[w].fn = "nullptr" /\ delay'[w].args = NoCoro
         /\ \A v \in Workers \ {w} : delay'[v] = delay[v]
         /\ tlsSt' \in [Coros -> Workers \cup {NoWorker}]
         /\ current' = current /\ suspends' = suspends
BY DEF TypeOK, AfterLanding, Landed, Positions, Callbacks, NoDelay

\* Nothing to call after the jump, or the item goes to the epoller, or the
\* finished coroutine is deleted.
LEMMA CallbackSafety ==
  ASSUME SafetyInv, NEW w \in Workers,
         NoCallback(w) \/ EnableEpoll(w) \/ DestroyCoro(w)
  PROVE  SafetyInv'
<1> USE DEF Listed, Queued, InQueue
<1>1. /\ TypeOK /\ Bookkeeping /\ Exclusive /\ ResumableIsSaved /\ StackAlive
  BY DEF SafetyInv
<1> DEFINE c == delay[w].args
<1>2. /\ ~Raced /\ at[w] = "landed" /\ at' = Landed(w) /\ AfterLanding(w)
      /\ UNCHANGED <<taskList, queue>>
      /\ \/ UNCHANGED <<ctx, parked>>
         \/ /\ delay[w].fn = "enable_epoll"
            /\ parked' = parked \cup {c}
            /\ ctx' = ctx
         \/ /\ delay[w].fn = "destroy_coro"
            /\ ctx' = [ctx EXCEPT ![c] = "freed"]
            /\ parked' = parked
  BY DEF NoCallback, EnableEpoll, DestroyCoro
<1>3. /\ at' \in [Workers -> Positions]
      /\ \A v \in Workers \ {w} : at'[v] = at[v] /\ delay'[v] = delay[v]
      /\ \/ at'[w] = "main_loop" /\ current[w] = Main
         \/ at'[w] = "fn" /\ current[w] \in Coros
      /\ delay' \in [Workers -> [fn : Callbacks, args : Coros \cup {NoCoro}]]
      /\ delay'[w].fn = "nullptr" /\ delay'[w].args = NoCoro
      /\ tlsSt' \in [Coros -> Workers \cup {NoWorker}]
      /\ current' = current /\ suspends' = suspends
  BY <1>1, <1>2, LandingFacts
<1>4. ASSUME c \in Coros
      PROVE  /\ Alone(c)
             /\ \A v \in Workers : v # w => c # delay[v].args /\ c # current[v]
             /\ c \notin Listed /\ c \notin parked
             /\ \A v \in Workers : c \notin Queued(v)
  BY <1>1, <1>2, <1>4 DEF Exclusive, Alone, Raced
<1>5. CASE UNCHANGED <<ctx, parked>>
  <2>1. TypeOK'
    BY <1>1, <1>2, <1>3, <1>5 DEF TypeOK
  <2>2. Bookkeeping'
    <3> SUFFICES ASSUME NEW v \in Workers PROVE Booked(v)'
      BY DEF Bookkeeping
    <3>1. Booked(v)
      BY <1>1 DEF Bookkeeping
    <3> QED
      BY <1>3, <1>5, <3>1, v = w \/ v # w DEF Booked
  <2>3. Exclusive'
    BY <1>1, <1>2, <1>3, <1>5, ConstantsAssumption DEF Exclusive, Alone, Raced
  <2>4. ResumableIsSaved'
    BY <1>1, <1>2, <1>5 DEF ResumableIsSaved
  <2>5. StackAlive'
    BY <1>1, <1>2, <1>3, <1>5 DEF StackAlive
  <2> QED
    BY <2>1, <2>2, <2>3, <2>4, <2>5 DEF SafetyInv
<1>6. CASE /\ delay[w].fn = "enable_epoll"
           /\ parked' = parked \cup {c}
           /\ ctx' = ctx
  <2>1. c \in Coros /\ ctx[c] = "yield"
    BY <1>1, <1>6 DEF Bookkeeping, Booked
  <2>2. c # current[w]
    BY <1>1, <1>2, <2>1, ConstantsAssumption DEF StackAlive
  <2>3. TypeOK'
    BY <1>1, <1>2, <1>3, <1>6, <2>1 DEF TypeOK
  <2>4. Bookkeeping'
    <3> SUFFICES ASSUME NEW v \in Workers PROVE Booked(v)'
      BY DEF Bookkeeping
    <3>1. Booked(v)
      BY <1>1 DEF Bookkeeping
    <3> QED
      BY <1>3, <1>6, <3>1, v = w \/ v # w DEF Booked
  <2>5. Exclusive'
    <3> SUFFICES ASSUME NEW d \in Coros PROVE Alone(d)'
      BY <1>1, <1>2 DEF Exclusive
    <3>1. Alone(d)
      BY <1>1 DEF Exclusive
    <3>2. CASE d = c
      BY <1>2, <1>3, <1>4, <1>6, <2>1, <2>2, <3>2, ConstantsAssumption DEF Alone
    <3>3. CASE d # c
      BY <1>2, <1>3, <1>6, <3>1, <3>3, ConstantsAssumption DEF Alone, Raced
    <3> QED
      BY <3>2, <3>3
  <2>6. ResumableIsSaved'
    BY <1>1, <1>2, <1>6, <2>1 DEF ResumableIsSaved
  <2>7. StackAlive'
    BY <1>1, <1>2, <1>3, <1>6 DEF StackAlive
  <2> QED
    BY <2>3, <2>4, <2>5, <2>6, <2>7 DEF SafetyInv
<1>7. CASE /\ delay[w].fn = "destroy_coro"
           /\ ctx' = [ctx EXCEPT ![c] = "freed"]
           /\ parked' = parked
  <2>1. c \in Coros /\ ctx[c] = "finished"
    BY <1>1, <1>7 DEF Bookkeeping, Booked
  <2>2. c # current[w]
    BY <1>1, <1>2, <2>1, ConstantsAssumption DEF StackAlive
  <2>3. TypeOK'
    BY <1>1, <1>2, <1>3, <1>7, <2>1 DEF TypeOK, Contexts
  <2>4. Bookkeeping'
    <3> SUFFICES ASSUME NEW v \in Workers PROVE Booked(v)'
      BY DEF Bookkeeping
    <3>1. Booked(v)
      BY <1>1 DEF Bookkeeping
    <3>2. CASE v = w
      BY <1>3, <3>1, <3>2 DEF Booked
    <3>3. CASE v # w
      BY <1>1, <1>3, <1>4, <1>7, <2>1, <3>1, <3>3 DEF Booked, TypeOK
    <3> QED
      BY <3>2, <3>3
  <2>5. Exclusive'
    <3> SUFFICES ASSUME NEW d \in Coros PROVE Alone(d)'
      BY <1>1, <1>2 DEF Exclusive
    <3>1. Alone(d)
      BY <1>1 DEF Exclusive
    <3> QED
      BY <1>2, <1>3, <1>7, <3>1, ConstantsAssumption DEF Alone, Raced
  <2>6. ResumableIsSaved'
    BY <1>1, <1>2, <1>4, <1>7, <2>1 DEF ResumableIsSaved, TypeOK
  <2>7. StackAlive'
    BY <1>1, <1>2, <1>3, <1>4, <1>7, <2>1, <2>2 DEF StackAlive, TypeOK
  <2> QED
    BY <2>3, <2>4, <2>5, <2>6, <2>7 DEF SafetyInv
<1> QED
  BY <1>2, <1>5, <1>6, <1>7

\* The coroutine that yielded goes back to a queue.
LEMMA AddBackSafety ==
  ASSUME SafetyInv, NEW w \in Workers, AddBackToQueue(w)
  PROVE  SafetyInv'
<1> USE DEF Listed, Queued, InQueue
<1>1. /\ TypeOK /\ Bookkeeping /\ Exclusive /\ ResumableIsSaved /\ StackAlive
  BY DEF SafetyInv
<1> DEFINE c == delay[w].args
<1>2. /\ ~Raced /\ at[w] = "landed" /\ AfterLanding(w)
      /\ delay[w].fn = "add_back_to_queue"
      /\ ThreadPush(w, c, Landed(w))
      /\ UNCHANGED <<ctx, parked>>
  BY DEF AddBackToQueue
<1>3. c \in Coros /\ ctx[c] = "yield"
  BY <1>1, <1>2 DEF Bookkeeping, Booked
<1>4. Alone(c)
  BY <1>1, <1>3 DEF Exclusive
<1>5. /\ c \notin Listed /\ c \notin parked
      /\ \A v \in Workers : c \notin Queued(v)
      /\ \A v \in Workers : v # w => c # delay[v].args
  BY <1>4 DEF Alone
<1>6. \A v \in Workers : c # current[v]
  BY <1>1, <1>3, CurrentContext
<1>7. /\ Landed(w) \in [Workers -> Positions]
      /\ \A v \in Workers \ {w} : Landed(w)[v] = at[v] /\ delay'[v] = delay[v]
      /\ \/ Landed(w)[w] = "main_loop" /\ current[w] = Main
         \/ Landed(w)[w] = "fn" /\ current[w] \in Coros
      /\ delay' \in [Workers -> [fn : Callbacks, args : Coros \cup {NoCoro}]]
      /\ delay'[w].fn = "nullptr" /\ delay'[w].args = NoCoro
      /\ tlsSt' \in [Coros -> Workers \cup {NoWorker}]
      /\ current' = current /\ suspends' = suspends
  BY <1>1, <1>2, LandingFacts
<1>8. /\ at' \in [Workers -> Positions]
      /\ \A v \in Workers \ {w} :
           at'[v] = at[v] \/ (at[v] = "waiting" /\ at'[v] = "init")
      /\ \/ at'[w] = "main_loop" /\ current[w] = Main
         \/ at'[w] = "fn" /\ current[w] \in Coros
  <2>1. /\ at' \in [Workers -> Positions]
        /\ \A v \in Workers :
             at'[v] = Landed(w)[v] \/ (Landed(w)[v] = "waiting" /\ at'[v] = "init")
    BY <1>2, <1>7, PushPositions
  <2> QED
    BY <1>7, <2>1
<1>9. /\ taskList' \in Seq(Coros)
      /\ queue' \in [Workers -> Seq(Coros)]
      /\ IsInjective(taskList')
      /\ \A v \in Workers : IsInjective(queue'[v])
      /\ \/ Listed' = Listed /\ Queued(w)' = Queued(w) \cup {c}
         \/ Listed' = Listed \cup {c} /\ Queued(w)' = Queued(w)
      /\ \A v \in Workers \ {w} : Queued(v)' = Queued(v)
  BY <1>1, <1>2, <1>3, <1>5, ThreadPushSets
<1>10. TypeOK'
  BY <1>1, <1>2, <1>7, <1>8, <1>9 DEF TypeOK
<1>11. Bookkeeping'
  <2> SUFFICES ASSUME NEW v \in Workers PROVE Booked(v)'
    BY DEF Bookkeeping
  <2>1. Booked(v)
    BY <1>1 DEF Bookkeeping
  <2>2. CASE v = w
    BY <1>7, <1>8, <2>2 DEF Booked
  <2>3. CASE v # w
    BY <1>2, <1>7, <1>8, <2>1, <2>3 DEF Booked
  <2> QED
    BY <2>2, <2>3
<1>12. Exclusive'
  <2> SUFFICES ASSUME NEW d \in Coros PROVE Alone(d)'
    BY <1>9 DEF Exclusive
  <2>1. Alone(d)
    BY <1>1 DEF Exclusive
  <2>2. CASE d = c
    <3>1. /\ \A v \in Workers : c # delay'[v].args /\ c # current'[v]
          /\ c \notin parked'
      BY <1>2, <1>3, <1>5, <1>6, <1>7, ConstantsAssumption
    <3> HIDE DEF c
    <3> QED
      BY <1>5, <1>9, <2>2, <3>1 DEF Alone
  <2>3. CASE d # c
    <3>1. /\ d \in Listed' <=> d \in Listed
          /\ \A v \in Workers : d \in Queued(v)' <=> d \in Queued(v)
      BY <1>9, <2>3
    <3>2. \A v \in Workers : d = delay'[v].args => d = delay[v].args
      BY <1>7, ConstantsAssumption
    <3>3. \A v \in Workers : at[v] # "foreign"
      BY <1>2 DEF Raced
    <3> HIDE DEF c
    <3> QED
      BY <1>2, <1>7, <2>1, <3>1, <3>2, <3>3 DEF Alone
  <2> QED
    BY <2>2, <2>3
<1>13. ResumableIsSaved'
  BY <1>1, <1>2, <1>3, <1>9 DEF ResumableIsSaved
<1>14. StackAlive'
  BY <1>1, <1>2, <1>7, <1>8 DEF StackAlive, TypeOK
<1> QED
  BY <1>10, <1>11, <1>12, <1>13, <1>14 DEF SafetyInv

\* The coroutine get_task returns has its context stored and is nowhere else.
LEMMA NextTaskFacts ==
  ASSUME SafetyInv, NEW w \in Workers, TaskAvailable(w), GetTask(w)
  PROVE  /\ NextTask(w) \in Coros
         /\ ctx[NextTask(w)] \in {"fresh", "yield"}
         /\ NextTask(w) \notin parked
         /\ NextTask(w) \notin Range(taskList')
         /\ \A v \in Workers : /\ NextTask(w) \notin Range(queue'[v])
                               /\ NextTask(w) # delay[v].args
                               /\ NextTask(w) # current[v]
<1> USE DEF Listed, Queued, InQueue
<1>1. /\ TypeOK /\ Bookkeeping /\ Exclusive /\ ResumableIsSaved /\ StackAlive
  BY DEF SafetyInv
<1>2. /\ NextTask(w) \in Coros
      /\ NextTask(w) \in Listed \cup Queued(w)
      /\ NextTask(w) \notin Range(taskList')
      /\ NextTask(w) \notin Range(queue'[w])
      /\ \A v \in Workers \ {w} : Range(queue'[v]) = Queued(v)
  BY <1>1, GetTaskSets
<1>3. Alone(NextTask(w)) /\ ctx[NextTask(w)] \in {"fresh", "yield"}
  BY <1>1, <1>2 DEF Exclusive, ResumableIsSaved
<1> QED
  BY <1>2, <1>3 DEF Alone

\* main_loop switches to the next task.
LEMMA MainLoopRunSafety ==
  ASSUME SafetyInv, NEW w \in Workers, MainLoopRun(w)
  PROVE  SafetyInv'
<1> USE DEF Listed, Queued, InQueue
<1>1. /\ TypeOK /\ Bookkeeping /\ Exclusive /\ ResumableIsSaved /\ StackAlive
  BY DEF SafetyInv
<1> DEFINE t == NextTask(w)
<1>2. /\ ~Raced /\ at[w] = "main_loop" /\ TaskAvailable(w) /\ GetTask(w)
      /\ UNCHANGED <<delay, tlsSt, parked, suspends>>
      /\ current' = [current EXCEPT ![w] = t]
      /\ ctx' = [ctx EXCEPT ![t] = "running"]
      /\ at' = [at EXCEPT ![w] = IF ctx[t] = "yield" THEN "fn" ELSE "landed"]
  BY DEF MainLoopRun, SwitchTo
<1>3. /\ t \in Coros
      /\ ctx[t] \in {"fresh", "yield"}
      /\ t \notin parked
      /\ t \notin Range(taskList')
      /\ \A v \in Workers : /\ t \notin Range(queue'[v])
                            /\ t # delay[v].args
                            /\ t # current[v]
  BY <1>2, NextTaskFacts
<1>4. /\ taskList' \in Seq(Coros)
      /\ queue' \in [Workers -> Seq(Coros)]
      /\ IsInjective(taskList')
      /\ \A v \in Workers : IsInjective(queue'[v])
      /\ Listed' \subseteq Listed
      /\ Queued(w)' \subseteq Listed \cup Queued(w)
      /\ Queued(w)' \cap Listed' = {}
      /\ \A v \in Workers \ {w} : Queued(v)' = Queued(v)
  BY <1>1, <1>2, GetTaskSets
<1> HIDE DEF t
<1>5. TypeOK'
  BY <1>1, <1>2, <1>3, <1>4 DEF TypeOK, Contexts, Positions
<1>6. Bookkeeping'
  <2> SUFFICES ASSUME NEW v \in Workers PROVE Booked(v)'
    BY DEF Bookkeeping
  <2>1. Booked(v)
    BY <1>1 DEF Bookkeeping
  <2> QED
    BY <1>1, <1>2, <1>3, <2>1 DEF Booked, TypeOK
<1>7. Exclusive'
  <2> SUFFICES ASSUME NEW d \in Coros PROVE Alone(d)'
    BY <1>4 DEF Exclusive
  <2>1. Alone(d)
    BY <1>1 DEF Exclusive
  <2>2. CASE d = t
    BY <1>1, <1>2, <1>3, <2>2 DEF Alone, TypeOK
  <2>3. CASE d # t
    <3>1. \A v \in Workers : d = current'[v] => d = current[v]
      BY <1>1, <1>2, <2>3 DEF TypeOK
    <3>2. \A v \in Workers : at[v] # "foreign"
      BY <1>2 DEF Raced
    <3> QED
      BY <1>2, <1>4, <2>1, <3>1, <3>2 DEF Alone
  <2> QED
    BY <2>2, <2>3
<1>8. ResumableIsSaved'
  BY <1>1, <1>2, <1>3, <1>4 DEF ResumableIsSaved, TypeOK
<1>9. StackAlive'
  BY <1>1, <1>2, <1>3 DEF StackAlive, TypeOK
<1> QED
  BY <1>5, <1>6, <1>7, <1>8, <1>9 DEF SafetyInv

\* A coroutine suspends itself and its worker goes to the next task or to
\* main_loop.
LEMMA YieldSafety ==
  ASSUME SafetyInv, NEW w \in Workers,
         NEW callback \in {"add_back_to_queue", "enable_epoll"}, Yield(w, callback)
  PROVE  SafetyInv'
<1> USE DEF Listed, Queued, InQueue
<1>1. /\ TypeOK /\ Bookkeeping /\ Exclusive /\ ResumableIsSaved /\ StackAlive
  BY DEF SafetyInv
<1> DEFINE c == current[w]
           saved == [ctx EXCEPT ![c] = "yield"]
<1>2. /\ ~Raced /\ at[w] = "fn"
      /\ suspends' = [suspends EXCEPT ![c] = @ + 1]
      /\ delay' = [delay EXCEPT ![w] = [fn |-> callback, args |-> c]]
      /\ UNCHANGED <<tlsSt, parked>>
  BY DEF Yield
<1>3. c \in Coros /\ ctx[c] = "running"
  BY <1>1, <1>2, ConstantsAssumption DEF Bookkeeping, Booked, StackAlive
<1>4. Alone(c)
  BY <1>1, <1>3 DEF Exclusive
<1>5. /\ c \notin Listed /\ c \notin parked
      /\ \A v \in Workers : /\ c \notin Queued(v)
                            /\ v # w => c # current[v] /\ c # delay[v].args
  BY <1>2, <1>4 DEF Alone, Raced
<1>6. /\ delay' \in [Workers -> [fn : Callbacks, args : Coros \cup {NoCoro}]]
      /\ suspends' \in [Coros -> Nat]
  BY <1>1, <1>2, <1>3 DEF TypeOK, Callbacks
<1>7. CASE TaskAvailable(w)
  <2> DEFINE t == NextTask(w)
  <2>1. /\ GetTask(w)
        /\ current' = [current EXCEPT ![w] = t]
        /\ ctx' = [saved EXCEPT ![t] = "running"]
        /\ at' = [at EXCEPT ![w] = IF saved[t] = "yield" THEN "fn" ELSE "landed"]
    BY <1>7 DEF Yield, SwitchTo
  <2>2. /\ t \in Coros
        /\ ctx[t] \in {"fresh", "yield"}
        /\ t \notin parked
        /\ t \notin Range(taskList')
        /\ \A v \in Workers : /\ t \notin Range(queue'[v])
                              /\ t # delay[v].args
                              /\ t # current[v]
    BY <1>7, <2>1, NextTaskFacts
  <2>3. /\ taskList' \in Seq(Coros)
        /\ queue' \in [Workers -> Seq(Coros)]
        /\ IsInjective(taskList')
        /\ \A v \in Workers : IsInjective(queue'[v])
        /\ Listed' \subseteq Listed
        /\ Queued(w)' \subseteq Listed \cup Queued(w)
        /\ Queued(w)' \cap Listed' = {}
        /\ \A v \in Workers \ {w} : Queued(v)' = Queued(v)
    BY <1>1, <1>7, <2>1, GetTaskSets
  <2> HIDE DEF t
  <2>4. /\ ctx' \in [Coros -> Contexts]
        /\ ctx'[t] = "running" /\ ctx'[c] = "yield"
        /\ \A d \in Coros \ {c, t} : ctx'[d] = ctx[d]
        /\ at' \in [Workers -> Positions]
        /\ at'[w] \in {"fn", "landed"}
        /\ \A v \in Workers \ {w} : at'[v] = at[v]
        /\ current' \in [Workers -> Coros \cup {Main}]
        /\ current'[w] = t
        /\ \A v \in Workers \ {w} : current'[v] = current[v] /\ delay'[v] = delay[v]
        /\ delay'[w].fn = callback /\ delay'[w].args = c
    BY <1>1, <1>2, <1>3, <2>1, <2>2 DEF TypeOK, Contexts, Positions
  <2>5. /\ t # c
        /\ c \notin Listed'
        /\ \A v \in Workers : c \notin Queued(v)'
    BY <1>5, <2>2, <2>3
  <2> HIDE DEF c
  <2>6. TypeOK'
    BY <1>1, <1>2, <1>6, <2>3, <2>4 DEF TypeOK
  <2>7. Bookkeeping'
    <3> SUFFICES ASSUME NEW v \in Workers PROVE Booked(v)'
      BY DEF Bookkeeping
    <3>1. Booked(v)
      BY <1>1 DEF Bookkeeping
    <3>2. CASE v = w
      BY <1>3, <2>2, <2>4, <3>2 DEF Booked
    <3>3. CASE v # w
      BY <1>5, <2>2, <2>4, <3>1, <3>3 DEF Booked
    <3> QED
      BY <3>2, <3>3
  <2>8. Exclusive'
    <3> SUFFICES ASSUME NEW d \in Coros PROVE Alone(d)'
      BY <2>3 DEF Exclusive
    <3>1. Alone(d)
      BY <1>1 DEF Exclusive
    <3>2. \A v \in Workers : at[v] # "foreign"
      BY <1>2 DEF Raced
    <3>3. CASE d = t
      BY <1>2, <2>2, <2>4, <2>5, <3>3 DEF Alone
    <3>4. CASE d = c
      BY <1>2, <1>5, <2>4, <2>5, <3>4 DEF Alone
    <3>5. CASE d \notin {c, t}
      <4>1. \A v \in Workers : /\ d = delay'[v].args => d = delay[v].args
                               /\ d = current'[v] => d = current[v]
        BY <2>4, <3>5
      <4>2. /\ d \in Listed' => d \in Listed /\ d \notin Queued(w)'
            /\ d \in Queued(w)' => d \in Listed \cup Queued(w)
            /\ \A v \in Workers \ {w} : d \in Queued(v)' <=> d \in Queued(v)
            /\ parked' = parked
        BY <1>2, <2>3
      <4> QED
        BY <3>1, <3>2, <4>1, <4>2 DEF Alone
    <3> QED
      BY <3>3, <3>4, <3>5
  <2>9. ResumableIsSaved'
    <3> SUFFICES ASSUME NEW d \in Coros, InQueue(d)' \/ d \in parked'
                 PROVE  ctx'[d] \in {"fresh", "yield"}
      BY DEF ResumableIsSaved
    <3>1. d # t
      BY <1>2, <2>2
    <3>2. InQueue(d) \/ d \in parked
      BY <1>2, <2>3
    <3> QED
      BY <1>1, <2>4, <3>1, <3>2 DEF ResumableIsSaved
  <2>10. StackAlive'
    <3> SUFFICES ASSUME NEW v \in Workers, current'[v] # Main
                 PROVE  /\ at'[v] \in {"landed", "fn"} => ctx'[current'[v]] = "running"
                        /\ at'[v] \in {"main_loop", "foreign"} =>
                             ctx'[current'[v]] = "finished"
      BY DEF StackAlive
    <3>1. CASE v = w
      BY <2>4, <3>1
    <3>2. CASE v # w
      <4>1. current'[v] = current[v] /\ current[v] \in Coros \ {c, t} /\ at'[v] = at[v]
        BY <1>1, <1>5, <2>2, <2>4, <3>2 DEF TypeOK
      <4> QED
        BY <1>1, <2>4, <4>1 DEF StackAlive
    <3> QED
      BY <3>1, <3>2
  <2> QED
    BY <2>6, <2>7, <2>8, <2>9, <2>10 DEF SafetyInv
<1>8. CASE ~TaskAvailable(w)
  <2>1. /\ current' = [current EXCEPT ![w] = Main]
        /\ ctx' = saved
        /\ at' = [at EXCEPT ![w] = "landed"]
        /\ UNCHANGED <<taskList, queue>>
    BY <1>8 DEF Yield, SwitchToMain
  <2>2. /\ ctx' \in [Coros -> Contexts]
        /\ ctx'[c] = "yield"
        /\ \A d \in Coros \ {c} : ctx'[d] = ctx[d]
        /\ at' \in [Workers -> Positions]
        /\ at'[w] = "landed"
        /\ \A v \in Workers \ {w} : at'[v] = at[v]
        /\ current' \in [Workers -> Coros \cup {Main}]
        /\ current'[w] = Main
        /\ \A v \in Workers \ {w} : current'[v] = current[v] /\ delay'[v] = delay[v]
        /\ delay'[w].fn = callback /\ delay'[w].args = c
    BY <1>1, <1>2, <1>3, <2>1 DEF TypeOK, Contexts, Positions
  <2> HIDE DEF c
  <2>3. TypeOK'
    BY <1>1, <1>2, <1>6, <2>1, <2>2 DEF TypeOK
  <2>4. Bookkeeping'
    <3> SUFFICES ASSUME NEW v \in Workers PROVE Booked(v)'
      BY DEF Bookkeeping
    <3>1. Booked(v)
      BY <1>1 DEF Bookkeeping
    <3>2. CASE v = w
      BY <1>3, <2>2, <3>2 DEF Booked
    <3>3. CASE v # w
      BY <1>5, <2>2, <3>1, <3>3 DEF Booked
    <3> QED
      BY <3>2, <3>3
  <2>5. Exclusive'
    <3> SUFFICES ASSUME NEW d \in Coros PROVE Alone(d)'
      BY <1>1, <2>1 DEF Exclusive
    <3>1. Alone(d)
      BY <1>1 DEF Exclusive
    <3>2. \A v \in Workers : at[v] # "foreign"
      BY <1>2 DEF Raced
    <3>3. CASE d = c
      BY <1>2, <1>5, <2>1, <2>2, <3>3, ConstantsAssumption DEF Alone
    <3>4. CASE d # c
      BY <1>2, <2>1, <2>2, <3>1, <3>2, <3>4, ConstantsAssumption DEF Alone
    <3> QED
      BY <3>3, <3>4
  <2>6. ResumableIsSaved'
    BY <1>1, <1>2, <2>1, <2>2 DEF ResumableIsSaved
  <2>7. StackAlive'
    <3> SUFFICES ASSUME NEW v \in Workers, current'[v] # Main
                 PROVE  /\ at'[v] \in {"landed", "fn"} => ctx'[current'[v]] = "running"
                        /\ at'[v] \in {"main_loop", "foreign"} =>
                             ctx'[current'[v]] = "finished"
      BY DEF StackAlive
    <3>1. v # w /\ current'[v] = current[v] /\ at'[v] = at[v]
      BY <2>2
    <3>2. current[v] \in Coros \ {c}
      BY <1>1, <1>5, <3>1 DEF TypeOK
    <3> QED
      BY <1>1, <2>2, <3>1, <3>2 DEF StackAlive
  <2> QED
    BY <2>3, <2>4, <2>5, <2>6, <2>7 DEF SafetyInv
<1> QED
  BY <1>7, <1>8

\* A function returns.  If the coroutine has migrated, its destroy_coro goes to
\* the SmartThread it was started on.
LEMMA FinishSafety ==
  ASSUME SafetyInv, NEW w \in Workers, Finish(w)
  PROVE  SafetyInv'
<1> USE DEF Listed, Queued, InQueue
<1>1. /\ TypeOK /\ Bookkeeping /\ Exclusive /\ ResumableIsSaved /\ StackAlive
  BY DEF SafetyInv
<1> DEFINE c == current[w]
           st == tlsSt[c]
<1>2. /\ ~Raced /\ at[w] = "fn"
      /\ ctx' = [ctx EXCEPT ![c] = "finished"]
      /\ delay' = [delay EXCEPT ![st] = [fn |-> "destroy_coro", args |-> c]]
      /\ at' = [at EXCEPT ![w] = IF st = w THEN "main_loop" ELSE "foreign"]
      /\ UNCHANGED <<taskList, queue, current, tlsSt, parked, suspends>>
  BY DEF Finish
<1>3. c \in Coros /\ ctx[c] = "running"
  BY <1>1, <1>2, ConstantsAssumption DEF Bookkeeping, Booked, StackAlive
<1>4. Alone(c)
  BY <1>1, <1>3 DEF Exclusive
<1>5. /\ c \notin Listed /\ c \notin parked
      /\ \A v \in Workers : c \notin Queued(v) /\ (v # w => c # current[v])
  BY <1>4 DEF Alone
<1>6. \A v \in Workers : c # delay[v].args
  BY <1>1, <1>3, ConstantsAssumption DEF Bookkeeping, Booked
<1>7. /\ ctx' \in [Coros -> Contexts]
      /\ ctx'[c] = "finished"
      /\ \A d \in Coros \ {c} : ctx'[d] = ctx[d]
      /\ at' \in [Workers -> Positions]
      /\ at'[w] = IF st = w THEN "main_loop" ELSE "foreign"
      /\ \A v \in Workers \ {w} : at'[v] = at[v]
      /\ delay' \in [Workers -> [fn : Callbacks, args : Coros \cup {NoCoro}]]
      /\ \A v \in Workers : v # st => delay'[v] = delay[v]
      /\ \A v \in Workers :
           v = st => delay'[v].fn = "destroy_coro" /\ delay'[v].args = c
  BY <1>1, <1>2, <1>3 DEF TypeOK, Contexts, Positions, Callbacks
<1> HIDE DEF st
<1>8. TypeOK'
  BY <1>1, <1>2, <1>7 DEF TypeOK
<1>9. Bookkeeping'
  <2> SUFFICES ASSUME NEW v \in Workers PROVE Booked(v)'
    BY DEF Bookkeeping
  <2>1. Booked(v)
    BY <1>1 DEF Bookkeeping
  <2>2. at'[v] = at[v] \/ at'[v] \in {"main_loop", "foreign"}
    BY <1>7, v = w \/ v # w
  <2>3. CASE v = st
    BY <1>2, <1>3, <1>7, <2>1, <2>2, <2>3 DEF Booked
  <2>4. CASE v # st
    BY <1>2, <1>6, <1>7, <2>1, <2>2, <2>4 DEF Booked
  <2> QED
    BY <2>3, <2>4
<1>10. Exclusive'
  <2> SUFFICES ASSUME NEW d \in Coros PROVE Alone(d)'
    BY <1>1, <1>2 DEF Exclusive
  <2>1. Alone(d)
    BY <1>1 DEF Exclusive
  <2>2. \A v \in Workers : at[v] # "foreign"
    BY <1>2 DEF Raced
  <2>3. CASE d = c
    <3>1. \A v \in Workers : /\ d = delay'[v].args => v = st
                             /\ d = current'[v] => v = w
      BY <1>2, <1>5, <1>6, <1>7, <2>3
    <3>2. at'[w] = "foreign" \/ st = w
      BY <1>7
    <3>3. d \notin Listed' /\ d \notin parked' /\ \A v \in Workers : d \notin Queued(v)'
      BY <1>2, <1>5, <2>3
    <3> QED
      BY <3>1, <3>2, <3>3 DEF Alone
  <2>4. CASE d # c
    <3>1. \A v \in Workers : d = delay'[v].args => d = delay[v].args
      BY <1>7, <2>4
    <3> QED
      BY <1>2, <2>1, <2>2, <3>1 DEF Alone
  <2> QED
    BY <2>3, <2>4
<1>11. ResumableIsSaved'
  BY <1>1, <1>2, <1>5, <1>7 DEF ResumableIsSaved
<1>12. StackAlive'
  <2> SUFFICES ASSUME NEW v \in Workers, current[v] # Main
               PROVE  /\ at'[v] \in {"landed", "fn"} => ctx'[current[v]] = "running"
                      /\ at'[v] \in {"main_loop", "foreign"} =>
                           ctx'[current[v]] = "finished"
    BY <1>2 DEF StackAlive
  <2>1. CASE v = w
    BY <1>7, <2>1
  <2>2. CASE v # w
    <3>1. current[v] \in Coros \ {c} /\ at'[v] = at[v]
      BY <1>1, <1>5, <1>7, <2>2 DEF TypeOK
    <3> QED
      BY <1>1, <1>7, <3>1 DEF StackAlive
  <2> QED
    BY <2>1, <2>2
<1> QED
  BY <1>8, <1>9, <1>10, <1>11, <1>12 DEF SafetyInv

-----------------------------------------------------------------------------
(* Theorems                                                                *)

\* Every step of the scheduler keeps the inductive invariant.
LEMMA NextSafety == SafetyInv /\ [Next]_vars => SafetyInv'
<1> SUFFICES ASSUME SafetyInv, [Next]_vars PROVE SafetyInv'
  OBVIOUS
<1>1. CASE UNCHANGED vars
  BY <1>1 DEF vars, SafetyInv, TypeOK, Bookkeeping, Booked, Exclusive, Alone,
              ResumableIsSaved, StackAlive, InQueue, Listed, Queued
<1>2. ASSUME NEW w \in Workers, WaitOnTaskList(w) \/ SpuriousWakeup(w) \/ MainLoopIdle(w)
      PROVE  SafetyInv'
  BY <1>2, WaitingSafety
<1>3. ASSUME NEW w \in Workers, MainLoopRun(w) PROVE SafetyInv'
  BY <1>3, MainLoopRunSafety
<1>4. ASSUME NEW w \in Workers, RunCallback(w) PROVE SafetyInv'
  BY <1>4, CallbackSafety, AddBackSafety DEF RunCallback
<1>5. ASSUME NEW w \in Workers, RunFunction(w) PROVE SafetyInv'
  BY <1>5, YieldSafety, FinishSafety, StartFromCoroSafety
     DEF RunFunction, SmartRoutineYield, SmartIO
<1>6. ASSUME NEW c \in Coros, StartFromOutside(c) \/ EpollResume(c) PROVE SafetyInv'
  BY <1>6, StartFromOutsideSafety, EpollResumeSafety
<1> QED
  BY <1>1, <1>2, <1>3, <1>4, <1>5, <1>6 DEF Next, WorkerStep

\* Type correctness of the scheduler.
THEOREM TypeCorrect == Spec => []TypeOK
<1>1. SafetyInv => TypeOK
  BY DEF SafetyInv
<1> QED
  BY <1>1, InitSafety, NextSafety, PTL DEF Spec

\* No coroutine is ever in two places at once: no interleaving of workers,
\* callers and the epoller gives one stack to two threads.
THEOREM ExclusiveTheorem == Spec => []Exclusive
<1>1. SafetyInv => Exclusive
  BY DEF SafetyInv
<1> QED
  BY <1>1, InitSafety, NextSafety, PTL DEF Spec

\* What may be resumed has its context stored: deferring the callbacks of
\* yield() until the switch is over is enough, for any number of workers.
THEOREM SavedTheorem == Spec => []ResumableIsSaved
<1>1. SafetyInv => ResumableIsSaved
  BY DEF SafetyInv
<1> QED
  BY <1>1, InitSafety, NextSafety, PTL DEF Spec

\* destroy_coro never deletes the stack a worker is on.
THEOREM StackTheorem == Spec => []StackAlive
<1>1. SafetyInv => StackAlive
  BY DEF SafetyInv
<1> QED
  BY <1>1, InitSafety, NextSafety, PTL DEF Spec

-----------------------------------------------------------------------------
(* Where a worker may go astray                                            *)

\* A coroutine that has suspended has read tls_smart_thread; one that has not
\* suspended is still on the SmartThread it read.
Homed ==
  /\ \A c \in Coros : ctx[c] = "yield" => suspends[c] > 0 /\ tlsSt[c] \in Workers
  /\ \A w \in Workers :
       at[w] = "fn" => /\ tlsSt[current[w]] \in Workers
                       /\ suspends[current[w]] > 0 \/ tlsSt[current[w]] = w

HomeInv == SafetyInv /\ Homed /\ AstrayOnlyMigrated

\* A step after which every worker is where it was, or at most left
\* wait_on_task_list, and that suspends nobody, leaves the homes alone.
LEMMA QuietHomed ==
  ASSUME HomeInv,
         UNCHANGED <<tlsSt, suspends, current>>,
         \A c \in Coros : ctx'[c] = "yield" => ctx[c] = "yield",
         \A v \in Workers : at'[v] \in {"fn", "foreign"} => at'[v] = at[v]
  PROVE  Homed' /\ AstrayOnlyMigrated'
BY DEF HomeInv, Homed, AstrayOnlyMigrated

\* Landing: coro_runner reads tls_smart_thread before it calls the function.
LEMMA LandingHomed ==
  ASSUME HomeInv, NEW w \in Workers, RunCallback(w)
  PROVE  Homed' /\ AstrayOnlyMigrated'
<1>1. /\ TypeOK /\ Bookkeeping /\ Exclusive /\ StackAlive /\ Homed
  BY DEF HomeInv, SafetyInv
<1>2. /\ ~Raced /\ at[w] = "landed" /\ AfterLanding(w)
      /\ NoCallback(w) \/ AddBackToQueue(w) \/ EnableEpoll(w) \/ DestroyCoro(w)
  BY DEF RunCallback, NoCallback, AddBackToQueue, EnableEpoll, DestroyCoro
<1>3. /\ Landed(w) \in [Workers -> Positions]
      /\ \A v \in Workers \ {w} : Landed(w)[v] = at[v]
      /\ \/ Landed(w)[w] = "main_loop" /\ current[w] = Main
         \/ Landed(w)[w] = "fn" /\ current[w] \in Coros
      /\ current' = current /\ suspends' = suspends
      /\ tlsSt' = [c \in Coros |-> IF c = current[w] THEN w ELSE tlsSt[c]]
  BY <1>1, <1>2, LandingFacts DEF AfterLanding
<1>4. \A v \in Workers :
        at'[v] = Landed(w)[v] \/ (Landed(w)[v] = "waiting" /\ at'[v] = "init")
  <2>1. CASE AddBackToQueue(w)
    BY <1>3, <2>1, PushPositions DEF AddBackToQueue
  <2>2. CASE NoCallback(w) \/ EnableEpoll(w) \/ DestroyCoro(w)
    BY <2>2 DEF NoCallback, EnableEpoll, DestroyCoro
  <2> QED
    BY <1>2, <2>1, <2>2
<1>5. \A c \in Coros : ctx'[c] = "yield" => ctx[c] = "yield"
  BY <1>1, <1>2 DEF NoCallback, AddBackToQueue, EnableEpoll, DestroyCoro, TypeOK
<1>6. \A v \in Workers : at'[v] # "foreign"
  BY <1>2, <1>3, <1>4 DEF Raced
<1>7. ASSUME NEW v \in Workers, at'[v] = "fn"
      PROVE  /\ tlsSt'[current'[v]] \in Workers
             /\ suspends'[current'[v]] > 0 \/ tlsSt'[current'[v]] = v
  <2>1. CASE v = w
    BY <1>3, <1>4, <1>7, <2>1
  <2>2. CASE v # w
    <3>1. at[v] = "fn" /\ current[v] \in Coros /\ current[v] # current[w]
      BY <1>1, <1>3, <1>4, <1>7, <2>2 DEF Bookkeeping, Booked, Exclusive, Alone
    <3> QED
      BY <1>1, <1>3, <3>1 DEF Homed
  <2> QED
    BY <2>1, <2>2
<1> QED
  BY <1>1, <1>3, <1>5, <1>6, <1>7 DEF Homed, AstrayOnlyMigrated

\* Switching: a coroutine that goes on in its function has suspended before.
LEMMA SwitchHomed ==
  ASSUME HomeInv, NEW w \in Workers,
         \/ MainLoopRun(w)
         \/ \E callback \in {"add_back_to_queue", "enable_epoll"} : Yield(w, callback)
  PROVE  Homed' /\ AstrayOnlyMigrated'
<1>1. /\ TypeOK /\ Bookkeeping /\ Exclusive /\ StackAlive /\ Homed
  BY DEF HomeInv, SafetyInv
<1> DEFINE c == current[w]
           t == NextTask(w)
           left == [ctx EXCEPT ![c] = "yield"]
<1>2. /\ ~Raced
      /\ tlsSt' = tlsSt
      /\ \A v \in Workers \ {w} : at'[v] = at[v] /\ current'[v] = current[v]
  BY <1>1 DEF MainLoopRun, Yield, SwitchTo, SwitchToMain, TypeOK
<1>3. CASE MainLoopRun(w)
  <2>1. /\ t \in Coros
        /\ \A v \in Workers : t # current[v]
    BY <1>3, NextTaskFacts DEF MainLoopRun, HomeInv
  <2>2. /\ suspends' = suspends
        /\ current'[w] = t
        /\ at'[w] = "fn" => ctx[t] = "yield"
        /\ at'[w] \in {"fn", "landed"}
        /\ \A d \in Coros : ctx'[d] = "yield" => ctx[d] = "yield"
    BY <1>1, <1>3, <2>1 DEF MainLoopRun, SwitchTo, TypeOK
  <2> HIDE DEF t
  <2> QED
    BY <1>1, <1>2, <2>1, <2>2 DEF Homed, AstrayOnlyMigrated, Raced
<1>4. CASE \E callback \in {"add_back_to_queue", "enable_epoll"} : Yield(w, callback)
  <2>1. /\ c \in Coros /\ at[w] = "fn"
        /\ suspends' = [suspends EXCEPT ![c] = @ + 1]
    BY <1>1, <1>4 DEF Yield, Bookkeeping, Booked
  <2>2. /\ tlsSt[c] \in Workers
        /\ \A d \in Coros : suspends'[d] \in Nat /\ (suspends[d] > 0 => suspends'[d] > 0)
        /\ suspends'[c] > 0
    BY <1>1, <2>1 DEF Homed, TypeOK
  <2>3. \A v \in Workers : v # w => current[v] # c
    BY <1>1, <2>1 DEF Exclusive, Alone
  <2>4. /\ \A d \in Coros : ctx'[d] = "yield" => d = c \/ ctx[d] = "yield"
        /\ at'[w] = "fn" =>
             current'[w] \in Coros /\ (current'[w] = c \/ ctx[current'[w]] = "yield")
        /\ at'[w] \in {"fn", "landed"}
    <3>1. CASE TaskAvailable(w)
      <4>1. GetTask(w) /\ SwitchTo(w, t, left)
        BY <1>4, <3>1 DEF Yield
      <4>2. t \in Coros
        BY <3>1, <4>1, NextTaskFacts DEF HomeInv
      <4> QED
        BY <1>1, <2>1, <4>1, <4>2 DEF SwitchTo, TypeOK
    <3>2. CASE ~TaskAvailable(w)
      BY <1>1, <1>4, <2>1, <3>2 DEF Yield, SwitchToMain, TypeOK
    <3> QED
      BY <3>1, <3>2
  <2>5. \A v \in Workers \ {w} : at[v] = "fn" => current[v] \in Coros
    BY <1>1 DEF Bookkeeping, Booked
  <2> HIDE DEF c
  <2> QED
    BY <1>1, <1>2, <2>2, <2>3, <2>4, <2>5 DEF Homed, AstrayOnlyMigrated, Raced
<1> QED
  BY <1>3, <1>4

\* The end of a function: a worker goes astray only with a coroutine that has
\* suspended since it started.
LEMMA FinishHomed ==
  ASSUME HomeInv, NEW w \in Workers, Finish(w)
  PROVE  Homed' /\ AstrayOnlyMigrated'
<1>1. /\ TypeOK /\ Bookkeeping /\ Homed
  BY DEF HomeInv, SafetyInv
<1>2. /\ ~Raced /\ at[w] = "fn"
      /\ current[w] \in Coros
      /\ UNCHANGED <<current, tlsSt, suspends>>
      /\ \A c \in Coros : ctx'[c] = "yield" => ctx[c] = "yield"
      /\ \A v \in Workers \ {w} : at'[v] = at[v]
      /\ at'[w] = IF tlsSt[current[w]] = w THEN "main_loop" ELSE "foreign"
  BY <1>1 DEF Finish, Bookkeeping, Booked, TypeOK
<1> QED
  BY <1>1, <1>2 DEF Homed, AstrayOnlyMigrated, Raced

\* Every step keeps the homes.
LEMMA NextHome == HomeInv /\ [Next]_vars => HomeInv'
<1> SUFFICES ASSUME HomeInv, [Next]_vars PROVE Homed' /\ AstrayOnlyMigrated'
  BY NextSafety DEF HomeInv
<1>1. TypeOK
  BY DEF HomeInv, SafetyInv
<1>2. CASE UNCHANGED vars
  BY <1>2 DEF vars, HomeInv, Homed, AstrayOnlyMigrated
<1>3. ASSUME NEW w \in Workers, WaitOnTaskList(w) \/ SpuriousWakeup(w) \/ MainLoopIdle(w)
      PROVE  Homed' /\ AstrayOnlyMigrated'
  <2>1. /\ UNCHANGED <<tlsSt, suspends, current, ctx>>
        /\ \A v \in Workers : at'[v] \in {"fn", "foreign"} => at'[v] = at[v]
    BY <1>1, <1>3 DEF WaitOnTaskList, SpuriousWakeup, MainLoopIdle, vars, TypeOK
  <2> QED
    BY <2>1, QuietHomed
<1>4. ASSUME NEW w \in Workers, NEW c \in Coros, StartFromCoro(w, c)
      PROVE  Homed' /\ AstrayOnlyMigrated'
  <2>1. \A v \in Workers : at'[v] = at[v] \/ at'[v] = "init"
    BY <1>1, <1>4, PushPositions DEF StartFromCoro, TypeOK
  <2>2. \A d \in Coros : ctx'[d] = "yield" => ctx[d] = "yield"
    BY <1>1, <1>4 DEF StartFromCoro, TypeOK
  <2> QED
    BY <1>4, <2>1, <2>2, QuietHomed DEF StartFromCoro
<1>5. ASSUME NEW c \in Coros, StartFromOutside(c) \/ EpollResume(c)
      PROVE  Homed' /\ AstrayOnlyMigrated'
  <2>1. \A v \in Workers : at'[v] = at[v] \/ at'[v] = "init"
    BY <1>1, <1>5, NotifyPositions
       DEF StartFromOutside, EpollResume, RuntimePush, TypeOK
  <2>2. \A d \in Coros : ctx'[d] = "yield" => ctx[d] = "yield"
    BY <1>1, <1>5 DEF StartFromOutside, EpollResume, TypeOK
  <2> QED
    BY <1>5, <2>1, <2>2, QuietHomed DEF StartFromOutside, EpollResume
<1> QED
  BY <1>2, <1>3, <1>4, <1>5, LandingHomed, SwitchHomed, FinishHomed
     DEF Next, WorkerStep, RunFunction, SmartRoutineYield, SmartIO

\* A worker enters another's main_loop only with a coroutine that has suspended
\* and moved: programs whose coroutines do not suspend never race on a
\* SmartThread, whatever the number of workers.
THEOREM AstrayTheorem == Spec => []AstrayOnlyMigrated
<1>1. Init => HomeInv
  BY InitSafety DEF Init, HomeInv, Homed, AstrayOnlyMigrated
<1>2. HomeInv => AstrayOnlyMigrated
  BY DEF HomeInv
<1> QED
  BY <1>1, <1>2, NextHome, PTL DEF Spec

-----------------------------------------------------------------------------
(* No coroutine is lost on its way to a worker, and the life cycle         *)

\* A batch that fits the bounded queue loses nothing: what get_task takes off
\* the list is the coroutine it returns or is in the worker's queue.
LEMMA GetTaskKeeps ==
  ASSUME TypeOK, Exclusive, BatchSize <= QueueLength,
         NEW w \in Workers, TaskAvailable(w), GetTask(w)
  PROVE  Listed \cup Queued(w) = Listed' \cup Queued(w)' \cup {NextTask(w)}
<1> USE DEF Listed, Queued
<1>1. /\ queue[w] \in Seq(Coros) /\ IsInjective(queue[w])
      /\ taskList \in Seq(Coros) /\ IsInjective(taskList)
      /\ queue \in [Workers -> Seq(Coros)]
  BY DEF TypeOK, Exclusive
<1>2. CASE queue[w] # <<>>
  <2>1. /\ queue' = [queue EXCEPT ![w] = Tail(@)]
        /\ taskList' = taskList
        /\ NextTask(w) = Head(queue[w])
    BY <1>2 DEF GetTask, NextTask
  <2>2. /\ Head(queue[w]) \in Range(queue[w])
        /\ Range(Tail(queue[w])) = Range(queue[w]) \ {Head(queue[w])}
    BY <1>1, <1>2, TailWithoutHead
  <2> QED
    BY <1>1, <2>1, <2>2
<1>3. CASE queue[w] = <<>>
  <2> DEFINE n == BatchCount
             front == SubSeq(taskList, 2, n)
             rest == SubSeq(taskList, n + 1, Len(taskList))
  <2>1. n \in 1 .. Len(taskList) /\ Len(taskList) \in Nat /\ n <= QueueLength
    BY <1>1, <1>3, ConstantsAssumption, LenProperties
       DEF TaskAvailable, BatchCount, Least
  <2>2. /\ queue'[w] = front
        /\ taskList' = rest
        /\ NextTask(w) = Head(taskList)
    BY <1>1, <1>3, <2>1 DEF GetTask, NextTask, Least
  <2> HIDE DEF n
  <2>3. Range(front) = {taskList[i] : i \in 2 .. n}
    <3>1. 2 \in Nat \ {0} /\ n \in Nat /\ n <= Len(taskList)
      BY <2>1
    <3> QED
      BY <1>1, <3>1, Stretch
  <2>4. Range(rest) = {taskList[i] : i \in n + 1 .. Len(taskList)}
    <3>1. n + 1 \in Nat \ {0} /\ Len(taskList) <= Len(taskList)
      BY <2>1
    <3> QED
      BY <1>1, <2>1, <3>1, Stretch
  <2>5. Range(taskList) = {taskList[i] : i \in 1 .. Len(taskList)}
    BY <1>1, LenProperties DEF Range
  <2>6. Head(taskList) = taskList[1] /\ Range(queue[w]) = {}
    BY <1>3, <2>1 DEF Range
  <2> HIDE DEF front, rest
  <2>7. \A i \in 1 .. Len(taskList) : i = 1 \/ i \in 2 .. n \/ i \in n + 1 .. Len(taskList)
    BY <2>1
  <2>8. /\ 1 \in 1 .. Len(taskList)
        /\ \A i \in 2 .. n : i \in 1 .. Len(taskList)
        /\ \A i \in n + 1 .. Len(taskList) : i \in 1 .. Len(taskList)
    BY <2>1
  <2> QED
    BY <2>2, <2>3, <2>4, <2>5, <2>6, <2>7, <2>8
<1> QED
  BY <1>2, <1>3

\* ... so that only the coroutine it returns leaves the queues.
LEMMA OnlyNextLeaves ==
  ASSUME SafetyInv, BatchSize <= QueueLength, NEW w \in Workers, NEW t \in Coros,
         TaskAvailable(w), GetTask(w), t = NextTask(w)
  PROVE  /\ InQueue(t) /\ ~InQueue(t)'
         /\ \A d \in Coros \ {t} : InQueue(d)' <=> InQueue(d)
<1>1. TypeOK /\ Exclusive
  BY DEF SafetyInv
<1>2. Listed \cup Queued(w) = Listed' \cup Queued(w)' \cup {t}
  BY <1>1, GetTaskKeeps
<1>3. \A v \in Workers \ {w} : Queued(v)' = Queued(v)
  BY <1>1, GetTaskSets
<1>4. /\ t \notin Listed'
      /\ \A v \in Workers : t \notin Queued(v)'
  BY NextTaskFacts DEF Listed, Queued
<1> QED
  BY <1>2, <1>3, <1>4 DEF InQueue

\* push_task by a worker brings exactly the pushed coroutine into a queue.
LEMMA OnlyPushedEnters ==
  ASSUME SafetyInv, NEW w \in Workers, NEW c \in Coros, NEW pos,
         ~InQueue(c), ThreadPush(w, c, pos)
  PROVE  InQueue(c)' /\ \A d \in Coros \ {c} : InQueue(d)' <=> InQueue(d)
<1>1. TypeOK /\ Exclusive /\ c \notin Listed /\ c \notin Queued(w)
  BY DEF SafetyInv, InQueue
<1>2. /\ \/ Listed' = Listed /\ Queued(w)' = Queued(w) \cup {c}
         \/ Listed' = Listed \cup {c} /\ Queued(w)' = Queued(w)
      /\ \A v \in Workers \ {w} : Queued(v)' = Queued(v)
  BY <1>1, ThreadPushSets
<1> QED
  BY <1>2 DEF InQueue

\* ... and so does a push to the runtime's list.
LEMMA OnlyListedEnters ==
  ASSUME SafetyInv, NEW c \in Coros, ~InQueue(c), NEW pos, RuntimePush(c, pos),
         queue' = queue
  PROVE  InQueue(c)' /\ \A d \in Coros \ {c} : InQueue(d)' <=> InQueue(d)
<1>1. Listed' = Listed \cup {c}
  BY RuntimePushSets DEF SafetyInv, InQueue, RuntimePush
<1> QED
  BY <1>1 DEF InQueue, Queued

\* The status of one coroutine changes: a step of Lifecycle that moves it.
LEMMA OneMoves ==
  ASSUME NEW c \in Coros, NEW from, NEW to, Status(c) = from, Status(c)' = to,
         \A d \in Coros \ {c} : Status(d)' = Status(d)
  PROVE  Abstract!Move(c, from, to)
BY DEF Abstract!Move

\* A pending callback names a coroutine that is in no queue and not with the
\* epoller.
LEMMA PendingNowhere ==
  ASSUME SafetyInv, NEW w \in Workers, delay[w].args \in Coros
  PROVE  ~InQueue(delay[w].args) /\ delay[w].args \notin parked
BY DEF SafetyInv, Exclusive, Alone, InQueue

\* A coroutine that is started was in no queue.
LEMMA UnbornNowhere ==
  ASSUME SafetyInv, NEW c \in Coros, ctx[c] = "unborn"
  PROVE  ~InQueue(c) /\ c \notin parked
BY DEF SafetyInv, ResumableIsSaved

\* The status mapped step by step.
LEMMA StepRefines ==
  ASSUME SafetyInv, BatchSize <= QueueLength, [Next]_vars
  PROVE  Abstract!Next \/ UNCHANGED [c \in Coros |-> Status(c)]
<1>1. TypeOK /\ Bookkeeping /\ StackAlive /\ ResumableIsSaved
  BY DEF SafetyInv
<1>2. ASSUME UNCHANGED <<ctx, parked>>, \A d \in Coros : InQueue(d)' <=> InQueue(d)
      PROVE  UNCHANGED [c \in Coros |-> Status(c)]
  BY <1>2 DEF Status
<1>3. ASSUME UNCHANGED <<ctx, parked, taskList, queue>>
      PROVE  UNCHANGED [c \in Coros |-> Status(c)]
  BY <1>2, <1>3 DEF InQueue, Listed, Queued
<1>4. ASSUME NEW w \in Workers, MainLoopRun(w)
      PROVE  Abstract!Next
  <2>0. PICK t \in Coros : t = NextTask(w)
    BY <1>4, NextTaskFacts DEF MainLoopRun
  <2>1. /\ TaskAvailable(w) /\ GetTask(w)
        /\ parked' = parked
        /\ ctx' = [ctx EXCEPT ![t] = "running"]
    BY <1>4, <2>0 DEF MainLoopRun, SwitchTo
  <2>2. ctx[t] \in {"fresh", "yield"} /\ t \notin parked
    BY <2>0, <2>1, NextTaskFacts
  <2>3. InQueue(t) /\ \A d \in Coros \ {t} : InQueue(d)' <=> InQueue(d)
    BY <2>0, <2>1, OnlyNextLeaves
  <2>4. Status(t) = "ready" /\ Status(t)' = "running"
    BY <1>1, <2>1, <2>2, <2>3 DEF Status, TypeOK
  <2>5. \A d \in Coros \ {t} : Status(d)' = Status(d)
    BY <1>1, <2>1, <2>3 DEF Status, TypeOK
  <2>6. Abstract!Dispatch(t)
    BY <2>2, <2>4, <2>5, OneMoves DEF Abstract!Dispatch
  <2> QED
    BY <2>2, <2>6 DEF Abstract!Next
<1>5. ASSUME NEW w \in Workers, NEW callback \in {"add_back_to_queue", "enable_epoll"},
             Yield(w, callback)
      PROVE  Abstract!Next
  <2>0. PICK c \in Coros : c = current[w]
    BY <1>1, <1>5 DEF Yield, Bookkeeping, Booked
  <2>1. parked' = parked /\ ctx[c] = "running"
    BY <1>1, <1>5, <2>0, ConstantsAssumption DEF Yield, StackAlive
  <2>2. ~InQueue(c) /\ c \notin parked
    BY <1>1, <2>1 DEF ResumableIsSaved
  <2>3. CASE TaskAvailable(w)
    <3>0. PICK t \in Coros : t = NextTask(w)
      BY <1>5, <2>3, NextTaskFacts DEF Yield
    <3>1. GetTask(w) /\ ctx' = [[ctx EXCEPT ![c] = "yield"] EXCEPT ![t] = "running"]
      BY <1>5, <2>0, <2>3, <3>0 DEF Yield, SwitchTo
    <3>2. ctx[t] \in {"fresh", "yield"} /\ t \notin parked /\ t # c
      BY <2>0, <2>3, <3>0, <3>1, NextTaskFacts
    <3>3. InQueue(t) /\ \A d \in Coros \ {t} : InQueue(d)' <=> InQueue(d)
      BY <2>3, <3>0, <3>1, OnlyNextLeaves
    <3>4. Status(t) = "ready" /\ Status(t)' = "running"
      BY <1>1, <2>1, <3>1, <3>2, <3>3 DEF Status, TypeOK
    <3>5. Status(c) = "running" /\ Status(c)' = "suspended"
      BY <1>1, <2>1, <2>2, <3>1, <3>2, <3>3 DEF Status, TypeOK
    <3>6. \A d \in Coros \ {c, t} : Status(d)' = Status(d)
      BY <1>1, <2>1, <3>1, <3>3 DEF Status, TypeOK
    <3>7. Abstract!HandOver(c, t)
      BY <2>1, <3>2, <3>4, <3>5, <3>6 DEF Abstract!HandOver
    <3> QED
      BY <2>1, <3>2, <3>7 DEF Abstract!Next
  <2>4. CASE ~TaskAvailable(w)
    <3>1. UNCHANGED <<taskList, queue>> /\ ctx' = [ctx EXCEPT ![c] = "yield"]
      BY <1>5, <2>0, <2>4 DEF Yield, SwitchToMain
    <3>2. \A d \in Coros : InQueue(d)' <=> InQueue(d)
      BY <3>1 DEF InQueue, Listed, Queued
    <3>3. Status(c) = "running" /\ Status(c)' = "suspended"
      BY <1>1, <2>1, <2>2, <3>1, <3>2 DEF Status, TypeOK
    <3>4. \A d \in Coros \ {c} : Status(d)' = Status(d)
      BY <1>1, <2>1, <3>1, <3>2 DEF Status, TypeOK
    <3>5. Abstract!Suspend(c)
      BY <2>1, <3>3, <3>4, OneMoves DEF Abstract!Suspend
    <3> QED
      BY <2>1, <3>5 DEF Abstract!Next
  <2> QED
    BY <2>3, <2>4
<1>6. ASSUME NEW w \in Workers, AddBackToQueue(w)
      PROVE  Abstract!Next
  <2>0. PICK c \in Coros : c = delay[w].args
    BY <1>1, <1>6 DEF AddBackToQueue, Bookkeeping, Booked
  <2>1. /\ UNCHANGED <<ctx, parked>> /\ ThreadPush(w, c, Landed(w))
        /\ ctx[c] = "yield"
    BY <1>1, <1>6, <2>0 DEF AddBackToQueue, Bookkeeping, Booked
  <2>2. ~InQueue(c) /\ c \notin parked
    BY <2>0, <2>1, PendingNowhere
  <2>3. InQueue(c)' /\ \A d \in Coros \ {c} : InQueue(d)' <=> InQueue(d)
    BY <2>1, <2>2, OnlyPushedEnters
  <2>4. Status(c) = "suspended" /\ Status(c)' = "ready"
    BY <2>1, <2>2, <2>3 DEF Status
  <2>5. \A d \in Coros \ {c} : Status(d)' = Status(d)
    BY <2>1, <2>3 DEF Status
  <2>6. Abstract!Requeue(c)
    BY <2>1, <2>4, <2>5, OneMoves DEF Abstract!Requeue
  <2> QED
    BY <2>1, <2>6 DEF Abstract!Next
<1>7. ASSUME NEW w \in Workers, EnableEpoll(w)
      PROVE  Abstract!Next
  <2>0. PICK c \in Coros : c = delay[w].args
    BY <1>1, <1>7 DEF EnableEpoll, Bookkeeping, Booked
  <2>1. /\ UNCHANGED <<ctx, taskList, queue>> /\ parked' = parked \cup {c}
        /\ ctx[c] = "yield"
    BY <1>1, <1>7, <2>0 DEF EnableEpoll, Bookkeeping, Booked
  <2>2. ~InQueue(c) /\ c \notin parked
    BY <2>0, <2>1, PendingNowhere
  <2>3. \A d \in Coros : InQueue(d)' <=> InQueue(d)
    BY <2>1 DEF InQueue, Listed, Queued
  <2>4. Status(c) = "suspended" /\ Status(c)' = "blocked"
    BY <2>1, <2>2 DEF Status
  <2>5. \A d \in Coros \ {c} : Status(d)' = Status(d)
    BY <2>1, <2>3 DEF Status
  <2>6. Abstract!Block(c)
    BY <2>1, <2>4, <2>5, OneMoves DEF Abstract!Block
  <2> QED
    BY <2>1, <2>6 DEF Abstract!Next
<1>8. ASSUME NEW w \in Workers, DestroyCoro(w)
      PROVE  Abstract!Next
  <2>0. PICK c \in Coros : c = delay[w].args
    BY <1>1, <1>8 DEF DestroyCoro, Bookkeeping, Booked
  <2>1. /\ UNCHANGED <<parked, taskList, queue>> /\ ctx' = [ctx EXCEPT ![c] = "freed"]
        /\ ctx[c] = "finished"
    BY <1>1, <1>8, <2>0 DEF DestroyCoro, Bookkeeping, Booked
  <2>2. \A d \in Coros : InQueue(d)' <=> InQueue(d)
    BY <2>1 DEF InQueue, Listed, Queued
  <2>3. Status(c) = "finished" /\ Status(c)' = "freed"
    BY <1>1, <2>1 DEF Status, TypeOK
  <2>4. \A d \in Coros \ {c} : Status(d)' = Status(d)
    BY <1>1, <2>1, <2>2 DEF Status, TypeOK
  <2>5. Abstract!Free(c)
    BY <2>1, <2>3, <2>4, OneMoves DEF Abstract!Free
  <2> QED
    BY <2>1, <2>5 DEF Abstract!Next
<1>9. ASSUME NEW w \in Workers, Finish(w)
      PROVE  Abstract!Next
  <2>0. PICK c \in Coros : c = current[w]
    BY <1>1, <1>9 DEF Finish, Bookkeeping, Booked
  <2>1. /\ UNCHANGED <<parked, taskList, queue>> /\ ctx' = [ctx EXCEPT ![c] = "finished"]
        /\ ctx[c] = "running"
    BY <1>1, <1>9, <2>0, ConstantsAssumption DEF Finish, StackAlive
  <2>2. \A d \in Coros : InQueue(d)' <=> InQueue(d)
    BY <2>1 DEF InQueue, Listed, Queued
  <2>3. Status(c) = "running" /\ Status(c)' = "finished"
    BY <1>1, <2>1 DEF Status, TypeOK
  <2>4. \A d \in Coros \ {c} : Status(d)' = Status(d)
    BY <1>1, <2>1, <2>2 DEF Status, TypeOK
  <2>5. Abstract!Finish(c)
    BY <2>1, <2>3, <2>4, OneMoves DEF Abstract!Finish
  <2> QED
    BY <2>1, <2>5 DEF Abstract!Next
<1>10. ASSUME NEW c \in Coros,
              StartFromOutside(c) \/ \E w \in Workers : StartFromCoro(w, c)
       PROVE  Abstract!Next
  <2>1. /\ ctx[c] = "unborn" /\ ctx' = [ctx EXCEPT ![c] = "fresh"] /\ parked' = parked
    BY <1>10 DEF StartFromOutside, StartFromCoro
  <2>2. ~InQueue(c) /\ c \notin parked
    BY <2>1, UnbornNowhere
  <2>3. InQueue(c)' /\ \A d \in Coros \ {c} : InQueue(d)' <=> InQueue(d)
    BY <1>10, <2>2, OnlyListedEnters, OnlyPushedEnters DEF StartFromOutside, StartFromCoro
  <2>4. Status(c) = "unborn" /\ Status(c)' = "ready"
    BY <1>1, <2>1, <2>2, <2>3 DEF Status, TypeOK
  <2>5. \A d \in Coros \ {c} : Status(d)' = Status(d)
    BY <1>1, <2>1, <2>3 DEF Status, TypeOK
  <2>6. Abstract!Start(c)
    BY <2>4, <2>5, OneMoves DEF Abstract!Start
  <2> QED
    BY <2>6 DEF Abstract!Next
<1>11. ASSUME NEW c \in Coros, EpollResume(c)
       PROVE  Abstract!Next
  <2>1. /\ c \in parked /\ parked' = parked \ {c} /\ ctx' = ctx
        /\ RuntimePush(c, at) /\ queue' = queue
    BY <1>11 DEF EpollResume
  <2>2. ~InQueue(c) /\ ctx[c] \in {"fresh", "yield"}
    BY <2>1 DEF SafetyInv, Exclusive, Alone, InQueue, ResumableIsSaved
  <2>3. InQueue(c)' /\ \A d \in Coros \ {c} : InQueue(d)' <=> InQueue(d)
    BY <2>1, <2>2, OnlyListedEnters
  <2>4. Status(c) = "blocked" /\ Status(c)' = "ready"
    BY <2>1, <2>2, <2>3 DEF Status
  <2>5. \A d \in Coros \ {c} : Status(d)' = Status(d)
    BY <2>1, <2>3 DEF Status
  <2>6. Abstract!Unblock(c)
    BY <2>4, <2>5, OneMoves DEF Abstract!Unblock
  <2> QED
    BY <2>6 DEF Abstract!Next
<1>12. ASSUME NEW w \in Workers,
              \/ WaitOnTaskList(w) \/ SpuriousWakeup(w)
              \/ MainLoopIdle(w) \/ NoCallback(w)
       PROVE  UNCHANGED [c \in Coros |-> Status(c)]
  BY <1>3, <1>12 DEF WaitOnTaskList, SpuriousWakeup, MainLoopIdle, NoCallback, vars
<1>13. CASE UNCHANGED vars
  BY <1>3, <1>13 DEF vars
<1>14. CASE Next
  BY <1>14, <1>4, <1>5, <1>6, <1>7, <1>8, <1>9, <1>10, <1>11, <1>12
     DEF Next, WorkerStep, RunCallback, RunFunction, SmartRoutineYield, SmartIO
<1> QED
  BY <1>13, <1>14

\* With a batch that fits the queue (FLAGS_acquire_tasks_batch_size at most
\* FLAGS_task_queue_length, as the defaults are) the scheduler implements the
\* life cycle of its coroutines.
THEOREM LifecycleTheorem ==
  ASSUME BatchSize <= QueueLength
  PROVE  Spec => RefinesLifecycle
<1>1. Init => Abstract!Init
  BY DEF Init, Abstract!Init, Status
<1>2. SafetyInv /\ [Next]_vars => [Abstract!Next]_([c \in Coros |-> Status(c)])
  BY StepRefines
<1> QED
  BY <1>1, <1>2, InitSafety, NextSafety, PTL DEF Spec, RefinesLifecycle, Abstract!Spec

\* A coroutine that has not run yet leaves the queues only to be run.
LEMMA StepStarted ==
  ASSUME SafetyInv, StartedNotLost, BatchSize <= QueueLength, [Next]_vars
  PROVE  StartedNotLost'
<1>1. TypeOK /\ Bookkeeping
  BY DEF SafetyInv
<1>2. SUFFICES ASSUME NEW d \in Coros, ctx'[d] = "fresh" PROVE InQueue(d)'
  BY DEF StartedNotLost
<1>3. ASSUME UNCHANGED <<taskList, queue>>, ctx[d] = "fresh"
      PROVE  InQueue(d)'
  BY <1>3 DEF StartedNotLost, InQueue, Listed, Queued
<1>4. ASSUME NEW w \in Workers,
             \/ MainLoopRun(w)
             \/ \E callback \in {"add_back_to_queue", "enable_epoll"} :
                  Yield(w, callback) /\ TaskAvailable(w)
      PROVE  InQueue(d)'
  <2>1. TaskAvailable(w) /\ GetTask(w)
    BY <1>4 DEF MainLoopRun, Yield
  <2>2. PICK t \in Coros : t = NextTask(w)
    BY <2>1, NextTaskFacts
  <2>3. \/ ctx' = [ctx EXCEPT ![t] = "running"]
        \/ ctx' = [[ctx EXCEPT ![current[w]] = "yield"] EXCEPT ![t] = "running"]
    BY <1>4, <2>2 DEF MainLoopRun, Yield, SwitchTo
  <2>4. ctx[d] = "fresh" /\ d # t
    BY <1>1, <1>2, <2>3 DEF TypeOK
  <2> QED
    BY <2>1, <2>2, <2>4, OnlyNextLeaves DEF StartedNotLost
<1>5. ASSUME NEW w \in Workers,
             NEW callback \in {"add_back_to_queue", "enable_epoll"},
             Yield(w, callback), ~TaskAvailable(w)
      PROVE  InQueue(d)'
  <2>1. UNCHANGED <<taskList, queue>> /\ ctx' = [ctx EXCEPT ![current[w]] = "yield"]
    BY <1>5 DEF Yield, SwitchToMain
  <2> QED
    BY <1>1, <1>2, <1>3, <2>1 DEF TypeOK
<1>6. ASSUME NEW w \in Workers, AddBackToQueue(w)
      PROVE  InQueue(d)'
  <2>1. PICK c \in Coros : c = delay[w].args
    BY <1>1, <1>6 DEF AddBackToQueue, Bookkeeping, Booked
  <2>2. ctx' = ctx /\ ThreadPush(w, c, Landed(w)) /\ ~InQueue(c)
    BY <1>6, <2>1, PendingNowhere DEF AddBackToQueue
  <2> QED
    BY <1>2, <2>2, OnlyPushedEnters DEF StartedNotLost
<1>7. ASSUME NEW w \in Workers,
             EnableEpoll(w) \/ DestroyCoro(w) \/ NoCallback(w) \/ Finish(w)
      PROVE  InQueue(d)'
  <2>1. UNCHANGED <<taskList, queue>> /\ ctx[d] = "fresh"
    BY <1>1, <1>2, <1>7 DEF EnableEpoll, DestroyCoro, NoCallback, Finish, TypeOK
  <2> QED
    BY <1>3, <2>1
<1>8. ASSUME NEW c \in Coros,
             StartFromOutside(c) \/ \E w \in Workers : StartFromCoro(w, c)
      PROVE  InQueue(d)'
  <2>1. ctx[c] = "unborn" /\ ctx' = [ctx EXCEPT ![c] = "fresh"]
    BY <1>8 DEF StartFromOutside, StartFromCoro
  <2>2. ~InQueue(c)
    BY <2>1, UnbornNowhere
  <2>3. InQueue(c)' /\ \A e \in Coros \ {c} : InQueue(e)' <=> InQueue(e)
    BY <1>8, <2>2, OnlyListedEnters, OnlyPushedEnters DEF StartFromOutside, StartFromCoro
  <2>4. d = c \/ ctx[d] = "fresh"
    BY <1>1, <1>2, <2>1 DEF TypeOK
  <2> QED
    BY <2>3, <2>4 DEF StartedNotLost
<1>9. ASSUME NEW c \in Coros, EpollResume(c)
      PROVE  InQueue(d)'
  <2>1. c \in parked /\ ctx' = ctx /\ RuntimePush(c, at) /\ queue' = queue
    BY <1>9 DEF EpollResume
  <2>2. ~InQueue(c)
    BY <2>1 DEF SafetyInv, Exclusive, Alone, InQueue
  <2> QED
    BY <1>2, <2>1, <2>2, OnlyListedEnters DEF StartedNotLost
<1>10. CASE \/ UNCHANGED vars
            \/ \E w \in Workers : WaitOnTaskList(w) \/ SpuriousWakeup(w) \/ MainLoopIdle(w)
  BY <1>2, <1>3, <1>10 DEF WaitOnTaskList, SpuriousWakeup, MainLoopIdle, vars
<1> QED
  BY <1>4, <1>5, <1>6, <1>7, <1>8, <1>9, <1>10
     DEF Next, WorkerStep, RunCallback, RunFunction, SmartRoutineYield, SmartIO

\* With such a batch a coroutine that has not run yet never leaves the queues:
\* it is not dropped between the runtime's list and a worker.
THEOREM StartedTheorem ==
  ASSUME BatchSize <= QueueLength
  PROVE  Spec => []StartedNotLost
<1>1. Init => StartedNotLost
  BY DEF Init, StartedNotLost
<1>2. SafetyInv /\ StartedNotLost /\ [Next]_vars => StartedNotLost'
  BY StepStarted
<1> QED
  BY <1>1, <1>2, InitSafety, NextSafety, PTL DEF Spec

=============================================================================
