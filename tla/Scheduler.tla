------------------------------ MODULE Scheduler ------------------------------
(***************************************************************************)
(* The coroutine scheduler: SmartRuntime (the shared task list), the       *)
(* SmartThread of every worker (its bounded queue, its current coroutine   *)
(* and its delayed callback) and the context switches of SmartCoro.        *)
(*                                                                         *)
(* One step of a worker runs from one access to shared state to the next:  *)
(* task_list_ is accessed under its mutex, everything else a worker        *)
(* touches belongs to its own SmartThread.  The exception is coro_runner,  *)
(* which reads tls_smart_thread once, when the coroutine starts (tlsSt),   *)
(* and enters the main_loop of THAT SmartThread when the function returns, *)
(* whatever worker the coroutine has migrated to since.  The worker is     *)
(* then "foreign": two operating-system threads use one SmartThread        *)
(* without synchronisation, the behaviour is undefined and the model       *)
(* follows it no further.                                                  *)
(***************************************************************************)
EXTENDS Naturals, Sequences, Functions

CONSTANTS
  Workers,      \* worker threads, each with the SmartThread of the same name
  Coros,        \* heap-allocated coroutines that may be started
  QueueLength,  \* FLAGS_task_queue_length
  BatchSize,    \* FLAGS_acquire_tasks_batch_size
  MaxSuspends,  \* bound: how often one coroutine suspends itself
  Main,         \* the main_coro_ of a worker
  NoCoro,       \* a null SmartCoro pointer
  NoWorker      \* tls_st of a coroutine that has not been entered

ASSUME ConstantsAssumption ==
  /\ QueueLength \in Nat \ {0}
  /\ BatchSize \in Nat \ {0}
  /\ MaxSuspends \in Nat
  /\ Main \notin Coros
  /\ NoCoro \notin Coros
  /\ NoWorker \notin Workers

VARIABLES
  taskList,     \* SmartRuntime::task_list_
  queue,        \* task_queue_ of each SmartThread, oldest first
  current,      \* current_coro_ of each SmartThread
  delay,        \* delay_callback_ and delay_callback_args_ of each SmartThread
  at,           \* where each worker thread is in its code
  ctx,          \* what the context of each coroutine holds
  tlsSt,        \* the local tls_st of coro_runner, per coroutine
  parked,       \* coroutines whose EPollItem is registered with the epoller
  suspends      \* how often each coroutine has suspended itself

vars == <<taskList, queue, current, delay, at, ctx, tlsSt, parked, suspends>>

\* Positions of a worker.  "init": about to lock in wait_on_task_list;
\* "waiting": blocked on task_list_cond_; "main_loop": about to call get_task;
\* "landed": after a jump, where delay_callback_ is tested (coro_runner's entry,
\* main_loop after switch_to); "fn": in the coroutine's function; "foreign":
\* in the main_loop of another worker's SmartThread.
Positions == {"init", "waiting", "main_loop", "landed", "fn", "foreign"}

\* Contexts.  "fresh": made by make_fcontext, a jump enters coro_runner;
\* "yield": saved in yield(); "finished": the function has returned and the
\* stack carries a main_loop; "freed": the stack and the object are deleted.
Contexts == {"unborn", "fresh", "running", "yield", "finished", "freed"}

Callbacks == {"nullptr", "add_back_to_queue", "enable_epoll", "destroy_coro"}

NoDelay == [fn |-> "nullptr", args |-> NoCoro]

Raced == \E w \in Workers : at[w] = "foreign"

\* The coroutines in the runtime's list and in a worker's queue.
Listed == Range(taskList)
Queued(w) == Range(queue[w])

\* Some worker may pick the coroutine up.
InQueue(c) == c \in Listed \/ \E w \in Workers : c \in Queued(w)

Least(m, n) == IF m <= n THEN m ELSE n

Init ==
  /\ taskList = <<>>
  /\ queue = [w \in Workers |-> <<>>]
  /\ current = [w \in Workers |-> Main]
  /\ delay = [w \in Workers |-> NoDelay]
  /\ at = [w \in Workers |-> "init"]
  /\ ctx = [c \in Coros |-> "unborn"]
  /\ tlsSt = [c \in Coros |-> NoWorker]
  /\ parked = {}
  /\ suspends = [c \in Coros |-> 0]

-----------------------------------------------------------------------------
(* SmartRuntime                                                            *)

\* Mutant of NotifyOne: push_task without the notification.
BugNotifyNobody(pos) == at' = pos

\* notify_one on task_list_cond_, applied to the positions pos.
NotifyOne(pos) ==
  LET waiters == {w \in Workers : pos[w] = "waiting"}
  IN  \/ waiters = {} /\ at' = pos
      \/ \E w \in waiters : at' = [pos EXCEPT ![w] = "init"]

\* SmartRuntime::push_task.
RuntimePush(c, pos) ==
  /\ taskList' = Append(taskList, c)
  /\ NotifyOne(pos)

\* SmartRuntime::wait_on_task_list, entered once by every worker and again
\* after each wakeup: the predicate is tested under the lock.
WaitOnTaskList(w) ==
  /\ ~Raced
  /\ at[w] = "init"
  /\ at' = [at EXCEPT ![w] = IF taskList = <<>> THEN "waiting" ELSE "main_loop"]
  /\ UNCHANGED <<taskList, queue, current, delay, ctx, tlsSt, parked, suspends>>

\* A condition variable may wake a waiter that nobody notified.
SpuriousWakeup(w) ==
  /\ ~Raced
  /\ at[w] = "waiting"
  /\ at' = [at EXCEPT ![w] = "init"]
  /\ UNCHANGED <<taskList, queue, current, delay, ctx, tlsSt, parked, suspends>>

-----------------------------------------------------------------------------
(* SmartThread: the task queue                                             *)

\* Mutant of ThreadPush: the result of task_queue_.push is not looked at.
BugPushDropsWhenFull(w, c, pos) ==
  /\ queue' = IF Len(queue[w]) < QueueLength
              THEN [queue EXCEPT ![w] = Append(@, c)] ELSE queue
  /\ taskList' = taskList
  /\ at' = pos

\* SmartThread::push_task: the own queue, or the runtime when that is full.
ThreadPush(w, c, pos) ==
  \/ /\ Len(queue[w]) < QueueLength
     /\ queue' = [queue EXCEPT ![w] = Append(@, c)]
     /\ taskList' = taskList
     /\ at' = pos
  \/ /\ Len(queue[w]) >= QueueLength
     /\ RuntimePush(c, pos)
     /\ queue' = queue

\* SmartRuntime::get_tasks: how many tasks one call splices off.
BatchCount == Least(BatchSize, Len(taskList))

\* get_task returns a coroutine rather than nullptr.
TaskAvailable(w) == queue[w] # <<>> \/ BatchCount # 0

\* The coroutine get_task returns.
NextTask(w) == IF queue[w] # <<>> THEN Head(queue[w]) ELSE Head(taskList)

\* Mutant of GetTask: front() without pop().
BugGetTaskWithoutPop(w) ==
  \/ queue[w] # <<>> /\ UNCHANGED <<queue, taskList>>
  \/ /\ queue[w] = <<>>
     /\ queue' = [queue EXCEPT ![w] =
                    SubSeq(taskList, 1, Least(BatchCount, QueueLength))]
     /\ taskList' = SubSeq(taskList, BatchCount + 1, Len(taskList))

\* SmartThread::get_task when it returns a coroutine.  A batch goes through the
\* bounded queue: what push refuses is dropped, as its result is not looked at.
GetTask(w) ==
  \/ /\ queue[w] # <<>>
     /\ queue' = [queue EXCEPT ![w] = Tail(@)]
     /\ taskList' = taskList
  \/ /\ queue[w] = <<>>
     /\ queue' = [queue EXCEPT ![w] =
                    SubSeq(taskList, 2, Least(BatchCount, QueueLength))]
     /\ taskList' = SubSeq(taskList, BatchCount + 1, Len(taskList))

-----------------------------------------------------------------------------
(* SmartThread: switching                                                  *)

\* Mutant of SwitchTo: the context that is left is not stored.
BugSwitchWithoutSave(w, next, saved) ==
  /\ current' = [current EXCEPT ![w] = next]
  /\ ctx' = [ctx EXCEPT ![next] = "running"]
  /\ at' = [at EXCEPT ![w] = IF ctx[next] = "yield" THEN "fn" ELSE "landed"]

\* SmartThread::switch_to from the running stack to coroutine next.  A fresh
\* context lands in coro_runner; one saved in yield() goes on in its function
\* without a look at delay_callback_.  saved is ctx with the left one stored.
SwitchTo(w, next, saved) ==
  /\ current' = [current EXCEPT ![w] = next]
  /\ ctx' = [saved EXCEPT ![next] = "running"]
  /\ at' = [at EXCEPT ![w] = IF saved[next] = "yield" THEN "fn" ELSE "landed"]

\* switch_to(main_coro_): main_loop goes on behind its own switch_to.
SwitchToMain(w, saved) ==
  /\ current' = [current EXCEPT ![w] = Main]
  /\ ctx' = saved
  /\ at' = [at EXCEPT ![w] = "landed"]

\* SmartThread::main_loop finds no task: it sleeps and tries again.
MainLoopIdle(w) ==
  /\ ~Raced
  /\ at[w] = "main_loop"
  /\ ~TaskAvailable(w)
  /\ UNCHANGED vars

\* SmartThread::main_loop, on the thread's own stack or on that of a finished
\* coroutine: take a task and switch to it.
MainLoopRun(w) ==
  /\ ~Raced
  /\ at[w] = "main_loop"
  /\ TaskAvailable(w)
  /\ GetTask(w)
  /\ SwitchTo(w, NextTask(w), ctx)
  /\ UNCHANGED <<delay, tlsSt, parked, suspends>>

\* SmartThread::yield(true, callback, ...) by the running coroutine.
Yield(w, callback) ==
  LET c == current[w]
      saved == [ctx EXCEPT ![c] = "yield"]
  IN  /\ ~Raced
      /\ at[w] = "fn"
      /\ suspends[c] < MaxSuspends
      /\ suspends' = [suspends EXCEPT ![c] = @ + 1]
      /\ delay' = [delay EXCEPT ![w] = [fn |-> callback, args |-> c]]
      /\ \/ /\ TaskAvailable(w)
            /\ GetTask(w)
            /\ SwitchTo(w, NextTask(w), saved)
         \/ /\ ~TaskAvailable(w)
            /\ SwitchToMain(w, saved)
            /\ UNCHANGED <<taskList, queue>>
      /\ UNCHANGED <<tlsSt, parked>>

\* smart_routine_yield in a coroutine.
SmartRoutineYield(w) == Yield(w, "add_back_to_queue")

\* smart_read, smart_write, smart_accept, smart_connect, smart_read_until: the
\* coroutine suspends and leaves the registration of its EPollItem behind.
SmartIO(w) == Yield(w, "enable_epoll")

-----------------------------------------------------------------------------
(* SmartThread: the delayed callback                                       *)

\* Mutant of AfterLanding: tls_st is a static that the first coroutine sets.
BugAfterLandingStatic(w) ==
  LET seen == Range(tlsSt) \ {NoWorker}
      st == IF seen = {} THEN w ELSE CHOOSE v \in seen : TRUE
  IN  /\ delay' = [delay EXCEPT ![w] = NoDelay]
      /\ tlsSt' = [c \in Coros |-> IF c = current[w] THEN st ELSE tlsSt[c]]
      /\ UNCHANGED <<current, suspends>>

\* The code behind the test of delay_callback_: coro_runner reads
\* tls_smart_thread on entry and calls the function, main_loop goes round.
AfterLanding(w) ==
  /\ delay' = [delay EXCEPT ![w] = NoDelay]
  /\ tlsSt' = [c \in Coros |-> IF c = current[w] THEN w ELSE tlsSt[c]]
  /\ UNCHANGED <<current, suspends>>

Landed(w) == [at EXCEPT ![w] = IF current[w] = Main THEN "main_loop" ELSE "fn"]

NoCallback(w) ==
  /\ ~Raced
  /\ at[w] = "landed"
  /\ delay[w].fn = "nullptr"
  /\ at' = Landed(w)
  /\ AfterLanding(w)
  /\ UNCHANGED <<taskList, queue, ctx, parked>>

\* Mutant of AddBackToQueue: the current coroutine goes back to the queue.
BugAddBackCurrent(w) ==
  /\ ~Raced
  /\ at[w] = "landed"
  /\ delay[w].fn = "add_back_to_queue"
  /\ ThreadPush(w, current[w], Landed(w))
  /\ AfterLanding(w)
  /\ UNCHANGED <<ctx, parked>>

\* add_back_to_queue(coro)
AddBackToQueue(w) ==
  /\ ~Raced
  /\ at[w] = "landed"
  /\ delay[w].fn = "add_back_to_queue"
  /\ ThreadPush(w, delay[w].args, Landed(w))
  /\ AfterLanding(w)
  /\ UNCHANGED <<ctx, parked>>

\* enable_epoll_reading(item), enable_epoll_writing(item)
EnableEpoll(w) ==
  /\ ~Raced
  /\ at[w] = "landed"
  /\ delay[w].fn = "enable_epoll"
  /\ parked' = parked \cup {delay[w].args}
  /\ at' = Landed(w)
  /\ AfterLanding(w)
  /\ UNCHANGED <<taskList, queue, ctx>>

\* destroy_coro(coro)
DestroyCoro(w) ==
  /\ ~Raced
  /\ at[w] = "landed"
  /\ delay[w].fn = "destroy_coro"
  /\ ctx' = [ctx EXCEPT ![delay[w].args] = "freed"]
  /\ at' = Landed(w)
  /\ AfterLanding(w)
  /\ UNCHANGED <<taskList, queue, parked>>

-----------------------------------------------------------------------------
(* Starting, finishing and resuming coroutines                             *)

\* smart_routine_start called by a running coroutine.
StartFromCoro(w, c) ==
  /\ ~Raced
  /\ at[w] = "fn"
  /\ ctx[c] = "unborn"
  /\ ctx' = [ctx EXCEPT ![c] = "fresh"]
  /\ ThreadPush(w, c, at)
  /\ UNCHANGED <<current, delay, tlsSt, parked, suspends>>

\* smart_routine_start called by a thread that is no worker.
StartFromOutside(c) ==
  /\ ~Raced
  /\ ctx[c] = "unborn"
  /\ ctx' = [ctx EXCEPT ![c] = "fresh"]
  /\ RuntimePush(c, at)
  /\ UNCHANGED <<queue, current, delay, tlsSt, parked, suspends>>

\* Mutant of EpollResume: the item is disabled and nothing is pushed.
BugResumeOnlyDisables(c) ==
  /\ ~Raced
  /\ c \in parked
  /\ parked' = parked \ {c}
  /\ UNCHANGED <<taskList, queue, current, delay, at, ctx, tlsSt, suspends>>

\* resume_read_coro, resume_write_coro on the epoller thread: the item leaves
\* the interest list, then smart_routine_resume pushes to the runtime.
EpollResume(c) ==
  /\ ~Raced
  /\ c \in parked
  /\ parked' = parked \ {c}
  /\ RuntimePush(c, at)
  /\ UNCHANGED <<queue, current, delay, ctx, tlsSt, suspends>>

\* Mutant of Finish: the coroutine is deleted at once, under its own feet.
BugFinishDeletes(w) ==
  /\ ~Raced
  /\ at[w] = "fn"
  /\ ctx' = [ctx EXCEPT ![current[w]] = "freed"]
  /\ at' = [at EXCEPT ![w] = IF tlsSt[current[w]] = w THEN "main_loop" ELSE "foreign"]
  /\ UNCHANGED <<taskList, queue, current, delay, tlsSt, parked, suspends>>

\* coro_runner after the function has returned.  tls_st is the SmartThread the
\* coroutine was started on: its delay_callback_ is set, its main_loop entered.
Finish(w) ==
  LET c == current[w]
      st == tlsSt[c]
  IN  /\ ~Raced
      /\ at[w] = "fn"
      /\ ctx' = [ctx EXCEPT ![c] = "finished"]
      /\ delay' = [delay EXCEPT ![st] = [fn |-> "destroy_coro", args |-> c]]
      /\ at' = [at EXCEPT ![w] = IF st = w THEN "main_loop" ELSE "foreign"]
      /\ UNCHANGED <<taskList, queue, current, tlsSt, parked, suspends>>

-----------------------------------------------------------------------------
RunCallback(w) ==
  NoCallback(w) \/ AddBackToQueue(w) \/ EnableEpoll(w) \/ DestroyCoro(w)

RunFunction(w) ==
  \/ SmartRoutineYield(w)
  \/ SmartIO(w)
  \/ Finish(w)
  \/ \E c \in Coros : StartFromCoro(w, c)

WorkerStep(w) ==
  WaitOnTaskList(w) \/ MainLoopRun(w) \/ RunCallback(w) \/ RunFunction(w)

Next ==
  \/ \E w \in Workers : WorkerStep(w) \/ MainLoopIdle(w) \/ SpuriousWakeup(w)
  \/ \E c \in Coros : StartFromOutside(c) \/ EpollResume(c)

Spec == Init /\ [][Next]_vars

-----------------------------------------------------------------------------
(* Properties                                                              *)

\* The type of every variable; a worker runs a function only as a coroutine.
TypeOK ==
  /\ taskList \in Seq(Coros)
  /\ queue \in [Workers -> Seq(Coros)]
  /\ current \in [Workers -> Coros \cup {Main}]
  /\ delay \in [Workers -> [fn : Callbacks, args : Coros \cup {NoCoro}]]
  /\ at \in [Workers -> Positions]
  /\ ctx \in [Coros -> Contexts]
  /\ tlsSt \in [Coros -> Workers \cup {NoWorker}]
  /\ parked \in SUBSET Coros
  /\ suspends \in [Coros -> Nat]

\* A coroutine that something will put on a queue or run.
Held(c) ==
  \/ InQueue(c) \/ c \in parked
  \/ \E w \in Workers : c \in {delay[w].args, current[w]}

\* Coroutine c is in at most one place: the runtime's list, the interest list
\* of the epoller, the queue, the delayed callback or the stack of one worker.
\* The exception is a coroutine that has finished: its destroy_coro is pending
\* with the SmartThread whose main_loop still runs on its stack.
Alone(c) ==
  /\ c \in Listed => c \notin parked
  /\ \A w \in Workers :
       c \in Queued(w) \cup {delay[w].args, current[w]} => c \notin Listed \cup parked
  /\ \A v, w \in Workers :
       /\ c \in Queued(v) => c \notin {delay[w].args, current[w]}
       /\ c \in Queued(v) \cap Queued(w) => v = w
       /\ c = delay[v].args /\ c = delay[w].args => v = w
       /\ c = current[v] /\ c = current[w] => v = w
       /\ c = current[v] /\ c = delay[w].args => v = w \/ at[v] = "foreign"

\* No coroutine is in two places at once or twice in one of them.  This is what
\* keeps push_task, get_task and the delayed callbacks (add_back_to_queue,
\* enable_epoll) from ever running one stack on two threads.
Exclusive ==
  /\ IsInjective(taskList)
  /\ \A w \in Workers : IsInjective(queue[w])
  /\ \A c \in Coros : Alone(c)

\* Whatever a worker or the epoller may resume has its context stored: it has
\* not been entered yet or has left through yield().  This is the reason why
\* yield() defers its callback until the switch is over.
ResumableIsSaved ==
  \A c \in Coros :
    InQueue(c) \/ c \in parked => ctx[c] \in {"fresh", "yield"}

\* destroy_coro never frees the stack a worker is on: the current coroutine of
\* a worker is running its function, or has finished and lends its stack to
\* main_loop, and it is not freed before the worker has left it.
StackAlive ==
  \A w \in Workers :
    current[w] # Main =>
      /\ at[w] \in {"landed", "fn"} => ctx[current[w]] = "running"
      /\ at[w] \in {"main_loop", "foreign"} => ctx[current[w]] = "finished"

\* A coroutine that was started and has not run yet is in the runtime's list
\* or in a worker's queue, whatever the workers have moved or overflowed.
StartedNotLost ==
  \A c \in Coros : ctx[c] = "fresh" => InQueue(c)

\* "deferred adding back to task queue": a coroutine that has suspended is
\* always on its way back, in a queue, with the epoller or in the pending
\* delayed callback of a worker.
SuspendedNotLost ==
  \A c \in Coros : ctx[c] = "yield" => Held(c)

\* A worker enters the main_loop of another's SmartThread only at the end of a
\* coroutine that has suspended and moved since it read tls_smart_thread, and
\* never the one of the coroutine's own worker: a program whose coroutines do
\* not suspend keeps every SmartThread to its thread.
AstrayOnlyMigrated ==
  \A w \in Workers :
    at[w] = "foreign" =>
      suspends[current[w]] > 0 /\ tlsSt[current[w]] \in Workers \ {w}

\* The state of a coroutine as Lifecycle sees it.
Status(c) ==
  IF ctx[c] \notin {"fresh", "yield"} THEN ctx[c]
  ELSE IF c \in parked THEN "blocked"
  ELSE IF InQueue(c) THEN "ready"
  ELSE "suspended"

Abstract == INSTANCE Lifecycle WITH status <- [c \in Coros |-> Status(c)]

\* The scheduler implements the life cycle of its coroutines: no interleaving
\* of workers, callbacks and the epoller resumes a coroutine that is running,
\* frees one that has not returned, or takes one out of a queue except to run it.
RefinesLifecycle == Abstract!Spec

=============================================================================
