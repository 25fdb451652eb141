------------------------------- MODULE Runtime -------------------------------
(***************************************************************************)
(* The life of SmartRuntime around the scheduler: get_instance and init,   *)
(* which create the threads, and exit_clean with the destructor, which     *)
(* joins them when the process calls exit().  The workers take the steps   *)
(* of Scheduler in between.                                                *)
(*                                                                         *)
(* exit() may be called by a thread of the program ("outside") or by a     *)
(* coroutine, whose worker then never comes back to its tasks.  The        *)
(* workers are created and joined in any order, where the code takes the   *)
(* order of its array.                                                     *)
(***************************************************************************)
EXTENDS Scheduler

\* "outside" names the threads that are no workers.
ASSUME OutsideAssumption == "outside" \notin Workers \cup {NoWorker}

VARIABLES
  once,         \* once_control_: "never", "running" or "done"
  thread,       \* the thread of each worker: "none", "running" or "failed"
  timer,        \* the timer thread: "none", "running", "ended" or "failed"
  exitAt,       \* where exit_clean is
  exiter,       \* who has called exit(): NoWorker, "outside" or a worker
  toJoin        \* workers the destructor has not joined yet

runtimeVars == <<once, thread, timer, exitAt, exiter, toJoin>>
allVars == <<vars, runtimeVars>>

\* "workers", "timer" and "again" are the three joins of the destructor; "crashed"
\* is what a join of a thread that does not exist may do.
ExitPoints == {"no", "workers", "timer", "again", "freed", "crashed"}

RuntimeInit ==
  /\ Init
  /\ once = "never"
  /\ thread = [w \in Workers |-> "none"]
  /\ timer = "none"
  /\ exitAt = "no"
  /\ exiter = NoWorker
  /\ toJoin = Workers

\* The process and the SmartRuntime still exist.
Running == exitAt \notin {"freed", "crashed"}

-----------------------------------------------------------------------------
(* get_instance and init                                                   *)

\* Mutant of GetInstance: a flag that is set before init runs.
BugOnceSetFirst ==
  /\ once = "never"
  /\ once' = "done"
  /\ UNCHANGED <<vars, thread, timer, exitAt, exiter, toJoin>>

\* pthread_once: the first caller runs init, the others wait for its end.
GetInstance ==
  /\ once = "never"
  /\ once' = "running"
  /\ UNCHANGED <<vars, thread, timer, exitAt, exiter, toJoin>>

\* pthread_create of a worker; nobody looks at its result.
CreateWorker(w) ==
  /\ once = "running"
  /\ thread[w] = "none"
  /\ \/ thread' = [thread EXCEPT ![w] = "running"]
     \/ thread' = [thread EXCEPT ![w] = "failed"]
  /\ UNCHANGED <<vars, once, timer, exitAt, exiter, toJoin>>

\* The epoller and the timer come last, and may fail to be created too.  Reactor
\* follows the epoller; one that was not created never resumes a coroutine here.
InitEnds ==
  /\ once = "running"
  /\ \A w \in Workers : thread[w] # "none"
  /\ timer' \in {"running", "failed"}
  /\ once' = "done"
  /\ UNCHANGED <<vars, thread, exitAt, exiter, toJoin>>

\* SmartTimer::run returns when epoll_create or epoll_wait fails.
TimerEnds ==
  /\ Running
  /\ timer = "running"
  /\ timer' = "ended"
  /\ UNCHANGED <<vars, once, thread, exitAt, exiter, toJoin>>

-----------------------------------------------------------------------------
(* The scheduler in its runtime                                            *)

\* Mutant of MayRun: a worker uses the runtime without get_instance.
BugMayRunEarly(w) == Running /\ thread[w] = "running" /\ exiter # w

\* A worker thread goes on.  Its first step is wait_on_task_list, behind a
\* get_instance that waits for init; one that has called exit() is in there.
MayRun(w) ==
  /\ Running
  /\ thread[w] = "running"
  /\ exiter # w
  /\ at[w] = "init" => once = "done"

RunWorker(w) == MayRun(w) /\ WorkerStep(w) /\ UNCHANGED runtimeVars

IdleWorker(w) ==
  /\ MayRun(w)
  /\ MainLoopIdle(w) \/ SpuriousWakeup(w)
  /\ UNCHANGED runtimeVars

\* smart_routine_start by a thread of the program, through get_instance.
StartOutside(c) ==
  /\ Running
  /\ once = "done"
  /\ StartFromOutside(c)
  /\ UNCHANGED runtimeVars

ResumeOnEpoller(c) == Running /\ EpollResume(c) /\ UNCHANGED runtimeVars

-----------------------------------------------------------------------------
(* exit_clean and ~SmartRuntime                                            *)

ExitBegins(who) ==
  /\ exitAt = "no"
  /\ once = "done"
  /\ who \in Workers => MayRun(who) /\ at[who] = "fn"
  /\ exiter' = who
  /\ exitAt' = "workers"
  /\ UNCHANGED <<vars, once, thread, timer, toJoin>>

\* Mutant of JoinWorker: the joins of the workers are skipped.
BugJoinSkipped(w) ==
  /\ exitAt = "workers"
  /\ w \in toJoin
  /\ toJoin' = toJoin \ {w}
  /\ exitAt' = IF toJoin' = {} THEN "timer" ELSE exitAt
  /\ UNCHANGED <<vars, once, thread, timer, exiter>>

\* pthread_join of a worker returns for the calling thread itself (EDEADLK), and
\* for one that was never created, unless that crashes.  Workers do not end.
JoinWorker(w) ==
  /\ exitAt = "workers"
  /\ w \in toJoin
  /\ w = exiter \/ thread[w] = "failed"
  /\ toJoin' = toJoin \ {w}
  /\ \/ exitAt' = IF toJoin' = {} THEN "timer" ELSE exitAt
     \/ thread[w] = "failed" /\ exitAt' = "crashed"
  /\ UNCHANGED <<vars, once, thread, timer, exiter>>

\* The timer thread is joined, and then joined again; a join of one that was
\* joined or never created returns, unless it crashes.
JoinTimer ==
  /\ timer \in {"ended", "failed"}
  /\ \/ exitAt = "timer" /\ exitAt' = "again"
     \/ exitAt = "timer" /\ timer = "failed" /\ exitAt' = "crashed"
     \/ exitAt = "again" /\ exitAt' \in {"freed", "crashed"}
  /\ UNCHANGED <<vars, once, thread, timer, exiter, toJoin>>

-----------------------------------------------------------------------------
RuntimeNext ==
  \/ GetInstance \/ InitEnds \/ TimerEnds \/ JoinTimer \/ ExitBegins("outside")
  \/ \E w \in Workers : \/ CreateWorker(w) \/ JoinWorker(w) \/ ExitBegins(w)
                        \/ RunWorker(w) \/ IdleWorker(w)
  \/ \E c \in Coros : StartOutside(c) \/ ResumeOnEpoller(c)

RuntimeSpec == RuntimeInit /\ [][RuntimeNext]_allVars

\* A worker that can go on does; nothing else has to happen.
RuntimeFairSpec == RuntimeSpec /\ \A w \in Workers : WF_allVars(RunWorker(w))

-----------------------------------------------------------------------------
(* Properties                                                              *)

\* The type of the variables of this module; who exits is known, and the once
\* control is done when init has started the last thread.
RuntimeTypeOK ==
  /\ once \in {"never", "running", "done"}
  /\ thread \in [Workers -> {"none", "running", "failed"}]
  /\ timer \in {"none", "running", "ended", "failed"}
  /\ exitAt \in ExitPoints
  /\ exiter \in Workers \cup {NoWorker, "outside"}
  /\ toJoin \subseteq Workers
  /\ exitAt = "no" <=> exiter = NoWorker
  /\ once = "done" <=> timer # "none"

\* No worker gets past get_instance, and no coroutine into a queue, before init
\* has created every thread: workers that were created first do not run ahead of
\* the vectors and threads that init still fills.
InitBeforeUse ==
  taskList # <<>> \/ (\E w \in Workers : at[w] # "init") =>
    once = "done" /\ \A w \in Workers : thread[w] # "none"

\* The destructor gets past the joins, to the delete of threads_ and of the tasks,
\* only when no worker thread is left but the one that has called exit().  Since
\* no worker ever ends, exit() does not return while another worker exists.
FreedAlone ==
  exitAt \in {"timer", "again", "freed"} =>
    \A w \in Workers : thread[w] = "running" => w = exiter

\* Some worker still takes tasks.
Served == \E w \in Workers : thread[w] = "running" /\ exiter # w

\* Every coroutine that is started runs to its end or to its first suspension,
\* whatever the others do and although exit() waits in one of the threads:
\* unless no worker is left, the process ends, a worker has gone astray into
\* another's main_loop, or the coroutine is in the queue of a worker that has
\* called exit().  MaxSuspends keeps the others from yielding to each other for
\* ever, with which they would keep a worker from the runtime's list.
StartedRuns ==
  \A c \in Coros :
    ctx[c] = "fresh" ~>
      \/ ctx[c] \in {"finished", "freed"} \/ suspends[c] > 0
      \/ ~Served \/ ~Running \/ Raced
      \/ exiter \in Workers /\ c \in Queued(exiter) \cup {current[exiter]}

=============================================================================
