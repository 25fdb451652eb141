---------------------------- MODULE RuntimeProofs ----------------------------
(***************************************************************************)
(* Proofs about Runtime: what SmartRuntime's init and exit_clean promise,  *)
(* and that the scheduler inside the runtime takes only steps of Scheduler,*)
(* so that what SchedulerProofs shows holds for the whole process.         *)
(***************************************************************************)
EXTENDS Runtime, SchedulerProofs

-----------------------------------------------------------------------------
(* The scheduler inside the runtime                                        *)

\* A step of the runtime is a step of the scheduler or leaves it alone.
LEMMA RuntimeStep == [RuntimeNext]_allVars => [Next]_vars
<1> SUFFICES ASSUME [RuntimeNext]_allVars PROVE Next \/ UNCHANGED vars
  OBVIOUS
<1>1. ASSUME NEW w \in Workers, RunWorker(w) \/ IdleWorker(w)
      PROVE  Next
  BY <1>1 DEF RunWorker, IdleWorker, Next
<1>2. ASSUME NEW c \in Coros, StartOutside(c) \/ ResumeOnEpoller(c)
      PROVE  Next
  BY <1>2 DEF StartOutside, ResumeOnEpoller, Next
<1>3. CASE \/ UNCHANGED allVars
           \/ GetInstance \/ InitEnds \/ TimerEnds \/ JoinTimer \/ ExitBegins("outside")
           \/ \E w \in Workers : CreateWorker(w) \/ JoinWorker(w) \/ ExitBegins(w)
  BY <1>3 DEF allVars, GetInstance, InitEnds, TimerEnds, JoinTimer, ExitBegins,
              CreateWorker, JoinWorker
<1> QED
  BY <1>1, <1>2, <1>3 DEF RuntimeNext

\* Creating and joining the threads adds nothing to what the scheduler does:
\* every behaviour of the process is one of Scheduler.
THEOREM RuntimeImplementsScheduler == RuntimeSpec => Spec
<1>1. RuntimeInit => Init
  BY DEF RuntimeInit
<1> QED
  BY <1>1, RuntimeStep, PTL DEF RuntimeSpec, Spec

\* In the whole process no coroutine is in two places at once, whatever has been
\* resumed has its context stored, and no stack is freed under a worker.
THEOREM RuntimeKeepsCoroutines ==
  RuntimeSpec => [](Exclusive /\ ResumableIsSaved /\ StackAlive)
BY RuntimeImplementsScheduler, ExclusiveTheorem, SavedTheorem, StackTheorem, PTL

-----------------------------------------------------------------------------
(* init and exit_clean                                                     *)

\* Before init has ended the scheduler is in its initial state; afterwards every
\* thread has been created, or has failed to be, for good.
InitOrder ==
  /\ once = "done" => \A w \in Workers : thread[w] # "none"
  /\ once # "done" => /\ taskList = <<>> /\ parked = {}
                      /\ \A w \in Workers : at[w] = "init"

\* exit() comes after init; a worker that has been joined does not exist or has
\* called exit() itself, and the destructor goes on when all are joined.
JoinOrder ==
  /\ exitAt # "no" => once = "done"
  /\ exitAt # "no" =>
       \A w \in Workers \ toJoin : thread[w] = "running" => w = exiter
  /\ exitAt = "no" => toJoin = Workers
  /\ exitAt \in {"timer", "again", "freed"} => toJoin = {}

RuntimeInv == RuntimeTypeOK /\ InitOrder /\ JoinOrder

\* The process starts with nothing created and nothing joined.
LEMMA RuntimeInitInv == RuntimeInit => RuntimeInv
BY DEF RuntimeInit, Init, RuntimeInv, RuntimeTypeOK, InitOrder, JoinOrder, ExitPoints

\* Every step keeps the order of init and exit_clean.
LEMMA RuntimeNextInv == RuntimeInv /\ [RuntimeNext]_allVars => RuntimeInv'
<1> SUFFICES ASSUME RuntimeInv, [RuntimeNext]_allVars PROVE RuntimeInv'
  OBVIOUS
<1>1. RuntimeTypeOK /\ InitOrder /\ JoinOrder
  BY DEF RuntimeInv
<1>2. CASE UNCHANGED allVars
  BY <1>1, <1>2 DEF allVars, vars, runtimeVars, RuntimeInv, RuntimeTypeOK, InitOrder,
                    JoinOrder
<1>3. CASE GetInstance
  BY <1>1, <1>3 DEF GetInstance, vars, RuntimeInv, RuntimeTypeOK, InitOrder, JoinOrder
<1>4. CASE InitEnds
  BY <1>1, <1>4 DEF InitEnds, vars, RuntimeInv, RuntimeTypeOK, InitOrder, JoinOrder
<1>5. CASE TimerEnds
  BY <1>1, <1>5 DEF TimerEnds, vars, RuntimeInv, RuntimeTypeOK, InitOrder, JoinOrder
<1>6. CASE JoinTimer
  BY <1>1, <1>6 DEF JoinTimer, vars, RuntimeInv, RuntimeTypeOK, InitOrder, JoinOrder,
                    ExitPoints
<1>7. ASSUME NEW who \in Workers \cup {"outside"}, ExitBegins(who)
      PROVE  RuntimeInv'
  <2>1. who # NoWorker
    BY ConstantsAssumption, OutsideAssumption
  <2> QED
    BY <1>1, <1>7, <2>1 DEF ExitBegins, vars, RuntimeInv, RuntimeTypeOK, InitOrder,
                            JoinOrder, ExitPoints
<1>8. ASSUME NEW w \in Workers, CreateWorker(w)
      PROVE  RuntimeInv'
  BY <1>1, <1>8 DEF CreateWorker, vars, RuntimeInv, RuntimeTypeOK, InitOrder, JoinOrder
<1>9. ASSUME NEW w \in Workers, JoinWorker(w)
      PROVE  RuntimeInv'
  BY <1>1, <1>9 DEF JoinWorker, vars, RuntimeInv, RuntimeTypeOK, InitOrder, JoinOrder,
                    ExitPoints
<1>10. ASSUME UNCHANGED runtimeVars, once = "done"
       PROVE  RuntimeInv'
  BY <1>1, <1>10 DEF runtimeVars, RuntimeInv, RuntimeTypeOK, InitOrder, JoinOrder
<1>11. ASSUME NEW w \in Workers, RunWorker(w) \/ IdleWorker(w)
       PROVE  RuntimeInv'
  <2>1. once = "done"
    BY <1>1, <1>11 DEF RunWorker, IdleWorker, MayRun, InitOrder
  <2> QED
    BY <1>10, <1>11, <2>1 DEF RunWorker, IdleWorker
<1>12. ASSUME NEW c \in Coros, StartOutside(c) \/ ResumeOnEpoller(c)
       PROVE  RuntimeInv'
  <2>1. once = "done"
    BY <1>1, <1>12 DEF StartOutside, ResumeOnEpoller, EpollResume, InitOrder
  <2> QED
    BY <1>10, <1>12, <2>1 DEF StartOutside, ResumeOnEpoller
<1> QED
  BY <1>2, <1>3, <1>4, <1>5, <1>6, <1>7, <1>8, <1>9, <1>11, <1>12 DEF RuntimeNext

\* Type correctness of the runtime's own state.
THEOREM RuntimeTypeCorrect == RuntimeSpec => []RuntimeTypeOK
<1>1. RuntimeInv => RuntimeTypeOK
  BY DEF RuntimeInv
<1> QED
  BY <1>1, RuntimeInitInv, RuntimeNextInv, PTL DEF RuntimeSpec

\* No worker gets past get_instance, and no coroutine into the list, before init
\* has created every thread.
THEOREM InitTheorem == RuntimeSpec => []InitBeforeUse
<1>1. RuntimeInv => InitBeforeUse
  BY DEF RuntimeInv, RuntimeTypeOK, InitOrder, InitBeforeUse
<1> QED
  BY <1>1, RuntimeInitInv, RuntimeNextInv, PTL DEF RuntimeSpec

\* The destructor passes its joins only when no worker is left but the one that
\* has called exit().
THEOREM FreedTheorem == RuntimeSpec => []FreedAlone
<1>1. RuntimeInv => FreedAlone
  BY DEF RuntimeInv, JoinOrder, FreedAlone
<1> QED
  BY <1>1, RuntimeInitInv, RuntimeNextInv, PTL DEF RuntimeSpec

=============================================================================
