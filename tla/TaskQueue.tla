----------------------------- MODULE TaskQueue ------------------------------
(***************************************************************************)
(* The task queue of one SmartThread, down to the ring: get_task and       *)
(* push_task on a BoundedQueue, with the runtime's list behind it.         *)
(* Scheduler has a bounded sequence in its place; this module shows that   *)
(* the ring implements it.                                                 *)
(***************************************************************************)
EXTENDS BoundedQueue

CONSTANTS
  BatchSize,    \* FLAGS_acquire_tasks_batch_size
  MaxListed,    \* bound: the length of the runtime's list
  NoTask        \* nullptr

ASSUME BatchAssumption == BatchSize \in Nat \ {0} /\ MaxListed \in Nat

VARIABLES
  ring,         \* task_queue_
  taskList,     \* SmartRuntime::task_list_
  tmpList,      \* tmp_list of a get_task that fills the ring, empty otherwise
  pushed,       \* how many of tmpList its loop has pushed
  got           \* what get_task has returned last

vars == <<ring, taskList, tmpList, pushed, got>>

Init ==
  /\ ring = EmptyRing
  /\ taskList = <<>>
  /\ tmpList = <<>>
  /\ pushed = 0
  /\ got = NoTask

\* SmartRuntime::push_task by another thread.
RuntimePush(v) ==
  /\ Len(taskList) < MaxListed
  /\ taskList' = Append(taskList, v)
  /\ UNCHANGED <<ring, tmpList, pushed, got>>

\* SmartThread::push_task, on the thread that calls get_task too.
PushTask(v) ==
  /\ tmpList = <<>>
  /\ ring' = Push(ring, v)
  /\ \/ ~Full(ring) /\ taskList' = taskList
     \/ Full(ring) /\ Len(taskList) < MaxListed /\ taskList' = Append(taskList, v)
  /\ UNCHANGED <<tmpList, pushed, got>>

\* SmartRuntime::get_tasks: how much one call splices off task_list_.
BatchLength == IF Len(taskList) < BatchSize THEN Len(taskList) ELSE BatchSize

\* The end of get_task: front and pop.
TakeFront == got' = Front(ring) /\ ring' = Pop(ring)

\* SmartThread::get_task, up to the loop.
GetTask ==
  /\ tmpList = <<>>
  /\ \/ ~Empty(ring) /\ TakeFront /\ UNCHANGED <<taskList, tmpList>>
     \/ Empty(ring) /\ BatchLength = 0 /\ got' = NoTask /\ UNCHANGED <<ring, taskList, tmpList>>
     \/ /\ Empty(ring) /\ BatchLength # 0
        /\ tmpList' = SubSeq(taskList, 1, BatchLength)
        /\ taskList' = SubSeq(taskList, BatchLength + 1, Len(taskList))
        /\ UNCHANGED <<ring, got>>
  /\ pushed' = pushed

\* A turn of the loop; the result of push is not looked at.
Refill ==
  /\ pushed < Len(tmpList)
  /\ ring' = Push(ring, tmpList[pushed + 1])
  /\ pushed' = pushed + 1
  /\ UNCHANGED <<taskList, tmpList, got>>

\* The end of get_task after the loop.
EndRefill ==
  /\ tmpList # <<>> /\ pushed = Len(tmpList)
  /\ TakeFront
  /\ tmpList' = <<>>
  /\ pushed' = 0
  /\ taskList' = taskList

Next ==
  \/ GetTask \/ Refill \/ EndRefill
  \/ \E v \in Values : RuntimePush(v) \/ PushTask(v)

Spec == Init /\ [][Next]_vars

-----------------------------------------------------------------------------
(* Properties                                                              *)

\* The indexes stay in the ring, through every wrap-around, and a ring whose
\* is_empty_ is set has its indexes together.
TypeOK ==
  /\ ring \in Rings
  /\ Empty(ring) => ring.head = ring.tail
  /\ taskList \in Seq(Values)
  /\ tmpList \in Seq(Values) /\ pushed \in 0 .. Len(tmpList)
  /\ got \in Values \cup {NoTask}

\* The queue and the last task as a caller knows them: get_tasks decides what
\* get_task returns and keeps, and the loop that follows only carries it out.
Held == IF tmpList = <<>> THEN Items(ring) ELSE SubSeq(tmpList, 2, Len(tmpList))

Returned == IF tmpList = <<>> THEN got ELSE tmpList[1]

Fifo == INSTANCE TaskFifo WITH items <- Held, list <- taskList, out <- Returned

\* get_task and push_task on the ring do what they do on a bounded sequence: no
\* wrap-around, full ring or refill loses, doubles or reorders a task, and none
\* returns a cell nobody has written.  This is so when a batch fits the ring,
\* BatchSize <= Capacity, as with the default flags (10 and 25): of a larger
\* batch the loop of get_task loses what push refuses, which TakeBatch does not.
RefinesFifo == Fifo!Spec

=============================================================================
