------------------------------ MODULE Lifecycle ------------------------------
(***************************************************************************)
(* What the scheduler promises to each coroutine: it is started once, runs *)
(* on at most one worker at a time, gives the worker up only by suspending *)
(* itself or by returning, is resumed only out of a queue, and is deleted  *)
(* only after it has returned.  Queues, workers and delayed callbacks are  *)
(* not visible at this level.                                              *)
(***************************************************************************)
CONSTANT Coros

VARIABLE status  \* the state of each coroutine

\* "ready": some worker may pick it up; "suspended": it has left its worker and
\* waits for its deferred callback; "blocked": the epoller has it.
Statuses ==
  {"unborn", "ready", "running", "suspended", "blocked", "finished", "freed"}

Init == status = [c \in Coros |-> "unborn"]

Move(c, from, to) ==
  /\ status[c] = from
  /\ status' = [status EXCEPT ![c] = to]

Start(c) == Move(c, "unborn", "ready")
Dispatch(c) == Move(c, "ready", "running")
Suspend(c) == Move(c, "running", "suspended")
Requeue(c) == Move(c, "suspended", "ready")
Block(c) == Move(c, "suspended", "blocked")
Unblock(c) == Move(c, "blocked", "ready")
Finish(c) == Move(c, "running", "finished")
Free(c) == Move(c, "finished", "freed")

\* A worker goes from one coroutine to another without passing its main loop.
HandOver(c, d) ==
  /\ status[c] = "running"
  /\ status[d] = "ready"
  /\ status' = [status EXCEPT ![c] = "suspended", ![d] = "running"]

Next ==
  \E c \in Coros :
    \/ Start(c) \/ Dispatch(c) \/ Suspend(c) \/ Requeue(c) \/ Block(c)
    \/ Unblock(c) \/ Finish(c) \/ Free(c)
    \/ \E d \in Coros : HandOver(c, d)

Spec == Init /\ [][Next]_status

=============================================================================
