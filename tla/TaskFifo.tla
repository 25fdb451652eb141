------------------------------ MODULE TaskFifo ------------------------------
(***************************************************************************)
(* What the task queue of a SmartThread promises: tasks come out in the    *)
(* order in which they went in, one that does not fit overflows to the     *)
(* runtime's list, and an empty queue takes a batch from that list, all of *)
(* which it hands out.                                                     *)
(***************************************************************************)
EXTENDS Naturals, Sequences

CONSTANTS Capacity, BatchSize, Values, NoTask

VARIABLES
  items,        \* the queue, oldest first
  list,         \* the runtime's list
  out           \* the task get_task has returned last

Least(m, n) == IF m <= n THEN m ELSE n

Batch == Least(BatchSize, Len(list))

Init == items = <<>> /\ list = <<>> /\ out = NoTask

Submit(v) == list' = Append(list, v) /\ UNCHANGED <<items, out>>

Put(v) ==
  /\ \/ Len(items) < Capacity /\ items' = Append(items, v) /\ list' = list
     \/ Len(items) = Capacity /\ list' = Append(list, v) /\ items' = items
  /\ out' = out

Take ==
  /\ items # <<>>
  /\ out' = Head(items)
  /\ items' = Tail(items)
  /\ list' = list

TakeBatch ==
  /\ items = <<>>
  /\ list # <<>>
  /\ out' = Head(list)
  /\ items' = SubSeq(list, 2, Batch)
  /\ list' = SubSeq(list, Batch + 1, Len(list))

TakeNothing ==
  /\ items = <<>>
  /\ list = <<>>
  /\ out' = NoTask
  /\ UNCHANGED <<items, list>>

Next == Take \/ TakeBatch \/ TakeNothing \/ \E v \in Values : Submit(v) \/ Put(v)

Spec == Init /\ [][Next]_<<items, list, out>>

=============================================================================
