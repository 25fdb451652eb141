------------------------------- MODULE Reactor -------------------------------
(***************************************************************************)
(* Blocking I/O calls of coroutines: smart_read, smart_write,              *)
(* smart_accept, smart_connect and smart_read_until, the EPollItem each    *)
(* call keeps on its coroutine's stack, and the SmartEPoller thread that   *)
(* completes the call and resumes the coroutine.                           *)
(*                                                                         *)
(* Three threads meet at an item: the coroutine that owns it, the worker   *)
(* that runs the deferred enable_epoll_* after the coroutine has switched  *)
(* away, and the epoller.  None of them takes a lock.  The item dies when  *)
(* the call returns; a later access to it is undefined behaviour, and the  *)
(* model follows the program no further.                                   *)
(***************************************************************************)
EXTENDS Naturals, FiniteSets

CONSTANTS
  Ops,            \* I/O calls, each with its own EPollItem and context
  Fds,            \* file descriptors
  Pipes,          \* descriptors that report a hang-up alone, without EPOLLIN,
                  \* to an item that asks for EPOLLIN
  FdOf,           \* the descriptor of each call
  CoroOf,         \* the coroutine that makes each call
  Kind,           \* which function each call is
  Count,          \* bytes each call asks for; for read_until, up to the delimiter
  MaxInterrupts,  \* bound: signals that interrupt epoll_wait
  MaxBlocks,      \* bound: system calls that end in EWOULDBLOCK
  NoOp            \* no item

Kinds == {"read", "write", "accept", "connect", "read_until"}

ASSUME ConstantsAssumption ==
  /\ Pipes \subseteq Fds
  /\ FdOf \in [Ops -> Fds]
  /\ Kind \in [Ops -> Kinds]
  /\ Count \in [Ops -> Nat]
  /\ \A o \in Ops : Kind[o] = "read_until" => Count[o] > 0  \* it searches after a read
  /\ MaxInterrupts \in Nat
  /\ MaxBlocks \in Nat
  /\ NoOp \notin Ops

VARIABLES
  phase,          \* of each call: "idle", "running" before the switch,
                  \* "suspended", "resumed" or "returned"
  enable,         \* of its deferred callback: "todo", "ctl" between epoll_ctl
                  \* and set_watching, "done"
  watching,       \* watching_ of each item
  accepted,       \* history: epoll_ctl(ADD) by enable_* has succeeded
  left,           \* count_ - ret_ of each context
  result,         \* of each context: "none", "ok", "eof" or "error"
  resumes,        \* history: how often smart_routine_resume was called for it
  regd,           \* the kernel's interest list: item and event mask per descriptor
  epfd,           \* epoll_fd_ is initialised
  pc,             \* where the epoller thread is
  ready,          \* ready_list_
  todo,           \* the part of ready_list_ the loop has not reached
  revents,        \* revents_ of each item: "io" or "hup"
  cur,            \* the item whose callback resumes its coroutine
  interrupts,     \* signals so far
  blocks,         \* EWOULDBLOCK so far
  overtaken,      \* history: the epoller disabled an item before set_watching
  undefined       \* undefined behaviour has happened

callVars == <<phase, enable, accepted>>
ioVars == <<left, result, blocks>>
kernelVars == <<regd, epfd>>
loopVars == <<pc, ready, todo, revents, cur, interrupts>>
historyVars == <<resumes, overtaken, undefined>>
vars == <<callVars, watching, ioVars, kernelVars, loopVars, historyVars>>

Unregistered == [item |-> NoOp, armed |-> FALSE]

Init ==
  /\ phase = [o \in Ops |-> "idle"]
  /\ enable = [o \in Ops |-> "todo"]
  /\ watching = [o \in Ops |-> FALSE]
  /\ accepted = [o \in Ops |-> FALSE]
  /\ left = Count
  /\ result = [o \in Ops |-> "none"]
  /\ resumes = [o \in Ops |-> 0]
  /\ regd = [f \in Fds |-> Unregistered]
  /\ epfd = FALSE
  /\ pc = "init"
  /\ ready = {}
  /\ todo = {}
  /\ revents = [o \in Ops |-> "io"]
  /\ cur = NoOp
  /\ interrupts = 0
  /\ blocks = 0
  /\ overtaken = FALSE
  /\ undefined = FALSE

Dead(o) == phase[o] = "returned"

\* A second callback on the context of a failed transfer, whose ret_ is SIZE_MAX,
\* goes past the buffer.
Spoilt(o) == Dead(o) \/ (result[o] = "error" /\ Kind[o] \in {"read", "write"})

-----------------------------------------------------------------------------
(* The coroutine and the worker                                            *)

\* A coroutine calls smart_*: item and context are built on its stack.
Call(o) ==
  /\ ~undefined
  /\ phase[o] = "idle"
  /\ \A p \in Ops : CoroOf[p] = CoroOf[o] => phase[p] \in {"idle", "returned"}
  /\ phase' = [phase EXCEPT ![o] = "running"]
  /\ UNCHANGED <<enable, accepted, watching, ioVars, kernelVars, loopVars, historyVars>>

\* yield() has switched away from the coroutine.
Switch(o) ==
  /\ ~undefined
  /\ phase[o] = "running"
  /\ phase' = [phase EXCEPT ![o] = "suspended"]
  /\ UNCHANGED <<enable, accepted, watching, ioVars, kernelVars, loopVars, historyVars>>

\* epoll_ctl(EPOLL_CTL_ADD) of item o fails without an epoll descriptor, and with
\* EEXIST when the descriptor has an item already.
AddSucceeds(o) == epfd /\ regd[FdOf[o]].item = NoOp

CtlAdd(o, mask) ==
  regd' = IF AddSucceeds(o)
          THEN [regd EXCEPT ![FdOf[o]] = [item |-> o, armed |-> mask]] ELSE regd

\* Mutant of Enable: the item is registered before the switch.
BugEnableBeforeSwitch(o) ==
  /\ ~undefined
  /\ phase[o] \in {"running", "suspended"}
  /\ enable[o] = "todo"
  /\ enable' = [enable EXCEPT ![o] = "ctl"]
  /\ accepted' = [accepted EXCEPT ![o] = AddSucceeds(o)]
  /\ CtlAdd(o, TRUE)
  /\ UNCHANGED <<phase, watching, ioVars, epfd, loopVars, historyVars>>

\* enable_epoll_reading, enable_epoll_writing up to epoll_ctl in watch_event.  A
\* descriptor that epoll does not take (EPERM) or a limit of the kernel makes it
\* fail too; nobody looks at the result.
Enable(o) ==
  /\ ~undefined
  /\ phase[o] = "suspended"
  /\ enable[o] = "todo"
  /\ enable' = [enable EXCEPT ![o] = "ctl"]
  /\ \/ accepted' = [accepted EXCEPT ![o] = AddSucceeds(o)] /\ CtlAdd(o, TRUE)
     \/ UNCHANGED <<accepted, regd>>
  /\ UNCHANGED <<phase, watching, ioVars, epfd, loopVars, historyVars>>

\* The end of watch_event: set_watching.
SetWatching(o) ==
  /\ ~undefined
  /\ ~Dead(o)
  /\ enable[o] = "ctl"
  /\ enable' = [enable EXCEPT ![o] = "done"]
  /\ watching' = [watching EXCEPT ![o] = TRUE]
  /\ UNCHANGED <<phase, accepted, ioVars, kernelVars, loopVars, historyVars>>

\* A worker has picked the coroutine up again and the call returns.
Return(o) ==
  /\ ~undefined
  /\ phase[o] = "resumed"
  /\ phase' = [phase EXCEPT ![o] = "returned"]
  /\ UNCHANGED <<enable, accepted, watching, ioVars, kernelVars, loopVars, historyVars>>

-----------------------------------------------------------------------------
(* SmartEPoller::init and the loop of eventloop                            *)

EpollerInit ==
  /\ ~undefined
  /\ pc = "init"
  /\ epfd' = TRUE
  /\ pc' = "wait"
  /\ UNCHANGED <<callVars, watching, ioVars, regd, ready, todo, revents, cur,
                 interrupts, historyVars>>

\* epoll_create fails, or epoll_wait with something else than EINTR.
EventLoopEnds ==
  /\ ~undefined
  /\ pc \in {"init", "wait"}
  /\ pc' = "ended"
  /\ UNCHANGED <<callVars, watching, ioVars, kernelVars, ready, todo, revents, cur,
                 interrupts, historyVars>>

\* epoll_wait reports the items S with events ev, and ready_list_ is rebuilt.
\* A mask without the I/O event lets only hang-ups and errors through.
EpollWait(S, ev) ==
  /\ ~undefined
  /\ pc = "wait"
  /\ S # {}
  /\ \A o \in S : /\ ~Dead(o)
                  /\ regd[FdOf[o]].item = o
                  /\ ev[o] = "io" => regd[FdOf[o]].armed
                  /\ ev[o] = "hup" => ~regd[FdOf[o]].armed \/ FdOf[o] \in Pipes
  /\ revents' = [o \in Ops |-> IF o \in S THEN ev[o] ELSE revents[o]]
  /\ ready' = S
  /\ todo' = S
  /\ pc' = "handle"
  /\ UNCHANGED <<callVars, watching, ioVars, kernelVars, cur, interrupts, historyVars>>

\* epoll_wait is interrupted: ready_list_ still holds the previous round's items.
EpollInterrupted ==
  /\ ~undefined
  /\ pc = "wait"
  /\ interrupts < MaxInterrupts
  /\ interrupts' = interrupts + 1
  /\ todo' = ready
  /\ pc' = "handle"
  /\ UNCHANGED <<callVars, watching, ioVars, kernelVars, ready, revents, cur, historyVars>>

\* The loop over ready_list_ is at its end.
RoundEnds ==
  /\ ~undefined
  /\ pc = "handle"
  /\ todo = {}
  /\ pc' = "wait"
  /\ UNCHANGED <<callVars, watching, ioVars, kernelVars, ready, todo, revents, cur,
                 interrupts, historyVars>>

\* EPollItem::handle_events of the next item o of ready_list_, which leads to
\* the callback (goes on at next) or, for a hang-up, to none.
HandleEvents(o, next) ==
  /\ ~undefined
  /\ pc = "handle"
  /\ o \in todo
  /\ ~Spoilt(o)
  /\ todo' = todo \ {o}
  /\ cur' = IF next = "update" THEN o ELSE NoOp
  /\ pc' = next
  /\ UNCHANGED <<callVars, watching, kernelVars, ready, revents, interrupts,
                 historyVars>>

\* EPOLLHUP or EPOLLERR alone: close_callback_ and error_callback_ are empty.
HandleHangup(o) ==
  /\ revents[o] = "hup"
  /\ HandleEvents(o, "handle")
  /\ UNCHANGED ioVars

-----------------------------------------------------------------------------
(* The callbacks.  One that ends at "update" calls resume_*_coro.          *)

Callback(o, next) ==
  /\ revents[o] = "io"
  /\ HandleEvents(o, next)

\* The system call moves k bytes; the call is complete when none is left.
Transfer(o, k) ==
  /\ left' = [left EXCEPT ![o] = @ - k]
  /\ \/ /\ left[o] = k
        /\ Callback(o, "update")
        /\ result' = [result EXCEPT ![o] = "ok"]
     \/ /\ left[o] # k
        /\ Callback(o, "handle")
        /\ result' = result
  /\ blocks' = blocks

\* Mutant of WouldBlock: EWOULDBLOCK is taken for an error.
BugWouldBlockResumes(o) ==
  /\ blocks < MaxBlocks
  /\ blocks' = blocks + 1
  /\ Callback(o, "update")
  /\ UNCHANGED <<left, result>>

WouldBlock(o) ==
  /\ blocks < MaxBlocks
  /\ blocks' = blocks + 1
  /\ Callback(o, "handle")
  /\ UNCHANGED <<left, result>>

Complete(o, r) ==
  /\ Callback(o, "update")
  /\ result' = [result EXCEPT ![o] = r]
  /\ UNCHANGED <<left, blocks>>

\* Mutant of EndOfFile: a read of 0 bytes is not taken up.
BugEofIgnored(o) ==
  /\ Callback(o, "handle")
  /\ UNCHANGED ioVars

\* read returns 0: ret_ stays what it is.
EndOfFile(o) == Complete(o, IF result[o] = "none" THEN "eof" ELSE result[o])

\* Mutant of SmartReadImpl: any read that returns data resumes the coroutine.
BugReadResumesEarly(o) ==
  /\ Kind[o] = "read"
  /\ \/ \E k \in 1 .. left[o] : Complete(o, "ok")
     \/ WouldBlock(o)
     \/ Complete(o, "error")
     \/ EndOfFile(o)

\* Mutant of SmartReadImpl: the read may return one byte too many.
BugReadPastEnd(o) ==
  /\ Kind[o] = "read"
  /\ \/ \E k \in 1 .. left[o] + 1 : Transfer(o, k)
     \/ WouldBlock(o)
     \/ Complete(o, "error")
     \/ EndOfFile(o)

SmartReadImpl(o) ==
  /\ Kind[o] = "read"
  /\ \/ \E k \in 1 .. left[o] : Transfer(o, k)
     \/ WouldBlock(o)
     \/ Complete(o, "error")
     \/ EndOfFile(o)

\* A write of nothing returns 0, which no branch takes up.
WriteNothing(o) ==
  /\ left[o] = 0
  /\ Callback(o, "handle")
  /\ UNCHANGED ioVars

SmartWriteImpl(o) ==
  /\ Kind[o] = "write"
  /\ \/ \E k \in 1 .. left[o] : Transfer(o, k)
     \/ WriteNothing(o)
     \/ WouldBlock(o)
     \/ Complete(o, "error")

\* getsockopt tells whether the connection stands.
SmartConnectImpl(o) ==
  /\ Kind[o] = "connect"
  /\ Complete(o, "ok") \/ Complete(o, "error")

SmartAcceptImpl(o) ==
  /\ Kind[o] = "accept"
  /\ Complete(o, "ok") \/ WouldBlock(o) \/ Complete(o, "error")

\* The chunk that brings the rest of the delimiter completes the call, and so
\* does one for which the buffer has no room.
SmartReadUntilImpl(o) ==
  /\ Kind[o] = "read_until"
  /\ \/ \E k \in 1 .. left[o] : Transfer(o, k)
     \/ left[o] = 0 /\ Complete(o, result[o])
     \/ WouldBlock(o)
     \/ Complete(o, "error")
     \/ EndOfFile(o)

CallbackStep(o) ==
  \/ SmartReadImpl(o) \/ SmartWriteImpl(o) \/ SmartConnectImpl(o)
  \/ SmartAcceptImpl(o) \/ SmartReadUntilImpl(o)

\* Mutant of DisableItem: the item stays registered.
BugDisableKeepsItem ==
  /\ ~undefined
  /\ pc = "update"
  /\ ~Dead(cur)
  /\ watching' = [watching EXCEPT ![cur] = ~@]
  /\ overtaken' = (overtaken \/ enable[cur] = "ctl")
  /\ pc' = "push"
  /\ UNCHANGED <<callVars, ioVars, kernelVars, ready, todo, revents, cur, interrupts,
                 resumes, undefined>>

\* disable_reading, disable_writing with the watch_event they call: the item is
\* taken out if watching_ is set; if it is not, it is added with no events.
DisableItem ==
  /\ ~undefined
  /\ pc = "update"
  /\ ~Dead(cur)
  /\ \/ /\ watching[cur]
        /\ regd' = [regd EXCEPT ![FdOf[cur]] = Unregistered]
     \/ /\ ~watching[cur]
        /\ CtlAdd(cur, FALSE)
  /\ watching' = [watching EXCEPT ![cur] = ~@]
  /\ overtaken' = (overtaken \/ enable[cur] = "ctl")
  /\ pc' = "push"
  /\ UNCHANGED <<callVars, ioVars, epfd, ready, todo, revents, cur, interrupts,
                 resumes, undefined>>

\* smart_routine_resume on the epoller thread.  handle_events goes on to look at
\* revents_ only behind a read callback.
ResumeCoro ==
  /\ ~undefined
  /\ pc = "push"
  /\ ~Dead(cur)
  /\ phase' = [phase EXCEPT ![cur] = "resumed"]
  /\ resumes' = [resumes EXCEPT ![cur] = @ + 1]
  /\ \/ /\ Kind[cur] \in {"write", "connect"}
        /\ pc' = "handle"
        /\ cur' = NoOp
     \/ /\ Kind[cur] \in {"read", "accept", "read_until"}
        /\ pc' = "after"
        /\ cur' = cur
  /\ UNCHANGED <<enable, accepted, watching, ioVars, kernelVars, ready, todo, revents,
                 interrupts, overtaken, undefined>>

\* The test of revents_ & EPOLLOUT in handle_events, after the read callback.
AfterReadCallback ==
  /\ ~undefined
  /\ pc = "after"
  /\ ~Dead(cur)
  /\ pc' = "handle"
  /\ cur' = NoOp
  /\ UNCHANGED <<callVars, watching, ioVars, kernelVars, ready, todo, revents,
                 interrupts, historyVars>>

\* set_watching by the worker, set_revents for what epoll_wait reports, or
\* handle_events and what it calls, on an item whose call has returned.
UseAfterReturn ==
  /\ ~undefined
  /\ \/ \E o \in Ops : Dead(o) /\ enable[o] = "ctl"
     \/ pc = "wait" /\ \E o \in Ops : Dead(o) /\ regd[FdOf[o]].item = o
     \/ pc = "handle" /\ \E o \in todo : Spoilt(o)
     \/ pc \in {"update", "push", "after"} /\ Dead(cur)
  /\ undefined' = TRUE
  /\ UNCHANGED <<callVars, watching, ioVars, kernelVars, loopVars, resumes, overtaken>>

-----------------------------------------------------------------------------
WorkerStep(o) == Switch(o) \/ Enable(o) \/ SetWatching(o) \/ Return(o)

Report(o) == \E S \in SUBSET Ops, ev \in [Ops -> {"io", "hup"}] :
               o \in S /\ EpollWait(S, ev)

Handle(o) == CallbackStep(o) \/ HandleHangup(o)

EpollerStep ==
  \/ EpollerInit \/ RoundEnds \/ DisableItem \/ ResumeCoro \/ AfterReadCallback
  \/ UseAfterReturn
  \/ \E o \in Ops : Handle(o)

Next ==
  \/ \E o \in Ops : Call(o) \/ WorkerStep(o) \/ Report(o)
  \/ EpollerStep \/ EventLoopEnds \/ EpollInterrupted

Spec == Init /\ [][Next]_vars

\* Worker threads and the epoller go on whenever they can, and epoll_wait, being
\* level-triggered, reports a registered descriptor whose peer answers.
FairSpec ==
  /\ Spec
  /\ WF_vars(EpollerStep)
  /\ \A o \in Ops : WF_vars(WorkerStep(o)) /\ SF_vars(Report(o))

-----------------------------------------------------------------------------
(* Properties                                                              *)

\* The type of every variable; the epoller handles an item.
TypeOK ==
  /\ phase \in [Ops -> {"idle", "running", "suspended", "resumed", "returned"}]
  /\ enable \in [Ops -> {"todo", "ctl", "done"}]
  /\ watching \in [Ops -> BOOLEAN]
  /\ accepted \in [Ops -> BOOLEAN]
  /\ left \in [Ops -> Nat]
  /\ result \in [Ops -> {"none", "ok", "eof", "error"}]
  /\ resumes \in [Ops -> Nat]
  /\ regd \in [Fds -> [item : Ops \cup {NoOp}, armed : BOOLEAN]]
  /\ epfd \in BOOLEAN
  /\ pc \in {"init", "wait", "handle", "update", "push", "after", "ended"}
  /\ ready \in SUBSET Ops
  /\ todo \in SUBSET ready
  /\ revents \in [Ops -> {"io", "hup"}]
  /\ cur \in Ops \cup {NoOp}
  /\ pc \in {"update", "push", "after"} => cur \in Ops
  /\ interrupts \in Nat
  /\ blocks \in Nat
  /\ overtaken \in BOOLEAN
  /\ undefined \in BOOLEAN

Handling(o) == pc \in {"update", "push", "after"} /\ cur = o

\* The callback of a call runs only when its coroutine has left the worker: this
\* is what deferring enable_epoll_* is for.
SwitchedBeforeCallback ==
  \A o \in Ops : o \in ready \/ Handling(o) => phase[o] \notin {"idle", "running"}

\* A resumed call has transferred everything, met the end of file or failed,
\* however the bytes arrived and whatever events were replayed.
ResumedComplete ==
  \A o \in Ops :
    phase[o] \in {"resumed", "returned"} =>
      \/ result[o] \in {"eof", "error"}
      \/ result[o] = "ok" /\ (Kind[o] \in {"read", "write", "read_until"} => left[o] = 0)

\* A call whose registration was accepted stays registered, with its event,
\* until its callback is done with it: short transfers, EWOULDBLOCK,
\* interrupts and calls on other descriptors take nothing away from it.
WaitingStaysRegistered ==
  \A o \in Ops :
    accepted[o] /\ result[o] = "none" =>
      regd[FdOf[o]] = [item |-> o, armed |-> TRUE]

\* A coroutine is resumed twice for one call, or leaves a registration of its
\* dead item behind, only after a signal has interrupted epoll_wait or the
\* epoller has overtaken the worker between epoll_ctl and set_watching.
OnceUnlessRaced ==
  \A o \in Ops :
    resumes[o] > 1 \/ (Dead(o) /\ regd[FdOf[o]].item = o) =>
      overtaken \/ interrupts > 0

\* A call whose registration was accepted is resumed, unless the epoller thread
\* ends or runs into undefined behaviour.
AcceptedResumed ==
  \A o \in Ops :
    accepted[o] ~> (resumes[o] > 0 \/ pc = "ended" \/ undefined)

\* "deferred adding to eventloop to avoid race condition between callback and
\* coroutine switch": when a call has returned, its item is in no event loop, and
\* neither the worker that registered it nor the epoller is still busy with it.
ReturnedItemUnused ==
  \A o \in Ops :
    Dead(o) => regd[FdOf[o]].item # o /\ enable[o] # "ctl" /\ ~Handling(o)

=============================================================================
