# A TLA+ model of SmartRoutine

SmartRoutine is a small C++ library of stackful coroutines: worker threads that
run coroutines, an epoll thread that completes their blocking I/O calls, and a
timer thread. This directory holds TLA+ modules of its parts, TLC configurations
that check them on small instances, and TLAPS proofs of what matters most for
instances of any size. Paths below are relative to the repository.

## 1. The system

| Part | State | Operations | Meets |
|---|---|---|---|
| `SmartRuntime` (`src/smart_runtime.cpp`) | `task_list_` behind a mutex and a condition variable; the threads | `push_task`, `get_tasks`, `wait_on_task_list`, `init`, destructor | all workers, the epoller, outside threads |
| `SmartThread` (`src/smart_thread.cpp`), one per worker | `task_queue_`, `current_coro_`, `main_coro_`, `delay_callback_` | `init`, `main_loop`, `coro_runner`, `yield`, `switch_to`, `get_task`, `push_task`, `destroy_coro` | the runtime when its queue is empty or full |
| `SmartCoro` (`src/smart_coro.cpp`) | stack and saved context | made by `smart_routine_start`, freed by `destroy_coro` | jumped to by `switch_to` |
| API (`src/smart_routine.cpp`) | item and context of a call, on the coroutine's stack | `smart_routine_start/yield/resume`, `smart_socket`, `smart_read/write/accept/connect/read_until` | the worker, the epoller |
| callbacks (`src/internal/smart_routine_impl.cpp`) | `ret_`, `errno_`, `last_search_end_` of the context | `smart_*_impl`, deferred `add_back_to_queue` and `enable_epoll_*`, `resume_*_coro` | run on the epoller, or on the worker behind a switch |
| `SmartEPoller`, `EPollItem` | epoll descriptor, `ready_list_`; `events_`, `revents_`, `watching_` | `init`, `watch_event`, `eventloop`, `handle_events` | shared by workers and epoller without a lock |
| `SmartTimer` | heap, `nearest_expire_timestamp_`, `timeout_list_` | `set_timer_after`, `set_timer_until`, `set_timer`, `run` | any thread, through a mutex |
| `DynamicBuffer` | one allocation, two indexes, `capacity_` | `append`, `consume`, `move_forward`, `expand_capacity` | filled by the epoller, emptied by the coroutine |
| `BoundedQueue` | ring with `head_`, `tail_`, `is_empty_` | `push`, `front`, `pop` | one worker |
| `TcpSocket`, `Acceptor` | four flags and a descriptor | `open`, `bind`, `connect`, `listen`, `accept`, `close` | the blocking calls |
| `Endpoint`, `Address` | an address, and the sockaddr made of it | `make_endpoint`, `from_sockaddr`, `to_string` | the sockets |
| buffer views, `ErrorCode` | values | | |
| libcontext | none | `make_fcontext`, `jump_fcontext` | vendored |

A coroutine leaves its worker only in `yield`. Since nobody may resume it before
its context is stored, `yield` does not put it on a queue or register its item
with epoll itself: it leaves a callback in `delay_callback_`, which is run on the
other side of the switch, by `coro_runner` when a coroutine begins or by
`main_loop`. The epoller completes the I/O and pushes the coroutine to the
runtime's list, from where any worker takes it: coroutines migrate.

What is hard here, and what each part has to get right:

* the deferred callback: it has to run once for every suspension, behind the
  switch, and the coroutine must be in one place at a time meanwhile;
* migration: whatever a coroutine remembers of its worker is stale when it
  comes back;
* stacks: a finished coroutine lends its stack to `main_loop`, and is freed by a
  deferred callback;
* the item of a call: worker, epoller and coroutine use it without a lock, and it
  dies with the call;
* the epoller: short transfers, `EWOULDBLOCK`, hang-ups, interrupted
  `epoll_wait`s with a `ready_list_` from the round before;
* queues at their limit: overflow to the runtime, batches from it;
* the timer: a cached expiry, and timestamps that mix units;
* the buffer: `capacity_` apart from the allocation; a delimiter cut by chunks;
* sockets: flags that have to agree with the descriptor, while calls are suspended
  that only remember its number;
* beginning and end: workers that start while `init` still creates the others, and
  a destructor that joins threads which never end.

`PROJECT.json` lists these as hazards, each at its line and with the properties
that would notice.

## 2. Modules

| Module | Models | Checked by |
|---|---|---|
| `Scheduler` | `SmartRuntime`'s task list, `SmartThread`, `SmartCoro` and the suspending part of the API | `Scheduler`, `SchedulerLost` |
| `Lifecycle` | what the scheduler promises to one coroutine (abstract) | refined by `Scheduler` |
| `SchedulerProofs` | proofs about `Scheduler` | TLAPS |
| `Runtime` | `get_instance`, `init`, `exit_clean` and the destructor of `SmartRuntime`, around `Scheduler` | `Runtime` |
| `RuntimeProofs` | proofs about `Runtime` | TLAPS |
| `BoundedQueue` | the ring (operators) | through `TaskQueue` |
| `TaskQueue` | `get_task` and `push_task` on the ring | `Queue` |
| `TaskFifo` | the same on a bounded sequence (abstract) | refined by `TaskQueue` |
| `TaskQueueProofs` | proofs about the ring and `TaskQueue` | TLAPS |
| `Reactor` | the blocking calls, `EPollItem`, `SmartEPoller`, the callbacks | `Reactor`, `ReactorLiveness`, `ReactorReturned` |
| `ReactorProofs` | proofs about `Reactor` | TLAPS |
| `ReadUntil` | `smart_read_until`, `partial_search` | `ReadUntil` |
| `ReadUntilProofs` | proofs about `ReadUntil` | TLAPS |
| `Timer` | `SmartTimer` | `Timer`, `TimerEarly` |
| `TimerProofs` | proofs about `Timer` | TLAPS |
| `DynamicBuffer` | `DynamicBuffer` | `Buffer` |
| `BufferProofs` | proofs about `DynamicBuffer` | TLAPS |
| `Endpoint` | `Endpoint` and `Address` (operators) | through `Socket` |
| `Socket` | `TcpSocket`, `Acceptor`, `smart_socket`, the API for callers that are no workers | `Socket` |
| `SocketProofs` | proofs about `Endpoint` and `Socket` | TLAPS |
| `MCScheduler`, `MCReactor`, `MCReadUntil`, `MCTimer`, `MCSocket` | values of the constants for TLC | |

Definitions named `Bug...` are wrong variants of the definition that follows
them. `PROJECT.json` says which property notices each one; no specification uses
them.

### Scheduler

`taskList`, `queue`, `current` and `delay` are the fields `task_list_`,
`task_queue_`, `current_coro_` and `delay_callback_` with its argument. `at` is
where a worker thread is, `ctx` what the context of a coroutine holds, `tlsSt` the
local variable `tls_st` of `coro_runner`, `parked` the coroutines whose item the
epoller has.

A step goes from one access to shared state to the next. `task_list_` is touched
under its mutex only, and everything else a worker touches is its own. So
`yield`, `get_task` and `switch_to` make one step up to the place where the other
side of the switch tests `delay_callback_` ("landed"), and the callback makes the
next one. A context stored in `yield` continues there and never looks at
`delay_callback_` (`SwitchTo` goes to "fn", not to "landed"), as in the code.

`coro_runner` reads `tls_smart_thread` when a coroutine begins and enters the
`main_loop` of that `SmartThread` when its function returns. If the coroutine has
moved meanwhile, two threads run on one `SmartThread`. This is a data race, the
worker becomes "foreign" and the model stops. All other properties of `Scheduler`
hold up to that point.

The epoller resumes a coroutine once per call in this module. `Reactor` tells when
it does not.

### Runtime

Extends `Scheduler` and adds the threads around it. `once` is `once_control_`: a
worker's first step goes through `get_instance` and therefore waits until `init`
has created everything. `pthread_create` may fail, for a worker, the timer or the
epoller, and the code does not look; without an epoller nobody takes the steps that
resume a coroutine from epoll, which no fairness asks for.
`exitAt` is how far the destructor has come; `exiter` is who called `exit()`, a
thread of the program or the worker of a coroutine, which never comes back to its
tasks. Worker threads have no end, so their join returns only for the caller itself
(`EDEADLK`) or for a thread that does not exist. `exit()` before `init` has ended is
left out. The steps of the workers are those of `Scheduler`.

### BoundedQueue, TaskQueue, TaskFifo

`BoundedQueue` has the four operations of the ring as operators, `TaskQueue` what
`SmartThread` does with them. A `get_task` that finds the ring empty splices
`tmpList` off the runtime's list under the mutex and pushes it into the ring task by
task, while other threads append to the list. The refinement maps the ring to the
sequence of its items, oldest first (`Items`); during the loop it shows what the ring
will hold and `get_task` return, both decided by the splice (`Held`, `Returned`).
`TaskFifo` keeps the whole of a batch, so that the ring implements it only for batches
that fit (`BatchSize <= Capacity`, as with the default flags); of a larger one
`get_task` drops the rest, as `TaskQueue` does, and the refinement fails.

### Reactor

Each call of `smart_read` and so on is an element of `Ops`, with its descriptor,
coroutine, kind and number of bytes as constants. Worker: `Switch`, `Enable`
(`epoll_ctl`), `SetWatching`, `Return`. Epoller: `EpollWait` or
`EpollInterrupted`, one callback for each item of `ready_list_`, and, when the
callback completes the call, `DisableItem`, `ResumeCoro` and the rest of
`handle_events` as steps of their own, since the worker runs in between. `regd` is
the kernel's interest list: one item and a mask for each descriptor. `Enable` may fail
for any descriptor, as `epoll_ctl` does with `EPERM` or at a limit of the kernel, and the
code does not look at the result. The item is
gone when the call has returned. A use of it after that is undefined behaviour:
`undefined` is set and nothing follows.

Data is a count of bytes (`left`); what the bytes are does not matter here.

### ReadUntil

The buffer is the sequence of its readable bytes; each chunk is appended and
searched from `last_search_end_`. `Hits` is the set of starting points at which the
two loops of `partial_search` come to the end of the delimiter or of the text
without a difference, and its smallest element decides: a match if the delimiter
fits in, a partial match otherwise.

### Timer

Time is a `struct timeval`, taken from a bounded clock; the timer computes on
`get_timestamp` of it. A caller reads the clock in one step and inserts in the
next. `request` and `firedAt` remember, in microseconds, what was asked for and
when the callback ran.

### DynamicBuffer

`alloc` and `mem` are the allocation, `cap` the field `capacity_`; sizes are
computed modulo `SizeRange`. Bytes carry their number in the stream. An access
outside the allocation sets `broken` and nothing follows.

### Endpoint, Socket

`Endpoint` has the conversions: a text is what `make_address` looks at (separators,
and the family `inet_pton` accepts), an address a value, a port a number whose bytes
`htons` swaps. `Garbage` is memory that nobody has set or that `copy_addr` has
written over.

In `Socket` an object is its descriptor and flags (`sock`), next to what the kernel
has behind each descriptor (`file`) and the call that is suspended in the object
(`call`). `connect`, `accept`, `read` and `write` are two steps of the caller (`Begin...`,
`End...`) with the registration and the callback in between; other coroutines use
the objects meanwhile, so a descriptor may be closed and its number given out again
under a suspended call, or the object moved from; the call then stays with the object
that has lost its descriptor. A move may also make a plain `TcpSocket` of an `Acceptor`.
`smart_socket` may return a descriptor that is not non-blocking, since a failing `fcntl`
is only logged. `Callers` distinguishes coroutines from other threads, for
which the API is the system call. `last` says how an operation ended: with success,
with an `ErrorCode`, or "silent", as a failure that leaves `ec` at `Success`. Three
variables are history: `shared` (a descriptor was closed, or its object moved, under a
suspended call),
`stale` (Acceptors whose `listening_` outlived their descriptor) and `named` (what
the endpoint was made for). `stuck` tells that a system call in a callback blocks
the epoller.

## 3. Runs

| Run | Expected | What it shows |
|---|---|---|
| `Scheduler` | pass | `TypeOK`; a coroutine is in one place (`Exclusive`); what can be resumed has its context stored (`ResumableIsSaved`); no worker stands on a freed stack (`StackAlive`); no started coroutine is lost (`StartedNotLost`); only a coroutine that has suspended leads its worker into another's `main_loop` (`AstrayOnlyMigrated`); the scheduler implements `Lifecycle` (`RefinesLifecycle`) |
| `SchedulerLost` | violation | `SuspendedNotLost`: a coroutine that yields may be in no queue, no interest list and no pending callback any more |
| `Runtime` | pass | `RuntimeTypeOK`; nobody runs ahead of `init` (`InitBeforeUse`); the destructor passes its joins only when no other worker exists (`FreedAlone`); every started coroutine gets to run (`StartedRuns`) |
| `Queue` | pass | `TypeOK`; the ring implements the bounded sequence (`RefinesFifo`) |
| `Reactor` | pass | callbacks only behind the switch (`SwitchedBeforeCallback`), complete calls (`ResumedComplete`), lasting registration (`WaitingStaysRegistered`), the only two causes of double resumption and stale registration (`OnceUnlessRaced`) |
| `ReactorLiveness` | pass | a registered call is resumed (`AcceptedResumed`) |
| `ReactorReturned` | violation | `ReturnedItemUnused`: the item of a returned call is registered, written and read |
| `ReadUntil` | pass | no delimiter overlooked (`NeverMissed`, `SearchPointSafe`), none invented (`MatchIsReal`) |
| `Timer` | pass | cached expiry (`NearestIsMin`), short durations not early (`SubSecondNotEarly`), due timers fire (`DueFires`) |
| `TimerEarly` | violation | `NotEarly`: a duration of a second fires after half of it |
| `Buffer` | pass | the content is the stream (`ContentIsStream`), the two reasons for which an access leaves the allocation (`OverflowCauses`) |
| `Socket` | pass | every descriptor has one owner (`OwnedOnce`), the flags tell the truth (`FlagsTrue`), failures change nothing (`FailureChangesNothing`), a suspended call keeps its descriptor (`CallsKeepDescriptor`), addresses and ports arrive (`EndpointFaithful`) |

Run one with `tlc -config Scheduler.cfg MCScheduler`; `Runtime`, `Queue` and
`Buffer` run the modules `Runtime`, `TaskQueue` and `DynamicBuffer` themselves.

**Bounds.** `Scheduler`: two workers are needed for migration and four coroutines
to fill a queue of two while one runs and one starts, so that overflow happens;
`MaxSuspends` = 2, since the lost callback takes two yields of one coroutine.
Workers and coroutines are interchangeable and declared symmetric in this run; its
properties are invariants and a safety refinement. `StartedNotLost` needs
`BatchSize <= QueueLength`, as the default flags have it (10 and 25): `get_task` drops
what its queue refuses. `Runtime`: two workers, so that one can exit or be missing
and the other go on; three coroutines over a queue of one. `Queue`: three cells, so
that the indexes wrap in every phase, and batches of three, so that a refill fills the
ring; with batches of four `RefinesFifo` is violated, as it should be. `Reactor`: one coroutine with three calls, two bytes so that a transfer can
be short, one `EWOULDBLOCK`, one signal. `ReactorLiveness`: two coroutines, no signals.
`ReadUntil`: six bytes and delimiters of up to three bytes that overlap themselves;
the theorems are not bounded. `Timer`: two timers, two seconds, three microsecond
values, one of them the last of the second, so that the timestamps jump back.
`Buffer`: capacities 6 and 9 and chunks of 4, so that append can be refused, shift and
pass the allocation. `Socket`: an acceptor, a socket and a target for the moves of each
over two descriptors, so that a number is given out again; five operations that have an
effect (open, listen, accept, open, connect; or open, begin, close, open, begin), and
any number of registrations, callbacks, returns and operations that change nothing; it
was also checked once with six, 962,693 states. Two errnos, one that some operations
report and one that others do; writes stand for reads as well, which behave like them
but cannot block the epoller. Descriptors are symmetric.

**Deadlock** is checked in `Queue`, `SchedulerLost` and `ReadUntil`. The other models
really stop: at undefined behaviour, when every call has returned, when the clock
has come to its end, when a coroutine waits for a peer, when `exit()` is over, or at
a bound.

**Fairness.** Nothing in the code stops a worker, so each one that can go on does
(`WF` of `WorkerStep`). The epoller and timer threads are loops of the same kind.
The epoll descriptor is level-triggered, so a descriptor that stays registered is
reported as long as there is something to report: strong fairness of `Report`,
since the epoller is away from `epoll_wait` in between. This assumes that the peer
goes on. `StartedRuns` needs only the workers (`RunWorker`): nothing is assumed of
spurious wakeups, `MainLoopIdle`, the epoller, `exit()` or who starts coroutines.

## 4. Proofs

Every invariant, action property and refinement that a passing run checks is a
theorem as well, for all values of the constants that satisfy the assumptions named
below. Each module proves one inductive invariant, or a few that build on each other:
it holds initially, every step keeps it, and the properties follow from it. Each of
them was checked with TLC on small instances first. The step lemmas have a step for
each action, and under it one for each conjunct that the action can disturb.

**`SchedulerProofs`**, from `ConstantsAssumption`, for any sets of workers and
coroutines and any `QueueLength`, `BatchSize` and `MaxSuspends`:

* `TypeCorrect`, `ExclusiveTheorem`, `SavedTheorem`, `StackTheorem`. The invariant is
  `SafetyInv`, the four properties together with `Bookkeeping`. None is inductive
  alone. A coroutine enters a queue out of `delay_callback_`, and that it is not in a
  queue already is `Exclusive`; that the coroutine named there has left through `yield`
  and not by returning, and that a worker in "fn" runs the coroutine named by
  `current`, is `Bookkeeping`; that a coroutine taken out of a queue has a context to
  jump to is `ResumableIsSaved`. `RuntimePushSets`, `ThreadPushSets` and `GetTaskSets`
  say what the queue operations do to the sets of queued coroutines, so that the action
  lemmas never look into sequences.
* `AstrayTheorem`, with `HomeInv`: a coroutine that has not suspended since it began is
  on the `SmartThread` that its `tls_st` names (`Homed`).
* `LifecycleTheorem`, the refinement of `Lifecycle`, and `StartedTheorem`
  (`StartedNotLost`), both under `BatchSize <= QueueLength`: then what `get_tasks`
  splices off the list fits the empty queue and nothing is dropped (`GetTaskKeeps`).
  The default flags are 10 and 25; without this, `get_task` does drop coroutines.

**`RuntimeProofs`**: `RuntimeImplementsScheduler` shows that a behaviour of `Runtime` is
one of `Scheduler`, so that `RuntimeKeepsCoroutines` follows from the theorems above.
`RuntimeTypeCorrect`, `InitTheorem` and `FreedTheorem` rest on `InitOrder` (before `init`
has ended the scheduler has not moved) and `JoinOrder` (whom the destructor has joined
does not exist, or called `exit()` itself). `OutsideAssumption`: the name for a thread
of the program is not that of a worker.

**`TaskQueueProofs`**: `QueueTypeCorrect`, and `FifoTheorem`, the refinement of `TaskFifo`,
for any capacity but 0, any batch that fits it (`BatchSize <= Capacity`) and any length of
the list. `PushFacts` and `PopFacts`
say that `push` appends to `Items` and `pop` takes its first element away, through the
wrap-around of both indexes; they rest on `Counts`, which shows that `is_empty_` tells
the two cases of `head_ = tail_` apart. The invariant adds `RingFilled`: during the loop
of `get_task` the ring holds the beginning of `tmp_list`, as far as it fits; that all of
it fits is `BatchKept`.

**`ReactorProofs`**, for any calls, descriptors and coroutines:

* `ReactorTypeCorrect`, `SwitchedTheorem`, `ResumedTheorem` and `OnceTheorem` follow from
  `ReactorInv`. `SwitchedBeforeCallback` needs the way of an item: into the interest list
  only behind the switch, and from there into `ready_list_` (`RegisteredAway`).
  `ResumedComplete` needs what a context says of its call (`ContextTrue`,
  `ResumedHasResult`). `OnceUnlessRaced` needs `CalmInv`: as long as no signal came and the
  epoller overtook no worker, `watching_` tells whether an item is registered, and an item
  is taken out before its coroutine is pushed.
* `WaitingTheorem` (`WaitingStaysRegistered`) is proved under `Undisturbed`: one coroutine
  for each descriptor, or no signals. With two coroutines on one descriptor and a signal
  it does not hold: `ready_list_` still has the item of one of them, and the `epoll_ctl`
  at its end takes the other's registration away.
* `ConstantsAssumption` says that a `read_until` finds its delimiter only after a byte
  has arrived, since `smart_read_until_impl` searches after a successful read.

**`ReadUntilProofs`**, for any alphabet, delimiters and chunk size: `NeverMissedTheorem`,
`SearchPointTheorem`, `MatchIsRealTheorem`, `ReadUntilTypeCorrect`. `NeverMissed` is not
inductive: after a partial match the next search begins in the middle of the buffer,
and that nothing can begin before that point is a statement about bytes still to come.
`SearchPointSafe` says it in a form that is stable under appending: every earlier start
has already met a byte that differs.

**`TimerProofs`**, for any finite set of timers and any clock values and durations:
`TimerTypeCorrect`, `NearestTheorem`, `SubSecondTheorem`. The last rests on `Promises`: for
a duration below a second the timestamp differs from the time asked for by the same
multiple of 999000 by which the clock's own timestamp differs from the time, so that
comparing timestamps of different units still compares times, since the clock does
not go back. `RangeAssumption`: no timestamp overflows its `uint64_t`.

**`BufferProofs`**, for any capacities, threshold and chunks: `BufferTypeCorrect`,
`ContentTheorem`, `OverflowTheorem`. `BufferInv` bounds `capacity_` by
twice the first allocation as long as no access has gone outside, so that the sizes are
what they seem. `SizeAssumption` has `SizeRange > 3 * MaxCapacity`: the sums of
`max_writable_bytes` do not wrap around `size_t`.

**`SocketProofs`**, for any objects, descriptors, callers, hosts and ports:

* `SocketTypeCorrect`; `OwnedTheorem`, from `Owned` (two objects or accepts never share a
  descriptor) with `ObjectsSound` and `CallsSound` (what a suspended call may hold);
* `FlagsTheorem` and `CallsTheorem`, from `Truth`: as long as no descriptor is closed and no
  object moved under a suspended call, a call is about the descriptor of its object, and
  the state of its connection is the kernel's. Neither is inductive alone: `connected_` is
  set by the end of a call, so that it is true only if the call was about this descriptor,
  and a new descriptor does not meet an old call since `Owned` says who has it;
* `EndpointTheorem`, from `MakeFacts` and `PeerFacts`;
* `FailureTheorem`, the action property `FailureChangesNothing`.

`StepCases` first reduces `Next` to thirteen kinds of steps, without how they report their
end; the step lemmas go through these.

Only model-checked are the liveness properties `StartedRuns`, `AcceptedResumed` and
`DueFires`: they rest on fairness, which is out of the prover's reach.

## 5. What the checks found

The three runs that end in a violation show places where the code does not do what
a comment says; `PROJECT.json` quotes each under "findings". More facts follow from
the models without a run of their own, most of them as the exceptions that a property
needs in order to hold:

* a coroutine that returns on another worker than it began on sends that worker into
  the `main_loop` of the other's `SmartThread` (exception of all of `Scheduler`);
* the flags name an initial capacity of a `DynamicBuffer` and a much larger maximum, but
  the buffer does not grow: `append` refuses what exceeds `max_writable_bytes`, and
  reaches `expand_capacity` only for what exceeds it still, so that it writes behind the
  allocation when the content outgrows it. `move_forward` lets `capacity_` grow past
  `max_capacity_` instead, and shifts the content below `move_forward_threshold` too (the
  two causes of `OverflowCauses`);
* `watch_event` ignores a failing `epoll_ctl` (a second coroutine on a descriptor, one
  that epoll does not take, an epoller that is not initialised), and the coroutine then waits for ever; so does
  a `smart_write` of 0 bytes, and a read of a pipe that only hangs up;
* `exit()` does not return while another worker exists (`FreedAlone`), and what is
  queued at a worker whose coroutine has called it never runs (`StartedRuns`);
* `listening_` survives `close` and a move (`FlagsTrue`); a call that is suspended on a
  closed descriptor is stranded, or answers for another one of the same number, and a
  `connect` whose object is moved sets `connected_` in the object that was moved from
  (`shared`, the exception of `FlagsTrue` and `CallsKeepDescriptor`);
* accepted descriptors, those of threads that are no workers, and those for which `fcntl`
  fails are blocking: a `smart_write` on one can hold up the epoller (`Blocks`);
* of a batch that is larger than its queue `get_task` drops the rest (the condition of
  `StartedNotLost` and `RefinesFifo`);
* errors outside the lists of `TcpSocket` and `Acceptor` leave `ec` at `Success`, the
  `EINPROGRESS` of a thread's `connect` among them; no flag is set by them
  (`FailureChangesNothing`);
* for Ipv6, `copy_addr` writes over the scope and over the address itself, and
  `from_sockaddr` keeps the port in network order (`EndpointFaithful`).

## 6. Not modelled

What `errno` holds; stack sizes; the bytes and the printed form of addresses; an
`exit()` while `init` still runs; the buffer views and `ErrorCode`, which are plain
values; `Resolver`, which is empty; the assembly of libcontext, which is vendored and
which `Scheduler` knows by what a jump does. The following limits what a property says:

* `Scheduler` stops at the first entry into another worker's `main_loop`. What becomes of
  the stacks after that, `StackAlive` does not tell.
* `Socket` has one suspended call for each object at a time, and does not destroy an
  object under a call, which would go on with a `this` that is gone.
* In `Socket` a callback runs once. That an interrupted `epoll_wait` may repeat one is in
  `Reactor` (`OnceUnlessRaced`); a repeated `accept` would overwrite the descriptor it
  brought, and `OwnedOnce` does not cover that.
* A connection, once made, does not drop in `Socket`: no code resets `connected_` then,
  and `FlagsTrue` says only that the connection was made.

## 7. Plan

1. Done: all modules of section 2, and a theorem for each safety property that a passing
   run checks.
2. `Scheduler` has the queue of a worker as a bounded sequence, and `FifoTheorem` is about
   one worker's ring. The same could be shown of all rings at once, inside `Scheduler`.
3. `Scheduler` assumes that the epoller resumes a call once, and `Reactor` shows in
   which two cases it does not (`OnceUnlessRaced`). A composition of both would follow
   a double resumption into the queues.
4. Lemmas about the conversions of `Endpoint` for Ipv6, and about `HToNS` as its own
   inverse.
