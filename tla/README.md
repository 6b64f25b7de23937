# LinuxFibers: a TLA+ verification project

LinuxFibers brings the fiber API of Windows to Linux: `ConvertThreadToFiber`,
`CreateFiber`, `SwitchToFiber` and fiber local storage (FLS), as ioctls of a kernel
module or, with `USERSPACE`, as a user space library, together with a simulation
program that exercises them from several threads. The models follow
`src/multi_thread`, the current version, and, for `SingleFiber`, its predecessor in
`src/single_thread`.

## 1. Inventory

| Component | State | Operations | Interacts with | Correct when |
|---|---|---|---|---|
| Kernel module, handlers (`Module/fiber_ioctl.c`) | `list_process`, per process `threads`, `fibers`, `fiber_id`, `lock_fiber`, `lock_hash`; per fiber `index`, `running`, saved registers; `count_threads` | `CONVERTTOFIBER`, `CREATEFIBER`, `SWITCHTOFIBER`, the kprobe `Pre_Handler` on `do_exit` | called by every thread of every process at once; the scheduler probe and `/proc` read its objects | a computation is loaded in one thread or parked in one fiber; converted threads stay known; handles name one fiber; no freed memory is used; every call returns |
| Kernel module, FLS | `fls_bitmap`, `fls_array` of the active fiber | `FLSALLOC`, `FLSFREE`, `FLSGETVALUE`, `FLSSETVALUE` | its bitmap is followed by `regs`, `f_list`, `fpu_reg`, which switches rewrite | a slot keeps its value until it is freed, and is really freed then |
| Kernel module, scheduler probe (`Module/proc.c`) | `scheduled` per CPU, `starting_time`, `total_time` | `switch_handler` | follows `active_fiber` without a lock | a fiber is charged for what it ran, and once |
| Kernel module, `/proc` view (`Module/proc.c`) | operations tables, addresses of fibers in inodes | `fh_lookup`, `fh_readdir`, `fibers_readdir`, `fibers_lookup`, `open_file`, `show_file` | reads `fibers` while the handlers change it | shows fibers that exist |
| Kernel module, loading | registrations | `fiber_ioctl_init`, `fiber_ioctl_exit`, `fh_*` | the kernel calls whatever is registered | all or nothing is registered |
| Library (`src/function_calls.c`) | `fd`, `done` | the wrappers, `init_file` | called concurrently | answers mean what the caller takes them for |
| User space fibers (`src/ult.c`, `ult.h`, `jmp.S`) | `running`, `context` of a fiber; thread-local `current` | `ult_convert`, `ult_creat`, `ult_switch_to`, `fls_*` (one array for all fibers) | signals, alternate stacks | as the kernel module; a stack is used by one thread; a fiber's slots are its own |
| Calendar queue (`src/calqueue.c`) | buckets, width, position, thresholds | `calqueue_put`, `calqueue_get`, `resize`, `new_width` | one per fiber, kept in FLS | events come out in order and none is lost |
| Simulation program (`src/main.c`, `thread.c`) | `fibers`, `completed_fibers`, `init_complete`, the alarm | start-up, `schedule`, `main_loop` | everything above | all fibers finish, then the program ends |
| Simulated cell (`src/model.c`, `channel.c`) | busy channels as bits, as a doubly linked list and as a counter | `ProcessEvent`, `allocation`, `deallocation` | the calendar queue | the three records agree, and the calls get completed |
| Single-threaded predecessor (`src/single_thread/Module`, `Library`) | tables as above, never freed for a process | the same ioctls without locks | | as the kernel module, for one thread per process; its switches lose the floating point registers |
| Query demo (`src/single_thread/query_*`) | three variables | a demonstration of ioctls | | not part of the fibers |

What is hard here: handlers of several threads interleave with almost no locking;
objects are freed by an exit probe while other threads hold pointers to them; a
switch is a test and several assignments; a signal handler switches stacks; the
queue's position is kept in four variables that five functions change. The list
"hazards" of `PROJECT.json` has each of these at its line, with the properties that
would catch it going wrong.

## 2. Modules

| Module | Models | Uses |
|---|---|---|
| `FiberContexts` | the abstract promise: contexts are loaded or parked, a switch exchanges two of them in one step | |
| `FiberIoctl` | the handlers and the exit probe, step by step | implements `FiberContexts` |
| `Fls` | fiber local storage with the layout of `fiber_arg_t` | |
| `SchedTime` | the scheduler probe and the times it keeps, with migration and preemption | |
| `ModuleLoad` | registration, rollback and removal | |
| `ProcFs` | the `/proc` view, a process and a reader | composed with `ModuleLoad` |
| `Ult` | user space fibers and their local storage | implements `FiberContexts` |
| `CalendarQueue` | the calendar queue | |
| `Cell` | the events of one fiber: the simulated cell and its channels | |
| `Simulation` | the program: the library's start, threads, fibers, SIGALRM, termination | |
| `SingleFiber` | the predecessor's module and library | implements `FiberContexts` |
| `FiberIoctlProofs`, `FlsProofs`, `UltProofs`, `SchedTimeProofs`, `ProcFsProofs`, `SimulationProofs`, `SingleFiberProofs` | theorems (section 4) | the module of that name |
| `CellQueueProofs` | theorems about what a fiber of the simulation keeps in its FLS | `Cell`, `CalendarQueue` |
| `MC...` | instances for TLC | the module of that name |

A definition named `X_Something` with the comment "Variant" is a wrong version of `X`
that no specification uses: `PROJECT.json` lists it as a mutant, and the
property beside it fails when `X` is replaced by it.

### FiberIoctl

The variables are the fields of `process_arg_t`, `thread_arg_t` and `fiber_arg_t` (as
functions of an address), `count_threads`, and for each thread its place `pc` in the
handler and the handler's locals. `live[t]` is `task_pt_regs(current)`: the
computation thread `t` executes. A computation is known by the thread or fiber that
began it and the number of user steps it has made, so that a context restored twice
or restored from an old copy is told apart.

One action is one access to shared memory, or a run of accesses no other handler can
tell apart:

| Code | Actions |
|---|---|
| `CONVERTTOFIBER` | `ConvertSearch` (kzalloc, search), `ConvertNewProcess` (kzalloc, `hash_add`), `ConvertInitThreads`, `ConvertInitFibers` (`hash_init`), `ConvertThread`, `ConvertFiber`, `ConvertCount` |
| `CREATEFIBER` | `CreateSearch`, `CreateFiber` |
| `SWITCHTOFIBER` | `SwitchSearch`, `SwitchLock`, `SwitchFind` (search; unlock if there is none), `SwitchCheck` (`running`; unlock if it is set), `SwitchCommit` (exchange, unlock) |
| `Pre_Handler` | `ExitSearch`, `ExitThread` (decrement), `ExitFree`, `ExitLast` (second read of the counter) |

`Oops` is the step that dereferences freed memory or NULL; it sets `fault` and ends the
run. Left out: activation counters and times, `printk`. Simplified: an insertion
in a hash table and a section under `lock_hash` are single steps; freed addresses are
not handed out again (so a use of freed memory is always seen as one).
Nothing keeps the calls of different threads apart. `overlapped` records that a first
conversion or an exit has met another call of its process: what the tables promise
(`ConvertedThreadFound`, `HandleUnambiguous`, `NoStuckFiber`, `FaultsExplained`) is said of the
code up to then, and what the contexts promise is said of all of it.

### Fls

Slot numbers are bit numbers from `fls_bitmap` on. As the array is declared with
`sizeof(MAX_FLS)` bits, only those below `OwnBits` are its own; then come the bits of
`regs`, `f_list` and `fpu_reg`. A switch gives the saved registers arbitrary
bits. `owned` and `last` record what the program knows: the slots it got and
what it last stored there; `owned` follows what
`FlsFree` returned. Calls use indices of the array, and free slots the fiber
holds.

### Ult

A switch is four steps: the flag of the target is taken, `_set_jmp` saves the caller,
`ult_unlock` releases it, `_long_jmp` loads the target. `stack[t]` is the
stack thread `t` is on. A creation is a switch to the new fiber and one back, during
which the creator's own fiber is free to be resumed by another thread. `ult_convert` has no
guard: a thread that converts again goes on as another fiber, and the first stays locked.
The value `set_jmp` returns the second time is the caller's `rax`, which is taken
to be non-zero. Fiber local storage is one array for all fibers, handed out by a
fetch-and-add that failing calls make too; `got` and `stored` record what each
fiber knows, and a fiber stores its own name.

### CalendarQueue

Times are integers (`Unit` to 1.0) and the width is an exact fraction; in the code both are
`double`, so rounding is not modelled, nor is the overflow of `int` bucket numbers.
A width of 0 or NaN puts every event in bucket 0 and makes every get a direct search,
as on x86-64. A negative width is a state the model reaches, and reaches buckets before the
calendar from; it stops there. `Time` is the set of the times of events: how far apart they may
be is not bounded. `held` counts the events put in and not returned, `got` is the last one
returned.

`calqueue_put` and `calqueue_get` are one step (`Put`, `Get`) up to their test for a
resize. What follows is a step for each round of a loop, told apart by `pc`:

| Code | Actions |
|---|---|
| `new_width` | `NewWidth` (sample size, position saved), `TakeSample` for each `calqueue_deq`, `PutBack` for each `calqueue_put`, `SetWidth` (position restored) |
| `resize` | `StartCopy` (`localinit` at the other end of `calq`), `CopyEvent` for each event, `Copied` |

`resize_enabled` is false from `NewWidth` to `SetWidth`, which is why `TakeSample` and
`PutBack` do not resize. `CopyEvent` is a `calqueue_put` that could; it is modelled without
one, and `CopyNeverResizes` shows that the threshold is never passed. `MAXNBUCKETS` is assumed
to be a power of two and `CALQSPACE` at least twice as large (32768 and 65536 in the code).

After a scan in vain the direct search takes the least event, but leaves `buckettop` where the
scan ended. `OnTime` describes the states in which this has done no harm: the scan's position
(`lastbucket`, `buckettop`) is that of the last event taken out, and no event precedes it.

### Simulation

A context is a fiber of the array `fibers`, or a worker thread's own. The first library calls of
the threads overlap (main.c:172 starts the workers, which convert at 119 while `main`
does at 179): each tests `done`, opens the device if it is not set, and converts. The ioctl of
the conversion runs in the steps in which two of them disturb each other:

| Code | Actions |
|---|---|
| `ConvertThreadToFiber` | `TestDone`, `init_file` (open, then `done`), `ConvertSearch` |
| `CONVERTTOFIBER` after its search | `ConvertNewProcess`, `ConvertInit` (`hash_init` of threads, then of fibers), `ConvertRegister` |
| `main` | `create_threads`, `CreateFiber`, `FibersCreated`, `signal_alarm`, `InitComplete` |
| `main_loop` | `Malloc`, `EventDone`, `FiberDone`, `Exit`; `NoSlot` (lines 53-56), `NoQueue` (`FlsGetValue` gives NULL) |
| `thread_initialization`, `schedule` | `Waited`, `PickFirst`, `ScheduleDone`, `ScheduleHandler`, `HandlerReturn` |

`process`, `known` and `listed` are the tables the module finds for the process; a conversion
that adds or empties a table can lose the threads and fibers in it. Of a thread the module does
not know every call is refused, and the program sees it in different ways: `CreateFiber`
makes no fiber, `FlsAlloc` fails and the program exits, a queue is missing and it crashes,
`SwitchToFiber` does nothing and it may wait for ever. `raced` records that a first conversion has
met another conversion; `ended` is how the program ended. The other calls are single steps.
The thread and its fiber are registered in one step: where they can be told apart the thread is
lost either way. The exits of `main_loop` for an empty queue (70-73) and for an event of
another fiber (75-78) are in other modules: a queue is not empty before its simulation ends
(`NoAbort` and `Finishes` of `Cell`), and a fiber's slots and registers are its own (`Fls`,
`FiberIoctl`). Signals are external: SIGALRM is blocked where the handler
runs and unblocked where it returns, which need not be the same thread. With `HeapLock` an
allocation holds a lock while it lasts, as glibc's does in a program with threads. An open is
taken to succeed, and so are the allocations of the module and of the program.

### SchedTime

`switch_handler` runs on a CPU after it changed its task. Its two halves are two steps
(`SwitchHandlerOld` charges the fiber of the task the probe saw last on this CPU,
`SwitchHandlerNew` stamps that of the current one), with those of other CPUs in between.
Conversion is three steps, because a task may sleep in its allocation and because the
thread is hashed before it has a fiber; `SWITCHTOFIBER` runs with interrupts off and is
one. The clock stands still while a CPU owes a probe or a handler runs.

Nothing is assumed of the scheduler: a task is switched out anywhere, in a handler too,
and is picked by another CPU before the one it left has run its probe (`finish_task_switch`
clears `on_cpu` before it returns). `ran`, `missed` and `truncated` are what an observer would
count; `preempted` has the threads switched out between their `hash_add` and their fiber,
`early` those picked that early, and `disturbed` the fibers they were on. `fault` is the thread
whose NULL `active_fiber` was followed, which ends the run.

### ModuleLoad and ProcFs

`ModuleLoad` has the order of `fiber_ioctl_init` as a sequence of resources, each of which
may fail, what is undone then (`Rollback`), and the order of `fiber_ioctl_exit`. When the
image goes, what is still registered becomes `orphans`.

`ProcFs` extends it with the users of what is registered: a process that opens the device
(which it can as soon as the device exists, before `hash_init` of line 407), converts,
creates and ends, and a reader of `/proc/<pid>/fibers`. The directory is sized
under `lock_fiber` (`ReaddirSize`, `LookupSize`) and walked after it, a fiber a step (`WalkTo`,
in any order, as the buckets have it), with conversions, creations and ends in between. The walk
follows pointers of the table and of the fiber it is at: if they were freed it faults
(`WalkFreed`). At the end (`ReaddirWalk`, `LookupWalk`) the elements of the table that no fiber was
written to are passed on as entries without a name (`NAMELESS`), as proc.c:87 does. Whether
the module's own calls of `proc_pident_readdir` and `proc_pident_lookup` are caught by its hooks
depends on how the compiler translates `return readdir(...)`; both are possible (`tailCall`).
The reader is in a hook (`readdir`, `lookdir`) until `HookReturns`, so the module may go under it;
a hook whose image is gone and that is still registered is code that is gone. `fault`
says which memory or code was missing; after it nothing happens.

### Cell

The pointers of the channel list are modelled as such. Times are random variates, so
the queue returns any of its events. Powers, fading and arrival rates are left out: no
branch of the control depends on them. `CHANNELS_PER_CELL` and `BITS` keep their relation:
the last word of the bitmap is used in part, and only half of the allocated words are
cleared.

### SingleFiber

One pid, used by several tasks in turn: nothing frees a `process_arg_t`, so a later task
finds the fibers of the earlier one. Memory from `kmalloc` has arbitrary contents
where the code does not set it, the bitmap in particular. A slot beyond the bitmap's word
is a bit of `fls_array`; what happens to a fiber after it was given one is not
followed. `MAX_FLS` is any number of bits, the word's or more (4096 and 64 in the code).
`FlsGetValue` gets its value as the `int` that ioctl returns.

`SWITCHTOFIBER` replaces `fiber->fpu_reg` by memory it has just allocated and loads that (lines 217
and 257), and `CREATEFIBER` saves the caller's floating point registers twice: `fpu` and `fpu_reg`
have this, as far as whether the registers are the computation's own. After a switch they are not.
`ImplementsContexts` is a statement about the general registers of a context only.

## 3. Runs

| Run | Bounds | Result |
|---|---|---|
| `handlers_race` | 2 threads, 1 process, 3 fibers, 2 process allocations, 1 user step, kzalloc may fail | `TypeOK`, `HandlerInv`, `ContextsExclusive`, `ActiveFiberOwned`, `ImplementsContexts` hold in every interleaving, the damaging ones included; `ConvertedThreadFound`, `HandleUnambiguous`, `NoStuckFiber`, `FaultsExplained` hold |
| `handlers_return` | as `handlers_race` without user steps and failing allocations, fair | `CallReturns` holds |
| `fls_in_word` | 1 thread, 2 fibers, a word of 3 bits, one bit each of `regs` and `f_list`, 2 slots at a time | `SlotsReadBack`, `NoSlotLeaked`, `FiberStaysLinked` hold |
| `sched_time` | 2 CPUs, 2 threads, 3 fibers, 3 units of time, 2 to a microsecond, any scheduler | `TimeAccounted`, `FaultsNamed` hold |
| `kernel_module` | any number of loads, 2 process allocations with 3 fibers each | `NothingLeftBehind`, `FaultsNeedRace`, `ListingSnapshot` hold |
| `ult_switch` | 2 threads, 4 fibers, 1 slot, 2 calls of `fls_alloc` | `TypeOK`, `SharedOnlyWhileLeaving`, `OwnSlotsReadBack`, `ImplementsContexts` hold |
| `calendar_resize` | 2 to 8 buckets, 9 events, at 0, 0.5, 1.5, 3.5 and 4.0 | `EventsConserved`, `BucketsSorted`, `CalendarsDisjoint`, `CopyNeverResizes`, `TakesMinimum`, `PositionKept` hold |
| `calendar_width` | the same with 5 events | `WidthNotNegative` fails |
| `cell_calls` | 4 channels in words of 3 bits, 5 calls to complete, fair | `ChannelsAgree`, `ListWellFormed`, `NoAbort`, `Finishes` hold |
| `simulation_ends` | 2 threads, 3 fibers of 1 event, no heap lock, conversions in every interleaving, fair | `ExitMeansDone`, `FailsOnlyAfterRace`, `AlarmKept`, `ReturnsConverted`, `Terminates` hold |
| `simulation_heap` | the same with the heap lock | `Terminates` fails |
| `single_fibers` | 2 tasks with one pid, 2 fibers, 3 indices, 5 bits in words of 2, 2 values to store | `HandlesOwn`, `SlotsReadBack`, `ImplementsContexts` hold |

Why these bounds are enough to meet the interesting cases. Two threads meet at every
race of the handlers, and two process allocations are what the conversion race needs;
three fibers let a fiber be left, taken by another thread and come back. Calls overlap and
calls follow one another, so the run reaches the states with and without `overlapped`; that
processes share `count_threads` is left to the theorems, which hold for any number of them. Two CPUs are what a
migration needs, and with two units to a microsecond an interval may be cut off in the division.
Three fibers leave a hole in the table of `/proc`, and a second `process_arg_t` is what a reader
meets that still holds the first. The one slot of `ult_switch` makes the second allocation fail.
Nine events are the least that make a calendar grow twice (more than 4, more than 8) and
shrink again (fewer than 2 in 8 buckets). The times of `calendar_resize` are two groups more than
a year of the first calendar apart, so that direct searches happen and leave the position
wrong: events then come out of order, and negative widths are reached. `MaxTop` bounds
how far `buckettop` runs ahead. Four channels let a node leave the list at its head, in the
middle and at its end while the cell is full. In the runs of the simulation the program has more
fibers than threads, as `main` demands; an event is an allocation and a release with preemption
in between, and further ones repeat it. In `single_fibers` the bitmap is used with three bits
more than its word has.

Symmetry is used for threads and fibers where they are only compared
(`handlers_race`, `fls_in_word`, `sched_time`, `ult_switch`), never in a run with a liveness property.

Deadlock is checked except where a bound or the end of the system stops everything:
`calendar_resize` and `calendar_width` (`MaxTop` stops the puts), `sched_time` (`MaxTime` stops
the clock, all threads may have ended, and a fault ends the run), `single_fibers` (the last task
ended), and `simulation_heap`, where the deadlock is what the run shows as a failure of
`Terminates`.

Fairness. `handlers_return` assumes that a thread inside the kernel goes on (weak
fairness: handlers run on a CPU and do not wait for user code) and that a thread
waiting for `lock_fiber` gets it if it is free again and again (strong fairness: the
kernel's queued spinlocks serve in order). A fault counts as an end of a call there: the
kernel stops. `cell_calls` assumes that the loop goes on and
that no event is overtaken for ever by later ones: the gaps between arrivals are random
variates whose sum exceeds every bound. The simulation's runs assume that a context
that runs again and again gets a step done (a second passes between alarms), that
`random()` picks every fiber again and again, that a set alarm expires and a
pending signal is delivered to a thread that does not block it. `Terminates` says that a behaviour
in which no first conversion meets another one ends with success, and nothing of the others.

`MaxNest = 1` keeps the handler from being interrupted itself, which can happen once a
preempted fiber resumes in a thread that does not block SIGALRM; with a larger bound
`Terminates` would also need that such a handler gets to its end, which a
second between alarms makes true and weak fairness does not say.

### What the code does not promise

`simulation_heap` and `calendar_width` show disagreements between code and comment, described
with both lines under "findings" in `PROJECT.json`.

Other properties hold in a part of the behaviours, which each of them names, and the
runs reach the rest as well:

| Property | Holds | Because |
|---|---|---|
| `ConvertedThreadFound`, `HandleUnambiguous`, `NoStuckFiber` | until a first conversion or an exit meets another call of its process (`overlapped`) | two first conversions make two tables, or one empties the other's; an exit frees objects other calls hold |
| `FaultsExplained` | names what a fault of a handler may come from: `overlapped`, or the NULL of the handler's own `kzalloc` | neither the lifetime of the objects nor the result of `kzalloc` is guarded |
| `ReturnsConverted`, `FailsOnlyAfterRace`, `Terminates` | until a first conversion meets another conversion (`raced`) | the same, as the program sees it: `main` converts while its workers do |
| `FaultsNamed` | names what a fault of the probe may come from: `preempted` or `early` | a thread is hashed before it has a fiber, and the probe charges the task it saw last, wherever that task is now |
| `TimeAccounted` | its lower bound for fibers not in `disturbed`; that nothing is charged too much always | the probe of the CPU a thread left charges from the stamp of the one it is on, or charges another fiber |
| `EventsConserved`, `BucketsSorted` | while the width is not negative | with a negative one events go to cells before the calendar |
| `TakesMinimum` | in the states of `OnTime` | an event more than a year ahead is found by a direct search, which leaves `buckettop` where the scan ended; `PositionKept` says that nothing else makes the position wrong |
| `SlotsReadBack` of `SingleFiber` | for fibers that were given no slot beyond the word | the bitmap has one word and is searched in 4096 bits |

One restriction is a constant. With `MaxOwned = 3` in `fls_in_word` a fiber may hold as many slots
as the word has bits, and `SlotsReadBack` and `FiberStaysLinked` of `Fls` fail: slot 0 keeps its
bit when it is freed, and further slots are bits of the saved registers.

Further behaviours of this kind are part of the properties: two threads on one stack
between `ult_unlock` and `long_jmp` (`SharedOnlyWhileLeaving`), slot 0 that is never freed
(`NoSlotLeaked` is about the others), what failed loads leave behind (`NothingLeftBehind` names
the two failures), the races that hurt a reader of `/proc` (`FaultsNeedRace` names them), and fibers
that are not running when their process ends, which nobody frees (`ExitLast`).

## 4. Proofs

Every safety property that a run finds true is a theorem. The theorems hold for every value of the
constants (threads, processes, fibers, allocations, user steps, CPUs, slots, channels, words,
buckets, events and their times) that satisfies the named assumptions of the module, which say
what type a constant has and that NULL and the other names are not confused. They assume nothing
of callers, of the scheduler or of allocations; where a property holds in a part of the behaviours
only, the statement says which (section 3). The one exception is `Fls`, whose theorems are for
fibers that hold fewer slots than the word has bits.

| Theorem | Statement | Hypothesis |
|---|---|---|
| *FiberIoctlProofs* | | |
| `HandlerInvariant` | `Spec => [](TypeOK /\ HandlerInv /\ ContextsExclusive)` | |
| `TypeCorrect`, `ContextsNeverShared`, `ActiveFiberAlwaysOwned` | `TypeOK`, `ContextsExclusive`, `ActiveFiberOwned` | |
| `HandlersImplementContexts` | `Spec => ImplementsContexts` | |
| `DisciplineInvariant` | `Spec => [](~overlapped => DisciplineInv)` | |
| `ConvertedAlwaysFound`, `HandlesAlwaysUnambiguous`, `FibersNeverStuck`, `FaultsAlwaysExplained` | `ConvertedThreadFound`, `HandleUnambiguous`, `NoStuckFiber`, `FaultsExplained` | |
| *FlsProofs* | | |
| `FlsInvariant`; `SlotsAlwaysReadBack`, `SlotsNeverLeak`, `FibersStayLinked` | `FlsInv`; `SlotsReadBack`, `NoSlotLeaked`, `FiberStaysLinked` | `MaxOwned < OwnBits` |
| *UltProofs* | | |
| `UltInvariant`; `UltTypeCorrect`, `StacksNeverShared`, `SlotsNeverShared` | `UltInv`; `TypeOK`, `SharedOnlyWhileLeaving`, `OwnSlotsReadBack` | |
| `UltImplementsContexts` | `Spec => ImplementsContexts` | |
| *SchedTimeProofs* | | |
| `SchedInvariant`; `ProbeFaultsNamed`, `TimeAlwaysAccounted` | `SchedInv`; `FaultsNamed`, `TimeAccounted` | |
| *ProcFsProofs* | | |
| `ProcFsInvariant`; `NothingEverLeftBehind`, `FaultsAlwaysNeedRace` | `ProcFsInv`; `NothingLeftBehind`, `FaultsNeedRace` | |
| `ListingAlwaysSnapshot` | the action property `ListingSnapshot` | |
| *SimulationProofs* | | |
| `SimInvariant`; `ExitAlwaysMeansDone`, `AlwaysReturnsConverted`, `AlwaysFailsOnlyAfterRace`, `AlarmAlwaysKept` | `SimInv`; `ExitMeansDone`, `ReturnsConverted`, `FailsOnlyAfterRace`, `AlarmKept` | |
| *SingleFiberProofs* | | |
| `SingleInvariant`; `HandlesAlwaysOwn`, `WordSlotsReadBack` | `SingleInv`; `HandlesOwn`, `SlotsReadBack` | |
| `SingleImplementsContexts` | `Spec => ImplementsContexts` | |
| *CellQueueProofs* | | |
| `CellInvariant`; `ListAlwaysWellFormed`, `ChannelsAlwaysAgree`, `NeverAborts` | `CellInv`; `ListWellFormed`, `ChannelsAgree`, `NoAbort` | |
| `CalendarInvariant`; `CalendarsAlwaysDisjoint`, `CopiesNeverResize` | `CalendarInv`; `CalendarsDisjoint`, `CopyNeverResizes` | |
| `EventsAlwaysConserved`, `BucketsAlwaysSorted` | `EventsConserved`, `BucketsSorted` | |
| `PositionAlwaysKept`, `OnTimeTakesMinimum` | the action properties `PositionKept`, `TakesMinimum` | |

None of the properties is inductive as it stands. What has to be added, and why:

**FiberIoctl, contexts.** A switch acts on an answer it got
steps before, so `HandlerInv` says that between lock and unlock a thread holds
the lock of its process (`LockInv`), that a fiber belongs to one process, so that one
lock protects it (`HomeInv`), and that therefore a fiber chosen by a switch is
still not running when the switch is made (`ChosenInv`). A fiber that is being built is
reachable from nowhere (`BuildingInv`), the active fiber of a thread is allocated,
running and nobody else's (`ActiveInv`), threads on their way out have given up
their context (`ExitedInv`), and a computation exists only after its fiber was created
(`StartedInv`), which keeps a new fiber from bringing an old computation back. Each
action has a lemma that it preserves the invariant. The refinement maps `live` to itself
and `parked` to the saved contexts of the allocated fibers that are not running:
`CreateFiber`, `SwitchCommit`, `ExitSearch` and `UserStep` are steps of
`FiberContexts`, all others leave the two unchanged. This part holds whatever happens to the
tables.

**FiberIoctl, tables.** That converted threads stay findable, that handles are
unambiguous and that memory is not freed too early is not true of all behaviours.
`DisciplineInv` holds until `overlapped`: up to then whoever creates a `process_arg_t` or exits
is alone in the handlers of its process (`AloneInv`). From this follows that a pid has one
`process_arg_t`, which stays where it is while a handler works on it (`ProcessInv`), that a
thread is registered there from its conversion to its exit (`RegisteredInv`), and that the
fibers of a table are allocated and numbered apart (`FibersInv`). The step that
frees a `process_arg_t` is taken when `count_threads` is zero; as that counter is shared by
all processes, the invariant says what it counts: the registered threads that are not
between registering and counting (`CountInv`). When it is zero in the exit of the last
thread, nobody is left who could hold the pointer. Allocations may fail: the invariant
holds on into the state in which `Oops` ends the run, with one more part (`FaultInv`), that
a fault is the work of a thread whose own `kzalloc` of a fiber gave NULL. It holds because the
proof goes through the dereferences of every handler and finds each of the others
guarded by `ProcessInv`, `RegisteredInv` or `FibersInv`.

**Fls.** The bits of the word are those of the held slots, and slot 0 (`WordInv`).
A fiber that holds fewer slots than the word has bits finds a zero bit in it, by counting,
so `find_first_zero_bit` never reaches the registers that follow.

**Ult.** The flag `running` plays the part of `lock_fiber`: it is set because of one
thread, which is on that stack or on its way to it (`HeldInv`). With where a
thread comes from and goes to in each of the four steps (`PlaceInv`), a computation is in
the registers of one thread or kept in one fiber (`DistinctInv`), also while two threads are
on one stack. The refinement takes the atomic switch to be `_long_jmp`.

**SchedTime.** Two CPUs never have the same task, and a thread that was hashed and has no fiber is on
the CPU where it was hashed or was switched out since (`CpuInv`). A converted thread has a
stamped fiber of its own (`FiberInv`). A task that one CPU left without charging it
and that another one has was picked early, and a CPU that is to charge a fiber is the only one
that does, unless no time has passed since the fiber's stamp (`OwedInv`). The
account itself holds at quiet moments only, so `Account` adds the time that is still to be counted
for threads that execute and for those a CPU is about to charge; that nothing is charged twice
holds for disturbed fibers too.

**ProcFs.** What is registered is a prefix of the order of loading, or a suffix of that of
unloading (`LoadInv`), an open file pins the module (`FileInv`), and what the reader holds
is as it was unless an event in `since` happened (`ReaderInv`). A walk stays in a table that was
allocated, and what it went through is still hashed or was freed (`WalkInv`), which makes what
`ReaddirWalk` passes on a snapshot of the moment the walk ends.

**Simulation.** `completed_fibers` is the number of fibers that `main_loop` has not ended for
(`CountInv`), so 0 means that none is left; `fd` is open wherever a thread may use it
(`OpenInv`). While `raced` is false the conversion that makes the `process_arg_t` is alone until
its tables are ready and the others work on that one (`RaceInv`); a thread that is known, or has
switched, has returned from its conversion (`ReturnedInv`), so that no conversion runs under a
fiber. A handler that has yet to set the alarm is on the stack of a context some
thread runs (`AlarmInv`). The theorems hold with the heap lock, too: what it breaks
is termination.

**SingleFiber.** Numbers of fibers are below `fiber_id`, which no new task resets
(`TableInv`). `FirstZeroBit` is the least of a set of naturals, which exists because `<` is
well-founded on them; a slot that was given to a fiber without overflow lies in the word, has its
bit set and its value (`SlotInv`), whatever is beyond. The module's assumption `WordBits <=
MAX_FLS` is a fact of the code (64 and 4096): the end of the search is not mistaken for a bit
of the word.

**Cell.** The list is a chain (`ListInv`): an enumeration of the allocated nodes from the
tail to the head, along which `prev` and `next` go, exists before and after each step;
insertion extends it and removal closes it up, whichever node leaves. `Walk` is a
recursive function, and its value is computed from the chain (`WalkMeets`) by exhibiting
a solution of its equation and excluding a least place where it could differ. The bits,
the numbers of the nodes, the counter and the queue are tied to one another in
`BusyInv`; for this a channel must have a bit of its own in a word that INIT clears
(`Bits`, from the properties of division).

**CalendarQueue, contents.** `CalendarInv` has the types and what is known in each loop
(`QueueOK`, `PhaseInv`), the sizes (`SizeInv`) and the events (`ContentsInv`). The number of
buckets divides `MAXNBUCKETS`, so that doubling stays within it and halving is exact, the
calendar is at one end of `calq`, and the size of the calendar and of what is left of the old
one is at most twice the number of new buckets (`OldInv`); the last is why a copy cannot start a
resize. Events are counted by their places (bucket, position): inserting a node, or removing the
head of a bucket, is a bijection of the other places (`OneMore`), so that each of `Put`, `Get`,
`TakeSample`, `PutBack` and `CopyEvent` moves one event and leaves the counts of the other
times alone. `ContentsInv` is conditional on a width that is not negative: with a negative
one the copies go to cells outside the calendar and events do get lost.

**CalendarQueue, order.** In `OnTime` the scan starts at the day of `lastprio` and no event
precedes that, so the k-th bucket it looks at is that of the k-th day from there (`ScannedDay`),
a head of that day is hit, and one that is hit is at most a day later (`HitDay`; `buckettop` is
half a day late), which with two or more buckets is that day. So the first hit is the least of
all events (`FirstHit`); if there is none the direct search compares the heads, which are the
least of their buckets (`DirectFirst`). Hence what a get returns, and the samples come out in
order, so that the separations are not negative and neither is the new width. A get that hits
leaves the position at the day of its event; `SetWidth` restores the position and `StartCopy`
computes it anew from `lastprio`. Choices with `CHOOSE` (the place in a bucket, the first hit,
the least head) exist because `<` is well-founded on the naturals (`Least`); the rest is
arithmetic of quotients (`Division`, `Days`, `DaysInOrder`).

Only model-checked: `CallReturns`, `Terminates` and `Finishes`. Liveness under fairness is beyond
the prover.

## 5. Not modelled

- `src/single_thread/query_*`: an example of an ioctl device by another author, and not
  part of the fibers. The build files have no behaviour.
- The floating point of `numerical.c`, of the power computations of `channel.c` and of
  the registers a switch saves, rounding in the calendar queue, and the text that
  `show_file` prints: out of TLC's reach, and no branch of the control depends on them
  except the width of the calendar, which is exact here.
- The loading of the predecessor, which makes the same registrations as `ModuleLoad`
  without the hooks, and its example program.
- Hash tables as linked lists (insertions without a lock may lose a node), the 32 and
  64 bit hash keys of a fiber's index, indices of FLS beyond the array, reuse of freed
  addresses and of `task_struct` memory, allocations that sleep under `lock_fiber`.
  The ones that bite at a line of the code are hazards of `PROJECT.json`, with the reason.
- A failing `open` of the device, and a wall clock that is set back. Allocations of memory fail in
  `FiberIoctl` only: the exits of the program for a failing `malloc` (channel.c:139-151,
  model.c:41-44) are left out of `Cell` and `Simulation`.
- `Cell` takes its events from a queue that loses none, which is what `CalendarQueue` promises while
  its width is not negative. In `Fls` a fiber frees only slots it holds; the code clears the bit of
  any index from 1 to 4095.

## 6. Plan

Every part of the current version that changes state is modelled, and every safety
property that the runs find true is proved. What is left:

1. `CalendarQueue`: a condition on the times of events, weaker than "no direct search", under which
   the position is kept for every size of the calendar.
2. Hash tables as linked lists, for the insertions into `process->fibers` without a lock.
3. `ProcFs` with a second reader, and a process of several threads.
