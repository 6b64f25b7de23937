---------------------------- MODULE Simulation -----------------------------
(***************************************************************************)
(* The test program of multi_thread/src: main.c and thread.c over the      *)
(* calls of function_calls.c.  Every CPU has a thread; the threads run     *)
(* NumFibers fibers, picked at random, and a fiber is preempted by SIGALRM *)
(* whose handler is `schedule'.                                            *)
(*                                                                         *)
(* A context is what a thread can execute: the fibers 1..NumFibers of the  *)
(* array `fibers', of which 1 is the main thread's, and for each worker    *)
(* thread the fiber its ConvertThreadToFiber made.  CONVERTTOFIBER runs in *)
(* the steps in which conversions disturb each other, the other calls into *)
(* the module are one step each (FiberIoctl models their inside).  The     *)
(* search finds the process_arg_t hashed last, which its maker stands for. *)
(* An event of the simulation is an allocation and a release, and times    *)
(* are left out.  The kernel's side of signals is external: SIGALRM is     *)
(* blocked in the thread whose handler runs, and unblocked in the thread   *)
(* in which that handler returns, which after a switch need not be the     *)
(* same.                                                                   *)
(***************************************************************************)
EXTENDS Integers, FiniteSets

CONSTANTS NumThreads, \* cpus
          NumFibers,  \* num_fibers
          MaxWork,    \* events each fiber processes before its simulation ends
          MaxNest,    \* bound on the calls of the handler on one context's stack
          HeapLock    \* TRUE if an allocation holds the heap's lock meanwhile

Threads  == 1..NumThreads
Fibers   == 1..NumFibers
Own(t)   == IF t = 1 THEN 1 ELSE NumFibers + t
Contexts == Fibers \cup {Own(t) : t \in Threads}

\* main: "On %d cores you need at least %d fibers for this program to run".
ASSUME SimulationAssumption ==
    /\ NumThreads \in Nat \ {0} /\ NumFibers \in Nat /\ NumFibers > NumThreads
    /\ MaxWork \in Nat \ {0} /\ MaxNest \in Nat \ {0}
    /\ HeapLock \in BOOLEAN

VARIABLES pc,        \* where each context is
          work,      \* events each fiber still has to process
          depth,     \* calls of `schedule' by SIGALRM on each context's stack
          calling,   \* contexts whose latest such call is still to switch
          runs,      \* the context each thread executes
          process,   \* the thread that made the process_arg_t a search finds, or 0
          proc,      \* the one each thread's conversion works on
          known,     \* the threads in the table of `process'
          listed,    \* the contexts in its table of fibers
          raced,     \* no C state: a first conversion has met another conversion
          blocked,   \* threads in which SIGALRM is blocked
          armed,     \* the alarm is set
          pending,   \* SIGALRM is pending
          heap,      \* the context that holds the heap's lock, or 0
          fd, done,  \* of function_calls.c: the device is open, and is said to be
          init_complete, completed_fibers,
          ended      \* how the program has ended, or "no"

libVars == <<fd, done>>
modVars == <<process, proc, known, listed, raced>>
ctxVars == <<pc, work, heap, libVars, modVars, init_complete, completed_fibers, ended>>
sigVars == <<depth, calling, blocked, pending>>
vars    == <<pc, work, depth, calling, runs, modVars, blocked, armed, pending, heap,
             libVars, init_complete, completed_fibers, ended>>

-----------------------------------------------------------------------------
Init ==
    /\ pc = [c \in Contexts |-> IF c = 1 THEN "create_threads"
                                ELSE IF c \in Fibers THEN "none" ELSE "thread"]
    /\ work = [c \in Contexts |-> IF c \in Fibers THEN MaxWork ELSE 0]
    /\ depth = [c \in Contexts |-> 0]
    /\ calling = {}
    /\ runs = [t \in Threads |-> Own(t)]
    /\ process = 0 /\ proc = [t \in Threads |-> 0]
    /\ known = {} /\ listed = {}
    /\ raced = FALSE
    /\ blocked = {}
    /\ armed = FALSE /\ pending = FALSE
    /\ heap = 0
    /\ fd = FALSE /\ done = FALSE
    /\ init_complete = FALSE
    /\ completed_fibers = 0
    /\ ended = "no"

\* Context c is executed by thread t, outside the handler, and is at l.
At(t, c, l) == ended = "no" /\ runs[t] = c /\ depth[c] = 0 /\ pc[c] = l

Goto(c, l) == pc' = [pc EXCEPT ![c] = l]

-----------------------------------------------------------------------------
(* main, up to its call of main_loop.                                      *)

create_threads(t) ==
    /\ At(t, 1, "create_threads")
    /\ pc' = [c \in Contexts |-> IF c = 1 THEN "convert"
                                 ELSE IF c \in Fibers THEN pc[c] ELSE "convert"]
    /\ completed_fibers' = NumFibers
    /\ UNCHANGED <<work, heap, libVars, modVars, init_complete, ended, runs, armed, sigVars>>

\* Where thread t goes on when ConvertThreadToFiber has returned.
Converted(t) == IF t = 1 THEN "create" ELSE "wait"

\* Variant: the first caller claims the opening at once.
TestDone_Claims(t) ==
    /\ At(t, Own(t), "convert")
    /\ Goto(Own(t), IF done THEN "ioctl" ELSE "open")
    /\ done' = TRUE
    /\ UNCHANGED <<work, heap, modVars, fd, init_complete, completed_fibers, ended, runs,
                   armed, sigVars>>

\* ConvertThreadToFiber, of main and of thread_initialization: the test of done, ...
TestDone(t) ==
    /\ At(t, Own(t), "convert")
    /\ Goto(Own(t), IF done THEN "ioctl" ELSE "open")
    /\ UNCHANGED <<work, heap, libVars, modVars, init_complete, completed_fibers, ended, runs,
                   armed, sigVars>>

\* ... init_file, whose open is taken to succeed, ...
init_file(t) ==
    /\ \/ /\ At(t, Own(t), "open")
          /\ fd' = TRUE
          /\ Goto(Own(t), "opened")
          /\ UNCHANGED done
       \/ /\ At(t, Own(t), "opened")
          /\ done' = TRUE
          /\ Goto(Own(t), "ioctl")
          /\ UNCHANGED fd
    /\ UNCHANGED <<work, heap, modVars, init_complete, completed_fibers, ended, runs, armed,
                   sigVars>>

Creating == {"process", "threads", "fibers"}

\* Variant: every conversion makes a process of its own.
Found_Never == "process"

\* Where a conversion goes on after its search.
Found == IF process = 0 THEN "process" ELSE "register"

\* ... and the ioctl, whose failure the callers do not look at: the search, ...
ConvertSearch(t) ==
    /\ At(t, Own(t), "ioctl")
    /\ raced' = (raced \/ \E u \in Threads \ {t} : pc[Own(u)] \in Creating)
    /\ proc' = IF fd THEN [proc EXCEPT ![t] = process] ELSE proc
    /\ Goto(Own(t), IF fd THEN Found ELSE Converted(t))
    /\ UNCHANGED <<work, heap, libVars, process, known, listed, init_complete, completed_fibers,
                   ended, runs, armed, sigVars>>

\* ... the new process_arg_t, which from here on hides an older one, ...
ConvertNewProcess(t) ==
    /\ At(t, Own(t), "process")
    /\ process' = t
    /\ proc' = [proc EXCEPT ![t] = t]
    /\ known' = {} /\ listed' = {}
    /\ Goto(Own(t), "threads")
    /\ UNCHANGED <<work, heap, libVars, raced, init_complete, completed_fibers, ended, runs,
                   armed, sigVars>>

\* ... its tables, emptied when it is hashed already, ...
ConvertInit(t) ==
    /\ \/ /\ At(t, Own(t), "threads")
          /\ known' = IF proc[t] = process THEN {} ELSE known
          /\ Goto(Own(t), "fibers")
          /\ UNCHANGED listed
       \/ /\ At(t, Own(t), "fibers")
          /\ listed' = IF proc[t] = process THEN {} ELSE listed
          /\ Goto(Own(t), "register")
          /\ UNCHANGED known
    /\ UNCHANGED <<work, heap, libVars, process, proc, raced, init_complete, completed_fibers,
                   ended, runs, armed, sigVars>>

\* ... the thread and then its fiber, which makes a difference only in tables that are
\* emptied in between, and there the thread is lost either way.
ConvertRegister(t) ==
    /\ At(t, Own(t), "register")
    /\ known' = IF proc[t] = process THEN known \cup {t} ELSE known
    /\ listed' = IF proc[t] = process THEN listed \cup {Own(t)} ELSE listed
    /\ proc' = [proc EXCEPT ![t] = 0]
    /\ Goto(Own(t), Converted(t))
    /\ UNCHANGED <<work, heap, libVars, process, raced, init_complete, completed_fibers, ended,
                   runs, armed, sigVars>>

\* A turn of the loop of CreateFiber, which refuses a thread that the module does not know.
CreateFiber(t, f) ==
    /\ At(t, 1, "create")
    /\ pc[f] = "none" /\ pc[f - 1] # "none"
    /\ \/ /\ t \in known
          /\ listed' = listed \cup {f}
          /\ Goto(f, "start")
       \/ /\ t \notin known
          /\ Goto(f, "refused")
          /\ UNCHANGED listed
    /\ UNCHANGED <<work, heap, libVars, process, proc, known, raced, init_complete,
                   completed_fibers, ended, runs, armed, sigVars>>

FibersCreated(t) ==
    /\ At(t, 1, "create") /\ \A f \in Fibers : pc[f] # "none"
    /\ Goto(1, "alarm")
    /\ UNCHANGED <<work, heap, libVars, modVars, init_complete, completed_fibers, ended, runs,
                   armed, sigVars>>

signal_alarm(t) ==
    /\ At(t, 1, "alarm")
    /\ armed' = TRUE
    /\ Goto(1, "complete")
    /\ UNCHANGED <<work, heap, libVars, modVars, init_complete, completed_fibers, ended, runs, sigVars>>

InitComplete(t) ==
    /\ At(t, 1, "complete")
    /\ init_complete' = TRUE
    /\ Goto(1, "start")
    /\ UNCHANGED <<work, heap, libVars, modVars, completed_fibers, ended, runs, armed, sigVars>>

-----------------------------------------------------------------------------
(* main_loop.                                                              *)

\* FlsAlloc, and later FlsGetValue, for a thread that the module knows; then the first
\* allocation of the turn.  (Until its simulation ends a fiber's queue is not empty, see
\* Cell, and its events are its own: its slots are those of the fiber that the thread
\* runs, see FiberIoctl and Fls.)
Malloc(t, c) ==
    /\ At(t, c, "start") \/ (At(t, c, "loop") /\ work[c] > 0)
    /\ t \in known
    /\ HeapLock => heap = 0
    /\ heap' = IF HeapLock THEN c ELSE 0
    /\ Goto(c, "event")
    /\ UNCHANGED <<work, libVars, modVars, init_complete, completed_fibers, ended, runs, armed, sigVars>>

\* FlsAlloc has no slot for a thread that the module does not know: exit(EXIT_FAILURE).
NoSlot(t, c) ==
    /\ At(t, c, "start") /\ t \notin known
    /\ ended' = "failure"
    /\ UNCHANGED <<pc, work, heap, libVars, modVars, init_complete, completed_fibers, runs, armed,
                   sigVars>>

\* FlsGetValue has no value for such a thread and the queue is at NULL; in its first turn
\* a fiber asks for it after an allocation.
NoQueue(t, c) ==
    /\ \/ At(t, c, "loop") /\ work[c] > 0
       \/ At(t, c, "event") /\ work[c] = MaxWork
    /\ t \notin known
    /\ ended' = "crash"
    /\ UNCHANGED <<pc, work, heap, libVars, modVars, init_complete, completed_fibers, runs, armed,
                   sigVars>>

EventDone(t, c) ==
    /\ At(t, c, "event")
    /\ heap' = 0
    /\ work' = [work EXCEPT ![c] = @ - 1]
    /\ Goto(c, "loop")
    /\ UNCHANGED <<libVars, modVars, init_complete, completed_fibers, ended, runs, armed, sigVars>>

\* ProcessEvent returned non-zero.  The atomic decrement: fiber 1 then waits for the others, the others schedule.
FiberDone(t, c) ==
    /\ At(t, c, "loop") /\ work[c] = 0
    /\ completed_fibers' = completed_fibers - 1
    /\ Goto(c, IF c = 1 THEN "spin" ELSE "done")
    /\ UNCHANGED <<work, heap, libVars, modVars, init_complete, ended, runs, armed, sigVars>>

\* Variant: fiber 1 does not wait for the last of the others.
AllDone_OffByOne == completed_fibers <= 1

AllDone == completed_fibers = 0

Exit(t) ==
    /\ At(t, 1, "spin") /\ AllDone
    /\ ended' = "success"
    /\ UNCHANGED <<pc, work, heap, libVars, modVars, init_complete, completed_fibers, runs, armed,
                   sigVars>>

\* thread_initialization: the wait for init_complete.
Waited(t) ==
    /\ At(t, Own(t), "wait") /\ init_complete
    /\ Goto(Own(t), "pick")
    /\ UNCHANGED <<work, heap, libVars, modVars, init_complete, completed_fibers, ended, runs,
                   armed, sigVars>>

-----------------------------------------------------------------------------
(* Switching.                                                              *)

\* The module refuses a thread it does not know, a fiber that is running and one that
\* is not in its table.  (If `process' is not the one in which main was converted, a
\* handle of `fibers' names at most a worker's own context there, which is running.)
SwitchToFiber(t, f) ==
    runs' = IF t \in known /\ f \in listed /\ \A u \in Threads : runs[u] # f
            THEN [runs EXCEPT ![t] = f] ELSE runs

\* thread_initialization: fibers picked at random, without an alarm.
PickFirst(t, f) ==
    /\ At(t, Own(t), "pick") /\ t # 1
    /\ SwitchToFiber(t, f)
    /\ UNCHANGED <<ctxVars, sigVars, armed>>

\* Variant: the alarm is not set again.
Rearm_Dropped == armed' = armed

Rearm == armed' = TRUE

\* Variant: a fiber that is done keeps its thread.
ScheduleDone_Spins(t, c, f) ==
    /\ At(t, c, "done")
    /\ Rearm
    /\ UNCHANGED <<ctxVars, sigVars, runs>>

\* schedule(0), in which a fiber that is done stays.
ScheduleDone(t, c, f) ==
    /\ At(t, c, "done")
    /\ Rearm
    /\ SwitchToFiber(t, f)
    /\ UNCHANGED <<ctxVars, sigVars>>

\* schedule as the handler of SIGALRM.
ScheduleHandler(t, c, f) ==
    /\ ended = "no" /\ runs[t] = c /\ c \in calling
    /\ Rearm
    /\ SwitchToFiber(t, f)
    /\ calling' = calling \ {c}
    /\ UNCHANGED <<ctxVars, depth, blocked, pending>>

\* The handler returns: the mask of the frame is that of an interrupted thread.
HandlerReturn(t, c) ==
    /\ ended = "no" /\ runs[t] = c /\ depth[c] > 0 /\ c \notin calling
    /\ depth' = [depth EXCEPT ![c] = @ - 1]
    /\ blocked' = blocked \ {t}
    /\ UNCHANGED <<ctxVars, armed, calling, pending, runs>>

AlarmExpires ==
    /\ ended = "no" /\ armed
    /\ armed' = FALSE /\ pending' = TRUE
    /\ UNCHANGED <<ctxVars, runs, depth, calling, blocked>>

\* The kernel delivers SIGALRM to any thread that does not block it and is not in an ioctl.
Deliver(t) ==
    LET c == runs[t]
    IN  /\ ended = "no" /\ pending /\ t \notin blocked
        /\ pc[c] \notin Creating \cup {"thread", "register"} /\ depth[c] < MaxNest
        /\ pending' = FALSE
        /\ blocked' = blocked \cup {t}
        /\ depth' = [depth EXCEPT ![c] = @ + 1]
        /\ calling' = calling \cup {c}
        /\ UNCHANGED <<ctxVars, armed, runs>>

-----------------------------------------------------------------------------
\* A step of context c, on whichever thread, outside the handler.
Step(c) == \E t \in Threads :
    \/ c = Own(t) /\ (\/ TestDone(t) \/ init_file(t) \/ ConvertSearch(t) \/ ConvertNewProcess(t)
                      \/ ConvertInit(t) \/ ConvertRegister(t) \/ Waited(t))
    \/ c = 1 /\ (\/ create_threads(t) \/ (\E f \in Fibers \ {1} : CreateFiber(t, f))
                 \/ FibersCreated(t) \/ signal_alarm(t) \/ InitComplete(t) \/ Exit(t))
    \/ NoSlot(t, c) \/ NoQueue(t, c) \/ Malloc(t, c) \/ EventDone(t, c) \/ FiberDone(t, c)

\* Thread t switches to fiber f.
Switch(t, f) ==
    \/ PickFirst(t, f)
    \/ \E c \in Contexts : ScheduleDone(t, c, f) \/ ScheduleHandler(t, c, f)

\* The process is gone.
Gone == ended # "no" /\ UNCHANGED vars

Next ==
    \/ \E c \in Contexts : Step(c)
    \/ \E t \in Threads, f \in Fibers : Switch(t, f)
    \/ \E t \in Threads : Deliver(t) \/ HandlerReturn(t, runs[t])
    \/ AlarmExpires
    \/ Gone

Spec == Init /\ [][Next]_vars

\* A context that is scheduled again and again gets its next step done (a second
\* passes between alarms), random() picks every fiber again and again, a thread in
\* the handler goes on, and the kernel delivers what is pending.
Fairness ==
    /\ \A c \in Contexts : SF_vars(Step(c))
    /\ \A t \in Threads, f \in Fibers : SF_vars(Switch(t, f))
    /\ \A t \in Threads : WF_vars(HandlerReturn(t, runs[t]))
    /\ WF_vars(AlarmExpires)
    /\ WF_vars(\E t \in Threads : Deliver(t))

FairSpec == Spec /\ Fairness

-----------------------------------------------------------------------------
\* The program ends with success only when every fiber has processed all its events,
\* whoever ran it and however often it was preempted or moved to another thread, and
\* whatever the conversions have done to each other.
ExitMeansDone ==
    ended = "success" => \A f \in Fibers : work[f] = 0 /\ pc[f] \in {"spin", "done"}

\* Labels of a thread that has not returned from ConvertThreadToFiber.
Library == {"convert", "open", "opened", "ioctl", "process", "threads", "fibers", "register"}
Before  == {"create_threads", "thread"} \cup Library

\* A thread that returned from ConvertThreadToFiber is a fiber, unless a first conversion
\* met another one: however the threads that make the first calls of the library overlap,
\* none of them uses fd before it is open, and no later process_arg_t hides the thread.
ReturnsConverted ==
    ~raced => \A t \in Threads : pc[Own(t)] \notin Before => t \in known

\* main_loop runs into its exit(EXIT_FAILURE) and into a missing queue only when a first
\* conversion has met another one: no migration takes a fiber to a thread that is unknown.
FailsOnlyAfterRace == ended \in {"failure", "crash"} => raced

\* Preemption never dies out: from the first alarm on, the alarm is set, or the
\* signal is pending, or a thread is in the handler on its way to set it again.
AlarmKept ==
    init_complete => armed \/ pending \/ \E t \in Threads : runs[t] \in calling

\* The program ends ("at the end the application terminates here"), and with success,
\* unless a first conversion has met another one.
Terminates == <>(ended = "success" \/ raced)
=============================================================================
