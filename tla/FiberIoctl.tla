----------------------------- MODULE FiberIoctl -----------------------------
(***************************************************************************)
(* The kernel module of multi_thread/Module: the ioctl handler my_ioctl    *)
(* (CONVERTTOFIBER, CREATEFIBER, SWITCHTOFIBER) and the do_exit probe      *)
(* Pre_Handler, run by the threads of several processes at once.           *)
(*                                                                         *)
(* One action is one access to memory another thread can reach, or a run   *)
(* of accesses no other handler can tell apart; what a handler does to     *)
(* memory only it can reach goes with the access before or after it.  The  *)
(* sections under lock_hash are single actions: nothing is acquired inside *)
(* them.  lock_fiber is held across actions and is state.                  *)
(*                                                                         *)
(* process_arg_t and fiber_arg_t objects are named by the order of their   *)
(* allocation and kfree'd addresses are not handed out again.  A step that *)
(* dereferences a freed object (or NULL) sets fault and ends the run: C    *)
(* gives the rest no meaning.                                              *)
(***************************************************************************)
EXTENDS Integers, FiniteSets

CONSTANTS
    Thread,      \* OS threads (task->pid)
    Pid,         \* processes (task->tgid)
    tgid,        \* tgid[t]: the process of thread t
    MaxFiber,    \* bound on the fiber_arg_t allocations of a run
    MaxProc,     \* bound on the process_arg_t allocations of a run
    MaxWork,     \* bound on the user steps of one computation
    AllocFails,  \* whether kzalloc may return NULL
    NULL

ProcAddr  == 1..MaxProc
FiberAddr == 1..MaxFiber

\* The registers of a computation: thread or fiber `who' after `at' user steps.
Context == [who : Thread \cup FiberAddr, at : 0..MaxWork]

ASSUME ConstantsAssumption ==
    /\ tgid \in [Thread -> Pid]
    /\ MaxFiber \in Nat /\ MaxProc \in Nat /\ MaxWork \in Nat
    /\ AllocFails \in BOOLEAN

ASSUME NamesAssumption ==
    /\ NULL \notin Thread \cup Pid \cup Nat \cup Context
    /\ Thread \cap FiberAddr = {}

VARIABLES
    list_process,  \* allocated and hashed process_arg_t
    pid,           \* process->pid
    fiber_id,      \* process->fiber_id
    threads,       \* process->threads: the threads with a thread_arg_t in it
    fibers,        \* process->fibers
    lock_fiber,    \* process->lock_fiber: its holder, or NULL
    active,        \* active[p][t]: active_fiber of t's thread_arg_t in p
    heap,          \* allocated fiber_arg_t
    index,         \* fiber->index
    running,       \* fiber->running
    regs,          \* fiber->regs (and fpu_reg), NULL while zero-filled
    count_threads,
    nproc, nfiber, \* allocations so far
    pc,            \* where each thread is: "user", inside a handler, "dead"
    proc, new, want, found, \* the handler's locals process, fiber, arg, fiber
    live,          \* task_pt_regs(current): the context the thread executes
    converted,     \* ConvertThreadToFiber has returned an index to t
    fault,         \* freed memory or NULL has been dereferenced
    overlapped     \* no C state: a first conversion or an exit has met a call of a peer

objVars    == <<index, running, regs>>
tableVars  == <<threads, fibers, active>>
procVars   == <<list_process, pid, fiber_id, nproc>>
allocVars  == <<heap, nfiber>>
localVars  == <<proc, new, want, found>>
userVars   == <<live, converted>>
vars == <<list_process, pid, fiber_id, threads, fibers, lock_fiber, active, heap,
          index, running, regs, count_threads, nproc, nfiber, pc, proc, new, want,
          found, live, converted, fault, overlapped>>

-----------------------------------------------------------------------------
\* hash_add puts a process at the head of its bucket, so of several with the
\* same pid the one allocated last is met first.
search_process(p, id) ==
    /\ p \in list_process
    /\ pid[p] = id
    /\ \A q \in list_process : pid[q] = id => q <= p

\* Variant: the first conversion of every thread makes a process of its own.
NoProcess_NotSearched(id) == TRUE

NoProcess(id) == \A p \in list_process : pid[p] # id

search_fiber(f, i, p) == f \in fibers[p] /\ index[f] = i

Goto(t, label) == pc' = [pc EXCEPT ![t] = label]

\* The handler ends, its locals with it.
Return(t, label) ==
    /\ Goto(t, label)
    /\ proc' = [proc EXCEPT ![t] = NULL]
    /\ new' = [new EXCEPT ![t] = NULL]
    /\ want' = [want EXCEPT ![t] = 0]
    /\ found' = [found EXCEPT ![t] = NULL]

\* kzalloc of a fiber_arg_t at the top of a handler; nothing checks for NULL.
KzallocFiber(t) ==
    \/ /\ nfiber < MaxFiber
       /\ nfiber' = nfiber + 1
       /\ heap' = heap \cup {nfiber + 1}
       /\ new' = [new EXCEPT ![t] = nfiber + 1]
    \/ /\ AllocFails
       /\ new' = [new EXCEPT ![t] = NULL]
       /\ UNCHANGED allocVars

\* Variant: the spin_lock is left out.
Lock_Dropped(p, t) == UNCHANGED lock_fiber

\* spin_lock_irqsave(&process->lock_fiber), once the lock is free.
Lock(p, t) == lock_fiber' = [lock_fiber EXCEPT ![p] = t]

\* Variant: the spin_unlock is left out.
Unlock_Dropped(p) == UNCHANGED lock_fiber

Unlock(p) == lock_fiber' = [lock_fiber EXCEPT ![p] = NULL]

\* Variants: the counter is not advanced; it is advanced the wrong way.
NextIndex_Same(f, p) == index' = [index EXCEPT ![f] = fiber_id[p]] /\ UNCHANGED fiber_id
NextIndex_Down(f, p) ==
    /\ index' = [index EXCEPT ![f] = fiber_id[p]]
    /\ fiber_id' = [fiber_id EXCEPT ![p] = @ - 1]

\* fiber->index = __sync_fetch_and_add(&process->fiber_id, 1)
NextIndex(f, p) ==
    /\ index' = [index EXCEPT ![f] = fiber_id[p]]
    /\ fiber_id' = [fiber_id EXCEPT ![p] = @ + 1]

\* Variant: the registers of the caller are not saved.
SaveContext_Dropped(a, t) == UNCHANGED regs

\* task_pt_regs(current) and the FPU state are saved in fiber a.
SaveContext(a, t) == regs' = [regs EXCEPT ![a] = live[t]]

\* Variants: one of the two assignments of running is left out.
PassRunning_NotSet(a, f) == running' = [running EXCEPT ![a] = FALSE]
PassRunning_NotCleared(a, f) == running' = [running EXCEPT ![f] = TRUE]

\* a stops being the running fiber and f becomes it.
PassRunning(a, f) == running' = [running EXCEPT ![a] = FALSE, ![f] = TRUE]

Creating == {"cv_process", "cv_threads", "cv_fibers"}
Exiting  == {"ex_thread", "ex_free", "ex_last"}
Peers(t) == {u \in Thread \ {t} : tgid[u] = tgid[t]}

\* The step takes t into a handler while a thread of its process makes the first
\* conversion or exits, or into its exit while one is in any handler.  Nothing in
\* the module prevents it.
Overlaps(t) ==
    /\ pc'[t] \notin {"user", "dead"}
    /\ \E u \in Peers(t) :
          \/ pc[u] \in Creating \cup Exiting
          \/ pc'[t] \in Exiting /\ pc[u] \notin {"user", "dead"}

-----------------------------------------------------------------------------
Init ==
    /\ list_process = {}
    /\ pid = [p \in ProcAddr |-> NULL]
    /\ fiber_id = [p \in ProcAddr |-> 0]
    /\ threads = [p \in ProcAddr |-> {}]
    /\ fibers = [p \in ProcAddr |-> {}]
    /\ lock_fiber = [p \in ProcAddr |-> NULL]
    /\ active = [p \in ProcAddr |-> [t \in Thread |-> NULL]]
    /\ heap = {}
    /\ index = [f \in FiberAddr |-> 0]
    /\ running = [f \in FiberAddr |-> FALSE]
    /\ regs = [f \in FiberAddr |-> NULL]
    /\ count_threads = 0
    /\ nproc = 0
    /\ nfiber = 0
    /\ pc = [t \in Thread |-> "user"]
    /\ proc = [t \in Thread |-> NULL]
    /\ new = [t \in Thread |-> NULL]
    /\ want = [t \in Thread |-> 0]
    /\ found = [t \in Thread |-> NULL]
    /\ live = [t \in Thread |-> [who |-> t, at |-> 0]]
    /\ converted = [t \in Thread |-> FALSE]
    /\ fault = FALSE
    /\ overlapped = FALSE

UserStep(t) ==
    /\ pc[t] = "user"
    /\ live[t].at < MaxWork
    /\ live' = [live EXCEPT ![t] = [who |-> live[t].who, at |-> live[t].at + 1]]
    /\ UNCHANGED <<procVars, tableVars, objVars, allocVars, localVars, lock_fiber,
                   count_threads, pc, converted>>

-----------------------------------------------------------------------------
(* CONVERTTOFIBER *)

ConvertSearch(t) ==
    /\ pc[t] = "user"
    /\ KzallocFiber(t)
    /\ \/ /\ NoProcess(tgid[t])
          /\ Goto(t, "cv_process")
          /\ UNCHANGED proc
       \/ \E p \in ProcAddr :
             /\ search_process(p, tgid[t])
             /\ proc' = [proc EXCEPT ![t] = p]
             /\ Goto(t, "cv_thread")
    /\ UNCHANGED <<procVars, tableVars, objVars, userVars, lock_fiber, count_threads,
                   want, found>>

\* The new process is hashed before its two tables are initialised.
ConvertNewProcess(t) ==
    /\ pc[t] = "cv_process"
    /\ \/ /\ nproc < MaxProc
          /\ nproc' = nproc + 1
          /\ list_process' = list_process \cup {nproc + 1}
          /\ pid' = [pid EXCEPT ![nproc + 1] = tgid[t]]
          /\ fiber_id' = [fiber_id EXCEPT ![nproc + 1] = 0]
          /\ proc' = [proc EXCEPT ![t] = nproc + 1]
          /\ Goto(t, "cv_threads")
          /\ UNCHANGED <<new, want, found>>
       \/ /\ AllocFails \/ nproc = MaxProc
          /\ Return(t, "user")
          /\ UNCHANGED procVars
    /\ UNCHANGED <<tableVars, objVars, allocVars, userVars, lock_fiber, count_threads>>

ConvertInitThreads(t) ==
    /\ pc[t] = "cv_threads"
    /\ proc[t] \in list_process
    /\ threads' = [threads EXCEPT ![proc[t]] = {}]
    /\ Goto(t, "cv_fibers")
    /\ UNCHANGED <<procVars, objVars, allocVars, localVars, userVars, fibers, active,
                   lock_fiber, count_threads>>

ConvertInitFibers(t) ==
    /\ pc[t] = "cv_fibers"
    /\ proc[t] \in list_process
    /\ fibers' = [fibers EXCEPT ![proc[t]] = {}]
    /\ Goto(t, "cv_thread")
    /\ UNCHANGED <<procVars, objVars, allocVars, localVars, userVars, threads, active,
                   lock_fiber, count_threads>>

\* A thread converted before gets -1, and the fiber allocated above is lost.
ConvertThread(t) ==
    /\ pc[t] = "cv_thread"
    /\ proc[t] \in list_process
    /\ \/ /\ t \in threads[proc[t]] \/ AllocFails
          /\ Return(t, "user")
          /\ UNCHANGED <<threads, active>>
       \/ /\ t \notin threads[proc[t]]
          /\ threads' = [threads EXCEPT ![proc[t]] = @ \cup {t}]
          /\ active' = [active EXCEPT ![proc[t]][t] = NULL]
          /\ Goto(t, "cv_fiber")
          /\ UNCHANGED localVars
    /\ UNCHANGED <<procVars, fibers, objVars, allocVars, userVars, lock_fiber,
                   count_threads>>

\* The running thread becomes a fiber that is running, with its own registers.
\* (bitmap_zero clears MAX_FLS bits from a smaller bitmap on, the saved registers
\* among them; those of a running fiber are saved again before they are loaded.)
ConvertFiber(t) ==
    LET p == proc[t]
        f == new[t]
    IN  /\ pc[t] = "cv_fiber"
        /\ p \in list_process
        /\ f # NULL
        /\ NextIndex(f, p)
        /\ SaveContext(f, t)
        /\ running' = [running EXCEPT ![f] = TRUE]
        /\ fibers' = [fibers EXCEPT ![p] = @ \cup {f}]
        /\ active' = [active EXCEPT ![p][t] = f]
        /\ Goto(t, "cv_count")
        /\ UNCHANGED <<list_process, pid, nproc, threads, allocVars, localVars,
                       userVars, lock_fiber, count_threads>>

ConvertCount(t) ==
    /\ pc[t] = "cv_count"
    /\ count_threads' = count_threads + 1
    /\ converted' = [converted EXCEPT ![t] = TRUE]
    /\ Return(t, "user")
    /\ UNCHANGED <<procVars, tableVars, objVars, allocVars, lock_fiber, live>>

-----------------------------------------------------------------------------
(* CREATEFIBER *)

\* A bad user pointer and an unknown process both return -1 with the fiber lost.
CreateSearch(t) ==
    /\ pc[t] = "user"
    /\ KzallocFiber(t)
    /\ \/ UNCHANGED <<pc, proc>>
       \/ \E p \in ProcAddr :
             /\ search_process(p, tgid[t])
             /\ proc' = [proc EXCEPT ![t] = p]
             /\ Goto(t, "cr_fiber")
    /\ UNCHANGED <<procVars, tableVars, objVars, userVars, lock_fiber, count_threads,
                   want, found>>

CreateFiber(t) ==
    LET p == proc[t]
        f == new[t]
    IN  /\ pc[t] = "cr_fiber"
        /\ p \in list_process
        /\ \/ /\ t \in threads[p]
              /\ f # NULL
              /\ NextIndex(f, p)
              /\ running' = [running EXCEPT ![f] = FALSE]
              /\ regs' = [regs EXCEPT ![f] = [who |-> f, at |-> 0]]
              /\ fibers' = [fibers EXCEPT ![p] = @ \cup {f}]
           \/ /\ t \notin threads[p]
              /\ UNCHANGED <<objVars, fiber_id, fibers>>
        /\ Return(t, "user")
        /\ UNCHANGED <<list_process, pid, nproc, threads, active, allocVars, userVars,
                       lock_fiber, count_threads>>

-----------------------------------------------------------------------------
(* SWITCHTOFIBER *)

SwitchSearch(t, i) ==
    /\ pc[t] = "user"
    /\ \E p \in ProcAddr :
          /\ search_process(p, tgid[t])
          /\ proc' = [proc EXCEPT ![t] = p]
    /\ want' = [want EXCEPT ![t] = i]
    /\ Goto(t, "sw_lock")
    /\ UNCHANGED <<procVars, tableVars, objVars, allocVars, userVars, lock_fiber,
                   count_threads, new, found>>

SwitchLock(t) ==
    /\ pc[t] = "sw_lock"
    /\ proc[t] \in list_process
    /\ lock_fiber[proc[t]] = NULL
    /\ Lock(proc[t], t)
    /\ Goto(t, "sw_find")
    /\ UNCHANGED <<procVars, tableVars, objVars, allocVars, localVars, userVars,
                   count_threads>>

SwitchFind(t) ==
    /\ pc[t] = "sw_find"
    /\ proc[t] \in list_process
    /\ \/ \E f \in FiberAddr :
             /\ search_fiber(f, want[t], proc[t])
             /\ found' = [found EXCEPT ![t] = f]
             /\ Goto(t, "sw_check")
             /\ UNCHANGED <<proc, new, want, lock_fiber>>
       \/ /\ \A f \in FiberAddr : ~search_fiber(f, want[t], proc[t])
          /\ Unlock(proc[t])
          /\ Return(t, "user")
    /\ UNCHANGED <<procVars, tableVars, objVars, allocVars, userVars, count_threads>>

\* Variant: the lock is released after the test of running, not after the switch.
SwitchCheck_UnlocksEarly(t) ==
    /\ pc[t] = "sw_check"
    /\ proc[t] \in list_process
    /\ found[t] \in heap
    /\ Unlock(proc[t])
    /\ IF running[found[t]] THEN Return(t, "user") ELSE Goto(t, "sw_commit") /\ UNCHANGED localVars
    /\ UNCHANGED <<procVars, tableVars, objVars, allocVars, userVars, count_threads>>

SwitchCheck(t) ==
    /\ pc[t] = "sw_check"
    /\ proc[t] \in list_process
    /\ found[t] \in heap
    /\ \/ /\ running[found[t]]
          /\ Unlock(proc[t])
          /\ Return(t, "user")
       \/ /\ ~running[found[t]]
          /\ Goto(t, "sw_commit")
          /\ UNCHANGED <<localVars, lock_fiber>>
    /\ UNCHANGED <<procVars, tableVars, objVars, allocVars, userVars, count_threads>>

SwitchCommit(t) ==
    LET p == proc[t]
        f == found[t]
        a == active[p][t]
    IN  /\ pc[t] = "sw_commit"
        /\ p \in list_process
        /\ \/ /\ t \in threads[p]
              /\ {a, f} \subseteq heap
              /\ SaveContext(a, t)
              /\ live' = [live EXCEPT ![t] = regs[f]]
              /\ PassRunning(a, f)
              /\ active' = [active EXCEPT ![p][t] = f]
           \/ /\ t \notin threads[p]
              /\ UNCHANGED <<regs, live, running, active>>
        /\ Unlock(p)
        /\ Return(t, "user")
        /\ UNCHANGED <<procVars, threads, fibers, index, allocVars, count_threads,
                       converted>>

-----------------------------------------------------------------------------
(* Pre_Handler, the kprobe on do_exit *)

ExitSearch(t) ==
    /\ pc[t] = "user"
    /\ live' = [live EXCEPT ![t] = NULL]
    /\ \/ /\ NoProcess(tgid[t])
          /\ Return(t, "dead")
       \/ \E p \in ProcAddr :
             /\ search_process(p, tgid[t])
             /\ proc' = [proc EXCEPT ![t] = p]
             /\ Goto(t, "ex_thread")
             /\ UNCHANGED <<new, want, found>>
    /\ UNCHANGED <<procVars, tableVars, objVars, allocVars, lock_fiber, count_threads,
                   converted>>

ExitThread(t) ==
    /\ pc[t] = "ex_thread"
    /\ proc[t] \in list_process
    /\ \/ /\ t \in threads[proc[t]]
          /\ count_threads' = count_threads - 1
          /\ Goto(t, "ex_free")
          /\ UNCHANGED localVars
       \/ /\ t \notin threads[proc[t]]
          /\ Return(t, "dead")
          /\ UNCHANGED count_threads
    /\ UNCHANGED <<procVars, tableVars, objVars, allocVars, userVars, lock_fiber>>

\* Variant: the fiber is freed and stays in its hash table.
ExitFree_StaysHashed(t) ==
    LET p == proc[t]
    IN  /\ pc[t] = "ex_free"
        /\ p \in list_process
        /\ threads' = [threads EXCEPT ![p] = @ \ {t}]
        /\ active' = [active EXCEPT ![p][t] = NULL]
        /\ heap' = heap \ {active[p][t]}
        /\ Goto(t, "ex_last")
        /\ UNCHANGED <<procVars, fibers, objVars, nfiber, localVars, userVars, lock_fiber,
                       count_threads>>

\* The thread_arg_t and the fiber it was running are unhashed and freed.
ExitFree(t) ==
    LET p == proc[t]
        f == active[p][t]
    IN  /\ pc[t] = "ex_free"
        /\ p \in list_process
        /\ threads' = [threads EXCEPT ![p] = @ \ {t}]
        /\ active' = [active EXCEPT ![p][t] = NULL]
        /\ fibers' = [fibers EXCEPT ![p] = @ \ {f}]
        /\ heap' = heap \ {f}
        /\ Goto(t, "ex_last")
        /\ UNCHANGED <<procVars, objVars, nfiber, localVars, userVars, lock_fiber,
                       count_threads>>

\* The test reads count_threads again: other exits may have run in between.
ExitLast(t) ==
    /\ pc[t] = "ex_last"
    /\ \/ /\ count_threads = 0
          /\ proc[t] \in list_process
          /\ list_process' = list_process \ {proc[t]}
       \/ /\ count_threads # 0
          /\ UNCHANGED list_process
    /\ Return(t, "dead")
    /\ UNCHANGED <<pid, fiber_id, nproc, tableVars, objVars, allocVars, userVars,
                   lock_fiber, count_threads>>

-----------------------------------------------------------------------------
\* The step t is about to take dereferences its process.
UsesProcess(t) ==
    \/ pc[t] \in {"cv_threads", "cv_fibers", "cv_thread", "cv_fiber", "cr_fiber", "sw_lock",
                  "sw_find", "sw_check", "sw_commit", "ex_thread", "ex_free"}
    \/ pc[t] = "ex_last" /\ count_threads = 0

Oops(t) ==
    /\ \/ UsesProcess(t) /\ proc[t] \notin list_process
       \/ pc[t] = "sw_check" /\ found[t] \notin heap
       \/ /\ pc[t] = "sw_commit" /\ t \in threads[proc[t]]
          /\ ~({active[proc[t]][t], found[t]} \subseteq heap)
       \/ new[t] = NULL /\ pc[t] = "cv_fiber"
       \/ new[t] = NULL /\ pc[t] = "cr_fiber" /\ t \in threads[proc[t]]
    /\ fault' = TRUE
    /\ UNCHANGED <<procVars, tableVars, objVars, allocVars, localVars, userVars,
                   lock_fiber, count_threads, pc>>

KernelStep(t) ==
    \/ ConvertNewProcess(t) \/ ConvertInitThreads(t) \/ ConvertInitFibers(t)
    \/ ConvertThread(t) \/ ConvertFiber(t) \/ ConvertCount(t)
    \/ CreateFiber(t)
    \/ SwitchLock(t) \/ SwitchFind(t) \/ SwitchCheck(t) \/ SwitchCommit(t)
    \/ ExitThread(t) \/ ExitFree(t) \/ ExitLast(t)

UserCall(t) ==
    \/ UserStep(t) \/ ConvertSearch(t) \/ CreateSearch(t) \/ ExitSearch(t)
    \/ \E i \in 0..MaxFiber : SwitchSearch(t, i)

\* The run is over: every thread has exited, or the kernel has faulted.
Finished ==
    /\ fault \/ \A t \in Thread : pc[t] = "dead"
    /\ UNCHANGED vars

InKernel(t) ==
    /\ ~fault
    /\ (KernelStep(t) /\ UNCHANGED fault) \/ Oops(t)
    /\ UNCHANGED overlapped

FromUser(t) ==
    /\ ~fault
    /\ UserCall(t)
    /\ overlapped' = (overlapped \/ Overlaps(t))
    /\ UNCHANGED fault

Next == (\E t \in Thread : InKernel(t) \/ FromUser(t)) \/ Finished

Spec == Init /\ [][Next]_vars

\* A thread inside the kernel keeps being scheduled, and the queued spinlocks
\* of the kernel serve waiters in order: a waiter is not overtaken for ever.
FairSpec ==
    /\ Spec
    /\ \A t \in Thread : WF_vars(InKernel(t))
    /\ \A t \in Thread : SF_vars(~fault /\ SwitchLock(t) /\ UNCHANGED <<fault, overlapped>>)

-----------------------------------------------------------------------------
Label == {"user", "dead", "cv_process", "cv_threads", "cv_fibers", "cv_thread", "cv_fiber",
          "cv_count", "cr_fiber", "sw_lock", "sw_find", "sw_check", "sw_commit", "ex_thread",
          "ex_free", "ex_last"}

TypeProcesses ==
    /\ list_process \in SUBSET ProcAddr
    /\ pid \in [ProcAddr -> Pid \cup {NULL}]
    /\ fiber_id \in [ProcAddr -> Nat]
    /\ threads \in [ProcAddr -> SUBSET Thread]
    /\ fibers \in [ProcAddr -> SUBSET FiberAddr]
    /\ lock_fiber \in [ProcAddr -> Thread \cup {NULL}]
    /\ active \in [ProcAddr -> [Thread -> FiberAddr \cup {NULL}]]
    /\ count_threads \in Int
    /\ nproc \in 0..MaxProc

TypeFibers ==
    /\ heap \in SUBSET FiberAddr
    /\ index \in [FiberAddr -> Nat]
    /\ running \in [FiberAddr -> BOOLEAN]
    /\ regs \in [FiberAddr -> Context \cup {NULL}]
    /\ nfiber \in 0..MaxFiber

TypeThreads ==
    /\ pc \in [Thread -> Label]
    /\ proc \in [Thread -> ProcAddr \cup {NULL}]
    /\ new \in [Thread -> FiberAddr \cup {NULL}]
    /\ want \in [Thread -> Nat]
    /\ found \in [Thread -> FiberAddr \cup {NULL}]
    /\ live \in [Thread -> Context \cup {NULL}]
    /\ converted \in [Thread -> BOOLEAN]
    /\ fault \in BOOLEAN /\ overlapped \in BOOLEAN

\* Every variable holds a value of the C type it stands for.
TypeOK == TypeProcesses /\ TypeFibers /\ TypeThreads

Loaded == {t \in Thread : live[t] # NULL}
Parked == {f \in heap : ~running[f] /\ regs[f] # NULL}
ParkedContexts == {regs[f] : f \in Parked}

\* A computation is in one place: two threads never execute the same one, and
\* none is executed by a thread while a parked fiber could still be resumed into
\* it.  SWITCHTOFIBER tests fiber->running and acts on it in separate steps.
ContextsExclusive ==
    /\ \A t, u \in Loaded : t # u => live[t].who # live[u].who
    /\ \A t \in Loaded, f \in Parked : live[t].who # regs[f].who
    /\ \A f, g \in Parked : f # g => regs[f].who # regs[g].who

\* The fiber a registered thread is on is allocated, marked running and no other
\* thread's: what makes Pre_Handler's kfree of it, and the failure of switches
\* to it, right.
ActiveFiberOwned ==
    \A p, q \in list_process : \A t \in threads[p], u \in threads[q] :
        active[p][t] # NULL =>
            /\ active[p][t] \in heap
            /\ running[active[p][t]]
            /\ active[p][t] = active[q][u] => t = u

-----------------------------------------------------------------------------
(* The invariant behind ContextsExclusive and ActiveFiberOwned. *)

\* The labels at which new[t] is allocated but not yet a fiber.
Building == Creating \cup {"cv_thread", "cv_fiber", "cr_fiber"}

\* The labels at which t is between spin_lock and spin_unlock of lock_fiber.
Locked == {"sw_find", "sw_check", "sw_commit"}

\* The labels at which t holds a fiber it has looked up under the lock.
Holding == {"sw_check", "sw_commit"}

\* f is in the table of p, or a switch in p has taken it from there.
BelongsTo(f, p) ==
    \/ f \in fibers[p]
    \/ \E t \in Thread : pc[t] \in Holding /\ found[t] = f /\ proc[t] = p

\* Exiting threads, and only they, have given up their context.
ExitedInv == \A t \in Thread : live[t] = NULL <=> pc[t] \in Exiting \cup {"dead"}

\* A fiber under construction is reachable from nowhere else.
BuildingInv ==
    /\ \A f \in FiberAddr : f > nfiber => regs[f] = NULL
    /\ \A t \in Thread : pc[t] \in Building /\ new[t] # NULL =>
          /\ new[t] \in heap /\ new[t] <= nfiber
          /\ regs[new[t]] = NULL
          /\ \A u \in Thread \ {t} : pc[u] \in Building => new[u] # new[t]

\* active_fiber points to an allocated running fiber and to each from one thread.
ActiveInv ==
    \A p, q \in ProcAddr : \A t, u \in Thread : active[p][t] # NULL =>
        /\ active[p][t] \in heap
        /\ running[active[p][t]]
        /\ regs[active[p][t]] # NULL
        /\ active[p][t] = active[q][u] => p = q /\ t = u

\* Between spin_lock and spin_unlock the thread holds the lock of its process.
LockInv == \A t \in Thread :
               /\ pc[t] \in Locked => proc[t] \in ProcAddr /\ lock_fiber[proc[t]] = t
               /\ pc[t] \in Holding => found[t] \in FiberAddr

\* A fiber is complete and belongs to one process, so one lock protects it.
HomeInv ==
    \A f \in FiberAddr, p, q \in ProcAddr :
        BelongsTo(f, p) => regs[f] # NULL /\ (BelongsTo(f, q) => p = q)

\* The answer of the test of fiber->running still holds when it is acted upon.
ChosenInv == \A t \in Thread : pc[t] = "sw_commit" => ~running[found[t]]

\* A computation that is somewhere was started by the creation of its fiber.
StartedInv ==
    /\ \A t \in Loaded : live[t].who \in FiberAddr => regs[live[t].who] # NULL
    /\ \A f \in FiberAddr : regs[f] # NULL =>
          (regs[f].who \in FiberAddr => regs[regs[f].who] # NULL)

\* What every handler relies on between two of its steps, whatever the others do:
\* the inductive strengthening of ContextsExclusive and ActiveFiberOwned.
HandlerInv ==
    /\ ExitedInv
    /\ BuildingInv
    /\ ActiveInv
    /\ LockInv
    /\ HomeInv
    /\ ChosenInv
    /\ StartedInv

-----------------------------------------------------------------------------
\* The API promise of FiberContexts: whatever the interleaving, a switch is one
\* atomic exchange of contexts and no computation is lost, copied or set back.
Contexts == INSTANCE FiberContexts
              WITH Computation <- FiberAddr, parked <- ParkedContexts

ImplementsContexts == Contexts!Spec

\* A thread that ConvertThreadToFiber has answered with an index, and that is back
\* in user code, is known to the module: its later calls find it.  Only a first
\* conversion or an exit that met another call of the process can undo that.
ConvertedThreadFound ==
    ~overlapped => \A t \in Thread : converted[t] /\ pc[t] = "user" =>
        \E p \in list_process : search_process(p, tgid[t]) /\ t \in threads[p]

\* A fiber handle (the index) names one fiber of the calling process, unless a first
\* conversion or an exit has met another call of the process.
HandleUnambiguous ==
    ~overlapped => \A p, q \in list_process : \A f \in fibers[p], g \in fibers[q] :
        pid[p] = pid[q] /\ index[f] = index[g] => f = g

\* Only a fiber some thread is executing is marked running: no fiber is left in
\* a state in which every switch to it fails, unless a first conversion or an exit
\* has met another call of the process.
NoStuckFiber ==
    ~overlapped => \A f \in heap : running[f] =>
        \E p \in list_process : \E t \in threads[p] : active[p][t] = f

\* A handler dereferences or frees freed memory, or NULL, in two situations only:
\* after a first conversion or an exit met another call of the process, and in a
\* conversion or a creation whose kzalloc of the fiber returned NULL.
FaultsExplained ==
    fault => \/ overlapped
             \/ \E t \in Thread : new[t] = NULL /\ pc[t] \in {"cv_fiber", "cr_fiber"}

\* Every ioctl and every exit completes (unless the kernel has faulted): no path
\* leaves lock_fiber held.
CallReturns ==
    \A t \in Thread :
        pc[t] \notin {"user", "dead"} ~> (pc[t] \in {"user", "dead"} \/ fault)
=============================================================================
