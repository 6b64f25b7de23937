----------------------------- MODULE SchedTime ------------------------------
(***************************************************************************)
(* The execution time of a fiber, kept by switch_handler of proc.c (a      *)
(* kretprobe on finish_task_switch, run by every CPU after it changed its  *)
(* task) together with the handlers of fiber_ioctl.c.                      *)
(*                                                                         *)
(* Threads are those of one process.  The clock stands still while a CPU   *)
(* is in the probe or a thread in a handler: a fiber's time is counted in  *)
(* units much longer than those.  The clock is never set back.             *)
(*                                                                         *)
(* Nothing is assumed of the scheduler: a thread is switched out anywhere, *)
(* in a handler too, and is picked by a CPU while the one it left is still *)
(* on its way to the probe (on_cpu is cleared before the probe runs).      *)
(***************************************************************************)
EXTENDS Integers, FiniteSets

CONSTANTS Cpu, Thread, Fiber,
          Idle,       \* any task without fibers
          NULL,
          PerMicro,   \* clock units per unit of total_time (1000)
          MaxTime     \* bound on the clock

ASSUME SchedAssumption ==
    /\ PerMicro \in Nat \ {0} /\ MaxTime \in Nat \ {0}
    /\ Idle \notin Thread /\ NULL \notin Thread \cup Fiber \cup {Idle}

VARIABLES now,
          curr,       \* the task of each CPU
          owed,       \* what is left of switch_handler: "old" and "new", "new", or "none"
          scheduled,  \* per CPU variable of proc.c
          pc,         \* where each thread is: "user", "alloc", "hashed" or "exited"
          hashed,     \* threads in process->threads
          active_fiber, fibers, running, starting_time, total_time,
          fault,      \* the thread whose NULL active_fiber was followed, or NULL
          preempted,  \* ghost: threads switched out between hash_add and their fiber
          early,      \* ghost: threads picked while a CPU they left owed its probe
          disturbed,  \* ghost: the fibers they had then
          ran,        \* ghost: time each fiber was executing
          missed,     \* ghost: the part of it on a CPU that never ran the probe
          truncated   \* ghost: what the divisions by PerMicro cut off

times == <<starting_time, total_time, truncated>>
cpuVars == <<curr, owed, scheduled>>
ghosts == <<ran, missed, disturbed>>
events == <<preempted, early>>
vars == <<now, cpuVars, pc, hashed, active_fiber, fibers, running, times, fault, ghosts, events>>

-----------------------------------------------------------------------------
\* The module is loaded while tasks run: no CPU has run the probe.
Init ==
    /\ now = 1
    /\ curr \in [Cpu -> Thread \cup {Idle}]
    /\ \A c, d \in Cpu : c # d /\ curr[c] = curr[d] => curr[c] = Idle
    /\ owed = [c \in Cpu |-> "none"]
    /\ scheduled = [c \in Cpu |-> NULL]
    /\ pc = [t \in Thread |-> "user"]
    /\ hashed = {} /\ fibers = {} /\ running = {}
    /\ active_fiber = [t \in Thread |-> NULL]
    /\ starting_time = [f \in Fiber |-> 0] /\ total_time = [f \in Fiber |-> 0]
    /\ fault = NULL /\ preempted = {} /\ early = {} /\ disturbed = {}
    /\ ran = [f \in Fiber |-> 0] /\ missed = [f \in Fiber |-> 0] /\ truncated = [f \in Fiber |-> 0]

\* Fiber f is executing on CPU c.
Executes(c, f) == curr[c] \in hashed /\ active_fiber[curr[c]] = f

Tick ==
    /\ now < MaxTime /\ \A c \in Cpu : owed[c] = "none"
    /\ now' = now + 1
    /\ ran' = [f \in Fiber |-> IF \E c \in Cpu : Executes(c, f) THEN ran[f] + 1 ELSE ran[f]]
    /\ missed' = [f \in Fiber |->
         IF \E c \in Cpu : Executes(c, f) /\ scheduled[c] = NULL THEN missed[f] + 1 ELSE missed[f]]
    /\ UNCHANGED <<cpuVars, pc, hashed, active_fiber, fibers, running, times, fault, disturbed, events>>

CanPick(t) == t \in Thread => pc[t] # "exited" /\ \A c \in Cpu : curr[c] # t

\* A CPU that task t left is still to charge it.
Uncharged(t) == t \in Thread /\ \E d \in Cpu : scheduled[d] = t /\ owed[d] = "old"

\* finish_task_switch is about to return in task t.
ContextSwitch(c, t) ==
    /\ owed[c] = "none" /\ t # curr[c] /\ CanPick(t)
    /\ curr' = [curr EXCEPT ![c] = t]
    /\ owed' = [owed EXCEPT ![c] = "old"]
    /\ preempted' = preempted \cup {u \in Thread : u = curr[c] /\ pc[u] = "hashed"}
    /\ early' = early \cup {u \in {t} : Uncharged(u)}
    /\ disturbed' = disturbed \cup {active_fiber[u] : u \in {u \in Thread \cap hashed :
                                       u = t /\ Uncharged(u) /\ active_fiber[u] # NULL}}
    /\ UNCHANGED <<now, scheduled, pc, hashed, active_fiber, fibers, running, times, fault, ran, missed>>

-----------------------------------------------------------------------------
Elapsed(f) == (now - starting_time[f]) \div PerMicro

Charge(f) ==
    /\ total_time' = [total_time EXCEPT ![f] = @ + Elapsed(f)]
    /\ truncated' = [truncated EXCEPT ![f] = @ + ((now - starting_time[f]) % PerMicro)]

\* The task that is charged: the one that the probe saw last on this CPU.
Leaving(c) == scheduled[c]

SwitchHandlerOld(c) ==
    /\ owed[c] = "old"
    /\ owed' = [owed EXCEPT ![c] = "new"]
    /\ LET t == Leaving(c)
       IN  IF t \notin hashed THEN UNCHANGED <<times, fault>>
           ELSE IF active_fiber[t] = NULL THEN fault' = t /\ UNCHANGED times
           ELSE Charge(active_fiber[t]) /\ UNCHANGED <<starting_time, fault>>
    /\ UNCHANGED <<now, curr, scheduled, pc, hashed, active_fiber, fibers, running, ghosts, events>>

\* Variant: the fiber that comes in keeps its old stamp.
Restamp_Dropped(f) == starting_time

Restamp(f) == [starting_time EXCEPT ![f] = now]

SwitchHandlerNew(c) ==
    /\ owed[c] = "new"
    /\ owed' = [owed EXCEPT ![c] = "none"]
    /\ scheduled' = [scheduled EXCEPT ![c] = curr[c]]
    /\ LET t == curr[c]
       IN  IF t \notin hashed THEN UNCHANGED <<times, fault>>
           ELSE IF active_fiber[t] = NULL THEN fault' = t /\ UNCHANGED times
           ELSE starting_time' = Restamp(active_fiber[t]) /\ UNCHANGED <<total_time, truncated, fault>>
    /\ UNCHANGED <<now, curr, pc, hashed, active_fiber, fibers, running, ghosts, events>>

-----------------------------------------------------------------------------
\* Thread t executes its own code.
OnCpu(t) == \E c \in Cpu : curr[c] = t /\ owed[c] = "none"

\* The fields of f are set up; those of a freed fiber are given the same values.
Fresh(f, stamp) ==
    /\ starting_time' = [starting_time EXCEPT ![f] = stamp]
    /\ total_time' = [total_time EXCEPT ![f] = 0]
    /\ truncated' = [truncated EXCEPT ![f] = 0]
    /\ ran' = [ran EXCEPT ![f] = 0] /\ missed' = [missed EXCEPT ![f] = 0]
    /\ disturbed' = disturbed \ {f}

NewFiber(f, stamp) == f \notin fibers /\ fibers' = fibers \cup {f} /\ Fresh(f, stamp)

\* Variant: the thread is hashed before an allocation that may sleep.
ConvertAlloc_Hashed(t) ==
    /\ OnCpu(t) /\ pc[t] = "user" /\ t \notin hashed
    /\ pc' = [pc EXCEPT ![t] = "alloc"]
    /\ hashed' = hashed \cup {t}
    /\ UNCHANGED <<now, cpuVars, active_fiber, fibers, running, times, fault, ghosts, events>>

\* CONVERTTOFIBER up to the allocation of the thread_arg_t ...
ConvertAlloc(t) ==
    /\ OnCpu(t) /\ pc[t] = "user" /\ t \notin hashed
    /\ pc' = [pc EXCEPT ![t] = "alloc"]
    /\ UNCHANGED <<now, cpuVars, hashed, active_fiber, fibers, running, times, fault, ghosts, events>>

\* ... which is hashed with a NULL active_fiber ...
ConvertThread(t) ==
    /\ OnCpu(t) /\ pc[t] = "alloc"
    /\ pc' = [pc EXCEPT ![t] = "hashed"]
    /\ hashed' = hashed \cup {t}
    /\ UNCHANGED <<now, cpuVars, active_fiber, fibers, running, times, fault, ghosts, events>>

\* ... and gets its fiber.
ConvertFiber(t, f) ==
    /\ OnCpu(t) /\ pc[t] = "hashed"
    /\ NewFiber(f, now)
    /\ running' = running \cup {f}
    /\ active_fiber' = [active_fiber EXCEPT ![t] = f]
    /\ pc' = [pc EXCEPT ![t] = "user"]
    /\ UNCHANGED <<now, cpuVars, hashed, fault, events>>

CreateFiber(t, f) ==
    /\ OnCpu(t) /\ pc[t] = "user" /\ t \in hashed
    /\ NewFiber(f, 0)
    /\ UNCHANGED <<now, cpuVars, pc, hashed, active_fiber, running, fault, events>>

\* SWITCHTOFIBER, all of it with lock_fiber held and interrupts off.
SwitchToFiber(t, f) ==
    /\ OnCpu(t) /\ pc[t] = "user" /\ t \in hashed /\ f \in fibers \ running
    /\ LET old == active_fiber[t]
       IN  /\ running' = (running \ {old}) \cup {f}
           /\ IF starting_time[old] # 0 THEN Charge(old) ELSE UNCHANGED <<total_time, truncated>>
    /\ active_fiber' = [active_fiber EXCEPT ![t] = f]
    /\ starting_time' = [starting_time EXCEPT ![f] = now]
    /\ UNCHANGED <<now, cpuVars, pc, hashed, fibers, fault, ghosts, events>>

\* The probe of do_exit: thread and active fiber go.
Exit(t) ==
    /\ OnCpu(t) /\ pc[t] = "user"
    /\ pc' = [pc EXCEPT ![t] = "exited"]
    /\ hashed' = hashed \ {t}
    /\ fibers' = fibers \ {active_fiber[t]}
    /\ running' = running \ {active_fiber[t]}
    /\ active_fiber' = [active_fiber EXCEPT ![t] = NULL]
    /\ IF t \in hashed THEN Fresh(active_fiber[t], 0) ELSE UNCHANGED <<times, ghosts, events>>
    /\ UNCHANGED <<now, cpuVars, fault, events>>

\* A NULL active_fiber that is followed ends the run.
Next ==
    /\ fault = NULL
    /\ \/ Tick
       \/ \E c \in Cpu : \/ \E t \in Thread \cup {Idle} : ContextSwitch(c, t)
                         \/ SwitchHandlerOld(c) \/ SwitchHandlerNew(c)
       \/ \E t \in Thread : \/ ConvertAlloc(t) \/ ConvertThread(t) \/ Exit(t)
                            \/ \E f \in Fiber : ConvertFiber(t, f) \/ CreateFiber(t, f) \/ SwitchToFiber(t, f)

Spec == Init /\ [][Next]_vars

-----------------------------------------------------------------------------
\* The time a fiber has executed since its last stamp.
Open(f) == IF \E c \in Cpu : Executes(c, f) /\ owed[c] = "none" THEN now - starting_time[f] ELSE 0

\* The execution time shown in /proc, through migrations, preemptions, conversions and
\* fiber switches: switch_handler never charges a fiber for time it did not execute, and
\* what it does not charge is what the divisions truncate, what ran on a CPU that had not
\* run the probe since the module was loaded, or that of a fiber whose thread was picked
\* by a CPU before the one it left had charged it.
TimeAccounted ==
    (\A c \in Cpu : owed[c] = "none") =>
      \A f \in fibers :
        LET uncounted == ran[f] - (PerMicro * total_time[f] + truncated[f] + Open(f))
        IN  uncounted >= 0 /\ (f \notin disturbed => uncounted <= missed[f])

\* switch_handler follows the NULL active_fiber of a thread that is being converted only
\* when the thread was switched out between the hash_add of its thread_arg_t and its
\* fiber, or was picked by a CPU before the one it left had run the probe for it.
FaultsNamed == fault # NULL => fault \in preempted \cup early
=============================================================================
