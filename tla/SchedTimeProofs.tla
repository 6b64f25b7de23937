-------------------------- MODULE SchedTimeProofs ---------------------------
(***************************************************************************)
(* Proofs about the execution times of SchedTime, for any number of CPUs,  *)
(* threads and fibers, any length of the run and any PerMicro, on a        *)
(* scheduler that switches threads out anywhere and picks them at once.    *)
(***************************************************************************)
EXTENDS SchedTime, TLAPS

SchedTypeOK ==
    /\ now \in Nat \ {0}
    /\ curr \in [Cpu -> Thread \cup {Idle}]
    /\ owed \in [Cpu -> {"none", "old", "new"}]
    /\ scheduled \in [Cpu -> Thread \cup {Idle, NULL}]
    /\ pc \in [Thread -> {"user", "alloc", "hashed", "exited"}]
    /\ hashed \in SUBSET Thread
    /\ active_fiber \in [Thread -> Fiber \cup {NULL}]
    /\ fibers \in SUBSET Fiber /\ running \in SUBSET Fiber
    /\ starting_time \in [Fiber -> Int] /\ total_time \in [Fiber -> Int]
    /\ truncated \in [Fiber -> Int]
    /\ ran \in [Fiber -> Int] /\ missed \in [Fiber -> Int]
    /\ fault \in Thread \cup {NULL}

\* A thread is on one CPU at most; in the part of the conversion that the probe must not see
\* it executes, or was switched out there.
CpuInv ==
    /\ \A c, d \in Cpu : c # d /\ curr[c] = curr[d] => curr[c] = Idle
    /\ \A c \in Cpu : owed[c] = "none" => scheduled[c] \in {NULL, curr[c]}
    /\ \A t \in Thread : pc[t] = "hashed" => OnCpu(t) \/ t \in preempted

\* A converted thread has a fiber, its own, with a stamp.
FiberInv ==
    /\ \A t \in Thread :
         /\ active_fiber[t] # NULL <=> t \in hashed /\ pc[t] # "hashed"
         /\ pc[t] = "hashed" => t \in hashed
         /\ pc[t] \in {"alloc", "exited"} => t \notin hashed
         /\ active_fiber[t] # NULL =>
              /\ active_fiber[t] \in running /\ active_fiber[t] \in fibers
              /\ starting_time[active_fiber[t]] \in 1..now
    /\ \A t, u \in Thread :
         t # u /\ active_fiber[t] # NULL => active_fiber[t] # active_fiber[u]

\* CPU c left thread t and is to charge its fiber.
Owes(c, t) == scheduled[c] = t /\ owed[c] = "old"

\* The time since the stamp of t's fiber is still to be charged.
Overdue(t) == active_fiber[t] # NULL /\ starting_time[active_fiber[t]] # now

\* A CPU that is to charge a fiber is the only one that does, and the fiber does not execute;
\* unless it was stamped since the clock stopped, and the charge is nothing.  The thread was
\* picked in the meantime only if the ghosts say so.
OwedInv ==
    \A c \in Cpu, t \in Thread : Owes(c, t) =>
      /\ Overdue(t) => ~OnCpu(t) /\ \A d \in Cpu : Owes(d, t) => d = c
      /\ \A d \in Cpu : curr[d] = t =>
           t \in early /\ (Overdue(t) => active_fiber[t] \in disturbed)

Counted(f) == PerMicro * total_time[f] + truncated[f]

\* Thread t executes, or has left a CPU that is about to charge it.
OnClock(t) ==
    \E c \in Cpu : \/ curr[c] = t /\ owed[c] = "none"
                   \/ scheduled[c] = t /\ owed[c] = "old"

\* The time since the stamp of f is yet to be counted.
Pending(f) == \E t \in hashed : active_fiber[t] = f /\ OnClock(t)

\* What is not counted of f, with the time since its stamp if that is pending.
Uncounted(f) == ran[f] - Counted(f) - (IF Pending(f) THEN now - starting_time[f] ELSE 0)

\* Nothing is counted twice.  What is not counted was missed, and on a CPU that has never
\* run the probe that will be all the time since the stamp.
Account(f) ==
    /\ Uncounted(f) >= 0
    /\ f \notin disturbed =>
         /\ Uncounted(f) <= missed[f]
         /\ \A c \in Cpu : Executes(c, f) /\ owed[c] = "none" /\ scheduled[c] = NULL =>
              ran[f] - Counted(f) <= missed[f]

TimeInv == \A f \in fibers : Account(f)

SchedInv == SchedTypeOK /\ CpuInv /\ FiberInv /\ OwedInv /\ TimeInv /\ FaultsNamed

-----------------------------------------------------------------------------
\* The facts about names that the steps need.
LEMMA Names == Idle \notin Thread /\ NULL \notin Thread /\ NULL \notin Fiber /\ NULL # Idle
BY SchedAssumption

\* A division and its remainder together lose nothing.
LEMMA DivisionExact ==
  ASSUME NEW x \in Int
  PROVE  /\ x \div PerMicro \in Int /\ x % PerMicro \in Int
         /\ PerMicro * (x \div PerMicro) + (x % PerMicro) = x
BY SchedAssumption, SMTT(30)

\* Charging a fiber counts the time since its stamp, to the unit.
LEMMA ChargeCounts ==
  ASSUME SchedTypeOK, NEW f \in Fiber, Charge(f)
  PROVE  /\ total_time' \in [Fiber -> Int] /\ truncated' \in [Fiber -> Int]
         /\ Counted(f)' = Counted(f) + (now - starting_time[f])
         /\ \A g \in Fiber : g # f => Counted(g)' = Counted(g)
<1> DEFINE x == now - starting_time[f]
           q == x \div PerMicro
           r == x % PerMicro
<1>1. x \in Int /\ PerMicro \in Int /\ total_time[f] \in Int /\ truncated[f] \in Int
  BY SchedAssumption DEF SchedTypeOK
<1>2. q \in Int /\ r \in Int /\ PerMicro * q + r = x
  BY <1>1, DivisionExact
<1>3. total_time' = [total_time EXCEPT ![f] = @ + q] /\ truncated' = [truncated EXCEPT ![f] = @ + r]
  BY DEF Charge, Elapsed
<1> HIDE DEF x, q, r
<1>4. total_time'[f] = total_time[f] + q /\ truncated'[f] = truncated[f] + r
  BY <1>3 DEF SchedTypeOK
<1>5. PerMicro * (total_time[f] + q) + (truncated[f] + r)
        = PerMicro * total_time[f] + truncated[f] + (PerMicro * q + r)
  BY <1>1, <1>2
<1>6. Counted(f)' = Counted(f) + x
  BY <1>2, <1>4, <1>5 DEF Counted
<1>7. \A g \in Fiber : g # f => total_time'[g] = total_time[g] /\ truncated'[g] = truncated[g]
  BY <1>3 DEF SchedTypeOK
<1> QED
  BY <1>2, <1>3, <1>6, <1>7 DEF Counted, SchedTypeOK, x

\* A step of the specification is one of its actions, or changes nothing.
LEMMA StepCases ==
  ASSUME [Next]_vars
  PROVE  \/ UNCHANGED vars
         \/ Tick
         \/ \E c \in Cpu : \/ \E t \in Thread \cup {Idle} : ContextSwitch(c, t)
                           \/ SwitchHandlerOld(c) \/ SwitchHandlerNew(c)
         \/ \E t \in Thread : ConvertAlloc(t) \/ ConvertThread(t) \/ Exit(t)
         \/ \E t \in Thread, f \in Fiber :
              ConvertFiber(t, f) \/ CreateFiber(t, f) \/ SwitchToFiber(t, f)
BY DEF Next

\* A thread on the table without a fiber was switched out during its conversion, or executes.
LEMMA NullFiber ==
  ASSUME SchedInv, NEW t \in hashed, active_fiber[t] = NULL
  PROVE  t \in Thread /\ (OnCpu(t) \/ t \in preempted)
BY DEF SchedInv, SchedTypeOK, CpuInv, FiberInv

\* A thread that executes is on that CPU alone.
LEMMA OneCpu ==
  ASSUME SchedInv, NEW t \in Thread, NEW c \in Cpu, curr[c] = t
  PROVE  /\ \A d \in Cpu : curr[d] = t => d = c
         /\ OnCpu(t) => owed[c] = "none"
BY Names DEF SchedInv, SchedTypeOK, CpuInv, OnCpu

\* switch_handler follows a NULL active_fiber only in the two ways that are named.
LEMMA FaultStep ==
  ASSUME SchedInv, [Next]_vars
  PROVE  FaultsNamed'
<1> USE DEF FaultsNamed
<1>1. FaultsNamed
  BY DEF SchedInv
<1>2. ASSUME NEW c \in Cpu, SwitchHandlerOld(c) PROVE FaultsNamed'
  <2>1. UNCHANGED <<preempted, early>> /\ owed[c] = "old"
    BY <1>2 DEF SwitchHandlerOld, events
  <2>2. CASE fault' = fault
    BY <1>1, <2>1, <2>2
  <2>3. CASE scheduled[c] \in hashed /\ active_fiber[scheduled[c]] = NULL /\ fault' = scheduled[c]
    <3> DEFINE t == scheduled[c]
    <3>1. t \in Thread /\ (OnCpu(t) \/ t \in preempted)
      BY <2>3, NullFiber
    <3>2. OnCpu(t) => t \in early
      BY <2>1, <3>1 DEF OnCpu, SchedInv, OwedInv, Owes
    <3> QED
      BY <2>1, <2>3, <3>1, <3>2
  <2> QED
    BY <1>2, <2>2, <2>3 DEF SwitchHandlerOld, Leaving
<1>3. ASSUME NEW c \in Cpu, SwitchHandlerNew(c) PROVE FaultsNamed'
  <2>1. UNCHANGED <<preempted, early>> /\ owed[c] = "new"
    BY <1>3 DEF SwitchHandlerNew, events
  <2>2. CASE fault' = fault
    BY <1>1, <2>1, <2>2
  <2>3. CASE curr[c] \in hashed /\ active_fiber[curr[c]] = NULL /\ fault' = curr[c]
    BY <2>1, <2>3, NullFiber, OneCpu
  <2> QED
    BY <1>3, <2>2, <2>3 DEF SwitchHandlerNew
<1>4. CASE UNCHANGED fault /\ preempted \subseteq preempted' /\ early \subseteq early'
  BY <1>1, <1>4
<1> QED
  BY <1>2, <1>3, <1>4, StepCases
     DEF vars, events, Tick, ContextSwitch, ConvertAlloc, ConvertThread, Exit, ConvertFiber,
         CreateFiber, SwitchToFiber

\* The thread that runs a handler after its conversion has a fiber.
LEMMA CallerHasFiber ==
  ASSUME SchedInv, NEW t \in Thread, pc[t] = "user", t \in hashed
  PROVE  active_fiber[t] \in Fiber
BY DEF SchedInv, SchedTypeOK, FiberInv

\* Every step keeps each variable within its type.
LEMMA TypeStep ==
  ASSUME SchedInv, [Next]_vars
  PROVE  SchedTypeOK'
<1> USE DEF SchedInv, SchedTypeOK
<1>1. CASE UNCHANGED vars
  BY <1>1 DEF vars, cpuVars, times, ghosts
<1>2. CASE Tick
  BY <1>2 DEF Tick, cpuVars, times
<1>3. ASSUME NEW c \in Cpu, NEW t \in Thread \cup {Idle}, ContextSwitch(c, t) PROVE SchedTypeOK'
  BY <1>3 DEF ContextSwitch, times, ghosts
<1>4. ASSUME NEW c \in Cpu, SwitchHandlerOld(c) PROVE SchedTypeOK'
  <2>1. UNCHANGED <<starting_time>> /\ total_time' \in [Fiber -> Int] /\ truncated' \in [Fiber -> Int]
    BY <1>4, Names, ChargeCounts DEF SwitchHandlerOld, Leaving, times
  <2> QED
    BY <1>4, <2>1 DEF SwitchHandlerOld, Leaving, ghosts
<1>5. ASSUME NEW c \in Cpu, SwitchHandlerNew(c) PROVE SchedTypeOK'
  <2>1. UNCHANGED <<total_time, truncated>> /\ starting_time' \in [Fiber -> Int]
    BY <1>5, Names DEF SwitchHandlerNew, Restamp, times
  <2> QED
    BY <1>5, <2>1 DEF SwitchHandlerNew, ghosts
<1>6. ASSUME NEW t \in Thread, ConvertAlloc(t) \/ ConvertThread(t) PROVE SchedTypeOK'
  BY <1>6 DEF ConvertAlloc, ConvertThread, cpuVars, times, ghosts
<1>7. ASSUME NEW t \in Thread, NEW f \in Fiber, ConvertFiber(t, f) \/ CreateFiber(t, f)
      PROVE  SchedTypeOK'
  <2>1. /\ starting_time' \in [Fiber -> Int] /\ total_time' \in [Fiber -> Int]
        /\ truncated' \in [Fiber -> Int] /\ ran' \in [Fiber -> Int] /\ missed' \in [Fiber -> Int]
        /\ fibers' \in SUBSET Fiber
    BY <1>7 DEF ConvertFiber, CreateFiber, NewFiber, Fresh
  <2> QED
    BY <1>7, <2>1 DEF ConvertFiber, CreateFiber, cpuVars
<1>8. ASSUME NEW t \in Thread, NEW f \in Fiber, SwitchToFiber(t, f) PROVE SchedTypeOK'
  <2>1. total_time' \in [Fiber -> Int] /\ truncated' \in [Fiber -> Int]
    BY <1>8, CallerHasFiber, ChargeCounts DEF SwitchToFiber
  <2>2. /\ running' \in SUBSET Fiber /\ active_fiber' \in [Thread -> Fiber \cup {NULL}]
        /\ starting_time' \in [Fiber -> Int]
        /\ UNCHANGED <<now, cpuVars, pc, hashed, fibers, fault, ghosts>>
    BY <1>8 DEF SwitchToFiber
  <2> QED
    BY <2>1, <2>2 DEF cpuVars, ghosts
<1>9. ASSUME NEW t \in Thread, Exit(t) PROVE SchedTypeOK'
  <2>1. /\ starting_time' \in [Fiber -> Int] /\ total_time' \in [Fiber -> Int]
        /\ truncated' \in [Fiber -> Int] /\ ran' \in [Fiber -> Int] /\ missed' \in [Fiber -> Int]
    BY <1>9, CallerHasFiber DEF Exit, Fresh, times, ghosts
  <2> QED
    BY <1>9, <2>1 DEF Exit, cpuVars
<1> QED
  BY <1>1, <1>2, <1>3, <1>4, <1>5, <1>6, <1>7, <1>8, <1>9, StepCases

\* Tasks move between CPUs one at a time.
LEMMA CpuStep ==
  ASSUME SchedInv, [Next]_vars
  PROVE  CpuInv'
<1> USE Names
<1> USE DEF SchedInv, SchedTypeOK, CpuInv, OnCpu
<1>1. CASE UNCHANGED <<curr, owed, scheduled, pc, preempted>>
  BY <1>1
<1>2. ASSUME NEW c \in Cpu, NEW t \in Thread \cup {Idle}, ContextSwitch(c, t) PROVE CpuInv'
  <2>1. /\ owed[c] = "none" /\ t # curr[c] /\ UNCHANGED <<scheduled, pc>>
        /\ curr' = [curr EXCEPT ![c] = t] /\ owed' = [owed EXCEPT ![c] = "old"]
        /\ preempted' = preempted \cup {u \in Thread : u = curr[c] /\ pc[u] = "hashed"}
    BY <1>2 DEF ContextSwitch
  <2>2. t \in Thread => \A d \in Cpu : curr[d] # t
    BY <1>2 DEF ContextSwitch, CanPick
  <2>3. \A d, e \in Cpu : d # e /\ curr'[d] = curr'[e] => curr'[d] = Idle
    BY <2>1, <2>2
  <2>4. \A d \in Cpu : owed'[d] = "none" => scheduled'[d] \in {NULL, curr'[d]}
    BY <2>1
  <2>5. \A u \in Thread : pc'[u] = "hashed" =>
          (\E d \in Cpu : curr'[d] = u /\ owed'[d] = "none") \/ u \in preempted'
    BY <2>1
  <2> QED
    BY <2>3, <2>4, <2>5
<1>3. ASSUME NEW c \in Cpu, SwitchHandlerOld(c) PROVE CpuInv'
  BY <1>3 DEF SwitchHandlerOld, events
<1>4. ASSUME NEW c \in Cpu, SwitchHandlerNew(c) PROVE CpuInv'
  BY <1>4 DEF SwitchHandlerNew, events
<1>5. ASSUME NEW t \in Thread, OnCpu(t), NEW x, pc' = [pc EXCEPT ![t] = x], UNCHANGED <<cpuVars, events>>
      PROVE  CpuInv'
  BY <1>5 DEF cpuVars, events
<1> QED
  BY <1>1, <1>2, <1>3, <1>4, <1>5, StepCases
     DEF vars, cpuVars, events, Tick, ConvertAlloc, ConvertThread, Exit, ConvertFiber,
         CreateFiber, SwitchToFiber

\* Conversion, switch and exit give a thread a fiber that no other has, or take it away.
LEMMA FiberStep ==
  ASSUME SchedInv, [Next]_vars
  PROVE  FiberInv'
<1> USE Names
<1> USE DEF SchedInv, SchedTypeOK, FiberInv
<1>1. CASE UNCHANGED <<now, pc, hashed, active_fiber, fibers, running, starting_time>>
  BY <1>1
<1>2. CASE Tick
  BY <1>2 DEF Tick, times
<1>3. ASSUME NEW c \in Cpu, SwitchHandlerNew(c) PROVE FiberInv'
  <2>1. /\ UNCHANGED <<now, pc, hashed, active_fiber, fibers, running>>
        /\ \/ starting_time' = starting_time
           \/ \E f \in Fiber : starting_time' = [starting_time EXCEPT ![f] = now]
    BY <1>3 DEF SwitchHandlerNew, Restamp, times
  <2> QED
    BY <2>1
<1>4. ASSUME NEW t \in Thread, ConvertAlloc(t) \/ ConvertThread(t) PROVE FiberInv'
  BY <1>4 DEF ConvertAlloc, ConvertThread, times
<1>5. ASSUME NEW t \in Thread, NEW f \in Fiber, ConvertFiber(t, f) PROVE FiberInv'
  <2>1. \A u \in Thread : active_fiber[u] # f
    BY <1>5 DEF ConvertFiber, NewFiber
  <2>2. /\ pc[t] = "hashed" /\ pc' = [pc EXCEPT ![t] = "user"] /\ hashed' = hashed
        /\ active_fiber' = [active_fiber EXCEPT ![t] = f]
        /\ fibers' = fibers \cup {f} /\ running' = running \cup {f}
        /\ starting_time' = [starting_time EXCEPT ![f] = now] /\ now' = now
    BY <1>5 DEF ConvertFiber, NewFiber, Fresh
  <2>3. t \in hashed
    BY <2>2
  <2> QED
    BY <2>1, <2>2, <2>3
<1>6. ASSUME NEW t \in Thread, NEW f \in Fiber, CreateFiber(t, f) PROVE FiberInv'
  <2>1. \A u \in Thread : active_fiber[u] # f
    BY <1>6 DEF CreateFiber, NewFiber
  <2> QED
    BY <1>6, <2>1 DEF CreateFiber, NewFiber, Fresh
<1>7. ASSUME NEW t \in Thread, NEW f \in Fiber, SwitchToFiber(t, f) PROVE FiberInv'
  <2>1. /\ pc[t] = "user" /\ t \in hashed /\ f \in fibers \ running
        /\ running' = (running \ {active_fiber[t]}) \cup {f}
        /\ active_fiber' = [active_fiber EXCEPT ![t] = f]
        /\ starting_time' = [starting_time EXCEPT ![f] = now]
        /\ UNCHANGED <<now, pc, hashed, fibers>>
    BY <1>7 DEF SwitchToFiber
  <2>2. \A u \in Thread : active_fiber[u] # f
    BY <2>1
  <2> QED
    BY <2>1, <2>2
<1>8. ASSUME NEW t \in Thread, Exit(t) PROVE FiberInv'
  <2>1. /\ pc[t] = "user" /\ pc' = [pc EXCEPT ![t] = "exited"]
        /\ hashed' = hashed \ {t}
        /\ fibers' = fibers \ {active_fiber[t]} /\ running' = running \ {active_fiber[t]}
        /\ active_fiber' = [active_fiber EXCEPT ![t] = NULL]
        /\ now' = now
    BY <1>8 DEF Exit
  <2>2. \A u \in Thread : u # t /\ active_fiber[u] # NULL =>
          starting_time'[active_fiber[u]] = starting_time[active_fiber[u]]
    BY <1>8, CallerHasFiber DEF Exit, Fresh, times
  <2> QED
    BY <2>1, <2>2
<1> QED
  BY <1>1, <1>2, <1>3, <1>4, <1>5, <1>6, <1>7, <1>8, StepCases
     DEF vars, times, ContextSwitch, SwitchHandlerOld

\* A step that leaves the CPUs alone, gives thread t no overdue fiber and leaves those of the
\* other threads as they are keeps what is said of the charges.
LEMMA OwedFrame ==
  ASSUME SchedInv, UNCHANGED <<now, cpuVars, events>>, NEW t \in Thread, ~Overdue(t)',
         \A u \in Thread : u # t => active_fiber'[u] = active_fiber[u],
         \A u \in Thread : u # t /\ active_fiber[u] # NULL =>
           /\ starting_time'[active_fiber[u]] = starting_time[active_fiber[u]]
           /\ active_fiber[u] \in disturbed => active_fiber[u] \in disturbed'
  PROVE  OwedInv'
<1>1. \A u \in Thread : Overdue(u)' => u # t /\ Overdue(u) /\ active_fiber'[u] = active_fiber[u]
  BY DEF Overdue
<1>2. \A u \in Thread : /\ OnCpu(u)' <=> OnCpu(u)
                        /\ \A c \in Cpu : Owes(c, u)' <=> Owes(c, u)
  BY DEF OnCpu, Owes, cpuVars
<1>3. UNCHANGED <<curr, early>>
  BY DEF cpuVars, events
<1>4. \A u \in Thread : Overdue(u)' /\ active_fiber[u] \in disturbed => active_fiber'[u] \in disturbed'
  BY <1>1 DEF Overdue
<1> QED
  BY <1>1, <1>2, <1>3, <1>4 DEF SchedInv, OwedInv

\* A CPU that is left begins to owe a charge, one that comes in stamps.
LEMMA OwedStep ==
  ASSUME SchedInv, [Next]_vars
  PROVE  OwedInv'
<1> USE Names
<1>1. CASE UNCHANGED <<now, cpuVars, active_fiber, starting_time, events, disturbed>>
  BY <1>1 DEF SchedInv, OwedInv, Owes, Overdue, OnCpu, cpuVars, events
<1>2. CASE Tick
  BY <1>2 DEF Tick, OwedInv, Owes, cpuVars
<1>3. ASSUME NEW c \in Cpu, NEW t \in Thread \cup {Idle}, ContextSwitch(c, t) PROVE OwedInv'
  <2>1. /\ owed[c] = "none" /\ t # curr[c] /\ UNCHANGED <<now, scheduled, active_fiber, starting_time>>
        /\ curr' = [curr EXCEPT ![c] = t] /\ owed' = [owed EXCEPT ![c] = "old"]
        /\ early' = early \cup {u \in {t} : Uncharged(u)}
        /\ scheduled[c] \in {NULL, curr[c]}
        /\ t \in Thread => \A d \in Cpu : curr[d] # t
    BY <1>3 DEF ContextSwitch, CanPick, times, SchedInv, CpuInv
  <2>2. /\ disturbed \subseteq disturbed'
        /\ t \in hashed /\ Uncharged(t) /\ active_fiber[t] # NULL => active_fiber[t] \in disturbed'
    BY <1>3 DEF ContextSwitch, SchedInv, SchedTypeOK
  <2>3. curr \in [Cpu -> Thread \cup {Idle}] /\ owed \in [Cpu -> {"none", "old", "new"}]
    BY DEF SchedInv, SchedTypeOK
  <2> SUFFICES ASSUME NEW d \in Cpu, NEW u \in Thread, Owes(d, u)'
               PROVE  /\ Overdue(u)' => ~OnCpu(u)' /\ \A e \in Cpu : Owes(e, u)' => e = d
                      /\ \A e \in Cpu : curr'[e] = u =>
                           u \in early' /\ (Overdue(u)' => active_fiber'[u] \in disturbed')
    BY DEF OwedInv
  <2>4. Overdue(u)' <=> Overdue(u)
    BY <2>1 DEF Overdue
  <2>5. CASE u = curr[c]
    <3>1. OnCpu(u) /\ \A e \in Cpu : curr'[e] # u
      BY <2>1, <2>3, <2>5 DEF OnCpu, SchedInv, CpuInv
    <3>2. \A e \in Cpu : Overdue(u) /\ Owes(e, u)' => e = c
      BY <2>1, <2>3, <3>1 DEF Owes, SchedInv, OwedInv
    <3>3. ~OnCpu(u)'
      BY <3>1 DEF OnCpu
    <3> QED
      BY <2>4, <3>1, <3>2, <3>3
  <2>6. CASE u # curr[c]
    <3>1. \A e \in Cpu : Owes(e, u)' <=> Owes(e, u)
      BY <2>1, <2>3, <2>6 DEF Owes
    <3>2. Owes(d, u)
      BY <3>1
    <3>3. OnCpu(u)' => OnCpu(u)
      BY <2>1, <2>3 DEF OnCpu
    <3>4. u = t => Uncharged(t)
      BY <3>2 DEF Owes, Uncharged
    <3>5. CASE u = t
      <4>1. u \in early'
        BY <2>1, <3>4, <3>5
      <4>2. Overdue(u) => u \in hashed /\ active_fiber[u] # NULL
        BY DEF Overdue, SchedInv, FiberInv
      <4>3. Overdue(u) => active_fiber'[u] \in disturbed'
        BY <2>1, <2>2, <3>4, <3>5, <4>2
      <4> QED
        BY <2>4, <3>1, <3>2, <3>3, <4>1, <4>3 DEF SchedInv, OwedInv
    <3>6. CASE u # t
      <4>1. \A e \in Cpu : curr'[e] = u => curr[e] = u
        BY <2>1, <2>3, <3>6
      <4> QED
        BY <2>1, <2>2, <2>4, <3>1, <3>2, <3>3, <4>1 DEF SchedInv, OwedInv
    <3> QED
      BY <3>5, <3>6
  <2> QED
    BY <2>5, <2>6
<1>4. ASSUME NEW c \in Cpu, SwitchHandlerOld(c) PROVE OwedInv'
  <2>1. /\ UNCHANGED <<now, curr, scheduled, active_fiber, starting_time, early, disturbed>>
        /\ owed[c] = "old" /\ owed' = [owed EXCEPT ![c] = "new"]
    BY <1>4 DEF SwitchHandlerOld, times, events, ghosts
  <2>2. owed \in [Cpu -> {"none", "old", "new"}]
    BY DEF SchedInv, SchedTypeOK
  <2>3. \A u \in Thread : OnCpu(u)' => OnCpu(u)
    BY <2>1, <2>2 DEF OnCpu
  <2>4. \A u \in Thread, d \in Cpu : Owes(d, u)' => Owes(d, u)
    BY <2>1, <2>2 DEF Owes
  <2>5. \A u \in Thread : Overdue(u)' => Overdue(u)
    BY <2>1 DEF Overdue
  <2> QED
    BY <2>1, <2>3, <2>4, <2>5 DEF SchedInv, OwedInv
<1>5. ASSUME NEW c \in Cpu, SwitchHandlerNew(c) PROVE OwedInv'
  <2>1. /\ UNCHANGED <<now, curr, active_fiber, early, disturbed>>
        /\ owed[c] = "new" /\ owed' = [owed EXCEPT ![c] = "none"]
        /\ scheduled' = [scheduled EXCEPT ![c] = curr[c]]
    BY <1>5 DEF SwitchHandlerNew, events, ghosts
  <2>2. /\ owed \in [Cpu -> {"none", "old", "new"}] /\ scheduled \in [Cpu -> Thread \cup {Idle, NULL}]
        /\ active_fiber \in [Thread -> Fiber \cup {NULL}] /\ starting_time \in [Fiber -> Int]
    BY DEF SchedInv, SchedTypeOK
  <2>3. \/ starting_time' = starting_time /\ (curr[c] \in Thread => active_fiber[curr[c]] = NULL)
        \/ /\ curr[c] \in Thread /\ active_fiber[curr[c]] # NULL
           /\ starting_time' = [starting_time EXCEPT ![active_fiber[curr[c]]] = now]
    BY <1>5 DEF SwitchHandlerNew, Restamp, times, SchedInv, SchedTypeOK, FiberInv
  <2>4. \A u \in Thread : Overdue(u)' => Overdue(u) /\ u # curr[c]
    BY <2>1, <2>2, <2>3 DEF Overdue
  <2>5. \A u \in Thread : u # curr[c] /\ OnCpu(u)' => OnCpu(u)
    BY <2>1, <2>2 DEF OnCpu
  <2>6. \A u \in Thread, d \in Cpu : Owes(d, u)' => Owes(d, u)
    BY <2>1, <2>2 DEF Owes
  <2> QED
    BY <2>1, <2>4, <2>5, <2>6 DEF SchedInv, OwedInv
<1>6. ASSUME NEW t \in Thread, ConvertAlloc(t) \/ ConvertThread(t) PROVE OwedInv'
  BY <1>1, <1>6 DEF ConvertAlloc, ConvertThread, times, ghosts
<1>7. ASSUME NEW t \in Thread, NEW f \in Fiber, ConvertFiber(t, f) PROVE OwedInv'
  <2>1. /\ UNCHANGED <<now, cpuVars, events>> /\ disturbed' = disturbed \ {f}
        /\ active_fiber' = [active_fiber EXCEPT ![t] = f]
        /\ starting_time' = [starting_time EXCEPT ![f] = now]
    BY <1>7 DEF ConvertFiber, NewFiber, Fresh
  <2>2. \A u \in Thread : active_fiber[u] # f
    BY <1>7 DEF ConvertFiber, NewFiber, SchedInv, FiberInv
  <2>3. ~Overdue(t)'
    BY <2>1 DEF Overdue, SchedInv, SchedTypeOK
  <2> QED
    BY <2>1, <2>2, <2>3, OwedFrame DEF SchedInv, SchedTypeOK
<1>8. ASSUME NEW t \in Thread, NEW f \in Fiber, CreateFiber(t, f) PROVE OwedInv'
  <2>1. /\ UNCHANGED <<now, cpuVars, events, active_fiber>> /\ disturbed' = disturbed \ {f}
        /\ starting_time' = [starting_time EXCEPT ![f] = 0]
    BY <1>8 DEF CreateFiber, NewFiber, Fresh
  <2>2. \A u \in Thread : active_fiber[u] # f
    BY <1>8 DEF CreateFiber, NewFiber, SchedInv, FiberInv
  <2>3. \A u \in Thread : /\ Overdue(u)' <=> Overdue(u)
                          /\ active_fiber[u] \in disturbed => active_fiber[u] \in disturbed'
    BY <2>1, <2>2 DEF Overdue, SchedInv, SchedTypeOK
  <2>4. \A u \in Thread : /\ OnCpu(u)' <=> OnCpu(u)
                          /\ \A c \in Cpu : Owes(c, u)' <=> Owes(c, u)
    BY <2>1 DEF OnCpu, Owes, cpuVars
  <2>5. UNCHANGED <<curr, early, active_fiber>>
    BY <2>1 DEF cpuVars, events
  <2> QED
    BY <2>3, <2>4, <2>5 DEF SchedInv, OwedInv
<1>9. ASSUME NEW t \in Thread, NEW f \in Fiber, SwitchToFiber(t, f) PROVE OwedInv'
  <2>1. /\ UNCHANGED <<now, cpuVars, events, disturbed>> /\ f \in fibers \ running
        /\ active_fiber' = [active_fiber EXCEPT ![t] = f]
        /\ starting_time' = [starting_time EXCEPT ![f] = now]
    BY <1>9 DEF SwitchToFiber, ghosts
  <2>2. \A u \in Thread : active_fiber[u] # f
    BY <2>1 DEF SchedInv, FiberInv
  <2>3. ~Overdue(t)'
    BY <2>1 DEF Overdue, SchedInv, SchedTypeOK
  <2> QED
    BY <2>1, <2>2, <2>3, OwedFrame DEF SchedInv, SchedTypeOK
<1>10. ASSUME NEW t \in Thread, Exit(t) PROVE OwedInv'
  <2>1. /\ UNCHANGED <<now, cpuVars, events>>
        /\ active_fiber' = [active_fiber EXCEPT ![t] = NULL]
        /\ IF t \in hashed THEN Fresh(active_fiber[t], 0) ELSE UNCHANGED <<times, ghosts>>
        /\ pc[t] = "user"
    BY <1>10 DEF Exit
  <2>2. ~Overdue(t)'
    BY <2>1 DEF Overdue, SchedInv, SchedTypeOK
  <2>3. t \in hashed => active_fiber[t] # NULL
    BY <2>1 DEF SchedInv, FiberInv
  <2>4. \A u \in Thread : u # t /\ active_fiber[u] # NULL =>
          /\ starting_time'[active_fiber[u]] = starting_time[active_fiber[u]]
          /\ active_fiber[u] \in disturbed => active_fiber[u] \in disturbed'
    BY <2>1, <2>3 DEF Fresh, times, ghosts, SchedInv, SchedTypeOK, FiberInv
  <2> QED
    BY <2>1, <2>2, <2>4, OwedFrame DEF SchedInv, SchedTypeOK
<1> QED
  BY <1>1, <1>2, <1>3, <1>4, <1>5, <1>6, <1>7, <1>8, <1>9, <1>10, StepCases DEF vars, times, ghosts

\* What is counted for a fiber is an integer.
LEMMA CountedType ==
  ASSUME SchedTypeOK, NEW f \in Fiber
  PROVE  Counted(f) \in Int
BY SchedAssumption DEF SchedTypeOK, Counted

\* A thread that comes in is on the clock only of CPUs that are to charge it.
LEMMA ClockOf ==
  ASSUME SchedInv, NEW t \in Thread
  PROVE  OnClock(t) <=> OnCpu(t) \/ \E c \in Cpu : Owes(c, t)
BY DEF OnClock, OnCpu, Owes

\* The thread that has a fiber is the one that can make its time pending.
LEMMA PendingOf ==
  ASSUME SchedInv, NEW t \in Thread, active_fiber[t] # NULL
  PROVE  /\ Pending(active_fiber[t]) <=> OnClock(t)
         /\ starting_time[active_fiber[t]] <= now
BY DEF SchedInv, SchedTypeOK, FiberInv, Pending

\* A step that changes nothing of a fiber's times and of what is pending keeps its account.
LEMMA TimeFrame ==
  ASSUME SchedInv, NEW f \in fibers,
         now' = now, ran'[f] = ran[f], missed'[f] = missed[f],
         Counted(f)' = Counted(f), starting_time'[f] = starting_time[f],
         Pending(f)' <=> Pending(f),
         f \in disturbed => f \in disturbed',
         \A c \in Cpu : (Executes(c, f) /\ owed[c] = "none" /\ scheduled[c] = NULL)'
                          => Executes(c, f) /\ owed[c] = "none" /\ scheduled[c] = NULL
  PROVE  Account(f)'
BY DEF SchedInv, TimeInv, Account, Uncounted

\* The clock goes on, for the fibers that execute.
LEMMA TickStep ==
  ASSUME SchedInv, Tick, NEW f \in fibers
  PROVE  Account(f)'
<1> USE DEF SchedInv, SchedTypeOK
<1>1. /\ f \in Fiber /\ now' = now + 1 /\ now \in Int
      /\ UNCHANGED <<curr, owed, scheduled, hashed, active_fiber, starting_time, total_time, truncated>>
      /\ \A c \in Cpu : owed[c] = "none"
      /\ disturbed' = disturbed
  BY DEF Tick, cpuVars, times
<1>2. /\ ran'[f] = IF \E c \in Cpu : Executes(c, f) THEN ran[f] + 1 ELSE ran[f]
      /\ missed'[f] = IF \E c \in Cpu : Executes(c, f) /\ scheduled[c] = NULL
                      THEN missed[f] + 1 ELSE missed[f]
  BY <1>1 DEF Tick
<1>3. Pending(f)' <=> Pending(f)
  BY <1>1 DEF Pending, OnClock
<1>4. Pending(f) <=> \E c \in Cpu : Executes(c, f)
  BY <1>1 DEF Pending, OnClock, Executes
<1>5. Counted(f)' = Counted(f) /\ Counted(f) \in Int
  BY <1>1, CountedType DEF Counted
<1>6. \A c \in Cpu : Executes(c, f)' <=> Executes(c, f)
  BY <1>1 DEF Executes
<1>7. ran[f] \in Int /\ missed[f] \in Int /\ starting_time[f] \in Int
  BY <1>1
<1>8. Account(f)
  BY DEF TimeInv
<1> QED
  BY <1>1, <1>2, <1>3, <1>4, <1>5, <1>6, <1>7, <1>8 DEF Account, Uncounted

\* A thread leaves its CPU and another one comes in.
LEMMA ContextSwitchStep ==
  ASSUME SchedInv, NEW c \in Cpu, NEW t \in Thread \cup {Idle}, ContextSwitch(c, t),
         NEW f \in fibers
  PROVE  Account(f)'
<1> USE DEF SchedInv, SchedTypeOK
<1>1. /\ f \in Fiber /\ owed[c] = "none" /\ t # curr[c]
      /\ curr' = [curr EXCEPT ![c] = t] /\ owed' = [owed EXCEPT ![c] = "old"]
      /\ UNCHANGED <<now, scheduled, hashed, active_fiber, starting_time, total_time, truncated, ran, missed>>
      /\ disturbed \subseteq disturbed'
  BY DEF ContextSwitch, times
<1>2. t \in Thread => \A d \in Cpu : curr[d] # t
  BY <1>1 DEF ContextSwitch, CanPick
<1>3. scheduled[c] \in {NULL, curr[c]}
  BY <1>1 DEF CpuInv
<1>4. Counted(f)' = Counted(f)
  BY <1>1 DEF Counted
<1>5. \A d \in Cpu : (Executes(d, f) /\ owed[d] = "none" /\ scheduled[d] = NULL)'
                       => Executes(d, f) /\ owed[d] = "none" /\ scheduled[d] = NULL
  BY <1>1 DEF Executes
<1>6. ASSUME NEW u \in Thread, u # curr[c] \/ scheduled[c] = curr[c] PROVE OnClock(u)' <=> OnClock(u)
  BY <1>1, <1>2, <1>3, <1>6, Names DEF OnClock
<1>7. CASE (Pending(f)' <=> Pending(f))
  BY <1>1, <1>4, <1>5, <1>7, TimeFrame
<1>8. CASE ~(Pending(f)' <=> Pending(f))
  <2>1. PICK x \in hashed : active_fiber[x] = f /\ ~(OnClock(x)' <=> OnClock(x))
    BY <1>1, <1>8 DEF Pending
  <2>2. x = curr[c] /\ scheduled[c] = NULL /\ x \in Thread
    BY <1>3, <1>6, <2>1
  <2>3. Executes(c, f) /\ OnClock(x)
    BY <1>1, <2>1, <2>2 DEF Executes, OnClock
  <2>4. Pending(f) /\ ~Pending(f)'
    BY <1>8, <2>1, <2>3 DEF Pending
  <2>5. Account(f) /\ Counted(f) \in Int /\ ran[f] \in Int /\ missed[f] \in Int
    BY <1>1, CountedType DEF TimeInv
  <2>6. starting_time[f] \in Int /\ now \in Int /\ starting_time[f] <= now
    <3>1. active_fiber[x] # NULL
      BY <1>1, <2>1, Names
    <3>2. starting_time[active_fiber[x]] <= now
      BY ONLY SchedInv, <2>2, <3>1, PendingOf
    <3> QED
      BY <1>1, <2>1, <3>2
  <2>7. Uncounted(f)' = ran[f] - Counted(f)
    BY <1>1, <1>4, <2>4, <2>5 DEF Uncounted
  <2>8. Uncounted(f)' >= 0
    BY <2>4, <2>5, <2>6, <2>7 DEF Account, Uncounted
  <2>9. f \notin disturbed' => ran[f] - Counted(f) <= missed[f]
    BY <1>1, <2>2, <2>3, <2>5 DEF Account
  <2> QED
    BY <1>1, <1>4, <2>7, <2>8, <2>9 DEF Account
<1> QED
  BY <1>7, <1>8

\* The first half of the probe counts the time of the fiber that left, if that is not stamped
\* already: then the CPU is the only one that owes it, and it does not execute.
LEMMA OldStep ==
  ASSUME SchedInv, NEW c \in Cpu, SwitchHandlerOld(c), NEW f \in fibers
  PROVE  Account(f)'
<1> USE DEF SchedInv, SchedTypeOK
<1> DEFINE x == scheduled[c]
<1>1. /\ f \in Fiber /\ owed[c] = "old" /\ owed' = [owed EXCEPT ![c] = "new"]
      /\ UNCHANGED <<now, curr, scheduled, hashed, active_fiber, ran, missed, disturbed>>
  BY DEF SwitchHandlerOld, ghosts
<1>2. x \in hashed /\ active_fiber[x] # NULL => x \in Thread /\ active_fiber[x] \in Fiber
  OBVIOUS
<1>3. starting_time' = starting_time
      /\ IF x \in hashed /\ active_fiber[x] # NULL THEN Charge(active_fiber[x])
         ELSE UNCHANGED <<total_time, truncated>>
  BY DEF SwitchHandlerOld, Leaving, times
<1>4. \A d \in Cpu : (Executes(d, f) /\ owed[d] = "none" /\ scheduled[d] = NULL)'
                       => Executes(d, f) /\ owed[d] = "none" /\ scheduled[d] = NULL
  BY <1>1 DEF Executes
<1>5. \A u \in Thread : u # x => (OnClock(u)' <=> OnClock(u))
  BY <1>1 DEF OnClock
<1>0. Account(f) /\ Counted(f) \in Int /\ ran[f] \in Int /\ missed[f] \in Int
      /\ now \in Int /\ starting_time[f] \in Int
  BY <1>1, CountedType DEF TimeInv
<1>6. CASE x \in hashed /\ active_fiber[x] = f
  <2>0. f # NULL /\ x \in Thread
    BY <1>1, <1>6, Names
  <2>1. Counted(f)' = Counted(f) + (now - starting_time[f])
    BY <1>1, <1>3, <1>6, <2>0, ChargeCounts
  <2>2. \A u \in hashed : active_fiber[u] = f => u = x
    BY <1>1, <1>6, Names DEF FiberInv
  <2>3. OnClock(x) /\ Owes(c, x)
    BY <1>1, <1>6 DEF OnClock, Owes
  <2>4. Pending(f)
    BY <1>1, <1>6, <2>3 DEF Pending
  <2>5. CASE starting_time[f] = now
    <3>1. Counted(f)' = Counted(f)
      BY <1>0, <2>1, <2>5
    <3>2. Uncounted(f)' = Uncounted(f)
      BY <1>0, <1>1, <1>3, <2>4, <2>5, <3>1 DEF Uncounted
    <3> QED
      BY <1>0, <1>1, <1>4, <3>1, <3>2 DEF Account
  <2>6. CASE starting_time[f] # now
    <3>1. Overdue(x)
      BY <1>6, <2>0, <2>6 DEF Overdue
    <3>2. ~OnCpu(x) /\ \A d \in Cpu : Owes(d, x) => d = c
      BY <2>0, <2>3, <3>1 DEF OwedInv
    <3>3. ~OnClock(x)'
      BY <1>1, <3>2 DEF OnClock, OnCpu, Owes
    <3>4. ~Pending(f)'
      BY <1>1, <2>2, <3>3 DEF Pending
    <3>5. \A d \in Cpu : ~(Executes(d, f) /\ owed[d] = "none")'
      BY <1>1, <2>2, <3>3 DEF Executes, OnClock
    <3>6. Uncounted(f)' = Uncounted(f)
      BY <1>0, <1>1, <1>3, <2>1, <2>4, <3>4 DEF Uncounted
    <3> QED
      BY <1>0, <1>1, <3>5, <3>6 DEF Account
  <2> QED
    BY <2>5, <2>6
<1>7. CASE ~(x \in hashed /\ active_fiber[x] = f)
  <2>1. Counted(f)' = Counted(f)
    BY <1>1, <1>2, <1>3, <1>7, ChargeCounts DEF Counted
  <2>2. Pending(f)' <=> Pending(f)
    BY <1>1, <1>5, <1>7 DEF Pending
  <2> QED
    BY <1>1, <1>3, <1>4, <2>1, <2>2, TimeFrame
<1> QED
  BY <1>6, <1>7

\* The second half stamps the fiber that comes in.
LEMMA NewStep ==
  ASSUME SchedInv, NEW c \in Cpu, SwitchHandlerNew(c), NEW f \in fibers
  PROVE  Account(f)'
<1> USE DEF SchedInv, SchedTypeOK
<1> DEFINE x == curr[c]
<1>1. /\ f \in Fiber /\ owed[c] = "new" /\ owed' = [owed EXCEPT ![c] = "none"]
      /\ scheduled' = [scheduled EXCEPT ![c] = x]
      /\ UNCHANGED <<now, curr, hashed, active_fiber, ran, missed, disturbed>>
  BY DEF SwitchHandlerNew, ghosts
<1>2. x \in hashed /\ active_fiber[x] # NULL => x \in Thread /\ active_fiber[x] \in Fiber
  OBVIOUS
<1>3. /\ UNCHANGED <<total_time, truncated>>
      /\ IF x \in hashed /\ active_fiber[x] # NULL
         THEN starting_time' = [starting_time EXCEPT ![active_fiber[x]] = now]
         ELSE UNCHANGED starting_time
  BY DEF SwitchHandlerNew, Restamp, times
<1>4. Counted(f)' = Counted(f)
  BY <1>3 DEF Counted
<1>5. \A u \in Thread : u # x => (OnClock(u)' <=> OnClock(u))
  BY <1>1 DEF OnClock
<1>6. \A d \in Cpu : (Executes(d, f) /\ owed[d] = "none" /\ scheduled[d] = NULL)'
                       => Executes(d, f) /\ owed[d] = "none" /\ scheduled[d] = NULL
  BY <1>1, Names DEF Executes
<1>7. CASE x \in hashed /\ active_fiber[x] = f
  <2>1. \A u \in hashed : active_fiber[u] = f => u = x
    BY <1>1, <1>7, Names DEF FiberInv
  <2>2. f # NULL /\ x \in Thread /\ starting_time[f] <= now
    BY <1>1, <1>7, PendingOf, Names
  <2>3. starting_time'[f] = now
    BY <1>1, <1>3, <1>7, <2>2
  <2>4. Account(f) /\ ran[f] \in Int /\ missed[f] \in Int /\ now \in Int /\ Counted(f) \in Int
        /\ starting_time[f] \in Int
    BY <1>1, CountedType DEF TimeInv
  <2>5. Uncounted(f)' = ran[f] - Counted(f)
    BY <1>1, <1>4, <2>3, <2>4 DEF Uncounted
  <2>6. ~OnCpu(x)
    BY <1>1, <2>2, OneCpu
  <2>7. CASE Pending(f) /\ starting_time[f] # now
    <3>1. PICK d \in Cpu : Owes(d, x)
      BY <1>7, <2>1, <2>2, <2>6, <2>7, ClockOf DEF Pending
    <3>2. Overdue(x)
      BY <1>7, <2>2, <2>7 DEF Overdue
    <3>3. f \in disturbed
      BY <1>1, <1>7, <2>2, <3>1, <3>2 DEF OwedInv
    <3> QED
      BY <1>1, <2>2, <2>4, <2>5, <2>7, <3>3 DEF Account, Uncounted
  <2>8. CASE ~Pending(f) \/ starting_time[f] = now
    <3>1. Uncounted(f) = ran[f] - Counted(f)
      BY <2>4, <2>8 DEF Uncounted
    <3> QED
      BY <1>1, <1>4, <1>6, <2>4, <2>5, <3>1 DEF Account
  <2> QED
    BY <2>7, <2>8
<1>8. CASE ~(x \in hashed /\ active_fiber[x] = f)
  <2>1. starting_time'[f] = starting_time[f]
    BY <1>1, <1>2, <1>3, <1>8
  <2>2. Pending(f)' <=> Pending(f)
    BY <1>1, <1>5, <1>8 DEF Pending
  <2> QED
    BY <1>1, <1>4, <1>6, <2>1, <2>2, TimeFrame
<1> QED
  BY <1>7, <1>8

\* CONVERTTOFIBER and CREATEFIBER begin an account.
LEMMA FreshStep ==
  ASSUME SchedInv, NEW t \in Thread, NEW g \in Fiber, ConvertFiber(t, g) \/ CreateFiber(t, g),
         NEW f \in fibers'
  PROVE  Account(f)'
<1> USE DEF SchedInv, SchedTypeOK
<1>1. /\ g \notin fibers /\ f \in fibers \cup {g}
      /\ UNCHANGED <<now, curr, owed, scheduled, hashed>>
      /\ active_fiber' = active_fiber
           \/ (active_fiber[t] = NULL /\ active_fiber' = [active_fiber EXCEPT ![t] = g])
  BY DEF ConvertFiber, CreateFiber, NewFiber, cpuVars, FiberInv
<1>2. \E stamp \in {0, now} : Fresh(g, stamp) /\ (active_fiber' # active_fiber => stamp = now)
  BY DEF ConvertFiber, CreateFiber, NewFiber
<1>3. \A u \in Thread : active_fiber[u] # g
  BY <1>1, Names DEF FiberInv
<1>4. CASE f = g
  <2>1. ran'[g] = 0 /\ missed'[g] = 0 /\ total_time'[g] = 0 /\ truncated'[g] = 0
    BY <1>2 DEF Fresh
  <2>2. Counted(g)' = 0
    BY <2>1, SchedAssumption DEF Counted
  <2>3. Pending(g)' => starting_time'[g] = now
    BY <1>1, <1>2, <1>3 DEF Pending, Fresh
  <2> QED
    BY <1>1, <1>4, <2>1, <2>2, <2>3 DEF Account, Uncounted
<1>5. CASE f # g
  <2>1. /\ ran'[f] = ran[f] /\ missed'[f] = missed[f] /\ starting_time'[f] = starting_time[f]
        /\ total_time'[f] = total_time[f] /\ truncated'[f] = truncated[f] /\ f \in fibers
        /\ f \in disturbed => f \in disturbed'
    BY <1>1, <1>2, <1>5 DEF Fresh
  <2>2. \A u \in Thread : active_fiber'[u] = f <=> active_fiber[u] = f
    BY <1>1, <1>5, <2>1, Names
  <2>3. Pending(f)' <=> Pending(f)
    BY <1>1, <2>2 DEF Pending, OnClock
  <2>4. \A c \in Cpu : Executes(c, f)' <=> Executes(c, f)
    BY <1>1, <2>2 DEF Executes
  <2>5. Counted(f)' = Counted(f)
    BY <2>1 DEF Counted
  <2> QED
    BY <1>1, <2>1, <2>3, <2>4, <2>5, TimeFrame
<1> QED
  BY <1>4, <1>5

\* SWITCHTOFIBER counts the time of the fiber it leaves and stamps the one it goes to.
LEMMA SwitchStep ==
  ASSUME SchedInv, NEW t \in Thread, NEW g \in Fiber, SwitchToFiber(t, g), NEW f \in fibers
  PROVE  Account(f)'
<1> USE DEF SchedInv, SchedTypeOK
<1>0. PICK old \in Fiber : old = active_fiber[t]
  BY CallerHasFiber DEF SwitchToFiber
<1>1. /\ f \in Fiber /\ OnCpu(t) /\ t \in hashed /\ g \in fibers \ running
      /\ active_fiber' = [active_fiber EXCEPT ![t] = g]
      /\ starting_time' = [starting_time EXCEPT ![g] = now]
      /\ UNCHANGED <<now, curr, owed, scheduled, hashed, ran, missed, disturbed>>
  BY DEF SwitchToFiber, cpuVars, ghosts
<1>2. starting_time[old] \in 1..now /\ old \in running
  BY <1>0, Names DEF FiberInv
<1>3. Charge(old)
  BY <1>0, <1>2 DEF SwitchToFiber
<1>4. (\A u \in Thread : active_fiber[u] # g) /\ old # g
  BY <1>1, <1>2, Names DEF FiberInv
<1>5. \A u \in Thread : u # t => active_fiber[u] # old
  BY <1>0, Names DEF FiberInv
<1>6. /\ Account(f) /\ ran[f] \in Int /\ missed[f] \in Int /\ now \in Int
      /\ Counted(f) \in Int /\ starting_time[f] \in Int
  BY <1>1, CountedType DEF TimeInv
<1>7. OnClock(t)
  BY <1>1 DEF OnClock, OnCpu
<1>8. CASE f = old
  <2>1. Counted(f)' = Counted(f) + (now - starting_time[f]) /\ starting_time'[f] = starting_time[f]
    BY <1>1, <1>3, <1>4, <1>8, ChargeCounts
  <2>2. Pending(f) /\ ~Pending(f)'
    BY <1>0, <1>1, <1>4, <1>5, <1>7, <1>8 DEF Pending
  <2>3. \A c \in Cpu : ~Executes(c, f)'
    BY <1>0, <1>1, <1>4, <1>5, <1>8 DEF Executes
  <2> QED
    BY <1>1, <1>6, <2>1, <2>2, <2>3 DEF Account, Uncounted
<1>9. CASE f = g
  <2>1. Counted(f)' = Counted(f) /\ starting_time'[f] = now
    BY <1>1, <1>3, <1>4, <1>9, ChargeCounts
  <2>2. ~Pending(f)
    BY <1>4, <1>9 DEF Pending
  <2> QED
    BY <1>1, <1>6, <2>1, <2>2 DEF Account, Uncounted
<1>10. CASE f # old /\ f # g
  <2>1. Counted(f)' = Counted(f) /\ starting_time'[f] = starting_time[f]
    BY <1>1, <1>3, <1>10, ChargeCounts
  <2>2. \A u \in Thread : active_fiber'[u] = f <=> active_fiber[u] = f
    BY <1>0, <1>1, <1>10
  <2>3. Pending(f)' <=> Pending(f)
    BY <1>1, <2>2 DEF Pending, OnClock
  <2>4. \A c \in Cpu : Executes(c, f)' <=> Executes(c, f)
    BY <1>1, <2>2 DEF Executes
  <2> QED
    BY <1>1, <2>1, <2>3, <2>4, TimeFrame
<1> QED
  BY <1>8, <1>9, <1>10

\* The probe of do_exit ends an account and leaves the others alone.
LEMMA ExitStep ==
  ASSUME SchedInv, NEW t \in Thread, Exit(t), NEW f \in fibers'
  PROVE  Account(f)'
<1> USE DEF SchedInv, SchedTypeOK
<1>1. /\ f \in fibers /\ f \in Fiber /\ f # active_fiber[t]
      /\ hashed' = hashed \ {t} /\ active_fiber' = [active_fiber EXCEPT ![t] = NULL]
      /\ UNCHANGED <<now, curr, owed, scheduled>>
  BY DEF Exit, cpuVars
<1>2. /\ ran'[f] = ran[f] /\ missed'[f] = missed[f] /\ starting_time'[f] = starting_time[f]
      /\ total_time'[f] = total_time[f] /\ truncated'[f] = truncated[f]
      /\ f \in disturbed => f \in disturbed'
  BY <1>1, CallerHasFiber DEF Exit, Fresh, times, ghosts
<1>3. \A u \in Thread : u \in hashed' /\ active_fiber'[u] = f <=> u \in hashed /\ active_fiber[u] = f
  BY <1>1, Names
<1>4. Pending(f)' <=> Pending(f)
  BY <1>1, <1>3 DEF Pending, OnClock
<1>5. \A c \in Cpu : Executes(c, f)' <=> Executes(c, f)
  BY <1>1, <1>3, Names DEF Executes
<1>6. Counted(f)' = Counted(f)
  BY <1>2 DEF Counted
<1> QED
  BY <1>1, <1>2, <1>4, <1>5, <1>6, TimeFrame

\* Every step keeps the account of every fiber.
LEMMA TimeStep ==
  ASSUME SchedInv, [Next]_vars
  PROVE  TimeInv'
<1> USE DEF TimeInv
<1>1. ASSUME UNCHANGED <<now, cpuVars, active_fiber, fibers, times, ghosts>>,
             hashed' = hashed \/ \E t \in Thread : active_fiber[t] = NULL /\ hashed' = hashed \cup {t}
      PROVE  TimeInv'
  <2> SUFFICES ASSUME NEW f \in fibers PROVE Account(f)'
    BY <1>1
  <2>1. f \in Fiber /\ hashed \subseteq Thread /\ hashed' \subseteq Thread
    BY <1>1 DEF SchedInv, SchedTypeOK
  <2>2. \A u \in hashed' : active_fiber[u] = f => u \in hashed
    BY <1>1, <2>1, Names
  <2>3. hashed \subseteq hashed'
    BY <1>1
  <2>4. Pending(f)' <=> Pending(f)
    BY <1>1, <2>2, <2>3 DEF Pending, OnClock, cpuVars
  <2>5. \A c \in Cpu : Executes(c, f)' <=> Executes(c, f)
    BY <1>1, <2>2, <2>3 DEF Executes, cpuVars
  <2>6. Counted(f)' = Counted(f)
    BY <1>1 DEF Counted, times
  <2> QED
    BY <1>1, <2>4, <2>5, <2>6, TimeFrame DEF cpuVars, times, ghosts
<1>2. ASSUME NEW t \in Thread, ConvertAlloc(t) \/ ConvertThread(t) PROVE TimeInv'
  BY <1>1, <1>2 DEF ConvertAlloc, ConvertThread, SchedInv, FiberInv
<1>3. CASE Tick
  BY <1>3, TickStep DEF Tick
<1>4. ASSUME NEW c \in Cpu, NEW t \in Thread \cup {Idle}, ContextSwitch(c, t) PROVE TimeInv'
  BY <1>4, ContextSwitchStep DEF ContextSwitch
<1>5. ASSUME NEW c \in Cpu, SwitchHandlerOld(c) PROVE TimeInv'
  BY <1>5, OldStep DEF SwitchHandlerOld
<1>6. ASSUME NEW c \in Cpu, SwitchHandlerNew(c) PROVE TimeInv'
  BY <1>6, NewStep DEF SwitchHandlerNew
<1>7. ASSUME NEW t \in Thread, NEW f \in Fiber, ConvertFiber(t, f) \/ CreateFiber(t, f)
      PROVE  TimeInv'
  BY <1>7, FreshStep
<1>8. ASSUME NEW t \in Thread, NEW f \in Fiber, SwitchToFiber(t, f) PROVE TimeInv'
  BY <1>8, SwitchStep DEF SwitchToFiber
<1>9. ASSUME NEW t \in Thread, Exit(t) PROVE TimeInv'
  BY <1>9, ExitStep
<1>10. CASE UNCHANGED vars
  BY <1>1, <1>10 DEF vars
<1> QED
  BY <1>2, <1>3, <1>4, <1>5, <1>6, <1>7, <1>8, <1>9, <1>10, StepCases

-----------------------------------------------------------------------------
\* The module is loaded with no thread converted.
LEMMA InitInv == Init => SchedInv
<1> SUFFICES ASSUME Init PROVE SchedInv
  OBVIOUS
<1>1. SchedTypeOK
  BY DEF Init, SchedTypeOK
<1>2. CpuInv /\ FiberInv
  BY Names DEF Init, CpuInv, FiberInv
<1>3. TimeInv /\ FaultsNamed /\ OwedInv
  BY DEF Init, TimeInv, FaultsNamed, OwedInv, Owes
<1> QED
  BY <1>1, <1>2, <1>3 DEF SchedInv

\* The inductive invariant holds for any number of CPUs, threads and fibers.
THEOREM SchedInvariant == Spec => []SchedInv
<1>1. SchedInv /\ [Next]_vars => SchedInv'
  BY TypeStep, CpuStep, FiberStep, OwedStep, TimeStep, FaultStep DEF SchedInv
<1> QED
  BY <1>1, InitInv, PTL DEF Spec

\* switch_handler follows the NULL active_fiber of a thread that is being converted only
\* when the thread was switched out between its hash_add and its fiber, or was picked by a
\* CPU before the one it left had run the probe.
THEOREM ProbeFaultsNamed == Spec => []FaultsNamed
<1>1. SchedInv => FaultsNamed
  BY DEF SchedInv
<1> QED
  BY <1>1, SchedInvariant, PTL

\* The execution time shown in /proc is never more than that of the fiber; all that is not in
\* it was cut off by a division, or passed on a CPU that had not run switch_handler yet, or
\* the fiber's thread was picked by a CPU before the one it left had charged it.
THEOREM TimeAlwaysAccounted == Spec => []TimeAccounted
<1>1. SchedInv => TimeAccounted
  <2> SUFFICES ASSUME SchedInv, \A c \in Cpu : owed[c] = "none", NEW f \in fibers,
                      NEW u, u = ran[f] - (PerMicro * total_time[f] + truncated[f] + Open(f))
               PROVE  u >= 0 /\ (f \notin disturbed => u <= missed[f])
    BY DEF TimeAccounted
  <2>1. Account(f) /\ f \in Fiber
    BY DEF SchedInv, SchedTypeOK, TimeInv
  <2>2. Pending(f) <=> \E c \in Cpu : Executes(c, f) /\ owed[c] = "none"
    BY DEF Pending, OnClock, Executes
  <2>3. Open(f) = IF Pending(f) THEN now - starting_time[f] ELSE 0
    BY <2>2 DEF Open
  <2>4. ran[f] \in Int /\ Counted(f) \in Int /\ Open(f) \in Int
    BY <2>1, <2>3, CountedType DEF SchedInv, SchedTypeOK
  <2>5. PerMicro * total_time[f] + truncated[f] + Open(f) = Counted(f) + Open(f)
    BY DEF Counted
  <2>6. u = Uncounted(f)
    BY <2>3, <2>4, <2>5 DEF Uncounted
  <2> QED
    BY <2>1, <2>6 DEF Account
<1> QED
  BY <1>1, SchedInvariant, PTL
=============================================================================
