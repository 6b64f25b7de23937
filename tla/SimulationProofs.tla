-------------------------- MODULE SimulationProofs --------------------------
(***************************************************************************)
(* Proofs about the simulation program, for any number of threads, fibers  *)
(* and events, any nesting of the handler, with or without the heap's      *)
(* lock.                                                                   *)
(***************************************************************************)
EXTENDS Simulation, FiniteSetTheorems, TLAPS

Ended == {"spin", "done"}

\* Fibers that main_loop has not ended for.
Remaining == {f \in Fibers : pc[f] \notin Ended}

SimTypeOK ==
    /\ work \in [Contexts -> Int] /\ depth \in [Contexts -> Nat]
    /\ runs \in [Threads -> Contexts] /\ calling \subseteq Contexts
    /\ pc \in [Contexts -> Before \cup {"none", "create", "alarm", "complete", "wait", "pick",
                                        "start", "refused", "loop", "event", "spin", "done"}]
    /\ completed_fibers \in Int /\ raced \in BOOLEAN
    /\ process \in Threads \cup {0} /\ proc \in [Threads -> Threads \cup {0}]

\* Where the main thread's fiber, the other fibers and the worker threads can be.
PlaceInv ==
    /\ pc[1] \in {"create_threads", "create", "alarm", "complete", "start", "loop", "event", "spin"}
                \cup Library
    /\ \A f \in Fibers \ {1} : pc[f] \in {"none", "start", "refused", "loop", "event", "done"}
    /\ \A c \in Contexts \ Fibers : pc[c] \in {"thread", "wait", "pick"} \cup Library
    /\ pc[1] = "create_threads" => /\ \A f \in Fibers \ {1} : pc[f] = "none"
                                   /\ \A c \in Contexts \ Fibers : pc[c] = "thread"

\* The counter is the number of fibers that remain.
CountInv ==
    /\ pc[1] # "create_threads" => completed_fibers = Cardinality(Remaining)
    /\ \A f \in Fibers : pc[f] \in Ended => work[f] = 0
    /\ ended = "success" => Remaining = {}

\* The device is open before it is used, whoever opens it.
OpenInv ==
    /\ done => fd
    /\ \A t \in Threads : pc[Own(t)] \in {"opened", "ioctl"} => fd

\* From signal_alarm on the alarm is not lost; a call that is to switch is on the stack.
AlarmInv ==
    /\ \A c \in calling : depth[c] > 0
    /\ pc[1] = "complete" \/ init_complete =>
         armed \/ pending \/ \E t \in Threads : runs[t] \in calling

\* Labels before the search of a conversion.
Early == {"create_threads", "thread", "convert", "open", "opened", "ioctl"}

\* Without a race the first conversion is alone until the tables are ready, and the others
\* work on its process_arg_t.
RaceInv ==
    ~raced =>
      /\ process = 0 => \A t \in Threads : pc[Own(t)] \in Early \cup {"process"}
      /\ \A t \in Threads :
           /\ pc[Own(t)] \in Creating => \A u \in Threads \ {t} : pc[Own(u)] \in Early
           /\ pc[Own(t)] = "process" => process = 0
           /\ pc[Own(t)] \in {"threads", "fibers", "register"} => proc[t] = process
           /\ pc[Own(t)] \notin Before => t \in known

\* The threads that the module knows, and those that have switched, have returned.
ReturnedInv ==
    \A t \in Threads : t \in known \/ runs[t] # Own(t) => pc[Own(t)] \notin Before

SimInv == /\ SimTypeOK /\ PlaceInv /\ CountInv /\ OpenInv /\ RaceInv /\ ReturnedInv
          /\ FailsOnlyAfterRace /\ AlarmInv

-----------------------------------------------------------------------------
\* Names of contexts: a worker thread's own context is not one of the fibers.
LEMMA Names ==
  /\ 1 \in Threads /\ 1 \in Fibers /\ Own(1) = 1 /\ Fibers \subseteq Contexts
  /\ \A t \in Threads : Own(t) \in Contexts /\ (t # 1 => Own(t) \notin Fibers /\ Own(t) # 1)
  /\ \A t, u \in Threads : Own(t) = Own(u) => t = u
  /\ \A c \in Contexts \ Fibers : \E t \in Threads \ {1} : c = Own(t)
BY SimulationAssumption DEF Threads, Fibers, Own, Contexts

\* The steps outside of the contexts' own code: switching and signals.
Outside ==
    \/ AlarmExpires
    \/ \E t \in Threads : Deliver(t) \/ HandlerReturn(t, runs[t])
    \/ \E t \in Threads, f \in Fibers :
         \/ PickFirst(t, f)
         \/ \E c \in Contexts : ScheduleDone(t, c, f) \/ ScheduleHandler(t, c, f)

\* A step of the specification is one of its actions, or changes nothing.
LEMMA StepCases ==
  ASSUME [Next]_vars
  PROVE  \/ UNCHANGED vars
         \/ Outside
         \/ \E t \in Threads :
              \/ create_threads(t) \/ TestDone(t) \/ init_file(t) \/ FibersCreated(t)
              \/ signal_alarm(t) \/ InitComplete(t) \/ Exit(t) \/ Waited(t)
              \/ ConvertSearch(t) \/ ConvertNewProcess(t) \/ ConvertInit(t) \/ ConvertRegister(t)
         \/ \E t \in Threads, f \in Fibers \ {1} : CreateFiber(t, f)
         \/ \E t \in Threads, c \in Contexts :
              Malloc(t, c) \/ EventDone(t, c) \/ FiberDone(t, c) \/ NoSlot(t, c) \/ NoQueue(t, c)
BY DEF Next, Step, Switch, Gone, Outside

\* Switching and signals leave the program's own variables alone.
LEMMA OutsideFrame ==
  ASSUME Outside
  PROVE  UNCHANGED ctxVars /\ ended = "no"
BY DEF Outside, AlarmExpires, Deliver, HandlerReturn, PickFirst, ScheduleDone, ScheduleHandler, At

\* Every step keeps each variable within its type.
LEMMA TypeStep ==
  ASSUME SimInv, [Next]_vars
  PROVE  SimTypeOK'
<1> USE Names
<1> USE DEF SimInv, SimTypeOK, Before, Library
<1>1. CASE UNCHANGED vars
  BY <1>1 DEF vars, modVars
<1>2. CASE Outside
  <2>1. UNCHANGED <<work, pc, completed_fibers, raced, process, proc>>
    BY <1>2, OutsideFrame DEF ctxVars, modVars
  <2>2. runs' \in [Threads -> Contexts]
    BY <1>2 DEF Outside, AlarmExpires, Deliver, HandlerReturn, PickFirst, ScheduleDone,
                ScheduleHandler, SwitchToFiber
  <2>3. calling' \subseteq Contexts /\ depth' \in [Contexts -> Nat]
    BY <1>2 DEF Outside, AlarmExpires, Deliver, HandlerReturn, PickFirst, ScheduleDone,
                ScheduleHandler, sigVars
  <2> QED
    BY <2>1, <2>2, <2>3
<1>3. ASSUME NEW t \in Threads, create_threads(t) PROVE SimTypeOK'
  BY <1>3, SimulationAssumption DEF create_threads, sigVars, modVars
<1>4. ASSUME NEW t \in Threads, \/ TestDone(t) \/ init_file(t) \/ FibersCreated(t)
                                \/ signal_alarm(t) \/ InitComplete(t) \/ Exit(t) \/ Waited(t)
      PROVE  SimTypeOK'
  BY <1>4 DEF TestDone, init_file, FibersCreated, signal_alarm, InitComplete, Exit, Waited,
              Goto, sigVars, modVars
<1>5. ASSUME NEW t \in Threads, \/ ConvertSearch(t) \/ ConvertNewProcess(t)
                                \/ ConvertInit(t) \/ ConvertRegister(t)
      PROVE  SimTypeOK'
  <2>1. UNCHANGED <<work, completed_fibers, runs, calling, depth>>
    BY <1>5 DEF ConvertSearch, ConvertNewProcess, ConvertInit, ConvertRegister, sigVars
  <2>2. PICK l \in Before \cup {"create", "wait"} : pc' = [pc EXCEPT ![Own(t)] = l]
    BY <1>5 DEF ConvertSearch, ConvertNewProcess, ConvertInit, ConvertRegister, Goto, Found,
                Converted
  <2>3. process' \in Threads \cup {0} /\ proc' \in [Threads -> Threads \cup {0}]
    BY <1>5 DEF ConvertSearch, ConvertNewProcess, ConvertInit, ConvertRegister
  <2>4. raced' = raced \/ raced' = (raced \/ \E u \in Threads \ {t} : pc[Own(u)] \in Creating)
    BY ONLY <1>5 DEF ConvertSearch, ConvertNewProcess, ConvertInit, ConvertRegister
  <2>5. raced' \in BOOLEAN
    BY ONLY <2>4, SimInv, Zenon DEF SimInv, SimTypeOK
  <2> QED
    BY <2>1, <2>2, <2>3, <2>5
<1>6. ASSUME NEW t \in Threads, NEW f \in Fibers \ {1}, CreateFiber(t, f) PROVE SimTypeOK'
  BY <1>6 DEF CreateFiber, Goto, sigVars
<1>7. ASSUME NEW t \in Threads, NEW c \in Contexts,
             Malloc(t, c) \/ EventDone(t, c) \/ FiberDone(t, c) \/ NoSlot(t, c) \/ NoQueue(t, c)
      PROVE  SimTypeOK'
  BY <1>7 DEF Malloc, EventDone, FiberDone, NoSlot, NoQueue, Goto, sigVars, modVars
<1> QED
  BY <1>1, <1>2, <1>3, <1>4, <1>5, <1>6, <1>7, StepCases

\* Contexts follow main, main_loop and thread_initialization.
LEMMA PlaceStep ==
  ASSUME SimInv, [Next]_vars
  PROVE  PlaceInv'
<1> USE Names
<1> USE DEF SimInv, SimTypeOK, PlaceInv, Library
<1>1. CASE UNCHANGED pc
  BY <1>1
<1>2. ASSUME NEW t \in Threads, create_threads(t) PROVE PlaceInv'
  BY <1>2 DEF create_threads, At
<1>3. ASSUME NEW t \in Threads, TestDone(t) \/ init_file(t) \/ Waited(t) PROVE PlaceInv'
  BY <1>3 DEF TestDone, init_file, Waited, Goto, At
<1>4. ASSUME NEW t \in Threads, \/ ConvertSearch(t) \/ ConvertNewProcess(t)
                                \/ ConvertInit(t) \/ ConvertRegister(t)
      PROVE  PlaceInv'
  <2>1. PICK l \in {"process", "threads", "fibers", "register", Converted(t)} :
          pc[Own(t)] \in Library /\ pc' = [pc EXCEPT ![Own(t)] = l]
    BY <1>4 DEF ConvertSearch, ConvertNewProcess, ConvertInit, ConvertRegister, Goto, Found, At
  <2> QED
    BY <2>1 DEF Converted
<1>5. ASSUME NEW t \in Threads, FibersCreated(t) \/ signal_alarm(t) \/ InitComplete(t)
      PROVE  PlaceInv'
  BY <1>5 DEF FibersCreated, signal_alarm, InitComplete, Goto, At
<1>6. ASSUME NEW t \in Threads, NEW f \in Fibers \ {1}, CreateFiber(t, f) PROVE PlaceInv'
  BY <1>6 DEF CreateFiber, Goto, At
<1>7. ASSUME NEW t \in Threads, NEW c \in Contexts, Malloc(t, c) \/ EventDone(t, c) \/ FiberDone(t, c)
      PROVE  PlaceInv'
  BY <1>7 DEF Malloc, EventDone, FiberDone, Goto, At
<1>8. ASSUME NEW t \in Threads, NEW c \in Contexts, NoSlot(t, c) \/ NoQueue(t, c) PROVE UNCHANGED pc
  BY <1>8 DEF NoSlot, NoQueue
<1> QED
  BY <1>1, <1>2, <1>3, <1>4, <1>5, <1>6, <1>7, <1>8, StepCases, OutsideFrame DEF Exit, vars, ctxVars

\* The fibers can be counted, and one that ends is one less.
LEMMA RemainingCount ==
  /\ IsFiniteSet(Fibers) /\ Cardinality(Fibers) = NumFibers
  /\ \A S \in SUBSET Fibers :
       /\ IsFiniteSet(S)
       /\ Cardinality(S) = 0 <=> S = {}
       /\ \A f \in S : Cardinality(S \ {f}) = Cardinality(S) - 1
<1>1. IsFiniteSet(Fibers) /\ Cardinality(Fibers) = NumFibers
  BY FS_Interval, SimulationAssumption DEF Fibers
<1>2. ASSUME NEW S \in SUBSET Fibers PROVE IsFiniteSet(S)
  BY <1>1, FS_Subset
<1>3. ASSUME NEW S \in SUBSET Fibers PROVE Cardinality(S) = 0 <=> S = {}
  BY <1>2, FS_EmptySet
<1>4. ASSUME NEW S \in SUBSET Fibers, NEW f \in S PROVE Cardinality(S \ {f}) = Cardinality(S) - 1
  BY <1>2, FS_RemoveElement
<1> QED
  BY <1>1, <1>2, <1>3, <1>4

\* The counter follows the fibers, by whichever thread they are ended.
LEMMA CountStep ==
  ASSUME SimInv, [Next]_vars
  PROVE  CountInv'
<1> USE Names
<1> USE DEF SimInv, SimTypeOK, CountInv, Ended
<1>1. ASSUME UNCHANGED <<work, completed_fibers>>, ended' = "success" => ended = "success",
             \A f \in Fibers : pc'[f] \in Ended <=> pc[f] \in Ended,
             pc[1] = "create_threads" => pc'[1] = "create_threads"
      PROVE  CountInv'
  <2>1. Remaining' = Remaining
    BY <1>1 DEF Remaining
  <2> QED
    BY <1>1, <2>1
<1>2. CASE UNCHANGED vars \/ Outside
  BY <1>1, <1>2, OutsideFrame DEF vars, ctxVars
<1>3. ASSUME NEW t \in Threads, create_threads(t) PROVE CountInv'
  <2>1. ended' = "no" /\ completed_fibers' = NumFibers /\ work' = work
    BY <1>3 DEF create_threads, At
  <2>2. \A f \in Fibers : pc'[f] \notin Ended
    BY <1>3 DEF create_threads, At, PlaceInv
  <2>3. Remaining' = Fibers
    BY <2>2 DEF Remaining
  <2> QED
    BY <2>1, <2>2, <2>3, RemainingCount
<1>4. ASSUME NEW t \in Threads,
             \/ TestDone(t) \/ init_file(t) \/ FibersCreated(t) \/ signal_alarm(t)
             \/ InitComplete(t) \/ Waited(t) \/ ConvertSearch(t) \/ ConvertNewProcess(t)
             \/ ConvertInit(t) \/ ConvertRegister(t)
      PROVE  CountInv'
  <2>1. PICK c \in Contexts,
             l \in Library \cup {"create", "alarm", "complete", "start", "wait", "pick"} :
          pc' = [pc EXCEPT ![c] = l] /\ pc[c] \notin Ended /\ pc[c] # "create_threads"
    BY <1>4 DEF TestDone, init_file, FibersCreated, signal_alarm, InitComplete, Waited,
                ConvertSearch, ConvertNewProcess, ConvertInit, ConvertRegister, Found, Converted,
                Goto, At, Library
  <2>2. UNCHANGED <<work, completed_fibers, ended>>
    BY <1>4 DEF TestDone, init_file, FibersCreated, signal_alarm, InitComplete, Waited,
                ConvertSearch, ConvertNewProcess, ConvertInit, ConvertRegister
  <2> QED
    BY <1>1, <2>1, <2>2 DEF Library
<1>5. ASSUME NEW t \in Threads, NEW f \in Fibers \ {1}, CreateFiber(t, f) PROVE CountInv'
  BY <1>1, <1>5 DEF CreateFiber, Goto, At
<1>10. ASSUME NEW t \in Threads, NEW c \in Contexts, NoSlot(t, c) \/ NoQueue(t, c) PROVE CountInv'
  BY <1>1, <1>10 DEF NoSlot, NoQueue
<1>6. ASSUME NEW t \in Threads, NEW c \in Contexts, Malloc(t, c) PROVE CountInv'
  BY <1>1, <1>6 DEF Malloc, Goto, At
<1>7. ASSUME NEW t \in Threads, NEW c \in Contexts, EventDone(t, c) PROVE CountInv'
  <2>1. /\ pc[c] = "event" /\ pc' = [pc EXCEPT ![c] = "loop"] /\ UNCHANGED <<completed_fibers, ended>>
        /\ work' = [work EXCEPT ![c] = @ - 1]
    BY <1>7 DEF EventDone, Goto, At
  <2>2. Remaining' = Remaining
    BY <2>1 DEF Remaining
  <2> QED
    BY <2>1, <2>2
<1>8. ASSUME NEW t \in Threads, NEW c \in Contexts, FiberDone(t, c) PROVE CountInv'
  <2>1. /\ pc[c] = "loop" /\ work[c] = 0 /\ work' = work /\ ended' = "no"
        /\ completed_fibers' = completed_fibers - 1
        /\ pc' = [pc EXCEPT ![c] = IF c = 1 THEN "spin" ELSE "done"]
    BY <1>8 DEF FiberDone, Goto, At
  <2>2. c \in Fibers
    BY <2>1 DEF PlaceInv, Library
  <2>3. pc[1] # "create_threads"
    BY <2>1, <2>2 DEF PlaceInv
  <2>4. c \in Remaining /\ Remaining' = Remaining \ {c} /\ Remaining \in SUBSET Fibers
    BY <2>1, <2>2 DEF Remaining
  <2>5. completed_fibers' = Cardinality(Remaining')
    BY <2>1, <2>3, <2>4, RemainingCount
  <2> QED
    BY <2>1, <2>2, <2>5
<1>9. ASSUME NEW t \in Threads, Exit(t) PROVE CountInv'
  <2>1. pc[1] = "spin" /\ completed_fibers = 0 /\ UNCHANGED <<pc, work, completed_fibers>>
    BY <1>9 DEF Exit, At, AllDone
  <2>2. Remaining' = Remaining /\ Remaining \in SUBSET Fibers
    BY <2>1 DEF Remaining
  <2>3. Remaining = {}
    BY <2>1, <2>2, RemainingCount
  <2> QED
    BY <2>1, <2>2, <2>3
<1> QED
  BY <1>2, <1>3, <1>4, <1>5, <1>6, <1>7, <1>8, <1>9, <1>10, StepCases

\* No thread comes to its ioctl before the device is open.
LEMMA OpenStep ==
  ASSUME SimInv, [Next]_vars
  PROVE  OpenInv'
<1> USE Names
<1> USE DEF SimInv, SimTypeOK, OpenInv
<1>1. CASE UNCHANGED <<pc, fd, done>>
  BY <1>1
<1>2. ASSUME NEW t \in Threads, create_threads(t) PROVE OpenInv'
  BY <1>2 DEF create_threads, libVars
<1>3. ASSUME NEW t \in Threads, TestDone(t) \/ init_file(t) PROVE OpenInv'
  BY <1>3 DEF TestDone, init_file, Goto, At, libVars
<1>4. ASSUME UNCHANGED <<fd, done>>, NEW c \in Contexts, NEW l, l \notin {"opened", "ioctl"},
             pc' = [pc EXCEPT ![c] = l]
      PROVE  OpenInv'
  BY <1>4
<1>5. ASSUME NEW t \in Threads,
             \/ ConvertSearch(t) \/ ConvertNewProcess(t) \/ ConvertInit(t) \/ ConvertRegister(t)
             \/ FibersCreated(t) \/ signal_alarm(t) \/ InitComplete(t) \/ Waited(t)
      PROVE  OpenInv'
  BY <1>4, <1>5 DEF ConvertSearch, ConvertNewProcess, ConvertInit, ConvertRegister, FibersCreated,
     signal_alarm, InitComplete, Waited, Found, Converted, Goto, libVars
<1>6. ASSUME NEW t \in Threads, NEW f \in Fibers \ {1}, CreateFiber(t, f) PROVE OpenInv'
  BY <1>4, <1>6 DEF CreateFiber, Goto, libVars
<1>7. ASSUME NEW t \in Threads, NEW c \in Contexts, Malloc(t, c) \/ EventDone(t, c) \/ FiberDone(t, c)
      PROVE  OpenInv'
  BY <1>4, <1>7 DEF Malloc, EventDone, FiberDone, Goto, libVars
<1>8. ASSUME NEW t \in Threads, NEW c \in Contexts, NoSlot(t, c) \/ NoQueue(t, c) PROVE OpenInv'
  BY <1>1, <1>8 DEF NoSlot, NoQueue, libVars
<1> QED
  BY <1>1, <1>2, <1>3, <1>5, <1>6, <1>7, <1>8, StepCases, OutsideFrame DEF Exit, vars, ctxVars, libVars

\* Steps that take no thread into or out of a conversion.
LEMMA ConversionFrame ==
  ASSUME SimInv, UNCHANGED <<raced, process, proc, known>>, NEW c \in Contexts, NEW l,
         pc' = [pc EXCEPT ![c] = l], l \notin Before \/ (l \in Early /\ pc[c] \in Early),
         pc[c] \notin Before \/ (l \in Early /\ pc[c] \in Early) \/ c \in Fibers \ {1}
  PROVE  RaceInv'
BY Names DEF SimInv, SimTypeOK, RaceInv, Early, Before, Library, Creating

\* The first conversion is alone unless it has been overtaken.
LEMMA RaceStep ==
  ASSUME SimInv, [Next]_vars
  PROVE  RaceInv'
<1> USE Names
<1> USE DEF SimInv, SimTypeOK, RaceInv, Early, Before, Library, Creating
<1>1. CASE UNCHANGED <<pc, process, proc, known, raced>>
  BY <1>1
<1>2. ASSUME NEW t \in Threads, create_threads(t) PROVE RaceInv'
  BY <1>2 DEF create_threads, modVars, PlaceInv, At
<1>3. ASSUME NEW t \in Threads, TestDone(t) \/ init_file(t) PROVE RaceInv'
  BY ONLY <1>3, SimInv, Names, ConversionFrame DEF TestDone, init_file, Goto, At, modVars, Early
<1>4. ASSUME NEW t \in Threads, \/ FibersCreated(t) \/ signal_alarm(t) \/ InitComplete(t) \/ Waited(t)
      PROVE  RaceInv'
  BY ONLY <1>4, SimInv, Names, ConversionFrame
     DEF FibersCreated, signal_alarm, InitComplete, Waited, Goto, At, modVars, Before, Library
<1>5. ASSUME NEW t \in Threads, NEW f \in Fibers \ {1}, CreateFiber(t, f) PROVE RaceInv'
  BY ONLY <1>5, SimInv, Names, ConversionFrame DEF CreateFiber, Goto, Before, Library
<1>6. ASSUME NEW t \in Threads, NEW c \in Contexts, Malloc(t, c) \/ EventDone(t, c) \/ FiberDone(t, c)
      PROVE  RaceInv'
  BY ONLY <1>6, SimInv, Names, ConversionFrame
     DEF Malloc, EventDone, FiberDone, Goto, At, modVars, Before, Library
<1>7. ASSUME NEW t \in Threads, NEW c \in Contexts, NoSlot(t, c) \/ NoQueue(t, c) PROVE RaceInv'
  BY <1>1, <1>7 DEF NoSlot, NoQueue, modVars
<1>8. ASSUME NEW t \in Threads, ConvertSearch(t) PROVE RaceInv'
  <2>1. SUFFICES ASSUME ~raced' PROVE RaceInv'
    OBVIOUS
  <2>2. ~raced /\ \A u \in Threads \ {t} : pc[Own(u)] \notin Creating
    BY <1>8, <2>1 DEF ConvertSearch
  <2>3. fd /\ pc[Own(t)] = "ioctl" /\ UNCHANGED <<process, known>>
    BY <1>8 DEF ConvertSearch, At, OpenInv
  <2>4. pc' = [pc EXCEPT ![Own(t)] = Found] /\ proc' = [proc EXCEPT ![t] = process]
    BY <1>8, <2>3 DEF ConvertSearch, Goto
  <2>5. CASE process = 0
    BY <2>2, <2>3, <2>4, <2>5 DEF Found
  <2>6. CASE process # 0
    BY <2>2, <2>3, <2>4, <2>6 DEF Found
  <2> QED
    BY <2>5, <2>6
<1>9. ASSUME NEW t \in Threads, ConvertNewProcess(t) PROVE RaceInv'
  <2>1. t # 0
    BY SimulationAssumption DEF Threads
  <2> QED
    BY <1>9, <2>1 DEF ConvertNewProcess, Goto, At
<1>10. ASSUME NEW t \in Threads, ConvertInit(t) PROVE RaceInv'
  BY <1>10 DEF ConvertInit, Goto, At
<1>11. ASSUME NEW t \in Threads, ConvertRegister(t) PROVE RaceInv'
  BY <1>11 DEF ConvertRegister, Goto, At, Converted
<1> QED
  BY <1>1, <1>2, <1>3, <1>4, <1>5, <1>6, <1>7, <1>8, <1>9, <1>10, <1>11, StepCases, OutsideFrame
     DEF Exit, vars, ctxVars, modVars

\* A thread that is known, or executes another context than its own, has returned from
\* ConvertThreadToFiber.
LEMMA ReturnedStep ==
  ASSUME SimInv, [Next]_vars
  PROVE  ReturnedInv'
<1> USE Names
<1> USE DEF SimInv, SimTypeOK, ReturnedInv, Before, Library
<1>1. ASSUME known' \subseteq known, UNCHANGED runs,
             \A t \in Threads : pc[Own(t)] \notin Before => pc'[Own(t)] \notin Before
      PROVE  ReturnedInv'
  BY <1>1
<1>2. CASE UNCHANGED vars
  BY <1>1, <1>2 DEF vars, modVars
<1>3. ASSUME NEW t \in Threads, create_threads(t) PROVE ReturnedInv'
  <2>1. \A u \in Threads : pc[Own(u)] \in Before
    BY <1>3 DEF create_threads, At, PlaceInv
  <2> QED
    BY <1>1, <1>3, <2>1 DEF create_threads, modVars
<1>4. ASSUME NEW t \in Threads,
             \/ TestDone(t) \/ init_file(t) \/ ConvertSearch(t) \/ ConvertNewProcess(t)
             \/ ConvertInit(t)
      PROVE  ReturnedInv'
  <2>1. known' \subseteq known /\ UNCHANGED runs
    BY <1>4 DEF TestDone, init_file, ConvertSearch, ConvertNewProcess, ConvertInit, modVars
  <2>2. pc[Own(t)] \in Before
    BY <1>4 DEF TestDone, init_file, ConvertSearch, ConvertNewProcess, ConvertInit, At
  <2>3. \E l : pc' = [pc EXCEPT ![Own(t)] = l]
    BY ONLY <1>4 DEF TestDone, init_file, ConvertSearch, ConvertNewProcess, ConvertInit, Goto
  <2> QED
    BY <1>1, <2>1, <2>2, <2>3
<1>10. ASSUME NEW t \in Threads,
              FibersCreated(t) \/ signal_alarm(t) \/ InitComplete(t) \/ Waited(t)
       PROVE  ReturnedInv'
  <2>1. known' \subseteq known /\ UNCHANGED runs
    BY <1>10 DEF FibersCreated, signal_alarm, InitComplete, Waited, modVars
  <2>2. \E c \in Contexts, l \in {"alarm", "complete", "start", "pick"} : pc' = [pc EXCEPT ![c] = l]
    BY <1>10 DEF FibersCreated, signal_alarm, InitComplete, Waited, Goto
  <2> QED
    BY <1>1, <2>1, <2>2
<1>5. ASSUME NEW t \in Threads, ConvertRegister(t) PROVE ReturnedInv'
  <2>1. pc' = [pc EXCEPT ![Own(t)] = Converted(t)] /\ Converted(t) \notin Before
    BY <1>5 DEF ConvertRegister, Goto, Converted
  <2> QED
    BY <1>5, <2>1 DEF ConvertRegister
<1>6. ASSUME NEW t \in Threads, NEW f \in Fibers \ {1}, CreateFiber(t, f) PROVE ReturnedInv'
  BY <1>1, <1>6 DEF CreateFiber, Goto
<1>7. ASSUME NEW t \in Threads, NEW c \in Contexts,
             Malloc(t, c) \/ EventDone(t, c) \/ FiberDone(t, c) \/ NoSlot(t, c) \/ NoQueue(t, c)
      PROVE  ReturnedInv'
  <2>1. UNCHANGED <<known, runs>>
    BY <1>7 DEF Malloc, EventDone, FiberDone, NoSlot, NoQueue, modVars
  <2>2. \A u \in Threads : pc[Own(u)] \notin Before => pc'[Own(u)] \notin Before
    BY <1>7 DEF Malloc, EventDone, FiberDone, NoSlot, NoQueue, Goto
  <2> QED
    BY <1>1, <2>1, <2>2
<1>8. ASSUME NEW t \in Threads, Exit(t) PROVE ReturnedInv'
  BY <1>1, <1>8 DEF Exit, modVars
<1>9. CASE Outside
  <2>1. UNCHANGED <<pc, known>>
    BY <1>9, OutsideFrame DEF ctxVars, modVars
  <2>2. \A t \in Threads : runs'[t] # runs[t] => t \in known
    BY <1>9 DEF Outside, AlarmExpires, Deliver, HandlerReturn, PickFirst, ScheduleDone,
                ScheduleHandler, SwitchToFiber
  <2> QED
    BY <2>1, <2>2
<1> QED
  BY <1>2, <1>3, <1>4, <1>5, <1>6, <1>7, <1>8, <1>9, <1>10, StepCases

\* The calls of main_loop are made by threads that are known, unless there was a race.
LEMMA FailsStep ==
  ASSUME SimInv, [Next]_vars
  PROVE  FailsOnlyAfterRace'
<1> USE Names
<1> USE DEF SimInv, FailsOnlyAfterRace
<1>1. raced => raced'
  BY StepCases, OutsideFrame DEF vars, ctxVars, modVars, create_threads, TestDone, init_file,
     FibersCreated, signal_alarm, InitComplete, Exit, Waited, ConvertSearch, ConvertNewProcess,
     ConvertInit, ConvertRegister, CreateFiber, Malloc, EventDone, FiberDone, NoSlot, NoQueue
<1>2. ASSUME NEW t \in Threads, NEW c \in Contexts, NoSlot(t, c) \/ NoQueue(t, c) PROVE raced
  <2>1. t \notin known /\ runs[t] = c /\ pc[c] \in {"start", "loop", "event"}
    BY <1>2 DEF NoSlot, NoQueue, At
  <2>2. pc[Own(t)] \notin Before
    BY <2>1 DEF ReturnedInv, Before, Library
  <2> QED
    BY <2>1, <2>2 DEF RaceInv
<1>3. UNCHANGED ended \/ ended' = "success"
      \/ \E t \in Threads, c \in Contexts : NoSlot(t, c) \/ NoQueue(t, c)
  BY StepCases, OutsideFrame DEF vars, ctxVars, create_threads, TestDone, init_file,
     FibersCreated, signal_alarm, InitComplete, Exit, Waited, ConvertSearch, ConvertNewProcess,
     ConvertInit, ConvertRegister, CreateFiber, Malloc, EventDone, FiberDone
<1> QED
  BY <1>1, <1>2, <1>3

\* The alarm is set again before the thread that took the signal leaves the handler's fiber.
LEMMA AlarmStep ==
  ASSUME SimInv, [Next]_vars
  PROVE  AlarmInv'
<1> USE Names
<1> USE DEF SimInv, SimTypeOK, AlarmInv
<1>1. ASSUME UNCHANGED <<runs, calling, depth, pending>>, armed' = armed,
             pc'[1] = "complete" \/ init_complete' => pc[1] = "complete" \/ init_complete
      PROVE  AlarmInv'
  BY <1>1
<1>2. CASE UNCHANGED vars
  BY <1>1, <1>2 DEF vars
<1>3. ASSUME NEW t \in Threads, signal_alarm(t) PROVE AlarmInv'
  BY <1>3 DEF signal_alarm, sigVars
<1>4. ASSUME NEW t \in Threads,
             \/ create_threads(t) \/ TestDone(t) \/ init_file(t) \/ FibersCreated(t)
             \/ InitComplete(t) \/ Exit(t) \/ Waited(t) \/ ConvertSearch(t)
             \/ ConvertNewProcess(t) \/ ConvertInit(t) \/ ConvertRegister(t)
      PROVE  AlarmInv'
  <2>1. UNCHANGED <<runs, calling, depth, pending, armed>>
    BY <1>4 DEF create_threads, TestDone, init_file, FibersCreated, InitComplete, Exit, Waited,
                ConvertSearch, ConvertNewProcess, ConvertInit, ConvertRegister, sigVars
  <2>2. pc'[1] = "complete" \/ init_complete' => pc[1] = "complete" \/ init_complete
    BY <1>4 DEF create_threads, TestDone, init_file, FibersCreated, InitComplete, Exit, Waited,
                ConvertSearch, ConvertNewProcess, ConvertInit, ConvertRegister, Found, Converted,
                Goto, At
  <2> QED
    BY <1>1, <2>1, <2>2
<1>7. ASSUME NEW t \in Threads, NEW f \in Fibers \ {1}, CreateFiber(t, f) PROVE AlarmInv'
  BY <1>1, <1>7 DEF CreateFiber, Goto, sigVars
<1>5. ASSUME NEW t \in Threads, NEW c \in Contexts,
             Malloc(t, c) \/ EventDone(t, c) \/ FiberDone(t, c) \/ NoSlot(t, c) \/ NoQueue(t, c)
      PROVE  AlarmInv'
  <2>1. UNCHANGED <<runs, calling, depth, pending, armed, init_complete>>
    BY <1>5 DEF Malloc, EventDone, FiberDone, NoSlot, NoQueue, sigVars
  <2>2. pc'[1] = "complete" => pc[1] = "complete"
    BY <1>5 DEF Malloc, EventDone, FiberDone, NoSlot, NoQueue, Goto
  <2> QED
    BY <1>1, <2>1, <2>2
<1>6. CASE Outside
  <2>1. pc' = pc /\ init_complete' = init_complete
    BY <1>6, OutsideFrame DEF ctxVars
  <2>2. CASE AlarmExpires
    BY <2>1, <2>2 DEF AlarmExpires
  <2>3. ASSUME NEW t \in Threads, Deliver(t) PROVE AlarmInv'
    BY <2>1, <2>3 DEF Deliver
  <2>4. ASSUME NEW t \in Threads, HandlerReturn(t, runs[t]) PROVE AlarmInv'
    BY <2>1, <2>4 DEF HandlerReturn
  <2>5. ASSUME NEW t \in Threads, NEW f \in Fibers, PickFirst(t, f) PROVE AlarmInv'
    <3>1. UNCHANGED <<calling, depth, armed, pending>> /\ runs[t] = Own(t) /\ depth[Own(t)] = 0
      BY <2>5 DEF PickFirst, At, sigVars
    <3>2. \A u \in Threads : u # t => runs'[u] = runs[u]
      BY <2>5 DEF PickFirst, SwitchToFiber
    <3> QED
      BY <2>1, <3>1, <3>2
  <2>6. ASSUME NEW t \in Threads, NEW f \in Fibers, NEW c \in Contexts,
               ScheduleDone(t, c, f) \/ ScheduleHandler(t, c, f)
        PROVE  AlarmInv'
    BY <2>1, <2>6 DEF ScheduleDone, ScheduleHandler, Rearm, sigVars
  <2> QED
    BY <1>6, <2>2, <2>3, <2>4, <2>5, <2>6 DEF Outside
<1> QED
  BY <1>2, <1>3, <1>4, <1>5, <1>6, <1>7, StepCases

-----------------------------------------------------------------------------
\* The program starts with no thread converted and nothing counted.
LEMMA InitInv == Init => SimInv
<1> SUFFICES ASSUME Init PROVE SimInv
  OBVIOUS
<1> USE Names, SimulationAssumption
<1>1. SimTypeOK
  <2>1. pc \in [Contexts -> {"create_threads", "none", "thread"}]
    BY DEF Init
  <2>2. pc \in [Contexts -> Before \cup {"none", "create", "alarm", "complete", "wait", "pick",
                                        "start", "refused", "loop", "event", "spin", "done"}]
    BY <2>1 DEF Before
  <2>3. work \in [Contexts -> Int] /\ depth \in [Contexts -> Nat] /\ completed_fibers \in Int
    BY DEF Init
  <2>4. /\ runs \in [Threads -> Contexts] /\ calling \subseteq Contexts /\ raced \in BOOLEAN
        /\ process \in Threads \cup {0} /\ proc \in [Threads -> Threads \cup {0}]
    BY DEF Init
  <2> QED
    BY <2>2, <2>3, <2>4 DEF SimTypeOK
<1>2. PlaceInv
  BY DEF Init, PlaceInv, Library
<1>3. CountInv /\ OpenInv /\ AlarmInv /\ FailsOnlyAfterRace
  BY DEF Init, CountInv, OpenInv, AlarmInv, FailsOnlyAfterRace, Ended
<1>4. RaceInv /\ ReturnedInv
  BY DEF Init, RaceInv, ReturnedInv, Early, Before, Creating
<1> QED
  BY <1>1, <1>2, <1>3, <1>4 DEF SimInv

\* The inductive invariant holds for any number of threads, fibers and events.
THEOREM SimInvariant == Spec => []SimInv
<1>1. SimInv /\ [Next]_vars => SimInv'
  BY TypeStep, PlaceStep, CountStep, OpenStep, RaceStep, ReturnedStep, FailsStep, AlarmStep
     DEF SimInv
<1> QED
  BY <1>1, InitInv, PTL DEF Spec

\* main leaves its last loop only when every fiber's simulation has ended, whatever the
\* conversions have done to each other.
THEOREM ExitAlwaysMeansDone == Spec => []ExitMeansDone
<1>1. SimInv => ExitMeansDone
  BY Names DEF SimInv, CountInv, Remaining, Ended, ExitMeansDone
<1> QED
  BY <1>1, SimInvariant, PTL

\* A thread that has returned from ConvertThreadToFiber is a fiber, or a first conversion
\* has met another one.
THEOREM AlwaysReturnsConverted == Spec => []ReturnsConverted
<1>1. SimInv => ReturnsConverted
  BY DEF SimInv, RaceInv, ReturnsConverted
<1> QED
  BY <1>1, SimInvariant, PTL

\* Nothing but conversions that meet brings main_loop to a thread the module does not know.
THEOREM AlwaysFailsOnlyAfterRace == Spec => []FailsOnlyAfterRace
<1>1. SimInv => FailsOnlyAfterRace
  BY DEF SimInv
<1> QED
  BY <1>1, SimInvariant, PTL

\* The chain of alarms that preempts the fibers never breaks.
THEOREM AlarmAlwaysKept == Spec => []AlarmKept
<1>1. SimInv => AlarmKept
  BY DEF SimInv, AlarmInv, AlarmKept
<1> QED
  BY <1>1, SimInvariant, PTL
=============================================================================
