-------------------------- MODULE FiberIoctlProofs --------------------------
(***************************************************************************)
(* Proofs about FiberIoctl, for any number of threads, processes, fibers   *)
(* and user steps, with or without allocation failures.  The first part is *)
(* about contexts and holds in every state; the second, about processes,   *)
(* handles and faults, in every state before a first conversion or an exit *)
(* meets another call of its process.                                      *)
(***************************************************************************)
EXTENDS FiberIoctl, FiniteSetTheorems, TLAPS

\* The lists of variables, and the helpers that only move a thread on.
USE DEF procVars, tableVars, objVars, allocVars, userVars, localVars, Goto, Return,
        Lock, Unlock, NextIndex, SaveContext, PassRunning

\* NULL is not the address of a fiber.
LEMMA NullIsNoFiber == NULL \notin FiberAddr
BY NamesAssumption DEF FiberAddr

\* A step of the specification is a step of one handler, or changes nothing.
LEMMA StepCases ==
  ASSUME [Next]_vars
  PROVE  \/ UNCHANGED vars
         \/ \E t \in Thread :
              /\ fault' = fault /\ (UNCHANGED overlapped \/ overlapped' \in BOOLEAN)
              /\ \/ /\ ~overlapped' => ~Overlaps(t)
                    /\ \/ UserStep(t) \/ ConvertSearch(t) \/ CreateSearch(t) \/ ExitSearch(t)
                       \/ \E i \in 0..MaxFiber : SwitchSearch(t, i)
                 \/ ConvertNewProcess(t) \/ ConvertInitThreads(t) \/ ConvertInitFibers(t) \/ ConvertThread(t)
                 \/ ConvertFiber(t) \/ ConvertCount(t) \/ CreateFiber(t)
                 \/ SwitchLock(t) \/ SwitchFind(t) \/ SwitchCheck(t) \/ SwitchCommit(t)
                 \/ ExitThread(t) \/ ExitFree(t) \/ ExitLast(t)
         \/ \E t \in Thread : Oops(t) /\ UNCHANGED overlapped
BY DEF Next, Finished, FromUser, UserCall, InKernel, KernelStep

\* Assigning active_fiber keeps the table of active fibers well-typed.
LEMMA SetActive ==
  ASSUME NEW p \in ProcAddr, NEW t \in Thread, NEW f \in FiberAddr \cup {NULL},
         active \in [ProcAddr -> [Thread -> FiberAddr \cup {NULL}]]
  PROVE  [active EXCEPT ![p][t] = f] \in [ProcAddr -> [Thread -> FiberAddr \cup {NULL}]]
OBVIOUS

\* Every step of every handler keeps each variable within its type.
LEMMA TypeStep ==
  ASSUME TypeOK, ExitedInv, [Next]_vars
  PROVE  TypeOK'
<1> USE ConstantsAssumption
<1> USE DEF TypeOK, Label
<1>1. CASE UNCHANGED vars
  BY <1>1 DEF vars, TypeProcesses, TypeFibers, TypeThreads
<1>2. ASSUME NEW t \in Thread, Oops(t), UNCHANGED overlapped PROVE TypeOK'
  BY <1>2 DEF Oops, TypeProcesses, TypeFibers, TypeThreads
<1>3. ASSUME NEW t \in Thread, fault' = fault, overlapped' \in BOOLEAN, UserStep(t) PROVE TypeOK'
  <2>1. live[t] \in Context
    BY <1>3 DEF UserStep, ExitedInv, Exiting, TypeThreads
  <2>2. [who |-> live[t].who, at |-> live[t].at + 1] \in Context
    BY <1>3, <2>1 DEF UserStep, Context
  <2> QED
    BY <1>3, <2>2 DEF UserStep, TypeProcesses, TypeFibers, TypeThreads
<1>4. ASSUME NEW t \in Thread, fault' = fault, overlapped' \in BOOLEAN, ConvertSearch(t) \/ CreateSearch(t) PROVE TypeOK'
  <2>1. nfiber < MaxFiber => nfiber + 1 \in FiberAddr
    BY DEF FiberAddr, TypeFibers
  <2>2. TypeProcesses'
    BY <1>4 DEF ConvertSearch, CreateSearch, TypeProcesses
  <2>3. TypeFibers'
    BY <1>4, <2>1 DEF ConvertSearch, CreateSearch, KzallocFiber, TypeFibers
  <2>4. TypeThreads'
    BY <1>4, <2>1 DEF ConvertSearch, CreateSearch, KzallocFiber, TypeThreads
  <2> QED
    BY <2>2, <2>3, <2>4
<1>5. ASSUME NEW t \in Thread, fault' = fault, overlapped' \in BOOLEAN, ExitSearch(t) PROVE TypeOK'
  <2>1. TypeProcesses' /\ TypeFibers'
    BY <1>5 DEF ExitSearch, TypeProcesses, TypeFibers
  <2>2. TypeThreads'
    BY <1>5 DEF ExitSearch, TypeThreads
  <2> QED
    BY <2>1, <2>2
<1>6. ASSUME NEW t \in Thread, fault' = fault, overlapped' \in BOOLEAN, NEW i \in 0..MaxFiber, SwitchSearch(t, i)
      PROVE  TypeOK'
  <2>1. TypeProcesses' /\ TypeFibers'
    BY <1>6 DEF SwitchSearch, TypeProcesses, TypeFibers
  <2>2. TypeThreads'
    BY <1>6 DEF SwitchSearch, TypeThreads
  <2> QED
    BY <2>1, <2>2
<1>7. ASSUME NEW t \in Thread, fault' = fault, overlapped' \in BOOLEAN, ConvertNewProcess(t) PROVE TypeOK'
  <2>1. nproc < MaxProc => nproc + 1 \in ProcAddr
    BY DEF ProcAddr, TypeProcesses
  <2>2. tgid[t] \in Pid
    OBVIOUS
  <2>3. TypeProcesses'
    <3>1. CASE UNCHANGED procVars
      BY <1>7, <3>1 DEF ConvertNewProcess, TypeProcesses
    <3>2. CASE /\ nproc < MaxProc /\ nproc' = nproc + 1
               /\ list_process' = list_process \cup {nproc + 1}
               /\ pid' = [pid EXCEPT ![nproc + 1] = tgid[t]]
               /\ fiber_id' = [fiber_id EXCEPT ![nproc + 1] = 0]
      <4>1. nproc' \in 0..MaxProc /\ list_process' \in SUBSET ProcAddr
        BY <2>1, <3>2 DEF TypeProcesses
      <4>2. pid' \in [ProcAddr -> Pid \cup {NULL}] /\ fiber_id' \in [ProcAddr -> Nat]
        BY <2>2, <3>2 DEF TypeProcesses
      <4>3. UNCHANGED <<threads, fibers, active, lock_fiber, count_threads>>
        BY <1>7 DEF ConvertNewProcess
      <4> QED
        BY <4>1, <4>2, <4>3 DEF TypeProcesses
    <3> QED
      BY <1>7, <3>1, <3>2 DEF ConvertNewProcess
  <2>4. TypeFibers'
    BY <1>7 DEF ConvertNewProcess, TypeFibers
  <2>5. TypeThreads'
    BY <1>7, <2>1 DEF ConvertNewProcess, TypeThreads
  <2> QED
    BY <2>3, <2>4, <2>5
<1>8. ASSUME NEW t \in Thread, fault' = fault, overlapped' \in BOOLEAN,
             ConvertInitThreads(t) \/ ConvertInitFibers(t)
      PROVE  TypeOK'
  <2>1. TypeProcesses'
    <3>1. CASE ConvertInitThreads(t)
      BY <3>1 DEF ConvertInitThreads, TypeProcesses
    <3>2. CASE ConvertInitFibers(t)
      BY <3>2 DEF ConvertInitFibers, TypeProcesses
    <3> QED
      BY <1>8, <3>1, <3>2
  <2>2. TypeFibers' /\ TypeThreads'
    BY <1>8 DEF ConvertInitThreads, ConvertInitFibers, TypeFibers, TypeThreads
  <2> QED
    BY <2>1, <2>2
<1>9. ASSUME NEW t \in Thread, fault' = fault, overlapped' \in BOOLEAN, ConvertThread(t) PROVE TypeOK'
  <2>1. proc[t] \in ProcAddr
    BY <1>9 DEF ConvertThread, TypeProcesses
  <2>2. /\ UNCHANGED threads \/ threads' = [threads EXCEPT ![proc[t]] = @ \cup {t}]
        /\ UNCHANGED active \/ active' = [active EXCEPT ![proc[t]][t] = NULL]
        /\ UNCHANGED <<list_process, pid, fiber_id, nproc, fibers, lock_fiber, count_threads>>
    BY <1>9 DEF ConvertThread
  <2>3. TypeProcesses'
    <3>1. threads' \in [ProcAddr -> SUBSET Thread]
      <4>1. threads \in [ProcAddr -> SUBSET Thread]
        BY DEF TypeProcesses
      <4>2. CASE UNCHANGED threads
        BY <4>1, <4>2
      <4>3. CASE threads' = [threads EXCEPT ![proc[t]] = @ \cup {t}]
        <5> HIDE DEF TypeOK
        <5>1. threads[proc[t]] \cup {t} \in SUBSET Thread
          BY <2>1, <4>1
        <5> QED
          BY <4>1, <4>3, <5>1
      <4> HIDE DEF TypeOK
      <4> QED
        BY <2>2, <4>2, <4>3
    <3>2. active' \in [ProcAddr -> [Thread -> FiberAddr \cup {NULL}]]
      <4>1. active \in [ProcAddr -> [Thread -> FiberAddr \cup {NULL}]]
        BY DEF TypeProcesses
      <4> HIDE DEF TypeOK
      <4>2. CASE UNCHANGED active
        BY <4>1, <4>2
      <4>3. CASE active' = [active EXCEPT ![proc[t]][t] = NULL]
        BY <2>1, <4>1, <4>3, SetActive
      <4> QED
        BY <2>2, <4>2, <4>3
    <3> QED
      BY <2>2, <3>1, <3>2 DEF TypeProcesses
  <2>4. TypeFibers' /\ TypeThreads'
    BY <1>9 DEF ConvertThread, TypeFibers, TypeThreads
  <2> QED
    BY <2>3, <2>4
<1>10. ASSUME NEW t \in Thread, fault' = fault, overlapped' \in BOOLEAN, ConvertFiber(t) PROVE TypeOK'
  <2>1. proc[t] \in ProcAddr /\ new[t] \in FiberAddr /\ fiber_id[proc[t]] \in Nat
    BY <1>10 DEF ConvertFiber, TypeProcesses, TypeThreads
  <2>2. TypeProcesses'
    BY <1>10, <2>1 DEF ConvertFiber, TypeProcesses
  <2>3. TypeFibers'
    BY <1>10, <2>1 DEF ConvertFiber, TypeFibers, TypeThreads
  <2>4. TypeThreads'
    BY <1>10 DEF ConvertFiber, TypeThreads
  <2> QED
    BY <2>2, <2>3, <2>4
<1>11. ASSUME NEW t \in Thread, fault' = fault, overlapped' \in BOOLEAN, ConvertCount(t) PROVE TypeOK'
  BY <1>11 DEF ConvertCount, TypeProcesses, TypeFibers, TypeThreads
<1>12. ASSUME NEW t \in Thread, fault' = fault, overlapped' \in BOOLEAN, CreateFiber(t) PROVE TypeOK'
  <2>1. proc[t] \in ProcAddr /\ fiber_id[proc[t]] \in Nat
    BY <1>12 DEF CreateFiber, TypeProcesses, TypeThreads
  <2>2. new[t] # NULL => new[t] \in FiberAddr /\ [who |-> new[t], at |-> 0] \in Context
    BY DEF TypeThreads, Context
  <2>3. TypeProcesses'
    <3>1. /\ \/ UNCHANGED <<fiber_id, fibers>>
             \/ /\ new[t] # NULL
                /\ fiber_id' = [fiber_id EXCEPT ![proc[t]] = @ + 1]
                /\ fibers' = [fibers EXCEPT ![proc[t]] = @ \cup {new[t]}]
          /\ UNCHANGED <<list_process, pid, nproc, threads, active, lock_fiber, count_threads>>
      BY <1>12 DEF CreateFiber
    <3>2. fibers \in [ProcAddr -> SUBSET FiberAddr] /\ fiber_id \in [ProcAddr -> Nat]
      BY DEF TypeProcesses
    <3>3. fibers' \in [ProcAddr -> SUBSET FiberAddr] /\ fiber_id' \in [ProcAddr -> Nat]
      <4> HIDE DEF TypeOK
      <4>1. CASE UNCHANGED <<fiber_id, fibers>>
        BY <3>2, <4>1
      <4>2. CASE /\ new[t] # NULL
                 /\ fiber_id' = [fiber_id EXCEPT ![proc[t]] = @ + 1]
                 /\ fibers' = [fibers EXCEPT ![proc[t]] = @ \cup {new[t]}]
        BY <2>1, <2>2, <3>2, <4>2
      <4> QED
        BY <3>1, <4>1, <4>2
    <3> QED
      BY <3>1, <3>3 DEF TypeProcesses
  <2>4. TypeFibers'
    <3>1. CASE UNCHANGED objVars
      BY <1>12, <3>1 DEF CreateFiber, TypeFibers
    <3>2. CASE /\ new[t] # NULL
               /\ index' = [index EXCEPT ![new[t]] = fiber_id[proc[t]]]
               /\ running' = [running EXCEPT ![new[t]] = FALSE]
               /\ regs' = [regs EXCEPT ![new[t]] = [who |-> new[t], at |-> 0]]
      <4>1. index' \in [FiberAddr -> Nat] /\ running' \in [FiberAddr -> BOOLEAN]
        BY <2>1, <2>2, <3>2 DEF TypeFibers
      <4>2. regs' \in [FiberAddr -> Context \cup {NULL}]
        BY <2>2, <3>2 DEF TypeFibers
      <4>3. UNCHANGED <<heap, nfiber>>
        BY <1>12 DEF CreateFiber
      <4> QED
        BY <4>1, <4>2, <4>3 DEF TypeFibers
    <3> QED
      BY <1>12, <3>1, <3>2 DEF CreateFiber
  <2>5. TypeThreads'
    BY <1>12 DEF CreateFiber, TypeThreads
  <2> QED
    BY <2>3, <2>4, <2>5
<1>13. ASSUME NEW t \in Thread, fault' = fault, overlapped' \in BOOLEAN, SwitchLock(t) \/ SwitchFind(t) PROVE TypeOK'
  <2>1. TypeProcesses' /\ TypeFibers'
    BY <1>13 DEF SwitchLock, SwitchFind, TypeProcesses, TypeFibers
  <2>2. TypeThreads'
    BY <1>13, SMTT(30) DEF SwitchLock, SwitchFind, TypeThreads
  <2> QED
    BY <2>1, <2>2
<1>14. ASSUME NEW t \in Thread, fault' = fault, overlapped' \in BOOLEAN, SwitchCheck(t) PROVE TypeOK'
  <2>1. TypeFibers'
    BY <1>14 DEF SwitchCheck, TypeFibers
  <2>2. lock_fiber' = lock_fiber \/ lock_fiber' = [lock_fiber EXCEPT ![proc[t]] = NULL]
    BY <1>14 DEF SwitchCheck
  <2>3. TypeProcesses'
    BY <1>14, <2>2 DEF SwitchCheck, TypeProcesses
  <2>4. TypeThreads'
    BY <1>14, SMTT(30) DEF SwitchCheck, TypeThreads
  <2> QED
    BY <2>1, <2>3, <2>4
<1>15. ASSUME NEW t \in Thread, fault' = fault, overlapped' \in BOOLEAN, SwitchCommit(t) PROVE TypeOK'
  <2>1. proc[t] \in ProcAddr /\ found[t] \in FiberAddr \cup {NULL}
    BY <1>15 DEF SwitchCommit, TypeProcesses, TypeThreads
  <2>2. /\ UNCHANGED active \/ active' = [active EXCEPT ![proc[t]][t] = found[t]]
        /\ lock_fiber' = [lock_fiber EXCEPT ![proc[t]] = NULL]
        /\ UNCHANGED <<list_process, pid, fiber_id, nproc, threads, fibers, count_threads>>
    BY <1>15 DEF SwitchCommit
  <2>3. TypeProcesses'
    <3>1. active' \in [ProcAddr -> [Thread -> FiberAddr \cup {NULL}]]
      <4>1. active \in [ProcAddr -> [Thread -> FiberAddr \cup {NULL}]]
        BY DEF TypeProcesses
      <4>2. [active EXCEPT ![proc[t]][t] = found[t]]
              \in [ProcAddr -> [Thread -> FiberAddr \cup {NULL}]]
        BY <2>1, <4>1, SetActive
      <4> QED
        BY <2>2, <4>1, <4>2
    <3> QED
      BY <2>1, <2>2, <3>1 DEF TypeProcesses
  <2>4. TypeFibers'
    BY <1>15 DEF SwitchCommit, TypeFibers, TypeThreads
  <2>5. TypeThreads'
    BY <1>15 DEF SwitchCommit, TypeThreads, TypeFibers
  <2> QED
    BY <2>3, <2>4, <2>5
<1>16. ASSUME NEW t \in Thread, fault' = fault, overlapped' \in BOOLEAN, ExitThread(t) \/ ExitLast(t) PROVE TypeOK'
  <2>1. TypeProcesses' /\ TypeFibers'
    BY <1>16 DEF ExitThread, ExitLast, TypeProcesses, TypeFibers
  <2>2. TypeThreads'
    BY <1>16 DEF ExitThread, ExitLast, TypeThreads
  <2> QED
    BY <2>1, <2>2
<1>17. ASSUME NEW t \in Thread, fault' = fault, overlapped' \in BOOLEAN, ExitFree(t) PROVE TypeOK'
  <2>1. TypeProcesses'
    BY <1>17 DEF ExitFree, TypeProcesses
  <2>2. TypeFibers' /\ TypeThreads'
    BY <1>17 DEF ExitFree, TypeFibers, TypeThreads
  <2> QED
    BY <2>1, <2>2
<1>18. UNCHANGED overlapped => overlapped' \in BOOLEAN
  BY DEF TypeThreads
<1> QED
  BY StepCases, <1>18, <1>1, <1>2, <1>3, <1>4, <1>5, <1>6, <1>7, <1>8, <1>9, <1>10, <1>11, <1>12,
     <1>13, <1>14, <1>15, <1>16, <1>17

-----------------------------------------------------------------------------
(* Each part of HandlerInv is kept by every step. *)

\* Only ExitSearch gives up a context, and a switch always loads one.
LEMMA ExitedStep ==
  ASSUME TypeOK, HandlerInv, [Next]_vars
  PROVE  ExitedInv'
<1> USE DEF ExitedInv, Exiting, HandlerInv, TypeOK, TypeThreads
<1>1. CASE UNCHANGED vars
  BY <1>1 DEF vars
<1>2. ASSUME NEW t \in Thread, Oops(t) PROVE ExitedInv'
  BY <1>2 DEF Oops
<1>3. ASSUME NEW t \in Thread, UserStep(t) PROVE ExitedInv'
  <2>1. live[t] \in Context
    BY <1>3 DEF UserStep
  <2>2. [who |-> live[t].who, at |-> live[t].at + 1] \in Context
    BY <1>3, <2>1, ConstantsAssumption DEF UserStep, Context
  <2> QED
    BY <1>3, <2>2, NamesAssumption DEF UserStep
<1>4. ASSUME NEW t \in Thread, ConvertSearch(t) \/ CreateSearch(t) PROVE ExitedInv'
  BY <1>4 DEF ConvertSearch, CreateSearch
<1>5. ASSUME NEW t \in Thread, ExitSearch(t) PROVE ExitedInv'
  BY <1>5 DEF ExitSearch
<1>6. ASSUME NEW t \in Thread, NEW i \in 0..MaxFiber, SwitchSearch(t, i) PROVE ExitedInv'
  BY <1>6 DEF SwitchSearch
<1>7. ASSUME NEW t \in Thread,
             \/ ConvertNewProcess(t) \/ ConvertInitThreads(t) \/ ConvertInitFibers(t) \/ ConvertThread(t)
             \/ ConvertFiber(t) \/ ConvertCount(t) \/ CreateFiber(t)
      PROVE  ExitedInv'
  BY <1>7 DEF ConvertNewProcess, ConvertInitThreads, ConvertInitFibers, ConvertThread, ConvertFiber, ConvertCount,
              CreateFiber
<1>8. ASSUME NEW t \in Thread, SwitchLock(t) \/ SwitchFind(t) \/ SwitchCheck(t) PROVE ExitedInv'
  BY <1>8 DEF SwitchLock, SwitchFind, SwitchCheck
<1>9. ASSUME NEW t \in Thread, SwitchCommit(t) PROVE ExitedInv'
  <2>1. regs[found[t]] # NULL
    BY <1>9 DEF SwitchCommit, HomeInv, BelongsTo, LockInv, Locked, Holding
  <2> QED
    BY <1>9, <2>1 DEF SwitchCommit
<1>10. ASSUME NEW t \in Thread, ExitThread(t) \/ ExitFree(t) \/ ExitLast(t) PROVE ExitedInv'
  BY <1>10 DEF ExitThread, ExitFree, ExitLast
<1> QED
  BY StepCases, <1>1, <1>2, <1>3, <1>4, <1>5, <1>6, <1>7, <1>8, <1>9, <1>10

\* Steps that leave fibers alone and start no construction keep BuildingInv.
LEMMA BuildingFrame ==
  ASSUME BuildingInv, UNCHANGED <<nfiber, heap, regs>>,
         \A u \in Thread : pc'[u] \in Building => pc[u] \in Building /\ new'[u] = new[u]
  PROVE  BuildingInv'
BY DEF BuildingInv

\* A fiber is handed to one handler and stays its own until it is hashed.
LEMMA BuildingStep ==
  ASSUME TypeOK, HandlerInv, [Next]_vars
  PROVE  BuildingInv'
<1> USE ConstantsAssumption, NamesAssumption
<1> USE DEF Building, Creating, HandlerInv, TypeOK, TypeFibers, TypeThreads
<1>1. CASE UNCHANGED vars
  BY <1>1, BuildingFrame DEF vars
<1>2. ASSUME NEW t \in Thread, Oops(t) PROVE BuildingInv'
  BY <1>2, BuildingFrame DEF Oops
<1>3. ASSUME NEW t \in Thread, UserStep(t) PROVE BuildingInv'
  BY <1>3, BuildingFrame DEF UserStep
<1>4. ASSUME NEW t \in Thread, ConvertSearch(t) \/ CreateSearch(t) PROVE BuildingInv'
  <2>1. /\ UNCHANGED regs
        /\ \A u \in Thread \ {t} : pc'[u] = pc[u] /\ new'[u] = new[u]
    BY <1>4 DEF ConvertSearch, CreateSearch, KzallocFiber
  <2>2. CASE new'[t] = nfiber + 1 /\ nfiber' = nfiber + 1 /\ heap' = heap \cup {nfiber + 1}
             /\ nfiber + 1 \in FiberAddr
    <3>1. regs[nfiber + 1] = NULL /\ (\A f \in FiberAddr : f > nfiber' => regs'[f] = NULL)
      BY <2>1, <2>2 DEF BuildingInv, FiberAddr
    <3>2. \A u \in Thread \ {t} : pc[u] \in Building /\ new[u] # NULL =>
              /\ new[u] \in heap' /\ new[u] <= nfiber' /\ new[u] # nfiber + 1
              /\ regs[new[u]] = NULL
              /\ \A v \in Thread \ {u} : pc[v] \in Building => new[v] # new[u]
      BY <2>2 DEF BuildingInv, FiberAddr
    <3>3. nfiber + 1 # NULL /\ nfiber + 1 <= nfiber'
      BY <2>2
    <3>4. new'[t] \in heap' /\ new'[t] <= nfiber' /\ regs'[new'[t]] = NULL
      BY <2>1, <2>2, <3>1, <3>3
    <3> QED
      BY <2>1, <2>2, <3>1, <3>2, <3>3, <3>4 DEF BuildingInv
  <2>3. CASE new'[t] = NULL /\ UNCHANGED <<nfiber, heap>>
    BY <2>1, <2>3 DEF BuildingInv
  <2> QED
    BY <1>4, <2>2, <2>3 DEF ConvertSearch, CreateSearch, KzallocFiber, FiberAddr
<1>5. ASSUME NEW t \in Thread, ExitSearch(t) PROVE BuildingInv'
  BY <1>5, BuildingFrame DEF ExitSearch
<1>6. ASSUME NEW t \in Thread, NEW i \in 0..MaxFiber, SwitchSearch(t, i) PROVE BuildingInv'
  BY <1>6, BuildingFrame DEF SwitchSearch
<1>7. ASSUME NEW t \in Thread,
             \/ ConvertNewProcess(t) \/ ConvertInitThreads(t) \/ ConvertInitFibers(t) \/ ConvertThread(t)
             \/ ConvertCount(t)
      PROVE  BuildingInv'
  BY <1>7, BuildingFrame DEF ConvertNewProcess, ConvertInitThreads, ConvertInitFibers, ConvertThread, ConvertCount
<1>8. ASSUME NEW t \in Thread, ConvertFiber(t) PROVE BuildingInv'
  BY <1>8 DEF ConvertFiber, BuildingInv, FiberAddr
<1>9. ASSUME NEW t \in Thread, CreateFiber(t) PROVE BuildingInv'
  <2>1. /\ pc' = [pc EXCEPT ![t] = "user"] /\ UNCHANGED <<nfiber, heap>>
        /\ \A u \in Thread \ {t} : new'[u] = new[u]
    BY <1>9 DEF CreateFiber
  <2>2. CASE UNCHANGED regs
    BY <2>1, <2>2, BuildingFrame
  <2>3. CASE new[t] # NULL /\ regs' = [regs EXCEPT ![new[t]] = [who |-> new[t], at |-> 0]]
    BY <1>9, <2>1, <2>3 DEF CreateFiber, BuildingInv, FiberAddr
  <2> QED
    BY <1>9, <2>2, <2>3 DEF CreateFiber
<1>10. ASSUME NEW t \in Thread, SwitchLock(t) \/ SwitchFind(t) \/ SwitchCheck(t) PROVE BuildingInv'
  BY <1>10, BuildingFrame DEF SwitchLock, SwitchFind, SwitchCheck
<1>11. ASSUME NEW t \in Thread, SwitchCommit(t) PROVE BuildingInv'
  <2>1. /\ pc' = [pc EXCEPT ![t] = "user"] /\ UNCHANGED <<nfiber, heap>>
        /\ \A u \in Thread \ {t} : new'[u] = new[u]
    BY <1>11 DEF SwitchCommit
  <2>2. CASE UNCHANGED regs
    BY <2>1, <2>2, BuildingFrame
  <2>3. CASE regs' = [regs EXCEPT ![active[proc[t]][t]] = live[t]] /\ t \in threads[proc[t]]
             /\ active[proc[t]][t] \in heap
    <3>1. proc[t] \in ProcAddr
      BY <1>11 DEF SwitchCommit, TypeProcesses
    <3>2. active[proc[t]][t] # NULL
      BY <2>3, NullIsNoFiber
    <3>3. regs[active[proc[t]][t]] # NULL
      BY <3>1, <3>2 DEF ActiveInv
    <3> HIDE DEF TypeProcesses
    <3>4. \A f \in FiberAddr : regs[f] = NULL => regs'[f] = NULL
      BY <2>3, <3>3
    <3>5. \A u \in Thread : pc'[u] \in Building => u # t
      BY <2>1 DEF Building, Creating
    <3> QED
      BY <2>1, <3>4, <3>5 DEF BuildingInv
  <2> QED
    BY <1>11, <2>2, <2>3 DEF SwitchCommit
<1>12. ASSUME NEW t \in Thread, ExitThread(t) \/ ExitLast(t) PROVE BuildingInv'
  BY <1>12, BuildingFrame DEF ExitThread, ExitLast
<1>13. ASSUME NEW t \in Thread, ExitFree(t) PROVE BuildingInv'
  BY <1>13 DEF ExitFree, ActiveInv, TypeProcesses, BuildingInv, FiberAddr
<1> QED
  BY StepCases, <1>1, <1>2, <1>3, <1>4, <1>5, <1>6, <1>7, <1>8, <1>9, <1>10, <1>11, <1>12,
     <1>13

\* Steps that assign no active_fiber and free or park no fiber keep ActiveInv.
LEMMA ActiveFrame ==
  ASSUME ActiveInv, UNCHANGED <<active, running, regs>>, heap \subseteq heap'
  PROVE  ActiveInv'
BY DEF ActiveInv

\* active_fiber stays a running fiber of its own: conversions and switches assign
\* it a fiber no thread was on, and an exit frees the fiber of one thread only.
LEMMA ActiveStep ==
  ASSUME TypeOK, HandlerInv, [Next]_vars
  PROVE  ActiveInv'
<1> USE DEF HandlerInv
<1>1. CASE UNCHANGED vars
  BY <1>1, ActiveFrame DEF vars
<1>2. ASSUME NEW t \in Thread,
             \/ Oops(t) \/ UserStep(t) \/ ConvertSearch(t) \/ CreateSearch(t) \/ ExitSearch(t)
             \/ ConvertNewProcess(t) \/ ConvertInitThreads(t) \/ ConvertInitFibers(t) \/ ConvertCount(t)
      PROVE  ActiveInv'
  BY <1>2, ActiveFrame DEF Oops, UserStep, ConvertSearch, CreateSearch, KzallocFiber, ExitSearch,
     ConvertNewProcess, ConvertInitThreads, ConvertInitFibers, ConvertCount
<1>3. ASSUME NEW t \in Thread, NEW i \in 0..MaxFiber, SwitchSearch(t, i) PROVE ActiveInv'
  BY <1>3, ActiveFrame DEF SwitchSearch
<1>4. ASSUME NEW t \in Thread,
             SwitchLock(t) \/ SwitchFind(t) \/ SwitchCheck(t) \/ ExitThread(t) \/ ExitLast(t)
      PROVE  ActiveInv'
  BY <1>4, ActiveFrame DEF SwitchLock, SwitchFind, SwitchCheck, ExitThread, ExitLast
<1> USE DEF TypeOK, TypeProcesses, TypeFibers, TypeThreads
<1>5. ASSUME NEW t \in Thread, ConvertThread(t) PROVE ActiveInv'
  BY <1>5 DEF ConvertThread, ActiveInv
<1>6. ASSUME NEW t \in Thread, ConvertFiber(t) PROVE ActiveInv'
  <2>1. new[t] \in heap /\ new[t] \in FiberAddr /\ regs[new[t]] = NULL
    BY <1>6 DEF ConvertFiber, BuildingInv, Building, Creating
  <2>2. live[t] # NULL
    BY <1>6 DEF ConvertFiber, ExitedInv, Exiting
  <2> QED
    BY <1>6, <2>1, <2>2 DEF ConvertFiber, ActiveInv
<1>7. ASSUME NEW t \in Thread, CreateFiber(t) PROVE ActiveInv'
  <2>1. new[t] # NULL => regs[new[t]] = NULL
    BY <1>7 DEF CreateFiber, BuildingInv, Building, Creating
  <2>2. CASE UNCHANGED objVars
    BY <1>7, <2>2, ActiveFrame DEF CreateFiber
  <2>3. CASE new[t] # NULL /\ running' = [running EXCEPT ![new[t]] = FALSE]
             /\ regs' = [regs EXCEPT ![new[t]] = [who |-> new[t], at |-> 0]]
    <3>1. UNCHANGED <<active, heap>>
      BY <1>7 DEF CreateFiber
    <3>2. \A q \in ProcAddr, u \in Thread : active[q][u] # NULL => active[q][u] # new[t]
      BY <2>1, <2>3 DEF ActiveInv
    <3> QED
      BY <2>3, <3>1, <3>2 DEF ActiveInv
  <2> QED
    BY <1>7, <2>2, <2>3 DEF CreateFiber
<1>8. ASSUME NEW t \in Thread, SwitchCommit(t) PROVE ActiveInv'
  <2>1. live[t] # NULL
    BY <1>8 DEF SwitchCommit, ExitedInv, Exiting
  <2>2. ~running[found[t]] /\ regs[found[t]] # NULL /\ found[t] \in FiberAddr
    BY <1>8 DEF SwitchCommit, ChosenInv, HomeInv, BelongsTo, LockInv, Locked, Holding
  <2>3. CASE t \notin threads[proc[t]]
    BY <1>8, <2>3, ActiveFrame DEF SwitchCommit
  <2>4. CASE t \in threads[proc[t]]
    <3> DEFINE p == proc[t]
               f == found[t]
               a == active[p][t]
    <3>1. p \in ProcAddr /\ {a, f} \subseteq heap /\ heap' = heap
      BY <1>8, <2>4 DEF SwitchCommit
    <3>2. a \in FiberAddr /\ a # NULL
      BY <3>1, NullIsNoFiber
    <3>3. \A q \in ProcAddr, u \in Thread :
            /\ active[q][u] # f \/ active[q][u] = NULL
            /\ active[q][u] = a => q = p /\ u = t
      BY <2>2, <3>1, <3>2 DEF ActiveInv
    <3>4. \A q \in ProcAddr, u \in Thread :
            active'[q][u] = IF q = p /\ u = t THEN f ELSE active[q][u]
      BY <1>8, <2>4, <3>1 DEF SwitchCommit
    <3>5. /\ running' = [running EXCEPT ![a] = FALSE, ![f] = TRUE]
          /\ regs' = [regs EXCEPT ![a] = live[t]]
      BY <1>8, <2>4 DEF SwitchCommit
    <3>6. running'[f] /\ regs'[f] # NULL
      BY <2>1, <2>2, <3>2, <3>5
    <3>7. \A g \in FiberAddr \ {a} : running[g] /\ regs[g] # NULL => running'[g] /\ regs'[g] # NULL
      BY <2>2, <3>2, <3>5
    <3>8. f \in FiberAddr /\ f # NULL
      BY <2>2, NullIsNoFiber
    <3> SUFFICES ASSUME NEW q \in ProcAddr, NEW r \in ProcAddr, NEW u \in Thread, NEW v \in Thread,
                        active'[q][u] # NULL
                 PROVE  /\ active'[q][u] \in heap' /\ running'[active'[q][u]]
                        /\ regs'[active'[q][u]] # NULL
                        /\ active'[q][u] = active'[r][v] => q = r /\ u = v
      BY DEF ActiveInv
    <3> HIDE DEF p, f, a
    <3>9. q # p \/ u # t => /\ active'[q][u] = active[q][u] /\ active[q][u] \in heap \ {a}
                            /\ running[active[q][u]] /\ regs[active[q][u]] # NULL
      BY <3>3, <3>4 DEF ActiveInv
    <3>10. active'[q][u] \in heap' /\ running'[active'[q][u]] /\ regs'[active'[q][u]] # NULL
      BY <3>1, <3>4, <3>6, <3>7, <3>9
    <3>11. active'[q][u] = active'[r][v] => q = r /\ u = v
      <4>1. CASE q = p /\ u = t
        BY <3>3, <3>4, <3>8, <4>1
      <4>2. CASE ~(q = p /\ u = t) /\ ~(r = p /\ v = t)
        BY <3>4, <3>9, <4>2 DEF ActiveInv
      <4>3. CASE ~(q = p /\ u = t) /\ r = p /\ v = t
        BY <3>3, <3>4, <3>8, <4>3
      <4> QED
        BY <4>1, <4>2, <4>3
    <3> QED
      BY <3>10, <3>11
  <2> QED
    BY <2>3, <2>4
<1>9. ASSUME NEW t \in Thread, ExitFree(t) PROVE ActiveInv'
  BY <1>9 DEF ExitFree, ActiveInv
<1> QED
  BY StepCases, <1>1, <1>2, <1>3, <1>4, <1>5, <1>6, <1>7, <1>8, <1>9

\* Steps outside the locked section keep LockInv.
LEMMA LockFrame ==
  ASSUME LockInv, UNCHANGED lock_fiber,
         \A u \in Thread :
             /\ pc'[u] \in Locked => pc[u] \in Locked /\ proc'[u] = proc[u]
             /\ pc'[u] \in Holding => pc[u] \in Holding /\ found'[u] = found[u]
  PROVE  LockInv'
BY DEF LockInv

\* lock_fiber is acquired only when free and released only by its holder.
LEMMA LockStep ==
  ASSUME TypeOK, HandlerInv, [Next]_vars
  PROVE  LockInv'
<1> USE DEF HandlerInv, Locked, Holding, TypeOK, TypeThreads
<1>1. CASE UNCHANGED vars
  BY <1>1, LockFrame DEF vars
<1>2. ASSUME NEW t \in Thread,
             \/ Oops(t) \/ UserStep(t) \/ ConvertSearch(t) \/ CreateSearch(t) \/ ExitSearch(t)
             \/ \E i \in 0..MaxFiber : SwitchSearch(t, i)
      PROVE  LockInv'
  BY <1>2, LockFrame DEF Oops, UserStep, ConvertSearch, CreateSearch, KzallocFiber, ExitSearch,
     SwitchSearch
<1>3. ASSUME NEW t \in Thread,
             \/ ConvertNewProcess(t) \/ ConvertInitThreads(t) \/ ConvertInitFibers(t) \/ ConvertThread(t)
             \/ ConvertFiber(t) \/ ConvertCount(t) \/ CreateFiber(t)
             \/ ExitThread(t) \/ ExitFree(t) \/ ExitLast(t)
      PROVE  LockInv'
  BY <1>3, LockFrame DEF ConvertNewProcess, ConvertInitThreads, ConvertInitFibers, ConvertThread, ConvertFiber,
     ConvertCount, CreateFiber, ExitThread, ExitFree, ExitLast
<1> USE NamesAssumption
<1> USE DEF LockInv, TypeProcesses
<1>4. ASSUME NEW t \in Thread, SwitchLock(t) \/ SwitchFind(t) PROVE LockInv'
  <2>1. CASE SwitchLock(t)
    BY <2>1 DEF SwitchLock
  <2>2. CASE SwitchFind(t) /\ pc'[t] = "user"
    <3>1. pc[t] = "sw_find" /\ UNCHANGED <<procVars, tableVars>>
      BY <2>2 DEF SwitchFind, procVars, tableVars
    <3>2. /\ lock_fiber' = [lock_fiber EXCEPT ![proc[t]] = NULL]
          /\ pc' = [pc EXCEPT ![t] = "user"]
          /\ proc' = [proc EXCEPT ![t] = NULL] /\ found' = [found EXCEPT ![t] = NULL]
      BY <2>2 DEF SwitchFind, Unlock, Return, Goto
    <3>3. ASSUME NEW u \in Thread, u # t, pc'[u] \in Locked
          PROVE  /\ proc'[u] \in ProcAddr /\ lock_fiber'[proc'[u]] = u
                 /\ pc'[u] \in Holding => found'[u] \in FiberAddr
      <4>1. pc'[u] = pc[u] /\ proc'[u] = proc[u] /\ found'[u] = found[u]
        BY <3>2, <3>3
      <4>2. proc[u] \in ProcAddr /\ lock_fiber[proc[u]] = u /\ lock_fiber[proc[t]] = t
        BY <3>1, <3>3, <4>1
      <4> QED
        BY <3>2, <3>3, <4>1, <4>2
    <3> QED
      BY <3>2, <3>3
  <2>3. CASE SwitchFind(t) /\ pc'[t] = "sw_check"
    <3>1. /\ UNCHANGED <<proc, lock_fiber>> /\ pc[t] = "sw_find" /\ found'[t] \in FiberAddr
          /\ \A u \in Thread \ {t} : pc'[u] = pc[u] /\ found'[u] = found[u]
      BY <2>3 DEF SwitchFind
    <3> QED
      BY <2>3, <3>1
  <2>4. SwitchFind(t) => pc'[t] \in {"user", "sw_check"}
    BY DEF SwitchFind
  <2> QED
    BY <1>4, <2>1, <2>2, <2>3, <2>4
<1>5. ASSUME NEW t \in Thread, SwitchCheck(t) PROVE LockInv'
  <2>1. CASE running[found[t]]
    BY <1>5, <2>1 DEF SwitchCheck
  <2>2. CASE ~running[found[t]]
    BY <1>5, <2>2, LockFrame DEF SwitchCheck
  <2> QED
    BY <2>1, <2>2
<1>6. ASSUME NEW t \in Thread, SwitchCommit(t) PROVE LockInv'
  BY <1>6 DEF SwitchCommit
<1> QED
  BY StepCases, <1>1, <1>2, <1>3, <1>4, <1>5, <1>6

\* Steps that hash no fiber and enter no locked section keep HomeInv.
LEMMA HomeFrame ==
  ASSUME HomeInv, UNCHANGED regs, \A p \in ProcAddr : fibers'[p] \subseteq fibers[p],
         \A u \in Thread : pc'[u] \in Holding =>
             pc[u] \in Holding /\ proc'[u] = proc[u] /\ found'[u] = found[u]
  PROVE  HomeInv'
<1>1. \A f \in FiberAddr, p \in ProcAddr : BelongsTo(f, p)' => BelongsTo(f, p)
  BY DEF BelongsTo
<1> QED
  BY <1>1 DEF HomeInv

\* Hashing the fiber t has built adds it to one process.
LEMMA HomeAdd ==
  ASSUME HomeInv, NEW f \in FiberAddr, NEW p \in ProcAddr, regs[f] = NULL, regs'[f] # NULL,
         \A g \in FiberAddr : regs[g] # NULL => regs'[g] # NULL,
         \A q \in ProcAddr : fibers'[q] \subseteq IF q = p THEN fibers[q] \cup {f} ELSE fibers[q],
         \A u \in Thread : pc'[u] \in Holding =>
             pc[u] \in Holding /\ proc'[u] = proc[u] /\ found'[u] = found[u]
  PROVE  HomeInv'
<1>1. \A g \in FiberAddr, q \in ProcAddr : BelongsTo(g, q)' => BelongsTo(g, q) \/ (g = f /\ q = p)
  BY DEF BelongsTo
<1>2. \A q \in ProcAddr : ~BelongsTo(f, q)
  BY DEF HomeInv
<1> QED
  BY <1>1, <1>2 DEF HomeInv

\* Fibers never change process, not even when hash_init wipes a table.
LEMMA HomeStep ==
  ASSUME TypeOK, HandlerInv, [Next]_vars
  PROVE  HomeInv'
<1> USE DEF HandlerInv, Holding, TypeOK, TypeThreads
<1>1. CASE UNCHANGED vars
  BY <1>1, HomeFrame DEF vars
<1>2. ASSUME NEW t \in Thread,
             \/ Oops(t) \/ UserStep(t) \/ ConvertSearch(t) \/ CreateSearch(t) \/ ExitSearch(t)
             \/ \E i \in 0..MaxFiber : SwitchSearch(t, i)
      PROVE  HomeInv'
  BY <1>2, HomeFrame DEF Oops, UserStep, ConvertSearch, CreateSearch, KzallocFiber, ExitSearch,
     SwitchSearch
<1>3. ASSUME NEW t \in Thread,
             \/ ConvertNewProcess(t) \/ ConvertThread(t) \/ ConvertCount(t)
             \/ ConvertInitThreads(t) \/ SwitchLock(t) \/ SwitchCheck(t) \/ ExitThread(t)
             \/ ExitLast(t)
      PROVE  HomeInv'
  BY <1>3, HomeFrame DEF ConvertNewProcess, ConvertThread, ConvertCount, ConvertInitThreads,
     SwitchLock, SwitchCheck, ExitThread, ExitLast
<1> USE DEF TypeProcesses, TypeFibers
<1>4. ASSUME NEW t \in Thread, ConvertInitFibers(t) \/ ExitFree(t) PROVE HomeInv'
  <2>1. UNCHANGED <<regs, proc, found>> /\ proc[t] \in ProcAddr
    BY <1>4 DEF ConvertInitFibers, ExitFree
  <2>2. \A p \in ProcAddr : fibers'[p] \subseteq fibers[p]
    <3>1. \/ fibers' = [fibers EXCEPT ![proc[t]] = {}]
          \/ fibers' = [fibers EXCEPT ![proc[t]] = @ \ {active[proc[t]][t]}]
      BY <1>4 DEF ConvertInitFibers, ExitFree
    <3>2. fibers \in [ProcAddr -> SUBSET FiberAddr]
      OBVIOUS
    <3> HIDE DEF TypeProcesses, TypeFibers
    <3>3. CASE fibers' = [fibers EXCEPT ![proc[t]] = {}]
      BY <3>2, <3>3
    <3>4. CASE fibers' = [fibers EXCEPT ![proc[t]] = @ \ {active[proc[t]][t]}]
      BY <3>2, <3>4
    <3> QED
      BY <3>1, <3>3, <3>4
  <2>3. \A u \in Thread : pc'[u] \in Holding => pc[u] \in Holding
    BY <1>4 DEF ConvertInitFibers, ExitFree
  <2> QED
    BY <2>1, <2>2, <2>3, HomeFrame
<1>5. ASSUME NEW t \in Thread, ConvertFiber(t) PROVE HomeInv'
  <2>1. new[t] \in FiberAddr /\ regs[new[t]] = NULL
    BY <1>5 DEF ConvertFiber, BuildingInv, Building, Creating
  <2>2. live[t] # NULL
    BY <1>5 DEF ConvertFiber, ExitedInv, Exiting
  <2>3. /\ proc[t] \in ProcAddr
        /\ regs' = [regs EXCEPT ![new[t]] = live[t]]
        /\ fibers' = [fibers EXCEPT ![proc[t]] = @ \cup {new[t]}]
        /\ pc' = [pc EXCEPT ![t] = "cv_count"] /\ UNCHANGED <<proc, found>>
    BY <1>5 DEF ConvertFiber
  <2> QED
    BY <2>1, <2>2, <2>3, HomeAdd
<1>6. ASSUME NEW t \in Thread, CreateFiber(t) PROVE HomeInv'
  <2>1. CASE t \notin threads[proc[t]]
    BY <1>6, <2>1, HomeFrame DEF CreateFiber
  <2>2. CASE t \in threads[proc[t]]
    <3>1. new[t] \in FiberAddr /\ regs[new[t]] = NULL
      BY <1>6, <2>2 DEF CreateFiber, BuildingInv, Building, Creating
    <3>2. [who |-> new[t], at |-> 0] # NULL
      BY <3>1, NamesAssumption, ConstantsAssumption DEF Context
    <3>3. /\ proc[t] \in ProcAddr
          /\ regs' = [regs EXCEPT ![new[t]] = [who |-> new[t], at |-> 0]]
          /\ fibers' = [fibers EXCEPT ![proc[t]] = @ \cup {new[t]}]
          /\ pc' = [pc EXCEPT ![t] = "user"]
          /\ \A u \in Thread \ {t} : proc'[u] = proc[u] /\ found'[u] = found[u]
      BY <1>6, <2>2 DEF CreateFiber
    <3>4. regs \in [FiberAddr -> Context \cup {NULL}] /\ fibers \in [ProcAddr -> SUBSET FiberAddr]
      OBVIOUS
    <3>5. \A u \in Thread : pc'[u] \in Holding =>
             pc[u] \in Holding /\ proc'[u] = proc[u] /\ found'[u] = found[u]
      BY <3>3
    <3> HIDE DEF HandlerInv, Holding, TypeOK, TypeThreads, TypeProcesses, TypeFibers
    <3>6. regs'[new[t]] # NULL /\ \A g \in FiberAddr : regs[g] # NULL => regs'[g] # NULL
      BY <3>1, <3>2, <3>3, <3>4
    <3>7. \A q \in ProcAddr :
            fibers'[q] \subseteq IF q = proc[t] THEN fibers[q] \cup {new[t]} ELSE fibers[q]
      BY <3>3, <3>4
    <3>8. HomeInv
      BY DEF HandlerInv
    <3> QED
      BY <3>1, <3>3, <3>5, <3>6, <3>7, <3>8, HomeAdd
  <2> QED
    BY <2>1, <2>2
<1>7. ASSUME NEW t \in Thread, SwitchFind(t) PROVE HomeInv'
  <2>1. CASE pc'[t] = "user"
    BY <1>7, <2>1, HomeFrame DEF SwitchFind
  <2>2. ASSUME NEW f \in FiberAddr, search_fiber(f, want[t], proc[t]),
               found' = [found EXCEPT ![t] = f]
        PROVE  HomeInv'
    <3>1. \A g \in FiberAddr, q \in ProcAddr : BelongsTo(g, q)' => BelongsTo(g, q)
      BY <1>7, <2>2 DEF SwitchFind, BelongsTo, search_fiber
    <3> QED
      BY <1>7, <3>1 DEF SwitchFind, HomeInv
  <2> QED
    BY <1>7, <2>1, <2>2 DEF SwitchFind
<1>8. ASSUME NEW t \in Thread, SwitchCommit(t) PROVE HomeInv'
  <2>1. live[t] # NULL
    BY <1>8 DEF SwitchCommit, ExitedInv, Exiting
  <2>2. \A f \in FiberAddr : regs[f] # NULL => regs'[f] # NULL
    BY <1>8, <2>1 DEF SwitchCommit
  <2>3. \A f \in FiberAddr, p \in ProcAddr : BelongsTo(f, p)' => BelongsTo(f, p)
    BY <1>8 DEF SwitchCommit, BelongsTo
  <2> QED
    BY <2>2, <2>3 DEF HomeInv
<1> QED
  BY StepCases, <1>1, <1>2, <1>3, <1>4, <1>5, <1>6, <1>7, <1>8

\* A fiber found parked under the lock cannot be resumed by anyone else before the
\* holder commits: another committing thread holds another process's lock, and
\* then its fiber belongs to that process.
LEMMA ChosenStep ==
  ASSUME TypeOK, HandlerInv, [Next]_vars
  PROVE  ChosenInv'
<1> USE DEF HandlerInv, TypeOK, TypeThreads, ChosenInv
<1>1. CASE UNCHANGED vars
  BY <1>1 DEF vars
<1>2. ASSUME NEW t \in Thread,
             \/ Oops(t) \/ UserStep(t) \/ ConvertSearch(t) \/ CreateSearch(t) \/ ExitSearch(t)
             \/ \E i \in 0..MaxFiber : SwitchSearch(t, i)
      PROVE  ChosenInv'
  BY <1>2 DEF Oops, UserStep, ConvertSearch, CreateSearch, KzallocFiber, ExitSearch, SwitchSearch
<1>3. ASSUME NEW t \in Thread,
             \/ ConvertNewProcess(t) \/ ConvertInitThreads(t) \/ ConvertInitFibers(t) \/ ConvertThread(t) \/ ConvertCount(t)
             \/ ExitThread(t) \/ ExitFree(t) \/ ExitLast(t)
      PROVE  ChosenInv'
  BY <1>3 DEF ConvertNewProcess, ConvertInitThreads, ConvertInitFibers, ConvertThread, ConvertCount, ExitThread,
     ExitFree, ExitLast
<1>4. ASSUME NEW t \in Thread, SwitchLock(t) \/ SwitchFind(t) \/ SwitchCheck(t) PROVE ChosenInv'
  BY <1>4 DEF SwitchLock, SwitchFind, SwitchCheck
<1>5. \A u \in Thread : pc[u] = "sw_commit" =>
        found[u] \in FiberAddr /\ regs[found[u]] # NULL /\ BelongsTo(found[u], proc[u])
        /\ proc[u] \in ProcAddr /\ lock_fiber[proc[u]] = u
  BY DEF LockInv, Locked, Holding, HomeInv, BelongsTo
<1> USE DEF TypeFibers
<1>6. ASSUME NEW t \in Thread, ConvertFiber(t) PROVE ChosenInv'
  <2>1. regs[new[t]] = NULL
    BY <1>6 DEF ConvertFiber, BuildingInv, Building, Creating
  <2> QED
    BY <1>5, <1>6, <2>1 DEF ConvertFiber
<1>7. ASSUME NEW t \in Thread, CreateFiber(t) PROVE ChosenInv'
  BY <1>5, <1>7 DEF CreateFiber
<1>8. ASSUME NEW t \in Thread, SwitchCommit(t) PROVE ChosenInv'
  <2>1. \A u \in Thread \ {t} : pc[u] = "sw_commit" => found[u] # found[t]
    BY <1>5, <1>8 DEF SwitchCommit, HomeInv
  <2>2. \A u \in Thread \ {t} : pc'[u] = pc[u] /\ found'[u] = found[u]
    BY <1>8 DEF SwitchCommit
  <2>3. \A f \in FiberAddr : f # found[t] /\ ~running[f] => ~running'[f]
    BY <1>8 DEF SwitchCommit
  <2>4. pc'[t] = "user"
    BY <1>8 DEF SwitchCommit
  <2> QED
    BY <1>5, <2>1, <2>2, <2>3, <2>4
<1> QED
  BY StepCases, <1>1, <1>2, <1>3, <1>4, <1>6, <1>7, <1>8

\* Contexts are only copied from where computations already are, except that
\* CREATEFIBER starts the computation of the fiber it completes.
LEMMA StartedStep ==
  ASSUME TypeOK, HandlerInv, [Next]_vars
  PROVE  StartedInv'
<1> USE DEF HandlerInv, StartedInv, Loaded
<1>1. CASE UNCHANGED vars
  BY <1>1 DEF vars
<1>2. ASSUME NEW t \in Thread,
             \/ Oops(t) \/ ConvertSearch(t) \/ CreateSearch(t)
             \/ \E i \in 0..MaxFiber : SwitchSearch(t, i)
             \/ ConvertNewProcess(t) \/ ConvertInitThreads(t) \/ ConvertInitFibers(t) \/ ConvertThread(t) \/ ConvertCount(t)
      PROVE  StartedInv'
  BY <1>2 DEF Oops, ConvertSearch, CreateSearch, SwitchSearch, ConvertNewProcess,
     ConvertInitThreads, ConvertInitFibers, ConvertThread, ConvertCount
<1>3. ASSUME NEW t \in Thread,
             \/ SwitchLock(t) \/ SwitchFind(t) \/ SwitchCheck(t) \/ ExitThread(t) \/ ExitFree(t) \/ ExitLast(t)
      PROVE  StartedInv'
  BY <1>3 DEF SwitchLock, SwitchFind, SwitchCheck, ExitThread, ExitFree, ExitLast
<1> USE DEF TypeOK, TypeThreads, TypeFibers
<1>4. ASSUME NEW t \in Thread, ExitSearch(t) PROVE StartedInv'
  BY <1>4 DEF ExitSearch
<1>5. ASSUME NEW t \in Thread, UserStep(t) PROVE StartedInv'
  <2>1. live[t] # NULL
    BY <1>5 DEF UserStep, ExitedInv, Exiting
  <2> QED
    BY <1>5, <2>1 DEF UserStep
<1>6. ASSUME NEW t \in Thread, ConvertFiber(t) PROVE StartedInv'
  <2>1. live[t] # NULL /\ new[t] \in FiberAddr
    BY <1>6 DEF ConvertFiber, ExitedInv, Exiting
  <2>2. UNCHANGED live /\ regs' = [regs EXCEPT ![new[t]] = live[t]]
    BY <1>6 DEF ConvertFiber
  <2>3. \A g \in FiberAddr : regs[g] # NULL => regs'[g] # NULL
    BY <2>1, <2>2
  <2> QED
    BY <2>1, <2>2, <2>3
<1>7. ASSUME NEW t \in Thread, CreateFiber(t) PROVE StartedInv'
  <2>1. CASE UNCHANGED regs
    BY <1>7, <2>1 DEF CreateFiber
  <2>2. CASE new[t] # NULL /\ regs' = [regs EXCEPT ![new[t]] = [who |-> new[t], at |-> 0]]
    <3>1. UNCHANGED live /\ new[t] \in FiberAddr
      BY <1>7, <2>2 DEF CreateFiber
    <3>2. [who |-> new[t], at |-> 0] # NULL
      BY <3>1, NamesAssumption, ConstantsAssumption DEF Context
    <3>3. \A g \in FiberAddr : regs[g] # NULL => regs'[g] # NULL
      BY <2>2, <3>1, <3>2
    <3> QED
      BY <2>2, <3>1, <3>2, <3>3
  <2> QED
    BY <1>7, <2>1, <2>2 DEF CreateFiber
<1>8. ASSUME NEW t \in Thread, SwitchCommit(t) PROVE StartedInv'
  <2>1. CASE UNCHANGED <<regs, live>>
    BY <2>1
  <2>2. CASE ~UNCHANGED <<regs, live>>
    <3> DEFINE a == active[proc[t]][t]
    <3>1. live[t] # NULL /\ found[t] \in FiberAddr /\ regs[found[t]] # NULL
      BY <1>8 DEF SwitchCommit, ExitedInv, Exiting, HomeInv, BelongsTo, LockInv, Locked, Holding
    <3>2. a \in FiberAddr /\ live' = [live EXCEPT ![t] = regs[found[t]]]
          /\ regs' = [regs EXCEPT ![a] = live[t]]
      BY <1>8, <2>2 DEF SwitchCommit
    <3>3. \A g \in FiberAddr : regs[g] # NULL => regs'[g] # NULL
      BY <3>1, <3>2
    <3> HIDE DEF a
    <3> QED
      BY <3>1, <3>2, <3>3
  <2> QED
    BY <2>1, <2>2
<1> QED
  BY StepCases, <1>1, <1>2, <1>3, <1>4, <1>5, <1>6, <1>7, <1>8

-----------------------------------------------------------------------------
(* ContextsExclusive *)

\* Steps that start, copy or park no computation keep them apart.
LEMMA ExclusiveFrame ==
  ASSUME ContextsExclusive,
         \A u \in Thread : live'[u] # NULL => live[u] # NULL /\ live'[u].who = live[u].who,
         \A g \in Parked' : g \in Parked /\ regs'[g].who = regs[g].who
  PROVE  ContextsExclusive'
BY DEF ContextsExclusive, Loaded

\* A computation stays in one place.
LEMMA ExclusiveStep ==
  ASSUME TypeOK, HandlerInv, ContextsExclusive, [Next]_vars
  PROVE  ContextsExclusive'
<1> USE DEF HandlerInv, TypeOK, TypeThreads, TypeFibers
<1>1. CASE UNCHANGED vars
  BY <1>1, ExclusiveFrame DEF vars, Parked
<1>2. ASSUME NEW t \in Thread, UserStep(t) PROVE ContextsExclusive'
  <2>1. live[t] # NULL
    BY <1>2 DEF UserStep, ExitedInv, Exiting
  <2> QED
    BY <1>2, <2>1, ExclusiveFrame DEF UserStep, Parked
<1>3. ASSUME NEW t \in Thread, ConvertSearch(t) \/ CreateSearch(t) PROVE ContextsExclusive'
  <2>1. UNCHANGED <<live, regs, running>>
    BY <1>3 DEF ConvertSearch, CreateSearch
  <2>2. \A f \in heap' : f \in heap \/ regs[f] = NULL
    <3>1. heap' = heap \/ (nfiber < MaxFiber /\ heap' = heap \cup {nfiber + 1})
      BY <1>3 DEF ConvertSearch, CreateSearch, KzallocFiber
    <3>2. nfiber < MaxFiber => nfiber + 1 \in FiberAddr /\ nfiber + 1 > nfiber
      BY ConstantsAssumption DEF FiberAddr
    <3> QED
      BY <3>1, <3>2 DEF BuildingInv
  <2> QED
    BY <2>1, <2>2, ExclusiveFrame DEF Parked
<1>4. ASSUME NEW t \in Thread,
             \/ Oops(t) \/ ExitSearch(t) \/ \E i \in 0..MaxFiber : SwitchSearch(t, i)
             \/ ConvertNewProcess(t) \/ ConvertInitThreads(t) \/ ConvertInitFibers(t) \/ ConvertThread(t) \/ ConvertCount(t)
      PROVE  ContextsExclusive'
  BY <1>4, ExclusiveFrame DEF Oops, ExitSearch, SwitchSearch, ConvertNewProcess,
     ConvertInitThreads, ConvertInitFibers, ConvertThread, ConvertCount, Parked
<1>5. ASSUME NEW t \in Thread,
             \/ SwitchLock(t) \/ SwitchFind(t) \/ SwitchCheck(t) \/ ExitThread(t) \/ ExitFree(t) \/ ExitLast(t)
      PROVE  ContextsExclusive'
  BY <1>5, ExclusiveFrame DEF SwitchLock, SwitchFind, SwitchCheck, ExitThread, ExitFree, ExitLast, Parked
<1>6. ASSUME NEW t \in Thread, ConvertFiber(t) PROVE ContextsExclusive'
  BY <1>6, ExclusiveFrame DEF ConvertFiber, Parked
<1>7. ASSUME NEW t \in Thread, CreateFiber(t) PROVE ContextsExclusive'
  <2>1. CASE UNCHANGED objVars
    BY <1>7, <2>1, ExclusiveFrame DEF CreateFiber, Parked
  <2>2. CASE ~UNCHANGED objVars
    <3> DEFINE f == new[t]
    <3>1. /\ f \in FiberAddr /\ regs[f] = NULL
          /\ regs' = [regs EXCEPT ![f] = [who |-> f, at |-> 0]]
          /\ running' = [running EXCEPT ![f] = FALSE]
          /\ UNCHANGED <<heap, live>>
      BY <1>7, <2>2 DEF CreateFiber, BuildingInv, Building, Creating
    <3>2. \A g \in Parked' : (g \in Parked /\ g # f /\ regs'[g] = regs[g]) \/ (g = f /\ regs'[g].who = f)
      BY <3>1 DEF Parked
    <3>3. (\A u \in Loaded : live[u].who # f) /\ (\A g \in Parked : regs[g].who # f)
      BY <3>1 DEF StartedInv, Parked
    <3> HIDE DEF f
    <3> QED
      BY <3>1, <3>2, <3>3 DEF ContextsExclusive, Loaded
  <2> QED
    BY <2>1, <2>2
<1>8. ASSUME NEW t \in Thread, SwitchCommit(t) PROVE ContextsExclusive'
  <2>1. CASE UNCHANGED <<regs, live, running>>
    BY <1>8, <2>1, ExclusiveFrame DEF SwitchCommit, Parked
  <2>2. CASE ~UNCHANGED <<regs, live, running>>
    <3> DEFINE f == found[t]
               a == active[proc[t]][t]
    <3>1. /\ {a, f} \subseteq heap /\ UNCHANGED heap /\ proc[t] \in ProcAddr
          /\ live' = [live EXCEPT ![t] = regs[f]]
          /\ regs' = [regs EXCEPT ![a] = live[t]]
          /\ running' = [running EXCEPT ![a] = FALSE, ![f] = TRUE]
      BY <1>8, <2>2 DEF SwitchCommit, TypeProcesses
    <3>2. f \in Parked /\ t \in Loaded
      BY <1>8, <3>1 DEF SwitchCommit, ChosenInv, ExitedInv, Exiting, HomeInv, BelongsTo, LockInv,
         Locked, Holding, Parked, Loaded
    <3>3. a \in FiberAddr /\ a # f /\ a \notin Parked
      BY <3>1, <3>2, NullIsNoFiber DEF ActiveInv, Parked
    <3>4. \A g \in Parked' : (g \in Parked \ {f} /\ regs'[g] = regs[g]) \/ (g = a /\ regs'[g] = live[t])
      BY <3>1, <3>2, <3>3 DEF Parked
    <3>5. \A u \in Loaded' : (u \in Loaded \ {t} /\ live'[u] = live[u]) \/ (u = t /\ live'[u] = regs[f])
      BY <3>1, <3>2 DEF Loaded
    <3> HIDE DEF f, a
    <3> QED
      BY <3>2, <3>4, <3>5 DEF ContextsExclusive
  <2> QED
    BY <2>1, <2>2
<1> QED
  BY StepCases, <1>1, <1>2, <1>3, <1>4, <1>5, <1>6, <1>7, <1>8

-----------------------------------------------------------------------------
(* The theorems. *)

\* Nothing is allocated, hashed, locked or parked at the start.
LEMMA InitInv == Init => TypeOK /\ HandlerInv /\ ContextsExclusive
<1> SUFFICES ASSUME Init PROVE TypeOK /\ HandlerInv /\ ContextsExclusive
  OBVIOUS
<1>1. \A t \in Thread : [who |-> t, at |-> 0] \in Context
  BY ConstantsAssumption DEF Context
<1>2. TypeOK
  <2>1. TypeProcesses
    BY ConstantsAssumption DEF Init, TypeProcesses
  <2>2. TypeFibers
    BY ConstantsAssumption DEF Init, TypeFibers
  <2>3. live \in [Thread -> Context \cup {NULL}] /\ pc \in [Thread -> Label]
    BY <1>1 DEF Init, Label
  <2>4. TypeThreads
    BY <2>3 DEF Init, TypeThreads
  <2> QED
    BY <2>1, <2>2, <2>4 DEF TypeOK
<1>3. ExitedInv /\ StartedInv
  BY <1>1, NamesAssumption DEF Init, ExitedInv, Exiting, StartedInv, Loaded
<1>4. BuildingInv /\ ActiveInv /\ LockInv /\ HomeInv /\ ChosenInv
  BY DEF Init, BuildingInv, Building, Creating, ActiveInv, LockInv, Locked, Holding, HomeInv, BelongsTo, ChosenInv
<1>5. ContextsExclusive
  BY DEF Init, ContextsExclusive, Loaded, Parked
<1> QED
  BY <1>2, <1>3, <1>4, <1>5 DEF HandlerInv

\* What a handler of fiber_ioctl.c relies on between two of its steps is never
\* disturbed by the handlers of other threads.
THEOREM HandlerInvariant == Spec => [](TypeOK /\ HandlerInv /\ ContextsExclusive)
<1>1. TypeOK /\ HandlerInv /\ ContextsExclusive /\ [Next]_vars
        => (TypeOK /\ HandlerInv /\ ContextsExclusive)'
  <2> SUFFICES ASSUME TypeOK, HandlerInv, ContextsExclusive, [Next]_vars
               PROVE  (TypeOK /\ HandlerInv /\ ContextsExclusive)'
    OBVIOUS
  <2>1. TypeOK'
    BY TypeStep DEF HandlerInv
  <2>2. HandlerInv'
    BY ExitedStep, BuildingStep, ActiveStep, LockStep, HomeStep, ChosenStep, StartedStep
       DEF HandlerInv
  <2>3. ContextsExclusive'
    BY ExclusiveStep
  <2> QED
    BY <2>1, <2>2, <2>3
<1> QED
  BY InitInv, <1>1, PTL DEF Spec

\* In every run of the module each variable keeps a value of its type.
THEOREM TypeCorrect == Spec => []TypeOK
BY HandlerInvariant, PTL

\* No computation is ever executed by two threads, or executed by one while a
\* switch of fiber_ioctl.c could resume it in another.
THEOREM ContextsNeverShared == Spec => []ContextsExclusive
BY HandlerInvariant, PTL

\* active_fiber of a registered thread always points to an allocated fiber that
\* is marked running and is the active fiber of no other thread.
THEOREM ActiveFiberAlwaysOwned == Spec => []ActiveFiberOwned
<1>1. TypeOK /\ HandlerInv => ActiveFiberOwned
  BY DEF TypeOK, TypeProcesses, HandlerInv, ActiveInv, ActiveFiberOwned
<1> QED
  BY <1>1, HandlerInvariant, PTL

-----------------------------------------------------------------------------
(* The module implements FiberContexts. *)

\* A step that leaves the contexts and the parked fibers alone is a stutter.
LEMMA ContextsFrame ==
  ASSUME UNCHANGED <<live, regs>>, Parked' = Parked
  PROVE  UNCHANGED Contexts!ctxVars
BY DEF Contexts!ctxVars, ParkedContexts

\* Every step of a handler is a step of the abstract machine, or a stutter: only
\* the last step of a switch exchanges contexts, only that of a creation adds one.
LEMMA ContextsStep ==
  ASSUME TypeOK, HandlerInv, ContextsExclusive, [Next]_vars
  PROVE  [Contexts!Next]_(Contexts!ctxVars)
<1> USE DEF HandlerInv, TypeOK, TypeThreads, TypeFibers
<1>1. CASE UNCHANGED vars
  BY <1>1, ContextsFrame DEF vars, Parked
<1>2. ASSUME NEW t \in Thread, UserStep(t) PROVE Contexts!Next
  <2>1. live[t] # NULL
    BY <1>2 DEF UserStep, ExitedInv, Exiting
  <2>2. ParkedContexts' = ParkedContexts
    BY <1>2 DEF UserStep, ParkedContexts, Parked
  <2>3. Contexts!UserStep(t)
    BY <1>2, <2>1, <2>2 DEF UserStep, Contexts!UserStep
  <2> QED
    BY <2>3 DEF Contexts!Next
<1>3. ASSUME NEW t \in Thread, ConvertSearch(t) \/ CreateSearch(t)
      PROVE  UNCHANGED Contexts!ctxVars
  <2>1. UNCHANGED <<live, regs, running>>
    BY <1>3 DEF ConvertSearch, CreateSearch
  <2>2. heap' = heap \/ (nfiber < MaxFiber /\ heap' = heap \cup {nfiber + 1})
    BY <1>3 DEF ConvertSearch, CreateSearch, KzallocFiber
  <2>3. nfiber < MaxFiber => nfiber + 1 \in FiberAddr /\ nfiber + 1 > nfiber
    BY ConstantsAssumption DEF FiberAddr
  <2>4. nfiber < MaxFiber => regs[nfiber + 1] = NULL
    BY <2>3 DEF BuildingInv
  <2>5. Parked' = Parked
    BY <2>1, <2>2, <2>4 DEF Parked
  <2> QED
    BY <2>1, <2>5, ContextsFrame
<1>4. ASSUME NEW t \in Thread, ExitSearch(t) PROVE Contexts!Next
  <2>1. live[t] # NULL
    BY <1>4 DEF ExitSearch, ExitedInv, Exiting
  <2>2. ParkedContexts' = ParkedContexts
    BY <1>4 DEF ExitSearch, ParkedContexts, Parked
  <2>3. Contexts!Exit(t)
    BY <1>4, <2>1, <2>2 DEF ExitSearch, Contexts!Exit
  <2> QED
    BY <2>3 DEF Contexts!Next
<1>5. ASSUME NEW t \in Thread,
             \/ Oops(t) \/ (\E i \in 0..MaxFiber : SwitchSearch(t, i))
             \/ ConvertNewProcess(t) \/ ConvertInitThreads(t) \/ ConvertInitFibers(t) \/ ConvertThread(t) \/ ConvertCount(t)
             \/ SwitchLock(t) \/ SwitchFind(t) \/ SwitchCheck(t) \/ ExitThread(t) \/ ExitLast(t)
      PROVE  UNCHANGED Contexts!ctxVars
  <2>1. UNCHANGED <<live, regs, running, heap>>
    BY <1>5 DEF Oops, SwitchSearch, ConvertNewProcess, ConvertInitThreads, ConvertInitFibers, ConvertThread,
       ConvertCount, SwitchLock, SwitchFind, SwitchCheck, ExitThread, ExitLast
  <2> QED
    BY <2>1, ContextsFrame DEF Parked
<1>6. ASSUME NEW t \in Thread, ConvertFiber(t) PROVE UNCHANGED Contexts!ctxVars
  <2>1. /\ new[t] \in FiberAddr /\ regs[new[t]] = NULL
        /\ regs' = [regs EXCEPT ![new[t]] = live[t]]
        /\ running' = [running EXCEPT ![new[t]] = TRUE]
        /\ UNCHANGED <<heap, live>>
    BY <1>6 DEF ConvertFiber, BuildingInv, Building, Creating
  <2>2. Parked' = Parked /\ \A f \in Parked : regs'[f] = regs[f]
    BY <2>1 DEF Parked
  <2>3. ParkedContexts' = ParkedContexts
    BY <2>2 DEF ParkedContexts
  <2> QED
    BY <2>1, <2>3 DEF Contexts!ctxVars
<1>7. ASSUME NEW t \in Thread, CreateFiber(t) PROVE [Contexts!Next]_(Contexts!ctxVars)
  <2>1. CASE UNCHANGED objVars
    BY <1>7, <2>1, ContextsFrame DEF CreateFiber, Parked
  <2>2. CASE ~UNCHANGED objVars
    <3> DEFINE f == new[t]
               x == [who |-> f, at |-> 0]
    <3>1. /\ f \in heap /\ f \in FiberAddr /\ regs[f] = NULL
          /\ regs' = [regs EXCEPT ![f] = x]
          /\ running' = [running EXCEPT ![f] = FALSE]
          /\ UNCHANGED <<heap, live>>
      BY <1>7, <2>2 DEF CreateFiber, BuildingInv, Building, Creating
    <3>2. x # NULL
      BY <3>1, NamesAssumption, ConstantsAssumption DEF Context
    <3>3. f \notin Parked /\ Parked' = Parked \cup {f}
      BY <3>1, <3>2 DEF Parked
    <3>4. regs'[f] = x /\ \A g \in Parked : regs'[g] = regs[g]
      BY <3>1, <3>3 DEF Parked
    <3>5. ParkedContexts' = ParkedContexts \cup {x}
      BY <3>3, <3>4 DEF ParkedContexts
    <3>6. (\A u \in Thread : live[u] # NULL => live[u].who # f) /\ (\A y \in ParkedContexts : y.who # f)
      BY <3>1 DEF StartedInv, Loaded, Parked, ParkedContexts
    <3>7. Contexts!Create(f)
      BY <3>1, <3>5, <3>6 DEF Contexts!Create
    <3> QED
      BY <3>1, <3>7 DEF Contexts!Next
  <2> QED
    BY <2>1, <2>2
<1>8. ASSUME NEW t \in Thread, SwitchCommit(t) PROVE [Contexts!Next]_(Contexts!ctxVars)
  <2>1. CASE UNCHANGED <<regs, live, running>>
    BY <1>8, <2>1, ContextsFrame DEF SwitchCommit, Parked
  <2>2. CASE ~UNCHANGED <<regs, live, running>>
    <3> DEFINE f == found[t]
               a == active[proc[t]][t]
    <3>1. /\ {a, f} \subseteq heap /\ UNCHANGED heap /\ proc[t] \in ProcAddr
          /\ live' = [live EXCEPT ![t] = regs[f]]
          /\ regs' = [regs EXCEPT ![a] = live[t]]
          /\ running' = [running EXCEPT ![a] = FALSE, ![f] = TRUE]
      BY <1>8, <2>2 DEF SwitchCommit, TypeProcesses
    <3>2. f \in Parked /\ live[t] # NULL
      BY <1>8, <3>1 DEF SwitchCommit, ChosenInv, ExitedInv, Exiting, HomeInv, BelongsTo, LockInv,
         Locked, Holding, Parked
    <3>3. a \in FiberAddr /\ a # f /\ a \notin Parked
      BY <3>1, <3>2, NullIsNoFiber DEF ActiveInv, Parked
    <3>4. Parked' = (Parked \ {f}) \cup {a}
      BY <3>1, <3>2, <3>3 DEF Parked
    <3>5. regs'[a] = live[t] /\ \A g \in Parked : regs'[g] = regs[g]
      BY <3>1, <3>3 DEF Parked
    <3>6. \A g \in Parked : g # f => regs[g] # regs[f]
      BY <3>2 DEF ContextsExclusive
    <3> HIDE DEF f, a
    <3>7. ParkedContexts' = (ParkedContexts \ {regs[f]}) \cup {live[t]}
      BY <3>2, <3>4, <3>5, <3>6 DEF ParkedContexts
    <3>8. Contexts!Switch(t, regs[f]) /\ regs[f] \in ParkedContexts
      BY <3>1, <3>2, <3>7 DEF Contexts!Switch, ParkedContexts
    <3> QED
      BY <3>8 DEF Contexts!Next
  <2> QED
    BY <2>1, <2>2
<1>9. ASSUME NEW t \in Thread, ExitFree(t) PROVE UNCHANGED Contexts!ctxVars
  <2>1. /\ proc[t] \in ProcAddr /\ heap' = heap \ {active[proc[t]][t]}
        /\ UNCHANGED <<live, regs, running>>
    BY <1>9 DEF ExitFree, TypeProcesses
  <2>2. active[proc[t]][t] \notin Parked
    BY <2>1, NullIsNoFiber DEF ActiveInv, Parked, TypeProcesses
  <2>3. Parked' = Parked
    BY <2>1, <2>2 DEF Parked
  <2> QED
    BY <2>1, <2>3, ContextsFrame
<1> QED
  BY StepCases, <1>1, <1>2, <1>3, <1>4, <1>5, <1>6, <1>7, <1>8, <1>9

\* The fine-grained handlers implement the API promise of FiberContexts: a switch
\* is one atomic exchange of contexts, and none is lost, copied or set back.
THEOREM HandlersImplementContexts == Spec => ImplementsContexts
<1>1. Init => Contexts!Init
  BY DEF Init, Contexts!Init, ParkedContexts, Parked
<1> QED
  BY <1>1, ContextsStep, HandlerInvariant, PTL DEF Spec, ImplementsContexts, Contexts!Spec

-----------------------------------------------------------------------------
(* Until a first conversion or an exit meets another call of its process    *)
(* (overlapped).  Allocations may fail: FaultInv says what that costs.       *)

\* While nothing has overlapped: a thread that creates the process_arg_t or exits does so
\* while no other thread of its process is inside a handler.
AloneInv ==
    \A t \in Thread : pc[t] \in Creating \cup Exiting =>
        \A u \in Peers(t) : pc[u] \in {"user", "dead"}

\* The labels at which a new process_arg_t is hashed and its tables are not initialised.
Initialising == {"cv_threads", "cv_fibers"}

\* There is one process_arg_t for a pid, and a handler works on that of its caller.
ProcessInv ==
    /\ \A p \in list_process : p <= nproc
    /\ \A p, q \in list_process : pid[p] = pid[q] => p = q
    /\ \A p \in ProcAddr : p > nproc => threads[p] = {} /\ fibers[p] = {}
    /\ \A t \in Thread :
         /\ pc[t] \notin {"user", "dead", "cv_process"} =>
              proc[t] \in list_process /\ pid[proc[t]] = tgid[t]
         /\ pc[t] = "cv_process" => NoProcess(tgid[t])
         /\ pc[t] \in Initialising => threads[proc[t]] = {} /\ fibers[proc[t]] = {}

\* A thread is registered in its own process, from its conversion to its exit.
RegisteredInv ==
    /\ \A p \in ProcAddr : \A t \in threads[p] :
         /\ p \in list_process /\ pid[p] = tgid[t] /\ pc[t] \notin {"ex_last", "dead"}
         /\ pc[t] = "cv_fiber" <=> active[p][t] = NULL
    /\ \A t \in Thread : pc[t] \in {"cv_fiber", "cv_count", "ex_free"} => t \in threads[proc[t]]
    /\ \A p \in ProcAddr, t \in Thread :
         active[p][t] # NULL => t \in threads[p] /\ active[p][t] \in fibers[p]
    /\ \A t \in Thread : converted[t] /\ pc[t] \notin Exiting \cup {"dead"} =>
         \E p \in list_process : t \in threads[p]

\* The fibers of a process are allocated and have numbers of their own, below the next.
NumbersInv ==
    \A p \in ProcAddr : \A f \in fibers[p] :
        /\ f \in heap /\ index[f] < fiber_id[p]
        /\ \A g \in fibers[p] : index[f] = index[g] => f = g

\* The fiber a handler has found stays in its table, and the one it makes was allocated.
FoundInv ==
    \A t \in Thread : /\ pc[t] \in Holding => found[t] \in fibers[proc[t]]
                      /\ pc[t] \in Building /\ ~AllocFails => new[t] # NULL

\* A fiber marked as running is complete, and a thread executes it.
RunningExecuted ==
    \A f \in heap : running[f] => \E p \in list_process : \E t \in threads[p] : active[p][t] = f

RunningInv == RunningExecuted /\ \A f \in FiberAddr : running[f] => regs[f] # NULL

FibersInv == NumbersInv /\ FoundInv /\ RunningInv

\* The threads that count_threads counts: registered, and not between the two steps of a
\* handler of which one registers and the other counts.
Counted == {t \in Thread : /\ pc[t] \notin {"cv_fiber", "cv_count", "ex_free"}
                           /\ \E p \in ProcAddr : t \in threads[p]}

CountInv == IsFiniteSet(Counted) /\ count_threads = Cardinality(Counted)

\* The only fault left is the NULL of a failed kzalloc of the fiber, dereferenced by
\* CONVERTTHREADTOFIBER or CREATEFIBER.
FaultInv ==
    fault => \E t \in Thread : AllocFails /\ new[t] = NULL /\ pc[t] \in {"cv_fiber", "cr_fiber"}

DisciplineInv ==
    AloneInv /\ ProcessInv /\ RegisteredInv /\ FibersInv /\ CountInv /\ FaultInv

\* Everything but the mark of a fault, after which nothing happens.
kernelVars == <<list_process, pid, fiber_id, threads, fibers, lock_fiber, active, heap, index,
                running, regs, count_threads, nproc, nfiber, pc, proc, new, want, found, live,
                converted>>

-----------------------------------------------------------------------------
\* The process and the fibers that a handler dereferences are allocated; only the fiber
\* under construction may not be.
LEMMA OopsIsAllocation ==
  ASSUME TypeOK, HandlerInv, DisciplineInv, NEW t \in Thread, Oops(t)
  PROVE  AllocFails /\ new[t] = NULL /\ pc[t] \in {"cv_fiber", "cr_fiber"}
<1> USE NullIsNoFiber
<1> USE DEF TypeOK, TypeThreads, TypeProcesses, DisciplineInv
<1>1. ~(UsesProcess(t) /\ proc[t] \notin list_process)
  BY DEF UsesProcess, ProcessInv
<1>2. pc[t] \in Holding => proc[t] \in ProcAddr /\ found[t] \in heap
  BY DEF Holding, Locked, HandlerInv, LockInv, FibersInv, NumbersInv, FoundInv
<1>3. pc[t] = "sw_commit" /\ t \in threads[proc[t]] => active[proc[t]][t] \in heap
  BY <1>2 DEF Locked, Holding, RegisteredInv, HandlerInv, ActiveInv
<1>4. new[t] = NULL /\ pc[t] \in {"cv_fiber", "cr_fiber"}
  BY <1>1, <1>2, <1>3 DEF Oops, Locked, Holding
<1> QED
  BY <1>4 DEF FibersInv, FoundInv, Building, Creating

\* A step of the specification is a step of one handler, or changes nothing but `fault'.
LEMMA DisciplinedCases ==
  ASSUME TypeOK, HandlerInv, DisciplineInv, [Next]_vars
  PROVE  \/ UNCHANGED kernelVars
         \/ \E t \in Thread :
              /\ fault' = fault /\ (UNCHANGED overlapped \/ overlapped' \in BOOLEAN)
              /\ \/ /\ ~overlapped' => ~Overlaps(t)
                    /\ \/ UserStep(t) \/ ConvertSearch(t) \/ CreateSearch(t) \/ ExitSearch(t)
                       \/ \E i \in 0..MaxFiber : SwitchSearch(t, i)
                 \/ ConvertNewProcess(t) \/ ConvertInitThreads(t) \/ ConvertInitFibers(t) \/ ConvertThread(t)
                 \/ ConvertFiber(t) \/ ConvertCount(t) \/ CreateFiber(t)
                 \/ SwitchLock(t) \/ SwitchFind(t) \/ SwitchCheck(t) \/ SwitchCommit(t)
                 \/ ExitThread(t) \/ ExitFree(t) \/ ExitLast(t)
<1>1. ASSUME NEW t \in Thread, Oops(t) PROVE UNCHANGED kernelVars
  BY <1>1 DEF Oops, kernelVars, procVars, tableVars, objVars, allocVars, localVars, userVars
<1>2. UNCHANGED vars => UNCHANGED kernelVars
  BY DEF vars, kernelVars
<1> QED
  BY StepCases, <1>1, <1>2

\* The step of t inside a handler leaves the threads alone that are to be alone.
LEMMA AloneFrame ==
  ASSUME AloneInv, NEW t \in Thread, \A u \in Thread \ {t} : pc'[u] = pc[u],
         pc[t] \notin {"user", "dead"},
         pc'[t] \in Creating \cup Exiting => pc[t] \in Creating \cup Exiting
  PROVE  AloneInv'
BY DEF AloneInv, Peers, Creating, Exiting

\* A call that overlaps no first conversion and no exit disturbs no thread that is to be
\* alone.
LEMMA AloneEnter ==
  ASSUME AloneInv, NEW t \in Thread, pc[t] = "user", ~Overlaps(t),
         \A u \in Thread \ {t} : pc'[u] = pc[u],
         pc'[t] \in Creating => \A u \in Peers(t) : pc[u] \in {"user", "dead"}
  PROVE  AloneInv'
<1>1. pc'[t] \notin {"user", "dead"} => \A u \in Peers(t) : pc[u] \notin Creating \cup Exiting
  BY DEF Overlaps
<1>2. pc'[t] \in Exiting => \A u \in Peers(t) : pc[u] \in {"user", "dead"}
  BY DEF Overlaps, Exiting
<1> SUFFICES ASSUME NEW s \in Thread, pc'[s] \in Creating \cup Exiting, NEW u \in Peers(s)
             PROVE  pc'[u] \in {"user", "dead"}
  BY DEF AloneInv, Creating, Exiting, Peers
<1>3. u \in Thread /\ u # s /\ s \in Peers(u)
  BY DEF Peers
<1>4. CASE s = t
  BY <1>2, <1>3, <1>4
<1>5. CASE s # t /\ u = t
  BY <1>1, <1>3, <1>5
<1>6. CASE s # t /\ u # t
  BY <1>3, <1>6 DEF AloneInv
<1> QED
  BY <1>4, <1>5, <1>6

\* Every step that overlaps nothing keeps the threads alone that are to be alone.
LEMMA AloneStep ==
  ASSUME TypeOK, HandlerInv, DisciplineInv, [Next]_vars, ~overlapped'
  PROVE  AloneInv'
<1> USE DEF Initialising, DisciplineInv, TypeOK, TypeThreads
<1>1. CASE UNCHANGED kernelVars
  BY <1>1 DEF kernelVars, AloneInv
<1>2. ASSUME NEW t \in Thread, UserStep(t) PROVE AloneInv'
  BY <1>2 DEF UserStep, AloneInv
<1>3. ASSUME NEW t \in Thread, ConvertSearch(t), ~Overlaps(t) PROVE AloneInv'
  <2>1. /\ pc[t] = "user" /\ \A u \in Thread \ {t} : pc'[u] = pc[u]
        /\ pc'[t] \in {"cv_process", "cv_thread"}
    BY <1>3 DEF ConvertSearch
  <2>2. CASE pc'[t] = "cv_thread"
    BY <1>3, <2>1, <2>2, AloneEnter DEF Creating
  <2>3. CASE NoProcess(tgid[t])
    <3>1. \A u \in Peers(t) : pc[u] \notin Creating \cup Exiting /\ u \in Thread /\ tgid[u] = tgid[t]
      BY <1>3, <2>1 DEF Overlaps, Peers
    <3>2. \A u \in Peers(t) : pc[u] \in {"user", "dead"}
      BY <2>3, <3>1 DEF NoProcess, ProcessInv, Creating
    <3> QED
      BY <1>3, <2>1, <3>2, AloneEnter
  <2> QED
    BY <1>3, <2>2, <2>3 DEF ConvertSearch
<1>4. ASSUME NEW t \in Thread, ~Overlaps(t),
             CreateSearch(t) \/ ExitSearch(t) \/ \E i \in 0..MaxFiber : SwitchSearch(t, i)
      PROVE  AloneInv'
  <2>1. /\ pc[t] = "user" /\ (\A u \in Thread \ {t} : pc'[u] = pc[u])
        /\ pc'[t] \in {"user", "dead", "cr_fiber", "ex_thread", "sw_lock"}
    BY <1>4 DEF CreateSearch, ExitSearch, SwitchSearch
  <2> QED
    BY <1>4, <2>1, AloneEnter DEF Creating
<1>7. ASSUME NEW t \in Thread,
             \/ ConvertNewProcess(t) \/ ConvertInitThreads(t) \/ ConvertInitFibers(t) \/ ConvertThread(t)
             \/ ConvertFiber(t) \/ ConvertCount(t) \/ CreateFiber(t)
      PROVE  AloneInv'
  <2>1. /\ pc[t] \notin {"user", "dead"} /\ \A u \in Thread \ {t} : pc'[u] = pc[u]
        /\ pc'[t] \in Creating \cup Exiting => pc[t] \in Creating \cup Exiting
    BY <1>7 DEF ConvertNewProcess, ConvertInitThreads, ConvertInitFibers, ConvertThread, ConvertFiber, ConvertCount,
                CreateFiber, Creating, Exiting
  <2> QED
    BY <2>1, AloneFrame
<1>8. ASSUME NEW t \in Thread, SwitchLock(t) \/ SwitchFind(t) \/ SwitchCheck(t) \/ SwitchCommit(t)
      PROVE  AloneInv'
  <2>1. /\ pc[t] \notin {"user", "dead"} /\ \A u \in Thread \ {t} : pc'[u] = pc[u]
        /\ pc'[t] \notin Creating \cup Exiting
    BY <1>8 DEF SwitchLock, SwitchFind, SwitchCheck, SwitchCommit, Creating, Exiting
  <2> QED
    BY <2>1, AloneFrame
<1>9. ASSUME NEW t \in Thread, ExitThread(t) \/ ExitFree(t) \/ ExitLast(t) PROVE AloneInv'
  <2>1. pc[t] \in Exiting /\ \A u \in Thread \ {t} : pc'[u] = pc[u]
    BY <1>9 DEF ExitThread, ExitFree, ExitLast, Exiting
  <2> QED
    BY <2>1, AloneFrame DEF Exiting
<1> QED
  BY DisciplinedCases, <1>1, <1>2, <1>3, <1>4, <1>7, <1>8, <1>9

\* The step of t that neither hashes nor frees a process_arg_t, and that goes on, if at all,
\* with the process of its caller.
LEMMA ProcessFrame ==
  ASSUME ProcessInv, NEW t \in Thread, UNCHANGED <<list_process, pid, nproc>>,
         \A u \in Thread \ {t} : pc'[u] = pc[u] /\ proc'[u] = proc[u],
         pc'[t] \notin {"user", "dead", "cv_process"} =>
             proc'[t] \in list_process /\ pid[proc'[t]] = tgid[t],
         pc'[t] = "cv_process" => NoProcess(tgid[t]),
         pc'[t] \in Initialising => threads'[proc'[t]] = {} /\ fibers'[proc'[t]] = {},
         \A p \in ProcAddr : p > nproc => threads'[p] = {} /\ fibers'[p] = {},
         \A u \in Thread \ {t} : pc[u] \in Initialising =>
             threads'[proc[u]] = {} /\ fibers'[proc[u]] = {}
  PROVE  ProcessInv'
<1>1. \A u \in Thread : pc'[u] \notin {"user", "dead", "cv_process"} =>
          proc'[u] \in list_process' /\ pid'[proc'[u]] = tgid[u]
  BY DEF ProcessInv
<1>2. \A u \in Thread : pc'[u] = "cv_process" => NoProcess(tgid[u])'
  BY DEF ProcessInv, NoProcess
<1>3. \A u \in Thread : pc'[u] \in Initialising => threads'[proc'[u]] = {} /\ fibers'[proc'[u]] = {}
  OBVIOUS
<1> QED
  BY <1>1, <1>2, <1>3 DEF ProcessInv

\* While t is inside a handler, no other thread is about to initialise the tables of the
\* process of t.
LEMMA TablesInUse ==
  ASSUME TypeOK, DisciplineInv, NEW t \in Thread,
         pc[t] \notin {"user", "dead", "cv_process"}
  PROVE  /\ proc[t] \in ProcAddr /\ proc[t] \in list_process /\ proc[t] <= nproc
         /\ pid[proc[t]] = tgid[t]
         /\ \A u \in Thread \ {t} : pc[u] \in Initialising => proc[u] # proc[t]
<1>1. proc[t] \in ProcAddr /\ proc[t] \in list_process /\ proc[t] <= nproc /\ pid[proc[t]] = tgid[t]
  BY DEF TypeOK, TypeProcesses, DisciplineInv, ProcessInv
<1>2. \A u \in Thread \ {t} : pc[u] \in Initialising /\ proc[u] = proc[t] => t \in Peers(u)
  BY <1>1 DEF DisciplineInv, ProcessInv, Peers, Initialising
<1> QED
  BY <1>1, <1>2 DEF DisciplineInv, AloneInv, Creating, Initialising

\* hash_init finds both tables of a new process_arg_t empty still.
LEMMA TablesStillEmpty ==
  ASSUME TypeOK, DisciplineInv, NEW t \in Thread, ConvertInitThreads(t) \/ ConvertInitFibers(t)
  PROVE  UNCHANGED <<threads, fibers>>
<1>1. /\ proc[t] \in ProcAddr /\ pc[t] \in Initialising
      /\ \/ threads' = [threads EXCEPT ![proc[t]] = {}] /\ UNCHANGED fibers
         \/ fibers' = [fibers EXCEPT ![proc[t]] = {}] /\ UNCHANGED threads
  BY DEF ConvertInitThreads, ConvertInitFibers, TypeOK, TypeProcesses, Initialising
<1>2. threads[proc[t]] = {} /\ fibers[proc[t]] = {}
  BY <1>1 DEF DisciplineInv, ProcessInv
<1>3. threads \in [ProcAddr -> SUBSET Thread] /\ fibers \in [ProcAddr -> SUBSET FiberAddr]
  BY DEF TypeOK, TypeProcesses
<1> QED
  BY <1>1, <1>2, <1>3

\* Every step keeps one process_arg_t for a pid and leaves each handler with its own.
LEMMA ProcessStep ==
  ASSUME TypeOK, HandlerInv, DisciplineInv, [Next]_vars
  PROVE  ProcessInv'
<1> USE ConstantsAssumption
<1> USE DEF Initialising, DisciplineInv, TypeOK, TypeThreads, TypeProcesses
<1> DEFINE Others(t) == \A u \in Thread \ {t} : pc'[u] = pc[u] /\ proc'[u] = proc[u]
           Tables(t) == /\ \A p \in ProcAddr : p > nproc => threads'[p] = {} /\ fibers'[p] = {}
                        /\ \A u \in Thread \ {t} : pc[u] \in Initialising =>
                             threads'[proc[u]] = {} /\ fibers'[proc[u]] = {}
           Goes(t) == /\ pc'[t] \notin {"user", "dead", "cv_process"} =>
                           proc'[t] \in list_process /\ pid[proc'[t]] = tgid[t]
                      /\ pc'[t] = "cv_process" => NoProcess(tgid[t])
                      /\ pc'[t] \in Initialising => threads'[proc'[t]] = {} /\ fibers'[proc'[t]] = {}
<1>0. ASSUME NEW t \in Thread, UNCHANGED <<threads, fibers>> PROVE Tables(t)
  BY <1>0 DEF ProcessInv
<1>a. ASSUME NEW t \in Thread, UNCHANGED <<list_process, pid, nproc>>, Others(t), Tables(t), Goes(t)
      PROVE  ProcessInv'
  BY <1>a, ProcessFrame
<1>1. CASE UNCHANGED kernelVars
  BY <1>1 DEF kernelVars, ProcessInv, NoProcess
<1>2. ASSUME NEW t \in Thread, UserStep(t) PROVE ProcessInv'
  BY <1>2 DEF UserStep, ProcessInv, NoProcess
<1>3. ASSUME NEW t \in Thread, ConvertSearch(t) PROVE ProcessInv'
  <2>1. UNCHANGED <<list_process, pid, nproc, threads, fibers>> /\ Others(t)
    BY <1>3 DEF ConvertSearch
  <2>2. Goes(t)
    BY <1>3 DEF ConvertSearch, search_process
  <2> QED
    BY <2>1, <2>2, <1>0, <1>a
<1>4. ASSUME NEW t \in Thread, CreateSearch(t) PROVE ProcessInv'
  <2>1. UNCHANGED <<list_process, pid, nproc, threads, fibers>> /\ Others(t)
    BY <1>4 DEF CreateSearch
  <2>2. Goes(t)
    BY <1>4 DEF CreateSearch, search_process
  <2> QED
    BY <2>1, <2>2, <1>0, <1>a
<1>5. ASSUME NEW t \in Thread, ExitSearch(t) PROVE ProcessInv'
  <2>1. UNCHANGED <<list_process, pid, nproc, threads, fibers>> /\ Others(t)
    BY <1>5 DEF ExitSearch
  <2>2. Goes(t)
    BY <1>5 DEF ExitSearch, search_process
  <2> QED
    BY <2>1, <2>2, <1>0, <1>a
<1>6. ASSUME NEW t \in Thread, NEW i \in 0..MaxFiber, SwitchSearch(t, i) PROVE ProcessInv'
  <2>1. UNCHANGED <<list_process, pid, nproc, threads, fibers>> /\ Others(t)
    BY <1>6 DEF SwitchSearch
  <2>2. Goes(t)
    BY <1>6 DEF SwitchSearch, search_process
  <2> QED
    BY <2>1, <2>2, <1>0, <1>a
<1>7. ASSUME NEW t \in Thread, ConvertNewProcess(t) PROVE ProcessInv'
  <2>1. CASE pc'[t] = "user"
    <3>1. UNCHANGED <<list_process, pid, nproc, threads, fibers>> /\ Others(t)
      BY <1>7, <2>1 DEF ConvertNewProcess
    <3> QED
      BY <2>1, <3>1, <1>0, <1>a
  <2>2. CASE pc'[t] # "user"
    <3> DEFINE p == nproc + 1
    <3>1. /\ nproc < MaxProc /\ nproc' = p /\ list_process' = list_process \cup {p}
          /\ pid' = [pid EXCEPT ![p] = tgid[t]] /\ UNCHANGED <<threads, fibers>>
          /\ proc' = [proc EXCEPT ![t] = p] /\ pc' = [pc EXCEPT ![t] = "cv_threads"]
      BY <1>7, <2>2 DEF ConvertNewProcess
    <3>2. p \in ProcAddr /\ p \notin list_process /\ threads[p] = {} /\ fibers[p] = {}
      BY <3>1 DEF ProcAddr, ProcessInv
    <3>3. pc[t] = "cv_process" /\ NoProcess(tgid[t])
      BY <1>7 DEF ConvertNewProcess, ProcessInv
    <3>4. \A q \in list_process : q \in ProcAddr /\ q # p /\ pid'[q] = pid[q] /\ pid[q] # tgid[t]
      BY <3>1, <3>2, <3>3 DEF NoProcess
    <3>5. pid'[p] = tgid[t] /\ proc'[t] = p /\ pc'[t] = "cv_threads"
      BY <3>1, <3>2
    <3>6. \A u \in Thread \ {t} : pc'[u] = pc[u] /\ proc'[u] = proc[u]
      BY <3>1
    <3> HIDE DEF p
    <3>7. \A q \in list_process' : q <= nproc'
      <4>1. \A q \in list_process : q <= nproc /\ q \in Nat
        BY DEF ProcessInv, ProcAddr
      <4> QED
        BY <3>1, <4>1 DEF p
    <3>8. \A q, r \in list_process' : pid'[q] = pid'[r] => q = r
      BY <3>1, <3>4, <3>5 DEF ProcessInv
    <3>9. \A q \in ProcAddr : q > nproc' => threads'[q] = {} /\ fibers'[q] = {}
      BY <3>1 DEF ProcessInv, p, ProcAddr
    <3>10. \A u \in Thread : pc'[u] \notin {"user", "dead", "cv_process"} =>
             proc'[u] \in list_process' /\ pid'[proc'[u]] = tgid[u]
      BY <3>1, <3>4, <3>5, <3>6 DEF ProcessInv
    <3>11. \A u \in Thread : pc'[u] = "cv_process" => NoProcess(tgid[u])'
      <4>1. \A u \in Thread : pc'[u] = "cv_process" => u # t /\ NoProcess(tgid[u])
        BY <3>5, <3>6 DEF ProcessInv
      <4>2. \A u \in Thread \ {t} : pc[u] = "cv_process" => tgid[u] # tgid[t]
        BY <3>3 DEF AloneInv, Peers, Creating
      <4> QED
        BY <3>1, <3>4, <3>5, <3>6, <4>1, <4>2 DEF NoProcess
    <3>12. \A u \in Thread : pc'[u] \in Initialising => threads'[proc'[u]] = {} /\ fibers'[proc'[u]] = {}
      BY <3>1, <3>2, <3>5, <3>6 DEF ProcessInv
    <3> QED
      BY <3>7, <3>8, <3>9, <3>10, <3>11, <3>12 DEF ProcessInv
  <2> QED
    BY <2>1, <2>2
<1>8. ASSUME NEW t \in Thread, ConvertInitThreads(t) \/ ConvertInitFibers(t) PROVE ProcessInv'
  <2>1. UNCHANGED <<list_process, pid, nproc>> /\ Others(t)
    BY <1>8 DEF ConvertInitThreads, ConvertInitFibers
  <2>2. pc[t] \in Initialising /\ pc'[t] \in {"cv_fibers", "cv_thread"} /\ proc'[t] = proc[t]
    BY <1>8 DEF ConvertInitThreads, ConvertInitFibers
  <2>3. UNCHANGED <<threads, fibers>>
    BY <1>8, TablesStillEmpty
  <2>4. Goes(t)
    BY <2>2, <2>3 DEF ProcessInv
  <2> QED
    BY <2>1, <2>3, <2>4, <1>0, <1>a
<1>9. ASSUME NEW t \in Thread, \/ ConvertThread(t) \/ ConvertFiber(t) \/ CreateFiber(t)
                              \/ ExitFree(t)
      PROVE  ProcessInv'
  <2>1. UNCHANGED <<list_process, pid, nproc>> /\ Others(t)
    BY <1>9 DEF ConvertThread, ConvertFiber, CreateFiber, ExitFree
  <2>2. /\ pc[t] \notin {"user", "dead", "cv_process", "cv_threads", "cv_fibers"}
        /\ \/ pc'[t] = "user"
           \/ pc'[t] \in {"cv_fiber", "cv_count", "ex_last"} /\ proc'[t] = proc[t]
    BY <1>9 DEF ConvertThread, ConvertFiber, CreateFiber, ExitFree
  <2>3. Goes(t)
    BY <2>2 DEF ProcessInv
  <2>4. \A p \in ProcAddr : p # proc[t] => threads'[p] = threads[p] /\ fibers'[p] = fibers[p]
    BY <1>9 DEF ConvertThread, ConvertFiber, CreateFiber, ExitFree
  <2>5. \A u \in Thread : pc[u] \in Initialising => proc[u] \in ProcAddr
    BY DEF ProcessInv
  <2>6. /\ proc[t] \in ProcAddr /\ proc[t] <= nproc
        /\ \A u \in Thread \ {t} : pc[u] \in Initialising => proc[u] # proc[t]
    BY <2>2, TablesInUse
  <2>7. \A p \in ProcAddr : p > nproc => p # proc[t]
    BY <2>6 DEF ProcAddr
  <2>8. Tables(t)
    BY <2>4, <2>5, <2>6, <2>7 DEF ProcessInv
  <2> QED
    BY <2>1, <2>3, <2>8, <1>a
<1>10. ASSUME NEW t \in Thread,
              ConvertCount(t) \/ SwitchLock(t) \/ SwitchFind(t) \/ SwitchCheck(t) \/ SwitchCommit(t) \/ ExitThread(t)
       PROVE  ProcessInv'
  <2>1. UNCHANGED <<list_process, pid, nproc, threads, fibers>> /\ Others(t)
    BY <1>10 DEF ConvertCount, SwitchLock, SwitchFind, SwitchCheck, SwitchCommit, ExitThread
  <2>2. /\ pc[t] \notin {"user", "dead", "cv_process"}
        /\ \/ pc'[t] \in {"user", "dead"}
           \/ pc'[t] \in {"sw_find", "sw_check", "sw_commit", "ex_free"} /\ proc'[t] = proc[t]
    BY <1>10 DEF ConvertCount, SwitchLock, SwitchFind, SwitchCheck, SwitchCommit, ExitThread
  <2>3. Goes(t)
    BY <2>2 DEF ProcessInv
  <2> QED
    BY <2>1, <2>3, <1>0, <1>a
<1>11. ASSUME NEW t \in Thread, ExitLast(t) PROVE ProcessInv'
  <2>1. /\ list_process' \subseteq list_process
        /\ \A q \in list_process : q # proc[t] => q \in list_process'
        /\ UNCHANGED <<pid, nproc, threads, fibers>>
        /\ Others(t) /\ pc[t] = "ex_last" /\ pc'[t] = "dead"
    BY <1>11 DEF ExitLast
  <2>2. \A u \in Thread \ {t} : pc[u] \notin {"user", "dead", "cv_process"} =>
          proc[u] \in list_process /\ pid[proc[u]] = tgid[u] /\ proc[u] # proc[t]
    <3>1. \A u \in Thread \ {t} : pc[u] \notin {"user", "dead"} => tgid[u] # tgid[t]
      BY <2>1 DEF AloneInv, Peers, Exiting
    <3>2. pid[proc[t]] = tgid[t]
      BY <2>1 DEF ProcessInv
    <3>3. \A u \in Thread : pc[u] \notin {"user", "dead", "cv_process"} =>
            proc[u] \in list_process /\ pid[proc[u]] = tgid[u]
      BY DEF ProcessInv
    <3> QED
      BY <3>1, <3>2, <3>3
  <2>3. \A u \in Thread : pc'[u] = "cv_process" => NoProcess(tgid[u])'
    BY <2>1 DEF ProcessInv, NoProcess
  <2> QED
    BY <2>1, <2>2, <2>3 DEF ProcessInv
<1> QED
  BY DisciplinedCases, <1>1, <1>2, <1>3, <1>4, <1>5, <1>6, <1>7, <1>8, <1>9, <1>10, <1>11

\* A step of t that changes neither the tables nor the registration of t.
LEMMA RegisteredFrame ==
  ASSUME TypeOK, RegisteredInv, NEW t \in Thread,
         UNCHANGED <<list_process, pid, threads, active>>,
         \A p \in ProcAddr : fibers[p] \subseteq fibers'[p],
         \A u \in Thread \ {t} : pc'[u] = pc[u] /\ proc'[u] = proc[u] /\ converted'[u] = converted[u],
         (\E p \in ProcAddr : t \in threads[p]) =>
             pc[t] # "cv_fiber" /\ pc'[t] \notin {"cv_fiber", "ex_last", "dead"},
         pc'[t] \in {"cv_fiber", "cv_count", "ex_free"} => t \in threads[proc'[t]],
         converted'[t] /\ pc'[t] \notin Exiting \cup {"dead"} =>
             \E p \in list_process : t \in threads[p]
  PROVE  RegisteredInv'
<1>1. \A p \in ProcAddr : \A u \in threads'[p] :
        /\ p \in list_process' /\ pid'[p] = tgid[u] /\ pc'[u] \notin {"ex_last", "dead"}
        /\ pc'[u] = "cv_fiber" <=> active'[p][u] = NULL
  <2> SUFFICES ASSUME NEW p \in ProcAddr, NEW u \in threads[p]
               PROVE  /\ p \in list_process /\ pid[p] = tgid[u] /\ pc'[u] \notin {"ex_last", "dead"}
                      /\ pc'[u] = "cv_fiber" <=> active[p][u] = NULL
    OBVIOUS
  <2>1. CASE u = t
    BY <2>1 DEF RegisteredInv
  <2>2. CASE u # t
    <3>1. u \in Thread
      BY DEF TypeOK, TypeProcesses
    <3> QED
      BY <2>2, <3>1 DEF RegisteredInv
  <2> QED
    BY <2>1, <2>2
<1>2. \A u \in Thread : pc'[u] \in {"cv_fiber", "cv_count", "ex_free"} => u \in threads'[proc'[u]]
  BY DEF RegisteredInv
<1>3. \A p \in ProcAddr, u \in Thread :
        active'[p][u] # NULL => u \in threads'[p] /\ active'[p][u] \in fibers'[p]
  BY DEF RegisteredInv
<1>4. \A u \in Thread : converted'[u] /\ pc'[u] \notin Exiting \cup {"dead"} =>
        \E p \in list_process' : u \in threads'[p]
  BY DEF RegisteredInv
<1> QED
  BY <1>1, <1>2, <1>3, <1>4 DEF RegisteredInv

\* When the last counted thread of the module exits, no thread is registered in the process
\* that is freed.
LEMMA LastIsAlone ==
  ASSUME TypeOK, DisciplineInv, NEW t \in Thread, pc[t] = "ex_last", count_threads = 0
  PROVE  threads[proc[t]] = {}
<1>1. Counted = {}
  BY FS_EmptySet DEF DisciplineInv, CountInv
<1>2. proc[t] \in ProcAddr /\ pid[proc[t]] = tgid[t]
  BY TablesInUse
<1>3. SUFFICES ASSUME NEW u \in threads[proc[t]] PROVE FALSE
  OBVIOUS
<1>4. u \in Thread /\ tgid[u] = tgid[t] /\ u # t
  BY <1>2 DEF TypeOK, TypeProcesses, DisciplineInv, RegisteredInv
<1>5. pc[u] \in {"user", "dead"}
  BY <1>4 DEF DisciplineInv, AloneInv, Peers, Exiting
<1>6. u \in Counted
  BY <1>2, <1>4, <1>5 DEF Counted
<1> QED
  BY <1>1, <1>6

\* A registered thread is registered in the one process that its handlers work on.
LEMMA RegisteredHere ==
  ASSUME TypeOK, DisciplineInv, NEW t \in Thread, NEW p \in ProcAddr, t \in threads[p]
  PROVE  /\ p \in list_process /\ pid[p] = tgid[t]
         /\ pc[t] \notin {"user", "dead", "cv_process"} => p = proc[t]
<1>1. p \in list_process /\ pid[p] = tgid[t]
  BY DEF DisciplineInv, RegisteredInv
<1> QED
  BY <1>1 DEF DisciplineInv, ProcessInv

\* Every step leaves the threads registered that are converted, in their own process.
LEMMA RegisteredStep ==
  ASSUME TypeOK, HandlerInv, DisciplineInv, [Next]_vars
  PROVE  RegisteredInv'
<1> USE ConstantsAssumption, NullIsNoFiber
<1> USE DEF Initialising, DisciplineInv, TypeOK, TypeThreads, TypeProcesses
<1> DEFINE Others(t) == \A u \in Thread \ {t} :
               pc'[u] = pc[u] /\ proc'[u] = proc[u] /\ converted'[u] = converted[u]
           Known(t) == \E p \in ProcAddr : t \in threads[p]
           Tables == UNCHANGED <<list_process, pid, threads, active>> /\
                     \A p \in ProcAddr : fibers[p] \subseteq fibers'[p]
           Still(t) == converted[t] => \E p \in list_process : t \in threads[p]
<1>0. ASSUME NEW t \in Thread, pc[t] \notin Exiting \cup {"dead"} PROVE Still(t)
  BY <1>0 DEF RegisteredInv
<1>1. CASE UNCHANGED kernelVars
  BY <1>1 DEF kernelVars, RegisteredInv
<1>2. ASSUME NEW t \in Thread, UserStep(t) PROVE RegisteredInv'
  BY <1>2 DEF UserStep, RegisteredInv
<1>3. ASSUME NEW t \in Thread, ConvertSearch(t) \/ CreateSearch(t) PROVE RegisteredInv'
  <2>1. Tables /\ Others(t) /\ converted'[t] = converted[t] /\ pc[t] = "user"
    BY <1>3 DEF ConvertSearch, CreateSearch
  <2>2. pc'[t] \in {"user", "cv_process", "cv_thread", "cr_fiber"}
    BY <1>3, <2>1 DEF ConvertSearch, CreateSearch
  <2> QED
    BY <2>1, <2>2, <1>0, RegisteredFrame DEF Exiting
<1>4. ASSUME NEW t \in Thread, ExitSearch(t) PROVE RegisteredInv'
  <2>1. Tables /\ Others(t) /\ pc[t] = "user"
    BY <1>4 DEF ExitSearch
  <2>2. \/ pc'[t] = "dead" /\ NoProcess(tgid[t])
        \/ pc'[t] = "ex_thread"
    BY <1>4 DEF ExitSearch
  <2>3. NoProcess(tgid[t]) => ~Known(t)
    BY RegisteredHere DEF NoProcess
  <2> QED
    BY <2>1, <2>2, <2>3, RegisteredFrame DEF Exiting
<1>5. ASSUME NEW t \in Thread, NEW i \in 0..MaxFiber, SwitchSearch(t, i) PROVE RegisteredInv'
  <2>1. /\ Tables /\ Others(t) /\ converted'[t] = converted[t] /\ pc[t] = "user"
        /\ pc'[t] = "sw_lock"
    BY <1>5 DEF SwitchSearch
  <2> QED
    BY <2>1, <1>0, RegisteredFrame DEF Exiting
<1>6. ASSUME NEW t \in Thread, ConvertNewProcess(t) PROVE RegisteredInv'
  <2>1. /\ UNCHANGED <<threads, active, fibers, converted>> /\ list_process \subseteq list_process'
        /\ pc[t] = "cv_process" /\ pc'[t] \in {"user", "cv_threads"}
        /\ \A u \in Thread \ {t} : pc'[u] = pc[u] /\ proc'[u] = proc[u]
    BY <1>6 DEF ConvertNewProcess
  <2>2. \A p \in list_process : pid'[p] = pid[p]
    BY <1>6 DEF ConvertNewProcess, ProcessInv, ProcAddr
  <2>3. ~Known(t)
    BY <2>1, RegisteredHere DEF NoProcess, ProcessInv
  <2>4. Still(t)
    BY <2>1, <1>0 DEF Exiting
  <2>5. ASSUME NEW p \in ProcAddr, NEW u \in threads'[p]
        PROVE  /\ p \in list_process' /\ pid'[p] = tgid[u] /\ pc'[u] \notin {"ex_last", "dead"}
               /\ pc'[u] = "cv_fiber" <=> active'[p][u] = NULL
    <3>1. u \in threads[p] /\ u \in Thread \ {t}
      BY <2>1, <2>3
    <3> QED
      BY <2>1, <2>2, <3>1 DEF RegisteredInv
  <2>6. \A u \in Thread : pc'[u] \in {"cv_fiber", "cv_count", "ex_free"} => u \in threads'[proc'[u]]
    BY <2>1 DEF RegisteredInv
  <2>7. \A u \in Thread : converted'[u] /\ pc'[u] \notin Exiting \cup {"dead"} =>
          \E p \in list_process' : u \in threads'[p]
    <3> SUFFICES ASSUME NEW u \in Thread, converted'[u], pc'[u] \notin Exiting \cup {"dead"}
                 PROVE  \E p \in list_process' : u \in threads'[p]
      OBVIOUS
    <3>1. CASE u = t
      BY <2>1, <2>4, <3>1
    <3>2. CASE u # t
      <4>1. converted[u] /\ pc[u] \notin Exiting \cup {"dead"}
        BY <2>1, <3>2
      <4>2. PICK p \in list_process : u \in threads[p]
        BY <4>1 DEF RegisteredInv
      <4> QED
        BY <2>1, <4>2
    <3> QED
      BY <3>1, <3>2
  <2>8. \A p \in ProcAddr, u \in Thread :
          active'[p][u] # NULL => u \in threads'[p] /\ active'[p][u] \in fibers'[p]
    BY <2>1 DEF RegisteredInv
  <2> QED
    BY <2>5, <2>6, <2>7, <2>8 DEF RegisteredInv
<1>7. ASSUME NEW t \in Thread, ConvertInitThreads(t) \/ ConvertInitFibers(t) PROVE RegisteredInv'
  <2>1. UNCHANGED <<threads, fibers>>
    BY <1>7, TablesStillEmpty
  <2>2. /\ Tables /\ Others(t) /\ converted'[t] = converted[t] /\ pc[t] \in Initialising
        /\ pc'[t] \in {"cv_fibers", "cv_thread"}
    BY <1>7, <2>1 DEF ConvertInitThreads, ConvertInitFibers
  <2> QED
    BY <2>2, <1>0, RegisteredFrame DEF Exiting
<1>8. ASSUME NEW t \in Thread, ConvertThread(t) PROVE RegisteredInv'
  <2>1. /\ pc[t] = "cv_thread" /\ Others(t) /\ UNCHANGED <<list_process, pid, fibers, converted>>
    BY <1>8 DEF ConvertThread
  <2>2. CASE UNCHANGED threads /\ pc'[t] = "user" /\ UNCHANGED active
    BY <2>1, <2>2, <1>0, RegisteredFrame DEF Exiting
  <2>3. CASE t \notin threads[proc[t]] /\ pc'[t] = "cv_fiber"
    <3> DEFINE p == proc[t]
    <3>1. p \in ProcAddr /\ p \in list_process /\ pid[p] = tgid[t]
      BY <2>1, TablesInUse
    <3>2. threads' = [threads EXCEPT ![p] = @ \cup {t}] /\ proc'[t] = p
      BY <1>8, <2>3 DEF ConvertThread
    <3>3. UNCHANGED active /\ active[p][t] = NULL
      <4>1. active[p][t] = NULL
        BY <2>3, <3>1 DEF RegisteredInv
      <4>2. active' = [active EXCEPT ![p][t] = NULL]
        BY <1>8, <2>3 DEF ConvertThread
      <4> QED
        BY <3>1, <4>1, <4>2
    <3>4. /\ \A q \in ProcAddr : threads[q] \subseteq threads'[q]
          /\ \A q \in ProcAddr : \A u \in threads'[q] : u \in threads[q] \/ (q = p /\ u = t)
          /\ t \in threads'[p]
      BY <3>1, <3>2
    <3>5. ~Known(t)
      BY <2>1, <2>3, RegisteredHere
    <3> HIDE DEF p
    <3>6. ASSUME NEW q \in ProcAddr, NEW u \in threads'[q]
          PROVE  /\ q \in list_process' /\ pid'[q] = tgid[u] /\ pc'[u] \notin {"ex_last", "dead"}
                 /\ pc'[u] = "cv_fiber" <=> active'[q][u] = NULL
      <4>1. CASE q = p /\ u = t
        BY <2>1, <2>3, <3>1, <3>3, <4>1
      <4>2. CASE u \in threads[q]
        <5>1. u \in Thread \ {t}
          BY <3>5, <4>2
        <5> QED
          BY <2>1, <3>3, <4>2, <5>1 DEF RegisteredInv
      <4> QED
        BY <3>4, <4>1, <4>2
    <3>7. \A u \in Thread : pc'[u] \in {"cv_fiber", "cv_count", "ex_free"} => u \in threads'[proc'[u]]
      <4>1. \A u \in Thread : pc[u] \in {"cv_fiber", "cv_count", "ex_free"} => proc[u] \in ProcAddr
        BY DEF ProcessInv
      <4> QED
        BY <2>1, <3>2, <3>4, <4>1 DEF RegisteredInv
    <3>8. \A q \in ProcAddr, u \in Thread :
            active'[q][u] # NULL => u \in threads'[q] /\ active'[q][u] \in fibers'[q]
      BY <2>1, <3>3, <3>4 DEF RegisteredInv
    <3>9. \A u \in Thread : converted'[u] /\ pc'[u] \notin Exiting \cup {"dead"} =>
            \E q \in list_process' : u \in threads'[q]
      <4>1. \A q \in list_process : q \in ProcAddr
        OBVIOUS
      <4>2. ASSUME NEW u \in Thread \ {t}, converted[u], pc[u] \notin Exiting \cup {"dead"}
            PROVE  \E q \in list_process : u \in threads'[q]
        BY <3>4, <4>1, <4>2 DEF RegisteredInv
      <4> QED
        BY <2>1, <3>1, <3>4, <4>2
    <3> QED
      BY <3>6, <3>7, <3>8, <3>9 DEF RegisteredInv
  <2> QED
    BY <1>8, <2>2, <2>3 DEF ConvertThread
<1>9. ASSUME NEW t \in Thread, ConvertFiber(t) PROVE RegisteredInv'
  <2> DEFINE p == proc[t]
             f == new[t]
  <2>1. /\ pc[t] = "cv_fiber" /\ pc'[t] = "cv_count" /\ proc'[t] = p /\ Others(t)
        /\ f \in FiberAddr /\ UNCHANGED <<list_process, pid, threads, converted>>
    BY <1>9 DEF ConvertFiber
  <2>2. p \in ProcAddr /\ p \in list_process /\ pid[p] = tgid[t] /\ t \in threads[p]
    BY <2>1, TablesInUse DEF RegisteredInv
  <2>3. /\ active' = [active EXCEPT ![p][t] = f]
        /\ fibers' = [fibers EXCEPT ![p] = @ \cup {f}]
    BY <1>9 DEF ConvertFiber
  <2>4. /\ active'[p][t] = f /\ f \in fibers'[p]
        /\ \A q \in ProcAddr, u \in Thread : q # p \/ u # t => active'[q][u] = active[q][u]
        /\ \A q \in ProcAddr : fibers[q] \subseteq fibers'[q]
    BY <2>2, <2>3
  <2>5. \A q \in ProcAddr : t \in threads[q] => q = p
    BY <2>1, RegisteredHere
  <2> HIDE DEF p, f
  <2>6. ASSUME NEW q \in ProcAddr, NEW u \in threads'[q]
        PROVE  /\ q \in list_process' /\ pid'[q] = tgid[u] /\ pc'[u] \notin {"ex_last", "dead"}
               /\ pc'[u] = "cv_fiber" <=> active'[q][u] = NULL
    <3>1. u \in Thread /\ u \in threads[q]
      BY <2>1
    <3>2. CASE u = t
      BY <2>1, <2>2, <2>4, <2>5, <3>1, <3>2
    <3>3. CASE u # t
      BY <2>1, <2>4, <3>1, <3>3 DEF RegisteredInv
    <3> QED
      BY <3>2, <3>3
  <2>7. \A u \in Thread : pc'[u] \in {"cv_fiber", "cv_count", "ex_free"} => u \in threads'[proc'[u]]
    BY <2>1, <2>2 DEF RegisteredInv
  <2>8. \A q \in ProcAddr, u \in Thread :
          active'[q][u] # NULL => u \in threads'[q] /\ active'[q][u] \in fibers'[q]
    <3> SUFFICES ASSUME NEW q \in ProcAddr, NEW u \in Thread, active'[q][u] # NULL
                 PROVE  u \in threads'[q] /\ active'[q][u] \in fibers'[q]
      OBVIOUS
    <3>1. CASE q = p /\ u = t
      BY <2>1, <2>2, <2>4, <3>1
    <3>2. CASE q # p \/ u # t
      <4>1. active'[q][u] = active[q][u]
        BY <2>4, <3>2
      <4> QED
        BY <2>1, <2>4, <4>1 DEF RegisteredInv
    <3> QED
      BY <3>1, <3>2
  <2>9. \A u \in Thread : converted'[u] /\ pc'[u] \notin Exiting \cup {"dead"} =>
          \E q \in list_process' : u \in threads'[q]
    <3>1. ASSUME NEW u \in Thread \ {t}, converted[u], pc[u] \notin Exiting \cup {"dead"}
          PROVE  \E q \in list_process : u \in threads[q]
      BY <3>1 DEF RegisteredInv
    <3> QED
      BY <2>1, <2>2, <3>1
  <2> QED
    BY <2>6, <2>7, <2>8, <2>9 DEF RegisteredInv
<1>10. ASSUME NEW t \in Thread, ConvertCount(t) PROVE RegisteredInv'
  <2>1. Tables /\ Others(t) /\ pc[t] = "cv_count" /\ pc'[t] = "user"
    BY <1>10 DEF ConvertCount
  <2>2. \E p \in list_process : t \in threads[p]
    BY <2>1 DEF RegisteredInv, ProcessInv
  <2> QED
    BY <2>1, <2>2, RegisteredFrame DEF Exiting
<1>11. ASSUME NEW t \in Thread, CreateFiber(t) PROVE RegisteredInv'
  <2>1. /\ Others(t) /\ pc[t] = "cr_fiber" /\ pc'[t] = "user" /\ converted'[t] = converted[t]
        /\ UNCHANGED <<list_process, pid, threads, active>>
    BY <1>11 DEF CreateFiber
  <2>2. fibers' = fibers \/ fibers' = [fibers EXCEPT ![proc[t]] = @ \cup {new[t]}]
    BY <1>11 DEF CreateFiber
  <2>3. \A p \in ProcAddr : fibers[p] \subseteq fibers'[p]
    <3>1. fibers \in [ProcAddr -> SUBSET FiberAddr]
      BY DEF TypeOK, TypeProcesses
    <3> HIDE DEF DisciplineInv, TypeOK, TypeThreads, TypeProcesses
    <3>2. CASE fibers' = fibers
      BY <3>2
    <3>3. CASE fibers' = [fibers EXCEPT ![proc[t]] = @ \cup {new[t]}]
      BY <3>1, <3>3
    <3> QED
      BY <2>2, <3>2, <3>3
  <2> QED
    BY <2>1, <2>3, <1>0, RegisteredFrame DEF Exiting
<1>12. ASSUME NEW t \in Thread, SwitchLock(t) \/ SwitchFind(t) \/ SwitchCheck(t) PROVE RegisteredInv'
  <2>1. /\ Tables /\ Others(t) /\ pc[t] \in {"sw_lock", "sw_find", "sw_check"} /\ converted'[t] = converted[t]
        /\ pc'[t] \in {"user", "sw_find", "sw_check", "sw_commit"}
    BY <1>12 DEF SwitchLock, SwitchFind, SwitchCheck
  <2> QED
    BY <2>1, <1>0, RegisteredFrame DEF Exiting
<1>13. ASSUME NEW t \in Thread, SwitchCommit(t) PROVE RegisteredInv'
  <2> DEFINE p == proc[t]
             f == found[t]
  <2>1. /\ pc[t] = "sw_commit" /\ pc'[t] = "user" /\ Others(t)
        /\ UNCHANGED <<list_process, pid, threads, fibers, converted>>
    BY <1>13 DEF SwitchCommit
  <2>2. CASE t \notin threads[p]
    <3>1. Tables
      BY <1>13, <2>1, <2>2 DEF SwitchCommit
    <3> QED
      BY <2>1, <3>1, <1>0, RegisteredFrame DEF Exiting
  <2>3. CASE t \in threads[p]
    <3>1. p \in ProcAddr /\ f \in fibers[p] /\ f \in FiberAddr
      BY <2>1, TablesInUse DEF FibersInv, FoundInv, Locked, Holding
    <3>2. active' = [active EXCEPT ![p][t] = f]
      BY <1>13, <2>3 DEF SwitchCommit
    <3>3. /\ active'[p][t] = f
          /\ \A q \in ProcAddr, u \in Thread : q # p \/ u # t => active'[q][u] = active[q][u]
      BY <3>1, <3>2
    <3> HIDE DEF p, f
    <3>4. \A q \in ProcAddr, u \in Thread : active'[q][u] = NULL <=> active[q][u] = NULL
      <4>1. active[p][t] # NULL
        BY <2>1, <2>3, <3>1 DEF RegisteredInv
      <4> QED
        BY <3>1, <3>3, <4>1
    <3>5. ASSUME NEW q \in ProcAddr, NEW u \in threads'[q]
          PROVE  /\ q \in list_process' /\ pid'[q] = tgid[u] /\ pc'[u] \notin {"ex_last", "dead"}
                 /\ pc'[u] = "cv_fiber" <=> active'[q][u] = NULL
      <4>1. u \in Thread /\ u \in threads[q]
        BY <2>1
      <4>2. pc'[u] = pc[u] \/ (pc'[u] = "user" /\ pc[u] = "sw_commit")
        BY <2>1, <4>1
      <4> QED
        BY <2>1, <3>4, <4>1, <4>2 DEF RegisteredInv
    <3>6. \A u \in Thread : pc'[u] \in {"cv_fiber", "cv_count", "ex_free"} => u \in threads'[proc'[u]]
      BY <2>1 DEF RegisteredInv
    <3>7. \A q \in ProcAddr, u \in Thread :
            active'[q][u] # NULL => u \in threads'[q] /\ active'[q][u] \in fibers'[q]
      <4> SUFFICES ASSUME NEW q \in ProcAddr, NEW u \in Thread, active'[q][u] # NULL
                   PROVE  u \in threads[q] /\ active'[q][u] \in fibers[q]
        BY <2>1
      <4>1. CASE q = p /\ u = t
        BY <2>3, <3>1, <3>3, <4>1
      <4>2. CASE q # p \/ u # t
        <5>1. active'[q][u] = active[q][u]
          BY <3>3, <4>2
        <5> QED
          BY <5>1 DEF RegisteredInv
      <4> QED
        BY <4>1, <4>2
    <3>8. \A u \in Thread : converted'[u] /\ pc'[u] \notin Exiting \cup {"dead"} =>
            \E q \in list_process' : u \in threads'[q]
      BY <2>1, <1>0 DEF RegisteredInv, Exiting
    <3> QED
      BY <3>5, <3>6, <3>7, <3>8 DEF RegisteredInv
  <2> QED
    BY <2>2, <2>3
<1>14. ASSUME NEW t \in Thread, ExitThread(t) PROVE RegisteredInv'
  <2>1. Tables /\ Others(t) /\ pc[t] = "ex_thread" /\ proc[t] \in ProcAddr
    BY <1>14 DEF ExitThread
  <2>2. \/ t \in threads[proc[t]] /\ pc'[t] = "ex_free" /\ proc'[t] = proc[t]
        \/ t \notin threads[proc[t]] /\ pc'[t] = "dead"
    BY <1>14 DEF ExitThread
  <2>3. Known(t) => t \in threads[proc[t]]
    BY <2>1, RegisteredHere
  <2> QED
    BY <2>1, <2>2, <2>3, RegisteredFrame DEF Exiting
<1>15. ASSUME NEW t \in Thread, ExitFree(t) PROVE RegisteredInv'
  <2> DEFINE p == proc[t]
             f == active[p][t]
  <2>1. /\ pc[t] = "ex_free" /\ pc'[t] = "ex_last" /\ Others(t)
        /\ UNCHANGED <<list_process, pid, converted>>
    BY <1>15 DEF ExitFree
  <2>2. p \in ProcAddr /\ t \in threads[p]
    BY <2>1, TablesInUse DEF RegisteredInv
  <2>3. /\ threads' = [threads EXCEPT ![p] = @ \ {t}]
        /\ active' = [active EXCEPT ![p][t] = NULL]
        /\ fibers' = [fibers EXCEPT ![p] = @ \ {f}]
    BY <1>15 DEF ExitFree
  <2>4. f # NULL
    BY <2>1, <2>2 DEF RegisteredInv
  <2>5. \A q \in ProcAddr, u \in Thread : q # p \/ u # t =>
          active'[q][u] = active[q][u] /\ active[q][u] # f
    BY <2>2, <2>3, <2>4 DEF HandlerInv, ActiveInv
  <2>6. active'[p][t] = NULL
    BY <2>2, <2>3
  <2>7. \A q \in ProcAddr : t \in threads[q] => q = p
    BY <2>1, RegisteredHere
  <2>8. /\ \A q \in ProcAddr, u \in Thread : u \in threads'[q] <=> u \in threads[q] /\ u # t
        /\ \A q \in ProcAddr : \A g \in fibers[q] : g # f => g \in fibers'[q]
    BY <2>2, <2>3, <2>7
  <2> HIDE DEF p, f
  <2>9. ASSUME NEW q \in ProcAddr, NEW u \in threads'[q]
        PROVE  /\ q \in list_process' /\ pid'[q] = tgid[u] /\ pc'[u] \notin {"ex_last", "dead"}
               /\ pc'[u] = "cv_fiber" <=> active'[q][u] = NULL
    <3>1. u \in Thread
      BY <2>2, <2>3
    <3>2. u \in threads[q] /\ u # t
      BY <2>8, <3>1
    <3> QED
      BY <2>1, <2>5, <3>1, <3>2 DEF RegisteredInv
  <2>10. \A u \in Thread : pc'[u] \in {"cv_fiber", "cv_count", "ex_free"} => u \in threads'[proc'[u]]
    <3>1. \A u \in Thread : pc[u] \in {"cv_fiber", "cv_count", "ex_free"} => proc[u] \in ProcAddr
      BY DEF ProcessInv
    <3> QED
      BY <2>1, <2>8, <3>1 DEF RegisteredInv
  <2>11. \A q \in ProcAddr, u \in Thread :
           active'[q][u] # NULL => u \in threads'[q] /\ active'[q][u] \in fibers'[q]
    <3> SUFFICES ASSUME NEW q \in ProcAddr, NEW u \in Thread, active'[q][u] # NULL
                 PROVE  u \in threads'[q] /\ active'[q][u] \in fibers'[q]
      OBVIOUS
    <3>1. q # p \/ u # t
      BY <2>6
    <3>2. active'[q][u] = active[q][u] /\ active[q][u] # f
      BY <2>5, <3>1
    <3>3. u \in threads[q] /\ active[q][u] \in fibers[q]
      BY <3>2 DEF RegisteredInv
    <3>4. u # t
      BY <2>7, <3>1, <3>3
    <3> QED
      BY <2>8, <3>2, <3>3, <3>4
  <2>12. \A u \in Thread : converted'[u] /\ pc'[u] \notin Exiting \cup {"dead"} =>
           \E q \in list_process' : u \in threads'[q]
    <3> SUFFICES ASSUME NEW u \in Thread, converted'[u], pc'[u] \notin Exiting \cup {"dead"}
                 PROVE  \E q \in list_process' : u \in threads'[q]
      OBVIOUS
    <3>1. u # t /\ converted[u] /\ pc[u] \notin Exiting \cup {"dead"}
      BY <2>1 DEF Exiting
    <3>2. PICK q \in list_process : u \in threads[q]
      BY <3>1 DEF RegisteredInv
    <3>3. q \in ProcAddr /\ q \in list_process'
      BY <2>1
    <3> QED
      BY <2>8, <3>1, <3>2, <3>3
  <2> QED
    BY <2>9, <2>10, <2>11, <2>12, SMTT(30) DEF RegisteredInv
<1>16. ASSUME NEW t \in Thread, ExitLast(t) PROVE RegisteredInv'
  <2>1. /\ UNCHANGED <<pid, threads, active, fibers, converted>> /\ Others(t)
        /\ pc[t] = "ex_last" /\ pc'[t] = "dead"
    BY <1>16 DEF ExitLast
  <2>2. \A q \in ProcAddr : t \notin threads[q]
    BY <2>1 DEF RegisteredInv
  <2>3. \A q \in list_process : q \in list_process' \/ threads[q] = {}
    BY <1>16, LastIsAlone DEF ExitLast
  <2>4. ASSUME NEW q \in ProcAddr, NEW u \in threads'[q]
        PROVE  /\ q \in list_process' /\ pid'[q] = tgid[u] /\ pc'[u] \notin {"ex_last", "dead"}
               /\ pc'[u] = "cv_fiber" <=> active'[q][u] = NULL
    <3>1. u \in Thread /\ u \in threads[q] /\ u # t
      BY <2>1, <2>2
    <3> QED
      BY <2>1, <2>3, <3>1 DEF RegisteredInv
  <2>5. \A u \in Thread : pc'[u] \in {"cv_fiber", "cv_count", "ex_free"} => u \in threads'[proc'[u]]
    BY <2>1 DEF RegisteredInv
  <2>6. \A u \in Thread : converted'[u] /\ pc'[u] \notin Exiting \cup {"dead"} =>
          \E q \in list_process' : u \in threads'[q]
    BY <2>1, <2>3 DEF RegisteredInv
  <2> QED
    BY <2>1, <2>4, <2>5, <2>6 DEF RegisteredInv
<1> QED
  BY DisciplinedCases, <1>1, <1>2, <1>3, <1>4, <1>5, <1>6, <1>7, <1>8, <1>9, <1>10, <1>11,
     <1>12, <1>13, <1>14, <1>15, <1>16

\* A fiber under construction is in no table, has no context and is not marked as running.
LEMMA NewIsNowhere ==
  ASSUME TypeOK, HandlerInv, DisciplineInv, NEW t \in Thread, pc[t] \in Building, new[t] # NULL
  PROVE  /\ new[t] \in FiberAddr /\ new[t] \in heap /\ regs[new[t]] = NULL
         /\ \A p \in ProcAddr : new[t] \notin fibers[p]
         /\ ~running[new[t]]
<1>1. new[t] \in FiberAddr /\ new[t] \in heap /\ regs[new[t]] = NULL
  BY DEF TypeOK, TypeThreads, HandlerInv, BuildingInv
<1>2. \A p \in ProcAddr : new[t] \notin fibers[p]
  BY <1>1 DEF HandlerInv, HomeInv, BelongsTo
<1>3. ~running[new[t]]
  BY <1>1 DEF DisciplineInv, FibersInv, RunningInv
<1> QED
  BY <1>1, <1>2, <1>3

\* ConvertFiber or CreateFiber puts f with the next number in the table of p.
LEMMA NumberFiber ==
  ASSUME TypeOK, NumbersInv, NEW p \in ProcAddr, NEW f \in FiberAddr, f \in heap,
         \A q \in ProcAddr : f \notin fibers[q],
         index' = [index EXCEPT ![f] = fiber_id[p]],
         fiber_id' = [fiber_id EXCEPT ![p] = @ + 1],
         fibers' = [fibers EXCEPT ![p] = @ \cup {f}], UNCHANGED heap
  PROVE  NumbersInv'
<1> USE DEF TypeOK, TypeProcesses, TypeFibers
<1>1. /\ fiber_id[p] \in Nat /\ fiber_id'[p] = fiber_id[p] + 1 /\ index'[f] = fiber_id[p]
      /\ \A q \in ProcAddr : q # p => fiber_id'[q] = fiber_id[q] /\ fibers'[q] = fibers[q]
      /\ fibers'[p] = fibers[p] \cup {f}
  OBVIOUS
<1>2. \A q \in ProcAddr : \A g \in fibers[q] :
        index'[g] = index[g] /\ index[g] \in Nat /\ fiber_id[q] \in Nat
  OBVIOUS
<1> SUFFICES ASSUME NEW q \in ProcAddr, NEW g \in fibers'[q]
             PROVE  /\ g \in heap /\ index'[g] < fiber_id'[q]
                    /\ \A k \in fibers'[q] : index'[g] = index'[k] => g = k
  BY DEF NumbersInv
<1>3. CASE q # p
  BY <1>1, <1>2, <1>3 DEF NumbersInv
<1>4. CASE q = p
  <2>1. \A k \in fibers[p] : k \in heap /\ index'[k] = index[k] /\ index[k] < fiber_id[p]
    BY <1>2 DEF NumbersInv
  <2>2. CASE g = f
    BY <1>1, <1>2, <1>4, <2>1, <2>2
  <2>3. CASE g \in fibers[p]
    BY <1>1, <1>2, <1>4, <2>1, <2>3 DEF NumbersInv
  <2> QED
    BY <1>1, <1>4, <2>2, <2>3
<1> QED
  BY <1>3, <1>4

\* Every step keeps the numbers of the fibers of a process apart.
LEMMA NumbersStep ==
  ASSUME TypeOK, HandlerInv, DisciplineInv, [Next]_vars
  PROVE  NumbersInv'
<1> USE ConstantsAssumption
<1> USE DEF Initialising, DisciplineInv, FibersInv, TypeOK, TypeThreads, TypeProcesses
<1>0. ASSUME \A p \in ProcAddr : fibers'[p] \subseteq fibers[p], UNCHANGED <<index, fiber_id>>,
             heap \subseteq heap'
      PROVE  NumbersInv'
  BY <1>0 DEF NumbersInv
<1>1. CASE UNCHANGED kernelVars
  BY <1>1, <1>0 DEF kernelVars
<1>2. ASSUME NEW t \in Thread,
             \/ UserStep(t) \/ ExitSearch(t) \/ \E i \in 0..MaxFiber : SwitchSearch(t, i)
             \/ ConvertThread(t) \/ ConvertCount(t) \/ ExitThread(t) \/ ExitLast(t)
             \/ SwitchLock(t) \/ SwitchFind(t) \/ SwitchCheck(t) \/ SwitchCommit(t)
      PROVE  NumbersInv'
  <2>1. UNCHANGED <<fibers, index, fiber_id, heap>>
    BY <1>2 DEF UserStep, ExitSearch, SwitchSearch, ConvertThread, ConvertCount, ExitThread,
                ExitLast, SwitchLock, SwitchFind, SwitchCheck, SwitchCommit
  <2> QED
    BY <2>1, <1>0
<1>3. ASSUME NEW t \in Thread, ConvertSearch(t) \/ CreateSearch(t) PROVE NumbersInv'
  <2>1. UNCHANGED <<fibers, index, fiber_id>> /\ heap \subseteq heap'
    BY <1>3 DEF ConvertSearch, CreateSearch, KzallocFiber
  <2> QED
    BY <2>1, <1>0
<1>4. ASSUME NEW t \in Thread, ConvertNewProcess(t) PROVE NumbersInv'
  <2>1. /\ UNCHANGED <<fibers, index, heap>>
        /\ \/ UNCHANGED fiber_id
           \/ nproc < MaxProc /\ fiber_id' = [fiber_id EXCEPT ![nproc + 1] = 0]
    BY <1>4 DEF ConvertNewProcess
  <2>2. \A p \in ProcAddr : fibers[p] # {} => fiber_id'[p] = fiber_id[p]
    BY <2>1 DEF ProcessInv, ProcAddr
  <2> QED
    BY <2>1, <2>2 DEF NumbersInv
<1>5. ASSUME NEW t \in Thread, ConvertInitThreads(t) \/ ConvertInitFibers(t) PROVE NumbersInv'
  <2>1. UNCHANGED <<index, fiber_id, heap, fibers>>
    BY <1>5, TablesStillEmpty DEF ConvertInitThreads, ConvertInitFibers
  <2> QED
    BY <2>1, <1>0
<1>6. ASSUME NEW t \in Thread, ConvertFiber(t) PROVE NumbersInv'
  <2>1. pc[t] = "cv_fiber" /\ new[t] # NULL
    BY <1>6 DEF ConvertFiber
  <2>2. proc[t] \in ProcAddr
    BY <2>1, TablesInUse
  <2>3. new[t] \in FiberAddr /\ new[t] \in heap /\ \A q \in ProcAddr : new[t] \notin fibers[q]
    BY <2>1, NewIsNowhere DEF Building, Creating
  <2> QED
    BY <1>6, <2>2, <2>3, NumberFiber DEF ConvertFiber
<1>7. ASSUME NEW t \in Thread, CreateFiber(t) PROVE NumbersInv'
  <2>1. pc[t] = "cr_fiber"
    BY <1>7 DEF CreateFiber
  <2>2. proc[t] \in ProcAddr
    BY <2>1, TablesInUse
  <2>4. CASE t \in threads[proc[t]]
    <3>1. new[t] # NULL
      BY <1>7, <2>4 DEF CreateFiber
    <3>2. new[t] \in FiberAddr /\ new[t] \in heap /\ \A q \in ProcAddr : new[t] \notin fibers[q]
      BY <2>1, <3>1, NewIsNowhere DEF Building, Creating
    <3> QED
      BY <1>7, <2>2, <2>4, <3>2, NumberFiber DEF CreateFiber
  <2>5. CASE t \notin threads[proc[t]]
    BY <1>7, <2>5, <1>0 DEF CreateFiber
  <2> QED
    BY <2>4, <2>5
<1>8. ASSUME NEW t \in Thread, ExitFree(t) PROVE NumbersInv'
  <2> DEFINE p == proc[t]
             f == active[p][t]
  <2>1. /\ pc[t] = "ex_free" /\ UNCHANGED <<index, fiber_id>>
        /\ fibers' = [fibers EXCEPT ![p] = @ \ {f}] /\ heap' = heap \ {f}
    BY <1>8 DEF ExitFree
  <2>2. p \in ProcAddr /\ t \in threads[p]
    BY <2>1, TablesInUse DEF RegisteredInv
  <2>3. f \in fibers[p] /\ f \in FiberAddr
    BY <2>1, <2>2 DEF RegisteredInv
  <2>4. \A q \in ProcAddr : f \in fibers[q] => q = p
    BY <2>2, <2>3 DEF HandlerInv, HomeInv, BelongsTo
  <2>5. \A q \in ProcAddr : fibers'[q] \subseteq fibers[q] /\ f \notin fibers'[q]
    BY <2>1, <2>2, <2>4
  <2> HIDE DEF p, f
  <2> QED
    BY <2>1, <2>5 DEF NumbersInv
<1> QED
  BY DisciplinedCases, <1>1, <1>2, <1>3, <1>4, <1>5, <1>6, <1>7, <1>8

\* Every step leaves what the handlers of other threads have found in their tables.
LEMMA FoundStep ==
  ASSUME TypeOK, HandlerInv, DisciplineInv, [Next]_vars
  PROVE  FoundInv'
<1> USE ConstantsAssumption, NamesAssumption
<1> USE DEF Initialising, DisciplineInv, FibersInv, TypeOK, TypeThreads, TypeProcesses, Locked, Holding, Building, Creating
<1> DEFINE Others(t) == \A u \in Thread \ {t} : /\ pc'[u] = pc[u] /\ proc'[u] = proc[u]
                                                /\ found'[u] = found[u] /\ new'[u] = new[u]
<1>0. ASSUME NEW t \in Thread, Others(t),
             \A u \in Thread \ {t} : pc[u] \in Holding => fibers[proc[u]] \subseteq fibers'[proc[u]],
             pc'[t] \in Holding => found'[t] \in fibers'[proc'[t]],
             pc'[t] \in Building /\ ~AllocFails => new'[t] # NULL
      PROVE  FoundInv'
  BY <1>0 DEF FoundInv
<1>1. CASE UNCHANGED kernelVars
  BY <1>1 DEF kernelVars, FoundInv
<1>2. ASSUME NEW t \in Thread, UserStep(t) PROVE FoundInv'
  BY <1>2 DEF UserStep, FoundInv
<1>3. ASSUME NEW t \in Thread, ConvertSearch(t) \/ CreateSearch(t) PROVE FoundInv'
  <2>1. /\ UNCHANGED fibers /\ Others(t) /\ pc[t] = "user"
        /\ AllocFails \/ new'[t] = nfiber + 1
    BY <1>3 DEF ConvertSearch, CreateSearch, KzallocFiber
  <2>2. pc'[t] \notin Holding
    BY <1>3, <2>1 DEF ConvertSearch, CreateSearch
  <2>3. AllocFails \/ new'[t] # NULL
    <3>1. nfiber + 1 \in Nat
      BY DEF TypeFibers
    <3> QED
      BY <2>1, <3>1
  <2> QED
    BY <2>1, <2>2, <2>3, <1>0
<1>4. ASSUME NEW t \in Thread,
             \/ ExitSearch(t) \/ \E i \in 0..MaxFiber : SwitchSearch(t, i)
             \/ ConvertCount(t) \/ SwitchCommit(t) \/ ExitThread(t) \/ ExitLast(t)
      PROVE  FoundInv'
  <2>1. /\ UNCHANGED fibers /\ Others(t)
        /\ pc'[t] \in {"user", "dead", "ex_thread", "ex_free", "sw_lock"}
    BY <1>4 DEF ExitSearch, SwitchSearch, ConvertCount, SwitchCommit, ExitThread, ExitLast
  <2> QED
    BY <2>1, <1>0
<1>5. ASSUME NEW t \in Thread, ConvertNewProcess(t) \/ ConvertThread(t) PROVE FoundInv'
  <2>1. /\ UNCHANGED fibers /\ Others(t) /\ pc[t] \in Building /\ pc'[t] \notin Holding
        /\ pc'[t] = "user" \/ new'[t] = new[t]
    BY <1>5 DEF ConvertNewProcess, ConvertThread
  <2> QED
    BY <2>1, <1>0 DEF FoundInv
<1>6. ASSUME NEW t \in Thread, ConvertInitThreads(t) \/ ConvertInitFibers(t) PROVE FoundInv'
  <2>1. UNCHANGED fibers
    BY <1>6, TablesStillEmpty
  <2>2. Others(t) /\ pc[t] \in Building /\ pc'[t] \notin Holding /\ new'[t] = new[t]
    BY <1>6 DEF ConvertInitThreads, ConvertInitFibers
  <2> QED
    BY <2>1, <2>2, <1>0 DEF FoundInv
<1>7. ASSUME NEW t \in Thread, ConvertFiber(t) \/ CreateFiber(t) PROVE FoundInv'
  <2>1. Others(t) /\ pc'[t] \in {"cv_count", "user"}
    BY <1>7 DEF ConvertFiber, CreateFiber
  <2>2. UNCHANGED fibers \/ fibers' = [fibers EXCEPT ![proc[t]] = @ \cup {new[t]}]
    BY <1>7 DEF ConvertFiber, CreateFiber
  <2>3. \A p \in ProcAddr : fibers[p] \subseteq fibers'[p]
    <3>1. fibers \in [ProcAddr -> SUBSET FiberAddr]
      OBVIOUS
    <3> HIDE DEF DisciplineInv, FibersInv, TypeOK, TypeThreads, TypeProcesses
    <3> QED
      BY <2>2, <3>1
  <2>4. \A u \in Thread : pc[u] \in Holding => proc[u] \in ProcAddr
    BY DEF HandlerInv, LockInv
  <2>5. \A u \in Thread : pc[u] \in Holding => fibers[proc[u]] \subseteq fibers'[proc[u]]
    BY <2>3, <2>4
  <2>6. pc'[t] \notin Holding /\ pc'[t] \notin Building
    BY <2>1
  <2> QED
    BY <2>1, <2>5, <2>6, <1>0
<1>8. ASSUME NEW t \in Thread, SwitchLock(t) \/ SwitchFind(t) \/ SwitchCheck(t) PROVE FoundInv'
  <2>1. UNCHANGED fibers /\ Others(t) /\ pc'[t] \notin Building
    BY <1>8 DEF SwitchLock, SwitchFind, SwitchCheck
  <2>2. pc'[t] \in Holding => proc'[t] = proc[t] /\ found'[t] \in fibers[proc[t]]
    BY <1>8 DEF SwitchLock, SwitchFind, SwitchCheck, search_fiber, FoundInv
  <2> QED
    BY <2>1, <2>2, <1>0
<1>9. ASSUME NEW t \in Thread, ExitFree(t) PROVE FoundInv'
  <2>1. /\ Others(t) /\ pc[t] = "ex_free" /\ pc'[t] = "ex_last"
        /\ fibers' = [fibers EXCEPT ![proc[t]] = @ \ {active[proc[t]][t]}]
    BY <1>9 DEF ExitFree
  <2>2. pid[proc[t]] = tgid[t]
    BY <2>1, TablesInUse
  <2>3. \A u \in Thread \ {t} : pc[u] \in Holding => proc[u] \in ProcAddr /\ proc[u] # proc[t]
    <3>1. \A u \in Thread \ {t} : pc[u] \in Holding => tgid[u] # tgid[t]
      BY <2>1 DEF AloneInv, Peers, Exiting
    <3>2. \A u \in Thread : pc[u] \in Holding => proc[u] \in ProcAddr /\ pid[proc[u]] = tgid[u]
      BY DEF ProcessInv
    <3> QED
      BY <2>2, <3>1, <3>2
  <2>4. \A u \in Thread \ {t} : pc[u] \in Holding => fibers'[proc[u]] = fibers[proc[u]]
    BY <2>1, <2>3
  <2> QED
    BY <2>1, <2>4, <1>0
<1> QED
  BY DisciplinedCases, <1>1, <1>2, <1>3, <1>4, <1>5, <1>6, <1>7, <1>8, <1>9

\* Every step leaves a fiber marked as running only where a thread executes it.
LEMMA RunningStep ==
  ASSUME TypeOK, HandlerInv, DisciplineInv, [Next]_vars
  PROVE  RunningInv'
<1> USE ConstantsAssumption, NullIsNoFiber
<1> USE DEF Initialising, DisciplineInv, FibersInv, TypeOK, TypeThreads, TypeProcesses, TypeFibers
<1>0. ASSUME UNCHANGED <<running, regs, active>>,
             \A f \in heap' : running[f] => f \in heap,
             \A p \in list_process : \A t \in threads[p] : p \in list_process' /\ t \in threads'[p]
      PROVE  RunningInv'
  BY <1>0 DEF RunningInv, RunningExecuted
<1>1. CASE UNCHANGED kernelVars
  BY <1>1, <1>0 DEF kernelVars
<1>2. ASSUME NEW t \in Thread,
             \/ UserStep(t) \/ ExitSearch(t) \/ \E i \in 0..MaxFiber : SwitchSearch(t, i)
             \/ ConvertCount(t) \/ ExitThread(t) \/ SwitchLock(t) \/ SwitchFind(t) \/ SwitchCheck(t)
      PROVE  RunningInv'
  <2>1. UNCHANGED <<running, regs, active, heap, list_process, threads>>
    BY <1>2 DEF UserStep, ExitSearch, SwitchSearch, ConvertCount, ExitThread, SwitchLock, SwitchFind,
                SwitchCheck
  <2> QED
    BY <2>1, <1>0
<1>3. ASSUME NEW t \in Thread, ConvertSearch(t) \/ CreateSearch(t) PROVE RunningInv'
  <2>1. /\ UNCHANGED <<running, regs, active, list_process, threads>>
        /\ (heap' = heap \/ (nfiber < MaxFiber /\ heap' = heap \cup {nfiber + 1}))
    BY <1>3 DEF ConvertSearch, CreateSearch, KzallocFiber, allocVars
  <2>2. CASE heap' = heap
    BY <2>1, <2>2, <1>0
  <2>3. CASE nfiber < MaxFiber /\ heap' = heap \cup {nfiber + 1}
    <3>1. nfiber + 1 \in FiberAddr /\ nfiber + 1 > nfiber
      BY <2>3 DEF FiberAddr
    <3>2. ~running[nfiber + 1]
      BY <3>1 DEF HandlerInv, BuildingInv, RunningInv
    <3> QED
      BY <2>1, <2>3, <3>2, <1>0
  <2> QED
    BY <2>1, <2>2, <2>3
<1>4. ASSUME NEW t \in Thread, ConvertNewProcess(t) PROVE RunningInv'
  <2>1. UNCHANGED <<running, regs, active, heap, threads>> /\ list_process \subseteq list_process'
    BY <1>4 DEF ConvertNewProcess
  <2> QED
    BY <2>1, <1>0
<1>5. ASSUME NEW t \in Thread, ConvertInitThreads(t) \/ ConvertInitFibers(t) PROVE RunningInv'
  <2>1. UNCHANGED <<running, regs, active, heap, list_process>>
    BY <1>5 DEF ConvertInitThreads, ConvertInitFibers
  <2>2. UNCHANGED threads
    BY <1>5, TablesStillEmpty
  <2> QED
    BY <2>1, <2>2, <1>0
<1>6. ASSUME NEW t \in Thread, ConvertThread(t) PROVE RunningInv'
  <2>1. UNCHANGED <<running, regs, heap, list_process>> /\ pc[t] = "cv_thread"
    BY <1>6 DEF ConvertThread
  <2>2. proc[t] \in ProcAddr
    BY <2>1, TablesInUse
  <2>3. \A p \in list_process : \A u \in threads[p] : u \in threads'[p]
    <3>1. threads' = threads \/ threads' = [threads EXCEPT ![proc[t]] = @ \cup {t}]
      BY <1>6 DEF ConvertThread
    <3>2. threads \in [ProcAddr -> SUBSET Thread] /\ list_process \subseteq ProcAddr
      BY DEF TypeOK, TypeProcesses
    <3> HIDE DEF DisciplineInv, FibersInv, TypeOK, TypeThreads, TypeProcesses, TypeFibers
    <3>3. CASE threads' = threads
      BY <3>3
    <3>4. CASE threads' = [threads EXCEPT ![proc[t]] = @ \cup {t}]
      BY <3>2, <3>4
    <3> QED
      BY <3>1, <3>3, <3>4
  <2>4. UNCHANGED active
    <3>1. CASE t \in threads[proc[t]]
      BY <1>6, <3>1 DEF ConvertThread
    <3>2. CASE t \notin threads[proc[t]]
      <4>1. active[proc[t]][t] = NULL
        BY <2>2, <3>2 DEF RegisteredInv
      <4>2. UNCHANGED active \/ active' = [active EXCEPT ![proc[t]][t] = NULL]
        BY <1>6, <3>2 DEF ConvertThread
      <4> QED
        BY <2>2, <4>1, <4>2
    <3> QED
      BY <3>1, <3>2
  <2> QED
    BY <2>1, <2>3, <2>4, <1>0
<1>7. ASSUME NEW t \in Thread, ConvertFiber(t) PROVE RunningInv'
  <2> DEFINE p == proc[t]
             f == new[t]
  <2>1. /\ pc[t] = "cv_fiber" /\ f # NULL /\ UNCHANGED <<heap, list_process, threads>>
        /\ regs' = [regs EXCEPT ![f] = live[t]]
        /\ running' = [running EXCEPT ![f] = TRUE]
        /\ active' = [active EXCEPT ![p][t] = f]
    BY <1>7 DEF ConvertFiber
  <2>2. p \in ProcAddr /\ p \in list_process /\ t \in threads[p]
    BY <2>1, TablesInUse DEF RegisteredInv
  <2>3. f \in FiberAddr /\ live[t] # NULL
    BY <2>1, NewIsNowhere DEF Building, Creating, HandlerInv, ExitedInv, Exiting
  <2>4. \A q \in ProcAddr : t \in threads[q] => q = p
    BY <2>1, RegisteredHere
  <2>5. \A q \in list_process : \A u \in threads[q] : active[q][u] \in FiberAddr =>
          active'[q][u] = active[q][u]
    <3>1. active[p][t] = NULL
      BY <2>1, <2>2 DEF RegisteredInv
    <3> QED
      BY <2>1, <2>2, <3>1
  <2>6. active'[p][t] = f
    BY <2>1, <2>2
  <2> HIDE DEF p, f
  <2>7. RunningExecuted'
    BY <2>1, <2>2, <2>3, <2>5, <2>6 DEF RunningInv, RunningExecuted
  <2>8. \A g \in FiberAddr : running'[g] => regs'[g] # NULL
    BY <2>1, <2>3 DEF RunningInv
  <2> QED
    BY <2>7, <2>8 DEF RunningInv
<1>8. ASSUME NEW t \in Thread, CreateFiber(t) PROVE RunningInv'
  <2>1. pc[t] = "cr_fiber" /\ UNCHANGED <<heap, list_process, threads, active>>
    BY <1>8 DEF CreateFiber
  <2>2. CASE UNCHANGED <<running, regs>>
    BY <2>1, <2>2, <1>0
  <2>3. CASE /\ new[t] # NULL
             /\ running' = [running EXCEPT ![new[t]] = FALSE]
             /\ regs' = [regs EXCEPT ![new[t]] = [who |-> new[t], at |-> 0]]
    <3>1. new[t] \in FiberAddr
      BY <2>1, <2>3, NewIsNowhere DEF Building, Creating
    <3>2. \A g \in FiberAddr : running'[g] => running[g]
      BY <2>3, <3>1
    <3>3. [who |-> new[t], at |-> 0] # NULL
      <4>1. [who |-> new[t], at |-> 0] \in Context
        BY <3>1 DEF Context
      <4> QED
        BY <4>1, NamesAssumption
    <3>4. \A f \in FiberAddr : regs[f] # NULL => regs'[f] # NULL
      BY <2>3, <3>3
    <3> QED
      BY <2>1, <3>2, <3>4 DEF RunningInv, RunningExecuted
  <2> QED
    BY <1>8, <2>2, <2>3 DEF CreateFiber, objVars
<1>9. ASSUME NEW t \in Thread, SwitchCommit(t) PROVE RunningInv'
  <2> DEFINE p == proc[t]
             f == found[t]
             a == active[p][t]
  <2>1. pc[t] = "sw_commit" /\ UNCHANGED <<heap, list_process, threads>>
    BY <1>9 DEF SwitchCommit
  <2>2. CASE t \notin threads[p]
    <3>1. UNCHANGED <<running, regs, active>>
      BY <1>9, <2>2 DEF SwitchCommit
    <3> QED
      BY <2>1, <3>1, <1>0
  <2>3. CASE t \in threads[p]
    <3>1. p \in ProcAddr /\ p \in list_process /\ f \in fibers[p] /\ f \in FiberAddr
      BY <2>1, TablesInUse DEF FoundInv, Locked, Holding
    <3>2. a \in FiberAddr
      BY <2>1, <2>3, <3>1 DEF RegisteredInv
    <3>3. /\ regs' = [regs EXCEPT ![a] = live[t]]
          /\ running' = [running EXCEPT ![a] = FALSE, ![f] = TRUE]
          /\ active' = [active EXCEPT ![p][t] = f]
      BY <1>9, <2>3 DEF SwitchCommit
    <3>4. regs[f] # NULL /\ live[t] # NULL
      BY <2>1, <3>1 DEF HandlerInv, HomeInv, BelongsTo, ExitedInv, Exiting
    <3>5. active'[p][t] = f
      BY <3>1, <3>3
    <3>6. \A q \in ProcAddr, u \in Thread : active[q][u] # a => active'[q][u] = active[q][u]
      BY <3>1, <3>3
    <3>7. \A g \in FiberAddr : running'[g] => g = f \/ (running[g] /\ g # a)
      BY <3>2, <3>3
    <3> HIDE DEF p, f, a
    <3>8. RunningExecuted'
      <4> SUFFICES ASSUME NEW g \in heap, running'[g]
                   PROVE  \E q \in list_process : \E u \in threads[q] : active'[q][u] = g
        BY <2>1 DEF RunningExecuted
      <4>1. CASE g = f
        BY <2>3, <3>1, <3>5, <4>1
      <4>2. CASE running[g] /\ g # a
        <5>1. PICK q \in list_process : \E u \in threads[q] : active[q][u] = g
          BY <4>2 DEF RunningInv, RunningExecuted
        <5>2. PICK u \in threads[q] : active[q][u] = g
          BY <5>1
        <5>3. q \in ProcAddr /\ u \in Thread
          OBVIOUS
        <5>4. active'[q][u] = g
          BY <3>6, <4>2, <5>2, <5>3
        <5> QED
          BY <5>4
      <4> QED
        BY <3>7, <4>1, <4>2
    <3>9. \A g \in FiberAddr : running'[g] => regs'[g] # NULL
      BY <3>2, <3>3, <3>4, <3>7 DEF RunningInv
    <3> QED
      BY <3>8, <3>9 DEF RunningInv
  <2> QED
    BY <2>2, <2>3
<1>10. ASSUME NEW t \in Thread, ExitFree(t) PROVE RunningInv'
  <2> DEFINE p == proc[t]
             f == active[p][t]
  <2>1. /\ pc[t] = "ex_free" /\ UNCHANGED <<running, regs, list_process>>
        /\ threads' = [threads EXCEPT ![p] = @ \ {t}]
        /\ active' = [active EXCEPT ![p][t] = NULL]
        /\ heap' = heap \ {f}
    BY <1>10 DEF ExitFree
  <2>2. p \in ProcAddr
    BY <2>1, TablesInUse
  <2>3. \A q \in ProcAddr, u \in Thread : q # p \/ u # t => active'[q][u] = active[q][u]
    BY <2>1, <2>2
  <2>4. \A q \in ProcAddr, u \in Thread :
          u \in threads[q] /\ (q # p \/ u # t) => u \in threads'[q]
    BY <2>1, <2>2
  <2>5. ASSUME NEW g \in heap', running'[g]
        PROVE  \E q \in list_process' : \E u \in threads'[q] : active'[q][u] = g
    <3>1. g \in heap /\ running[g] /\ g # f
      BY <2>1, <2>5
    <3>2. PICK q \in list_process : \E u \in threads[q] : active[q][u] = g
      BY <3>1 DEF RunningInv, RunningExecuted
    <3>3. PICK u \in threads[q] : active[q][u] = g
      BY <3>2
    <3>4. q \in ProcAddr /\ u \in Thread /\ (q # p \/ u # t)
      BY <3>1, <3>3
    <3>5. u \in threads'[q] /\ active'[q][u] = g
      BY <2>3, <2>4, <3>3, <3>4
    <3> QED
      BY <2>1, <3>5
  <2> QED
    BY <2>1, <2>5 DEF RunningInv, RunningExecuted
<1>11. ASSUME NEW t \in Thread, ExitLast(t) PROVE RunningInv'
  <2>1. UNCHANGED <<running, regs, active, heap, threads>>
    BY <1>11 DEF ExitLast
  <2>2. \A q \in list_process : q \in list_process' \/ threads[q] = {}
    BY <1>11, LastIsAlone DEF ExitLast
  <2> QED
    BY <2>1, <2>2, <1>0
<1> QED
  BY DisciplinedCases, <1>1, <1>2, <1>3, <1>4, <1>5, <1>6, <1>7, <1>8, <1>9, <1>10, <1>11

\* Every step keeps count_threads the number of the threads it is to count.
LEMMA CountStep ==
  ASSUME TypeOK, HandlerInv, DisciplineInv, [Next]_vars
  PROVE  CountInv'
<1> USE ConstantsAssumption
<1> USE DEF Initialising, DisciplineInv, TypeOK, TypeThreads, TypeProcesses
<1> DEFINE Between == {"cv_fiber", "cv_count", "ex_free"}
           Known(t) == \E p \in ProcAddr : t \in threads[p]
<1>0. ASSUME NEW t \in Thread, UNCHANGED count_threads,
             \A u \in Thread \ {t} : pc'[u] = pc[u],
             \A p \in ProcAddr, u \in Thread \ {t} : u \in threads'[p] <=> u \in threads[p],
             t \in Counted' <=> t \in Counted
      PROVE  CountInv'
  <2>1. \A u \in Thread \ {t} : u \in Counted' <=> u \in Counted
    BY <1>0 DEF Counted
  <2>2. Counted' \subseteq Thread /\ Counted \subseteq Thread
    BY DEF Counted
  <2>3. t \in Counted' <=> t \in Counted
    BY <1>0
  <2>4. \A u \in Thread : u \in Counted' <=> u \in Counted
    BY <2>1, <2>3
  <2>5. Counted' = Counted
    BY <2>2, <2>4
  <2> QED
    BY <1>0, <2>5 DEF CountInv
<1>a. ASSUME NEW t \in Thread, UNCHANGED <<count_threads, threads>>,
             \A u \in Thread \ {t} : pc'[u] = pc[u],
             Known(t) => (pc'[t] \in Between <=> pc[t] \in Between)
      PROVE  CountInv'
  <2>1. t \in Counted' <=> t \in Counted
    BY <1>a DEF Counted
  <2> QED
    BY <1>0, <1>a, <2>1
<1>1. CASE UNCHANGED kernelVars
  BY <1>1 DEF kernelVars, CountInv, Counted
<1>2. ASSUME NEW t \in Thread, UserStep(t) PROVE CountInv'
  BY <1>2, <1>a DEF UserStep
<1>3. ASSUME NEW t \in Thread, ConvertSearch(t) \/ CreateSearch(t) PROVE CountInv'
  <2>1. /\ UNCHANGED <<count_threads, threads>> /\ \A u \in Thread \ {t} : pc'[u] = pc[u]
        /\ pc[t] = "user"
    BY <1>3 DEF ConvertSearch, CreateSearch
  <2>2. pc'[t] \notin Between
    BY <1>3, <2>1 DEF ConvertSearch, CreateSearch
  <2> QED
    BY <2>1, <2>2, <1>a
<1>4. ASSUME NEW t \in Thread, ExitSearch(t) \/ \E i \in 0..MaxFiber : SwitchSearch(t, i)
      PROVE  CountInv'
  <2>1. /\ UNCHANGED <<count_threads, threads>> /\ \A u \in Thread \ {t} : pc'[u] = pc[u]
        /\ pc[t] = "user" /\ pc'[t] \notin Between
    BY <1>4 DEF ExitSearch, SwitchSearch
  <2> QED
    BY <2>1, <1>a
<1>5. ASSUME NEW t \in Thread,
             \/ ConvertNewProcess(t) \/ ConvertFiber(t) \/ CreateFiber(t)
             \/ SwitchLock(t) \/ SwitchFind(t) \/ SwitchCheck(t) \/ SwitchCommit(t) \/ ExitLast(t)
      PROVE  CountInv'
  <2>1. /\ UNCHANGED <<count_threads, threads>> /\ \A u \in Thread \ {t} : pc'[u] = pc[u]
        /\ pc'[t] \in Between <=> pc[t] \in Between
    BY <1>5 DEF ConvertNewProcess, ConvertFiber, CreateFiber, SwitchLock, SwitchFind, SwitchCheck,
                SwitchCommit, ExitLast
  <2> QED
    BY <2>1, <1>a
<1>6. ASSUME NEW t \in Thread, ConvertInitThreads(t) \/ ConvertInitFibers(t) PROVE CountInv'
  <2>1. UNCHANGED threads
    BY <1>6, TablesStillEmpty
  <2>2. /\ UNCHANGED count_threads /\ \A u \in Thread \ {t} : pc'[u] = pc[u]
        /\ pc'[t] \notin Between /\ pc[t] \notin Between
    BY <1>6 DEF ConvertInitThreads, ConvertInitFibers
  <2> QED
    BY <2>1, <2>2, <1>a
<1>7. ASSUME NEW t \in Thread, ConvertThread(t) PROVE CountInv'
  <2>1. /\ UNCHANGED count_threads /\ \A u \in Thread \ {t} : pc'[u] = pc[u]
        /\ pc[t] = "cv_thread"
    BY <1>7 DEF ConvertThread
  <2>2. CASE UNCHANGED threads /\ pc'[t] = "user"
    BY <2>1, <2>2, <1>a
  <2>3. CASE t \notin threads[proc[t]] /\ pc'[t] = "cv_fiber"
    <3>1. proc[t] \in ProcAddr /\ ~Known(t)
      BY <2>1, <2>3, TablesInUse, RegisteredHere
    <3>2. threads' = [threads EXCEPT ![proc[t]] = @ \cup {t}]
      BY <1>7, <2>3 DEF ConvertThread
    <3>3. \A p \in ProcAddr, u \in Thread \ {t} : u \in threads'[p] <=> u \in threads[p]
      BY <3>1, <3>2
    <3>4. t \notin Counted' /\ t \notin Counted
      BY <2>3, <3>1 DEF Counted
    <3> QED
      BY <2>1, <3>3, <3>4, <1>0
  <2> QED
    BY <1>7, <2>2, <2>3 DEF ConvertThread
<1>8. ASSUME NEW t \in Thread, ConvertCount(t) PROVE CountInv'
  <2>1. /\ pc[t] = "cv_count" /\ pc'[t] = "user" /\ count_threads' = count_threads + 1
        /\ UNCHANGED threads /\ \A u \in Thread \ {t} : pc'[u] = pc[u]
    BY <1>8 DEF ConvertCount
  <2>2. Known(t)
    BY <2>1, TablesInUse DEF RegisteredInv
  <2>3. t \notin Counted /\ Counted' = Counted \cup {t}
    <3>1. t \notin Counted /\ t \in Counted'
      BY <2>1, <2>2 DEF Counted
    <3>2. \A u \in Thread \ {t} : u \in Counted' <=> u \in Counted
      BY <2>1 DEF Counted
    <3>3. Counted' \subseteq Thread /\ Counted \subseteq Thread
      BY DEF Counted
    <3> QED
      BY <3>1, <3>2, <3>3
  <2>4. IsFiniteSet(Counted') /\ Cardinality(Counted') = Cardinality(Counted) + 1
    BY <2>3, FS_AddElement DEF CountInv
  <2> QED
    BY <2>1, <2>4 DEF CountInv
<1>9. ASSUME NEW t \in Thread, ExitThread(t) PROVE CountInv'
  <2>1. /\ pc[t] = "ex_thread" /\ UNCHANGED threads /\ \A u \in Thread \ {t} : pc'[u] = pc[u]
    BY <1>9 DEF ExitThread
  <2>2. proc[t] \in ProcAddr /\ (Known(t) => t \in threads[proc[t]])
    BY <2>1, TablesInUse, RegisteredHere
  <2>3. CASE t \notin threads[proc[t]]
    BY <1>9, <2>1, <2>2, <2>3, <1>a DEF ExitThread
  <2>4. CASE t \in threads[proc[t]]
    <3>1. pc'[t] = "ex_free" /\ count_threads' = count_threads - 1
      BY <1>9, <2>4 DEF ExitThread
    <3>2. t \in Counted /\ Counted' = Counted \ {t}
      <4>1. t \in Counted /\ t \notin Counted'
        BY <2>1, <2>2, <2>4, <3>1 DEF Counted
      <4>2. \A u \in Thread \ {t} : u \in Counted' <=> u \in Counted
        BY <2>1 DEF Counted
      <4>3. Counted' \subseteq Thread /\ Counted \subseteq Thread
        BY DEF Counted
      <4> QED
        BY <4>1, <4>2, <4>3
    <3>3. IsFiniteSet(Counted') /\ Cardinality(Counted') = Cardinality(Counted) - 1
      BY <3>2, FS_RemoveElement DEF CountInv
    <3> QED
      BY <3>1, <3>3 DEF CountInv
  <2> QED
    BY <2>3, <2>4
<1>10. ASSUME NEW t \in Thread, ExitFree(t) PROVE CountInv'
  <2>1. /\ pc[t] = "ex_free" /\ pc'[t] = "ex_last" /\ UNCHANGED count_threads
        /\ threads' = [threads EXCEPT ![proc[t]] = @ \ {t}]
        /\ \A u \in Thread \ {t} : pc'[u] = pc[u]
    BY <1>10 DEF ExitFree
  <2>2. proc[t] \in ProcAddr
    BY <2>1, TablesInUse
  <2>3. \A p \in ProcAddr, u \in Thread \ {t} : u \in threads'[p] <=> u \in threads[p]
    BY <2>1, <2>2
  <2>4. \A p \in ProcAddr : t \notin threads'[p]
    BY <2>1, <2>2, RegisteredHere
  <2>5. t \notin Counted' /\ t \notin Counted
    BY <2>1, <2>4 DEF Counted
  <2> QED
    BY <2>1, <2>3, <2>5, <1>0
<1> QED
  BY DisciplinedCases, <1>1, <1>2, <1>3, <1>4, <1>5, <1>6, <1>7, <1>8, <1>9, <1>10

-----------------------------------------------------------------------------
\* Until a first conversion or an exit meets another call of its process, what my_ioctl
\* and Pre_Handler rely on about process_arg_t, thread_arg_t and count_threads is
\* undisturbed, whether or not kzalloc finds memory.
THEOREM DisciplineInvariant == Spec => [](~overlapped => DisciplineInv)
<1>1. Init => DisciplineInv
  <2> SUFFICES ASSUME Init PROVE DisciplineInv
    OBVIOUS
  <2> USE DEF Init
  <2>1. AloneInv
    BY DEF AloneInv, Creating, Exiting
  <2>2. ProcessInv
    BY DEF ProcessInv, Initialising
  <2>3. RegisteredInv
    BY DEF RegisteredInv
  <2>4. FibersInv
    BY DEF FibersInv, NumbersInv, FoundInv, RunningInv, RunningExecuted, Locked, Holding, Building, Creating
  <2>5. CountInv
    <3>1. Counted = {}
      BY DEF Counted
    <3> QED
      BY <3>1, FS_EmptySet DEF CountInv
  <2> QED
    BY <2>1, <2>2, <2>3, <2>4, <2>5 DEF DisciplineInv, FaultInv
<1>2. TypeOK /\ HandlerInv /\ (~overlapped => DisciplineInv) /\ [Next]_vars
        => (~overlapped' => DisciplineInv')
  <2> SUFFICES ASSUME TypeOK, HandlerInv, ~overlapped => DisciplineInv, [Next]_vars, ~overlapped'
               PROVE  DisciplineInv'
    OBVIOUS
  <2>0. DisciplineInv
    BY DEF Next, vars, Finished, InKernel, FromUser
  <2>1. AloneInv' /\ ProcessInv'
    BY <2>0, AloneStep, ProcessStep
  <2>2. RegisteredInv' /\ CountInv'
    BY <2>0, RegisteredStep, CountStep
  <2>3. FibersInv'
    BY <2>0, NumbersStep, FoundStep, RunningStep DEF FibersInv
  <2>4. FaultInv'
    <3>1. CASE UNCHANGED vars
      BY <2>0, <3>1 DEF DisciplineInv, FaultInv, vars
    <3>2. ASSUME NEW t \in Thread, Oops(t) PROVE FaultInv'
      <4>1. AllocFails /\ new[t] = NULL /\ pc[t] \in {"cv_fiber", "cr_fiber"}
        BY <2>0, <3>2, OopsIsAllocation
      <4>2. UNCHANGED <<new, pc>>
        BY <3>2 DEF Oops, localVars
      <4> QED
        BY <4>1, <4>2 DEF FaultInv
    <3>3. ~fault /\ UNCHANGED fault => FaultInv'
      BY DEF FaultInv
    <3> QED
      BY <3>1, <3>2, <3>3 DEF Next, InKernel, FromUser, Finished
  <2> QED
    BY <2>1, <2>2, <2>3, <2>4 DEF DisciplineInv
<1> QED
  BY <1>1, <1>2, HandlerInvariant, PTL DEF Spec

\* Before a first conversion or an exit meets another call of its process, all that
\* my_ioctl and Pre_Handler may dereference and not find is the fiber_arg_t of their own
\* kzalloc, whose NULL they never test for: no freed memory is used.
THEOREM FaultsAlwaysExplained == Spec => []FaultsExplained
<1>1. (~overlapped => DisciplineInv) => FaultsExplained
  BY DEF DisciplineInv, FaultInv, FaultsExplained
<1> QED
  BY <1>1, DisciplineInvariant, PTL

\* A converted thread is found by its later calls, until a first conversion or an exit
\* meets another call of its process.
THEOREM ConvertedAlwaysFound == Spec => []ConvertedThreadFound
<1>1. TypeOK /\ (~overlapped => DisciplineInv) => ConvertedThreadFound
  <2> SUFFICES ASSUME TypeOK, DisciplineInv, NEW t \in Thread, converted[t], pc[t] = "user"
               PROVE  \E p \in list_process : search_process(p, tgid[t]) /\ t \in threads[p]
    BY DEF ConvertedThreadFound
  <2>1. PICK p \in list_process : t \in threads[p]
    BY DEF DisciplineInv, RegisteredInv, Exiting
  <2>2. p \in ProcAddr /\ pid[p] = tgid[t]
    BY <2>1, RegisteredHere DEF TypeOK, TypeProcesses
  <2>3. \A q \in list_process : pid[q] = pid[p] => q = p
    BY DEF DisciplineInv, ProcessInv
  <2>4. p <= p
    BY <2>2 DEF ProcAddr
  <2>5. search_process(p, tgid[t])
    BY <2>2, <2>3, <2>4 DEF search_process
  <2> QED
    BY <2>1, <2>5
<1> QED
  BY <1>1, DisciplineInvariant, HandlerInvariant, PTL

\* A handle names one fiber of its process until a first conversion or an exit meets
\* another call of the process: the numbers are given once and there is one counter for
\* a pid.
THEOREM HandlesAlwaysUnambiguous == Spec => []HandleUnambiguous
<1>1. TypeOK /\ (~overlapped => DisciplineInv) => HandleUnambiguous
  BY DEF TypeOK, TypeProcesses, DisciplineInv, ProcessInv, FibersInv, NumbersInv,
         HandleUnambiguous
<1> QED
  BY <1>1, DisciplineInvariant, HandlerInvariant, PTL

\* No fiber is left marked as running when no thread executes it, so that every switch to
\* it would fail, until a first conversion or an exit meets another call of its process.
THEOREM FibersNeverStuck == Spec => []NoStuckFiber
<1>1. (~overlapped => DisciplineInv) => NoStuckFiber
  BY DEF DisciplineInv, FibersInv, RunningInv, RunningExecuted, NoStuckFiber
<1> QED
  BY <1>1, DisciplineInvariant, PTL
=============================================================================
