---------------------------- MODULE SingleFiber -----------------------------
(***************************************************************************)
(* The single-threaded predecessor: single_thread/Module/fiber_ioctl.c and *)
(* the wrappers of single_thread/Library/function_calls.c.                 *)
(*                                                                         *)
(* Its processes have one thread, so a call is one step.  Nothing frees a  *)
(* process_arg_t: the tasks of this module get the same pid one after the  *)
(* other, and a later one finds the tables of the earlier ones.  A wrapper *)
(* opens the device at its first call, and again at the next if that       *)
(* failed; a call whose open fails has no effect.                          *)
(*                                                                         *)
(* fls_bitmap has one word and is used with MAX_FLS bits; those beyond the *)
(* word are the bits of fls_array, which follows it.  A word is the set of *)
(* its bits.  Memory is from kmalloc and keeps what was in it.             *)
(*                                                                         *)
(* A context has the general registers of pt_regs (live, regs) and the     *)
(* floating point ones (fpu, fpu_reg), of which only it is kept whether    *)
(* they are the computation's own: SWITCHTOFIBER loads them from memory it *)
(* has just allocated and not filled.                                      *)
(***************************************************************************)
EXTENDS Integers, FiniteSets

CONSTANTS Task,         \* 1..n, the tasks that get the pid in turn
          Fiber,        \* addresses of fiber_arg_t
          Computation,  \* what CreateFiber may start
          MaxWork,      \* bound on the user steps of a computation
          MaxIndex,     \* bound on process->fiber_id
          WordBits,     \* bits of a long
          IntBits,      \* bits of an int, the result of ioctl
          MAX_FLS,
          Data,         \* words that programs store
          NULL

Own  == 0..(WordBits - 1)
Word == SUBSET Own
Slot == 0..MAX_FLS  \* find_first_zero_bit returns MAX_FLS if there is none

ASSUME SingleAssumption ==
    /\ IsFiniteSet(Task) /\ Task = 1..Cardinality(Task)
    /\ MaxWork \in Nat /\ MaxIndex \in Nat /\ MAX_FLS \in Nat
    /\ WordBits \in Nat \ {0} /\ IntBits \in 1..WordBits /\ WordBits <= MAX_FLS
    /\ Data \subseteq Word /\ NULL \notin Fiber

VARIABLES task,      \* the task that has the pid
          live,      \* the registers of each task, NULL once it ended
          fiber_id,  \* of the process_arg_t; 0 also if there is none
          hashed,    \* fibers in process->fibers
          index, running, regs,
          fpu,       \* the floating point registers of task, as FpuValues
          fpu_reg,   \* what fiber->fpu_reg points to
          active_fiber,  \* of the thread_arg_t of task, NULL if it has none
          fls_bitmap, fls_array,
          owned,     \* ghost: slots FlsAlloc gave and FlsFree did not take back
          last,      \* ghost: what was last stored in them
          overflow,  \* ghost: fibers that were given a slot beyond the word
          maker      \* ghost: the task that made a fiber

fls    == <<fls_bitmap, fls_array, owned, last, overflow>>
table  == <<fiber_id, hashed, index, running, regs, fpu_reg, active_fiber, maker>>
vars   == <<task, live, fpu, table, fls>>

\* Floating point registers: those of the computation, or any others.
FpuValues == {"own", "any"}

Init ==
    /\ task = 1
    /\ live = [t \in Task |-> [who |-> t, at |-> 0]]
    /\ fiber_id = 0 /\ hashed = {}
    /\ index = [f \in Fiber |-> 0]
    /\ running = [f \in Fiber |-> FALSE]
    /\ regs = [f \in Fiber |-> NULL]
    /\ fpu = "own"
    /\ fpu_reg = [f \in Fiber |-> "any"]
    /\ active_fiber = NULL
    /\ fls_bitmap = [f \in Fiber |-> {}]
    /\ fls_array = [f \in Fiber |-> [i \in Slot |-> {}]]
    /\ owned = [f \in Fiber |-> {}]
    /\ last = [f \in Fiber |-> [i \in Slot |-> {}]]
    /\ overflow = {}
    /\ maker = [f \in Fiber |-> NULL]

Alive == task \in Task /\ live[task] # NULL

UserStep ==
    /\ Alive /\ live[task].at < MaxWork
    /\ live' = [live EXCEPT ![task].at = @ + 1]
    /\ UNCHANGED <<task, fpu, table, fls>>

-----------------------------------------------------------------------------
\* Variant: the numbering of the fibers starts again with every conversion.
NextIndex_Restarts == IF active_fiber = NULL THEN 0 ELSE fiber_id

NextIndex == fiber_id

\* The FLS fields of new memory with the bits `ones' set.  Slots are cleared when they
\* are given out, so it matters only which bits FLSALLOC finds set.
FlsMemory(f, ones) ==
    /\ fls_bitmap' = [fls_bitmap EXCEPT ![f] = {b \in Own : b \in ones}]
    /\ fls_array' = [fls_array EXCEPT ![f] =
         [k \in Slot |-> {b \in Own : (k + 1) * WordBits + b \in ones}]]
    /\ owned' = [owned EXCEPT ![f] = {}]
    /\ last' = [last EXCEPT ![f] = [i \in Slot |-> {}]]
    /\ overflow' = overflow \ {f}

\* kmalloc and the fields that are set; the FLS fields are not.
NewFiber(f, context, isRunning) ==
    /\ f \notin hashed /\ fiber_id < MaxIndex
    /\ hashed' = hashed \cup {f}
    /\ index' = [index EXCEPT ![f] = NextIndex]
    /\ fiber_id' = NextIndex + 1
    /\ regs' = [regs EXCEPT ![f] = context]
    /\ running' = [running EXCEPT ![f] = isRunning]
    /\ maker' = [maker EXCEPT ![f] = task]
    /\ \E ones \in SUBSET (0..(MAX_FLS - 1)) : FlsMemory(f, ones)

\* A thread that is a fiber already is answered -1.
ConvertThreadToFiber(f) ==
    /\ Alive /\ active_fiber = NULL
    /\ NewFiber(f, live[task], TRUE)
    /\ active_fiber' = f
    /\ fpu_reg' = [fpu_reg EXCEPT ![f] = fpu]
    /\ UNCHANGED <<task, live, fpu>>

\* The floating point registers of the caller are saved twice: for itself and as the
\* new fiber's.
CreateFiber(f, c) ==
    /\ Alive /\ active_fiber # NULL
    /\ \A t \in Task : live[t] # NULL => live[t].who # c
    /\ \A g \in hashed : regs[g].who # c
    /\ NewFiber(f, [who |-> c, at |-> 0], FALSE)
    /\ fpu_reg' = [fpu_reg EXCEPT ![active_fiber] = fpu, ![f] = "any"]
    /\ UNCHANGED <<task, live, fpu, active_fiber>>

\* The fibers that search_fiber may return: those running are passed over.
search_fiber(h) == {f \in hashed : index[f] = h /\ ~running[f]}

\* Variant: the registers of the fiber that is left are not saved.
SavedRegs_Dropped == regs

SavedRegs == [regs EXCEPT ![active_fiber] = live[task]]

\* fiber->fpu_reg is replaced by new memory, that of the caller is filled, and the new
\* memory is loaded.
SwitchToFiber(h) ==
    /\ Alive /\ active_fiber # NULL
    /\ \E f \in search_fiber(h) :
         /\ regs' = SavedRegs
         /\ live' = [live EXCEPT ![task] = regs[f]]
         /\ running' = [running EXCEPT ![active_fiber] = FALSE, ![f] = TRUE]
         /\ fpu_reg' = [fpu_reg EXCEPT ![f] = "any", ![active_fiber] = fpu]
         /\ fpu' = fpu_reg'[f]
         /\ active_fiber' = f
    /\ UNCHANGED <<task, fiber_id, hashed, index, maker, fls>>

\* do_exit: Pre_Handler removes the thread and its active fiber, no other; the next task
\* gets the pid.
Exit ==
    /\ Alive
    /\ live' = [live EXCEPT ![task] = NULL]
    /\ task' = task + 1
    /\ hashed' = hashed \ {active_fiber}
    /\ running' = [f \in Fiber |-> running[f] /\ f # active_fiber]
    /\ regs' = [f \in Fiber |-> IF f = active_fiber THEN NULL ELSE regs[f]]
    /\ fpu_reg' = [f \in Fiber |-> IF f = active_fiber THEN "any" ELSE fpu_reg[f]]
    /\ fpu' = "own"
    /\ active_fiber' = NULL
    /\ IF active_fiber = NULL THEN UNCHANGED fls ELSE FlsMemory(active_fiber, {})
    /\ UNCHANGED <<fiber_id, index, maker>>

-----------------------------------------------------------------------------
\* Bit i of the bitmap, in the word it really is in.
TestBit(f, i) == IF i \in Own THEN i \in fls_bitmap[f]
                 ELSE i % WordBits \in fls_array[f][i \div WordBits - 1]

Flip(w, b) == IF b \in w THEN w \ {b} ELSE w \cup {b}

\* change_bit beyond the bitmap's word.
FlipBeyond(array, i) == [array EXCEPT ![i \div WordBits - 1] = Flip(@, i % WordBits)]

FirstZeroBit(f) == CHOOSE i \in Slot : /\ i = MAX_FLS \/ ~TestBit(f, i)
                                       /\ \A j \in Slot : j < i => TestBit(f, j)

\* What slots beyond the word do to their fiber is not followed further.
UsesFls == Alive /\ active_fiber # NULL /\ active_fiber \notin overflow

\* Variant: the slot keeps the value of its previous use.
ClearSlot_Dropped(array, i) == array

\* fiber->fls_array[index] = 0
ClearSlot(array, i) == [array EXCEPT ![i] = {}]

FlsAlloc ==
    /\ UsesFls
    /\ LET f == active_fiber
           i == FirstZeroBit(f)
       IN  /\ fls_bitmap' = [fls_bitmap EXCEPT ![f] = IF i \in Own THEN Flip(@, i) ELSE @]
           /\ fls_array' = [fls_array EXCEPT ![f] =
                ClearSlot(IF i \in Own THEN @ ELSE FlipBeyond(@, i), i)]
           /\ owned' = [owned EXCEPT ![f] = @ \cup {i}]
           /\ last' = [last EXCEPT ![f][i] = {}]
           /\ overflow' = IF i \in Own THEN overflow ELSE overflow \cup {f}
    /\ UNCHANGED <<task, live, fpu, table>>

\* clear_bit, for a slot that the program holds: one within the word (UsesFls).
FlsFree(i) ==
    /\ UsesFls /\ i \in owned[active_fiber]
    /\ fls_bitmap' = [fls_bitmap EXCEPT ![active_fiber] = @ \ {i}]
    /\ owned' = [owned EXCEPT ![active_fiber] = @ \ {i}]
    /\ last' = [last EXCEPT ![active_fiber][i] = {}]
    /\ UNCHANGED <<task, live, fpu, table, fls_array, overflow>>

FlsSetValue(i, d) ==
    /\ UsesFls /\ i \in owned[active_fiber]
    /\ LET f == active_fiber
       IN  /\ fls_array' = [fls_array EXCEPT ![f][i] = IF TestBit(f, i) THEN d ELSE @]
           /\ last' = [last EXCEPT ![f][i] = d]
    /\ UNCHANGED <<task, live, fpu, table, fls_bitmap, owned, overflow>>

\* FLSGETVALUE answers with the value itself, and -1 for a slot that is not allocated; of
\* a long the result of ioctl keeps the bits of an int.  -1 is the word of all bits.
GetAnswer(f, i) == IF TestBit(f, i) THEN fls_array[f][i] ELSE Own
FlsGetValue(f, i) == LET ret == GetAnswer(f, i) \cap (0..(IntBits - 1))
                     IN  IF IntBits - 1 \in ret THEN ret \cup (IntBits..(WordBits - 1)) ELSE ret

Next ==
    \/ UserStep \/ Exit \/ FlsAlloc
    \/ \E f \in Fiber : ConvertThreadToFiber(f) \/ \E c \in Computation : CreateFiber(f, c)
    \/ \E h \in 0..MaxIndex : SwitchToFiber(h)
    \/ \E i \in Slot : FlsFree(i) \/ \E d \in Data : FlsSetValue(i, d)

Spec == Init /\ [][Next]_vars

-----------------------------------------------------------------------------
Waits(f) == f \in hashed /\ ~running[f]

ParkedContexts == {regs[f] : f \in {g \in Fiber : Waits(g)}}

\* The predecessor promises the same atomic switch of the general registers as the
\* module that followed it.
Contexts == INSTANCE FiberContexts WITH Thread <- Task, parked <- ParkedContexts

\* Of the general registers each switch saves the caller's and loads those the fiber was left
\* with, in one step, and nothing but an exit loses any.  The floating point registers are not
\* part of it: what a switch loads is whatever kmalloc returned.
ImplementsContexts == Contexts!Spec

\* With a pid that is used again, the fibers a process reaches with the handles it was
\* given are its own: those an earlier process left behind keep other numbers.
HandlesOwn ==
    Alive => \A f, g \in hashed : maker[f] = task /\ index[g] = index[f] => maker[g] = task

\* A value that an int holds is read back from a slot as it was stored, whatever memory
\* the fiber was made of and whatever slots and fibers were used in between, as long as
\* the fiber was given no slot beyond the word of the bitmap.
SlotsReadBack ==
    \A f \in hashed \ overflow : \A i \in owned[f] :
        last[f][i] \subseteq 0..(IntBits - 2) => FlsGetValue(f, i) = last[f][i]
=============================================================================
