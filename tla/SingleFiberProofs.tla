------------------------- MODULE SingleFiberProofs --------------------------
(***************************************************************************)
(* Proofs about the single-threaded predecessor of SingleFiber, for any    *)
(* number of tasks with one pid, of fibers, computations, user steps, data *)
(* words, and bits the bitmap is used with.                                *)
(***************************************************************************)
EXTENDS SingleFiber, WellFoundedInduction, TLAPS

Context == [who : Task \cup Computation, at : 0..MaxWork]

SingleTypeOK ==
    /\ live \in [Task -> Context \cup {NULL}]
    /\ fiber_id \in Nat /\ hashed \in SUBSET Fiber
    /\ index \in [Fiber -> Nat]
    /\ running \in [Fiber -> BOOLEAN]
    /\ regs \in [Fiber -> Context \cup {NULL}]
    /\ fpu \in FpuValues /\ fpu_reg \in [Fiber -> FpuValues]
    /\ maker \in [Fiber -> Task \cup {NULL}]
    /\ active_fiber \in Fiber \cup {NULL}
    /\ overflow \in SUBSET Fiber
    /\ fls_bitmap \in [Fiber -> Word] /\ owned \in [Fiber -> SUBSET Slot]
    /\ fls_array \in [Fiber -> [Slot -> Word]] /\ last \in [Fiber -> [Slot -> Word]]

\* Every fiber in the table has a context and a number of its own, below the next one to be
\* given, whichever task made it; the active one is in the table and marked as running.
TableInv ==
    /\ \A f \in hashed : regs[f] \in Context /\ index[f] < fiber_id
    /\ \A f, g \in hashed : index[f] = index[g] => f = g
    /\ active_fiber # NULL => active_fiber \in hashed /\ running[active_fiber]

\* A computation is in the registers of one task or kept in one fiber.
DistinctInv ==
    /\ \A s, t \in Task :
         live[s] # NULL /\ live[t] # NULL /\ s # t => live[s].who # live[t].who
    /\ \A t \in Task, f \in Fiber : live[t] # NULL /\ Waits(f) => live[t].who # regs[f].who
    /\ \A f, g \in Fiber : Waits(f) /\ Waits(g) /\ f # g => regs[f].who # regs[g].who

\* Slots that were given lie in the word, have their bit set and hold what was stored last.
SlotInv ==
    \A f \in Fiber \ overflow : \A i \in owned[f] :
        i \in Own /\ i \in fls_bitmap[f] /\ fls_array[f][i] = last[f][i]

SingleInv == SingleTypeOK /\ TableInv /\ DistinctInv

-----------------------------------------------------------------------------
\* The facts about names and numbers that the steps need.
LEMMA Names ==
  /\ NULL \notin Fiber /\ Slot \subseteq Nat /\ 0 \in Slot /\ Own \subseteq Nat
  /\ {} \in Word /\ Data \subseteq Word /\ MaxWork \in Nat
  /\ \A w \in Word, b \in Own : Flip(w, b) \in Word
  /\ "own" \in FpuValues /\ "any" \in FpuValues
BY SingleAssumption DEF Slot, Own, Word, Flip, FpuValues

\* A step of the specification is one call, the end of the task or a step of its program.
LEMMA StepCases ==
  ASSUME [Next]_vars
  PROVE  \/ UNCHANGED vars \/ UserStep \/ Exit \/ FlsAlloc
         \/ \E f \in Fiber : ConvertThreadToFiber(f)
         \/ \E f \in Fiber, c \in Computation : CreateFiber(f, c)
         \/ \E h \in 0..MaxIndex : SwitchToFiber(h)
         \/ \E i \in Slot : FlsFree(i)
         \/ \E i \in Slot, d \in Data : FlsSetValue(i, d)
BY DEF Next

\* The task that calls has registers, and its active fiber is one.
LEMMA Caller ==
  ASSUME SingleTypeOK, Alive
  PROVE  /\ task \in Task /\ live[task] \in Context
         /\ live[task].who \in Task \cup Computation /\ live[task].at \in 0..MaxWork
BY DEF SingleTypeOK, Alive, Context

\* What new memory of a fiber holds has the types of its fields.
LEMMA FlsMemoryTypes ==
  ASSUME SingleTypeOK, NEW f \in Fiber, NEW ones, FlsMemory(f, ones)
  PROVE  /\ fls_bitmap' \in [Fiber -> Word] /\ owned' \in [Fiber -> SUBSET Slot]
         /\ fls_array' \in [Fiber -> [Slot -> Word]] /\ last' \in [Fiber -> [Slot -> Word]]
         /\ overflow' \in SUBSET Fiber
<1> USE Names
<1>1. [k \in Slot |-> {b \in Own : (k + 1) * WordBits + b \in ones}] \in [Slot -> Word]
  BY DEF Word
<1>3. {b \in Own : b \in ones} \in Word
  BY DEF Word
<1>2. [i \in Slot |-> {}] \in [Slot -> Word]
  OBVIOUS
<1> QED
  BY <1>1, <1>2, <1>3 DEF SingleTypeOK, FlsMemory

\* Slots of new memory are given to nobody.
LEMMA FlsMemorySlots ==
  ASSUME SingleTypeOK, SlotInv, NEW f \in Fiber, NEW ones, FlsMemory(f, ones)
  PROVE  SlotInv'
BY DEF SingleTypeOK, SlotInv, FlsMemory

-----------------------------------------------------------------------------
\* Bit i is a bit of a word of fls_array.
Beyond(i) == i \div WordBits - 1 \in Slot /\ i % WordBits \in Own

\* The bits beyond the word of the bitmap are bits of fls_array, up to the last one searched.
LEMMA BitsBeyond == \A i \in Slot : i \notin Own => Beyond(i)
<1> SUFFICES ASSUME NEW i \in Slot, i \notin Own PROVE Beyond(i)
  OBVIOUS
<1> DEFINE d == i \div WordBits
           m == i % WordBits
<1>1. WordBits \in Nat \ {0} /\ i \in Nat /\ i >= WordBits /\ i <= MAX_FLS /\ MAX_FLS \in Nat
  BY SingleAssumption DEF Slot, Own
<1>2. d \in Nat /\ m \in 0..(WordBits - 1)
  BY <1>1
<1>3. i = WordBits * d + m
  BY <1>1
<1> HIDE DEF d, m
<1>4. d # 0
  BY <1>1, <1>2, <1>3
<1>5. d <= WordBits * d
  BY <1>1, <1>2
<1>6. d <= i
  <2>1. WordBits * d \in Nat
    BY <1>1, <1>2
  <2> QED
    BY <1>1, <1>2, <1>3, <1>5, <2>1
<1>7. d - 1 \in Slot /\ m \in Own
  BY <1>1, <1>2, <1>4, <1>6 DEF Slot, Own
<1> QED
  BY <1>7 DEF Beyond, d, m

\* The first zero bit is a slot, and a bit of the word only if it was not set: a set of
\* natural numbers has a least element.
LEMMA ZeroBit ==
  ASSUME NEW f \in Fiber
  PROVE  /\ FirstZeroBit(f) \in Slot
         /\ FirstZeroBit(f) \in Own => FirstZeroBit(f) \notin fls_bitmap[f]
         /\ FirstZeroBit(f) \notin Own => Beyond(FirstZeroBit(f))
<1> DEFINE Zero == {i \in Slot : i = MAX_FLS \/ ~TestBit(f, i)}
<1>1. MAX_FLS \in Slot /\ Slot \subseteq Nat
  BY SingleAssumption DEF Slot
<1>2. Zero \subseteq Nat /\ Zero # {}
  BY <1>1
<1> HIDE DEF Zero
<1>3. PICK k \in Zero : \A j \in Zero : <<j, k>> \notin OpToRel(<, Nat)
  BY <1>2, NatLessThanWellFounded, WFMin
<1>4. \A j \in Zero : <<j, k>> \in Nat \X Nat
  BY <1>2
<1>5. \A j \in Zero : j < k => <<j, k>> \in OpToRel(<, Nat)
  BY <1>4 DEF OpToRel
<1>6. \A j \in Zero : ~(j < k)
  BY <1>3, <1>5
<1>7. /\ k \in Slot
      /\ k = MAX_FLS \/ ~TestBit(f, k)
      /\ \A j \in Slot : j < k => TestBit(f, j)
  BY <1>6 DEF Zero
<1>8. /\ FirstZeroBit(f) \in Slot
      /\ FirstZeroBit(f) = MAX_FLS \/ ~TestBit(f, FirstZeroBit(f))
  BY <1>7 DEF FirstZeroBit
<1>9. MAX_FLS \notin Own
  BY SingleAssumption DEF Own
<1> QED
  BY <1>8, <1>9, BitsBeyond DEF TestBit

-----------------------------------------------------------------------------
\* Every call keeps each variable within its type.
LEMMA TypeStep ==
  ASSUME SingleInv, [Next]_vars
  PROVE  SingleTypeOK'
<1> USE Names
<1> USE DEF SingleInv, SingleTypeOK, table, fls
<1>1. CASE UNCHANGED vars
  BY <1>1 DEF vars
<1>2. CASE UserStep
  <2>1. live[task].at + 1 \in 0..MaxWork
    BY <1>2, Caller DEF UserStep
  <2>2. [live[task] EXCEPT !.at = live[task].at + 1] \in Context
    BY <1>2, <2>1, Caller DEF UserStep, Context
  <2>3. live' = [live EXCEPT ![task] = [live[task] EXCEPT !.at = live[task].at + 1]]
    BY <1>2 DEF UserStep
  <2> QED
    BY <1>2, <2>2, <2>3, Caller DEF UserStep
<1>3. CASE Exit
  <2>1. CASE active_fiber = NULL
    BY <1>3, <2>1, Caller DEF Exit
  <2>2. CASE active_fiber # NULL
    <3>1. FlsMemory(active_fiber, {})
      BY <1>3, <2>2 DEF Exit
    <3> QED
      BY <1>3, <2>2, <3>1, Caller, FlsMemoryTypes DEF Exit
  <2> QED
    BY <2>1, <2>2
<1>4. CASE FlsAlloc
  <2> DEFINE f == active_fiber
             i == FirstZeroBit(f)
             a == IF i \in Own THEN fls_array[f]
                  ELSE FlipBeyond(fls_array[f], i)
  <2>1. f \in Fiber
    BY <1>4 DEF FlsAlloc, UsesFls
  <2>2. i \in Slot /\ (i \notin Own => Beyond(i))
    BY <2>1, ZeroBit
  <2>3. fls_array[f] \in [Slot -> Word] /\ fls_bitmap[f] \in Word
    BY <2>1
  <2>4. a \in [Slot -> Word]
    BY <2>2, <2>3 DEF FlipBeyond, Beyond
  <2>5. /\ fls_bitmap' = [fls_bitmap EXCEPT ![f] = IF i \in Own THEN Flip(@, i) ELSE @]
        /\ fls_array' = [fls_array EXCEPT ![f] = [a EXCEPT ![i] = {}]]
        /\ owned' = [owned EXCEPT ![f] = @ \cup {i}]
        /\ last' = [last EXCEPT ![f][i] = {}]
        /\ overflow' = IF i \in Own THEN overflow ELSE overflow \cup {f}
        /\ UNCHANGED <<task, live, fpu, table>>
    BY <1>4 DEF FlsAlloc, ClearSlot
  <2> HIDE DEF i, a
  <2>6. [a EXCEPT ![i] = {}] \in [Slot -> Word]
    BY <2>2, <2>4
  <2>7. fls_array' \in [Fiber -> [Slot -> Word]]
    BY <2>1, <2>5, <2>6
  <2>8. last' \in [Fiber -> [Slot -> Word]]
    BY <2>1, <2>2, <2>5
  <2>9. (IF i \in Own THEN Flip(fls_bitmap[f], i) ELSE fls_bitmap[f]) \in Word
    BY <2>3
  <2>10. fls_bitmap' \in [Fiber -> Word] /\ owned' \in [Fiber -> SUBSET Slot]
    BY <2>1, <2>2, <2>5, <2>9
  <2> QED
    BY <2>1, <2>5, <2>7, <2>8, <2>10
<1>5. ASSUME NEW f \in Fiber, ConvertThreadToFiber(f) PROVE SingleTypeOK'
  <2>1. PICK ones \in SUBSET (0..(MAX_FLS - 1)) : FlsMemory(f, ones)
    BY <1>5 DEF ConvertThreadToFiber, NewFiber
  <2>2. /\ fls_bitmap' \in [Fiber -> Word] /\ owned' \in [Fiber -> SUBSET Slot]
        /\ fls_array' \in [Fiber -> [Slot -> Word]] /\ last' \in [Fiber -> [Slot -> Word]]
        /\ overflow' \in SUBSET Fiber
    <3> HIDE DEF SingleTypeOK
    <3>1. SingleTypeOK
      OBVIOUS
    <3> QED
      BY <2>1, <3>1, FlsMemoryTypes
  <2>3. /\ live' \in [Task -> Context \cup {NULL}] /\ fiber_id' \in Nat
        /\ hashed' \in SUBSET Fiber /\ active_fiber' \in Fiber \cup {NULL}
        /\ index' \in [Fiber -> Nat] /\ running' \in [Fiber -> BOOLEAN]
    BY <1>5 DEF ConvertThreadToFiber, NewFiber, NextIndex
  <2>4. /\ regs' \in [Fiber -> Context \cup {NULL}] /\ maker' \in [Fiber -> Task \cup {NULL}]
        /\ fpu' \in FpuValues /\ fpu_reg' \in [Fiber -> FpuValues]
    BY <1>5, Caller DEF ConvertThreadToFiber, NewFiber
  <2> QED
    BY <2>2, <2>3, <2>4
<1>6. ASSUME NEW f \in Fiber, NEW c \in Computation, CreateFiber(f, c) PROVE SingleTypeOK'
  <2>1. PICK ones \in SUBSET (0..(MAX_FLS - 1)) : FlsMemory(f, ones)
    BY <1>6 DEF CreateFiber, NewFiber
  <2>2. [who |-> c, at |-> 0] \in Context
    BY DEF Context
  <2>3. /\ fls_bitmap' \in [Fiber -> Word] /\ owned' \in [Fiber -> SUBSET Slot]
        /\ fls_array' \in [Fiber -> [Slot -> Word]] /\ last' \in [Fiber -> [Slot -> Word]]
        /\ overflow' \in SUBSET Fiber
    <3> HIDE DEF SingleTypeOK
    <3>1. SingleTypeOK
      OBVIOUS
    <3> QED
      BY <2>1, <3>1, FlsMemoryTypes
  <2>4. /\ live' \in [Task -> Context \cup {NULL}] /\ fiber_id' \in Nat
        /\ hashed' \in SUBSET Fiber /\ active_fiber' \in Fiber \cup {NULL}
        /\ index' \in [Fiber -> Nat] /\ running' \in [Fiber -> BOOLEAN]
    BY <1>6 DEF CreateFiber, NewFiber, NextIndex
  <2>5. /\ regs' \in [Fiber -> Context \cup {NULL}] /\ maker' \in [Fiber -> Task \cup {NULL}]
        /\ fpu' \in FpuValues /\ fpu_reg' \in [Fiber -> FpuValues]
    BY <1>6, <2>2, Caller DEF CreateFiber, NewFiber
  <2> QED
    BY <2>3, <2>4, <2>5
<1>7. ASSUME NEW h \in 0..MaxIndex, SwitchToFiber(h) PROVE SingleTypeOK'
  <2>1. PICK f \in search_fiber(h) :
          /\ regs' = [regs EXCEPT ![active_fiber] = live[task]]
          /\ live' = [live EXCEPT ![task] = regs[f]]
          /\ running' = [running EXCEPT ![active_fiber] = FALSE, ![f] = TRUE]
          /\ fpu_reg' = [fpu_reg EXCEPT ![f] = "any", ![active_fiber] = fpu]
          /\ fpu' = fpu_reg'[f]
          /\ active_fiber' = f
    BY <1>7 DEF SwitchToFiber, SavedRegs
  <2>2. f \in Fiber /\ active_fiber \in Fiber /\ task \in Task
    BY <1>7, <2>1, Caller DEF SwitchToFiber, search_fiber
  <2>3. /\ fpu_reg' \in [Fiber -> FpuValues] /\ fpu' \in FpuValues
    BY <2>1, <2>2 DEF FpuValues
  <2>5. /\ regs' \in [Fiber -> Context \cup {NULL}]
        /\ live' \in [Task -> Context \cup {NULL}]
        /\ running' \in [Fiber -> BOOLEAN]
    BY <2>1, <2>2
  <2>4. UNCHANGED <<task, fiber_id, hashed, index, maker, fls>>
    BY <1>7 DEF SwitchToFiber
  <2> QED
    BY <2>1, <2>2, <2>3, <2>4, <2>5 DEF fls
<1>8. ASSUME NEW i \in Slot, FlsFree(i) PROVE SingleTypeOK'
  BY <1>8 DEF FlsFree, UsesFls, Word
<1>9. ASSUME NEW i \in Slot, NEW d \in Data, FlsSetValue(i, d) PROVE SingleTypeOK'
  BY <1>9 DEF FlsSetValue, UsesFls
<1> QED
  BY StepCases, <1>1, <1>2, <1>3, <1>4, <1>5, <1>6, <1>7, <1>8, <1>9

\* Every call keeps the numbers of the fibers apart and the active fiber in the table.
LEMMA TableStep ==
  ASSUME SingleInv, [Next]_vars
  PROVE  TableInv'
<1> USE Names
<1> USE DEF SingleInv, SingleTypeOK, TableInv, table
<1>1. CASE UNCHANGED vars
  BY <1>1 DEF vars
<1>2. CASE UserStep \/ FlsAlloc
  BY <1>2 DEF UserStep, FlsAlloc
<1>3. CASE Exit
  BY <1>3, Caller DEF Exit
<1>4. ASSUME NEW f \in Fiber, ConvertThreadToFiber(f) PROVE TableInv'
  BY <1>4, Caller DEF ConvertThreadToFiber, NewFiber, NextIndex
<1>5. ASSUME NEW f \in Fiber, NEW c \in Computation, CreateFiber(f, c) PROVE TableInv'
  <2>1. [who |-> c, at |-> 0] \in Context
    BY DEF Context
  <2> QED
    BY <1>5, <2>1 DEF CreateFiber, NewFiber, NextIndex
<1>6. ASSUME NEW h \in 0..MaxIndex, SwitchToFiber(h) PROVE TableInv'
  BY <1>6, Caller DEF SwitchToFiber, search_fiber, SavedRegs
<1>7. ASSUME NEW i \in Slot, FlsFree(i) PROVE TableInv'
  BY <1>7 DEF FlsFree
<1>8. ASSUME NEW i \in Slot, NEW d \in Data, FlsSetValue(i, d) PROVE TableInv'
  BY <1>8 DEF FlsSetValue
<1> QED
  BY StepCases, <1>1, <1>2, <1>3, <1>4, <1>5, <1>6, <1>7, <1>8

\* Every call leaves a computation in one place: a switch moves two, CREATEFIBER starts one
\* that was nowhere, and the fiber of a conversion keeps none.
LEMMA DistinctStep ==
  ASSUME SingleInv, [Next]_vars
  PROVE  DistinctInv'
<1> USE Names
<1> USE DEF SingleInv, SingleTypeOK, table
<1>1. CASE UNCHANGED vars
  BY <1>1 DEF vars, DistinctInv, Waits
<1>2. CASE UserStep
  <2>1. /\ \A t \in Task : live'[t] # NULL => live[t] # NULL /\ live'[t].who = live[t].who
        /\ UNCHANGED table
    BY <1>2, Caller DEF UserStep, Alive, Context
  <2> QED
    BY <2>1 DEF DistinctInv, Waits
<1>3. CASE Exit
  <2>1. \A f \in Fiber : Waits(f)' => Waits(f) /\ regs'[f] = regs[f]
    BY <1>3 DEF Exit, Waits, TableInv
  <2>2. \A t \in Task : live'[t] # NULL => live'[t] = live[t]
    BY <1>3, Caller DEF Exit
  <2> QED
    BY <2>1, <2>2 DEF DistinctInv
<1>4. CASE FlsAlloc
  BY <1>4 DEF FlsAlloc, DistinctInv, Waits
<1>5. ASSUME NEW f \in Fiber, ConvertThreadToFiber(f) PROVE DistinctInv'
  <2>1. \A g \in Fiber : Waits(g)' => Waits(g) /\ regs'[g] = regs[g]
    BY <1>5 DEF ConvertThreadToFiber, NewFiber, Waits
  <2>2. UNCHANGED live
    BY <1>5 DEF ConvertThreadToFiber
  <2> QED
    BY <2>1, <2>2 DEF DistinctInv
<1>6. ASSUME NEW f \in Fiber, NEW c \in Computation, CreateFiber(f, c) PROVE DistinctInv'
  <2>1. /\ \A g \in Fiber : Waits(g)' => g = f \/ (Waits(g) /\ regs'[g] = regs[g])
        /\ regs'[f] = [who |-> c, at |-> 0] /\ UNCHANGED live
    BY <1>6 DEF CreateFiber, NewFiber, Waits
  <2>2. /\ \A t \in Task : live[t] # NULL => live[t].who # c
        /\ \A g \in Fiber : Waits(g) => regs[g].who # c
    BY <1>6 DEF CreateFiber, Waits
  <2>3. regs'[f].who = c
    BY <2>1
  <2>4. \A t \in Task, g \in Fiber :
          live'[t] # NULL /\ Waits(g)' => live'[t].who # regs'[g].who
    <3> HIDE DEF SingleTypeOK, table
    <3> QED
      BY <2>1, <2>2, <2>3 DEF DistinctInv
  <2>5. \A g, k \in Fiber : Waits(g)' /\ Waits(k)' /\ g # k => regs'[g].who # regs'[k].who
    <3> HIDE DEF SingleInv, SingleTypeOK, table
    <3> SUFFICES ASSUME NEW g \in Fiber, NEW k \in Fiber, Waits(g)', Waits(k)', g # k
                 PROVE  regs'[g].who # regs'[k].who
      OBVIOUS
    <3>1. CASE g = f
      BY <2>1, <2>2, <2>3, <3>1
    <3>2. CASE k = f
      BY <2>1, <2>2, <2>3, <3>2
    <3>3. CASE g # f /\ k # f
      <4>1. /\ Waits(g) /\ regs'[g] = regs[g]
            /\ Waits(k) /\ regs'[k] = regs[k]
        BY <2>1, <3>3
      <4>2. DistinctInv
        BY DEF SingleInv
      <4>3. regs[g].who # regs[k].who
        BY <4>1, <4>2 DEF DistinctInv
      <4> QED
        BY <4>1, <4>3
    <3> QED
      BY <3>1, <3>2, <3>3
  <2> QED
    BY <2>1, <2>4, <2>5 DEF DistinctInv
<1>7. ASSUME NEW h \in 0..MaxIndex, SwitchToFiber(h) PROVE DistinctInv'
  <2>1. PICK f \in search_fiber(h) :
          /\ regs' = [regs EXCEPT ![active_fiber] = live[task]]
          /\ live' = [live EXCEPT ![task] = regs[f]]
          /\ running' = [running EXCEPT ![active_fiber] = FALSE, ![f] = TRUE]
          /\ UNCHANGED hashed
    BY <1>7 DEF SwitchToFiber, SavedRegs
  <2>2. /\ f \in Fiber /\ Waits(f) /\ active_fiber \in Fiber /\ ~Waits(active_fiber)
        /\ active_fiber \in hashed /\ active_fiber # f
    BY <1>7, <2>1 DEF SwitchToFiber, search_fiber, Waits, TableInv
  <2>3. task \in Task /\ live[task] # NULL
    BY <1>7, Caller DEF SwitchToFiber, Alive
  <2>4. \A g \in Fiber : Waits(g)' =>
             \/ g = active_fiber /\ regs'[g] = live[task]
             \/ Waits(g) /\ g # f /\ regs'[g] = regs[g]
    BY <2>1, <2>2 DEF Waits
  <2>5. live'[task] = regs[f] /\ \A t \in Task : t # task => live'[t] = live[t]
    BY <2>1, <2>3
  <2>6. \A s, t \in Task :
          live'[s] # NULL /\ live'[t] # NULL /\ s # t => live'[s].who # live'[t].who
    <3> HIDE DEF SingleTypeOK, table
    <3> QED
      BY <2>2, <2>3, <2>5 DEF DistinctInv
  <2>7. \A t \in Task, g \in Fiber :
          live'[t] # NULL /\ Waits(g)' => live'[t].who # regs'[g].who
    <3> SUFFICES ASSUME NEW t \in Task, NEW g \in Fiber, live'[t] # NULL, Waits(g)'
                 PROVE  live'[t].who # regs'[g].who
      OBVIOUS
    <3>1. CASE g = active_fiber /\ regs'[g] = live[task]
      <4> HIDE DEF SingleInv, SingleTypeOK, table
      <4>1. DistinctInv
        BY DEF SingleInv
      <4>2. CASE t = task
        BY <2>2, <2>3, <2>5, <3>1, <4>1, <4>2 DEF DistinctInv
      <4>3. CASE t # task
        BY <2>3, <2>5, <3>1, <4>1, <4>3 DEF DistinctInv
      <4> QED
        BY <4>2, <4>3
    <3>2. CASE Waits(g) /\ g # f /\ regs'[g] = regs[g]
      <4> HIDE DEF SingleInv, SingleTypeOK, table
      <4>1. DistinctInv
        BY DEF SingleInv
      <4>2. CASE t = task
        BY <2>2, <2>5, <3>2, <4>1, <4>2 DEF DistinctInv
      <4>3. CASE t # task
        BY <2>5, <3>2, <4>1, <4>3 DEF DistinctInv
      <4> QED
        BY <4>2, <4>3
    <3> QED
      BY <2>4, <3>1, <3>2
  <2>8. \A g, k \in Fiber : Waits(g)' /\ Waits(k)' /\ g # k => regs'[g].who # regs'[k].who
    <3> SUFFICES ASSUME NEW g \in Fiber, NEW k \in Fiber, Waits(g)', Waits(k)', g # k
                 PROVE  regs'[g].who # regs'[k].who
      OBVIOUS
    <3>1. CASE g = active_fiber /\ regs'[g] = live[task]
      <4>1. Waits(k) /\ regs'[k] = regs[k]
        BY <2>4, <3>1
      <4> QED
        BY <2>3, <3>1, <4>1 DEF DistinctInv
    <3>2. CASE k = active_fiber /\ regs'[k] = live[task]
      <4>1. Waits(g) /\ regs'[g] = regs[g]
        BY <2>4, <3>2
      <4> QED
        BY <2>3, <3>2, <4>1 DEF DistinctInv
    <3>3. CASE Waits(g) /\ regs'[g] = regs[g] /\ Waits(k) /\ regs'[k] = regs[k]
      BY <3>3 DEF DistinctInv
    <3> QED
      BY <2>4, <3>1, <3>2, <3>3
  <2> QED
    BY <2>6, <2>7, <2>8 DEF DistinctInv
<1>8. ASSUME NEW i \in Slot, FlsFree(i) PROVE DistinctInv'
  BY <1>8 DEF FlsFree, DistinctInv, Waits
<1>9. ASSUME NEW i \in Slot, NEW d \in Data, FlsSetValue(i, d) PROVE DistinctInv'
  BY <1>9 DEF FlsSetValue, DistinctInv, Waits
<1> QED
  BY StepCases, <1>1, <1>2, <1>3, <1>4, <1>5, <1>6, <1>7, <1>8, <1>9

\* Every call leaves the slots of the word as they were, except the one it is about.
LEMMA SlotStep ==
  ASSUME SingleInv, SlotInv, [Next]_vars
  PROVE  SlotInv'
<1> USE Names
<1> USE DEF SingleInv, SingleTypeOK, table, fls
<1>1. CASE UNCHANGED vars
  BY <1>1 DEF vars, SlotInv
<1>2. CASE UserStep
  BY <1>2 DEF UserStep, SlotInv
<1>3. CASE Exit
  <2>1. CASE active_fiber = NULL
    BY <1>3, <2>1 DEF Exit, SlotInv
  <2>2. CASE active_fiber # NULL
    BY <1>3, <2>2, FlsMemorySlots DEF Exit
  <2> QED
    BY <2>1, <2>2
<1>4. CASE FlsAlloc
  <2> DEFINE f == active_fiber
             i == FirstZeroBit(f)
  <2>1. f \in Fiber \ overflow
    BY <1>4 DEF FlsAlloc, UsesFls
  <2>2. i \in Slot /\ (i \in Own => i \notin fls_bitmap[f])
    BY <2>1, ZeroBit
  <2>3. CASE i \in Own
    <3>1. /\ fls_bitmap' = [fls_bitmap EXCEPT ![f] = @ \cup {i}]
          /\ fls_array' = [fls_array EXCEPT ![f] = [fls_array[f] EXCEPT ![i] = {}]]
          /\ owned' = [owned EXCEPT ![f] = @ \cup {i}]
          /\ last' = [last EXCEPT ![f][i] = {}]
          /\ UNCHANGED overflow
      BY <1>4, <2>1, <2>2, <2>3 DEF FlsAlloc, ClearSlot, Flip
    <3> HIDE DEF i
    <3> QED
      BY <2>1, <2>2, <2>3, <3>1 DEF SlotInv
  <2>4. CASE i \notin Own
    <3>1. \A g \in Fiber \ overflow' :
            /\ g \in Fiber \ overflow /\ fls_bitmap'[g] = fls_bitmap[g]
            /\ owned'[g] = owned[g] /\ fls_array'[g] = fls_array[g] /\ last'[g] = last[g]
      BY <1>4, <2>1, <2>4 DEF FlsAlloc
    <3> SUFFICES ASSUME NEW g \in Fiber \ overflow', NEW k \in owned'[g]
                 PROVE  k \in Own /\ k \in fls_bitmap'[g] /\ fls_array'[g][k] = last'[g][k]
      BY DEF SlotInv
    <3>2. SlotInv
      OBVIOUS
    <3> HIDE DEF f, i, SingleInv, SingleTypeOK, table, fls
    <3>3. g \in Fiber \ overflow /\ k \in owned[g]
      BY <3>1
    <3>4. k \in Own /\ k \in fls_bitmap[g] /\ fls_array[g][k] = last[g][k]
      BY <3>2, <3>3 DEF SlotInv
    <3> QED
      BY <3>1, <3>4
  <2> QED
    BY <2>3, <2>4
<1>5. ASSUME NEW f \in Fiber, ConvertThreadToFiber(f) PROVE SlotInv'
  BY <1>5, FlsMemorySlots DEF ConvertThreadToFiber, NewFiber
<1>6. ASSUME NEW f \in Fiber, NEW c \in Computation, CreateFiber(f, c) PROVE SlotInv'
  BY <1>6, FlsMemorySlots DEF CreateFiber, NewFiber
<1>7. ASSUME NEW h \in 0..MaxIndex, SwitchToFiber(h) PROVE SlotInv'
  BY <1>7 DEF SwitchToFiber, SlotInv
<1>8. ASSUME NEW i \in Slot, FlsFree(i) PROVE SlotInv'
  <2> DEFINE f == active_fiber
  <2>1. f \in Fiber \ overflow /\ i \in owned[f] /\ i \in Own
    BY <1>8 DEF FlsFree, UsesFls, SlotInv
  <2>3. UNCHANGED <<fls_array, overflow>>
    BY <1>8 DEF FlsFree
  <2>4. /\ fls_bitmap' = [fls_bitmap EXCEPT ![f] = @ \ {i}]
        /\ owned' = [owned EXCEPT ![f] = @ \ {i}]
        /\ last' = [last EXCEPT ![f][i] = {}]
    BY <1>8 DEF FlsFree
  <2> QED
    BY <2>1, <2>3, <2>4 DEF SlotInv
<1>9. ASSUME NEW i \in Slot, NEW d \in Data, FlsSetValue(i, d) PROVE SlotInv'
  <2>1. active_fiber \in Fiber \ overflow /\ TestBit(active_fiber, i)
    BY <1>9 DEF FlsSetValue, UsesFls, SlotInv, TestBit
  <2>2. /\ fls_array' = [fls_array EXCEPT ![active_fiber][i] = d]
        /\ last' = [last EXCEPT ![active_fiber][i] = d]
        /\ UNCHANGED <<fls_bitmap, owned, overflow>>
    BY <1>9, <2>1 DEF FlsSetValue
  <2> QED
    BY <2>1, <2>2 DEF SlotInv
<1> QED
  BY StepCases, <1>1, <1>2, <1>3, <1>4, <1>5, <1>6, <1>7, <1>8, <1>9

-----------------------------------------------------------------------------
\* Whatever the tasks of a pid call and in whatever order they end, the table, its handles
\* and the places of the computations are as described above.
THEOREM SingleInvariant == Spec => []SingleInv
<1>1. Init => SingleInv
  <2> SUFFICES ASSUME Init PROVE SingleInv
    OBVIOUS
  <2> USE Names
  <2> USE DEF Init
  <2>1. \A t \in Task : [who |-> t, at |-> 0] \in Context
    BY DEF Context
  <2>2. SingleTypeOK
    BY <2>1 DEF SingleTypeOK
  <2>3. TableInv
    BY DEF TableInv
  <2>4. DistinctInv
    BY DEF DistinctInv, Waits
  <2> QED
    BY <2>2, <2>3, <2>4 DEF SingleInv
<1>2. SingleInv /\ [Next]_vars => SingleInv'
  BY TypeStep, TableStep, DistinctStep DEF SingleInv
<1> QED
  BY <1>1, <1>2, PTL DEF Spec

\* A process reaches with the handles it was given fibers of its own, and none that an
\* earlier process of the same pid left in the table (NextIndex).
THEOREM HandlesAlwaysOwn == Spec => []HandlesOwn
<1>1. SingleInv => HandlesOwn
  BY DEF SingleInv, TableInv, HandlesOwn
<1> QED
  BY <1>1, SingleInvariant, PTL

\* A value that an int holds is read back from a slot as it was stored, from whatever memory
\* the fiber was made: FLSALLOC gives no slot twice and clears the one it gives.
THEOREM WordSlotsReadBack == Spec => []SlotsReadBack
<1>1. Init => SlotInv
  BY DEF Init, SlotInv
<1>2. SingleInv /\ SlotInv /\ [Next]_vars => SlotInv'
  BY SlotStep
<1>3. SingleInv /\ SlotInv => SlotsReadBack
  <2> SUFFICES ASSUME SingleInv, SlotInv, NEW f \in hashed \ overflow, NEW i \in owned[f],
                      last[f][i] \subseteq 0..(IntBits - 2)
               PROVE  FlsGetValue(f, i) = last[f][i]
    BY DEF SlotsReadBack
  <2>1. TestBit(f, i) /\ fls_array[f][i] = last[f][i]
    BY DEF SingleInv, SingleTypeOK, SlotInv, TestBit
  <2>2. last[f][i] \cap (0..(IntBits - 1)) = last[f][i] /\ IntBits - 1 \notin last[f][i]
    BY SingleAssumption
  <2> QED
    BY <2>1, <2>2 DEF FlsGetValue, GetAnswer
<1> QED
  BY <1>1, <1>2, <1>3, SingleInvariant, PTL DEF Spec

-----------------------------------------------------------------------------
\* A step that moves no computation leaves the contexts of the abstract specification.
LEMMA SameContexts ==
  ASSUME UNCHANGED live, \A f \in Fiber : Waits(f)' <=> Waits(f),
         \A f \in Fiber : Waits(f) => regs'[f] = regs[f]
  PROVE  UNCHANGED Contexts!ctxVars
<1>1. ParkedContexts' = ParkedContexts
  BY DEF ParkedContexts
<1> QED
  BY <1>1 DEF Contexts!ctxVars

\* Every step of the predecessor is a step of the promised switch, or none of it.
LEMMA ContextsStep ==
  ASSUME SingleInv, [Next]_vars
  PROVE  [Contexts!Next]_Contexts!ctxVars
<1> USE Names
<1> USE DEF SingleInv, SingleTypeOK, table
<1>1. CASE UNCHANGED vars \/ FlsAlloc
  <2>1. UNCHANGED live /\ \A f \in Fiber : (Waits(f)' <=> Waits(f)) /\ regs'[f] = regs[f]
    BY <1>1 DEF vars, FlsAlloc, Waits
  <2> QED
    BY <2>1, SameContexts
<1>2. CASE UserStep
  <2>1. live' = [live EXCEPT ![task] = [who |-> live[task].who, at |-> live[task].at + 1]]
    <3>1. [live[task] EXCEPT !.at = live[task].at + 1]
            = [who |-> live[task].who, at |-> live[task].at + 1]
      <4>1. live[task] \in Context
        BY <1>2, Caller DEF UserStep
      <4> HIDE DEF SingleInv, SingleTypeOK, table
      <4> QED
        BY <4>1 DEF Context
    <3>2. live' = [live EXCEPT ![task] = [live[task] EXCEPT !.at = live[task].at + 1]]
      BY <1>2 DEF UserStep
    <3> QED
      BY <3>1, <3>2, Zenon
  <2>2. ParkedContexts' = ParkedContexts
    BY <1>2 DEF UserStep, ParkedContexts, Waits
  <2>3. Contexts!UserStep(task)
    BY <1>2, <2>1, <2>2 DEF UserStep, Alive, Contexts!UserStep
  <2> QED
    BY <1>2, <2>3, Caller DEF UserStep, Contexts!Next
<1>3. CASE Exit
  <2>1. \A f \in Fiber : (Waits(f)' <=> Waits(f)) /\ (Waits(f) => regs'[f] = regs[f])
    BY <1>3 DEF Exit, Waits, TableInv
  <2>2. ParkedContexts' = ParkedContexts
    BY <2>1 DEF ParkedContexts
  <2>3. Contexts!Exit(task)
    BY <1>3, <2>2 DEF Exit, Alive, Contexts!Exit
  <2> QED
    BY <1>3, <2>3, Caller DEF Exit, Contexts!Next
<1>4. ASSUME NEW f \in Fiber, ConvertThreadToFiber(f) PROVE UNCHANGED Contexts!ctxVars
  <2>1. \A g \in Fiber : (Waits(g)' <=> Waits(g)) /\ (Waits(g) => regs'[g] = regs[g])
    BY <1>4 DEF ConvertThreadToFiber, NewFiber, Waits
  <2> QED
    BY <1>4, <2>1, SameContexts DEF ConvertThreadToFiber
<1>5. ASSUME NEW f \in Fiber, NEW c \in Computation, CreateFiber(f, c)
      PROVE  Contexts!Create(c)
  <2>1. /\ \A g \in Fiber : Waits(g)' <=> g = f \/ Waits(g)
        /\ \A g \in Fiber : Waits(g) => g # f /\ regs'[g] = regs[g] /\ regs[g].who # c
        /\ regs'[f] = [who |-> c, at |-> 0]
    BY <1>5 DEF CreateFiber, NewFiber, Waits
  <2>2. ParkedContexts' = ParkedContexts \cup {[who |-> c, at |-> 0]}
    <3> DEFINE new == [who |-> c, at |-> 0]
    <3>1. \A x : x \in ParkedContexts' <=> \E g \in Fiber : Waits(g)' /\ x = regs'[g]
      BY DEF ParkedContexts
    <3>2. \A x : x \in ParkedContexts <=> \E g \in Fiber : Waits(g) /\ x = regs[g]
      BY DEF ParkedContexts
    <3>3. regs'[f] = new
      BY <2>1
    <3> HIDE DEF new
    <3>4. ASSUME NEW x \in ParkedContexts' PROVE x \in ParkedContexts \/ x = new
      <4>1. PICK g \in Fiber : Waits(g)' /\ x = regs'[g]
        BY <3>1
      <4>2. CASE g = f
        BY <3>3, <4>1, <4>2
      <4>3. CASE g # f
        BY <2>1, <3>2, <4>1, <4>3
      <4> QED
        BY <4>2, <4>3
    <3>5. \A x \in ParkedContexts : x \in ParkedContexts'
      BY <2>1, <3>1, <3>2
    <3>6. new \in ParkedContexts'
      BY <2>1, <3>1, <3>3
    <3>7. ParkedContexts' = ParkedContexts \cup {new}
      BY <3>4, <3>5, <3>6
    <3> QED
      BY <3>7 DEF new
  <2>3. \A x \in ParkedContexts : x.who # c
    BY <2>1 DEF ParkedContexts
  <2> QED
    BY <1>5, <2>2, <2>3 DEF CreateFiber, Contexts!Create
<1>6. ASSUME NEW h \in 0..MaxIndex, SwitchToFiber(h) PROVE Contexts!Next
  <2>1. PICK f \in search_fiber(h) :
          /\ regs' = [regs EXCEPT ![active_fiber] = live[task]]
          /\ live' = [live EXCEPT ![task] = regs[f]]
          /\ running' = [running EXCEPT ![active_fiber] = FALSE, ![f] = TRUE]
          /\ UNCHANGED hashed
    BY <1>6 DEF SwitchToFiber, SavedRegs
  <2>2. /\ f \in Fiber /\ Waits(f) /\ active_fiber \in Fiber /\ ~Waits(active_fiber)
        /\ active_fiber \in hashed /\ active_fiber # f
    BY <1>6, <2>1 DEF SwitchToFiber, search_fiber, Waits, TableInv
  <2>3. task \in Task /\ live[task] # NULL
    BY <1>6, Caller DEF SwitchToFiber, Alive
  <2>4. /\ \A g \in Fiber : Waits(g)' <=> g = active_fiber \/ (Waits(g) /\ g # f)
        /\ \A g \in Fiber : Waits(g) => regs'[g] = regs[g]
        /\ regs'[active_fiber] = live[task]
    BY <2>1, <2>2 DEF Waits
  <2>5. \A g \in Fiber : Waits(g) /\ g # f => regs[g] # regs[f]
    BY <2>2 DEF DistinctInv
  <2>6. \A x : x \in ParkedContexts' <=> \E g \in Fiber : Waits(g)' /\ x = regs'[g]
    BY DEF ParkedContexts
  <2>7. \A x : x \in ParkedContexts <=> \E g \in Fiber : Waits(g) /\ x = regs[g]
    BY DEF ParkedContexts
  <2>8. ParkedContexts' = (ParkedContexts \ {regs[f]}) \cup {live[task]}
    <3>1. ASSUME NEW x \in ParkedContexts'
          PROVE  x = live[task] \/ (x \in ParkedContexts /\ x # regs[f])
      BY <2>2, <2>4, <2>5, <2>6, <2>7
    <3>2. ASSUME NEW x \in ParkedContexts, x # regs[f]
          PROVE  x \in ParkedContexts'
      BY <2>4, <2>6, <2>7, <3>2
    <3>3. live[task] \in ParkedContexts'
      BY <2>2, <2>4, <2>6
    <3> QED
      BY <3>1, <3>2, <3>3
  <2>9. regs[f] \in ParkedContexts /\ Contexts!Switch(task, regs[f])
    BY <2>1, <2>2, <2>3, <2>8 DEF ParkedContexts, Contexts!Switch
  <2> QED
    BY <2>3, <2>9 DEF Contexts!Next
<1>7. ASSUME NEW i \in Slot, FlsFree(i) PROVE UNCHANGED Contexts!ctxVars
  <2>1. UNCHANGED live /\ \A f \in Fiber : (Waits(f)' <=> Waits(f)) /\ regs'[f] = regs[f]
    BY <1>7 DEF FlsFree, Waits
  <2> QED
    BY <2>1, SameContexts
<1>8. ASSUME NEW i \in Slot, NEW d \in Data, FlsSetValue(i, d)
      PROVE  UNCHANGED Contexts!ctxVars
  <2>1. UNCHANGED live /\ \A f \in Fiber : (Waits(f)' <=> Waits(f)) /\ regs'[f] = regs[f]
    BY <1>8 DEF FlsSetValue, Waits
  <2> QED
    BY <2>1, SameContexts
<1> QED
  BY StepCases, <1>1, <1>2, <1>3, <1>4, <1>5, <1>6, <1>7, <1>8 DEF Contexts!Next

\* With one handler for each call and the handles of a used pid, the predecessor switches
\* as FiberContexts promises: SWITCHTOFIBER exchanges the caller's computation with the one
\* that waits in the fiber, and no other call moves one.
THEOREM SingleImplementsContexts == Spec => ImplementsContexts
<1>1. Init => Contexts!Init
  BY DEF Init, Contexts!Init, ParkedContexts, Waits
<1> QED
  BY <1>1, ContextsStep, SingleInvariant, PTL DEF Spec, ImplementsContexts, Contexts!Spec
=============================================================================
