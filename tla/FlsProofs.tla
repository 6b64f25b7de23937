----------------------------- MODULE FlsProofs ------------------------------
(***************************************************************************)
(* Proofs about the fiber local storage of Fls, for any number of threads, *)
(* fibers and values and any layout of fiber_arg_t, when a fiber never     *)
(* holds as many slots as the word of the bitmap has bits (MaxOwned less   *)
(* than OwnBits).  A fiber that holds more is given bits of regs, f_list   *)
(* and fpu_reg, and none of the invariants is left.                        *)
(***************************************************************************)
EXTENDS Fls, FiniteSetTheorems, TLAPS

FlsTypeOK ==
    /\ active \in [Thread -> Fiber]
    /\ bits \in [Fiber -> SUBSET Slot]
    /\ fls_array \in [Fiber -> [Slot -> Data]]
    /\ linked \in [Fiber -> BOOLEAN]
    /\ owned \in [Fiber -> SUBSET Own]
    /\ last \in [Fiber -> [Slot -> Data]]

\* All slots a fiber holds are bits of the word, which are set for nothing else but slot 0,
\* and a held slot has the value last stored.
WordInv ==
    \A f \in Fiber :
        /\ linked[f]
        /\ owned[f] \subseteq bits[f]
        /\ \A i \in Own : i \in bits[f] => i = 0 \/ i \in owned[f]
        /\ \A i \in owned[f] : fls_array[f][i] = last[f][i]

FlsInv == FlsTypeOK /\ WordInv

-----------------------------------------------------------------------------
\* The word of the bitmap is a part of it, before the links of the fiber.
LEMMA Layout ==
  /\ Own \subseteq Slot /\ Own \cap Linked = {} /\ Own \cap Saved = {}
  /\ 0 \in Own /\ 0 \in Data /\ Slot \subseteq Nat
  /\ \A i \in Slot, k \in Own : i \notin Own => k < i
BY LayoutAssumption DEF Slot, Own, Linked, Saved

\* find_first_zero_bit stays within the word as long as the caller holds less than all but
\* one of its bits: one more may be set, that of slot 0, which is never freed.
LEMMA ZeroBitInWord ==
  ASSUME MaxOwned < OwnBits,
         NEW o \in SUBSET Own, Cardinality(o) < MaxOwned,
         NEW b \in SUBSET Slot, \A i \in Own : i \in b => i = 0 \/ i \in o,
         NEW i \in Slot, FirstZeroBit(b, i)
  PROVE  i \in Own
<1>1. IsFiniteSet(Own) /\ Cardinality(Own) = OwnBits
  BY FS_Interval, LayoutAssumption DEF Own
<1>2. IsFiniteSet(o) /\ Cardinality(o) \in Nat
  BY <1>1, FS_Subset, FS_CardinalityType
<1>3. IsFiniteSet(o \cup {0}) /\ Cardinality(o \cup {0}) <= Cardinality(o) + 1
  BY <1>2, FS_AddElement
<1>4. ~(Own \subseteq o \cup {0})
  <2>1. SUFFICES ASSUME Own \subseteq o \cup {0} PROVE FALSE
    OBVIOUS
  <2>2. Cardinality(Own) <= Cardinality(o \cup {0})
    BY <1>3, <2>1, FS_Subset
  <2>3. Cardinality(o \cup {0}) \in Nat
    BY <1>3, FS_CardinalityType
  <2> QED
    BY <1>1, <1>2, <1>3, <2>2, <2>3, LayoutAssumption
<1>5. PICK k \in Own : k \notin b
  BY <1>4
<1> QED
  BY <1>5, Layout DEF FirstZeroBit

\* FLSALLOC gives a slot of the word, with the value 0.
LEMMA AllocStep ==
  ASSUME MaxOwned < OwnBits, FlsInv, NEW t \in Thread, FlsAlloc(t)
  PROVE  FlsInv'
<1> DEFINE f == active[t]
<1> USE Layout
<1> USE DEF FlsInv, FlsTypeOK
<1>1. f \in Fiber
  OBVIOUS
<1>2. PICK i \in Slot :
        /\ FirstZeroBit(bits[f], i)
        /\ bits' = [bits EXCEPT ![f] = @ \cup {i}]
        /\ fls_array' = [fls_array EXCEPT ![f][i] = 0]
        /\ linked' = [linked EXCEPT ![f] = @ /\ i \notin Linked]
        /\ owned' = [owned EXCEPT ![f] = @ \cup {i}]
        /\ last' = [last EXCEPT ![f][i] = 0]
        /\ UNCHANGED active
  BY DEF FlsAlloc, ClearSlot
<1>3. i \in Own
  BY <1>1, <1>2, ZeroBitInWord DEF FlsAlloc, WordInv
<1>4. FlsTypeOK'
  BY <1>1, <1>2, <1>3
<1>5. WordInv'
  BY <1>1, <1>2, <1>3 DEF WordInv
<1> QED
  BY <1>4, <1>5

\* FLSFREE takes a slot back, and slot 0 only in what the library answers.
LEMMA FreeStep ==
  ASSUME FlsInv, NEW t \in Thread, NEW i \in Slot, FlsFree(t, i)
  PROVE  FlsInv'
<1> DEFINE f == active[t]
<1> USE Layout
<1> USE DEF FlsInv, FlsTypeOK
<1>1. f \in Fiber /\ i \in owned[f] /\ UNCHANGED <<active, fls_array, linked>>
  BY DEF FlsFree
<1>2. /\ bits' = [bits EXCEPT ![f] = IF i > 0 THEN @ \ {i} ELSE @]
      /\ owned' = [owned EXCEPT ![f] = @ \ {i}]
      /\ last' = [last EXCEPT ![f][i] = 0]
  BY DEF FlsFree, FlsFreeResult, FlsFreeAnswer, FreeSlot
<1>3. FlsTypeOK'
  BY <1>1, <1>2
<1>4. WordInv'
  BY <1>1, <1>2 DEF WordInv
<1> QED
  BY <1>3, <1>4

\* FLSSETVALUE stores where the caller may read.
LEMMA SetValueStep ==
  ASSUME FlsInv, NEW t \in Thread, NEW i \in Slot, NEW d \in Data, FlsSetValue(t, i, d)
  PROVE  FlsInv'
<1> USE Layout
<1> USE DEF FlsInv, FlsTypeOK
<1>1. FlsTypeOK'
  BY DEF FlsSetValue
<1>2. WordInv'
  BY DEF FlsSetValue, WordInv
<1> QED
  BY <1>1, <1>2

\* SWITCHTOFIBER rewrites no bit of the word.
LEMMA SwitchStep ==
  ASSUME FlsInv, NEW t \in Thread, NEW g \in Fiber, SwitchToFiber(t, g)
  PROVE  FlsInv'
<1> USE Layout
<1> USE DEF FlsInv, FlsTypeOK
<1>1. PICK r \in SUBSET Saved : bits' = [bits EXCEPT ![active[t]] = (@ \ Saved) \cup r]
  BY DEF SwitchToFiber
<1>2. Saved \subseteq Slot
  BY DEF Saved
<1>3. FlsTypeOK'
  BY <1>1, <1>2 DEF SwitchToFiber
<1>4. \A f \in Fiber, i \in Own : i \in bits'[f] <=> i \in bits[f]
  BY <1>1
<1>5. WordInv'
  BY <1>4 DEF SwitchToFiber, WordInv
<1> QED
  BY <1>3, <1>5

\* The bitmap word and the array agree with what the callers hold and stored, for every
\* interleaving of the FLS calls and the switches.
THEOREM FlsInvariant ==
  ASSUME MaxOwned < OwnBits
  PROVE  Spec => []FlsInv
<1>1. Init => FlsInv
  BY Layout DEF Init, FreshBits, FlsInv, FlsTypeOK, WordInv
<1>2. FlsInv /\ [Next]_vars => FlsInv'
  <2> SUFFICES ASSUME FlsInv, [Next]_vars PROVE FlsInv'
    OBVIOUS
  <2>1. CASE UNCHANGED vars
    BY <2>1 DEF vars, FlsInv, FlsTypeOK, WordInv
  <2> QED
    BY <2>1, AllocStep, FreeStep, SetValueStep, SwitchStep DEF Next
<1> QED
  BY <1>1, <1>2, PTL DEF Spec

\* FlsGetValue reads back what the fiber last stored in a slot it holds, whatever other
\* fibers store and however often the fiber is switched away from.
THEOREM SlotsAlwaysReadBack ==
  ASSUME MaxOwned < OwnBits
  PROVE  Spec => []SlotsReadBack
<1>1. FlsInv => SlotsReadBack
  BY DEF FlsInv, FlsTypeOK, WordInv, SlotsReadBack, FlsGetValue, GetAnswer
<1> QED
  BY <1>1, FlsInvariant, PTL

\* In the word of the bitmap a bit other than that of slot 0 is set for a slot that is
\* held: FLSFREE makes room for FLSALLOC.
THEOREM SlotsNeverLeak ==
  ASSUME MaxOwned < OwnBits
  PROVE  Spec => []NoSlotLeaked
<1>1. FlsInv => NoSlotLeaked
  BY DEF FlsInv, FlsTypeOK, WordInv, NoSlotLeaked
<1> QED
  BY <1>1, FlsInvariant, PTL

\* The FLS calls leave the links of the fiber in the table of fibers alone.
THEOREM FibersStayLinked ==
  ASSUME MaxOwned < OwnBits
  PROVE  Spec => []FiberStaysLinked
<1>1. FlsInv => FiberStaysLinked
  BY DEF FlsInv, WordInv, FiberStaysLinked
<1> QED
  BY <1>1, FlsInvariant, PTL
=============================================================================
