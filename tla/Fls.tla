-------------------------------- MODULE Fls --------------------------------
(***************************************************************************)
(* Fiber local storage: FLSALLOC, FLSFREE, FLSGETVALUE and FLSSETVALUE of  *)
(* multi_thread/Module/fiber_ioctl.c, called through the wrappers of       *)
(* multi_thread/src/function_calls.c, with SWITCHTOFIBER as one step (the  *)
(* atomicity FiberIoctl proves).  All threads are converted.               *)
(*                                                                         *)
(* fls_bitmap is declared with sizeof(MAX_FLS) = 4 bits, so one 64-bit     *)
(* word, and used with MAX_FLS bits.  Bit numbers therefore run through    *)
(* the fields that follow in fiber_arg_t: the bitmap itself (bits below    *)
(* OwnBits), regs (below RegsEnd), f_list (below ListEnd), fpu_reg.  regs  *)
(* and fpu_reg are rewritten when the fiber is switched away from; to the  *)
(* bitmap operations the values they get are arbitrary.                    *)
(***************************************************************************)
EXTENDS Integers, FiniteSets

CONSTANTS Thread, Fiber,
          OwnBits,  \* bits of the word fls_bitmap really has
          RegsEnd,  \* first bit after regs
          ListEnd,  \* first bit after f_list
          MAX_FLS,
          Data,     \* values a program stores, with 0
          MaxOwned  \* bound on the slots a fiber holds at a time

Slot    == 0..(MAX_FLS - 1)
Own     == 0..(OwnBits - 1)
Linked  == RegsEnd..(ListEnd - 1)
Saved   == Slot \ (Own \cup Linked)

ASSUME LayoutAssumption ==
    /\ OwnBits \in Nat /\ RegsEnd \in Nat /\ ListEnd \in Nat /\ MAX_FLS \in Nat
    /\ 0 < OwnBits /\ OwnBits <= RegsEnd /\ RegsEnd <= ListEnd /\ ListEnd <= MAX_FLS
    /\ MaxOwned \in Nat
    /\ 0 \in Data

VARIABLES
    active,     \* thread->active_fiber
    bits,       \* the bits set among the MAX_FLS bits at fiber->fls_bitmap
    fls_array,  \* fiber->fls_array
    linked,     \* f_list of the fiber is as hash_add left it
    owned,      \* slots FlsAlloc gave the fiber, less those FlsFree says it freed
    last        \* what the fiber last stored in a slot it owns, 0 if nothing

vars == <<active, bits, fls_array, linked, owned, last>>

-----------------------------------------------------------------------------
\* Variant: bitmap_zero is left out.
FreshBits_Dirty(b) == b \in SUBSET Slot

\* bitmap_zero clears every bit; regs, f_list and fpu_reg are filled after it.
FreshBits(b) == b \cap Own = {} /\ b \in SUBSET Slot

Init ==
    /\ active \in {a \in [Thread -> Fiber] : \A t, u \in Thread : a[t] = a[u] => t = u}
    /\ \E b \in SUBSET Slot : FreshBits(b) /\ bits = [f \in Fiber |-> b]
    /\ fls_array = [f \in Fiber |-> [i \in Slot |-> 0]]
    /\ linked = [f \in Fiber |-> TRUE]
    /\ owned = [f \in Fiber |-> {}]
    /\ last = [f \in Fiber |-> [i \in Slot |-> 0]]

\* find_first_zero_bit
FirstZeroBit(b, i) == i \in Slot \ b /\ \A j \in Slot : j < i => j \in b

\* Variant: the slot keeps the value of its previous use.
ClearSlot_Dropped(f, i) == UNCHANGED fls_array

\* fiber->fls_array[index] = 0
ClearSlot(f, i) == fls_array' = [fls_array EXCEPT ![f][i] = 0]

\* The index is returned to the caller; a full bitmap gives -1 and no change.
FlsAlloc(t) ==
    LET f == active[t]
    IN  /\ Cardinality(owned[f]) < MaxOwned
        /\ \E i \in Slot :
              /\ FirstZeroBit(bits[f], i)
              /\ bits' = [bits EXCEPT ![f] = @ \cup {i}]
              /\ ClearSlot(f, i)
              /\ linked' = [linked EXCEPT ![f] = @ /\ i \notin Linked]
              /\ owned' = [owned EXCEPT ![f] = @ \cup {i}]
              /\ last' = [last EXCEPT ![f][i] = 0]
        /\ UNCHANGED active

\* Variant: the lower bound is off by one more.
FreeSlot_OffByOne(i) == i > 1

\* index > 0 && index < MAX_FLS: slot 0 is never freed.
FreeSlot(i) == i > 0

\* The module answers with a bool; the library takes -1, and only -1, for failure.
FlsFreeAnswer(i) == IF FreeSlot(i) THEN 1 ELSE 0
FlsFreeResult(ret) == ret # -1

\* Callers free slots they hold, and believe what the library returns.
FlsFree(t, i) ==
    LET f == active[t]
        ok == FlsFreeResult(FlsFreeAnswer(i))
    IN  /\ i \in owned[f]
        /\ bits' = [bits EXCEPT ![f] = IF FreeSlot(i) THEN @ \ {i} ELSE @]
        /\ owned' = [owned EXCEPT ![f] = IF ok THEN @ \ {i} ELSE @]
        /\ last' = [last EXCEPT ![f][i] = IF ok THEN 0 ELSE @]
        /\ UNCHANGED <<active, fls_array, linked>>

\* A slot whose bit is clear is left alone, silently.
FlsSetValue(t, i, d) ==
    LET f == active[t]
    IN  /\ fls_array' = [fls_array EXCEPT ![f][i] = IF i \in bits[f] THEN d ELSE @]
        /\ last' = [last EXCEPT ![f][i] = IF i \in owned[f] THEN d ELSE @]
        /\ UNCHANGED <<active, bits, linked, owned>>

\* The module fills in the data only if the bit is set.
GetAnswer(f, i) ==
    IF i \in bits[f] THEN [ret |-> 1, lpFlsData |-> fls_array[f][i]] ELSE [ret |-> -1]

\* What the library's FlsGetValue returns, NULL being 0.
FlsGetValue(f, i) == IF GetAnswer(f, i).ret = -1 THEN 0 ELSE GetAnswer(f, i).lpFlsData

\* SwitchToFiber: regs and fpu_reg of the fiber left are rewritten.
SwitchToFiber(t, g) ==
    LET f == active[t]
    IN  /\ \A u \in Thread : active[u] # g
        /\ active' = [active EXCEPT ![t] = g]
        /\ \E r \in SUBSET Saved : bits' = [bits EXCEPT ![f] = (@ \ Saved) \cup r]
        /\ UNCHANGED <<fls_array, linked, owned, last>>

Next ==
    \E t \in Thread :
        \/ FlsAlloc(t)
        \/ \E i \in Slot : FlsFree(t, i)
        \/ \E i \in Slot, d \in Data : FlsSetValue(t, i, d)
        \/ \E g \in Fiber : SwitchToFiber(t, g)

Spec == Init /\ [][Next]_vars

-----------------------------------------------------------------------------
\* Slots a fiber allocated stay allocated until it frees them, whatever switches
\* come in between, and what it reads from one is what it last stored there: not
\* the value of an earlier use of the slot, nor that of another fiber.
SlotsReadBack ==
    \A f \in Fiber : \A i \in owned[f] : i \in bits[f] /\ FlsGetValue(f, i) = last[f][i]

\* No slot is lost either: in the word of the bitmap a set bit is a slot the fiber
\* holds, so FlsFree makes room for another FlsAlloc.  Slot 0 is the exception:
\* FLSFREE leaves it set and the library reports that it is free.
NoSlotLeaked == \A f \in Fiber : bits[f] \cap (Own \ {0}) = owned[f] \cap (Own \ {0})

\* The links of the fiber in process->fibers are written by hash_add and hash_del
\* only: no FLS operation changes the bits of f_list.
FiberStaysLinked == \A f \in Fiber : linked[f]
=============================================================================
