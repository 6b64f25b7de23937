-------------------------------- MODULE Ult --------------------------------
(***************************************************************************)
(* The user space fibers of multi_thread/src/ult.c, which the API maps to  *)
(* when USERSPACE is defined: ult_convert, ult_creat, ult_switch_to and    *)
(* fiber local storage, called by several threads.                         *)
(*                                                                         *)
(* Leaving fiber a for fiber b takes the flag of b first; then come the    *)
(* three steps of context_switch: set_jmp saves a, ult_unlock releases a,  *)
(* long_jmp loads b.  Until the last one the thread runs on a's stack.     *)
(* Creating fiber c is such a switch to c, whose first code                *)
(* (context_create_boot) switches back to the creator.                     *)
(*                                                                         *)
(* set_jmp returns for the second time with the rax it was called with;    *)
(* that rax, a matter of the compiler's choice, is taken to be non-zero.   *)
(***************************************************************************)
EXTENDS Integers, FiniteSets

CONSTANTS Thread,
          MaxUlt,   \* bound on the ult_t allocations of a run
          MaxWork,  \* bound on the user steps of one computation
          MAX_FLS,
          MaxAlloc, \* bound on the calls of fls_alloc
          NULL

UltAddr == 1..MaxUlt
Context == [who : Thread \cup UltAddr, at : 0..MaxWork]
Slot    == 0..(MAX_FLS - 1)

ASSUME UltAssumption ==
    /\ MaxUlt \in Nat /\ MaxWork \in Nat
    /\ MAX_FLS \in Nat \ {0} /\ MaxAlloc \in Nat
    /\ NULL \notin Thread \cup Nat \cup Context
    /\ Thread \cap UltAddr = {}

VARIABLES
    ult_id,   \* allocations so far
    running,  \* ult->running
    context,  \* *ult->context
    current,  \* the thread-local current
    from, to, \* the fibers of the switch the thread is in
    pc,       \* "user", "save", "unlock", "jump", or "boot"
    live,     \* the computation in the thread's registers
    stack,    \* the fiber on whose stack the thread executes
    fresh,    \* fibers whose context is still that of context_create_boot
    creating, \* creating[f]: the fiber the code of f is creating, NULL if none
    known,    \* fibers whose handle has been returned to a caller
    fls_idx, fls,
    got,      \* ghost: <<f, i>> when the code of f was given slot i
    stored    \* ghost: those of them it has stored a value in

flsVars == <<fls_idx, fls, got, stored>>
vars == <<ult_id, running, context, current, from, to, pc, live, stack, fresh, creating,
          known, flsVars>>

Init ==
    /\ ult_id = 0
    /\ running = [f \in UltAddr |-> FALSE]
    /\ context = [f \in UltAddr |-> NULL]
    /\ current = [t \in Thread |-> NULL]
    /\ from = [t \in Thread |-> NULL]
    /\ to = [t \in Thread |-> NULL]
    /\ pc = [t \in Thread |-> "user"]
    /\ live = [t \in Thread |-> [who |-> t, at |-> 0]]
    /\ stack = [t \in Thread |-> NULL]
    /\ fresh = {}
    /\ creating = [f \in UltAddr |-> NULL]
    /\ known = {}
    /\ fls_idx = 0 /\ fls = [i \in Slot |-> 0] /\ got = {} /\ stored = {}

UserStep(t) ==
    /\ pc[t] = "user"
    /\ live[t].at < MaxWork
    /\ live' = [live EXCEPT ![t] = [who |-> live[t].who, at |-> live[t].at + 1]]
    /\ UNCHANGED <<ult_id, running, context, current, from, to, pc, stack, fresh, creating,
                   known, flsVars>>

\* The ult_t is private to the thread until ult_convert returns it.  A thread that is
\* converted again goes on as another fiber, on the same stack; the first stays locked.
ult_convert(t) ==
    /\ pc[t] = "user"
    /\ ult_id < MaxUlt
    /\ ult_id' = ult_id + 1
    /\ running' = [running EXCEPT ![ult_id + 1] = TRUE]
    /\ context' = [context EXCEPT ![ult_id + 1] = live[t]]
    /\ current' = [current EXCEPT ![t] = ult_id + 1]
    /\ stack' = [stack EXCEPT ![t] = ult_id + 1]
    /\ known' = known \cup {ult_id + 1}
    /\ UNCHANGED <<from, to, pc, live, fresh, creating, flsVars>>

\* context_switch(a, b) begins: the caller holds the flags of both.
BeginSwitch(t, a, b) ==
    /\ from' = [from EXCEPT ![t] = a]
    /\ to' = [to EXCEPT ![t] = b]
    /\ pc' = [pc EXCEPT ![t] = "save"]

\* Variant: the signal handler does not save the context of the new fiber.
BootContext_Unsaved(f) == UNCHANGED context

\* context_create_trampoline, run by raise() on the stack of the new fiber.
BootContext(f) == context' = [context EXCEPT ![f] = [who |-> f, at |-> 0]]

\* context_create: the trampoline saves the new fiber at context_create_boot;
\* then context_switch_create locks it, which no other thread can have done yet.
ult_creat(t) ==
    /\ pc[t] = "user" /\ current[t] # NULL
    /\ ult_id < MaxUlt
    /\ ult_id' = ult_id + 1
    /\ BootContext(ult_id + 1)
    /\ running' = [running EXCEPT ![ult_id + 1] = TRUE]
    /\ fresh' = fresh \cup {ult_id + 1}
    /\ creating' = [creating EXCEPT ![current[t]] = ult_id + 1]
    /\ BeginSwitch(t, current[t], ult_id + 1)
    /\ UNCHANGED <<current, live, stack, known, flsVars>>

\* Variant: the flag is read and set, but not tested.
ult_trylock_Untested(f) == running' = [running EXCEPT ![f] = TRUE]

\* !__atomic_test_and_set(&ctx->running)
ult_trylock(f) ==
    /\ ~running[f]
    /\ running' = [running EXCEPT ![f] = TRUE]

\* ult_lock spins until the test and set succeeds.
ult_lock(f) == ult_trylock(f)

\* A fiber that is running is not switched to: the call returns.
ult_switch_to(t, f) ==
    /\ pc[t] = "user" /\ current[t] # NULL
    /\ f \in known
    /\ \/ /\ ult_trylock(f)
          /\ current' = [current EXCEPT ![t] = f]
          /\ BeginSwitch(t, current[t], f)
       \/ /\ running[f]
          /\ UNCHANGED <<running, current, from, to, pc>>
    /\ UNCHANGED <<ult_id, context, live, stack, fresh, creating,
                   known, flsVars>>

\* Variant: the registers are not saved.
SaveContext_Dropped(t) ==
    /\ pc[t] = "save"
    /\ pc' = [pc EXCEPT ![t] = "unlock"]
    /\ UNCHANGED <<ult_id, running, context, current, from, to, live, stack, fresh, creating,
                   known, flsVars>>

\* set_jmp
SaveContext(t) ==
    /\ pc[t] = "save"
    /\ context' = [context EXCEPT ![from[t]] = live[t]]
    /\ pc' = [pc EXCEPT ![t] = "unlock"]
    /\ UNCHANGED <<ult_id, running, current, from, to, live, stack, fresh, creating,
                   known, flsVars>>

\* The computation may be resumed by others from here on.
ult_unlock(t) ==
    /\ pc[t] = "unlock"
    /\ running' = [running EXCEPT ![from[t]] = FALSE]
    /\ live' = [live EXCEPT ![t] = NULL]
    /\ pc' = [pc EXCEPT ![t] = "jump"]
    /\ UNCHANGED <<ult_id, context, current, from, to, stack, fresh, creating,
                   known, flsVars>>

\* long_jmp: a fiber that is being created starts in context_create_boot; code
\* that was creating one is returned its handle.
Jump(t) ==
    LET f == to[t]
    IN  /\ pc[t] = "jump"
        /\ live' = [live EXCEPT ![t] = context[f]]
        /\ stack' = [stack EXCEPT ![t] = f]
        /\ pc' = [pc EXCEPT ![t] = IF f \in fresh THEN "boot" ELSE "user"]
        /\ from' = [from EXCEPT ![t] = NULL]
        /\ to' = [to EXCEPT ![t] = NULL]
        /\ known' = known \cup ({creating[f]} \ {NULL})
        /\ creating' = [creating EXCEPT ![f] = NULL]
        /\ fresh' = fresh \ {f}
        /\ UNCHANGED <<ult_id, running, context, current, flsVars>>

\* context_create_boot: the flag of the creator's fiber is taken, and it goes on.
Boot(t) ==
    /\ pc[t] = "boot"
    /\ ult_lock(current[t])
    /\ BeginSwitch(t, stack[t], current[t])
    /\ UNCHANGED <<ult_id, context, current, live, stack, fresh, creating,
                   known, flsVars>>

-----------------------------------------------------------------------------
(* Fiber local storage: one array for all fibers *)

notFls == <<ult_id, running, context, current, from, to, pc, live, stack, fresh, creating,
            known>>

\* Variant: not atomic, so that the increment of another thread may be lost.
FetchAndAdd_Loses == fls_idx' \in {fls_idx, fls_idx + 1}

\* __sync_fetch_and_add(&fls_idx, 1), made by calls that fail, too.
FetchAndAdd == fls_idx' = fls_idx + 1

\* The answer is the old index, or -1 from MAX_FLS on.
fls_alloc(t) ==
    /\ pc[t] = "user" /\ stack[t] # NULL
    /\ fls_idx < MaxAlloc
    /\ FetchAndAdd
    /\ got' = got \cup ({<<stack[t], fls_idx>>} \cap (UltAddr \X Slot))
    /\ UNCHANGED <<notFls, fls, stored>>

\* The value a fiber stores is its own name; other values would do as well.
fls_set(t, i) ==
    /\ pc[t] = "user" /\ <<stack[t], i>> \in got
    /\ fls' = [fls EXCEPT ![i] = stack[t]]
    /\ stored' = stored \cup {<<stack[t], i>>}
    /\ UNCHANGED <<notFls, fls_idx, got>>

fls_get(i) == fls[i]

\* fls_free answers true and frees nothing: the slot is never given again.
fls_free(t, i) ==
    /\ pc[t] = "user" /\ <<stack[t], i>> \in got
    /\ UNCHANGED vars

-----------------------------------------------------------------------------
InSwitch(t) == SaveContext(t) \/ ult_unlock(t) \/ Jump(t) \/ Boot(t)

FromUser(t) ==
    \/ UserStep(t) \/ ult_convert(t) \/ ult_creat(t)
    \/ \E f \in UltAddr : ult_switch_to(t, f)
    \/ fls_alloc(t) \/ \E i \in Slot : fls_set(t, i) \/ fls_free(t, i)

Next == \E t \in Thread : InSwitch(t) \/ FromUser(t)

Spec == Init /\ [][Next]_vars

-----------------------------------------------------------------------------
\* Types, and that only a thread between ult_unlock and long_jmp has no computation.
TypeOK ==
    /\ ult_id \in 0..MaxUlt
    /\ running \in [UltAddr -> BOOLEAN]
    /\ context \in [UltAddr -> Context \cup {NULL}]
    /\ current \in [Thread -> UltAddr \cup {NULL}]
    /\ from \in [Thread -> UltAddr \cup {NULL}]
    /\ to \in [Thread -> UltAddr \cup {NULL}]
    /\ pc \in [Thread -> {"user", "save", "unlock", "jump", "boot"}]
    /\ live \in [Thread -> Context \cup {NULL}]
    /\ stack \in [Thread -> UltAddr \cup {NULL}]
    /\ fresh \in SUBSET UltAddr
    /\ creating \in [UltAddr -> UltAddr \cup {NULL}]
    /\ known \in SUBSET UltAddr
    /\ fls_idx \in 0..MaxAlloc /\ fls \in [Slot -> UltAddr \cup {0}]
    /\ \A t \in Thread : live[t] = NULL <=> pc[t] = "jump"

\* The computation of a thread: between ult_unlock and long_jmp it is already that of the
\* fiber the thread goes to.
Loaded == [t \in Thread |-> IF pc[t] = "jump" THEN context[to[t]] ELSE live[t]]

Leaving(t) == pc[t] \in {"save", "unlock"}

\* A fiber is waiting to be resumed until the thread that goes to it has released its own.
Parked(f) == f \in 1..ult_id /\ (running[f] => \E t \in Thread : Leaving(t) /\ to[t] = f)

ParkedContexts == {context[f] : f \in {g \in UltAddr : Parked(g)}}

\* The API promise of FiberContexts, kept by user space fibers as it is by the
\* kernel module: the exchange is the release of the fiber that is left.
Contexts == INSTANCE FiberContexts WITH
    Computation <- UltAddr, live <- Loaded, parked <- ParkedContexts

ImplementsContexts == Contexts!Spec

\* Two threads are on one stack only while one of them is between ult_unlock and
\* long_jmp: code of the program never runs on a stack another program thread is on.
SharedOnlyWhileLeaving ==
    \A t, u \in Thread : t # u /\ stack[t] # NULL /\ stack[t] = stack[u] =>
        pc[t] = "jump" \/ pc[u] = "jump"

\* A fiber that keeps to the slots it was given reads back what it stored, and 0 from a
\* slot it has not used, whichever threads run it and whatever other fibers get, store
\* and free: the single array behaves as storage of the fiber.
OwnSlotsReadBack ==
    \A f \in UltAddr, i \in Slot :
        <<f, i>> \in got => fls_get(i) = IF <<f, i>> \in stored THEN f ELSE 0
=============================================================================
