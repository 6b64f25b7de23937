----------------------------- MODULE UltProofs ------------------------------
(***************************************************************************)
(* Proofs about the user space fibers of Ult, for any number of threads,   *)
(* fibers, user steps and slots.                                           *)
(***************************************************************************)
EXTENDS Ult, TLAPS

Switching(t) == pc[t] \in {"save", "unlock", "jump"}

\* Thread t is the one because of which the flag of fiber f is set.
Holds(t, f) == \/ f = stack[t] /\ pc[t] # "jump"
               \/ f = to[t] /\ Switching(t)

\* A flag is set for at most one thread (for none if its fiber was left by ult_convert), and
\* the flags of the fibers a thread is on or goes to are set.
HeldInv ==
    /\ \A t \in Thread, f \in UltAddr : Holds(t, f) => running[f]
    /\ \A t, u \in Thread, f \in UltAddr : Holds(t, f) /\ Holds(u, f) => t = u

\* Where a thread is agrees with where it came from and goes to.
PlaceInv ==
    /\ known \subseteq 1..ult_id
    /\ \A f \in UltAddr : creating[f] \in 1..ult_id \cup {NULL}
    /\ \A t \in Thread :
         /\ stack[t] \in 1..ult_id \cup {NULL}
         /\ current[t] \in 1..ult_id \cup {NULL}
         /\ pc[t] = "user" => current[t] = stack[t]
         /\ pc[t] # "user" => stack[t] # NULL /\ current[t] # NULL
         /\ Switching(t) => /\ from[t] = stack[t] /\ to[t] \in 1..ult_id
                            /\ to[t] \in fresh \/ to[t] = current[t]
         /\ Leaving(t) => from[t] # to[t]
         /\ pc[t] = "unlock" => context[from[t]] = live[t]

\* Fiber f is where a computation is kept that no thread has in its registers.
Kept(f) == f \in 1..ult_id /\ (running[f] => \E t \in Thread : Switching(t) /\ to[t] = f)

\* A computation is in the registers of one thread or kept in one fiber, and it began with
\* a thread or with a fiber that exists.
DistinctInv ==
    /\ \A f \in 1..ult_id : context[f] \in Context /\ context[f].who \in Thread \cup 1..ult_id
    /\ \A t \in Thread : live[t] # NULL => live[t].who \in Thread \cup 1..ult_id
    /\ \A t, u \in Thread :
         live[t] # NULL /\ live[u] # NULL /\ t # u => live[t].who # live[u].who
    /\ \A t \in Thread, f \in UltAddr : live[t] # NULL /\ Kept(f) => live[t].who # context[f].who
    /\ \A f, g \in UltAddr : Kept(f) /\ Kept(g) /\ f # g => context[f].who # context[g].who

\* A slot is given once, to one fiber, and used by that fiber only.
SlotInv ==
    /\ got \subseteq UltAddr \X Slot /\ stored \subseteq got
    /\ \A f, g \in UltAddr, i \in Slot :
         /\ <<f, i>> \in got => i < fls_idx
         /\ <<f, i>> \in got /\ <<g, i>> \in got => f = g
         /\ <<f, i>> \in stored => fls[i] = f
    /\ \A i \in Slot : (\A f \in UltAddr : <<f, i>> \notin stored) => fls[i] = 0

UltInv == TypeOK /\ HeldInv /\ PlaceInv /\ DistinctInv /\ SlotInv

-----------------------------------------------------------------------------
\* The facts about names that the steps need.
LEMMA Names ==
  /\ NULL \notin UltAddr /\ NULL \notin Context /\ NULL \notin Thread
  /\ Thread \cap UltAddr = {} /\ 0 \notin UltAddr
BY UltAssumption DEF UltAddr

\* A new fiber has an address, and one that no fiber had before.
LEMMA NewFiber ==
  ASSUME ult_id \in 0..MaxUlt, ult_id < MaxUlt
  PROVE  /\ ult_id + 1 \in UltAddr /\ ult_id + 1 \in 0..MaxUlt
         /\ ult_id + 1 \notin 1..ult_id
         /\ 1..(ult_id + 1) = 1..ult_id \cup {ult_id + 1}
BY UltAssumption DEF UltAddr

\* The fibers that exist have addresses.
LEMMA OldFibers ==
  ASSUME ult_id \in 0..MaxUlt
  PROVE  1..ult_id \subseteq UltAddr
BY UltAssumption DEF UltAddr

\* ult_switch_to by t when the flag of f is free.
TakeFlag(t, f) ==
    /\ pc[t] = "user" /\ current[t] # NULL /\ f \in known /\ ~running[f]
    /\ running' = [running EXCEPT ![f] = TRUE]
    /\ current' = [current EXCEPT ![t] = f]
    /\ from' = [from EXCEPT ![t] = current[t]]
    /\ to' = [to EXCEPT ![t] = f]
    /\ pc' = [pc EXCEPT ![t] = "save"]
    /\ UNCHANGED <<ult_id, context, live, stack, fresh, creating, known, flsVars>>

\* A step of the specification is a step of one function by one thread, or changes nothing,
\* as a call of ult_switch_to for a fiber that is running.
LEMMA StepCases ==
  ASSUME [Next]_vars
  PROVE  \/ UNCHANGED vars
         \/ \E t \in Thread :
              \/ SaveContext(t) \/ ult_unlock(t) \/ Jump(t) \/ Boot(t)
              \/ UserStep(t) \/ ult_convert(t) \/ ult_creat(t)
              \/ \E f \in UltAddr : TakeFlag(t, f)
              \/ fls_alloc(t) \/ \E i \in Slot : fls_set(t, i)
<1>1. ASSUME NEW t \in Thread, NEW f \in UltAddr, ult_switch_to(t, f)
      PROVE  UNCHANGED vars \/ TakeFlag(t, f)
  BY <1>1 DEF TakeFlag, ult_switch_to, ult_trylock, BeginSwitch, vars
<1> QED
  BY <1>1 DEF Next, InSwitch, FromUser, fls_free

\* What a thread that is not between ult_unlock and long_jmp has in its registers.
LEMMA LiveContext ==
  ASSUME TypeOK, NEW t \in Thread, pc[t] # "jump"
  PROVE  live[t] \in Context /\ live[t].who \in Thread \cup UltAddr /\ live[t].at \in 0..MaxWork
BY DEF TypeOK, Context

\* Every step keeps each variable within its type.
LEMMA TypeStep ==
  ASSUME UltInv, [Next]_vars
  PROVE  TypeOK'
<1> USE Names, OldFibers
<1> USE DEF TypeOK, UltInv
<1>1. CASE UNCHANGED vars
  BY <1>1 DEF vars, flsVars
<1>2. ASSUME NEW t \in Thread, SaveContext(t) PROVE TypeOK'
  <2>1. from[t] \in UltAddr
    BY <1>2 DEF SaveContext, PlaceInv, Switching
  <2> QED
    BY <1>2, <2>1, LiveContext DEF SaveContext, flsVars
<1>3. ASSUME NEW t \in Thread, ult_unlock(t) PROVE TypeOK'
  BY <1>3 DEF ult_unlock, flsVars
<1>4. ASSUME NEW t \in Thread, Jump(t) PROVE TypeOK'
  <2>1. to[t] \in 1..ult_id /\ to[t] \in UltAddr
    BY <1>4 DEF Jump, PlaceInv, Switching
  <2>2. context[to[t]] \in Context
    BY <2>1 DEF DistinctInv
  <2> QED
    BY <1>4, <2>1, <2>2 DEF Jump, flsVars
<1>5. ASSUME NEW t \in Thread, Boot(t) PROVE TypeOK'
  BY <1>5 DEF Boot, BeginSwitch, ult_lock, ult_trylock, flsVars
<1>6. ASSUME NEW t \in Thread, UserStep(t) PROVE TypeOK'
  <2>1. [who |-> live[t].who, at |-> live[t].at + 1] \in Context
    BY <1>6, LiveContext, UltAssumption DEF UserStep, Context
  <2> QED
    BY <1>6, <2>1 DEF UserStep, flsVars
<1>7. ASSUME NEW t \in Thread, ult_convert(t) PROVE TypeOK'
  BY <1>7, NewFiber, LiveContext DEF ult_convert, flsVars
<1>8. ASSUME NEW t \in Thread, ult_creat(t) PROVE TypeOK'
  <2>1. [who |-> ult_id + 1, at |-> 0] \in Context
    BY <1>8, NewFiber, UltAssumption DEF ult_creat, Context
  <2> QED
    BY <1>8, <2>1, NewFiber DEF ult_creat, BeginSwitch, BootContext, flsVars
<1>9. ASSUME NEW t \in Thread, NEW f \in UltAddr, TakeFlag(t, f) PROVE TypeOK'
  BY <1>9 DEF TakeFlag, flsVars
<1>10. ASSUME NEW t \in Thread, fls_alloc(t) PROVE TypeOK'
  <2>1. fls_idx' \in 0..MaxAlloc
    BY <1>10, UltAssumption DEF fls_alloc, FetchAndAdd
  <2> QED
    BY <1>10, <2>1 DEF fls_alloc, notFls
<1>11. ASSUME NEW t \in Thread, NEW i \in Slot, fls_set(t, i) PROVE TypeOK'
  <2>1. stack[t] \in UltAddr
    BY <1>11 DEF fls_set, SlotInv
  <2> QED
    BY <1>11, <2>1 DEF fls_set, notFls
<1> QED
  BY <1>1, <1>2, <1>3, <1>4, <1>5, <1>6, <1>7, <1>8, <1>9, <1>10, <1>11, StepCases

\* A step takes a flag that nobody holds and releases the one it holds.
LEMMA HeldStep ==
  ASSUME UltInv, [Next]_vars
  PROVE  HeldInv'
<1> USE Names, OldFibers
<1> USE DEF UltInv, TypeOK, HeldInv, PlaceInv, Holds, Switching, Leaving
<1>1. CASE UNCHANGED vars
  BY <1>1 DEF vars, flsVars
<1>2. ASSUME NEW t \in Thread, SaveContext(t) PROVE HeldInv'
  BY <1>2 DEF SaveContext, flsVars
<1>3. ASSUME NEW t \in Thread, ult_unlock(t) PROVE HeldInv'
  BY <1>3 DEF ult_unlock, flsVars
<1>4. ASSUME NEW t \in Thread, Jump(t) PROVE HeldInv'
  BY <1>4 DEF Jump, flsVars
<1>5. ASSUME NEW t \in Thread, Boot(t) PROVE HeldInv'
  BY <1>5 DEF Boot, BeginSwitch, ult_lock, ult_trylock, flsVars
<1>6. ASSUME NEW t \in Thread, UserStep(t) PROVE HeldInv'
  BY <1>6 DEF UserStep, flsVars
<1>7. ASSUME NEW t \in Thread, ult_convert(t) PROVE HeldInv'
  BY <1>7, NewFiber DEF ult_convert, flsVars
<1>8. ASSUME NEW t \in Thread, ult_creat(t) PROVE HeldInv'
  BY <1>8, NewFiber DEF ult_creat, BeginSwitch, BootContext, flsVars
<1>9. ASSUME NEW t \in Thread, NEW f \in UltAddr, TakeFlag(t, f) PROVE HeldInv'
  BY <1>9 DEF TakeFlag, flsVars
<1>10. ASSUME NEW t \in Thread, fls_alloc(t) PROVE HeldInv'
  BY <1>10 DEF fls_alloc, notFls
<1>11. ASSUME NEW t \in Thread, NEW i \in Slot, fls_set(t, i) PROVE HeldInv'
  BY <1>11 DEF fls_set, notFls
<1> QED
  BY <1>1, <1>2, <1>3, <1>4, <1>5, <1>6, <1>7, <1>8, <1>9, <1>10, <1>11, StepCases

\* A thread goes where the fiber it left, or the one it creates, says.
LEMMA PlaceStep ==
  ASSUME UltInv, [Next]_vars
  PROVE  PlaceInv'
<1> USE Names, OldFibers
<1> USE DEF UltInv, TypeOK, HeldInv, PlaceInv, Holds, Switching, Leaving
<1>1. CASE UNCHANGED vars
  BY <1>1 DEF vars, flsVars
<1>2. ASSUME NEW t \in Thread, SaveContext(t) PROVE PlaceInv'
  BY <1>2 DEF SaveContext, flsVars
<1>3. ASSUME NEW t \in Thread, ult_unlock(t) PROVE PlaceInv'
  BY <1>3 DEF ult_unlock, flsVars
<1>4. ASSUME NEW t \in Thread, Jump(t) PROVE PlaceInv'
  <2>1. to[t] \in UltAddr /\ pc[t] = "jump" /\ ult_id' = ult_id
    BY <1>4 DEF Jump
  <2>2. known' \subseteq 1..ult_id' /\ \A f \in UltAddr : creating'[f] \in 1..ult_id' \cup {NULL}
    <3>1. creating[to[t]] \in 1..ult_id \cup {NULL}
      BY <2>1
    <3>2. known' = known \cup ({creating[to[t]]} \ {NULL})
      BY <1>4 DEF Jump
    <3>3. \A f \in UltAddr : creating'[f] = NULL \/ creating'[f] = creating[f]
      BY <1>4, <2>1 DEF Jump
    <3>4. ASSUME NEW f \in known' PROVE f \in 1..ult_id
      <4>1. f \in known \/ (f = creating[to[t]] /\ f # NULL)
        BY <3>2, <3>4
      <4>2. f \in known => f \in 1..ult_id
        OBVIOUS
      <4>3. f = creating[to[t]] /\ f # NULL => f \in 1..ult_id
        BY <3>1
      <4> QED
        BY <4>1, <4>2, <4>3
    <3>5. \A f \in UltAddr : creating'[f] \in 1..ult_id' \cup {NULL}
      BY <2>1, <3>3
    <3> QED
      BY <2>1, <3>4, <3>5
  <2>3. ASSUME NEW u \in Thread, u # t, Switching(u) PROVE to[u] # to[t]
    BY <2>1, <2>3
  <2>4. \A u \in Thread : u # t => /\ pc'[u] = pc[u] /\ from'[u] = from[u] /\ to'[u] = to[u]
                                   /\ stack'[u] = stack[u] /\ live'[u] = live[u]
    BY <1>4 DEF Jump
  <2>5. /\ stack'[t] = to[t]
        /\ pc'[t] = IF to[t] \in fresh THEN "boot" ELSE "user"
        /\ fresh' = fresh \ {to[t]} /\ current' = current /\ context' = context
    BY <1>4 DEF Jump
  <2> QED
    BY <2>1, <2>2, <2>3, <2>4, <2>5
<1>5. ASSUME NEW t \in Thread, Boot(t) PROVE PlaceInv'
  BY <1>5 DEF Boot, BeginSwitch, ult_lock, ult_trylock, flsVars
<1>6. ASSUME NEW t \in Thread, UserStep(t) PROVE PlaceInv'
  BY <1>6 DEF UserStep, flsVars
<1>7. ASSUME NEW t \in Thread, ult_convert(t) PROVE PlaceInv'
  BY <1>7, NewFiber DEF ult_convert, flsVars
<1>8. ASSUME NEW t \in Thread, ult_creat(t) PROVE PlaceInv'
  BY <1>8, NewFiber DEF ult_creat, BeginSwitch, BootContext, flsVars
<1>9. ASSUME NEW t \in Thread, NEW f \in UltAddr, TakeFlag(t, f) PROVE PlaceInv'
  BY <1>9 DEF TakeFlag, flsVars
<1>10. ASSUME NEW t \in Thread, fls_alloc(t) PROVE PlaceInv'
  BY <1>10 DEF fls_alloc, notFls
<1>11. ASSUME NEW t \in Thread, NEW i \in Slot, fls_set(t, i) PROVE PlaceInv'
  BY <1>11 DEF fls_set, notFls
<1> QED
  BY <1>1, <1>2, <1>3, <1>4, <1>5, <1>6, <1>7, <1>8, <1>9, <1>10, <1>11, StepCases

\* A step that leaves the computations in the registers and in the fibers alone, and keeps
\* none that was not kept, keeps them apart.
LEMMA DistinctFrame ==
  ASSUME UltInv, UNCHANGED <<ult_id, context>>,
         \A t \in Thread : \/ live'[t] = live[t]
                           \/ live[t] # NULL /\ live'[t] # NULL /\ live'[t].who = live[t].who,
         \A f \in UltAddr : Kept(f)' => Kept(f)
  PROVE  DistinctInv'
BY OldFibers DEF UltInv, DistinctInv

\* A fiber is kept that is not running, or to which a thread goes.
LEMMA KeptFrame ==
  ASSUME UNCHANGED <<ult_id, running, pc, to>>, NEW f \in UltAddr, Kept(f)'
  PROVE  Kept(f)
BY DEF Kept, Switching

\* Computations stay apart.
LEMMA DistinctStep ==
  ASSUME UltInv, [Next]_vars
  PROVE  DistinctInv'
<1> USE Names, OldFibers
<1> USE DEF UltInv, TypeOK
<1>1. CASE UNCHANGED vars
  BY <1>1, DistinctFrame, KeptFrame DEF vars
<1>2. ASSUME NEW t \in Thread, SaveContext(t) PROVE DistinctInv'
  <2>1. from[t] \in UltAddr /\ from[t] \in 1..ult_id /\ ~Kept(from[t]) /\ live[t] \in Context
    BY <1>2 DEF SaveContext, PlaceInv, HeldInv, Holds, Switching, Leaving, Kept
  <2>2. \A f \in UltAddr : Kept(f)' => Kept(f)
    BY <1>2, <2>1 DEF SaveContext, Kept, Switching
  <2>3. /\ context'[from[t]] = live[t] /\ \A f \in UltAddr : f # from[t] => context'[f] = context[f]
        /\ live' = live /\ ult_id' = ult_id
    BY <1>2, <2>1 DEF SaveContext
  <2> QED
    BY <2>1, <2>2, <2>3 DEF DistinctInv
<1>3. ASSUME NEW t \in Thread, ult_unlock(t) PROVE DistinctInv'
  <2>1. from[t] \in UltAddr /\ live[t] # NULL /\ context[from[t]] = live[t]
    BY <1>3 DEF ult_unlock, PlaceInv, Switching
  <2>2. \A f \in UltAddr : f # from[t] /\ Kept(f)' => Kept(f)
    BY <1>3, <2>1 DEF ult_unlock, Kept, Switching
  <2>3. /\ live'[t] = NULL /\ \A u \in Thread : u # t => live'[u] = live[u]
        /\ context' = context /\ ult_id' = ult_id
    BY <1>3 DEF ult_unlock
  <2> QED
    BY <2>1, <2>2, <2>3 DEF DistinctInv
<1>4. ASSUME NEW t \in Thread, Jump(t) PROVE DistinctInv'
  <2>1. to[t] \in UltAddr /\ to[t] \in 1..ult_id /\ Kept(to[t]) /\ pc[t] = "jump"
    BY <1>4 DEF Jump, PlaceInv, Switching, Kept
  <2>2. running[to[t]] /\ \A u \in Thread : u # t /\ Switching(u) => to[u] # to[t]
    BY <2>1 DEF HeldInv, Holds, Switching
  <2>3. \A f \in UltAddr : Kept(f)' => Kept(f) /\ f # to[t]
    BY <1>4, <2>1, <2>2 DEF Jump, Kept, Switching
  <2>4. /\ live'[t] = context[to[t]] /\ \A u \in Thread : u # t => live'[u] = live[u]
        /\ context' = context /\ ult_id' = ult_id
    BY <1>4 DEF Jump
  <2>5. context[to[t]] \in Context /\ context[to[t]].who \in Thread \cup 1..ult_id
    BY <2>1 DEF DistinctInv
  <2>6. /\ \A u \in Thread : live[u] # NULL => live[u].who # context[to[t]].who
        /\ \A f \in UltAddr : Kept(f)' => context[to[t]].who # context[f].who
    BY <2>1, <2>3 DEF DistinctInv
  <2>7. /\ \A u, v \in Thread :
             live'[u] # NULL /\ live'[v] # NULL /\ u # v => live'[u].who # live'[v].who
        /\ \A u \in Thread, f \in UltAddr :
             live'[u] # NULL /\ Kept(f)' => live'[u].who # context'[f].who
    BY <2>3, <2>4, <2>6 DEF DistinctInv
  <2> QED
    BY <2>3, <2>4, <2>5, <2>7 DEF DistinctInv
<1>5. ASSUME NEW t \in Thread, Boot(t) PROVE DistinctInv'
  <2>1. \A f \in UltAddr : Kept(f)' => Kept(f)
    BY <1>5 DEF Boot, BeginSwitch, ult_lock, ult_trylock, Kept, Switching
  <2> QED
    BY <1>5, <2>1, DistinctFrame DEF Boot
<1>6. ASSUME NEW t \in Thread, UserStep(t) PROVE DistinctInv'
  <2>1. \A u \in Thread : \/ live'[u] = live[u]
                          \/ live[u] # NULL /\ live'[u] # NULL /\ live'[u].who = live[u].who
    <3>1. TypeOK'
      BY TypeStep
    <3> QED
      BY <1>6, <3>1 DEF UserStep
  <2> QED
    BY <1>6, <2>1, DistinctFrame, KeptFrame DEF UserStep
<1>7. ASSUME NEW t \in Thread, ult_convert(t) PROVE DistinctInv'
  <2> DEFINE new == ult_id + 1
  <2>1. new \in UltAddr /\ new \notin 1..ult_id /\ 1..ult_id' = 1..ult_id \cup {new}
    BY <1>7, NewFiber DEF ult_convert
  <2>2. \A f \in UltAddr : Kept(f)' => Kept(f) /\ f # new
    BY <1>7, <2>1 DEF ult_convert, Kept, Switching, PlaceInv
  <2>3. /\ context'[new] = live[t] /\ \A f \in UltAddr : f # new => context'[f] = context[f]
        /\ live' = live /\ live[t] \in Context
    BY <1>7, <2>1 DEF ult_convert
  <2>4. \A f \in UltAddr : Kept(f)' => Kept(f) /\ context'[f] = context[f]
    BY <2>2, <2>3
  <2>5. DistinctInv /\ 1..ult_id \subseteq UltAddr
    OBVIOUS
  <2> HIDE DEF UltInv, TypeOK, new
  <2>6. \A f \in 1..ult_id' : context'[f] \in Context /\ context'[f].who \in Thread \cup 1..ult_id'
    <3>1. live[t].who \in Thread \cup 1..ult_id
      BY <2>3, <2>5, Names DEF DistinctInv
    <3>2. \A f \in 1..ult_id : f # new /\ f \in UltAddr
      BY <2>1, <2>5
    <3> QED
      BY <2>1, <2>3, <2>5, <3>1, <3>2 DEF DistinctInv
  <2>7. \A u \in Thread : live'[u] # NULL => live'[u].who \in Thread \cup 1..ult_id'
    BY <2>1, <2>3, <2>5 DEF DistinctInv
  <2>8. \A f, g \in UltAddr : Kept(f)' /\ Kept(g)' /\ f # g => context'[f].who # context'[g].who
    BY <2>4, <2>5 DEF DistinctInv
  <2>9. \A u \in Thread, f \in UltAddr :
          live'[u] # NULL /\ Kept(f)' => live'[u].who # context'[f].who
    BY <2>3, <2>4, <2>5 DEF DistinctInv
  <2> QED
    BY <2>3, <2>5, <2>6, <2>7, <2>8, <2>9 DEF DistinctInv
<1>8. ASSUME NEW t \in Thread, ult_creat(t) PROVE DistinctInv'
  <2> DEFINE new == ult_id + 1
  <2>1. new \in UltAddr /\ new \notin 1..ult_id /\ 1..ult_id' = 1..ult_id \cup {new}
    BY <1>8, NewFiber DEF ult_creat
  <2>2. \A f \in UltAddr : Kept(f)' => Kept(f) \/ f = new
    BY <1>8, <2>1 DEF ult_creat, BeginSwitch, Kept, Switching
  <2>3. /\ context'[new] = [who |-> new, at |-> 0] /\ [who |-> new, at |-> 0] \in Context
        /\ \A f \in UltAddr : f # new => context'[f] = context[f]
        /\ live' = live
    BY <1>8, <2>1, UltAssumption DEF ult_creat, BootContext, Context
  <2>4. /\ \A u \in Thread : live[u] # NULL => live[u].who # new
        /\ \A f \in UltAddr : Kept(f) => context[f].who # new
    BY <2>1 DEF DistinctInv, Kept
  <2>5. DistinctInv /\ 1..ult_id \subseteq UltAddr
    OBVIOUS
  <2>6. context'[new].who = new
    BY <2>3
  <2> HIDE DEF UltInv, TypeOK, new
  <2>7. \A f \in 1..ult_id' : context'[f] \in Context /\ context'[f].who \in Thread \cup 1..ult_id'
    BY <2>1, <2>3, <2>5, <2>6 DEF DistinctInv
  <2>8. /\ \A u \in Thread : live'[u] # NULL => live'[u].who \in Thread \cup 1..ult_id'
        /\ \A u, v \in Thread :
             live'[u] # NULL /\ live'[v] # NULL /\ u # v => live'[u].who # live'[v].who
    BY <2>1, <2>3, <2>5 DEF DistinctInv
  <2>9. \A u \in Thread, f \in UltAddr :
          live'[u] # NULL /\ Kept(f)' => live'[u].who # context'[f].who
    BY <2>2, <2>3, <2>4, <2>5, <2>6 DEF DistinctInv
  <2>10. ASSUME NEW f \in UltAddr, NEW g \in UltAddr, Kept(f)', Kept(g)', f # g
         PROVE  context'[f].who # context'[g].who
    <3>1. CASE f = new
      BY <2>2, <2>3, <2>4, <2>6, <2>10, <3>1
    <3>2. CASE g = new
      BY <2>2, <2>3, <2>4, <2>6, <2>10, <3>2
    <3>3. CASE f # new /\ g # new
      BY <2>2, <2>3, <2>5, <2>10, <3>3 DEF DistinctInv
    <3> QED
      BY <3>1, <3>2, <3>3
  <2> QED
    BY <2>7, <2>8, <2>9, <2>10 DEF DistinctInv
<1>9. ASSUME NEW t \in Thread, NEW f \in UltAddr, TakeFlag(t, f) PROVE DistinctInv'
  <2>1. \A g \in UltAddr : Kept(g)' => Kept(g)
    BY <1>9 DEF TakeFlag, Kept, Switching
  <2> QED
    BY <1>9, <2>1, DistinctFrame DEF TakeFlag
<1>10. ASSUME NEW t \in Thread, fls_alloc(t) PROVE DistinctInv'
  BY <1>10, DistinctFrame, KeptFrame DEF fls_alloc, notFls
<1>11. ASSUME NEW t \in Thread, NEW i \in Slot, fls_set(t, i) PROVE DistinctInv'
  BY <1>11, DistinctFrame, KeptFrame DEF fls_set, notFls
<1> QED
  BY <1>1, <1>2, <1>3, <1>4, <1>5, <1>6, <1>7, <1>8, <1>9, <1>10, <1>11, StepCases

\* The increment gives every slot away once, whatever the order of the calls.
LEMMA SlotStep ==
  ASSUME UltInv, [Next]_vars
  PROVE  SlotInv'
<1> USE Names, OldFibers
<1> USE DEF UltInv, TypeOK, SlotInv
<1>1. CASE UNCHANGED flsVars
  BY <1>1 DEF flsVars
<1>2. ASSUME NEW t \in Thread, fls_alloc(t) PROVE SlotInv'
  <2>1. /\ fls_idx \in Nat /\ fls_idx' = fls_idx + 1 /\ UNCHANGED <<fls, stored>>
        /\ got' = got \cup ({<<stack[t], fls_idx>>} \cap (UltAddr \X Slot))
    BY <1>2, UltAssumption DEF fls_alloc, FetchAndAdd
  <2>2. ASSUME NEW f \in UltAddr, NEW i \in Slot
        PROVE  <<f, i>> \in got' <=> <<f, i>> \in got \/ (f = stack[t] /\ i = fls_idx)
    BY <2>1, <2>2
  <2>3. Slot \subseteq Nat
    BY UltAssumption DEF Slot
  <2> QED
    BY <2>1, <2>2, <2>3
<1>3. ASSUME NEW t \in Thread, NEW i \in Slot, fls_set(t, i) PROVE SlotInv'
  <2>1. /\ <<stack[t], i>> \in got /\ stack[t] \in UltAddr
        /\ fls' = [fls EXCEPT ![i] = stack[t]] /\ UNCHANGED <<fls_idx, got>>
        /\ stored' = stored \cup {<<stack[t], i>>}
    BY <1>3 DEF fls_set
  <2>2. ASSUME NEW f \in UltAddr, NEW j \in Slot
        PROVE  <<f, j>> \in stored' <=> <<f, j>> \in stored \/ (f = stack[t] /\ j = i)
    BY <2>1, <2>2
  <2>3. fls \in [Slot -> UltAddr \cup {0}]
    OBVIOUS
  <2>4. SlotInv
    <3> HIDE DEF SlotInv, TypeOK
    <3> QED
      BY DEF UltInv
  <2>5. stored' \subseteq got' /\ got' \subseteq UltAddr \X Slot
    <3> HIDE DEF UltInv, TypeOK, SlotInv
    <3>1. stored \subseteq got /\ got \subseteq UltAddr \X Slot
      BY <2>4 DEF SlotInv
    <3> QED
      BY <2>1, <3>1
  <2>6. fls'[i] = stack[t] /\ \A j \in Slot : j # i => fls'[j] = fls[j]
    BY <2>3, <2>1
  <2> HIDE DEF UltInv, TypeOK
  <2>7. ASSUME NEW f \in UltAddr, NEW j \in Slot, <<f, j>> \in stored' PROVE fls'[j] = f
    <3>1. CASE j = i
      BY <2>1, <2>2, <2>4, <2>6, <2>7, <3>1
    <3>2. CASE j # i
      BY <2>2, <2>4, <2>6, <2>7, <3>2
    <3> QED
      BY <3>1, <3>2
  <2>8. ASSUME NEW j \in Slot, \A f \in UltAddr : <<f, j>> \notin stored' PROVE fls'[j] = 0
    <3>1. j # i /\ \A f \in UltAddr : <<f, j>> \notin stored
      BY <2>1, <2>2, <2>8
    <3> QED
      BY <2>4, <2>6, <3>1
  <2> QED
    BY <2>1, <2>5, <2>4, <2>7, <2>8
<1> QED
  <2>1. ASSUME NEW t \in Thread,
               \/ SaveContext(t) \/ ult_unlock(t) \/ Jump(t) \/ Boot(t)
               \/ UserStep(t) \/ ult_convert(t) \/ ult_creat(t)
               \/ \E f \in UltAddr : TakeFlag(t, f)
        PROVE  UNCHANGED flsVars
    BY <2>1 DEF SaveContext, ult_unlock, Jump, Boot, UserStep, ult_convert, ult_creat, TakeFlag
  <2> QED
    BY <1>1, <1>2, <1>3, <2>1, StepCases DEF vars

\* The threads begin outside of all fibers, with nothing allocated.
LEMMA InitInv == Init => UltInv
<1> SUFFICES ASSUME Init PROVE UltInv
  OBVIOUS
<1> USE Names, UltAssumption
<1>1. \A t \in Thread : [who |-> t, at |-> 0] \in Context
  BY DEF Context
<1>2. TypeOK
  BY <1>1 DEF Init, TypeOK
<1>3. HeldInv /\ PlaceInv
  BY DEF Init, HeldInv, PlaceInv, Holds, Switching, Leaving
<1>4. DistinctInv
  BY DEF Init, DistinctInv, Kept
<1>5. SlotInv
  BY DEF Init, SlotInv
<1> QED
  BY <1>2, <1>3, <1>4, <1>5 DEF UltInv

\* The inductive invariant holds for any number of threads, fibers and slots.
THEOREM UltInvariant == Spec => []UltInv
<1>1. UltInv /\ [Next]_vars => UltInv'
  BY TypeStep, HeldStep, PlaceStep, DistinctStep, SlotStep DEF UltInv
<1> QED
  BY <1>1, InitInv, PTL DEF Spec

\* Every variable of ult.c keeps its type, and only a thread between ult_unlock and
\* long_jmp of context_switch has no computation of its own.
THEOREM UltTypeCorrect == Spec => []TypeOK
<1>1. UltInv => TypeOK
  BY DEF UltInv
<1> QED
  BY <1>1, UltInvariant, PTL

\* Code of the program never runs on the stack of a fiber that another thread executes:
\* what is shared is shared by the last instructions of context_switch.
THEOREM StacksNeverShared == Spec => []SharedOnlyWhileLeaving
<1>1. UltInv => SharedOnlyWhileLeaving
  BY DEF UltInv, TypeOK, HeldInv, Holds, SharedOnlyWhileLeaving
<1> QED
  BY <1>1, UltInvariant, PTL

\* The one fls array of ult.c behaves as storage of the fiber towards every fiber that
\* keeps to the slots fls_alloc gave it.
THEOREM SlotsNeverShared == Spec => []OwnSlotsReadBack
<1>1. UltInv => OwnSlotsReadBack
  <2> SUFFICES ASSUME UltInv, NEW f \in UltAddr, NEW i \in Slot, <<f, i>> \in got
               PROVE  fls[i] = IF <<f, i>> \in stored THEN f ELSE 0
    BY DEF OwnSlotsReadBack, fls_get
  <2>1. \A g \in UltAddr : <<g, i>> \in stored => g = f
    BY DEF UltInv, SlotInv
  <2> QED
    BY <2>1 DEF UltInv, SlotInv
<1> QED
  BY <1>1, UltInvariant, PTL

-----------------------------------------------------------------------------
(* User space fibers implement FiberContexts. *)

\* A step that leaves the loaded computations and the parked ones alone is a stutter.
LEMMA ContextsFrame ==
  ASSUME \A t \in Thread : Loaded'[t] = Loaded[t],
         \A f \in UltAddr : Parked(f)' <=> Parked(f),
         \A f \in UltAddr : Parked(f) => context'[f] = context[f]
  PROVE  UNCHANGED Contexts!ctxVars
<1>1. Loaded' = Loaded
  BY DEF Loaded
<1>2. ParkedContexts' = ParkedContexts
  BY DEF ParkedContexts
<1> QED
  BY <1>1, <1>2 DEF Contexts!ctxVars

\* Every step of ult.c is a step of the API, or one that its user cannot see.
LEMMA ContextsStep ==
  ASSUME UltInv, UltInv', [Next]_vars
  PROVE  [Contexts!Next]_(Contexts!ctxVars)
<1> USE Names, OldFibers
<1> USE DEF UltInv, TypeOK
<1>1. ASSUME UNCHANGED notFls PROVE UNCHANGED Contexts!ctxVars
  BY <1>1, ContextsFrame DEF notFls, Loaded, Parked, Leaving
<1>2. ASSUME NEW t \in Thread, SaveContext(t) PROVE UNCHANGED Contexts!ctxVars
  <2>1. from[t] \in UltAddr /\ pc[t] = "save" /\ ~Parked(from[t])
    BY <1>2 DEF SaveContext, PlaceInv, HeldInv, Holds, Switching, Leaving, Parked
  <2>2. \A u \in Thread : pc[u] = "jump" => to[u] # from[t]
    BY <2>1 DEF PlaceInv, HeldInv, Holds, Switching, Leaving
  <2>3. \A f \in UltAddr : Parked(f)' <=> Parked(f)
    BY <1>2 DEF SaveContext, Parked, Leaving
  <2>4. \A f \in UltAddr : Parked(f) => context'[f] = context[f]
    BY <1>2, <2>1 DEF SaveContext
  <2>5. \A u \in Thread : Loaded'[u] = Loaded[u]
    BY <1>2, <2>1, <2>2 DEF SaveContext, Loaded, PlaceInv, Switching
  <2> QED
    BY <2>3, <2>4, <2>5, ContextsFrame
<1>3. ASSUME NEW t \in Thread, ult_unlock(t) PROVE Contexts!Next
  <2> DEFINE a == from[t]
             b == to[t]
  <2>1. /\ pc[t] = "unlock" /\ a \in UltAddr /\ a \in 1..ult_id /\ b \in UltAddr /\ b \in 1..ult_id
        /\ a # b /\ context[a] = live[t] /\ running[a] /\ running[b]
    BY <1>3 DEF ult_unlock, PlaceInv, HeldInv, Holds, Switching, Leaving
  <2>2. \A u \in Thread : Leaving(u) => to[u] # a /\ (u # t => to[u] # b)
    BY <2>1 DEF PlaceInv, HeldInv, Holds, Switching, Leaving
  <2>3. /\ Parked(b) /\ ~Parked(a) /\ Parked(a)' /\ ~Parked(b)'
        /\ \A f \in UltAddr \ {a, b} : Parked(f)' <=> Parked(f)
    BY <1>3, <2>1, <2>2 DEF ult_unlock, Parked, Leaving
  <2>4. \A f \in UltAddr \ {b} : Parked(f) => context[f] # context[b]
    BY <2>1, <2>3 DEF Parked, Leaving, Kept, Switching, DistinctInv
  <2>5. context' = context /\ ParkedContexts' = (ParkedContexts \ {context[b]}) \cup {live[t]}
    BY <1>3, <2>1, <2>3, <2>4 DEF ult_unlock, ParkedContexts
  <2>6. Loaded' = [Loaded EXCEPT ![t] = context[b]] /\ Loaded[t] = live[t]
    BY <1>3, <2>1 DEF ult_unlock, Loaded
  <2>7. context[b] \in ParkedContexts /\ live[t] # NULL
    BY <2>1, <2>3 DEF ParkedContexts
  <2>8. Contexts!Switch(t, context[b])
    BY <2>5, <2>6, <2>7 DEF Contexts!Switch
  <2> QED
    BY <2>7, <2>8 DEF Contexts!Next
<1>4. ASSUME NEW t \in Thread, Jump(t) PROVE UNCHANGED Contexts!ctxVars
  <2>1. \A f \in UltAddr : Parked(f)' <=> Parked(f)
    BY <1>4 DEF Jump, Parked, Leaving
  <2>2. \A u \in Thread : Loaded'[u] = Loaded[u]
    BY <1>4 DEF Jump, Loaded
  <2> QED
    BY <1>4, <2>1, <2>2, ContextsFrame DEF Jump
<1>5. ASSUME NEW t \in Thread, Boot(t) PROVE UNCHANGED Contexts!ctxVars
  <2>1. \A f \in UltAddr : Parked(f)' <=> Parked(f)
    BY <1>5 DEF Boot, BeginSwitch, ult_lock, ult_trylock, Parked, Leaving, PlaceInv
  <2>2. \A u \in Thread : Loaded'[u] = Loaded[u]
    BY <1>5 DEF Boot, BeginSwitch, Loaded
  <2> QED
    BY <1>5, <2>1, <2>2, ContextsFrame DEF Boot
<1>6. ASSUME NEW t \in Thread, UserStep(t) PROVE Contexts!Next
  <2>1. ParkedContexts' = ParkedContexts
    BY <1>6 DEF UserStep, ParkedContexts, Parked, Leaving
  <2>2. Loaded[t] = live[t] /\ live[t] # NULL /\ Loaded' = [Loaded EXCEPT ![t] = live'[t]]
    BY <1>6 DEF UserStep, Loaded
  <2>3. live'[t] = [who |-> live[t].who, at |-> live[t].at + 1] /\ live[t].at < MaxWork
    BY <1>6 DEF UserStep
  <2>4. Contexts!UserStep(t)
    BY <2>1, <2>2, <2>3 DEF Contexts!UserStep
  <2> QED
    BY <2>4 DEF Contexts!Next
<1>7. ASSUME NEW t \in Thread, ult_convert(t) PROVE UNCHANGED Contexts!ctxVars
  <2> DEFINE new == ult_id + 1
  <2>1. new \in UltAddr /\ new \notin 1..ult_id /\ 1..ult_id' = 1..ult_id \cup {new}
    BY <1>7, NewFiber DEF ult_convert
  <2>2. \A u \in Thread : Switching(u) => to[u] # new
    BY <2>1 DEF PlaceInv
  <2>3. \A f \in UltAddr : Parked(f)' <=> Parked(f)
    BY <1>7, <2>1, <2>2 DEF ult_convert, Parked, Leaving, Switching
  <2>4. \A f \in UltAddr : Parked(f) => context'[f] = context[f]
    BY <1>7, <2>1 DEF ult_convert, Parked
  <2>5. \A u \in Thread : Loaded'[u] = Loaded[u]
    BY <1>7, <2>1, <2>2 DEF ult_convert, Loaded, Switching, PlaceInv
  <2> QED
    BY <2>3, <2>4, <2>5, ContextsFrame
<1>8. ASSUME NEW t \in Thread, ult_creat(t) PROVE Contexts!Next
  <2>0. PICK new \in UltAddr : new = ult_id + 1
    BY <1>8, NewFiber DEF ult_creat
  <2> DEFINE x == [who |-> new, at |-> 0]
  <2>1. new \in UltAddr /\ new \notin 1..ult_id /\ 1..ult_id' = 1..ult_id \cup {new}
    BY <1>8, <2>0, NewFiber DEF ult_creat
  <2>2. \A u \in Thread : Switching(u) => to[u] # new
    BY <2>1 DEF PlaceInv
  <2>3. Parked(new)' /\ ~Parked(new) /\ \A f \in UltAddr \ {new} : Parked(f)' <=> Parked(f)
    <3>1. /\ \A f \in UltAddr \ {new} : running'[f] = running[f]
          /\ \A u \in Thread : u # t => pc'[u] = pc[u] /\ to'[u] = to[u]
          /\ pc[t] = "user" /\ pc'[t] = "save" /\ to'[t] = new
      BY <1>8, <2>0, <2>1 DEF ult_creat, BeginSwitch
    <3>2. \A f \in UltAddr : f \in 1..ult_id' <=> f \in 1..ult_id \/ f = new
      BY <2>1
    <3>3. ASSUME NEW f \in UltAddr \ {new} PROVE Parked(f)' <=> Parked(f)
      BY <3>1, <3>2 DEF Parked, Leaving
    <3>4. Parked(new)' /\ ~Parked(new)
      BY <2>1, <3>1, <3>2 DEF Parked, Leaving
    <3> QED
      BY <3>3, <3>4
  <2>4. context'[new] = x /\ \A f \in UltAddr \ {new} : context'[f] = context[f]
    BY <1>8, <2>0, <2>1 DEF ult_creat, BootContext
  <2>5. ParkedContexts' = ParkedContexts \cup {x}
    <3>1. ParkedContexts' = {context'[f] : f \in {g \in UltAddr : Parked(g)'}}
      BY DEF ParkedContexts
    <3>2. \A g \in UltAddr : Parked(g)' <=> Parked(g) \/ g = new
      BY <2>3
    <3> QED
      BY <2>1, <2>3, <2>4, <3>1, <3>2 DEF ParkedContexts
  <2>6. Loaded' = Loaded
    BY <1>8, <2>1, <2>2, <2>4 DEF ult_creat, BeginSwitch, Loaded, Switching, PlaceInv
  <2>7. (\A u \in Thread : Loaded[u] # NULL => Loaded[u].who # new)
        /\ (\A y \in ParkedContexts : y.who # new)
    BY <2>1, UltAssumption DEF DistinctInv, Loaded, ParkedContexts, Parked, PlaceInv, Switching
  <2>8. Contexts!Create(new)
    BY <2>5, <2>6, <2>7 DEF Contexts!Create
  <2> QED
    BY <2>1, <2>8 DEF Contexts!Next
<1>9. ASSUME NEW t \in Thread, NEW f \in UltAddr, TakeFlag(t, f) PROVE UNCHANGED Contexts!ctxVars
  <2>1. \A g \in UltAddr : Parked(g)' <=> Parked(g)
    BY <1>9 DEF TakeFlag, Parked, Leaving, PlaceInv
  <2>2. \A u \in Thread : Loaded'[u] = Loaded[u]
    BY <1>9 DEF TakeFlag, Loaded
  <2> QED
    BY <1>9, <2>1, <2>2, ContextsFrame DEF TakeFlag
<1>10. ASSUME NEW t \in Thread, fls_alloc(t) \/ \E i \in Slot : fls_set(t, i)
       PROVE  UNCHANGED Contexts!ctxVars
  BY <1>1, <1>10 DEF fls_alloc, fls_set
<1> QED
  BY <1>1, <1>2, <1>3, <1>4, <1>5, <1>6, <1>7, <1>8, <1>9, <1>10, StepCases DEF vars, notFls

\* User space fibers keep the promise of the API, as the kernel module does: what threads
\* execute and what waits in fibers changes as if a switch were one exchange.
THEOREM UltImplementsContexts == Spec => ImplementsContexts
<1>1. Init => Contexts!Init
  BY DEF Init, Contexts!Init, Loaded, ParkedContexts, Parked
<1> QED
  BY <1>1, ContextsStep, UltInvariant, PTL DEF Spec, ImplementsContexts, Contexts!Spec
=============================================================================
