--------------------------- MODULE FiberContexts ---------------------------
(***************************************************************************)
(* What the fiber API promises its users, without any data structure of    *)
(* the kernel module: user computations are register contexts that are     *)
(* either loaded in one thread or parked, and a switch exchanges the       *)
(* context of the calling thread with a parked one in a single step.       *)
(*                                                                         *)
(* A context [who |-> c, at |-> n] is computation c after n user steps.    *)
(***************************************************************************)
EXTENDS Naturals

CONSTANTS Thread,      \* OS threads
          Computation, \* computations that CreateFiber may start
          MaxWork,     \* bound on the user steps of one computation
          NULL

VARIABLES live,   \* live[t]: the context thread t executes, NULL once it exited
          parked  \* contexts waiting to be switched to

ctxVars == <<live, parked>>

Init ==
    /\ live = [t \in Thread |-> [who |-> t, at |-> 0]]
    /\ parked = {}

\* The code of the computation loaded in t makes one step.
UserStep(t) ==
    /\ live[t] # NULL
    /\ live[t].at < MaxWork
    /\ live' = [live EXCEPT ![t] = [who |-> live[t].who, at |-> live[t].at + 1]]
    /\ UNCHANGED parked

\* CreateFiber: a computation that is nowhere yet is parked at its entry point.
Create(c) ==
    /\ \A t \in Thread : live[t] # NULL => live[t].who # c
    /\ \A x \in parked : x.who # c
    /\ parked' = parked \cup {[who |-> c, at |-> 0]}
    /\ UNCHANGED live

\* SwitchToFiber: the caller's context and a parked one trade places.
Switch(t, x) ==
    /\ live[t] # NULL
    /\ live' = [live EXCEPT ![t] = x]
    /\ parked' = (parked \ {x}) \cup {live[t]}

\* do_exit: the computation loaded in t ends with the thread.
Exit(t) ==
    /\ live[t] # NULL
    /\ live' = [live EXCEPT ![t] = NULL]
    /\ UNCHANGED parked

Next ==
    \/ \E t \in Thread : UserStep(t) \/ Exit(t)
    \/ \E t \in Thread : \E x \in parked : Switch(t, x)
    \/ \E c \in Computation : Create(c)

Spec == Init /\ [][Next]_ctxVars
=============================================================================
