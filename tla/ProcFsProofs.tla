---------------------------- MODULE ProcFsProofs ----------------------------
(***************************************************************************)
(* Proofs about the loading of the module and its /proc view, for any      *)
(* number of fibers and of tables of fibers.                               *)
(***************************************************************************)
EXTENDS ProcFs, TLAPS

\* What is registered follows the order of fiber_ioctl_init, then that of fiber_ioctl_exit.
LoadInv ==
    /\ phase \in {"out", "loading", "in", "unloading"}
    /\ phase = "out" => registered = {}
    /\ "tables" \notin registered
    /\ phase = "in" => registered \subseteq {LoadOrder[i] : i \in 1..9}
    /\ phase = "loading" =>
         step \in 0..8 /\ registered \subseteq {LoadOrder[i] : i \in 1..step}
    /\ phase = "unloading" =>
         step \in 0..7 /\ registered \subseteq {UnloadOrder[i] : i \in (step + 1)..8}
    /\ NothingLeftBehind

\* An open device file keeps the module from being unloaded; its image can only go under it
\* when fh_init fails.
FileInv ==
    /\ fd \in {"closed", "open", "stale"}
    /\ fd = "open" => phase \in {"loading", "in"} /\ "device" \in registered
    /\ fd = "stale" => "fh_init" \in failed

\* A hashed fiber is allocated and has an index that was given.
TableInv ==
    /\ process \in 0..MaxProcs /\ fiber_id \in Nat
    /\ procs \in Nat /\ process <= procs
    /\ process = NoProcess => hashed = {}
    /\ \A i \in hashed : i \in 0..(MaxFibers - 1) /\ i < fiber_id /\ <<process, i>> \in heap
    /\ active \subseteq FiberAddr

\* The reader is in a directory or file of proc.c.
Inside == at \in {"dir", "sized", "listed", "lookup", "found", "open"}

\* The reader was told of the directory of the fibers.
Told == Inside \/ (at = "lookdir" /\ FIBERS \in listing)

\* What the reader holds is as it was, unless something happened since.
ReaderInv ==
    /\ Inside \/ at \in {"out", "pid", "readdir", "lookdir", "stale"}
    /\ Inside \/ at = "lookdir" =>
         \/ phase \in {"in", "unloading"}
         \/ phase = "loading" /\ "proc_pident_lookup" \in registered
    /\ at # "out" /\ ~task => "freed" \in since
    /\ Told /\ process = NoProcess => "freed" \in since
    /\ Walking =>
         \/ "created" \in since
         \/ ~\E i \in hashed : i >= num_fibers
    /\ at = "found" => "freed" \in since \/ ptr[2] \in hashed
    /\ at = "open" => \/ "freed" \in since
                      \/ ptr \in heap /\ ptr # NULL

\* The walk is in a table that was allocated; what it went through is still hashed unless it
\* was freed.
WalkInv ==
    Walking /\ fault = "none" =>
      /\ "freed" \in since \/ (ptr[1] = process /\ walked \subseteq hashed)
      /\ ptr[1] # NoProcess /\ ptr[1] \in 0..procs /\ num_fibers \in Nat
      /\ walked \subseteq 0..(num_fibers - 1)
      /\ cursor = NOWHERE \/ cursor \in walked
      /\ ptr[1] = process => \A i \in walked : i \in hashed \/ <<process, i>> \notin heap

ProcFsInv == LoadInv /\ FileInv /\ TableInv /\ ReaderInv /\ WalkInv /\ FaultsNeedRace

-----------------------------------------------------------------------------
(* Loading and unloading *)

\* The two orders, element by element.
LEMMA Orders ==
  /\ Len(LoadOrder) = 9 /\ Len(UnloadOrder) = 8
  /\ LoadOrder[1] = "region" /\ LoadOrder[2] = "cdev" /\ LoadOrder[3] = "class"
  /\ LoadOrder[4] = "device" /\ LoadOrder[5] = "tables" /\ LoadOrder[6] = "kprobe"
  /\ LoadOrder[7] = "proc_pident_readdir" /\ LoadOrder[8] = "proc_pident_lookup"
  /\ LoadOrder[9] = "kretprobe"
  /\ UnloadOrder[1] = "device" /\ UnloadOrder[2] = "class" /\ UnloadOrder[3] = "cdev"
  /\ UnloadOrder[4] = "region" /\ UnloadOrder[5] = "kprobe"
  /\ UnloadOrder[6] = "proc_pident_readdir" /\ UnloadOrder[7] = "proc_pident_lookup"
  /\ UnloadOrder[8] = "kretprobe"
BY DEF LoadOrder, UnloadOrder

\* What has been registered when the registration of a resource is attempted.
LEMMA RegisteredBefore ==
  ASSUME LoadInv, phase = "loading"
  PROVE  /\ Current = "region" => registered = {}
         /\ Current = "cdev" => registered \subseteq {"region"}
         /\ Current = "class" => registered \subseteq {"region", "cdev"}
         /\ Current = "device" => registered \subseteq {"region", "cdev", "class"}
         /\ "device" \in registered => Current \in {"tables", "kprobe"} \cup FhInit
         /\ "proc_pident_lookup" \in registered => Current = "kretprobe"
         /\ Current \in {"region", "cdev", "class", "device", "tables", "kprobe"} \cup FhInit
<1>1. step \in 0..8
  BY DEF LoadInv
<1>2. \A r \in registered : \E i \in 1..step : r = LoadOrder[i]
  BY DEF LoadInv
<1> QED
  BY <1>1, <1>2, Orders DEF Current, FhInit

\* fiber_ioctl_exit removes everything fiber_ioctl_init registers.
LEMMA OrdersAgree == {LoadOrder[i] : i \in 1..9} \ {"tables"} = {UnloadOrder[i] : i \in 1..8}
BY Orders

\* Every step of fiber_ioctl_init and fiber_ioctl_exit keeps the order, and what it gives up
\* it has registered.
LEMMA LoadStep ==
  ASSUME LoadInv,
         \/ StartLoad \/ Register \/ ProbeFails \/ RegisterFails
         \/ StartUnload(fd = "open") \/ Unregister \/ UNCHANGED loadVars
  PROVE  LoadInv'
<1>1. CASE UNCHANGED loadVars
  BY <1>1 DEF loadVars, LoadInv, NothingLeftBehind
<1>2. CASE StartLoad
  BY <1>2 DEF StartLoad, LoadInv, NothingLeftBehind
<1>3. CASE Register
  <2>1. step \in 0..8 /\ step' = step + 1 /\ Current = LoadOrder[step']
    BY <1>3 DEF Register, Current, LoadInv
  <2>2. registered' \subseteq {LoadOrder[i] : i \in 1..step'} /\ "tables" \notin registered'
    BY <1>3, <2>1 DEF Register, LoadInv
  <2> QED
    BY <1>3, <2>1, <2>2, Orders DEF Register, LoadInv, NothingLeftBehind
<1>4. CASE ProbeFails
  <2>1. step \in 0..8 /\ step' = step + 1 /\ step # 8
    BY <1>4, Orders DEF ProbeFails, Current, LoadInv
  <2> QED
    BY <1>4, <2>1 DEF ProbeFails, LoadInv, NothingLeftBehind
<1>5. CASE RegisterFails
  <2>1. /\ phase = "loading" /\ phase' = "out" /\ registered' = {}
        /\ orphans' = orphans \cup (registered \ Rollback(Current))
        /\ failed' = failed \cup (IF Current \in FhInit THEN {"fh_init"}
                                  ELSE {Current} \cap {"cdev"})
        /\ Current \notin {"tables", "kprobe"}
    BY <1>5 DEF RegisterFails
  <2>2. NothingLeftBehind
    BY DEF LoadInv
  <2>3. CASE Current \in FhInit
    BY <2>1, <2>3 DEF NothingLeftBehind, LoadInv
  <2>4. CASE Current = "cdev"
    <3>1. orphans' \subseteq orphans \cup {"region"} /\ "cdev" \in failed'
      BY <2>1, <2>4, RegisteredBefore DEF FhInit
    <3>2. "fh_init" \in failed' <=> "fh_init" \in failed
      BY <2>1, <2>4 DEF FhInit
    <3> QED
      BY <2>1, <2>2, <3>1, <3>2 DEF NothingLeftBehind, LoadInv
  <2>5. CASE Current \in {"region", "class", "device"}
    <3>1. registered \ Rollback(Current) = {}
      BY <2>1, <2>5, RegisteredBefore DEF Rollback
    <3>2. orphans' = orphans /\ failed' = failed
      BY <2>1, <2>5, <3>1 DEF FhInit
    <3> QED
      BY <2>1, <2>2, <3>2 DEF NothingLeftBehind, LoadInv
  <2> QED
    BY <2>1, <2>3, <2>4, <2>5, RegisteredBefore
<1>6. CASE StartUnload(fd = "open")
  BY <1>6, OrdersAgree DEF StartUnload, LoadInv, NothingLeftBehind
<1>7. CASE Unregister
  <2>1. step \in 0..7 /\ registered \subseteq {UnloadOrder[i] : i \in (step + 1)..8}
    BY <1>7 DEF Unregister, LoadInv
  <2>2. CASE step = 7
    <3>1. registered \ {UnloadOrder[step + 1]} = {}
      BY <2>1, <2>2
    <3>2. phase' = "out" /\ registered' = {} /\ orphans' = orphans /\ failed' = failed
      BY <1>7, <2>2, <3>1, Orders DEF Unregister
    <3> QED
      BY <3>2 DEF LoadInv, NothingLeftBehind
  <2>3. CASE step # 7
    <3>1. /\ phase' = "unloading" /\ step' = step + 1 /\ orphans' = orphans /\ failed' = failed
          /\ registered' = registered \ {UnloadOrder[step + 1]}
      BY <1>7, <2>1, <2>3, Orders DEF Unregister
    <3>2. registered' \subseteq {UnloadOrder[i] : i \in (step' + 1)..8}
      BY <2>1, <3>1
    <3> QED
      BY <2>1, <2>3, <3>1, <3>2 DEF LoadInv, NothingLeftBehind
  <2> QED
    BY <2>2, <2>3
<1> QED
  BY <1>1, <1>2, <1>3, <1>4, <1>5, <1>6, <1>7

-----------------------------------------------------------------------------
(* The process and the reader *)

\* A step of the specification is one of its actions, or changes nothing.
LEMMA StepCases ==
  ASSUME [Next]_vars
  PROVE  \/ UNCHANGED vars
         \/ /\ fault = "none"
            /\ \/ Load \/ LoadFails \/ Unload
               \/ Open \/ Convert \/ Create \/ TaskExits
               \/ \E a \in FiberAddr : ThreadExits(a)
               \/ ReachPid \/ ListPid \/ LookupDir \/ HookReturns \/ ReaddirSize \/ LookupSize
               \/ WalkFreed
               \/ \E i \in 0..(MaxFibers - 1) : WalkTo(i)
               \/ \E tailCall \in BOOLEAN : ReaddirEmpty(tailCall) \/ ReaddirWalk(tailCall)
               \/ \E name \in Names, tailCall \in BOOLEAN : LookupWalk(name, tailCall)
               \/ open_file \/ show_file \/ StaleUse \/ Close
BY DEF Next, Process, Reader

\* The hooks call the hooked functions and not themselves; they fail only on a task that is
\* gone, and add no name to the directory of the fibers.
LEMMA Hooks ==
  ASSUME NEW entries, NEW added \in BOOLEAN
  PROVE  /\ WithFibers(entries, added).fault = IF task THEN "none" ELSE "null"
         /\ ~added /\ task => WithFibers(entries, added).entries = entries
         /\ WithFibers(entries, added).entries \subseteq entries \cup {FIBERS}
         /\ FIBERS \notin entries /\ FIBERS \in WithFibers(entries, added).entries
              => process # NoProcess
BY DEF WithFibers, CallReal, Redirected

\* fh_lookup adds its name only for a process with fibers.
LEMMA HookTells == FIBERS \in fh_lookup({STATUS}).entries => process # NoProcess
<1>1. FIBERS # STATUS
  BY DEF FIBERS, STATUS
<1>2. FIBERS \notin {STATUS}
  BY <1>1
<1> QED
  BY <1>2, Hooks DEF fh_lookup

\* What the module's own call of proc_pident_readdir answers.
LEMMA OwnReaddir ==
  ASSUME NEW entries, NEW tailCall \in BOOLEAN
  PROVE  LET answer == CallReaddir("fibers", entries, tailCall)
         IN  /\ answer.fault \in {"none", "null"}
             /\ task => answer.fault = "none"
             /\ answer.fault = "none" => answer.entries = entries
<1>1. AddsFibers("fibers") = FALSE
  BY DEF AddsFibers
<1> QED
  BY <1>1, Hooks DEF CallReaddir, fh_readdir

\* What its own call of proc_pident_lookup answers: "fibers" may be found, too.
LEMMA OwnLookup ==
  ASSUME NEW entries, NEW tailCall \in BOOLEAN
  PROVE  LET answer == CallLookup(entries, tailCall)
         IN  /\ answer.fault \in {"none", "null"}
             /\ task => answer.fault = "none"
             /\ answer.entries \subseteq entries \cup {FIBERS}
BY Hooks DEF CallLookup, fh_lookup

\* Loading and unloading go on in order while a process and a reader use the module.
LEMMA LoadInvStep ==
  ASSUME ProcFsInv, [Next]_vars
  PROVE  LoadInv'
<1>1. CASE UNCHANGED loadVars
  BY <1>1, LoadStep DEF ProcFsInv
<1>2. CASE Load \/ LoadFails \/ Unload
  BY <1>2, LoadStep DEF ProcFsInv, Load, LoadFails, Unload
<1> QED
  BY <1>1, <1>2, StepCases
     DEF vars, Open, Convert, Create, TaskExits, ThreadExits, ReachPid, ListPid, LookupDir,
         Hook, HookReturns, ReaddirSize, LookupSize, SizeTable, WalkFreed, WalkTo, ReaddirEmpty,
         ReaddirWalk, LookupWalk, open_file, show_file, StaleUse, Close

\* The image goes under an open file only by way of fh_init.
LEMMA FileStep ==
  ASSUME ProcFsInv, [Next]_vars
  PROVE  FileInv'
<1> USE DEF ProcFsInv, FileInv
<1>1. CASE UNCHANGED <<loadVars, fd>>
  BY <1>1 DEF loadVars
<1>2. CASE Load
  <2>1. fd' = fd /\ registered \subseteq registered' /\ failed' = failed
    BY <1>2 DEF Load, StartLoad, Register, ProbeFails
  <2>2. fd = "open" => phase' \in {"loading", "in"}
    BY <1>2 DEF Load, StartLoad, Register, ProbeFails
  <2> QED
    BY <2>1, <2>2
<1>3. CASE LoadFails
  <2>1. fd = "open" => Current \in FhInit
    BY <1>3, RegisteredBefore DEF LoadFails, RegisterFails
  <2> QED
    BY <1>3, <2>1 DEF LoadFails, RegisterFails, ImageGone
<1>4. CASE Unload
  <2>1. fd # "open" /\ failed' = failed
    BY <1>4 DEF Unload, StartUnload, Unregister
  <2>2. fd' = fd
    BY <1>4, <2>1 DEF Unload, ImageGone, userVars
  <2> QED
    BY <2>1, <2>2
<1>5. CASE Open
  BY <1>5 DEF Open, loadVars, LoadInv
<1>6. CASE TaskExits
  BY <1>6 DEF TaskExits, loadVars
<1> QED
  BY <1>1, <1>2, <1>3, <1>4, <1>5, <1>6, StepCases
     DEF vars, userVars, Convert, Create, ThreadExits, ReachPid, ListPid, LookupDir,
         Hook, HookReturns, ReaddirSize, LookupSize, SizeTable, WalkFreed, WalkTo, ReaddirEmpty,
         ReaddirWalk, LookupWalk, open_file, show_file, StaleUse, Close

\* The table of fibers names allocated fibers only.
LEMMA TableStep ==
  ASSUME ProcFsInv, [Next]_vars
  PROVE  TableInv'
<1> USE ProcFsAssumption
<1> USE DEF ProcFsInv, TableInv, NoProcess
<1>1. CASE UNCHANGED <<table, procs, heap, active>>
  BY <1>1 DEF table
<1>2. ASSUME NoTable, UNCHANGED <<procs, active>> PROVE TableInv'
  BY <1>2 DEF NoTable
<1>3. CASE Load \/ LoadFails \/ Unload
  BY <1>1, <1>2, <1>3 DEF Load, LoadFails, Unload, ImageGone, userVars
<1>4. CASE Convert
  <2>1. PICK p \in 1..MaxProcs, i \in 0..(MaxFibers - 1) :
          /\ IF process # NoProcess THEN p = process /\ i = fiber_id ELSE p = procs + 1 /\ i = 0
          /\ process' = p /\ NewFiber(p, i) /\ active' = active \cup {<<p, i>>}
          /\ procs' = IF p > procs THEN p ELSE procs
    BY <1>4 DEF Convert
  <2>2. active' \subseteq FiberAddr
    BY <2>1 DEF FiberAddr
  <2>3. ASSUME NEW j \in hashed'
        PROVE  j \in 0..(MaxFibers - 1) /\ j < fiber_id' /\ <<process', j>> \in heap'
    BY <2>1, <2>3 DEF NewFiber
  <2> QED
    BY <2>1, <2>2, <2>3 DEF NewFiber
<1>5. CASE Create
  <2>1. process \in 1..MaxProcs /\ process' = process /\ active' = active /\ procs' = procs
    BY <1>5 DEF Create, FiberAddr
  <2>2. ASSUME NEW j \in hashed'
        PROVE  j \in 0..(MaxFibers - 1) /\ j < fiber_id' /\ <<process', j>> \in heap'
    BY <1>5, <2>1, <2>2 DEF Create, NewFiber
  <2> QED
    BY <1>5, <2>1, <2>2 DEF Create, NewFiber
<1>6. ASSUME NEW a \in FiberAddr, ThreadExits(a) PROVE TableInv'
  <2>1. active' \subseteq FiberAddr /\ procs' = procs
    BY <1>6 DEF ThreadExits
  <2>2. \/ UNCHANGED <<heap, process, fiber_id, hashed>>
        \/ NoTable
        \/ /\ heap' = heap \ {a} /\ hashed' = hashed \ {a[2]} /\ a[1] = process
           /\ UNCHANGED <<process, fiber_id>>
    BY <1>6 DEF ThreadExits, table
  <2>3. \A i \in hashed : i # a[2] => <<process, i>> # a
    BY DEF FiberAddr
  <2> QED
    BY <2>1, <2>2, <2>3 DEF NoTable
<1> QED
  BY <1>1, <1>3, <1>4, <1>5, <1>6, StepCases
     DEF vars, userVars, Open, TaskExits, ReachPid, ListPid, LookupDir,
         Hook, HookReturns, ReaddirSize, LookupSize, SizeTable, WalkFreed, WalkTo, ReaddirEmpty,
         ReaddirWalk, LookupWalk, open_file, show_file, StaleUse, Close

\* The table SizeTable makes has an element for every fiber.
LEMMA IndicesGiven ==
  ASSUME TableInv
  PROVE  ~\E i \in hashed : i >= fiber_id
<1> SUFFICES ASSUME NEW i \in hashed, i >= fiber_id PROVE FALSE
  OBVIOUS
<1>1. i \in 0..(MaxFibers - 1) /\ i < fiber_id /\ fiber_id \in Nat
  BY DEF TableInv
<1> QED
  BY <1>1, ProcFsAssumption

\* The reader's place and what it holds survive every step of the process and of the loader
\* that leaves no trace in since.
LEMMA ReaderStep ==
  ASSUME ProcFsInv, [Next]_vars
  PROVE  ReaderInv'
<1> USE ProcFsAssumption
<1> USE DEF ProcFsInv, ReaderInv, Inside, Told, Walking
<1>1. CASE UNCHANGED vars
  BY <1>1 DEF vars, loadVars, userVars, table, readerVars, walk
<1>2. CASE fault = "none" /\ Load
  <2>1. UNCHANGED <<task, heap, at, ptr, num_fibers, listing, since, fault>>
    BY <1>2 DEF Load, readerVars, walk
  <2>2. Inside \/ at = "lookdir" =>
          /\ process' = process /\ hashed' = hashed /\ phase # "out"
          /\ \/ phase' \in {"in", "unloading"}
             \/ phase' = "loading" /\ "proc_pident_lookup" \in registered'
    BY <1>2, RegisteredBefore DEF Load, StartLoad, Register, ProbeFails, table, LoadInv
  <2> QED
    BY <2>1, <2>2
<1>3. ASSUME ImageGone PROVE ReaderInv'
  BY <1>3 DEF ImageGone
<1>4. CASE LoadFails
  BY <1>3, <1>4 DEF LoadFails
<1>5. CASE Unload
  <2>1. CASE phase' = "out"
    BY <1>3, <1>5, <2>1 DEF Unload
  <2>2. CASE phase' # "out"
    <3>1. phase' = "unloading"
      BY <1>5, <2>2 DEF Unload, StartUnload, Unregister
    <3> QED
      BY <1>5, <2>2, <3>1 DEF Unload, userVars, table, readerVars, walk
  <2> QED
    BY <2>1, <2>2
<1>6. CASE Open
  BY <1>6 DEF Open, loadVars, table, readerVars, walk
<1>7. CASE fault = "none" /\ (Convert \/ Create)
  <2>1. /\ UNCHANGED <<loadVars, task, readerVars>>
        /\ at # "out" => since' = since \cup {"created"}
    BY <1>7 DEF Convert, Create, Happened
  <2>2. heap \subseteq heap'
    BY <1>7 DEF Convert, Create, NewFiber
  <2>3. /\ process' # NoProcess
        /\ process # NoProcess => process' = process /\ hashed \subseteq hashed'
    BY <1>7 DEF Convert, Create, NewFiber, NoProcess, TableInv, FiberAddr
  <2>4. process = NoProcess => hashed = {}
    BY DEF TableInv
  <2> QED
    BY <1>7, <2>1, <2>2, <2>3, <2>4 DEF loadVars, readerVars, walk
<1>8. ASSUME NEW a \in FiberAddr, ThreadExits(a) PROVE ReaderInv'
  <2>1. /\ UNCHANGED <<loadVars, task, readerVars>>
        /\ at # "out" => since' = since \cup {"freed"}
    BY <1>8 DEF ThreadExits, Happened
  <2>2. hashed' \subseteq hashed
    BY <1>8 DEF ThreadExits, NoTable, table
  <2> QED
    BY <2>1, <2>2 DEF loadVars, readerVars, walk
<1>9. CASE TaskExits
  <2>1. /\ UNCHANGED <<loadVars, table, heap, readerVars>>
        /\ at # "out" => since' = since \cup {"freed"}
    BY <1>9 DEF TaskExits, Happened
  <2> QED
    BY <2>1 DEF loadVars, table, readerVars, walk
<1>10. CASE ReachPid \/ StaleUse \/ Close
  BY <1>10 DEF ReachPid, StaleUse, Close, loadVars, userVars, table, readerVars, walk
<1>11. CASE ListPid \/ LookupDir
  <2>1. /\ UNCHANGED <<loadVars, task, process, hashed, heap, since>> /\ at = "pid"
        /\ \/ at' = "pid"
           \/ at' = "readdir"
           \/ /\ at' = "lookdir" /\ listing' = fh_lookup({STATUS}).entries
              /\ "proc_pident_lookup" \in registered
    <3>1. CASE ListPid
      BY <3>1 DEF ListPid, Hook, userVars, table
    <3>2. CASE LookupDir
      <4> DEFINE answer == fh_lookup({STATUS})
      <4>1. Hook("proc_pident_lookup", answer, "lookdir")
        BY <3>2 DEF LookupDir
      <4> HIDE DEF answer
      <4>2. /\ UNCHANGED <<loadVars, task, process, hashed, heap, since>> /\ at = "pid"
            /\ \/ at' = "pid"
               \/ /\ at' = "lookdir" /\ listing' = answer.entries
                  /\ "proc_pident_lookup" \in registered
        BY <4>1 DEF Hook, userVars, table
      <4> QED
        BY <4>2 DEF answer
    <3> QED
      BY <1>11, <3>1, <3>2
  <2>2. FIBERS \in fh_lookup({STATUS}).entries => process # NoProcess
    BY ONLY HookTells
  <2>3. "proc_pident_lookup" \in registered => phase # "out"
    BY DEF LoadInv
  <2> QED
    BY <2>1, <2>2, <2>3 DEF loadVars, LoadInv
<1>12. CASE HookReturns
  BY <1>12 DEF HookReturns, loadVars, userVars, table, readerVars
<1>13. CASE ReaddirSize \/ LookupSize
  <2>1. /\ UNCHANGED <<loadVars, task, process, hashed, heap>> /\ Inside /\ Inside' /\ task
        /\ at' \in {"sized", "lookup"}
        /\ ptr'[1] = process /\ num_fibers' = fiber_id /\ since' = since \ {"created"}
    BY <1>13 DEF ReaddirSize, LookupSize, SizeTable, TableSize, userVars, table
  <2>2. ~\E i \in hashed : i >= fiber_id
    BY IndicesGiven
  <2> QED
    BY <2>1, <2>2 DEF loadVars
<1>14. ASSUME NEW tailCall \in BOOLEAN, fault = "none",
              ReaddirEmpty(tailCall) \/ ReaddirWalk(tailCall)
       PROVE  ReaderInv'
  <2>1. Inside /\ at' = "listed" /\ UNCHANGED <<loadVars, task, process, since>>
    BY <1>14 DEF ReaddirEmpty, ReaddirWalk, userVars, table
  <2> QED
    BY <2>1 DEF loadVars
<1>15. ASSUME NEW name \in Names, NEW tailCall \in BOOLEAN, fault = "none",
              LookupWalk(name, tailCall)
       PROVE  ReaderInv'
  <2>1. /\ at = "lookup" /\ UNCHANGED <<loadVars, task, process, hashed, heap, since>>
        /\ \/ at' = "found" /\ ptr' = <<0, name>>
              /\ name \in CallLookup(walked, tailCall).entries \ {FIBERS}
           \/ at' = "dir"
    BY <1>15 DEF LookupWalk, userVars, table
  <2>2. CallLookup(walked, tailCall).entries \subseteq walked \cup {FIBERS}
    BY OwnLookup
  <2>3. "freed" \in since \/ walked \subseteq hashed
    BY <1>15, <2>1 DEF WalkInv
  <2> QED
    BY <2>1, <2>2, <2>3 DEF loadVars
<1>16. CASE open_file
  <2>1. /\ at = "found" /\ at' = "open"
        /\ ptr' = IF ptr[2] \in hashed THEN <<process, ptr[2]>> ELSE NULL
        /\ UNCHANGED <<loadVars, task, process, hashed, heap, since>>
    BY <1>16 DEF open_file, userVars, table
  <2>2. ptr[2] \in hashed => <<process, ptr[2]>> \in heap /\ <<process, ptr[2]>> # NULL
    BY DEF TableInv, NULL, NoProcess
  <2> QED
    BY <2>1, <2>2 DEF loadVars
<1>17. CASE show_file \/ WalkFreed
  BY <1>17 DEF show_file, WalkFreed, loadVars, userVars, table, readerVars, walk
<1>18. ASSUME NEW i \in 0..(MaxFibers - 1), WalkTo(i) PROVE ReaderInv'
  BY <1>18 DEF WalkTo, loadVars, userVars, table
<1> QED
  BY <1>1, <1>2, <1>4, <1>5, <1>6, <1>7, <1>8, <1>9, <1>10, <1>11, <1>12, <1>13, <1>14, <1>15,
     <1>16, <1>17, <1>18, StepCases

\* What the walk went through stays hashed or is freed: a table is never allocated twice, and
\* an index of it never given twice.
LEMMA WalkStep ==
  ASSUME ProcFsInv, [Next]_vars
  PROVE  WalkInv'
<1> USE ProcFsAssumption
<1> USE DEF ProcFsInv, WalkInv, Walking
<1>1. CASE UNCHANGED <<at, ptr, walk, fault, process, procs, hashed, heap, since>>
  BY <1>1 DEF walk
<1>2. ASSUME ~Walking' \/ fault' # "none" PROVE WalkInv'
  BY <1>2
<1>3. CASE fault = "none" /\ Load
  <2>1. UNCHANGED <<heap, procs, at, ptr, walk, since, fault>>
    BY <1>3 DEF Load, readerVars
  <2>2. Walking => process' = process /\ hashed' = hashed
    BY <1>3, RegisteredBefore DEF Load, StartLoad, Register, ProbeFails, table, LoadInv,
       ReaderInv, Inside
  <2> QED
    BY <2>1, <2>2 DEF walk
<1>4. ASSUME ImageGone PROVE WalkInv'
  BY <1>4 DEF ImageGone
<1>5. CASE LoadFails \/ Unload
  BY <1>1, <1>4, <1>5 DEF LoadFails, Unload, userVars, table, readerVars
<1>6. CASE fault = "none" /\ (Convert \/ Create) /\ Walking
  <2>1. UNCHANGED <<readerVars>> /\ since' = since \cup {"created"}
    BY <1>6 DEF Convert, Create, Happened
  <2>2. PICK p \in 1..MaxProcs, i \in 0..(MaxFibers - 1) :
          /\ process' = p /\ NewFiber(p, i)
          /\ procs' \in Nat /\ procs <= procs'
          /\ IF process # NoProcess THEN p = process ELSE p = procs + 1
    <3>1. CASE Convert
      BY <3>1 DEF Convert, TableInv
    <3>2. CASE Create
      BY <3>2 DEF Create, TableInv, FiberAddr, NoProcess
    <3> QED
      BY <1>6, <3>1, <3>2
  <2>3. /\ hashed' = IF p = process THEN hashed \cup {i} ELSE {i}
        /\ heap' = heap \cup {<<p, i>>}
    BY <2>2 DEF NewFiber
  <2>4. ptr[1] = process' => process' = process
    BY <1>6, <2>2 DEF TableInv, NoProcess
  <2>5. ptr[1] = process => process' = process
    BY <1>6, <2>2
  <2> QED
    BY <1>6, <2>1, <2>2, <2>3, <2>4, <2>5 DEF readerVars, walk, TableInv
<1>7. ASSUME NEW a \in FiberAddr, ThreadExits(a), fault = "none", Walking PROVE WalkInv'
  <2>1. UNCHANGED <<readerVars, procs>> /\ since' = since \cup {"freed"}
    BY <1>7 DEF ThreadExits, Happened
  <2>2. \/ UNCHANGED <<process, hashed, heap>>
        \/ process' = NoProcess
        \/ /\ process' = process /\ a[1] = process
           /\ hashed' = hashed \ {a[2]} /\ heap' = heap \ {a}
    BY <1>7 DEF ThreadExits, NoTable, table
  <2>3. a = <<a[1], a[2]>>
    BY DEF FiberAddr
  <2> QED
    BY <1>7, <2>1, <2>2, <2>3 DEF readerVars, walk
<1>8. CASE fault = "none" /\ TaskExits
  BY <1>8 DEF TaskExits, Happened, table, readerVars, walk
<1>9. CASE ReaddirSize \/ LookupSize
  <2>1. /\ UNCHANGED <<process, procs, hashed, heap>> /\ ptr'[1] = process
        /\ num_fibers' = fiber_id /\ walked' = {} /\ cursor' = NOWHERE
        /\ process = NoProcess => fault' # "none"
    BY <1>9 DEF ReaddirSize, LookupSize, SizeTable, TableSize, userVars, table
  <2> QED
    BY <2>1 DEF TableInv, NoProcess
<1>10. ASSUME NEW i \in 0..(MaxFibers - 1), WalkTo(i), fault = "none" PROVE WalkInv'
  <2>1. /\ UNCHANGED <<at, ptr, num_fibers, since, process, procs, hashed, heap>>
        /\ walked' = walked \cup {i} /\ cursor' = i /\ i \in hashed /\ Walking
        /\ i >= num_fibers => fault' = "bounds"
    BY <1>10 DEF WalkTo, userVars, table
  <2> QED
    BY <1>10, <2>1
<1>11. CASE Open \/ show_file
  BY <1>1, <1>11 DEF Open, show_file, userVars, table, readerVars
<1>12. CASE fault = "none" /\ (Convert \/ Create) /\ ~Walking
  BY <1>12 DEF Convert, Create, readerVars
<1>13. ASSUME NEW a \in FiberAddr, ThreadExits(a), ~Walking PROVE WalkInv'
  BY <1>13 DEF ThreadExits, readerVars
<1> QED
  BY <1>1, <1>2, <1>3, <1>5, <1>6, <1>7, <1>8, <1>9, <1>10, <1>11, <1>12, <1>13, StepCases
     DEF vars, userVars, table, readerVars, ReachPid, ListPid, LookupDir, Hook, HookReturns,
         WalkFreed, ReaddirEmpty, ReaddirWalk, LookupWalk, open_file, StaleUse, Close

\* What the walk follows is gone only if a thread ended.
LEMMA WalkFaults ==
  ASSUME ProcFsInv, fault = "none", Walking
  PROVE  /\ WalkGone => "freed" \in since
         /\ (\E i \in walked : <<ptr[1], i>> \notin heap) => "freed" \in since
<1>1. ASSUME "freed" \notin since
      PROVE  /\ ptr[1] = process /\ cursor \in hashed \cup {NOWHERE}
             /\ \A i \in walked : <<ptr[1], i>> \in heap
  <2>1. ptr[1] = process /\ walked \subseteq hashed /\ (cursor = NOWHERE \/ cursor \in walked)
    BY <1>1 DEF ProcFsInv, WalkInv
  <2> QED
    BY <2>1 DEF ProcFsInv, TableInv
<1>2. \A i \in hashed : <<process, i>> \in heap
  BY DEF ProcFsInv, TableInv
<1> QED
  BY <1>1, <1>2 DEF WalkGone

\* A step faults only where the code follows what a race has taken away.
LEMMA FaultStep ==
  ASSUME ProcFsInv, [Next]_vars
  PROVE  FaultsNeedRace'
<1> USE DEF ProcFsInv, FaultsNeedRace
<1>1. CASE UNCHANGED vars
  BY <1>1 DEF vars, loadVars, readerVars
<1>2. ASSUME fault = "none", fault' = "none" PROVE FaultsNeedRace'
  BY <1>2
<1>3. CASE fault = "none" /\ (Load \/ LoadFails \/ Unload \/ ReachPid \/ HookReturns \/ ReaddirSize \/ Close)
  <2>1. fault' = "none"
    BY <1>3 DEF Load, LoadFails, Unload, ImageGone, ReachPid, HookReturns, ReaddirSize, Close
  <2> QED
    BY <1>2, <1>3, <2>1
<1>4. CASE fault = "none" /\ Open
  <2>1. "device" \in orphans => "fh_init" \in failed
    BY DEF LoadInv, NothingLeftBehind
  <2> QED
    BY <1>4, <2>1 DEF Open, loadVars
<1>5. CASE fault = "none" /\ (Convert \/ Create)
  <2>1. failed' = failed /\ (fault' = "none" \/ (fault' = "gone" /\ fd = "stale"))
    BY <1>5 DEF Convert, Create, Ioctl, loadVars
  <2> QED
    BY <2>1 DEF FileInv
<1>6. \A f \in {"kprobe"} \cup FhInit : f \in orphans => "fh_init" \in failed
  BY DEF LoadInv, NothingLeftBehind, FhInit
<1>7. ASSUME NEW a \in FiberAddr, fault = "none", ThreadExits(a) PROVE FaultsNeedRace'
  BY <1>6, <1>7 DEF ThreadExits, loadVars
<1>8. CASE fault = "none" /\ TaskExits
  BY <1>6, <1>8 DEF TaskExits, loadVars, FileInv
<1>9. CASE ListPid \/ LookupDir
  <2>1. /\ since' = since /\ at = "pid" /\ failed' = failed
        /\ \/ fault' = "gone" /\ "fh_init" \in failed
           \/ fault' = IF task THEN "none" ELSE "null"
    BY <1>6, <1>9, Hooks
       DEF ListPid, LookupDir, Hook, fh_readdir, fh_lookup, AddsFibers, FhInit, loadVars
  <2> QED
    BY <2>1 DEF ReaderInv
<1>10. CASE fault = "none" /\ LookupSize
  <2>1. since' = since \ {"created"} /\ at \in {"dir", "listed"}
        /\ fault' = IF process = NoProcess THEN "null" ELSE "none"
    BY <1>10 DEF LookupSize, SizeTable
  <2> QED
    BY <2>1 DEF ReaderInv, Told, Inside
<1>11. ASSUME NEW tailCall \in BOOLEAN, ReaddirEmpty(tailCall) PROVE FaultsNeedRace'
  <2>1. fault' = "none"
    BY <1>11, OwnReaddir DEF ReaddirEmpty
  <2> QED
    BY <2>1
<1>12. CASE fault = "none" /\ WalkFreed
  BY <1>12, WalkFaults DEF WalkFreed
<1>13. ASSUME NEW i \in 0..(MaxFibers - 1), fault = "none", WalkTo(i) PROVE FaultsNeedRace'
  <2>1. since' = since /\ Walking /\ i \in hashed
        /\ fault' = IF i >= num_fibers THEN "bounds" ELSE "none"
    BY <1>13 DEF WalkTo
  <2> QED
    BY <2>1 DEF ReaderInv
<1>14. ASSUME fault = "none", Walking, since' = since, NEW other \in {"none", "null"},
              task => other = "none", fault' = NameFault(other)
       PROVE  FaultsNeedRace'
  <2>1. ~task => "freed" \in since
    BY <1>14 DEF ReaderInv, Walking
  <2>2. CASE \E i \in walked : <<ptr[1], i>> \notin heap
    BY <1>14, <2>2, WalkFaults DEF NameFault
  <2>3. CASE ~\E i \in walked : <<ptr[1], i>> \notin heap
    BY <1>14, <2>1, <2>3 DEF NameFault
  <2> QED
    BY <2>2, <2>3
<1>15. ASSUME NEW tailCall \in BOOLEAN, fault = "none", ReaddirWalk(tailCall) PROVE FaultsNeedRace'
  <2> DEFINE holes == IF walked = 0..(num_fibers - 1) THEN {} ELSE {NAMELESS}
             answer == CallReaddir("fibers", walked \cup holes, tailCall)
  <2>1. Walking /\ since' = since /\ fault' = NameFault(answer.fault)
    BY <1>15 DEF ReaddirWalk, Walking
  <2>2. answer.fault \in {"none", "null"} /\ (task => answer.fault = "none")
    BY OwnReaddir
  <2> HIDE DEF answer
  <2> QED
    BY <1>14, <1>15, <2>1, <2>2
<1>16. ASSUME NEW name \in Names, NEW tailCall \in BOOLEAN, fault = "none", LookupWalk(name, tailCall)
       PROVE  FaultsNeedRace'
  <2> DEFINE answer == CallLookup(walked, tailCall)
  <2>1. Walking /\ since' = since /\ fault' = NameFault(answer.fault)
    BY <1>16 DEF LookupWalk, Walking
  <2>2. answer.fault \in {"none", "null"} /\ (task => answer.fault = "none")
    BY OwnLookup
  <2> HIDE DEF answer
  <2> QED
    BY <1>14, <1>16, <2>1, <2>2
<1>17. CASE fault = "none" /\ open_file
  <2>1. at = "found" /\ since' = since
        /\ fault' = IF ~task \/ process = NoProcess THEN "null" ELSE "none"
    BY <1>17 DEF open_file
  <2> QED
    BY <2>1 DEF ReaderInv, Told, Inside
<1>18. CASE fault = "none" /\ show_file
  BY <1>18 DEF show_file, ReaderInv
<1>19. CASE StaleUse
  BY <1>19 DEF StaleUse, readerVars
<1> QED
  BY <1>1, <1>3, <1>4, <1>5, <1>7, <1>8, <1>9, <1>10, <1>11, <1>12, <1>13, <1>15, <1>16, <1>17,
     <1>18, <1>19, StepCases

\* Loading, the process and the reader keep the invariant together.
THEOREM ProcFsInvariant == Spec => []ProcFsInv
<1>1. Init => ProcFsInv
  BY ProcFsAssumption
     DEF Init, InitLoad, ProcFsInv, LoadInv, NothingLeftBehind, FileInv, TableInv, ReaderInv,
         Inside, Told, Walking, WalkInv, FaultsNeedRace, NoProcess
<1>2. ProcFsInv /\ [Next]_vars => ProcFsInv'
  BY LoadInvStep, FileStep, TableStep, ReaderStep, WalkStep, FaultStep DEF ProcFsInv
<1> QED
  BY <1>1, <1>2, PTL DEF Spec

\* fiber_ioctl_init and fiber_ioctl_exit leave nothing registered for an image that is gone,
\* unless cdev_add or fh_init failed.
THEOREM NothingEverLeftBehind == Spec => []NothingLeftBehind
<1>1. ProcFsInv => NothingLeftBehind
  BY DEF ProcFsInv, LoadInv
<1> QED
  BY <1>1, ProcFsInvariant, PTL

\* Whatever the number of fibers, a reader of /proc faults only in the races FaultsNeedRace
\* names, and the hooks of proc.c never call themselves.
THEOREM FaultsAlwaysNeedRace == Spec => []FaultsNeedRace
<1>1. ProcFsInv => FaultsNeedRace
  BY DEF ProcFsInv
<1> QED
  BY <1>1, ProcFsInvariant, PTL

\* A listing of /proc/<pid>/fibers that returns is a snapshot, whatever the process does
\* during the walk: the fibers of the time the table was sized that are still there, and an
\* entry without a name exactly if one of that table is gone.
THEOREM ListingAlwaysSnapshot == Spec => ListingSnapshot
<1> DEFINE there == {i \in hashed : i < num_fibers}
<1>1. ASSUME ProcFsInv, [Next]_vars, at = "sized", at' = "listed", fault' = "none"
      PROVE  /\ listing' \ {NAMELESS} = there
             /\ NAMELESS \in listing' <=> there # 0..(num_fibers - 1)
  <2> DEFINE holes == IF walked = 0..(num_fibers - 1) THEN {} ELSE {NAMELESS}
  <2>1. PICK tailCall \in BOOLEAN : fault = "none" /\ ReaddirWalk(tailCall)
    BY <1>1, StepCases
       DEF vars, readerVars, Load, LoadFails, Unload, ImageGone, Open, Convert, Create,
           TaskExits, ThreadExits, ReachPid, ListPid, LookupDir, Hook, HookReturns, ReaddirSize,
           LookupSize, SizeTable, WalkFreed, WalkTo, ReaddirEmpty, LookupWalk, open_file,
           show_file, StaleUse, Close
  <2> DEFINE answer == CallReaddir("fibers", walked \cup holes, tailCall)
  <2>2. /\ listing' = answer.entries /\ NameFault(answer.fault) = "none"
        /\ ptr[1] = process /\ \A i \in hashed \ walked : i >= num_fibers
    BY <1>1, <2>1 DEF ReaddirWalk, WalkEnds, WalkGone
  <2>3. answer.fault = "none" /\ \A i \in walked : <<process, i>> \in heap
    BY <2>2 DEF NameFault
  <2>4. listing' = walked \cup holes
    BY <2>2, <2>3, OwnReaddir
  <2>5. /\ walked \subseteq 0..(num_fibers - 1) /\ num_fibers \in Nat
        /\ \A i \in walked : i \in hashed
    <3>1. WalkInv
      BY <1>1 DEF ProcFsInv
    <3>2. Walking
      BY <1>1 DEF Walking
    <3> QED
      BY <2>1, <2>2, <2>3, <3>1, <3>2 DEF WalkInv
  <2>6. \A i \in hashed : i \in Nat
    <3>1. \A i \in hashed : i \in 0..(MaxFibers - 1)
      BY <1>1 DEF ProcFsInv, TableInv
    <3> QED
      BY <3>1, ProcFsAssumption
  <2>7. walked = there
    <3>1. \A i \in walked : i \in hashed /\ i < num_fibers
      BY <2>5, <2>6
    <3>2. \A i \in hashed \ walked : i >= num_fibers
      BY <2>2
    <3>3. \A i \in hashed : i < num_fibers => i \in walked
      BY <2>5, <2>6, <3>2
    <3> QED
      BY <3>1, <3>3
  <2>8. NAMELESS \notin there
    BY <2>6 DEF NAMELESS
  <2> QED
    BY <2>4, <2>7, <2>8
<1>2. ProcFsInv /\ [Next]_vars
        => [at = "sized" /\ at' = "listed" /\ fault' = "none" =>
              /\ listing' \ {NAMELESS} = there
              /\ NAMELESS \in listing' <=> there # 0..(num_fibers - 1)]_vars
  BY <1>1
<1> QED
  BY <1>2, ProcFsInvariant, PTL DEF Spec, ListingSnapshot
=============================================================================
