------------------------------- MODULE ProcFs -------------------------------
(***************************************************************************)
(* The /proc view of the kernel module (proc.c), composed with the loading *)
(* and unloading of the module.                                            *)
(*                                                                         *)
(* One process opens /dev/fiber, converts threads, creates fibers and      *)
(* ends; its calls are single steps here (FiberIoctl has their inside).    *)
(* One reader looks up /proc/<pid>/fibers, lists it, opens a file in it    *)
(* and reads it.  The kernel's proc_pident_readdir and proc_pident_lookup  *)
(* are hooked by fh_readdir and fh_lookup.  A process_arg_t is a number, a *)
(* fiber_arg_t the pair of it and the fiber's index.                       *)
(***************************************************************************)
EXTENDS ModuleLoad

CONSTANTS MaxFibers,  \* bound on the fibers of a process_arg_t
          MaxProcs    \* bound on the process_arg_t's allocated

ASSUME ProcFsAssumption == MaxFibers \in Nat \ {0} /\ MaxProcs \in Nat \ {0}

NoProcess == 0
FiberAddr == (1..MaxProcs) \X (0..(MaxFibers - 1))
NULL      == <<0, 0>>

\* Names in directories: a fiber's is its index.  An element of the table without a fiber
\* is an entry without a name.
FIBERS   == -1
STATUS   == -2
NAMELESS == -3

\* The walk of process->fibers is at none of them.
NOWHERE == -1

VARIABLES task,      \* the process exists
          fd,        \* its device file: "closed", "open", or "stale" when the image is gone
          process,   \* its entry of list_process
          procs,     \* process_arg_t's allocated so far
          fiber_id,
          hashed,    \* indices in process->fibers
          heap,      \* fiber_arg_t's allocated
          active,    \* fibers that threads of the process are on
          count_threads,
          at,        \* the reader: "out", "pid", "readdir" and "lookdir" (in fh_readdir and
                     \* fh_lookup), "dir", "sized", "listed", "lookup", "found", "open", or
                     \* "stale" when the image it is in, or its directory is of, is gone
          ptr,       \* the process_arg_t or fiber_arg_t it holds
          num_fibers, walked,
          cursor,    \* the fiber its walk is at
          listing,   \* what it was shown
          since,     \* ghost: what happened since it reached the process's directory
          fault

table      == <<process, fiber_id, hashed, count_threads>>
userVars   == <<task, fd, table, procs, heap, active>>
walk       == <<num_fibers, walked, cursor>>
readerVars == <<at, ptr, walk, listing>>
vars == <<loadVars, userVars, readerVars, since, fault>>

NoTable == process' = NoProcess /\ fiber_id' = 0 /\ hashed' = {}

Init ==
    /\ InitLoad
    /\ task = TRUE /\ fd = "closed"
    /\ process = NoProcess /\ procs = 0 /\ fiber_id = 0 /\ count_threads = 0
    /\ hashed = {} /\ heap = {} /\ active = {}
    /\ at = "out" /\ ptr = NULL /\ num_fibers = 0 /\ listing = {}
    /\ walked = {} /\ cursor = NOWHERE
    /\ since = {} /\ fault = "none"

Happened(what) == since' = IF at = "out" THEN {} ELSE since \cup {what}

-----------------------------------------------------------------------------
(* Loading, as seen by the process and the reader *)

Load ==
    /\ StartLoad \/ Register \/ ProbeFails
    /\ IF phase = "loading" /\ Current = "tables"
       THEN NoTable /\ UNCHANGED count_threads
       ELSE UNCHANGED table
    /\ UNCHANGED <<task, fd, procs, heap, active, readerVars, since, fault>>

\* The reader is in no walk any more.
Returned == num_fibers' = 0 /\ walked' = {} /\ cursor' = NOWHERE

\* The image goes, and with it list_process and the functions that open files and
\* directories refer to, or that the reader is in.
ImageGone ==
    /\ NoTable /\ count_threads' = 0
    /\ fd' = IF fd = "open" THEN "stale" ELSE fd
    /\ at' = IF at \in {"out", "pid"} THEN at ELSE "stale"
    /\ ptr' = NULL /\ listing' = {} /\ Returned
    /\ UNCHANGED <<task, procs, heap, active, since, fault>>

LoadFails == RegisterFails /\ ImageGone

Unload ==
    /\ StartUnload(fd = "open") \/ Unregister
    /\ IF phase' = "out" THEN ImageGone ELSE UNCHANGED <<userVars, readerVars, since, fault>>

-----------------------------------------------------------------------------
(* The process *)

\* The kernel takes a reference to the module while it is loading, too.
Open ==
    /\ task /\ fd = "closed"
    /\ \/ "device" \in registered /\ phase # "unloading" /\ fd' = "open" /\ UNCHANGED fault
       \/ "device" \in orphans /\ fault' = "gone" /\ UNCHANGED fd
    /\ UNCHANGED <<loadVars, task, table, procs, heap, active, readerVars, since>>

Ioctl == task /\ fd # "closed" /\ fault' = IF fd = "stale" THEN "gone" ELSE fault

NewFiber(p, i) == /\ fiber_id' = i + 1
                  /\ hashed' = IF p = process THEN hashed \cup {i} ELSE {i}
                  /\ heap' = heap \cup {<<p, i>>}

Convert ==
    /\ Ioctl
    /\ \E p \in 1..MaxProcs, i \in 0..(MaxFibers - 1) :
         /\ IF process # NoProcess THEN p = process /\ i = fiber_id ELSE p = procs + 1 /\ i = 0
         /\ process' = p /\ procs' = IF p > procs THEN p ELSE procs
         /\ NewFiber(p, i)
         /\ active' = active \cup {<<p, i>>}
    /\ count_threads' = count_threads + 1
    /\ Happened("created")
    /\ UNCHANGED <<loadVars, task, fd, readerVars>>

Create ==
    /\ Ioctl
    /\ fiber_id < MaxFibers /\ \E a \in active : a[1] = process
    /\ NewFiber(process, fiber_id)
    /\ Happened("created")
    /\ UNCHANGED <<loadVars, task, fd, process, procs, active, count_threads, readerVars>>

\* A thread of the process on fiber a ends.  Without the probe nothing is freed, and
\* Pre_Handler finds only threads of the current table.
ThreadExits(a) ==
    /\ task /\ a \in active
    /\ active' = active \ {a}
    /\ IF "kprobe" \in registered /\ a[1] = process
       THEN /\ heap' = heap \ {a}
            /\ count_threads' = count_threads - 1
            /\ IF count_threads' = 0 THEN NoTable
               ELSE hashed' = hashed \ {a[2]} /\ UNCHANGED <<process, fiber_id>>
       ELSE UNCHANGED <<heap, table>>
    /\ fault' = IF "kprobe" \in orphans THEN "gone" ELSE fault
    /\ Happened("freed")
    /\ UNCHANGED <<loadVars, task, fd, procs, readerVars>>

\* The last thread ends: the file is closed and the task goes.
TaskExits ==
    /\ task /\ active = {}
    /\ task' = FALSE /\ fd' = "closed"
    /\ fault' = IF "kprobe" \in orphans \/ fd = "stale" THEN "gone" ELSE fault
    /\ Happened("freed")
    /\ UNCHANGED <<loadVars, table, procs, heap, active, readerVars>>

-----------------------------------------------------------------------------
(* The reader *)

\* fh_ftrace_thunk: the hook is taken unless the call comes from the module.
Redirected(inModule) == ~inModule

\* fh_readdir and fh_lookup go on to the function they hook, unless that is hooked again.
CallReal(entries) == IF Redirected(TRUE) THEN [entries |-> {}, fault |-> "recursion"]
                     ELSE [entries |-> entries, fault |-> "none"]

\* The name FIBERS is added to a directory of the process.
WithFibers(entries, added) ==
    IF ~task THEN [entries |-> {}, fault |-> "null"]
    ELSE CallReal(entries \cup IF process # NoProcess /\ added THEN {FIBERS} ELSE {})

fh_lookup(entries) == WithFibers(entries, TRUE)

\* Variant: the name is added wherever the listing comes from.
AddsFibers_Everywhere(dir) == TRUE

\* The fibers directory is listed with the hooked function, too.
AddsFibers(dir) == dir # "fibers"

fh_readdir(dir, entries) == WithFibers(entries, AddsFibers(dir))

\* proc_pident_readdir and proc_pident_lookup called by the module: `return readdir(...)`
\* may be compiled as a jump, and the caller that the hook sees is then the kernel's.
Caught(f, tailCall) == Redirected(~tailCall) /\ f \in registered

CallReaddir(dir, entries, tailCall) ==
    IF Caught("proc_pident_readdir", tailCall) THEN fh_readdir(dir, entries)
    ELSE [entries |-> entries, fault |-> "none"]

CallLookup(entries, tailCall) ==
    IF Caught("proc_pident_lookup", tailCall) THEN fh_lookup(entries)
    ELSE [entries |-> entries, fault |-> "none"]

\* The reader walks to /proc/<pid> ...
ReachPid ==
    /\ at = "out" /\ task
    /\ at' = "pid" /\ since' = {}
    /\ UNCHANGED <<loadVars, userVars, ptr, walk, listing, fault>>

\* The kernel calls hook f; the hook of an image that is gone is code that is gone.
Hook(f, answer, next) ==
    /\ at = "pid" /\ f \in registered \cup orphans
    /\ IF f \in orphans THEN fault' = "gone" /\ UNCHANGED <<at, listing>>
       ELSE fault' = answer.fault /\ listing' = answer.entries /\ at' = next
    /\ UNCHANGED <<loadVars, userVars, ptr, walk, since>>

\* ... lists it ...
ListPid == Hook("proc_pident_readdir", fh_readdir("pid", {STATUS}), "readdir")

\* ... and looks up the directory of the fibers.
LookupDir == Hook("proc_pident_lookup", fh_lookup({STATUS}), "lookdir")

\* The hook returns to the kernel.
HookReturns ==
    /\ at \in {"readdir", "lookdir"}
    /\ at' = IF at = "lookdir" /\ FIBERS \in listing THEN "dir" ELSE "pid"
    /\ listing' = {}
    /\ UNCHANGED <<loadVars, userVars, ptr, walk, since, fault>>

\* Variant: the table is sized by the number of fibers.
TableSize_Count == Cardinality(hashed)

\* One element for each index ever given.
TableSize == fiber_id

\* What fibers_readdir and fibers_lookup do under lock_fiber.
SizeTable(next) ==
    /\ at' = next
    /\ ptr' = <<process, 0>>
    /\ num_fibers' = TableSize
    /\ walked' = {} /\ cursor' = NOWHERE
    /\ listing' = {}
    /\ since' = since \ {"created"}

ReaddirSize ==
    /\ at \in {"dir", "listed"} /\ task /\ process # NoProcess
    /\ SizeTable("sized")
    /\ UNCHANGED <<loadVars, userVars, fault>>

\* The process has no fibers any more: an empty directory.
ReaddirEmpty(tailCall) ==
    /\ at \in {"dir", "listed"} /\ task /\ process = NoProcess
    /\ LET answer == CallReaddir("fibers", {}, tailCall)
       IN  fault' = answer.fault /\ listing' = answer.entries
    /\ at' = "listed"
    /\ UNCHANGED <<loadVars, userVars, ptr, walk, since>>

\* fibers_lookup does not test the process.
LookupSize ==
    /\ at \in {"dir", "listed"} /\ task
    /\ SizeTable("lookup")
    /\ fault' = IF process = NoProcess THEN "null" ELSE fault
    /\ UNCHANGED <<loadVars, userVars>>

\* The walk of process->fibers, after the lock was given back.  It follows the pointers of
\* the table and of the fiber it is at.
Walking == at \in {"sized", "lookup"}

WalkGone == ptr[1] # process \/ (cursor # NOWHERE /\ <<ptr[1], cursor>> \notin heap)

WalkFreed ==
    /\ Walking /\ WalkGone
    /\ fault' = "freed"
    /\ UNCHANGED <<loadVars, userVars, readerVars, since>>

\* An element of the table is written for the next fiber.
WalkTo(i) ==
    /\ Walking /\ ~WalkGone /\ i \in hashed \ walked
    /\ walked' = walked \cup {i} /\ cursor' = i
    /\ fault' = IF i >= num_fibers THEN "bounds" ELSE fault
    /\ UNCHANGED <<loadVars, userVars, at, ptr, num_fibers, listing, since>>

\* Fibers made since the table was sized may be in a bucket that is behind.
WalkEnds == ~WalkGone /\ \A i \in hashed \ walked : i >= num_fibers

\* The names in the table are those of the fibers, not copies.
NameFault(other) == IF \E i \in walked : <<ptr[1], i>> \notin heap THEN "freed" ELSE other

ReaddirWalk(tailCall) ==
    /\ at = "sized" /\ WalkEnds
    /\ LET holes  == IF walked = 0..(num_fibers - 1) THEN {} ELSE {NAMELESS}
           answer == CallReaddir("fibers", walked \cup holes, tailCall)
       IN  fault' = NameFault(answer.fault) /\ listing' = answer.entries
    /\ at' = "listed" /\ ptr' = NULL /\ Returned
    /\ UNCHANGED <<loadVars, userVars, since>>

\* Lookup of a name; "fibers", if it is found, is the same directory again.
LookupWalk(name, tailCall) ==
    /\ at = "lookup" /\ WalkEnds
    /\ LET answer == CallLookup(walked, tailCall)
       IN  /\ fault' = NameFault(answer.fault)
           /\ IF name \in answer.entries \ {FIBERS} THEN at' = "found" /\ ptr' = <<0, name>>
              ELSE at' = "dir" /\ ptr' = NULL
    /\ Returned
    /\ UNCHANGED <<loadVars, userVars, listing, since>>

\* The file found has the name ptr[2].
open_file ==
    /\ at = "found"
    /\ at' = "open"
    /\ fault' = IF ~task \/ process = NoProcess THEN "null" ELSE fault
    /\ ptr' = IF ptr[2] \in hashed THEN <<process, ptr[2]>> ELSE NULL
    /\ UNCHANGED <<loadVars, userVars, walk, listing, since>>

show_file ==
    /\ at = "open"
    /\ fault' = IF ptr = NULL THEN "null" ELSE IF ptr \in heap THEN fault ELSE "freed"
    /\ UNCHANGED <<loadVars, userVars, readerVars, since>>

\* The files and directories of proc.c hold no reference to the module.
StaleUse ==
    /\ at = "stale"
    /\ fault' = "gone"
    /\ UNCHANGED <<loadVars, userVars, readerVars, since>>

Close ==
    /\ at \in {"pid", "dir", "listed", "found", "open", "stale"}
    /\ at' = "out" /\ ptr' = NULL /\ listing' = {} /\ since' = {}
    /\ Returned
    /\ UNCHANGED <<loadVars, userVars, fault>>

-----------------------------------------------------------------------------
Process == Open \/ Convert \/ Create \/ (\E a \in FiberAddr : ThreadExits(a)) \/ TaskExits

Names == 0..(MaxFibers - 1) \cup {FIBERS}

Reader == \/ ReachPid \/ ListPid \/ LookupDir \/ HookReturns \/ ReaddirSize \/ LookupSize
          \/ WalkFreed \/ (\E i \in 0..(MaxFibers - 1) : WalkTo(i))
          \/ (\E tailCall \in BOOLEAN : \/ ReaddirEmpty(tailCall) \/ ReaddirWalk(tailCall)
                                      \/ \E name \in Names : LookupWalk(name, tailCall))
          \/ open_file \/ show_file \/ StaleUse \/ Close

Next == \/ fault = "none" /\ (Load \/ LoadFails \/ Unload \/ Process \/ Reader)
        \/ fault # "none" /\ UNCHANGED vars

Spec == Init /\ [][Next]_vars

-----------------------------------------------------------------------------
\* A reader of /proc and the probe of do_exit fault only in a race: the walk leaves its
\* table only if a fiber was made after the lock was given back, memory that is gone is
\* followed only if threads ended while the reader was in the process's directories, code
\* that is gone is executed only if the module was unloaded under a reader or fh_init
\* failed, and the hooks never call themselves.
FaultsNeedRace ==
    /\ fault = "bounds" => "created" \in since
    /\ fault \in {"null", "freed"} => "freed" \in since
    /\ fault = "gone" => at = "stale" \/ "fh_init" \in failed
    /\ fault # "recursion"

\* A listing that returns is a snapshot, whatever was made and freed during the walk without
\* the lock and whether or not the module's own call of proc_pident_readdir is caught by its
\* hook: it shows the fibers of the time the table was sized that are still there, no other
\* name, and entries without a name exactly if some fiber of that table is gone.
ListingSnapshot ==
    [][ at = "sized" /\ at' = "listed" /\ fault' = "none" =>
          LET there == {i \in hashed : i < num_fibers}
          IN  /\ listing' \ {NAMELESS} = there
              /\ NAMELESS \in listing' <=> there # 0..(num_fibers - 1) ]_vars
=============================================================================
