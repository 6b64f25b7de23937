----------------------------- MODULE ModuleLoad -----------------------------
(***************************************************************************)
(* Loading and unloading of the kernel module: fiber_ioctl_init and        *)
(* fiber_ioctl_exit of fiber_ioctl.c with fh_init and fh_exit of proc.c.   *)
(*                                                                         *)
(* What the module registers with the kernel is a set of resources.  Every *)
(* registration may fail; the code undoes some of the earlier ones and     *)
(* returns an error, upon which the kernel frees the module's image with   *)
(* whatever still refers to it.                                            *)
(***************************************************************************)
EXTENDS Integers, Sequences, FiniteSets

VARIABLES phase,       \* "out", "loading", "in", "unloading"
          step,        \* registrations or removals done in this phase
          registered,  \* resources of the current image
          orphans,     \* resources whose image is gone
          failed       \* ghost: which of cdev_add and fh_init have failed

loadVars == <<phase, step, registered, orphans, failed>>

-----------------------------------------------------------------------------
\* The order of fiber_ioctl_init; "tables" is hash_init(list_process).
LoadOrder == <<"region", "cdev", "class", "device", "tables", "kprobe",
               "proc_pident_readdir", "proc_pident_lookup", "kretprobe">>

UnloadOrder == <<"device", "class", "cdev", "region", "kprobe",
                 "proc_pident_readdir", "proc_pident_lookup", "kretprobe">>

\* What fh_init registers: fh_install_hooks and the kretprobe.
FhInit == {"proc_pident_readdir", "proc_pident_lookup", "kretprobe"}

\* Variant: the device number is kept when class or device cannot be made.
Rollback_KeepsRegion(r) ==
    CASE r = "class"  -> {"cdev"}
      [] r = "device" -> {"class", "cdev"}
      [] OTHER -> {}

\* What is undone when the registration of r fails.
Rollback(r) ==
    CASE r = "class"  -> {"cdev", "region"}
      [] r = "device" -> {"class", "cdev", "region"}
      [] r = "proc_pident_lookup" -> {"proc_pident_readdir"}
      [] OTHER -> {}

InitLoad ==
    /\ phase = "out" /\ step = 0
    /\ registered = {} /\ orphans = {} /\ failed = {}

\* The image is there to be executed.
Image == phase # "out"

StartLoad ==
    /\ phase = "out"
    /\ phase' = "loading" /\ step' = 0
    /\ UNCHANGED <<registered, orphans, failed>>

Current == LoadOrder[step + 1]

\* A class "char" left behind keeps its name.
CanRegister(r) == r = "class" => r \notin orphans

Register ==
    /\ phase = "loading" /\ CanRegister(Current)
    /\ registered' = registered \cup ({Current} \ {"tables"})
    /\ step' = step + 1
    /\ phase' = IF step' = Len(LoadOrder) THEN "in" ELSE "loading"
    /\ UNCHANGED <<orphans, failed>>

\* The result of register_kprobe is not looked at.
ProbeFails ==
    /\ phase = "loading" /\ Current = "kprobe"
    /\ step' = step + 1
    /\ UNCHANGED <<phase, registered, orphans, failed>>

RegisterFails ==
    /\ phase = "loading" /\ Current \notin {"tables", "kprobe"}
    /\ phase' = "out" /\ step' = 0
    /\ orphans' = orphans \cup (registered \ Rollback(Current))
    /\ registered' = {}
    /\ failed' = failed \cup (IF Current \in FhInit THEN {"fh_init"} ELSE {Current} \cap {"cdev"})

\* rmmod: refused by the kernel while the device is open.
StartUnload(busy) ==
    /\ phase = "in" /\ ~busy
    /\ phase' = "unloading" /\ step' = 0
    /\ UNCHANGED <<registered, orphans, failed>>

\* unregister_kprobe and the removal of hooks do nothing for what is not registered.
Unregister ==
    /\ phase = "unloading"
    /\ LET last == step + 1 = Len(UnloadOrder)
           left == registered \ {UnloadOrder[step + 1]}
       IN  /\ step' = IF last THEN 0 ELSE step + 1
           /\ phase' = IF last THEN "out" ELSE phase
           /\ registered' = IF last THEN {} ELSE left
           /\ orphans' = IF last THEN orphans \cup left ELSE orphans
    /\ UNCHANGED failed

-----------------------------------------------------------------------------
\* The kernel holds no reference into a module that is gone, whatever registration failed
\* on the way and however often the module was loaded, unless cdev_add failed (the device
\* number stays) or fh_init did (everything stays).
NothingLeftBehind ==
    /\ orphans # {} => failed # {}
    /\ "fh_init" \notin failed => orphans \subseteq {"region"}
=============================================================================
