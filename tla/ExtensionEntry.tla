--------------------------- MODULE ExtensionEntry ---------------------------
(***************************************************************************)
(* The entry points of the MicroV extension (src/vmm/src/main.cpp): the    *)
(* main entry, which initialises the syscall layer, the intrinsics, the    *)
(* global storage and the VM, VP and VPS pools in that order, and the      *)
(* bootstrap, VM-exit and fast-fail entries the microkernel calls on each  *)
(* physical processor (PP) once the main entry has returned                *)
(* bf_control_op_wait.                                                     *)
(*                                                                         *)
(* The microkernel is the environment: it calls ext_main_entry once, then  *)
(* the bootstrap entry on each PP, then the VM-exit and fast-fail entries  *)
(* on PPs that run a VPS; after any bf_control_op_exit it calls nothing.   *)
(* The dispatch_* functions and the initialisers are outside src/: each    *)
(* either succeeds or fails, and a successful dispatch of a VPS does not   *)
(* return to the entry function.                                           *)
(***************************************************************************)
EXTENDS Naturals, Sequences

CONSTANT Pps    \* the physical processors

\* The objects ext_main_entry initialises, in its order (lines 177-216).
InitOrder == <<"sys", "intrinsic", "gs", "vm_pool", "vp_pool", "vps_pool">>

Subsystems == {InitOrder[k] : k \in 1 .. Len(InitOrder)}

VARIABLES
    phase,  \* "main" while ext_main_entry runs, "waiting" after
            \* bf_control_op_wait, "exited" after bf_control_op_exit
    step,   \* the position in InitOrder ext_main_entry is at
    inited, \* the subsystems whose initialisation succeeded
    pp      \* pp[p]: "off" before bootstrap, "running" while a VPS runs

entryVars == <<phase, step, inited, pp>>

TypeOK ==
    /\ phase \in {"main", "waiting", "exited"}
    /\ step \in 1 .. Len(InitOrder) + 1
    /\ inited \subseteq Subsystems
    /\ pp \in [Pps -> {"off", "running"}]

EntryInit ==
    /\ phase = "main"
    /\ step = 1
    /\ inited = {}
    /\ pp = [p \in Pps |-> "off"]

(***************************************************************************)
(* One initialisation of ext_main_entry (lines 172-219): on failure the    *)
(* function returns bf_control_op_exit at once; after the last success it *)
(* returns bf_control_op_wait.                                             *)
(***************************************************************************)
\* Seeded fault: a failed initialisation is logged and skipped.
MainStepNoReturn ==
    /\ phase = "main"
    /\ \E ok \in BOOLEAN :
        /\ inited' = IF ok THEN inited \cup {InitOrder[step]} ELSE inited
        /\ step' = step + 1
        /\ phase' = IF step = Len(InitOrder) THEN "waiting" ELSE "main"
    /\ UNCHANGED pp

MainStep ==
    /\ phase = "main"
    /\ \/ /\ inited' = inited \cup {InitOrder[step]}
          /\ step' = step + 1
          /\ phase' = IF step = Len(InitOrder) THEN "waiting" ELSE "main"
       \/ /\ phase' = "exited"
          /\ UNCHANGED <<step, inited>>
    /\ UNCHANGED pp

(***************************************************************************)
(* bootstrap_entry, fail_entry and vmexit_entry (lines 79-163): each calls *)
(* its dispatch function; a dispatch that runs a VPS does not come back,   *)
(* and whatever comes back, success or error, ends in bf_control_op_exit.  *)
(***************************************************************************)
\* dispatch_bootstrap, dispatch_vmexit or dispatch_fail on PP p, which must
\* be in state from: the PP runs its VPS, or the entry returns exit.
Dispatch(p, from) ==
    /\ phase = "waiting"
    /\ pp[p] = from
    /\ \/ pp' = [pp EXCEPT ![p] = "running"] /\ UNCHANGED phase
       \/ phase' = "exited" /\ UNCHANGED pp
    /\ UNCHANGED <<step, inited>>

BootstrapEntry(p) == Dispatch(p, "off")

FailEntry(p) == Dispatch(p, "running")

VmexitEntry(p) == Dispatch(p, "running")

EntryNext ==
    \/ MainStep
    \/ \E p \in Pps : BootstrapEntry(p) \/ FailEntry(p) \/ VmexitEntry(p)

EntrySpec == EntryInit /\ [][EntryNext]_entryVars

-----------------------------------------------------------------------------
\* No PP enters a handler before every pool and global it uses exists: the
\* microkernel calls the bootstrap, VM-exit and fast-fail entries only after
\* ext_main_entry returned bf_control_op_wait, and the early return after
\* each failed initialisation (lines 183-216) keeps that return for the
\* case where all six succeeded.
DispatchOnlyAfterInit ==
    [][\A p \in Pps : BootstrapEntry(p) \/ FailEntry(p) \/ VmexitEntry(p)
                          => inited = Subsystems]_entryVars

=============================================================================
