-------------------------- MODULE MCVirtualMachine --------------------------
(***************************************************************************)
(* Instances of VirtualMachine for TLC: how often the environment          *)
(* interferes.  A libvirt domain that is removed by hand is never created  *)
(* again, so with drift Converges is violated there: only vSphere has it.  *)
(* Proxmox has failing tasks instead of lost calls, for the size of the    *)
(* state space.  MachineIds must be enough for every Create that is        *)
(* repeated after a lost answer, or a creation waits for an id for ever.   *)
(*                                                                         *)
(* Which of the identifiers that are left a new machine or task gets makes *)
(* no difference, except that a libvirt domain has its name for one; the   *)
(* others are handed out in one order.  This is a symmetry that may be     *)
(* used with liveness too: an identifier is renamed from when it is handed *)
(* out until it is forgotten, which is as long as a fairness condition     *)
(* speaks of one task.                                                     *)
(***************************************************************************)
EXTENDS VirtualMachine

CONSTANTS Edits, LostCalls, Drifts, TaskFailures

MCBudget ==
    [k \in Kinds |->
        [edit        |-> Edits,
         lost        |-> IF k = "proxmox" THEN 0 ELSE LostCalls,
         drift       |-> IF k = "vsphere" THEN Drifts ELSE 0,
         taskFailure |-> IF k = "proxmox" THEN TaskFailures ELSE 0]]

HandedOutInOrder ==
    /\ kind # "libvirt" =>
          LET unused == {m \in MachineIds : machines[m].state = "unused"}
          IN  \A m \in unused : machines'[m] # machines[m] => m = CHOOSE x \in unused : TRUE
    /\ LET free == {t \in TaskIds : tasks[t].state = "free"}
       IN  \A t \in free : tasks'[t] # tasks[t] => t = CHOOSE x \in free : TRUE

MCNext == Next /\ HandedOutInOrder
MCSpec == Init /\ [][MCNext]_vars /\ Fairness
=============================================================================
