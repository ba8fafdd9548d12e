------------------------------- MODULE BondTxn -------------------------------
(***************************************************************************)
(* What a bond transaction (`with Bond(...) as b:` on the sysfs driver)   *)
(* promises its caller, with the object's bookkeeping left out.  The      *)
(* kernel holds the bond or not, its slaves, and the administrative state *)
(* of every nic.  The transaction takes a snapshot of the bond's          *)
(* existence on entry, then edits the kernel while it is open, and ends   *)
(* committed, reverted, or with the revert itself failed.                 *)
(*                                                                         *)
(* The promises: an edit takes a nic down that was up only by destroying *)
(* the bond, and then only the bond's slaves (the kernel closes what it   *)
(* releases; slave edits restore the nic's state); the kernel does not    *)
(* change before entry, at the commit, or after the end; a transaction    *)
(* that created its bond and ends reverted leaves no bond, and the        *)
(* revert's last step either leaves the kernel alone or destroys the      *)
(* bond, closing its slaves.  Restoring the slave set of a bond that     *)
(* existed on entry is not among them: the driver's snapshot does not    *)
(* keep it (see the ExistingBondRestored run of BondSysFS).               *)
(***************************************************************************)
CONSTANT Nics

VARIABLES
    exists,     \* the kernel has the bond
    bondSlaves, \* the bond's slaves in the kernel
    up,         \* administrative state of each nic
    phase,      \* "idle", "open", "committed", "reverted", "failed"
    snap        \* the bond existed when the transaction was entered

absVars == <<exists, bondSlaves, up, phase, snap>>

(* A kernel state: a bond that does not exist has no slaves. *)
KernelState(e, s, u) ==
    /\ e \in BOOLEAN
    /\ s \in IF e THEN SUBSET Nics ELSE {{}}
    /\ u \in [Nics -> BOOLEAN]

(* Destroying the bond closes at most its slaves and changes no other nic. *)
ClosesSlaves ==
    /\ up' \in [Nics -> BOOLEAN]
    /\ \A n \in Nics : up'[n] # up[n] => n \in bondSlaves /\ ~up'[n]

(* An edit of the kernel that brings a nic down only by destroying the  *)
(* bond it was a slave of.                                               *)
KernelEdit ==
    /\ KernelState(exists', bondSlaves', up')
    /\ \A n \in Nics : up[n] /\ ~up'[n] => exists /\ ~exists' /\ n \in bondSlaves

Init ==
    /\ KernelState(exists, bondSlaves, up)
    /\ phase = "idle"
    /\ snap = FALSE

Begin ==
    /\ phase = "idle"
    /\ phase' = "open"
    /\ snap' = exists
    /\ UNCHANGED <<exists, bondSlaves, up>>

Work ==
    /\ phase = "open"
    /\ KernelEdit
    /\ UNCHANGED <<phase, snap>>

Commit ==
    /\ phase = "open"
    /\ phase' = "committed"
    /\ UNCHANGED <<exists, bondSlaves, up, snap>>

Revert ==
    /\ phase = "open"
    /\ phase' = "reverted"
    /\ \/ UNCHANGED <<exists, bondSlaves, up>>
       \/ ~exists' /\ bondSlaves' = {} /\ ClosesSlaves
    /\ ~snap => ~exists'
    /\ UNCHANGED snap

Fail ==
    /\ phase = "open"
    /\ phase' = "failed"
    /\ KernelEdit
    /\ UNCHANGED snap

Next == Begin \/ Work \/ Commit \/ Revert \/ Fail

Spec == Init /\ [][Next]_absVars
=============================================================================
