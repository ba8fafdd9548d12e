------------------------------ MODULE BondSysFS ------------------------------
(***************************************************************************)
(* The sysfs bond driver of lib/vdsm/network/link/bond/sysfs_driver.py:   *)
(* one BondSysFS object used as a transaction (`with Bond(...) as b:`).    *)
(* The kernel side is the bond's existence, its slave set, its options    *)
(* and the administrative up/down state of every nic; the Python side is  *)
(* the object's _slaves set, _options and the snapshot taken by           *)
(* __enter__.  The body of the `with` block is the caller's: it calls      *)
(* create, destroy, add_slaves, del_slaves and set_options in any order,  *)
(* and may raise at any point; every sysfs write may fail.                 *)
(***************************************************************************)
EXTENDS Naturals

CONSTANTS
    Nics,       \* interfaces that may be enslaved
    Opts,       \* option mappings (abstracted to model values)
    MaxOps      \* bound on the calls the body of the `with` block makes

ASSUME MaxOpsAssumption == MaxOps \in Nat

VARIABLES
    kExists,    \* /sys/class/net/<bond>/bonding exists
    kSlaves,    \* slaves the kernel reports for the bond
    kOpts,      \* options the kernel holds for the bond
    up,         \* administrative state of each nic
    slaves,     \* self._slaves
    options,    \* self._options
    initExists, \* self._init_exists
    pc,         \* where the control flow of the transaction is
    todo,       \* slaves the running add_slaves / del_slaves loop has left
    toAdd,      \* slaves2add of _revert_transaction, for its second loop
    ops,        \* calls the body made so far
    snapSlaves  \* auxiliary: the kernel slave set when __enter__ ran

vars == <<kExists, kSlaves, kOpts, up, slaves, options, initExists,
          pc, todo, toAdd, ops, snapSlaves>>

NoOpts == "none"   \* self._options = None

(* Control points.  "add"/"del" are the loops of add_slaves/del_slaves   *)
(* called from the body (directly or through create), "rv_del"/"rv_add"  *)
(* the same loops called from _revert_transaction.                        *)
Done == {"committed", "reverted", "revert_failed"}
PC == {"new", "body", "add", "del", "revert", "rv_del", "rv_add"} \cup Done

(* __enter__ binds self._init_slaves to the very set object self._slaves *)
(* (no copy), and add_slaves/del_slaves mutate that object in place: the *)
(* snapshot therefore always reads the current slave set.                *)
init_slaves == slaves

TypeOK ==
    /\ kExists \in BOOLEAN
    /\ kSlaves \in SUBSET Nics
    /\ kOpts \in Opts \cup {NoOpts}
    /\ up \in [Nics -> BOOLEAN]
    /\ slaves \in SUBSET Nics
    /\ options \in Opts \cup {NoOpts}
    /\ initExists \in BOOLEAN
    /\ pc \in PC
    /\ todo \in SUBSET Nics
    /\ toAdd \in SUBSET Nics
    /\ ops \in 0..MaxOps
    /\ snapSlaves \in SUBSET Nics

-----------------------------------------------------------------------------
(* Bond(name, slaves, options): BondAPI.__init__ keeps the requested      *)
(* slaves unless the bond exists, in which case _import_existing reads    *)
(* the kernel's slaves and resets the options to None.                    *)
Init ==
    /\ kExists \in BOOLEAN
    /\ kSlaves \in IF kExists THEN SUBSET Nics ELSE {{}}
    /\ kOpts \in IF kExists THEN Opts ELSE {NoOpts}
    /\ up \in [Nics -> BOOLEAN]
    /\ \E requested \in SUBSET Nics, reqOpts \in Opts \cup {NoOpts} :
          /\ slaves = IF kExists THEN kSlaves ELSE requested
          /\ options = IF kExists THEN NoOpts ELSE reqOpts
    /\ initExists = FALSE
    /\ pc = "new"
    /\ todo = {}
    /\ toAdd = {}
    /\ ops = 0
    /\ snapSlaves = {}

(* __enter__: snapshot the existence of the bond (and, as auxiliary      *)
(* state, the kernel's slave set, for the properties).                    *)
Enter ==
    /\ pc = "new"
    /\ initExists' = kExists
    /\ snapSlaves' = kSlaves
    /\ pc' = "body"
    /\ UNCHANGED <<kExists, kSlaves, kOpts, up, slaves, options, todo,
                   toAdd, ops>>

(* A call made by the body of the `with` block. *)
BodyCall ==
    /\ pc = "body"
    /\ ops < MaxOps
    /\ ops' = ops + 1

(* An exception leaving a loop of the body goes to __exit__, which       *)
(* reverts; one leaving a loop of the revert propagates to the caller.   *)
Raise == IF pc \in {"add", "del"} THEN "revert" ELSE "revert_failed"

(* The body returns: __exit__ with no exception does nothing. *)
Commit ==
    /\ pc = "body"
    /\ pc' = "committed"
    /\ UNCHANGED <<kExists, kSlaves, kOpts, up, slaves, options, initExists,
                   todo, toAdd, ops, snapSlaves>>

(* The body raises an exception of its own. *)
BodyRaises ==
    /\ pc = "body"
    /\ pc' = "revert"
    /\ UNCHANGED <<kExists, kSlaves, kOpts, up, slaves, options, initExists,
                   todo, toAdd, ops, snapSlaves>>

(* create(): write "+bond" to bonding_masters, then add_slaves(_slaves) *)
(* when _slaves is not empty.  The write fails when the bond exists, or  *)
(* for a reason of the kernel's own.                                     *)
Create ==
    /\ BodyCall
    /\ \/ /\ ~kExists
          /\ kExists' = TRUE
          /\ kSlaves' = {}
          /\ IF slaves = {} THEN pc' = "body" /\ todo' = {}
                            ELSE pc' = "add" /\ todo' = slaves
       \/ /\ pc' = "revert"
          /\ UNCHANGED <<kExists, kSlaves, todo>>
    /\ UNCHANGED <<kOpts, up, slaves, options, initExists, toAdd, snapSlaves>>

(* destroy(): write "-bond" to bonding_masters; the kernel releases the  *)
(* slaves and closes each one it releases.  No _preserve_iface_state     *)
(* wraps the write.  Called by the body, or by the revert of a new bond. *)
DestroyWrite(onOk, onFail) ==
    \/ /\ kExists
       /\ kExists' = FALSE
       /\ kSlaves' = {}
       /\ kOpts' = NoOpts
       /\ up' = [n \in Nics |-> IF n \in kSlaves THEN FALSE ELSE up[n]]
       /\ pc' = onOk
    \/ /\ pc' = onFail
       /\ UNCHANGED <<kExists, kSlaves, kOpts, up>>

Destroy ==
    /\ BodyCall
    /\ DestroyWrite("body", "revert")
    /\ UNCHANGED <<slaves, options, initExists, todo, toAdd, snapSlaves>>

(* add_slaves(S) / del_slaves(S) called by the body: start the loop. *)
AddSlaves ==
    /\ BodyCall
    /\ \E S \in SUBSET Nics : todo' = S
    /\ pc' = "add"
    /\ UNCHANGED <<kExists, kSlaves, kOpts, up, slaves, options, initExists,
                   toAdd, snapSlaves>>

DelSlaves ==
    /\ BodyCall
    /\ \E S \in SUBSET Nics : todo' = S
    /\ pc' = "del"
    /\ UNCHANGED <<kExists, kSlaves, kOpts, up, slaves, options, initExists,
                   toAdd, snapSlaves>>

(* set_options(o): _options is set first, then sysfs_options writes the  *)
(* options one by one, so a failure may leave them written or not.       *)
SetOptions ==
    /\ BodyCall
    /\ \E o \in Opts :
          /\ options' = o
          /\ \/ /\ kExists
                /\ kOpts' = o
                /\ pc' = "body"
             \/ /\ kOpts' \in {kOpts, o}
                /\ pc' = "revert"
    /\ UNCHANGED <<kExists, kSlaves, up, slaves, initExists, todo, toAdd,
                   snapSlaves>>

(* Mutant: _preserve_iface_state reads is_up after iface.down. *)
AddSlaveLateRead(s) ==
    /\ pc \in {"add", "rv_add"}
    /\ s \in todo
    /\ LET wasUp == FALSE IN
       \/ /\ kExists
          /\ s \notin kSlaves
          /\ kSlaves' = kSlaves \cup {s}
          /\ slaves' = slaves \cup {s}
          /\ todo' = todo \ {s}
          /\ \E after \in BOOLEAN : up' = [up EXCEPT ![s] = after \/ wasUp]
          /\ UNCHANGED pc
       \/ /\ pc' = Raise
          /\ up' = [up EXCEPT ![s] = wasUp]
          /\ UNCHANGED <<kSlaves, slaves, todo>>
    /\ UNCHANGED <<kExists, kOpts, options, initExists, toAdd, ops,
                   snapSlaves>>

(* Mutant: no finally clause, so a failed write leaves the nic down. *)
AddSlaveNoFinally(s) ==
    /\ pc \in {"add", "rv_add"}
    /\ s \in todo
    /\ LET wasUp == up[s] IN
       \/ /\ kExists
          /\ s \notin kSlaves
          /\ kSlaves' = kSlaves \cup {s}
          /\ slaves' = slaves \cup {s}
          /\ todo' = todo \ {s}
          /\ \E after \in BOOLEAN : up' = [up EXCEPT ![s] = after \/ wasUp]
          /\ UNCHANGED pc
       \/ /\ pc' = Raise
          /\ up' = [up EXCEPT ![s] = FALSE]
          /\ UNCHANGED <<kSlaves, slaves, todo>>
    /\ UNCHANGED <<kExists, kOpts, options, initExists, toAdd, ops,
                   snapSlaves>>

(* One iteration of the add_slaves loop for slave s: remember whether s  *)
(* was up, bring it down, write "+s" to the bond's slaves file (it fails *)
(* when the bond is missing or s is already a slave, or for the kernel's *)
(* own reasons), bring s back up if it was up and is now down, and on    *)
(* success add s to _slaves.  Enslaving leaves s up or down, as the      *)
(* kernel decides.                                                        *)
AddSlave(s) ==
    /\ pc \in {"add", "rv_add"}
    /\ s \in todo
    /\ LET wasUp == up[s] IN
       \/ /\ kExists
          /\ s \notin kSlaves
          /\ kSlaves' = kSlaves \cup {s}
          /\ slaves' = slaves \cup {s}
          /\ todo' = todo \ {s}
          /\ \E after \in BOOLEAN : up' = [up EXCEPT ![s] = after \/ wasUp]
          /\ UNCHANGED pc
       \/ /\ pc' = Raise
          /\ UNCHANGED <<kSlaves, slaves, todo, up>>
    /\ UNCHANGED <<kExists, kOpts, options, initExists, toAdd, ops,
                   snapSlaves>>

(* Mutant: del_slaves forgets _slaves.remove(slave). *)
DelSlaveNoRemove(s) ==
    /\ pc \in {"del", "rv_del"}
    /\ s \in todo
    /\ LET wasUp == up[s] IN
       \/ /\ kExists
          /\ s \in kSlaves
          /\ kSlaves' = kSlaves \ {s}
          /\ \E after \in BOOLEAN : up' = [up EXCEPT ![s] = after \/ wasUp]
          /\ todo' = todo \ {s}
          /\ UNCHANGED <<pc, slaves>>
       \/ /\ pc' = Raise
          /\ UNCHANGED <<kSlaves, slaves, todo, up>>
    /\ UNCHANGED <<kExists, kOpts, options, initExists, toAdd, ops,
                   snapSlaves>>

(* One iteration of the del_slaves loop: as above with "-s" (it fails    *)
(* when s is not a slave); then _slaves.remove(s), which raises KeyError *)
(* after the kernel has released s when s is not in _slaves.             *)
DelSlave(s) ==
    /\ pc \in {"del", "rv_del"}
    /\ s \in todo
    /\ LET wasUp == up[s] IN
       \/ /\ kExists
          /\ s \in kSlaves
          /\ kSlaves' = kSlaves \ {s}
          /\ \E after \in BOOLEAN : up' = [up EXCEPT ![s] = after \/ wasUp]
          /\ IF s \in slaves
               THEN /\ slaves' = slaves \ {s}
                    /\ todo' = todo \ {s}
                    /\ UNCHANGED pc
               ELSE /\ pc' = Raise
                    /\ UNCHANGED <<slaves, todo>>
       \/ /\ pc' = Raise
          /\ UNCHANGED <<kSlaves, slaves, todo, up>>
    /\ UNCHANGED <<kExists, kOpts, options, initExists, toAdd, ops,
                   snapSlaves>>

(* A loop has run out of slaves: return to its caller.  The revert's    *)
(* del_slaves is followed by add_slaves(slaves2add).                     *)
LoopDone ==
    /\ pc \in {"add", "del", "rv_del", "rv_add"}
    /\ todo = {}
    /\ CASE pc \in {"add", "del"} -> pc' = "body" /\ todo' = {}
         [] pc = "rv_del"         -> pc' = "rv_add" /\ todo' = toAdd
         [] pc = "rv_add"         -> pc' = "reverted" /\ todo' = {}
    /\ UNCHANGED <<kExists, kSlaves, kOpts, up, slaves, options, initExists,
                   toAdd, ops, snapSlaves>>

(* Mutant: the revert treats every existing bond as one to edit back, *)
(* without the `if not self._init_exists: self.destroy()` branch.       *)
RevertTransactionNoDestroy ==
    /\ pc = "revert"
    /\ \/ /\ ~kExists
          /\ pc' = "reverted"
          /\ UNCHANGED <<kExists, kSlaves, kOpts, up, todo, toAdd>>
       \/ /\ kExists
          /\ todo' = slaves \ init_slaves
          /\ toAdd' = init_slaves \ slaves
          /\ pc' = "rv_del"
          /\ UNCHANGED <<kExists, kSlaves, kOpts, up>>
    /\ UNCHANGED <<slaves, options, initExists, ops, snapSlaves>>

(* _revert_transaction, called by __exit__ on an exception: nothing when *)
(* the bond is gone; destroy a bond that did not exist before; otherwise *)
(* del_slaves(_slaves - _init_slaves) then add_slaves(_init_slaves -     *)
(* _slaves).  Options are not reverted.                                   *)
RevertTransaction ==
    /\ pc = "revert"
    /\ \/ /\ ~kExists
          /\ pc' = "reverted"
          /\ UNCHANGED <<kExists, kSlaves, kOpts, up, todo, toAdd>>
       \/ /\ kExists
          /\ ~initExists
          /\ DestroyWrite("reverted", "revert_failed")
          /\ UNCHANGED <<todo, toAdd>>
       \/ /\ kExists
          /\ initExists
          /\ todo' = slaves \ init_slaves
          /\ toAdd' = init_slaves \ slaves
          /\ pc' = "rv_del"
          /\ UNCHANGED <<kExists, kSlaves, kOpts, up>>
    /\ UNCHANGED <<slaves, options, initExists, ops, snapSlaves>>

(* The transaction has ended; nothing more happens. *)
Finished ==
    /\ pc \in Done
    /\ UNCHANGED vars

Next ==
    \/ Enter \/ Commit \/ BodyRaises
    \/ Create \/ Destroy \/ AddSlaves \/ DelSlaves \/ SetOptions
    \/ \E s \in Nics : AddSlave(s) \/ DelSlave(s)
    \/ LoopDone \/ RevertTransaction \/ Finished

Spec == Init /\ [][Next]_vars

(* The phase of BondTxn a control point belongs to. *)
Phase(p) ==
    CASE p = "new" -> "idle"
      [] p = "committed" -> "committed"
      [] p = "reverted" -> "reverted"
      [] p = "revert_failed" -> "failed"
      [] OTHER -> "open"

BT == INSTANCE BondTxn WITH exists <- kExists, bondSlaves <- kSlaves,
                            phase <- Phase(pc), snap <- initExists

-----------------------------------------------------------------------------
(* Whenever control is back in the body of the `with` block (between two *)
(* of the caller's calls) and the bond exists, the object's _slaves is   *)
(* exactly the kernel's slave set: create's add_slaves loop, the body's  *)
(* add_slaves/del_slaves loops and destroy all keep the two in step, so  *)
(* the set differences _revert_transaction computes from _slaves are     *)
(* differences of the real slave sets.                                   *)
SlavesTracked == pc = "body" /\ kExists => slaves = kSlaves

(* A transaction on a bond that did not exist at __enter__ and that was  *)
(* reverted without error leaves no bond behind, whatever the body had   *)
(* done (created it, enslaved some nics, failed half way through         *)
(* create's add_slaves loop, destroyed and re-created it).               *)
NewBondRevertDestroys == pc = "reverted" /\ ~initExists => ~kExists

(* Spec 4.3: adding or removing a slave never leaves an interface down   *)
(* that was up before the step, whether the write succeeds or fails:     *)
(* _preserve_iface_state reads the state before iface.down and brings    *)
(* the interface back up in its finally clause.  destroy() is not        *)
(* wrapped, and is not a slave edit: it closes the slaves it releases.   *)
SlaveLoops == {"add", "del", "rv_add", "rv_del"}

SlaveEditKeepsUp == [][(pc \in SlaveLoops) => \A n \in Nics : up[n] => up'[n]]_vars

(* The driver implements BondTxn: whatever the body does and whichever   *)
(* sysfs write fails, the kernel goes through the steps the abstract     *)
(* transaction allows (no nic taken down but the slaves a destroy       *)
(* releases, a new bond reverted to nothing, no kernel change at commit  *)
(* or after the end).                                                     *)
ImplementsBondTxn == BT!Spec

(* The spec (section 8) and the comment of _revert_transaction: a failed *)
(* transaction on a bond that existed at __enter__ restores its slave    *)
(* set, removing the slaves the body added and re-adding the ones it     *)
(* removed.                                                              *)
ExistingBondRestored ==
    pc = "reverted" /\ initExists /\ kExists => kSlaves = snapSlaves

=============================================================================
