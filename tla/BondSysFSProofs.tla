--------------------------- MODULE BondSysFSProofs ---------------------------
(* Proofs about the sysfs bond transaction of BondSysFS. *)
EXTENDS BondSysFS, TLAPS

(* The strengthening of SlavesTracked that a step preserves.  While the  *)
(* body's del_slaves loop runs, _slaves and the kernel move together;    *)
(* while an add_slaves loop started by the body or by create runs, the   *)
(* kernel's slaves are among _slaves and the rest are still to be added. *)
TrackInv ==
    /\ pc \in {"new", "body", "del"} /\ kExists => slaves = kSlaves
    /\ pc = "add" /\ kExists =>
          /\ kSlaves \subseteq slaves
          /\ slaves \ kSlaves \subseteq todo

IInv == TypeOK /\ TrackInv

-----------------------------------------------------------------------------
(* BondAPI.__init__ starts the object in its type. *)
LEMMA TypeInit == Init => TypeOK
<1> SUFFICES ASSUME Init PROVE TypeOK
  OBVIOUS
<1>1. PICK requested \in SUBSET Nics, reqOpts \in Opts \cup {NoOpts} :
        /\ slaves = IF kExists THEN kSlaves ELSE requested
        /\ options = IF kExists THEN NoOpts ELSE reqOpts
  BY DEF Init
<1>2. kSlaves \in SUBSET Nics /\ kOpts \in Opts \cup {NoOpts}
  BY DEF Init
<1>3. slaves \in SUBSET Nics /\ options \in Opts \cup {NoOpts}
  BY <1>1, <1>2
<1>4. /\ kExists \in BOOLEAN /\ up \in [Nics -> BOOLEAN]
      /\ initExists = FALSE /\ pc = "new" /\ todo = {} /\ toAdd = {}
      /\ ops = 0 /\ snapSlaves = {}
  BY DEF Init
<1>5. pc \in PC /\ todo \in SUBSET Nics /\ toAdd \in SUBSET Nics
  BY <1>4 DEF PC
<1>6. ops \in 0..MaxOps
  <2>1. ops = 0
    BY <1>4
  <2>2. QED
    BY <2>1, MaxOpsAssumption
<1>7. snapSlaves \in SUBSET Nics /\ initExists \in BOOLEAN
  BY <1>4
<1>8. QED
  BY <1>2, <1>3, <1>4, <1>5, <1>6, <1>7 DEF TypeOK

(* Every step keeps TypeOK. *)
LEMMA TypeStep == TypeOK /\ [Next]_vars => TypeOK'
<1> SUFFICES ASSUME TypeOK, [Next]_vars PROVE TypeOK'
  OBVIOUS
<1>1. CASE Enter
  BY <1>1 DEF Enter, TypeOK, PC
<1>2. CASE Commit
  BY <1>2 DEF Commit, TypeOK, PC, Done
<1>3. CASE BodyRaises
  BY <1>3 DEF BodyRaises, TypeOK, PC
<1>4. CASE Create
  <2>1. ops' \in 0..MaxOps
    BY <1>4, MaxOpsAssumption DEF Create, BodyCall, TypeOK
  <2>2. pc' \in PC /\ todo' \in SUBSET Nics /\ kSlaves' \in SUBSET Nics
        /\ kExists' \in BOOLEAN
    BY <1>4 DEF Create, TypeOK, PC
  <2>3. QED
    BY <1>4, <2>1, <2>2 DEF Create, TypeOK
<1>5. CASE Destroy
  <2>1. ops' \in 0..MaxOps
    BY <1>5, MaxOpsAssumption DEF Destroy, BodyCall, TypeOK
  <2>2. pc' \in PC /\ kOpts' \in Opts \cup {NoOpts}
        /\ kSlaves' \in SUBSET Nics /\ kExists' \in BOOLEAN
        /\ up' \in [Nics -> BOOLEAN]
    BY <1>5 DEF Destroy, DestroyWrite, TypeOK, PC
  <2>3. QED
    BY <1>5, <2>1, <2>2 DEF Destroy, TypeOK
<1>6. CASE AddSlaves
  BY <1>6, MaxOpsAssumption DEF AddSlaves, BodyCall, TypeOK, PC
<1>7. CASE DelSlaves
  BY <1>7, MaxOpsAssumption DEF DelSlaves, BodyCall, TypeOK, PC
<1>8. CASE SetOptions
  BY <1>8, MaxOpsAssumption DEF SetOptions, BodyCall, TypeOK, PC
<1>9. ASSUME NEW s \in Nics, AddSlave(s) PROVE TypeOK'
  BY <1>9 DEF AddSlave, Raise, TypeOK, PC, Done
<1>10. ASSUME NEW s \in Nics, DelSlave(s) PROVE TypeOK'
  BY <1>10 DEF DelSlave, Raise, TypeOK, PC, Done
<1>11. CASE LoopDone
  BY <1>11 DEF LoopDone, TypeOK, PC, Done
<1>12. CASE RevertTransaction
  BY <1>12 DEF RevertTransaction, DestroyWrite, init_slaves, TypeOK, PC, Done
<1>13. CASE Finished \/ UNCHANGED vars
  BY <1>13 DEF Finished, vars, TypeOK
<1>14. QED
  BY <1>1, <1>2, <1>3, <1>4, <1>5, <1>6, <1>7, <1>8, <1>9, <1>10, <1>11,
     <1>12, <1>13 DEF Next

(* Every reachable state is in the type: the kernel's and the object's   *)
(* slave sets stay sets of nics, the loops' work sets stay sets of nics, *)
(* and the body makes at most MaxOps calls.                              *)
THEOREM TypeCorrect == Spec => []TypeOK
<1>1. QED
  BY TypeInit, TypeStep, PTL DEF Spec

-----------------------------------------------------------------------------
(* TrackInv holds initially: BondAPI.__init__ imports the kernel's       *)
(* slaves of an existing bond into _slaves.                              *)
LEMMA TrackInit == Init => TrackInv
  BY DEF Init, TrackInv

(* Every step preserves TrackInv.  The interesting steps are create,     *)
(* which starts its add_slaves loop with _slaves ahead of the kernel,    *)
(* the loop iterations, which move both sets together, and the return   *)
(* of a loop, where todo is empty.                                       *)
LEMMA TrackStep == IInv /\ [Next]_vars => TrackInv'
  <1> SUFFICES ASSUME TypeOK, TrackInv, [Next]_vars PROVE TrackInv'
    BY DEF IInv
  <1>1. CASE Enter
    BY <1>1 DEF Enter, TrackInv
  <1>2. CASE Commit \/ BodyRaises
    BY <1>2 DEF Commit, BodyRaises, TrackInv
  <1>3. CASE Create
    BY <1>3 DEF Create, BodyCall, TrackInv
  <1>4. CASE Destroy
    BY <1>4 DEF Destroy, DestroyWrite, BodyCall, TrackInv
  <1>5. CASE AddSlaves \/ DelSlaves
    BY <1>5 DEF AddSlaves, DelSlaves, BodyCall, TrackInv
  <1>6. CASE SetOptions
    BY <1>6 DEF SetOptions, BodyCall, TrackInv
  <1>7. ASSUME NEW s \in Nics, AddSlave(s) PROVE TrackInv'
    BY <1>7 DEF AddSlave, Raise, TrackInv, TypeOK
  <1>8. ASSUME NEW s \in Nics, DelSlave(s) PROVE TrackInv'
    BY <1>8 DEF DelSlave, Raise, TrackInv, TypeOK
  <1>9. CASE LoopDone
    BY <1>9 DEF LoopDone, TrackInv, TypeOK
  <1>10. CASE RevertTransaction
    BY <1>10 DEF RevertTransaction, DestroyWrite, TrackInv
  <1>11. CASE Finished \/ UNCHANGED vars
    BY <1>11 DEF Finished, vars, TrackInv
  <1>12. QED
    BY <1>1, <1>2, <1>3, <1>4, <1>5, <1>6, <1>7, <1>8, <1>9, <1>10, <1>11
       DEF Next

(* SlavesTracked holds in every reachable state, for every set of nics,  *)
(* every set of options and every bound on the body's calls.            *)
THEOREM SlavesTrackedHolds == Spec => []SlavesTracked
<1>1. Init => IInv
  BY TrackInit, TypeInit DEF IInv
<1>2. IInv /\ [Next]_vars => IInv'
  BY TrackStep, TypeStep DEF IInv
<1>3. IInv => SlavesTracked
  BY DEF IInv, TrackInv, SlavesTracked
<1>4. QED
  BY <1>1, <1>2, <1>3, PTL DEF Spec

-----------------------------------------------------------------------------
(* RevertInv strengthens NewBondRevertDestroys: the revert's slave loops *)
(* run only for a bond that existed at __enter__, so the only way to    *)
(* "reverted" for a new bond is through the destroy of                 *)
(* _revert_transaction, or with the bond already gone.                  *)
RevertInv ==
    /\ pc \in {"rv_del", "rv_add"} => initExists
    /\ NewBondRevertDestroys

LEMMA RevertInit == Init => RevertInv
  BY DEF Init, RevertInv, NewBondRevertDestroys

(* Every step preserves RevertInv: no step after __enter__ changes       *)
(* _init_exists, the loops leave the bond's existence alone, and the    *)
(* revert enters its loops only when _init_exists holds.                *)
LEMMA RevertStep == RevertInv /\ [Next]_vars => RevertInv'
  <1> SUFFICES ASSUME RevertInv, [Next]_vars PROVE RevertInv'
    OBVIOUS
  <1>1. CASE Enter
    BY <1>1 DEF Enter, RevertInv, NewBondRevertDestroys
  <1>2. CASE Commit \/ BodyRaises
    BY <1>2 DEF Commit, BodyRaises, RevertInv, NewBondRevertDestroys
  <1>3. CASE Create
    BY <1>3 DEF Create, BodyCall, RevertInv, NewBondRevertDestroys
  <1>4. CASE Destroy
    BY <1>4 DEF Destroy, DestroyWrite, BodyCall, RevertInv, NewBondRevertDestroys
  <1>5. CASE AddSlaves \/ DelSlaves
    BY <1>5 DEF AddSlaves, DelSlaves, BodyCall, RevertInv, NewBondRevertDestroys
  <1>6. CASE SetOptions
    BY <1>6 DEF SetOptions, BodyCall, RevertInv, NewBondRevertDestroys
  <1>7. ASSUME NEW s \in Nics, AddSlave(s) PROVE RevertInv'
    BY <1>7 DEF AddSlave, Raise, RevertInv, NewBondRevertDestroys
  <1>8. ASSUME NEW s \in Nics, DelSlave(s) PROVE RevertInv'
    BY <1>8 DEF DelSlave, Raise, RevertInv, NewBondRevertDestroys
  <1>9. CASE LoopDone
    BY <1>9 DEF LoopDone, RevertInv, NewBondRevertDestroys
  <1>10. CASE RevertTransaction
    <2>1. pc' \in {"rv_del", "rv_add"} => initExists'
      BY <1>10 DEF RevertTransaction, DestroyWrite
    <2>2. NewBondRevertDestroys'
      BY <1>10 DEF RevertTransaction, DestroyWrite, NewBondRevertDestroys
    <2>3. QED
      BY <2>1, <2>2 DEF RevertInv
  <1>11. CASE Finished \/ UNCHANGED vars
    BY <1>11 DEF Finished, vars, RevertInv, NewBondRevertDestroys
  <1>12. QED
    BY <1>1, <1>2, <1>3, <1>4, <1>5, <1>6, <1>7, <1>8, <1>9, <1>10, <1>11
       DEF Next

(* A transaction that created its bond and reverted without error leaves *)
(* no bond behind, for every set of nics and every bound on the body.    *)
THEOREM NewBondRevertDestroysHolds == Spec => []NewBondRevertDestroys
<1>1. Init => RevertInv
  BY RevertInit
<1>2. RevertInv /\ [Next]_vars => RevertInv'
  BY RevertStep
<1>3. RevertInv => NewBondRevertDestroys
  BY DEF RevertInv
<1>4. QED
  BY <1>1, <1>2, <1>3, PTL DEF Spec

-----------------------------------------------------------------------------
(* No step of a slave loop brings an interface down: the loops change up *)
(* only through _preserve_iface_state, which ORs the state read before   *)
(* iface.down into the one after it, and a loop's return leaves up alone. *)
KeepsUp == (pc \in SlaveLoops) => \A n \in Nics : up[n] => up'[n]

LEMMA KeepsUpStep == TypeOK /\ [Next]_vars => [KeepsUp]_vars
  <1> SUFFICES ASSUME TypeOK, [Next]_vars PROVE [KeepsUp]_vars
    OBVIOUS
  <1>1. ASSUME NEW s \in Nics, AddSlave(s) PROVE KeepsUp
    BY <1>1 DEF AddSlave, KeepsUp, TypeOK
  <1>2. ASSUME NEW s \in Nics, DelSlave(s) PROVE KeepsUp
    BY <1>2 DEF DelSlave, KeepsUp, TypeOK
  <1>3. CASE pc \notin SlaveLoops
    BY <1>3 DEF KeepsUp
  <1>4. CASE pc \in SlaveLoops /\ ~\E s \in Nics : AddSlave(s) \/ DelSlave(s)
    <2>1. UNCHANGED up
      BY <1>4 DEF Next, vars, SlaveLoops, Enter, Commit, BodyRaises, Create,
               BodyCall, Destroy, AddSlaves, DelSlaves, SetOptions, LoopDone,
               RevertTransaction, Finished, Done
    <2>2. QED
      BY <2>1 DEF KeepsUp
  <1>5. QED
    BY <1>1, <1>2, <1>3, <1>4

(* SlaveEditKeepsUp holds for every set of nics: no step of an           *)
(* add_slaves or del_slaves loop, whether its write succeeds or fails,    *)
(* leaves down an interface that was up before the step.                  *)
THEOREM SlaveEditKeepsUpHolds == Spec => SlaveEditKeepsUp
<1>1. TypeOK /\ [Next]_vars => [KeepsUp]_vars
  BY KeepsUpStep
<1>2. QED
  BY <1>1, TypeCorrect, PTL DEF Spec, SlaveEditKeepsUp, KeepsUp

-----------------------------------------------------------------------------
(* A bond the kernel does not have has no slaves: the kernel releases    *)
(* them when the bond is destroyed, and slaves are only written to an    *)
(* existing bond.                                                         *)
GoneEmpty == ~kExists => kSlaves = {}

LEMMA GoneEmptyInit == Init => GoneEmpty
  BY DEF Init, GoneEmpty

LEMMA GoneEmptyStep == GoneEmpty /\ [Next]_vars => GoneEmpty'
  <1> SUFFICES ASSUME GoneEmpty, [Next]_vars PROVE GoneEmpty'
    OBVIOUS
  <1>1. CASE Enter \/ Commit \/ BodyRaises \/ LoopDone \/ Finished \/ UNCHANGED vars
    BY <1>1 DEF Enter, Commit, BodyRaises, LoopDone, Finished, vars, GoneEmpty
  <1>2. CASE Create \/ Destroy \/ AddSlaves \/ DelSlaves \/ SetOptions
    BY <1>2 DEF Create, Destroy, DestroyWrite, AddSlaves, DelSlaves, SetOptions,
                BodyCall, GoneEmpty
  <1>3. ASSUME NEW s \in Nics, AddSlave(s) \/ DelSlave(s) PROVE GoneEmpty'
    BY <1>3 DEF AddSlave, DelSlave, GoneEmpty
  <1>4. CASE RevertTransaction
    BY <1>4 DEF RevertTransaction, DestroyWrite, GoneEmpty
  <1>5. QED
    BY <1>1, <1>2, <1>3, <1>4 DEF Next

(* What the refinement rests on. *)
RefInv == TypeOK /\ RevertInv /\ GoneEmpty

LEMMA RefInvHolds == Spec => []RefInv
<1>1. Init => RefInv
  BY TypeInit, RevertInit, GoneEmptyInit DEF RefInv
<1>2. RefInv /\ [Next]_vars => RefInv'
  BY TypeStep, RevertStep, GoneEmptyStep DEF RefInv
<1>3. QED
  BY <1>1, <1>2, PTL DEF Spec

(* The control points inside the transaction are all of phase "open". *)
LEMMA OpenPhase ==
    \A p \in {"body", "add", "del", "revert", "rv_del", "rv_add"} : Phase(p) = "open"
  BY DEF Phase

(* What a kernel state of BondTxn is, in the driver's terms. *)
LEMMA KernelStateIntro ==
    \A e \in BOOLEAN, s \in SUBSET Nics, u \in [Nics -> BOOLEAN] :
        (~e => s = {}) => BT!KernelState(e, s, u)
  BY DEF BT!KernelState

(* A step that keeps the types and GoneEmpty and takes no nic down is a  *)
(* kernel edit of BondTxn.                                                *)
LEMMA EditIntro ==
    ASSUME TypeOK', GoneEmpty', \A n \in Nics : up[n] => up'[n]
    PROVE  BT!KernelEdit
  BY KernelStateIntro DEF BT!KernelEdit, TypeOK, GoneEmpty

(* destroy() is a kernel edit of BondTxn: the bond goes, and the only    *)
(* nics it brings down are the slaves the kernel releases.               *)
LEMMA DestroyEdit ==
    ASSUME TypeOK, TypeOK', GoneEmpty', NEW a, NEW b, DestroyWrite(a, b)
    PROVE  BT!KernelEdit
<1>1. \A n \in Nics : up[n] /\ ~up'[n] => kExists /\ ~kExists' /\ n \in kSlaves
  BY DEF DestroyWrite, TypeOK
<1>. QED  BY <1>1, KernelStateIntro DEF BT!KernelEdit, TypeOK, GoneEmpty

(* A step between two control points inside the transaction that edits *)
(* the kernel without taking a nic down is a Work step of BondTxn.      *)
LEMMA OpenStep ==
    ASSUME pc \in {"body", "add", "del", "revert", "rv_del", "rv_add"},
           pc' \in {"body", "add", "del", "revert", "rv_del", "rv_add"},
           BT!KernelEdit, UNCHANGED initExists
    PROVE  [BT!Next]_(BT!absVars)
<1>1. Phase(pc) = "open" /\ Phase(pc') = "open"
  BY OpenPhase
<1>2. BT!Work
  BY <1>1 DEF BT!Work, Phase
<1>3. QED
  BY <1>2 DEF BT!Next

(* The initial states of the driver are initial states of BondTxn. *)
LEMMA RefInit == Init => BT!Init
  BY DEF Init, BT!Init, BT!KernelState, Phase

(* Every step of the driver is a step of BondTxn or leaves its state     *)
(* alone.  The steps inside the transaction are Work steps (Work allows *)
(* no change); the ends of the transaction are the matching steps.       *)
LEMMA RefStep == RefInv /\ [Next]_vars => [BT!Next]_(BT!absVars)
<1> SUFFICES ASSUME RefInv, [Next]_vars PROVE [BT!Next]_(BT!absVars)
  OBVIOUS
<1>0. TypeOK' /\ GoneEmpty'
  BY TypeStep, GoneEmptyStep DEF RefInv
<1> USE DEF RefInv, TypeOK, GoneEmpty
<1>1. CASE Enter
  BY <1>1, OpenPhase DEF Enter, BT!Next, BT!Begin, Phase
<1>2. CASE Commit
  BY <1>2, OpenPhase DEF Commit, BT!Next, BT!Commit, Phase
<1>3. CASE BodyRaises
  BY <1>3, OpenPhase DEF BodyRaises, BT!absVars
<1>4. CASE Create
  <2>1. pc = "body" /\ pc' \in {"body", "add", "revert"}
    BY <1>4 DEF Create, BodyCall
  <2>2. QED
    <3>1. BT!KernelEdit
      BY <1>0, <1>4, EditIntro DEF Create
    <3>2. QED
      BY <1>4, <2>1, <3>1, OpenStep DEF Create
<1>5. CASE Destroy
  <2>1. pc = "body" /\ pc' \in {"body", "revert"}
    BY <1>5 DEF Destroy, DestroyWrite, BodyCall
  <2>2. QED
    <3>1. BT!KernelEdit
      BY <1>0, <1>5, DestroyEdit DEF Destroy
    <3>2. QED
      BY <1>5, <2>1, <3>1, OpenStep DEF Destroy
<1>6. CASE AddSlaves \/ DelSlaves
  BY <1>6, OpenPhase DEF AddSlaves, DelSlaves, BodyCall, BT!absVars
<1>7. CASE SetOptions
  <2>1. pc = "body" /\ pc' \in {"body", "revert"}
    BY <1>7 DEF SetOptions, BodyCall
  <2>2. QED
    BY <1>7, <2>1, OpenPhase DEF SetOptions, BodyCall, BT!absVars
<1>8. ASSUME NEW s \in Nics, AddSlave(s) PROVE [BT!Next]_(BT!absVars)
  <2>1. CASE pc' = pc
    <3>1. BT!KernelEdit
      BY <1>0, <1>8, EditIntro DEF AddSlave
    <3>2. QED
      BY <1>8, <2>1, <3>1, OpenStep DEF AddSlave
  <2>2. CASE pc' # pc
    <3>1. pc' = Raise /\ UNCHANGED <<kSlaves, up, kExists>>
      BY <1>8, <2>2 DEF AddSlave
    <3>2. UNCHANGED initExists
      BY <1>8 DEF AddSlave
    <3>3. CASE pc = "add"
      <4>1. Phase(pc') = Phase(pc)
        BY <3>1, <3>3 DEF Raise, Phase
      <4>2. QED
        BY <3>1, <3>2, <4>1 DEF BT!absVars
    <3>4. CASE pc = "rv_add"
      <4>1. Phase(pc) = "open" /\ Phase(pc') = "failed"
        BY <3>1, <3>4 DEF Raise, Phase
      <4>2. BT!KernelEdit
        BY <1>0, <3>1, EditIntro
      <4>3. QED
        BY <3>2, <4>1, <4>2 DEF BT!Next, BT!Fail
    <3>5. QED
      BY <1>8, <3>3, <3>4 DEF AddSlave
  <2>3. QED
    BY <2>1, <2>2
<1>9. ASSUME NEW s \in Nics, DelSlave(s) PROVE [BT!Next]_(BT!absVars)
  <2>1. /\ kSlaves' \subseteq Nics /\ (kExists' => kExists) /\ kExists' = kExists
        /\ up' \in [Nics -> BOOLEAN] /\ \A n \in Nics : up[n] => up'[n]
    BY <1>9 DEF DelSlave
  <2>2. kExists
    => /\ kSlaves' \in SUBSET Nics
    BY <2>1
  <2>3. ~kExists => kSlaves' = {}
    BY <1>9 DEF DelSlave
  <2>4. BT!KernelEdit
    BY <2>1, <2>2, <2>3 DEF BT!KernelEdit, BT!KernelState
  <2>5. pc' \in {pc, Raise} /\ pc \in {"del", "rv_del"} /\ UNCHANGED initExists
    BY <1>9 DEF DelSlave
  <2>6. QED
    BY <2>4, <2>5, OpenPhase DEF Raise, Phase, BT!Next, BT!Work, BT!Fail
<1>10. CASE LoopDone
  <2>1. CASE pc \in {"add", "del", "rv_del"}
    BY <1>10, <2>1, OpenPhase DEF LoopDone, BT!absVars
  <2>2. CASE pc = "rv_add"
    <3>1. initExists
      BY <2>2 DEF RevertInv
    <3>2. QED
      BY <1>10, <2>2, <3>1 DEF LoopDone, Phase, BT!Next, BT!Revert
  <2>3. QED
    BY <1>10, <2>1, <2>2 DEF LoopDone
<1>11. CASE RevertTransaction
  <2>1. CASE kExists /\ ~initExists /\ pc' = "reverted"
    \* the destroy branch: the bond goes and its slaves are closed
    <3>1. /\ ~kExists' /\ kSlaves' = {}
          /\ up' = [n \in Nics |-> IF n \in kSlaves THEN FALSE ELSE up[n]]
          /\ UNCHANGED initExists
      BY <1>11, <2>1 DEF RevertTransaction, DestroyWrite
    <3>2. BT!ClosesSlaves
      BY <3>1 DEF BT!ClosesSlaves
    <3>3. Phase(pc) = "open" /\ Phase(pc') = "reverted"
      BY <1>11, <2>1 DEF RevertTransaction, Phase
    <3>. QED  BY <2>1, <3>1, <3>2, <3>3 DEF BT!Next, BT!Revert
  <2>2. CASE ~(kExists /\ ~initExists /\ pc' = "reverted")
    BY <1>11, <2>2, OpenPhase DEF RevertTransaction, DestroyWrite, Phase, BT!Next,
                                BT!Revert, BT!Fail, BT!Work, BT!KernelEdit,
                                BT!KernelState, BT!absVars
  <2>. QED  BY <2>1, <2>2
<1>12. CASE Finished \/ UNCHANGED vars
  BY <1>12 DEF Finished, vars, BT!absVars
<1>13. QED
  BY <1>1, <1>2, <1>3, <1>4, <1>5, <1>6, <1>7, <1>8, <1>9, <1>10, <1>11, <1>12
     DEF Next

(* The sysfs driver implements BondTxn, for every set of nics and option *)
(* mappings and every bound on the body's calls: no step takes a nic     *)
(* down except a destroy, which closes only the bond's slaves, and a     *)
(* reverted new bond is gone from the kernel.                            *)
THEOREM ImplementsBondTxnHolds == Spec => ImplementsBondTxn
<1>1. Init => BT!Init
  BY RefInit
<1>2. RefInv /\ [Next]_vars => [BT!Next]_(BT!absVars)
  BY RefStep
<1>3. QED
  BY <1>1, <1>2, RefInvHolds, PTL DEF Spec, ImplementsBondTxn, BT!Spec

=============================================================================
