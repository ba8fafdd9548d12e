--------------------------- MODULE RecoveryProofs ---------------------------
(* Proofs about the VM recovery files of Recovery. *)
EXTENDS Recovery, TLAPS

(* The domains vdsm has dealt with: in vmContainer, or a loose domain    *)
(* whose destroy failed.                                                  *)
Accounted(v) == v \in container \/ v \in killFailed

(* The strengthening of NoLooseDomain that a step preserves.  During     *)
(* stage 1 the domains still pending are among those listed at restart,  *)
(* and every listed domain stage 1 has handled is accounted for; from    *)
(* stage 2 on every listed domain still running is.                      *)
LooseInv ==
    /\ proc = "stage1" =>
          /\ pending \subseteq atRestart
          /\ \A v \in atRestart \ pending : domain[v] => Accounted(v)
    /\ proc # "stage1" /\ crashes > 0 =>
          \A v \in atRestart : domain[v] => Accounted(v)

IInv == TypeOK /\ NoResurrection /\ LooseInv

SaverRec == [pc : {"idle", "collected", "raised"}, vm : VMs, data : 0..MaxVer + 1]
-----------------------------------------------------------------------------
(* A thread outside save is in the saver record type. *)
LEMMA IdleType == Idle \in SaverRec
<1>1. (CHOOSE v \in VMs : TRUE) \in VMs
  BY BoundsAssumption
<1>2. 0 \in 0..MaxVer + 1
  BY BoundsAssumption
<1>3. QED
  BY <1>1, <1>2 DEF Idle, SaverRec

(* vdsm starts with no VM, no file and no thread inside save. *)
LEMMA TypeInit == Init => TypeOK
<1> SUFFICES ASSUME Init PROVE TypeOK
  OBVIOUS
<1>1. saver \in [Savers -> SaverRec]
  BY IdleType DEF Init
<1>2. 1 \in 0..MaxVer + 1 /\ 0 \in 0..MaxVer + 1 /\ 0 \in 0..MaxCrashes
  BY BoundsAssumption
<1>3. QED
  BY <1>1, <1>2 DEF Init, TypeOK, SaverRec

(* Every step keeps TypeOK. *)
LEMMA TypeStep == TypeOK /\ [Next]_vars => TypeOK'
<1> SUFFICES ASSUME TypeOK, [Next]_vars PROVE TypeOK'
  OBVIOUS
<1> USE DEF TypeOK
<1>1. ASSUME NEW v \in VMs, CreateVm(v) PROVE TypeOK'
  BY <1>1 DEF CreateVm
<1>2. ASSUME NEW v \in VMs, ChangeState(v) PROVE TypeOK'
  BY <1>2, BoundsAssumption DEF ChangeState
<1>3. ASSUME NEW v \in VMs, DestroyDomain(v) PROVE TypeOK'
  BY <1>3 DEF DestroyDomain
<1>4. ASSUME NEW v \in VMs, Cleanup(v) PROVE TypeOK'
  BY <1>4, BoundsAssumption DEF Cleanup
<1>5. ASSUME NEW t \in Savers, NEW v \in VMs, SaveCollect(t, v) PROVE TypeOK'
  BY <1>5 DEF SaveCollect, Collect
<1>6. ASSUME NEW t \in Savers, SaveLocked(t) PROVE TypeOK'
  <2>1. saver[t] \in SaverRec
    BY DEF SaverRec
  <2>2. file' \in [VMs -> 0..MaxVer + 1]
    BY <1>6, <2>1 DEF SaveLocked, Dump, SaverRec
  <2>3. saver' \in [Savers -> SaverRec]
    BY <1>6, <2>1, IdleType DEF SaveLocked, SaverRec
  <2>4. QED
    BY <1>6, <2>2, <2>3 DEF SaveLocked, SaverRec
<1>7. ASSUME NEW t \in Savers, SaveRaised(t) PROVE TypeOK'
  BY <1>7, IdleType DEF SaveRaised, SaverRec
<1>8. CASE Crash
  <2>1. saver' \in [Savers -> SaverRec]
    BY <1>8, IdleType DEF Crash
  <2>2. QED
    BY <1>8, <2>1, BoundsAssumption DEF Crash, SaverRec
<1>9. ASSUME NEW v \in VMs, RecoverDomain(v) PROVE TypeOK'
  BY <1>9 DEF RecoverDomain, Load
<1>10. ASSUME NEW v \in VMs, RecoverFile(v) PROVE TypeOK'
  BY <1>10 DEF RecoverFile, Load
<1>11. CASE StartStage2
  BY <1>11 DEF StartStage2
<1>12. CASE CleanVmFiles
  BY <1>12, BoundsAssumption DEF CleanVmFiles
<1>13. CASE RecoveryDone
  BY <1>13 DEF RecoveryDone
<1>14. CASE UNCHANGED vars
  BY <1>14 DEF vars
<1>15. QED
  BY <1>1, <1>2, <1>3, <1>4, <1>5, <1>6, <1>7, <1>8, <1>9, <1>10, <1>11,
     <1>12, <1>13, <1>14 DEF Next

(* The recovery state stays in its type. *)
THEOREM TypeCorrect == Spec => []TypeOK
BY TypeInit, TypeStep, PTL DEF Spec

-----------------------------------------------------------------------------
(* Before any crash the restart conjuncts hold vacuously. *)
LEMMA IInvInit == Init => IInv
<1> SUFFICES ASSUME Init PROVE IInv
  OBVIOUS
<1>1. TypeOK
  BY TypeInit
<1>2. NoResurrection
  BY DEF Init, NoResurrection
<1>3. LooseInv
  BY DEF Init, LooseInv
<1>4. QED
  BY <1>1, <1>2, <1>3 DEF IInv

(* A step that leaves the domains, vmContainer, the failed kills and the  *)
(* recovery's progress alone keeps LooseInv.                               *)
LEMMA LooseFrame ==
    ASSUME LooseInv,
           UNCHANGED <<domain, container, killFailed, proc, pending, crashes, atRestart>>
    PROVE  LooseInv'
BY DEF LooseInv, Accounted

(* A step that leaves the files and the paths alone keeps NoResurrection. *)
LEMMA ResurrectionFrame ==
    ASSUME NoResurrection, UNCHANGED <<file, path>>
    PROVE  NoResurrection'
BY DEF NoResurrection

(* Every step keeps IInv. *)
LEMMA IInvStep == IInv /\ [Next]_vars => IInv'
<1> SUFFICES ASSUME IInv, [Next]_vars PROVE IInv'
  OBVIOUS
<1>0. TypeOK /\ NoResurrection /\ LooseInv /\ TypeOK'
  BY TypeStep DEF IInv
<1> SUFFICES NoResurrection' /\ LooseInv'
  BY <1>0 DEF IInv
<1>1. ASSUME NEW v \in VMs, CreateVm(v) PROVE NoResurrection' /\ LooseInv'
  <2>1. NoResurrection'
    BY <1>0, <1>1 DEF CreateVm, NoResurrection, TypeOK
  <2>2. LooseInv'
    BY <1>0, <1>1 DEF CreateVm, LooseInv, Accounted, TypeOK
  <2>3. QED
    BY <2>1, <2>2
<1>2. ASSUME NEW v \in VMs, ChangeState(v) PROVE NoResurrection' /\ LooseInv'
  BY <1>0, <1>2, LooseFrame, ResurrectionFrame DEF ChangeState
<1>3. ASSUME NEW v \in VMs, DestroyDomain(v) PROVE NoResurrection' /\ LooseInv'
  <2>1. NoResurrection'
    BY <1>0, <1>3, ResurrectionFrame DEF DestroyDomain
  <2>2. LooseInv'
    BY <1>0, <1>3 DEF DestroyDomain, LooseInv, Accounted, TypeOK
  <2>3. QED
    BY <2>1, <2>2
<1>4. ASSUME NEW v \in VMs, Cleanup(v) PROVE NoResurrection' /\ LooseInv'
  <2>1. NoResurrection'
    BY <1>0, <1>4 DEF Cleanup, NoResurrection, TypeOK
  <2>2. QED
    BY <1>0, <1>4, <2>1, LooseFrame DEF Cleanup
<1>5. ASSUME NEW t \in Savers, NEW v \in VMs, SaveCollect(t, v)
      PROVE NoResurrection' /\ LooseInv'
  BY <1>0, <1>5, LooseFrame, ResurrectionFrame DEF SaveCollect
<1>6. ASSUME NEW t \in Savers, SaveLocked(t) PROVE NoResurrection' /\ LooseInv'
  <2>1. NoResurrection'
    <3>1. saver[t].vm \in VMs
      BY <1>0 DEF TypeOK
    <3>2. CASE path[saver[t].vm]
      BY <1>0, <1>6, <3>1, <3>2 DEF SaveLocked, Dump, NoResurrection, TypeOK
    <3>3. CASE ~path[saver[t].vm]
      BY <1>0, <1>6, <3>3, ResurrectionFrame DEF SaveLocked
    <3>4. QED
      BY <3>2, <3>3
  <2>2. QED
    BY <1>0, <1>6, <2>1, LooseFrame DEF SaveLocked
<1>7. ASSUME NEW t \in Savers, SaveRaised(t) PROVE NoResurrection' /\ LooseInv'
  BY <1>0, <1>7, LooseFrame, ResurrectionFrame DEF SaveRaised
<1>8. CASE Crash
  <2>1. NoResurrection'
    BY <1>8 DEF Crash, NoResurrection
  <2>2. LooseInv'
    BY <1>8 DEF Crash, LooseInv
  <2>3. QED
    BY <2>1, <2>2
<1>9. ASSUME NEW v \in VMs, RecoverDomain(v) PROVE NoResurrection' /\ LooseInv'
  <2>1. NoResurrection'
    BY <1>0, <1>9, ResurrectionFrame DEF RecoverDomain
  <2>2. PICK ok \in BOOLEAN, killed \in BOOLEAN :
          /\ Load(v, ok)
          /\ domain' = IF ok THEN domain ELSE [domain EXCEPT ![v] = ~killed]
          /\ killFailed' = IF ok \/ killed THEN killFailed ELSE killFailed \cup {v}
    BY <1>9 DEF RecoverDomain
  <2>3. /\ proc = "stage1" /\ proc' = "stage1" /\ v \in pending
        /\ pending' = pending \ {v} /\ atRestart' = atRestart
    BY <1>9 DEF RecoverDomain
  <2>4. container \subseteq container' /\ killFailed \subseteq killFailed'
    BY <2>2 DEF Load
  <2>5. domain'[v] => Accounted(v)'
    BY <1>0, <2>2 DEF Load, Accounted, TypeOK
  <2>6. \A w \in VMs \ {v} : domain'[w] = domain[w]
    BY <1>0, <2>2 DEF TypeOK
  <2>7. pending' \subseteq atRestart'
    BY <1>0, <2>3 DEF LooseInv
  <2>8. \A w \in atRestart' \ pending' : domain'[w] => Accounted(w)'
    BY <1>0, <2>3, <2>4, <2>5, <2>6 DEF LooseInv, Accounted, TypeOK
  <2>9. QED
    BY <2>1, <2>3, <2>7, <2>8 DEF LooseInv
<1>10. ASSUME NEW v \in VMs, RecoverFile(v) PROVE NoResurrection' /\ LooseInv'
  <2>1. NoResurrection'
    BY <1>0, <1>10, ResurrectionFrame DEF RecoverFile
  <2>2. container \subseteq container'
    BY <1>10 DEF RecoverFile, Load
  <2>3. QED
    BY <1>0, <1>10, <2>1, <2>2 DEF RecoverFile, LooseInv, Accounted
<1>11. CASE StartStage2
  BY <1>0, <1>11, ResurrectionFrame DEF StartStage2, LooseInv, Accounted
<1>12. CASE CleanVmFiles
  <2>1. NoResurrection'
    BY <1>0, <1>12 DEF CleanVmFiles, NoResurrection, TypeOK
  <2>2. QED
    BY <1>0, <1>12, <2>1, LooseFrame DEF CleanVmFiles
<1>13. CASE RecoveryDone
  BY <1>0, <1>13, ResurrectionFrame DEF RecoveryDone, LooseInv, Accounted
<1>14. CASE UNCHANGED vars
  BY <1>0, <1>14, LooseFrame, ResurrectionFrame DEF vars
<1>15. QED
  BY <1>1, <1>2, <1>3, <1>4, <1>5, <1>6, <1>7, <1>8, <1>9, <1>10, <1>11,
     <1>12, <1>13, <1>14 DEF Next

(* A save that reaches the lock after cleanup never writes the file back: *)
(* File.save re-checks _path under the lock that cleanup holds.           *)
THEOREM NoResurrectionHolds == Spec => []NoResurrection
<1>1. Init => IInv
  BY IInvInit
<1>2. IInv /\ [Next]_vars => IInv'
  BY IInvStep
<1>3. IInv => NoResurrection
  BY DEF IInv
<1>4. QED
  BY <1>1, <1>2, <1>3, PTL DEF Spec

(* After a crash and a finished recovery, every domain libvirt listed at  *)
(* the restart and still runs is in vmContainer or is a loose domain      *)
(* whose destroy failed: _all_vms_from_libvirt leaves no domain behind    *)
(* silently.                                                               *)
THEOREM NoLooseDomainHolds == Spec => []NoLooseDomain
<1>1. IInv => NoLooseDomain
  BY DEF IInv, LooseInv, NoLooseDomain, Accounted
<1>2. QED
  BY <1>1, IInvInit, IInvStep, PTL DEF Spec
=============================================================================
