------------------------------ MODULE Recovery ------------------------------
(***************************************************************************)
(* The VM recovery files of src/vdsm/virt/recovery.py.  While vdsm runs,  *)
(* saver threads call File.save (the VM's state is collected outside the  *)
(* file's lock, then dumped under it) and the VM's teardown calls        *)
(* File.cleanup (under the lock).  vdsm may crash at any point; libvirt  *)
(* domains and recovery files survive it.  On restart all_vms recovers:  *)
(* stage 1 loads the file of every vdsm domain libvirt reports and kills *)
(* the domains it cannot load, stage 2 loads the files of the VMs stage  *)
(* 1 did not recover.                                                     *)
(*                                                                         *)
(* The VM's state is a version number; a file holds the version it was   *)
(* dumped with, 0 standing for no file.                                   *)
(***************************************************************************)
EXTENDS Naturals

CONSTANTS
    VMs,        \* vm ids
    Savers,     \* threads that may call save
    MaxVer,     \* bound on a VM's state changes
    MaxCrashes  \* bound on vdsm crashes

ASSUME BoundsAssumption == VMs # {} /\ MaxVer \in Nat /\ MaxCrashes \in Nat

VARIABLES
    domain,     \* domain[v]: libvirt runs a vdsm domain for v
    file,       \* file[v]: version in v's .recovery file, 0 if none
    life,       \* life[v]: the Vm object: "none", "running", "destroyed"
    ver,        \* ver[v]: the Vm's current state version
    path,       \* path[v]: File._path is set (FALSE once cleanup ran)
    saver,      \* saver[t]: [pc, vm, data] of a thread inside save
    container,  \* cif.vmContainer
    proc,       \* "up", or "stage1", "stage2" while all_vms recovers
    pending,    \* VMs the current recovery stage has still to handle
    crashes,    \* crashes so far
    atRestart,  \* auxiliary: the domains running when vdsm restarted
    killFailed  \* auxiliary: loose domains stage 1 failed to kill

vars == <<domain, file, life, ver, path, saver, container, proc, pending,
          crashes, atRestart, killFailed>>

Idle == [pc |-> "idle", vm |-> CHOOSE v \in VMs : TRUE, data |-> 0]

TypeOK ==
    /\ domain \in [VMs -> BOOLEAN]
    /\ file \in [VMs -> 0..MaxVer + 1]
    /\ life \in [VMs -> {"none", "running", "destroyed"}]
    /\ ver \in [VMs -> 0..MaxVer + 1]
    /\ path \in [VMs -> BOOLEAN]
    /\ saver \in [Savers -> [pc : {"idle", "collected", "raised"}, vm : VMs,
                             data : 0..MaxVer + 1]]
    /\ container \subseteq VMs
    /\ proc \in {"up", "stage1", "stage2"}
    /\ pending \subseteq VMs
    /\ crashes \in 0..MaxCrashes
    /\ atRestart \subseteq VMs /\ killFailed \subseteq VMs

Init ==
    /\ domain = [v \in VMs |-> FALSE]
    /\ file = [v \in VMs |-> 0]
    /\ life = [v \in VMs |-> "none"]
    /\ ver = [v \in VMs |-> 1]
    /\ path = [v \in VMs |-> TRUE]
    /\ saver = [t \in Savers |-> Idle]
    /\ container = {}
    /\ proc = "up"
    /\ pending = {}
    /\ crashes = 0
    /\ atRestart = {} /\ killFailed = {}
-----------------------------------------------------------------------------
(* The environment: a VM is started, changes state, and is torn down.   *)
(* Teardown destroys the domain first and cleans the file up after.     *)
CreateVm(v) ==
    /\ proc = "up" /\ life[v] = "none" /\ ~domain[v] /\ file[v] = 0
    /\ domain' = [domain EXCEPT ![v] = TRUE]
    /\ life' = [life EXCEPT ![v] = "running"]
    /\ path' = [path EXCEPT ![v] = TRUE]
    /\ container' = container \cup {v}
    /\ UNCHANGED <<file, ver, saver, proc, pending, crashes, atRestart, killFailed>>

ChangeState(v) ==
    /\ proc = "up" /\ life[v] = "running" /\ ver[v] < MaxVer + 1
    /\ ver' = [ver EXCEPT ![v] = @ + 1]
    /\ UNCHANGED <<domain, file, life, path, saver, container, proc, pending,
                   crashes, atRestart, killFailed>>

DestroyDomain(v) ==
    /\ proc = "up" /\ life[v] = "running"
    /\ domain' = [domain EXCEPT ![v] = FALSE]
    /\ life' = [life EXCEPT ![v] = "destroyed"]
    /\ container' = container \ {v}
    /\ UNCHANGED <<file, ver, path, saver, proc, pending, crashes, atRestart, killFailed>>
-----------------------------------------------------------------------------
(* File._collect: the VM's status, guest info and block jobs at this     *)
(* moment, which the model keeps as the state's version.                   *)
Collect(v) == ver[v]

(* File._dump: pickled to a temporary file renamed over the recovery file. *)
Dump(v, data) == [file EXCEPT ![v] = data]

(* File.save, first half: data = self._collect(vm), outside the lock.   *)
SaveCollect(t, v) ==
    /\ proc = "up" /\ saver[t].pc = "idle" /\ life[v] # "none"
    /\ saver' = [saver EXCEPT ![t] = [pc |-> "collected", vm |-> v, data |-> Collect(v)]]
    /\ UNCHANGED <<domain, file, life, ver, path, container, proc, pending,
                   crashes, atRestart, killFailed>>

(* Mutant: the dump does not look at _path. *)
SaveLockedUnchecked(t) ==
    /\ proc = "up" /\ saver[t].pc = "collected"
    /\ file' = Dump(saver[t].vm, saver[t].data)
    /\ saver' = [saver EXCEPT ![t] = Idle]
    /\ UNCHANGED <<domain, life, ver, path, container, proc, pending, crashes,
                   atRestart, killFailed>>

(* File.save, second half, under the lock: after cleanup it logs through *)
(* self.log, which File does not have (its logger is _log), and raises  *)
(* AttributeError; otherwise _dump writes a temporary file and renames   *)
(* it over the recovery file.                                              *)
SaveLocked(t) ==
    /\ proc = "up" /\ saver[t].pc = "collected"
    /\ IF path[saver[t].vm]
         THEN /\ file' = Dump(saver[t].vm, saver[t].data)
              /\ saver' = [saver EXCEPT ![t] = Idle]
         ELSE /\ saver' = [saver EXCEPT ![t].pc = "raised"]
              /\ UNCHANGED file
    /\ UNCHANGED <<domain, life, ver, path, container, proc, pending, crashes,
                   atRestart, killFailed>>

(* The exception reaches the caller, which goes on. *)
SaveRaised(t) ==
    /\ saver[t].pc = "raised"
    /\ saver' = [saver EXCEPT ![t] = Idle]
    /\ UNCHANGED <<domain, file, life, ver, path, container, proc, pending,
                   crashes, atRestart, killFailed>>

(* File.cleanup, under the lock: rmFile and _path = None. *)
Cleanup(v) ==
    /\ proc = "up" /\ life[v] = "destroyed" /\ path[v]
    /\ file' = [file EXCEPT ![v] = 0]
    /\ path' = [path EXCEPT ![v] = FALSE]
    /\ UNCHANGED <<domain, life, ver, saver, container, proc, pending, crashes,
                   atRestart, killFailed>>
-----------------------------------------------------------------------------
(* vdsm dies: every Vm and File object and every thread is gone; domains *)
(* and files stay.  The restart lists the vdsm domains for stage 1.      *)
Crash ==
    /\ crashes < MaxCrashes
    /\ proc' = "stage1"
    /\ life' = [v \in VMs |-> "none"]
    /\ path' = [v \in VMs |-> TRUE]
    /\ saver' = [t \in Savers |-> Idle]
    /\ container' = {}
    /\ pending' = {v \in VMs : domain[v]}
    /\ crashes' = crashes + 1
    /\ atRestart' = {v \in VMs : domain[v]}
    /\ UNCHANGED <<domain, file, ver, killFailed>>

(* File.load: the file is opened and unpickled (fails without a file)   *)
(* and cif.createVm may fail; on success the VM is in the container.     *)
Load(v, ok) ==
    /\ ok => file[v] # 0
    /\ container' = IF ok THEN container \cup {v} ELSE container
    /\ life' = IF ok THEN [life EXCEPT ![v] = "running"] ELSE life
    /\ ver' = IF ok THEN [ver EXCEPT ![v] = file[v]] ELSE ver

(* Mutant: a domain that cannot be loaded is left running. *)
RecoverDomainNoKill(v) ==
    /\ proc = "stage1" /\ v \in pending
    /\ \E ok \in BOOLEAN : Load(v, ok)
    /\ pending' = pending \ {v}
    /\ UNCHANGED <<domain, file, path, saver, proc, crashes, atRestart, killFailed>>

(* _all_vms_from_libvirt, one domain: a domain that cannot be loaded is  *)
(* a loose domain and is destroyed; a failed destroy is only logged.     *)
RecoverDomain(v) ==
    /\ proc = "stage1" /\ v \in pending
    /\ \E ok \in BOOLEAN :
         /\ Load(v, ok)
         /\ \E killed \in BOOLEAN :
              /\ domain' = IF ok THEN domain ELSE [domain EXCEPT ![v] = ~killed]
              /\ killFailed' = IF ok \/ killed THEN killFailed ELSE killFailed \cup {v}
    /\ pending' = pending \ {v}
    /\ UNCHANGED <<file, path, saver, proc, crashes, atRestart>>

(* Stage 2 starts: _find_vdsm_vms_from_files lists the recovery files of *)
(* VMs not in the container.                                              *)
StartStage2 ==
    /\ proc = "stage1" /\ pending = {}
    /\ proc' = "stage2"
    /\ pending' = {v \in VMs : file[v] # 0 /\ v \notin container}
    /\ UNCHANGED <<domain, file, life, ver, path, saver, container, crashes,
                   atRestart, killFailed>>

(* _all_vms_from_files, one file: a failure is only logged. *)
RecoverFile(v) ==
    /\ proc = "stage2" /\ v \in pending
    /\ \E ok \in BOOLEAN : Load(v, ok)
    /\ pending' = pending \ {v}
    /\ UNCHANGED <<domain, file, path, saver, proc, crashes, atRestart, killFailed>>

(* clean_vm_files: the recovery files of VMs not in the container are    *)
(* removed.                                                                *)
CleanVmFiles ==
    /\ proc = "up"
    /\ file' = [v \in VMs |-> IF v \in container THEN file[v] ELSE 0]
    /\ UNCHANGED <<domain, life, ver, path, saver, container, proc, pending,
                   crashes, atRestart, killFailed>>

RecoveryDone ==
    /\ proc = "stage2" /\ pending = {}
    /\ proc' = "up"
    /\ UNCHANGED <<domain, file, life, ver, path, saver, container, pending,
                   crashes, atRestart, killFailed>>

Next ==
    \/ \E v \in VMs : CreateVm(v) \/ ChangeState(v) \/ DestroyDomain(v) \/ Cleanup(v)
    \/ \E t \in Savers : SaveLocked(t) \/ SaveRaised(t) \/ \E v \in VMs : SaveCollect(t, v)
    \/ Crash \/ StartStage2 \/ RecoveryDone \/ CleanVmFiles
    \/ \E v \in VMs : RecoverDomain(v) \/ RecoverFile(v)

Spec == Init /\ [][Next]_vars
-----------------------------------------------------------------------------
(* A VM whose file was cleaned up never gets one back from a save that   *)
(* collected its state before the cleanup and reached the lock after it *)
(* (save re-checks _path under the lock).                                 *)
NoResurrection == \A v \in VMs : ~path[v] => file[v] = 0

(* After recovery every vdsm domain libvirt still runs belongs to a VM   *)
(* vdsm knows, unless stage 1 tried to kill it and failed: no loose      *)
(* domain is left behind silently.                                        *)
NoLooseDomain ==
    proc = "up" /\ crashes > 0 => \A v \in atRestart : domain[v] => v \in container \/ v \in killFailed

(* The 'save after cleanup' branch is meant to log and return: a save    *)
(* that loses the race with cleanup never raises.                          *)
SaveAfterCleanupQuiet == \A t \in Savers : saver[t].pc # "raised"

=============================================================================
