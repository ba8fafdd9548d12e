# Formal models of the vdsm network reconciliation core

This directory holds TLA+ models of the parts of this repository that carry
control state: the sysfs bond transaction, the connectivity gate, the
configuration normalizer and the KernelConfig differ, and, around them, the
smaller pieces (VM recovery files, the volume-chain builder, QoS
reporting, the multipath configurator). Each model is checked with TLC on small instances. The most
important invariants are proved with TLAPS for every value of the constants.

## 1. Inventory of the system

### Components and their state

| Component | Source | State it keeps | Operations |
|---|---|---|---|
| Bond transaction applier | `src/lib/vdsm/network/link/bond/sysfs_driver.py` | Kernel side: does the bond exist (`/sys/class/net/<bond>/bonding`), its slaves, its options, and the up/down state of each nic. Object side: `_slaves`, `_options`, and the snapshot `_init_exists`/`_init_slaves`/`_init_options` taken by `__enter__`. | `__enter__`, `__exit__`, `create`, `destroy`, `add_slaves`, `del_slaves`, `set_options`, `_revert_transaction`, `_preserve_iface_state`, `_import_existing` |
| Connectivity gate | `src/lib/vdsm/network/connectivity.py` | The loop's `start` and `timeout` counter. The mtime of the client log, which the management client writes. | `check`, `_client_seen`, `_get_connectivity_timeout` |
| Config normalizer / KernelConfig builder | `src/lib/vdsm/kernelconfig.py` | None: pure functions over `networks`/`bonds` mappings. `normalize` works on a deep copy. | `normalize` and its nine `_normalize_*` steps; `_translate_netinfo_net`/`_bond`, `_translate_*`; `KernelConfig.__eq__` |
| VM recovery files | `src/vdsm/virt/recovery.py` | Per VM: the recovery file path (set to `None` by cleanup) and its lock. On disk: the `.recovery` files. | `File.save`, `cleanup`, `load`; `all_vms` (two stages); `clean_vm_files` |
| Volume chain builder | `src/lib/vdsm/tool/dump_volume_chains.py` | The tool's `image_chains` while it reads a storage domain. `_build_volume_chain` is pure, over (parent, child) pairs. | `dump_chains`, `_get_volumes_chains`, `_build_volume_chain`, `_print_volume_chains` |
| Host QoS reporting | `src/lib/vdsm/netinfo/qos.py` | The netinfo dictionary it augments with `hostQos`. | `report_network_qos`, `get_root_qdisc` |
| multipath configurator | `src/lib/vdsm/tool/configurators/multipath.py` | On disk: `/etc/multipath.conf` and its minute-stamped backups. | `configure`, `isconfigured` |
| JSON-RPC binding, response helpers, netlink/libvirt/cpu probes, dummybr, tests | see `PROJECT.json` | Wiring, formatting or I/O only. | not modelled |

### How they interact

The reconciliation flow of the spec runs in one thread:
probe → normalize → diff (`KernelConfig(netinfo) == persisted`) → apply → connectivity gate.
The apply step edits bonds through `BondSysFS` transactions (`with Bond(...) as b:`).
A failed step raises, `__exit__` catches it, and `_revert_transaction` undoes it.
After the apply, `connectivity.check` polls the client log.
Its `ConfigNetworkError(ERR_LOST_CONNECTION)` tells the caller to roll the whole change back.
The orchestrator that strings these together (`setupNetworks`) is not under `src/`.

The components share only the kernel's network state. Single-writer access to
that state is assumed (spec section 5). Concurrency inside a component comes
from the environment, never from a second writer:
- the kernel decides whether an enslaved or released nic stays up;
- sysfs writes can fail;
- the management client writes its log whenever it likes;
- `time.sleep` can overrun.

### What is hard

- **Partial failure inside a transaction.** Any sysfs write can fail half way through a loop over slaves. The revert then runs from whatever state that left behind, and the revert's own writes can fail too.
- **Aliasing.** The snapshot that the revert compares against must not move with the edits.
- **Interface state around membership edits.** The state is read before the interface is brought down. It is restored in a `finally` clause.
- **Timing.** The connectivity loop polls `timeout + 1` times against a wall clock. The sleeps can overrun, the mtime granularity can be coarse, and the log may already exist when the check starts.
- **Normalization.** `normalize` must be idempotent. Equality of configurations is only as good as the normal form.

### What makes each component correct

- Bond transaction:
  - between two calls of the body, `_slaves` equals the kernel's slave set;
  - a failed transaction on a new bond leaves no bond;
  - a failed transaction on an existing bond restores its slaves;
  - an edit never leaves a nic down that was up.
- Connectivity gate:
  - a pass means the client wrote after the start;
  - a lost-connection error means the client wrote nothing before the deadline;
  - check() returns: the loop ends whether or not the log exists.
- Normalizer:
  - idempotence;
  - `KernelConfig(R) == Q` for a running config R and a requested config Q that differ only in syntax;
  - zero QoS values are stripped;
  - link-local IPv6 addresses are excluded.

The hazards, each at its source line, are listed under `hazards` in `PROJECT.json`.

## 2. Modules

### `BondSysFS` — the sysfs bond transaction

Variables, with what each stands for in the code:
- `kExists`, `kSlaves`, `kOpts`: the kernel's bond.
- `up`: the admin state of each nic.
- `slaves`, `options`: `self._slaves`, `self._options`.
- `initExists`: `self._init_exists`.
- `pc`: where the transaction is.
- `todo`: what the running `for slave in slaves` loop has left.
- `toAdd`: `slaves2add` of the revert.
- `ops`: how many calls the body has made.
- `snapSlaves`: auxiliary, the kernel's slaves at `__enter__`. Properties use it; no action reads it.

`init_slaves` is a definition equal to `slaves`, not a variable. `__enter__` binds `_init_slaves` to the same set object, which the loops then mutate in place.

Actions:
- `Init` is `BondAPI.__init__` with `_import_existing`.
- `Enter` is `__enter__`.
- The body's calls are `Create`, `Destroy`, `AddSlaves`, `DelSlaves`, `SetOptions`; the body ends with `Commit` or `BodyRaises`. The caller's body is arbitrary, bounded by `MaxOps` calls.
- `AddSlave(s)`/`DelSlave(s)` is one loop iteration, including `_preserve_iface_state`.
- `LoopDone` is the loop's return to its caller.
- `RevertTransaction` is `_revert_transaction`.

Every sysfs write has a failure disjunct. An exception in the body's loops goes to the revert (`Raise`). An exception in the revert's loops ends in `revert_failed`.

Environment choices:
- A write succeeds only if the kernel would accept it: the bond exists, and the nic is not yet a slave (add) or is one (del).
- After a successful enslave or release, the kernel may leave the nic up or down (`\E after`).
- `destroy` closes every nic it releases: the kernel's bond release calls `dev_close` on each slave, and `destroy` is not wrapped in `_preserve_iface_state`. So `DestroyWrite` sets `up` to `FALSE` for each slave of the bond.

### `BondTxn` — what a bond transaction promises

An abstract spec of `with Bond(...) as b:`, with the object's bookkeeping left out. Its state is the kernel (`exists`, `bondSlaves`, `up`), a `phase` (`idle`, `open`, `committed`, `reverted`, `failed`), and `snap`, the bond's existence on entry. Its steps:
- `Begin` takes the snapshot and leaves the kernel alone.
- `Work` is any kernel edit (`KernelEdit`) that takes a nic down only by destroying the bond, and then only a slave of that bond.
- `Commit` leaves the kernel alone.
- `Revert` either leaves the kernel alone or destroys the bond, closing at most its slaves (`ClosesSlaves`). When the bond did not exist on entry, it leaves no bond.
- `Fail` (the revert itself raised) is one more `KernelEdit`.

Nothing changes the kernel before `Begin` or after the end. `BondTxn` does not promise that an existing bond gets its slaves back; the `bond_restore` run shows that the driver does not do that.

`BondSysFS` implements it. The refinement mapping is `BT == INSTANCE BondTxn WITH exists <- kExists, bondSlaves <- kSlaves, phase <- Phase(pc), snap <- initExists`. `Phase` maps `new` to `idle`, the three ends to themselves (`revert_failed` to `failed`), and every other control point (body, loops, revert) to `open`. The property is `ImplementsBondTxn == BT!Spec`. The mutant `AddSlaveNoFinally`, an `_preserve_iface_state` without its `finally`, makes a failing enslave a `Work` step that brings a nic down, and TLC rejects it.

### `Connectivity` — the connectivity gate

Variables:
- `now`: `time.time()` in ticks, `Second` ticks per second.
- `mtime`: the log's `st_mtime`, or `Absent`.
- `start`, `timeout`: the loop's locals.
- `wake`: the earliest time the current sleep may return.
- `cfgTimeout`, `touched`: auxiliary. `touched` is the first client write after `start`.

Actions:
- `Check`: `check` with its `connectivityCheck` and `connectivityTimeout` options.
- `Poll`: one `os.stat`, with the ENOENT and other-`OSError` branches.
- `Wake`: `sleep` returns and `timeout -= 1`.
- `GiveUp`: the loop exits and `check` raises.
- `Tick`: time passes while sleeping. A sleep lasts at least one second and at most `Oversleep` ticks more.
- `ClientTouch`: the client writes its log. The file system stamps it to a granularity of `Gran` ticks.

`Init` starts the clock at tick 1 or 2, and the log may already exist with a stamp of any earlier tick. That way `start` is not always a multiple of the granularity.

`FairSpec` adds weak fairness of `Poll`, `GiveUp`, `Tick` and `Wake`. These are the steps of the loop's own thread: nothing else takes the CPU from it for ever, and `time.sleep(1)` returns. There is no fairness on `ClientTouch`, because the client may never write. There is none on `Check` either, because nobody is obliged to call `check`.

### `Normalize`, `NormalizePasses` — `normalize`

`normalize` is a pure function. `Normalize` holds it as operators, with no
state: `NormalizeConfig` applies `NormalizeNet` to every network and
`NormalizeBonding` to every bond. Each step edits one entry at a time, and
networks and bonds are disjoint, so the per-entry composition is the
code's sequence of loops. The bond half is `ParseBondOptions`
(`_parse_bond_options`: `dict()` of the tokens, a later key winning; a
mode name turned into its number; options equal to the mode's default
dropped), then `custom` dropped and the result serialized, then the slave
list sorted. `NormalizeNet` is the composition of the network steps in
the order of lines 63–71:
`NormalizeBridge` (with `_normalize_stp`), `NormalizeVlan`, `NormalizeMtu`,
`NormalizeBlockingdhcp`, `NormalizeDhcp`, the network part of
`_normalize_bonding_opts`, `NormalizeAddress`, `NormalizeIfcfgKeys`.
`NormalizePasses` is the state machine that lets TLC run the function on
every input of a set (`requested`, `net`, `passes`): `Init` picks a
requested network, `Normalize` replaces `net` by its normal form (the deep
copy makes it a value).

Data abstraction:
- A network is a function from attribute names to tagged values
  (`I(n)`, `S(s)`, `B(b)`, `L(s)` for int, str, bool and list), so that
  `'1500'` and `1500` differ as they do in Python.
- The helpers outside `src/` (`utils.tobool`, `bridges.stp_booleanize`,
  `addresses.prefix2netmask`, `mtus.DEFAULT_MTU`) are modelled from the spec
  and marked `spec_modelled`. `DEFAULT_MTU` is taken as the str `'1500'`,
  the value the spec gives; the properties do not depend on that choice,
  because `MeaningPreserved` compares meanings, not spellings.
- `MCNormalize` draws inputs from all combinations of a few spellings of
  each attribute (present or absent, str or int, ifcfg-style `STP`,
  `prefix` or `netmask`, `IPV6_AUTOCONF`, ...): 110,592 networks.
- `WellFormed(a)` says what a requested network looks like when a caller passes it:
  - a bool is `True` or `False`;
  - an mtu or a vlan is an int the model spells, or a str;
  - a bootproto is not `None`;
  - an ipv6addr is one address str.
- `ToStringDistinct` says that `str()` spells the model's ints apart. These two are the hypotheses of the theorem below, and `MCNormalize` asserts both for its instance (`MCInputsOK`).

`Meaning(a)` is the reference: what a network means (bridged, stp on,
mtu as a number, vlan, bootproto, dhcpv6, netmask, ipv6 addresses, default
route), written directly from the spec's defaults.

### `KernelConfig` — the builder and `__eq__`

Variables:
- `netinfo`: the probe's read model, a record per network with the fields
  `_translate_*` read (`bridged`, `stp`, `mtu`, `vlanid`, `nics`, `bond`,
  `dhcpv4`, `addr`, `netmask`, `gateway`, `dhcpv6`, `ipv6addrs`,
  `ipv6gateway`, `cfg`, `hostQos`) and one per bond (`slaves`, `opts`).
- `request`: the persisted configuration.
- `kc`: the `KernelConfig`, or `Error` when the constructor raised.
- `verdict`: `"pending"`, then `"equal"` or `"differ"`.

Actions: `Build` is `KernelConfig.__init__`. It is `_translate_netinfo_net`
(the `_translate_*` steps in the code's order) and `_translate_netinfo_bond`.
`nic, = nics` raising `ValueError` is its `Error` outcome. `Compare` is
`__eq__`, which normalizes the request only.

The reference is `SameMeaning`, written from the spec's data model (section 3). It
compares the meaning of the read model (`RunningMeaning`) with the meaning of
the request (`RequestedMeaning`): bridged, stp, mtu, vlan, attachment,
addressing (static fields only without DHCP), IPv6 (global addresses only,
none under dhcpv6), default route, the non-zero QoS parameters, and for
bonds the slave set with the mode and every option's effective value.

`MCKernelConfig` builds each request from one fragment per concern (bridge,
mtu/vlan, attachment, IPv4, IPv6, default route, QoS, and for bonds the
slave order and option strings). It compares each request with:
- the read model of a host that realizes it (link-local address present,
  zero QoS parameters reported, leased address under DHCP, default bond
  options omitted);
- each of 14 variants of that read model with one field changed, a
  two-nic bridge among them.

A comparison that ignores a field therefore meets a host that differs in just
that field.

### `Recovery` — the VM recovery files

`recovery.py` keeps one `.recovery` file per VM. It is written by
`File.save`, removed by `File.cleanup`, and read back by `File.load` when
vdsm restarts. It is the one component where threads, a lock and a crash
meet.

Variables:
- `domain[v]`: libvirt runs a vdsm domain for `v`. It survives a crash.
- `file[v]`: the version of the state in `v`'s file, 0 when there is none. It survives a crash.
- `life[v]`, `ver[v]`: the `Vm` object (none, running, destroyed) and its current state version.
- `path[v]`: `File._path` is still set, FALSE once `cleanup` ran.
- `saver[t]`: a thread inside `save`, with the data it collected.
- `container`: `cif.vmContainer`.
- `proc`, `pending`: vdsm is up, or in stage 1 or stage 2 of `all_vms` with the VMs still to handle.
- `crashes`, `atRestart`, `killFailed`: a crash counter, and two auxiliary variables the properties read (the domains running at the restart, and the loose domains whose destroy failed).

Actions:
- `SaveCollect` is line 90, `data = self._collect(vm)`, outside the lock.
- `SaveLocked` is lines 91-95 under the lock. After cleanup, the branch calls `self.log`, which `File` does not have, so the saver ends in `raised` (`SaveRaised`). Otherwise the data is dumped.
- `Cleanup` is lines 84-87.
- `Crash` drops every in-memory object and thread, and starts stage 1 on the domains libvirt lists.
- `RecoverDomain` is one iteration of `_all_vms_from_libvirt`: `Load`, and on failure a destroy that may itself fail.
- `StartStage2` and `RecoverFile` are `_all_vms_from_files`.
- `CleanVmFiles` is `clean_vm_files`.
- `CreateVm`, `ChangeState` and `DestroyDomain` are the environment: a VM is started, changes state, and is torn down (the domain is destroyed before its file is cleaned up).

### `VolumeChain` — `dump-volume-chains`

The storage domain the tool reads is chosen in `Init` and does not change.
It consists of the pool count, the images, each image's volumes in
`getVolumes` order, and each volume's parent.

Variables:
- `sd`: the storage domain.
- `pc`: the tool's progress, or the exception that ended it.
- `todo`: the images still to read.
- `chains`: `image_chains`.
- `out`: the (image, volume) pairs printed.

Actions:
- `GetPools` is the pool check of `_get_volumes_chains`. No pool raises `NoConnectedStoragePoolError`. Two pools make `sp_uuid, = pools` raise `ValueError`.
- `BuildImage` is one iteration of the image loop. It builds `volumes_children` and calls `BuildVolumeChain`, storing a `ChainError` in place of the chain.
- `PrintVolumeChains` is `_print_volume_chains`, keeping only which volumes are listed under which image.

`BuildVolumeChain` keeps the code's order of tests: the `dict()` length comparison for duplicate parents, then the `while` loop (the recursive `Walk`), then the no-base test and the orphan test. The reference, `Expected` and `IsChainOf`, is written from the error classes' descriptions. A chain is a listing of the image's volumes, base first, each on the previous one.

Because `Walk` is `RECURSIVE`, `VolumeChain` is checked only by TLC and holds no theorem. `dict(volumes_children)`, `ByParents`, has no recursion. It lives in its own module, `VolumeParents`, which `VolumeChain` extends, so that theorems can be proved about it.

### `QosReport` — `report_network_qos`

Variables:
- `host`: the netinfo and tc state, chosen in `Init`.
- `qos`: the `hostQos` reported for each network.
- `todo`, `pc`: the loop's progress, or the exception that ended it.

`ReportNet(net)` is one iteration of the loop over `netinfo['networks']`, in any order. `ClassOf` is lines 34-54:
1. The bridge step: the one port that is not a VM tap. A port-less bridge is skipped; two host ports raise `ValueError`.
2. The vlan step: the base device and the vlan id.
3. The qdisc lookup, then `get_root_qdisc`. A missing root raises `TypeError`.
4. The class id.

The reference, `Expected`, is written as a relation instead: the stack of devices under a network (a bridge over its host ports, a vlan device over its base), the device at its bottom, and the vlan id met on the way.

`ClassOf` makes its tests in the code's order, as an `IF ... ELSE IF` chain. An earlier version used a `CASE`. TLC takes the first true arm of a `CASE`, but in TLA+ a `CASE` whose guards overlap picks any true arm. A port-less bridge on a device with no root qdisc would then have been both skipped and a `TypeError`. The proof exposed this.

`HostOK(h)` describes the hosts vdsm builds, and it is the hypothesis of the theorem below:
- a bridge carries one network and at most one host port, and that port is not a bridge;
- a vlan device is not a bridge, and it sits on a device that is neither a bridge nor a vlan;
- bridges carry no qdisc;
- a device with qdiscs has a root qdisc;
- qdisc and class handles are never empty;
- tc knows every device a network is stacked on.

`MCQosReport` asserts `MCHostsOK`: every host of the checked instance satisfies `HostOK`.

### `Multipath` — the multipath configurator

Variables:
- `conf`: `/etc/multipath.conf`, Absent or what its first two lines carry.
- `backups`: the backups, by minute stamp.
- `clock`: the current minute.
- `verdict`, `result`: the last `isconfigured()` answer and the way the last `configure()` ended.
- `replaced`: an auxiliary variable, the files `configure()` copied over.

Actions:
- `IsConfigured` is `isconfigured()`.
- `Configure` is `configure()`: the backup, the copy (which may fail with `RuntimeError`), and the reload (re-raised only if multipathd is running). The vdsm-tool driver, which is not in this repository, calls it after `isconfigured()` said NO, and that is its guard.
- `AdminWrite`, `AdminRemove` and `Tick` are the environment.

### Planned modules, in order

1. `Apply`: composes `BondSysFS` and `Connectivity` into the spec's apply-then-check flow, so that a lost connection is seen to roll back the bond edits. The project already has twelve runs, one for each question it asks, and this composition would need a run of its own.

## 3. Runs

| Run | Module / cfg | Checks | What it shows |
|---|---|---|---|
| `bond_txn` | `MCBondSysFS` / `MCBondSysFS.cfg` | `SlavesTracked`, `NewBondRevertDestroys`, `ImplementsBondTxn`, `SlaveEditKeepsUp` | See below. |
| `bond_restore` | `MCBondSysFS` / `MCBondSysFS_restore.cfg` | `ExistingBondRestored` (expected violation) | See below. |
| `connectivity` | `MCConnectivity` / `MCConnectivity.cfg` | `SeenIsSound`, `WindowHonoured`, `CheckReturns` | See below. |
| `normalize` | `MCNormalize` / `MCNormalize.cfg` | `MeaningPreserved` | See below. |
| `normalize_idem` | `MCNormalize` / `MCNormalize_idem.cfg` | `Idempotent` (expected violation) | See below. |
| `kc_equality` | `MCKernelConfig` / `MCKernelConfig.cfg` | `EqualityFaithful` | See below. |
| `kc_spellings` | `MCKernelConfig` / `MCKernelConfig_spellings.cfg` | `EqualityFaithful` (expected violation) | See below. |
| `recovery` | `MCRecovery` / `MCRecovery.cfg` | `NoResurrection`, `NoLooseDomain` | See below. |
| `recovery_log` | `MCRecovery` / `MCRecovery_log.cfg` | `SaveAfterCleanupQuiet` (expected violation) | See below. |
| `volume_chains` | `MCVolumeChain` / `MCVolumeChain.cfg` | `ChainsClassified`, `DumpComplete` | See below. |
| `qos_report` | `MCQosReport` / `MCQosReport.cfg` | `QosReportFaithful` | See below. |
| `multipath_backup` | `MCMultipath` / `MCMultipath_backup.cfg` | `OriginalSaved` (expected violation) | See below. |

**`bond_txn`.** For every body of up to 3 calls on 3 nics, with every sysfs write free to fail:
- `_slaves` matches the kernel between calls;
- reverting a new bond destroys it;
- no step of an `add_slaves` or `del_slaves` loop (body or revert) brings an up nic down, whether its write succeeds or fails;
- every behaviour is a behaviour of `BondTxn` under the mapping above.

**`bond_restore`.** The revert of an existing bond is a no-op, because of the aliased snapshot (finding in `PROJECT.json`). TLC's shortest trace:
1. An existing bond has no slaves.
2. The body calls `add_slaves({n1, n2})`. `n1` is enslaved.
3. The write for `n2` fails.
4. `_revert_transaction` computes `_slaves - _init_slaves = {}` and leaves `n1` in the bond.

**`connectivity`.** Timeouts -1..2 are covered, at 2 ticks per second, with one tick of oversleep and an exact mtime:
- the check passes only after a real client write since its start;
- it fails only if no write came before `start + timeout` seconds;
- under `FairSpec`, a started loop always returns (`CheckReturns`). The mutant `PollEnoentContinue` shows what this rules out: an ENOENT branch that `continue`s past the sleep and the decrement spins for ever while the log is missing.

The run uses an exact mtime (`Gran = 1`). With `Gran = 2`, TLC finds `WindowHonoured` violated. In that trace `start = 2` and the client writes at tick 3. The write is stamped 2, which is not later than `start`, so it is never seen. On a file system whose timestamps are coarser than `time.time()`, `_client_seen` can therefore miss a write made right after it started. This is listed as a hazard and not as a finding, since most file systems stamp to the nanosecond.

TLC also showed that the loop sleeps one more second after its last poll and then gives up without looking again. A write in that last second is waited for but ignored. The spec's "raises within approximately 2–3 seconds" for a timeout of 2 reflects this.

**`normalize`.** On every one of the 110,592 networks, the normal form
means what the request meant. This depends on the order of the steps: the
bridge step pops the ifcfg-style `STP` key before `_normalize_ifcfg_keys`
drops every all-uppercase key; with the filter moved first (the mutant
`NormalizeNetIfcfgFirst`) a request with `STP=no` becomes `stp=True`.

**`normalize_idem`.** `normalize(normalize(x)) = normalize(x)` fails
(finding in `PROJECT.json`): `_normalize_address` (line 252) replaces
`ipv6addr` by `[ipv6addr]` whenever the key is present, so a second pass
gives `[[addr]]`. Restricting the inputs to networks without `ipv6addr`
makes the property hold, so no other step breaks idempotence.
`KernelConfig.__eq__` normalizes its right-hand side; when that side is a
`KernelConfig` (already normal), the double wrapping is what it compares.

**`kc_equality`.** For every well-formed request, `KernelConfig(netinfo) ==
request` says "equal" exactly when the host realizes it. Well-formed means the
spec's invariants hold: one attachment; static IPv4 only with
bootproto none; no static IPv6 under dhcpv6. It also excludes the three
spellings below. Both directions matter. A false "equal" hides a change
`setupNetworks` must make. A false "differ" reconfigures a live network for
nothing. The mutant `EqNetworksOnly`, an `__eq__` that forgets the bonds, is
caught.

**`kc_spellings`** feeds the same property requests that mean the same as
their host, spelled in three ways the passing run leaves out (findings in
`PROJECT.json`). Each of the three request sets `MCRequestsStrayStp`,
`MCRequestsQosZero` and `MCRequestsMode0` fails on its own when it is given
as `Requests`:
- stray stp: a non-bridged network carrying `stp`. `_normalize_bridge`
  keeps the key; the builder does not report one.
- zero QoS: a `hostQos` curve with a zero parameter. Zeros are stripped
  on the running side only, although spec 4.1 puts the stripping in the
  normalizer.
- default mode: a bond requested with an explicit default mode. An omitted mode
  is not put back, while an explicit one is kept, so `mode=0` and `''`
  normalize differently. The probe is modelled as omitting the default mode,
  which spec 8's empty-options round trip requires. With a probe that always
  reports the mode, the omitted spelling fails instead.

**`recovery`.** Two VMs and two saver threads, with up to two state
changes per VM and one crash at any point.
- `NoResurrection`: a save that collected before a cleanup and took the
  lock after it never brings the file back. `save` re-checks `_path` under
  the lock; the mutant `SaveLockedUnchecked` drops that check and is caught.
- `NoLooseDomain`: once recovery has finished, every domain that was running
  at the restart is either in `vmContainer` or was destroyed. The only
  exception is a domain whose destroy raised, which the code only logs. The
  mutant `RecoverDomainNoKill`, which leaves an unloadable domain alone, is
  caught.

Two saves of the same VM can dump in the opposite order to the one they
collected in, leaving the older state in the file. The code makes no claim
about this, so it is recorded as a hazard, not a property.

**`recovery_log`.** A save that loses the race with cleanup should log "save
after cleanup" and return (finding in `PROJECT.json`). It calls `self.log`,
but `File`'s logger is `_log`, so it raises `AttributeError` into the
saver. TLC's trace:
1. A VM is created.
2. Its domain is destroyed.
3. Its file is cleaned up.
4. A saver collects its state.
5. The saver takes the lock.

**`volume_chains`.** Every listing of up to three volumes, in any order and
on any parents (blank, each other, themselves, or a volume of another image),
is checked, next to a second image.
- `ChainsClassified`: every image is reported as the error its volumes
  deserve, or as its chain base first. Every error class and good chains are
  reached. The mutant `BuildVolumeChainNoDupCheck`, with no duplicate-parent
  test, is caught.
- `ChainLoopError` is never raised. Each volume is listed once with one
  parent, so the walk from `_BLANK_UUID` cannot meet a volume twice. The
  loop class's own example, `(a<-b), (b<-c), (c<-a)` with `(BLANK<-a)`,
  needs `a` listed twice. A loop not reachable from the base is reported
  as `OrphanVolumes`, or as `NoBaseVolume` when no volume is on the base.
- `DumpComplete`: the dump lists every volume under its image, whether its
  chain is good or broken. The mutant `PrintedParents`, which lists the
  error pairs' parents, is caught.

**`qos_report`.** Two networks share nic `eth0`. Each is on the nic, on a
vlan device (ids 10 and 20) or on its own bridge over either, with or without
a VM tap. `eth0` has any subset of the hfsc classes for both vlans and
untagged traffic, and an htb class. Each network gets exactly the curves of
the hfsc class at the bottom of its own stack, in any order of the loop. The
mutant `ClassOfVlanFirst`, which takes the vlan step before the bridge step,
misses a bridge over a vlan and is caught. The runs exclude bridges with two
host ports: their `ValueError` ends the loop midway for every network, and is
listed as a hazard.

**`multipath_backup`.** The docstring of `configure()` says "The original
configuration, if any, is saved". The backup name is stamped to the minute
(finding in `PROJECT.json`). TLC's trace, all in one minute:
1. `configure()` backs up the admin's file and replaces it.
2. The admin writes another file.
3. `isconfigured()` says NO, and `configure()` backs the new file up under the same name.

The first original is gone.

**Bounds.**
- Bond runs: three nics. That is enough for an add loop to fail after one success, with a third nic left untouched. Three calls are enough for create, then an edit, then a failure, and for destroy-then-recreate.
- Symmetry over the nics is sound: every nic is handled alike.
- Normalize runs: one pass (the idempotence property applies the function twice itself). Every attribute the nine steps read takes its absent value, its default spelled otherwise, and a non-default value.
- KernelConfig runs: one network (each network is translated and normalized on its own) and at most one bond. Every field the translation reads takes at least two values, and every field is changed on its own in some host, so each branch of `_translate_*` and each conjunct of `SameMeaning` is exercised. The bonding tables are illustrative: two modes and one option whose default depends on the mode.
- Recovery run: two VMs, so that one can be recovered while the other is loose; two savers, so that two saves of one VM can race each other and a cleanup; two state changes, so that the versions in a file can be told apart; one crash, since after recovery the system is back in a state the model already started from. Symmetry is not used: `Idle` picks a VM with `CHOOSE`.
- Volume chain run: three volumes, enough for a chain of two with an orphan, a two-volume loop off the base, a duplicate parent next to a good volume, and every listing order of a three-volume chain.
- QoS run: two networks on one nic, so that a network's class can be confused with the other's. Both vlan and untagged class ids are present, with and without a tap on the bridge.
- Multipath run: two minutes, so that two configures can fall in the same minute or in different ones.
- Connectivity run: two ticks per second, so a write can fall strictly between two polls. One tick of oversleep lets the polls drift. Timeouts -1..2 cover the cases: no poll at all, a single poll, and several.

Deadlock is checked in every run except `recovery`. The volume chain and QoS runs end in `Finished`. The other runs end in a terminal state that stutters (`Finished`), because the transaction and the check do return. The recovery model's environment is bounded (versions, crashes, VMs that are never restarted once torn down), so it can run out of steps; the code, a daemon, never stops. Its cfg therefore says `CHECK_DEADLOCK FALSE`.

## 4. Proofs

`BondSysFSProofs` proves four results. The proofs depend only on `MaxOpsAssumption` (`MaxOps \in Nat`).
- `TypeCorrect`: `Spec => []TypeOK`.
- `SlavesTrackedHolds`: `Spec => []SlavesTracked`.
- `NewBondRevertDestroysHolds`: `Spec => []NewBondRevertDestroys`.
- `SlaveEditKeepsUpHolds`: `Spec => SlaveEditKeepsUp`, the action property over the steps of the slave loops (`pc \in SlaveLoops`).

`SlavesTracked` is not inductive. `create` and the body's `add_slaves` pass through states where the loop is running, and there the kernel lags behind `_slaves`. The strengthening `TrackInv` says:
- at `new`, `body` and inside the body's `del_slaves` loop, `_slaves` equals the kernel's slaves;
- inside an `add_slaves` loop started by the body or by `create`, the kernel's slaves are a subset of `_slaves`, and the difference is still in `todo`.

When a loop returns, `todo` is empty, and that gives equality back. TLC checked `TypeOK /\ TrackInv` as an invariant before the proof was written. The proof has one step per action. It is split where the SMT backend needs smaller obligations.

`NewBondRevertDestroys` is not inductive either: on its own it does not rule out reaching `reverted` through the revert's slave loops with a bond that is new. The strengthening `RevertInv` adds that `rv_del` and `rv_add` are only entered when `_init_exists` holds, because `_revert_transaction` takes the destroy branch for a new bond. `_init_exists` never changes after `__enter__`, so the strengthening is preserved by every step. `SlaveEditKeepsUp` follows from `TypeOK` in one step. `AddSlave` and `DelSlave` set `up[s]` to `after \/ wasUp`. The only other steps taken at a loop control point are `LoopDone` and the loops' exits, which leave `up` unchanged. `destroy` does bring nics down, but it is never a step of a loop.

`RecoveryProofs` proves three results. The proofs depend only on `BoundsAssumption` (`VMs` is not empty; `MaxVer` and `MaxCrashes` are naturals).
- `TypeCorrect`: `Spec => []TypeOK`.
- `NoResurrectionHolds`: `Spec => []NoResurrection`.
- `NoLooseDomainHolds`: `Spec => []NoLooseDomain`.

`NoResurrection` is inductive together with `TypeOK`. `SaveLocked` writes the file only while `_path` is set, `Cleanup` clears the file and the path together, and `Crash` gives every file a fresh path.

`NoLooseDomain` is not inductive. It speaks only of the state after recovery, so stage 1's progress must be carried through it. The strengthening `LooseInv` says:
- during stage 1, the pending domains are among those listed at the restart, and every listed domain already handled is accounted for (in `vmContainer`, or its destroy failed);
- from stage 2 on, every listed domain still running is accounted for.

`RecoverDomain` moves one domain from pending to handled. Each of its three outcomes accounts for it: loaded, destroyed, or destroy failed. No later step removes a running domain from the container. `LooseInv` was checked with TLC (as an invariant, with one and with two crashes) before the proof was written. The proof has one step per action, and the actions that touch neither the domains nor the files share two frame lemmas.

`ConnectivityProofs` proves three results for every clock resolution, oversleep and set of timeouts. The proofs rest on `ClockAssumption`.
- `TypeCorrect`: `Spec => []TypeOK`.
- `SeenIsSoundHolds`: `Spec => []SeenIsSound`, for any granularity. The strengthening `SeenInv` adds two facts. An mtime is never later than the clock. Inside the loop, an mtime later than `start` means that `touched` is set. Together these say that a write from before `start` cannot pass the check.
- `WindowHonouredHolds`: `Spec => []WindowHonoured`, under the hypothesis `Gran = 1` (the TLC trace above shows it is needed). The strengthening `WinInv` counts seconds. In the loop, the clock is at least `start + (cfgTimeout - timeout)` seconds. During a sleep, `wake` is at least one second past the last poll, and any write since that poll is no earlier than it. When `timeout` goes negative, every write so far either came at or after `start + cfgTimeout` seconds or is none. TLC checked `WinInv` as an invariant with 3 ticks per second and 2 ticks of oversleep before the proof was written.

`BondSysFSProofs` also proves `ImplementsBondTxnHolds`: `Spec => ImplementsBondTxn`. The argument:
- `Init` maps to `BT!Init`.
- Under the invariant `RefInv`, every step maps to a `BondTxn` step or a stutter. `RefInv` is `TypeOK`, `RevertInv`, and `GoneEmpty` (a bond that does not exist has no slaves).
- The steps between two `open` control points that edit the kernel are `Work` (lemma `OpenStep`). A `destroy` is a `KernelEdit` by lemma `DestroyEdit`: the nics it closes were slaves of a bond that existed and no longer does.
- A failing write in the body's loops is a stutter.
- `LoopDone` of the revert's `add_slaves` is `Revert`: `RevertInv` gives `_init_exists`, so the bond is left alone. The revert's destroy of a new bond is `Revert` through its `ClosesSlaves` disjunct.
- A failing write in the revert's loops is `Fail`.

`GoneEmpty` is needed because `BondTxn`'s kernel states tie a missing bond to an empty slave set.

`QosReportProofs` proves `QosReportFaithfulHolds`: under the hypothesis `HostsOK` (every host in `Hosts` satisfies `HostOK`), `Spec => []QosReportFaithful`. The argument has four parts:
- `ClassLemma`. On such a host, every network's stack has exactly one bottom device `D`, which tc knows. `ClassOf` either skips the network because `D` has no qdisc, or asks tc for the class of the network's minor id under `D`'s root qdisc. The proof has one case per stack shape: a bridge without a host port, a bridge over a vlan, a bridge over a plain device, a vlan, and a plain device.
- `ClassesAtBottom` and `ReportLemma`. From `ClassLemma` it follows that the set of classes the reference looks for and the set the code asks tc for are equal. They are empty when `D` has no qdisc, because no class handle is empty. The two `CHOOSE`s therefore agree.
- `QInv`. The invariant makes `qos` an exact function of the loop's progress: `NoQos` for networks still to visit, and `Expected` for visited ones. `QosReportFaithful` alone is not inductive, because a visit that finds no class leaves the entry as it was. TLC checked `QInv` on the instance.
- `HostFacts`. This lemma states `HostOK`'s conjuncts one by one.

The proof shows that the code's bridge-then-vlan walk computes the reference's stack bottom for every host of that shape. Hosts outside the hypothesis (two host ports, no root qdisc) are the `ValueError` and `TypeError` hazards in `PROJECT.json`.

`VolumeParentsProofs` proves two results about `dict(volumes_children)`, for every list of volumes:
- `DuplicateTestExact`: `Cardinality(DOMAIN ByParents(vc)) < Len(vc)` holds exactly when two listed volumes share a parent. The argument: `i |-> vc[i][1]` is a surjection from `1..Len(vc)` onto the dict's keys. By `FS_Surjection`, the key set has as many elements as the list exactly when that map is injective. So `_build_volume_chain`'s length test never raises `DuplicateParentError` wrongly and never misses one.
- `DistinctParentsDict`: once the test has passed, the dict maps each listed parent to the volume listed with it.

`NormalizeProofs` proves `MeaningPreservedHolds`: under `ToStringDistinct`, `InputsOK` and `MaxPasses = 1`, `Spec => []MeaningPreserved`, for every set of inputs. The argument:
- One lemma per pipeline step (`BridgeKeeps` ... `IfcfgKeysKeeps`) says that the step leaves every key but its own as it was: present or absent, and with the same value. `PipelineKeeps` chains them. For each key `Meaning` reads, it names the one stage that can change it.
- `MeaningKept` then checks the meaning field by field:
  - the bridge step stores `tobool` and `stp_booleanize` results as bools, which read back as themselves (`ToboolBool`, `StpBooleanizeBool`);
  - `str()` of an mtu or a vlan reads back as the same int (`IntOfStr`, which needs `ToStringDistinct`);
  - the dhcp step and the address step fill in only absent keys, and they turn a prefix into the netmask the reference derives from it;
  - wrapping one address str in a list keeps the address set.
- `NInv` (nothing normalized yet, or the request normalized once) is the inductive invariant. TLC checked it on the instance.

`MaxPasses = 1` is the case `KernelConfig.__eq__` uses. With two passes, TLC finds `MeaningPreserved` violated: the second pass wraps `ipv6addr` in a second list. That is also why `Idempotent` fails.

`ToString` stays uninterpreted in the proof: the only fact used about it is the hypothesis `ToStringDistinct`.

Only model-checked, out of TLAPS's reach:
- liveness: `CheckReturns`, since TLAPS 1.4.5 does not reason about fairness and `ENABLED`;
- anything about the chain walk: `VolumeChain`'s `Walk` is `RECURSIVE`. What it computes for every input would need induction over the walk, which the provers cannot instantiate. So `ChainsClassified` and `DumpComplete` stay with TLC;
- the differ's `EqualityFaithful`. It holds in one direction only on the checked spellings (the `kc_spellings` run shows requests that mean the same and compare unequal). It also compares against references built with `CHOOSE` over enumerated values (`SortedList`, the parsed option strings), so it stays a TLC property over the enumerated requests.

## 5. Not modelled

See `components` in `PROJECT.json`:
- the JSON-RPC binding (thread wiring);
- `response.py` (pure formatting);
- the netlink, libvirt, cpu and machine-type probes. These are I/O bindings: each reads a kernel, libvirt or `/proc` answer and parses it, and none keeps state between calls;
- the `dummybr` tool (runs two external commands);
- the test harness.

`BondAPI` and `sysfs_options` are not under `src/`. Their behaviour enters the bond model only as `Init` (import of an existing bond) and as the failure behaviour of `set_options`.
