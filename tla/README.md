# ansible-install: models and proofs

TLA+ models of the parts of this repository whose correctness depends on order,
on crashes and on other parties: what a playbook leaves behind when it dies half
way, what a re-run makes of it, and what the controller, the operator and the
hosts' own timers do meanwhile.

    tlc -workers 2 -config MCNodeUpgrade.cfg MCNodeUpgrade     # a run
    tlapm NodeUpgrade_proofs.tla                               # proofs; likewise
                                                               # the other *_proofs

## 1. The system and its components

Ansible playbooks that build and maintain a hosting fleet: one controller,
nodes that run the tenants' containers, nameservers, metrics, registry and backup
hosts. `site.yml` builds everything, `add-region.yml` attaches a region to an
existing environment, `upgrade-docker.yml` and `maintain-nodes.yml` take live
nodes through a maintenance window, `firewall.yml` re-applies the firewalls,
`unseal.yml` unseals the vault. `ansible.cfg` makes every play stop on the first
failure on any host (`any_errors_fatal`); the answer to every failure is a
re-run. The program state is therefore what is on the hosts, and the hard
question is always the same: **is every state an interrupted run can leave one
that a re-run, the controller or the host itself gets right?**

| component | state it keeps | operations | hard behaviours | what makes it correct |
|---|---|---|---|---|
| `node_upgrade` cycle (`tasks/`) | `state.json`, the local hold (control.db), container set, docker packages and their apt holds, reboot flag, handlers notified in memory | hold, converge, record, stop, packages, restart, reboot, start, release, archive, resume, automatic release | a run dying anywhere, a resume, the controller recovering containers, people clearing the hold, reboots | the hold covers every unfinished cycle; exactly what ran comes back; docker never restarts under a tenant; pins are kept; a cycle ends |
| `node_upgrade` filters and helper | none | classify the CLI's answers, select, resolve, decide, drift, retry loop | boundaries (whole seconds, attempts), unparseable answers | each equals a reference definition |
| `firewall` safe apply | `cs-static.nft`, kernel table, unit, `applied.nft`, `applied.sha256`, `adopted.nft`, transient timer | snapshot, render, schedule, apply, allow, verify, cancel, check, record, rollback | a timer racing the slowest host, a dying run, lockout, a timed allowance, reboot | nobody is locked out by a table that was not verified; only verified tables are recorded or restored; a passed host keeps its table |
| `preflight` | none (reads every host) | reachability, inventory checks, pending rollbacks, ssh source | stale reads | a refused run changed nothing |
| `vault` | initialized flag, key files, seal state, pki mounts, client certificate | initialize, unseal, configure pki, issue | keys printed once, a crash between two writes | no crash loses the keys; a re-run finishes |
| `docker_tls` | certificate files, drop-in, running dockerd's certificate | issue, deploy, deferred restart | files written one by one, restart deferred on live nodes | a mixed set is re-issued; the restart is never forgotten |
| `node_storage` | disk signature, filesystem, fstab, mounts, systemd drop-ins | probe, classify, mkfs, mount, bind, drop-ins, verify | a crash between any two tasks, reboots without the disk, nodes built by hand | data is never formatted or hidden; docker only ever writes to the data disk |
| `powerdns` | leader database, replica directory, zone records | schema load, replica bootstrap, record plan | failed base backup, foreign records | a replica is whole or re-bootstrapped; only owned records change |
| `cs_agent`, `controller_seed`, `controller_post_enroll` | rows of the region, token hash, `agent.yml`, the running agent, the reviewed fingerprint | preview, apply (two-step), enroll, deploy, restart, backfill | the database changes between review and apply; the file is rendered long after it was checked | what is applied is what was reviewed; the hash is never lost; immutable keys are kept |
| `tailscale` | the daemon, its login and preferences, the address fact | start, read, compare, join, record | a daemon that is still loading, an expired key, a node set up by hand | a member is never joined again; the advice leaves nothing but flags no setting satisfies |
| `controller` | portal environment, `cstacks` script | prepare, upgrade, rollback commands | append-only environment | immutable secrets are never re-rendered |
| the play order of `site.yml`, `add-region.yml` | what each play makes for later ones | plays | partial runs | every play's inputs exist |
| the other roles (base system, metrics, logs, registry, web) | files, packages, containers | idempotent tasks | none beyond a re-run | convergence |

How they interact: `maintain-nodes` includes the node-side roles inside the hold,
so they notify handlers that the cycle must flush before the release; among them
`firewall`, whose table is only ever applied through its own safe apply, and
`docker_tls`, whose restart is deferred to the stopped window. `preflight`
refuses runs that the firewall's pending rollbacks forbid. The controller sees a
node only through the agent's hold changelog.

The hazards, each at its line, are in `PROJECT.json`. Those without a property
say why.

## 2. The modules

### NodeUpgrade, NodeUpgradeProps, MCNodeUpgrade

`NodeUpgrade` is the cycle of ONE node, for both playbooks: the ansible process
(`pc`, `pb`, `mem`, `pend`), the node (`file`, `hold`, `up`, `docker`,
`aptHeld`, `rebootReq`, `certStale`, `stale`) and the controller's view of it
(`ctlHold`, `seen`). `before` is a history variable: what ran when the hold was
placed.

| variable | in the code |
|---|---|
| `pc` | the task file about to run; `idle` without a run |
| `mem`, `file` | `node_upgrade_state` and `state.json`; a record of the phases done, the recorded and the accepted containers, `converge_started`, `releasing` and the decision |
| `pend` | handlers notified and not flushed; lost with the run |
| `stale` | handlers whose file is changed on disk and whose effect is not live |
| `hold` | `local` of `cs-agent maintenance status`: `none`, this `run`'s, or an`other`'s |
| `seen` | the controller has read the latest hold entry |

An action is a task file, or the part of one up to the next point where a crash
or another party can make a difference. A hold check (`hold_check.yml`) and the
work it protects are two steps, because the hold can go between them; doing a step
and writing its phase is one action with two outcomes, the write done or failed
(`Save`), and a run can die before it. `NextStep` is the chain of `when:` of
`cycle.yml` and `maintain_cycle.yml`: the phases on disk decide what a resumed run
does. A failing task goes to `rescue`, where `maintain-nodes` may release the hold
by itself (R5); a dying run goes to `idle` with nothing but the node and
`state.json` left.

Abstractions: container identities do not change (the recorded entries resolve);
time, batches and retries are one nondeterministic outcome (`MaintainNode` has
them); a docker package set is behind, at, or ahead of its pins; check mode and the
settle pause are out. The controller and people are external: they are modelled
from what the role's code and messages expect of them (a 15 s poll of the hold,
`HealthCheck` starting active containers on a node that is not paused, an operator
clearing or placing a hold, the controller's own maintenance, a reboot).

### NodeUpgradeFilters, MaintainNode, MaintainNodeProps, MCMaintainNode

`NodeUpgradeFilters` has the filters of `node_upgrade.py` as operators: what the
run makes of `cs-agent maintenance on` (`ClassifyOn`, `OnRetry`) and of its status
(`AgentStatus`), which containers are recorded and what became of them
(`SelectRunningTenants`, `ResolveRecorded`, `Required`), docker against its pins
(`DockerDrift`), files against the second dockerd started in (`FilesNewerThan`),
and the decision (`MaintainDecide`).

`MaintainNode` is the cycle of `NodeUpgrade` at the grain these filters need: an
answer of cs-agent is a document and an rc, containers have names and ids, dockerd
has the second it started in and the certificate it loaded, and
`files/node-upgrade-containers` starts containers round by round. A run fails or
dies between any two steps and between a step's work and its mark; its
`docker stop` batch survives it: `orphans` are the stops of dead runs, which may
still hit a container in any later step, also while a resumed run starts it (`hit`).
The check of the stop waits for its own run's helper only, as `stop.yml` does.
Between two runs a container is removed or recreated under its name, and started or
not; `revived` are the names started after `stopped` was marked, which a resume does
not look at again. A certificate may be written in any second, also the one dockerd
started in.

Abstractions: the release is one step (`NodeUpgrade` has its crash windows); the
certificate, its key and the CA are one file; an orphaned *start* helper
ends with its run; a drop-in changed after somebody restarted dockerd without a
daemon-reload is not told apart.

### DataDiskProbe, NodeStorage, NodeStorageProps, StorageContract, MCNodeStorage

`DataDiskProbe` has `node_storage.py`: what `BuildProbe` makes of blkid, lsblk,
findmnt, stat and find, and `Classify`, the conjunction of every refusal.
`NodeStorage` is `tasks/`: one action per task that changes the node (mkfs, the
three mounts with their fstab lines, the bind sources, the drop-ins, the reload,
the verification), on a node that is met in any of the states the checks tell
apart. A mount can be cut short after its fstab line was written. Outside the run the
machine reboots with or without its disk, the next play starts docker, somebody
stops docker and unmounts (as a refusal asks), and somebody claims a blank disk.
`StorageContract` is what the role promises: a disk is formatted only while it is
blank, and once it has passed, docker's state goes to its filesystem alone;
`PromiseKept` says that the role implements it (`disk <- DiskHolds`,
`promised <- passed`).

Abstractions: the probe and mkfs are one step each; during a run nobody starts
docker or touches the mounts; the play that installs docker reloads systemd.

### SshSource, TailscaleMember, SeedPreview, AgentConfig, AttachRegion, AttachRegionProps, MCAttachRegion

`AttachRegion` is a node that is attached to an existing controller and converged
later: `add-region.yml` in one step or in two, `maintain-nodes.yml`, and
`--tags enroll` where an instance allows it (`TaggedRuns`). Four modules have its
filters:

| module | code | what |
|---|---|---|
| `SshSource` | `preflight_ssh.py`, the ssh accepts of `cs-static.nft.j2` | would the firewall let this run in again; what does the rendered table accept |
| `TailscaleMember` | `tailscale.py` | settings of a logged-in node against the role's flags, and the steps that reconcile them |
| `SeedPreview` | `controller_seed_preview.py`, gate G | the preview's lines, what is normalized away, the fingerprint |
| `AgentConfig` | `cs_agent_immutable.py`, `cs_agent_export.py`, `agent.yml.j2` | the immutable keys a render would change; a refused export configuration |

| variable | in the code |
|---|---|
| `inv` | the inventory's facts the modelled checks read |
| `node` | tailscaled and its preferences, the address and the local fact, the ssh accepts, `agent.yml`, the document the running agent started with |
| `db` | the controller's rows of the region |
| `run` | the playbook, its task (`Roles` is the order of the plays) and facts: `loggedIn`, the token hash, the preview, `stopped`, `notified` |
| `hist` | history: the fingerprint that was reviewed and what it showed, whether the database was changed since the preview, whether anything was since the review, whether advice was followed |

What tailscale, the tailnet and the controller's apply do is external, from what
the roles' tasks, messages and comments say of them. Membership is one thing and
routing another, as in `control-plane.md`: a member with `tailscale_access_only` is
joined, but the manifest names its address only when it and the controller both
route over the tailnet (`NodeTailnet`, `Manifest`), and only then its agent listens
everywhere. `FollowAdvice` does what a refusal names, the `tailscale set` and the
steps by hand, and leaves the inventory alone: what no setting of the node can
satisfy (`Standing`: `--exit-node`, a flag the comparison does not know, an argument
that is no flag, a bad `--netfilter-mode`) is refused again. `debug prefs` that print
no document are refused at any read.

Abstractions: one node, one run at a time; the firewall is one step
(`FirewallApply` is the detail); during a run nobody joins the node or changes
its preferences by hand, and the inventory is edited between runs; the fingerprint
is the normalized document; an empty preview does not occur; a client's id is
normalized also where it is stable, as the role's README says; the immutable keys
are compared once, right before the hold, which is `NodeUpgrade`'s; the load
balancers' IPv6 addresses, which the second step writes after its apply
(`controller_seed` `main.yml:551-562`, `675-681`), are in neither the apply nor the
fingerprint.

### FirewallApply, MCFirewallApply

The safe apply of `roles/firewall` on all the hosts of a run. Per host: the table
on disk, in the kernel, in the two records and in the snapshot, the unit's two
flags, the pending rollback and whether it has fired; `kept` and `came` are history
variables. A table lets a fresh connection from the control host in (`LetsIn`), or
lets it in while the run's own source is in its set (`LetsRunIn`), or shuts it out.
`element` says which copies of the table hold that source: the opt-in puts it into
the loaded one (`AllowThisRun`), the snapshot lists it along, a rollback writes that
to the file, `Expire` drops it from the kernel at any moment. A run goes on over the
connection it has (`linked`), which any table lets live, until it is reset or the
host reboots. Linear strategy is
`Turn`: no host starts a task before all the others are done with the one before.
Up to the apply and after the check a lost host ends the run for everybody
(`RunDies`); in between it only gets a `problem`. The rollback can fire at any
moment, which covers every length of `firewall_rollback_seconds`.

Abstractions: the rollback script is one step (its first act is the marker the
run looks for); the allowance has no length, it may be over at once or never;
one run at a time.

## 3. What the runs check

| run | bounds | shows |
|---|---|---|
| `node_upgrade_faults` | 2 tenants, 1 system container, 1 handler that a resume re-notifies and 1 that its role re-applies, 3 faults | the cycle's properties below, for both playbooks |
| `node_upgrade_people` | the same with 2 faults and 2 acts of people or reboots, tenants symmetric | what survives interference |
| `maintain_node` | 4 containers (one a system container, one that waits for another, one accepted down), 2 runs that die, 3 seconds, 1 certificate, 1 outside act, 1 retry and 1 poll, 2 starts in 3 rounds | answers, seconds, identities, orphaned stops, the helper |
| `node_storage_runs` | 44 nodes, 2 runs that die, 2 reboots, 1 visit | classification and apply, the contract, and that a fresh node finishes |
| `attach_region` | 19 inventories, 4 ssh sources, 9 nodes, 4 databases, 3 runs, 1 outside event or death | attach and later converges |
| `firewall_two_hosts` | 2 hosts (symmetric), 3 tables (one lets in, one only with the run's source, one shuts ssh out), 2 runs, 1 fault, 1 reboot | hosts that wait for each other |
| `firewall_reruns` | 1 host, 4 tables, 3 runs, 2 faults, 1 reboot | what earlier runs left behind, the allowance, and that a host recovers |

Three faults are the run that dies, the resume that dies and a third failure in
the rescue or the release. Two tenants give a set that is stopped or started in
part, and one that runs and one that was down before. Two firewall hosts are
needed for one to hold the other's cancel up, two runs for one that leaves a file
or a snapshot and one that restores or skips. What a host's records and snapshots
keep from run to run does not depend on another host, so the third run and the
second fault are on one host. Three runs of an attach are a
preview, the reviewed apply and a converge. In `node_storage_runs`
two deaths and two boots are a node whose fstab is half written, the boot that
starts docker on it, and the same again. Three seconds are a start, a certificate
and a restart that can each share their second with another.

Properties of the cycle:

- `HeldWhileUnfinished`: while `state.json` records a cycle that may have changed
  the node, the run's hold is in place and the controller stands back.
- `DownOnlyWhileHeld`, `ExactRestore`: a tenant the cycle took down is down only
  under the hold, and at `off` exactly what ran before runs again.
- `DockerdNeverRestartsUnderTenants`, `StartedStaysUp`: no dockerd restart and no
  reboot under a tenant, and none after the start.
- `AutoReleaseOnlyUntouched`: the automatic release only follows a run, and
  earlier runs, that changed and stopped nothing.
- `ReleasedNodeIsConverged`, `NeverPastPins`, `RecordedOnce`: whoever interferes,
  a node is released with docker held and, where the cycle stopped anything, at
  its pins, with no lost handler; docker never passes its pins; the recorded list
  never changes.
- `UnfinishedCycleEnds` (liveness): an unfinished cycle ends, and without a hold.

Properties of `MaintainNode`: `AnswerIsTrue` (what the run makes of a lost,
late or wrong answer to `maintenance on` is what cs-agent did),
`ReleasedOnItsCertificate` and `NoNeedlessRestart` (the restart decision, in whole
seconds and after the run that knew died; only a certificate of the very second
dockerd started in may be passed over), `NothingRunsThroughTheRestart` (also not a
container recreated under a recorded name before the stop, and whatever dead runs
still stop), `DependentsComeUp` (the helper's rounds, unless an orphaned stop hit
them).

Properties of `FirewallApply`:

- `PassedHostKeepsItsTable`: a host reported as passed runs, records and will boot
  the new table, and no rollback is left, although its own may fire while slower
  hosts are verified.
- `RollbackKeepsAFirewall`: only a host that had no firewall is left without one.
- `RollbackLetsIn`, `RecordsAreVerified`: what a rollback puts back, and what the
  records name, is a table some run's fresh connection came through (`came`). With the
  opt-in that connection may have come on the run's own source, as `apply.yml:160-163`
  says; so this is not a claim that the table lets anybody in for good.
- `LockedOutRecovers` (liveness): a host that shuts ssh out lets it in again, or ends
  on a table that let a run in on an allowance that expired.

`RecordedHostBootsEmpty` is proved, not run: once a table is recorded, no boot brings
the source of an earlier run back; no file that a boot or a rollback loads lists it.

Properties of `NodeStorage`: `NothingHidden` (no mount of a run covers state that
was written to the root disk; a boot mounts what fstab has), `WritesToDataDisk` and `PassedStaysReady` (after any reboot
and any stop and unmount), `PromiseKept` (the refinement), `FreshNodeFinishes`
(liveness).

Properties of `AttachRegion`:

- `JoinedOnce`, `AgentHostIsTheNodes`: a node that is logged in is never joined
  again, in whatever state its daemon was read; where both ends route over the
  tailnet the row names the node's address of now and the agent listens there, and
  in every other case it is dialled on `primary_ip`.
- `AdviceLeavesOnlyFlags`: after the refusal's steps, a run is refused for settings
  only over flags of the inventory that no setting can satisfy.
- `NotLockedOut`: a table this run applies lets this run in.
- `AppliedIsReviewed`, `RefusedMeansChanged`, `NothingAfterTheStop`: the two steps
  of an attach, in both directions, and that the first one ends there.
- `CertificateFitsDomain`: no apply rotates a certificate onto a load balancer
  that answers on another domain.
- `NeverWithoutHash`, `ImmutableKeysKept`: `agent.yml` always has a token hash, and
  maintenance keeps its immutable keys.

`AppliedIsReviewed`, `CertificateFitsDomain` and `ImmutableKeysKept` are stated for
a database nobody changed between a run's own check and its write: the two are
separate connections, and the code has no answer to a change in between.

Every property has a mutant in `PROJECT.json`: a plausible mistake in one mapped
definition under which the run finds the property violated.

**Fairness.** `FairSpec` of the cycle asks for three things. Ansible takes the
next step of a run (`WF(RunStep)`). An operator re-runs the playbook of an
unfinished cycle, which every failure message of the role tells them to do
(`WF(StartRun)` on a node with a state). The controller polls every agent
(`WF(Poll)`). Faults are bounded, so runs eventually get through. Nothing is
assumed of people's other acts, hence `MaxExternal = 0` there: a controller-side
hold can legitimately block a release for good. The firewall's fairness is only
that systemd fires a timer nobody cancels; nothing is assumed of runs.
`LockedOutRecovers` asks nothing once a host has rebooted: the timer is transient,
and a host that reboots into a table that shuts ssh out has nothing left to undo
it; nor of a host left on a table that was verified on an allowance, which the role
announces. The storage role's fairness is that ansible takes the next step of a run
(`WF(RunStep)`), that a play that has not passed is run again, as every refusal says
(`WF(Classified)` while the node has not passed), and that a repair a refusal asks
for is made (`WF(Repair)`); deaths, boots and visits are bounded. `MaintainNode` and
`AttachRegion` state safety only. Deadlock is not checked for the firewall and the
attach, which legitimately stop after their last run.

**Where code and comments disagree.** Five runs are expected to be violated; each
checks a sentence of the repository.

- `PackagesWithRecordedStopped` (`packages.yml:2`): after the hold was cleared and
  placed again between two runs, the resumed run trusts the `stopped` phase and
  upgrades docker under the containers the controller recovered.
- `SkipsOnlyTheKeptTable` (`nftables.yml:59-60`): a run that ends between the
  cancel and the checksum leaves the verified table unrecorded; a later run that
  goes back to the recorded table is skipped while the kernel runs the newer one.
- `DockerdIsCurrent` (`maintain_decide.yml:23-25`): a certificate written after dockerd
  started, in the same second, is not newer in whole seconds; when the run that wrote
  it died, the node is released on the old one. `ReleasedOnItsCertificate` is what
  holds.
- `WritesToDataDisk` with lost handlers (`node_storage` `README.md:74-75`,
  `apply.yml:139`): a run that dies between the drop-ins and the reload of systemd
  leaves drop-ins the next run finds unchanged, so nothing reloads systemd, and
  docker started after an unmount writes to the root disk. `LosesHandlers` is the
  difference between the passing run and this one.
- `NeverWithoutHash` with `--tags enroll` (`cs_agent` `README.md:222-227`): the tag
  is on the dynamic includes, whose tasks do not inherit it, and on the deploy; so
  the documented command writes an `agent.yml` with an empty token hash. The
  passing run is the playbooks without the tag.

Three more sentences say more than the code does. No run states them; what does hold
is in a property that is checked or proved.

- `apply.yml:309-311` tells every failed host that it restores its previous firewall
  by itself. A host lost between the cancel and the check of its rollback keeps the
  table that was verified (`Cancel`, then `Check` with `unknown`).
- `cs-static.nft.j2:60-64`: "every apply and every reboot" starts the set of the run's
  source empty. Before the first record, the next run's snapshot of the running table
  lists the source of a run that died, a rollback writes that to the file, and a reboot
  loads it again. `RecordedHostBootsEmpty` is what holds.
- `tailscale` `README.md:89`, `107-109`: extra flags are "compared on every later run".
  A node the role joined with `--exit-node`, or with a flag the comparison does not
  know, is refused by every later run, whatever its settings are
  (`AdviceLeavesOnlyFlags`).

## 4. What is proved

Every safety property a passing run checks, invariant or action property, is also a
theorem, for every value of the constants, and so is the refinement of the storage
contract. `tlapm` proves them with nothing left out. The runs find out on a small
instance what the theorems say of any; each invariant below passes TLC on the run of
its module, too, but for `ReviewedInv`, which says that some rows exist.

Each component's proof has the same shape: an invariant of named parts,
one lemma that it holds at first, one per part (or per action) that a step keeps
it, and a short theorem per property.

| module | what holds in general | assumed of the constants |
|---|---|---|
| `NodeUpgrade_proofs`, `NodeUpgradeCycle_proofs` | any containers and handlers, any number of faults and outside acts | tenants and system containers are disjoint, so are the two kinds of handlers, the bounds are numbers |
| `MaintainNode_proofs` | any containers, any dependencies among them, any retries, polls, rounds, deaths, seconds and certificates | `NamesAssumption`: docker never gives out an id twice; `LimitsAssumption` |
| `FirewallApply_proofs` | any hosts and tables, any number of runs, faults and reboots | `TablesAssumption` |
| `NodeStorage_proofs` | any bind targets, any node that `NodesAssumption` covers, any deaths, boots and visits | `PathsAssumption`: at least one bind target, and none is the data mount; `NodesAssumption`: how a node can be met |
| `AttachRegion_proofs`, on `TailscaleMember_proofs` and `SeedPreview_proofs` | any inventories, ssh sources, nodes and databases that the assumptions cover, any number of runs and outside events | `InventoriesAssumption`, `NodeStatesAssumption` (an `agent.yml` on a node has a hash; without tailscale there is no login), `DatabasesAssumption` |

**The cycle.** `UnfinishedIsHeld` needs `CopyInv`: outside the rescue the run's copy
equals `state.json`, and in the rescue it is never behind on `converge_started`,
which is why the automatic release cannot fire after the converge was noted.
`OrderInv` says a release begins after the converge and is noted before its phase,
`HoldInv` that undisturbed nobody else's hold appears and the controller has seen
the run's. `PinsAreKept` adds that docker's packages are held whenever the OS
upgrade is next. The other seven rest on `PhaseInv`, the order of the phases in
`state.json` together with what has been done at each task (`Ordered`, `AtStep`),
which gives `ListIsWrittenOnce` at once. On it stand `NodeInv` (docker's packages are
unheld only inside the package phase and at their pins after it; a changed file waits
for its handler or for a restart only in an unfinished, noted converge or in the
window; what the rescue sets aside has not changed the node) for
`ReleasedIsConverged` and `OnlyUntouchedIsReleased`, and `TenantInv` (what ran
when the hold was placed runs until it is recorded, is what is recorded, and runs
again after the start) for `DownIsHeld`, `RestoreIsExact`,
`TenantsAreDownForRestarts` and `StartedAreLeftAlone`.

**`MaintainNode`.** `IdsInv` ties a container's id to its name, so that whatever a
recorded container is resolved to is the one of its name (`ResolvedIs`). `AnswerInv`
says a run asks only where nobody holds the node, and what the answer means for the
hold that was written. `LoadedInv` says that a certificate later than dockerd's
start is one it has not loaded, one it has not loaded is not earlier than its start,
and on a converged node a later one
is decided to be loaded: no step of the window passes over it unless a reboot is
pending that will load it. `DownInv` says that from the check of the stop until the
reboot step nothing recorded runs but what was recreated and started since; what dead
runs still stop only makes it less. `StartInv` counts the helper's rounds, for as long
as no orphaned stop hits them: a container still down was tried in each of
them, and everything that comes up within k attempts is up after k rounds.
`WaitingComeUp` needs the recursive function `Reach` to satisfy its recursion for
every k; `ReachUnfolds` proves it by induction over the naturals, in the form of the
library's theorem that a non-empty set has a least element (`SetInduction`), which
takes a set and not an operator.

**The firewall.** `Inv` says for each host what each task can rely on:
`Records` (only tables a run came through, and those a pending rollback needs are
there),
`Prepared`, `Applied` (unless the rollback fired, the wanted table is on disk and
enabled), `Kept` (after the check nothing is left that could take the table away).
The run's order over hosts is not needed. `LockedOutIsPending` is the safety half of
`LockedOutRecovers`: a locked out host that did not reboot has a rollback scheduled, or
runs a table that let a run in on its allowance. It adds `NoRebootInv`, which says so
of every task, `CameInv` (a run comes only through tables that let it in, with its
source or without) and `FiredInv` (a rollback that fired left a table a run came
through on disk). `BootForgetsTheSource` adds `ListedInv`: only the snapshot lists a run's
source, and no rollback to it is pending once a table is recorded.

**The storage role.** `NodeInv` relates lines, mounts and directories, `RunInv` says
what a run under way knows, `LinesInv` that lines are written path by path,
`DropinsInv` that systemd knows the drop-ins when the run verifies, `PassedInv` that a
node that passed brings every mount back before its daemons start. `StateIsNotHidden`
holds of every instance; `WritesStayOnTheDisk`, `PassedIsReady` and `ContractIsKept` of
those with `~LosesHandlers`, without which the first is false (section 3).
`ContractIsKept` is the refinement: `Init` maps to the contract's, every step to a
step of it or a stutter.

**The attach.** `Base` has the types and the order of the plays: `NotSkipped`, that a
task which is due whenever its successor is cannot be jumped over, and so `Before`,
that `deploy` only follows `enroll` and `ts_join` only `ts_status`. Each theorem
adds what it needs: `StopInv`, `HashInv` (for `HashIsKept`, which is of playbooks
without `--tags enroll`; with it the property is false), `JoinInv` (a node about to
be joined has no login, pending approval included), `CoveredInv`, `AddressInv`,
`CheckInv` (unless the rows were touched, a converge past its check would render the
keys the node has), `ReviewedInv` and `SeenInv` (what was approved, and that the rows
are still those of the preview), `ChangedInv`, `AdviceInv`. `SeedPreview_proofs` has
what a fingerprint says: it depends on the rows and the manifest alone, not on the ids
and times a preview prints (`FingerprintIs`, for `RefusalMeansChange`), and tells what
its apply writes (`SameLinesSameWrites`, for `WritesAreReviewed`).
`TailscaleMember_proofs` has what `tailscale set` and the admin console leave of each
difference.

What the proofs found:

- `OnlyFlagsRemain` (`AdviceLeavesOnlyFlags`) cannot say that the advice ends every
  refusal: `--exit-node`, a flag the comparison does not know, an argument and a bad
  netfilter mode are refused whatever the node's settings are, so the theorem says that
  nothing else is left, for every inventory.
- In `AutoReleaseOnlyUntouched` an operator's own clearing of the hold while a run
  is in its rescue looks like the release; the property now says `ext' = ext`.
- Where two guards of a `CASE` overlapped (what blkid says of a partition, the daemon's
  state while it loads) the model said nothing definite, although TLC picks the first;
  they are `IF`s now.
- `NamesAssumption` had to say that docker's ids are unique across names: a recorded
  container is found by id first, so an id that came back under another name would be
  stopped and started in its place.

Only model-checked: liveness (`UnfinishedCycleEnds`, `LockedOutRecovers`,
`FreshNodeFinishes`), which is out of the prover's reach, as is ENABLED; and the five
runs that find a counterexample, which need none.

## 5. Not modelled

- Site building: `vault`, `powerdns`, `controller`, `backup_server`, the metrics,
  log, registry and web roles, and `site.yml`'s order. Their tasks are idempotent
  files, packages and containers, or guards in front of an external service
  (vault's init keys, a base backup, an API of zone records). The two crash windows
  among them that a re-run may not repair are listed as hazards.
- `docker_tls` beyond its restart: how vault issues the certificate.
- `node_kernel`'s filter, which decides from one `networkctl` answer how the uplink
  keeps accepting router advertisements: no state to go wrong.
- `parse_apt_sim`, which only feeds reports; wording, check mode, the settle pause.
- Two runs at once, and a `serial` play over several nodes.
- The inventory checks of `preflight`, templates, and the packet-level meaning of
  the table beyond ssh.

## 6. Plan

Done: every component in section 2, with its safety proved. Left, most useful first:
the fleet of `serial: 1` (a failed play re-run without a limit while the first node is
held), two runs from two control hosts, the reboot between a firewall's apply and
verify, and `vault`'s chain of guarded files. `NodeUpgrade` and `MaintainNode` are two
models of one cycle; that the second implements the first, with the containers'
identities forgotten, is the refinement still to be stated.
