---------------------------- MODULE NodeStorage ----------------------------
(***************************************************************************)
(* roles/node_storage on one node: probe, classify, apply, verify.  The    *)
(* plays that follow install docker and start it (StartDaemons).           *)
(*                                                                         *)
(* A run may die before any task and inside a mount task, the machine may  *)
(* reboot (with its data disk or without), somebody may write to a blank   *)
(* disk between the probe and mkfs, and somebody may stop docker and       *)
(* unmount everything, as the role's own refusals tell him to.  Nobody     *)
(* starts docker or touches a mount while a run is under way.              *)
(* The probe is one step, mkfs is another: neither is seen half done.      *)
(***************************************************************************)
EXTENDS DataDiskProbe

CONSTANTS
    InitialNodes,    \* the nodes a first run may find
    LosesHandlers,   \* a run may die between the drop-ins and the reload
    MaxDeaths,       \* bound: runs that die
    MaxBoots,        \* bound: reboots
    MaxVisits        \* bound: times somebody stops docker and unmounts

ASSUME BoundsAssumption ==
    /\ LosesHandlers \in BOOLEAN
    /\ MaxDeaths \in Nat /\ MaxBoots \in Nat /\ MaxVisits \in Nat

VARIABLES
    \* the run
    pc,         \* the task about to run, "idle" between runs
    item,       \* the bind entry the mount loop is at
    state,      \* node_storage_state
    mounted,    \* the paths node_storage_probe.mounts found something at
    notified,   \* the systemd reload has been notified
    \* the node
    dev,        \* what docker_data_device is: "disk", or an oddity
    content,    \* what the device carries
    attached,   \* the data disk is there
    up,         \* the machine has booted
    extra,      \* where else the disk is mounted
    mnt,        \* what is mounted at each path, in mount order
    root,       \* what the path is on the root disk
    fstab,      \* its line: "none", "ours", or "hand" (no project quota)
    sources,    \* the bind source directories on the data filesystem
    dropins,    \* RequiresMountsFor: "none", "written", "loaded" by systemd
    daemons,    \* docker and containerd: "absent", "stopped", "running"
    \* bookkeeping
    stores,     \* history: the filesystems their state was written to
    passed,     \* history: the role has passed on this node
    deaths, boots, visits

runVars  == <<pc, item, state, mounted, notified>>
diskVars == <<dev, content, attached, extra, sources>>
pathVars == <<mnt, root, fstab>>
unitVars == <<dropins, daemons, up>>
histVars == <<stores, passed>>
vars == <<runVars, diskVars, pathVars, unitVars, histVars, deaths, boots, visits>>

RootKinds == {"absent", "empty", "written", "symlink", "file", "unlisted", "unstatted"}
Contents  == {"blank", "ours", "unlabelled", "ext4", "gpt", "ambivalent", "cached"}
Oddities  == {"file", "silent", "rootdisk", "part", "parent", "unreadable"}

Options   == {"prjquota", "pquota", "pqnoenforce"}
Mounts    == [dev : {Disk, OtherDisk}, sub : Paths \cup {"/"}, options : SUBSET Options]

NothingMounted == [p \in Paths |-> <<>>]

Sits(m, p)     == m[p] # <<>>
Visible(m, p)  == m[p][Len(m[p])]

\* The nodes the model covers.  The disk is mounted only where it carries the
\* role's filesystem, from a directory that exists; a path with a line or a
\* mount is there; the drop-ins are the role's own.
ASSUME NodesAssumption == \A n \in InitialNodes :
    /\ n.dev \in {"disk"} \cup Oddities /\ n.content \in Contents
    /\ n.extra \subseteq {<<"mnt">>} \cup {<<p, "volumes">> : p \in Targets}
    /\ n.mnt \in [Paths -> Seq(Mounts)] /\ n.root \in [Paths -> RootKinds]
    /\ n.fstab \in [Paths -> {"none", "hand", "ours"}] /\ n.sources \subseteq Targets
    /\ n.dropins = "none" /\ n.daemons \in {"absent", "stopped", "running"}
    /\ n.stores \subseteq {"root", "disk", "elsewhere"}
    /\ \A p \in Paths :
          /\ \A i \in DOMAIN n.mnt[p] : n.mnt[p][i].dev = Disk => n.content = "ours"
          /\ n.fstab[p] # "none" \/ Sits(n.mnt, p) =>
                n.root[p] \notin {"absent", "symlink", "file"}
          /\ p \in Targets /\ Sits(n.mnt, p) /\ Visible(n.mnt, p).dev = Disk
                /\ Visible(n.mnt, p).sub = p => p \in n.sources

Init ==
    /\ pc = "idle" /\ item = 1 /\ state = "unset" /\ mounted = {}
    /\ notified = FALSE
    /\ attached = TRUE /\ up = TRUE
    /\ \E n \in InitialNodes :
          /\ dev = n.dev /\ content = n.content /\ extra = n.extra
          /\ mnt = n.mnt /\ root = n.root /\ fstab = n.fstab
          /\ sources = n.sources /\ dropins = n.dropins
          /\ daemons = n.daemons /\ stores = n.stores
    /\ passed = FALSE
    /\ deaths = 0 /\ boots = 0 /\ visits = 0

-----------------------------------------------------------------------------
(* What the node answers tasks/probe.yml. *)

BlkidSays ==
    LET Found(keys) == [rc |-> 0, keys |-> keys, stderr |-> FALSE]
    IN  IF dev = "unreadable" THEN [rc |-> 2, keys |-> NoKeys, stderr |-> TRUE]
        ELSE CASE content = "ours"       -> Found([DEVNAME |-> "d", TYPE |-> "xfs", LABEL |-> "dockerdata"])
               [] content = "unlabelled" -> Found([DEVNAME |-> "d", TYPE |-> "xfs"])
               [] content = "ext4"       -> Found([DEVNAME |-> "d", TYPE |-> "ext4", LABEL |-> "dockerdata"])
               [] content = "gpt"        -> Found([DEVNAME |-> "d", PTTYPE |-> "gpt"])
               [] content = "ambivalent" -> [rc |-> 8, keys |-> NoKeys, stderr |-> FALSE]
               [] OTHER                  -> [rc |-> 2, keys |-> NoKeys, stderr |-> FALSE]

LsblkSays ==
    LET here == {<<p>> : p \in {q \in Paths : \E i \in DOMAIN mnt[q] : mnt[q][i].dev = Disk}}
        child == [type |-> "part", mountpoints |-> IF dev = "rootdisk" THEN {Root} ELSE {Null}]
    IN  IF dev = "silent" THEN [rc |-> 32, devices |-> <<>>]
        ELSE [rc |-> 0, devices |-> <<
               [type        |-> IF dev = "part" THEN "part" ELSE "disk",
                fstype      |-> IF content \in {"ours", "unlabelled"} THEN "xfs"
                                ELSE IF content \in {"ext4", "cached"} THEN "ext4" ELSE "",
                mountpoints |-> here \cup extra \cup {Null},
                children    |-> IF dev \in {"rootdisk", "parent"} THEN {child} ELSE {}] >>]

StatSays(p) ==
    IF root[p] = "unstatted" THEN [failed |-> TRUE]
    ELSE [stat |-> IF mnt[p] # <<>> \/ root[p] \in {"empty", "written", "unlisted"}
                   THEN "directory" ELSE root[p]]

FindSays(p) ==
    IF mnt[p] # <<>> THEN [rc |-> 0, entries |-> p # DataMount \/ sources # {}]
    ELSE IF root[p] \in {"absent", "unlisted", "unstatted"} THEN [rc |-> 1, entries |-> FALSE]
    ELSE [rc |-> 0, entries |-> root[p] = "written"]

Report ==
    [ realpath |-> [rc |-> IF attached THEN 0 ELSE 1],
      isblk    |-> dev # "file",
      blkid    |-> BlkidSays,
      lsblk    |-> LsblkSays,
      findmnt  |-> [p \in Paths |-> [rc |-> IF mnt[p] = <<>> THEN 1 ELSE 0, filesystems |-> mnt[p]]],
      stat     |-> [p \in Paths |-> StatSays(p)],
      find     |-> [p \in Paths |-> FindSays(p)] ]

Probe   == BuildProbe(Report)
Verdict == Classify(Probe)

-----------------------------------------------------------------------------
(* The run. *)

Goto(label) == pc' = label

EndRun ==
    /\ pc' = "idle" /\ item' = 1 /\ state' = "unset" /\ mounted' = {}
    /\ notified' = FALSE

\* probe.yml and classify.yml: a refusal fails the host, nothing is changed.
Classified ==
    /\ pc = "idle" /\ up
    /\ IF Verdict = "refuse" THEN EndRun
       ELSE /\ Goto("mkfs")
            /\ state' = Verdict
            /\ mounted' = {p \in Paths : Mounted(Probe, p)}
            /\ UNCHANGED <<item, notified>>
    /\ UNCHANGED <<diskVars, pathVars, unitVars, histVars, deaths, boots, visits>>

\* mkfs.xfs without -f: it refuses a disk something has appeared on.
Mut_MkfsAccepts == TRUE

MkfsAccepts == content = "blank"

\* Only `blank` is formatted.
CreateFilesystem ==
    /\ pc = "mkfs"
    /\ \/ /\ state # "blank"
          /\ Goto("mount")
          /\ UNCHANGED <<item, state, mounted, notified, content, sources>>
       \/ /\ state = "blank" /\ MkfsAccepts
          /\ content' = "ours" /\ sources' = {}
          /\ Goto("mount")
          /\ UNCHANGED <<item, state, mounted, notified>>
       \/ /\ state = "blank" /\ ~MkfsAccepts
          /\ EndRun
          /\ UNCHANGED <<content, sources>>
    /\ UNCHANGED <<dev, attached, extra, pathVars, unitVars, histVars, deaths, boots, visits>>

\* ansible.posix.mount: `present` writes the fstab line only, `mounted` makes
\* the mountpoint, writes the line, mounts, and takes the line back if it fails.
MountState(p) == IF p \in mounted THEN "present" ELSE "mounted"

CanMount(p) == attached /\ content = "ours" /\ (p # DataMount => p \in sources)

\* Every path gets its line, the ones already mounted too.
Mut_FstabWith(p) == IF p \in mounted THEN fstab ELSE [fstab EXCEPT ![p] = "ours"]

FstabWith(p) == [fstab EXCEPT ![p] = "ours"]

Mut_MadeDirectory(p) == root

MadeDirectory(p) == [root EXCEPT ![p] = IF @ = "absent" THEN "empty" ELSE @]

Mount(p, next) ==
    /\ \/ /\ MountState(p) = "present"
          /\ fstab' = FstabWith(p)
          /\ next
          /\ UNCHANGED <<mnt, root>>
       \/ /\ MountState(p) = "mounted" /\ CanMount(p)
          /\ fstab' = FstabWith(p)
          /\ mnt' = [mnt EXCEPT ![p] = Append(@, Wanted(p))]
          /\ root' = MadeDirectory(p)
          /\ next
       \/ /\ MountState(p) = "mounted" /\ ~CanMount(p)
          /\ EndRun
          /\ UNCHANGED pathVars
    /\ UNCHANGED <<diskVars, unitVars, histVars, deaths, boots, visits>>

\* The UUID is read again first, which needs the filesystem mkfs made.
MountData ==
    /\ pc = "mount"
    /\ Mount(DataMount, Goto("sources") /\ UNCHANGED <<item, state, mounted, notified>>)

\* After the mount, or they would land on the root disk underneath it.
Mut_CreateBindSources ==
    /\ pc = "sources"
    /\ sources' = IF state = "blank" THEN Targets ELSE sources
    /\ Goto("bind")
    /\ UNCHANGED <<item, state, mounted, notified, dev, content, attached, extra, pathVars, unitVars,
                   histVars, deaths, boots, visits>>

CreateBindSources ==
    /\ pc = "sources"
    /\ sources' = IF state = "ready" THEN sources ELSE Targets
    /\ Goto("bind")
    /\ UNCHANGED <<item, state, mounted, notified, dev, content, attached, extra, pathVars, unitVars,
                   histVars, deaths, boots, visits>>

BindMount ==
    /\ pc = "bind"
    /\ Mount(BindTargets[item],
             /\ IF item < Len(BindTargets) THEN item' = item + 1 /\ Goto("bind")
                                           ELSE item' = 1 /\ Goto("dropins")
             /\ UNCHANGED <<state, mounted, notified>>)

\* A drop-in that is already there is not changed, and notifies nothing.
WriteDropins ==
    /\ pc = "dropins"
    /\ notified' = (dropins = "none")
    /\ dropins' = IF dropins = "none" THEN "written" ELSE dropins
    /\ Goto("flush")
    /\ UNCHANGED <<item, state, mounted, diskVars, pathVars, daemons, up, histVars,
                   deaths, boots, visits>>

\* No drop-ins at all: what the daemons' units had before this role.
Mut_FlushHandlers ==
    /\ pc = "flush"
    /\ Goto("verify")
    /\ UNCHANGED <<item, state, mounted, notified, diskVars, pathVars, unitVars, histVars,
                   deaths, boots, visits>>

FlushHandlers ==
    /\ pc = "flush"
    /\ dropins' = IF notified THEN "loaded" ELSE dropins
    /\ Goto("verify")
    /\ UNCHANGED <<item, state, mounted, notified, diskVars, pathVars, daemons, up, histVars,
                   deaths, boots, visits>>

\* The re-probe must say `ready`; the host fails otherwise.
Verify ==
    /\ pc = "verify"
    /\ passed' = (passed \/ Verdict = "ready")
    /\ EndRun
    /\ UNCHANGED <<diskVars, pathVars, unitVars, stores, deaths, boots, visits>>

RunStep ==
    \/ CreateFilesystem \/ MountData \/ CreateBindSources \/ BindMount
    \/ WriteDropins \/ FlushHandlers \/ Verify

-----------------------------------------------------------------------------
(* What happens to the run and to the node. *)

RunDies ==
    /\ pc # "idle" /\ deaths < MaxDeaths
    /\ pc = "flush" => LosesHandlers
    /\ EndRun
    /\ deaths' = deaths + 1
    /\ UNCHANGED <<diskVars, pathVars, unitVars, histVars, boots, visits>>

\* The run dies inside a mount task that has written the line already.
MountIsCutShort ==
    /\ pc \in {"mount", "bind"} /\ deaths < MaxDeaths
    /\ LET p == IF pc = "mount" THEN DataMount ELSE BindTargets[item]
       IN  /\ MountState(p) = "mounted"
           /\ fstab' = FstabWith(p)
           /\ root' = MadeDirectory(p)
    /\ EndRun
    /\ deaths' = deaths + 1
    /\ UNCHANGED <<diskVars, mnt, unitVars, histVars, boots, visits>>

\* A blank disk gets a filesystem from somebody else.
DiskIsClaimed ==
    /\ content = "blank" /\ attached /\ dev = "disk"
    /\ content' = "ext4"
    /\ UNCHANGED <<runVars, dev, attached, extra, sources, pathVars, unitVars, histVars,
                   deaths, boots, visits>>

\* The paths' fstab lines, mounted over what `m` has already.
FromFstab(m) ==
    [p \in Paths |->
        IF m[p] # <<>> \/ fstab[p] = "none" THEN m[p]
        ELSE <<[Wanted(p) EXCEPT !.options = IF fstab[p] = "ours" THEN @ ELSE {"pqnoenforce"}]>>]

LinesWork(isAttached) ==
    \A p \in Paths : fstab[p] # "none" =>
        isAttached /\ content = "ours" /\ (p # DataMount => p \in sources)

\* The daemons write their state to whatever is mounted at their paths in `m`.
PlaceOf(m, p) ==
    IF m[p] = <<>> THEN "root"
    ELSE IF Visible(m, p).dev = Disk THEN "disk" ELSE "elsewhere"

WriteState(m) ==
    /\ daemons' = "running"
    /\ mnt' = m
    /\ stores' = stores \cup {PlaceOf(m, p) : p \in Targets}
    /\ root' = [p \in Paths |-> IF p \in Targets /\ m[p] = <<>> THEN "written" ELSE root[p]]

\* Enabled units start on a boot.  No `nofail`: a line that does not mount
\* stops the boot before they do.
Boot(isAttached) ==
    /\ attached' = isAttached
    /\ up' = LinesWork(isAttached)
    /\ extra' = {}
    /\ dropins' = IF dropins = "none" THEN "none" ELSE "loaded"
    /\ IF up' /\ daemons # "absent" THEN WriteState(FromFstab(NothingMounted))
       ELSE /\ mnt' = IF up' THEN FromFstab(NothingMounted) ELSE NothingMounted
            /\ daemons' = IF daemons = "absent" THEN "absent" ELSE "stopped"
            /\ UNCHANGED <<stores, root>>
    /\ EndRun
    /\ UNCHANGED <<dev, content, sources, fstab, passed, deaths, visits>>

Reboot ==
    /\ boots < MaxBoots
    /\ boots' = boots + 1
    /\ \E isAttached \in BOOLEAN : Boot(isAttached)

\* The disk is attached again and the machine started.
Repair ==
    /\ ~attached \/ ~up
    /\ Boot(TRUE)
    /\ UNCHANGED boots

\* The next play installs docker, where it is not installed, once the role has
\* passed (its packages reload systemd); where it is, anybody may start it.
\* RequiresMountsFor mounts the lines of its paths first.
StartDaemons ==
    /\ pc = "idle" /\ up
    /\ daemons = "stopped" \/ (daemons = "absent" /\ passed)
    /\ LET loaded == dropins = "loaded" \/ (daemons = "absent" /\ dropins = "written")
       IN  /\ loaded => LinesWork(attached)
           /\ WriteState(IF loaded THEN FromFstab(mnt) ELSE mnt)
           /\ dropins' = IF loaded THEN "loaded" ELSE dropins
    /\ UNCHANGED <<runVars, diskVars, fstab, up, passed, deaths, boots, visits>>

\* "Stop docker and containerd, unmount": what the refusals ask for.
StopAndUnmount ==
    /\ pc = "idle" /\ up /\ visits < MaxVisits
    /\ mnt # NothingMounted
    /\ visits' = visits + 1
    /\ mnt' = NothingMounted /\ extra' = {}
    /\ daemons' = IF daemons = "running" THEN "stopped" ELSE daemons
    /\ UNCHANGED <<runVars, dev, content, attached, sources, root, fstab, dropins, up, histVars,
                   deaths, boots>>

Next ==
    \/ Classified \/ RunStep
    \/ RunDies \/ MountIsCutShort \/ DiskIsClaimed
    \/ Reboot \/ Repair \/ StartDaemons \/ StopAndUnmount

Spec == Init /\ [][Next]_vars

\* Somebody runs the play again after a run that did not pass, and attaches a
\* disk that went missing; ansible runs the tasks of a run it has begun.
FairSpec ==
    /\ Spec
    /\ WF_vars(Classified /\ ~passed)
    /\ WF_vars(RunStep)
    /\ WF_vars(Repair)
=============================================================================
