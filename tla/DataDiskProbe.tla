--------------------------- MODULE DataDiskProbe ---------------------------
(***************************************************************************)
(* roles/node_storage/filter_plugins/node_storage.py: what the role makes  *)
(* of the commands it ran on the node (BuildProbe), and the one decision   *)
(* whether a disk may be formatted, mounted, left alone or must be refused *)
(* (Classify).                                                             *)
(*                                                                         *)
(* A result of a command is a record with its `rc`; only what the filter   *)
(* tells apart is kept of its output.  A refusal's wording is left out, so *)
(* the checks that refuse are conjuncts: their order picks only the words. *)
(***************************************************************************)
EXTENDS Naturals, Sequences

CONSTANTS
    DataMount,     \* node_storage_mount, /var/lib/docker-data
    BindTargets    \* the targets of node_storage_binds, in order

Targets == {BindTargets[i] : i \in DOMAIN BindTargets}
Paths   == {DataMount} \cup Targets

ASSUME PathsAssumption ==
    /\ BindTargets \in Seq(Targets) /\ BindTargets # <<>>
    /\ DataMount \notin Targets

\* The one device docker_data_device resolves to, and any other one.
Disk      == "disk"
OtherDisk == "other"

\* Nothing: no filesystem visible at a path, no lsblk document.
None == [none |-> TRUE]

\* A mount is what findmnt prints of it: the device, the subdirectory of it
\* ("/" for the root, a bind target for the directory it is bound from) and
\* the options that are about quotas.
MountOf(d, s, o) == [dev |-> d, sub |-> s, options |-> o]
Wanted(p) == MountOf(Disk, IF p = DataMount THEN "/" ELSE p, {"prjquota"})

\* "pqnoenforce" only accounts.
HasPrjquota(options) == options \cap {"prjquota", "pquota"} # {}

-----------------------------------------------------------------------------
(* The parsers. *)

Ran(result) == "rc" \in DOMAIN result

NoKeys == [k \in {} |-> ""]

\* rc 2 is "no signature" and also "could not read the device": the second
\* complains on stderr.
BlkidKeys(result) ==
    IF ~Ran(result) \/ result.rc = 2 THEN NoKeys
    ELSE IF result.rc = 0 THEN result.keys
    ELSE [BLKID_RC |-> result.rc]

\* A blkid that exits 2 and complains could not read the device, and says
\* nothing about what is on it.
BlkidComplains(result) == Ran(result) /\ result.rc = 2 /\ result.stderr

Lsblk(result) ==
    IF ~Ran(result) \/ result.rc # 0 \/ result.devices = <<>> THEN None
    ELSE Head(result.devices)

\* A stack of filesystems is listed in mount order; a process sees the last.
Findmnt(result) ==
    IF ~Ran(result) \/ result.rc # 0 \/ result.filesystems = <<>> THEN None
    ELSE result.filesystems[Len(result.filesystems)]

\* A stat that failed or did not run says nothing of the path.
PathType(result) == IF "stat" \in DOMAIN result THEN result.stat ELSE "unknown"

\* `report` is everything tasks/probe.yml registered.
BuildProbe(report) ==
    LET isBlock == Ran(report.realpath) /\ report.realpath.rc = 0 /\ report.isblk
        type    == [p \in Paths |-> PathType(report.stat[p])]
        mounts  == [p \in Paths |-> Findmnt(report.findmnt[p])]
        Listed(p) == Ran(report.find[p]) /\ report.find[p].rc = 0
    IN  [ device      |-> Ran(report.realpath) /\ report.realpath.rc = 0,
          is_block    |-> isBlock,
          blkid       |-> IF isBlock THEN BlkidKeys(report.blkid) ELSE NoKeys,
          blkid_error |-> isBlock /\ BlkidComplains(report.blkid),
          lsblk       |-> IF isBlock THEN Lsblk(report.lsblk) ELSE None,
          mounts      |-> mounts,
          path_type   |-> type,
          dir_nonempty |-> {p \in Paths : /\ type[p] = "directory"
                                          /\ Listed(p)
                                          /\ report.find[p].entries
                                          /\ mounts[p] = None},
          find_error  |-> {p \in Paths : type[p] = "directory" /\ ~Listed(p)} ]

-----------------------------------------------------------------------------
(* The decision. *)

\* A mountpoint is a sequence: a path of the role's, then what lies beneath it.
Root == <<>>
Null == <<"null">>     \* what lsblk prints for "not mounted"

Mountpoints(node) == node.mountpoints \ {Null}

Walk(node) == {node} \cup node.children

\* A whole disk, none of it the root filesystem's, with nothing stacked on it.
IsWholeDisk(probe) ==
    /\ probe.device
    /\ probe.is_block
    /\ probe.lsblk # None
    /\ \A node \in Walk(probe.lsblk) : Root \notin Mountpoints(node)
    /\ probe.lsblk.type = "disk"
    /\ probe.lsblk.children = {}

Signature(probe) ==
    [k \in DOMAIN probe.blkid \ {"DEVNAME"} |-> probe.blkid[k]]

HasOurLabel(keys) ==
    /\ "TYPE" \in DOMAIN keys /\ keys["TYPE"] = "xfs"
    /\ "LABEL" \in DOMAIN keys /\ keys["LABEL"] = "dockerdata"

IsOurs(probe) == DOMAIN Signature(probe) # {}

\* What is on the disk can be told, and is ours if there is anything.
IsBlankOrOurs(probe) ==
    /\ ~probe.blkid_error
    /\ "PTTYPE" \notin DOMAIN probe.blkid
    /\ IF IsOurs(probe) THEN HasOurLabel(Signature(probe))
                        ELSE probe.lsblk.fstype = ""

Beneath(point, path) == point # Root /\ Head(point) = path

IsMountedOnlyHere(probe) ==
    \A point \in Mountpoints(probe.lsblk) :
        IsOurs(probe) /\ \E path \in Paths : Beneath(point, path)

Mounted(probe, p) == probe.mounts[p] # None

\* Whatever sits at a path must come from this device and be what the role
\* would have mounted there.
HasOnlyOurMounts(probe) ==
    \A p \in Paths : Mounted(probe, p) =>
        LET m == probe.mounts[p]
        IN  /\ m.dev = Disk
            /\ m.sub = Wanted(p).sub
            /\ p = DataMount => HasPrjquota(m.options)

\* A symlink would keep docker's state at its target and read as empty.
IsMountablePath(probe, p) == probe.path_type[p] \in {"absent", "directory"}

\* Mounting over a path that holds something would hide it.
Mut_HidesNothing(probe) == DataMount \notin probe.dir_nonempty

HidesNothing(probe) ==
    \A p \in Paths : ~Mounted(probe, p) => p \notin probe.dir_nonempty

Acceptable(probe) ==
    /\ IsWholeDisk(probe)
    /\ IsBlankOrOurs(probe)
    /\ IsMountedOnlyHere(probe)
    /\ HasOnlyOurMounts(probe)
    /\ \A p \in Paths : ~Mounted(probe, p) => IsMountablePath(probe, p)
    /\ probe.find_error = {}
    /\ HidesNothing(probe)

Classify(probe) ==
    IF ~Acceptable(probe) THEN "refuse"
    ELSE IF ~IsOurs(probe) THEN "blank"
    ELSE IF \A p \in Paths : Mounted(probe, p) THEN "ready"
    ELSE "ours"
=============================================================================
