------------------------- MODULE NodeStorage_proofs -------------------------
(* Theorems about roles/node_storage on one node, for every set of bind      *)
(* targets, every node the assumptions cover, and any number of runs that    *)
(* die, reboots and visits.                                                  *)
EXTENDS NodeStorageProps, TLAPS

Last(p) == Visible(mnt, p)

\* What the role would have mounted at the path.
GoodMount(p) ==
    /\ Last(p).dev = Disk /\ Last(p).sub = Wanted(p).sub
    /\ p = DataMount => HasPrjquota(Last(p).options)

Under(points) == \A point \in points : \E path \in Paths : Beneath(point, path)

-----------------------------------------------------------------------------
(* What the probe makes of the node's answers                              *)

\* A mount is no `None`, and the last of a stack is a mount.
LEMMA LastIsAMount ==
    ASSUME mnt \in [Paths -> Seq(Mounts)], NEW p \in Paths, mnt[p] # <<>>
    PROVE  Last(p) \in Mounts /\ Last(p) # None
<1>1. Last(p) \in Mounts
  BY DEF Last, Visible
<1>2. \A m \in Mounts : DOMAIN m = {"dev", "sub", "options"}
  BY DEF Mounts
<1>3. DOMAIN None = {"none"}
  BY DEF None
<1> QED
  BY <1>1, <1>2, <1>3

\* The probe's fields, as the node has them.
LEMMA ProbeMounts ==
    ASSUME NEW p \in Paths
    PROVE  /\ Probe.mounts[p] = IF mnt[p] = <<>> THEN None ELSE Last(p)
           /\ Probe.path_type[p] = PathType(StatSays(p))
           /\ p \in Probe.dir_nonempty <=>
                 /\ PathType(StatSays(p)) = "directory"
                 /\ Ran(FindSays(p)) /\ FindSays(p).rc = 0 /\ FindSays(p).entries
                 /\ Probe.mounts[p] = None
           /\ p \in Probe.find_error <=>
                 /\ PathType(StatSays(p)) = "directory"
                 /\ ~(Ran(FindSays(p)) /\ FindSays(p).rc = 0)
<1>1. Report.findmnt[p] = [rc |-> IF mnt[p] = <<>> THEN 1 ELSE 0, filesystems |-> mnt[p]]
      /\ Report.stat[p] = StatSays(p) /\ Report.find[p] = FindSays(p)
  BY DEF Report
<1>2. Findmnt(Report.findmnt[p]) = IF mnt[p] = <<>> THEN None ELSE Last(p)
  BY <1>1 DEF Findmnt, Ran, Last, Visible
<1> QED
  BY <1>1, <1>2 DEF Probe, BuildProbe

\* ... and those of the device.
LEMMA ProbeDevice ==
    ASSUME attached \in BOOLEAN
    PROVE  /\ Probe.device <=> attached
           /\ Probe.is_block <=> attached /\ dev # "file"
           /\ attached /\ dev # "file" =>
                 /\ Probe.blkid = BlkidKeys(BlkidSays)
                 /\ Probe.blkid_error <=> BlkidComplains(BlkidSays)
                 /\ Probe.lsblk = Lsblk(LsblkSays)
<1>1. Ran(Report.realpath)
  BY DEF Report, Ran
<1>2. Report.realpath.rc = 0 <=> attached
  BY DEF Report
<1>3. Report.isblk = (dev # "file")
  BY Zenon DEF Report
<1>4. Report.blkid = BlkidSays /\ Report.lsblk = LsblkSays
  BY DEF Report
<1>5. Probe.device = (Ran(Report.realpath) /\ Report.realpath.rc = 0)
  BY Zenon DEF Probe, BuildProbe
<1>6. Probe.is_block = (Probe.device /\ Report.isblk)
  BY Zenon DEF Probe, BuildProbe
<1>7. Probe.blkid_error = (Probe.is_block /\ BlkidComplains(BlkidSays))
  BY <1>4, Zenon DEF Probe, BuildProbe
<1>8. Probe.is_block =>
         Probe.blkid = BlkidKeys(BlkidSays) /\ Probe.lsblk = Lsblk(LsblkSays)
  BY <1>4 DEF Probe, BuildProbe
<1> QED
  BY <1>1, <1>2, <1>3, <1>5, <1>6, <1>7, <1>8

\* Where the disk's own filesystem is found.
Here == {<<p>> : p \in {q \in Paths : \E i \in DOMAIN mnt[q] : mnt[q][i].dev = Disk}}

\* What lsblk is understood to say.
LEMMA LsblkFields ==
    ASSUME attached, dev # "file"
    PROVE  /\ dev = "silent" => Probe.lsblk = None
           /\ dev # "silent" =>
                 /\ Probe.lsblk # None
                 /\ Probe.lsblk.type = IF dev = "part" THEN "part" ELSE "disk"
                 /\ Probe.lsblk.fstype =
                       IF content \in {"ours", "unlabelled"} THEN "xfs"
                       ELSE IF content \in {"ext4", "cached"} THEN "ext4" ELSE ""
                 /\ Probe.lsblk.mountpoints = Here \cup extra \cup {Null}
                 /\ dev \in {"rootdisk", "parent"} <=> Probe.lsblk.children # {}
<1> DEFINE child == [type |-> "part", mountpoints |-> IF dev = "rootdisk" THEN {Root} ELSE {Null}]
           line == [type        |-> IF dev = "part" THEN "part" ELSE "disk",
                    fstype      |-> IF content \in {"ours", "unlabelled"} THEN "xfs"
                                    ELSE IF content \in {"ext4", "cached"} THEN "ext4" ELSE "",
                    mountpoints |-> Here \cup extra \cup {Null},
                    children    |-> IF dev \in {"rootdisk", "parent"} THEN {child} ELSE {}]
<1>1. Probe.lsblk = Lsblk(LsblkSays)
  BY ProbeDevice
<1>2. CASE dev = "silent"
  BY <1>1, <1>2 DEF Lsblk, LsblkSays, Ran
<1>3. CASE dev # "silent"
  <2>1. LsblkSays = [rc |-> 0, devices |-> <<line>>]
    BY <1>3 DEF LsblkSays, Here
  <2>2. Probe.lsblk = line
    <3> HIDE DEF line
    <3> QED  BY <1>1, <2>1 DEF Lsblk, Ran
  <2>3. line # None
    <3>1. DOMAIN line = {"type", "fstype", "mountpoints", "children"}
      OBVIOUS
    <3>2. DOMAIN None = {"none"}
      BY DEF None
    <3> QED  BY <3>1, <3>2
  <2>4. dev \in {"rootdisk", "parent"} <=> line.children # {}
    OBVIOUS
  <2>5. /\ line.type = IF dev = "part" THEN "part" ELSE "disk"
        /\ line.fstype = IF content \in {"ours", "unlabelled"} THEN "xfs"
                         ELSE IF content \in {"ext4", "cached"} THEN "ext4" ELSE ""
        /\ line.mountpoints = Here \cup extra \cup {Null}
    OBVIOUS
  <2> HIDE DEF line
  <2> QED  BY <1>3, <2>2, <2>3, <2>4, <2>5
<1> QED
  BY <1>2, <1>3

\* Nothing the disk is mounted at is the root.
LEMMA HereIsBeneath ==
    /\ Root \notin Here /\ Null # Root
    /\ \A point \in Here : \E path \in Paths : Beneath(point, path)
  BY DEF Here, Root, Null, Beneath

\* Only a whole disk, attached, of which nothing is the root's.
LEMMA WholeDisk ==
    ASSUME attached \in BOOLEAN, dev \in {"disk"} \cup Oddities, Root \notin extra
    PROVE  IsWholeDisk(Probe) <=> attached /\ dev \in {"disk", "unreadable"}
<1>1. CASE ~attached \/ dev = "file"
  BY <1>1, ProbeDevice DEF IsWholeDisk
<1>2. CASE attached /\ dev # "file" /\ dev = "silent"
  BY <1>2, LsblkFields DEF IsWholeDisk
<1>3. CASE attached /\ dev # "file" /\ dev # "silent"
  <2>1. /\ Probe.device /\ Probe.is_block /\ Probe.lsblk # None
        /\ Probe.lsblk.type = IF dev = "part" THEN "part" ELSE "disk"
        /\ Probe.lsblk.mountpoints = Here \cup extra \cup {Null}
        /\ dev \in {"rootdisk", "parent"} <=> Probe.lsblk.children # {}
    BY <1>3, ProbeDevice, LsblkFields
  <2>2. Root \notin Mountpoints(Probe.lsblk)
    BY <2>1, HereIsBeneath DEF Mountpoints
  <2>3. Probe.lsblk.children = {} => \A node \in Walk(Probe.lsblk) : Root \notin Mountpoints(node)
    BY <2>2 DEF Walk
  <2> QED  BY <1>3, <2>1, <2>3 DEF IsWholeDisk, Oddities
<1> QED
  BY <1>1, <1>2, <1>3

\* What a signature makes of it.
LEMMA SignatureMeans ==
    ASSUME NEW keys, NEW probe, probe.blkid = keys
    PROVE  /\ IsOurs(probe) <=> DOMAIN keys \ {"DEVNAME"} # {}
           /\ HasOurLabel(Signature(probe)) <=>
                 /\ {"TYPE", "LABEL"} \subseteq DOMAIN keys
                 /\ keys["TYPE"] = "xfs" /\ keys["LABEL"] = "dockerdata"
<1>1. DOMAIN Signature(probe) = DOMAIN keys \ {"DEVNAME"}
  BY DEF Signature
<1>2. \A k \in DOMAIN Signature(probe) : Signature(probe)[k] = keys[k]
  BY <1>1 DEF Signature
<1> QED
  BY <1>1, <1>2 DEF IsOurs, HasOurLabel

\* What blkid exits with, prints and complains of.
Says(rc, keys, complains) ==
    /\ "rc" \in DOMAIN BlkidSays /\ BlkidSays.rc = rc /\ BlkidSays.keys = keys
    /\ BlkidSays.stderr <=> complains

\* A device that can be read is reported by its signature.
LEMMA BlkidAnswers ==
    ASSUME content \in Contents
    PROVE  /\ dev = "unreadable" => Says(2, NoKeys, TRUE)
           /\ dev = "disk" =>
                 /\ content = "ours" =>
                       Says(0, [DEVNAME |-> "d", TYPE |-> "xfs", LABEL |-> "dockerdata"], FALSE)
                 /\ content = "unlabelled" => Says(0, [DEVNAME |-> "d", TYPE |-> "xfs"], FALSE)
                 /\ content = "ext4" =>
                       Says(0, [DEVNAME |-> "d", TYPE |-> "ext4", LABEL |-> "dockerdata"], FALSE)
                 /\ content = "gpt" => Says(0, [DEVNAME |-> "d", PTTYPE |-> "gpt"], FALSE)
                 /\ content = "ambivalent" => Says(8, NoKeys, FALSE)
                 /\ content \in {"blank", "cached"} => Says(2, NoKeys, FALSE)
<1> DEFINE Answer(rc, keys, complains) == [rc |-> rc, keys |-> keys, stderr |-> complains]
<1>1. ASSUME NEW rc, NEW keys, NEW complains \in BOOLEAN,
             BlkidSays = Answer(rc, keys, complains)
      PROVE  Says(rc, keys, complains)
  <2>1. DOMAIN BlkidSays = {"rc", "keys", "stderr"} /\ BlkidSays.rc = rc
        /\ BlkidSays.keys = keys /\ BlkidSays.stderr = complains
    BY <1>1
  <2> QED  BY <2>1 DEF Says
<1>2. CASE dev = "unreadable"
  <2>1. BlkidSays = Answer(2, NoKeys, TRUE)
    BY <1>2 DEF BlkidSays
  <2>2. Says(2, NoKeys, TRUE)
    BY <1>1, <2>1, Zenon
  <2> QED  BY <1>2, <2>2
<1>3. CASE dev = "disk" /\ content = "ours"
  <2>1. BlkidSays = Answer(0, [DEVNAME |-> "d", TYPE |-> "xfs", LABEL |-> "dockerdata"], FALSE)
    BY <1>3 DEF BlkidSays
  <2>2. Says(0, [DEVNAME |-> "d", TYPE |-> "xfs", LABEL |-> "dockerdata"], FALSE)
    BY <1>1, <2>1, Zenon
  <2> QED  BY <1>3, <2>2
<1>4. CASE dev = "disk" /\ content = "unlabelled"
  <2>1. BlkidSays = Answer(0, [DEVNAME |-> "d", TYPE |-> "xfs"], FALSE)
    BY <1>4 DEF BlkidSays
  <2>2. Says(0, [DEVNAME |-> "d", TYPE |-> "xfs"], FALSE)
    BY <1>1, <2>1, Zenon
  <2> QED  BY <1>4, <2>2
<1>5. CASE dev = "disk" /\ content = "ext4"
  <2>1. BlkidSays = Answer(0, [DEVNAME |-> "d", TYPE |-> "ext4", LABEL |-> "dockerdata"], FALSE)
    BY <1>5 DEF BlkidSays
  <2>2. Says(0, [DEVNAME |-> "d", TYPE |-> "ext4", LABEL |-> "dockerdata"], FALSE)
    BY <1>1, <2>1, Zenon
  <2> QED  BY <1>5, <2>2
<1>6. CASE dev = "disk" /\ content = "gpt"
  <2>1. BlkidSays = Answer(0, [DEVNAME |-> "d", PTTYPE |-> "gpt"], FALSE)
    BY <1>6 DEF BlkidSays
  <2>2. Says(0, [DEVNAME |-> "d", PTTYPE |-> "gpt"], FALSE)
    BY <1>1, <2>1, Zenon
  <2> QED  BY <1>6, <2>2
<1>7. CASE dev = "disk" /\ content = "ambivalent"
  <2>1. BlkidSays = Answer(8, NoKeys, FALSE)
    BY <1>7 DEF BlkidSays
  <2>2. Says(8, NoKeys, FALSE)
    BY <1>1, <2>1, Zenon
  <2> QED  BY <1>7, <2>2
<1>8. CASE dev = "disk" /\ content \in {"blank", "cached"}
  <2>1. BlkidSays = Answer(2, NoKeys, FALSE)
    BY <1>8 DEF BlkidSays
  <2>2. Says(2, NoKeys, FALSE)
    BY <1>1, <2>1, Zenon
  <2> QED  BY <1>8, <2>2
<1> QED
  BY <1>2, <1>3, <1>4, <1>5, <1>6, <1>7, <1>8 DEF Contents

\* A disk is let through blank or with the role's filesystem, told apart by
\* its signature, and never unread.
LEMMA BlankOrOurs ==
    ASSUME attached, dev \in {"disk", "unreadable"}, content \in Contents
    PROVE  /\ IsBlankOrOurs(Probe) <=> dev = "disk" /\ content \in {"blank", "ours"}
           /\ dev = "disk" /\ content \in {"blank", "ours"} =>
                 (IsOurs(Probe) <=> content = "ours")
<1> DEFINE keys == Probe.blkid
<1>1. /\ keys = BlkidKeys(BlkidSays)
      /\ Probe.blkid_error <=> BlkidComplains(BlkidSays)
      /\ Probe.lsblk.fstype =
            IF content \in {"ours", "unlabelled"} THEN "xfs"
            ELSE IF content \in {"ext4", "cached"} THEN "ext4" ELSE ""
  BY ProbeDevice, LsblkFields
<1>2. /\ IsOurs(Probe) <=> DOMAIN keys \ {"DEVNAME"} # {}
      /\ HasOurLabel(Signature(Probe)) <=>
            /\ {"TYPE", "LABEL"} \subseteq DOMAIN keys
            /\ keys["TYPE"] = "xfs" /\ keys["LABEL"] = "dockerdata"
  BY SignatureMeans
<1> HIDE DEF keys
<1>3. CASE dev = "unreadable"
  <2>1. Says(2, NoKeys, TRUE)
    BY <1>3, BlkidAnswers
  <2>2. Probe.blkid_error
    BY <1>1, <2>1 DEF Says, BlkidComplains, Ran
  <2> QED  BY <1>3, <2>2 DEF IsBlankOrOurs
<1>4. CASE dev = "disk"
  <2>1. ASSUME NEW k, Says(0, k, FALSE) PROVE keys = k /\ ~Probe.blkid_error
    <3>1. Ran(BlkidSays) /\ BlkidSays.rc = 0 /\ BlkidSays.keys = k
      BY <2>1 DEF Says, Ran
    <3>2. BlkidSays.rc # 2
      BY <3>1
    <3>3. keys = k
      BY <1>1, <3>1, <3>2 DEF BlkidKeys
    <3>4. ~BlkidComplains(BlkidSays)
      BY <3>2 DEF BlkidComplains
    <3> QED  BY <1>1, <3>3, <3>4
  <2>2. CASE content = "ours"
    <3>1. keys = [DEVNAME |-> "d", TYPE |-> "xfs", LABEL |-> "dockerdata"]
          /\ ~Probe.blkid_error
      BY <1>4, <2>1, <2>2, BlkidAnswers
    <3>2. DOMAIN keys = {"DEVNAME", "TYPE", "LABEL"}
          /\ keys["TYPE"] = "xfs" /\ keys["LABEL"] = "dockerdata"
      BY <3>1
    <3>3. IsOurs(Probe) /\ HasOurLabel(Signature(Probe))
      BY <1>2, <3>2
    <3>4. "PTTYPE" \notin DOMAIN Probe.blkid
      BY <3>2 DEF keys
    <3> QED  BY <1>4, <2>2, <3>1, <3>3, <3>4 DEF IsBlankOrOurs
  <2>3. CASE content \in {"unlabelled", "ext4", "ambivalent"}
    <3>1. IsOurs(Probe) /\ ~HasOurLabel(Signature(Probe))
      <4>1. CASE content = "unlabelled"
        <5>1. keys = [DEVNAME |-> "d", TYPE |-> "xfs"]
          BY <1>4, <2>1, <4>1, BlkidAnswers
        <5>2. DOMAIN keys = {"DEVNAME", "TYPE"}
          BY <5>1
        <5> QED  BY <1>2, <5>2
      <4>2. CASE content = "ext4"
        <5>1. keys = [DEVNAME |-> "d", TYPE |-> "ext4", LABEL |-> "dockerdata"]
          BY <1>4, <2>1, <4>2, BlkidAnswers
        <5>2. DOMAIN keys = {"DEVNAME", "TYPE", "LABEL"} /\ keys["TYPE"] = "ext4"
          BY <5>1
        <5> QED  BY <1>2, <5>2
      <4>3. CASE content = "ambivalent"
        <5>1. Says(8, NoKeys, FALSE)
          BY <1>4, <4>3, BlkidAnswers
        <5>2. Ran(BlkidSays) /\ BlkidSays.rc = 8 /\ BlkidSays.rc # 2 /\ BlkidSays.rc # 0
          BY <5>1 DEF Says, Ran
        <5>3. keys = [BLKID_RC |-> 8]
          BY <1>1, <5>2 DEF BlkidKeys
        <5>4. DOMAIN keys = {"BLKID_RC"}
          BY <5>3
        <5> QED  BY <1>2, <5>4
      <4> QED  BY <2>3, <4>1, <4>2, <4>3
    <3> QED  BY <2>3, <3>1 DEF IsBlankOrOurs
  <2>4. CASE content = "gpt"
    <3>1. keys = [DEVNAME |-> "d", PTTYPE |-> "gpt"]
      BY <1>4, <2>1, <2>4, BlkidAnswers
    <3>2. "PTTYPE" \in DOMAIN Probe.blkid
      BY <3>1 DEF keys
    <3> QED  BY <2>4, <3>2 DEF IsBlankOrOurs
  <2>5. CASE content \in {"blank", "cached"}
    <3>1. Says(2, NoKeys, FALSE)
      BY <1>4, <2>5, BlkidAnswers
    <3>2. keys = NoKeys /\ ~Probe.blkid_error
      BY <1>1, <3>1 DEF Says, BlkidKeys, BlkidComplains, Ran
    <3>3. DOMAIN keys = {}
      BY <3>2 DEF NoKeys
    <3>4. ~IsOurs(Probe)
      BY <1>2, <3>3
    <3>5. "PTTYPE" \notin DOMAIN Probe.blkid
      BY <3>3 DEF keys
    <3> QED  BY <1>1, <1>4, <2>5, <3>2, <3>4, <3>5 DEF IsBlankOrOurs
  <2> QED  BY <2>2, <2>3, <2>4, <2>5 DEF Contents
<1> QED
  BY <1>3, <1>4

\* A path nothing is mounted at is let through where it is missing, or an
\* empty directory that could be listed.
LEMMA BarePath ==
    ASSUME NEW p \in Paths, mnt[p] = <<>>, root[p] \in RootKinds,
           IsMountablePath(Probe, p), p \notin Probe.find_error, p \notin Probe.dir_nonempty
    PROVE  root[p] \in {"absent", "empty"}
<1>1. Probe.mounts[p] = None /\ Probe.path_type[p] = PathType(StatSays(p))
  BY ProbeMounts
<1>2. CASE root[p] = "unstatted"
  <2>1. PathType(StatSays(p)) = "unknown"
    BY <1>2 DEF StatSays, PathType
  <2> QED  BY <1>1, <2>1 DEF IsMountablePath
<1>3. CASE root[p] \in {"symlink", "file"}
  <2>1. PathType(StatSays(p)) = root[p]
    BY <1>3 DEF StatSays, PathType
  <2> QED  BY <1>1, <1>3, <2>1 DEF IsMountablePath
<1>4. CASE root[p] = "unlisted"
  <2>1. PathType(StatSays(p)) = "directory"
    BY <1>4 DEF StatSays, PathType
  <2>2. FindSays(p).rc = 1
    BY <1>4 DEF FindSays
  <2> QED  BY <2>1, <2>2, ProbeMounts
<1>5. CASE root[p] = "written"
  <2>1. PathType(StatSays(p)) = "directory"
    BY <1>5 DEF StatSays, PathType
  <2>2. FindSays(p) = [rc |-> 0, entries |-> TRUE]
    BY <1>5 DEF FindSays
  <2> QED  BY <1>1, <2>1, <2>2, ProbeMounts DEF Ran
<1> QED
  BY <1>2, <1>3, <1>4, <1>5 DEF RootKinds

\* What the node's variables range over, as far as the decision reads them.
Readable ==
    /\ attached \in BOOLEAN /\ dev \in {"disk"} \cup Oddities /\ content \in Contents
    /\ extra \subseteq {<<"mnt">>} \cup {<<p, "volumes">> : p \in Targets}
    /\ mnt \in [Paths -> Seq(Mounts)] /\ root \in [Paths -> RootKinds]

\* No other mount of the disk is the root, or lsblk's word for none.
LEMMA ExtraIsNamed == Readable => Root \notin extra /\ Null \notin extra
  BY DEF Readable, Root, Null

\* The decision, in terms of the node: what a disk that is not refused is.
LEMMA AcceptedMeans ==
    ASSUME Readable, Acceptable(Probe)
    PROVE  /\ attached /\ dev = "disk" /\ content \in {"blank", "ours"}
           /\ IsOurs(Probe) <=> content = "ours"
           /\ Under(extra)
           /\ \A p \in Paths : IF mnt[p] = <<>> THEN root[p] \in {"absent", "empty"}
                                              ELSE GoodMount(p)
<1>1. attached /\ dev \in {"disk", "unreadable"}
  BY WholeDisk, ExtraIsNamed DEF Acceptable, Readable
<1>2. dev = "disk" /\ content \in {"blank", "ours"} /\ (IsOurs(Probe) <=> content = "ours")
  BY <1>1, BlankOrOurs DEF Acceptable, Readable
<1>3. Under(extra)
  <2>1. Probe.lsblk.mountpoints = Here \cup extra \cup {Null}
    BY <1>2, <1>1, LsblkFields
  <2> QED  BY <2>1, ExtraIsNamed DEF Acceptable, IsMountedOnlyHere, Mountpoints, Under
<1>4. ASSUME NEW p \in Paths, mnt[p] = <<>> PROVE root[p] \in {"absent", "empty"}
  <2>1. ~Mounted(Probe, p)
    BY <1>4, ProbeMounts DEF Mounted
  <2> QED  BY <1>4, <2>1, BarePath DEF Acceptable, HidesNothing, Readable
<1>5. ASSUME NEW p \in Paths, mnt[p] # <<>> PROVE GoodMount(p)
  <2>1. Probe.mounts[p] = Last(p) /\ Mounted(Probe, p)
    BY <1>5, ProbeMounts, LastIsAMount DEF Mounted, Readable
  <2> QED  BY <2>1 DEF Acceptable, HasOnlyOurMounts, GoodMount
<1> QED
  BY <1>1, <1>2, <1>3, <1>4, <1>5

\* ... and which disk is ready.
LEMMA ReadyMeans ==
    ASSUME Readable
    PROVE  Verdict = "ready" <=>
             /\ attached /\ dev = "disk" /\ content = "ours" /\ Under(extra)
             /\ \A p \in Paths : mnt[p] # <<>> /\ GoodMount(p)
<1>1. \A p \in Paths : Mounted(Probe, p) <=> mnt[p] # <<>>
  BY ProbeMounts, LastIsAMount DEF Mounted, Readable
<1>2. ASSUME Verdict = "ready"
      PROVE  /\ attached /\ dev = "disk" /\ content = "ours" /\ Under(extra)
             /\ \A p \in Paths : mnt[p] # <<>> /\ GoodMount(p)
  <2>1. Acceptable(Probe) /\ IsOurs(Probe) /\ \A p \in Paths : Mounted(Probe, p)
    BY <1>2 DEF Verdict, Classify
  <2> QED  BY <1>1, <2>1, AcceptedMeans
<1>3. ASSUME attached, dev = "disk", content = "ours", Under(extra),
             \A p \in Paths : mnt[p] # <<>> /\ GoodMount(p)
      PROVE  Verdict = "ready"
  <2>1. IsWholeDisk(Probe)
    BY <1>3, WholeDisk, ExtraIsNamed DEF Readable
  <2>2. IsBlankOrOurs(Probe) /\ IsOurs(Probe)
    BY <1>3, BlankOrOurs DEF Readable
  <2>3. IsMountedOnlyHere(Probe)
    <3>1. Probe.lsblk.mountpoints = Here \cup extra \cup {Null}
      BY <1>3, LsblkFields
    <3> QED  BY <1>3, <2>2, <3>1, HereIsBeneath DEF IsMountedOnlyHere, Mountpoints, Under
  <2>4. HasOnlyOurMounts(Probe)
    <3> SUFFICES ASSUME NEW p \in Paths
                 PROVE  /\ Probe.mounts[p].dev = Disk
                        /\ Probe.mounts[p].sub = Wanted(p).sub
                        /\ p = DataMount => HasPrjquota(Probe.mounts[p].options)
      BY DEF HasOnlyOurMounts
    <3>1. Probe.mounts[p] = Last(p)
      BY <1>3, ProbeMounts
    <3> QED  BY <1>3, <3>1 DEF GoodMount
  <2>5. Probe.find_error = {}
    <3>1. ASSUME NEW p \in Paths PROVE p \notin Probe.find_error
      <4>1. FindSays(p) = [rc |-> 0, entries |-> p # DataMount \/ sources # {}]
        BY <1>3 DEF FindSays
      <4>2. Ran(FindSays(p)) /\ FindSays(p).rc = 0
        BY <4>1 DEF Ran
      <4> QED  BY <4>2, ProbeMounts
    <3>2. Probe.find_error \subseteq Paths
      BY DEF Probe, BuildProbe
    <3> QED  BY <3>1, <3>2
  <2> QED
    BY <1>1, <1>3, <2>1, <2>2, <2>3, <2>4, <2>5 DEF Verdict, Classify, Acceptable, HidesNothing
<1> QED
  BY <1>2, <1>3

-----------------------------------------------------------------------------
(* The inductive invariant                                                 *)

Types == TypeOK /\ mnt \in [Paths -> Seq(Mounts)]

\* What the node's parts have to do with each other: a path with a line is
\* there, the disk is mounted only with the role's filesystem on it, and a bind
\* from a directory that exists.
NodeInv ==
    /\ \A p \in Paths : fstab[p] # "none" => root[p] \notin {"absent", "symlink", "file"}
    /\ \A p \in Paths : \A i \in DOMAIN mnt[p] : mnt[p][i].dev = Disk => content = "ours"
    /\ \A p \in Targets : mnt[p] # <<>> /\ Last(p).dev = Disk /\ Last(p).sub = p
                             => p \in sources

\* A run under way has a whole disk, nothing written at its bare paths, and
\* knows what is mounted.
RunInv ==
    pc # "idle" =>
      /\ dev = "disk"
      /\ \A p \in Paths : mnt[p] = <<>> => root[p] \in {"absent", "empty"}
      /\ \A p \in mounted : mnt[p] # <<>>

\* The lines are written path by path.
LinesInv ==
    /\ pc # "bind" => item = 1
    /\ pc \in {"sources", "bind", "dropins", "flush", "verify"} => fstab[DataMount] = "ours"
    /\ pc = "bind" => \A j \in 1 .. item - 1 : fstab[BindTargets[j]] = "ours"
    /\ pc \in {"dropins", "flush", "verify"} => \A p \in Paths : fstab[p] = "ours"

\* Where no run dies between the drop-ins and the reload, systemd knows them
\* by the time the run verifies.
DropinsInv ==
    /\ dropins = "written" => pc = "flush" /\ notified
    /\ pc \in {"flush", "verify"} => dropins # "none"

\* A node the role has passed brings back every mount, with the quota, before
\* its daemons start.
PassedInv ==
    passed =>
      /\ dev = "disk" /\ content = "ours" /\ Under(extra)
      /\ dropins = "loaded" /\ Targets \subseteq sources
      /\ \A p \in Paths : fstab[p] = "ours" /\ (mnt[p] # <<>> => GoodMount(p))
      /\ daemons = "running" => attached /\ \A p \in Paths : mnt[p] # <<>>

\* A node the assumptions cover satisfies it before any run.
LEMMA InvInit == Init => Types /\ NodeInv /\ RunInv /\ LinesInv /\ DropinsInv /\ PassedInv
<1> SUFFICES ASSUME Init
             PROVE  Types /\ NodeInv /\ RunInv /\ LinesInv /\ DropinsInv /\ PassedInv
  OBVIOUS
<1>1. PICK n \in InitialNodes :
        /\ dev = n.dev /\ content = n.content /\ extra = n.extra
        /\ mnt = n.mnt /\ root = n.root /\ fstab = n.fstab
        /\ sources = n.sources /\ dropins = n.dropins
        /\ daemons = n.daemons /\ stores = n.stores
  BY DEF Init
<1>2. /\ pc = "idle" /\ item = 1 /\ state = "unset" /\ mounted = {} /\ notified = FALSE
      /\ attached = TRUE /\ up = TRUE /\ passed = FALSE
  BY DEF Init
<1>3. 1 \in 1..Len(BindTargets)
  BY PathsAssumption
<1>4. TypeOK
  BY <1>1, <1>2, <1>3, NodesAssumption DEF TypeOK, Sits
<1>5. mnt \in [Paths -> Seq(Mounts)]
  BY <1>1, NodesAssumption
<1>6. NodeInv
  BY <1>1, NodesAssumption DEF NodeInv, Sits, Last, Targets, Paths
<1>7. RunInv /\ LinesInv /\ DropinsInv /\ PassedInv
  BY <1>1, <1>2, NodesAssumption DEF RunInv, LinesInv, DropinsInv, PassedInv
<1> QED
  BY <1>4, <1>5, <1>6, <1>7 DEF Types

\* The decision can read every state of the node.
LEMMA TypesReadable == Types => Readable
  BY DEF Types, TypeOK, Readable

-----------------------------------------------------------------------------
(* Mounting                                                                *)

\* What a mount task does to the paths.
MountEffect(p) ==
    \/ UNCHANGED pathVars
    \/ p \in mounted /\ fstab' = FstabWith(p) /\ UNCHANGED <<mnt, root>>
    \/ /\ p \notin mounted /\ CanMount(p)
       /\ fstab' = FstabWith(p) /\ root' = MadeDirectory(p)
       /\ mnt' = [mnt EXCEPT ![p] = Append(@, Wanted(p))]

\* The two mount tasks, their lines aside.
LEMMA MountTasks ==
    ASSUME Types, MountData \/ BindMount
    PROVE  /\ \E p \in Paths : MountEffect(p)
           /\ pc' \in {"idle", "sources", "bind", "dropins"}
           /\ UNCHANGED <<diskVars, unitVars, histVars>>
           /\ pc' # "idle" => UNCHANGED <<mounted, state, notified>>
           /\ pc' = "idle" => item' = 1 /\ state' = "unset" /\ mounted' = {} /\ notified' = FALSE
<1> USE DEF Mount, MountState, EndRun, Goto
<1>1. CASE MountData
  <2>1. MountEffect(DataMount) /\ DataMount \in Paths
    BY <1>1 DEF MountData, MountEffect, Paths
  <2> QED  BY <1>1, <2>1 DEF MountData
<1>2. CASE BindMount
  <2>1. BindTargets[item] \in Paths
    BY DEF Types, TypeOK, Targets, Paths
  <2>2. MountEffect(BindTargets[item])
    BY <1>2 DEF BindMount, MountEffect
  <2> QED  BY <1>2, <2>1, <2>2 DEF BindMount
<1> QED
  BY <1>1, <1>2

\* A path that is mounted shows what the role wanted there.
LEMMA AppendShows ==
    ASSUME mnt \in [Paths -> Seq(Mounts)], NEW p \in Paths,
           mnt' = [mnt EXCEPT ![p] = Append(@, Wanted(p))]
    PROVE  /\ mnt' \in [Paths -> Seq(Mounts)]
           /\ mnt'[p] # <<>> /\ Visible(mnt', p) = Wanted(p)
           /\ DOMAIN mnt'[p] = 1 .. Len(mnt[p]) + 1
           /\ \A i \in 1 .. Len(mnt[p]) : mnt'[p][i] = mnt[p][i]
           /\ \A q \in Paths : q # p => mnt'[q] = mnt[q]
<1>1. Wanted(p) \in Mounts
  BY DEF Wanted, MountOf, Mounts, Options
<1>2. mnt'[p] = Append(mnt[p], Wanted(p)) /\ mnt[p] \in Seq(Mounts)
  OBVIOUS
<1> HIDE DEF Wanted
<1>3. Append(mnt[p], Wanted(p)) \in Seq(Mounts)
  BY <1>1, <1>2
<1>4. Len(mnt'[p]) = Len(mnt[p]) + 1 /\ Len(mnt[p]) \in Nat
  BY <1>1, <1>2
<1>5. mnt'[p][Len(mnt[p]) + 1] = Wanted(p)
  BY <1>1, <1>2
<1>6. \A i \in 1 .. Len(mnt[p]) : mnt'[p][i] = mnt[p][i]
  BY <1>1, <1>2
<1>7. DOMAIN mnt'[p] = 1 .. Len(mnt[p]) + 1 /\ mnt'[p] # <<>>
  BY <1>1, <1>2, <1>3, <1>4
<1>8. mnt' \in [Paths -> Seq(Mounts)]
  BY <1>2, <1>3
<1> QED
  BY <1>4, <1>5, <1>6, <1>7, <1>8 DEF Visible

\* What the role wants at a path is good there.
LEMMA WantedIsGood ==
    ASSUME NEW p \in Paths
    PROVE  /\ Wanted(p).dev = Disk /\ HasPrjquota(Wanted(p).options)
           /\ p \in Targets => Wanted(p).sub = p
  BY PathsAssumption DEF Wanted, MountOf, HasPrjquota

\* A mount task of a run keeps the paths in order.
LEMMA MountKeeps ==
    ASSUME Types, NodeInv, RunInv, pc # "idle", NEW p \in Paths, MountEffect(p),
           UNCHANGED <<content, sources, attached>>
    PROVE  /\ mnt' \in [Paths -> Seq(Mounts)] /\ root' \in [Paths -> RootKinds]
           /\ fstab' \in [Paths -> {"none", "hand", "ours"}]
           /\ \A q \in Paths : mnt'[q] # <<>> => root'[q] \notin {"absent", "symlink", "file"}
           /\ NodeInv'
           /\ \A q \in Paths :
                 /\ mnt'[q] = <<>> => root'[q] \in {"absent", "empty"}
                 /\ mnt[q] # <<>> => mnt'[q] # <<>>
                 /\ mnt'[q] # <<>> => mnt'[q] = mnt[q] \/ Visible(mnt', q) = Wanted(q)
                 /\ fstab[q] = "ours" => fstab'[q] = "ours"
<1> USE DEF Types, TypeOK
<1>1. CASE UNCHANGED pathVars
  BY <1>1 DEF pathVars, NodeInv, RunInv, Last, Visible
<1>2. CASE p \in mounted /\ fstab' = FstabWith(p) /\ UNCHANGED <<mnt, root>>
  <2>1. fstab' = [fstab EXCEPT ![p] = "ours"] /\ mnt[p] # <<>>
    BY <1>2 DEF FstabWith, RunInv
  <2> QED  BY <1>2, <2>1 DEF NodeInv, RunInv, Last, Visible
<1>3. CASE /\ p \notin mounted /\ CanMount(p)
           /\ fstab' = FstabWith(p) /\ root' = MadeDirectory(p)
           /\ mnt' = [mnt EXCEPT ![p] = Append(@, Wanted(p))]
  <2>1. /\ fstab' = [fstab EXCEPT ![p] = "ours"]
        /\ root' = [root EXCEPT ![p] = IF @ = "absent" THEN "empty" ELSE @]
        /\ content = "ours" /\ (p \in Targets => p \in sources)
    BY <1>3, PathsAssumption DEF FstabWith, MadeDirectory, CanMount
  <2>2. /\ mnt' \in [Paths -> Seq(Mounts)]
        /\ mnt'[p] # <<>> /\ Visible(mnt', p) = Wanted(p)
        /\ \A q \in Paths : q # p => mnt'[q] = mnt[q]
    BY <1>3, AppendShows
  <2>3. root' \in [Paths -> RootKinds] /\ fstab' \in [Paths -> {"none", "hand", "ours"}]
    BY <2>1 DEF RootKinds
  <2>4. root[p] \notin {"symlink", "file"}
    BY DEF RunInv
  <2>5. \A q \in Paths : mnt'[q] # <<>> => root'[q] \notin {"absent", "symlink", "file"}
    BY <2>1, <2>2, <2>4
  <2>6. NodeInv'
    <3>1. \A q \in Paths : fstab'[q] # "none" => root'[q] \notin {"absent", "symlink", "file"}
      BY <2>1, <2>4 DEF NodeInv
    <3>2. \A q \in Paths : \A i \in DOMAIN mnt'[q] : mnt'[q][i].dev = Disk => content' = "ours"
      BY <2>1
    <3>3. \A q \in Targets : mnt'[q] # <<>> /\ Visible(mnt', q).dev = Disk
                               /\ Visible(mnt', q).sub = q => q \in sources'
      BY <2>1, <2>2 DEF NodeInv, Last, Visible, Paths
    <3> QED  BY <3>1, <3>2, <3>3 DEF NodeInv, Last
  <2>7. \A q \in Paths : mnt'[q] = <<>> => root'[q] \in {"absent", "empty"}
    BY <2>1, <2>2 DEF RunInv
  <2> QED  BY <2>1, <2>2, <2>3, <2>5, <2>6, <2>7
<1> QED
  BY <1>1, <1>2, <1>3 DEF MountEffect

-----------------------------------------------------------------------------
(* The lines, and the daemons                                              *)

\* A line mounts its path, as the role wants it if the line is the role's.
LEMMA FromFstabIs ==
    ASSUME NEW m \in [Paths -> Seq(Mounts)], NEW p \in Paths
    PROVE  /\ FromFstab(m)[p] \in Seq(Mounts)
           /\ m[p] # <<>> \/ fstab[p] = "none" => FromFstab(m)[p] = m[p]
           /\ m[p] = <<>> /\ fstab[p] # "none" =>
                 /\ FromFstab(m)[p] # <<>> /\ DOMAIN FromFstab(m)[p] = {1}
                 /\ Visible(FromFstab(m), p) = FromFstab(m)[p][1]
                 /\ FromFstab(m)[p][1].dev = Disk
                 /\ FromFstab(m)[p][1].sub = Wanted(p).sub
                 /\ fstab[p] = "ours" => FromFstab(m)[p][1] = Wanted(p)
<1> DEFINE w == [Wanted(p) EXCEPT !.options = IF fstab[p] = "ours" THEN @ ELSE {"pqnoenforce"}]
<1>1. FromFstab(m)[p] = IF m[p] # <<>> \/ fstab[p] = "none" THEN m[p] ELSE <<w>>
  BY DEF FromFstab
<1>2. /\ Wanted(p) \in Mounts /\ w \in Mounts
      /\ w.dev = Disk /\ w.sub = Wanted(p).sub
      /\ fstab[p] = "ours" => w = Wanted(p)
  BY DEF Wanted, MountOf, Mounts, Options
<1> HIDE DEF w
<1>3. <<w>> \in Seq(Mounts) /\ <<w>> # <<>> /\ DOMAIN <<w>> = {1} /\ <<w>>[1] = w /\ Len(<<w>>) = 1
  BY <1>2
<1> QED
  BY <1>1, <1>2, <1>3 DEF Visible

\* The paths after the lines were mounted, where every line works.
LEMMA LinesMounted ==
    ASSUME Types, NodeInv, NEW m \in [Paths -> Seq(Mounts)],
           \A p \in Paths : m[p] = mnt[p] \/ m[p] = <<>>,
           LinesWork(attached'), content' = content, sources' = sources
    PROVE  LET f == FromFstab(m) IN
           /\ f \in [Paths -> Seq(Mounts)]
           /\ \A p \in Paths : f[p] # <<>> => root[p] \notin {"absent", "symlink", "file"}
           /\ \A p \in Paths : \A i \in DOMAIN f[p] : f[p][i].dev = Disk => content = "ours"
           /\ \A p \in Targets : f[p] # <<>> /\ Visible(f, p).dev = Disk
                                  /\ Visible(f, p).sub = p => p \in sources
<1> DEFINE f == FromFstab(m)
<1>1. f \in [Paths -> Seq(Mounts)]
  <2>1. \A p \in Paths : f[p] \in Seq(Mounts)
    BY FromFstabIs
  <2>2. f = [p \in Paths |-> f[p]]
    BY DEF FromFstab
  <2> HIDE DEF f
  <2> QED  BY <2>1, <2>2
<1>2. ASSUME NEW p \in Paths, f[p] # <<>>
      PROVE  /\ root[p] \notin {"absent", "symlink", "file"}
             /\ \A i \in DOMAIN f[p] : f[p][i].dev = Disk => content = "ours"
             /\ p \in Targets /\ Visible(f, p).dev = Disk /\ Visible(f, p).sub = p
                    => p \in sources
  <2>1. CASE m[p] # <<>>
    <3>1. f[p] = m[p] /\ m[p] = mnt[p]
      BY <2>1, FromFstabIs
    <3> HIDE DEF f
    <3> QED  BY <2>1, <3>1 DEF Types, TypeOK, NodeInv, Last, Visible
  <2>2. CASE m[p] = <<>>
    <3>1. fstab[p] # "none"
      BY <1>2, <2>2, FromFstabIs
    <3>2. content = "ours" /\ (p # DataMount => p \in sources)
      BY <3>1 DEF LinesWork
    <3> QED  BY <3>1, <3>2, PathsAssumption DEF NodeInv
  <2> QED  BY <2>1, <2>2
<1>3. Targets \subseteq Paths
  BY DEF Paths
<1> HIDE DEF f
<1>4. /\ f \in [Paths -> Seq(Mounts)]
      /\ \A p \in Paths : f[p] # <<>> => root[p] \notin {"absent", "symlink", "file"}
      /\ \A p \in Paths : \A i \in DOMAIN f[p] : f[p][i].dev = Disk => content = "ours"
      /\ \A p \in Targets : f[p] # <<>> /\ Visible(f, p).dev = Disk
                             /\ Visible(f, p).sub = p => p \in sources
  <2>1. \A p \in Paths : \A i \in DOMAIN f[p] : f[p] # <<>>
    BY <1>1
  <2> QED  BY <1>1, <1>2, <1>3, <2>1
<1> QED
  BY <1>4 DEF f

\* What the daemons write to, with the disk's part of it.
LEMMA PlacesAre ==
    ASSUME NEW m, NEW p
    PROVE  /\ PlaceOf(m, p) \in {"root", "disk", "elsewhere"}
           /\ PlaceOf(m, p) = "disk" <=> m[p] # <<>> /\ Visible(m, p).dev = Disk
           /\ PlaceOf(m, p) = "root" <=> m[p] = <<>>
  BY DEF PlaceOf

\* Daemons that start keep the types and the paths in order.
LEMMA WriteStateKeeps ==
    ASSUME Types, NodeInv, NEW m, m \in [Paths -> Seq(Mounts)], WriteState(m),
           \A p \in Paths : m[p] # <<>> => root[p] \notin {"absent", "symlink", "file"},
           \A p \in Paths : \A i \in DOMAIN m[p] : m[p][i].dev = Disk => content = "ours",
           \A p \in Targets : m[p] # <<>> /\ Visible(m, p).dev = Disk
                                  /\ Visible(m, p).sub = p => p \in sources,
           UNCHANGED <<fstab, sources, content>>
    PROVE  /\ daemons' = "running" /\ mnt' = m /\ mnt' \in [Paths -> Seq(Mounts)]
           /\ stores' \subseteq {"root", "disk", "elsewhere"} /\ root' \in [Paths -> RootKinds]
           /\ \A p \in Paths : mnt'[p] # <<>> => root'[p] \notin {"absent", "symlink", "file"}
           /\ NodeInv'
<1>1. daemons' = "running" /\ mnt' = m
      /\ root' = [p \in Paths |-> IF p \in Targets /\ m[p] = <<>> THEN "written" ELSE root[p]]
      /\ stores' = stores \cup {PlaceOf(m, p) : p \in Targets}
  BY DEF WriteState
<1>2. stores' \subseteq {"root", "disk", "elsewhere"}
  BY <1>1, PlacesAre DEF Types, TypeOK
<1>3. root' \in [Paths -> RootKinds]
  BY <1>1 DEF Types, TypeOK, RootKinds
<1>4. NodeInv'
  BY <1>1 DEF NodeInv, Last, Visible
<1> QED
  BY <1>1, <1>2, <1>3, <1>4

-----------------------------------------------------------------------------
(* The steps                                                               *)

Base == Types /\ NodeInv /\ RunInv /\ LinesInv

\* The decision leaves the node alone, and lets a run begin only on a disk and
\* paths that are in order.
LEMMA ClassifiedBase == ASSUME Base, Classified PROVE Base'
<1>0. UNCHANGED <<diskVars, pathVars, unitVars, histVars, deaths, boots, visits>>
  BY DEF Classified
<1> USE DEF Base, Types, TypeOK, diskVars, pathVars, unitVars, histVars
<1>1. NodeInv'
  BY <1>0 DEF NodeInv, Last, Visible
<1>2. CASE Verdict = "refuse"
  <2>1. pc' = "idle" /\ item' = 1 /\ state' = "unset" /\ mounted' = {} /\ notified' = FALSE
    BY <1>2 DEF Classified, EndRun
  <2>2. 1 \in 1 .. Len(BindTargets)
    OBVIOUS
  <2> QED  BY <1>0, <1>1, <2>1, <2>2 DEF RunInv, LinesInv
<1>3. CASE Verdict # "refuse"
  <2>1. /\ pc' = "mkfs" /\ state' = Verdict
        /\ mounted' = {p \in Paths : Mounted(Probe, p)}
        /\ UNCHANGED <<item, notified>>
    BY <1>3 DEF Classified, Goto
  <2>2. Acceptable(Probe) /\ Verdict \in {"blank", "ready", "ours"}
    BY <1>3 DEF Verdict, Classify
  <2>3. /\ dev = "disk"
        /\ \A p \in Paths : mnt[p] = <<>> => root[p] \in {"absent", "empty"}
    BY <2>2, AcceptedMeans, TypesReadable
  <2>4. \A p \in mounted' : mnt[p] # <<>>
    BY <2>1, ProbeMounts DEF Mounted
  <2>5. RunInv'
    BY <1>0, <2>1, <2>3, <2>4 DEF RunInv
  <2>6. LinesInv'
    BY <2>1 DEF LinesInv, Classified
  <2> QED  BY <1>0, <1>1, <2>1, <2>2, <2>5, <2>6
<1> QED
  BY <1>2, <1>3

\* A run that ends or dies, and changes nothing of the node any more.
LEMMA EndRunBase ==
    ASSUME Base, EndRun, UNCHANGED <<dev, content, attached, extra, sources, pathVars>>,
           dropins' \in {"none", "written", "loaded"}, UNCHANGED <<daemons, up, stores>>,
           passed' \in BOOLEAN
    PROVE  Base'
<1>1. pc' = "idle" /\ item' = 1 /\ state' = "unset" /\ mounted' = {} /\ notified' = FALSE
  BY DEF EndRun
<1>2. 1 \in 1 .. Len(BindTargets)
  BY DEF Base, Types, TypeOK
<1> QED
  BY <1>1, <1>2 DEF Base, Types, TypeOK, NodeInv, RunInv, LinesInv, Last, Visible, pathVars

\* mkfs only ever meets a blank disk, of which nothing is mounted.
LEMMA CreateFilesystemBase == ASSUME Base, CreateFilesystem PROVE Base'
<1>0. /\ pc = "mkfs"
      /\ UNCHANGED <<dev, attached, extra, pathVars, unitVars, histVars, deaths, boots, visits>>
  BY DEF CreateFilesystem
<1> USE DEF unitVars, histVars
<1>1. CASE /\ state # "blank" /\ Goto("mount")
           /\ UNCHANGED <<item, state, mounted, notified, content, sources>>
  BY <1>0, <1>1 DEF Goto, Base, Types, TypeOK, NodeInv, RunInv, LinesInv, Last, Visible, pathVars
<1>2. CASE /\ state = "blank" /\ MkfsAccepts /\ content' = "ours" /\ sources' = {}
           /\ Goto("mount") /\ UNCHANGED <<item, state, mounted, notified>>
  <2>1. content = "blank" /\ pc' = "mount"
    BY <1>2 DEF MkfsAccepts, Goto
  <2>2. \A p \in Paths : \A i \in DOMAIN mnt[p] : mnt[p][i].dev # Disk
    BY <2>1 DEF Base, NodeInv
  <2>3. ASSUME NEW p \in Targets, mnt[p] # <<>> PROVE Last(p).dev # Disk
    <3>1. p \in Paths /\ mnt[p] \in Seq(Mounts)
      BY DEF Paths, Base, Types
    <3>2. Len(mnt[p]) \in DOMAIN mnt[p]
      BY <2>3, <3>1
    <3> QED  BY <2>2, <3>1, <3>2 DEF Last, Visible
  <2>4. NodeInv'
    BY <1>0, <1>2, <2>3 DEF Base, NodeInv, Last, Visible, pathVars
  <2>5. Types'
    BY <1>0, <1>2, <2>1 DEF Base, Types, TypeOK, Contents, pathVars
  <2> QED  BY <1>0, <1>2, <2>1, <2>4, <2>5 DEF Base, RunInv, LinesInv, pathVars
<1>3. CASE state = "blank" /\ ~MkfsAccepts /\ EndRun /\ UNCHANGED <<content, sources>>
  <2>1. dropins' \in {"none", "written", "loaded"} /\ passed' \in BOOLEAN
    BY <1>0 DEF Base, Types, TypeOK
  <2> QED  BY <1>0, <1>3, <2>1, EndRunBase
<1> QED
  BY <1>1, <1>2, <1>3 DEF CreateFilesystem

\* The mount tasks go from path to path and line to line.
LEMMA MountBase == ASSUME Base, MountData \/ BindMount PROVE Base'
<1>1. PICK p \in Paths : MountEffect(p)
  BY MountTasks DEF Base
<1>2. /\ pc' \in {"idle", "sources", "bind", "dropins"}
      /\ UNCHANGED <<diskVars, unitVars, histVars>>
      /\ pc' # "idle" => UNCHANGED <<mounted, state, notified>>
      /\ pc' = "idle" => item' = 1 /\ state' = "unset" /\ mounted' = {} /\ notified' = FALSE
  BY MountTasks DEF Base
<1>3. pc # "idle"
  BY DEF MountData, BindMount
<1>4. /\ mnt' \in [Paths -> Seq(Mounts)] /\ root' \in [Paths -> RootKinds]
      /\ fstab' \in [Paths -> {"none", "hand", "ours"}]
      /\ \A q \in Paths : mnt'[q] # <<>> => root'[q] \notin {"absent", "symlink", "file"}
      /\ NodeInv'
      /\ \A q \in Paths :
            /\ mnt'[q] = <<>> => root'[q] \in {"absent", "empty"}
            /\ mnt[q] # <<>> => mnt'[q] # <<>>
            /\ fstab[q] = "ours" => fstab'[q] = "ours"
  <2>1. UNCHANGED <<content, sources, attached>>
    BY <1>2 DEF diskVars
  <2>2. Types /\ NodeInv /\ RunInv
    BY DEF Base
  <2> QED  BY <1>1, <1>3, <2>1, <2>2, MountKeeps
<1>5. item' \in 1 .. Len(BindTargets)
  <2>1. Len(BindTargets) \in Nat /\ item \in 1 .. Len(BindTargets)
    BY PathsAssumption DEF Base, Types, TypeOK
  <2>2. CASE MountData
    <3>1. item' \in {item, 1}
      BY <2>2 DEF MountData, Mount, EndRun
    <3> QED  BY <2>1, <3>1
  <2>3. CASE BindMount
    <3>1. item' = 1 \/ (item < Len(BindTargets) /\ item' = item + 1)
      BY <2>3 DEF BindMount, Mount, EndRun
    <3> QED  BY <2>1, <3>1
  <2> QED  BY <2>2, <2>3
<1>6. Types'
  BY <1>2, <1>4, <1>5 DEF Base, Types, TypeOK, diskVars, unitVars, histVars
<1>7. RunInv'
  BY <1>2, <1>3, <1>4 DEF Base, Types, TypeOK, RunInv, diskVars
<1>8. LinesInv'
  <2>1. CASE MountData
    <3>1. \/ pc' = "idle"
          \/ pc = "mount" /\ pc' = "sources" /\ item' = item
             /\ fstab' = [fstab EXCEPT ![DataMount] = "ours"]
      BY <2>1 DEF MountData, Mount, EndRun, Goto, FstabWith
    <3>2. DataMount \in Paths
      BY DEF Paths
    <3> QED  BY <1>2, <3>1, <3>2 DEF Base, Types, TypeOK, LinesInv
  <2>2. CASE BindMount
    <3>1. \/ pc' = "idle"
          \/ /\ fstab' = [fstab EXCEPT ![BindTargets[item]] = "ours"]
             /\ \/ item < Len(BindTargets) /\ item' = item + 1 /\ pc' = "bind"
                \/ item >= Len(BindTargets) /\ item' = 1 /\ pc' = "dropins"
      <4>1. item \in 1 .. Len(BindTargets) /\ Len(BindTargets) \in Nat
        BY PathsAssumption DEF Base, Types, TypeOK
      <4> QED  BY <2>2, <4>1 DEF BindMount, Mount, EndRun, Goto, FstabWith
    <3>2. /\ item \in 1 .. Len(BindTargets) /\ Len(BindTargets) \in Nat
          /\ \A j \in 1 .. Len(BindTargets) : BindTargets[j] \in Paths
          /\ fstab[DataMount] = "ours" /\ \A j \in 1 .. item - 1 : fstab[BindTargets[j]] = "ours"
          /\ DataMount \in Paths
      BY <2>2, PathsAssumption DEF Base, Types, TypeOK, LinesInv, BindMount, Paths, Targets
    <3>3. CASE pc' = "bind"
      <4>1. fstab' = [fstab EXCEPT ![BindTargets[item]] = "ours"] /\ item' = item + 1
        BY <3>1, <3>3
      <4>2. ASSUME NEW j \in 1 .. item PROVE fstab'[BindTargets[j]] = "ours"
        <5>1. BindTargets[j] \in Paths /\ (j = item \/ j \in 1 .. item - 1)
          BY <3>2
        <5> QED  BY <3>2, <4>1, <5>1 DEF Base, Types, TypeOK
      <4>5. \A j \in 1 .. item' - 1 : fstab'[BindTargets[j]] = "ours"
        BY <3>2, <4>1, <4>2
      <4>3. fstab'[DataMount] = "ours"
        BY <1>4, <3>2
      <4> QED  BY <3>3, <4>3, <4>5 DEF LinesInv
    <3>4. CASE pc' = "dropins"
      <4>1. fstab' = [fstab EXCEPT ![BindTargets[item]] = "ours"] /\ item = Len(BindTargets)
        BY <3>1, <3>2, <3>4
      <4>2. ASSUME NEW j \in 1 .. Len(BindTargets) PROVE fstab'[BindTargets[j]] = "ours"
        <5>1. BindTargets[j] \in Paths /\ (j = item \/ j \in 1 .. item - 1)
          BY <3>2, <4>1
        <5> QED  BY <3>2, <4>1, <5>1 DEF Base, Types, TypeOK
      <4>3. fstab'[DataMount] = "ours"
        BY <1>4, <3>2
      <4>4. \A q \in Paths : fstab'[q] = "ours"
        BY <4>2, <4>3, PathsAssumption DEF Paths, Targets
      <4> QED  BY <3>1, <3>4, <4>3, <4>4 DEF LinesInv
    <3> QED  BY <1>2, <3>1, <3>3, <3>4 DEF LinesInv
  <2> QED  BY <2>1, <2>2
<1> QED
  BY <1>4, <1>6, <1>7, <1>8 DEF Base

\* The tasks that touch neither a path nor a line; a verify ends its run.
LEMMA OtherTasksBase ==
    ASSUME Base, CreateBindSources \/ WriteDropins \/ FlushHandlers \/ Verify
    PROVE  Base'
<1> USE DEF Base, Types, TypeOK, NodeInv, RunInv, LinesInv, Last, Visible, pathVars, unitVars,
        histVars, diskVars, Goto
<1>1. CASE CreateBindSources
  <2>1. sources \subseteq sources' /\ sources' \subseteq Targets
    BY <1>1 DEF CreateBindSources
  <2>2. LinesInv'
    <3>1. pc' = "bind" /\ UNCHANGED <<item, fstab>> /\ fstab[DataMount] = "ours" /\ item = 1
      BY <1>1 DEF CreateBindSources
    <3> QED  BY <3>1
  <2> QED  BY <1>1, <2>1, <2>2 DEF CreateBindSources
<1>2. CASE WriteDropins \/ FlushHandlers
  <2>1. /\ UNCHANGED <<item, state, mounted, diskVars, pathVars, daemons, up, stores, passed>>
        /\ notified' \in BOOLEAN /\ dropins' \in {"none", "written", "loaded"}
        /\ pc \in {"dropins", "flush"} /\ pc' \in {"flush", "verify"}
    <3>1. CASE WriteDropins  BY <3>1, Zenon DEF WriteDropins
    <3>2. CASE FlushHandlers  BY <3>2, Zenon DEF FlushHandlers
    <3> QED  BY <1>2, <3>1, <3>2
  <2> QED  BY <2>1
<1>3. CASE Verify
  <2>1. EndRun /\ passed' \in BOOLEAN
    BY <1>3 DEF Verify
  <2> QED  BY <1>3, <2>1, EndRunBase DEF Verify
<1> QED
  BY <1>1, <1>2, <1>3

\* A run that dies, also inside a mount task, and a disk that is claimed.
LEMMA DeathsBase ==
    ASSUME Base, RunDies \/ MountIsCutShort \/ DiskIsClaimed
    PROVE  Base'
<1>1. CASE RunDies
  <2>1. /\ EndRun /\ UNCHANGED <<diskVars, pathVars, unitVars, histVars>>
    BY <1>1 DEF RunDies
  <2>2. dropins' \in {"none", "written", "loaded"} /\ passed' \in BOOLEAN
    BY <2>1 DEF unitVars, histVars, Base, Types, TypeOK
  <2> QED  BY <2>1, <2>2, EndRunBase DEF diskVars, unitVars, histVars
<1>2. CASE MountIsCutShort
  <2> DEFINE p == IF pc = "mount" THEN DataMount ELSE BindTargets[item]
  <2>1. /\ pc # "idle" /\ p \notin mounted
        /\ fstab' = [fstab EXCEPT ![p] = "ours"]
        /\ root' = [root EXCEPT ![p] = IF @ = "absent" THEN "empty" ELSE @]
        /\ EndRun /\ UNCHANGED <<diskVars, mnt, unitVars, histVars>>
    BY <1>2 DEF MountIsCutShort, MountState, FstabWith, MadeDirectory
  <2>2. p \in Paths
    <3>1. item \in 1..Len(BindTargets)
      BY DEF Base, Types, TypeOK
    <3>2. BindTargets[item] \in Targets
      BY <3>1, PathsAssumption
    <3> QED  BY <3>2 DEF Paths
  <2> HIDE DEF p
  <2>3. root[p] \notin {"symlink", "file"}
    BY <2>1, <2>2 DEF Base, RunInv, Types, TypeOK
  <2>4. root' \in [Paths -> RootKinds] /\ fstab' \in [Paths -> {"none", "hand", "ours"}]
    BY <2>1 DEF Base, Types, TypeOK, RootKinds
  <2>5. \A q \in Paths : mnt'[q] # <<>> \/ fstab'[q] # "none"
                              => root'[q] \notin {"absent", "symlink", "file"}
    BY <2>1, <2>2, <2>3 DEF Base, Types, TypeOK, NodeInv
  <2>6. pc' = "idle" /\ item' = 1 /\ state' = "unset" /\ mounted' = {} /\ notified' = FALSE
    BY <2>1 DEF EndRun
  <2>7. 1 \in 1 .. Len(BindTargets)
    BY DEF Base, Types, TypeOK
  <2>8. NodeInv'
    BY <2>1, <2>5 DEF Base, NodeInv, Last, Visible, diskVars
  <2>9. Types'
    BY <2>1, <2>4, <2>5, <2>6, <2>7 DEF Base, Types, TypeOK, diskVars, unitVars, histVars
  <2> QED  BY <2>6, <2>8, <2>9 DEF Base, RunInv, LinesInv
<1>3. CASE DiskIsClaimed
  <2>1. content = "blank" /\ content' = "ext4"
        /\ UNCHANGED <<runVars, dev, attached, extra, sources, pathVars, unitVars, histVars>>
    BY <1>3 DEF DiskIsClaimed
  <2> QED
    BY <2>1 DEF Base, Types, TypeOK, Contents, NodeInv, RunInv, LinesInv, Last, Visible,
       runVars, pathVars, unitVars, histVars
<1> QED
  BY <1>1, <1>2, <1>3

\* Nothing is mounted, or what a path has already.
LEMMA NothingMountedIs ==
    NothingMounted \in [Paths -> Seq(Mounts)] /\ \A p \in Paths : NothingMounted[p] = <<>>
  BY DEF NothingMounted

\* A boot, whether its lines work or not.
LEMMA BootBase ==
    ASSUME Base, NEW isAttached \in BOOLEAN, Boot(isAttached)
    PROVE  Base'
<1>1. /\ attached' = isAttached /\ up' = LinesWork(isAttached) /\ extra' = {}
      /\ dropins' = IF dropins = "none" THEN "none" ELSE "loaded"
      /\ EndRun
      /\ UNCHANGED <<dev, content, sources, fstab, passed, deaths, visits>>
  BY DEF Boot
<1>2. pc' = "idle" /\ item' = 1 /\ state' = "unset" /\ mounted' = {} /\ notified' = FALSE
  BY <1>1 DEF EndRun
<1>3. 1 \in 1 .. Len(BindTargets)
  BY DEF Base, Types, TypeOK
<1>4. up' \in BOOLEAN /\ attached' \in BOOLEAN /\ dropins' \in {"none", "written", "loaded"}
  BY <1>1, Zenon DEF LinesWork
<1> DEFINE f == FromFstab(NothingMounted)
<1>5. up' =>
        /\ f \in [Paths -> Seq(Mounts)]
        /\ \A p \in Paths : f[p] # <<>> => root[p] \notin {"absent", "symlink", "file"}
        /\ \A p \in Paths : \A i \in DOMAIN f[p] : f[p][i].dev = Disk => content = "ours"
        /\ \A p \in Targets : f[p] # <<>> /\ Visible(f, p).dev = Disk
                               /\ Visible(f, p).sub = p => p \in sources
  <2> SUFFICES ASSUME up' PROVE
        /\ f \in [Paths -> Seq(Mounts)]
        /\ \A p \in Paths : f[p] # <<>> => root[p] \notin {"absent", "symlink", "file"}
        /\ \A p \in Paths : \A i \in DOMAIN f[p] : f[p][i].dev = Disk => content = "ours"
        /\ \A p \in Targets : f[p] # <<>> /\ Visible(f, p).dev = Disk
                               /\ Visible(f, p).sub = p => p \in sources
    OBVIOUS
  <2>1. LinesWork(attached') /\ content' = content /\ sources' = sources
    BY <1>1
  <2> QED  BY <2>1, LinesMounted, NothingMountedIs DEF Base
<1> HIDE DEF f
<1>6. /\ mnt' \in [Paths -> Seq(Mounts)] /\ root' \in [Paths -> RootKinds]
      /\ \A p \in Paths : mnt'[p] # <<>> => root'[p] \notin {"absent", "symlink", "file"}
      /\ daemons' \in {"absent", "stopped", "running"}
      /\ stores' \subseteq {"root", "disk", "elsewhere"}
      /\ NodeInv'
  <2>1. CASE up' /\ daemons # "absent"
    <3>1. WriteState(f)
      BY <2>1 DEF Boot, f
    <3> QED  BY <1>1, <1>5, <2>1, <3>1, WriteStateKeeps DEF Base
  <2>2. CASE up' /\ daemons = "absent"
    <3>1. mnt' = f /\ daemons' = "absent" /\ UNCHANGED <<stores, root>>
      BY <2>2 DEF Boot, f
    <3> QED  BY <1>1, <1>5, <2>2, <3>1 DEF Base, Types, TypeOK, NodeInv, Last
  <2>3. CASE ~up'
    <3>1. /\ mnt' = NothingMounted /\ daemons' \in {"absent", "stopped"}
          /\ UNCHANGED <<stores, root>>
      BY <2>3 DEF Boot
    <3>2. \A p \in Paths : mnt'[p] = <<>>
      BY <3>1, NothingMountedIs
    <3>3. Targets \subseteq Paths
      BY DEF Paths
    <3> QED  BY <1>1, <3>1, <3>2, <3>3, NothingMountedIs DEF Base, Types, TypeOK, NodeInv
  <2> QED  BY <2>1, <2>2, <2>3
<1> QED
  BY <1>1, <1>2, <1>3, <1>4, <1>6 DEF Base, Types, TypeOK, RunInv, LinesInv

\* Daemons that somebody, or the next play, starts between runs.
LEMMA StartDaemonsBase == ASSUME Base, StartDaemons PROVE Base'
<1> DEFINE loaded == dropins = "loaded" \/ (daemons = "absent" /\ dropins = "written")
           m == IF loaded THEN FromFstab(mnt) ELSE mnt
<1>1. /\ pc = "idle" /\ (loaded => LinesWork(attached)) /\ WriteState(m)
      /\ dropins' = IF loaded THEN "loaded" ELSE dropins
      /\ UNCHANGED <<runVars, diskVars, fstab, up, passed, deaths, boots, visits>>
  BY DEF StartDaemons
<1>2. /\ m \in [Paths -> Seq(Mounts)]
      /\ \A p \in Paths : m[p] # <<>> => root[p] \notin {"absent", "symlink", "file"}
      /\ \A p \in Paths : \A i \in DOMAIN m[p] : m[p][i].dev = Disk => content = "ours"
      /\ \A p \in Targets : m[p] # <<>> /\ Visible(m, p).dev = Disk
                             /\ Visible(m, p).sub = p => p \in sources
  <2>1. CASE loaded
    <3>1. LinesWork(attached') /\ content' = content /\ sources' = sources
      BY <1>1, <2>1 DEF diskVars, LinesWork
    <3> QED  BY <2>1, <3>1, LinesMounted DEF Base, Types
  <2>2. CASE ~loaded
    BY <2>2 DEF Base, Types, TypeOK, NodeInv, Last
  <2> QED  BY <2>1, <2>2
<1> HIDE DEF m
<1>3. /\ daemons' = "running" /\ mnt' \in [Paths -> Seq(Mounts)]
      /\ stores' \subseteq {"root", "disk", "elsewhere"} /\ root' \in [Paths -> RootKinds]
      /\ \A p \in Paths : mnt'[p] # <<>> => root'[p] \notin {"absent", "symlink", "file"}
      /\ NodeInv'
  <2>1. UNCHANGED <<fstab, sources, content>>
    BY <1>1 DEF diskVars
  <2> QED  BY <1>1, <1>2, <2>1, WriteStateKeeps DEF Base
<1>4. dropins' \in {"none", "written", "loaded"}
  BY <1>1 DEF Base, Types, TypeOK
<1> QED
  BY <1>1, <1>3, <1>4 DEF Base, Types, TypeOK, RunInv, LinesInv, runVars, diskVars

\* The visit that unmounts everything.
LEMMA StopAndUnmountBase == ASSUME Base, StopAndUnmount PROVE Base'
<1>1. /\ pc = "idle" /\ mnt' = NothingMounted /\ extra' = {}
      /\ daemons' = IF daemons = "running" THEN "stopped" ELSE daemons
      /\ UNCHANGED <<runVars, dev, content, attached, sources, root, fstab, dropins, up,
                     histVars>>
  BY DEF StopAndUnmount
<1>2. \A p \in Paths : mnt'[p] = <<>>
  BY <1>1, NothingMountedIs
<1>3. daemons' \in {"absent", "stopped", "running"} /\ mnt' \in [Paths -> Seq(Mounts)]
  BY <1>1, NothingMountedIs DEF Base, Types, TypeOK
<1>4. NodeInv'
  BY <1>1, <1>2 DEF Base, NodeInv, Paths
<1> QED
  BY <1>1, <1>2, <1>3, <1>4 DEF Base, Types, TypeOK, RunInv, LinesInv, runVars, histVars

\* So every step keeps the node, the run and the lines in order.
LEMMA BaseStep == Base /\ [Next]_vars => Base'
<1> SUFFICES ASSUME Base, [Next]_vars PROVE Base'
  OBVIOUS
<1>1. CASE RunStep
  BY <1>1, CreateFilesystemBase, MountBase, OtherTasksBase DEF RunStep
<1>2. CASE Reboot
  BY <1>2, BootBase DEF Reboot
<1>3. CASE Repair
  BY <1>3, BootBase DEF Repair
<1>4. CASE UNCHANGED vars
  BY <1>4 DEF vars, runVars, diskVars, pathVars, unitVars, histVars, Base, Types, TypeOK,
     NodeInv, RunInv, LinesInv, Last
<1> QED
  BY <1>1, <1>2, <1>3, <1>4, ClassifiedBase, DeathsBase, StartDaemonsBase, StopAndUnmountBase
  DEF Next

\* The invariant that needs nothing of the handlers.
LEMMA BaseHolds == Spec => []Base
<1>1. Init => Base
  BY InvInit DEF Base
<1> QED
  BY <1>1, BaseStep, PTL DEF Spec

\* Every variable has its type, and a path something is mounted at exists.
THEOREM TypeCorrect == Spec => []TypeOK
<1>1. Base => TypeOK
  BY DEF Base, Types
<1> QED
  BY <1>1, BaseHolds, PTL

\* Docker's or containerd's state on the root disk does not disappear under a
\* mount of the role's, however its runs and the machine ended before
\* (node_storage.py:493).
THEOREM StateIsNotHidden == Spec => NothingHidden
<1>1. Base => (RunStep => \A p \in Paths :
                   root[p] = "written" /\ mnt[p] = <<>> => mnt'[p] = <<>>)
  <2> SUFFICES ASSUME Base, RunStep, NEW p \in Paths, root[p] = "written", mnt[p] = <<>>
               PROVE  FALSE
    OBVIOUS
  <2>1. pc # "idle"
    BY DEF RunStep, CreateFilesystem, MountData, CreateBindSources, BindMount, WriteDropins,
       FlushHandlers, Verify
  <2> QED  BY <2>1 DEF Base, RunInv
<1> QED
  BY <1>1, BaseHolds, PTL DEF NothingHidden

-----------------------------------------------------------------------------
(* What passing promises                                                   *)

\* No step leaves the drop-ins written and not loaded, but a run that goes on
\* to load them.
LEMMA DropinsStep ==
    ~LosesHandlers /\ Base /\ DropinsInv /\ [Next]_vars => DropinsInv'
<1> SUFFICES ASSUME ~LosesHandlers, Base, DropinsInv, [Next]_vars PROVE DropinsInv'
  OBVIOUS
<1>0. dropins \in {"none", "written", "loaded"}
  BY DEF Base, Types, TypeOK
<1> USE DEF DropinsInv, EndRun, Goto, runVars, unitVars
<1>1. CASE Classified
  BY <1>1 DEF Classified
<1>2. CASE CreateFilesystem
  BY <1>2 DEF CreateFilesystem
<1>3. CASE MountData \/ BindMount
  <2>1. pc' \in {"idle", "sources", "bind", "dropins"} /\ dropins' = dropins
    BY <1>3, MountTasks DEF Base
  <2>2. dropins # "written"
    BY <1>3 DEF MountData, BindMount
  <2> QED  BY <2>1, <2>2
<1>4. CASE CreateBindSources \/ WriteDropins \/ FlushHandlers \/ Verify
  BY <1>0, <1>4 DEF CreateBindSources, WriteDropins, FlushHandlers, Verify
<1>5. CASE RunDies \/ MountIsCutShort \/ DiskIsClaimed
  BY <1>5 DEF RunDies, MountIsCutShort, DiskIsClaimed
<1>6. CASE Reboot \/ Repair
  BY <1>6 DEF Reboot, Repair, Boot
<1>7. CASE StartDaemons \/ StopAndUnmount
  BY <1>0, <1>7 DEF StartDaemons, StopAndUnmount
<1>8. CASE UNCHANGED vars
  BY <1>8 DEF vars
<1> QED
  BY <1>1, <1>2, <1>3, <1>4, <1>5, <1>6, <1>7, <1>8 DEF Next, RunStep

\* A node whose re-probe says `ready` after a run satisfies the promise.
LEMMA VerifyPromises ==
    ASSUME Base, DropinsInv, pc = "verify", Verdict = "ready"
    PROVE  /\ dev = "disk" /\ content = "ours" /\ Under(extra)
           /\ dropins = "loaded" /\ Targets \subseteq sources
           /\ \A p \in Paths : fstab[p] = "ours" /\ GoodMount(p)
           /\ attached /\ \A p \in Paths : mnt[p] # <<>>
<1>1. /\ attached /\ dev = "disk" /\ content = "ours" /\ Under(extra)
      /\ \A p \in Paths : mnt[p] # <<>> /\ GoodMount(p)
  BY ReadyMeans, TypesReadable DEF Base
<1>2. ASSUME NEW p \in Targets PROVE p \in sources
  <2>1. Last(p).dev = Disk /\ Last(p).sub = p /\ mnt[p] # <<>>
    BY <1>1, WantedIsGood DEF GoodMount, Paths
  <2> QED  BY <2>1 DEF Base, NodeInv
<1>3. dropins = "loaded"
  BY DEF Base, Types, TypeOK, DropinsInv
<1> QED
  BY <1>1, <1>2, <1>3 DEF Base, LinesInv

\* On a node that was passed, the lines that mount bring back what the role
\* wants.
LEMMA LinesPromise ==
    ASSUME Types, \A p \in Paths : fstab[p] = "ours", NEW m \in [Paths -> Seq(Mounts)],
           \A p \in Paths : m[p] # <<>> => m[p] = mnt[p] /\ GoodMount(p), NEW p \in Paths
    PROVE  LET f == FromFstab(m) IN
           /\ f[p] # <<>> /\ Visible(f, p).dev = Disk /\ Visible(f, p).sub = Wanted(p).sub
           /\ p = DataMount => HasPrjquota(Visible(f, p).options)
<1> DEFINE f == FromFstab(m)
<1>1. CASE m[p] # <<>>
  <2>1. f[p] = m[p] /\ m[p] = mnt[p] /\ GoodMount(p)
    BY <1>1, FromFstabIs
  <2> HIDE DEF f
  <2>2. f[p] # <<>> /\ Visible(f, p) = Last(p)
    BY <1>1, <2>1 DEF Last, Visible
  <2> QED  BY <2>1, <2>2 DEF GoodMount, f
<1>2. CASE m[p] = <<>>
  <2>1. f[p] # <<>> /\ Visible(f, p) = Wanted(p)
    BY <1>2, FromFstabIs
  <2> HIDE DEF f
  <2> QED  BY <2>1, WantedIsGood DEF f
<1> QED
  BY <1>1, <1>2

\* A run on a node that was passed takes nothing back.
LEMMA PassedRun ==
    ASSUME Base, DropinsInv, PassedInv, Classified \/ RunStep
    PROVE  PassedInv'
<1> USE DEF PassedInv, GoodMount, Last, diskVars, pathVars, unitVars, histVars
<1>1. CASE Classified
  BY <1>1 DEF Classified
<1>2. CASE CreateFilesystem
  BY <1>2 DEF CreateFilesystem, MkfsAccepts
<1>3. CASE MountData \/ BindMount
  <2>1. /\ UNCHANGED <<diskVars, unitVars, histVars>> /\ \E p \in Paths : MountEffect(p)
        /\ pc # "idle"
    BY <1>3, MountTasks DEF Base, MountData, BindMount
  <2>2. \A q \in Paths :
            /\ mnt[q] # <<>> => mnt'[q] # <<>>
            /\ mnt'[q] # <<>> => mnt'[q] = mnt[q] \/ Visible(mnt', q) = Wanted(q)
            /\ fstab[q] = "ours" => fstab'[q] = "ours"
    BY <2>1, MountKeeps DEF Base
  <2>3. ASSUME passed, NEW q \in Paths, mnt'[q] # <<>> PROVE GoodMount(q)'
    BY <2>2, <2>3, WantedIsGood DEF Visible
  <2> QED  BY <2>1, <2>2, <2>3
<1>4. CASE CreateBindSources
  BY <1>4 DEF CreateBindSources
<1>5. CASE WriteDropins \/ FlushHandlers
  BY <1>5 DEF WriteDropins, FlushHandlers
<1>6. CASE Verify
  <2>1. pc = "verify" /\ (passed' => passed \/ Verdict = "ready")
        /\ UNCHANGED <<diskVars, pathVars, unitVars>>
    BY <1>6 DEF Verify
  <2> QED  BY <2>1, VerifyPromises
<1> QED
  BY <1>1, <1>2, <1>3, <1>4, <1>5, <1>6 DEF RunStep

\* Nor does anything that happens to the run or the node.
LEMMA PassedOutside ==
    ASSUME Base, DropinsInv, PassedInv,
           \/ RunDies \/ MountIsCutShort \/ DiskIsClaimed
           \/ Reboot \/ Repair \/ StartDaemons \/ StopAndUnmount
    PROVE  PassedInv'
<1> USE DEF PassedInv, diskVars, pathVars, unitVars, histVars
<1>1. CASE RunDies \/ DiskIsClaimed
  BY <1>1 DEF RunDies, DiskIsClaimed, GoodMount, Last
<1>2. CASE MountIsCutShort
  <2>1. /\ \A q \in Paths : fstab[q] = "ours" => fstab'[q] = "ours"
        /\ UNCHANGED <<diskVars, mnt, unitVars, histVars>>
    BY <1>2 DEF MountIsCutShort, FstabWith, Base, Types, TypeOK
  <2> QED  BY <2>1 DEF GoodMount, Last
<1>3. CASE StopAndUnmount
  <2>1. \A q \in Paths : mnt'[q] = <<>>
    BY <1>3, NothingMountedIs DEF StopAndUnmount
  <2>2. daemons' # "running" /\ extra' = {}
    BY <1>3 DEF StopAndUnmount
  <2> QED  BY <1>3, <2>1, <2>2 DEF StopAndUnmount, Under
<1>4. ASSUME NEW isAttached \in BOOLEAN, Boot(isAttached), passed PROVE PassedInv'
  <2>1. /\ attached' = isAttached /\ up' = LinesWork(isAttached) /\ extra' = {}
        /\ dropins' = IF dropins = "none" THEN "none" ELSE "loaded"
        /\ UNCHANGED <<dev, content, sources, fstab, passed>>
    BY <1>4 DEF Boot
  <2>2. /\ dev' = "disk" /\ content' = "ours" /\ Under(extra') /\ dropins' = "loaded"
        /\ Targets \subseteq sources' /\ \A p \in Paths : fstab'[p] = "ours"
    BY <1>4, <2>1 DEF Under
  <2>3. CASE up'
    <3> DEFINE f == FromFstab(NothingMounted)
    <3>1. mnt' = f
      BY <1>4, <2>3 DEF Boot, WriteState
    <3>2. \A p \in Paths :
             /\ f[p] # <<>> /\ Visible(f, p).dev = Disk /\ Visible(f, p).sub = Wanted(p).sub
             /\ p = DataMount => HasPrjquota(Visible(f, p).options)
      BY <1>4, NothingMountedIs, LinesPromise DEF Base
    <3>3. isAttached
      BY <1>4, <2>1, <2>3 DEF LinesWork, Paths
    <3> HIDE DEF f
    <3>4. \A p \in Paths : mnt'[p] # <<>> /\ GoodMount(p)'
      BY <3>1, <3>2 DEF GoodMount, Last
    <3> QED  BY <2>1, <2>2, <3>3, <3>4
  <2>4. CASE ~up'
    <3>1. mnt' = NothingMounted /\ daemons' # "running"
      BY <1>4, <2>4 DEF Boot
    <3>2. \A p \in Paths : mnt'[p] = <<>>
      BY <3>1, NothingMountedIs
    <3> QED  BY <2>2, <3>1, <3>2
  <2> QED  BY <2>3, <2>4
<1>5. CASE Reboot \/ Repair
  <2>1. PICK isAttached \in BOOLEAN : Boot(isAttached)
    BY <1>5 DEF Reboot, Repair
  <2>2. passed' = passed
    BY <2>1 DEF Boot
  <2> QED  BY <1>4, <2>1, <2>2
<1>6. CASE StartDaemons
  <2> SUFFICES ASSUME passed' PROVE PassedInv'
    OBVIOUS
  <2>1. /\ passed /\ dropins = "loaded" /\ LinesWork(attached) /\ mnt' = FromFstab(mnt)
        /\ dropins' = "loaded" /\ UNCHANGED <<diskVars, fstab, up, passed>>
    BY <1>6 DEF StartDaemons, WriteState
  <2> DEFINE f == FromFstab(mnt)
  <2>2. \A p \in Paths :
           /\ f[p] # <<>> /\ Visible(f, p).dev = Disk /\ Visible(f, p).sub = Wanted(p).sub
           /\ p = DataMount => HasPrjquota(Visible(f, p).options)
    BY <2>1, LinesPromise DEF Base, Types
  <2>3. attached
    BY <2>1 DEF LinesWork, Paths
  <2> HIDE DEF f
  <2>4. \A p \in Paths : mnt'[p] # <<>> /\ GoodMount(p)'
    BY <2>1, <2>2 DEF GoodMount, Last, f
  <2> QED  BY <2>1, <2>3, <2>4 DEF Under
<1> QED
  BY <1>1, <1>2, <1>3, <1>5, <1>6

\* So nothing does.
LEMMA PassedStep ==
    Base /\ DropinsInv /\ PassedInv /\ [Next]_vars => PassedInv'
<1> SUFFICES ASSUME Base, DropinsInv, PassedInv, [Next]_vars PROVE PassedInv'
  OBVIOUS
<1>1. CASE UNCHANGED vars
  BY <1>1 DEF vars, diskVars, pathVars, unitVars, histVars, PassedInv, GoodMount, Last
<1> QED
  BY <1>1, PassedRun, PassedOutside DEF Next

\* The whole invariant, where handlers are not lost.
LEMMA InvHolds == ~LosesHandlers /\ Spec => [](Base /\ DropinsInv /\ PassedInv)
<1> SUFFICES ASSUME ~LosesHandlers PROVE Spec => [](Base /\ DropinsInv /\ PassedInv)
  OBVIOUS
<1>1. Init => Base /\ DropinsInv /\ PassedInv
  BY InvInit DEF Base
<1>2. (Base /\ DropinsInv /\ PassedInv) /\ [Next]_vars => (Base /\ DropinsInv /\ PassedInv)'
  BY BaseStep, DropinsStep, PassedStep
<1> QED
  BY <1>1, <1>2, PTL DEF Spec

\* On a node the role has passed, running daemons write to the data disk only,
\* after any reboot and any stop and unmount since (README.md of the role:
\* "neither daemon can start before the bind mounts are up").
THEOREM WritesStayOnTheDisk == ~LosesHandlers /\ Spec => []WritesToDataDisk
<1> SUFFICES ASSUME ~LosesHandlers PROVE Spec => []WritesToDataDisk
  OBVIOUS
<1>1. Base /\ DropinsInv /\ PassedInv => WritesToDataDisk
  BY PlacesAre DEF WritesToDataDisk, PassedInv, GoodMount, Last, Paths
<1>2. Spec => [](Base /\ DropinsInv /\ PassedInv)
  BY InvHolds
<1> QED
  BY <1>1, <1>2, PTL

\* And the node still classifies as `ready` whenever its daemons run, so later
\* runs of the role accept it (node_storage.py, classify).
THEOREM PassedIsReady == ~LosesHandlers /\ Spec => []PassedStaysReady
<1> SUFFICES ASSUME ~LosesHandlers PROVE Spec => []PassedStaysReady
  OBVIOUS
<1>1. Base /\ DropinsInv /\ PassedInv => PassedStaysReady
  BY ReadyMeans, TypesReadable DEF PassedStaysReady, PassedInv, Base
<1>2. Spec => [](Base /\ DropinsInv /\ PassedInv)
  BY InvHolds
<1> QED
  BY <1>1, <1>2, PTL

-----------------------------------------------------------------------------
(* The contract                                                            *)

\* Daemons that start write where the contract lets them.
LEMMA StoreIsAllowed ==
    ASSUME Types', NodeInv', PassedInv', passed' = passed, daemons' = "running",
           NEW m, mnt' = m, stores' = stores \cup {PlaceOf(m, p) : p \in Targets},
           UNCHANGED <<content, dev>>
    PROVE  \E places \in SUBSET Contract!Places : Contract!Store(places)
<1> DEFINE places == {PlaceOf(m, p) : p \in Targets}
<1>1. places \in SUBSET Contract!Places
  BY PlacesAre DEF Contract!Places
<1>2. passed => places \subseteq {"disk"}
  BY PlacesAre DEF PassedInv, GoodMount, Last, Paths
<1>3. "disk" \in places => DiskHolds = "ours"
  <2> SUFFICES ASSUME NEW p \in Targets, PlaceOf(m, p) = "disk" PROVE DiskHolds = "ours"
    OBVIOUS
  <2>1. p \in Paths /\ mnt'[p] # <<>> /\ mnt'[p] \in Seq(Mounts)
        /\ mnt'[p][Len(mnt'[p])].dev = Disk
    BY PlacesAre DEF Paths, Visible, Types
  <2>2. Len(mnt'[p]) \in DOMAIN mnt'[p]
    BY <2>1
  <2>3. content = "ours"
    BY <2>1, <2>2 DEF NodeInv
  <2> QED  BY <2>3 DEF DiskHolds
<1>4. DiskHolds' = DiskHolds
  BY DEF DiskHolds
<1> QED
  BY <1>1, <1>2, <1>3, <1>4 DEF Contract!Store

\* Every step of the role and of the node is a step of the contract's, or none.
LEMMA ContractStep ==
    ASSUME ~LosesHandlers, Base, DropinsInv, PassedInv, Base', PassedInv', [Next]_vars
    PROVE  [Contract!Next]_<<DiskHolds, stores, passed>>
<1> USE DEF diskVars, histVars
<1>1. ASSUME UNCHANGED <<content, dev, stores, passed>>
      PROVE  UNCHANGED <<DiskHolds, stores, passed>>
  BY <1>1 DEF DiskHolds
<1>2. CASE Classified \/ MountData \/ BindMount \/ CreateBindSources \/ WriteDropins \/ FlushHandlers
  BY <1>1, <1>2, MountTasks
  DEF Classified, CreateBindSources, WriteDropins, FlushHandlers, Base
<1>3. CASE CreateFilesystem
  <2>1. CASE content' = content
    BY <1>1, <1>3, <2>1 DEF CreateFilesystem
  <2>2. CASE content = "blank" /\ content' = "ours"
    <3>1. dev = "disk" /\ UNCHANGED <<stores, passed>>
      BY <1>3 DEF CreateFilesystem, Base, RunInv
    <3>2. DiskHolds = "blank" /\ DiskHolds' = "ours"
      BY <2>2, <3>1 DEF DiskHolds
    <3> QED  BY <3>1, <3>2 DEF Contract!Next, Contract!Format
  <2> QED  BY <1>3, <2>1, <2>2 DEF CreateFilesystem, MkfsAccepts
<1>4. CASE Verify
  <2>1. UNCHANGED <<content, dev, stores>> /\ DiskHolds' = DiskHolds
    BY <1>4 DEF Verify, DiskHolds
  <2>2. CASE Verdict = "ready"
    <3>1. DiskHolds = "ours"
      BY <2>2, ReadyMeans, TypesReadable DEF Base, DiskHolds
    <3>2. passed' = TRUE
      BY <1>4, <2>2 DEF Verify
    <3> QED  BY <2>1, <3>1, <3>2 DEF Contract!Next, Contract!Promise
  <2>3. CASE Verdict # "ready"
    <3>1. passed' = passed
      BY <1>4, <2>3, Zenon DEF Verify, Base, Types, TypeOK
    <3> QED  BY <1>1, <2>1, <3>1
  <2> QED  BY <2>2, <2>3
<1>5. CASE RunDies \/ MountIsCutShort \/ StopAndUnmount \/ UNCHANGED vars
  BY <1>1, <1>5 DEF RunDies, MountIsCutShort, StopAndUnmount, vars
<1>6. CASE DiskIsClaimed
  <2>1. DiskHolds = "blank" /\ DiskHolds' = "foreign" /\ UNCHANGED <<stores, passed>>
    BY <1>6 DEF DiskIsClaimed, DiskHolds
  <2> QED  BY <2>1 DEF Contract!Next, Contract!Claim
<1>7. CASE Reboot \/ Repair
  <2>1. PICK isAttached \in BOOLEAN : Boot(isAttached)
    BY <1>7 DEF Reboot, Repair
  <2>2. UNCHANGED <<content, dev, passed>>
    BY <2>1 DEF Boot
  <2> DEFINE f == FromFstab(NothingMounted)
  <2>3. WriteState(f) \/ stores' = stores
    BY <2>1 DEF Boot
  <2>4. CASE WriteState(f)
    <3>1. daemons' = "running" /\ mnt' = f
          /\ stores' = stores \cup {PlaceOf(f, p) : p \in Targets}
      BY <2>4 DEF WriteState
    <3> HIDE DEF f
    <3> QED  BY <2>2, <3>1, StoreIsAllowed DEF Base, Contract!Next
  <2> QED  BY <1>1, <2>2, <2>3, <2>4
<1>8. CASE StartDaemons
  <2>1. PICK m : WriteState(m)
    BY <1>8 DEF StartDaemons
  <2>2. daemons' = "running" /\ mnt' = m
        /\ stores' = stores \cup {PlaceOf(m, p) : p \in Targets}
    BY <2>1 DEF WriteState
  <2>3. UNCHANGED <<content, dev, passed>>
    BY <1>8 DEF StartDaemons
  <2> QED  BY <2>2, <2>3, StoreIsAllowed DEF Base, Contract!Next
<1> QED
  BY <1>2, <1>3, <1>4, <1>5, <1>6, <1>7, <1>8 DEF Next, RunStep

\* The role implements its contract (node_storage.py, classify: `blank` is
\* the one state that is formatted): only a blank disk gets a filesystem, and once
\* the role has passed, state is written to its filesystem alone.
THEOREM ContractIsKept == ~LosesHandlers /\ Spec => PromiseKept
<1> SUFFICES ASSUME ~LosesHandlers PROVE Spec => PromiseKept
  OBVIOUS
<1>1. Init => Contract!Init
  <2> SUFFICES ASSUME Init PROVE Contract!Init
    OBVIOUS
  <2>1. stores \subseteq {"root", "disk", "elsewhere"} /\ passed = FALSE
    BY InvInit DEF Init, Types, TypeOK
  <2>2. DiskHolds \in {"blank", "ours", "foreign"}
    BY DEF DiskHolds
  <2> QED  BY <2>1, <2>2 DEF Contract!Init, Contract!Places
<1>2. Init => Base /\ DropinsInv /\ PassedInv
  BY InvInit DEF Base
<1>3. ASSUME Base /\ DropinsInv /\ PassedInv, [Next]_vars
      PROVE  (Base /\ DropinsInv /\ PassedInv)' /\ [Contract!Next]_<<DiskHolds, stores, passed>>
  BY <1>3, BaseStep, DropinsStep, PassedStep, ContractStep
<1> QED
  BY <1>1, <1>2, <1>3, PTL DEF Spec, PromiseKept, Contract!Spec, Contract!vars
=============================================================================
