-------------------------- MODULE NodeStorageProps --------------------------
(***************************************************************************)
(* What roles/node_storage must keep, whatever node it meets and however   *)
(* its runs end.                                                           *)
(***************************************************************************)
EXTENDS NodeStorage

\* Every variable has its type, and a path something is mounted at exists.
TypeOK ==
    /\ pc \in {"idle", "mkfs", "mount", "sources", "bind", "dropins", "flush", "verify"}
    /\ item \in 1..Len(BindTargets)
    /\ state \in {"unset", "blank", "ours", "ready"}
    /\ mounted \subseteq Paths
    /\ notified \in BOOLEAN
    /\ dev \in {"disk"} \cup Oddities
    /\ content \in Contents
    /\ attached \in BOOLEAN /\ up \in BOOLEAN
    /\ extra \subseteq {<<"mnt">>} \cup {<<p, "volumes">> : p \in Targets}
    /\ root \in [Paths -> RootKinds]
    /\ fstab \in [Paths -> {"none", "hand", "ours"}]
    /\ sources \subseteq Targets
    /\ dropins \in {"none", "written", "loaded"}
    /\ daemons \in {"absent", "stopped", "running"}
    /\ stores \subseteq {"root", "disk", "elsewhere"}
    /\ passed \in BOOLEAN
    /\ \A p \in Paths : mnt[p] # <<>> => root[p] \notin {"absent", "symlink", "file"}

\* Docker's or containerd's state on the root disk does not disappear under a
\* mount of the role's, whatever became of the node since an earlier run died
\* half way (node_storage.py:493, "Binding over it would hide that state").
NothingHidden ==
    [][RunStep => \A p \in Paths :
          root[p] = "written" /\ mnt[p] = <<>> => mnt'[p] = <<>>]_vars

\* On a node the role has passed, a running docker or containerd writes to the
\* data disk only, after any reboot and any stop and unmount since.  README.md
\* of the role: "neither daemon can start before the bind mounts are up, so
\* neither can ever write its state underneath them".
WritesToDataDisk ==
    passed /\ daemons = "running" => \A p \in Targets : PlaceOf(mnt, p) = "disk"

\* A node the role has passed still classifies as `ready` whenever its daemons
\* run: the fstab lines bring back every mount, with the quota, so later runs
\* (upgrade-docker.yml, maintain-nodes.yml) accept it.
PassedStaysReady == passed /\ daemons = "running" => Verdict = "ready"

DiskHolds ==
    IF content = "ours" THEN "ours"
    ELSE IF content = "blank" /\ dev = "disk" THEN "blank"
    ELSE "foreign"

Contract == INSTANCE StorageContract WITH disk <- DiskHolds, promised <- passed

\* The role implements its contract: only a blank disk is formatted, and once
\* it has passed the daemons' state is written to its filesystem alone.
PromiseKept == Contract!Spec

Fresh ==
    /\ content \in {"blank", "ours"} /\ dev = "disk" /\ daemons = "absent" /\ extra = {}
    /\ mnt = NothingMounted /\ \A p \in Paths : root[p] \in {"absent", "empty"}

\* Wherever runs die and the machine reboots, a node without docker on it is
\* finished by running the role again, unless somebody claimed its disk.
FreshNodeFinishes == Fresh => <>(passed \/ DiskHolds = "foreign")
=============================================================================
