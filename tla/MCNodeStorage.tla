--------------------------- MODULE MCNodeStorage ---------------------------
(* One node for TLC: a disk and three paths, met in each of the states an    *)
(* operator may have left them in.                                           *)
EXTENDS NodeStorageProps

MCBindTargets == <<"docker", "containerd">>

All(x) == [p \in Paths |-> x]

\* A new machine.
New == [dev |-> "disk", content |-> "blank", extra |-> {}, mnt |-> NothingMounted,
        root |-> All("absent"), fstab |-> All("none"), sources |-> {},
        dropins |-> "none", daemons |-> "absent", stores |-> {}]

\* A machine somebody laid out by hand the way the role would have.
Built == [New EXCEPT !.content = "ours", !.mnt = [p \in Paths |-> <<Wanted(p)>>],
                     !.root = All("empty"), !.fstab = All("ours"), !.sources = Targets,
                     !.daemons = "running", !.stores = {"disk"}]

Other(p) == MountOf(OtherDisk, Wanted(p).sub, {"prjquota"})

MCInitialNodes ==
    \* what is on the disk, and what the device is
    {[New EXCEPT !.content = c] : c \in Contents}
    \cup {[New EXCEPT !.dev = d] : d \in Oddities \ {"unreadable"}}
    \cup {[New EXCEPT !.dev = "unreadable", !.content = "ext4"]}
    \cup {[New EXCEPT !.extra = {<<"mnt">>}, !.content = c] : c \in {"ours", "cached"}}
    \* what is at the paths
    \cup {[New EXCEPT !.root = [All("empty") EXCEPT ![p] = k]] :
             p \in Paths, k \in RootKinds \ {"absent"}}
    \cup {[New EXCEPT !.root = [All("absent") EXCEPT !["docker"] = "written"],
                      !.daemons = d, !.stores = {"root"}] : d \in {"stopped", "running"}}
    \* hand-made mounts and lines
    \cup {[Built EXCEPT !.fstab = All(line)] : line \in {"none", "hand", "ours"}}
    \cup {[Built EXCEPT !.fstab = [All("ours") EXCEPT ![p] = "none"],
                        !.extra = {<<"docker", "volumes">>}] : p \in Targets}
    \cup {[Built EXCEPT !.fstab = All("hand"), !.mnt[DataMount][1].options = {"pqnoenforce"}]}
    \cup {[Built EXCEPT !.mnt["docker"][1].sub = "containerd", !.daemons = "stopped"]}
    \cup {[Built EXCEPT !.mnt[p] = <<Other(p), Wanted(p)>>] : p \in Paths}
    \cup {[Built EXCEPT !.mnt["docker"] = <<Wanted("docker"), Other("docker")>>,
                        !.stores = {"disk", "elsewhere"}]}
=============================================================================
