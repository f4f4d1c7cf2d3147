-------------------------- MODULE StorageContract --------------------------
(***************************************************************************)
(* What roles/node_storage promises of a node, whatever it runs to keep    *)
(* it: a disk is formatted only while it is blank, and from the moment the *)
(* role passes on a node, docker's and containerd's state is only ever     *)
(* written to the role's own filesystem on the data disk.                  *)
(***************************************************************************)
VARIABLES
    disk,      \* what the data disk holds: "blank", "ours" or "foreign"
    stores,    \* the filesystems docker's and containerd's state was written to
    promised   \* the role has passed on the node

vars == <<disk, stores, promised>>

Places == {"root", "disk", "elsewhere"}

Init ==
    /\ disk \in {"blank", "ours", "foreign"}
    /\ stores \in SUBSET Places
    /\ promised = FALSE

Format ==
    /\ disk = "blank"
    /\ disk' = "ours"
    /\ UNCHANGED <<stores, promised>>

\* Somebody else writes to a disk nobody has claimed yet.
Claim ==
    /\ disk = "blank"
    /\ disk' = "foreign"
    /\ UNCHANGED <<stores, promised>>

Promise ==
    /\ disk = "ours"
    /\ promised' = TRUE
    /\ UNCHANGED <<disk, stores>>

Store(places) ==
    /\ promised => places \subseteq {"disk"}
    /\ "disk" \in places => disk = "ours"
    /\ stores' = stores \cup places
    /\ UNCHANGED <<disk, promised>>

Next ==
    \/ Format
    \/ Claim
    \/ Promise
    \/ \E places \in SUBSET Places : Store(places)

Spec == Init /\ [][Next]_vars
=============================================================================
