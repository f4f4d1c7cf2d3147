------------------------- MODULE MaintainNodeProps --------------------------
(* What a maintenance run must keep, however it fails and is re-run. *)
EXTENDS MaintainNode

\* What the run makes of `maintenance on` is what cs-agent did: an `on` that is
\* repeated or reported as "placed no hold" has written none, and a node is
\* called held only after one was (node_upgrade.py:251-289, "the same rc is
\* produced by paths that leave the node in different states").
AnswerIsTrue ==
    pc = "answered" =>
        LET said == ClassifyOn(answer.doc, answer.rc) IN
        /\ said.outcome = "not_placed" => ~placed
        /\ said.held = "yes" => placed
        /\ said.outcome = "cleared" => placed /\ acts > 0

\* A node is released with dockerd on the certificate of its disk, although the
\* run that wrote it may have died with the note of it -- but for one of the very
\* second dockerd started in (maintain_decide.yml:23-25, node_upgrade.py:563-567).
ReleasedOnItsCertificate == At("release") => loaded = cert \/ certAt = startedAt

\* No restart for nothing: a file called newer than the running dockerd is one
\* it has not loaded, also one of the second it started in
\* (node_upgrade.py:538-569).
NoNeedlessRestart == Newer # {} => loaded # cert

\* dockerd restarts, and the node reboots, with nothing recorded running: not what
\* a dead run's helper still stops, nor a container recreated under a recorded name
\* before the stop.  One that somebody recreates and starts after it is not looked
\* for again (stop.yml:2-5, cycle.yml: a resume skips the stop).
NothingRunsThroughTheRestart ==
    [][\/ InstallPackages /\ Drift # {}
       \/ RestartDocker /\ ~rebootPending
       \/ Reboot /\ rebootPending
       => {r.name : r \in recorded} \cap up \subseteq revived]_vars

\* The requested containers that come up within StartRetries attempts when each
\* has to wait for what it needs.
Reach[k \in Nat] ==
    IF k = 0 THEN {}
    ELSE {n \in RequiredToStart \cup OptionalToStart : NeedsFirst[n] \subseteq Reach[k - 1]}

\* The helper does not give up early: one that ends before its deadline has
\* brought up every container that only had to wait for another one, unless a
\* dead run's helper was still stopping (files/node-upgrade-containers:72-87).
DependentsComeUp ==
    pc = "starting" /\ StartIsOver /\ rounds < StartRounds /\ ~hit
        => Reach[StartRetries] \subseteq up

-----------------------------------------------------------------------------
(* What a comment says and whole seconds can break                         *)

\* maintain_decide.yml 23-25: a file "written after dockerd last started is not
\* loaded yet, whatever recorded it: this also catches a run that died between
\* writing a certificate and recording the `converged` phase".
DockerdIsCurrent == At("release") => loaded = cert
=============================================================================
