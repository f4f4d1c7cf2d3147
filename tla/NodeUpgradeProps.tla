-------------------------- MODULE NodeUpgradeProps --------------------------
(***************************************************************************)
(* What the maintenance cycle of a node promises.                          *)
(***************************************************************************)
EXTENDS NodeUpgrade

\* The steps of a run.
Steps == {"idle", "download", "hold", "on", "convergeStart", "converge", "flush",
          "agentWait", "preHoldLive", "osUpgradeLive", "decide", "record",
          "stopCheck", "stop", "packagesCheck", "preHold", "osUpgrade", "unhold",
          "install", "rehold", "reholdFailed", "restartCheck", "restart",
          "rebootCheck", "reboot", "services", "accept", "start", "release",
          "off", "confirm", "archive", "rescue", "aside"}

\* Type correctness: state.json, the holds, the packages and the containers only
\* take values the role can give them -- the recorded list holds tenants only.
TypeOK ==
    /\ pc \in Steps /\ pb \in Playbooks
    /\ mem \in State /\ file \in State
    /\ pend \subseteq Handlers /\ stale \subseteq Handlers
    /\ hold \in Owners /\ up \subseteq Containers /\ before \subseteq Containers
    /\ docker \in {"old", "pin", "ahead"}
    /\ aptHeld \in BOOLEAN /\ rebootReq \in BOOLEAN /\ certStale \in BOOLEAN
    /\ ctlHold \in BOOLEAN /\ seen \in BOOLEAN
    /\ faults \in 0..MaxFaults /\ ext \in 0..MaxExternal

-----------------------------------------------------------------------------
(* Nobody but the run and the controller has acted on the hold so far.     *)
Undisturbed == ext = 0

\* The run is past the point where R5 releases the hold by itself: the node
\* may have been changed, and the release has not begun.
Committed ==
    /\ Exists(file) /\ ~file.releasing
    /\ file.playbook = "upgrade-docker" \/ file.convergeStarted

\* Tenants that ran when the hold was placed, do not run now, and that no
\* operator has accepted as down.
Missing == (before \cap Tenants) \ (up \cup file.accept)

\* The invariants that follow are about a node nobody else has interfered with.

\* While state.json records an unfinished cycle that may have changed the node,
\* the run's own hold is in place and the controller stands back, whatever
\* crashed in between (hold.yml 173, release.yml 8, maintain_cycle.yml 121).
HeldWhileUnfinished == Undisturbed /\ Committed => hold = "run" /\ seen

\* A tenant the cycle took down is down only under the hold: the controller,
\* which would burn its start attempts, never sees it down (start.yml 4-13).
DownOnlyWhileHeld == Undisturbed /\ Missing # {} => hold = "run" /\ seen

\* When the hold is about to be cleared, exactly the containers that ran when
\* it was placed run again, less the accepted ones: none is lost by a crash or
\* a resume, and none that was stopped on purpose has been started (R9).
ExactRestore ==
    Undisturbed /\ pc = "off" /\ hold = "run" =>
        Missing = {} /\ up \subseteq before \cup System

\* Whoever interferes: a node is released only with docker's packages held,
\* with docker at its pins if the cycle stopped anything, and, after a
\* converge, with no changed file waiting for its handler or for a dockerd
\* restart -- also when the run that changed it died before its handlers ran
\* (maintain_converge_phase.yml 46-63, maintain_decide.yml 23-25).
ReleasedNodeIsConverged ==
    pc = "off" =>
        /\ aptHeld
        /\ pb = "upgrade-docker" \/ mem.stop => docker = "pin"
        /\ pb = "maintain-nodes" => stale = {} /\ ~certStale

\* The OS upgrade never moves docker past its pins, not even on the resumed
\* run of one that died between releasing and re-holding (os_upgrade.yml 27-30).
NeverPastPins == docker # "ahead"

\* dockerd is never restarted, and the node never rebooted, by the run under a
\* tenant that ran when the hold was placed (R1).
DockerdNeverRestartsUnderTenants ==
    [][Undisturbed /\ ext' = ext /\ (docker' # docker \/ (rebootReq /\ ~rebootReq')
                                  \/ (certStale /\ ~certStale'))
         => up \cap Tenants = {}]_vars

\* Once the started phase is on disk nothing of the cycle takes a container
\* down again, on this run or a resumed one (R2, cycle.yml 7).
StartedStaysUp ==
    [][Undisturbed /\ ext' = ext /\ "started" \in file.phases => up \subseteq up']_vars

\* The automatic release of a failed maintain-nodes run (R5) happens only while
\* nothing on the node is changed or stopped, by this run or an earlier one.
AutoReleaseOnlyUntouched ==
    [][pc = "rescue" /\ ext' = ext /\ hold' # hold =>
         /\ stale = {} /\ ~certStale
         /\ Undisturbed => before \subseteq up]_vars

\* The list of what to bring back is written once per cycle, however many runs
\* it takes and whoever interferes (record.yml 4-5).
RecordedOnce ==
    [][Exists(file') /\ "recorded" \in file.phases => file'.recorded = file.recorded]_vars

\* With an operator who re-runs the playbook, every unfinished cycle ends and
\* leaves the node without a hold, wherever earlier runs of it died.
UnfinishedCycleEnds == Exists(file) ~> ~Exists(file) /\ hold = "none"

-----------------------------------------------------------------------------
(* What a comment says and people can break                                *)

\* packages.yml 2: "The package phase, with every recorded container already
\* stopped (R1)".
PackagesWithRecordedStopped ==
    [][pc = "packagesCheck" /\ pc' = "preHold" => up \cap file.recorded = {}]_vars
=============================================================================
