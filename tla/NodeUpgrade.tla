---------------------------- MODULE NodeUpgrade ----------------------------
(***************************************************************************)
(* roles/node_upgrade: the maintenance cycle of ONE live node, as run by   *)
(* playbooks/upgrade-docker.yml (tasks/main.yml, cycle.yml) and by         *)
(* playbooks/maintain-nodes.yml (tasks/maintain.yml, maintain_cycle.yml).  *)
(*                                                                         *)
(* Three parties act on the node:                                          *)
(*   - the run: an ansible process on the control host.  It lives in pc,   *)
(*     pb, mem and pend, all lost when it dies.  What survives is          *)
(*     state.json (file) and whatever it did to the node;                  *)
(*   - the controller, which polls the agent, steps back from a held node  *)
(*     (seen) and otherwise recovers the active containers;                *)
(*   - people: an operator or an admin who clears or places a hold, and    *)
(*     the machine itself, which may reboot (the External actions).        *)
(*                                                                         *)
(* One action is one task file, or the part of one up to the next point    *)
(* where a crash or another party can make a difference: a hold check and  *)
(* what it protects are two steps, doing a step and marking its phase one. *)
(***************************************************************************)
EXTENDS Naturals, FiniteSets

CONSTANTS
    Tenants,      \* controller-created containers: no docker restart policy
    System,       \* containers labelled role=system: their units bring them back
    Active,       \* the tenants the controller wants running
    Rerun,        \* handlers a resumed converge notifies again
    SelfHeal,     \* handlers whose role detects and re-applies a lost effect
    MaxFaults,    \* bound: crashes of a run and failing tasks
    MaxExternal   \* bound: acts of people on the hold, and host reboots

ASSUME ContainersAssumption == Tenants \cap System = {} /\ Active \subseteq Tenants
ASSUME HandlersAssumption   == Rerun \cap SelfHeal = {}
ASSUME BoundsAssumption     == MaxFaults \in Nat /\ MaxExternal \in Nat

VARIABLES
    \* the run
    pc,         \* the step the run is about to take, "idle" without a run
    pb,         \* the playbook that is running (node_upgrade_playbook)
    mem,        \* the run's copy of the state (node_upgrade_state)
    pend,       \* handlers notified and not yet flushed
    \* durable state of the node
    file,       \* state.json; NoState when there is none
    hold,       \* the local maintenance hold in control.db, by owner
    up,         \* the running containers
    docker,     \* docker's packages against their pins
    aptHeld,    \* docker's packages are held (dpkg selections)
    rebootReq,  \* /var/run/reboot-required
    certStale,  \* a docker_tls file is newer than the running dockerd
    stale,      \* handlers whose file is changed and whose effect is not live
    \* the controller
    ctlHold,    \* maintenance set on the controller's side (admin UI, API)
    seen,       \* the controller has read the local hold and stands back
    \* bookkeeping
    before,     \* history: what ran when the hold was placed
    faults, ext \* how many faults and external acts have happened

runVars  == <<pc, pb, mem, pend>>
pkgVars  == <<docker, aptHeld, rebootReq, certStale>>
ctlVars  == <<ctlHold, seen>>
vars == <<runVars, file, hold, up, pkgVars, stale, ctlVars, before, faults, ext>>

Handlers   == Rerun \cup SelfHeal
Containers == Tenants \cup System
Playbooks  == {"upgrade-docker", "maintain-nodes"}
Phases     == {"held", "converged", "recorded", "stopped", "packages",
               "docker_restarted", "rebooted", "started", "released"}
Owners     == {"none", "run", "other"}

State == [playbook: Playbooks, phases: SUBSET Phases,
          recorded: SUBSET Tenants, accept: SUBSET Tenants,
          convergeStarted: BOOLEAN, releasing: BOOLEAN,
          stop: BOOLEAN, restart: BOOLEAN]

\* No state.json reads as `{}`.  A state that was ever written has at least
\* the phase `held`, so the empty one can stand for the missing file.
NoState == [playbook |-> "upgrade-docker", phases |-> {}, recorded |-> {},
            accept |-> {}, convergeStarted |-> FALSE, releasing |-> FALSE,
            stop |-> FALSE, restart |-> FALSE]

Exists(s) == s.phases # {}

Init ==
    /\ pc = "idle" /\ pb = "upgrade-docker" /\ mem = NoState /\ pend = {}
    /\ file = NoState /\ hold = "none"
    /\ up \in {System \cup T : T \in SUBSET Tenants}
    /\ docker \in {"old", "pin"}
    /\ aptHeld = TRUE
    /\ rebootReq \in BOOLEAN
    /\ certStale = FALSE /\ stale = {}
    /\ ctlHold = FALSE /\ seen = FALSE
    /\ before = {} /\ faults = 0 /\ ext = 0

-----------------------------------------------------------------------------
(* How a step ends                                                         *)

\* A maintain-nodes run goes through the stopped window only when its recorded
\* decision says stop.
Window(m)  == pb = "upgrade-docker" \/ m.stop
Done(m, P) == P \cap m.phases # {}

\* `recorded` is written once; a resumed run never re-records.
Mut_RecordDueUntilStopped(m) == ~Done(m, {"stopped"})
RecordDue(m) == ~Done(m, {"recorded"})

Mut_NextStepRebootLast(m) ==
    IF pb = "maintain-nodes" /\ ~Done(m, {"converged"})               THEN "convergeStart"
    ELSE IF Window(m) /\ RecordDue(m)                                 THEN "record"
    ELSE IF Window(m) /\ ~Done(m, {"stopped", "packages", "started"}) THEN "stopCheck"
    ELSE IF Window(m) /\ ~Done(m, {"packages"})                       THEN "packagesCheck"
    ELSE IF Window(m) /\ ~Done(m, {"started"})                        THEN "services"
    ELSE IF Window(m) /\ ~Done(m, {"rebooted"})                       THEN "rebootCheck"
    ELSE IF ~Done(m, {"released"})                                    THEN "release"
    ELSE "archive"

\* The step the cycle takes next: the first of its includes whose `when` holds.
NextStep(m) ==
    LET done(P) == Done(m, P)
        window  == Window(m)
    IN  IF pb = "maintain-nodes" /\ ~done({"converged"})            THEN "convergeStart"
        ELSE IF window /\ RecordDue(m)                              THEN "record"
        ELSE IF window /\ ~done({"stopped", "packages", "started"}) THEN "stopCheck"
        ELSE IF window /\ ~done({"packages"})                       THEN "packagesCheck"
        ELSE IF /\ pb = "maintain-nodes" /\ window /\ m.restart
                /\ ~done({"docker_restarted", "started"})           THEN "restartCheck"
        ELSE IF window /\ ~done({"rebooted"})                       THEN "rebootCheck"
        ELSE IF window /\ ~done({"started"})                        THEN "services"
        ELSE IF ~done({"released"})                                 THEN "release"
        ELSE "archive"

Fault == faults < MaxFaults /\ faults' = faults + 1

Goto(step) == pc' = step /\ UNCHANGED <<pb, mem, pend>>

EndRun == pc' = "idle" /\ mem' = NoState /\ pend' = {} /\ UNCHANGED pb

\* The run's copy changes first, then state.json is rewritten whole and the
\* run goes on at `step`; the write can fail, which lands in the rescue.
Save(m, step) ==
    /\ mem' = m
    /\ UNCHANGED <<pb, pend>>
    /\ \/ file' = m /\ pc' = step /\ UNCHANGED faults
       \/ Fault /\ UNCHANGED file /\ pc' = "rescue"

Marked(m, phase) == [m EXCEPT !.phases = @ \cup {phase}]
Mark(m, phase)   == Save(Marked(m, phase), NextStep(Marked(m, phase)))

\* A hold check (R8): proceed only while some local hold is in place.  Whose
\* hold it is, and its reason, are not looked at.
HoldCheck(from, to) ==
    /\ pc = from
    /\ Goto(IF hold # "none" THEN to ELSE "rescue")
    /\ UNCHANGED <<file, hold, up, pkgVars, stale, ctlVars, before, faults, ext>>

\* dockerd restarts: every container goes down and only the system ones, run
\* by systemd units, come back.  The new dockerd has loaded its certificate.
DockerdRestarts == up' = System /\ certStale' = FALSE

-----------------------------------------------------------------------------
(* Preflight, decision, download and hold                                  *)

\* One playbook starts on the node.  It refuses the other playbook's
\* unfinished run (R7) and, while the packages are still ahead, a pin below
\* what is installed; upgrade-docker also ends here when there is nothing to
\* do.  A refusal changes nothing, so only a run that goes on is a step.
StartRun(p) ==
    /\ pc = "idle"
    /\ Exists(file) => file.playbook = p
    /\ "packages" \in file.phases \/ docker # "ahead"
    /\ \E force \in BOOLEAN :
          p = "upgrade-docker" =>
            docker # "pin" \/ rebootReq \/ Exists(file) \/ force
    /\ pb' = p /\ mem' = file /\ pend' = {}
    /\ pc' = IF "packages" \in file.phases THEN "hold" ELSE "download"
    /\ UNCHANGED <<file, hold, up, pkgVars, stale, ctlVars, before, faults, ext>>

\* apt-get update and --download-only, the containers running.
Download ==
    /\ pc = "download"
    /\ Goto("hold")
    /\ UNCHANGED <<file, hold, up, pkgVars, stale, ctlVars, before, faults, ext>>

\* A resumed run needs a hold, or a release that has already begun; a fresh
\* one must find none, neither on the node nor on the controller.
Mut_HoldGateWithoutReleasing ==
    IF Exists(mem) THEN hold # "none" \/ "released" \in mem.phases
                   ELSE hold = "none" /\ ~ctlHold
HoldGate ==
    IF Exists(mem) THEN hold # "none" \/ mem.releasing \/ "released" \in mem.phases
                   ELSE hold = "none" /\ ~ctlHold

Hold ==
    /\ pc = "hold"
    /\ Goto(IF ~HoldGate THEN "rescue"
            ELSE IF Exists(mem) THEN NextStep(mem) ELSE "on")
    /\ UNCHANGED <<file, hold, up, pkgVars, stale, ctlVars, before, faults, ext>>

\* `cs-agent maintenance on --wait`.  Success means held and acknowledged by
\* the controller, and only then is state.json first written.
On ==
    /\ pc = "on"
    /\ hold' = "run" /\ seen' = TRUE /\ before' = up
    /\ Mark([mem EXCEPT !.playbook = pb], "held")
    /\ UNCHANGED <<up, pkgVars, stale, ctlHold, ext>>

\* Every other outcome of `on --wait` fails the run.  It leaves no hold
\* (not_placed, cleared) or this run's (timeout, unconfirmed, interrupted).
OnFails ==
    /\ pc = "on" /\ Fault
    /\ hold' \in {hold, "run"}
    /\ Goto("rescue")
    /\ UNCHANGED <<file, up, pkgVars, stale, ctlVars, before, ext>>

-----------------------------------------------------------------------------
(* maintain-nodes: the converge, tenants running                           *)

Mut_ConvergeNotNoted(m) == m
ConvergeNoted(m) == [m EXCEPT !.convergeStarted = TRUE]

\* A run that finds the converge started resumes an interrupted one, and
\* notifies again what that one may have lost.
Mut_NothingLost(m) == {}
LostHandlers(m) == IF m.convergeStarted THEN Rerun ELSE {}

\* `converge_started` is saved before the first task of the converge.  (The
\* lost handlers are notified after it and before the flush; until then no
\* step looks at them.)
ConvergeStart ==
    /\ pc = "convergeStart"
    /\ LET m == ConvergeNoted(mem)
       IN  /\ mem' = m
           /\ pend' = LostHandlers(mem)
           /\ \/ file' = m /\ pc' = "converge" /\ UNCHANGED faults
              \/ Fault /\ UNCHANGED file /\ pc' = "rescue"
    /\ UNCHANGED <<pb, hold, up, pkgVars, stale, ctlVars, before, ext>>

\* The node-side roles run.  They change some files, which notifies their
\* handlers; a role whose table on disk is not the one it last verified
\* notifies again; a docker_tls change is deferred (its restart does not run).
\* A failing role leaves the files changed and its handlers unflushed.
Converge ==
    /\ pc = "converge"
    /\ \E changed \in SUBSET Handlers, cert \in BOOLEAN :
          /\ stale' = stale \cup changed
          /\ certStale' = (certStale \/ cert)
          /\ \/ pc' = "flush" /\ UNCHANGED faults
                /\ pend' = pend \cup changed \cup (stale \cap SelfHeal)
             \/ pc' = "rescue" /\ Fault /\ UNCHANGED pend
    /\ UNCHANGED <<pb, mem, file, hold, up, docker, aptHeld, rebootReq,
                   ctlVars, before, ext>>

\* meta: flush_handlers, inside the hold.
Flush ==
    /\ pc = "flush"
    /\ stale' = stale \ pend
    /\ pend' = {} /\ pc' = "agentWait"
    /\ UNCHANGED <<pb, mem, file, hold, up, pkgVars, ctlVars, before, faults, ext>>

\* The agent is back and still holds the node.
AgentWait == HoldCheck("agentWait", "preHoldLive")

Mut_PreHoldTrusted(from, to) ==
    /\ pc = from
    /\ Goto(to)
    /\ UNCHANGED <<file, hold, up, pkgVars, stale, ctlVars, before, faults, ext>>

\* os_upgrade.yml, for both places it runs: docker's packages are held first,
\* whatever the last run left behind ...
PreHold(from, to) ==
    /\ pc = from
    /\ aptHeld' = TRUE
    /\ Goto(to)
    /\ UNCHANGED <<file, hold, up, docker, rebootReq, certStale, stale, ctlVars,
                   before, faults, ext>>

\* ... then apt upgrades everything that is not held.  It may ask for a
\* reboot; it would move docker past its pins, and restart it, if it could.
OsUpgrade(from, to) ==
    /\ pc = from
    /\ \/ UNCHANGED <<up, docker, certStale>>
       \/ ~aptHeld /\ docker' = "ahead" /\ DockerdRestarts
    /\ rebootReq' \in {rebootReq, TRUE}
    /\ Goto(to)
    /\ UNCHANGED <<file, hold, aptHeld, stale, ctlVars, before, faults, ext>>

\* The tenants must stop when docker drifts, dockerd must restart, a reboot is
\* pending, or the operator forces it.
Decision(m, force) ==
    [m EXCEPT !.restart = certStale,
              !.stop = docker # "pin" \/ certStale \/ rebootReq \/ force]

\* The agent wait after the updates, then the decision, read from the node as
\* it is now and written with the phase.
Decide ==
    /\ pc = "decide"
    /\ \/ /\ hold = "none" /\ Goto("rescue") /\ UNCHANGED <<file, faults>>
       \/ /\ hold # "none"
          /\ \E force \in BOOLEAN :
               Mark(Decision(mem, force), "converged")
    /\ UNCHANGED <<hold, up, pkgVars, stale, ctlVars, before, ext>>

-----------------------------------------------------------------------------
(* The stopped window                                                      *)

\* The selection rule: running, and not labelled `system`.
Mut_SelectedWithSystem == up
Selected == {c \in up : c \notin System}

\* The selection is written before any stop.
Record ==
    /\ pc = "record"
    /\ Mark([mem EXCEPT !.recorded = Selected], "recorded")
    /\ UNCHANGED <<hold, up, pkgVars, stale, ctlVars, before, ext>>

StopCheck == HoldCheck("stopCheck", "stop")

Mut_StopGateDropped(running) == TRUE
StopGate(running) == running \cap mem.recorded = {}

\* docker stop of every recorded container still running; the phase is marked
\* only when none of them runs any more.
Stop ==
    /\ pc = "stop"
    /\ \E left \in SUBSET (up \cap mem.recorded) :
         LET running == (up \ mem.recorded) \cup left
         IN  /\ up' = running
             /\ IF StopGate(running)
                  THEN Mark(mem, "stopped")
                  ELSE Fault /\ Goto("rescue") /\ UNCHANGED file
    /\ UNCHANGED <<hold, pkgVars, stale, ctlVars, before, ext>>

PackagesCheck == HoldCheck("packagesCheck", "preHold")

\* Release docker's apt holds for the install of the pins.
Unhold ==
    /\ pc = "unhold"
    /\ aptHeld' = FALSE
    /\ Goto("install")
    /\ UNCHANGED <<file, hold, up, docker, rebootReq, certStale, stale, ctlVars,
                   before, faults, ext>>

\* apt installs exactly the pins, never downgrading.  An engine that moves is
\* restarted by its postinst.  Packages already there change nothing.
Install ==
    /\ pc = "install"
    /\ \/ /\ docker = "old" /\ docker' = "pin" /\ DockerdRestarts
          /\ rebootReq' \in {rebootReq, TRUE}
          /\ \/ Goto("rehold") /\ UNCHANGED faults
             \/ Goto("reholdFailed") /\ Fault
       \/ /\ docker = "pin" /\ Goto("rehold")
          /\ UNCHANGED <<up, docker, rebootReq, certStale, faults>>
       \/ /\ docker = "ahead" /\ Goto("reholdFailed")
          /\ UNCHANGED <<up, docker, rebootReq, certStale, faults>>
       \/ /\ Fault /\ Goto("reholdFailed")
          /\ UNCHANGED <<up, docker, rebootReq, certStale>>
    /\ UNCHANGED <<file, hold, aptHeld, stale, ctlVars, before, ext>>

\* `always:` holds them again; then the drift gate, or the install's failure.
Rehold ==
    /\ pc \in {"rehold", "reholdFailed"}
    /\ aptHeld' = TRUE
    /\ IF pc = "rehold" /\ docker = "pin"
         THEN Mark(mem, "packages")
         ELSE Goto("rescue") /\ UNCHANGED <<file, faults>>
    /\ UNCHANGED <<hold, up, docker, rebootReq, certStale, stale, ctlVars,
                   before, ext>>

\* maintain-nodes only: the deferred dockerd restart, left to the reboot when
\* one follows.
RestartCheck ==
    \/ ~rebootReq /\ HoldCheck("restartCheck", "restart")
    \/ /\ rebootReq /\ pc = "restartCheck"
       /\ Mark(mem, "docker_restarted")
       /\ UNCHANGED <<hold, up, pkgVars, stale, ctlVars, before, ext>>

Restart ==
    /\ pc = "restart"
    /\ DockerdRestarts
    /\ Mark(mem, "docker_restarted")
    /\ UNCHANGED <<hold, docker, aptHeld, rebootReq, stale, ctlVars, before, ext>>

RebootCheck ==
    \/ rebootReq /\ HoldCheck("rebootCheck", "reboot")
    \/ /\ ~rebootReq /\ pc = "rebootCheck"
       /\ Mark(mem, "rebooted")
       /\ UNCHANGED <<hold, up, pkgVars, stale, ctlVars, before, ext>>

\* The hold survives the reboot (control.db); the tenants stay down.
Reboot ==
    /\ pc = "reboot"
    /\ rebootReq' = FALSE /\ DockerdRestarts
    /\ Mark(mem, "rebooted")
    /\ UNCHANGED <<hold, docker, aptHeld, stale, ctlVars, before, ext>>

\* docker, the agent and the firewall are up, and the node is still held.
Services == HoldCheck("services", "accept")

\* The accepted-down list grows by this run's -e, and is saved if it did.
Accept ==
    /\ pc = "accept"
    /\ \E extra \in SUBSET mem.recorded :
          LET m == [mem EXCEPT !.accept = @ \cup extra]
          IN  IF m # mem THEN Save(m, "start")
                         ELSE Goto("start") /\ UNCHANGED <<file, faults>>
    /\ UNCHANGED <<hold, up, pkgVars, stale, ctlVars, before, ext>>

\* What to start: the recorded containers, not every stopped one.
Mut_ToStartAll == Tenants
ToStart == mem.recorded

\* Every recorded container that is not accepted as down must run.
Mut_StartGateDropped(running) == TRUE
StartGate(running) == mem.recorded \ mem.accept \subseteq running

\* The helper starts the set; some containers may not come up.
Start ==
    /\ pc = "start"
    /\ \E started \in SUBSET ToStart :
         /\ up' = up \cup started
         /\ IF StartGate(up \cup started)
              THEN Mark(mem, "started")
              ELSE Fault /\ Goto("rescue") /\ UNCHANGED file
    /\ UNCHANGED <<hold, pkgVars, stale, ctlVars, before, ext>>

-----------------------------------------------------------------------------
(* Release and archive                                                     *)

Mut_ReleaseNotNoted(m) == m
ReleaseNoted(m) == [m EXCEPT !.releasing = TRUE]

\* maintain-nodes flushes what is pending (nothing); both playbooks save
\* `releasing` before the hold is cleared.
Release ==
    /\ pc = "release"
    /\ stale' = stale \ pend /\ pend' = {}
    /\ LET m == ReleaseNoted(mem)
       IN  /\ mem' = m
           /\ \/ file' = m /\ pc' = "off" /\ UNCHANGED faults
              \/ Fault /\ UNCHANGED file /\ pc' = "rescue"
    /\ UNCHANGED <<pb, hold, up, pkgVars, ctlVars, before, ext>>

\* `cs-agent maintenance off` clears the local hold, whoever placed it.
Off ==
    /\ pc = "off"
    /\ hold' = "none"
    /\ Goto("confirm")
    /\ UNCHANGED <<file, up, pkgVars, stale, ctlVars, before, faults, ext>>

\* Wait until the controller has acknowledged the latest entry and the node is
\* no longer paused; the wait ends in a failure while it has not, or is.
Confirm ==
    /\ pc = "confirm"
    /\ LET acked  == seen = (hold # "none")
           paused == hold # "none" \/ ctlHold
       IN  IF acked /\ ~paused
             THEN Mark(mem, "released")
             ELSE Goto("rescue") /\ UNCHANGED <<file, faults>>
    /\ UNCHANGED <<hold, up, pkgVars, stale, ctlVars, before, ext>>

\* state.json is moved aside; the next run on this node starts fresh.
Archive ==
    /\ pc = "archive"
    /\ file' = NoState /\ before' = {}
    /\ EndRun
    /\ UNCHANGED <<hold, up, pkgVars, stale, ctlVars, faults, ext>>

-----------------------------------------------------------------------------
(* Failures                                                                *)

\* A task fails before it has changed anything: docker, apt, the agent's CLI
\* or the controller's confirmation times out.  ansible runs the rescue.
TaskFails ==
    /\ pc \notin {"idle", "rescue", "aside"} /\ Fault
    /\ Goto(IF pc = "install" THEN "reholdFailed" ELSE "rescue")
    /\ UNCHANGED <<file, hold, up, pkgVars, stale, ctlVars, before, ext>>

\* The control host dies, or the connection does: no rescue runs.
RunDies ==
    /\ pc # "idle" /\ Fault
    /\ EndRun
    /\ UNCHANGED <<file, hold, up, pkgVars, stale, ctlVars, before, ext>>

\* upgrade-docker's rescue only reports.  maintain-nodes' clears the hold when
\* the run failed after recording it and before the converge began (R5).
Rescue ==
    /\ pc = "rescue"
    /\ LET release == /\ pb = "maintain-nodes" /\ Exists(file)
                      /\ ~mem.convergeStarted /\ ~mem.releasing
                      /\ mem.phases \subseteq {"held"}
       IN \/ ~release /\ EndRun /\ UNCHANGED <<hold, faults>>
          \/ release /\ hold' = "none" /\ Goto("aside") /\ UNCHANGED faults
          \/ release /\ Fault /\ EndRun /\ UNCHANGED hold  \* `off` failed
    /\ UNCHANGED <<file, up, pkgVars, stale, ctlVars, before, ext>>

\* ... and then sets the state of the released run aside.
Aside ==
    /\ pc = "aside"
    /\ file' = NoState /\ before' = {}
    /\ EndRun
    /\ UNCHANGED <<hold, up, pkgVars, stale, ctlVars, faults, ext>>

-----------------------------------------------------------------------------
(* The controller, and people                                              *)

\* The controller polls the agent's changelog and acts on the latest entry.
Poll ==
    /\ seen # (hold # "none")
    /\ seen' = (hold # "none")
    /\ UNCHANGED <<runVars, file, hold, up, pkgVars, stale, ctlHold, before,
                   faults, ext>>

\* HealthCheck starts an active container on a node that is not paused.
Recover ==
    /\ ~seen /\ ~ctlHold
    /\ \E c \in Active \ up : up' = up \cup {c}
    /\ UNCHANGED <<runVars, file, hold, pkgVars, stale, ctlVars, before,
                   faults, ext>>

External == ext < MaxExternal /\ ext' = ext + 1

\* Somebody runs `cs-agent maintenance off`, or an admin overrides the hold.
ExternalOff ==
    /\ External
    /\ hold # "none" /\ hold' = "none"
    /\ UNCHANGED <<runVars, file, up, pkgVars, stale, ctlVars, before, faults>>

\* Somebody holds the node: for work of their own, or to let the run resume.
ExternalOn ==
    /\ External
    /\ hold = "none" /\ hold' = "other"
    /\ UNCHANGED <<runVars, file, up, pkgVars, stale, ctlVars, before, faults>>

\* The node is put in, or taken out of, maintenance on the controller.
ControllerHold ==
    /\ External
    /\ ctlHold' = ~ctlHold
    /\ UNCHANGED <<runVars, file, hold, up, pkgVars, stale, seen, before, faults>>

\* The machine reboots by itself; a run in progress loses its connection.
HostReboots ==
    /\ External
    /\ DockerdRestarts /\ rebootReq' = FALSE
    /\ EndRun
    /\ UNCHANGED <<file, hold, docker, aptHeld, stale, ctlVars, before, faults>>

-----------------------------------------------------------------------------
RunStep ==
    \/ Download \/ Hold \/ On
    \/ ConvergeStart \/ Converge \/ Flush \/ AgentWait \/ Decide
    \/ PreHold("preHoldLive", "osUpgradeLive") \/ OsUpgrade("osUpgradeLive", "decide")
    \/ Record \/ StopCheck \/ Stop
    \/ PackagesCheck
    \/ PreHold("preHold", "osUpgrade") \/ OsUpgrade("osUpgrade", "unhold")
    \/ Unhold \/ Install \/ Rehold
    \/ RestartCheck \/ Restart \/ RebootCheck \/ Reboot
    \/ Services \/ Accept \/ Start
    \/ Release \/ Off \/ Confirm \/ Archive
    \/ Rescue \/ Aside

Failure     == OnFails \/ TaskFails \/ RunDies
Environment == Poll \/ Recover \/ ExternalOff \/ ExternalOn \/ ControllerHold
                  \/ HostReboots

Next == (\E p \in Playbooks : StartRun(p)) \/ RunStep \/ Failure \/ Environment

Spec == Init /\ [][Next]_vars

(* An operator re-runs the playbook an unfinished run belongs to, as every *)
(* failure message tells them; ansible takes the next step of a run; and   *)
(* the controller polls every agent.                                       *)
Fairness ==
    /\ WF_vars(RunStep)
    /\ WF_vars(Exists(file) /\ StartRun(file.playbook))
    /\ WF_vars(Poll)

FairSpec == Spec /\ Fairness

=============================================================================
