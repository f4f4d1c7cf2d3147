------------------------- MODULE NodeUpgrade_proofs -------------------------
(***************************************************************************)
(* Theorems about the maintenance cycle of a node, for every set of        *)
(* containers and handlers and any number of faults and external acts.     *)
(***************************************************************************)
EXTENDS NodeUpgradeProps, TLAPS

-----------------------------------------------------------------------------
(* Types                                                                   *)

\* The state `{}` is a state.
LEMMA NoStateType == NoState \in State
  BY DEF NoState, State, Playbooks

\* The cycle's control flow stays within its steps.
LEMMA NextStepType == \A m : NextStep(m) \in Steps
  BY DEF NextStep, Steps

\* Marking a phase keeps a state a state.
LEMMA MarkedType ==
    ASSUME NEW m \in State, NEW phase \in Phases
    PROVE  Marked(m, phase) \in State
  BY DEF Marked, State

\* What saving a state does to the run, state.json and the fault counter.
LEMMA SaveType ==
    ASSUME TypeOK, NEW m \in State, NEW step \in Steps, Save(m, step)
    PROVE  /\ pc' \in Steps /\ pb' \in Playbooks /\ pend' \subseteq Handlers
           /\ mem' \in State /\ file' \in State /\ faults' \in 0..MaxFaults
  BY BoundsAssumption DEF TypeOK, Save, Fault, Steps

\* Marking a phase and saving it keeps the types, whichever step comes next.
LEMMA MarkType ==
    ASSUME TypeOK, NEW m \in State, NEW phase \in Phases, Mark(m, phase)
    PROVE  /\ pc' \in Steps /\ pb' \in Playbooks /\ pend' \subseteq Handlers
           /\ mem' \in State /\ file' \in State /\ faults' \in 0..MaxFaults
  BY MarkedType, NextStepType, SaveType DEF Mark

\* A hold check, whatever it protects.
LEMMA HoldCheckType ==
    ASSUME TypeOK, NEW from \in Steps, NEW to \in Steps, HoldCheck(from, to)
    PROVE  TypeOK'
  BY DEF HoldCheck, Goto, TypeOK, Steps, pkgVars, ctlVars

\* A node before its first run is well typed.
LEMMA InitType == Init => TypeOK
<1> SUFFICES ASSUME Init PROVE TypeOK
  OBVIOUS
<1>1. up \subseteq Containers
  BY DEF Init, Containers
<1>2. rebootReq \in BOOLEAN
  BY Zenon DEF Init
<1>3. /\ pc = "idle" /\ pb = "upgrade-docker" /\ mem = NoState /\ pend = {}
      /\ file = NoState /\ hold = "none" /\ docker \in {"old", "pin"}
      /\ aptHeld = TRUE /\ certStale = FALSE /\ stale = {}
      /\ ctlHold = FALSE /\ seen = FALSE /\ before = {} /\ faults = 0 /\ ext = 0
  BY DEF Init
<1>4. aptHeld \in BOOLEAN /\ certStale \in BOOLEAN /\ ctlHold \in BOOLEAN /\ seen \in BOOLEAN
  BY <1>3, Zenon
<1>5. faults \in 0..MaxFaults /\ ext \in 0..MaxExternal
  BY <1>3, BoundsAssumption
<1>6. mem \in State /\ file \in State
  BY <1>3, NoStateType, Zenon
<1>7. pc \in Steps /\ pb \in Playbooks /\ hold \in Owners /\ docker \in {"old", "pin", "ahead"}
  BY <1>3 DEF Steps, Playbooks, Owners
<1>8. pend \subseteq Handlers /\ stale \subseteq Handlers /\ before \subseteq Containers
  BY <1>3
<1> QED BY <1>1, <1>2, <1>4, <1>5, <1>6, <1>7, <1>8, Zenon DEF TypeOK

\* Every step of a run that is not shared with the others.
LEMMA RunStepType == TypeOK /\ RunStep => TypeOK'
<1> SUFFICES ASSUME TypeOK, RunStep PROVE TypeOK'
  OBVIOUS
<1> USE NoStateType, BoundsAssumption DEF Goto, EndRun, pkgVars, ctlVars, runVars
<1>1. CASE Download
  BY <1>1 DEF Download, TypeOK, Steps
<1>2. CASE Hold
  BY <1>2, NextStepType DEF Hold, TypeOK, Steps
<1>3. CASE On
  <2>1. [mem EXCEPT !.playbook = pb] \in State
    BY DEF TypeOK, State
  <2>2. /\ pc' \in Steps /\ pb' \in Playbooks /\ pend' \subseteq Handlers
        /\ mem' \in State /\ file' \in State /\ faults' \in 0..MaxFaults
    BY <1>3, <2>1, MarkType DEF On, Phases
  <2> QED BY <1>3, <2>2 DEF On, TypeOK, Owners
<1>4. CASE ConvergeStart
  <2>1. ConvergeNoted(mem) \in State
    BY DEF ConvergeNoted, TypeOK, State
  <2>2. LostHandlers(mem) \subseteq Handlers
    BY DEF LostHandlers, Handlers
  <2> QED BY <1>4, <2>1, <2>2 DEF ConvergeStart, Fault, TypeOK, Steps
<1>5. CASE Converge
  BY <1>5 DEF Converge, Fault, TypeOK, Steps
<1>6. CASE Flush
  BY <1>6 DEF Flush, TypeOK, Steps
<1>7. CASE AgentWait
  BY <1>7, HoldCheckType DEF AgentWait, Steps
<1>8. CASE Decide
  <2>1. \A force \in BOOLEAN : Decision(mem, force) \in State
    BY DEF Decision, TypeOK, State
  <2>2. /\ pc' \in Steps /\ pb' \in Playbooks /\ pend' \subseteq Handlers
        /\ mem' \in State /\ file' \in State /\ faults' \in 0..MaxFaults
    BY <1>8, <2>1, MarkType DEF Decide, Phases, TypeOK, Steps
  <2> QED BY <1>8, <2>2 DEF Decide, TypeOK
<1>9. ASSUME NEW from \in Steps, NEW to \in Steps,
             PreHold(from, to) \/ OsUpgrade(from, to)
      PROVE  TypeOK'
  <2>1. CASE PreHold(from, to)
    BY <2>1 DEF PreHold, TypeOK
  <2>2. CASE OsUpgrade(from, to)
    <3>1. rebootReq' \in BOOLEAN
      BY <2>2, Zenon DEF OsUpgrade, TypeOK
    <3>2. certStale' \in BOOLEAN
      BY <2>2, Zenon DEF OsUpgrade, TypeOK, DockerdRestarts
    <3> QED BY <2>2, <3>1, <3>2 DEF OsUpgrade, DockerdRestarts, TypeOK, Containers
  <2> QED BY <1>9, <2>1, <2>2
<1>10. CASE Record
  <2>1. [mem EXCEPT !.recorded = Selected] \in State
    BY DEF Selected, TypeOK, State, Containers
  <2>2. /\ pc' \in Steps /\ pb' \in Playbooks /\ pend' \subseteq Handlers
        /\ mem' \in State /\ file' \in State /\ faults' \in 0..MaxFaults
    BY <1>10, <2>1, MarkType DEF Record, Phases
  <2> QED BY <1>10, <2>2 DEF Record, TypeOK
<1>11. CASE StopCheck \/ PackagesCheck \/ Services
  BY <1>11, HoldCheckType DEF StopCheck, PackagesCheck, Services, Steps
<1>12. CASE Stop
  <2>1. /\ pc' \in Steps /\ pb' \in Playbooks /\ pend' \subseteq Handlers
        /\ mem' \in State /\ file' \in State /\ faults' \in 0..MaxFaults
    BY <1>12, MarkType DEF Stop, Fault, Phases, TypeOK, Steps
  <2> QED BY <1>12, <2>1 DEF Stop, TypeOK
<1>13. CASE Unhold
  BY <1>13 DEF Unhold, TypeOK, Steps
<1>14. CASE Install
  <2>1. rebootReq' \in BOOLEAN
    BY <1>14, Zenon DEF Install, TypeOK
  <2>2. certStale' \in BOOLEAN
    BY <1>14, Zenon DEF Install, TypeOK, DockerdRestarts
  <2>0. faults' = faults \/ Fault
    BY <1>14, Zenon DEF Install
  <2>3. faults' \in 0..MaxFaults
    BY <2>0 DEF Fault, TypeOK
  <2>4. pc' \in Steps /\ up' \subseteq Containers /\ docker' \in {"old", "pin", "ahead"}
    BY <1>14 DEF Install, DockerdRestarts, TypeOK, Steps, Containers
  <2> QED BY <1>14, <2>1, <2>2, <2>3, <2>4 DEF Install, TypeOK
<1>15. CASE Rehold
  <2>1. /\ pc' \in Steps /\ pb' \in Playbooks /\ pend' \subseteq Handlers
        /\ mem' \in State /\ file' \in State /\ faults' \in 0..MaxFaults
    BY <1>15, MarkType DEF Rehold, Phases, TypeOK, Steps
  <2> QED BY <1>15, <2>1 DEF Rehold, TypeOK
<1>16. CASE RestartCheck \/ RebootCheck
  <2>1. CASE HoldCheck("restartCheck", "restart") \/ HoldCheck("rebootCheck", "reboot")
    BY <2>1, HoldCheckType DEF Steps
  <2>2. CASE /\ Mark(mem, "docker_restarted") \/ Mark(mem, "rebooted")
             /\ UNCHANGED <<hold, up, pkgVars, stale, ctlVars, before, ext>>
    <3>1. /\ pc' \in Steps /\ pb' \in Playbooks /\ pend' \subseteq Handlers
          /\ mem' \in State /\ file' \in State /\ faults' \in 0..MaxFaults
      BY <2>2, MarkType DEF Phases, TypeOK
    <3> QED BY <2>2, <3>1 DEF TypeOK
  <2> QED BY <1>16, <2>1, <2>2 DEF RestartCheck, RebootCheck
<1>17. CASE Restart \/ Reboot
  <2>1. /\ pc' \in Steps /\ pb' \in Playbooks /\ pend' \subseteq Handlers
        /\ mem' \in State /\ file' \in State /\ faults' \in 0..MaxFaults
    BY <1>17, MarkType DEF Restart, Reboot, Phases, TypeOK
  <2> QED BY <1>17, <2>1 DEF Restart, Reboot, DockerdRestarts, TypeOK, Containers
<1>18. CASE Accept
  <2>1. \A extra \in SUBSET mem.recorded :
          [mem EXCEPT !.accept = @ \cup extra] \in State
    BY DEF TypeOK, State
  <2>2. /\ pc' \in Steps /\ pb' \in Playbooks /\ pend' \subseteq Handlers
        /\ mem' \in State /\ file' \in State /\ faults' \in 0..MaxFaults
    BY <1>18, <2>1, SaveType DEF Accept, TypeOK, Steps
  <2> QED BY <1>18, <2>2 DEF Accept, TypeOK
<1>19. CASE Start
  <2>1. /\ pc' \in Steps /\ pb' \in Playbooks /\ pend' \subseteq Handlers
        /\ mem' \in State /\ file' \in State /\ faults' \in 0..MaxFaults
    BY <1>19, MarkType DEF Start, Fault, Phases, TypeOK, Steps
  <2>2. ToStart \subseteq Containers
    BY DEF ToStart, TypeOK, State, Containers
  <2> QED BY <1>19, <2>1, <2>2 DEF Start, TypeOK
<1>20. CASE Release
  <2>1. ReleaseNoted(mem) \in State
    BY DEF ReleaseNoted, TypeOK, State
  <2> QED BY <1>20, <2>1 DEF Release, Fault, TypeOK, Steps
<1>21. CASE Off
  BY <1>21 DEF Off, TypeOK, Steps, Owners
<1>22. CASE Confirm
  <2>1. /\ pc' \in Steps /\ pb' \in Playbooks /\ pend' \subseteq Handlers
        /\ mem' \in State /\ file' \in State /\ faults' \in 0..MaxFaults
    BY <1>22, MarkType DEF Confirm, Phases, TypeOK, Steps
  <2> QED BY <1>22, <2>1 DEF Confirm, TypeOK
<1>23. CASE Archive \/ Aside
  BY <1>23 DEF Archive, Aside, TypeOK, Steps
<1>24. CASE Rescue
  BY <1>24 DEF Rescue, Fault, TypeOK, Steps, Owners
<1> QED
  BY <1>1, <1>2, <1>3, <1>4, <1>5, <1>6, <1>7, <1>8, <1>9, <1>10, <1>11, <1>12,
     <1>13, <1>14, <1>15, <1>16, <1>17, <1>18, <1>19, <1>20, <1>21, <1>22, <1>23,
     <1>24
  DEF RunStep, Steps

\* So does every step of the run, its failures, the controller and people.
LEMMA NextType == TypeOK /\ [Next]_vars => TypeOK'
<1> SUFFICES ASSUME TypeOK, [Next]_vars PROVE TypeOK'
  OBVIOUS
<1> USE NoStateType, BoundsAssumption DEF Goto, EndRun, pkgVars, ctlVars, runVars
<1>1. ASSUME NEW p \in Playbooks, StartRun(p) PROVE TypeOK'
  BY <1>1 DEF StartRun, TypeOK, Steps
<1>2. CASE RunStep
  BY <1>2, RunStepType
<1>3. CASE Failure
  BY <1>3 DEF Failure, OnFails, TaskFails, RunDies, Fault, TypeOK, Steps, Owners
<1>4. CASE Poll \/ Recover
  BY <1>4, ContainersAssumption DEF Poll, Recover, TypeOK, Containers
<1>5. CASE ExternalOff \/ ExternalOn
  BY <1>5 DEF ExternalOff, ExternalOn, External, TypeOK, Owners
<1>6. CASE ControllerHold
  <2>1. ctlHold' \in BOOLEAN
    BY <1>6, Zenon DEF ControllerHold
  <2> QED BY <1>6, <2>1 DEF ControllerHold, External, TypeOK
<1>7. CASE HostReboots
  <2>1. rebootReq' \in BOOLEAN /\ certStale' \in BOOLEAN
    BY <1>7, Zenon DEF HostReboots, DockerdRestarts
  <2>2. pc' \in Steps /\ up' \subseteq Containers
    BY <1>7 DEF HostReboots, DockerdRestarts, Steps, Containers
  <2>3. ext' \in 0..MaxExternal
    BY <1>7 DEF HostReboots, External, TypeOK
  <2> QED BY <1>7, <2>1, <2>2, <2>3 DEF HostReboots, TypeOK
<1>8. CASE UNCHANGED vars
  BY <1>8 DEF vars, TypeOK
<1> QED BY <1>1, <1>2, <1>3, <1>4, <1>5, <1>6, <1>7, <1>8 DEF Next, Environment

\* Every variable keeps its type: in particular the recorded list never holds
\* a `system` container, and the run never leaves its steps.
THEOREM TypeCorrect == Spec => []TypeOK
<1>1. Init => TypeOK
  BY InitType
<1>2. TypeOK /\ [Next]_vars => TypeOK'
  BY NextType
<1> QED BY <1>1, <1>2, PTL DEF Spec

-----------------------------------------------------------------------------
(* docker stays at its pins                                                *)

\* Wherever a run died, docker's packages are held again before apt upgrades.
PinsInv == NeverPastPins /\ (pc \in {"osUpgrade", "osUpgradeLive"} => aptHeld)

\* No step takes docker past its pins: the OS upgrade runs under the apt holds,
\* which only Unhold, after it, takes away.
LEMMA PinsStep == TypeOK /\ PinsInv /\ [Next]_vars => PinsInv'
<1> SUFFICES ASSUME TypeOK, PinsInv, [Next]_vars PROVE PinsInv'
  OBVIOUS
<1> USE DEF Goto, EndRun, pkgVars, ctlVars, runVars
<1>1. ASSUME UNCHANGED <<docker, aptHeld>>, pc' \notin {"osUpgrade", "osUpgradeLive"} \/ pc' = pc
      PROVE  PinsInv'
  BY <1>1 DEF PinsInv, NeverPastPins
<1>2. \A m : NextStep(m) \notin {"osUpgrade", "osUpgradeLive"}
  BY DEF NextStep
<1>3. \A m, phase : Mark(m, phase) => pc' \notin {"osUpgrade", "osUpgradeLive"}
  BY <1>2 DEF Mark, Save
<1>4. ASSUME NEW p \in Playbooks, StartRun(p) PROVE PinsInv'
  BY <1>4, <1>1 DEF StartRun
<1>5. CASE Download \/ Hold \/ AgentWait \/ StopCheck \/ PackagesCheck \/ Services
  BY <1>5, <1>1, <1>2
     DEF Download, Hold, AgentWait, StopCheck, PackagesCheck, Services, HoldCheck
<1>6. CASE On \/ Decide \/ Record \/ Stop
  BY <1>6, <1>1, <1>3 DEF On, Decide, Record, Stop
<1>7. CASE ConvergeStart \/ Converge \/ Flush
  BY <1>7, <1>1 DEF ConvergeStart, Converge, Flush
<1>8. ASSUME NEW from, NEW to, PreHold(from, to) PROVE PinsInv'
  BY <1>8, Zenon DEF PreHold, PinsInv, NeverPastPins
<1>9. CASE OsUpgrade("osUpgradeLive", "decide") \/ OsUpgrade("osUpgrade", "unhold")
  BY <1>9, <1>1 DEF OsUpgrade, PinsInv
<1>10. CASE Unhold
  BY <1>10 DEF Unhold, PinsInv, NeverPastPins
<1>11. CASE Install
  BY <1>11 DEF Install, PinsInv, NeverPastPins
<1>12. CASE Rehold
  BY <1>12, <1>3 DEF Rehold, PinsInv, NeverPastPins
<1>13. CASE RestartCheck \/ Restart \/ RebootCheck \/ Reboot
  BY <1>13, <1>1, <1>3 DEF RestartCheck, Restart, RebootCheck, Reboot, HoldCheck
<1>14. CASE Accept \/ Start
  BY <1>14, <1>1, <1>3 DEF Accept, Start, Save
<1>15. CASE Release \/ Off \/ Confirm \/ Archive
  BY <1>15, <1>1, <1>3 DEF Release, Off, Confirm, Archive
<1>16. CASE Rescue \/ Aside \/ Failure
  BY <1>16, <1>1 DEF Rescue, Aside, Failure, OnFails, TaskFails, RunDies
<1>17. CASE Environment
  BY <1>17, <1>1 DEF Environment, Poll, Recover, ExternalOff, ExternalOn,
                     ControllerHold, HostReboots
<1>18. CASE UNCHANGED vars
  BY <1>18, <1>1 DEF vars
<1> QED
  BY <1>4, <1>5, <1>6, <1>7, <1>8, <1>9, <1>10, <1>11, <1>12, <1>13, <1>14,
     <1>15, <1>16, <1>17, <1>18
  DEF Next, RunStep

\* apt never moves docker past its pins, however many runs die between
\* releasing docker's packages and holding them again (os_upgrade.yml 27-30).
THEOREM PinsAreKept == Spec => []NeverPastPins
<1>1. Init => PinsInv
  BY DEF Init, PinsInv, NeverPastPins
<1>2. TypeOK /\ PinsInv /\ [Next]_vars => PinsInv'
  BY PinsStep
<1>3. PinsInv => NeverPastPins
  BY DEF PinsInv
<1> QED BY <1>1, <1>2, <1>3, TypeCorrect, PTL DEF Spec

-----------------------------------------------------------------------------
(* The hold of an unfinished cycle                                         *)

\* The steps that may run without a state.json, the converge up to the
\* decision, and the window with the release.
Early == {"idle", "download", "hold", "on", "rescue", "aside"}
Mid   == {"converge", "flush", "agentWait", "preHoldLive", "osUpgradeLive", "decide"}
Late  == {"record", "stopCheck", "stop", "packagesCheck", "preHold", "osUpgrade",
          "unhold", "install", "rehold", "reholdFailed", "restartCheck", "restart",
          "rebootCheck", "reboot", "services", "accept", "start", "release",
          "off", "confirm", "archive"}

\* While a run is at work its copy and state.json are the same; in the rescue
\* the copy may be ahead of the file, never behind.
CopyInv ==
    /\ Exists(file) \/ file = NoState
    /\ pc \notin {"idle", "rescue", "aside"} => mem = file
    /\ pc = "on" => ~Exists(file)
    /\ pc \notin Early => Exists(file)
    /\ pc # "idle" /\ Exists(file) =>
         file.playbook = pb /\ (file.convergeStarted => mem.convergeStarted)

\* A release begins after the converge, and is noted before the phase.
OrderInv ==
    /\ file.releasing /\ file.playbook = "maintain-nodes" => "converged" \in file.phases
    /\ "released" \in file.phases => file.releasing
    /\ pc \in Late /\ pb = "maintain-nodes" => "converged" \in mem.phases
    /\ pc \in {"off", "confirm"} => mem.releasing

\* The hold, on a node nobody else acts on.
HoldInv ==
    Undisturbed =>
      /\ hold # "other"
      /\ Exists(file) /\ hold = "run" => seen
      /\ pc = "convergeStart" => hold = "run"

HeldInv == CopyInv /\ OrderInv /\ HoldInv /\ HeldWhileUnfinished

\* Where a marked phase leads: back to the converge only before it is done.
LEMMA NextStepWhere ==
    ASSUME NEW m \in State
    PROVE  /\ NextStep(m) \in (Late \ {"off", "confirm"}) \cup {"convergeStart"}
           /\ NextStep(m) = "convergeStart" => pb = "maintain-nodes" /\ "converged" \notin m.phases
           /\ NextStep(m) \in Late /\ pb = "maintain-nodes" => "converged" \in m.phases
<1>1. NextStep(m) \in {"convergeStart", "record", "stopCheck", "packagesCheck", "restartCheck",
                        "rebootCheck", "services", "release", "archive"}
  BY DEF NextStep
<1>2. NextStep(m) = "convergeStart" <=> pb = "maintain-nodes" /\ "converged" \notin m.phases
  <2>1. Done(m, {"converged"}) <=> "converged" \in m.phases
    BY DEF Done
  <2> QED BY <2>1 DEF NextStep
<1>3. NextStep(m) \in (Late \ {"off", "confirm"}) \cup {"convergeStart"}
  BY <1>1 DEF Late
<1>4. NextStep(m) \in Late => NextStep(m) # "convergeStart"
  BY DEF Late
<1> QED BY <1>2, <1>3, <1>4, Zenon

\* A save that only adds phases, made after the converge or by the decision.
LEMMA SaveHeld ==
    ASSUME TypeOK, HeldInv, NEW m \in State, NEW step \in Steps, Save(m, step),
           pc \in Late \cup {"decide"}, pc = "decide" => "converged" \in m.phases,
           m.playbook = mem.playbook, m.convergeStarted = mem.convergeStarted,
           m.releasing = mem.releasing, mem.phases \subseteq m.phases,
           "released" \in m.phases => mem.releasing,
           step \in Late \ {"off", "confirm"},
           UNCHANGED <<hold, seen, ext>>
    PROVE  HeldInv'
<1>1. mem = file /\ Exists(file) /\ pc \notin Early
  BY DEF HeldInv, CopyInv, Late, Early
<1>2. Exists(m) /\ (pb = "maintain-nodes" => "converged" \in m.phases)
  BY <1>1 DEF HeldInv, OrderInv, CopyInv, Exists, Late
<1>3. CASE file' = m /\ pc' = step
  <2>0. mem' = m /\ pb' = pb
    BY DEF Save
  <2>1. CopyInv'
    BY <1>1, <1>2, <1>3, <2>0 DEF HeldInv, CopyInv, Late, Early, Exists
  <2>2. OrderInv'
    BY <1>1, <1>2, <1>3, <2>0 DEF HeldInv, CopyInv, OrderInv, Late
  <2>3. HoldInv'
    BY <1>1, <1>3, <2>0 DEF HeldInv, HoldInv, Undisturbed, Late
  <2>4. HeldWhileUnfinished'
    BY <1>1, <1>3, <2>0 DEF HeldInv, HeldWhileUnfinished, Committed, Undisturbed
  <2> QED BY <2>1, <2>2, <2>3, <2>4 DEF HeldInv
<1>4. CASE file' = file /\ pc' = "rescue"
  BY <1>1, <1>4 DEF Save, HeldInv, CopyInv, OrderInv, HoldInv, HeldWhileUnfinished,
                    Committed, Undisturbed, Early, Late, Exists
<1> QED BY <1>3, <1>4 DEF Save

\* Marking a phase after the converge, or the decision.
LEMMA MarkHeld ==
    ASSUME TypeOK, HeldInv, NEW m \in State, NEW phase \in Phases, Mark(m, phase),
           pc \in Late \/ (pc = "decide" /\ phase = "converged"),
           m.playbook = mem.playbook, m.convergeStarted = mem.convergeStarted,
           m.releasing = mem.releasing, m.phases = mem.phases,
           phase = "released" => mem.releasing,
           UNCHANGED <<hold, seen, ext>>
    PROVE  HeldInv'
<1>0. PICK n : n = Marked(m, phase)
  OBVIOUS
<1>1. /\ n \in State /\ n.phases = m.phases \cup {phase} /\ n.playbook = m.playbook
      /\ n.convergeStarted = m.convergeStarted /\ n.releasing = m.releasing
  BY <1>0, MarkedType DEF Marked, State
<1>2. mem = file
  BY DEF HeldInv, CopyInv, Late
<1>3. "released" \in n.phases => mem.releasing
  BY <1>1, <1>2 DEF HeldInv, OrderInv
<1>4. pb = "maintain-nodes" => "converged" \in n.phases
  BY <1>1 DEF HeldInv, OrderInv
<1>5. Save(n, NextStep(n)) /\ NextStep(n) \in Steps
  BY <1>0, NextStepType DEF Mark
<1>6. NextStep(n) # "convergeStart"
  BY <1>1, <1>4, NextStepWhere, Zenon
<1>7. NextStep(n) \in (Late \ {"off", "confirm"}) \cup {"convergeStart"}
  BY <1>1, NextStepWhere, Zenon
<1>8. NextStep(n) \in Late \ {"off", "confirm"}
  BY <1>6, <1>7
<1>9. /\ n.playbook = mem.playbook /\ n.convergeStarted = mem.convergeStarted
      /\ n.releasing = mem.releasing /\ mem.phases \subseteq n.phases
      /\ pc \in Late \cup {"decide"} /\ (pc = "decide" => "converged" \in n.phases)
  BY <1>1 DEF Late
<1> QED BY <1>1, <1>3, <1>5, <1>8, <1>9, SaveHeld

\* A step of the run that changes neither its copy, nor the file, nor the hold.
LEMMA GotoHeld ==
    ASSUME HeldInv, UNCHANGED <<mem, pb, file, hold, seen, ext>>,
           \/ pc' = pc
           \/ pc \notin Early /\ pc' = "rescue"
           \/ pc \in {"convergeStart"} \cup Mid /\ pc' \in Mid
           \/ pc \in Late /\ pc' \in Late \ {"off", "confirm"}
    PROVE  HeldInv'
<1>1. CopyInv'
  BY DEF HeldInv, CopyInv, Exists, Early, Mid, Late
<1>2. OrderInv'
  BY DEF HeldInv, OrderInv, Mid, Late
<1>3. HoldInv'
  BY DEF HeldInv, HoldInv, Exists, Undisturbed, Mid, Late
<1>4. HeldWhileUnfinished'
  BY DEF HeldInv, HeldWhileUnfinished, Committed, Undisturbed, Exists
<1> QED BY <1>1, <1>2, <1>3, <1>4 DEF HeldInv

\* Before the first run there is no unfinished cycle.
LEMMA HeldInit == Init => HeldInv
  BY DEF Init, HeldInv, CopyInv, OrderInv, HoldInv, HeldWhileUnfinished, Committed,
         Undisturbed, Exists, NoState, Early, Late

\* Every step a run takes keeps the strengthened invariant.
LEMMA HeldRunStep == TypeOK /\ TypeOK' /\ HeldInv /\ RunStep => HeldInv'
<1> SUFFICES ASSUME TypeOK, TypeOK', HeldInv, RunStep PROVE HeldInv'
  OBVIOUS
<1> USE DEF pkgVars, ctlVars
<1>0. mem \in State /\ file \in State /\ pb \in Playbooks
  BY DEF TypeOK
<1>1. CASE Download
  BY <1>1 DEF Download, Goto, HeldInv, CopyInv, OrderInv, HoldInv, HeldWhileUnfinished,
              Committed, Undisturbed, Exists, Early, Late
<1>2. CASE Hold
  <2>1. mem = file /\ UNCHANGED <<mem, pb, file, hold, seen, ext>>
    BY <1>2 DEF Hold, Goto, HeldInv, CopyInv
  <2>2. CASE pc' = "rescue"
    BY <1>2, <2>1, <2>2 DEF Hold, HeldInv, CopyInv, OrderInv, HoldInv, HeldWhileUnfinished,
                Committed, Undisturbed, Exists, Early, Late
  <2>3. CASE pc' = "on" /\ ~Exists(mem)
    BY <2>1, <2>3 DEF HeldInv, CopyInv, OrderInv, HoldInv, HeldWhileUnfinished,
                Committed, Undisturbed, Exists, Early, Late
  <2>4. CASE pc' = NextStep(mem) /\ Exists(mem) /\ HoldGate
    <3>1. /\ pc' \in (Late \ {"off", "confirm"}) \cup {"convergeStart"}
          /\ pc' = "convergeStart" => pb = "maintain-nodes" /\ "converged" \notin mem.phases
          /\ pc' \in Late /\ pb = "maintain-nodes" => "converged" \in mem.phases
      BY <1>0, <2>4, NextStepWhere
    <3>2. pc = "hold" /\ file.playbook = pb
      BY <1>2, <2>1, <2>4 DEF Hold, HeldInv, CopyInv
    <3>3. pc' = "convergeStart" => hold # "none"
      BY <2>1, <2>4, <3>1, <3>2 DEF HoldGate, HeldInv, OrderInv
    <3>4. hold \in {"none", "run", "other"}
      BY DEF TypeOK, Owners
    <3>5. CopyInv'
      BY <2>1, <2>4, <3>2, <3>1 DEF HeldInv, CopyInv, Exists, Early, Late
    <3>6. OrderInv'
      BY <2>1, <3>1, <3>2 DEF HeldInv, OrderInv
    <3>7. HoldInv'
      BY <2>1, <3>1, <3>2, <3>3, <3>4 DEF HeldInv, HoldInv, Undisturbed, Exists
    <3>8. HeldWhileUnfinished'
      BY <2>1 DEF HeldInv, HeldWhileUnfinished, Committed, Undisturbed, Exists
    <3> QED BY <3>5, <3>6, <3>7, <3>8 DEF HeldInv
  <2> QED BY <1>2, <2>2, <2>3, <2>4 DEF Hold, Goto
<1>3. CASE On
  <2> DEFINE m == [mem EXCEPT !.playbook = pb]
             n == Marked(m, "held")
  <2>1. mem = file /\ ~Exists(file) /\ hold' = "run" /\ seen' = TRUE /\ UNCHANGED <<pb, ext>>
    BY <1>3 DEF On, HeldInv, CopyInv, Mark, Save
  <2>2. /\ n \in State /\ n.phases = {"held"} /\ n.playbook = pb
        /\ n.releasing = FALSE
    <3>1. m \in State /\ m.playbook = pb /\ m.phases = {} /\ m.releasing = FALSE
      BY <1>0, <2>1 DEF HeldInv, CopyInv, State, NoState
    <3> HIDE DEF m
    <3> QED BY <3>1, MarkedType DEF Marked, State, Phases
  <2>3. \/ file' = n /\ mem' = n /\ pc' = NextStep(n)
        \/ file' = file /\ mem' = n /\ pc' = "rescue"
    BY <1>3 DEF On, Mark, Save
  <2> HIDE DEF m, n
  <2>4. CASE file' = n /\ mem' = n /\ pc' = NextStep(n)
    <3>1. /\ pc' \in (Late \ {"off", "confirm"}) \cup {"convergeStart"}
          /\ pc' \in Late /\ pb = "maintain-nodes" => "converged" \in n.phases
      BY <2>2, <2>4, NextStepWhere
    <3>2. CopyInv'
      BY <2>1, <2>2, <2>4, <3>1 DEF CopyInv, Exists, Early, Late
    <3>3. OrderInv'
      BY <2>1, <2>2, <2>4, <3>1 DEF OrderInv, Late
    <3>4. HoldInv' /\ HeldWhileUnfinished'
      BY <2>1 DEF HoldInv, HeldWhileUnfinished
    <3> QED BY <3>2, <3>3, <3>4 DEF HeldInv
  <2>5. CASE file' = file /\ mem' = n /\ pc' = "rescue"
    BY <2>1, <2>5 DEF HeldInv, CopyInv, OrderInv, HoldInv, HeldWhileUnfinished, Exists,
                      Early, Late
  <2> QED BY <2>3, <2>4, <2>5
<1>4. CASE ConvergeStart
  <2>1. mem = file /\ Exists(file) /\ file.playbook = pb /\ UNCHANGED <<pb, hold, seen, ext>>
    BY <1>4 DEF ConvergeStart, HeldInv, CopyInv, Early
  <2>2. /\ ConvergeNoted(mem).phases = mem.phases /\ ConvergeNoted(mem).playbook = mem.playbook
        /\ ConvergeNoted(mem).releasing = mem.releasing /\ ConvergeNoted(mem).convergeStarted
    BY <1>0 DEF ConvergeNoted, State
  <2>3. Undisturbed => hold = "run" /\ seen
    BY <1>4, <2>1 DEF ConvergeStart, HeldInv, HoldInv
  <2>4. /\ mem' = ConvergeNoted(mem)
        /\ (file' = mem' /\ pc' = "converge") \/ (file' = file /\ pc' = "rescue")
    BY <1>4 DEF ConvergeStart
  <2>5. CopyInv'
    BY <2>1, <2>2, <2>4 DEF HeldInv, CopyInv, Exists, Early
  <2>6. OrderInv'
    BY <2>1, <2>2, <2>4 DEF HeldInv, OrderInv, Late
  <2>7. HoldInv' /\ HeldWhileUnfinished'
    BY <2>1, <2>3, <2>4 DEF HeldInv, HoldInv, HeldWhileUnfinished, Undisturbed
  <2> QED BY <2>5, <2>6, <2>7 DEF HeldInv
<1>5. CASE Converge \/ Flush \/ AgentWait \/ PreHold("preHoldLive", "osUpgradeLive")
           \/ OsUpgrade("osUpgradeLive", "decide")
  <2>1. UNCHANGED <<mem, pb, file, hold, seen, ext>>
    BY <1>5 DEF Converge, Flush, AgentWait, HoldCheck, PreHold, OsUpgrade, Goto
  <2>2. pc \in Mid /\ pc' \in Mid \cup {"rescue"}
    BY <1>5 DEF Converge, Flush, AgentWait, HoldCheck, PreHold, OsUpgrade, Goto, Mid
  <2> QED BY <2>1, <2>2, GotoHeld DEF Mid, Early
<1>7. CASE StopCheck \/ PackagesCheck \/ Services \/ Unhold \/ Install
           \/ PreHold("preHold", "osUpgrade") \/ OsUpgrade("osUpgrade", "unhold")
  <2>1. UNCHANGED <<mem, pb, file, hold, seen, ext>>
    BY <1>7 DEF StopCheck, PackagesCheck, Services, Unhold, Install, HoldCheck, PreHold,
                OsUpgrade, Goto
  <2>2. pc \in Late /\ pc' \in (Late \ {"off", "confirm"}) \cup {"rescue"}
    BY <1>7 DEF StopCheck, PackagesCheck, Services, Unhold, Install, HoldCheck, PreHold,
                OsUpgrade, Goto, Late
  <2> QED BY <2>1, <2>2, GotoHeld DEF Late, Early
<1>6. CASE Decide
  <2>1. UNCHANGED <<hold, seen, ext>> /\ pc = "decide"
    BY <1>6 DEF Decide
  <2>2. CASE Goto("rescue") /\ UNCHANGED file
    BY <2>1, <2>2, GotoHeld DEF Goto, Early
  <2>3. ASSUME NEW force \in BOOLEAN, Mark(Decision(mem, force), "converged")
        PROVE  HeldInv'
    <3>1. PICK m : m = Decision(mem, force)
      OBVIOUS
    <3>2. /\ m \in State /\ m.playbook = mem.playbook /\ m.phases = mem.phases
          /\ m.convergeStarted = mem.convergeStarted /\ m.releasing = mem.releasing
      BY <1>0, <3>1 DEF Decision, State, TypeOK
    <3> QED BY <2>1, <2>3, <3>1, <3>2, MarkHeld DEF Phases
  <2> QED BY <1>6, <2>2, <2>3 DEF Decide
<1>8. CASE Record
  <2>1. PICK m : m = [mem EXCEPT !.recorded = Selected]
    OBVIOUS
  <2>2. /\ m \in State /\ m.playbook = mem.playbook /\ m.phases = mem.phases
        /\ m.convergeStarted = mem.convergeStarted /\ m.releasing = mem.releasing
    BY <1>0, <2>1 DEF Selected, TypeOK, State, Containers
  <2> QED BY <1>8, <2>1, <2>2, MarkHeld DEF Record, Phases, Late
<1>9. ASSUME NEW phase \in Phases, Mark(mem, phase), pc \in Late,
             phase = "released" => pc = "confirm", UNCHANGED <<hold, seen, ext>>
      PROVE  HeldInv'
  BY <1>0, <1>9, MarkHeld DEF HeldInv, OrderInv
<1>10. ASSUME pc \in Late, Goto("rescue"), UNCHANGED <<file, hold, seen, ext>> PROVE HeldInv'
  BY <1>10, GotoHeld DEF Goto, Late, Early
<1>11. CASE Stop
  BY <1>9, <1>10, <1>11 DEF Stop, Phases, Late
<1>12. CASE Rehold
  BY <1>9, <1>10, <1>12 DEF Rehold, Phases, Late
<1>13. CASE RestartCheck \/ RebootCheck
  <2>1. CASE HoldCheck("restartCheck", "restart") \/ HoldCheck("rebootCheck", "reboot")
    BY <2>1, GotoHeld DEF HoldCheck, Goto, Late, Early
  <2> QED BY <1>9, <1>13, <2>1 DEF RestartCheck, RebootCheck, Phases, Late
<1>14. CASE Restart \/ Reboot
  BY <1>9, <1>14 DEF Restart, Reboot, Phases, Late
<1>15. CASE Accept
  <2>1. UNCHANGED <<hold, seen, ext>> /\ pc = "accept" /\ mem = file
    BY <1>15 DEF Accept, HeldInv, CopyInv
  <2>2. CASE Goto("start") /\ UNCHANGED file
    BY <2>1, <2>2, GotoHeld DEF Goto, Late
  <2>3. ASSUME NEW extra \in SUBSET mem.recorded,
               Save([mem EXCEPT !.accept = @ \cup extra], "start")
        PROVE  HeldInv'
    <3>1. PICK m : m = [mem EXCEPT !.accept = @ \cup extra]
      OBVIOUS
    <3>2. /\ m \in State /\ m.playbook = mem.playbook /\ m.phases = mem.phases
          /\ m.convergeStarted = mem.convergeStarted /\ m.releasing = mem.releasing
      BY <1>0, <2>3, <3>1 DEF State
    <3>3. "released" \in m.phases => mem.releasing
      BY <2>1, <3>2 DEF HeldInv, OrderInv
    <3> QED BY <2>1, <2>3, <3>1, <3>2, <3>3, SaveHeld DEF Steps, Late
  <2> QED BY <1>15, <2>2, <2>3 DEF Accept
<1>16. CASE Start
  BY <1>9, <1>10, <1>16 DEF Start, Phases, Late
<1>17. CASE Release
  <2>1. /\ mem = file /\ Exists(file) /\ file.playbook = pb /\ UNCHANGED <<pb, hold, seen, ext>>
        /\ pc = "release"
    BY <1>17 DEF Release, HeldInv, CopyInv, Early
  <2>2. /\ ReleaseNoted(mem).phases = mem.phases /\ ReleaseNoted(mem).playbook = mem.playbook
        /\ ReleaseNoted(mem).convergeStarted = mem.convergeStarted /\ ReleaseNoted(mem).releasing
    BY <1>0 DEF ReleaseNoted, State
  <2>3. /\ mem' = ReleaseNoted(mem)
        /\ (file' = mem' /\ pc' = "off") \/ (file' = file /\ pc' = "rescue")
    BY <1>17 DEF Release
  <2>4. CopyInv'
    BY <2>1, <2>2, <2>3 DEF HeldInv, CopyInv, Exists, Early
  <2>5. OrderInv'
    BY <2>1, <2>2, <2>3 DEF HeldInv, OrderInv, Late
  <2>6. HoldInv' /\ HeldWhileUnfinished'
    BY <2>1, <2>2, <2>3 DEF HeldInv, HoldInv, HeldWhileUnfinished, Committed, Undisturbed,
                            Exists
  <2> QED BY <2>4, <2>5, <2>6 DEF HeldInv
<1>18. CASE Off
  <2>1. /\ mem = file /\ mem.releasing /\ hold' = "none" /\ pc = "off" /\ pc' = "confirm"
        /\ UNCHANGED <<mem, pb, file, seen, ext>>
    BY <1>18 DEF Off, Goto, HeldInv, CopyInv, OrderInv
  <2>2. CopyInv' /\ OrderInv'
    BY <2>1 DEF HeldInv, CopyInv, OrderInv, Exists, Early, Late
  <2>3. HoldInv' /\ HeldWhileUnfinished'
    BY <2>1 DEF HoldInv, HeldWhileUnfinished, Committed
  <2> QED BY <2>2, <2>3 DEF HeldInv
<1>19. CASE Confirm
  BY <1>9, <1>10, <1>19 DEF Confirm, Phases, Late
<1>20. CASE Archive \/ Aside
  <2>1. pc' = "idle" /\ file' = NoState /\ UNCHANGED <<hold, seen, ext>>
    BY <1>20 DEF Archive, Aside, EndRun
  <2>2. NoState.phases = {} /\ ~NoState.releasing
    BY DEF NoState
  <2>3. CopyInv' /\ OrderInv'
    BY <2>1, <2>2 DEF CopyInv, OrderInv, Exists, Early, Late
  <2>4. HoldInv' /\ HeldWhileUnfinished'
    BY <2>1, <2>2 DEF HeldInv, HoldInv, HeldWhileUnfinished, Committed, Undisturbed, Exists
  <2> QED BY <2>3, <2>4 DEF HeldInv
<1>21. CASE Rescue
  <2>1. /\ pc = "rescue" /\ UNCHANGED <<pb, file, seen, ext>>
        /\ (pc' = "idle" /\ hold' = hold) \/ (pc' = "aside" /\ mem' = mem)
    BY <1>21 DEF Rescue, Goto, EndRun
  <2>2. hold' = hold \/ (hold' = "none" /\ ~Committed)
    BY <1>21 DEF Rescue, HeldInv, CopyInv, Committed
  <2>3. CopyInv' /\ OrderInv'
    BY <2>1 DEF HeldInv, CopyInv, OrderInv, Exists, Early, Late
  <2>4. HoldInv' /\ HeldWhileUnfinished'
    BY <2>1, <2>2 DEF HeldInv, HoldInv, HeldWhileUnfinished, Committed, Undisturbed, Exists
  <2> QED BY <2>3, <2>4 DEF HeldInv
<1> QED
  BY <1>1, <1>2, <1>3, <1>4, <1>5, <1>6, <1>7, <1>8, <1>11, <1>12, <1>13, <1>14, <1>15,
     <1>16, <1>17, <1>18, <1>19, <1>20, <1>21
  DEF RunStep

\* So does every other step: a start, a failure, the controller, and people,
\* after whose acts the node is no longer Undisturbed.
LEMMA HeldStep == TypeOK /\ TypeOK' /\ HeldInv /\ [Next]_vars => HeldInv'
<1> SUFFICES ASSUME TypeOK, TypeOK', HeldInv, [Next]_vars PROVE HeldInv'
  OBVIOUS
<1> USE DEF pkgVars, ctlVars, runVars
<1>1. ASSUME NEW p \in Playbooks, StartRun(p) PROVE HeldInv'
  <2>1. /\ pc = "idle" /\ pc' \in {"hold", "download"} /\ mem' = file /\ pb' = p
        /\ Exists(file) => file.playbook = p
        /\ UNCHANGED <<file, hold, seen, ext>>
    BY <1>1 DEF StartRun
  <2> QED BY <2>1 DEF HeldInv, CopyInv, OrderInv, HoldInv, HeldWhileUnfinished, Committed,
                      Undisturbed, Exists, Early, Late
<1>2. CASE RunStep
  BY <1>2, HeldRunStep
<1>3. CASE OnFails
  <2>1. /\ pc = "on" /\ pc' = "rescue" /\ hold' \in {hold, "run"}
        /\ UNCHANGED <<mem, pb, file, seen, ext>>
    BY <1>3 DEF OnFails, Goto
  <2> QED BY <2>1 DEF HeldInv, CopyInv, OrderInv, HoldInv, HeldWhileUnfinished, Committed,
                      Undisturbed, Exists, Early, Late
<1>4. CASE TaskFails
  <2>1. /\ pc \notin {"idle", "rescue", "aside"} /\ UNCHANGED <<mem, pb, file, hold, seen, ext>>
        /\ pc' = "rescue" \/ (pc = "install" /\ pc' = "reholdFailed")
    BY <1>4 DEF TaskFails, Goto
  <2>2. CASE pc \notin Early
    BY <2>1, <2>2, GotoHeld DEF Late
  <2>3. CASE pc \in Early
    BY <2>1, <2>3 DEF HeldInv, CopyInv, OrderInv, HoldInv, HeldWhileUnfinished, Committed,
                      Undisturbed, Exists, Early, Late
  <2> QED BY <2>2, <2>3
<1>5. CASE RunDies
  BY <1>5 DEF RunDies, EndRun, HeldInv, CopyInv, OrderInv, HoldInv, HeldWhileUnfinished,
              Committed, Undisturbed, Exists, Early, Late
<1>6. CASE Poll
  BY <1>6 DEF Poll, HeldInv, CopyInv, OrderInv, HoldInv, HeldWhileUnfinished,
              Committed, Undisturbed, Exists
<1>7. CASE Recover \/ UNCHANGED vars
  BY <1>7, GotoHeld DEF Recover, vars
<1>8. CASE ExternalOff \/ ExternalOn \/ ControllerHold \/ HostReboots
  <2>0. UNCHANGED file /\ External
    BY <1>8, Zenon DEF ExternalOff, ExternalOn, ControllerHold, HostReboots
  <2>1. UNCHANGED file /\ ~Undisturbed'
    BY <2>0, BoundsAssumption DEF External, Undisturbed, TypeOK
  <2>2. UNCHANGED <<pc, pb, mem>> \/ pc' = "idle"
    BY <1>8 DEF ExternalOff, ExternalOn, ControllerHold, HostReboots, EndRun
  <2> QED BY <2>1, <2>2 DEF HeldInv, CopyInv, OrderInv, HoldInv, HeldWhileUnfinished, Exists,
                            Early, Late
<1> QED BY <1>1, <1>2, <1>3, <1>4, <1>5, <1>6, <1>7, <1>8 DEF Next, Failure, Environment

\* On a node nobody else acts on, an unfinished cycle that may have changed the
\* node is under the run's own hold and the controller stands back, whatever
\* failed or crashed (maintain_cycle.yml 115-161, release.yml 8).
THEOREM UnfinishedIsHeld == Spec => []HeldWhileUnfinished
<1>1. Init => HeldInv
  BY HeldInit
<1>2. TypeOK /\ TypeOK' /\ HeldInv /\ [Next]_vars => HeldInv'
  BY HeldStep
<1>3. HeldInv => HeldWhileUnfinished
  BY DEF HeldInv
<1> QED BY <1>1, <1>2, <1>3, TypeCorrect, PTL DEF Spec
=============================================================================
