----------------------- MODULE NodeUpgradeCycle_proofs -----------------------
(***************************************************************************)
(* Theorems about what a maintenance cycle does to the node and to its     *)
(* tenants: from the order of the phases in state.json, what each phase    *)
(* says of the node's packages, files and containers.                      *)
(***************************************************************************)
EXTENDS NodeUpgrade_proofs

-----------------------------------------------------------------------------
(* The order of the phases                                                 *)

\* A cycle of this playbook, with this decision, goes through the window.
HasWindow(s) == s.playbook = "upgrade-docker" \/ s.stop

\* No phase is marked before the ones it comes after.
Ordered(s) ==
    /\ s.playbook = "maintain-nodes" /\ "converged" \notin s.phases => s.phases \subseteq {"held"}
    /\ s.playbook = "maintain-nodes" /\ "converged" \in s.phases => s.convergeStarted
    /\ "recorded" \in s.phases => HasWindow(s)
    /\ "stopped" \in s.phases => "recorded" \in s.phases
    /\ "packages" \in s.phases => "stopped" \in s.phases
    /\ "docker_restarted" \in s.phases => "packages" \in s.phases
    /\ "rebooted" \in s.phases =>
          /\ "packages" \in s.phases
          /\ s.playbook = "maintain-nodes" /\ s.restart => "docker_restarted" \in s.phases
    /\ "started" \in s.phases => "rebooted" \in s.phases
    /\ s.releasing /\ HasWindow(s) => "started" \in s.phases

Packaging == {"packagesCheck", "preHold", "osUpgrade", "unhold", "install", "rehold",
              "reholdFailed"}
Releasing == {"release", "off", "confirm", "archive"}

\* What is done and what is not when a run is at a step.
AtStep(step, s) ==
    /\ step \in {"convergeStart"} \cup Mid =>
          pb = "maintain-nodes" /\ "converged" \notin s.phases
    /\ step \in Mid => s.convergeStarted
    /\ step \in Late \ Releasing => Window(s)
    /\ step = "record" => "recorded" \notin s.phases
    /\ step \in {"stopCheck", "stop"} => "recorded" \in s.phases /\ "stopped" \notin s.phases
    /\ step \in Packaging => "stopped" \in s.phases /\ "packages" \notin s.phases
    /\ step \in {"restartCheck", "restart"} =>
          "packages" \in s.phases /\ "docker_restarted" \notin s.phases
          /\ pb = "maintain-nodes" /\ s.restart
    /\ step \in {"rebootCheck", "reboot"} =>
          /\ "packages" \in s.phases /\ "rebooted" \notin s.phases
          /\ pb = "maintain-nodes" /\ s.restart => "docker_restarted" \in s.phases
    /\ step \in {"services", "accept", "start"} =>
          "rebooted" \in s.phases /\ "started" \notin s.phases
    /\ step \in Releasing /\ Window(s) => "started" \in s.phases

PhaseInv == Ordered(file) /\ AtStep(pc, mem)

\* Where a cycle goes next: to a step that what is done and what is not allow.
LEMMA NextStepAt ==
    ASSUME NEW m \in State, Ordered(m), m.playbook = pb
    PROVE  AtStep(NextStep(m), m)
<1>1. /\ Done(m, {"converged"}) <=> "converged" \in m.phases
      /\ Done(m, {"recorded"}) <=> "recorded" \in m.phases
      /\ Done(m, {"packages"}) <=> "packages" \in m.phases
      /\ Done(m, {"rebooted"}) <=> "rebooted" \in m.phases
      /\ Done(m, {"started"}) <=> "started" \in m.phases
      /\ Done(m, {"released"}) <=> "released" \in m.phases
  BY DEF Done
<1>2. /\ Done(m, {"stopped", "packages", "started"})
            <=> "stopped" \in m.phases \/ "packages" \in m.phases \/ "started" \in m.phases
      /\ Done(m, {"docker_restarted", "started"})
            <=> "docker_restarted" \in m.phases \/ "started" \in m.phases
  BY DEF Done
<1>3. Window(m) <=> HasWindow(m)
  BY DEF Window, HasWindow
<1>4. pb \in {"upgrade-docker", "maintain-nodes"}
  BY DEF State, Playbooks
<1>5. CASE pb = "maintain-nodes" /\ "converged" \notin m.phases
  <2>1. NextStep(m) = "convergeStart"
    BY <1>1, <1>5 DEF NextStep
  <2> QED  BY <1>5, <2>1 DEF AtStep, Mid, Late, Packaging, Releasing
<1>6. CASE ~(pb = "maintain-nodes" /\ "converged" \notin m.phases) /\ ~HasWindow(m)
  <2>1. NextStep(m) \in {"release", "archive"}
    BY <1>1, <1>3, <1>6 DEF NextStep
  <2> QED  BY <1>3, <1>6, <2>1 DEF AtStep, Mid, Late, Packaging, Releasing
<1>7. CASE ~(pb = "maintain-nodes" /\ "converged" \notin m.phases) /\ HasWindow(m)
  <2>1. CASE "recorded" \notin m.phases
    <3>1. NextStep(m) = "record"
      BY <1>1, <1>3, <1>7, <2>1 DEF NextStep, RecordDue
    <3> QED  BY <1>3, <1>7, <2>1, <3>1 DEF AtStep, Mid, Late, Packaging, Releasing
  <2>2. CASE "recorded" \in m.phases /\ "stopped" \notin m.phases
    <3>1. NextStep(m) = "stopCheck"
      BY <1>1, <1>2, <1>3, <1>7, <2>2 DEF NextStep, RecordDue, Ordered
    <3> QED  BY <1>3, <1>7, <2>2, <3>1 DEF AtStep, Mid, Late, Packaging, Releasing
  <2>3. CASE "stopped" \in m.phases /\ "packages" \notin m.phases
    <3>1. NextStep(m) = "packagesCheck"
      BY <1>1, <1>2, <1>3, <1>7, <2>3 DEF NextStep, RecordDue, Ordered
    <3> QED  BY <1>3, <1>7, <2>3, <3>1 DEF AtStep, Mid, Late, Packaging, Releasing
  <2>4. CASE /\ "packages" \in m.phases /\ "rebooted" \notin m.phases
             /\ ~(pb = "maintain-nodes" /\ m.restart /\ "docker_restarted" \notin m.phases)
    <3>1. NextStep(m) = "rebootCheck"
      BY <1>1, <1>2, <1>3, <1>7, <2>4 DEF NextStep, RecordDue, Ordered
    <3> QED  BY <1>3, <1>7, <2>4, <3>1 DEF AtStep, Mid, Late, Packaging, Releasing
  <2>5. CASE /\ "packages" \in m.phases /\ "rebooted" \notin m.phases
             /\ pb = "maintain-nodes" /\ m.restart /\ "docker_restarted" \notin m.phases
    <3>1. NextStep(m) = "restartCheck"
      BY <1>1, <1>2, <1>3, <1>7, <2>5 DEF NextStep, RecordDue, Ordered
    <3> QED  BY <1>3, <1>7, <2>5, <3>1 DEF AtStep, Mid, Late, Packaging, Releasing
  <2>6. CASE "rebooted" \in m.phases /\ "started" \notin m.phases
    <3>1. NextStep(m) = "services"
      BY <1>1, <1>2, <1>3, <1>7, <2>6 DEF NextStep, RecordDue, Ordered
    <3> QED  BY <1>3, <1>7, <2>6, <3>1 DEF AtStep, Mid, Late, Packaging, Releasing
  <2>7. CASE "started" \in m.phases
    <3>1. NextStep(m) \in {"release", "archive"}
      BY <1>1, <1>2, <1>3, <1>7, <2>7 DEF NextStep, RecordDue, Ordered
    <3> QED  BY <1>3, <1>7, <2>7, <3>1 DEF AtStep, Mid, Late, Packaging, Releasing
  <2>8. "packages" \in m.phases => "stopped" \in m.phases
    BY DEF Ordered
  <2> QED  BY <2>1, <2>2, <2>3, <2>4, <2>5, <2>6, <2>7, <2>8 DEF Ordered
<1> QED
  BY <1>4, <1>5, <1>6, <1>7

\* A run that goes nowhere in its cycle.
LEMMA EarlyPhase ==
    ASSUME PhaseInv, file' = file, pc' \in Early
    PROVE  PhaseInv'
  BY DEF PhaseInv, Ordered, HasWindow, AtStep, Early, Mid, Late, Packaging, Releasing

\* A step within a phase.
LEMMA GotoPhase ==
    ASSUME PhaseInv, UNCHANGED <<mem, pb, file>>, AtStep(pc', mem)
    PROVE  PhaseInv'
  BY DEF PhaseInv, Ordered, HasWindow, AtStep, Window

\* What marking does to a state.
LEMMA MarkedIs ==
    ASSUME NEW m \in State, NEW phase \in Phases
    PROVE  LET n == Marked(m, phase)
           IN  /\ n \in State /\ n.phases = m.phases \cup {phase} /\ n.playbook = m.playbook
               /\ n.convergeStarted = m.convergeStarted /\ n.releasing = m.releasing
               /\ n.stop = m.stop /\ n.restart = m.restart
               /\ n.recorded = m.recorded /\ n.accept = m.accept
  BY MarkedType DEF Marked, State

\* A phase that is marked in its order.
LEMMA MarkPhase ==
    ASSUME PhaseInv, NEW m \in State, NEW phase \in Phases, Mark(m, phase),
           m.playbook = pb, Ordered(Marked(m, phase))
    PROVE  PhaseInv'
<1> DEFINE n == Marked(m, phase)
<1>1. n \in State /\ n.playbook = pb
  BY MarkedIs
<1>2. AtStep(NextStep(n), n)
  BY <1>1, NextStepAt
<1>3. \/ file' = n /\ mem' = n /\ pb' = pb /\ pc' = NextStep(n)
      \/ file' = file /\ pc' = "rescue"
  BY DEF Mark, Save
<1> HIDE DEF n
<1>4. Ordered(n)
  BY DEF n
<1>5. CASE file' = n /\ mem' = n /\ pb' = pb /\ pc' = NextStep(n)
  <2>1. Ordered(file)'
    BY <1>4, <1>5 DEF Ordered, HasWindow
  <2>2. AtStep(pc, mem)'
    BY <1>2, <1>5 DEF AtStep, Window
  <2> QED  BY <2>1, <2>2 DEF PhaseInv
<1> QED
  BY <1>3, <1>5, EarlyPhase DEF Early

\* After the converge step of maintain-nodes, the converge is done.
LEMMA OrderAtLate ==
    OrderInv /\ pc \in Late /\ pb = "maintain-nodes" => "converged" \in mem.phases
  BY DEF OrderInv

\* What the run's copy is at a step of the cycle.
LEMMA MidCopy ==
    ASSUME TypeOK, HeldInv, PhaseInv, pc \notin Early
    PROVE  /\ mem \in State /\ mem = file /\ mem.playbook = pb /\ pb \in Playbooks
           /\ Ordered(mem) /\ AtStep(pc, mem) /\ Exists(mem)
           /\ Window(mem) <=> HasWindow(mem)
  BY DEF TypeOK, HeldInv, CopyInv, PhaseInv, Early, Window, HasWindow

\* Marking the phase a step belongs to keeps the order.
LEMMA MarkStep ==
    ASSUME TypeOK, HeldInv, PhaseInv, pc \notin Early, NEW phase \in Phases, Mark(mem, phase),
           \/ pc = "stop" /\ phase = "stopped"
           \/ pc = "rehold" /\ phase = "packages"
           \/ pc \in {"restartCheck", "restart"} /\ phase = "docker_restarted"
           \/ pc \in {"rebootCheck", "reboot"} /\ phase = "rebooted"
           \/ pc = "start" /\ phase = "started"
           \/ pc = "confirm" /\ phase = "released"
    PROVE  PhaseInv'
<1>1. /\ mem \in State /\ mem.playbook = pb /\ Ordered(mem) /\ AtStep(pc, mem)
      /\ Window(mem) <=> HasWindow(mem)
  BY MidCopy
<1> DEFINE n == Marked(mem, phase)
<1>2. /\ n.phases = mem.phases \cup {phase} /\ n.playbook = mem.playbook
      /\ n.convergeStarted = mem.convergeStarted /\ n.releasing = mem.releasing
      /\ n.stop = mem.stop /\ n.restart = mem.restart
  BY <1>1, MarkedIs
<1> HIDE DEF n
<1>3. pb = "maintain-nodes" => "converged" \in mem.phases
  BY OrderAtLate DEF HeldInv, Late
<1>4. HasWindow(n) <=> HasWindow(mem)
  BY <1>2 DEF HasWindow
<1>5. CASE pc = "stop" /\ phase = "stopped"
  <2>1. Ordered(n)
    BY <1>1, <1>2, <1>3, <1>4, <1>5 DEF Ordered, AtStep
  <2> QED  BY <1>1, <2>1, MarkPhase DEF n
<1>6. CASE pc = "rehold" /\ phase = "packages"
  <2>1. Ordered(n)
    BY <1>1, <1>2, <1>3, <1>4, <1>6 DEF Ordered, AtStep, Packaging
  <2> QED  BY <1>1, <2>1, MarkPhase DEF n
<1>7. CASE pc \in {"restartCheck", "restart"} /\ phase = "docker_restarted"
  <2>1. Ordered(n)
    BY <1>1, <1>2, <1>3, <1>4, <1>7 DEF Ordered, AtStep
  <2> QED  BY <1>1, <2>1, MarkPhase DEF n
<1>8. CASE pc \in {"rebootCheck", "reboot"} /\ phase = "rebooted"
  <2>1. Ordered(n)
    BY <1>1, <1>2, <1>3, <1>4, <1>8 DEF Ordered, AtStep
  <2> QED  BY <1>1, <2>1, MarkPhase DEF n
<1>9. CASE pc = "start" /\ phase = "started"
  <2>1. Ordered(n)
    BY <1>1, <1>2, <1>3, <1>4, <1>9 DEF Ordered, AtStep
  <2> QED  BY <1>1, <2>1, MarkPhase DEF n
<1>10. CASE pc = "confirm" /\ phase = "released"
  <2>1. Ordered(n)
    BY <1>1, <1>2, <1>3, <1>4, <1>10 DEF Ordered, AtStep, Releasing
  <2> QED  BY <1>1, <2>1, MarkPhase DEF n
<1> QED
  BY <1>5, <1>6, <1>7, <1>8, <1>9, <1>10

\* The order is kept by every step a run takes.
LEMMA PhaseRunStep == TypeOK /\ TypeOK' /\ HeldInv /\ PhaseInv /\ RunStep => PhaseInv'
<1> SUFFICES ASSUME TypeOK, TypeOK', HeldInv, PhaseInv, RunStep PROVE PhaseInv'
  OBVIOUS
<1>0. mem \in State /\ file \in State /\ pb \in Playbooks
  BY DEF TypeOK
<1>1. ASSUME UNCHANGED <<mem, pb, file>>, pc' = "rescue" PROVE PhaseInv'
  BY <1>1, EarlyPhase DEF Early
<1>2. ASSUME pc \notin Early
      PROVE  /\ mem \in State /\ mem = file /\ mem.playbook = pb
             /\ Ordered(mem) /\ AtStep(pc, mem) /\ Exists(mem)
             /\ Window(mem) <=> HasWindow(mem)
  BY <1>2, MidCopy
<1>3. CASE Download
  BY <1>3, EarlyPhase DEF Download, Goto, Early
<1>4. CASE Hold
  <2>1. UNCHANGED <<mem, pb, file>> /\ mem = file /\ pc = "hold"
    BY <1>4 DEF Hold, Goto, HeldInv, CopyInv
  <2>2. CASE pc' \in {"rescue", "on"}
    BY <2>1, <2>2, EarlyPhase DEF Early
  <2>3. CASE pc' = NextStep(mem) /\ Exists(mem)
    <3>1. mem.playbook = pb /\ Ordered(mem)
      BY <2>1, <2>3 DEF HeldInv, CopyInv, PhaseInv
    <3>2. AtStep(NextStep(mem), mem)
      BY <1>0, <3>1, NextStepAt
    <3> QED  BY <2>1, <2>3, <3>2, GotoPhase
  <2> QED  BY <1>4, <2>2, <2>3 DEF Hold, Goto
<1>5. CASE On
  <2>1. PICK m : m = [mem EXCEPT !.playbook = pb]
    OBVIOUS
  <2>2. mem = NoState
    BY <1>5 DEF On, HeldInv, CopyInv
  <2>3. /\ m \in State /\ m.playbook = pb /\ m.phases = {} /\ ~m.releasing
        /\ ~m.stop /\ ~m.convergeStarted
    BY <1>0, <2>1, <2>2 DEF State, NoState
  <2>4. PICK n : n = Marked(m, "held")
    OBVIOUS
  <2>5. /\ n.phases = {"held"} /\ n.playbook = pb /\ ~n.releasing
    BY <2>3, <2>4, MarkedIs DEF Phases
  <2>6. Ordered(n)
    BY <2>5 DEF Ordered
  <2> QED  BY <1>5, <2>1, <2>3, <2>4, <2>6, MarkPhase DEF On, Phases
<1>6. CASE ConvergeStart
  <2>1. /\ pc = "convergeStart" /\ mem' = ConvergeNoted(mem) /\ pb' = pb
        /\ (file' = mem' /\ pc' = "converge") \/ (file' = file /\ pc' = "rescue")
    BY <1>6 DEF ConvergeStart
  <2>2. PICK m : m = ConvergeNoted(mem)
    OBVIOUS
  <2>3. /\ m.phases = mem.phases /\ m.playbook = mem.playbook /\ m.convergeStarted
        /\ m.releasing = mem.releasing /\ m.stop = mem.stop /\ m.restart = mem.restart
    BY <1>0, <2>2 DEF ConvergeNoted, State
  <2>4. Ordered(mem) /\ AtStep("convergeStart", mem) /\ mem.playbook = pb
    BY <1>2, <2>1 DEF Early
  <2>5. Ordered(m)
    BY <2>3, <2>4 DEF Ordered, HasWindow
  <2>6. CASE file' = m /\ mem' = m /\ pc' = "converge"
    <3>1. Ordered(file)'
      BY <2>5, <2>6 DEF Ordered, HasWindow
    <3>2. AtStep(pc, mem)'
      BY <2>1, <2>3, <2>4, <2>6 DEF AtStep, Mid, Late, Packaging, Releasing
    <3> QED  BY <3>1, <3>2 DEF PhaseInv
  <2> QED  BY <2>1, <2>2, <2>6, EarlyPhase DEF Early
<1>7. CASE Converge \/ Flush \/ AgentWait \/ PreHold("preHoldLive", "osUpgradeLive")
           \/ OsUpgrade("osUpgradeLive", "decide")
  <2>1. UNCHANGED <<mem, pb, file>>
    BY <1>7 DEF Converge, Flush, AgentWait, HoldCheck, PreHold, OsUpgrade, Goto
  <2>2. pc \in Mid /\ pc' \in Mid \cup {"rescue"}
    BY <1>7 DEF Converge, Flush, AgentWait, HoldCheck, PreHold, OsUpgrade, Goto, Mid
  <2>3. AtStep(pc, mem)
    BY DEF PhaseInv
  <2>4. CASE pc' \in Mid
    <3>1. AtStep(pc', mem)
      BY <2>2, <2>3, <2>4 DEF AtStep, Mid, Late, Packaging, Releasing
    <3> QED  BY <2>1, <3>1, GotoPhase
  <2> QED  BY <1>1, <2>1, <2>2, <2>4
<1>8. CASE Decide
  <2>1. pc = "decide"
    BY <1>8 DEF Decide
  <2>2. ASSUME NEW force \in BOOLEAN, Mark(Decision(mem, force), "converged")
        PROVE  PhaseInv'
    <3>1. PICK m : m = Decision(mem, force)
      OBVIOUS
    <3>2. /\ m \in State /\ m.playbook = mem.playbook /\ m.phases = mem.phases
          /\ m.convergeStarted = mem.convergeStarted /\ m.releasing = mem.releasing
      BY <1>0, <3>1 DEF Decision, State, TypeOK
    <3>3. PICK n : n = Marked(m, "converged")
      OBVIOUS
    <3>4. /\ n.phases = mem.phases \cup {"converged"} /\ n.playbook = mem.playbook
          /\ n.convergeStarted = mem.convergeStarted /\ n.releasing = mem.releasing
      BY <3>2, <3>3, MarkedIs DEF Phases
    <3>5. Ordered(mem) /\ AtStep("decide", mem) /\ mem.playbook = pb /\ mem = file
      BY <1>2, <2>1 DEF Early
    <3>6. /\ pb = "maintain-nodes" /\ mem.convergeStarted /\ mem.phases \subseteq {"held"}
          /\ ~mem.releasing
      BY <3>5 DEF Ordered, AtStep, Mid, HeldInv, OrderInv
    <3>7. Ordered(n)
      BY <3>4, <3>5, <3>6 DEF Ordered
    <3> QED  BY <2>2, <3>1, <3>2, <3>3, <3>5, <3>7, MarkPhase DEF Phases
  <2>3. CASE Goto("rescue") /\ UNCHANGED file
    BY <1>1, <2>3 DEF Goto
  <2> QED  BY <1>8, <2>2, <2>3 DEF Decide
<1>9. CASE Record
  <2>1. PICK m : m = [mem EXCEPT !.recorded = Selected]
    OBVIOUS
  <2>2. /\ m \in State /\ m.playbook = mem.playbook /\ m.phases = mem.phases
        /\ m.convergeStarted = mem.convergeStarted /\ m.releasing = mem.releasing
        /\ m.stop = mem.stop /\ m.restart = mem.restart
    BY <1>0, <2>1 DEF Selected, TypeOK, State, Containers
  <2>3. PICK n : n = Marked(m, "recorded")
    OBVIOUS
  <2>4. /\ n.phases = mem.phases \cup {"recorded"} /\ n.playbook = mem.playbook
        /\ n.convergeStarted = mem.convergeStarted /\ n.releasing = mem.releasing
        /\ n.stop = mem.stop /\ n.restart = mem.restart
    BY <2>2, <2>3, MarkedIs DEF Phases
  <2>5. /\ Ordered(mem) /\ AtStep("record", mem) /\ mem.playbook = pb
        /\ Window(mem) <=> HasWindow(mem)
    BY <1>2, <1>9 DEF Record, Early
  <2>6. HasWindow(mem) /\ (pb = "maintain-nodes" => "converged" \in mem.phases)
    BY <1>9, <2>5, OrderAtLate DEF AtStep, Late, Releasing, Record, HeldInv
  <2>7. Ordered(n)
    BY <2>4, <2>5, <2>6 DEF Ordered, HasWindow
  <2> QED  BY <1>9, <2>1, <2>2, <2>3, <2>5, <2>7, MarkPhase DEF Record, Phases
<1>10. CASE StopCheck \/ PackagesCheck \/ Services \/ Unhold \/ Install
            \/ PreHold("preHold", "osUpgrade") \/ OsUpgrade("osUpgrade", "unhold")
  <2>1. UNCHANGED <<mem, pb, file>>
    BY <1>10 DEF StopCheck, PackagesCheck, Services, Unhold, Install, HoldCheck, PreHold,
                 OsUpgrade, Goto
  <2>2. \/ pc = "stopCheck" /\ pc' = "stop"
        \/ pc = "services" /\ pc' = "accept"
        \/ pc \in Packaging /\ pc' \in Packaging
        \/ pc' = "rescue"
    BY <1>10 DEF StopCheck, PackagesCheck, Services, Unhold, Install, HoldCheck, PreHold,
                 OsUpgrade, Goto, Packaging
  <2>3. AtStep(pc, mem)
    BY DEF PhaseInv
  <2>4. CASE pc' # "rescue"
    <3>1. AtStep(pc', mem)
      BY <2>2, <2>3, <2>4 DEF AtStep, Mid, Late, Packaging, Releasing
    <3> QED  BY <2>1, <3>1, GotoPhase
  <2> QED  BY <1>1, <2>1, <2>4
<1>11. CASE Stop
  BY <1>1, <1>11, MarkStep DEF Stop, Goto, Phases, Early
<1>12. CASE Rehold
  BY <1>1, <1>12, MarkStep DEF Rehold, Goto, Phases, Early
<1>13. CASE RestartCheck \/ RebootCheck
  <2>1. CASE HoldCheck("restartCheck", "restart") \/ HoldCheck("rebootCheck", "reboot")
    <3>1. UNCHANGED <<mem, pb, file>>
      BY <2>1 DEF HoldCheck, Goto
    <3>2. \/ pc = "restartCheck" /\ pc' = "restart"
          \/ pc = "rebootCheck" /\ pc' = "reboot"
          \/ pc' = "rescue"
      BY <2>1 DEF HoldCheck, Goto
    <3>3. AtStep(pc, mem)
      BY DEF PhaseInv
    <3>4. CASE pc' # "rescue"
      <4>1. AtStep(pc', mem)
        BY <3>2, <3>3, <3>4 DEF AtStep, Mid, Late, Packaging, Releasing
      <4> QED  BY <3>1, <4>1, GotoPhase
    <3> QED  BY <1>1, <3>1, <3>4
  <2>2. CASE pc = "restartCheck" /\ Mark(mem, "docker_restarted")
    BY <2>2, MarkStep DEF Phases, Early
  <2>3. CASE pc = "rebootCheck" /\ Mark(mem, "rebooted")
    BY <2>3, MarkStep DEF Phases, Early
  <2> QED  BY <1>13, <2>1, <2>2, <2>3 DEF RestartCheck, RebootCheck
<1>14. CASE Restart \/ Reboot
  BY <1>14, MarkStep DEF Restart, Reboot, Phases, Early
<1>15. CASE Accept
  <2>1. pc = "accept" /\ AtStep("accept", mem) /\ mem = file /\ Ordered(mem)
    BY <1>2, <1>15 DEF Accept, Early
  <2>2. CASE Goto("start") /\ UNCHANGED file
    <3>1. AtStep("start", mem)
      BY <2>1 DEF AtStep, Mid, Late, Packaging, Releasing
    <3> QED  BY <2>2, <3>1, GotoPhase DEF Goto
  <2>3. ASSUME NEW extra \in SUBSET mem.recorded,
               Save([mem EXCEPT !.accept = @ \cup extra], "start")
        PROVE  PhaseInv'
    <3>1. PICK m : m = [mem EXCEPT !.accept = @ \cup extra]
      OBVIOUS
    <3>2. /\ m.playbook = mem.playbook /\ m.phases = mem.phases
          /\ m.convergeStarted = mem.convergeStarted /\ m.releasing = mem.releasing
          /\ m.stop = mem.stop /\ m.restart = mem.restart
      BY <1>0, <3>1 DEF State
    <3>3. Ordered(m) /\ AtStep("start", m)
      BY <2>1, <3>2 DEF Ordered, HasWindow, Window, AtStep, Mid, Late, Packaging, Releasing
    <3>4. CASE file' = m /\ mem' = m /\ pc' = "start" /\ pb' = pb
      BY <3>3, <3>4 DEF PhaseInv, Ordered, AtStep, HasWindow, Window
    <3> QED  BY <2>3, <3>1, <3>4, EarlyPhase DEF Save, Early
  <2> QED  BY <1>15, <2>2, <2>3 DEF Accept
<1>16. CASE Start
  BY <1>1, <1>16, MarkStep DEF Start, Goto, Phases, Early
<1>17. CASE Release
  <2>1. /\ pc = "release" /\ mem' = ReleaseNoted(mem) /\ pb' = pb
        /\ (file' = mem' /\ pc' = "off") \/ (file' = file /\ pc' = "rescue")
    BY <1>17 DEF Release
  <2>2. PICK m : m = ReleaseNoted(mem)
    OBVIOUS
  <2>3. /\ m.phases = mem.phases /\ m.playbook = mem.playbook
        /\ m.convergeStarted = mem.convergeStarted /\ m.releasing
        /\ m.stop = mem.stop /\ m.restart = mem.restart
    BY <1>0, <2>2 DEF ReleaseNoted, State
  <2>4. /\ Ordered(mem) /\ AtStep("release", mem) /\ mem.playbook = pb
        /\ Window(mem) <=> HasWindow(mem)
    BY <1>2, <2>1 DEF Early
  <2>5. Ordered(m)
    BY <2>3, <2>4 DEF Ordered, HasWindow, AtStep, Releasing
  <2>6. AtStep("off", m)
    BY <2>3, <2>4 DEF AtStep, Window, Mid, Late, Packaging, Releasing
  <2>7. CASE file' = m /\ mem' = m /\ pc' = "off"
    BY <2>1, <2>5, <2>6, <2>7 DEF PhaseInv, Ordered, AtStep, HasWindow, Window
  <2> QED  BY <2>1, <2>2, <2>7, EarlyPhase DEF Early
<1>18. CASE Off
  <2>1. AtStep("off", mem) /\ pc' = "confirm" /\ UNCHANGED <<mem, pb, file>>
    BY <1>18 DEF Off, Goto, PhaseInv
  <2>2. AtStep("confirm", mem)
    BY <2>1 DEF AtStep, Mid, Late, Packaging, Releasing
  <2> QED  BY <2>1, <2>2, GotoPhase
<1>19. CASE Confirm
  BY <1>1, <1>19, MarkStep DEF Confirm, Goto, Phases, Early
<1>20. CASE Archive \/ Aside
  <2>1. pc' = "idle" /\ file' = NoState
    BY <1>20 DEF Archive, Aside, EndRun
  <2>2. file'.phases = {} /\ file'.playbook = "upgrade-docker" /\ file'.releasing = FALSE
    BY <2>1 DEF NoState
  <2> QED  BY <2>1, <2>2 DEF PhaseInv, Ordered, AtStep, Mid, Late, Packaging, Releasing
<1>21. CASE Rescue
  BY <1>21, EarlyPhase DEF Rescue, Goto, EndRun, Early
<1> QED
  BY <1>3, <1>4, <1>5, <1>6, <1>7, <1>8, <1>9, <1>10, <1>11, <1>12, <1>13, <1>14, <1>15,
     <1>16, <1>17, <1>18, <1>19, <1>20, <1>21
  DEF RunStep

\* So does every other step.
LEMMA PhaseStep == TypeOK /\ TypeOK' /\ HeldInv /\ PhaseInv /\ [Next]_vars => PhaseInv'
<1> SUFFICES ASSUME TypeOK, TypeOK', HeldInv, PhaseInv, [Next]_vars PROVE PhaseInv'
  OBVIOUS
<1>1. ASSUME NEW p \in Playbooks, StartRun(p) PROVE PhaseInv'
  BY <1>1, EarlyPhase DEF StartRun, Early
<1>2. CASE RunStep
  BY <1>2, PhaseRunStep
<1>3. CASE TaskFails
  <2>1. UNCHANGED <<mem, pb, file>>
    BY <1>3 DEF TaskFails, Goto
  <2>2. CASE pc = "install" /\ pc' = "reholdFailed"
    <3>1. AtStep("install", mem)
      BY <2>2 DEF PhaseInv
    <3>2. AtStep("reholdFailed", mem)
      BY <3>1 DEF AtStep, Mid, Late, Packaging, Releasing
    <3> QED  BY <2>1, <2>2, <3>2, GotoPhase
  <2> QED  BY <1>3, <2>1, <2>2, EarlyPhase DEF TaskFails, Goto, Early
<1>4. CASE OnFails \/ RunDies \/ HostReboots
  BY <1>4, EarlyPhase DEF OnFails, RunDies, HostReboots, Goto, EndRun, Early
<1>5. CASE Poll \/ Recover \/ ExternalOff \/ ExternalOn \/ ControllerHold \/ UNCHANGED vars
  <2>1. UNCHANGED <<pc, pb, mem, file>>
    BY <1>5 DEF Poll, Recover, ExternalOff, ExternalOn, ControllerHold, vars, runVars
  <2> QED  BY <2>1, GotoPhase DEF PhaseInv
<1> QED  BY <1>1, <1>2, <1>3, <1>4, <1>5 DEF Next, Failure, Environment

\* Before the first run nothing is done.
LEMMA PhaseInit == Init => PhaseInv
  BY DEF Init, PhaseInv, Ordered, AtStep, NoState, Mid, Late, Packaging, Releasing

\* The invariants so far, together.
CycleInv == TypeOK /\ HeldInv /\ PhaseInv

\* They hold in every state.
LEMMA CycleHolds == Spec => []CycleInv
<1>1. Init => CycleInv
  BY InitType, HeldInit, PhaseInit DEF CycleInv
<1>2. CycleInv /\ [Next]_vars => CycleInv'
  BY NextType, HeldStep, PhaseStep DEF CycleInv
<1> QED  BY <1>1, <1>2, PTL DEF Spec

\* The phases, and what else state.json says, only change where the cycle
\* marks, notes, accepts or sets aside.
LEMMA MarkFile ==
    ASSUME NEW m \in State, NEW phase \in Phases, Mark(m, phase)
    PROVE  \/ file' = file /\ pc' = "rescue"
           \/ /\ file' = Marked(m, phase) /\ pc' # "rescue"
              /\ file'.phases = m.phases \cup {phase} /\ file'.playbook = m.playbook
              /\ file'.convergeStarted = m.convergeStarted /\ file'.releasing = m.releasing
              /\ file'.stop = m.stop /\ file'.restart = m.restart
              /\ file'.recorded = m.recorded /\ file'.accept = m.accept
<1>1. NextStep(Marked(m, phase)) # "rescue"
  BY DEF NextStep
<1> QED  BY <1>1, MarkedIs DEF Mark, Save

\* The list of what to bring back is only written before `recorded` is marked.
LEMMA RecordedStep ==
    ASSUME CycleInv, [Next]_vars, Exists(file'), "recorded" \in file.phases
    PROVE  file'.recorded = file.recorded
<1> USE DEF CycleInv
<1>0. mem \in State /\ file \in State
  BY DEF TypeOK
<1>1. ASSUME pc \notin Early PROVE mem = file /\ AtStep(pc, mem) /\ Ordered(mem)
  BY <1>1, MidCopy
<1>2. ASSUME NEW phase \in Phases, Mark(mem, phase), pc \notin Early
      PROVE  file'.recorded = file.recorded
  BY <1>0, <1>1, <1>2, MarkFile
<1>3. CASE On
  BY <1>3 DEF On, HeldInv, CopyInv, Exists
<1>4. CASE ConvergeStart
  BY <1>0, <1>1, <1>4 DEF ConvergeStart, ConvergeNoted, State, Early
<1>5. CASE Decide
  <2>1. ASSUME NEW force \in BOOLEAN, Mark(Decision(mem, force), "converged")
        PROVE  file'.recorded = file.recorded
    <3>1. PICK m : m = Decision(mem, force)
      OBVIOUS
    <3>2. m \in State /\ m.recorded = mem.recorded
      BY <1>0, <3>1 DEF Decision, State, TypeOK
    <3> QED  BY <1>1, <1>5, <2>1, <3>1, <3>2, MarkFile DEF Decide, Phases, Early
  <2> QED  BY <1>5, <2>1 DEF Decide
<1>6. CASE Record
  BY <1>1, <1>6 DEF Record, AtStep, Early
<1>7. CASE Stop \/ Rehold \/ RestartCheck \/ Restart \/ RebootCheck \/ Reboot \/ Start \/ Confirm
  <2>1. \/ UNCHANGED file
        \/ \E phase \in Phases : Mark(mem, phase) /\ pc \notin Early
    <3>1. CASE Stop \/ Start \/ Confirm
      BY <3>1 DEF Stop, Start, Confirm, Phases, Early
    <3>2. CASE Rehold \/ Restart \/ Reboot
      BY <3>2 DEF Rehold, Restart, Reboot, Phases, Early
    <3>3. CASE RestartCheck \/ RebootCheck
      BY <3>3 DEF RestartCheck, RebootCheck, HoldCheck, Phases, Early
    <3> QED  BY <1>7, <3>1, <3>2, <3>3
  <2> QED  BY <1>2, <2>1
<1>8. CASE Accept
  BY <1>0, <1>1, <1>8 DEF Accept, Save, State, Early
<1>9. CASE Release
  BY <1>0, <1>1, <1>9 DEF Release, ReleaseNoted, State, Early
<1>10. CASE Archive \/ Aside
  BY <1>10 DEF Archive, Aside, Exists, NoState
<1>11. CASE UNCHANGED file
  BY <1>11
<1>12. CASE \/ Download \/ Hold \/ Converge \/ Flush \/ AgentWait \/ StopCheck \/ PackagesCheck
            \/ Unhold \/ Install \/ Services \/ Off \/ Rescue
  BY <1>12 DEF Download, Hold, Converge, Flush, AgentWait, StopCheck, PackagesCheck, Unhold,
               Install, Services, Off, Rescue, HoldCheck
<1>13. ASSUME NEW from, NEW to, PreHold(from, to) \/ OsUpgrade(from, to) PROVE UNCHANGED file
  BY <1>13 DEF PreHold, OsUpgrade
<1>14. CASE Failure \/ Environment \/ \E p \in Playbooks : StartRun(p)
  BY <1>14 DEF Failure, OnFails, TaskFails, RunDies, Environment, Poll, Recover, ExternalOff,
               ExternalOn, ControllerHold, HostReboots, StartRun
<1>15. CASE UNCHANGED vars
  BY <1>15 DEF vars
<1> QED
  BY <1>3, <1>4, <1>5, <1>6, <1>7, <1>8, <1>9, <1>10, <1>11, <1>12, <1>13, <1>14, <1>15
  DEF Next, RunStep

\* The list of what to bring back is written once per cycle, however many runs
\* of it fail or die and whoever acts on the node meanwhile (record.yml 4-5).
THEOREM ListIsWrittenOnce == Spec => RecordedOnce
<1>1. CycleInv /\ [Next]_vars
        => [Exists(file') /\ "recorded" \in file.phases => file'.recorded = file.recorded]_vars
  BY RecordedStep
<1> QED  BY <1>1, CycleHolds, PTL DEF Spec, RecordedOnce

-----------------------------------------------------------------------------
(* The node                                                                *)

\* docker's packages: not held only inside the package phase of an unfinished
\* cycle, at their pins after it.
PackagesInv ==
    /\ ~aptHeld =>
          /\ Exists(file) /\ "packages" \notin file.phases /\ HasWindow(file)
          /\ file.playbook = "maintain-nodes" => "converged" \in file.phases
    /\ "packages" \in file.phases => docker = "pin"

\* A file the converge changed waits for its handler, or for the restart of
\* dockerd, in an unfinished converge that notes it, or in the window.
ConvergeInv ==
    /\ stale # {} \/ certStale =>
          Exists(file) /\ file.playbook = "maintain-nodes" /\ file.convergeStarted
    /\ stale # {} => "converged" \notin file.phases
    /\ pc = "converge" => stale \cap Rerun \subseteq pend
    /\ pc = "flush" => stale \subseteq pend
    /\ pc \in Mid \ {"converge", "flush"} => stale = {}
    /\ certStale /\ "converged" \in file.phases =>
          /\ file.restart /\ file.stop /\ "rebooted" \notin file.phases
          /\ "docker_restarted" \in file.phases => rebootReq

\* The cycle that the rescue sets aside has not changed the node.
AsideInv ==
    pc = "aside" =>
        Exists(file) /\ file.playbook = "maintain-nodes" /\ ~file.convergeStarted

NodeInv == AsideInv /\ PackagesInv /\ ConvergeInv

\* What a marked phase leaves as it was.
LEMMA MarkKeeps ==
    ASSUME CycleInv, NEW phase \in Phases, Mark(mem, phase), pc \notin Early
    PROVE  /\ UNCHANGED pend
           /\ \/ file' = file /\ pc' = "rescue"
              \/ /\ pc' \notin Mid \cup Early
                 /\ file'.phases = file.phases \cup {phase} /\ file'.playbook = file.playbook
                 /\ file'.convergeStarted = file.convergeStarted
                 /\ file'.releasing = file.releasing
                 /\ file'.stop = file.stop /\ file'.restart = file.restart
                 /\ file'.recorded = file.recorded /\ file'.accept = file.accept
<1>1. mem \in State /\ mem = file
  BY MidCopy DEF CycleInv
<1>2. NextStep(Marked(mem, phase)) \notin Mid \cup Early
  BY DEF NextStep, Mid, Early
<1>3. CASE file' = file /\ pc' = "rescue"
  BY <1>3 DEF Mark, Save
<1>4. CASE pc' # "rescue"
  <2>1. pc' = NextStep(Marked(mem, phase)) /\ UNCHANGED pend
    BY <1>4 DEF Mark, Save
  <2> QED  BY <1>1, <1>2, <1>4, <2>1, MarkFile
<1> QED  BY <1>1, <1>3, <1>4, MarkFile

\* A phase marked while nothing on the node, or nothing but for the better,
\* changes.
LEMMA MarkNode ==
    ASSUME CycleInv, NodeInv, NEW phase \in Phases, Mark(mem, phase), pc \in Late,
           phase # "converged",
           UNCHANGED <<docker, stale>>, ~aptHeld' => ~aptHeld, certStale' => certStale,
           phase = "packages" => docker = "pin" /\ aptHeld',
           phase = "docker_restarted" => rebootReq \/ ~certStale',
           phase = "rebooted" => ~certStale',
           certStale' => rebootReq' = rebootReq
    PROVE  NodeInv'
<1>1. pc \notin Early
  BY DEF Late, Early
<1>2. CASE file' = file /\ pc' = "rescue"
  BY <1>2 DEF NodeInv, AsideInv, PackagesInv, ConvergeInv, HasWindow, Mid, Exists
<1>3. CASE /\ pc' \notin Mid \cup Early
           /\ file'.phases = file.phases \cup {phase} /\ file'.playbook = file.playbook
           /\ file'.convergeStarted = file.convergeStarted
           /\ file'.stop = file.stop /\ file'.restart = file.restart
  <2>1. AsideInv'
    BY <1>3 DEF AsideInv, Early
  <2>2. PackagesInv'
    BY <1>3 DEF NodeInv, PackagesInv, HasWindow, Exists
  <2>3. ConvergeInv'
    BY <1>3 DEF NodeInv, ConvergeInv, Exists, Mid
  <2> QED  BY <2>1, <2>2, <2>3 DEF NodeInv
<1> QED  BY <1>1, <1>2, <1>3, MarkKeeps

\* A step that neither moves the cycle on nor changes a file on the node.
LEMMA GotoNode ==
    ASSUME NodeInv, UNCHANGED <<file, docker, stale, rebootReq>>,
           ~aptHeld' => ~aptHeld, certStale' => certStale,
           \/ pc' \notin Mid \cup {"aside"}
           \/ pc' = pc /\ pend' = pend
           \/ pc \in Mid \ {"converge", "flush"} /\ pc' \in Mid \ {"converge", "flush"}
    PROVE  NodeInv'
<1>1. AsideInv'
  BY DEF NodeInv, AsideInv, Mid, Exists
<1>2. PackagesInv'
  BY DEF NodeInv, PackagesInv, HasWindow, Exists
<1>3. ConvergeInv'
  BY DEF NodeInv, ConvergeInv, Exists, Mid
<1> QED  BY <1>1, <1>2, <1>3 DEF NodeInv

\* Every step a run takes keeps the node's packages and files accounted for.
LEMMA NodeRunStep == CycleInv /\ PinsInv /\ NodeInv /\ RunStep => NodeInv'
<1> SUFFICES ASSUME CycleInv, PinsInv, NodeInv, RunStep PROVE NodeInv'
  OBVIOUS
<1> USE DEF pkgVars, ctlVars
<1>0. mem \in State /\ file \in State /\ pb \in Playbooks
  BY DEF CycleInv, TypeOK
<1>1. ASSUME pc \notin Early
      PROVE  /\ mem \in State /\ mem = file /\ mem.playbook = pb
             /\ Ordered(mem) /\ AtStep(pc, mem) /\ Exists(mem)
             /\ Window(mem) <=> HasWindow(mem)
  BY <1>1, MidCopy DEF CycleInv
<1>2. CASE Download \/ Hold \/ StopCheck \/ PackagesCheck \/ Services \/ Off
  <2>1. UNCHANGED <<file, docker, stale, rebootReq, aptHeld, certStale>>
    BY <1>2 DEF Download, Hold, StopCheck, PackagesCheck, Services, Off, HoldCheck
  <2>2. NextStep(mem) \notin Mid \cup {"aside"}
    BY DEF NextStep, Mid
  <2>3. pc' \notin Mid \cup {"aside"}
    BY <1>2, <2>2 DEF Download, Hold, StopCheck, PackagesCheck, Services, Off, HoldCheck, Goto, Mid
  <2> QED  BY <2>1, <2>3, GotoNode
<1>3. CASE On
  <2>1. PICK m : m = [mem EXCEPT !.playbook = pb]
    OBVIOUS
  <2>2. mem = NoState /\ file = NoState
    BY <1>3 DEF On, CycleInv, HeldInv, CopyInv
  <2>3. m \in State /\ m.phases = {}
    BY <1>0, <2>1, <2>2 DEF State, NoState
  <2>4. UNCHANGED <<docker, stale, rebootReq, aptHeld, certStale>> /\ Mark(m, "held")
    BY <1>3, <2>1 DEF On
  <2>5. stale = {} /\ ~certStale /\ aptHeld
    BY <2>2 DEF NodeInv, PackagesInv, ConvergeInv, Exists, NoState
  <2>6. NextStep(Marked(m, "held")) \notin Mid \cup {"aside"}
    BY DEF NextStep, Mid
  <2>7. pc' \notin Mid \cup {"aside"}
    BY <2>4, <2>6 DEF Mark, Save, Mid
  <2>8. "packages" \notin file'.phases
    BY <2>2, <2>3, <2>4, MarkFile DEF Phases, NoState
  <2> QED  BY <2>4, <2>5, <2>7, <2>8 DEF NodeInv, AsideInv, PackagesInv, ConvergeInv, Mid
<1>4. CASE ConvergeStart
  <2>1. /\ pc = "convergeStart" /\ mem' = ConvergeNoted(mem) /\ pend' = LostHandlers(mem)
        /\ (file' = mem' /\ pc' = "converge") \/ (file' = file /\ pc' = "rescue")
        /\ UNCHANGED <<docker, stale, rebootReq, aptHeld, certStale>>
    BY <1>4 DEF ConvergeStart
  <2>2. /\ mem = file /\ mem.playbook = pb /\ AtStep("convergeStart", mem) /\ Exists(mem)
    BY <1>1, <2>1 DEF Early
  <2>3. PICK m : m = ConvergeNoted(mem)
    OBVIOUS
  <2>4. /\ m.phases = mem.phases /\ m.playbook = mem.playbook /\ m.convergeStarted
    BY <1>0, <2>3 DEF ConvergeNoted, State
  <2>5. CASE file' = m /\ pc' = "converge"
    <3>1. stale \cap Rerun \subseteq pend'
      BY <2>1, <2>2 DEF LostHandlers, NodeInv, ConvergeInv
    <3>2. "converged" \notin m.phases /\ m.playbook = "maintain-nodes" /\ Exists(m)
      BY <2>2, <2>4 DEF AtStep, Exists
    <3>3. aptHeld /\ ("packages" \in m.phases => docker = "pin")
      BY <2>2, <2>4, <3>2 DEF NodeInv, PackagesInv
    <3> QED  BY <2>1, <2>4, <2>5, <3>1, <3>2, <3>3
             DEF NodeInv, AsideInv, PackagesInv, ConvergeInv, Mid, Exists
  <2> QED  BY <2>1, <2>3, <2>5, GotoNode DEF Mid
<1>5. CASE Converge
  <2>1. /\ pc = "converge" /\ UNCHANGED <<mem, file, docker, aptHeld, rebootReq>>
        /\ \/ pc' = "flush"
           \/ pc' = "rescue"
    BY <1>5 DEF Converge
  <2>2. /\ mem = file /\ mem.playbook = pb /\ AtStep("converge", mem) /\ Exists(mem)
    BY <1>1, <2>1 DEF Early
  <2>3. Exists(file) /\ file.playbook = "maintain-nodes" /\ file.convergeStarted
        /\ "converged" \notin file.phases
    BY <2>2 DEF AtStep, Mid
  <2>4. pc' = "flush" => stale' \subseteq pend'
    <3>1. stale \subseteq Rerun \cup SelfHeal
      BY DEF CycleInv, TypeOK, Handlers
    <3>2. stale \cap Rerun \subseteq pend
      BY <2>1 DEF NodeInv, ConvergeInv
    <3> QED  BY <1>5, <3>1, <3>2 DEF Converge
  <2>5. AsideInv' /\ PackagesInv'
    BY <2>1 DEF NodeInv, AsideInv, PackagesInv, HasWindow, Exists
  <2>6. ConvergeInv'
    BY <2>1, <2>3, <2>4 DEF ConvergeInv, Mid, Exists
  <2> QED  BY <2>5, <2>6 DEF NodeInv
<1>6. CASE Flush
  <2>1. /\ pc = "flush" /\ pc' = "agentWait" /\ UNCHANGED <<file, docker, aptHeld, rebootReq, certStale>>
        /\ stale' = stale \ pend
    BY <1>6 DEF Flush
  <2>2. stale' = {}
    BY <2>1 DEF NodeInv, ConvergeInv
  <2>3. AsideInv' /\ PackagesInv'
    BY <2>1 DEF NodeInv, AsideInv, PackagesInv, HasWindow, Exists
  <2>4. ConvergeInv'
    BY <2>1, <2>2 DEF NodeInv, ConvergeInv, Mid, Exists
  <2> QED  BY <2>3, <2>4 DEF NodeInv
<1>7. CASE AgentWait \/ PreHold("preHoldLive", "osUpgradeLive") \/ OsUpgrade("osUpgradeLive", "decide")
  <2>1. /\ pc \in Mid \ {"converge", "flush"}
        /\ pc' \in (Mid \ {"converge", "flush"}) \cup {"rescue"}
    BY <1>7 DEF AgentWait, HoldCheck, PreHold, OsUpgrade, Goto, Mid
  <2>2. UNCHANGED <<file, docker, stale, certStale>> /\ (~aptHeld' => ~aptHeld)
    BY <1>7 DEF AgentWait, HoldCheck, PreHold, OsUpgrade, PinsInv
  <2>3. stale = {} /\ "converged" \notin file.phases
    BY <1>1, <2>1 DEF NodeInv, ConvergeInv, AtStep, Mid, Early
  <2>4. AsideInv' /\ PackagesInv'
    BY <2>1, <2>2 DEF NodeInv, AsideInv, PackagesInv, HasWindow, Exists, Mid
  <2>5. ConvergeInv'
    BY <2>1, <2>2, <2>3 DEF NodeInv, ConvergeInv, Mid, Exists
  <2> QED  BY <2>4, <2>5 DEF NodeInv
<1>8. CASE Decide
  <2>1. pc = "decide" /\ UNCHANGED <<docker, stale, rebootReq, aptHeld, certStale>>
    BY <1>8 DEF Decide
  <2>2. /\ mem = file /\ mem.playbook = pb /\ AtStep("decide", mem) /\ Ordered(mem) /\ Exists(mem)
    BY <1>1, <2>1 DEF Early
  <2>3. /\ pb = "maintain-nodes" /\ mem.convergeStarted /\ mem.phases \subseteq {"held"}
        /\ stale = {} /\ "converged" \notin mem.phases
    BY <2>1, <2>2 DEF Ordered, AtStep, Mid, NodeInv, ConvergeInv
  <2>4. ASSUME NEW force \in BOOLEAN, Mark(Decision(mem, force), "converged")
        PROVE  NodeInv'
    <3>1. PICK m : m = Decision(mem, force)
      OBVIOUS
    <3>2. /\ m \in State /\ m.playbook = mem.playbook /\ m.phases = mem.phases
          /\ m.convergeStarted = mem.convergeStarted
          /\ m.restart = certStale /\ (certStale => m.stop)
      BY <1>0, <3>1 DEF Decision, State, CycleInv, TypeOK
    <3>3. Mark(m, "converged") /\ "converged" \in Phases
      BY <2>4, <3>1 DEF Phases
    <3>4. \/ file' = file /\ pc' = "rescue"
          \/ /\ file'.phases = m.phases \cup {"converged"} /\ file'.playbook = m.playbook
             /\ file'.convergeStarted = m.convergeStarted
             /\ file'.stop = m.stop /\ file'.restart = m.restart
      BY <3>2, <3>3, MarkFile
    <3>5. pc' \notin Mid \cup {"aside"}
      <4>1. NextStep(Marked(m, "converged")) \notin Mid \cup {"aside"}
        BY DEF NextStep, Mid
      <4> QED  BY <3>3, <4>1 DEF Mark, Save, Mid
    <3>6. CASE file' = file
      BY <2>1, <3>5, <3>6, GotoNode
    <3>7. CASE /\ file'.phases = m.phases \cup {"converged"} /\ file'.playbook = m.playbook
               /\ file'.convergeStarted = m.convergeStarted
               /\ file'.stop = m.stop /\ file'.restart = m.restart
      <4>1. aptHeld
        BY <2>2, <2>3 DEF NodeInv, PackagesInv
      <4>2. AsideInv' /\ PackagesInv'
        BY <2>1, <2>3, <3>2, <3>5, <3>7, <4>1 DEF AsideInv, PackagesInv
      <4>3. ConvergeInv'
        BY <2>1, <2>2, <2>3, <3>2, <3>5, <3>7 DEF ConvergeInv, Mid, Exists
      <4> QED  BY <4>2, <4>3 DEF NodeInv
    <3> QED  BY <3>4, <3>6, <3>7
  <2>5. CASE Goto("rescue") /\ UNCHANGED file
    BY <2>1, <2>5, GotoNode DEF Goto, Mid
  <2> QED  BY <1>8, <2>4, <2>5 DEF Decide
<1>9. CASE Record
  <2>1. PICK m : m = [mem EXCEPT !.recorded = Selected]
    OBVIOUS
  <2>2. /\ m \in State /\ m.playbook = mem.playbook /\ m.phases = mem.phases
        /\ m.convergeStarted = mem.convergeStarted
        /\ m.stop = mem.stop /\ m.restart = mem.restart
    BY <1>0, <2>1 DEF Selected, CycleInv, TypeOK, State, Containers
  <2>3. pc = "record" /\ mem = file /\ UNCHANGED <<docker, stale, rebootReq, aptHeld, certStale>>
    BY <1>1, <1>9 DEF Record, Early
  <2>4. Mark(m, "recorded") /\ "recorded" \in Phases
    BY <1>9, <2>1 DEF Record, Phases
  <2>5. \/ file' = file /\ pc' = "rescue"
        \/ /\ file'.phases = m.phases \cup {"recorded"} /\ file'.playbook = m.playbook
           /\ file'.convergeStarted = m.convergeStarted
           /\ file'.stop = m.stop /\ file'.restart = m.restart
    BY <2>2, <2>4, MarkFile
  <2>6. pc' \notin Mid \cup {"aside"}
    <3>1. NextStep(Marked(m, "recorded")) \notin Mid \cup {"aside"}
      BY DEF NextStep, Mid
    <3> QED  BY <2>4, <3>1 DEF Mark, Save, Mid
  <2>7. CASE file' = file
    BY <2>3, <2>6, <2>7, GotoNode
  <2>8. CASE /\ file'.phases = m.phases \cup {"recorded"} /\ file'.playbook = m.playbook
             /\ file'.convergeStarted = m.convergeStarted
             /\ file'.stop = m.stop /\ file'.restart = m.restart
    <3>1. AsideInv' /\ PackagesInv'
      BY <2>2, <2>3, <2>6, <2>8 DEF NodeInv, AsideInv, PackagesInv, HasWindow, Exists
    <3>2. ConvergeInv'
      BY <2>2, <2>3, <2>6, <2>8 DEF NodeInv, ConvergeInv, Mid, Exists
    <3> QED  BY <3>1, <3>2 DEF NodeInv
  <2> QED  BY <2>5, <2>7, <2>8
<1>10. ASSUME pc \in Late, Goto("rescue"),
              UNCHANGED <<file, docker, stale, rebootReq, certStale>>, (~aptHeld' => ~aptHeld)
       PROVE  NodeInv'
  BY <1>10, GotoNode DEF Goto, Mid
<1>11. CASE Stop
  BY <1>10, <1>11, MarkNode DEF Stop, Phases, Late
<1>12. CASE PreHold("preHold", "osUpgrade") \/ OsUpgrade("osUpgrade", "unhold")
  <2>1. /\ pc' \notin Mid \cup {"aside"} /\ UNCHANGED <<file, docker, stale, certStale>>
        /\ (~aptHeld' => ~aptHeld)
    BY <1>12 DEF PreHold, OsUpgrade, PinsInv, Goto, Mid
  <2>4. rebootReq => rebootReq'
    BY <1>12, Zenon DEF PreHold, OsUpgrade
  <2>2. AsideInv' /\ PackagesInv'
    BY <2>1 DEF NodeInv, AsideInv, PackagesInv, HasWindow, Exists
  <2>3. ConvergeInv'
    BY <2>1, <2>4 DEF NodeInv, ConvergeInv, Mid, Exists
  <2> QED  BY <2>2, <2>3 DEF NodeInv
<1>13. CASE Unhold
  <2>1. /\ pc = "unhold" /\ pc' = "install"
        /\ UNCHANGED <<file, docker, stale, certStale, rebootReq>>
    BY <1>13 DEF Unhold, Goto
  <2>2. /\ mem = file /\ Exists(mem) /\ AtStep("unhold", mem) /\ mem.playbook = pb
        /\ Window(mem) <=> HasWindow(mem)
    BY <1>1, <2>1 DEF Early
  <2>3. pb = "maintain-nodes" => "converged" \in mem.phases
    BY <2>1 DEF CycleInv, HeldInv, OrderInv, Late
  <2>4. "packages" \notin mem.phases /\ HasWindow(mem)
    BY <2>2 DEF AtStep, Packaging, Late, Releasing
  <2>5. AsideInv' /\ PackagesInv'
    BY <2>1, <2>2, <2>3, <2>4 DEF AsideInv, PackagesInv, HasWindow, Exists
  <2>6. ConvergeInv'
    BY <2>1 DEF NodeInv, ConvergeInv, Mid, Exists
  <2> QED  BY <2>5, <2>6 DEF NodeInv
<1>14. CASE Install
  <2>1. /\ pc = "install" /\ pc' \in {"rehold", "reholdFailed"} /\ UNCHANGED <<file, stale, aptHeld>>
    BY <1>14 DEF Install, Goto
  <2>2. \/ certStale' = FALSE
        \/ UNCHANGED <<certStale, rebootReq>>
    BY <1>14 DEF Install, DockerdRestarts
  <2>3. "packages" \notin file.phases
    BY <1>1, <2>1 DEF AtStep, Packaging, Early
  <2>4. AsideInv' /\ PackagesInv'
    BY <2>1, <2>3 DEF NodeInv, AsideInv, PackagesInv, HasWindow, Exists
  <2>5. ConvergeInv'
    BY <2>1, <2>2 DEF NodeInv, ConvergeInv, Mid, Exists
  <2> QED  BY <2>4, <2>5 DEF NodeInv
<1>15. CASE Rehold
  <2>1. pc \in Late /\ aptHeld' = TRUE /\ UNCHANGED <<docker, stale, rebootReq, certStale>>
    BY <1>15 DEF Rehold, Late
  <2> QED  BY <1>10, <1>15, <2>1, MarkNode DEF Rehold, Phases
<1>16. CASE RestartCheck
  <2>1. CASE HoldCheck("restartCheck", "restart")
    BY <2>1, GotoNode DEF HoldCheck, Goto, Mid
  <2> QED  BY <1>16, <2>1, MarkNode DEF RestartCheck, Phases, Late
<1>17. CASE Restart
  <2>1. pc \in Late /\ ~certStale' /\ certStale' = FALSE
    BY <1>17 DEF Restart, DockerdRestarts, Late
  <2> QED  BY <1>17, <2>1, MarkNode DEF Restart, Phases
<1>18. CASE RebootCheck
  <2>1. CASE HoldCheck("rebootCheck", "reboot")
    BY <2>1, GotoNode DEF HoldCheck, Goto, Mid
  <2>3. CASE ~rebootReq /\ pc = "rebootCheck" /\ Mark(mem, "rebooted")
    <3>1. mem = file /\ AtStep("rebootCheck", mem) /\ mem.playbook = pb
      BY <1>1, <2>3 DEF Early
    <3>2. pb = "maintain-nodes" => "converged" \in mem.phases
      BY <2>3 DEF CycleInv, HeldInv, OrderInv, Late
    <3>3. ~certStale
      BY <2>3, <3>1, <3>2 DEF NodeInv, ConvergeInv, AtStep
    <3> QED  BY <1>18, <2>3, <3>3, MarkNode DEF RebootCheck, HoldCheck, Phases, Late
  <2> QED  BY <1>18, <2>1, <2>3 DEF RebootCheck
<1>19. CASE Reboot
  <2>1. pc \in Late /\ ~certStale' /\ certStale' = FALSE
    BY <1>19 DEF Reboot, DockerdRestarts, Late
  <2> QED  BY <1>19, <2>1, MarkNode DEF Reboot, Phases
<1>20. CASE Accept
  <2>1. mem = file /\ UNCHANGED <<docker, stale, rebootReq, aptHeld, certStale>>
        /\ pc' \in {"start", "rescue"}
    BY <1>1, <1>20 DEF Accept, Save, Goto, Early
  <2>2. /\ file'.phases = file.phases /\ file'.playbook = file.playbook
        /\ file'.convergeStarted = file.convergeStarted
        /\ file'.stop = file.stop /\ file'.restart = file.restart
    BY <1>0, <1>20, <2>1 DEF Accept, Save, Goto, State
  <2> QED  BY <2>1, <2>2 DEF NodeInv, AsideInv, PackagesInv, ConvergeInv, HasWindow, Exists, Mid
<1>21. CASE Start
  BY <1>10, <1>21, MarkNode DEF Start, Phases, Late
<1>22. CASE Release
  <2>1. mem = file /\ UNCHANGED <<docker, rebootReq, aptHeld, certStale>>
        /\ pc' \in {"off", "rescue"} /\ stale' \subseteq stale
    BY <1>1, <1>22 DEF Release, Early
  <2>2. /\ file'.phases = file.phases /\ file'.playbook = file.playbook
        /\ file'.convergeStarted = file.convergeStarted
        /\ file'.stop = file.stop /\ file'.restart = file.restart
    BY <1>0, <1>22, <2>1 DEF Release, ReleaseNoted, State
  <2>3. AsideInv' /\ PackagesInv'
    BY <2>1, <2>2 DEF NodeInv, AsideInv, PackagesInv, HasWindow, Exists
  <2>4. ConvergeInv'
    BY <2>1, <2>2 DEF NodeInv, ConvergeInv, Exists, Mid
  <2> QED  BY <2>3, <2>4 DEF NodeInv
<1>23. CASE Confirm
  BY <1>10, <1>23, MarkNode DEF Confirm, Phases, Late
<1>24. CASE Archive \/ Aside
  <2>1. /\ pc' = "idle" /\ file' = NoState
        /\ UNCHANGED <<docker, stale, rebootReq, aptHeld, certStale>>
    BY <1>24 DEF Archive, Aside, EndRun
  <2>2. stale = {} /\ ~certStale /\ aptHeld
    <3>1. CASE pc = "archive"
      <4>1. /\ mem = file /\ AtStep("archive", mem) /\ mem.playbook = pb /\ Ordered(mem)
            /\ Window(mem) <=> HasWindow(mem)
        BY <1>1, <3>1 DEF Early
      <4>2. pb = "maintain-nodes" => "converged" \in mem.phases
        BY <3>1 DEF CycleInv, HeldInv, OrderInv, Late
      <4>3. HasWindow(mem) => "packages" \in mem.phases /\ "rebooted" \in mem.phases
        BY <4>1 DEF AtStep, Releasing, Ordered
      <4> QED  BY <4>1, <4>2, <4>3 DEF NodeInv, PackagesInv, ConvergeInv, HasWindow
    <3>2. CASE pc = "aside"
      BY <3>2 DEF NodeInv, AsideInv, PackagesInv, ConvergeInv, CycleInv, PhaseInv, Ordered
    <3> QED  BY <1>24, <3>1, <3>2 DEF Archive, Aside
  <2>3. "packages" \notin file'.phases
    BY <2>1 DEF NoState
  <2> QED  BY <2>1, <2>2, <2>3 DEF NodeInv, AsideInv, PackagesInv, ConvergeInv, Mid
<1>25. CASE Rescue
  <2>1. UNCHANGED <<file, docker, stale, rebootReq, aptHeld, certStale>> /\ pc = "rescue"
        /\ pc' \in {"idle", "aside"}
    BY <1>25 DEF Rescue, Goto, EndRun
  <2>2. pc' = "aside" => Exists(file) /\ pb = "maintain-nodes" /\ ~mem.convergeStarted
    BY <1>25 DEF Rescue, EndRun
  <2>3. AsideInv'
    BY <2>1, <2>2 DEF AsideInv, CycleInv, HeldInv, CopyInv, Exists
  <2>4. PackagesInv' /\ ConvergeInv'
    BY <2>1 DEF NodeInv, PackagesInv, ConvergeInv, HasWindow, Exists, Mid
  <2> QED  BY <2>3, <2>4 DEF NodeInv
<1> QED
  BY <1>2, <1>3, <1>4, <1>5, <1>6, <1>7, <1>8, <1>9, <1>11, <1>12, <1>13, <1>14, <1>15,
     <1>16, <1>17, <1>18, <1>19, <1>20, <1>21, <1>22, <1>23, <1>24, <1>25
  DEF RunStep

\* So does every other step.
LEMMA NodeStep == CycleInv /\ PinsInv /\ NodeInv /\ [Next]_vars => NodeInv'
<1> SUFFICES ASSUME CycleInv, PinsInv, NodeInv, [Next]_vars PROVE NodeInv'
  OBVIOUS
<1> USE DEF pkgVars, ctlVars, runVars
<1>1. ASSUME NEW p \in Playbooks, StartRun(p) PROVE NodeInv'
  BY <1>1, GotoNode DEF StartRun, Mid
<1>2. CASE RunStep
  BY <1>2, NodeRunStep
<1>3. CASE Failure
  BY <1>3, GotoNode DEF Failure, OnFails, TaskFails, RunDies, Goto, EndRun, Mid
<1>4. CASE Poll \/ Recover \/ ExternalOff \/ ExternalOn \/ ControllerHold \/ UNCHANGED vars
  BY <1>4, GotoNode DEF Poll, Recover, ExternalOff, ExternalOn, ControllerHold, vars
<1>5. CASE HostReboots
  <2>1. UNCHANGED <<file, docker, aptHeld, stale>> /\ ~certStale' /\ pc' = "idle"
    BY <1>5 DEF HostReboots, DockerdRestarts, EndRun
  <2>2. AsideInv' /\ PackagesInv'
    BY <2>1 DEF NodeInv, AsideInv, PackagesInv, HasWindow, Exists
  <2>3. ConvergeInv'
    BY <2>1 DEF NodeInv, ConvergeInv, Exists, Mid
  <2> QED  BY <2>2, <2>3 DEF NodeInv
<1> QED  BY <1>1, <1>2, <1>3, <1>4, <1>5 DEF Next, Environment

\* They hold before the first run, and so in every state.
LEMMA NodeHolds == Spec => [](PinsInv /\ NodeInv)
<1>1. Init => PinsInv /\ NodeInv
  BY DEF Init, PinsInv, NeverPastPins, NodeInv, AsideInv, PackagesInv, ConvergeInv, NoState, Mid
<1>2. CycleInv /\ PinsInv /\ NodeInv /\ [Next]_vars => (PinsInv /\ NodeInv)'
  BY PinsStep, NodeStep DEF CycleInv
<1> QED  BY <1>1, <1>2, CycleHolds, PTL DEF Spec

\* A node is released with docker's packages held, at their pins if anything
\* was stopped, and with everything a converge changed in effect, whichever of
\* its runs died before their handlers ran (maintain_converge_phase.yml 46-63).
THEOREM ReleasedIsConverged == Spec => []ReleasedNodeIsConverged
<1>1. CycleInv /\ NodeInv => ReleasedNodeIsConverged
  <2> SUFFICES ASSUME CycleInv, NodeInv, pc = "off"
               PROVE  /\ aptHeld
                      /\ pb = "upgrade-docker" \/ mem.stop => docker = "pin"
                      /\ pb = "maintain-nodes" => stale = {} /\ ~certStale
    BY DEF ReleasedNodeIsConverged
  <2>1. /\ mem = file /\ AtStep("off", mem) /\ mem.playbook = pb /\ Ordered(mem)
        /\ Window(mem) <=> HasWindow(mem)
    BY MidCopy DEF CycleInv, Early
  <2>2. pb = "maintain-nodes" => "converged" \in mem.phases
    BY DEF CycleInv, HeldInv, OrderInv, Late
  <2>3. HasWindow(mem) => "packages" \in mem.phases /\ "rebooted" \in mem.phases
    BY <2>1 DEF AtStep, Releasing, Ordered
  <2> QED  BY <2>1, <2>2, <2>3 DEF NodeInv, PackagesInv, ConvergeInv, HasWindow
<1> QED  BY <1>1, CycleHolds, NodeHolds, PTL

-----------------------------------------------------------------------------
(* The tenants                                                             *)

\* On a node nobody else acts on: what ran when the hold was placed runs until
\* it is recorded, is all that is recorded, is all that runs while the node is
\* held, and runs again, unless it is accepted as down, when it was started.
TenantInv ==
    Undisturbed =>
      /\ "recorded" \notin file.phases => before \subseteq up
      /\ "recorded" \in file.phases => before \cap Tenants \subseteq file.recorded
      /\ file.recorded \subseteq before
      /\ "recorded" \in file.phases /\ ~file.releasing => up \cap Tenants \subseteq file.recorded
      /\ "stopped" \in file.phases /\ "rebooted" \notin file.phases => up \cap Tenants = {}
      /\ "started" \in file.phases => file.recorded \ file.accept \subseteq up
      /\ hold = "run" /\ Exists(file) => up \subseteq before \cup System

\* A step that touches neither state.json nor a container.
LEMMA GotoTenants ==
    ASSUME TenantInv, UNCHANGED <<file, up, before, ext>>,
           hold' = "run" /\ Exists(file) => hold = "run"
    PROVE  TenantInv'
  BY DEF TenantInv, Undisturbed, Exists

\* A step that starts nothing and stops nothing, and saves what it has done.
LEMMA SaveTenants ==
    ASSUME TenantInv, UNCHANGED <<up, before, hold, ext>>, Exists(file),
           file'.recorded = file.recorded, file.accept \subseteq file'.accept,
           file.releasing => file'.releasing, file.phases \subseteq file'.phases,
           file'.phases \subseteq file.phases \cup
               {"converged", "packages", "docker_restarted", "rebooted", "released"}
    PROVE  TenantInv'
  BY DEF TenantInv, Undisturbed, Exists

\* An unfinished cycle that has recorded its tenants, on a node nobody else
\* acts on, is held by the run, and the controller stands back.
LEMMA WindowIsHeld ==
    ASSUME CycleInv, Undisturbed, Exists(file), HasWindow(file), ~file.releasing,
           file.playbook = "maintain-nodes" => "converged" \in file.phases
    PROVE  hold = "run" /\ seen
<1>1. file.playbook \in Playbooks
  BY DEF CycleInv, TypeOK, State
<1>2. file.playbook = "upgrade-docker" \/ file.convergeStarted
  BY <1>1 DEF Playbooks, CycleInv, PhaseInv, Ordered
<1>3. Committed
  BY <1>2 DEF Committed
<1> QED  BY <1>3 DEF CycleInv, HeldInv, HeldWhileUnfinished

\* So is one that has recorded them and not started them again.
LEMMA RecordedIsHeld ==
    ASSUME CycleInv, Undisturbed, "recorded" \in file.phases,
           "started" \notin file.phases \/ ~file.releasing
    PROVE  hold = "run" /\ seen /\ ~file.releasing
<1>1. /\ Exists(file) /\ HasWindow(file) /\ ~file.releasing
      /\ file.playbook = "maintain-nodes" => "converged" \in file.phases
  BY DEF Exists, CycleInv, PhaseInv, Ordered
<1> QED  BY <1>1, WindowIsHeld

\* Every step a run takes keeps the account of the tenants.
LEMMA TenantRunStep == CycleInv /\ PinsInv /\ TenantInv /\ RunStep => TenantInv'
<1> SUFFICES ASSUME CycleInv, PinsInv, TenantInv, RunStep PROVE TenantInv'
  OBVIOUS
<1> USE ContainersAssumption DEF pkgVars, ctlVars
<1>0. mem \in State /\ file \in State /\ pb \in Playbooks
  BY DEF CycleInv, TypeOK
<1>1. ASSUME pc \notin Early
      PROVE  /\ mem \in State /\ mem = file /\ mem.playbook = pb
             /\ Ordered(mem) /\ AtStep(pc, mem) /\ Exists(mem)
             /\ Window(mem) <=> HasWindow(mem)
  BY <1>1, MidCopy DEF CycleInv
<1>2. CASE \/ Download \/ Hold \/ Converge \/ Flush \/ AgentWait \/ StopCheck \/ PackagesCheck
           \/ Unhold \/ Services \/ Off \/ Rescue
           \/ PreHold("preHoldLive", "osUpgradeLive") \/ PreHold("preHold", "osUpgrade")
  <2>1. UNCHANGED <<file, up, before, ext>>
    BY <1>2 DEF Download, Hold, Converge, Flush, AgentWait, StopCheck, PackagesCheck, Unhold,
                Services, Off, Rescue, HoldCheck, PreHold
  <2>2. hold' \in {hold, "none"}
    BY <1>2 DEF Download, Hold, Converge, Flush, AgentWait, StopCheck, PackagesCheck, Unhold,
                Services, Off, Rescue, HoldCheck, PreHold
  <2> QED  BY <2>1, <2>2, GotoTenants
<1>3. CASE OsUpgrade("osUpgradeLive", "decide") \/ OsUpgrade("osUpgrade", "unhold")
  BY <1>3, GotoTenants DEF OsUpgrade, PinsInv
<1>4. CASE On
  <2>1. PICK m : m = [mem EXCEPT !.playbook = pb]
    OBVIOUS
  <2>2. mem = NoState /\ file = NoState
    BY <1>4 DEF On, CycleInv, HeldInv, CopyInv
  <2>3. m \in State /\ m.phases = {} /\ m.recorded = {}
    BY <1>0, <2>1, <2>2 DEF State, NoState
  <2>4. UNCHANGED <<up, ext>> /\ before' = up /\ Mark(m, "held")
    BY <1>4, <2>1 DEF On
  <2>5. file'.phases \subseteq {"held"} /\ file'.recorded = {}
    BY <2>2, <2>3, <2>4, MarkFile DEF Phases, NoState
  <2> QED  BY <2>4, <2>5 DEF TenantInv
<1>5. CASE ConvergeStart
  <2>1. /\ UNCHANGED <<up, before, hold, ext>> /\ pc = "convergeStart"
        /\ file' \in {file, ConvergeNoted(mem)}
    BY <1>5 DEF ConvergeStart
  <2>2. mem = file /\ Exists(file)
    BY <1>1, <2>1 DEF Early
  <2>3. /\ file'.recorded = file.recorded /\ file.accept = file'.accept
        /\ file.releasing = file'.releasing /\ file.phases = file'.phases
    BY <1>0, <2>1, <2>2 DEF ConvergeNoted, State
  <2> QED  BY <2>1, <2>2, <2>3, SaveTenants
<1>6. CASE Decide
  <2>1. UNCHANGED <<up, before, hold, ext>> /\ mem = file /\ Exists(file)
    BY <1>1, <1>6 DEF Decide, Early
  <2>2. ASSUME NEW force \in BOOLEAN, Mark(Decision(mem, force), "converged")
        PROVE  TenantInv'
    <3>1. PICK m : m = Decision(mem, force)
      OBVIOUS
    <3>2. /\ m \in State /\ m.phases = mem.phases /\ m.releasing = mem.releasing
          /\ m.recorded = mem.recorded /\ m.accept = mem.accept
      BY <1>0, <3>1 DEF Decision, State, CycleInv, TypeOK
    <3>3. /\ file'.recorded = file.recorded /\ file.accept = file'.accept
          /\ file.releasing = file'.releasing /\ file.phases \subseteq file'.phases
          /\ file'.phases \subseteq file.phases \cup {"converged"}
      BY <2>1, <2>2, <3>1, <3>2, MarkFile DEF Phases
    <3> QED  BY <2>1, <3>3, SaveTenants
  <2>3. CASE UNCHANGED file
    BY <2>1, <2>3, GotoTenants
  <2> QED  BY <1>6, <2>2, <2>3 DEF Decide
<1>7. CASE Record
  <2>1. PICK m : m = [mem EXCEPT !.recorded = Selected]
    OBVIOUS
  <2>2. /\ m \in State /\ m.phases = mem.phases /\ m.releasing = mem.releasing
        /\ m.recorded = Selected
    BY <1>0, <2>1 DEF Selected, CycleInv, TypeOK, State, Containers
  <2>3. /\ pc = "record" /\ mem = file /\ AtStep("record", mem) /\ Ordered(mem) /\ Exists(mem)
        /\ Window(mem) <=> HasWindow(mem)
        /\ UNCHANGED <<up, before, hold, ext>> /\ Mark(m, "recorded")
    BY <1>1, <1>7, <2>1 DEF Record, Early
  <2>4. CASE file' = file
    BY <2>3, <2>4, GotoTenants
  <2>5. CASE /\ file'.phases = mem.phases \cup {"recorded"} /\ file'.recorded = Selected
             /\ Undisturbed
    <3>1. /\ HasWindow(file) /\ ~file.releasing
          /\ "stopped" \notin file.phases /\ "started" \notin file.phases
      BY <2>3 DEF AtStep, Late, Releasing, Ordered
    <3>2. file.playbook = "maintain-nodes" => "converged" \in file.phases
      BY <1>1, <2>3 DEF CycleInv, HeldInv, OrderInv, Late, Early
    <3>3. hold = "run"
      BY <2>3, <2>5, <3>1, <3>2, WindowIsHeld
    <3>4. before \subseteq up /\ up \subseteq before \cup System
      BY <2>3, <2>5, <3>3 DEF TenantInv, AtStep
    <3>5. /\ "recorded" \in file'.phases /\ "stopped" \notin file'.phases
          /\ "started" \notin file'.phases
      BY <2>3, <2>5, <3>1
    <3>6. Selected = up \ System
      BY DEF Selected
    <3> QED  BY <2>3, <2>5, <3>4, <3>5, <3>6 DEF TenantInv
  <2>6. CASE ~Undisturbed
    BY <2>3, <2>6 DEF TenantInv, Undisturbed
  <2> QED  BY <2>2, <2>3, <2>4, <2>5, <2>6, MarkFile DEF Phases
<1>8. ASSUME NEW phase \in {"packages", "docker_restarted", "rebooted", "released"},
             Mark(mem, phase), pc \notin Early, UNCHANGED <<up, before, hold, ext>>
      PROVE  TenantInv'
  <2>1. /\ file'.recorded = file.recorded /\ file.accept = file'.accept
        /\ file.releasing = file'.releasing /\ file.phases \subseteq file'.phases
        /\ file'.phases \subseteq file.phases \cup {phase}
    BY <1>8, MarkKeeps DEF Phases
  <2> QED  BY <1>1, <1>8, <2>1, SaveTenants
<1>9. CASE Stop
  <2>1. /\ pc = "stop" /\ mem = file /\ AtStep("stop", mem) /\ Ordered(mem)
        /\ UNCHANGED <<before, hold, ext>>
    BY <1>1, <1>9 DEF Stop, Early
  <2>2. PICK left \in SUBSET (up \cap mem.recorded) :
           /\ up' = (up \ mem.recorded) \cup left
           /\ IF StopGate(up')
                THEN Mark(mem, "stopped")
                ELSE Fault /\ Goto("rescue") /\ UNCHANGED file
    BY <1>9 DEF Stop
  <2>3. /\ "recorded" \in file.phases /\ "started" \notin file.phases /\ up' \subseteq up
    BY <2>1, <2>2 DEF AtStep, Ordered
  <2>4. CASE file' = file
    BY <2>1, <2>3, <2>4 DEF TenantInv, Undisturbed, AtStep
  <2>5. CASE /\ StopGate(up') /\ file'.phases = file.phases \cup {"stopped"}
             /\ file'.recorded = file.recorded /\ file'.accept = file.accept
             /\ file'.releasing = file.releasing
    <3>1. Undisturbed => ~file.releasing
      BY <2>3, RecordedIsHeld
    <3>2. Undisturbed => up' \cap Tenants = {}
      BY <2>1, <2>3, <2>5, <3>1 DEF TenantInv, StopGate
    <3> QED  BY <2>1, <2>3, <2>5, <3>1, <3>2 DEF TenantInv, Undisturbed, Exists
  <2>6. StopGate(up') => \/ file' = file
                         \/ /\ file'.phases = file.phases \cup {"stopped"}
                            /\ file'.recorded = file.recorded /\ file'.accept = file.accept
                            /\ file'.releasing = file.releasing
    BY <2>1, <2>2, MarkKeeps DEF Phases, Early
  <2> QED  BY <2>2, <2>4, <2>5, <2>6
<1>10. ASSUME pc \notin Early, up' \in {up, System},
              "recorded" \in file.phases, "started" \notin file.phases,
              UNCHANGED <<before, hold, ext>>,
              \/ UNCHANGED file
              \/ \E phase \in {"docker_restarted", "rebooted"} : Mark(mem, phase)
       PROVE  TenantInv'
  <2>1. /\ file'.recorded = file.recorded /\ file.accept = file'.accept
        /\ file.releasing = file'.releasing /\ file.phases \subseteq file'.phases
        /\ file'.phases \subseteq file.phases \cup {"docker_restarted", "rebooted"}
    <3>1. CASE UNCHANGED file
      BY <3>1
    <3>2. ASSUME NEW phase \in {"docker_restarted", "rebooted"}, Mark(mem, phase)
          PROVE  /\ file'.recorded = file.recorded /\ file.accept = file'.accept
                 /\ file.releasing = file'.releasing /\ file.phases \subseteq file'.phases
                 /\ file'.phases \subseteq file.phases \cup {"docker_restarted", "rebooted"}
      BY <1>10, <3>2, MarkKeeps DEF Phases
    <3> QED  BY <1>10, <3>1, <3>2
  <2> QED  BY <1>10, <2>1 DEF TenantInv, Undisturbed, Exists
<1>11. CASE Install
  <2>1. /\ pc = "install" /\ up' \in {up, System} /\ UNCHANGED <<file, before, hold, ext>>
    BY <1>11 DEF Install, DockerdRestarts
  <2>2. "recorded" \in file.phases /\ "started" \notin file.phases
    BY <1>1, <2>1 DEF AtStep, Ordered, Packaging, Early
  <2> QED  BY <1>10, <2>1, <2>2 DEF Early
<1>12. CASE Restart \/ Reboot
  <2>1. /\ pc \in {"restart", "reboot"} /\ up' = System /\ UNCHANGED <<before, hold, ext>>
        /\ Mark(mem, "docker_restarted") \/ Mark(mem, "rebooted")
    BY <1>12 DEF Restart, Reboot, DockerdRestarts
  <2>2. "recorded" \in file.phases /\ "started" \notin file.phases
    BY <1>1, <2>1 DEF AtStep, Ordered, Early
  <2> QED  BY <1>10, <2>1, <2>2 DEF Early
<1>13. CASE Rehold
  <2>1. CASE UNCHANGED file
    BY <1>13, <2>1, GotoTenants DEF Rehold
  <2> QED  BY <1>8, <1>13, <2>1 DEF Rehold, Early
<1>14. CASE RestartCheck \/ RebootCheck
  <2>1. CASE UNCHANGED <<file, hold, up, before, ext>>
    BY <2>1, GotoTenants
  <2> QED  BY <1>8, <1>14, <2>1 DEF RestartCheck, RebootCheck, HoldCheck, Early
<1>15. CASE Confirm
  <2>1. CASE UNCHANGED file
    BY <1>15, <2>1, GotoTenants DEF Confirm
  <2> QED  BY <1>8, <1>15, <2>1 DEF Confirm, Early
<1>16. CASE Accept
  <2>1. /\ mem = file /\ Exists(file) /\ UNCHANGED <<up, before, hold, ext>>
    BY <1>1, <1>16 DEF Accept, Early
  <2>2. /\ file'.recorded = file.recorded /\ file.accept \subseteq file'.accept
        /\ file'.releasing = file.releasing /\ file'.phases = file.phases
    BY <1>0, <1>16, <2>1 DEF Accept, Save, State
  <2> QED  BY <2>1, <2>2, SaveTenants
<1>17. CASE Start
  <2>1. /\ pc = "start" /\ mem = file /\ AtStep("start", mem) /\ Ordered(mem)
        /\ UNCHANGED <<before, hold, ext>>
    BY <1>1, <1>17 DEF Start, Early
  <2>2. PICK started \in SUBSET mem.recorded :
           /\ up' = up \cup started
           /\ IF StartGate(up')
                THEN Mark(mem, "started")
                ELSE Fault /\ Goto("rescue") /\ UNCHANGED file
    BY <1>17 DEF Start, ToStart
  <2>3. /\ "recorded" \in file.phases /\ "rebooted" \in file.phases
        /\ "started" \notin file.phases /\ up \subseteq up' /\ up' \subseteq up \cup file.recorded
    BY <2>1, <2>2 DEF AtStep, Ordered
  <2>4. Undisturbed => up' \subseteq up \cup before
    BY <2>3 DEF TenantInv
  <2>5. CASE file' = file
    BY <2>1, <2>3, <2>4, <2>5 DEF TenantInv, Undisturbed, Exists
  <2>6. CASE /\ StartGate(up') /\ file'.phases = file.phases \cup {"started"}
             /\ file'.recorded = file.recorded /\ file'.accept = file.accept
             /\ file'.releasing = file.releasing
    <3>1. file.recorded \ file.accept \subseteq up'
      BY <2>1, <2>6 DEF StartGate
    <3>2. Exists(file)
      BY <2>3 DEF Exists
    <3> QED  BY <2>1, <2>3, <2>4, <2>6, <3>1, <3>2 DEF TenantInv, Undisturbed, Exists
  <2>7. StartGate(up') => \/ file' = file
                          \/ /\ file'.phases = file.phases \cup {"started"}
                             /\ file'.recorded = file.recorded /\ file'.accept = file.accept
                             /\ file'.releasing = file.releasing
    BY <2>1, <2>2, MarkKeeps DEF Phases, Early
  <2> QED  BY <2>2, <2>5, <2>6, <2>7
<1>18. CASE Release
  <2>1. /\ mem = file /\ Exists(file) /\ UNCHANGED <<up, before, hold, ext>>
    BY <1>1, <1>18 DEF Release, Early
  <2>2. /\ file'.recorded = file.recorded /\ file'.accept = file.accept
        /\ file.releasing => file'.releasing
        /\ file'.phases = file.phases
    BY <1>0, <1>18, <2>1 DEF Release, ReleaseNoted, State
  <2> QED  BY <2>1, <2>2, SaveTenants
<1>19. CASE Archive \/ Aside
  <2>1. file' = NoState /\ before' = {} /\ UNCHANGED <<up, hold, ext>>
    BY <1>19 DEF Archive, Aside
  <2>2. file'.phases = {} /\ file'.recorded = {}
    BY <2>1 DEF NoState
  <2> QED  BY <2>1, <2>2 DEF TenantInv, Exists
<1> QED
  BY <1>2, <1>3, <1>4, <1>5, <1>6, <1>7, <1>9, <1>11, <1>12, <1>13, <1>14, <1>15, <1>16,
     <1>17, <1>18, <1>19
  DEF RunStep

\* So does every other step: the controller starts nothing while it stands back.
LEMMA TenantStep == CycleInv /\ PinsInv /\ TenantInv /\ [Next]_vars => TenantInv'
<1> SUFFICES ASSUME CycleInv, PinsInv, TenantInv, [Next]_vars PROVE TenantInv'
  OBVIOUS
<1> USE DEF pkgVars, ctlVars, runVars
<1>1. ASSUME NEW p \in Playbooks, StartRun(p) PROVE TenantInv'
  BY <1>1, GotoTenants DEF StartRun
<1>2. CASE RunStep
  BY <1>2, TenantRunStep
<1>3. CASE TaskFails \/ RunDies \/ Poll \/ UNCHANGED vars
  <2>1. UNCHANGED <<file, up, before, ext, hold>>
    BY <1>3 DEF TaskFails, RunDies, Poll, vars
  <2> QED  BY <2>1, GotoTenants
<1>4. CASE OnFails
  <2>1. UNCHANGED <<file, up, before, ext>> /\ ~Exists(file)
    BY <1>4 DEF OnFails, CycleInv, HeldInv, CopyInv
  <2> QED  BY <2>1, GotoTenants
<1>5. CASE Recover
  <2>1. ~seen /\ up \subseteq up' /\ UNCHANGED <<file, before, hold, ext>>
    BY <1>5 DEF Recover
  <2>2. Undisturbed => /\ "recorded" \in file.phases => file.releasing /\ "started" \in file.phases
                       /\ ~(hold = "run" /\ Exists(file))
    BY <2>1, RecordedIsHeld DEF CycleInv, HeldInv, HoldInv
  <2>3. /\ "stopped" \in file.phases => "recorded" \in file.phases
        /\ "started" \in file.phases => "rebooted" \in file.phases
    BY DEF CycleInv, PhaseInv, Ordered
  <2> QED  BY <2>1, <2>2, <2>3 DEF TenantInv, Undisturbed, Exists
<1>6. CASE ExternalOff \/ ExternalOn \/ ControllerHold \/ HostReboots
  <2>1. External
    BY <1>6, Zenon DEF ExternalOff, ExternalOn, ControllerHold, HostReboots
  <2>2. ~Undisturbed'
    BY <2>1, BoundsAssumption DEF External, Undisturbed, CycleInv, TypeOK
  <2> QED  BY <2>2 DEF TenantInv
<1> QED  BY <1>1, <1>2, <1>3, <1>4, <1>5, <1>6 DEF Next, Failure, Environment

\* The account holds before the first run, and so in every state.
LEMMA TenantHolds == Spec => []TenantInv
<1>1. Init => TenantInv
  BY DEF Init, TenantInv, NoState, Exists
<1>2. CycleInv /\ PinsInv /\ TenantInv /\ [Next]_vars => TenantInv'
  BY TenantStep
<1> QED  BY <1>1, <1>2, CycleHolds, NodeHolds, PTL DEF Spec

\* On a node nobody else acts on, what the cycle took down is down only while
\* the run's hold keeps the controller away from it (start.yml 4-13).
THEOREM DownIsHeld == Spec => []DownOnlyWhileHeld
<1>1. CycleInv /\ TenantInv => DownOnlyWhileHeld
  <2> SUFFICES ASSUME CycleInv, TenantInv, Undisturbed, Missing # {} PROVE hold = "run" /\ seen
    BY DEF DownOnlyWhileHeld
  <2>1. "recorded" \in file.phases
    BY DEF TenantInv, Missing
  <2>2. "started" \notin file.phases
    BY <2>1 DEF TenantInv, Missing
  <2> QED  BY <2>1, <2>2, RecordedIsHeld
<1> QED  BY <1>1, CycleHolds, TenantHolds, PTL

\* On such a node, when the run is about to clear its hold, what ran before it
\* runs again, less what is accepted as down, and nothing else (R9).
THEOREM RestoreIsExact == Spec => []ExactRestore
<1>1. CycleInv /\ TenantInv => ExactRestore
  <2> SUFFICES ASSUME CycleInv, TenantInv, Undisturbed, pc = "off", hold = "run"
               PROVE  Missing = {} /\ up \subseteq before \cup System
    BY DEF ExactRestore
  <2>1. /\ mem = file /\ AtStep("off", mem) /\ Exists(mem) /\ Ordered(mem)
        /\ Window(mem) <=> HasWindow(mem)
    BY MidCopy DEF CycleInv, Early
  <2>2. "recorded" \in file.phases => "started" \in file.phases
    BY <2>1 DEF AtStep, Releasing, Ordered
  <2>3. Missing = {}
    BY <2>2 DEF TenantInv, Missing
  <2>4. up \subseteq before \cup System
    BY <2>1 DEF TenantInv
  <2> QED  BY <2>3, <2>4
<1> QED  BY <1>1, CycleHolds, TenantHolds, PTL

-----------------------------------------------------------------------------
(* What a step may never do                                                *)

\* Where dockerd restarts or the node reboots, in a run of the cycle.
LEMMA RestartsOnlyStopped ==
    ASSUME CycleInv, PinsInv, [Next]_vars, ext' = ext, pc \notin {"install", "restart", "reboot"}
    PROVE  UNCHANGED docker /\ (rebootReq => rebootReq') /\ (certStale => certStale')
<1> USE DEF pkgVars, ctlVars, runVars
<1>1. ASSUME NEW p \in Playbooks, StartRun(p)
      PROVE  UNCHANGED <<docker, rebootReq, certStale>>
  BY <1>1 DEF StartRun
<1>2. CASE Failure \/ Poll \/ Recover \/ UNCHANGED vars
  BY <1>2 DEF Failure, OnFails, TaskFails, RunDies, Poll, Recover, vars
<1>3. CASE ExternalOff \/ ExternalOn \/ ControllerHold \/ HostReboots
  <2>1. External
    BY <1>3, Zenon DEF ExternalOff, ExternalOn, ControllerHold, HostReboots
  <2> QED  BY <2>1 DEF External, CycleInv, TypeOK
<1>4. CASE RunStep
  <2>1. CASE OsUpgrade("osUpgradeLive", "decide") \/ OsUpgrade("osUpgrade", "unhold")
    <3>1. UNCHANGED <<docker, certStale>>
      BY <2>1 DEF OsUpgrade, PinsInv
    <3>2. rebootReq => rebootReq'
      BY <2>1, Zenon DEF OsUpgrade
    <3> QED  BY <3>1, <3>2
  <2>2. CASE Converge
    <3>1. UNCHANGED <<docker, rebootReq>>
      BY <2>2 DEF Converge
    <3>2. certStale => certStale'
      BY <2>2, Zenon DEF Converge
    <3> QED  BY <3>1, <3>2
  <2>3. CASE \/ Download \/ Hold \/ On \/ ConvergeStart \/ Flush \/ AgentWait \/ Decide
             \/ PreHold("preHoldLive", "osUpgradeLive")
    BY <2>3 DEF Download, Hold, On, ConvergeStart, Flush, AgentWait, Decide, HoldCheck, PreHold
  <2>4. CASE \/ Record \/ StopCheck \/ Stop \/ PackagesCheck
             \/ PreHold("preHold", "osUpgrade") \/ Unhold \/ Rehold
    BY <2>4 DEF Record, StopCheck, Stop, PackagesCheck, HoldCheck, PreHold, Unhold, Rehold
  <2>5. CASE \/ RestartCheck \/ RebootCheck \/ Services \/ Accept \/ Start
             \/ Release \/ Off \/ Confirm \/ Archive \/ Rescue \/ Aside
    BY <2>5 DEF RestartCheck, RebootCheck, Services, HoldCheck, Accept, Start, Release, Off,
                Confirm, Archive, Rescue, Aside
  <2> QED  BY <1>4, <2>1, <2>2, <2>3, <2>4, <2>5 DEF RunStep, Install, Restart, Reboot
<1> QED  BY <1>1, <1>2, <1>3, <1>4 DEF Next, Environment

\* On a node nobody else acts on, the run never restarts dockerd or the machine
\* under a tenant (R1).
THEOREM TenantsAreDownForRestarts == Spec => DockerdNeverRestartsUnderTenants
<1>1. ASSUME CycleInv, PinsInv, TenantInv, [Next]_vars, Undisturbed, ext' = ext,
             \/ docker' # docker
             \/ rebootReq /\ ~rebootReq'
             \/ certStale /\ ~certStale'
      PROVE  up \cap Tenants = {}
  <2>1. pc \in {"install", "restart", "reboot"}
    BY <1>1, RestartsOnlyStopped
  <2>2. AtStep(pc, mem) /\ mem = file /\ Ordered(mem) /\ mem.playbook = pb
    BY <1>1, <2>1, MidCopy DEF CycleInv, Early
  <2>3. "stopped" \in file.phases /\ "rebooted" \notin file.phases
    BY <2>1, <2>2 DEF AtStep, Ordered, Packaging
  <2> QED  BY <1>1, <2>3 DEF TenantInv
<1>2. CycleInv /\ PinsInv /\ TenantInv /\ [Next]_vars
        => [Undisturbed /\ ext' = ext /\ (docker' # docker \/ (rebootReq /\ ~rebootReq')
                                           \/ (certStale /\ ~certStale'))
              => up \cap Tenants = {}]_vars
  BY <1>1
<1> QED
  BY <1>2, CycleHolds, NodeHolds, TenantHolds, PTL DEF Spec, DockerdNeverRestartsUnderTenants

\* Which steps take a container down.
LEMMA DownOnlyIn ==
    ASSUME CycleInv, PinsInv, [Next]_vars, ext' = ext,
           pc \notin {"stop", "install", "restart", "reboot"}
    PROVE  up \subseteq up'
<1> USE DEF pkgVars, ctlVars, runVars
<1>1. ASSUME NEW p \in Playbooks, StartRun(p) PROVE up \subseteq up'
  BY <1>1 DEF StartRun
<1>2. CASE Failure \/ Poll \/ Recover \/ UNCHANGED vars
  BY <1>2 DEF Failure, OnFails, TaskFails, RunDies, Poll, Recover, vars
<1>3. CASE ExternalOff \/ ExternalOn \/ ControllerHold \/ HostReboots
  <2>1. External
    BY <1>3, Zenon DEF ExternalOff, ExternalOn, ControllerHold, HostReboots
  <2> QED  BY <2>1 DEF External, CycleInv, TypeOK
<1>4. CASE RunStep
  <2>1. CASE OsUpgrade("osUpgradeLive", "decide") \/ OsUpgrade("osUpgrade", "unhold")
    BY <2>1 DEF OsUpgrade, PinsInv
  <2>2. CASE \/ Download \/ Hold \/ On \/ ConvergeStart \/ Converge \/ Flush \/ AgentWait \/ Decide
             \/ PreHold("preHoldLive", "osUpgradeLive")
    BY <2>2 DEF Download, Hold, On, ConvergeStart, Converge, Flush, AgentWait, Decide, HoldCheck,
                PreHold
  <2>3. CASE \/ Record \/ StopCheck \/ PackagesCheck
             \/ PreHold("preHold", "osUpgrade") \/ Unhold \/ Rehold
    BY <2>3 DEF Record, StopCheck, PackagesCheck, HoldCheck, PreHold, Unhold, Rehold
  <2>4. CASE \/ RestartCheck \/ RebootCheck \/ Services \/ Accept \/ Start
             \/ Release \/ Off \/ Confirm \/ Archive \/ Rescue \/ Aside
    BY <2>4 DEF RestartCheck, RebootCheck, Services, HoldCheck, Accept, Start, Release, Off,
                Confirm, Archive, Rescue, Aside
  <2> QED  BY <1>4, <2>1, <2>2, <2>3, <2>4 DEF RunStep, Stop, Install, Restart, Reboot
<1> QED  BY <1>1, <1>2, <1>3, <1>4 DEF Next, Environment

\* Once the tenants are noted as started, no step of this run or of a resumed
\* one takes a container down (R2, cycle.yml 7).
THEOREM StartedAreLeftAlone == Spec => StartedStaysUp
<1>1. ASSUME CycleInv, PinsInv, [Next]_vars, ext' = ext, "started" \in file.phases
      PROVE  up \subseteq up'
  <2>1. CASE pc \in {"stop", "install", "restart", "reboot"}
    <3>1. AtStep(pc, mem) /\ mem = file /\ Ordered(mem) /\ mem.playbook = pb
      BY <1>1, <2>1, MidCopy DEF CycleInv, Early
    <3> QED  BY <1>1, <2>1, <3>1 DEF AtStep, Ordered, Packaging
  <2> QED  BY <1>1, <2>1, DownOnlyIn
<1>2. CycleInv /\ PinsInv /\ [Next]_vars
        => [Undisturbed /\ ext' = ext /\ "started" \in file.phases => up \subseteq up']_vars
  BY <1>1
<1> QED  BY <1>2, CycleHolds, NodeHolds, PTL DEF Spec, StartedStaysUp

\* The rescue clears the hold of a failed maintain-nodes run by itself only
\* when nothing on the node is changed or stopped, by it or by an earlier run
\* of the cycle (R5, maintain_cycle.yml 115-161).
THEOREM OnlyUntouchedIsReleased == Spec => AutoReleaseOnlyUntouched
<1>1. ASSUME CycleInv, NodeInv, TenantInv, [Next]_vars, pc = "rescue", ext' = ext, hold' # hold
      PROVE  stale = {} /\ ~certStale /\ (Undisturbed => before \subseteq up)
  <2>1. CASE Rescue
    <3>1. pb = "maintain-nodes" /\ Exists(file) /\ ~mem.convergeStarted
      BY <1>1, <2>1 DEF Rescue
    <3>2. file.playbook = "maintain-nodes" /\ ~file.convergeStarted
      BY <1>1, <3>1 DEF CycleInv, HeldInv, CopyInv
    <3>3. file.phases \subseteq {"held"}
      BY <1>1, <3>2 DEF CycleInv, PhaseInv, Ordered
    <3> QED  BY <1>1, <3>2, <3>3 DEF NodeInv, ConvergeInv, TenantInv
  <2>2. CASE Environment
    <3>1. CASE ExternalOff \/ ExternalOn \/ ControllerHold \/ HostReboots
      <4>1. External
        BY <3>1, Zenon DEF ExternalOff, ExternalOn, ControllerHold, HostReboots
      <4> QED  BY <1>1, <4>1 DEF External, CycleInv, TypeOK
    <3>2. CASE Poll \/ Recover
      BY <1>1, <3>2 DEF Poll, Recover
    <3> QED  BY <2>2, <3>1, <3>2 DEF Environment
  <2>3. CASE Failure \/ (\E p \in Playbooks : StartRun(p)) \/ UNCHANGED vars
    BY <1>1, <2>3 DEF Failure, OnFails, TaskFails, RunDies, StartRun, vars
  <2>4. CASE RunStep /\ ~Rescue
    BY <1>1, <2>4
    DEF RunStep, Download, Hold, On, ConvergeStart, Converge, Flush, AgentWait, Decide, HoldCheck,
        PreHold, OsUpgrade, Record, StopCheck, Stop, PackagesCheck, Unhold, Install, Rehold,
        RestartCheck, Restart, RebootCheck, Reboot, Services, Accept, Start, Release, Off,
        Confirm, Archive, Aside
  <2> QED  BY <1>1, <2>1, <2>2, <2>3, <2>4 DEF Next
<1>2. CycleInv /\ NodeInv /\ TenantInv /\ [Next]_vars
        => [pc = "rescue" /\ ext' = ext /\ hold' # hold =>
              /\ stale = {} /\ ~certStale
              /\ Undisturbed => before \subseteq up]_vars
  BY <1>1
<1> QED
  BY <1>2, CycleHolds, NodeHolds, TenantHolds, PTL DEF Spec, AutoReleaseOnlyUntouched
=============================================================================
