-------------------------- MODULE MaintainNode_proofs --------------------------
(***************************************************************************)
(* Theorems about one node's way through maintain-nodes.yml, for any       *)
(* containers, and any number of retries, rounds, deaths of a run and acts *)
(* of others.                                                              *)
(***************************************************************************)
EXTENDS MaintainNodeProps, WellFoundedInduction, TLAPS

-----------------------------------------------------------------------------
(* Containers                                                              *)

\* A container keeps its name's two ids; one that runs exists; what is
\* recorded was one of them.
IdsInv ==
    /\ \A n \in Names : ids[n] \in {FirstId[n], NextId[n], Null}
    /\ \A n \in up : ids[n] # Null
    /\ \A r \in recorded : r.name \in Names /\ r.id \in {FirstId[r.name], NextId[r.name]}

\* The containers docker lists are the names that have an id.
LEMMA ContainersAre ==
    /\ \A c \in Containers : /\ c.name \in Names /\ c.id = ids[c.name] /\ c.id # Null
                             /\ c.running <=> c.name \in up
                             /\ c.system <=> c.name \in SystemNames
    /\ \A n \in Names : ids[n] # Null => \E c \in Containers : c.name = n
<1>1. ASSUME NEW c \in Containers
      PROVE  /\ c.name \in Names /\ c.id = ids[c.name] /\ c.id # Null
             /\ c.running <=> c.name \in up
             /\ c.system <=> c.name \in SystemNames
  <2>1. PICK n \in Names : /\ ids[n] # Null
                           /\ c = [id |-> ids[n], name |-> n, running |-> n \in up,
                                   system |-> n \in SystemNames]
    BY <1>1 DEF Containers
  <2>2. /\ c.id = ids[n] /\ c.name = n /\ c.running = (n \in up)
        /\ c.system = (n \in SystemNames)
    BY <2>1
  <2> QED  BY <2>1, <2>2
<1>2. ASSUME NEW n \in Names, ids[n] # Null PROVE \E c \in Containers : c.name = n
  <2>1. PICK c : c = [id |-> ids[n], name |-> n, running |-> n \in up,
                      system |-> n \in SystemNames]
    OBVIOUS
  <2>2. c \in Containers
    BY <1>2, <2>1 DEF Containers
  <2> QED  BY <2>1, <2>2
<1> QED  BY <1>1, <1>2

\* The container a recorded one is resolved to is the one of its name, under
\* whichever id.
LEMMA CurrentIs ==
    ASSUME IdsInv, up \subseteq Names, NEW r \in recorded
    PROVE  /\ CurrentOf(r, Containers).id = ids[r.name]
           /\ CurrentOf(r, Containers).running <=> r.name \in up
<1>1. r.name \in Names /\ r.id \in {FirstId[r.name], NextId[r.name]}
  BY DEF IdsInv
<1>2. \A c \in Containers : c.id = r.id => c.name = r.name
  <2> SUFFICES ASSUME NEW c \in Containers, c.id = r.id, c.name # r.name PROVE FALSE
    OBVIOUS
  <2>1. c.name \in Names /\ c.id \in {FirstId[c.name], NextId[c.name]}
    BY ContainersAre DEF IdsInv
  <2>2. {FirstId[c.name], NextId[c.name]} \cap {FirstId[r.name], NextId[r.name]} = {}
    BY <1>1, <2>1, NamesAssumption
  <2> QED  BY <1>1, <2>1, <2>2
<1>3. CASE \E c \in Containers : c.id = r.id
  <2>1. PICK c : c = CurrentOf(r, Containers)
    OBVIOUS
  <2>2. c \in Containers /\ c.id = r.id
    BY <1>3, <2>1 DEF CurrentOf
  <2> QED  BY <1>2, <2>1, <2>2, ContainersAre
<1>4. CASE ~(\E c \in Containers : c.id = r.id) /\ \E c \in Containers : c.name = r.name
  <2>1. PICK c : c = CurrentOf(r, Containers)
    OBVIOUS
  <2>2. c \in Containers /\ c.name = r.name
    BY <1>4, <2>1 DEF CurrentOf
  <2> QED  BY <2>1, <2>2, ContainersAre
<1>5. CASE ~(\E c \in Containers : c.id = r.id) /\ ~(\E c \in Containers : c.name = r.name)
  <2>1. CurrentOf(r, Containers) = Nobody
    BY <1>5 DEF CurrentOf
  <2>2. ids[r.name] = Null
    BY <1>1, <1>5, ContainersAre
  <2> QED  BY <2>1, <2>2 DEF Nobody, IdsInv
<1> QED  BY <1>3, <1>4, <1>5

\* What the recorded containers are resolved to.
LEMMA ResolvedIs ==
    ASSUME IdsInv, up \subseteq Names
    PROVE  /\ \A e \in Resolved : /\ \E r \in recorded : e.name = r.name
                                  /\ e.name \in Names /\ e.current = ids[e.name]
                                  /\ e.running <=> e.name \in up
           /\ \A r \in recorded : \E e \in Resolved : e.name = r.name
<1>1. ASSUME NEW e \in Resolved
      PROVE  \E r \in recorded : /\ e.name = r.name /\ r.name \in Names
                                 /\ e.current = ids[e.name]
                                 /\ e.running <=> e.name \in up
  <2>1. PICK r \in recorded :
           e = [id |-> r.id, name |-> r.name, current |-> CurrentOf(r, Containers).id,
                running |-> CurrentOf(r, Containers).running]
    BY <1>1 DEF Resolved, ResolveRecorded
  <2>2. /\ e.name = r.name /\ e.current = CurrentOf(r, Containers).id
        /\ e.running = CurrentOf(r, Containers).running
    BY <2>1
  <2>3. r.name \in Names
    BY DEF IdsInv
  <2> QED  BY <2>2, <2>3, CurrentIs
<1>2. ASSUME NEW r \in recorded PROVE \E e \in Resolved : e.name = r.name
  <2>1. PICK e : e = [id |-> r.id, name |-> r.name, current |-> CurrentOf(r, Containers).id,
                      running |-> CurrentOf(r, Containers).running]
    OBVIOUS
  <2>2. e \in Resolved
    BY <2>1 DEF Resolved, ResolveRecorded
  <2> QED  BY <2>1, <2>2
<1> QED  BY <1>1, <1>2

\* What the helper is asked to start are recorded names that have a container.
LEMMA RequestedAre ==
    ASSUME IdsInv, up \subseteq Names
    PROVE  /\ RequiredToStart \subseteq Names /\ OptionalToStart \subseteq Names
           /\ \A n \in RequiredToStart \cup OptionalToStart : ids[n] # Null
<1>1. \A e \in Resolved : Found(e) => e.name \in Names /\ ids[e.name] # Null
  BY ResolvedIs DEF Found
<1> QED  BY <1>1 DEF RequiredToStart, OptionalToStart, FoundNames, Required, Accepted

-----------------------------------------------------------------------------
(* Types                                                                   *)

\* How a step leaves the run.
LEMMA LeavesRun ==
    ASSUME RunTypes, NEW label \in {"status", "on", "next", "roles", "updates", "await_again",
                                    "decide", "stopping", "starting"},
           Goto(label) \/ EndRun
    PROVE  RunTypes'
<1>1. 0 \in 0..(Tries + Polls)
  BY LimitsAssumption
<1>2. noted' \in BOOLEAN
  BY Zenon DEF RunTypes, Goto, EndRun
<1> QED  BY <1>1, <1>2 DEF RunTypes, Goto, EndRun

\* What a mark leaves.
LEMMA MarkTypes ==
    ASSUME RunTypes, BoundTypes, phases \subseteq AllPhases, NEW phase \in AllPhases,
           MarkDone(phase), UNCHANGED acts
    PROVE  RunTypes' /\ BoundTypes' /\ phases' \subseteq AllPhases
<1>1. RunTypes'
  BY LeavesRun DEF MarkDone
<1>2. BoundTypes'
  BY LimitsAssumption DEF MarkDone, BoundTypes
<1> QED  BY <1>1, <1>2 DEF MarkDone

\* A node before its first run.
LEMMA InitTypes == Init => TypeOK /\ IdsInv
<1> SUFFICES ASSUME Init PROVE TypeOK /\ IdsInv
  OBVIOUS
<1>1. RunTypes
  <2>1. noted \in BOOLEAN
    BY Zenon DEF Init
  <2> QED  BY <2>1, LimitsAssumption DEF Init, RunTypes
<1>2. StateTypes
  BY DEF Init, StateTypes, NoDecision
<1>3. AgentTypes
  <2>1. polled \in BOOLEAN /\ acked \in BOOLEAN /\ busy \in BOOLEAN /\ placed \in BOOLEAN
    BY Zenon DEF Init
  <2> QED  BY <2>1 DEF Init, AgentTypes
<1>4. DockTypes
  <2>1. rebootPending \in BOOLEAN
    BY Zenon DEF Init
  <2> QED  BY <2>1, LimitsAssumption DEF Init, DockTypes
<1>5. ids \in [Names -> Ids \cup {Null}]
  <2>1. \A n \in Names : FirstId[n] \in Ids \cup {Null}
    BY DEF Ids
  <2>2. [n \in Names |-> FirstId[n]] \in [Names -> Ids \cup {Null}]
    BY <2>1
  <2> QED  BY <2>2, NamesAssumption, Zenon DEF Init
<1>6. ContTypes
  <2>1. hit \in BOOLEAN
    BY Zenon DEF Init
  <2> QED  BY <1>5, <2>1, LimitsAssumption DEF Init, ContTypes, NoAttempts
<1>7. BoundTypes
  BY LimitsAssumption DEF Init, BoundTypes
<1>8. IdsInv
  BY NamesAssumption DEF Init, IdsInv
<1> QED  BY <1>1, <1>2, <1>3, <1>4, <1>6, <1>7, <1>8 DEF TypeOK

\* Every step keeps what a run is.
LEMMA RunTypesStep == TypeOK /\ [Next]_vars => RunTypes'
<1> SUFFICES ASSUME TypeOK, [Next]_vars PROVE RunTypes'
  OBVIOUS
<1>0. RunTypes
  BY DEF TypeOK
<1>1. ASSUME UNCHANGED <<pc, tries, noted>> PROVE RunTypes'
  BY <1>0, <1>1 DEF RunTypes
<1>2. ASSUME NEW phase, MarkDone(phase) PROVE RunTypes'
  BY <1>0, <1>2, LeavesRun DEF MarkDone
<1>3. ASSUME EndRun PROVE RunTypes'
  BY <1>0, <1>3, LeavesRun
<1>4. CASE Begin \/ RunDies \/ HoldCheckFails \/ Release \/ ReadStatus \/ StartConverge \/ ApplyUpdates
           \/ Decide \/ RecordContainers \/ StopContainers \/ StartContainers
  BY <1>0, <1>3, <1>4, LeavesRun
  DEF Begin, RunDies, HoldCheckFails, Release, ReadStatus, StartConverge, ApplyUpdates, Decide,
      RecordContainers, StopContainers, StartContainers
<1>5. CASE AskForHold \/ AwaitQuiet
  <2>1. UNCHANGED <<tries, noted>> /\ pc' \in {"answered", "waiting"}
    BY <1>5 DEF AskForHold, AwaitQuiet, Answer
  <2> QED  BY <1>0, <2>1 DEF RunTypes
<1>6. CASE RetryHold
  BY <1>0, <1>6, LimitsAssumption DEF RetryHold, RunTypes
<1>7. CASE GateHold \/ GateStopped \/ GateStarted \/ InstallPackages \/ RestartDocker \/ Reboot
  BY <1>2, <1>3, <1>7 DEF GateHold, GateStopped, GateStarted, InstallPackages, RestartDocker, Reboot
<1>8. CASE Converge
  <2>1. noted' \in BOOLEAN
    BY <1>0, <1>8, Zenon DEF Converge, RunTypes
  <2> QED  BY <1>0, <1>8, <2>1 DEF Converge, RunTypes
<1>9. CASE AwaitAgent
  <2>1. CASE tries < Polls /\ tries' = tries + 1 /\ UNCHANGED <<pc, noted>>
    BY <1>0, <2>1, LimitsAssumption DEF RunTypes
  <2>2. CASE Goto("updates") \/ Goto("decide") \/ EndRun
    BY <1>0, <2>2, LeavesRun
  <2> QED  BY <1>9, <2>1, <2>2 DEF AwaitAgent
<1>10. CASE StartRound \/ StopOne \/ Tick \/ AgentGoesOn \/ ClearHold \/ Recreate \/ DockerdCrashes
            \/ UNCHANGED vars
  BY <1>1, <1>10 DEF StartRound, StopOne, Tick, AgentGoesOn, ClearHold, Recreate, DockerdCrashes,
                     vars, runVars
<1> QED
  BY <1>4, <1>5, <1>6, <1>7, <1>8, <1>9, <1>10 DEF Next, RunStep

\* A decision of the filter is one.
LEMMA DecisionType ==
    \A drift, isNoted, newer, reboot, force :
        MaintainDecide(drift, isNoted, newer, reboot, force) \in [stop : BOOLEAN, restart : BOOLEAN]
  BY DEF MaintainDecide

\* What the run records is the name and the id of a container.
LEMMA RecordedType ==
    ASSUME IdsInv, up \subseteq Names
    PROVE  /\ SelectRunningTenants(Containers) \subseteq {[id |-> id, name |-> n] : n \in Names, id \in Ids}
           /\ \A r \in SelectRunningTenants(Containers) :
                 r.name \in Names /\ r.id \in {FirstId[r.name], NextId[r.name]}
<1> SUFFICES ASSUME NEW r \in SelectRunningTenants(Containers)
             PROVE  /\ r \in {[id |-> id, name |-> n] : n \in Names, id \in Ids}
                    /\ r.name \in Names /\ r.id \in {FirstId[r.name], NextId[r.name]}
  OBVIOUS
<1>1. PICK c \in Containers : r = [id |-> c.id, name |-> c.name]
  BY DEF SelectRunningTenants
<1>2. c.name \in Names /\ c.id \in {FirstId[c.name], NextId[c.name]}
  BY ContainersAre DEF IdsInv
<1>3. c.id \in Ids
  BY <1>2 DEF Ids
<1> QED  BY <1>1, <1>2, <1>3

\* Every step keeps what state.json is.
LEMMA StateTypesStep == TypeOK /\ IdsInv /\ [Next]_vars => StateTypes'
<1> SUFFICES ASSUME TypeOK, IdsInv, [Next]_vars PROVE StateTypes'
  OBVIOUS
<1>0. StateTypes
  BY DEF TypeOK
<1>1. ASSUME UNCHANGED <<decision, recorded>>, phases' \subseteq AllPhases PROVE StateTypes'
  BY <1>0, <1>1 DEF StateTypes
<1>2. ASSUME NEW phase \in AllPhases, MarkDone(phase), UNCHANGED <<decision, recorded>>
      PROVE  StateTypes'
  BY <1>0, <1>1, <1>2 DEF MarkDone, StateTypes
<1>3. CASE ReadStatus
  BY <1>0, <1>1, <1>3 DEF ReadStatus, Rescue, stateVars, StateTypes
<1>4. CASE GateHold \/ GateStopped \/ GateStarted \/ InstallPackages \/ RestartDocker \/ Reboot
  <2>1. UNCHANGED <<decision, recorded>>
    BY <1>4 DEF GateHold, GateStopped, GateStarted, InstallPackages, RestartDocker, Reboot
  <2>2. UNCHANGED phases \/ \E phase \in AllPhases : MarkDone(phase)
    BY <1>4 DEF GateHold, GateStopped, GateStarted, InstallPackages, RestartDocker, Reboot, AllPhases
  <2> QED  BY <1>0, <1>1, <1>2, <2>1, <2>2 DEF StateTypes
<1>5. CASE StartConverge
  BY <1>0, <1>1, <1>5 DEF StartConverge, StateTypes, AllPhases
<1>6. CASE Decide
  <2>1. decision' \in [stop : BOOLEAN, restart : BOOLEAN]
    BY <1>6, DecisionType DEF Decide
  <2> QED  BY <1>0, <1>6, <2>1 DEF Decide, StateTypes, AllPhases
<1>7. CASE RecordContainers
  <2>1. recorded' \subseteq {[id |-> id, name |-> n] : n \in Names, id \in Ids}
    BY <1>7, RecordedType DEF RecordContainers, TypeOK, ContTypes
  <2> QED  BY <1>0, <1>7, <2>1 DEF RecordContainers, StateTypes, AllPhases
<1>8. CASE Release
  BY <1>8 DEF Release, StateTypes, NoDecision
<1>9. CASE UNCHANGED stateVars
  BY <1>0, <1>9 DEF stateVars, StateTypes
<1>10. CASE \/ Begin \/ RunDies \/ HoldCheckFails \/ ApplyUpdates \/ StopContainers \/ StartContainers
            \/ AskForHold \/ AwaitQuiet \/ RetryHold \/ Converge \/ AwaitAgent \/ StartRound
            \/ StopOne \/ Tick \/ AgentGoesOn \/ ClearHold \/ Recreate \/ DockerdCrashes
            \/ UNCHANGED vars
  BY <1>9, <1>10
  DEF Begin, RunDies, HoldCheckFails, ApplyUpdates, StopContainers, StartContainers, AskForHold,
      AwaitQuiet, RetryHold, Converge, AwaitAgent, StartRound, StopOne, Tick, AgentGoesOn,
      ClearHold, Recreate, DockerdCrashes, vars
<1> QED
  BY <1>3, <1>4, <1>5, <1>6, <1>7, <1>8, <1>10 DEF Next, RunStep

\* Every step keeps what cs-agent is.
LEMMA AgentTypesStep == TypeOK /\ [Next]_vars => AgentTypes'
<1> SUFFICES ASSUME TypeOK, [Next]_vars PROVE AgentTypes'
  OBVIOUS
<1>0. AgentTypes
  BY DEF TypeOK
<1>1. CASE ReadStatus
  BY <1>0, <1>1 DEF ReadStatus, Rescue, agentVars, AgentTypes
<1>2. CASE AskForHold
  <2>1. acked' \in BOOLEAN /\ placed' \in BOOLEAN
    BY <1>0, <1>2, Zenon DEF AskForHold, Place, AgentTypes
  <2>2. hold' \in {Null, "ours"}
    BY <1>0, <1>2 DEF AskForHold, Place, AgentTypes
  <2> QED  BY <1>0, <1>2, <2>1, <2>2 DEF AskForHold, AgentTypes
<1>3. CASE Converge
  BY <1>0, <1>3 DEF Converge, AgentTypes
<1>4. CASE Release
  <2>1. acked' \in BOOLEAN
    BY <1>4, Zenon DEF Release
  <2> QED  BY <1>0, <1>4, <2>1 DEF Release, AgentTypes
<1>5. CASE AgentGoesOn
  <2>1. polled' \in BOOLEAN /\ acked' \in BOOLEAN /\ busy' \in BOOLEAN
    BY <1>0, <1>5, Zenon DEF AgentGoesOn, AgentTypes
  <2> QED  BY <1>0, <1>5, <2>1 DEF AgentGoesOn, AgentTypes
<1>6. CASE ClearHold
  BY <1>0, <1>6 DEF ClearHold, AgentTypes
<1>7. CASE UNCHANGED agentVars
  BY <1>0, <1>7 DEF agentVars, AgentTypes
<1>8. CASE \/ Begin \/ RunDies \/ HoldCheckFails \/ ApplyUpdates \/ StopContainers \/ StartContainers
           \/ AwaitQuiet \/ RetryHold \/ GateHold \/ StartConverge \/ AwaitAgent \/ Decide
           \/ RecordContainers \/ GateStopped \/ InstallPackages \/ RestartDocker \/ Reboot
           \/ StartRound \/ GateStarted
           \/ StopOne \/ Tick \/ Recreate \/ DockerdCrashes \/ UNCHANGED vars
  BY <1>7, <1>8
  DEF Begin, RunDies, HoldCheckFails, ApplyUpdates, StopContainers, StartContainers,
      AwaitQuiet, RetryHold, GateHold, StartConverge, AwaitAgent, Decide,
      RecordContainers, GateStopped, InstallPackages, RestartDocker, Reboot,
      StartRound, GateStarted, StopOne, Tick, Recreate, DockerdCrashes, vars
<1> QED
  BY <1>1, <1>2, <1>3, <1>4, <1>5, <1>6, <1>8 DEF Next, RunStep

\* The seconds in which dockerd was started and the certificate written.
LEMMA StartDockerdTypes ==
    ASSUME DockTypes, StartDockerd, UNCHANGED <<now, cert>>
    PROVE  startedAt' \in 0..now' /\ loaded' \in 0..cert'
  BY LimitsAssumption DEF DockTypes, StartDockerd

\* Every step keeps what dockerd and the files are.
LEMMA DockTypesStep == TypeOK /\ [Next]_vars => DockTypes'
<1> SUFFICES ASSUME TypeOK, [Next]_vars PROVE DockTypes'
  OBVIOUS
<1>0. DockTypes
  BY DEF TypeOK
<1>1. CASE Converge
  <2>1. CASE UNCHANGED fileVars
    BY <1>0, <1>1, <2>1 DEF Converge, DockTypes, fileVars, dockVars
  <2>2. CASE cert < MaxCerts /\ cert' = cert + 1 /\ certAt' = now
    BY <1>0, <1>1, <2>2, LimitsAssumption DEF Converge, DockTypes, dockVars
  <2> QED  BY <1>1, <2>1, <2>2 DEF Converge
<1>2. CASE ApplyUpdates
  <2>1. rebootPending' \in BOOLEAN
    BY <1>0, <1>2, Zenon DEF ApplyUpdates, DockTypes
  <2> QED  BY <1>0, <1>2, <2>1 DEF ApplyUpdates, DockTypes, fileVars
<1>3. CASE InstallPackages
  <2>1. rebootPending' \in BOOLEAN
    BY <1>0, <1>3, Zenon DEF InstallPackages, DockTypes
  <2>2. startedAt' \in 0..now' /\ loaded' \in 0..cert'
    BY <1>0, <1>3, StartDockerdTypes DEF InstallPackages, DockTypes, fileVars
  <2> QED  BY <1>0, <1>3, <2>1, <2>2 DEF InstallPackages, DockTypes, fileVars
<1>4. CASE RestartDocker
  <2>1. startedAt' \in 0..now' /\ loaded' \in 0..cert'
    BY <1>0, <1>4, StartDockerdTypes DEF RestartDocker, DockTypes, fileVars
  <2> QED  BY <1>0, <1>4, <2>1 DEF RestartDocker, DockTypes, fileVars
<1>5. CASE Reboot
  <2>1. rebootPending' \in BOOLEAN
    BY <1>0, <1>5, Zenon DEF Reboot, DockTypes
  <2>2. startedAt' \in 0..now' /\ loaded' \in 0..cert'
    BY <1>0, <1>5, StartDockerdTypes DEF Reboot, DockTypes, fileVars
  <2> QED  BY <1>0, <1>5, <2>1, <2>2 DEF Reboot, DockTypes, fileVars
<1>6. CASE Tick
  BY <1>0, <1>6, LimitsAssumption DEF Tick, DockTypes, fileVars, dockVars
<1>7. CASE DockerdCrashes
  <2>1. /\ now < MaxTime /\ now' = now + 1 /\ startedAt' = now' /\ loaded' = cert
        /\ UNCHANGED <<certAt, cert, engine, rebootPending>>
    BY <1>7 DEF DockerdCrashes, fileVars
  <2> QED  BY <1>0, <2>1, LimitsAssumption DEF DockTypes
<1>8. CASE UNCHANGED <<now, fileVars, dockVars>>
  BY <1>0, <1>8 DEF fileVars, dockVars, DockTypes
<1>9. CASE \/ Begin \/ ReadStatus \/ AskForHold \/ AwaitQuiet \/ RetryHold \/ GateHold
           \/ StartConverge \/ AwaitAgent \/ Decide
           \/ RecordContainers \/ HoldCheckFails \/ StopContainers \/ GateStopped
           \/ StartContainers \/ StartRound \/ GateStarted \/ Release
           \/ RunDies \/ StopOne \/ AgentGoesOn \/ ClearHold \/ Recreate \/ UNCHANGED vars
  BY <1>8, <1>9
  DEF Begin, ReadStatus, AskForHold, AwaitQuiet, RetryHold, GateHold, StartConverge, AwaitAgent,
      Decide, RecordContainers, HoldCheckFails, StopContainers, GateStopped, StartContainers,
      StartRound, GateStarted, Release, RunDies, StopOne, AgentGoesOn, ClearHold, Recreate, vars
<1> QED
  BY <1>1, <1>2, <1>3, <1>4, <1>5, <1>6, <1>7, <1>9 DEF Next, RunStep

\* Every step keeps the bounds.
LEMMA BoundTypesStep == TypeOK /\ [Next]_vars => BoundTypes'
<1> SUFFICES ASSUME TypeOK, [Next]_vars PROVE BoundTypes'
  OBVIOUS
<1>0. BoundTypes
  BY DEF TypeOK
<1>1. ASSUME UNCHANGED acts, UNCHANGED deaths \/ (deaths < MaxDeaths /\ deaths' = deaths + 1)
      PROVE  BoundTypes'
  BY <1>0, <1>1, LimitsAssumption DEF BoundTypes
<1>2. ASSUME UNCHANGED deaths, acts < MaxActs /\ acts' = acts + 1
      PROVE  BoundTypes'
  BY <1>0, <1>2, LimitsAssumption DEF BoundTypes
<1>3. CASE GateHold \/ GateStopped \/ GateStarted \/ InstallPackages \/ RestartDocker \/ Reboot
  BY <1>1, <1>3
  DEF GateHold, GateStopped, GateStarted, InstallPackages, RestartDocker, Reboot, MarkDone
<1>4. CASE RunDies
  BY <1>1, <1>4 DEF RunDies
<1>5. CASE ClearHold \/ Recreate \/ DockerdCrashes
  BY <1>2, <1>5 DEF ClearHold, Recreate, DockerdCrashes
<1>6. CASE \/ Begin \/ ReadStatus \/ AskForHold \/ AwaitQuiet \/ RetryHold
           \/ StartConverge \/ Converge \/ AwaitAgent \/ ApplyUpdates \/ Decide
           \/ RecordContainers \/ HoldCheckFails \/ StopContainers
           \/ StartContainers \/ StartRound \/ Release
           \/ StopOne \/ Tick \/ AgentGoesOn \/ UNCHANGED vars
  BY <1>1, <1>6
  DEF Begin, ReadStatus, AskForHold, AwaitQuiet, RetryHold, StartConverge, Converge, AwaitAgent,
      ApplyUpdates, Decide, RecordContainers, HoldCheckFails, StopContainers, StartContainers,
      StartRound, Release, StopOne, Tick, AgentGoesOn, vars, boundVars
<1> QED
  BY <1>3, <1>4, <1>5, <1>6 DEF Next, RunStep

\* Every step keeps what the containers are, and their ids.
LEMMA ContTypesStep == TypeOK /\ IdsInv /\ [Next]_vars => ContTypes' /\ IdsInv'
<1> SUFFICES ASSUME TypeOK, IdsInv, [Next]_vars PROVE ContTypes' /\ IdsInv'
  OBVIOUS
<1>0. ContTypes /\ up \subseteq Names
  BY DEF TypeOK, ContTypes
<1>1. ASSUME UNCHANGED <<contVars, helpVars, recorded>> PROVE ContTypes' /\ IdsInv'
  BY <1>0, <1>1 DEF contVars, helpVars, ContTypes, IdsInv
<1>2. CASE RecordContainers
  <2>1. ContTypes'
    BY <1>0, <1>2 DEF RecordContainers, contVars, helpVars, ContTypes
  <2>2. \A r \in recorded' : r.name \in Names /\ r.id \in {FirstId[r.name], NextId[r.name]}
    BY <1>0, <1>2, RecordedType DEF RecordContainers
  <2> QED  BY <1>2, <2>1, <2>2 DEF RecordContainers, contVars, IdsInv
<1>3. CASE Release
  BY <1>0, <1>3 DEF Release, contVars, helpVars, ContTypes, IdsInv
<1>4. CASE StopContainers
  <2>1. \A e \in Resolved : e.running => e.current \in Ids
    <3>1. \A n \in up : ids[n] \in Ids
      BY <1>0 DEF ContTypes, IdsInv
    <3> QED  BY <1>0, <3>1, ResolvedIs
  <2>2. batch' \subseteq Ids
    BY <1>0, <1>4, <2>1 DEF StopContainers, ContTypes
  <2> QED  BY <1>0, <1>4, <2>2 DEF StopContainers, stateVars, helpVars, ContTypes, IdsInv
<1>5. CASE StopOne
  <2>1. /\ up' \subseteq up /\ batch' \subseteq batch /\ orphans' \subseteq orphans
        /\ UNCHANGED <<ids, recorded, revived, attempts, rounds>>
    BY <1>5 DEF StopOne, stateVars
  <2>2. hit' \in BOOLEAN
    BY <1>5, Zenon DEF StopOne
  <2> QED  BY <1>0, <2>1, <2>2 DEF ContTypes, IdsInv
<1>6. CASE Reboot
  <2>1. /\ up' \subseteq up /\ orphans' \subseteq orphans
        /\ UNCHANGED <<ids, recorded, batch, revived, helpVars>>
    BY <1>6 DEF Reboot
  <2> QED  BY <1>0, <2>1 DEF helpVars, ContTypes, IdsInv
<1>7. CASE RunDies \/ GateStarted
  <2>1. /\ HelperIsDone /\ UNCHANGED <<ids, up, revived, recorded>>
        /\ batch' \subseteq batch /\ orphans' \subseteq orphans \cup batch
    BY <1>7 DEF RunDies, GateStarted, contVars, stateVars
  <2>2. NoAttempts \in [Names -> 0..StartRetries] /\ 0 \in 0..StartRounds
    BY LimitsAssumption DEF NoAttempts
  <2>3. attempts' \in [Names -> 0..StartRetries] /\ rounds' \in 0..StartRounds
    BY <2>1, <2>2 DEF HelperIsDone
  <2>4. hit' \in BOOLEAN
    BY <2>1, Zenon DEF HelperIsDone
  <2> QED  BY <1>0, <2>1, <2>3, <2>4 DEF ContTypes, IdsInv
<1>8. CASE StartRound
  <2>1. Startable \subseteq Names /\ \A n \in Startable : ids[n] # Null /\ attempts[n] < StartRetries
    BY <1>0, RequestedAre DEF Startable
  <2>2. /\ up' \subseteq up \cup Startable
        /\ UNCHANGED <<ids, recorded, batch, orphans, revived, hit>>
    BY <1>8 DEF StartRound, stateVars
  <2>3. attempts' \in [Names -> 0..StartRetries]
    BY <1>0, <1>8, <2>1, LimitsAssumption DEF StartRound, ContTypes
  <2>4. rounds' \in 0..StartRounds
    BY <1>0, <1>8, LimitsAssumption DEF StartRound, StartIsOver, ContTypes
  <2>5. ContTypes'
    BY <1>0, <2>1, <2>2, <2>3, <2>4 DEF ContTypes
  <2>6. \A n \in up' : ids'[n] # Null
    BY <2>1, <2>2 DEF IdsInv
  <2>7. IdsInv'
    BY <2>2, <2>6 DEF IdsInv
  <2> QED  BY <2>5, <2>7
<1>9. CASE Recreate
  <2> DEFINE Becomes(n, id) ==
         /\ ids' = [ids EXCEPT ![n] = id]
         /\ \/ up' = up \ {n} /\ UNCHANGED revived
            \/ /\ id # Null /\ up' = up \cup {n}
               /\ revived' = IF Done("stopped") THEN revived \cup {n} ELSE revived
  <2>0. PICK n \in Names : \E id \in {NextId[n], Null} : Becomes(n, id)
    BY <1>9 DEF Recreate
  <2>1. PICK id \in {NextId[n], Null} : Becomes(n, id)
    BY <2>0
  <2>2. UNCHANGED <<recorded, batch, orphans, helpVars>>
    BY <1>9 DEF Recreate, stateVars
  <2>3. id \in Ids \cup {Null}
    BY <2>1 DEF Ids
  <2>4. up' \subseteq Names /\ revived' \subseteq Names /\ ids' \in [Names -> Ids \cup {Null}]
    BY <1>0, <2>1, <2>3 DEF ContTypes
  <2>5. /\ ids'[n] = id /\ \A m \in Names \ {n} : ids'[m] = ids[m]
    BY <1>0, <2>1 DEF ContTypes
  <2>6. IdsInv'
    BY <1>0, <2>1, <2>2, <2>5 DEF IdsInv
  <2> QED  BY <1>0, <2>2, <2>4, <2>6 DEF helpVars, ContTypes
<1>10. CASE \/ Begin \/ ReadStatus \/ AskForHold \/ AwaitQuiet \/ RetryHold \/ GateHold
            \/ StartConverge \/ Converge \/ AwaitAgent \/ ApplyUpdates \/ Decide
            \/ HoldCheckFails \/ GateStopped \/ InstallPackages \/ RestartDocker
            \/ StartContainers \/ Tick \/ AgentGoesOn \/ ClearHold \/ DockerdCrashes
            \/ UNCHANGED vars
  <2>1. UNCHANGED <<contVars, helpVars>>
    BY <1>10
    DEF Begin, ReadStatus, AskForHold, AwaitQuiet, RetryHold, GateHold, StartConverge, Converge,
        AwaitAgent, ApplyUpdates, Decide, HoldCheckFails, GateStopped, InstallPackages,
        RestartDocker, StartContainers, Tick, AgentGoesOn, ClearHold, DockerdCrashes, vars
  <2>2. UNCHANGED recorded
    BY <1>10
    DEF Begin, ReadStatus, Rescue, AskForHold, AwaitQuiet, RetryHold, GateHold, StartConverge,
        Converge, AwaitAgent, ApplyUpdates, Decide, HoldCheckFails, GateStopped, InstallPackages,
        RestartDocker, StartContainers, Tick, AgentGoesOn, ClearHold, DockerdCrashes, vars,
        stateVars
  <2> QED  BY <1>1, <2>1, <2>2
<1> QED
  BY <1>2, <1>3, <1>4, <1>5, <1>6, <1>7, <1>8, <1>9, <1>10 DEF Next, RunStep

\* The types and the ids, in every state.
LEMMA TypesHold == Spec => [](TypeOK /\ IdsInv)
<1>1. Init => TypeOK /\ IdsInv
  BY InitTypes
<1>2. TypeOK /\ IdsInv /\ [Next]_vars => (TypeOK /\ IdsInv)'
  BY RunTypesStep, StateTypesStep, AgentTypesStep, DockTypesStep, ContTypesStep, BoundTypesStep
  DEF TypeOK
<1> QED  BY <1>1, <1>2, PTL DEF Spec

\* Every variable keeps its type: no file or dockerd is of a later second, and
\* no container is started more often than the helper may.
THEOREM TypeCorrect == Spec => []TypeOK
  BY TypesHold, PTL

-----------------------------------------------------------------------------
(* The phases                                                              *)

\* The phases are done in their order, those of the stopped window only if the
\* decision is to stop; what runs before the decision runs before its phase.
PhaseInv ==
    /\ "converged" \notin phases => phases \subseteq {"held", "converge_started"}
    /\ "recorded" \in phases => decision.stop
    /\ "stopped" \in phases => "recorded" \in phases
    /\ "packages" \in phases => "stopped" \in phases
    /\ "docker_restarted" \in phases => "packages" \in phases
    /\ "rebooted" \in phases =>
          "packages" \in phases /\ (decision.restart => "docker_restarted" \in phases)
    /\ "started" \in phases => "rebooted" \in phases
    /\ pc \in {"roles", "await", "updates", "await_again", "decide"} => "converged" \notin phases
    /\ pc = "stopping" => "recorded" \in phases
    /\ pc = "starting" => "rebooted" \in phases

\* What has been done before the step that state.json says is next.
LEMMA NextIs ==
    ASSUME PhaseInv
    PROVE  /\ At("converge") => "converged" \notin phases
           /\ At("record") => "recorded" \notin phases /\ decision.stop
           /\ At("stop") => "recorded" \in phases /\ "stopped" \notin phases
           /\ At("packages") => "stopped" \in phases /\ "rebooted" \notin phases
           /\ At("docker_restart") => /\ "packages" \in phases /\ "stopped" \in phases
                                      /\ "rebooted" \notin phases
           /\ At("reboot") => /\ "packages" \in phases /\ "stopped" \in phases
                              /\ "rebooted" \notin phases
                              /\ decision.restart => "docker_restarted" \in phases
           /\ At("start") => "rebooted" \in phases
           /\ At("release") => "converged" \in phases /\ (decision.stop => "rebooted" \in phases)
<1>1. "stopped" \notin phases => /\ "packages" \notin phases /\ "rebooted" \notin phases
                                 /\ "started" \notin phases
  BY DEF PhaseInv
<1>2. CASE ~Done("converged")
  BY <1>2 DEF At, NextStep, Done
<1>3. CASE Done("converged") /\ ~decision.stop
  BY <1>3 DEF At, NextStep, Done
<1>4. CASE Done("converged") /\ decision.stop /\ ~Done("recorded")
  BY <1>4 DEF At, NextStep, Done
<1>5. CASE Done("converged") /\ decision.stop /\ Done("recorded") /\ ~Done("stopped")
  <2>1. {"stopped", "packages", "started"} \cap phases = {}
    BY <1>1, <1>5 DEF Done
  <2>2. NextStep = "stop"
    BY <1>5, <2>1 DEF NextStep
  <2> QED  BY <1>5, <2>2 DEF At, Done
<1>6. CASE Done("converged") /\ decision.stop /\ Done("recorded") /\ Done("stopped")
  <2>1. {"stopped", "packages", "started"} \cap phases # {}
    BY <1>6 DEF Done
  <2>2. NextStep = IF ~Done("packages") THEN "packages"
                   ELSE IF decision.restart /\ {"docker_restarted", "started"} \cap phases = {}
                        THEN "docker_restart"
                   ELSE IF ~Done("rebooted") THEN "reboot"
                   ELSE IF ~Done("started") THEN "start"
                   ELSE "release"
    BY <1>6, <2>1 DEF NextStep
  <2>3. CASE ~Done("packages")
    BY <1>6, <2>2, <2>3 DEF At, Done, PhaseInv
  <2>4. CASE /\ Done("packages")
             /\ decision.restart /\ {"docker_restarted", "started"} \cap phases = {}
    <3>1. "rebooted" \notin phases
      BY <2>4 DEF PhaseInv
    <3> QED  BY <1>6, <2>2, <2>4, <3>1 DEF At, Done
  <2>5. CASE /\ Done("packages") /\ ~Done("rebooted")
             /\ ~(decision.restart /\ {"docker_restarted", "started"} \cap phases = {})
    <3>1. decision.restart => "docker_restarted" \in phases
      BY <2>5 DEF PhaseInv, Done
    <3>2. NextStep = "reboot"
      BY <2>2, <2>5
    <3> QED  BY <1>6, <2>5, <3>1, <3>2 DEF At, Done
  <2>6. CASE /\ Done("packages") /\ Done("rebooted")
             /\ ~(decision.restart /\ {"docker_restarted", "started"} \cap phases = {})
    <3>1. NextStep \in {"start", "release"}
      BY <2>2, <2>6
    <3> QED  BY <1>6, <2>6, <3>1 DEF At, Done
  <2> QED  BY <2>3, <2>4, <2>5, <2>6
<1> QED  BY <1>2, <1>3, <1>4, <1>5, <1>6

\* Every step keeps the order of the phases.
LEMMA PhaseStep == TypeOK /\ PhaseInv /\ [Next]_vars => PhaseInv'
<1> SUFFICES ASSUME TypeOK, PhaseInv, [Next]_vars PROVE PhaseInv'
  OBVIOUS
<1>1. ASSUME UNCHANGED <<phases, decision>>,
             pc' \in {"idle", "status", "on", "waiting", "answered", "next"} \/ pc' = pc
      PROVE  PhaseInv'
  BY <1>1 DEF PhaseInv
<1>2. ASSUME UNCHANGED decision, NEW phase, MarkDone(phase),
             \/ phase = "stopped" /\ "recorded" \in phases
             \/ phase = "packages" /\ "stopped" \in phases
             \/ phase = "docker_restarted" /\ "packages" \in phases
             \/ /\ phase = "rebooted" /\ "packages" \in phases
                /\ decision.restart => "docker_restarted" \in phases
             \/ phase = "started" /\ "rebooted" \in phases
             \/ phase = "held"
      PROVE  PhaseInv'
  <2>1. CASE UNCHANGED phases
    BY <1>1, <1>2, <2>1 DEF MarkDone, EndRun, Goto
  <2>2. CASE phases' = phases \cup {phase} /\ pc' = "next"
    BY <1>2, <2>2 DEF PhaseInv
  <2> QED  BY <1>2, <2>1, <2>2 DEF MarkDone, Goto
<1>3. CASE ReadStatus
  <2>1. UNCHANGED decision /\ pc' \in {"idle", "on", "next"}
    BY <1>3 DEF ReadStatus, Rescue, stateVars, Goto, EndRun
  <2>2. UNCHANGED phases \/ phases' = {}
    BY <1>3 DEF ReadStatus, Rescue, stateVars
  <2> QED  BY <2>1, <2>2 DEF PhaseInv
<1>4. CASE GateHold \/ GateStopped \/ GateStarted
  <2>1. CASE UNCHANGED <<phases, decision>> /\ pc' = "idle"
    BY <1>1, <2>1
  <2>2. CASE UNCHANGED decision /\ MarkDone("held")
    BY <1>2, <2>2
  <2>3. CASE GateStopped /\ MarkDone("stopped")
    BY <1>2, <2>3 DEF GateStopped, PhaseInv
  <2>4. CASE GateStarted /\ MarkDone("started")
    BY <1>2, <2>4 DEF GateStarted, PhaseInv
  <2> QED  BY <1>4, <2>1, <2>2, <2>3, <2>4 DEF GateHold, GateStopped, GateStarted, EndRun
<1>5. CASE InstallPackages
  BY <1>2, <1>5, NextIs DEF InstallPackages
<1>6. CASE RestartDocker
  BY <1>2, <1>6, NextIs DEF RestartDocker
<1>7. CASE Reboot
  BY <1>2, <1>7, NextIs DEF Reboot
<1>8. CASE StartConverge
  <2>1. "converged" \notin phases
    BY <1>8, NextIs DEF StartConverge
  <2> QED  BY <1>8, <2>1 DEF StartConverge, Goto, PhaseInv
<1>9. CASE Converge \/ AwaitAgent \/ ApplyUpdates
  <2>1. /\ UNCHANGED <<phases, decision>>
        /\ pc \in {"roles", "await", "updates", "await_again"}
        /\ pc' \in {"idle", "await", "updates", "await_again", "decide"}
    BY <1>9 DEF Converge, AwaitAgent, ApplyUpdates, stateVars, Goto, EndRun
  <2> QED  BY <2>1 DEF PhaseInv
<1>10. CASE Decide
  <2>1. "converged" \notin phases /\ phases' = phases \cup {"converged"} /\ pc' = "next"
    BY <1>10 DEF Decide, Goto, PhaseInv
  <2> QED  BY <2>1 DEF PhaseInv
<1>11. CASE RecordContainers
  <2>1. /\ decision.stop /\ UNCHANGED decision /\ phases' = phases \cup {"recorded"}
        /\ pc' = "next"
    BY <1>11, NextIs DEF RecordContainers, Goto
  <2>2. "converged" \in phases
    BY <1>11 DEF RecordContainers, At, NextStep, Done
  <2> QED  BY <2>1, <2>2 DEF PhaseInv
<1>12. CASE StopContainers \/ StartContainers
  <2>1. /\ UNCHANGED <<phases, decision>>
        /\ \/ pc' = "stopping" /\ "recorded" \in phases
           \/ pc' = "starting" /\ "rebooted" \in phases
    BY <1>12, NextIs DEF StopContainers, StartContainers, stateVars, Goto
  <2> QED  BY <2>1 DEF PhaseInv
<1>13. CASE Release
  BY <1>13 DEF Release, EndRun, PhaseInv
<1>14. CASE \/ Begin \/ RunDies \/ HoldCheckFails \/ AskForHold \/ AwaitQuiet \/ RetryHold
            \/ StartRound \/ StopOne \/ Tick \/ AgentGoesOn \/ ClearHold \/ Recreate
            \/ DockerdCrashes \/ UNCHANGED vars
  BY <1>1, <1>14
  DEF Begin, RunDies, HoldCheckFails, AskForHold, AwaitQuiet, RetryHold, StartRound, StopOne,
      Tick, AgentGoesOn, ClearHold, Recreate, DockerdCrashes, vars, runVars, stateVars, Goto,
      EndRun, Answer
<1> QED
  BY <1>3, <1>4, <1>5, <1>6, <1>7, <1>8, <1>9, <1>10, <1>11, <1>12, <1>13, <1>14
  DEF Next, RunStep

-----------------------------------------------------------------------------
(* cs-agent's answers                                                      *)

\* The run asks where nobody holds the node; while it waits its hold was
\* written, and is gone only if somebody cleared it; the answer says so.
AnswerInv ==
    /\ pc = "on" => hold = Null
    /\ pc = "waiting" => placed /\ (hold = Null => acts > 0)
    /\ pc = "answered" =>
        LET said == ClassifyOn(answer.doc, answer.rc) IN
        /\ said.outcome = "not_placed" => ~placed /\ hold = Null
        /\ said.held = "yes" => placed
        /\ said.outcome = "cleared" => placed /\ acts > 0

\* What the filter makes of a status, of an error and of no document.
LEMMA ClassifiedStatus ==
    ASSUME NEW h, NEW rc \in {0, 1, 2, 4}
    PROVE  LET said == ClassifyOn(StatusDoc(h), rc) IN
           /\ said.outcome = "not_placed" => rc = 4 /\ h = Null
           /\ said.outcome = "cleared" => rc = 1 /\ h = Null
           /\ said.held = "yes" => h # Null
<1>1. DOMAIN StatusDoc(h) = {"paused", "local", "agent_active"} /\ StatusDoc(h).local = h
  BY DEF StatusDoc
<1>2. CliShape(StatusDoc(h)) = "status"
  BY <1>1 DEF CliShape
<1>3. OnOutcome(StatusDoc(h), rc) =
         CASE rc = 0 -> IF h # Null THEN "ok" ELSE "failed"
           [] rc = 2 -> "timeout"
           [] rc = 4 -> IF h # Null THEN "unconfirmed" ELSE "not_placed"
           [] rc = 1 -> IF h # Null THEN "interrupted" ELSE "cleared"
           [] OTHER  -> "failed"
  BY <1>1, <1>2 DEF OnOutcome
<1> QED  BY <1>1, <1>2, <1>3 DEF ClassifyOn

LEMMA ClassifiedError ==
    ASSUME NEW doc, NEW rc, doc = NoDoc \/ \E code : doc = ErrorDoc(code)
    PROVE  LET said == ClassifyOn(doc, rc) IN
           said.outcome \notin {"not_placed", "cleared"} /\ said.held = "unknown"
<1>1. CASE doc = NoDoc
  <2>1. DOMAIN doc = {}
    BY <1>1 DEF NoDoc
  <2>2. CliShape(doc) = "none"
    BY <2>1 DEF CliShape
  <2> QED  BY <2>2 DEF ClassifyOn, OnOutcome
<1>2. CASE \E code : doc = ErrorDoc(code)
  <2>1. "error" \in DOMAIN doc
    BY <1>2 DEF ErrorDoc
  <2>2. CliShape(doc) = "error"
    BY <2>1 DEF CliShape
  <2> QED  BY <2>2 DEF ClassifyOn, OnOutcome
<1> QED  BY <1>1, <1>2

\* Every step keeps the run's answer true.
LEMMA AnswerStep == TypeOK /\ AnswerInv /\ [Next]_vars => AnswerInv'
<1> SUFFICES ASSUME TypeOK, AnswerInv, [Next]_vars PROVE AnswerInv'
  OBVIOUS
<1>0. acts \in Nat /\ acts' \in Nat /\ acts' >= acts
  <2>1. acts \in 0..MaxActs
    BY DEF TypeOK, BoundTypes
  <2>2. UNCHANGED acts \/ acts' = acts + 1
    BY DEF Next, RunStep, Begin, ReadStatus, AskForHold, AwaitQuiet, RetryHold, GateHold,
           StartConverge, Converge, AwaitAgent, ApplyUpdates, Decide, RecordContainers,
           HoldCheckFails, StopContainers, GateStopped, InstallPackages, RestartDocker, Reboot,
           StartContainers, StartRound, GateStarted, Release, RunDies, StopOne, Tick,
           AgentGoesOn, ClearHold, Recreate, DockerdCrashes, vars, boundVars
  <2> QED  BY <2>1, <2>2, LimitsAssumption
<1>1. ASSUME pc' \notin {"on", "waiting", "answered"} PROVE AnswerInv'
  BY <1>1 DEF AnswerInv
<1>2. ASSUME UNCHANGED <<pc, answer, placed, hold>> PROVE AnswerInv'
  BY <1>0, <1>2 DEF AnswerInv
<1>3. ASSUME NEW doc, NEW rc, Answer(doc, rc), doc = NoDoc \/ \E code : doc = ErrorDoc(code)
      PROVE  AnswerInv'
  <2>1. pc' = "answered" /\ answer'.doc = doc /\ answer'.rc = rc
    BY <1>3 DEF Answer, Said
  <2>2. ClassifyOn(answer'.doc, answer'.rc) = ClassifyOn(doc, rc)
    BY <2>1
  <2> QED  BY <1>3, <2>1, <2>2, ClassifiedError DEF AnswerInv
<1>4. ASSUME NEW rc \in {0, 1, 2, 4}, Answer(StatusDoc(hold), rc), UNCHANGED hold,
             rc = 4 /\ hold = Null => ~placed',
             rc = 1 /\ hold = Null => placed' /\ acts' > 0,
             hold # Null => placed'
      PROVE  AnswerInv'
  <2>1. pc' = "answered" /\ answer'.doc = StatusDoc(hold) /\ answer'.rc = rc
    BY <1>4 DEF Answer, Said
  <2>2. ClassifyOn(answer'.doc, answer'.rc) = ClassifyOn(StatusDoc(hold), rc)
    BY <2>1
  <2> QED  BY <1>4, <2>1, <2>2, ClassifiedStatus DEF AnswerInv
<1>5. CASE ReadStatus
  <2>1. PICK s \in Statuses :
           IF /\ CliShape(s.doc) = "status" /\ s.rc = 0
              /\ (phases = {}) <=> (s.doc.local = Null)
           THEN /\ Goto(IF phases = {} THEN "on" ELSE "next")
                /\ UNCHANGED <<stateVars, agentVars>>
           ELSE EndRun /\ Rescue
    BY <1>5 DEF ReadStatus
  <2>2. CASE ~(pc' = "on")
    <3>1. pc' \in {"idle", "next"}
      BY <2>1, <2>2 DEF Goto, EndRun
    <3> QED  BY <1>1, <3>1
  <2>3. CASE pc' = "on"
    <3>1. CliShape(s.doc) = "status" /\ s.doc.local = Null /\ UNCHANGED agentVars
      BY <2>1, <2>3 DEF Goto, EndRun
    <3>2. s.doc = StatusDoc(hold)
      <4>1. s.doc = StatusDoc(hold) \/ s.doc = NoDoc \/ \E code : s.doc = ErrorDoc(code)
        BY DEF Statuses, Said
      <4>2. CliShape(NoDoc) # "status"
        BY DEF NoDoc, CliShape
      <4>3. \A code : CliShape(ErrorDoc(code)) # "status"
        BY DEF ErrorDoc, CliShape
      <4> QED  BY <3>1, <4>1, <4>2, <4>3
    <3>3. hold' = Null
      BY <3>1, <3>2 DEF StatusDoc, agentVars
    <3> QED  BY <2>3, <3>3 DEF AnswerInv
  <2> QED  BY <2>2, <2>3
<1>6. CASE AskForHold
  <2>0. hold = Null
    BY <1>6 DEF AskForHold, AnswerInv
  <2>1. CASE /\ ~polled /\ \E doc \in {StatusDoc(hold), ErrorDoc(4)} : Answer(doc, 4)
             /\ placed' = FALSE /\ UNCHANGED <<hold, acked>>
    BY <1>3, <1>4, <2>0, <2>1
  <2>2. CASE Place /\ pc' = "waiting"
    BY <2>2 DEF Place, AnswerInv, Null
  <2>3. CASE Answer(ErrorDoc(3), 3)
    BY <1>3, <2>3
  <2> QED  BY <1>6, <2>1, <2>2, <2>3 DEF AskForHold
<1>7. CASE AwaitQuiet
  <2>1. UNCHANGED <<hold, placed>> /\ placed /\ (hold = Null => acts' > 0)
    BY <1>0, <1>7 DEF AwaitQuiet, agentVars, AnswerInv
  <2>2. CASE \E rc \in {0, 1, 2, 4} : Answer(StatusDoc(hold), rc) /\ (rc = 4 => hold # Null)
    BY <1>4, <2>1, <2>2
  <2>3. CASE \E doc, rc : Answer(doc, rc) /\ (doc = NoDoc \/ \E code : doc = ErrorDoc(code))
    BY <1>3, <2>3
  <2> QED  BY <1>7, <2>2, <2>3 DEF AwaitQuiet
<1>8. CASE RetryHold
  <2>1. ClassifyOn(answer.doc, answer.rc).outcome = "not_placed" /\ pc = "answered"
    BY <1>8 DEF RetryHold, OnRetry
  <2> QED  BY <1>8, <2>1 DEF RetryHold, agentVars, AnswerInv
<1>9. CASE ClearHold
  <2>1. hold' = Null /\ acts' > 0 /\ UNCHANGED <<pc, answer, placed>>
    BY <1>0, <1>9 DEF ClearHold, runVars
  <2> QED  BY <2>1 DEF AnswerInv
<1>10. CASE \/ StartRound \/ StopOne \/ Tick \/ AgentGoesOn \/ Recreate \/ DockerdCrashes
            \/ UNCHANGED vars
  BY <1>2, <1>10
  DEF StartRound, StopOne, Tick, AgentGoesOn, Recreate, DockerdCrashes, vars, runVars, agentVars
<1>11. CASE AwaitAgent
  BY <1>1, <1>11 DEF AwaitAgent, Goto, EndRun
<1>12. CASE \/ GateHold \/ GateStopped \/ InstallPackages \/ RestartDocker \/ Reboot \/ GateStarted
  BY <1>1, <1>12
  DEF GateHold, GateStopped, InstallPackages, RestartDocker, Reboot, GateStarted, MarkDone, Goto,
      EndRun
<1>13. CASE \/ Begin \/ RunDies \/ StartConverge \/ Converge \/ ApplyUpdates \/ Decide
            \/ RecordContainers \/ HoldCheckFails \/ StopContainers \/ StartContainers \/ Release
  BY <1>1, <1>13
  DEF Begin, RunDies, StartConverge, Converge, ApplyUpdates, Decide, RecordContainers,
      HoldCheckFails, StopContainers, StartContainers, Release, Goto, EndRun
<1> QED
  BY <1>5, <1>6, <1>7, <1>8, <1>9, <1>10, <1>11, <1>12, <1>13 DEF Next, RunStep

\* What a run makes of `maintenance on` is what cs-agent did, whatever it
\* answered and however often it was asked.
THEOREM OnIsReportedTruly == Spec => []AnswerIsTrue
<1>1. Init => AnswerInv
  BY DEF Init, AnswerInv
<1>2. AnswerInv => AnswerIsTrue
  BY DEF AnswerInv, AnswerIsTrue
<1> QED  BY <1>1, <1>2, TypeCorrect, AnswerStep, PTL DEF Spec

-----------------------------------------------------------------------------
(* The certificate dockerd runs on                                         *)

\* A certificate later than dockerd's start is one it has not loaded, and one it
\* has not loaded is not earlier. A later one on a converged node will be loaded:
\* a restart is decided on, and until it or the reboot it gives way to is done,
\* none of them is passed over.
LoadedInv ==
    /\ certAt > startedAt => loaded # cert
    /\ loaded # cert => certAt >= startedAt
    /\ "converged" \in phases /\ certAt > startedAt =>
          /\ decision.stop /\ decision.restart /\ "rebooted" \notin phases
          /\ "docker_restarted" \in phases => rebootPending

\* The file is named newer when it was written in a later second.
LEMMA NewerIs == Newer # {} <=> certAt > startedAt
<1>1. DOMAIN [server_cert |-> certAt] = {"server_cert"}
  OBVIOUS
<1>2. Newer = {f \in {"server_cert"} : certAt > startedAt}
  BY <1>1 DEF Newer, FilesNewerThan
<1> QED  BY <1>2

\* A dockerd that was started now runs on the certificate.
LEMMA StartedIsLoaded ==
    ASSUME DockTypes, StartDockerd, UNCHANGED <<fileVars, now>>
    PROVE  loaded' = cert' /\ ~(certAt' > startedAt')
  BY LimitsAssumption DEF DockTypes, StartDockerd, fileVars

\* Every step keeps it.
LEMMA LoadedStep == TypeOK /\ PhaseInv /\ LoadedInv /\ [Next]_vars => LoadedInv'
<1> SUFFICES ASSUME TypeOK, PhaseInv, LoadedInv, [Next]_vars PROVE LoadedInv'
  OBVIOUS
<1>0. DockTypes
  BY DEF TypeOK
<1>1. ASSUME loaded' = cert', ~(certAt' > startedAt') PROVE LoadedInv'
  BY <1>1 DEF LoadedInv
<1>2. ASSUME UNCHANGED <<startedAt, loaded, certAt, cert, decision, rebootPending>>,
             \/ phases' = {} \/ phases' = phases
             \/ \E phase \in AllPhases \ {"converged", "docker_restarted", "rebooted"} :
                   phases' = phases \cup {phase}
      PROVE  LoadedInv'
  BY <1>2 DEF LoadedInv
<1>3. ASSUME UNCHANGED <<dockVars, fileVars, decision>>,
             NEW phase \in {"held", "stopped", "started"}, MarkDone(phase)
      PROVE  LoadedInv'
  BY <1>2, <1>3 DEF MarkDone, dockVars, fileVars, AllPhases
<1>4. CASE ReadStatus
  BY <1>2, <1>4 DEF ReadStatus, Rescue, stateVars, dockVars, fileVars
<1>5. CASE GateHold \/ GateStopped \/ GateStarted
  <2>1. UNCHANGED <<dockVars, fileVars, decision>>
    BY <1>5 DEF GateHold, GateStopped, GateStarted
  <2>2. UNCHANGED phases \/ \E phase \in {"held", "stopped", "started"} : MarkDone(phase)
    BY <1>5 DEF GateHold, GateStopped, GateStarted
  <2> QED  BY <1>2, <1>3, <2>1, <2>2 DEF dockVars, fileVars
<1>6. CASE StartConverge \/ RecordContainers
  BY <1>2, <1>6 DEF StartConverge, RecordContainers, dockVars, fileVars, AllPhases
<1>7. CASE Converge
  <2>1. "converged" \notin phases' /\ UNCHANGED <<startedAt, loaded>>
    BY <1>7 DEF Converge, PhaseInv, stateVars, dockVars
  <2>2. CASE UNCHANGED fileVars
    BY <2>1, <2>2 DEF fileVars, LoadedInv
  <2>3. CASE cert' = cert + 1 /\ certAt' = now
    <3>1. loaded' # cert' /\ certAt' >= startedAt'
      BY <1>0, <2>1, <2>3, LimitsAssumption DEF DockTypes
    <3> QED  BY <2>1, <3>1 DEF LoadedInv
  <2> QED  BY <1>7, <2>2, <2>3 DEF Converge
<1>8. CASE ApplyUpdates
  <2>1. "converged" \notin phases' /\ UNCHANGED <<startedAt, loaded, certAt, cert>>
    BY <1>8 DEF ApplyUpdates, PhaseInv, stateVars, fileVars
  <2> QED  BY <2>1 DEF LoadedInv
<1>9. CASE Decide
  <2>1. \E force \in BOOLEAN : decision' = MaintainDecide(Drift, noted, Newer, rebootPending, force)
    BY <1>9 DEF Decide
  <2>2. Newer # {} => decision'.stop /\ decision'.restart
    <3>1. PICK force \in BOOLEAN :
             decision' = [stop    |-> \/ Drift # {} \/ noted \/ Newer # {}
                                      \/ rebootPending \/ force,
                          restart |-> noted \/ Newer # {}]
      BY <2>1 DEF MaintainDecide
    <3>2. /\ decision'.stop = \/ Drift # {} \/ noted \/ Newer # {}
                              \/ rebootPending \/ force
          /\ decision'.restart = (noted \/ Newer # {})
      BY <3>1
    <3> QED  BY <3>2, Zenon
  <2>3. /\ UNCHANGED <<startedAt, loaded, certAt, cert>>
        /\ "rebooted" \notin phases' /\ "docker_restarted" \notin phases'
    BY <1>9 DEF Decide, PhaseInv, dockVars, fileVars
  <2> QED  BY <2>2, <2>3, NewerIs DEF LoadedInv
<1>10. CASE InstallPackages
  <2>1. CASE StartDockerd
    BY <1>0, <1>1, <1>10, <2>1, StartedIsLoaded DEF InstallPackages
  <2>2. CASE UNCHANGED <<startedAt, loaded>>
    <3>1. /\ UNCHANGED <<startedAt, loaded, certAt, cert, decision>>
          /\ phases' \subseteq phases \cup {"packages"}
      BY <1>10, <2>2 DEF InstallPackages, fileVars, MarkDone
    <3>2. rebootPending => rebootPending'
      <4>1. rebootPending' = rebootPending \/ rebootPending' = TRUE
        BY <1>10, Zenon DEF InstallPackages
      <4> QED  BY <4>1, Zenon
    <3>3. \A phase \in {"converged", "rebooted", "docker_restarted"} :
             phase \in phases' => phase \in phases
      BY <3>1
    <3> QED  BY <3>1, <3>2, <3>3 DEF LoadedInv
  <2> QED  BY <1>10, <2>1, <2>2 DEF InstallPackages
<1>11. CASE RestartDocker
  <2>1. CASE StartDockerd
    BY <1>0, <1>1, <1>11, <2>1, StartedIsLoaded DEF RestartDocker
  <2>2. CASE rebootPending /\ UNCHANGED <<startedAt, loaded>>
    <3>1. /\ UNCHANGED <<startedAt, loaded, certAt, cert, decision, rebootPending>>
          /\ phases' \subseteq phases \cup {"docker_restarted"}
      BY <1>11, <2>2 DEF RestartDocker, fileVars, MarkDone
    <3> QED  BY <2>2, <3>1 DEF LoadedInv
  <2> QED  BY <1>11, <2>1, <2>2 DEF RestartDocker
<1>12. CASE Reboot
  <2>1. CASE rebootPending
    BY <1>0, <1>1, <1>12, <2>1, StartedIsLoaded DEF Reboot
  <2>2. CASE ~rebootPending
    <3>1. decision.restart => "docker_restarted" \in phases
      BY <1>12, NextIs DEF Reboot
    <3>2. "converged" \in phases
      BY <1>12, NextIs DEF Reboot, PhaseInv
    <3>3. ~(certAt > startedAt)
      BY <2>2, <3>1, <3>2 DEF LoadedInv
    <3>4. UNCHANGED <<startedAt, loaded, certAt, cert>>
      BY <1>12, <2>2 DEF Reboot, fileVars
    <3> QED  BY <3>3, <3>4 DEF LoadedInv
  <2> QED  BY <2>1, <2>2
<1>13. CASE Release
  <2>1. phases' = {} /\ UNCHANGED <<startedAt, loaded, certAt, cert>>
    BY <1>13 DEF Release, dockVars, fileVars
  <2> QED  BY <2>1 DEF LoadedInv
<1>14. CASE DockerdCrashes
  <2>1. startedAt' = now + 1 /\ loaded' = cert /\ UNCHANGED <<certAt, cert>>
    BY <1>14 DEF DockerdCrashes, fileVars
  <2> QED  BY <1>0, <1>1, <2>1, LimitsAssumption DEF DockTypes
<1>15. CASE \/ Begin \/ RunDies \/ HoldCheckFails \/ AskForHold \/ AwaitQuiet \/ RetryHold
            \/ AwaitAgent \/ StopContainers \/ StartContainers
            \/ StartRound \/ StopOne \/ Tick \/ AgentGoesOn \/ ClearHold \/ Recreate
            \/ UNCHANGED vars
  BY <1>2, <1>15
  DEF Begin, RunDies, HoldCheckFails, AskForHold, AwaitQuiet, RetryHold, AwaitAgent,
      StopContainers, StartContainers, StartRound, StopOne, Tick, AgentGoesOn, ClearHold,
      Recreate, vars, stateVars, fileVars, dockVars
<1> QED
  BY <1>4, <1>5, <1>6, <1>7, <1>8, <1>9, <1>10, <1>11, <1>12, <1>13, <1>14, <1>15
  DEF Next, RunStep

\* The order of the phases and the certificate, in every state.
LEMMA LoadedHolds == Spec => [](PhaseInv /\ LoadedInv)
<1>1. Init => PhaseInv /\ LoadedInv
  BY DEF Init, PhaseInv, LoadedInv
<1> QED  BY <1>1, TypeCorrect, PhaseStep, LoadedStep, PTL DEF Spec

\* A node is released with dockerd on the certificate of its disk, although the
\* run that wrote it died and its note was lost; the one exception is a certificate
\* of the very second in which dockerd started.
THEOREM ReleasedIsCurrent == Spec => []ReleasedOnItsCertificate
<1>1. DockTypes /\ PhaseInv /\ LoadedInv => ReleasedOnItsCertificate
  <2> SUFFICES ASSUME DockTypes, PhaseInv, LoadedInv, At("release"), loaded # cert
               PROVE  certAt = startedAt
    BY DEF ReleasedOnItsCertificate
  <2>1. certAt >= startedAt /\ certAt \in Nat /\ startedAt \in Nat
    BY DEF LoadedInv, DockTypes
  <2>2. ~(certAt > startedAt)
    BY NextIs DEF LoadedInv
  <2> QED  BY <2>1, <2>2
<1> QED  BY <1>1, TypeCorrect, LoadedHolds, PTL DEF TypeOK

\* A file named newer than the dockerd that runs is one it has not loaded: the
\* decision to stop containers over it is never one for nothing.
THEOREM NamedIsNotLoaded == Spec => []NoNeedlessRestart
<1>1. LoadedInv => NoNeedlessRestart
  BY NewerIs DEF LoadedInv, NoNeedlessRestart
<1> QED  BY <1>1, LoadedHolds, PTL

-----------------------------------------------------------------------------
(* The stopped window                                                      *)

\* From the check that they are stopped until the reboot step is done, no
\* recorded container runs that was not recreated since.
DownInv ==
    "stopped" \in phases /\ "rebooted" \notin phases
        => {r.name : r \in recorded} \cap up \subseteq revived

\* Every step keeps it.
LEMMA DownStep == TypeOK /\ IdsInv /\ PhaseInv /\ DownInv /\ [Next]_vars => DownInv'
<1> SUFFICES ASSUME TypeOK, IdsInv, PhaseInv, DownInv, [Next]_vars PROVE DownInv'
  OBVIOUS
<1>1. ASSUME UNCHANGED recorded, "stopped" \in phases' => "stopped" \in phases,
             "rebooted" \in phases => "rebooted" \in phases',
             "stopped" \in phases => up' \subseteq up /\ revived \subseteq revived'
      PROVE  DownInv'
  BY <1>1 DEF DownInv
<1>2. ASSUME UNCHANGED <<recorded, up, revived>>, NEW phase, phase # "stopped", MarkDone(phase)
      PROVE  DownInv'
  BY <1>1, <1>2 DEF MarkDone
<1>3. ASSUME "stopped" \notin phases' PROVE DownInv'
  BY <1>3 DEF DownInv
<1>4. CASE ReadStatus
  <2>1. phases' = {} \/ UNCHANGED phases
    BY <1>4 DEF ReadStatus, Rescue, stateVars
  <2>2. UNCHANGED <<recorded, up, revived>>
    BY <1>4 DEF ReadStatus, Rescue, stateVars, contVars
  <2> QED  BY <1>1, <1>3, <2>1, <2>2
<1>5. CASE GateStopped
  <2>1. UNCHANGED <<recorded, up, revived>>
    BY <1>5 DEF GateStopped, contVars
  <2>2. CASE UNCHANGED phases
    BY <1>1, <2>1, <2>2
  <2>3. CASE NoneRuns
    <3>1. \A r \in recorded : r.name \notin up
      BY <2>3, ResolvedIs DEF NoneRuns, TypeOK, ContTypes
    <3> QED  BY <2>1, <2>3, <3>1 DEF DownInv
  <2> QED  BY <1>5, <2>2, <2>3 DEF GateStopped
<1>6. CASE GateHold \/ GateStarted \/ InstallPackages \/ RestartDocker
  <2>1. UNCHANGED <<recorded, up, revived>>
    BY <1>6 DEF GateHold, GateStarted, InstallPackages, RestartDocker, contVars
  <2>2. \/ UNCHANGED phases
        \/ \E phase \in {"held", "started", "packages", "docker_restarted"} : MarkDone(phase)
    BY <1>6 DEF GateHold, GateStarted, InstallPackages, RestartDocker
  <2> QED  BY <1>1, <1>2, <2>1, <2>2
<1>7. CASE Reboot
  <2>1. /\ UNCHANGED <<recorded, revived>> /\ up' \subseteq up
        /\ phases' = phases \/ phases' = phases \cup {"rebooted"}
    BY <1>7 DEF Reboot, MarkDone
  <2> QED  BY <1>1, <2>1
<1>8. CASE StartConverge \/ Decide
  <2>1. /\ UNCHANGED <<recorded, up, revived>>
        /\ \E phase \in {"converge_started", "converged"} : phases' = phases \cup {phase}
    BY <1>8 DEF StartConverge, Decide, contVars
  <2> QED  BY <1>1, <2>1
<1>9. CASE RecordContainers
  <2>1. "stopped" \notin phases /\ phases' = phases \cup {"recorded"}
    BY <1>9, NextIs DEF RecordContainers, PhaseInv
  <2> QED  BY <1>3, <2>1
<1>10. CASE StopContainers
  <2>1. "stopped" \notin phases /\ UNCHANGED phases
    BY <1>10, NextIs DEF StopContainers, stateVars
  <2> QED  BY <1>3, <2>1
<1>11. CASE StartRound
  <2>1. "rebooted" \in phases /\ UNCHANGED phases
    BY <1>11 DEF StartRound, PhaseInv, stateVars
  <2> QED  BY <2>1 DEF DownInv
<1>12. CASE Recreate
  <2>1. UNCHANGED <<recorded, phases>>
    BY <1>12 DEF Recreate, stateVars
  <2>2. CASE up' \subseteq up /\ UNCHANGED revived
    BY <1>1, <2>1, <2>2
  <2>3. CASE \E n \in Names :
                /\ up' = up \cup {n}
                /\ revived' = IF Done("stopped") THEN revived \cup {n} ELSE revived
    BY <2>1, <2>3 DEF DownInv, Done
  <2> QED  BY <1>12, <2>2, <2>3 DEF Recreate
<1>13. CASE Release
  BY <1>3, <1>13 DEF Release
<1>14. CASE StopOne
  <2>1. UNCHANGED <<recorded, phases, revived>> /\ up' \subseteq up
    BY <1>14 DEF StopOne, stateVars
  <2> QED  BY <1>1, <2>1
<1>15. CASE \/ Begin \/ RunDies \/ HoldCheckFails \/ AskForHold \/ AwaitQuiet \/ RetryHold
            \/ Converge \/ AwaitAgent \/ ApplyUpdates \/ StartContainers
            \/ Tick \/ AgentGoesOn \/ ClearHold \/ DockerdCrashes \/ UNCHANGED vars
  BY <1>1, <1>15
  DEF Begin, RunDies, HoldCheckFails, AskForHold, AwaitQuiet, RetryHold, Converge, AwaitAgent,
      ApplyUpdates, StartContainers, Tick, AgentGoesOn, ClearHold, DockerdCrashes, vars,
      stateVars, contVars
<1> QED
  BY <1>4, <1>5, <1>6, <1>7, <1>8, <1>9, <1>10, <1>11, <1>12, <1>13, <1>14, <1>15
  DEF Next, RunStep

\* The order of the phases and the window, in every state.
LEMMA DownHolds == Spec => [](PhaseInv /\ DownInv)
<1>1. Init => DownInv
  BY DEF Init, DownInv
<1> QED  BY <1>1, TypesHold, LoadedHolds, DownStep, PTL DEF Spec

\* dockerd restarts and the node reboots with nothing recorded running, also
\* when the run was re-run, a recorded container was recreated before the stop, or
\* a dead run's `docker stop` goes on; only what was recreated and started after
\* the stop runs through them.
THEOREM RestartsFindNothingRunning == Spec => NothingRunsThroughTheRestart
<1> DEFINE Restarts == \/ InstallPackages /\ Drift # {}
                       \/ RestartDocker /\ ~rebootPending
                       \/ Reboot /\ rebootPending
<1>1. PhaseInv /\ DownInv /\ Restarts => {r.name : r \in recorded} \cap up \subseteq revived
  BY NextIs DEF InstallPackages, RestartDocker, Reboot, DownInv
<1>2. PhaseInv /\ DownInv => [Restarts => {r.name : r \in recorded} \cap up \subseteq revived]_vars
  BY <1>1
<1> QED  BY <1>2, DownHolds, PTL DEF NothingRunsThroughTheRestart

-----------------------------------------------------------------------------
(* The containers that wait for each other                                 *)

\* Induction over the naturals, for a set: its complement has no least element.
LEMMA SetInduction ==
    ASSUME NEW S, 0 \in S, \A k \in Nat : k \in S => k + 1 \in S
    PROVE  Nat \subseteq S
<1> DEFINE Rel == {ss \in Nat \X Nat : ss[1] < ss[2]}
<1> DEFINE Rest == Nat \ S
<1>1. IsWellFoundedOn(Rel, Nat)
  BY NatLessThanWellFounded DEF OpToRel
<1>2. \A j, k \in Nat : <<j, k>> \in Rel <=> j < k
  OBVIOUS
<1>3. SUFFICES ASSUME Rest # {} PROVE FALSE
  OBVIOUS
<1> HIDE DEF Rel
<1>4. PICK k \in Rest : \A j \in Rest : ~(<<j, k>> \in Rel)
  BY <1>1, <1>3, WFMin
<1>5. k # 0 /\ k \in Nat
  OBVIOUS
<1>6. k - 1 \in Nat /\ k - 1 < k /\ (k - 1) + 1 = k
  BY <1>5
<1>7. k - 1 \in S
  BY <1>2, <1>4, <1>6
<1> QED  BY <1>6, <1>7

\* The names that are to be started: the recorded ones that have a container.
Wanted == {r.name : r \in {q \in recorded : ids[q.name] # Null}}

\* Those of a set that come up within k attempts.
ReachIn(W) ==
    CHOOSE f : f = [k \in Nat |-> IF k = 0 THEN {} ELSE {n \in W : NeedsFirst[n] \subseteq f[k - 1]}]

LEMMA WantedIs ==
    ASSUME IdsInv, up \subseteq Names
    PROVE  RequiredToStart \cup OptionalToStart = Wanted
<1>1. RequiredToStart \cup OptionalToStart = {e.name : e \in {r \in Resolved : Found(r)}}
  BY DEF RequiredToStart, OptionalToStart, FoundNames, Required, Accepted
<1>2. ASSUME NEW e \in Resolved, Found(e) PROVE e.name \in Wanted
  BY <1>2, ResolvedIs DEF Found, Wanted
<1>3. ASSUME NEW r \in recorded, ids[r.name] # Null
      PROVE  \E e \in Resolved : Found(e) /\ e.name = r.name
  BY <1>3, ResolvedIs DEF Found
<1>4. \A n \in Wanted : \E r \in recorded : ids[r.name] # Null /\ n = r.name
  BY DEF Wanted
<1> QED  BY <1>1, <1>2, <1>3, <1>4

\* A sequence of such sets exists up to every k, and only one.
LEMMA ReachUnfolds ==
    ASSUME NEW W
    PROVE  /\ ReachIn(W)[0] = {}
           /\ \A k \in Nat : ReachIn(W)[k + 1] = {n \in W : NeedsFirst[n] \subseteq ReachIn(W)[k]}
<1> DEFINE After(S) == {n \in W : NeedsFirst[n] \subseteq S}
<1> DEFINE Climbs(f, m) == /\ f[0] = {}
                           /\ \A k \in Nat : k < m => f[k + 1] = After(f[k])
<1>1. \A m \in Nat : \E f : Climbs(f, m)
  <2> DEFINE S == {m \in Nat : \E f : Climbs(f, m)}
  <2>1. 0 \in S
    <3>1. Climbs([k \in Nat |-> {}], 0)
      OBVIOUS
    <3> QED  BY <3>1
  <2>2. ASSUME NEW m \in Nat, m \in S PROVE m + 1 \in S
    <3>1. PICK f : Climbs(f, m)
      BY <2>2
    <3> DEFINE g == [k \in Nat |-> IF k <= m THEN f[k] ELSE After(f[m])]
    <3>2. g[0] = {}
      BY <3>1
    <3>3. ASSUME NEW k \in Nat, k < m + 1 PROVE g[k + 1] = After(g[k])
      <4>1. k <= m /\ g[k] = f[k]
        BY <3>3
      <4>2. CASE k < m
        <5>1. g[k + 1] = f[k + 1]
          BY <4>2
        <5>2. f[k + 1] = After(f[k])
          BY <3>1, <4>2
        <5> QED  BY <4>1, <5>1, <5>2
      <4>3. CASE k = m
        <5>1. g[k + 1] = After(f[m])
          BY <4>3
        <5> QED  BY <4>1, <4>3, <5>1
      <4> QED  BY <4>1, <4>2, <4>3
    <3>4. Climbs(g, m + 1)
      <4> HIDE DEF g, After
      <4> QED  BY <3>2, <3>3
    <3>5. \E h : Climbs(h, m + 1)
      <4> HIDE DEF g, Climbs
      <4> QED  BY <3>4
    <3> QED  BY <3>5
  <2> HIDE DEF S
  <2>3. Nat \subseteq S
    BY <2>1, <2>2, SetInduction
  <2> QED  BY <2>3 DEF S
<1>2. \A k \in Nat : \A m, p \in Nat : \A f, g :
         Climbs(f, m) /\ Climbs(g, p) /\ k <= m /\ k <= p => f[k] = g[k]
  <2> DEFINE S == {k \in Nat : \A m, p \in Nat : \A f, g :
                     Climbs(f, m) /\ Climbs(g, p) /\ k <= m /\ k <= p => f[k] = g[k]}
  <2>1. 0 \in S
    OBVIOUS
  <2>2. ASSUME NEW k \in Nat, k \in S PROVE k + 1 \in S
    <3> SUFFICES ASSUME NEW m \in Nat, NEW p \in Nat, NEW f, NEW g,
                        Climbs(f, m), Climbs(g, p), k + 1 <= m, k + 1 <= p
                 PROVE  f[k + 1] = g[k + 1]
      <4> HIDE DEF Climbs
      <4> QED  OBVIOUS
    <3>1. f[k] = g[k]
      <4>1. k <= m /\ k <= p
        OBVIOUS
      <4> HIDE DEF Climbs
      <4> QED  BY <2>2, <4>1
    <3>2. f[k + 1] = After(f[k]) /\ g[k + 1] = After(g[k])
      <4> HIDE DEF After
      <4> QED  OBVIOUS
    <3> QED  BY <3>1, <3>2
  <2> HIDE DEF S
  <2>3. Nat \subseteq S
    BY <2>1, <2>2, SetInduction
  <2> QED  BY <2>3 DEF S
<1> DEFINE To(k) == CHOOSE f : Climbs(f, k)
<1> DEFINE R == [k \in Nat |-> To(k)[k]]
<1>3. \A k \in Nat : Climbs(To(k), k)
  <2> HIDE DEF Climbs
  <2> QED  BY <1>1
<1>4. R[0] = {}
  <2> HIDE DEF To
  <2> QED  BY <1>3
<1>5. \A k \in Nat : R[k + 1] = After(R[k])
  <2> SUFFICES ASSUME NEW k \in Nat PROVE R[k + 1] = After(R[k])
    OBVIOUS
  <2> HIDE DEF To
  <2>1. R[k + 1] = To(k + 1)[k + 1] /\ R[k] = To(k)[k]
    OBVIOUS
  <2>2. Climbs(To(k + 1), k + 1) /\ Climbs(To(k), k)
    <3> HIDE DEF Climbs
    <3> QED  BY <1>3
  <2>3. To(k + 1)[k + 1] = After(To(k + 1)[k])
    <3> HIDE DEF After
    <3> QED  BY <2>2
  <2>4. To(k + 1)[k] = To(k)[k]
    <3> HIDE DEF Climbs
    <3> QED  BY <1>2, <2>2
  <2> QED  BY <2>1, <2>3, <2>4
<1>6. R = [k \in Nat |-> IF k = 0 THEN {} ELSE {n \in W : NeedsFirst[n] \subseteq R[k - 1]}]
  <2> DEFINE Q == [k \in Nat |-> IF k = 0 THEN {} ELSE After(R[k - 1])]
  <2> HIDE DEF To, After
  <2>1. \A k \in Nat : R[k] = Q[k]
    <3> SUFFICES ASSUME NEW k \in Nat PROVE R[k] = Q[k]
      OBVIOUS
    <3>1. CASE k = 0
      BY <1>4, <3>1
    <3>2. CASE k # 0
      <4>1. k - 1 \in Nat /\ (k - 1) + 1 = k
        BY <3>2
      <4>2. R[k] = After(R[k - 1])
        BY <1>5, <4>1
      <4> HIDE DEF R
      <4> QED  BY <3>2, <4>2
    <3> QED  BY <3>1, <3>2
  <2>2. R = Q
    <3>1. R = [k \in Nat |-> R[k]] /\ Q = [k \in Nat |-> Q[k]]
      OBVIOUS
    <3> HIDE DEF R, Q
    <3> QED  BY <2>1, <3>1
  <2> HIDE DEF R
  <2> QED  BY <2>2 DEF After
<1> HIDE DEF R
<1>7. ReachIn(W) = [k \in Nat |-> IF k = 0 THEN {}
                                  ELSE {n \in W : NeedsFirst[n] \subseteq ReachIn(W)[k - 1]}]
  BY <1>6 DEF ReachIn
<1>8. \A k \in Nat : ReachIn(W)[k] = IF k = 0 THEN {}
                                     ELSE {n \in W : NeedsFirst[n] \subseteq ReachIn(W)[k - 1]}
  BY <1>7
<1>9. ASSUME NEW k \in Nat
      PROVE  ReachIn(W)[k + 1] = {n \in W : NeedsFirst[n] \subseteq ReachIn(W)[k]}
  <2>1. k + 1 \in Nat /\ k + 1 # 0 /\ (k + 1) - 1 = k
    OBVIOUS
  <2> QED  BY <1>8, <2>1
<1> QED  BY <1>8, <1>9

\* The helper's rounds, when nothing stops what it starts: a container that is
\* still down was tried in each of them while it had retries left, and whatever
\* comes up within as many attempts is up.
StartInv ==
    /\ pc # "starting" => attempts = NoAttempts /\ rounds = 0 /\ ~hit
    /\ pc = "starting" /\ ~hit =>
        /\ \A n \in Wanted \ up :
              attempts[n] = IF rounds < StartRetries THEN rounds ELSE StartRetries
        /\ \A k \in 0..StartRetries : k <= rounds => ReachIn(Wanted)[k] \subseteq up

LEMMA ReachIsIn ==
    ASSUME IdsInv, up \subseteq Names
    PROVE  Reach = ReachIn(Wanted)
<1>1. Reach = ReachIn(RequiredToStart \cup OptionalToStart)
  BY DEF Reach, ReachIn
<1> QED  BY <1>1, WantedIs

\* Every step keeps what the rounds have brought up.
LEMMA StartStep ==
    TypeOK /\ IdsInv /\ StartInv /\ [Next]_vars => StartInv'
<1> SUFFICES ASSUME TypeOK, IdsInv, StartInv, [Next]_vars PROVE StartInv'
  OBVIOUS
<1>0. /\ up \subseteq Names /\ rounds \in Nat /\ StartRetries \in Nat
      /\ attempts \in [Names -> 0..StartRetries]
      /\ Wanted \subseteq Names
  BY LimitsAssumption DEF TypeOK, ContTypes, Wanted, IdsInv
<1>1. ASSUME pc' # "starting", pc # "starting", UNCHANGED helpVars PROVE StartInv'
  BY <1>1 DEF StartInv, helpVars
<1>2. ASSUME UNCHANGED <<pc, attempts, rounds, hit, up, ids, recorded>> PROVE StartInv'
  <2>1. Wanted' = Wanted
    BY <1>2 DEF Wanted
  <2>2. pc' = pc /\ attempts' = attempts /\ rounds' = rounds /\ up' = up /\ hit' = hit
    BY <1>2
  <2> QED  BY <2>1, <2>2 DEF StartInv
<1>3. CASE StartContainers
  <2>0. pc' = "starting" /\ UNCHANGED <<attempts, rounds, hit, up, ids, recorded>>
    BY <1>3 DEF StartContainers, Goto, stateVars, contVars, helpVars
  <2>1. /\ rounds' = 0 /\ attempts' = NoAttempts /\ UNCHANGED <<up, ids, recorded>>
    <3>1. pc # "starting"
      BY <1>3 DEF StartContainers, At
    <3> QED  BY <2>0, <3>1 DEF StartInv
  <2>2. Wanted' = Wanted
    BY <2>1 DEF Wanted
  <2>3. \A n \in Wanted : attempts'[n] = 0
    BY <1>0, <2>1 DEF NoAttempts
  <2>4. \A k \in 0..StartRetries : k <= 0 => k = 0
    BY <1>0
  <2>5. ReachIn(Wanted)[0] = {}
    BY ReachUnfolds
  <2>6. \A k \in 0..StartRetries : k <= rounds' => ReachIn(Wanted')[k] \subseteq up'
    BY <2>1, <2>2, <2>4, <2>5
  <2>7. \A n \in Wanted' \ up' :
           attempts'[n] = IF rounds' < StartRetries THEN rounds' ELSE StartRetries
    BY <1>0, <2>1, <2>2, <2>3
  <2> QED  BY <2>0, <2>6, <2>7 DEF StartInv
<1>4. CASE StartRound
  <2>0. /\ pc = "starting" /\ rounds' = rounds + 1
        /\ attempts' = [n \in Names |-> IF n \in Startable THEN attempts[n] + 1 ELSE attempts[n]]
        /\ UNCHANGED <<pc, hit, ids, recorded>>
    BY <1>4 DEF StartRound, runVars, stateVars
  <2> SUFFICES ASSUME ~hit PROVE StartInv'
    BY <2>0 DEF StartInv
  <2>1. PICK came \in SUBSET Startable :
           /\ {n \in Startable : NeedsFirst[n] \subseteq up} \subseteq came
           /\ up' = up \cup came
    BY <1>4 DEF StartRound
  <2>2. Wanted' = Wanted
    BY <2>0 DEF Wanted
  <2>3. Startable = {n \in Wanted \ up : attempts[n] < StartRetries}
    BY <1>0, WantedIs DEF Startable
  <2>4. \A n \in Wanted \ up : attempts[n] = IF rounds < StartRetries THEN rounds ELSE StartRetries
    BY <2>0 DEF StartInv
  <2>5. ASSUME NEW n \in Wanted' \ up'
        PROVE  attempts'[n] = IF rounds' < StartRetries THEN rounds' ELSE StartRetries
    <3>1. n \in Wanted \ up /\ n \in Names
      BY <1>0, <2>1, <2>2, <2>5
    <3>2. CASE rounds < StartRetries
      <4>1. attempts[n] = rounds /\ n \in Startable
        BY <2>3, <2>4, <3>1, <3>2
      <4>2. attempts'[n] = rounds + 1
        BY <2>0, <3>1, <4>1
      <4> QED  BY <1>0, <2>0, <3>2, <4>2
    <3>3. CASE ~(rounds < StartRetries)
      <4>1. attempts[n] = StartRetries /\ n \notin Startable
        BY <1>0, <2>3, <2>4, <3>1, <3>3
      <4>2. attempts'[n] = StartRetries
        BY <2>0, <3>1, <4>1
      <4> QED  BY <1>0, <2>0, <3>3, <4>2
    <3> QED  BY <3>2, <3>3
  <2>6. ASSUME NEW k \in 0..StartRetries, k <= rounds' PROVE ReachIn(Wanted)[k] \subseteq up'
    <3>1. CASE k <= rounds
      BY <2>0, <2>1, <3>1 DEF StartInv
    <3>2. CASE k = rounds + 1
      <4>1. rounds < StartRetries /\ rounds \in 0..StartRetries
        BY <1>0, <2>6, <3>2
      <4>2. ReachIn(Wanted)[rounds] \subseteq up
        BY <1>0, <2>0, <4>1 DEF StartInv
      <4>3. ReachIn(Wanted)[k] = {n \in Wanted : NeedsFirst[n] \subseteq ReachIn(Wanted)[rounds]}
        <5>1. \A j \in Nat : ReachIn(Wanted)[j + 1] =
                               {n \in Wanted : NeedsFirst[n] \subseteq ReachIn(Wanted)[j]}
          BY ReachUnfolds
        <5> QED  BY <1>0, <3>2, <5>1
      <4>4. ASSUME NEW n \in ReachIn(Wanted)[k], n \notin up PROVE n \in up'
        <5>1. n \in Wanted \ up /\ NeedsFirst[n] \subseteq up
          BY <4>2, <4>3, <4>4
        <5>2. n \in Startable
          BY <2>3, <2>4, <4>1, <5>1
        <5> QED  BY <2>1, <5>1, <5>2
      <4> QED  BY <2>1, <4>4
    <3> QED  BY <1>0, <2>0, <2>6, <3>1, <3>2
  <2>7. \A k \in 0..StartRetries : k <= rounds' => ReachIn(Wanted')[k] \subseteq up'
    BY <2>2, <2>6
  <2> QED  BY <2>0, <2>5, <2>7 DEF StartInv
<1>5. CASE StopOne
  <2>1. hit' = (pc = "starting") /\ UNCHANGED <<pc, attempts, rounds>>
    BY <1>5 DEF StopOne, runVars
  <2> QED  BY <2>1 DEF StartInv
<1>6. CASE Recreate
  BY <1>1, <1>6 DEF Recreate, runVars
<1>7. CASE Tick \/ AgentGoesOn \/ ClearHold \/ DockerdCrashes \/ UNCHANGED vars
  <2>1. UNCHANGED <<pc, contVars, helpVars, recorded>>
    BY <1>7 DEF Tick, AgentGoesOn, ClearHold, DockerdCrashes, vars, runVars, stateVars
  <2>2. UNCHANGED <<pc, attempts, rounds, hit, up, ids, recorded>>
    BY <2>1 DEF contVars, helpVars
  <2> QED  BY <1>2, <2>2
<1>8. CASE RunDies \/ GateStarted
  <2>1. pc' # "starting"
    BY <1>8 DEF RunDies, GateStarted, MarkDone, Goto, EndRun, HelperIsDone
  <2>2. attempts' = NoAttempts /\ rounds' = 0 /\ hit' = FALSE
    BY <1>8, Zenon DEF RunDies, GateStarted, HelperIsDone
  <2> QED  BY <2>1, <2>2 DEF StartInv, NoAttempts
<1>9. CASE \/ GateHold \/ GateStopped \/ InstallPackages \/ RestartDocker \/ Reboot
  BY <1>1, <1>9
  DEF GateHold, GateStopped, InstallPackages, RestartDocker, Reboot, MarkDone, Goto, EndRun, At
<1>10. CASE \/ Begin \/ ReadStatus \/ AskForHold \/ AwaitQuiet \/ RetryHold
            \/ StartConverge \/ Converge \/ AwaitAgent \/ ApplyUpdates \/ Decide
            \/ RecordContainers \/ HoldCheckFails \/ StopContainers \/ Release
  <2>1. pc # "starting" /\ pc' # "starting" /\ UNCHANGED helpVars
    BY <1>10
    DEF Begin, ReadStatus, AskForHold, AwaitQuiet, RetryHold, StartConverge, Converge,
        AwaitAgent, ApplyUpdates, Decide, RecordContainers, HoldCheckFails, StopContainers,
        Release, Goto, EndRun, Answer, At
  <2> QED  BY <1>1, <2>1
<1> QED
  BY <1>3, <1>4, <1>5, <1>6, <1>7, <1>8, <1>9, <1>10 DEF Next, RunStep

\* A helper that ends before its deadline has brought up every container that
\* only had to wait for others, up to a chain of its retries' length.
THEOREM WaitingComeUp == Spec => []DependentsComeUp
<1>1. Init => StartInv
  BY DEF Init, StartInv
<1>2. TypeOK /\ IdsInv /\ StartInv => DependentsComeUp
  <2> SUFFICES ASSUME TypeOK, IdsInv, StartInv,
                      pc = "starting", StartIsOver, rounds < StartRounds, ~hit
               PROVE  Reach[StartRetries] \subseteq up
    BY DEF DependentsComeUp
  <2>0. /\ up \subseteq Names /\ rounds \in Nat /\ StartRetries \in Nat /\ StartRounds \in Nat
    BY LimitsAssumption DEF TypeOK, ContTypes
  <2>1. Reach = ReachIn(Wanted) /\ RequiredToStart \cup OptionalToStart = Wanted
    BY <2>0, ReachIsIn, WantedIs
  <2>2. CASE StartRetries <= rounds
    <3>1. StartRetries \in 0..StartRetries
      BY <2>0
    <3> QED  BY <2>1, <2>2, <3>1 DEF StartInv
  <2>3. CASE rounds < StartRetries
    <3>1. Startable = Wanted \ up
      BY <2>1, <2>3 DEF Startable, StartInv
    <3>2. Wanted \subseteq up
      BY <2>0, <2>1, <3>1 DEF StartIsOver
    <3>3. StartRetries - 1 \in Nat /\ (StartRetries - 1) + 1 = StartRetries
      BY <2>0, <2>3
    <3>4. ReachIn(Wanted)[StartRetries] \subseteq Wanted
      BY <3>3, ReachUnfolds
    <3> QED  BY <2>1, <3>2, <3>4
  <2> QED  BY <2>0, <2>2, <2>3
<1> QED  BY <1>1, <1>2, TypesHold, StartStep, PTL DEF Spec

=============================================================================
