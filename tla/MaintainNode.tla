---------------------------- MODULE MaintainNode ----------------------------
(***************************************************************************)
(* One node through playbooks/maintain-nodes.yml, at the grain NodeUpgrade *)
(* leaves out: the conversation with cs-agent (hold.yml, agent_wait.yml),  *)
(* the second dockerd was started in (maintain_decide.yml), the identity   *)
(* of the recorded containers (record.yml, stop.yml, start.yml) and the    *)
(* rounds of files/node-upgrade-containers.                                *)
(*                                                                         *)
(* A run fails or dies between any two steps, and between a step's work    *)
(* and its mark in state.json.  Its `docker stop` batch outlives it.       *)
(* `now` is in seconds: dockerd may start and be given a certificate in    *)
(* one second, in either order.                                            *)
(* The release is one step: its crash windows are NodeUpgrade's.           *)
(***************************************************************************)
EXTENDS NodeUpgradeFilters

CONSTANTS
    Names,           \* container names
    FirstId, NextId, \* [name -> the id of its container, of a recreated one]
    SystemNames,     \* those a systemd unit runs
    NeedsFirst,      \* [name -> the names that must be up or it exits at once]
    AcceptDown,      \* node_upgrade_accept_down
    Tries,           \* node_upgrade_hold_not_placed_retries
    Polls,           \* polls for the agent that fit into node_upgrade_agent_wait
    StartRetries,    \* node_upgrade_start_retries
    StartRounds,     \* rounds that fit into node_upgrade_start_wait
    MaxDeaths,       \* bound: runs that die or fail on their own
    MaxTime,         \* bound: seconds
    MaxCerts,        \* bound: certificates written
    MaxActs          \* bound: holds cleared, containers recreated, dockerd crashes

\* docker never gives out an id twice.
ASSUME NamesAssumption ==
    /\ SystemNames \subseteq Names
    /\ FirstId = [n \in Names |-> FirstId[n]] /\ NextId = [n \in Names |-> NextId[n]]
    /\ DOMAIN NeedsFirst = Names
    /\ \A n \in Names : Null \notin {FirstId[n], NextId[n]} /\ FirstId[n] # NextId[n]
    /\ \A m, n \in Names : m # n => {FirstId[m], NextId[m]} \cap {FirstId[n], NextId[n]} = {}
ASSUME LimitsAssumption ==
    /\ {Tries, Polls, StartRetries, StartRounds, MaxDeaths, MaxTime, MaxCerts, MaxActs} \subseteq Nat
    /\ MaxTime > 0

VARIABLES
    \* the run, all of it lost when it dies
    pc,          \* the task about to run
    tries,       \* retries used by the task's `until`
    answer,      \* what `maintenance on` printed, and its rc
    noted,       \* docker_tls_restart_deferred_reasons is not empty
    \* state.json, which exists when it has a phase
    phases, decision, recorded,
    \* cs-agent
    hold,        \* the local hold in control.db
    agent,       \* "active" or "starting"
    polled,      \* the controller has polled with maintenance support
    acked, busy, \* the controller confirmed the hold; work is in flight
    placed,      \* history: the last `on` wrote a hold
    \* dockerd
    now, startedAt, certAt, cert, loaded, engine, rebootPending,
    \* containers, and the helper that stops and starts them
    ids,         \* [name -> its container's id, or Null once it is removed]
    up,          \* the names that run
    batch,       \* the containers the run's `docker stop` is still to reach
    orphans,     \* ... and those of the runs that died meanwhile
    revived,     \* history: the names recreated and running after the stop
    attempts, rounds,
    hit,         \* history: a stop came while the helper was starting
    \* bounds
    deaths, acts

runVars   == <<pc, tries, answer, noted>>
stateVars == <<phases, decision, recorded>>
agentVars == <<hold, agent, polled, acked, busy, placed>>
fileVars  == <<certAt, cert>>
dockVars  == <<startedAt, loaded, engine, rebootPending>>
contVars  == <<ids, up, batch, orphans, revived>>
helpVars  == <<attempts, rounds, hit>>
boundVars == <<deaths, acts>>
vars == <<runVars, stateVars, agentVars, now, fileVars, dockVars, contVars, helpVars, boundVars>>

NoDecision == [stop |-> FALSE, restart |-> FALSE]
NoAttempts == [n \in Names |-> 0]

Init ==
    /\ pc = "idle" /\ tries = 0 /\ answer = <<>> /\ noted = FALSE
    /\ phases = {} /\ decision = NoDecision /\ recorded = {}
    /\ hold = Null /\ agent = "active" /\ placed = FALSE
    /\ polled \in BOOLEAN /\ acked = FALSE /\ busy \in BOOLEAN
    /\ now = 1 /\ startedAt = 1 /\ certAt = 0 /\ cert = 0 /\ loaded = 0
    /\ engine \in {"old", "pinned"} /\ rebootPending = FALSE
    /\ ids = FirstId /\ up = Names
    /\ batch = {} /\ orphans = {} /\ revived = {}
    /\ attempts = NoAttempts /\ rounds = 0 /\ hit = FALSE
    /\ deaths = 0 /\ acts = 0

-----------------------------------------------------------------------------
(* How a run goes on or ends. *)

Done(phase) == phase \in phases

Goto(label) == pc' = label /\ tries' = 0 /\ answer' = <<>> /\ UNCHANGED noted

EndRun == pc' = "idle" /\ tries' = 0 /\ answer' = <<>> /\ noted' = FALSE

\* The helper counts its attempts and rounds for one call only.
HelperIsDone == attempts' = NoAttempts /\ rounds' = 0 /\ hit' = FALSE

\* A step whose work is done marks its phase; or the run dies just before.
MarkDone(phase) ==
    \/ phases' = phases \cup {phase} /\ Goto("next") /\ UNCHANGED deaths
    \/ deaths < MaxDeaths /\ deaths' = deaths + 1 /\ EndRun /\ UNCHANGED phases

\* The first step of the cycle that state.json does not have.
NextStep ==
    IF ~Done("converged") THEN "converge"
    ELSE IF ~decision.stop THEN "release"
    ELSE IF ~Done("recorded") THEN "record"
    ELSE IF {"stopped", "packages", "started"} \cap phases = {} THEN "stop"
    ELSE IF ~Done("packages") THEN "packages"
    ELSE IF decision.restart /\ {"docker_restarted", "started"} \cap phases = {} THEN "docker_restart"
    ELSE IF ~Done("rebooted") THEN "reboot"
    ELSE IF ~Done("started") THEN "start"
    ELSE "release"

At(step) == pc = "next" /\ NextStep = step

Begin ==
    /\ pc = "idle" /\ Goto("status")
    /\ UNCHANGED <<stateVars, agentVars, now, fileVars, dockVars, contVars, helpVars, boundVars>>

\* The helper is an async job: it goes on without the run.
RunDies ==
    /\ pc # "idle" /\ deaths < MaxDeaths
    /\ deaths' = deaths + 1 /\ EndRun
    /\ orphans' = orphans \cup batch /\ batch' = {} /\ HelperIsDone
    /\ UNCHANGED <<stateVars, agentVars, now, fileVars, dockVars, ids, up, revived, acts>>

-----------------------------------------------------------------------------
(* What cs-agent answers. *)

NoDoc          == <<>>
StatusDoc(h)   == [paused |-> h # Null, local |-> h, agent_active |-> agent = "active"]
ErrorDoc(code) == [error |-> "error", exit_code |-> code]
Said(doc, rc)  == [doc |-> doc, rc |-> rc]

\* `maintenance status`: while the agent restarts its binary may be missing and
\* its control.db locked.
Statuses ==
    {Said(StatusDoc(hold), 0)} \cup
    (IF agent = "active" THEN {}
     ELSE {Said(NoDoc, 127), Said(ErrorDoc(3), 3), Said(ErrorDoc(1), 1)})

-----------------------------------------------------------------------------
(* hold.yml *)

\* The rescue of a run that fails before its converge releases the hold it
\* recorded and sets state.json aside, if cs-agent lets it.
Rescue ==
    \/ /\ phases = {"held"}
       /\ hold' = Null /\ phases' = {}
       /\ UNCHANGED <<decision, recorded, agent, polled, acked, busy, placed>>
    \/ /\ phases # {"held"} \/ agent # "active"
       /\ UNCHANGED <<stateVars, agentVars>>

\* A fresh run needs a node that nobody holds, a resumed one its own hold.
ReadStatus ==
    /\ pc = "status"
    /\ \E s \in Statuses :
         IF /\ CliShape(s.doc) = "status" /\ s.rc = 0
            /\ (phases = {}) <=> (s.doc.local = Null)
         THEN /\ Goto(IF phases = {} THEN "on" ELSE "next")
              /\ UNCHANGED <<stateVars, agentVars>>
         ELSE EndRun /\ Rescue
    /\ UNCHANGED <<now, fileVars, dockVars, contVars, helpVars, boundVars>>

Answer(doc, rc) == pc' = "answered" /\ answer' = Said(doc, rc) /\ UNCHANGED <<tries, noted>>

Place == hold' = "ours" /\ acked' = FALSE /\ placed' = TRUE

\* `maintenance on`: no hold without a controller that polls, or when
\* control.db does not open.
AskForHold ==
    /\ pc = "on"
    /\ \/ /\ ~polled /\ \E doc \in {StatusDoc(hold), ErrorDoc(4)} : Answer(doc, 4)
          /\ placed' = FALSE /\ UNCHANGED <<hold, acked>>
       \/ polled /\ Place /\ pc' = "waiting" /\ UNCHANGED <<tries, answer, noted>>
       \/ /\ Answer(ErrorDoc(3), 3)
          /\ \/ Place
             \/ placed' = FALSE /\ UNCHANGED <<hold, acked>>
    /\ UNCHANGED <<stateVars, agent, polled, busy, now, fileVars, dockVars, contVars,
                   helpVars, boundVars>>

\* `--wait`: cleared, quiet and confirmed, at the deadline one or the other is
\* missing, interrupted; or its last read of the state fails, or the job is lost.
AwaitQuiet ==
    /\ pc = "waiting"
    /\ \/ hold = Null /\ Answer(StatusDoc(hold), 1)
       \/ hold # Null /\ ~busy /\ acked /\ Answer(StatusDoc(hold), 0)
       \/ hold # Null /\ busy /\ Answer(StatusDoc(hold), 2)
       \/ hold # Null /\ ~busy /\ ~acked /\ Answer(StatusDoc(hold), 4)
       \/ hold # Null /\ Answer(StatusDoc(hold), 1)
       \/ \E code \in {1, 2, 4} : Answer(ErrorDoc(code), code)
       \/ Answer(NoDoc, 137)
    /\ UNCHANGED <<stateVars, agentVars, now, fileVars, dockVars, contVars, helpVars, boundVars>>

\* `until: not on_retry`
RetryHold ==
    /\ pc = "answered" /\ OnRetry(answer.doc, answer.rc) /\ tries < Tries
    /\ pc' = "on" /\ tries' = tries + 1 /\ answer' = <<>>
    /\ UNCHANGED <<noted, stateVars, agentVars, now, fileVars, dockVars, contVars,
                   helpVars, boundVars>>

\* No state.json yet: a failure leaves whatever hold there is.
GateHold ==
    /\ pc = "answered" /\ ~(OnRetry(answer.doc, answer.rc) /\ tries < Tries)
    /\ IF ClassifyOn(answer.doc, answer.rc).ok THEN MarkDone("held")
       ELSE EndRun /\ UNCHANGED <<phases, deaths>>
    /\ UNCHANGED <<decision, recorded, agentVars, now, fileVars, dockVars, contVars,
                   helpVars, acts>>

-----------------------------------------------------------------------------
(* maintain_converge_phase.yml *)

StartConverge ==
    /\ At("converge")
    /\ phases' = phases \cup {"converge_started"} /\ Goto("roles")
    /\ UNCHANGED <<decision, recorded, agentVars, now, fileVars, dockVars, contVars,
                   helpVars, boundVars>>

\* docker_tls may issue a certificate and only note the restart it needs;
\* cs_agent's package or handler may restart the agent.
Converge ==
    /\ pc = "roles" /\ pc' = "await"
    /\ \/ /\ cert < MaxCerts
          /\ cert' = cert + 1 /\ certAt' = now /\ noted' = TRUE
       \/ UNCHANGED <<fileVars, noted>>
    /\ agent' \in {"active", "starting"}
    /\ UNCHANGED <<tries, answer, stateVars, hold, polled, acked, busy, placed, now, dockVars,
                   contVars, helpVars, boundVars>>

\* agent_wait.yml
AwaitAgent ==
    /\ pc \in {"await", "await_again"}
    /\ \E s \in Statuses :
         LET verdict == AgentStatus(s.doc, s.rc) IN
         IF ~AgentDone(verdict) /\ tries < Polls
         THEN tries' = tries + 1 /\ UNCHANGED <<pc, answer, noted>>
         ELSE IF AgentReady(verdict) THEN Goto(IF pc = "await" THEN "updates" ELSE "decide")
         ELSE EndRun
    /\ UNCHANGED <<stateVars, agentVars, now, fileVars, dockVars, contVars, helpVars, boundVars>>

\* Live, docker's packages held: all that matters here is a reboot they ask for.
ApplyUpdates ==
    /\ pc = "updates" /\ Goto("await_again")
    /\ rebootPending' \in {rebootPending, TRUE}
    /\ UNCHANGED <<stateVars, agentVars, now, fileVars, startedAt, loaded, engine, contVars,
                   helpVars, boundVars>>

Drift == DockerDrift([docker |-> engine], [docker |-> "pinned"])
Newer == FilesNewerThan([server_cert |-> certAt], startedAt)

Decide ==
    /\ pc = "decide"
    /\ \E force \in BOOLEAN : decision' = MaintainDecide(Drift, noted, Newer, rebootPending, force)
    /\ phases' = phases \cup {"converged"} /\ Goto("next")
    /\ UNCHANGED <<recorded, agentVars, now, fileVars, dockVars, contVars, helpVars, boundVars>>

-----------------------------------------------------------------------------
(* The stopped window. *)

Containers ==
    {[id |-> ids[n], name |-> n, running |-> n \in up, system |-> n \in SystemNames] :
        n \in {m \in Names : ids[m] # Null}}
Resolved == ResolveRecorded(recorded, Containers)
NoneRuns == \A e \in Resolved : ~e.running

RecordContainers ==
    /\ At("record")
    /\ recorded' = SelectRunningTenants(Containers)
    /\ phases' = phases \cup {"recorded"} /\ Goto("next")
    /\ UNCHANGED <<decision, agentVars, now, fileVars, dockVars, contVars, helpVars, boundVars>>

\* hold_check.yml, before each step that disrupts something.
HoldCheckFails ==
    /\ \/ At("stop") \/ At("packages") \/ At("start")
       \/ At("docker_restart") /\ ~rebootPending
       \/ At("reboot") /\ rebootPending
    /\ hold = Null /\ EndRun
    /\ UNCHANGED <<stateVars, agentVars, now, fileVars, dockVars, contVars, helpVars, boundVars>>

StopContainers ==
    /\ At("stop") /\ hold # Null /\ Goto("stopping")
    /\ batch' = {e.current : e \in {r \in Resolved : r.running}}
    /\ UNCHANGED <<stateVars, agentVars, now, fileVars, dockVars, ids, up, orphans, revived,
                   helpVars, boundVars>>

\* The helper's `docker stop` of one id, by whichever run it was begun; it may
\* fail, and one of a container that is gone does.
StopOne ==
    /\ \E id \in batch \cup orphans :
         /\ \/ id \in batch /\ batch' = batch \ {id} /\ UNCHANGED orphans
            \/ id \in orphans /\ orphans' = orphans \ {id} /\ UNCHANGED batch
         /\ up' \in {up, up \ {n \in Names : ids[n] = id}}
    /\ hit' = (pc = "starting")
    /\ UNCHANGED <<runVars, stateVars, agentVars, now, fileVars, dockVars, ids, revived,
                   attempts, rounds, boundVars>>

\* The run waits for its own helper only.
GateStopped ==
    /\ pc = "stopping" /\ batch = {}
    /\ IF NoneRuns THEN MarkDone("stopped") ELSE EndRun /\ UNCHANGED <<phases, deaths>>
    /\ UNCHANGED <<decision, recorded, agentVars, now, fileVars, dockVars, contVars, helpVars, acts>>

StartDockerd == startedAt' = now /\ loaded' = cert

\* The install of another version restarts dockerd; the OS upgrade before it
\* may ask for a reboot.
InstallPackages ==
    /\ At("packages") /\ hold # Null
    /\ engine' = "pinned"
    /\ IF Drift # {} THEN StartDockerd ELSE UNCHANGED <<startedAt, loaded>>
    /\ rebootPending' \in {rebootPending, TRUE}
    /\ MarkDone("packages")
    /\ UNCHANGED <<decision, recorded, agentVars, now, fileVars, contVars, helpVars, acts>>

RestartDocker ==
    /\ At("docker_restart")
    /\ IF rebootPending THEN UNCHANGED <<startedAt, loaded>> ELSE hold # Null /\ StartDockerd
    /\ MarkDone("docker_restarted")
    /\ UNCHANGED <<decision, recorded, agentVars, now, fileVars, engine, rebootPending, contVars,
                   helpVars, acts>>

\* Tenant containers have no restart policy.
Reboot ==
    /\ At("reboot")
    /\ IF rebootPending
       THEN hold # Null /\ StartDockerd /\ rebootPending' = FALSE /\ up' = up \cap SystemNames
       ELSE UNCHANGED <<startedAt, loaded, rebootPending, up>>
    /\ orphans' = IF rebootPending THEN {} ELSE orphans
    /\ MarkDone("rebooted")
    /\ UNCHANGED <<decision, recorded, agentVars, now, fileVars, engine, ids, batch, revived,
                   helpVars, acts>>

-----------------------------------------------------------------------------
(* start.yml and the helper's start *)

FoundNames(entries) == {e.name : e \in {r \in entries : Found(r)}}
RequiredToStart     == FoundNames(Required(Resolved, AcceptDown))
OptionalToStart     == FoundNames(Accepted(Resolved, AcceptDown))

StartContainers ==
    /\ At("start") /\ hold # Null /\ Goto("starting")
    /\ UNCHANGED <<stateVars, agentVars, now, fileVars, dockVars, contVars, helpVars, boundVars>>

Mut_TooOften ==
    {n \in (RequiredToStart \cup OptionalToStart) \ up : attempts[n] <= StartRetries}
Mut_Startable ==
    {n \in (RequiredToStart \cup OptionalToStart) \ up : attempts[n] + 1 < StartRetries}

Startable == {n \in (RequiredToStart \cup OptionalToStart) \ up : attempts[n] < StartRetries}

StartIsOver ==
    \/ RequiredToStart \subseteq up /\ Startable \cap OptionalToStart = {}
    \/ Startable = {}
    \/ rounds >= StartRounds

\* A container that exits because another is not up yet may or may not meet it
\* when both are started in one round.
StartRound ==
    /\ pc = "starting" /\ ~StartIsOver
    /\ \E came \in SUBSET Startable :
         /\ {n \in Startable : NeedsFirst[n] \subseteq up} \subseteq came
         /\ \A n \in came : NeedsFirst[n] \subseteq up \cup came
         /\ up' = up \cup came
    /\ attempts' = [n \in Names |-> IF n \in Startable THEN attempts[n] + 1 ELSE attempts[n]]
    /\ rounds' = rounds + 1
    /\ UNCHANGED <<runVars, stateVars, agentVars, now, fileVars, dockVars, ids, batch, orphans,
                   revived, hit, boundVars>>

GateStarted ==
    /\ pc = "starting" /\ StartIsOver
    /\ IF \A e \in Required(Resolved, AcceptDown) : e.running
       THEN MarkDone("started") ELSE EndRun /\ UNCHANGED <<phases, deaths>>
    /\ HelperIsDone
    /\ UNCHANGED <<decision, recorded, agentVars, now, fileVars, dockVars, contVars, acts>>

Release ==
    /\ At("release")
    /\ hold' = Null /\ acked' = FALSE /\ EndRun
    /\ phases' = {} /\ decision' = NoDecision /\ recorded' = {} /\ revived' = {}
    /\ UNCHANGED <<agent, polled, busy, placed, now, fileVars, dockVars, ids, up, batch, orphans,
                   helpVars, boundVars>>

-----------------------------------------------------------------------------
(* Around the run. *)

Tick ==
    /\ now < MaxTime /\ now' = now + 1
    /\ UNCHANGED <<runVars, stateVars, agentVars, fileVars, dockVars, contVars, helpVars, boundVars>>

AgentGoesOn ==
    /\ \/ agent = "starting" /\ agent' = "active" /\ UNCHANGED <<polled, acked, busy>>
       \/ ~polled /\ polled' = TRUE /\ UNCHANGED <<agent, acked, busy>>
       \/ hold # Null /\ polled /\ ~acked /\ acked' = TRUE /\ UNCHANGED <<agent, polled, busy>>
       \/ busy /\ busy' = FALSE /\ UNCHANGED <<agent, polled, acked>>
    /\ UNCHANGED <<runVars, stateVars, hold, placed, now, fileVars, dockVars, contVars, helpVars, boundVars>>

ClearHold ==
    /\ acts < MaxActs /\ acts' = acts + 1
    /\ hold # Null /\ hold' = Null
    /\ UNCHANGED <<runVars, stateVars, agent, polled, acked, busy, placed, now, fileVars, dockVars,
                   contVars, helpVars, deaths>>

\* Between two runs a container is removed, or recreated under its name, and
\* started or not.
Recreate ==
    /\ pc = "idle" /\ acts < MaxActs /\ acts' = acts + 1
    /\ \E n \in Names : \E id \in {NextId[n], Null} \ {ids[n]} :
         /\ ids' = [ids EXCEPT ![n] = id]
         /\ \/ up' = up \ {n} /\ UNCHANGED revived
            \/ /\ id # Null /\ up' = up \cup {n}
               /\ revived' = IF Done("stopped") THEN revived \cup {n} ELSE revived
    /\ UNCHANGED <<runVars, stateVars, agentVars, now, fileVars, dockVars, batch, orphans,
                   helpVars, deaths>>

\* systemd restarts a dockerd that crashed, a second later; live-restore
\* keeps its containers.
DockerdCrashes ==
    /\ acts < MaxActs /\ acts' = acts + 1
    /\ now < MaxTime /\ now' = now + 1 /\ startedAt' = now' /\ loaded' = cert
    /\ UNCHANGED <<runVars, stateVars, agentVars, fileVars, engine, rebootPending, contVars,
                   helpVars, deaths>>

RunStep ==
    \/ ReadStatus \/ AskForHold \/ AwaitQuiet \/ RetryHold \/ GateHold
    \/ StartConverge \/ Converge \/ AwaitAgent \/ ApplyUpdates \/ Decide
    \/ RecordContainers \/ HoldCheckFails \/ StopContainers \/ GateStopped
    \/ InstallPackages \/ RestartDocker \/ Reboot
    \/ StartContainers \/ StartRound \/ GateStarted \/ Release

Next ==
    \/ Begin \/ RunStep \/ RunDies \/ StopOne
    \/ Tick \/ AgentGoesOn \/ ClearHold \/ Recreate \/ DockerdCrashes

Spec == Init /\ [][Next]_vars

-----------------------------------------------------------------------------
Ids == {FirstId[n] : n \in Names} \cup {NextId[n] : n \in Names}

AllPhases == {"held", "converge_started", "converged", "recorded", "stopped", "packages",
              "docker_restarted", "rebooted", "started"}

\* The types of what a run is, of state.json, of the agent, of dockerd, of the
\* containers, and of the bounds.
RunTypes ==
    /\ pc \in {"idle", "status", "on", "waiting", "answered", "next", "roles", "await", "updates",
               "await_again", "decide", "stopping", "starting"}
    /\ tries \in 0..(Tries + Polls) /\ noted \in BOOLEAN
StateTypes ==
    /\ phases \subseteq AllPhases
    /\ decision \in [stop : BOOLEAN, restart : BOOLEAN]
    /\ recorded \subseteq {[id |-> id, name |-> n] : n \in Names, id \in Ids}
AgentTypes ==
    /\ hold \in {Null, "ours"} /\ agent \in {"active", "starting"}
    /\ polled \in BOOLEAN /\ acked \in BOOLEAN /\ busy \in BOOLEAN /\ placed \in BOOLEAN
DockTypes ==
    /\ startedAt \in 0..now /\ certAt \in 0..now /\ now \in 1..MaxTime
    /\ cert \in 0..MaxCerts /\ loaded \in 0..cert /\ engine \in {"old", "pinned"}
    /\ rebootPending \in BOOLEAN
ContTypes ==
    /\ ids \in [Names -> Ids \cup {Null}] /\ up \subseteq Names
    /\ batch \subseteq Ids /\ orphans \subseteq Ids /\ revived \subseteq Names
    /\ attempts \in [Names -> 0..StartRetries] /\ rounds \in 0..StartRounds /\ hit \in BOOLEAN
BoundTypes == deaths \in 0..MaxDeaths /\ acts \in 0..MaxActs

\* Type correctness: every variable keeps the values the playbook, the agent,
\* docker and the helper can give it.
TypeOK == RunTypes /\ StateTypes /\ AgentTypes /\ DockTypes /\ ContTypes /\ BoundTypes
=============================================================================
