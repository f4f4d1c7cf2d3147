--------------------------- MODULE FirewallApply ---------------------------
(***************************************************************************)
(* roles/firewall: the safe apply of the `inet cs_static` table            *)
(* (tasks/nftables.yml, tasks/apply.yml, templates/cs-firewall-rollback).  *)
(*                                                                         *)
(* A table that shuts ssh out would lock the operator out of the host, and *)
(* the connection a run already has survives it.  So a run schedules a     *)
(* restore of the last verified table on the host itself, applies, comes   *)
(* back over a fresh connection and only then cancels the restore and      *)
(* records the table.                                                      *)
(*                                                                         *)
(* All the hosts of a run go through the tasks in lockstep (ansible's      *)
(* linear strategy): the slowest host's verify holds up every cancel.      *)
(* A run may opt in to let its own source in for a while: a timed element  *)
(* in a set of the loaded table, gone when it expires or the table is      *)
(* loaded again -- unless the file it is loaded from was listed with it.   *)
(* Time is not counted: a scheduled restore may fire at any moment.        *)
(* One run at a time; `problem` replaces the message a host fails with.    *)
(***************************************************************************)
EXTENDS Naturals, Sequences

CONSTANTS
    Hosts,
    Tables,      \* the tables an inventory may render
    LetsIn,      \* those through which a fresh ssh connection comes back
    Narrowed,    \* those with a set for the run's own source (firewall_allow_ssh_from)
    LetsRunIn,   \* ... through which one comes back while that source is in it
    NoTable,     \* no table of the role's
    MaxRuns,     \* bound: runs of a playbook
    MaxFaults,   \* bound: runs that die, tasks that fail
    MaxBoots     \* bound: host reboots

ASSUME TablesAssumption ==
    /\ LetsIn \subseteq Tables /\ NoTable \notin Tables
    /\ Narrowed \subseteq Tables /\ LetsRunIn \subseteq Narrowed
ASSUME LimitsAssumption ==
    MaxRuns \in Nat /\ MaxFaults \in Nat /\ MaxBoots \in Nat

VARIABLES
    \* the run, per host; all of it is lost when the run dies
    hpc,        \* the task the host is about to run
    wanted,     \* the table this run's inventory renders
    problem,    \* firewall_apply_problem
    opted,      \* firewall_ssh_allow_this_run, for all its hosts
    linked,     \* its ssh connection to the host is up
    \* the host
    disk,       \* cs-static.nft
    kernel,     \* the loaded table
    active,     \* cs-firewall.service is active
    enabled,    \* ... and enabled at boot
    recorded,   \* applied.nft
    checksum,   \* applied.sha256, as the table it is the checksum of
    adopted,    \* adopted.nft
    timer,      \* what the pending rollback restores, "off" without one
    fired,      \* the rollback this run scheduled has run
    element,    \* the copies of the table that hold a run's own source
    \* bookkeeping
    running,    \* firewall_running_table: the one loaded when the run read the host
    kept,       \* history: the last table verified and kept
    came,       \* history: the tables a run's fresh connection came through
    runs, faults, boots

runVars  == <<hpc, wanted, problem, opted>>
loadVars == <<disk, kernel, active, enabled>>
linkVars == <<linked, came>>
recVars  == <<recorded, checksum, adopted>>
backVars == <<timer, fired>>
histVars == <<running, kept>>
vars == <<runVars, loadVars, linkVars, recVars, backVars, histVars, element,
          runs, faults, boots>>

Content == Tables \cup {NoTable}
Order == <<"snapshot", "render", "decide", "schedule", "apply", "allow", "verify",
           "cancel", "check", "record", "checksum", "forget", "done">>
Stages   == {Order[i] : i \in DOMAIN Order}
Problems == {"none", "skipped", "apply", "allow", "verify", "fired", "pending", "unknown"}
Sources  == {"off", "applied", "adopted", "none"}
Copies   == {"kernel", "disk", "adopted", "applied"}

\* A fresh host has nothing; one converged before the safe apply existed runs
\* the table on its disk and has no record of it.
Init ==
    /\ hpc = [h \in Hosts |-> "idle"]
    /\ wanted = [h \in Hosts |-> NoTable]
    /\ problem = [h \in Hosts |-> "none"]
    /\ disk \in [Hosts -> LetsIn \cup {NoTable}]
    /\ kernel = disk
    /\ active = [h \in Hosts |-> disk[h] # NoTable]
    /\ enabled = active
    /\ recorded = [h \in Hosts |-> NoTable]
    /\ checksum = recorded /\ adopted = recorded
    /\ timer = [h \in Hosts |-> "off"]
    /\ fired = [h \in Hosts |-> FALSE]
    /\ opted = FALSE /\ linked = [h \in Hosts |-> FALSE]
    /\ element = [h \in Hosts |-> {}]
    /\ running = disk /\ kept = recorded /\ came = [h \in Hosts |-> {disk[h]}]
    /\ runs = 0 /\ faults = 0 /\ boots = 0

-----------------------------------------------------------------------------

Idle   == \A h \in Hosts : hpc[h] = "idle"
Place(s) == CHOOSE i \in DOMAIN Order : Order[i] = s

\* Linear strategy: no host starts a task before every host is done with the
\* one before it.
Turn(h, s) == hpc[h] = s /\ \A g \in Hosts : Place(hpc[g]) >= Place(s)

\* A fresh ssh connection comes through the loaded table.
Opens(h) ==
    \/ kernel[h] \in LetsIn \cup {NoTable}
    \/ kernel[h] \in LetsRunIn /\ "kernel" \in element[h]

\* A task runs over the connection there is, which any table lets live, or over
\* a new one.
Reached(h) == linked[h] \/ Opens(h)
Connects(h) ==
    /\ Reached(h)
    /\ linked' = [linked EXCEPT ![h] = TRUE]
    /\ came' = [came EXCEPT ![h] = IF linked[h] THEN @ ELSE @ \cup {kernel[h]}]

\* A task before the apply, or after the check: it does not ignore an
\* unreachable host.
Task(h, s) == Turn(h, s) /\ Connects(h)

\* One copy of the table is made from another, and the element goes with it.
Copied(h, from, to) ==
    element' = [element EXCEPT ![h] = IF from \in @ THEN @ \cup to ELSE @ \ to]

GoTo(h, s)   == hpc' = [hpc EXCEPT ![h] = s]
Give(h, why) == problem' = [problem EXCEPT ![h] = why] /\ GoTo(h, "done")

Fault == faults < MaxFaults /\ faults' = faults + 1

AbortRun == hpc' = [h \in Hosts |-> "idle"] /\ UNCHANGED <<wanted, problem, opted>>

\* preflight: every host answers over ssh, and none has an earlier
\* run's rollback pending.
StartRun ==
    /\ Idle /\ runs < MaxRuns /\ runs' = runs + 1
    /\ \A h \in Hosts : Opens(h) /\ timer[h] = "off"
    /\ wanted' \in [Hosts -> Tables] /\ opted' \in BOOLEAN
    /\ linked' = [h \in Hosts |-> TRUE]
    /\ came' = [h \in Hosts |-> came[h] \cup {kernel[h]}]
    /\ hpc' = [h \in Hosts |-> "snapshot"]
    /\ problem' = [h \in Hosts |-> "none"]
    /\ fired' = [h \in Hosts |-> FALSE]
    /\ UNCHANGED <<loadVars, recVars, timer, element, histVars, faults, boots>>

\* Until a first verified apply there is no record to go back to, and the
\* table to go back to is the one that is running.
Mut_AdoptedFromDisk(h) == disk[h]
Adopted(h) == kernel[h]

Snapshot(h) ==
    /\ Task(h, "snapshot")
    /\ GoTo(h, "render")
    /\ running' = [running EXCEPT ![h] = kernel[h]]
    /\ IF recorded[h] = NoTable
         THEN /\ adopted' = [adopted EXCEPT ![h] = Adopted(h)]
              /\ Copied(h, "kernel", {"adopted"})
         ELSE UNCHANGED <<adopted, element>>
    /\ UNCHANGED <<wanted, problem, opted, loadVars, recorded, checksum, backVars,
                   kept, runs, faults, boots>>

Render(h) ==
    /\ Task(h, "render")
    /\ GoTo(h, "decide")
    /\ disk' = [disk EXCEPT ![h] = wanted[h]]
    /\ element' = [element EXCEPT ![h] = @ \ {"disk"}]
    /\ UNCHANGED <<wanted, problem, opted, kernel, active, enabled, recVars, backVars,
                   histVars, runs, faults, boots>>

\* Apply when the table on disk is not the recorded one, or the firewall is
\* not running; the unit file may have changed too.  Enabling starts nothing.
ApplyNeeded(h) ==
    checksum[h] # disk[h] \/ ~active[h] \/ running[h] = NoTable

Decide(h) ==
    /\ Task(h, "decide")
    /\ enabled' = [enabled EXCEPT ![h] = TRUE]
    /\ \E unitChanged \in BOOLEAN :
         IF unitChanged \/ ApplyNeeded(h)
           THEN GoTo(h, "schedule") /\ UNCHANGED problem
           ELSE Give(h, "skipped")
    /\ UNCHANGED <<wanted, opted, disk, kernel, active, recVars, backVars, element,
                   histVars, runs, faults, boots>>

\* What a rollback puts back: the last verified table, else the snapshot, else
\* nothing.
Mut_RestoreByContent(h) == IF recorded[h] # NoTable THEN recorded[h] ELSE "none"
Mut_RestoreIgnoresSnapshot(h) == IF recorded[h] # NoTable THEN "applied" ELSE "none"
RestoreSource(h) ==
    IF recorded[h] # NoTable THEN "applied"
    ELSE IF adopted[h] # NoTable THEN "adopted" ELSE "none"

Mut_TimerOnlyWithATable(h) == IF RestoreSource(h) = "none" THEN "off" ELSE RestoreSource(h)
Scheduled(h) == RestoreSource(h)

\* Refused while an earlier rollback is pending; else the restore is scheduled
\* before the table is touched.
Schedule(h) ==
    /\ Task(h, "schedule")
    /\ timer[h] = "off"
    /\ timer' = [timer EXCEPT ![h] = Scheduled(h)]
    /\ GoTo(h, "apply")
    /\ UNCHANGED <<wanted, problem, opted, loadVars, recVars, fired, element, histVars,
                   runs, faults, boots>>

\* Restart the unit, which loads whatever is on disk.  It fails without a file
\* (a rollback that already fired may have moved it aside), and then leaves the
\* table that runs.  A host lost meanwhile may have restarted or not.
Restart(h) ==
    /\ Connects(h) /\ disk[h] # NoTable
    /\ kernel' = [kernel EXCEPT ![h] = disk[h]]
    /\ Copied(h, "disk", {"kernel"})
    /\ active' = [active EXCEPT ![h] = TRUE]
    /\ \/ GoTo(h, "allow") /\ UNCHANGED <<problem, faults>>
       \/ Give(h, "apply") /\ Fault

RestartFails(h) ==
    /\ Connects(h)
    /\ \/ disk[h] = NoTable /\ UNCHANGED faults
       \/ disk[h] # NoTable /\ Fault
    /\ active' = [active EXCEPT ![h] = FALSE]
    /\ Give(h, "apply") /\ UNCHANGED <<kernel, element>>

RestartLost(h) ==
    /\ \/ ~Reached(h) /\ UNCHANGED faults
       \/ Reached(h) /\ Fault
    /\ Give(h, "apply") /\ UNCHANGED <<kernel, active, element, linkVars>>

Apply(h) ==
    /\ Turn(h, "apply")
    /\ Restart(h) \/ RestartFails(h) \/ RestartLost(h)
    /\ UNCHANGED <<wanted, opted, disk, enabled, recVars, backVars, histVars, runs, boots>>

\* The opt-in, where the inventory narrows ssh: put the run's own source into
\* the set of the table that is loaded, which fails on one without the set.  A
\* host lost meanwhile may have it or not.
Asks(h) == opted /\ wanted[h] \in Narrowed

AllowNotAsked(h) ==
    /\ ~Asks(h)
    /\ GoTo(h, "verify") /\ UNCHANGED <<problem, element, linkVars, faults>>

AllowThisRun(h) ==
    /\ Asks(h) /\ Connects(h) /\ kernel[h] \in Narrowed
    /\ element' = [element EXCEPT ![h] = @ \cup {"kernel"}]
    /\ \/ GoTo(h, "verify") /\ UNCHANGED <<problem, faults>>
       \/ Give(h, "allow") /\ Fault

AllowFails(h) ==
    /\ Asks(h) /\ Give(h, "allow") /\ UNCHANGED <<element, linkVars>>
    /\ \/ ~Reached(h) /\ UNCHANGED faults
       \/ kernel[h] \notin Narrowed /\ UNCHANGED faults
       \/ Fault

Allow(h) ==
    /\ Turn(h, "allow")
    /\ AllowNotAsked(h) \/ AllowThisRun(h) \/ AllowFails(h)
    /\ UNCHANGED <<wanted, opted, loadVars, recVars, backVars, histVars, runs, boots>>

\* A fresh connection: one with another client port than the run's old one,
\* which the table cannot shut out.
Mut_OldConnectionCounts(h) == TRUE
FreshConnection(h) == Opens(h)

Verify(h) ==
    /\ Turn(h, "verify")
    /\ \/ FreshConnection(h) /\ GoTo(h, "cancel") /\ UNCHANGED <<problem, faults>>
       \/ ~FreshConnection(h) /\ Give(h, "verify") /\ UNCHANGED faults
       \/ FreshConnection(h) /\ Give(h, "verify") /\ Fault
    /\ linked' = [linked EXCEPT ![h] = FreshConnection(h)]
    /\ came' = [came EXCEPT ![h] = IF Opens(h) THEN @ \cup {kernel[h]} ELSE @]
    /\ UNCHANGED <<wanted, opted, loadVars, recVars, backVars, element, histVars, runs, boots>>

\* The cancel's own result decides nothing: it may find the timer gone, or not
\* reach the host.
Cancel(h) ==
    /\ Turn(h, "cancel")
    /\ GoTo(h, "check")
    /\ \/ timer' = [timer EXCEPT ![h] = "off"] /\ Connects(h) /\ UNCHANGED faults
       \/ ~Reached(h) /\ UNCHANGED <<timer, linkVars, faults>>
       \/ Fault /\ UNCHANGED <<timer, linkVars>>
    /\ UNCHANGED <<wanted, problem, opted, loadVars, recVars, fired, element, histVars,
                   runs, boots>>

Mut_FiredNotChecked(h) == IF timer[h] # "off" THEN "pending" ELSE "none"
RollbackState(h) ==
    IF fired[h] THEN "fired" ELSE IF timer[h] # "off" THEN "pending" ELSE "none"

Check(h) ==
    /\ Turn(h, "check")
    /\ \/ /\ RollbackState(h) = "none" /\ Connects(h)
          /\ GoTo(h, "record") /\ UNCHANGED <<problem, faults>>
          /\ kept' = [kept EXCEPT ![h] = kernel[h]]
       \/ /\ RollbackState(h) # "none" /\ Connects(h)
          /\ Give(h, RollbackState(h)) /\ UNCHANGED <<kept, faults>>
       \/ ~Reached(h) /\ Give(h, "unknown") /\ UNCHANGED <<kept, linkVars, faults>>
       \/ Give(h, "unknown") /\ Fault /\ UNCHANGED <<kept, linkVars>>
    /\ UNCHANGED <<wanted, opted, loadVars, recVars, backVars, element, running, runs, boots>>

\* applied.nft is a copy of the file on disk ...
Record(h) ==
    /\ Task(h, "record")
    /\ GoTo(h, "checksum")
    /\ recorded' = [recorded EXCEPT ![h] = disk[h]]
    /\ Copied(h, "disk", {"applied"})
    /\ UNCHANGED <<wanted, problem, opted, loadVars, checksum, adopted, backVars,
                   histVars, runs, faults, boots>>

\* ... applied.sha256 what the run read before the apply.
RecordChecksum(h) ==
    /\ Task(h, "checksum")
    /\ GoTo(h, "forget")
    /\ checksum' = [checksum EXCEPT ![h] = wanted[h]]
    /\ UNCHANGED <<wanted, problem, opted, loadVars, recorded, adopted, backVars, element,
                   histVars, runs, faults, boots>>

Forget(h) ==
    /\ Task(h, "forget")
    /\ GoTo(h, "done")
    /\ adopted' = [adopted EXCEPT ![h] = NoTable]
    /\ element' = [element EXCEPT ![h] = @ \ {"adopted"}]
    /\ UNCHANGED <<wanted, problem, opted, loadVars, recorded, checksum, backVars,
                   histVars, runs, faults, boots>>

\* Every host has its outcome; the ones with a problem fail the run.
Report ==
    /\ \A h \in Hosts : hpc[h] = "done"
    /\ AbortRun
    /\ UNCHANGED <<loadVars, linkVars, recVars, backVars, element, histVars,
                   runs, faults, boots>>

\* The control host dies, or a task outside steps 3 to 6 fails on a host or
\* does not reach it, which ends the run on all of them (any_errors_fatal).
RunDies ==
    /\ ~Idle
    /\ \/ Fault
       \/ /\ \E h \in Hosts :
               ~Reached(h) /\ hpc[h] \in {"snapshot", "render", "decide", "schedule",
                                           "record", "checksum", "forget"}
          /\ UNCHANGED faults
    /\ AbortRun
    /\ UNCHANGED <<loadVars, linkVars, recVars, backVars, element, histVars, runs, boots>>

-----------------------------------------------------------------------------
(* The host                                                                *)

\* The file the timer's rollback.sh is given, as it is when it runs.
Restores(h) ==
    IF timer[h] = "applied" THEN recorded[h]
    ELSE IF timer[h] = "adopted" THEN adopted[h] ELSE NoTable

\* rollback.sh: put the file back and restart, or, with none, delete the
\* table, move the file aside and disable the unit.
RollbackFires(h) ==
    /\ timer[h] # "off"
    /\ timer' = [timer EXCEPT ![h] = "off"]
    /\ fired' = [fired EXCEPT ![h] = TRUE]
    /\ disk' = [disk EXCEPT ![h] = Restores(h)]
    /\ kernel' = [kernel EXCEPT ![h] = Restores(h)]
    /\ IF Restores(h) = NoTable
         THEN enabled' = [enabled EXCEPT ![h] = FALSE] /\ UNCHANGED active
         ELSE active' = [active EXCEPT ![h] = TRUE] /\ UNCHANGED enabled
    /\ Copied(h, timer[h], {"disk", "kernel"})
    /\ UNCHANGED <<runVars, linkVars, recVars, histVars, runs, faults, boots>>

\* A reboot loads the table on disk, forgets the transient timer and cuts the
\* run's connection.  The run goes on over a new one, or loses the host.
Boots(h) ==
    /\ boots < MaxBoots /\ boots' = boots + 1
    /\ LET loads == enabled[h] /\ disk[h] # NoTable
       IN  /\ kernel' = [kernel EXCEPT ![h] = IF loads THEN disk[h] ELSE NoTable]
           /\ active' = [active EXCEPT ![h] = loads]
           /\ IF loads THEN Copied(h, "disk", {"kernel"})
                       ELSE element' = [element EXCEPT ![h] = @ \ {"kernel"}]
    /\ timer' = [timer EXCEPT ![h] = "off"]
    /\ linked' = [linked EXCEPT ![h] = FALSE]
    /\ UNCHANGED <<runVars, disk, enabled, recVars, fired, histVars, came, runs, faults>>

\* firewall_ssh_run_allow_timeout is over: the kernel drops the element.
Expire(h) ==
    /\ "kernel" \in element[h]
    /\ element' = [element EXCEPT ![h] = @ \ {"kernel"}]
    /\ UNCHANGED <<runVars, loadVars, linkVars, recVars, backVars, histVars, runs, faults, boots>>

RunStep(h) ==
    \/ Snapshot(h) \/ Render(h) \/ Decide(h) \/ Schedule(h) \/ Apply(h) \/ Allow(h)
    \/ Verify(h) \/ Cancel(h) \/ Check(h) \/ Record(h) \/ RecordChecksum(h) \/ Forget(h)

Next ==
    \/ StartRun \/ Report \/ RunDies
    \/ \E h \in Hosts : RunStep(h) \/ RollbackFires(h) \/ Boots(h) \/ Expire(h)

Spec == Init /\ [][Next]_vars

\* systemd fires every timer that is not cancelled.  Nothing is assumed of runs.
FairSpec == Spec /\ \A h \in Hosts : WF_vars(RollbackFires(h))

-----------------------------------------------------------------------------
(* What the safe apply promises                                            *)

\* Type correctness: the variables keep to what the role's files, units and tasks can hold.
TypeOK ==
    /\ hpc \in [Hosts -> Stages \cup {"idle"}]
    /\ wanted \in [Hosts -> Content] /\ problem \in [Hosts -> Problems]
    /\ disk \in [Hosts -> Content] /\ kernel \in [Hosts -> Content]
    /\ active \in [Hosts -> BOOLEAN] /\ enabled \in [Hosts -> BOOLEAN]
    /\ recorded \in [Hosts -> Content] /\ checksum \in [Hosts -> Content]
    /\ adopted \in [Hosts -> Content] /\ timer \in [Hosts -> Sources]
    /\ fired \in [Hosts -> BOOLEAN]
    /\ opted \in BOOLEAN /\ linked \in [Hosts -> BOOLEAN]
    /\ element \in [Hosts -> SUBSET Copies] /\ came \in [Hosts -> SUBSET Content]
    /\ running \in [Hosts -> Content] /\ kept \in [Hosts -> Content]
    /\ runs \in 0..MaxRuns /\ faults \in 0..MaxFaults /\ boots \in 0..MaxBoots

\* Whatever a pending rollback will put back let a run's fresh connection in
\* before, also when earlier runs died anywhere (nftables.yml 111-119, apply.yml
\* 31-36).
RollbackLetsIn ==
    \A h \in Hosts : timer[h] # "off" => Restores(h) \in came[h] \cup {NoTable}

\* A rollback leaves a host without a firewall only if it had none when the
\* run began (README step 2, rollback.sh).
RollbackKeepsAFirewall ==
    \A h \in Hosts : timer[h] # "off" /\ Restores(h) = NoTable => running[h] = NoTable

\* Both records only ever name tables a fresh connection came back through:
\* a re-run never takes an unverified table for applied (nftables.yml 59-64).
RecordsAreVerified ==
    \A h \in Hosts : {recorded[h], checksum[h]} \subseteq came[h] \cup {NoTable}

\* A host the run reports as passed runs the new table, will load it at boot,
\* has it recorded, and no rollback is left to take it away -- although the
\* rollback may fire while slower hosts are verified (apply.yml 232-236).
PassedHostKeepsItsTable ==
    \A h \in Hosts : hpc[h] = "done" /\ problem[h] = "none" =>
        /\ timer[h] = "off" /\ enabled[h] /\ active[h]
        /\ {kernel[h], disk[h], recorded[h], checksum[h]} = {wanted[h]}

\* A host that shuts ssh out lets it in again, whatever becomes of the run; or
\* it ends up, with no rollback left, on a table that let a run in on its own
\* allowance, which has expired: apply.yml 160-163 warns of that one.  (Unless a
\* host reboots: a run's timer does not survive that.)
LockedOutRecovers ==
    \A h \in Hosts : ~Opens(h) ~> \/ Opens(h) \/ boots > 0
                                  \/ timer[h] = "off" /\ kernel[h] \in came[h] \cap LetsRunIn

\* Once a verified table was recorded, no boot brings the source of an earlier run
\* back: it is in no file that a boot or a rollback loads (cs-static.nft.j2 60-64).
\* Until then the snapshot to roll back to may list it (nftables.yml 120-136).
RecordedHostBootsEmpty ==
    [][\A h \in Hosts : Boots(h) /\ recorded[h] # NoTable => "kernel" \notin element'[h]]_vars

\* nftables.yml 59-60: the table "is applied when what is on disk differs from
\* what was last applied AND verified".
SkipsOnlyTheKeptTable ==
    \A h \in Hosts : hpc[h] = "done" /\ problem[h] = "skipped" => disk[h] = kept[h]
=============================================================================
