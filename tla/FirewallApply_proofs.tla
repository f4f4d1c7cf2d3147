------------------------ MODULE FirewallApply_proofs ------------------------
(* Theorems about the safe apply of the host firewall, for every set of      *)
(* hosts and tables and any number of runs, faults and reboots.              *)
EXTENDS FirewallApply, TLAPS

-----------------------------------------------------------------------------
(* Types                                                                   *)

\* The stages a host goes through, one by one.
LEMMA StageNames ==
    Stages = {"snapshot", "render", "decide", "schedule", "apply", "allow", "verify",
              "cancel", "check", "record", "checksum", "forget", "done"}
<1>1. DOMAIN Order = 1 .. 13
  BY DEF Order
<1>2. \A s : s \in Stages <=> \E i \in 1 .. 13 : Order[i] = s
  BY <1>1 DEF Stages
<1> QED
  BY <1>2 DEF Order

\* Hosts before the first run are well typed.
LEMMA InitType == Init => TypeOK
<1> SUFFICES ASSUME Init PROVE TypeOK
  OBVIOUS
<1> USE TablesAssumption DEF Init, Content
<1>1. active \in [Hosts -> BOOLEAN] /\ enabled \in [Hosts -> BOOLEAN]
  BY Zenon
<1>2. disk \in [Hosts -> Content] /\ kernel \in [Hosts -> Content]
      /\ running \in [Hosts -> Content]
  OBVIOUS
<1>3. /\ recorded \in [Hosts -> Content] /\ checksum \in [Hosts -> Content]
      /\ adopted \in [Hosts -> Content] /\ kept \in [Hosts -> Content]
      /\ wanted \in [Hosts -> Content]
  OBVIOUS
<1>4. /\ fired \in [Hosts -> BOOLEAN] /\ linked \in [Hosts -> BOOLEAN]
      /\ opted \in BOOLEAN
  BY Zenon
<1>6. element \in [Hosts -> SUBSET Copies] /\ came \in [Hosts -> SUBSET Content]
  OBVIOUS
<1>5. runs \in 0..MaxRuns /\ faults \in 0..MaxFaults /\ boots \in 0..MaxBoots
  BY LimitsAssumption
<1> QED
  BY <1>1, <1>2, <1>3, <1>4, <1>5, <1>6 DEF TypeOK, Problems, Sources

\* A connection that is used, lost or made anew keeps its history a set of tables.
LEMMA ConnectsType ==
    ASSUME TypeOK, NEW h \in Hosts, Connects(h) \/ UNCHANGED linkVars
    PROVE  linked' \in [Hosts -> BOOLEAN] /\ came' \in [Hosts -> SUBSET Content]
<1>1. CASE Connects(h)
  <2>1. linked' \in [Hosts -> BOOLEAN]
    BY <1>1, Zenon DEF Connects, TypeOK
  <2>2. kernel[h] \in Content /\ came[h] \in SUBSET Content
    BY DEF TypeOK
  <2>3. came' \in [Hosts -> SUBSET Content]
    BY <1>1, <2>2 DEF Connects, TypeOK
  <2> QED  BY <2>1, <2>3
<1>2. CASE UNCHANGED linkVars
  BY <1>2 DEF linkVars, TypeOK
<1> QED  BY <1>1, <1>2

\* A copy of the table takes the element of what it is copied from, or none.
LEMMA CopiedType ==
    ASSUME TypeOK, NEW h \in Hosts, NEW from, NEW to \in SUBSET Copies, Copied(h, from, to)
    PROVE  element' \in [Hosts -> SUBSET Copies]
  BY DEF Copied, TypeOK

\* A task keeps the types of the connection and of the copies' elements.
LEMMA RunStepLinkType ==
    ASSUME TypeOK, NEW h \in Hosts, RunStep(h)
    PROVE  /\ linked' \in [Hosts -> BOOLEAN] /\ came' \in [Hosts -> SUBSET Content]
           /\ element' \in [Hosts -> SUBSET Copies]
<1>1. {"kernel", "disk", "adopted", "applied"} = Copies
  BY DEF Copies
<1>2. CASE Snapshot(h)
  BY <1>1, <1>2, ConnectsType, CopiedType DEF Snapshot, Task, TypeOK
<1>3. CASE Render(h)
  BY <1>1, <1>3, ConnectsType DEF Render, Task, TypeOK
<1>4. CASE Decide(h) \/ Schedule(h)
  BY <1>4, ConnectsType DEF Decide, Schedule, Task, TypeOK
<1>5. CASE Apply(h)
  <2>1. CASE Restart(h)
    BY <1>1, <2>1, ConnectsType, CopiedType DEF Restart
  <2>2. CASE RestartFails(h) \/ RestartLost(h)
    BY <2>2, ConnectsType DEF RestartFails, RestartLost, TypeOK
  <2> QED  BY <1>5, <2>1, <2>2 DEF Apply
<1>6. CASE Allow(h)
  <2>1. CASE AllowThisRun(h)
    BY <1>1, <2>1, ConnectsType DEF AllowThisRun, TypeOK
  <2>2. CASE AllowNotAsked(h) \/ AllowFails(h)
    BY <2>2, ConnectsType DEF AllowNotAsked, AllowFails, TypeOK
  <2> QED  BY <1>6, <2>1, <2>2 DEF Allow
<1>7. CASE Verify(h)
  <2>1. linked' = [linked EXCEPT ![h] = FreshConnection(h)] /\ FreshConnection(h) \in BOOLEAN
    BY <1>7 DEF Verify, FreshConnection, Opens
  <2>2. linked' \in [Hosts -> BOOLEAN]
    BY <2>1, Zenon DEF TypeOK
  <2>3. kernel[h] \in Content /\ came[h] \in SUBSET Content
    BY DEF TypeOK
  <2>4. came' \in [Hosts -> SUBSET Content]
    BY <1>7, <2>3 DEF Verify, TypeOK
  <2> QED  BY <1>7, <2>2, <2>4 DEF Verify, TypeOK
<1>8. CASE Cancel(h) \/ Check(h)
  BY <1>8, ConnectsType DEF Cancel, Check, TypeOK
<1>9. CASE Record(h)
  BY <1>1, <1>9, ConnectsType, CopiedType DEF Record, Task
<1>10. CASE RecordChecksum(h)
  BY <1>10, ConnectsType DEF RecordChecksum, Task, TypeOK
<1>11. CASE Forget(h)
  BY <1>1, <1>11, ConnectsType DEF Forget, Task, TypeOK
<1> QED
  BY <1>2, <1>3, <1>4, <1>5, <1>6, <1>7, <1>8, <1>9, <1>10, <1>11 DEF RunStep

\* A task of a run keeps the types.
LEMMA RunStepType ==
    ASSUME TypeOK, NEW h \in Hosts, RunStep(h)
    PROVE  TypeOK'
<1> USE StageNames, LimitsAssumption, RunStepLinkType DEF TypeOK, Content, Problems, Sources,
        GoTo, Give, Fault, runVars, loadVars, recVars, backVars, histVars
<1>1. CASE Snapshot(h)  BY <1>1 DEF Snapshot, Adopted
<1>2. CASE Render(h)    BY <1>2 DEF Render
<1>3. CASE Decide(h)    BY <1>3 DEF Decide
<1>4. CASE Schedule(h)  BY <1>4 DEF Schedule, Scheduled, RestoreSource
<1>5. CASE Apply(h)
  <2>1. CASE Restart(h)       BY <1>5, <2>1 DEF Apply, Restart
  <2>2. CASE RestartFails(h)  BY <1>5, <2>2 DEF Apply, RestartFails
  <2>3. CASE RestartLost(h)   BY <1>5, <2>3 DEF Apply, RestartLost
  <2> QED  BY <1>5, <2>1, <2>2, <2>3 DEF Apply
<1>6. CASE Allow(h)
  BY <1>6 DEF Allow, AllowNotAsked, AllowThisRun, AllowFails
<1>7. CASE Verify(h)    BY <1>7 DEF Verify
<1>8. CASE Cancel(h)    BY <1>8 DEF Cancel
<1>9. CASE Check(h)     BY <1>9 DEF Check, RollbackState
<1>10. CASE Record(h)   BY <1>10 DEF Record
<1>11. CASE RecordChecksum(h)  BY <1>11 DEF RecordChecksum
<1>12. CASE Forget(h)   BY <1>12 DEF Forget
<1> QED
  BY <1>1, <1>2, <1>3, <1>4, <1>5, <1>6, <1>7, <1>8, <1>9, <1>10, <1>11, <1>12 DEF RunStep

\* So does every step.
LEMMA NextType == TypeOK /\ [Next]_vars => TypeOK'
<1> SUFFICES ASSUME TypeOK, [Next]_vars PROVE TypeOK'
  OBVIOUS
<1>1. CASE StartRun
  <2>1. came' \in [Hosts -> SUBSET Content]
    BY <1>1 DEF StartRun, TypeOK
  <2>2. linked' \in [Hosts -> BOOLEAN] /\ opted' \in BOOLEAN
    BY <1>1, Zenon DEF StartRun
  <2> QED
    BY <1>1, <2>1, <2>2, StageNames, LimitsAssumption DEF StartRun, TypeOK, Content, Problems,
       loadVars, recVars, histVars
<1>2. CASE Report \/ RunDies
  BY <1>2, LimitsAssumption DEF Report, RunDies, AbortRun, Fault, TypeOK, loadVars, linkVars,
     recVars, backVars, histVars
<1>3. ASSUME NEW h \in Hosts, RollbackFires(h) PROVE TypeOK'
  <2>1. Restores(h) \in Content
    BY DEF Restores, TypeOK, Content
  <2>2. timer' \in [Hosts -> Sources]
    BY <1>3 DEF RollbackFires, TypeOK, Sources
  <2>3. fired' \in [Hosts -> BOOLEAN] /\ enabled' \in [Hosts -> BOOLEAN]
        /\ active' \in [Hosts -> BOOLEAN]
    BY <1>3, Zenon DEF RollbackFires, TypeOK
  <2>4. element' \in [Hosts -> SUBSET Copies]
    BY <1>3, CopiedType DEF RollbackFires, Copies
  <2> QED
    BY <1>3, <2>1, <2>2, <2>3, <2>4 DEF RollbackFires, TypeOK, runVars, linkVars, recVars,
       histVars
<1>4. ASSUME NEW h \in Hosts, Boots(h) PROVE TypeOK'
  <2>1. kernel' \in [Hosts -> Content]
    BY <1>4 DEF Boots, TypeOK, Content
  <2>2. active' \in [Hosts -> BOOLEAN] /\ linked' \in [Hosts -> BOOLEAN]
    BY <1>4, Zenon DEF Boots, TypeOK
  <2>3. timer' \in [Hosts -> Sources]
    BY <1>4 DEF Boots, TypeOK, Sources
  <2>4. boots' \in 0..MaxBoots
    BY <1>4, LimitsAssumption DEF Boots, TypeOK
  <2>5. element' \in [Hosts -> SUBSET Copies]
    BY <1>4, CopiedType DEF Boots, Copies, TypeOK
  <2> QED
    BY <1>4, <2>1, <2>2, <2>3, <2>4, <2>5 DEF Boots, TypeOK, runVars, recVars, histVars
<1>5. ASSUME NEW h \in Hosts, Expire(h) PROVE TypeOK'
  BY <1>5 DEF Expire, TypeOK, runVars, loadVars, linkVars, recVars, backVars, histVars
<1>6. CASE UNCHANGED vars
  BY <1>6 DEF vars, TypeOK, runVars, loadVars, linkVars, recVars, backVars, histVars
<1> QED
  BY <1>1, <1>2, <1>3, <1>4, <1>5, <1>6, RunStepType DEF Next

\* The variables keep to what the role's files, units and tasks can hold.
THEOREM TypeCorrect == Spec => []TypeOK
<1>1. Init => TypeOK
  BY InitType
<1>2. TypeOK /\ [Next]_vars => TypeOK'
  BY NextType
<1> QED
  BY <1>1, <1>2, PTL DEF Spec

-----------------------------------------------------------------------------
(* The safe apply                                                          *)

\* The tables a run's fresh connection came through, and having none.
Good(h) == came[h] \cup {NoTable}
BeforeSchedule == {"snapshot", "render", "decide", "schedule"}
Passed(h) == hpc[h] = "done" /\ problem[h] = "none"

\* The host's records: tables that let a run in, and those a pending rollback needs are
\* there.
Records(h) ==
    /\ recorded[h] \in Good(h) /\ checksum[h] \in Good(h) /\ adopted[h] \in Good(h)
    /\ timer[h] = "applied" => recorded[h] # NoTable
    /\ timer[h] = "adopted" => adopted[h] # NoTable
    /\ timer[h] = "none" => running[h] = NoTable

\* Up to the schedule nothing is pending; the run's connection, while it lives,
\* came through the loaded table; the snapshot and the file are the run's.
Prepared(h) ==
    /\ hpc[h] # "idle" => wanted[h] \in Tables
    /\ hpc[h] \in BeforeSchedule => timer[h] = "off" /\ ~fired[h]
    /\ hpc[h] \in BeforeSchedule /\ linked[h] => kernel[h] \in Good(h)
    /\ hpc[h] \in {"render", "decide", "schedule"} /\ recorded[h] = NoTable
            => adopted[h] = running[h]
    /\ hpc[h] \in {"decide", "schedule"} => disk[h] = wanted[h]
    /\ hpc[h] = "schedule" => enabled[h]

\* From there on, unless the rollback has fired, the wanted table is on disk
\* and survives a reboot; it runs once applied, and let the run in from the
\* cancel on.
Applied(h) ==
    /\ hpc[h] \in {"apply", "allow", "verify", "cancel", "check"} /\ ~fired[h]
            => enabled[h] /\ disk[h] = wanted[h]
    /\ hpc[h] \in {"allow", "verify", "cancel", "check"} /\ ~fired[h]
            => active[h] /\ kernel[h] = wanted[h]
    /\ hpc[h] \in {"cancel", "check"} /\ ~fired[h] => wanted[h] \in came[h]

\* What is recorded is that table, and nothing can take it away any more.
Kept(h) ==
    /\ hpc[h] \in {"record", "checksum", "forget"} \/ Passed(h) =>
            /\ timer[h] = "off" /\ ~fired[h] /\ enabled[h] /\ active[h]
            /\ kernel[h] = wanted[h] /\ disk[h] = wanted[h] /\ wanted[h] \in came[h]
    /\ hpc[h] \in {"checksum", "forget"} \/ Passed(h) => recorded[h] = wanted[h]
    /\ hpc[h] = "forget" \/ Passed(h) => checksum[h] = wanted[h]

HostInv(h) == Records(h) /\ Prepared(h) /\ Applied(h) /\ Kept(h)
Inv == \A h \in Hosts : HostInv(h)

\* Nothing is recorded or pending on a host at first.
LEMMA InvInit == Init => Inv
<1> SUFFICES ASSUME Init, NEW h \in Hosts PROVE HostInv(h)
  BY DEF Inv
<1>1. /\ hpc[h] = "idle" /\ timer[h] = "off"
      /\ recorded[h] = NoTable /\ checksum[h] = NoTable /\ adopted[h] = NoTable
  BY DEF Init
<1> QED
  BY <1>1 DEF HostInv, Records, Prepared, Applied, Kept, Good, BeforeSchedule, Passed

\* Whatever its source, a restore puts a table back that let a run in, or none.
LEMMA RestoresGood ==
    ASSUME NEW h \in Hosts, HostInv(h)
    PROVE  Restores(h) \in Good(h)
  BY DEF HostInv, Records, Restores, Good

\* A step leaves a host alone.
Untouched(g) ==
    /\ hpc'[g] = hpc[g] /\ wanted'[g] = wanted[g] /\ problem'[g] = problem[g]
    /\ disk'[g] = disk[g] /\ kernel'[g] = kernel[g]
    /\ active'[g] = active[g] /\ enabled'[g] = enabled[g]
    /\ recorded'[g] = recorded[g] /\ checksum'[g] = checksum[g]
    /\ adopted'[g] = adopted[g] /\ timer'[g] = timer[g] /\ fired'[g] = fired[g]
    /\ running'[g] = running[g] /\ linked'[g] = linked[g] /\ came'[g] = came[g]

\* A host that a step leaves alone keeps its invariant.
LEMMA UntouchedInv ==
    ASSUME NEW g \in Hosts, HostInv(g), Untouched(g)
    PROVE  HostInv(g)'
  BY DEF Untouched, HostInv, Records, Prepared, Applied, Kept, Passed, Good, BeforeSchedule

\* A table that let a run in stays one; a step of a host on its own loses no
\* history.
LEMMA ConnectsGrows ==
    ASSUME TypeOK, NEW h \in Hosts, Connects(h) \/ UNCHANGED linkVars
    PROVE  /\ \A g \in Hosts : came[g] \subseteq came'[g]
           /\ \A g \in Hosts \ {h} : linked'[g] = linked[g] /\ came'[g] = came[g]
           /\ Connects(h) => linked'[h] /\ (linked[h] \/ kernel[h] \in came'[h])
  BY DEF Connects, linkVars, TypeOK

\* A task, a rollback, a reboot and an expiry touch their own host only.
LEMMA StepTouchesOne ==
    ASSUME TypeOK, NEW h \in Hosts, NEW g \in Hosts, g # h,
           RunStep(h) \/ RollbackFires(h) \/ Boots(h) \/ Expire(h)
    PROVE  Untouched(g)
<1> USE ConnectsGrows DEF TypeOK, Untouched, GoTo, Give, Task, runVars, loadVars, recVars,
        backVars, histVars
<1>1. CASE Snapshot(h) \/ Render(h) \/ Decide(h) \/ Schedule(h)
  BY <1>1 DEF Snapshot, Render, Decide, Schedule
<1>2. CASE Apply(h) \/ Allow(h)
  BY <1>2 DEF Apply, Restart, RestartFails, RestartLost, Allow, AllowNotAsked, AllowThisRun,
     AllowFails
<1>3. CASE Verify(h) \/ Cancel(h) \/ Check(h)
  BY <1>3 DEF Verify, Cancel, Check
<1>4. CASE Record(h) \/ RecordChecksum(h) \/ Forget(h)
  BY <1>4 DEF Record, RecordChecksum, Forget
<1>5. CASE RollbackFires(h) \/ Boots(h) \/ Expire(h)
  BY <1>5 DEF RollbackFires, Boots, Expire, linkVars
<1> QED
  BY <1>1, <1>2, <1>3, <1>4, <1>5 DEF RunStep

\* Each task keeps the invariant of its host.
LEMMA RunStepInv ==
    ASSUME TypeOK, NEW h \in Hosts, HostInv(h), RunStep(h)
    PROVE  HostInv(h)'
<1> USE TablesAssumption, ConnectsGrows DEF TypeOK, HostInv, Records, Prepared, Applied, Kept,
        Passed, Good, BeforeSchedule, Task, Turn, GoTo, Give, runVars, loadVars, recVars,
        backVars, histVars
<1>1. CASE Snapshot(h)  BY <1>1 DEF Snapshot, Adopted
<1>2. CASE Render(h)    BY <1>2 DEF Render
<1>3. CASE Decide(h)    BY <1>3 DEF Decide
<1>4. CASE Schedule(h)  BY <1>4 DEF Schedule, Scheduled, RestoreSource
<1>5. CASE Apply(h)
  <2>1. CASE Restart(h)       BY <1>5, <2>1 DEF Apply, Restart
  <2>2. CASE RestartFails(h)  BY <1>5, <2>2 DEF Apply, RestartFails
  <2>3. CASE RestartLost(h)   BY <1>5, <2>3 DEF Apply, RestartLost
  <2> QED  BY <1>5, <2>1, <2>2, <2>3 DEF Apply
<1>6. CASE Allow(h)
  BY <1>6 DEF Allow, AllowNotAsked, AllowThisRun, AllowFails
<1>7. CASE Verify(h)
  <2>1. came[h] \subseteq came'[h] /\ (FreshConnection(h) => kernel[h] \in came'[h])
    BY <1>7 DEF Verify, FreshConnection
  <2> QED  BY <1>7, <2>1 DEF Verify
<1>8. CASE Cancel(h)    BY <1>8 DEF Cancel
<1>9. CASE Check(h)     BY <1>9 DEF Check, RollbackState
<1>10. CASE Record(h)   BY <1>10 DEF Record
<1>11. CASE RecordChecksum(h)  BY <1>11 DEF RecordChecksum
<1>12. CASE Forget(h)   BY <1>12 DEF Forget
<1> QED
  BY <1>1, <1>2, <1>3, <1>4, <1>5, <1>6, <1>7, <1>8, <1>9, <1>10, <1>11, <1>12 DEF RunStep

\* So do a rollback that fires at any moment of the run, a reboot and an expiry.
LEMMA HostActsInv ==
    ASSUME TypeOK, NEW h \in Hosts, HostInv(h), RollbackFires(h) \/ Boots(h) \/ Expire(h)
    PROVE  HostInv(h)'
<1> USE TablesAssumption DEF TypeOK, HostInv, Records, Prepared, Applied, Kept, Passed,
        Good, BeforeSchedule, runVars, linkVars, recVars, histVars
<1>1. CASE RollbackFires(h)
  BY <1>1, RestoresGood DEF RollbackFires
<1>2. CASE Boots(h)
  BY <1>2 DEF Boots
<1>3. CASE Expire(h)
  BY <1>3 DEF Expire, loadVars, backVars
<1> QED
  BY <1>1, <1>2, <1>3

\* No step of any host, of a run as a whole, or of nobody breaks it.
LEMMA InvStep == TypeOK /\ Inv /\ [Next]_vars => Inv'
<1> SUFFICES ASSUME TypeOK, Inv, [Next]_vars, NEW g \in Hosts PROVE HostInv(g)'
  BY DEF Inv
<1>0. HostInv(g)
  BY DEF Inv
<1>1. CASE StartRun
  BY <1>0, <1>1, TablesAssumption DEF StartRun, HostInv, Records, Prepared, Applied, Kept,
     Passed, Good, BeforeSchedule, loadVars, recVars, histVars
<1>2. CASE Report \/ RunDies
  BY <1>0, <1>2 DEF Report, RunDies, AbortRun, HostInv, Records, Prepared, Applied, Kept,
     Passed, Good, BeforeSchedule, loadVars, linkVars, recVars, backVars, histVars
<1>3. ASSUME NEW h \in Hosts, RunStep(h) \/ RollbackFires(h) \/ Boots(h) \/ Expire(h)
      PROVE  HostInv(g)'
  <2>1. CASE g = h
    BY <1>0, <1>3, <2>1, RunStepInv, HostActsInv
  <2>2. CASE g # h
    BY <1>0, <1>3, <2>2, StepTouchesOne, UntouchedInv
  <2> QED  BY <2>1, <2>2
<1>4. CASE UNCHANGED vars
  BY <1>0, <1>4, UntouchedInv DEF vars, Untouched, runVars, loadVars, linkVars, recVars,
     backVars, histVars
<1> QED
  BY <1>1, <1>2, <1>3, <1>4 DEF Next

\* The invariant holds in every state of a run.
LEMMA InvHolds == Spec => []Inv
<1>1. Init => TypeOK /\ Inv
  BY InitType, InvInit
<1>2. TypeOK /\ Inv /\ [Next]_vars => (TypeOK /\ Inv)'
  BY NextType, InvStep
<1> QED
  BY <1>1, <1>2, PTL DEF Spec

\* Whatever a pending rollback will put back let a run's fresh connection in
\* before, also when earlier runs died anywhere (nftables.yml 111-119, apply.yml
\* 31-36).
THEOREM PendingRollbackIsSafe == Spec => []RollbackLetsIn
<1>1. Inv => RollbackLetsIn
  BY RestoresGood DEF Inv, RollbackLetsIn, Good
<1> QED
  BY <1>1, InvHolds, PTL

\* A rollback leaves a host without a firewall only if it had none when the
\* run began (README step 2, rollback.sh).
THEOREM FirewallSurvivesRollback == Spec => []RollbackKeepsAFirewall
<1>1. TypeOK /\ Inv => RollbackKeepsAFirewall
  BY DEF TypeOK, Sources, Inv, HostInv, Records, RollbackKeepsAFirewall, Restores
<1> QED
  BY <1>1, InvHolds, TypeCorrect, PTL

\* Both records only ever name tables a fresh connection came back through:
\* a re-run never takes an unverified table for applied (nftables.yml 59-64).
THEOREM OnlyVerifiedRecorded == Spec => []RecordsAreVerified
<1>1. Inv => RecordsAreVerified
  BY DEF Inv, HostInv, Records, RecordsAreVerified, Good
<1> QED
  BY <1>1, InvHolds, PTL

\* A host the run reports as passed runs the new table, loads it at boot, has
\* it recorded, and no rollback is left to take it away (apply.yml 232-236).
THEOREM PassedIsKept == Spec => []PassedHostKeepsItsTable
<1>1. Inv => PassedHostKeepsItsTable
  BY DEF Inv, HostInv, Kept, Passed, PassedHostKeepsItsTable
<1> QED
  BY <1>1, InvHolds, PTL

-----------------------------------------------------------------------------
(* A host that shuts ssh out                                               *)

\* The safety half of LockedOutRecovers: unless the host was rebooted, a table
\* that shuts ssh out is only loaded with a rollback pending, or where a run was
\* let in on its own allowance, which has expired.
LockedOutHasARollback ==
    \A h \in Hosts : ~Opens(h) =>
        timer[h] # "off" \/ boots > 0 \/ kernel[h] \in came[h] \cap LetsRunIn

\* A run comes through a table that lets anyone in, or its own source.
CameInv == \A h \in Hosts : came[h] \subseteq LetsIn \cup LetsRunIn \cup {NoTable}

\* With no reboot, a rollback is pending while a table is loaded that let nobody
\* in yet, and gone only once it fired or a fresh connection came back.
NoRebootInv ==
    boots = 0 =>
      \A h \in Hosts :
        /\ kernel[h] \notin Good(h) => timer[h] # "off"
        /\ hpc[h] = "apply" /\ ~fired[h] => timer[h] # "off"
        /\ hpc[h] = "cancel" => kernel[h] \in Good(h)

\* A fired rollback leaves a good table, or none, on disk.
FiredInv == \A h \in Hosts : fired[h] => disk[h] \in Good(h)

\* No table that let a run in is ever forgotten, and none is added that did not.
LEMMA CameStep ==
    ASSUME TypeOK, CameInv, [Next]_vars
    PROVE  CameInv' /\ \A g \in Hosts : came[g] \subseteq came'[g]
<1>1. ASSUME NEW h \in Hosts, Opens(h)
      PROVE  kernel[h] \in LetsIn \cup LetsRunIn \cup {NoTable}
  BY <1>1 DEF Opens
<1>2. ASSUME NEW h \in Hosts, Connects(h) \/ UNCHANGED linkVars
      PROVE  CameInv' /\ \A g \in Hosts : came[g] \subseteq came'[g]
  BY <1>1, <1>2 DEF Connects, Reached, linkVars, CameInv, TypeOK
<1>3. CASE StartRun
  BY <1>1, <1>3 DEF StartRun, CameInv, TypeOK
<1>4. CASE Report \/ RunDies \/ UNCHANGED vars
  BY <1>4 DEF Report, RunDies, vars, linkVars, CameInv
<1>5. ASSUME NEW h \in Hosts, RunStep(h) PROVE CameInv' /\ \A g \in Hosts : came[g] \subseteq came'[g]
  <2>1. CASE Verify(h)
    BY <1>1, <2>1 DEF Verify, CameInv, TypeOK
  <2>2. CASE ~Verify(h)
    <3>1. Connects(h) \/ UNCHANGED linkVars
      BY <1>5, <2>2 DEF RunStep, Snapshot, Render, Decide, Schedule, Apply, Restart,
         RestartFails, RestartLost, Allow, AllowNotAsked, AllowThisRun, AllowFails, Cancel,
         Check, Record, RecordChecksum, Forget, Task
    <3> QED  BY <1>2, <3>1
  <2> QED  BY <2>1, <2>2
<1>6. ASSUME NEW h \in Hosts, RollbackFires(h) \/ Boots(h) \/ Expire(h)
      PROVE  CameInv' /\ \A g \in Hosts : came[g] \subseteq came'[g]
  BY <1>6 DEF RollbackFires, Boots, Expire, linkVars, CameInv
<1> QED
  BY <1>3, <1>4, <1>5, <1>6 DEF Next

\* No step of the run or the host but a rollback touches a fired host's disk.
LEMMA FiredStep == TypeOK /\ Inv /\ CameInv /\ FiredInv /\ [Next]_vars => FiredInv'
<1> SUFFICES ASSUME TypeOK, Inv, CameInv, FiredInv, [Next]_vars, NEW g \in Hosts, fired'[g]
             PROVE  disk'[g] \in Good(g)'
  BY DEF FiredInv
<1>0. came[g] \subseteq came'[g]
  BY CameStep
<1> USE DEF TypeOK, FiredInv, Good, runVars, loadVars, recVars, backVars, histVars
<1>1. CASE StartRun \/ Report \/ RunDies
  BY <1>0, <1>1 DEF StartRun, Report, RunDies
<1>2. ASSUME NEW h \in Hosts, RunStep(h) PROVE disk'[g] \in Good(g)'
  <2>1. fired' = fired
    BY <1>2 DEF RunStep, Snapshot, Render, Decide, Schedule, Apply, Allow, Verify, Cancel,
       Check, Record, RecordChecksum, Forget
  <2>2. CASE Render(h)
    <3>1. ~fired[h]
      BY <2>2 DEF Render, Task, Turn, Inv, HostInv, Prepared, BeforeSchedule
    <3> QED  BY <1>0, <2>1, <2>2, <3>1 DEF Render
  <2>3. CASE ~Render(h)
    <3>1. disk' = disk
      BY <1>2, <2>3 DEF RunStep, Snapshot, Decide, Schedule, Apply, Allow, Verify, Cancel,
         Check, Record, RecordChecksum, Forget
    <3> QED  BY <1>0, <2>1, <3>1
  <2> QED  BY <2>2, <2>3
<1>3. ASSUME NEW h \in Hosts, RollbackFires(h) \/ Boots(h) \/ Expire(h)
      PROVE  disk'[g] \in Good(g)'
  BY <1>0, <1>3, RestoresGood DEF RollbackFires, Boots, Expire, Inv
<1>4. CASE UNCHANGED vars
  BY <1>0, <1>4 DEF vars
<1> QED
  BY <1>1, <1>2, <1>3, <1>4 DEF Next

\* A step that reboots nothing keeps the rollback pending where it is needed.
LEMMA NoRebootStep ==
    TypeOK /\ Inv /\ CameInv /\ FiredInv /\ NoRebootInv /\ [Next]_vars => NoRebootInv'
<1> SUFFICES ASSUME TypeOK, Inv, CameInv, FiredInv, NoRebootInv, [Next]_vars, boots' = 0,
                    NEW g \in Hosts
             PROVE  /\ kernel'[g] \notin Good(g)' => timer'[g] # "off"
                    /\ hpc'[g] = "apply" /\ ~fired'[g] => timer'[g] # "off"
                    /\ hpc'[g] = "cancel" => kernel'[g] \in Good(g)'
  BY DEF NoRebootInv
<1> DEFINE Goal == /\ kernel'[g] \notin Good(g)' => timer'[g] # "off"
                   /\ hpc'[g] = "apply" /\ ~fired'[g] => timer'[g] # "off"
                   /\ hpc'[g] = "cancel" => kernel'[g] \in Good(g)'
<1>0. ASSUME NEW h \in Hosts PROVE ~Boots(h)
  BY LimitsAssumption DEF Boots, TypeOK
<1>1. boots = 0
  <2>1. boots' = boots
    BY <1>0 DEF Next, StartRun, Report, RunDies, RunStep, Snapshot, Render, Decide, Schedule,
       Apply, Allow, Verify, Cancel, Check, Record, RecordChecksum, Forget, RollbackFires,
       Expire, vars
  <2> QED  BY <2>1
<1>2. /\ kernel[g] \notin Good(g) => timer[g] # "off"
      /\ hpc[g] = "apply" /\ ~fired[g] => timer[g] # "off"
      /\ hpc[g] = "cancel" => kernel[g] \in Good(g)
      /\ came[g] \subseteq came'[g]
  BY <1>1, CameStep DEF NoRebootInv
<1> USE DEF TypeOK, Good, runVars, loadVars, recVars, backVars, histVars
<1>3. CASE StartRun
  BY <1>2, <1>3 DEF StartRun
<1>4. CASE Report \/ RunDies
  BY <1>2, <1>4 DEF Report, RunDies, AbortRun
<1>5. ASSUME NEW h \in Hosts, RunStep(h) \/ RollbackFires(h) \/ Expire(h) PROVE Goal
  <2>1. CASE g # h
    BY <1>2, <1>5, <2>1, StepTouchesOne DEF Untouched
  <2>2. CASE RunStep(h) /\ g = h
    <3> USE <1>2, <2>2 DEF GoTo, Give
    <3>1. CASE Snapshot(h) \/ Render(h) \/ Decide(h)
      BY <3>1 DEF Snapshot, Render, Decide
    <3>2. CASE Schedule(h)
      BY <3>2 DEF Schedule, Scheduled, RestoreSource
    <3>3. CASE Apply(h)
      <4>1. CASE Restart(h)
        BY <3>3, <4>1 DEF Apply, Restart, Turn, FiredInv
      <4>2. CASE RestartFails(h) \/ RestartLost(h)
        BY <3>3, <4>2 DEF Apply, RestartFails, RestartLost
      <4> QED  BY <3>3, <4>1, <4>2 DEF Apply
    <3>4. CASE Allow(h)
      BY <3>4 DEF Allow, AllowNotAsked, AllowThisRun, AllowFails
    <3>5. CASE Verify(h)
      BY <3>5 DEF Verify, FreshConnection
    <3>6. CASE Cancel(h)
      BY <3>6 DEF Cancel, Turn
    <3>7. CASE Check(h) \/ Record(h) \/ RecordChecksum(h) \/ Forget(h)
      BY <3>7 DEF Check, Record, RecordChecksum, Forget
    <3> QED  BY <3>1, <3>2, <3>3, <3>4, <3>5, <3>6, <3>7 DEF RunStep
  <2>3. CASE RollbackFires(h) /\ g = h
    <3>1. Restores(h) \in Good(h)
      BY RestoresGood DEF Inv
    <3> QED  BY <1>2, <2>3, <3>1 DEF RollbackFires, linkVars
  <2>4. CASE Expire(h) /\ g = h
    BY <1>2, <2>4 DEF Expire, linkVars
  <2> QED  BY <1>5, <2>1, <2>2, <2>3, <2>4
<1>6. CASE UNCHANGED vars
  BY <1>2, <1>6 DEF vars
<1> QED
  BY <1>0, <1>3, <1>4, <1>5, <1>6 DEF Next

\* A host that a run has locked the operator out of has a rollback pending, as
\* long as no reboot took it away (apply.yml 90-104), or runs a table that let a
\* run in while its own source was allowed (apply.yml 154-163): a run that dies,
\* a host that is lost or a restore that fires too early does not change that.
THEOREM LockedOutIsPending == Spec => []LockedOutHasARollback
<1>1. Init => CameInv /\ FiredInv /\ NoRebootInv
  <2>1. Init => CameInv /\ FiredInv
    BY DEF Init, CameInv, FiredInv
  <2>2. ASSUME Init, NEW h \in Hosts PROVE hpc[h] = "idle" /\ kernel[h] \in Good(h)
    BY <2>2 DEF Init, Good
  <2>3. Init => NoRebootInv
    BY <2>2 DEF NoRebootInv
  <2> QED  BY <2>1, <2>3
<1>2. /\ TypeOK /\ Inv /\ CameInv /\ FiredInv /\ NoRebootInv /\ [Next]_vars
      => (CameInv /\ FiredInv /\ NoRebootInv)'
  BY CameStep, FiredStep, NoRebootStep
<1>3. TypeOK /\ CameInv /\ NoRebootInv => LockedOutHasARollback
  BY LimitsAssumption DEF TypeOK, CameInv, NoRebootInv, LockedOutHasARollback, Opens, Good
<1> QED
  BY <1>1, <1>2, <1>3, TypeCorrect, InvHolds, PTL DEF Spec

-----------------------------------------------------------------------------
(* The source of a run, and the files a boot loads                         *)

AfterRender == {"decide", "schedule", "apply", "allow", "verify", "cancel", "check", "record"}

\* Only the snapshot lists a run's source.  A rollback to it is all that brings it
\* to the disk, and there is none to it once a table is recorded.
ListedHost(h) ==
    /\ "applied" \notin element[h]
    /\ recorded[h] # NoTable => "disk" \notin element[h] /\ timer[h] # "adopted"
    /\ hpc[h] \in AfterRender /\ ~fired[h] => "disk" \notin element[h]
ListedInv == \A h \in Hosts : ListedHost(h)

\* A step of one host leaves the source of the others where it is.
LEMMA ElementTouchesOne ==
    ASSUME TypeOK, NEW h \in Hosts, NEW g \in Hosts, g # h,
           RunStep(h) \/ RollbackFires(h) \/ Boots(h) \/ Expire(h)
    PROVE  element'[g] = element[g]
  BY DEF TypeOK, RunStep, Snapshot, Render, Decide, Schedule, Apply, Restart, RestartFails,
     RestartLost, Allow, AllowNotAsked, AllowThisRun, AllowFails, Verify, Cancel, Check, Record,
     RecordChecksum, Forget, RollbackFires, Boots, Expire, Copied

\* A task does not bring it to a file that a boot or a rollback loads.
LEMMA RunStepListed ==
    ASSUME TypeOK, NEW h \in Hosts, HostInv(h), ListedHost(h), RunStep(h)
    PROVE  ListedHost(h)'
<1> USE DEF TypeOK, ListedHost, AfterRender, Task, Turn, GoTo, Give, Copied, runVars, loadVars,
        recVars, backVars, histVars
<1>1. CASE Snapshot(h)  BY <1>1 DEF Snapshot
<1>2. CASE Render(h)    BY <1>2 DEF Render
<1>3. CASE Decide(h)    BY <1>3 DEF Decide
<1>4. CASE Schedule(h)  BY <1>4 DEF Schedule, Scheduled, RestoreSource
<1>5. CASE Apply(h)
  BY <1>5 DEF Apply, Restart, RestartFails, RestartLost
<1>6. CASE Allow(h)
  BY <1>6 DEF Allow, AllowNotAsked, AllowThisRun, AllowFails
<1>7. CASE Verify(h) \/ Cancel(h) \/ Check(h)
  BY <1>7 DEF Verify, Cancel, Check
<1>8. CASE Record(h)
  <2>1. timer[h] = "off" /\ ~fired[h]
    BY <1>8 DEF Record, HostInv, Kept
  <2> QED  BY <1>8, <2>1 DEF Record
<1>9. CASE RecordChecksum(h) \/ Forget(h)
  BY <1>9 DEF RecordChecksum, Forget
<1> QED
  BY <1>1, <1>2, <1>3, <1>4, <1>5, <1>6, <1>7, <1>8, <1>9 DEF RunStep

\* No step does.
LEMMA ListedStep == TypeOK /\ Inv /\ ListedInv /\ [Next]_vars => ListedInv'
<1> SUFFICES ASSUME TypeOK, Inv, ListedInv, [Next]_vars, NEW g \in Hosts PROVE ListedHost(g)'
  BY DEF ListedInv
<1>0. ListedHost(g) /\ HostInv(g)
  BY DEF ListedInv, Inv
<1> USE DEF ListedHost, AfterRender, runVars, loadVars, linkVars, recVars, backVars, histVars
<1>1. CASE StartRun
  BY <1>0, <1>1 DEF StartRun
<1>2. CASE Report \/ RunDies
  BY <1>0, <1>2 DEF Report, RunDies, AbortRun
<1>3. ASSUME NEW h \in Hosts, RunStep(h) \/ RollbackFires(h) \/ Boots(h) \/ Expire(h)
      PROVE  ListedHost(g)'
  <2>1. CASE g # h
    BY <1>0, <1>3, <2>1, StepTouchesOne, ElementTouchesOne DEF Untouched
  <2>2. CASE RunStep(h) /\ g = h
    BY <1>0, <2>2, RunStepListed
  <2>3. CASE RollbackFires(h) /\ g = h
    <3>1. timer[h] \in {"applied", "adopted", "none"} /\ "none" \notin element[h]
      BY <2>3 DEF RollbackFires, TypeOK, Sources, Copies
    <3> QED  BY <1>0, <2>3, <3>1 DEF RollbackFires, Copied, TypeOK
  <2>4. CASE Boots(h) /\ g = h
    BY <1>0, <2>4 DEF Boots, Copied, TypeOK
  <2>5. CASE Expire(h) /\ g = h
    BY <1>0, <2>5 DEF Expire, TypeOK
  <2> QED  BY <1>3, <2>1, <2>2, <2>3, <2>4, <2>5
<1>4. CASE UNCHANGED vars
  BY <1>0, <1>4 DEF vars
<1> QED
  BY <1>1, <1>2, <1>3, <1>4 DEF Next

\* Once a host recorded a verified table, no boot brings the source of an earlier
\* run back, wherever runs died and whatever was rolled back in between
\* (cs-static.nft.j2 60-64, nftables.yml 111-136).
THEOREM BootForgetsTheSource == Spec => RecordedHostBootsEmpty
<1>1. Init => ListedInv
  BY DEF Init, ListedInv, ListedHost, AfterRender
<1>2. TypeOK /\ Inv /\ ListedInv /\ [Next]_vars => ListedInv'
  BY ListedStep
<1>3. TypeOK /\ ListedInv =>
         \A h \in Hosts : Boots(h) /\ recorded[h] # NoTable => "kernel" \notin element'[h]
  BY DEF ListedInv, ListedHost, Boots, Copied, TypeOK
<1> QED
  BY <1>1, <1>2, <1>3, TypeCorrect, InvHolds, PTL DEF Spec, RecordedHostBootsEmpty
=============================================================================
