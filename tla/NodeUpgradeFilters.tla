------------------------- MODULE NodeUpgradeFilters -------------------------
(***************************************************************************)
(* roles/node_upgrade/filter_plugins/node_upgrade.py: what the maintenance *)
(* roles read out of cs-agent's answers, docker's lists, dpkg's and the    *)
(* files' times.                                                           *)
(*                                                                         *)
(* A document is a function from its keys; one that cs-agent did not print *)
(* has none.  A container is [id, name, running, system], the list of them *)
(* a set.                                                                  *)
(***************************************************************************)
EXTENDS Naturals, FiniteSets

Null == "null"
Nobody == [id |-> Null, name |-> Null, running |-> FALSE]

-----------------------------------------------------------------------------
(* cs-agent maintenance ... --json *)

CliShape(doc) ==
    IF "error" \in DOMAIN doc THEN "error"
    ELSE IF {"paused", "local"} \subseteq DOMAIN doc THEN "status"
    ELSE "none"

\* The shape first, the exit code second: the same code comes from paths that
\* leave the node in different states.
Mut_OnOutcome(doc, rc) ==
    IF CliShape(doc) = "none" THEN "no_output"
    ELSE IF rc = 4 THEN "not_placed"
    ELSE IF CliShape(doc) = "error" THEN "error"
    ELSE CASE rc = 0 -> IF doc.local # Null THEN "ok" ELSE "failed"
           [] rc = 2 -> "timeout"
           [] rc = 1 -> IF doc.local # Null THEN "interrupted" ELSE "cleared"
           [] OTHER  -> "failed"

OnOutcome(doc, rc) ==
    IF CliShape(doc) # "status" THEN IF CliShape(doc) = "error" THEN "error" ELSE "no_output"
    ELSE CASE rc = 0 -> IF doc.local # Null THEN "ok" ELSE "failed"
           [] rc = 2 -> "timeout"
           [] rc = 4 -> IF doc.local # Null THEN "unconfirmed" ELSE "not_placed"
           [] rc = 1 -> IF doc.local # Null THEN "interrupted" ELSE "cleared"
           [] OTHER  -> "failed"

\* `held` is "unknown" when no status came with the answer.
ClassifyOn(doc, rc) ==
    [ outcome |-> OnOutcome(doc, rc),
      ok      |-> OnOutcome(doc, rc) = "ok",
      held    |-> IF CliShape(doc) = "status" THEN IF doc.local # Null THEN "yes" ELSE "no"
                  ELSE "unknown" ]

OnRetry(doc, rc) == ClassifyOn(doc, rc).outcome = "not_placed"

\* The verdict of one status read while the agent comes back.
AgentStatus(doc, rc) ==
    LET code == IF "exit_code" \in DOMAIN doc THEN doc.exit_code ELSE rc
    IN  CASE CliShape(doc) = "none"   -> "no_output"
          [] CliShape(doc) = "error"  -> IF code = 3 THEN "unavailable" ELSE "error"
          [] CliShape(doc) = "status" -> IF doc.local = Null THEN "unheld"
                                         ELSE IF doc.agent_active THEN "ready"
                                         ELSE "agent_inactive"

AgentDone(verdict)  == verdict \in {"unheld", "ready", "error"}
AgentReady(verdict) == verdict = "ready"

-----------------------------------------------------------------------------
(* Containers. *)

SelectRunningTenants(containers) ==
    {[id |-> c.id, name |-> c.name] : c \in {d \in containers : d.running /\ ~d.system}}

\* By id, falling back to name: a container recreated under its name counts.
Mut_CurrentOf(r, ps) ==
    IF \E c \in ps : c.id = r.id THEN CHOOSE c \in ps : c.id = r.id ELSE Nobody

CurrentOf(r, ps) ==
    IF \E c \in ps : c.id = r.id THEN CHOOSE c \in ps : c.id = r.id
    ELSE IF \E c \in ps : c.name = r.name THEN CHOOSE c \in ps : c.name = r.name
    ELSE Nobody

ResolveRecorded(recorded, ps) ==
    {[id |-> r.id, name |-> r.name, current |-> CurrentOf(r, ps).id,
      running |-> CurrentOf(r, ps).running] : r \in recorded}

Found(entry) == entry.current # Null

\* By name, by id or by the current id.
IsAcceptedDown(entry, accepted) == {entry.name, entry.id, entry.current} \cap accepted # {}

Required(entries, accepted) == {e \in entries : ~IsAcceptedDown(e, accepted)}
Accepted(entries, accepted) == {e \in entries : IsAcceptedDown(e, accepted)}

-----------------------------------------------------------------------------
(* The stop decision. *)

\* `installed` maps the packages dpkg calls installed to their versions, `pins`
\* every wanted package to its version, or to "any".
DockerDrift(installed, pins) ==
    {p \in DOMAIN pins : \/ p \notin DOMAIN installed
                         \/ pins[p] # "any" /\ installed[p] # pins[p]}

\* Whole seconds: a file written in the second dockerd started in, before it
\* did, is not newer.
Mut_FilesNewerThan(mtimes, epoch) == {f \in DOMAIN mtimes : mtimes[f] >= epoch}

FilesNewerThan(mtimes, epoch) == {f \in DOMAIN mtimes : mtimes[f] > epoch}

\* A file dockerd has not loaded is a reason, whoever noted it or did not.
Mut_MaintainDecide(drift, noted, newer, reboot, force) ==
    [ stop    |-> drift # {} \/ noted \/ reboot \/ force,
      restart |-> noted ]

MaintainDecide(drift, noted, newer, reboot, force) ==
    [ stop    |-> drift # {} \/ noted \/ newer # {} \/ reboot \/ force,
      restart |-> noted \/ newer # {} ]
=============================================================================
