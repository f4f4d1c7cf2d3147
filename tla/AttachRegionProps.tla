------------------------- MODULE AttachRegionProps -------------------------
(* What attaching and converging a node promise.                             *)
EXTENDS AttachRegion

\* Type correctness: a run is at a task of its playbook, the tailnet's only
\* on a member, and the documents are what the roles can write.
TypeOK ==
    /\ run.pc \in Ends \cup ToSet(Roles[run.kind])
    /\ ~inv.member => run.pc \notin Tailnet
    /\ run.mode \in {"plain", "preview", "reviewed"}
    /\ node.daemon \in {"absent", "stopped", "loading", "up"}
    /\ node.login \in {"none", "pending", "in"}
    /\ node.ip \in Nat /\ node.fact \in 0 .. node.ip
    /\ {db.node, db.hash, db.client, db.link, db.domain, tick, run.hash} \subseteq Nat
    /\ DOMAIN node.running \subseteq DocKeys
    /\ DOMAIN node.file \subseteq DocKeys

\* roles/tailscale, "Joining once": a node that is logged in is never joined
\* again, however its daemon was found: stopped, starting, just rebooted.
JoinedOnce == [][Join => node.login # "in"]_vars

Remaining == {d.what : d \in Differences(node.prefs, inv.flags, inv.tags)}

\* status.yml's refusal names every step the node needs: once they were followed,
\* a run is refused for the settings only over flags of the inventory that no
\* setting of the node can satisfy.
RefusedForPrefs ==
    (TailscaleStatus \/ MemberCheck) /\ run'.pc = "refused" /\ run'.why = "prefs"
AdviceLeavesOnlyFlags ==
    [][RefusedForPrefs /\ hist.followed => Remaining \subseteq Standing(inv.flags)]_vars

\* A table this run applied lets it in from where it comes: what preflight
\* counts as covered, the template of the firewall accepts.
FromThisRun == [v |-> IF run.source.form = "mapped" THEN 4 ELSE run.source.v,
                n |-> run.source.n]
NotLockedOut ==
    [][ApplyFirewall => TableAccepts(FromThisRun, node'.table.allow, node'.table.also)]_vars

\* A phase-2 run writes what the reviewed preview showed, if the database was
\* left alone between that run's own preview and its apply.
AppliedIsReviewed ==
    [][Apply /\ run.mode = "reviewed" /\ ~hist.touched =>
          Writes(db, db') = hist.approved]_vars

\* Ids and log lines that differ on every preview do not refuse a phase-2 run:
\* what it refuses did change since the review.
RefusedMeansChanged ==
    run.pc = "refused" /\ run.why = "fingerprint" => hist.changed

\* No apply leaves a load balancer with a certificate for another domain than
\* it answers on, if the database was left alone since the preview.
CertificateFitsDomain ==
    [][Apply /\ ~hist.touched => db'.cert[1] = db'.domain]_vars

\* The node row the apply makes names the address the node has on the tailnet, if
\* the controller and the node both route over it, and then the agent listens
\* there; in every other case it is dialled on primary_ip (control-plane.md 76-84).
AgentHostIsTheNodes ==
    [][Apply /\ db.node = 0 =>
          \/ db'.node = PrimaryIp /\ ~(inv.controller /\ inv.member /\ ~inv.access)
          \/ /\ db'.node = node.ip /\ node.ip > 0
             /\ inv.controller /\ Render(inv, db'.hash)["listen_addr"] = Everywhere]_vars

\* A run that stopped after its preview changes no row, no agent.yml and no
\* running agent any more.
NothingAfterTheStop ==
    [][run.stopped /\ RunStep => UNCHANGED <<db, node>>]_vars

\* roles/cs_agent/README.md 224-227: "a converge that does not re-enroll can
\* never re-render the file with an empty hash".
NeverWithoutHash ==
    node.file # NoFile => node.file["admin_token_hash"].text # EmptyHash

\* maintain-nodes leaves every immutable key of a live node's agent.yml as it
\* was, if nobody gave the node a new token after the check.
ImmutableKeysKept ==
    [][Deploy /\ run.kind = "maintain" /\ ~hist.touched =>
          \A k \in IMMUTABLE_KEYS :
             /\ Has(node.file, k) = Has(node'.file, k)
             /\ Has(node.file, k) => SameValue(node.file[k], node'.file[k])]_vars

=============================================================================
