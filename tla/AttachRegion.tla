--------------------------- MODULE AttachRegion ----------------------------
(* Attaching a new node to an existing controller, and converging it later:  *)
(* playbooks/add-region.yml, once or in two steps, maintain-nodes.yml, and a *)
(* run of either with `--tags enroll`.  What is modelled is the part of them *)
(* in which the node, the inventory and the controller's database have to    *)
(* agree: the preflight gates, the roles tailscale, controller_seed,         *)
(* cs_agent and controller_post_enroll.                                      *)
(*                                                                           *)
(* One run at a time.  It may die after any task; people and the tailnet     *)
(* change the node and the database while it runs.                           *)
EXTENDS SshSource, TailscaleMember, SeedPreview, AgentConfig, SequencesExt

CONSTANTS
    Inventories,  \* what the inventory may say
    Sources,      \* where a run may reach the node from, as sshd reports it
    NodeStates,   \* the node at first
    Databases,    \* the controller's rows at first
    TaggedRuns,   \* whether operators use --tags enroll
    MaxRuns,      \* bound: runs of a playbook
    MaxEvents     \* bound: changes from outside, and runs that die

ASSUME BoundsAssumption == MaxRuns \in Nat /\ MaxEvents \in Nat

\* access is the node's tailscale_access_only, controller that the controller
\* routes over the tailnet and has an address there.  The domain and the
\* certificate's are keyed off one inventory value.
InvFields == {"allow", "also", "member", "access", "controller", "authkey", "flags", "tags", "key", "backup",
              "export", "retention", "domain", "cert", "full"}
Domains == {1, 2}
ASSUME InventoriesAssumption ==
    \A i \in Inventories :
        /\ DOMAIN i = InvFields /\ i.member \in BOOLEAN
        /\ i.domain \in Domains /\ i.cert[1] = i.domain
        /\ MeantExit(i.flags) \in BOOLEAN

\* A node is met with no agent.yml or one with a token hash; without tailscale
\* it is in no tailnet, in one it has an address.
NodeFields == {"daemon", "login", "prefs", "ip", "fact", "table", "file", "running"}
DocKeys == IMMUTABLE_KEYS \cup {"export"}
HasItsHash(n) == n.file # <<>> => n.file["admin_token_hash"].text # EmptyHash
ASSUME NodeStatesAssumption ==
    \A n \in NodeStates :
        /\ DOMAIN n = NodeFields
        /\ n.daemon \in {"absent", "stopped", "loading", "up"}
        /\ n.login \in {"none", "pending", "in"}
        /\ DOMAIN n.prefs = PrefFields /\ n.prefs.byHand \subseteq MustBeDefault
        /\ n.ip \in Nat /\ n.fact \in 0 .. n.ip
        /\ DOMAIN n.file \subseteq DocKeys /\ DOMAIN n.running \subseteq DocKeys
        /\ HasItsHash(n)
        /\ n.daemon = "absent" => n.login = "none"
        /\ n.login # "none" => n.ip > 0

\* Ids and tokens come from sequences that are past every row there is.
FirstTick == 4
DbFields == {"node", "hash", "client", "link", "domain", "cert", "latched"}
ASSUME DatabasesAssumption ==
    \A d \in Databases :
        /\ DOMAIN d = DbFields
        /\ d.node \in Nat /\ d.domain \in {0} \cup Domains
        /\ {d.hash, d.client, d.link} \subseteq 0 .. FirstTick

VARIABLES
    inv,    \* the inventory
    node,   \* daemon, login, wanted, prefs, ip: tailscale; fact: the local
            \* fact file; table: the ssh accepts of the firewall; file:
            \* agent.yml; running: the document the running agent started with
    db,     \* the controller's rows (SeedPreview)
    tick,   \* what a rolled-back apply leaves behind
    run,    \* kind, mode, source; pc, why; and the facts of the run: loggedIn,
            \* hash, doc, stopped, notified
    hist,   \* history: reviewed, approved; touched, changed, followed
    runs, events

vars == <<inv, node, db, tick, run, hist, runs, events>>

NoFile == <<>>
\* no preview: not the same as one that shows nothing to do
NoDoc == {Line("none", "none", "none", 0, 0)}
PrimaryIp == 9

Roles == [attach |-> <<"preflight", "ts_start", "ts_status", "ts_join", "ts_ip",
                       "firewall", "preview", "apply", "enroll", "deploy",
                       "start", "restart", "backfill">>,
          maintain |-> <<"check", "member", "ts_start", "ts_status", "ts_join",
                         "ts_ip", "enroll", "deploy", "start", "restart">>,
          tagged |-> <<"deploy", "restart">>]
Ends == {"none", "done", "refused", "died"}
Tailnet == {"member", "ts_start", "ts_status", "ts_join", "ts_ip"}

\* a play's when: the tailnet's role only on a member
Mut_DueEverywhere(task) == TRUE
Due(task) == inv.member \/ task \notin Tailnet

\* the due task that follows with none that is due in between
After(task) ==
    LET tasks == Roles[run.kind]
        next  == {i \in DOMAIN tasks :
                    /\ Due(tasks[i])
                    /\ \E k \in 1 .. i - 1 :
                          tasks[k] = task /\ \A j \in k + 1 .. i - 1 : ~Due(tasks[j])}
    IN  IF next = {} THEN "done" ELSE tasks[CHOOSE i \in next : TRUE]

\* what an apply writes that a reader of its preview can see
Writes(old, new) ==
    [node   |-> IF old.node # new.node THEN new.node ELSE 0,
     client |-> old.client # new.client,
     region |-> old.link = 0,
     domain |-> IF old.domain # new.domain THEN new.domain ELSE 0,
     rotates |-> old.cert # new.cert]
NoWrites == [node |-> 0, client |-> FALSE, region |-> FALSE, domain |-> 0,
             rotates |-> FALSE]

Init ==
    /\ inv \in Inventories /\ node \in NodeStates /\ db \in Databases
    /\ tick = FirstTick
    /\ run = [kind |-> "attach", mode |-> "plain", source |-> [form |-> "other", v |-> 0, n |-> 0],
              pc |-> "none", why |-> "none", loggedIn |-> FALSE,
              hash |-> EmptyHash, doc |-> NoDoc, stopped |-> FALSE, notified |-> FALSE]
    /\ hist = [reviewed |-> NoDoc, approved |-> NoWrites, touched |-> FALSE,
               changed |-> FALSE, followed |-> FALSE]
    /\ runs = 0 /\ events = 0

-----------------------------------------------------------------------------

Idle == run.pc \in Ends
At(task) == run.pc = task
Done == After(run.pc)
Go == run' = [run EXCEPT !.pc = Done]
Refuse(reason) == run' = [run EXCEPT !.pc = "refused", !.why = reason]

\* a phase-2 run passes the fingerprint phase 1 printed last
StartRun ==
    /\ Idle /\ runs < MaxRuns /\ runs' = runs + 1
    /\ \E kind \in {"attach", "maintain"} \cup (IF TaggedRuns THEN {"tagged"} ELSE {}),
          mode \in {"plain", "preview", "reviewed"}, source \in Sources :
          /\ kind # "attach" => mode = "plain" /\ source \in {s \in Sources : s.form = "other"}
          /\ mode = "reviewed" => hist.reviewed # NoDoc
          /\ kind # "attach" => node.file # NoFile
          /\ run' = [run EXCEPT !.kind = kind, !.mode = mode, !.source = source,
                       !.pc = Head(Roles[kind]), !.why = "none", !.loggedIn = FALSE,
                       !.hash = EmptyHash, !.doc = NoDoc, !.stopped = FALSE,
                       !.notified = FALSE]
    /\ UNCHANGED <<inv, node, db, tick, hist, events>>

\* Nothing is changed yet. 
Preflight ==
    /\ At("preflight")
    /\ IF ~Covered(run.source, inv.allow, inv.also)
       THEN Refuse("ssh source")
       ELSE IF ExportProblems(inv.export, inv.retention) # {}
            THEN Refuse("export")
            ELSE Go
    /\ UNCHANGED <<inv, node, db, tick, hist, runs, events>>

-----------------------------------------------------------------------------
(* tailscale                                                               *)

\* what `tailscale status --json` says, or the file system does
BackendState ==
    IF node.daemon = "up"
    THEN CASE node.login = "none"    -> "NeedsLogin"
           [] node.login = "pending" -> "NeedsMachineAuth"
           [] OTHER -> IF node.prefs.running THEN LOGGED_IN_STATE ELSE "Stopped"
    ELSE CASE node.daemon = "absent"  -> "NotInstalled"
           [] node.daemon = "stopped" -> ""
           [] OTHER -> "NoState"

\* A daemon that is installed is started before its state is read.
StartTailscaled ==
    /\ At("ts_start") /\ Go
    /\ node' = [node EXCEPT !.daemon = IF @ = "stopped" THEN "loading" ELSE @]
    /\ UNCHANGED <<inv, db, tick, hist, runs, events>>

\* status.yml.  NoState is waited out, twelve times: the daemon loads its
\* state before (DaemonLoads), or what is read is still NoState.  `debug prefs`
\* may print no document.
ReadStatus(joinAllowed) ==
    IF BackendState = LOGGED_IN_STATE
    THEN \/ Refuse("unreadable prefs")
         \/ IF Differences(node.prefs, inv.flags, inv.tags) # {}
            THEN Refuse("prefs")
            ELSE run' = [run EXCEPT !.pc = Done, !.loggedIn = TRUE]
    ELSE IF BackendState \in JOIN_STATES /\ joinAllowed
         THEN run' = [run EXCEPT !.pc = Done, !.loggedIn = FALSE]
         ELSE Refuse("tailscale state")

\* The gates: only an attach joins a node, and then only with a key.
TailscaleStatus ==
    /\ At("ts_status")
    /\ ReadStatus(run.kind = "attach" /\ inv.authkey)
    /\ UNCHANGED <<inv, node, db, tick, hist, runs, events>>

\* maintain-nodes, before the hold: the same, with nothing started
MemberCheck ==
    /\ At("member")
    /\ ReadStatus(FALSE)
    /\ UNCHANGED <<inv, node, db, tick, hist, runs, events>>

\* `tailscale up` with the key on a node that is not logged in, which gets an
\* address then; a logged-in one only keeps the package.
Join ==
    /\ At("ts_join") /\ ~run.loggedIn /\ ~UpRefuses(inv.flags) /\ Go
    /\ \E login \in {"in", "pending"} :
          node' = [node EXCEPT !.daemon = "up", !.login = login, !.ip = @ + 1,
                     !.prefs = Joined(inv.flags, inv.tags)]
    /\ hist' = [hist EXCEPT !.changed = TRUE]
    /\ UNCHANGED <<inv, db, tick, runs, events>>

\* `tailscale up` does not take the flags: the package is there by then.
JoinFails ==
    /\ At("ts_join") /\ ~run.loggedIn /\ UpRefuses(inv.flags) /\ Refuse("tailscale up")
    /\ node' = [node EXCEPT !.daemon = "up"]
    /\ UNCHANGED <<inv, db, tick, hist, runs, events>>

Keep ==
    /\ At("ts_join") /\ run.loggedIn /\ Go
    /\ UNCHANGED <<inv, node, db, tick, hist, runs, events>>

\* The address is read and persisted, whether the run joined the node or not.
Mut_FactOfAJoin == IF run.loggedIn THEN node.fact ELSE node.ip
FactOf == node.ip
ReadTailnetIp ==
    /\ At("ts_ip")
    /\ IF node.login = "in" /\ node.daemon = "up"
       THEN Go /\ node' = [node EXCEPT !.fact = FactOf]
       ELSE Refuse("no tailnet address") /\ UNCHANGED node
    /\ UNCHANGED <<inv, db, tick, hist, runs, events>>

\* roles/firewall (FirewallApply): the table of the inventory
ApplyFirewall ==
    /\ At("firewall") /\ Go
    /\ node' = [node EXCEPT !.table = [allow |-> inv.allow, also |-> inv.also]]
    /\ UNCHANGED <<inv, db, tick, hist, runs, events>>

-----------------------------------------------------------------------------
(* controller_seed                                                         *)

\* The node's side of manifest.yml.j2's pair; the controller's is inv.controller.
Mut_AccessOnlyForgotten == inv.member /\ node.fact # 0
NodeTailnet == inv.member /\ ~inv.access /\ node.fact # 0

\* agent_host only when both route over the tailnet; without it the controller
\* uses primary_ip.
Manifest ==
    [agentHost |-> IF inv.controller /\ NodeTailnet THEN node.fact ELSE PrimaryIp,
     domain |-> inv.domain, cert |-> inv.cert, full |-> inv.full]

\* The apply in a transaction that is rolled back, gate G, and then the end
\* of the play in phase 1, the comparison in phase 2.
Preview ==
    /\ At("preview")
    /\ LET doc == Printed(db, Manifest, tick)
       IN  IF LbDomainDrift(doc)
           THEN Refuse("lb domain") /\ hist' = [hist EXCEPT !.touched = FALSE]
           ELSE IF run.mode = "preview"
           THEN /\ run' = [run EXCEPT !.pc = "enroll", !.stopped = TRUE, !.doc = doc]
                /\ hist' = [hist EXCEPT !.touched = FALSE, !.changed = FALSE,
                              !.reviewed = Fingerprint(doc),
                              !.approved = Writes(db, Applied(db, Manifest, tick))]
           ELSE /\ IF run.mode = "reviewed" /\ Fingerprint(doc) # hist.reviewed
                   THEN Refuse("fingerprint")
                   ELSE run' = [run EXCEPT !.pc = Done, !.doc = doc]
                /\ hist' = [hist EXCEPT !.touched = FALSE]
    /\ tick' = tick + 1
    /\ UNCHANGED <<inv, node, db, runs, events>>

\* the real apply, one transaction, on what the database holds by now
Apply ==
    /\ At("apply") /\ Go
    /\ db' = Applied(db, Manifest, tick)
    /\ tick' = tick + 1
    /\ hist' = [hist EXCEPT !.changed = TRUE]
    /\ UNCHANGED <<inv, node, runs, events>>

\* every later play of add-region.yml starts with this guard
Mut_StopSeenOnController == run.kind = "attach" /\ run.pc # "enroll" /\ run.stopped
Stopped == run.kind = "attach" /\ (run.mode = "preview" \/ run.stopped)

EndPlay ==
    /\ At("enroll") \/ At("backfill")
    /\ Stopped
    /\ run' = [run EXCEPT !.pc = IF @ = "enroll" THEN "backfill" ELSE "done"]
    /\ UNCHANGED <<inv, node, db, tick, hist, runs, events>>

-----------------------------------------------------------------------------
(* cs_agent, controller_post_enroll                                        *)

RowHasHash == db.node # 0 /\ db.hash # EmptyHash

\* Read the node's token hash from its row; one that is not a hash is refused.
Mut_AnyAnswer == db.node # 0
UsableAnswer == RowHasHash
Enroll ==
    /\ At("enroll") /\ ~Stopped
    /\ IF UsableAnswer
       THEN run' = [run EXCEPT !.pc = Done, !.hash = db.hash]
       ELSE Refuse("token hash")
    /\ UNCHANGED <<inv, node, db, tick, hist, runs, events>>

\* maintain-nodes, before the hold: the file the converge would render must
\* keep the immutable keys.
ImmutableCheck ==
    /\ At("check")
    /\ IF ~UsableAnswer THEN Refuse("token hash")
       ELSE IF ImmutableChanges(node.file, Render(inv, db.hash)) # {}
            THEN Refuse("immutable keys")
            ELSE Go
    /\ hist' = [hist EXCEPT !.touched = FALSE]
    /\ UNCHANGED <<inv, node, db, tick, runs, events>>

\* With --tags enroll the tasks of read_token_hash.yml and enroll.yml, which
\* carry no tag, do not run: the hash is the role's default.
Deploy ==
    /\ At("deploy")
    /\ LET file == Render(inv, run.hash)
       IN  /\ run' = [run EXCEPT !.pc = Done, !.notified = file # node.file]
           /\ node' = [node EXCEPT !.file = file]
    /\ UNCHANGED <<inv, db, tick, hist, runs, events>>

StartAgent ==
    /\ At("start") /\ Go
    /\ node' = [node EXCEPT !.running = IF @ = NoFile THEN node.file ELSE @]
    /\ UNCHANGED <<inv, db, tick, hist, runs, events>>

\* the handler, at the end of the play
RestartAgent ==
    /\ At("restart") /\ Go
    /\ node' = [node EXCEPT !.running = IF run.notified THEN node.file ELSE @]
    /\ UNCHANGED <<inv, db, tick, hist, runs, events>>

\* The backfill calls the node's agent, which answers the token of its hash.
Answers == node.running # NoFile /\ RowHasHash
           /\ node.running["admin_token_hash"].text = db.hash
Backfill ==
    /\ At("backfill") /\ ~Stopped
    /\ IF Answers THEN Go /\ db' = [db EXCEPT !.latched = TRUE]
                  ELSE Refuse("agent does not answer") /\ UNCHANGED db
    /\ UNCHANGED <<inv, node, tick, hist, runs, events>>

-----------------------------------------------------------------------------
(* What happens to the run, the node and the controller from outside       *)

Event == events < MaxEvents /\ events' = events + 1

RunDies ==
    /\ ~Idle /\ Event
    /\ run' = [run EXCEPT !.pc = "died"]
    /\ UNCHANGED <<inv, node, db, tick, hist, runs>>

\* tailscaled and the agent are started at boot; the run loses its connection.
Reboot ==
    /\ Event
    /\ run' = IF Idle THEN run ELSE [run EXCEPT !.pc = "died"]
    /\ node' = [node EXCEPT !.daemon = IF @ = "absent" THEN @ ELSE "loading",
                  !.running = IF @ = NoFile THEN @ ELSE node.file]
    /\ UNCHANGED <<inv, db, tick, hist, runs>>

DaemonLoads ==
    /\ node.daemon = "loading"
    /\ node' = [node EXCEPT !.daemon = "up"]
    /\ UNCHANGED <<inv, db, tick, run, hist, runs, events>>

\* the tailnet logs a node out when its key expires
KeyExpires ==
    /\ Event /\ node.login = "in"
    /\ node' = [node EXCEPT !.login = "none"]
    /\ UNCHANGED <<inv, db, tick, run, hist, runs>>

\* somebody approves the node, stops the daemon, or runs `tailscale down`
Approve ==
    /\ node.login = "pending"
    /\ node' = [node EXCEPT !.login = "in"]
    /\ UNCHANGED <<inv, db, tick, run, hist, runs, events>>

TailscaleByHand ==
    /\ Idle /\ Event /\ node.daemon = "up"
    /\ \/ node' = [node EXCEPT !.daemon = "stopped"]
       \/ node.login = "in" /\ node' = [node EXCEPT !.prefs.running = ~@]
    /\ UNCHANGED <<inv, db, tick, run, hist, runs>>

\* In the admin UI: the node's row goes or gets a new token, the load
\* balancer's domain changes, the region's client is made anew.
Admin(row) ==
    /\ Event /\ db' = row /\ db' # db
    /\ hist' = [hist EXCEPT !.touched = TRUE, !.changed = TRUE]
    /\ tick' = tick + 1
    /\ UNCHANGED <<inv, node, run, runs>>

DeleteRow     == Admin([db EXCEPT !.node = 0, !.hash = 0, !.latched = FALSE])
NewToken      == db.node # 0 /\ Admin([db EXCEPT !.hash = tick + 1])
ChangeDomain  == db.domain # 0 /\ Admin([db EXCEPT !.domain = 3 - @])
RecreateClient == db.client # 0 /\ Admin([db EXCEPT !.client = tick + 1,
                                            !.link = IF @ = 0 THEN 0 ELSE tick + 1])

EditInventory ==
    /\ Idle /\ Event
    /\ inv' \in Inventories \ {inv}
    /\ hist' = [hist EXCEPT !.changed = TRUE, !.followed = FALSE]
    /\ UNCHANGED <<node, db, tick, run, runs>>

\* The operator follows the refusal's own steps for the node: one `tailscale
\* set`, then by hand what it does not cover.  Of a flag that cannot be verified
\* they only say so: the inventory stays.
FollowAdvice ==
    /\ At("refused") /\ run.why = "prefs"
    /\ LET manual == Manual(node.prefs, inv.flags, inv.tags)
           set    == Set(node.prefs, inv.flags, SetArgs(node.prefs, inv.flags, inv.tags))
       IN  node' = [node EXCEPT !.prefs = SetByHand(set, inv.flags, inv.tags, manual)]
    /\ run' = [run EXCEPT !.pc = "none", !.why = "none"]
    /\ hist' = [hist EXCEPT !.followed = TRUE, !.changed = TRUE]
    /\ UNCHANGED <<inv, db, tick, runs, events>>

-----------------------------------------------------------------------------

RunStep ==
    \/ Preflight \/ StartTailscaled \/ TailscaleStatus \/ MemberCheck \/ Join \/ JoinFails \/ Keep
    \/ ReadTailnetIp \/ ApplyFirewall \/ Preview \/ Apply \/ EndPlay
    \/ Enroll \/ ImmutableCheck \/ Deploy \/ StartAgent \/ RestartAgent \/ Backfill

Outside ==
    \/ RunDies \/ Reboot \/ DaemonLoads \/ KeyExpires \/ Approve \/ TailscaleByHand
    \/ DeleteRow \/ NewToken \/ ChangeDomain \/ RecreateClient
    \/ EditInventory \/ FollowAdvice

Next == StartRun \/ RunStep \/ Outside

Spec == Init /\ [][Next]_vars
=============================================================================
