---------------------------- MODULE SeedPreview ----------------------------
(* The apply of a region's manifest on an existing controller, its DRY_RUN   *)
(* preview, and the fingerprint of a preview                                 *)
(* (roles/controller_seed/filter_plugins/controller_seed_preview.py).        *)
(*                                                                           *)
(* db, the rows the manifest is about; 0 is "no such row":                   *)
(*   node, hash   the node row's agent_host, and its token's hash            *)
(*   client       the id of the metrics client                               *)
(*   link         the client the region's metric_client_id points at; the    *)
(*                region exists when it is not 0                             *)
(*   domain, cert the load balancer's domain, and its certificate, a pair of *)
(*                the domain it is for and a serial number                   *)
(*   latched      the node's datachannel backfill is done                    *)
(* m, a manifest: agentHost, domain, cert, and full, the manifest that also  *)
(* creates clients.  tick stands for what a rolled-back apply leaves behind  *)
(* and for the time: the sequences row ids and tokens come from.             *)
EXTENDS Naturals

NoCert == <<0, 0>>

\* a line of the output: what is done to which attribute, from what to what
Line(act, row, attr, was, to) ==
    [act |-> act, row |-> row, attr |-> attr, was |-> was, to |-> to]
If(cond, line) == IF cond THEN {line} ELSE {}

\* the client the manifest's region means: one it creates, or the existing one
ClientOf(db, m, tick) == IF m.full /\ db.client = 0 THEN tick + 1 ELSE db.client

\* A row that exists is never changed, only reported; but a certificate is
\* rotated whenever it differs.
Applied(db, m, tick) ==
    LET client == ClientOf(db, m, tick)
        newNode == db.node = 0
    IN  [node    |-> IF newNode THEN m.agentHost ELSE db.node,
         hash    |-> IF newNode THEN tick + 1 ELSE db.hash,
         client  |-> client,
         link    |-> IF db.link = 0 THEN client ELSE db.link,
         domain  |-> IF db.domain = 0 THEN m.domain ELSE db.domain,
         cert    |-> m.cert,
         latched |-> db.latched]

\* What it prints.  Secrets are redacted; Sidekiq logs its first connection
\* with the time.  (The lines come in a fixed order: a set is enough.)
Printed(db, m, tick) ==
    LET client == ClientOf(db, m, tick)
    IN  {Line("log", "sidekiq", "time", 0, tick)}
        \cup If(db.node = 0, Line("create", "node", "agent_host", 0, m.agentHost))
        \cup If(db.node \notin {0, m.agentHost},
                Line("drift", "node", "agent_host", db.node, m.agentHost))
        \cup If(client # db.client, Line("create", "client", "endpoint", 0, 0))
        \cup If(db.link = 0, Line("create", "region", "metric_client_id", 0, client))
        \cup If(db.link \notin {0, client},
                Line("drift", "region", "metric_client_id", db.link, client))
        \cup If(db.domain = 0, Line("create", "lb", "domain", 0, m.domain))
        \cup If(db.domain \notin {0, m.domain},
                Line("drift", "lb", "domain", db.domain, m.domain))
        \cup If(db.cert # m.cert, Line("rotate", "lb", "shared_certificate", 0, 0))

-----------------------------------------------------------------------------

IdAttrs == {"metric_client_id"}
ID_PLACEHOLDER == 0

\* Log lines dropped, the manifest side of every id replaced, nothing else.
Mut_NormalizeKeepsLog(doc) ==
    {IF l.attr \in IdAttrs THEN [l EXCEPT !.to = ID_PLACEHOLDER] ELSE l : l \in doc}
Mut_NormalizeEveryNumber(doc) ==
    {[l EXCEPT !.to = ID_PLACEHOLDER] : l \in {x \in doc : x.act # "log"}}
Normalize(doc) ==
    {IF l.attr \in IdAttrs THEN [l EXCEPT !.to = ID_PLACEHOLDER] ELSE l :
        l \in {x \in doc : x.act # "log"}}

\* sha256: as good as the document itself
Fingerprint(doc) == Normalize(doc)

\* Gate G: a load balancer's domain would only be reported, its certificate
\* rotated.
Mut_AnyDomainCounts(doc) ==
    \E l \in doc : l.act = "drift" /\ l.row = "node" /\ l.attr = "domain"
LbDomainDrift(doc) ==
    \E l \in doc : l.act = "drift" /\ l.row = "lb" /\ l.attr = "domain"
=============================================================================
