------------------------- MODULE SeedPreview_proofs -------------------------
(* What a fingerprint of a preview says, for every database, manifest and    *)
(* number a rolled-back apply may leave behind.                              *)
EXTENDS SeedPreview, TLAPS

\* An id that is not there yet is none a row has.
FreshIds(db, tick) == db.client \in Nat /\ db.link \in Nat /\ tick \in Nat /\ db.link <= tick

\* The lines of a preview that tell what its apply writes, whatever ids and
\* times it prints.
Lines(db, m) ==
    LET makesClient == m.full /\ db.client = 0
    IN  If(db.node = 0, Line("create", "node", "agent_host", 0, m.agentHost))
        \cup If(db.node \notin {0, m.agentHost},
                Line("drift", "node", "agent_host", db.node, m.agentHost))
        \cup If(makesClient, Line("create", "client", "endpoint", 0, 0))
        \cup If(db.link = 0, Line("create", "region", "metric_client_id", 0, ID_PLACEHOLDER))
        \cup If(db.link # 0 /\ (makesClient \/ db.link # db.client),
                Line("drift", "region", "metric_client_id", db.link, ID_PLACEHOLDER))
        \cup If(db.domain = 0, Line("create", "lb", "domain", 0, m.domain))
        \cup If(db.domain \notin {0, m.domain},
                Line("drift", "lb", "domain", db.domain, m.domain))
        \cup If(db.cert # m.cert, Line("rotate", "lb", "shared_certificate", 0, 0))

\* Normalizing goes line by line.
LEMMA NormalizeUnion ==
    ASSUME NEW a, NEW b
    PROVE  Normalize(a \cup b) = Normalize(a) \cup Normalize(b)
  BY DEF Normalize

\* ... drops log lines, replaces ids, and keeps the others.
LEMMA NormalizeOne ==
    ASSUME NEW act, NEW row, NEW attr, NEW was, NEW to
    PROVE  /\ act = "log" => Normalize({Line(act, row, attr, was, to)}) = {}
           /\ act # "log" /\ attr = "metric_client_id" =>
                 Normalize({Line(act, row, attr, was, to)})
                    = {Line(act, row, attr, was, ID_PLACEHOLDER)}
           /\ act # "log" /\ attr # "metric_client_id" =>
                 Normalize({Line(act, row, attr, was, to)}) = {Line(act, row, attr, was, to)}
<1> DEFINE line == Line(act, row, attr, was, to)
           norm == IF attr = "metric_client_id" THEN Line(act, row, attr, was, ID_PLACEHOLDER)
                                                ELSE line
<1>1. line.act = act /\ line.attr = attr
  BY DEF Line
<1>2. (IF line.attr \in IdAttrs THEN [line EXCEPT !.to = ID_PLACEHOLDER] ELSE line) = norm
  BY DEF Line, IdAttrs
<1> HIDE DEF line, norm
<1>3. Normalize({line}) = IF act # "log" THEN {norm} ELSE {}
  BY <1>1, <1>2 DEF Normalize
<1> QED
  BY <1>3 DEF line, norm

\* The fingerprint of a preview does not depend on ids and times: it is made
\* of the lines that tell what the apply writes.
LEMMA FingerprintIs ==
    ASSUME NEW db, NEW m, NEW tick, FreshIds(db, tick)
    PROVE  Fingerprint(Printed(db, m, tick)) = Lines(db, m)
<1> DEFINE client == ClientOf(db, m, tick)
           makesClient == m.full /\ db.client = 0
           log == Line("log", "sidekiq", "time", 0, tick)
           b == Line("create", "node", "agent_host", 0, m.agentHost)
           c == Line("drift", "node", "agent_host", db.node, m.agentHost)
           d == Line("create", "client", "endpoint", 0, 0)
           e == Line("create", "region", "metric_client_id", 0, client)
           f == Line("drift", "region", "metric_client_id", db.link, client)
           g == Line("create", "lb", "domain", 0, m.domain)
           h == Line("drift", "lb", "domain", db.domain, m.domain)
           i == Line("rotate", "lb", "shared_certificate", 0, 0)
           e0 == Line("create", "region", "metric_client_id", 0, ID_PLACEHOLDER)
           f0 == Line("drift", "region", "metric_client_id", db.link, ID_PLACEHOLDER)
           A == {log}
           B == If(db.node = 0, b)
           C == If(db.node \notin {0, m.agentHost}, c)
           D == If(client # db.client, d)
           E == If(db.link = 0, e)
           F == If(db.link \notin {0, client}, f)
           G == If(db.domain = 0, g)
           H == If(db.domain \notin {0, m.domain}, h)
           I == If(db.cert # m.cert, i)
           norm == Fingerprint(Printed(db, m, tick))
<1>1. client # db.client <=> makesClient
  BY DEF FreshIds, ClientOf
<1>2. db.link \notin {0, client} <=> db.link # 0 /\ (makesClient \/ db.link # db.client)
  BY DEF FreshIds, ClientOf
<1>3. norm = Normalize(A \cup B \cup C \cup D \cup E \cup F \cup G \cup H \cup I)
  BY DEF Printed, Fingerprint
<1>4. /\ Normalize(A) = {} /\ Normalize({b}) = {b} /\ Normalize({c}) = {c}
      /\ Normalize({d}) = {d} /\ Normalize({e}) = {e0} /\ Normalize({f}) = {f0}
      /\ Normalize({g}) = {g} /\ Normalize({h}) = {h} /\ Normalize({i}) = {i}
  BY NormalizeOne
<1>5. Normalize({}) = {}
  BY DEF Normalize
<1>6. Lines(db, m) = If(db.node = 0, b) \cup If(db.node \notin {0, m.agentHost}, c)
                     \cup If(makesClient, d) \cup If(db.link = 0, e0)
                     \cup If(db.link # 0 /\ (makesClient \/ db.link # db.client), f0)
                     \cup If(db.domain = 0, g) \cup If(db.domain \notin {0, m.domain}, h)
                     \cup If(db.cert # m.cert, i)
  BY DEF Lines
<1> HIDE DEF log, b, c, d, e, f, g, h, i, e0, f0, norm, client, makesClient
<1>7. Normalize(B) = If(db.node = 0, b)
  BY <1>4, <1>5 DEF If
<1>8. Normalize(C) = If(db.node \notin {0, m.agentHost}, c)
  BY <1>4, <1>5 DEF If
<1>9. Normalize(D) = If(makesClient, d)
  BY <1>1, <1>4, <1>5 DEF If
<1>10. Normalize(E) = If(db.link = 0, e0)
  BY <1>4, <1>5 DEF If
<1>11. Normalize(F) = If(db.link # 0 /\ (makesClient \/ db.link # db.client), f0)
  BY <1>2, <1>4, <1>5 DEF If
<1>12. Normalize(G) = If(db.domain = 0, g)
  BY <1>4, <1>5 DEF If
<1>13. Normalize(H) = If(db.domain \notin {0, m.domain}, h)
  BY <1>4, <1>5 DEF If
<1>14. Normalize(I) = If(db.cert # m.cert, i)
  BY <1>4, <1>5 DEF If
<1> HIDE DEF A, B, C, D, E, F, G, H, I
<1>15. norm = Normalize(A) \cup Normalize(B) \cup Normalize(C) \cup Normalize(D) \cup Normalize(E)
              \cup Normalize(F) \cup Normalize(G) \cup Normalize(H) \cup Normalize(I)
  <2> DEFINE AB == A \cup B
             AC == AB \cup C
             AD == AC \cup D
             AE == AD \cup E
             AF == AE \cup F
             AG == AF \cup G
             AH == AG \cup H
  <2>1. norm = Normalize(AH \cup I)
    BY <1>3
  <2>2. /\ Normalize(AH \cup I) = Normalize(AH) \cup Normalize(I)
        /\ Normalize(AH) = Normalize(AG) \cup Normalize(H)
        /\ Normalize(AG) = Normalize(AF) \cup Normalize(G)
        /\ Normalize(AF) = Normalize(AE) \cup Normalize(F)
        /\ Normalize(AE) = Normalize(AD) \cup Normalize(E)
        /\ Normalize(AD) = Normalize(AC) \cup Normalize(D)
        /\ Normalize(AC) = Normalize(AB) \cup Normalize(C)
        /\ Normalize(AB) = Normalize(A) \cup Normalize(B)
    BY NormalizeUnion, Zenon
  <2> HIDE DEF AB, AC, AD, AE, AF, AG, AH
  <2> QED  BY <2>1, <2>2
<1>16. norm = Lines(db, m)
  BY <1>4, <1>6, <1>7, <1>8, <1>9, <1>10, <1>11, <1>12, <1>13, <1>14, <1>15
<1> QED
  BY <1>16 DEF norm

-----------------------------------------------------------------------------
(* What the lines tell                                                     *)

\* Two lines are the same where all of their parts are.
LEMMA LineInjective ==
    ASSUME NEW a, NEW b, NEW c, NEW d, NEW e, NEW a2, NEW b2, NEW c2, NEW d2, NEW e2,
           Line(a, b, c, d, e) = Line(a2, b2, c2, d2, e2)
    PROVE  a = a2 /\ b = b2 /\ c = c2 /\ d = d2 /\ e = e2
  BY DEF Line

\* What an apply of the manifest writes to the rows.
WritesOf(db, m) ==
    [node    |-> IF db.node = 0 THEN m.agentHost ELSE 0,
     client  |-> m.full /\ db.client = 0,
     region  |-> db.link = 0,
     domain  |-> IF db.domain = 0 THEN m.domain ELSE 0,
     rotates |-> db.cert # m.cert]

\* Each thing an apply writes has its line.
LEMMA LinesTell ==
    ASSUME NEW db, NEW m
    PROVE  /\ \A to : Line("create", "node", "agent_host", 0, to) \in Lines(db, m)
                         <=> db.node = 0 /\ to = m.agentHost
           /\ Line("create", "client", "endpoint", 0, 0) \in Lines(db, m)
                 <=> m.full /\ db.client = 0
           /\ Line("create", "region", "metric_client_id", 0, ID_PLACEHOLDER) \in Lines(db, m)
                 <=> db.link = 0
           /\ \A to : Line("create", "lb", "domain", 0, to) \in Lines(db, m)
                         <=> db.domain = 0 /\ to = m.domain
           /\ Line("rotate", "lb", "shared_certificate", 0, 0) \in Lines(db, m)
                 <=> db.cert # m.cert
<1>1. \A line : line \in Lines(db, m) <=>
         \/ db.node = 0 /\ line = Line("create", "node", "agent_host", 0, m.agentHost)
         \/ /\ db.node \notin {0, m.agentHost}
            /\ line = Line("drift", "node", "agent_host", db.node, m.agentHost)
         \/ m.full /\ db.client = 0 /\ line = Line("create", "client", "endpoint", 0, 0)
         \/ /\ db.link = 0
            /\ line = Line("create", "region", "metric_client_id", 0, ID_PLACEHOLDER)
         \/ /\ db.link # 0 /\ ((m.full /\ db.client = 0) \/ db.link # db.client)
            /\ line = Line("drift", "region", "metric_client_id", db.link, ID_PLACEHOLDER)
         \/ db.domain = 0 /\ line = Line("create", "lb", "domain", 0, m.domain)
         \/ /\ db.domain \notin {0, m.domain}
            /\ line = Line("drift", "lb", "domain", db.domain, m.domain)
         \/ db.cert # m.cert /\ line = Line("rotate", "lb", "shared_certificate", 0, 0)
  BY DEF Lines, If
<1> QED
  BY <1>1, LineInjective

\* So two previews with the same fingerprint show the same writes.
LEMMA SameLinesSameWrites ==
    ASSUME NEW db, NEW m, NEW db2, NEW m2, Lines(db, m) = Lines(db2, m2)
    PROVE  WritesOf(db, m) = WritesOf(db2, m2)
<1>1. /\ db.node = 0 <=> db2.node = 0
      /\ db.node = 0 => m.agentHost = m2.agentHost
      /\ m.full /\ db.client = 0 <=> m2.full /\ db2.client = 0
      /\ db.link = 0 <=> db2.link = 0
      /\ db.domain = 0 <=> db2.domain = 0
      /\ db.domain = 0 => m.domain = m2.domain
      /\ db.cert # m.cert <=> db2.cert # m2.cert
  BY LinesTell
<1>2. /\ (m.full /\ db.client = 0) = (m2.full /\ db2.client = 0)
      /\ (db.link = 0) = (db2.link = 0)
      /\ (db.cert # m.cert) = (db2.cert # m2.cert)
  BY <1>1
<1>3. /\ (IF db.node = 0 THEN m.agentHost ELSE 0) = (IF db2.node = 0 THEN m2.agentHost ELSE 0)
      /\ (IF db.domain = 0 THEN m.domain ELSE 0) = (IF db2.domain = 0 THEN m2.domain ELSE 0)
  BY <1>1
<1> QED
  BY <1>2, <1>3, Zenon DEF WritesOf

\* A load balancer's domain drifts where it is there and not the manifest's.
LEMMA DriftIs ==
    ASSUME NEW db, NEW m, NEW tick
    PROVE  LbDomainDrift(Printed(db, m, tick)) <=> db.domain \notin {0, m.domain}
<1>2. ASSUME db.domain \notin {0, m.domain}
      PROVE  LbDomainDrift(Printed(db, m, tick))
  <2> DEFINE line == Line("drift", "lb", "domain", db.domain, m.domain)
  <2>1. line.act = "drift" /\ line.row = "lb" /\ line.attr = "domain"
    BY DEF Line
  <2>2. line \in Printed(db, m, tick)
    BY <1>2 DEF Printed, If
  <2> QED  BY <2>1, <2>2 DEF LbDomainDrift
<1>3. ASSUME LbDomainDrift(Printed(db, m, tick))
      PROVE  db.domain \notin {0, m.domain}
  <2>1. PICK l \in Printed(db, m, tick) : l.act = "drift" /\ l.row = "lb" /\ l.attr = "domain"
    BY <1>3 DEF LbDomainDrift
  <2>2. \A act, row, attr, was, to :
           l = Line(act, row, attr, was, to) => l.act = act /\ l.row = row /\ l.attr = attr
    BY DEF Line
  <2> QED  BY <2>1, <2>2 DEF Printed, If
<1> QED
  BY <1>2, <1>3
=============================================================================
