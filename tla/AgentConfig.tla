---------------------------- MODULE AgentConfig ----------------------------
(* agent.yml: what the template of roles/cs_agent renders, which of its keys *)
(* must never change on a live node (cs_agent_immutable.py), and which       *)
(* export settings are refused (cs_agent_export.py).                         *)
(*                                                                           *)
(* A document is a function of the keys that are in it; a value is a scalar, *)
(* [type, text].  Of the immutable keys, one stands for the four of the      *)
(* repository's place, which are there together.                             *)
EXTENDS Naturals

Text(text) == [type |-> "str", text |-> text]
Num(text) == [type |-> "int", text |-> text]

EmptyHash == 0

IMMUTABLE_KEYS == {"listen_addr", "admin_token_hash", "backups_key", "borg_port"}

\* A node that routes over the tailnet listens everywhere, the others on primary_ip.
Everywhere == Text(0)
ListenAddr(inv) == IF inv.member /\ ~inv.access THEN Everywhere ELSE Text(1)

\* templates/agent.yml.j2: the borg block only with a backup server in the site
Render(inv, hash) ==
    [k \in {"listen_addr", "admin_token_hash", "backups_key", "export"}
           \cup (IF inv.backup THEN {"borg_port"} ELSE {}) |->
       CASE k = "listen_addr" -> ListenAddr(inv)
         [] k = "admin_token_hash" -> Text(hash)
         [] k = "backups_key" -> Text(inv.key)
         [] k = "borg_port" -> Text(22)
         [] k = "export" -> Text(inv.export.max_ttl)]

Has(doc, key) == key \in DOMAIN doc

\* Scalars compare as strings, whatever type an older render wrote.
SameValue(a, b) == a.text = b.text

Mut_AddedIsNoChange(cur, new) ==
    {[key |-> k, change |-> IF Has(new, k) THEN "changed" ELSE "removed"] :
        k \in {i \in IMMUTABLE_KEYS :
                 Has(cur, i) /\ ~(Has(new, i) /\ SameValue(cur[i], new[i]))}}
ImmutableChanges(cur, new) ==
    {[key |-> k, change |-> CASE ~Has(cur, k) -> "added"
                              [] ~Has(new, k) -> "removed"
                              [] OTHER -> "changed"] :
        k \in {i \in IMMUTABLE_KEYS :
                 \/ Has(cur, i) # Has(new, i)
                 \/ Has(cur, i) /\ Has(new, i) /\ ~SameValue(cur[i], new[i])}}

-----------------------------------------------------------------------------
(* backups.export.*; a number that is not a whole number is NotANumber     *)

NotANumber == 99999

SSE_VALUES == {"", "AES256", "aws:kms", "aws:kms:dsse"}
Minimum == [workers |-> 1, timeout |-> 1, part_size |-> 5, concurrency |-> 1,
            default_ttl |-> 1, max_ttl |-> 1]

WholeNumber(cfg, k) == cfg[k] # NotANumber /\ cfg[k] >= Minimum[k]

\* inert without a bucket
ExportProblems(cfg, retention) ==
    IF ~cfg.bucket THEN {}
    ELSE {p \in {"region"} : ~cfg.region}
         \cup {k \in {"access_key", "secret_key"} : cfg[k] # "set"}
         \cup {p \in {"endpoint"} : cfg.endpoint \notin {"", "https"}}
         \cup {p \in {"sse"} : cfg.sse \notin SSE_VALUES}
         \cup {k \in DOMAIN Minimum : ~WholeNumber(cfg, k)}
         \cup {p \in {"ttl order"} :
                 /\ WholeNumber(cfg, "default_ttl") /\ WholeNumber(cfg, "max_ttl")
                 /\ cfg.default_ttl > cfg.max_ttl}
         \cup {p \in {"retention"} :
                 /\ WholeNumber(cfg, "max_ttl") /\ retention # NotANumber
                 /\ cfg.max_ttl >= retention}
=============================================================================
