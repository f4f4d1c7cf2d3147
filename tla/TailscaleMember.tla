-------------------------- MODULE TailscaleMember --------------------------
(* roles/tailscale/filter_plugins/tailscale.py: is a node logged in to the   *)
(* tailnet, would the role's flags leave a logged-in node as it is, and if   *)
(* not, how does an operator make the two agree?                             *)
(*                                                                           *)
(* prefs is what `tailscale debug prefs` prints, a record of                 *)
(*   running             logged in and wanted up                             *)
(*   bools, strings      one value for each flag of that kind                *)
(*   control, snat, netfilter, routes, tags, exitNode                        *)
(*   byHand              settings no flag of the role sets, not at default   *)
(* flags is a function of the flags the inventory mentions: a flag that is   *)
(* not in its domain means the default.                                      *)
EXTENDS Naturals, FiniteSets

Mut_NoStateJoins == {"NeedsLogin", "NotInstalled", "NoState"}
JOIN_STATES == {"NeedsLogin", "NotInstalled"}
LOGGED_IN_STATE == "Running"

BoolDefaults == [accept_dns |-> TRUE, ssh |-> FALSE]
StringDefaults == [hostname |-> "none"]
ExitRoutes == {"v4 default", "v6 default"}
NetfilterModes == {"off", "nodivert", "on"}
PrefFields == {"running", "bools", "strings", "control", "snat", "netfilter", "routes",
               "tags", "exitNode", "byHand"}

\* settings no flag of the role sets; `tailscale set` resets all but services
MustBeDefault == {"webclient", "services"}
Unsettable == {"services"}

\* what the flags mean for a setting
Means(flags, flag, default) ==
    IF flag \in DOMAIN flags THEN flags[flag] ELSE default

MeantRoutes(flags) == Means(flags, "advertise-routes", {})
MeantExit(flags)   == Means(flags, "advertise-exit-node", FALSE)
MeantTags(flags, tags) == Means(flags, "advertise-tags", {}) \cup tags
MeantAllRoutes(flags) ==
    MeantRoutes(flags) \cup (IF MeantExit(flags) THEN ExitRoutes ELSE {})

\* flags the comparison cannot vouch for: the exit node's, one it does not know,
\* and an argument that is no flag
Unverifiable(flags) == DOMAIN flags \cap {"exit-node", "unknown", "positional"}
BadMode(flags) == Means(flags, "netfilter-mode", "on") \notin NetfilterModes

\* differences that nothing done to the node ends, only another inventory
Standing(flags) == Unverifiable(flags) \cup (IF BadMode(flags) THEN {"netfilter"} ELSE {})

\* A difference: what differs, and the flags of the `tailscale set` that
\* reconciles it, none when no such command does.
Diff(what, set) == [what |-> what, set |-> set]

Mut_RoutesFixForgetsExit(prefs, flags) ==
    IF prefs.routes \ ExitRoutes # MeantRoutes(flags)
    THEN {"advertise-routes"} ELSE {"advertise-exit-node"}
RoutesFix(prefs, flags) ==
    (IF prefs.routes \ ExitRoutes # MeantRoutes(flags)
     THEN {"advertise-routes"} ELSE {})
    \cup
    (IF (ExitRoutes \subseteq prefs.routes) # MeantExit(flags)
     THEN {"advertise-exit-node"} ELSE {})

\* the settings of one value each, and what the flags mean for them
BoolDiffs(prefs, flags) ==
    {b \in DOMAIN BoolDefaults : prefs.bools[b] # Means(flags, b, BoolDefaults[b])}
StringDiffs(prefs, flags) ==
    {s \in DOMAIN StringDefaults :
        prefs.strings[s] # Means(flags, s, StringDefaults[s])}

Only(cond, diff) == IF cond THEN {diff} ELSE {}

Differences(prefs, flags, tags) ==
    {Diff(f, {f}) : f \in BoolDiffs(prefs, flags) \cup StringDiffs(prefs, flags)}
    \cup Only(~prefs.running, Diff("running", {}))
    \cup Only(prefs.control # Means(flags, "login-server", "default"),
              Diff("login-server", {}))
    \cup Only(prefs.routes # MeantAllRoutes(flags),
              Diff("routes", RoutesFix(prefs, flags)))
    \cup Only(prefs.snat # Means(flags, "snat-subnet-routes", TRUE),
              Diff("snat", {"snat-subnet-routes"}))
    \cup Only(BadMode(flags), Diff("netfilter", {}))
    \cup Only(~BadMode(flags) /\ prefs.netfilter # Means(flags, "netfilter-mode", "on"),
              Diff("netfilter", {"netfilter-mode"}))
    \cup Only(prefs.tags # MeantTags(flags, tags), Diff("tags", {}))
    \cup Only(prefs.exitNode /\ "exit-node" \notin DOMAIN flags,
              Diff("exit-node", {"exit-node"}))
    \cup {Diff(p, {p} \ Unsettable) : p \in prefs.byHand}
    \cup {Diff(f, {}) : f \in Unverifiable(flags)}

\* tailscale_set_args: the arguments of one `tailscale set`, and what is left
SetArgs(prefs, flags, tags) ==
    UNION {d.set : d \in Differences(prefs, flags, tags)}
Manual(prefs, flags, tags) ==
    {d.what : d \in {x \in Differences(prefs, flags, tags) : x.set = {}}}

-----------------------------------------------------------------------------
(* tailscale itself, as the role and its messages use it                   *)

\* routes after `tailscale set`: new routes keep an exit node that was offered
RoutesAfterSet(prefs, flags, args) ==
    LET offered == ExitRoutes \subseteq prefs.routes
        plain   == IF "advertise-routes" \in args THEN MeantRoutes(flags)
                   ELSE IF offered THEN prefs.routes \ ExitRoutes ELSE prefs.routes
        exit    == IF "advertise-exit-node" \in args THEN MeantExit(flags) ELSE offered
    IN  plain \cup (IF exit THEN ExitRoutes ELSE {})

Set(prefs, flags, args) ==
    [prefs EXCEPT
       !.bools = [b \in DOMAIN BoolDefaults |->
                    IF b \in args THEN Means(flags, b, BoolDefaults[b]) ELSE @[b]],
       !.strings = [s \in DOMAIN StringDefaults |->
                    IF s \in args THEN Means(flags, s, StringDefaults[s]) ELSE @[s]],
       !.routes = RoutesAfterSet(prefs, flags, args),
       !.snat = IF "snat-subnet-routes" \in args
                THEN Means(flags, "snat-subnet-routes", TRUE) ELSE @,
       !.netfilter = IF "netfilter-mode" \in args
                     THEN Means(flags, "netfilter-mode", "on") ELSE @,
       !.exitNode = IF "exit-node" \in args THEN FALSE ELSE @,
       !.byHand = @ \ args]

\* `tailscale up` with the flags on a node that is not logged in, and the flags
\* it does not take
UpRefuses(flags) == "positional" \in DOMAIN flags \/ BadMode(flags)
Joined(flags, tags) ==
    [running |-> TRUE,
     bools   |-> [b \in DOMAIN BoolDefaults |-> Means(flags, b, BoolDefaults[b])],
     strings |-> [s \in DOMAIN StringDefaults |-> Means(flags, s, StringDefaults[s])],
     control |-> Means(flags, "login-server", "default"),
     snat    |-> Means(flags, "snat-subnet-routes", TRUE),
     netfilter |-> Means(flags, "netfilter-mode", "on"),
     routes  |-> MeantAllRoutes(flags),
     tags    |-> MeantTags(flags, tags),
     exitNode |-> "exit-node" \in DOMAIN flags,
     byHand  |-> {}]

\* what a person does with the differences no `tailscale set` covers
SetByHand(prefs, flags, tags, whats) ==
    LET meant == Joined(flags, tags)
    IN  [prefs EXCEPT
           !.running = IF "running" \in whats THEN TRUE ELSE @,
           !.control = IF "login-server" \in whats THEN meant.control ELSE @,
           !.routes  = IF "routes" \in whats THEN meant.routes ELSE @,
           !.tags    = IF "tags" \in whats THEN meant.tags ELSE @,
           !.byHand  = @ \ whats]
=============================================================================
