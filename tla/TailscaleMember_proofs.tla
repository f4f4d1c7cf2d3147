----------------------- MODULE TailscaleMember_proofs -----------------------
(* What the steps a refusal of roles/tailscale names do to a node's          *)
(* settings, for every setting and every flag.                               *)
EXTENDS TailscaleMember, TLAPS

\* The node and the flags agree in all that a setting of the node can agree in,
\* whether tailscale is wanted up or not.
Agrees(prefs, flags, tags) ==
    /\ \A b \in DOMAIN BoolDefaults : prefs.bools[b] = Means(flags, b, BoolDefaults[b])
    /\ \A s \in DOMAIN StringDefaults : prefs.strings[s] = Means(flags, s, StringDefaults[s])
    /\ prefs.control = Means(flags, "login-server", "default")
    /\ prefs.routes = MeantAllRoutes(flags)
    /\ prefs.snat = Means(flags, "snat-subnet-routes", TRUE)
    /\ ~BadMode(flags) => prefs.netfilter = Means(flags, "netfilter-mode", "on")
    /\ prefs.tags = MeantTags(flags, tags)
    /\ ~(prefs.exitNode /\ "exit-node" \notin DOMAIN flags)
    /\ prefs.byHand = {}

\* Where they agree and tailscale runs, what is left are the flags that no setting
\* of the node satisfies.
LEMMA AgreesMeans ==
    ASSUME NEW prefs, NEW flags, NEW tags, Agrees(prefs, flags, tags), prefs.running
    PROVE  {d.what : d \in Differences(prefs, flags, tags)} \subseteq Standing(flags)
<1>1. BoolDiffs(prefs, flags) = {} /\ StringDiffs(prefs, flags) = {}
  BY DEF Agrees, BoolDiffs, StringDiffs
<1>2. Differences(prefs, flags, tags)
        = Only(BadMode(flags), Diff("netfilter", {})) \cup {Diff(f, {}) : f \in Unverifiable(flags)}
  BY <1>1 DEF Agrees, Differences, Only
<1> QED
  BY <1>2 DEF Only, Diff, Standing

\* A node that is joined agrees with its flags.
LEMMA JoinedAgrees ==
    ASSUME NEW flags, NEW tags
    PROVE  Agrees(Joined(flags, tags), flags, tags)
  BY DEF Agrees, Joined

-----------------------------------------------------------------------------
(* Following the refusal's steps                                           *)

\* Which arguments and which steps by hand a refusal has.
LEMMA StepsAre ==
    ASSUME NEW prefs, NEW flags, NEW tags
    PROVE  LET args  == SetArgs(prefs, flags, tags)
               whats == Manual(prefs, flags, tags)
           IN  /\ BoolDiffs(prefs, flags) \cup StringDiffs(prefs, flags) \subseteq args
               /\ prefs.routes # MeantAllRoutes(flags) => RoutesFix(prefs, flags) \subseteq args
               /\ prefs.snat # Means(flags, "snat-subnet-routes", TRUE)
                     => "snat-subnet-routes" \in args
               /\ ~BadMode(flags) /\ prefs.netfilter # Means(flags, "netfilter-mode", "on")
                     => "netfilter-mode" \in args
               /\ prefs.exitNode /\ "exit-node" \notin DOMAIN flags => "exit-node" \in args
               /\ prefs.byHand \ Unsettable \subseteq args
               /\ ~prefs.running => "running" \in whats
               /\ prefs.control # Means(flags, "login-server", "default")
                     => "login-server" \in whats
               /\ prefs.tags # MeantTags(flags, tags) => "tags" \in whats
               /\ prefs.byHand \cap Unsettable \subseteq whats
               /\ prefs.routes # MeantAllRoutes(flags) /\ RoutesFix(prefs, flags) = {}
                     => "routes" \in whats
<1> DEFINE diffs == Differences(prefs, flags, tags)
           args  == SetArgs(prefs, flags, tags)
           whats == Manual(prefs, flags, tags)
<1>1. ASSUME NEW what, NEW set, Diff(what, set) \in diffs
      PROVE  set \subseteq args /\ (set = {} => what \in whats)
  BY <1>1 DEF SetArgs, Manual, Diff
<1>2. /\ \A f \in BoolDiffs(prefs, flags) \cup StringDiffs(prefs, flags) : Diff(f, {f}) \in diffs
      /\ \A p \in prefs.byHand : Diff(p, {p} \ Unsettable) \in diffs
  BY Zenon DEF Differences
<1>7. /\ ~prefs.running => Diff("running", {}) \in diffs
      /\ prefs.control # Means(flags, "login-server", "default")
            => Diff("login-server", {}) \in diffs
      /\ prefs.tags # MeantTags(flags, tags) => Diff("tags", {}) \in diffs
  BY Zenon DEF Differences, Only
<1>8. /\ prefs.routes # MeantAllRoutes(flags) => Diff("routes", RoutesFix(prefs, flags)) \in diffs
      /\ prefs.snat # Means(flags, "snat-subnet-routes", TRUE)
            => Diff("snat", {"snat-subnet-routes"}) \in diffs
  BY Zenon DEF Differences, Only
<1>9. /\ ~BadMode(flags) /\ prefs.netfilter # Means(flags, "netfilter-mode", "on")
            => Diff("netfilter", {"netfilter-mode"}) \in diffs
      /\ prefs.exitNode /\ "exit-node" \notin DOMAIN flags
            => Diff("exit-node", {"exit-node"}) \in diffs
  BY Zenon DEF Differences, Only
<1>3. \A p \in prefs.byHand \ Unsettable : p \in args
  BY <1>1, <1>2
<1>4. \A p \in prefs.byHand \cap Unsettable : p \in whats
  <2> SUFFICES ASSUME NEW p \in prefs.byHand \cap Unsettable PROVE p \in whats
    OBVIOUS
  <2>1. {p} \ Unsettable = {}
    OBVIOUS
  <2> QED  BY <1>1, <1>2, <2>1
<1> HIDE DEF diffs, args, whats
<1>5. /\ BoolDiffs(prefs, flags) \cup StringDiffs(prefs, flags) \subseteq args
      /\ prefs.routes # MeantAllRoutes(flags) => RoutesFix(prefs, flags) \subseteq args
      /\ prefs.snat # Means(flags, "snat-subnet-routes", TRUE) => "snat-subnet-routes" \in args
      /\ ~BadMode(flags) /\ prefs.netfilter # Means(flags, "netfilter-mode", "on")
            => "netfilter-mode" \in args
      /\ prefs.exitNode /\ "exit-node" \notin DOMAIN flags => "exit-node" \in args
  BY <1>1, <1>2, <1>7, <1>8, <1>9
<1>6. /\ ~prefs.running => "running" \in whats
      /\ prefs.control # Means(flags, "login-server", "default") => "login-server" \in whats
      /\ prefs.tags # MeantTags(flags, tags) => "tags" \in whats
      /\ prefs.routes # MeantAllRoutes(flags) /\ RoutesFix(prefs, flags) = {} => "routes" \in whats
  BY <1>1, <1>2, <1>7, <1>8, <1>9
<1> QED
  BY <1>3, <1>4, <1>5, <1>6 DEF args, whats

\* The arguments about routes are the ones that reconcile them.
LEMMA RouteArguments ==
    ASSUME NEW prefs, NEW flags, NEW tags, prefs.byHand \subseteq MustBeDefault,
           NEW arg \in {"advertise-routes", "advertise-exit-node"}
    PROVE  arg \in SetArgs(prefs, flags, tags) <=>
              prefs.routes # MeantAllRoutes(flags) /\ arg \in RoutesFix(prefs, flags)
<1>1. ASSUME arg \in SetArgs(prefs, flags, tags)
      PROVE  prefs.routes # MeantAllRoutes(flags) /\ arg \in RoutesFix(prefs, flags)
  <2>1. PICK d \in Differences(prefs, flags, tags) : arg \in d.set
    BY <1>1 DEF SetArgs
  <2>2. arg \notin BoolDiffs(prefs, flags) \cup StringDiffs(prefs, flags) \cup prefs.byHand
    BY DEF BoolDiffs, StringDiffs, BoolDefaults, StringDefaults, MustBeDefault
  <2>3. d \notin {Diff(f, {f}) : f \in BoolDiffs(prefs, flags) \cup StringDiffs(prefs, flags)}
    BY <2>1, <2>2 DEF Diff
  <2>4. d \notin {Diff(p, {p} \ Unsettable) : p \in prefs.byHand}
    BY <2>1, <2>2 DEF Diff
  <2>5. d \notin {Diff(f, {}) : f \in Unverifiable(flags)}
    BY <2>1 DEF Diff
  <2>6. \A what, set : arg \notin set => d # Diff(what, set)
    BY <2>1 DEF Diff
  <2>7. d \in Only(prefs.routes # MeantAllRoutes(flags), Diff("routes", RoutesFix(prefs, flags)))
    BY <2>1, <2>3, <2>4, <2>5, <2>6 DEF Differences, Only
  <2> QED  BY <2>1, <2>7 DEF Only, Diff
<1>2. prefs.routes # MeantAllRoutes(flags) => RoutesFix(prefs, flags) \subseteq SetArgs(prefs, flags, tags)
  BY StepsAre
<1> QED
  BY <1>1, <1>2

\* Routes the `tailscale set` covers are the flags' then: the two arguments
\* are independent, and new routes keep an exit node that is offered.
LEMMA RoutesAreSet ==
    ASSUME NEW prefs, NEW flags, NEW args,
           \A arg \in {"advertise-routes", "advertise-exit-node"} :
              arg \in args <=>
                 prefs.routes # MeantAllRoutes(flags) /\ arg \in RoutesFix(prefs, flags),
           prefs.routes = MeantAllRoutes(flags) \/ RoutesFix(prefs, flags) # {},
           MeantExit(flags) \in BOOLEAN
    PROVE  RoutesAfterSet(prefs, flags, args) = MeantAllRoutes(flags)
<1> DEFINE offered == ExitRoutes \subseteq prefs.routes
           routes  == prefs.routes
           meant   == MeantRoutes(flags)
           exit    == MeantExit(flags)
<1>1. MeantAllRoutes(flags) = meant \cup (IF exit THEN ExitRoutes ELSE {})
  BY DEF MeantAllRoutes
<1>2. CASE routes = MeantAllRoutes(flags)
  <2>1. RoutesAfterSet(prefs, flags, args)
          = (IF offered THEN routes \ ExitRoutes ELSE routes)
            \cup (IF offered THEN ExitRoutes ELSE {})
    BY <1>2 DEF RoutesAfterSet
  <2> QED  BY <1>2, <2>1
<1>3. CASE routes # MeantAllRoutes(flags)
  <2>1. /\ "advertise-routes" \in args <=> routes \ ExitRoutes # meant
        /\ "advertise-exit-node" \in args <=> offered # exit
    BY <1>3 DEF RoutesFix
  <2>2. (IF "advertise-exit-node" \in args THEN exit ELSE offered) = exit
    BY <2>1
  <2>3. RoutesAfterSet(prefs, flags, args)
          = (IF "advertise-routes" \in args THEN meant
             ELSE IF offered THEN routes \ ExitRoutes ELSE routes)
            \cup (IF exit THEN ExitRoutes ELSE {})
    BY <2>2 DEF RoutesAfterSet
  <2> QED  BY <1>1, <1>3, <2>1, <2>3 DEF RoutesFix
<1> QED
  BY <1>2, <1>3

\* A refusal's steps, followed, make the node and the flags agree (tasks/status.yml
\* 96-121): one `tailscale set`, and the rest by hand.
LEMMA AdviceReconciles ==
    ASSUME NEW prefs, DOMAIN prefs = PrefFields, prefs.byHand \subseteq MustBeDefault,
           NEW flags, MeantExit(flags) \in BOOLEAN, NEW tags
    PROVE  LET set   == Set(prefs, flags, SetArgs(prefs, flags, tags))
               after == SetByHand(set, flags, tags, Manual(prefs, flags, tags))
           IN  /\ Agrees(after, flags, tags)
               /\ DOMAIN after = PrefFields
<1> DEFINE args  == SetArgs(prefs, flags, tags)
           whats == Manual(prefs, flags, tags)
           set   == Set(prefs, flags, args)
           after == SetByHand(set, flags, tags, whats)
           meant == Joined(flags, tags)
<1>1. /\ DOMAIN set = PrefFields
      /\ \A b \in DOMAIN BoolDefaults :
            set.bools[b] = IF b \in args THEN Means(flags, b, BoolDefaults[b]) ELSE prefs.bools[b]
      /\ \A s \in DOMAIN StringDefaults :
            set.strings[s] = IF s \in args THEN Means(flags, s, StringDefaults[s])
                                           ELSE prefs.strings[s]
  BY DEF Set, PrefFields
<1>2. /\ set.running = prefs.running /\ set.control = prefs.control /\ set.tags = prefs.tags
      /\ set.routes = RoutesAfterSet(prefs, flags, args)
      /\ set.snat = IF "snat-subnet-routes" \in args
                    THEN Means(flags, "snat-subnet-routes", TRUE) ELSE prefs.snat
  BY DEF Set, PrefFields
<1>3. /\ set.netfilter = IF "netfilter-mode" \in args
                         THEN Means(flags, "netfilter-mode", "on") ELSE prefs.netfilter
      /\ set.exitNode = IF "exit-node" \in args THEN FALSE ELSE prefs.exitNode
      /\ set.byHand = prefs.byHand \ args
  BY DEF Set, PrefFields
<1> HIDE DEF set
<1>4. /\ DOMAIN after = PrefFields
      /\ after.bools = set.bools /\ after.strings = set.strings /\ after.snat = set.snat
      /\ after.netfilter = set.netfilter /\ after.exitNode = set.exitNode
      /\ after.byHand = set.byHand \ whats
  BY <1>1 DEF SetByHand, PrefFields
<1>5. /\ after.control = IF "login-server" \in whats THEN meant.control ELSE set.control
      /\ after.routes = IF "routes" \in whats THEN meant.routes ELSE set.routes
      /\ after.tags = IF "tags" \in whats THEN meant.tags ELSE set.tags
  BY <1>1 DEF SetByHand, PrefFields
<1>6. /\ meant.control = Means(flags, "login-server", "default")
      /\ meant.routes = MeantAllRoutes(flags) /\ meant.tags = MeantTags(flags, tags)
  BY DEF Joined
<1> HIDE DEF after, meant
<1>7. /\ \A b \in DOMAIN BoolDefaults : after.bools[b] = Means(flags, b, BoolDefaults[b])
      /\ \A s \in DOMAIN StringDefaults : after.strings[s] = Means(flags, s, StringDefaults[s])
  BY <1>1, <1>4, StepsAre DEF BoolDiffs, StringDiffs
<1>8. /\ after.control = Means(flags, "login-server", "default")
      /\ after.snat = Means(flags, "snat-subnet-routes", TRUE)
      /\ ~BadMode(flags) => after.netfilter = Means(flags, "netfilter-mode", "on")
      /\ after.tags = MeantTags(flags, tags)
  BY <1>2, <1>3, <1>4, <1>5, <1>6, StepsAre
<1>9. after.routes = MeantAllRoutes(flags)
  <2>1. CASE prefs.routes = MeantAllRoutes(flags) \/ RoutesFix(prefs, flags) # {}
    <3>1. \A arg \in {"advertise-routes", "advertise-exit-node"} :
             arg \in args <=>
                prefs.routes # MeantAllRoutes(flags) /\ arg \in RoutesFix(prefs, flags)
      BY RouteArguments
    <3> HIDE DEF args
    <3>2. RoutesAfterSet(prefs, flags, args) = MeantAllRoutes(flags)
      BY <2>1, <3>1, RoutesAreSet
    <3> QED  BY <1>2, <1>5, <1>6, <3>2
  <2>2. CASE prefs.routes # MeantAllRoutes(flags) /\ RoutesFix(prefs, flags) = {}
    BY <1>5, <1>6, <2>2, StepsAre
  <2> QED  BY <2>1, <2>2
<1>10. ~(after.exitNode /\ "exit-node" \notin DOMAIN flags)
  BY <1>3, <1>4, StepsAre
<1>11. after.byHand = {}
  BY <1>3, <1>4, StepsAre
<1> HIDE DEF args, whats
<1>12. Agrees(after, flags, tags)
  BY <1>7, <1>8, <1>9, <1>10, <1>11 DEF Agrees
<1> QED
  BY <1>4, <1>12 DEF after, set, args, whats
=============================================================================
