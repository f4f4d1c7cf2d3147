--------------------------- MODULE MCAttachRegion ---------------------------
(* Small instances of AttachRegion for TLC.  Each inventory, node and        *)
(* database differs from the plain one in what one question is about.        *)
EXTENDS AttachRegionProps, TLC

NoFlags == [f \in {} |-> 0]
GoodExport == [bucket |-> TRUE, region |-> TRUE, access_key |-> "set",
               secret_key |-> "set", endpoint |-> "https", sse |-> "aws:kms",
               workers |-> 1, timeout |-> 1, part_size |-> 5, concurrency |-> 1,
               default_ttl |-> 1, max_ttl |-> 3]

Plain == [allow |-> {}, also |-> {}, member |-> TRUE, access |-> FALSE, controller |-> TRUE, authkey |-> TRUE,
          flags |-> NoFlags, tags |-> {}, key |-> 1, backup |-> TRUE,
          export |-> [GoodExport EXCEPT !.bucket = FALSE], retention |-> 4,
          domain |-> 1, cert |-> <<1, 1>>, full |-> FALSE]

V4(n) == [v |-> 4, ns |-> {n}]
V6(n) == [v |-> 6, ns |-> {n}]
Name(n) == [v |-> 0, ns |-> {n}]

MCInventories == {
    Plain,
    [Plain EXCEPT !.allow = {V4(1)}, !.also = {V4(2)}],
    [Plain EXCEPT !.allow = {V6(1), Name(2)}],
    [Plain EXCEPT !.member = FALSE],
    [Plain EXCEPT !.access = TRUE],
    [Plain EXCEPT !.controller = FALSE],
    [Plain EXCEPT !.authkey = FALSE],
    [Plain EXCEPT !.flags = [ssh |-> TRUE, unknown |-> TRUE] @@ ("login-server" :> "own")],
    [Plain EXCEPT !.flags = ("advertise-exit-node" :> TRUE), !.tags = {"t"}],
    [Plain EXCEPT !.flags = [ssh |-> TRUE] @@ ("exit-node" :> "e")],
    [Plain EXCEPT !.flags = ("positional" :> "p")],
    [Plain EXCEPT !.flags = ("netfilter-mode" :> "iptables")],
    [Plain EXCEPT !.key = 2],
    [Plain EXCEPT !.backup = FALSE],
    [Plain EXCEPT !.export = GoodExport],
    [Plain EXCEPT !.export = GoodExport, !.retention = 3],
    [Plain EXCEPT !.domain = 2, !.cert = <<2, 1>>],
    [Plain EXCEPT !.cert = <<1, 2>>],
    [Plain EXCEPT !.full = TRUE]}

MCSources == {
    [form |-> "other", v |-> 0, n |-> 0],
    [form |-> "address", v |-> 4, n |-> 1],
    [form |-> "mapped", v |-> 6, n |-> 1],
    [form |-> "zoned", v |-> 6, n |-> 1]}

Fresh == [daemon |-> "absent", login |-> "none", prefs |-> Joined(NoFlags, {}),
          ip |-> 0, fact |-> 0, table |-> [allow |-> {}, also |-> {}],
          file |-> NoFile, running |-> NoFile]
InTailnet == [Fresh EXCEPT !.daemon = "up", !.login = "in", !.ip = 1, !.fact = 1]
Enrolled(file) == [InTailnet EXCEPT !.file = file, !.running = file]
OldPort(file) == [file EXCEPT !["borg_port"] = Num(22)]

MCNodeStates == {
    Fresh,
    InTailnet,
    [InTailnet EXCEPT !.daemon = "stopped"],
    [InTailnet EXCEPT !.prefs.routes = ExitRoutes \cup {"r"}],
    [InTailnet EXCEPT !.prefs.routes = {"v4 default", "r"}],
    [InTailnet EXCEPT !.prefs.bools["ssh"] = TRUE, !.prefs.byHand = MustBeDefault,
                      !.prefs.control = "own", !.prefs.tags = {"u"}],
    [InTailnet EXCEPT !.prefs.snat = FALSE, !.prefs.netfilter = "off",
                      !.prefs.exitNode = TRUE, !.prefs.strings["hostname"] = "h"],
    Enrolled(OldPort(Render(Plain, 2))),
    Enrolled(Render([Plain EXCEPT !.backup = FALSE], 2))}

Nothing == [node |-> 0, hash |-> 0, client |-> 0, link |-> 0, domain |-> 0,
            cert |-> NoCert, latched |-> FALSE]
Running == [node |-> 1, hash |-> 2, client |-> 3, link |-> 3, domain |-> 1,
            cert |-> <<1, 1>>, latched |-> TRUE]

MCDatabases == {
    [Nothing EXCEPT !.client = 3],
    Nothing,
    [Running EXCEPT !.hash = 0, !.latched = FALSE],
    Running}
=============================================================================
