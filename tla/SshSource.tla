----------------------------- MODULE SshSource -----------------------------
(* roles/preflight/filter_plugins/preflight_ssh.py: will a host's firewall   *)
(* let this run in again once it is applied?  Also what the template of the  *)
(* firewall role then really accepts.                                        *)
(*                                                                           *)
(* An address is [v |-> 4 or 6, n |-> number].  What sshd reports is a text  *)
(* with a form: "address", "zoned" (fe80::1%eth0), "mapped" (::ffff:1.2.3.4) *)
(* or "other".  An entry of an allow list is a network, [v, ns] with the set *)
(* of its addresses, or a host name, whose v is 0 and whose ns are the IPv4  *)
(* addresses it resolves to.                                                 *)
EXTENDS Integers

NoAddress == [v |-> 0, n |-> 0]

Loopback == {[v |-> 4, ns |-> {0}], [v |-> 6, ns |-> {0}]}

\* IPv4-mapped IPv6 unwrapped, zone dropped
Address(text) ==
    CASE text.form = "mapped"             -> [v |-> 4, n |-> text.n]
      [] text.form \in {"address", "zoned"} -> [v |-> text.v, n |-> text.n]
      [] OTHER                            -> NoAddress

IsNetwork(entry) == entry.v # 0

Unparsed(allow) == {e \in allow : ~IsNetwork(e)}

\* an empty list is the default, ssh from anywhere
Mut_CoveredInAnyVersion(source, allow, also) ==
    \/ allow = {}
    \/ \E e \in allow \cup also \cup Loopback : Address(source).n \in e.ns
Covered(source, allow, also) ==
    \/ allow = {}
    \/ \E e \in allow \cup also \cup Loopback :
          IsNetwork(e) /\ e.v = Address(source).v /\ Address(source).n \in e.ns

\* The table the template renders: a name is resolved when it is loaded.
TableAccepts(address, allow, also) ==
    \/ allow = {}
    \/ \E e \in allow \cup also \cup Loopback :
          address.v = (IF IsNetwork(e) THEN e.v ELSE 4) /\ address.n \in e.ns
=============================================================================
