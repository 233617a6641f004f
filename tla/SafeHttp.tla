------------------------------- MODULE SafeHttp -------------------------------
(***************************************************************************)
(* Which addresses safe_get connects to (aex-net/src/safe_http.rs).  An    *)
(* address is its family and the range it lies in; an IPv6 address that    *)
(* carries an IPv4 one has the range of that in "inner".                   *)
(***************************************************************************)
EXTENDS Naturals, Sequences

Ipv4(range) == [family |-> "v4", range |-> range, inner |-> "none"]
Ipv6(range) == [family |-> "v6", range |-> range, inner |-> "none"]
Ipv6With(range, inner) == [family |-> "v6", range |-> range, inner |-> inner]

is_forbidden_ipv4(range) ==
    range \in {"loopback", "private", "link_local", "multicast", "broadcast",
               "unspecified", "reserved"}

is_forbidden_ipv6(ip) ==
    \/ ip.range \in {"loopback", "unspecified", "multicast", "link_local", "unique_local"}
    \/ ip.range \in {"mapped", "compatible"} /\ is_forbidden_ipv4(ip.inner)

is_forbidden_ip(ip) ==
    \/ ip.family = "v4" /\ is_forbidden_ipv4(ip.range)
    \/ ip.family = "v6" /\ is_forbidden_ipv6(ip)

\* resolve_host sorts the answer, IPv4 first and otherwise as it came; this is
\* the place in the answer of the address that it puts first.
ResolvedFirst(answer, i) ==
    \A j \in DOMAIN answer :
        \/ answer[i].family = "v4" /\ answer[j].family = "v6"
        \/ answer[i].family = answer[j].family /\ i <= j

\* One forbidden address among the answers refuses the host.
Allowed(ips) == ips # <<>> /\ \A i \in DOMAIN ips : ~is_forbidden_ip(ips[i])
=============================================================================
