---------------------------- MODULE MCDnsRelay ----------------------------
(***************************************************************************)
(* Small instances of DnsRelay: settings that differ in every respect the  *)
(* code looks at, and two queries at the same time.                        *)
(***************************************************************************)
EXTENDS DnsRelay

CONSTANTS u, s1, s2

Conf(on, url, mode, servers, excluded) ==
  [enabled |-> on, url |-> url, mode |-> mode, servers |-> servers, excluded |-> excluded]

Off          == Conf(FALSE, NoUrl, "failClosed", NoServers, FALSE)
NoUpstream   == Conf(TRUE, NoUrl, "failClosed", NoServers, TRUE)
FailClosed   == Conf(TRUE, u, "failClosed", s1, TRUE)
WithFallback == Conf(TRUE, u, "fallback", s2, FALSE)
PlainOnly    == Conf(TRUE, NoUrl, "failClosed", s1, FALSE)
NoneLeft     == Conf(TRUE, u, "fallback", NoServers, FALSE)

MCConfigs == {Off, NoUpstream, FailClosed, WithFallback, PlainOnly, NoneLeft}
=============================================================================
