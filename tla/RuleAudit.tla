----------------------------- MODULE RuleAudit ------------------------------
(***************************************************************************)
(* The checks of the verification that read the rules back from the kernel *)
(* and compare them with the controller's state                            *)
(* (proxy/src/verification/rule-audit.ts).  They look for single lines in  *)
(* what `nft list table` prints, so the chains are sequences of lines      *)
(* here, as ruleset.ts writes them.                                        *)
(*                                                                         *)
(* Not here: a host that does not forward packets, and a DNS relay that    *)
(* stopped after the redirect was configured; both only make a check fail. *)
(***************************************************************************)
EXTENDS GatewayController, SequencesExt

Line(from, to, verdict) == [from |-> from, to |-> to, verdict |-> verdict]

LanDrop      == Line(Lan, "any", "drop")
Through(out) == Line(Lan, out, "accept")

\* The forward chain.  Only the first line after the general ones lets the LAN
\* out, and only if there is a tunnel or the line itself may be used.
ForwardChain(t) ==
  LET general == <<Line("any", "any", "accept dnat"), Line("any", "other", "accept reply")>>
      marked  == IF t.bypass THEN <<Line("any", "any", "accept marked")>> ELSE << >>
      out     == IF t.forward \in Names
                 THEN <<Through(t.forward), Line(t.forward, Lan, "accept reply")>> ELSE << >>
      into    == IF t.forward \in Names \ {Wan} THEN <<Line(t.forward, "any", "drop")>> ELSE << >>
  IN  IF t.forward = "none" THEN << >> ELSE general \o marked \o out \o into \o <<LanDrop>>

\* The interfaces on which the postrouting chain masquerades something.
Masqueraded(t) == (Names \cap {t.forward}) \cup (IF t.bypass THEN {Wan} ELSE {})

\* parseTableListing: the lines of each chain; a table that is not there, or
\* one that nft could not list, has none.
Listing(t) ==
  [forward     |-> ForwardChain(t),
   postrouting |-> Masqueraded(t),
   dnsRedirect |-> t.redirect]

HasRule(rules, line) == line \in ToSet(rules)

EndsWithDrop(rules) == rules # << >> /\ Last(rules) = LanDrop

-----------------------------------------------------------------------------
(* The checks: does this one pass on table t?                              *)

\* Mutant: without a tunnel the check ends before it looks for accept rules.
AuditKillSwitchLoosely(t) ==
  Lan # NoIface /\ t # NoTable /\ EndsWithDrop(Listing(t).forward)

\* auditKillSwitchRules: a drop at the end, and no way to the line before it.
AuditKillSwitchRules(t) ==
  /\ Lan # NoIface /\ t # NoTable
  /\ EndsWithDrop(Listing(t).forward)
  /\ ~HasRule(Listing(t).forward, Through(Wan))

\* auditGatewayRules: a drop at the end, and with a tunnel the way into it.
AuditGatewayRules(t, vpn) ==
  /\ Lan # NoIface /\ t # NoTable
  /\ EndsWithDrop(Listing(t).forward)
  /\ vpn # NoIface =>
       /\ vpn \in Listing(t).postrouting
       /\ HasRule(Listing(t).forward, Through(vpn))

\* What it says of LAN traffic when it passes.
GatewayRulesText(s, vpn) ==
  IF vpn # NoIface THEN vpn ELSE IF s.killSwitch THEN "blocked" ELSE Wan

\* auditDnsRedirectRules, with the redirect that the gateway's settings name.
AuditDnsRedirectRules(t, s) ==
  Lan # NoIface /\ s.redirect /\ t # NoTable /\ Listing(t).dnsRedirect

-----------------------------------------------------------------------------
(* The lines that are looked for are those that decide: at any time, also  *)
(* in the middle of a reconcile, with stale rules or with none, the check  *)
(* of the kill switch passes exactly if LAN traffic cannot use the line,   *)
(* and the check of the gateway passes for a tunnel only if LAN traffic    *)
(* goes there.  Once the chain is empty the checks that the settings call  *)
(* for pass and say what is so (rule-audit.ts against ruleset.ts).         *)
AuditsAgree ==
  /\ Lan # NoIface => (AuditKillSwitchRules(table) <=> ~LineOpen(table))
  /\ vpnIface # NoIface /\ AuditGatewayRules(table, vpnIface) => table.forward = vpnIface
  /\ Settled /\ lastOk /\ Lan # NoIface =>
       /\ settings.transparent =>
            /\ AuditGatewayRules(table, vpnIface)
            /\ table.forward = GatewayRulesText(settings, vpnIface)
       /\ settings.redirect => AuditDnsRedirectRules(table, settings)
=============================================================================
