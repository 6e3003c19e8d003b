------------------------- MODULE GatewayKillSwitch -------------------------
(***************************************************************************)
(* What the kill switch promises over time: GatewayController with a       *)
(* history variable that remembers since when the promise is in force.     *)
(* The filter chain of a transparent gateway lives in one nftables table,  *)
(* so the promise is about every table the kernel ever holds.              *)
(***************************************************************************)
EXTENDS GatewayController

VARIABLE sealed   \* history: the kill switch is in force, see SealedNext

svars == <<vars, sealed>>

\* Settings under which LAN traffic may never use the line itself.
KillSwitchOn == settings.transparent /\ settings.killSwitch

\* The promise starts when the chain has settled on a table that keeps LAN
\* traffic off the line, and ends only with settings that give it up or with
\* the process.
InForce == Settled /\ lastOk /\ ~LineOpen(table)

SealedNext ==
  sealed' = ((notified /\ KillSwitchOn)' /\ (sealed \/ InForce'))

SealInit == Init /\ sealed = FALSE
SealNext == Next /\ SealedNext
SealSpec == SealInit /\ [][SealNext]_svars

\* Once the kill switch is in force LAN traffic never leaves by the line,
\* through tunnel losses, reconnects to another tunnel, changes of the DNS
\* and bypass settings, stale check results, and nft commands that fail or
\* time out, until settings arrive that turn it off (ruleset.ts, lines
\* 128-136 and 226-228; gateway-controller.ts, lines 249-262).
KillSwitchHolds == sealed => ~LineOpen(table)
=============================================================================
