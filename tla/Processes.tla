----------------------------- MODULE Processes -----------------------------
(***************************************************************************)
(* ExplicitProxy, SettingsSync, ClientIds and CommandRunner side by side:  *)
(* these models share nothing, so that in each behaviour one of them moves *)
(* and the others rest as they began.                                      *)
(***************************************************************************)
EXTENDS ExplicitProxy

CONSTANTS
  None,                                                    \* no servers, nothing set
  Others, Upstreams, Routed, LanFound, Requests, Attempts, \* of SettingsSync
  Losses, ApiRestarts, ProxyRestarts, Failures,
  Clients, Own, Queries, Sources, MaxEntries,              \* of ClientIds
  Pieces, Daemon, Stubborn                                 \* of CommandRunner

VARIABLES part,
  stored, push, latest, request, relay, gateway, kernel, explicit, portFree,
  source, cache, expired, pending, query,
  kind, matchAt, proc, code, signal, written, last, read, exitSeen, settled, timer, grace,
  back, backSettled, answer, notices, early

N == INSTANCE SettingsSync WITH Unset <- None
C == INSTANCE ClientIds
R == INSTANCE CommandRunner

ASSUME SyncAssumption == N!SyncAssumption
ASSUME ClientIdsAssumption == C!ClientIdsAssumption
ASSUME CommandAssumption == R!CommandAssumption

proxyVars   == <<settings, hasApplied, configFailed, file, child, expected, restartTimer, stableTimer,
                 ripe, killTimer, failures, procs>>
syncVars    == <<stored, push, latest, request, relay, gateway, kernel, explicit, portFree>>
clientVars  == <<source, cache, expired, pending, query>>
commandVars == <<kind, matchAt, proc, code, signal, written, last, read, exitSeen, settled, timer, grace,
                 back, backSettled, answer, notices, early>>

PartsInit ==
  /\ part \in {"proxy", "sync", "clients", "command"}
  /\ Init /\ N!Init /\ C!Init /\ R!Init
  /\ part # "sync" => stored = CHOOSE s \in N!Settings : TRUE
  /\ part # "clients" => source = None
  /\ part # "command" => matchAt = 1

PartsNext ==
  /\ UNCHANGED part
  /\ \/ part = "proxy" /\ Next /\ UNCHANGED <<syncVars, clientVars, commandVars>>
     \/ part = "sync" /\ N!Next /\ UNCHANGED <<proxyVars, clientVars, commandVars>>
     \/ part = "clients" /\ C!Next /\ UNCHANGED <<proxyVars, syncVars, commandVars>>
     \/ part = "command" /\ R!Next /\ UNCHANGED <<proxyVars, syncVars, clientVars>>

PartsSpec ==
  /\ PartsInit /\ [][PartsNext]_<<part, proxyVars, syncVars, clientVars, commandVars>>
  /\ Fairness /\ C!Fairness /\ R!Fairness /\ N!Fairness
  /\ WF_syncVars(part = "sync" /\ N!Timers)

\* When no notification is being handled the controllers agree, see SettingsSync.
SettledAgree == N!SettledAgree

\* The proxy ends with what the file says, see SettingsSync.
Converges == part = "sync" => N!Converges

\* Every query is forwarded in the name of its own client, see ClientIds.
NamesNeverMixed == C!NeverMixed

\* Names that other servers told disappear, see ClientIds.
NamesHeal == C!Heals

\* Exit codes that are answered are true, see CommandRunner.
AnswerIsTrue == R!AnswerIsTrue

\* The background end is announced once and truly, see CommandRunner.
AnnouncedTruly == R!AnnouncedTruly

\* A command that was answered as running ends, see CommandRunner.
DetachedEnds == R!DetachedEnds
=============================================================================
