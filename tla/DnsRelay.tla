------------------------------ MODULE DnsRelay ------------------------------
(***************************************************************************)
(* The DNS relay: its controller (dns-relay-controller.ts), the sockets it *)
(* listens on (listener.ts) and the queries in progress (relay.ts), all    *)
(* under proxy/src/dns-relay/.                                             *)
(*                                                                         *)
(* Settings take effect one after another on a promise chain.  Queries and *)
(* TCP connections go on meanwhile, also those begun under older settings. *)
(* A query is for a name that an exclusion list would contain, or for one  *)
(* of the verification's; its client's name is looked up elsewhere         *)
(* (ClientIds).  Messages are not modelled.                                *)
(***************************************************************************)
EXTENDS Naturals

CONSTANTS
  Configs,       \* settings: [enabled, url, mode, servers, excluded]
  Default,       \* the settings of a new controller
  NoUrl,         \* no upstream
  NoServers,     \* no fallback servers
  Queries,       \* slots for queries in progress
  MaxWaiting     \* bound: reconciles waiting behind the running one

ASSUME ConfigsAssumption ==
  /\ Default \in Configs
  /\ \A c \in Configs : c.enabled \in BOOLEAN /\ c.excluded \in BOOLEAN
  /\ \A c \in Configs : c.mode \in {"failClosed", "fallback"}
ASSUME BoundAssumption  == MaxWaiting \in Nat

VARIABLES
  settings,      \* DnsRelayController.settings
  hasApplied,
  state,         \* DnsRelayController.state
  listening,     \* DnsRelayController.listening
  waiting,       \* reconciles not yet begun
  step,          \* what the running reconcile waits for: a start, the end of
                 \* a failed one, or a stop, after which state is this value
  config,        \* DnsRelay.config, with its matcher
  upstream,      \* DnsRelay.upstreamState
  open,          \* are the sockets open?
  portFree,      \* can they be opened?
  tcp,           \* a TCP connection of a client
  query          \* queries in progress: where they are, what they have read

controller == <<settings, hasApplied, state, listening, waiting, step>>
relay      == <<config, upstream>>
network    == <<open, portFree, tcp>>
vars       == <<controller, relay, network, query>>

States    == {"active", "stopped", "unconfigured", "error"}
Steps     == {"none", "start", "unwind", "stopped", "unconfigured"}
Upstreams == {"unknown", "ok", "failing"}

Wanted == settings.enabled /\ (settings.url # NoUrl \/ settings.servers # NoServers)

NoQuery == [at |-> "none", conf |-> Default, servers |-> NoServers]

Init ==
  /\ settings = Default
  /\ hasApplied = FALSE
  /\ state = "stopped"
  /\ listening = FALSE
  /\ waiting = 0
  /\ step = "none"
  /\ config = Default
  /\ upstream = "unknown"
  /\ open = FALSE
  /\ portFree \in BOOLEAN
  /\ tcp = "none"
  /\ query = [q \in Queries |-> NoQuery]

-----------------------------------------------------------------------------
(* The controller                                                          *)

\* A reconcile that can begin does so before the next event.
Quiet == waiting = 0 \/ step # "none"

\* Mutant: a failed start is not tried again.
UnchangedSettings(c) == hasApplied /\ c = settings

Unchanged(c) == hasApplied /\ state # "error" /\ c = settings

ApplySettings(c) ==
  /\ Quiet
  /\ \/ Unchanged(c) /\ UNCHANGED <<settings, hasApplied, waiting>>
     \/ /\ ~Unchanged(c)
        /\ waiting <= MaxWaiting
        /\ settings' = c
        /\ hasApplied' = TRUE
        /\ waiting' = waiting + 1
  /\ UNCHANGED <<state, listening, step, relay, network, query>>

\* The state of a relay that does not listen.
Resting(c) == IF c.enabled THEN "unconfigured" ELSE "stopped"

\* reconcile up to its await: the settings are those of now.
Reconcile ==
  /\ waiting > 0 /\ step = "none"
  /\ waiting' = waiting - 1
  /\ \/ /\ Wanted
        /\ config' = settings
        /\ IF listening THEN state' = "active" /\ UNCHANGED step
           ELSE step' = "start" /\ UNCHANGED state
        /\ UNCHANGED open
     \/ /\ ~Wanted
        /\ IF listening THEN step' = Resting(settings) /\ open' = FALSE /\ UNCHANGED state
           ELSE state' = Resting(settings) /\ UNCHANGED <<step, open>>
        /\ UNCHANGED config
  /\ UNCHANGED <<settings, hasApplied, listening, upstream, portFree, tcp, query>>

StartSucceeds ==
  /\ Quiet
  /\ step = "start" /\ portFree
  /\ step' = "none"
  /\ listening' = TRUE /\ open' = TRUE
  /\ state' = "active"
  /\ UNCHANGED <<settings, hasApplied, waiting, relay, portFree, tcp, query>>

\* One of the sockets cannot be opened: those that were are closed again.
StartFails ==
  /\ Quiet
  /\ step = "start" /\ ~portFree
  /\ step' = "unwind"
  /\ UNCHANGED <<settings, hasApplied, state, listening, waiting, relay, network, query>>

\* server.close() is done when the last connection has ended.
Unwound ==
  /\ Quiet
  /\ step = "unwind" /\ tcp = "none"
  /\ step' = "none"
  /\ state' = "error"
  /\ UNCHANGED <<settings, hasApplied, listening, waiting, relay, network, query>>

\* Mutant: that the relay does not listen any more is not recorded.
StoppedStillListening ==
  /\ Quiet
  /\ step \in {"stopped", "unconfigured"} /\ tcp = "none"
  /\ step' = "none"
  /\ state' = step
  /\ UNCHANGED <<settings, hasApplied, listening, waiting, relay, network, query>>

\* stopListening ends when every connection has.
Stopped ==
  /\ Quiet
  /\ step \in {"stopped", "unconfigured"} /\ tcp = "none"
  /\ step' = "none"
  /\ listening' = FALSE
  /\ state' = step
  /\ UNCHANGED <<settings, hasApplied, waiting, relay, network, query>>

-----------------------------------------------------------------------------
(* Queries                                                                 *)

Serving == open \/ step = "start" \/ tcp # "none"

\* A query arrives; looking at its name and resolving its client take awaits.
Ask(q) ==
  /\ Quiet
  /\ query[q].at = "none" /\ Serving
  /\ query' = [query EXCEPT ![q].at = "client"]
  /\ UNCHANGED <<controller, relay, network>>

\* interceptQuery: a name of the verification is answered at once with NXDOMAIN.
Intercepted(q) ==
  /\ Quiet
  /\ query[q].at = "client"
  /\ query' = [query EXCEPT ![q] = NoQuery]
  /\ UNCHANGED <<controller, relay, network>>

\* forward reads the whole configuration at once.
Forward(q) ==
  /\ Quiet
  /\ query[q].at = "client"
  /\ query' = [query EXCEPT ![q] =
       IF config.url = NoUrl THEN [at |-> "plain", conf |-> config, servers |-> config.servers]
       ELSE [at |-> "upstream", conf |-> config, servers |-> NoServers]]
  /\ UNCHANGED <<controller, relay, network>>

\* createDomainMatcher: is the name among the domains that are excluded now?
Matches == config.excluded

\* parseAnswer: does the answer hold addresses?
HoldsAddresses == BOOLEAN

\* The answer came: if the name is excluded its addresses are registered before
\* the answer is returned.
Answered(q) ==
  \E addresses \in HoldsAddresses :
    query' = [query EXCEPT ![q] =
      IF Matches /\ addresses THEN [@ EXCEPT !.at = "register"] ELSE NoQuery]

\* forwardDoh: the upstream's reply is awaited, an error or 5 s at the most.
AtUpstream(q) == query[q].at = "upstream"

UpstreamAnswers(q) ==
  /\ Quiet
  /\ AtUpstream(q)
  /\ upstream' = "ok"
  /\ Answered(q)
  /\ UNCHANGED <<controller, config, network>>

\* Mutant: the configuration is read again after the await.
FallbackNow(q) == config

Fallback(q) == query[q].conf

FallsBack(q) == Fallback(q).mode = "fallback" /\ Fallback(q).servers # NoServers

UpstreamFails(q) ==
  /\ Quiet
  /\ AtUpstream(q)
  /\ upstream' = "failing"
  /\ query' = [query EXCEPT ![q] =
       IF FallsBack(q) THEN [@ EXCEPT !.at = "plain", !.servers = Fallback(q).servers] ELSE NoQuery]
  /\ UNCHANGED <<controller, config, network>>

\* forwardPlain: one of the plain servers answers, by UDP or, if that was cut
\* short, by TCP, or none does and the client gets SERVFAIL.
PlainEnds(q) ==
  /\ Quiet
  /\ query[q].at = "plain"
  /\ Answered(q) \/ query' = [query EXCEPT ![q] = NoQuery]
  /\ UNCHANGED <<controller, relay, network>>

\* registerBypass ends, well or not.
Registered(q) ==
  /\ Quiet
  /\ query[q].at = "register"
  /\ query' = [query EXCEPT ![q] = NoQuery]
  /\ UNCHANGED <<controller, relay, network>>

-----------------------------------------------------------------------------
(* Clients and ports                                                       *)

\* Some sockets are open already while the others are being opened.
Connect ==
  /\ Quiet
  /\ tcp = "none" /\ (open \/ step = "start")
  /\ tcp' \in {"idle", "busy"}
  /\ UNCHANGED <<controller, relay, open, portFree, query>>

\* The client closes it, or it was idle for TCP_IDLE_TIMEOUT_MS.
Disconnect ==
  /\ Quiet
  /\ tcp # "none"
  /\ tcp' = "none"
  /\ UNCHANGED <<controller, relay, open, portFree, query>>

PortChange ==
  /\ Quiet
  /\ ~open
  /\ portFree' = ~portFree
  /\ UNCHANGED <<controller, relay, open, tcp, query>>

-----------------------------------------------------------------------------
Next ==
  \/ Reconcile
  \/ \E c \in Configs : ApplySettings(c)
  \/ StartSucceeds \/ StartFails \/ Unwound \/ Stopped
  \/ \E q \in Queries : Ask(q)
  \/ \E q \in Queries : Intercepted(q)
  \/ \E q \in Queries : Forward(q)
  \/ \E q \in Queries : UpstreamAnswers(q)
  \/ \E q \in Queries : UpstreamFails(q)
  \/ \E q \in Queries : PlainEnds(q)
  \/ \E q \in Queries : Registered(q)
  \/ Connect \/ Disconnect \/ PortChange

Spec == Init /\ [][Next]_vars

(***************************************************************************)
(* Properties                                                              *)
(***************************************************************************)

\* When no reconcile is under way, what the controller believes, what it tells
\* and what is open agree, and an active relay answers with the settings last
\* applied, whatever was asked while sockets were opened and closed
\* (dns-relay-controller.ts:92-148).
SettledAsTold ==
  hasApplied /\ waiting = 0 /\ step = "none" =>
    /\ listening = open
    /\ IF Wanted THEN state \in {"active", "error"} ELSE state = Resting(settings)
    /\ state = "active" <=> open
    /\ state = "active" => config = settings

\* A query goes out in plain text only if the configuration under which it was
\* begun has no upstream or asks for the fallback, and only to the servers of
\* that same configuration: settings that arrive while the upstream is awaited
\* are not mixed into it (relay.ts:127-148).
NeverMixed ==
  \A q \in Queries : query[q].at = "plain" =>
    /\ query[q].conf.url = NoUrl \/ query[q].conf.mode = "fallback"
    /\ query[q].servers = query[q].conf.servers

-----------------------------------------------------------------------------
(* Liveness: the API notifies again every 10 s; sockets open or fail, an   *)
(* idle connection is ended after 10 s.                                    *)

Fairness ==
  /\ WF_vars(hasApplied /\ ApplySettings(settings))
  /\ WF_vars(Reconcile)
  /\ WF_vars(StartSucceeds \/ StartFails)
  /\ WF_vars(Unwound) /\ WF_vars(Stopped)
  /\ WF_vars(tcp = "idle" /\ Disconnect)

FairSpec == Spec /\ Fairness

\* What has to stop: new settings, and ports that come and go.
Disturbance == settings' # settings \/ portFree' # portFree

\* Once they have stopped the relay follows the settings, a start that failed
\* being repeated when the port is free (line 88), provided that no client keeps
\* a connection busy for ever: stopListening waits for every one (listener.ts:101).
Follows ==
  hasApplied =>
    /\ Wanted /\ portFree => state = "active" /\ open /\ config = settings
    /\ ~Wanted => state = Resting(settings) /\ ~open
FollowsSettings ==
  <>[][~Disturbance]_vars /\ []<>(tcp # "busy") => <>[]Follows
=============================================================================
