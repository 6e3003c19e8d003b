---------------------------- MODULE SettingsSync ----------------------------
(***************************************************************************)
(* How settings travel from the API's file to the three controllers of the *)
(* proxy: PUT /v1/connection/config (routes/connection-config.ts), the     *)
(* push at startup and the periodic resync (api/src/server.ts), and the    *)
(* handler of POST /net/settings (proxy/src/server.ts), which awaits the   *)
(* relay, then the gateway, and then sets the explicit proxy.              *)
(*                                                                         *)
(* Each controller is reduced to what the handler sees of it; they are     *)
(* modelled in full in DnsRelay, GatewayController and ExplicitProxy.      *)
(* Settings are a part for the relay and a part for everything else.       *)
(***************************************************************************)
EXTENDS Naturals, Sequences

CONSTANTS
  Others,        \* settings that are not about the relay, each of them valid
  Upstreams,     \* those which give the relay an upstream or a fallback
  Routed,        \* those which need rules besides the redirect: transparent gateway, bypass
  LanFound,      \* was the interface of the LAN configured?
  Unset,         \* what a controller has before the first notification
  Requests,      \* notifications that may be under way at the same time
  Attempts,      \* attempts of the push at startup
  Losses,        \* may a notification get lost?
  ApiRestarts,   \* may the API process restart?
  ProxyRestarts, \* may the proxy process restart?
  Failures       \* may nft fail, and may the port of the relay be taken?

\* What an instance has to satisfy.
SyncAssumption ==
  /\ Unset \notin Others /\ Upstreams \subseteq Others /\ Attempts \in Nat \ {0}
  /\ Routed \subseteq Others /\ LanFound \in BOOLEAN
  /\ Losses \in BOOLEAN /\ Failures \in BOOLEAN
  /\ ApiRestarts \in BOOLEAN /\ ProxyRestarts \in BOOLEAN

\* What holds between items: the relay needs somebody to ask.
Accepts(s) == s.relay => s.other \in Upstreams

\* What the file may say; dnsRedirectEnabled goes with the relay.
Settings == {s \in [other : Others, relay : BOOLEAN] : Accepts(s)}

\* A PUT names some items or all.
Patches == [other : Others] \cup [relay : BOOLEAN] \cup [other : Others, relay : BOOLEAN]

Default  == [other |-> Unset, relay |-> FALSE]
Rules    == [other : Others \cup {Unset}, redirect : BOOLEAN]
NoRules  == [other |-> Unset, redirect |-> FALSE]

\* Nothing is asked of nft but to remove what is there.
Teardown(rules) == ~LanFound \/ (rules.other \notin Routed /\ ~rules.redirect)

\* What nft leaves behind when it succeeds.
Installed(rules) == IF Teardown(rules) THEN NoRules ELSE rules

VARIABLES
  stored,        \* the API's file
  push,          \* the push at startup: what it sends and how often it still may
  latest,        \* history: the body that the handler received last
  request,       \* each notification: where it is, its body, relayActive
  relay,         \* DnsRelayController: settings, state, awaited step, the line
  gateway,       \* GatewayController: settings, success, running nft, the line;
                 \* history: missed, the last run of nft was a teardown that failed
  kernel,        \* the rules that nft installed
  explicit,      \* ExplicitProxyController.settings
  portFree

proxy == <<relay, gateway, explicit>>
vars  == <<stored, push, latest, request, proxy, kernel, portFree>>

NoRequest == [at |-> "none", body |-> Default, active |-> FALSE]
NoRelay   == [want |-> FALSE, applied |-> FALSE, state |-> "stopped", step |-> "none",
              line |-> << >>, work |-> {}]
NoGateway == [rules |-> NoRules, ok |-> FALSE, missed |-> FALSE, nft |-> NoRules, busy |-> FALSE,
              line |-> << >>, work |-> {}]

Init ==
  /\ stored \in Settings
  /\ push = [body |-> stored, left |-> Attempts]
  /\ latest = Default
  /\ request = [r \in Requests |-> NoRequest]
  /\ relay = NoRelay
  /\ gateway = NoGateway
  /\ kernel = NoRules
  /\ explicit = [other |-> Unset, named |-> FALSE]
  /\ portFree = TRUE

\* Promises that are settled are gone on with before the next event.
Quiet ==
  /\ relay.line = << >> \/ relay.step # "none"
  /\ gateway.line = << >> \/ gateway.busy

-----------------------------------------------------------------------------
(* The API                                                                 *)

Send(r, body) ==
  /\ Quiet
  /\ request[r].at = "none"
  /\ request' = [request EXCEPT ![r] = [NoRequest EXCEPT !.at = "sent", !.body = body]]

\* The first attempt of the push is made before anything else is served.
Started == push.left < Attempts

\* updateSettings: the items named replace the stored ones, and the result as a
\* whole is accepted or refused.
Save(patch) ==
  /\ stored' = [item \in DOMAIN stored |-> IF item \in DOMAIN patch THEN patch[item] ELSE stored[item]]
  /\ Accepts(stored')

Put(r, patch) ==
  /\ Started
  /\ Save(patch)
  /\ Send(r, stored')
  /\ UNCHANGED <<latest, push, proxy, kernel, portFree>>

\* Mutant: what was read at the start is sent every time.
ResyncFirst(r) ==
  /\ Started
  /\ Send(r, push.body)
  /\ UNCHANGED <<latest, stored, push, proxy, kernel, portFree>>

Resync(r) ==
  /\ Started
  /\ Send(r, stored)
  /\ UNCHANGED <<latest, stored, push, proxy, kernel, portFree>>

\* The settings were read once; an attempt that gets its answer is the last.
PushAtStartup(r) ==
  /\ push.left > 0
  /\ Send(r, push.body)
  /\ push' \in {[push EXCEPT !.left = @ - 1], [push EXCEPT !.left = 0]}
  /\ UNCHANGED <<latest, stored, proxy, kernel, portFree>>

ApiRestart ==
  /\ Quiet /\ ApiRestarts
  /\ push' = [body |-> stored, left |-> Attempts]
  /\ UNCHANGED <<latest, stored, request, proxy, kernel, portFree>>

Lose(r) ==
  /\ Quiet /\ Losses
  /\ request[r].at = "sent"
  /\ request' = [request EXCEPT ![r] = NoRequest]
  /\ UNCHANGED <<latest, stored, push, proxy, kernel, portFree>>

-----------------------------------------------------------------------------
(* The handler and the relay                                               *)

\* parseSettingsRequest: the API sends every item, so that no default is used.
Body(r) == request[r].body

\* toDnsRelaySettings: the relay's part.
ForRelay(body) == body.relay

\* The relay is given its part; the handler awaits the promise chain.
Receive(r) ==
  LET want == ForRelay(Body(r))
      same == relay.applied /\ relay.state # "error" /\ want = relay.want
  IN
  /\ Quiet
  /\ request[r].at = "sent"
  /\ request' = [request EXCEPT ![r].at = "relay"]
  /\ latest' = Body(r)
  /\ relay' = [relay EXCEPT
       !.want = want, !.applied = TRUE,
       !.line = Append(@, r),
       !.work = IF same THEN @ ELSE @ \cup {r}]
  /\ UNCHANGED <<stored, push, gateway, kernel, explicit, portFree>>

\* Mutant: the redirect does not depend on whether the relay listens.
RedirectAnyway(body, state) == body.relay

Redirect(body, state) == body.relay /\ state = "active"

\* The handler goes on with the relay in this state: it gives the gateway its
\* part and awaits it.
ToGateway(r, state) ==
  LET rules == [other |-> Body(r).other, redirect |-> Redirect(Body(r), state)]
      same  == gateway.ok /\ rules = gateway.rules
  IN
  /\ relay' = [relay EXCEPT !.state = state, !.step = "none", !.line = Tail(@), !.work = @ \ {r}]
  /\ request' = [request EXCEPT ![r].at = "gateway", ![r].active = (state = "active")]
  /\ gateway' = [gateway EXCEPT
       !.rules = rules,
       !.line = Append(@, r),
       !.work = IF same THEN @ ELSE @ \cup {r}]

\* reconcile of the relay up to its await, for the handler that is first in
\* line; it goes by the settings of now.
RelayTurn ==
  /\ relay.line # << >> /\ relay.step = "none"
  /\ Head(relay.line) \in relay.work
  /\ relay.want # (relay.state = "active")
  /\ relay' = [relay EXCEPT !.step = IF relay.want THEN "start" ELSE "stop"]
  /\ UNCHANGED <<stored, push, latest, request, gateway, kernel, explicit, portFree>>

\* There is nothing to await.
RelayPass ==
  LET r == Head(relay.line) IN
  /\ relay.line # << >> /\ relay.step = "none"
  /\ \/ r \notin relay.work /\ ToGateway(r, relay.state)
     \/ /\ r \in relay.work
        /\ relay.want = (relay.state = "active")
        /\ ToGateway(r, IF relay.want THEN "active" ELSE "stopped")
  /\ UNCHANGED <<latest, stored, push, kernel, explicit, portFree>>

RelayStarts ==
  /\ relay.step = "start"
  /\ ToGateway(Head(relay.line), IF portFree THEN "active" ELSE "error")
  /\ UNCHANGED <<latest, stored, push, kernel, explicit, portFree>>

RelayStops ==
  /\ relay.step = "stop"
  /\ ToGateway(Head(relay.line), "stopped")
  /\ UNCHANGED <<latest, stored, push, kernel, explicit, portFree>>

-----------------------------------------------------------------------------
(* The handler, the gateway and the explicit proxy                         *)

\* The handler sets the explicit proxy, with relayActive as it was read before
\* the gateway was awaited, and answers.
ToExplicit(r) ==
  /\ explicit' = [other |-> Body(r).other, named |-> request[r].active]
  /\ request' = [request EXCEPT ![r] = NoRequest]

GatewayTurn ==
  LET r == Head(gateway.line) IN
  /\ gateway.line # << >> /\ ~gateway.busy
  /\ \/ /\ r \in gateway.work
        /\ gateway' = [gateway EXCEPT !.busy = TRUE, !.nft = gateway.rules]
        /\ UNCHANGED <<request, explicit>>
     \/ /\ r \notin gateway.work
        /\ gateway' = [gateway EXCEPT !.line = Tail(@)]
        /\ ToExplicit(r)
  /\ UNCHANGED <<latest, stored, push, relay, kernel, portFree>>

\* A teardown counts as a success whatever nft says, and is not repeated.
NftEnds(ok) ==
  LET r == Head(gateway.line) IN
  /\ Quiet
  /\ gateway.busy
  /\ ok \/ Failures
  /\ kernel' = IF ok THEN Installed(gateway.nft) ELSE kernel
  /\ gateway' = [gateway EXCEPT
       !.ok = ok \/ Teardown(gateway.nft), !.missed = ~ok /\ Teardown(gateway.nft),
       !.busy = FALSE, !.nft = NoRules, !.line = Tail(@), !.work = @ \ {r}]
  /\ ToExplicit(r)
  /\ UNCHANGED <<latest, stored, push, relay, portFree>>

-----------------------------------------------------------------------------
(* The environment of the proxy                                            *)

\* The container starts again; what nft installed stays.
ProxyRestart ==
  /\ Quiet /\ ProxyRestarts
  /\ request' = [r \in Requests |-> NoRequest]
  /\ relay' = NoRelay
  /\ gateway' = NoGateway
  /\ explicit' = [other |-> Unset, named |-> FALSE]
  /\ UNCHANGED <<latest, stored, push, kernel, portFree>>

PortChange ==
  /\ Quiet /\ Failures
  /\ relay.state # "active"
  /\ portFree' = ~portFree
  /\ UNCHANGED <<latest, stored, push, request, proxy, kernel>>

Next ==
  \/ \E r \in Requests, patch \in Patches : Put(r, patch)
  \/ \E r \in Requests : Resync(r)
  \/ \E r \in Requests : PushAtStartup(r)
  \/ \E r \in Requests : Lose(r)
  \/ \E r \in Requests : Receive(r)
  \/ RelayTurn \/ RelayPass \/ RelayStarts \/ RelayStops
  \/ GatewayTurn
  \/ \E ok \in BOOLEAN : NftEnds(ok)
  \/ ApiRestart \/ ProxyRestart \/ PortChange

Spec == Init /\ [][Next]_vars

(***************************************************************************)
(* Properties                                                              *)
(***************************************************************************)

\* The kernel has these rules, or what a teardown of them that failed has left there.
InForce(rules) == IF gateway.missed THEN Teardown(rules) ELSE kernel = Installed(rules)

\* When no notification is being handled, all three controllers have the one
\* received last, although each handler waits in two places and nothing stops
\* a second one from starting; the redirect and the explicit proxy's name
\* server rely on the relay exactly if it listens (proxy/src/server.ts:198-216).
\* The kernel has what the gateway believes to have installed, except after a teardown
\* that failed, which it believes too (gateway-controller.ts:241-244).
SettledAgree ==
  relay.applied /\ relay.line = << >> /\ gateway.line = << >> =>
    /\ relay.want = latest.relay
    /\ gateway.rules.other = latest.other /\ explicit.other = latest.other
    /\ gateway.ok => InForce(gateway.rules)
    /\ gateway.rules.redirect <=> relay.state = "active"
    /\ explicit.named <=> relay.state = "active"
    /\ relay.want <=> relay.state # "stopped"

-----------------------------------------------------------------------------
(* Liveness: the resync runs every 10 s while the API is up, requests      *)
(* arrive, and what is awaited ends.                                       *)

\* What the timers of the API do again and again, as long as it is up.
Timers == \E r \in Requests : PushAtStartup(r) \/ Resync(r)

Fairness ==
  /\ \A r \in Requests : WF_vars(Receive(r))
  /\ WF_vars(RelayTurn) /\ WF_vars(RelayPass) /\ WF_vars(RelayStarts) /\ WF_vars(RelayStops)
  /\ WF_vars(GatewayTurn)
  /\ WF_vars(\E ok \in BOOLEAN : NftEnds(ok))

\* What has to stop: changes of the settings, restarts, lost notifications,
\* failures of nft that are believed to be failures, and those of the port.
Disturbance ==
  \/ stored' # stored \/ portFree' # portFree \/ push'.left > push.left
  \/ relay.applied /\ ~relay'.applied
  \/ \E r \in Requests : request[r].at = "sent" /\ request'[r].at = "none"
  \/ gateway.busy /\ ~gateway'.busy /\ ~gateway'.ok

\* Once they have stopped the proxy ends with what the file says, in the kernel
\* unless a teardown failed (nobody repeats it), in the relay if it can listen, and
\* in the explicit proxy (api/src/server.ts:53-56).
Reflected ==
  /\ gateway.rules.other = stored.other /\ explicit.other = stored.other
  /\ InForce(gateway.rules)
  /\ relay.want = stored.relay
  /\ portFree => (relay.state = "active") = stored.relay
  /\ gateway.rules.redirect = (relay.state = "active")
Converges == <>[][~Disturbance]_vars => <>[]Reflected
=============================================================================
