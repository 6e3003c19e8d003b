----------------------------- MODULE Dashboard -----------------------------
(***************************************************************************)
(* What a tab of the web UI shows of the server: the polled state          *)
(* (hooks/usePolling.ts, useDashboardPolling.ts), the list of locations    *)
(* (useLocations.ts) and the reference list of a restricted plan           *)
(* (useAvailableLocations.ts), and the operations that App.tsx and         *)
(* ProviderSelector.tsx send.  Polls overlap and are answered in any       *)
(* order; lists are fetched on occasion only, and the provider, or what    *)
(* its plan allows, may change at any time, by this tab or another one.    *)
(*                                                                         *)
(* The server's states are numbered; what a tab shows is the number of the *)
(* state it was told of, for the provider and the capabilities apart, as   *)
(* they are asked for by requests of their own.                            *)
(***************************************************************************)
EXTENDS Naturals, Sequences

CONSTANTS
  Providers,
  Unknown,       \* nothing was told (undefined)
  Polls,         \* polls that may be under way at a time
  MaxEvents,     \* bound: changes of the server and requests that fail
  Return         \* may a provider that was left be chosen again?

\* What an instance has to satisfy.
DashboardAssumption ==
  /\ Unknown \notin Nat /\ MaxEvents \in Nat /\ Return \in BOOLEAN
  /\ {Unknown, "none", "asked", "error"} \cap Providers = {}

VARIABLES
  history,       \* the server's states; the last one holds now
  poll,          \* polls under way: what was answered so far
  told,          \* data: the states that the tab was told of
  hook,          \* which of the two lists is looked at: their hooks share nothing
  load,          \* the request for it under way (inFlight and generation; stale)
  list,          \* the provider whose locations are listed, "error", or Unknown
  visible,       \* document.visibilityState
  operation,     \* the operation of the user under way (submitting, isSwitchingProvider)
  floor,         \* ghost: the state in which the last operation left the server
  failures       \* requests that failed

screenVars == <<told, load, list>>
dashboardVars == <<history, poll, screenVars, visible, operation, floor, failures>>

States == [provider : Providers, listable : BOOLEAN]
Nothing == [phase |-> "none"]

Now       == Len(history)
Server    == history[Now]
Numbers   == 1 .. Now
Waiting   == [provider |-> 0, capabilities |-> 0]

Init ==
  /\ history \in {<<s>> : s \in States}
  /\ poll = [p \in Polls |-> Nothing] /\ told = Nothing
  /\ hook \in {"useLocations", "useAvailableLocations"} /\ load = "none" /\ list = Unknown
  /\ visible = FALSE /\ operation = "none" /\ floor = 0 /\ failures = 0

\* activeProviderId; enabled of useLocations: unknown capabilities restrict nothing;
\* enabled of useAvailableLocations.
Active(t)     == IF t = Nothing \/ t.provider = Unknown THEN Unknown ELSE history[t.provider].provider
Restricted(t) == t # Nothing /\ t.capabilities # Unknown /\ ~history[t.capabilities].listable
Enabled(t)    == t # Nothing /\ ~Restricted(t)

MayHappen == Now + failures <= MaxEvents
Fails     == MayHappen /\ failures' = failures + 1

-----------------------------------------------------------------------------
(* The server                                                              *)

Possible(s) ==
  /\ MayHappen /\ s # Server
  /\ Return \/ s.provider = Server.provider
     \/ \A i \in Numbers : history[i].provider # s.provider

\* Another tab, or the vendor, changes something.
Change(s) ==
  /\ Possible(s)
  /\ history' = Append(history, s)
  /\ UNCHANGED <<poll, screenVars, visible, operation, floor, failures>>

\* The requests of a poll are answered at the same moment; each may fail (settle).
AnswerPoll(p) ==
  /\ poll[p] = Waiting
  /\ \/ /\ poll' = [poll EXCEPT ![p] = [provider |-> Now, capabilities |-> Now]]
        /\ UNCHANGED failures
     \/ /\ Fails
        /\ \E part \in {"provider", "capabilities"} :
             poll' = [poll EXCEPT ![p] = [[provider |-> Now, capabilities |-> Now]
                                             EXCEPT ![part] = Unknown]]
  /\ UNCHANGED <<history, screenVars, visible, operation, floor>>

\* GET /v1/connection/locations or available-locations: those of the provider that is
\* active when the request is handled.
AnswerLoad ==
  /\ load = "asked"
  /\ \/ load' = Server.provider /\ UNCHANGED failures
     \/ load' = "error" /\ Fails
  /\ UNCHANGED <<history, poll, told, list, visible, operation, floor>>

-----------------------------------------------------------------------------
(* Rendering: the effects that follow from what the tab was told           *)

\* Mutant: the request under way for the provider before is not given up.
ResetKeeping == [list |-> Unknown, load |-> load]

\* Another provider: a new generation, with an empty list.
Reset == [list |-> Unknown, load |-> "none"]

\* Mutant: another provider does not load the list anew.
LocationsEnabled(t) ==
  /\ list' = IF Active(t) # Active(told) \/ ~Enabled(t) THEN Unknown ELSE list
  /\ load' = IF Enabled(t) /\ ~Enabled(told) THEN "asked" ELSE load

\* The effects of useLocations, in their order: on another provider a reset; then the
\* list is emptied if it is disabled, else loaded unless that is under way.
Locations(t) ==
  LET other  == Active(t) # Active(told)
      before == IF other THEN Reset ELSE [list |-> list, load |-> load]
      again  == other \/ Enabled(t) # Enabled(told)
  IN /\ list' = IF again /\ ~Enabled(t) THEN Unknown ELSE before.list
     /\ load' = IF again /\ Enabled(t) /\ before.load = "none" THEN "asked" ELSE before.load

\* The effect of useAvailableLocations: what was asked for before is stale.
References(t) ==
  IF Active(t) # Active(told) \/ Restricted(t) # Restricted(told)
  THEN list' = Unknown /\ load' = IF Restricted(t) THEN "asked" ELSE "none"
  ELSE UNCHANGED <<list, load>>

Render(t) ==
  /\ told' = t
  /\ IF hook = "useLocations" THEN Locations(t) ELSE References(t)

-----------------------------------------------------------------------------
(* The tab                                                                 *)

\* handleVisibilityChange; the poll that follows at once is one of SendPoll.
Turn ==
  /\ visible' = ~visible
  /\ UNCHANGED <<history, poll, screenVars, operation, floor, failures>>

\* poll: at once, and every five seconds, whether or not an earlier one is answered.
SendPoll(p) ==
  /\ visible /\ poll[p] = Nothing
  /\ poll' = [poll EXCEPT ![p] = Waiting]
  /\ UNCHANGED <<history, screenVars, visible, operation, floor, failures>>

\* setData: all parts have settled.
Polled(p) ==
  /\ poll[p] \notin {Nothing, Waiting}
  /\ Render(poll[p])
  /\ poll' = [poll EXCEPT ![p] = Nothing]
  /\ UNCHANGED <<history, visible, operation, floor, failures>>

\* A response of the generation of the moment; it does not look at whether the list is
\* still enabled.  A failure shows in the place of the list, if that is not for reference.
Loaded ==
  /\ load \notin {"none", "asked"}
  /\ list' = IF load = "error" /\ hook = "useAvailableLocations" THEN list ELSE load
  /\ load' = "none"
  /\ UNCHANGED <<history, poll, told, visible, operation, floor, failures>>

\* The user measures again; ignored while a request is under way.
Measure ==
  /\ hook = "useLocations" /\ Enabled(told)
  /\ load = "none" /\ load' = "asked"
  /\ UNCHANGED <<history, poll, told, list, visible, operation, floor, failures>>

\* handleSubmit and handleSwitch, one operation at a time: a switch changes the provider,
\* a connection may change what is known of the plan.
Submit ==
  /\ visible /\ told # Nothing /\ operation = "none"
  /\ operation' = "done"
  /\ (\E s \in States : Possible(s) /\ history' = Append(history, s)) \/ UNCHANGED history
  /\ UNCHANGED <<poll, screenVars, visible, floor, failures>>

\* Mutant: the polls under way are still heard.
RefreshHearing == UNCHANGED poll

\* The effect of usePolling runs anew: the polls under way are cancelled, one is sent.
Refresh ==
  \E p \in Polls : poll' = [q \in Polls |-> IF q = p /\ visible THEN Waiting ELSE Nothing]

\* The operation was a success.
Performed ==
  /\ operation = "done" /\ operation' = "none"
  /\ floor' = Now
  /\ Refresh
  /\ UNCHANGED <<history, screenVars, visible, failures>>

\* It was refused, or its answer was lost: only a 403, by which a restriction may have
\* been learned, is followed by a poll.
Refused ==
  /\ operation = "done" /\ operation' = "none"
  /\ Refresh \/ UNCHANGED poll
  /\ UNCHANGED <<history, screenVars, visible, floor, failures>>

-----------------------------------------------------------------------------
Next ==
  \/ \E s \in States : Change(s)
  \/ \E p \in Polls : SendPoll(p) \/ AnswerPoll(p) \/ Polled(p)
  \/ AnswerLoad \/ Loaded \/ Measure
  \/ Turn \/ Submit \/ Performed \/ Refused

Spec == Init /\ [][Next /\ UNCHANGED hook]_<<dashboardVars, hook>>

\* While the tab is visible it polls; requests are answered, and answers are handled.
Fairness ==
  /\ \A p \in Polls : /\ WF_dashboardVars(SendPoll(p)) /\ WF_dashboardVars(AnswerPoll(p))
                      /\ WF_dashboardVars(Polled(p))
  /\ WF_dashboardVars(AnswerLoad) /\ WF_dashboardVars(Loaded)

-----------------------------------------------------------------------------
(* Properties                                                              *)

Order(provider) == CHOOSE i \in Numbers : history[i].provider = provider

\* No list of an earlier provider is shown under a later one, whichever way the answers
\* to polls and to requests for lists overtake each other (useLocations.ts:44-84).
ListNotOlder ==
  Active(told) # Unknown /\ list \in Providers => Order(list) >= Order(Active(told))

\* After an operation of its user the tab never again shows a state from before it,
\* though polls that were sent before may be answered later (usePolling.ts:30-65).
NeverGoesBack ==
  [][told' # told =>
       \A n \in {told'.provider, told'.capabilities} : n = Unknown \/ n >= floor]_dashboardVars

\* When the user rests and the tab stays visible, it comes to show the provider that the
\* server has and what that allows, and then the list of that provider or that it could
\* not be fetched, though an older poll may be answered last (usePolling.ts:40).
ShowsServer ==
  <>[](visible /\ operation = "none") =>
    <>[](/\ Active(told) = Server.provider
         /\ Restricted(told) <=> ~Server.listable
         /\ Server.listable /\ hook = "useLocations" => list \in {Server.provider, "error"})
=============================================================================
