-------------------------- MODULE ProviderPromises --------------------------
(***************************************************************************)
(* What is promised of connections to those who do not ask for two things  *)
(* at once, nor while a runner goes on with a command that nobody waits    *)
(* for: ProviderConnection with two history variables that tell since when *)
(* nothing has happened that the code does not guard against.              *)
(***************************************************************************)
EXTENDS ProviderConnection

VARIABLES
  orderly,   \* history: one request at a time, every switch got an answer and left no
             \* connect command behind
  smooth     \* history: also, nothing failed, no connection ended by itself, and nothing
             \* was decided while a command was left

pvars == <<vars, orderly, smooth>>

OneAtATime == Cardinality({r \in Requests : request[r].kind # "none"}) <= 1

\* No connect command is left while a provider is being switched ...
Apart ==
  \A r \in Requests : request[r].kind = "switch" => ~\E c \in left : c.to # None

\* ... and when nothing is in progress, only the selected provider's.
LeftForActive == \A c \in left : c.to # None => c.provider = active

\* While a command is left, no more happens than the first looks of a restoration.
Undisturbed ==
  left # {} => \A r \in Requests : \/ request[r].kind = "none"
                                   \/ request[r].kind = "restore" /\ request[r].at \in {"health", "status"}

\* A switch goes on without knowing whether the provider is connected.
Unanswered(r) ==
  /\ request[r].at = "status" /\ request[r].kind = "switch"
  /\ request'[r].at = "decide" /\ request'[r].seen # tunnel[request[r].provider]

\* A command fails or says nothing, or a restoration gives up.
Failed(r) ==
  \/ request[r].at = "command" /\ request'[r].at = "check"
     /\ (~request'[r].ok \/ request'[r].seen # Wish(r))
  \/ request[r].kind = "restore" /\ request[r].at \in {"health", "locate"} /\ request'[r] = Idle
  \/ request[r].kind = "restore" /\ request[r].at = "status"
     /\ request'[r].at = "decide" /\ request'[r].seen # tunnel[request[r].provider]

\* A connection ended, and by no command.
Dropped ==
  /\ tunnel' # tunnel /\ request' = request
  /\ ~\E c \in left : tunnel' = [tunnel EXCEPT ![c.provider] = c.to]

PromisesNext ==
  /\ orderly' = \/ (Settled /\ OnlyActive /\ LeftForActive)'
                \/ /\ orderly /\ OneAtATime' /\ Apart'
                   /\ \A r \in Requests : ~Unanswered(r)
  /\ smooth'  = \/ (Settled /\ OnlyActive /\ Kept /\ left = {})'
                \/ /\ smooth /\ orderly' /\ ~Dropped /\ Undisturbed'
                   /\ \A r \in Requests : ~Failed(r)

PInit == Init /\ orderly = TRUE /\ smooth = TRUE
PNext == Next /\ PromisesNext
PSpec == PInit /\ [][PNext]_pvars

\* From a state in order on, while requests come one after the other and no
\* switch begins before a connect command that nobody waits for has ended, no
\* provider but the selected one is connected when nothing is in progress: a
\* switch leaves no connection behind, whatever command fails, whatever
\* connection ends, whenever the API or the host restarts, and whenever a
\* command that was left takes effect (disconnectIfConnected,
\* provider-switcher.ts:43-73).
ActiveOnly == Settled /\ orderly => OnlyActive

\* If also no command fails, no connection ends by itself, and what a restart
\* left runners with has ended before the restoration decides and before
\* anything is asked, a provider for which a location is stored is connected
\* when nothing is in progress: what a restart, or a command left behind by it,
\* ended was restored, and a disconnection, a logout, a switch and a GET
\* forgot what had ended (restore-connection.ts:44-78,
\* connection-state-store.ts:92-101).
StoredIsConnected == Settled /\ smooth => Kept
=============================================================================
