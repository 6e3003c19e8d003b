# TLA+ models of vpngateway-gui

vpngateway-gui turns a small Linux host into a VPN gateway for a home network. A web UI talks to an API server; the API server drives
the command-line clients of VPN vendors through one runner container per vendor, and tells a gateway process (`proxy/`) which filter
rules, explicit proxy and DNS relay to run. The models here are translated from the TypeScript sources; file and line of every
definition are in `PROJECT.json` under `map`.

## 1. Inventory

| Component | State | Operations | Talks to |
|---|---|---|---|
| Transparent gateway (`proxy/src/network/gateway-controller.ts`, `ruleset.ts`, `nft-client.ts`, `connection-monitor.ts`) | settings, detected tunnel, promise chain, last result; the kernel's nftables table | `applySettings`, `updateVpnInterface`, `addBypass`, `getStatus`, the tasks of the chain | nft, `ip route get`, policy routing |
| Policy routing (`policy-routing.ts`) | last gateway, `installed`; `ip rule`, routing table 100 | `sync(true)`, `sync(false)` | `ip` |
| Explicit proxy (`explicit-proxy/`) | settings, child process, restart, stable and kill timers, failure counts | `applySettings`, `handleTermination`, timers | 3proxy, its config file |
| DNS relay (`dns-relay/`) | settings, listener state, promise chain; relay configuration | `applySettings`, `reconcile`, `handle` | sockets, DoH upstream, `addBypass` |
| Client names (`dns-relay/client-id.ts`) | servers asked, cache of names, lookups under way | `resolve`, `clear`, `updateConfig` | PTR queries |
| Gateway server (`proxy/src/server.ts`, `settings-request.ts`) | `checkRunning` and the controllers | the HTTP routes, `handleSettings` | all of the above |
| Verification on the gateway (`proxy/src/verification/`) | registered check names | one handler per check | nft, relay, sockets |
| Command runner (`proxy/src/exec/`, `runner.ts`) | the running vendor command | `runCommand`, `runDetachableCommand` | vendor CLIs |
| Connection state (`api/src/connection-state/`) | the stored connection of the active provider | connect, disconnect, reconcile, restore at start | runner, gateway |
| Provider switch (`api/src/providers/`) | active provider, `switching` | `switchProvider`, `assertNotSwitching` | runner, stores |
| Session state (`api/src/session/`, `capabilities/`, `routes/session.ts`) | cached account, account command in flight, learned restrictions | `getSessionInfo`, login, logout, `recordOperationRestriction`, `evaluateCapabilities` | vendor CLI |
| Settings (`api/src/settings/`, `api/src/server.ts`) | settings file | `updateSettings`, notification, resync every 10 s | gateway server |
| Verification service (`api/src/verification/`) | jobs, `running` | start, run checks, judge | gateway server, web client |
| Operator account and sessions (`api/src/auth/`, `routes/operator*.ts`) | account file, sessions, failures of the last minute | set up, log in, check, log out, change credentials | web client |
| Reboot of the host (`api/src/routes/gateway-reboot.ts`, `proxy/src/host-control/`) | the request file | `POST /v1/gateway/reboot`, `requestHostReboot` | gateway server, the host |
| Locations, favourites, UI preferences, audit log, profiles (`api/src/...`) | small JSON files, vendor profiles | load, save, evaluate | web client |
| Login state (`web/src/contexts/AuthContext.tsx`, `Root.tsx`, `components/auth/`) | which page is shown, the name, the cookie | load, check every 30 s, submit, log out | operator routes |
| Dashboard (`web/src/App.tsx`, `hooks/usePolling.ts`, `useDashboardPolling.ts`, `useLocations.ts`, `useAvailableLocations.ts`) | polled state, lists of locations, requests under way with their generations | poll every 5 s, refresh after an operation, load a list, switch, connect | API |
| Settings dialog (`SettingsDialog.tsx`) | the form, what was loaded, open or closed | open, edit, save, close | `GET` and `PUT /v1/settings` |
| Panel of a verification (`useVerification.ts`, `VerificationPanel.tsx`) | the verification shown, generation, timer | start, poll, close | verification service |
| Editor of lists (`LineListEditor.tsx`, `lib/list-selection.ts`) | rows, selection, anchor, cursor, edit, drag | mouse, keyboard and drag handlers | the dialog |
| Other components of the web UI | theme, toasts | rendering | - |
| Installer, vendor images (`installer/`, `vendors/`) | host set-up | shell scripts | host |

### What is hard here

* **One process, many awaits.** Node runs one callback at a time, but every nft, `ip` and vendor command is an await. Settings
  notifications, the connection monitor, the check after a command and DNS answers meet in the same objects.
* **Promise chains as locks.** Three controllers serialise their work with `this.queue = this.queue.then(...)`. What a task reads
  when it starts is not what its caller saw, and a rejected promise is never left again.
* **A kernel that outlives the process.** Rules, routes and processes survive a restart; memory does not.
* **Failure and time limits.** nft is killed after 5 s, 3proxy dies, listeners fail to bind, notifications are lost and repeated.
* **Stale reads.** The egress interface, a status and a session are read, awaited and then acted upon.
* **A browser that asks and forgets.** Polls overlap, a dialog is closed while its requests are under way and opened again, two
  tabs act for one operator. Refs, generations and `cancelled` flags decide which of the answers still count.
* **Conditions in two places.** The dialog decides which inputs are shown, disabled and missing; the API decides again on saving.

### Properties that make each component correct

* Transparent gateway: the rules in force are those of the latest settings and tunnel once nothing is pending; a kill switch in
  force is never opened by reconnects, failures or stale checks; the status is true; failures are retried; everything converges.
* Policy routing: rule and route exist together, and only while the bypass is on.
* Explicit proxy: at most one 3proxy; the running one has the latest configuration; enabled means running or about to run again;
  disabled means gone; crash loops are reported and left again.
* DNS relay: state, status and sockets agree; a query sees one configuration; a start that failed is repeated.
* Client names: a query goes out in the name of its own client; names told by old servers do not stay.
* Settings: what the user saved reaches every controller, in spite of lost, repeated and overtaking notifications.
* Connections: the switching flag never sticks; for who does one thing after the other only the selected provider is connected, and a
  stored location is a connected one.
* Command runner: the answer is the truth about the child; a background end is announced once; no detached command stays for ever.
* Verification: one at a time, always completed, and a pass is never claimed of what was not so.
* Session state: what is cached and learned is true of the account, or its time is limited; what an answer withholds the
  vendor refuses, or did before a change that the API could not know of.
* Operator account: an account, once there, changes only for who has a session and knows its password of the moment.
* Login state: nobody with a live session is sent to the login page.
* Dashboard: what is from before an operation is not shown after it; no list of a former provider is shown under a later one; a
  visible tab comes to show what the server has.
* Settings dialog: what is missing can be put right; what is shown is what is saved, until it is edited.
* Panel of a verification: what is shown belongs to this opening, and "running" does not stay for ever.
* Editor of lists: rows that nobody touched stay as they are.

## 2. The models

Each module has the component's state as variables, one action per handler, callback or await, and `Next`. An `await` is where a
handler is cut into two actions: everything between two awaits is one step, because Node runs it without interruption. Kernel,
vendors, browsers and clients are variables and actions of their own, marked "outside" or "kernel" in the module.

| Module | Code | State and actions |
|---|---|---|
| `GatewayController` | `proxy/src/network/gateway-controller.ts`, `ruleset.ts`, `nft-client.ts`, `bypass-set.ts`, `connection-monitor.ts` | `settings`, `vpnIface`, `lastOk`, `bypassSet` are fields; `queue`, `job`, `rejected` are the promise chain; `table` and `egress` are the kernel. `ApplySettings`, `ReadEgress`, `UpdateVpnInterface`, `AddBypass` are the entry points; `StartReconcile`, `NftCommit`, `Finish...` the tasks of the chain, with nft committing, failing or timing out after the commit; `Restart` keeps the kernel's table. |
| `GatewayKillSwitch` | the same | adds the history `sealed`: since when the kill switch is in force. |
| `RuleRegister`, `GatewayRegister` | the same | the abstract promise (one value at a time, read at one moment, installed as a whole) and the mapping under which the controller implements it. |
| `RuleAudit` | `proxy/src/verification/rule-audit.ts`, `ruleset.ts` | no state of its own: the checks that read the rules back, as operators on the chains (sequences of lines) that `ruleset.ts` writes, judged against every table `GatewayController` puts in force. |
| `PolicyRouting` | `policy-routing.ts` | `pc` tells at which `ip` command each caller of `sync` waits; the queue's tasks and the refreshes of connection checks interleave at every command; `rule`, `route`, `main` are the kernel. |
| `ExplicitProxy` | `explicit-proxy-controller.ts`, `config-builder.ts` | `child`, `expected`, the three timers and the failure count; `procs` tells what became of every 3proxy; exit and error event of one process may both arrive. |
| `DnsRelay` | `dns-relay-controller.ts`, `listener.ts`, `relay.ts` | `waiting` and `step` are the promise chain; `query` the queries in progress, each with what it has read before its await; `Intercepted` are those answered without the upstream, by a rule or an address of the domain; `open`, `portFree`, `tcp` the network. |
| `ClientIds` | `client-id.ts` | `cache`, `pending` lookups, `source` (the servers asked); `Resolve`, `Lookup`, `Expire`, `UpdateConfig`. |
| `SettingsSync` | `proxy/src/server.ts`, `settings-request.ts`, `api/src/server.ts`, `routes/connection-config.ts` | composes reduced forms of the relay, the gateway and the explicit proxy under `handleSettings`, with the API's file, its push at startup, its resync and its notifications, which may be lost, overtake each other and be repeated. `Teardown` is when nft has only to remove rules; `missed` remembers that this failed last, which nobody repeats. `Patches` and `Save` are what the API accepts and merges, `Accepts` what the gateway takes from a notification. |
| `ProviderConnection` | `api/src/connection-state/`, `providers/` | each request is where it awaits (`locate`, `health`, `status`, `command`, ...) and what it has seen; `tunnel` is what the vendors really do. `left` holds the commands with which runners go on though nobody waits for them, after a restart of the API (`Restart`) or an answer that is lost or late (`Command`): `LeftEnds` lets one take effect, or end without, at any later time. |
| `ProviderPromises` | the same | adds the histories `orderly` and `smooth`: since when nothing happened that the code does not guard against. `orderly` asks for one request at a time, and for no switch beside a connect command that was left; `smooth` also for no failure, and for no decision while a command is left. |
| `CommandRunner` | `proxy/src/exec/command-runner.ts`, `exec-handler.ts` | one command: exit, output and three timers in any order; `notices` are the calls of `onBackgroundExit`. The grace of 50 ms after the exit may end before all output was read; `early` remembers that it did. |
| `Verification` | `api/src/verification/`, `proxy/src/verification/check-nonces.ts` | `running`, `job`, `kept` of the service, the gateway's `names`; the checks that take something from outside are modelled one by one, the others share their shape and are left out. |
| `SessionState` | `session-probe.ts`, `restriction-learner.ts`, `capability-evaluator.ts`, `routes/session.ts` | cache, probe in flight, learned restrictions, requests; `account` is the vendor's truth, which a browser or the vendor may change. `Offered` is what an answer offers for a reading of the account, `overtaken` what is known from before a change that the API did not see. |
| `OperatorAccount` | `api/src/auth/`, `routes/operator*.ts`, `gateway-reboot.ts`, `web/src/contexts/AuthContext.tsx`, `components/auth/` | `account` is the file, `sessions` and `recent` the API's memory; each route is one action, because it does not await (`Setup`, `Login`, `Check`, `Update`, `Logout`, `Reboot`); `call` the requests of each browser with the cookie they were sent with, `screen`, `shown`, `form` what it shows; `Lost` and `BadGateway` are answers that do not arrive, `Restart` forgets the sessions. |
| `Dashboard` | `usePolling.ts`, `useDashboardPolling.ts`, `useLocations.ts`, `useAvailableLocations.ts`, `App.tsx`, `ProviderSelector.tsx` | `history` numbers the server's states, `told` is what the tab was told of; `poll` the polls under way, `load` and `list` the request for a list; `Refresh` is the poll that cancels the others after an operation. |
| `SettingsDialog` | `SettingsDialog.tsx`, `settings-store.ts` | `open`, `isLoading`, `settings` are the component's state, `gets` and `put` its requests; `Inputs` and `Incomplete` are what is shown and what keeps the button disabled, `Accepts` what the API takes. |
| `VerificationPanel` | `useVerification.ts`, `VerificationPanel.tsx` | `active`, `generation`, `timer` are the refs of the hook, `posts` and `polls` its requests with the opening they belong to; `latest`, `steps`, `forgotten` the API as the hook sees it. |
| `LineList` | `LineListEditor.tsx`, `list-selection.ts` | the rows with selection, anchor, cursor, edit and drag; each event handler is an action with all it calls, so that a click which ends an edit is one step. |

`Processes` (`ExplicitProxy`, `SettingsSync`, `ClientIds`, `CommandRunner`) and `Screens` (the five modules of the web UI) put several of
these modules side by side, and `MCScreens` gives `Screens` its values. The parts share no variable. A variable `part` says
which of them moves; the others rest in one initial state, in which no action of theirs is taken, so each behaviour is a behaviour of
one part, and a run explores the sum of the parts and not their product. The fairness of a part asks nothing of behaviours in
which it rests where it asks for something only while a step is under way; where it would (the timers of `SettingsSync`), it is
restricted to the part. `MCGateway` composes the controller, its history, the abstract register and the audit; `MCSettingsDialog` is an
instance of one module.

What the models abstract: rule sets are records of what they do to traffic (forward chain, bypass, redirect), never nft text;
addresses, names, locations and configurations are model values; times are orders of events (a timer may fire whenever it is armed,
an entry may expire whenever it is there), so every real timing is among the behaviours checked.

`proxy/` code called from several places is modelled at the detail of its own module and reduced elsewhere: `SettingsSync` has
gateway and relay tasks with one await each, and `GatewayController` knows policy routing only as a task that ends.

## 3. Runs

| Run | Instance | Question and bounds |
|---|---|---|
| `GatewaySafety` | 5 settings (off, DNS only, kill switch on and off, bypass), tunnels `tun0`, `wg0` and one with a refused name, 1 address, 1 checker, all faults, `MaxQueue` 2 | The settled table, the status, the bypass set, the kill switch over time, the refinement of `RuleRegister`, and the checks that read the rules back. Two tunnels are needed for a reconnect to another name; two waiting tasks for one that overtakes; every task reads the state when it starts, so a longer queue adds only repetitions. |
| `GatewayConverges` | 4 settings, 1 address, 2 checkers, failing applies, fairness | Everything ends with the rules that settings and tunnel call for. Two checkers are the monitor and the check after a command, whose answers may come out of order. |
| `GatewayRestart` | 4 settings, no fault | A violation: what the comment at startup says does not hold (section 6). |
| `Processes` | `ExplicitProxy`: 2 good and 1 refused configuration, 3 processes, crashes, failing writes. `SettingsSync`: 2 values of the other settings of which one gives the relay an upstream and one needs rules of its own, so that there are teardowns and applies, 2 notifications, push with 2 attempts, losses, restarts of both processes, failures. `ClientIds`: 3 clients, one the gateway, 2 queries, 1 entry. `CommandRunner`: 3 pieces of output, a daemon, a child that ignores SIGTERM. | Safety and convergence of each. Three processes: one serving, one of which a second event is to come, one more. Two notifications are enough for one to overtake the other at each await. The bound of the cache is met at once; two queries share a lookup. The pattern of a command may match before the exit, in the grace, after it or never, and the grace may end before the output is read. |
| `PolicyRouting` | 2 gateways of which the text of one begins like the other's, 2 checks, faults, restarts | Interleavings of a queue task and two refreshes at every `ip` command. No task waits behind the running one (`MaxWaiting` 0): tasks of the queue exclude each other and only settings decide what the next does. |
| `DnsRelay` | 6 settings that differ in all the code looks at, 2 queries, 1 waiting reconcile | Safety and convergence, the latter if no client keeps a connection busy for ever. |
| `ProviderConnection` | 2 providers, 2 locations, 2 requests, 2 kinds of commands left behind, failures, unreachable runners, dropped connections, restarts | A switch needs two providers, the one that is left and the one that is chosen; both may have been left with a command, and a provider with a connect and a disconnect. Symmetry over providers, locations and requests is sound: they are only compared, and no liveness is checked. |
| `Verification` | 2 verifications, 1 kept, 1 name, 2 addresses, restarts of both processes | Every bound of the code is met by the second verification. |
| `SessionState` | 2 requests of any kind, both ways to log in, an account that changes by itself | A login between the beginning and the end of another request. |
| `Screens` | `OperatorAccount`: 2 browsers of one address, used in three ways (a page that logs in, checks and logs out; two pages; a form beside a page), 1 name, 2 passwords, 2 session ids, 1 failure allowed. `Dashboard`: 2 providers, 2 polls, 2 changes or failures. `SettingsDialog`: relay, upstream and failure mode, 2 openings, 1 save elsewhere. `VerificationPanel`: 2 checks, 2 openings, 3 verifications. `LineList`: 3 items, 4 rows. | Safety, and that a tab comes to show what the server has. Two browsers race for the setup; a second session id is the login that a late answer of the first may disturb; two polls overtake each other; a second opening meets what the first left behind; a fourth row is one that was added after a removal. |
| `HiddenTabNeverBlocks` | the dialog of `Screens`, nobody saves elsewhere | A violation: the dialog lets the user save what the API refuses, and no input that is shown puts it right (section 6). |
| `ReopenShowsSaved` | the same | A violation: opened anew while the settings cannot be fetched, the dialog shows edits that were given up (section 6). |

`MaxQueue`, `MaxWaiting`, `MaxLeft`, `Attempts`, `Jobs`, `Pieces`, `MaxEvents`, `MaxOpenings`, `MaxElsewhere`, `MaxJobs`, `MaxRows` are bounds of
the instances. `Threshold`, `Kept`, `Entries`, `MaxEntries`, `MaxFailures` and `MaxItems` are limits of the code (of failures, kept
verifications, registered names, cached names, wrong passwords and rows), made small. `Editable` leaves the other items of the dialog
as they are at a new installation; `LanKnown` chooses one of its two defaults.

`Dashboard` is run with `Return` FALSE: a provider that was left is not chosen again. If it is, between two polls, the tab does not
notice and keeps a list that was fetched of the other provider: `ShowsServer` is violated with `Return` TRUE (section 6).

Deadlock is checked in all runs but four. A command that was answered and is gone has nothing left to do (`Processes`); the dialog, the
panel and the dashboard come to rest at their bounds (`Screens`, `HiddenTabNeverBlocks`, `ReopenShowsSaved`).

### Fairness

* The API notifies its settings again every 10 s (`api/src/server.ts`): the repetition of the current settings is fair.
* The connection monitor polls every 10 s: reading the egress interface and delivering the answer are fair.
* nft is killed after 5 s, `ip` commands end, sockets open or fail, requests to runners are answered or time out: what follows an
  await is fair. Which outcome comes is not.
* Timers fire and caches expire.
* A visible tab polls every 5 s, its requests are answered or fail, and an answer that has come is handled
  (`Dashboard`); nobody has to make the tab visible, and which of two answers comes first is open.
* Users, tunnels, browsers, vendors, clients and faults are never fair.

In `GatewayController` the two entry points that are fair are disabled now and then, by the bound of the queue or because the
previous delivery still waits: they have strong fairness, which the timers behind them justify. All else is weak fairness. The convergence properties
have the form "if disturbances end (new settings, restarts, failures, a moving gateway), then for ever after some time ...": each
module's `Disturbance` names what has to end. `GatewayController` claims nothing about settings that only tear down, because a
failed teardown is not repeated (section 6); in `SettingsSync` the kernel follows the file unless the last thing nft was asked to do was such a
teardown (`InForce`).

## 4. What the properties say

| Property | The hazard behind it |
|---|---|
| `SettledTable`, `Converges` (gateway) | notifications, polls and hooks chain reconciles in any order; stale checks; failed or timed-out nft commands |
| `StatusIsTrue` | the status after failures and restarts |
| `BypassCovered` | addresses registered before, during and after a reconcile |
| `KillSwitchHolds` | any moment, between any two commands, in which LAN traffic could leave by the line |
| `ImplementsRegister` | rules that mix two states, or come from a state that is neither the one read nor the one installed |
| `AuditsAgree` | checks of the verification that read rules in the middle of a reconcile, stale rules or none, and lines that another module writes |
| `OneProxy`, `ServesLatest`, `StopIsEnforced`, `FollowsSettings` (explicit proxy) | a replacement that is notified while the old process dies, crashes, ignores signals or reports twice |
| `InForce`, `FollowsGateway` | a refresh that runs beside a removal; a gateway that moves |
| `SettledAsTold`, `NeverMixed`, `FollowsSettings` (relay) | sockets opened and closed while settings and queries arrive |
| `NamesNeverMixed`, `NamesHeal` (client names) | shared lookups; a cache at its bound; lookups that outlive the servers they asked |
| `SettledAgree`, `Converges` (settings) | two handlers interleaved at their awaits; lost notifications; restarts of one side; failures, of which those of a teardown pass for success |
| `FlagIsHeld`, `ActiveOnly`, `StoredIsConnected` | switches that fail half-way, restarts between a command and the store, commands that take effect when nobody waits for them any more |
| `AnswerIsTrue`, `AnnouncedTruly`, `DetachedEnds` | exit before data, with a grace that may be too short; kill before exit; a child that ignores SIGTERM |
| `OneAtATime`, `PassIsTrue`, `Completes` | late submissions, dropped verifications, changing tunnels, lost names |
| `KnownIsRight`, `WithheldIsDenied`, `Heals` (session) | account commands and refusals that outlive a login; changes the API does not see; answers given from a reading that is stale or still under way |
| `AccountKept` | two browsers on the setup page; a change that another overtakes |
| `ThrownOutJustly` | a check sent before a logout and a new login, answered after them |
| `NeverGoesBack`, `ListNotOlder`, `ShowsServer` | polls and lists that overtake each other, operations and providers; requests that fail; a guard that drops the only request for a list |
| `NeverStuck` | inputs that are hidden or disabled by other items while the dialog asks for them |
| `PanelIsTrue` | a verification that the API has forgotten; lost polls; a dialog closed and opened again while a start is under way |
| `RowsKept` | clicks, keys, edits and drags in any order, with state and refs that are updated at different moments |

## 5. Proofs

`GatewayProofs` proves for all finite or infinite sets of interfaces, addresses and checkers, any bound of the queue
and any set of faults, from the assumptions `NamesAssumption`, `SettingsAssumption`, `FaultsAssumption`, `QueueAssumption` and
`NoTableAssumption` of `GatewayController` (the constants have their kinds; "none" values differ from real ones):

* `TypeCorrect`: `Spec => []TypeOK`.
* `SettledTableHolds` and `StatusIsTrueHolds`. Neither property is inductive: both speak of an empty chain. The invariant `IInv`
  carries the argument through the chain. `JobShape` ties kind, phase and script of the running task; `JobFits` says that an
  apply which has no reconcile waiting behind it was computed from the present settings and tunnel; `ScriptInForce` that after the
  commit the kernel holds the script's rules; `TableFits` that without a reconcile waiting, and with the last one a success, the
  table fits. Every action either requests a reconcile, and then nothing is claimed until it starts (`ReconcileCovers`), or leaves
  alone what the claims are about.

The second half of `GatewayProofs` goes on from there, from the same assumptions:

* `AuditsAgreeHolds` needs no further invariant: `ChainShape` says for any table which lines its forward chain has and what the last
  one is, `ChecksReadRules` what the checks make of them; `TypeCorrect` says that the table is one of these, and `SettledTableHolds`
  which one it is once the chain is empty.
* `KillSwitchCloses` has the hypothesis `Lan = Wan`: the line is the LAN interface, which is the default of the code when
  `WAN_IFACE` is not set (`gateway-controller.ts:97`). Without it the promise is false (section 6). The invariant `SealKept` says that
  while the switch is in force the settings ask for it, the table closes the line, the script of a running apply does too, and no teardown
  runs; `Ground` (`VpnIsTunnel`, `NoLanNoTable`) that no tunnel, known or about to be, is the line, and that there is no table without a LAN interface.
* `BypassCoveredHolds`: `CoverInv` is about each address that was registered, unless a reconcile waits that will take it over: a
  running apply has it in its script (`ScriptCovers`), else the kernel has it in its set (`TableCovers`), or a task that adds it is
  still to come; `ScriptWhole` says that a committed script is the table, with its addresses.
* `RegisterImplemented`: every step maps to a step of `RuleRegister` or to a stutter. `Fetched` is the abstract register's value
  under way; what remains is that a commit installs the rules of the running script and of nothing else.

`PolicyRoutingProofs` (any gateways, any finite set of checks): `InForceHolds` and `WaitsForTasksHolds`. `RoutingInv` says
that the last task does what the settings want (`LastTaskFits`), that what a running installation has arranged stays (`TaskArranges`),
that checks only ever refresh (`ChecksRefresh`), and that a waiting check has a task to wait for. The core is `NothingLost`: a refresh beside a
task takes away neither rule nor route.

`DnsRelayProofs` (any settings, any number of queries): `SettledAsToldHolds` and `NeverMixedHolds`. `SocketsKnown` says at each await
what the controller believes of its sockets, and `LastReconcileFits` that the running reconcile does what the settings of now want unless
another one waits; `NeverMixed` is inductive, because a query keeps the configuration it began with.

`ProviderProofs` (any providers and locations, any finite set of requests: `RequestsAssumption`): `FlagIsHeldHolds`, `ActiveOnlyHolds`
and `StoredIsConnectedHolds`. `Fits` ties what a request has seen to where it awaits. `OrderlyInv` says that
while requests come one after the other the one under way is about the selected provider, and that a switch which is about to leave it knows
that its connection has ended (`LeavesNothing`), and that a connect command which was left is the selected provider's (`LeftForActive`)
and beside no switch (`Apart`); `SmoothInv` which request will connect again or forget a stored location
(`WillSettle`), and that what a request has seen and its command has done are still so (`Tells`):
no command that was left may end after a request has seen the connection (`Undisturbed`, with the lemmas `LooksOn` and `NothingLeft`).

`VerificationProofs` (any numbers of verifications, names, addresses and attempts): `OneAtATimeHolds` and `PassIsTrueHolds`.
`JobIsTrue` says of every verification what it may know: the address of its tunnel is one that was seen while it ran, a result waits
only for the one check that runs, and a result of "pass" that is not shown yet is as true as one that is. `KeepKeeps` is the lemma that a
verification which is kept does not push out itself.

`SessionStateProofs` (any finite set of requests whose ids are not names of operations, any profile): `KnownIsRightHolds` and
`WithheldIsDeniedHolds`. The invariant is stronger than the properties at one point: what the running account command has read,
and each refusal that is not learned yet, is the account's or marked as overtaken (`ProbeIsRight`, `RefusalsAreRight`). `WithheldDenied` is the
lemma about `Available`: whatever it withholds is refused to the account that was read, or depends on a refusal that was learned. Each of the
two is then right or excused by name, for the reading (cache or running command) and for each refusal by itself; an answer that
withholds something because of anything else is a violation, also while something is overtaken.

`ProcessesProofs` is about the four parts of `Processes`; a section for each, and at its end `ProcessesSafe`, which says of the
composition what the sections say of its parts (`EachIsItself`: its behaviours are behaviours of each).

* `ExplicitProxy` (any finite set of processes, any configurations, any threshold): `TypeHolds`, `OneProxyHolds`, `ServesLatestHolds`,
  `NeverForgottenHolds` and `StopIsEnforcedHolds`. The inductive invariant is the conjunction of these properties with `ChildIsThere` (the
  current process has not been reported yet) and `FileIsReady` (what is wanted has been written); `IsKept` is `NeverForgotten` without the
  detour by the status. `OneProxy` needs `ChildIsThere` to start a new process only when the old one is gone; `ServesLatest` needs
  `FileIsReady` for the process that reads its file late.
* `SettingsSync` (any settings, notifications and numbers of attempts): `SettledAgreeHolds`. `SettledAgree` speaks of the moment when nothing is
  under way; `SyncInv` says what holds while notifications overtake each other. `NewestIsLast` follows the newest one: it is the last
  in line, before the relay or before the gateway, and once it is through, what it leaves behind has its settings. `RelayDone` and
  `GatewayDone` say that a task which nobody is going to repeat does what is wanted now, the latter
  also that what nft was asked is in force if it is believed to be, unless it was a teardown that failed. `Lines` ties the notifications to their places.
* `ClientIds` (any finite set of clients, any queries and sources, any bound of the cache): `NamesNeverMixedHolds`. `NamesInv` says that
  each entry of the cache is the identifier of its own client and that a query which waits does so for the lookup of its own client; `CacheKeeps`
  that a cache which is emptied when it is full stays within its bound.
* `CommandRunner` (any number of pieces, any moment of the match): `AnswerIsTrueHolds` and the action property `AnnouncedTrulyHolds`. `ReadIsAnswered`:
  a match that was read is answered, and when the exit code is given, all that was written has been read or the grace ended `early`. `AnnouncedOnce`: what is
  awaited in the background was not announced yet, and its answer has been given.

`ScreensProofs` is about the five parts of `Screens`, composed in `ScreensSafe`:

* `SettingsDialog`: `NeverStuckHolds`. `DialogInv` only says that every form which is read, edited or sent has all its items; the argument is
  `AlwaysAnInput`, a case for each input that may be missing.
* `VerificationPanel` (any number of checks, openings and verifications): `PanelIsTrueHolds`. `PanelIsTrue` says that what is shown as running is watched; to
  keep it, `OneWatch` says that it is watched once, by a timer or by a request and by one that follows what is shown, `OneStart` that one start
  of this opening is under way while the button is disabled, `NoneAhead` that no answer belongs to an opening to come.
* `Dashboard` (any providers, polls and events): the action property `NeverGoesBackHolds` from `DashboardInv`, whose core is
  `AnsweredSince`: a poll that is still heard was answered after the last operation. `ListNotOlderHolds` has the hypothesis `~Return`, because with
  `Return` the property is false (sections 3 and 6). `Stretches` is what `~Return` gives: each provider was active for one
  stretch of the history; `ListsFollow`: the list that is shown or asked for belongs to a stretch that is not before the one shown.
* `OperatorAccount` (any browsers, addresses, names, passwords and sessions): the action properties `AccountKeptHolds`, which is a fact about
  single steps (`AccountStep`), and `ThrownOutJustlyHolds`, which is not: a page is left because of an answer that was
  given earlier. `CheckFits` says that a check is under way on the dashboard only, in the name of the session of the moment, and is refused only if
  that is over; `PageFits` keeps the other requests and the form where they belong.
* `LineList` (any texts, any number of rows): the action property `RowsKeptHolds`. `RowsInv` is weak, the work is in the lemmas about lists: what
  a filter keeps, that it distributes over `\o`, and that filtering twice is filtering once. Induction theorems of the library take an
  operator and cannot be used here; `LeastNumber` takes their place, as the first-order fact that a set of numbers which is not empty has a least
  one, and `GrowsToAll` is what follows from it for sequences. `Keep` and `Drop` are written with the recursive function `Filtered`.

The assumptions on constants are those of the modules: that "none" values differ from real ones (`PanelAssumption`,
`DashboardAssumption`), that limits are numbers, that sets which are counted are finite.

The type invariants, `NeverForgotten` and `WaitsForTasks` are proved and no run repeats them: the proof covers every value of the
constants. The other invariants, and the inductive invariants with them, were first checked by TLC on the instances of section 3.

Every safety invariant and every action property of the passing runs is stated by a theorem. Only model-checked are the liveness
properties and what rests on `ENABLED`, which are out of the prover's reach: `Converges` (gateway, settings), `FollowsGateway`, `FollowsSettings`
(explicit proxy, relay), `Completes`, `Heals`, `NamesHeal`, `DetachedEnds`, `ShowsServer`. The three runs of section 3 that end in a
violation are counterexamples and stay so.

## 6. Where the code departs from its comments

Met while the models were written. The first three have a run that shows them. The others are behaviour of the models, which follow the
code; none of the checked properties claims what the comment says.

* **Restart** (`gateway-controller.ts:131`). `proxy/src/server.ts:302-306` says the rules of the previous process stay until the
  first notification. The first poll that finds a tunnel reconciles with the default settings and deletes the table: `GatewayRestart`.
* **Hidden inputs** (`SettingsDialog.tsx:175`). The comment says that missing input of a hidden tab does not prevent saving. With the relay
  off and the failure mode at "fallback" without servers the button is enabled, `settings-store.ts:207-209` answers 400, and the
  inputs that would put it right are hidden: `HiddenTabNeverBlocks`.
* **Opened anew** (`SettingsDialog.tsx:82-109`). `.kiro/specs/e2e-tests/requirements.md:154` says that the dialog shows what is saved. If the GET
  fails, it shows the edits of its last opening, ready to be saved: `ReopenShowsSaved`.
* `gateway-controller.ts:244`: a teardown sets `lastReconcileSucceeded` whatever nft returned, so it is not repeated, though `:84`
  says that a failed operation is. `SettledAgree` and `Converges` of the settings except the kernel then.
* `:156`: `getStatus` reports the previous result while a reconcile is pending or running; `:154-155` says it does not. `StatusIsTrue` speaks of an empty chain only.
* `:242`: the teardown clears the bypass set after its await; addresses registered meanwhile are forgotten (`bypass-set.ts:1-2`).
* `:229`: for an interface name that `isValidInterfaceName` refuses the promise chain stays rejected and nothing is applied any
  more; `connection-monitor.ts:44-46` says the next poll retries. `Settled` excludes this case.
* `connection-monitor.ts:24`: without a LAN interface every interface counts as a tunnel; `:15` says none does. With `WAN_IFACE`
  different from `LAN_IFACE` the line itself counts as one and the kill switch does not hold; the runs have one interface for both.
* `policy-routing.ts:79`: a route is taken for the wanted one if its text includes the gateway's, so 192.168.3.10 is kept for
  192.168.3.1. `FollowsGateway` allows exactly this.
* `:70`: `sync(false)` returns true and leaves a rule that an earlier process, or a refresh under way, installs.
* `verification/rule-audit.ts:67`: without a tunnel the check of the gateway names what becomes of LAN traffic from the settings, not
  from the rules. After an apply that failed it passes with "blocked (Kill Switch)" while former rules that open the line are in
  force; only the check of the kill switch sees it. `AuditsAgree` claims the text after a reconcile that succeeded.
* `listener.ts:101`: `stop` waits for every TCP connection; one that stays busy holds up every later notification, though
  `server.ts:199` says settings go on to be applied. `FollowsSettings` assumes that clients let go.
* `relay.ts:132`: forwarding in plain text leaves the upstream's state as it was; the comment at `dns-relay-controller.ts:19` counts every forwarding.
* `client-id.ts:83`: a lookup under way when the servers change is cached afterwards; `:81` says results are dropped. `Heals` says they expire.
* `proxy/src/server.ts:200`: the relay is closed before the redirect to it is removed; `:198` says the order keeps the redirect on a listening relay.
* `api/src/server.ts:35`: a repeated push at startup sends settings that newer ones have replaced, until the next resync.
* `provider-switcher.ts:97`: two switches may pass the check of the flag, which is set after an await; `:80` says the second is refused.
* `provider-switcher.ts:99`: a connect that began before the switch may come up after it; `:40` says no other vendor stays connected.
* `restore-connection.ts:76`: the restoration does not check the flag, which `apply-connection.ts:28` requires of callers.
* `apply-connection.ts:74`: a failed command leaves the former location stored; `:30` says it is cleared.
* `connection-state-store.ts:94`: a GET that asked before a connect deletes the location just stored.
* `exec-handler.ts:83`, `runner-forward.ts:43`: the runner goes on with a vendor command after a restart of the API or a lost answer. A
  connect that takes effect after a switch leaves another vendor connected (`provider-switcher.ts:40`); a disconnect that does so
  after the restoration has seen the connection leaves a location stored that is not connected. The last six are what
  `orderly` and `smooth` exclude.
* `command-runner.ts:196`: the timer may fire in the grace after the exit and answer -1; `:113` promises the real exit code. The grace
  is 50 ms and no more (`:73`): output that the child wrote before its exit and that is read later does not match, and the exit code is
  answered. `AnswerIsTrue` excepts exactly this.
* `command-runner.ts:205`: a child killed by its timeout is announced as a background end; `:204` speaks of matched commands only.
* `verification-service.ts:127`: an address submitted after the check gave up is "adopted" (`:122`) and never looked at.
* `session-probe.ts:84`, `session.ts:131`, `restriction-learner.ts:54`: an account command, a login by URL and a refusal that
  end after a login leave what the comments (`session-probe.ts:101`, `restriction-learner.ts:3`) say it drops. `overtaken` marks them.
* `restriction-learner.ts:54`: a refusal that was learned stays until the next login or logout; after a change of plan that the API does
  not see, what depends on it is withheld, though the account is read again every 30 s. `WithheldIsDenied` excepts refusals
  learned from before such a change, each for what depends on it.

Of the web UI, and of what it asks for:

* `login-rate-limiter.ts`: the limit is reached with the fifth failure; its comment says when there are more than five.
* `LoginPage.tsx:16`: a login is repeated when the network fails, also if only the answer was lost; the first session stays, as
  sessions end with a logout or a restart only (`session-store.ts:12`).
* `AuthContext.tsx:102`: a logout that the web server answers with 502 shows the login page while the session goes on; a
  late answer to a logout removes the cookie that a new login has set meanwhile.
* `AccountSettingsForm.tsx:16`: the name that `AuthContext` holds is not updated after a change, so the form opened again starts with
  the former one.
* `useLocations.ts:48`: a provider that was left and chosen again between two polls leaves the list of the other one, see `Return`.
* `useLocations.ts:31`: a list whose request ends after the capabilities have forbidden it stays in the state, where the comment
  says that it is empty; `App` does not show it then.
* `SettingsDialog.tsx`: a late success of a PUT closes a dialog that was opened again; a late GET of an earlier opening replaces what has been
  edited since.
* `useVerification.ts`: a poll that is answered other than 200 shows an error and is not repeated; the panel stays with it until closed.
  `VerificationPanel` knows one such answer, that the verification is forgotten; the others show the same error.
* `LineListEditor.tsx:158`: pressing the mouse on one of several selected rows selects it alone, so that several are dragged only
  with Ctrl held; ending an edit of a new, empty row with Ctrl leaves the id of the removed row in the selection.

## 7. Plan

1. Settings: the syntax of single items as an operator against a reference definition, and a write of the file that is cut off
   (also of the account file, which is written in the same way).
2. The gateway's checks that send traffic (egress, resolution, bypass), which compare values read at different moments.
3. Pure functions over bounded inputs: domain matcher, placeholder resolver, names of clients, capability evaluator.
4. An nft commit that comes after the time limit (`nft-client.ts:54`), in a variant of `GatewayController`.
5. `Dashboard` with favourites and the selection of a location, and with requests of one poll that are answered at different moments.
6. Proofs: the refinement between `SettingsSync` and the modules it holds reduced forms of.

## 8. Not modelled

* Themes, toasts and the components of the web UI that only render: no state that anything depends on.
* Of the settings dialog: the dialogs it opens, texts of the wrong form, which the API refuses one by one, and `loadedSettings`, which
  only decides on a note in the panel and on the address its browser asks. Of the editor of lists: the effect that replaces all rows when the list is set from outside.
* Of the login state: more than one check of a session at a time (its timer does not wait for the answer); the repetition of a login
  whose answer alone was lost (section 6), which only adds a session; and hashes, which are compared as the passwords they are made of.
* Of the dashboard: the moment between the answer to an operation and the effect of React that cancels the older polls
  (`usePolling.ts:59-71`), in which a poll may still be handled; `Performed` does both in one step.
* Favourites, UI preferences, audit log: files read and written in one callback, from which nothing is decided.
* Profiles and parsers of vendor output: their judgement is reduced to the outcomes that the other modules tell apart.
* DNS messages: parsers of byte strings.
* A host that does not forward packets and a relay that stopped, in `RuleAudit`: both only make a check fail. Cities of a vendor's
  list that cannot be read, in `ProviderConnection`: they are left out of the list and never seen again.
* TLS channels and forwarding: what is lost, late or repeated is part of the modules that call them.
* Installer, vendor images, deployment, tests and tools: not part of the running system, or run once on a host.
