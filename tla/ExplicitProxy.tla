--------------------------- MODULE ExplicitProxy ---------------------------
(***************************************************************************)
(* The controller of the explicit proxy                                    *)
(* (proxy/src/explicit-proxy/explicit-proxy-controller.ts) and the 3proxy  *)
(* processes it starts.  Every callback runs to its end before the next    *)
(* one; what interleaves are notifications, timers, and processes that     *)
(* read their configuration, die, and are reported dead some time later.   *)
(*                                                                         *)
(* Not here: restartCount, which is only reported, and the length of the   *)
(* delays (the backoff doubles from 1 s to at most 60 s).                  *)
(***************************************************************************)
EXTENDS Naturals, FiniteSets

CONSTANTS
  Configs,       \* configurations (allowed CIDRs and name server)
  BadConfigs,    \* those among them that buildExplicitProxyConfig refuses
  NoCidrs,       \* no allowed CIDR
  Procs,         \* process identities
  NoProc,
  Threshold,     \* crashLoopThreshold
  Crashes,       \* may a 3proxy end on its own?
  WriteFaults    \* may writing the configuration file fail?

ASSUME ProcsAssumption ==
  /\ IsFiniteSet(Procs)
  /\ NoProc \notin Procs
ASSUME ConfigsAssumption ==
  /\ BadConfigs \subseteq Configs
  /\ NoCidrs \notin Configs
  /\ {NoCidrs, "free", "starting", "dead", "echo"} \cap Configs = {}
ASSUME ThresholdAssumption == Threshold \in Nat \ {0}
ASSUME SwitchesAssumption  == Crashes \in BOOLEAN /\ WriteFaults \in BOOLEAN

Settings == [enabled : BOOLEAN, conf : Configs \cup {NoCidrs}]

VARIABLES
  settings,      \* the settings last notified
  hasApplied,    \* have settings been received
  configFailed,  \* the configuration file could not be made
  file,          \* the configuration on disk, NoCidrs if there is none
  child,         \* the current process
  expected,      \* processes that were asked to stop (expectedExits)
  restartTimer,  \* a restart is scheduled
  stableTimer,   \* the timer of the current process is armed
  ripe,          \* the current process is stableUptimeMs old
  killTimer,     \* the process to be killed, or NoProc
  failures,      \* consecutiveFailures, up to Threshold
  procs          \* what became of each process

control == <<settings, hasApplied, configFailed, file>>
timers  == <<restartTimer, stableTimer, killTimer>>
vars    == <<control, child, expected, timers, ripe, failures, procs>>

\* A process is started, reads its file, serves, and dies; the exit event,
\* and for some an error event as well, reach the controller later.
ProcStates == {"free", "starting", "dead", "echo"} \cup Configs

Alive(p)  == procs[p] \in Configs \cup {"starting"}
Unused(p) == procs[p] = "free"

IsRunnable(s) == s.enabled /\ s.conf # NoCidrs
Wanted        == IsRunnable(settings) /\ ~configFailed

Init ==
  /\ settings = [enabled |-> FALSE, conf |-> NoCidrs]
  /\ hasApplied = FALSE
  /\ configFailed = FALSE
  /\ file = NoCidrs
  /\ child = NoProc
  /\ expected = {}
  /\ restartTimer = FALSE
  /\ stableTimer = FALSE
  /\ ripe = FALSE
  /\ killTimer = NoProc
  /\ failures = 0
  /\ procs = [p \in Procs |-> "free"]

-----------------------------------------------------------------------------
(* Starting and stopping                                                   *)

\* ps: the processes after what the caller did to them.
StartChild(ps) ==
  \E p \in Procs :
    /\ ps[p] = "free"
    /\ child' = p
    /\ procs' = [ps EXCEPT ![p] = "starting"]
    /\ expected' = expected \ {p}
    /\ stableTimer' = TRUE
    /\ ripe' = FALSE

\* SIGTERM, and SIGKILL after killTimeoutMs.
StopChild ==
  /\ IF child = NoProc THEN UNCHANGED <<expected, killTimer>>
     ELSE expected' = expected \cup {child} /\ killTimer' = child
  /\ UNCHANGED <<child, procs, stableTimer, ripe>>

-----------------------------------------------------------------------------
(* Notifications                                                           *)

\* Mutant: a configuration that could not be written is not tried again.
UnchangedSettings(s) == hasApplied /\ s = settings

Unchanged(s) == hasApplied /\ ~configFailed /\ s = settings

\* Mutant: the new process is started while the old one is being stopped.
ReplaceAtOnce ==
  \E p \in Procs :
    /\ Unused(p)
    /\ child' = p
    /\ procs' = [procs EXCEPT ![p] = "starting"]
    /\ expected' = (expected \cup {child}) \ {p, NoProc}
    /\ stableTimer' = TRUE
    /\ ripe' = FALSE
    /\ killTimer' = child

\* A process that is there is stopped first; its exit event starts the next.
Replace ==
  \/ child # NoProc /\ StopChild
  \/ child = NoProc /\ StartChild(procs) /\ UNCHANGED killTimer

\* Mutant: the old process is kept when the new file cannot be written.
WriteFailsKeeping(s) ==
  /\ s.conf \in BadConfigs \/ WriteFaults
  /\ configFailed' = TRUE
  /\ UNCHANGED <<file, child, expected, killTimer, procs, stableTimer, ripe>>

WriteFails(s) ==
  /\ s.conf \in BadConfigs \/ WriteFaults
  /\ configFailed' = TRUE
  /\ StopChild
  /\ UNCHANGED file

WriteSucceeds(s) ==
  /\ s.conf \notin BadConfigs
  /\ configFailed' = FALSE
  /\ file' = s.conf
  /\ Replace

ApplySettings(s) ==
  /\ settings' = s
  /\ hasApplied' = TRUE
  /\ \/ /\ Unchanged(s)
        /\ UNCHANGED <<configFailed, file, child, expected, timers, ripe, failures, procs>>
     \/ /\ ~Unchanged(s)
        /\ failures' = 0
        /\ restartTimer' = FALSE
        /\ \/ ~IsRunnable(s) /\ configFailed' = FALSE /\ StopChild /\ UNCHANGED file
           \/ IsRunnable(s) /\ (WriteFails(s) \/ WriteSucceeds(s))

-----------------------------------------------------------------------------
(* Events of processes and timers                                          *)

\* The exit event of a process; an error event of the same one may follow.
Reported(p) == {[procs EXCEPT ![p] = st] : st \in IF procs[p] = "dead" THEN {"free", "echo"} ELSE {"free"}}

\* handleTermination for the current process that was asked to stop.
ExpectedExit(ps) ==
  /\ child \in expected
  /\ killTimer' = NoProc
  /\ \/ Wanted /\ StartChild(ps)
     \/ /\ ~Wanted
        /\ child' = NoProc /\ procs' = ps /\ stableTimer' = FALSE
        /\ UNCHANGED <<expected, ripe>>
  /\ UNCHANGED <<failures, restartTimer>>

\* handleTermination for the current process that was not.
Crash(ps) ==
  /\ child \notin expected
  /\ child' = NoProc /\ procs' = ps
  /\ stableTimer' = FALSE /\ killTimer' = NoProc
  /\ failures' = IF ripe THEN 1 ELSE IF failures < Threshold THEN failures + 1 ELSE failures
  /\ restartTimer' = TRUE
  /\ UNCHANGED <<expected, ripe>>

\* Mutant: which process the event is about is not compared.
AboutChildAny(p) == child # NoProc

AboutChild(p) == child = p

HandleTermination(p) ==
  /\ procs[p] \in {"dead", "echo"}
  /\ \E ps \in Reported(p) :
       \/ AboutChild(p) /\ (ExpectedExit(ps) \/ Crash(ps))
       \/ /\ ~AboutChild(p)
          /\ procs' = ps
          /\ UNCHANGED <<child, expected, timers, ripe, failures>>
  /\ UNCHANGED control

RestartFires ==
  /\ restartTimer
  /\ restartTimer' = FALSE
  /\ IF Wanted /\ child = NoProc THEN StartChild(procs)
     ELSE UNCHANGED <<child, procs, expected, stableTimer, ripe>>
  /\ UNCHANGED <<control, killTimer, failures>>

\* stableUptimeMs pass; the timer callback may come later than the exit event.
Ripen ==
  /\ child # NoProc /\ ~ripe
  /\ ripe' = TRUE
  /\ UNCHANGED <<control, child, expected, timers, failures, procs>>

StableFires ==
  /\ stableTimer /\ ripe
  /\ stableTimer' = FALSE
  /\ failures' = 0
  /\ UNCHANGED <<control, child, expected, restartTimer, killTimer, ripe, procs>>

KillFires ==
  /\ killTimer # NoProc
  /\ killTimer' = NoProc
  /\ procs' = IF Alive(killTimer) THEN [procs EXCEPT ![killTimer] = "dead"] ELSE procs
  /\ UNCHANGED <<control, child, expected, restartTimer, stableTimer, ripe, failures>>

-----------------------------------------------------------------------------
(* 3proxy                                                                  *)

LoadConfig(p) ==
  /\ procs[p] = "starting"
  /\ procs' = [procs EXCEPT ![p] = file]
  /\ UNCHANGED <<control, child, expected, timers, ripe, failures>>

\* It obeys SIGTERM, sooner or later, or it crashes.
Exit(p) ==
  /\ Alive(p)
  /\ p \in expected \/ Crashes
  /\ procs' = [procs EXCEPT ![p] = "dead"]
  /\ UNCHANGED <<control, child, expected, timers, ripe, failures>>

Next ==
  \/ \E s \in Settings : ApplySettings(s)
  \/ \E p \in Procs : HandleTermination(p)
  \/ RestartFires
  \/ Ripen
  \/ StableFires
  \/ KillFires
  \/ \E p \in Procs : LoadConfig(p)
  \/ \E p \in Procs : Exit(p)

Spec == Init /\ [][Next]_vars

-----------------------------------------------------------------------------
(* getStatus                                                               *)

State ==
  IF ~settings.enabled THEN "stopped"
  ELSE IF settings.conf = NoCidrs THEN "unconfigured"
  ELSE IF configFailed THEN "error"
  ELSE IF failures >= Threshold THEN "crashLoop"
  ELSE "active"

(***************************************************************************)
(* Properties                                                              *)
(***************************************************************************)

TypeOK ==
  /\ settings \in Settings
  /\ hasApplied \in BOOLEAN
  /\ configFailed \in BOOLEAN
  /\ file \in Configs \cup {NoCidrs}
  /\ child \in Procs \cup {NoProc}
  /\ expected \subseteq Procs
  /\ restartTimer \in BOOLEAN
  /\ stableTimer \in BOOLEAN
  /\ ripe \in BOOLEAN
  /\ killTimer \in Procs \cup {NoProc}
  /\ failures \in 0 .. Threshold
  /\ procs \in [Procs -> ProcStates]

\* At most one 3proxy is alive, and it is the one the controller knows: the
\* next one is only started when the ports are free again (line 167).
OneProxy == \A p \in Procs : Alive(p) => p = child

\* A process that is left running serves the settings last notified: it was
\* started from a file that no later notification has overtaken.
ServesLatest ==
  \A p \in Procs : Alive(p) /\ p \notin expected =>
    /\ Wanted /\ file = settings.conf
    /\ procs[p] \in {"starting", settings.conf}

\* A status of active or crashLoop is never said of a proxy that nobody will
\* start again: there is a process or a restart is scheduled (line 18).
NeverForgotten ==
  State \in {"active", "crashLoop"} => child # NoProc \/ restartTimer

\* A process that was asked to stop, and is still alive, will be killed by
\* the timer: it is not disarmed by the exit of another process nor left to
\* one that has exited (lines 246-250).
StopIsEnforced ==
  \A p \in expected : Alive(p) => killTimer = p

-----------------------------------------------------------------------------
(* Liveness: the API notifies again every 10 s, timers fire, exit events   *)
(* are delivered and a started process reads its file.                     *)

Fairness ==
  /\ WF_vars(ApplySettings(settings) /\ hasApplied)
  /\ \A p \in Procs : WF_vars(HandleTermination(p))
  /\ \A p \in Procs : WF_vars(LoadConfig(p))
  /\ WF_vars(RestartFires) /\ WF_vars(Ripen) /\ WF_vars(StableFires)
  /\ WF_vars(KillFires)

FairSpec == Spec /\ Fairness

Serving == \E p \in Procs : procs[p] = settings.conf
Gone    == \A p \in Procs : ~Alive(p)

\* What has to stop: new settings, failing writes, and processes that end
\* without having been asked to.
Disturbance ==
  \/ settings' # settings
  \/ ~configFailed /\ configFailed'
  \/ \E p \in Procs : p \notin expected /\ Alive(p) /\ procs'[p] = "dead"

\* Once the disturbances end the proxy follows the settings for good: enabled
\* settings that can be written are served and reported active, a write that
\* failed having been tried again, and otherwise every process is gone (lines
\* 127-172 and 259-293).
Servable == IsRunnable(settings) /\ settings.conf \notin BadConfigs
Follows ==
  hasApplied =>
    /\ Servable => Serving /\ State = "active"
    /\ ~Servable => Gone
FollowsSettings == <>[][~Disturbance]_vars => <>[]Follows
=============================================================================
