------------------------------ MODULE Screens ------------------------------
(***************************************************************************)
(* The parts of the web UI and of what they ask the API for, side by side: *)
(* the parts share nothing, so that in each behaviour one of them moves    *)
(* and the others rest in an initial state.                                *)
(***************************************************************************)
EXTENDS Naturals

CONSTANTS
  None,                                                     \* nothing, not known
  Browsers, Addresses, AddressOf, Names, Passwords,         \* of OperatorAccount
  SessionIds, MaxFailures, Uses,
  Providers, Polls, MaxEvents, Return,                      \* of Dashboard
  Editable, LanKnown, MaxElsewhere,                         \* of SettingsDialog
  Steps, MaxJobs,                                           \* of VerificationPanel
  MaxOpenings,                                              \* of both dialogs
  Texts, Empty, MaxItems, MaxRows                           \* of LineList

VARIABLES part,
  account, sessions, recent, rebootFile, screen, shown, cookie, form, call, use,
  history, poll, told, hook, load, list, visible, operation, floor, failures,
  saved, open, opening, isLoading, gets, settings, put, elsewhere, since, touched,
  latest, steps, forgotten, active, generation, verification, isStarting, alarm, timer, posts, polls,
  rows, text, rowSequence, selected, anchor, cursor, editing, original, dragging

A == INSTANCE OperatorAccount
D == INSTANCE Dashboard WITH Unknown <- None
S == INSTANCE SettingsDialog
V == INSTANCE VerificationPanel
L == INSTANCE LineList

ASSUME PartsAssumption ==
  /\ A!OperatorAssumption /\ D!DashboardAssumption /\ S!DialogAssumption
  /\ V!PanelAssumption /\ L!LineListAssumption

\* Each with the variables of the others.
accountVars   == <<account, sessions, recent, rebootFile, screen, shown, cookie, form, call, use>>
dashboardVars == <<history, poll, told, hook, load, list, visible, operation, floor, failures>>
dialogVars    == <<saved, open, opening, isLoading, gets, settings, put, elsewhere, since, touched>>
panelVars     == <<latest, steps, forgotten, active, generation, verification, isStarting, alarm, timer,
                   posts, polls>>
listVars      == <<rows, text, rowSequence, selected, anchor, cursor, editing, original, dragging>>

Parts == {"account", "dashboard", "dialog", "panel", "list"}

Init ==
  /\ part \in Parts
  /\ A!Init /\ D!Init /\ S!Init /\ V!Init /\ L!Init
  /\ part # "account" => use = CHOOSE u \in Uses : TRUE
  /\ history[1].provider = CHOOSE v \in Providers : TRUE
  /\ part # "dashboard" => history[1].listable /\ hook = "useLocations"
  /\ part # "dialog" => ~saved["relay"]  /\ ~saved["upstream"]
  /\ part # "list" => rows = <<>>

Next ==
  /\ UNCHANGED part
  /\ \/ /\ part = "account" /\ A!Next
        /\ UNCHANGED <<dashboardVars, dialogVars, panelVars, listVars>>
     \/ /\ part = "dashboard" /\ D!Next /\ UNCHANGED hook
        /\ UNCHANGED <<accountVars, dialogVars, panelVars, listVars>>
     \/ /\ part = "dialog" /\ S!Next
        /\ UNCHANGED <<accountVars, dashboardVars, panelVars, listVars>>
     \/ /\ part = "panel" /\ V!Next
        /\ UNCHANGED <<accountVars, dashboardVars, dialogVars, listVars>>
     \/ /\ part = "list" /\ L!Next
        /\ UNCHANGED <<accountVars, dashboardVars, dialogVars, panelVars>>

vars == <<part, accountVars, dashboardVars, dialogVars, panelVars, listVars>>

Spec == Init /\ [][Next]_vars /\ D!Fairness

\* Nobody sets up a second account, nor changes it without its password, see OperatorAccount.
AccountKept == A!AccountKept

\* Nobody with a live session is sent to the login page, see OperatorAccount.
ThrownOutJustly == A!ThrownOutJustly

\* No list of an earlier provider is shown under a later one, see Dashboard.
ListNotOlder == D!ListNotOlder

\* What is from before an operation is not shown after it, see Dashboard.
NeverGoesBack == D!NeverGoesBack

\* A tab at rest comes to show what the server has, see Dashboard.
ShowsServer == D!ShowsServer

\* An input that is missed can be put right, see SettingsDialog.
NeverStuck == S!NeverStuck

\* What is shown of a verification is of this opening and watched, see VerificationPanel.
PanelIsTrue == V!PanelIsTrue

\* Rows that are not concerned stay as they are, see LineList.
RowsKept == L!RowsKept
=============================================================================
