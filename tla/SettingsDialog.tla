--------------------------- MODULE SettingsDialog ---------------------------
(***************************************************************************)
(* The dialog in which a tab of the web UI edits the settings              *)
(* (web SettingsDialog.tsx) and the API's file of them, with the checks    *)
(* between its items (api settings-store.ts).  The dialog is opened and    *)
(* closed at any time; what it has asked for goes on, and is answered in   *)
(* any order.                                                              *)
(*                                                                         *)
(* An item of the settings is a switch, or a text or list of which it      *)
(* matters only whether it is empty.  A text of the wrong form, which the  *)
(* API refuses by itself, is left out.                                     *)
(***************************************************************************)
EXTENDS Naturals

CONSTANTS
  Editable,      \* the items that differ from those of a new installation at all
  LanKnown,      \* is the network of the LAN known, as the default of "cidr"?
  None,          \* not loaded (undefined)
  MaxOpenings,   \* bound: times the dialog is opened
  MaxElsewhere   \* bound: times another tab saves

Items == {"transparent", "proxy", "cidr", "relay", "upstream", "fallback", "servers", "echo"}

\* What an instance has to satisfy.
DialogAssumption ==
  /\ Editable \subseteq Items /\ LanKnown \in BOOLEAN
  /\ MaxOpenings \in Nat /\ MaxElsewhere \in Nat

VARIABLES
  saved,         \* the API's file
  open, opening, \* is the dialog open, and how often was it?
  isLoading,
  gets,          \* GETs under way, by the opening that asked
  settings,      \* the form
  put,           \* the PUT under way (isSaving)
  elsewhere,     \* times another tab has saved
  since,         \* ghost: what was in the file since the dialog was opened
  touched        \* ghost: did the user edit anything since?

dialog == <<open, opening, isLoading, settings>>
ghosts == <<elsewhere, since, touched>>
settingsDialogVars == <<saved, dialog, gets, put, ghosts>>

Openings == 1 .. MaxOpenings
NewInstallation == [i \in Items |-> i \in {"transparent", "echo"}]
Settings == {s \in [Items -> BOOLEAN] : \A i \in Items \ Editable : s[i] = NewInstallation[i]}
Idle == [phase |-> "none"]

-----------------------------------------------------------------------------
(* What may be saved                                                       *)

\* updateSettings: what the items require of each other.
Accepts(s) ==
  /\ s["transparent"] \/ s["proxy"]
  /\ s["relay"] => s["upstream"] \/ s["servers"]
  /\ s["fallback"] => s["servers"]
  /\ s["echo"]

Tabs == {"gateway", "dnsResolver", "dnsDetail", "verify"}

VisibleTabs(s) == {t \in Tabs : t # "dnsDetail" \/ s["relay"]}

\* The inputs of each tab that are shown and not disabled; at least one of the modes
\* stays on.
If(condition, inputs) == IF condition THEN inputs ELSE {}

GatewayInputs(s) ==
  If(~(s["transparent"] /\ ~s["proxy"]), {"transparent"})
  \cup If(~(s["proxy"] /\ ~s["transparent"]), {"proxy"}) \cup If(s["proxy"], {"cidr"})

ResolverInputs(s) == {"relay"} \cup If(s["relay"], {"upstream"})
DetailInputs(s)   == {"fallback"} \cup If(s["fallback"], {"servers"})

Inputs(s) ==
  GatewayInputs(s) \cup ResolverInputs(s) \cup {"echo"}
  \cup If("dnsDetail" \in VisibleTabs(s), DetailInputs(s))

\* Mutant: the fallback servers are missed also while their tab is hidden.
IncompleteHidden(s) ==
  {t \in Tabs :
     \/ t = "gateway" /\ s["proxy"] /\ ~s["cidr"]
     \/ t = "dnsResolver" /\ s["relay"] /\ ~s["upstream"] /\ ~s["servers"]
     \/ t = "dnsDetail" /\ s["fallback"] /\ ~s["servers"]
     \/ t = "verify" /\ ~s["echo"]}

\* tabHasIncompleteInput; the button that saves is disabled while there is any.
Incomplete(s) ==
  {t \in Tabs :
     \/ t = "gateway" /\ s["proxy"] /\ ~s["cidr"]
     \/ t = "dnsResolver" /\ s["relay"] /\ ~s["upstream"] /\ ~s["servers"]
     \/ t = "dnsDetail" /\ s["relay"] /\ s["fallback"] /\ ~s["servers"]
     \/ t = "verify" /\ ~s["echo"]}

Edited(s, i) == [s EXCEPT ![i] = ~@]

-----------------------------------------------------------------------------
Init ==
  /\ saved \in {s \in Settings : Accepts(s)}
  /\ open = FALSE /\ opening = 0 /\ isLoading = FALSE /\ settings = None
  /\ gets = [o \in Openings |-> Idle] /\ put = Idle
  /\ elsewhere = 0 /\ since = {} /\ touched = FALSE

\* The effect of [open].
Open ==
  /\ ~open /\ opening < MaxOpenings
  /\ open' = TRUE /\ opening' = opening + 1 /\ isLoading' = TRUE
  /\ gets' = [gets EXCEPT ![opening'] = [phase |-> "asked"]]
  /\ since' = {saved} /\ touched' = FALSE
  /\ UNCHANGED <<saved, settings, put, elsewhere>>

\* Cancel, or the Escape key, which works while the settings are being saved, too.
Close ==
  /\ open /\ open' = FALSE
  /\ UNCHANGED <<saved, opening, isLoading, gets, settings, put, ghosts>>

\* GET /v1/connection/config.
AnswerGet(o) ==
  /\ gets[o].phase = "asked"
  /\ \E phase \in {"read", "failed"} :
       gets' = [gets EXCEPT ![o] = [phase |-> phase, answer |-> saved]]
  /\ UNCHANGED <<saved, dialog, put, ghosts>>

\* The network of the LAN is proposed in the place of an empty list.
Presented(s) == [s EXCEPT !["cidr"] = @ \/ LanKnown]

\* It is not looked at which opening the answer belongs to; after a failure the form
\* has what it had before.
Loaded(o) ==
  /\ gets[o].phase \in {"read", "failed"}
  /\ settings' = IF gets[o].phase = "failed" THEN settings ELSE Presented(gets[o].answer)
  /\ isLoading' = FALSE
  /\ gets' = [gets EXCEPT ![o] = Idle]
  /\ UNCHANGED <<saved, open, opening, put, ghosts>>

FormShown == open /\ ~isLoading /\ settings # None

Edit(i) ==
  /\ FormShown /\ i \in Editable \cap Inputs(settings)
  /\ settings' = Edited(settings, i)
  /\ touched' = TRUE
  /\ UNCHANGED <<saved, open, opening, isLoading, gets, put, elsewhere, since>>

\* handleSave: all items are sent.
Save ==
  /\ FormShown /\ put = Idle /\ Incomplete(settings) = {}
  /\ put' = [phase |-> "asked", body |-> settings]
  /\ UNCHANGED <<saved, dialog, gets, ghosts>>

\* PUT /v1/connection/config; the answer, or the request, may be lost.
AnswerPut ==
  /\ put.phase = "asked"
  /\ \/ /\ Accepts(put.body)
        /\ saved' = put.body /\ since' = since \cup {saved'}
        /\ \E phase \in {"saved", "failed"} : put' = [put EXCEPT !.phase = phase]
     \/ /\ \/ put' = [put EXCEPT !.phase = "failed"]
           \/ ~Accepts(put.body) /\ put' = [put EXCEPT !.phase = "refused"]
        /\ UNCHANGED <<saved, since>>
  /\ UNCHANGED <<dialog, gets, elsewhere, touched>>

\* A success closes the dialog, also if that was opened anew meanwhile.
Saved ==
  /\ put.phase \in {"saved", "refused", "failed"}
  /\ open' = (open /\ put.phase # "saved")
  /\ put' = Idle
  /\ UNCHANGED <<saved, opening, isLoading, settings, gets, ghosts>>

\* Another tab saves settings.
SaveElsewhere(s) ==
  /\ elsewhere < MaxElsewhere /\ elsewhere' = elsewhere + 1
  /\ Accepts(s) /\ s # saved
  /\ saved' = s /\ since' = since \cup {s}
  /\ UNCHANGED <<dialog, gets, put, touched>>

Next ==
  \/ Open \/ Close
  \/ \E o \in Openings : AnswerGet(o) \/ Loaded(o)
  \/ \E i \in Items : Edit(i)
  \/ Save \/ AnswerPut \/ Saved
  \/ \E s \in Settings : SaveElsewhere(s)

Spec == Init /\ [][Next]_settingsDialogVars

-----------------------------------------------------------------------------
(* Properties                                                              *)

\* Whatever the form shows, each input that is missed can be put right by an input
\* that is shown and not disabled, so that a hidden tab or a disabled list never keeps
\* the user from saving (SettingsDialog.tsx:175-176).
NeverStuck ==
  FormShown =>
    \A t \in Incomplete(settings) :
      \E i \in Inputs(settings) : t \notin Incomplete(Edited(settings, i))

\* If the API refuses what the dialog let the user save, an input that is shown can put
\* it right: the inputs of a hidden tab do not keep the user from saving
\* (SettingsDialog.tsx:175-176).
HiddenTabNeverBlocks ==
  put.phase = "refused" => \E i \in Inputs(put.body) : Accepts(Edited(put.body, i))

\* The dialog, opened anew, shows what is saved (.kiro/specs/e2e-tests/requirements.md:154)
\* as long as the user has not edited anything.
ReopenShowsSaved ==
  FormShown /\ ~touched => \E s \in since : settings = Presented(s)
=============================================================================
