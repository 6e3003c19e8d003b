--------------------------- MODULE ScreensProofs ---------------------------
(***************************************************************************)
(* Proofs about the components that Screens puts side by side, for any     *)
(* number of browsers, accounts, sessions, polls, rows, dialogs that are   *)
(* opened and verifications: an account that only its owner changes, a     *)
(* dashboard that never goes back, dialogs that are true and never get     *)
(* stuck, and rows that stay where nobody moves them.                      *)
(***************************************************************************)
EXTENDS Screens, Sequences, SequenceTheorems, WellFoundedInduction, TLAPS

-----------------------------------------------------------------------------
(* SettingsDialog                                                          *)

Forms   == [S!Items -> BOOLEAN]
GetStates == {S!Idle} \cup [phase : {"asked"}] \cup [phase : {"read", "failed"}, answer : Forms]
PutStates == {S!Idle} \cup [phase : {"asked", "saved", "failed", "refused"}, body : Forms]

\* Every form that is read, edited, sent or shown has all the items.
DialogInv ==
  /\ saved \in Forms
  /\ settings # None => settings \in Forms
  /\ gets \in [S!Openings -> GetStates]
  /\ put \in PutStates

LEMMA DialogInit == S!Init => DialogInv
<1> SUFFICES ASSUME S!Init
             PROVE  DialogInv
  OBVIOUS
<1>1. saved \in Forms
  BY DEF S!Init, S!Settings, Forms
<1>2. gets \in [S!Openings -> GetStates] /\ put \in PutStates
  BY DEF S!Init, GetStates, PutStates
<1>3. settings = None
  BY DEF S!Init
<1> QED
  BY <1>1, <1>2, <1>3 DEF DialogInv

LEMMA DialogStep ==
  ASSUME DialogInv, [S!Next]_(S!settingsDialogVars)
  PROVE  DialogInv'
<1> USE DEF DialogInv, S!dialog, S!ghosts
<1>1. CASE S!Open
  <2>1. gets' = [gets EXCEPT ![opening'] = [phase |-> "asked"]] /\ UNCHANGED <<saved, settings, put>>
    BY <1>1 DEF S!Open
  <2>2. [phase |-> "asked"] \in GetStates
    BY DEF GetStates
  <2> QED
    BY <2>1, <2>2
<1>2. CASE S!Close
  BY <1>2 DEF S!Close
<1>3. ASSUME NEW o \in S!Openings, S!AnswerGet(o)
      PROVE  DialogInv'
  <2>1. PICK phase \in {"read", "failed"} : gets' = [gets EXCEPT ![o] = [phase |-> phase, answer |-> saved]]
    BY <1>3 DEF S!AnswerGet
  <2>2. [phase |-> phase, answer |-> saved] \in GetStates
    BY DEF GetStates
  <2>3. UNCHANGED <<saved, settings, put>>
    BY <1>3 DEF S!AnswerGet
  <2> QED
    BY <2>1, <2>2, <2>3
<1>4. ASSUME NEW o \in S!Openings, S!Loaded(o)
      PROVE  DialogInv'
  <2>1. /\ gets[o].phase \in {"read", "failed"} /\ UNCHANGED <<saved, put>>
        /\ settings' = (IF gets[o].phase = "failed" THEN settings ELSE S!Presented(gets[o].answer))
        /\ gets' = [gets EXCEPT ![o] = S!Idle]
    BY <1>4 DEF S!Loaded
  <2>2. gets[o].answer \in Forms
    BY <2>1 DEF GetStates, S!Idle
  <2>3. S!Presented(gets[o].answer) \in Forms
    <3>1. LanKnown \in BOOLEAN
      BY PartsAssumption DEF S!DialogAssumption
    <3> QED
      BY <2>2, <3>1 DEF S!Presented, Forms
  <2>4. gets' \in [S!Openings -> GetStates]
    BY <2>1 DEF GetStates
  <2> QED
    BY <2>1, <2>3, <2>4
<1>5. ASSUME NEW i \in S!Items, S!Edit(i)
      PROVE  DialogInv'
  <2>1. settings \in Forms /\ settings' = S!Edited(settings, i) /\ UNCHANGED <<saved, put, gets>>
    BY <1>5 DEF S!Edit, S!FormShown
  <2>2. settings' \in Forms
    BY <2>1 DEF S!Edited, Forms
  <2> QED
    BY <2>1, <2>2
<1>6. CASE S!Save
  <2>1. settings \in Forms /\ put' = [phase |-> "asked", body |-> settings] /\ UNCHANGED <<saved, settings, gets>>
    BY <1>6 DEF S!Save, S!FormShown
  <2>2. put' \in PutStates
    BY <2>1 DEF PutStates
  <2> QED
    BY <2>1, <2>2
<1>7. CASE S!AnswerPut
  <2>1. put \in [phase : {"asked", "saved", "failed", "refused"}, body : Forms] /\ UNCHANGED <<settings, gets>>
    BY <1>7 DEF S!AnswerPut, PutStates, S!Idle
  <2>2. PICK phase \in {"saved", "failed", "refused"} : put' = [put EXCEPT !.phase = phase]
    BY <1>7 DEF S!AnswerPut
  <2>3. put' \in PutStates
    BY <2>1, <2>2 DEF PutStates
  <2>4. saved' \in Forms
    BY <1>7, <2>1 DEF S!AnswerPut
  <2> QED
    BY <2>1, <2>3, <2>4
<1>8. CASE S!Saved
  BY <1>8 DEF S!Saved, PutStates
<1>9. ASSUME NEW s \in S!Settings, S!SaveElsewhere(s)
      PROVE  DialogInv'
  BY <1>9 DEF S!SaveElsewhere, S!Settings, Forms
<1>10. CASE UNCHANGED S!settingsDialogVars
  BY <1>10 DEF S!settingsDialogVars
<1> QED
  BY <1>1, <1>2, <1>3, <1>4, <1>5, <1>6, <1>7, <1>8, <1>9, <1>10 DEF S!Next

\* For each tab that misses an input there is one that is shown: the tab of the fallback
\* servers is shown whenever these are missed, and the list of the addresses is enabled.
LEMMA AlwaysAnInput ==
  ASSUME NEW s \in Forms, NEW t \in S!Incomplete(s)
  PROVE  \E i \in S!Inputs(s) : t \notin S!Incomplete(S!Edited(s, i))
<1> USE DEF S!Inputs, S!If, S!Incomplete, S!Edited, Forms
<1>0. \A i, j \in S!Items : [s EXCEPT ![i] = ~s[i]][j] = IF j = i THEN ~s[i] ELSE s[j]
  OBVIOUS
<1>1. CASE t = "gateway"
  <2>1. "cidr" \in S!Inputs(s) /\ ~s["cidr"]
    BY <1>1 DEF S!GatewayInputs
  <2>2. t \notin S!Incomplete(S!Edited(s, "cidr"))
    BY <1>0, <1>1, <2>1 DEF S!Items
  <2> QED
    BY <2>1, <2>2
<1>2. CASE t = "dnsResolver"
  <2>1. "upstream" \in S!Inputs(s) /\ ~s["upstream"]
    BY <1>2 DEF S!ResolverInputs
  <2>2. t \notin S!Incomplete(S!Edited(s, "upstream"))
    BY <1>0, <1>2, <2>1 DEF S!Items
  <2> QED
    BY <2>1, <2>2
<1>3. CASE t = "dnsDetail"
  <2>1. "servers" \in S!Inputs(s) /\ ~s["servers"]
    BY <1>3 DEF S!DetailInputs, S!VisibleTabs, S!Tabs
  <2>2. t \notin S!Incomplete(S!Edited(s, "servers"))
    BY <1>0, <1>3, <2>1 DEF S!Items
  <2> QED
    BY <2>1, <2>2
<1>4. CASE t = "verify"
  <2>1. "echo" \in S!Inputs(s) /\ ~s["echo"]
    BY <1>4
  <2>2. t \notin S!Incomplete(S!Edited(s, "echo"))
    BY <1>0, <1>4, <2>1 DEF S!Items
  <2> QED
    BY <2>1, <2>2
<1> QED
  BY <1>1, <1>2, <1>3, <1>4 DEF S!Tabs

\* Whatever is read, edited or saved by others meanwhile, an input that the form misses can
\* be given in a field that is shown and enabled (SettingsDialog.tsx:175-176).
THEOREM NeverStuckHolds == S!Spec => []NeverStuck
<1>1. S!Init => DialogInv
  BY DialogInit
<1>2. DialogInv /\ [S!Next]_(S!settingsDialogVars) => DialogInv'
  BY DialogStep
<1>3. DialogInv => NeverStuck
  BY AlwaysAnInput DEF DialogInv, NeverStuck, S!NeverStuck, S!FormShown
<1> QED
  BY <1>1, <1>2, <1>3, PTL DEF S!Spec

-----------------------------------------------------------------------------
(* VerificationPanel                                                       *)

PanelRequests == [id : Nat, from : Nat, answer : {"asked", "started", "failed", "busy", "notFound", "found"},
                  done : Nat]
Watches       == [id : Nat, from : Nat]
Verifications == [id : Nat, done : Nat, from : Nat]

PanelType ==
  /\ latest \in Nat /\ steps \in Nat /\ generation \in Nat
  /\ isStarting \in BOOLEAN /\ alarm \in BOOLEAN
  /\ verification \in Verifications \cup {None}
  /\ timer \in Watches \cup {None}
  /\ posts \subseteq PanelRequests /\ polls \subseteq PanelRequests

\* No request is of an opening to come.
NoneAhead == \A r \in posts \cup polls : r.from <= generation

\* Of this opening there is one request to start at most, and that while it is waited for.
OneStart ==
  /\ \A r, s \in posts : r.from = generation /\ s.from = generation => r = s
  /\ (\E r \in posts : r.from = generation) <=> isStarting

\* What is shown as running is followed by one thing at most, a timer or a request, and
\* that follows what is shown.
Follows(id) == verification # None /\ verification.id = id /\ verification.done < Steps /\ ~isStarting

OneWatch ==
  /\ \A r, s \in polls : r.from = generation /\ s.from = generation => r = s
  /\ \A r \in polls : r.from = generation => Follows(r.id) /\ timer = None
  /\ timer # None => Follows(timer.id) /\ timer.from = generation

PanelInv == PanelType /\ NoneAhead /\ OneStart /\ OneWatch /\ PanelIsTrue

LEMMA PanelInit == V!Init => PanelInv
<1> SUFFICES ASSUME V!Init
             PROVE  PanelInv
  OBVIOUS
<1> USE PartsAssumption DEF V!Init, V!PanelAssumption
<1>1. PanelType
  BY DEF PanelType
<1>2. NoneAhead /\ OneStart /\ OneWatch
  BY DEF NoneAhead, OneStart, OneWatch
<1>3. PanelIsTrue
  BY DEF PanelIsTrue, V!PanelIsTrue, V!ResultsOfThisOpening, V!WatchedOrTold, V!Running
<1> QED
  BY <1>1, <1>2, <1>3 DEF PanelInv


LEMMA PanelStep ==
  ASSUME PanelInv, [V!Next]_(V!panelVars)
  PROVE  PanelInv'
<1> USE DEF PanelInv, V!server, V!shownVars
<1>0. /\ Steps \in Nat /\ Steps > 0
      /\ \A w \in Watches \cup Verifications : w # None
  BY PartsAssumption DEF V!PanelAssumption, Watches, Verifications
<1> USE DEF PanelIsTrue, V!PanelIsTrue, V!ResultsOfThisOpening, V!WatchedOrTold, V!Running
<1>1. CASE V!StartElsewhere \/ V!Progress \/ V!Restart
  <2>1. UNCHANGED <<generation, verification, isStarting, alarm, timer, posts, polls>>
    BY <1>1 DEF V!StartElsewhere, V!Progress, V!Restart
  <2>2. latest' \in Nat /\ steps' \in Nat
    BY <1>0, <1>1 DEF V!StartElsewhere, V!Progress, V!Restart, V!NewJob, PanelType
  <2>3. PanelType'
    BY <2>1, <2>2 DEF PanelType
  <2>4. NoneAhead' /\ OneStart' /\ OneWatch'
    BY <2>1 DEF NoneAhead, OneStart, OneWatch, Follows
  <2>5. PanelIsTrue'
    BY <2>1 DEF V!Scheduled
  <2> QED
    BY <2>3, <2>4, <2>5
<1>2. ASSUME NEW p \in posts, V!AnswerPost(p)
      PROVE  PanelInv'
  <2>0. UNCHANGED <<generation, verification, isStarting, alarm, timer, polls>> /\ p \in PanelRequests
    BY <1>2 DEF V!AnswerPost, PanelType
  <2>1. PICK answer \in {"started", "failed", "busy"}, id \in Nat :
          posts' = (posts \ {p}) \cup {[p EXCEPT !.answer = answer, !.id = id]}
    <3>1. CASE V!NewJob /\ \E answer \in {"started", "failed"} : posts' = V!Answered(posts, p, answer, latest')
      <4>1. latest' \in Nat
        BY <3>1 DEF V!NewJob, PanelType
      <4> QED
        BY <3>1, <4>1 DEF V!Answered
    <3>2. CASE \E answer \in {"failed", "busy"} : posts' = V!Answered(posts, p, answer, 0)
      BY <3>2 DEF V!Answered
    <3> QED
      BY <1>2, <3>1, <3>2 DEF V!AnswerPost
  <2>2. latest' \in Nat /\ steps' \in Nat
    BY <1>2, <1>0 DEF V!AnswerPost, V!NewJob, PanelType
  <2> DEFINE r == [p EXCEPT !.answer = answer, !.id = id]
  <2>3. r \in PanelRequests /\ r.from = p.from
    BY <2>0 DEF PanelRequests
  <2>4. posts' = (posts \ {p}) \cup {r}
    BY <2>1
  <2> HIDE DEF r
  <2>5. PanelType'
    BY <2>0, <2>2, <2>3, <2>4 DEF PanelType
  <2>6. NoneAhead'
    BY <2>0, <2>3, <2>4 DEF NoneAhead
  <2>7. OneStart'
    BY <2>0, <2>3, <2>4 DEF OneStart
  <2>8. OneWatch'
    BY <2>0 DEF OneWatch, Follows
  <2>9. PanelIsTrue'
    BY <2>0, <2>3, <2>4, <2>7 DEF OneStart, V!Scheduled
  <2> QED
    BY <2>5, <2>6, <2>7, <2>8, <2>9
<1>3. ASSUME NEW p \in polls, V!AnswerPoll(p)
      PROVE  PanelInv'
  <2>0. UNCHANGED <<latest, steps, generation, verification, isStarting, alarm, timer, posts>>
        /\ p \in PanelRequests
    BY <1>3 DEF V!AnswerPoll, PanelType
  <2>1. PICK answer \in {"notFound", "found", "failed"} :
          polls' = (polls \ {p}) \cup
                   {[p EXCEPT !.answer = answer, !.done = IF p.id = latest THEN steps ELSE Steps]}
    BY <1>3 DEF V!AnswerPoll
  <2> DEFINE done == IF p.id = latest THEN steps ELSE Steps
             r == [p EXCEPT !.answer = answer, !.done = done]
  <2>2. done \in Nat
    BY <1>0 DEF PanelType
  <2>3. polls' = (polls \ {p}) \cup {r}
    BY <2>1
  <2> HIDE DEF done
  <2>4. r \in PanelRequests /\ r.from = p.from /\ r.id = p.id
    BY <2>0, <2>2 DEF PanelRequests
  <2> HIDE DEF r
  <2>5. PanelType'
    BY <2>0, <2>3, <2>4 DEF PanelType
  <2>6. NoneAhead'
    BY <2>0, <2>3, <2>4 DEF NoneAhead
  <2>7. OneStart'
    BY <2>0 DEF OneStart
  <2>8. OneWatch'
    BY <2>0, <2>3, <2>4 DEF OneWatch, Follows
  <2>9. PanelIsTrue'
    BY <2>0, <2>3, <2>4 DEF V!Scheduled
  <2> QED
    BY <2>5, <2>6, <2>7, <2>8, <2>9
<1>4. CASE V!OpenDialog
  <2>1. UNCHANGED <<latest, steps, generation, verification, isStarting, alarm, timer, posts, polls>>
    BY <1>4 DEF V!OpenDialog
  <2>2. PanelType' /\ NoneAhead' /\ OneStart' /\ OneWatch'
    BY <2>1 DEF PanelType, NoneAhead, OneStart, OneWatch, Follows
  <2>3. PanelIsTrue'
    BY <2>1 DEF V!Scheduled
  <2> QED
    BY <2>2, <2>3
<1>5. CASE V!CloseDialog
  <2>1. /\ generation' = generation + 1 /\ UNCHANGED <<latest, steps, posts, polls>>
        /\ verification' = None /\ isStarting' = FALSE /\ alarm' = FALSE /\ timer' = None
    BY <1>5 DEF V!CloseDialog
  <2>2. PanelType'
    <3>1. generation' \in Nat
      BY <2>1 DEF PanelType
    <3> QED
      BY <2>1, <3>1 DEF PanelType
  <2>3. \A r \in posts \cup polls : r.from <= generation /\ r.from \in Nat /\ r.from # generation'
    BY <2>1 DEF PanelType, NoneAhead, PanelRequests
  <2>4. NoneAhead' /\ OneStart' /\ OneWatch'
    BY <2>1, <2>2, <2>3 DEF PanelType, NoneAhead, OneStart, OneWatch
  <2>5. PanelIsTrue'
    BY <2>1
  <2> QED
    BY <2>2, <2>4, <2>5
<1>6. CASE V!Start
  <2> DEFINE r == V!Asked(0, generation)
  <2>1. /\ ~isStarting /\ ~(verification # None /\ verification.done < Steps)
        /\ isStarting' = TRUE /\ alarm' = FALSE /\ timer' = None /\ posts' = posts \cup {r}
        /\ UNCHANGED <<latest, steps, generation, verification, polls>>
    BY <1>6 DEF V!Start
  <2>2. r \in PanelRequests /\ r.from = generation
    BY DEF V!Asked, PanelRequests, PanelType
  <2> HIDE DEF r
  <2>3. PanelType'
    BY <2>1, <2>2 DEF PanelType
  <2>4. NoneAhead'
    BY <2>1, <2>2 DEF NoneAhead, PanelType
  <2>5. OneStart'
    BY <2>1, <2>2 DEF OneStart
  <2>6. OneWatch'
    BY <2>1 DEF OneWatch, Follows
  <2>7. PanelIsTrue'
    BY <2>1, <2>2
  <2> QED
    BY <2>3, <2>4, <2>5, <2>6, <2>7
<1>7. ASSUME NEW p \in posts, V!Started(p)
      PROVE  PanelInv'
  <2>0. posts' = posts \ {p} /\ UNCHANGED <<latest, steps, generation, polls>> /\ p \in PanelRequests
    BY <1>7 DEF V!Started, PanelType
  <2>1. NoneAhead'
    BY <2>0 DEF NoneAhead
  <2>2. CASE p.from # generation
    <3>1. UNCHANGED <<verification, isStarting, alarm, timer>>
      BY <1>7, <2>2 DEF V!Started
    <3>2. PanelType'
      BY <2>0, <3>1 DEF PanelType
    <3>3. OneStart'
      BY <2>0, <2>2, <3>1 DEF OneStart
    <3>4. OneWatch'
      BY <2>0, <3>1 DEF OneWatch, Follows
    <3>5. PanelIsTrue'
      BY <2>0, <2>2, <3>1 DEF V!Scheduled
    <3> QED
      BY <2>1, <3>2, <3>3, <3>4, <3>5
  <2>3. CASE p.from = generation
    <3>0. isStarting /\ isStarting' = FALSE /\ timer = None /\ \A r \in polls : r.from # generation
      BY <1>7, <2>3 DEF V!Started, OneStart, OneWatch, Follows
    <3>1. OneStart'
      BY <2>0, <2>3, <3>0 DEF OneStart
    <3>2. CASE alarm' = TRUE /\ UNCHANGED <<verification, timer>>
      <4>1. PanelType'
        BY <2>0, <3>0, <3>2 DEF PanelType
      <4>2. OneWatch'
        BY <2>0, <3>0, <3>2 DEF OneWatch
      <4>3. PanelIsTrue'
        BY <2>0, <3>2
      <4> QED
        BY <2>1, <3>1, <4>1, <4>2, <4>3
    <3>3. CASE verification' = [id |-> p.id, done |-> 0, from |-> p.from] /\ timer' = V!Scheduled(p.id) /\ UNCHANGED alarm
      <4>1. /\ verification' \in Verifications /\ verification'.id = p.id /\ verification'.done = 0
            /\ verification'.from = generation
            /\ timer' \in Watches /\ timer'.id = p.id /\ timer'.from = generation
            /\ verification' # None
        BY <1>0, <2>0, <2>3, <3>3 DEF Verifications, Watches, V!Scheduled, PanelRequests, PanelType
      <4>2. PanelType'
        BY <2>0, <3>0, <3>3, <4>1 DEF PanelType
      <4>3. OneWatch'
        BY <1>0, <2>0, <3>0, <4>1 DEF OneWatch, Follows
      <4>4. PanelIsTrue'
        BY <1>0, <2>0, <3>0, <3>3, <4>1 DEF V!Scheduled
      <4> QED
        BY <2>1, <3>1, <4>2, <4>3, <4>4
    <3> QED
      BY <1>7, <2>3, <3>2, <3>3 DEF V!Started
  <2> QED
    BY <2>2, <2>3
<1>8. CASE V!Poll
  <2> DEFINE r == V!Asked(timer.id, timer.from)
  <2>1. /\ timer # None /\ timer' = None /\ polls' = polls \cup {r}
        /\ UNCHANGED <<latest, steps, generation, verification, isStarting, alarm, posts>>
    BY <1>8 DEF V!Poll
  <2>2. r \in PanelRequests /\ r.from = generation /\ r.id = timer.id /\ Follows(timer.id)
    BY <2>1 DEF V!Asked, PanelRequests, PanelType, Watches, OneWatch
  <2> HIDE DEF r
  <2>3. PanelType'
    BY <2>1, <2>2 DEF PanelType
  <2>4. NoneAhead'
    BY <2>1, <2>2 DEF NoneAhead, PanelType
  <2>5. OneStart'
    BY <2>1 DEF OneStart
  <2>6. OneWatch'
    BY <2>1, <2>2 DEF OneWatch, Follows
  <2>7. PanelIsTrue'
    BY <2>1, <2>2 DEF Follows
  <2> QED
    BY <2>3, <2>4, <2>5, <2>6, <2>7
<1>9. ASSUME NEW p \in polls, V!Polled(p)
      PROVE  PanelInv'
  <2>0. polls' = polls \ {p} /\ UNCHANGED <<latest, steps, generation, posts>> /\ p \in PanelRequests
    BY <1>9 DEF V!Polled, PanelType
  <2>1. NoneAhead'
    BY <2>0 DEF NoneAhead
  <2>2. CASE p.from # generation
    <3>1. UNCHANGED <<verification, isStarting, alarm, timer>>
      BY <1>9, <2>2 DEF V!Polled
    <3>2. PanelType'
      BY <2>0, <3>1 DEF PanelType
    <3>3. OneStart'
      BY <2>0, <3>1 DEF OneStart
    <3>4. OneWatch'
      BY <2>0, <3>1 DEF OneWatch, Follows
    <3>5. PanelIsTrue'
      BY <2>0, <2>2, <3>1 DEF V!Scheduled
    <3> QED
      BY <2>1, <3>2, <3>3, <3>4, <3>5
  <2>3. CASE p.from = generation
    <3>0. /\ Follows(p.id) /\ timer = None /\ \A r \in polls' : r.from # generation
          /\ V!Shown(p) /\ UNCHANGED isStarting
      BY <1>9, <2>0, <2>3 DEF V!Polled, OneWatch
    <3>1. OneStart'
      BY <2>0, <3>0 DEF OneStart
    <3>2. CASE alarm' = TRUE /\ UNCHANGED <<verification, timer>>
      <4>1. PanelType'
        BY <2>0, <3>0, <3>2 DEF PanelType
      <4>2. OneWatch'
        BY <2>0, <3>0, <3>2 DEF OneWatch
      <4>3. PanelIsTrue'
        BY <2>0, <3>0, <3>2 DEF Follows
      <4> QED
        BY <2>1, <3>1, <4>1, <4>2, <4>3
    <3>3. CASE alarm' = TRUE /\ timer' = V!Scheduled(p.id) /\ UNCHANGED verification
      <4>0. timer' \in Watches /\ timer'.id = p.id /\ timer'.from = generation
        BY <2>0, <3>3 DEF V!Scheduled, Watches, PanelType, PanelRequests
      <4>1. PanelType'
        BY <2>0, <3>0, <3>3, <4>0 DEF PanelType
      <4>2. OneWatch'
        BY <2>0, <3>0, <3>3, <4>0 DEF OneWatch, Follows
      <4>3. PanelIsTrue'
        BY <2>0, <3>0, <3>3 DEF Follows
      <4> QED
        BY <2>1, <3>1, <4>1, <4>2, <4>3
    <3>4. CASE /\ alarm' = FALSE
               /\ verification' = [id |-> p.id, done |-> p.done, from |-> p.from]
               /\ timer' = IF p.done < Steps THEN V!Scheduled(p.id) ELSE timer
      <4>0. /\ verification' \in Verifications /\ verification'.id = p.id /\ verification'.done = p.done
            /\ verification'.from = generation /\ verification' # None
            /\ V!Scheduled(p.id) \in Watches /\ V!Scheduled(p.id).id = p.id
            /\ V!Scheduled(p.id).from = generation /\ V!Scheduled(p.id) # None
        BY <1>0, <2>0, <2>3, <3>4 DEF V!Scheduled, Watches, Verifications, PanelType, PanelRequests
      <4>1. PanelType'
        BY <2>0, <3>0, <3>4, <4>0 DEF PanelType
      <4>2. OneWatch'
        BY <2>0, <3>0, <3>4, <4>0 DEF OneWatch, Follows
      <4>3. PanelIsTrue'
        <5>1. isStarting' = FALSE
          BY <3>0 DEF Follows, PanelType
        <5>2. V!Scheduled(p.id)' = V!Scheduled(p.id)
          BY <2>0 DEF V!Scheduled
        <5> QED
          BY <3>0, <3>4, <4>0, <5>1, <5>2, <2>0
      <4> QED
        BY <2>1, <3>1, <4>1, <4>2, <4>3
    <3> QED
      BY <3>0, <3>2, <3>3, <3>4 DEF V!Shown
  <2> QED
    BY <2>2, <2>3
<1>10. CASE UNCHANGED V!panelVars
  <2>1. UNCHANGED <<latest, steps, generation, verification, isStarting, alarm, timer, posts, polls>>
    BY <1>10 DEF V!panelVars
  <2>2. PanelType' /\ NoneAhead' /\ OneStart' /\ OneWatch'
    BY <2>1 DEF PanelType, NoneAhead, OneStart, OneWatch, Follows
  <2>3. PanelIsTrue'
    BY <2>1 DEF V!Scheduled
  <2> QED
    BY <2>2, <2>3
<1> QED
  BY <1>1, <1>2, <1>3, <1>4, <1>5, <1>6, <1>7, <1>8, <1>9, <1>10 DEF V!Next

\* What is shown of a verification is of this opening, and what is shown as running is
\* watched, whenever what earlier openings asked for is answered (useVerification.ts:36).
THEOREM PanelIsTrueHolds == V!Spec => []PanelIsTrue
<1>1. V!Init => PanelInv
  BY PanelInit
<1>2. PanelInv /\ [V!Next]_(V!panelVars) => PanelInv'
  BY PanelStep
<1>3. PanelInv => PanelIsTrue
  BY DEF PanelInv
<1> QED
  BY <1>1, <1>2, <1>3, PTL DEF V!Spec

-----------------------------------------------------------------------------
(* Dashboard                                                               *)

Answer     == [provider : Nat \cup {None}, capabilities : Nat \cup {None}]
PollStates == {D!Nothing} \cup Answer

\* A number that was told is that of a state the server has been in, from a moment on.
Tells(t, from, now) ==
  \A n \in {t.provider, t.capabilities} : n = None \/ (n >= from /\ n >= 1 /\ n <= now)

DashboardType ==
  /\ history \in Seq(D!States) /\ Len(history) >= 1
  /\ poll \in [Polls -> PollStates] /\ told \in PollStates
  /\ floor \in Nat /\ floor <= D!Now

\* Polls that are heard were answered after the last operation.
AnsweredSince ==
  /\ \A p \in Polls : poll[p] \notin {D!Nothing, D!Waiting} => Tells(poll[p], floor, D!Now)
  /\ told # D!Nothing => Tells(told, 0, D!Now)

DashboardInv == DashboardType /\ AnsweredSince

\* States of a poll are told apart.
LEMMA ToldApart ==
  /\ D!Nothing \notin Answer /\ D!Waiting \in Answer
  /\ \A a, b \in Nat \cup {None} : [provider |-> a, capabilities |-> b] \in Answer
  /\ \A a, b : [provider |-> a, capabilities |-> b].provider = a
               /\ [provider |-> a, capabilities |-> b].capabilities = b
<1>1. \A t \in Answer : DOMAIN t = {"provider", "capabilities"}
  BY DEF Answer
<1>2. DOMAIN D!Nothing = {"phase"}
  BY DEF D!Nothing
<1> QED
  BY <1>1, <1>2 DEF Answer, D!Waiting

\* What is appended to the history leaves the numbers of the states as they are.
LEMMA Grows ==
  ASSUME DashboardType, NEW s \in D!States, history' = Append(history, s)
  PROVE  /\ history' \in Seq(D!States) /\ D!Now' = D!Now + 1 /\ D!Now \in Nat /\ D!Now >= 1
         /\ \A i \in 1 .. D!Now : history'[i] = history[i]
         /\ history'[D!Now + 1] = s
BY AppendProperties, LenProperties DEF DashboardType, D!Now

LEMMA DashboardInit == D!Init => DashboardInv
<1> SUFFICES ASSUME D!Init
             PROVE  DashboardInv
  OBVIOUS
<1>1. PICK s \in D!States : history = <<s>>
  BY DEF D!Init
<1>2. history \in Seq(D!States) /\ Len(history) = 1
  BY <1>1
<1>3. DashboardType
  BY <1>2 DEF D!Init, DashboardType, PollStates, D!Now
<1>4. AnsweredSince
  BY DEF D!Init, AnsweredSince
<1> QED
  BY <1>3, <1>4 DEF DashboardInv

\* The server, or the lists, move: nothing that was told changes.
LEMMA ServerMoves ==
  ASSUME DashboardInv, UNCHANGED <<poll, told, floor>>,
         history' = history \/ \E s \in D!States : history' = Append(history, s)
  PROVE  DashboardInv'
<1> USE DEF DashboardInv
<1>1. CASE history' = history
  BY <1>1 DEF DashboardType, AnsweredSince, Tells, D!Now
<1>2. ASSUME NEW s \in D!States, history' = Append(history, s)
      PROVE  DashboardInv'
  <2>1. /\ history' \in Seq(D!States) /\ D!Now' = D!Now + 1 /\ D!Now \in Nat /\ D!Now >= 1
    BY <1>2, Grows
  <2>2. DashboardType'
    BY <2>1 DEF DashboardType, D!Now
  <2>4. AnsweredSince'
    <3>1. ASSUME NEW p \in Polls, poll[p] \notin {D!Nothing, D!Waiting}
          PROVE  Tells(poll[p], floor, D!Now')
      <4>1. poll[p] \in Answer /\ floor \in Nat /\ Tells(poll[p], floor, D!Now)
        BY <3>1 DEF DashboardType, PollStates, AnsweredSince
      <4> QED
        BY <2>1, <4>1 DEF Tells, Answer
    <3>2. ASSUME told # D!Nothing
          PROVE  Tells(told, 0, D!Now')
      <4>1. told \in Answer /\ Tells(told, 0, D!Now)
        BY <3>2 DEF DashboardType, PollStates, AnsweredSince
      <4> QED
        BY <2>1, <4>1 DEF Tells, Answer
    <3> QED
      BY <3>1, <3>2 DEF AnsweredSince
  <2> QED
    BY <2>2, <2>4
<1> QED
  BY <1>1, <1>2

\* Polls that are sent or given up tell nothing.
LEMMA PollsAnew ==
  ASSUME DashboardInv, UNCHANGED <<history, told>>,
         poll' \in [Polls -> PollStates],
         \A p \in Polls : poll'[p] \in {D!Nothing, D!Waiting, poll[p]},
         \/ floor' = floor
         \/ /\ floor' = D!Now
            /\ \A p \in Polls : poll'[p] \in {D!Nothing, D!Waiting}
  PROVE  DashboardInv'
<1> USE DEF DashboardInv
<1>1. D!Now \in Nat /\ D!Now' = D!Now
  BY LenProperties DEF DashboardType, D!Now
<1>2. DashboardType'
  BY <1>1 DEF DashboardType
<1>3. AnsweredSince'
  BY <1>1 DEF AnsweredSince, Tells
<1> QED
  BY <1>2, <1>3

\* A step keeps the invariant, and tells nothing from before the last operation.
LEMMA DashboardStep ==
  ASSUME DashboardInv, [D!Next]_(D!dashboardVars)
  PROVE  /\ DashboardInv'
         /\ told' # told => \A n \in {told'.provider, told'.capabilities} : n = None \/ n >= floor
<1> DEFINE NotBack == told' # told => \A n \in {told'.provider, told'.capabilities} : n = None \/ n >= floor
<1> USE DEF DashboardInv
<1>0. D!Nothing \in PollStates /\ D!Waiting \in PollStates /\ D!Waiting # D!Nothing
  BY ToldApart DEF PollStates
<1>1. ASSUME NEW s \in D!States, D!Change(s)
      PROVE  DashboardInv' /\ NotBack
  BY <1>1, ServerMoves DEF D!Change, D!screenVars
<1>2. ASSUME NEW p \in Polls, D!SendPoll(p)
      PROVE  DashboardInv' /\ NotBack
  <2>1. /\ poll' = [poll EXCEPT ![p] = D!Waiting] /\ UNCHANGED <<history, told, floor>>
    BY <1>2 DEF D!SendPoll, D!screenVars
  <2>2. poll' \in [Polls -> PollStates] /\ \A q \in Polls : poll'[q] \in {D!Nothing, D!Waiting, poll[q]}
    BY <1>0, <2>1 DEF DashboardType
  <2> QED
    BY <2>1, <2>2, PollsAnew
<1>3. ASSUME NEW p \in Polls, D!AnswerPoll(p)
      PROVE  DashboardInv' /\ NotBack
  <2>0. UNCHANGED <<history, told, floor>>
    BY <1>3 DEF D!AnswerPoll, D!screenVars
  <2>1. D!Now \in Nat /\ D!Now >= 1 /\ D!Now' = D!Now /\ floor \in Nat /\ floor <= D!Now
    BY <2>0, LenProperties DEF DashboardType, D!Now
  <2>2. PICK t \in Answer : poll' = [poll EXCEPT ![p] = t] /\ Tells(t, floor, D!Now)
    <3> DEFINE both == [provider |-> D!Now, capabilities |-> D!Now]
               t1 == [both EXCEPT !["provider"] = None]
               t2 == [both EXCEPT !["capabilities"] = None]
    <3>1. poll' \in {[poll EXCEPT ![p] = both], [poll EXCEPT ![p] = t1], [poll EXCEPT ![p] = t2]}
      BY <1>3 DEF D!AnswerPoll
    <3>2. both \in Answer /\ both.provider = D!Now /\ both.capabilities = D!Now
      BY <2>1, ToldApart
    <3> HIDE DEF both
    <3>3. t1 \in Answer /\ t1.provider = None /\ t1.capabilities = D!Now
      BY <3>2 DEF Answer
    <3>4. t2 \in Answer /\ t2.provider = D!Now /\ t2.capabilities = None
      BY <3>2 DEF Answer
    <3> HIDE DEF t1, t2
    <3>5. \A t \in {both, t1, t2} : t \in Answer /\ Tells(t, floor, D!Now)
      BY <2>1, <3>2, <3>3, <3>4 DEF Tells
    <3> QED
      BY <3>1, <3>5
  <2>3. DashboardType'
    BY <2>0, <2>1, <2>2 DEF DashboardType, PollStates
  <2>4. AnsweredSince'
    <3>1. \A q \in Polls : poll'[q] = IF q = p THEN t ELSE poll[q]
      BY <2>2 DEF DashboardType
    <3> QED
      BY <2>0, <2>1, <2>2, <3>1 DEF AnsweredSince, Tells
  <2> QED
    BY <2>0, <2>3, <2>4
<1>4. ASSUME NEW p \in Polls, D!Polled(p)
      PROVE  DashboardInv' /\ NotBack
  <2>1. /\ poll[p] \notin {D!Nothing, D!Waiting} /\ told' = poll[p]
        /\ poll' = [poll EXCEPT ![p] = D!Nothing] /\ UNCHANGED <<history, floor>>
    BY <1>4 DEF D!Polled, D!Render
  <2>2. poll[p] \in Answer /\ Tells(poll[p], floor, D!Now) /\ floor \in Nat
    BY <2>1 DEF DashboardType, PollStates, AnsweredSince
  <2>3. D!Now' = D!Now /\ D!Now \in Nat
    BY <2>1, LenProperties DEF DashboardType, D!Now
  <2>4. NotBack
    BY <2>1, <2>2 DEF Tells
  <2>5. DashboardType'
    BY <1>0, <2>1, <2>2, <2>3 DEF DashboardType, PollStates
  <2>6. AnsweredSince'
    <3>1. \A q \in Polls : poll'[q] = IF q = p THEN D!Nothing ELSE poll[q]
      BY <2>1 DEF DashboardType
    <3>2. Tells(poll[p], 0, D!Now)
      BY <2>1, <2>2, <2>3 DEF Tells, Answer
    <3>3. \A q \in Polls : poll'[q] \notin {D!Nothing, D!Waiting} => Tells(poll'[q], floor, D!Now)
      BY <2>1, <2>3, <3>1 DEF AnsweredSince, Tells
    <3> QED
      BY <2>1, <2>3, <3>2, <3>3 DEF AnsweredSince
  <2> QED
    BY <2>4, <2>5, <2>6
<1>5. CASE D!AnswerLoad \/ D!Loaded \/ D!Measure \/ D!Turn
  <2>1. UNCHANGED <<history, poll, told, floor>>
    BY <1>5 DEF D!AnswerLoad, D!Loaded, D!Measure, D!Turn, D!screenVars
  <2> QED
    BY <2>1, ServerMoves
<1>6. CASE D!Submit
  <2>1. UNCHANGED <<poll, told, floor>> /\ (history' = history \/ \E s \in D!States : history' = Append(history, s))
    BY <1>6 DEF D!Submit, D!screenVars
  <2> QED
    BY <2>1, ServerMoves
<1>7. ASSUME D!Refresh
      PROVE  /\ poll' \in [Polls -> PollStates]
             /\ \A p \in Polls : poll'[p] \in {D!Nothing, D!Waiting}
  BY <1>0, <1>7 DEF D!Refresh
<1>8. CASE D!Performed
  <2>1. UNCHANGED <<history, told>> /\ floor' = D!Now /\ D!Refresh
    BY <1>8 DEF D!Performed, D!screenVars
  <2> QED
    BY <1>7, <2>1, PollsAnew
<1>9. CASE D!Refused
  <2>1. UNCHANGED <<history, told, floor>> /\ (D!Refresh \/ UNCHANGED poll)
    BY <1>9 DEF D!Refused, D!screenVars
  <2>2. poll' \in [Polls -> PollStates] /\ \A p \in Polls : poll'[p] \in {D!Nothing, D!Waiting, poll[p]}
    BY <1>7, <2>1 DEF DashboardType
  <2> QED
    BY <2>1, <2>2, PollsAnew
<1>10. CASE UNCHANGED D!dashboardVars
  <2>1. UNCHANGED <<history, poll, told, floor>>
    BY <1>10 DEF D!dashboardVars, D!screenVars
  <2> QED
    BY <2>1, ServerMoves
<1> QED
  BY <1>1, <1>2, <1>3, <1>4, <1>5, <1>6, <1>8, <1>9, <1>10 DEF D!Next

\* What is from before an operation is not shown after it, though polls that were sent
\* before it may be answered later (usePolling.ts:30-65).
THEOREM NeverGoesBackHolds == D!Spec => NeverGoesBack
<1>1. DashboardInv /\ [D!Next /\ UNCHANGED hook]_<<D!dashboardVars, hook>> => DashboardInv'
  BY DashboardStep
<1>2. DashboardInv /\ [D!Next /\ UNCHANGED hook]_<<D!dashboardVars, hook>> =>
        [told' # told =>
           \A n \in {told'.provider, told'.capabilities} : n = None \/ n >= floor]_(D!dashboardVars)
  BY DashboardStep
<1> QED
  BY <1>1, <1>2, DashboardInit, PTL DEF D!Spec, NeverGoesBack, D!NeverGoesBack

\* As long as no provider that was left is chosen again, each has been the active one for one
\* stretch of the history, and so the later of two is told by any of their numbers.
Stretches(h) ==
  \A i, j, k \in 1 .. Len(h) :
    i <= j /\ j <= k /\ h[i].provider = h[k].provider => h[j].provider = h[i].provider
Was(h, v) == \E i \in 1 .. Len(h) : h[i].provider = v
NotBefore(h, v, w) ==
  v = w \/ \A i, j \in 1 .. Len(h) : h[i].provider = v /\ h[j].provider = w => i > j

\* What is listed or about to be is of a provider that is not before the one shown.
ListsFollow ==
  \A v \in {list, load} :
    v \in Providers =>
      /\ Was(history, v)
      /\ D!Active(told) # None => NotBefore(history, v, D!Active(told))

ListInv == DashboardInv /\ Stretches(history) /\ ListsFollow

LEMMA StretchesGrow ==
  ASSUME ~Return, DashboardType, NEW s \in D!States, D!Possible(s), history' = Append(history, s),
         Stretches(history)
  PROVE  Stretches(history')
<1> DEFINE n == Len(history)
<1>1. /\ n \in Nat /\ n >= 1 /\ Len(history') = n + 1
      /\ \A i \in 1 .. n : history'[i] = history[i]
      /\ history'[n + 1] = s
  BY Grows DEF D!Now
<1>2. s.provider = history[n].provider \/ \A i \in 1 .. n : history[i].provider # s.provider
  BY DEF D!Possible, D!Server, D!Numbers, D!Now
<1> HIDE DEF n
<1> SUFFICES ASSUME NEW i \in 1 .. n + 1, NEW j \in 1 .. n + 1, NEW k \in 1 .. n + 1, i <= j, j <= k,
                    history'[i].provider = history'[k].provider
             PROVE  history'[j].provider = history'[i].provider
  BY <1>1 DEF Stretches
<1>3. CASE k <= n
  <2>1. /\ i \in 1 .. n /\ j \in 1 .. n /\ k \in 1 .. n
    BY <1>1, <1>3
  <2>2. history[i].provider = history[k].provider
    BY <1>1, <2>1
  <2> QED
    BY <1>1, <2>1, <2>2 DEF Stretches, n
<1>4. CASE k = n + 1 /\ i <= n /\ j <= n
  <2>1. i \in 1 .. n /\ j \in 1 .. n /\ n \in 1 .. n /\ history[i].provider = s.provider
    BY <1>1, <1>4
  <2>2. history[i].provider = history[n].provider
    BY <1>2, <2>1
  <2> QED
    BY <1>1, <2>1, <2>2 DEF Stretches, n
<1>5. CASE k = n + 1 /\ (i = n + 1 \/ j = n + 1)
  BY <1>1, <1>5
<1> QED
  BY <1>1, <1>3, <1>4, <1>5

\* A provider that comes anew is after all others.
LEMMA OrderKept ==
  ASSUME ~Return, DashboardType, NEW s \in D!States, D!Possible(s), history' = Append(history, s),
         NEW v, NEW w, Was(history, v), Was(history, w), NotBefore(history, v, w)
  PROVE  Was(history', v) /\ NotBefore(history', v, w)
<1> DEFINE n == Len(history)
<1>1. /\ n \in Nat /\ n >= 1 /\ Len(history') = n + 1
      /\ \A i \in 1 .. n : history'[i] = history[i]
      /\ history'[n + 1] = s
  BY Grows DEF D!Now
<1>2. s.provider = history[n].provider \/ \A i \in 1 .. n : history[i].provider # s.provider
  BY DEF D!Possible, D!Server, D!Numbers, D!Now
<1> HIDE DEF n
<1>3. PICK i0 \in 1 .. n : history[i0].provider = v
  BY DEF Was, n
<1>4. PICK j0 \in 1 .. n : history[j0].provider = w
  BY DEF Was, n
<1>5. Was(history', v)
  BY <1>1, <1>3 DEF Was
<1>6. ASSUME v # w, NEW i \in 1 .. n + 1, NEW j \in 1 .. n + 1,
             history'[i].provider = v, history'[j].provider = w
      PROVE  i > j
  <2>1. \A a, b \in 1 .. n : history[a].provider = v /\ history[b].provider = w => a > b
    BY <1>6 DEF NotBefore, n
  <2>2. CASE j = n + 1
    <3>1. w = history[n].provider /\ n \in 1 .. n
      BY <1>1, <1>2, <1>4, <1>6, <2>2
    <3>2. i0 > n
      BY <1>3, <2>1, <3>1
    <3> QED
      BY <1>1, <3>2
  <2>3. CASE j \in 1 .. n /\ i = n + 1
    BY <1>1, <2>3
  <2>4. CASE j \in 1 .. n /\ i \in 1 .. n
    BY <1>1, <1>6, <2>1, <2>4
  <2> QED
    BY <1>1, <2>2, <2>3, <2>4
<1> QED
  BY <1>1, <1>5, <1>6 DEF NotBefore

LEMMA ListInit == D!Init => ListInv
<1> SUFFICES ASSUME D!Init
             PROVE  ListInv
  OBVIOUS
<1>1. Len(history) = 1
  BY DEF D!Init
<1>2. Stretches(history)
  BY <1>1 DEF Stretches
<1>3. ListsFollow
  BY PartsAssumption DEF D!Init, ListsFollow, D!DashboardAssumption
<1> QED
  BY <1>2, <1>3, DashboardInit DEF ListInv

\* What is told of another provider empties the list and gives up the request for it.
LEMMA RenderFollows ==
  ASSUME NEW t, D!Render(t), NEW v \in {list', load'}, v \in Providers
  PROVE  v \in {list, load} /\ D!Active(t) = D!Active(told)
<1>1. v \notin {None, "none", "asked", "error"}
  BY PartsAssumption DEF D!DashboardAssumption
<1>2. CASE hook = "useLocations"
  <2>1. D!Locations(t)
    BY <1>2 DEF D!Render
  <2>2. CASE D!Active(t) = D!Active(told)
    <3>1. list' \in {None, list} /\ load' \in {"asked", load}
      BY <2>1, <2>2 DEF D!Locations
    <3> QED
      BY <1>1, <2>2, <3>1
  <2>3. CASE D!Active(t) # D!Active(told)
    <3>1. list' = None /\ load' \in {"asked", "none"}
      BY <2>1, <2>3 DEF D!Locations, D!Reset
    <3> QED
      BY <1>1, <3>1
  <2> QED
    BY <2>2, <2>3
<1>3. CASE hook # "useLocations"
  <2>1. D!References(t)
    BY <1>3 DEF D!Render
  <2>2. CASE D!Active(t) # D!Active(told) \/ D!Restricted(t) # D!Restricted(told)
    <3>1. list' = None /\ load' \in {"asked", "none"}
      BY <2>1, <2>2 DEF D!References
    <3> QED
      BY <1>1, <3>1
  <2>3. CASE D!Active(t) = D!Active(told) /\ UNCHANGED <<list, load>>
    BY <2>3
  <2> QED
    BY <2>1, <2>2, <2>3 DEF D!References
<1> QED
  BY <1>2, <1>3

LEMMA ActiveWas ==
  ASSUME DashboardInv, D!Active(told) # None
  PROVE  Was(history, D!Active(told))
<1>1. told \in Answer /\ Tells(told, 0, D!Now) /\ told.provider # None
  BY DEF DashboardInv, DashboardType, AnsweredSince, PollStates, D!Active
<1>2. told.provider \in 1 .. D!Now
  BY <1>1 DEF Tells, Answer
<1> QED
  BY <1>1, <1>2, ToldApart DEF Was, D!Active, D!Now

LEMMA ListStep ==
  ASSUME ~Return, ListInv, [D!Next /\ UNCHANGED hook]_<<D!dashboardVars, hook>>
  PROVE  ListInv'
<1> USE DEF ListInv
<1>0. DashboardInv'
  BY DashboardStep
<1>a. /\ Len(history) \in Nat /\ Len(history) >= 1
      /\ {None, "none", "asked", "error"} \cap Providers = {}
  BY PartsAssumption, LenProperties DEF DashboardInv, DashboardType, D!DashboardAssumption
\* Nothing that lists go by changes.
<1>b. ASSUME UNCHANGED <<history, told>>, \A v \in {list', load'} : v \in Providers => v \in {list, load}
      PROVE  ListInv'
  BY <1>0, <1>b DEF ListsFollow, D!Active
\* The server has another state.
<1>c. ASSUME NEW s \in D!States, D!Possible(s), history' = Append(history, s), UNCHANGED <<told, list, load>>
      PROVE  ListInv'
  <2>1. Stretches(history')
    BY <1>c, StretchesGrow DEF DashboardInv
  <2>3. D!Active(told)' = D!Active(told)
    <3>1. CASE told = D!Nothing \/ told.provider = None
      BY <1>c, <3>1 DEF D!Active, D!Nothing
    <3>2. CASE told # D!Nothing /\ told.provider # None
      <4>1. told \in Answer /\ Tells(told, 0, D!Now)
        BY <3>2 DEF DashboardInv, DashboardType, AnsweredSince, PollStates
      <4>2. told.provider \in 1 .. D!Now
        BY <3>2, <4>1 DEF Tells, Answer
      <4>3. history'[told.provider] = history[told.provider]
        BY <1>c, <4>2, Grows DEF DashboardInv
      <4> QED
        BY <1>c, <3>2, <4>3 DEF D!Active, D!Nothing
    <3> QED
      BY <3>1, <3>2
  <2>4. ListsFollow'
    <3> SUFFICES ASSUME NEW v \in {list, load}, v \in Providers
                 PROVE  /\ Was(history', v)
                        /\ D!Active(told) # None => NotBefore(history', v, D!Active(told))
      BY <1>c, <2>3 DEF ListsFollow
    <3>1. Was(history, v) /\ (D!Active(told) # None => NotBefore(history, v, D!Active(told)))
      BY DEF ListsFollow
    <3>2. NotBefore(history, v, v)
      BY DEF NotBefore
    <3>3. Was(history', v)
      BY <1>c, <3>1, <3>2, OrderKept DEF DashboardInv
    <3>4. ASSUME D!Active(told) # None
          PROVE  NotBefore(history', v, D!Active(told))
      BY <1>c, <3>1, <3>4, ActiveWas, OrderKept DEF DashboardInv
    <3> QED
      BY <3>3, <3>4
  <2> QED
    BY <1>0, <2>1, <2>4
<1>1. ASSUME NEW s \in D!States, D!Change(s)
      PROVE  ListInv'
  BY <1>1, <1>c DEF D!Change, D!screenVars
<1>2. ASSUME NEW p \in Polls, D!SendPoll(p) \/ D!AnswerPoll(p)
      PROVE  ListInv'
  <2>1. UNCHANGED <<history, told, list, load>>
    BY <1>2 DEF D!SendPoll, D!AnswerPoll, D!screenVars
  <2> QED
    BY <1>b, <2>1
<1>3. ASSUME NEW p \in Polls, D!Polled(p)
      PROVE  ListInv'
  <2>1. D!Render(poll[p]) /\ told' = poll[p] /\ UNCHANGED history
    BY <1>3 DEF D!Polled, D!Render
  <2>2. \A v \in {list', load'} : v \in Providers =>
          v \in {list, load} /\ D!Active(poll[p]) = D!Active(told)
    BY <2>1, RenderFollows
  <2>3. D!Active(told)' = D!Active(poll[p])
    BY <2>1 DEF D!Active, D!Nothing
  <2> QED
    BY <1>0, <2>1, <2>2, <2>3 DEF ListsFollow
<1>4. CASE D!AnswerLoad
  <2>1. UNCHANGED <<history, told, list>> /\ load' \in {D!Server.provider, "error"}
    BY <1>4 DEF D!AnswerLoad
  <2>2. Len(history) \in 1 .. Len(history) /\ D!Server.provider = history[Len(history)].provider
    BY <1>a DEF D!Server, D!Now
  <2>3. Was(history, D!Server.provider)
    BY <2>2 DEF Was
  <2>4. \A w : Was(history, w) => NotBefore(history, D!Server.provider, w)
    <3> SUFFICES ASSUME NEW w, w # D!Server.provider,
                        NEW i \in 1 .. Len(history), NEW j \in 1 .. Len(history),
                        history[i].provider = D!Server.provider, history[j].provider = w
                 PROVE  i > j
      BY DEF NotBefore
    <3>1. ~(i <= j)
      BY <1>a, <2>2 DEF Stretches
    <3> QED
      BY <3>1
  <2>5. ListsFollow'
    BY <1>a, <2>1, <2>3, <2>4, ActiveWas DEF ListsFollow, D!Active
  <2> QED
    BY <1>0, <2>1, <2>5
<1>5. CASE D!Loaded \/ D!Measure \/ D!Turn
  <2>1. UNCHANGED <<history, told>> /\ \A v \in {list', load'} : v \in Providers => v \in {list, load}
    BY <1>5, <1>a DEF D!Loaded, D!Measure, D!Turn, D!screenVars
  <2> QED
    BY <1>b, <2>1
<1>6. CASE D!Submit
  <2>1. UNCHANGED <<told, list, load>>
        /\ (history' = history \/ \E s \in D!States : D!Possible(s) /\ history' = Append(history, s))
    BY <1>6 DEF D!Submit, D!screenVars
  <2> QED
    BY <1>b, <1>c, <2>1
<1>7. CASE D!Performed \/ D!Refused \/ UNCHANGED <<D!dashboardVars, hook>>
  <2>1. UNCHANGED <<history, told, list, load>>
    BY <1>7 DEF D!Performed, D!Refused, D!dashboardVars, D!screenVars
  <2> QED
    BY <1>b, <2>1
<1> QED
  BY <1>1, <1>2, <1>3, <1>4, <1>5, <1>6, <1>7 DEF D!Next

\* As long as no provider that was left is chosen again, the list on the screen is not of a
\* provider before the one that is shown as active, whichever way the answers to polls and
\* to requests for lists overtake each other (useLocations.ts:44-84).
THEOREM ListNotOlderHolds == ~Return => (D!Spec => []ListNotOlder)
<1> SUFFICES ASSUME ~Return
             PROVE  D!Spec => []ListNotOlder
  OBVIOUS
<1>1. D!Init => ListInv
  BY ListInit
<1>2. ListInv /\ [D!Next /\ UNCHANGED hook]_<<D!dashboardVars, hook>> => ListInv'
  BY ListStep
<1>3. ListInv => ListNotOlder
  <2> SUFFICES ASSUME ListInv, D!Active(told) # None, list \in Providers
               PROVE  D!Order(list) >= D!Order(D!Active(told))
    BY DEF ListNotOlder, D!ListNotOlder
  <2> DEFINE w == D!Active(told)
  <2>1. Was(history, list) /\ NotBefore(history, list, w) /\ Was(history, w)
    BY ActiveWas DEF ListInv, ListsFollow
  <2> HIDE DEF w
  <2>2. \A v : Was(history, v) => /\ D!Order(v) \in 1 .. Len(history)
                                  /\ history[D!Order(v)].provider = v
    BY DEF Was, D!Order, D!Numbers, D!Now
  <2>3. Len(history) \in Nat
    BY LenProperties DEF ListInv, DashboardInv, DashboardType
  <2>4. D!Order(list) >= D!Order(w)
    BY <2>1, <2>2, <2>3 DEF NotBefore
  <2> QED
    BY <2>4 DEF w
<1> QED
  BY <1>1, <1>2, <1>3, PTL DEF D!Spec

-----------------------------------------------------------------------------
(* OperatorAccount                                                         *)

\* Only two routes write the account: a setup when there is none, and a change by somebody
\* with a session who knows the password.
LEMMA AccountStep ==
  ASSUME A!Step, account # None, account' # account
  PROVE  \E b \in Browsers :
           /\ A!Sent(b, "dialog", "update") /\ A!ValidSession(b, "dialog")
           /\ call[b]["dialog"].body.current = account.password
<1> USE DEF A!api, A!page
<1>1. ASSUME NEW b \in Browsers, NEW k \in A!Kinds, A!Unauthenticated(b, k) \/ A!BadGateway(b, k)
      PROVE  FALSE
  BY <1>1 DEF A!Unauthenticated, A!BadGateway
<1>2. ASSUME NEW b \in Browsers, A!AnswerState(b) \/ A!Setup(b)
      PROVE  FALSE
  BY <1>2 DEF A!AnswerState, A!Setup
<1>3. ASSUME NEW b \in Browsers, A!Login(b)
      PROVE  FALSE
  BY <1>3 DEF A!Login, A!TooMany, A!WrongPassword
<1>4. ASSUME NEW b \in Browsers, A!StateKnown(b) \/ A!Entered(b) \/ A!FormAnswered(b) \/ A!Checked(b) \/ A!LoggedOut(b)
      PROVE  FALSE
  BY <1>4 DEF A!StateKnown, A!Entered, A!FormAnswered, A!Checked, A!LoggedOut
<1>5. ASSUME NEW b \in Browsers, A!Reboot(b) \/ A!Check(b) \/ A!Logout(b)
      PROVE  FALSE
  BY <1>5 DEF A!Reboot, A!TooMany, A!WrongPassword, A!Check, A!Logout
<1>6. ASSUME NEW b \in Browsers, A!Update(b)
      PROVE  /\ A!Sent(b, "dialog", "update") /\ A!ValidSession(b, "dialog")
             /\ call[b]["dialog"].body.current = account.password
  BY <1>6 DEF A!Update, A!TooMany, A!WrongPassword
<1>7. ASSUME NEW b \in Browsers, NEW k \in A!Kinds, A!Lost(b, k)
      PROVE  FALSE
  BY <1>7 DEF A!Lost
<1>8. ASSUME NEW b \in Browsers,
             A!Load(b) \/ A!OpenForm(b) \/ A!CloseForm(b) \/ A!SendCheck(b) \/ A!SubmitLogout(b) \/ A!Reload(b)
      PROVE  FALSE
  BY <1>8 DEF A!Load, A!OpenForm, A!CloseForm, A!SendCheck, A!SubmitLogout, A!Reload
<1>9. ASSUME NEW b \in Browsers, NEW what, NEW c, A!Submit(b, what, c)
      PROVE  FALSE
  BY <1>9 DEF A!Submit
<1>10. ASSUME NEW b \in Browsers, NEW current, NEW n, NEW p, A!SubmitForm(b, current, n, p)
       PROVE  FALSE
  BY <1>10 DEF A!SubmitForm
<1>11. ASSUME NEW b \in Browsers, NEW current, A!SubmitReboot(b, current)
       PROVE  FALSE
  BY <1>11 DEF A!SubmitReboot
<1>12. ~(\E a \in Addresses : A!Forgive(a)) /\ ~A!Restart
  BY DEF A!Forgive, A!Restart
<1> QED
  BY <1>1, <1>2, <1>3, <1>4, <1>5, <1>6, <1>7, <1>8, <1>9, <1>10, <1>11, <1>12 DEF A!Step, A!Answers

\* There is one setup, and the account changes only for who has a session and knows its
\* password (routes/operator.ts).
THEOREM AccountKeptHolds == A!Spec => AccountKept
<1>1. [A!Next]_<<A!operatorVars, use>> =>
        [account # None /\ account' # account =>
           \E b \in Browsers :
             /\ A!Sent(b, "dialog", "update") /\ A!ValidSession(b, "dialog")
             /\ call[b]["dialog"].body.current = account.password]_(A!operatorVars)
  BY AccountStep DEF A!Next
<1> QED
  BY <1>1, PTL DEF A!Spec, AccountKept, A!AccountKept

Fields == {"phase", "what", "body", "cookie", "again", "heard", "status", "set", "name"}

\* Requests are records; nobody is at two of one kind.
CallShape ==
  /\ DOMAIN call = Browsers
  /\ \A b \in Browsers :
       /\ DOMAIN call[b] = A!Kinds
       /\ \A k \in A!Kinds :
            call[b][k] = A!Nothing \/ (DOMAIN call[b][k] = Fields /\ call[b][k].phase \in {"sent", "answered"})

ScreenShape ==
  DOMAIN screen = Browsers /\ DOMAIN shown = Browsers /\ DOMAIN cookie = Browsers /\ DOMAIN form = Browsers

\* A page waits for an answer to what it shows, the form is on the dashboard, and a page
\* that is loading waits for nothing else.
PageFits ==
  \A b \in Browsers :
    /\ ~A!Idle(b, "page") =>
         \/ call[b]["page"].what = "state" /\ screen[b] = "loading"
         \/ call[b]["page"].what \in {"setup", "login"} /\ screen[b] \in {"setup", "login"}
    /\ screen[b] = "loading" => \A k \in A!Kinds : k = "page" \/ A!Idle(b, k)
    /\ form[b] # None => screen[b] = "authenticated"

\* A check is under way on the dashboard only, in the name of the session of the moment; it
\* is refused only if that is over.
CheckFits ==
  \A b \in Browsers :
    ~A!Idle(b, "check") =>
      /\ screen[b] = "authenticated" /\ call[b]["check"].what = "check"
      /\ call[b]["check"].cookie = cookie[b]
      /\ call[b]["check"].phase = "answered" /\ call[b]["check"].status = 401 => cookie[b] \notin sessions

AccountInv == CallShape /\ ScreenShape /\ PageFits /\ CheckFits

LEMMA AccountInit == A!Init => AccountInv
BY DEF A!Init, AccountInv, CallShape, ScreenShape, PageFits, CheckFits, A!Idle, A!Kinds

\* What an answer, a request and the end of a call do to the calls.
LEMMA AnswerEffect ==
  ASSUME CallShape, NEW b \in Browsers, NEW k \in A!Kinds, call[b][k].phase = "sent",
         NEW status, NEW set, NEW name, A!Answer(b, k, status, set, name)
  PROVE  /\ CallShape'
         /\ call'[b][k].phase = "answered" /\ call'[b][k].status = status
         /\ call'[b][k].what = call[b][k].what /\ call'[b][k].cookie = call[b][k].cookie
         /\ call[b][k] # A!Nothing /\ call'[b][k] # A!Nothing
         /\ \A c \in Browsers, j \in A!Kinds : c # b \/ j # k => call'[c][j] = call[c][j]
<1> DEFINE old == call[b][k]
           new == [old EXCEPT !.phase = "answered", !.status = status, !.set = set, !.name = name]
<1>1. old # A!Nothing /\ DOMAIN old = Fields
  BY DEF CallShape, A!Nothing
<1>2. /\ DOMAIN new = Fields /\ new.phase = "answered" /\ new.status = status
      /\ new.what = old.what /\ new.cookie = old.cookie
  BY <1>1 DEF Fields
<1>3. call' = [call EXCEPT ![b][k] = new]
  BY DEF A!Answer
<1> HIDE DEF old, new
<1>4. /\ call'[b][k] = new /\ DOMAIN call' = Browsers
      /\ \A c \in Browsers : DOMAIN call'[c] = A!Kinds
      /\ \A c \in Browsers, j \in A!Kinds : c # b \/ j # k => call'[c][j] = call[c][j]
  BY <1>3 DEF CallShape
<1>5. new # A!Nothing
  BY <1>2 DEF A!Nothing
<1>6. CallShape'
  <2> SUFFICES ASSUME NEW c \in Browsers, NEW j \in A!Kinds
               PROVE  call'[c][j] = A!Nothing \/ (DOMAIN call'[c][j] = Fields /\ call'[c][j].phase \in {"sent", "answered"})
    BY <1>4 DEF CallShape
  <2>1. CASE c = b /\ j = k
    BY <1>2, <1>4, <2>1
  <2>2. CASE c # b \/ j # k
    BY <1>4, <2>2 DEF CallShape
  <2> QED
    BY <2>1, <2>2
<1> QED
  BY <1>1, <1>2, <1>4, <1>5, <1>6 DEF old

LEMMA RequestEffect ==
  ASSUME CallShape, NEW b \in Browsers, NEW k \in A!Kinds, NEW what, NEW body, A!Request(b, k, what, body)
  PROVE  /\ CallShape'
         /\ call'[b][k].phase = "sent" /\ call'[b][k].what = what /\ call'[b][k].cookie = cookie[b]
         /\ call'[b][k] # A!Nothing
         /\ \A c \in Browsers, j \in A!Kinds : c # b \/ j # k => call'[c][j] = call[c][j]
<1> DEFINE new == [phase |-> "sent", what |-> what, body |-> body, cookie |-> cookie[b],
                   again |-> what = "login", heard |-> TRUE, status |-> 0, set |-> "keep", name |-> None]
<1>1. DOMAIN new = Fields /\ new.phase = "sent" /\ new.what = what /\ new.cookie = cookie[b]
  BY DEF Fields
<1>2. call' = [call EXCEPT ![b][k] = new]
  BY DEF A!Request
<1> HIDE DEF new
<1>3. /\ call'[b][k] = new /\ DOMAIN call' = Browsers
      /\ \A c \in Browsers : DOMAIN call'[c] = A!Kinds
      /\ \A c \in Browsers, j \in A!Kinds : c # b \/ j # k => call'[c][j] = call[c][j]
  BY <1>2 DEF CallShape
<1>4. new # A!Nothing
  BY <1>1 DEF A!Nothing
<1>5. CallShape'
  <2> SUFFICES ASSUME NEW c \in Browsers, NEW j \in A!Kinds
               PROVE  call'[c][j] = A!Nothing \/ (DOMAIN call'[c][j] = Fields /\ call'[c][j].phase \in {"sent", "answered"})
    BY <1>3 DEF CallShape
  <2>1. CASE c = b /\ j = k
    BY <1>1, <1>3, <2>1
  <2>2. CASE c # b \/ j # k
    BY <1>3, <2>2 DEF CallShape
  <2> QED
    BY <2>1, <2>2
<1> QED
  BY <1>1, <1>3, <1>4, <1>5

LEMMA DoneEffect ==
  ASSUME CallShape, NEW b \in Browsers, NEW k \in A!Kinds, NEW to, A!Done(b, k, to)
  PROVE  /\ CallShape'
         /\ \A c \in Browsers, j \in A!Kinds :
              call'[c][j] = IF c = b /\ (j = k \/ (j = "check" /\ to # "authenticated"))
                            THEN A!Nothing ELSE call[c][j]
<1> DEFINE over(j) == j = k \/ (j = "check" /\ to # "authenticated")
<1>1. call' = [call EXCEPT ![b] = [j \in A!Kinds |-> IF over(j) THEN A!Nothing ELSE call[b][j]]]
  BY DEF A!Done
<1>2. /\ DOMAIN call' = Browsers
      /\ \A c \in Browsers : DOMAIN call'[c] = A!Kinds
      /\ \A c \in Browsers, j \in A!Kinds : call'[c][j] = IF c = b /\ over(j) THEN A!Nothing ELSE call[c][j]
  BY <1>1 DEF CallShape
<1> HIDE DEF over
<1>3. CallShape'
  BY <1>2 DEF CallShape
<1> QED
  BY <1>2, <1>3 DEF over

\* A request that is repeated, or not heard any more, goes on.
LEMMA FlagEffect ==
  ASSUME CallShape, NEW b \in Browsers, NEW k \in A!Kinds, call[b][k] # A!Nothing, NEW flag \in {"again", "heard"},
         call' = [call EXCEPT ![b][k][flag] = FALSE]
  PROVE  /\ CallShape'
         /\ \A c \in Browsers, j \in A!Kinds :
              /\ call'[c][j] = A!Nothing <=> call[c][j] = A!Nothing
              /\ call[c][j] # A!Nothing => \A f \in {"phase", "what", "cookie", "status"} : call'[c][j][f] = call[c][j][f]
<1> DEFINE new == [call[b][k] EXCEPT ![flag] = FALSE]
<1>1. DOMAIN call[b][k] = Fields /\ call[b][k].phase \in {"sent", "answered"}
  BY DEF CallShape
<1>2. DOMAIN new = Fields /\ \A f \in {"phase", "what", "cookie", "status"} : new[f] = call[b][k][f]
  BY <1>1 DEF Fields
<1>3. call' = [call EXCEPT ![b][k] = new]
  OBVIOUS
<1> HIDE DEF new
<1>4. /\ call'[b][k] = new /\ DOMAIN call' = Browsers
      /\ \A c \in Browsers : DOMAIN call'[c] = A!Kinds
      /\ \A c \in Browsers, j \in A!Kinds : c # b \/ j # k => call'[c][j] = call[c][j]
  BY <1>3 DEF CallShape
<1>5. new # A!Nothing
  BY <1>1, <1>2 DEF A!Nothing
<1>6. CallShape'
  <2> SUFFICES ASSUME NEW c \in Browsers, NEW j \in A!Kinds
               PROVE  call'[c][j] = A!Nothing \/ (DOMAIN call'[c][j] = Fields /\ call'[c][j].phase \in {"sent", "answered"})
    BY <1>4 DEF CallShape
  <2>1. CASE c = b /\ j = k
    <3>1. call'[c][j] = new /\ new.phase = call[b][k].phase
      BY <1>2, <1>4, <2>1
    <3> QED
      BY <1>1, <1>2, <3>1
  <2>2. CASE c # b \/ j # k
    <3>1. call'[c][j] = call[c][j]
      BY <1>4, <2>2
    <3>2. call[c][j] = A!Nothing \/ (DOMAIN call[c][j] = Fields /\ call[c][j].phase \in {"sent", "answered"})
      BY DEF CallShape
    <3> QED
      BY <3>1, <3>2
  <2> QED
    BY <2>1, <2>2
<1>7. call'[b][k] # A!Nothing /\ \A f \in {"phase", "what", "cookie", "status"} : call'[b][k][f] = call[b][k][f]
  BY <1>2, <1>4, <1>5
<1> QED
  <2> SUFFICES ASSUME NEW c \in Browsers, NEW j \in A!Kinds
               PROVE  /\ call'[c][j] = A!Nothing <=> call[c][j] = A!Nothing
                      /\ call[c][j] # A!Nothing =>
                           \A f \in {"phase", "what", "cookie", "status"} : call'[c][j][f] = call[c][j][f]
    BY <1>6
  <2>1. CASE c = b /\ j = k
    BY <1>7, <2>1
  <2>2. CASE c # b \/ j # k
    BY <1>4, <2>2
  <2> QED
    BY <2>1, <2>2

\* The API answers, and creates or ends sessions; those it creates are new.
LEMMA Answered ==
  ASSUME AccountInv, NEW b \in Browsers, NEW k \in A!Kinds, call[b][k].phase = "sent",
         NEW status, NEW set, NEW name, A!Answer(b, k, status, set, name),
         UNCHANGED <<screen, shown, form, cookie>>,
         \A c \in Browsers : cookie[c] \in sessions' => cookie[c] \in sessions,
         k = "check" /\ status = 401 => call[b]["check"].cookie \notin sessions
  PROVE  AccountInv'
<1> USE DEF AccountInv
<1>1. /\ CallShape'
      /\ call'[b][k].phase = "answered" /\ call'[b][k].status = status
      /\ call'[b][k].what = call[b][k].what /\ call'[b][k].cookie = call[b][k].cookie
      /\ call[b][k] # A!Nothing /\ call'[b][k] # A!Nothing
      /\ \A c \in Browsers, j \in A!Kinds : c # b \/ j # k => call'[c][j] = call[c][j]
  BY AnswerEffect
<1>2. ScreenShape'
  BY DEF ScreenShape
<1>3. \A c \in Browsers, j \in A!Kinds :
        /\ call'[c][j] = A!Nothing <=> call[c][j] = A!Nothing
        /\ call'[c][j].what = call[c][j].what /\ call'[c][j].cookie = call[c][j].cookie
  BY <1>1
<1>4. PageFits'
  BY <1>3 DEF PageFits, A!Idle, A!Kinds
<1>5. CheckFits'
  <2> SUFFICES ASSUME NEW c \in Browsers, call'[c]["check"] # A!Nothing
               PROVE  /\ screen[c] = "authenticated" /\ call'[c]["check"].what = "check"
                      /\ call'[c]["check"].cookie = cookie[c]
                      /\ call'[c]["check"].phase = "answered" /\ call'[c]["check"].status = 401 => cookie[c] \notin sessions'
    BY DEF CheckFits, A!Idle
  <2>1. /\ screen[c] = "authenticated" /\ call[c]["check"].what = "check"
        /\ call[c]["check"].cookie = cookie[c]
        /\ call[c]["check"].phase = "answered" /\ call[c]["check"].status = 401 => cookie[c] \notin sessions
    BY <1>3 DEF CheckFits, A!Idle, A!Kinds
  <2>2. CASE c = b /\ k = "check"
    BY <1>1, <1>3, <2>1, <2>2 DEF A!Kinds
  <2>3. CASE c # b \/ k # "check"
    BY <1>1, <2>1, <2>3 DEF A!Kinds
  <2> QED
    BY <2>2, <2>3
<1> QED
  BY <1>1, <1>2, <1>4, <1>5

\* A page, a form or the dashboard asks for something.
LEMMA Requested ==
  ASSUME AccountInv, NEW b \in Browsers, NEW k \in A!Kinds, NEW what, NEW body, A!Request(b, k, what, body),
         UNCHANGED <<screen, shown, form, cookie, sessions>>,
         \/ k = "page" /\ what = "state" /\ screen[b] = "loading"
         \/ k = "page" /\ what \in {"setup", "login"} /\ screen[b] = what
         \/ k # "page" /\ screen[b] = "authenticated" /\ (k = "check" => what = "check")
  PROVE  AccountInv'
<1> USE DEF AccountInv
<1>1. /\ CallShape'
      /\ call'[b][k].phase = "sent" /\ call'[b][k].what = what /\ call'[b][k].cookie = cookie[b]
      /\ call'[b][k] # A!Nothing
      /\ \A c \in Browsers, j \in A!Kinds : c # b \/ j # k => call'[c][j] = call[c][j]
  BY RequestEffect
<1>2. ScreenShape'
  BY DEF ScreenShape
<1>3. PageFits'
  <2> SUFFICES ASSUME NEW c \in Browsers
               PROVE  /\ call'[c]["page"] # A!Nothing =>
                           \/ call'[c]["page"].what = "state" /\ screen[c] = "loading"
                           \/ call'[c]["page"].what \in {"setup", "login"} /\ screen[c] \in {"setup", "login"}
                      /\ screen[c] = "loading" => \A j \in A!Kinds : j = "page" \/ call'[c][j] = A!Nothing
                      /\ form[c] # None => screen[c] = "authenticated"
    BY DEF PageFits, A!Idle
  <2>1. CASE c # b
    BY <1>1, <2>1 DEF PageFits, A!Idle, A!Kinds
  <2>2. CASE c = b /\ k = "page"
    BY <1>1, <2>2 DEF PageFits, A!Idle, A!Kinds
  <2>3. CASE c = b /\ k # "page"
    BY <1>1, <2>3 DEF PageFits, A!Idle, A!Kinds
  <2> QED
    BY <2>1, <2>2, <2>3
<1>4. CheckFits'
  <2> SUFFICES ASSUME NEW c \in Browsers, call'[c]["check"] # A!Nothing
               PROVE  /\ screen[c] = "authenticated" /\ call'[c]["check"].what = "check"
                      /\ call'[c]["check"].cookie = cookie[c]
                      /\ call'[c]["check"].phase = "answered" /\ call'[c]["check"].status = 401 => cookie[c] \notin sessions
    BY DEF CheckFits, A!Idle
  <2>1. CASE c = b /\ k = "check"
    BY <1>1, <2>1
  <2>2. CASE c # b \/ k # "check"
    BY <1>1, <2>2 DEF CheckFits, A!Idle, A!Kinds
  <2> QED
    BY <2>1, <2>2
<1> QED
  BY <1>1, <1>2, <1>3, <1>4

\* A call ends, and the page may change with it.
LEMMA Ended ==
  ASSUME AccountInv, NEW b \in Browsers, NEW k \in A!Kinds, NEW to, A!Done(b, k, to),
         UNCHANGED sessions, ScreenShape',
         \A c \in Browsers \ {b} : screen'[c] = screen[c] /\ form'[c] = form[c] /\ cookie'[c] = cookie[c],
         k # "page" /\ ~A!Idle(b, "page") =>
           \/ screen'[b] = screen[b]
           \/ screen[b] # "loading" /\ screen'[b] \in {"setup", "login"},
         screen'[b] = "loading" => screen[b] = "loading",
         form'[b] # None => screen'[b] = "authenticated",
         k # "check" /\ to = "authenticated" /\ ~A!Idle(b, "check") =>
           screen'[b] = "authenticated" /\ cookie'[b] = cookie[b]
  PROVE  AccountInv'
<1> USE DEF AccountInv
<1>1. /\ CallShape'
      /\ \A c \in Browsers, j \in A!Kinds :
           call'[c][j] = IF c = b /\ (j = k \/ (j = "check" /\ to # "authenticated"))
                         THEN A!Nothing ELSE call[c][j]
  BY DoneEffect
<1>2. PageFits'
  <2> SUFFICES ASSUME NEW c \in Browsers
               PROVE  /\ call'[c]["page"] # A!Nothing =>
                           \/ call'[c]["page"].what = "state" /\ screen'[c] = "loading"
                           \/ call'[c]["page"].what \in {"setup", "login"} /\ screen'[c] \in {"setup", "login"}
                      /\ screen'[c] = "loading" => \A j \in A!Kinds : j = "page" \/ call'[c][j] = A!Nothing
                      /\ form'[c] # None => screen'[c] = "authenticated"
    BY DEF PageFits, A!Idle
  <2>1. CASE c # b
    BY <1>1, <2>1 DEF PageFits, A!Idle, A!Kinds
  <2>2. CASE c = b
    <3>1. ASSUME call'[b]["page"] # A!Nothing
          PROVE  \/ call'[b]["page"].what = "state" /\ screen'[b] = "loading"
                 \/ call'[b]["page"].what \in {"setup", "login"} /\ screen'[b] \in {"setup", "login"}
      <4>1. k # "page" /\ call'[b]["page"] = call[b]["page"]
        BY <1>1, <3>1 DEF A!Kinds
      <4> QED
        BY <3>1, <4>1 DEF PageFits, A!Idle
    <3>2. screen'[b] = "loading" => \A j \in A!Kinds : j = "page" \/ call'[b][j] = A!Nothing
      BY <1>1 DEF PageFits, A!Idle
    <3> QED
      BY <2>2, <3>1, <3>2
  <2> QED
    BY <2>1, <2>2
<1>3. CheckFits'
  <2> SUFFICES ASSUME NEW c \in Browsers, call'[c]["check"] # A!Nothing
               PROVE  /\ screen'[c] = "authenticated" /\ call'[c]["check"].what = "check"
                      /\ call'[c]["check"].cookie = cookie'[c]
                      /\ call'[c]["check"].phase = "answered" /\ call'[c]["check"].status = 401 => cookie'[c] \notin sessions
    BY DEF CheckFits, A!Idle
  <2>1. CASE c # b
    BY <1>1, <2>1 DEF CheckFits, A!Idle, A!Kinds
  <2>2. CASE c = b
    <3>1. k # "check" /\ to = "authenticated" /\ call'[b]["check"] = call[b]["check"]
      BY <1>1, <2>2 DEF A!Kinds
    <3> QED
      BY <2>2, <3>1 DEF CheckFits, A!Idle
  <2> QED
    BY <2>1, <2>2
<1> QED
  BY <1>1, <1>2, <1>3

\* Nobody with a live session goes from the dashboard to the login page, but by a logout.
Just ==
  \A c \in Browsers :
    screen[c] = "authenticated" /\ screen'[c] = "login" => cookie[c] \notin sessions \/ A!Got(c, "logout", "logout")

\* The answers of the API leave the pages alone.
LEMMA ApiStep ==
  ASSUME AccountInv, NEW b \in Browsers, NEW k \in A!Kinds,
         \/ A!Unauthenticated(b, k) \/ A!BadGateway(b, k)
         \/ A!AnswerState(b) \/ A!Setup(b) \/ A!Login(b) \/ A!Update(b) \/ A!Reboot(b) \/ A!Check(b) \/ A!Logout(b)
  PROVE  AccountInv' /\ Just
<1> USE DEF A!page
<1>1. screen' = screen
  BY DEF A!Unauthenticated, A!BadGateway, A!AnswerState, A!Setup, A!Login, A!Update, A!Reboot, A!Check, A!Logout
<1>2. Just
  BY <1>1 DEF Just
<1>3. CASE A!Unauthenticated(b, k)
  <2>1. /\ call[b][k].phase = "sent" /\ A!Answer(b, k, 401, "keep", None)
        /\ UNCHANGED <<screen, shown, form, cookie, sessions>> /\ call[b][k].cookie \notin sessions
    BY <1>3 DEF A!Unauthenticated, A!Sent, A!ValidSession, A!api
  <2> QED
    BY <1>2, <2>1, Answered
<1>4. CASE A!BadGateway(b, k)
  <2>1. /\ call[b][k].phase = "sent" /\ A!Answer(b, k, 502, "keep", None)
        /\ UNCHANGED <<screen, shown, form, cookie, sessions>>
    BY <1>4 DEF A!BadGateway, A!api
  <2> QED
    BY <1>2, <2>1, Answered
<1> "page" \in A!Kinds /\ "dialog" \in A!Kinds /\ "check" \in A!Kinds /\ "logout" \in A!Kinds
  BY DEF A!Kinds
<1>5. CASE A!AnswerState(b)
  <2>1. PICK name : /\ call[b]["page"].phase = "sent" /\ A!Answer(b, "page", 200, "keep", name)
                    /\ UNCHANGED <<screen, shown, form, cookie, sessions>>
    BY <1>5 DEF A!AnswerState, A!Sent, A!api
  <2> QED
    BY <1>2, <2>1, Answered
\* A new session is nobody's yet.
<1>a. ASSUME A!CreateSession(b), call[b]["page"].phase = "sent", UNCHANGED <<screen, shown, form, cookie>>
      PROVE  AccountInv'
  <2>1. PICK id : /\ A!Fresh(id) /\ sessions' = sessions \cup {id}
                  /\ A!Answer(b, "page", 200, id, call[b]["page"].body.name)
    BY <1>a DEF A!CreateSession
  <2>2. \A c \in Browsers : cookie[c] \in sessions' => cookie[c] \in sessions
    BY <2>1 DEF A!Fresh
  <2> QED
    BY <1>a, <2>1, <2>2, Answered
<1>b. ASSUME NEW j \in A!Kinds, NEW status, NEW name, A!Answer(b, j, status, "keep", name), j # "check",
             call[b][j].phase = "sent", UNCHANGED <<screen, shown, form, cookie, sessions>>
      PROVE  AccountInv'
  BY <1>b, Answered
<1>6. CASE A!Setup(b)
  <2>1. call[b]["page"].phase = "sent" /\ UNCHANGED <<screen, shown, form, cookie>>
    BY <1>6 DEF A!Setup, A!Sent
  <2>2. A!CreateSession(b) \/ (A!Answer(b, "page", 409, "keep", None) /\ UNCHANGED sessions)
    BY <1>6 DEF A!Setup
  <2> QED
    BY <1>2, <1>a, <1>b, <2>1, <2>2
<1>7. CASE A!Login(b)
  <2>1. call[b]["page"].phase = "sent" /\ UNCHANGED <<screen, shown, form, cookie>>
    BY <1>7 DEF A!Login, A!Sent
  <2>2. A!CreateSession(b) \/ (UNCHANGED sessions /\ \E status : A!Answer(b, "page", status, "keep", None))
    BY <1>7 DEF A!Login, A!TooMany, A!WrongPassword
  <2> QED
    BY <1>2, <1>a, <1>b, <2>1, <2>2
<1>8. CASE A!Update(b)
  <2>1. call[b]["dialog"].phase = "sent" /\ UNCHANGED <<screen, shown, form, cookie, sessions>>
    BY <1>8 DEF A!Update, A!Sent, A!TooMany, A!WrongPassword
  <2>2. \E status, name : A!Answer(b, "dialog", status, "keep", name)
    BY <1>8 DEF A!Update, A!TooMany, A!WrongPassword
  <2> QED
    BY <1>2, <1>b, <2>1, <2>2
<1>9. CASE A!Reboot(b)
  <2>1. call[b]["dialog"].phase = "sent" /\ UNCHANGED <<screen, shown, form, cookie, sessions>>
    BY <1>9 DEF A!Reboot, A!Sent, A!TooMany, A!WrongPassword
  <2>2. \E status, name : A!Answer(b, "dialog", status, "keep", name)
    BY <1>9 DEF A!Reboot, A!TooMany, A!WrongPassword, A!RequestReboot
  <2> QED
    BY <1>2, <1>b, <2>1, <2>2
<1>10. CASE A!Check(b)
  <2>1. /\ call[b]["check"].phase = "sent" /\ A!Answer(b, "check", 200, "keep", None)
        /\ UNCHANGED <<screen, shown, form, cookie, sessions>>
    BY <1>10 DEF A!Check, A!Sent, A!api
  <2> QED
    BY <1>2, <2>1, Answered
<1>11. CASE A!Logout(b)
  <2>1. /\ call[b]["logout"].phase = "sent" /\ A!Answer(b, "logout", 200, None, None)
        /\ UNCHANGED <<screen, shown, form, cookie>> /\ sessions' \subseteq sessions
    BY <1>11 DEF A!Logout, A!Sent
  <2> QED
    BY <1>2, <2>1, Answered
<1> QED
  BY <1>3, <1>4, <1>5, <1>6, <1>7, <1>8, <1>9, <1>10, <1>11

\* What a browser asks for leaves its page alone.
LEMMA AskStep ==
  ASSUME AccountInv, NEW b \in Browsers,
         \/ A!Load(b) \/ A!SendCheck(b) \/ A!SubmitLogout(b)
         \/ \E what \in {"setup", "login"}, c \in A!Accounts : A!Submit(b, what, c)
         \/ \E current, n, p : A!SubmitForm(b, current, n, p)
         \/ \E current : A!SubmitReboot(b, current)
  PROVE  AccountInv' /\ Just
<1> USE DEF A!page, A!api
<1> "page" \in A!Kinds /\ "dialog" \in A!Kinds /\ "check" \in A!Kinds /\ "logout" \in A!Kinds
  BY DEF A!Kinds
<1>1. UNCHANGED <<screen, shown, form, cookie, sessions>>
  BY DEF A!Load, A!SendCheck, A!SubmitLogout, A!Submit, A!SubmitForm, A!SubmitReboot
<1>2. Just
  BY <1>1 DEF Just
<1>3. CASE A!Load(b)
  <2>1. screen[b] = "loading" /\ A!Request(b, "page", "state", None)
    BY <1>3 DEF A!Load
  <2> QED
    BY <1>1, <1>2, <2>1, Requested
<1>4. CASE A!SendCheck(b)
  <2>1. screen[b] = "authenticated" /\ A!Request(b, "check", "check", None)
    BY <1>4 DEF A!SendCheck
  <2> QED
    BY <1>1, <1>2, <2>1, Requested
<1>5. CASE A!SubmitLogout(b)
  <2>1. screen[b] = "authenticated" /\ A!Request(b, "logout", "logout", None)
    BY <1>5 DEF A!SubmitLogout
  <2> QED
    BY <1>1, <1>2, <2>1, Requested
<1>6. CASE \E what \in {"setup", "login"}, c \in A!Accounts : A!Submit(b, what, c)
  <2>1. PICK what \in {"setup", "login"}, c \in A!Accounts : screen[b] = what /\ A!Request(b, "page", what, c)
    BY <1>6 DEF A!Submit
  <2> QED
    BY <1>1, <1>2, <2>1, Requested
<1>7. CASE \E current, n, p : A!SubmitForm(b, current, n, p)
  <2>1. PICK body : form[b] # None /\ A!Request(b, "dialog", "update", body)
    BY <1>7 DEF A!SubmitForm
  <2>2. screen[b] = "authenticated"
    BY <2>1 DEF AccountInv, PageFits
  <2> QED
    BY <1>1, <1>2, <2>1, <2>2, Requested
<1>8. CASE \E current : A!SubmitReboot(b, current)
  <2>1. PICK body : screen[b] = "authenticated" /\ A!Request(b, "dialog", "reboot", body)
    BY <1>8 DEF A!SubmitReboot
  <2> QED
    BY <1>1, <1>2, <2>1, Requested
<1> QED
  BY <1>3, <1>4, <1>5, <1>6, <1>7, <1>8

\* Of the pages that appear only the dashboard has a form.
LEMMA Shown ==
  ASSUME ScreenShape, NEW b \in Browsers, NEW to, NEW name, A!Show(b, to, name)
  PROVE  /\ DOMAIN screen' = Browsers /\ DOMAIN shown' = Browsers /\ DOMAIN form' = Browsers
         /\ screen'[b] = to /\ (form'[b] # None => to = "authenticated")
         /\ \A c \in Browsers \ {b} : screen'[c] = screen[c] /\ form'[c] = form[c]
BY DEF ScreenShape, A!Show

\* The page hears an answer, or that there is none.
LEMMA HeardStep ==
  ASSUME AccountInv, NEW b \in Browsers,
         A!StateKnown(b) \/ A!Entered(b) \/ A!FormAnswered(b) \/ A!Checked(b) \/ A!LoggedOut(b)
  PROVE  AccountInv' /\ Just
<1> USE DEF A!page, A!api
<1> "page" \in A!Kinds /\ "dialog" \in A!Kinds /\ "check" \in A!Kinds /\ "logout" \in A!Kinds
  BY DEF A!Kinds
<1>0. CallShape /\ ScreenShape /\ PageFits /\ CheckFits
  BY DEF AccountInv
<1>1. \A k \in A!Kinds : \A what : A!Got(b, k, what) => ~A!Idle(b, k) /\ call[b][k].what = what
  BY <1>0 DEF CallShape, A!Got, A!Idle, A!Nothing
<1>2. CASE A!StateKnown(b)
  <2>1. PICK to, name : A!Show(b, to, name) /\ to \in {"setup", "authenticated", "login"}
    BY <1>2 DEF A!StateKnown
  <2>2. A!Done(b, "page", "authenticated") /\ UNCHANGED <<sessions, cookie>> /\ A!Got(b, "page", "state")
    BY <1>2 DEF A!StateKnown
  <2>3. screen[b] = "loading" /\ A!Idle(b, "check")
    BY <1>0, <1>1, <2>2 DEF PageFits
  <2>4. /\ ScreenShape' /\ screen'[b] = to /\ (form'[b] # None => to = "authenticated")
        /\ \A c \in Browsers \ {b} : screen'[c] = screen[c] /\ form'[c] = form[c] /\ cookie'[c] = cookie[c]
    BY <1>0, <2>1, <2>2, Shown DEF ScreenShape
  <2>5. AccountInv'
    BY <2>2, <2>3, <2>4, Ended
  <2>6. Just
    BY <2>3, <2>4 DEF Just
  <2> QED
    BY <2>5, <2>6
<1>3. CASE A!Entered(b)
  <2>1. /\ A!Done(b, "page", "authenticated") /\ UNCHANGED sessions
        /\ A!Got(b, "page", "setup") \/ A!Got(b, "page", "login")
        /\ A!SetCookie(b, "page")
    BY <1>3 DEF A!Entered
  <2>2. screen[b] \in {"setup", "login"} /\ A!Idle(b, "check")
    BY <1>0, <1>1, <2>1 DEF PageFits, CheckFits
  <2>3. DOMAIN cookie' = Browsers /\ \A c \in Browsers \ {b} : cookie'[c] = cookie[c]
    BY <1>0, <2>1 DEF A!SetCookie, ScreenShape
  <2>4. (\E name : A!Show(b, "authenticated", name)) \/ UNCHANGED <<screen, shown, form>>
    BY <1>3 DEF A!Entered
  <2>5. /\ ScreenShape' /\ screen'[b] # "loading" /\ (form'[b] # None => screen'[b] = "authenticated")
        /\ \A c \in Browsers \ {b} : screen'[c] = screen[c] /\ form'[c] = form[c]
    <3>1. CASE \E name : A!Show(b, "authenticated", name)
      BY <1>0, <2>3, <3>1, Shown DEF ScreenShape
    <3>2. CASE UNCHANGED <<screen, shown, form>>
      BY <1>0, <2>2, <2>3, <3>2 DEF ScreenShape, PageFits
    <3> QED
      BY <2>4, <3>1, <3>2
  <2>6. AccountInv'
    BY <2>1, <2>2, <2>3, <2>5, Ended
  <2>7. Just
    BY <2>2, <2>5 DEF Just
  <2> QED
    BY <2>6, <2>7
<1>4. CASE A!FormAnswered(b)
  <2>1. A!Done(b, "dialog", "authenticated") /\ UNCHANGED <<sessions, screen, shown, cookie>>
    BY <1>4 DEF A!FormAnswered
  <2>2. form' = form \/ (form[b] # None /\ \E name : form' = [form EXCEPT ![b] = name])
    BY <1>4 DEF A!FormAnswered
  <2>3. /\ ScreenShape' /\ (form'[b] # None => screen'[b] = "authenticated")
        /\ \A c \in Browsers \ {b} : screen'[c] = screen[c] /\ form'[c] = form[c] /\ cookie'[c] = cookie[c]
    BY <1>0, <2>1, <2>2 DEF ScreenShape, PageFits
  <2>4. AccountInv'
    BY <1>0, <2>1, <2>3, Ended DEF CheckFits
  <2> QED
    BY <2>1, <2>4 DEF Just
<1>5. CASE A!Checked(b)
  <2>1. A!Got(b, "check", "check") /\ UNCHANGED <<sessions, cookie>>
    BY <1>5 DEF A!Checked
  <2>2. /\ screen[b] = "authenticated" /\ A!Idle(b, "page")
        /\ call[b]["check"].status = 401 => cookie[b] \notin sessions
    BY <1>0, <1>1, <2>1 DEF PageFits, CheckFits, A!Got
  <2>3. CASE call[b]["check"].status = 401
    <3>1. A!Show(b, "login", None) /\ A!Done(b, "check", "login")
      BY <1>5, <2>3 DEF A!Checked
    <3>2. /\ ScreenShape' /\ screen'[b] = "login" /\ form'[b] = None
          /\ \A c \in Browsers \ {b} : screen'[c] = screen[c] /\ form'[c] = form[c] /\ cookie'[c] = cookie[c]
      BY <1>0, <2>1, <3>1, Shown DEF ScreenShape
    <3>3. AccountInv'
      BY <2>1, <2>2, <3>1, <3>2, Ended
    <3>4. Just
      BY <2>2, <2>3, <3>2 DEF Just
    <3> QED
      BY <3>3, <3>4
  <2>4. CASE call[b]["check"].status # 401
    <3>1. UNCHANGED <<screen, shown, form>> /\ A!Done(b, "check", "authenticated")
      BY <1>5, <2>4 DEF A!Checked
    <3>2. ScreenShape'
      BY <1>0, <2>1, <3>1 DEF ScreenShape
    <3>3. AccountInv'
      BY <2>1, <2>2, <3>1, <3>2, Ended
    <3> QED
      BY <3>1, <3>3 DEF Just
  <2> QED
    BY <2>3, <2>4
<1>6. CASE A!LoggedOut(b)
  <2>1. /\ A!Got(b, "logout", "logout") /\ A!SetCookie(b, "logout") /\ A!Show(b, "login", None)
        /\ A!Done(b, "logout", "login") /\ UNCHANGED sessions
    BY <1>6 DEF A!LoggedOut
  <2>2. screen[b] # "loading"
    BY <1>0, <1>1, <2>1 DEF PageFits
  <2>3. DOMAIN cookie' = Browsers /\ \A c \in Browsers \ {b} : cookie'[c] = cookie[c]
    BY <1>0, <2>1 DEF A!SetCookie, ScreenShape
  <2>4. /\ ScreenShape' /\ screen'[b] = "login" /\ form'[b] = None
        /\ \A c \in Browsers \ {b} : screen'[c] = screen[c] /\ form'[c] = form[c]
    BY <1>0, <2>1, <2>3, Shown DEF ScreenShape
  <2>5. AccountInv'
    BY <2>1, <2>2, <2>3, <2>4, Ended
  <2>6. Just
    BY <2>1, <2>4 DEF Just
  <2> QED
    BY <2>5, <2>6
<1> QED
  BY <1>2, <1>3, <1>4, <1>5, <1>6

\* A form that opens or closes, a page that is loaded again, and a request that is repeated.
LEMMA PageStep ==
  ASSUME AccountInv, NEW b \in Browsers, A!OpenForm(b) \/ A!CloseForm(b) \/ A!Reload(b)
  PROVE  AccountInv' /\ Just
<1> USE DEF A!page, A!api
<1> "page" \in A!Kinds /\ "dialog" \in A!Kinds /\ "check" \in A!Kinds /\ "logout" \in A!Kinds
  BY DEF A!Kinds
<1>0. CallShape /\ ScreenShape /\ PageFits /\ CheckFits
  BY DEF AccountInv
<1>1. CASE A!OpenForm(b)
  <2>1. /\ screen[b] = "authenticated" /\ form' = [form EXCEPT ![b] = shown[b]]
        /\ UNCHANGED <<sessions, screen, shown, cookie>>
    BY <1>1 DEF A!OpenForm
  <2>2. /\ CallShape'
        /\ \A c \in Browsers, j \in A!Kinds :
             /\ call'[c][j] = A!Nothing <=> call[c][j] = A!Nothing
             /\ call[c][j] # A!Nothing => \A f \in {"phase", "what", "cookie", "status"} : call'[c][j][f] = call[c][j][f]
    <3>1. CASE A!Idle(b, "dialog")
      BY <1>0, <1>1, <3>1 DEF A!OpenForm, CallShape
    <3>2. CASE ~A!Idle(b, "dialog")
      <4>1. call[b]["dialog"] # A!Nothing /\ call' = [call EXCEPT ![b]["dialog"]["heard"] = FALSE]
        BY <1>1, <3>2 DEF A!OpenForm, A!Idle
      <4> QED
        BY <1>0, <4>1, FlagEffect
    <3> QED
      BY <3>1, <3>2
  <2>3. ScreenShape'
    BY <1>0, <2>1 DEF ScreenShape
  <2>4. PageFits'
    BY <1>0, <2>1, <2>2 DEF PageFits, ScreenShape, A!Idle
  <2>5. CheckFits'
    BY <1>0, <2>1, <2>2 DEF CheckFits, A!Idle
  <2> QED
    BY <2>1, <2>2, <2>3, <2>4, <2>5 DEF AccountInv, Just
<1>2. CASE A!CloseForm(b)
  <2>1. form' = [form EXCEPT ![b] = None] /\ UNCHANGED <<sessions, screen, shown, cookie, call>>
    BY <1>2 DEF A!CloseForm
  <2>2. ScreenShape' /\ PageFits'
    BY <1>0, <2>1 DEF ScreenShape, PageFits, A!Idle
  <2>3. CallShape' /\ CheckFits'
    BY <1>0, <2>1 DEF CallShape, CheckFits, A!Idle
  <2> QED
    BY <2>1, <2>2, <2>3 DEF AccountInv, Just
<1>3. CASE A!Reload(b)
  <2>1. /\ \A k \in A!Kinds : A!Idle(b, k)
        /\ A!Show(b, "loading", None) /\ UNCHANGED <<sessions, cookie, call>>
    BY <1>3 DEF A!Reload
  <2>2. /\ ScreenShape' /\ screen'[b] = "loading" /\ form'[b] = None
        /\ \A c \in Browsers \ {b} : screen'[c] = screen[c] /\ form'[c] = form[c]
    BY <1>0, <2>1, Shown DEF ScreenShape
  <2>3. PageFits'
    BY <1>0, <2>1, <2>2 DEF PageFits, A!Idle
  <2>4. CallShape' /\ CheckFits'
    BY <1>0, <2>1, <2>2 DEF CallShape, CheckFits, A!Idle
  <2> QED
    BY <2>2, <2>3, <2>4 DEF AccountInv, Just
<1> QED
  BY <1>1, <1>2, <1>3

LEMMA LostStep ==
  ASSUME AccountInv, NEW b \in Browsers, NEW k \in A!Kinds, A!Lost(b, k)
  PROVE  AccountInv' /\ Just
<1> USE DEF A!page, A!api
<1> "page" \in A!Kinds /\ "dialog" \in A!Kinds /\ "check" \in A!Kinds /\ "logout" \in A!Kinds
  BY DEF A!Kinds
<1>0. CallShape /\ ScreenShape /\ PageFits /\ CheckFits
  BY DEF AccountInv
<1>1. ~A!Idle(b, k) /\ UNCHANGED <<sessions, cookie>>
  BY DEF A!Lost
<1>2. CASE A!Sent(b, "page", "login") /\ k = "page" /\ call[b][k].again
  <2>1. call' = [call EXCEPT ![b][k]["again"] = FALSE] /\ UNCHANGED <<screen, shown, form>>
    BY <1>2 DEF A!Lost
  <2>2. /\ CallShape'
        /\ \A c \in Browsers, j \in A!Kinds :
             /\ call'[c][j] = A!Nothing <=> call[c][j] = A!Nothing
             /\ call[c][j] # A!Nothing => \A f \in {"phase", "what", "cookie", "status"} : call'[c][j][f] = call[c][j][f]
    BY <1>0, <1>1, <2>1, FlagEffect DEF A!Idle
  <2>3. ScreenShape'
    BY <1>0, <1>1, <2>1 DEF ScreenShape
  <2>4. PageFits'
    BY <1>0, <2>1, <2>2 DEF PageFits, A!Idle
  <2>5. CheckFits'
    BY <1>0, <1>1, <2>1, <2>2 DEF CheckFits, A!Idle
  <2> QED
    BY <2>1, <2>2, <2>3, <2>4, <2>5 DEF AccountInv, Just
<1>3. CASE ~(A!Sent(b, "page", "login") /\ k = "page" /\ call[b][k].again)
  <2>1. A!Done(b, k, "authenticated")
    BY <1>3 DEF A!Lost
  <2>2. CASE k = "page" /\ screen[b] = "loading"
    <3>1. A!Show(b, "login", None)
      BY <1>3, <2>2 DEF A!Lost
    <3>2. /\ ScreenShape' /\ screen'[b] = "login" /\ form'[b] = None
          /\ \A c \in Browsers \ {b} : screen'[c] = screen[c] /\ form'[c] = form[c] /\ cookie'[c] = cookie[c]
      BY <1>0, <1>1, <3>1, Shown DEF ScreenShape
    <3>3. A!Idle(b, "check")
      BY <1>0, <2>2 DEF PageFits
    <3>4. AccountInv'
      BY <1>1, <2>1, <2>2, <3>2, <3>3, Ended
    <3> QED
      BY <2>2, <3>2, <3>4 DEF Just
  <2>3. CASE ~(k = "page" /\ screen[b] = "loading")
    <3>1. UNCHANGED <<screen, shown, form>>
      BY <1>3, <2>3 DEF A!Lost
    <3>2. ScreenShape' /\ (form'[b] # None => screen'[b] = "authenticated")
      BY <1>0, <1>1, <3>1 DEF ScreenShape, PageFits
    <3>3. ~A!Idle(b, "check") => screen'[b] = "authenticated"
      BY <1>0, <3>1 DEF CheckFits
    <3>4. AccountInv'
      BY <1>1, <2>1, <3>1, <3>2, <3>3, Ended
    <3> QED
      BY <3>1, <3>4 DEF Just
  <2> QED
    BY <2>2, <2>3
<1> QED
  BY <1>2, <1>3

LEMMA AccountStays ==
  ASSUME AccountInv, A!Step
  PROVE  AccountInv' /\ Just
<1>1. CASE \E b \in Browsers, k \in A!Kinds : A!Answers(b, k) \/ A!Lost(b, k)
  BY <1>1, ApiStep, HeardStep, LostStep DEF A!Answers
<1>2. CASE \E b \in Browsers : \/ A!Load(b) \/ A!OpenForm(b) \/ A!CloseForm(b) \/ A!SendCheck(b)
                               \/ A!SubmitLogout(b) \/ A!Reload(b)
  BY <1>2, AskStep, PageStep
<1>3. CASE \E b \in Browsers, what \in {"setup", "login"}, c \in A!Accounts : A!Submit(b, what, c)
  BY <1>3, AskStep
<1>4. CASE \E b \in Browsers, current \in Passwords, n \in Names, p \in Passwords \cup {None} :
             A!SubmitForm(b, current, n, p)
  BY <1>4, AskStep
<1>5. CASE \E b \in Browsers, current \in Passwords : A!SubmitReboot(b, current)
  BY <1>5, AskStep
<1>6. CASE (\E a \in Addresses : A!Forgive(a)) \/ A!Restart
  <2>1. UNCHANGED <<screen, shown, form, cookie, call>> /\ sessions' \subseteq sessions
    BY <1>6 DEF A!Forgive, A!Restart, A!page
  <2>2. CallShape' /\ ScreenShape' /\ PageFits'
    BY <2>1 DEF AccountInv, CallShape, ScreenShape, PageFits, A!Idle
  <2>3. CheckFits'
    BY <2>1 DEF AccountInv, CheckFits, A!Idle
  <2> QED
    BY <2>1, <2>2, <2>3 DEF AccountInv, Just
<1> QED
  BY <1>1, <1>2, <1>3, <1>4, <1>5, <1>6 DEF A!Step

\* Nobody with a live session is sent to the login page: no late answer of a check that an
\* earlier login made is heard (AuthContext.tsx:73-96).
THEOREM ThrownOutJustlyHolds == A!Spec => ThrownOutJustly
<1>1. AccountInv /\ [A!Next]_<<A!operatorVars, use>> => AccountInv'
  <2> SUFFICES ASSUME AccountInv, [A!Next]_<<A!operatorVars, use>>
               PROVE  AccountInv'
    OBVIOUS
  <2>1. CASE A!Next
    BY <2>1, AccountStays DEF A!Next
  <2>2. CASE UNCHANGED <<A!operatorVars, use>>
    BY <2>2 DEF AccountInv, CallShape, ScreenShape, PageFits, CheckFits, A!Idle, A!operatorVars, A!api, A!page
  <2> QED
    BY <2>1, <2>2
<1>2. AccountInv /\ [A!Next]_<<A!operatorVars, use>> =>
        [\A b \in Browsers :
           screen[b] = "authenticated" /\ screen'[b] = "login" =>
             cookie[b] \notin sessions \/ A!Got(b, "logout", "logout")]_(A!operatorVars)
  BY AccountStays DEF A!Next, Just
<1> QED
  BY <1>1, <1>2, AccountInit, PTL DEF A!Spec, ThrownOutJustly, A!ThrownOutJustly

-----------------------------------------------------------------------------
(* LineList                                                                *)

\* Induction, as the theorem about least numbers that it rests on: where a claim fails it
\* fails first.
LEMMA LeastNumber ==
  ASSUME NEW T, T \subseteq Nat, T # {}
  PROVE  \E n \in T : \A m \in T : n <= m
<1>1. PICK n \in T : \A m \in T : ~(<<m, n>> \in OpToRel(<, Nat))
  BY WFMin, NatLessThanWellFounded, Zenon
<1>2. \A m \in T : ~(m < n)
  BY <1>1 DEF OpToRel
<1> QED
  BY <1>2

\* The filter looks at one id after the other.
LEMMA FilterSteps ==
  ASSUME NEW ids, Len(ids) \in Nat, NEW K
  PROVE  L!Filtered(ids, K) =
           [n \in 0 .. Len(ids) |->
              IF n = 0 THEN <<>>
              ELSE IF ids[n] \in K THEN Append(L!Filtered(ids, K)[n - 1], ids[n])
                   ELSE L!Filtered(ids, K)[n - 1]]
<1> DEFINE Grown(x, n) == IF ids[n] \in K THEN Append(x, ids[n]) ELSE x
           Goes(f, m) == f = [n \in 0 .. m |-> IF n = 0 THEN <<>> ELSE Grown(f[n - 1], n)]
           Bad == {m \in 0 .. Len(ids) : ~(\E f : Goes(f, m))}
<1>1. Bad = {}
  <2> SUFFICES ASSUME Bad # {}
               PROVE  FALSE
    OBVIOUS
  <2>1. PICK m \in Bad : \A k \in Bad : m <= k
    <3>1. Bad \subseteq Nat
      OBVIOUS
    <3> HIDE DEF Bad
    <3> QED
      BY <3>1, LeastNumber
  <2>2. m \in Nat /\ m <= Len(ids) /\ ~(\E f : Goes(f, m))
    <3>1. m \in Bad
      OBVIOUS
    <3> HIDE DEF Goes
    <3> QED
      BY <3>1
  <2>3. m # 0
    <3>1. Goes([n \in 0 .. 0 |-> <<>>], 0)
      OBVIOUS
    <3> HIDE DEF Goes
    <3> QED
      BY <2>2, <3>1
  <2>4. m - 1 \in 0 .. Len(ids) /\ m - 1 \notin Bad
    <3> HIDE DEF Bad
    <3> QED
      BY <2>1, <2>2, <2>3
  <2>5. PICK f : Goes(f, m - 1)
    BY <2>4
  <2> HIDE DEF Bad, Grown
  <2> DEFINE g == [n \in 0 .. m |-> IF n = m THEN Grown(f[m - 1], m) ELSE f[n]]
  <2>6. \A n \in 0 .. m : g[n] = IF n = 0 THEN <<>> ELSE Grown(g[n - 1], n)
    <3> SUFFICES ASSUME NEW n \in 0 .. m
                 PROVE  g[n] = IF n = 0 THEN <<>> ELSE Grown(g[n - 1], n)
      OBVIOUS
    <3>1. CASE n = m
      <4>1. g[m] = Grown(f[m - 1], m) /\ g[m - 1] = f[m - 1]
        BY <2>2, <2>3
      <4> QED
        BY <3>1, <4>1, <2>3
    <3>2. CASE n # m
      <4>1. n \in 0 .. m - 1 /\ g[n] = f[n]
        BY <3>2, <2>2
      <4>2. f[n] = IF n = 0 THEN <<>> ELSE Grown(f[n - 1], n)
        BY <4>1, <2>5
      <4>3. n # 0 => g[n - 1] = f[n - 1]
        BY <4>1, <2>2
      <4> QED
        BY <4>1, <4>2, <4>3
    <3> QED
      BY <3>1, <3>2
  <2>7. Goes(g, m)
    BY <2>6
  <2> QED
    BY <2>2, <2>7
<1>2. \E f : Goes(f, Len(ids))
  BY <1>1
<1>3. L!Filtered(ids, K) = CHOOSE f : Goes(f, Len(ids))
  BY DEF L!Filtered
<1>4. Goes(L!Filtered(ids, K), Len(ids))
  <2> HIDE DEF Goes
  <2> QED
    BY <1>2, <1>3
<1> QED
  BY <1>4

\* Induction over sequences: what holds of the empty one and stays with each element that
\* is added holds of all.
LEMMA GrowsToAll ==
  ASSUME NEW X, NEW T, <<>> \in T, \A q \in T \cap Seq(X), x \in X : Append(q, x) \in T
  PROVE  Seq(X) \subseteq T
<1> SUFFICES ASSUME NEW s \in Seq(X), s \notin T
             PROVE  FALSE
  OBVIOUS
<1> DEFINE Bad == {n \in 0 .. Len(s) : SubSeq(s, 1, n) \notin T}
<1>1. Len(s) \in Nat /\ Len(s) \in Bad
  <2>1. Len(s) \in Nat /\ SubSeq(s, 1, Len(s)) = s
    BY LenProperties, SubSeqFull
  <2>2. SubSeq(s, 1, Len(s)) \notin T
    BY <2>1, Zenon
  <2>3. Len(s) \in 0 .. Len(s)
    BY <2>1
  <2> QED
    BY <2>1, <2>2, <2>3, Zenon
<1>2. Bad \subseteq Nat
  OBVIOUS
<1>3. PICK m \in Bad : \A k \in Bad : m <= k
  <2> HIDE DEF Bad
  <2> QED
    BY <1>1, <1>2, LeastNumber
<1>4. m \in 0 .. Len(s) /\ SubSeq(s, 1, m) \notin T
  OBVIOUS
<1>5. m # 0
  <2>1. SubSeq(s, 1, 0) = <<>>
    BY SubSeqEmpty
  <2> QED
    BY <1>4, <2>1
<1>6. m - 1 \in 0 .. Len(s) /\ m - 1 \notin Bad
  <2> HIDE DEF Bad
  <2> QED
    BY <1>1, <1>3, <1>4, <1>5
<1>7. SubSeq(s, 1, m - 1) \in T
  BY <1>6
<1> HIDE DEF Bad
<1>8. SubSeq(s, 1, m - 1) \in Seq(X) /\ s[m] \in X
  BY <1>1, <1>4, <1>5
<1>9. SubSeq(s, 1, m) = Append(SubSeq(s, 1, m - 1), s[m])
  BY <1>1, <1>4, <1>5
<1> QED
  BY <1>4, <1>7, <1>8, <1>9

LEMMA KeepEmpty == \A K : L!Keep(<<>>, K) = <<>>
<1> SUFFICES ASSUME NEW K
             PROVE  L!Keep(<<>>, K) = <<>>
  OBVIOUS
<1>1. Len(<<>>) = 0
  OBVIOUS
<1> DEFINE F == L!Filtered(<<>>, K)
<1>2. F[0] = <<>>
  <2>1. F = [n \in 0 .. Len(<<>>) |->
               IF n = 0 THEN <<>> ELSE IF <<>>[n] \in K THEN Append(F[n - 1], <<>>[n]) ELSE F[n - 1]]
    BY <1>1, FilterSteps
  <2> HIDE DEF F
  <2> QED
    BY <1>1, <2>1
<1> QED
  BY <1>1, <1>2 DEF L!Keep

\* The filter of a longer list goes on from that of the shorter one.
LEMMA KeepAppend ==
  ASSUME NEW X, NEW q \in Seq(X), NEW x \in X, NEW K
  PROVE  L!Keep(Append(q, x), K) = IF x \in K THEN Append(L!Keep(q, K), x) ELSE L!Keep(q, K)
<1> DEFINE t == Append(q, x)
           F == L!Filtered(q, K)
           G == L!Filtered(t, K)
           Bad == {n \in 0 .. Len(q) : G[n] # F[n]}
<1>1. /\ Len(q) \in Nat /\ Len(t) = Len(q) + 1 /\ t[Len(q) + 1] = x
      /\ \A n \in 1 .. Len(q) : t[n] = q[n]
  BY LenProperties, AppendProperties
<1>2. \A n \in 0 .. Len(q) : F[n] = IF n = 0 THEN <<>> ELSE IF q[n] \in K THEN Append(F[n - 1], q[n]) ELSE F[n - 1]
  <2> HIDE DEF F
  <2>1. F = [n \in 0 .. Len(q) |-> IF n = 0 THEN <<>> ELSE IF q[n] \in K THEN Append(F[n - 1], q[n]) ELSE F[n - 1]]
    BY <1>1, FilterSteps DEF F
  <2> QED
    BY <2>1
<1>3. \A n \in 0 .. Len(t) : G[n] = IF n = 0 THEN <<>> ELSE IF t[n] \in K THEN Append(G[n - 1], t[n]) ELSE G[n - 1]
  <2> HIDE DEF G, t
  <2>1. G = [n \in 0 .. Len(t) |-> IF n = 0 THEN <<>> ELSE IF t[n] \in K THEN Append(G[n - 1], t[n]) ELSE G[n - 1]]
    BY <1>1, FilterSteps DEF G
  <2> QED
    BY <2>1
<1>4. Bad = {}
  <2> SUFFICES ASSUME Bad # {}
               PROVE  FALSE
    OBVIOUS
  <2>1. PICK m \in Bad : \A k \in Bad : m <= k
    <3>1. Bad \subseteq Nat
      BY <1>1
    <3> HIDE DEF Bad
    <3> QED
      BY <3>1, LeastNumber
  <2>2. m \in 0 .. Len(q) /\ G[m] # F[m]
    OBVIOUS
  <2> HIDE DEF F, G, t
  <2>3. m # 0
    BY <1>1, <1>2, <1>3, <2>2
  <2>4. m - 1 \in 0 .. Len(q) /\ m - 1 \notin Bad
    <3> HIDE DEF Bad
    <3> QED
      BY <1>1, <2>1, <2>2, <2>3
  <2>5. G[m - 1] = F[m - 1]
    BY <2>4
  <2> QED
    BY <1>1, <1>2, <1>3, <2>2, <2>3, <2>5
<1>5. G[Len(q)] = F[Len(q)]
  BY <1>1, <1>4
<1> HIDE DEF F, G, t
<1>6. G[Len(t)] = IF x \in K THEN Append(G[Len(q)], x) ELSE G[Len(q)]
  BY <1>1, <1>3
<1> QED
  BY <1>5, <1>6 DEF L!Keep, F, G, t

LEMMA RangeAppend ==
  ASSUME NEW X, NEW s \in Seq(X), NEW x \in X
  PROVE  L!ToSet(Append(s, x)) = L!ToSet(s) \cup {x}
<1> DEFINE t == Append(s, x)
<1>1. /\ Len(s) \in Nat /\ DOMAIN s = 1 .. Len(s) /\ DOMAIN t = 1 .. Len(s) + 1
      /\ t[Len(s) + 1] = x /\ \A n \in 1 .. Len(s) : t[n] = s[n]
  BY LenProperties, AppendProperties
<1> HIDE DEF t
<1>2. L!ToSet(t) = L!ToSet(s) \cup {x}
  BY <1>1 DEF L!ToSet
<1> QED
  BY <1>2 DEF t

LEMMA KeepType ==
  ASSUME NEW X, NEW K
  PROVE  \A s \in Seq(X) : L!Keep(s, K) \in Seq(X)
<1> DEFINE T == {s \in Seq(X) : L!Keep(s, K) \in Seq(X)}
<1>1. <<>> \in T
  BY KeepEmpty, EmptySeq
<1>2. ASSUME NEW q \in T, NEW x \in X
      PROVE  Append(q, x) \in T
  <2>1. L!Keep(Append(q, x), K) = IF x \in K THEN Append(L!Keep(q, K), x) ELSE L!Keep(q, K)
    BY KeepAppend
  <2>2. \A s \in Seq(X) : Append(s, x) \in Seq(X)
    BY AppendProperties
  <2> QED
    BY <2>1, <2>2
<1>3. Seq(X) \subseteq T
  <2> HIDE DEF T
  <2> QED
    BY <1>1, <1>2, GrowsToAll
<1> QED
  BY <1>3

\* What is kept is what is in the set.
LEMMA KeepRange ==
  ASSUME NEW X, NEW K
  PROVE  \A s \in Seq(X) : L!ToSet(L!Keep(s, K)) = L!ToSet(s) \cap K
<1> DEFINE T == {s \in Seq(X) : L!ToSet(L!Keep(s, K)) = L!ToSet(s) \cap K}
<1>1. <<>> \in T
  BY KeepEmpty, EmptySeq DEF L!ToSet
<1>2. ASSUME NEW q \in T, NEW x \in X
      PROVE  Append(q, x) \in T
  <2>1. Append(q, x) \in Seq(X) /\ L!Keep(q, K) \in Seq(X)
    BY KeepType
  <2>2. L!ToSet(L!Keep(q, K)) = L!ToSet(q) \cap K
    OBVIOUS
  <2>3. L!ToSet(Append(q, x)) = L!ToSet(q) \cup {x}
    BY RangeAppend
  <2>4. L!Keep(Append(q, x), K) = IF x \in K THEN Append(L!Keep(q, K), x) ELSE L!Keep(q, K)
    BY KeepAppend
  <2>5. L!ToSet(Append(L!Keep(q, K), x)) = L!ToSet(L!Keep(q, K)) \cup {x}
    BY <2>1, RangeAppend
  <2>6. L!ToSet(L!Keep(Append(q, x), K)) = L!ToSet(Append(q, x)) \cap K
    BY <2>2, <2>3, <2>4, <2>5
  <2> QED
    BY <2>1, <2>6
<1>3. Seq(X) \subseteq T
  <2> HIDE DEF T
  <2> QED
    BY <1>1, <1>2, GrowsToAll
<1> QED
  BY <1>3

LEMMA KeepConcat ==
  ASSUME NEW X, NEW K, NEW r \in Seq(X)
  PROVE  \A s \in Seq(X) : L!Keep(r \o s, K) = L!Keep(r, K) \o L!Keep(s, K)
<1> DEFINE T == {s \in Seq(X) : L!Keep(r \o s, K) = L!Keep(r, K) \o L!Keep(s, K)}
<1>0. L!Keep(r, K) \in Seq(X)
  BY KeepType
<1>1. <<>> \in T
  <2>1. r \o <<>> = r /\ L!Keep(r, K) \o <<>> = L!Keep(r, K)
    BY <1>0, ConcatEmptySeq
  <2> QED
    BY <2>1, KeepEmpty, EmptySeq
<1>2. ASSUME NEW q \in T, NEW x \in X
      PROVE  Append(q, x) \in T
  <2>1. /\ \A s, t \in Seq(X) : s \o Append(t, x) = Append(s \o t, x) /\ s \o t \in Seq(X)
        /\ Append(q, x) \in Seq(X) /\ L!Keep(q, K) \in Seq(X)
    BY KeepType
  <2>2. L!Keep(r \o Append(q, x), K) = IF x \in K THEN Append(L!Keep(r \o q, K), x) ELSE L!Keep(r \o q, K)
    <3>1. r \o q \in Seq(X) /\ r \o Append(q, x) = Append(r \o q, x)
      BY <2>1
    <3>2. L!Keep(Append(r \o q, x), K) = IF x \in K THEN Append(L!Keep(r \o q, K), x) ELSE L!Keep(r \o q, K)
      <4>1. \A u \in Seq(X) : L!Keep(Append(u, x), K) = IF x \in K THEN Append(L!Keep(u, K), x) ELSE L!Keep(u, K)
        BY KeepAppend
      <4> HIDE DEF T
      <4> QED
        BY <3>1, <4>1
    <3> QED
      BY <3>1, <3>2
  <2>3. L!Keep(Append(q, x), K) = IF x \in K THEN Append(L!Keep(q, K), x) ELSE L!Keep(q, K)
    BY KeepAppend
  <2>4. L!Keep(r \o q, K) = L!Keep(r, K) \o L!Keep(q, K)
    OBVIOUS
  <2>5. L!Keep(r, K) \o Append(L!Keep(q, K), x) = Append(L!Keep(r, K) \o L!Keep(q, K), x)
    BY <1>0, <2>1
  <2>6. L!Keep(r \o Append(q, x), K) = L!Keep(r, K) \o L!Keep(Append(q, x), K)
    BY <2>2, <2>3, <2>4, <2>5
  <2> QED
    BY <2>1, <2>6
<1>3. Seq(X) \subseteq T
  <2> HIDE DEF T
  <2> QED
    BY <1>1, <1>2, GrowsToAll
<1> QED
  BY <1>3

LEMMA KeepTwice ==
  ASSUME NEW X, NEW P, NEW Q
  PROVE  \A s \in Seq(X) : L!Keep(L!Keep(s, P), Q) = L!Keep(s, P \cap Q)
<1> DEFINE T == {s \in Seq(X) : L!Keep(L!Keep(s, P), Q) = L!Keep(s, P \cap Q)}
<1>1. <<>> \in T
  BY KeepEmpty, EmptySeq
<1>2. ASSUME NEW q \in T, NEW x \in X
      PROVE  Append(q, x) \in T
  <2>1. Append(q, x) \in Seq(X) /\ L!Keep(q, P) \in Seq(X)
    BY KeepType
  <2>2. L!Keep(Append(q, x), P) = IF x \in P THEN Append(L!Keep(q, P), x) ELSE L!Keep(q, P)
    BY KeepAppend
  <2>3. L!Keep(Append(L!Keep(q, P), x), Q) =
          IF x \in Q THEN Append(L!Keep(L!Keep(q, P), Q), x) ELSE L!Keep(L!Keep(q, P), Q)
    BY <2>1, KeepAppend
  <2>4. L!Keep(Append(q, x), P \cap Q) =
          IF x \in P \cap Q THEN Append(L!Keep(q, P \cap Q), x) ELSE L!Keep(q, P \cap Q)
    BY KeepAppend
  <2>5. L!Keep(L!Keep(Append(q, x), P), Q) = L!Keep(Append(q, x), P \cap Q)
    <3>1. L!Keep(L!Keep(q, P), Q) = L!Keep(q, P \cap Q)
      OBVIOUS
    <3> HIDE DEF T
    <3>2. CASE x \in P
      <4>1. L!Keep(Append(q, x), P) = Append(L!Keep(q, P), x) /\ (x \in P \cap Q <=> x \in Q)
        BY <2>2, <3>2
      <4>2. L!Keep(Append(q, x), P \cap Q) =
              IF x \in Q THEN Append(L!Keep(q, P \cap Q), x) ELSE L!Keep(q, P \cap Q)
        BY <2>4, <4>1
      <4> QED
        BY <2>3, <3>1, <4>1, <4>2
    <3>3. CASE x \notin P
      BY <2>2, <2>4, <3>1, <3>3
    <3> QED
      BY <3>2, <3>3
  <2> QED
    BY <2>1, <2>5
<1>3. Seq(X) \subseteq T
  <2> HIDE DEF T
  <2> QED
    BY <1>1, <1>2, GrowsToAll
<1> QED
  BY <1>3

\* Nothing is kept of a list that has none of the set.
LEMMA KeepNone ==
  ASSUME NEW X, NEW K, NEW s \in Seq(X), L!ToSet(s) \cap K = {}
  PROVE  L!Keep(s, K) = <<>>
<1>1. L!Keep(s, K) \in Seq(X) /\ L!ToSet(L!Keep(s, K)) = {}
  BY KeepType, KeepRange
<1>2. \A t \in Seq(X) : L!ToSet(t) = {} => t = <<>>
  <2> SUFFICES ASSUME NEW t \in Seq(X), L!ToSet(t) = {}, t # <<>>
               PROVE  FALSE
    OBVIOUS
  <2>1. Len(t) \in Nat \ {0} /\ DOMAIN t = 1 .. Len(t)
    BY EmptySeq, LenProperties
  <2>2. 1 \in DOMAIN t
    BY <2>1
  <2> QED
    BY <2>2 DEF L!ToSet
<1> QED
  BY <1>1, <1>2

LEMMA RangeConcat ==
  ASSUME NEW X, NEW s \in Seq(X), NEW t \in Seq(X)
  PROVE  s \o t \in Seq(X) /\ L!ToSet(s \o t) = L!ToSet(s) \cup L!ToSet(t)
<1> DEFINE u == s \o t
<1>1. /\ Len(s) \in Nat /\ Len(t) \in Nat /\ DOMAIN s = 1 .. Len(s) /\ DOMAIN t = 1 .. Len(t)
      /\ u \in Seq(X) /\ Len(u) = Len(s) + Len(t) /\ DOMAIN u = 1 .. Len(u)
      /\ \A n \in 1 .. Len(s) + Len(t) : u[n] = IF n <= Len(s) THEN s[n] ELSE t[n - Len(s)]
  BY LenProperties, ConcatProperties
<1> HIDE DEF u
<1>2. L!ToSet(u) \subseteq L!ToSet(s) \cup L!ToSet(t)
  <2> SUFFICES ASSUME NEW n \in 1 .. Len(u)
               PROVE  u[n] \in L!ToSet(s) \cup L!ToSet(t)
    BY <1>1 DEF L!ToSet
  <2>1. CASE n <= Len(s)
    <3>1. n \in DOMAIN s /\ u[n] = s[n]
      BY <1>1, <2>1
    <3> QED
      BY <3>1 DEF L!ToSet
  <2>2. CASE ~(n <= Len(s))
    <3>1. n - Len(s) \in DOMAIN t /\ u[n] = t[n - Len(s)]
      BY <1>1, <2>2
    <3> QED
      BY <3>1 DEF L!ToSet
  <2> QED
    BY <2>1, <2>2
<1>3. L!ToSet(s) \subseteq L!ToSet(u)
  <2> SUFFICES ASSUME NEW n \in 1 .. Len(s)
               PROVE  s[n] \in L!ToSet(u)
    BY <1>1 DEF L!ToSet
  <2>1. n \in DOMAIN u /\ u[n] = s[n]
    BY <1>1
  <2> QED
    BY <2>1 DEF L!ToSet
<1>4. L!ToSet(t) \subseteq L!ToSet(u)
  <2> SUFFICES ASSUME NEW n \in 1 .. Len(t)
               PROVE  t[n] \in L!ToSet(u)
    BY <1>1 DEF L!ToSet
  <2>1. /\ Len(s) + n \in 1 .. Len(s) + Len(t) /\ ~(Len(s) + n <= Len(s))
        /\ Len(s) + n - Len(s) = n
    BY <1>1
  <2>2. Len(s) + n \in DOMAIN u /\ u[Len(s) + n] = t[n]
    BY <1>1, <2>1
  <2> QED
    BY <2>2 DEF L!ToSet
<1> QED
  BY <1>1, <1>2, <1>3, <1>4 DEF u

\* Rows that are taken out, put in and moved leave the others in their order.
LEMMA DropKeeps ==
  ASSUME NEW X, NEW s \in Seq(X), NEW gone, NEW O, O \subseteq L!ToSet(s), O \cap gone = {}
  PROVE  /\ L!Drop(s, gone) \in Seq(X) /\ L!Keep(L!Drop(s, gone), O) = L!Keep(s, O)
         /\ L!ToSet(L!Drop(s, gone)) = L!ToSet(s) \ gone
<1>1. (L!ToSet(s) \ gone) \cap O = O /\ L!ToSet(s) \cap (L!ToSet(s) \ gone) = L!ToSet(s) \ gone
  OBVIOUS
<1>2. L!Keep(s, L!ToSet(s) \ gone) \in Seq(X) /\ L!ToSet(L!Keep(s, L!ToSet(s) \ gone)) = L!ToSet(s) \cap (L!ToSet(s) \ gone)
  BY KeepType, KeepRange
<1>3. L!Keep(L!Keep(s, L!ToSet(s) \ gone), O) = L!Keep(s, (L!ToSet(s) \ gone) \cap O)
  BY KeepTwice
<1> QED
  BY <1>1, <1>2, <1>3 DEF L!Drop

\* A list is what comes before a place and what comes after it.
LEMMA TwoParts ==
  ASSUME NEW X, NEW s \in Seq(X), NEW n \in 0 .. Len(s)
  PROVE  /\ SubSeq(s, 1, n) \in Seq(X) /\ SubSeq(s, n + 1, Len(s)) \in Seq(X)
         /\ SubSeq(s, 1, n) \o SubSeq(s, n + 1, Len(s)) = s
<1>1. Len(s) \in Nat /\ \A k \in 1 .. Len(s) : s[k] \in X
  BY LenProperties
<1>2. SubSeq(s, 1, n) \in Seq(X) /\ SubSeq(s, n + 1, Len(s)) \in Seq(X)
  BY <1>1, SubSeqProperties
<1>3. SubSeq(s, 1, n) \o SubSeq(s, n + 1, Len(s)) = SubSeq(s, 1, Len(s))
  <2>1. 1 \in 1 .. Len(s) + 1 /\ n \in 1 - 1 .. Len(s) /\ Len(s) \in n .. Len(s)
    BY <1>1
  <2> QED
    BY <2>1, ConcatAdjacentSubSeq
<1> QED
  BY <1>2, <1>3, SubSeqFull

LEMMA PutBetween ==
  ASSUME NEW X, NEW s \in Seq(X), NEW n \in 0 .. Len(s), NEW m \in Seq(X), NEW O, L!ToSet(m) \cap O = {}
  PROVE  /\ SubSeq(s, 1, n) \o m \o SubSeq(s, n + 1, Len(s)) \in Seq(X)
         /\ L!Keep(SubSeq(s, 1, n) \o m \o SubSeq(s, n + 1, Len(s)), O) = L!Keep(s, O)
         /\ L!ToSet(SubSeq(s, 1, n) \o m \o SubSeq(s, n + 1, Len(s))) = L!ToSet(s) \cup L!ToSet(m)
<1> DEFINE a == SubSeq(s, 1, n)
           z == SubSeq(s, n + 1, Len(s))
<1>1. a \in Seq(X) /\ z \in Seq(X) /\ a \o z = s
  BY TwoParts
<1> HIDE DEF a, z
<1>0. \A p, q \in Seq(X) : p \o q \in Seq(X) /\ L!ToSet(p \o q) = L!ToSet(p) \cup L!ToSet(q)
  BY RangeConcat
<1>2. a \o m \in Seq(X) /\ L!ToSet(a \o m) = L!ToSet(a) \cup L!ToSet(m)
  BY <1>0, <1>1
<1>3. (a \o m) \o z \in Seq(X) /\ L!ToSet((a \o m) \o z) = L!ToSet(a \o m) \cup L!ToSet(z)
  BY <1>0, <1>1, <1>2
<1>4. L!ToSet(s) = L!ToSet(a) \cup L!ToSet(z)
  <2>1. L!ToSet(a \o z) = L!ToSet(a) \cup L!ToSet(z)
    BY <1>0, <1>1
  <2> QED
    BY <1>1, <2>1
<1>a. \A p, q \in Seq(X) : L!Keep(p \o q, O) = L!Keep(p, O) \o L!Keep(q, O)
  BY KeepConcat
<1>5. L!Keep((a \o m) \o z, O) = L!Keep(a \o m, O) \o L!Keep(z, O)
  BY <1>a, <1>1, <1>2
<1>6. L!Keep(a \o m, O) = L!Keep(a, O) \o L!Keep(m, O)
  BY <1>a, <1>1
<1>7. L!Keep(m, O) = <<>>
  BY KeepNone
<1>8. L!Keep(a, O) \in Seq(X)
  BY <1>1, KeepType
<1>9. L!Keep(a, O) \o <<>> = L!Keep(a, O)
  BY <1>8, ConcatEmptySeq
<1>10. L!Keep(s, O) = L!Keep(a, O) \o L!Keep(z, O)
  BY <1>1, KeepConcat
<1>11. L!Keep((a \o m) \o z, O) = L!Keep(s, O)
  BY <1>5, <1>6, <1>7, <1>9, <1>10
<1> QED
  BY <1>2, <1>3, <1>4, <1>11 DEF a, z

LEMMA GreatestIsOne ==
  ASSUME NEW n \in Nat, NEW K, K \subseteq 0 .. n, K # {}
  PROVE  L!Greatest(K) \in K
<1> DEFINE T == {n - i : i \in K}
<1>1. T \subseteq Nat /\ T # {}
  <2>1. \A i \in K : n - i \in Nat
    OBVIOUS
  <2> QED
    BY <2>1
<1>2. PICK k \in T : \A m \in T : k <= m
  <2> HIDE DEF T
  <2> QED
    BY <1>1, LeastNumber
<1>3. PICK i \in K : k = n - i
  OBVIOUS
<1>4. \A j \in K : n - j \in T /\ j \in Nat
  OBVIOUS
<1>5. \A j \in K : i >= j
  <2> HIDE DEF T
  <2> QED
    BY <1>2, <1>3, <1>4
<1> QED
  BY <1>3, <1>5, Zenon DEF L!Greatest

LEMMA InsertKeeps ==
  ASSUME NEW X, NEW s \in Seq(X), NEW K, NEW x \in X, NEW O, x \notin O
  PROVE  /\ L!InsertAt(s, L!insertionIndex(s, K) + 1, x) \in Seq(X)
         /\ L!Keep(L!InsertAt(s, L!insertionIndex(s, K) + 1, x), O) = L!Keep(s, O)
<1> DEFINE n == L!insertionIndex(s, K)
           places == {0} \cup {i \in DOMAIN s : s[i] \in K}
<1>1. Len(s) \in Nat /\ places \subseteq 0 .. Len(s) /\ places # {}
  BY LenProperties
<1>2. n \in 0 .. Len(s)
  <2>1. n = L!Greatest(places)
    BY DEF L!insertionIndex
  <2> HIDE DEF places, n
  <2> QED
    BY <1>1, <2>1, GreatestIsOne
<1> HIDE DEF n
<1>3. n + 1 - 1 = n
  BY <1>1, <1>2
<1>4. <<x>> \in Seq(X) /\ L!ToSet(<<x>>) \cap O = {}
  <2>1. Len(<<x>>) = 1 /\ DOMAIN <<x>> = 1 .. 1 /\ <<x>>[1] = x
    OBVIOUS
  <2> QED
    BY <2>1 DEF L!ToSet
<1>5. L!InsertAt(s, n + 1, x) = SubSeq(s, 1, n) \o <<x>> \o SubSeq(s, n + 1, Len(s))
  <2> DEFINE k == n + 1
  <2>1. L!InsertAt(s, k, x) = SubSeq(s, 1, k - 1) \o <<x>> \o SubSeq(s, k, Len(s))
    BY Zenon DEF L!InsertAt
  <2>2. k - 1 = n
    BY <1>1, <1>2
  <2> HIDE DEF k
  <2>3. L!InsertAt(s, k, x) = SubSeq(s, 1, n) \o <<x>> \o SubSeq(s, k, Len(s))
    BY <2>1, <2>2, Zenon
  <2> QED
    BY <2>3 DEF k
<1>6. /\ SubSeq(s, 1, n) \o <<x>> \o SubSeq(s, n + 1, Len(s)) \in Seq(X)
      /\ L!Keep(SubSeq(s, 1, n) \o <<x>> \o SubSeq(s, n + 1, Len(s)), O) = L!Keep(s, O)
  <2> DEFINE m == <<x>>
  <2>1. m \in Seq(X) /\ L!ToSet(m) \cap O = {}
    BY <1>4
  <2> HIDE DEF m
  <2>2. /\ SubSeq(s, 1, n) \o m \o SubSeq(s, n + 1, Len(s)) \in Seq(X)
        /\ L!Keep(SubSeq(s, 1, n) \o m \o SubSeq(s, n + 1, Len(s)), O) = L!Keep(s, O)
    BY <1>2, <2>1, PutBetween
  <2> QED
    BY <2>2 DEF m
<1> QED
  BY <1>5, <1>6, Zenon DEF n

LEMMA MoveKeeps ==
  ASSUME NEW X, NEW s \in Seq(X), NEW moving, NEW target \in L!ToSet(s), NEW after \in BOOLEAN,
         NEW O, O \subseteq L!ToSet(s), O \cap moving = {}
  PROVE  /\ L!moveItems(s, moving, target, after) \in Seq(X)
         /\ L!Keep(L!moveItems(s, moving, target, after), O) = L!Keep(s, O)
         /\ L!ToSet(L!moveItems(s, moving, target, after)) = L!ToSet(s)
<1>1. CASE target \in moving
  BY <1>1 DEF L!moveItems
<1>2. CASE target \notin moving
  <2> DEFINE rest == L!Drop(s, moving)
             moved == L!Keep(s, moving)
             at == L!Position(rest, target) - (IF after THEN 0 ELSE 1)
  <2>1. rest \in Seq(X) /\ L!Keep(rest, O) = L!Keep(s, O) /\ L!ToSet(rest) = L!ToSet(s) \ moving
    BY DropKeeps
  <2>2. moved \in Seq(X) /\ L!ToSet(moved) = L!ToSet(s) \cap moving
    BY KeepType, KeepRange
  <2>3. L!moveItems(s, moving, target, after) = SubSeq(rest, 1, at) \o moved \o SubSeq(rest, at + 1, Len(rest))
    BY <1>2 DEF L!moveItems
  <2> HIDE DEF rest, moved
  <2>4. L!Position(rest, target) \in 1 .. Len(rest)
    <3>1. \E i \in DOMAIN rest : rest[i] = target
      BY <1>2, <2>1 DEF L!ToSet
    <3>2. L!Position(rest, target) \in DOMAIN rest
      BY <3>1, Zenon DEF L!Position
    <3> QED
      BY <2>1, <3>2, LenProperties
  <2>5. at \in 0 .. Len(rest)
    BY <2>1, <2>4, LenProperties
  <2> HIDE DEF at
  <2>6. L!ToSet(moved) \cap O = {}
    BY <2>2
  <2>7. /\ SubSeq(rest, 1, at) \o moved \o SubSeq(rest, at + 1, Len(rest)) \in Seq(X)
        /\ L!Keep(SubSeq(rest, 1, at) \o moved \o SubSeq(rest, at + 1, Len(rest)), O) = L!Keep(rest, O)
        /\ L!ToSet(SubSeq(rest, 1, at) \o moved \o SubSeq(rest, at + 1, Len(rest))) = L!ToSet(rest) \cup L!ToSet(moved)
    BY <2>1, <2>2, <2>5, <2>6, PutBetween
  <2> QED
    BY <2>1, <2>2, <2>3, <2>7
<1> QED
  BY <1>1, <1>2

\* The rows are some of those that were ever made, and each has its text.
RowsInv ==
  /\ rowSequence \in Nat /\ rowSequence <= MaxRows
  /\ rows \in Seq(1 .. rowSequence)
  /\ DOMAIN text = L!Ids

OtherRows == L!ToSet(rows) \ (selected \cup dragging \cup {editing})

OthersStay ==
  /\ L!Keep(rows', OtherRows) = L!Keep(rows, OtherRows)
  /\ \A id \in OtherRows : text'[id] = text[id]
  /\ dragging # {} => L!ToSet(rows') = L!ToSet(rows)

LEMMA RowsInit == L!Init => RowsInv
<1> SUFFICES ASSUME L!Init
             PROVE  RowsInv
  OBVIOUS
<1>1. PICK n \in 0 .. MaxItems : n <= MaxRows /\ rows = [i \in 1 .. n |-> i] /\ rowSequence = n
  BY DEF L!Init
<1>2. MaxItems \in Nat
  BY PartsAssumption DEF L!LineListAssumption
<1>3. rows \in Seq(1 .. n)
  BY <1>1, <1>2
<1>4. DOMAIN text = L!Ids
  BY DEF L!Init
<1> QED
  BY <1>1, <1>2, <1>3, <1>4 DEF RowsInv

\* A step that takes rows out, and changes no text but that of the row that is edited.
LEMMA RowsLess ==
  ASSUME RowsInv, NEW gone, gone \subseteq selected \cup {editing}, dragging = {},
         rows' = rows \/ rows' = L!Drop(rows, gone),
         text' = text \/ \E t : text' = [text EXCEPT ![editing] = t],
         UNCHANGED rowSequence
  PROVE  RowsInv' /\ OthersStay
<1>1. /\ OtherRows \subseteq L!ToSet(rows) /\ OtherRows \cap gone = {} /\ editing \notin OtherRows
  BY DEF OtherRows
<1>2. L!Drop(rows, gone) \in Seq(1 .. rowSequence) /\ L!Keep(L!Drop(rows, gone), OtherRows) = L!Keep(rows, OtherRows)
  BY <1>1, DropKeeps DEF RowsInv
<1>3. L!ToSet(rows) \subseteq L!Ids
  <2>1. L!ToSet(rows) \subseteq 1 .. rowSequence
    BY LenProperties DEF RowsInv, L!ToSet
  <2>2. 1 .. rowSequence \subseteq L!Ids
    BY PartsAssumption DEF RowsInv, L!LineListAssumption, L!Ids
  <2> QED
    BY <2>1, <2>2
<1>4. DOMAIN text' = L!Ids /\ \A id \in OtherRows : text'[id] = text[id]
  BY <1>1, <1>3 DEF RowsInv
<1>5. rows' \in Seq(1 .. rowSequence) /\ L!Keep(rows', OtherRows) = L!Keep(rows, OtherRows)
  BY <1>2 DEF RowsInv
<1> QED
  BY <1>4, <1>5 DEF RowsInv, OthersStay

LEMMA RowsStep ==
  ASSUME RowsInv, [L!Next]_(L!lineListVars)
  PROVE  RowsInv' /\ (L!Next => OthersStay)
<1> USE DEF L!edit, L!selection
<1>a. /\ OtherRows \subseteq L!ToSet(rows) /\ OtherRows \cap (selected \cup dragging \cup {editing}) = {}
  BY DEF OtherRows
<1>1. CASE dragging = {} /\ (L!EndEdit \/ \E id \in L!Ids : L!MouseDown(id))
  <2>1. /\ rows' = rows \/ rows' = L!Drop(rows, {editing})
        /\ UNCHANGED <<text, rowSequence>>
    BY <1>1 DEF L!EndEdit, L!MouseDown, L!EndsEdit, L!Commit
  <2> QED
    BY <1>1, <2>1, RowsLess
<1>2. CASE dragging = {} /\ L!CancelEdit
  <2>1. /\ rows' = rows \/ rows' = L!Drop(rows, {editing})
        /\ text' = text \/ \E t : text' = [text EXCEPT ![editing] = t]
        /\ UNCHANGED rowSequence
    BY <1>2 DEF L!CancelEdit
  <2> QED
    BY <1>2, <2>1, RowsLess
<1>3. CASE dragging = {} /\ L!RemoveSelected
  <2>1. rows' = L!Drop(rows, selected) /\ UNCHANGED <<text, rowSequence>>
    BY <1>3 DEF L!RemoveSelected
  <2> QED
    BY <1>3, <2>1, RowsLess
<1>4. CASE dragging = {} /\ \E t \in Texts \cup {Empty} : L!Type(t)
  <2>1. /\ rows' = rows /\ UNCHANGED rowSequence
        /\ \E t : text' = [text EXCEPT ![editing] = t]
    BY <1>4 DEF L!Type
  <2>2. text' = text \/ \E t : text' = [text EXCEPT ![editing] = t]
    BY <2>1
  <2> QED
    BY <1>4, <2>1, <2>2, RowsLess
<1>5. CASE dragging = {} /\ (\/ L!Enter \/ L!SelectAll \/ \E delta \in {-1, 1} : L!Arrow(delta)
                              \/ \E id \in L!Ids : L!ClickAgain(id) \/ L!DragStart(id))
  <2>1. UNCHANGED <<rows, text, rowSequence>>
    BY <1>5 DEF L!Enter, L!SelectAll, L!Arrow, L!ClickAgain, L!DragStart, L!StartEdit
  <2> QED
    BY <1>5, <2>1 DEF RowsInv, OthersStay
<1>6. CASE dragging = {} /\ L!Add
  <2> DEFINE new == rowSequence + 1
  <2>1. /\ rowSequence < MaxRows
        /\ rows' = L!InsertAt(rows, L!insertionIndex(rows, selected) + 1, new)
        /\ rowSequence' = new /\ text' = [text EXCEPT ![new] = Empty]
    BY <1>6 DEF L!Add
  <2>2. /\ new \in 1 .. new /\ new \in Nat /\ new <= MaxRows /\ 1 .. rowSequence \subseteq 1 .. new
        /\ new \notin 1 .. rowSequence /\ 1 .. rowSequence \subseteq L!Ids
    BY <2>1, PartsAssumption DEF RowsInv, L!LineListAssumption, L!Ids
  <2>3. L!ToSet(rows) \subseteq 1 .. rowSequence
    BY LenProperties DEF RowsInv, L!ToSet
  <2>4. rows \in Seq(1 .. new) /\ new \notin OtherRows
    <3>1. \A K, T, s : K \subseteq T /\ s \in Seq(K) => s \in Seq(T)
      BY SeqMonotonic
    <3> QED
      BY <1>a, <2>2, <2>3, <3>1 DEF RowsInv
  <2> HIDE DEF new
  <2>5. rows' \in Seq(1 .. new) /\ L!Keep(rows', OtherRows) = L!Keep(rows, OtherRows)
    BY <2>1, <2>2, <2>4, InsertKeeps
  <2>6. DOMAIN text' = L!Ids /\ \A id \in OtherRows : text'[id] = text[id]
    BY <1>a, <2>1, <2>2, <2>3, <2>4 DEF RowsInv
  <2> QED
    BY <1>6, <2>1, <2>2, <2>5, <2>6 DEF RowsInv, OthersStay
<1>7. CASE L!DragEnd
  BY <1>7 DEF L!DragEnd, RowsInv, OthersStay
<1>8. ASSUME NEW id \in L!Ids, NEW after \in BOOLEAN, L!DropOn(id, after)
      PROVE  RowsInv' /\ OthersStay
  <2>1. /\ id \in L!ToSet(rows) /\ rows' = L!moveItems(rows, dragging, id, after)
        /\ UNCHANGED <<text, rowSequence>>
    BY <1>8 DEF L!DropOn
  <2>2. OtherRows \cap dragging = {}
    BY <1>a
  <2>3. /\ rows' \in Seq(1 .. rowSequence) /\ L!Keep(rows', OtherRows) = L!Keep(rows, OtherRows)
        /\ L!ToSet(rows') = L!ToSet(rows)
    <3> DEFINE moved == L!moveItems(rows, dragging, id, after)
    <3>1. rows \in Seq(1 .. rowSequence) /\ OtherRows \subseteq L!ToSet(rows)
      BY <1>a DEF RowsInv
    <3>2. /\ moved \in Seq(1 .. rowSequence) /\ L!Keep(moved, OtherRows) = L!Keep(rows, OtherRows)
          /\ L!ToSet(moved) = L!ToSet(rows)
      BY <2>1, <2>2, <3>1, MoveKeeps
    <3> HIDE DEF moved
    <3>3. rows' = moved
      BY <2>1, Zenon DEF moved
    <3> QED
      BY <3>2, <3>3
  <2> QED
    BY <2>1, <2>3 DEF RowsInv, OthersStay
<1>9. CASE UNCHANGED L!lineListVars
  BY <1>9 DEF L!lineListVars, RowsInv, OthersStay
<1> QED
  BY <1>1, <1>2, <1>3, <1>4, <1>5, <1>6, <1>7, <1>8, <1>9 DEF L!Next, L!Input

\* Rows that are not selected, edited or dragged keep their text and their order, and
\* dragging loses none, for lists of any length (LineListEditor.tsx).
THEOREM RowsKeptHolds == L!Spec => RowsKept
<1>1. RowsInv /\ [L!Next]_(L!lineListVars) => RowsInv'
  BY RowsStep
<1>2. RowsInv /\ [L!Next]_(L!lineListVars) =>
        [LET others == L!ToSet(rows) \ (selected \cup dragging \cup {editing}) IN
           /\ L!Keep(rows', others) = L!Keep(rows, others)
           /\ \A id \in others : text'[id] = text[id]
           /\ dragging # {} => L!ToSet(rows') = L!ToSet(rows)]_(L!lineListVars)
  BY RowsStep DEF OthersStay, OtherRows
<1> QED
  BY <1>1, <1>2, RowsInit, PTL DEF L!Spec, RowsKept, L!RowsKept

-----------------------------------------------------------------------------
(* Side by side                                                            *)

\* Each of the five behaves as it does alone.
LEMMA EachIsItself ==
  Spec => A!Spec /\ D!Spec /\ S!Spec /\ V!Spec /\ L!Spec
<1>1. Init => A!Init /\ D!Init /\ S!Init /\ V!Init /\ L!Init
  BY DEF Init
<1>2. [Next]_vars => [A!Next]_<<A!operatorVars, use>>
  BY DEF Next, vars, accountVars, A!operatorVars, A!api, A!page
<1>3. [Next]_vars => [D!Next /\ UNCHANGED hook]_<<D!dashboardVars, hook>>
  BY DEF Next, vars, dashboardVars, D!dashboardVars, D!screenVars
<1>4. [Next]_vars => [S!Next]_(S!settingsDialogVars)
  BY DEF Next, vars, dialogVars, S!settingsDialogVars, S!dialog, S!ghosts
<1>5. [Next]_vars => [V!Next]_(V!panelVars)
  BY DEF Next, vars, panelVars, V!panelVars, V!server, V!shownVars
<1>6. [Next]_vars => [L!Next]_(L!lineListVars)
  BY DEF Next, vars, listVars, L!lineListVars, L!selection, L!edit
<1> QED
  BY <1>1, <1>2, <1>3, <1>4, <1>5, <1>6, PTL DEF Spec, A!Spec, D!Spec, S!Spec, V!Spec, L!Spec

\* What is proved of each of them holds of the screens together.
THEOREM ScreensSafe ==
  Spec => /\ AccountKept /\ ThrownOutJustly /\ NeverGoesBack /\ RowsKept
          /\ []NeverStuck /\ []PanelIsTrue
          /\ (~Return => []ListNotOlder)
BY EachIsItself, AccountKeptHolds, ThrownOutJustlyHolds, NeverGoesBackHolds, NeverStuckHolds, PanelIsTrueHolds,
   ListNotOlderHolds, RowsKeptHolds, PTL
=============================================================================
