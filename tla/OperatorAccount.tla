-------------------------- MODULE OperatorAccount --------------------------
(***************************************************************************)
(* The operator's account, its sessions and the limit of failed password   *)
(* checks (api/src/auth, routes/operator*.ts, routes/gateway-reboot.ts),   *)
(* with the pages that use them: which page a browser shows                *)
(* (web AuthContext.tsx) and the forms that set up, log in, change the     *)
(* account and ask for a reboot of the host.                               *)
(*                                                                         *)
(* A browser is one tab.  It has at most one request of each kind under    *)
(* way: of the page, of a dialog, of the session check and of the logout.  *)
(* The routes run without interruption, so each answer is one action.      *)
(***************************************************************************)
EXTENDS Naturals

CONSTANTS
  Browsers,
  Addresses,     \* where requests come from (request.ip)
  AddressOf,     \* the address of each browser
  Names, Passwords,
  SessionIds,
  None,
  MaxFailures,   \* MAX_FAILURES_PER_WINDOW
  Uses           \* the ways in which the browsers may be used

Kinds == {"page", "dialog", "check", "logout"}

\* What an instance has to satisfy.
OperatorAssumption ==
  /\ AddressOf \in [Browsers -> Addresses] /\ Uses \subseteq [Browsers -> SUBSET Kinds]
  /\ None \notin Names \cup Passwords \cup SessionIds /\ MaxFailures \in Nat \ {0}

VARIABLES
  account,       \* the account file: name and password, or None
  sessions,      \* sessions in the memory of the API
  recent,        \* failures in the last minute, by address
  rebootFile,    \* the request for a reboot lies in the host's directory
  screen,        \* what each browser shows (auth.status)
  shown,         \* the name it shows (auth.username)
  cookie,        \* its session cookie
  form,          \* savedUsername of the account form, None while it is closed
  call,          \* its requests under way
  use            \* the kinds of requests that each browser makes at all

api  == <<account, sessions, recent, rebootFile>>
page == <<screen, shown, form>>
operatorVars == <<api, page, cookie, call>>

Nothing  == [phase |-> "none"]
Accounts == [name : Names, password : Passwords]

Init ==
  /\ account = None /\ sessions = {} /\ rebootFile = FALSE
  /\ recent = [a \in Addresses |-> 0]
  /\ screen = [b \in Browsers |-> "loading"] /\ shown = [b \in Browsers |-> None]
  /\ cookie = [b \in Browsers |-> None] /\ form = [b \in Browsers |-> None]
  /\ call = [b \in Browsers |-> [k \in Kinds |-> Nothing]]
  /\ use \in Uses

Idle(b, k) == call[b][k] = Nothing
Sent(b, k, what) == call[b][k].phase = "sent" /\ call[b][k].what = what
Got(b, k, what)  == call[b][k].phase = "answered" /\ call[b][k].what = what

Request(b, k, what, body) ==
  /\ k \in use[b]
  /\ call' = [call EXCEPT ![b][k] =
            [phase |-> "sent", what |-> what, body |-> body, cookie |-> cookie[b],
             again |-> what = "login", heard |-> TRUE,
             status |-> 0, set |-> "keep", name |-> None]]

\* The answer, with the cookie it sets ("keep" for none) and the name it tells.
Answer(b, k, status, set, name) ==
  call' = [call EXCEPT ![b][k] =
             [@ EXCEPT !.phase = "answered", !.status = status, !.set = set, !.name = name]]

-----------------------------------------------------------------------------
(* The API                                                                 *)

ValidSession(b, k) == call[b][k].cookie \in sessions

\* requireOperatorSession: other routes than those of setup and login.
Unauthenticated(b, k) ==
  /\ \E what \in {"check", "logout", "update", "reboot"} : Sent(b, k, what)
  /\ ~ValidSession(b, k)
  /\ Answer(b, k, 401, "keep", None)
  /\ UNCHANGED <<api, page, cookie>>

\* GET /v1/operator: the name is for those with a session.
AnswerState(b) ==
  /\ Sent(b, "page", "state")
  /\ Answer(b, "page", 200, "keep",
            IF account = None THEN "unconfigured"
            ELSE IF ValidSession(b, "page") THEN account.name ELSE None)
  /\ UNCHANGED <<api, page, cookie>>

\* A random identifier is a new one.
Fresh(id) ==
  /\ id \in SessionIds \ sessions
  /\ \A b \in Browsers : cookie[b] # id
  /\ \A b \in Browsers, k \in Kinds :
       /\ call[b][k].phase = "sent" => call[b][k].cookie # id
       /\ call[b][k].phase = "answered" => call[b][k].set # id

CreateSession(b) ==
  \E id \in SessionIds :
    /\ Fresh(id)
    /\ sessions' = sessions \cup {id}
    /\ Answer(b, "page", 200, id, call[b]["page"].body.name)

\* Mutant: a setup replaces the account that somebody else created meanwhile.
SetupAnyway(b) ==
  /\ Sent(b, "page", "setup")
  /\ account' = call[b]["page"].body
  /\ CreateSession(b)
  /\ UNCHANGED <<recent, rebootFile, page, cookie>>

\* POST /v1/operator: created once.
Setup(b) ==
  /\ Sent(b, "page", "setup")
  /\ IF account # None
     THEN Answer(b, "page", 409, "keep", None) /\ UNCHANGED <<account, sessions>>
     ELSE account' = call[b]["page"].body /\ CreateSession(b)
  /\ UNCHANGED <<recent, rebootFile, page, cookie>>

RateLimited(b) == recent[AddressOf[b]] >= MaxFailures

\* What login, change and reboot do with the password first.
TooMany(b, k) ==
  /\ RateLimited(b)
  /\ Answer(b, k, 429, "keep", None)
  /\ UNCHANGED <<account, sessions, recent, rebootFile>>

WrongPassword(b, k) ==
  /\ ~RateLimited(b)
  /\ recent' = [recent EXCEPT ![AddressOf[b]] = @ + 1]
  /\ Answer(b, k, 401, "keep", None)
  /\ UNCHANGED <<account, sessions, rebootFile>>

RightPassword(b) ==
  /\ ~RateLimited(b)
  /\ recent' = [recent EXCEPT ![AddressOf[b]] = 0]

\* POST /v1/operator/session; without an account no password is right.
Login(b) ==
  /\ Sent(b, "page", "login")
  /\ IF account = call[b]["page"].body
     THEN \/ TooMany(b, "page")
          \/ RightPassword(b) /\ CreateSession(b) /\ UNCHANGED <<account, rebootFile>>
     ELSE TooMany(b, "page") \/ WrongPassword(b, "page")
  /\ UNCHANGED <<page, cookie>>

\* GET /v1/operator/session.
Check(b) ==
  /\ Sent(b, "check", "check") /\ ValidSession(b, "check")
  /\ Answer(b, "check", 200, "keep", None)
  /\ UNCHANGED <<api, page, cookie>>

\* DELETE /v1/operator/session.
Logout(b) ==
  /\ Sent(b, "logout", "logout") /\ ValidSession(b, "logout")
  /\ sessions' = sessions \ {call[b]["logout"].cookie}
  /\ Answer(b, "logout", 200, None, None)
  /\ UNCHANGED <<account, recent, rebootFile, page, cookie>>

\* PUT /v1/operator: what the body leaves out stays; the sessions stay as well.
Changed(patch) ==
  [name     |-> IF patch.name = None THEN account.name ELSE patch.name,
   password |-> IF patch.password = None THEN account.password ELSE patch.password]

Update(b) ==
  /\ Sent(b, "dialog", "update") /\ ValidSession(b, "dialog")
  /\ LET body == call[b]["dialog"].body IN
     IF account # None /\ account.password = body.current
     THEN \/ TooMany(b, "dialog")
          \/ /\ RightPassword(b)
             /\ IF body.name = None /\ body.password = None
                THEN Answer(b, "dialog", 400, "keep", None) /\ UNCHANGED account
                ELSE /\ account' = Changed(body)
                     /\ Answer(b, "dialog", 200, "keep", Changed(body).name)
             /\ UNCHANGED <<sessions, rebootFile>>
     ELSE TooMany(b, "dialog") \/ WrongPassword(b, "dialog")
  /\ UNCHANGED <<page, cookie>>

\* requestHostReboot: the file is created unless it is there; there may be no directory
\* for it.
AskHost(result) ==
  \/ rebootFile' = TRUE /\ result = IF rebootFile THEN "already_requested" ELSE "requested"
  \/ UNCHANGED rebootFile /\ result = "unavailable"

\* What POST /net/host-reboot answers to that.
StatusOf == [requested |-> 202, already_requested |-> 409, unavailable |-> 503]

\* requestGatewayReboot: the gateway may not be reached, or not answer in time.
RequestReboot(b) ==
  \/ \E result \in DOMAIN StatusOf, late \in BOOLEAN :
       /\ AskHost(result)
       /\ Answer(b, "dialog", IF late THEN 504 ELSE StatusOf[result], "keep", None)
  \/ UNCHANGED rebootFile /\ Answer(b, "dialog", 502, "keep", None)

\* POST /v1/gateway/reboot.
Reboot(b) ==
  /\ Sent(b, "dialog", "reboot") /\ ValidSession(b, "dialog")
  /\ IF account # None /\ account.password = call[b]["dialog"].body.current
     THEN \/ TooMany(b, "dialog")
          \/ RightPassword(b) /\ RequestReboot(b) /\ UNCHANGED <<account, sessions>>
     ELSE TooMany(b, "dialog") \/ WrongPassword(b, "dialog")
  /\ UNCHANGED <<page, cookie>>

\* The web server cannot reach the API.
BadGateway(b, k) ==
  /\ call[b][k].phase = "sent"
  /\ Answer(b, k, 502, "keep", None)
  /\ UNCHANGED <<api, page, cookie>>

\* A minute after a failure it does not count any more.
Forgive(a) ==
  /\ recent[a] > 0 /\ recent' = [recent EXCEPT ![a] = @ - 1]
  /\ UNCHANGED <<account, sessions, rebootFile, page, cookie, call>>

\* The memory of the API is lost when its container, or the whole host, restarts.
Restart ==
  /\ sessions' = {} /\ recent' = [a \in Addresses |-> 0]
  /\ rebootFile' \in {rebootFile, FALSE}
  /\ UNCHANGED <<account, page, cookie, call>>

-----------------------------------------------------------------------------
(* The browser                                                             *)

Load(b) ==
  /\ screen[b] = "loading" /\ Idle(b, "page")
  /\ Request(b, "page", "state", None)
  /\ UNCHANGED <<api, page, cookie>>

Submit(b, what, credentials) ==
  /\ screen[b] = what /\ Idle(b, "page")
  /\ Request(b, "page", what, credentials)
  /\ UNCHANGED <<api, page, cookie>>

\* The form is a new one each time: it does not hear what an earlier one asked for.
OpenForm(b) ==
  /\ "dialog" \in use[b] /\ screen[b] = "authenticated" /\ form[b] = None
  /\ form' = [form EXCEPT ![b] = shown[b]]
  /\ call' = IF Idle(b, "dialog") THEN call ELSE [call EXCEPT ![b]["dialog"].heard = FALSE]
  /\ UNCHANGED <<api, screen, shown, cookie>>

CloseForm(b) ==
  /\ form[b] # None /\ form' = [form EXCEPT ![b] = None]
  /\ UNCHANGED <<api, screen, shown, cookie, call>>

\* The name is sent if it was edited; the form is not sent without any change.
SubmitForm(b, current, name, password) ==
  /\ form[b] # None /\ Idle(b, "dialog")
  /\ LET edited == IF name = form[b] THEN None ELSE name IN
     /\ edited # None \/ password # None
     /\ Request(b, "dialog", "update", [current |-> current, name |-> edited, password |-> password])
  /\ UNCHANGED <<api, page, cookie>>

SubmitReboot(b, current) ==
  /\ screen[b] = "authenticated" /\ Idle(b, "dialog")
  /\ Request(b, "dialog", "reboot", [current |-> current])
  /\ UNCHANGED <<api, page, cookie>>

SendCheck(b) ==
  /\ screen[b] = "authenticated" /\ Idle(b, "check")
  /\ Request(b, "check", "check", None)
  /\ UNCHANGED <<api, page, cookie>>

SubmitLogout(b) ==
  /\ screen[b] = "authenticated" /\ Idle(b, "logout")
  /\ Request(b, "logout", "logout", None)
  /\ UNCHANGED <<api, page, cookie>>

\* Mutant: the answer of a check that was under way is still heard after the page has
\* changed.
DoneHearing(b, k, to) == call' = [call EXCEPT ![b][k] = Nothing]

\* The call is over; the check under way is cancelled when the dashboard goes.
Done(b, k, to) ==
  call' = [call EXCEPT ![b] = [j \in Kinds |->
             IF j = k \/ (j = "check" /\ to # "authenticated") THEN Nothing ELSE @[j]]]

Show(b, to, name) ==
  /\ screen' = [screen EXCEPT ![b] = to]
  /\ shown' = [shown EXCEPT ![b] = name]
  /\ form' = IF to = "authenticated" THEN form ELSE [form EXCEPT ![b] = None]

SetCookie(b, k) ==
  cookie' = IF call[b][k].set = "keep" THEN cookie ELSE [cookie EXCEPT ![b] = call[b][k].set]

\* The first answer decides on the page; it is the login page if there is none.
StateKnown(b) ==
  /\ Got(b, "page", "state")
  /\ LET r  == call[b]["page"]
         to == IF r.name = "unconfigured" THEN "setup"
               ELSE IF r.name # None THEN "authenticated" ELSE "login"
     IN Show(b, to, IF to = "authenticated" THEN r.name ELSE None)
  /\ Done(b, "page", "authenticated")
  /\ UNCHANGED <<api, cookie>>

\* The dashboard appears after a success; otherwise the form stays, with a message.
Entered(b) ==
  /\ Got(b, "page", "setup") \/ Got(b, "page", "login")
  /\ SetCookie(b, "page")
  /\ IF call[b]["page"].status = 200
     THEN Show(b, "authenticated", call[b]["page"].name) ELSE UNCHANGED page
  /\ Done(b, "page", "authenticated")
  /\ UNCHANGED api

\* The form remembers the name it changed; the page does not.
FormAnswered(b) ==
  /\ call[b]["dialog"].phase = "answered"
  /\ IF /\ Got(b, "dialog", "update") /\ call[b]["dialog"].status = 200
        /\ form[b] # None /\ call[b]["dialog"].heard /\ call[b]["dialog"].body.name # None
     THEN form' = [form EXCEPT ![b] = call[b]["dialog"].body.name]
     ELSE UNCHANGED form
  /\ Done(b, "dialog", "authenticated")
  /\ UNCHANGED <<api, screen, shown, cookie>>

Checked(b) ==
  /\ Got(b, "check", "check")
  /\ IF call[b]["check"].status = 401
     THEN Show(b, "login", None) /\ Done(b, "check", "login")
     ELSE UNCHANGED page /\ Done(b, "check", "authenticated")
  /\ UNCHANGED <<api, cookie>>

\* Whatever was answered.
LoggedOut(b) ==
  /\ Got(b, "logout", "logout")
  /\ SetCookie(b, "logout")
  /\ Show(b, "login", None)
  /\ Done(b, "logout", "login")
  /\ UNCHANGED api

\* A request, or its answer, is lost.  A login is sent once more.
Lost(b, k) ==
  /\ ~Idle(b, k)
  /\ IF Sent(b, "page", "login") /\ k = "page" /\ call[b][k].again
     THEN call' = [call EXCEPT ![b][k].again = FALSE] /\ UNCHANGED page
     ELSE /\ IF k = "page" /\ screen[b] = "loading" THEN Show(b, "login", None) ELSE UNCHANGED page
          /\ Done(b, k, "authenticated")
  /\ UNCHANGED <<api, cookie>>

Reload(b) ==
  /\ \A k \in Kinds : Idle(b, k)
  /\ Show(b, "loading", None)
  /\ UNCHANGED <<api, cookie, call>>

-----------------------------------------------------------------------------
Answers(b, k) ==
  \/ Unauthenticated(b, k) \/ BadGateway(b, k)
  \/ k = "page" /\ (AnswerState(b) \/ Setup(b) \/ Login(b) \/ StateKnown(b) \/ Entered(b))
  \/ k = "dialog" /\ (Update(b) \/ Reboot(b) \/ FormAnswered(b))
  \/ k = "check" /\ (Check(b) \/ Checked(b))
  \/ k = "logout" /\ (Logout(b) \/ LoggedOut(b))

Step ==
  \/ \E b \in Browsers, k \in Kinds : Answers(b, k) \/ Lost(b, k)
  \/ \E b \in Browsers : Load(b) \/ OpenForm(b) \/ CloseForm(b) \/ SendCheck(b) \/ SubmitLogout(b)
                         \/ Reload(b)
  \/ \E b \in Browsers, what \in {"setup", "login"}, c \in Accounts : Submit(b, what, c)
  \/ \E b \in Browsers, current \in Passwords, n \in Names, p \in Passwords \cup {None} :
       SubmitForm(b, current, n, p)
  \/ \E b \in Browsers, current \in Passwords : SubmitReboot(b, current)
  \/ \E a \in Addresses : Forgive(a)
  \/ Restart

Next == Step /\ UNCHANGED use

Spec == Init /\ [][Next]_<<operatorVars, use>>

-----------------------------------------------------------------------------
(* Properties                                                              *)

\* Once there is an account nobody sets up another one, also if two browsers show the
\* setup page at the same time; it changes only for who has a session and knows the
\* password of the moment, though another change may come between (routes/operator.ts).
AccountKept ==
  [][account # None /\ account' # account =>
       \E b \in Browsers :
         /\ Sent(b, "dialog", "update") /\ ValidSession(b, "dialog")
         /\ call[b]["dialog"].body.current = account.password]_operatorVars

\* Nobody with a live session is sent from the dashboard to the login page, except by
\* a logout: not by the late answer of a check that an earlier login made
\* (AuthContext.tsx:73-96).
ThrownOutJustly ==
  [][\A b \in Browsers :
       screen[b] = "authenticated" /\ screen'[b] = "login" =>
         cookie[b] \notin sessions \/ Got(b, "logout", "logout")]_operatorVars
=============================================================================
