------------------------- MODULE VerificationProofs -------------------------
(***************************************************************************)
(* Proofs about the verification of the settings, for any number of them,  *)
(* of names and of addresses: one runs at a time, and what it passes was   *)
(* so while it ran.                                                        *)
(***************************************************************************)
EXTENDS Verification, TLAPS

USE BoundsAssumption, NoneAssumption

Statuses == {"pending", "notApplicable", "running"} \cup Results

JobStates ==
  [phase : {"none", "registering", "executing", "completed"}, status : [Names -> Statuses],
   probe : BOOLEAN, submitted : BOOLEAN, egress : Addresses \cup {None},
   tunnelIp : Addresses \cup {None}, left : Nat, result : {"none"} \cup Results]

TypeOK ==
  /\ running \in BOOLEAN /\ next \in Nat /\ redirected \in BOOLEAN
  /\ job \in [Ids -> JobStates]
  /\ kept \in Seq(Ids)
  /\ names \in [Ids -> {"absent", "expired", "registered", "received", "redirected"}]
  /\ tunnel \in Addresses \cup {None}
  /\ seen \in [Ids -> SUBSET (Addresses \cup {None})]

InProgressOf(j) == j.phase \in {"registering", "executing"}

\* What the browser submitted is an address of the tunnel during the verification.
Confirmed(j, s) == j.submitted /\ j.egress # None /\ j.egress \in s

\* What a verification knows, has concluded and publishes, where t is the tunnel of
\* now, s what has been seen of it, and r says that somebody was redirected.
JobIsTrue(j, t, s, r) ==
  /\ InProgressOf(j) => t \in s
  /\ j.tunnelIp # None => j.tunnelIp \in s
  /\ \A c, d \in Names : j.status[c] = "running" /\ j.status[d] = "running" => c = d
  /\ \A c \in Names : j.status[c] = "running" => j.left > 0
  /\ j.result # "none" => \E c \in Names : j.status[c] = "running"
  /\ j.status["egress"] = "pass" => Confirmed(j, s)
  /\ j.result = "pass" /\ j.status["egress"] = "running" => Confirmed(j, s)
  /\ j.status["redirect"] = "pass" => r
  /\ j.result = "pass" /\ j.status["redirect"] = "running" => r

\* A name is redirected by a query that is.
NamesAreTrue == \A i \in Ids : names[i] = "redirected" => redirected

JobsAreTrue == \A i \in Ids : JobIsTrue(job[i], tunnel, seen[i], redirected)

VerificationInv == TypeOK /\ OneAtATime /\ NamesAreTrue /\ JobsAreTrue

-----------------------------------------------------------------------------
(* A verification that has not begun to check anything                     *)

LEMMA NoJobType == /\ NoJob \in JobStates /\ NoJob.phase = "none" /\ NoJob.result = "none"
                   /\ NoJob.tunnelIp = None /\ NoJob.status \in [Names -> Statuses]
                   /\ \A c \in Names : NoJob.status[c] = "pending"
<1> DEFINE f == [c \in Names |-> "pending"]
<1>1. f \in [Names -> Statuses] /\ \A c \in Names : f[c] = "pending"
  BY DEF Statuses
<1>2. NoJob = [phase |-> "none", status |-> f, probe |-> FALSE,
          submitted |-> FALSE, egress |-> None, tunnelIp |-> None, left |-> 0, result |-> "none"]
  BY DEF NoJob
<1> HIDE DEF f
<1> QED
  BY <1>1, <1>2 DEF JobStates

LEMMA ApplicableType ==
  ASSUME NEW t \in BOOLEAN, NEW e \in BOOLEAN, NEW r \in BOOLEAN
  PROVE  /\ Applicable(t, e, r) \in [Names -> Statuses]
         /\ \A c \in Names : Applicable(t, e, r)[c] \in {"pending", "notApplicable"}
BY DEF Applicable, Statuses

\* A verification that has concluded nothing is true of anything seen.
LEMMA FreshIsTrue ==
  ASSUME NEW j \in JobStates, NEW t, NEW s, NEW r,
         InProgressOf(j) => t \in s, j.tunnelIp = None, j.result = "none",
         \A c \in Names : j.status[c] \in {"pending", "notApplicable"}
  PROVE  JobIsTrue(j, t, s, r)
<1>1. \A c \in Names : j.status[c] # "running" /\ j.status[c] # "pass"
  OBVIOUS
<1>2. "egress" \in Names /\ "redirect" \in Names
  BY DEF Names
<1> QED
  BY <1>1, <1>2 DEF JobIsTrue

\* A step of one verification, after which it is true of what was seen.
LEMMA OneMoves ==
  ASSUME TypeOK, JobsAreTrue, NEW i \in Ids, NEW e \in JobStates, job' = [job EXCEPT ![i] = e],
         UNCHANGED <<tunnel, seen, redirected>>, JobIsTrue(e, tunnel, seen[i], redirected)
  PROVE  /\ job' \in [Ids -> JobStates] /\ job'[i] = e /\ \A k \in Ids \ {i} : job'[k] = job[k]
         /\ JobsAreTrue'
<1>1. job' \in [Ids -> JobStates] /\ job'[i] = e /\ \A k \in Ids \ {i} : job'[k] = job[k]
  BY DEF TypeOK
<1>2. ASSUME NEW k \in Ids
      PROVE  JobIsTrue(job'[k], tunnel, seen[k], redirected)
  <2>1. CASE k = i
    BY <1>1, <2>1
  <2>2. CASE k # i
    BY <1>1, <2>2 DEF JobsAreTrue
  <2> QED
    BY <2>1, <2>2
<1>3. JobsAreTrue'
  BY <1>2 DEF JobsAreTrue
<1> QED
  BY <1>1, <1>3

\* Who is in progress stays so if no phase changes.
LEMMA ProgressStays ==
  ASSUME OneAtATime, running' = running, \A k \in Ids : InProgressOf(job'[k]) <=> InProgressOf(job[k])
  PROVE  OneAtATime'
<1>1. InProgress' = InProgress
  BY DEF InProgress, InProgressOf
<1> QED
  BY <1>1 DEF OneAtATime

-----------------------------------------------------------------------------
(* The steps of one verification                                           *)

\* A check concludes: what the running check may not pass without must hold.
LEMMA ConcludeStep ==
  ASSUME VerificationInv, NEW i \in Ids, NEW c \in Names, At(i, c), NEW r \in Results,
         NEW ip \in Addresses \cup {None}, ip # None => ip \in seen[i],
         job' = [job EXCEPT ![i] = [job[i] EXCEPT !.result = r, !.tunnelIp = ip]],
         UNCHANGED <<running, next, kept, names, tunnel, seen, redirected>>,
         c = "egress" /\ r = "pass" => Confirmed(job[i], seen[i]),
         c = "redirect" /\ r = "pass" => redirected
  PROVE  VerificationInv'
<1> DEFINE e == [job[i] EXCEPT !.result = r, !.tunnelIp = ip]
<1>1. TypeOK /\ OneAtATime /\ NamesAreTrue /\ JobsAreTrue
  BY DEF VerificationInv
<1>2. job[i] \in JobStates /\ JobIsTrue(job[i], tunnel, seen[i], redirected)
  BY <1>1 DEF TypeOK, JobsAreTrue
<1>3. e \in JobStates
  BY <1>2 DEF JobStates
<1>4. /\ e.phase = job[i].phase /\ e.status = job[i].status /\ e.tunnelIp = ip /\ e.result = r
      /\ e.egress = job[i].egress /\ e.submitted = job[i].submitted /\ e.left = job[i].left
  BY <1>2 DEF JobStates
<1> HIDE DEF e
<1>5. job[i].status[c] = "running" /\ (Confirmed(e, seen[i]) <=> Confirmed(job[i], seen[i]))
  BY <1>4 DEF At, Confirmed
<1>6. "egress" \in Names /\ "redirect" \in Names
  BY DEF Names
<1>7. /\ r = "pass" /\ job[i].status["egress"] = "running" => Confirmed(job[i], seen[i])
      /\ r = "pass" /\ job[i].status["redirect"] = "running" => redirected
  BY <1>2, <1>5, <1>6 DEF JobIsTrue
<1>8. JobIsTrue(e, tunnel, seen[i], redirected)
  BY <1>2, <1>4, <1>5, <1>7 DEF JobIsTrue, InProgressOf
<1>9. job' = [job EXCEPT ![i] = e]
  BY DEF e
<1>10. job' \in [Ids -> JobStates] /\ job'[i] = e /\ (\A k \in Ids \ {i} : job'[k] = job[k]) /\ JobsAreTrue'
  BY <1>1, <1>3, <1>8, <1>9, OneMoves
<1>11. OneAtATime'
  BY <1>1, <1>4, <1>10, ProgressStays DEF InProgressOf
<1>12. TypeOK' /\ NamesAreTrue'
  BY <1>1, <1>10 DEF TypeOK, NamesAreTrue
<1> QED
  BY <1>10, <1>11, <1>12 DEF VerificationInv

\* The result of the running check is its status from now on.
LEMMA PublishStep ==
  ASSUME VerificationInv, NEW i \in Ids, Publish(i)
  PROVE  VerificationInv'
<1> DEFINE f == [c \in Names |-> IF job[i].status[c] = "running" THEN job[i].result ELSE job[i].status[c]]
           e == [job[i] EXCEPT !.result = "none", !.status = f]
<1>1. TypeOK /\ OneAtATime /\ NamesAreTrue /\ JobsAreTrue
  BY DEF VerificationInv
<1>2. job[i] \in JobStates /\ JobIsTrue(job[i], tunnel, seen[i], redirected)
  BY <1>1 DEF TypeOK, JobsAreTrue
<1>3. job[i].result \in Results /\ job[i].status \in [Names -> Statuses]
  BY <1>2 DEF Publish, JobStates
<1>4. f \in [Names -> Statuses] /\ \A c \in Names : f[c] # "running"
  BY <1>3 DEF Statuses, Results
<1>5. /\ "egress" \in Names /\ "redirect" \in Names
      /\ f["egress"] = "pass" => job[i].status["egress"] = "pass"
                                  \/ (job[i].status["egress"] = "running" /\ job[i].result = "pass")
      /\ f["redirect"] = "pass" => job[i].status["redirect"] = "pass"
                                    \/ (job[i].status["redirect"] = "running" /\ job[i].result = "pass")
  BY DEF Names
<1>6. job' = [job EXCEPT ![i] = e]
  BY <1>1 DEF Publish, TypeOK
<1> HIDE DEF f
<1>7. e \in JobStates
  BY <1>2, <1>4 DEF JobStates
<1>8. /\ e.phase = job[i].phase /\ e.status = f /\ e.tunnelIp = job[i].tunnelIp /\ e.result = "none"
      /\ e.egress = job[i].egress /\ e.submitted = job[i].submitted
  BY <1>2 DEF JobStates
<1> HIDE DEF e
<1>9. Confirmed(e, seen[i]) <=> Confirmed(job[i], seen[i])
  BY <1>8 DEF Confirmed
<1>10. JobIsTrue(e, tunnel, seen[i], redirected)
  BY <1>2, <1>4, <1>5, <1>8, <1>9 DEF JobIsTrue, InProgressOf
<1>11. UNCHANGED <<running, next, kept, names, tunnel, seen, redirected>>
  BY DEF Publish
<1>12. job' \in [Ids -> JobStates] /\ job'[i] = e /\ (\A k \in Ids \ {i} : job'[k] = job[k]) /\ JobsAreTrue'
  BY <1>1, <1>6, <1>7, <1>10, <1>11, OneMoves
<1>13. OneAtATime'
  BY <1>1, <1>8, <1>11, <1>12, ProgressStays DEF InProgressOf
<1>14. TypeOK' /\ NamesAreTrue'
  BY <1>1, <1>11, <1>12 DEF TypeOK, NamesAreTrue
<1> QED
  BY <1>12, <1>13, <1>14 DEF VerificationInv

LEMMA BeginStep ==
  ASSUME VerificationInv, NEW i \in Ids, Begin(i)
  PROVE  VerificationInv'
<1>1. TypeOK /\ OneAtATime /\ NamesAreTrue /\ JobsAreTrue
  BY DEF VerificationInv
<1>2. job[i] \in JobStates /\ JobIsTrue(job[i], tunnel, seen[i], redirected)
  BY <1>1 DEF TypeOK, JobsAreTrue
<1>3. \A c \in Names : job[i].status[c] # "running"
  BY DEF Begin, Resting
<1>4. PICK n \in Pending(i) : job' = [job EXCEPT ![i].status[Checks[n]] = "running", ![i].left = Attempts]
  BY DEF Begin
<1>5. Checks[n] \in Names /\ job[i].status \in [Names -> Statuses]
  BY <1>2, <1>4 DEF Pending, Checks, Names, JobStates
<1> DEFINE f == [job[i].status EXCEPT ![Checks[n]] = "running"]
           e == [job[i] EXCEPT !.status = f, !.left = Attempts]
<1>6. job' = [job EXCEPT ![i] = e]
  BY <1>1, <1>4 DEF TypeOK
<1>7. /\ f \in [Names -> Statuses] /\ f[Checks[n]] = "running"
      /\ \A c \in Names : c # Checks[n] => f[c] = job[i].status[c]
  BY <1>5 DEF Statuses
<1> HIDE DEF f
<1>8. e \in JobStates
  BY <1>2, <1>7 DEF JobStates
<1>9. /\ e.phase = job[i].phase /\ e.status = f /\ e.tunnelIp = job[i].tunnelIp /\ e.result = job[i].result
      /\ e.egress = job[i].egress /\ e.submitted = job[i].submitted /\ e.left > 0
  BY <1>2 DEF JobStates
<1> HIDE DEF e
<1>10. "egress" \in Names /\ "redirect" \in Names
  BY DEF Names
<1>11. /\ job[i].result = "none"
       /\ \A c \in Names : f[c] = "running" <=> c = Checks[n]
       /\ \A c \in Names : f[c] = "pass" => job[i].status[c] = "pass"
  <2>1. job[i].result = "none"
    <3>1. job[i].result # "none" => \E c \in Names : job[i].status[c] = "running"
      BY <1>2 DEF JobIsTrue
    <3> QED
      BY <1>3, <3>1
  <2>2. ASSUME NEW c \in Names
        PROVE  (f[c] = "running" <=> c = Checks[n]) /\ (f[c] = "pass" => job[i].status[c] = "pass")
    BY <1>3, <1>7
  <2> QED
    BY <2>1, <2>2
<1>12. Confirmed(e, seen[i]) <=> Confirmed(job[i], seen[i])
  BY <1>9 DEF Confirmed
<1>13. JobIsTrue(e, tunnel, seen[i], redirected)
  BY <1>2, <1>9, <1>10, <1>11, <1>12 DEF JobIsTrue, InProgressOf
<1>14. UNCHANGED <<running, next, kept, names, tunnel, seen, redirected>>
  BY DEF Begin
<1>15. job' \in [Ids -> JobStates] /\ job'[i] = e /\ (\A k \in Ids \ {i} : job'[k] = job[k]) /\ JobsAreTrue'
  BY <1>1, <1>6, <1>8, <1>13, <1>14, OneMoves
<1>16. OneAtATime'
  BY <1>1, <1>9, <1>14, <1>15, ProgressStays DEF InProgressOf
<1>17. TypeOK' /\ NamesAreTrue'
  BY <1>1, <1>14, <1>15 DEF TypeOK, NamesAreTrue
<1> QED
  BY <1>15, <1>16, <1>17 DEF VerificationInv

\* A check that does not look for the tunnel concludes.
LEMMA ConcludesOnly ==
  ASSUME VerificationInv, NEW i \in Ids, NEW c \in Names, At(i, c), NEW r \in Results, Conclude(i, r),
         UNCHANGED <<running, next, kept, names, tunnel, seen, redirected>>,
         c = "egress" /\ r = "pass" => Confirmed(job[i], seen[i]),
         c = "redirect" /\ r = "pass" => redirected
  PROVE  VerificationInv'
<1>1. /\ job \in [Ids -> JobStates] /\ job[i] \in JobStates
      /\ job[i].tunnelIp # None => job[i].tunnelIp \in seen[i]
  BY DEF VerificationInv, TypeOK, JobsAreTrue, JobIsTrue
<1>2. job' = [job EXCEPT ![i] = [job[i] EXCEPT !.result = r]]
  BY <1>1 DEF Conclude
<1>3. job[i].tunnelIp \in Addresses \cup {None}
  BY <1>1 DEF JobStates
<1>4. [job[i] EXCEPT !.result = r] = [job[i] EXCEPT !.result = r, !.tunnelIp = job[i].tunnelIp]
  BY <1>1 DEF JobStates
<1> QED
  BY <1>1, <1>2, <1>3, <1>4, ConcludeStep

LEMMA ChecksStep ==
  ASSUME VerificationInv, NEW i \in Ids, TunnelEgress(i) \/ ClientEgress(i) \/ DnsRedirectPath(i)
  PROVE  VerificationInv'
<1>1. /\ job \in [Ids -> JobStates] /\ job[i] \in JobStates
      /\ JobIsTrue(job[i], tunnel, seen[i], redirected)
      /\ tunnel \in Addresses \cup {None} /\ redirected \in BOOLEAN
  BY DEF VerificationInv, TypeOK, JobsAreTrue
<1>2. {"tunnel", "egress", "redirect"} \subseteq Names /\ Results = {"pass", "fail", "unconfirmed"}
  BY DEF Names, Results
<1>3. CASE TunnelEgress(i)
  <2>1. At(i, "tunnel") /\ UNCHANGED <<running, next, kept, names, tunnel, seen, redirected>>
    BY <1>3 DEF TunnelEgress
  <2>2. CASE tunnel # None /\ job' = [job EXCEPT ![i].result = "pass", ![i].tunnelIp = tunnel]
    <3>1. tunnel \in seen[i]
      BY <1>1, <2>1 DEF At, JobIsTrue, InProgressOf
    <3>2. job' = [job EXCEPT ![i] = [job[i] EXCEPT !.result = "pass", !.tunnelIp = tunnel]]
      BY <1>1, <2>2
    <3> QED
      BY <1>1, <1>2, <2>1, <3>1, <3>2, ConcludeStep
  <2>3. ASSUME NEW r \in Results, Conclude(i, r)
        PROVE  VerificationInv'
    BY <1>2, <2>1, <2>3, ConcludesOnly
  <2> QED
    BY <1>2, <1>3, <2>2, <2>3 DEF TunnelEgress
<1>4. CASE ClientEgress(i)
  <2> DEFINE r == JudgeClientEgress(job[i].submitted, job[i].egress, job[i].tunnelIp)
  <2>1. /\ At(i, "egress") /\ UNCHANGED <<running, next, kept, names, tunnel, seen, redirected>>
        /\ Conclude(i, r)
    BY <1>4 DEF ClientEgress
  <2>2. r \in Results
    BY <1>2 DEF JudgeClientEgress
  <2>3. r = "pass" => Confirmed(job[i], seen[i])
    BY <1>1 DEF JudgeClientEgress, JobIsTrue, Confirmed
  <2> HIDE DEF r
  <2> QED
    BY <1>2, <2>1, <2>2, <2>3, ConcludesOnly
<1>5. CASE DnsRedirectPath(i)
  <2>1. At(i, "redirect") /\ UNCHANGED <<running, next, kept, names, tunnel, seen, redirected>>
    BY <1>5 DEF DnsRedirectPath
  <2>2. CASE Conclude(i, "unconfirmed")
    BY <1>2, <2>1, <2>2, ConcludesOnly
  <2>3. ASSUME NEW recent \in {FALSE, redirected}, Conclude(i, JudgeDnsRedirect(i, recent))
        PROVE  VerificationInv'
    <3> DEFINE r == JudgeDnsRedirect(i, recent)
    <3>1. r \in Results
      BY <1>2 DEF JudgeDnsRedirect
    <3>2. names[i] = "redirected" => redirected
      BY DEF VerificationInv, NamesAreTrue
    <3>3. r = "pass" => redirected
      <4>1. recent => redirected
        BY <2>3, Zenon
      <4>2. r = "pass" => names[i] = "redirected" \/ (i \in Live /\ recent)
        BY DEF JudgeDnsRedirect
      <4> QED
        BY <3>2, <4>1, <4>2
    <3> HIDE DEF r
    <3> QED
      BY <1>2, <2>1, <2>3, <3>1, <3>3, ConcludesOnly DEF r
  <2>4. CASE job[i].left # 1 /\ job' = [job EXCEPT ![i].left = @ - 1]
    <3> DEFINE e == [job[i] EXCEPT !.left = job[i].left - 1]
    <3>1. job[i].left \in Nat /\ job[i].left - 1 \in Nat \ {0}
      BY <1>1, <1>2, <2>1, <2>4 DEF JobStates, At, JobIsTrue
    <3>2. e \in JobStates
      BY <1>1, <3>1 DEF JobStates
    <3>3. /\ e.phase = job[i].phase /\ e.status = job[i].status /\ e.tunnelIp = job[i].tunnelIp
          /\ e.result = job[i].result /\ e.left > 0
          /\ e.egress = job[i].egress /\ e.submitted = job[i].submitted
      BY <1>1, <3>1 DEF JobStates
    <3>4. job' = [job EXCEPT ![i] = e]
      BY <1>1, <2>4
    <3> HIDE DEF e
    <3>5. JobIsTrue(e, tunnel, seen[i], redirected)
      BY <1>1, <3>3 DEF JobIsTrue, InProgressOf, Confirmed
    <3>6. /\ job' \in [Ids -> JobStates] /\ job'[i] = e /\ (\A k \in Ids \ {i} : job'[k] = job[k])
          /\ JobsAreTrue'
      BY <2>1, <3>2, <3>4, <3>5, OneMoves DEF VerificationInv
    <3>7. OneAtATime'
      BY <2>1, <3>3, <3>6, ProgressStays DEF InProgressOf, VerificationInv
    <3>8. TypeOK' /\ NamesAreTrue'
      BY <2>1, <3>6 DEF TypeOK, NamesAreTrue, VerificationInv
    <3> QED
      BY <3>6, <3>7, <3>8 DEF VerificationInv
  <2> QED
    BY <1>5, <2>2, <2>3, <2>4 DEF DnsRedirectPath
<1> QED
  BY <1>3, <1>4, <1>5

\* The verification that is in progress ends.
LEMMA FinishStep ==
  ASSUME VerificationInv, NEW i \in Ids, Finish(i)
  PROVE  VerificationInv'
<1> DEFINE e == [job[i] EXCEPT !.phase = "completed"]
<1>1. TypeOK /\ OneAtATime /\ NamesAreTrue /\ JobsAreTrue
  BY DEF VerificationInv
<1>2. job[i] \in JobStates /\ JobIsTrue(job[i], tunnel, seen[i], redirected)
  BY <1>1 DEF TypeOK, JobsAreTrue
<1>3. /\ UNCHANGED <<next, kept, names, tunnel, seen, redirected>> /\ running' = FALSE
      /\ job[i].phase = "executing" /\ job' = [job EXCEPT ![i] = e]
  BY <1>1 DEF Finish, Resting, TypeOK
<1>4. e \in JobStates
  BY <1>2 DEF JobStates
<1>5. /\ e.phase = "completed" /\ e.status = job[i].status /\ e.tunnelIp = job[i].tunnelIp
      /\ e.result = job[i].result /\ e.left = job[i].left
      /\ e.egress = job[i].egress /\ e.submitted = job[i].submitted
  BY <1>2 DEF JobStates
<1> HIDE DEF e
<1>6. JobIsTrue(e, tunnel, seen[i], redirected)
  BY <1>2, <1>5 DEF JobIsTrue, InProgressOf, Confirmed
<1>7. job' \in [Ids -> JobStates] /\ job'[i] = e /\ (\A k \in Ids \ {i} : job'[k] = job[k]) /\ JobsAreTrue'
  BY <1>1, <1>3, <1>4, <1>6, OneMoves
<1>8. OneAtATime'
  <2>1. \A k \in InProgress : k = i
    BY <1>1, <1>3 DEF OneAtATime, InProgress
  <2>2. InProgress' = {}
    BY <1>5, <1>7, <2>1 DEF InProgress
  <2> QED
    BY <1>3, <2>2 DEF OneAtATime
<1>9. TypeOK' /\ NamesAreTrue'
  BY <1>1, <1>3, <1>7 DEF TypeOK, NamesAreTrue
<1> QED
  BY <1>7, <1>8, <1>9 DEF VerificationInv

\* The browser's first address is taken: nothing has been judged by one before.
LEMMA SubmitStep ==
  ASSUME VerificationInv, NEW i \in Ids, NEW ip \in Addresses \cup {None}, Submit(i, ip)
  PROVE  VerificationInv'
<1> DEFINE e == [job[i] EXCEPT !.submitted = TRUE, !.egress = ip]
<1>1. TypeOK /\ OneAtATime /\ NamesAreTrue /\ JobsAreTrue
  BY DEF VerificationInv
<1>2. job[i] \in JobStates /\ JobIsTrue(job[i], tunnel, seen[i], redirected)
  BY <1>1 DEF TypeOK, JobsAreTrue
<1>3. /\ UNCHANGED <<running, next, kept, names, tunnel, seen, redirected>>
      /\ ~job[i].submitted /\ job' = [job EXCEPT ![i] = e]
  BY <1>1 DEF Submit, TypeOK
<1>4. e \in JobStates
  BY <1>2 DEF JobStates
<1>5. /\ e.phase = job[i].phase /\ e.status = job[i].status /\ e.tunnelIp = job[i].tunnelIp
      /\ e.result = job[i].result /\ e.left = job[i].left
  BY <1>2 DEF JobStates
<1> HIDE DEF e
<1>6. ~Confirmed(job[i], seen[i])
  BY <1>3 DEF Confirmed
<1>7. JobIsTrue(e, tunnel, seen[i], redirected)
  BY <1>2, <1>5, <1>6 DEF JobIsTrue, InProgressOf
<1>8. job' \in [Ids -> JobStates] /\ job'[i] = e /\ (\A k \in Ids \ {i} : job'[k] = job[k]) /\ JobsAreTrue'
  BY <1>1, <1>3, <1>4, <1>7, OneMoves
<1>9. OneAtATime'
  BY <1>1, <1>3, <1>5, <1>8, ProgressStays DEF InProgressOf
<1>10. TypeOK' /\ NamesAreTrue'
  BY <1>1, <1>3, <1>8 DEF TypeOK, NamesAreTrue
<1> QED
  BY <1>8, <1>9, <1>10 DEF VerificationInv

-----------------------------------------------------------------------------
(* Start and registration                                                  *)

LEMMA StartStep ==
  ASSUME VerificationInv, Start
  PROVE  VerificationInv'
<1>1. TypeOK /\ OneAtATime /\ NamesAreTrue /\ JobsAreTrue
  BY DEF VerificationInv
<1>2. /\ ~running /\ next \in Ids /\ running' = TRUE /\ next' = next + 1
      /\ seen' = [seen EXCEPT ![next] = {tunnel}]
      /\ UNCHANGED <<kept, names, tunnel, redirected>>
  BY DEF Start
<1>3. PICK t \in BOOLEAN, x \in BOOLEAN, r \in BOOLEAN :
        job' = [job EXCEPT ![next] = [NoJob EXCEPT !.phase = "registering", !.status = Applicable(t, x, r)]]
  BY DEF Start
<1> DEFINE f == Applicable(t, x, r)
           e == [NoJob EXCEPT !.phase = "registering", !.status = f]
<1>4. f \in [Names -> Statuses] /\ \A c \in Names : f[c] \in {"pending", "notApplicable"}
  BY ApplicableType
<1> HIDE DEF f
<1>5. /\ e \in JobStates /\ e.phase = "registering" /\ e.status = f
      /\ e.tunnelIp = None /\ e.result = "none"
  BY <1>4, NoJobType DEF JobStates
<1>6. job' = [job EXCEPT ![next] = e]
  BY <1>3 DEF f
<1> HIDE DEF e
<1>7. job' \in [Ids -> JobStates] /\ job'[next] = e /\ \A k \in Ids \ {next} : job'[k] = job[k]
  BY <1>1, <1>2, <1>5, <1>6 DEF TypeOK
<1>8. /\ seen' \in [Ids -> SUBSET (Addresses \cup {None})] /\ seen'[next] = {tunnel}
      /\ \A k \in Ids \ {next} : seen'[k] = seen[k]
  BY <1>1, <1>2 DEF TypeOK
<1>9. TypeOK' /\ NamesAreTrue'
  BY <1>1, <1>2, <1>7, <1>8 DEF TypeOK, NamesAreTrue
<1>10. JobsAreTrue'
  <2>1. JobIsTrue(e, tunnel, {tunnel}, redirected)
    BY <1>4, <1>5, FreshIsTrue
  <2>2. ASSUME NEW k \in Ids
        PROVE  JobIsTrue(job'[k], tunnel', seen'[k], redirected')
    BY <1>1, <1>2, <1>7, <1>8, <2>1 DEF JobsAreTrue
  <2> QED
    BY <2>2 DEF JobsAreTrue
<1>11. OneAtATime'
  <2>1. InProgress = {}
    BY <1>1, <1>2 DEF OneAtATime
  <2>2. InProgress' = {next}
    BY <1>2, <1>5, <1>7, <2>1 DEF InProgress
  <2> QED
    BY <1>2, <2>2 DEF OneAtATime
<1> QED
  BY <1>9, <1>10, <1>11 DEF VerificationInv

\* The verification that was just kept is not the one that makes room.
LEMMA KeepKeeps ==
  ASSUME kept \in Seq(Ids), NEW i \in Ids
  PROVE  Keep(i) \in Seq(Ids) /\ i \notin Gone(i)
<1> DEFINE a == Append(kept, i)
<1>1. /\ a \in Seq(Ids) /\ Len(a) = Len(kept) + 1 /\ a[Len(a)] = i
      /\ Len(kept) \in Nat
  OBVIOUS
<1>2. i \in Range(a)
  BY <1>1 DEF Range
<1>3. CASE Len(kept) >= Kept
  <2>1. /\ Tail(a) \in Seq(Ids) /\ Len(Tail(a)) = Len(kept) /\ Len(kept) \in DOMAIN Tail(a)
        /\ Tail(a)[Len(kept)] = a[Len(a)]
    BY <1>1, <1>3
  <2>2. i \in Range(Tail(a))
    BY <1>1, <2>1 DEF Range
  <2> QED
    BY <1>3, <2>1, <2>2 DEF Keep, Gone
<1>4. CASE ~(Len(kept) >= Kept)
  BY <1>1, <1>2, <1>4 DEF Keep, Gone
<1> QED
  BY <1>3, <1>4

LEMMA RegisterType ==
  ASSUME TypeOK, NamesAreTrue, NEW i \in Ids
  PROVE  /\ Register(i) \in [Ids -> {"absent", "expired", "registered", "received", "redirected"}]
         /\ \A k \in Ids : Register(i)[k] = "redirected" => redirected
BY DEF TypeOK, NamesAreTrue, Register

LEMMA RegisteredStep ==
  ASSUME VerificationInv, NEW i \in Ids, Registered(i)
  PROVE  VerificationInv'
<1>1. TypeOK /\ OneAtATime /\ NamesAreTrue /\ JobsAreTrue
  BY DEF VerificationInv
<1>2. /\ job[i].phase = "registering" /\ kept' = Keep(i)
      /\ seen' = [j \in Ids |-> IF j \in Gone(i) THEN {} ELSE seen[j]]
      /\ UNCHANGED <<running, next, tunnel, redirected>>
  BY DEF Registered
<1>3. PICK probe \in {FALSE, job[i].status["redirect"] = "pending"} :
        /\ names' = IF probe THEN Register(i) ELSE names
        /\ job' = [j \in Ids |->
             CASE j = i -> [job[i] EXCEPT !.phase = "executing", !.probe = probe]
               [] j \in Gone(i) -> NoJob
               [] OTHER -> job[j]]
  BY DEF Registered
<1>4. job[i] \in JobStates /\ JobIsTrue(job[i], tunnel, seen[i], redirected)
  BY <1>1 DEF TypeOK, JobsAreTrue
<1>5. probe \in BOOLEAN
  OBVIOUS
<1> DEFINE e == [job[i] EXCEPT !.phase = "executing", !.probe = probe]
<1>6. /\ e \in JobStates /\ e.phase = "executing" /\ e.status = job[i].status
      /\ e.tunnelIp = job[i].tunnelIp /\ e.result = job[i].result /\ e.left = job[i].left
      /\ e.egress = job[i].egress /\ e.submitted = job[i].submitted
  BY <1>4, <1>5 DEF JobStates
<1>7. Keep(i) \in Seq(Ids) /\ i \notin Gone(i)
  BY <1>1, KeepKeeps DEF TypeOK
<1>8. job'[i] = e
  <2>1. job'[i] = CASE i = i -> [job[i] EXCEPT !.phase = "executing", !.probe = probe]
                    [] i \in Gone(i) -> NoJob
                    [] OTHER -> job[i]
    BY <1>3
  <2> QED
    BY <1>7, <2>1
<1> HIDE DEF e
<1>9. /\ job' \in [Ids -> JobStates] /\ job'[i] = e
      /\ \A k \in Ids \ {i} : job'[k] = IF k \in Gone(i) THEN NoJob ELSE job[k]
  <2>1. DOMAIN job' = Ids /\ job' = [k \in Ids |-> job'[k]]
    BY <1>3
  <2>2. ASSUME NEW k \in Ids, k # i
        PROVE  job'[k] = IF k \in Gone(i) THEN NoJob ELSE job[k]
    <3>1. job'[k] = CASE k = i -> [job[i] EXCEPT !.phase = "executing", !.probe = probe]
                      [] k \in Gone(i) -> NoJob
                      [] OTHER -> job[k]
      BY <1>3
    <3> QED
      BY <2>2, <3>1
  <2>3. \A k \in Ids : job'[k] \in JobStates
    BY <1>1, <1>6, <1>8, <2>2, NoJobType DEF TypeOK
  <2> QED
    BY <1>8, <2>1, <2>2, <2>3
<1>10. /\ seen' \in [Ids -> SUBSET (Addresses \cup {None})] /\ seen'[i] = seen[i]
       /\ \A k \in Ids \ Gone(i) : seen'[k] = seen[k]
  BY <1>1, <1>2, <1>7 DEF TypeOK
<1>11. TypeOK' /\ NamesAreTrue'
  BY <1>1, <1>2, <1>3, <1>9, <1>7, <1>10, RegisterType DEF TypeOK, NamesAreTrue
<1>12. JobsAreTrue'
  <2>1. JobIsTrue(e, tunnel, seen[i], redirected)
    BY <1>2, <1>4, <1>6 DEF JobIsTrue, InProgressOf, Confirmed
  <2>2. ASSUME NEW k \in Ids
        PROVE  JobIsTrue(job'[k], tunnel', seen'[k], redirected')
    <3>1. CASE k = i
      BY <1>2, <1>9, <1>10, <2>1, <3>1
    <3>2. CASE k # i /\ k \in Gone(i)
      BY <1>9, <3>2, NoJobType, FreshIsTrue DEF InProgressOf
    <3>3. CASE k # i /\ k \notin Gone(i)
      BY <1>1, <1>2, <1>9, <1>10, <3>3 DEF JobsAreTrue
    <3> QED
      BY <3>1, <3>2, <3>3
  <2> QED
    BY <2>2 DEF JobsAreTrue
<1>13. OneAtATime'
  <2>1. InProgress = {i} /\ running
    BY <1>1, <1>2 DEF OneAtATime, InProgress
  <2>2. \A k \in Ids \ {i} : job'[k].phase \notin {"registering", "executing"}
    BY <1>9, <2>1, NoJobType DEF InProgress
  <2>3. InProgress' = {i}
    BY <1>6, <1>9, <2>2 DEF InProgress
  <2> QED
    BY <1>2, <2>1, <2>3 DEF OneAtATime
<1> QED
  BY <1>11, <1>12, <1>13 DEF VerificationInv

-----------------------------------------------------------------------------
(* Names, tunnels, restarts                                                *)

\* The names change, and a query may be redirected; no verification moves.
LEMMA NamesMove ==
  ASSUME VerificationInv, UNCHANGED <<running, next, job, kept, tunnel, seen>>,
         redirected' \in BOOLEAN, redirected => redirected',
         names' \in [Ids -> {"absent", "expired", "registered", "received", "redirected"}],
         \A k \in Ids : names'[k] = "redirected" => redirected'
  PROVE  VerificationInv'
<1>1. TypeOK /\ OneAtATime /\ JobsAreTrue
  BY DEF VerificationInv
<1>2. ASSUME NEW k \in Ids
      PROVE  JobIsTrue(job[k], tunnel, seen[k], redirected')
  <2>1. JobIsTrue(job[k], tunnel, seen[k], redirected) /\ redirected \in BOOLEAN
    BY <1>1 DEF JobsAreTrue, TypeOK
  <2> QED
    BY <2>1 DEF JobIsTrue
<1>3. JobsAreTrue'
  BY <1>2 DEF JobsAreTrue
<1>4. OneAtATime'
  BY <1>1, ProgressStays
<1>5. TypeOK' /\ NamesAreTrue'
  BY <1>1 DEF TypeOK, NamesAreTrue
<1> QED
  BY <1>3, <1>4, <1>5 DEF VerificationInv

LEMMA NamesStep ==
  ASSUME VerificationInv,
         \/ \E i \in Ids, byRedirect \in BOOLEAN : Resolve(i, byRedirect)
         \/ Redirect \/ ProxyRestart
         \/ \E i \in Ids : Expire(i)
  PROVE  VerificationInv'
<1>1. /\ UNCHANGED <<running, next, job, kept, tunnel, seen>>
      /\ redirected \in BOOLEAN /\ \A k \in Ids : names[k] = "redirected" => redirected
      /\ names \in [Ids -> {"absent", "expired", "registered", "received", "redirected"}]
  BY DEF Resolve, Redirect, ProxyRestart, Expire, VerificationInv, TypeOK, NamesAreTrue
<1>2. ASSUME NEW i \in Ids, NEW byRedirect \in BOOLEAN, Resolve(i, byRedirect)
      PROVE  VerificationInv'
  <2>1. redirected' = (redirected \/ byRedirect)
    BY <1>2 DEF Resolve
  <2>2. redirected' \in BOOLEAN /\ (redirected => redirected') /\ (byRedirect => redirected')
    BY <1>1, <2>1
  <2>3. /\ names' \in [Ids -> {"absent", "expired", "registered", "received", "redirected"}]
        /\ \A k \in Ids : names'[k] = "redirected" => names[k] = "redirected" \/ byRedirect
    BY <1>1, <1>2 DEF Resolve
  <2> QED
    BY <1>1, <2>2, <2>3, NamesMove
<1>3. CASE Redirect
  BY <1>1, <1>3, NamesMove DEF Redirect
<1>4. CASE ProxyRestart
  BY <1>1, <1>4, NamesMove DEF ProxyRestart
<1>5. ASSUME NEW i \in Ids, Expire(i)
      PROVE  VerificationInv'
  BY <1>1, <1>5, NamesMove DEF Expire
<1> QED
  BY <1>2, <1>3, <1>4, <1>5

LEMMA TunnelStep ==
  ASSUME VerificationInv, TunnelChange
  PROVE  VerificationInv'
<1>1. TypeOK /\ OneAtATime /\ NamesAreTrue /\ JobsAreTrue
  BY DEF VerificationInv
<1>2. /\ UNCHANGED <<running, next, job, kept, names, redirected>>
      /\ tunnel' \in Addresses \cup {None}
      /\ seen' \in [Ids -> SUBSET (Addresses \cup {None})]
      /\ \A k \in Ids : seen'[k] = IF InProgressOf(job[k]) THEN seen[k] \cup {tunnel'} ELSE seen[k]
  BY <1>1 DEF TunnelChange, TypeOK, InProgressOf
<1>3. ASSUME NEW k \in Ids
      PROVE  JobIsTrue(job[k], tunnel', seen'[k], redirected)
  <2>1. JobIsTrue(job[k], tunnel, seen[k], redirected) /\ redirected \in BOOLEAN
    BY <1>1 DEF JobsAreTrue, TypeOK
  <2>2. seen[k] \subseteq seen'[k] /\ (InProgressOf(job[k]) => tunnel' \in seen'[k])
    BY <1>2
  <2> QED
    BY <2>1, <2>2 DEF JobIsTrue, Confirmed
<1>4. JobsAreTrue'
  BY <1>2, <1>3 DEF JobsAreTrue
<1>5. OneAtATime'
  BY <1>1, <1>2, ProgressStays
<1>6. TypeOK' /\ NamesAreTrue'
  BY <1>1, <1>2 DEF TypeOK, NamesAreTrue
<1> QED
  BY <1>4, <1>5, <1>6 DEF VerificationInv

\* No verification is in progress, and none has a result.
LEMMA NothingYet ==
  ASSUME job = [i \in Ids |-> NoJob], ~running
  PROVE  OneAtATime /\ job \in [Ids -> JobStates] /\ JobsAreTrue
<1>1. job \in [Ids -> JobStates] /\ \A k \in Ids : job[k] = NoJob
  BY NoJobType
<1>2. InProgress = {}
  BY <1>1, NoJobType DEF InProgress
<1>3. JobsAreTrue
  BY <1>1, NoJobType, FreshIsTrue DEF JobsAreTrue, InProgressOf
<1> QED
  BY <1>1, <1>2, <1>3 DEF OneAtATime

LEMMA ApiRestartStep ==
  ASSUME VerificationInv, ApiRestart
  PROVE  VerificationInv'
<1>1. (job = [i \in Ids |-> NoJob] /\ ~running)' => (OneAtATime /\ job \in [Ids -> JobStates] /\ JobsAreTrue)'
  BY NothingYet, PTL
<1>2. (job = [i \in Ids |-> NoJob] /\ ~running)'
  BY DEF ApiRestart
<1>3. TypeOK' /\ NamesAreTrue'
  <2>1. /\ running' = FALSE /\ kept' = << >> /\ seen' = [i \in Ids |-> {}]
        /\ UNCHANGED <<next, names, tunnel, redirected>>
    BY DEF ApiRestart
  <2>2. << >> \in Seq(Ids) /\ [i \in Ids |-> {}] \in [Ids -> SUBSET (Addresses \cup {None})]
    OBVIOUS
  <2> QED
    BY <1>1, <1>2, <2>1, <2>2 DEF VerificationInv, TypeOK, NamesAreTrue
<1> QED
  BY <1>1, <1>2, <1>3 DEF VerificationInv

-----------------------------------------------------------------------------
(* The theorems                                                            *)

LEMMA VerificationStep == VerificationInv /\ [Next]_vars => VerificationInv'
<1> SUFFICES ASSUME VerificationInv, [Next]_vars
             PROVE  VerificationInv'
  OBVIOUS
<1>1. CASE UNCHANGED vars
  <2>1. UNCHANGED <<running, next, job, kept, names, tunnel, seen, redirected>>
    BY <1>1 DEF vars
  <2> QED
    BY <2>1 DEF VerificationInv, TypeOK, OneAtATime, InProgress, NamesAreTrue, JobsAreTrue
<1>2. CASE Next
  BY <1>2, StartStep, RegisteredStep, BeginStep, ChecksStep, PublishStep, FinishStep, SubmitStep,
     NamesStep, TunnelStep, ApiRestartStep DEF Next
<1> QED
  BY <1>1, <1>2

LEMMA VerificationInvHolds == Spec => []VerificationInv
<1>1. Init => VerificationInv
  <2> SUFFICES ASSUME Init
               PROVE  VerificationInv
    OBVIOUS
  <2>1. OneAtATime /\ job \in [Ids -> JobStates] /\ JobsAreTrue
    BY NothingYet DEF Init
  <2>2. << >> \in Seq(Ids) /\ [i \in Ids |-> {}] \in [Ids -> SUBSET (Addresses \cup {None})]
    OBVIOUS
  <2>3. TypeOK
    BY <2>1, <2>2 DEF Init, TypeOK
  <2>4. NamesAreTrue
    BY DEF Init, NamesAreTrue
  <2> QED
    BY <2>1, <2>3, <2>4 DEF VerificationInv
<1> QED
  BY <1>1, VerificationStep, PTL DEF Spec

\* At most one verification is in progress, and the flag that refuses others is held
\* exactly while one is, whatever restarts and however the checks end.
THEOREM OneAtATimeHolds == Spec => []OneAtATime
<1>1. VerificationInv => OneAtATime
  BY DEF VerificationInv
<1> QED
  BY <1>1, VerificationInvHolds, PTL

\* What a verification has passed was so: the browser's address was the tunnel's
\* while it ran, and some query was redirected.
THEOREM PassIsTrueHolds == Spec => []PassIsTrue
<1>1. VerificationInv => PassIsTrue
  <2> SUFFICES ASSUME VerificationInv, NEW i \in Ids
               PROVE  /\ job[i].status["egress"] = "pass" => job[i].egress \in seen[i] \ {None}
                      /\ job[i].status["redirect"] = "pass" => redirected
    BY DEF PassIsTrue
  <2> QED
    BY DEF VerificationInv, JobsAreTrue, JobIsTrue, Confirmed
<1> QED
  BY <1>1, VerificationInvHolds, PTL
=============================================================================
