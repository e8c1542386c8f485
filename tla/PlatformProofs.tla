---------------------------- MODULE PlatformProofs ----------------------------
(***************************************************************************)
(* Theorems about FormNotification, for any number of submissions, runs of *)
(* the cron, attempts and releases; about FormBackup, for any number of    *)
(* overlapping backup runs and restores and any number of days; and about  *)
(* PlatformMC, which puts the services side by side.                       *)
(***************************************************************************)
EXTENDS PlatformMC, EditorOutboxProofs, NewsletterSignupProofs,
        HumanAccessProofs, FiniteSetTheorems, TLAPS

-----------------------------------------------------------------------------
(* Notifications: the inductive invariant *)

FormJobRows == [status : Statuses, attempts : Nat, token : Tokens, live : BOOLEAN,
                error : {"none", "delivery"} \cup ErasureCodes, inWindow : BOOLEAN]
CronRows == [phase : {"idle", "claiming", "reading", "sending", "recording"},
             batch : SUBSET Submissions, sending : SUBSET Submissions, outcome : Outcomes]

\* The types of the rows, of what the runs hold, and of the counters.
RowsOK ==
    /\ job \in [Submissions -> FormJobRows]
    /\ classification \in [Submissions -> {"none", "accepted", "suspected_spam"}]
    /\ payload \in [Submissions -> {"none", "present", "deleted"}]
RunsOK ==
    /\ cron \in [Crons -> CronRows]
    /\ \A k \in Crons : cron[k].phase = "recording" => cron[k].sending \subseteq cron[k].batch
CountsOK == emails \in [Submissions -> Nat] /\ releases \in [Submissions -> Nat]

TokenOK(m) == (job[m].status = "processing") = (job[m].token # "no token")

\* What the rows of a submission have in common, whoever wrote them last.
RowsAgree(m) ==
    /\ (classification[m] = "none") = (job[m].status = "none")
    /\ (classification[m] = "none") = (payload[m] = "none")
    /\ job[m].status \in Waiting \cup {"processing"} =>
          classification[m] = "accepted" /\ payload[m] = "present"
    /\ payload[m] = "deleted" =>
          \/ job[m].status = "delivered"
          \/ job[m].status = "failed" /\ job[m].error \in ErasureCodes

\* The run whose token a job bears still has the job before it.
HolderKnows(m) ==
    \A k \in Crons : job[m].token = k =>
        \/ cron[k].phase = "reading"
        \/ cron[k].phase \in {"sending", "recording"} /\ m \in cron[k].batch

\* Run k may still send for m, or put it back with an answer that asks for it.
Owes(k, m) ==
    \/ /\ cron[k].phase = "reading"
       /\ job[m].status = "processing" /\ job[m].token = k
    \/ cron[k].phase = "sending" /\ m \in cron[k].batch
    \/ /\ cron[k].phase = "recording" /\ m \in cron[k].batch
       /\ m \notin cron[k].sending \/ cron[k].outcome = "retry"

Debt(m) == {k \in Crons : Owes(k, m)}
Waits(m) == IF job[m].status \in Waiting THEN 1 ELSE 0

\* What was sent, may still be sent by a run, and waits to be sent was all
\* released.
Budget(m) == emails[m] + Cardinality(Debt(m)) + Waits(m) <= releases[m]

SubmissionOK(m) == TokenOK(m) /\ RowsAgree(m) /\ HolderKnows(m) /\ Budget(m)

FormInv == RowsOK /\ RunsOK /\ CountsOK /\ \A m \in Submissions : SubmissionOK(m)

LEMMA FormTypes == FormInv => FormTypeOK
  BY DEF FormInv, FormTypeOK, RowsOK, RunsOK, CountsOK, SubmissionOK, TokenOK, FormJobRows, CronRows

-----------------------------------------------------------------------------
(* Counting debts *)

LEMMA DebtIsFinite ==
    ASSUME NEW m
    PROVE  IsFiniteSet(Debt(m)) /\ Cardinality(Debt(m)) \in Nat
  BY CronAssumption, FS_Subset, FS_CardinalityType DEF Debt

LEMMA DebtShrinks ==
    ASSUME NEW m, Debt(m)' \subseteq Debt(m)
    PROVE  Cardinality(Debt(m))' \in Nat /\ Cardinality(Debt(m))' <= Cardinality(Debt(m))
  BY DebtIsFinite, FS_Subset, FS_CardinalityType

LEMMA DebtGrowsByOne ==
    ASSUME NEW m, NEW k, Debt(m)' \subseteq Debt(m) \cup {k}
    PROVE  Cardinality(Debt(m))' \in Nat /\ Cardinality(Debt(m))' <= Cardinality(Debt(m)) + 1
<1>1. IsFiniteSet(Debt(m) \cup {k}) /\ Cardinality(Debt(m) \cup {k}) <= Cardinality(Debt(m)) + 1
  BY DebtIsFinite, FS_AddElement
<1>2. Cardinality(Debt(m))' <= Cardinality(Debt(m) \cup {k}) /\ IsFiniteSet(Debt(m)')
  BY <1>1, FS_Subset
<1> QED
  BY <1>1, <1>2, DebtIsFinite, FS_CardinalityType

LEMMA DebtIsPaid ==
    ASSUME NEW m, NEW k \in Debt(m), Debt(m)' \subseteq Debt(m) \ {k}
    PROVE  Cardinality(Debt(m))' \in Nat /\ Cardinality(Debt(m))' <= Cardinality(Debt(m)) - 1
<1>1. IsFiniteSet(Debt(m) \ {k}) /\ Cardinality(Debt(m) \ {k}) = Cardinality(Debt(m)) - 1
  BY DebtIsFinite, FS_RemoveElement
<1>2. Cardinality(Debt(m))' <= Cardinality(Debt(m) \ {k}) /\ IsFiniteSet(Debt(m)')
  BY <1>1, FS_Subset
<1> QED
  BY <1>1, <1>2, DebtIsFinite, FS_CardinalityType

LEMMA WaitsType == ASSUME NEW m PROVE Waits(m) \in {0, 1} /\ Waits(m)' \in {0, 1}
  BY DEF Waits

\* How a budget is kept: the debt, the waiting job and the e-mails together grow
\* by no more than the releases.
LEMMA BudgetKept ==
    ASSUME CountsOK, CountsOK', NEW m \in Submissions, Budget(m),
           NEW d \in {-1, 0, 1}, Cardinality(Debt(m))' \in Nat,
           Cardinality(Debt(m))' <= Cardinality(Debt(m)) + d,
           emails'[m] + d + Waits(m)' + releases[m] <= emails[m] + Waits(m) + releases'[m]
    PROVE  Budget(m)'
<1>1. /\ emails[m] \in Nat /\ emails'[m] \in Nat /\ releases[m] \in Nat /\ releases'[m] \in Nat
      /\ Waits(m) \in Int /\ Waits(m)' \in Int
  BY WaitsType DEF CountsOK, Waits
<1> QED
  BY <1>1, DebtIsFinite DEF Budget

-----------------------------------------------------------------------------
(* Steps that leave the runs alone *)

\* A run either does not move or is not at work on any job.
QuietRuns ==
    \A k \in Crons : \/ cron'[k] = cron[k]
                     \/ /\ cron[k].phase \in {"idle", "claiming"}
                        /\ cron'[k].phase \in {"idle", "claiming"}

LEMMA QuietDebt ==
    ASSUME NEW m \in Submissions, HolderKnows(m), QuietRuns,
           job'[m].status = "processing" =>
              job[m].status = "processing" /\ job'[m].token = job[m].token
    PROVE  Cardinality(Debt(m))' \in Nat /\ Cardinality(Debt(m))' <= Cardinality(Debt(m))
<1>1. ASSUME NEW k \in Crons, Owes(k, m)'
      PROVE  Owes(k, m)
  <2>1. cron'[k] = cron[k]
    BY <1>1 DEF Owes, QuietRuns
  <2> QED
    BY <1>1, <2>1 DEF Owes
<1>2. Debt(m)' \subseteq Debt(m)
  BY <1>1 DEF Debt
<1> QED
  BY <1>2, DebtShrinks

\* The rows of one submission stay as they are.
LEMMA SameSubmission ==
    ASSUME CountsOK, CountsOK', NEW m \in Submissions, SubmissionOK(m), QuietRuns,
           job'[m].status = job[m].status, job'[m].token = job[m].token,
           job'[m].error = job[m].error,
           classification'[m] = classification[m], payload'[m] = payload[m],
           emails'[m] = emails[m], releases'[m] = releases[m]
    PROVE  SubmissionOK(m)'
<1>1. TokenOK(m)' /\ RowsAgree(m)'
  BY DEF SubmissionOK, TokenOK, RowsAgree
<1>2. HolderKnows(m)'
  <2> SUFFICES ASSUME NEW k \in Crons, job'[m].token = k
               PROVE  \/ cron'[k].phase = "reading"
                      \/ cron'[k].phase \in {"sending", "recording"} /\ m \in cron'[k].batch
    BY DEF HolderKnows
  <2>1. \/ cron[k].phase = "reading"
        \/ cron[k].phase \in {"sending", "recording"} /\ m \in cron[k].batch
    BY DEF SubmissionOK, HolderKnows
  <2> QED
    BY <2>1 DEF QuietRuns
<1>3. Budget(m)'
  <2>1. Cardinality(Debt(m))' \in Nat /\ Cardinality(Debt(m))' <= Cardinality(Debt(m)) + 0
    BY QuietDebt, DebtIsFinite DEF SubmissionOK
  <2>2. Waits(m)' = Waits(m) /\ Waits(m) \in Int
    BY DEF Waits
  <2> QED
    BY <2>1, <2>2, BudgetKept DEF SubmissionOK, CountsOK
<1> QED
  BY <1>1, <1>2, <1>3 DEF SubmissionOK

\* A job is written that no run holds: what it newly waits for was released.
LEMMA FreedSubmission ==
    ASSUME CountsOK, CountsOK', NEW m \in Submissions, SubmissionOK(m), QuietRuns,
           job'[m].status # "processing", job'[m].token \notin Crons,
           emails'[m] = emails[m],
           releases'[m] \in {releases[m], releases[m] + 1},
           job'[m].status \in Waiting /\ job[m].status \notin Waiting =>
              releases'[m] = releases[m] + 1
    PROVE  HolderKnows(m)' /\ Budget(m)'
<1>1. HolderKnows(m)'
  BY DEF HolderKnows
<1>2. Budget(m)'
  <2>1. HolderKnows(m) /\ Budget(m)
    BY DEF SubmissionOK
  <2>2. Cardinality(Debt(m))' \in Nat /\ Cardinality(Debt(m))' <= Cardinality(Debt(m)) + 0
    BY <2>1, QuietDebt, DebtIsFinite
  <2>3. /\ Waits(m)' \in Int /\ Waits(m) \in Int
        /\ releases[m] \in Int /\ releases'[m] \in Int /\ emails[m] \in Int
        /\ Waits(m)' \in {0, 1} /\ Waits(m) \in {0, 1}
        /\ Waits(m)' = 1 /\ Waits(m) = 0 => releases'[m] = releases[m] + 1
    BY WaitsType DEF CountsOK, Waits
  <2>4. emails'[m] + 0 + Waits(m)' + releases[m] <= emails[m] + Waits(m) + releases'[m]
    BY <2>3
  <2> QED
    BY <2>1, <2>2, <2>4, BudgetKept
<1> QED
  BY <1>1, <1>2

-----------------------------------------------------------------------------
(* Types *)

LEMMA JobForms ==
    /\ NewJob \in FormJobRows /\ [NewJob EXCEPT !.status = "pending"] \in FormJobRows
    /\ NewJob.status = "none" /\ NewJob.token \notin Crons
    /\ [NewJob EXCEPT !.status = "pending"].status = "pending"
    /\ [NewJob EXCEPT !.status = "pending"].token = NewJob.token
    /\ IdleCron \in CronRows /\ IdleCron.phase = "idle"
  BY CronAssumption
  DEF NewJob, FormJobRows, Statuses, Waiting, Tokens, IdleCron, CronRows, Outcomes, ErasureCodes

\* A freed job: its token is the one of a new job, its other fields stay.
LEMMA FreeForms ==
    ASSUME NEW j \in FormJobRows
    PROVE  /\ Free(j) \in FormJobRows
           /\ Free(j).token = NewJob.token /\ Free(j).status = j.status /\ Free(j).error = j.error
           /\ AfterExpiry(j) \in FormJobRows /\ AfterExpiry(j).token = NewJob.token
           /\ AfterExpiry(j).status = "failed"
           /\ \A code \in ErasureCodes :
                 /\ Cancelled(j, code) \in FormJobRows /\ Cancelled(j, code).token = NewJob.token
                 /\ Cancelled(j, code).status = "failed" /\ Cancelled(j, code).error = code
  BY DEF Free, AfterExpiry, Cancelled, FormJobRows, Statuses, Waiting, Tokens, NewJob, ErasureCodes

\* The token of a new job is that of every job nobody has claimed.
LEMMA TokenMeans ==
    ASSUME NEW m
    PROVE  TokenOK(m) <=> (job[m].status # "processing" <=> job[m].token = NewJob.token)
  BY DEF TokenOK, NewJob

LEMMA TokenMeansNext ==
    ASSUME NEW m
    PROVE  TokenOK(m)' <=> (job'[m].status = "processing") = (job'[m].token # NewJob.token)
  BY DEF TokenOK, NewJob

LEMMA StatusesAre ==
    /\ Waiting = {"pending", "retry"}
    /\ Statuses = {"pending", "retry", "none", "processing", "delivered", "failed", "held"}
    /\ ErasureCodes = {"payload_erased", "payload_expired"}
  BY DEF Waiting, Statuses, ErasureCodes

-----------------------------------------------------------------------------
(* The acts of visitors, the owner and retention *)

LEMMA FormInvInit == FormInit => FormInv
<1> SUFFICES ASSUME FormInit PROVE FormInv
  OBVIOUS
<1>1. RowsOK
  BY JobForms DEF FormInit, RowsOK
<1>2. RunsOK /\ CountsOK
  BY JobForms DEF FormInit, RunsOK, CountsOK
<1>3. ASSUME NEW m \in Submissions
      PROVE  SubmissionOK(m)
  <2>1. job[m] = NewJob /\ classification[m] = "none" /\ payload[m] = "none"
        /\ emails[m] = 0 /\ releases[m] = 0
    BY <1>3 DEF FormInit
  <2>2. TokenOK(m) /\ RowsAgree(m)
    <3>1. RowsAgree(m)
      BY <2>1, JobForms, StatusesAre DEF RowsAgree
    <3> QED
      BY <2>1, <3>1, JobForms, TokenMeans
  <2>3. HolderKnows(m)
    BY <2>1, JobForms DEF HolderKnows
  <2>4. Debt(m) = {}
    <3>1. \A k \in Crons : cron[k].phase = "idle"
      BY JobForms DEF FormInit
    <3> QED
      BY <3>1 DEF Debt, Owes
  <2>5. Waits(m) = 0
    BY <2>1, JobForms, StatusesAre DEF Waits
  <2>6. Budget(m)
    BY <2>1, <2>4, <2>5, FS_EmptySet DEF Budget
  <2> QED
    BY <2>2, <2>3, <2>6 DEF SubmissionOK
<1> QED
  BY <1>1, <1>2, <1>3 DEF FormInv

\* One submission's rows are written and its job is held by no run.
LEMMA OneRow ==
    ASSUME FormInv, NEW m \in Submissions, NEW j \in FormJobRows,
           NEW c \in {"accepted", "suspected_spam"}, NEW p \in {"present", "deleted"},
           job' = [job EXCEPT ![m] = j],
           classification' = [classification EXCEPT ![m] = c],
           payload' = [payload EXCEPT ![m] = p], UNCHANGED <<cron, emails>>,
           j.status \notin {"processing", "none"}, j.token = NewJob.token,
           \/ releases' = releases /\ (j.status \in Waiting => job[m].status \in Waiting)
           \/ releases' = [releases EXCEPT ![m] = @ + 1],
           j.status \in Waiting => c = "accepted" /\ p = "present",
           p = "deleted" => \/ j.status = "delivered"
                            \/ j.status = "failed" /\ j.error \in ErasureCodes
    PROVE  FormInv'
<1>1. RowsOK' /\ RunsOK'
  BY DEF FormInv, RowsOK, RunsOK
<1>2. CountsOK'
  BY DEF FormInv, CountsOK
<1>3. QuietRuns
  BY DEF QuietRuns
<1>4. ASSUME NEW n \in Submissions
      PROVE  SubmissionOK(n)'
  <2>1. SubmissionOK(n) /\ CountsOK
    BY DEF FormInv
  <2>2. CASE n = m
    <3>1. /\ job'[n] = j /\ classification'[n] = c /\ payload'[n] = p /\ emails'[n] = emails[n]
          /\ releases'[n] \in {releases[n], releases[n] + 1}
          /\ j.status \in Waiting /\ job[n].status \notin Waiting => releases'[n] = releases[n] + 1
      BY <2>2 DEF FormInv, RowsOK, CountsOK
    <3>2. TokenOK(n)'
      BY <3>1, TokenMeansNext
    <3>3. RowsAgree(n)'
      BY <3>1 DEF RowsAgree
    <3>4. HolderKnows(n)' /\ Budget(n)'
      BY <1>2, <1>3, <2>1, <3>1, JobForms, FreedSubmission
    <3> QED
      BY <3>2, <3>3, <3>4 DEF SubmissionOK
  <2>3. CASE n # m
    <3>1. /\ job'[n] = job[n] /\ classification'[n] = classification[n]
          /\ payload'[n] = payload[n] /\ emails'[n] = emails[n] /\ releases'[n] = releases[n]
      BY <2>3 DEF FormInv, RowsOK, CountsOK
    <3> QED
      BY <1>2, <1>3, <2>1, <3>1, SameSubmission
  <2> QED
    BY <2>2, <2>3
<1> QED
  BY <1>1, <1>2, <1>4 DEF FormInv

Verdicts == {"accepted", "suspected_spam"}

LEMMA AcceptStep ==
    ASSUME FormInv, NEW m \in Submissions, NEW verdict \in Verdicts, accept(m, verdict)
    PROVE  FormInv'
<1>1. job[m] \in FormJobRows /\ job[m].token = NewJob.token
  <2>1. job[m] \in FormJobRows /\ TokenOK(m) /\ RowsAgree(m)
    BY DEF FormInv, RowsOK, SubmissionOK
  <2>2. job[m].status = "none"
    BY <2>1 DEF accept, RowsAgree
  <2> QED
    BY <2>1, <2>2, TokenMeans
<1>2. ASSUME NEW state \in {"pending", "held"}
      PROVE  /\ [job[m] EXCEPT !.status = state] \in FormJobRows
             /\ [job[m] EXCEPT !.status = state].status = state
             /\ [job[m] EXCEPT !.status = state].token = NewJob.token
  BY <1>1, StatusesAre DEF FormJobRows
<1>3. CASE verdict = "accepted"
  <2> DEFINE j == [job[m] EXCEPT !.status = "pending"]
  <2>1. job' = [job EXCEPT ![m] = j] /\ releases' = [releases EXCEPT ![m] = @ + 1]
    BY <1>3 DEF accept, Released
  <2>2. j \in FormJobRows /\ j.status = "pending" /\ j.token = NewJob.token
    BY <1>2
  <2> HIDE DEF j
  <2> QED
    BY <2>1, <2>2, <1>3, OneRow, StatusesAre DEF accept
<1>4. CASE verdict = "suspected_spam"
  <2> DEFINE j == [job[m] EXCEPT !.status = "held"]
  <2>1. job' = [job EXCEPT ![m] = j] /\ releases' = releases
    BY <1>4 DEF accept
  <2>2. j \in FormJobRows /\ j.status = "held" /\ j.token = NewJob.token
    BY <1>2
  <2> HIDE DEF j
  <2> QED
    BY <2>1, <2>2, <1>4, OneRow, StatusesAre DEF accept
<1> QED
  BY <1>3, <1>4 DEF Verdicts

LEMMA ReplayStep ==
    ASSUME FormInv, NEW m \in Submissions, replayFailed(m)
    PROVE  FormInv'
<1> DEFINE j == [NewJob EXCEPT !.status = "pending"]
<1>1. j \in FormJobRows /\ j.status = "pending" /\ j.token = NewJob.token
  BY JobForms
<1>2. classification[m] = "accepted" /\ payload[m] = "present"
  <2>1. RowsOK /\ RowsAgree(m)
    BY DEF FormInv, SubmissionOK
  <2>2. /\ classification[m] = "accepted" /\ job[m].status = "failed"
        /\ job[m].error \notin ErasureCodes
    BY DEF replayFailed
  <2> QED
    BY <2>1, <2>2, StatusesAre DEF RowsAgree, RowsOK
<1>3. /\ job' = [job EXCEPT ![m] = j] /\ releases' = [releases EXCEPT ![m] = @ + 1]
      /\ classification' = [classification EXCEPT ![m] = "accepted"]
      /\ payload' = [payload EXCEPT ![m] = "present"] /\ UNCHANGED <<cron, emails>>
  BY <1>2 DEF replayFailed, Released, FormInv, RowsOK
<1> HIDE DEF j
<1> QED
  BY <1>1, <1>3, OneRow, StatusesAre

LEMMA ReleaseStep ==
    ASSUME FormInv, NEW m \in Submissions, releaseSuspectedSpam(m)
    PROVE  FormInv'
<1> DEFINE j == [job[m] EXCEPT !.status = "pending", !.inWindow = TRUE]
<1>1. job[m] \in FormJobRows /\ job[m].token = NewJob.token
  <2>1. job[m] \in FormJobRows /\ TokenOK(m) /\ job[m].status = "held"
    BY DEF FormInv, RowsOK, SubmissionOK, releaseSuspectedSpam
  <2> QED
    BY <2>1, TokenMeans
<1>2. j \in FormJobRows /\ j.status = "pending" /\ j.token = NewJob.token
  BY <1>1, StatusesAre DEF FormJobRows
<1>3. /\ job' = [job EXCEPT ![m] = j] /\ releases' = [releases EXCEPT ![m] = @ + 1]
      /\ classification' = [classification EXCEPT ![m] = "accepted"]
      /\ payload' = [payload EXCEPT ![m] = "present"] /\ UNCHANGED <<cron, emails>>
  BY DEF releaseSuspectedSpam, Released, FormInv, RowsOK
<1> HIDE DEF j
<1> QED
  BY <1>2, <1>3, OneRow, StatusesAre

LEMMA ClassifyStep ==
    ASSUME FormInv, NEW m \in Submissions, NEW verdict \in Verdicts, classifySubmission(m, verdict)
    PROVE  FormInv'
<1>1. /\ RowsOK /\ job[m] \in FormJobRows /\ TokenOK(m) /\ RowsAgree(m)
      /\ job[m].status # "processing" /\ payload[m] = "present"
  BY DEF FormInv, RowsOK, SubmissionOK, classifySubmission, Reclassifiable
<1>2. job[m].token = NewJob.token /\ job[m].status # "none"
  BY <1>1, TokenMeans DEF RowsAgree
<1>3. /\ classification' = [classification EXCEPT ![m] = verdict]
      /\ payload' = [payload EXCEPT ![m] = "present"] /\ UNCHANGED <<cron, emails>>
  BY <1>1 DEF classifySubmission, RowsOK
<1>4. CASE job[m].status \notin Waiting \cup {"failed", "held"}
  <2>1. job' = [job EXCEPT ![m] = job[m]] /\ releases' = releases
    BY <1>1, <1>4 DEF classifySubmission, RowsOK
  <2> QED
    BY <1>1, <1>2, <1>3, <1>4, <2>1, OneRow DEF Verdicts
<1>5. CASE job[m].status \in Waiting \cup {"failed", "held"} /\ verdict = "suspected_spam"
  <2> DEFINE j == [job[m] EXCEPT !.status = "held"]
  <2>1. job' = [job EXCEPT ![m] = j] /\ releases' = releases
    BY <1>5 DEF classifySubmission
  <2>2. j \in FormJobRows /\ j.status = "held" /\ j.token = NewJob.token
    BY <1>1, <1>2, StatusesAre DEF FormJobRows
  <2> HIDE DEF j
  <2> QED
    BY <1>3, <2>1, <2>2, OneRow, StatusesAre DEF Verdicts
<1>6. CASE job[m].status \in Waiting \cup {"failed", "held"} /\ verdict = "accepted"
  <2> DEFINE j == [NewJob EXCEPT !.status = "pending"]
  <2>1. job' = [job EXCEPT ![m] = j] /\ releases' = [releases EXCEPT ![m] = @ + 1]
    BY <1>6 DEF classifySubmission, Released
  <2>2. j \in FormJobRows /\ j.status = "pending" /\ j.token = NewJob.token
    BY JobForms
  <2> HIDE DEF j
  <2> QED
    BY <1>3, <1>6, <2>1, <2>2, OneRow, StatusesAre DEF Verdicts
<1> QED
  BY <1>4, <1>5, <1>6 DEF Verdicts

LEMMA EraseStep ==
    ASSUME FormInv, NEW m \in Submissions, eraseSubmissionPayload(m)
    PROVE  FormInv'
<1>1. /\ RowsOK /\ job[m] \in FormJobRows /\ TokenOK(m) /\ RowsAgree(m)
      /\ classification[m] \in Verdicts
  BY DEF FormInv, RowsOK, SubmissionOK, eraseSubmissionPayload, Verdicts
<1>2. /\ classification' = [classification EXCEPT ![m] = classification[m]]
      /\ UNCHANGED <<cron, emails>> /\ releases' = releases
  BY <1>1 DEF eraseSubmissionPayload, RowsOK
<1>3. job[m].status # "none" /\ payload[m] # "none"
  BY <1>1 DEF RowsAgree, Verdicts
<1>4. CASE Cancellable(m)
  <2> DEFINE j == Cancelled(job[m], "payload_erased")
  <2>1. /\ job' = [job EXCEPT ![m] = j]
        /\ payload' = [payload EXCEPT ![m] = "deleted"]
    BY <1>4, StatusesAre DEF eraseSubmissionPayload, Cancellable
  <2>2. /\ j \in FormJobRows /\ j.status = "failed" /\ j.token = NewJob.token
        /\ j.error = "payload_erased"
    BY <1>1, FreeForms, StatusesAre
  <2> HIDE DEF j
  <2> QED
    BY <1>1, <1>2, <2>1, <2>2, OneRow, StatusesAre DEF Verdicts
<1>5. CASE job[m].status = "delivered"
  <2>1. /\ job' = [job EXCEPT ![m] = job[m]]
        /\ payload' = [payload EXCEPT ![m] = "deleted"]
    BY <1>1, <1>5, StatusesAre DEF eraseSubmissionPayload, Cancellable, RowsOK
  <2>2. job[m].token = NewJob.token
    BY <1>1, <1>5, TokenMeans
  <2> QED
    BY <1>1, <1>2, <1>5, <2>1, <2>2, OneRow, StatusesAre DEF Verdicts
<1>6. CASE job[m].status = "processing"
  <2>1. UNCHANGED <<job, classification, payload, cron, emails, releases>>
    BY <1>6, StatusesAre DEF eraseSubmissionPayload, Cancellable
  <2>2. RowsOK' /\ RunsOK' /\ CountsOK' /\ QuietRuns
    BY <2>1 DEF FormInv, RowsOK, RunsOK, CountsOK, QuietRuns
  <2>3. \A n \in Submissions : SubmissionOK(n)'
    BY <2>1, <2>2, SameSubmission DEF FormInv
  <2> QED
    BY <2>2, <2>3 DEF FormInv
<1> QED
  BY <1>1, <1>3, <1>4, <1>5, <1>6, StatusesAre DEF FormJobRows, Cancellable

LEMMA RetentionStep ==
    ASSUME FormInv, NEW aged \in SUBSET Submissions, applyRetention(aged)
    PROVE  FormInv'
<1> DEFINE expired == {m \in aged : payload[m] = "present"}
<1>1. UNCHANGED <<classification, cron, emails, releases>>
  BY DEF applyRetention
<1>2. \A m \in Submissions :
         /\ job'[m] = IF m \in expired /\ Cancellable(m)
                      THEN Cancelled(job[m], "payload_expired") ELSE job[m]
         /\ payload'[m] = IF m \in expired /\ job[m].status # "processing"
                          THEN "deleted" ELSE payload[m]
  BY DEF applyRetention
<1>3. RunsOK' /\ CountsOK' /\ QuietRuns
  BY <1>1 DEF FormInv, RunsOK, CountsOK, QuietRuns
<1>4. RowsOK'
  <2>1. "payload_expired" \in ErasureCodes /\ \A m \in Submissions : job[m] \in FormJobRows
    BY StatusesAre DEF FormInv, RowsOK
  <2>2. \A m \in Submissions : job'[m] \in FormJobRows
    BY <1>2, <2>1, FreeForms
  <2>3. /\ job' = [m \in Submissions |-> job'[m]]
        /\ payload' = [m \in Submissions |-> payload'[m]]
    BY DEF applyRetention
  <2>4. job' \in [Submissions -> FormJobRows]
    BY <2>2, <2>3
  <2>5. payload' \in [Submissions -> {"none", "present", "deleted"}]
    BY <1>2, <2>3 DEF FormInv, RowsOK
  <2> QED
    BY <1>1, <2>4, <2>5 DEF FormInv, RowsOK
<1>5. ASSUME NEW m \in Submissions
      PROVE  SubmissionOK(m)'
  <2>1. /\ SubmissionOK(m) /\ CountsOK /\ TokenOK(m) /\ RowsAgree(m)
        /\ job[m] \in FormJobRows
    BY DEF FormInv, SubmissionOK, RowsOK
  <2>2. CASE m \in expired /\ Cancellable(m)
    <3> DEFINE j == Cancelled(job[m], "payload_expired")
    <3>1. /\ job'[m] = j /\ payload'[m] = "deleted" /\ payload[m] = "present"
      BY <1>2, <2>2, StatusesAre DEF Cancellable
    <3>2. /\ j.status = "failed" /\ j.token = NewJob.token /\ j.error = "payload_expired"
      BY <2>1, FreeForms, StatusesAre
    <3> HIDE DEF j
    <3>3. TokenOK(m)'
      BY <3>1, <3>2, TokenMeansNext
    <3>4. RowsAgree(m)'
      BY <1>1, <2>1, <3>1, <3>2, StatusesAre DEF RowsAgree
    <3>5. HolderKnows(m)' /\ Budget(m)'
      BY <1>1, <1>3, <2>1, <3>1, <3>2, JobForms, StatusesAre, FreedSubmission
    <3> QED
      BY <3>3, <3>4, <3>5 DEF SubmissionOK
  <2>3. CASE m \in expired /\ job[m].status = "delivered"
    <3>1. job'[m] = job[m] /\ payload'[m] = "deleted" /\ payload[m] = "present"
      BY <1>2, <2>3, StatusesAre DEF Cancellable
    <3>2. TokenOK(m)' /\ job[m].token = NewJob.token
      BY <2>1, <2>3, <3>1, TokenMeansNext, TokenMeans
    <3>4. RowsAgree(m)'
      BY <1>1, <2>1, <2>3, <3>1, StatusesAre DEF RowsAgree
    <3>5. HolderKnows(m)' /\ Budget(m)'
      BY <1>1, <1>3, <2>1, <2>3, <3>1, <3>2, JobForms, StatusesAre, FreedSubmission
    <3> QED
      BY <3>2, <3>4, <3>5 DEF SubmissionOK
  <2>4. CASE m \notin expired \/ job[m].status = "processing"
    <3>1. job'[m] = job[m] /\ payload'[m] = payload[m]
      BY <1>2, <2>4, StatusesAre DEF Cancellable
    <3> QED
      BY <1>1, <1>3, <2>1, <3>1, SameSubmission
  <2>5. job[m].status \in Waiting \cup {"processing", "delivered", "held", "failed"}
        \/ m \notin expired
    BY <2>1, StatusesAre DEF RowsAgree, FormJobRows
  <2> QED
    BY <2>2, <2>3, <2>4, <2>5 DEF Cancellable
<1> QED
  BY <1>3, <1>4, <1>5 DEF FormInv

-----------------------------------------------------------------------------
(* The runs of the cron and the clock *)

LEMMA ClaimDueStep ==
    ASSUME FormInv, NEW k \in Crons, claimDue(k)
    PROVE  FormInv'
<1>1. /\ UNCHANGED <<classification, payload, emails, releases>>
      /\ job' = [m \in Submissions |-> IF m \in ExpiredClaims THEN AfterExpiry(job[m]) ELSE job[m]]
      /\ cron' = [cron EXCEPT ![k].phase = "claiming"] /\ cron[k].phase = "idle"
  BY DEF claimDue
<1>2. RunsOK' /\ CountsOK' /\ QuietRuns
  <2>1. \A l \in Crons : cron'[l] = IF l = k THEN [cron[l] EXCEPT !.phase = "claiming"] ELSE cron[l]
    BY <1>1 DEF FormInv, RunsOK
  <2>2. [cron[k] EXCEPT !.phase = "claiming"] \in CronRows
    BY DEF FormInv, RunsOK, CronRows
  <2>3. [cron[k] EXCEPT !.phase = "claiming"].phase = "claiming"
    BY DEF FormInv, RunsOK, CronRows
  <2>4. RunsOK'
    BY <1>1, <2>1, <2>2, <2>3 DEF FormInv, RunsOK
  <2>5. QuietRuns
    BY <1>1, <2>1, <2>3 DEF QuietRuns
  <2> QED
    BY <1>1, <2>4, <2>5 DEF FormInv, CountsOK
<1>3. RowsOK'
  <2>1. \A m \in Submissions : job'[m] \in FormJobRows
    BY <1>1, FreeForms DEF FormInv, RowsOK
  <2> QED
    BY <1>1, <2>1 DEF FormInv, RowsOK
<1>4. ASSUME NEW m \in Submissions
      PROVE  SubmissionOK(m)'
  <2>1. SubmissionOK(m) /\ CountsOK /\ job[m] \in FormJobRows /\ TokenOK(m) /\ RowsAgree(m)
    BY DEF FormInv, RowsOK, SubmissionOK
  <2>2. CASE m \in ExpiredClaims
    <3> DEFINE j == AfterExpiry(job[m])
    <3>1. job'[m] = j /\ j.status = "failed" /\ j.token = NewJob.token
      BY <1>1, <2>1, <2>2, FreeForms
    <3> HIDE DEF j
    <3>2. payload[m] # "deleted" /\ classification[m] # "none" /\ payload[m] # "none"
      BY <2>1, <2>2, StatusesAre DEF ExpiredClaims, RowsAgree
    <3>3. TokenOK(m)'
      BY <3>1, TokenMeansNext
    <3>4. RowsAgree(m)'
      BY <1>1, <3>1, <3>2, StatusesAre DEF RowsAgree
    <3>5. HolderKnows(m)' /\ Budget(m)'
      BY <1>1, <1>2, <2>1, <3>1, JobForms, StatusesAre, FreedSubmission
    <3> QED
      BY <3>3, <3>4, <3>5 DEF SubmissionOK
  <2>3. CASE m \notin ExpiredClaims
    <3>1. job'[m] = job[m]
      BY <1>1, <2>3
    <3> QED
      BY <1>1, <1>2, <2>1, <3>1, SameSubmission
  <2> QED
    BY <2>2, <2>3
<1> QED
  BY <1>2, <1>3, <1>4 DEF FormInv

\* A lease that runs out, or a window that closes, changes neither what a job
\* waits for nor who holds it.
LEMMA ClockStep ==
    ASSUME FormInv, NEW m \in Submissions, ClaimLeaseExpires(m) \/ RetryWindowCloses(m)
    PROVE  FormInv'
<1>1. PICK j : /\ job' = [job EXCEPT ![m] = j] /\ j \in FormJobRows
               /\ j.status = job[m].status /\ j.token = job[m].token /\ j.error = job[m].error
  <2>1. job[m] \in FormJobRows
    BY DEF FormInv, RowsOK
  <2>2. CASE ClaimLeaseExpires(m)
    <3>1. /\ [job[m] EXCEPT !.live = FALSE] \in FormJobRows
          /\ [job[m] EXCEPT !.live = FALSE].status = job[m].status
          /\ [job[m] EXCEPT !.live = FALSE].token = job[m].token
          /\ [job[m] EXCEPT !.live = FALSE].error = job[m].error
      BY <2>1 DEF FormJobRows
    <3> QED
      BY <2>2, <3>1 DEF ClaimLeaseExpires
  <2>3. CASE RetryWindowCloses(m)
    <3>1. /\ [job[m] EXCEPT !.inWindow = FALSE] \in FormJobRows
          /\ [job[m] EXCEPT !.inWindow = FALSE].status = job[m].status
          /\ [job[m] EXCEPT !.inWindow = FALSE].token = job[m].token
          /\ [job[m] EXCEPT !.inWindow = FALSE].error = job[m].error
      BY <2>1 DEF FormJobRows
    <3> QED
      BY <2>3, <3>1 DEF RetryWindowCloses
  <2> QED
    BY <2>2, <2>3
<1>2. UNCHANGED <<classification, payload, cron, emails, releases>>
  BY DEF ClaimLeaseExpires, RetryWindowCloses
<1>3. RowsOK' /\ RunsOK' /\ CountsOK' /\ QuietRuns
  BY <1>1, <1>2 DEF FormInv, RowsOK, RunsOK, CountsOK, QuietRuns
<1>4. ASSUME NEW n \in Submissions
      PROVE  SubmissionOK(n)'
  <2>1. /\ job'[n].status = job[n].status /\ job'[n].token = job[n].token
        /\ job'[n].error = job[n].error
    BY <1>1 DEF FormInv, RowsOK
  <2>2. SubmissionOK(n) /\ CountsOK
    BY DEF FormInv
  <2> QED
    BY <1>2, <1>3, <2>1, <2>2, SameSubmission
<1> QED
  BY <1>3, <1>4 DEF FormInv

LEMMA ClaimBatchStep ==
    ASSUME FormInv, NEW k \in Crons, NEW batch \in SUBSET Submissions, ClaimBatch(k, batch)
    PROVE  FormInv'
<1>1. /\ UNCHANGED <<classification, payload, emails, releases>>
      /\ cron[k].phase = "claiming" /\ \A m \in batch : job[m].status \in Waiting
      /\ cron' = [cron EXCEPT ![k].phase = "reading"]
  BY DEF ClaimBatch
<1>2. \A l \in Crons : /\ l # k => cron'[l] = cron[l]
                       /\ l = k => cron'[l].phase = "reading"
  BY <1>1 DEF FormInv, RunsOK, CronRows
<1>3. RunsOK' /\ CountsOK'
  <2>1. [cron[k] EXCEPT !.phase = "reading"] \in CronRows
    BY DEF FormInv, RunsOK, CronRows
  <2>2. cron' \in [Crons -> CronRows]
    BY <1>1, <2>1 DEF FormInv, RunsOK
  <2> QED
    BY <1>1, <1>2, <2>2 DEF FormInv, RunsOK, CountsOK
<1>4. \A m \in Submissions :
         IF m \in batch
         THEN job'[m] \in FormJobRows /\ job'[m].status = "processing" /\ job'[m].token = k
         ELSE job'[m] = job[m]
  <2> SUFFICES ASSUME NEW m \in Submissions, m \in batch
               PROVE  job'[m] \in FormJobRows /\ job'[m].status = "processing" /\ job'[m].token = k
    BY DEF ClaimBatch
  <2>1. job[m] \in FormJobRows
    BY DEF FormInv, RowsOK
  <2>2. job'[m] = [job[m] EXCEPT !.status = "processing", !.token = k,
                                 !.attempts = @ + 1, !.live = TRUE]
    BY DEF ClaimBatch
  <2>3. k \in Tokens /\ "processing" \in Statuses /\ job[m].attempts + 1 \in Nat
    <3>1. k \in Tokens
      BY DEF Tokens
    <3>2. job[m].attempts \in Nat
      BY <2>1 DEF FormJobRows
    <3> QED
      BY <3>1, <3>2, StatusesAre
  <2>4. job'[m] = [status |-> "processing", attempts |-> job[m].attempts + 1, token |-> k,
                   live |-> TRUE, error |-> job[m].error, inWindow |-> job[m].inWindow]
    BY <2>1, <2>2 DEF FormJobRows
  <2> QED
    BY <2>1, <2>3, <2>4 DEF FormJobRows
<1>5. RowsOK'
  <2>1. job' = [m \in Submissions |-> job'[m]]
    BY DEF ClaimBatch
  <2>2. job' \in [Submissions -> FormJobRows]
    BY <1>4, <2>1 DEF FormInv, RowsOK
  <2> QED
    BY <1>1, <2>2 DEF FormInv, RowsOK
<1>6. ASSUME NEW m \in Submissions
      PROVE  SubmissionOK(m)'
  <2>1. SubmissionOK(m) /\ CountsOK /\ TokenOK(m) /\ RowsAgree(m) /\ HolderKnows(m) /\ Budget(m)
    BY DEF FormInv, SubmissionOK
  <2>2. CASE m \in batch
    <3>1. job'[m].status = "processing" /\ job'[m].token = k /\ job[m].status \in Waiting
      BY <1>1, <1>4, <2>2
    <3>2. TokenOK(m)'
      BY <3>1, JobForms, TokenMeansNext
    <3>3. RowsAgree(m)'
      BY <1>1, <2>1, <3>1, StatusesAre DEF RowsAgree
    <3>4. HolderKnows(m)'
      BY <1>2, <3>1 DEF HolderKnows
    <3>5. Debt(m)' \subseteq Debt(m) \cup {k}
      <4> SUFFICES ASSUME NEW l \in Crons \ {k}, Owes(l, m)'
                   PROVE  Owes(l, m)
        BY DEF Debt
      <4> QED
        BY <1>2, <3>1 DEF Owes
    <3>6. Waits(m)' = 0 /\ Waits(m) = 1
      BY <3>1, StatusesAre DEF Waits
    <3>7. Cardinality(Debt(m))' \in Nat /\ Cardinality(Debt(m))' <= Cardinality(Debt(m)) + 1
      BY <3>5, DebtGrowsByOne
    <3>8. Budget(m)'
      BY <1>1, <1>3, <2>1, <3>6, <3>7, BudgetKept DEF CountsOK
    <3> QED
      BY <3>2, <3>3, <3>4, <3>8 DEF SubmissionOK
  <2>3. CASE m \notin batch
    <3>1. job'[m] = job[m]
      BY <1>4, <2>3
    <3>2. TokenOK(m)' /\ RowsAgree(m)'
      BY <1>1, <2>1, <3>1 DEF TokenOK, RowsAgree
    <3>3. HolderKnows(m)'
      BY <1>1, <1>2, <2>1, <3>1 DEF HolderKnows
    <3>4. Debt(m)' \subseteq Debt(m)
      <4> SUFFICES ASSUME NEW l \in Crons, Owes(l, m)'
                   PROVE  Owes(l, m)
        BY DEF Debt
      <4> QED
        BY <1>1, <1>2, <2>1, <3>1 DEF Owes, HolderKnows
    <3>5. Cardinality(Debt(m))' \in Nat /\ Cardinality(Debt(m))' <= Cardinality(Debt(m)) + 0
      BY <3>4, DebtShrinks, DebtIsFinite
    <3>6. Waits(m)' = Waits(m) /\ Waits(m) \in {0, 1}
      BY <3>1, WaitsType DEF Waits
    <3>7. Budget(m)'
      BY <1>1, <1>3, <2>1, <3>5, <3>6, BudgetKept DEF CountsOK
    <3> QED
      BY <3>2, <3>3, <3>7 DEF SubmissionOK
  <2> QED
    BY <2>2, <2>3
<1> QED
  BY <1>3, <1>5, <1>6 DEF FormInv

LEMMA ReadBatchStep ==
    ASSUME FormInv, NEW k \in Crons, ReadBatch(k)
    PROVE  FormInv'
<1> DEFINE batch == {m \in Submissions : job[m].status = "processing" /\ job[m].token = k}
<1>1. /\ UNCHANGED <<job, classification, payload, emails, releases>>
      /\ cron[k].phase = "reading"
      /\ cron' = [cron EXCEPT ![k] =
             IF batch = {} THEN IdleCron
             ELSE [IdleCron EXCEPT !.phase = "sending", !.batch = batch]]
  BY DEF ReadBatch
<1>2. /\ \A l \in Crons : l # k => cron'[l] = cron[l]
      /\ batch = {} => cron'[k] = IdleCron
      /\ batch # {} => cron'[k] = [IdleCron EXCEPT !.phase = "sending", !.batch = batch]
  BY <1>1 DEF FormInv, RunsOK
<1>3. /\ [IdleCron EXCEPT !.phase = "sending", !.batch = batch] \in CronRows
      /\ [IdleCron EXCEPT !.phase = "sending", !.batch = batch].phase = "sending"
      /\ [IdleCron EXCEPT !.phase = "sending", !.batch = batch].batch = batch
  BY DEF IdleCron, CronRows, Outcomes
<1> HIDE DEF batch
<1>4. RowsOK' /\ RunsOK' /\ CountsOK'
  <2>1. cron' \in [Crons -> CronRows]
    BY <1>1, <1>3, JobForms DEF FormInv, RunsOK
  <2>2. cron'[k].phase # "recording"
    BY <1>2, <1>3, JobForms
  <2> QED
    BY <1>1, <1>2, <2>1, <2>2 DEF FormInv, RowsOK, RunsOK, CountsOK
<1>5. ASSUME NEW m \in Submissions
      PROVE  SubmissionOK(m)'
  <2>1. SubmissionOK(m) /\ CountsOK /\ TokenOK(m) /\ RowsAgree(m) /\ HolderKnows(m) /\ Budget(m)
    BY DEF FormInv, SubmissionOK
  <2>2. TokenOK(m)' /\ RowsAgree(m)'
    BY <1>1, <2>1 DEF TokenOK, RowsAgree
  <2>3. job[m].token = k => m \in batch
    BY <2>1, JobForms, TokenMeans DEF batch
  <2>4. HolderKnows(m)'
    BY <1>1, <1>2, <1>3, <2>1, <2>3 DEF HolderKnows
  <2>5. Debt(m)' \subseteq Debt(m)
    <3> SUFFICES ASSUME NEW l \in Crons, Owes(l, m)'
                 PROVE  Owes(l, m)
      BY DEF Debt
    <3>1. CASE l # k
      BY <1>1, <1>2, <3>1 DEF Owes
    <3>2. CASE l = k
      <4>1. m \in batch
        BY <1>1, <1>2, <1>3, <3>2, JobForms DEF Owes
      <4> QED
        BY <1>1, <3>2, <4>1 DEF Owes, batch
    <3> QED
      BY <3>1, <3>2
  <2>6. Cardinality(Debt(m))' \in Nat /\ Cardinality(Debt(m))' <= Cardinality(Debt(m)) + 0
    BY <2>5, DebtShrinks, DebtIsFinite
  <2>7. Waits(m)' = Waits(m) /\ Waits(m) \in {0, 1}
    BY <1>1, WaitsType DEF Waits
  <2>8. Budget(m)'
    BY <1>1, <1>4, <2>1, <2>6, <2>7, BudgetKept DEF CountsOK
  <2> QED
    BY <2>2, <2>4, <2>8 DEF SubmissionOK
<1> QED
  BY <1>4, <1>5 DEF FormInv

LEMMA NotifyStep ==
    ASSUME FormInv, NEW k \in Crons, NEW m \in Submissions, NEW outcome \in Outcomes,
           NEW left \in BOOLEAN, notify(k, m, outcome, left)
    PROVE  FormInv'
<1>1. /\ UNCHANGED <<job, classification, payload, releases>>
      /\ cron[k].phase = "sending" /\ m \in cron[k].batch
  BY DEF notify
<1>0. outcome = "retry" => left = FALSE
  BY DEF notify
<1>2. /\ \A l \in Crons : l # k => cron'[l] = cron[l]
      /\ cron' \in [Crons -> CronRows]
      /\ cron'[k].phase = "recording" /\ cron'[k].batch = cron[k].batch
      /\ cron'[k].sending = {m} /\ cron'[k].outcome = outcome
  BY DEF notify, FormInv, RunsOK, CronRows
<1>3. /\ emails' \in [Submissions -> Nat]
      /\ \A n \in Submissions \ {m} : emails'[n] = emails[n]
      /\ left => emails'[m] = emails[m] + 1
      /\ ~ left => emails'[m] = emails[m]
  <2>1. CASE left
    <3>1. emails' = [emails EXCEPT ![m] = @ + 1]
      BY <2>1 DEF notify
    <3> QED
      BY <2>1, <3>1 DEF FormInv, CountsOK
  <2>2. CASE ~ left
    <3>1. emails' = [emails EXCEPT ![m] = @ + 0]
      BY <2>2 DEF notify
    <3> QED
      BY <2>2, <3>1 DEF FormInv, CountsOK
  <2> QED
    BY <2>1, <2>2
<1>4. RowsOK' /\ RunsOK' /\ CountsOK'
  BY <1>1, <1>2, <1>3 DEF FormInv, RowsOK, RunsOK, CountsOK
<1>5. ASSUME NEW n \in Submissions
      PROVE  SubmissionOK(n)'
  <2>1. SubmissionOK(n) /\ CountsOK /\ TokenOK(n) /\ RowsAgree(n) /\ HolderKnows(n) /\ Budget(n)
    BY DEF FormInv, SubmissionOK
  <2>2. TokenOK(n)' /\ RowsAgree(n)'
    BY <1>1, <2>1 DEF TokenOK, RowsAgree
  <2>3. HolderKnows(n)'
    BY <1>1, <1>2, <2>1 DEF HolderKnows
  <2>4. Waits(n)' = Waits(n) /\ Waits(n) \in {0, 1}
    BY <1>1, WaitsType DEF Waits
  <2>5. ASSUME NEW l \in Crons \ {k}, Owes(l, n)'
        PROVE  Owes(l, n)
    BY <1>1, <1>2, <2>5 DEF Owes
  <2>6. CASE n # m \/ outcome = "retry"
    <3>1. ASSUME Owes(k, n)'
          PROVE  Owes(k, n)
      BY <1>1, <1>2, <3>1 DEF Owes
    <3>2. Debt(n)' \subseteq Debt(n)
      BY <2>5, <3>1 DEF Debt
    <3>3. Cardinality(Debt(n))' \in Nat /\ Cardinality(Debt(n))' <= Cardinality(Debt(n)) + 0
      BY <3>2, DebtShrinks, DebtIsFinite
    <3>4. emails'[n] = emails[n]
      <4>1. n = m => left = FALSE
        BY <1>0, <2>6
      <4> QED
        BY <1>3, <4>1 DEF FormInv, CountsOK
    <3>5. emails'[n] + 0 + Waits(n)' + releases[n] <= emails[n] + Waits(n) + releases'[n]
      BY <1>1, <2>1, <2>4, <3>4 DEF CountsOK
    <3>6. Budget(n)'
      BY <1>4, <2>1, <3>3, <3>5, BudgetKept
    <3> QED
      BY <2>2, <2>3, <3>6 DEF SubmissionOK
  <2>7. CASE n = m /\ outcome # "retry"
    <3>1. Owes(k, n) /\ ~ Owes(k, n)'
      BY <1>1, <1>2, <2>7 DEF Owes
    <3>2. Debt(n)' \subseteq Debt(n) \ {k} /\ k \in Debt(n)
      BY <2>5, <3>1 DEF Debt
    <3>3. Cardinality(Debt(n))' \in Nat /\ Cardinality(Debt(n))' <= Cardinality(Debt(n)) + (-1)
      BY <3>2, DebtIsPaid, DebtIsFinite
    <3>4. emails'[n] \in {emails[n], emails[n] + 1}
      BY <1>3, <2>7 DEF FormInv, CountsOK
    <3>5. emails'[n] + (-1) + Waits(n)' + releases[n] <= emails[n] + Waits(n) + releases'[n]
      <4>1. /\ emails[n] \in Int /\ releases[n] \in Int /\ releases'[n] = releases[n]
            /\ Waits(n)' = Waits(n) /\ Waits(n) \in Int
        BY <1>1, <2>1, <2>4 DEF CountsOK
      <4>2. CASE emails'[n] = emails[n]
        BY <4>1, <4>2
      <4>3. CASE emails'[n] = emails[n] + 1
        BY <4>1, <4>3
      <4> QED
        BY <3>4, <4>2, <4>3
    <3>6. Budget(n)'
      BY <1>4, <2>1, <3>3, <3>5, BudgetKept
    <3> QED
      BY <2>2, <2>3, <3>6 DEF SubmissionOK
  <2> QED
    BY <2>6, <2>7
<1> QED
  BY <1>4, <1>5 DEF FormInv

\* What the recording run makes of the jobs it hands over.
LEMMA RecordOutcomeStep ==
    ASSUME FormInv, NEW k \in Crons, recordOutcome(k)
    PROVE  FormInv'
<1> DEFINE rest == cron[k].batch \ cron[k].sending
           Mine(m) == m \in cron[k].sending /\ job[m].status = "processing" /\ job[m].token = k
           Done(m) == [Free(job[m]) EXCEPT
                          !.status = StatusAfter(m, cron[k].outcome),
                          !.error = IF cron[k].outcome = "sent" THEN "none" ELSE "delivery"]
<1>1. /\ UNCHANGED <<classification, payload, emails, releases>>
      /\ cron[k].phase = "recording" /\ cron[k].sending \subseteq cron[k].batch
      /\ cron[k] \in CronRows
  BY DEF recordOutcome, FormInv, RunsOK
<1>2. /\ \A l \in Crons : l # k => cron'[l] = cron[l]
      /\ cron' \in [Crons -> CronRows]
      /\ rest = {} => cron'[k].phase = "idle"
      /\ rest # {} => cron'[k].phase = "sending" /\ cron'[k].batch = rest
  <2>1. [IdleCron EXCEPT !.phase = "sending", !.batch = rest] \in CronRows
        /\ [IdleCron EXCEPT !.phase = "sending", !.batch = rest].phase = "sending"
        /\ [IdleCron EXCEPT !.phase = "sending", !.batch = rest].batch = rest
    BY <1>1 DEF IdleCron, CronRows, Outcomes
  <2>2. cron' = [cron EXCEPT ![k] =
           IF rest = {} THEN IdleCron ELSE [IdleCron EXCEPT !.phase = "sending", !.batch = rest]]
    BY DEF recordOutcome
  <2> QED
    BY <2>1, <2>2, JobForms DEF FormInv, RunsOK
<1>3. \A m \in Submissions : job'[m] = IF Mine(m) THEN Done(m) ELSE job[m]
  BY DEF recordOutcome
<1>4. ASSUME NEW m \in Submissions
      PROVE  /\ Done(m) \in FormJobRows /\ Done(m).token = NewJob.token
             /\ Done(m).status \in {"retry", "delivered", "failed"}
             /\ Done(m).status = "retry" => cron[k].outcome = "retry"
  <2>1. Free(job[m]) \in FormJobRows /\ Free(job[m]).token = NewJob.token
    BY FreeForms DEF FormInv, RowsOK
  <2>2. /\ StatusAfter(m, cron[k].outcome) \in {"retry", "delivered", "failed"}
        /\ StatusAfter(m, cron[k].outcome) = "retry" => cron[k].outcome = "retry"
    BY DEF StatusAfter
  <2> QED
    BY <2>1, <2>2, StatusesAre DEF FormJobRows
<1>5. RowsOK'
  <2>1. \A m \in Submissions : job'[m] \in FormJobRows
    BY <1>3, <1>4 DEF FormInv, RowsOK
  <2>2. job' = [m \in Submissions |-> job'[m]]
    BY DEF recordOutcome
  <2>3. job' \in [Submissions -> FormJobRows]
    BY <2>1, <2>2
  <2> QED
    BY <1>1, <2>3 DEF FormInv, RowsOK
<1>6. RunsOK' /\ CountsOK'
  BY <1>1, <1>2 DEF FormInv, RunsOK, CountsOK
<1>7. ASSUME NEW m \in Submissions
      PROVE  SubmissionOK(m)'
  <2>1. SubmissionOK(m) /\ CountsOK /\ TokenOK(m) /\ RowsAgree(m) /\ HolderKnows(m) /\ Budget(m)
    BY DEF FormInv, SubmissionOK
  <2>2. \A l \in Crons \ {k} : job'[m].status = "processing" => (Owes(l, m)' => Owes(l, m))
    BY <1>2, <1>3, <1>4 DEF Owes
  <2>3. \A l \in Crons \ {k} : Owes(l, m)' => Owes(l, m)
    BY <1>2, <2>2 DEF Owes
  <2>4. Owes(k, m)' => Owes(k, m)
    BY <1>1, <1>2 DEF Owes
  <2> HIDE DEF Mine, Done, rest
  <2>5. CASE Mine(m)
    <3>1. /\ job'[m].token = NewJob.token /\ job'[m].status \in {"retry", "delivered", "failed"}
          /\ job'[m].status = "retry" => cron[k].outcome = "retry"
          /\ job[m].status = "processing" /\ m \in cron[k].sending
      BY <1>3, <1>4, <2>5 DEF Mine
    <3>2. TokenOK(m)' /\ RowsAgree(m)' /\ HolderKnows(m)'
      <4>1. TokenOK(m)'
        BY <3>1, TokenMeansNext
      <4>2. RowsAgree(m)'
        BY <1>1, <2>1, <3>1, StatusesAre DEF RowsAgree
      <4>3. HolderKnows(m)'
        BY <3>1, JobForms DEF HolderKnows
      <4> QED
        BY <4>1, <4>2, <4>3
    <3>3. CASE job'[m].status = "retry"
      <4>1. Owes(k, m) /\ ~ Owes(k, m)'
        BY <1>1, <1>2, <3>1, <3>3 DEF Owes, rest
      <4>2. Debt(m)' \subseteq Debt(m) \ {k} /\ k \in Debt(m)
        BY <2>3, <4>1 DEF Debt
      <4>3. Cardinality(Debt(m))' \in Nat /\ Cardinality(Debt(m))' <= Cardinality(Debt(m)) + (-1)
        BY <4>2, DebtIsPaid, DebtIsFinite
      <4>4. Waits(m)' = 1 /\ Waits(m) = 0
        BY <3>1, <3>3, StatusesAre DEF Waits
      <4>5. Budget(m)'
        BY <1>1, <1>6, <2>1, <4>3, <4>4, BudgetKept DEF CountsOK
      <4> QED
        BY <3>2, <4>5 DEF SubmissionOK
    <3>4. CASE job'[m].status # "retry"
      <4>1. Debt(m)' \subseteq Debt(m)
        BY <2>3, <2>4 DEF Debt
      <4>2. Cardinality(Debt(m))' \in Nat /\ Cardinality(Debt(m))' <= Cardinality(Debt(m)) + 0
        BY <4>1, DebtShrinks, DebtIsFinite
      <4>3. Waits(m)' = 0 /\ Waits(m) = 0
        BY <3>1, <3>4, StatusesAre DEF Waits
      <4>4. Budget(m)'
        BY <1>1, <1>6, <2>1, <4>2, <4>3, BudgetKept DEF CountsOK
      <4> QED
        BY <3>2, <4>4 DEF SubmissionOK
    <3> QED
      BY <3>3, <3>4
  <2>6. CASE ~ Mine(m)
    <3>1. job'[m] = job[m]
      BY <1>3, <2>6
    <3>2. TokenOK(m)' /\ RowsAgree(m)'
      BY <1>1, <2>1, <3>1 DEF TokenOK, RowsAgree
    <3>3. HolderKnows(m)'
      <4>1. job[m].token = k => m \in rest
        BY <1>1, <2>1, <2>6, JobForms, TokenMeans DEF HolderKnows, Mine, rest
      <4> QED
        BY <1>2, <2>1, <3>1, <4>1 DEF HolderKnows
    <3>4. Debt(m)' \subseteq Debt(m)
      BY <2>3, <2>4 DEF Debt
    <3>5. Cardinality(Debt(m))' \in Nat /\ Cardinality(Debt(m))' <= Cardinality(Debt(m)) + 0
      BY <3>4, DebtShrinks, DebtIsFinite
    <3>6. Waits(m)' = Waits(m) /\ Waits(m) \in {0, 1}
      BY <3>1, WaitsType DEF Waits
    <3>7. Budget(m)'
      BY <1>1, <1>6, <2>1, <3>5, <3>6, BudgetKept DEF CountsOK
    <3> QED
      BY <3>2, <3>3, <3>7 DEF SubmissionOK
  <2> QED
    BY <2>5, <2>6
<1> QED
  BY <1>5, <1>6, <1>7 DEF FormInv

LEMMA CronDiesStep ==
    ASSUME FormInv, NEW k \in Crons, CronDies(k)
    PROVE  FormInv'
<1>1. UNCHANGED <<classification, payload, emails, releases>>
  BY DEF CronDies
<1>2. /\ \A l \in Crons : l # k => cron'[l] = cron[l]
      /\ cron' \in [Crons -> CronRows] /\ cron'[k].phase = "idle"
  BY JobForms DEF CronDies, FormInv, RunsOK
<1>3. ASSUME NEW m \in Submissions
      PROVE  /\ job'[m] \in FormJobRows /\ job'[m].status = job[m].status
             /\ job'[m].error = job[m].error
             /\ job[m].token = k => job'[m].token \notin Crons /\ job'[m].token # NewJob.token
             /\ job[m].token # k => job'[m].token = job[m].token
  <2>1. job'[m] = IF job[m].token = k THEN [job[m] EXCEPT !.token = "lost"] ELSE job[m]
    BY DEF CronDies
  <2>2. job[m] \in FormJobRows
    BY DEF FormInv, RowsOK
  <2>3. "lost" \in Tokens /\ "lost" \notin Crons /\ "lost" # NewJob.token
    BY CronAssumption DEF Tokens, NewJob
  <2> QED
    BY <2>1, <2>2, <2>3 DEF FormJobRows
<1>4. RowsOK'
  <2>1. job' = [m \in Submissions |-> job'[m]]
    BY DEF CronDies
  <2>2. job' \in [Submissions -> FormJobRows]
    BY <1>3, <2>1
  <2> QED
    BY <1>1, <2>2 DEF FormInv, RowsOK
<1>5. RunsOK' /\ CountsOK'
  BY <1>1, <1>2 DEF FormInv, RunsOK, CountsOK
<1>6. ASSUME NEW m \in Submissions
      PROVE  SubmissionOK(m)'
  <2>1. SubmissionOK(m) /\ CountsOK /\ TokenOK(m) /\ RowsAgree(m) /\ HolderKnows(m) /\ Budget(m)
    BY DEF FormInv, SubmissionOK
  <2>2. TokenOK(m)'
    BY <1>3, <2>1, JobForms, TokenMeans, TokenMeansNext
  <2>3. RowsAgree(m)'
    BY <1>1, <1>3, <2>1 DEF RowsAgree
  <2>4. HolderKnows(m)'
    BY <1>2, <1>3, <2>1 DEF HolderKnows
  <2>5. Debt(m)' \subseteq Debt(m)
    <3> SUFFICES ASSUME NEW l \in Crons, Owes(l, m)'
                 PROVE  Owes(l, m)
      BY DEF Debt
    <3> QED
      BY <1>2, <1>3 DEF Owes
  <2>6. Cardinality(Debt(m))' \in Nat /\ Cardinality(Debt(m))' <= Cardinality(Debt(m)) + 0
    BY <2>5, DebtShrinks, DebtIsFinite
  <2>7. Waits(m)' = Waits(m) /\ Waits(m) \in {0, 1}
    BY <1>3, WaitsType DEF Waits
  <2>8. Budget(m)'
    BY <1>1, <1>5, <2>1, <2>6, <2>7, BudgetKept DEF CountsOK
  <2> QED
    BY <2>2, <2>3, <2>4, <2>8 DEF SubmissionOK
<1> QED
  BY <1>4, <1>5, <1>6 DEF FormInv

-----------------------------------------------------------------------------
(* The theorems *)

LEMMA FormSteps ==
    ASSUME FormNext
    PROVE  \/ \E m \in Submissions, verdict \in Verdicts : accept(m, verdict)
           \/ \E k \in Crons : claimDue(k)
           \/ \E k \in Crons, batch \in SUBSET Submissions : ClaimBatch(k, batch)
           \/ \E k \in Crons : ReadBatch(k)
           \/ \E k \in Crons, m \in Submissions, outcome \in Outcomes, left \in BOOLEAN :
                 notify(k, m, outcome, left)
           \/ \E k \in Crons : recordOutcome(k)
           \/ \E k \in Crons : CronDies(k)
           \/ \E m \in Submissions : ClaimLeaseExpires(m) \/ RetryWindowCloses(m)
           \/ \E m \in Submissions : replayFailed(m)
           \/ \E m \in Submissions : releaseSuspectedSpam(m)
           \/ \E m \in Submissions : eraseSubmissionPayload(m)
           \/ \E m \in Submissions, verdict \in Verdicts : classifySubmission(m, verdict)
           \/ \E aged \in SUBSET Submissions : applyRetention(aged)
  BY Zenon DEF FormNext, CronStep, OwnerStep, Verdicts

LEMMA FormInvStep == FormInv /\ [FormNext]_formVars => FormInv'
<1> SUFFICES ASSUME FormInv, [FormNext]_formVars
             PROVE  FormInv'
  OBVIOUS
<1>1. CASE FormNext
  BY <1>1, FormSteps, AcceptStep, ClaimDueStep, ClaimBatchStep, ReadBatchStep, NotifyStep,
     RecordOutcomeStep, CronDiesStep, ClockStep, ReplayStep, ReleaseStep, EraseStep,
     ClassifyStep, RetentionStep
<1>2. CASE UNCHANGED formVars
  <2>1. RowsOK' /\ RunsOK' /\ CountsOK' /\ QuietRuns
    BY <1>2 DEF formVars, FormInv, RowsOK, RunsOK, CountsOK, QuietRuns
  <2>2. \A m \in Submissions : SubmissionOK(m)'
    BY <1>2, <2>1, SameSubmission DEF formVars, FormInv
  <2> QED
    BY <2>1, <2>2 DEF FormInv
<1> QED
  BY <1>1, <1>2

LEMMA FormInvariant == FormSpec => []FormInv
<1>1. FormInit => FormInv
  BY FormInvInit
<1>2. FormInv /\ [FormNext]_formVars => FormInv'
  BY FormInvStep
<1> QED
  BY <1>1, <1>2, PTL DEF FormSpec

\* Every row, run and counter keeps its type, and only a claimed job bears a
\* token.
THEOREM FormTypeCorrect == FormSpec => []FormTypeOK
  BY FormInvariant, FormTypes, PTL

\* Whatever visitors, the owner, retention and overlapping runs do: only an
\* accepted submission with its fields is queued or claimed, and an erased one
\* has nothing left that a replay could bring back.
THEOREM JobsFollow == FormSpec => []JobFollowsSubmission
<1>1. FormInv => JobFollowsSubmission
  BY DEF FormInv, SubmissionOK, RowsAgree, JobFollowsSubmission
<1> QED
  BY <1>1, FormInvariant, PTL

\* No more e-mails leave for a submission than times it was put in the queue,
\* however many runs overlap, die or outlive their leases.
THEOREM NoResend == FormSpec => []NoUnaskedResend
<1>1. FormInv => NoUnaskedResend
  <2> SUFFICES ASSUME FormInv, NEW m \in Submissions
               PROVE  emails[m] <= releases[m]
    BY DEF NoUnaskedResend
  <2>1. /\ emails[m] \in Nat /\ releases[m] \in Nat
        /\ Budget(m) /\ Cardinality(Debt(m)) \in Nat /\ Waits(m) \in {0, 1}
    BY DebtIsFinite, WaitsType DEF FormInv, SubmissionOK, CountsOK
  <2> QED
    BY <2>1 DEF Budget
<1> QED
  BY <1>1, FormInvariant, PTL

-----------------------------------------------------------------------------
(* A backup that counts can be restored *)

Phases == {"new", "reading", "claiming", "saving", "recording", "done"}

\* What the proof needs of a run's row; a checkpoint may be anything.
RunRow(row) == row \in [phase : Phases, now : Nat, checkpoint : {row.checkpoint}]

BackupRunsOK ==
    /\ day \in Nat
    /\ run = [r \in Runs |-> run[r]]
    /\ \A r \in Runs : RunRow(run[r])

\* The object of a run is in the bucket as it saved it, unless it expired.
Saved(checkpoint, r, expires) ==
    [key |-> objectKey(checkpoint, r), content |-> r, expires |-> expires] \in objects

SavedIsThere == \A r \in Runs :
    run[r].phase = "recording" /\ run[r].now + BackupDays > day =>
        Saved(run[r].checkpoint, r, run[r].now + BackupDays)

\* A record is that of a run which is over, under that run's own key.
RecordsOK == \A b \in records :
    /\ b.hash \in Runs /\ run[b.hash].phase = "done"
    /\ b.key = objectKey(b.checkpoint, b.hash)
    /\ b.expires \in Int
    /\ b.expires > day => Saved(b.checkpoint, b.hash, b.expires)

BackupInv == BackupRunsOK /\ SavedIsThere /\ RecordsOK

LEMMA BackupInvImplies == BackupInv => RecordedIsRestorable
<1> SUFFICES ASSUME BackupInv, NEW b \in records, b.expires > day
             PROVE  \E x \in objects : x.key = b.key /\ x.content = b.hash
  BY DEF RecordedIsRestorable
<1> DEFINE x == [key |-> objectKey(b.checkpoint, b.hash), content |-> b.hash,
                 expires |-> b.expires]
<1>1. x \in objects /\ b.key = objectKey(b.checkpoint, b.hash)
  BY DEF BackupInv, RecordsOK, Saved
<1>2. x.key = objectKey(b.checkpoint, b.hash) /\ x.content = b.hash
  OBVIOUS
<1> QED
  BY <1>1, <1>2

LEMMA KeysDiffer ==
    ASSUME NEW c, NEW d, NEW r, NEW s, objectKey(c, r) = objectKey(d, s)
    PROVE  c = d /\ r = s
  BY DEF objectKey

LEMMA BackupInvInit == BackupInit => BackupInv
<1> SUFFICES ASSUME BackupInit PROVE BackupInv
  OBVIOUS
<1>1. NewRun.phase = "new" /\ RunRow(NewRun)
  BY DEF NewRun, RunRow, Phases
<1>2. BackupRunsOK
  BY <1>1 DEF BackupInit, BackupRunsOK
<1>3. SavedIsThere /\ RecordsOK
  BY <1>1 DEF BackupInit, SavedIsThere, RecordsOK
<1> QED
  BY <1>2, <1>3 DEF BackupInv

\* What a step makes of the one run that takes it.
RunBecomes(r, row) == run' = [run EXCEPT ![r] = row]

LEMMA RunMoves ==
    ASSUME BackupRunsOK, NEW r \in Runs, NEW row, RunRow(row), RunBecomes(r, row), UNCHANGED day
    PROVE  /\ BackupRunsOK'
           /\ run'[r] = row
           /\ \A s \in Runs : s # r => run'[s] = run[s]
  BY DEF BackupRunsOK, RunBecomes

\* The row of a run with another phase.
LEMMA NextPhase ==
    ASSUME BackupRunsOK, NEW r \in Runs, NEW phase \in Phases
    PROVE  LET row == [run[r] EXCEPT !.phase = phase]
           IN /\ RunRow(row) /\ row.phase = phase
              /\ row.now = run[r].now /\ row.checkpoint = run[r].checkpoint
<1>1. RunRow(run[r])
  BY DEF BackupRunsOK
<1> QED
  BY <1>1 DEF RunRow

\* A run that is not over moves, but not to a claim it saved something.
LEMMA RunGoesOn ==
    ASSUME BackupInv, NEW r \in Runs, NEW row, RunRow(row), RunBecomes(r, row),
           run[r].phase # "done", row.phase # "recording",
           UNCHANGED <<day, records>>,
           \A x \in objects : x.expires > day => x \in objects'
    PROVE  BackupInv'
<1>0. BackupRunsOK /\ SavedIsThere /\ RecordsOK
  BY DEF BackupInv
<1>1. /\ BackupRunsOK'
      /\ run'[r] = row
      /\ \A s \in Runs : s # r => run'[s] = run[s]
  BY <1>0, RunMoves
<1>2. \A c, s, e : Saved(c, s, e) /\ e > day => Saved(c, s, e)'
  BY DEF Saved
<1>3. SavedIsThere'
  BY <1>0, <1>1, <1>2 DEF SavedIsThere
<1>4. RecordsOK'
  BY <1>0, <1>1, <1>2 DEF RecordsOK
<1> QED
  BY <1>1, <1>3, <1>4 DEF BackupInv

\* A run that ends, from wherever.
LEMMA RunEnds ==
    ASSUME BackupInv, NEW r \in Runs, RunStays(r), UNCHANGED <<day, records, objects>>
    PROVE  BackupInv'
<1>0. BackupRunsOK /\ SavedIsThere /\ RecordsOK
  BY DEF BackupInv
<1> DEFINE row == [run[r] EXCEPT !.phase = "done"]
<1>1. RunBecomes(r, row) /\ RunRow(row) /\ row.phase = "done"
  BY <1>0, NextPhase DEF RunStays, RunBecomes, Phases
<1> HIDE DEF row
<1>2. /\ BackupRunsOK'
      /\ run'[r] = row
      /\ \A s \in Runs : s # r => run'[s] = run[s]
  BY <1>0, <1>1, RunMoves
<1>3. SavedIsThere'
  BY <1>0, <1>1, <1>2 DEF SavedIsThere, Saved
<1>4. RecordsOK'
  BY <1>0, <1>1, <1>2 DEF RecordsOK, Saved
<1> QED
  BY <1>2, <1>3, <1>4 DEF BackupInv

LEMMA BackupSaveKeeps ==
    ASSUME BackupInv, NEW r \in Runs, saveEncrypted(r)
    PROVE  BackupInv'
<1>0. BackupRunsOK /\ SavedIsThere /\ RecordsOK
  BY DEF BackupInv
<1> DEFINE row == [run[r] EXCEPT !.phase = "recording"]
           key == objectKey(run[r].checkpoint, r)
           new == [key |-> key, content |-> r, expires |-> run[r].now + BackupDays]
<1>1. /\ run[r].phase = "saving"
      /\ objects' = {x \in objects : x.key # key} \cup {new}
      /\ UNCHANGED <<day, records>>
      /\ RunBecomes(r, row)
  BY DEF saveEncrypted, RunBecomes
<1>2. /\ RunRow(row) /\ row.phase = "recording"
      /\ row.now = run[r].now /\ row.checkpoint = run[r].checkpoint
  BY <1>0, NextPhase DEF Phases
<1> HIDE DEF row
<1>3. /\ BackupRunsOK'
      /\ run'[r] = row
      /\ \A s \in Runs : s # r => run'[s] = run[s]
  BY <1>0, <1>1, <1>2, RunMoves
<1>4. \A c, s, e : s # r /\ Saved(c, s, e) => Saved(c, s, e)'
  <2>1. SUFFICES ASSUME NEW c, NEW s, NEW e, s # r, Saved(c, s, e)
                 PROVE  [key |-> objectKey(c, s), content |-> s, expires |-> e] \in objects'
    BY DEF Saved
  <2>2. objectKey(c, s) # key
    BY <2>1, KeysDiffer
  <2> QED
    BY <1>1, <2>1, <2>2 DEF Saved
<1>5. SavedIsThere'
  <2>1. SUFFICES ASSUME NEW s \in Runs, run'[s].phase = "recording",
                        run'[s].now + BackupDays > day'
                 PROVE  [key |-> objectKey(run'[s].checkpoint, s), content |-> s,
                         expires |-> run'[s].now + BackupDays] \in objects'
    BY DEF SavedIsThere, Saved
  <2>2. CASE s = r
    BY <1>1, <1>2, <1>3, <2>2
  <2>3. CASE s # r
    <3>1. run'[s] = run[s] /\ Saved(run[s].checkpoint, s, run[s].now + BackupDays)
      BY <1>0, <1>1, <1>3, <2>1, <2>3 DEF SavedIsThere
    <3> DEFINE e == run[s].now + BackupDays
               c == run[s].checkpoint
    <3>2. [key |-> objectKey(c, s), content |-> s, expires |-> e] \in objects
      BY <3>1 DEF Saved
    <3>3. objectKey(c, s) # key
      BY <2>3, KeysDiffer
    <3> QED
      BY <1>1, <3>1, <3>2, <3>3
  <2> QED
    BY <2>2, <2>3
<1>6. RecordsOK'
  <2>1. \A b \in records : b.hash # r
    BY <1>0, <1>1 DEF RecordsOK
  <2> QED
    BY <1>0, <1>1, <1>3, <1>4, <2>1 DEF RecordsOK
<1> QED
  BY <1>3, <1>5, <1>6 DEF BackupInv

LEMMA RecordKeeps ==
    ASSUME BackupInv, NEW r \in Runs, recordBackup(r)
    PROVE  BackupInv'
<1>0. BackupRunsOK /\ SavedIsThere /\ RecordsOK
  BY DEF BackupInv
<1>1. /\ run[r].phase = "recording" /\ RunStays(r) /\ UNCHANGED <<day, objects>>
  BY DEF recordBackup
<1>2. CASE UNCHANGED records
  BY <1>1, <1>2, RunEnds
<1>3. CASE records' = {b \in records : b.checkpoint # run[r].checkpoint} \cup {RecordOf(r)}
  <2> DEFINE row == [run[r] EXCEPT !.phase = "done"]
  <2>1. RunBecomes(r, row) /\ RunRow(row) /\ row.phase = "done"
    BY <1>0, <1>1, NextPhase DEF RunStays, RunBecomes, Phases
  <2> HIDE DEF row
  <2>2. /\ BackupRunsOK'
        /\ run'[r] = row
        /\ \A s \in Runs : s # r => run'[s] = run[s]
    BY <1>0, <1>1, <2>1, RunMoves
  <2>3. SavedIsThere'
    BY <1>0, <1>1, <2>1, <2>2 DEF SavedIsThere, Saved
  <2>4. ASSUME NEW b \in records
        PROVE  /\ b.hash \in Runs /\ run'[b.hash].phase = "done"
               /\ b.key = objectKey(b.checkpoint, b.hash)
               /\ b.expires \in Int
               /\ b.expires > day => Saved(b.checkpoint, b.hash, b.expires)
    BY <1>0, <1>1, <2>1, <2>2 DEF RecordsOK
  <2>5. LET b == RecordOf(r)
        IN /\ b.hash = r /\ run'[r].phase = "done"
           /\ b.key = objectKey(b.checkpoint, r)
           /\ b.expires \in Int
           /\ b.expires > day => Saved(b.checkpoint, r, b.expires)
    <3>1. run[r].now \in Nat
      BY <1>0 DEF BackupRunsOK, RunRow
    <3> QED
      BY <1>0, <1>1, <2>1, <2>2, <3>1, BackupAssumption DEF RecordOf, SavedIsThere
  <2>6. RecordsOK'
    <3>1. SUFFICES ASSUME NEW b \in records'
                   PROVE  /\ b.hash \in Runs /\ run'[b.hash].phase = "done"
                          /\ b.key = objectKey(b.checkpoint, b.hash)
                          /\ b.expires \in Int
                          /\ b.expires > day' => Saved(b.checkpoint, b.hash, b.expires)'
      BY DEF RecordsOK
    <3>2. b \in records \/ b = RecordOf(r)
      BY <1>3
    <3>3. \A c, s, e : Saved(c, s, e)' <=> Saved(c, s, e)
      BY <1>1 DEF Saved
    <3> QED
      BY <1>1, <2>4, <2>5, <3>2, <3>3
  <2> QED
    BY <2>2, <2>3, <2>6 DEF BackupInv
<1> QED
  BY <1>2, <1>3 DEF recordBackup

LEMMA BackupInvStep == BackupInv /\ [BackupNext]_backupVars => BackupInv'
<1> SUFFICES ASSUME BackupInv, [BackupNext]_backupVars PROVE BackupInv'
  OBVIOUS
<1>0. BackupRunsOK /\ SavedIsThere /\ RecordsOK
  BY DEF BackupInv
<1>a. ASSUME UNCHANGED <<day, objects, run>>, records' \subseteq records
      PROVE  BackupInv'
  BY <1>0, <1>a DEF BackupInv, BackupRunsOK, SavedIsThere, RecordsOK, Saved
<1>1. ASSUME NEW r \in Runs, deleteExpired(r)
      PROVE  BackupInv'
  <2> DEFINE row == [run[r] EXCEPT !.phase = "reading", !.now = day]
  <2>1. /\ RunBecomes(r, row) /\ run[r].phase = "new"
        /\ UNCHANGED <<day, records>>
        /\ \A x \in objects : x.expires > day => x \in objects'
    BY <1>1 DEF deleteExpired, RunBecomes
  <2>2. RunRow(row) /\ row.phase = "reading"
    <3>1. RunRow(run[r]) /\ day \in Nat
      BY <1>0 DEF BackupRunsOK
    <3> QED
      BY <3>1 DEF RunRow, Phases
  <2> HIDE DEF row
  <2> QED
    BY <2>1, <2>2, RunGoesOn
<1>2. ASSUME NEW r \in Runs, latestBackupAt(r)
      PROVE  BackupInv'
  <2> DEFINE latest == Max({b.created : b \in records} \cup {Initial})
             row == [run[r] EXCEPT !.phase = "claiming", !.checkpoint = latest]
  <2>1. /\ RunStays(r) \/ RunBecomes(r, row)
        /\ run[r].phase = "reading" /\ UNCHANGED <<day, records, objects>>
    BY <1>2 DEF latestBackupAt, RunBecomes
  <2> HIDE DEF latest
  <2>2. RunRow(row) /\ row.phase = "claiming"
    <3>1. RunRow(run[r])
      BY <1>0 DEF BackupRunsOK
    <3>2. run[r] \in [phase : Phases, now : Nat, checkpoint : {run[r].checkpoint, latest}]
      BY <3>1 DEF RunRow
    <3>3. /\ row \in [phase : Phases, now : Nat, checkpoint : {run[r].checkpoint, latest}]
          /\ row.phase = "claiming" /\ row.checkpoint = latest
      BY <3>2 DEF Phases
    <3> QED
      BY <3>3 DEF RunRow
  <2> HIDE DEF row
  <2> QED
    BY <2>1, <2>2, RunEnds, RunGoesOn
<1>3. ASSUME NEW r \in Runs, claimBackup(r)
      PROVE  BackupInv'
  <2> DEFINE row == [run[r] EXCEPT !.phase = "saving"]
  <2>1. /\ RunStays(r) \/ RunBecomes(r, row)
        /\ run[r].phase = "claiming" /\ UNCHANGED <<day, records, objects>>
    BY <1>3 DEF claimBackup, RunBecomes
  <2>2. RunRow(row) /\ row.phase = "saving"
    BY <1>0, NextPhase DEF Phases
  <2> HIDE DEF row
  <2> QED
    BY <2>1, <2>2, RunEnds, RunGoesOn
<1>4. ASSUME NEW r \in Runs, RunDies(r)
      PROVE  BackupInv'
  BY <1>4, RunEnds DEF RunDies
<1>5. CASE BackupLeaseExpires
  BY <1>5, <1>a DEF BackupLeaseExpires
<1>6. CASE ForgetExpired
  BY <1>6, <1>a DEF ForgetExpired
<1>7. CASE DayPasses
  <2>1. day' = day + 1 /\ day \in Nat /\ UNCHANGED <<records, objects, run>>
    BY <1>0, <1>7 DEF DayPasses, BackupRunsOK
  <2>2. \A e \in Int : e > day' => e > day
    BY <2>1
  <2>3. \A r \in Runs : run[r].now + BackupDays \in Int
    BY <1>0, BackupAssumption DEF BackupRunsOK, RunRow
  <2>4. BackupRunsOK'
    BY <1>0, <2>1 DEF BackupRunsOK
  <2>5. SavedIsThere'
    BY <1>0, <2>1, <2>2, <2>3 DEF SavedIsThere, Saved
  <2>6. RecordsOK'
    BY <1>0, <2>1, <2>2 DEF RecordsOK, Saved
  <2> QED
    BY <2>4, <2>5, <2>6 DEF BackupInv
<1>8. ASSUME NEW o \in Operators, RestoreStep(o)
      PROVE  BackupInv'
  <2>1. UNCHANGED runVars
    BY <1>8
    DEF RestoreStep, readDecrypted, restoreBackupSnapshot, StageSnapshot, CompareStage, Promote,
        recordRestoreVerification, clearRestoredSnapshot, ClearTarget, RestoreDies
  <2> QED
    BY <1>a, <2>1 DEF runVars
<1>9. CASE UNCHANGED backupVars
  BY <1>9, <1>a DEF backupVars
<1> QED
  BY <1>1, <1>2, <1>3, <1>4, <1>5, <1>6, <1>7, <1>8, <1>9, BackupSaveKeeps, RecordKeeps
  DEF BackupNext, BackupStep

\* A backup that counts can be restored until it expires, whatever runs overlap,
\* lose their lease or die: every attempt has an object of its own, and only the
\* run that made it records it.
THEOREM BackupsRestorable == BackupSpec => []RecordedIsRestorable
<1>1. BackupInit => BackupInv
  BY BackupInvInit
<1>2. BackupInv /\ [BackupNext]_backupVars => BackupInv'
  BY BackupInvStep
<1> QED
  BY <1>1, <1>2, BackupInvImplies, PTL DEF BackupSpec

-----------------------------------------------------------------------------
(* What is restored is what was verified *)

\* What the proof needs of a restore's row.
OperatorRow(row) ==
    row \in [phase : {row.phase}, backup : {row.backup}, snapshot : {row.snapshot},
             evidence : {row.evidence}]

OperatorsOK == /\ operator = [o \in Operators |-> operator[o]]
               /\ \A o \in Operators : OperatorRow(operator[o])

\* The hash that controls the stage is that of what is staged.
StageOK == stage.snapshot = stage.control

\* The promoting call is past reading what it restores.
TargetOK ==
    \/ target = EmptyTarget
    \/ /\ target.evidence \in Operators
       /\ operator[target.evidence].phase # "new"
       /\ operator[target.evidence].backup = target.backup
       /\ operator[target.evidence].snapshot = target.snapshot

RestoreInv == OperatorsOK /\ StageOK /\ TargetOK

LEMMA RestoreInvInit == BackupInit => RestoreInv
  BY DEF BackupInit, RestoreInv, OperatorsOK, OperatorRow, NewOperator, StageOK, EmptyStage, TargetOK

OperatorBecomes(o, row) == operator' = [operator EXCEPT ![o] = row]

LEMMA OperatorMoves ==
    ASSUME OperatorsOK, NEW o \in Operators, NEW row, OperatorRow(row), OperatorBecomes(o, row)
    PROVE  /\ OperatorsOK'
           /\ operator'[o] = row
           /\ \A p \in Operators : p # o => operator'[p] = operator[p]
  BY DEF OperatorsOK, OperatorBecomes

\* A restore that goes on keeps what it restores.
LEMMA RestoreGoesOn ==
    ASSUME OperatorsOK, NEW o \in Operators, NEW phase, phase # "new",
           \/ Restoring(o, phase)
           \/ \E e : operator' = [operator EXCEPT ![o].phase = phase, ![o].evidence = e]
    PROVE  /\ OperatorsOK'
           /\ operator'[o].phase # "new"
           /\ operator'[o].backup = operator[o].backup
           /\ operator'[o].snapshot = operator[o].snapshot
           /\ \A p \in Operators : p # o => operator'[p] = operator[p]
<1>1. OperatorRow(operator[o])
  BY DEF OperatorsOK
<1>2. CASE Restoring(o, phase)
  <2> DEFINE row == [operator[o] EXCEPT !.phase = phase]
  <2>1. OperatorBecomes(o, row)
    BY <1>2 DEF Restoring, OperatorBecomes
  <2>2. OperatorRow(row) /\ row.phase = phase /\ row.backup = operator[o].backup
        /\ row.snapshot = operator[o].snapshot
    BY <1>1 DEF OperatorRow
  <2> HIDE DEF row
  <2> QED
    BY <2>1, <2>2, OperatorMoves
<1>3. ASSUME NEW e, operator' = [operator EXCEPT ![o].phase = phase, ![o].evidence = e]
      PROVE  /\ OperatorsOK'
             /\ operator'[o].phase # "new"
             /\ operator'[o].backup = operator[o].backup
             /\ operator'[o].snapshot = operator[o].snapshot
             /\ \A p \in Operators : p # o => operator'[p] = operator[p]
  <2> DEFINE row == [operator[o] EXCEPT !.phase = phase, !.evidence = e]
  <2>1. OperatorBecomes(o, row)
    BY <1>3 DEF OperatorBecomes, OperatorsOK
  <2>2. OperatorRow(row) /\ row.phase = phase /\ row.backup = operator[o].backup
        /\ row.snapshot = operator[o].snapshot
    <3>1. operator[o] \in [phase : {operator[o].phase, phase}, backup : {operator[o].backup},
                           snapshot : {operator[o].snapshot}, evidence : {operator[o].evidence, e}]
      BY <1>1 DEF OperatorRow
    <3>2. /\ row \in [phase : {operator[o].phase, phase}, backup : {operator[o].backup},
                      snapshot : {operator[o].snapshot}, evidence : {operator[o].evidence, e}]
          /\ row.phase = phase /\ row.backup = operator[o].backup
          /\ row.snapshot = operator[o].snapshot
      BY <3>1
    <3> QED
      BY <3>2 DEF OperatorRow
  <2> HIDE DEF row
  <2> QED
    BY <2>1, <2>2, OperatorMoves
<1> QED
  BY <1>2, <1>3

\* A step that leaves the target, or empties it.
LEMMA TargetStays ==
    ASSUME RestoreInv, NEW o \in Operators, NEW phase, phase # "new",
           \/ Restoring(o, phase)
           \/ \E e : operator' = [operator EXCEPT ![o].phase = phase, ![o].evidence = e],
           StageOK', target' \in {target, EmptyTarget}
    PROVE  RestoreInv'
<1>1. /\ OperatorsOK'
      /\ operator'[o].phase # "new"
      /\ operator'[o].backup = operator[o].backup
      /\ operator'[o].snapshot = operator[o].snapshot
      /\ \A p \in Operators : p # o => operator'[p] = operator[p]
  BY RestoreGoesOn DEF RestoreInv
<1>2. TargetOK'
  BY <1>1 DEF RestoreInv, TargetOK
<1> QED
  BY <1>1, <1>2 DEF RestoreInv

LEMMA PromoteKeeps ==
    ASSUME RestoreInv, NEW o \in Operators, Promote(o)
    PROVE  RestoreInv'
<1>0. OperatorsOK /\ StageOK /\ TargetOK
  BY DEF RestoreInv
<1>1. CASE MayPromote(o)
  <2>1. /\ target' = [snapshot |-> stage.snapshot, backup |-> operator[o].backup, evidence |-> o]
        /\ stage.control = operator[o].snapshot
        /\ stage' = IF stage.control = operator[o].snapshot THEN EmptyStage ELSE stage
        /\ operator' = [operator EXCEPT ![o].phase = "mirroring", ![o].evidence = o]
    BY <1>1 DEF Promote, MayPromote
  <2>2. /\ OperatorsOK'
        /\ operator'[o].phase # "new"
        /\ operator'[o].backup = operator[o].backup
        /\ operator'[o].snapshot = operator[o].snapshot
    BY <1>0, <2>1, RestoreGoesOn
  <2>3. StageOK'
    BY <2>1 DEF StageOK, EmptyStage
  <2>4. TargetOK'
    <3>1. target'.evidence = o /\ target'.backup = operator[o].backup
          /\ target'.snapshot = operator[o].snapshot
      BY <1>0, <2>1 DEF StageOK
    <3> QED
      BY <2>2, <3>1 DEF TargetOK
  <2> QED
    BY <2>2, <2>3, <2>4 DEF RestoreInv
<1>2. CASE ~ MayPromote(o)
  <2>1. /\ UNCHANGED <<stage, target>>
        /\ TakesOver(o) \/ Restoring(o, "done")
    BY <1>2 DEF Promote
  <2>2. StageOK'
    BY <1>0, <2>1 DEF StageOK
  <2> QED
    BY <2>1, <2>2, TargetStays DEF TakesOver
<1> QED
  BY <1>1, <1>2

LEMMA BackupReadKeeps ==
    ASSUME RestoreInv, NEW o \in Operators, NEW b \in records, readDecrypted(o, b)
    PROVE  RestoreInv'
<1>0. OperatorsOK /\ StageOK /\ TargetOK
  BY DEF RestoreInv
<1> DEFINE row == [NewOperator EXCEPT !.phase = "checking", !.backup = b.checkpoint,
                                      !.snapshot = b.hash]
<1>1. OperatorBecomes(o, row) /\ operator[o].phase = "new" /\ UNCHANGED <<stage, target>>
  BY DEF readDecrypted, OperatorBecomes
<1>2. OperatorRow(row)
  <2>1. NewOperator \in [phase : {"new", "checking"}, backup : {Initial, b.checkpoint},
                         snapshot : {Nothing, b.hash}, evidence : {Nothing}]
    BY DEF NewOperator
  <2>2. row \in [phase : {"new", "checking"}, backup : {Initial, b.checkpoint},
                 snapshot : {Nothing, b.hash}, evidence : {Nothing}]
    BY <2>1
  <2> HIDE DEF row
  <2> QED
    BY <2>2 DEF OperatorRow
<1> HIDE DEF row
<1>3. OperatorsOK' /\ \A p \in Operators : p # o => operator'[p] = operator[p]
  BY <1>0, <1>1, <1>2, OperatorMoves
<1>4. TargetOK'
  BY <1>0, <1>1, <1>3 DEF TargetOK
<1> QED
  BY <1>0, <1>1, <1>3, <1>4 DEF RestoreInv, StageOK

LEMMA RestoreInvStep == RestoreInv /\ [BackupNext]_backupVars => RestoreInv'
<1> SUFFICES ASSUME RestoreInv, [BackupNext]_backupVars PROVE RestoreInv'
  OBVIOUS
<1>0. OperatorsOK /\ StageOK /\ TargetOK
  BY DEF RestoreInv
<1>a. ASSUME UNCHANGED restoreVars PROVE RestoreInv'
  BY <1>0, <1>a DEF restoreVars, RestoreInv, OperatorsOK, StageOK, TargetOK
<1>1. ASSUME NEW r \in Runs, BackupStep(r) PROVE RestoreInv'
  BY <1>1, <1>a
  DEF BackupStep, deleteExpired, latestBackupAt, claimBackup, saveEncrypted, recordBackup, RunDies
<1>2. CASE BackupLeaseExpires \/ ForgetExpired \/ DayPasses
  BY <1>2, <1>a DEF BackupLeaseExpires, ForgetExpired, DayPasses
<1>3. ASSUME NEW o \in Operators, restoreBackupSnapshot(o) PROVE RestoreInv'
  <2>1. StageOK' /\ UNCHANGED target
    BY <1>0, <1>3 DEF restoreBackupSnapshot, StageOK
  <2>2. TakesOver(o) \/ \E phase \in {"staging", "done"} : Restoring(o, phase)
    BY <1>3 DEF restoreBackupSnapshot
  <2> QED
    BY <2>1, <2>2, TargetStays DEF TakesOver
<1>4. ASSUME NEW o \in Operators, StageSnapshot(o) PROVE RestoreInv'
  <2>1. StageOK' /\ UNCHANGED target /\ Restoring(o, "comparing")
    BY <1>4 DEF StageSnapshot, StageOK
  <2> QED
    BY <2>1, TargetStays
<1>5. ASSUME NEW o \in Operators, CompareStage(o) PROVE RestoreInv'
  <2>1. StageOK' /\ UNCHANGED target
    BY <1>0, <1>5 DEF CompareStage, StageOK, EmptyStage
  <2>2. Restoring(o, "promoting") \/ Restoring(o, "done")
    BY <1>5 DEF CompareStage
  <2> QED
    BY <2>1, <2>2, TargetStays
<1>6. ASSUME NEW o \in Operators, recordRestoreVerification(o) PROVE RestoreInv'
  <2>1. StageOK' /\ UNCHANGED target /\ Restoring(o, "cleaning")
    BY <1>0, <1>6 DEF recordRestoreVerification, StageOK
  <2> QED
    BY <2>1, TargetStays
<1>7. ASSUME NEW o \in Operators, clearRestoredSnapshot(o) PROVE RestoreInv'
  <2>1. StageOK' /\ UNCHANGED target
    BY <1>0, <1>7 DEF clearRestoredSnapshot, StageOK
  <2>2. Restoring(o, "clearing") \/ Restoring(o, "done")
    BY <1>7 DEF clearRestoredSnapshot
  <2> QED
    BY <2>1, <2>2, TargetStays
<1>8. ASSUME NEW o \in Operators, ClearTarget(o) PROVE RestoreInv'
  <2>1. StageOK' /\ target' \in {target, EmptyTarget} /\ Restoring(o, "done")
    BY <1>0, <1>8 DEF ClearTarget, StageOK
  <2> QED
    BY <2>1, TargetStays
<1>9. ASSUME NEW o \in Operators, RestoreDies(o) PROVE RestoreInv'
  <2>1. StageOK' /\ UNCHANGED target /\ Restoring(o, "done")
    BY <1>0, <1>9 DEF RestoreDies, StageOK
  <2> QED
    BY <2>1, TargetStays
<1>10. CASE UNCHANGED backupVars
  BY <1>10, <1>a DEF backupVars, restoreVars
<1> QED
  BY <1>1, <1>2, <1>3, <1>4, <1>5, <1>6, <1>7, <1>8, <1>9, <1>10, PromoteKeeps, BackupReadKeeps
  DEF BackupNext, RestoreStep

\* The recovery database holds nothing, or exactly the snapshot its verification
\* names, promoted by the call the verification names, however many operators
\* restore at once and wherever their calls end.
THEOREM RestoreVerified == BackupSpec => []TargetIsVerified
<1>1. BackupInit => RestoreInv
  BY RestoreInvInit
<1>2. RestoreInv /\ [BackupNext]_backupVars => RestoreInv'
  BY RestoreInvStep
<1>3. RestoreInv => TargetIsVerified
  BY DEF RestoreInv, TargetOK, TargetIsVerified
<1> QED
  BY <1>1, <1>2, <1>3, PTL DEF BackupSpec

-----------------------------------------------------------------------------
(* The services side by side *)

LEMMA PlatformStarts ==
    PlatformInit => FormInit /\ BackupInit /\ EditorInit /\ SignupInit /\ AccessInit
  BY DEF PlatformInit

\* The step of a service is one of its own and none of the others'.
LEMMA PlatformSteps ==
    [PlatformNext]_platformVars =>
        /\ [FormNext]_formVars /\ [BackupNext]_backupVars
        /\ [EditorNext]_editorVars /\ [SignupNext]_signupVars
        /\ [AccessNext]_accessVars
  BY DEF PlatformNext, platformVars

\* A behaviour of the platform is, for each service, one of its behaviours:
\* what is proved of a service alone holds of it here.
THEOREM PlatformRefinesServices ==
    PlatformSpec => /\ FormSpec /\ BackupSpec /\ EditorSpec
                    /\ SignupSpec /\ AccessSpec
  BY PlatformStarts, PlatformSteps, PTL
  DEF PlatformSpec, FormSpec, BackupSpec, EditorSpec, SignupSpec, AccessSpec

\* The service that runs keeps to the values of its variables: its jobs and
\* cron runs, its documents and requests, its subscribers, its callers.
THEOREM PlatformTypeCorrect == PlatformSpec => []PlatformTypeOK
<1>1. FormTypeOK /\ EditorTypeOK /\ SignupTypeOK /\ AccessTypeOK => PlatformTypeOK
  BY DEF PlatformTypeOK
<1> QED
  BY <1>1, PlatformRefinesServices, FormTypeCorrect, EditorTypeCorrect,
     SignupTypeCorrect, AccessTypeCorrect, PTL
===============================================================================
