-------------------------- MODULE FormNotification --------------------------
(***************************************************************************)
(* What happens to a submission of a public form after it is accepted: the *)
(* job that notifies the staff, the owner's decisions about spam, replays  *)
(* and erasure, and the daily retention.                                   *)
(*                                                                         *)
(* A five-minute cron claims the due jobs under a lease, reads the         *)
(* payloads, and sends one e-mail after the other.  A run may be slow, so  *)
(* that its lease runs out under it, overlap with the next one, or die.    *)
(***************************************************************************)
EXTENDS Naturals, FiniteSets

CONSTANTS
    Submissions,      \* submissions that may be sent in
    Crons,            \* runs of the cron that may overlap
    MaximumAttempts,  \* maximumAttempts of the code, where it is 8
    MaxReleases       \* bound: times one job is made pending

ASSUME CronAssumption == IsFiniteSet(Crons) /\ Crons \cap {"no token", "lost"} = {}

VARIABLES
    job,             \* the notification job of every submission
    classification,  \* "none" before it is accepted, then the spam verdict
    payload,         \* whether the fields are there or deleted
    cron,            \* what each run holds in memory
    emails,          \* how many e-mails left for a submission
    releases         \* how many times its job was made pending by an act

formVars == <<job, classification, payload, cron, emails, releases>>

-----------------------------------------------------------------------------
Waiting == {"pending", "retry"}
Statuses == Waiting \cup {"none", "processing", "delivered", "failed", "held"}
ErasureCodes == {"payload_erased", "payload_expired"}
Outcomes == {"sent", "retry", "permanent_failure", "outcome unknown"}

\* Tokens are new in every run: a run that died leaves one nobody holds.
Tokens == Crons \cup {"no token", "lost"}

\* live: the lease has not run out; inWindow: a retry would still come within
\* 24 hours of the release.
NewJob == [status |-> "none", attempts |-> 0, token |-> "no token",
           live |-> FALSE, error |-> "none", inWindow |-> TRUE]
IdleCron == [phase |-> "idle", batch |-> {}, sending |-> {}, outcome |-> "sent"]

FormInit ==
    /\ job = [m \in Submissions |-> NewJob]
    /\ classification = [m \in Submissions |-> "none"]
    /\ payload = [m \in Submissions |-> "none"]
    /\ cron = [k \in Crons |-> IdleCron]
    /\ emails = [m \in Submissions |-> 0]
    /\ releases = [m \in Submissions |-> 0]

MayRelease(m) == releases[m] < MaxReleases
Released(m) == releases' = [releases EXCEPT ![m] = @ + 1]
Free(j) == [j EXCEPT !.token = "no token", !.live = FALSE]

-----------------------------------------------------------------------------
(* A visitor sends the form in.  All rows are written in one batch that a     *)
(* repeated request does not change.                                         *)

accept(m, verdict) ==
    /\ classification[m] = "none"
    /\ classification' = [classification EXCEPT ![m] = verdict]
    /\ payload' = [payload EXCEPT ![m] = "present"]
    /\ IF verdict = "accepted"
       THEN job' = [job EXCEPT ![m].status = "pending"] /\ Released(m)
       ELSE job' = [job EXCEPT ![m].status = "held"] /\ UNCHANGED releases
    /\ UNCHANGED <<cron, emails>>

-----------------------------------------------------------------------------
(* The cron.                                                                 *)

\* Mutant: the cron looks at due jobs only.
NothingExpires == {}

ExpiredClaims == {m \in Submissions : job[m].status = "processing" /\ ~ job[m].live}

\* Mutant: an expired claim goes back into the queue.
ExpiryRequeues(j) == [Free(j) EXCEPT !.status = "retry", !.error = "delivery"]

\* The outcome of an expired claim is unknown: it is never retried unasked.
AfterExpiry(j) == [Free(j) EXCEPT !.status = "failed", !.error = "delivery"]

claimDue(k) ==
    /\ cron[k].phase = "idle"
    /\ job' = [m \in Submissions |->
                  IF m \in ExpiredClaims THEN AfterExpiry(job[m]) ELSE job[m]]
    /\ cron' = [cron EXCEPT ![k].phase = "claiming"]
    /\ UNCHANGED <<classification, payload, emails, releases>>

\* The batch holds the jobs whose time has come, the oldest first.
ClaimBatch(k, batch) ==
    /\ cron[k].phase = "claiming"
    /\ \A m \in batch : job[m].status \in Waiting
    /\ job' = [m \in Submissions |->
                  IF m \in batch
                  THEN [job[m] EXCEPT !.status = "processing", !.token = k,
                                      !.attempts = @ + 1, !.live = TRUE]
                  ELSE job[m]]
    /\ cron' = [cron EXCEPT ![k].phase = "reading"]
    /\ UNCHANGED <<classification, payload, emails, releases>>

\* The claimed rows are read back with their payloads.
ReadBatch(k) ==
    LET batch == {m \in Submissions : job[m].status = "processing" /\ job[m].token = k}
    IN /\ cron[k].phase = "reading"
       /\ cron' = [cron EXCEPT ![k] =
             IF batch = {} THEN IdleCron
             ELSE [IdleCron EXCEPT !.phase = "sending", !.batch = batch]]
       /\ UNCHANGED <<job, classification, payload, emails, releases>>

\* The adapter reports a definite outcome or throws after the e-mail may have
\* left.
notify(k, m, outcome, left) ==
    /\ cron[k].phase = "sending" /\ m \in cron[k].batch
    /\ outcome # "outcome unknown" => left = (outcome = "sent")
    /\ emails' = [emails EXCEPT ![m] = @ + (IF left THEN 1 ELSE 0)]
    /\ cron' = [cron EXCEPT ![k].phase = "recording", ![k].sending = {m},
                            ![k].outcome = outcome]
    /\ UNCHANGED <<job, classification, payload, releases>>

retryAt(m) == job[m].attempts < MaximumAttempts /\ job[m].inWindow

\* Mutant: the adapter's word is stored as the status.
OutcomeIsStatus(m, outcome) == outcome

StatusAfter(m, outcome) ==
    IF outcome = "sent" THEN "delivered"
    ELSE IF outcome = "retry" /\ retryAt(m) THEN "retry" ELSE "failed"

\* Only the holder of the claim writes the outcome; its lease may have run out
\* as long as no other run has noticed.
recordOutcome(k) ==
    /\ cron[k].phase = "recording"
    /\ LET rest == cron[k].batch \ cron[k].sending IN
       /\ cron' = [cron EXCEPT ![k] =
             IF rest = {} THEN IdleCron
             ELSE [IdleCron EXCEPT !.phase = "sending", !.batch = rest]]
       /\ job' = [m \in Submissions |->
             IF m \in cron[k].sending /\ job[m].status = "processing" /\ job[m].token = k
             THEN [Free(job[m]) EXCEPT
                      !.status = StatusAfter(m, cron[k].outcome),
                      !.error = IF cron[k].outcome = "sent" THEN "none" ELSE "delivery"]
             ELSE job[m]]
    /\ UNCHANGED <<classification, payload, emails, releases>>

\* The runtime ends a run.
CronDies(k) ==
    /\ cron[k].phase # "idle"
    /\ cron' = [cron EXCEPT ![k] = IdleCron]
    /\ job' = [m \in Submissions |->
                  IF job[m].token = k THEN [job[m] EXCEPT !.token = "lost"] ELSE job[m]]
    /\ UNCHANGED <<classification, payload, emails, releases>>

\* Four minutes after a claim.
ClaimLeaseExpires(m) ==
    /\ job[m].status = "processing" /\ job[m].live
    /\ job' = [job EXCEPT ![m].live = FALSE]
    /\ UNCHANGED <<classification, payload, cron, emails, releases>>

\* Twenty-four hours after a release.
RetryWindowCloses(m) ==
    /\ job[m].status \in Waiting \cup {"processing"} /\ job[m].inWindow
    /\ job' = [job EXCEPT ![m].inWindow = FALSE]
    /\ UNCHANGED <<classification, payload, cron, emails, releases>>

-----------------------------------------------------------------------------
(* The owner.                                                                *)

\* Mutant: a replay that does not ask why the job failed.
ReplayAnyFailed(m) ==
    /\ MayRelease(m)
    /\ job[m].status = "failed"
    /\ classification[m] = "accepted"
    /\ job' = [job EXCEPT ![m] = [NewJob EXCEPT !.status = "pending"]]
    /\ Released(m)
    /\ UNCHANGED <<classification, payload, cron, emails>>

replayFailed(m) ==
    /\ MayRelease(m)
    /\ job[m].status = "failed" /\ job[m].error \notin ErasureCodes \cup {"none"}
    /\ classification[m] = "accepted"
    /\ job' = [job EXCEPT ![m] = [NewJob EXCEPT !.status = "pending"]]
    /\ Released(m)
    /\ UNCHANGED <<classification, payload, cron, emails>>

releaseSuspectedSpam(m) ==
    /\ MayRelease(m)
    /\ classification[m] = "suspected_spam" /\ payload[m] = "present"
    /\ job[m].status = "held"
    /\ classification' = [classification EXCEPT ![m] = "accepted"]
    /\ job' = [job EXCEPT ![m].status = "pending", ![m].inWindow = TRUE]
    /\ Released(m)
    /\ UNCHANGED <<payload, cron, emails>>

Reclassifiable(m) == payload[m] = "present" /\ job[m].status # "processing"

classifySubmission(m, verdict) ==
    /\ Reclassifiable(m) /\ classification[m] # verdict
    /\ classification' = [classification EXCEPT ![m] = verdict]
    /\ IF job[m].status \notin Waiting \cup {"failed", "held"}
       THEN UNCHANGED <<job, releases>>
       ELSE IF verdict = "suspected_spam"
            THEN job' = [job EXCEPT ![m].status = "held"] /\ UNCHANGED releases
            ELSE /\ MayRelease(m)
                 /\ job' = [job EXCEPT ![m] = [NewJob EXCEPT !.status = "pending"]]
                 /\ Released(m)
    /\ UNCHANGED <<payload, cron, emails>>

Cancelled(j, code) == [Free(j) EXCEPT !.status = "failed", !.error = code]
Cancellable(m) == job[m].status \in Waiting \cup {"held", "failed"}

\* A payload under a claim stays, and the owner is told so.
eraseSubmissionPayload(m) ==
    /\ classification[m] # "none"
    /\ job' = IF Cancellable(m)
              THEN [job EXCEPT ![m] = Cancelled(@, "payload_erased")] ELSE job
    /\ payload' = IF job[m].status # "processing"
                  THEN [payload EXCEPT ![m] = "deleted"] ELSE payload
    /\ UNCHANGED <<classification, cron, emails, releases>>

\* Once a day, for the submissions whose time is over.
applyRetention(aged) ==
    LET expired == {m \in aged : payload[m] = "present"}
    IN /\ expired # {}
       /\ job' = [m \in Submissions |->
                     IF m \in expired /\ Cancellable(m)
                     THEN Cancelled(job[m], "payload_expired") ELSE job[m]]
       /\ payload' = [m \in Submissions |->
                     IF m \in expired /\ job[m].status # "processing"
                     THEN "deleted" ELSE payload[m]]
       /\ UNCHANGED <<classification, cron, emails, releases>>

-----------------------------------------------------------------------------
CronStep(k) ==
    \/ claimDue(k)
    \/ \E batch \in SUBSET Submissions : ClaimBatch(k, batch)
    \/ ReadBatch(k)
    \/ \E m \in Submissions, outcome \in Outcomes, left \in BOOLEAN :
          notify(k, m, outcome, left)
    \/ recordOutcome(k)

\* The oldest due jobs come first: in the end a job is in the batch.
ClaimOf(k, m) == \E batch \in SUBSET Submissions : m \in batch /\ ClaimBatch(k, batch)

OwnerStep(m) ==
    \/ replayFailed(m) \/ releaseSuspectedSpam(m) \/ eraseSubmissionPayload(m)
    \/ \E verdict \in {"accepted", "suspected_spam"} :
          classifySubmission(m, verdict)

FormNext ==
    \/ \E m \in Submissions, verdict \in {"accepted", "suspected_spam"} :
          accept(m, verdict)
    \/ \E k \in Crons : CronStep(k) \/ CronDies(k)
    \/ \E m \in Submissions : ClaimLeaseExpires(m) \/ RetryWindowCloses(m)
    \/ \E m \in Submissions : OwnerStep(m)
    \/ \E aged \in SUBSET Submissions : applyRetention(aged)

FormSpec == FormInit /\ [][FormNext]_formVars

-----------------------------------------------------------------------------
\* Every row has one of its values, and a claim has a token.
FormTypeOK ==
    /\ job \in [Submissions ->
          [status : Statuses, attempts : Nat, token : Tokens, live : BOOLEAN,
           error : {"none", "delivery"} \cup ErasureCodes, inWindow : BOOLEAN]]
    /\ classification \in [Submissions -> {"none", "accepted", "suspected_spam"}]
    /\ payload \in [Submissions -> {"none", "present", "deleted"}]
    /\ cron \in [Crons ->
          [phase : {"idle", "claiming", "reading", "sending", "recording"},
           batch : SUBSET Submissions, sending : SUBSET Submissions,
           outcome : Outcomes]]
    /\ emails \in [Submissions -> Nat]
    /\ releases \in [Submissions -> Nat]
    /\ \A m \in Submissions :
          (job[m].status = "processing") = (job[m].token # "no token")

\* Only a submission that is neither suspected of spam nor erased is queued or
\* under a claim, and an erased one has nothing left to do that a replay could
\* bring back.
JobFollowsSubmission ==
    \A m \in Submissions :
        /\ job[m].status \in Waiting \cup {"processing"} =>
              classification[m] = "accepted" /\ payload[m] = "present"
        /\ payload[m] = "deleted" =>
              \/ job[m].status = "delivered"
              \/ job[m].status = "failed" /\ job[m].error \in ErasureCodes

\* The staff get one e-mail for a submission each time a person or the intake
\* put it in the queue: no lost answer, dead run or expired lease repeats it.
NoUnaskedResend == \A m \in Submissions : emails[m] <= releases[m]

-----------------------------------------------------------------------------
(* Liveness: the cron keeps coming, its runs are not all cut off, the oldest  *)
(* due job gets its turn, and leases run out.                                *)

FormFairness ==
    /\ \A k \in Crons : WF_formVars(CronStep(k))
    /\ \A k \in Crons, m \in Submissions : SF_formVars(ClaimOf(k, m))
    /\ \A m \in Submissions : WF_formVars(ClaimLeaseExpires(m))

FairFormSpec == FormSpec /\ FormFairness

\* A queued notification does not hang: it is delivered, fails where the owner
\* sees it, or is held or erased.
JobSettles ==
    \A m \in Submissions :
        job[m].status \in Waiting \cup {"processing"} ~>
            job[m].status \in {"delivered", "failed", "held"}
=============================================================================
