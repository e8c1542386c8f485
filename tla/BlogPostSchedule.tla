-------------------------- MODULE BlogPostSchedule --------------------------
(***************************************************************************)
(* The scheduled publication and the archiving of one blog post.           *)
(*                                                                         *)
(* A schedule is activated under an approval.  When it is due a scheduler  *)
(* claims it: the claim makes one execution with a five-minute lease and   *)
(* takes the single publication reservation of the site.  The holder of    *)
(* the lease starts or resumes the content publication the schedule owns   *)
(* and records how the execution ended.  A lost holder is replaced when    *)
(* the lease has run out; a person may retry an execution that failed.     *)
(* Database triggers cancel schedules whose authority is gone and fence    *)
(* publications with the reservation.                                      *)
(*                                                                         *)
(* Publications are those of the schedules, one other publication of the   *)
(* site and the withdrawal that takes the archived post down.              *)
(***************************************************************************)
EXTENDS Naturals, FiniteSets

CONSTANTS
    Schedules,        \* the schedules of the post that may be activated
    Workers,          \* calls of the scheduler or of a person's retry
    MaxAttempts,      \* bound: attempts of one execution
    MaxPublications,  \* bound: publications started
    MaxApprovals,     \* bound: approvals given
    MaxVersion        \* bound: versions of the post

NoSchedule == "no schedule"
Publications == Schedules \cup {"other", "withdrawal"}

ASSUME ScheduleAssumption ==
    /\ Schedules \cap {NoSchedule, "other", "withdrawal"} = {}
    /\ MaxAttempts \in Nat \ {0}
    /\ {MaxPublications, MaxApprovals, MaxVersion} \subseteq Nat

VARIABLES
    schedule,     \* the schedule rows, with what they were activated under
    execution,    \* the execution rows: state, attempt, whether the lease is live
    reserved,     \* the schedule whose execution holds the reservation
    publication,  \* the status of every publication
    sequence,     \* its place in the reconciliation order
    started,      \* how many publications have been started
    production,   \* the sequence of the latest verified-live publication
    approval,     \* the workspace's current approval: its number and base
    approvals,    \* how many approvals have been given
    post,         \* the post: collection state, version, live, last reconciled
    worker        \* what each call is about to do, and what it has read

vars == <<schedule, execution, reserved, publication, sequence, started,
          production, approval, approvals, post, worker>>

-----------------------------------------------------------------------------
(* The rows and the conditions the triggers read. *)

Active == {"requested", "lapsed", "building", "unknown"}
Ended == {"live", "failed", "blocked"}
ScheduleStates == {"none", "active", "claimed", "cancelled", "blocked",
                   "failed", "unknown", "completed"}
ExecutionStates == {"none", "claimed", "blocked", "failed", "unknown",
                    "completed"}

NoApproval == [number |-> 0, base |-> 0]
NewSchedule == [state |-> "none", due |-> FALSE, approval |-> 0, base |-> 0,
                version |-> 0]
NewExecution == [state |-> "none", attempt |-> 0, leased |-> FALSE]
Idle == [phase |-> "idle", schedule |-> NoSchedule, attempt |-> 0,
         seen |-> "none"]

Approved(s) == /\ schedule[s].approval # 0
               /\ schedule[s].approval = approval.number

\* What a schedule needs to be activated or claimed.
CurrentAuthority(s) ==
    /\ Approved(s)
    /\ schedule[s].base = production
    /\ schedule[s].version = post.version
    /\ post.collection = "active"

\* Its own publication is under way or has gone live under the same approval.
OwnPublicationStands(s) == publication[s] \in Active \cup {"live"}

\* Mutant: a claim that does not look at other publications.
NothingReserved(s) == reserved \in {NoSchedule, s}

NothingForeign(s) ==
    /\ \A p \in Publications \ {s} : publication[p] \notin Active
    /\ reserved \in {NoSchedule, s}

\* The trigger on every move of a schedule to claimed, and the index that
\* allows one reservation.
MayBeClaimed(s) ==
    /\ \/ CurrentAuthority(s) /\ NothingForeign(s)
       \/ OwnPublicationStands(s)
    /\ reserved \in {NoSchedule, s}

InFlight(s) == /\ schedule[s].state \in {"claimed", "unknown"}
               /\ execution[s].state \in {"claimed", "unknown"}

\* The lease a call was given is the execution's current one, and live.
Holds(w) ==
    LET s == worker[w].schedule IN
    /\ execution[s].attempt = worker[w].attempt
    /\ execution[s].leased

ProofIsCurrent(w) == /\ Holds(w)
                     /\ execution[worker[w].schedule].state = "claimed"
                     /\ reserved = worker[w].schedule

\* The trigger on every publication that becomes or stays active.
ReservationAllows(p) ==
    /\ reserved \in {NoSchedule, p}
    /\ p \in Schedules =>
          /\ reserved = p
          /\ execution[p].state = "claimed"
          /\ execution[p].leased

\* Mutant: no index on active publications.
NoIndex == TRUE

NoActivePublication == \A p \in Publications : publication[p] \notin Active

\* Which schedules an invalidated approval takes with it: the ones not settled
\* whose own publication neither runs nor is live.
Stranded(hit) ==
    {s \in hit : /\ schedule[s].state \in {"active", "claimed", "unknown"}
                 /\ ~ OwnPublicationStands(s)}

ScheduleAfterInvalidation(hit) ==
    [s \in Schedules |->
        IF s \in Stranded(hit) THEN [schedule[s] EXCEPT !.state = "cancelled"]
                               ELSE schedule[s]]

ExecutionAfterInvalidation(hit) ==
    [s \in Schedules |->
        IF s \in Stranded(hit) /\ execution[s].state \in {"claimed", "unknown"}
        THEN [execution[s] EXCEPT !.state = "blocked", !.leased = FALSE]
        ELSE execution[s]]

\* Mutant: the invalidation keeps the reservation.
ReservationKept(hit) == reserved

ReservationAfterInvalidation(hit) ==
    IF reserved \in Stranded(hit) THEN NoSchedule ELSE reserved

\* The approval becomes invalid, and the trigger does the rest.
InvalidateApproval(hit) ==
    /\ approval' = NoApproval
    /\ schedule' = ScheduleAfterInvalidation(hit)
    /\ execution' = ExecutionAfterInvalidation(hit)
    /\ reserved' = ReservationAfterInvalidation(hit)

UnderApproval == {s \in Schedules : Approved(s)}

-----------------------------------------------------------------------------
ScheduleInit ==
    /\ schedule = [s \in Schedules |-> NewSchedule]
    /\ execution = [s \in Schedules |-> NewExecution]
    /\ reserved = NoSchedule
    /\ publication = [p \in Publications |-> "none"]
    /\ sequence = [p \in Publications |-> 0]
    /\ started = 0
    /\ production = 0
    /\ approval = NoApproval
    /\ approvals = 0
    /\ post = [collection |-> "active", version |-> 1, live |-> FALSE,
               reconciled |-> 0]
    /\ worker = [w \in Workers |-> Idle]

-----------------------------------------------------------------------------
(* The editor. *)

\* A new approval replaces the one before, whose schedules are invalidated.
approve ==
    /\ approvals < MaxApprovals
    /\ post.collection = "active"
    /\ approvals' = approvals + 1
    /\ approval' = [number |-> approvals + 1, base |-> production]
    /\ schedule' = ScheduleAfterInvalidation(UnderApproval)
    /\ execution' = ExecutionAfterInvalidation(UnderApproval)
    /\ reserved' = ReservationAfterInvalidation(UnderApproval)
    /\ UNCHANGED <<publication, sequence, started, production, post, worker>>

\* A revision of the workspace.  It invalidates the approval and, by a trigger
\* of its own, every older schedule, the ones without an approval included.
EditPost ==
    /\ \A s \in Schedules : publication[s] # "requested"
    /\ approval # NoApproval \/ Stranded(Schedules) # {}
    /\ InvalidateApproval(Schedules)
    /\ UNCHANGED <<publication, sequence, started, production, approvals, post,
                   worker>>

\* A schedule already active is replaced in the same transaction.
saveSchedule(s) ==
    /\ schedule[s].state = "none"
    /\ approval # NoApproval /\ approval.base = production
    /\ post.collection = "active"
    /\ \A t \in Schedules : ~ InFlight(t)
    /\ schedule' = [t \in Schedules |->
           IF t = s
           THEN [NewSchedule EXCEPT !.state = "active",
                                    !.approval = approval.number,
                                    !.base = approval.base,
                                    !.version = post.version]
           ELSE IF schedule[t].state = "active"
           THEN [schedule[t] EXCEPT !.state = "cancelled"]
           ELSE schedule[t]]
    /\ UNCHANGED <<execution, reserved, publication, sequence, started,
                   production, approval, approvals, post, worker>>

\* Too late once a call has claimed it.
cancelSchedule(s) ==
    /\ schedule[s].state = "active"
    /\ schedule' = [schedule EXCEPT ![s].state = "cancelled"]
    /\ UNCHANGED <<execution, reserved, publication, sequence, started,
                   production, approval, approvals, post, worker>>

ComesDue(s) ==
    /\ schedule[s].state = "active" /\ ~ schedule[s].due
    /\ schedule' = [schedule EXCEPT ![s].due = TRUE]
    /\ UNCHANGED <<execution, reserved, publication, sequence, started,
                   production, approval, approvals, post, worker>>

-----------------------------------------------------------------------------
(* The scheduler and a person's retry. *)

\* Is the approval still good?  A publication of the schedule's own answers for
\* it.  Otherwise the repository's head and the served release must be the
\* approved base: while another publication runs its commit may have moved the
\* head already.
AnswersForItself(s) == \/ OwnPublicationStands(s)
                       \/ publication[s] = "failed" /\ Approved(s)

BaseIsHead(s) == schedule[s].base = production
HeadMayHaveMoved == \E p \in Publications : publication[p] \in Active

\* Mutant: a lost authority is noticed but not recorded.
validateOnly(s, phase, w) ==
    /\ AnswersForItself(s) \/ (Approved(s) /\ BaseIsHead(s))
    /\ worker' = [worker EXCEPT ![w] =
           [Idle EXCEPT !.phase = phase, !.schedule = s,
                        !.attempt = execution[s].attempt]]
    /\ UNCHANGED <<schedule, execution, reserved, approval>>

\* The answer no invalidates an approval that was still valid.
validateApprovalAuthority(s, phase, w) ==
    \/ /\ \/ AnswersForItself(s)
          \/ Approved(s) /\ BaseIsHead(s)
       /\ worker' = [worker EXCEPT ![w] =
              [Idle EXCEPT !.phase = phase, !.schedule = s,
                           !.attempt = execution[s].attempt]]
       /\ UNCHANGED <<schedule, execution, reserved, approval>>
    \/ /\ ~ AnswersForItself(s)
       /\ Approved(s)
       /\ ~ BaseIsHead(s) \/ HeadMayHaveMoved
       /\ InvalidateApproval(UnderApproval)
       /\ UNCHANGED worker

\* The scheduler picks a due schedule up and asks whether it may run.
claimDueSchedule(w, s) ==
    /\ worker[w].phase = "idle"
    /\ schedule[s].state = "active" /\ schedule[s].due
    /\ validateApprovalAuthority(s, "claiming", w)
    /\ UNCHANGED <<publication, sequence, started, production, approvals, post>>

\* The claim: schedule, execution and reservation in one transaction.  A claim
\* that finds the schedule taken, or that a trigger refuses, gives no lease.
ClaimPermits(s) == schedule[s].state = "active" /\ MayBeClaimed(s)

claimSchedule(w) ==
    LET s == worker[w].schedule IN
    /\ worker[w].phase = "claiming"
    /\ \/ /\ ClaimPermits(s)
          /\ schedule' = [schedule EXCEPT ![s].state = "claimed"]
          /\ execution' = [execution EXCEPT ![s] =
                [state |-> "claimed", attempt |-> 1, leased |-> TRUE]]
          /\ reserved' = s
          /\ worker' = [worker EXCEPT ![w].phase = "rechecking",
                                      ![w].attempt = 1]
       \/ /\ ~ ClaimPermits(s)
          /\ worker' = [worker EXCEPT ![w] = Idle]
          /\ UNCHANGED <<schedule, execution, reserved>>
    /\ UNCHANGED <<publication, sequence, started, production, approval,
                   approvals, post>>

\* The application reads the authority once more after its claim.
RecheckClaim(w) ==
    LET s == worker[w].schedule IN
    /\ worker[w].phase = "rechecking"
    /\ worker' = [worker EXCEPT
           ![w] = IF CurrentAuthority(s) THEN [@ EXCEPT !.phase = "leased"]
                  ELSE [@ EXCEPT !.phase = "recording", !.seen = "blocked"]]
    /\ UNCHANGED <<schedule, execution, reserved, publication, sequence,
                   started, production, approval, approvals, post>>

\* The scheduler resumes an execution whose lease ran out; a person retries one
\* that failed or was blocked.  Both ask first whether the approval is good.
Retryable(s, kind) ==
    \/ /\ kind = "retrying for the scheduler"
       /\ execution[s].state \in {"claimed", "unknown"}
       /\ ~ execution[s].leased
    \/ /\ kind = "retrying for a person"
       /\ execution[s].state \in {"failed", "blocked"}

retryExecutionForActor(w, s, kind) ==
    /\ worker[w].phase = "idle"
    /\ execution[s].attempt < MaxAttempts
    /\ Retryable(s, kind)
    /\ validateApprovalAuthority(s, kind, w)
    /\ UNCHANGED <<publication, sequence, started, production, approvals, post>>

\* The retry: a new attempt with a new lease, and the reservation again.
RetryPermits(w) ==
    LET s == worker[w].schedule IN
    /\ Retryable(s, worker[w].phase)
    /\ execution[s].attempt < MaxAttempts
    /\ schedule[s].state # "completed" => MayBeClaimed(s)
    /\ reserved \in {NoSchedule, s}

retryExecution(w) ==
    LET s == worker[w].schedule
        next == execution[s].attempt + 1
    IN
    /\ worker[w].phase \in {"retrying for the scheduler",
                            "retrying for a person"}
    /\ \/ /\ RetryPermits(w)
          /\ execution' = [execution EXCEPT ![s] =
                [state |-> "claimed", attempt |-> next, leased |-> TRUE]]
          /\ schedule' = [schedule EXCEPT ![s].state =
                IF @ = "completed" THEN @ ELSE "claimed"]
          /\ reserved' = s
          /\ worker' = [worker EXCEPT ![w].phase = "leased",
                                      ![w].attempt = next]
       \/ /\ ~ RetryPermits(w)
          /\ worker' = [worker EXCEPT ![w] = Idle]
          /\ UNCHANGED <<schedule, execution, reserved>>
    /\ UNCHANGED <<publication, sequence, started, production, approval,
                   approvals, post>>

LeaseExpires(s) ==
    /\ execution[s].leased
    /\ execution' = [execution EXCEPT ![s].leased = FALSE]
    /\ UNCHANGED <<schedule, reserved, publication, sequence, started,
                   production, approval, approvals, post, worker>>

Crash(w) ==
    /\ worker[w].phase # "idle"
    /\ worker' = [worker EXCEPT ![w] = Idle]
    /\ UNCHANGED <<schedule, execution, reserved, publication, sequence,
                   started, production, approval, approvals, post>>

-----------------------------------------------------------------------------
(* The holder of the lease advances the schedule's publication. *)

\* The row of a publication, at its place in the reconciliation order.
Begin(p, status) ==
    /\ publication' = [publication EXCEPT ![p] = status]
    /\ sequence' = [sequence EXCEPT ![p] = started + 1]
    /\ started' = started + 1

\* No publication yet: claim one under the reservation proof.  A stale approval
\* or a publication already running leaves a blocked row instead.
StartPublication(w) ==
    LET s == worker[w].schedule IN
    /\ worker[w].phase = "leased"
    /\ publication[s] = "none"
    /\ started < MaxPublications
    /\ ProofIsCurrent(w)
    /\ Begin(s, IF Approved(s) /\ post.collection = "active" /\ NoActivePublication
                THEN "requested" ELSE "blocked")
    /\ worker' = [worker EXCEPT ![w].phase = "advancing"]
    /\ UNCHANGED <<schedule, execution, reserved, production, approval,
                   approvals, post>>

\* A failed one: try its deployment again, if its base is still served.
RetryPublication(w) ==
    LET s == worker[w].schedule IN
    /\ worker[w].phase = "leased"
    /\ publication[s] = "failed"
    /\ Approved(s) /\ BaseIsHead(s)
    /\ ProofIsCurrent(w) /\ NoActivePublication /\ post.collection = "active"
    /\ publication' = [publication EXCEPT ![s] = "requested"]
    /\ worker' = [worker EXCEPT ![w].phase = "advancing"]
    /\ UNCHANGED <<schedule, execution, reserved, sequence, started, production,
                   approval, approvals, post>>

ResumePublication(w) ==
    /\ worker[w].phase = "leased"
    /\ publication[worker[w].schedule] \notin {"none", "failed"}
    /\ worker' = [worker EXCEPT ![w].phase = "advancing"]
    /\ UNCHANGED <<schedule, execution, reserved, publication, sequence,
                   started, production, approval, approvals, post>>

\* A call that throws: a known refusal blocks the execution, anything else
\* leaves its result unknown.
AdvanceThrows(w, seen) ==
    /\ worker[w].phase \in {"leased", "advancing"}
    /\ worker' = [worker EXCEPT ![w].phase = "recording", ![w].seen = seen]
    /\ UNCHANGED <<schedule, execution, reserved, publication, sequence,
                   started, production, approval, approvals, post>>

\* Mutant: a deployment that was only built counts as done.
OutcomeEarly(w) ==
    LET status == publication[worker[w].schedule] IN
    /\ worker[w].phase = "advancing"
    /\ worker' = [worker EXCEPT ![w] =
           IF status \in {"live", "building"}
           THEN [@ EXCEPT !.phase = "recording", !.seen = "completed"] ELSE Idle]
    /\ UNCHANGED <<schedule, execution, reserved, publication, sequence,
                   started, production, approval, approvals, post>>

\* The status the call ends on.  A publication still running gives no outcome:
\* the lease runs out and the scheduler looks again.
executionOutcome(w) ==
    LET status == publication[worker[w].schedule] IN
    /\ worker[w].phase = "advancing"
    /\ worker' = [worker EXCEPT ![w] =
           CASE status = "live" -> [@ EXCEPT !.phase = "recording", !.seen = "completed"]
             [] status \in {"blocked", "failed", "unknown"} ->
                    [@ EXCEPT !.phase = "recording", !.seen = status]
             [] OTHER -> Idle]
    /\ UNCHANGED <<schedule, execution, reserved, publication, sequence,
                   started, production, approval, approvals, post>>

\* Only the current lease records, only while it is live, and never over a
\* completed execution.  An unknown result keeps the reservation.
OutcomePermits(w) ==
    /\ Holds(w)
    /\ execution[worker[w].schedule].state # "completed"

recordExecutionOutcome(w) ==
    LET s == worker[w].schedule IN
    /\ worker[w].phase = "recording"
    /\ \/ /\ OutcomePermits(w)
          /\ execution' = [execution EXCEPT ![s].state = worker[w].seen,
                                            ![s].leased = FALSE]
          /\ schedule' = [schedule EXCEPT ![s].state =
                IF @ = "completed" THEN @ ELSE worker[w].seen]
          /\ reserved' = IF worker[w].seen # "unknown" /\ reserved = s
                         THEN NoSchedule ELSE reserved
       \/ ~ OutcomePermits(w) /\ UNCHANGED <<schedule, execution, reserved>>
    /\ worker' = [worker EXCEPT ![w] = Idle]
    /\ UNCHANGED <<publication, sequence, started, production, approval,
                   approvals, post>>

-----------------------------------------------------------------------------
(* Publications of the site, whoever refreshes them. *)

NextStatus(status) ==
    CASE status = "requested" -> {"building", "unknown", "failed", "blocked"}
      [] status = "lapsed" -> {"building", "unknown", "failed", "blocked"}
      [] status = "unknown" -> {"building", "failed", "blocked"}
      [] status = "building" -> {"unknown", "live", "failed"}
      [] OTHER -> {}

Refresh(p, status) ==
    /\ status \in NextStatus(publication[p])
    /\ status \in Active => ReservationAllows(p)
    /\ publication' = [publication EXCEPT ![p] = status]
    /\ production' = IF status = "live" /\ sequence[p] > production
                     THEN sequence[p] ELSE production
    /\ UNCHANGED <<schedule, execution, reserved, sequence, started, approval,
                   approvals, post, worker>>

\* A person retries the deployment of a failed one: only the reservation of the
\* schedule's own live execution lets it through.
retryDeployment(s) ==
    /\ publication[s] = "failed"
    /\ Approved(s) /\ BaseIsHead(s)
    /\ NoActivePublication /\ ReservationAllows(s)
    /\ publication' = [publication EXCEPT ![s] = "requested"]
    /\ UNCHANGED <<schedule, execution, reserved, sequence, started, production,
                   approval, approvals, post, worker>>

\* The five minutes in which no revision may interleave with the commit.
CommitLeaseExpires(p) ==
    /\ publication[p] = "requested"
    /\ publication' = [publication EXCEPT ![p] = "lapsed"]
    /\ UNCHANGED <<schedule, execution, reserved, sequence, started,
                   production, approval, approvals, post, worker>>

\* A verified publication moves the post's aggregate, in sequence order only.
reconcileVerifiedBlogPostPublication(p) ==
    /\ publication[p] = "live"
    /\ sequence[p] > post.reconciled
    /\ post' = [post EXCEPT !.reconciled = sequence[p],
                            !.live = IF p \in Schedules THEN TRUE
                                     ELSE p = "other" /\ @]
    /\ UNCHANGED <<schedule, execution, reserved, publication, sequence,
                   started, production, approval, approvals, worker>>

\* Another revision of the site is published.
PublishOther ==
    /\ publication["other"] \in {"none"} \cup Ended
    /\ started < MaxPublications
    /\ NoActivePublication /\ reserved = NoSchedule
    /\ Begin("other", "requested")
    /\ UNCHANGED <<schedule, execution, reserved, production, approval,
                   approvals, post, worker>>

-----------------------------------------------------------------------------
(* Archiving: a live post is withdrawn by a publication of its own. *)

Unreconciled(p) == publication[p] = "live" /\ sequence[p] > post.reconciled

\* Mutant: an archive that trusts the aggregate before it is reconciled.
ArchivePermitsEarly ==
    /\ post.collection = "active"
    /\ \A p \in Publications \ {"other"} : publication[p] \notin Active
    /\ \A s \in Schedules : ~ InFlight(s)

ArchivePermits ==
    /\ post.collection = "active"
    /\ \A p \in Publications \ {"other"} :
          publication[p] \notin Active /\ ~ Unreconciled(p)
    /\ \A s \in Schedules : ~ InFlight(s)

CancelledByArchive == {s \in Schedules : schedule[s].state = "active"}

archive ==
    /\ post.version < MaxVersion
    /\ ArchivePermits
    /\ post' = [post EXCEPT !.version = @ + 1,
                            !.collection = IF post.live THEN "archiving"
                                           ELSE "archived"]
    /\ approval' = NoApproval
    /\ schedule' = [s \in Schedules |->
           IF s \in CancelledByArchive
           THEN [schedule[s] EXCEPT !.state = "cancelled"]
           ELSE ScheduleAfterInvalidation(UnderApproval)[s]]
    /\ execution' = ExecutionAfterInvalidation(UnderApproval)
    /\ reserved' = ReservationAfterInvalidation(UnderApproval)
    /\ UNCHANGED <<publication, sequence, started, production, approvals,
                   worker>>

\* The approved withdrawal is published and bound to the archive.
PublishWithdrawal ==
    /\ post.collection = "archiving"
    /\ publication["withdrawal"] \in {"none"} \cup Ended
    /\ started < MaxPublications
    /\ NoActivePublication /\ reserved = NoSchedule
    /\ Begin("withdrawal", "requested")
    /\ UNCHANGED <<schedule, execution, reserved, production, approval,
                   approvals, post, worker>>

confirmArchiveWithdrawal ==
    /\ post.collection = "archiving"
    /\ publication["withdrawal"] = "live"
    /\ ~ post.live
    /\ post' = [post EXCEPT !.collection = "archived", !.version = @ + 1]
    /\ UNCHANGED <<schedule, execution, reserved, publication, sequence,
                   started, production, approval, approvals, worker>>

\* The archived post comes back as an unpublished draft.
restore ==
    /\ post.collection = "archived"
    /\ post' = [post EXCEPT !.collection = "active"]
    /\ UNCHANGED <<schedule, execution, reserved, publication, sequence,
                   started, production, approval, approvals, worker>>

-----------------------------------------------------------------------------
Kinds == {"retrying for the scheduler", "retrying for a person"}

SchedulerStep(w) ==
    \/ \E s \in Schedules : claimDueSchedule(w, s)
    \/ \E s \in Schedules : retryExecutionForActor(w, s, "retrying for the scheduler")
    \/ claimSchedule(w) \/ RecheckClaim(w) \/ retryExecution(w)
    \/ StartPublication(w) \/ RetryPublication(w) \/ ResumePublication(w)
    \/ executionOutcome(w) \/ recordExecutionOutcome(w)

ScheduleNext ==
    \/ \E w \in Workers : SchedulerStep(w)
    \/ \E w \in Workers, s \in Schedules :
          retryExecutionForActor(w, s, "retrying for a person")
    \/ \E w \in Workers : Crash(w)
    \/ \E w \in Workers, seen \in {"blocked", "unknown"} : AdvanceThrows(w, seen)
    \/ \E s \in Schedules : LeaseExpires(s)
    \/ \E s \in Schedules : ComesDue(s)
    \/ approve \/ EditPost
    \/ \E s \in Schedules : saveSchedule(s)
    \/ \E s \in Schedules : cancelSchedule(s)
    \/ \E p \in Publications, status \in Active \cup Ended : Refresh(p, status)
    \/ \E s \in Schedules : retryDeployment(s)
    \/ \E p \in Publications : CommitLeaseExpires(p)
    \/ \E p \in Publications : reconcileVerifiedBlogPostPublication(p)
    \/ PublishOther
    \/ archive \/ PublishWithdrawal \/ confirmArchiveWithdrawal \/ restore

ScheduleSpec == ScheduleInit /\ [][ScheduleNext]_vars

-----------------------------------------------------------------------------
\* Every row has one of its states and every call one of its phases.
ScheduleTypeOK ==
    /\ schedule \in [Schedules ->
          [state : ScheduleStates, due : BOOLEAN, approval : 0..MaxApprovals,
           base : 0..MaxPublications, version : Nat]]
    /\ execution \in [Schedules ->
          [state : ExecutionStates, attempt : 0..MaxAttempts, leased : BOOLEAN]]
    /\ reserved \in Schedules \cup {NoSchedule}
    /\ publication \in [Publications -> {"none"} \cup Active \cup Ended]
    /\ sequence \in [Publications -> 0..MaxPublications]
    /\ started \in 0..MaxPublications
    /\ production \in 0..MaxPublications
    /\ approvals \in 0..MaxApprovals
    /\ approval \in [number : 0..MaxApprovals, base : 0..MaxPublications]
    /\ post \in [collection : {"active", "archiving", "archived"}, version : Nat,
                 live : BOOLEAN, reconciled : 0..MaxPublications]
    /\ worker \in [Workers ->
          [phase : {"idle", "claiming", "rechecking", "leased", "advancing",
                    "recording"} \cup Kinds,
           schedule : Schedules \cup {NoSchedule}, attempt : 0..MaxAttempts,
           seen : ExecutionStates]]

\* A publication a schedule owns begins only under the authority the schedule
\* was activated with: the approval valid, the site still at the approved base,
\* the post active and unchanged, the schedule claimed.
StartsUnderAuthority ==
    [][\A s \in Schedules :
          publication[s] = "none" /\ publication'[s] = "requested" =>
              CurrentAuthority(s) /\ schedule[s].state = "claimed"]_vars

\* Publications of the site never overlap.
OnePublication ==
    \A p, q \in Publications :
        publication[p] \in Active /\ publication[q] \in Active => p = q

\* The reservation, which refuses every other publication of the site, is held
\* only for an execution the scheduler still has to settle.
ReservationHasClaimant ==
    reserved # NoSchedule => execution[reserved].state \in {"claimed", "unknown"}
                             /\ schedule[reserved].state \in {"claimed", "unknown"}

\* A schedule and its execution tell the same story, but for a schedule
\* cancelled under a claim, whose execution is blocked; and one that is
\* recorded as completed published what it was scheduled for.
ScheduleAgreesWithExecution ==
    \A s \in Schedules :
        /\ execution[s].state = "completed" => publication[s] = "live"
        /\ schedule[s].state \in {"none", "active"} => execution[s].state = "none"
        /\ schedule[s].state = "cancelled" => execution[s].state \in {"none", "blocked"}
        /\ schedule[s].state \notin {"none", "active", "cancelled"} =>
              execution[s].state = schedule[s].state

\* An archived post is down and nothing scheduled can bring it back up.
ArchivedStaysDown ==
    post.collection = "archived" =>
        /\ ~ post.live
        /\ \A s \in Schedules : publication[s] \notin Active /\ ~ Unreconciled(s)

-----------------------------------------------------------------------------
(* Liveness: the scheduler keeps coming and is not cut off every time,       *)
(* publications end, and leases run out.                                     *)

CallGoesOn(w) == \/ SchedulerStep(w)
                 \/ \E seen \in {"blocked", "unknown"} : AdvanceThrows(w, seen)

FairScheduleSpec ==
    /\ ScheduleSpec
    /\ \A w \in Workers : /\ WF_vars(CallGoesOn(w))
                          /\ SF_vars(claimSchedule(w))
                          /\ SF_vars(retryExecution(w))
    /\ \A s \in Schedules : WF_vars(LeaseExpires(s))
    /\ \A p \in Publications :
          WF_vars(\E status \in Ended : Refresh(p, status))

\* A due schedule does not stay active: it is claimed, or its lost authority is
\* found out and it is cancelled.
DueIsTakenUp ==
    \A s \in Schedules :
        schedule[s].state = "active" /\ schedule[s].due ~> schedule[s].state # "active"

\* An execution left with an expired lease is taken up again or settled.
LeftBehind(s) == /\ execution[s].state \in {"claimed", "unknown"}
                 /\ ~ execution[s].leased
                 /\ execution[s].attempt < MaxAttempts

ExpiredLeaseIsReclaimed == \A s \in Schedules : LeftBehind(s) ~> ~ LeftBehind(s)

=============================================================================
