------------------------- MODULE CampaignBulkDelivery -------------------------
(***************************************************************************)
(* The bulk delivery of one campaign: an Owner authorizes a tested         *)
(* revision, schedules it or sends it now, and an executor prepares the    *)
(* audience, commits the artifact, opens one provider attempt and asks the *)
(* provider to send.  The answer may be lost, webhooks may come twice, in  *)
(* any order or never, executors may die and overtake one another.         *)
(*                                                                         *)
(* packages/application/src/campaign-bulk-delivery.ts                      *)
(* apps/reference-site/src/d1-campaign-bulk-state-store.ts                 *)
(* apps/reference-site/src/brevo-campaign-bulk-delivery-adapter.ts         *)
(* apps/reference-site/migrations/0023_campaign_bulk_delivery.sql          *)
(*                                                                         *)
(* A step of an executor ends at a durable write or at an answer of the    *)
(* provider.  A lease token is the executor that minted it; Gone is the    *)
(* token of an execution that is no more.                                  *)
(***************************************************************************)
EXTENDS Naturals, FiniteSets

CONSTANTS
    Recipients,     \* subscribers
    Schedules,      \* identifiers of schedules
    Executors,      \* handlers and cron runs that may execute at one time
    MaxRevision,    \* bound: revisions of the campaign
    MaxPosts,       \* bound: requests made to the provider
    MaxDisturbances,\* bound: edits, revocations, departures and reported facts
    Kinds,          \* kinds of delivery events the provider may report
    Events,         \* which disturbances an instance has
    None, Gone      \* no executor; an executor that is no more

ASSUME BulkAssumption ==
    /\ MaxRevision \in Nat \ {0} /\ MaxPosts \in Nat /\ MaxDisturbances \in Nat
    /\ None \notin Executors /\ Gone \notin Executors /\ None # Gone
    /\ None \notin Recipients /\ None \notin Schedules
    /\ "accepted" \in Kinds
    /\ Kinds \subseteq {"accepted", "unsubscribed", "invalid", "blocked"}
    /\ Events \subseteq {"crash", "overtake", "edit", "revoke", "reject",
                         "unread", "publish", "leave", "slow"}

VARIABLES
    revision,       \* campaigns.current_revision_id
    owner,          \* the Owner who reviewed the test is an active owner
    authorization,  \* campaign_bulk_authorizations, one per revision
    schedule,       \* campaign_bulk_schedules
    op,             \* campaign_bulk_send_operations, one per campaign
    active,         \* subscribers whose ledger state is active
    event,          \* campaign_bulk_delivery_events
    exec,           \* the executors
    post,           \* requests at the provider
    fact            \* what happened to the messages of a request

bulkVars == <<revision, owner, authorization, schedule, op, active, event,
              exec, post, fact>>

Revisions == 1..MaxRevision
Posts == 1..MaxPosts
OpStates == {"none", "preparing", "attempting", "ambiguous",
             "provider_queued", "sent", "failed", "blocked"}
uncertain == {"attempting", "ambiguous", "provider_queued"}

\* An operation: its revision and schedule, the lease and whether it is live,
\* the audience snapshot, the audience whose artifact is committed, the provider
\* send proof, the request that was verified (0 for none) and whether the report
\* lag has passed since updated_at.
Operation == [state : OpStates, revision : 0..MaxRevision,
              schedule : Schedules \cup {None},
              lease : Executors \cup {None, Gone}, live : BOOLEAN,
              snapshot : SUBSET Recipients, commit : SUBSET Recipients,
              proof : BOOLEAN, verified : 0..MaxPosts, lagged : BOOLEAN]

NoOperation == [state |-> "none", revision |-> 0, schedule |-> None,
                lease |-> None, live |-> FALSE, snapshot |-> {},
                commit |-> {}, proof |-> FALSE, verified |-> 0,
                lagged |-> FALSE]

Facts == Posts \X Recipients \X Kinds

\* An executor: what it uses of its copy of the row (the state, the verified
\* request, the age and the audience), whether it presents the lease of its
\* claim, the polled facts it has yet to record, the recipient it has yet to
\* suppress, the answer it holds, the request it verified, and whether the row
\* is still as it read it.
Executor == [pc : {"idle", "reconcile", "verify", "facts", "confirm", "claim",
                   "audience", "snapshot", "artifact", "begin", "send",
                   "answer", "release"},
             state : OpStates, verified : 0..MaxPosts, lagged : BOOLEAN,
             audience : SUBSET Recipients, held : BOOLEAN,
             facts : SUBSET Facts, owed : Recipients \cup {None},
             answer : {"none", "accepted", "ambiguous", "rejected"},
             post : 0..MaxPosts, fresh : BOOLEAN]

IdleExecutor == [pc |-> "idle", state |-> "none", verified |-> 0,
                 lagged |-> FALSE, audience |-> {}, held |-> FALSE, facts |-> {}, owed |-> None,
                 answer |-> "none", post |-> 0, fresh |-> FALSE]

BulkTypeOK ==
    /\ revision \in Revisions
    /\ owner \in BOOLEAN
    /\ authorization \in [Revisions -> {"none", "active", "consumed", "invalidated"}]
    /\ schedule \in [Schedules -> [state : {"none", "active", "claimed", "completed",
                                            "cancelled", "blocked", "missed"},
                                   revision : 0..MaxRevision,
                                   time : {"future", "due", "late"}]]
    /\ op \in Operation
    /\ active \subseteq Recipients
    /\ event \subseteq ({"webhook", "poll"} \X Facts)
    /\ exec \in [Executors -> Executor]
    /\ post \in [Posts -> [state : {"unused", "wire", "accepted", "reported", "gone"},
                           to : SUBSET Recipients]]
    /\ fact \subseteq Facts

BulkInit ==
    /\ revision = 1
    /\ owner = TRUE
    /\ authorization = [r \in Revisions |-> "none"]
    /\ schedule = [s \in Schedules |-> [state |-> "none", revision |-> 0,
                                        time |-> "future"]]
    /\ op = NoOperation
    /\ active = Recipients
    /\ event = {}
    /\ exec = [e \in Executors |-> IdleExecutor]
    /\ post = [n \in Posts |-> [state |-> "unused", to |-> {}]]
    /\ fact = {}

-----------------------------------------------------------------------------
\* The Owner's commands

\* The exact Owner authority every durable guard asks for.
Authorized(r) == r = revision /\ owner /\ authorization[r] = "active"

authorize ==
    /\ owner
    /\ authorization[revision] = "none"
    /\ \A r \in Revisions : authorization[r] # "active"
    /\ authorization' = [authorization EXCEPT ![revision] = "active"]
    /\ UNCHANGED <<revision, owner, schedule, op, active, event, exec, post, fact>>

\* Activating a schedule replaces the active one, and is refused beside a send.
activateSchedule(s) ==
    /\ Authorized(revision)
    /\ op.state = "none"
    /\ schedule[s].state = "none"
    /\ schedule' = [z \in Schedules |->
           IF z = s THEN [state |-> "active", revision |-> revision, time |-> "future"]
           ELSE IF schedule[z].state = "active"
                THEN [schedule[z] EXCEPT !.state = "cancelled"]
                ELSE schedule[z]]
    /\ UNCHANGED <<revision, owner, authorization, op, active, event, exec, post, fact>>

cancelSchedule(s) ==
    /\ schedule[s].state = "active"
    /\ Authorized(schedule[s].revision)
    /\ schedule' = [schedule EXCEPT ![s].state = "cancelled"]
    /\ UNCHANGED <<revision, owner, authorization, op, active, event, exec, post, fact>>

\* The active schedules of an authorization give way to an immediate send.
\* Mutant: the trigger on a new operation is missing.
CompetingKept == schedule

CompetingCancelled ==
    [s \in Schedules |->
        IF schedule[s].state = "active" /\ schedule[s].revision = revision
        THEN [schedule[s] EXCEPT !.state = "cancelled"] ELSE schedule[s]]

sendNow ==
    /\ Authorized(revision)
    /\ op.state = "none"
    /\ op' = [NoOperation EXCEPT !.state = "preparing", !.revision = revision]
    /\ schedule' = CompetingCancelled
    /\ UNCHANGED <<revision, owner, authorization, active, event, exec, post, fact>>

\* A write of the operation moves updated_at: every copy of the row held
\* elsewhere is stale, and the report lag starts again.
Touched(o) == [o EXCEPT !.lagged = FALSE]
OthersStale(e, x) ==
    [o \in Executors |-> IF o = e THEN x ELSE [exec[o] EXCEPT !.fresh = FALSE]]

\* Mutant: the trigger leaves an operation in preparation alone.
OperationUntouched == UNCHANGED <<op, exec>>

OperationBlocked ==
    IF op.state = "preparing"
    THEN /\ op' = Touched([op EXCEPT !.state = "blocked", !.lease = None, !.live = FALSE])
         /\ exec' = [e \in Executors |-> [exec[e] EXCEPT !.fresh = FALSE]]
    ELSE UNCHANGED <<op, exec>>

\* Bound: what disturbs an instance.  A lost Owner and a reported fact, which
\* brings handlers and records of its own, weigh two.
Disturbances ==
    (revision - 1) + Cardinality(Recipients \ active)
    + 2 * ((IF owner THEN 0 ELSE 1) + Cardinality({f \in fact : f[3] # "accepted"}))

Calm(weight) == Disturbances + weight <= MaxDisturbances

\* What an edit or a lost Owner takes away, in one transaction: the authority,
\* the schedules that rest on it and an operation still in preparation.
AuthorityInvalidated ==
    /\ authorization' = [r \in Revisions |->
           IF authorization[r] = "active" THEN "invalidated" ELSE authorization[r]]
    /\ schedule' = [s \in Schedules |->
           IF schedule[s].state \in {"active", "claimed"}
           THEN [schedule[s] EXCEPT !.state = "blocked"] ELSE schedule[s]]
    /\ OperationBlocked

EditCampaign ==
    /\ "edit" \in Events /\ revision < MaxRevision /\ Calm(1)
    /\ revision' = revision + 1
    /\ AuthorityInvalidated
    /\ UNCHANGED <<owner, active, event, post, fact>>

RevokeOwner ==
    /\ "revoke" \in Events /\ owner /\ Calm(2)
    /\ owner' = FALSE
    /\ AuthorityInvalidated
    /\ UNCHANGED <<revision, active, event, post, fact>>

-----------------------------------------------------------------------------
\* The scheduler's claim, and the entrances of an execution

Free(e) == exec[e] = IdleExecutor

ReadRow(o, held) ==
    IF o.state \in uncertain \cup {"sent"}
    THEN [IdleExecutor EXCEPT !.pc = "reconcile", !.state = o.state,
                              !.verified = o.verified, !.lagged = o.lagged,
                              !.audience = o.snapshot, !.fresh = TRUE]
    ELSE [IdleExecutor EXCEPT !.pc = "claim", !.held = held, !.fresh = TRUE]

\* The entrance to the claim, with nothing left of the reconciliation.
AtClaim(x) == [IdleExecutor EXCEPT !.pc = "claim", !.held = x.held, !.fresh = x.fresh]

\* A due schedule that is late, has no authority or meets a send is settled.
SettleDueSchedule(s) ==
    /\ schedule[s].state = "active" /\ schedule[s].time # "future"
    /\ \/ schedule[s].time = "late"
       \/ ~Authorized(schedule[s].revision) \/ op.state # "none"
    /\ schedule' = [schedule EXCEPT ![s].state =
                        IF schedule[s].time = "late" THEN "missed" ELSE "blocked"]
    /\ UNCHANGED <<revision, owner, authorization, op, active, event, exec, post, fact>>

\* Otherwise it is claimed with a new operation, whose lease the worker holds.
claimDueSchedule(e, s) ==
    /\ Free(e)
    /\ schedule[s].state = "active" /\ schedule[s].time = "due"
    /\ Authorized(schedule[s].revision)
    /\ op.state = "none"
    /\ schedule' = [schedule EXCEPT ![s].state = "claimed"]
    /\ op' = [NoOperation EXCEPT !.state = "preparing", !.schedule = s,
                                 !.revision = schedule[s].revision,
                                 !.lease = e, !.live = TRUE]
    /\ exec' = [exec EXCEPT ![e] = ReadRow(op', TRUE)]
    /\ UNCHANGED <<revision, owner, authorization, active, event, post, fact>>

\* Mutant: an attempt whose executor died is not looked for.
CandidateAnswered ==
    \/ op.state \in {"ambiguous", "provider_queued", "sent"}
    \/ op.state = "preparing" /\ ~op.live

\* The rows reconcilePending works on; an old sent row ages out of them.
ReconciliationCandidate ==
    \/ op.state \in {"ambiguous", "provider_queued", "sent"}
    \/ op.state \in {"preparing", "attempting"} /\ ~op.live

\* execute, called by the scheduler's reconciliation or by the Owner (after
\* sendNow, and by retrySend in any state).
execute(e) ==
    /\ Free(e)
    /\ \/ ReconciliationCandidate
       \/ op.state # "none" /\ owner /\ authorization[op.revision] = "active"
    /\ exec' = [exec EXCEPT ![e] = ReadRow(op, FALSE)]
    /\ UNCHANGED <<revision, owner, authorization, schedule, op, active, event,
                   post, fact>>

\* The token of an execution that ends is one nobody can present again.
LeaseAfter(e) == IF op.lease = e THEN [op EXCEPT !.lease = Gone] ELSE op

Finish(e) ==
    /\ op' = LeaseAfter(e)
    /\ exec' = [exec EXCEPT ![e] = IdleExecutor]

-----------------------------------------------------------------------------
\* Reconciliation with the provider's report

Reported == {n \in Posts : post[n].state = "reported"}

\* One message identifier per recipient: the report must show one request, for
\* exactly the recipients of the snapshot.
ReportVerifies(x) == \E n \in Posts : Reported = {n} /\ post[n].to = x.audience

\* Mutant: an empty report is believed at once.
SeesNothing(x) == Reported = {} /\ x.state \in {"attempting", "ambiguous"}

\* An empty report proves absence only after the lag allowance; what is queued
\* at the provider is never sent again.
ProvesAbsence(x) == Reported = {} /\ x.lagged /\ x.state \in {"attempting", "ambiguous"}

reconcileBulk(e) ==
    LET x == exec[e] IN
    /\ x.pc = "reconcile"
    /\ \/ /\ ReportVerifies(x)
          /\ \E n \in Reported :
               exec' = [exec EXCEPT ![e].pc = IF x.state = "sent" THEN "facts" ELSE "verify",
                                    ![e].audience = {}, ![e].lagged = FALSE,
                                    ![e].fresh = FALSE, ![e].post = n,
                                    ![e].facts = {f \in fact : f[1] = n}]
          /\ UNCHANGED op
       \/ /\ ProvesAbsence(x)
          /\ exec' = [exec EXCEPT ![e] = AtClaim(x)]
          /\ UNCHANGED op
       \/ /\ "unread" \in Events \/ ~(ReportVerifies(x) \/ ProvesAbsence(x))
          /\ Finish(e)
    /\ UNCHANGED <<revision, owner, authorization, schedule, active, event, post, fact>>

\* recordProviderOutcome of a verified report asks for no lease: it takes the
\* lease of whoever holds one.
recordVerified(e) ==
    LET n == exec[e].post IN
    /\ exec[e].pc = "verify"
    /\ IF /\ op.state \in uncertain
          /\ exec[e].verified \in {0, n}
          /\ op.verified \in {0, exec[e].verified}
       THEN /\ op' = Touched([op EXCEPT
                         !.state = IF @ = "attempting" THEN "ambiguous" ELSE @,
                         !.verified = n, !.lease = None, !.live = FALSE])
            /\ exec' = OthersStale(e, [exec[e] EXCEPT !.pc = "facts"])
       ELSE Finish(e)
    /\ UNCHANGED <<revision, owner, authorization, schedule, active, event, post, fact>>

Suppresses(k) == k \in {"unsubscribed", "invalid"}
campaignDeliveryAttemptedEventTypes == {"accepted", "unsubscribed"}

\* The first record of a fact is the one that owes its suppression.
OwedBy(source, f) ==
    IF <<source, f>> \notin event /\ Suppresses(f[3]) THEN f[2] ELSE None

recordPolledFact(e) ==
    /\ exec[e].pc = "facts" /\ exec[e].owed = None
    /\ IF exec[e].facts = {}
       THEN /\ IF exec[e].state = "sent" THEN Finish(e)
               ELSE exec' = [exec EXCEPT ![e].pc = "confirm"] /\ UNCHANGED op
            /\ UNCHANGED event
       ELSE \E f \in exec[e].facts :
            /\ event' = event \cup {<<"poll", f>>}
            /\ exec' = [exec EXCEPT ![e].facts = @ \ {f},
                                    ![e].owed = OwedBy("poll", f)]
            /\ UNCHANGED op
    /\ UNCHANGED <<revision, owner, authorization, schedule, active, post, fact>>

applyProviderSuppression(e) ==
    /\ exec[e].owed # None
    /\ active' = active \ {exec[e].owed}
    /\ exec' = [exec EXCEPT ![e] = IF @.pc = "idle" THEN IdleExecutor
                                   ELSE [@ EXCEPT !.owed = None]]
    /\ UNCHANGED <<revision, owner, authorization, schedule, op, event, post, fact>>

\* Authenticated webhook evidence that the message of request n was attempted.
Attempted(n) == {r \in Recipients : \E k \in Kinds \cap campaignDeliveryAttemptedEventTypes :
                                        <<"webhook", <<n, r, k>>>> \in event}

\* Mutant: one attempted message stands for all.
SomeEvidence(n) ==
    /\ op.proof /\ op.snapshot \cap Attempted(n) # {}
    /\ \A o \in Posts \ {n} : Attempted(o) = {}

EvidenceComplete(n) ==
    /\ op.proof /\ op.snapshot \subseteq Attempted(n)
    /\ \A o \in Posts \ {n} : Attempted(o) = {}

ScheduleCompleted ==
    [s \in Schedules |-> IF s = op.schedule /\ schedule[s].state = "claimed"
                         THEN [schedule[s] EXCEPT !.state = "completed"] ELSE schedule[s]]

confirmProviderAcceptance(e) ==
    LET n == exec[e].post IN
    /\ exec[e].pc = "confirm"
    /\ IF op.verified = n /\ op.state \in {"ambiguous", "provider_queued"} /\ EvidenceComplete(n)
       THEN /\ op' = Touched([op EXCEPT !.state = "sent", !.lease = None, !.live = FALSE])
            /\ exec' = OthersStale(e, IdleExecutor)
            /\ authorization' = [authorization EXCEPT ![op.revision] =
                                     IF @ = "active" THEN "consumed" ELSE @]
            /\ schedule' = ScheduleCompleted
       ELSE Finish(e) /\ UNCHANGED <<authorization, schedule>>
    /\ UNCHANGED <<revision, owner, active, event, post, fact>>

-----------------------------------------------------------------------------
\* A claimed execution

ClaimPermits(e) ==
    /\ op.state \in {"preparing", "attempting", "ambiguous", "failed", "blocked"}
    /\ \/ op.lease = None \/ ~op.live
       \/ exec[e].held /\ op.lease = e
    /\ Authorized(op.revision)

\* The claim is not conditional on the row being as it was read.  Without the
\* event "overtake" nobody writes the row between the reading and the claim.
claimOperation(e) ==
    /\ exec[e].pc = "claim"
    /\ ClaimPermits(e)
    /\ "overtake" \in Events \/ exec[e].fresh
    /\ op' = Touched([op EXCEPT !.state = IF @ \in {"failed", "blocked"} THEN "preparing" ELSE @,
                                !.lease = e, !.live = TRUE])
    /\ exec' = OthersStale(e, [IdleExecutor EXCEPT
                   !.pc = IF ~op.proof THEN "audience" ELSE "begin",
                   !.audience = IF op.proof THEN op.snapshot ELSE {}])
    /\ UNCHANGED <<revision, owner, authorization, schedule, active, event, post, fact>>

\* The source, the owner or the claim refuses: nothing is written.
ClaimRefused(e) ==
    /\ exec[e].pc = "claim"
    /\ Finish(e)
    /\ UNCHANGED <<revision, owner, authorization, schedule, active, event, post, fact>>

resolveAudience(e) ==
    /\ exec[e].pc = "audience"
    /\ exec' = [exec EXCEPT ![e].audience = active,
                            ![e].pc = IF active = {} THEN "release" ELSE "snapshot"]
    /\ UNCHANGED <<revision, owner, authorization, schedule, op, active, event, post, fact>>

\* A throw before the provider hands the executor's own lease back.
Throw(e) ==
    /\ exec' = [exec EXCEPT ![e] = [IdleExecutor EXCEPT !.pc = "release"]]
    /\ UNCHANGED op

\* Mutant: the commit survives a new artifact.
CommitKept(audience) == op.commit

\* A replacement artifact needs its own commit.
CommitFor(audience) == IF op.snapshot = audience THEN op.commit ELSE {}

saveAudienceSnapshot(e) ==
    /\ exec[e].pc = "snapshot"
    /\ IF op.lease = e /\ op.live /\ op.state = "preparing" /\ ~op.proof
       THEN LET commit == CommitFor(exec[e].audience) IN
            /\ op' = Touched([op EXCEPT !.snapshot = exec[e].audience, !.commit = commit])
            /\ exec' = OthersStale(e, [exec[e] EXCEPT
                           !.pc = IF commit = {} THEN "artifact" ELSE "begin"])
       ELSE Throw(e)
    /\ UNCHANGED <<revision, owner, authorization, schedule, active, event, post, fact>>

\* What a publication that did not commit leaves: uncertain, or refused.
UncommittedStates == {"preparing", "blocked"}

\* The artifact publisher's outcome, recorded under the lease.
recordArtifactPublication(e) ==
    /\ exec[e].pc = "artifact"
    /\ IF op.lease = e /\ op.state = "preparing"
       THEN \/ /\ op' = Touched([op EXCEPT !.commit = exec[e].audience])
               /\ exec' = OthersStale(e, [exec[e] EXCEPT !.pc = "begin"])
            \/ /\ "publish" \in Events
               /\ \E state \in UncommittedStates :
                    op' = Touched([op EXCEPT !.state = state, !.lease = None,
                                             !.live = FALSE])
               /\ exec' = OthersStale(e, IdleExecutor)
       ELSE Throw(e)
    /\ UNCHANGED <<revision, owner, authorization, schedule, active, event, post, fact>>

\* Mutant: the audience is not checked again.
BeginUnchecked(e) ==
    /\ op.lease = e /\ op.live /\ op.commit # {} /\ exec[e].audience = op.snapshot
    /\ op.state \in {"preparing", "attempting", "ambiguous"}

BeginPermits(e) ==
    /\ op.lease = e /\ op.live
    /\ op.commit # {}
    /\ op.state \in {"preparing", "attempting", "ambiguous"}
    /\ exec[e].audience = op.snapshot
    /\ op.snapshot \subseteq active

beginProviderAttempt(e) ==
    /\ exec[e].pc = "begin"
    /\ \E n \in Posts : post[n].state = "unused"
    /\ IF BeginPermits(e)
       THEN /\ op' = Touched([op EXCEPT !.state = "attempting", !.proof = TRUE])
            /\ exec' = OthersStale(e, [exec[e] EXCEPT !.pc = "send"])
       ELSE Throw(e)
    /\ UNCHANGED <<revision, owner, authorization, schedule, active, event, post, fact>>

releaseLease(e) ==
    /\ exec[e].pc = "release"
    /\ IF op.lease = e /\ ~op.proof
       THEN /\ op' = Touched([op EXCEPT !.lease = None, !.live = FALSE])
            /\ exec' = OthersStale(e, IdleExecutor)
       ELSE Finish(e)
    /\ UNCHANGED <<revision, owner, authorization, schedule, active, event, post, fact>>

\* The request leaves: it is taken over and answered, taken over with the answer
\* lost, refused, lost, or still under way when the caller stops waiting.
sendBulk(e) ==
    /\ exec[e].pc = "send"
    /\ \E n \in Posts :
         /\ post[n].state = "unused" /\ \A o \in 1..(n - 1) : post[o].state # "unused"
         /\ \E at \in {<<"accepted", "accepted">>, <<"accepted", "ambiguous">>,
                       <<"gone", "ambiguous">>, <<"wire", "ambiguous">>,
                       <<"gone", "rejected">>} :
              /\ at[2] = "rejected" => "reject" \in Events
              /\ post' = [post EXCEPT ![n] = [state |-> at[1], to |-> exec[e].audience]]
              /\ exec' = [exec EXCEPT ![e].pc = "answer", ![e].answer = at[2]]
    /\ UNCHANGED <<revision, owner, authorization, schedule, op, active, event, fact>>

\* Mutant: the provider's word is stored as the state.
AnswerAsState(answer) == answer

AnsweredState(answer) ==
    CASE answer = "accepted"  -> "provider_queued"
      [] answer = "ambiguous" -> "ambiguous"
      [] OTHER                -> "failed"

recordProviderOutcome(e) ==
    /\ exec[e].pc = "answer"
    /\ IF op.lease = e /\ op.state = "attempting"
       THEN /\ op' = Touched([op EXCEPT !.state = AnsweredState(exec[e].answer),
                                        !.lease = None, !.live = FALSE])
            /\ exec' = OthersStale(e, IdleExecutor)
       ELSE Throw(e)
    /\ UNCHANGED <<revision, owner, authorization, schedule, active, event, post, fact>>

-----------------------------------------------------------------------------
\* The provider, the readers, time and crashes

Arrive(n) ==
    /\ post[n].state = "wire"
    /\ post' = [post EXCEPT ![n].state = "accepted"]
    /\ UNCHANGED <<revision, owner, authorization, schedule, op, active, event, exec, fact>>

\* The report lists a request, one event per recipient at least.
ReportAppears(n) ==
    /\ post[n].state = "accepted"
    /\ post' = [post EXCEPT ![n].state = "reported"]
    /\ fact' = fact \cup ({n} \X post[n].to \X {"accepted"})
    /\ UNCHANGED <<revision, owner, authorization, schedule, op, active, event, exec>>

FactHappens(n, r, k) ==
    /\ post[n].state \in {"accepted", "reported"} /\ r \in post[n].to
    /\ k # "accepted" /\ <<n, r, k>> \notin fact /\ Calm(2)
    /\ fact' = fact \cup {<<n, r, k>>}
    /\ UNCHANGED <<revision, owner, authorization, schedule, op, active, event, exec, post>>

\* A webhook delivery of a fact, the first or a repeated one: it carries the
\* proof of the operation, and the first record of it owes its suppression.
ingestVerifiedEvent(e, f) ==
    /\ Free(e)
    /\ f \in fact /\ op.proof /\ f[2] \in op.snapshot
    /\ <<"webhook", f>> \notin event
    /\ event' = event \cup {<<"webhook", f>>}
    /\ exec' = [exec EXCEPT ![e].owed = OwedBy("webhook", f)]
    /\ UNCHANGED <<revision, owner, authorization, schedule, op, active, post, fact>>

\* A subscriber leaves by another way (the unsubscribe page, an administrator).
SubscriberLeaves(r) ==
    /\ "leave" \in Events /\ r \in active /\ Calm(1)
    /\ active' = active \ {r}
    /\ UNCHANGED <<revision, owner, authorization, schedule, op, event, exec, post, fact>>

ScheduleTimePasses(s) ==
    /\ schedule[s].state = "active" /\ schedule[s].time # "late"
    /\ schedule' = [schedule EXCEPT ![s].time = IF @ = "future" THEN "due" ELSE "late"]
    /\ UNCHANGED <<revision, owner, authorization, op, active, event, exec, post, fact>>

\* A lease lasts five minutes, a request thirty seconds; without the event "slow"
\* the lease is not lost while the executor waits for the answer.
LeaseExpires ==
    /\ op.live
    /\ \/ "slow" \in Events
       \/ \A e \in Executors : exec[e].pc \notin {"send", "answer"}
    /\ op' = [op EXCEPT !.live = FALSE]
    /\ UNCHANGED <<revision, owner, authorization, schedule, active, event, exec, post, fact>>

\* The lag allowance (15 minutes, three leases) passes for the row and for every
\* copy of it.  The code takes for granted that by then a request has been
\* answered or has timed out (30 seconds) and the provider reports what it took.
ReportLagPasses ==
    /\ op.state \in {"attempting", "ambiguous"} /\ ~op.lagged
    /\ \A e \in Executors : exec[e].pc \notin {"send", "answer"}
    /\ \A n \in Posts : post[n].state \notin {"wire", "accepted"}
    /\ op' = [op EXCEPT !.lagged = TRUE, !.live = FALSE]
    /\ exec' = [e \in Executors |->
           IF exec[e].pc = "reconcile" THEN [exec[e] EXCEPT !.lagged = TRUE] ELSE exec[e]]
    /\ UNCHANGED <<revision, owner, authorization, schedule, active, event, post, fact>>

Claimed == {"audience", "snapshot", "artifact", "begin", "send", "answer", "release"}

Crash(e) ==
    /\ "crash" \in Events /\ exec[e].pc \in Claimed
    /\ Finish(e)
    /\ UNCHANGED <<revision, owner, authorization, schedule, active, event, post, fact>>

-----------------------------------------------------------------------------
Step(e) ==
    \/ reconcileBulk(e) \/ recordVerified(e) \/ recordPolledFact(e)
    \/ applyProviderSuppression(e) \/ confirmProviderAcceptance(e)
    \/ claimOperation(e) \/ ClaimRefused(e) \/ resolveAudience(e)
    \/ saveAudienceSnapshot(e) \/ recordArtifactPublication(e)
    \/ beginProviderAttempt(e) \/ releaseLease(e) \/ sendBulk(e)
    \/ recordProviderOutcome(e)

Provider ==
    \/ \E n \in Posts : Arrive(n) \/ ReportAppears(n)
    \/ \E n \in Posts, r \in Recipients, k \in Kinds : FactHappens(n, r, k)

BulkNext ==
    \/ authorize \/ sendNow \/ EditCampaign \/ RevokeOwner
    \/ \E s \in Schedules : \/ activateSchedule(s) \/ cancelSchedule(s)
                            \/ SettleDueSchedule(s) \/ ScheduleTimePasses(s)
    \/ \E e \in Executors, s \in Schedules : claimDueSchedule(e, s)
    \/ \E e \in Executors : execute(e) \/ Step(e) \/ Crash(e)
    \/ \E e \in Executors, f \in fact : ingestVerifiedEvent(e, f)
    \/ Provider
    \/ \E r \in Recipients : SubscriberLeaves(r)
    \/ LeaseExpires \/ ReportLagPasses

BulkSpec == BulkInit /\ [][BulkNext]_bulkVars

\* Executors take their steps, the cron looks for candidates every few minutes,
\* time passes and the provider reports and delivers what it took over.  A
\* webhook is retried until a handler takes it, and handlers are not as few as
\* Executors, so its fairness is strong.
BulkFairness ==
    /\ \A e \in Executors : WF_bulkVars(Step(e))
    /\ SF_bulkVars(\E e \in Executors : execute(e) /\ ReconciliationCandidate)
    /\ WF_bulkVars(LeaseExpires) /\ WF_bulkVars(ReportLagPasses)
    /\ \A n \in Posts : WF_bulkVars(Arrive(n)) /\ WF_bulkVars(ReportAppears(n))
    /\ \A n \in Posts, r \in Recipients :
          SF_bulkVars(\E e \in Executors : ingestVerifiedEvent(e, <<n, r, "accepted">>))

FairBulkSpec == BulkSpec /\ BulkFairness

-----------------------------------------------------------------------------
\* Properties

Taken == {n \in Posts : post[n].state \in {"accepted", "reported"}}

\* The delivery implements the promise of CampaignSendOnce: whatever answers are
\* lost, executors die or webhooks repeat, the provider takes the campaign over
\* once, for the audience fixed before the first request, and only a campaign
\* taken over is reported sent (reconcileBulk's absence proof, claimOperation,
\* beginProviderAttempt and confirmProviderAcceptance together).
Once == INSTANCE CampaignSendOnce WITH
    audience <- IF op.proof THEN op.snapshot ELSE {},
    taken    <- Cardinality(Taken),
    handed   <- UNION {post[n].to : n \in Taken},
    reported <- op.state = "sent"

SendsOnce == Once!SendSpec

\* "When retry processing runs, it reconciles first and cannot call send again
\* until absence of a prior queue/send is proved": no request leaves while an
\* earlier one is under way or taken over.
ResendProvesAbsence ==
    [][\A n \in Posts : post[n].state = "unused" /\ post'[n].state # "unused"
           => \A o \in Posts : post[o].state \in {"unused", "gone"}]_bulkVars

\* The artifact in Git is the one of the audience in the row whenever a request
\* can exist, although the audience is resolved, saved and committed in three
\* steps that a second executor may repeat (saveAudienceSnapshot clears the
\* commit of another artifact).
CommittedAudienceIsSnapshot ==
    /\ op.commit \in {{}, op.snapshot}
    /\ op.proof => op.commit = op.snapshot /\ op.snapshot # {}

\* An operation opens its first provider attempt only while the Owner's
\* authority stands: beginProviderAttempt does not ask for it, the two
\* invalidating triggers have to take the operation out of preparation.
FirstAttemptAuthorized ==
    [][~op.proof /\ op'.proof => Authorized(op.revision)]_bulkVars

\* No active schedule is left beside a send operation, and a claimed one has its
\* operation, not sent and of the same revision: none is left claimed with
\* nothing to execute it.  The commands, the scheduler and three triggers each
\* keep one part of that.
SchedulesFollowSend ==
    \A s \in Schedules :
        /\ op.state # "none" => schedule[s].state # "active"
        /\ schedule[s].state = "claimed" =>
              op.schedule = s /\ op.revision = schedule[s].revision /\ op.state # "sent"

\* A campaign is reported sent only when one request was taken over for exactly
\* its snapshot and each of its messages was attempted.
SentWasReached ==
    op.state = "sent" =>
        \E n \in Taken : post[n].to = op.snapshot /\ op.snapshot \subseteq Attempted(n)

\* A reader is not on the list of a first request made after the reader left.
\* (The audience is read, saved, committed and only then sent.)
SuppressionWins ==
    [][~op.proof /\ op'.proof => op.snapshot \subseteq active]_bulkVars

\* A campaign the provider took over is reported sent in the end, whatever the
\* executor that asked for it lived to record.
TakenIsReported == Taken # {} ~> op.state = "sent"

===============================================================================
