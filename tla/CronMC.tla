-------------------------------- MODULE CronMC --------------------------------
(***************************************************************************)
(* What the cron of the Worker has to get done in the end: the list of the *)
(* outer gate, a due schedule of a post, a queued notification and a       *)
(* campaign the provider has taken over.  The four share no state, so that *)
(* a behaviour is one of theirs: duty says whose.                          *)
(***************************************************************************)
EXTENDS HumanAccess

CONSTANT MaxAccess  \* bound: callers busy, invitations and status changes made

VARIABLES
    duty,
    schedule, execution, reserved, publication, sequence, started, production,
    approval, approvals, post, worker,
    noticeJob, classification, payload, cron, emails, releases,
    revision, owner, authorization, bulkSchedule, op, active, event, exec,
    bulkPost, fact

\* One schedule of the post against an ordinary publication and an archive.
Post == INSTANCE BlogPostSchedule WITH
    Schedules <- {"s1"}, Workers <- {"w1"}, MaxAttempts <- 2, MaxPublications <- 2,
    MaxApprovals <- 1, MaxVersion <- 1

\* One submission under two overlapping runs.
Forms == INSTANCE FormNotification WITH
    Submissions <- {"m1"}, Crons <- {"k1", "k2"}, MaximumAttempts <- 2,
    MaxReleases <- 1, job <- noticeJob

\* One reader and one request of a campaign.
Bulk == INSTANCE CampaignBulkDelivery WITH
    Recipients <- {"r1"}, Schedules <- {"s1"}, Executors <- {"e1"},
    MaxRevision <- 1, MaxPosts <- 1, MaxDisturbances <- 3,
    Kinds <- {"accepted", "unsubscribed"}, Events <- {"crash", "revoke", "slow"},
    None <- "nobody", Gone <- "gone", schedule <- bulkSchedule, post <- bulkPost

postState == <<schedule, execution, reserved, publication, sequence, started,
               production, approval, approvals, post, worker>>
formsState == <<noticeJob, classification, payload, cron, emails, releases>>
bulkState == <<revision, owner, authorization, bulkSchedule, op, active, event,
               exec, bulkPost, fact>>
state == <<duty, accessVars, postState, formsState, bulkState>>

WithinBound ==
    Cardinality({c \in Callers : call[c].pc # "idle"})
    + Cardinality({i \in Invitations : invitation[i].status # "none"})
    + Cardinality(changes) <= MaxAccess

CronInit ==
    /\ duty \in {"access", "post", "forms", "campaign"}
    /\ AccessInit /\ Post!ScheduleInit /\ Forms!FormInit /\ Bulk!BulkInit

CronNext ==
    /\ UNCHANGED duty
    /\ \/ /\ duty = "access" /\ AccessNext /\ WithinBound'
          /\ UNCHANGED <<postState, formsState, bulkState>>
       \/ /\ duty = "post" /\ Post!ScheduleNext
          /\ UNCHANGED <<accessVars, formsState, bulkState>>
       \/ /\ duty = "forms" /\ Forms!FormNext
          /\ UNCHANGED <<accessVars, postState, bulkState>>
       \/ /\ duty = "campaign" /\ Bulk!BulkNext
          /\ UNCHANGED <<accessVars, postState, formsState>>

\* The fairness of each component, for the behaviours that are its own.  Nothing
\* that of the campaign is about is enabled before an Owner acts.
On(d, action) == duty = d /\ action

AccessIsFair ==
    /\ \A c \in Requests :
          WF_accessVars(On("access", ReconciliationStep(c) \/ OwnerCommand(c)))
    /\ WF_accessVars(On("access", ReconciliationStep(Cron)))
    /\ SF_accessVars(On("access", listPendingEligibilitySync(Cron, syncOutbox)))
    /\ SF_accessVars(On("access", listAccessEligibleEmails(Cron)))
    /\ SF_accessVars(On("access", putPolicy(Cron)))

PostIsFair ==
    /\ \A w \in {"w1"} : /\ WF_postState(On("post", Post!CallGoesOn(w)))
                         /\ SF_postState(On("post", Post!claimSchedule(w)))
                         /\ SF_postState(On("post", Post!retryExecution(w)))
    /\ \A s \in {"s1"} : WF_postState(On("post", Post!LeaseExpires(s)))
    /\ \A p \in Post!Publications :
          WF_postState(On("post", \E status \in Post!Ended : Post!Refresh(p, status)))

FormsAreFair ==
    /\ \A k \in {"k1", "k2"} :
          /\ WF_formsState(On("forms", Forms!CronStep(k)))
          /\ \A m \in {"m1"} : SF_formsState(On("forms", Forms!ClaimOf(k, m)))
    /\ \A m \in {"m1"} : WF_formsState(On("forms", Forms!ClaimLeaseExpires(m)))

CronSpec ==
    /\ CronInit /\ [][CronNext]_state
    /\ AccessIsFair /\ PostIsFair /\ FormsAreFair
    /\ Bulk!BulkFairness

-----------------------------------------------------------------------------
(* Properties of the components under the names they have there.             *)

\* A due schedule is claimed, or found to have lost its authority, in the end.
DueIsTakenUp == Post!DueIsTakenUp

\* A queued notification is settled in the end.
JobSettles == Forms!JobSettles

\* A campaign the provider took over is reported sent in the end.
TakenIsReported == Bulk!TakenIsReported
===============================================================================
