# A verification development of Foundry CMS

Foundry CMS is a website builder whose runtime is a Cloudflare Worker
(`apps/reference-site`) over D1 tables, whose application rules live in
`packages/application`, and whose published content is a Git branch that
Cloudflare builds and serves. What is hard in it is not computation but
coordination: every request is a short-lived handler that may die between any
two awaits, several handlers and a five-minute cron run at the same time, and
outside parties (GitHub, Cloudflare Builds, Cloudflare Access, Brevo) may
answer late, ambiguously or never.

This directory holds TLA+ models of that coordination, the TLC configurations
that check them on small instances, and proofs that TLAPS checks for every
instance.

| Module | Models | Checked by | Proved in |
|---|---|---|---|
| `ContentPublication` | the path from an approval to a verified release | `ContentPublicationMC` | `ContentPublicationProofs` |
| `CampaignSendOnce` | what a campaign promises its readers (abstract) | as `SendsOnce` | as `DeliverySendsOnce` |
| `CampaignBulkDelivery` | the bulk delivery of a campaign; implements `CampaignSendOnce` | `CampaignBulkMC`, `CronMC` | `CampaignBulkDeliveryProofs` |
| `BlogPostSchedule` | scheduling, publishing, archiving and restoring a post | `AuthoringMC`, `BlogPostScheduleMC`, `CronMC` | `BlogPostScheduleProofs` |
| `MediaAssets` | the media library: upload, place, crop, delete | `AuthoringMC` | `MediaAssetsProofs` |
| `FormNotification` | the notification of a form submission | `PlatformMC`, `CronMC` | `PlatformProofs` |
| `FormBackup` | the encrypted backup of the forms and its restore | `PlatformMC` | `PlatformProofs` |
| `EditorOutbox` | unsaved edits in the browser and their saves | `PlatformMC` | `EditorOutboxProofs` |
| `NewsletterSignup` | signup, confirmation and the subscriber ledger | `PlatformMC` | `NewsletterSignupProofs` |
| `HumanAccess` | memberships, invitations and the list of the outer gate | `PlatformMC`, `CronMC` | `HumanAccessProofs` |

## 1. Inventory

| Component | State it keeps | Operations | What is hard | What makes it correct |
|---|---|---|---|---|
| **Content publication** `content-publication.ts`, `d1-content-publication-store.ts`, `github-content-publisher.ts` | approvals and their invalidations, publications (status, detail, commit, lease, deployment id), one partial unique index over active rows | publish, refresh, retryDeployment, restorePublication, approve | a commit that lands after its handler died; a stale handler writing late; a build asked for twice; a slot held for ever; channel changes in the middle | one active publication; an approval moves production once, on the base it approved; no landed commit is lost sight of; at most one manual build open; the slot is released |
| **Content revisions** `content-revisions.ts`, `d1-content-revision-store.ts` | workspaces, revisions, page operations and their receipts | initialize, save, page operations, refresh of the base | two editors on one revision, replayed operations, a save during a publication | revisions are a chain; a replay is answered, not applied; a leased publication's revision does not move |
| **Content editor** `content-editor-outbox.ts`, `-persistence`, `-recovery`, `-history` | local outbox, acknowledged revision, undo history | edit, save, acknowledge, recover | an answer lost, a conflict, a document closed between two | no recorded edit is lost; nothing unseen is overwritten |
| **Campaign bulk delivery** `campaign-bulk-delivery.ts`, `d1-campaign-bulk-state-store.ts`, `brevo-campaign-bulk-delivery-adapter.ts` | authorizations, schedules, the send operation with its lease, audience snapshot, artifact and proof, delivery events | authorize, schedule, send now, claim, execute, reconcile, cancel, webhook | the provider's answer to a send is lost; webhooks out of order; two executors | a campaign is never sent twice; an uncertain send is reconciled |
| **Campaign authoring, tests, schedule requests** `campaign-application.ts`, `campaign-test-delivery.ts`, `campaign-schedule-proposals.ts` | drafts, revisions, test deliveries, proposals | save, test, propose, accept, decline | a proposal accepted for a changed draft | a proposal is decided once, for what it showed |
| **Blog posts** `blog-post-operations.ts`, `d1-blog-post-operations-store.ts` | lifecycle, schedules, executions, the reservation of the publication slot | publish, schedule, cancel, archive, restore, reconcile, retry | cron against human; a reservation whose publication failed | a reservation is held only for an execution somebody settles; an archived post stays down |
| **Human access** `human-access.ts`, `d1-human-access-store.ts`, `cloudflare-access-eligibility.ts` | members, roles, identities, invitations, a sync outbox, the list at Cloudflare | invite, claim, suspend, revoke, change role, reconcile | concurrent demotions; overlapping reconciliations that put different lists | a site keeps an Owner; nobody is invited in vain; the gate follows |
| **Public forms, notifications, privacy** `public-form*.ts`, `d1-public-form-*-store.ts`, `encrypted-r2-form-backup-vault.ts` | submissions, notification jobs, erasures, backups, restore verifications | submit, classify, claim, notify, replay, erase, back up, restore | a run that dies after the e-mail left; a backup by a run that lost its lease; two restores at once | one e-mail per release; an erased submission stays erased; a recorded backup can be restored |
| **Subscribers, newsletter signup** `subscriber-ledger.ts`, `newsletter-signup.ts` | consent and suppression per address, signup requests, confirmation jobs | sign up, confirm, unsubscribe, provider events, erase | a confirmation that is retried or continued after an unsubscribe | suppression wins; confirmed means consent |
| **MCP connections, drafts, publications** | OAuth connections, scopes, receipts | authorise, refresh token, revoke, draft and publish tools | a tool call running while its connection is revoked | no effect after a revocation; a retried call has one effect |
| **Media assets** `media-assets.ts`, `d1-media-asset-store.ts`, `r2-media-source-store.ts` | assets, deletions, revisions of an occurrence, claims and receipts of requests; objects in R2 | upload, replace, crop, delete, replay | a claim that runs out under a slow request; a deletion beside a placement; a death between row and bucket | a photo in use is whole; a request is carried out once and answered truly |
| **Analytics, operator CLI** | projections; a provisioning journal | project; provision, resume | a resumed run | a step is not repeated |
| **Site definition, rendering, interface** | none | validation, rendering | none | pure functions |

Interactions: a saved **revision** invalidates the **approvals** of its
workspace by a trigger, and a trigger refuses the revision while a publication
of the workspace holds a live lease. **Blog** schedules and **MCP** tools enter
the publication pipeline through the same `publish`, with an authority that may
be revoked in the middle; a schedule's reservation keeps every other
publication out. **Human access** supplies that authority to everyone. The
audience of a **campaign** is the active part of the **subscriber ledger**,
which signups, webhooks and Owners write. The cron of `custom-worker.ts` drives
blog schedules, bulk deliveries, form notifications, confirmation messages,
backups and the reconciliation of the outer gate; the dashboard polls the
active publication.

## 2. Plan

Done: the publication; the campaign with its abstract specification and the
refinement; the schedule of a post; the media library; forms, backups, editor,
signup and access, each with safety properties, and liveness where the cron owes
something. Every module has its inductive invariants and theorems, and every
safety property of a passing run is a theorem, some of them under a condition
that the run meets (section 15).

Left, in the order of what it would show:

1. `restorePublication` and the receipts of MCP tools in front of
   `ContentPublication`;
2. campaign test deliveries, which repeat the shape of the bulk delivery.

## 3. Conventions of the modules

* A handler, a cron run or a document is a sequence of steps of one caller. A
  step ends at a durable write or at a call to a provider, because that is
  where a death or another caller can be told apart; reads that only feed a
  guarded write are taken with it. One D1 transaction is one step, with its
  triggers.
* What a caller read earlier is kept with the caller (`call`, `exec`, `worker`,
  `cron`, `run`, `operator`, `tab`, `visit`, `mailer`), so that it can be stale.
* A death (`Crash`, `CronDies`, `RunDies`, `CallerDies`, `close`, ...) drops what
  the caller holds and nothing else.
* A lease is a live/expired flag and the token of its holder; an expired lease
  keeps its token until somebody overwrites it, as the row does.
* Contents, names, times of day, wording and audit rows are gone unless a
  property tells them apart.
* Operators that a comment calls a mutant are not used by the model: each is a
  plausible error in one definition, and the property it is paired with in
  `PROJECT.json` fails with it.

## 4. ContentPublication

### State

| Variable | In the code |
|---|---|
| `workspace` | `content_workspaces`: the production base a workspace was opened on, the number of its current revision |
| `approval` | `content_approvals`, `content_approval_invalidations`: current or invalidated, for which workspace, revision and channel |
| `pub` | `content_publications`, one row per idempotency key |
| `call` | the handlers running now: where each is, its copy of the row and what it will do next |
| `branch` | the production branch; each commit is named by the publication whose publish id it carries, `None` for a foreign one |
| `wire` | `createCommitOnBranch` requests GitHub has not answered; a request of a dead caller stays, under `None` |
| `live`, `released` | the commit the public marker names now, and all it ever named |
| `build`, `dispatches` | the automatic build of each commit, and the manual builds asked for |
| `channel` | the build trigger's configuration, 0 as approved or 1 changed |

Data the properties do not tell apart is gone: content, hashes, titles, audit
events and the wording of errors. A commit is its position on the branch, a
revision its number, a lease token the handler that holds it. Time is kept as
three facts a row or a handler has: `leased` (the lease expires in the future),
`age` (0, 1 after the one-minute dispatch limit, 2 after the fifteen-minute
signal limit) and `fresh` (nobody wrote the row since this handler read it,
which is what `expectedUpdatedAt` compares).

### Actions

* `publish` → refresh of the active publication → `PublishPreflight` →
  `claimPublication` → `PublishGuard` → `PublishRecheck` → `CreateCommitCheck` →
  `CreateCommitPost` → answer → `RevokeApproval` / `SettleCommit`.
* `refresh` → one of `RefreshChannelVeto`, `RefreshDispatching`,
  `RefreshReconcile`, `RefreshAmbiguousDispatch`, `RefreshDeployment` →
  `WriteRow`.
* `retryDeployment` → `RetryReconcile` → `claimFailedPublicationRetry` → the
  commit steps again; or `RetryLive` → `RetryHead` → `DispatchClaim` →
  `DispatchCheck` → `AssertDispatch` → `DispatchBuild` → `BuildAnswer` →
  `SettleBuild`.
* Writes go through `UpdateFresh`, `UpdateLeased` and `DispatchWrite`, which
  are `updatePublication` with the options its callers pass; all three end in
  `Store`, which moves `updated_at`.
* GitHub commits or refuses a request on the wire as a compare-and-swap on the
  head, with or without its caller still waiting; builds progress and go live;
  commits of others arrive; the clock ends leases and deadlines; a handler
  dies.

`Events` says which of the disturbances an instance has: `crash`, `late`
(GitHub is slower than the 30-second limit of the request), `channel`,
`external` (foreign commits), `authority` (a grant is lost in the middle),
`edits`, `builds` (automatic builds make progress), `errors` (a provider cannot
be read or fails).

### Assumptions about time

`LeaseExpires` and `TimePasses` wait while a request of the publication is on
the wire: GitHub finishes a request it has received before the five-minute
lease and the fifteen-minute limit end. The second minute mark also waits for
the lease. The one assumption the code does not enforce is the first; the run
`publication_late_commit` shows what the code does about a request that outlives
its caller even so.

### Properties

| Property | Says | Hazard it is for |
|---|---|---|
| `OneActivePublication` | one publication at most holds the slot | claims, retries and dispatches of several workspaces race |
| `OneExactCommit` | an approval is committed once, on the commit it approved; the recorded commit is the publication's | retries and late requests |
| `LandedCommitAccounted` | a commit on the branch is recorded, or its publication still says that it may be there | a handler that dies after GitHub's success |
| `LandsUnderLease` | a commit lands only while its publication is leased and its revision current | an edit or a stale holder between guard and request |
| `HistoryIsKept` | a recorded commit stays; verified and blocked are final; only a retry revives a failure | stale writes |
| `NoSecondBuild` | one manual build at most is open | ambiguous build requests |
| `OpenBuildIsFenced` | an open build leaves its mark on the row | crash between request and write; observations that overwrite evidence |
| `VerifiedWasServed` | what is called verified live was served | stale marker reads |
| `SlotIsReleased` | every active publication ends | dead handlers, unreadable providers |

## 5. CampaignBulkDelivery and CampaignSendOnce

`CampaignSendOnce` is the promise: an audience is fixed, the provider takes the
campaign over at most once and for that audience, and "sent" is said only
after. `CampaignBulkDelivery` is how the code keeps it; its property `SendsOnce`
is the abstract specification under the refinement mapping `Once` (the audience
is the snapshot once the operation has its send proof; what was taken are the
requests the provider accepted).

| Variable | In the code |
|---|---|
| `revision`, `owner` | the campaign's current revision; whether its Owner is an active one |
| `authorization` | `campaign_bulk_authorizations` |
| `schedule` | `campaign_bulk_schedules`, with due and missed times |
| `op` | `campaign_bulk_send_operations`: state, lease, audience snapshot, the audience whose artifact is committed, send proof, verified request, lag |
| `active` | the subscribers whose ledger state is active |
| `event` | `campaign_bulk_delivery_events`, by webhook or by poll |
| `exec` | what each executor read and is about to do |
| `post`, `fact` | the requests at Brevo and what happened to their messages |

An executor goes `execute` → `reconcileBulk` (with `recordVerified`,
`recordPolledFact`, `applyProviderSuppression`, `confirmProviderAcceptance`) →
`claimOperation` → `resolveAudience` → `saveAudienceSnapshot` →
`recordArtifactPublication` → `beginProviderAttempt` → `sendBulk` →
`recordProviderOutcome` or `releaseLease`. Owners `authorize`,
`activateSchedule`, `cancelSchedule` and `sendNow`; the cron claims and settles
due schedules; `EditCampaign` and `RevokeOwner` carry the triggers that
invalidate the authority. `Arrive`, `ReportAppears`, `FactHappens` and
`ingestVerifiedEvent` are the provider: a request may arrive after its
executor gave up, a report comes some time after, webhooks come in any order
and again.

Assumptions: a request is answered or timed out (30 seconds), and a request
taken over is reported, before the lag allowance of 15 minutes ends
(`ReportLagPasses`); a lease is not lost while the executor waits for the
answer, unless the instance has the event `slow`. `Events` is read as in
`ContentPublication`; the event `overtake` allows another executor to write
the row between an executor's reading and its claim. `campaign_bulk` is without
it and `campaign_resend` shows what the code does with it.

| Property | Says | Hazard it is for |
|---|---|---|
| `SendsOnce` | the delivery implements `CampaignSendOnce` | lost answers, dead executors, an empty report taken for proof |
| `CommittedAudienceIsSnapshot` | the committed artifact is that of the audience in the row | two executors repeat the three steps of preparation |
| `SchedulesFollowSend` | no active schedule beside a send; a claimed one has its operation | send now against the scheduler's claim |
| `SentWasReached` | reported sent only when one request for the snapshot had every message attempted | duplicated and reordered events |
| `FirstAttemptAuthorized` | a first attempt opens only under standing authority | edit or revocation during preparation |
| `SuppressionWins` | nobody who left before the first attempt is on its list | the audience is read three steps earlier |
| `TakenIsReported` (`cron_liveness`) | what the provider took over is reported sent in the end | executors die, answers are lost |

## 6. BlogPostSchedule and MediaAssets

### BlogPostSchedule

One post, its schedules, one other publication of the site and the publication
that withdraws the post. `ContentPublication` says what happens inside a
publication; here it has a status that moves as `Refresh`, `retryDeployment`
and `CommitLeaseExpires` let it.

| Variable | In the code |
|---|---|
| `schedule`, `execution`, `reserved` | `blog_post_publication_schedules`, `_executions`, `_reservations` with the attempt and lease |
| `publication`, `sequence`, `started`, `production` | `content_publications`: status, the order reconciliation follows, the latest verified one |
| `approval`, `approvals` | the workspace's current approval and the base it approves |
| `post` | collection state, version, whether it is up, what it was last reconciled with |
| `worker` | the calls of the scheduler or of a person's retry |

`ComesDue` → `claimDueSchedule` (which validates the authority) →
`claimSchedule` (with its triggers) → `RecheckClaim` → `StartPublication`,
`ResumePublication` or `RetryPublication` by the holder of the lease →
`executionOutcome` → `recordExecutionOutcome`; `retryExecution` takes over an
execution whose lease ran out, or, through `retryExecutionForActor`, one that
failed; its reading and its write are one step. `EditPost`, `approve`,
`saveSchedule`, `cancelSchedule`, `archive`, `PublishWithdrawal`,
`confirmArchiveWithdrawal`, `restore` are the commands. Approval and revision
are folded because there is one workspace; a lease token is an attempt number;
the production head moves by publications of the CMS only; the other
publication does not carry the post.

| Property | Says | Hazard it is for |
|---|---|---|
| `OnePublication` | publications of the site never overlap | schedule, ordinary publication, retried deployment and withdrawal compete |
| `StartsUnderAuthority` | a scheduled publication begins under the authority it was scheduled with | the check is earlier than the claim |
| `ReservationHasClaimant` | the reservation is held for an execution somebody still has to settle | an edit under a claim |
| `ScheduleAgreesWithExecution` | a schedule and its execution tell one story, and completed means published | late outcomes of calls that lost the lease |
| `ArchivedStaysDown` | an archived post is down and nothing scheduled brings it up | a publication verified but not yet reconciled |
| `DueIsTakenUp` (`cron_liveness`) | a due schedule is claimed or found to have lost its authority | other publications and reservations in the way |

### MediaAssets

| Variable | In the code |
|---|---|
| `asset`, `reservation` | `media_assets` and `media_asset_deletions` |
| `revisions` | `media_occurrence_revisions` of one occurrence |
| `mediaClaim`, `receipt` | `media_mutation_claims` and `media_mutation_receipts` |
| `bucket` | the source and the thumbnail of each asset in R2 |
| `pc`, `key`, `body` | the attempts: where each is, its idempotency key and its request |

Every command goes `replayMutation` → `admit` → `claimMutation` → `insertClaim`
or `takeOver` → `racedReceipt` → `renewClaim` and then an upload `loadExisting` →
`put` → `putVariant` → `createAsset` or `record`, a replacement or crop
`cropCurrent` → `saveOccurrence`, a deletion `getStoredAsset` → `reserve` or
`adopt` → `tombstoneAssetDeletion` → `deleteObject` (twice) →
`completeAssetDeletion`. `RenewalTimer` is the ten-second timer,
`MediaClaimExpires` its absence for thirty seconds; an attempt whose claim was
taken over goes on until a statement asks for the claim. A call to the bucket
may fail before or after it took effect, and an attempt may die anywhere. A
photo is its hash, a crop only its kind.

| Property | Says | Hazard it is for |
|---|---|---|
| `LibraryIsWhole` | a photo the catalogue shows is in the bucket and is the one its row names; one that a revision used is neither deleted nor being deleted | a deletion and a placement at once, an object written by an attempt that lost its claim |
| `AnsweredIsDone` | a request is carried out once at most, and a success reported was one | attempts that overlap under one key, a receipt written late |

## 7. FormNotification

`job` is the row of `public_form_notification_jobs`, `classification` and
`payload` that of the submission, `cron` the runs; `emails` and `releases` count
what left and what was asked for. A run goes `claimDue` (which first fails
expired claims) → `ReadBatch` → `notify` and `recordOutcome` for each job of its
batch; the owner's commands are `classifySubmission`, `releaseSuspectedSpam`,
`replayFailed` and `eraseSubmissionPayload`; `applyRetention` erases old
submissions. The adapter that sends is outside the model: it answers sent,
retry, permanent failure or nothing, whether or not the e-mail left. Due times
and the age of a submission are free. A run that was slow may go on to send a
job from memory after its claim expired and the submission was erased; the
code does that too.

| Property | Says | Hazard it is for |
|---|---|---|
| `NoUnaskedResend` | as many e-mails at most as times the job was put in the queue | death or slowness after the e-mail left |
| `JobFollowsSubmission` | only an accepted submission with its fields is queued or claimed; an erased one leaves nothing to replay | erasure and reclassification under a claim |
| `JobSettles` (`cron_liveness`) | a queued notification is settled in the end | a dead run with a whole batch |

## 8. FormBackup

`records`, `claim`, `objects` are the rows and the bucket of the backup; `stage`,
`target`, `mirrored` those of a restore. A run goes `deleteExpired` →
`latestBackupAt` → `claimBackup` → `saveEncrypted` → `recordBackup`, days pass
and retention forgets. A restore goes `readDecrypted` →
`restoreBackupSnapshot` → `StageSnapshot` → `CompareStage` → `Promote` →
`recordRestoreVerification` → `clearRestoredSnapshot` → `ClearTarget`. Every
snapshot holds a submission, time has the granularity of a day, the
fifteen-minute lease is far shorter, and the retention of restore
verifications is left out.

`RecordedIsRestorable`: until it expires, the object a record names is in the
bucket with the content it vouches for, although a run that lost its lease may
write at any time. `TargetIsVerified`: the recovery database is empty or holds
exactly the snapshot its verification names, whatever a second restore staged.

## 9. EditorOutbox

`tab` is a document with what is on screen and the save it has under way,
`outbox` the record each scope keeps in the browser's storage, `history`,
`receipts`, `refused` and `requests` the server and the attempts on the wire;
`recorded`, `raced` and `seen` are what the properties remember. Edits and undo
change the screen; `snapshot` records; `save` records an attempt and sends it;
`persist` is the server, also after the document gave the request up;
`acknowledge`, `revisionConflict`, `fieldsInvalid` and `saveFails` are the
answers; `open`, `listRecords`, `read` and `resolveRecoveryConflict` recover
the records of closed scopes. The Web Lock that the code takes for listing,
beginning and ending a save is `LockIsFree`; the copy after an edit takes none.

`SettledEditSurvives`: an edit the outbox took is in a record or in a revision
until its owner gives it up. `ReplacesOnlySeen`: a revision replaces a value
only where its owner saw the old one.

The first leaves out edits recorded while another document is reading the
outbox. With them TLC finds the loss: a document lists the records, another
records a newer edit and is closed before the first asks whether its scope is
live, and the older record replaces the newer (`content-editor-persistence.ts:298`
against `ADR-0004-draft-preview-publish-pipeline.md:251`).

The checks whether several scopes are live are one step, the attempt taken
from several records is any of them (the code takes the latest), a scope
without a record stands for a new one, and a reload is a close and an open.

## 10. NewsletterSignup

`request` and `confirmation` are a signup and its message, `subscriber` and
`events` the ledger, `visit` the requests of visitors, `mailer` the runs of the
cron, `mail` what left. A visitor's request supersedes earlier ones;
`confirmSignup` → `findByIdentityKey` → `createWithEvent` or `appendEvent` →
`settlePendingSignup` is the confirmation, which is only as atomic as that;
`ingestSuppressionByIdentityKey` and `OwnerWrites` write the ledger beside it;
a mailer goes `expirePendingSignups` → `settleLapsed` →
`claimDueConfirmationJobs` → `readClaimed` → `send` →
`recordConfirmationOutcome`. The address of a request is fixed at the start,
an identity key is its address, retry windows are free, and an Owner's command
is one step because its guard is repeated in the statement.

| Property | Says | Hazard it is for |
|---|---|---|
| `ConfirmedHasConsent` | a confirmed request has its consent in the ledger | erasure or a death between the steps |
| `SuppressionHolds` | a suppressed address becomes active only by a consent written in that step; an erased one never | a link confirmed again after an unsubscribe |
| `NoUnrequestedMessage` | one message per request, whatever runs die or are slow | a lease that ran out after the message left |

Observed, and not counted as a violation because the repository does not
decide it: a complaint between a confirmation's reading and its write is
overwritten by the consent (`newsletter-signup.ts:290`
and `ADR-0002-default-newsletter-delivery-adapter.md:73` speak against it); the comment at `brevo-newsletter-confirmation-sender.ts:90` calls
an outcome never learned a failure while the catch answers `retry`, so that a
lost answer does lead to a second message (which is why `mail` counts only
messages without such an answer).

## 11. HumanAccess

`member`, `identity`, `invitation` and `syncOutbox` are the tables, `access` the
e-mail list at Cloudflare, `call` the requests and the cron. An Owner's command
asks for the capability in one step (`requireCapability`) and writes in the
next; `PreservesOwner` is the trigger that counts the active Owners. A
reconciliation goes `listPendingEligibilitySync` → `listAccessEligibleEmails` →
`putPolicy` → `verifyPolicy` → `CompareEmails` (again, up to
`maximumEligibilitySyncAttempts`) → `markEligibilitySynchronized`, and works
with the clock it read at its start (`late`). A test delivery may refuse a
change; which operations are due is free. The model begins after the bootstrap,
with one active Owner.

| Property | Says | Hazard it is for |
|---|---|---|
| `OwnerCanSignIn` | there is an active Owner with a bound subject | Owners demote and revoke each other at once |
| `GrantIsConfirmed` | an invitation is announced only by a caller whose list held its address | an invitation between reading and marking, a list put by another |
| `GateFollows` (`cron_liveness`) | over and over the list is that of the eligible people | the last list was put by a stale caller that died |

## 12. The runs

| Run | Instance | Distinct states |
|---|---|---|
| `publication_commit` | 1 workspace, 1 approval, 2 publications, 2 callers, 1 edit, 1 commit; crash, external, edits, errors | 1.1 million |
| `publication_dispatch` | 1 publication, 2 callers, 2 manual builds; builds, errors, authority | 1.7 million |
| `publication_workspaces` | 2 workspaces, 2 approvals, 2 publications, 1 caller, 2 commits; late, builds, crash | 0.5 million |
| `publication_liveness` | 1 workspace, 1 approval, 2 publications, 1 caller, 1 manual build; crash, channel, errors | 54 thousand |
| `campaign_bulk` | 2 recipients, 2 executors, 1 schedule, 2 revisions, 2 requests, 2 disturbances; everything but overtake and slow | 1.9 million |
| `blog_schedule` | 2 schedules, 2 calls, 2 publications, 2 attempts, 1 approval, 2 versions; beside it 2 attempts at requests of the library, 2 keys, 1 asset, 2 photos, 2 revisions | 0.8 million |
| `platform` | five services, below | 0.8 million |
| `cron_liveness` | four duties of the cron, below | 25 thousand |
| `publication_channel_veto`, `publication_late_commit`, `campaign_resend`, `blog_stuck_reservation` | the one disturbance each needs | until violated |

`PlatformMC` puts `FormNotification`, `FormBackup`, `EditorOutbox`,
`NewsletterSignup` and `HumanAccess` side by side, `CronMC` does so with
`HumanAccess`, `BlogPostSchedule`, `FormNotification` and
`CampaignBulkDelivery`. The services share no table that their properties read,
so that interleaving them would multiply states and show nothing: `service` (and
`duty`) is chosen in the initial state and says whose behaviour this is. `AuthoringMC`
does the same with `BlogPostSchedule` and `MediaAssets`, whose calls and keys
share their values so that one symmetry serves both. In
`platform`: 1 submission under 2 runs with 3 releases (28 thousand states);
2 backup runs and 2 restores over 2 days, a backup kept for 1 (210 thousand);
3 scopes and 2 fields, 2 values, 2 saves, at most 4 of scopes and saves together
and 2 documents open at a time (502 thousand); 1 signup, 2 visits, a mailer, a provider's report and two
commands, 3 of them at a time (39 thousand); 2 members, 2 invitations, 2
subjects, a request and the cron, 3 of callers, invitations and changes (42
thousand).

Why these bounds: two callers are enough for every race between a holder and
one that overtakes it, since every guard compares the row with one copy; two
publications of one approval give the replayed and the restarted attempt; two
workspaces or schedules give the contention for the slot; two requests are what
"sent twice" speaks of; two recipients separate one who leaves from one who
stays; two revisions an authority from its successor; three documents, two of
them open at a time, are the one that closes, the one that recovers and the one
that comes between; three
releases let a job be queued again after a replay; two attempts at requests of
the library are the one that lost its claim and the one that took it, and two
photos tell an object from the one expected. `MaxDisturbances` counts
edits, revocations, departures and reported facts together. It is what keeps
`campaign_bulk` within minutes; each pair of disturbances does meet. The
questions are divided between the runs because all disturbances together
multiply what they do not have in common.

Symmetry is used in safety runs only. Deadlock is not checked: when every bound
is reached and no handler runs the instance has nothing left to do, as has a
site nobody uses.

## 13. Fairness

* `SlotIsReleased` under `FairSpec`: the dashboard polls an active publication
  every 2.5 to 30 seconds while it is open (`content-publication-client.ts`) and
  a later publish refreshes it too: strong fairness of `refresh`, and of a polled
  refresh reaching its write, which a crash may cut short but not for ever. A
  started handler takes its next step (weak fairness; `Crash` may take it
  instead). GitHub ends each request, and time goes on. No fairness is assumed of
  a retry.
* `GateFollows`: the cron comes every five minutes. Weak fairness of its steps
  and of a request's, strong fairness of listing and putting, since a run may be
  cut off or a call to Cloudflare fail, but not every time. One run of the cron
  at a time.
* `DueIsTakenUp`: weak fairness of a call's steps, leases and publications,
  strong fairness of the claim and the retry, which others' publications keep
  disabling.
* `JobSettles`: weak fairness of a run's steps and of leases; strong fairness
  of a job being in a claimed batch: the oldest due jobs go first and a run may
  die.
* `TakenIsReported`: weak fairness of the executor's steps, of time and of the
  provider; strong fairness of the reconciliation the cron starts and of a
  webhook, which the provider repeats. One executor, so that it says nothing
  about two that keep each other from their work.

In `CronMC` each of these conditions holds only in the behaviours of its duty
(`On`); those of the campaign need no guard because nothing they are about is
enabled in the initial state of another duty.

Not checked: that signups expire and messages leave in the end, that a restore
ends, that an editor's save is acknowledged.

## 14. Where the code and its documentation differ

Four runs show, with a trace, a sentence of the documentation the code does not
keep; `PROJECT.json` quotes them.

* `publication_channel_veto`: a publication whose handler died has no detail
  yet, so `contentPublicationHasUnresolvedGitOutcome` is false and a changed
  channel makes it failed before its commit is looked for.
  `exact-revision-publication.md` has the commit recorded first.
* `publication_late_commit`: a retry's definite failure replaces
  `git_result_unknown`, so a first request that lands afterwards is found by
  nobody.
* `campaign_resend`: an executor that read the row before another's attempt
  claims an ambiguous row and sends without reconciling that attempt;
  `blog-newsletter-publishing-lifecycle.md` has retries reconcile first.
* `blog_stuck_reservation`: an execution whose approval was invalidated while
  its own publication was active, and whose lease ran out after that publication
  failed, is refused by every retry before it writes anything; it stays claimed
  and its reservation keeps the site. The same document lets expired leases be
  reclaimed.

Met while modelling and left without a run: a retry of the deployment of a
publication whose own commit is already the running release is refused by
`requireApproval`, so that the marker that would verify it is never read; and
the two readings of section 9 and section 10.

## 15. Proofs

| Module | Theorem | States |
|---|---|---|
| `ContentPublicationProofs` | `Invariant` | `Spec => []Inv` |
| | `TypeCorrect` | `Spec => []TypeOK` |
| | `SlotIsExclusive` | `Spec => []OneActivePublication` |
| | `HistoryKept` | `Spec => HistoryIsKept` |
| | `RecordInvariant` | `Spec => [](Inv /\ RecordInv)` |
| | `VerifiedIsServed` | `Spec => []VerifiedWasServed` |
| | `CommitIsExact` | `Spec => []OneExactCommit` |
| | `LandInvariant` | `Spec => [](Inv /\ RecordInv /\ LandInv)` |
| | `LandsLeased` | `Spec => LandsUnderLease`, if no `late` |
| | `LandedIsAccounted` | `Spec => []LandedCommitAccounted`, if neither `late` nor `channel` |
| | `BuildInvariant` | `Spec => [](Inv /\ RecordInv /\ BuildInv)` |
| | `BuildIsExclusive` | `Spec => []NoSecondBuild` |
| | `BuildIsFenced` | `Spec => []OpenBuildIsFenced` |
| `CampaignBulkDeliveryProofs` | `BulkInvariant` | `BulkSpec => []BulkInv` |
| | `BulkTypeCorrect` | `BulkSpec => []BulkTypeOK` |
| | `ArtifactIsOfAudience` | `BulkSpec => []CommittedAudienceIsSnapshot` |
| | `SchedulesFollow` | `BulkSpec => []SchedulesFollowSend` |
| | `SentMeansReached` | `BulkSpec => []SentWasReached` |
| | `FirstAttemptsHaveAuthority` | `BulkSpec => FirstAttemptAuthorized` |
| | `SuppressionsWin` | `BulkSpec => SuppressionWins` |
| | `ResendsProveAbsence` | `BulkSpec => ResendProvesAbsence`, if `Orderly` |
| | `DeliverySendsOnce` | `BulkSpec => SendsOnce`, if `Orderly` |
| `BlogPostScheduleProofs` | `ScheduleTypeCorrect` | `ScheduleSpec => []ScheduleTypeOK` |
| | `PublicationsNeverOverlap` | `ScheduleSpec => []OnePublication` |
| | `ReservationsHaveClaimants` | `ScheduleSpec => []ReservationHasClaimant` |
| | `SchedulesAgreeWithExecutions` | `ScheduleSpec => []ScheduleAgreesWithExecution` |
| | `ArchivedPostsStayDown` | `ScheduleSpec => []ArchivedStaysDown` |
| | `SchedulesStartUnderAuthority` | `ScheduleSpec => StartsUnderAuthority` |
| `MediaAssetsProofs` | `MediaTypeCorrect` | `MediaSpec => []MediaTypeOK` |
| | `LibraryStaysWhole` | `MediaSpec => []LibraryIsWhole` |
| | `AnswersAreTrue` | `MediaSpec => []AnsweredIsDone` |
| `EditorOutboxProofs` | `EditorInvariant` | `EditorSpec => []EditorInv` |
| | `EditorTypeCorrect` | `EditorSpec => []EditorTypeOK` |
| | `SettledEditsSurvive` | `EditorSpec => []SettledEditSurvives` |
| | `UnseenKept` | `EditorSpec => ReplacesOnlySeen` |
| `PlatformProofs` | `FormTypeCorrect` | `FormSpec => []FormTypeOK` |
| | `JobsFollow` | `FormSpec => []JobFollowsSubmission` |
| | `NoResend` | `FormSpec => []NoUnaskedResend` |
| | `BackupsRestorable` | `BackupSpec => []RecordedIsRestorable` |
| | `RestoreVerified` | `BackupSpec => []TargetIsVerified` |
| | `PlatformRefinesServices` | `PlatformSpec` implies the specification of each of its five services |
| | `PlatformTypeCorrect` | `PlatformSpec => []PlatformTypeOK` |
| `NewsletterSignupProofs` | `SignupTypeCorrect` | `SignupSpec => []SignupTypeOK` |
| | `ConfirmedMeansConsent` | `SignupSpec => []ConfirmedHasConsent` |
| | `SuppressionKept` | `SignupSpec => SuppressionHolds` |
| | `OneMessageEach` | `SignupSpec => []NoUnrequestedMessage` |
| `HumanAccessProofs` | `AccessTypeCorrect` | `AccessSpec => []AccessTypeOK` |
| | `OwnerStays` | `AccessSpec => []OwnerCanSignIn` |
| | `GrantsConfirmed` | `AccessSpec => GrantIsConfirmed` |

Assumptions: `ConstantsAssumption`, `BulkAssumption`, `ScheduleAssumption`,
`MediaAssumption`, `CronAssumption`, `BackupAssumption`, `EditorAssumption`,
`SignupAssumption` and `AccessAssumption`, each in the module that declares the
constants. They say that sets that are counted are finite, that names which
stand for nothing or for a phase are not names of callers or rows, that bounds
are numbers, that a reconciliation has a round and a post a first attempt at
least, and that what the provider reports begins with "accepted". None of the
bounds is used as a bound: the theorems hold for any number of workspaces,
submissions, runs, operators, documents, fields, edits, visitors, members,
recipients, executors, schedules, photos and days.

**Publication.** `TypeOK` is not inductive: whether a written row has the type
of a row depends on what the handler has seen on the way. `Inv` adds what a
handler in flight may rely on (`HandlerOK`): past its claim its publication
exists and its approval was made, a commit it settles is on the branch, past its
reconciliation it has a commit, only a retry is at a step of a retry; and
(`FreshOK`) that a refresh whose copy nobody has overtaken is about an active
row, which is why its write cannot revive a failed one. These facts survive the
steps of others because approvals are never unmade, rows never deleted and the
branch only grows (`HandlerStable`). The argument has two layers:
`CallerMove` and `CallerStore` say once what a step of one handler without and
with a durable write preserves; then one lemma per action shows that its new row
and its next handler are what these two ask for. Every lemma also shows
`RowsKept`: the step writes at most one row, and `WriteAllowed` of it. The
exclusive slot and the kept history follow from `WriteAllowed` without looking
at an action again.

Three more layers carry the rest; each was an invariant of small TLC runs before
it was proved, and each was strengthened there.

`RecordInv` is about records. The columns of a row fit one another (`RowShape`);
a commit on the branch is where its publication expected it, so that the
compare-and-swap on the head makes it the only one of its approval (`BranchOK`,
`BasesOK`); and a handler's copy that nobody has overtaken is the row, but for the
time that has gone by (`CopyOK`), while an overtaken one still names the same
approval and a commit of its own (`KnownOK`). What was served and the exact
commit follow in every instance, late requests included: those lose the swap.

`LandInv` is about requests on the wire and needs that none is `late`: then a
request on the wire has its lease and its current revision, and its caller waits
or has died (`RequestOK`); one holder has one request out (`LeaseOK`); and what
has landed is no longer asked for. That gives `LandsUnderLease`. Without `channel`
as well, nobody who could still record that nothing landed is left once something
has (`Denies`, `LandingOK`), which gives `LandedCommitAccounted`. The two
conditions are those the runs `publication_late_commit` and
`publication_channel_veto` show the code to need; `publication_commit` meets both.

`BuildInv` is about manual builds and has no condition. While a build is open, or
a handler is about to ask for one, the row is fenced (`FencedOK`); a handler that
has the dispatch claim finds no build open when it asks, and whoever may claim
again has seen that the last one is over (`BuilderOK`). A handler whose claim was
taken over may still ask. What keeps another from asking as well is that the row
then says a build may have been asked for and names none, which
`MayDispatchAfter` does not take for a build that failed.

**Campaign.** The proofs tell two things apart. `BulkInv` holds in every
instance, also where executors overtake one another and leases are lost in the
middle of a request: what the row may be (`RowInv`), that authority and
schedules agree with it (`AuthorityInv`, `SchedulesFollowSend`), what each
executor may rely on for what it is about to do (`ExecutorOK`) and that a
request of the provider is one the row remembers (`ProviderInv`). From it follow
the artifact, the schedules, the reached audience, the first attempt's authority
and the suppressions. `OnceInv` needs `Orderly`, that is, neither `overtake` nor
`slow` among the `Events`: then at most one request is outstanding (on the wire
or taken over), nothing is outstanding while an executor prepares or sends one,
and an executor about to claim with a copy nobody has overtaken has found
nothing outstanding. The first condition cannot go
(`campaign_resend`); `campaign_bulk` has the same two. A step is described once
by how it leaves the row or takes it (`RowLeft`, `RowTaken`), so that each of the
actions has only to show its own change. For the refinement, `VisibleSteps`
lists the steps that change what the mapping `Once` shows; `BeginIsPromised`,
`SendIsPromised`, `ProviderIsPromised` and `ConfirmIsPromised` map each to its
step of `CampaignSendOnce`; every other step is a stutter.

**Schedule.** `ScheduleInv` joins the four checked invariants, which need one
another, with what ties the calls to the rows: a lease is that of a claimed
execution (`LeaseIsClaim`); a call at work is about a schedule, and records
"completed" only of a publication that is live (`CallsAgree`); as long as the
holder of the reservation has not published, its authority stands and nobody
else publishes (`HolderIsAuthorized`), because an edit, a new approval or a
started publication takes or is refused the reservation in the same
transaction; and nothing of an archived post is under way (`DownIsQuiet`).
`StartsUnderAuthority` is then read off the third: the check of the authority
is steps before the start, and the reservation carries it there.

**Media.** For the library it is enough to add that a deleted asset once
existed: a revision and a reservation exclude each other in the statements that
write them, objects go after the tombstone, and an object is never written over.
For the answers (`RequestInv`), the claim of a key that has a receipt stays, and
whoever holds it has ended (`ReceiptEndsClaim`); a receipt is true; each revision
and each successful attempt has one. An attempt that lost its claim may still
run, but each statement that would carry out the request a second time asks for
the claim. `AttemptsFit` adds which kind of request can be at which step.

**Notification.** That no e-mail repeats is a budget: e-mails sent, plus the
runs that hold the job and have not sent it (`Debt`), plus one while the job
waits (`Waits`), never exceed the releases. A claim moves one from the waiting
job to a run, a send from the run to the e-mails, and an expired claim fails
the job instead of queueing it, which is the step the budget turns on.

**Backup.** `BackupInv` says of a run that is about to record that its object is
in the bucket, and of a record that it is of a run that is over, under that
run's own key. A stale run cannot touch the object of another because keys
differ with the token. `RestoreInv` adds that the hash which controls the stage
is that of what is staged; promotion compares it with the restorer's own.

**Editor.** `SettledEditSurvives` is far from inductive: whether a record may be
replaced depends on what three other places hold. `EditorInv` says what
documents, records, listings and requests share. A key names one attempt,
wherever copies of it are, and the revision of its receipt is what the attempt
asks for (`AttemptsOK`): a record may go when its save is acknowledged. A recorded
edit of a ready document is on its screen, in conflict or in a revision
(`ScreenOK`): the copy made after the next edit may write the record anew. An
edit that is in no revision is in one scope's place only (`OnePlace`), and what
a document has listed is in no third one's (`ListedOK`): it may clear the records
it took over, and what it merges does not come back from elsewhere. What a
reading document has not listed was recorded meanwhile (`ReadingOK`), which is
the loss of section 9 and the reason why the property leaves those edits out.
Values carry that their owner saw what they replace (`EditsOK`, `WorkOK`), and a
save lands on its own base only; that gives `ReplacesOnlySeen`. `MoveKeeps` says
once what a step of one document has to show, and `TabStays` that others keep
what they rely on. The largest base of several records (`Max`) is found by
well-foundedness of the numbers (`LargestOf`), without induction over the set.

**Composition.** Each step of `PlatformMC` is a step of one service and leaves
the variables of the others alone (`PlatformSteps`), so that `PlatformSpec`
implies the specification of every service and the theorems about them hold in
it; `PlatformTypeOK` is put together from theirs.

**Signup.** For the consent (`SignupInv`), a settling visit is one whose consent
has been written, and events are never taken back. For the messages
(`MailInv`), a run holds in its batch only what it claimed itself, no two runs
hold the same request, and a lapsed claim ends the request.

**Access.** `OwnerInv` adds that every membership not revoked has a subject
bound to it: a claim binds a subject only if it is bound to no current member, so
it takes no Owner's way in; and the count in the trigger leaves another active
Owner (`AnotherOne`). For the announcement (`ConfirmInv`), an operation is that
of a saved invitation, and a caller about to mark has the address of every
invitation it will announce in its list; others may save invitations meanwhile,
but those are not among the operations it read.

**Only model-checked.** Every liveness property (`SlotIsReleased`, `GateFollows`,
`DueIsTakenUp`, `JobSettles`, `TakenIsReported`), because the prover reaches
neither fairness nor `ENABLED`. No recursion over data is proved about, and the
models need none. The other way round, `ScheduleTypeOK` and `MediaTypeOK` are
proved and no run repeats them.

## 16. What is not modelled

* `restorePublication`, the candidate rows of the retired reference workflow
  (`git_reference_*`, `retryReference`), rows of earlier schema versions.
* In `ContentPublication`, blog reservations and MCP connections around
  `publish`: they appear as an authority that may be lost between two steps.
  Reconciliation reads the newest 100 commits; the instances have two. Two
  writes within one millisecond, which `updated_at` cannot tell apart.
  `release_marker_unavailable` is merged with the timeout and
  `approval_record_missing` with the stale approval.
* Campaigns: the artifact's contents, batches of the audience, the Owner's
  screens, retention. Blog: several posts, taxonomy, slugs, receipts of commands.
* Forms: rate limits, validation, exports, the inbox, encryption. Signup: token
  signing, the limit of a batch, backoff times, audits of sensitive reads.
  Using an unsubscribe link again after resubscribing changes nothing in the
  code, because the event is named by a hash of the token; the model has one
  event per link.
* Editor: stale recovery from local storage, a fresh workspace,
  `revision_stale` and `idempotency_key_conflict`, structural compositions, redo
  beyond the saved state, a failed clear.
* Access: the bootstrap invitation, receipts of mutations, the policy's other
  settings.
* Audit rows, wording and layout everywhere, and the components with status
  `not_modelled` in `PROJECT.json`, each with its reason.
