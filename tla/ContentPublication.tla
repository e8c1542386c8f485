------------------------- MODULE ContentPublication -------------------------
(***************************************************************************)
(* The exact-revision publication transaction: a human approves one saved  *)
(* revision, a handler claims the single global publication slot in D1,    *)
(* asks GitHub to append one commit on top of the approved head, and later *)
(* refreshes follow the build until the release marker serves the commit.  *)
(* An explicit retry reconciles an uncertain commit or dispatches a build. *)
(*                                                                         *)
(* Every handler runs inside a Worker that may die between any two awaits, *)
(* so a handler is a sequence of actions of one caller: each action ends   *)
(* at a durable write or at a provider call.  Reads that only feed the     *)
(* next guarded write are taken together, because the write is refused     *)
(* when the row changed after the handler read it.                         *)
(*                                                                         *)
(* Timestamps are abstracted: "leased" says that lease_expires_at is in    *)
(* the future, "age" that one minute (1) or fifteen minutes (2) have gone  *)
(* by since deploymentRequestedAt ?? requestedAt, and a caller's "fresh"   *)
(* that updated_at is still the one its handler read.                      *)
(***************************************************************************)
EXTENDS Integers, Sequences, FiniteSets

CONSTANTS
    Workspaces,   \* content workspaces
    Approvals,    \* approval records
    Pubs,         \* publications, one per idempotency key
    Callers,      \* handlers that may run at the same time
    None,         \* "nothing", of none of the sets above
    MaxRevision,  \* bound: revisions saved in one workspace
    MaxHead,      \* bound: commits on the production branch
    MaxDispatch,  \* bound: manual builds requested from Cloudflare
    Events        \* what the environment may do: see EventKinds

EventKinds == {"crash", "late", "channel", "external", "authority", "edits",
               "builds", "errors"}

ASSUME ConstantsAssumption ==
    /\ None \notin Workspaces \cup Approvals \cup Pubs \cup Callers
    /\ IsFiniteSet(Pubs)
    /\ MaxRevision \in Nat /\ MaxHead \in Nat /\ MaxDispatch \in Nat
    /\ Events \subseteq EventKinds

VARIABLES
    workspace,    \* content_workspaces: production base and current revision
    approval,     \* content_approvals with their invalidations
    pub,          \* content_publications
    call,         \* the handlers in flight
    branch,       \* commits of the production branch: a publication, or None
    wire,         \* createCommitOnBranch requests GitHub has not answered
    live,         \* the commit the public site serves
    released,     \* every commit the public site has served
    build,        \* the automatic build of each commit
    dispatches,   \* the manual builds requested, in order
    channel       \* the publication channel's current configuration

vars == <<workspace, approval, pub, call, branch, wire, live, released,
          build, dispatches, channel>>
external == <<branch, wire, live, released, build, dispatches, channel>>

-----------------------------------------------------------------------------
(* Rows *)

activeStatuses == {"requested", "committed", "building", "deployed", "unknown"}

Statuses == activeStatuses \cup {"absent", "blocked", "failed", "verified-live"}

unresolvedDetails == {"git_commit_not_found", "git_reconciliation_timeout",
                      "git_result_unknown", "publication_lease_expired"}

deploymentRetryDispatchEvidence ==
    {"deployment_retry_dispatching", "deployment_retry_reconciled",
     "deployment_retry_requested", "deployment_retry_result_unknown",
     "deployment_retry_timeout"}

Details == unresolvedDetails \cup deploymentRetryDispatchEvidence \cup
    {"none", "approval_stale", "publication_in_progress",
     "publication_lease_lost", "production_head_moved",
     "git_operation_failed", "git_commit_reconciled",
     "publication_channel_changed", "publication_channel_unavailable",
     "release_marker_pending", "release_marker_timeout",
     "cloudflare_build_failed", "deployment_signal_timeout",
     "deployment_retry_failed", "deployment_retry_claim_lost",
     "deployment_retry_head_moved", "deployment_retry_head_unavailable"}

\* deploymentId: null, the dispatch token of a claimed retry, or a build.
NoBuild == 0
DispatchToken == -1

Row == [status : Statuses, detail : Details, approval : Approvals \cup {None},
        expectedHead : 0..MaxHead, commitSha : 0..MaxHead,
        deploymentId : -1..MaxDispatch, dispatched : BOOLEAN,
        lease : Callers \cup {None}, leased : BOOLEAN, age : 0..2,
        born : Nat]

NoRow == [status |-> "absent", detail |-> "none", approval |-> None,
          expectedHead |-> 0, commitSha |-> 0, deploymentId |-> NoBuild,
          dispatched |-> FALSE, lease |-> None, leased |-> FALSE, age |-> 0,
          born |-> 0]

WorkspaceRecord == [open : BOOLEAN, base : 0..MaxHead, revision : 0..MaxRevision]

ApprovalRecord == [state : {"absent", "current", "invalidated"},
                   workspace : Workspaces \cup {None}, channel : {0, 1},
                   revision : 0..MaxRevision]

BuildStates == {"none", "building", "success", "failed"}

Dispatch == [pub : Pubs, sha : 1..MaxHead,
             state : {"sent", "refused", "building", "success", "failed"}]

Active(p) == pub[p].status \in activeStatuses
ActivePubs == {p \in Pubs : Active(p)}
Present == {p \in Pubs : pub[p].status # "absent"}

WorkspaceOf(row) == approval[row.approval].workspace

contentPublicationHasUnresolvedGitOutcome(row) ==
    row.commitSha = 0 /\ row.detail \in unresolvedDetails

deploymentRetryDispatchWasAttempted(row) ==
    /\ row.dispatched
    /\ \/ row.detail \in deploymentRetryDispatchEvidence
       \/ row.deploymentId \notin {NoBuild, DispatchToken}

deploymentProgress ==
    [s \in {"requested", "committed", "building", "deployed"} |->
        CASE s = "requested" -> 0 [] s = "committed" -> 1
          [] s = "building" -> 2 [] s = "deployed" -> 3]

-----------------------------------------------------------------------------
(* Handlers in flight *)

\* "row" is the handler's copy of the publication: the snapshot it read, then
\* the row it is about to write.  "resume" says where it goes on after a
\* write; "key" and "approval" are publish's own, which goes on after the
\* refresh it makes first.
Idle == [pc |-> "idle", pub |-> None, key |-> None, approval |-> None,
         release |-> 0, fresh |-> FALSE, row |-> NoRow, resume |-> "end",
         retry |-> FALSE, reply |-> "none"]

commitSteps == {"guard", "recheck", "commit", "post", "wait", "settle"}
dispatchSteps == {"dispatchClaim", "dispatchCheck", "assertDispatch", "build",
                  "buildWait", "buildSettle"}
PCs == {"idle", "refresh", "preflight", "claim", "write", "reconcile",
        "retryClaim", "retryLive", "retryHead"}
       \cup commitSteps \cup dispatchSteps

Replies == {"none", "committed", "moved", "revoked", "rejected", "lost",
            "ambiguous", "accepted", "refused", "claimLost"}

Call == [pc : PCs, pub : Pubs \cup {None}, key : Pubs \cup {None},
         approval : Approvals \cup {None}, release : 0..MaxHead,
         fresh : BOOLEAN, row : Row, resume : {"end", "refresh", "retryLive"},
         retry : BOOLEAN, reply : Replies]

\* What the handler does after a refresh: publish goes on to its preflight.
AfterRefresh(k) ==
    IF k.key = None THEN Idle
    ELSE [Idle EXCEPT !.pc = "preflight", !.key = k.key,
                      !.approval = k.approval, !.release = k.release]

Goto(c, k) == /\ call' = [call EXCEPT ![c] = k]
              /\ UNCHANGED pub

\* One durable write of a publication row moves updated_at, so every other
\* handler that read the row before holds a stale copy.
Store(c, p, row, k) ==
    /\ pub' = [pub EXCEPT ![p] = row]
    /\ call' = [d \in Callers |->
                  IF d = c THEN k
                  ELSE IF call[d].pub = p THEN [call[d] EXCEPT !.fresh = FALSE]
                  ELSE call[d]]

\* The guards of updatePublication that do not depend on its options.
UpdatePermitted(old, new) ==
    /\ old.status # "verified-live"
    /\ old.commitSha = 0 \/ old.commitSha = new.commitSha
    /\ ~(old.status = "deployed" /\
            new.status \in {"requested", "committed", "building", "unknown"})
    /\ ~(old.status = "building" /\
            new.status \in {"requested", "committed", "unknown"})
    /\ ~(old.status = "committed" /\ new.status \in {"requested", "unknown"}
         /\ ~(old.detail = "deployment_retry_dispatching"
              /\ new.status = "unknown"))

\* Mutant: the migration that adds the unique index is missing.
NoActiveIndex(p, new) == TRUE

\* The partial unique index content_publications_one_active.
OneActivePermits(p, new) ==
    new.status \in activeStatuses => ActivePubs \subseteq {p}

\* Time goes on while a handler holds its copy.
Timed(p, new) == [new EXCEPT !.age = pub[p].age,
                             !.leased = new.leased /\ pub[p].leased]

\* Mutant: the write is not bound to the row that was read.
UpdateStale(c, p, expected, new, won, lost) ==
    IF OneActivePermits(p, new) THEN Store(c, p, Timed(p, new), won)
    ELSE Goto(c, lost)

\* updatePublication with expectedStatus and expectedUpdatedAt.
UpdateFresh(c, p, expected, new, won, lost) ==
    IF /\ call[c].fresh
       /\ pub[p].status = expected
       /\ UpdatePermitted(pub[p], new)
       /\ OneActivePermits(p, new)
    THEN Store(c, p, Timed(p, new), won)
    ELSE Goto(c, lost)

\* The lease token the caller claimed is still the row's, and the row is in
\* one of the two states a lease protects.
HoldsLease(c, p) ==
    /\ pub[p].lease = c
    /\ \/ pub[p].status = "requested"
       \/ /\ pub[p].status = "committed"
          /\ pub[p].detail = "deployment_retry_dispatching"

\* updatePublication with expectedLeaseToken: release the lease with new.
UpdateLeased(c, p, valid, new) ==
    IF /\ HoldsLease(c, p)
       /\ valid => pub[p].leased
       /\ UpdatePermitted(pub[p], new)
    THEN Store(c, p, Timed(p, [new EXCEPT !.lease = None, !.leased = FALSE]),
               Idle)
    ELSE Goto(c, Idle)

-----------------------------------------------------------------------------
(* Reads *)

ProductionHead == Len(branch)
CommitsOf(p) == {i \in 1..ProductionHead : branch[i] = p}
Landed(p) == CommitsOf(p) # {}
\* Mutant: the commit after the head is recorded instead of the one found.
CommitAfterHead(p) == ProductionHead + 1
CommitOf(p) == CHOOSE i \in CommitsOf(p) : TRUE

\* approvalChannelConfigurationMatches: the recorded configuration hash
\* against the live trigger, which may not be readable.
ChannelReads(a) ==
    {IF approval[a].channel = channel THEN "same" ELSE "changed"}
    \cup (IF "channel" \in Events THEN {"unavailable"} ELSE {})

\* requireApproval as a handler of release r evaluates it.
requireApproval(a, r) ==
    /\ approval[a].state = "current"
    /\ approval[a].revision = workspace[approval[a].workspace].revision
    /\ workspace[approval[a].workspace].base = r
    /\ approval[a].channel = channel

BaseOf(a) == workspace[approval[a].workspace].base
approvedBaseIsLive(a) == live = BaseOf(a)

invalidated(a) == [approval EXCEPT ![a].state = "invalidated"]

\* reconcileCommit: the branch is searched for the exact commit.
ReconcileReads(p) ==
    {IF Landed(p) THEN "committed" ELSE "not-found"}
    \cup (IF "errors" \in Events THEN {"unknown"} ELSE {})

BuildStatus(state) ==
    CASE state = "none" -> "requested"
      [] state = "building" -> "building"
      [] state = "success" -> "deployed"
      [] state = "failed" -> "failed"
      [] OTHER -> "requested"

\* getDeploymentStatus: by build when one is recorded, else by the checks
\* reported on the commit, which any build of that commit may have written.
DeploymentReads(row) ==
    (IF row.deploymentId > 0
     THEN {BuildStatus(dispatches[row.deploymentId].state)}
     ELSE {BuildStatus(build[row.commitSha])} \cup
          {BuildStatus(dispatches[d].state) :
             d \in {e \in DOMAIN dispatches :
                      /\ dispatches[e].sha = row.commitSha
                      /\ dispatches[e].state \in {"building", "success", "failed"}}})
    \cup (IF "errors" \in Events THEN {"unknown"} ELSE {})

\* Mutant: any readable marker counts as the expected release.
MarkerAnswers(sha) == {"live"}

\* isReleaseLive: two reads of the release marker, or no readable marker.
MarkerReads(sha) ==
    {IF live = sha THEN "live" ELSE "other"}
    \cup (IF "errors" \in Events THEN {"unavailable"} ELSE {})

-----------------------------------------------------------------------------
(* Workspaces and approvals *)

OpenWorkspace(w) ==
    /\ ~workspace[w].open
    /\ workspace' = [workspace EXCEPT ![w] =
                        [open |-> TRUE, base |-> live, revision |-> 0]]
    /\ UNCHANGED <<approval, pub, call, external>>

\* Mutant: the trigger that protects a leased publication is missing.
RevisionUnfenced(w) == FALSE

\* The triggers on content_revisions: a leased publication of the workspace
\* refuses the insert, and an accepted revision invalidates its approvals.
RevisionBlocked(w) ==
    \E p \in Present :
        /\ WorkspaceOf(pub[p]) = w
        /\ pub[p].leased
        /\ \/ pub[p].status = "requested"
           \/ /\ pub[p].status = "committed"
              /\ pub[p].detail = "deployment_retry_dispatching"

SupersededApprovals(w) ==
    [a \in Approvals |->
        IF approval[a].workspace = w /\ approval[a].state = "current"
        THEN [approval[a] EXCEPT !.state = "invalidated"] ELSE approval[a]]

SaveRevision(w) ==
    /\ "edits" \in Events
    /\ workspace[w].open /\ workspace[w].revision < MaxRevision
    /\ ~RevisionBlocked(w)
    /\ workspace' = [workspace EXCEPT ![w].revision = @ + 1]
    /\ approval' = SupersededApprovals(w)
    /\ UNCHANGED <<pub, call, external>>

approve(w, a) ==
    /\ approval[a].state = "absent"
    /\ workspace[w].open /\ workspace[w].base = live
    /\ approval' = [SupersededApprovals(w) EXCEPT ![a] =
                      [state |-> "current", workspace |-> w, channel |-> channel,
                       revision |-> workspace[w].revision]]
    /\ UNCHANGED <<workspace, pub, call, external>>

-----------------------------------------------------------------------------
(* Refresh *)

Restartable(row) ==
    /\ row.commitSha = 0
    /\ \/ row.status = "failed" /\ row.detail = "git_operation_failed"
       \/ /\ row.status = "blocked"
          /\ row.detail \in {"publication_in_progress", "publication_lease_lost"}

Reading(c, p) == [Idle EXCEPT !.pc = "refresh", !.pub = p, !.release = live,
                              !.fresh = TRUE, !.row = pub[p]]

\* refresh, from the dashboard, the scheduler or a later publish.
refresh(c, p) ==
    /\ call[c].pc = "idle"
    /\ Active(p)
    /\ Goto(c, Reading(c, p))
    /\ UNCHANGED <<workspace, approval, external>>

Unchanged(c) == Goto(c, AfterRefresh(call[c]))

\* The guarded write every branch of refreshPublication ends with; resume
\* says whether the handler goes on with the row it wrote.
Refreshed(c, new, resume) ==
    Goto(c, [call[c] EXCEPT !.pc = "write", !.row = new, !.resume = resume])

\* handleChannelFailure
ChannelFailure(c, row, failure) ==
    IF row.age = 2
    THEN Refreshed(c,
           [row EXCEPT
              !.status = "failed",
              !.detail =
                IF deploymentRetryDispatchWasAttempted(row)
                THEN "deployment_retry_timeout"
                ELSE IF contentPublicationHasUnresolvedGitOutcome(row)
                THEN row.detail
                ELSE IF failure = "changed" THEN "publication_channel_changed"
                ELSE "publication_channel_unavailable"],
           "end")
    ELSE Unchanged(c)

\* The branches of refreshPublication, by the row that was read.
ChannelVetoesFirst(row, seen) ==
    seen # "same" /\ ~contentPublicationHasUnresolvedGitOutcome(row)
Dispatching(row) == row.detail = "deployment_retry_dispatching"
\* Mutant: a requested publication is left to its holder for ever.
CommitHeldForEver(row) == row.commitSha = 0 /\ row.status = "requested"
CommitLeaseHeld(row) ==
    row.commitSha = 0 /\ row.status = "requested" /\ row.leased
CommitUnresolved(row) ==
    row.commitSha = 0 /\ row.status \in {"requested", "unknown"}
DispatchAmbiguous(row) ==
    row.status = "unknown" /\ row.detail = "deployment_retry_result_unknown"

RefreshChannelVeto(c) ==
    LET row == call[c].row IN
    /\ call[c].pc = "refresh"
    /\ \E seen \in ChannelReads(row.approval) :
         /\ ChannelVetoesFirst(row, seen)
         /\ ChannelFailure(c, row, seen)
    /\ UNCHANGED <<workspace, approval, external>>

RefreshDispatching(c) ==
    LET row == call[c].row IN
    /\ call[c].pc = "refresh"
    /\ "same" \in ChannelReads(row.approval)
    /\ Dispatching(row)
    /\ IF row.age = 0 THEN Unchanged(c)
       ELSE Refreshed(c, [row EXCEPT !.status = "unknown",
                                     !.deploymentId = NoBuild,
                                     !.detail = "deployment_retry_result_unknown"],
                      "end")
    /\ UNCHANGED <<workspace, approval, external>>

\* Mutant: an unreadable branch is taken for a definite Git failure.
DefiniteDetail(row, seen) ==
    IF seen = "unknown" THEN "git_operation_failed" ELSE "git_commit_not_found"

\* A commit nobody vouches for any more is looked for on the branch; only a
\* branch without it and an elapsed deadline make the publication failed.
NotFoundDetail(row, seen) ==
    IF seen = "unknown" THEN "git_reconciliation_timeout"
    ELSE IF row.status = "requested" THEN "publication_lease_expired"
    ELSE "git_commit_not_found"

RefreshReconcile(c) ==
    LET row == call[c].row IN
    /\ call[c].pc = "refresh"
    /\ ~Dispatching(row) /\ CommitUnresolved(row)
    /\ \E seen \in ChannelReads(row.approval) :
         /\ ~ChannelVetoesFirst(row, seen)
         /\ IF CommitLeaseHeld(row) THEN Unchanged(c)
            ELSE \E found \in ReconcileReads(call[c].pub) :
              IF found = "committed"
              THEN Refreshed(c, [row EXCEPT !.status = "committed",
                                            !.commitSha = CommitOf(call[c].pub),
                                            !.detail = "none", !.lease = None,
                                            !.leased = FALSE], "refresh")
              ELSE IF seen # "same" THEN ChannelFailure(c, row, seen)
              ELSE IF row.age = 2
              THEN Refreshed(c, [row EXCEPT !.status = "failed",
                                            !.detail = NotFoundDetail(row, found),
                                            !.lease = None, !.leased = FALSE],
                             "end")
              ELSE Unchanged(c)
    /\ UNCHANGED <<workspace, approval, external>>

VerifiedLive(row) == [row EXCEPT !.status = "verified-live", !.detail = "none"]

\* A manual build whose answer was lost: only the marker can settle it.
RefreshAmbiguousDispatch(c) ==
    LET row == call[c].row IN
    /\ call[c].pc = "refresh"
    /\ "same" \in ChannelReads(row.approval)
    /\ ~Dispatching(row) /\ row.commitSha # 0 /\ DispatchAmbiguous(row)
    /\ \E marker \in MarkerReads(row.commitSha) :
         IF marker = "live" THEN Refreshed(c, VerifiedLive(row), "end")
         ELSE IF row.age = 2
         THEN Refreshed(c, [row EXCEPT !.status = "failed",
                                       !.detail = "deployment_retry_timeout"],
                        "end")
         ELSE Unchanged(c)
    /\ UNCHANGED <<workspace, approval, external>>

\* Mutant: an observation of the build overwrites the fence.
FenceOverwritten(row, detail, failed) == detail

\* preserveManualDispatchFence
Fenced(row, detail, failed) ==
    IF ~deploymentRetryDispatchWasAttempted(row) THEN detail
    ELSE IF failed THEN "deployment_retry_timeout"
    ELSE "deployment_retry_reconciled"

Regresses(row, observed) ==
    /\ row.status \in DOMAIN deploymentProgress
    /\ deploymentProgress[observed] < deploymentProgress[row.status]

\* What refreshPublication writes once it knows the build status and marker.
DeploymentOutcome(row, observed, marker) ==
    LET To(status, detail) == [row EXCEPT !.status = status, !.detail = detail]
        late == row.age = 2
    IN  IF observed = "deployed" \/ row.status = "deployed"
        THEN IF marker = "live" THEN VerifiedLive(row)
             ELSE IF late
             THEN To("failed", Fenced(row, "release_marker_timeout", TRUE))
             ELSE To("deployed", Fenced(row, "release_marker_pending", FALSE))
        ELSE IF observed = "failed"
        THEN To("failed", Fenced(row, "cloudflare_build_failed", TRUE))
        ELSE IF late
        THEN To("failed", Fenced(row, "deployment_signal_timeout", TRUE))
        ELSE To(observed, Fenced(row, "none", FALSE))

\* An observation that says nothing new is not written.
DeploymentSilent(row, observed) ==
    /\ row.status # "deployed" /\ row.age # 2
    /\ \/ observed = "unknown"
       \/ observed \in DOMAIN deploymentProgress \ {"deployed"}
          /\ Regresses(row, observed)

RefreshDeployment(c) ==
    LET row == call[c].row IN
    /\ call[c].pc = "refresh"
    /\ "same" \in ChannelReads(row.approval)
    /\ ~Dispatching(row) /\ row.commitSha # 0 /\ ~DispatchAmbiguous(row)
    /\ \E observed \in DeploymentReads(row), marker \in MarkerReads(row.commitSha) :
         IF DeploymentSilent(row, observed) THEN Unchanged(c)
         ELSE Refreshed(c, DeploymentOutcome(row, observed, marker), "end")
    /\ UNCHANGED <<workspace, approval, external>>

\* A grant lost in the middle of a refresh ends it.
RefreshAbandoned(c) ==
    /\ "authority" \in Events
    /\ call[c].pc = "refresh"
    /\ Unchanged(c)
    /\ UNCHANGED <<workspace, approval, external>>

\* The guarded write: refresh and retry share it.
ExpectedStatus(c) ==
    IF call[c].retry THEN "failed" ELSE pub[call[c].pub].status

AfterWrite(c, won) ==
    LET k == call[c] IN
    CASE k.resume = "refresh" /\ won ->
           [k EXCEPT !.pc = "refresh", !.resume = "end"]
      [] k.resume = "retryLive" ->
           [k EXCEPT !.pc = "retryLive", !.resume = "end", !.fresh = TRUE,
                     !.row = IF won THEN k.row ELSE pub[k.pub]]
      [] OTHER -> AfterRefresh(k)

WriteRow(c) ==
    /\ call[c].pc = "write"
    /\ UpdateFresh(c, call[c].pub, ExpectedStatus(c), call[c].row,
                   AfterWrite(c, TRUE), AfterWrite(c, FALSE))
    /\ UNCHANGED <<workspace, approval, external>>

-----------------------------------------------------------------------------
(* Publish *)

\* findLatestPublication: an active row first, a contender blocked by another
\* publication last, and the newest of each.
Rank(row) == IF row.status \in activeStatuses THEN 0
             ELSE IF row.status = "blocked" /\ row.detail = "publication_in_progress"
             THEN 2 ELSE 1

LatestPublications(w) ==
    LET mine == {p \in Present : WorkspaceOf(pub[p]) = w}
    IN  {p \in mine : \A q \in mine \ {p} :
            \/ Rank(pub[p]) < Rank(pub[q])
            \/ Rank(pub[p]) = Rank(pub[q]) /\ pub[p].born > pub[q].born}

\* The publication a second publish of the same approval returns.
Recoverable(a) ==
    {p \in LatestPublications(approval[a].workspace) :
        pub[p].approval = a /\ ~Restartable(pub[p])}

Preflight(c, a, key) == [Idle EXCEPT !.pc = "preflight", !.approval = a,
                                     !.key = key, !.release = live]

\* publish with a new idempotency key (a known key returns its publication):
\* refresh what is active, then go on unless this approval already has one.
publish(c, a, key) ==
    /\ call[c].pc = "idle"
    /\ pub[key].status = "absent"
    /\ requireApproval(a, live)
    /\ \/ \E p \in Recoverable(a) : /\ Active(p)
                                    /\ Goto(c, Reading(c, p))
       \/ /\ Recoverable(a) = {}
          /\ IF ActivePubs = {} THEN Goto(c, Preflight(c, a, key))
             ELSE \E p \in ActivePubs :
                    Goto(c, [Reading(c, p) EXCEPT !.key = key, !.approval = a])
    /\ UNCHANGED <<workspace, approval, external>>

\* Production moved away from the approved base: the approval is spent.
ProductionChanged(a) == ProductionHead # BaseOf(a) \/ ~approvedBaseIsLive(a)

PublishPreflight(c) ==
    LET k == call[c] IN
    /\ k.pc = "preflight"
    /\ IF ProductionChanged(k.approval)
       THEN approval' = invalidated(k.approval) /\ Goto(c, Idle)
       ELSE Goto(c, [k EXCEPT !.pc = "claim"]) /\ UNCHANGED approval
    /\ UNCHANGED <<workspace, external>>

\* claimPublication: one INSERT, guarded by the approval still being current
\* and by the unique index over active publications.
ClaimApproved(a) ==
    /\ approval[a].state = "current"
    /\ approval[a].revision = workspace[approval[a].workspace].revision

NewPublication(c, a, status, detail) ==
    [NoRow EXCEPT !.status = status, !.detail = detail, !.approval = a,
                  !.expectedHead = BaseOf(a), !.born = Cardinality(Present) + 1,
                  !.lease = IF status = "requested" THEN c ELSE None,
                  !.leased = (status = "requested")]

claimPublication(c) ==
    LET k == call[c]
        Insert(row, next) == Store(c, k.key, row, next)
    IN
    /\ k.pc = "claim"
    /\ IF pub[k.key].status # "absent" THEN Goto(c, Idle)
       ELSE IF ~ClaimApproved(k.approval)
       THEN Insert(NewPublication(c, k.approval, "blocked", "approval_stale"), Idle)
       ELSE LET row == NewPublication(c, k.approval, "requested", "none") IN
            IF OneActivePermits(k.key, row)
            THEN Insert(row, [k EXCEPT !.pc = "guard", !.pub = k.key, !.row = row])
            ELSE Insert(NewPublication(c, k.approval, "blocked",
                                       "publication_in_progress"), Idle)
    /\ UNCHANGED <<workspace, approval, external>>

\* createPublicationCommitLeaseGuard: the approval, its live base, then
\* renewPublicationLease, which checks approval and revision once more in D1.
LeaseRenewable(c, p) ==
    /\ HoldsLease(c, p)
    /\ pub[p].leased
    /\ approval[pub[p].approval].state = "current"
    /\ approval[pub[p].approval].revision =
          workspace[WorkspaceOf(pub[p])].revision

LeaseGuardHolds(c) ==
    LET k == call[c] IN
    /\ requireApproval(k.row.approval, k.release)
    /\ approvedBaseIsLive(k.row.approval)
    /\ LeaseRenewable(c, k.pub)

\* The guard refuses; a base that is no longer live spends the approval.
LeaseGuardRefuses(c) ==
    LET k == call[c] IN
    \/ "authority" \in Events /\ UNCHANGED approval
    \/ /\ \/ ~requireApproval(k.row.approval, k.release)
          \/ approvedBaseIsLive(k.row.approval) /\ ~LeaseRenewable(c, k.pub)
       /\ UNCHANGED approval
    \/ /\ requireApproval(k.row.approval, k.release)
       /\ ~approvedBaseIsLive(k.row.approval)
       /\ approval' = invalidated(k.row.approval)

Answered(c, reply) ==
    Goto(c, [call[c] EXCEPT !.pc = "settle", !.reply = reply])

PublishGuard(c) ==
    LET k == call[c]
        lost == [k.row EXCEPT !.status = "blocked",
                              !.detail = "publication_lease_lost"]
    IN
    /\ k.pc = "guard"
    /\ \/ /\ LeaseGuardHolds(c)
          /\ Goto(c, [k EXCEPT !.pc = "recheck"])
          /\ UNCHANGED approval
       \/ /\ LeaseGuardRefuses(c)
          /\ UpdateLeased(c, k.pub, FALSE, lost)
    /\ UNCHANGED <<workspace, external>>

PublishRecheck(c) ==
    LET k == call[c]
        stale == [k.row EXCEPT !.status = "blocked", !.detail = "approval_stale"]
    IN
    /\ k.pc = "recheck"
    /\ IF requireApproval(k.row.approval, k.release)
       THEN Goto(c, [k EXCEPT !.pc = "commit"])
       ELSE UpdateLeased(c, k.pub, FALSE, stale)
    /\ UNCHANGED <<workspace, approval, external>>

\* createCommit before its request: guard the lease, compare the head.  An
\* error on this side of the request is a definite failure.
CreateCommitCheck(c) ==
    LET k == call[c] IN
    /\ k.pc = "commit"
    /\ \/ /\ LeaseGuardHolds(c)
          /\ IF ProductionHead = k.row.expectedHead
             THEN Goto(c, [k EXCEPT !.pc = "post"])
             ELSE Answered(c, "moved")
          /\ UNCHANGED approval
       \/ LeaseGuardRefuses(c) /\ Answered(c, "lost")
       \/ "errors" \in Events /\ Answered(c, "rejected") /\ UNCHANGED approval
    /\ UNCHANGED <<workspace, external>>

\* The last guard, and the request goes out.
CreateCommitPost(c) ==
    LET k == call[c] IN
    /\ k.pc = "post"
    /\ \/ /\ LeaseGuardHolds(c)
          /\ Goto(c, [k EXCEPT !.pc = "wait"])
          /\ wire' = wire \cup {<<k.pub, c>>}
          /\ UNCHANGED approval
       \/ LeaseGuardRefuses(c) /\ Answered(c, "lost") /\ UNCHANGED wire
       \/ /\ "errors" \in Events /\ Answered(c, "rejected")
          /\ UNCHANGED <<approval, wire>>
    /\ UNCHANGED <<workspace, branch, live, released, build, dispatches, channel>>

\* The answer is recorded under the lease; a moved head first spends the
\* approval.  An answer that arrives after the lease lapsed is not recorded.
Answer(row, reply, p) ==
    LET To(status, detail) == [row EXCEPT !.status = status, !.detail = detail]
    IN  CASE reply = "committed" ->
               [To("committed", "none") EXCEPT !.commitSha = CommitOf(p)]
          [] reply = "revoked"   -> To("blocked", "production_head_moved")
          [] reply = "rejected"  -> To("failed", "git_operation_failed")
          [] reply = "lost"      -> To("blocked", "publication_lease_lost")
          [] reply = "ambiguous" -> To("unknown", "git_result_unknown")

\* A retry that lost its lease goes back to failed.
RetryAnswer(row, reply, p) ==
    IF reply = "lost" THEN [Answer(row, reply, p) EXCEPT !.status = "failed"]
    ELSE Answer(row, reply, p)

RevokeApproval(c) ==
    LET k == call[c] IN
    /\ k.pc = "settle" /\ k.reply = "moved"
    /\ \/ /\ ~k.retry
          /\ approval' = invalidated(k.row.approval)
          /\ Answered(c, "revoked")
       \/ /\ k.retry
          /\ \E found \in ReconcileReads(k.pub) :
               IF found = "not-found"
               THEN approval' = invalidated(k.row.approval) /\ Answered(c, "revoked")
               ELSE /\ Answered(c, IF found = "committed" THEN "committed"
                                   ELSE "ambiguous")
                    /\ UNCHANGED approval
    /\ UNCHANGED <<workspace, external>>

SettleCommit(c) ==
    LET k == call[c] IN
    /\ k.pc = "settle" /\ k.reply # "moved"
    /\ UpdateLeased(c, k.pub, TRUE,
                    IF k.retry THEN RetryAnswer(k.row, k.reply, k.pub)
                    ELSE Answer(k.row, k.reply, k.pub))
    /\ UNCHANGED <<workspace, approval, external>>

-----------------------------------------------------------------------------
(* Retry of a failed publication: the Git side *)

RetryAvailable(row) ==
    /\ row.status = "failed"
    /\ row.commitSha # 0 \/ contentPublicationHasUnresolvedGitOutcome(row)

retryDeployment(c, p) ==
    /\ call[c].pc = "idle"
    /\ RetryAvailable(pub[p])
    /\ requireApproval(pub[p].approval, live)
    /\ Goto(c, [Reading(c, p) EXCEPT
                  !.retry = TRUE,
                  !.pc = IF pub[p].commitSha = 0 THEN "reconcile" ELSE "retryLive"])
    /\ UNCHANGED <<workspace, approval, external>>

\* Reconcile once more; only a branch still at the approved head may be
\* asked for the same commit again.
RetryReconcile(c) ==
    LET k == call[c]
        recorded == [k.row EXCEPT !.commitSha = CommitOf(k.pub),
                                  !.detail = "git_commit_reconciled"]
    IN
    /\ k.pc = "reconcile"
    /\ \E found \in ReconcileReads(k.pub) :
         IF found = "committed"
         THEN /\ Goto(c, [k EXCEPT !.pc = "write", !.resume = "retryLive",
                                   !.row = recorded])
              /\ UNCHANGED approval
         ELSE IF ProductionHead # k.row.expectedHead
         THEN Goto(c, Idle) /\ UNCHANGED approval
         ELSE IF ~approvedBaseIsLive(k.row.approval)
         THEN Goto(c, Idle) /\ approval' = invalidated(k.row.approval)
         ELSE Goto(c, [k EXCEPT !.pc = "retryClaim"]) /\ UNCHANGED approval
    /\ UNCHANGED <<workspace, external>>

claimFailedPublicationRetry(c) ==
    LET k == call[c]
        claimed == [k.row EXCEPT !.status = "requested", !.lease = c,
                                 !.leased = TRUE, !.detail = "git_result_unknown"]
    IN
    /\ k.pc = "retryClaim"
    /\ IF /\ k.fresh /\ pub[k.pub].status = "failed"
          /\ UpdatePermitted(pub[k.pub], claimed)
          /\ OneActivePermits(k.pub, claimed)
       THEN LET row == [claimed EXCEPT !.age = pub[k.pub].age] IN
            Store(c, k.pub, row, [k EXCEPT !.pc = "commit", !.row = row])
       ELSE Goto(c, Idle)
    /\ UNCHANGED <<workspace, approval, external>>

-----------------------------------------------------------------------------
(* Retry of a failed publication: the deployment side *)

\* The commit was found by the retry itself and nobody asked for its build.
ReconciledNeedsCheck(row) ==
    row.detail = "git_commit_reconciled" /\ ~row.dispatched

RecordedBuild(row) ==
    [row EXCEPT !.deploymentId = IF @ = DispatchToken THEN NoBuild ELSE @]

\* Mutant: any failed check on the commit permits another build.
DispatchAfterFailure(row, observed) == observed = "failed"

\* Nothing may be dispatched while an earlier dispatch is not known to have
\* failed: an unanswered one has no build of its own to ask about.
MayDispatchAfter(row, observed) ==
    /\ observed = "failed"
    /\ RecordedBuild(row).deploymentId # NoBuild \/ ReconciledNeedsCheck(row)

RetryLive(c) ==
    LET k == call[c]
        row == k.row
        Write(new) == Goto(c, [k EXCEPT !.pc = "write", !.row = new])
        goOn == Goto(c, [k EXCEPT !.pc = "retryHead"])
    IN
    /\ k.pc = "retryLive"
    /\ IF row.commitSha = 0 THEN Goto(c, Idle)
       ELSE \E marker \in MarkerReads(row.commitSha) :
         IF marker = "live" THEN Write(VerifiedLive(row))
         ELSE IF ~(ReconciledNeedsCheck(row)
                   \/ deploymentRetryDispatchWasAttempted(row))
         THEN goOn
         ELSE \E observed \in DeploymentReads(RecordedBuild(row)) :
           IF observed \in {"building", "deployed"}
           THEN Write([row EXCEPT !.status = observed,
                                  !.detail = "deployment_retry_reconciled"])
           ELSE IF MayDispatchAfter(row, observed) THEN goOn
           ELSE Goto(c, Idle)
    /\ UNCHANGED <<workspace, approval, external>>

RetryHead(c) ==
    LET k == call[c] IN
    /\ k.pc = "retryHead"
    /\ IF ProductionHead # k.row.commitSha
       THEN Goto(c, Idle) /\ approval' = invalidated(k.row.approval)
       ELSE Goto(c, [k EXCEPT !.pc = "dispatchClaim"]) /\ UNCHANGED approval
    /\ UNCHANGED <<workspace, external>>

DispatchClaim(c) ==
    LET k == call[c]
        row == [k.row EXCEPT !.status = "committed", !.lease = c,
                             !.leased = TRUE, !.age = 0, !.dispatched = TRUE,
                             !.deploymentId = DispatchToken,
                             !.detail = "deployment_retry_dispatching"]
    IN
    /\ k.pc = "dispatchClaim"
    /\ IF /\ k.fresh /\ pub[k.pub].status = "failed"
          /\ UpdatePermitted(pub[k.pub], row)
          /\ OneActivePermits(k.pub, row)
       THEN Store(c, k.pub, row,
                  [k EXCEPT !.pc = "dispatchCheck", !.row = row, !.fresh = TRUE])
       ELSE Goto(c, Idle)
    /\ UNCHANGED <<workspace, approval, external>>

\* The dispatch claim given up: guarded by the token, the status and the row
\* not having been written by anybody else.
DispatchRow(row, status, detail, id) ==
    [row EXCEPT !.status = status, !.detail = detail, !.deploymentId = id,
                !.lease = None, !.leased = FALSE]

DispatchWrite(c, new, next) ==
    IF /\ call[c].fresh
       /\ HoldsLease(c, call[c].pub) /\ pub[call[c].pub].status = "committed"
       /\ UpdatePermitted(pub[call[c].pub], new)
    THEN Store(c, call[c].pub, Timed(call[c].pub, new), next)
    ELSE Goto(c, next)

DispatchCheck(c) ==
    LET k == call[c]
        GiveUp(detail) ==
            DispatchWrite(c, DispatchRow(k.row, "failed", detail, NoBuild), Idle)
    IN
    /\ k.pc = "dispatchCheck"
    /\ \/ /\ ~requireApproval(k.row.approval, k.release)
          /\ GiveUp("approval_stale") /\ UNCHANGED approval
       \/ /\ requireApproval(k.row.approval, k.release)
          /\ \/ /\ "errors" \in Events
                /\ GiveUp("deployment_retry_head_unavailable")
                /\ UNCHANGED approval
             \/ /\ ProductionHead # k.row.commitSha
                /\ GiveUp("deployment_retry_head_moved")
                /\ approval' = invalidated(k.row.approval)
             \/ /\ ProductionHead = k.row.commitSha
                /\ Goto(c, [k EXCEPT !.pc = "assertDispatch"])
                /\ UNCHANGED approval
    /\ UNCHANGED <<workspace, external>>

\* assertDispatch: the last look before the build request goes out.
AssertDispatch(c) ==
    LET k == call[c]
        veto == [k EXCEPT !.pc = "buildSettle", !.reply = "claimLost"]
        mayAsk == /\ LeaseRenewable(c, k.pub) /\ pub[k.pub].status = "committed"
                  /\ requireApproval(k.row.approval, k.release)
    IN
    /\ k.pc = "assertDispatch"
    /\ \/ /\ ~mayAsk \/ "authority" \in Events \/ "errors" \in Events
          /\ Goto(c, veto) /\ UNCHANGED approval
       \/ /\ mayAsk
          /\ \E marker \in MarkerReads(k.row.commitSha) :
               IF marker = "live"
               THEN /\ DispatchWrite(c, DispatchRow(k.row, "verified-live", "none",
                                                    NoBuild), veto)
                    /\ UNCHANGED approval
               ELSE IF ProductionHead # k.row.commitSha
               THEN /\ DispatchWrite(c, DispatchRow(k.row, "failed",
                                       "deployment_retry_head_moved", NoBuild), veto)
                    /\ approval' = invalidated(k.row.approval)
               ELSE Goto(c, [k EXCEPT !.pc = "build"]) /\ UNCHANGED approval
    /\ UNCHANGED <<workspace, external>>

\* The build request goes out, or fails on the way to Cloudflare: the handler
\* cannot tell, so both end as an unknown result.
DispatchBuild(c) ==
    LET k == call[c] IN
    /\ k.pc = "build"
    /\ \/ /\ Len(dispatches) < MaxDispatch
          /\ dispatches' = Append(dispatches, [pub |-> k.pub,
                                   sha |-> k.row.commitSha, state |-> "sent"])
          /\ Goto(c, [k EXCEPT !.pc = "buildWait",
                               !.row.deploymentId = Len(dispatches) + 1])
       \/ /\ Goto(c, [k EXCEPT !.pc = "buildSettle", !.reply = "ambiguous"])
          /\ UNCHANGED dispatches
    /\ UNCHANGED <<workspace, approval, branch, wire, live, released, build,
                   channel>>

BuildAnswer(c) ==
    LET k == call[c]
        state == dispatches[k.row.deploymentId].state
        Reply(reply) == Goto(c, [k EXCEPT !.pc = "buildSettle", !.reply = reply])
    IN
    /\ k.pc = "buildWait"
    /\ \/ state \notin {"sent", "refused"} /\ Reply("accepted")
       \/ state = "refused" /\ Reply("refused")
       \/ Reply("ambiguous")
    /\ UNCHANGED <<workspace, approval, external>>

SettleBuild(c) ==
    LET k == call[c]
        row == CASE k.reply = "accepted" ->
                      DispatchRow(k.row, "committed", "deployment_retry_requested",
                                  k.row.deploymentId)
                 [] k.reply = "refused" ->
                      DispatchRow(k.row, "failed", "deployment_retry_failed", NoBuild)
                 [] k.reply = "claimLost" ->
                      DispatchRow(k.row, "failed", "deployment_retry_claim_lost",
                                  NoBuild)
                 [] k.reply = "ambiguous" ->
                      DispatchRow(k.row, "unknown",
                                  "deployment_retry_result_unknown", NoBuild)
    IN
    /\ k.pc = "buildSettle"
    /\ DispatchWrite(c, row, Idle)
    /\ UNCHANGED <<workspace, approval, external>>

-----------------------------------------------------------------------------
(* GitHub, Cloudflare, time and crashes *)

Waiting(p, c) == c # None /\ call[c].pc = "wait" /\ call[c].pub = p

\* The answer to a request reaches its caller, if it still waits for one, or
\* is lost on the way.
Deliver(p, c, reply) ==
    /\ UNCHANGED pub
    /\ IF Waiting(p, c)
       THEN \E r \in {reply, "ambiguous"} :
              call' = [call EXCEPT ![c].pc = "settle", ![c].reply = r]
       ELSE UNCHANGED call

\* Mutant: the commit is forced onto whatever the head is.
AnyHead(p) == TRUE

\* createCommitOnBranch is a compare-and-swap: the mutation names the head it
\* expects (expectedHeadOid), which is the expectedHead its handler recorded.
HeadExpected(p) == ProductionHead = pub[p].expectedHead

GitHubCommits(p, c) ==
    /\ <<p, c>> \in wire
    /\ HeadExpected(p) /\ ProductionHead < MaxHead
    /\ branch' = Append(branch, p)
    /\ wire' = wire \ {<<p, c>>}
    /\ Deliver(p, c, "committed")
    /\ UNCHANGED <<workspace, approval, live, released, build, dispatches, channel>>

GitHubRefuses(p, c) ==
    /\ <<p, c>> \in wire
    /\ wire' = wire \ {<<p, c>>}
    /\ \/ ~HeadExpected(p) /\ Deliver(p, c, "moved")
       \/ Deliver(p, c, "rejected")
    /\ UNCHANGED <<workspace, approval, branch, live, released, build,
                   dispatches, channel>>

\* The handler's 30-second limit ends before GitHub is done with the request.
RequestTimesOut(p, c) ==
    /\ "late" \in Events
    /\ <<p, c>> \in wire /\ Waiting(p, c)
    /\ wire' = (wire \ {<<p, c>>}) \cup {<<p, None>>}
    /\ Answered(c, "ambiguous")
    /\ UNCHANGED <<workspace, approval, branch, live, released, build,
                   dispatches, channel>>

ExternalCommit ==
    /\ "external" \in Events
    /\ ProductionHead < MaxHead
    /\ branch' = Append(branch, None)
    /\ UNCHANGED <<workspace, approval, pub, call, wire, live, released, build,
                   dispatches, channel>>

BuildStep(i) ==
    /\ "builds" \in Events
    /\ i <= ProductionHead
    /\ \/ build[i] = "none" /\ build' = [build EXCEPT ![i] = "building"]
       \/ /\ build[i] = "building"
          /\ \E end \in {"success", "failed"} : build' = [build EXCEPT ![i] = end]
    /\ UNCHANGED <<workspace, approval, pub, call, branch, wire, live, released,
                   dispatches, channel>>

ManualBuildStep(d) ==
    LET To(state) == dispatches' = [dispatches EXCEPT ![d].state = state] IN
    /\ d \in DOMAIN dispatches
    /\ \/ dispatches[d].state = "sent" /\ (To("building") \/ To("refused"))
       \/ dispatches[d].state = "building" /\ (To("success") \/ To("failed"))
    /\ UNCHANGED <<workspace, approval, pub, call, branch, wire, live, released,
                   build, channel>>

\* A successful build of a commit makes the public site serve it.
Built(i) == \/ build[i] = "success"
            \/ \E d \in DOMAIN dispatches : /\ dispatches[d].sha = i
                                            /\ dispatches[d].state = "success"

GoLive(i) ==
    /\ i <= ProductionHead /\ i # live /\ Built(i)
    /\ live' = i
    /\ released' = released \cup {i}
    /\ UNCHANGED <<workspace, approval, pub, call, branch, wire, build,
                   dispatches, channel>>

ChangeChannel ==
    /\ "channel" \in Events
    /\ channel = 0
    /\ channel' = 1
    /\ UNCHANGED <<workspace, approval, pub, call, branch, wire, live, released,
                   build, dispatches>>

\* Clock assumptions: GitHub is done with a request within the minute, and the
\* five-minute lease covers the bounded request sequence, so that it does not
\* lapse under a request, nor the fifteen minutes end under a lease.
Undisturbed(p) == \A c \in Callers \cup {None} : <<p, c>> \notin wire

LeaseExpires(p) ==
    /\ pub[p].leased /\ Undisturbed(p)
    /\ pub' = [pub EXCEPT ![p].leased = FALSE]
    /\ UNCHANGED <<workspace, approval, call, external>>

TimePasses(p) ==
    /\ Active(p) /\ pub[p].age < 2 /\ Undisturbed(p)
    /\ pub[p].age = 1 => ~pub[p].leased
    /\ pub' = [pub EXCEPT ![p].age = @ + 1]
    /\ UNCHANGED <<workspace, approval, call, external>>

\* The Worker dies, or a read throws and the handler with it; a request it
\* has sent stays on the wire.
Crash(c) ==
    /\ "crash" \in Events
    /\ call[c].pc # "idle"
    /\ call' = [call EXCEPT ![c] = Idle]
    /\ wire' = {<<m[1], IF m[2] = c THEN None ELSE m[2]>> : m \in wire}
    /\ UNCHANGED <<workspace, approval, pub, branch, live, released, build,
                   dispatches, channel>>

-----------------------------------------------------------------------------
NoWorkspace == [open |-> FALSE, base |-> 0, revision |-> 0]
NoApproval == [state |-> "absent", workspace |-> None, channel |-> 0, revision |-> 0]

Init ==
    /\ workspace = [w \in Workspaces |-> NoWorkspace]
    /\ approval = [a \in Approvals |-> NoApproval]
    /\ pub = [p \in Pubs |-> NoRow]
    /\ call = [c \in Callers |-> Idle]
    /\ branch = <<>> /\ wire = {} /\ live = 0 /\ released = {0}
    /\ build = [i \in 1..MaxHead |-> "none"]
    /\ dispatches = <<>> /\ channel = 0

RefreshStep(c) ==
    \/ RefreshChannelVeto(c) \/ RefreshDispatching(c) \/ RefreshReconcile(c)
    \/ RefreshAmbiguousDispatch(c) \/ RefreshDeployment(c)

CallerStep(c) ==
    \/ RefreshStep(c) \/ WriteRow(c)
    \/ PublishPreflight(c) \/ claimPublication(c) \/ PublishGuard(c)
    \/ PublishRecheck(c) \/ CreateCommitCheck(c) \/ CreateCommitPost(c)
    \/ RevokeApproval(c) \/ SettleCommit(c)
    \/ RetryReconcile(c) \/ claimFailedPublicationRetry(c) \/ RetryLive(c)
    \/ RetryHead(c) \/ DispatchClaim(c) \/ DispatchCheck(c)
    \/ AssertDispatch(c) \/ DispatchBuild(c) \/ BuildAnswer(c) \/ SettleBuild(c)

Request ==
    \/ \E w \in Workspaces : OpenWorkspace(w) \/ SaveRevision(w)
    \/ \E w \in Workspaces, a \in Approvals : approve(w, a)
    \/ \E c \in Callers, a \in Approvals, key \in Pubs : publish(c, a, key)
    \/ \E c \in Callers, p \in Pubs : refresh(c, p) \/ retryDeployment(c, p)

GitHubStep == \E p \in Pubs, c \in Callers \cup {None} :
                  GitHubCommits(p, c) \/ GitHubRefuses(p, c)

Environment ==
    \/ \E c \in Callers : Crash(c) \/ RefreshAbandoned(c)
    \/ \E p \in Pubs, c \in Callers : RequestTimesOut(p, c)
    \/ ExternalCommit \/ ChangeChannel
    \/ \E i \in 1..MaxHead : BuildStep(i) \/ GoLive(i)
    \/ \E d \in 1..MaxDispatch : ManualBuildStep(d)

Clock == \E p \in Pubs : LeaseExpires(p) \/ TimePasses(p)

Next == \/ \E c \in Callers : CallerStep(c)
        \/ Request \/ GitHubStep \/ Environment \/ Clock

Spec == Init /\ [][Next]_vars

-----------------------------------------------------------------------------
(* Properties *)

TypeOK ==
    /\ workspace \in [Workspaces -> WorkspaceRecord]
    /\ approval \in [Approvals -> ApprovalRecord]
    /\ pub \in [Pubs -> Row]
    /\ call \in [Callers -> Call]
    /\ branch \in Seq(Pubs \cup {None}) /\ ProductionHead <= MaxHead
    /\ wire \subseteq Pubs \X (Callers \cup {None})
    /\ live \in 0..MaxHead /\ released \subseteq 0..MaxHead
    /\ build \in [1..MaxHead -> BuildStates]
    /\ dispatches \in Seq(Dispatch) /\ Len(dispatches) <= MaxDispatch
    /\ channel \in {0, 1}

\* The unique index serves one production slot to every workspace: whatever
\* claims, retries and dispatches race, one publication at most is active.
OneActivePublication == \A p, q \in ActivePubs : p = q

\* One approval moves production at most once, on top of the very commit it
\* approved: no retry, replay or restarted attempt commits it again, and the
\* commit recorded for a publication is its own.
OneExactCommit ==
    /\ \A i, j \in 1..ProductionHead :
         /\ branch[i] # None /\ branch[j] # None
         /\ pub[branch[i]].approval = pub[branch[j]].approval
         => i = j
    /\ \A p \in Pubs : pub[p].commitSha # 0 =>
         /\ pub[p].commitSha \in CommitsOf(p)
         /\ pub[p].commitSha = BaseOf(pub[p].approval) + 1

\* verified-live is said only of a commit the public site has served.
VerifiedWasServed ==
    \A p \in Pubs : pub[p].status = "verified-live" =>
        pub[p].commitSha \in released

\* A commit that reached the branch is recorded, or the publication still
\* says that its Git outcome is open, so that a refresh or an explicit retry
\* will find it (refreshPublication, retryDeployment).
LandedCommitAccounted ==
    \A p \in Pubs : Landed(p) =>
        \/ pub[p].commitSha # 0
        \/ pub[p].status \in {"requested", "unknown"}
        \/ /\ pub[p].status = "failed"
           /\ contentPublicationHasUnresolvedGitOutcome(pub[p])

\* A second manual build is never requested while an earlier one of the same
\* publication is unanswered, running or successful.
OpenBuild(d) == dispatches[d].state \in {"sent", "building", "success"}

NoSecondBuild ==
    \A d, e \in DOMAIN dispatches :
        /\ dispatches[d].pub = dispatches[e].pub
        /\ OpenBuild(d) /\ OpenBuild(e)
        => d = e

\* The durable dispatch fence: as long as a requested build may still run, the
\* publication says so or is verified live.
OpenBuildIsFenced ==
    \A d \in DOMAIN dispatches : OpenBuild(d) =>
        \/ pub[dispatches[d].pub].status = "verified-live"
        \/ deploymentRetryDispatchWasAttempted(pub[dispatches[d].pub])

\* A stale lease holder cannot advance the branch: when a commit lands, its
\* publication is still claimed under a live lease and its revision is the
\* one the workspace is at.
LandsUnderLease ==
    [][ProductionHead' > ProductionHead /\ branch'[ProductionHead'] # None =>
         LET row == pub[branch'[ProductionHead']] IN
         /\ row.status = "requested" /\ row.leased
         /\ approval[row.approval].revision = workspace[WorkspaceOf(row)].revision
      ]_vars

\* History is kept: a recorded commit is neither erased nor replaced, what is
\* verified or blocked stays so, and only an explicit retry makes a failed
\* publication active again.
HistoryStep ==
    \A p \in Pubs :
        /\ pub[p].commitSha # 0 => pub'[p].commitSha = pub[p].commitSha
        /\ pub[p].status \in {"verified-live", "blocked"} =>
             pub'[p].status = pub[p].status
        /\ pub[p].status = "failed" /\ pub'[p].status \in activeStatuses =>
             \E c \in Callers : call[c].retry /\ call[c].pub = p

HistoryIsKept == [][HistoryStep]_vars

-----------------------------------------------------------------------------
(* Fairness: the dashboard polls the active publication while it is open, a  *)
(* polled refresh is not cut short for ever, the other handlers run or die,  *)
(* GitHub answers and time goes on.                                          *)

Fairness ==
    /\ \A c \in Callers :
         WF_vars(CallerStep(c)) /\ SF_vars(RefreshStep(c)) /\ SF_vars(WriteRow(c))
    /\ \A c \in Callers, p \in Pubs : SF_vars(refresh(c, p))
    /\ WF_vars(GitHubStep)
    /\ \A p \in Pubs : WF_vars(LeaseExpires(p)) /\ WF_vars(TimePasses(p))

FairSpec == Spec /\ Fairness

\* No publication holds the production slot for ever.
SlotIsReleased == \A p \in Pubs : Active(p) ~> ~Active(p)

=============================================================================
