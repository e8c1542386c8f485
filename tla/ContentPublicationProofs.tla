----------------------- MODULE ContentPublicationProofs -----------------------
(***************************************************************************)
(* Theorems about ContentPublication, for every number of workspaces,      *)
(* approvals, publications and handlers.                                   *)
(***************************************************************************)
EXTENDS ContentPublication, FiniteSetTheorems, TLAPS

-----------------------------------------------------------------------------
(* The inductive invariant.  The parts that are carried from one step to    *)
(* the next take the tables they speak about as parameters.                 *)

Made(a, approvals) == a \in Approvals /\ approvals[a].state # "absent"

\* Only approvals that were made belong to a workspace.
ApprovalsOK == \A a \in Approvals : Made(a, approval) =>
                                      approval[a].workspace \in Workspaces

\* A publication that exists has an approval that was made; one that does
\* not exist has no commit.
RowOK(row, approvals) ==
    IF row.status = "absent" THEN row.commitSha = 0
    ELSE Made(row.approval, approvals)

RowsOK == \A p \in Pubs : RowOK(pub[p], approval)

RowSteps == PCs \ {"idle", "preflight", "claim"}
CommitKnown == {"retryHead", "dispatchClaim", "dispatchCheck", "assertDispatch",
                "build"}
RetrySteps == {"reconcile", "retryClaim", "retryLive"} \cup CommitKnown
CommitReplies == {"committed", "moved", "revoked", "rejected", "lost", "ambiguous"}
BuildReplies == {"accepted", "refused", "claimLost", "ambiguous"}

\* What a handler in flight may rely on.
HandlerOK(k, approvals, pubs, commits) ==
    /\ k.pc \in {"preflight", "claim"} => k.key \in Pubs
    /\ k.key # None => Made(k.approval, approvals)
    /\ k.pc \in RowSteps => /\ k.pub \in Pubs /\ pubs[k.pub].status # "absent"
                            /\ k.row.status # "absent"
                            /\ Made(k.row.approval, approvals)
    /\ k.pc = "settle" => k.reply \in CommitReplies
    /\ k.pc = "buildSettle" => k.reply \in BuildReplies
    /\ k.pc = "settle" /\ k.reply = "committed" =>
         \E i \in 1..Len(commits) : commits[i] = k.pub
    /\ k.pc \in CommitKnown => k.row.commitSha # 0
    /\ k.pc \in RetrySteps => k.retry /\ k.resume # "refresh"
    /\ k.pc = "write" /\ k.resume = "retryLive" => k.retry
    /\ k.pc = "write" /\ k.resume = "refresh" => k.row.status \in activeStatuses

\* A refresh whose copy nobody has overtaken is about an active publication.
FreshOK(k, pubs) ==
    k.fresh /\ ~k.retry /\ k.pc \in {"refresh", "write"} =>
        pubs[k.pub].status \in activeStatuses

HandlersOK == \A c \in Callers : /\ HandlerOK(call[c], approval, pub, branch)
                                 /\ FreshOK(call[c], pub)

Inv == TypeOK /\ ApprovalsOK /\ RowsOK /\ HandlersOK

-----------------------------------------------------------------------------
(* What every step keeps *)

\* No row but p's is written, and p's row only as the guards allow.
WriteAllowed(p, new) ==
    /\ new.status \in activeStatuses => Active(p) \/ ActivePubs \subseteq {p}
    /\ pub[p].commitSha # 0 => new.commitSha = pub[p].commitSha
    /\ pub[p].status \in {"verified-live", "blocked"} => new.status = pub[p].status
    /\ pub[p].status = "failed" /\ new.status \in activeStatuses =>
         \E c \in Callers : call[c].retry /\ call[c].pub = p

RowsKept == \/ pub' = pub
            \/ \E p \in Pubs, new \in Row : /\ pub' = [pub EXCEPT ![p] = new]
                                            /\ WriteAllowed(p, new)

\* Approvals are at most invalidated.
ApprovalMove == \/ UNCHANGED approval
                \/ \E a \in Approvals : /\ Made(a, approval)
                                        /\ approval' = invalidated(a)

\* The tables no handler owns: well typed, and the branch only grows.
OuterOK == /\ workspace' \in [Workspaces -> WorkspaceRecord]
           /\ branch' \in Seq(Pubs \cup {None}) /\ Len(branch') <= MaxHead
           /\ Len(branch) <= Len(branch')
           /\ \A i \in 1..Len(branch) : branch'[i] = branch[i]
           /\ wire' \subseteq Pubs \X (Callers \cup {None})
           /\ live' \in 0..MaxHead /\ released' \subseteq 0..MaxHead
           /\ build' \in [1..MaxHead -> BuildStates]
           /\ dispatches' \in Seq(Dispatch) /\ Len(dispatches') <= MaxDispatch
           /\ channel' \in {0, 1}

-----------------------------------------------------------------------------
(* Handlers and rows *)

\* The initial handler is a handler, and claims nothing.
LEMMA IdleOK ==
    /\ NoRow \in Row /\ Idle \in Call
    /\ \A approvals, pubs, commits : HandlerOK(Idle, approvals, pubs, commits)
    /\ \A pubs : FreshOK(Idle, pubs)
  <1>1. NoRow \in Row
    BY ConstantsAssumption DEF NoRow, Row, Statuses, activeStatuses, Details,
       unresolvedDetails, deploymentRetryDispatchEvidence, NoBuild
  <1>2. Idle \in Call
    BY <1>1, ConstantsAssumption DEF Idle, Call, PCs, Replies
  <1>3. /\ \A approvals, pubs, commits : HandlerOK(Idle, approvals, pubs, commits)
        /\ \A pubs : FreshOK(Idle, pubs)
    BY DEF HandlerOK, FreshOK, Idle, RowSteps, CommitKnown, RetrySteps
  <1> QED BY <1>1, <1>2, <1>3

\* The initial state satisfies the invariant.
LEMMA InitInv == Init => Inv
  <1> SUFFICES ASSUME Init PROVE Inv
    OBVIOUS
  <1>1. TypeOK
    BY IdleOK, ConstantsAssumption DEF Init, TypeOK, NoWorkspace, NoApproval,
       WorkspaceRecord, ApprovalRecord, BuildStates, ProductionHead
  <1>2. ApprovalsOK
    BY DEF Init, ApprovalsOK, NoApproval, Made
  <1>3. HandlersOK
    BY IdleOK DEF Init, HandlersOK
  <1>4. RowsOK
    BY DEF Init, RowsOK, RowOK, NoRow
  <1> QED BY <1>1, <1>2, <1>3, <1>4 DEF Inv

\* A step of the handlers alone leaves the outer tables in order.
LEMMA Quiet == ASSUME Inv, UNCHANGED <<workspace, external>> PROVE OuterOK
  BY DEF Inv, TypeOK, OuterOK, external, ProductionHead

\* Invalidating an approval that was made keeps approvals in order, and none
\* that was made is unmade.
LEMMA Approving ==
    ASSUME Inv, ApprovalMove
    PROVE  /\ approval' \in [Approvals -> ApprovalRecord]
           /\ ApprovalsOK'
           /\ \A a : Made(a, approval) => Made(a, approval')
  <1>1. CASE UNCHANGED approval
    BY <1>1 DEF Inv, TypeOK, ApprovalsOK
  <1>2. CASE \E a \in Approvals : Made(a, approval) /\ approval' = invalidated(a)
    <2> PICK a \in Approvals : Made(a, approval) /\ approval' = invalidated(a)
      BY <1>2
    <2>1. approval \in [Approvals -> ApprovalRecord]
      BY DEF Inv, TypeOK
    <2>2. approval' = [approval EXCEPT ![a].state = "invalidated"]
      BY DEF invalidated
    <2>3. approval' \in [Approvals -> ApprovalRecord]
      BY <2>1, <2>2 DEF ApprovalRecord
    <2>4. \A b \in Approvals : /\ approval'[b].workspace = approval[b].workspace
                               /\ Made(b, approval') <=> Made(b, approval)
      BY <2>1, <2>2 DEF Made, ApprovalRecord
    <2> QED BY <2>3, <2>4 DEF Inv, ApprovalsOK, Made
  <1> QED BY <1>1, <1>2 DEF ApprovalMove

\* What a handler relies on survives steps that unmake no approval, delete no
\* row and take no commit off the branch.
LEMMA HandlerStable ==
    ASSUME NEW k \in Call, NEW A1, NEW A2, NEW P1, NEW P2, NEW B1, NEW B2,
           HandlerOK(k, A1, P1, B1),
           \A a : Made(a, A1) => Made(a, A2),
           \A p \in Pubs : P1[p].status # "absent" => P2[p].status # "absent",
           Len(B1) \in Nat, Len(B2) \in Nat, Len(B1) <= Len(B2),
           \A i \in 1..Len(B1) : B2[i] = B1[i]
    PROVE  HandlerOK(k, A2, P2, B2)
  BY DEF HandlerOK

LEMMA CallerMove ==
    ASSUME Inv, NEW c \in Callers, NEW k \in Call, Goto(c, k), ApprovalMove, OuterOK,
           HandlerOK(k, approval, pub, branch'), FreshOK(k, pub)
    PROVE  Inv' /\ RowsKept
  <1>1. /\ pub' = pub /\ call' = [call EXCEPT ![c] = k]
        /\ call \in [Callers -> Call] /\ pub \in [Pubs -> Row]
        /\ Len(branch) \in Nat /\ Len(branch') \in Nat
    BY DEF Goto, Inv, TypeOK, OuterOK
  <1>2. call' \in [Callers -> Call] /\ pub' \in [Pubs -> Row]
    BY <1>1
  <1>3. TypeOK'
    BY <1>2, Approving DEF TypeOK, OuterOK, ProductionHead
  <1>4. RowsOK'
    BY <1>1, Approving DEF Inv, RowsOK, RowOK
  <1>5. ASSUME NEW d \in Callers
        PROVE  HandlerOK(call'[d], approval', pub', branch') /\ FreshOK(call'[d], pub')
    <2>1. CASE d = c
      BY <2>1, <1>1, Approving, HandlerStable
    <2>2. CASE d # c
      <3>1. call'[d] = call[d] /\ call[d] \in Call
        BY <2>2, <1>1
      <3>2. HandlerOK(call[d], approval, pub, branch) /\ FreshOK(call[d], pub)
        BY DEF Inv, HandlersOK
      <3> QED BY <3>1, <3>2, <1>1, Approving, HandlerStable DEF OuterOK
    <2> QED BY <2>1, <2>2
  <1> QED BY <1>1, <1>3, <1>4, <1>5, Approving DEF Inv, HandlersOK, RowsKept

LEMMA CallerStore ==
    ASSUME Inv, NEW c \in Callers, NEW p \in Pubs, NEW row \in Row, NEW k \in Call,
           Store(c, p, row, k), ApprovalMove, OuterOK,
           row.status # "absent", Made(row.approval, approval),
           WriteAllowed(p, row),
           HandlerOK(k, approval, [pub EXCEPT ![p] = row], branch'),
           FreshOK(k, [pub EXCEPT ![p] = row])
    PROVE  Inv' /\ RowsKept
  <1>1. /\ pub' = [pub EXCEPT ![p] = row]
        /\ call' = [d \in Callers |->
                      IF d = c THEN k
                      ELSE IF call[d].pub = p THEN [call[d] EXCEPT !.fresh = FALSE]
                      ELSE call[d]]
        /\ call \in [Callers -> Call] /\ pub \in [Pubs -> Row]
        /\ Len(branch) \in Nat /\ Len(branch') \in Nat
    BY DEF Store, Inv, TypeOK, OuterOK
  <1>2. /\ pub' \in [Pubs -> Row]
        /\ \A q \in Pubs : pub[q].status # "absent" => pub'[q].status # "absent"
    BY <1>1
  <1>3. ASSUME NEW d \in Callers
        PROVE  /\ call'[d] \in Call
               /\ HandlerOK(call'[d], approval', pub', branch')
               /\ FreshOK(call'[d], pub')
    <2>1. CASE d = c
      BY <2>1, <1>1, Approving, HandlerStable
    <2>2. CASE d # c /\ call[d].pub = p
      <3>1. call'[d] = [call[d] EXCEPT !.fresh = FALSE] /\ call[d] \in Call
        BY <2>2, <1>1
      <3>2. call'[d] \in Call /\ call'[d].fresh = FALSE
        BY <3>1 DEF Call
      <3>3. HandlerOK(call[d], approval, pub, branch)
        BY DEF Inv, HandlersOK
      <3>4. HandlerOK(call[d], approval', pub', branch')
        BY <3>1, <3>3, <1>1, <1>2, Approving, HandlerStable DEF OuterOK
      <3>5. HandlerOK(call'[d], approval', pub', branch')
        BY <3>1, <3>4 DEF HandlerOK, Call
      <3> QED BY <3>2, <3>5 DEF FreshOK
    <2>3. CASE d # c /\ call[d].pub # p
      <3>1. call'[d] = call[d] /\ call[d] \in Call
        BY <2>3, <1>1
      <3>2. HandlerOK(call[d], approval, pub, branch) /\ FreshOK(call[d], pub)
        BY DEF Inv, HandlersOK
      <3>3. HandlerOK(call[d], approval', pub', branch')
        BY <3>1, <3>2, <1>1, <1>2, Approving, HandlerStable DEF OuterOK
      <3>4. FreshOK(call[d], pub')
        <4> SUFFICES ASSUME call[d].fresh, ~call[d].retry,
                            call[d].pc \in {"refresh", "write"}
                     PROVE  pub'[call[d].pub].status \in activeStatuses
          BY DEF FreshOK
        <4>1. call[d].pub \in Pubs
          BY <3>2 DEF HandlerOK, RowSteps, PCs
        <4> QED BY <4>1, <3>2, <2>3, <1>1 DEF FreshOK
      <3> QED BY <3>1, <3>3, <3>4
    <2> QED BY <2>1, <2>2, <2>3
  <1>4. call' \in [Callers -> Call]
    BY <1>1, <1>3
  <1>5. TypeOK'
    BY <1>2, <1>4, Approving DEF TypeOK, OuterOK, ProductionHead
  <1>6. RowsOK'
    BY <1>1, Approving DEF Inv, RowsOK, RowOK
  <1> QED BY <1>1, <1>3, <1>5, <1>6, Approving DEF Inv, HandlersOK, RowsKept

-----------------------------------------------------------------------------
(* Refresh *)

LEMMA CallerFacts ==
    ASSUME Inv, NEW c \in Callers
    PROVE  /\ call[c] \in Call /\ call[c].row \in Row
           /\ HandlerOK(call[c], approval, pub, branch) /\ FreshOK(call[c], pub)
  BY DEF Inv, TypeOK, HandlersOK, Call

\* The handler publish goes on with after the refresh it made first.
LEMMA AfterRefreshOK ==
    ASSUME NEW k \in Call, NEW A, NEW P, NEW B, HandlerOK(k, A, P, B)
    PROVE  /\ AfterRefresh(k) \in Call
           /\ \A Q, C : HandlerOK(AfterRefresh(k), A, Q, C)
           /\ \A Q : FreshOK(AfterRefresh(k), Q)
  <1>1. AfterRefresh(k) \in Call
    BY IdleOK DEF AfterRefresh, Idle, Call, PCs
  <1>2. CASE k.key = None
    BY <1>1, <1>2, IdleOK DEF AfterRefresh
  <1>3. CASE k.key # None
    <2>1. k.key \in Pubs /\ Made(k.approval, A)
      BY <1>3 DEF HandlerOK, Call
    <2>2. AfterRefresh(k) = [Idle EXCEPT !.pc = "preflight", !.key = k.key,
                                  !.approval = k.approval, !.release = k.release]
      BY <1>3 DEF AfterRefresh
    <2> QED BY <1>1, <2>1, <2>2 DEF HandlerOK, FreshOK, Idle, RowSteps, CommitKnown, RetrySteps
  <1> QED BY <1>2, <1>3

\* Ending a refresh without a write.
LEMMA UnchangedInv ==
    ASSUME Inv, NEW c \in Callers, Unchanged(c),
           UNCHANGED <<workspace, approval, external>>
    PROVE  Inv' /\ RowsKept
  <1> DEFINE k == AfterRefresh(call[c])
  <1>1. OuterOK
    BY Quiet DEF external
  <1>2. k \in Call /\ HandlerOK(k, approval, pub, branch') /\ FreshOK(k, pub)
    BY CallerFacts, AfterRefreshOK
  <1> QED BY <1>1, <1>2, CallerMove DEF Unchanged, ApprovalMove

\* Going on to the guarded write.
LEMMA RefreshedInv ==
    ASSUME Inv, NEW c \in Callers, call[c].pc = "refresh",
           NEW new \in Row, NEW resume \in {"end", "refresh"}, Refreshed(c, new, resume),
           new.status # "absent", new.approval = call[c].row.approval,
           resume = "refresh" => new.status \in activeStatuses,
           UNCHANGED <<workspace, approval, external>>
    PROVE  Inv' /\ RowsKept
  <1> DEFINE k == [call[c] EXCEPT !.pc = "write", !.row = new, !.resume = resume]
  <1>1. OuterOK /\ branch' = branch
    BY Quiet DEF external
  <1>2. k \in Call
    BY CallerFacts DEF Call, PCs
  <1>3. HandlerOK(k, approval, pub, branch) /\ FreshOK(k, pub)
    BY CallerFacts DEF HandlerOK, FreshOK, Call, RowSteps, CommitKnown, RetrySteps, PCs
  <1> QED BY <1>1, <1>2, <1>3, CallerMove DEF Refreshed, ApprovalMove

\* The row of a handler past its claim.
LEMMA RowStepFacts ==
    ASSUME Inv, NEW c \in Callers, call[c].pc \in RowSteps
    PROVE  /\ call[c].pub \in Pubs /\ pub[call[c].pub].status # "absent"
           /\ call[c].row.status # "absent" /\ Made(call[c].row.approval, approval)
           /\ call[c].row \in Row
  BY CallerFacts DEF HandlerOK

\* The statuses and details the handlers write.
LEMMA Words ==
    /\ {"requested", "committed", "building", "deployed", "unknown", "blocked",
        "failed", "verified-live"} \subseteq Statuses
    /\ activeStatuses \cap {"absent", "blocked", "failed", "verified-live"} = {}
    /\ {"none", "approval_stale", "publication_in_progress",
        "publication_lease_lost", "production_head_moved", "git_operation_failed",
        "git_commit_reconciled", "git_result_unknown",
        "release_marker_pending", "release_marker_timeout",
        "cloudflare_build_failed", "deployment_signal_timeout",
        "deployment_retry_failed", "deployment_retry_claim_lost",
        "deployment_retry_head_moved", "deployment_retry_head_unavailable",
        "deployment_retry_dispatching", "deployment_retry_reconciled",
        "deployment_retry_requested", "deployment_retry_result_unknown",
        "deployment_retry_timeout"} \subseteq Details
  BY DEF Statuses, activeStatuses, Details, deploymentRetryDispatchEvidence,
     unresolvedDetails

\* Writing a status and a detail, the lease released or not, keeps a row a row.
LEMMA RowWith ==
    ASSUME NEW row \in Row, NEW s \in Statuses, NEW d \in Details
    PROVE  /\ [row EXCEPT !.status = s, !.detail = d] \in Row
           /\ [row EXCEPT !.status = s, !.detail = d].status = s
           /\ [row EXCEPT !.status = s, !.detail = d].approval = row.approval
           /\ [row EXCEPT !.status = s, !.detail = d].commitSha = row.commitSha
  BY DEF Row

LEMMA ChannelFailureInv ==
    ASSUME Inv, NEW c \in Callers, NEW failure, call[c].pc = "refresh",
           ChannelFailure(c, call[c].row, failure),
           UNCHANGED <<workspace, approval, external>>
    PROVE  Inv' /\ RowsKept
  <1> DEFINE row == call[c].row
             detail == IF deploymentRetryDispatchWasAttempted(row)
                       THEN "deployment_retry_timeout"
                       ELSE IF contentPublicationHasUnresolvedGitOutcome(row)
                       THEN row.detail
                       ELSE IF failure = "changed" THEN "publication_channel_changed"
                       ELSE "publication_channel_unavailable"
             new == [row EXCEPT !.status = "failed", !.detail = detail]
  <1>1. CASE row.age = 2
    <2>1. Refreshed(c, new, "end")
      BY <1>1 DEF ChannelFailure
    <2>2. row \in Row
      BY CallerFacts
    <2>3. detail \in Details /\ "failed" \in Statuses
      BY <2>2 DEF Details, deploymentRetryDispatchEvidence, Row, Statuses
    <2>4. new \in Row /\ new.status = "failed" /\ new.approval = row.approval
      <3> HIDE DEF detail
      <3> QED BY <2>2, <2>3, RowWith
    <2> HIDE DEF new
    <2> QED BY <2>1, <2>4, RefreshedInv
  <1>2. CASE row.age # 2
    BY <1>2, UnchangedInv DEF ChannelFailure
  <1> QED BY <1>1, <1>2

LEMMA RefreshChannelVetoInv ==
    ASSUME Inv, NEW c \in Callers, RefreshChannelVeto(c) PROVE Inv' /\ RowsKept
  BY ChannelFailureInv DEF RefreshChannelVeto

LEMMA RefreshDispatchingInv ==
    ASSUME Inv, NEW c \in Callers, RefreshDispatching(c) PROVE Inv' /\ RowsKept
  <1> DEFINE row == call[c].row
             new == [row EXCEPT !.status = "unknown", !.deploymentId = NoBuild,
                                !.detail = "deployment_retry_result_unknown"]
  <1>1. /\ call[c].pc = "refresh" /\ UNCHANGED <<workspace, approval, external>>
        /\ Unchanged(c) \/ Refreshed(c, new, "end")
    BY DEF RefreshDispatching
  <1>2. new \in Row /\ new.status = "unknown" /\ new.approval = row.approval
    <2>1. /\ row \in Row /\ NoBuild \in -1..MaxDispatch
          /\ "unknown" \in Statuses /\ "deployment_retry_result_unknown" \in Details
      BY CallerFacts, Words, ConstantsAssumption DEF NoBuild
    <2> QED BY <2>1 DEF Row
  <1> HIDE DEF new
  <1> QED BY <1>1, <1>2, UnchangedInv, RefreshedInv

\* The commit found for a publication is one of the branch.
LEMMA CommitFound ==
    ASSUME NEW p, Len(branch) \in Nat, Landed(p)
    PROVE  /\ CommitOf(p) \in 1..Len(branch) /\ branch[CommitOf(p)] = p
           /\ \E i \in 1..Len(branch) : branch[i] = p
  BY DEF Landed, CommitOf, CommitsOf, ProductionHead

LEMMA RefreshReconcileInv ==
    ASSUME Inv, NEW c \in Callers, RefreshReconcile(c) PROVE Inv' /\ RowsKept
  <1> DEFINE row == call[c].row
             p == call[c].pub
             found == [row EXCEPT !.status = "committed", !.commitSha = CommitOf(p),
                                  !.detail = "none", !.lease = None, !.leased = FALSE]
             gone(d) == [row EXCEPT !.status = "failed", !.detail = d,
                                    !.lease = None, !.leased = FALSE]
  <1>1. /\ call[c].pc = "refresh" /\ UNCHANGED <<workspace, approval, external>>
        /\ \/ Unchanged(c)
           \/ Landed(p) /\ Refreshed(c, found, "refresh")
           \/ \E seen : ChannelFailure(c, row, seen)
           \/ \E seen : Refreshed(c, gone(NotFoundDetail(row, seen)), "end")
    BY DEF RefreshReconcile, ReconcileReads
  <1>2. row \in Row
    BY CallerFacts
  <1>3. ASSUME Landed(p)
        PROVE  found \in Row /\ found.status = "committed" /\ found.approval = row.approval
    <2>1. CommitOf(p) \in 0..MaxHead
      BY <1>3, CommitFound, ConstantsAssumption DEF Inv, TypeOK, ProductionHead
    <2> QED BY <1>2, <2>1 DEF Row, Statuses, activeStatuses, Details
  <1>4. ASSUME NEW d \in Details
        PROVE  gone(d) \in Row /\ gone(d).status = "failed" /\ gone(d).approval = row.approval
    BY <1>2 DEF Row, Statuses
  <1>5. \A seen : NotFoundDetail(row, seen) \in Details
    BY DEF NotFoundDetail, Details, unresolvedDetails
  <1>6. CASE Landed(p) /\ Refreshed(c, found, "refresh")
    <2> HIDE DEF found
    <2> QED BY <1>1, <1>3, <1>6, RefreshedInv DEF activeStatuses
  <1>7. CASE \E seen : Refreshed(c, gone(NotFoundDetail(row, seen)), "end")
    <2> PICK d \in Details : Refreshed(c, gone(d), "end")
      BY <1>5, <1>7
    <2> gone(d) \in Row /\ gone(d).status = "failed" /\ gone(d).approval = row.approval
      BY <1>4
    <2> HIDE DEF gone
    <2> QED BY <1>1, RefreshedInv
  <1> QED BY <1>1, <1>6, <1>7, UnchangedInv, ChannelFailureInv

LEMMA VerifiedLiveOK ==
    ASSUME NEW row \in Row
    PROVE  /\ VerifiedLive(row) \in Row /\ VerifiedLive(row).status = "verified-live"
           /\ VerifiedLive(row).approval = row.approval
           /\ VerifiedLive(row).commitSha = row.commitSha
  <1>1. "verified-live" \in Statuses /\ "none" \in Details
    BY Words
  <1> QED BY <1>1 DEF VerifiedLive, Row

LEMMA RefreshAmbiguousDispatchInv ==
    ASSUME Inv, NEW c \in Callers, RefreshAmbiguousDispatch(c) PROVE Inv' /\ RowsKept
  <1> DEFINE row == call[c].row
             late == [row EXCEPT !.status = "failed",
                                 !.detail = "deployment_retry_timeout"]
  <1>1. /\ call[c].pc = "refresh" /\ UNCHANGED <<workspace, approval, external>>
        /\ Unchanged(c) \/ Refreshed(c, VerifiedLive(row), "end")
                        \/ Refreshed(c, late, "end")
    BY DEF RefreshAmbiguousDispatch
  <1>2. row \in Row
    BY CallerFacts
  <1>3. late \in Row /\ late.status = "failed" /\ late.approval = row.approval
    <2>1. "failed" \in Statuses /\ "deployment_retry_timeout" \in Details
      BY Words
    <2> QED BY <1>2, <2>1 DEF Row
  <1> HIDE DEF late
  <1> QED BY <1>1, <1>2, <1>3, VerifiedLiveOK, UnchangedInv, RefreshedInv

\* What a deployment read can say.
LEMMA DeploymentReadsRange ==
    ASSUME NEW row
    PROVE  DeploymentReads(row) \subseteq
             {"requested", "building", "deployed", "failed", "unknown"}
  <1>1. \A state : BuildStatus(state) \in {"requested", "building", "deployed", "failed"}
    BY DEF BuildStatus
  <1> QED BY <1>1 DEF DeploymentReads

LEMMA OutcomeOK ==
    ASSUME NEW row \in Row, NEW marker,
           NEW observed \in {"requested", "building", "deployed", "failed", "unknown"}
    PROVE  LET new == DeploymentOutcome(row, observed, marker)
           IN  /\ new \in Row /\ new.status # "absent" /\ new.approval = row.approval
               /\ new.commitSha = row.commitSha
  <1> DEFINE To(s, d) == [row EXCEPT !.status = s, !.detail = d]
             Good(r) == /\ r \in Row /\ r.status # "absent"
                        /\ r.approval = row.approval /\ r.commitSha = row.commitSha
  <1>1. ASSUME NEW s \in Statuses \ {"absent"}, NEW d \in Details PROVE Good(To(s, d))
    BY <1>1 DEF Row
  <1>2. \A d \in Details : \A failed : Fenced(row, d, failed) \in Details
    BY DEF Fenced, Details, deploymentRetryDispatchEvidence
  <1>3. Good(VerifiedLive(row))
    BY VerifiedLiveOK
  <1>4. /\ observed \in Statuses \ {"absent"}
        /\ {"failed", "deployed"} \subseteq Statuses \ {"absent"}
        /\ {"release_marker_timeout", "release_marker_pending", "none",
            "cloudflare_build_failed", "deployment_signal_timeout"} \subseteq Details
    BY Words
  <1>5. \/ DeploymentOutcome(row, observed, marker) = VerifiedLive(row)
        \/ \E s \in {"failed", "deployed", observed}, failed \in BOOLEAN,
              d \in {"release_marker_timeout", "release_marker_pending", "none",
                     "cloudflare_build_failed", "deployment_signal_timeout"} :
              DeploymentOutcome(row, observed, marker) = To(s, Fenced(row, d, failed))
    BY DEF DeploymentOutcome
  <1> HIDE DEF To, Good
  <1>6. Good(DeploymentOutcome(row, observed, marker))
    BY <1>1, <1>2, <1>3, <1>4, <1>5
  <1> QED BY <1>6 DEF Good

LEMMA RefreshDeploymentInv ==
    ASSUME Inv, NEW c \in Callers, RefreshDeployment(c) PROVE Inv' /\ RowsKept
  <1> DEFINE row == call[c].row
  <1>1. /\ call[c].pc = "refresh" /\ UNCHANGED <<workspace, approval, external>>
        /\ \/ Unchanged(c)
           \/ \E observed \in DeploymentReads(row) : \E marker :
                Refreshed(c, DeploymentOutcome(row, observed, marker), "end")
    BY DEF RefreshDeployment
  <1>2. CASE Unchanged(c)
    BY <1>1, <1>2, UnchangedInv
  <1>3. CASE \E observed \in DeploymentReads(row) : \E marker :
               Refreshed(c, DeploymentOutcome(row, observed, marker), "end")
    BY <1>1, <1>3, CallerFacts, DeploymentReadsRange, OutcomeOK, RefreshedInv
  <1> QED BY <1>1, <1>2, <1>3

LEMMA RefreshAbandonedInv ==
    ASSUME Inv, NEW c \in Callers, RefreshAbandoned(c) PROVE Inv' /\ RowsKept
  BY UnchangedInv DEF RefreshAbandoned

\* A row that is written keeps the clocks of the row it replaces.
LEMMA TimedOK ==
    ASSUME Inv, NEW p \in Pubs, NEW new \in Row
    PROVE  /\ Timed(p, new) \in Row /\ Timed(p, new).status = new.status
           /\ Timed(p, new).commitSha = new.commitSha
           /\ Timed(p, new).approval = new.approval
  <1>1. pub[p] \in Row
    BY DEF Inv, TypeOK
  <1> QED BY <1>1 DEF Timed, Row

\* The handler after a write, whether it was won or lost.
LEMMA AfterWriteOK ==
    ASSUME Inv, NEW c \in Callers, call[c].pc = "write", NEW won \in BOOLEAN, NEW P,
           P[call[c].pub].status # "absent",
           won => P[call[c].pub].status = call[c].row.status
    PROVE  /\ AfterWrite(c, won) \in Call
           /\ HandlerOK(AfterWrite(c, won), approval, P, branch)
           /\ FreshOK(AfterWrite(c, won), P)
  <1> DEFINE k == call[c]
             refreshing == [k EXCEPT !.pc = "refresh", !.resume = "end"]
             retrying == [k EXCEPT !.pc = "retryLive", !.resume = "end", !.fresh = TRUE,
                                   !.row = IF won THEN k.row ELSE pub[k.pub]]
  <1>0. call[c].pc \in RowSteps
    BY DEF RowSteps, PCs
  <1>1. /\ k \in Call /\ k.pub \in Pubs /\ k.row \in Row /\ k.row.status # "absent"
        /\ pub[k.pub] \in Row /\ pub[k.pub].status # "absent"
        /\ Made(k.row.approval, approval) /\ Made(pub[k.pub].approval, approval)
        /\ HandlerOK(k, approval, pub, branch)
    BY <1>0, CallerFacts, RowStepFacts DEF Inv, TypeOK, RowsOK, RowOK
  <1>2. CASE k.resume = "refresh" /\ won
    <2>1. refreshing \in Call
      BY <1>1 DEF Call, PCs
    <2>2. HandlerOK(refreshing, approval, P, branch) /\ FreshOK(refreshing, P)
      BY <1>1, <1>2 DEF HandlerOK, FreshOK, Call, RowSteps, CommitKnown, RetrySteps
    <2> QED BY <1>2, <2>1, <2>2 DEF AfterWrite
  <1>3. CASE k.resume = "retryLive"
    <2>1. retrying \in Call
      BY <1>1 DEF Call, PCs
    <2>2. HandlerOK(retrying, approval, P, branch) /\ FreshOK(retrying, P)
      BY <1>1, <1>3, <2>1 DEF HandlerOK, FreshOK, Call, RowSteps, CommitKnown, RetrySteps
    <2> QED BY <1>3, <2>1, <2>2 DEF AfterWrite
  <1>4. CASE ~(k.resume = "refresh" /\ won) /\ k.resume # "retryLive"
    BY <1>1, <1>4, AfterRefreshOK DEF AfterWrite
  <1> QED BY <1>2, <1>3, <1>4

LEMMA WriteRowInv ==
    ASSUME Inv, NEW c \in Callers, WriteRow(c) PROVE Inv' /\ RowsKept
  <1> DEFINE k == call[c]
             p == k.pub
             row == Timed(p, k.row)
             stored == [pub EXCEPT ![p] = row]
  <1>1. /\ k.pc = "write" /\ UNCHANGED <<workspace, approval, external>>
        /\ UpdateFresh(c, p, ExpectedStatus(c), k.row, AfterWrite(c, TRUE),
                       AfterWrite(c, FALSE))
    BY DEF WriteRow
  <1>2. /\ OuterOK /\ ApprovalMove /\ branch' = branch
    BY <1>1, Quiet DEF external, ApprovalMove
  <1>3. k.pc \in RowSteps
    BY <1>1 DEF RowSteps, PCs
  <1>4. /\ p \in Pubs /\ k.row \in Row /\ k.row.status # "absent"
        /\ pub[p].status # "absent" /\ Made(k.row.approval, approval) /\ FreshOK(k, pub)
    BY <1>3, RowStepFacts, CallerFacts
  <1>5. CASE /\ k.fresh /\ pub[p].status = ExpectedStatus(c)
             /\ UpdatePermitted(pub[p], k.row) /\ OneActivePermits(p, k.row)
    <2>1. Store(c, p, row, AfterWrite(c, TRUE))
      BY <1>1, <1>5 DEF UpdateFresh
    <2>2. row \in Row /\ row.status = k.row.status /\ row.approval = k.row.approval
          /\ row.commitSha = k.row.commitSha
      BY <1>4, TimedOK
    <2>3. WriteAllowed(p, row)
      <3>1. pub[p].status \in {"failed"} \cup activeStatuses
        BY <1>1, <1>4, <1>5 DEF ExpectedStatus, FreshOK
      <3>2. pub[p].status \notin {"verified-live", "blocked"}
        BY <3>1, Words
      <3>3. row.status \in activeStatuses => ActivePubs \subseteq {p}
        BY <1>5, <2>2 DEF OneActivePermits
      <3>4. pub[p].commitSha # 0 => row.commitSha = pub[p].commitSha
        BY <1>5, <2>2 DEF UpdatePermitted
      <3>5. pub[p].status = "failed" => k.retry
        BY <1>1, <1>4, <1>5, Words DEF FreshOK
      <3> QED BY <3>2, <3>3, <3>4, <3>5 DEF WriteAllowed
    <2>4. stored[p].status = k.row.status
      BY <1>4, <2>2 DEF Inv, TypeOK
    <2>5. /\ AfterWrite(c, TRUE) \in Call
          /\ HandlerOK(AfterWrite(c, TRUE), approval, stored, branch')
          /\ FreshOK(AfterWrite(c, TRUE), stored)
      BY <1>1, <1>2, <1>4, <2>4, AfterWriteOK
    <2> QED BY <1>2, <1>4, <2>1, <2>2, <2>3, <2>5, CallerStore
  <1>6. CASE ~(/\ k.fresh /\ pub[p].status = ExpectedStatus(c)
               /\ UpdatePermitted(pub[p], k.row) /\ OneActivePermits(p, k.row))
    <2>1. Goto(c, AfterWrite(c, FALSE))
      BY <1>1, <1>6 DEF UpdateFresh
    <2>2. /\ AfterWrite(c, FALSE) \in Call
          /\ HandlerOK(AfterWrite(c, FALSE), approval, pub, branch')
          /\ FreshOK(AfterWrite(c, FALSE), pub)
      BY <1>1, <1>2, <1>4, AfterWriteOK
    <2> QED BY <1>2, <2>1, <2>2, CallerMove
  <1> QED BY <1>5, <1>6

-----------------------------------------------------------------------------
(* Handlers that go on *)

\* A handler ends.
LEMMA StopInv ==
    ASSUME Inv, NEW c \in Callers, Goto(c, Idle), ApprovalMove, OuterOK
    PROVE  Inv' /\ RowsKept
  BY IdleOK, CallerMove

\* A handler goes on to a step that neither refreshes, writes nor settles.
LEMMA GoOnInv ==
    ASSUME Inv, NEW c \in Callers, call[c].pc \in RowSteps,
           NEW x \in RowSteps \ {"refresh", "write", "settle", "buildSettle"},
           Goto(c, [call[c] EXCEPT !.pc = x]), ApprovalMove, OuterOK,
           x \in CommitKnown => call[c].row.commitSha # 0,
           x \in RetrySteps => call[c].retry /\ call[c].resume # "refresh"
    PROVE  Inv' /\ RowsKept
  <1> DEFINE k == [call[c] EXCEPT !.pc = x]
  <1>1. k \in Call /\ k.pc = x
    BY CallerFacts DEF Call, RowSteps
  <1>2. HandlerOK(k, approval, pub, branch') /\ FreshOK(k, pub)
    BY <1>1, CallerFacts DEF HandlerOK, FreshOK, Call, RowSteps
  <1> QED BY <1>1, <1>2, CallerMove

\* A handler is answered.
LEMMA ReplyInv ==
    ASSUME Inv, NEW c \in Callers, call[c].pc \in RowSteps,
           NEW x, NEW r,
           Goto(c, [call[c] EXCEPT !.pc = x, !.reply = r]), ApprovalMove, OuterOK,
           \/ x = "settle" /\ r \in CommitReplies
           \/ x = "buildSettle" /\ r \in BuildReplies,
           r = "committed" => \E i \in 1..Len(branch') : branch'[i] = call[c].pub
    PROVE  Inv' /\ RowsKept
  <1> DEFINE k == [call[c] EXCEPT !.pc = x, !.reply = r]
  <1>1. x \in PCs /\ r \in Replies
    BY DEF PCs, commitSteps, dispatchSteps, Replies, CommitReplies, BuildReplies
  <1>2. k \in Call /\ k.pc = x /\ k.reply = r
    BY <1>1, CallerFacts DEF Call
  <1>3. HandlerOK(k, approval, pub, branch') /\ FreshOK(k, pub)
    BY <1>2, CallerFacts DEF HandlerOK, FreshOK, Call, CommitKnown, RetrySteps
  <1> QED BY <1>2, <1>3, CallerMove

\* The approval of a handler's row is spent.
LEMMA Spent ==
    ASSUME Inv, NEW c \in Callers, call[c].pc \in RowSteps,
           approval' = invalidated(call[c].row.approval)
    PROVE  ApprovalMove
  BY RowStepFacts DEF ApprovalMove, Made

\* A write under a lease.
LEMMA LeasedInv ==
    ASSUME Inv, NEW c \in Callers, call[c].pc \in RowSteps, NEW valid, NEW new \in Row,
           UpdateLeased(c, call[c].pub, valid, new), ApprovalMove, OuterOK,
           new.status # "absent", Made(new.approval, approval)
    PROVE  Inv' /\ RowsKept
  <1> DEFINE p == call[c].pub
             freed == [new EXCEPT !.lease = None, !.leased = FALSE]
             row == Timed(p, freed)
  <1>1. CASE /\ HoldsLease(c, p) /\ (valid => pub[p].leased)
             /\ UpdatePermitted(pub[p], new)
    <2>1. Store(c, p, row, Idle)
      BY <1>1 DEF UpdateLeased
    <2>2. /\ freed \in Row /\ freed.status = new.status
          /\ freed.commitSha = new.commitSha /\ freed.approval = new.approval
      BY DEF Row
    <2>3. p \in Pubs
      BY RowStepFacts
    <2>4. /\ row \in Row /\ row.status = new.status
          /\ row.commitSha = new.commitSha /\ row.approval = new.approval
      <3> HIDE DEF freed
      <3> QED BY <2>2, <2>3, TimedOK
    <2>5. pub[p].status \in {"requested", "committed"}
      BY <1>1 DEF HoldsLease
    <2>6. WriteAllowed(p, row)
      BY <1>1, <2>4, <2>5 DEF WriteAllowed, UpdatePermitted, Active, activeStatuses
    <2> QED BY <2>1, <2>3, <2>4, <2>6, IdleOK, CallerStore
  <1>2. CASE ~(/\ HoldsLease(c, p) /\ (valid => pub[p].leased)
               /\ UpdatePermitted(pub[p], new))
    BY <1>2, StopInv DEF UpdateLeased
  <1> QED BY <1>1, <1>2

\* A write that gives a dispatch claim up.
LEMMA DispatchWriteInv ==
    ASSUME Inv, NEW c \in Callers, call[c].pc \in RowSteps, NEW new \in Row,
           NEW next \in Call, DispatchWrite(c, new, next), ApprovalMove, OuterOK,
           new.status # "absent", Made(new.approval, approval),
           next.pc = "idle" \/ next.pc = "buildSettle",
           HandlerOK(next, approval, pub, branch')
    PROVE  Inv' /\ RowsKept
  <1> DEFINE p == call[c].pub
             row == Timed(p, new)
             stored == [pub EXCEPT ![p] = row]
  <1>1. \A P : FreshOK(next, P)
    BY DEF FreshOK
  <1>2. CASE /\ call[c].fresh /\ HoldsLease(c, p) /\ pub[p].status = "committed"
             /\ UpdatePermitted(pub[p], new)
    <2>1. Store(c, p, row, next)
      BY <1>2 DEF DispatchWrite
    <2>2. p \in Pubs /\ pub \in [Pubs -> Row]
      BY RowStepFacts DEF Inv, TypeOK
    <2>3. /\ row \in Row /\ row.status = new.status
          /\ row.commitSha = new.commitSha /\ row.approval = new.approval
      BY <2>2, TimedOK
    <2>4. WriteAllowed(p, row)
      BY <1>2, <2>3 DEF WriteAllowed, UpdatePermitted, Active, activeStatuses
    <2>5. \A q \in Pubs : pub[q].status # "absent" => stored[q].status # "absent"
      BY <2>2, <2>3
    <2>6. HandlerOK(next, approval, stored, branch')
      <3> HIDE DEF stored
      <3> QED BY <2>5 DEF HandlerOK
    <2> QED BY <1>1, <2>1, <2>2, <2>3, <2>4, <2>6, CallerStore
  <1>3. CASE ~(/\ call[c].fresh /\ HoldsLease(c, p) /\ pub[p].status = "committed"
               /\ UpdatePermitted(pub[p], new))
    BY <1>1, <1>3, CallerMove DEF DispatchWrite
  <1> QED BY <1>2, <1>3

-----------------------------------------------------------------------------
(* Requests *)

LEMMA ReadingOK ==
    ASSUME Inv, NEW c \in Callers, NEW p \in Pubs, pub[p].status # "absent"
    PROVE  /\ Reading(c, p) \in Call
           /\ HandlerOK(Reading(c, p), approval, pub, branch)
           /\ Active(p) => FreshOK(Reading(c, p), pub)
  <1>1. pub[p] \in Row /\ live \in 0..MaxHead /\ Made(pub[p].approval, approval)
    BY DEF Inv, TypeOK, RowsOK, RowOK
  <1>2. Reading(c, p) \in Call
    BY <1>1, IdleOK DEF Reading, Idle, Call, PCs
  <1>3. HandlerOK(Reading(c, p), approval, pub, branch)
    BY <1>1 DEF Reading, Idle, HandlerOK, RowSteps, PCs, CommitKnown, RetrySteps
  <1>4. Active(p) => FreshOK(Reading(c, p), pub)
    BY DEF Reading, Idle, FreshOK, Active
  <1> QED BY <1>2, <1>3, <1>4

LEMMA RefreshInv ==
    ASSUME Inv, NEW c \in Callers, NEW p \in Pubs, refresh(c, p)
    PROVE  Inv' /\ RowsKept
  <1>1. OuterOK /\ ApprovalMove /\ branch' = branch
    BY Quiet DEF refresh, external, ApprovalMove
  <1>2. pub[p].status # "absent"
    BY Words DEF refresh, Active
  <1> QED BY <1>1, <1>2, ReadingOK, CallerMove DEF refresh

LEMMA PublishInv ==
    ASSUME Inv, NEW c \in Callers, NEW a \in Approvals, NEW key \in Pubs,
           publish(c, a, key)
    PROVE  Inv' /\ RowsKept
  <1>1. OuterOK /\ ApprovalMove /\ branch' = branch
    BY Quiet DEF publish, external, ApprovalMove
  <1>2. \A p \in Pubs : Active(p) => pub[p].status # "absent"
    BY Words DEF Active
  <1>3. Made(a, approval) /\ live \in 0..MaxHead
    BY DEF publish, requireApproval, Made, Inv, TypeOK
  <1>4. ASSUME NEW p \in Pubs, Active(p), Goto(c, Reading(c, p))
        PROVE  Inv' /\ RowsKept
    BY <1>1, <1>2, <1>4, ReadingOK, CallerMove
  <1>5. CASE Goto(c, Preflight(c, a, key))
    <2>1. Preflight(c, a, key) \in Call
      BY <1>3, IdleOK DEF Preflight, Idle, Call, PCs
    <2>2. /\ HandlerOK(Preflight(c, a, key), approval, pub, branch)
          /\ FreshOK(Preflight(c, a, key), pub)
      BY <1>3 DEF Preflight, Idle, HandlerOK, FreshOK, RowSteps, CommitKnown, RetrySteps
    <2> QED BY <1>1, <1>5, <2>1, <2>2, CallerMove
  <1>6. ASSUME NEW p \in Pubs, Active(p),
               Goto(c, [Reading(c, p) EXCEPT !.key = key, !.approval = a])
        PROVE  Inv' /\ RowsKept
    <2> DEFINE k == [Reading(c, p) EXCEPT !.key = key, !.approval = a]
    <2>1. /\ Reading(c, p) \in Call /\ HandlerOK(Reading(c, p), approval, pub, branch)
          /\ FreshOK(Reading(c, p), pub)
      BY <1>2, <1>6, ReadingOK
    <2>2. k \in Call
      BY <2>1 DEF Call
    <2>3. HandlerOK(k, approval, pub, branch) /\ FreshOK(k, pub)
      BY <1>3, <2>1 DEF Call, HandlerOK, FreshOK
    <2> QED BY <1>1, <1>6, <2>2, <2>3, CallerMove
  <1>7. \/ \E p \in Pubs : Active(p) /\ Goto(c, Reading(c, p))
        \/ Goto(c, Preflight(c, a, key))
        \/ \E p \in Pubs :
             Active(p) /\ Goto(c, [Reading(c, p) EXCEPT !.key = key, !.approval = a])
    BY DEF publish, Recoverable, LatestPublications, Present, ActivePubs
  <1> QED BY <1>4, <1>5, <1>6, <1>7

LEMMA RetryDeploymentInv ==
    ASSUME Inv, NEW c \in Callers, NEW p \in Pubs, retryDeployment(c, p)
    PROVE  Inv' /\ RowsKept
  <1> DEFINE pc == IF pub[p].commitSha = 0 THEN "reconcile" ELSE "retryLive"
             k == [Reading(c, p) EXCEPT !.retry = TRUE, !.pc = pc]
  <1>1. OuterOK /\ ApprovalMove /\ branch' = branch
    BY Quiet DEF retryDeployment, external, ApprovalMove
  <1>2. pub[p].status # "absent"
    BY DEF retryDeployment, RetryAvailable
  <1>3. Reading(c, p) \in Call /\ HandlerOK(Reading(c, p), approval, pub, branch)
    BY <1>2, ReadingOK
  <1>4. k \in Call /\ Reading(c, p).pc = "refresh" /\ k.retry /\ k.resume = "end"
    BY ZenonT(40), <1>3 DEF Call, PCs, Reading, Idle
  <1>5. HandlerOK(k, approval, pub, branch) /\ FreshOK(k, pub)
    BY <1>3, <1>4 DEF Call, HandlerOK, FreshOK, RowSteps, PCs, CommitKnown, RetrySteps
  <1>6. Goto(c, k)
    BY DEF retryDeployment
  <1> QED BY <1>1, <1>4, <1>5, <1>6, CallerMove

-----------------------------------------------------------------------------
(* Publish *)

LEMMA PublishPreflightInv ==
    ASSUME Inv, NEW c \in Callers, PublishPreflight(c) PROVE Inv' /\ RowsKept
  <1> DEFINE k == [call[c] EXCEPT !.pc = "claim"]
  <1>1. OuterOK /\ branch' = branch
    BY Quiet DEF PublishPreflight, external
  <1>2. /\ call[c] \in Call /\ call[c].pc = "preflight" /\ call[c].key \in Pubs
        /\ HandlerOK(call[c], approval, pub, branch)
    BY CallerFacts DEF PublishPreflight, HandlerOK
  <1>3. Made(call[c].approval, approval)
    BY <1>2, ConstantsAssumption DEF HandlerOK
  <1>4. CASE Goto(c, Idle) /\ approval' = invalidated(call[c].approval)
    BY <1>1, <1>3, <1>4, StopInv DEF ApprovalMove, Made
  <1>5. CASE Goto(c, k) /\ UNCHANGED approval
    <2>1. k \in Call
      BY <1>2 DEF Call, PCs
    <2>2. HandlerOK(k, approval, pub, branch) /\ FreshOK(k, pub)
      BY <1>2 DEF HandlerOK, FreshOK, Call, RowSteps, CommitKnown, RetrySteps
    <2> QED BY <1>1, <1>5, <2>1, <2>2, CallerMove DEF ApprovalMove
  <1> QED BY <1>4, <1>5 DEF PublishPreflight

\* The row of a new publication.
LEMMA NewPublicationOK ==
    ASSUME Inv, NEW c \in Callers, NEW a, Made(a, approval),
           NEW status \in {"requested", "blocked"},
           NEW detail \in {"none", "approval_stale", "publication_in_progress"}
    PROVE  LET new == NewPublication(c, a, status, detail)
           IN  new \in Row /\ new.status = status /\ new.approval = a
  <1>1. a \in Approvals /\ approval[a].workspace \in Workspaces
    BY DEF Made, Inv, ApprovalsOK
  <1>2. BaseOf(a) \in 0..MaxHead
    BY <1>1 DEF BaseOf, Inv, TypeOK, WorkspaceRecord
  <1>3. Cardinality(Present) + 1 \in Nat
    <2>1. IsFiniteSet(Present)
      BY ConstantsAssumption, FS_Subset DEF Present
    <2> QED BY <2>1, FS_CardinalityType
  <1>4. NoRow \in Row /\ status \in Statuses /\ detail \in Details
    BY IdleOK, Words
  <1> QED BY <1>1, <1>2, <1>3, <1>4 DEF NewPublication, Row, NoRow

LEMMA ClaimPublicationInv ==
    ASSUME Inv, NEW c \in Callers, claimPublication(c) PROVE Inv' /\ RowsKept
  <1> DEFINE k == call[c]
             p == k.key
             a == k.approval
             New(status, detail) == NewPublication(c, a, status, detail)
             next == [k EXCEPT !.pc = "guard", !.pub = p, !.row = New("requested", "none")]
  <1>1. OuterOK /\ branch' = branch /\ ApprovalMove
    BY Quiet DEF claimPublication, external, ApprovalMove
  <1>2. k \in Call /\ k.pc = "claim" /\ p \in Pubs /\ HandlerOK(k, approval, pub, branch)
    BY CallerFacts DEF claimPublication, HandlerOK
  <1>3. Made(a, approval)
    BY <1>2, ConstantsAssumption DEF HandlerOK
  <1>4. CASE Goto(c, Idle)
    BY <1>1, <1>4, StopInv
  <1>5. ASSUME pub[p].status = "absent", NEW row \in Row,
               row.status \in activeStatuses => ActivePubs \subseteq {p}
        PROVE  WriteAllowed(p, row)
    BY <1>2, <1>5 DEF WriteAllowed, Inv, RowsOK, RowOK
  <1>6. ASSUME pub[p].status = "absent",
               NEW d \in {"approval_stale", "publication_in_progress"},
               Store(c, p, New("blocked", d), Idle)
        PROVE  Inv' /\ RowsKept
    <2> DEFINE row == New("blocked", d)
    <2>1. row \in Row /\ row.status = "blocked" /\ row.approval = a
      BY <1>3, NewPublicationOK
    <2>2. Store(c, p, row, Idle)
      BY <1>6
    <2> HIDE DEF row
    <2>3. WriteAllowed(p, row)
      BY <1>5, <1>6, <2>1 DEF activeStatuses
    <2> QED BY <1>1, <1>2, <1>3, <2>1, <2>2, <2>3, IdleOK, CallerStore
  <1>7. ASSUME pub[p].status = "absent", OneActivePermits(p, New("requested", "none")),
               Store(c, p, New("requested", "none"), next)
        PROVE  Inv' /\ RowsKept
    <2> DEFINE row == New("requested", "none")
               stored == [pub EXCEPT ![p] = row]
    <2>1. row \in Row /\ row.status = "requested" /\ row.approval = a
      BY <1>3, NewPublicationOK
    <2>2. OneActivePermits(p, row) /\ Store(c, p, row, next)
          /\ next = [k EXCEPT !.pc = "guard", !.pub = p, !.row = row]
      BY <1>7
    <2> HIDE DEF row, next
    <2>3. WriteAllowed(p, row)
      BY <1>5, <1>7, <2>1, <2>2 DEF OneActivePermits
    <2>4. next \in Call
      BY <1>2, <2>1, <2>2 DEF Call, PCs, commitSteps
    <2>5. stored[p] = row
      BY <1>2 DEF Inv, TypeOK
    <2>6. HandlerOK(next, approval, stored, branch) /\ FreshOK(next, stored)
      <3> HIDE DEF stored
      <3> QED BY <1>2, <1>3, <2>1, <2>2, <2>5 DEF HandlerOK, FreshOK, Call, CommitKnown, RetrySteps
    <2> QED BY <1>1, <1>2, <1>3, <2>1, <2>2, <2>3, <2>4, <2>6, CallerStore
  <1> QED BY <1>4, <1>6, <1>7 DEF claimPublication

\* A guard that refuses leaves the approval, or spends it.
LEMMA Refused ==
    ASSUME Inv, NEW c \in Callers, call[c].pc \in RowSteps, LeaseGuardRefuses(c)
    PROVE  ApprovalMove
  BY Spent DEF LeaseGuardRefuses, ApprovalMove

LEMMA PublishGuardInv ==
    ASSUME Inv, NEW c \in Callers, PublishGuard(c) PROVE Inv' /\ RowsKept
  <1> DEFINE k == call[c]
             lost == [k.row EXCEPT !.status = "blocked",
                                   !.detail = "publication_lease_lost"]
  <1>1. OuterOK
    BY Quiet DEF PublishGuard, external
  <1>2. k.pc \in RowSteps /\ "recheck" \in RowSteps
    BY DEF PublishGuard, RowSteps, PCs, commitSteps
  <1>3. CASE Goto(c, [k EXCEPT !.pc = "recheck"]) /\ UNCHANGED approval
    BY <1>1, <1>2, <1>3, GoOnInv DEF ApprovalMove, CommitKnown, RetrySteps
  <1>4. CASE LeaseGuardRefuses(c) /\ UpdateLeased(c, k.pub, FALSE, lost)
    <2>1. lost \in Row /\ lost.status = "blocked" /\ lost.approval = k.row.approval
      <3>1. "blocked" \in Statuses /\ "publication_lease_lost" \in Details
        BY Words
      <3> QED BY <1>2, <3>1, RowStepFacts DEF Row
    <2> HIDE DEF lost
    <2> QED BY <1>1, <1>2, <1>4, <2>1, Refused, RowStepFacts, LeasedInv
  <1> QED BY <1>3, <1>4 DEF PublishGuard

LEMMA PublishRecheckInv ==
    ASSUME Inv, NEW c \in Callers, PublishRecheck(c) PROVE Inv' /\ RowsKept
  <1> DEFINE k == call[c]
             stale == [k.row EXCEPT !.status = "blocked", !.detail = "approval_stale"]
  <1>1. OuterOK /\ ApprovalMove
    BY Quiet DEF PublishRecheck, external, ApprovalMove
  <1>2. k.pc \in RowSteps /\ "commit" \in RowSteps
    BY DEF PublishRecheck, RowSteps, PCs, commitSteps
  <1>3. CASE Goto(c, [k EXCEPT !.pc = "commit"])
    BY <1>1, <1>2, <1>3, GoOnInv DEF CommitKnown, RetrySteps
  <1>4. CASE UpdateLeased(c, k.pub, FALSE, stale)
    <2>1. stale \in Row /\ stale.status = "blocked" /\ stale.approval = k.row.approval
      <3>1. "blocked" \in Statuses /\ "approval_stale" \in Details
        BY Words
      <3> QED BY <1>2, <3>1, RowStepFacts DEF Row
    <2> HIDE DEF stale
    <2> QED BY <1>1, <1>2, <1>4, <2>1, RowStepFacts, LeasedInv
  <1> QED BY <1>3, <1>4 DEF PublishRecheck

\* A caller is answered before its commit request, or without it.
LEMMA AnsweredInv ==
    ASSUME Inv, NEW c \in Callers, call[c].pc \in RowSteps,
           NEW r \in CommitReplies, Answered(c, r), ApprovalMove, OuterOK,
           r = "committed" => \E i \in 1..Len(branch') : branch'[i] = call[c].pub
    PROVE  Inv' /\ RowsKept
  BY ReplyInv DEF Answered

LEMMA CreateCommitCheckInv ==
    ASSUME Inv, NEW c \in Callers, CreateCommitCheck(c) PROVE Inv' /\ RowsKept
  <1>1. OuterOK
    BY Quiet DEF CreateCommitCheck, external
  <1>2. call[c].pc \in RowSteps /\ "post" \in RowSteps
    BY DEF CreateCommitCheck, RowSteps, PCs, commitSteps
  <1>3. ApprovalMove
    BY <1>2, Refused DEF CreateCommitCheck, ApprovalMove
  <1>4. CASE Goto(c, [call[c] EXCEPT !.pc = "post"])
    BY <1>1, <1>2, <1>3, <1>4, GoOnInv DEF CommitKnown, RetrySteps
  <1>5. CASE Answered(c, "moved") \/ Answered(c, "lost") \/ Answered(c, "rejected")
    BY <1>1, <1>2, <1>3, <1>5, AnsweredInv DEF CommitReplies
  <1> QED BY <1>4, <1>5 DEF CreateCommitCheck

LEMMA CreateCommitPostInv ==
    ASSUME Inv, NEW c \in Callers, CreateCommitPost(c) PROVE Inv' /\ RowsKept
  <1>1. call[c].pc \in RowSteps /\ "wait" \in RowSteps
    BY DEF CreateCommitPost, RowSteps, PCs, commitSteps
  <1>2. ApprovalMove
    BY <1>1, Refused DEF CreateCommitPost, ApprovalMove
  <1>3. wire' \subseteq Pubs \X (Callers \cup {None})
    <2>1. call[c].pub \in Pubs /\ wire \subseteq Pubs \X (Callers \cup {None})
      BY <1>1, RowStepFacts DEF Inv, TypeOK
    <2>2. wire' = wire \/ wire' = wire \cup {<<call[c].pub, c>>}
      BY DEF CreateCommitPost
    <2> QED BY <2>1, <2>2
  <1>4. OuterOK
    BY <1>3 DEF CreateCommitPost, Inv, TypeOK, OuterOK, ProductionHead
  <1>5. CASE Goto(c, [call[c] EXCEPT !.pc = "wait"])
    BY <1>1, <1>2, <1>4, <1>5, GoOnInv DEF CommitKnown, RetrySteps
  <1>6. CASE Answered(c, "lost") \/ Answered(c, "rejected")
    BY <1>1, <1>2, <1>4, <1>6, AnsweredInv DEF CommitReplies
  <1> QED BY <1>5, <1>6 DEF CreateCommitPost

LEMMA RevokeApprovalInv ==
    ASSUME Inv, NEW c \in Callers, RevokeApproval(c) PROVE Inv' /\ RowsKept
  <1>1. OuterOK /\ branch' = branch
    BY Quiet DEF RevokeApproval, external
  <1>2. call[c].pc \in RowSteps
    BY DEF RevokeApproval, RowSteps, PCs, commitSteps
  <1>3. CASE approval' = invalidated(call[c].row.approval) /\ Answered(c, "revoked")
    BY <1>1, <1>2, <1>3, Spent, AnsweredInv DEF CommitReplies
  <1>4. CASE UNCHANGED approval /\ Landed(call[c].pub) /\ Answered(c, "committed")
    <2>1. \E i \in 1..Len(branch') : branch'[i] = call[c].pub
      BY <1>1, <1>4, CommitFound DEF Inv, TypeOK
    <2> QED BY <1>1, <1>2, <1>4, <2>1, AnsweredInv DEF CommitReplies, ApprovalMove
  <1>5. CASE UNCHANGED approval /\ Answered(c, "ambiguous")
    BY <1>1, <1>2, <1>5, AnsweredInv DEF CommitReplies, ApprovalMove
  <1> QED BY <1>3, <1>4, <1>5 DEF RevokeApproval, ReconcileReads

\* What an answer makes of the row it is about.
LEMMA AnswerOK ==
    ASSUME Inv, NEW row \in Row, NEW p, NEW reply \in CommitReplies \ {"moved"},
           reply = "committed" => Landed(p)
    PROVE  LET new == Answer(row, reply, p)
           IN  new \in Row /\ new.status # "absent" /\ new.approval = row.approval
  <1>1. CASE reply = "committed"
    <2>1. CommitOf(p) \in 0..MaxHead /\ "committed" \in Statuses /\ "none" \in Details
      BY <1>1, CommitFound, Words, ConstantsAssumption DEF Inv, TypeOK, ProductionHead
    <2>2. Answer(row, reply, p) = [row EXCEPT !.status = "committed", !.detail = "none",
                                              !.commitSha = CommitOf(p)]
      BY <1>1 DEF Answer
    <2> QED BY <2>1, <2>2 DEF Row
  <1>2. CASE reply # "committed"
    <2>1. {"blocked", "failed", "unknown"} \subseteq Statuses \ {"absent"}
          /\ {"production_head_moved", "git_operation_failed", "publication_lease_lost",
              "git_result_unknown"} \subseteq Details
      BY Words
    <2>2. \E s \in {"blocked", "failed", "unknown"},
            d \in {"production_head_moved", "git_operation_failed",
                   "publication_lease_lost", "git_result_unknown"} :
            Answer(row, reply, p) = [row EXCEPT !.status = s, !.detail = d]
      BY <1>2 DEF Answer, CommitReplies
    <2> QED BY ZenonT(40), <2>1, <2>2 DEF Row
  <1> QED BY <1>1, <1>2

LEMMA SettleCommitInv ==
    ASSUME Inv, NEW c \in Callers, SettleCommit(c) PROVE Inv' /\ RowsKept
  <1> DEFINE k == call[c]
             first == Answer(k.row, k.reply, k.pub)
             again == RetryAnswer(k.row, k.reply, k.pub)
  <1>1. OuterOK /\ ApprovalMove
    BY Quiet DEF SettleCommit, external, ApprovalMove
  <1>2. k.pc = "settle" /\ k.pc \in RowSteps
    BY DEF SettleCommit, RowSteps, PCs, commitSteps
  <1>3. /\ k.row \in Row /\ Made(k.row.approval, approval)
        /\ k.reply \in CommitReplies \ {"moved"}
        /\ k.reply = "committed" => Landed(k.pub)
    BY <1>2, RowStepFacts, CallerFacts
       DEF SettleCommit, HandlerOK, Landed, CommitsOf, ProductionHead
  <1>4. first \in Row /\ first.status # "absent" /\ first.approval = k.row.approval
    BY <1>3, AnswerOK
  <1>5. again \in Row /\ again.status # "absent" /\ again.approval = k.row.approval
    <2>1. "failed" \in Statuses
      BY Words
    <2> HIDE DEF first
    <2>2. again = IF k.reply = "lost" THEN [first EXCEPT !.status = "failed"] ELSE first
      BY DEF first, RetryAnswer
    <2> HIDE DEF again
    <2> QED BY <1>4, <2>1, <2>2 DEF Row
  <1>6. UpdateLeased(c, k.pub, TRUE, again) \/ UpdateLeased(c, k.pub, TRUE, first)
    BY DEF SettleCommit
  <1> HIDE DEF first, again
  <1> QED BY <1>1, <1>2, <1>3, <1>4, <1>5, <1>6, LeasedInv

-----------------------------------------------------------------------------
(* Retry *)

\* A handler that retries says so, and past its reconciliation has a commit.
LEMMA RetryFacts ==
    ASSUME Inv, NEW c \in Callers
    PROVE  /\ call[c].pc \in RetrySteps => call[c].retry /\ call[c].resume # "refresh"
           /\ call[c].pc \in CommitKnown => call[c].row.commitSha # 0
  BY CallerFacts DEF HandlerOK

LEMMA RetryReconcileInv ==
    ASSUME Inv, NEW c \in Callers, RetryReconcile(c) PROVE Inv' /\ RowsKept
  <1> DEFINE k == call[c]
             recorded == [k.row EXCEPT !.commitSha = CommitOf(k.pub),
                                       !.detail = "git_commit_reconciled"]
             next == [k EXCEPT !.pc = "write", !.resume = "retryLive", !.row = recorded]
  <1>1. OuterOK /\ branch' = branch
    BY Quiet DEF RetryReconcile, external
  <1>2. k.pc = "reconcile" /\ k.pc \in RowSteps /\ "retryClaim" \in RowSteps
    BY DEF RetryReconcile, RowSteps, PCs
  <1>3. CASE Goto(c, Idle)
    <2>1. ApprovalMove
      BY <1>2, <1>3, Spent DEF RetryReconcile, ApprovalMove
    <2> QED BY <1>1, <1>3, <2>1, StopInv
  <1>4. CASE Goto(c, [k EXCEPT !.pc = "retryClaim"]) /\ UNCHANGED approval
    BY <1>1, <1>2, <1>4, RetryFacts, GoOnInv DEF CommitKnown, RetrySteps, ApprovalMove
  <1>5. CASE Landed(k.pub) /\ Goto(c, next) /\ UNCHANGED approval
    <2>1. k \in Call /\ k.row \in Row /\ HandlerOK(k, approval, pub, branch)
      BY CallerFacts
    <2>2. /\ recorded \in Row /\ recorded.status = k.row.status
          /\ recorded.approval = k.row.approval
      <3>1. CommitOf(k.pub) \in 0..MaxHead /\ "git_commit_reconciled" \in Details
        BY <1>5, CommitFound, Words, ConstantsAssumption DEF Inv, TypeOK, ProductionHead
      <3> QED BY <2>1, <3>1 DEF Row
    <2>3. k.retry
      BY <1>2, RetryFacts DEF RetrySteps
    <2> HIDE DEF recorded
    <2>4. next \in Call
      BY <2>1, <2>2 DEF Call, PCs
    <2>5. HandlerOK(next, approval, pub, branch)
      BY <1>2, <2>1, <2>2, <2>3 DEF HandlerOK, Call, RowSteps, PCs, CommitKnown, RetrySteps
    <2>6. FreshOK(next, pub)
      BY <2>1, <2>3 DEF FreshOK, Call
    <2> QED BY <1>1, <1>5, <2>4, <2>5, <2>6, CallerMove DEF ApprovalMove
  <1> QED BY <1>3, <1>4, <1>5 DEF RetryReconcile, ReconcileReads

LEMMA ClaimFailedPublicationRetryInv ==
    ASSUME Inv, NEW c \in Callers, claimFailedPublicationRetry(c)
    PROVE  Inv' /\ RowsKept
  <1> DEFINE k == call[c]
             p == k.pub
             claimed == [k.row EXCEPT !.status = "requested", !.lease = c,
                                      !.leased = TRUE, !.detail = "git_result_unknown"]
             row == [claimed EXCEPT !.age = pub[p].age]
             next == [k EXCEPT !.pc = "commit", !.row = row]
             stored == [pub EXCEPT ![p] = row]
  <1>1. OuterOK /\ ApprovalMove /\ branch' = branch
    BY Quiet DEF claimFailedPublicationRetry, external, ApprovalMove
  <1>2. k.pc = "retryClaim" /\ k.pc \in RowSteps
    BY DEF claimFailedPublicationRetry, RowSteps, PCs
  <1>3. CASE Goto(c, Idle)
    BY <1>1, <1>3, StopInv
  <1>4. CASE /\ pub[p].status = "failed" /\ UpdatePermitted(pub[p], claimed)
             /\ OneActivePermits(p, claimed) /\ Store(c, p, row, next)
    <2>1. /\ k \in Call /\ k.row \in Row /\ HandlerOK(k, approval, pub, branch)
          /\ p \in Pubs /\ pub \in [Pubs -> Row] /\ Made(k.row.approval, approval)
          /\ k.retry
      BY <1>2, CallerFacts, RowStepFacts, RetryFacts DEF Inv, TypeOK, RetrySteps
    <2>2. /\ row \in Row /\ row.status = "requested" /\ claimed.status = "requested"
          /\ row.commitSha = claimed.commitSha /\ row.approval = k.row.approval
      <3>1. "requested" \in Statuses /\ "git_result_unknown" \in Details
            /\ pub[p].age \in 0..2
        BY <2>1, Words DEF Row
      <3> QED BY <2>1, <3>1 DEF Row
    <2> HIDE DEF row, claimed
    <2>3. WriteAllowed(p, row)
      BY <1>4, <2>1, <2>2 DEF WriteAllowed, UpdatePermitted, OneActivePermits
    <2>4. next \in Call
      BY <2>1, <2>2 DEF Call, PCs, commitSteps
    <2>5. stored[p] = row
      BY <2>1
    <2>6. HandlerOK(next, approval, stored, branch) /\ FreshOK(next, stored)
      <3> HIDE DEF stored
      <3> QED BY <2>1, <2>2, <2>5 DEF HandlerOK, FreshOK, Call, CommitKnown, RetrySteps
    <2> HIDE DEF next
    <2> QED BY <1>1, <1>4, <2>1, <2>2, <2>3, <2>4, <2>6, CallerStore
  <1> QED BY <1>3, <1>4 DEF claimFailedPublicationRetry

LEMMA RetryLiveInv ==
    ASSUME Inv, NEW c \in Callers, RetryLive(c) PROVE Inv' /\ RowsKept
  <1> DEFINE k == call[c]
             row == k.row
             found(s) == [row EXCEPT !.status = s, !.detail = "deployment_retry_reconciled"]
             Write(new) == Goto(c, [k EXCEPT !.pc = "write", !.row = new])
  <1>1. OuterOK /\ ApprovalMove /\ branch' = branch
    BY Quiet DEF RetryLive, external, ApprovalMove
  <1>2. k.pc = "retryLive" /\ k.pc \in RowSteps /\ "retryHead" \in RowSteps
    BY DEF RetryLive, RowSteps, PCs
  <1>3. /\ k \in Call /\ row \in Row /\ HandlerOK(k, approval, pub, branch)
        /\ k.retry /\ k.resume # "refresh"
    BY <1>2, CallerFacts, RetryFacts DEF RetrySteps
  <1>4. CASE Goto(c, Idle)
    BY <1>1, <1>4, StopInv
  <1>5. CASE row.commitSha # 0 /\ Goto(c, [k EXCEPT !.pc = "retryHead"])
    BY <1>1, <1>2, <1>3, <1>5, GoOnInv
  <1>6. ASSUME NEW new \in Row, new.status # "absent", new.approval = row.approval,
               Write(new)
        PROVE  Inv' /\ RowsKept
    <2> DEFINE next == [k EXCEPT !.pc = "write", !.row = new]
    <2>1. next \in Call
      BY <1>3, <1>6 DEF Call, PCs
    <2>2. HandlerOK(next, approval, pub, branch) /\ FreshOK(next, pub)
      BY <1>2, <1>3, <1>6
         DEF HandlerOK, FreshOK, Call, RowSteps, CommitKnown, RetrySteps, PCs
    <2> QED BY <1>1, <1>6, <2>1, <2>2, CallerMove
  <1>7. CASE Write(VerifiedLive(row))
    BY <1>3, <1>6, <1>7, VerifiedLiveOK
  <1>8. ASSUME NEW s \in {"building", "deployed"}, Write(found(s)) PROVE Inv' /\ RowsKept
    <2>1. found(s) \in Row /\ found(s).status = s /\ found(s).approval = row.approval
      <3>1. s \in Statuses /\ "deployment_retry_reconciled" \in Details
        BY Words
      <3> QED BY <1>3, <3>1 DEF Row
    <2> HIDE DEF found, Write
    <2> QED BY <1>6, <1>8, <2>1
  <1>9. \/ Goto(c, Idle) \/ Write(VerifiedLive(row))
        \/ row.commitSha # 0 /\ Goto(c, [k EXCEPT !.pc = "retryHead"])
        \/ \E s \in {"building", "deployed"} : Write(found(s))
    BY DEF RetryLive
  <1> QED BY <1>4, <1>5, <1>7, <1>8, <1>9

LEMMA RetryHeadInv ==
    ASSUME Inv, NEW c \in Callers, RetryHead(c) PROVE Inv' /\ RowsKept
  <1>1. OuterOK
    BY Quiet DEF RetryHead, external
  <1>2. call[c].pc \in RetrySteps /\ call[c].pc \in CommitKnown
        /\ call[c].pc \in RowSteps /\ "dispatchClaim" \in RowSteps
    BY DEF RetryHead, RowSteps, PCs, dispatchSteps, CommitKnown, RetrySteps
  <1>3. CASE Goto(c, Idle) /\ approval' = invalidated(call[c].row.approval)
    BY <1>1, <1>2, <1>3, Spent, StopInv
  <1>4. CASE Goto(c, [call[c] EXCEPT !.pc = "dispatchClaim"]) /\ UNCHANGED approval
    BY <1>1, <1>2, <1>4, RetryFacts, GoOnInv DEF ApprovalMove
  <1> QED BY <1>3, <1>4 DEF RetryHead

LEMMA DispatchClaimInv ==
    ASSUME Inv, NEW c \in Callers, DispatchClaim(c) PROVE Inv' /\ RowsKept
  <1> DEFINE k == call[c]
             p == k.pub
             row == [k.row EXCEPT !.status = "committed", !.lease = c,
                             !.leased = TRUE, !.age = 0, !.dispatched = TRUE,
                             !.deploymentId = DispatchToken,
                             !.detail = "deployment_retry_dispatching"]
             next == [k EXCEPT !.pc = "dispatchCheck", !.row = row, !.fresh = TRUE]
             stored == [pub EXCEPT ![p] = row]
  <1>1. OuterOK /\ ApprovalMove /\ branch' = branch
    BY Quiet DEF DispatchClaim, external, ApprovalMove
  <1>2. k.pc = "dispatchClaim" /\ k.pc \in RowSteps
    BY DEF DispatchClaim, RowSteps, PCs, dispatchSteps
  <1>3. CASE Goto(c, Idle)
    BY <1>1, <1>3, StopInv
  <1>4. CASE /\ pub[p].status = "failed" /\ UpdatePermitted(pub[p], row)
             /\ OneActivePermits(p, row) /\ Store(c, p, row, next)
    <2>1. /\ k \in Call /\ k.row \in Row /\ HandlerOK(k, approval, pub, branch)
          /\ p \in Pubs /\ pub \in [Pubs -> Row] /\ Made(k.row.approval, approval)
          /\ k.retry /\ k.row.commitSha # 0
      BY <1>2, CallerFacts, RowStepFacts, RetryFacts
         DEF Inv, TypeOK, RetrySteps, CommitKnown
    <2>2. /\ row \in Row /\ row.status = "committed"
          /\ row.commitSha = k.row.commitSha /\ row.approval = k.row.approval
      <3>1. "committed" \in Statuses /\ "deployment_retry_dispatching" \in Details
            /\ DispatchToken \in -1..MaxDispatch
            /\ c \in Callers \cup {None} /\ 0 \in 0..2
        BY Words, ConstantsAssumption DEF DispatchToken
      <3>2. k.row \in Row
        BY <2>1
      <3> DEFINE half == [k.row EXCEPT !.status = "committed", !.lease = c,
                                       !.leased = TRUE, !.age = 0]
      <3>3. /\ half \in Row /\ half.status = "committed"
            /\ half.commitSha = k.row.commitSha /\ half.approval = k.row.approval
        BY <3>1, <3>2 DEF Row
      <3>4. row = [half EXCEPT !.dispatched = TRUE, !.deploymentId = DispatchToken,
                               !.detail = "deployment_retry_dispatching"]
        OBVIOUS
      <3> HIDE DEF half, row
      <3> QED BY <3>1, <3>3, <3>4 DEF Row
    <2> HIDE DEF row
    <2>3. WriteAllowed(p, row)
      BY <1>4, <2>1, <2>2 DEF WriteAllowed, UpdatePermitted, OneActivePermits
    <2>4. next \in Call
      BY <2>1, <2>2 DEF Call, PCs, dispatchSteps
    <2>5. stored[p] = row
      BY <2>1
    <2>6. HandlerOK(next, approval, stored, branch) /\ FreshOK(next, stored)
      <3> HIDE DEF stored
      <3> QED BY <1>2, <2>1, <2>2, <2>5
            DEF HandlerOK, FreshOK, Call, CommitKnown, RetrySteps
    <2> HIDE DEF next
    <2> QED BY <1>1, <1>4, <2>1, <2>2, <2>3, <2>4, <2>6, CallerStore
  <1> QED BY <1>3, <1>4 DEF DispatchClaim

\* The row of a dispatch claim given up.
LEMMA DispatchRowOK ==
    ASSUME NEW row \in Row, NEW s \in Statuses, NEW d \in Details,
           NEW id \in -1..MaxDispatch
    PROVE  /\ DispatchRow(row, s, d, id) \in Row
           /\ DispatchRow(row, s, d, id).status = s
           /\ DispatchRow(row, s, d, id).approval = row.approval
  BY DEF DispatchRow, Row

LEMMA GiveUpInv ==
    ASSUME Inv, NEW c \in Callers, call[c].pc \in RowSteps,
           NEW s \in Statuses, s # "absent", NEW d \in Details,
           NEW id \in -1..MaxDispatch, NEW next \in Call,
           DispatchWrite(c, DispatchRow(call[c].row, s, d, id), next),
           ApprovalMove, OuterOK, next.pc = "idle" \/ next.pc = "buildSettle",
           HandlerOK(next, approval, pub, branch')
    PROVE  Inv' /\ RowsKept
  BY RowStepFacts, DispatchRowOK, DispatchWriteInv

LEMMA DispatchCheckInv ==
    ASSUME Inv, NEW c \in Callers, DispatchCheck(c) PROVE Inv' /\ RowsKept
  <1> DEFINE GiveUp(d) == DispatchWrite(c, DispatchRow(call[c].row, "failed", d, NoBuild),
                                        Idle)
  <1>1. OuterOK
    BY Quiet DEF DispatchCheck, external
  <1>2. /\ call[c].pc \in RowSteps /\ call[c].pc \in RetrySteps
        /\ call[c].pc \in CommitKnown /\ "assertDispatch" \in RowSteps
    BY DEF DispatchCheck, RowSteps, PCs, dispatchSteps, RetrySteps, CommitKnown
  <1>3. ApprovalMove
    BY <1>2, Spent DEF DispatchCheck, ApprovalMove
  <1>4. CASE Goto(c, [call[c] EXCEPT !.pc = "assertDispatch"])
    BY <1>1, <1>2, <1>3, <1>4, RetryFacts, GoOnInv
  <1>5. ASSUME NEW d \in Details, GiveUp(d) PROVE Inv' /\ RowsKept
    <2>1. "failed" \in Statuses /\ NoBuild \in -1..MaxDispatch /\ Idle.pc = "idle"
      BY Words, ConstantsAssumption DEF NoBuild, Idle
    <2> QED BY <1>1, <1>2, <1>3, <1>5, <2>1, IdleOK, GiveUpInv
  <1>6. \/ Goto(c, [call[c] EXCEPT !.pc = "assertDispatch"])
        \/ \E d \in {"approval_stale", "deployment_retry_head_unavailable",
                     "deployment_retry_head_moved"} : GiveUp(d)
    BY DEF DispatchCheck
  <1> QED BY <1>4, <1>5, <1>6, Words

LEMMA AssertDispatchInv ==
    ASSUME Inv, NEW c \in Callers, AssertDispatch(c) PROVE Inv' /\ RowsKept
  <1> DEFINE k == call[c]
             veto == [k EXCEPT !.pc = "buildSettle", !.reply = "claimLost"]
             served == DispatchRow(k.row, "verified-live", "none", NoBuild)
             moved == DispatchRow(k.row, "failed", "deployment_retry_head_moved", NoBuild)
  <1>1. OuterOK
    BY Quiet DEF AssertDispatch, external
  <1>2. /\ k.pc \in RowSteps /\ k.pc \in RetrySteps /\ k.pc \in CommitKnown
        /\ "build" \in RowSteps
    BY DEF AssertDispatch, RowSteps, PCs, dispatchSteps, RetrySteps, CommitKnown
  <1>3. ApprovalMove
    BY <1>2, Spent DEF AssertDispatch, ApprovalMove
  <1>4. CASE Goto(c, [k EXCEPT !.pc = "build"])
    BY <1>1, <1>2, <1>3, <1>4, RetryFacts, GoOnInv
  <1>5. CASE Goto(c, veto)
    BY <1>1, <1>2, <1>3, <1>5, ReplyInv DEF BuildReplies
  <1>6. CASE DispatchWrite(c, served, veto) \/ DispatchWrite(c, moved, veto)
    <2>1. /\ {"failed", "verified-live"} \subseteq Statuses \ {"absent"}
          /\ {"none", "deployment_retry_head_moved"} \subseteq Details
          /\ NoBuild \in -1..MaxDispatch
      BY Words, ConstantsAssumption DEF NoBuild
    <2>2. veto \in Call /\ veto.pc = "buildSettle"
      BY ZenonT(40), CallerFacts DEF Call, PCs, dispatchSteps, Replies
    <2>3. HandlerOK(k, approval, pub, branch) /\ k \in Call
      BY CallerFacts
    <2>4. HandlerOK(veto, approval, pub, branch')
      BY <1>2, <2>3 DEF HandlerOK, Call, RowSteps, BuildReplies, CommitKnown, RetrySteps
    <2> HIDE DEF veto
    <2> QED BY <1>1, <1>2, <1>3, <1>6, <2>1, <2>2, <2>4, GiveUpInv
  <1> QED BY <1>4, <1>5, <1>6 DEF AssertDispatch

LEMMA DispatchBuildInv ==
    ASSUME Inv, NEW c \in Callers, DispatchBuild(c) PROVE Inv' /\ RowsKept
  <1> DEFINE k == call[c]
             d == [pub |-> k.pub, sha |-> k.row.commitSha, state |-> "sent"]
             next == [k EXCEPT !.pc = "buildWait", !.row.deploymentId = Len(dispatches) + 1]
  <1>1. /\ k.pc = "build" /\ k.pc \in RowSteps /\ k.pc \in CommitKnown
        /\ "buildWait" \in RowSteps
    BY DEF DispatchBuild, RowSteps, PCs, dispatchSteps, CommitKnown
  <1>2. ApprovalMove
    BY DEF DispatchBuild, ApprovalMove
  <1>3. /\ k \in Call /\ k.row \in Row /\ HandlerOK(k, approval, pub, branch)
        /\ k.pub \in Pubs /\ k.row.commitSha # 0
    BY <1>1, CallerFacts, RowStepFacts, RetryFacts
  <1>4. CASE /\ Len(dispatches) < MaxDispatch /\ dispatches' = Append(dispatches, d)
             /\ Goto(c, next)
    <2>1. dispatches \in Seq(Dispatch) /\ Len(dispatches) \in Nat
      BY DEF Inv, TypeOK
    <2>2. d \in Dispatch
      BY <1>3, ConstantsAssumption DEF Row, Dispatch
    <2>3. dispatches' \in Seq(Dispatch) /\ Len(dispatches') <= MaxDispatch
      <3> HIDE DEF d
      <3> QED BY <1>4, <2>1, <2>2, ConstantsAssumption
    <2>4. OuterOK
      BY <2>3 DEF DispatchBuild, Inv, TypeOK, OuterOK, ProductionHead
    <2>5. Len(dispatches) + 1 \in -1..MaxDispatch
      BY <1>4, <2>1, ConstantsAssumption
    <2>6. [k.row EXCEPT !.deploymentId = Len(dispatches) + 1] \in Row
      BY <1>3, <2>5 DEF Row
    <2>7. next \in Call
      BY <1>3, <2>6 DEF Call, PCs, dispatchSteps
    <2>8. HandlerOK(next, approval, pub, branch') /\ FreshOK(next, pub)
      BY <1>1, <1>3 DEF DispatchBuild, HandlerOK, FreshOK, Call, Row, RowSteps,
                        CommitKnown, RetrySteps
    <2> QED BY <1>2, <1>4, <2>4, <2>7, <2>8, CallerMove
  <1>5. CASE /\ Goto(c, [k EXCEPT !.pc = "buildSettle", !.reply = "ambiguous"])
             /\ UNCHANGED dispatches
    <2>1. OuterOK
      BY <1>5, Quiet DEF DispatchBuild, external
    <2> QED BY <1>1, <1>2, <1>5, <2>1, ReplyInv DEF BuildReplies
  <1> QED BY <1>4, <1>5 DEF DispatchBuild

LEMMA BuildAnswerInv ==
    ASSUME Inv, NEW c \in Callers, BuildAnswer(c) PROVE Inv' /\ RowsKept
  <1>1. OuterOK /\ ApprovalMove
    BY Quiet DEF BuildAnswer, external, ApprovalMove
  <1>2. call[c].pc \in RowSteps
    BY DEF BuildAnswer, RowSteps, PCs, dispatchSteps
  <1>3. \E r \in {"accepted", "refused", "ambiguous"} :
            Goto(c, [call[c] EXCEPT !.pc = "buildSettle", !.reply = r])
    BY DEF BuildAnswer
  <1> QED BY <1>1, <1>2, <1>3, ReplyInv DEF BuildReplies

LEMMA SettleBuildInv ==
    ASSUME Inv, NEW c \in Callers, SettleBuild(c) PROVE Inv' /\ RowsKept
  <1> DEFINE row == call[c].row
  <1>1. OuterOK /\ ApprovalMove
    BY Quiet DEF SettleBuild, external, ApprovalMove
  <1>2. call[c].pc = "buildSettle" /\ call[c].pc \in RowSteps
    BY DEF SettleBuild, RowSteps, PCs, dispatchSteps
  <1>3. call[c].reply \in BuildReplies /\ row.deploymentId \in -1..MaxDispatch
    BY <1>2, CallerFacts DEF HandlerOK, Row
  <1>4. \E s \in {"committed", "failed", "unknown"},
          d \in {"deployment_retry_requested", "deployment_retry_failed",
                 "deployment_retry_claim_lost", "deployment_retry_result_unknown"},
          id \in {row.deploymentId, NoBuild} :
            DispatchWrite(c, DispatchRow(row, s, d, id), Idle)
    BY <1>3 DEF SettleBuild, BuildReplies
  <1>5. /\ {"committed", "failed", "unknown"} \subseteq Statuses \ {"absent"}
        /\ {"deployment_retry_requested", "deployment_retry_failed",
            "deployment_retry_claim_lost", "deployment_retry_result_unknown"}
             \subseteq Details
        /\ NoBuild \in -1..MaxDispatch /\ Idle.pc = "idle"
    BY Words, ConstantsAssumption DEF NoBuild, Idle
  <1> QED BY <1>1, <1>2, <1>3, <1>4, <1>5, IdleOK, GiveUpInv

-----------------------------------------------------------------------------
(* Workspaces, approvals and the environment *)

\* Steps that no handler takes and that write no publication.
LEMMA OuterInv ==
    ASSUME Inv, UNCHANGED <<pub, call>>, OuterOK,
           approval' \in [Approvals -> ApprovalRecord], ApprovalsOK',
           \A a : Made(a, approval) => Made(a, approval')
    PROVE  Inv' /\ RowsKept
  <1>1. TypeOK'
    BY DEF Inv, TypeOK, OuterOK, ProductionHead
  <1>2. RowsOK'
    BY DEF Inv, RowsOK, RowOK
  <1>3. ASSUME NEW c \in Callers
        PROVE  HandlerOK(call[c], approval', pub, branch') /\ FreshOK(call[c], pub)
    <2>1. Len(branch) \in Nat /\ Len(branch') \in Nat
      BY DEF Inv, TypeOK, OuterOK
    <2> QED BY <2>1, CallerFacts, HandlerStable DEF OuterOK
  <1> QED BY <1>1, <1>2, <1>3 DEF Inv, HandlersOK, RowsKept

LEMMA OutsideInv ==
    ASSUME Inv, UNCHANGED <<approval, pub, call>>, OuterOK PROVE Inv' /\ RowsKept
  BY Approving, OuterInv DEF ApprovalMove

LEMMA OpenWorkspaceInv ==
    ASSUME Inv, NEW w \in Workspaces, OpenWorkspace(w) PROVE Inv' /\ RowsKept
  <1>1. workspace' \in [Workspaces -> WorkspaceRecord]
    BY ConstantsAssumption DEF OpenWorkspace, Inv, TypeOK, WorkspaceRecord
  <1>2. OuterOK
    BY <1>1 DEF OpenWorkspace, external, Inv, TypeOK, OuterOK, ProductionHead
  <1> QED BY <1>2, OutsideInv DEF OpenWorkspace

\* Superseding the approvals of a workspace keeps approvals in order.
LEMMA SupersededOK ==
    ASSUME Inv, NEW w
    PROVE  /\ SupersededApprovals(w) \in [Approvals -> ApprovalRecord]
           /\ \A a \in Approvals :
                /\ SupersededApprovals(w)[a].workspace = approval[a].workspace
                /\ Made(a, SupersededApprovals(w)) <=> Made(a, approval)
  <1>1. ASSUME NEW a \in Approvals
        PROVE  /\ SupersededApprovals(w)[a] \in ApprovalRecord
               /\ SupersededApprovals(w)[a].workspace = approval[a].workspace
               /\ Made(a, SupersededApprovals(w)) <=> Made(a, approval)
    <2>1. approval[a] \in ApprovalRecord
      BY DEF Inv, TypeOK
    <2>2. \/ SupersededApprovals(w)[a] = approval[a]
          \/ /\ approval[a].state = "current"
             /\ SupersededApprovals(w)[a] = [approval[a] EXCEPT !.state = "invalidated"]
      BY DEF SupersededApprovals
    <2> QED BY <2>1, <2>2 DEF ApprovalRecord, Made
  <1> QED BY <1>1 DEF SupersededApprovals

LEMMA SaveRevisionInv ==
    ASSUME Inv, NEW w \in Workspaces, SaveRevision(w) PROVE Inv' /\ RowsKept
  <1>1. workspace' \in [Workspaces -> WorkspaceRecord]
    <2>1. workspace \in [Workspaces -> WorkspaceRecord]
      BY DEF Inv, TypeOK
    <2>2. workspace[w].revision + 1 \in 0..MaxRevision
      BY <2>1, ConstantsAssumption DEF SaveRevision, WorkspaceRecord
    <2>3. [workspace[w] EXCEPT !.revision = @ + 1] \in WorkspaceRecord
      BY <2>1, <2>2 DEF WorkspaceRecord
    <2>4. workspace' = [workspace EXCEPT ![w] = [workspace[w] EXCEPT !.revision = @ + 1]]
      BY <2>1 DEF SaveRevision
    <2> QED BY <2>1, <2>3, <2>4
  <1>2. OuterOK
    BY <1>1 DEF SaveRevision, external, Inv, TypeOK, OuterOK, ProductionHead
  <1>3. /\ approval' \in [Approvals -> ApprovalRecord] /\ ApprovalsOK'
        /\ \A a : Made(a, approval) => Made(a, approval')
    <2>1. approval' = SupersededApprovals(w)
      BY DEF SaveRevision
    <2> QED BY <2>1, SupersededOK DEF Inv, ApprovalsOK, Made
  <1> QED BY <1>2, <1>3, OuterInv DEF SaveRevision, external

LEMMA ApproveInv ==
    ASSUME Inv, NEW w \in Workspaces, NEW a \in Approvals, approve(w, a)
    PROVE  Inv' /\ RowsKept
  <1> DEFINE new == [state |-> "current", workspace |-> w, channel |-> channel,
                     revision |-> workspace[w].revision]
  <1>1. OuterOK
    BY Quiet DEF approve, external
  <1>2. new \in ApprovalRecord /\ new.state = "current" /\ new.workspace = w
    BY DEF Inv, TypeOK, WorkspaceRecord, ApprovalRecord
  <1>3. approval' = [SupersededApprovals(w) EXCEPT ![a] = new]
    BY DEF approve
  <1> HIDE DEF new
  <1>4. approval' \in [Approvals -> ApprovalRecord]
    BY <1>2, <1>3, SupersededOK
  <1>5. \A b \in Approvals : approval'[b] = IF b = a THEN new ELSE SupersededApprovals(w)[b]
    BY <1>3, SupersededOK
  <1>6. ApprovalsOK' /\ \A b : Made(b, approval) => Made(b, approval')
    BY <1>2, <1>5, SupersededOK DEF Inv, ApprovalsOK, Made
  <1> QED BY <1>1, <1>4, <1>6, OuterInv DEF approve, external

\* An answer that is delivered, or lost.
LEMMA DeliverInv ==
    ASSUME Inv, NEW p \in Pubs, NEW c \in Callers \cup {None}, NEW reply \in CommitReplies,
           Deliver(p, c, reply), UNCHANGED approval, OuterOK,
           reply = "committed" => \E i \in 1..Len(branch') : branch'[i] = p
    PROVE  Inv' /\ RowsKept
  <1>1. CASE Waiting(p, c)
    <2>1. c \in Callers /\ call[c].pc \in RowSteps /\ call[c].pub = p
      BY <1>1 DEF Waiting, RowSteps, PCs, commitSteps
    <2>2. PICK r \in {reply, "ambiguous"} :
             call' = [call EXCEPT ![c].pc = "settle", ![c].reply = r]
      BY <1>1 DEF Deliver
    <2>3. call' = [call EXCEPT ![c] = [call[c] EXCEPT !.pc = "settle", !.reply = r]]
      BY <2>1, <2>2 DEF Inv, TypeOK
    <2>4. Answered(c, r)
      BY <2>3 DEF Answered, Goto, Deliver
    <2>5. r \in CommitReplies
      BY DEF CommitReplies
    <2>6. r = "committed" => reply = "committed"
      OBVIOUS
    <2> QED BY <2>1, <2>4, <2>5, <2>6, AnsweredInv DEF ApprovalMove
  <1>2. CASE ~Waiting(p, c)
    BY <1>2, OutsideInv DEF Deliver
  <1> QED BY <1>1, <1>2

\* The branch after one more commit.
LEMMA Extended ==
    ASSUME Inv, NEW m \in Pubs \cup {None}, branch' = Append(branch, m),
           ProductionHead < MaxHead
    PROVE  /\ branch' \in Seq(Pubs \cup {None}) /\ Len(branch') <= MaxHead
           /\ Len(branch) <= Len(branch') /\ branch'[Len(branch')] = m
           /\ Len(branch') \in 1..Len(branch')
           /\ \A i \in 1..Len(branch) : branch'[i] = branch[i]
  BY ConstantsAssumption DEF Inv, TypeOK, ProductionHead

LEMMA GitHubCommitsInv ==
    ASSUME Inv, NEW p \in Pubs, NEW c \in Callers \cup {None}, GitHubCommits(p, c)
    PROVE  Inv' /\ RowsKept
  <1>1. /\ branch' = Append(branch, p) /\ ProductionHead < MaxHead /\ UNCHANGED approval
        /\ Deliver(p, c, "committed")
    BY DEF GitHubCommits
  <1>2. OuterOK
    BY <1>1, Extended DEF GitHubCommits, Inv, TypeOK, OuterOK
  <1>3. \E i \in 1..Len(branch') : branch'[i] = p
    BY <1>1, Extended
  <1> QED BY <1>1, <1>2, <1>3, DeliverInv DEF CommitReplies

LEMMA GitHubRefusesInv ==
    ASSUME Inv, NEW p \in Pubs, NEW c \in Callers \cup {None}, GitHubRefuses(p, c)
    PROVE  Inv' /\ RowsKept
  <1>1. OuterOK /\ UNCHANGED approval
    BY DEF GitHubRefuses, Inv, TypeOK, OuterOK, ProductionHead
  <1>2. Deliver(p, c, "moved") \/ Deliver(p, c, "rejected")
    BY DEF GitHubRefuses
  <1> QED BY <1>1, <1>2, DeliverInv DEF CommitReplies

LEMMA RequestTimesOutInv ==
    ASSUME Inv, NEW p \in Pubs, NEW c \in Callers, RequestTimesOut(p, c)
    PROVE  Inv' /\ RowsKept
  <1>1. OuterOK /\ ApprovalMove
    BY DEF RequestTimesOut, ApprovalMove, Inv, TypeOK, OuterOK, ProductionHead
  <1>2. call[c].pc \in RowSteps
    BY DEF RequestTimesOut, Waiting, RowSteps, PCs, commitSteps
  <1> QED BY <1>1, <1>2, AnsweredInv DEF RequestTimesOut, CommitReplies

LEMMA ExternalCommitInv == ASSUME Inv, ExternalCommit PROVE Inv' /\ RowsKept
  <1>1. branch' = Append(branch, None) /\ ProductionHead < MaxHead
    BY DEF ExternalCommit
  <1>2. OuterOK
    BY <1>1, Extended DEF ExternalCommit, Inv, TypeOK, OuterOK
  <1> QED BY <1>2, OutsideInv DEF ExternalCommit

LEMMA BuildStepInv ==
    ASSUME Inv, NEW i \in 1..MaxHead, BuildStep(i) PROVE Inv' /\ RowsKept
  <1>1. build' \in [1..MaxHead -> BuildStates]
    BY DEF BuildStep, Inv, TypeOK, BuildStates
  <1>2. OuterOK
    BY <1>1 DEF BuildStep, Inv, TypeOK, OuterOK, ProductionHead
  <1> QED BY <1>2, OutsideInv DEF BuildStep

LEMMA ManualBuildStepInv ==
    ASSUME Inv, NEW d \in 1..MaxDispatch, ManualBuildStep(d) PROVE Inv' /\ RowsKept
  <1>1. PICK s \in {"building", "refused", "success", "failed"} :
           dispatches' = [dispatches EXCEPT ![d].state = s]
    BY DEF ManualBuildStep
  <1>2. d \in DOMAIN dispatches /\ dispatches \in Seq(Dispatch)
        /\ Len(dispatches) <= MaxDispatch
    BY DEF ManualBuildStep, Inv, TypeOK
  <1>3. d \in 1..Len(dispatches) /\ [dispatches[d] EXCEPT !.state = s] \in Dispatch
    <2>1. d \in 1..Len(dispatches)
      BY <1>2
    <2>2. dispatches[d] \in Dispatch
      BY <1>2, <2>1
    <2>3. s \in {"sent", "refused", "building", "success", "failed"}
      OBVIOUS
    <2> QED BY <2>1, <2>2, <2>3 DEF Dispatch
  <1>4. dispatches' = [dispatches EXCEPT ![d] = [dispatches[d] EXCEPT !.state = s]]
    BY <1>1
  <1>5. dispatches' \in Seq(Dispatch) /\ Len(dispatches') = Len(dispatches)
    BY <1>2, <1>3, <1>4
  <1>6. OuterOK
    BY <1>2, <1>5 DEF ManualBuildStep, Inv, TypeOK, OuterOK, ProductionHead
  <1> QED BY <1>6, OutsideInv DEF ManualBuildStep

LEMMA GoLiveInv ==
    ASSUME Inv, NEW i \in 1..MaxHead, GoLive(i) PROVE Inv' /\ RowsKept
  <1>1. OuterOK
    BY ConstantsAssumption DEF GoLive, Inv, TypeOK, OuterOK, ProductionHead
  <1> QED BY <1>1, OutsideInv DEF GoLive

LEMMA ChangeChannelInv == ASSUME Inv, ChangeChannel PROVE Inv' /\ RowsKept
  <1>1. OuterOK
    BY DEF ChangeChannel, Inv, TypeOK, OuterOK, ProductionHead
  <1> QED BY <1>1, OutsideInv DEF ChangeChannel

\* The clock writes no status, commit or approval.
LEMMA ClockInv ==
    ASSUME Inv, NEW p \in Pubs, LeaseExpires(p) \/ TimePasses(p)
    PROVE  Inv' /\ RowsKept
  <1> DEFINE new == IF LeaseExpires(p) THEN [pub[p] EXCEPT !.leased = FALSE]
                    ELSE [pub[p] EXCEPT !.age = @ + 1]
  <1>1. pub \in [Pubs -> Row] /\ pub' = [pub EXCEPT ![p] = new]
    BY DEF Inv, TypeOK, LeaseExpires, TimePasses
  <1>2. /\ new \in Row /\ new.status = pub[p].status
        /\ new.commitSha = pub[p].commitSha /\ new.approval = pub[p].approval
    <2>1. pub[p] \in Row
      BY <1>1
    <2>2. CASE LeaseExpires(p)
      BY <2>1, <2>2 DEF Row
    <2>3. CASE ~LeaseExpires(p)
      <3>1. pub[p].age + 1 \in 0..2
        BY <2>1, <2>3 DEF TimePasses, Row
      <3> QED BY <2>1, <2>3, <3>1 DEF Row
    <2> QED BY <2>2, <2>3
  <1> HIDE DEF new
  <1>3. /\ UNCHANGED <<workspace, approval, call, external>> /\ OuterOK
        /\ branch' = branch
    BY Quiet DEF LeaseExpires, TimePasses, external
  <1>4. TypeOK'
    BY <1>1, <1>2, <1>3 DEF Inv, TypeOK, OuterOK, ProductionHead
  <1>5. RowsOK'
    BY <1>1, <1>2, <1>3 DEF Inv, RowsOK, RowOK
  <1>6. \A q \in Pubs : pub'[q].status = pub[q].status
    BY <1>1, <1>2
  <1>7. ASSUME NEW c \in Callers
        PROVE  HandlerOK(call[c], approval, pub', branch) /\ FreshOK(call[c], pub')
    <2>1. HandlerOK(call[c], approval, pub, branch) /\ FreshOK(call[c], pub)
      BY CallerFacts
    <2>2. HandlerOK(call[c], approval, pub', branch)
      BY <1>6, <2>1 DEF HandlerOK
    <2>3. FreshOK(call[c], pub')
      BY <1>6, <2>1 DEF FreshOK, HandlerOK, RowSteps, PCs
    <2> QED BY <2>2, <2>3
  <1>8. RowsKept
    BY <1>1, <1>2 DEF RowsKept, WriteAllowed, Active, activeStatuses
  <1> QED BY <1>3, <1>4, <1>5, <1>7, <1>8 DEF Inv, ApprovalsOK, HandlersOK

LEMMA CrashInv == ASSUME Inv, NEW c \in Callers, Crash(c) PROVE Inv' /\ RowsKept
  <1>1. wire' \subseteq Pubs \X (Callers \cup {None})
    BY DEF Crash, Inv, TypeOK
  <1>2. OuterOK /\ ApprovalMove
    BY <1>1 DEF Crash, Inv, TypeOK, OuterOK, ProductionHead, ApprovalMove
  <1> QED BY <1>2, StopInv DEF Crash, Goto

-----------------------------------------------------------------------------
(* Theorems *)

LEMMA CallerStepInv ==
    ASSUME Inv, NEW c \in Callers, CallerStep(c) PROVE Inv' /\ RowsKept
  BY RefreshChannelVetoInv, RefreshDispatchingInv, RefreshReconcileInv,
     RefreshAmbiguousDispatchInv, RefreshDeploymentInv, WriteRowInv,
     PublishPreflightInv, ClaimPublicationInv, PublishGuardInv, PublishRecheckInv,
     CreateCommitCheckInv, CreateCommitPostInv, RevokeApprovalInv, SettleCommitInv,
     RetryReconcileInv, ClaimFailedPublicationRetryInv, RetryLiveInv, RetryHeadInv,
     DispatchClaimInv, DispatchCheckInv, AssertDispatchInv, DispatchBuildInv,
     BuildAnswerInv, SettleBuildInv DEF CallerStep, RefreshStep

\* Every step preserves the invariant, and writes at most one row, as allowed.
LEMMA NextInv == Inv /\ [Next]_vars => Inv' /\ RowsKept
  <1> SUFFICES ASSUME Inv, [Next]_vars PROVE Inv' /\ RowsKept
    OBVIOUS
  <1>1. CASE \E c \in Callers : CallerStep(c)
    BY <1>1, CallerStepInv
  <1>2. CASE Request
    BY <1>2, OpenWorkspaceInv, SaveRevisionInv, ApproveInv, PublishInv, RefreshInv,
       RetryDeploymentInv DEF Request
  <1>3. CASE GitHubStep
    BY <1>3, GitHubCommitsInv, GitHubRefusesInv DEF GitHubStep
  <1>4. CASE Environment
    BY <1>4, CrashInv, RefreshAbandonedInv, RequestTimesOutInv, ExternalCommitInv,
       ChangeChannelInv, BuildStepInv, GoLiveInv, ManualBuildStepInv DEF Environment
  <1>5. CASE Clock
    BY <1>5, ClockInv DEF Clock
  <1>6. CASE UNCHANGED vars
    <2>1. /\ UNCHANGED <<approval, pub, call, workspace, external>> /\ OuterOK
      BY <1>6, Quiet DEF vars, external
    <2> QED BY <2>1, OutsideInv
  <1> QED BY <1>1, <1>2, <1>3, <1>4, <1>5, <1>6 DEF Next

\* The inductive invariant holds in every reachable state.
THEOREM Invariant == Spec => []Inv
  BY InitInv, NextInv, PTL DEF Spec

\* Every variable keeps its type: no handler, whatever it interleaves with,
\* writes a row, a request or a commit that the tables could not hold.
THEOREM TypeCorrect == Spec => []TypeOK
  <1>1. Inv => TypeOK
    BY DEF Inv
  <1> QED BY <1>1, Invariant, PTL

\* Whatever claims, retries and dispatches race, one publication at most holds
\* the production slot.
THEOREM SlotIsExclusive == Spec => []OneActivePublication
  <1>1. Init => OneActivePublication
    BY DEF Init, OneActivePublication, ActivePubs, Active, activeStatuses, NoRow
  <1>2. ASSUME Inv, OneActivePublication, [Next]_vars PROVE OneActivePublication'
    <2>1. RowsKept /\ pub \in [Pubs -> Row]
      BY <1>2, NextInv DEF Inv, TypeOK
    <2>2. CASE pub' = pub
      BY <1>2, <2>2 DEF OneActivePublication, ActivePubs, Active
    <2>3. ASSUME NEW p \in Pubs, NEW new \in Row, pub' = [pub EXCEPT ![p] = new],
                 WriteAllowed(p, new)
          PROVE  OneActivePublication'
      <3>1. CASE new.status \in activeStatuses /\ ~Active(p)
        BY <2>1, <2>3, <3>1 DEF WriteAllowed, OneActivePublication, ActivePubs, Active
      <3>2. CASE new.status \notin activeStatuses \/ Active(p)
        <4>1. ActivePubs' \subseteq ActivePubs
          BY <2>1, <2>3, <3>2 DEF ActivePubs, Active
        <4> QED BY <1>2, <4>1 DEF OneActivePublication
      <3> QED BY <3>1, <3>2
    <2> QED BY <2>1, <2>2, <2>3 DEF RowsKept
  <1> QED BY <1>1, <1>2, Invariant, PTL DEF Spec

\* No handler, however stale the row it holds, erases or replaces a recorded
\* commit, revives a verified or blocked publication, or makes a failed one
\* active again without an explicit retry.
THEOREM HistoryKept == Spec => HistoryIsKept
  <1>1. ASSUME Inv, [Next]_vars PROVE [HistoryStep]_vars
    <2>1. RowsKept /\ pub \in [Pubs -> Row]
      BY <1>1, NextInv DEF Inv, TypeOK
    <2>2. CASE pub' = pub
      BY <2>2, Words DEF HistoryStep
    <2>3. ASSUME NEW p \in Pubs, NEW new \in Row, pub' = [pub EXCEPT ![p] = new],
                 WriteAllowed(p, new)
          PROVE  HistoryStep
      <3> SUFFICES ASSUME NEW q \in Pubs
                   PROVE  /\ pub[q].commitSha # 0 => pub'[q].commitSha = pub[q].commitSha
                          /\ pub[q].status \in {"verified-live", "blocked"} =>
                               pub'[q].status = pub[q].status
                          /\ pub[q].status = "failed" /\ pub'[q].status \in activeStatuses
                               => \E c \in Callers : call[c].retry /\ call[c].pub = q
        BY DEF HistoryStep
      <3>1. CASE q = p
        BY <2>1, <2>3, <3>1 DEF WriteAllowed
      <3>2. CASE q # p
        BY <2>1, <2>3, <3>2 DEF activeStatuses
      <3> QED BY <3>1, <3>2
    <2> QED BY <2>1, <2>2, <2>3 DEF RowsKept
  <1> QED BY <1>1, Invariant, PTL DEF Spec, HistoryIsKept

-----------------------------------------------------------------------------
(* Records: what a row says, whose commit it names, and how long a handler's  *)
(* copy is to be trusted.                                                     *)

\* A manual build may have been asked for.
Fence(row) == row.dispatched /\ row.detail \in deploymentRetryDispatchEvidence

\* What the columns of a row say about each other.
RowShape(row) ==
    /\ row.status = "requested" => row.commitSha = 0
    /\ row.status = "unknown" /\ row.commitSha # 0 =>
         row.detail = "deployment_retry_result_unknown"
    /\ row.dispatched => row.commitSha # 0
    /\ row.commitSha = 0 => row.deploymentId = NoBuild
    /\ row.detail = "deployment_retry_dispatching" =>
         row.status = "committed" /\ row.dispatched /\ row.deploymentId = DispatchToken

OwnCommit(row, p, commits) ==
    row.commitSha # 0 => /\ row.commitSha \in 1..Len(commits)
                         /\ commits[row.commitSha] = p

Served(row, shown) == row.status = "verified-live" => row.commitSha \in shown

\* Only the claim of a retry may be leased fifteen minutes after its request.
Clocked(row) ==
    row.leased /\ row.age = 2 => /\ row.status = "requested" /\ row.commitSha = 0
                                 /\ row.detail = "git_result_unknown"

\* A commit recorded, or its absence left open.
Accounts(row) ==
    \/ row.commitSha # 0
    \/ row.status = "failed" /\ row.detail \in unresolvedDetails

\* An approval belongs to an open workspace, whose base does not change any more;
\* a publication expects that base.
BasesOK ==
    /\ \A a \in Approvals : Made(a, approval) => workspace[approval[a].workspace].open
    /\ \A p \in Pubs : pub[p].status # "absent" =>
         pub[p].expectedHead = BaseOf(pub[p].approval)

RecordsOK ==
    \A p \in Pubs : /\ RowShape(pub[p]) /\ Clocked(pub[p])
                    /\ OwnCommit(pub[p], p, branch) /\ Served(pub[p], released)

\* A commit is on the branch where its publication expected it.
BranchOK ==
    /\ \A i \in 1..Len(branch) : branch[i] # None =>
         pub[branch[i]].status # "absent" /\ i = pub[branch[i]].expectedHead + 1
    /\ \A m \in wire : pub[m[1]].status # "absent"

ChannelOK ==
    "channel" \notin Events =>
        channel = 0 /\ \A a \in Approvals : approval[a].channel = 0

CommitUnknown == commitSteps \cup {"reconcile", "retryClaim"}
CopySteps == {"refresh", "reconcile", "retryClaim", "retryLive", "retryHead",
              "dispatchClaim"}

\* The row a handler works with, whether or not it has been overtaken.
KnownOK(k, pubs, commits, shown) ==
    /\ k.pc \in RowSteps =>
         /\ k.row.approval = pubs[k.pub].approval
         /\ k.row.expectedHead = pubs[k.pub].expectedHead
         /\ OwnCommit(k.row, k.pub, commits) /\ Served(k.row, shown)
    /\ k.pc \in RowSteps \ {"buildWait", "buildSettle"} => RowShape(k.row)
    /\ k.pc \in CommitUnknown => k.row.commitSha = 0
    /\ k.pc \in dispatchSteps => k.row.commitSha # 0
    /\ k.pc \in {"reconcile", "retryClaim"} => k.row.status = "failed"
    /\ k.pc = "refresh" => k.row.status \in activeStatuses
    /\ k.pc = "write" =>
         /\ k.row.status # "requested" /\ k.row.detail # "deployment_retry_dispatching"
         /\ "channel" \notin Events => Accounts(k.row)

\* The row as time leaves it.
Later(row, now) == [row EXCEPT !.age = now.age, !.leased = now.leased]

\* A copy nobody has overtaken is the row, but for the time that has gone by; and
\* what is about to be written keeps the fence, and is not about a commit whose
\* lease is held.
CopyOK(k, pubs) ==
    k.fresh =>
    /\ k.pc \in CopySteps =>
         /\ pubs[k.pub] = Later(k.row, pubs[k.pub])
         /\ k.row.age <= pubs[k.pub].age
         /\ pubs[k.pub].leased => k.row.leased
    /\ k.pc = "write" =>
         /\ k.row.age <= pubs[k.pub].age
         /\ k.row.deploymentId \in {pubs[k.pub].deploymentId, NoBuild}
         /\ Fence(pubs[k.pub]) => Fence(k.row) \/ k.row.status = "verified-live"
         /\ ~k.retry => ~(pubs[k.pub].status = "requested" /\ pubs[k.pub].leased)

RecordInv ==
    /\ live \in released /\ ChannelOK /\ BasesOK /\ RecordsOK /\ BranchOK
    /\ \A c \in Callers : /\ KnownOK(call[c], pub, branch, released)
                          /\ CopyOK(call[c], pub)

-----------------------------------------------------------------------------
(* What every step keeps *)

LEMMA IdleKnown ==
    /\ \A pubs, commits, shown : KnownOK(Idle, pubs, commits, shown)
    /\ \A pubs : CopyOK(Idle, pubs)
  BY DEF KnownOK, CopyOK, Idle, RowSteps, CommitUnknown, commitSteps, dispatchSteps

LEMMA InitRecord == Init => RecordInv
  <1> SUFFICES ASSUME Init PROVE RecordInv
    OBVIOUS
  <1>1. live \in released /\ ChannelOK
    BY DEF Init, ChannelOK, NoApproval
  <1>2. BasesOK /\ BranchOK
    BY DEF Init, BasesOK, BranchOK, NoApproval, NoRow, Made
  <1>3. RecordsOK
    BY DEF Init, RecordsOK, NoRow, RowShape, Clocked, OwnCommit, Served
  <1>4. \A c \in Callers : KnownOK(call[c], pub, branch, released) /\ CopyOK(call[c], pub)
    BY IdleKnown DEF Init
  <1> QED BY <1>1, <1>2, <1>3, <1>4 DEF RecordInv

\* Spending an approval changes nothing but its state.
LEMMA ApprovalKept ==
    ASSUME Inv, ApprovalMove
    PROVE  \A a \in Approvals : /\ approval'[a].workspace = approval[a].workspace
                                /\ approval'[a].channel = approval[a].channel
                                /\ approval'[a].revision = approval[a].revision
                                /\ Made(a, approval') <=> Made(a, approval)
  <1>1. CASE UNCHANGED approval
    BY <1>1
  <1>2. CASE \E a \in Approvals : Made(a, approval) /\ approval' = invalidated(a)
    BY <1>2 DEF invalidated, Inv, TypeOK, ApprovalRecord, Made
  <1> QED BY <1>1, <1>2 DEF ApprovalMove

\* What a handler knows survives steps that change no publication's approval and
\* expectation, take no commit off the branch and no release back.
LEMMA KnownStable ==
    ASSUME NEW k \in Call, NEW P1, NEW P2, NEW B1, NEW B2, NEW S1, NEW S2,
           KnownOK(k, P1, B1, S1),
           k.pc \in RowSteps => /\ P2[k.pub].approval = P1[k.pub].approval
                                /\ P2[k.pub].expectedHead = P1[k.pub].expectedHead,
           Len(B1) \in Nat, Len(B2) \in Nat, Len(B1) <= Len(B2),
           \A i \in 1..Len(B1) : B2[i] = B1[i], S1 \subseteq S2
    PROVE  KnownOK(k, P2, B2, S2)
  <1>1. k.pc \in RowSteps => OwnCommit(k.row, k.pub, B2) /\ Served(k.row, S2)
    BY DEF KnownOK, OwnCommit, Served
  <1> QED BY <1>1 DEF KnownOK

\* The tables beside the handlers and rows are as before, or grow as they may.
TablesMove ==
    /\ UNCHANGED <<workspace, branch, live, released, channel>>
    /\ \A m \in wire' : pub[m[1]].status # "absent"

LEMMA BasesKept ==
    ASSUME Inv, RecordInv, ApprovalMove, UNCHANGED workspace
    PROVE  /\ \A a \in Approvals : Made(a, approval') =>
                 workspace'[approval'[a].workspace].open
           /\ \A a \in Approvals : workspace'[approval'[a].workspace].base = BaseOf(a)
  BY ApprovalKept DEF RecordInv, BasesOK, BaseOf

LEMMA RecordMove ==
    ASSUME Inv, RecordInv, NEW c \in Callers, NEW k \in Call, Goto(c, k),
           ApprovalMove, TablesMove,
           KnownOK(k, pub, branch, released), CopyOK(k, pub)
    PROVE  RecordInv'
  <1>1. pub' = pub /\ call' = [call EXCEPT ![c] = k] /\ call \in [Callers -> Call]
    BY DEF Goto, Inv, TypeOK
  <1>2. live' \in released' /\ ChannelOK'
    BY ApprovalKept DEF RecordInv, ChannelOK, TablesMove
  <1>3. BasesOK'
    <2>1. \A p \in Pubs : pub[p].status # "absent" => pub[p].approval \in Approvals
      BY DEF Inv, RowsOK, RowOK, Made
    <2> QED BY <1>1, <2>1, BasesKept DEF RecordInv, BasesOK, BaseOf, TablesMove
  <1>4. RecordsOK' /\ BranchOK'
    BY <1>1 DEF RecordInv, RecordsOK, BranchOK, TablesMove
  <1>5. \A d \in Callers : /\ KnownOK(call'[d], pub', branch', released')
                           /\ CopyOK(call'[d], pub')
    BY <1>1 DEF RecordInv, TablesMove
  <1> QED BY <1>2, <1>3, <1>4, <1>5 DEF RecordInv

LEMMA RecordStore ==
    ASSUME Inv, RecordInv, NEW c \in Callers, NEW p \in Pubs, NEW row \in Row,
           NEW k \in Call, Store(c, p, row, k), ApprovalMove, TablesMove,
           row.status # "absent", row.approval \in Approvals,
           pub[p].status # "absent" => /\ row.approval = pub[p].approval
                                       /\ row.expectedHead = pub[p].expectedHead,
           pub[p].status = "absent" => row.expectedHead = BaseOf(row.approval),
           RowShape(row), Clocked(row), OwnCommit(row, p, branch), Served(row, released),
           KnownOK(k, [pub EXCEPT ![p] = row], branch, released),
           CopyOK(k, [pub EXCEPT ![p] = row])
    PROVE  RecordInv'
  <1> DEFINE stored == [pub EXCEPT ![p] = row]
  <1>1. /\ pub' = stored /\ pub \in [Pubs -> Row]
        /\ call' = [d \in Callers |->
                      IF d = c THEN k
                      ELSE IF call[d].pub = p THEN [call[d] EXCEPT !.fresh = FALSE]
                      ELSE call[d]]
        /\ call \in [Callers -> Call] /\ Len(branch) \in Nat
    BY DEF Store, Inv, TypeOK
  <1>2. \A q \in Pubs : stored[q] = IF q = p THEN row ELSE pub[q]
    BY <1>1
  <1>3. live' \in released' /\ ChannelOK'
    BY ApprovalKept DEF RecordInv, ChannelOK, TablesMove
  <1>4. BasesOK'
    <2>1. \A q \in Pubs : pub[q].status # "absent" =>
             pub[q].approval \in Approvals /\ pub[q].expectedHead = BaseOf(pub[q].approval)
      BY DEF Inv, RowsOK, RowOK, Made, RecordInv, BasesOK
    <2>2. row.expectedHead = BaseOf(row.approval)
      BY <2>1
    <2>3. \A q \in Pubs : stored[q].status # "absent" =>
             /\ stored[q].approval \in Approvals
             /\ stored[q].expectedHead = BaseOf(stored[q].approval)
      BY <1>2, <2>1, <2>2
    <2> HIDE DEF stored
    <2> QED BY <1>1, <2>3, BasesKept DEF BasesOK, BaseOf, TablesMove
  <1>5. RecordsOK'
    BY <1>1, <1>2 DEF RecordInv, RecordsOK, TablesMove
  <1>6. BranchOK'
    <2>1. \A i \in 1..Len(branch) : branch[i] # None => branch[i] \in Pubs
      BY DEF Inv, TypeOK
    <2>2. \A m \in wire' : m[1] \in Pubs => stored[m[1]].status # "absent"
      BY <1>2 DEF TablesMove
    <2>3. \A i \in 1..Len(branch) : branch[i] # None =>
             stored[branch[i]].status # "absent" /\ i = stored[branch[i]].expectedHead + 1
      BY <1>2, <2>1 DEF RecordInv, BranchOK
    <2>4. \A m \in wire' : m[1] \in Pubs \/ stored[m[1]] = pub[m[1]]
      BY <1>1
    <2> HIDE DEF stored
    <2> QED BY <1>1, <2>2, <2>3, <2>4 DEF BranchOK, TablesMove
  <1>7. ASSUME NEW d \in Callers
        PROVE  KnownOK(call'[d], stored, branch, released) /\ CopyOK(call'[d], stored)
    <2>1. CASE d = c
      BY <1>1, <2>1
    <2>2. CASE d # c
      <3>1. /\ call[d] \in Call /\ HandlerOK(call[d], approval, pub, branch)
            /\ KnownOK(call[d], pub, branch, released) /\ CopyOK(call[d], pub)
        BY <1>1, CallerFacts DEF RecordInv
      <3>2. call[d].pc \in RowSteps => call[d].pub \in Pubs /\ pub[call[d].pub].status # "absent"
        BY <3>1 DEF HandlerOK
      <3>3. call[d].pc \in RowSteps =>
               /\ stored[call[d].pub].approval = pub[call[d].pub].approval
               /\ stored[call[d].pub].expectedHead = pub[call[d].pub].expectedHead
        BY <1>2, <3>2
      <3>4. KnownOK(call[d], stored, branch, released)
        <4> HIDE DEF stored
        <4> QED BY <1>1, <3>1, <3>3, KnownStable
      <3>5. CASE call[d].pub = p
        <4>1. /\ call'[d] = [call[d] EXCEPT !.fresh = FALSE]
              /\ ~call'[d].fresh /\ call'[d].pc = call[d].pc
              /\ call'[d].row = call[d].row /\ call'[d].pub = call[d].pub
          BY <1>1, <2>2, <3>1, <3>5 DEF Call
        <4> HIDE DEF stored
        <4> QED BY <3>4, <4>1 DEF KnownOK, CopyOK
      <3>6. CASE call[d].pub # p
        <4>1. call'[d] = call[d]
          BY <1>1, <2>2, <3>6
        <4>2. call[d].pc \in RowSteps => stored[call[d].pub] = pub[call[d].pub]
          BY <1>2, <3>2, <3>6
        <4>3. CopyOK(call[d], stored)
          <5> HIDE DEF stored
          <5> QED BY <3>1, <4>2 DEF CopyOK, CopySteps, RowSteps, PCs, dispatchSteps
        <4> QED BY <3>4, <4>1, <4>3
      <3> QED BY <3>5, <3>6
    <2> QED BY <2>1, <2>2
  <1> HIDE DEF stored
  <1> QED BY <1>1, <1>3, <1>4, <1>5, <1>6, <1>7 DEF RecordInv, TablesMove

-----------------------------------------------------------------------------
(* Handlers that go on *)

LEMMA RowKnown ==
    ASSUME Inv, RecordInv, NEW c \in Callers
    PROVE  KnownOK(call[c], pub, branch, released) /\ CopyOK(call[c], pub)
  BY DEF RecordInv

\* A handler that keeps no row, or drops it.
LEMMA RecordRest ==
    ASSUME Inv, RecordInv, NEW c \in Callers, NEW k \in Call, Goto(c, k),
           k.pc \in {"idle", "preflight", "claim"}, ApprovalMove, TablesMove
    PROVE  RecordInv'
  <1>1. KnownOK(k, pub, branch, released) /\ CopyOK(k, pub)
    BY DEF KnownOK, CopyOK, RowSteps, CommitUnknown, commitSteps, dispatchSteps, CopySteps
  <1> QED BY <1>1, RecordMove

\* A handler that goes on with the row it has.
LEMMA RecordGo ==
    ASSUME Inv, RecordInv, NEW c \in Callers, NEW k \in Call, Goto(c, k),
           call[c].pc \in RowSteps, k.pc \in RowSteps \ {"write", "refresh"},
           k.pub = call[c].pub, k.row = call[c].row, k.fresh = call[c].fresh,
           k.pc \in CommitUnknown => k.row.commitSha = 0,
           k.pc \in dispatchSteps => k.row.commitSha # 0,
           k.pc \in {"reconcile", "retryClaim"} => k.row.status = "failed",
           call[c].pc \in {"buildWait", "buildSettle"} => k.pc = "buildSettle",
           k.pc \in CopySteps => call[c].pc \in CopySteps,
           ApprovalMove, TablesMove
    PROVE  RecordInv'
  <1>1. KnownOK(call[c], pub, branch, released) /\ CopyOK(call[c], pub)
    BY RowKnown
  <1>2. KnownOK(k, pub, branch, released)
    BY <1>1 DEF KnownOK, RowSteps
  <1>3. CopyOK(k, pub)
    BY <1>1 DEF CopyOK
  <1> QED BY <1>2, <1>3, RecordMove

\* What a fresh copy says of its row.
LEMMA CopyFacts ==
    ASSUME Inv, RecordInv, NEW c \in Callers, call[c].pc \in CopySteps, call[c].fresh
    PROVE  LET row == call[c].row  now == pub[call[c].pub]
           IN  /\ now.status = row.status /\ now.detail = row.detail
               /\ now.commitSha = row.commitSha /\ now.deploymentId = row.deploymentId
               /\ now.dispatched = row.dispatched /\ now.lease = row.lease
               /\ row.age <= now.age /\ (now.leased => row.leased)
  <1>1. CopyOK(call[c], pub) /\ call[c].row \in Row
    BY RowKnown, CallerFacts
  <1> QED BY <1>1 DEF CopyOK, Row, Later

\* A row to be written in place of the copy it is made from.
WriteFrom(row, new) ==
    /\ new.approval = row.approval /\ new.expectedHead = row.expectedHead
    /\ new.age = row.age /\ new.deploymentId \in {row.deploymentId, NoBuild}
    /\ Fence(row) => Fence(new) \/ new.status = "verified-live"
    /\ RowShape(new) /\ new.status # "requested"
    /\ new.detail # "deployment_retry_dispatching"
    /\ "channel" \notin Events => Accounts(new)

LEMMA RecordToWrite ==
    ASSUME Inv, RecordInv, NEW c \in Callers, NEW k \in Call, Goto(c, k),
           call[c].pc \in {"refresh", "reconcile", "retryLive"}, k.pc = "write",
           k.pub = call[c].pub, k.fresh = call[c].fresh, k.retry = call[c].retry,
           WriteFrom(call[c].row, k.row),
           OwnCommit(k.row, k.pub, branch), Served(k.row, released),
           k.fresh /\ ~k.retry => ~(pub[k.pub].status = "requested" /\ pub[k.pub].leased),
           ApprovalMove, TablesMove
    PROVE  RecordInv'
  <1>1. KnownOK(call[c], pub, branch, released) /\ CopyOK(call[c], pub)
    BY RowKnown
  <1>2. call[c].pc \in RowSteps /\ call[c].pc \in CopySteps
    BY DEF RowSteps, PCs, CopySteps
  <1>3. KnownOK(k, pub, branch, released)
    BY <1>1, <1>2 DEF KnownOK, WriteFrom, CommitUnknown, commitSteps, dispatchSteps
  <1>4. CopyOK(k, pub)
    <2> SUFFICES ASSUME k.fresh PROVE CopyOK(k, pub)
      BY DEF CopyOK
    <2>1. /\ pub[k.pub].dispatched = call[c].row.dispatched
          /\ pub[k.pub].detail = call[c].row.detail
          /\ pub[k.pub].deploymentId = call[c].row.deploymentId
          /\ call[c].row.age <= pub[k.pub].age
      <3>1. call[c].fresh
        OBVIOUS
      <3> QED BY <1>2, <3>1, CopyFacts
    <2> QED BY <2>1 DEF CopyOK, WriteFrom, Fence, CopySteps
  <1> QED BY <1>3, <1>4, RecordMove

-----------------------------------------------------------------------------
(* Refresh *)

\* A handler's steps leave the tables beside rows and handlers alone.
LEMMA Beside ==
    ASSUME RecordInv, UNCHANGED <<workspace, external>>
    PROVE  TablesMove
  BY DEF TablesMove, external, RecordInv, BranchOK

\* What a refresh rewrites is not a request whose lease is held.
LEMMA Unheld ==
    ASSUME Inv, RecordInv, NEW c \in Callers, call[c].pc = "refresh", call[c].fresh,
           \/ call[c].row.commitSha # 0 \/ ~call[c].row.leased
           \/ call[c].row.status # "requested"
           \/ /\ call[c].row.age = 2
              /\ ~contentPublicationHasUnresolvedGitOutcome(call[c].row)
    PROVE  ~(pub[call[c].pub].status = "requested" /\ pub[call[c].pub].leased)
  <1> DEFINE p == call[c].pub
             row == call[c].row
  <1>1. call[c].pc \in RowSteps /\ call[c].pc \in CopySteps
    BY DEF RowSteps, PCs, CopySteps
  <1>2. p \in Pubs /\ pub[p] \in Row /\ row \in Row
    BY <1>1, RowStepFacts DEF Inv, TypeOK
  <1>3. /\ pub[p].status = row.status /\ pub[p].detail = row.detail
        /\ pub[p].commitSha = row.commitSha
        /\ row.age <= pub[p].age /\ (pub[p].leased => row.leased)
    BY <1>1, CopyFacts
  <1>4. RowShape(pub[p]) /\ Clocked(pub[p])
    BY <1>2 DEF RecordInv, RecordsOK
  <1>5. row.age = 2 => pub[p].age = 2
    BY <1>2, <1>3 DEF Row
  <1> QED BY <1>3, <1>4, <1>5
        DEF RowShape, Clocked, contentPublicationHasUnresolvedGitOutcome, unresolvedDetails

LEMMA UnchangedRecord ==
    ASSUME Inv, RecordInv, NEW c \in Callers, Unchanged(c),
           UNCHANGED <<workspace, approval, external>>
    PROVE  RecordInv'
  <1>1. AfterRefresh(call[c]) \in Call
        /\ AfterRefresh(call[c]).pc \in {"idle", "preflight"}
    BY CallerFacts, AfterRefreshOK DEF AfterRefresh, Idle
  <1> QED BY <1>1, Beside, RecordRest DEF Unchanged, ApprovalMove

LEMMA RefreshedRecord ==
    ASSUME Inv, RecordInv, NEW c \in Callers, call[c].pc = "refresh",
           NEW new \in Row, NEW resume \in {"end", "refresh"}, Refreshed(c, new, resume),
           WriteFrom(call[c].row, new), OwnCommit(new, call[c].pub, branch),
           Served(new, released),
           \/ call[c].row.commitSha # 0 \/ ~call[c].row.leased
           \/ call[c].row.status # "requested"
           \/ /\ call[c].row.age = 2
              /\ ~contentPublicationHasUnresolvedGitOutcome(call[c].row),
           UNCHANGED <<workspace, approval, external>>
    PROVE  RecordInv'
  <1> DEFINE k == [call[c] EXCEPT !.pc = "write", !.row = new, !.resume = resume]
  <1>1. k \in Call /\ k.pc = "write" /\ k.row = new /\ k.pub = call[c].pub
        /\ k.fresh = call[c].fresh /\ k.retry = call[c].retry
    BY CallerFacts DEF Call, PCs
  <1>2. Goto(c, k) /\ ApprovalMove /\ TablesMove
    BY Beside DEF Refreshed, ApprovalMove
  <1>3. k.fresh => call[c].fresh
    BY <1>1
  <1> HIDE DEF k
  <1> QED BY <1>1, <1>2, <1>3, Unheld, RecordToWrite

\* The copy a refresh works with.
LEMMA RefreshRow ==
    ASSUME Inv, RecordInv, NEW c \in Callers, call[c].pc \in RowSteps
    PROVE  /\ call[c].row \in Row /\ OwnCommit(call[c].row, call[c].pub, branch)
           /\ Served(call[c].row, released)
           /\ call[c].pc \notin {"buildWait", "buildSettle"} => RowShape(call[c].row)
           /\ call[c].pc = "refresh" => call[c].row.status \in activeStatuses
           /\ call[c].row.approval = pub[call[c].pub].approval
           /\ call[c].row.expectedHead = pub[call[c].pub].expectedHead
  BY RowKnown, CallerFacts DEF KnownOK

\* Without another configuration the channel reads as approved.
LEMMA ChannelSame ==
    ASSUME RecordInv, "channel" \notin Events, NEW a \in Approvals,
           NEW seen \in ChannelReads(a)
    PROVE  seen = "same"
  BY DEF RecordInv, ChannelOK, ChannelReads

LEMMA ChannelFailureRecord ==
    ASSUME Inv, RecordInv, NEW c \in Callers, NEW failure, call[c].pc = "refresh",
           "channel" \in Events,
           ChannelFailure(c, call[c].row, failure),
           \/ call[c].row.commitSha # 0 \/ ~call[c].row.leased
           \/ call[c].row.status # "requested"
           \/ ~contentPublicationHasUnresolvedGitOutcome(call[c].row),
           UNCHANGED <<workspace, approval, external>>
    PROVE  RecordInv'
  <1> DEFINE row == call[c].row
             detail == IF deploymentRetryDispatchWasAttempted(row)
                       THEN "deployment_retry_timeout"
                       ELSE IF contentPublicationHasUnresolvedGitOutcome(row)
                       THEN row.detail
                       ELSE IF failure = "changed" THEN "publication_channel_changed"
                       ELSE "publication_channel_unavailable"
             new == [row EXCEPT !.status = "failed", !.detail = detail]
  <1>1. CASE row.age = 2
    <2>1. Refreshed(c, new, "end")
      BY <1>1 DEF ChannelFailure
    <2>2. row \in Row /\ OwnCommit(row, call[c].pub, branch) /\ RowShape(row)
      BY RefreshRow DEF RowSteps, PCs
    <2>3. detail \in Details /\ "failed" \in Statuses
      BY <2>2 DEF Details, deploymentRetryDispatchEvidence, Row, Statuses
    <2>4. detail # "deployment_retry_dispatching"
      BY DEF contentPublicationHasUnresolvedGitOutcome, unresolvedDetails
    <2>5. Fence(row) => detail = "deployment_retry_timeout"
      BY DEF Fence, deploymentRetryDispatchWasAttempted
    <2>6. /\ new \in Row /\ new.status = "failed" /\ new.detail = detail
          /\ new.approval = row.approval /\ new.expectedHead = row.expectedHead
          /\ new.age = row.age /\ new.deploymentId = row.deploymentId
          /\ new.dispatched = row.dispatched /\ new.commitSha = row.commitSha
      <3> HIDE DEF detail
      <3> QED BY <2>2, <2>3 DEF Row
    <2> HIDE DEF new, detail
    <2>7. Fence(row) => Fence(new)
      BY <2>5, <2>6 DEF Fence, deploymentRetryDispatchEvidence
    <2>8. RowShape(new)
      BY <2>2, <2>4, <2>6 DEF RowShape
    <2>9. OwnCommit(new, call[c].pub, branch) /\ Served(new, released)
      BY <2>2, <2>6 DEF OwnCommit, Served
    <2> QED BY <1>1, <2>1, <2>4, <2>6, <2>7, <2>8, <2>9, RefreshedRecord DEF WriteFrom
  <1>2. CASE row.age # 2
    BY <1>2, UnchangedRecord DEF ChannelFailure
  <1> QED BY <1>1, <1>2

LEMMA RefreshChannelVetoRecord ==
    ASSUME Inv, RecordInv, NEW c \in Callers, RefreshChannelVeto(c) PROVE RecordInv'
  <1>1. call[c].pc \in RowSteps /\ call[c].row.approval \in Approvals
    BY RowStepFacts DEF RefreshChannelVeto, RowSteps, PCs, Made
  <1>2. "channel" \in Events
    BY <1>1, ChannelSame DEF RefreshChannelVeto, ChannelVetoesFirst
  <1> QED BY <1>2, ChannelFailureRecord DEF RefreshChannelVeto, ChannelVetoesFirst

LEMMA RefreshDispatchingRecord ==
    ASSUME Inv, RecordInv, NEW c \in Callers, RefreshDispatching(c) PROVE RecordInv'
  <1> DEFINE row == call[c].row
             new == [row EXCEPT !.status = "unknown", !.deploymentId = NoBuild,
                                !.detail = "deployment_retry_result_unknown"]
  <1>1. /\ call[c].pc = "refresh" /\ UNCHANGED <<workspace, approval, external>>
        /\ Unchanged(c) \/ Refreshed(c, new, "end")
        /\ row.detail = "deployment_retry_dispatching"
    BY DEF RefreshDispatching, Dispatching
  <1>2. row \in Row /\ OwnCommit(row, call[c].pub, branch) /\ RowShape(row)
    BY <1>1, RefreshRow DEF RowSteps, PCs
  <1>3. row.dispatched /\ row.commitSha # 0
    BY <1>1, <1>2 DEF RowShape
  <1>4. /\ new \in Row /\ new.status = "unknown"
        /\ new.detail = "deployment_retry_result_unknown"
        /\ new.approval = row.approval /\ new.expectedHead = row.expectedHead
        /\ new.age = row.age /\ new.deploymentId = NoBuild
        /\ new.dispatched = row.dispatched /\ new.commitSha = row.commitSha
    <2>1. /\ NoBuild \in -1..MaxDispatch
          /\ "unknown" \in Statuses /\ "deployment_retry_result_unknown" \in Details
      BY Words, ConstantsAssumption DEF NoBuild
    <2> QED BY <1>2, <2>1 DEF Row
  <1> HIDE DEF new
  <1>5. WriteFrom(row, new)
    BY <1>3, <1>4 DEF WriteFrom, Fence, RowShape, Accounts, deploymentRetryDispatchEvidence
  <1>6. OwnCommit(new, call[c].pub, branch) /\ Served(new, released)
    BY <1>2, <1>4 DEF OwnCommit, Served
  <1> QED BY <1>1, <1>3, <1>4, <1>5, <1>6, UnchangedRecord, RefreshedRecord

LEMMA RefreshReconcileRecord ==
    ASSUME Inv, RecordInv, NEW c \in Callers, RefreshReconcile(c) PROVE RecordInv'
  <1> DEFINE row == call[c].row
             p == call[c].pub
             found == [row EXCEPT !.status = "committed", !.commitSha = CommitOf(p),
                                  !.detail = "none", !.lease = None, !.leased = FALSE]
             gone(d) == [row EXCEPT !.status = "failed", !.detail = d,
                                    !.lease = None, !.leased = FALSE]
  <1>1. /\ call[c].pc = "refresh" /\ UNCHANGED <<workspace, approval, external>>
        /\ row.status # "requested" \/ ~row.leased \/ Unchanged(c)
        /\ \/ Unchanged(c)
           \/ Landed(p) /\ Refreshed(c, found, "refresh")
           \/ \E seen \in ChannelReads(row.approval) :
                seen # "same" /\ ChannelFailure(c, row, seen)
           \/ \E seen : Refreshed(c, gone(NotFoundDetail(row, seen)), "end")
    BY DEF RefreshReconcile, ReconcileReads, CommitUnresolved, CommitLeaseHeld
  <1>a. row.commitSha = 0
    BY DEF RefreshReconcile, CommitUnresolved
  <1>2. /\ row \in Row /\ OwnCommit(row, p, branch) /\ RowShape(row)
        /\ row.approval \in Approvals /\ ~row.dispatched
    <2>1. call[c].pc \in RowSteps
      BY <1>1 DEF RowSteps, PCs
    <2> QED BY <1>1, <1>a, <2>1, RefreshRow, RowStepFacts DEF RowShape, Made
  <1>3. CASE Unchanged(c)
    BY <1>1, <1>3, UnchangedRecord
  <1>4. CASE /\ row.status # "requested" \/ ~row.leased
             /\ Landed(p) /\ Refreshed(c, found, "refresh")
    <2>1. CommitOf(p) \in 0..MaxHead /\ CommitOf(p) \in 1..Len(branch)
          /\ branch[CommitOf(p)] = p /\ CommitOf(p) # 0
      BY <1>4, CommitFound, ConstantsAssumption DEF Inv, TypeOK, ProductionHead
    <2>2. /\ found \in Row /\ found.status = "committed" /\ found.detail = "none"
          /\ found.approval = row.approval /\ found.expectedHead = row.expectedHead
          /\ found.age = row.age /\ found.deploymentId = row.deploymentId
          /\ found.dispatched = row.dispatched /\ found.commitSha = CommitOf(p)
      BY <1>2, <2>1 DEF Row, Statuses, activeStatuses, Details
    <2> HIDE DEF found
    <2>3. WriteFrom(row, found)
      BY <1>2, <2>1, <2>2 DEF WriteFrom, Fence, RowShape, Accounts
    <2>4. OwnCommit(found, p, branch) /\ Served(found, released)
      BY <2>1, <2>2 DEF OwnCommit, Served
    <2> QED BY <1>1, <1>4, <2>2, <2>3, <2>4, RefreshedRecord
  <1>5. CASE /\ row.status # "requested" \/ ~row.leased
             /\ \E seen \in ChannelReads(row.approval) :
                  seen # "same" /\ ChannelFailure(c, row, seen)
    BY <1>1, <1>2, <1>5, ChannelSame, ChannelFailureRecord
  <1>6. CASE /\ row.status # "requested" \/ ~row.leased
             /\ \E seen : Refreshed(c, gone(NotFoundDetail(row, seen)), "end")
    <2> PICK d \in unresolvedDetails : Refreshed(c, gone(d), "end")
      BY <1>6 DEF NotFoundDetail, unresolvedDetails
    <2>1. /\ gone(d) \in Row /\ gone(d).status = "failed" /\ gone(d).detail = d
          /\ gone(d).approval = row.approval /\ gone(d).expectedHead = row.expectedHead
          /\ gone(d).age = row.age /\ gone(d).deploymentId = row.deploymentId
          /\ gone(d).dispatched = row.dispatched /\ gone(d).commitSha = 0
      BY ZenonT(40), <1>2, <1>a DEF Row, Statuses, Details
    <2>2. d # "deployment_retry_dispatching"
      BY DEF unresolvedDetails
    <2> HIDE DEF gone
    <2>3. WriteFrom(row, gone(d))
      <3>1. RowShape(row) /\ row.commitSha = 0 /\ row.deploymentId = NoBuild
        BY <1>2, <1>a DEF RowShape
      <3>2. RowShape(gone(d))
        BY <2>1, <2>2, <3>1 DEF RowShape
      <3>3. /\ Fence(row) => FALSE
            /\ Accounts(gone(d))
        BY <2>1, <3>1 DEF Fence, RowShape, Accounts
      <3> QED BY <2>1, <2>2, <3>2, <3>3 DEF WriteFrom
    <2>4. OwnCommit(gone(d), p, branch) /\ Served(gone(d), released)
      BY <2>1 DEF OwnCommit, Served
    <2> QED BY <1>1, <1>6, <2>1, <2>3, <2>4, RefreshedRecord
  <1> QED BY <1>1, <1>3, <1>4, <1>5, <1>6

With(row, s, d) == [row EXCEPT !.status = s, !.detail = d]

\* What a status and a detail make of a row that has its commit.
LEMMA WriteWith ==
    ASSUME NEW row \in Row, NEW p, NEW s \in Statuses, NEW d \in Details,
           RowShape(row), OwnCommit(row, p, branch), row.commitSha # 0,
           s \notin {"requested", "unknown", "absent"},
           d # "deployment_retry_dispatching",
           Fence(row) => d \in deploymentRetryDispatchEvidence \/ s = "verified-live",
           s = "verified-live" => row.commitSha \in released
    PROVE  LET new == With(row, s, d)
           IN  /\ WriteFrom(row, new) /\ OwnCommit(new, p, branch) /\ Served(new, released)
               /\ new \in Row /\ new.status = s
  <1> DEFINE new == With(row, s, d)
  <1>1. /\ new \in Row /\ new.status = s /\ new.detail = d
        /\ new.approval = row.approval /\ new.expectedHead = row.expectedHead
        /\ new.age = row.age /\ new.deploymentId = row.deploymentId
        /\ new.dispatched = row.dispatched /\ new.commitSha = row.commitSha
    BY DEF Row, With
  <1> HIDE DEF new
  <1>2. WriteFrom(row, new)
    BY <1>1 DEF WriteFrom, Fence, RowShape, Accounts
  <1>3. OwnCommit(new, p, branch) /\ Served(new, released)
    BY <1>1 DEF OwnCommit, Served
  <1> QED BY <1>1, <1>2, <1>3 DEF new

\* A marker that reads live names the commit the site serves.
LEMMA MarkerLive ==
    ASSUME RecordInv, NEW sha, NEW marker \in MarkerReads(sha), marker = "live"
    PROVE  sha = live /\ sha \in released
  BY DEF MarkerReads, RecordInv

LEMMA RefreshAmbiguousDispatchRecord ==
    ASSUME Inv, RecordInv, NEW c \in Callers, RefreshAmbiguousDispatch(c)
    PROVE  RecordInv'
  <1> DEFINE row == call[c].row
             new(s, d) == With(row, s, d)
  <1>1. /\ call[c].pc = "refresh" /\ UNCHANGED <<workspace, approval, external>>
        /\ row.commitSha # 0
        /\ \/ Unchanged(c)
           \/ /\ row.commitSha \in released
              /\ Refreshed(c, new("verified-live", "none"), "end")
           \/ Refreshed(c, new("failed", "deployment_retry_timeout"), "end")
    BY MarkerLive DEF RefreshAmbiguousDispatch, VerifiedLive, With
  <1>2. row \in Row /\ OwnCommit(row, call[c].pub, branch) /\ RowShape(row)
    BY <1>1, RefreshRow DEF RowSteps, PCs
  <1>3. /\ {"verified-live", "failed"} \subseteq Statuses
        /\ {"none", "deployment_retry_timeout"} \subseteq Details
        /\ "deployment_retry_timeout" \in deploymentRetryDispatchEvidence
    BY Words DEF deploymentRetryDispatchEvidence
  <1>4. ASSUME NEW s \in Statuses, NEW d \in Details, Refreshed(c, new(s, d), "end"),
               s \notin {"requested", "unknown", "absent"},
               d # "deployment_retry_dispatching",
               d \in deploymentRetryDispatchEvidence \/ s = "verified-live",
               s = "verified-live" => row.commitSha \in released
        PROVE  RecordInv'
    <2>1. /\ WriteFrom(row, new(s, d)) /\ OwnCommit(new(s, d), call[c].pub, branch)
          /\ Served(new(s, d), released) /\ new(s, d) \in Row
      BY <1>1, <1>2, <1>4, WriteWith
    <2> HIDE DEF new
    <2> QED BY <1>1, <1>4, <2>1, RefreshedRecord
  <1> HIDE DEF new
  <1> QED BY <1>1, <1>3, <1>4, UnchangedRecord

\* What a refresh writes about a deployment: it never goes back to a request,
\* and keeps the fence.
LEMMA OutcomeFrom ==
    ASSUME NEW row \in Row, NEW marker,
           NEW observed \in {"requested", "building", "deployed", "failed", "unknown"},
           row.status \in {"committed", "building", "deployed"},
           ~DeploymentSilent(row, observed)
    PROVE  \E s \in {"verified-live", "failed", "deployed", "building"},
              d \in Details \ {"deployment_retry_dispatching"} :
             /\ DeploymentOutcome(row, observed, marker) =
                  With(row, s, d)
             /\ Fence(row) => d \in deploymentRetryDispatchEvidence \/ s = "verified-live"
             /\ s = "verified-live" => marker = "live"
  <1> DEFINE Plain == {"release_marker_timeout", "release_marker_pending", "none",
                       "cloudflare_build_failed", "deployment_signal_timeout"}
             To(s, d) == With(row, s, d)
  <1>1. ASSUME NEW d \in Plain, NEW failed \in BOOLEAN
        PROVE  /\ Fenced(row, d, failed) \in Details \ {"deployment_retry_dispatching"}
               /\ Fence(row) => Fenced(row, d, failed) \in deploymentRetryDispatchEvidence
    BY DEF Fenced, Fence, deploymentRetryDispatchWasAttempted, Details,
           deploymentRetryDispatchEvidence
  <1>2. observed = "requested" /\ row.status # "deployed" /\ row.age # 2 =>
           DeploymentSilent(row, observed)
    <2>1. /\ DOMAIN deploymentProgress = {"requested", "committed", "building", "deployed"}
          /\ deploymentProgress["requested"] = 0
          /\ deploymentProgress["committed"] = 1 /\ deploymentProgress["building"] = 2
      BY DEF deploymentProgress
    <2> QED BY <2>1 DEF DeploymentSilent, Regresses
  <1>3. observed = "unknown" /\ row.status # "deployed" /\ row.age # 2 =>
           DeploymentSilent(row, observed)
    BY DEF DeploymentSilent
  <1>4. \/ /\ marker = "live"
           /\ DeploymentOutcome(row, observed, marker) = To("verified-live", "none")
        \/ \E s \in {"failed", "deployed", "building"}, d \in Plain, failed \in BOOLEAN :
             DeploymentOutcome(row, observed, marker) = To(s, Fenced(row, d, failed))
    BY <1>2, <1>3 DEF DeploymentOutcome, VerifiedLive, With
  <1>5. "none" \in Details \ {"deployment_retry_dispatching"}
    BY Words
  <1> HIDE DEF Plain
  <1> QED BY <1>1, <1>4, <1>5

LEMMA RefreshDeploymentRecord ==
    ASSUME Inv, RecordInv, NEW c \in Callers, RefreshDeployment(c) PROVE RecordInv'
  <1> DEFINE row == call[c].row
             new(s, d) == With(row, s, d)
  <1>1. /\ call[c].pc = "refresh" /\ UNCHANGED <<workspace, approval, external>>
        /\ row.commitSha # 0 /\ ~DispatchAmbiguous(row)
        /\ \/ Unchanged(c)
           \/ \E observed \in DeploymentReads(row) :
              \E marker \in MarkerReads(row.commitSha) :
                /\ ~DeploymentSilent(row, observed)
                /\ Refreshed(c, DeploymentOutcome(row, observed, marker), "end")
    BY DEF RefreshDeployment
  <1>2. /\ row \in Row /\ OwnCommit(row, call[c].pub, branch) /\ RowShape(row)
        /\ row.status \in activeStatuses
    BY <1>1, RefreshRow DEF RowSteps, PCs
  <1>3. row.status \in {"committed", "building", "deployed"}
    BY <1>1, <1>2 DEF RowShape, DispatchAmbiguous, activeStatuses
  <1>4. ASSUME NEW observed \in DeploymentReads(row),
               NEW marker \in MarkerReads(row.commitSha),
               ~DeploymentSilent(row, observed),
               Refreshed(c, DeploymentOutcome(row, observed, marker), "end")
        PROVE  RecordInv'
    <2>1. observed \in {"requested", "building", "deployed", "failed", "unknown"}
      BY DeploymentReadsRange
    <2>2. PICK s \in {"verified-live", "failed", "deployed", "building"},
               d \in Details \ {"deployment_retry_dispatching"} :
             /\ DeploymentOutcome(row, observed, marker) = new(s, d)
             /\ Fence(row) => d \in deploymentRetryDispatchEvidence \/ s = "verified-live"
             /\ s = "verified-live" => marker = "live"
      <3>1. row \in Row /\ ~DeploymentSilent(row, observed)
        BY <1>2, <1>4
      <3> HIDE DEF row
      <3> QED BY <1>3, <2>1, <3>1, OutcomeFrom
    <2>3. s = "verified-live" => row.commitSha \in released
      BY <2>2, MarkerLive
    <2>4. s \in Statuses /\ Refreshed(c, new(s, d), "end")
      BY <1>4, <2>2, Words
    <2>5. /\ WriteFrom(row, new(s, d)) /\ OwnCommit(new(s, d), call[c].pub, branch)
          /\ Served(new(s, d), released) /\ new(s, d) \in Row
      BY <1>1, <1>2, <2>2, <2>3, <2>4, WriteWith
    <2> HIDE DEF new
    <2> QED BY <1>1, <2>4, <2>5, RefreshedRecord
  <1> QED BY <1>1, <1>4, UnchangedRecord

LEMMA RefreshAbandonedRecord ==
    ASSUME Inv, RecordInv, NEW c \in Callers, RefreshAbandoned(c) PROVE RecordInv'
  BY UnchangedRecord DEF RefreshAbandoned

\* A write keeps the clock of the row it replaces.
LEMMA TimedRecord ==
    ASSUME Inv, NEW p \in Pubs, NEW row \in Row
    PROVE  LET new == Timed(p, row)
           IN  /\ new \in Row /\ new.status = row.status /\ new.detail = row.detail
               /\ new.commitSha = row.commitSha /\ new.approval = row.approval
               /\ new.expectedHead = row.expectedHead
               /\ new.deploymentId = row.deploymentId /\ new.dispatched = row.dispatched
               /\ new.lease = row.lease /\ new.age = pub[p].age
               /\ new.leased <=> row.leased /\ pub[p].leased
               /\ \A P : OwnCommit(row, p, P) <=> OwnCommit(new, p, P)
               /\ \A S : Served(row, S) <=> Served(new, S)
               /\ RowShape(row) <=> RowShape(new)
               /\ Fence(row) <=> Fence(new)
  <1> DEFINE new == Timed(p, row)
  <1>1. pub[p] \in Row
    BY DEF Inv, TypeOK
  <1>2. /\ new \in Row /\ new.status = row.status /\ new.detail = row.detail
        /\ new.commitSha = row.commitSha /\ new.approval = row.approval
        /\ new.expectedHead = row.expectedHead
        /\ new.deploymentId = row.deploymentId /\ new.dispatched = row.dispatched
        /\ new.lease = row.lease /\ new.age = pub[p].age
        /\ new.leased <=> row.leased /\ pub[p].leased
    BY <1>1 DEF Timed, Row
  <1> HIDE DEF new
  <1>3. /\ \A P : OwnCommit(row, p, P) <=> OwnCommit(new, p, P)
        /\ \A S : Served(row, S) <=> Served(new, S)
    BY <1>2 DEF OwnCommit, Served
  <1>4. (RowShape(row) <=> RowShape(new)) /\ (Fence(row) <=> Fence(new))
    BY <1>2 DEF RowShape, Fence
  <1> QED BY <1>2, <1>3, <1>4 DEF new

LEMMA TimedCopy ==
    ASSUME Inv, NEW p \in Pubs, NEW row \in Row
    PROVE  LET new == Timed(p, row)
           IN  new = Later(row, new)
  <1>1. pub[p] \in Row
    BY DEF Inv, TypeOK
  <1>2. /\ Timed(p, row) = [row EXCEPT !.age = pub[p].age,
                                       !.leased = row.leased /\ pub[p].leased]
        /\ Timed(p, row).age = pub[p].age
        /\ Timed(p, row).leased = (row.leased /\ pub[p].leased)
    BY <1>1 DEF Timed, Row
  <1> QED BY <1>2 DEF Later

\* The row itself is a copy of the row.
LEMMA ItsOwnCopy ==
    ASSUME NEW row \in Row PROVE row = Later(row, row)
  BY DEF Row, Later

\* The handler after a write that was won, or lost.
LEMMA AfterWriteKnown ==
    ASSUME Inv, RecordInv, NEW c \in Callers, call[c].pc = "write",
           NEW won \in BOOLEAN, NEW P, NEW row \in Row,
           won => call[c].fresh /\ row = Timed(call[c].pub, call[c].row),
           ~won => row = pub[call[c].pub], P[call[c].pub] = row
    PROVE  /\ KnownOK(AfterWrite(c, won), P, branch, released)
           /\ CopyOK(AfterWrite(c, won), P)
  <1> DEFINE k == call[c]
             next == AfterWrite(c, won)
  <1>1. /\ k \in Call /\ k.row \in Row /\ HandlerOK(k, approval, pub, branch)
        /\ KnownOK(k, pub, branch, released) /\ CopyOK(k, pub)
        /\ k.pc \in RowSteps /\ k.pub \in Pubs /\ pub[k.pub] \in Row
    <2>1. k.pc \in RowSteps
      BY DEF RowSteps, PCs
    <2> QED BY <2>1, CallerFacts, RowKnown, RowStepFacts DEF Inv, TypeOK
  <1>2. /\ OwnCommit(k.row, k.pub, branch) /\ Served(k.row, released) /\ RowShape(k.row)
        /\ k.row.approval = pub[k.pub].approval
        /\ k.row.expectedHead = pub[k.pub].expectedHead
    BY <1>1 DEF KnownOK
  <1>3. RowShape(pub[k.pub]) /\ OwnCommit(pub[k.pub], k.pub, branch)
        /\ Served(pub[k.pub], released)
    BY <1>1 DEF RecordInv, RecordsOK
  <1>4. CASE k.resume = "refresh" /\ won
    <2>1. /\ next.pc = "refresh" /\ next.pub = k.pub /\ next.row = k.row
          /\ k.row.status \in activeStatuses
      BY <1>1, <1>4 DEF AfterWrite, Call, HandlerOK
    <2>2. /\ row.approval = k.row.approval /\ row.expectedHead = k.row.expectedHead
          /\ row.age = pub[k.pub].age /\ (row.leased => k.row.leased)
          /\ row = Later(k.row, row)
      BY <1>1, <1>4, TimedRecord, TimedCopy
    <2>3. k.row.age <= pub[k.pub].age
      BY <1>1, <1>4 DEF CopyOK
    <2>4. KnownOK(next, P, branch, released)
      BY <1>2, <2>1, <2>2 DEF KnownOK, CommitUnknown, commitSteps, dispatchSteps
    <2>5. CopyOK(next, P)
      BY <2>1, <2>2, <2>3 DEF CopyOK
    <2> QED BY <2>4, <2>5
  <1>5. CASE k.resume = "retryLive"
    <2> DEFINE copy == IF won THEN k.row ELSE pub[k.pub]
    <2>1. next.pc = "retryLive" /\ next.pub = k.pub /\ next.row = copy
      BY <1>1, <1>5 DEF AfterWrite, Call
    <2>2. /\ OwnCommit(copy, k.pub, branch) /\ Served(copy, released) /\ RowShape(copy)
      BY <1>2, <1>3
    <2>3. /\ row.approval = copy.approval /\ row.expectedHead = copy.expectedHead
          /\ row.age = pub[k.pub].age /\ (row.leased => copy.leased)
          /\ row = Later(copy, row)
      <3>1. CASE won
        BY <1>1, <3>1, TimedRecord, TimedCopy
      <3>2. CASE ~won
        BY <1>1, <3>2, ItsOwnCopy
      <3> QED BY <3>1, <3>2
    <2>4. copy.age <= pub[k.pub].age
      <3>1. pub[k.pub].age \in Nat
        BY <1>1 DEF Row
      <3> QED BY <1>1, <3>1 DEF CopyOK
    <2> HIDE DEF copy
    <2>5. KnownOK(next, P, branch, released)
      BY <2>1, <2>2, <2>3 DEF KnownOK, CommitUnknown, commitSteps, dispatchSteps
    <2>6. CopyOK(next, P)
      BY <2>1, <2>3, <2>4 DEF CopyOK
    <2> QED BY <2>5, <2>6
  <1>6. CASE ~(k.resume = "refresh" /\ won) /\ k.resume # "retryLive"
    <2>1. next.pc \in {"idle", "preflight"}
      BY <1>6 DEF AfterWrite, AfterRefresh, Idle
    <2> QED BY <2>1 DEF KnownOK, CopyOK, RowSteps, CommitUnknown, commitSteps,
                        dispatchSteps, CopySteps
  <1> QED BY <1>4, <1>5, <1>6

LEMMA WriteRowRecord ==
    ASSUME Inv, RecordInv, NEW c \in Callers, WriteRow(c) PROVE RecordInv'
  <1> DEFINE k == call[c]
             p == k.pub
             row == Timed(p, k.row)
             stored == [pub EXCEPT ![p] = row]
  <1>1. /\ k.pc = "write" /\ UNCHANGED <<workspace, approval, external>>
        /\ UpdateFresh(c, p, ExpectedStatus(c), k.row, AfterWrite(c, TRUE),
                       AfterWrite(c, FALSE))
    BY DEF WriteRow
  <1>2. ApprovalMove /\ TablesMove
    BY <1>1, Beside DEF ApprovalMove
  <1>3. k.pc \in RowSteps
    BY <1>1 DEF RowSteps, PCs
  <1>4. /\ p \in Pubs /\ k.row \in Row /\ k.row.status # "absent"
        /\ pub[p].status # "absent" /\ Made(k.row.approval, approval)
        /\ KnownOK(k, pub, branch, released) /\ CopyOK(k, pub) /\ pub[p] \in Row
        /\ Clocked(pub[p])
    BY <1>3, RowStepFacts, RowKnown DEF Inv, TypeOK, RecordInv, RecordsOK
  <1>5. CASE /\ k.fresh /\ pub[p].status = ExpectedStatus(c)
             /\ UpdatePermitted(pub[p], k.row) /\ OneActivePermits(p, k.row)
    <2>1. Store(c, p, row, AfterWrite(c, TRUE))
      BY <1>1, <1>5 DEF UpdateFresh
    <2>2. /\ row \in Row /\ row.status = k.row.status /\ row.approval = k.row.approval
          /\ row.expectedHead = k.row.expectedHead /\ row.age = pub[p].age
          /\ (row.leased => pub[p].leased) /\ RowShape(row)
          /\ OwnCommit(row, p, branch) /\ Served(row, released)
      BY <1>1, <1>3, <1>4, TimedRecord DEF KnownOK
    <2>3. Clocked(row)
      <3>1. ~(pub[p].status = "requested" /\ pub[p].leased)
        BY <1>1, <1>4, <1>5 DEF CopyOK, ExpectedStatus
      <3> QED BY <1>4, <2>2, <3>1 DEF Clocked
    <2>4. stored[p] = row
      BY <1>4 DEF Inv, TypeOK
    <2>5. k.row.approval = pub[p].approval /\ k.row.expectedHead = pub[p].expectedHead
      BY <1>3, <1>4 DEF KnownOK
    <2>6. AfterWrite(c, TRUE) \in Call
      <3>1. stored[p].status = k.row.status
        BY <2>2, <2>4
      <3> HIDE DEF stored
      <3> QED BY <1>1, <1>4, <3>1, AfterWriteOK
    <2>7. /\ KnownOK(AfterWrite(c, TRUE), stored, branch, released)
          /\ CopyOK(AfterWrite(c, TRUE), stored)
      <3> HIDE DEF stored
      <3> QED BY <1>1, <1>5, <2>2, <2>4, AfterWriteKnown
    <2> HIDE DEF row
    <2> QED BY <1>2, <1>4, <2>1, <2>2, <2>3, <2>5, <2>6, <2>7, RecordStore DEF Made
  <1>6. CASE ~(/\ k.fresh /\ pub[p].status = ExpectedStatus(c)
               /\ UpdatePermitted(pub[p], k.row) /\ OneActivePermits(p, k.row))
    <2>1. Goto(c, AfterWrite(c, FALSE))
      BY <1>1, <1>6 DEF UpdateFresh
    <2>2. AfterWrite(c, FALSE) \in Call
      BY <1>1, <1>4, AfterWriteOK
    <2>3. /\ KnownOK(AfterWrite(c, FALSE), pub, branch, released)
          /\ CopyOK(AfterWrite(c, FALSE), pub)
      BY <1>1, <1>4, AfterWriteKnown
    <2> QED BY <1>2, <2>1, <2>2, <2>3, RecordMove
  <1> QED BY <1>5, <1>6

-----------------------------------------------------------------------------
(* Requests and publish *)

\* The row of a publication that exists, as a handler reads it.
LEMMA ReadingKnown ==
    ASSUME Inv, RecordInv, NEW c \in Callers, NEW p \in Pubs, NEW k \in Call,
           k.pub = p, k.row = pub[p],
           \/ k.pc = "refresh" /\ Active(p)
           \/ k.pc = "retryLive"
           \/ k.pc = "reconcile" /\ pub[p].status = "failed" /\ pub[p].commitSha = 0
    PROVE  KnownOK(k, pub, branch, released) /\ CopyOK(k, pub)
  <1>1. pub[p] \in Row
    BY DEF Inv, TypeOK
  <1>2. RowShape(pub[p]) /\ OwnCommit(pub[p], p, branch) /\ Served(pub[p], released)
    BY DEF RecordInv, RecordsOK
  <1>3. KnownOK(k, pub, branch, released)
    BY <1>2 DEF KnownOK, CommitUnknown, commitSteps, dispatchSteps, Active
  <1>4. CopyOK(k, pub)
    <2>1. pub[p].age \in Nat
      BY <1>1 DEF Row
    <2> QED BY <1>1, <2>1, ItsOwnCopy DEF CopyOK
  <1> QED BY <1>3, <1>4

LEMMA RefreshRecord ==
    ASSUME Inv, RecordInv, NEW c \in Callers, NEW p \in Pubs, refresh(c, p)
    PROVE  RecordInv'
  <1>1. ApprovalMove /\ TablesMove
    BY Beside DEF refresh, ApprovalMove
  <1>2. Active(p) /\ Goto(c, Reading(c, p)) /\ pub[p].status # "absent"
    BY Words DEF refresh, Active
  <1>3. /\ Reading(c, p) \in Call /\ Reading(c, p).pc = "refresh"
        /\ Reading(c, p).pub = p /\ Reading(c, p).row = pub[p]
    BY <1>2, ReadingOK DEF Reading, Idle
  <1> QED BY <1>1, <1>2, <1>3, ReadingKnown, RecordMove

LEMMA PublishRecord ==
    ASSUME Inv, RecordInv, NEW c \in Callers, NEW a \in Approvals, NEW key \in Pubs,
           publish(c, a, key)
    PROVE  RecordInv'
  <1>1. ApprovalMove /\ TablesMove
    BY Beside DEF publish, ApprovalMove
  <1>2. \A p \in Pubs : Active(p) => pub[p].status # "absent"
    BY Words DEF Active
  <1>3. ASSUME NEW p \in Pubs, Active(p), NEW k \in {Reading(c, p),
                        [Reading(c, p) EXCEPT !.key = key, !.approval = a]}, Goto(c, k)
        PROVE  RecordInv'
    <2>1. Reading(c, p) \in Call
      BY <1>2, <1>3, ReadingOK
    <2>2. /\ Reading(c, p).pc = "refresh" /\ Reading(c, p).pub = p
          /\ Reading(c, p).row = pub[p]
      BY DEF Reading, Idle
    <2>3. k \in Call /\ k.pc = "refresh" /\ k.pub = p /\ k.row = pub[p]
      BY <1>3, <2>1, <2>2 DEF Call
    <2> QED BY <1>1, <1>3, <2>3, ReadingKnown, RecordMove
  <1>4. CASE Goto(c, Preflight(c, a, key))
    <2>1. Preflight(c, a, key) \in Call /\ Preflight(c, a, key).pc = "preflight"
      <3>1. live \in 0..MaxHead
        BY DEF Inv, TypeOK
      <3> QED BY <3>1, IdleOK DEF Preflight, Idle, Call, PCs
    <2> QED BY <1>1, <1>4, <2>1, RecordRest
  <1>5. \/ \E p \in Pubs : Active(p) /\ Goto(c, Reading(c, p))
        \/ Goto(c, Preflight(c, a, key))
        \/ \E p \in Pubs :
             Active(p) /\ Goto(c, [Reading(c, p) EXCEPT !.key = key, !.approval = a])
    BY DEF publish, Recoverable, LatestPublications, Present, ActivePubs
  <1> QED BY <1>3, <1>4, <1>5

LEMMA RetryDeploymentRecord ==
    ASSUME Inv, RecordInv, NEW c \in Callers, NEW p \in Pubs, retryDeployment(c, p)
    PROVE  RecordInv'
  <1> DEFINE pc == IF pub[p].commitSha = 0 THEN "reconcile" ELSE "retryLive"
             k == [Reading(c, p) EXCEPT !.retry = TRUE, !.pc = pc]
  <1>1. ApprovalMove /\ TablesMove
    BY Beside DEF retryDeployment, ApprovalMove
  <1>2. pub[p].status = "failed" /\ Goto(c, k)
    BY DEF retryDeployment, RetryAvailable
  <1>3. Reading(c, p) \in Call
    BY <1>2, ReadingOK
  <1>4. k \in Call /\ k.pc = pc /\ k.pub = p /\ k.row = pub[p]
    BY ZenonT(40), <1>3 DEF Call, PCs, Reading, Idle
  <1> HIDE DEF k
  <1> QED BY <1>1, <1>2, <1>4, ReadingKnown, RecordMove

LEMMA PublishPreflightRecord ==
    ASSUME Inv, RecordInv, NEW c \in Callers, PublishPreflight(c) PROVE RecordInv'
  <1> DEFINE k == [call[c] EXCEPT !.pc = "claim"]
  <1>1. TablesMove
    BY Beside DEF PublishPreflight
  <1>2. /\ call[c] \in Call /\ call[c].pc = "preflight" /\ call[c].key \in Pubs
        /\ HandlerOK(call[c], approval, pub, branch)
    BY CallerFacts DEF PublishPreflight, HandlerOK
  <1>3. Made(call[c].approval, approval)
    BY <1>2, ConstantsAssumption DEF HandlerOK
  <1>4. CASE Goto(c, Idle) /\ approval' = invalidated(call[c].approval)
    <2>1. Idle \in Call /\ Idle.pc = "idle" /\ ApprovalMove
      BY <1>3, <1>4, IdleOK DEF Idle, ApprovalMove, Made
    <2> QED BY <1>1, <1>4, <2>1, RecordRest
  <1>5. CASE Goto(c, k) /\ UNCHANGED approval
    <2>1. k \in Call /\ k.pc = "claim" /\ ApprovalMove
      BY <1>2, <1>5 DEF Call, PCs, ApprovalMove
    <2> QED BY <1>1, <1>5, <2>1, RecordRest
  <1> QED BY <1>4, <1>5 DEF PublishPreflight

\* A handler that ends.
LEMMA RecordStop ==
    ASSUME Inv, RecordInv, NEW c \in Callers, Goto(c, Idle), ApprovalMove, TablesMove
    PROVE  RecordInv'
  <1>1. Idle \in Call /\ Idle.pc = "idle"
    BY IdleOK DEF Idle
  <1> QED BY <1>1, RecordRest

\* The row of a new publication.
LEMMA NewRow ==
    ASSUME Inv, NEW c \in Callers, NEW a, Made(a, approval), NEW p,
           NEW status \in {"requested", "blocked"},
           NEW detail \in {"none", "approval_stale", "publication_in_progress"}
    PROVE  LET new == NewPublication(c, a, status, detail)
           IN  /\ new \in Row /\ new.status = status /\ new.detail = detail
               /\ new.approval = a /\ new.expectedHead = BaseOf(a) /\ new.commitSha = 0
               /\ RowShape(new) /\ Clocked(new) /\ OwnCommit(new, p, branch)
               /\ Served(new, released)
               /\ new.lease = (IF status = "requested" THEN c ELSE None)
               /\ new.leased = (status = "requested") /\ new.deploymentId = NoBuild
               /\ ~new.dispatched
  <1> DEFINE new == NewPublication(c, a, status, detail)
  <1>1. new \in Row
    BY NewPublicationOK
  <1>2. /\ new.status = status /\ new.detail = detail /\ new.approval = a
        /\ new.expectedHead = BaseOf(a) /\ new.commitSha = 0 /\ ~new.dispatched
        /\ new.age = 0 /\ new.lease = (IF status = "requested" THEN c ELSE None)
        /\ new.leased = (status = "requested") /\ new.deploymentId = NoBuild
    BY DEF NewPublication, NoRow
  <1> HIDE DEF new
  <1>3. /\ RowShape(new) /\ Clocked(new) /\ OwnCommit(new, p, branch)
        /\ Served(new, released)
    BY <1>2 DEF RowShape, Clocked, OwnCommit, Served
  <1> QED BY <1>1, <1>2, <1>3 DEF new

LEMMA ClaimPublicationRecord ==
    ASSUME Inv, RecordInv, NEW c \in Callers, claimPublication(c) PROVE RecordInv'
  <1> DEFINE k == call[c]
             p == k.key
             a == k.approval
             New(status, detail) == NewPublication(c, a, status, detail)
             next == [k EXCEPT !.pc = "guard", !.pub = p, !.row = New("requested", "none")]
  <1>1. ApprovalMove /\ TablesMove
    BY Beside DEF claimPublication, ApprovalMove
  <1>2. k \in Call /\ k.pc = "claim" /\ p \in Pubs /\ HandlerOK(k, approval, pub, branch)
    BY CallerFacts DEF claimPublication, HandlerOK
  <1>3. Made(a, approval) /\ a \in Approvals
    BY <1>2, ConstantsAssumption DEF HandlerOK, Made
  <1>4. CASE Goto(c, Idle)
    BY <1>1, <1>4, RecordStop
  <1>6. ASSUME pub[p].status = "absent",
               NEW d \in {"approval_stale", "publication_in_progress"},
               Store(c, p, New("blocked", d), Idle)
        PROVE  RecordInv'
    <2> DEFINE row == New("blocked", d)
               stored == [pub EXCEPT ![p] = row]
    <2>1. /\ row \in Row /\ row.status = "blocked" /\ row.approval = a
          /\ row.expectedHead = BaseOf(a) /\ RowShape(row) /\ Clocked(row)
          /\ OwnCommit(row, p, branch) /\ Served(row, released)
      BY <1>3, NewRow
    <2>2. Store(c, p, row, Idle)
      BY <1>6
    <2>3. KnownOK(Idle, stored, branch, released) /\ CopyOK(Idle, stored)
      BY IdleKnown
    <2> HIDE DEF row
    <2> QED BY <1>1, <1>2, <1>3, <1>6, <2>1, <2>2, <2>3, IdleOK, RecordStore
  <1>7. ASSUME pub[p].status = "absent",
               Store(c, p, New("requested", "none"), next)
        PROVE  RecordInv'
    <2> DEFINE row == New("requested", "none")
               stored == [pub EXCEPT ![p] = row]
    <2>1. /\ row \in Row /\ row.status = "requested" /\ row.approval = a
          /\ row.expectedHead = BaseOf(a) /\ RowShape(row) /\ Clocked(row)
          /\ OwnCommit(row, p, branch) /\ Served(row, released) /\ row.commitSha = 0
      BY <1>3, NewRow
    <2>2. Store(c, p, row, next)
          /\ next = [k EXCEPT !.pc = "guard", !.pub = p, !.row = row]
      BY <1>7
    <2> HIDE DEF row, next
    <2>4. next \in Call /\ next.pc = "guard" /\ next.pub = p /\ next.row = row
      BY <1>2, <2>1, <2>2 DEF Call, PCs, commitSteps
    <2>5. stored[p] = row
      BY <1>2 DEF Inv, TypeOK
    <2>6. KnownOK(next, stored, branch, released) /\ CopyOK(next, stored)
      <3> HIDE DEF stored
      <3> QED BY <2>1, <2>4, <2>5 DEF KnownOK, CopyOK, CopySteps, dispatchSteps
    <2> QED BY <1>1, <1>2, <1>3, <1>7, <2>1, <2>2, <2>4, <2>6, RecordStore
  <1> QED BY <1>4, <1>6, <1>7 DEF claimPublication

\* A write under a lease gives the lease up.
LEMMA RecordLeased ==
    ASSUME Inv, RecordInv, NEW c \in Callers, call[c].pc \in RowSteps, NEW valid,
           NEW new \in Row, UpdateLeased(c, call[c].pub, valid, new),
           ApprovalMove, TablesMove, new.status # "absent",
           new.approval = call[c].row.approval,
           new.expectedHead = call[c].row.expectedHead, RowShape(new),
           OwnCommit(new, call[c].pub, branch), Served(new, released)
    PROVE  RecordInv'
  <1> DEFINE p == call[c].pub
             freed == [new EXCEPT !.lease = None, !.leased = FALSE]
             row == Timed(p, freed)
             stored == [pub EXCEPT ![p] = row]
  <1>1. CASE /\ HoldsLease(c, p) /\ (valid => pub[p].leased)
             /\ UpdatePermitted(pub[p], new)
    <2>1. Store(c, p, row, Idle)
      BY <1>1 DEF UpdateLeased
    <2>2. /\ freed \in Row /\ freed.status = new.status /\ freed.detail = new.detail
          /\ freed.commitSha = new.commitSha /\ freed.approval = new.approval
          /\ freed.expectedHead = new.expectedHead /\ freed.dispatched = new.dispatched
          /\ freed.deploymentId = new.deploymentId /\ ~freed.leased
      BY DEF Row
    <2> HIDE DEF freed
    <2>3. /\ p \in Pubs /\ pub[p].status # "absent" /\ new.approval \in Approvals
          /\ new.approval = pub[p].approval /\ new.expectedHead = pub[p].expectedHead
      BY RowStepFacts, RefreshRow DEF Made
    <2>4. RowShape(freed) /\ OwnCommit(freed, p, branch) /\ Served(freed, released)
      BY <2>2 DEF RowShape, OwnCommit, Served
    <2>5. /\ row \in Row /\ row.status = new.status /\ row.approval = new.approval
          /\ row.expectedHead = new.expectedHead /\ ~row.leased /\ RowShape(row)
          /\ OwnCommit(row, p, branch) /\ Served(row, released)
      BY <2>2, <2>3, <2>4, TimedRecord
    <2>6. KnownOK(Idle, stored, branch, released) /\ CopyOK(Idle, stored)
      BY IdleKnown
    <2> HIDE DEF row
    <2>7. Clocked(row)
      BY <2>5 DEF Clocked
    <2> QED BY <2>1, <2>3, <2>5, <2>6, <2>7, IdleOK, RecordStore
  <1>2. CASE ~(/\ HoldsLease(c, p) /\ (valid => pub[p].leased)
               /\ UpdatePermitted(pub[p], new))
    BY <1>2, RecordStop DEF UpdateLeased
  <1> QED BY <1>1, <1>2

\* The row of a handler that commits has no commit yet.
LEMMA CommitRow ==
    ASSUME Inv, RecordInv, NEW c \in Callers, call[c].pc \in CommitUnknown
    PROVE  /\ call[c].pc \in RowSteps /\ call[c].row.commitSha = 0
           /\ ~call[c].row.dispatched /\ call[c].row \in Row /\ RowShape(call[c].row)
           /\ call[c].row.detail # "deployment_retry_dispatching"
  <1>1. call[c].pc \in RowSteps \ {"buildWait", "buildSettle"}
    BY DEF RowSteps, PCs, CommitUnknown, commitSteps
  <1> QED BY <1>1, RefreshRow, RowKnown DEF KnownOK, RowShape

\* What a status and a detail make of a row without a commit.
LEMMA RefusedWith ==
    ASSUME NEW row \in Row, NEW p, NEW s \in {"blocked", "failed"}, NEW d \in Details,
           RowShape(row), row.commitSha = 0, d # "deployment_retry_dispatching"
    PROVE  LET new == With(row, s, d)
           IN  /\ new \in Row /\ new.status = s /\ new.approval = row.approval
               /\ new.expectedHead = row.expectedHead /\ RowShape(new)
               /\ OwnCommit(new, p, branch) /\ Served(new, released)
               /\ new.detail = d /\ new.commitSha = 0
  <1> DEFINE new == With(row, s, d)
  <1>1. /\ new \in Row /\ new.status = s /\ new.detail = d /\ new.approval = row.approval
        /\ new.expectedHead = row.expectedHead /\ new.commitSha = 0
        /\ new.dispatched = row.dispatched /\ new.deploymentId = row.deploymentId
    <2>1. s \in Statuses
      BY Words
    <2> QED BY <2>1 DEF With, Row
  <1> HIDE DEF new
  <1>2. RowShape(new) /\ OwnCommit(new, p, branch) /\ Served(new, released)
    BY <1>1 DEF RowShape, OwnCommit, Served
  <1> QED BY <1>1, <1>2 DEF new

LEMMA PublishGuardRecord ==
    ASSUME Inv, RecordInv, NEW c \in Callers, PublishGuard(c) PROVE RecordInv'
  <1> DEFINE k == call[c]
             lost == With(k.row, "blocked", "publication_lease_lost")
             next == [k EXCEPT !.pc = "recheck"]
  <1>1. TablesMove
    BY Beside DEF PublishGuard
  <1>2. k.pc \in CommitUnknown /\ k.pc = "guard"
    BY DEF PublishGuard, CommitUnknown, commitSteps
  <1>3. /\ k.pc \in RowSteps /\ k.row.commitSha = 0 /\ k.row \in Row /\ RowShape(k.row)
        /\ k \in Call
    BY <1>2, CommitRow, CallerFacts
  <1>4. CASE Goto(c, next) /\ UNCHANGED approval
    <2>1. /\ next \in Call /\ next.pc = "recheck" /\ next.pub = k.pub
          /\ next.row = k.row /\ next.fresh = k.fresh
      BY <1>3 DEF Call, PCs, commitSteps
    <2> QED BY <1>1, <1>2, <1>3, <1>4, <2>1, RecordGo
          DEF ApprovalMove, RowSteps, PCs, commitSteps, dispatchSteps, CopySteps
  <1>5. CASE LeaseGuardRefuses(c) /\ UpdateLeased(c, k.pub, FALSE, lost)
    <2>1. "publication_lease_lost" \in Details
      BY Words
    <2>2. /\ lost \in Row /\ lost.status = "blocked" /\ lost.approval = k.row.approval
          /\ lost.expectedHead = k.row.expectedHead /\ RowShape(lost)
          /\ OwnCommit(lost, k.pub, branch) /\ Served(lost, released)
      BY <1>3, <2>1, RefusedWith
    <2> HIDE DEF lost
    <2> QED BY <1>1, <1>3, <1>5, <2>2, Refused, RecordLeased
  <1> QED BY <1>4, <1>5 DEF PublishGuard, With

LEMMA PublishRecheckRecord ==
    ASSUME Inv, RecordInv, NEW c \in Callers, PublishRecheck(c) PROVE RecordInv'
  <1> DEFINE k == call[c]
             stale == With(k.row, "blocked", "approval_stale")
             next == [k EXCEPT !.pc = "commit"]
  <1>1. ApprovalMove /\ TablesMove
    BY Beside DEF PublishRecheck, ApprovalMove
  <1>2. k.pc \in CommitUnknown /\ k.pc = "recheck"
    BY DEF PublishRecheck, CommitUnknown, commitSteps
  <1>3. /\ k.pc \in RowSteps /\ k.row.commitSha = 0 /\ k.row \in Row /\ RowShape(k.row)
        /\ k \in Call
    BY <1>2, CommitRow, CallerFacts
  <1>4. CASE Goto(c, next)
    <2>1. /\ next \in Call /\ next.pc = "commit" /\ next.pub = k.pub
          /\ next.row = k.row /\ next.fresh = k.fresh
      BY <1>3 DEF Call, PCs, commitSteps
    <2> QED BY <1>1, <1>2, <1>3, <1>4, <2>1, RecordGo
          DEF RowSteps, PCs, commitSteps, dispatchSteps, CopySteps
  <1>5. CASE UpdateLeased(c, k.pub, FALSE, stale)
    <2>1. "approval_stale" \in Details
      BY Words
    <2>2. /\ stale \in Row /\ stale.status = "blocked" /\ stale.approval = k.row.approval
          /\ stale.expectedHead = k.row.expectedHead /\ RowShape(stale)
          /\ OwnCommit(stale, k.pub, branch) /\ Served(stale, released)
      BY <1>3, <2>1, RefusedWith
    <2> HIDE DEF stale
    <2> QED BY <1>1, <1>3, <1>5, <2>2, RecordLeased
  <1> QED BY <1>4, <1>5 DEF PublishRecheck, With

\* A handler that is answered.
LEMMA AnsweredRecord ==
    ASSUME Inv, RecordInv, NEW c \in Callers, call[c].pc \in commitSteps,
           NEW r \in CommitReplies, Answered(c, r), ApprovalMove, TablesMove
    PROVE  RecordInv'
  <1> DEFINE k == [call[c] EXCEPT !.pc = "settle", !.reply = r]
  <1>1. call[c].pc \in CommitUnknown /\ call[c] \in Call
    BY CallerFacts DEF CommitUnknown
  <1>2. call[c].pc \in RowSteps /\ call[c].row.commitSha = 0
    BY <1>1, CommitRow
  <1>3. /\ k \in Call /\ k.pc = "settle" /\ k.pub = call[c].pub /\ k.row = call[c].row
        /\ k.fresh = call[c].fresh /\ Goto(c, k)
    BY ZenonT(40), <1>1 DEF Answered, Call, PCs, commitSteps, CommitReplies, Replies
  <1> HIDE DEF k
  <1> QED BY <1>2, <1>3, RecordGo
        DEF RowSteps, PCs, commitSteps, dispatchSteps, CopySteps

LEMMA CreateCommitCheckRecord ==
    ASSUME Inv, RecordInv, NEW c \in Callers, CreateCommitCheck(c) PROVE RecordInv'
  <1> DEFINE next == [call[c] EXCEPT !.pc = "post"]
  <1>1. TablesMove
    BY Beside DEF CreateCommitCheck
  <1>2. call[c].pc = "commit" /\ call[c].pc \in commitSteps /\ call[c].pc \in CommitUnknown
    BY DEF CreateCommitCheck, CommitUnknown, commitSteps
  <1>3. call[c].pc \in RowSteps /\ call[c].row.commitSha = 0 /\ call[c] \in Call
    BY <1>2, CommitRow, CallerFacts
  <1>4. ApprovalMove
    BY <1>3, Refused DEF CreateCommitCheck, ApprovalMove
  <1>5. CASE Goto(c, next)
    <2>1. /\ next \in Call /\ next.pc = "post" /\ next.pub = call[c].pub
          /\ next.row = call[c].row /\ next.fresh = call[c].fresh
      BY <1>3 DEF Call, PCs, commitSteps
    <2> QED BY <1>1, <1>2, <1>3, <1>4, <1>5, <2>1, RecordGo
          DEF RowSteps, PCs, commitSteps, dispatchSteps, CopySteps
  <1>6. CASE Answered(c, "moved") \/ Answered(c, "lost") \/ Answered(c, "rejected")
    BY <1>1, <1>2, <1>4, <1>6, AnsweredRecord DEF CommitReplies
  <1> QED BY <1>5, <1>6 DEF CreateCommitCheck

LEMMA CreateCommitPostRecord ==
    ASSUME Inv, RecordInv, NEW c \in Callers, CreateCommitPost(c) PROVE RecordInv'
  <1> DEFINE next == [call[c] EXCEPT !.pc = "wait"]
  <1>2. call[c].pc = "post" /\ call[c].pc \in commitSteps /\ call[c].pc \in CommitUnknown
    BY DEF CreateCommitPost, CommitUnknown, commitSteps
  <1>3. call[c].pc \in RowSteps /\ call[c].row.commitSha = 0 /\ call[c] \in Call
    BY <1>2, CommitRow, CallerFacts
  <1>1. TablesMove
    <2>1. pub[call[c].pub].status # "absent"
      BY <1>3, RowStepFacts
    <2>2. wire' = wire \/ wire' = wire \cup {<<call[c].pub, c>>}
      BY DEF CreateCommitPost
    <2> QED BY <2>1, <2>2 DEF CreateCommitPost, TablesMove, RecordInv, BranchOK
  <1>4. ApprovalMove
    BY <1>3, Refused DEF CreateCommitPost, ApprovalMove
  <1>5. CASE Goto(c, next)
    <2>1. /\ next \in Call /\ next.pc = "wait" /\ next.pub = call[c].pub
          /\ next.row = call[c].row /\ next.fresh = call[c].fresh
      BY <1>3 DEF Call, PCs, commitSteps
    <2> QED BY <1>1, <1>2, <1>3, <1>4, <1>5, <2>1, RecordGo
          DEF RowSteps, PCs, commitSteps, dispatchSteps, CopySteps
  <1>6. CASE Answered(c, "lost") \/ Answered(c, "rejected")
    BY <1>1, <1>2, <1>4, <1>6, AnsweredRecord DEF CommitReplies
  <1> QED BY <1>5, <1>6 DEF CreateCommitPost

LEMMA RevokeApprovalRecord ==
    ASSUME Inv, RecordInv, NEW c \in Callers, RevokeApproval(c) PROVE RecordInv'
  <1>1. TablesMove
    BY Beside DEF RevokeApproval
  <1>2. call[c].pc \in commitSteps /\ call[c].pc \in RowSteps
    BY DEF RevokeApproval, RowSteps, PCs, commitSteps
  <1>3. \E r \in CommitReplies : Answered(c, r)
    BY DEF RevokeApproval, CommitReplies
  <1>4. ApprovalMove
    BY <1>2, Spent DEF RevokeApproval, ApprovalMove
  <1> QED BY <1>1, <1>2, <1>3, <1>4, AnsweredRecord

\* What an answer makes of the row it is about.
LEMMA AnswerRow ==
    ASSUME Inv, NEW row \in Row, NEW p, NEW reply \in CommitReplies \ {"moved"},
           reply = "committed" => Landed(p), RowShape(row), row.commitSha = 0,
           NEW retry \in BOOLEAN
    PROVE  LET new == IF retry THEN RetryAnswer(row, reply, p) ELSE Answer(row, reply, p)
           IN  /\ new \in Row /\ new.status # "absent" /\ new.approval = row.approval
               /\ new.expectedHead = row.expectedHead /\ RowShape(new)
               /\ OwnCommit(new, p, branch) /\ Served(new, released)
               /\ new.deploymentId = row.deploymentId /\ new.dispatched = row.dispatched
               /\ new.detail # "deployment_retry_dispatching"
               /\ reply = "committed" => new.status = "committed" /\ new.commitSha # 0
               /\ reply # "committed" => new.status \in {"blocked", "failed", "unknown"}
               /\ reply = "ambiguous" => new.status = "unknown"
               /\ reply # "committed" => new.commitSha = 0
  <1> DEFINE new == IF retry THEN RetryAnswer(row, reply, p) ELSE Answer(row, reply, p)
             Good(r) == /\ r \in Row /\ r.status # "absent" /\ r.approval = row.approval
                        /\ r.expectedHead = row.expectedHead /\ RowShape(r)
                        /\ OwnCommit(r, p, branch) /\ Served(r, released)
                        /\ r.deploymentId = row.deploymentId
                        /\ r.dispatched = row.dispatched
                        /\ r.detail # "deployment_retry_dispatching"
  <1>1. CASE reply = "committed"
    <2>1. CommitOf(p) \in 0..MaxHead /\ CommitOf(p) \in 1..Len(branch)
          /\ branch[CommitOf(p)] = p /\ CommitOf(p) # 0
          /\ "committed" \in Statuses /\ "none" \in Details
      BY <1>1, CommitFound, Words, ConstantsAssumption DEF Inv, TypeOK, ProductionHead
    <2>2. new = [row EXCEPT !.status = "committed", !.detail = "none",
                            !.commitSha = CommitOf(p)]
      BY <1>1 DEF Answer, RetryAnswer
    <2>3. /\ new \in Row /\ new.status = "committed" /\ new.detail = "none"
          /\ new.commitSha = CommitOf(p) /\ new.approval = row.approval
          /\ new.expectedHead = row.expectedHead /\ new.dispatched = row.dispatched
          /\ new.deploymentId = row.deploymentId
      BY ZenonT(40), <2>1, <2>2 DEF Row
    <2> HIDE DEF new
    <2>4. RowShape(new) /\ OwnCommit(new, p, branch) /\ Served(new, released)
      BY <2>1, <2>3 DEF RowShape, OwnCommit, Served
    <2>5. Good(new)
      BY <2>3, <2>4
    <2> QED BY <1>1, <2>1, <2>3, <2>5 DEF new
  <1>2. CASE reply # "committed"
    <2>1. {"blocked", "failed", "unknown"} \subseteq Statuses \ {"absent"}
          /\ {"production_head_moved", "git_operation_failed", "publication_lease_lost",
              "git_result_unknown"} \subseteq Details
      BY Words
    <2>2. PICK s \in {"blocked", "failed", "unknown"},
            d \in {"production_head_moved", "git_operation_failed",
                   "publication_lease_lost", "git_result_unknown"} :
            /\ new = With(row, s, d)
            /\ reply = "ambiguous" => s = "unknown"
      BY <1>2 DEF Answer, RetryAnswer, CommitReplies, With
    <2> HIDE DEF new
    <2>3. /\ new \in Row /\ new.status = s /\ new.detail = d
          /\ new.commitSha = 0 /\ new.approval = row.approval
          /\ new.expectedHead = row.expectedHead /\ new.dispatched = row.dispatched
          /\ new.deploymentId = row.deploymentId
      BY <2>1, <2>2 DEF Row, With
    <2>4. RowShape(new) /\ OwnCommit(new, p, branch) /\ Served(new, released)
      BY <2>1, <2>3 DEF RowShape, OwnCommit, Served
    <2>5. Good(new)
      BY <2>3, <2>4
    <2> QED BY <1>2, <2>2, <2>3, <2>5 DEF new
  <1> QED BY <1>1, <1>2

LEMMA SettleCommitRecord ==
    ASSUME Inv, RecordInv, NEW c \in Callers, SettleCommit(c) PROVE RecordInv'
  <1> DEFINE k == call[c]
             new == IF k.retry THEN RetryAnswer(k.row, k.reply, k.pub)
                    ELSE Answer(k.row, k.reply, k.pub)
  <1>1. ApprovalMove /\ TablesMove
    BY Beside DEF SettleCommit, ApprovalMove
  <1>2. k.pc = "settle" /\ k.pc \in CommitUnknown
    BY DEF SettleCommit, CommitUnknown, commitSteps
  <1>3. /\ k.pc \in RowSteps /\ k.row \in Row /\ k.row.commitSha = 0 /\ RowShape(k.row)
        /\ k.reply \in CommitReplies \ {"moved"} /\ k.retry \in BOOLEAN
        /\ k.reply = "committed" => Landed(k.pub)
    BY <1>2, CommitRow, CallerFacts
       DEF SettleCommit, HandlerOK, Landed, CommitsOf, ProductionHead, Call
  <1>4. /\ new \in Row /\ new.status # "absent" /\ new.approval = k.row.approval
        /\ new.expectedHead = k.row.expectedHead /\ RowShape(new)
        /\ OwnCommit(new, k.pub, branch) /\ Served(new, released)
    BY <1>3, AnswerRow
  <1>5. UpdateLeased(c, k.pub, TRUE, new)
    BY DEF SettleCommit
  <1> HIDE DEF new
  <1> QED BY <1>1, <1>3, <1>4, <1>5, RecordLeased

-----------------------------------------------------------------------------
(* Retry *)

LEMMA RetryReconcileRecord ==
    ASSUME Inv, RecordInv, NEW c \in Callers, RetryReconcile(c) PROVE RecordInv'
  <1> DEFINE k == call[c]
             recorded == [k.row EXCEPT !.commitSha = CommitOf(k.pub),
                                       !.detail = "git_commit_reconciled"]
             next == [k EXCEPT !.pc = "write", !.resume = "retryLive", !.row = recorded]
             again == [k EXCEPT !.pc = "retryClaim"]
  <1>1. TablesMove
    BY Beside DEF RetryReconcile
  <1>2. k.pc = "reconcile" /\ k.pc \in RowSteps /\ k.pc \in CommitUnknown
    BY DEF RetryReconcile, RowSteps, PCs, CommitUnknown
  <1>3. /\ k.row \in Row /\ k.row.commitSha = 0 /\ ~k.row.dispatched /\ RowShape(k.row)
        /\ k.row.status = "failed" /\ k \in Call /\ k.retry
    BY <1>2, CommitRow, RowKnown, CallerFacts, RetryFacts DEF KnownOK, RetrySteps
  <1>4. CASE Goto(c, Idle)
    <2>1. ApprovalMove
      BY <1>2, <1>4, Spent DEF RetryReconcile, ApprovalMove
    <2> QED BY <1>1, <1>4, <2>1, RecordStop
  <1>5. CASE Goto(c, again) /\ UNCHANGED approval
    <2>1. /\ again \in Call /\ again.pc = "retryClaim" /\ again.pub = k.pub
          /\ again.row = k.row /\ again.fresh = k.fresh
      BY <1>3 DEF Call, PCs
    <2> QED BY <1>1, <1>2, <1>3, <1>5, <2>1, RecordGo
          DEF ApprovalMove, RowSteps, PCs, commitSteps, dispatchSteps, CopySteps
  <1>6. CASE Landed(k.pub) /\ Goto(c, next) /\ UNCHANGED approval
    <2>1. CommitOf(k.pub) \in 0..MaxHead /\ CommitOf(k.pub) \in 1..Len(branch)
          /\ branch[CommitOf(k.pub)] = k.pub /\ CommitOf(k.pub) # 0
          /\ "git_commit_reconciled" \in Details
      BY <1>6, CommitFound, Words, ConstantsAssumption DEF Inv, TypeOK, ProductionHead
    <2>2. /\ recorded \in Row /\ recorded.status = "failed"
          /\ recorded.detail = "git_commit_reconciled"
          /\ recorded.approval = k.row.approval
          /\ recorded.expectedHead = k.row.expectedHead /\ recorded.age = k.row.age
          /\ recorded.deploymentId = k.row.deploymentId
          /\ recorded.dispatched = k.row.dispatched
          /\ recorded.commitSha = CommitOf(k.pub)
      BY <1>3, <2>1 DEF Row
    <2> HIDE DEF recorded
    <2>3. WriteFrom(k.row, recorded)
      BY <1>3, <2>1, <2>2 DEF WriteFrom, Fence, RowShape, Accounts
    <2>4. OwnCommit(recorded, k.pub, branch) /\ Served(recorded, released)
      BY <2>1, <2>2 DEF OwnCommit, Served
    <2>5. /\ next \in Call /\ next.pc = "write" /\ next.pub = k.pub
          /\ next.row = recorded /\ next.fresh = k.fresh /\ next.retry = k.retry
          /\ next.retry
      BY <1>3, <2>2 DEF Call, PCs
    <2> HIDE DEF next
    <2> QED BY <1>1, <1>2, <1>6, <2>3, <2>4, <2>5, RecordToWrite DEF ApprovalMove
  <1> QED BY <1>4, <1>5, <1>6 DEF RetryReconcile, ReconcileReads

\* The row of a retry that claims the slot again.
LEMMA ClaimedRow ==
    ASSUME Inv, RecordInv, NEW c \in Callers, call[c].pc = "retryClaim"
    PROVE  LET k == call[c]
               claimed == [k.row EXCEPT !.status = "requested", !.lease = c,
                                        !.leased = TRUE, !.detail = "git_result_unknown"]
               row == [claimed EXCEPT !.age = pub[k.pub].age]
           IN  /\ row \in Row /\ row.status = "requested" /\ row.lease = c /\ row.leased
               /\ row.detail = "git_result_unknown" /\ row.commitSha = 0
               /\ row.approval = k.row.approval /\ row.expectedHead = k.row.expectedHead
               /\ row.deploymentId = k.row.deploymentId /\ ~row.dispatched
               /\ RowShape(row) /\ Clocked(row) /\ OwnCommit(row, k.pub, branch)
               /\ Served(row, released)
               /\ claimed.status = "requested" /\ claimed.commitSha = 0
  <1> DEFINE k == call[c]
             claimed == [k.row EXCEPT !.status = "requested", !.lease = c,
                                      !.leased = TRUE, !.detail = "git_result_unknown"]
             row == [claimed EXCEPT !.age = pub[k.pub].age]
  <1>1. k.pc \in CommitUnknown
    BY DEF CommitUnknown
  <1>2. k.row \in Row /\ k.row.commitSha = 0 /\ ~k.row.dispatched /\ k.pub \in Pubs
        /\ pub[k.pub] \in Row /\ k.row.deploymentId = NoBuild
    BY <1>1, CommitRow, RowStepFacts DEF Inv, TypeOK, RowShape
  <1>3. "requested" \in Statuses /\ "git_result_unknown" \in Details
        /\ pub[k.pub].age \in 0..2 /\ c \in Callers \cup {None}
    BY <1>2, Words DEF Row
  <1>4. /\ claimed \in Row /\ claimed.status = "requested" /\ claimed.lease = c
        /\ claimed.leased /\ claimed.detail = "git_result_unknown"
        /\ claimed.commitSha = 0 /\ claimed.approval = k.row.approval
        /\ claimed.expectedHead = k.row.expectedHead
        /\ claimed.deploymentId = k.row.deploymentId /\ ~claimed.dispatched
    BY <1>2, <1>3 DEF Row
  <1>5. row = [claimed EXCEPT !.age = pub[k.pub].age]
    OBVIOUS
  <1> HIDE DEF claimed, row
  <1>6. /\ row \in Row /\ row.status = "requested" /\ row.lease = c /\ row.leased
        /\ row.detail = "git_result_unknown" /\ row.commitSha = 0
        /\ row.approval = k.row.approval /\ row.expectedHead = k.row.expectedHead
        /\ row.deploymentId = k.row.deploymentId /\ ~row.dispatched
        /\ row.deploymentId = NoBuild
    BY <1>2, <1>3, <1>4, <1>5 DEF Row
  <1>7. RowShape(row) /\ Clocked(row) /\ OwnCommit(row, k.pub, branch)
        /\ Served(row, released)
    BY <1>6 DEF RowShape, Clocked, OwnCommit, Served
  <1> QED BY <1>4, <1>6, <1>7 DEF claimed, row

LEMMA ClaimFailedPublicationRetryRecord ==
    ASSUME Inv, RecordInv, NEW c \in Callers, claimFailedPublicationRetry(c)
    PROVE  RecordInv'
  <1> DEFINE k == call[c]
             p == k.pub
             claimed == [k.row EXCEPT !.status = "requested", !.lease = c,
                                      !.leased = TRUE, !.detail = "git_result_unknown"]
             row == [claimed EXCEPT !.age = pub[p].age]
             next == [k EXCEPT !.pc = "commit", !.row = row]
             stored == [pub EXCEPT ![p] = row]
  <1>1. ApprovalMove /\ TablesMove
    BY Beside DEF claimFailedPublicationRetry, ApprovalMove
  <1>2. k.pc = "retryClaim" /\ k.pc \in RowSteps
    BY DEF claimFailedPublicationRetry, RowSteps, PCs
  <1>3. CASE Goto(c, Idle)
    BY <1>1, <1>3, RecordStop
  <1>4. CASE Store(c, p, row, next)
    <2>1. /\ k \in Call /\ p \in Pubs /\ pub[p].status # "absent"
          /\ k.row.approval \in Approvals
          /\ k.row.approval = pub[p].approval /\ k.row.expectedHead = pub[p].expectedHead
      BY <1>2, CallerFacts, RowStepFacts, RefreshRow DEF Made
    <2>2. /\ row \in Row /\ row.status = "requested" /\ row.approval = k.row.approval
          /\ row.expectedHead = k.row.expectedHead /\ RowShape(row) /\ Clocked(row)
          /\ OwnCommit(row, p, branch) /\ Served(row, released) /\ row.commitSha = 0
      BY <1>2, ClaimedRow
    <2> HIDE DEF row, claimed
    <2>3. next \in Call /\ next.pc = "commit" /\ next.pub = p /\ next.row = row
      BY <2>1, <2>2 DEF Call, PCs, commitSteps
    <2>4. stored[p] = row
      BY <2>1 DEF Inv, TypeOK
    <2>5. KnownOK(next, stored, branch, released) /\ CopyOK(next, stored)
      <3> HIDE DEF stored
      <3> QED BY <2>2, <2>3, <2>4 DEF KnownOK, CopyOK, CopySteps, dispatchSteps
    <2> HIDE DEF next
    <2> QED BY <1>1, <1>4, <2>1, <2>2, <2>3, <2>5, RecordStore
  <1> QED BY <1>3, <1>4 DEF claimFailedPublicationRetry

LEMMA RetryLiveRecord ==
    ASSUME Inv, RecordInv, NEW c \in Callers, RetryLive(c) PROVE RecordInv'
  <1> DEFINE k == call[c]
             row == k.row
             Write(new) == Goto(c, [k EXCEPT !.pc = "write", !.row = new])
             goOn == [k EXCEPT !.pc = "retryHead"]
  <1>1. ApprovalMove /\ TablesMove
    BY Beside DEF RetryLive, ApprovalMove
  <1>2. k.pc = "retryLive" /\ k.pc \in RowSteps
    BY DEF RetryLive, RowSteps, PCs
  <1>3. /\ k \in Call /\ row \in Row /\ RowShape(row) /\ OwnCommit(row, k.pub, branch)
        /\ k.retry
    BY <1>2, CallerFacts, RetryFacts, RefreshRow DEF RetrySteps
  <1>4. CASE Goto(c, Idle)
    BY <1>1, <1>4, RecordStop
  <1>5. CASE row.commitSha # 0 /\ Goto(c, goOn)
    <2>1. /\ goOn \in Call /\ goOn.pc = "retryHead" /\ goOn.pub = k.pub
          /\ goOn.row = k.row /\ goOn.fresh = k.fresh
      BY <1>3 DEF Call, PCs
    <2> QED BY <1>1, <1>2, <1>5, <2>1, RecordGo
          DEF RowSteps, PCs, CommitUnknown, commitSteps, dispatchSteps, CopySteps
  <1>6. ASSUME row.commitSha # 0, NEW s \in {"verified-live", "building", "deployed"},
               NEW d \in {"none", "deployment_retry_reconciled"},
               Write(With(row, s, d)),
               s = "verified-live" => row.commitSha \in released,
               s # "verified-live" => d = "deployment_retry_reconciled"
        PROVE  RecordInv'
    <2> DEFINE new == With(row, s, d)
               next == [k EXCEPT !.pc = "write", !.row = new]
    <2>1. /\ s \in Statuses /\ d \in Details
          /\ "deployment_retry_reconciled" \in deploymentRetryDispatchEvidence
      BY Words DEF deploymentRetryDispatchEvidence
    <2>2. /\ WriteFrom(row, new) /\ OwnCommit(new, k.pub, branch)
          /\ Served(new, released) /\ new \in Row
      BY <1>3, <1>6, <2>1, WriteWith
    <2> HIDE DEF new
    <2>3. /\ next \in Call /\ next.pc = "write" /\ next.pub = k.pub
          /\ next.row = new /\ next.fresh = k.fresh /\ next.retry = k.retry /\ next.retry
      BY <1>3, <2>2 DEF Call, PCs
    <2>4. Goto(c, next)
      BY <1>6 DEF new
    <2> HIDE DEF next
    <2> QED BY <1>1, <1>2, <2>2, <2>3, <2>4, RecordToWrite
  <1>7. \/ Goto(c, Idle)
        \/ row.commitSha # 0 /\ Goto(c, goOn)
        \/ /\ row.commitSha # 0 /\ row.commitSha \in released
           /\ Write(With(row, "verified-live", "none"))
        \/ \E s \in {"building", "deployed"} :
             row.commitSha # 0 /\ Write(With(row, s, "deployment_retry_reconciled"))
    BY MarkerLive DEF RetryLive, VerifiedLive, With
  <1> HIDE DEF Write
  <1> QED BY <1>4, <1>5, <1>6, <1>7

LEMMA RetryHeadRecord ==
    ASSUME Inv, RecordInv, NEW c \in Callers, RetryHead(c) PROVE RecordInv'
  <1> DEFINE next == [call[c] EXCEPT !.pc = "dispatchClaim"]
  <1>1. TablesMove
    BY Beside DEF RetryHead
  <1>2. call[c].pc = "retryHead" /\ call[c].pc \in RowSteps /\ call[c].pc \in CommitKnown
    BY DEF RetryHead, RowSteps, PCs, CommitKnown
  <1>3. CASE Goto(c, Idle) /\ approval' = invalidated(call[c].row.approval)
    BY <1>1, <1>2, <1>3, Spent, RecordStop
  <1>4. CASE Goto(c, next) /\ UNCHANGED approval
    <2>1. /\ next \in Call /\ next.pc = "dispatchClaim" /\ next.pub = call[c].pub
          /\ next.row = call[c].row /\ next.fresh = call[c].fresh
      BY CallerFacts DEF Call, PCs, dispatchSteps
    <2>2. call[c].row.commitSha # 0
      BY <1>2, RetryFacts
    <2> QED BY <1>1, <1>2, <1>4, <2>1, <2>2, RecordGo
          DEF ApprovalMove, RowSteps, PCs, CommitUnknown, commitSteps, dispatchSteps, CopySteps
  <1> QED BY <1>3, <1>4 DEF RetryHead

\* The row of a dispatch claim.
LEMMA DispatchedRow ==
    ASSUME Inv, RecordInv, NEW c \in Callers, call[c].pc = "dispatchClaim"
    PROVE  LET k == call[c]
               row == [k.row EXCEPT !.status = "committed", !.lease = c,
                             !.leased = TRUE, !.age = 0, !.dispatched = TRUE,
                             !.deploymentId = DispatchToken,
                             !.detail = "deployment_retry_dispatching"]
           IN  /\ row \in Row /\ row.status = "committed" /\ row.lease = c /\ row.leased
               /\ row.detail = "deployment_retry_dispatching" /\ row.dispatched
               /\ row.commitSha = k.row.commitSha /\ row.commitSha # 0
               /\ row.approval = k.row.approval /\ row.expectedHead = k.row.expectedHead
               /\ row.deploymentId = DispatchToken
               /\ RowShape(row) /\ Clocked(row) /\ OwnCommit(row, k.pub, branch)
               /\ Served(row, released)
  <1> DEFINE k == call[c]
             half == [k.row EXCEPT !.status = "committed", !.lease = c,
                                   !.leased = TRUE, !.age = 0]
             row == [half EXCEPT !.dispatched = TRUE, !.deploymentId = DispatchToken,
                                 !.detail = "deployment_retry_dispatching"]
  <1>1. k.pc \in RowSteps /\ k.pc \in CommitKnown
    BY DEF RowSteps, PCs, dispatchSteps, CommitKnown
  <1>2. k.row \in Row /\ k.row.commitSha # 0 /\ OwnCommit(k.row, k.pub, branch)
    BY <1>1, RefreshRow, RetryFacts
  <1>3. "committed" \in Statuses /\ "deployment_retry_dispatching" \in Details
        /\ DispatchToken \in -1..MaxDispatch
        /\ c \in Callers \cup {None} /\ 0 \in 0..2
    BY Words, ConstantsAssumption DEF DispatchToken
  <1>4. /\ half \in Row /\ half.status = "committed" /\ half.lease = c /\ half.leased
        /\ half.commitSha = k.row.commitSha /\ half.approval = k.row.approval
        /\ half.expectedHead = k.row.expectedHead /\ half.age = 0
    BY <1>2, <1>3 DEF Row
  <1>5. row = [half EXCEPT !.dispatched = TRUE, !.deploymentId = DispatchToken,
                           !.detail = "deployment_retry_dispatching"]
        /\ row = [k.row EXCEPT !.status = "committed", !.lease = c,
                             !.leased = TRUE, !.age = 0, !.dispatched = TRUE,
                             !.deploymentId = DispatchToken,
                             !.detail = "deployment_retry_dispatching"]
    OBVIOUS
  <1> HIDE DEF half, row
  <1>6. /\ row \in Row /\ row.status = "committed" /\ row.lease = c /\ row.leased
        /\ row.detail = "deployment_retry_dispatching" /\ row.dispatched
        /\ row.commitSha = k.row.commitSha /\ row.approval = k.row.approval
        /\ row.expectedHead = k.row.expectedHead /\ row.age = 0
        /\ row.deploymentId = DispatchToken
    BY ZenonT(40), <1>3, <1>4, <1>5 DEF Row
  <1>7. RowShape(row) /\ Clocked(row) /\ OwnCommit(row, k.pub, branch)
        /\ Served(row, released)
    BY <1>2, <1>6 DEF RowShape, Clocked, OwnCommit, Served
  <1> QED BY <1>2, <1>5, <1>6, <1>7

LEMMA DispatchClaimRecord ==
    ASSUME Inv, RecordInv, NEW c \in Callers, DispatchClaim(c) PROVE RecordInv'
  <1> DEFINE k == call[c]
             p == k.pub
             row == [k.row EXCEPT !.status = "committed", !.lease = c,
                             !.leased = TRUE, !.age = 0, !.dispatched = TRUE,
                             !.deploymentId = DispatchToken,
                             !.detail = "deployment_retry_dispatching"]
             next == [k EXCEPT !.pc = "dispatchCheck", !.row = row, !.fresh = TRUE]
             stored == [pub EXCEPT ![p] = row]
  <1>1. ApprovalMove /\ TablesMove
    BY Beside DEF DispatchClaim, ApprovalMove
  <1>2. k.pc = "dispatchClaim" /\ k.pc \in RowSteps
    BY DEF DispatchClaim, RowSteps, PCs, dispatchSteps
  <1>3. CASE Goto(c, Idle)
    BY <1>1, <1>3, RecordStop
  <1>4. CASE Store(c, p, row, next)
    <2>1. /\ k \in Call /\ p \in Pubs /\ pub[p].status # "absent"
          /\ k.row.approval \in Approvals
          /\ k.row.approval = pub[p].approval /\ k.row.expectedHead = pub[p].expectedHead
      BY <1>2, CallerFacts, RowStepFacts, RefreshRow DEF Made
    <2>2. /\ row \in Row /\ row.status = "committed" /\ row.approval = k.row.approval
          /\ row.expectedHead = k.row.expectedHead /\ RowShape(row) /\ Clocked(row)
          /\ OwnCommit(row, p, branch) /\ Served(row, released) /\ row.commitSha # 0
      BY <1>2, DispatchedRow
    <2> HIDE DEF row
    <2>3. next \in Call /\ next.pc = "dispatchCheck" /\ next.pub = p /\ next.row = row
      BY <2>1, <2>2 DEF Call, PCs, dispatchSteps
    <2>4. stored[p] = row
      BY <2>1 DEF Inv, TypeOK
    <2>5. KnownOK(next, stored, branch, released) /\ CopyOK(next, stored)
      <3> HIDE DEF stored
      <3> QED BY <2>2, <2>3, <2>4
            DEF KnownOK, CopyOK, CopySteps, CommitUnknown, commitSteps
    <2> HIDE DEF next
    <2> QED BY <1>1, <1>4, <2>1, <2>2, <2>3, <2>5, RecordStore
  <1> QED BY <1>3, <1>4 DEF DispatchClaim

\* The row of a dispatch claim given up.
LEMMA GivenUp ==
    ASSUME NEW row \in Row, NEW p, NEW s \in Statuses, NEW d \in Details,
           NEW id \in -1..MaxDispatch, row.commitSha # 0,
           OwnCommit(row, p, branch), s \notin {"requested", "absent"},
           s = "unknown" => d = "deployment_retry_result_unknown",
           d # "deployment_retry_dispatching",
           s = "verified-live" => row.commitSha \in released
    PROVE  LET new == DispatchRow(row, s, d, id)
           IN  /\ new \in Row /\ new.status = s /\ new.detail = d
               /\ new.approval = row.approval /\ new.expectedHead = row.expectedHead
               /\ new.commitSha = row.commitSha /\ ~new.leased /\ RowShape(new)
               /\ OwnCommit(new, p, branch) /\ Served(new, released)
               /\ new.deploymentId = id /\ new.dispatched = row.dispatched
  <1> DEFINE new == DispatchRow(row, s, d, id)
  <1>1. /\ new \in Row /\ new.status = s /\ new.detail = d
        /\ new.approval = row.approval /\ new.expectedHead = row.expectedHead
        /\ new.commitSha = row.commitSha /\ ~new.leased
        /\ new.deploymentId = id /\ new.dispatched = row.dispatched
    BY DEF DispatchRow, Row
  <1> HIDE DEF new
  <1>2. RowShape(new) /\ OwnCommit(new, p, branch) /\ Served(new, released)
    BY <1>1 DEF RowShape, OwnCommit, Served
  <1> QED BY <1>1, <1>2 DEF new

LEMMA RecordGiveUp ==
    ASSUME Inv, RecordInv, NEW c \in Callers, call[c].pc \in dispatchSteps,
           NEW s \in Statuses, NEW d \in Details,
           NEW id \in -1..MaxDispatch, s \notin {"requested", "absent"},
           s = "unknown" => d = "deployment_retry_result_unknown",
           d # "deployment_retry_dispatching",
           s = "verified-live" => call[c].row.commitSha \in released,
           NEW next \in Call, DispatchWrite(c, DispatchRow(call[c].row, s, d, id), next),
           \/ next.pc = "idle"
           \/ next.pc = "buildSettle" /\ next.pub = call[c].pub /\ next.row = call[c].row,
           ApprovalMove, TablesMove
    PROVE  RecordInv'
  <1> DEFINE p == call[c].pub
             new == DispatchRow(call[c].row, s, d, id)
             row == Timed(p, new)
             stored == [pub EXCEPT ![p] = row]
  <1>1. call[c].pc \in RowSteps
    BY DEF RowSteps, PCs, dispatchSteps
  <1>2. /\ p \in Pubs /\ call[c].row \in Row /\ pub[p].status # "absent"
        /\ call[c].row.approval \in Approvals /\ call[c].row.commitSha # 0
        /\ OwnCommit(call[c].row, p, branch) /\ Served(call[c].row, released)
        /\ call[c].row.approval = pub[p].approval
        /\ call[c].row.expectedHead = pub[p].expectedHead
    BY <1>1, RowStepFacts, RefreshRow, RowKnown DEF KnownOK, Made
  <1>3. /\ new \in Row /\ new.status = s /\ new.approval = pub[p].approval
        /\ new.expectedHead = pub[p].expectedHead
        /\ ~new.leased /\ RowShape(new)
        /\ OwnCommit(new, p, branch) /\ Served(new, released)
    BY <1>2, GivenUp
  <1> HIDE DEF new
  <1>4. /\ row \in Row /\ row.status = s /\ row.approval = pub[p].approval
        /\ row.expectedHead = pub[p].expectedHead /\ ~row.leased /\ RowShape(row)
        /\ OwnCommit(row, p, branch) /\ Served(row, released)
    BY <1>2, <1>3, TimedRecord
  <1> HIDE DEF row
  <1>5. Clocked(row)
    BY <1>4 DEF Clocked
  <1>6. stored[p] = row
    BY <1>2 DEF Inv, TypeOK
  <1>7. ASSUME NEW P, P[p].approval = pub[p].approval,
               P[p].expectedHead = pub[p].expectedHead
        PROVE  KnownOK(next, P, branch, released) /\ CopyOK(next, P)
    BY <1>2, <1>7 DEF KnownOK, CopyOK, RowSteps, CommitUnknown, commitSteps,
                      dispatchSteps, CopySteps
  <1>8. CASE Store(c, p, row, next)
    <2>1. KnownOK(next, stored, branch, released) /\ CopyOK(next, stored)
      <3> HIDE DEF stored
      <3> QED BY <1>4, <1>6, <1>7
    <2> QED BY <1>2, <1>4, <1>5, <1>8, <2>1, RecordStore
  <1>9. CASE Goto(c, next)
    BY <1>7, <1>9, RecordMove
  <1> QED BY <1>8, <1>9 DEF DispatchWrite, new, row

LEMMA DispatchCheckRecord ==
    ASSUME Inv, RecordInv, NEW c \in Callers, DispatchCheck(c) PROVE RecordInv'
  <1> DEFINE GiveUp(d) == DispatchWrite(c, DispatchRow(call[c].row, "failed", d, NoBuild),
                                        Idle)
             next == [call[c] EXCEPT !.pc = "assertDispatch"]
  <1>1. TablesMove
    BY Beside DEF DispatchCheck
  <1>2. /\ call[c].pc = "dispatchCheck" /\ call[c].pc \in RowSteps
        /\ call[c].pc \in dispatchSteps /\ call[c].pc \in CommitKnown
    BY DEF DispatchCheck, RowSteps, PCs, dispatchSteps, CommitKnown
  <1>3. ApprovalMove
    BY <1>2, Spent DEF DispatchCheck, ApprovalMove
  <1>4. CASE Goto(c, next)
    <2>1. /\ next \in Call /\ next.pc = "assertDispatch" /\ next.pub = call[c].pub
          /\ next.row = call[c].row /\ next.fresh = call[c].fresh
      BY CallerFacts DEF Call, PCs, dispatchSteps
    <2>2. call[c].row.commitSha # 0
      BY <1>2, RetryFacts
    <2> QED BY <1>1, <1>2, <1>3, <1>4, <2>1, <2>2, RecordGo
          DEF RowSteps, PCs, CommitUnknown, commitSteps, dispatchSteps, CopySteps
  <1>5. ASSUME NEW d \in Details \ {"deployment_retry_dispatching"}, GiveUp(d)
        PROVE  RecordInv'
    <2>1. "failed" \in Statuses /\ NoBuild \in -1..MaxDispatch /\ Idle.pc = "idle"
      BY Words, ConstantsAssumption DEF NoBuild, Idle
    <2> QED BY <1>1, <1>2, <1>3, <1>5, <2>1, IdleOK, RecordGiveUp
  <1>6. \/ Goto(c, next)
        \/ \E d \in {"approval_stale", "deployment_retry_head_unavailable",
                     "deployment_retry_head_moved"} : GiveUp(d)
    BY DEF DispatchCheck
  <1> HIDE DEF GiveUp
  <1> QED BY <1>4, <1>5, <1>6, Words

LEMMA AssertDispatchRecord ==
    ASSUME Inv, RecordInv, NEW c \in Callers, AssertDispatch(c) PROVE RecordInv'
  <1> DEFINE k == call[c]
             veto == [k EXCEPT !.pc = "buildSettle", !.reply = "claimLost"]
             served == DispatchRow(k.row, "verified-live", "none", NoBuild)
             moved == DispatchRow(k.row, "failed", "deployment_retry_head_moved", NoBuild)
             next == [k EXCEPT !.pc = "build"]
  <1>1. TablesMove
    BY Beside DEF AssertDispatch
  <1>2. /\ k.pc = "assertDispatch" /\ k.pc \in RowSteps /\ k.pc \in dispatchSteps
        /\ k.pc \in CommitKnown /\ k \in Call
    BY CallerFacts DEF AssertDispatch, RowSteps, PCs, dispatchSteps, CommitKnown
  <1>3. ApprovalMove
    BY <1>2, Spent DEF AssertDispatch, ApprovalMove
  <1>4. k.row.commitSha # 0
    BY <1>2, RetryFacts
  <1>5. CASE Goto(c, next)
    <2>1. /\ next \in Call /\ next.pc = "build" /\ next.pub = k.pub
          /\ next.row = k.row /\ next.fresh = k.fresh
      BY <1>2 DEF Call, PCs, dispatchSteps
    <2> QED BY <1>1, <1>2, <1>3, <1>4, <1>5, <2>1, RecordGo
          DEF RowSteps, PCs, CommitUnknown, commitSteps, dispatchSteps, CopySteps
  <1>6. /\ veto \in Call /\ veto.pc = "buildSettle" /\ veto.pub = k.pub
        /\ veto.row = k.row /\ veto.fresh = k.fresh
    BY <1>2 DEF Call, PCs, dispatchSteps, Replies
  <1>7. CASE Goto(c, veto)
    BY <1>1, <1>2, <1>3, <1>4, <1>6, <1>7, RecordGo
       DEF RowSteps, PCs, CommitUnknown, commitSteps, dispatchSteps, CopySteps
  <1>8. CASE \/ DispatchWrite(c, served, veto) /\ k.row.commitSha \in released
             \/ DispatchWrite(c, moved, veto)
    <2>1. /\ {"failed", "verified-live"} \subseteq Statuses
          /\ {"none", "deployment_retry_head_moved"} \subseteq Details
          /\ NoBuild \in -1..MaxDispatch
      BY Words, ConstantsAssumption DEF NoBuild
    <2> HIDE DEF veto
    <2> QED BY <1>1, <1>2, <1>3, <1>6, <1>8, <2>1, RecordGiveUp
  <1> QED BY <1>5, <1>7, <1>8, MarkerLive DEF AssertDispatch

LEMMA DispatchBuildRecord ==
    ASSUME Inv, RecordInv, NEW c \in Callers, DispatchBuild(c) PROVE RecordInv'
  <1> DEFINE k == call[c]
             row == [k.row EXCEPT !.deploymentId = Len(dispatches) + 1]
             next == [k EXCEPT !.pc = "buildWait", !.row = row]
             unknown == [k EXCEPT !.pc = "buildSettle", !.reply = "ambiguous"]
  <1>1. ApprovalMove /\ TablesMove
    BY DEF DispatchBuild, TablesMove, ApprovalMove, RecordInv, BranchOK
  <1>2. /\ k.pc = "build" /\ k.pc \in RowSteps /\ k.pc \in CommitKnown /\ k \in Call
        /\ k.row \in Row
    BY CallerFacts DEF DispatchBuild, RowSteps, PCs, dispatchSteps, CommitKnown
  <1>3. k.row.commitSha # 0
    BY <1>2, RetryFacts
  <1>4. CASE Len(dispatches) < MaxDispatch /\ Goto(c, next)
    <2>1. Len(dispatches) + 1 \in -1..MaxDispatch
      BY <1>4, ConstantsAssumption DEF Inv, TypeOK
    <2>2. /\ row \in Row /\ row.status = k.row.status /\ row.commitSha = k.row.commitSha
          /\ row.approval = k.row.approval /\ row.expectedHead = k.row.expectedHead
      BY <1>2, <2>1 DEF Row
    <2> HIDE DEF row
    <2>3. next \in Call /\ next.pc = "buildWait" /\ next.pub = k.pub /\ next.row = row
      BY <1>2, <2>2 DEF Call, PCs, dispatchSteps
    <2>4. KnownOK(next, pub, branch, released)
      <3>1. OwnCommit(k.row, k.pub, branch) /\ Served(k.row, released)
        BY <1>2, RefreshRow
      <3>2. /\ k.row.approval = pub[k.pub].approval
            /\ k.row.expectedHead = pub[k.pub].expectedHead
        BY <1>2, RefreshRow
      <3>3. OwnCommit(row, k.pub, branch) /\ Served(row, released)
        BY <2>2, <3>1 DEF OwnCommit, Served
      <3> QED BY <1>3, <2>2, <2>3, <3>2, <3>3
            DEF KnownOK, CommitUnknown, commitSteps, dispatchSteps
    <2>5. CopyOK(next, pub)
      BY <2>3 DEF CopyOK, CopySteps
    <2> HIDE DEF next
    <2> QED BY <1>1, <1>4, <2>3, <2>4, <2>5, RecordMove
  <1>5. CASE Goto(c, unknown)
    <2>1. /\ unknown \in Call /\ unknown.pc = "buildSettle" /\ unknown.pub = k.pub
          /\ unknown.row = k.row /\ unknown.fresh = k.fresh
      BY <1>2 DEF Call, PCs, dispatchSteps, Replies
    <2> QED BY <1>1, <1>2, <1>3, <1>5, <2>1, RecordGo
          DEF RowSteps, PCs, CommitUnknown, commitSteps, dispatchSteps, CopySteps
  <1>6. [k EXCEPT !.pc = "buildWait", !.row.deploymentId = Len(dispatches) + 1] = next
    BY <1>2 DEF Call
  <1> HIDE DEF next
  <1> QED BY <1>4, <1>5, <1>6 DEF DispatchBuild

LEMMA BuildAnswerRecord ==
    ASSUME Inv, RecordInv, NEW c \in Callers, BuildAnswer(c) PROVE RecordInv'
  <1>1. ApprovalMove /\ TablesMove
    BY Beside DEF BuildAnswer, ApprovalMove
  <1>2. /\ call[c].pc = "buildWait" /\ call[c].pc \in RowSteps /\ call[c] \in Call
        /\ call[c].pc \in dispatchSteps
    BY CallerFacts DEF BuildAnswer, RowSteps, PCs, dispatchSteps
  <1>3. PICK r \in {"accepted", "refused", "ambiguous"} :
            Goto(c, [call[c] EXCEPT !.pc = "buildSettle", !.reply = r])
    BY DEF BuildAnswer
  <1> DEFINE next == [call[c] EXCEPT !.pc = "buildSettle", !.reply = r]
  <1>4. /\ next \in Call /\ next.pc = "buildSettle" /\ next.pub = call[c].pub
        /\ next.row = call[c].row /\ next.fresh = call[c].fresh
    BY <1>2 DEF Call, PCs, dispatchSteps, Replies
  <1>5. call[c].row.commitSha # 0
    BY <1>2, RowKnown DEF KnownOK
  <1> QED BY <1>1, <1>2, <1>3, <1>4, <1>5, RecordGo
        DEF RowSteps, PCs, CommitUnknown, commitSteps, dispatchSteps, CopySteps

LEMMA SettleBuildRecord ==
    ASSUME Inv, RecordInv, NEW c \in Callers, SettleBuild(c) PROVE RecordInv'
  <1> DEFINE row == call[c].row
             Settle(s, d, id) == DispatchWrite(c, DispatchRow(row, s, d, id), Idle)
  <1>1. ApprovalMove /\ TablesMove
    BY Beside DEF SettleBuild, ApprovalMove
  <1>2. /\ call[c].pc = "buildSettle" /\ call[c].pc \in RowSteps
        /\ call[c].pc \in dispatchSteps
    BY DEF SettleBuild, RowSteps, PCs, dispatchSteps
  <1>3. call[c].reply \in BuildReplies /\ row.deploymentId \in -1..MaxDispatch
    BY <1>2, CallerFacts DEF HandlerOK, Row
  <1>4. ASSUME NEW s \in {"committed", "failed", "unknown"},
               NEW d \in Details \ {"deployment_retry_dispatching"},
               NEW id \in {row.deploymentId, NoBuild},
               s = "unknown" => d = "deployment_retry_result_unknown",
               Settle(s, d, id)
        PROVE  RecordInv'
    <2>1. s \in Statuses /\ id \in -1..MaxDispatch /\ Idle.pc = "idle"
      BY <1>3, Words, ConstantsAssumption DEF NoBuild, Idle
    <2> QED BY <1>1, <1>2, <1>4, <2>1, IdleOK, RecordGiveUp
  <1>5. \/ Settle("committed", "deployment_retry_requested", row.deploymentId)
        \/ Settle("failed", "deployment_retry_failed", NoBuild)
        \/ Settle("failed", "deployment_retry_claim_lost", NoBuild)
        \/ Settle("unknown", "deployment_retry_result_unknown", NoBuild)
    BY <1>3 DEF SettleBuild, BuildReplies
  <1> HIDE DEF Settle
  <1> QED BY <1>4, <1>5, Words

-----------------------------------------------------------------------------
(* Workspaces, approvals and the environment *)

\* Steps that write no publication: a request may be answered, a handler die.
LEMMA RecordOutside ==
    ASSUME Inv, RecordInv, UNCHANGED pub, OuterOK,
           \A c \in Callers :
             \/ call'[c] = call[c] \/ call'[c] = Idle
             \/ /\ call[c].pc = "wait" /\ call'[c].pc = "settle"
                /\ call'[c].pub = call[c].pub /\ call'[c].row = call[c].row,
           live' \in released', released \subseteq released',
           ChannelOK', BasesOK', BranchOK'
    PROVE  RecordInv'
  <1>1. Len(branch) \in Nat /\ Len(branch') \in Nat
    BY DEF Inv, TypeOK, OuterOK
  <1>2. RecordsOK'
    <2> SUFFICES ASSUME NEW p \in Pubs
                 PROVE  /\ RowShape(pub[p]) /\ Clocked(pub[p])
                        /\ OwnCommit(pub[p], p, branch') /\ Served(pub[p], released')
      BY DEF RecordsOK
    <2>1. /\ RowShape(pub[p]) /\ Clocked(pub[p])
          /\ OwnCommit(pub[p], p, branch) /\ Served(pub[p], released)
      BY DEF RecordInv, RecordsOK
    <2> QED BY <1>1, <2>1 DEF OwnCommit, Served, OuterOK
  <1>3. ASSUME NEW c \in Callers
        PROVE  KnownOK(call'[c], pub, branch', released') /\ CopyOK(call'[c], pub)
    <2>1. /\ call[c] \in Call /\ KnownOK(call[c], pub, branch, released)
          /\ CopyOK(call[c], pub)
      BY CallerFacts, RowKnown
    <2>2. KnownOK(call[c], pub, branch', released')
      BY <1>1, <2>1, KnownStable DEF OuterOK
    <2>3. CASE call'[c] = call[c]
      BY <2>1, <2>2, <2>3
    <2>4. CASE call'[c] = Idle
      BY <2>4, IdleKnown
    <2>5. CASE /\ call[c].pc = "wait" /\ call'[c].pc = "settle"
               /\ call'[c].pub = call[c].pub /\ call'[c].row = call[c].row
      BY <2>2, <2>5 DEF KnownOK, CopyOK, RowSteps, PCs, CommitUnknown, commitSteps,
                        dispatchSteps, CopySteps
    <2> QED BY <2>3, <2>4, <2>5
  <1> QED BY <1>2, <1>3 DEF RecordInv

\* Publications expect the base of their workspace, which stays while the
\* workspace is open.
LEMMA BasesStay ==
    ASSUME Inv, RecordInv, UNCHANGED pub,
           \A a \in Approvals : Made(a, approval) =>
             /\ approval'[a].workspace = approval[a].workspace
             /\ workspace'[approval[a].workspace].base
                  = workspace[approval[a].workspace].base,
           \A a \in Approvals : Made(a, approval') =>
             workspace'[approval'[a].workspace].open
    PROVE  BasesOK'
  <1>1. \A p \in Pubs : pub[p].status # "absent" =>
          /\ Made(pub[p].approval, approval) /\ pub[p].approval \in Approvals
          /\ pub[p].expectedHead = BaseOf(pub[p].approval)
    BY DEF Inv, RowsOK, RowOK, Made, RecordInv, BasesOK
  <1> QED BY <1>1 DEF BasesOK, BaseOf

LEMMA OpenWorkspaceRecord ==
    ASSUME Inv, RecordInv, NEW w \in Workspaces, OpenWorkspace(w) PROVE RecordInv'
  <1>1. /\ workspace \in [Workspaces -> WorkspaceRecord]
        /\ workspace' = [workspace EXCEPT ![w] = [open |-> TRUE, base |-> live,
                                                  revision |-> 0]]
        /\ ~workspace[w].open
        /\ UNCHANGED <<approval, pub, call, external>>
    BY DEF OpenWorkspace, Inv, TypeOK
  <1>2. OuterOK
    <2>1. workspace' \in [Workspaces -> WorkspaceRecord]
      BY ConstantsAssumption DEF OpenWorkspace, Inv, TypeOK, WorkspaceRecord
    <2> QED BY <2>1 DEF OpenWorkspace, external, Inv, TypeOK, OuterOK, ProductionHead
  <1>3. \A a \in Approvals : Made(a, approval) =>
           /\ approval[a].workspace \in Workspaces
           /\ workspace[approval[a].workspace].open
    BY DEF Inv, ApprovalsOK, RecordInv, BasesOK
  <1>4. BasesOK'
    <2>1. \A a \in Approvals : Made(a, approval) => approval[a].workspace # w
      BY <1>1, <1>3
    <2> QED BY <1>1, <1>3, <2>1, BasesStay DEF Made
  <1>5. ChannelOK' /\ BranchOK' /\ live' \in released' /\ released' = released
    BY <1>1 DEF RecordInv, ChannelOK, BranchOK, external
  <1> QED BY <1>1, <1>2, <1>4, <1>5, RecordOutside

LEMMA SaveRevisionRecord ==
    ASSUME Inv, RecordInv, NEW w \in Workspaces, SaveRevision(w) PROVE RecordInv'
  <1>1. /\ workspace \in [Workspaces -> WorkspaceRecord]
        /\ workspace' = [workspace EXCEPT ![w].revision = @ + 1]
        /\ approval' = SupersededApprovals(w)
        /\ UNCHANGED <<pub, call, external>>
    BY DEF SaveRevision, Inv, TypeOK
  <1>2. \A v \in Workspaces : /\ workspace'[v].base = workspace[v].base
                              /\ workspace'[v].open = workspace[v].open
    BY <1>1 DEF WorkspaceRecord
  <1>3. \A a \in Approvals : /\ approval'[a].workspace = approval[a].workspace
                             /\ approval'[a].channel = approval[a].channel
                             /\ Made(a, approval') <=> Made(a, approval)
    <2>1. \A a \in Approvals : approval'[a].channel = approval[a].channel
      BY <1>1 DEF SupersededApprovals, Inv, TypeOK, ApprovalRecord
    <2> QED BY <1>1, <2>1, SupersededOK
  <1>4. OuterOK
    <2>1. workspace' \in [Workspaces -> WorkspaceRecord]
      BY SaveRevisionInv DEF Inv, TypeOK
    <2> QED BY <2>1 DEF SaveRevision, external, Inv, TypeOK, OuterOK, ProductionHead
  <1>5. \A a \in Approvals : Made(a, approval) =>
           /\ approval[a].workspace \in Workspaces
           /\ workspace[approval[a].workspace].open
    BY DEF Inv, ApprovalsOK, RecordInv, BasesOK
  <1>6. BasesOK'
    BY <1>1, <1>2, <1>3, <1>5, BasesStay
  <1>7. ChannelOK' /\ BranchOK' /\ live' \in released' /\ released' = released
    BY <1>1, <1>3 DEF RecordInv, ChannelOK, BranchOK, external
  <1> QED BY <1>1, <1>4, <1>6, <1>7, RecordOutside

LEMMA ApproveRecord ==
    ASSUME Inv, RecordInv, NEW w \in Workspaces, NEW a \in Approvals, approve(w, a)
    PROVE  RecordInv'
  <1> DEFINE new == [state |-> "current", workspace |-> w, channel |-> channel,
                     revision |-> workspace[w].revision]
  <1>1. /\ approval' = [SupersededApprovals(w) EXCEPT ![a] = new]
        /\ UNCHANGED <<workspace, pub, call, external>>
        /\ approval[a].state = "absent" /\ workspace[w].open
    BY DEF approve
  <1>2. new.workspace = w /\ new.channel = channel
    OBVIOUS
  <1> HIDE DEF new
  <1>3. \A b \in Approvals : approval'[b] = IF b = a THEN new ELSE SupersededApprovals(w)[b]
    BY <1>1, SupersededOK
  <1>4. \A b \in Approvals : SupersededApprovals(w)[b].channel = approval[b].channel
    BY DEF SupersededApprovals, Inv, TypeOK, ApprovalRecord
  <1>5. \A b \in Approvals : b # a =>
           /\ approval'[b].workspace = approval[b].workspace
           /\ approval'[b].channel = approval[b].channel
           /\ Made(b, approval') <=> Made(b, approval)
    BY <1>3, <1>4, SupersededOK DEF Made
  <1>6. OuterOK
    BY <1>1, Quiet
  <1>7. ~Made(a, approval)
    BY <1>1 DEF Made
  <1>8. BasesOK'
    <2>1. \A b \in Approvals : Made(b, approval') =>
             workspace'[approval'[b].workspace].open
      BY <1>1, <1>2, <1>3, <1>5 DEF RecordInv, BasesOK
    <2> QED BY <1>1, <1>5, <1>7, <2>1, BasesStay
  <1>9. ChannelOK'
    BY <1>1, <1>2, <1>3, <1>5 DEF RecordInv, ChannelOK, external
  <1>10. BranchOK' /\ live' \in released' /\ released' = released
    BY <1>1 DEF RecordInv, BranchOK, external
  <1> QED BY <1>1, <1>6, <1>8, <1>9, <1>10, RecordOutside

\* A step that leaves workspaces and approvals alone.
LEMMA BasesUnchanged ==
    ASSUME Inv, RecordInv, UNCHANGED <<workspace, approval, pub>> PROVE BasesOK'
  BY DEF RecordInv, BasesOK, BaseOf

\* Who a delivered answer reaches.
LEMMA Delivered ==
    ASSUME Inv, NEW p, NEW c, c \in Callers \cup {None}, NEW reply, Deliver(p, c, reply),
           NEW d \in Callers
    PROVE  \/ call'[d] = call[d]
           \/ /\ d = c /\ call[d].pc = "wait" /\ call[d].pub = p /\ call'[d].pc = "settle"
              /\ call'[d].pub = p /\ call'[d].row = call[d].row
              /\ call'[d].retry = call[d].retry
              /\ call'[d].reply \in {reply, "ambiguous"}
  <1>1. CASE Waiting(p, c)
    <2>1. c \in Callers /\ call \in [Callers -> Call] /\ call[c] \in Call
          /\ call[c].pc = "wait" /\ call[c].pub = p
      BY <1>1 DEF Waiting, Inv, TypeOK
    <2>2. PICK r \in {reply, "ambiguous"} :
             call' = [call EXCEPT ![c].pc = "settle", ![c].reply = r]
      BY <1>1 DEF Deliver
    <2>3. call' = [call EXCEPT ![c] = [call[c] EXCEPT !.pc = "settle", !.reply = r]]
      BY <2>1, <2>2
    <2>4. CASE d = c
      <3>1. call'[d] = [call[c] EXCEPT !.pc = "settle", !.reply = r]
        BY <2>1, <2>3, <2>4
      <3> QED BY <2>1, <2>4, <3>1 DEF Call
    <2>5. CASE d # c
      BY <2>1, <2>3, <2>5
    <2> QED BY <2>4, <2>5
  <1>2. CASE ~Waiting(p, c)
    BY <1>2 DEF Deliver
  <1> QED BY <1>1, <1>2

LEMMA GitHubCommitsRecord ==
    ASSUME Inv, RecordInv, NEW p \in Pubs, NEW c \in Callers \cup {None},
           GitHubCommits(p, c)
    PROVE  RecordInv'
  <1>1. /\ branch' = Append(branch, p) /\ ProductionHead < MaxHead
        /\ Deliver(p, c, "committed") /\ UNCHANGED <<workspace, approval, pub, channel>>
        /\ UNCHANGED <<live, released>> /\ <<p, c>> \in wire
        /\ Len(branch) = pub[p].expectedHead /\ wire' \subseteq wire
    BY DEF GitHubCommits, HeadExpected, ProductionHead, Deliver
  <1>2. OuterOK
    BY <1>1, Extended DEF GitHubCommits, Inv, TypeOK, OuterOK
  <1>3. BranchOK'
    <2>1. pub[p].status # "absent" /\ \A m \in wire : pub[m[1]].status # "absent"
      BY <1>1 DEF RecordInv, BranchOK
    <2>2. ASSUME NEW i \in 1..Len(branch'), branch'[i] # None
          PROVE  pub[branch'[i]].status # "absent" /\ i = pub[branch'[i]].expectedHead + 1
      <3>1. Len(branch) \in Nat /\ Len(branch') = Len(branch) + 1
            /\ branch'[Len(branch) + 1] = p
            /\ \A j \in 1..Len(branch) : branch'[j] = branch[j]
        BY <1>1, Extended DEF Inv, TypeOK
      <3>2. CASE i = Len(branch) + 1
        BY <1>1, <2>1, <3>1, <3>2
      <3>3. CASE i # Len(branch) + 1
        BY <2>2, <3>1, <3>3 DEF RecordInv, BranchOK
      <3> QED BY <3>2, <3>3
    <2> QED BY <1>1, <2>1, <2>2 DEF BranchOK
  <1>4. ChannelOK' /\ BasesOK' /\ live' \in released' /\ released' = released
    BY <1>1, BasesUnchanged DEF RecordInv, ChannelOK
  <1>5. \A d \in Callers :
          \/ call'[d] = call[d]
          \/ /\ call[d].pc = "wait" /\ call'[d].pc = "settle"
             /\ call'[d].pub = call[d].pub /\ call'[d].row = call[d].row
    <2> TAKE d \in Callers
    <2>1. Deliver(p, c, "committed")
      BY <1>1
    <2> QED BY <2>1, Delivered
  <1> QED BY <1>1, <1>2, <1>3, <1>4, <1>5, RecordOutside

LEMMA GitHubRefusesRecord ==
    ASSUME Inv, RecordInv, NEW p \in Pubs, NEW c \in Callers \cup {None},
           GitHubRefuses(p, c)
    PROVE  RecordInv'
  <1>1. /\ Deliver(p, c, "moved") \/ Deliver(p, c, "rejected")
        /\ UNCHANGED <<workspace, approval, pub, channel, branch, live, released>>
        /\ wire' \subseteq wire
    BY DEF GitHubRefuses, Deliver
  <1>2. OuterOK
    BY DEF GitHubRefuses, Inv, TypeOK, OuterOK, ProductionHead
  <1>3. /\ ChannelOK' /\ BasesOK' /\ BranchOK'
        /\ live' \in released' /\ released' = released
    BY <1>1, BasesUnchanged DEF RecordInv, ChannelOK, BranchOK
  <1>4. \A d \in Callers :
          \/ call'[d] = call[d]
          \/ /\ call[d].pc = "wait" /\ call'[d].pc = "settle"
             /\ call'[d].pub = call[d].pub /\ call'[d].row = call[d].row
    BY <1>1, Delivered
  <1> QED BY <1>1, <1>2, <1>3, <1>4, RecordOutside

LEMMA RequestTimesOutRecord ==
    ASSUME Inv, RecordInv, NEW p \in Pubs, NEW c \in Callers, RequestTimesOut(p, c)
    PROVE  RecordInv'
  <1>1. /\ call' = [call EXCEPT ![c] = [call[c] EXCEPT !.pc = "settle",
                                                       !.reply = "ambiguous"]]
        /\ call[c].pc = "wait" /\ call[c] \in Call /\ call \in [Callers -> Call]
        /\ UNCHANGED <<workspace, approval, pub, channel, branch, live, released>>
        /\ \A m \in wire' : \E n \in wire : m[1] = n[1]
    BY DEF RequestTimesOut, Answered, Goto, Waiting, Inv, TypeOK
  <1>2. OuterOK
    BY DEF RequestTimesOut, Inv, TypeOK, OuterOK, ProductionHead
  <1>3. /\ ChannelOK' /\ BasesOK' /\ BranchOK'
        /\ live' \in released' /\ released' = released
    BY <1>1, BasesUnchanged DEF RecordInv, ChannelOK, BranchOK
  <1>4. ASSUME NEW d \in Callers
        PROVE  \/ call'[d] = call[d]
               \/ /\ call[d].pc = "wait" /\ call'[d].pc = "settle"
                  /\ call'[d].pub = call[d].pub /\ call'[d].row = call[d].row
    BY <1>1 DEF Call
  <1> QED BY <1>1, <1>2, <1>3, <1>4, RecordOutside

LEMMA ExternalCommitRecord == ASSUME Inv, RecordInv, ExternalCommit PROVE RecordInv'
  <1>1. /\ branch' = Append(branch, None) /\ ProductionHead < MaxHead
        /\ UNCHANGED <<workspace, approval, pub, call, channel, live, released, wire>>
    BY DEF ExternalCommit
  <1>2. OuterOK
    BY <1>1, Extended DEF ExternalCommit, Inv, TypeOK, OuterOK
  <1>3. Len(branch) \in Nat /\ Len(branch') = Len(branch) + 1
        /\ branch'[Len(branch) + 1] = None
        /\ \A j \in 1..Len(branch) : branch'[j] = branch[j]
    BY <1>1, Extended DEF Inv, TypeOK
  <1>4. BranchOK'
    <2>1. \A i \in 1..Len(branch') : branch'[i] # None => i \in 1..Len(branch)
      BY <1>3
    <2> QED BY <1>1, <1>3, <2>1 DEF RecordInv, BranchOK
  <1>5. ChannelOK' /\ BasesOK' /\ live' \in released' /\ released' = released
    BY <1>1, BasesUnchanged DEF RecordInv, ChannelOK
  <1> QED BY <1>1, <1>2, <1>4, <1>5, RecordOutside

\* Builds, releases and the channel's configuration.
LEMMA RecordAside ==
    ASSUME Inv, RecordInv, UNCHANGED <<workspace, approval, pub, call, branch, wire>>,
           OuterOK, live' \in released', released \subseteq released',
           UNCHANGED channel \/ "channel" \in Events
    PROVE  RecordInv'
  <1>1. ChannelOK' /\ BasesOK' /\ BranchOK'
    BY BasesUnchanged DEF RecordInv, ChannelOK, BranchOK
  <1> QED BY <1>1, RecordOutside

LEMMA EnvironmentRecord ==
    ASSUME Inv, RecordInv,
           \/ ChangeChannel
           \/ \E i \in 1..MaxHead : BuildStep(i) \/ GoLive(i)
           \/ \E d \in 1..MaxDispatch : ManualBuildStep(d)
    PROVE  RecordInv'
  <1>1. Inv'
    BY ChangeChannelInv, BuildStepInv, GoLiveInv, ManualBuildStepInv
  <1>2. UNCHANGED <<workspace, approval, pub, call, branch, wire>>
    BY DEF ChangeChannel, BuildStep, GoLive, ManualBuildStep
  <1>3. OuterOK
    BY <1>1, <1>2 DEF Inv, TypeOK, OuterOK, ProductionHead
  <1>4. live' \in released' /\ released \subseteq released'
    BY DEF ChangeChannel, BuildStep, GoLive, ManualBuildStep, RecordInv
  <1>5. UNCHANGED channel \/ "channel" \in Events
    BY DEF ChangeChannel, BuildStep, GoLive, ManualBuildStep
  <1> QED BY <1>2, <1>3, <1>4, <1>5, RecordAside

LEMMA CrashRecord ==
    ASSUME Inv, RecordInv, NEW c \in Callers, Crash(c) PROVE RecordInv'
  <1>1. /\ call' = [call EXCEPT ![c] = Idle] /\ call \in [Callers -> Call]
        /\ UNCHANGED <<workspace, approval, pub, channel, branch, live, released>>
        /\ \A m \in wire' : \E n \in wire : m[1] = n[1]
    BY DEF Crash, Inv, TypeOK
  <1>2. OuterOK
    <2>1. Inv'
      BY CrashInv
    <2> QED BY <1>1, <2>1 DEF Crash, Inv, TypeOK, OuterOK, ProductionHead
  <1>3. /\ ChannelOK' /\ BasesOK' /\ BranchOK'
        /\ live' \in released' /\ released' = released
    BY <1>1, BasesUnchanged DEF RecordInv, ChannelOK, BranchOK
  <1>4. \A d \in Callers : call'[d] = call[d] \/ call'[d] = Idle
    BY <1>1
  <1> QED BY <1>1, <1>2, <1>3, <1>4, RecordOutside

\* A row is later than itself a moment ago.
LEMMA LaterStill ==
    ASSUME NEW row \in Row, NEW old, NEW new, old = Later(row, old), new = Later(old, new)
    PROVE  new = Later(row, new)
  BY DEF Later, Row

\* The clock changes what a row says of time alone.
LEMMA Tick ==
    ASSUME Inv, NEW p \in Pubs, LeaseExpires(p) \/ TimePasses(p)
    PROVE  /\ \A q \in Pubs \ {p} : pub'[q] = pub[q]
           /\ pub'[p] = Later(pub[p], pub'[p]) /\ pub'[p] \in Row
           /\ pub[p].age <= pub'[p].age /\ (pub'[p].leased => pub[p].leased)
           /\ pub'[p].age = 2 /\ pub'[p].leased => pub[p].age = 2
           /\ \A q \in Pubs :
                /\ pub'[q].status = pub[q].status /\ pub'[q].detail = pub[q].detail
                /\ pub'[q].approval = pub[q].approval
                /\ pub'[q].expectedHead = pub[q].expectedHead
                /\ pub'[q].commitSha = pub[q].commitSha
                /\ pub'[q].deploymentId = pub[q].deploymentId
                /\ pub'[q].dispatched = pub[q].dispatched
                /\ pub'[q].lease = pub[q].lease
  <1>1. pub \in [Pubs -> Row] /\ pub[p] \in Row
    BY DEF Inv, TypeOK
  <1>2. ASSUME NEW old \in Row, NEW new,
               \/ new = [old EXCEPT !.leased = FALSE]
               \/ /\ new = [old EXCEPT !.age = old.age + 1]
                  /\ old.age < 2 /\ (old.age = 1 => ~old.leased)
        PROVE  /\ new = Later(old, new) /\ new \in Row
               /\ old.age <= new.age /\ (new.leased => old.leased)
               /\ new.age = 2 /\ new.leased => old.age = 2
               /\ new.status = old.status /\ new.detail = old.detail
               /\ new.approval = old.approval /\ new.expectedHead = old.expectedHead
               /\ new.commitSha = old.commitSha /\ new.dispatched = old.dispatched
               /\ new.deploymentId = old.deploymentId /\ new.lease = old.lease
    <2>1. old.age \in 0..2 /\ old.leased \in BOOLEAN
      BY DEF Row
    <2>2. /\ new.status = old.status /\ new.detail = old.detail
          /\ new.approval = old.approval /\ new.expectedHead = old.expectedHead
          /\ new.commitSha = old.commitSha /\ new.dispatched = old.dispatched
          /\ new.deploymentId = old.deploymentId /\ new.lease = old.lease
      BY <1>2 DEF Row
    <2>3. \/ new.age = old.age /\ new.leased = FALSE
          \/ /\ new.age = old.age + 1 /\ new.leased = old.leased
             /\ old.age < 2 /\ (old.age = 1 => ~old.leased)
      BY <1>2 DEF Row
    <2>4. new \in Row
      <3>1. old.age < 2 => old.age + 1 \in 0..2
        BY <2>1
      <3> QED BY <1>2, <3>1 DEF Row
    <2>5. new = Later(old, new)
      BY <1>2, <2>3 DEF Row, Later
    <2>6. old.age <= new.age /\ (new.leased => old.leased)
          /\ (new.age = 2 /\ new.leased => old.age = 2)
      BY <2>1, <2>3
    <2> QED BY <2>2, <2>4, <2>5, <2>6
  <1>3. \/ pub' = [pub EXCEPT ![p] = [pub[p] EXCEPT !.leased = FALSE]]
        \/ /\ pub' = [pub EXCEPT ![p] = [pub[p] EXCEPT !.age = pub[p].age + 1]]
           /\ pub[p].age < 2 /\ (pub[p].age = 1 => ~pub[p].leased)
    BY <1>1 DEF LeaseExpires, TimePasses
  <1>4. /\ \A q \in Pubs \ {p} : pub'[q] = pub[q]
        /\ \/ pub'[p] = [pub[p] EXCEPT !.leased = FALSE]
           \/ /\ pub'[p] = [pub[p] EXCEPT !.age = pub[p].age + 1]
              /\ pub[p].age < 2 /\ (pub[p].age = 1 => ~pub[p].leased)
    BY <1>1, <1>3
  <1> QED BY <1>1, <1>2, <1>4

LEMMA ClockRecord ==
    ASSUME Inv, RecordInv, NEW p \in Pubs, LeaseExpires(p) \/ TimePasses(p)
    PROVE  RecordInv'
  <1>1. /\ UNCHANGED <<workspace, approval, call, branch, wire, live, released, channel>>
        /\ pub \in [Pubs -> Row] /\ Len(branch) \in Nat
    BY DEF LeaseExpires, TimePasses, external, Inv, TypeOK
  <1>2. BasesOK' /\ BranchOK' /\ ChannelOK' /\ live' \in released'
    <2>1. \A i \in 1..Len(branch) : branch[i] # None => branch[i] \in Pubs
      BY DEF Inv, TypeOK
    <2>2. \A m \in wire : m[1] \in Pubs
      BY DEF Inv, TypeOK
    <2> QED BY <1>1, <2>1, <2>2, Tick DEF RecordInv, BasesOK, BaseOf, BranchOK, ChannelOK
  <1>3. RecordsOK'
    <2> SUFFICES ASSUME NEW q \in Pubs
                 PROVE  /\ RowShape(pub'[q]) /\ Clocked(pub'[q])
                        /\ OwnCommit(pub'[q], q, branch) /\ Served(pub'[q], released)
      BY <1>1 DEF RecordsOK
    <2>1. /\ RowShape(pub[q]) /\ Clocked(pub[q])
          /\ OwnCommit(pub[q], q, branch) /\ Served(pub[q], released)
      BY DEF RecordInv, RecordsOK
    <2>2. RowShape(pub'[q]) /\ OwnCommit(pub'[q], q, branch) /\ Served(pub'[q], released)
      BY <2>1, Tick DEF RowShape, OwnCommit, Served
    <2>3. pub'[q].leased /\ pub'[q].age = 2 => pub[q].leased /\ pub[q].age = 2
      BY Tick
    <2>4. Clocked(pub'[q])
      BY <2>1, <2>3, Tick DEF Clocked
    <2> QED BY <2>2, <2>4
  <1>4. ASSUME NEW c \in Callers
        PROVE  KnownOK(call[c], pub', branch, released) /\ CopyOK(call[c], pub')
    <2>1. /\ call[c] \in Call /\ call[c].row \in Row
          /\ KnownOK(call[c], pub, branch, released) /\ CopyOK(call[c], pub)
          /\ HandlerOK(call[c], approval, pub, branch)
      BY CallerFacts, RowKnown
    <2>2. KnownOK(call[c], pub', branch, released)
      <3>1. call[c].pc \in RowSteps => call[c].pub \in Pubs
        BY <2>1 DEF HandlerOK
      <3>2. call[c].pc \in RowSteps =>
              /\ pub'[call[c].pub].approval = pub[call[c].pub].approval
              /\ pub'[call[c].pub].expectedHead = pub[call[c].pub].expectedHead
        BY <3>1, Tick
      <3> QED BY <1>1, <2>1, <3>2, KnownStable
    <2>a. CASE call[c].pc \notin RowSteps
      <3>1. CopyOK(call[c], pub')
        BY <2>a DEF CopyOK, CopySteps, RowSteps, PCs, dispatchSteps
      <3> QED BY <2>2, <3>1
    <2>4. CASE call[c].pc \in RowSteps /\ call[c].pub # p
      <3>1. pub'[call[c].pub] = pub[call[c].pub]
        BY <2>1, <2>4, Tick DEF HandlerOK
      <3>2. CopyOK(call[c], pub')
        BY <2>1, <3>1 DEF CopyOK
      <3> QED BY <2>2, <3>2
    <2>5. CASE call[c].pc \in RowSteps /\ call[c].pub = p
      <3> DEFINE row == call[c].row
                 new == pub'[p]
      <3>1. /\ new = Later(pub[p], new) /\ pub[p].age <= new.age
            /\ (new.leased => pub[p].leased) /\ new.status = pub[p].status
            /\ new.detail = pub[p].detail /\ new.deploymentId = pub[p].deploymentId
            /\ new.dispatched = pub[p].dispatched
            /\ row.age \in 0..2 /\ pub[p].age \in 0..2 /\ new.age \in 0..2
        BY <1>1, <2>1, Tick DEF Row
      <3>2. Fence(new) <=> Fence(pub[p])
        BY <3>1 DEF Fence
      <3>3. pub[p] = Later(row, pub[p]) => new = Later(row, new)
        BY <2>1, <3>1, LaterStill
      <3> HIDE DEF new
      <3>4. row.age <= pub[p].age => row.age <= new.age
        BY <3>1
      <3>5. CopyOK(call[c], pub')
        BY <2>1, <2>5, <3>1, <3>2, <3>3, <3>4 DEF CopyOK, new
      <3> QED BY <2>2, <3>5
    <2> QED BY <2>a, <2>4, <2>5
  <1> QED BY <1>1, <1>2, <1>3, <1>4 DEF RecordInv

LEMMA CallerStepRecord ==
    ASSUME Inv, RecordInv, NEW c \in Callers, CallerStep(c) PROVE RecordInv'
  BY RefreshChannelVetoRecord, RefreshDispatchingRecord, RefreshReconcileRecord,
     RefreshAmbiguousDispatchRecord, RefreshDeploymentRecord, WriteRowRecord,
     PublishPreflightRecord, ClaimPublicationRecord, PublishGuardRecord,
     PublishRecheckRecord, CreateCommitCheckRecord, CreateCommitPostRecord,
     RevokeApprovalRecord, SettleCommitRecord, RetryReconcileRecord,
     ClaimFailedPublicationRetryRecord, RetryLiveRecord, RetryHeadRecord,
     DispatchClaimRecord, DispatchCheckRecord, AssertDispatchRecord,
     DispatchBuildRecord, BuildAnswerRecord, SettleBuildRecord
     DEF CallerStep, RefreshStep

LEMMA NextRecord == Inv /\ RecordInv /\ [Next]_vars => RecordInv'
  <1> SUFFICES ASSUME Inv, RecordInv, [Next]_vars PROVE RecordInv'
    OBVIOUS
  <1>1. CASE \E c \in Callers : CallerStep(c)
    BY <1>1, CallerStepRecord
  <1>2. CASE Request
    BY <1>2, OpenWorkspaceRecord, SaveRevisionRecord, ApproveRecord, PublishRecord,
       RefreshRecord, RetryDeploymentRecord DEF Request
  <1>3. CASE GitHubStep
    BY <1>3, GitHubCommitsRecord, GitHubRefusesRecord DEF GitHubStep
  <1>4. CASE Environment
    BY <1>4, CrashRecord, RefreshAbandonedRecord, RequestTimesOutRecord,
       ExternalCommitRecord, EnvironmentRecord DEF Environment
  <1>5. CASE Clock
    BY <1>5, ClockRecord DEF Clock
  <1>6. CASE UNCHANGED vars
    <2>1. OuterOK
      BY <1>6, Quiet DEF vars, external
    <2>2. live' \in released' /\ released \subseteq released'
      BY <1>6 DEF vars, RecordInv
    <2> QED BY <1>6, <2>1, <2>2, RecordAside DEF vars
  <1> QED BY <1>1, <1>2, <1>3, <1>4, <1>5, <1>6 DEF Next

\* The records stay in order in every reachable state.
THEOREM RecordInvariant == Spec => [](Inv /\ RecordInv)
  BY InitInv, InitRecord, NextInv, NextRecord, PTL DEF Spec

\* verified-live is said only of a commit the public site has served.
THEOREM VerifiedIsServed == Spec => []VerifiedWasServed
  <1>1. RecordInv => VerifiedWasServed
    BY DEF RecordInv, RecordsOK, Served, VerifiedWasServed
  <1> QED BY <1>1, RecordInvariant, PTL

\* One approval moves production at most once, on top of the very commit it
\* approved.
THEOREM CommitIsExact == Spec => []OneExactCommit
  <1>1. ASSUME Inv, RecordInv PROVE OneExactCommit
    <2>1. \A p \in Pubs : pub[p].status # "absent" =>
             pub[p].expectedHead = BaseOf(pub[p].approval)
      BY <1>1 DEF RecordInv, BasesOK
    <2>2. ASSUME NEW i \in 1..Len(branch), branch[i] # None
          PROVE  branch[i] \in Pubs /\ i = BaseOf(pub[branch[i]].approval) + 1
      <3>1. branch[i] \in Pubs
        BY <1>1, <2>2 DEF Inv, TypeOK
      <3> QED BY <1>1, <2>1, <2>2, <3>1 DEF RecordInv, BranchOK
    <2>3. ASSUME NEW p \in Pubs, pub[p].commitSha # 0
          PROVE  /\ pub[p].commitSha \in CommitsOf(p)
                 /\ pub[p].commitSha = BaseOf(pub[p].approval) + 1
      <3>1. pub[p].commitSha \in 1..Len(branch) /\ branch[pub[p].commitSha] = p /\ p # None
        BY <1>1, <2>3, ConstantsAssumption DEF RecordInv, RecordsOK, OwnCommit
      <3> QED BY <2>2, <3>1 DEF CommitsOf, ProductionHead
    <2> QED BY <2>2, <2>3 DEF OneExactCommit, ProductionHead
  <1> QED BY <1>1, RecordInvariant, PTL

-----------------------------------------------------------------------------
(* Requests on the wire, and what may have landed.  As long as no answer     *)
(* comes later than its caller waits, a request on the wire has its lease.   *)

Sent(p, requests) == \E m \in requests : m[1] = p

RevisionCurrent(row) ==
    approval[row.approval].revision = workspace[WorkspaceOf(row)].revision

\* A request on the wire is about a publication claimed under a lease, whose
\* revision is the workspace's, and its caller waits unless it died.
RequestOK(m) ==
    /\ pub[m[1]].status = "requested" /\ pub[m[1]].leased
    /\ RevisionCurrent(pub[m[1]])
    /\ m[2] # None => call[m[2]].pc = "wait" /\ call[m[2]].pub = m[1]

\* A handler that commits under its own lease has one request out at most, and
\* a refresh does not take a lease over.
LeaseOK(c, k, pubs, requests) ==
    /\ k.pc \in commitSteps /\ pubs[k.pub].lease = c =>
         /\ k.pc # "wait" => ~Sent(k.pub, requests)
         /\ pubs[k.pub].detail # "deployment_retry_dispatching"
    /\ k.pc = "wait" => <<k.pub, c>> \in requests
    /\ k.pc = "write" /\ k.fresh => k.row.lease \in {None, pubs[k.pub].lease}

WireOK ==
    /\ \A m \in wire : RequestOK(m)
    /\ \A m, n \in wire : m[1] = n[1] => m = n
    /\ \A c \in Callers : LeaseOK(c, call[c], pub, wire)

\* Nobody has told the handler that its commit may have landed.
Untold(k) == k.pc = "settle" => k.reply \notin {"committed", "ambiguous"}

\* The handler may still record that nothing has landed.
Denies(c, k, row) ==
    \/ /\ k.pc \in commitSteps /\ row.lease = c /\ row.status = "requested"
       /\ Untold(k)
    \/ k.pc = "retryClaim" /\ k.fresh

Accounted(row) ==
    \/ row.commitSha # 0
    \/ row.status \in {"requested", "unknown"}
    \/ row.status = "failed" /\ contentPublicationHasUnresolvedGitOutcome(row)

\* What has landed is accounted for, is not asked for, and nobody will deny it.
LandingOK ==
    \A p \in Pubs : Landed(p) =>
        /\ Accounted(pub[p]) /\ ~Sent(p, wire)
        /\ \A c \in Callers : call[c].pub = p => ~Denies(c, call[c], pub[p])

LandInv == "late" \notin Events =>
              WireOK /\ ("channel" \notin Events => LandingOK)

-----------------------------------------------------------------------------
(* What every step keeps *)

LEMMA InitLand == Init => LandInv
  <1> SUFFICES ASSUME Init PROVE WireOK /\ LandingOK
    BY DEF LandInv
  <1>1. \A c \in Callers : call[c] = Idle
    BY DEF Init
  <1>2. WireOK
    BY <1>1 DEF Init, WireOK, LeaseOK, Idle, commitSteps
  <1>3. LandingOK
    BY DEF Init, LandingOK, Landed, CommitsOf, ProductionHead
  <1> QED BY <1>2, <1>3

\* Requests survive steps that write no row they are about.
LEMMA RequestsKept ==
    ASSUME Inv, RecordInv, WireOK, ApprovalMove, UNCHANGED workspace,
           \A m \in wire : pub'[m[1]] = pub[m[1]],
           \A c \in Callers : call[c].pc = "wait" => call'[c].pc = "wait"
                                                     /\ call'[c].pub = call[c].pub
    PROVE  \A m \in wire : RequestOK(m)'
  <1> SUFFICES ASSUME NEW m \in wire PROVE RequestOK(m)'
    OBVIOUS
  <1>1. /\ m[1] \in Pubs /\ m[2] \in Callers \cup {None} /\ RequestOK(m)
    BY DEF WireOK, Inv, TypeOK
  <1>2. pub[m[1]].status # "absent" /\ pub[m[1]].approval \in Approvals
    BY <1>1 DEF RequestOK, Inv, RowsOK, RowOK, Made
  <1>3. RevisionCurrent(pub[m[1]])'
    BY <1>1, <1>2, ApprovalKept DEF RequestOK, RevisionCurrent, WorkspaceOf
  <1> QED BY <1>1, <1>3 DEF RequestOK

LEMMA WireMove ==
    ASSUME Inv, RecordInv, WireOK, NEW c \in Callers, NEW k \in Call, Goto(c, k),
           ApprovalMove, UNCHANGED <<workspace, wire>>,
           call[c].pc # "wait", LeaseOK(c, k, pub, wire)
    PROVE  WireOK'
  <1>1. pub' = pub /\ call' = [call EXCEPT ![c] = k] /\ call \in [Callers -> Call]
    BY DEF Goto, Inv, TypeOK
  <1>2. \A m \in wire : RequestOK(m)'
    BY <1>1, RequestsKept
  <1>3. \A d \in Callers : LeaseOK(d, call'[d], pub', wire')
    BY <1>1 DEF WireOK
  <1> QED BY <1>1, <1>2, <1>3 DEF WireOK

LEMMA LandMove ==
    ASSUME Inv, LandingOK, NEW c \in Callers, NEW k \in Call, Goto(c, k),
           UNCHANGED <<branch, wire>>,
           k.pub \in Pubs /\ Denies(c, k, pub[k.pub]) => ~Landed(k.pub)
    PROVE  LandingOK'
  <1>1. pub' = pub /\ call' = [call EXCEPT ![c] = k] /\ call \in [Callers -> Call]
    BY DEF Goto, Inv, TypeOK
  <1>2. \A p : Landed(p)' <=> Landed(p)
    BY DEF Landed, CommitsOf, ProductionHead
  <1> QED BY <1>1, <1>2 DEF LandingOK

LEMMA WireStore ==
    ASSUME Inv, RecordInv, WireOK, NEW c \in Callers, NEW p \in Pubs, NEW row \in Row,
           NEW k \in Call, Store(c, p, row, k), ApprovalMove,
           UNCHANGED <<workspace, wire>>, call[c].pc # "wait", ~Sent(p, wire),
           \/ row.lease \in {None, c}
           \/ row.lease = pub[p].lease /\ row.detail # "deployment_retry_dispatching",
           k.pc \in commitSteps =>
              k.pc # "wait" /\ k.pub = p /\ row.detail # "deployment_retry_dispatching",
           k.pc # "write"
    PROVE  WireOK'
  <1> DEFINE stored == [pub EXCEPT ![p] = row]
  <1>1. /\ pub' = stored /\ pub \in [Pubs -> Row]
        /\ call' = [d \in Callers |->
                      IF d = c THEN k
                      ELSE IF call[d].pub = p THEN [call[d] EXCEPT !.fresh = FALSE]
                      ELSE call[d]]
        /\ call \in [Callers -> Call]
    BY DEF Store, Inv, TypeOK
  <1>2. stored[p] = row /\ \A q : q # p => stored[q] = pub[q]
    BY <1>1
  <1> HIDE DEF stored
  <1>3. \A d \in Callers \ {c} : /\ call'[d].pc = call[d].pc /\ call'[d].pub = call[d].pub
                                 /\ call'[d].row = call[d].row
                                 /\ call'[d].fresh => call[d].fresh /\ call[d].pub # p
    BY <1>1 DEF Call
  <1>4. \A m \in wire : RequestOK(m)'
    <2>1. \A m \in wire : pub'[m[1]] = pub[m[1]]
      BY <1>1, <1>2 DEF Sent
    <2>2. \A d \in Callers : call[d].pc = "wait" => call'[d].pc = "wait"
                                                    /\ call'[d].pub = call[d].pub
      BY <1>3
    <2> QED BY <2>1, <2>2, RequestsKept
  <1>5. LeaseOK(c, k, stored, wire)
    BY <1>2, Words DEF LeaseOK, commitSteps
  <1>6. ASSUME NEW d \in Callers \ {c} PROVE LeaseOK(d, call'[d], stored, wire)
    <2>1. LeaseOK(d, call[d], pub, wire)
      BY DEF WireOK
    <2>2. CASE call[d].pub = p
      <3>1. row.lease = d => pub[p].lease = d /\ row.detail # "deployment_retry_dispatching"
        BY ConstantsAssumption
      <3> QED BY <1>2, <1>3, <2>1, <2>2, <3>1 DEF LeaseOK
    <2>3. CASE call[d].pub # p
      BY <1>2, <1>3, <2>1, <2>3 DEF LeaseOK
    <2> QED BY <2>2, <2>3
  <1> QED BY <1>1, <1>4, <1>5, <1>6 DEF WireOK

LEMMA LandStore ==
    ASSUME Inv, LandingOK, NEW c \in Callers, NEW p \in Pubs, NEW row \in Row,
           NEW k \in Call, Store(c, p, row, k), UNCHANGED <<branch, wire>>,
           Landed(p) => Accounted(row) /\ ~Denies(c, k, row),
           k.pc \in commitSteps \cup {"retryClaim"} => k.pub = p,
           row.status = "requested" => row.lease = c
    PROVE  LandingOK'
  <1> DEFINE stored == [pub EXCEPT ![p] = row]
  <1>1. /\ pub' = stored /\ pub \in [Pubs -> Row]
        /\ call' = [d \in Callers |->
                      IF d = c THEN k
                      ELSE IF call[d].pub = p THEN [call[d] EXCEPT !.fresh = FALSE]
                      ELSE call[d]]
        /\ call \in [Callers -> Call]
    BY DEF Store, Inv, TypeOK
  <1>2. stored[p] = row /\ \A q : q # p => stored[q] = pub[q]
    BY <1>1
  <1> HIDE DEF stored
  <1>3. \A d \in Callers \ {c} : /\ call'[d].pc = call[d].pc /\ call'[d].pub = call[d].pub
                                 /\ call'[d].reply = call[d].reply
                                 /\ call'[d].fresh => call[d].fresh /\ call[d].pub # p
    BY <1>1 DEF Call
  <1>4. \A q : Landed(q)' <=> Landed(q)
    BY DEF Landed, CommitsOf, ProductionHead
  <1> SUFFICES ASSUME NEW q \in Pubs, Landed(q)
               PROVE  /\ Accounted(stored[q]) /\ ~Sent(q, wire)
                      /\ \A d \in Callers : call'[d].pub = q =>
                                              ~Denies(d, call'[d], stored[q])
    BY <1>1, <1>4 DEF LandingOK
  <1>5. /\ Accounted(pub[q]) /\ ~Sent(q, wire)
        /\ \A d \in Callers : call[d].pub = q => ~Denies(d, call[d], pub[q])
    BY DEF LandingOK
  <1>6. ASSUME NEW d \in Callers, call'[d].pub = q PROVE ~Denies(d, call'[d], stored[q])
    <2>1. CASE d = c
      <3>1. call'[d] = k
        BY <1>1, <2>1
      <3>2. CASE q = p
        BY <1>2, <2>1, <3>1, <3>2
      <3>3. CASE q # p
        BY <1>6, <2>1, <3>1, <3>3 DEF Denies
      <3> QED BY <3>2, <3>3
    <2>2. CASE d # c /\ q = p
      BY <1>2, <1>3, <1>6, <2>2 DEF Denies, Untold
    <2>3. CASE d # c /\ q # p
      BY <1>2, <1>3, <1>5, <1>6, <2>3 DEF Denies, Untold
    <2> QED BY <2>1, <2>2, <2>3
  <1> QED BY <1>2, <1>5, <1>6

-----------------------------------------------------------------------------
(* Handlers that neither commit nor write *)

\* Where a handler may go without anything to be said about its commit.
Aside == PCs \ (commitSteps \cup {"write", "retryClaim"})

LEMMA LandAside ==
    ASSUME Inv, RecordInv, LandInv, NEW c \in Callers, NEW k \in Call, Goto(c, k),
           call[c].pc # "wait", k.pc \in Aside, ApprovalMove,
           UNCHANGED <<workspace, branch, wire>>
    PROVE  LandInv'
  <1>1. LeaseOK(c, k, pub, wire) /\ ~Denies(c, k, pub[k.pub])
    BY DEF LeaseOK, Denies, Aside, commitSteps
  <1> QED BY <1>1, WireMove, LandMove DEF LandInv

\* A handler that goes on to write what it made of its copy.
LEMMA LandToWrite ==
    ASSUME Inv, RecordInv, LandInv, NEW c \in Callers, NEW k \in Call, Goto(c, k),
           call[c].pc \in CopySteps, k.pc = "write", k.pub = call[c].pub,
           k.fresh => call[c].fresh, k.row.lease \in {None, call[c].row.lease},
           ApprovalMove, UNCHANGED <<workspace, branch, wire>>
    PROVE  LandInv'
  <1>1. call[c].pc # "wait"
    BY DEF CopySteps, dispatchSteps
  <1>2. k.fresh => pub[k.pub].lease = call[c].row.lease
    BY CopyFacts
  <1>3. LeaseOK(c, k, pub, wire) /\ ~Denies(c, k, pub[k.pub])
    BY <1>2 DEF LeaseOK, Denies, commitSteps
  <1> QED BY <1>1, <1>3, WireMove, LandMove DEF LandInv

-----------------------------------------------------------------------------
(* The shapes most steps of a handler have *)

Quietly == ApprovalMove /\ UNCHANGED <<workspace, external>>

\* It ends, or goes on to where it neither commits, writes nor dispatches.
Restful == {"idle", "refresh", "preflight", "claim", "reconcile", "retryLive"}
Rests(c) == \E k \in Call : /\ Goto(c, k) /\ call[c].pc # "wait" /\ k.pc \in Restful
                            /\ Quietly

\* It goes on to write what it made of its copy.
Rewrites(c) ==
    \E k \in Call : /\ Goto(c, k) /\ call[c].pc \in {"refresh", "reconcile", "retryLive"}
                    /\ k.pc = "write" /\ k.pub = call[c].pub
                    /\ k.fresh = call[c].fresh /\ k.retry = call[c].retry
                    /\ k.row.lease \in {None, call[c].row.lease} /\ Quietly

\* It goes on to commit, or is answered, before its request or after.
Proceeds(c) ==
    \E k \in Call : /\ Goto(c, k) /\ {call[c].pc, k.pc} \subseteq commitSteps \ {"wait"}
                    /\ k.pub = call[c].pub
                    /\ Untold(k) => Untold(call[c])
                    /\ Quietly

LEMMA IdleRests ==
    ASSUME NEW c \in Callers, Goto(c, Idle), call[c].pc # "wait", Quietly
    PROVE  Rests(c)
  BY IdleOK DEF Rests, Restful, Idle

LEMMA UnchangedShape ==
    ASSUME Inv, NEW c \in Callers, Unchanged(c), call[c].pc = "refresh",
           UNCHANGED <<workspace, approval, external>>
    PROVE  Rests(c)
  <1>1. AfterRefresh(call[c]) \in Call
        /\ AfterRefresh(call[c]).pc \in {"idle", "preflight"}
    BY CallerFacts, AfterRefreshOK DEF AfterRefresh, Idle
  <1> QED BY <1>1 DEF Unchanged, Rests, Restful, Quietly, ApprovalMove

\* The invariant of the next step types the handler it leaves.
LEMMA Typed ==
    ASSUME Inv, Inv', NEW c \in Callers, NEW k, Goto(c, k) PROVE k \in Call
  BY DEF Goto, Inv, TypeOK

LEMMA RefreshedShape ==
    ASSUME Inv, Inv', NEW c \in Callers, NEW new, NEW resume, Refreshed(c, new, resume),
           call[c].pc = "refresh", new.lease \in {None, call[c].row.lease},
           UNCHANGED <<workspace, approval, external>>
    PROVE  Rewrites(c)
  <1> DEFINE k == [call[c] EXCEPT !.pc = "write", !.row = new, !.resume = resume]
  <1>1. Goto(c, k)
    BY DEF Refreshed
  <1>2. k.pc = "write" /\ k.pub = call[c].pub /\ k.fresh = call[c].fresh
        /\ k.retry = call[c].retry /\ k.row = new
    BY CallerFacts DEF Call
  <1>3. k \in Call
    BY <1>1, Typed
  <1> QED BY <1>1, <1>2, <1>3 DEF Rewrites, Quietly, ApprovalMove

\* A refresh, or an end to it.
LEMMA RefreshShape ==
    ASSUME Inv, Inv', NEW c \in Callers, RefreshStep(c) \/ RefreshAbandoned(c)
    PROVE  Rests(c) \/ Rewrites(c)
  <1> DEFINE row == call[c].row
  <1>1. call[c].pc = "refresh" /\ UNCHANGED <<workspace, approval, external>>
    BY DEF RefreshStep, RefreshAbandoned, RefreshChannelVeto, RefreshDispatching,
           RefreshReconcile, RefreshAmbiguousDispatch, RefreshDeployment
  <1>2. row \in Row
    BY CallerFacts
  <1>3. ASSUME NEW seen, ChannelFailure(c, row, seen) PROVE Rests(c) \/ Rewrites(c)
    <2>1. \/ Unchanged(c)
          \/ \E d : Refreshed(c, With(row, "failed", d), "end")
      BY <1>3 DEF ChannelFailure, With
    <2>2. \A d : With(row, "failed", d).lease = row.lease
      BY <1>2 DEF With, Row
    <2> QED BY <1>1, <2>1, <2>2, UnchangedShape, RefreshedShape
  <1>4. CASE RefreshChannelVeto(c)
    BY <1>3, <1>4 DEF RefreshChannelVeto
  <1>5. CASE RefreshDispatching(c)
    <2> DEFINE new == [row EXCEPT !.status = "unknown", !.deploymentId = NoBuild,
                                  !.detail = "deployment_retry_result_unknown"]
    <2>1. Unchanged(c) \/ Refreshed(c, new, "end")
      BY <1>5 DEF RefreshDispatching
    <2>2. new.lease = row.lease
      BY <1>2 DEF Row
    <2> HIDE DEF new
    <2> QED BY <1>1, <2>1, <2>2, UnchangedShape, RefreshedShape
  <1>6. CASE RefreshReconcile(c)
    <2> DEFINE freed(s, sha, d) == [row EXCEPT !.status = s, !.commitSha = sha,
                                      !.detail = d, !.lease = None, !.leased = FALSE]
               gone(d) == [row EXCEPT !.status = "failed", !.detail = d,
                                      !.lease = None, !.leased = FALSE]
    <2>1. \/ Unchanged(c)
          \/ \E seen : ChannelFailure(c, row, seen)
          \/ \E sha : Refreshed(c, freed("committed", sha, "none"), "refresh")
          \/ \E d : Refreshed(c, gone(d), "end")
      BY <1>6 DEF RefreshReconcile
    <2>2. \A s, sha, d : freed(s, sha, d).lease = None /\ gone(d).lease = None
      BY <1>2 DEF Row
    <2> HIDE DEF freed, gone
    <2> QED BY <1>1, <1>3, <2>1, <2>2, UnchangedShape, RefreshedShape
  <1>7. \A s, d : With(row, s, d).lease = row.lease
    BY <1>2 DEF With, Row
  <1>8. CASE RefreshAmbiguousDispatch(c)
    <2>1. Unchanged(c) \/ \E s, d : Refreshed(c, With(row, s, d), "end")
      BY <1>8 DEF RefreshAmbiguousDispatch, VerifiedLive, With
    <2> QED BY <1>1, <1>7, <2>1, UnchangedShape, RefreshedShape
  <1>9. CASE RefreshDeployment(c)
    <2>1. \A observed, marker : \E s, d : DeploymentOutcome(row, observed, marker)
                                            = With(row, s, d)
      BY DEF DeploymentOutcome, VerifiedLive, With
    <2>2. \/ Unchanged(c)
          \/ \E observed, marker : Refreshed(c, DeploymentOutcome(row, observed, marker),
                                             "end")
      BY <1>9 DEF RefreshDeployment
    <2>3. \A observed, marker : DeploymentOutcome(row, observed, marker).lease = row.lease
      BY <1>7, <2>1
    <2> QED BY <1>1, <2>2, <2>3, UnchangedShape, RefreshedShape
  <1>10. CASE RefreshAbandoned(c)
    BY <1>1, <1>10, UnchangedShape DEF RefreshAbandoned
  <1> QED BY <1>4, <1>5, <1>6, <1>8, <1>9, <1>10 DEF RefreshStep

\* What starts a handler.
LEMMA RequestShape ==
    ASSUME Inv, Inv', NEW c \in Callers,
           \/ \E a \in Approvals, key \in Pubs : publish(c, a, key)
           \/ \E p \in Pubs : refresh(c, p) \/ retryDeployment(c, p)
           \/ PublishPreflight(c)
    PROVE  Rests(c)
  <1>1. \E k : /\ Goto(c, k) /\ k.pc \in Restful /\ call[c].pc \in {"idle", "preflight"}
               /\ UNCHANGED <<workspace, external>>
    <2>1. ASSUME NEW a \in Approvals, NEW key \in Pubs, publish(c, a, key)
          PROVE  /\ call[c].pc = "idle" /\ UNCHANGED <<workspace, external>>
                 /\ \E k : Goto(c, k) /\ k.pc \in Restful
      <3>1. \A p : /\ Reading(c, p).pc = "refresh" /\ Preflight(c, a, key).pc = "preflight"
                   /\ [Reading(c, p) EXCEPT !.key = key, !.approval = a].pc = "refresh"
        BY DEF Reading, Preflight, Idle
      <3> QED BY <2>1, <3>1 DEF publish, Restful
    <2>2. ASSUME NEW p \in Pubs, refresh(c, p) \/ retryDeployment(c, p)
          PROVE  /\ call[c].pc = "idle" /\ UNCHANGED <<workspace, external>>
                 /\ \E k : Goto(c, k) /\ k.pc \in Restful
      <3>1. /\ Reading(c, p).pc = "refresh"
            /\ \A pc : [Reading(c, p) EXCEPT !.retry = TRUE, !.pc = pc].pc = pc
        BY DEF Reading, Idle
      <3> QED BY <2>2, <3>1 DEF refresh, retryDeployment, Restful
    <2>3. CASE PublishPreflight(c)
      <3>1. Idle.pc = "idle" /\ [call[c] EXCEPT !.pc = "claim"].pc = "claim"
        BY CallerFacts DEF Idle, Call
      <3> QED BY <2>3, <3>1 DEF PublishPreflight, Restful
    <2> QED BY <2>1, <2>2, <2>3
  <1>2. ApprovalMove
    <2>1. CASE PublishPreflight(c)
      <3>1. Made(call[c].approval, approval)
        BY <2>1, CallerFacts, ConstantsAssumption DEF PublishPreflight, HandlerOK
      <3> QED BY <2>1, <3>1 DEF PublishPreflight, ApprovalMove, Made
    <2> QED BY <2>1 DEF publish, refresh, retryDeployment, ApprovalMove
  <1> QED BY <1>1, <1>2, Typed DEF Rests, Quietly

\* A write under its lease that gives the lease up.
GivesUp(c) ==
    \E row \in Row :
        /\ call[c].pc \in commitSteps \ {"wait"} /\ HoldsLease(c, call[c].pub)
        /\ Store(c, call[c].pub, row, Idle)
        /\ row.lease = None /\ row.status # "requested"
        /\ Untold(call[c]) \/ Accounted(row)
        /\ row.deploymentId = call[c].row.deploymentId /\ Quietly

LEMMA LeasedShape ==
    ASSUME Inv, NEW c \in Callers, call[c].pc \in commitSteps \ {"wait"}, NEW valid,
           NEW new \in Row, UpdateLeased(c, call[c].pub, valid, new),
           new.status # "requested", Untold(call[c]) \/ Accounted(new),
           new.deploymentId = call[c].row.deploymentId, Quietly
    PROVE  Rests(c) \/ GivesUp(c)
  <1> DEFINE p == call[c].pub
             freed == [new EXCEPT !.lease = None, !.leased = FALSE]
             row == Timed(p, freed)
  <1>1. CASE /\ HoldsLease(c, p) /\ (valid => pub[p].leased)
             /\ UpdatePermitted(pub[p], new)
    <2>1. Store(c, p, row, Idle)
      BY <1>1 DEF UpdateLeased
    <2>2. /\ freed \in Row /\ freed.status = new.status /\ freed.detail = new.detail
          /\ freed.commitSha = new.commitSha /\ freed.lease = None
          /\ freed.deploymentId = new.deploymentId
      BY DEF Row
    <2> HIDE DEF freed
    <2>3. call[c].pc \in RowSteps
      BY DEF RowSteps, PCs, commitSteps
    <2>4. /\ row \in Row /\ row.status = new.status /\ row.detail = new.detail
          /\ row.commitSha = new.commitSha /\ row.lease = None
          /\ row.deploymentId = new.deploymentId
      BY <2>2, <2>3, RowStepFacts, TimedRecord
    <2> HIDE DEF row
    <2>5. Accounted(new) => Accounted(row)
      BY <2>4 DEF Accounted, contentPublicationHasUnresolvedGitOutcome
    <2> QED BY <1>1, <2>1, <2>4, <2>5 DEF GivesUp
  <1>2. CASE ~(/\ HoldsLease(c, p) /\ (valid => pub[p].leased)
               /\ UpdatePermitted(pub[p], new))
    BY <1>2, IdleRests DEF UpdateLeased
  <1> QED BY <1>1, <1>2

\* A handler past its claim, and what it does to its approval.
LEMMA CommitFacts ==
    ASSUME Inv, RecordInv, NEW c \in Callers, call[c].pc \in commitSteps
    PROVE  /\ call[c].pc \in RowSteps /\ call[c].pub \in Pubs /\ call[c] \in Call
           /\ call[c].row \in Row /\ call[c].row.commitSha = 0
           /\ RowShape(call[c].row) /\ call[c].row.approval \in Approvals
           /\ Made(call[c].row.approval, approval)
  <1>1. call[c].pc \in RowSteps /\ call[c].pc \in CommitUnknown
    BY DEF RowSteps, PCs, commitSteps, CommitUnknown
  <1> QED BY <1>1, CommitRow, RowStepFacts, CallerFacts DEF Made

LEMMA AnsweredProceeds ==
    ASSUME Inv, Inv', NEW c \in Callers, NEW r, Answered(c, r), Quietly,
           call[c].pc \in commitSteps \ {"wait"}, Untold(call[c])
    PROVE  Proceeds(c)
  <1> DEFINE k == [call[c] EXCEPT !.pc = "settle", !.reply = r]
  <1>1. k.pc = "settle" /\ k.pub = call[c].pub
    BY CallerFacts DEF Call
  <1>2. k \in Call
    BY Typed DEF Answered
  <1>3. {call[c].pc, k.pc} \subseteq commitSteps \ {"wait"}
    BY <1>1 DEF commitSteps
  <1>4. Goto(c, k)
    BY DEF Answered
  <1> HIDE DEF k
  <1> QED BY <1>1, <1>2, <1>3, <1>4 DEF Proceeds

\* From its claim to its request.
LEMMA CommitShape ==
    ASSUME Inv, Inv', RecordInv, NEW c \in Callers,
           \/ PublishGuard(c) \/ PublishRecheck(c) \/ CreateCommitCheck(c)
           \/ RevokeApproval(c) \/ SettleCommit(c)
    PROVE  Rests(c) \/ Proceeds(c) \/ GivesUp(c)
  <1> DEFINE k == call[c]
             row == k.row
             To(pc) == [k EXCEPT !.pc = pc]
  <1>1. k.pc \in commitSteps \ {"wait"} /\ UNCHANGED <<workspace, external>>
    BY DEF PublishGuard, PublishRecheck, CreateCommitCheck, RevokeApproval, SettleCommit,
           commitSteps
  <1>2. k \in Call /\ row \in Row /\ row.commitSha = 0 /\ RowShape(row)
    BY <1>1, CommitFacts
  <1>3. Quietly
    <2>1. ASSUME LeaseGuardRefuses(c) PROVE ApprovalMove
      BY <1>1, <2>1, CommitFacts, Refused
    <2>2. ASSUME approval' = invalidated(row.approval) PROVE ApprovalMove
      BY <1>1, <2>2, CommitFacts DEF ApprovalMove
    <2> QED BY <1>1, <2>1, <2>2
          DEF Quietly, PublishGuard, PublishRecheck, CreateCommitCheck, RevokeApproval,
              SettleCommit, ApprovalMove
  <1>4. ASSUME NEW pc \in {"recheck", "commit", "post"}, Goto(c, To(pc)), k.pc # "settle"
        PROVE  Proceeds(c)
    <2>1. To(pc).pc = pc /\ To(pc).pub = k.pub
      BY <1>2 DEF Call
    <2>2. To(pc) \in Call
      BY <1>4, Typed
    <2>3. {k.pc, pc} \subseteq commitSteps \ {"wait"}
      BY <1>1 DEF commitSteps
    <2> HIDE DEF To
    <2> QED BY <1>3, <1>4, <2>1, <2>2, <2>3 DEF Proceeds, Untold
  <1>5. ASSUME NEW d \in {"publication_lease_lost", "approval_stale"},
               UpdateLeased(c, k.pub, FALSE, With(row, "blocked", d)), k.pc # "settle"
        PROVE  Rests(c) \/ GivesUp(c)
    <2>1. d \in Details /\ "blocked" \in Statuses
      BY Words
    <2>2. /\ With(row, "blocked", d) \in Row
          /\ With(row, "blocked", d).status = "blocked"
          /\ With(row, "blocked", d).deploymentId = row.deploymentId
      BY <1>2, <2>1 DEF With, Row
    <2> QED BY <1>1, <1>3, <1>5, <2>2, LeasedShape DEF Untold
  <1>6. CASE PublishGuard(c)
    BY <1>4, <1>5, <1>6 DEF PublishGuard, With
  <1>7. CASE PublishRecheck(c)
    BY <1>4, <1>5, <1>7 DEF PublishRecheck, With
  <1>8. CASE CreateCommitCheck(c)
    <2>1. k.pc = "commit"
      BY <1>8 DEF CreateCommitCheck
    <2>2. Goto(c, To("post")) \/ \E r : Answered(c, r)
      BY <1>8 DEF CreateCommitCheck
    <2> QED BY <1>1, <1>3, <1>4, <2>1, <2>2, AnsweredProceeds DEF Untold
  <1>9. CASE RevokeApproval(c)
    <2>1. Untold(k) /\ \E r : Answered(c, r)
      BY <1>9 DEF RevokeApproval, Untold
    <2> QED BY <1>1, <1>3, <2>1, AnsweredProceeds
  <1>10. CASE SettleCommit(c)
    <2> DEFINE new == IF k.retry THEN RetryAnswer(row, k.reply, k.pub)
                      ELSE Answer(row, k.reply, k.pub)
    <2>1. /\ k.reply \in CommitReplies \ {"moved"} /\ k.retry \in BOOLEAN
          /\ k.reply = "committed" => Landed(k.pub)
          /\ UpdateLeased(c, k.pub, TRUE, new)
      BY <1>2, <1>10, CallerFacts
         DEF SettleCommit, HandlerOK, Landed, CommitsOf, ProductionHead, Call
    <2>2. /\ new \in Row /\ new.status # "requested"
          /\ new.deploymentId = row.deploymentId
          /\ k.reply = "committed" => new.commitSha # 0
          /\ k.reply = "ambiguous" => new.status = "unknown"
      BY <1>2, <2>1, AnswerRow
    <2> HIDE DEF new
    <2>3. Untold(k) \/ Accounted(new)
      BY <2>2 DEF Untold, Accounted
    <2> QED BY <1>1, <1>3, <2>1, <2>2, <2>3, LeasedShape
  <1> QED BY <1>6, <1>7, <1>8, <1>9, <1>10

-----------------------------------------------------------------------------
(* The wire and the branch *)

LEMMA LandRests ==
    ASSUME Inv, RecordInv, LandInv, NEW c \in Callers, Rests(c) PROVE LandInv'
  <1>1. Restful \subseteq Aside
    BY DEF Restful, Aside, PCs, commitSteps
  <1> QED BY <1>1, LandAside DEF Rests, Quietly, external

LEMMA LandRewrites ==
    ASSUME Inv, RecordInv, LandInv, NEW c \in Callers, Rewrites(c) PROVE LandInv'
  <1>1. {"refresh", "reconcile", "retryLive"} \subseteq CopySteps
    BY DEF CopySteps
  <1> QED BY <1>1, LandToWrite DEF Rewrites, Quietly, external

LEMMA LandProceeds ==
    ASSUME Inv, RecordInv, LandInv, NEW c \in Callers, Proceeds(c) PROVE LandInv'
  <1> SUFFICES ASSUME "late" \notin Events, WireOK
               PROVE  WireOK' /\ (LandingOK => LandingOK')
    BY DEF LandInv
  <1>1. PICK k \in Call : /\ Goto(c, k) /\ {call[c].pc, k.pc} \subseteq commitSteps \ {"wait"}
                          /\ k.pub = call[c].pub /\ (Untold(k) => Untold(call[c]))
                          /\ Quietly
    BY DEF Proceeds
  <1>2. LeaseOK(c, k, pub, wire)
    <2>1. LeaseOK(c, call[c], pub, wire)
      BY DEF WireOK
    <2> QED BY <1>1, <2>1 DEF LeaseOK, commitSteps
  <1>3. Denies(c, k, pub[k.pub]) => Denies(c, call[c], pub[k.pub])
    BY <1>1 DEF Denies, commitSteps
  <1>4. LandingOK /\ k.pub \in Pubs /\ Denies(c, k, pub[k.pub]) => ~Landed(k.pub)
    BY <1>1, <1>3 DEF LandingOK
  <1> QED BY <1>1, <1>2, <1>4, WireMove, LandMove DEF Quietly, external

\* A handler that holds its lease on a commit holds it on a request that is
\* not on the wire.
LEMMA HeldCommit ==
    ASSUME WireOK, NEW c \in Callers, call[c].pc \in commitSteps \ {"wait"},
           HoldsLease(c, call[c].pub)
    PROVE  /\ pub[call[c].pub].status = "requested" /\ ~Sent(call[c].pub, wire)
           /\ pub[call[c].pub].lease = c
           /\ LandingOK /\ call[c].pub \in Pubs /\ Untold(call[c]) => ~Landed(call[c].pub)
  <1>1. LeaseOK(c, call[c], pub, wire)
    BY DEF WireOK
  <1>2. /\ pub[call[c].pub].status = "requested" /\ ~Sent(call[c].pub, wire)
        /\ pub[call[c].pub].lease = c
    BY <1>1 DEF LeaseOK, HoldsLease
  <1> QED BY <1>2 DEF LandingOK, Denies

LEMMA LandGivesUp ==
    ASSUME Inv, RecordInv, LandInv, NEW c \in Callers, GivesUp(c) PROVE LandInv'
  <1> SUFFICES ASSUME "late" \notin Events, WireOK
               PROVE  WireOK' /\ (LandingOK => LandingOK')
    BY DEF LandInv
  <1>1. PICK row \in Row :
          /\ call[c].pc \in commitSteps \ {"wait"} /\ HoldsLease(c, call[c].pub)
          /\ Store(c, call[c].pub, row, Idle)
          /\ row.lease = None /\ row.status # "requested"
          /\ (Untold(call[c]) \/ Accounted(row)) /\ Quietly
    BY DEF GivesUp
  <1>2. call[c].pub \in Pubs /\ ~Sent(call[c].pub, wire) /\ call[c].pc # "wait"
    BY <1>1, CommitFacts, HeldCommit
  <1>3. Idle \in Call /\ Idle.pc = "idle" /\ Idle.pc \notin commitSteps \cup {"retryClaim"}
        /\ ~Denies(c, Idle, row)
    BY IdleOK DEF Idle, commitSteps, Denies
  <1>4. LandingOK /\ Landed(call[c].pub) => Accounted(row)
    BY <1>1, <1>2, HeldCommit
  <1>5. ApprovalMove /\ UNCHANGED <<workspace, branch, wire>>
    BY <1>1 DEF Quietly, external, GivesUp
  <1> QED BY <1>1, <1>2, <1>3, <1>4, <1>5, WireStore, LandStore

-----------------------------------------------------------------------------
\* The write of a refreshed row that is won.
Written(c) ==
    \E row \in Row, k \in Call :
        /\ Store(c, call[c].pub, row, k) /\ call[c].pc = "write" /\ call[c].fresh
        /\ call[c].pub \in Pubs /\ row = Timed(call[c].pub, call[c].row)
        /\ pub[call[c].pub].status = ExpectedStatus(c)
        /\ UpdatePermitted(pub[call[c].pub], call[c].row)
        /\ k.pc \in Restful /\ Quietly

LEMMA WriteShape ==
    ASSUME Inv, Inv', NEW c \in Callers, WriteRow(c) PROVE Rests(c) \/ Written(c)
  <1> DEFINE k == call[c]
             p == k.pub
             row == Timed(p, k.row)
  <1>1. /\ k.pc = "write" /\ Quietly /\ k.pc \in RowSteps
        /\ UpdateFresh(c, p, ExpectedStatus(c), k.row, AfterWrite(c, TRUE),
                       AfterWrite(c, FALSE))
    BY DEF WriteRow, Quietly, ApprovalMove, RowSteps, PCs
  <1>2. p \in Pubs /\ row \in Row
    BY <1>1, RowStepFacts, TimedRecord
  <1>3. AfterWrite(c, TRUE).pc \in Restful /\ AfterWrite(c, FALSE).pc \in Restful
    <2>1. AfterRefresh(k).pc \in Restful
      BY CallerFacts DEF AfterRefresh, Idle, Restful
    <2>2. /\ [k EXCEPT !.pc = "refresh", !.resume = "end"].pc = "refresh"
          /\ \A r : [k EXCEPT !.pc = "retryLive", !.resume = "end", !.fresh = TRUE,
                              !.row = r].pc = "retryLive"
      BY CallerFacts DEF Call
    <2> QED BY <2>1, <2>2 DEF AfterWrite, Restful
  <1>4. CASE Goto(c, AfterWrite(c, FALSE))
    <2>1. AfterWrite(c, FALSE) \in Call
      BY <1>4, Typed
    <2> QED BY <1>1, <1>3, <1>4, <2>1 DEF Rests
  <1>5. CASE /\ Store(c, p, row, AfterWrite(c, TRUE)) /\ k.fresh
             /\ pub[p].status = ExpectedStatus(c) /\ UpdatePermitted(pub[p], k.row)
    <2>1. AfterWrite(c, TRUE) \in Call
      BY <1>5 DEF Store, Inv, TypeOK
    <2> QED BY <1>1, <1>2, <1>3, <1>5, <2>1 DEF Written
  <1> QED BY <1>1, <1>4, <1>5 DEF UpdateFresh

LEMMA LandWritten ==
    ASSUME Inv, RecordInv, LandInv, NEW c \in Callers, Written(c) PROVE LandInv'
  <1> SUFFICES ASSUME "late" \notin Events, WireOK
               PROVE  WireOK' /\ ("channel" \notin Events /\ LandingOK => LandingOK')
    BY DEF LandInv
  <1> DEFINE p == call[c].pub
  <1>1. PICK row \in Row, k \in Call :
          /\ Store(c, p, row, k) /\ call[c].pc = "write" /\ call[c].fresh
          /\ p \in Pubs /\ row = Timed(p, call[c].row)
          /\ pub[p].status = ExpectedStatus(c)
          /\ k.pc \in Restful /\ Quietly
    BY DEF Written
  <1>2. /\ call[c].row \in Row /\ call[c].pc \in RowSteps /\ call[c].pc # "wait"
        /\ KnownOK(call[c], pub, branch, released) /\ CopyOK(call[c], pub)
        /\ LeaseOK(c, call[c], pub, wire)
    BY <1>1, CallerFacts, RowKnown DEF WireOK, RowSteps, PCs
  <1>3. /\ row.status = call[c].row.status /\ row.detail = call[c].row.detail
        /\ row.commitSha = call[c].row.commitSha /\ row.lease = call[c].row.lease
    BY <1>1, <1>2, TimedRecord
  <1>4. /\ row.status # "requested" /\ row.detail # "deployment_retry_dispatching"
        /\ row.lease \in {None, pub[p].lease}
        /\ "channel" \notin Events => Accounted(row)
    BY <1>1, <1>2, <1>3
       DEF KnownOK, LeaseOK, Accounts, Accounted, contentPublicationHasUnresolvedGitOutcome
  <1>5. ~Sent(p, wire)
    <2>1. ~(pub[p].status = "requested" /\ pub[p].leased)
      BY <1>1, <1>2 DEF CopyOK, ExpectedStatus
    <2> QED BY <2>1 DEF Sent, WireOK, RequestOK
  <1>6. /\ k.pc \notin commitSteps \cup {"write", "retryClaim"} /\ ~Denies(c, k, row)
    BY <1>1 DEF Restful, commitSteps, Denies
  <1>7. ApprovalMove /\ UNCHANGED <<workspace, branch, wire>>
    BY <1>1 DEF Quietly, external
  <1>8. WireOK'
    BY <1>1, <1>2, <1>4, <1>5, <1>6, <1>7, WireStore
  <1>9. "channel" \notin Events /\ LandingOK => LandingOK'
    BY <1>1, <1>4, <1>6, <1>7, LandStore
  <1> QED BY <1>8, <1>9

\* A new publication, or its refusal.
Claims(c) ==
    \E row \in Row, k \in Call :
        /\ call[c].pc = "claim" /\ call[c].key \in Pubs
        /\ pub[call[c].key].status = "absent" /\ Store(c, call[c].key, row, k)
        /\ row.deploymentId = NoBuild /\ row.detail # "deployment_retry_dispatching"
        /\ \/ k = Idle /\ row.status = "blocked" /\ row.lease = None
           \/ k.pc = "guard" /\ k.pub = call[c].key /\ k.row = row
              /\ row.status = "requested" /\ row.lease = c
        /\ Quietly

LEMMA ClaimShape ==
    ASSUME Inv, Inv', NEW c \in Callers, claimPublication(c) PROVE Rests(c) \/ Claims(c)
  <1> DEFINE k == call[c]
             p == k.key
             a == k.approval
             New(status, detail) == NewPublication(c, a, status, detail)
             next == [k EXCEPT !.pc = "guard", !.pub = p, !.row = New("requested", "none")]
  <1>1. Quietly
    BY DEF claimPublication, Quietly, ApprovalMove
  <1>2. k \in Call /\ k.pc = "claim" /\ p \in Pubs /\ HandlerOK(k, approval, pub, branch)
    BY CallerFacts DEF claimPublication, HandlerOK
  <1>3. Made(a, approval)
    BY <1>2, ConstantsAssumption DEF HandlerOK
  <1>4. ASSUME pub[p].status = "absent",
               NEW d \in {"approval_stale", "publication_in_progress"},
               Store(c, p, New("blocked", d), Idle)
        PROVE  Claims(c)
    <2> DEFINE row == New("blocked", d)
    <2>1. row \in Row /\ row.status = "blocked" /\ row.detail = d
          /\ row.deploymentId = NoBuild /\ row.lease = None
      BY <1>3, NewRow
    <2>2. Store(c, p, row, Idle)
      BY <1>4
    <2> HIDE DEF row
    <2> QED BY <1>1, <1>2, <1>4, <2>1, <2>2, IdleOK DEF Claims
  <1>5. ASSUME pub[p].status = "absent", Store(c, p, New("requested", "none"), next)
        PROVE  Claims(c)
    <2> DEFINE row == New("requested", "none")
    <2>1. row \in Row /\ row.status = "requested" /\ row.detail = "none"
          /\ row.deploymentId = NoBuild /\ row.lease = c
      BY <1>3, NewRow
    <2>2. Store(c, p, row, next)
          /\ next = [k EXCEPT !.pc = "guard", !.pub = p, !.row = row]
      BY <1>5
    <2> HIDE DEF row, next
    <2>3. next \in Call /\ next.pc = "guard" /\ next.pub = p /\ next.row = row
      BY <1>2, <2>1, <2>2 DEF Call, PCs, commitSteps
    <2> QED BY <1>1, <1>2, <1>5, <2>1, <2>2, <2>3 DEF Claims
  <1>6. Goto(c, Idle) => Rests(c)
    BY <1>1, <1>2, IdleRests
  <1> QED BY <1>4, <1>5, <1>6 DEF claimPublication

LEMMA LandClaims ==
    ASSUME Inv, RecordInv, LandInv, NEW c \in Callers, Claims(c) PROVE LandInv'
  <1> SUFFICES ASSUME "late" \notin Events, WireOK
               PROVE  WireOK' /\ (LandingOK => LandingOK')
    BY DEF LandInv
  <1> DEFINE p == call[c].key
  <1>1. PICK row \in Row, k \in Call :
          /\ call[c].pc = "claim" /\ p \in Pubs /\ pub[p].status = "absent"
          /\ Store(c, p, row, k) /\ row.detail # "deployment_retry_dispatching"
          /\ \/ k = Idle /\ row.status = "blocked" /\ row.lease = None
             \/ /\ k.pc = "guard" /\ k.pub = p /\ row.status = "requested"
                /\ row.lease = c
          /\ Quietly
    BY DEF Claims
  <1>2. ~Sent(p, wire)
    BY <1>1 DEF Sent, WireOK, RequestOK
  <1>3. ~Landed(p)
    BY <1>1, ConstantsAssumption
       DEF RecordInv, BranchOK, Landed, CommitsOf, ProductionHead
  <1>4. ApprovalMove /\ UNCHANGED <<workspace, branch, wire>>
    BY <1>1 DEF Quietly, external
  <1>5. /\ k.pc \in {"idle", "guard"} /\ (k.pc = "guard" => k.pub = p)
        /\ k.pc \notin {"wait", "write", "retryClaim"}
        /\ (k.pc \in commitSteps => k.pub = p) /\ row.lease \in {None, c}
        /\ (row.status = "requested" => row.lease = c)
    BY <1>1 DEF Idle, commitSteps
  <1> QED BY <1>1, <1>2, <1>3, <1>4, <1>5, WireStore, LandStore

LEMMA LandPost ==
    ASSUME Inv, Inv', RecordInv, LandInv, NEW c \in Callers, CreateCommitPost(c)
    PROVE  LandInv'
  <1> DEFINE p == call[c].pub
             k == [call[c] EXCEPT !.pc = "wait"]
  <1>1. /\ call[c].pc \in commitSteps \ {"wait"} /\ UNCHANGED workspace
        /\ call[c].pc = "post" /\ p \in Pubs /\ call[c] \in Call
    BY CommitFacts DEF CreateCommitPost, commitSteps
  <1>2. CASE \E r : Answered(c, r) /\ UNCHANGED wire
    <2>1. Quietly
      <3>1. ASSUME LeaseGuardRefuses(c) PROVE ApprovalMove
        BY <1>1, <3>1, CommitFacts, Refused
      <3>2. \/ LeaseGuardRefuses(c) \/ UNCHANGED approval
        BY DEF CreateCommitPost
      <3> QED BY <1>2, <3>1, <3>2
            DEF CreateCommitPost, Quietly, external, ApprovalMove
    <2>2. Proceeds(c)
      BY <1>1, <1>2, <2>1, AnsweredProceeds DEF Untold
    <2> QED BY <2>2, LandProceeds
  <1>3. CASE /\ LeaseGuardHolds(c) /\ Goto(c, k) /\ wire' = wire \cup {<<p, c>>}
             /\ UNCHANGED approval
    <2> SUFFICES ASSUME "late" \notin Events, WireOK
                 PROVE  WireOK' /\ (LandingOK => LandingOK')
      BY DEF LandInv
    <2>1. /\ pub' = pub /\ call' = [call EXCEPT ![c] = k] /\ call \in [Callers -> Call]
          /\ k.pc = "wait" /\ k.pub = p /\ k.pc # "settle" /\ UNCHANGED branch
      BY <1>1, <1>3 DEF Goto, Inv, TypeOK, Call, CreateCommitPost
    <2>2. /\ pub[p].leased /\ RevisionCurrent(pub[p]) /\ HoldsLease(c, p)
      BY <1>3 DEF LeaseGuardHolds, LeaseRenewable, RevisionCurrent
    <2>3. /\ pub[p].status = "requested" /\ ~Sent(p, wire) /\ pub[p].lease = c
          /\ LandingOK => ~Landed(p)
      BY <1>1, <2>2, HeldCommit DEF Untold
    <2>4. \A m \in wire : RequestOK(m)'
      <3>1. \A d \in Callers : call[d].pc = "wait" => call'[d] = call[d]
        BY <1>1, <2>1
      <3> QED BY <1>1, <1>3, <2>1, <3>1, RequestsKept DEF ApprovalMove
    <2>5. RequestOK(<<p, c>>)'
      BY <1>1, <1>3, <2>1, <2>2, <2>3 DEF RequestOK, RevisionCurrent, WorkspaceOf
    <2>6. \A m, n \in wire' : m[1] = n[1] => m = n
      BY <1>3, <2>3 DEF WireOK, Sent
    <2>7. ASSUME NEW d \in Callers PROVE LeaseOK(d, call'[d], pub, wire')
      <3>1. CASE d = c
        <4>1. LeaseOK(c, call[c], pub, wire)
          BY DEF WireOK
        <4> QED BY <1>1, <1>3, <2>1, <3>1, <4>1 DEF LeaseOK
      <3>2. CASE d # c
        <4>1. call'[d] = call[d] /\ LeaseOK(d, call[d], pub, wire)
          BY <2>1, <3>2 DEF WireOK
        <4>2. \A q : Sent(q, wire') => Sent(q, wire) \/ q = p
          BY <1>3 DEF Sent
        <4> QED BY <1>3, <2>3, <3>2, <4>1, <4>2 DEF LeaseOK
      <3> QED BY <3>1, <3>2
    <2>8. WireOK'
      BY <1>3, <2>1, <2>4, <2>5, <2>6, <2>7 DEF WireOK
    <2>9. ASSUME LandingOK PROVE LandingOK'
      <3>1. \A q : Landed(q)' <=> Landed(q)
        BY <2>1 DEF Landed, CommitsOf, ProductionHead
      <3>2. \A q \in Pubs : Landed(q) => q # p
        BY <2>3, <2>9
      <3>3. \A q : Sent(q, wire') => Sent(q, wire) \/ q = p
        BY <1>3 DEF Sent
      <3> QED BY <2>1, <2>9, <3>1, <3>2, <3>3 DEF LandingOK
    <2> QED BY <2>8, <2>9
  <1> QED BY <1>2, <1>3 DEF CreateCommitPost

-----------------------------------------------------------------------------
\* A failed publication is reconciled: recorded, given up, or claimed again on
\* top of a branch it has not landed on.
LEMMA LandRetryReconcile ==
    ASSUME Inv, Inv', RecordInv, LandInv, NEW c \in Callers, RetryReconcile(c)
    PROVE  LandInv'
  <1> DEFINE k == call[c]
             p == k.pub
             recorded == [k.row EXCEPT !.commitSha = CommitOf(p),
                                       !.detail = "git_commit_reconciled"]
             next == [k EXCEPT !.pc = "write", !.resume = "retryLive", !.row = recorded]
             again == [k EXCEPT !.pc = "retryClaim"]
  <1>1. k.pc = "reconcile" /\ k.pc \in RowSteps /\ k \in Call /\ k.row \in Row
    BY CallerFacts DEF RetryReconcile, RowSteps, PCs
  <1>2. Quietly
    BY <1>1, Spent DEF RetryReconcile, Quietly, ApprovalMove
  <1>3. CASE Goto(c, Idle)
    <2>1. Rests(c)
      BY <1>1, <1>2, <1>3, IdleRests
    <2> QED BY <2>1, LandRests
  <1>4. CASE Goto(c, next)
    <2>1. recorded.lease = k.row.lease
      BY <1>1 DEF Row
    <2> HIDE DEF recorded
    <2>2. /\ next.pc = "write" /\ next.pub = p /\ next.row = recorded
          /\ next.fresh = k.fresh /\ next.retry = k.retry
      BY <1>1 DEF Call
    <2>3. next \in Call
      BY <1>4, Typed
    <2> HIDE DEF next
    <2>4. Rewrites(c)
      BY <1>1, <1>2, <1>4, <2>1, <2>2, <2>3 DEF Rewrites
    <2> QED BY <2>4, LandRewrites
  <1>5. CASE Goto(c, again) /\ ProductionHead = k.row.expectedHead
    <2>1. again.pc = "retryClaim" /\ again.pub = p
      BY <1>1 DEF Call
    <2>2. again \in Call
      BY <1>5, Typed
    <2>3. ~Landed(p)
      <3>1. p \in Pubs /\ k.row.expectedHead = pub[p].expectedHead /\ p # None
            /\ ProductionHead \in Nat
        BY <1>1, RowStepFacts, RowKnown, ConstantsAssumption
           DEF KnownOK, Inv, TypeOK, ProductionHead
      <3>2. ASSUME NEW i \in 1..ProductionHead, branch[i] = p PROVE FALSE
        <4>1. i = pub[p].expectedHead + 1
          BY <3>1, <3>2 DEF RecordInv, BranchOK, ProductionHead
        <4> QED BY <1>5, <3>1, <4>1
      <3> QED BY <3>2 DEF Landed, CommitsOf
    <2> HIDE DEF again
    <2>4. LeaseOK(c, again, pub, wire)
      BY <2>1 DEF LeaseOK, commitSteps
    <2>5. k.pc # "wait" /\ ApprovalMove /\ UNCHANGED <<workspace, branch, wire>>
      BY <1>1, <1>2 DEF Quietly, external
    <2> QED BY <1>5, <2>1, <2>2, <2>3, <2>4, <2>5, WireMove, LandMove DEF LandInv
  <1> QED BY <1>3, <1>4, <1>5 DEF RetryReconcile

\* The slot is claimed again.
ClaimsAgain(c) ==
    \E row \in Row, k \in Call :
        /\ call[c].pc = "retryClaim" /\ call[c].fresh /\ call[c].pub \in Pubs
        /\ pub[call[c].pub].status = "failed" /\ Store(c, call[c].pub, row, k)
        /\ row.status = "requested" /\ row.lease = c /\ row.commitSha = 0
        /\ row.detail = "git_result_unknown"
        /\ row.deploymentId = call[c].row.deploymentId
        /\ k.pc = "commit" /\ k.pub = call[c].pub /\ k.row = row
        /\ Quietly

LEMMA ClaimAgainShape ==
    ASSUME Inv, Inv', RecordInv, NEW c \in Callers, claimFailedPublicationRetry(c)
    PROVE  Rests(c) \/ ClaimsAgain(c)
  <1> DEFINE k == call[c]
             p == k.pub
             claimed == [k.row EXCEPT !.status = "requested", !.lease = c,
                                      !.leased = TRUE, !.detail = "git_result_unknown"]
             row == [claimed EXCEPT !.age = pub[p].age]
             next == [k EXCEPT !.pc = "commit", !.row = row]
  <1>1. k.pc = "retryClaim" /\ k.pc \in RowSteps /\ k \in Call /\ Quietly
    BY CallerFacts DEF claimFailedPublicationRetry, RowSteps, PCs, Quietly, ApprovalMove
  <1>2. CASE Goto(c, Idle)
    BY <1>1, <1>2, IdleRests
  <1>3. CASE Store(c, p, row, next) /\ k.fresh /\ pub[p].status = "failed"
    <2>1. /\ row \in Row /\ row.status = "requested" /\ row.lease = c
          /\ row.commitSha = 0 /\ row.detail = "git_result_unknown"
          /\ row.deploymentId = k.row.deploymentId
      BY <1>1, ClaimedRow
    <2> HIDE DEF row
    <2>2. next.pc = "commit" /\ next.pub = p /\ next.row = row
      BY <1>1 DEF Call
    <2>3. next \in Call /\ p \in Pubs
      BY <1>1, <1>3, RowStepFacts DEF Store, Inv, TypeOK
    <2> HIDE DEF next
    <2> QED BY <1>1, <1>3, <2>1, <2>2, <2>3 DEF ClaimsAgain
  <1> QED BY <1>2, <1>3 DEF claimFailedPublicationRetry

LEMMA LandClaimsAgain ==
    ASSUME Inv, RecordInv, LandInv, NEW c \in Callers, ClaimsAgain(c) PROVE LandInv'
  <1> SUFFICES ASSUME "late" \notin Events, WireOK
               PROVE  WireOK' /\ (LandingOK => LandingOK')
    BY DEF LandInv
  <1> DEFINE p == call[c].pub
  <1>1. PICK row \in Row, k \in Call :
          /\ call[c].pc = "retryClaim" /\ call[c].fresh /\ p \in Pubs
          /\ pub[p].status = "failed" /\ Store(c, p, row, k)
          /\ row.status = "requested" /\ row.lease = c
          /\ row.detail = "git_result_unknown" /\ k.pc = "commit" /\ k.pub = p /\ Quietly
    BY DEF ClaimsAgain
  <1>2. ~Sent(p, wire)
    BY <1>1 DEF Sent, WireOK, RequestOK
  <1>3. LandingOK => ~Landed(p)
    BY <1>1 DEF LandingOK, Denies
  <1>4. /\ k.pc \in commitSteps /\ k.pc # "write" /\ k.pc # "wait" /\ call[c].pc # "wait"
        /\ row.detail # "deployment_retry_dispatching"
    BY <1>1 DEF commitSteps
  <1>5. ApprovalMove /\ UNCHANGED <<workspace, branch, wire>>
    BY <1>1 DEF Quietly, external
  <1> QED BY <1>1, <1>2, <1>3, <1>4, <1>5, WireStore, LandStore

-----------------------------------------------------------------------------
(* The deployment side of a retry *)

\* The retry that claims the slot for its build.
Dispatches(c) ==
    \E row \in Row, k \in Call :
        /\ call[c].pc = "dispatchClaim" /\ call[c].fresh /\ call[c].pub \in Pubs
        /\ pub[call[c].pub].status = "failed" /\ Store(c, call[c].pub, row, k)
        /\ row.status = "committed" /\ row.lease = c /\ row.dispatched
        /\ row.detail = "deployment_retry_dispatching" /\ row.commitSha # 0
        /\ row.deploymentId = DispatchToken
        /\ k.pc = "dispatchCheck" /\ k.pub = call[c].pub /\ k.row = row
        /\ Quietly

LEMMA DispatchClaimShape ==
    ASSUME Inv, Inv', RecordInv, NEW c \in Callers, DispatchClaim(c)
    PROVE  Rests(c) \/ Dispatches(c)
  <1> DEFINE k == call[c]
             p == k.pub
             row == [k.row EXCEPT !.status = "committed", !.lease = c,
                             !.leased = TRUE, !.age = 0, !.dispatched = TRUE,
                             !.deploymentId = DispatchToken,
                             !.detail = "deployment_retry_dispatching"]
             next == [k EXCEPT !.pc = "dispatchCheck", !.row = row, !.fresh = TRUE]
  <1>1. k.pc = "dispatchClaim" /\ k.pc \in RowSteps /\ k \in Call /\ Quietly
    BY CallerFacts DEF DispatchClaim, RowSteps, PCs, dispatchSteps, Quietly, ApprovalMove
  <1>2. CASE Goto(c, Idle)
    BY <1>1, <1>2, IdleRests
  <1>3. CASE Store(c, p, row, next) /\ k.fresh /\ pub[p].status = "failed"
    <2>1. /\ row \in Row /\ row.status = "committed" /\ row.lease = c /\ row.dispatched
          /\ row.detail = "deployment_retry_dispatching" /\ row.commitSha # 0
          /\ row.deploymentId = DispatchToken
      BY <1>1, DispatchedRow
    <2> HIDE DEF row
    <2>2. next.pc = "dispatchCheck" /\ next.pub = p /\ next.row = row
      BY <1>1 DEF Call
    <2>3. next \in Call /\ p \in Pubs
      BY <1>1, <1>3, RowStepFacts DEF Store, Inv, TypeOK
    <2> HIDE DEF next
    <2> QED BY <1>1, <1>3, <2>1, <2>2, <2>3 DEF Dispatches
  <1> QED BY <1>2, <1>3 DEF DispatchClaim

LEMMA LandDispatches ==
    ASSUME Inv, RecordInv, LandInv, NEW c \in Callers, Dispatches(c) PROVE LandInv'
  <1> SUFFICES ASSUME "late" \notin Events, WireOK
               PROVE  WireOK' /\ (LandingOK => LandingOK')
    BY DEF LandInv
  <1> DEFINE p == call[c].pub
  <1>1. PICK row \in Row, k \in Call :
          /\ call[c].pc = "dispatchClaim" /\ p \in Pubs /\ pub[p].status = "failed"
          /\ Store(c, p, row, k) /\ row.lease = c /\ row.commitSha # 0
          /\ row.status = "committed" /\ k.pc = "dispatchCheck" /\ Quietly
    BY DEF Dispatches
  <1>2. ~Sent(p, wire)
    BY <1>1 DEF Sent, WireOK, RequestOK
  <1>3. /\ k.pc \notin commitSteps \cup {"write", "retryClaim"} /\ call[c].pc # "wait"
        /\ ~Denies(c, k, row) /\ Accounted(row)
    BY <1>1 DEF commitSteps, Denies, Accounted
  <1>4. ApprovalMove /\ UNCHANGED <<workspace, branch, wire>>
    BY <1>1 DEF Quietly, external
  <1> QED BY <1>1, <1>2, <1>3, <1>4, WireStore, LandStore

\* The dispatch claim given up, with what it has come to.
GivesBack(c, s, d, id, next) ==
    \E row \in Row :
        /\ call[c].pc \in dispatchSteps /\ call[c].pub \in Pubs
        /\ HoldsLease(c, call[c].pub) /\ pub[call[c].pub].status = "committed"
        /\ Store(c, call[c].pub, row, next)
        /\ row.status = s /\ row.detail = d /\ row.deploymentId = id
        /\ row.lease = None /\ row.commitSha # 0
        /\ row.dispatched = call[c].row.dispatched

LEMMA GiveBackShape ==
    ASSUME Inv, RecordInv, NEW c \in Callers, call[c].pc \in dispatchSteps,
           NEW s \in Statuses, NEW d \in Details, NEW id \in -1..MaxDispatch, NEW next,
           DispatchWrite(c, DispatchRow(call[c].row, s, d, id), next)
    PROVE  Goto(c, next) \/ GivesBack(c, s, d, id, next)
  <1> DEFINE p == call[c].pub
             new == DispatchRow(call[c].row, s, d, id)
             row == Timed(p, new)
  <1>1. call[c].pc \in RowSteps
    BY DEF RowSteps, PCs, dispatchSteps
  <1>2. /\ p \in Pubs /\ call[c].row \in Row /\ call[c].row.commitSha # 0
    BY <1>1, RowStepFacts, RowKnown DEF KnownOK
  <1>3. /\ new \in Row /\ new.status = s /\ new.detail = d /\ new.deploymentId = id
        /\ new.lease = None /\ new.commitSha = call[c].row.commitSha
        /\ new.dispatched = call[c].row.dispatched
    BY <1>2, DispatchRowOK DEF DispatchRow, Row
  <1>4. \/ Goto(c, next)
        \/ /\ HoldsLease(c, p) /\ pub[p].status = "committed" /\ Store(c, p, row, next)
    BY DEF DispatchWrite
  <1> HIDE DEF new
  <1>5. /\ row \in Row /\ row.status = s /\ row.detail = d /\ row.deploymentId = id
        /\ row.lease = None /\ row.commitSha # 0 /\ row.dispatched = call[c].row.dispatched
    BY <1>2, <1>3, TimedRecord
  <1> HIDE DEF row
  <1> QED BY <1>2, <1>4, <1>5 DEF GivesBack

LEMMA LandGivesBack ==
    ASSUME Inv, RecordInv, LandInv, NEW c \in Callers, NEW s, s # "requested",
           NEW d, d # "deployment_retry_dispatching", NEW id, NEW next \in Call,
           next.pc \in {"idle", "buildSettle"}, GivesBack(c, s, d, id, next),
           ApprovalMove, UNCHANGED <<workspace, branch, wire>>
    PROVE  LandInv'
  <1> SUFFICES ASSUME "late" \notin Events, WireOK
               PROVE  WireOK' /\ (LandingOK => LandingOK')
    BY DEF LandInv
  <1> DEFINE p == call[c].pub
  <1>1. PICK row \in Row :
          /\ call[c].pc \in dispatchSteps /\ p \in Pubs /\ pub[p].status = "committed"
          /\ Store(c, p, row, next) /\ row.status = s /\ row.lease = None
          /\ row.commitSha # 0
    BY DEF GivesBack
  <1>2. ~Sent(p, wire)
    BY <1>1 DEF Sent, WireOK, RequestOK
  <1>3. /\ next.pc \notin commitSteps \cup {"write", "retryClaim"} /\ call[c].pc # "wait"
        /\ ~Denies(c, next, row) /\ Accounted(row)
    BY <1>1 DEF commitSteps, dispatchSteps, Denies, Accounted
  <1> QED BY <1>1, <1>2, <1>3, WireStore, LandStore

\* A handler that goes on with its row.
Continues(c, x) ==
    \E k \in Call : /\ Goto(c, k) /\ call[c].pc \in RowSteps /\ k.pc = x
                    /\ k.pub = call[c].pub /\ k.row = call[c].row
                    /\ k.fresh = call[c].fresh
                    /\ x = "buildSettle" => k.reply = "claimLost"

LEMMA ContinuesWith ==
    ASSUME Inv, Inv', NEW c \in Callers, NEW x \in RowSteps, x # "buildSettle",
           call[c].pc \in RowSteps, Goto(c, [call[c] EXCEPT !.pc = x])
    PROVE  Continues(c, x)
  <1> DEFINE k == [call[c] EXCEPT !.pc = x]
  <1>1. k.pc = x /\ k.pub = call[c].pub /\ k.row = call[c].row /\ k.fresh = call[c].fresh
    BY CallerFacts DEF Call
  <1>2. k \in Call
    BY Typed
  <1> HIDE DEF k
  <1> QED BY <1>1, <1>2 DEF Continues, k

\* A retry goes on to its build if none was asked for, or the one that was has failed.
MayAskAgain(row) ==
    \/ ~(ReconciledNeedsCheck(row) \/ deploymentRetryDispatchWasAttempted(row))
    \/ MayDispatchAfter(row, "failed") /\ "failed" \in DeploymentReads(RecordedBuild(row))

LEMMA RetryLiveShape ==
    ASSUME Inv, Inv', NEW c \in Callers, RetryLive(c)
    PROVE  /\ call[c].pc = "retryLive" /\ Quietly
           /\ \/ Rests(c) \/ Rewrites(c)
              \/ Continues(c, "retryHead") /\ MayAskAgain(call[c].row)
  <1> DEFINE k == call[c]
             row == k.row
             goOn == [k EXCEPT !.pc = "retryHead"]
             Write(s, d) == [k EXCEPT !.pc = "write", !.row = With(row, s, d)]
  <1>1. /\ k.pc = "retryLive" /\ k.pc \in RowSteps /\ k \in Call /\ row \in Row /\ Quietly
        /\ "retryHead" \in RowSteps
    BY CallerFacts DEF RetryLive, Quietly, ApprovalMove, RowSteps, PCs
  <1>2. CASE Goto(c, Idle)
    BY <1>1, <1>2, IdleRests
  <1>3. CASE Goto(c, goOn) /\ MayAskAgain(row)
    BY <1>1, <1>3, ContinuesWith
  <1>4. ASSUME NEW s, NEW d, Goto(c, Write(s, d)) PROVE Rewrites(c)
    <2>1. With(row, s, d).lease = row.lease
      BY <1>1 DEF With, Row
    <2>2. /\ Write(s, d).pc = "write" /\ Write(s, d).pub = k.pub
          /\ Write(s, d).row = With(row, s, d)
          /\ Write(s, d).fresh = k.fresh /\ Write(s, d).retry = k.retry
      BY <1>1 DEF Call
    <2>3. Write(s, d) \in Call
      BY <1>4, Typed
    <2> HIDE DEF Write
    <2> QED BY <1>1, <1>4, <2>1, <2>2, <2>3 DEF Rewrites
  <1>5. \/ Goto(c, Idle) \/ (Goto(c, goOn) /\ MayAskAgain(row))
        \/ \E s, d : Goto(c, Write(s, d))
    BY DEF RetryLive, VerifiedLive, With, MayAskAgain, MayDispatchAfter
  <1> HIDE DEF goOn, Write
  <1> QED BY <1>1, <1>2, <1>3, <1>4, <1>5

LEMMA RetryHeadShape ==
    ASSUME Inv, Inv', NEW c \in Callers, RetryHead(c)
    PROVE  Rests(c) \/ (Continues(c, "dispatchClaim") /\ call[c].pc = "retryHead" /\ Quietly)
  <1>1. call[c].pc = "retryHead" /\ call[c].pc \in RowSteps /\ "dispatchClaim" \in RowSteps
    BY DEF RetryHead, RowSteps, PCs, dispatchSteps
  <1>2. Quietly
    BY <1>1, Spent DEF RetryHead, Quietly, ApprovalMove
  <1> QED BY <1>1, <1>2, IdleRests, ContinuesWith DEF RetryHead

LEMMA DispatchCheckShape ==
    ASSUME Inv, Inv', RecordInv, NEW c \in Callers, DispatchCheck(c)
    PROVE  /\ call[c].pc = "dispatchCheck" /\ Quietly
           /\ \/ Rests(c) \/ Continues(c, "assertDispatch")
              \/ \E d \in Details \ {"deployment_retry_dispatching"} :
                   GivesBack(c, "failed", d, NoBuild, Idle)
  <1> DEFINE GiveUp(d) == DispatchWrite(c, DispatchRow(call[c].row, "failed", d, NoBuild),
                                        Idle)
  <1>1. /\ call[c].pc = "dispatchCheck" /\ call[c].pc \in RowSteps
        /\ call[c].pc \in dispatchSteps /\ "assertDispatch" \in RowSteps
    BY DEF DispatchCheck, RowSteps, PCs, dispatchSteps
  <1>2. Quietly
    BY <1>1, Spent DEF DispatchCheck, Quietly, ApprovalMove
  <1>3. ASSUME NEW d \in Details, GiveUp(d)
        PROVE  Rests(c) \/ GivesBack(c, "failed", d, NoBuild, Idle)
    <2>1. "failed" \in Statuses /\ NoBuild \in -1..MaxDispatch
      BY Words, ConstantsAssumption DEF NoBuild
    <2>2. Goto(c, Idle) \/ GivesBack(c, "failed", d, NoBuild, Idle)
      BY <1>1, <1>3, <2>1, GiveBackShape
    <2> QED BY <1>1, <1>2, <2>2, IdleRests
  <1>4. \/ Goto(c, [call[c] EXCEPT !.pc = "assertDispatch"])
        \/ \E d \in {"approval_stale", "deployment_retry_head_unavailable",
                     "deployment_retry_head_moved"} : GiveUp(d)
    BY DEF DispatchCheck
  <1> HIDE DEF GiveUp
  <1> QED BY <1>1, <1>2, <1>3, <1>4, ContinuesWith, Words

LEMMA AssertDispatchShape ==
    ASSUME Inv, Inv', RecordInv, NEW c \in Callers, AssertDispatch(c)
    PROVE  /\ call[c].pc = "assertDispatch" /\ Quietly
           /\ \/ Continues(c, "buildSettle")
              \/ /\ Continues(c, "build") /\ HoldsLease(c, call[c].pub)
                 /\ pub[call[c].pub].status = "committed"
              \/ \E s \in {"verified-live", "failed"}, k \in Call,
                    d \in Details \ {"deployment_retry_dispatching"} :
                      /\ GivesBack(c, s, d, NoBuild, k) /\ k.pc = "buildSettle"
                      /\ k.pub = call[c].pub /\ k.row = call[c].row
                      /\ k.reply = "claimLost"
  <1> DEFINE k == call[c]
             veto == [k EXCEPT !.pc = "buildSettle", !.reply = "claimLost"]
             served == DispatchRow(k.row, "verified-live", "none", NoBuild)
             moved == DispatchRow(k.row, "failed", "deployment_retry_head_moved", NoBuild)
             next == [k EXCEPT !.pc = "build"]
  <1>1. /\ k.pc = "assertDispatch" /\ k.pc \in RowSteps /\ k.pc \in dispatchSteps
        /\ k \in Call /\ "build" \in RowSteps
    BY CallerFacts DEF AssertDispatch, RowSteps, PCs, dispatchSteps
  <1>2. Quietly
    BY <1>1, Spent DEF AssertDispatch, Quietly, ApprovalMove
  <1>3. /\ veto \in Call /\ veto.pc = "buildSettle" /\ veto.pub = k.pub
        /\ veto.row = k.row /\ veto.fresh = k.fresh /\ veto.reply = "claimLost"
    BY <1>1 DEF Call, PCs, dispatchSteps, Replies
  <1>4. \/ Goto(c, veto)
        \/ /\ Goto(c, next) /\ LeaseRenewable(c, k.pub) /\ pub[k.pub].status = "committed"
        \/ DispatchWrite(c, served, veto) \/ DispatchWrite(c, moved, veto)
    BY DEF AssertDispatch
  <1>5. /\ {"failed", "verified-live"} \subseteq Statuses
        /\ {"none", "deployment_retry_head_moved"}
             \subseteq Details \ {"deployment_retry_dispatching"}
        /\ NoBuild \in -1..MaxDispatch
    BY Words, ConstantsAssumption DEF NoBuild
  <1> HIDE DEF veto
  <1>6. Goto(c, veto) => Continues(c, "buildSettle")
    BY <1>1, <1>3 DEF Continues
  <1>7. CASE DispatchWrite(c, served, veto) \/ DispatchWrite(c, moved, veto)
    <2>1. \/ Goto(c, veto)
          \/ GivesBack(c, "verified-live", "none", NoBuild, veto)
          \/ GivesBack(c, "failed", "deployment_retry_head_moved", NoBuild, veto)
      BY <1>1, <1>5, <1>7, GiveBackShape
    <2> QED BY <1>1, <1>2, <1>3, <1>5, <1>6, <2>1
  <1>8. CASE /\ Goto(c, next) /\ LeaseRenewable(c, k.pub)
             /\ pub[k.pub].status = "committed"
    <2>1. Continues(c, "build")
      BY <1>1, <1>8, ContinuesWith
    <2> QED BY <1>1, <1>2, <1>8, <2>1 DEF LeaseRenewable
  <1> QED BY <1>1, <1>2, <1>4, <1>6, <1>7, <1>8

LEMMA SettleBuildShape ==
    ASSUME Inv, Inv', RecordInv, NEW c \in Callers, SettleBuild(c)
    PROVE  /\ call[c].pc = "buildSettle" /\ Quietly
           /\ \/ Rests(c)
              \/ \E d \in {"deployment_retry_requested", "deployment_retry_failed",
                           "deployment_retry_claim_lost",
                           "deployment_retry_result_unknown"} :
                   \/ /\ call[c].reply = "accepted" /\ d = "deployment_retry_requested"
                      /\ GivesBack(c, "committed", d, call[c].row.deploymentId, Idle)
                   \/ /\ call[c].reply \in {"refused", "claimLost"}
                      /\ GivesBack(c, "failed", d, NoBuild, Idle)
                   \/ /\ call[c].reply = "ambiguous"
                      /\ d = "deployment_retry_result_unknown"
                      /\ GivesBack(c, "unknown", d, NoBuild, Idle)
  <1> DEFINE row == call[c].row
             Settle(s, d, id) == DispatchWrite(c, DispatchRow(row, s, d, id), Idle)
  <1>1. /\ call[c].pc = "buildSettle" /\ call[c].pc \in RowSteps
        /\ call[c].pc \in dispatchSteps /\ Quietly
    BY DEF SettleBuild, RowSteps, PCs, dispatchSteps, Quietly, ApprovalMove
  <1>2. call[c].reply \in BuildReplies /\ row.deploymentId \in -1..MaxDispatch
    BY <1>1, CallerFacts DEF HandlerOK, Row
  <1>3. ASSUME NEW s \in {"committed", "failed", "unknown"}, NEW d \in Details,
               NEW id \in {row.deploymentId, NoBuild}, Settle(s, d, id)
        PROVE  Rests(c) \/ GivesBack(c, s, d, id, Idle)
    <2>1. s \in Statuses /\ id \in -1..MaxDispatch
      BY <1>2, Words, ConstantsAssumption DEF NoBuild
    <2>2. Goto(c, Idle) \/ GivesBack(c, s, d, id, Idle)
      BY <1>1, <1>3, <2>1, GiveBackShape
    <2> QED BY <1>1, <2>2, IdleRests
  <1>4. \/ /\ call[c].reply = "accepted"
           /\ Settle("committed", "deployment_retry_requested", row.deploymentId)
        \/ /\ call[c].reply \in {"refused", "claimLost"}
           /\ \/ Settle("failed", "deployment_retry_failed", NoBuild)
              \/ Settle("failed", "deployment_retry_claim_lost", NoBuild)
        \/ /\ call[c].reply = "ambiguous"
           /\ Settle("unknown", "deployment_retry_result_unknown", NoBuild)
    BY <1>2 DEF SettleBuild, BuildReplies
  <1> HIDE DEF Settle
  <1> QED BY <1>1, <1>3, <1>4, Words

LEMMA LandContinues ==
    ASSUME Inv, RecordInv, LandInv, NEW c \in Callers, NEW x \in Aside, Continues(c, x),
           call[c].pc # "wait", Quietly
    PROVE  LandInv'
  BY LandAside DEF Continues, Quietly, external

LEMMA LandDispatching ==
    ASSUME Inv, Inv', RecordInv, LandInv, NEW c \in Callers,
           \/ RetryLive(c) \/ RetryHead(c) \/ DispatchCheck(c) \/ AssertDispatch(c)
           \/ DispatchBuild(c) \/ BuildAnswer(c) \/ SettleBuild(c)
    PROVE  LandInv'
  <1>1. {"retryHead", "dispatchClaim", "assertDispatch", "buildSettle", "build",
         "buildWait"}
          \subseteq Aside
    BY DEF Aside, PCs, commitSteps, dispatchSteps
  <1>2. ASSUME NEW s \in {"verified-live", "failed", "committed", "unknown"},
               NEW d, d # "deployment_retry_dispatching",
               NEW id, NEW next \in Call, next.pc \in {"idle", "buildSettle"},
               GivesBack(c, s, d, id, next), Quietly
        PROVE  LandInv'
    BY <1>2, LandGivesBack DEF Quietly, external
  <1>3. Idle \in Call /\ Idle.pc = "idle"
    BY IdleOK DEF Idle
  <1>4. CASE RetryLive(c) \/ RetryHead(c)
    BY <1>1, <1>4, RetryLiveShape, RetryHeadShape, LandRests, LandRewrites, LandContinues
  <1>5. CASE DispatchCheck(c)
    BY <1>1, <1>2, <1>3, <1>5, DispatchCheckShape, LandRests, LandContinues
  <1>6. CASE AssertDispatch(c)
    BY <1>1, <1>2, <1>6, AssertDispatchShape, LandContinues
  <1>7. CASE SettleBuild(c)
    BY <1>2, <1>3, <1>7, SettleBuildShape, LandRests
  <1>8. CASE DispatchBuild(c) \/ BuildAnswer(c)
    <2>1. PICK k : Goto(c, k) /\ k.pc \in {"buildWait", "buildSettle"}
      <3>1. \A r : /\ [call[c] EXCEPT !.pc = "buildSettle", !.reply = r].pc = "buildSettle"
                   /\ [call[c] EXCEPT !.pc = "buildWait",
                                      !.row.deploymentId = r].pc = "buildWait"
        BY CallerFacts DEF Call
      <3> QED BY <1>8, <3>1 DEF DispatchBuild, BuildAnswer
    <2>2. /\ k \in Call /\ ApprovalMove /\ UNCHANGED <<workspace, branch, wire>>
          /\ call[c].pc # "wait"
      BY <1>8, <2>1, Typed DEF DispatchBuild, BuildAnswer, ApprovalMove, external
    <2> QED BY <1>1, <2>1, <2>2, LandAside
  <1> QED BY <1>4, <1>5, <1>6, <1>7, <1>8

LEMMA LandCaller ==
    ASSUME Inv, Inv', RecordInv, LandInv, NEW c \in Callers, CallerStep(c)
    PROVE  LandInv'
  <1>1. CASE RefreshStep(c)
    BY <1>1, RefreshShape, LandRests, LandRewrites
  <1>2. CASE WriteRow(c)
    BY <1>2, WriteShape, LandRests, LandWritten
  <1>3. CASE PublishPreflight(c) \/ claimPublication(c)
    BY <1>3, RequestShape, ClaimShape, LandRests, LandClaims
  <1>4. CASE \/ PublishGuard(c) \/ PublishRecheck(c) \/ CreateCommitCheck(c)
             \/ RevokeApproval(c) \/ SettleCommit(c)
    BY <1>4, CommitShape, LandRests, LandProceeds, LandGivesUp
  <1>5. CASE CreateCommitPost(c) \/ RetryReconcile(c)
    BY <1>5, LandPost, LandRetryReconcile
  <1>6. CASE claimFailedPublicationRetry(c) \/ DispatchClaim(c)
    BY <1>6, ClaimAgainShape, DispatchClaimShape, LandRests, LandClaimsAgain, LandDispatches
  <1>7. CASE \/ RetryLive(c) \/ RetryHead(c) \/ DispatchCheck(c) \/ AssertDispatch(c)
             \/ DispatchBuild(c) \/ BuildAnswer(c) \/ SettleBuild(c)
    BY <1>7, LandDispatching
  <1> QED BY <1>1, <1>2, <1>3, <1>4, <1>5, <1>6, <1>7 DEF CallerStep

-----------------------------------------------------------------------------
(* What the environment does to the wire and the branch *)

LEMMA LandOutside ==
    ASSUME Inv, RecordInv, LandInv, UNCHANGED <<pub, call, branch, wire>>,
           \A m \in wire : RequestOK(m) => RevisionCurrent(pub[m[1]])'
    PROVE  LandInv'
  <1>1. WireOK => WireOK'
    <2> SUFFICES ASSUME WireOK PROVE WireOK'
      OBVIOUS
    <2>1. \A m \in wire : RequestOK(m)'
      BY DEF WireOK, RequestOK
    <2> QED BY <2>1 DEF WireOK
  <1>2. LandingOK => LandingOK'
    BY DEF LandingOK, Landed, CommitsOf, ProductionHead
  <1> QED BY <1>1, <1>2 DEF LandInv

\* The row of a request has an approval that was made, of an open workspace.
LEMMA RequestFacts ==
    ASSUME Inv, RecordInv, NEW m \in wire, RequestOK(m)
    PROVE  LET a == pub[m[1]].approval
           IN  /\ m[1] \in Pubs /\ a \in Approvals /\ Made(a, approval)
               /\ approval[a].workspace \in Workspaces
               /\ workspace[approval[a].workspace].open
  <1>1. m[1] \in Pubs /\ pub[m[1]].status # "absent"
    BY DEF RequestOK, Inv, TypeOK
  <1>2. Made(pub[m[1]].approval, approval) /\ pub[m[1]].approval \in Approvals
    BY <1>1 DEF Inv, RowsOK, RowOK, Made
  <1> QED BY <1>1, <1>2 DEF Inv, ApprovalsOK, RecordInv, BasesOK

LEMMA LandWorkspaces ==
    ASSUME Inv, RecordInv, LandInv,
           \/ \E w \in Workspaces : OpenWorkspace(w) \/ SaveRevision(w)
           \/ \E w \in Workspaces, a \in Approvals : approve(w, a)
    PROVE  LandInv'
  <1>1. UNCHANGED <<pub, call, branch, wire>>
    BY DEF OpenWorkspace, SaveRevision, approve, external
  <1>2. ASSUME NEW m \in wire, RequestOK(m) PROVE RevisionCurrent(pub[m[1]])'
    <2> DEFINE a == pub[m[1]].approval
               v == approval[a].workspace
    <2>1. /\ m[1] \in Pubs /\ a \in Approvals /\ Made(a, approval) /\ v \in Workspaces
          /\ workspace[v].open
      BY <1>2, RequestFacts
    <2>2. approval[a].revision = workspace[v].revision
      BY <1>2 DEF RequestOK, RevisionCurrent, WorkspaceOf
    <2>3. pub'[m[1]].approval = a
      BY <1>1
    <2>4. /\ approval'[a].revision = approval[a].revision
          /\ approval'[a].workspace = v /\ workspace'[v].revision = workspace[v].revision
      <3>1. CASE \E w \in Workspaces : OpenWorkspace(w)
        <4>1. PICK w \in Workspaces : OpenWorkspace(w)
          BY <3>1
        <4>2. w # v /\ UNCHANGED approval
          BY <2>1, <4>1 DEF OpenWorkspace
        <4> QED BY <2>1, <4>1, <4>2 DEF OpenWorkspace, Inv, TypeOK
      <3>2. CASE \E w \in Workspaces : SaveRevision(w)
        <4>1. PICK w \in Workspaces : SaveRevision(w)
          BY <3>2
        <4>2. w # v
          <5>1. m[1] \in Present
            BY <1>2, <2>1 DEF Present, RequestOK
          <5> QED BY <1>2, <2>1, <4>1, <5>1
                DEF SaveRevision, RevisionBlocked, RequestOK, WorkspaceOf
        <4>3. workspace'[v] = workspace[v]
          BY <2>1, <4>1, <4>2 DEF SaveRevision, Inv, TypeOK
        <4>4. approval'[a] \in {approval[a], [approval[a] EXCEPT !.state = "invalidated"]}
          BY <2>1, <4>1 DEF SaveRevision, SupersededApprovals
        <4> QED BY SMTT(30), <2>1, <4>3, <4>4 DEF Inv, TypeOK, ApprovalRecord
      <3>3. CASE \E w \in Workspaces, b \in Approvals : approve(w, b)
        <4>1. PICK w \in Workspaces, b \in Approvals : approve(w, b)
          BY <3>3
        <4>2. a # b /\ UNCHANGED workspace
          BY <2>1, <4>1 DEF approve, Made
        <4>3. approval'[a] = SupersededApprovals(w)[a]
          BY <2>1, <4>1, <4>2, SupersededOK DEF approve
        <4>4. approval'[a] \in {approval[a], [approval[a] EXCEPT !.state = "invalidated"]}
          BY <2>1, <4>3 DEF SupersededApprovals
        <4> QED BY <2>1, <4>2, <4>4 DEF Inv, TypeOK, ApprovalRecord
      <3> QED BY <3>1, <3>2, <3>3
    <2> HIDE DEF a, v
    <2> QED BY <2>2, <2>3, <2>4 DEF RevisionCurrent, WorkspaceOf
  <1> QED BY <1>1, <1>2, LandOutside

\* Only the caller that waits for the answer is touched by it.
LEMMA AnswerReaches ==
    ASSUME Inv, NEW p \in Pubs, NEW c \in Callers \cup {None}, NEW reply,
           Deliver(p, c, reply), NEW d \in Callers
    PROVE  \/ call'[d] = call[d] /\ ~(d = c /\ call[d].pc = "wait" /\ call[d].pub = p)
           \/ /\ d = c /\ call[d].pc = "wait" /\ call[d].pub = p /\ call'[d].pc = "settle"
              /\ call'[d].pub = p /\ call'[d].reply \in {reply, "ambiguous"}
  <1>1. CASE d = c /\ call[d].pc = "wait" /\ call[d].pub = p
    <2>1. PICK r \in {reply, "ambiguous"} :
             call' = [call EXCEPT ![c].pc = "settle", ![c].reply = r]
      BY <1>1, ConstantsAssumption DEF Deliver, Waiting
    <2>2. call'[d].pc = "settle"
      BY <1>1, <2>1 DEF Inv, TypeOK, Call
    <2> QED BY <1>1, <2>2, Delivered
  <1>2. CASE ~(d = c /\ call[d].pc = "wait" /\ call[d].pub = p)
    BY <1>2, Delivered
  <1> QED BY <1>1, <1>2

\* A request that is answered leaves the wire.
LEMMA WireAnswers ==
    ASSUME Inv, RecordInv, WireOK, NEW p \in Pubs, NEW c \in Callers \cup {None},
           <<p, c>> \in wire, wire' = wire \ {<<p, c>>}, NEW reply, Deliver(p, c, reply),
           UNCHANGED <<workspace, approval>>
    PROVE  WireOK' /\ ~Sent(p, wire') /\ pub' = pub /\ pub[p].status = "requested"
  <1>1. pub' = pub /\ pub[p].status = "requested"
    BY DEF Deliver, WireOK, RequestOK
  <1>2. ~Sent(p, wire')
    BY DEF Sent, WireOK
  <1>3. ASSUME NEW m \in wire' PROVE RequestOK(m)'
    <2>1. RequestOK(m) /\ m[1] # p /\ m[2] \in Callers \cup {None}
      BY <1>2 DEF WireOK, Sent, Inv, TypeOK
    <2>2. m[2] # None => call'[m[2]] = call[m[2]]
      BY <2>1, AnswerReaches DEF RequestOK
    <2> QED BY <1>1, <2>1, <2>2 DEF RequestOK, RevisionCurrent, WorkspaceOf
  <1>4. ASSUME NEW d \in Callers PROVE LeaseOK(d, call'[d], pub, wire')
    <2>1. LeaseOK(d, call[d], pub, wire) /\ \A q : Sent(q, wire') => Sent(q, wire)
      BY DEF WireOK, Sent
    <2>2. CASE call'[d] = call[d] /\ ~(d = c /\ call[d].pc = "wait" /\ call[d].pub = p)
      BY <2>1, <2>2 DEF LeaseOK
    <2>3. CASE /\ d = c /\ call[d].pc = "wait" /\ call[d].pub = p
               /\ call'[d].pc = "settle" /\ call'[d].pub = p
      BY <1>2, <2>1, <2>3 DEF LeaseOK, commitSteps
    <2> QED BY <2>2, <2>3, AnswerReaches
  <1>5. \A m, n \in wire' : m[1] = n[1] => m = n
    BY DEF WireOK
  <1> QED BY <1>1, <1>2, <1>3, <1>4, <1>5 DEF WireOK

\* A commit lands.
LEMMA LandCommits ==
    ASSUME Inv, RecordInv, LandInv, NEW p \in Pubs, NEW c \in Callers \cup {None},
           GitHubCommits(p, c)
    PROVE  LandInv'
  <1> SUFFICES ASSUME "late" \notin Events, WireOK
               PROVE  WireOK' /\ (LandingOK => LandingOK')
    BY DEF LandInv
  <1>1. /\ <<p, c>> \in wire /\ wire' = wire \ {<<p, c>>} /\ Deliver(p, c, "committed")
        /\ UNCHANGED <<workspace, approval>> /\ branch' = Append(branch, p)
        /\ ProductionHead < MaxHead
    BY DEF GitHubCommits
  <1>2. WireOK' /\ ~Sent(p, wire') /\ pub' = pub /\ pub[p].status = "requested"
    BY <1>1, WireAnswers
  <1>3. ASSUME NEW q \in Pubs, q # p, Landed(q)' PROVE Landed(q)
    <2>1. /\ Len(branch) \in Nat /\ Len(branch') = Len(branch) + 1
          /\ branch'[Len(branch) + 1] = p
          /\ \A i \in 1..Len(branch) : branch'[i] = branch[i]
      BY <1>1, Extended DEF Inv, TypeOK
    <2>2. PICK i \in 1..Len(branch') : branch'[i] = q
      BY <1>3 DEF Landed, CommitsOf, ProductionHead
    <2>3. i \in 1..Len(branch) /\ branch[i] = q
      BY <1>3, <2>1, <2>2
    <2> QED BY <2>3 DEF Landed, CommitsOf, ProductionHead
  <1>4. ASSUME NEW d \in Callers, call'[d].pub = p PROVE ~Denies(d, call'[d], pub[p])
    <2>1. CASE call'[d].pc = "settle" /\ call'[d].reply \in {"committed", "ambiguous"}
      BY <2>1 DEF Denies, Untold
    <2>2. CASE call'[d] = call[d] /\ ~(d = c /\ call[d].pc = "wait" /\ call[d].pub = p)
      <3>1. LeaseOK(d, call[d], pub, wire) /\ Sent(p, wire)
            /\ (<<p, d>> \in wire => d = c)
        BY <1>1 DEF WireOK, Sent
      <3>2. ~(call[d].pc \in commitSteps /\ pub[p].lease = d)
        BY <1>4, <2>2, <3>1 DEF LeaseOK
      <3>3. ~(call[d].pc = "retryClaim" /\ call[d].fresh)
        <4> SUFFICES ASSUME call[d].pc = "retryClaim", call[d].fresh PROVE FALSE
          OBVIOUS
        <4>1. call[d].row.status = "failed" /\ call[d].pc \in CopySteps
          BY RowKnown DEF KnownOK, CopySteps
        <4> QED BY <1>2, <1>4, <2>2, <4>1, CopyFacts
      <3> QED BY <2>2, <3>2, <3>3 DEF Denies
    <2> QED BY <1>1, <2>1, <2>2, AnswerReaches
  <1>5. ASSUME LandingOK PROVE LandingOK'
    <2> SUFFICES ASSUME NEW q \in Pubs, Landed(q)'
                 PROVE  /\ Accounted(pub[q]) /\ ~Sent(q, wire')
                        /\ \A d \in Callers : call'[d].pub = q => ~Denies(d, call'[d], pub[q])
      BY <1>2 DEF LandingOK
    <2>1. CASE q = p
      BY <1>2, <1>4, <2>1 DEF Accounted
    <2>2. CASE q # p
      <3>1. /\ Accounted(pub[q]) /\ ~Sent(q, wire)
            /\ \A d \in Callers : call[d].pub = q => ~Denies(d, call[d], pub[q])
        BY <1>3, <1>5, <2>2 DEF LandingOK
      <3>2. \A d \in Callers : call'[d].pub = q => call'[d] = call[d]
        BY <1>1, <2>2, AnswerReaches
      <3> QED BY <1>1, <3>1, <3>2 DEF Sent
    <2> QED BY <2>1, <2>2
  <1> QED BY <1>2, <1>5

LEMMA LandRefuses ==
    ASSUME Inv, RecordInv, LandInv, NEW p \in Pubs, NEW c \in Callers \cup {None},
           GitHubRefuses(p, c)
    PROVE  LandInv'
  <1> SUFFICES ASSUME "late" \notin Events, WireOK
               PROVE  WireOK' /\ (LandingOK => LandingOK')
    BY DEF LandInv
  <1>1. PICK reply \in {"moved", "rejected"} : Deliver(p, c, reply)
    BY DEF GitHubRefuses
  <1>2. /\ <<p, c>> \in wire /\ wire' = wire \ {<<p, c>>}
        /\ UNCHANGED <<workspace, approval, branch>>
    BY DEF GitHubRefuses
  <1>3. WireOK' /\ pub' = pub
    BY <1>1, <1>2, WireAnswers
  <1>4. ASSUME LandingOK PROVE LandingOK'
    <2> SUFFICES ASSUME NEW q \in Pubs, Landed(q)
                 PROVE  /\ Accounted(pub[q]) /\ ~Sent(q, wire')
                        /\ \A d \in Callers : call'[d].pub = q => ~Denies(d, call'[d], pub[q])
      BY <1>2, <1>3 DEF LandingOK, Landed, CommitsOf, ProductionHead
    <2>1. /\ Accounted(pub[q]) /\ ~Sent(q, wire)
          /\ \A d \in Callers : call[d].pub = q => ~Denies(d, call[d], pub[q])
      BY <1>4 DEF LandingOK
    <2>2. q # p
      BY <1>2, <2>1 DEF Sent
    <2>3. \A d \in Callers : call'[d].pub = q => call'[d] = call[d]
      BY <1>1, <2>2, AnswerReaches
    <2> QED BY <1>2, <2>1, <2>3 DEF Sent
  <1> QED BY <1>3, <1>4

LEMMA LandCrash ==
    ASSUME Inv, RecordInv, LandInv, NEW c \in Callers, Crash(c) PROVE LandInv'
  <1> SUFFICES ASSUME "late" \notin Events, WireOK
               PROVE  WireOK' /\ (LandingOK => LandingOK')
    BY DEF LandInv
  <1> DEFINE left(m) == <<m[1], IF m[2] = c THEN None ELSE m[2]>>
  <1>1. /\ call' = [call EXCEPT ![c] = Idle] /\ call \in [Callers -> Call]
        /\ wire' = {left(m) : m \in wire} /\ c # None
        /\ UNCHANGED <<workspace, approval, pub, branch>>
    BY ConstantsAssumption DEF Crash, Inv, TypeOK
  <1>2. /\ call'[c] = Idle /\ \A d \in Callers \ {c} : call'[d] = call[d]
    BY <1>1
  <1>3. \A q : Sent(q, wire') <=> Sent(q, wire)
    <2>1. \A m : left(m)[1] = m[1]
      OBVIOUS
    <2> HIDE DEF left
    <2> QED BY <1>1, <2>1 DEF Sent
  <1>4. \A m \in wire' : RequestOK(m)'
    <2> SUFFICES ASSUME NEW m \in wire PROVE RequestOK(left(m))'
      BY <1>1
    <2>1. RequestOK(m) /\ m[2] \in Callers \cup {None}
      BY DEF WireOK, Inv, TypeOK
    <2> QED BY <1>1, <1>2, <2>1 DEF RequestOK, RevisionCurrent, WorkspaceOf
  <1>5. \A m, n \in wire' : m[1] = n[1] => m = n
    <2> SUFFICES ASSUME NEW m \in wire, NEW n \in wire, left(m)[1] = left(n)[1]
                 PROVE  left(m) = left(n)
      BY <1>1
    <2> QED BY DEF WireOK
  <1>6. ASSUME NEW d \in Callers PROVE LeaseOK(d, call'[d], pub, wire')
    <2>1. CASE d = c
      BY <1>2, <2>1 DEF LeaseOK, Idle, commitSteps
    <2>2. CASE d # c
      <3>1. LeaseOK(d, call[d], pub, wire) /\ call'[d] = call[d]
        BY <1>2, <2>2 DEF WireOK
      <3>2. <<call[d].pub, d>> \in wire => <<call[d].pub, d>> \in wire'
        <4>1. left(<<call[d].pub, d>>) = <<call[d].pub, d>>
          BY <2>2
        <4> QED BY <1>1, <4>1
      <3> QED BY <1>3, <3>1, <3>2 DEF LeaseOK
    <2> QED BY <2>1, <2>2
  <1>7. WireOK'
    BY <1>1, <1>4, <1>5, <1>6 DEF WireOK
  <1>8. ASSUME LandingOK PROVE LandingOK'
    <2>1. \A q : Landed(q)' <=> Landed(q)
      BY <1>1 DEF Landed, CommitsOf, ProductionHead
    <2>2. \A q : ~Denies(c, Idle, pub[q])
      BY DEF Denies, Idle, commitSteps
    <2> QED BY <1>1, <1>2, <1>3, <1>8, <2>1, <2>2 DEF LandingOK
  <1> QED BY <1>7, <1>8

LEMMA LandClock ==
    ASSUME Inv, RecordInv, LandInv, NEW p \in Pubs, LeaseExpires(p) \/ TimePasses(p)
    PROVE  LandInv'
  <1> SUFFICES ASSUME "late" \notin Events, WireOK
               PROVE  WireOK' /\ (LandingOK => LandingOK')
    BY DEF LandInv
  <1>1. /\ UNCHANGED <<workspace, approval, call, branch, wire>> /\ ~Sent(p, wire)
    <2>1. \A m \in wire : m[2] \in Callers \cup {None} /\ m = <<m[1], m[2]>>
      BY DEF Inv, TypeOK
    <2> QED BY <2>1 DEF LeaseExpires, TimePasses, external, Undisturbed, Sent
  <1>2. \A m \in wire : RequestOK(m)'
    <2> TAKE m \in wire
    <2>1. m[1] \in Pubs \ {p} /\ RequestOK(m)
      BY <1>1 DEF Sent, WireOK, Inv, TypeOK
    <2>2. pub'[m[1]] = pub[m[1]]
      BY <2>1, Tick
    <2> QED BY <1>1, <2>1, <2>2 DEF RequestOK, RevisionCurrent, WorkspaceOf
  <1>3. ASSUME NEW d \in Callers PROVE LeaseOK(d, call[d], pub', wire)
    <2>1. LeaseOK(d, call[d], pub, wire) /\ call[d] \in Call
          /\ HandlerOK(call[d], approval, pub, branch)
      BY CallerFacts DEF WireOK
    <2>2. CASE call[d].pub \in Pubs
      BY <2>1, <2>2, Tick DEF LeaseOK
    <2>3. CASE call[d].pub \notin Pubs
      BY <2>1, <2>3 DEF LeaseOK, HandlerOK, RowSteps, PCs, commitSteps
    <2> QED BY <2>2, <2>3
  <1>4. WireOK'
    BY <1>1, <1>2, <1>3 DEF WireOK
  <1>5. ASSUME LandingOK PROVE LandingOK'
    <2> SUFFICES ASSUME NEW q \in Pubs, Landed(q)
                 PROVE  /\ Accounted(pub'[q]) /\ ~Sent(q, wire)
                        /\ \A d \in Callers : call[d].pub = q => ~Denies(d, call[d], pub'[q])
      BY <1>1 DEF LandingOK, Landed, CommitsOf, ProductionHead
    <2>1. /\ Accounted(pub[q]) /\ ~Sent(q, wire)
          /\ \A d \in Callers : call[d].pub = q => ~Denies(d, call[d], pub[q])
      BY <1>5 DEF LandingOK
    <2>2. /\ pub'[q].status = pub[q].status /\ pub'[q].detail = pub[q].detail
          /\ pub'[q].commitSha = pub[q].commitSha /\ pub'[q].lease = pub[q].lease
      BY Tick
    <2> QED BY <2>1, <2>2
          DEF Accounted, contentPublicationHasUnresolvedGitOutcome, Denies
  <1> QED BY <1>4, <1>5

\* A commit nobody published, builds, releases and the channel.
LEMMA LandBeside ==
    ASSUME Inv, RecordInv, LandInv, UNCHANGED <<workspace, approval, pub, call, wire>>,
           \/ UNCHANGED branch \/ ExternalCommit
    PROVE  LandInv'
  <1>1. \A m \in wire : RequestOK(m) => RevisionCurrent(pub[m[1]])'
    BY DEF RequestOK, RevisionCurrent, WorkspaceOf
  <1>2. CASE UNCHANGED branch
    BY <1>1, <1>2, LandOutside
  <1>3. CASE ExternalCommit
    <2>1. WireOK => WireOK'
      BY <1>1 DEF WireOK, RequestOK
    <2>2. \A p \in Pubs : Landed(p)' => Landed(p)
      <3>1. /\ branch' = Append(branch, None) /\ ProductionHead < MaxHead
        BY <1>3 DEF ExternalCommit
      <3>2. Len(branch) \in Nat /\ Len(branch') = Len(branch) + 1
            /\ branch'[Len(branch) + 1] = None
            /\ \A j \in 1..Len(branch) : branch'[j] = branch[j]
        BY <3>1, Extended DEF Inv, TypeOK
      <3> QED BY <3>2, ConstantsAssumption DEF Landed, CommitsOf, ProductionHead
    <2>3. LandingOK => LandingOK'
      BY <2>2 DEF LandingOK
    <2> QED BY <2>1, <2>3 DEF LandInv
  <1> QED BY <1>2, <1>3

LEMMA NextLand == Inv /\ RecordInv /\ LandInv /\ [Next]_vars => LandInv'
  <1> SUFFICES ASSUME Inv, RecordInv, LandInv, [Next]_vars PROVE LandInv'
    OBVIOUS
  <1>1. Inv'
    BY NextInv
  <1>2. CASE \E c \in Callers : CallerStep(c)
    BY <1>1, <1>2, LandCaller
  <1>3. CASE Request
    BY <1>1, <1>3, LandWorkspaces, RequestShape, LandRests DEF Request
  <1>4. CASE GitHubStep
    BY <1>4, LandCommits, LandRefuses DEF GitHubStep
  <1>5. CASE Environment
    <2>1. CASE \E c \in Callers : Crash(c) \/ RefreshAbandoned(c)
      BY <1>1, <2>1, LandCrash, RefreshShape, LandRests, LandRewrites
    <2>2. CASE \E p \in Pubs, c \in Callers : RequestTimesOut(p, c)
      BY <2>2 DEF RequestTimesOut, LandInv
    <2>3. CASE ExternalCommit
      BY <2>3, LandBeside DEF ExternalCommit
    <2>4. CASE \/ ChangeChannel
               \/ \E i \in 1..MaxHead : BuildStep(i) \/ GoLive(i)
               \/ \E d \in 1..MaxDispatch : ManualBuildStep(d)
      BY <2>4, LandBeside DEF ChangeChannel, BuildStep, GoLive, ManualBuildStep
    <2> QED BY <1>5, <2>1, <2>2, <2>3, <2>4 DEF Environment
  <1>6. CASE Clock
    BY <1>6, LandClock DEF Clock
  <1>7. CASE UNCHANGED vars
    BY <1>7, LandBeside DEF vars
  <1> QED BY <1>2, <1>3, <1>4, <1>5, <1>6, <1>7 DEF Next

\* What is on the wire and what has landed stay in order in every reachable state.
THEOREM LandInvariant == Spec => [](Inv /\ RecordInv /\ LandInv)
  <1>1. Init => LandInv
    BY InitLand
  <1> QED BY <1>1, NextLand, InitInv, InitRecord, NextInv, NextRecord, PTL DEF Spec

\* Who appends to the production branch.
LEMMA BranchMoves ==
    ASSUME Inv, [Next]_vars
    PROVE  \/ UNCHANGED branch \/ ExternalCommit
           \/ \E p \in Pubs, c \in Callers \cup {None} : GitHubCommits(p, c)
  <1>1. ASSUME NEW c \in Callers, CallerStep(c) PROVE UNCHANGED branch
    BY <1>1 DEF CallerStep, RefreshStep, RefreshChannelVeto, RefreshDispatching,
         RefreshReconcile, RefreshAmbiguousDispatch, RefreshDeployment, WriteRow,
         PublishPreflight, claimPublication, PublishGuard, PublishRecheck,
         CreateCommitCheck, CreateCommitPost, RevokeApproval, SettleCommit,
         RetryReconcile, claimFailedPublicationRetry, RetryLive, RetryHead,
         DispatchClaim, DispatchCheck, AssertDispatch, DispatchBuild, BuildAnswer,
         SettleBuild, external
  <1>2. CASE Request
    BY <1>2 DEF Request, OpenWorkspace, SaveRevision, approve, publish, refresh,
                retryDeployment, external
  <1>3. CASE GitHubStep
    BY <1>3 DEF GitHubStep, GitHubRefuses
  <1>4. CASE Environment
    BY <1>4 DEF Environment, Crash, RefreshAbandoned, RequestTimesOut, ChangeChannel,
                BuildStep, GoLive, ManualBuildStep, external
  <1>5. CASE Clock
    BY <1>5 DEF Clock, LeaseExpires, TimePasses, external
  <1> QED BY <1>1, <1>2, <1>3, <1>4, <1>5 DEF Next, vars

\* A stale lease holder cannot advance the branch, as long as GitHub is done
\* with a request before its caller stops waiting.
THEOREM LandsLeased == ASSUME "late" \notin Events PROVE Spec => LandsUnderLease
  <1> DEFINE Leased == ProductionHead' > ProductionHead /\ branch'[ProductionHead'] # None =>
                 LET row == pub[branch'[ProductionHead']] IN
                 /\ row.status = "requested" /\ row.leased
                 /\ approval[row.approval].revision = workspace[WorkspaceOf(row)].revision
  <1>1. ASSUME Inv, LandInv, [Next]_vars PROVE Leased
    <2>1. CASE UNCHANGED branch
      BY <1>1, <2>1 DEF ProductionHead, Inv, TypeOK
    <2>2. CASE ExternalCommit
      <3>1. branch' = Append(branch, None) /\ ProductionHead < MaxHead
        BY <2>2 DEF ExternalCommit
      <3> QED BY <1>1, <3>1, Extended DEF ProductionHead
    <2>3. ASSUME NEW p \in Pubs, NEW c \in Callers \cup {None}, GitHubCommits(p, c)
          PROVE  Leased
      <3>1. /\ branch' = Append(branch, p) /\ ProductionHead < MaxHead
            /\ <<p, c>> \in wire
        BY <2>3 DEF GitHubCommits
      <3>2. branch'[ProductionHead'] = p
        BY <1>1, <3>1, Extended DEF ProductionHead
      <3>3. RequestOK(<<p, c>>)
        BY <1>1, <3>1 DEF LandInv, WireOK
      <3> QED BY <3>2, <3>3 DEF RequestOK, RevisionCurrent
    <2> QED BY <1>1, <2>1, <2>2, <2>3, BranchMoves
  <1>2. Inv /\ LandInv /\ [Next]_vars => [Leased]_vars
    BY <1>1
  <1>3. Spec => [][Leased]_vars
    BY <1>2, LandInvariant, PTL DEF Spec
  <1> QED BY <1>3 DEF LandsUnderLease

\* A commit that reached the branch is recorded, or still looked for, as long as
\* no answer is late and the channel's configuration stays readable and the same.
THEOREM LandedIsAccounted ==
    ASSUME "late" \notin Events, "channel" \notin Events
    PROVE  Spec => []LandedCommitAccounted
  <1>1. LandInv => LandedCommitAccounted
    BY DEF LandInv, LandingOK, Accounted, LandedCommitAccounted
  <1> QED BY <1>1, LandInvariant, PTL

-----------------------------------------------------------------------------
(* Manual builds: who may ask for one, and what the publication says of the  *)
(* one that was asked for.                                                   *)

Opens(p, asked) ==
    {d \in DOMAIN asked : /\ asked[d].pub = p
                          /\ asked[d].state \in {"sent", "building", "success"}}
Builders(p, calls) == {c \in Callers : calls[c].pc = "build" /\ calls[c].pub = p}

\* The handler c holds the dispatch claim.
Owns(c, row) == row.lease = c /\ row.detail = "deployment_retry_dispatching"

\* As long as a build is open, or about to be asked for, the row is fenced; a
\* build it names is the only one that may be open.
FencedOK(row, open, builders, asked) ==
    /\ open # {} \/ builders # {} => Fence(row) \/ row.status = "verified-live"
    /\ builders # {} => row.deploymentId <= 0 \/ row.status = "verified-live"
    /\ row.deploymentId > 0 =>
         /\ row.deploymentId \in asked
         /\ row.status # "verified-live" => open \subseteq {row.deploymentId}
    /\ \A d, e \in open : d = e

\* What a handler on its way to a build relies on.
BuilderOK(c, k, row, open, builders, asked) ==
    /\ k.pc \in commitSteps => ~Owns(c, row)
    /\ k.pc \in dispatchSteps \ {"dispatchClaim"} => k.row.dispatched
    /\ k.pc \in {"retryHead", "dispatchClaim"} /\ k.fresh /\ row.status = "failed" =>
         open = {} /\ builders = {}
    /\ k.pc \in {"dispatchCheck", "assertDispatch"} /\ Owns(c, row) =>
         open = {} /\ builders = {}
    /\ k.pc = "build" => open = {} /\ builders \subseteq {c}
    /\ k.pc = "buildWait" => k.row.deploymentId \in asked
    /\ k.pc = "buildWait" /\ Owns(c, row) =>
         builders = {} /\ open \subseteq {k.row.deploymentId}
    /\ k.pc = "buildSettle" /\ Owns(c, row) =>
         /\ builders = {}
         /\ k.reply \in {"refused", "claimLost"} => open = {}
         /\ k.reply = "accepted" => /\ open \subseteq {k.row.deploymentId}
                                    /\ k.row.deploymentId \in asked

BuildInv ==
    /\ \A p \in Pubs : FencedOK(pub[p], Opens(p, dispatches), Builders(p, call),
                                DOMAIN dispatches)
    /\ \A c \in Callers :
         BuilderOK(c, call[c], pub[call[c].pub], Opens(call[c].pub, dispatches),
                   Builders(call[c].pub, call), DOMAIN dispatches)

-----------------------------------------------------------------------------
(* What every step keeps *)

Unbusy == PCs \ (commitSteps \cup dispatchSteps \cup {"retryHead"})

LEMMA QuietBuilder ==
    ASSUME NEW c, NEW k, k.pc \in Unbusy, NEW row, NEW O, NEW B, NEW D
    PROVE  BuilderOK(c, k, row, O, B, D)
  BY DEF BuilderOK, Unbusy, dispatchSteps

\* Fewer open builds and fewer builders keep both.
LEMMA FencedCalm ==
    ASSUME NEW row, NEW O, NEW B, NEW D, FencedOK(row, O, B, D),
           NEW O2 \in SUBSET O, NEW B2 \in SUBSET B, NEW D2, D \subseteq D2
    PROVE  FencedOK(row, O2, B2, D2)
  BY DEF FencedOK

LEMMA BuilderCalm ==
    ASSUME NEW c, NEW k, NEW row, NEW O, NEW B, NEW D, BuilderOK(c, k, row, O, B, D),
           NEW O2 \in SUBSET O, NEW B2 \in SUBSET B, NEW D2, D \subseteq D2
    PROVE  BuilderOK(c, k, row, O2, B2, D2)
  BY DEF BuilderOK

LEMMA InitBuild == Init => BuildInv
  <1> SUFFICES ASSUME Init PROVE BuildInv
    OBVIOUS
  <1>1. /\ \A p \in Pubs : pub[p] = NoRow
        /\ \A c \in Callers : call[c] = Idle /\ dispatches = <<>>
    BY DEF Init
  <1>2. \A p : Opens(p, dispatches) = {} /\ Builders(p, call) = {}
    BY <1>1 DEF Init, Opens, Builders, Idle
  <1>3. \A c \in Callers : call[c].pc \in Unbusy
    BY <1>1 DEF Idle, Unbusy, PCs, commitSteps, dispatchSteps
  <1>4. \A p \in Pubs : pub[p].deploymentId = 0
    BY <1>1 DEF NoRow, NoBuild
  <1> QED BY <1>2, <1>3, <1>4, QuietBuilder DEF BuildInv, FencedOK

\* A handler that does not come to ask for a build takes a step of its own.
LEMMA BuildGo ==
    ASSUME Inv, BuildInv, NEW c \in Callers, NEW k \in Call, Goto(c, k), k.pc # "build",
           UNCHANGED dispatches,
           BuilderOK(c, k, pub[k.pub], Opens(k.pub, dispatches),
                     Builders(k.pub, call) \ {c}, DOMAIN dispatches)
    PROVE  BuildInv'
  <1>1. pub' = pub /\ call'[c] = k /\ \A d \in Callers \ {c} : call'[d] = call[d]
    BY DEF Goto, Inv, TypeOK
  <1>2. \A p : Builders(p, call') = Builders(p, call) \ {c}
    BY <1>1 DEF Builders
  <1>3. ASSUME NEW p \in Pubs
        PROVE  FencedOK(pub'[p], Opens(p, dispatches'), Builders(p, call'),
                        DOMAIN dispatches')
    BY <1>1, <1>2, FencedCalm DEF BuildInv
  <1>4. ASSUME NEW d \in Callers
        PROVE  BuilderOK(d, call'[d], pub'[call'[d].pub], Opens(call'[d].pub, dispatches'),
                         Builders(call'[d].pub, call'), DOMAIN dispatches')
    <2>1. CASE d = c
      BY <1>1, <1>2, <2>1
    <2>2. CASE d # c
      BY <1>1, <1>2, <2>2, BuilderCalm DEF BuildInv
    <2> QED BY <2>1, <2>2
  <1> QED BY <1>3, <1>4 DEF BuildInv

LEMMA BuildQuiet ==
    ASSUME Inv, BuildInv, NEW c \in Callers, NEW k \in Call, Goto(c, k), k.pc \in Unbusy,
           UNCHANGED dispatches
    PROVE  BuildInv'
  BY BuildGo, QuietBuilder DEF Unbusy, dispatchSteps

\* It writes the row of p.
LEMMA BuildStore ==
    ASSUME Inv, BuildInv, NEW c \in Callers, NEW p \in Pubs, NEW row \in Row, NEW k \in Call,
           Store(c, p, row, k), k.pc # "build", UNCHANGED dispatches,
           FencedOK(row, Opens(p, dispatches), Builders(p, call) \ {c}, DOMAIN dispatches),
           \A d \in Callers \ {c} : ~Owns(d, row),
           k.pc \in Unbusy
             \/ (k.pub = p /\ BuilderOK(c, k, row, Opens(p, dispatches),
                                        Builders(p, call) \ {c}, DOMAIN dispatches))
    PROVE  BuildInv'
  <1>1. /\ pub' = [pub EXCEPT ![p] = row] /\ pub \in [Pubs -> Row] /\ call'[c] = k
        /\ \A d \in Callers \ {c} :
             /\ call[d].pub # p => call'[d] = call[d]
             /\ call[d].pub = p => call'[d] = [call[d] EXCEPT !.fresh = FALSE]
        /\ \A d \in Callers : call[d] \in Call
    BY DEF Store, Inv, TypeOK
  <1>2. \A d \in Callers \ {c} : /\ call'[d].pc = call[d].pc /\ call'[d].pub = call[d].pub
                                 /\ call'[d].row = call[d].row
                                 /\ call'[d].reply = call[d].reply
                                 /\ call[d].pub = p => ~call'[d].fresh
    <2> TAKE d \in Callers \ {c}
    <2>1. call[d] \in Call
      BY <1>1
    <2> DEFINE over == [call[d] EXCEPT !.fresh = FALSE]
    <2>2. /\ over.pc = call[d].pc /\ over.pub = call[d].pub /\ over.row = call[d].row
          /\ over.reply = call[d].reply /\ ~over.fresh
      BY <2>1 DEF Call
    <2>3. call'[d] = IF call[d].pub = p THEN over ELSE call[d]
      BY <1>1
    <2> HIDE DEF over
    <2> QED BY <2>2, <2>3
  <1>3. \A q : Builders(q, call') = Builders(q, call) \ {c}
    BY <1>1, <1>2 DEF Builders
  <1>4. ASSUME NEW q \in Pubs
        PROVE  FencedOK(pub'[q], Opens(q, dispatches'), Builders(q, call'),
                        DOMAIN dispatches')
    <2>1. CASE q = p
      BY <1>1, <1>3, <2>1
    <2>2. CASE q # p
      BY <1>1, <1>3, <2>2, FencedCalm DEF BuildInv
    <2> QED BY <2>1, <2>2
  <1>5. ASSUME NEW d \in Callers
        PROVE  BuilderOK(d, call'[d], pub'[call'[d].pub], Opens(call'[d].pub, dispatches'),
                         Builders(call'[d].pub, call'), DOMAIN dispatches')
    <2>1. CASE d = c
      BY <1>1, <1>3, <2>1, QuietBuilder
    <2>2. CASE d # c /\ call[d].pub = p
      <3>1. BuilderOK(d, call[d], pub[p], Opens(p, dispatches), Builders(p, call),
                      DOMAIN dispatches)
        BY <2>2 DEF BuildInv
      <3>2. /\ pub'[p] = row /\ ~Owns(d, row) /\ ~call'[d].fresh /\ call'[d].pub = p
            /\ call'[d].pc = call[d].pc /\ call'[d].row = call[d].row
        BY <1>1, <1>2, <2>2
      <3> QED BY <1>3, <3>1, <3>2 DEF BuilderOK
    <2>3. CASE d # c /\ call[d].pub # p
      <3>1. call'[d] = call[d]
        BY <1>1, <2>3
      <3>2. CASE call[d].pub \in Pubs
        <4>1. pub'[call[d].pub] = pub[call[d].pub]
          BY <1>1, <2>3, <3>2
        <4> QED BY <1>3, <3>1, <4>1, BuilderCalm DEF BuildInv
      <3>3. CASE call[d].pub \notin Pubs
        <4>1. call[d].pc \in Unbusy
          BY <1>1, <3>3, CallerFacts
             DEF HandlerOK, Call, Unbusy, RowSteps, PCs, commitSteps, dispatchSteps
        <4> QED BY <3>1, <4>1, QuietBuilder
      <3> QED BY <3>2, <3>3
    <2> QED BY <2>1, <2>2, <2>3
  <1> QED BY <1>4, <1>5 DEF BuildInv

-----------------------------------------------------------------------------
(* The handlers and their builds *)

Idling(p) == Opens(p, dispatches) = {} /\ Builders(p, call) = {}

\* Without a fence nothing was asked for.
LEMMA NothingAsked ==
    ASSUME BuildInv, NEW p \in Pubs, ~Fence(pub[p]), pub[p].status # "verified-live"
    PROVE  Idling(p)
  BY DEF BuildInv, FencedOK, Idling

LEMMA IdleFenced ==
    ASSUME NEW p, Idling(p), NEW row \in Row, row.deploymentId <= 0, NEW c
    PROVE  FencedOK(row, Opens(p, dispatches), Builders(p, call) \ {c}, DOMAIN dispatches)
  <1>1. row.deploymentId \in Int
    BY ConstantsAssumption DEF Row
  <1> QED BY <1>1 DEF Idling, FencedOK

LEMMA BuildRests ==
    ASSUME Inv, BuildInv, NEW c \in Callers, Rests(c) \/ Rewrites(c) PROVE BuildInv'
  <1>1. Restful \cup {"write"} \subseteq Unbusy
    BY DEF Restful, Unbusy, PCs, commitSteps, dispatchSteps
  <1> QED BY <1>1, BuildQuiet DEF Rests, Rewrites, Quietly, external

LEMMA CallerBuild ==
    ASSUME BuildInv, NEW c \in Callers
    PROVE  BuilderOK(c, call[c], pub[call[c].pub], Opens(call[c].pub, dispatches),
                     Builders(call[c].pub, call), DOMAIN dispatches)
  BY DEF BuildInv

LEMMA BuildProceeds ==
    ASSUME Inv, BuildInv, NEW c \in Callers, Proceeds(c) PROVE BuildInv'
  <1>1. PICK k \in Call : /\ Goto(c, k) /\ {call[c].pc, k.pc} \subseteq commitSteps
                          /\ k.pub = call[c].pub /\ Quietly
    BY DEF Proceeds
  <1>2. ~Owns(c, pub[k.pub])
    BY <1>1, CallerBuild DEF BuilderOK
  <1>3. BuilderOK(c, k, pub[k.pub], Opens(k.pub, dispatches), Builders(k.pub, call) \ {c},
                  DOMAIN dispatches)
    BY <1>1, <1>2 DEF BuilderOK, commitSteps, dispatchSteps
  <1>4. k.pc # "build"
    BY <1>1 DEF commitSteps
  <1> QED BY <1>1, <1>3, <1>4, BuildGo DEF Quietly, external

LEMMA BuildGivesUp ==
    ASSUME Inv, RecordInv, BuildInv, NEW c \in Callers, GivesUp(c) PROVE BuildInv'
  <1> DEFINE p == call[c].pub
  <1>1. PICK row \in Row :
          /\ call[c].pc \in commitSteps /\ HoldsLease(c, p) /\ Store(c, p, row, Idle)
          /\ row.lease = None /\ row.deploymentId = call[c].row.deploymentId /\ Quietly
    BY DEF GivesUp
  <1>2. /\ p \in Pubs /\ call[c].row.commitSha = 0 /\ RowShape(call[c].row)
    BY <1>1, CommitFacts
  <1>3. row.deploymentId = 0
    BY <1>1, <1>2 DEF RowShape, NoBuild
  <1>4. pub[p].status = "requested" /\ RowShape(pub[p])
    BY <1>1, <1>2, CallerBuild DEF BuilderOK, Owns, HoldsLease, RecordInv, RecordsOK
  <1>5. Idling(p)
    BY <1>2, <1>4, NothingAsked DEF RowShape, Fence
  <1>6. Idle \in Call /\ Idle.pc \in Unbusy /\ Idle.pc # "build"
    BY IdleOK DEF Idle, Unbusy, PCs, commitSteps, dispatchSteps
  <1>7. \A d \in Callers \ {c} : ~Owns(d, row)
    BY <1>1, ConstantsAssumption DEF Owns
  <1>8. FencedOK(row, Opens(p, dispatches), Builders(p, call) \ {c}, DOMAIN dispatches)
    BY <1>3, <1>5, IdleFenced
  <1>9. UNCHANGED dispatches
    BY <1>1 DEF Quietly, external
  <1> QED BY <1>1, <1>2, <1>6, <1>7, <1>8, <1>9, BuildStore

LEMMA BuildWritten ==
    ASSUME Inv, RecordInv, BuildInv, NEW c \in Callers, Written(c) PROVE BuildInv'
  <1> DEFINE p == call[c].pub
  <1>1. PICK row \in Row, k \in Call :
          /\ Store(c, p, row, k) /\ call[c].pc = "write" /\ call[c].fresh
          /\ p \in Pubs /\ row = Timed(p, call[c].row)
          /\ UpdatePermitted(pub[p], call[c].row) /\ k.pc \in Restful /\ Quietly
    BY DEF Written
  <1>2. /\ call[c].row \in Row /\ call[c].pc \in RowSteps
        /\ KnownOK(call[c], pub, branch, released) /\ CopyOK(call[c], pub)
    BY <1>1, CallerFacts, RowKnown DEF RowSteps, PCs
  <1>3. /\ row.status = call[c].row.status /\ row.detail = call[c].row.detail
        /\ row.deploymentId = call[c].row.deploymentId
        /\ row.dispatched = call[c].row.dispatched
    BY <1>1, <1>2, TimedRecord
  <1>4. /\ row.detail # "deployment_retry_dispatching"
        /\ row.deploymentId \in {pub[p].deploymentId, 0}
        /\ Fence(pub[p]) => Fence(row) \/ row.status = "verified-live"
        /\ pub[p].status # "verified-live"
    BY <1>1, <1>2, <1>3 DEF KnownOK, CopyOK, Fence, UpdatePermitted, NoBuild
  <1>5. FencedOK(pub[p], Opens(p, dispatches), Builders(p, call), DOMAIN dispatches)
    BY <1>1 DEF BuildInv
  <1>6. FencedOK(row, Opens(p, dispatches), Builders(p, call) \ {c}, DOMAIN dispatches)
    BY <1>4, <1>5 DEF FencedOK
  <1>7. k.pc \in Unbusy /\ k.pc # "build"
    BY <1>1 DEF Restful, Unbusy, PCs, commitSteps, dispatchSteps
  <1>8. \A d \in Callers \ {c} : ~Owns(d, row)
    BY <1>4 DEF Owns
  <1> QED BY <1>1, <1>6, <1>7, <1>8, BuildStore DEF Quietly, external

\* A claim on the slot for a commit of a publication that has none.
LEMMA BuildClaims ==
    ASSUME Inv, RecordInv, BuildInv, NEW c \in Callers, Claims(c) \/ ClaimsAgain(c)
    PROVE  BuildInv'
  <1>1. PICK p \in Pubs, row \in Row, k \in Call :
          /\ Store(c, p, row, k) /\ pub[p].status # "verified-live" /\ pub[p].commitSha = 0
          /\ row.deploymentId = 0 /\ row.detail # "deployment_retry_dispatching"
          /\ k = Idle \/ (k.pc \in commitSteps /\ k.pub = p)
          /\ Quietly
    <2>1. CASE Claims(c)
      <3>1. PICK row \in Row, k \in Call :
              /\ call[c].key \in Pubs /\ pub[call[c].key].status = "absent"
              /\ Store(c, call[c].key, row, k)
              /\ row.deploymentId = NoBuild /\ row.detail # "deployment_retry_dispatching"
              /\ k = Idle \/ (k.pc = "guard" /\ k.pub = call[c].key)
              /\ Quietly
        BY <2>1 DEF Claims
      <3>2. pub[call[c].key].commitSha = 0
        BY <3>1 DEF Inv, RowsOK, RowOK
      <3> QED BY <3>1, <3>2 DEF NoBuild, commitSteps
    <2>2. CASE ClaimsAgain(c)
      <3>1. PICK row \in Row, k \in Call :
              /\ call[c].pc = "retryClaim" /\ call[c].fresh /\ call[c].pub \in Pubs
              /\ pub[call[c].pub].status = "failed" /\ Store(c, call[c].pub, row, k)
              /\ row.detail = "git_result_unknown"
              /\ row.deploymentId = call[c].row.deploymentId
              /\ k.pc = "commit" /\ k.pub = call[c].pub /\ Quietly
        BY <2>2 DEF ClaimsAgain
      <3>2. call[c].row.commitSha = 0 /\ RowShape(call[c].row)
            /\ pub[call[c].pub].commitSha = 0
        <4>1. call[c].pc \in CommitUnknown /\ call[c].pc \in CopySteps
          BY <3>1 DEF CommitUnknown, CopySteps
        <4> QED BY <3>1, <4>1, CommitRow, CopyFacts
      <3> QED BY <3>1, <3>2 DEF RowShape, NoBuild, commitSteps
    <2> QED BY <2>1, <2>2
  <1>2. Idling(p)
    BY <1>1, NothingAsked DEF RecordInv, RecordsOK, RowShape, Fence
  <1>3. \A d : ~Owns(d, row)
    BY <1>1 DEF Owns
  <1>4. Idle.pc \in Unbusy
    BY DEF Idle, Unbusy, PCs, commitSteps, dispatchSteps
  <1>5. /\ k.pc # "build"
        /\ k.pc \in Unbusy
           \/ (k.pub = p /\ BuilderOK(c, k, row, Opens(p, dispatches),
                                      Builders(p, call) \ {c}, DOMAIN dispatches))
    BY <1>1, <1>3, <1>4 DEF BuilderOK, Unbusy, commitSteps, dispatchSteps
  <1>6. FencedOK(row, Opens(p, dispatches), Builders(p, call) \ {c}, DOMAIN dispatches)
    BY <1>1, <1>2, IdleFenced
  <1>7. UNCHANGED dispatches
    BY <1>1 DEF Quietly, external
  <1> QED BY <1>1, <1>3, <1>5, <1>6, <1>7, BuildStore

-----------------------------------------------------------------------------
\* A retry that is free to ask for a build finds none open, and nobody asking.
LEMMA FreeToAsk ==
    ASSUME Inv, RecordInv, BuildInv, NEW c \in Callers, call[c].pc = "retryLive",
           MayAskAgain(call[c].row), call[c].fresh, pub[call[c].pub].status = "failed"
    PROVE  Idling(call[c].pub)
  <1> DEFINE p == call[c].pub
             row == call[c].row
             id == row.deploymentId
  <1>1. /\ call[c].pc \in CopySteps /\ call[c].pc \in RowSteps
    BY DEF CopySteps, RowSteps, PCs
  <1>2. /\ p \in Pubs /\ row \in Row /\ pub[p].detail = row.detail
        /\ pub[p].deploymentId = id /\ pub[p].dispatched = row.dispatched
    BY <1>1, CopyFacts, RowStepFacts
  <1>3. CASE ~Fence(pub[p])
    BY <1>2, <1>3, NothingAsked
  <1>4. CASE Fence(pub[p])
    <2>1. /\ deploymentRetryDispatchWasAttempted(row) /\ ~ReconciledNeedsCheck(row)
      BY <1>2, <1>4 DEF Fence, deploymentRetryDispatchWasAttempted, ReconciledNeedsCheck
    <2>2. /\ RecordedBuild(row).deploymentId # NoBuild
          /\ "failed" \in DeploymentReads(RecordedBuild(row))
      BY <2>1 DEF MayAskAgain, MayDispatchAfter
    <2>3. id \in -1..MaxDispatch /\ MaxDispatch \in Nat
      BY <1>2, ConstantsAssumption DEF Row
    <2>4. id > 0 /\ RecordedBuild(row).deploymentId = id
      BY <1>2, <2>2, <2>3 DEF RecordedBuild, NoBuild, DispatchToken, Row
    <2>5. dispatches[id].state = "failed"
      BY <2>2, <2>4 DEF DeploymentReads, BuildStatus
    <2>6. FencedOK(pub[p], Opens(p, dispatches), Builders(p, call), DOMAIN dispatches)
      BY <1>2 DEF BuildInv
    <2>7. Opens(p, dispatches) \subseteq {id}
      BY <1>2, <2>4, <2>6 DEF FencedOK
    <2>8. id \notin Opens(p, dispatches)
      BY <2>5 DEF Opens
    <2>9. Builders(p, call) = {}
      BY <1>2, <2>3, <2>4, <2>6 DEF FencedOK
    <2> QED BY <2>7, <2>8, <2>9 DEF Idling
  <1> QED BY <1>3, <1>4

\* A handler goes on with its row, not yet asking for a build.
LEMMA BuildContinues ==
    ASSUME Inv, BuildInv, NEW c \in Callers, NEW x, x # "build", x # "buildWait",
           Continues(c, x), UNCHANGED dispatches,
           x \in commitSteps => ~Owns(c, pub[call[c].pub]),
           x \in dispatchSteps \ {"dispatchClaim"} => call[c].row.dispatched,
           x \in {"retryHead", "dispatchClaim"} /\ call[c].fresh
             /\ pub[call[c].pub].status = "failed" => Idling(call[c].pub),
           x \in {"dispatchCheck", "assertDispatch", "buildSettle"}
             /\ Owns(c, pub[call[c].pub]) => Idling(call[c].pub)
    PROVE  BuildInv'
  <1>1. PICK k \in Call : /\ Goto(c, k) /\ k.pc = x /\ k.pub = call[c].pub
                          /\ k.row = call[c].row /\ k.fresh = call[c].fresh
                          /\ x = "buildSettle" => k.reply = "claimLost"
    BY DEF Continues
  <1>2. BuilderOK(c, k, pub[k.pub], Opens(k.pub, dispatches), Builders(k.pub, call) \ {c},
                  DOMAIN dispatches)
    BY <1>1 DEF BuilderOK, Idling
  <1> QED BY <1>1, <1>2, BuildGo

\* A retry that has found nothing open claims the slot for its build.
LEMMA BuildDispatches ==
    ASSUME Inv, RecordInv, BuildInv, NEW c \in Callers, Dispatches(c) PROVE BuildInv'
  <1> DEFINE p == call[c].pub
  <1>1. PICK row \in Row, k \in Call :
          /\ call[c].pc = "dispatchClaim" /\ call[c].fresh /\ p \in Pubs
          /\ pub[p].status = "failed" /\ Store(c, p, row, k)
          /\ row.lease = c /\ row.dispatched /\ row.deploymentId = DispatchToken
          /\ k.pc = "dispatchCheck" /\ k.pub = p /\ k.row = row /\ Quietly
    BY DEF Dispatches
  <1>2. Idling(p)
    BY <1>1, CallerBuild DEF BuilderOK, Idling
  <1>3. FencedOK(row, Opens(p, dispatches), Builders(p, call) \ {c}, DOMAIN dispatches)
    BY <1>1, <1>2, IdleFenced DEF DispatchToken
  <1>4. BuilderOK(c, k, row, Opens(p, dispatches), Builders(p, call) \ {c},
                  DOMAIN dispatches)
    BY <1>1, <1>2 DEF BuilderOK, Idling, commitSteps
  <1>5. UNCHANGED dispatches /\ \A d \in Callers \ {c} : ~Owns(d, row)
    BY <1>1 DEF Quietly, external, Owns
  <1> QED BY <1>1, <1>3, <1>4, <1>5, BuildStore

\* It gives the claim up, with a row that keeps the fence its builds need.
LEMMA BuildGivesBack ==
    ASSUME Inv, RecordInv, BuildInv, NEW c \in Callers, NEW s, NEW d,
           d # "deployment_retry_dispatching", NEW id, NEW next \in Call,
           GivesBack(c, s, d, id, next), UNCHANGED dispatches,
           \/ next.pc \in Unbusy
           \/ next.pc = "buildSettle" /\ next.pub = call[c].pub /\ next.row.dispatched,
           \A row \in Row :
             /\ row.status = s /\ row.detail = d /\ row.deploymentId = id
             /\ row.dispatched = call[c].row.dispatched
             => FencedOK(row, Opens(call[c].pub, dispatches),
                         Builders(call[c].pub, call) \ {c}, DOMAIN dispatches)
    PROVE  BuildInv'
  <1> DEFINE p == call[c].pub
  <1>1. PICK row \in Row :
          /\ p \in Pubs /\ Store(c, p, row, next) /\ row.status = s /\ row.detail = d
          /\ row.deploymentId = id /\ row.dispatched = call[c].row.dispatched
    BY DEF GivesBack
  <1>2. \A e : ~Owns(e, row)
    BY <1>1 DEF Owns
  <1>3. /\ next.pc # "build"
        /\ next.pc \in Unbusy
           \/ (next.pub = p /\ BuilderOK(c, next, row, Opens(p, dispatches),
                                         Builders(p, call) \ {c}, DOMAIN dispatches))
    BY <1>2 DEF BuilderOK, Unbusy, commitSteps, dispatchSteps
  <1> QED BY <1>1, <1>2, <1>3, BuildStore

\* The handler that may give its claim up owns it.
LEMMA GivesBackOwns ==
    ASSUME BuildInv, NEW c \in Callers, NEW s, NEW d, NEW id, NEW next,
           GivesBack(c, s, d, id, next)
    PROVE  Owns(c, pub[call[c].pub]) /\ call[c].pub \in Pubs
  BY DEF GivesBack, HoldsLease, Owns

\* The request is about to go out.
LEMMA BuildAsks ==
    ASSUME Inv, RecordInv, BuildInv, NEW c \in Callers, call[c].pc = "assertDispatch",
           Continues(c, "build"), HoldsLease(c, call[c].pub),
           pub[call[c].pub].status = "committed", UNCHANGED dispatches
    PROVE  BuildInv'
  <1> DEFINE p == call[c].pub
  <1>1. PICK k \in Call : /\ Goto(c, k) /\ k.pc = "build" /\ k.pub = p
                          /\ k.row = call[c].row /\ call[c].pc \in RowSteps
    BY DEF Continues
  <1>2. /\ p \in Pubs /\ Owns(c, pub[p]) /\ RowShape(pub[p])
    BY <1>1, RowStepFacts DEF HoldsLease, Owns, RecordInv, RecordsOK
  <1>3. Idling(p) /\ call[c].row.dispatched
    BY <1>2, CallerBuild DEF BuilderOK, Idling, dispatchSteps
  <1>4. pub' = pub /\ call'[c] = k /\ \A d \in Callers \ {c} : call'[d] = call[d]
    BY <1>1 DEF Goto, Inv, TypeOK
  <1>5. /\ \A q : q # p => Builders(q, call') \subseteq Builders(q, call)
        /\ Builders(p, call') = {c}
    BY <1>1, <1>3, <1>4 DEF Builders, Idling
  <1>6. ASSUME NEW q \in Pubs
        PROVE  FencedOK(pub'[q], Opens(q, dispatches'), Builders(q, call'),
                        DOMAIN dispatches')
    <2>1. FencedOK(pub[q], Opens(q, dispatches), Builders(q, call), DOMAIN dispatches)
      BY DEF BuildInv
    <2>2. CASE q # p
      BY <1>4, <1>5, <2>1, <2>2, FencedCalm
    <2>3. CASE q = p
      <3>1. Fence(pub[p]) /\ pub[p].deploymentId = -1
        BY <1>2 DEF Owns, RowShape, Fence, deploymentRetryDispatchEvidence, DispatchToken
      <3> QED BY <1>3, <1>4, <2>3, <3>1 DEF FencedOK, Idling
    <2> QED BY <2>2, <2>3
  <1>7. ASSUME NEW d \in Callers
        PROVE  BuilderOK(d, call'[d], pub'[call'[d].pub], Opens(call'[d].pub, dispatches'),
                         Builders(call'[d].pub, call'), DOMAIN dispatches')
    <2>1. CASE d = c
      BY <1>1, <1>3, <1>4, <1>5, <2>1 DEF BuilderOK, Idling, commitSteps
    <2>2. CASE d # c /\ call[d].pub # p
      BY <1>4, <1>5, <2>2, CallerBuild, BuilderCalm
    <2>3. CASE d # c /\ call[d].pub = p
      <3>1. BuilderOK(d, call[d], pub[p], {}, {}, DOMAIN dispatches)
        BY <1>3, <2>3, CallerBuild DEF Idling
      <3>2. ~Owns(d, pub[p]) /\ pub[p].status = "committed" /\ call[d].pc # "build"
        BY <1>2, <1>3, <2>3 DEF Owns, Idling, Builders
      <3> QED BY <1>3, <1>4, <2>3, <3>1, <3>2 DEF BuilderOK, Idling
    <2> QED BY <2>1, <2>2, <2>3
  <1> QED BY <1>6, <1>7 DEF BuildInv

-----------------------------------------------------------------------------
\* A handler between its claim and its answer.
LEMMA DispatchFacts ==
    ASSUME Inv, RecordInv, BuildInv, NEW c \in Callers,
           call[c].pc \in dispatchSteps \ {"dispatchClaim"}
    PROVE  /\ call[c] \in Call /\ call[c].pub \in Pubs /\ call[c].row \in Row
           /\ call[c].row.dispatched /\ call[c].row.commitSha # 0
           /\ pub[call[c].pub].commitSha # 0 \/ ~Owns(c, pub[call[c].pub])
  <1>1. call[c].pc \in RowSteps
    BY DEF RowSteps, PCs, dispatchSteps
  <1>2. call[c].row.dispatched
    BY CallerBuild DEF BuilderOK
  <1>3. call[c].row.commitSha # 0 /\ call[c].pub \in Pubs
    BY <1>1, RowKnown, RowStepFacts DEF KnownOK
  <1> QED BY <1>1, <1>2, <1>3, CallerFacts DEF RecordInv, RecordsOK, RowShape, Owns

\* A handler that gives the claim up before it asked, or knows nothing is open.
LEMMA BuildFrees ==
    ASSUME Inv, RecordInv, BuildInv, NEW c \in Callers, NEW s, NEW d,
           d # "deployment_retry_dispatching", NEW next \in Call,
           GivesBack(c, s, d, NoBuild, next), UNCHANGED dispatches,
           Owns(c, pub[call[c].pub]) => Idling(call[c].pub),
           \/ next.pc \in Unbusy
           \/ next.pc = "buildSettle" /\ next.pub = call[c].pub /\ next.row.dispatched
    PROVE  BuildInv'
  <1> DEFINE p == call[c].pub
  <1>1. Idling(p)
    BY GivesBackOwns
  <1>2. \A row \in Row : row.deploymentId = NoBuild =>
          FencedOK(row, Opens(p, dispatches), Builders(p, call) \ {c}, DOMAIN dispatches)
    BY <1>1, IdleFenced DEF NoBuild
  <1> QED BY <1>2, BuildGivesBack

LEMMA IdleUnbusy == Idle \in Call /\ Idle.pc \in Unbusy
  BY IdleOK DEF Idle, Unbusy, PCs, commitSteps, dispatchSteps

LEMMA BuildSteps ==
    ASSUME Inv, Inv', RecordInv, BuildInv, NEW c \in Callers,
           RetryLive(c) \/ RetryHead(c) \/ DispatchCheck(c) \/ AssertDispatch(c)
    PROVE  BuildInv'
  <1> DEFINE p == call[c].pub
  <1>1. CASE RetryLive(c)
    <2>1. CASE Continues(c, "retryHead") /\ MayAskAgain(call[c].row)
      <3>1. UNCHANGED dispatches /\ call[c].pc = "retryLive"
        BY <1>1, RetryLiveShape DEF Quietly, external
      <3>2. call[c].fresh /\ pub[p].status = "failed" => Idling(p)
        BY <2>1, <3>1, FreeToAsk
      <3> QED BY <2>1, <3>1, <3>2, BuildContinues DEF commitSteps, dispatchSteps
    <2> QED BY <1>1, <2>1, RetryLiveShape, BuildRests
  <1>2. CASE RetryHead(c)
    <2>1. CASE Continues(c, "dispatchClaim") /\ call[c].pc = "retryHead" /\ Quietly
      <3>1. call[c].fresh /\ pub[p].status = "failed" => Idling(p)
        BY <2>1, CallerBuild DEF BuilderOK, Idling
      <3> QED BY <2>1, <3>1, BuildContinues DEF commitSteps, Quietly, external
    <2> QED BY <1>2, <2>1, RetryHeadShape, BuildRests
  <1>3. ASSUME call[c].pc \in {"dispatchCheck", "assertDispatch"}
        PROVE  /\ Owns(c, pub[p]) => Idling(p)
               /\ call[c].row.dispatched
    <2>1. call[c].pc \in dispatchSteps \ {"dispatchClaim"}
      BY <1>3 DEF dispatchSteps
    <2> QED BY <1>3, <2>1, CallerBuild, DispatchFacts DEF BuilderOK, Idling
  <1>4. CASE DispatchCheck(c)
    <2>1. call[c].pc = "dispatchCheck" /\ UNCHANGED dispatches
      BY <1>4, DispatchCheckShape DEF Quietly, external
    <2>2. CASE Continues(c, "assertDispatch")
      BY <1>3, <2>1, <2>2, BuildContinues DEF commitSteps
    <2>3. ASSUME NEW d \in Details \ {"deployment_retry_dispatching"},
                 GivesBack(c, "failed", d, NoBuild, Idle)
          PROVE  BuildInv'
      BY <1>3, <2>1, <2>3, IdleUnbusy, BuildFrees
    <2> QED BY <1>4, <2>2, <2>3, DispatchCheckShape, BuildRests
  <1>5. CASE AssertDispatch(c)
    <2>1. call[c].pc = "assertDispatch" /\ UNCHANGED dispatches
      BY <1>5, AssertDispatchShape DEF Quietly, external
    <2>2. CASE Continues(c, "buildSettle")
      BY <1>3, <2>1, <2>2, BuildContinues DEF commitSteps
    <2>3. CASE /\ Continues(c, "build") /\ HoldsLease(c, p) /\ pub[p].status = "committed"
      BY <2>1, <2>3, BuildAsks
    <2>4. ASSUME NEW s \in {"verified-live", "failed"}, NEW k \in Call,
                 NEW d \in Details \ {"deployment_retry_dispatching"},
                 GivesBack(c, s, d, NoBuild, k), k.pc = "buildSettle", k.pub = p,
                 k.row = call[c].row
          PROVE  BuildInv'
      BY <1>3, <2>1, <2>4, BuildFrees
    <2> QED BY <1>5, <2>2, <2>3, <2>4, AssertDispatchShape
  <1> QED BY <1>1, <1>2, <1>4, <1>5

\* The answer, or its loss, once the request went out or failed on the way.
LEMMA BuildReplied ==
    ASSUME Inv, Inv', RecordInv, BuildInv, NEW c \in Callers, NEW r \in BuildReplies,
           Goto(c, [call[c] EXCEPT !.pc = "buildSettle", !.reply = r]),
           UNCHANGED dispatches,
           \/ call[c].pc = "build" /\ r = "ambiguous"
           \/ /\ call[c].pc = "buildWait" /\ r # "claimLost"
              /\ r = "refused" => dispatches[call[c].row.deploymentId].state = "refused"
    PROVE  BuildInv'
  <1> DEFINE k == [call[c] EXCEPT !.pc = "buildSettle", !.reply = r]
             p == call[c].pub
             id == call[c].row.deploymentId
             O == Opens(p, dispatches)
             B == Builders(p, call)
  <1>1. call[c] \in Call /\ call[c].row.dispatched
    BY DispatchFacts DEF dispatchSteps
  <1>2. k.pc = "buildSettle" /\ k.reply = r /\ k.pub = p /\ k.row = call[c].row
    BY <1>1 DEF Call
  <1>3. k \in Call
    BY Typed
  <1>4. BuilderOK(c, call[c], pub[p], O, B, DOMAIN dispatches)
    BY CallerBuild
  <1>5. Goto(c, k)
    OBVIOUS
  <1> HIDE DEF k
  <1>6. ASSUME Owns(c, pub[p])
        PROVE  /\ B \ {c} = {}
               /\ r \in {"refused", "claimLost"} => O = {}
               /\ r = "accepted" => O \subseteq {id} /\ id \in DOMAIN dispatches
    <2>1. CASE call[c].pc = "build"
      BY <1>4, <2>1 DEF BuilderOK
    <2>2. CASE call[c].pc = "buildWait"
      <3>1. B = {} /\ O \subseteq {id} /\ id \in DOMAIN dispatches
        BY <1>4, <1>6, <2>2 DEF BuilderOK
      <3>2. r = "refused" => id \notin O
        BY <2>2 DEF Opens
      <3> QED BY <2>2, <3>1, <3>2
    <2> QED BY <2>1, <2>2
  <1>7. BuilderOK(c, k, pub[p], O, B \ {c}, DOMAIN dispatches)
    BY <1>1, <1>2, <1>6 DEF BuilderOK, commitSteps
  <1> QED BY <1>2, <1>3, <1>5, <1>7, BuildGo

\* The request goes out.
LEMMA BuildSent ==
    ASSUME Inv, Inv', RecordInv, BuildInv, NEW c \in Callers, call[c].pc = "build",
           dispatches' = Append(dispatches, [pub |-> call[c].pub,
                                  sha |-> call[c].row.commitSha, state |-> "sent"]),
           Goto(c, [call[c] EXCEPT !.pc = "buildWait",
                                   !.row.deploymentId = Len(dispatches) + 1])
    PROVE  BuildInv'
  <1> DEFINE n == Len(dispatches) + 1
             k == [call[c] EXCEPT !.pc = "buildWait", !.row.deploymentId = n]
             p == call[c].pub
  <1>1. /\ call[c] \in Call /\ call[c].row \in Row /\ call[c].row.dispatched /\ p \in Pubs
    BY DispatchFacts DEF dispatchSteps
  <1>2. k.pc = "buildWait" /\ k.pub = p /\ k.row.deploymentId = n /\ k.row.dispatched
    BY <1>1 DEF Call, Row
  <1>3. pub' = pub /\ call'[c] = k /\ \A d \in Callers \ {c} : call'[d] = call[d]
    BY DEF Goto, Inv, TypeOK
  <1>4. Opens(p, dispatches) = {} /\ Builders(p, call) = {c}
    BY CallerBuild DEF BuilderOK, Builders
  <1>5. /\ Len(dispatches) \in Nat /\ DOMAIN dispatches = 1..Len(dispatches)
        /\ DOMAIN dispatches' = 1..n /\ dispatches'[n].pub = p
        /\ \A d \in DOMAIN dispatches : dispatches'[d] = dispatches[d]
    BY DEF Inv, TypeOK
  <1>6. n \in DOMAIN dispatches' /\ DOMAIN dispatches \subseteq DOMAIN dispatches'
        /\ DOMAIN dispatches' = DOMAIN dispatches \cup {n}
    BY <1>5
  <1>7. /\ Opens(p, dispatches') \subseteq {n}
        /\ \A q : q # p => Opens(q, dispatches') \subseteq Opens(q, dispatches)
    BY <1>4, <1>5, <1>6 DEF Opens
  <1> HIDE DEF k, n
  <1>8. /\ Builders(p, call') = {}
        /\ \A q : Builders(q, call') \subseteq Builders(q, call)
    BY <1>2, <1>3, <1>4 DEF Builders
  <1>9. ASSUME NEW q \in Pubs
        PROVE  FencedOK(pub'[q], Opens(q, dispatches'), Builders(q, call'),
                        DOMAIN dispatches')
    <2>1. FencedOK(pub[q], Opens(q, dispatches), Builders(q, call), DOMAIN dispatches)
      BY DEF BuildInv
    <2>2. CASE q # p
      BY <1>3, <1>6, <1>7, <1>8, <2>1, <2>2, FencedCalm
    <2>3. CASE q = p
      <3>1. /\ Fence(pub[p]) \/ pub[p].status = "verified-live"
            /\ pub[p].deploymentId <= 0 \/ pub[p].status = "verified-live"
            /\ pub[p].deploymentId > 0 => pub[p].deploymentId \in DOMAIN dispatches
            /\ pub[p].deploymentId \in Int
        <4>1. pub[p] \in Row /\ MaxDispatch \in Nat
          BY <1>1, ConstantsAssumption DEF Inv, TypeOK
        <4>2. pub[p].deploymentId \in Int
          BY <4>1 DEF Row
        <4> QED BY <1>4, <2>1, <2>3, <4>2 DEF FencedOK
      <3> QED BY <1>3, <1>6, <1>7, <1>8, <2>3, <3>1 DEF FencedOK
    <2> QED BY <2>2, <2>3
  <1>10. ASSUME NEW d \in Callers
         PROVE  BuilderOK(d, call'[d], pub'[call'[d].pub], Opens(call'[d].pub, dispatches'),
                          Builders(call'[d].pub, call'), DOMAIN dispatches')
    <2>1. CASE d = c
      BY <1>2, <1>3, <1>6, <1>7, <1>8, <2>1 DEF BuilderOK, commitSteps, dispatchSteps
    <2>2. CASE d # c /\ call[d].pub # p
      BY <1>3, <1>6, <1>7, <1>8, <2>2, CallerBuild, BuilderCalm
    <2>3. CASE d # c /\ call[d].pub = p
      <3>1. BuilderOK(d, call[d], pub[p], {}, {c}, DOMAIN dispatches)
        BY <1>4, <2>3, CallerBuild
      <3>2. call[d].pc # "build" /\ call'[d] = call[d] /\ pub'[p] = pub[p]
        BY <1>3, <1>4, <2>3 DEF Builders
      <3>3. BuilderOK(d, call[d], pub[p], Opens(p, dispatches'), {}, DOMAIN dispatches')
        BY <1>6, <3>1, <3>2 DEF BuilderOK
      <3> QED BY <1>8, <2>3, <3>2, <3>3
    <2> QED BY <2>1, <2>2, <2>3
  <1> QED BY <1>9, <1>10 DEF BuildInv

\* The answer is recorded under the claim, if the handler still has it.
LEMMA BuildSettles ==
    ASSUME Inv, Inv', RecordInv, BuildInv, NEW c \in Callers, SettleBuild(c)
    PROVE  BuildInv'
  <1> DEFINE p == call[c].pub
             O == Opens(p, dispatches)
             B == Builders(p, call)
             id == call[c].row.deploymentId
  <1>1. call[c].pc = "buildSettle" /\ UNCHANGED dispatches
    BY SettleBuildShape DEF Quietly, external
  <1>2. BuilderOK(c, call[c], pub[p], O, B, DOMAIN dispatches) /\ call[c].row.dispatched
        /\ call[c].row \in Row
    BY <1>1, CallerBuild, DispatchFacts DEF dispatchSteps
  <1>3. ASSUME NEW d, d # "deployment_retry_dispatching",
               call[c].reply \in {"refused", "claimLost"},
               GivesBack(c, "failed", d, NoBuild, Idle)
        PROVE  BuildInv'
    <2>1. Owns(c, pub[p]) => Idling(p)
      BY <1>1, <1>2, <1>3 DEF BuilderOK, Idling
    <2> QED BY <1>1, <1>3, <2>1, IdleUnbusy, BuildFrees
  <1>4. ASSUME call[c].reply = "accepted",
               GivesBack(c, "committed", "deployment_retry_requested", id, Idle)
        PROVE  BuildInv'
    <2>1. B = {} /\ O \subseteq {id} /\ id \in DOMAIN dispatches
      BY <1>1, <1>2, <1>4, GivesBackOwns DEF BuilderOK
    <2>2. ASSUME NEW row \in Row, row.detail = "deployment_retry_requested",
                 row.deploymentId = id, row.dispatched = call[c].row.dispatched
          PROVE  FencedOK(row, O, B \ {c}, DOMAIN dispatches)
      BY <1>2, <2>1, <2>2 DEF FencedOK, Fence, deploymentRetryDispatchEvidence
    <2>3. PICK i : i = call[c].row.deploymentId
      OBVIOUS
    <2>4. \A row \in Row :
            /\ row.status = "committed" /\ row.detail = "deployment_retry_requested"
            /\ row.deploymentId = i /\ row.dispatched = call[c].row.dispatched
            => FencedOK(row, O, B \ {c}, DOMAIN dispatches)
      BY <2>2, <2>3
    <2>5. GivesBack(c, "committed", "deployment_retry_requested", i, Idle)
      BY <1>4, <2>3
    <2> HIDE DEF O, B, id
    <2> QED BY <1>1, <2>4, <2>5, IdleUnbusy, BuildGivesBack DEF O, B
  <1>5. ASSUME call[c].reply = "ambiguous",
               GivesBack(c, "unknown", "deployment_retry_result_unknown", NoBuild, Idle)
        PROVE  BuildInv'
    <2>1. B = {} /\ \A d, e \in O : d = e
      BY <1>1, <1>2, <1>5, GivesBackOwns DEF BuilderOK, BuildInv, FencedOK
    <2>2. ASSUME NEW row \in Row, row.detail = "deployment_retry_result_unknown",
                 row.deploymentId = NoBuild, row.dispatched = call[c].row.dispatched
          PROVE  FencedOK(row, O, B \ {c}, DOMAIN dispatches)
      BY <1>2, <2>1, <2>2 DEF FencedOK, Fence, deploymentRetryDispatchEvidence, NoBuild
    <2> HIDE DEF O, B, id
    <2> QED BY <1>1, <1>5, <2>2, IdleUnbusy, BuildGivesBack DEF O, B
  <1> QED BY <1>3, <1>4, <1>5, SettleBuildShape, BuildRests

-----------------------------------------------------------------------------
LEMMA BuildCaller ==
    ASSUME Inv, Inv', RecordInv, BuildInv, NEW c \in Callers, CallerStep(c)
    PROVE  BuildInv'
  <1>1. CASE RefreshStep(c)
    BY <1>1, RefreshShape, BuildRests
  <1>2. CASE WriteRow(c)
    BY <1>2, WriteShape, BuildRests, BuildWritten
  <1>3. CASE PublishPreflight(c) \/ claimPublication(c) \/ claimFailedPublicationRetry(c)
    BY <1>3, RequestShape, ClaimShape, ClaimAgainShape, BuildRests, BuildClaims
  <1>4. CASE \/ PublishGuard(c) \/ PublishRecheck(c) \/ CreateCommitCheck(c)
             \/ RevokeApproval(c) \/ SettleCommit(c)
    BY <1>4, CommitShape, BuildRests, BuildProceeds, BuildGivesUp
  <1>5. CASE CreateCommitPost(c)
    <2>1. PICK k : Goto(c, k) /\ k.pc \in {"wait", "settle"} /\ k.pub = call[c].pub
      <3> DEFINE sent == [call[c] EXCEPT !.pc = "wait"]
                 answered(r) == [call[c] EXCEPT !.pc = "settle", !.reply = r]
      <3>1. sent.pc = "wait" /\ sent.pub = call[c].pub
        BY CallerFacts DEF Call
      <3>2. ASSUME NEW r PROVE answered(r).pc = "settle" /\ answered(r).pub = call[c].pub
        BY CallerFacts DEF Call
      <3>3. Goto(c, sent) \/ Goto(c, answered("lost")) \/ Goto(c, answered("rejected"))
        BY <1>5 DEF CreateCommitPost, Answered
      <3> HIDE DEF sent, answered
      <3> QED BY <3>1, <3>2, <3>3
    <2>2. k \in Call /\ UNCHANGED dispatches /\ call[c].pc = "post"
      BY <1>5, <2>1, Typed DEF CreateCommitPost
    <2>3. ~Owns(c, pub[k.pub])
      BY <2>1, <2>2, CallerBuild DEF BuilderOK, commitSteps
    <2>4. BuilderOK(c, k, pub[k.pub], Opens(k.pub, dispatches),
                    Builders(k.pub, call) \ {c}, DOMAIN dispatches)
      BY <2>1, <2>3 DEF BuilderOK, dispatchSteps
    <2> QED BY <2>1, <2>2, <2>4, BuildGo
  <1>6. CASE RetryReconcile(c)
    <2>1. PICK k : Goto(c, k) /\ k.pc \in {"idle", "write", "retryClaim"}
      <3>1. /\ Idle.pc = "idle" /\ [call[c] EXCEPT !.pc = "retryClaim"].pc = "retryClaim"
            /\ \A r : [call[c] EXCEPT !.pc = "write", !.resume = "retryLive",
                                      !.row = r].pc = "write"
        BY CallerFacts DEF Idle, Call
      <3> QED BY <1>6, <3>1 DEF RetryReconcile
    <2>2. k \in Call /\ UNCHANGED dispatches /\ k.pc \in Unbusy
      BY <1>6, <2>1, Typed
         DEF RetryReconcile, external, Unbusy, PCs, commitSteps, dispatchSteps
    <2> QED BY <2>1, <2>2, BuildQuiet
  <1>7. CASE DispatchClaim(c)
    BY <1>7, DispatchClaimShape, BuildRests, BuildDispatches
  <1>8. CASE RetryLive(c) \/ RetryHead(c) \/ DispatchCheck(c) \/ AssertDispatch(c)
    BY <1>8, BuildSteps
  <1>9. CASE DispatchBuild(c)
    BY <1>9, BuildSent, BuildReplied DEF DispatchBuild, BuildReplies
  <1>10. CASE BuildAnswer(c)
    BY <1>10, BuildReplied DEF BuildAnswer, BuildReplies, external
  <1>11. CASE SettleBuild(c)
    BY <1>11, BuildSettles
  <1> QED BY <1>1, <1>2, <1>3, <1>4, <1>5, <1>6, <1>7, <1>8, <1>9, <1>10, <1>11
        DEF CallerStep

\* An answer from GitHub, or its loss.
LEMMA BuildDelivered ==
    ASSUME Inv, Inv', BuildInv, NEW p \in Pubs, NEW c \in Callers \cup {None}, NEW reply,
           Deliver(p, c, reply), UNCHANGED dispatches
    PROVE  BuildInv'
  <1>1. CASE ~Waiting(p, c)
    BY <1>1 DEF Deliver, BuildInv
  <1>2. CASE Waiting(p, c)
    <2>1. PICK r : call' = [call EXCEPT ![c].pc = "settle", ![c].reply = r]
      BY <1>2 DEF Deliver
    <2>2. c \in Callers /\ call[c].pc = "wait" /\ pub' = pub /\ call \in [Callers -> Call]
      BY <1>2 DEF Deliver, Waiting, Inv, TypeOK
    <2> DEFINE k == [call[c] EXCEPT !.pc = "settle", !.reply = r]
    <2>3. Goto(c, k)
      BY <2>1, <2>2 DEF Goto
    <2>4. k.pc = "settle" /\ k.pub = call[c].pub
      BY <2>2 DEF Call
    <2>5. k \in Call
      BY <2>2, <2>3, Typed
    <2> HIDE DEF k
    <2>6. ~Owns(c, pub[k.pub])
      BY <2>2, <2>4, CallerBuild DEF BuilderOK, commitSteps
    <2>7. BuilderOK(c, k, pub[k.pub], Opens(k.pub, dispatches),
                    Builders(k.pub, call) \ {c}, DOMAIN dispatches)
      BY <2>4, <2>6 DEF BuilderOK, dispatchSteps
    <2> QED BY <2>2, <2>3, <2>4, <2>5, <2>7, BuildGo
  <1> QED BY <1>1, <1>2

\* A handler dies, or stops waiting for GitHub.
LEMMA BuildStops ==
    ASSUME Inv, Inv', BuildInv, NEW c \in Callers,
           Crash(c) \/ \E p \in Pubs : RequestTimesOut(p, c)
    PROVE  BuildInv'
  <1>1. CASE Crash(c)
    <2>1. Goto(c, Idle) /\ UNCHANGED dispatches
      BY <1>1 DEF Crash, Goto
    <2> QED BY <2>1, IdleUnbusy, BuildQuiet
  <1>2. CASE \E p \in Pubs : RequestTimesOut(p, c)
    <2> DEFINE k == [call[c] EXCEPT !.pc = "settle", !.reply = "ambiguous"]
    <2>1. Goto(c, k) /\ UNCHANGED dispatches /\ call[c].pc = "wait"
      BY <1>2 DEF RequestTimesOut, Waiting, Answered
    <2>2. k.pc = "settle" /\ k.pub = call[c].pub
      BY CallerFacts DEF Call
    <2>3. k \in Call
      BY <2>1, Typed
    <2> HIDE DEF k
    <2>4. ~Owns(c, pub[k.pub])
      BY <2>1, <2>2, CallerBuild DEF BuilderOK, commitSteps
    <2>5. BuilderOK(c, k, pub[k.pub], Opens(k.pub, dispatches),
                    Builders(k.pub, call) \ {c}, DOMAIN dispatches)
      BY <2>2, <2>4 DEF BuilderOK, dispatchSteps
    <2> QED BY <2>1, <2>2, <2>3, <2>5, BuildGo
  <1> QED BY <1>1, <1>2

\* A build goes on; none is opened.
LEMMA BuildEnds ==
    ASSUME Inv, BuildInv, NEW d \in 1..MaxDispatch, ManualBuildStep(d) PROVE BuildInv'
  <1>1. PICK s : /\ dispatches' = [dispatches EXCEPT ![d].state = s]
                 /\ dispatches[d].state \in {"sent", "building"}
    BY DEF ManualBuildStep
  <1>2. /\ pub' = pub /\ call' = call /\ dispatches \in Seq(Dispatch)
        /\ d \in DOMAIN dispatches
    BY DEF ManualBuildStep, Inv, TypeOK
  <1>3. /\ DOMAIN dispatches' = DOMAIN dispatches
        /\ \A e \in DOMAIN dispatches : /\ dispatches'[e].pub = dispatches[e].pub
                                        /\ e # d => dispatches'[e] = dispatches[e]
    <2>1. dispatches[d] \in Dispatch /\ dispatches'[d] = [dispatches[d] EXCEPT !.state = s]
      BY <1>1, <1>2
    <2>2. dispatches'[d].pub = dispatches[d].pub
      BY <2>1 DEF Dispatch
    <2> QED BY <1>1, <1>2, <2>2
  <1>4. \A p : Opens(p, dispatches') \subseteq Opens(p, dispatches)
    BY <1>1, <1>3 DEF Opens
  <1>5. \A p \in Pubs : FencedOK(pub'[p], Opens(p, dispatches'), Builders(p, call'),
                                 DOMAIN dispatches')
    BY <1>2, <1>3, <1>4, FencedCalm DEF BuildInv
  <1>6. \A c \in Callers :
          BuilderOK(c, call'[c], pub'[call'[c].pub], Opens(call'[c].pub, dispatches'),
                    Builders(call'[c].pub, call'), DOMAIN dispatches')
    BY <1>2, <1>3, <1>4, CallerBuild, BuilderCalm
  <1> QED BY <1>5, <1>6 DEF BuildInv

LEMMA BuildClock ==
    ASSUME Inv, BuildInv, NEW p \in Pubs, LeaseExpires(p) \/ TimePasses(p)
    PROVE  BuildInv'
  <1>1. UNCHANGED <<call, dispatches>>
    BY DEF LeaseExpires, TimePasses, external
  <1>2. \A q \in Pubs : /\ pub'[q].status = pub[q].status /\ pub'[q].detail = pub[q].detail
                        /\ pub'[q].lease = pub[q].lease
                        /\ pub'[q].dispatched = pub[q].dispatched
                        /\ pub'[q].deploymentId = pub[q].deploymentId
    <2> TAKE q \in Pubs
    <2> QED BY Tick
  <1>3. \A q \in Pubs : FencedOK(pub'[q], Opens(q, dispatches'), Builders(q, call'),
                                 DOMAIN dispatches')
    BY <1>1, <1>2 DEF BuildInv, FencedOK, Fence
  <1>4. ASSUME NEW c \in Callers
        PROVE  BuilderOK(c, call[c], pub'[call[c].pub], Opens(call[c].pub, dispatches),
                         Builders(call[c].pub, call), DOMAIN dispatches)
    <2>1. CASE call[c].pub \in Pubs
      <3>1. /\ \A e : Owns(e, pub'[call[c].pub]) <=> Owns(e, pub[call[c].pub])
            /\ pub'[call[c].pub].status = pub[call[c].pub].status
        BY <1>2, <2>1 DEF Owns
      <3> QED BY <3>1, CallerBuild DEF BuilderOK
    <2>2. CASE call[c].pub \notin Pubs
      <3>1. call[c].pc \in Unbusy
        BY <2>2, CallerFacts
           DEF HandlerOK, Call, Unbusy, RowSteps, PCs, commitSteps, dispatchSteps
      <3> QED BY <3>1, QuietBuilder
    <2> QED BY <2>1, <2>2
  <1> QED BY <1>1, <1>3, <1>4 DEF BuildInv

LEMMA NextBuild == Inv /\ RecordInv /\ BuildInv /\ [Next]_vars => BuildInv'
  <1> SUFFICES ASSUME Inv, RecordInv, BuildInv, [Next]_vars PROVE BuildInv'
    OBVIOUS
  <1>1. Inv'
    BY NextInv
  <1>2. UNCHANGED <<pub, call, dispatches>> => BuildInv'
    BY DEF BuildInv
  <1>3. CASE \E c \in Callers : CallerStep(c)
    BY <1>1, <1>3, BuildCaller
  <1>4. CASE Request
    <2>1. CASE \/ \E w \in Workspaces : OpenWorkspace(w) \/ SaveRevision(w)
               \/ \E w \in Workspaces, a \in Approvals : approve(w, a)
      BY <1>2, <2>1 DEF OpenWorkspace, SaveRevision, approve, external
    <2> QED BY <1>1, <1>4, <2>1, RequestShape, BuildRests DEF Request
  <1>5. CASE GitHubStep
    BY <1>1, <1>5, BuildDelivered DEF GitHubStep, GitHubCommits, GitHubRefuses
  <1>6. CASE Environment
    <2>1. CASE \E c \in Callers : RefreshAbandoned(c)
      BY <1>1, <2>1, RefreshShape, BuildRests
    <2>2. CASE \/ \E c \in Callers : Crash(c)
               \/ \E p \in Pubs, c \in Callers : RequestTimesOut(p, c)
      BY <1>1, <2>2, BuildStops
    <2>3. CASE \E d \in 1..MaxDispatch : ManualBuildStep(d)
      BY <2>3, BuildEnds
    <2>4. CASE \/ ExternalCommit \/ ChangeChannel
               \/ \E i \in 1..MaxHead : BuildStep(i) \/ GoLive(i)
      BY <1>2, <2>4 DEF ExternalCommit, ChangeChannel, BuildStep, GoLive
    <2> QED BY <1>6, <2>1, <2>2, <2>3, <2>4 DEF Environment
  <1>7. CASE Clock
    BY <1>7, BuildClock DEF Clock
  <1>8. CASE UNCHANGED vars
    BY <1>2, <1>8 DEF vars
  <1> QED BY <1>3, <1>4, <1>5, <1>6, <1>7, <1>8 DEF Next

LEMMA AskedOf ==
    ASSUME Inv, NEW d \in DOMAIN dispatches PROVE dispatches[d].pub \in Pubs
  <1>1. dispatches \in Seq(Dispatch)
    BY DEF Inv, TypeOK
  <1>2. dispatches[d] \in Dispatch
    BY <1>1
  <1> QED BY <1>2 DEF Dispatch

\* The fence and its builds stay in order in every reachable state.
THEOREM BuildInvariant == Spec => [](Inv /\ RecordInv /\ BuildInv)
  BY InitInv, InitRecord, InitBuild, NextInv, NextRecord, NextBuild, PTL DEF Spec

\* Whatever retries, crashes, timeouts and late answers interleave, no second
\* manual build of a publication is requested while one is unanswered, running
\* or successful.
THEOREM BuildIsExclusive == Spec => []NoSecondBuild
  <1>1. ASSUME Inv, BuildInv PROVE NoSecondBuild
    <2> SUFFICES ASSUME NEW d \in DOMAIN dispatches, NEW e \in DOMAIN dispatches,
                        dispatches[d].pub = dispatches[e].pub, OpenBuild(d), OpenBuild(e)
                 PROVE  d = e
      BY DEF NoSecondBuild
    <2> DEFINE p == dispatches[d].pub
    <2>1. p \in Pubs
      BY <1>1, AskedOf
    <2>2. d \in Opens(p, dispatches) /\ e \in Opens(p, dispatches)
      BY DEF Opens, OpenBuild
    <2> QED BY <1>1, <2>1, <2>2 DEF BuildInv, FencedOK
  <1> QED BY <1>1, BuildInvariant, PTL

\* As long as a requested build may still run, the publication says so, for
\* every retry and refresh to see, or is verified live.
THEOREM BuildIsFenced == Spec => []OpenBuildIsFenced
  <1>1. ASSUME Inv, BuildInv PROVE OpenBuildIsFenced
    <2> SUFFICES ASSUME NEW d \in DOMAIN dispatches, OpenBuild(d)
                 PROVE  \/ pub[dispatches[d].pub].status = "verified-live"
                        \/ deploymentRetryDispatchWasAttempted(pub[dispatches[d].pub])
      BY DEF OpenBuildIsFenced
    <2> DEFINE p == dispatches[d].pub
    <2>1. p \in Pubs
      BY <1>1, AskedOf
    <2>2. d \in Opens(p, dispatches)
      BY DEF Opens, OpenBuild
    <2>3. Fence(pub[p]) \/ pub[p].status = "verified-live"
      BY <1>1, <2>1, <2>2 DEF BuildInv, FencedOK
    <2> QED BY <2>3 DEF Fence, deploymentRetryDispatchWasAttempted
  <1> QED BY <1>1, BuildInvariant, PTL
=============================================================================
