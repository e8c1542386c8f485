----------------------- MODULE BlogPostScheduleProofs -----------------------
(***************************************************************************)
(* Theorems about BlogPostSchedule, for any number of schedules, calls,    *)
(* attempts, publications, approvals and versions.                         *)
(***************************************************************************)
EXTENDS BlogPostSchedule, TLAPS

LEMMA ScheduleSteps ==
    ASSUME ScheduleNext
    PROVE  \/ \E w \in Workers, s \in Schedules : claimDueSchedule(w, s)
           \/ \E w \in Workers, s \in Schedules, kind \in Kinds :
                 retryExecutionForActor(w, s, kind)
           \/ \E w \in Workers : claimSchedule(w)
           \/ \E w \in Workers : RecheckClaim(w)
           \/ \E w \in Workers : retryExecution(w)
           \/ \E w \in Workers : StartPublication(w)
           \/ \E w \in Workers : RetryPublication(w)
           \/ \E w \in Workers : ResumePublication(w)
           \/ \E w \in Workers : executionOutcome(w)
           \/ \E w \in Workers : recordExecutionOutcome(w)
           \/ \E w \in Workers : Crash(w)
           \/ \E w \in Workers, seen \in {"blocked", "unknown"} : AdvanceThrows(w, seen)
           \/ \E s \in Schedules : LeaseExpires(s)
           \/ \E s \in Schedules : ComesDue(s)
           \/ approve
           \/ EditPost
           \/ \E s \in Schedules : saveSchedule(s)
           \/ \E s \in Schedules : cancelSchedule(s)
           \/ \E p \in Publications, status \in Active \cup Ended : Refresh(p, status)
           \/ \E s \in Schedules : retryDeployment(s)
           \/ \E p \in Publications : CommitLeaseExpires(p)
           \/ \E p \in Publications : reconcileVerifiedBlogPostPublication(p)
           \/ PublishOther
           \/ archive
           \/ PublishWithdrawal
           \/ confirmArchiveWithdrawal
           \/ restore
  BY Zenon DEF ScheduleNext, SchedulerStep, Kinds

-----------------------------------------------------------------------------
(* The inductive invariant *)

\* Only a claimed execution is leased.
LeaseIsClaim == \A s \in Schedules : execution[s].leased => execution[s].state = "claimed"

\* A call at work is about a schedule; what it is about to record is one of four
\* outcomes, and it records "completed" only of a publication that is live.
CallsAgree ==
    \A w \in Workers :
        /\ worker[w].phase # "idle" => worker[w].schedule \in Schedules
        /\ worker[w].phase = "recording" =>
              /\ worker[w].seen \in {"blocked", "failed", "unknown", "completed"}
              /\ worker[w].seen = "completed" => publication[worker[w].schedule] = "live"

\* As long as the holder of the reservation has not published, its authority
\* stands and nobody else publishes.
HolderIsAuthorized ==
    \A s \in Schedules : reserved = s /\ publication[s] = "none" =>
        /\ CurrentAuthority(s)
        /\ \A p \in Publications \ {s} : publication[p] \notin Active

\* A post on its way down has no approval and no scheduled publication that runs
\* or waits to be reconciled.
DownIsQuiet ==
    post.collection # "active" =>
        /\ approval = NoApproval
        /\ \A s \in Schedules : publication[s] \notin Active /\ ~Unreconciled(s)
        /\ post.collection = "archived" => ~post.live

ScheduleInv ==
    /\ ScheduleTypeOK
    /\ OnePublication
    /\ ReservationHasClaimant
    /\ ScheduleAgreesWithExecution
    /\ LeaseIsClaim
    /\ CallsAgree
    /\ HolderIsAuthorized
    /\ DownIsQuiet
-----------------------------------------------------------------------------
(* Types *)

ScheduleRows == [state : ScheduleStates, due : BOOLEAN, approval : 0..MaxApprovals,
                 base : 0..MaxPublications, version : Nat]
ExecutionRows == [state : ExecutionStates, attempt : 0..MaxAttempts, leased : BOOLEAN]
Statuses == {"none"} \cup Active \cup Ended
WorkerRows == [phase : {"idle", "claiming", "rechecking", "leased", "advancing",
                        "recording"} \cup Kinds,
               schedule : Schedules \cup {NoSchedule}, attempt : 0..MaxAttempts,
               seen : ExecutionStates]

RowsOK == /\ schedule \in [Schedules -> ScheduleRows]
          /\ execution \in [Schedules -> ExecutionRows]
          /\ reserved \in Schedules \cup {NoSchedule}

PublicationsOK == /\ publication \in [Publications -> Statuses]
                  /\ sequence \in [Publications -> 0..MaxPublications]
                  /\ started \in 0..MaxPublications
                  /\ production \in 0..MaxPublications

PostOK == /\ approvals \in 0..MaxApprovals
          /\ approval \in [number : 0..MaxApprovals, base : 0..MaxPublications]
          /\ post \in [collection : {"active", "archiving", "archived"}, version : Nat,
                       live : BOOLEAN, reconciled : 0..MaxPublications]

CallsOK == worker \in [Workers -> WorkerRows]

RowTypes == RowsOK /\ PublicationsOK /\ PostOK /\ CallsOK

LEMMA TypesAre == ScheduleTypeOK <=> RowTypes
  BY Zenon DEF ScheduleTypeOK, RowTypes, RowsOK, PublicationsOK, PostOK, CallsOK,
               ScheduleRows, ExecutionRows, Statuses, WorkerRows

LEMMA TypesWillBe == ScheduleTypeOK' <=> RowTypes'
  BY Zenon DEF ScheduleTypeOK, RowTypes, RowsOK, PublicationsOK, PostOK, CallsOK,
               ScheduleRows, ExecutionRows, Statuses, WorkerRows

LEMMA TypesKept ==
    ASSUME RowTypes
    PROVE  /\ UNCHANGED <<schedule, execution, reserved>> => RowsOK'
           /\ UNCHANGED <<publication, sequence, started, production>> => PublicationsOK'
           /\ UNCHANGED <<approval, approvals, post>> => PostOK'
           /\ UNCHANGED worker => CallsOK'
  BY DEF RowTypes, RowsOK, PublicationsOK, PostOK, CallsOK

LEMMA RowUpdates ==
    ASSUME RowsOK
    PROVE  /\ \A s \in Schedules, state \in ScheduleStates :
                 [schedule EXCEPT ![s].state = state] \in [Schedules -> ScheduleRows]
           /\ \A s \in Schedules, row \in ExecutionRows :
                 [execution EXCEPT ![s] = row] \in [Schedules -> ExecutionRows]
           /\ \A s \in Schedules, state \in ExecutionStates :
                 [execution EXCEPT ![s].state = state, ![s].leased = FALSE]
                     \in [Schedules -> ExecutionRows]
<1> USE DEF RowsOK
<1>1. ASSUME NEW s \in Schedules, NEW state \in ScheduleStates
      PROVE  [schedule EXCEPT ![s].state = state] \in [Schedules -> ScheduleRows]
  BY DEF ScheduleRows
<1>2. ASSUME NEW s \in Schedules, NEW state \in ExecutionStates
      PROVE  [execution EXCEPT ![s].state = state, ![s].leased = FALSE]
                 \in [Schedules -> ExecutionRows]
  BY DEF ExecutionRows
<1> QED BY <1>1, <1>2

LEMMA IdleTypes == Idle \in WorkerRows
  BY ScheduleAssumption DEF Idle, WorkerRows, ExecutionStates

LEMMA CallsAbout ==
    ASSUME CallsAgree, NEW w \in Workers, worker[w].phase # "idle"
    PROVE  worker[w].schedule \in Schedules
  BY DEF CallsAgree

LEMMA CallEnds ==
    ASSUME CallsOK, NEW w \in Workers, worker' = [worker EXCEPT ![w] = Idle]
    PROVE  CallsOK'
  BY IdleTypes DEF CallsOK

LEMMA CallMoves ==
    ASSUME CallsOK, NEW w \in Workers, NEW phase \in {"rechecking", "leased", "advancing"},
           NEW attempt \in 0..MaxAttempts,
           \/ worker' = [worker EXCEPT ![w].phase = phase]
           \/ worker' = [worker EXCEPT ![w].phase = phase, ![w].attempt = attempt]
    PROVE  CallsOK'
  BY DEF CallsOK, WorkerRows

LEMMA CallRecords ==
    ASSUME CallsOK, NEW w \in Workers, NEW seen \in ExecutionStates,
           worker' = [worker EXCEPT ![w].phase = "recording", ![w].seen = seen]
    PROVE  CallsOK'
  BY DEF CallsOK, WorkerRows

LEMMA InvalidationTypes ==
    ASSUME RowsOK, NEW hit
    PROVE  /\ ScheduleAfterInvalidation(hit) \in [Schedules -> ScheduleRows]
           /\ ExecutionAfterInvalidation(hit) \in [Schedules -> ExecutionRows]
           /\ ReservationAfterInvalidation(hit) \in Schedules \cup {NoSchedule}
<1> USE DEF RowsOK
<1>1. ScheduleAfterInvalidation(hit) \in [Schedules -> ScheduleRows]
  BY DEF ScheduleAfterInvalidation, ScheduleRows, ScheduleStates
<1>2. ExecutionAfterInvalidation(hit) \in [Schedules -> ExecutionRows]
  BY DEF ExecutionAfterInvalidation, ExecutionRows, ExecutionStates
<1>3. ReservationAfterInvalidation(hit) \in Schedules \cup {NoSchedule}
  BY DEF ReservationAfterInvalidation
<1> QED BY <1>1, <1>2, <1>3

LEMMA NoApprovalTypes == NoApproval \in [number : 0..MaxApprovals, base : 0..MaxPublications]
  BY ScheduleAssumption DEF NoApproval

LEMMA InvalidateTypes ==
    ASSUME RowTypes, NEW hit, InvalidateApproval(hit), UNCHANGED <<approvals, post>>
    PROVE  RowsOK' /\ PostOK'
<1>1. RowsOK'
  BY InvalidationTypes DEF InvalidateApproval, RowTypes, RowsOK
<1>2. PostOK'
  BY NoApprovalTypes DEF InvalidateApproval, RowTypes, PostOK
<1> QED BY <1>1, <1>2

LEMMA ValidateTypes ==
    ASSUME RowTypes, NEW w \in Workers, NEW s \in Schedules, UNCHANGED <<approvals, post>>,
           NEW phase \in {"claiming"} \cup Kinds, validateApprovalAuthority(s, phase, w)
    PROVE  RowsOK' /\ PostOK' /\ CallsOK'
<1> DEFINE row == [Idle EXCEPT !.phase = phase, !.schedule = s, !.attempt = execution[s].attempt]
<1>1. row \in WorkerRows
  BY IdleTypes DEF WorkerRows, ExecutionRows, RowTypes, RowsOK
<1>2. CASE UNCHANGED <<schedule, execution, reserved, approval>> /\
           worker' = [worker EXCEPT ![w] = row]
  <2>1. CallsOK'
    BY <1>1, <1>2 DEF RowTypes, CallsOK
  <2> QED BY <1>2, <2>1, TypesKept
<1>3. CASE InvalidateApproval(UnderApproval) /\ UNCHANGED worker
  BY <1>3, InvalidateTypes, TypesKept
<1> QED BY <1>2, <1>3 DEF validateApprovalAuthority

\* The post's collection and version move, its live and reconciled stay.
LEMMA PostMoves ==
    ASSUME PostOK, NEW collection \in {"active", "archiving", "archived"}, NEW version \in Nat,
           \/ post' = [post EXCEPT !.collection = collection, !.version = version]
           \/ post' = [post EXCEPT !.version = version, !.collection = collection],
           approvals' = approvals, approval' \in {approval, NoApproval}
    PROVE  PostOK'
  BY NoApprovalTypes DEF PostOK

LEMMA TypesStep ==
    ASSUME RowTypes, CallsAgree, ScheduleNext
    PROVE  RowTypes'
<1>0. RowsOK /\ PublicationsOK /\ PostOK /\ CallsOK
  BY DEF RowTypes
<1>1. ASSUME NEW w \in Workers, NEW s \in Schedules, claimDueSchedule(w, s)
      PROVE  RowTypes'
  BY <1>1, ValidateTypes, TypesKept DEF claimDueSchedule, RowTypes
<1>2. ASSUME NEW w \in Workers, NEW s \in Schedules, NEW kind \in Kinds,
             retryExecutionForActor(w, s, kind)
      PROVE  RowTypes'
  BY <1>2, ValidateTypes, TypesKept DEF retryExecutionForActor, RowTypes
<1>3. ASSUME NEW w \in Workers, claimSchedule(w) PROVE RowTypes'
  <2> DEFINE s == worker[w].schedule
             row == [state |-> "claimed", attempt |-> 1, leased |-> TRUE]
  <2>1. s \in Schedules
    BY <1>3, CallsAbout DEF claimSchedule
  <2>2. 1 \in 0..MaxAttempts /\ row \in ExecutionRows
    BY ScheduleAssumption DEF ExecutionRows, ExecutionStates
  <2>3. CASE ~ClaimPermits(s)
    <3>1. CallsOK'
      BY <1>0, <1>3, <2>3, CallEnds DEF claimSchedule
    <3> QED BY <1>3, <2>3, <3>1, TypesKept DEF claimSchedule, RowTypes
  <2>4. CASE ClaimPermits(s)
    <3>1. /\ schedule' = [schedule EXCEPT ![s].state = "claimed"]
          /\ execution' = [execution EXCEPT ![s] = row]
          /\ reserved' = s
          /\ worker' = [worker EXCEPT ![w].phase = "rechecking", ![w].attempt = 1]
      BY <1>3, <2>4 DEF claimSchedule
    <3>2. CallsOK'
      BY <1>0, <2>2, <3>1, CallMoves
    <3>3. RowsOK'
      BY <1>0, <2>1, <2>2, <3>1, RowUpdates DEF RowsOK, ScheduleStates
    <3> QED BY <1>3, <3>2, <3>3, TypesKept DEF claimSchedule, RowTypes
  <2> QED BY <2>3, <2>4
<1>4. ASSUME NEW w \in Workers, RecheckClaim(w) PROVE RowTypes'
  <2>1. \/ worker' = [worker EXCEPT ![w].phase = "leased"]
        \/ worker' = [worker EXCEPT ![w].phase = "recording", ![w].seen = "blocked"]
    BY <1>0, <1>4 DEF RecheckClaim, CallsOK, WorkerRows
  <2>2. 0 \in 0..MaxAttempts /\ "blocked" \in ExecutionStates
    BY ScheduleAssumption DEF ExecutionStates
  <2>3. CallsOK'
    BY <1>0, <2>1, <2>2, CallMoves, CallRecords
  <2> QED BY <1>4, <2>3, TypesKept DEF RecheckClaim, RowTypes
<1>5. ASSUME NEW w \in Workers, retryExecution(w) PROVE RowTypes'
  <2> DEFINE s == worker[w].schedule
             next == execution[s].attempt + 1
             row == [state |-> "claimed", attempt |-> next, leased |-> TRUE]
  <2>1. s \in Schedules
    BY <1>5, CallsAbout DEF retryExecution
  <2>2. CASE ~RetryPermits(w)
    <3>1. CallsOK'
      BY <1>0, <1>5, <2>2, CallEnds DEF retryExecution
    <3> QED BY <1>5, <2>2, <3>1, TypesKept DEF retryExecution, RowTypes
  <2>3. CASE RetryPermits(w)
    <3>1. next \in 0..MaxAttempts /\ row \in ExecutionRows
      BY <1>0, <2>1, <2>3, ScheduleAssumption
         DEF RetryPermits, RowsOK, ExecutionRows, ExecutionStates
    <3>2. /\ schedule' = [schedule EXCEPT ![s].state = IF schedule[s].state = "completed"
                                                       THEN "completed" ELSE "claimed"]
          /\ execution' = [execution EXCEPT ![s] = row]
          /\ reserved' = s
          /\ worker' = [worker EXCEPT ![w].phase = "leased", ![w].attempt = next]
      BY <1>5, <2>3 DEF retryExecution
    <3>3. CallsOK'
      BY <1>0, <3>1, <3>2, CallMoves
    <3>4. schedule' \in [Schedules -> ScheduleRows]
      BY <1>0, <2>1, <3>2, RowUpdates DEF ScheduleStates
    <3>5. RowsOK'
      BY <1>0, <2>1, <3>1, <3>2, <3>4, RowUpdates DEF RowsOK
    <3> QED BY <1>5, <3>3, <3>5, TypesKept DEF retryExecution, RowTypes
  <2> QED BY <2>2, <2>3
<1>6. ASSUME NEW p \in Publications, NEW status \in Statuses,
             started < MaxPublications, Begin(p, status), UNCHANGED production
      PROVE  PublicationsOK'
  BY <1>0, <1>6, ScheduleAssumption DEF Begin, PublicationsOK
<1>7. ASSUME NEW p \in Publications, NEW status \in Statuses,
             publication' = [publication EXCEPT ![p] = status],
             UNCHANGED <<sequence, started, production>>
      PROVE  PublicationsOK'
  BY <1>0, <1>7 DEF PublicationsOK
<1>8. ASSUME NEW w \in Workers, worker' = [worker EXCEPT ![w].phase = "advancing"]
      PROVE  CallsOK'
  <2>1. 0 \in 0..MaxAttempts
    BY ScheduleAssumption
  <2> QED BY <1>0, <1>8, <2>1, CallMoves
<1>9. ASSUME NEW w \in Workers, StartPublication(w) PROVE RowTypes'
  <2>1. worker[w].schedule \in Publications
    BY <1>9, CallsAbout DEF StartPublication, Publications
  <2>2. PublicationsOK'
    BY <1>6, <1>9, <2>1 DEF StartPublication, Statuses, Active, Ended
  <2>3. CallsOK'
    BY <1>8, <1>9 DEF StartPublication
  <2> QED BY <1>9, <2>2, <2>3, TypesKept DEF StartPublication, RowTypes
<1>10. ASSUME NEW w \in Workers, RetryPublication(w) PROVE RowTypes'
  <2>1. worker[w].schedule \in Publications
    BY <1>10, CallsAbout DEF RetryPublication, Publications
  <2>2. PublicationsOK'
    BY <1>7, <1>10, <2>1 DEF RetryPublication, Statuses, Active
  <2>3. CallsOK'
    BY <1>8, <1>10 DEF RetryPublication
  <2> QED BY <1>10, <2>2, <2>3, TypesKept DEF RetryPublication, RowTypes
<1>11. ASSUME NEW w \in Workers, ResumePublication(w) PROVE RowTypes'
  <2>1. CallsOK'
    BY <1>8, <1>11 DEF ResumePublication
  <2> QED BY <1>11, <2>1, TypesKept DEF ResumePublication, RowTypes
<1>12. ASSUME NEW w \in Workers, executionOutcome(w) PROVE RowTypes'
  <2>1. \/ worker' = [worker EXCEPT ![w] = Idle]
        \/ \E seen \in ExecutionStates :
              worker' = [worker EXCEPT ![w].phase = "recording", ![w].seen = seen]
    BY <1>0, <1>12 DEF executionOutcome, ExecutionStates, CallsOK, WorkerRows
  <2>2. CallsOK'
    BY <1>0, <2>1, CallEnds, CallRecords
  <2> QED BY <1>12, <2>2, TypesKept DEF executionOutcome, RowTypes
<1>13. ASSUME NEW w \in Workers, Crash(w) PROVE RowTypes'
  BY <1>0, <1>13, CallEnds, TypesKept DEF Crash, RowTypes
<1>14. ASSUME NEW w \in Workers, NEW seen \in {"blocked", "unknown"}, AdvanceThrows(w, seen)
       PROVE  RowTypes'
  <2>1. CallsOK'
    BY <1>0, <1>14, CallRecords DEF AdvanceThrows, ExecutionStates
  <2> QED BY <1>14, <2>1, TypesKept DEF AdvanceThrows, RowTypes
<1>15. ASSUME NEW w \in Workers, recordExecutionOutcome(w) PROVE RowTypes'
  <2> DEFINE s == worker[w].schedule
             seen == worker[w].seen
  <2>1. s \in Schedules /\ seen \in {"blocked", "failed", "unknown", "completed"}
    BY <1>15 DEF recordExecutionOutcome, CallsAgree
  <2>2. CallsOK'
    BY <1>0, <1>15, CallEnds DEF recordExecutionOutcome
  <2>3. CASE OutcomePermits(w)
    <3>1. /\ schedule' = [schedule EXCEPT ![s].state = IF schedule[s].state = "completed"
                                                       THEN "completed" ELSE seen]
          /\ execution' = [execution EXCEPT ![s].state = seen, ![s].leased = FALSE]
          /\ reserved' \in {NoSchedule, reserved}
      BY <1>15, <2>3 DEF recordExecutionOutcome
    <3>2. schedule' \in [Schedules -> ScheduleRows]
      BY <1>0, <2>1, <3>1, RowUpdates DEF ScheduleStates
    <3>3. RowsOK'
      BY <1>0, <2>1, <3>1, <3>2, RowUpdates DEF RowsOK, ExecutionStates
    <3> QED BY <1>15, <2>2, <3>3, TypesKept DEF recordExecutionOutcome, RowTypes
  <2> QED BY <1>15, <2>2, <2>3, TypesKept DEF recordExecutionOutcome, RowTypes
<1>16. ASSUME NEW s \in Schedules, LeaseExpires(s) PROVE RowTypes'
  <2>1. RowsOK'
    BY <1>0, <1>16 DEF LeaseExpires, RowsOK, ExecutionRows
  <2> QED BY <1>16, <2>1, TypesKept DEF LeaseExpires, RowTypes
<1>17. ASSUME NEW s \in Schedules, ComesDue(s) PROVE RowTypes'
  <2>1. RowsOK'
    BY <1>0, <1>17 DEF ComesDue, RowsOK, ScheduleRows
  <2> QED BY <1>17, <2>1, TypesKept DEF ComesDue, RowTypes
<1>18. ASSUME approve PROVE RowTypes'
  <2>1. RowsOK'
    BY <1>0, <1>18, InvalidationTypes DEF approve, RowsOK
  <2>2. PostOK'
    BY <1>0, <1>18, ScheduleAssumption DEF approve, PostOK, PublicationsOK
  <2> QED BY <1>18, <2>1, <2>2, TypesKept DEF approve, RowTypes
<1>19. ASSUME EditPost PROVE RowTypes'
  BY <1>19, InvalidateTypes, TypesKept DEF EditPost, RowTypes
<1>20. ASSUME NEW s \in Schedules, saveSchedule(s) PROVE RowTypes'
  <2>1. \A t \in Schedules : schedule'[t] \in ScheduleRows
    BY ZenonT(40), <1>0, <1>20 DEF saveSchedule, RowsOK, PostOK, ScheduleRows, ScheduleStates, NewSchedule
  <2>2. RowsOK'
    BY <1>0, <1>20, <2>1 DEF saveSchedule, RowsOK
  <2> QED BY <1>20, <2>2, TypesKept DEF saveSchedule, RowTypes
<1>21. ASSUME NEW s \in Schedules, cancelSchedule(s) PROVE RowTypes'
  <2>1. RowsOK'
    BY <1>0, <1>21, RowUpdates DEF cancelSchedule, RowsOK, ScheduleStates
  <2> QED BY <1>21, <2>1, TypesKept DEF cancelSchedule, RowTypes
<1>22. ASSUME NEW p \in Publications, NEW status \in Active \cup Ended, Refresh(p, status)
       PROVE  RowTypes'
  <2>1. PublicationsOK'
    BY <1>0, <1>22 DEF Refresh, PublicationsOK, Statuses
  <2> QED BY <1>22, <2>1, TypesKept DEF Refresh, RowTypes
<1>23. ASSUME NEW s \in Schedules, retryDeployment(s) PROVE RowTypes'
  <2>1. PublicationsOK'
    BY <1>7, <1>23 DEF retryDeployment, Publications, Statuses, Active
  <2> QED BY <1>23, <2>1, TypesKept DEF retryDeployment, RowTypes
<1>24. ASSUME NEW p \in Publications, CommitLeaseExpires(p) PROVE RowTypes'
  <2>1. PublicationsOK'
    BY <1>7, <1>24 DEF CommitLeaseExpires, Statuses, Active
  <2> QED BY <1>24, <2>1, TypesKept DEF CommitLeaseExpires, RowTypes
<1>25. ASSUME NEW p \in Publications, reconcileVerifiedBlogPostPublication(p)
       PROVE  RowTypes'
  <2>1. sequence[p] \in 0..MaxPublications
    BY <1>0 DEF PublicationsOK
  <2>2. PICK up \in BOOLEAN : post' = [post EXCEPT !.reconciled = sequence[p], !.live = up]
    BY <1>0, <1>25 DEF reconcileVerifiedBlogPostPublication, PostOK
  <2>3. PostOK'
    BY <1>0, <1>25, <2>1, <2>2 DEF reconcileVerifiedBlogPostPublication, PostOK
  <2> QED BY <1>25, <2>3, TypesKept DEF reconcileVerifiedBlogPostPublication, RowTypes
<1>26. ASSUME PublishOther \/ PublishWithdrawal PROVE RowTypes'
  <2>1. {"other", "withdrawal"} \subseteq Publications /\ "requested" \in Statuses
    BY DEF Publications, Statuses, Active
  <2>2. PublicationsOK'
    BY <1>6, <1>26, <2>1 DEF PublishOther, PublishWithdrawal
  <2> QED BY <1>26, <2>2, TypesKept DEF PublishOther, PublishWithdrawal, RowTypes
<1>27. ASSUME archive PROVE RowTypes'
  <2>1. \A s \in Schedules : schedule'[s] \in ScheduleRows
    BY <1>0, <1>27, InvalidationTypes DEF archive, RowsOK, ScheduleRows, ScheduleStates
  <2>2. RowsOK'
    BY <1>0, <1>27, <2>1, InvalidationTypes DEF archive, RowsOK
  <2>3. \E collection \in {"archiving", "archived"} :
           post' = [post EXCEPT !.version = post.version + 1, !.collection = collection]
    BY <1>27 DEF archive
  <2>4. post.version + 1 \in Nat
    BY <1>0 DEF PostOK
  <2>5. approvals' = approvals /\ approval' = NoApproval
    BY <1>27 DEF archive
  <2>6. PostOK'
    BY <1>0, <2>3, <2>4, <2>5, PostMoves
  <2> QED BY <1>27, <2>2, <2>6, TypesKept DEF archive, RowTypes
<1>28. ASSUME confirmArchiveWithdrawal \/ restore PROVE RowTypes'
  <2>1. \/ post' = [post EXCEPT !.collection = "archived", !.version = post.version + 1]
        \/ post' = [post EXCEPT !.collection = "active", !.version = post.version]
    BY <1>0, <1>28 DEF confirmArchiveWithdrawal, restore, PostOK
  <2>2. post.version \in Nat /\ post.version + 1 \in Nat
    BY <1>0 DEF PostOK
  <2>3. UNCHANGED <<approvals, approval>>
    BY <1>28 DEF confirmArchiveWithdrawal, restore
  <2>4. PostOK'
    BY <1>0, <2>1, <2>2, <2>3, PostMoves
  <2> QED BY <1>28, <2>4, TypesKept DEF confirmArchiveWithdrawal, restore, RowTypes
<1> QED
  BY <1>1, <1>2, <1>3, <1>4, <1>5, <1>9, <1>10, <1>11, <1>12, <1>13, <1>14, <1>15, <1>16, <1>17,
     <1>18, <1>19, <1>20, <1>21, <1>22, <1>23, <1>24, <1>25, <1>26, <1>27, <1>28,
     ScheduleSteps, Zenon

-----------------------------------------------------------------------------
(* What the steps leave alone *)

RowsAgree == ReservationHasClaimant /\ ScheduleAgreesWithExecution /\ LeaseIsClaim

CallAgrees(call) ==
    /\ call.phase # "idle" => call.schedule \in Schedules
    /\ call.phase = "recording" =>
          /\ call.seen \in {"blocked", "failed", "unknown", "completed"}
          /\ call.seen = "completed" => publication[call.schedule] = "live"

\* The publication of a schedule that is live stays live.
LiveStays == \A s \in Schedules : publication[s] = "live" => publication'[s] = "live"

\* What a schedule was activated under stays as it is.
ActivationStays ==
    \A s \in Schedules : /\ schedule'[s].approval = schedule[s].approval
                         /\ schedule'[s].base = schedule[s].base
                         /\ schedule'[s].version = schedule[s].version

LEMMA AgreementKept ==
    ASSUME ScheduleInv, LiveStays
    PROVE  /\ UNCHANGED <<schedule, execution, reserved>> => RowsAgree'
           /\ UNCHANGED worker => CallsAgree'
<1>1. ASSUME UNCHANGED <<schedule, execution, reserved>> PROVE RowsAgree'
  BY <1>1 DEF ScheduleInv, RowsAgree, ReservationHasClaimant, ScheduleAgreesWithExecution,
              LeaseIsClaim, LiveStays
<1>2. ASSUME UNCHANGED worker PROVE CallsAgree'
  BY <1>2 DEF ScheduleInv, CallsAgree, LiveStays
<1> QED BY <1>1, <1>2

LEMMA PublicationsKept ==
    ASSUME ScheduleInv, UNCHANGED publication
    PROVE  /\ LiveStays
           /\ OnePublication'
           /\ UNCHANGED <<post, approval, sequence>> => DownIsQuiet'
           /\ ActivationStays /\ UNCHANGED <<post, approval, production>>
                  /\ reserved' \in {reserved, NoSchedule} => HolderIsAuthorized'
<1>1. LiveStays
  BY DEF LiveStays
<1>2. OnePublication'
  BY DEF ScheduleInv, OnePublication
<1>3. ASSUME UNCHANGED <<post, approval, sequence>> PROVE DownIsQuiet'
  BY <1>3 DEF ScheduleInv, DownIsQuiet, Unreconciled
<1>4. ASSUME ActivationStays, UNCHANGED <<post, approval, production>>,
             reserved' \in {reserved, NoSchedule}
      PROVE  HolderIsAuthorized'
  BY <1>4, ScheduleAssumption DEF ScheduleInv, HolderIsAuthorized, CurrentAuthority, Approved, ActivationStays
<1> QED BY <1>1, <1>2, <1>3, <1>4

LEMMA CallUpdate ==
    ASSUME CallsOK, CallsAgree, LiveStays, NEW w \in Workers, NEW call,
           worker' = [worker EXCEPT ![w] = call], CallAgrees(call)'
    PROVE  CallsAgree'
BY DEF CallsOK, CallsAgree, CallAgrees, LiveStays

LEMMA CallReturns ==
    ASSUME CallsOK, CallsAgree, LiveStays, NEW w \in Workers, worker' = [worker EXCEPT ![w] = Idle]
    PROVE  CallsAgree'
BY CallUpdate DEF CallAgrees, Idle

LEMMA CallGoesToWork ==
    ASSUME CallsOK, CallsAgree, LiveStays, NEW w \in Workers, worker[w].phase # "idle",
           NEW phase \in {"rechecking", "leased", "advancing"}, NEW attempt,
           \/ worker' = [worker EXCEPT ![w].phase = phase]
           \/ worker' = [worker EXCEPT ![w].phase = phase, ![w].attempt = attempt]
    PROVE  CallsAgree'
<1>1. worker[w].schedule \in Schedules
  BY CallsAbout
<1>2. /\ worker'[w].phase = phase
      /\ worker'[w].schedule = worker[w].schedule
  BY DEF CallsOK, WorkerRows
<1>3. \A v \in Workers \ {w} : worker'[v] = worker[v]
  BY DEF CallsOK
<1> QED BY <1>1, <1>2, <1>3 DEF CallsAgree, LiveStays

LEMMA CallReads ==
    ASSUME CallsOK, CallsAgree, LiveStays, NEW w \in Workers, worker[w].phase # "idle",
           NEW seen \in {"blocked", "failed", "unknown", "completed"},
           seen = "completed" => publication'[worker[w].schedule] = "live",
           worker' = [worker EXCEPT ![w].phase = "recording", ![w].seen = seen]
    PROVE  CallsAgree'
<1>1. worker[w].schedule \in Schedules
  BY CallsAbout
<1>2. /\ worker'[w].phase = "recording"
      /\ worker'[w].schedule = worker[w].schedule
      /\ worker'[w].seen = seen
  BY DEF CallsOK, WorkerRows
<1>3. \A v \in Workers \ {w} : worker'[v] = worker[v]
  BY DEF CallsOK
<1>4. CallAgrees(worker[w])'
  BY <1>1, <1>2 DEF CallAgrees
<1>5. ASSUME NEW v \in Workers \ {w} PROVE CallAgrees(worker[v])'
  BY <1>3, <1>5 DEF CallsAgree, CallAgrees, LiveStays
<1> QED BY <1>4, <1>5 DEF CallsAgree, CallAgrees

\* Everything but the calls stays.
LEMMA OnlyCalls ==
    ASSUME ScheduleInv, UNCHANGED <<schedule, execution, reserved, publication, sequence,
                                    production, approval, post>>
    PROVE  OnePublication' /\ RowsAgree' /\ HolderIsAuthorized' /\ DownIsQuiet' /\ LiveStays
<1>1. ActivationStays
  BY DEF ActivationStays
<1> QED BY <1>1, PublicationsKept, AgreementKept

-----------------------------------------------------------------------------
(* Invalidation: what loses its authority is cancelled, blocked and released. *)

LEMMA InvalidationMoves ==
    ASSUME RowsOK, NEW hit \in SUBSET Schedules, NEW s \in Schedules
    PROVE  /\ s \in Stranded(hit) =>
                 /\ ScheduleAfterInvalidation(hit)[s].state = "cancelled"
                 /\ execution[s].state \in {"claimed", "unknown"} =>
                       /\ ExecutionAfterInvalidation(hit)[s].state = "blocked"
                       /\ ~ExecutionAfterInvalidation(hit)[s].leased
                 /\ execution[s].state \notin {"claimed", "unknown"} =>
                       ExecutionAfterInvalidation(hit)[s] = execution[s]
           /\ s \notin Stranded(hit) =>
                 /\ ScheduleAfterInvalidation(hit)[s] = schedule[s]
                 /\ ExecutionAfterInvalidation(hit)[s] = execution[s]
<1> USE DEF RowsOK
<1>1. ASSUME s \in Stranded(hit)
      PROVE  ScheduleAfterInvalidation(hit)[s].state = "cancelled"
  BY <1>1 DEF ScheduleAfterInvalidation, ScheduleRows
<1>2. ASSUME s \in Stranded(hit), execution[s].state \in {"claimed", "unknown"}
      PROVE  /\ ExecutionAfterInvalidation(hit)[s].state = "blocked"
             /\ ~ExecutionAfterInvalidation(hit)[s].leased
  BY <1>2 DEF ExecutionAfterInvalidation, ExecutionRows
<1>3. ASSUME s \in Stranded(hit), execution[s].state \notin {"claimed", "unknown"}
      PROVE  ExecutionAfterInvalidation(hit)[s] = execution[s]
  BY <1>3 DEF ExecutionAfterInvalidation
<1>4. ASSUME s \notin Stranded(hit)
      PROVE  /\ ScheduleAfterInvalidation(hit)[s] = schedule[s]
             /\ ExecutionAfterInvalidation(hit)[s] = execution[s]
  BY <1>4 DEF ScheduleAfterInvalidation, ExecutionAfterInvalidation
<1> QED BY <1>1, <1>2, <1>3, <1>4

\* The rows agree after an invalidation, also when the active schedules are
\* cancelled with it; and no reservation is left whose publication has not begun.
LEMMA InvalidationAgrees ==
    ASSUME ScheduleInv, RowsOK, RowsOK', NEW hit \in SUBSET Schedules, UnderApproval \subseteq hit,
           UNCHANGED publication,
           \A s \in Schedules : \/ schedule'[s] = ScheduleAfterInvalidation(hit)[s]
                                \/ schedule[s].state = "active" /\ schedule'[s].state = "cancelled",
           execution' = ExecutionAfterInvalidation(hit),
           reserved' = ReservationAfterInvalidation(hit)
    PROVE  RowsAgree' /\ HolderIsAuthorized' /\ OnePublication'
<1>1. ASSUME NEW s \in Schedules
      PROVE  /\ execution'[s].leased => execution'[s].state = "claimed"
             /\ execution'[s].state = "completed" => publication'[s] = "live"
             /\ schedule'[s].state \in {"none", "active"} => execution'[s].state = "none"
             /\ schedule'[s].state = "cancelled" => execution'[s].state \in {"none", "blocked"}
             /\ schedule'[s].state \notin {"none", "active", "cancelled"} =>
                   execution'[s].state = schedule'[s].state
  <2>1. /\ execution[s].leased => execution[s].state = "claimed"
        /\ execution[s].state = "completed" => publication[s] = "live"
        /\ schedule[s].state \in {"none", "active"} => execution[s].state = "none"
        /\ schedule[s].state = "cancelled" => execution[s].state \in {"none", "blocked"}
        /\ schedule[s].state \notin {"none", "active", "cancelled"} =>
              execution[s].state = schedule[s].state
    BY DEF ScheduleInv, LeaseIsClaim, ScheduleAgreesWithExecution
  <2>2. CASE s \in Stranded(hit)
    <3>1. schedule[s].state \in {"active", "claimed", "unknown"}
      BY <2>2 DEF Stranded
    <3> QED BY <2>1, <2>2, <3>1, InvalidationMoves
  <2>3. CASE s \notin Stranded(hit)
    BY <2>1, <2>3, InvalidationMoves
  <2> QED BY <2>2, <2>3
<1>2. ASSUME NEW s \in Schedules, reserved' = s
      PROVE  /\ reserved = s /\ s \notin Stranded(hit)
             /\ schedule[s].state \in {"claimed", "unknown"}
             /\ execution[s].state \in {"claimed", "unknown"}
             /\ OwnPublicationStands(s) \/ ~Approved(s)
  <2>1. reserved = s /\ s \notin Stranded(hit)
    BY <1>2, ScheduleAssumption DEF ReservationAfterInvalidation, NoSchedule
  <2>2. /\ schedule[s].state \in {"claimed", "unknown"}
        /\ execution[s].state \in {"claimed", "unknown"}
    BY <2>1, ScheduleAssumption DEF ScheduleInv, ReservationHasClaimant
  <2>3. OwnPublicationStands(s) \/ ~Approved(s)
    BY <2>1, <2>2 DEF Stranded, UnderApproval
  <2> QED BY <2>1, <2>2, <2>3
<1>3. ReservationHasClaimant'
  <2>1. reserved' \in Schedules \cup {NoSchedule}
    BY DEF RowsOK
  <2> QED BY <1>2, <2>1, InvalidationMoves DEF ReservationHasClaimant
<1>4. HolderIsAuthorized'
  <2>1. ASSUME NEW s \in Schedules, reserved' = s, publication[s] = "none" PROVE FALSE
    <3>1. ~OwnPublicationStands(s)
      BY <2>1 DEF OwnPublicationStands, Active
    <3>2. Approved(s)
      BY <1>2, <2>1 DEF ScheduleInv, HolderIsAuthorized, CurrentAuthority
    <3> QED BY <1>2, <2>1, <3>1, <3>2
  <2> QED BY <2>1 DEF HolderIsAuthorized
<1>5. RowsAgree'
  BY <1>1, <1>3 DEF RowsAgree, ScheduleAgreesWithExecution, LeaseIsClaim
<1> QED BY <1>4, <1>5, PublicationsKept

LEMMA InvalidateApprovalKeeps ==
    ASSUME ScheduleInv, RowsOK, RowsOK', NEW hit \in SUBSET Schedules, UnderApproval \subseteq hit,
           InvalidateApproval(hit), UNCHANGED <<publication, sequence, post>>
    PROVE  RowsAgree' /\ HolderIsAuthorized' /\ OnePublication' /\ DownIsQuiet'
<1>1. RowsAgree' /\ HolderIsAuthorized' /\ OnePublication'
  BY InvalidationAgrees DEF InvalidateApproval
<1>2. DownIsQuiet'
  BY DEF ScheduleInv, DownIsQuiet, Unreconciled, InvalidateApproval
<1> QED BY <1>1, <1>2

\* Asking whether the approval is good.
LEMMA ValidationKeeps ==
    ASSUME ScheduleInv, RowsOK, RowsOK', CallsOK, NEW w \in Workers, NEW s \in Schedules,
           NEW phase \in {"claiming"} \cup Kinds, validateApprovalAuthority(s, phase, w),
           UNCHANGED <<publication, sequence, production, post>>
    PROVE  OnePublication' /\ RowsAgree' /\ HolderIsAuthorized' /\ DownIsQuiet' /\ CallsAgree'
<1> DEFINE row == [Idle EXCEPT !.phase = phase, !.schedule = s, !.attempt = execution[s].attempt]
<1>0. LiveStays
  BY DEF LiveStays
<1>1. CASE UNCHANGED <<schedule, execution, reserved, approval>> /\
           worker' = [worker EXCEPT ![w] = row]
  <2>1. CallAgrees(row)'
    BY DEF CallAgrees, Idle, Kinds
  <2>2. CallsAgree'
    BY <1>0, <1>1, <2>1, CallUpdate DEF ScheduleInv
  <2> QED BY <1>1, <2>2, OnlyCalls
<1>2. CASE InvalidateApproval(UnderApproval) /\ UNCHANGED worker
  BY <1>0, <1>2, InvalidateApprovalKeeps, AgreementKept DEF UnderApproval
<1> QED BY <1>1, <1>2 DEF validateApprovalAuthority

-----------------------------------------------------------------------------
(* Rows that move without a publication *)

LEMMA StateMoves ==
    ASSUME RowsOK, NEW s \in Schedules, NEW state,
           schedule' = [schedule EXCEPT ![s].state = state]
    PROVE  /\ \A t \in Schedules :
                 schedule'[t].state = IF t = s THEN state ELSE schedule[t].state
           /\ ActivationStays
<1>1. ASSUME NEW t \in Schedules
      PROVE  /\ schedule'[t].state = IF t = s THEN state ELSE schedule[t].state
             /\ schedule'[t].approval = schedule[t].approval
             /\ schedule'[t].base = schedule[t].base
             /\ schedule'[t].version = schedule[t].version
  BY DEF RowsOK, ScheduleRows
<1> QED BY <1>1 DEF ActivationStays

LEMMA LeaseMoves ==
    ASSUME RowsOK, NEW s \in Schedules, NEW state,
           execution' = [execution EXCEPT ![s].state = state, ![s].leased = FALSE]
    PROVE  /\ \A t \in Schedules \ {s} : execution'[t] = execution[t]
           /\ execution'[s].state = state /\ ~execution'[s].leased
  BY DEF RowsOK, ExecutionRows

\* The claim of a schedule or the retry of an execution.
LEMMA LeaseIsTaken ==
    ASSUME ScheduleInv, RowsOK, NEW s \in Schedules, NEW attempt, MayBeClaimed(s),
           schedule' = [schedule EXCEPT ![s].state = "claimed"],
           execution' = [execution EXCEPT ![s] =
               [state |-> "claimed", attempt |-> attempt, leased |-> TRUE]],
           reserved' = s,
           UNCHANGED <<publication, sequence, production, approval, post>>
    PROVE  OnePublication' /\ RowsAgree' /\ HolderIsAuthorized' /\ DownIsQuiet'
<1>1. /\ \A t \in Schedules :
            schedule'[t].state = IF t = s THEN "claimed" ELSE schedule[t].state
      /\ ActivationStays
  BY StateMoves
<1>2. /\ \A t \in Schedules \ {s} : execution'[t] = execution[t]
      /\ execution'[s].state = "claimed"
  BY DEF RowsOK, ExecutionRows
<1>3. RowsAgree'
  BY <1>1, <1>2 DEF ScheduleInv, RowsAgree, ReservationHasClaimant, ScheduleAgreesWithExecution,
                    LeaseIsClaim
<1>4. HolderIsAuthorized'
  <2>1. ASSUME publication[s] = "none" PROVE CurrentAuthority(s) /\ NothingForeign(s)
    BY <2>1 DEF MayBeClaimed, OwnPublicationStands, Active
  <2>2. ASSUME CurrentAuthority(s) PROVE CurrentAuthority(s)'
    BY <1>1, <2>2 DEF CurrentAuthority, Approved, ActivationStays
  <2> QED BY <2>1, <2>2 DEF HolderIsAuthorized, NothingForeign
<1> QED BY <1>3, <1>4, PublicationsKept

LEMMA ClaimKeeps ==
    ASSUME ScheduleInv, RowsOK, CallsOK, NEW w \in Workers, claimSchedule(w)
    PROVE  OnePublication' /\ RowsAgree' /\ HolderIsAuthorized' /\ DownIsQuiet' /\ CallsAgree'
<1> DEFINE s == worker[w].schedule
<1>0. LiveStays /\ CallsAgree /\ s \in Schedules
  BY CallsAbout DEF LiveStays, claimSchedule, ScheduleInv
<1>1. CASE ClaimPermits(s)
  <2>1. CallsAgree'
    BY <1>0, <1>1, CallGoesToWork DEF claimSchedule
  <2>2. MayBeClaimed(s)
    BY <1>1 DEF ClaimPermits
  <2> QED BY <1>0, <1>1, <2>1, <2>2, LeaseIsTaken DEF claimSchedule
<1>2. CASE ~ClaimPermits(s)
  BY <1>0, <1>2, CallReturns, OnlyCalls DEF claimSchedule
<1> QED BY <1>1, <1>2

LEMMA RetryKeeps ==
    ASSUME ScheduleInv, RowsOK, CallsOK, NEW w \in Workers, retryExecution(w)
    PROVE  OnePublication' /\ RowsAgree' /\ HolderIsAuthorized' /\ DownIsQuiet' /\ CallsAgree'
<1> DEFINE s == worker[w].schedule
<1>0. LiveStays /\ CallsAgree /\ s \in Schedules
  BY CallsAbout DEF LiveStays, retryExecution, ScheduleInv
<1>1. CASE RetryPermits(w)
  <2>1. CallsAgree'
    BY <1>0, <1>1, CallGoesToWork DEF retryExecution
  <2>2. schedule[s].state # "completed"
    <3>1. execution[s].state \in {"claimed", "unknown", "failed", "blocked"}
      BY <1>1 DEF RetryPermits, Retryable
    <3> QED BY <1>0, <3>1 DEF ScheduleInv, ScheduleAgreesWithExecution
  <2>3. MayBeClaimed(s)
    BY <1>1, <2>2 DEF RetryPermits
  <2>4. schedule' = [schedule EXCEPT ![s].state = "claimed"]
    BY <1>1, <2>2 DEF retryExecution
  <2> QED BY <1>0, <1>1, <2>1, <2>3, <2>4, LeaseIsTaken DEF retryExecution
<1>2. CASE ~RetryPermits(w)
  BY <1>0, <1>2, CallReturns, OnlyCalls DEF retryExecution
<1> QED BY <1>1, <1>2

LEMMA RecordKeeps ==
    ASSUME ScheduleInv, RowsOK, CallsOK, NEW w \in Workers, recordExecutionOutcome(w)
    PROVE  OnePublication' /\ RowsAgree' /\ HolderIsAuthorized' /\ DownIsQuiet' /\ CallsAgree'
<1> DEFINE s == worker[w].schedule
           seen == worker[w].seen
<1>0. /\ LiveStays /\ CallsAgree /\ s \in Schedules
      /\ seen \in {"blocked", "failed", "unknown", "completed"}
      /\ seen = "completed" => publication[s] = "live"
  BY DEF LiveStays, recordExecutionOutcome, ScheduleInv, CallsAgree
<1>1. CallsAgree'
  BY <1>0, CallReturns DEF recordExecutionOutcome
<1>2. CASE OutcomePermits(w)
  <2>1. execution[s].state = "claimed" /\ schedule[s].state = "claimed"
    <3>1. execution[s].state = "claimed"
      BY <1>0, <1>2 DEF OutcomePermits, Holds, ScheduleInv, LeaseIsClaim
    <3> QED BY <1>0, <3>1 DEF ScheduleInv, ScheduleAgreesWithExecution
  <2>2. /\ schedule' = [schedule EXCEPT ![s].state = seen]
        /\ execution' = [execution EXCEPT ![s].state = seen, ![s].leased = FALSE]
        /\ reserved' = IF seen # "unknown" /\ reserved = s THEN NoSchedule ELSE reserved
    BY <1>2, <2>1 DEF recordExecutionOutcome
  <2>3. /\ \A t \in Schedules :
              schedule'[t].state = IF t = s THEN seen ELSE schedule[t].state
        /\ ActivationStays
    BY <1>0, <2>2, StateMoves
  <2>4. /\ \A t \in Schedules \ {s} : execution'[t] = execution[t]
        /\ execution'[s].state = seen /\ ~execution'[s].leased
    BY <1>0, <2>2, LeaseMoves
  <2>5. UNCHANGED <<publication, sequence, production, approval, post>>
    BY DEF recordExecutionOutcome
  <2>6. ReservationHasClaimant'
    BY <1>0, <2>2, <2>3, <2>4 DEF ScheduleInv, ReservationHasClaimant, RowsOK
  <2>7. RowsAgree'
    BY <1>0, <2>3, <2>4, <2>5, <2>6
       DEF ScheduleInv, RowsAgree, ScheduleAgreesWithExecution, LeaseIsClaim
  <2> QED BY <1>1, <2>2, <2>3, <2>5, <2>7, PublicationsKept
<1>3. CASE ~OutcomePermits(w)
  BY <1>1, <1>3, OnlyCalls DEF recordExecutionOutcome
<1> QED BY <1>2, <1>3

\* The lease runs out, a schedule comes due, is saved or is cancelled.
LEMMA RowsMove ==
    ASSUME ScheduleInv, RowsOK, NEW s \in Schedules,
           LeaseExpires(s) \/ ComesDue(s) \/ saveSchedule(s) \/ cancelSchedule(s)
    PROVE  OnePublication' /\ RowsAgree' /\ HolderIsAuthorized' /\ DownIsQuiet' /\ CallsAgree'
<1>1. /\ UNCHANGED <<publication, sequence, production, approval, post, worker, reserved>>
      /\ LiveStays
  BY DEF LeaseExpires, ComesDue, saveSchedule, cancelSchedule, LiveStays
<1>2. OnePublication' /\ DownIsQuiet' /\ CallsAgree'
  BY <1>1, PublicationsKept, AgreementKept
<1>3. CASE LeaseExpires(s)
  <2>1. \A t \in Schedules : /\ execution'[t].state = execution[t].state
                             /\ execution'[t].leased => execution[t].leased
    BY <1>3 DEF LeaseExpires, RowsOK, ExecutionRows
  <2>2. schedule' = schedule
    BY <1>3 DEF LeaseExpires
  <2>3. RowsAgree'
    BY <1>1, <2>1, <2>2 DEF ScheduleInv, RowsAgree, ReservationHasClaimant,
                            ScheduleAgreesWithExecution, LeaseIsClaim, RowsOK
  <2> QED BY <1>1, <1>2, <2>2, <2>3, PublicationsKept DEF ActivationStays
<1>4. CASE ComesDue(s)
  <2>1. \A t \in Schedules : schedule'[t].state = schedule[t].state
    BY <1>4 DEF ComesDue, RowsOK, ScheduleRows
  <2>2. ActivationStays
    BY <1>4 DEF ComesDue, RowsOK, ScheduleRows, ActivationStays
  <2>3. RowsAgree'
    BY <1>1, <1>4, <2>1 DEF ComesDue, ScheduleInv, RowsAgree, ReservationHasClaimant,
                            ScheduleAgreesWithExecution, LeaseIsClaim, RowsOK
  <2> QED BY <1>1, <1>2, <2>2, <2>3, PublicationsKept
<1>5. CASE saveSchedule(s)
  <2>1. reserved = NoSchedule
    BY <1>5 DEF saveSchedule, InFlight, ScheduleInv, ReservationHasClaimant, RowsOK
  <2>2. \A t \in Schedules :
           \/ t = s /\ schedule[t].state = "none" /\ schedule'[t].state = "active"
           \/ schedule[t].state = "active" /\ schedule'[t].state = "cancelled"
           \/ schedule'[t].state = schedule[t].state
    BY <1>5 DEF saveSchedule, RowsOK, ScheduleRows, NewSchedule
  <2>3. execution' = execution
    BY <1>5 DEF saveSchedule
  <2>4. ReservationHasClaimant' /\ HolderIsAuthorized'
    BY <1>1, <2>1, ScheduleAssumption DEF ReservationHasClaimant, HolderIsAuthorized
  <2>5. ScheduleAgreesWithExecution' /\ LeaseIsClaim'
    BY <1>1, <2>2, <2>3 DEF ScheduleInv, ScheduleAgreesWithExecution, LeaseIsClaim
  <2> QED BY <1>2, <2>4, <2>5 DEF RowsAgree
<1>6. CASE cancelSchedule(s)
  <2>1. /\ \A t \in Schedules :
              schedule'[t].state = IF t = s THEN "cancelled" ELSE schedule[t].state
        /\ ActivationStays
    BY <1>6, StateMoves DEF cancelSchedule
  <2>2. execution' = execution /\ schedule[s].state = "active"
    BY <1>6 DEF cancelSchedule
  <2>3. RowsAgree'
    BY <1>1, <2>1, <2>2 DEF ScheduleInv, RowsAgree, ReservationHasClaimant,
                            ScheduleAgreesWithExecution, LeaseIsClaim, RowsOK
  <2> QED BY <1>1, <1>2, <2>1, <2>3, PublicationsKept
<1> QED BY <1>3, <1>4, <1>5, <1>6

-----------------------------------------------------------------------------
(* Publications that move *)

\* One publication moves, but not past a holder of the reservation whose own has
\* not begun.
LEMMA StatusMoves ==
    ASSUME ScheduleInv, PublicationsOK, NEW p \in Publications, NEW status \in Statuses \ {"none"},
           publication' = [publication EXCEPT ![p] = status],
           publication[p] # "live" \/ p \notin Schedules,
           status \in Active => publication[p] \in Active \/ NoActivePublication,
           \A s \in Schedules \ {p} : reserved = s /\ publication[s] = "none" =>
               status \notin Active /\ production' = production,
           UNCHANGED <<schedule, execution, reserved, approval, post>>
    PROVE  LiveStays /\ OnePublication' /\ RowsAgree' /\ HolderIsAuthorized'
<1>1. \A q \in Publications : publication'[q] = IF q = p THEN status ELSE publication[q]
  BY DEF PublicationsOK
<1>2. LiveStays
  BY <1>1 DEF LiveStays, Publications
<1>3. OnePublication'
  BY <1>1 DEF ScheduleInv, OnePublication, NoActivePublication
<1>4. HolderIsAuthorized'
  <2>1. ASSUME NEW s \in Schedules, reserved = s, publication'[s] = "none"
        PROVE  CurrentAuthority(s)' /\ \A q \in Publications \ {s} : publication'[q] \notin Active
    <3>1. s # p /\ publication[s] = "none"
      BY <1>1, <2>1 DEF Publications
    <3>2. CurrentAuthority(s) /\ \A q \in Publications \ {s} : publication[q] \notin Active
      BY <2>1, <3>1 DEF ScheduleInv, HolderIsAuthorized
    <3>3. status \notin Active /\ production' = production
      BY <2>1, <3>1
    <3>4. CurrentAuthority(s)'
      BY <3>2, <3>3 DEF CurrentAuthority, Approved
    <3> QED BY <1>1, <3>2, <3>3, <3>4
  <2> QED BY <2>1 DEF HolderIsAuthorized
<1> QED BY <1>2, <1>3, <1>4, AgreementKept

\* A publication that no schedule owns, or any while the post is active, does
\* not disturb a post on its way down.
LEMMA QuietStays ==
    ASSUME ScheduleInv, PublicationsOK, NEW p \in Publications, NEW status,
           publication' = [publication EXCEPT ![p] = status],
           \/ post.collection = "active"
           \/ p \in Schedules => status = "blocked",
           \A q \in Publications \ {p} : sequence'[q] = sequence[q],
           UNCHANGED <<approval, post>>
    PROVE  DownIsQuiet'
<1>1. ASSUME post.collection # "active", NEW s \in Schedules
      PROVE  publication'[s] \notin Active /\ ~Unreconciled(s)'
  <2>1. publication[s] \notin Active /\ ~Unreconciled(s)
    BY <1>1 DEF ScheduleInv, DownIsQuiet
  <2>2. CASE s = p
    BY <1>1, <2>2 DEF PublicationsOK, Unreconciled, Active
  <2>3. CASE s # p
    BY <2>1, <2>3 DEF PublicationsOK, Unreconciled, Publications
  <2> QED BY <2>2, <2>3
<1> QED BY <1>1 DEF ScheduleInv, DownIsQuiet

LEMMA StartKeeps ==
    ASSUME ScheduleInv, PublicationsOK, CallsOK, NEW w \in Workers, StartPublication(w)
    PROVE  OnePublication' /\ RowsAgree' /\ HolderIsAuthorized' /\ DownIsQuiet' /\ CallsAgree'
<1> DEFINE s == worker[w].schedule
           fit == Approved(s) /\ post.collection = "active" /\ NoActivePublication
           status == IF fit THEN "requested" ELSE "blocked"
<1>1. /\ s \in Schedules /\ s \in Publications
      /\ CallsAgree
  BY CallsAbout DEF StartPublication, Publications, ScheduleInv
<1>2. /\ publication[s] = "none" /\ reserved = s
      /\ publication' = [publication EXCEPT ![s] = status]
      /\ sequence' = [sequence EXCEPT ![s] = started + 1]
      /\ worker' = [worker EXCEPT ![w].phase = "advancing"]
      /\ worker[w].phase # "idle"
      /\ UNCHANGED <<schedule, execution, reserved, production, approval, post>>
  BY DEF StartPublication, ProofIsCurrent, Begin
<1>3. /\ status \in Statuses \ {"none"}
      /\ status \in Active => NoActivePublication /\ post.collection = "active"
      /\ status \in Active \/ status = "blocked"
  BY DEF Statuses, Active, Ended
<1>4. LiveStays /\ OnePublication' /\ RowsAgree' /\ HolderIsAuthorized'
  BY <1>1, <1>2, <1>3, StatusMoves
<1>5. \A q \in Publications \ {s} : sequence'[q] = sequence[q]
  BY <1>1, <1>2 DEF PublicationsOK
<1>6. DownIsQuiet'
  BY <1>1, <1>2, <1>3, <1>5, QuietStays
<1>7. CallsAgree'
  BY <1>1, <1>2, <1>4, CallGoesToWork
<1> QED BY <1>4, <1>6, <1>7

LEMMA RetryPublicationKeeps ==
    ASSUME ScheduleInv, PublicationsOK, CallsOK, NEW w \in Workers, RetryPublication(w)
    PROVE  OnePublication' /\ RowsAgree' /\ HolderIsAuthorized' /\ DownIsQuiet' /\ CallsAgree'
<1> DEFINE s == worker[w].schedule
<1>1. /\ s \in Schedules /\ s \in Publications
      /\ CallsAgree
  BY CallsAbout DEF RetryPublication, Publications, ScheduleInv
<1>2. /\ publication[s] = "failed" /\ reserved = s
      /\ publication' = [publication EXCEPT ![s] = "requested"]
      /\ NoActivePublication /\ post.collection = "active"
      /\ worker' = [worker EXCEPT ![w].phase = "advancing"]
      /\ worker[w].phase # "idle"
      /\ UNCHANGED <<schedule, execution, reserved, production, approval, post, sequence>>
  BY DEF RetryPublication, ProofIsCurrent
<1>3. "requested" \in Statuses \ {"none"}
  BY DEF Statuses, Active
<1>4. LiveStays /\ OnePublication' /\ RowsAgree' /\ HolderIsAuthorized'
  BY <1>1, <1>2, <1>3, StatusMoves
<1>5. DownIsQuiet'
  BY <1>1, <1>2, QuietStays
<1>6. CallsAgree'
  BY <1>1, <1>2, <1>4, CallGoesToWork
<1> QED BY <1>4, <1>5, <1>6

\* While a publication runs, every holder of the reservation has begun.
LEMMA RunningLeavesNoHolder ==
    ASSUME ScheduleInv, NEW p \in Publications, publication[p] \in Active,
           NEW s \in Schedules \ {p}, reserved = s
    PROVE  publication[s] # "none"
  BY DEF ScheduleInv, HolderIsAuthorized

LEMMA RefreshKeeps ==
    ASSUME ScheduleInv, PublicationsOK, NEW p \in Publications, NEW status \in Active \cup Ended,
           Refresh(p, status)
    PROVE  OnePublication' /\ RowsAgree' /\ HolderIsAuthorized' /\ DownIsQuiet' /\ CallsAgree'
<1>1. publication[p] \in Active /\ publication[p] # "live" /\ status \in Statuses \ {"none"}
  BY DEF Refresh, NextStatus, Active, Statuses, Ended
<1>2. /\ publication' = [publication EXCEPT ![p] = status]
      /\ UNCHANGED <<schedule, execution, reserved, sequence, approval, post, worker>>
  BY DEF Refresh
<1>3. LiveStays /\ OnePublication' /\ RowsAgree' /\ HolderIsAuthorized'
  BY <1>1, <1>2, RunningLeavesNoHolder, StatusMoves
<1>4. post.collection = "active" \/ p \notin Schedules
  BY <1>1 DEF ScheduleInv, DownIsQuiet
<1>5. DownIsQuiet'
  BY <1>2, <1>4, QuietStays
<1> QED BY <1>2, <1>3, <1>5, AgreementKept

LEMMA CommitLeaseKeeps ==
    ASSUME ScheduleInv, PublicationsOK, NEW p \in Publications, CommitLeaseExpires(p)
    PROVE  OnePublication' /\ RowsAgree' /\ HolderIsAuthorized' /\ DownIsQuiet' /\ CallsAgree'
<1>1. /\ publication[p] \in Active /\ publication[p] # "live"
      /\ "lapsed" \in Statuses \ {"none"}
      /\ publication' = [publication EXCEPT ![p] = "lapsed"]
      /\ UNCHANGED <<schedule, execution, reserved, sequence, production, approval, post, worker>>
  BY DEF CommitLeaseExpires, Active, Statuses, Ended
<1>2. LiveStays /\ OnePublication' /\ RowsAgree' /\ HolderIsAuthorized'
  BY <1>1, RunningLeavesNoHolder, StatusMoves
<1>3. post.collection = "active" \/ p \notin Schedules
  BY <1>1 DEF ScheduleInv, DownIsQuiet
<1>4. DownIsQuiet'
  BY <1>1, <1>3, QuietStays
<1> QED BY <1>1, <1>2, <1>4, AgreementKept

LEMMA RetryDeploymentKeeps ==
    ASSUME ScheduleInv, PublicationsOK, NEW s \in Schedules, retryDeployment(s)
    PROVE  OnePublication' /\ RowsAgree' /\ HolderIsAuthorized' /\ DownIsQuiet' /\ CallsAgree'
<1>1. /\ publication[s] = "failed" /\ reserved = s /\ NoActivePublication /\ Approved(s)
      /\ "requested" \in Statuses \ {"none"} /\ s \in Publications
      /\ publication' = [publication EXCEPT ![s] = "requested"]
      /\ UNCHANGED <<schedule, execution, reserved, sequence, production, approval, post, worker>>
  BY DEF retryDeployment, ReservationAllows, Active, Statuses, Publications
<1>2. LiveStays /\ OnePublication' /\ RowsAgree' /\ HolderIsAuthorized'
  BY <1>1, StatusMoves
<1>3. post.collection = "active"
  BY <1>1 DEF ScheduleInv, DownIsQuiet, Approved, NoApproval
<1>4. DownIsQuiet'
  BY <1>1, <1>3, QuietStays
<1> QED BY <1>1, <1>2, <1>4, AgreementKept

LEMMA PublishKeeps ==
    ASSUME ScheduleInv, PublicationsOK, PublishOther \/ PublishWithdrawal
    PROVE  OnePublication' /\ RowsAgree' /\ HolderIsAuthorized' /\ DownIsQuiet' /\ CallsAgree'
<1>1. PICK p \in {"other", "withdrawal"} : Begin(p, "requested")
  BY DEF PublishOther, PublishWithdrawal
<1>2. p \in Publications /\ p \notin Schedules /\ "requested" \in Statuses \ {"none"}
  BY ScheduleAssumption DEF Publications, Statuses, Active
<1>3. /\ NoActivePublication /\ reserved = NoSchedule
      /\ UNCHANGED <<schedule, execution, reserved, production, approval, post, worker>>
  BY DEF PublishOther, PublishWithdrawal
<1>4. /\ publication' = [publication EXCEPT ![p] = "requested"]
      /\ \A q \in Publications \ {p} : sequence'[q] = sequence[q]
  BY <1>1 DEF Begin, PublicationsOK
<1>5. LiveStays /\ OnePublication' /\ RowsAgree' /\ HolderIsAuthorized'
  BY <1>2, <1>3, <1>4, ScheduleAssumption, StatusMoves
<1>6. DownIsQuiet'
  BY <1>2, <1>3, <1>4, QuietStays
<1> QED BY <1>3, <1>5, <1>6, AgreementKept

-----------------------------------------------------------------------------
(* The post *)

LEMMA ReconcileKeeps ==
    ASSUME ScheduleInv, PostOK, PublicationsOK, NEW p \in Publications,
           reconcileVerifiedBlogPostPublication(p)
    PROVE  HolderIsAuthorized' /\ DownIsQuiet'
<1>1. /\ UNCHANGED <<schedule, reserved, publication, sequence, production, approval>>
      /\ publication[p] = "live" /\ sequence[p] > post.reconciled
  BY DEF reconcileVerifiedBlogPostPublication
<1>2. /\ post'.collection = post.collection /\ post'.version = post.version
      /\ post'.reconciled = sequence[p]
  BY DEF reconcileVerifiedBlogPostPublication, PostOK
<1>3. p \notin Schedules /\ post'.live => post.live
  BY DEF reconcileVerifiedBlogPostPublication, PostOK
<1>4. HolderIsAuthorized'
  BY <1>1, <1>2 DEF ScheduleInv, HolderIsAuthorized, CurrentAuthority, Approved
<1>5. ASSUME post'.collection # "active" PROVE p \notin Schedules
  BY <1>1, <1>2, <1>5 DEF ScheduleInv, DownIsQuiet, Unreconciled
<1>6. ASSUME post'.collection # "active", NEW s \in Schedules
      PROVE  publication'[s] \notin Active /\ ~Unreconciled(s)'
  <2>1. publication[s] \notin Active /\ ~Unreconciled(s)
    BY <1>2, <1>6 DEF ScheduleInv, DownIsQuiet
  <2>2. sequence[s] \in Nat /\ sequence[p] \in Nat /\ post.reconciled \in Nat
    BY ScheduleAssumption DEF PublicationsOK, PostOK, Publications
  <2> QED BY <1>1, <1>2, <2>1, <2>2 DEF Unreconciled
<1>7. DownIsQuiet'
  BY <1>1, <1>2, <1>3, <1>5, <1>6 DEF ScheduleInv, DownIsQuiet
<1> QED BY <1>4, <1>7

LEMMA ArchiveKeeps ==
    ASSUME ScheduleInv, RowsOK, RowsOK', PostOK, archive
    PROVE  OnePublication' /\ RowsAgree' /\ HolderIsAuthorized' /\ DownIsQuiet' /\ CallsAgree'
<1>1. \A s \in Schedules : \/ schedule'[s] = ScheduleAfterInvalidation(UnderApproval)[s]
                           \/ schedule[s].state = "active" /\ schedule'[s].state = "cancelled"
  BY DEF archive, CancelledByArchive, RowsOK, ScheduleRows
<1>2. RowsAgree' /\ HolderIsAuthorized' /\ OnePublication'
  BY <1>1, InvalidationAgrees DEF archive, UnderApproval
<1>3. \E collection \in {"archiving", "archived"} :
        /\ post' = [post EXCEPT !.version = post.version + 1, !.collection = collection]
        /\ collection = "archived" => ~post.live
  BY DEF archive, PostOK
<1>4. /\ post'.live = post.live /\ post'.reconciled = post.reconciled
      /\ post'.collection = "archived" => ~post.live
  BY <1>3 DEF PostOK
<1>5. \A s \in Schedules : publication[s] \notin Active /\ ~Unreconciled(s)
  BY ScheduleAssumption DEF archive, ArchivePermits, Publications
<1>6. approval' = NoApproval /\ UNCHANGED <<publication, sequence, worker>>
  BY DEF archive
<1>7. DownIsQuiet'
  BY <1>4, <1>5, <1>6 DEF DownIsQuiet, Unreconciled
<1> QED BY <1>2, <1>6, <1>7, AgreementKept DEF LiveStays

LEMMA WithdrawnOrRestoredKeeps ==
    ASSUME ScheduleInv, PostOK, confirmArchiveWithdrawal \/ restore
    PROVE  HolderIsAuthorized' /\ DownIsQuiet'
<1>1. /\ UNCHANGED <<schedule, reserved, publication, sequence, production, approval>>
      /\ post.collection \in {"archiving", "archived"}
  BY DEF confirmArchiveWithdrawal, restore
<1>2. HolderIsAuthorized'
  BY <1>1 DEF ScheduleInv, HolderIsAuthorized, CurrentAuthority
<1>3. \/ post'.collection = "active"
      \/ /\ ~post.live /\ post'.live = post.live /\ post'.reconciled = post.reconciled
  BY DEF confirmArchiveWithdrawal, restore, PostOK
<1>4. DownIsQuiet'
  BY <1>1, <1>3 DEF ScheduleInv, DownIsQuiet, Unreconciled
<1> QED BY <1>2, <1>4

-----------------------------------------------------------------------------
(* The invariant *)

LEMMA ScheduleInvIs ==
    ScheduleInv <=> /\ RowTypes /\ OnePublication /\ RowsAgree /\ CallsAgree
                    /\ HolderIsAuthorized /\ DownIsQuiet
  BY TypesAre, Zenon DEF ScheduleInv, RowsAgree

LEMMA ScheduleInvWillBe ==
    ASSUME RowTypes', OnePublication', RowsAgree', CallsAgree', HolderIsAuthorized', DownIsQuiet'
    PROVE  ScheduleInv'
  BY TypesWillBe, Zenon DEF ScheduleInv, RowsAgree

LEMMA ScheduleInitInv ==
    ASSUME ScheduleInit
    PROVE  ScheduleInv
<1>1. RowsOK
  BY ScheduleAssumption DEF ScheduleInit, RowsOK, ScheduleRows, ExecutionRows, NewSchedule,
     NewExecution, ScheduleStates, ExecutionStates
<1>2. PublicationsOK
  BY ScheduleAssumption DEF ScheduleInit, PublicationsOK, Statuses
<1>3. PostOK
  BY ScheduleAssumption, NoApprovalTypes DEF ScheduleInit, PostOK
<1>4. CallsOK
  BY IdleTypes DEF ScheduleInit, CallsOK
<1>5. OnePublication
  BY DEF ScheduleInit, OnePublication, Active
<1>6. RowsAgree
  BY DEF ScheduleInit, RowsAgree, ReservationHasClaimant, ScheduleAgreesWithExecution,
         LeaseIsClaim, NewSchedule, NewExecution
<1>7. CallsAgree
  BY DEF ScheduleInit, CallsAgree, Idle
<1>8. HolderIsAuthorized
  BY ScheduleAssumption DEF ScheduleInit, HolderIsAuthorized
<1>9. DownIsQuiet
  BY DEF ScheduleInit, DownIsQuiet
<1> QED BY <1>1, <1>2, <1>3, <1>4, <1>5, <1>6, <1>7, <1>8, <1>9, ScheduleInvIs DEF RowTypes

LEMMA ScheduleInvStep ==
    ASSUME ScheduleInv, ScheduleNext
    PROVE  ScheduleInv'
<1> DEFINE Kept == OnePublication' /\ RowsAgree' /\ CallsAgree' /\ HolderIsAuthorized' /\ DownIsQuiet'
<1>0. /\ RowTypes /\ RowsOK /\ PublicationsOK /\ PostOK /\ CallsOK /\ CallsAgree
      /\ RowTypes' /\ RowsOK'
  <2>1. RowTypes /\ CallsAgree
    BY ScheduleInvIs
  <2>2. RowTypes'
    BY <2>1, TypesStep
  <2> QED BY <2>1, <2>2 DEF RowTypes
<1>1. ASSUME NEW w \in Workers, NEW s \in Schedules, claimDueSchedule(w, s) PROVE Kept
  BY <1>0, <1>1, ValidationKeeps DEF claimDueSchedule
<1>2. ASSUME NEW w \in Workers, NEW s \in Schedules, NEW kind \in Kinds,
             retryExecutionForActor(w, s, kind)
      PROVE  Kept
  BY <1>0, <1>2, ValidationKeeps DEF retryExecutionForActor
<1>3. ASSUME NEW w \in Workers, claimSchedule(w) PROVE Kept
  BY <1>0, <1>3, ClaimKeeps
<1>4. ASSUME NEW w \in Workers, RecheckClaim(w) PROVE Kept
  <2>1. /\ worker[w].phase # "idle"
        /\ UNCHANGED <<schedule, execution, reserved, publication, sequence, production, approval, post>>
        /\ \/ worker' = [worker EXCEPT ![w].phase = "leased"]
           \/ worker' = [worker EXCEPT ![w].phase = "recording", ![w].seen = "blocked"]
    BY <1>0, <1>4 DEF RecheckClaim, CallsOK, WorkerRows
  <2>2. CallsAgree'
    BY <1>0, <2>1, OnlyCalls, CallGoesToWork, CallReads
  <2> QED BY <2>1, <2>2, OnlyCalls
<1>5. ASSUME NEW w \in Workers, retryExecution(w) PROVE Kept
  BY <1>0, <1>5, RetryKeeps
<1>6. ASSUME NEW w \in Workers, StartPublication(w) PROVE Kept
  BY <1>0, <1>6, StartKeeps
<1>7. ASSUME NEW w \in Workers, RetryPublication(w) PROVE Kept
  BY <1>0, <1>7, RetryPublicationKeeps
<1>8. ASSUME NEW w \in Workers, ResumePublication(w) PROVE Kept
  BY <1>0, <1>8, OnlyCalls, CallGoesToWork DEF ResumePublication
<1>9. ASSUME NEW w \in Workers, executionOutcome(w) PROVE Kept
  <2>1. /\ worker[w].phase # "idle"
        /\ UNCHANGED <<schedule, execution, reserved, publication, sequence, production, approval, post>>
    BY <1>9 DEF executionOutcome
  <2>2. \/ worker' = [worker EXCEPT ![w] = Idle]
        \/ \E seen \in {"blocked", "failed", "unknown", "completed"} :
              /\ worker' = [worker EXCEPT ![w].phase = "recording", ![w].seen = seen]
              /\ seen = "completed" => publication[worker[w].schedule] = "live"
    BY <1>0, <1>9 DEF executionOutcome, CallsOK, WorkerRows
  <2>3. CallsAgree'
    BY <1>0, <2>1, <2>2, OnlyCalls, CallReturns, CallReads
  <2> QED BY <2>1, <2>3, OnlyCalls
<1>10. ASSUME NEW w \in Workers, recordExecutionOutcome(w) PROVE Kept
  BY <1>0, <1>10, RecordKeeps
<1>11. ASSUME NEW w \in Workers, Crash(w) PROVE Kept
  BY <1>0, <1>11, OnlyCalls, CallReturns DEF Crash
<1>12. ASSUME NEW w \in Workers, NEW seen \in {"blocked", "unknown"}, AdvanceThrows(w, seen)
       PROVE  Kept
  BY <1>0, <1>12, OnlyCalls, CallReads DEF AdvanceThrows
<1>13. ASSUME NEW s \in Schedules,
              LeaseExpires(s) \/ ComesDue(s) \/ saveSchedule(s) \/ cancelSchedule(s)
       PROVE  Kept
  BY <1>0, <1>13, RowsMove
<1>14. ASSUME approve PROVE Kept
  <2>1. RowsAgree' /\ HolderIsAuthorized' /\ OnePublication'
    BY <1>0, <1>14, InvalidationAgrees DEF approve, UnderApproval
  <2>2. DownIsQuiet'
    BY <1>14 DEF approve, DownIsQuiet
  <2> QED BY <1>14, <2>1, <2>2, AgreementKept DEF approve, LiveStays
<1>15. ASSUME EditPost PROVE Kept
  <2>1. UnderApproval \subseteq Schedules
    BY DEF UnderApproval
  <2> QED BY <1>0, <1>15, <2>1, InvalidateApprovalKeeps, AgreementKept DEF EditPost, LiveStays
<1>16. ASSUME NEW p \in Publications, NEW status \in Active \cup Ended, Refresh(p, status) PROVE Kept
  BY <1>0, <1>16, RefreshKeeps
<1>17. ASSUME NEW s \in Schedules, retryDeployment(s) PROVE Kept
  BY <1>0, <1>17, RetryDeploymentKeeps
<1>18. ASSUME NEW p \in Publications, CommitLeaseExpires(p) PROVE Kept
  BY <1>0, <1>18, CommitLeaseKeeps
<1>19. ASSUME NEW p \in Publications, reconcileVerifiedBlogPostPublication(p) PROVE Kept
  <2>1. UNCHANGED <<schedule, execution, reserved, publication, worker>>
    BY <1>19 DEF reconcileVerifiedBlogPostPublication
  <2> QED BY <1>0, <1>19, <2>1, ReconcileKeeps, PublicationsKept, AgreementKept
<1>20. ASSUME PublishOther \/ PublishWithdrawal PROVE Kept
  BY <1>0, <1>20, PublishKeeps
<1>21. ASSUME archive PROVE Kept
  BY <1>0, <1>21, ArchiveKeeps
<1>22. ASSUME confirmArchiveWithdrawal \/ restore PROVE Kept
  <2>1. UNCHANGED <<schedule, execution, reserved, publication, worker>>
    BY <1>22 DEF confirmArchiveWithdrawal, restore
  <2> QED BY <1>0, <1>22, <2>1, WithdrawnOrRestoredKeeps, PublicationsKept, AgreementKept
<1>23. Kept
  BY <1>1, <1>2, <1>3, <1>4, <1>5, <1>6, <1>7, <1>8, <1>9, <1>10, <1>11, <1>12, <1>13, <1>14,
     <1>15, <1>16, <1>17, <1>18, <1>19, <1>20, <1>21, <1>22, ScheduleSteps, Zenon
<1> QED BY <1>0, <1>23, ScheduleInvWillBe

LEMMA ScheduleInvStutters ==
    ASSUME ScheduleInv, UNCHANGED vars
    PROVE  ScheduleInv'
<1>1. UNCHANGED <<schedule, execution, reserved, publication, sequence, started, production,
                  approval, approvals, post, worker>>
  BY DEF vars
<1>2. RowTypes /\ LiveStays
  BY <1>1, ScheduleInvIs DEF LiveStays
<1>3. RowTypes'
  BY <1>1, <1>2, TypesKept DEF RowTypes
<1> QED BY <1>1, <1>2, <1>3, OnlyCalls, AgreementKept, ScheduleInvWillBe

LEMMA ScheduleInvHolds == ScheduleSpec => []ScheduleInv
<1>1. ScheduleInv /\ [ScheduleNext]_vars => ScheduleInv'
  BY ScheduleInvStep, ScheduleInvStutters
<1> QED BY <1>1, ScheduleInitInv, PTL DEF ScheduleSpec

-----------------------------------------------------------------------------
(* The theorems *)

\* Every row keeps one of its states and every call one of its phases.
THEOREM ScheduleTypeCorrect == ScheduleSpec => []ScheduleTypeOK
<1>1. ScheduleInv => ScheduleTypeOK
  BY DEF ScheduleInv
<1> QED BY <1>1, ScheduleInvHolds, PTL

\* Publications of the site never overlap, whoever starts, retries or refreshes
\* them.
THEOREM PublicationsNeverOverlap == ScheduleSpec => []OnePublication
<1>1. ScheduleInv => OnePublication
  BY DEF ScheduleInv
<1> QED BY <1>1, ScheduleInvHolds, PTL

\* The reservation is held only for an execution still to be settled: every
\* outcome recorded, and every approval lost, gives it back.
THEOREM ReservationsHaveClaimants == ScheduleSpec => []ReservationHasClaimant
<1>1. ScheduleInv => ReservationHasClaimant
  BY DEF ScheduleInv
<1> QED BY <1>1, ScheduleInvHolds, PTL

\* Schedule and execution rows agree, whatever calls, crashes, lost leases and
\* invalidations interleave; a completed one has published.
THEOREM SchedulesAgreeWithExecutions == ScheduleSpec => []ScheduleAgreesWithExecution
<1>1. ScheduleInv => ScheduleAgreesWithExecution
  BY DEF ScheduleInv
<1> QED BY <1>1, ScheduleInvHolds, PTL

\* Nothing scheduled brings an archived post back up.
THEOREM ArchivedPostsStayDown == ScheduleSpec => []ArchivedStaysDown
<1>1. ScheduleInv => ArchivedStaysDown
  BY DEF ScheduleInv, DownIsQuiet, ArchivedStaysDown
<1> QED BY <1>1, ScheduleInvHolds, PTL

LEMMA StartIsAuthorized ==
    ASSUME ScheduleInv, ScheduleNext, NEW s \in Schedules,
           publication[s] = "none", publication'[s] = "requested"
    PROVE  CurrentAuthority(s) /\ schedule[s].state = "claimed"
<1>0. PublicationsOK /\ CallsAgree /\ s \in Publications
  BY ScheduleInvIs DEF RowTypes, Publications
<1>1. \E w \in Workers : StartPublication(w) /\ worker[w].schedule = s
  <2>1. ASSUME UNCHANGED publication PROVE FALSE
    BY <2>1
  <2>2. ASSUME NEW p \in Publications, NEW status,
               publication' = [publication EXCEPT ![p] = status], publication[p] # "none" \/ p # s
        PROVE  FALSE
    BY <1>0, <2>2 DEF PublicationsOK
  <2>3. ASSUME NEW w \in Workers, StartPublication(w), worker[w].schedule # s PROVE FALSE
    <3>1. worker[w].schedule \in Publications
      BY <1>0, <2>3, CallsAbout DEF StartPublication, Publications
    <3> QED BY <2>2, <2>3, <3>1 DEF StartPublication, Begin
  <2>4. ASSUME NEW w \in Workers, RetryPublication(w) PROVE FALSE
    <3>1. worker[w].schedule \in Publications
      BY <1>0, <2>4, CallsAbout DEF RetryPublication, Publications
    <3> QED BY <2>2, <2>4, <3>1 DEF RetryPublication
  <2>5. ASSUME NEW p \in Publications, NEW status \in Active \cup Ended, Refresh(p, status) PROVE FALSE
    <3>1. publication[p] # "none"
      BY <2>5 DEF Refresh, NextStatus
    <3> QED BY <2>2, <2>5, <3>1 DEF Refresh
  <2>6. ASSUME NEW t \in Schedules, retryDeployment(t) PROVE FALSE
    BY <2>2, <2>6 DEF retryDeployment, Publications
  <2>7. ASSUME NEW p \in Publications, CommitLeaseExpires(p) PROVE FALSE
    BY <2>2, <2>7 DEF CommitLeaseExpires
  <2>8. ASSUME PublishOther \/ PublishWithdrawal PROVE FALSE
    <3>1. "other" # s /\ "withdrawal" # s /\ {"other", "withdrawal"} \subseteq Publications
      BY ScheduleAssumption DEF Publications
    <3> QED BY <2>2, <2>8, <3>1 DEF PublishOther, PublishWithdrawal, Begin
  <2>9. ASSUME NEW w \in Workers,
               \/ claimSchedule(w) \/ RecheckClaim(w) \/ retryExecution(w) \/ ResumePublication(w)
               \/ executionOutcome(w) \/ recordExecutionOutcome(w) \/ Crash(w)
               \/ \E t \in Schedules : claimDueSchedule(w, t)
               \/ \E t \in Schedules, kind \in Kinds : retryExecutionForActor(w, t, kind)
               \/ \E seen \in {"blocked", "unknown"} : AdvanceThrows(w, seen)
        PROVE  FALSE
    <3>1. UNCHANGED publication
      BY <2>9 DEF claimSchedule, RecheckClaim, retryExecution, ResumePublication, executionOutcome,
         recordExecutionOutcome, Crash, claimDueSchedule, retryExecutionForActor, AdvanceThrows
    <3> QED BY <2>1, <3>1
  <2>10. ASSUME \/ approve \/ EditPost \/ archive \/ confirmArchiveWithdrawal \/ restore
                \/ \E t \in Schedules : \/ LeaseExpires(t) \/ ComesDue(t)
                                        \/ saveSchedule(t) \/ cancelSchedule(t)
                \/ \E p \in Publications : reconcileVerifiedBlogPostPublication(p)
         PROVE  FALSE
    <3>1. UNCHANGED publication
      BY <2>10 DEF approve, EditPost, archive, confirmArchiveWithdrawal, restore, LeaseExpires,
         ComesDue, saveSchedule, cancelSchedule, reconcileVerifiedBlogPostPublication
    <3> QED BY <2>1, <3>1
  <2> QED BY <2>3, <2>4, <2>5, <2>6, <2>7, <2>8, <2>9, <2>10, ScheduleSteps, Zenon
<1>2. PICK w \in Workers : StartPublication(w) /\ worker[w].schedule = s
  BY <1>1
<1>3. execution[s].state = "claimed" /\ reserved = s
  BY <1>2 DEF StartPublication, ProofIsCurrent
<1> QED BY <1>3 DEF ScheduleInv, ScheduleAgreesWithExecution, HolderIsAuthorized

\* A schedule's publication begins only under the authority the schedule was
\* activated with, although that authority was last read before the claim and
\* the start is a step of its own.
THEOREM SchedulesStartUnderAuthority == ScheduleSpec => StartsUnderAuthority
<1>1. ScheduleInv /\ [ScheduleNext]_vars =>
          [\A s \in Schedules :
              publication[s] = "none" /\ publication'[s] = "requested" =>
                  CurrentAuthority(s) /\ schedule[s].state = "claimed"]_vars
  BY StartIsAuthorized
<1> QED BY <1>1, ScheduleInvHolds, PTL DEF ScheduleSpec, StartsUnderAuthority
=============================================================================
